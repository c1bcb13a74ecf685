----------------------------- MODULE MCRoomManager -----------------------------
(* Small instances of RoomManager for TLC. *)
EXTENDS RoomManager, TLC

CONSTANTS d1, c1, c2, c3, r1, r2, u1, u2

OneDocument   == {d1}
TwoSockets    == {c1, c2}
ThreeSockets  == {c1, c2, c3}
OneEditor     == {c1}
TwoRooms      == {r1, r2}
OneUpdate     == {u1}
TwoUpdates    == {u1, u2}
Nothing       == {}

AllSameDocument == [c \in Connection |-> d1]

Interchangeable == Permutations(Room) \cup Permutations(Update)

================================================================================
