----------------------------- MODULE MCLiveAccess ------------------------------
(* Small instances of LiveAccess for TLC. *)
EXTENDS LiveAccess, TLC

CONSTANTS u1, u2, c1, c2

OneUser      == {u1}
TwoUsers     == {u1, u2}
OneSocket    == {c1}
TwoSockets   == {c1, c2}
ReadOrWrite  == {"viewer", "editor"}

AllOfOne     == [c \in Connection |-> u1]
EachItsOwn   == [c \in Connection |-> IF c = c1 THEN u1 ELSE u2]

\* Exchanging the two users together with their sockets.
Interchangeable ==
  {p \in Permutations({u1, u2, c1, c2}) : p[u1] \in {u1, u2} /\ (p[u1] = u1) = (p[c1] = c1)
                                         /\ p[c1] \in {c1, c2}}

================================================================================
