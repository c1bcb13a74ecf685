--------------------------- MODULE MCDocumentSharing ---------------------------
(* Small instances of DocumentSharing for TLC. *)
EXTENDS DocumentSharing, TLC

CONSTANTS u1, u2, u3, q1, q2

ThreeUsers  == {u1, u2, u3}
TwoRequests == {q1, q2}
ReadOrWrite == {"viewer", "editor"}

================================================================================
