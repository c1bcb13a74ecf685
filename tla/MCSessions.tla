------------------------------ MODULE MCSessions -------------------------------
(* Small instances of Sessions for TLC. *)
EXTENDS Sessions, TLC

CONSTANTS p1, p2, k1

TwoPersons == {p1, p2}
OneCall    == {k1}

================================================================================
