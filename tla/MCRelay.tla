-------------------------------- MODULE MCRelay --------------------------------
(* Small instances of Relay for TLC. *)
EXTENDS Relay, TLC

CONSTANTS c1, c2

TwoPages   == {c1, c2}
TwoAndNone == [c \in Connection |-> IF c = c1 THEN 2 ELSE 0]

================================================================================
