------------------------------- MODULE MCAccounts ------------------------------
(* Small instances of Accounts for TLC. *)
EXTENDS Accounts, TLC

CONSTANTS e1, e2, a1, q1, q2, q3

TwoEmails    == {e1, e2}
OneAddress   == {a1}
ThreeSlots   == {q1, q2, q3}

SameAddress == [e \in Email |-> a1]

================================================================================
