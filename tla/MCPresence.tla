------------------------------ MODULE MCPresence -------------------------------
(* Small instances of Presence for TLC. *)
EXTENDS Presence, TLC

CONSTANTS p1, p2, p3, s1, s2, s3

ThreePages   == {p1, p2, p3}
ThreeSockets == {s1, s2, s3}

\* Only one of the pages moves its cursor.
OneMoves == [p \in Page |-> IF p = p1 THEN 2 ELSE 0]

Interchangeable == Permutations(Socket) \cup Permutations({p2, p3})

================================================================================
