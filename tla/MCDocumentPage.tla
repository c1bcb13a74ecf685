----------------------------- MODULE MCDocumentPage -----------------------------
(* Small instances of DocumentPage for TLC. *)
EXTENDS DocumentPage, TLC

CONSTANTS d1, d2, f1, f2

TwoDocuments == {d1, d2}
TwoSlots     == {f1, f2}

================================================================================
