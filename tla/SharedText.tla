------------------------------ MODULE SharedText -------------------------------
(***************************************************************************)
(* What Relay promises its users: a text that pages share, without sockets *)
(* or frames.  A page writes in a copy of its own; what is in its copy may *)
(* come to the text if the page is a writer's, and what is in the text may *)
(* come to any page.  An edit is made once, by its author, and nothing is  *)
(* ever taken back.                                                        *)
(***************************************************************************)

CONSTANTS Page, Edit

VARIABLES text, copy, writers

vars == <<text, copy, writers>>

Init ==
  /\ text = {}
  /\ copy = [p \in Page |-> {}]
  /\ writers = {}

Admit(p) ==
  /\ writers' = writers \cup {p}
  /\ UNCHANGED <<text, copy>>

New(e) == e \notin text /\ \A p \in Page : e \notin copy[p]

Write(p, e) ==
  /\ e[1] = p /\ New(e)
  /\ copy' = [copy EXCEPT ![p] = @ \cup {e}]
  /\ UNCHANGED <<text, writers>>

Merge(p, edits) ==
  /\ p \in writers /\ edits \subseteq copy[p]
  /\ text' = text \cup edits
  /\ UNCHANGED <<copy, writers>>

Learn(p, edits) ==
  /\ edits \subseteq text
  /\ copy' = [copy EXCEPT ![p] = @ \cup edits]
  /\ UNCHANGED <<text, writers>>

Next ==
  \E p \in Page :
    \/ Admit(p)
    \/ \E e \in Edit : Write(p, e)
    \/ \E edits \in SUBSET Edit : Merge(p, edits) \/ Learn(p, edits)

Spec == Init /\ [][Next]_vars

================================================================================
