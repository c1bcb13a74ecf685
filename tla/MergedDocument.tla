---------------------------- MODULE MergedDocument ----------------------------
(***************************************************************************)
(* What RoomManager promises its users: a document is one growing set of   *)
(* merged updates, of which the durable part grows too.  A crash falls     *)
(* back to the durable part; deleting, or letting a room go too early,     *)
(* ends the promise for that document ("gone").                            *)
(***************************************************************************)
EXTENDS FiniteSets

CONSTANTS Document, Update

VARIABLES content, durable, gone

vars == <<content, durable, gone>>

Init ==
  /\ content = [d \in Document |-> {}]
  /\ durable = [d \in Document |-> {}]
  /\ gone = {}

Edit(d, u) ==
  /\ d \notin gone
  /\ content' = [content EXCEPT ![d] = @ \cup {u}]
  /\ UNCHANGED <<durable, gone>>

Save(d, saved) ==
  /\ d \notin gone
  /\ durable[d] \subseteq saved /\ saved \subseteq content[d]
  /\ durable' = [durable EXCEPT ![d] = saved]
  /\ UNCHANGED <<content, gone>>

\* Several rooms may be let go at once, when the process stops; the step that
\* lets one go may be the one that saved it.
End(ds) ==
  /\ gone' = gone \cup ds
  /\ content' = [d \in Document |-> IF d \in ds THEN {} ELSE content[d]]
  /\ durable' = [d \in Document |-> IF d \in ds THEN {} ELSE durable[d]]

Crash ==
  /\ content' = durable
  /\ UNCHANGED <<durable, gone>>

Next ==
  \/ \E d \in Document, u \in Update : Edit(d, u)
  \/ \E d \in Document, saved \in SUBSET Update : Save(d, saved)
  \/ \E ds \in SUBSET Document : End(ds)
  \/ Crash

Spec == Init /\ [][Next]_vars

================================================================================
