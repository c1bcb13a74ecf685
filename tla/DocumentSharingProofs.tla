------------------------- MODULE DocumentSharingProofs -------------------------
(***************************************************************************)
(* Proofs about DocumentSharing, for any users, any number of overlapping  *)
(* requests and any number of failures: its types, the rows that deletion  *)
(* and transfer leave, and that a change of access is published.           *)
(***************************************************************************)
EXTENDS DocumentSharing, SequenceTheorems, TLAPS

DocumentType ==
  [exists : BOOLEAN, owner_id : User, is_link_shareable : BOOLEAN,
   link_share_role : Grantable]

Pc == {"free", "authorised", "locked", "read", "written", "committed", "publishing"}

AnyEvent == User \cup {Everyone, Deleted}

RequestType ==
  [pc : Pc, call : Call \cup {NoCall}, access : DocumentType \cup {NoRole},
   row : Row, old_row : Row, publish : Seq(AnyEvent)]

Types ==
  /\ document \in DocumentType
  /\ perm \in [User -> Row]
  /\ request \in [Request -> RequestType]
  /\ begun \in 0..MaxRequests /\ failures \in 0..MaxFailures
  /\ unaware \subseteq User /\ displaced \subseteq User

\* A request that has started knows what it was asked and the document it read,
\* and has events to publish from its commit on.
Started ==
  \A q \in Request :
    /\ request[q].pc # "free" => request[q].call \in Call /\ request[q].access \in DocumentType
    /\ request[q].pc \in {"locked", "written"} => request[q].call \in Transfer
    /\ request[q].pc \in {"committed", "publishing"} <=> request[q].publish # <<>>

Shape == Types /\ Started

--------------------------------------------------------------------------------
(* Calls and roles. *)

\* What each kind of call carries.
LEMMA CallShape ==
  ASSUME NEW c
  PROVE  /\ c \in Update => c.op = "update" /\ c.sharing \in Sharing
         /\ c \in Delete => c.op = "delete"
         /\ c \in Grant => c.op = "grant" /\ c.target \in User /\ c.role \in Grantable
         /\ c \in Revoke => c.op = "revoke" /\ c.target \in User
         /\ c \in Transfer => c.op = "transfer" /\ c.target \in User
  BY DEF Update, Delete, Grant, Revoke, Transfer, NoCall

LEMMA RowFacts ==
  /\ Grantable \subseteq Row /\ "owner" \in Row /\ NoRole \in Row
  /\ NoRole \notin Grantable /\ "owner" \notin Grantable /\ NoRole # "owner"
  /\ "editor" \in Row /\ "editor" # NoRole /\ "editor" # "owner"
  BY SharingAssumption DEF Row, NoRole, Role

\* The role of a user depends on the user's own row, on whether the user is the
\* owner, and on the link settings.
LEMMA RoleDependsOn ==
  ASSUME NEW d1, NEW p1, NEW d2, NEW p2, NEW u,
         d1.exists = d2.exists, p1[u] = p2[u],
         (d1.owner_id = u) = (d2.owner_id = u),
         d1.is_link_shareable = d2.is_link_shareable,
         d1.link_share_role = d2.link_share_role
  PROVE  EffectiveRole(d1, p1, u) = EffectiveRole(d2, p2, u)
  <1>1. CASE d1.owner_id = u
    <2>1. d2.owner_id = u
      BY <1>1
    <2>2. QED
      BY <1>1, <2>1 DEF EffectiveRole, compute_role
  <1>2. CASE d1.owner_id # u
    <2>1. d2.owner_id # u
      BY <1>2
    <2>2. QED
      BY <1>2, <2>1 DEF EffectiveRole, compute_role
  <1>3. QED
    BY <1>1, <1>2

LEMMA RoleSameRow ==
  ASSUME NEW d, NEW p1, NEW p2, NEW u, p1[u] = p2[u]
  PROVE  EffectiveRole(d, p1, u) = EffectiveRole(d, p2, u)
  BY DEF EffectiveRole, compute_role

\* A sequence of events is its head and its tail.
LEMMA TailFacts ==
  ASSUME NEW S, NEW s \in Seq(S), s # <<>>
  PROVE  /\ Head(s) \in S /\ Head(s) = s[1]
         /\ Len(s) # 1 => Tail(s) \in Seq(S) /\ Tail(s) # <<>>
         /\ \A i \in DOMAIN s : i = 1 \/ (i - 1 \in DOMAIN Tail(s) /\ s[i] = Tail(s)[i - 1])
         /\ \A i \in DOMAIN Tail(s) : i + 1 \in DOMAIN s /\ s[i + 1] = Tail(s)[i]
         /\ Len(s) = 1 => DOMAIN s = {1}
  <1>1. Len(s) \in Nat /\ Len(s) # 0 /\ DOMAIN s = 1..Len(s)
    BY EmptySeq, LenProperties
  <1>2. /\ Head(s) \in S /\ Head(s) = s[1]
        /\ Tail(s) \in Seq(S) /\ Len(Tail(s)) = Len(s) - 1
        /\ \A i \in 1..Len(Tail(s)) : Tail(s)[i] = s[i + 1]
    BY <1>1, HeadTailProperties
  <1>3. Len(s) # 1 => Tail(s) # <<>>
    <2>1. Len(<<>>) = 0
      OBVIOUS
    <2>2. Len(s) # 1 => Len(Tail(s)) # 0
      BY <1>1, <1>2
    <2>3. QED
      BY <2>1, <2>2
  <1>4. ASSUME NEW i \in DOMAIN s, i # 1
        PROVE  i - 1 \in DOMAIN Tail(s) /\ s[i] = Tail(s)[i - 1]
    <2>1. i - 1 \in 1..Len(Tail(s)) /\ (i - 1) + 1 = i
      BY <1>1, <1>2, <1>4
    <2>2. DOMAIN Tail(s) = 1..Len(Tail(s))
      BY <1>2, LenProperties
    <2>3. QED
      BY <1>2, <2>1, <2>2
  <1>5. ASSUME NEW i \in DOMAIN Tail(s)
        PROVE  i + 1 \in DOMAIN s /\ s[i + 1] = Tail(s)[i]
    <2>1. DOMAIN Tail(s) = 1..Len(Tail(s))
      BY <1>2, LenProperties
    <2>2. QED
      BY <1>1, <1>2, <1>5, <2>1
  <1>6. Len(s) = 1 => DOMAIN s = {1}
    BY <1>1
  <1>7. QED
    BY <1>2, <1>3, <1>4, <1>5, <1>6

--------------------------------------------------------------------------------
(* Types. *)

LEMMA FreeShape == Free \in RequestType /\ Free.pc = "free" /\ Free.publish = <<>>
  BY RowFacts DEF Free, RequestType, Pc

LEMMA CanWriteType ==
  ASSUME perm \in [User -> Row], NEW u \in User, NEW row \in Row, NEW role \in Row
  PROVE  Written(row, role, u) \in Row
  BY DEF Written

\* A step that gives slot q the record r, and keeps the other types, keeps Shape.
LEMMA ShapeFrame ==
  ASSUME Shape, NEW q \in Request, NEW r \in RequestType,
         request' = [request EXCEPT ![q] = r],
         r.pc # "free" => r.call \in Call /\ r.access \in DocumentType,
         r.pc \in {"locked", "written"} => r.call \in Transfer,
         r.pc \in {"committed", "publishing"} <=> r.publish # <<>>,
         document' \in DocumentType, perm' \in [User -> Row],
         begun' \in 0..MaxRequests, failures' \in 0..MaxFailures,
         unaware' \subseteq User, displaced' \subseteq User
  PROVE  Shape'
  <1>1. Types'
    BY DEF Shape, Types
  <1>2. Started'
    BY DEF Shape, Types, Started
  <1>3. QED
    BY <1>1, <1>2 DEF Shape

LEMMA FinishShape ==
  ASSUME Shape, NEW q \in Request, Finish(q),
         document' \in DocumentType, perm' \in [User -> Row],
         begun' \in 0..MaxRequests, failures' \in 0..MaxFailures,
         unaware' \subseteq User, displaced' \subseteq User
  PROVE  Shape'
  BY FreeShape, ShapeFrame DEF Finish

LEMMA AbortShape ==
  ASSUME Shape, NEW q \in Request, Abort(q), UNCHANGED <<begun, failures>>
  PROVE  Shape'
  BY FinishShape DEF Abort, Shape, Types

\* A commit by a request that holds nothing to publish yet.
LEMMA CommitShape ==
  ASSUME Shape, NEW q \in Request, request[q].pc # "free",
         NEW doc \in DocumentType, NEW p \in [User -> Row], NEW events \in Seq(AnyEvent),
         events # <<>>, Commit(q, doc, p, events), UNCHANGED <<begun, failures>>,
         displaced' \subseteq User
  PROVE  Shape'
  <1> DEFINE r == [request[q] EXCEPT !.pc = "committed", !.publish = events]
  <1>1. request' = [request EXCEPT ![q] = r]
    BY DEF Commit, Shape, Types
  <1>2. /\ r \in RequestType /\ r.pc = "committed" /\ r.publish = events
        /\ r.call = request[q].call /\ r.access = request[q].access
    BY DEF Shape, Types, RequestType, Pc
  <1>3. r.call \in Call /\ r.access \in DocumentType
    BY <1>2 DEF Shape, Started
  <1>4. unaware' \subseteq User /\ document' \in DocumentType /\ perm' \in [User -> Row]
    BY DEF Commit, Shape, Types
  <1>5. begun' \in 0..MaxRequests /\ failures' \in 0..MaxFailures
    BY DEF Shape, Types
  <1> HIDE DEF r
  <1>6. QED
    BY <1>1, <1>2, <1>3, <1>4, <1>5, ShapeFrame

LEMMA BeginShape ==
  ASSUME Shape, NEW q \in Request, NEW caller \in User, NEW call \in Call,
         Begin(q, caller, call)
  PROVE  Shape'
  <1> DEFINE r == [Free EXCEPT !.pc = "authorised", !.call = call, !.access = document]
  <1>1. request' = [request EXCEPT ![q] = r]
    BY DEF Begin
  <1>2. /\ r \in RequestType /\ r.pc = "authorised" /\ r.publish = <<>>
        /\ r.call = call /\ r.access = document
    BY FreeShape DEF Shape, Types, RequestType, Pc
  <1>3. /\ document' \in DocumentType /\ perm' \in [User -> Row]
        /\ begun' \in 0..MaxRequests /\ failures' \in 0..MaxFailures
        /\ unaware' \subseteq User /\ displaced' \subseteq User
    BY SharingAssumption DEF Begin, Shape, Types
  <1>4. r.access \in DocumentType /\ r.call \in Call
    BY <1>2 DEF Shape, Types
  <1> HIDE DEF r
  <1>5. QED
    BY <1>1, <1>2, <1>3, <1>4, ShapeFrame

LEMMA ReadRowShape ==
  ASSUME Shape, NEW q \in Request, ReadRow(q)
  PROVE  Shape'
  <1> DEFINE row == perm[request[q].call.target]
             r == [request[q] EXCEPT !.pc = "read", !.row = row]
  <1>1. request[q].call \in Grant \cup Revoke \cup Transfer
    BY DEF ReadRow, At, Doing
  <1>2. row \in Row
    BY <1>1, CallShape DEF Shape, Types
  <1>3. CASE Finish(q)
    BY <1>3, FinishShape DEF ReadRow, Shape, Types
  <1>4. CASE request' = [request EXCEPT ![q].pc = "read", ![q].row = row]
    <2>1. request' = [request EXCEPT ![q] = r]
      BY <1>4 DEF Shape, Types
    <2>2. /\ r \in RequestType /\ r.pc = "read" /\ r.publish = request[q].publish
          /\ r.call = request[q].call /\ r.access = request[q].access
      BY <1>2 DEF Shape, Types, RequestType, Pc
    <2>3. request[q].pc \in {"authorised", "locked"}
      BY DEF ReadRow, At
    <2>4. r.publish = <<>> /\ r.call \in Call /\ r.access \in DocumentType
      BY <2>2, <2>3 DEF Shape, Started
    <2>5. /\ document' \in DocumentType /\ perm' \in [User -> Row]
          /\ begun' \in 0..MaxRequests /\ failures' \in 0..MaxFailures
          /\ unaware' \subseteq User /\ displaced' \subseteq User
      BY DEF ReadRow, Shape, Types
    <2> HIDE DEF r
    <2>6. QED
      BY <2>1, <2>2, <2>4, <2>5, ShapeFrame
  <1>5. QED
    BY <1>3, <1>4 DEF ReadRow

LEMMA UpdateShape ==
  ASSUME Shape, NEW q \in Request, UpdateDocument(q)
  PROVE  Shape'
  <1>1. CASE ~document.exists
    BY <1>1, AbortShape DEF UpdateDocument
  <1>2. CASE document.exists
    <2> DEFINE asked == request[q].call.sharing
               access == request[q].access
               doc == [document EXCEPT
                   !.is_link_shareable =
                     Changed(asked.is_link_shareable, access.is_link_shareable, @),
                   !.link_share_role =
                     Changed(asked.link_share_role, access.link_share_role, @)]
    <2>1. asked \in Sharing
      BY CallShape DEF UpdateDocument, At, Doing
    <2>2. doc \in DocumentType
      BY <2>1 DEF Changed, Sharing, DocumentType, Shape, Types
    <2>3. Commit(q, doc, perm, <<Everyone>>) /\ UNCHANGED <<begun, failures, displaced>>
      BY <1>2 DEF UpdateDocument
    <2>4. <<Everyone>> \in Seq(AnyEvent) /\ <<Everyone>> # <<>>
      BY DEF AnyEvent
    <2>5. request[q].pc # "free" /\ perm \in [User -> Row] /\ displaced' \subseteq User
      BY <2>3 DEF UpdateDocument, At, Shape, Types
    <2> HIDE DEF doc
    <2>6. QED
      BY <2>2, <2>3, <2>4, <2>5, CommitShape
  <1>3. QED
    BY <1>1, <1>2

LEMMA DeleteShape ==
  ASSUME Shape, NEW q \in Request, DeleteDocument(q)
  PROVE  Shape'
  <1> DEFINE doc == [document EXCEPT !.exists = FALSE]
             p == [u \in User |-> NoRole]
  <1>1. doc \in DocumentType /\ p \in [User -> Row]
    BY RowFacts DEF DocumentType, Shape, Types
  <1>2. Commit(q, doc, p, <<Deleted>>) /\ UNCHANGED <<begun, failures, displaced>>
    BY DEF DeleteDocument
  <1>3. <<Deleted>> \in Seq(AnyEvent) /\ <<Deleted>> # <<>>
    BY DEF AnyEvent
  <1>4. request[q].pc # "free" /\ displaced' \subseteq User
    BY <1>2 DEF DeleteDocument, At, Shape, Types
  <1> HIDE DEF doc, p
  <1>5. QED
    BY <1>1, <1>2, <1>3, <1>4, CommitShape

LEMMA GrantShape ==
  ASSUME Shape, NEW q \in Request, GrantPermission(q)
  PROVE  Shape'
  <1> DEFINE u == request[q].call.target
             row == request[q].row
             role == request[q].call.role
             p == [perm EXCEPT ![u] = Written(row, role, u)]
  <1>1. u \in User /\ role \in Row /\ row \in Row
    BY CallShape, RowFacts DEF GrantPermission, At, Doing, Shape, Types, RequestType
  <1>2. CASE Abort(q)
    BY <1>2, AbortShape DEF GrantPermission
  <1>3. CASE Commit(q, document, p, <<u>>) /\ UNCHANGED displaced
    <2>1. p \in [User -> Row]
      BY <1>1, CanWriteType DEF Shape, Types
    <2>2. <<u>> \in Seq(AnyEvent) /\ <<u>> # <<>>
      BY <1>1 DEF AnyEvent
    <2>3. /\ request[q].pc # "free" /\ document \in DocumentType
          /\ displaced' \subseteq User /\ UNCHANGED <<begun, failures>>
      BY <1>3 DEF GrantPermission, At, Shape, Types
    <2> HIDE DEF p
    <2>4. QED
      BY <1>3, <2>1, <2>2, <2>3, CommitShape
  <1>4. QED
    BY <1>2, <1>3 DEF GrantPermission

LEMMA RevokeShape ==
  ASSUME Shape, NEW q \in Request, RevokePermission(q)
  PROVE  Shape'
  <1> DEFINE u == request[q].call.target
             p == [perm EXCEPT ![u] = NoRole]
  <1>1. u \in User
    BY CallShape DEF RevokePermission, At, Doing
  <1>2. p \in [User -> Row] /\ document \in DocumentType
    BY RowFacts DEF Shape, Types
  <1>3. Commit(q, document, p, <<u>>) /\ UNCHANGED <<begun, failures, displaced>>
    BY DEF RevokePermission
  <1>4. <<u>> \in Seq(AnyEvent) /\ <<u>> # <<>>
    BY <1>1 DEF AnyEvent
  <1>5. request[q].pc # "free" /\ displaced' \subseteq User
    BY <1>3 DEF RevokePermission, At, Shape, Types
  <1> HIDE DEF p
  <1>6. QED
    BY <1>2, <1>3, <1>4, <1>5, CommitShape

LEMMA TransferLocksShape ==
  ASSUME Shape, NEW q \in Request, TransferLocks(q)
  PROVE  Shape'
  <1>1. CASE Abort(q)
    BY <1>1, AbortShape DEF TransferLocks
  <1>2. CASE /\ request' = [request EXCEPT ![q].pc = "locked"]
             /\ UNCHANGED <<document, perm, unaware, displaced>>
    <2> DEFINE r == [request[q] EXCEPT !.pc = "locked"]
    <2>1. request' = [request EXCEPT ![q] = r]
      BY <1>2 DEF Shape, Types
    <2>2. /\ r \in RequestType /\ r.pc = "locked" /\ r.publish = request[q].publish
          /\ r.call = request[q].call /\ r.access = request[q].access
      BY DEF Shape, Types, RequestType, Pc
    <2>3. /\ r.publish = <<>> /\ r.call \in Call /\ r.access \in DocumentType
          /\ r.call \in Transfer
      BY <2>2 DEF TransferLocks, At, Doing, Shape, Started
    <2>4. /\ document' \in DocumentType /\ perm' \in [User -> Row]
          /\ begun' \in 0..MaxRequests /\ failures' \in 0..MaxFailures
          /\ unaware' \subseteq User /\ displaced' \subseteq User
      BY <1>2 DEF TransferLocks, Shape, Types
    <2> HIDE DEF r
    <2>5. QED
      BY <2>1, <2>2, <2>3, <2>4, ShapeFrame
  <1>3. QED
    BY <1>1, <1>2 DEF TransferLocks

LEMMA TransferWritesShape ==
  ASSUME Shape, NEW q \in Request, TransferWrites(q)
  PROVE  Shape'
  <1> DEFINE old == perm[request[q].access.owner_id]
  <1>1. CASE Abort(q)
    BY <1>1, AbortShape DEF TransferWrites
  <1>2. CASE /\ request' = [request EXCEPT ![q].pc = "written", ![q].old_row = old]
             /\ UNCHANGED <<document, perm, unaware, displaced>>
    <2> DEFINE r == [request[q] EXCEPT !.pc = "written", !.old_row = old]
    <2>1. request' = [request EXCEPT ![q] = r]
      BY <1>2 DEF Shape, Types
    <2>2. request[q].pc = "read" /\ request[q].call \in Transfer
      BY DEF TransferWrites, At, Doing
    <2>3. request[q].access \in DocumentType /\ old \in Row
      BY <2>2 DEF Shape, Started, Types, DocumentType
    <2>4. /\ r \in RequestType /\ r.pc = "written" /\ r.publish = request[q].publish
          /\ r.call = request[q].call /\ r.access = request[q].access
      BY <2>3 DEF Shape, Types, RequestType, Pc
    <2>5. /\ r.publish = <<>> /\ r.call \in Call /\ r.access \in DocumentType
          /\ r.call \in Transfer
      BY <2>2, <2>4 DEF Shape, Started
    <2>6. /\ document' \in DocumentType /\ perm' \in [User -> Row]
          /\ begun' \in 0..MaxRequests /\ failures' \in 0..MaxFailures
          /\ unaware' \subseteq User /\ displaced' \subseteq User
      BY <1>2 DEF TransferWrites, Shape, Types
    <2> HIDE DEF r
    <2>7. QED
      BY <2>1, <2>4, <2>5, <2>6, ShapeFrame
  <1>3. QED
    BY <1>1, <1>2 DEF TransferWrites

\* The permission rows a transfer commits.
TransferRows(q) ==
  LET new == request[q].call.target
      previous == request[q].access.owner_id
      old_row == request[q].old_row
      withNew == [perm EXCEPT ![new] = Written(request[q].row, "owner", new)]
  IN IF old_row = NoRole THEN withNew
     ELSE [withNew EXCEPT ![previous] = Written(old_row, "editor", previous)]

\* What a transfer that commits does.
LEMMA TransferCommitsFacts ==
  ASSUME Shape, NEW q \in Request, TransferCommits(q)
  PROVE  LET new == request[q].call.target
             previous == request[q].access.owner_id
             doc == [document EXCEPT !.owner_id = new]
         IN /\ request[q].pc = "written" /\ request[q].call \in Transfer
            /\ new \in User /\ previous \in User
            /\ doc \in DocumentType /\ TransferRows(q) \in [User -> Row]
            /\ UNCHANGED <<begun, failures>>
            /\ \/ Abort(q)
               \/ /\ Commit(q, doc, TransferRows(q), <<previous, new>>)
                  /\ displaced' = displaced \cup ({document.owner_id} \ {previous, new})
  <1> DEFINE new == request[q].call.target
             previous == request[q].access.owner_id
             withNew == [perm EXCEPT ![new] = Written(request[q].row, "owner", new)]
             doc == [document EXCEPT !.owner_id = new]
  <1>1. request[q].pc = "written" /\ request[q].call \in Transfer
    BY DEF TransferCommits, At, Doing
  <1>2. new \in User /\ previous \in User
    BY <1>1, CallShape DEF Shape, Started, DocumentType
  <1>3. request[q].row \in Row /\ request[q].old_row \in Row
    BY DEF Shape, Types, RequestType
  <1>4. doc \in DocumentType
    BY <1>2 DEF Shape, Types, DocumentType
  <1>5. Written(request[q].row, "owner", new) \in Row
    BY <1>2, <1>3, CanWriteType, RowFacts DEF Shape, Types
  <1>6. Written(request[q].old_row, "editor", previous) \in Row
    BY <1>2, <1>3, CanWriteType, RowFacts DEF Shape, Types
  <1>7. TransferRows(q) \in [User -> Row]
    BY <1>5, <1>6 DEF TransferRows, Shape, Types
  <1>8. UNCHANGED <<begun, failures>>
    BY DEF TransferCommits
  <1>9. \/ Abort(q)
        \/ /\ Commit(q, doc, TransferRows(q), <<previous, new>>)
           /\ displaced' = displaced \cup ({document.owner_id} \ {previous, new})
    BY DEF TransferCommits, TransferRows
  <1>10. QED
    BY <1>1, <1>2, <1>4, <1>7, <1>8, <1>9

LEMMA TransferCommitsShape ==
  ASSUME Shape, NEW q \in Request, TransferCommits(q)
  PROVE  Shape'
  <1> DEFINE new == request[q].call.target
             previous == request[q].access.owner_id
             doc == [document EXCEPT !.owner_id = new]
             p == TransferRows(q)
             events == <<previous, new>>
  <1>1. /\ request[q].pc = "written" /\ new \in User /\ previous \in User
        /\ doc \in DocumentType /\ p \in [User -> Row]
        /\ UNCHANGED <<begun, failures>>
        /\ \/ Abort(q)
           \/ /\ Commit(q, doc, p, events)
              /\ displaced' = displaced \cup ({document.owner_id} \ {previous, new})
    BY TransferCommitsFacts
  <1>2. CASE Abort(q)
    BY <1>1, <1>2, AbortShape
  <1>3. CASE /\ Commit(q, doc, p, events)
             /\ displaced' = displaced \cup ({document.owner_id} \ {previous, new})
    <2>1. events \in Seq(AnyEvent) /\ events # <<>>
      BY <1>1 DEF AnyEvent
    <2>2. displaced' \subseteq User
      BY <1>3 DEF Shape, Types, DocumentType
    <2> HIDE DEF doc, p, events
    <2>3. QED
      BY <1>1, <1>3, <2>1, <2>2, CommitShape
  <1>4. QED
    BY <1>1, <1>2, <1>3

LEMMA RefreshShape ==
  ASSUME Shape, NEW q \in Request, Refresh(q)
  PROVE  Shape'
  <1> DEFINE r == [request[q] EXCEPT !.pc = "publishing"]
  <1>1. /\ document' \in DocumentType /\ perm' \in [User -> Row]
        /\ begun' \in 0..MaxRequests /\ failures' \in 0..MaxFailures
        /\ unaware' \subseteq User /\ displaced' \subseteq User
    BY DEF Refresh, Shape, Types
  <1>2. CASE Finish(q)
    BY <1>1, <1>2, FinishShape
  <1>3. CASE request' = [request EXCEPT ![q].pc = "publishing"]
    <2>1. request' = [request EXCEPT ![q] = r]
      BY <1>3 DEF Shape, Types
    <2>2. /\ r \in RequestType /\ r.pc = "publishing" /\ r.publish = request[q].publish
          /\ r.call = request[q].call /\ r.access = request[q].access
      BY DEF Shape, Types, RequestType, Pc
    <2>3. r.publish # <<>> /\ r.call \in Call /\ r.access \in DocumentType
      BY <2>2 DEF Refresh, Shape, Started
    <2> HIDE DEF r
    <2>4. QED
      BY <1>1, <2>1, <2>2, <2>3, ShapeFrame
  <1>4. QED
    BY <1>2, <1>3 DEF Refresh

LEMMA ToldShape ==
  ASSUME Shape, NEW q \in Request, request[q].pc = "publishing", Told(q),
         document' \in DocumentType, perm' \in [User -> Row],
         begun' \in 0..MaxRequests, failures' \in 0..MaxFailures,
         unaware' \subseteq User, displaced' \subseteq User
  PROVE  Shape'
  <1> DEFINE events == request[q].publish
             r == [request[q] EXCEPT !.publish = Tail(events)]
  <1>1. events \in Seq(AnyEvent) /\ events # <<>>
    BY DEF Shape, Types, RequestType, Started
  <1>2. CASE Finish(q)
    BY <1>2, FinishShape
  <1>3. CASE Len(events) # 1 /\ request' = [request EXCEPT ![q].publish = Tail(@)]
    <2>1. request' = [request EXCEPT ![q] = r]
      BY <1>3 DEF Shape, Types
    <2>2. Tail(events) \in Seq(AnyEvent) /\ Tail(events) # <<>>
      BY <1>1, <1>3, TailFacts
    <2>3. /\ r \in RequestType /\ r.pc = "publishing" /\ r.publish = Tail(events)
          /\ r.call = request[q].call /\ r.access = request[q].access
      BY <2>2 DEF Shape, Types, RequestType, Pc
    <2>4. r.publish # <<>> /\ r.call \in Call /\ r.access \in DocumentType
      BY <2>2, <2>3 DEF Shape, Started
    <2> HIDE DEF r
    <2>5. QED
      BY <2>1, <2>3, <2>4, ShapeFrame
  <1>4. QED
    BY <1>2, <1>3 DEF Told

LEMMA PublishShape ==
  ASSUME Shape, NEW q \in Request, Publish(q) \/ PublishFails(q)
  PROVE  Shape'
  <1>1. request[q].pc = "publishing" /\ Told(q)
    BY DEF Publish, PublishFails
  <1>2. /\ document' \in DocumentType /\ perm' \in [User -> Row]
        /\ begun' \in 0..MaxRequests /\ unaware' \subseteq User /\ displaced' \subseteq User
    BY DEF Publish, PublishFails, Shape, Types
  <1>3. failures' \in 0..MaxFailures
    BY SharingAssumption DEF Publish, PublishFails, Shape, Types
  <1>4. QED
    BY <1>1, <1>2, <1>3, ToldShape

LEMMA FailsShape ==
  ASSUME Shape, NEW q \in Request, Fails(q)
  PROVE  Shape'
  <1>1. /\ document' \in DocumentType /\ perm' \in [User -> Row]
        /\ begun' \in 0..MaxRequests /\ unaware' \subseteq User /\ displaced' \subseteq User
    BY DEF Fails, Shape, Types
  <1>2. failures' \in 0..MaxFailures
    BY SharingAssumption DEF Fails, Shape, Types
  <1>3. QED
    BY <1>1, <1>2, FinishShape DEF Fails

LEMMA InitShape == Init => Shape
  <1> SUFFICES ASSUME Init PROVE Shape
    OBVIOUS
  <1>1. document \in DocumentType
    BY SharingAssumption DEF Init, DocumentType
  <1>2. request \in [Request -> RequestType] /\ \A q \in Request : request[q] = Free
    BY FreeShape DEF Init
  <1>3. perm \in [User -> Row]
    BY DEF Init
  <1>4. begun \in 0..MaxRequests /\ failures \in 0..MaxFailures
    BY SharingAssumption DEF Init
  <1>5. QED
    BY <1>1, <1>2, <1>3, <1>4, FreeShape DEF Init, Shape, Types, Started

LEMMA NextShape == Shape /\ [Next]_vars => Shape'
  <1> SUFFICES ASSUME Shape, [Next]_vars PROVE Shape'
    OBVIOUS
  <1>1. CASE UNCHANGED vars
    BY <1>1 DEF vars, Shape, Types, Started
  <1>2. ASSUME NEW q \in Request, NEW caller \in User, NEW call \in Call,
               Begin(q, caller, call)
        PROVE  Shape'
    BY <1>2, BeginShape
  <1>3. ASSUME NEW q \in Request, Step(q)
        PROVE  Shape'
    BY <1>3, ReadRowShape, UpdateShape, DeleteShape, GrantShape, RevokeShape,
       TransferLocksShape, TransferWritesShape, TransferCommitsShape, RefreshShape,
       PublishShape DEF Step
  <1>4. ASSUME NEW q \in Request, PublishFails(q) \/ Fails(q)
        PROVE  Shape'
    BY <1>4, PublishShape, FailsShape
  <1>5. QED
    BY <1>1, <1>2, <1>3, <1>4 DEF Next

\* Every variable keeps its type, and a request knows what it was asked and has
\* events to publish exactly from its commit on.
THEOREM ShapeInvariant == Spec => []Shape
  <1>1. Init => Shape
    BY InitShape
  <1>2. Shape /\ [Next]_vars => Shape'
    BY NextShape
  <1>3. QED
    BY <1>1, <1>2, PTL DEF Spec

\* Every variable keeps its type, whatever requests overlap (documents.py).
THEOREM TypeCorrect == Spec => []TypeOK
  <1>1. Shape => TypeOK
    <2> SUFFICES ASSUME Shape PROVE TypeOK
      OBVIOUS
    <2>1. /\ document \in [exists : BOOLEAN, owner_id : User, is_link_shareable : BOOLEAN,
                           link_share_role : Grantable]
          /\ perm \in [User -> Row] /\ DOMAIN request = Request
          /\ begun \in 0..MaxRequests /\ failures \in 0..MaxFailures
          /\ unaware \subseteq User /\ displaced \subseteq User
      BY DEF Shape, Types, DocumentType
    <2>2. ASSUME NEW q \in Request
          PROVE  /\ request[q].pc \in Pc /\ request[q].call \in Call \cup {NoCall}
                 /\ request[q].row \in Row /\ request[q].old_row \in Row
      BY DEF Shape, Types, RequestType
    <2>3. QED
      BY <2>1, <2>2 DEF TypeOK, Pc
  <1>2. QED
    BY <1>1, ShapeInvariant, PTL

--------------------------------------------------------------------------------
(* The inductive invariant. *)

Holding(q) == request[q].pc \in {"locked", "read", "written"} /\ Doing(q, Transfer)

\* One transfer at a time holds the document's row, which stays while it does.
Locks ==
  /\ \A q \in Request : Holding(q) => document.exists
  /\ \A q, r \in Request : Holding(q) /\ Holding(r) => q = r

\* A transfer about to commit has seen whether the previous owner's row says "owner".
OldRows ==
  \A q \in Request :
    request[q].pc = "written" /\ perm[request[q].access.owner_id] = "owner"
      => request[q].old_row = "owner"

\* The refresh of a request will succeed, or has.
Sure(q) == request[q].pc = "publishing" \/ CanRefresh(q)

\* ChangesArePublished holds even without the requests whose refresh will fail.
WillTell ==
  \A u \in unaware \ displaced :
    \E q \in Request : Sure(q) /\ u \in StillToTell(q)

\* A grant has events for its target alone.
GrantTells ==
  \A q \in Request : Doing(q, Grant) => StillToTell(q) \subseteq {request[q].call.target}

Inv ==
  RowsGoWithDocument /\ OwnerRowIsOwners /\ Locks /\ OldRows /\ WillTell /\ GrantTells

Only(q) == \A r \in Request \ {q} : request'[r] = request[r]

CoveredBy(events) == UNION {Covered(events[i]) : i \in DOMAIN events}

--------------------------------------------------------------------------------
(* What steps do to the slots. *)

LEMMA FinishEffect ==
  ASSUME Shape, NEW q \in Request, Finish(q)
  PROVE  Only(q) /\ request'[q] = Free
  BY DEF Finish, Only, Shape, Types

LEMMA CommitEffect ==
  ASSUME Shape, NEW q \in Request, NEW doc, NEW p, NEW events, Commit(q, doc, p, events)
  PROVE  /\ Only(q)
         /\ request'[q].pc = "committed" /\ request'[q].publish = events
         /\ request'[q].call = request[q].call
         /\ document' = doc /\ perm' = p
  BY DEF Commit, Only, Shape, Types, RequestType

LEMMA StillToTellBy ==
  ASSUME NEW q \in Request
  PROVE  StillToTell(q) = CoveredBy(request[q].publish)
  BY DEF StillToTell, CoveredBy

LEMMA NothingToTell ==
  ASSUME Shape, NEW q \in Request, request[q].pc \notin {"committed", "publishing"}
  PROVE  StillToTell(q) = {}
  <1>1. request[q].publish = <<>>
    BY DEF Shape, Started
  <1>2. DOMAIN <<>> = {}
    OBVIOUS
  <1>3. QED
    BY <1>1, <1>2 DEF StillToTell

LEMMA NoEvents ==
  ASSUME NEW q \in Request, request'[q].publish = <<>>
  PROVE  StillToTell(q)' = {}
  <1>1. DOMAIN <<>> = {}
    OBVIOUS
  <1>2. QED
    BY <1>1 DEF StillToTell

LEMMA OthersSame ==
  ASSUME NEW q \in Request, Only(q), NEW r \in Request, r # q
  PROVE  /\ request'[r] = request[r]
         /\ Holding(r)' <=> Holding(r)
         /\ StillToTell(r)' = StillToTell(r)
  BY DEF Only, Holding, Doing, StillToTell, Covered

\* A step of q that commits nothing.
LEMMA QuietStep ==
  ASSUME Shape, Inv, NEW q \in Request, Only(q), UNCHANGED <<document, perm, displaced>>,
         Holding(q)' => Holding(q) \/ (document.exists /\ ~DocumentLocked),
         request'[q].pc = "written" =>
           request'[q].old_row = perm[request'[q].access.owner_id],
         \/ request'[q].publish = <<>>
         \/ /\ request'[q].call = request[q].call
            /\ StillToTell(q)' \subseteq StillToTell(q),
         unaware' \subseteq unaware,
         \A u \in unaware' : Sure(q) /\ u \in StillToTell(q)
                               => Sure(q)' /\ u \in StillToTell(q)'
  PROVE  Inv'
  <1>1. RowsGoWithDocument' /\ OwnerRowIsOwners'
    BY DEF Inv, RowsGoWithDocument, OwnerRowIsOwners
  <1>2. Locks'
    <2>1. \A r \in Request : Holding(r)' => Holding(r) \/ (r = q /\ document.exists /\ ~DocumentLocked)
      BY OthersSame
    <2>2. ~DocumentLocked => \A r \in Request : ~Holding(r)
      BY DEF DocumentLocked, Holding
    <2>3. QED
      BY <2>1, <2>2 DEF Inv, Locks
  <1>3. OldRows'
    BY OthersSame DEF Inv, OldRows
  <1>4. WillTell'
    <2> SUFFICES ASSUME NEW u \in unaware' \ displaced'
                 PROVE  \E r \in Request : Sure(r)' /\ u \in StillToTell(r)'
      BY DEF WillTell
    <2>1. PICK r \in Request : Sure(r) /\ u \in StillToTell(r)
      BY DEF Inv, WillTell
    <2>2. CASE r = q
      BY <2>1, <2>2
    <2>3. CASE r # q
      <3>1. request'[r] = request[r] /\ StillToTell(r)' = StillToTell(r)
        BY <2>3, OthersSame
      <3>2. Sure(r)'
        BY <2>1, <3>1 DEF Sure, CanRefresh, Doing
      <3>3. QED
        BY <2>1, <3>1, <3>2
    <2>4. QED
      BY <2>2, <2>3
  <1>5. GrantTells'
    <2> SUFFICES ASSUME NEW r \in Request, Doing(r, Grant)'
                 PROVE  StillToTell(r)' \subseteq {request'[r].call.target}
      BY DEF GrantTells
    <2>1. CASE r # q
      BY <2>1, OthersSame DEF Inv, GrantTells, Doing
    <2>2. CASE r = q
      BY <2>2, NoEvents DEF Inv, GrantTells, Doing
    <2>3. QED
      BY <2>1, <2>2
  <1>6. QED
    BY <1>1, <1>2, <1>3, <1>4, <1>5 DEF Inv

\* A step of q that commits doc and p.
LEMMA CommitStep ==
  ASSUME Shape, Inv, NEW q \in Request, NEW doc, NEW p, NEW events,
         request[q].pc \notin {"committed", "publishing"},
         Commit(q, doc, p, events),
         displaced \subseteq displaced',
         Doing(q, Grant) => CoveredBy(events) \subseteq {request[q].call.target},
         \A r \in Request \ {q} : Holding(r) => doc.exists,
         \A r \in Request \ {q} :
           request[r].pc = "written" /\ p[request[r].access.owner_id] = "owner"
             => perm[request[r].access.owner_id] = "owner",
         ~doc.exists => \A u \in User : p[u] = NoRole,
         \A u \in User : p[u] = "owner" => u = doc.owner_id \/ u \in displaced',
         \A u \in User \ displaced' :
           EffectiveRole(doc, p, u) # EffectiveRole(document, perm, u)
             => u \in CoveredBy(events) /\ Sure(q)',
         \A r \in Request \ {q} : \A u \in User \ displaced' :
           Sure(r) /\ ~Sure(r)' /\ u \in StillToTell(r)
             => u \in CoveredBy(events) /\ Sure(q)'
  PROVE  Inv'
  <1>1. document' = doc /\ perm' = p
    BY DEF Commit
  <1>2. /\ Only(q) /\ request'[q].pc = "committed" /\ request'[q].publish = events
        /\ request'[q].call = request[q].call
    BY CommitEffect
  <1>3. StillToTell(q)' = CoveredBy(events)
    BY <1>2 DEF StillToTell, CoveredBy, Covered
  <1>4. RowsGoWithDocument' /\ OwnerRowIsOwners'
    BY <1>1 DEF RowsGoWithDocument, OwnerRowIsOwners
  <1>5. Locks'
    <2>1. \A r \in Request : Holding(r)' => r # q /\ Holding(r)
      BY <1>2, OthersSame DEF Holding
    <2>2. QED
      BY <1>1, <2>1 DEF Inv, Locks
  <1>6. OldRows'
    BY <1>1, <1>2, OthersSame DEF Inv, OldRows
  <1>7. WillTell'
    <2> SUFFICES ASSUME NEW u \in unaware' \ displaced'
                 PROVE  \E r \in Request : Sure(r)' /\ u \in StillToTell(r)'
      BY DEF WillTell
    <2>1. u \in User \ displaced'
      BY DEF Commit, Shape, Types
    <2>2. CASE EffectiveRole(doc, p, u) # EffectiveRole(document, perm, u)
      BY <1>3, <2>1, <2>2
    <2>3. CASE EffectiveRole(doc, p, u) = EffectiveRole(document, perm, u)
      <3>1. u \in unaware \ displaced
        BY <2>3 DEF Commit
      <3>2. PICK r \in Request : Sure(r) /\ u \in StillToTell(r)
        BY <3>1 DEF Inv, WillTell
      <3>3. r # q
        BY <3>2, NothingToTell
      <3>4. StillToTell(r)' = StillToTell(r)
        BY <1>2, <3>3, OthersSame
      <3>5. CASE Sure(r)'
        BY <3>2, <3>4, <3>5
      <3>6. CASE ~Sure(r)'
        BY <1>3, <2>1, <3>2, <3>3, <3>6
      <3>7. QED
        BY <3>5, <3>6
    <2>4. QED
      BY <2>2, <2>3
  <1>8. GrantTells'
    <2> SUFFICES ASSUME NEW r \in Request, Doing(r, Grant)'
                 PROVE  StillToTell(r)' \subseteq {request'[r].call.target}
      BY DEF GrantTells
    <2>1. CASE r # q
      BY <1>2, <2>1, OthersSame DEF Inv, GrantTells, Doing
    <2>2. CASE r = q
      BY <1>2, <1>3, <2>2 DEF Doing
    <2>3. QED
      BY <2>1, <2>2
  <1>9. QED
    BY <1>4, <1>5, <1>6, <1>7, <1>8 DEF Inv

--------------------------------------------------------------------------------
(* Steps that commit nothing. *)

LEMMA FreeFacts == Free.pc = "free" /\ Free.call = NoCall /\ Free.publish = <<>>
  BY DEF Free

\* A request that ends without having anything to tell, or whose refresh fails.
LEMMA FinishInv ==
  ASSUME Shape, Inv, NEW q \in Request, Finish(q), UNCHANGED <<document, perm, displaced>>,
         unaware' \subseteq unaware,
         \A u \in unaware' : ~(Sure(q) /\ u \in StillToTell(q))
  PROVE  Inv'
  <1>1. Only(q) /\ request'[q].pc = "free" /\ request'[q].publish = <<>>
    BY FinishEffect, FreeFacts
  <1>2. ~Holding(q)'
    BY <1>1 DEF Holding
  <1>3. QED
    BY <1>1, <1>2, QuietStep

LEMMA AbortInv ==
  ASSUME Shape, Inv, NEW q \in Request, Abort(q),
         request[q].pc \notin {"committed", "publishing"}
  PROVE  Inv'
  BY NothingToTell, FinishInv DEF Abort

LEMMA BeginInv ==
  ASSUME Shape, Inv, NEW q \in Request, NEW caller \in User, NEW call \in Call,
         Begin(q, caller, call)
  PROVE  Inv'
  <1>1. Only(q) /\ request'[q].pc = "authorised" /\ request'[q].publish = <<>>
    BY DEF Begin, Only, Shape, Types, Free
  <1>2. ~Holding(q)'
    BY <1>1 DEF Holding
  <1>3. StillToTell(q) = {}
    BY NothingToTell DEF Begin
  <1>4. UNCHANGED <<document, perm, displaced, unaware>>
    BY DEF Begin
  <1>5. QED
    BY <1>1, <1>2, <1>3, <1>4, QuietStep

LEMMA ReadRowInv ==
  ASSUME Shape, Inv, NEW q \in Request, ReadRow(q)
  PROVE  Inv'
  <1>1. /\ request[q].pc \in {"authorised", "locked"}
        /\ request[q].call \in Transfer => request[q].pc = "locked"
    BY CallShape DEF ReadRow, At, Doing
  <1>2. UNCHANGED <<document, perm, displaced, unaware>>
    BY DEF ReadRow
  <1>3. StillToTell(q) = {}
    BY <1>1, NothingToTell
  <1>4. CASE Finish(q)
    BY <1>2, <1>3, <1>4, FinishInv
  <1>5. CASE request' = [request EXCEPT ![q].pc = "read",
                                        ![q].row = perm[request[q].call.target]]
    <2>1. /\ Only(q) /\ request'[q].pc = "read" /\ request'[q].call = request[q].call
          /\ request'[q].publish = <<>>
      BY <1>1, <1>5 DEF Only, Shape, Types, RequestType, Started
    <2>2. Holding(q)' => Holding(q)
      BY <1>1, <2>1 DEF Holding, Doing
    <2>3. QED
      BY <1>2, <1>3, <2>1, <2>2, QuietStep
  <1>6. QED
    BY <1>4, <1>5 DEF ReadRow

LEMMA TransferLocksInv ==
  ASSUME Shape, Inv, NEW q \in Request, TransferLocks(q)
  PROVE  Inv'
  <1>1. request[q].pc = "authorised" /\ ~DocumentLocked
    BY DEF TransferLocks, At
  <1>2. CASE ~document.exists
    BY <1>1, <1>2, AbortInv DEF TransferLocks
  <1>3. CASE document.exists
    <2>1. /\ Only(q) /\ request'[q].pc = "locked" /\ request'[q].publish = <<>>
          /\ UNCHANGED <<document, perm, displaced, unaware>>
      BY <1>1, <1>3 DEF TransferLocks, Only, Shape, Types, RequestType, Started
    <2>2. StillToTell(q) = {}
      BY <1>1, NothingToTell
    <2>3. QED
      BY <1>1, <1>3, <2>1, <2>2, QuietStep
  <1>4. QED
    BY <1>2, <1>3

LEMMA TransferWritesInv ==
  ASSUME Shape, Inv, NEW q \in Request, TransferWrites(q)
  PROVE  Inv'
  <1>1. request[q].pc = "read" /\ request[q].call \in Transfer
    BY DEF TransferWrites, At, Doing
  <1>2. CASE Abort(q)
    BY <1>1, <1>2, AbortInv
  <1>3. CASE /\ request' = [request EXCEPT ![q].pc = "written",
                              ![q].old_row = perm[request[q].access.owner_id]]
             /\ UNCHANGED <<document, perm, unaware, displaced>>
    <2>1. /\ Only(q) /\ request'[q].pc = "written"
          /\ request'[q].old_row = perm[request[q].access.owner_id]
          /\ request'[q].access = request[q].access /\ request'[q].publish = <<>>
      BY <1>1, <1>3 DEF Only, Shape, Types, RequestType, Started
    <2>2. Holding(q)
      BY <1>1 DEF Holding, Doing
    <2>3. StillToTell(q) = {}
      BY <1>1, NothingToTell
    <2>4. QED
      BY <1>3, <2>1, <2>2, <2>3, QuietStep
  <1>4. QED
    BY <1>2, <1>3 DEF TransferWrites

LEMMA RefreshInv ==
  ASSUME Shape, Inv, NEW q \in Request, Refresh(q)
  PROVE  Inv'
  <1>1. request[q].pc = "committed" /\ UNCHANGED <<document, perm, displaced, unaware>>
    BY DEF Refresh
  <1>2. CASE ~CanRefresh(q)
    <2>1. Finish(q) /\ ~Sure(q)
      BY <1>1, <1>2 DEF Refresh, Sure
    <2>2. QED
      BY <1>1, <2>1, FinishInv
  <1>3. CASE CanRefresh(q)
    <2>1. /\ Only(q) /\ request'[q].pc = "publishing"
          /\ request'[q].publish = request[q].publish
          /\ request'[q].call = request[q].call
      BY <1>3 DEF Refresh, Only, Shape, Types, RequestType
    <2>2. ~Holding(q)' /\ Sure(q)'
      BY <2>1 DEF Holding, Sure
    <2>3. StillToTell(q)' = StillToTell(q)
      BY <2>1 DEF StillToTell, Covered
    <2>4. QED
      BY <1>1, <2>1, <2>2, <2>3, QuietStep
  <1>4. QED
    BY <1>2, <1>3

\* The event that is published first, and those left.
LEMMA ToldEffect ==
  ASSUME Shape, NEW q \in Request, request[q].pc = "publishing", Told(q)
  PROVE  /\ Only(q)
         /\ request'[q].pc \in {"free", "publishing"}
         /\ \/ request'[q].publish = <<>>
            \/ /\ request'[q].call = request[q].call
               /\ StillToTell(q)' \subseteq StillToTell(q)
         /\ \A u \in StillToTell(q) \ Covered(Head(request[q].publish)) :
              request'[q].pc = "publishing" /\ u \in StillToTell(q)'
  <1> DEFINE events == request[q].publish
  <1>1. events \in Seq(AnyEvent) /\ events # <<>>
    BY DEF Shape, Types, RequestType, Started
  <1>2. CASE Len(events) = 1
    <2>1. Finish(q)
      BY <1>2 DEF Told
    <2>2. Only(q) /\ request'[q].pc = "free" /\ request'[q].publish = <<>>
      BY <2>1, FinishEffect, FreeFacts
    <2>3. DOMAIN events = {1} /\ Head(events) = events[1]
      BY <1>1, <1>2, TailFacts
    <2>4. StillToTell(q) = Covered(Head(events))
      BY <2>3 DEF StillToTell
    <2>5. QED
      BY <2>2, <2>4
  <1>3. CASE Len(events) # 1
    <2>1. request' = [request EXCEPT ![q].publish = Tail(@)]
      BY <1>3 DEF Told
    <2>2. /\ Only(q) /\ request'[q].pc = "publishing"
          /\ request'[q].publish = Tail(events) /\ request'[q].call = request[q].call
      BY <2>1 DEF Only, Shape, Types, RequestType
    <2>3. ASSUME NEW u \in StillToTell(q), u \notin Covered(Head(events))
          PROVE  u \in StillToTell(q)'
      <3>1. PICK i \in DOMAIN events : u \in Covered(events[i])
        BY DEF StillToTell
      <3>2. i # 1
        BY <1>1, <2>3, <3>1, TailFacts
      <3>3. i - 1 \in DOMAIN Tail(events) /\ events[i] = Tail(events)[i - 1]
        BY <1>1, <3>1, <3>2, TailFacts
      <3>4. u \in CoveredBy(Tail(events))
        BY <3>1, <3>3 DEF CoveredBy
      <3>5. QED
        BY <2>2, <3>4 DEF StillToTell, CoveredBy, Covered
    <2>4. StillToTell(q)' \subseteq StillToTell(q)
      <3> SUFFICES ASSUME NEW i \in DOMAIN Tail(events)
                   PROVE  Covered(Tail(events)[i]) \subseteq StillToTell(q)
        BY <2>2 DEF StillToTell, Covered
      <3>1. i + 1 \in DOMAIN events /\ events[i + 1] = Tail(events)[i]
        BY <1>1, TailFacts
      <3>2. QED
        BY <3>1 DEF StillToTell
    <2>5. QED
      BY <2>2, <2>3, <2>4
  <1>4. QED
    BY <1>2, <1>3

LEMMA PublishInv ==
  ASSUME Shape, Inv, NEW q \in Request, Publish(q) \/ PublishFails(q)
  PROVE  Inv'
  <1>1. /\ request[q].pc = "publishing" /\ Told(q)
        /\ UNCHANGED <<document, perm, displaced>>
        /\ unaware' = unaware \ Covered(Head(request[q].publish))
    BY DEF Publish, PublishFails
  <1>2. /\ Only(q)
        /\ request'[q].pc \in {"free", "publishing"}
        /\ \/ request'[q].publish = <<>>
           \/ /\ request'[q].call = request[q].call
              /\ StillToTell(q)' \subseteq StillToTell(q)
        /\ \A u \in StillToTell(q) \ Covered(Head(request[q].publish)) :
             request'[q].pc = "publishing" /\ u \in StillToTell(q)'
    BY <1>1, ToldEffect
  <1>3. ~Holding(q)' /\ (request'[q].pc = "publishing" => Sure(q)')
    BY <1>2 DEF Holding, Sure
  <1>4. QED
    BY <1>1, <1>2, <1>3, QuietStep

LEMMA FailsInv ==
  ASSUME Shape, Inv, NEW q \in Request, Fails(q)
  PROVE  Inv'
  BY FinishInv DEF Fails

--------------------------------------------------------------------------------
(* Steps that commit. *)

\* When the refresh after a commit is certain.
LEMMA SureAfter ==
  ASSUME NEW q \in Request, request'[q].call = request[q].call
  PROVE  /\ Doing(q, Update \cup Transfer) /\ document'.exists => Sure(q)'
         /\ Doing(q, Delete \cup Revoke) => Sure(q)'
         /\ Doing(q, Grant) /\ perm'[request[q].call.target] # NoRole => Sure(q)'
  BY CallShape DEF Sure, CanRefresh, Doing

\* What another request's commit must take away to make a refresh fail.
LEMMA SureLost ==
  ASSUME NEW q \in Request, Only(q), NEW r \in Request, r # q, Sure(r), ~Sure(r)'
  PROVE  \/ document.exists /\ ~document'.exists
         \/ /\ Doing(r, Grant)
            /\ perm[request[r].call.target] # NoRole
            /\ perm'[request[r].call.target] = NoRole
  BY DEF Only, Sure, CanRefresh, Doing

\* A commit that covers every user needs no more than a certain refresh.
LEMMA EveryoneCovered ==
  ASSUME NEW e \in {Everyone, Deleted}
  PROVE  CoveredBy(<<e>>) = User
  <1>1. Covered(e) = User
    BY SharingAssumption DEF Covered
  <1>2. DOMAIN <<e>> = {1} /\ <<e>>[1] = e
    OBVIOUS
  <1>3. QED
    BY <1>1, <1>2 DEF CoveredBy

LEMMA OneCovered ==
  ASSUME NEW u \in User
  PROVE  CoveredBy(<<u>>) = {u}
  <1>1. Covered(u) = {u}
    BY DEF Covered
  <1>2. DOMAIN <<u>> = {1} /\ <<u>>[1] = u
    OBVIOUS
  <1>3. QED
    BY <1>1, <1>2 DEF CoveredBy

LEMMA TwoCovered ==
  ASSUME NEW u \in User, NEW v \in User
  PROVE  CoveredBy(<<u, v>>) = {u, v}
  <1>1. Covered(u) = {u} /\ Covered(v) = {v}
    BY DEF Covered
  <1>2. DOMAIN <<u, v>> = {1, 2} /\ <<u, v>>[1] = u /\ <<u, v>>[2] = v
    OBVIOUS
  <1>3. QED
    BY <1>1, <1>2 DEF CoveredBy

LEMMA UpdateInv ==
  ASSUME Shape, Inv, NEW q \in Request, UpdateDocument(q)
  PROVE  Inv'
  <1> DEFINE asked == request[q].call.sharing
             access == request[q].access
             doc == [document EXCEPT
                 !.is_link_shareable =
                   Changed(asked.is_link_shareable, access.is_link_shareable, @),
                 !.link_share_role =
                   Changed(asked.link_share_role, access.link_share_role, @)]
  <1>1. request[q].pc = "authorised" /\ Doing(q, Update)
    BY DEF UpdateDocument, At
  <1>2. CASE ~document.exists
    BY <1>1, <1>2, AbortInv DEF UpdateDocument
  <1>3. CASE document.exists
    <2>1. Commit(q, doc, perm, <<Everyone>>) /\ UNCHANGED displaced
      BY <1>3 DEF UpdateDocument
    <2>2. doc.exists /\ doc.owner_id = document.owner_id
      BY <1>3 DEF Shape, Types, DocumentType
    <2>3. Sure(q)'
      <3>1. request'[q].call = request[q].call /\ document' = doc
        BY <2>1, CommitEffect
      <3>2. Doing(q, Update \cup Transfer)
        BY <1>1 DEF Doing
      <3>3. QED
        BY <2>2, <3>1, <3>2, SureAfter
    <2>4. ~Doing(q, Grant)
      BY <1>1, CallShape DEF Doing
    <2>5. \A u \in User : perm[u] = "owner" => u = document.owner_id \/ u \in displaced
      BY DEF Inv, OwnerRowIsOwners
    <2>6. CoveredBy(<<Everyone>>) = User
      BY EveryoneCovered
    <2> HIDE DEF doc
    <2>7. QED
      BY <1>1, <2>1, <2>2, <2>3, <2>4, <2>5, <2>6, CommitStep
  <1>4. QED
    BY <1>2, <1>3

LEMMA DeleteInv ==
  ASSUME Shape, Inv, NEW q \in Request, DeleteDocument(q)
  PROVE  Inv'
  <1> DEFINE doc == [document EXCEPT !.exists = FALSE]
             p == [u \in User |-> NoRole]
  <1>1. request[q].pc = "authorised" /\ Doing(q, Delete) /\ ~DocumentLocked
    BY DEF DeleteDocument, At
  <1>2. Commit(q, doc, p, <<Deleted>>) /\ UNCHANGED displaced
    BY DEF DeleteDocument
  <1>3. \A r \in Request : ~Holding(r)
    BY <1>1 DEF DocumentLocked, Holding
  <1>4. \A u \in User : p[u] = NoRole
    OBVIOUS
  <1>5. \A r \in Request : request[r].pc # "written"
    BY <1>3 DEF Holding, Doing, Shape, Started
  <1>6. Sure(q)'
    BY <1>1, <1>2, CommitEffect, SureAfter DEF Doing
  <1>7. ~Doing(q, Grant)
    BY <1>1, CallShape DEF Doing
  <1>8. CoveredBy(<<Deleted>>) = User
    BY EveryoneCovered
  <1>9. \A u \in User : p[u] # "owner"
    BY <1>4, RowFacts
  <1> HIDE DEF doc, p
  <1>10. QED
    BY <1>1, <1>2, <1>3, <1>4, <1>5, <1>6, <1>7, <1>8, <1>9, CommitStep

LEMMA GrantInv ==
  ASSUME Shape, Inv, NEW q \in Request, GrantPermission(q)
  PROVE  Inv'
  <1> DEFINE u == request[q].call.target
             row == request[q].row
             role == request[q].call.role
             p == [perm EXCEPT ![u] = Written(row, role, u)]
  <1>1. request[q].pc = "read" /\ Doing(q, Grant)
    BY DEF GrantPermission, At
  <1>2. u \in User /\ role \in Grantable /\ role # "owner" /\ role # NoRole
    BY <1>1, CallShape, RowFacts DEF Doing
  <1>3. CASE Abort(q)
    BY <1>1, <1>3, AbortInv
  <1>4. CASE CanWrite(row, role, u) /\ Commit(q, document, p, <<u>>) /\ UNCHANGED displaced
    <2>1. \A x \in User \ {u} : p[x] = perm[x]
      BY DEF Shape, Types
    <2>2. p[u] = perm[u] \/ p[u] = role
      BY <1>2 DEF Written, Shape, Types
    <2>3. ASSUME ~document.exists
          PROVE  p[u] = NoRole
      <3>1. perm[u] = NoRole
        BY <1>2, <2>3 DEF Inv, RowsGoWithDocument
      <3>2. row = role
        BY <1>4, <2>3, <3>1 DEF CanWrite
      <3>3. QED
        BY <1>2, <3>1, <3>2 DEF Written, Shape, Types
    <2>4. ASSUME NEW x \in User,
                 EffectiveRole(document, p, x) # EffectiveRole(document, perm, x)
          PROVE  x = u /\ p[u] = role
      <3>1. p[x] # perm[x]
        BY <2>4, RoleSameRow
      <3>2. QED
        BY <2>1, <2>2, <3>1
    <2>5. /\ Only(q) /\ request'[q].call = request[q].call
          /\ document' = document /\ perm' = p
      BY <1>4, CommitEffect
    <2>6. p[u] # NoRole => Sure(q)'
      BY <1>1, <2>5, SureAfter
    <2>7. ASSUME NEW r \in Request, r # q, Sure(r), ~Sure(r)'
          PROVE  FALSE
      <3>1. /\ Doing(r, Grant)
            /\ perm[request[r].call.target] # NoRole
            /\ p[request[r].call.target] = NoRole
        BY <2>5, <2>7, SureLost
      <3>2. request[r].call.target \in User
        BY <3>1, CallShape DEF Doing
      <3>3. QED
        BY <1>2, <2>1, <2>2, <3>1, <3>2
    <2>8. \A x \in User : p[x] = "owner" => perm[x] = "owner"
      BY <1>2, <2>1, <2>2
    <2>9. \A x \in User : p[x] = "owner" => x = document.owner_id \/ x \in displaced'
      BY <1>4, <2>8 DEF Inv, OwnerRowIsOwners
    <2>10. ~document.exists => \A x \in User : p[x] = NoRole
      BY <2>1, <2>3 DEF Inv, RowsGoWithDocument
    <2>11. \A r \in Request \ {q} : Holding(r) => document.exists
      BY DEF Inv, Locks
    <2>12. ASSUME NEW r \in Request, request[r].pc = "written",
                  p[request[r].access.owner_id] = "owner"
           PROVE  perm[request[r].access.owner_id] = "owner"
      <3>1. request[r].access.owner_id \in User
        BY <2>12 DEF Shape, Started, DocumentType
      <3>2. QED
        BY <2>8, <2>12, <3>1
    <2>13. CoveredBy(<<u>>) = {u}
      BY <1>2, OneCovered
    <2>14. \A x \in User \ displaced' :
             EffectiveRole(document, p, x) # EffectiveRole(document, perm, x)
               => x \in CoveredBy(<<u>>) /\ Sure(q)'
      BY <1>2, <2>4, <2>6, <2>13
    <2>15. displaced \subseteq displaced'
      BY <1>4
    <2> HIDE DEF p, u, row, role
    <2>16. QED
      BY <1>1, <1>4, <2>7, <2>9, <2>10, <2>11, <2>12, <2>13, <2>14, <2>15, CommitStep DEF u
  <1>5. QED
    BY <1>3, <1>4 DEF GrantPermission

LEMMA RevokeInv ==
  ASSUME Shape, Inv, NEW q \in Request, RevokePermission(q)
  PROVE  Inv'
  <1> DEFINE u == request[q].call.target
             p == [perm EXCEPT ![u] = NoRole]
  <1>1. request[q].pc = "read" /\ Doing(q, Revoke)
    BY DEF RevokePermission, At
  <1>2. u \in User /\ ~Doing(q, Grant)
    BY <1>1, CallShape DEF Doing
  <1>3. Commit(q, document, p, <<u>>) /\ UNCHANGED displaced
    BY DEF RevokePermission
  <1>4. /\ Only(q) /\ request'[q].call = request[q].call
        /\ document' = document /\ perm' = p
    BY <1>3, CommitEffect
  <1>5. Sure(q)'
    BY <1>1, <1>4, SureAfter DEF Doing
  <1>6. p[u] = NoRole /\ \A x \in User \ {u} : p[x] = perm[x]
    BY <1>2 DEF Shape, Types
  <1>7. CoveredBy(<<u>>) = {u}
    BY <1>2, OneCovered
  <1>8. ASSUME NEW x \in User,
               EffectiveRole(document, p, x) # EffectiveRole(document, perm, x)
        PROVE  x \in CoveredBy(<<u>>)
    <2>1. p[x] # perm[x]
      BY <1>8, RoleSameRow
    <2>2. QED
      BY <1>6, <1>7, <2>1
  <1>9. ASSUME NEW r \in Request, r # q, NEW x \in User, Sure(r), ~Sure(r)',
               x \in StillToTell(r)
        PROVE  x \in CoveredBy(<<u>>)
    <2>1. /\ Doing(r, Grant)
          /\ perm[request[r].call.target] # NoRole
          /\ p[request[r].call.target] = NoRole
      BY <1>4, <1>9, SureLost
    <2>2. request[r].call.target \in User
      BY <2>1, CallShape DEF Doing
    <2>3. request[r].call.target = u
      BY <1>6, <2>1, <2>2
    <2>4. x = request[r].call.target
      BY <1>9, <2>1 DEF Inv, GrantTells
    <2>5. QED
      BY <1>7, <2>3, <2>4
  <1>10. \A x \in User : p[x] = "owner" => perm[x] = "owner"
    BY <1>6, RowFacts
  <1>11. \A x \in User : p[x] = "owner" => x = document.owner_id \/ x \in displaced'
    BY <1>3, <1>10 DEF Inv, OwnerRowIsOwners
  <1>12. ~document.exists => \A x \in User : p[x] = NoRole
    BY <1>6 DEF Inv, RowsGoWithDocument
  <1>13. \A r \in Request \ {q} : Holding(r) => document.exists
    BY DEF Inv, Locks
  <1>14. ASSUME NEW r \in Request, request[r].pc = "written",
                p[request[r].access.owner_id] = "owner"
         PROVE  perm[request[r].access.owner_id] = "owner"
    <2>1. request[r].access.owner_id \in User
      BY <1>14 DEF Shape, Started, DocumentType
    <2>2. QED
      BY <1>10, <1>14, <2>1
  <1>15. displaced \subseteq displaced'
    BY <1>3
  <1> HIDE DEF p, u
  <1>16. QED
    BY <1>1, <1>2, <1>3, <1>5, <1>8, <1>9, <1>11, <1>12, <1>13, <1>14, <1>15, CommitStep

LEMMA TransferInv ==
  ASSUME Shape, Inv, NEW q \in Request, TransferCommits(q)
  PROVE  Inv'
  <1> DEFINE new == request[q].call.target
             previous == request[q].access.owner_id
             doc == [document EXCEPT !.owner_id = new]
             p == TransferRows(q)
             events == <<previous, new>>
  <1>1. /\ request[q].pc = "written" /\ Doing(q, Transfer)
        /\ new \in User /\ previous \in User
        /\ doc \in DocumentType /\ p \in [User -> Row]
        /\ \/ Abort(q)
           \/ /\ Commit(q, doc, p, events)
              /\ displaced' = displaced \cup ({document.owner_id} \ {previous, new})
    BY TransferCommitsFacts DEF Doing
  <1>2. CASE Abort(q)
    BY <1>1, <1>2, AbortInv
  <1>3. CASE /\ Commit(q, doc, p, events)
             /\ displaced' = displaced \cup ({document.owner_id} \ {previous, new})
    <2>1. Holding(q) /\ document.exists
      BY <1>1 DEF Holding, Inv, Locks
    <2>2. \A r \in Request \ {q} : ~Holding(r)
      BY <2>1 DEF Inv, Locks
    <2>3. \A r \in Request \ {q} : request[r].pc # "written"
      BY <2>2 DEF Holding, Doing, Shape, Started
    <2>4. /\ doc.exists /\ doc.owner_id = new
          /\ doc.is_link_shareable = document.is_link_shareable
          /\ doc.link_share_role = document.link_share_role
      BY <2>1 DEF Shape, Types, DocumentType
    <2>5. /\ Only(q) /\ request'[q].call = request[q].call
          /\ document' = doc /\ perm' = p
      BY <1>3, CommitEffect
    <2>6. Sure(q)' /\ ~Doing(q, Grant)
      BY <1>1, <2>4, <2>5, SureAfter, CallShape DEF Doing
    <2>7. \A x \in User \ {new, previous} : p[x] = perm[x]
      BY <1>1 DEF TransferRows, Shape, Types
    <2>8. CoveredBy(events) = {previous, new}
      BY <1>1, TwoCovered
    <2>9. ASSUME NEW x \in User \ displaced',
                 EffectiveRole(doc, p, x) # EffectiveRole(document, perm, x)
          PROVE  x \in CoveredBy(events)
      <3>1. CASE x \in {previous, new}
        BY <2>8, <3>1
      <3>2. CASE x \notin {previous, new}
        <4>1. x # document.owner_id /\ x # new
          BY <1>3, <2>9, <3>2
        <4>2. p[x] = perm[x]
          BY <2>7, <3>2
        <4>3. EffectiveRole(doc, p, x) = EffectiveRole(document, perm, x)
          <5>1. doc.exists = document.exists
            BY DEF Shape, Types, DocumentType
          <5>2. (doc.owner_id = x) = (document.owner_id = x)
            BY <2>4, <4>1
          <5> HIDE DEF doc, p
          <5>3. QED
            BY <2>4, <4>2, <5>1, <5>2, RoleDependsOn
        <4>4. QED
          BY <2>9, <4>3
      <3>3. QED
        BY <3>1, <3>2
    <2>10. previous # new => p[previous] # "owner" \/ previous \in displaced'
      <3> SUFFICES ASSUME previous # new, p[previous] = "owner" PROVE FALSE
        OBVIOUS
      <3>1. CASE request[q].old_row = NoRole
        <4>1. p[previous] = perm[previous]
          BY <1>1, <3>1 DEF TransferRows, Shape, Types
        <4>2. QED
          BY <1>1, <3>1, <4>1, RowFacts DEF Inv, OldRows
      <3>2. CASE request[q].old_row # NoRole
        <4>1. p[previous] = Written(request[q].old_row, "editor", previous)
          BY <1>1, <3>2 DEF TransferRows, Shape, Types
        <4>2. p[previous] = perm[previous] /\ request[q].old_row = "editor"
          BY <4>1, RowFacts DEF Written
        <4>3. QED
          BY <1>1, <4>2, RowFacts DEF Inv, OldRows
      <3>3. QED
        BY <3>1, <3>2
    <2>11. ASSUME NEW x \in User, p[x] = "owner"
           PROVE  x = doc.owner_id \/ x \in displaced'
      <3>1. CASE x = new
        BY <2>4, <3>1
      <3>2. CASE x = previous /\ previous # new
        BY <2>10, <2>11, <3>2
      <3>3. CASE x \notin {previous, new}
        <4>1. x = document.owner_id \/ x \in displaced
          BY <2>7, <2>11, <3>3 DEF Inv, OwnerRowIsOwners
        <4>2. QED
          BY <1>3, <3>3, <4>1
      <3>4. QED
        BY <3>1, <3>2, <3>3
    <2>12. ASSUME NEW r \in Request, r # q, NEW x \in User, Sure(r), ~Sure(r)',
                  x \in StillToTell(r)
           PROVE  x \in CoveredBy(events)
      <3>1. /\ Doing(r, Grant)
            /\ perm[request[r].call.target] # NoRole
            /\ p[request[r].call.target] = NoRole
        BY <2>4, <2>5, <2>12, SureLost
      <3>2. request[r].call.target \in User
        BY <3>1, CallShape DEF Doing
      <3>3. request[r].call.target \in {new, previous}
        BY <2>7, <3>1, <3>2
      <3>4. x = request[r].call.target
        BY <2>12, <3>1 DEF Inv, GrantTells
      <3>5. QED
        BY <2>8, <3>3, <3>4
    <2>13. displaced \subseteq displaced'
      BY <1>3
    <2> HIDE DEF doc, p, events
    <2>14. QED
      BY <1>1, <1>3, <2>2, <2>3, <2>4, <2>6, <2>9, <2>11, <2>12, <2>13, CommitStep
  <1>4. QED
    BY <1>1, <1>2, <1>3

--------------------------------------------------------------------------------
(* The theorems. *)

LEMMA InitInv == Init => Inv
  <1> SUFFICES ASSUME Init PROVE Inv
    OBVIOUS
  <1>1. Shape /\ document.exists /\ document.owner_id = Creator
    BY InitShape DEF Init
  <1>2. \A q \in Request : request[q].pc = "free" /\ request[q].call = NoCall
    BY FreeFacts DEF Init
  <1>3. RowsGoWithDocument /\ WillTell
    BY <1>1 DEF RowsGoWithDocument, WillTell, Init
  <1>4. OwnerRowIsOwners
    BY <1>1 DEF OwnerRowIsOwners, Init
  <1>5. Locks /\ OldRows
    BY <1>2 DEF Locks, OldRows, Holding
  <1>6. GrantTells
    BY <1>2, CallShape, NothingToTell, <1>1 DEF GrantTells
  <1>7. QED
    BY <1>3, <1>4, <1>5, <1>6 DEF Inv

LEMMA NextInv == Shape /\ Inv /\ [Next]_vars => Inv'
  <1> SUFFICES ASSUME Shape, Inv, [Next]_vars PROVE Inv'
    OBVIOUS
  <1>1. CASE UNCHANGED vars
    BY <1>1 DEF vars, Inv, RowsGoWithDocument, OwnerRowIsOwners, Locks, OldRows, WillTell,
       GrantTells, Holding, Doing, Sure, CanRefresh, StillToTell, Covered
  <1>2. ASSUME NEW q \in Request, NEW caller \in User, NEW call \in Call,
               Begin(q, caller, call)
        PROVE  Inv'
    BY <1>2, BeginInv
  <1>3. ASSUME NEW q \in Request, Step(q)
        PROVE  Inv'
    BY <1>3, ReadRowInv, UpdateInv, DeleteInv, GrantInv, RevokeInv, TransferLocksInv,
       TransferWritesInv, TransferInv, RefreshInv, PublishInv DEF Step
  <1>4. ASSUME NEW q \in Request, PublishFails(q) \/ Fails(q)
        PROVE  Inv'
    BY <1>4, PublishInv, FailsInv
  <1>5. QED
    BY <1>1, <1>2, <1>3, <1>4 DEF Next

\* Whatever requests overlap, one transfer at a time has the document's row, and
\* every change that must be announced has a request that will announce it.
THEOREM SharingInvariant == Spec => []Inv
  <1>1. Init => Inv
    BY InitInv
  <1>2. Shape /\ Inv /\ [Next]_vars => Inv'
    BY NextInv
  <1>3. QED
    BY <1>1, <1>2, ShapeInvariant, PTL DEF Spec

\* documents.py, publish_permission_changed: every user whose role a commit
\* changed has an event coming, except an owner displaced by an overlapping
\* transfer, for any number of overlapping requests.
THEOREM ChangesPublished == Spec => []ChangesArePublished
  <1>1. Inv => ChangesArePublished
    BY DEF Inv, WillTell, ChangesArePublished
  <1>2. QED
    BY <1>1, SharingInvariant, PTL

\* transfer_ownership: an "owner" row belongs to the owner, or to an owner that an
\* overlapping transfer displaced.
THEOREM OwnerRows == Spec => []OwnerRowIsOwners
  <1>1. Inv => OwnerRowIsOwners
    BY DEF Inv
  <1>2. QED
    BY <1>1, SharingInvariant, PTL

\* models.py, ON DELETE CASCADE: no request brings a permission row back after the
\* document is deleted.
THEOREM RowsGo == Spec => []RowsGoWithDocument
  <1>1. Inv => RowsGoWithDocument
    BY DEF Inv
  <1>2. QED
    BY <1>1, SharingInvariant, PTL

--------------------------------------------------------------------------------
(* The owner's row. *)

\* No request in progress is about the person who owned the document when the request
\* was let through.
NotTheOwner ==
  \A q \in Request :
    request[q].pc # "free" /\ Doing(q, Grant \cup Revoke \cup Transfer)
      => request[q].call.target # request[q].access.owner_id

\* A step of a request that has begun keeps what it asks and what it has read.
Continues(q) ==
  \/ request'[q] = Free
  \/ /\ request[q].pc # "free"
     /\ request'[q].call = request[q].call /\ request'[q].access = request[q].access

LEMMA StepContinues ==
  ASSUME Shape, NEW q \in Request, Step(q) \/ PublishFails(q) \/ Fails(q)
  PROVE  Continues(q) /\ Only(q)
  <1>1. request \in [Request -> RequestType]
    BY DEF Shape, Types
  <1>2. CASE request' = [request EXCEPT ![q] = Free]
    BY <1>1, <1>2 DEF Continues, Only
  <1>3. ASSUME request[q].pc # "free", NEW pc, NEW row, NEW old_row, NEW publish,
               request' = [request EXCEPT ![q] =
                 [@ EXCEPT !.pc = pc, !.row = row, !.old_row = old_row, !.publish = publish]]
        PROVE  Continues(q) /\ Only(q)
    <2>1. /\ request'[q].call = request[q].call /\ request'[q].access = request[q].access
          /\ Only(q)
      BY <1>1, <1>3 DEF RequestType, Only
    <2>2. QED
      BY <1>3, <2>1 DEF Continues
  <1>4. CASE ReadRow(q) \/ TransferLocks(q) \/ TransferWrites(q) \/ Refresh(q)
    <2>1. request[q].pc # "free"
      BY <1>4 DEF ReadRow, TransferLocks, TransferWrites, Refresh, At
    <2>2. /\ request'[q].call = request[q].call /\ request'[q].access = request[q].access
          /\ Only(q)
          \/ request' = [request EXCEPT ![q] = Free]
      BY <1>1, <1>4
         DEF ReadRow, TransferLocks, TransferWrites, Refresh, Abort, Finish, RequestType, Only
    <2>3. QED
      BY <1>2, <2>1, <2>2 DEF Continues
  <1>5. ASSUME request[q].pc # "free", NEW doc, NEW p, NEW events, Commit(q, doc, p, events)
        PROVE  Continues(q) /\ Only(q)
    <2>1. /\ request'[q].call = request[q].call /\ request'[q].access = request[q].access
          /\ Only(q)
      BY <1>1, <1>5 DEF Commit, RequestType, Only
    <2>2. QED
      BY <1>5, <2>1 DEF Continues
  <1>6. CASE UpdateDocument(q) \/ DeleteDocument(q) \/ GrantPermission(q)
             \/ RevokePermission(q) \/ TransferCommits(q)
    BY <1>2, <1>5, <1>6
       DEF UpdateDocument, DeleteDocument, GrantPermission, RevokePermission, TransferCommits,
           At, Abort, Finish
  <1>7. CASE Publish(q) \/ PublishFails(q)
    <2>1. request[q].pc # "free" /\ Told(q)
      BY <1>7 DEF Publish, PublishFails
    <2>2. /\ request'[q].call = request[q].call /\ request'[q].access = request[q].access
          /\ Only(q)
          \/ request' = [request EXCEPT ![q] = Free]
      BY <1>1, <2>1 DEF Told, Finish, RequestType, Only
    <2>3. QED
      BY <1>2, <2>1, <2>2 DEF Continues
  <1>8. CASE Fails(q)
    BY <1>2, <1>8 DEF Fails, Finish
  <1>9. QED
    BY <1>4, <1>6, <1>7, <1>8 DEF Step

LEMMA NotTheOwnerStep == Shape /\ NotTheOwner /\ [Next]_vars => NotTheOwner'
  <1> SUFFICES ASSUME Shape, NotTheOwner, [Next]_vars PROVE NotTheOwner'
    OBVIOUS
  <1>1. CASE UNCHANGED vars
    BY <1>1 DEF vars, NotTheOwner, Doing
  <1>2. ASSUME NEW q \in Request, NEW caller \in User, NEW call \in Call,
               Begin(q, caller, call)
        PROVE  NotTheOwner'
    <2>1. /\ request'[q].call = call /\ request'[q].access = document
          /\ \A r \in Request \ {q} : request'[r] = request[r]
      BY <1>2 DEF Begin, Free, Shape, Types
    <2>2. call \in Grant \cup Revoke \cup Transfer => call.target # document.owner_id
      BY <1>2 DEF Begin
    <2>3. QED
      BY <2>1, <2>2 DEF NotTheOwner, Doing
  <1>3. ASSUME NEW q \in Request, Step(q) \/ PublishFails(q) \/ Fails(q)
        PROVE  NotTheOwner'
    BY <1>3, StepContinues, FreeFacts DEF Continues, Only, NotTheOwner, Doing
  <1>4. QED
    BY <1>1, <1>2, <1>3 DEF Next

LEMMA OwnerRowStep ==
  ASSUME Shape, NotTheOwner, [Next]_vars, NEW u \in User,
         perm[u] = "owner", perm'[u] # "owner",
         document.owner_id = u, document'.owner_id = u, document'.exists
  PROVE  \E q \in Request : /\ request[q].pc = "read" /\ request'[q].pc = "committed"
                            /\ request[q].access.owner_id # u
  <1>0. perm \in [User -> Row] /\ request \in [Request -> RequestType]
    BY DEF Shape, Types
  <1>1. perm' # perm
    OBVIOUS
  <1>2. PICK q \in Request : DeleteDocument(q) \/ GrantPermission(q) \/ RevokePermission(q)
                             \/ TransferCommits(q)
    BY <1>1 DEF Next, Step, Begin, ReadRow, UpdateDocument, TransferLocks, TransferWrites,
       Refresh, Publish, PublishFails, Fails, Abort, Commit, vars
  <1>3. ~DeleteDocument(q)
    BY DEF DeleteDocument, Commit, Shape, Types, DocumentType
  <1>4. request[q].call.target # request[q].access.owner_id
    <2>1. request[q].pc # "free" /\ Doing(q, Grant \cup Revoke \cup Transfer)
      BY <1>2, <1>3 DEF GrantPermission, RevokePermission, TransferCommits, At, Doing
    <2>2. QED
      BY <2>1 DEF NotTheOwner
  <1>5. CASE GrantPermission(q) \/ RevokePermission(q)
    <2>1. PICK v, events : /\ Commit(q, document, [perm EXCEPT ![request[q].call.target] = v], events)
                          /\ request[q].pc = "read"
      BY <1>1, <1>5 DEF GrantPermission, RevokePermission, Abort, At
    <2>2. perm' = [perm EXCEPT ![request[q].call.target] = v] /\ request'[q].pc = "committed"
      BY <1>0, <2>1 DEF Commit, RequestType
    <2>3. u = request[q].call.target
      BY <1>0, <2>2
    <2>4. QED
      BY <1>4, <2>1, <2>2, <2>3
  <1>6. CASE TransferCommits(q)
    <2> DEFINE new == request[q].call.target
               previous == request[q].access.owner_id
    <2>1. /\ document' = [document EXCEPT !.owner_id = new]
          /\ \/ perm' = [perm EXCEPT ![new] = Written(request[q].row, "owner", new)]
             \/ perm' = [[perm EXCEPT ![new] = Written(request[q].row, "owner", new)]
                           EXCEPT ![previous] = Written(request[q].old_row, "editor", previous)]
      BY <1>1, <1>6 DEF TransferCommits, Commit, Abort
    <2>2. new = u
      BY <2>1 DEF Shape, Types, DocumentType
    <2>3. perm'[u] = Written(request[q].row, "owner", u)
      BY <1>0, <1>4, <2>1, <2>2
    <2>4. QED
      BY <2>3 DEF Written
  <1>7. QED
    BY <1>2, <1>3, <1>5, <1>6

\* documents.py, grant_permission and revoke_permission ("the owner's role is fixed") and
\* transfer_ownership: the row of the person who owns a document stays, but for a request
\* let through while someone else was the owner.
THEOREM OwnerRowStays == Spec => OwnerKeepsRow
  <1>1. Init => NotTheOwner
    BY FreeFacts DEF Init, NotTheOwner
  <1>2. Shape /\ NotTheOwner /\ [Next]_vars => NotTheOwner'
    BY NotTheOwnerStep
  <1>3. Shape /\ NotTheOwner /\ [Next]_vars =>
          \A u \in User :
            /\ perm[u] = "owner" /\ perm'[u] # "owner"
            /\ document.owner_id = u /\ document'.owner_id = u /\ document'.exists
            => \E q \in Request :
                 /\ request[q].pc = "read" /\ request'[q].pc = "committed"
                 /\ request[q].access.owner_id # u
    BY OwnerRowStep
  <1>4. QED
    BY <1>1, <1>2, <1>3, ShapeInvariant, PTL DEF Spec, OwnerKeepsRow

================================================================================
