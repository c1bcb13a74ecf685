---------------------------- MODULE DocumentSharing ----------------------------
(***************************************************************************)
(* The sharing endpoints of the REST API for one document                  *)
(* (apps/server/api/routers/documents.py, permissions.py): concurrent      *)
(* requests that change link sharing, grant, revoke, transfer ownership    *)
(* and delete.                                                             *)
(*                                                                         *)
(* A request is one session and one transaction at READ COMMITTED: what it *)
(* read may be old by the time it writes, and it publishes after the       *)
(* commit.  A transaction of one statement is one step; a transfer flushes *)
(* the new owner first and then holds the document's row lock until it     *)
(* ends.  A flush that does not find what the session loaded raises, which *)
(* rolls the transaction back and fails the request.                       *)
(***************************************************************************)
EXTENDS Roles, Sequences, FiniteSets

CONSTANTS
  User,
  Creator,        \* the user who created the document
  Request,        \* slots for requests in progress
  Grantable,      \* schemas.py: GrantableRole, or the part this instance uses
  Everyone,       \* an event with user_id None
  Deleted,        \* an event with deleted set
  Nobody,
  MaxRequests,    \* bound on requests that pass require_role
  MaxFailures     \* bound on database, Redis and process failures

ASSUME SharingAssumption ==
  /\ Creator \in User
  /\ Grantable \subseteq Role \ {"owner"} /\ "editor" \in Grantable
  /\ Everyone \notin User /\ Deleted \notin User /\ Nobody \notin User
  /\ MaxRequests \in Nat /\ MaxFailures \in Nat

VARIABLES
  document,    \* the row of documents
  perm,        \* document_permissions: the role of each user's row, NoRole for none
  request,     \* the requests in progress
  begun,       \* requests so far
  failures,    \* failures so far
  unaware,     \* history: users whose role changed and who are not told yet
  displaced    \* history: owners replaced by a transfer that never saw them

vars == <<document, perm, request, begun, failures, unaware, displaced>>

Row == Grantable \cup {"owner", NoRole}

Sharing == [is_link_shareable : BOOLEAN, link_share_role : Grantable]

\* What a request asks for.
Update   == [op : {"update"}, sharing : Sharing]
Delete   == [op : {"delete"}]
Grant    == [op : {"grant"}, target : User, role : Grantable]
Revoke   == [op : {"revoke"}, target : User]
Transfer == [op : {"transfer"}, target : User]
Call     == Update \cup Delete \cup Grant \cup Revoke \cup Transfer
NoCall   == [op |-> "none"]

\* A slot: what is asked, access.document as it was read, and the permission rows
\* as they were read.
Free ==
  [pc |-> "free", call |-> NoCall, access |-> NoRole, row |-> NoRole,
   old_row |-> NoRole, publish |-> <<>>]

\* create_document: the document and its owner's row; the rest of the sharing
\* state is any that earlier requests, one at a time, can have left.
Init ==
  /\ document \in [exists : {TRUE}, owner_id : {Creator}, is_link_shareable : BOOLEAN,
                   link_share_role : Grantable]
  /\ perm \in {p \in [User -> Row] : \A u \in User : p[u] = "owner" <=> u = Creator}
  /\ request = [q \in Request |-> Free]
  /\ begun = 0
  /\ failures = 0
  /\ unaware = {}
  /\ displaced = {}

--------------------------------------------------------------------------------
(* Roles, locks and the end of a request. *)

\* resolve_role, of either service, on the rows p and doc.
EffectiveRole(doc, p, u) ==
  IF doc.exists
  THEN compute_role(doc.owner_id, u, p[u], doc.is_link_shareable, doc.link_share_role)
  ELSE NoRole

Doing(q, what) == request[q].call \in what

At(q, where, what) == request[q].pc = where /\ Doing(q, what)

Covered(e) == IF e \in User THEN {e} ELSE User

\* The row locks of a transfer that has flushed its UPDATE of documents, and its
\* INSERT or UPDATE of the new owner's row.
DocumentLocked ==
  \E q \in Request : request[q].pc \in {"locked", "read", "written"} /\ Doing(q, Transfer)

RowLocked(u) ==
  \E q \in Request : /\ request[q].pc = "written"
                     /\ request[q].call.target = u /\ request[q].row # "owner"

\* Faulty variant: a request whose statement fails tries it again, for ever.
MutantFinish(q) ==
  request' = [request EXCEPT ![q] = IF @.pc = "read" THEN @ ELSE Free]

Finish(q) == request' = [request EXCEPT ![q] = Free]

\* An exception before the commit: the session is closed and rolls back.
Abort(q) == Finish(q) /\ UNCHANGED <<document, perm, unaware, displaced>>

\* The commit of doc and p; events is what the request will publish.
Commit(q, doc, p, events) ==
  /\ document' = doc
  /\ perm' = p
  /\ request' = [request EXCEPT ![q].pc = "committed", ![q].publish = events]
  /\ unaware' = unaware \cup
       {u \in User : EffectiveRole(doc, p, u) # EffectiveRole(document, perm, u)}

--------------------------------------------------------------------------------
(* The requests. *)

\* Faulty variant: nothing protects the owner's own row.
MutantBegin(q, caller, call) ==
  /\ request[q].pc = "free" /\ begun < MaxRequests
  /\ has_role(EffectiveRole(document, perm, caller), "owner")
  /\ begun' = begun + 1
  /\ request' = [request EXCEPT ![q] =
                   [Free EXCEPT !.pc = "authorised", !.call = call, !.access = document]]
  /\ UNCHANGED <<document, perm, failures, unaware, displaced>>

\* require_role("owner"), or update_document's own check of it, on the row read
\* now; then the early returns that depend on that row alone.
Begin(q, caller, call) ==
  /\ request[q].pc = "free" /\ begun < MaxRequests
  /\ has_role(EffectiveRole(document, perm, caller), "owner")
  /\ call \in Grant \cup Revoke \cup Transfer => call.target # document.owner_id
  /\ begun' = begun + 1
  /\ request' = [request EXCEPT ![q] =
                   [Free EXCEPT !.pc = "authorised", !.call = call, !.access = document]]
  /\ UNCHANGED <<document, perm, failures, unaware, displaced>>

\* db.get(DocumentPermission, ...) of the target; revoking no row is a 404.
ReadRow(q) ==
  LET row == perm[request[q].call.target]
  IN /\ At(q, "authorised", Grant \cup Revoke) \/ At(q, "locked", Transfer)
     /\ IF Doing(q, Revoke) /\ row = NoRole THEN Finish(q)
        ELSE request' = [request EXCEPT ![q].pc = "read", ![q].row = row]
     /\ UNCHANGED <<document, perm, begun, failures, unaware, displaced>>

\* Columns whose new value is the one loaded are left out of the UPDATE.
Changed(asked, loaded, now) == IF asked = loaded THEN now ELSE asked

UpdateDocument(q) ==
  LET asked == request[q].call.sharing
      access == request[q].access
  IN /\ At(q, "authorised", Update)
     /\ ~DocumentLocked
     /\ IF ~document.exists THEN Abort(q)
        ELSE /\ Commit(q, [document EXCEPT
                   !.is_link_shareable =
                     Changed(asked.is_link_shareable, access.is_link_shareable, @),
                   !.link_share_role =
                     Changed(asked.link_share_role, access.link_share_role, @)],
                 perm, <<Everyone>>)
             /\ UNCHANGED displaced
     /\ UNCHANGED <<begun, failures>>

\* ON DELETE CASCADE takes the permission rows; deleting no row is not an error.
DeleteDocument(q) ==
  /\ At(q, "authorised", Delete)
  /\ ~DocumentLocked
  /\ Commit(q, [document EXCEPT !.exists = FALSE], [u \in User |-> NoRole], <<Deleted>>)
  /\ UNCHANGED <<begun, failures, displaced>>

\* Faulty variant: no foreign key.
MutantCanWrite(row, role, u) ==
  IF row = NoRole THEN perm[u] = NoRole ELSE row = role \/ perm[u] # NoRole

\* An INSERT needs the document (foreign key) and no row yet (primary key), an
\* UPDATE needs the row; without a change there is no statement.
CanWrite(row, role, u) ==
  IF row = NoRole THEN document.exists /\ perm[u] = NoRole
  ELSE row = role \/ perm[u] # NoRole

Written(row, role, u) == IF row = role THEN perm[u] ELSE role

GrantPermission(q) ==
  LET u == request[q].call.target
      row == request[q].row
      role == request[q].call.role
  IN /\ At(q, "read", Grant)
     /\ ~RowLocked(u)
     /\ IF CanWrite(row, role, u)
        THEN /\ Commit(q, document, [perm EXCEPT ![u] = Written(row, role, u)], <<u>>)
             /\ UNCHANGED displaced
        ELSE Abort(q)
     /\ UNCHANGED <<begun, failures>>

\* Faulty variant: the row is emptied, not deleted.
MutantRevokePermission(q) ==
  LET u == request[q].call.target
  IN /\ At(q, "read", Revoke)
     /\ ~RowLocked(u)
     /\ Commit(q, document, [perm EXCEPT ![u] = "empty"], <<u>>)
     /\ UNCHANGED <<begun, failures, displaced>>

RevokePermission(q) ==
  LET u == request[q].call.target
  IN /\ At(q, "read", Revoke)
     /\ ~RowLocked(u)
     /\ Commit(q, document, [perm EXCEPT ![u] = NoRole], <<u>>)
     /\ UNCHANGED <<begun, failures, displaced>>

\* The first db.get after "doc.owner_id = new_owner.id" flushes the UPDATE.
TransferLocks(q) ==
  /\ At(q, "authorised", Transfer)
  /\ ~DocumentLocked
  /\ IF document.exists
     THEN /\ request' = [request EXCEPT ![q].pc = "locked"]
          /\ UNCHANGED <<document, perm, unaware, displaced>>
     ELSE Abort(q)
  /\ UNCHANGED <<begun, failures>>

\* The next db.get flushes the new owner's row, then reads the old owner's.
TransferWrites(q) ==
  /\ At(q, "read", Transfer)
  /\ IF CanWrite(request[q].row, "owner", request[q].call.target)
     THEN /\ request' = [request EXCEPT ![q].pc = "written",
                           ![q].old_row = perm[request[q].access.owner_id]]
          /\ UNCHANGED <<document, perm, unaware, displaced>>
     ELSE Abort(q)
  /\ UNCHANGED <<begun, failures>>

\* Faulty variant: the previous owner's row is left as it is.
MutantTransferCommits(q) ==
  LET new == request[q].call.target
      previous == request[q].access.owner_id
  IN /\ At(q, "written", Transfer)
     /\ Commit(q, [document EXCEPT !.owner_id = new],
               [perm EXCEPT ![new] = Written(request[q].row, "owner", new)],
               <<previous, new>>)
     /\ displaced' = displaced \cup ({document.owner_id} \ {previous, new})
     /\ UNCHANGED <<begun, failures>>

TransferCommits(q) ==
  LET new == request[q].call.target
      previous == request[q].access.owner_id
      old_row == request[q].old_row
      withNew == [perm EXCEPT ![new] = Written(request[q].row, "owner", new)]
  IN /\ At(q, "written", Transfer)
     /\ IF old_row = NoRole \/ CanWrite(old_row, "editor", previous)
        THEN /\ Commit(q, [document EXCEPT !.owner_id = new],
                       IF old_row = NoRole THEN withNew
                       ELSE [withNew EXCEPT ![previous] = Written(old_row, "editor", previous)],
                       <<previous, new>>)
             /\ displaced' = displaced \cup ({document.owner_id} \ {previous, new})
        ELSE Abort(q)
     /\ UNCHANGED <<begun, failures>>

--------------------------------------------------------------------------------
(* After the commit. *)

\* db.refresh raises when the row is gone: the request fails and publishes nothing.
CanRefresh(q) ==
  /\ Doing(q, Update \cup Transfer) => document.exists
  /\ Doing(q, Grant) => perm[request[q].call.target] # NoRole

Refresh(q) ==
  /\ request[q].pc = "committed"
  /\ IF CanRefresh(q) THEN request' = [request EXCEPT ![q].pc = "publishing"]
     ELSE Finish(q)
  /\ UNCHANGED <<document, perm, begun, failures, unaware, displaced>>

\* Faulty variant: the first event is the only one.
MutantTold(q) == Finish(q)

Told(q) ==
  IF Len(request[q].publish) = 1 THEN Finish(q)
  ELSE request' = [request EXCEPT ![q].publish = Tail(@)]

Publish(q) ==
  /\ request[q].pc = "publishing"
  /\ Told(q)
  /\ unaware' = unaware \ Covered(Head(request[q].publish))
  /\ UNCHANGED <<document, perm, begun, failures, displaced>>

\* The users the events that q has not published yet would tell.
StillToTell(q) == UNION {Covered(request[q].publish[i]) : i \in DOMAIN request[q].publish}

\* A publish fails, which is logged, and the event is lost: those it would have
\* told are left to the sync server's timer.
PublishFails(q) ==
  /\ request[q].pc = "publishing"
  /\ failures < MaxFailures
  /\ failures' = failures + 1
  /\ Told(q)
  /\ unaware' = unaware \ Covered(Head(request[q].publish))
  /\ UNCHANGED <<document, perm, begun, displaced>>

\* The database fails, or the process ends, at any point of a request.
Fails(q) ==
  /\ request[q].pc # "free"
  /\ failures < MaxFailures
  /\ failures' = failures + 1
  /\ Finish(q)
  /\ unaware' = unaware \ StillToTell(q)
  /\ UNCHANGED <<document, perm, begun, displaced>>

--------------------------------------------------------------------------------

Step(q) ==
  \/ ReadRow(q) \/ UpdateDocument(q) \/ DeleteDocument(q)
  \/ GrantPermission(q) \/ RevokePermission(q)
  \/ TransferLocks(q) \/ TransferWrites(q) \/ TransferCommits(q)
  \/ Refresh(q) \/ Publish(q)

Next ==
  \E q \in Request :
    \/ \E caller \in User, call \in Call : Begin(q, caller, call)
    \/ Step(q)
    \/ PublishFails(q) \/ Fails(q)

Spec == Init /\ [][Next]_vars

\* Postgres answers, and serves the waiters of a row lock; nothing makes a client
\* send a request.
Fairness == \A q \in Request : SF_vars(Step(q))

FairSpec == Spec /\ Fairness


(* Properties. *)

\* Every variable keeps its type.
TypeOK ==
  /\ document \in [exists : BOOLEAN, owner_id : User, is_link_shareable : BOOLEAN,
                   link_share_role : Grantable]
  /\ perm \in [User -> Row]
  /\ DOMAIN request = Request
  /\ \A q \in Request :
       /\ request[q].pc \in {"free", "authorised", "locked", "read", "written",
                             "committed", "publishing"}
       /\ request[q].call \in Call \cup {NoCall}
       /\ request[q].row \in Row /\ request[q].old_row \in Row
  /\ begun \in 0..MaxRequests /\ failures \in 0..MaxFailures
  /\ unaware \subseteq User /\ displaced \subseteq User

\* Every user whose role a commit changed is told, unless the publish fails: some
\* request still has an event for them, whatever else commits, fails to refresh or
\* aborts meanwhile.  The one exception is an owner displaced by a transfer that
\* was authorised before they became the owner.
ChangesArePublished ==
  unaware \ displaced \subseteq UNION {StillToTell(q) : q \in Request}

\* A row that says "owner" belongs to the owner; overlapping transfers may leave
\* one behind with an owner they displaced, and nothing else does.
OwnerRowIsOwners ==
  \A u \in User : perm[u] = "owner" => u = document.owner_id \/ u \in displaced

\* The owner of a document loses the row that says so, which the next transfer turns into
\* the edit access a previous owner keeps, only to a grant or a revocation that was let
\* through while someone else was the owner.
OwnerKeepsRow ==
  [][\A u \in User :
       /\ perm[u] = "owner" /\ perm'[u] # "owner"
       /\ document.owner_id = u /\ document'.owner_id = u /\ document'.exists
       => \E q \in Request :
            /\ request[q].pc = "read" /\ request'[q].pc = "committed"
            /\ request[q].access.owner_id # u]_vars

\* A deleted document leaves no permission rows: no grant or transfer that was
\* authorised before the deletion brings one back.
RowsGoWithDocument ==
  ~document.exists => \A u \in User : perm[u] = NoRole

\* A request ends, however the row locks of transfers, their aborts and the
\* requests they overlap with interleave.
RequestsFinish ==
  \A q \in Request : (request[q].pc = "authorised") ~> (request[q].pc = "free")

================================================================================
