------------------------------- MODULE LiveAccess -------------------------------
(***************************************************************************)
(* How a change of access reaches the sockets that have one document open  *)
(* (apps/server/sync/rooms.py and main.py).  The API commits the change    *)
(* and then publishes an event, best effort.  The sync server looks a role *)
(* up in the handshake, when it handles an event and, as a safety net, on  *)
(* a timer; each look-up suspends, so its answer may be old when it is     *)
(* used.  A connection whose role changed is closed.                       *)
(*                                                                         *)
(* A connection here is a slot that one session after another uses; a      *)
(* Connection object dies with its session.                                *)
(***************************************************************************)
EXTENDS Roles, FiniteSets

CONSTANTS
  User,
  Connection,
  UserOf,         \* the user of each connection's token
  Grantable,      \* the roles this instance uses
  Listener,       \* the listen_permission_events task
  Timer,          \* the revalidate_loop task
  Everyone,       \* the event with user_id None
  Deleted,        \* the event with deleted set
  NoConnection,
  MaxChanges,     \* bound on commits that change access
  MaxFailures     \* bound on failing look-ups and loads and on lost events

ASSUME LiveAccessAssumption ==
  /\ UserOf \in [Connection -> User]
  /\ Grantable \subseteq Role
  /\ MaxChanges \in Nat /\ MaxFailures \in Nat
  /\ NoConnection \notin Connection
  /\ Everyone \notin User /\ Deleted \notin User /\ Everyone # Deleted
  /\ Listener # Timer

VARIABLES
  exists,        \* the document has a row
  granted,       \* what resolve_role answers now, per user
  unpublished,   \* events of committed changes the API has not published yet
  events,        \* published events the listener has not handled
  pc,            \* where each endpoint task is
  role,          \* Connection.role, from the handshake on
  closing,       \* Connection.closing
  work,          \* what Listener and Timer are doing
  changes,       \* commits so far
  failures,      \* failures and losses so far
  missed         \* history: sessions an event did not reach

api     == <<exists, granted, unpublished, changes>>
session == <<pc, role, closing>>
vars    == <<api, events, session, work, failures, missed>>

Checker == {Listener, Timer}
AnyRole == Grantable \cup {NoRole}
Event   == User \cup {Everyone, Deleted}

\* Sockets still to look at or close, and the one in hand with the answer got.
Idle == [todo |-> {}, job |-> "check", conn |-> NoConnection, step |-> "none",
         answer |-> NoRole]

Init ==
  /\ exists = TRUE
  /\ granted \in [User -> AnyRole]
  /\ unpublished = {}
  /\ events = {}
  /\ pc = [c \in Connection |-> "idle"]
  /\ role = [c \in Connection |-> NoRole]
  /\ closing = [c \in Connection |-> FALSE]
  /\ work = [k \in Checker |-> Idle]
  /\ changes = 0
  /\ failures = 0
  /\ missed = {}

Concerns(e, c) == e \in {Everyone, Deleted} \/ e = UserOf[c]

\* Room.connections
InRoom == {c \in Connection : pc[c] \in {"live", "leaving"}}

--------------------------------------------------------------------------------
(* The API. *)

\* documents.py: a grant, a revocation, a transfer (one event for each user it
\* touches) or a change of link sharing (one event for everyone).
ChangeAccess(f, whom) ==
  /\ exists /\ changes < MaxChanges
  /\ f # granted
  /\ whom = {Everyone} \/ whom = {u \in User : f[u] # granted[u]}
  /\ granted' = f
  /\ unpublished' = unpublished \cup whom
  /\ changes' = changes + 1
  /\ UNCHANGED <<exists, events, session, work, failures, missed>>

DeleteDocument ==
  LET nobody == [u \in User |-> NoRole]
  IN /\ exists /\ changes < MaxChanges
     /\ exists' = FALSE
     /\ granted' = nobody
     /\ unpublished' = unpublished \cup {Deleted}
     /\ changes' = changes + 1
     /\ UNCHANGED <<events, session, work, failures, missed>>

Publish(e) ==
  /\ e \in unpublished
  /\ unpublished' = unpublished \ {e}
  /\ events' = events \cup {e}
  /\ UNCHANGED <<exists, granted, changes, session, work, failures, missed>>

\* The publish fails and is logged, or the listener has lost Redis.
LoseEvent(e) ==
  /\ failures < MaxFailures
  /\ failures' = failures + 1
  /\ \/ e \in unpublished /\ unpublished' = unpublished \ {e} /\ UNCHANGED events
     \/ e \in events /\ events' = events \ {e} /\ UNCHANGED unpublished
  /\ missed' = missed \cup {c \in Connection : pc[c] # "idle" /\ Concerns(e, c)}
  /\ UNCHANGED <<exists, granted, changes, session, work>>

--------------------------------------------------------------------------------
(* The endpoint. *)

\* resolve_role; the answer is kept while the socket is accepted and joined.
Handshake(c) ==
  /\ pc[c] = "idle"
  /\ pc' = [pc EXCEPT ![c] = "joining"]
  /\ role' = [role EXCEPT ![c] = granted[UserOf[c]]]
  /\ UNCHANGED <<api, events, closing, work, failures, missed>>

JoinRoom(c) ==
  /\ pc[c] = "joining" /\ role[c] # NoRole
  /\ pc' = [pc EXCEPT ![c] = "live"]
  /\ UNCHANGED <<api, events, role, closing, work, failures, missed>>

\* A checker with socket c turned to, or back in its loop over those left.
Turned(w, c) == [w EXCEPT !.todo = @ \ {c}]
Resumed(w)   == [Idle EXCEPT !.todo = w.todo, !.job = IF w.todo = {} THEN "check" ELSE w.job]

\* What a checker still does with the Connection of an ended session (a look-up,
\* or a close that returns at once) has no effect.
Forgotten(w, c) ==
  IF w.conn # c THEN Turned(w, c)
  ELSE IF w.step = "answered" THEN Resumed(w)
  ELSE [w EXCEPT !.conn = NoConnection]

EndSession(c) ==
  /\ pc' = [pc EXCEPT ![c] = "idle"]
  /\ role' = [role EXCEPT ![c] = NoRole]
  /\ closing' = [closing EXCEPT ![c] = FALSE]
  /\ work' = [k \in Checker |-> Forgotten(work[k], c)]
  /\ missed' = missed \ {c}

\* No role: the socket is refused before it is accepted.
Refuse(c) ==
  /\ pc[c] = "joining" /\ role[c] = NoRole
  /\ EndSession(c)
  /\ UNCHANGED <<api, events, failures>>

LoadFails(c) ==
  /\ pc[c] = "joining" /\ role[c] # NoRole
  /\ failures < MaxFailures
  /\ failures' = failures + 1
  /\ EndSession(c)
  /\ UNCHANGED <<api, events>>

\* The receive that was pending ends in a disconnect, or, on a closed socket, in
\* one last frame, after which the next receive raises.
Disconnect(c) ==
  /\ pc[c] = "live"
  /\ pc' = [pc EXCEPT ![c] = "leaving"]
  /\ closing' = [closing EXCEPT ![c] = TRUE]
  /\ UNCHANGED <<api, events, role, work, failures, missed>>

Leave(c) ==
  /\ pc[c] = "leaving"
  /\ EndSession(c)
  /\ UNCHANGED <<api, events, failures>>

--------------------------------------------------------------------------------
(* The listener and the timer. *)

Resting(k) == work[k].todo = {} /\ work[k].step = "none"

\* handle_permission_event lists the sockets once; those still joining are not
\* among them.
HandleEvent(e) ==
  /\ Resting(Listener) /\ e \in events
  /\ events' = events \ {e}
  /\ work' = [work EXCEPT ![Listener] =
                Resumed([Idle EXCEPT !.todo = {c \in InRoom : Concerns(e, c)},
                                     !.job = IF e = Deleted THEN "close" ELSE "check"])]
  /\ missed' = missed \cup {c \in Connection : pc[c] = "joining" /\ Concerns(e, c)}
  /\ UNCHANGED <<api, session, failures>>

TimerTick ==
  /\ Resting(Timer) /\ InRoom # {}
  /\ work' = [work EXCEPT ![Timer] = [Idle EXCEPT !.todo = InRoom]]
  /\ UNCHANGED <<api, events, session, failures, missed>>

\* Faulty variant: for a deleted document the look-up answers with a flag.
MutantLookUp(k, c) ==
  /\ work[k].step = "none" /\ work[k].job = "check" /\ c \in work[k].todo
  /\ work' = [work EXCEPT ![k] = [Turned(@, c) EXCEPT !.conn = c, !.step = "answered",
                !.answer = IF exists THEN granted[UserOf[c]] ELSE Deleted]]
  /\ missed' = missed \ {c}
  /\ UNCHANGED <<api, events, session, failures>>

\* revalidate: the role as it is when the SELECT runs, used when the answer arrives.
LookUp(k, c) ==
  /\ work[k].step = "none" /\ work[k].job = "check" /\ c \in work[k].todo
  /\ work' = [work EXCEPT ![k] = [Turned(@, c) EXCEPT !.conn = c, !.step = "answered",
                                                         !.answer = granted[UserOf[c]]]]
  /\ missed' = missed \ {c}
  /\ UNCHANGED <<api, events, session, failures>>

\* Faulty variant: the exception ends the task.
MutantLookUpFails(k, c) ==
  /\ work[k].step = "none" /\ work[k].job = "check" /\ c \in work[k].todo
  /\ failures < MaxFailures
  /\ failures' = failures + 1
  /\ work' = [work EXCEPT ![k].step = "ended"]
  /\ missed' = missed \cup {c}
  /\ UNCHANGED <<api, events, session>>

LookUpFails(k, c) ==
  /\ work[k].step = "none" /\ work[k].job = "check" /\ c \in work[k].todo
  /\ failures < MaxFailures
  /\ failures' = failures + 1
  /\ work' = [work EXCEPT ![k] = Resumed(Turned(@, c))]
  /\ missed' = missed \cup {c}
  /\ UNCHANGED <<api, events, session>>

\* Connection.close returns at once when another close has begun; otherwise the
\* task k that called it waits for the closing handshake of the socket.
Close(k, c) ==
  /\ closing' = [closing EXCEPT ![c] = TRUE]
  /\ work' = [work EXCEPT ![k] =
                IF closing[c] THEN Resumed(Turned(@, c))
                ELSE [Turned(@, c) EXCEPT !.conn = c, !.step = "closing", !.answer = NoRole]]

CloseDeleted(c) ==
  /\ work[Listener].step = "none" /\ work[Listener].job = "close"
  /\ c \in work[Listener].todo
  /\ Close(Listener, c)
  /\ UNCHANGED <<api, events, pc, role, failures, missed>>

AnswerAgrees(k) ==
  /\ work[k].step = "answered"
  /\ work[k].answer = role[work[k].conn]
  /\ work' = [work EXCEPT ![k] = Resumed(@)]
  /\ UNCHANGED <<api, events, session, failures, missed>>

\* Faulty variant: no role is taken for no change.
MutantAnswerRevokes(k) ==
  /\ work[k].step = "answered" /\ work[k].answer = NoRole
  /\ work' = [work EXCEPT ![k] = Resumed(@)]
  /\ UNCHANGED <<api, events, session, failures, missed>>

\* A connection that lost all access keeps its role while it is being closed.
AnswerRevokes(k) ==
  LET c == work[k].conn
  IN /\ work[k].step = "answered"
     /\ work[k].answer = NoRole
     /\ Close(k, c)
     /\ UNCHANGED <<api, events, pc, role, failures, missed>>

\* Faulty variant: a changed connection is not closed.
MutantAnswerChanges(k) ==
  LET c == work[k].conn
      answer == work[k].answer
  IN /\ work[k].step = "answered"
     /\ answer # NoRole /\ answer # role[c]
     /\ role' = [role EXCEPT ![c] = answer]
     /\ work' = [work EXCEPT ![k] = Resumed(@)]
     /\ UNCHANGED <<api, events, pc, closing, failures, missed>>

AnswerChanges(k) ==
  LET c == work[k].conn
      answer == work[k].answer
  IN /\ work[k].step = "answered"
     /\ answer # NoRole /\ answer # role[c]
     /\ role' = [role EXCEPT ![c] = answer]
     /\ Close(k, c)
     /\ UNCHANGED <<api, events, pc, failures, missed>>

CloseReturns(k) ==
  /\ work[k].step = "closing"
  /\ work' = [work EXCEPT ![k] = Resumed(@)]
  /\ UNCHANGED <<api, events, session, failures, missed>>

--------------------------------------------------------------------------------

Answer(k) == AnswerAgrees(k) \/ AnswerRevokes(k) \/ AnswerChanges(k)

\* The task k runs on: it finishes what it has in hand and takes the next socket.
Proceed(k) ==
  \/ Answer(k) \/ CloseReturns(k)
  \/ \E c \in Connection : LookUp(k, c) \/ LookUpFails(k, c)
  \/ k = Listener /\ \E c \in Connection : CloseDeleted(c)

Endpoint(c) ==
  \/ Handshake(c) \/ JoinRoom(c) \/ Refuse(c) \/ LoadFails(c)
  \/ Disconnect(c) \/ Leave(c)

Next ==
  \/ \E f \in [User -> AnyRole], whom \in SUBSET (User \cup {Everyone}) :
       ChangeAccess(f, whom)
  \/ DeleteDocument
  \/ \E e \in Event : Publish(e) \/ LoseEvent(e) \/ HandleEvent(e)
  \/ \E c \in Connection : Endpoint(c)
  \/ TimerTick
  \/ \E k \in Checker : Proceed(k)

Spec == Init /\ [][Next]_vars

\* Both tasks run for ever, every await of theirs ends, and a closed socket's
\* endpoint finds out.  Nothing makes a client connect or an open socket close,
\* or an event arrive.
Fairness ==
  /\ WF_vars(TimerTick) /\ WF_vars(\E e \in Event : HandleEvent(e))
  /\ \A k \in Checker : WF_vars(Proceed(k))
  /\ \A c \in Connection :
       /\ WF_vars(JoinRoom(c) \/ Refuse(c) \/ LoadFails(c))
       /\ WF_vars(closing[c] /\ Disconnect(c))
       /\ WF_vars(Leave(c))

FairSpec == Spec /\ Fairness

--------------------------------------------------------------------------------
(* Properties. *)

WorkType ==
  [todo : SUBSET Connection, job : {"check", "close"},
   conn : Connection \cup {NoConnection}, step : {"none", "answered", "closing"},
   answer : AnyRole]

\* Every variable keeps its type.
TypeOK ==
  /\ exists \in BOOLEAN
  /\ granted \in [User -> AnyRole]
  /\ unpublished \subseteq Event /\ events \subseteq Event
  /\ pc \in [Connection -> {"idle", "joining", "live", "leaving"}]
  /\ role \in [Connection -> AnyRole]
  /\ closing \in [Connection -> BOOLEAN]
  /\ work \in [Checker -> WorkType]
  /\ changes \in 0..MaxChanges
  /\ failures \in 0..MaxFailures
  /\ missed \subseteq Connection

\* Events on their way, or a look-up in hand, that will find c's role changed.
Notified(c) == \E e \in unpublished \cup events : Concerns(e, c)

UnderCheck(k, c) ==
  \/ c \in work[k].todo
  \/ work[k].conn = c /\ work[k].step = "answered" /\ work[k].answer # role[c]

\* An open session acts with the role its user has now, or the change is on its
\* way to it: no order of commits, events, look-ups and joins leaves a session
\* behind, except that its event was lost, its look-up failed or the event was
\* handled while the session was still joining (handle_permission_event,
\* revalidate, sync_endpoint).
StaleRoleIsFound ==
  \A c \in Connection :
    (pc[c] = "live" /\ ~closing[c] /\ role[c] # granted[UserOf[c]]) =>
      c \in missed \/ Notified(c) \/ \E k \in Checker : UnderCheck(k, c)

\* Whatever events are lost, a session that acts with a role its user no longer
\* has is closed, or ends (revalidate_loop): a lost event only delays this.
StaleRoleEnds ==
  \A c \in Connection :
    (pc[c] = "live" /\ role[c] # granted[UserOf[c]])
      ~> (pc[c] # "live" \/ role[c] = granted[UserOf[c]])

\* An event is handled, however long the closing handshakes of the sockets of
\* the event before it take (listen_permission_events awaits each).
EventsAreHandled ==
  \A e \in Event : (e \in events) ~> (e \notin events)

================================================================================
