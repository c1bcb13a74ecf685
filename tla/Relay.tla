--------------------------------- MODULE Relay ---------------------------------
(***************************************************************************)
(* What flows between the sockets of one open room (apps/server/sync/      *)
(* rooms.py: Connection.send, Room.handle_message and broadcast; main.py:  *)
(* the endpoint and its writer).  The server sends its state vector when a *)
(* socket has joined and the page sends its own when the socket opens;     *)
(* each answers with what the other lacks, and every update is relayed to  *)
(* the other sockets through a bounded queue per socket.  A full queue     *)
(* drops the frame and has a new task close the socket.                    *)
(*                                                                         *)
(* A page edits its own copy whether it is connected or not, and connects  *)
(* again with what it has.  The room stays open throughout, as when some   *)
(* other socket keeps it so (RoomManager.tla opens and drops rooms), and a *)
(* session keeps its role (LiveAccess.tla ends sessions whose role         *)
(* changed).                                                               *)
(***************************************************************************)
EXTENDS Naturals, Sequences, FiniteSets

CONSTANTS
  Connection,    \* pages, each with one socket at a time
  QueueSize,     \* maxsize of Connection.queue
  MaxEdits,      \* bound on the edits of each page, a function
  MaxSessions    \* bound on accepted sockets

ASSUME RelayAssumption ==
  /\ QueueSize \in Nat \ {0}
  /\ MaxEdits \in [Connection -> Nat] /\ MaxSessions \in Nat

VARIABLES
  doc,         \* Room.doc: the edits in it
  pc,          \* where each endpoint task is
  can_write,   \* the connections whose session has a role that writes
  queue,       \* Connection.queue
  closing,     \* the connections whose closing is set
  closer,      \* those whose close task has not run yet
  sent,        \* frames of each page that the endpoint has not received
  copy,        \* the edits in each page's Y.Doc
  sessions,    \* sockets accepted so far
  entitled     \* history: pages that had a session that writes

page == <<sent, copy>>
vars == <<doc, pc, can_write, queue, closing, closer, page, sessions, entitled>>

\* An edit is its author and its place in the author's edits, as in Yjs.
Edit == UNION {{c} \X (1..MaxEdits[c]) : c \in Connection}

\* The state vector of a document: what it has up to the first gap of each author.
\* Edits after a gap are kept, and sent on, but cannot be shown.
StateVector(edits) ==
  {e \in edits : \A n \in 1..e[2] : <<e[1], n>> \in edits}

\* protocol.py: a SYNC_STEP1 frame holds a state vector, the others an update.
Step1(edits) == [type |-> "step1", content |-> StateVector(edits)]
Step2(edits, vector) == [type |-> "step2", content |-> edits \ vector]
SyncUpdate(edits) == [type |-> "update", content |-> edits]

Init ==
  /\ doc = {}
  /\ pc = [c \in Connection |-> "away"]
  /\ can_write = {}
  /\ queue = [c \in Connection |-> <<>>]
  /\ closing = {}
  /\ closer = {}
  /\ sent = [c \in Connection |-> <<>>]
  /\ copy = [c \in Connection |-> {}]
  /\ sessions = 0
  /\ entitled = {}

--------------------------------------------------------------------------------
(* The server's side of a socket. *)

\* Room.connections; a leaving socket is still in it while it waits for the lock.
InRoom == {c \in Connection : pc[c] \in {"live", "leaving"}}

\* Faulty variant: the queue takes one frame too many.
MutantFull(c) == Len(queue[c]) > QueueSize

\* put_nowait raises QueueFull.
Full(c) == Len(queue[c]) >= QueueSize

\* Faulty variant: a full queue drops the frame and nothing else.
MutantSend(receivers, frame) ==
  /\ queue' = [c \in Connection |->
                 IF c \in receivers \ closing /\ ~Full(c) THEN Append(queue[c], frame)
                 ELSE queue[c]]
  /\ UNCHANGED closer

\* Connection.send to each receiver.
Send(receivers, frame) ==
  /\ queue' = [c \in Connection |->
                 IF c \in receivers \ closing /\ ~Full(c) THEN Append(queue[c], frame)
                 ELSE queue[c]]
  /\ closer' = closer \cup {c \in receivers \ closing : Full(c)}

\* The socket opens: the role was looked up in the handshake, and the page sends
\* its state vector.
Accept(c) ==
  /\ pc[c] = "away" /\ sessions < MaxSessions
  /\ sessions' = sessions + 1
  /\ pc' = [pc EXCEPT ![c] = "joining"]
  /\ \/ can_write' = can_write \cup {c} /\ entitled' = entitled \cup {c}
     \/ UNCHANGED <<can_write, entitled>>
  /\ sent' = [sent EXCEPT ![c] = <<Step1(copy[c])>>]
  /\ UNCHANGED <<doc, queue, closing, closer, copy>>

\* Faulty variant: the server does not ask what the page has.
MutantJoin(c) ==
  /\ pc[c] = "joining"
  /\ pc' = [pc EXCEPT ![c] = "live"]
  /\ UNCHANGED <<doc, queue, can_write, closing, closer, page, sessions, entitled>>

\* manager.join returns and the endpoint sends the room's state vector.
Join(c) ==
  /\ pc[c] = "joining"
  /\ pc' = [pc EXCEPT ![c] = "live"]
  /\ queue' = [queue EXCEPT ![c] = <<Step1(doc)>>]
  /\ UNCHANGED <<doc, can_write, closing, closer, page, sessions, entitled>>

\* The session is over: its Connection and what was in its socket are gone.
EndSession(c) ==
  /\ pc' = [pc EXCEPT ![c] = "away"]
  /\ can_write' = can_write \ {c}
  /\ queue' = [queue EXCEPT ![c] = <<>>]
  /\ sent' = [sent EXCEPT ![c] = <<>>]
  /\ closing' = closing \ {c}
  /\ closer' = closer \ {c}
  /\ UNCHANGED <<doc, copy, sessions, entitled>>

JoinFails(c) == pc[c] = "joining" /\ EndSession(c)

\* room.connections.discard, once leave has the manager's lock.
Leave(c) == pc[c] = "leaving" /\ EndSession(c)

\* The finally clause, up to the lock that leave waits for.
Finally(c) ==
  /\ pc' = [pc EXCEPT ![c] = "leaving"]
  /\ closing' = closing \cup {c}

Disconnect(c) ==
  /\ pc[c] = "live"
  /\ Finally(c)
  /\ UNCHANGED <<doc, can_write, queue, closer, page, sessions, entitled>>

\* The task of close(CLOSE_SLOW_CONSUMER) runs.
CloseSlow(c) ==
  /\ c \in closer
  /\ closer' = closer \ {c}
  /\ closing' = closing \cup {c}
  /\ UNCHANGED <<doc, pc, can_write, queue, page, sessions, entitled>>

--------------------------------------------------------------------------------
(* Room.handle_message. *)

\* Faulty variant: the room's state vector is taken for the page's.
MutantAnswer(c, frame) ==
  /\ frame.type = "step1"
  /\ Send({c}, Step2(doc, StateVector(doc)))
  /\ UNCHANGED doc

\* Reading is allowed for every role.
Answer(c, frame) ==
  /\ frame.type = "step1"
  /\ Send({c}, Step2(doc, frame.content))
  /\ UNCHANGED doc

\* Faulty variant: the role is checked for one kind of frame only.
MutantMayApply(c, frame) ==
  /\ c \in can_write \/ frame.type = "step2"
  /\ frame.content # {}

\* The role is checked on every write; an empty update changes nothing.
MayApply(c, frame) == c \in can_write /\ frame.content # {}

Apply(c, frame) ==
  /\ frame.type \in {"step2", "update"} /\ MayApply(c, frame)
  /\ doc' = doc \cup frame.content
  /\ Send(InRoom \ {c}, SyncUpdate(frame.content))

Ignore(c, frame) ==
  /\ frame.type \in {"step2", "update"} /\ ~MayApply(c, frame)
  /\ UNCHANGED <<doc, queue, closer>>

\* receive_bytes returns a frame; on a socket that is being closed it was the last
\* one, and the next receive_bytes raises.
Receive(c) ==
  /\ pc[c] = "live" /\ sent[c] # <<>>
  /\ LET frame == Head(sent[c])
     IN Answer(c, frame) \/ Apply(c, frame) \/ Ignore(c, frame)
  /\ sent' = [sent EXCEPT ![c] = Tail(@)]
  /\ IF c \in closing THEN Finally(c) ELSE UNCHANGED <<pc, closing>>
  /\ UNCHANGED <<can_write, copy, sessions, entitled>>

--------------------------------------------------------------------------------
(* The page: y-websocket on the document of useCollabSession. *)

\* A new edit, sent at once if the socket is open.  A page may edit with a role it
\* no longer has.
MakeEdit(c) ==
  LET n == Cardinality({e \in copy[c] : e[1] = c}) + 1
  IN /\ n <= MaxEdits[c]
     /\ copy' = [copy EXCEPT ![c] = @ \cup {<<c, n>>}]
     /\ sent' = IF pc[c] \in {"joining", "live"}
                THEN [sent EXCEPT ![c] = Append(@, SyncUpdate({<<c, n>>}))]
                ELSE sent
     /\ UNCHANGED <<doc, pc, can_write, queue, closing, closer, sessions, entitled>>

\* The writer sends a frame, and the page answers or merges it.
Deliver(c) ==
  /\ pc[c] = "live" /\ c \notin closing /\ queue[c] # <<>>
  /\ queue' = [queue EXCEPT ![c] = Tail(@)]
  /\ LET frame == Head(queue[c])
     IN IF frame.type = "step1"
        THEN /\ sent' = [sent EXCEPT ![c] = Append(@, Step2(copy[c], frame.content))]
             /\ UNCHANGED copy
        ELSE /\ copy' = [copy EXCEPT ![c] = @ \cup frame.content]
             /\ UNCHANGED sent
  /\ UNCHANGED <<doc, pc, can_write, closing, closer, sessions, entitled>>

--------------------------------------------------------------------------------

Next ==
  \E c \in Connection :
    \/ Accept(c) \/ Join(c) \/ JoinFails(c) \/ Leave(c)
    \/ Disconnect(c) \/ CloseSlow(c)
    \/ Receive(c) \/ MakeEdit(c) \/ Deliver(c)

Spec == Init /\ [][Next]_vars

\* asyncio runs every ready task; a frame on a socket arrives, or the socket is
\* found dead (uvicorn pings it).  Nothing makes a page connect, edit or leave.
Fairness ==
  \A c \in Connection :
    /\ WF_vars(Join(c) \/ JoinFails(c)) /\ WF_vars(Leave(c)) /\ WF_vars(CloseSlow(c))
    /\ WF_vars(Receive(c) \/ (sent[c] # <<>> /\ Disconnect(c)))
    /\ WF_vars(Deliver(c) \/ (queue[c] # <<>> /\ Disconnect(c)))
    /\ WF_vars(c \in closing /\ Disconnect(c))

FairSpec == Spec /\ Fairness

--------------------------------------------------------------------------------
(* Properties. *)

Frame == [type : {"step1", "step2", "update"}, content : SUBSET Edit]

\* Every variable keeps its type, and no queue holds more than it may.
TypeOK ==
  /\ doc \subseteq Edit
  /\ pc \in [Connection -> {"away", "joining", "live", "leaving"}]
  /\ can_write \subseteq Connection /\ entitled \subseteq Connection
  /\ closing \subseteq Connection /\ closer \subseteq Connection
  /\ queue \in [Connection -> Seq(Frame)] /\ sent \in [Connection -> Seq(Frame)]
  /\ \A c \in Connection : Len(queue[c]) <= QueueSize
  /\ copy \in [Connection -> SUBSET Edit]
  /\ sessions \in 0..MaxSessions

\* Whether a state vector is on its way, and the edits that are.
Asks(frames) == \E i \in DOMAIN frames : frames[i].type = "step1"

Carried(frames) ==
  UNION {frames[i].content : i \in {j \in DOMAIN frames : frames[j].type # "step1"}}

\* A socket that stays open misses nothing: what the room has and the page lacks is
\* in the socket's queue, or the page's state vector is still to be answered; a
\* socket that lost a frame to a full queue is being closed (send, broadcast).
NoSilentGap ==
  \A c \in InRoom \ (closing \cup closer) :
    Asks(sent[c]) \/ doc \subseteq copy[c] \cup Carried(queue[c])

\* What a page may write reaches the room: an edit the room lacks, made online or
\* offline, in this session or before it, is on its way or will be asked for.
NoEditForgotten ==
  \A c \in InRoom \cap can_write :
    c \in closing \/ Asks(queue[c]) \/ copy[c] \subseteq doc \cup Carried(sent[c])

Shared == INSTANCE SharedText WITH
  Page <- Connection, text <- doc, writers <- entitled

\* Every behaviour of the relay is one of a text that pages share: whatever frames are
\* queued, dropped, answered late or sent again after a reconnect, each step makes one
\* new edit, moves edits that their sender still has, from writers only, or changes no
\* document.  So a page that never had a session that writes changes nobody's document,
\* by no kind of frame (handle_message, broadcast, send, leave).
ImplementsSharedText == Shared!Spec

\* An edit the room has reaches every page whose session lasts.
EditsReachPages ==
  \A c \in Connection : \A e \in Edit :
    (pc[c] = "live" /\ e \in doc) ~> (pc[c] # "live" \/ e \in copy[c])

\* An edit made offline, or before a reconnect, reaches the room if the page's
\* session may write and lasts.
EditsReachRoom ==
  \A c \in Connection : \A e \in Edit :
    (pc[c] = "live" /\ c \in can_write /\ e \in copy[c]) ~> (pc[c] # "live" \/ e \in doc)

================================================================================
