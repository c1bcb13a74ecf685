------------------------------- MODULE Presence --------------------------------
(***************************************************************************)
(* Who is shown in a document: the awareness frames that the sockets of    *)
(* one open room exchange (apps/server/sync/rooms.py: handle_message,      *)
(* announce_departure, leave; protocol.py: parse_awareness_update and      *)
(* awareness_removal_message; main.py: the endpoint).                      *)
(*                                                                         *)
(* The server relays a frame as it is, remembers the last one of each      *)
(* socket for those who join later, and the clock of every client a socket *)
(* spoke of.  When a socket ends it announces all of these as offline.     *)
(*                                                                         *)
(* A page is a y-websocket provider.  It takes an entry whose clock is     *)
(* newer, sends on what it took, and answers the removal of itself with a  *)
(* newer clock.  It forgets the others when its socket closes, but not     *)
(* their clocks.  The 30 s after which a provider drops a silent client,   *)
(* and its renewal every 15 s, are left out: what is shown here is shown   *)
(* until they strike.                                                      *)
(***************************************************************************)
EXTENDS Naturals, Sequences, FiniteSets, SequencesExt

CONSTANTS
  Page,        \* providers: an awareness client id each
  Socket,      \* sockets that the pages open, each used once
  NoSocket,
  NoPage,
  MaxMoves     \* bound on the clock up to which each page moves its cursor

ASSUME PresenceAssumption ==
  /\ NoSocket \notin Socket /\ NoPage \notin Page
  /\ IsFiniteSet(Page) /\ IsFiniteSet(Socket)
  /\ MaxMoves \in [Page -> Nat]

VARIABLES
  pc,          \* where the endpoint task of each socket is
  waiting,     \* the tasks queued for the manager's lock, first come first served
  known,       \* Connection.awareness_clients: the last clock of each client
  last,        \* Connection.last_awareness, empty for None
  inbox,       \* frames sent by the page that the endpoint has not received
  opener,      \* the page that opened each socket
  at,          \* the socket that each page believes open
  meta,        \* Awareness.meta: the clock a page has of each client, 0 for none
  shown,       \* Awareness.states: the clients a page has a state of, itself always
  haunted,     \* history: clients that a joining socket was told of after they left
  reopened,    \* history: pages that opened a second socket
  heard        \* history: the clients whose own frames went to each socket

server == <<pc, waiting, known, last>>
page == <<opener, at, meta, shown>>
history == <<haunted, reopened, heard>>
vars == <<server, inbox, page, history>>

\* The largest clock: each socket's end may add two to it.
Clock == 0..(Max(Range(MaxMoves)) + 2 * Cardinality(Socket))

\* A frame: some clients, each with a clock and whether it is there or null.
Frame == UNION {[S -> [clock : Clock, here : BOOLEAN]] : S \in SUBSET Page}
NoFrame == <<>>

Init ==
  /\ pc = [s \in Socket |-> "unused"]
  /\ waiting = <<>>
  /\ known = [s \in Socket |-> NoFrame]
  /\ last = [s \in Socket |-> NoFrame]
  /\ inbox = [s \in Socket |-> <<>>]
  /\ opener = [s \in Socket |-> NoPage]
  /\ at = [p \in Page |-> NoSocket]
  /\ meta = [p \in Page |-> [q \in Page |-> 0]]
  /\ shown = [p \in Page |-> {p}]
  /\ haunted = {}
  /\ reopened = {}
  /\ heard = [s \in Socket |-> {}]

--------------------------------------------------------------------------------
(* The page. *)

\* encodeAwarenessUpdate of some clients.
Encode(clients, clocks, present) ==
  [q \in clients |-> [clock |-> clocks[q], here |-> q \in present]]

Own(p) == Encode({p}, meta[p], {p})

\* applyAwarenessUpdate: the entries that are newer than what the page has.
Newer(view, frame) ==
  {q \in DOMAIN frame :
     \/ view.meta[q] < frame[q].clock
     \/ view.meta[q] = frame[q].clock /\ ~frame[q].here /\ q \in view.shown}

\* What a page p makes of a frame, and what it sends on.  It does not let itself be
\* removed: it takes a newer clock instead.
Take(p, view, frame) ==
  LET newer == Newer(view, frame)
      changed == {q \in newer : frame[q].here \/ view.meta[q] > 0 \/ q = p}
      clocks == [q \in Page |->
        IF q \notin newer THEN view.meta[q]
        ELSE IF q = p THEN frame[q].clock + 1 ELSE frame[q].clock]
      present == {q \in Page : IF q \in newer \ {p} THEN frame[q].here ELSE q \in view.shown}
  IN [meta  |-> clocks,
      shown |-> present,
      sent  |-> IF changed = {} THEN view.sent
                ELSE Append(view.sent, Encode(changed, clocks, present))]

Attached(s) == \E p \in Page : at[p] = s

\* What p makes of frames that reach it one after the other.
TakeAll(p, frames) ==
  LET view[i \in 0..Len(frames)] ==
        IF i = 0 THEN [meta |-> meta[p], shown |-> shown[p], sent |-> <<>>]
        ELSE Take(p, view[i - 1], frames[i])
  IN view[Len(frames)]

\* The frames of each socket reach the page that has it open, one after the other.
\* The delay of a frame in Connection.queue and on the wire shows as the delay of
\* what the page sends on; frames that are lost with their socket are those of a
\* page that closed it earlier.
Deliver(frames, received) ==
  LET view(p) == TakeAll(p, IF at[p] = NoSocket THEN <<>> ELSE frames[at[p]])
  IN /\ meta' = [p \in Page |-> view(p).meta]
     /\ shown' = [p \in Page |-> view(p).shown]
     /\ inbox' = [s \in Socket |->
          IF Attached(s) THEN received[s] \o view(opener[s]).sent ELSE received[s]]
     /\ UNCHANGED <<opener, at>>

Send(s, frame) == inbox' = [inbox EXCEPT ![s] = Append(@, frame)]

\* The provider connects, and sends its own state at once; the endpoint accepts
\* and waits for the lock to join.
Open(p, s) ==
  /\ pc[s] = "unused" /\ at[p] = NoSocket
  /\ opener' = [opener EXCEPT ![s] = p]
  /\ at' = [at EXCEPT ![p] = s]
  /\ Send(s, Own(p))
  /\ pc' = [pc EXCEPT ![s] = "joining"]
  /\ waiting' = Append(waiting, s)
  /\ reopened' = reopened \cup {opener[t] : t \in {t \in Socket : opener[t] = p}}
  /\ UNCHANGED <<known, last, meta, shown, haunted, heard>>

\* setLocalState, connected or not.
Move(p) ==
  /\ meta[p][p] < MaxMoves[p]
  /\ meta' = [meta EXCEPT ![p][p] = @ + 1]
  /\ IF at[p] # NoSocket /\ pc[at[p]] \in {"joining", "live"}
     THEN Send(at[p], Encode({p}, meta'[p], {p}))
     ELSE UNCHANGED inbox
  /\ UNCHANGED <<server, opener, at, shown, history>>

\* The page closes its socket, or learns that it is closed.
Close(p) ==
  /\ at[p] # NoSocket
  /\ at' = [at EXCEPT ![p] = NoSocket]
  /\ shown' = [shown EXCEPT ![p] = {p}]
  /\ UNCHANGED <<server, inbox, opener, meta, history>>

--------------------------------------------------------------------------------
(* The server. *)

\* Room.connections; a socket that is leaving stays in it until it has the lock.
InRoom == {s \in Socket : pc[s] \in {"live", "leaving"}}

\* Faulty variant: only sockets that have sent a frame are sent any.
MutantBroadcast(frame, exclude, received) ==
  Deliver([s \in Socket |->
             IF pc[s] = "live" /\ s # exclude /\ last[s] # NoFrame THEN <<frame>> ELSE <<>>],
          received)

\* Room.broadcast: a socket whose closing is set is sent nothing.
Broadcast(frame, exclude, received) ==
  Deliver([s \in Socket |-> IF pc[s] = "live" /\ s # exclude THEN <<frame>> ELSE <<>>],
          received)

\* RoomManager.join has the lock and returns; the endpoint sends the last frame of
\* every other socket of the room, in the order of a set.
Join(s) ==
  LET others == {t \in InRoom : last[t] # NoFrame}
  IN /\ waiting # <<>> /\ s = Head(waiting) /\ pc[s] = "joining"
     /\ waiting' = Tail(waiting)
     /\ pc' = [pc EXCEPT ![s] = "live"]
     /\ \E order \in SetToSeqs(others) :
          Deliver([t \in Socket |->
                     IF t = s THEN [i \in DOMAIN order |-> last[order[i]]] ELSE <<>>],
                  inbox)
     /\ haunted' = haunted \cup
          UNION {DOMAIN last[t] : t \in {t \in others : pc[t] = "leaving"}}
     /\ UNCHANGED <<known, last, reopened, heard>>

\* The state cannot be loaded: the endpoint closes the socket and returns.
JoinFails(s) ==
  /\ waiting # <<>> /\ s = Head(waiting) /\ pc[s] = "joining"
  /\ waiting' = Tail(waiting)
  /\ pc' = [pc EXCEPT ![s] = "gone"]
  /\ inbox' = [inbox EXCEPT ![s] = <<>>]
  /\ UNCHANGED <<known, last, page, history>>

\* awareness_clients, once the entries of a frame have been written to it.
Spoken(clocks, frame) ==
  [q \in DOMAIN clocks \cup DOMAIN frame |->
     IF q \in DOMAIN frame THEN frame[q].clock ELSE clocks[q]]

\* handle_message of an awareness frame.
Receive(s) ==
  LET frame == Head(inbox[s])
  IN /\ pc[s] = "live" /\ inbox[s] # <<>>
     /\ known' = [known EXCEPT ![s] = Spoken(@, frame)]
     /\ last' = [last EXCEPT ![s] = frame]
     /\ Broadcast(frame, s, [inbox EXCEPT ![s] = Tail(@)])
     /\ heard' = [t \in Socket |->
          IF pc[t] = "live" /\ t # s THEN heard[t] \cup (DOMAIN frame \cap {opener[s]})
          ELSE heard[t]]
     /\ UNCHANGED <<pc, waiting, haunted, reopened>>

\* awareness_removal_message: every client the socket spoke of, one clock later.
Removal(s) == [q \in DOMAIN known[s] |-> [clock |-> known[s][q] + 1, here |-> FALSE]]

\* Faulty variant: only the client of the socket itself is announced.
MutantLeave(s) ==
  LET received == [inbox EXCEPT ![s] = <<>>]
  IN /\ pc[s] = "live"
     /\ pc' = [pc EXCEPT ![s] = "leaving"]
     /\ waiting' = Append(waiting, s)
     /\ IF opener[s] \notin DOMAIN known[s] THEN inbox' = received /\ UNCHANGED page
        ELSE Broadcast([q \in {opener[s]} |-> Removal(s)[q]], s, received)
     /\ UNCHANGED <<known, last, history>>

\* The endpoint ends, whatever it has not received: leave announces the departure,
\* then waits for the lock.
Leave(s) ==
  LET received == [inbox EXCEPT ![s] = <<>>]
  IN /\ pc[s] = "live"
     /\ pc' = [pc EXCEPT ![s] = "leaving"]
     /\ waiting' = Append(waiting, s)
     /\ IF known[s] = NoFrame THEN inbox' = received /\ UNCHANGED page
        ELSE Broadcast(Removal(s), s, received)
     /\ UNCHANGED <<known, last, history>>

\* Faulty variant: the lock is not released.
MutantDiscard(s) ==
  /\ waiting # <<>> /\ s = Head(waiting) /\ pc[s] = "leaving"
  /\ pc' = [pc EXCEPT ![s] = "gone"]
  /\ UNCHANGED <<waiting, known, last, inbox, page, history>>

\* leave has the lock: room.connections.discard.
Discard(s) ==
  /\ waiting # <<>> /\ s = Head(waiting) /\ pc[s] = "leaving"
  /\ waiting' = Tail(waiting)
  /\ pc' = [pc EXCEPT ![s] = "gone"]
  /\ UNCHANGED <<known, last, inbox, page, history>>

--------------------------------------------------------------------------------

Next ==
  \/ \E p \in Page : Move(p) \/ Close(p) \/ \E s \in Socket : Open(p, s)
  \/ \E s \in Socket :
       \/ Join(s) \/ JoinFails(s) \/ Receive(s) \/ Leave(s) \/ Discard(s)

Spec == Init /\ [][Next]_vars

--------------------------------------------------------------------------------
(* Properties. *)

\* Every variable keeps its type.
TypeOK ==
  /\ pc \in [Socket -> {"unused", "joining", "live", "leaving", "gone"}]
  /\ waiting \in Seq({s \in Socket : pc[s] \in {"joining", "leaving"}})
  /\ known \in [Socket -> UNION {[S -> Clock] : S \in SUBSET Page}]
  /\ last \in [Socket -> Frame] /\ inbox \in [Socket -> Seq(Frame)]
  /\ opener \in [Socket -> Page \cup {NoPage}] /\ at \in [Page -> Socket \cup {NoSocket}]
  /\ meta \in [Page -> [Page -> Clock]] /\ shown \in [Page -> SUBSET Page]
  /\ haunted \subseteq Page /\ reopened \subseteq Page /\ heard \in [Socket -> SUBSET Page]

\* Nothing is on its way: no task waits, and the sockets that are open are open at
\* both ends, with nothing to receive.
Quiet ==
  /\ waiting = <<>>
  /\ \A s \in Socket :
       pc[s] = "live" \/ Attached(s) => pc[s] = "live" /\ Attached(s) /\ inbox[s] = <<>>

Departed(q) == at[q] = NoSocket

\* protocol.py: a removal "lets other users' cursors disappear the moment someone
\* disconnects".  When nothing is on its way, no page shows a client that has left:
\* whoever echoed its cursor, was told of it by a third socket or read its frames
\* late has had its removal after all of these.  The exception is a client whose
\* socket still waited for the lock, after its announcement, when another joined:
\* the joiner is handed the last frame of the one that left.
DepartedAreGone ==
  Quiet => \A p, q \in Page : p # q /\ q \in shown[p] /\ Departed(q) => q \in haunted

\* A departing socket announces every client it spoke of, those still connected
\* too.  They come back: when nothing is on its way, a page shows every connected
\* client that sent its cursor since the page joined, as it is now.  The exception
\* is a client whose page opened another socket: the others hold the clock of its
\* removal, which is ahead of its own, and ignore its next frame.
CursorsConverge ==
  Quiet => \A p, q \in Page :
    /\ p # q /\ ~Departed(p) /\ ~Departed(q)
    /\ q \in heard[at[p]] \ reopened
    /\ meta[q][q] > 0
    => q \in shown[p] /\ meta[p][q] = meta[q][q]

================================================================================
