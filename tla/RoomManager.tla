------------------------------ MODULE RoomManager ------------------------------
(***************************************************************************)
(* The life of a room in the sync server (apps/server/sync/rooms.py and    *)
(* main.py): sockets join it, edit it and leave it under the manager's     *)
(* lock; a periodic loop, the last socket to leave and the shutdown        *)
(* handler flush it to the live row of document_snapshots; the API may     *)
(* delete the document underneath; the process may crash or be stopped.    *)
(*                                                                         *)
(* An asyncio program only switches tasks at an await that suspends, so an *)
(* action is the code between two such awaits.  A Yjs document is the set  *)
(* of updates merged into it: applying one is a union, which is what makes *)
(* it a CRDT.  Roles are fixed here (Editor); LiveAccess.tla makes them    *)
(* change.                                                                 *)
(***************************************************************************)
EXTENDS Naturals, FiniteSets

CONSTANTS
  Document,        \* documents.id
  Connection,      \* websocket endpoint tasks
  DocumentOf,      \* the document in each connection's URL
  Editor,          \* the connections whose role may write
  Room,            \* Room objects; one nothing refers to is reused
  Update,          \* Yjs updates
  Deletable,       \* the documents the API may delete
  MaxFailures,     \* bound on failing database calls
  MaxStops,        \* bound on crashes and stops of the process
  ServerWaits,     \* the ASGI server ends every endpoint before lifespan exits
  FlushLoop,       \* the flush_loop task
  Shutdown,        \* the lifespan task, in manager.shutdown()
  NoRoom,
  NoDocument

ASSUME ConstantsAssumption ==
  /\ DocumentOf \in [Connection -> Document]
  /\ Editor \subseteq Connection
  /\ Deletable \subseteq Document
  /\ MaxFailures \in Nat /\ MaxStops \in Nat
  /\ ServerWaits \in BOOLEAN
  /\ NoRoom \notin Room /\ NoDocument \notin Document
  /\ FlushLoop \notin Connection /\ Shutdown \notin Connection
  /\ FlushLoop # Shutdown

VARIABLES
  exists,      \* documents that have a row
  snapshot,    \* the updates in each document's live row, {} when it has none
  events,      \* "deleted" events on their way to the listener, if it listens
  rooms,       \* RoomManager.rooms
  room,        \* the Room objects
  pc,          \* where each endpoint task is
  at,          \* the Room an endpoint task holds
  loaded,      \* what load_state returned to the task that holds _lock
  flush,       \* per task: its call of RoomManager.flush
  todo,        \* rooms the current pass of flush_loop or shutdown has left
  phase,       \* the process: up, draining, stopping or down
  failures,    \* database calls that failed so far
  stops,       \* crashes and stops so far
  owed,        \* history: updates applied and not lost to a crash or delete
  abandoned    \* history: documents of which a room not yet durable was let go

database == <<exists, snapshot>>
memory   == <<rooms, room, pc, at, loaded>>
tasks    == <<flush, todo>>
process  == <<phase, failures, stops>>
history  == <<owed, abandoned>>
vars     == <<database, events, memory, tasks, process, history>>

Task == Connection \cup {FlushLoop, Shutdown}

\* Faulty variant: the loaded state is not applied to the new document.
MutantNewRoom(d, doc, conns) ==
  [document_id |-> d, doc |-> {}, connections |-> conns,
   dirty |-> FALSE, deleted |-> FALSE]

NewRoom(d, doc, conns) ==
  [document_id |-> d, doc |-> doc, connections |-> conns,
   dirty |-> FALSE, deleted |-> FALSE]

Garbage == NewRoom(NoDocument, {}, {})

NotFlushing == [step |-> "none", room |-> NoRoom, state |-> {}]

Init ==
  /\ exists = Document
  /\ snapshot = [d \in Document |-> {}]
  /\ events = {}
  /\ rooms = [d \in Document |-> NoRoom]
  /\ room = [r \in Room |-> Garbage]
  /\ pc = [c \in Connection |-> "idle"]
  /\ at = [c \in Connection |-> NoRoom]
  /\ loaded = {}
  /\ flush = [t \in Task |-> NotFlushing]
  /\ todo = [t \in {FlushLoop, Shutdown} |-> {}]
  /\ phase = "up"
  /\ failures = 0
  /\ stops = 0
  /\ owed = [d \in Document |-> {}]
  /\ abandoned = {}

--------------------------------------------------------------------------------
(* Locks, references and the parts handlers share. *)

\* Faulty variant: the lock is not held across load_state.
MutantLockFree == \A c \in Connection : pc[c] # "flushing"

\* Faulty variant: the lock is held as long as a socket is served.
MutantLockFreeOnceIdle ==
  \A c \in Connection : pc[c] \notin {"loading", "loaded", "live", "flushing"}

\* RoomManager._lock is held across load_state in join and across flush in leave.
LockFree == \A c \in Connection : pc[c] \notin {"loading", "loaded", "flushing"}

Registered == {rooms[d] : d \in Document} \ {NoRoom}

Saving(t, r) == flush[t].step = "saving" /\ flush[t].room = r

\* Room.flush_lock is held across save_state; asyncio serves waiters first.
FlushLockTaken(r) == \E t \in Task : flush[t].room = r

Unreferenced(r) ==
  /\ r \notin Registered
  /\ \A c \in Connection : at[c] # r
  /\ \A t \in Task : flush[t].room # r
  /\ \A t \in {FlushLoop, Shutdown} : r \notin todo[t]

\* flush returns at once for a room that is deleted or clean.
NeedsFlush(ro) == ~ro.deleted /\ ro.dirty

\* get_update() is taken, and dirty cleared, before save_state is awaited.
StartSave(t, r, heap) ==
  /\ flush' = [flush EXCEPT ![t] = [step |-> "saving", room |-> r, state |-> heap[r].doc]]
  /\ room' = [heap EXCEPT ![r].dirty = FALSE]

WaitForFlush(t, r, heap) ==
  /\ flush' = [flush EXCEPT ![t] = [step |-> "waiting", room |-> r, state |-> {}]]
  /\ room' = heap

EnterFlush(t, r, heap) ==
  \/ ~FlushLockTaken(r) /\ StartSave(t, r, heap)
  \/ FlushLockTaken(r) /\ WaitForFlush(t, r, heap)

\* Faulty variants: a failed save is forgotten, or taken for a deleted document.
MutantForgetFailure(r) == room
MutantFailureDeletes(r) == [room EXCEPT ![r].deleted = TRUE]

MarkDirty(r)   == [room EXCEPT ![r].dirty = TRUE]
MarkDeleted(r) == [room EXCEPT ![r].deleted = TRUE]

\* A Room object is let go while its content is not known to be in the live
\* row: it is dirty, or a save another task started has not returned.
NotDurable(t, r, heap) ==
  /\ ~heap[r].deleted
  /\ heap[r].dirty \/ \E s \in Task \ {t} : Saving(s, r)

\* Faulty variant: the slot is emptied, not removed.
MutantUnregister(d, r) == [rooms EXCEPT ![d] = IF @ = r THEN {} ELSE @]

\* The end of leave: "if self.rooms.get(room.document_id) is room: del".
Unregister(d, r) == [rooms EXCEPT ![d] = IF @ = r THEN NoRoom ELSE @]

Drop(c, heap) ==
  LET r == at[c]
      d == heap[r].document_id
  IN /\ room' = heap
     /\ rooms' = Unregister(d, r)
     /\ pc' = [pc EXCEPT ![c] = "idle"]
     /\ at' = [at EXCEPT ![c] = NoRoom]
     /\ abandoned' = IF NotDurable(c, r, heap) THEN abandoned \cup {d} ELSE abandoned
     /\ UNCHANGED loaded

\* "for room in list(...): await self.flush(room)": rooms with nothing to save
\* are passed over without suspending, up to the first that has.
Advance(remaining, heap) ==
  \/ /\ \A r \in remaining : ~NeedsFlush(heap[r])
     /\ todo' = [todo EXCEPT ![FlushLoop] = {}]
     /\ flush' = [flush EXCEPT ![FlushLoop] = NotFlushing]
     /\ room' = heap
  \/ \E r \in remaining :
       \E later \in SUBSET (remaining \ {r}) :
         /\ NeedsFlush(heap[r])
         /\ \A s \in remaining \ (later \cup {r}) : ~NeedsFlush(heap[s])
         /\ todo' = [todo EXCEPT ![FlushLoop] = later]
         /\ EnterFlush(FlushLoop, r, heap)

\* flush returns to its caller, which runs on to its next await.
FlushReturns(t, heap) ==
  \/ /\ t \in Connection
     /\ flush' = [flush EXCEPT ![t] = NotFlushing]
     /\ Drop(t, heap)
     /\ UNCHANGED todo
  \/ /\ t = FlushLoop
     /\ Advance(todo[FlushLoop], heap)
     /\ UNCHANGED <<rooms, pc, at, loaded, abandoned>>
  \/ /\ t = Shutdown
     /\ flush' = [flush EXCEPT ![t] = NotFlushing]
     /\ room' = heap
     /\ UNCHANGED <<rooms, pc, at, loaded, abandoned, todo>>

--------------------------------------------------------------------------------
(* Joining. *)

\* main.py: token and role are checked before the socket is accepted.
Handshake(c) ==
  /\ phase = "up" /\ pc[c] = "idle"
  /\ DocumentOf[c] \in exists
  /\ pc' = [pc EXCEPT ![c] = "joining"]
  /\ UNCHANGED <<database, events, rooms, room, at, loaded, tasks, process, history>>

JoinExisting(c) ==
  LET r == rooms[DocumentOf[c]]
  IN /\ pc[c] = "joining" /\ LockFree
     /\ r # NoRoom
     /\ room' = [room EXCEPT ![r].connections = @ \cup {c}]
     /\ at' = [at EXCEPT ![c] = r]
     /\ pc' = [pc EXCEPT ![c] = "live"]
     /\ UNCHANGED <<database, events, rooms, loaded, tasks, process, history>>

StartLoad(c) ==
  /\ pc[c] = "joining" /\ LockFree
  /\ rooms[DocumentOf[c]] = NoRoom
  /\ pc' = [pc EXCEPT ![c] = "loading"]
  /\ UNCHANGED <<database, events, rooms, room, at, loaded, tasks, process, history>>

\* Faulty variant: the row is not found.
MutantLoadReads(c) ==
  /\ pc[c] = "loading"
  /\ loaded' = {}
  /\ pc' = [pc EXCEPT ![c] = "loaded"]
  /\ UNCHANGED <<database, events, rooms, room, at, tasks, process, history>>

\* The row as it is when the SELECT runs, used when the answer arrives.
LoadReads(c) ==
  /\ pc[c] = "loading"
  /\ loaded' = snapshot[DocumentOf[c]]
  /\ pc' = [pc EXCEPT ![c] = "loaded"]
  /\ UNCHANGED <<database, events, rooms, room, at, tasks, process, history>>

\* Faulty variant: the lock is not released.
MutantLoadFails(c) ==
  /\ pc[c] = "loading"
  /\ failures < MaxFailures
  /\ failures' = failures + 1
  /\ pc' = [pc EXCEPT ![c] = "flushing"]
  /\ UNCHANGED <<database, events, rooms, room, at, loaded, tasks, phase, stops, history>>

LoadFails(c) ==
  /\ pc[c] = "loading"
  /\ failures < MaxFailures
  /\ failures' = failures + 1
  /\ pc' = [pc EXCEPT ![c] = "idle"]
  /\ UNCHANGED <<database, events, rooms, room, at, loaded, tasks, phase, stops, history>>

LoadReturns(c) ==
  LET d == DocumentOf[c]
  IN /\ pc[c] = "loaded"
     /\ \E r \in Room :
          /\ Unreferenced(r)
          /\ room' = [room EXCEPT ![r] = NewRoom(d, loaded, {c})]
          /\ rooms' = [rooms EXCEPT ![d] = r]
          /\ at' = [at EXCEPT ![c] = r]
     /\ loaded' = {}
     /\ pc' = [pc EXCEPT ![c] = "live"]
     /\ UNCHANGED <<database, events, tasks, process, history>>

--------------------------------------------------------------------------------
(* Editing and leaving. *)

\* apply_update merges, and marks the room even when the update brought nothing.
Edited(ro, u) == [ro EXCEPT !.doc = @ \cup {u}, !.dirty = TRUE]

\* handle_message on a SYNC_STEP2 or SYNC_UPDATE frame from a writer.
ReceiveUpdate(c, u) ==
  LET r == at[c]
      d == DocumentOf[c]
  IN /\ pc[c] = "live" /\ c \in Editor
     /\ room' = [room EXCEPT ![r] = Edited(@, u)]
     /\ owed' = IF d \in exists THEN [owed EXCEPT ![d] = @ \cup {u}] ELSE owed
     /\ UNCHANGED <<database, events, rooms, pc, at, loaded, tasks, process, abandoned>>

\* receive_bytes raises; the endpoint's finally clause begins.
Disconnect(c) ==
  /\ pc[c] = "live"
  /\ pc' = [pc EXCEPT ![c] = "leaving"]
  /\ UNCHANGED <<database, events, rooms, room, at, loaded, tasks, process, history>>

\* room.connections.discard(conn)
Discarded(c) == [room EXCEPT ![at[c]].connections = @ \ {c}]

LeaveOthers(c) ==
  /\ pc[c] = "leaving" /\ LockFree
  /\ Discarded(c)[at[c]].connections # {}
  /\ room' = Discarded(c)
  /\ pc' = [pc EXCEPT ![c] = "idle"]
  /\ at' = [at EXCEPT ![c] = NoRoom]
  /\ UNCHANGED <<database, events, rooms, loaded, tasks, process, history>>

LastLeaves(c) ==
  /\ pc[c] = "leaving" /\ LockFree
  /\ Discarded(c)[at[c]].connections = {}

LeaveClean(c) ==
  /\ LastLeaves(c)
  /\ ~NeedsFlush(room[at[c]])
  /\ Drop(c, Discarded(c))
  /\ UNCHANGED <<database, events, tasks, process, owed>>

LeaveFlush(c) ==
  /\ LastLeaves(c)
  /\ NeedsFlush(room[at[c]])
  /\ EnterFlush(c, at[c], Discarded(c))
  /\ pc' = [pc EXCEPT ![c] = "flushing"]
  /\ UNCHANGED <<database, events, rooms, at, loaded, todo, process, history>>

--------------------------------------------------------------------------------
(* Flushing. *)

LoopTick ==
  /\ phase \in {"up", "draining"}
  /\ flush[FlushLoop] = NotFlushing
  /\ \E r \in Registered : NeedsFlush(room[r])
  /\ Advance(Registered, room)
  /\ UNCHANGED <<database, events, rooms, pc, at, loaded, process, history>>

AcquireFlushLock(t) ==
  LET r == flush[t].room
  IN /\ flush[t].step = "waiting"
     /\ \A s \in Task : ~Saving(s, r)
     /\ \/ NeedsFlush(room[r]) /\ StartSave(t, r, room)
           /\ UNCHANGED <<rooms, pc, at, loaded, abandoned, todo>>
        \/ ~NeedsFlush(room[r]) /\ FlushReturns(t, room)
     /\ UNCHANGED <<database, events, process, owed>>

DocumentSavedBy(t) == room[flush[t].room].document_id

\* Faulty variant: dirty is cleared when the save returns.
MutantSaveCommits(t) ==
  LET d == DocumentSavedBy(t)
  IN /\ flush[t].step = "saving"
     /\ d \in exists
     /\ snapshot' = [snapshot EXCEPT ![d] = flush[t].state]
     /\ FlushReturns(t, [room EXCEPT ![flush[t].room].dirty = FALSE])
     /\ UNCHANGED <<exists, events, process, owed>>

\* save_state is one transaction; it upserts the whole state.
SaveCommits(t) ==
  LET d == DocumentSavedBy(t)
  IN /\ flush[t].step = "saving"
     /\ d \in exists
     /\ snapshot' = [snapshot EXCEPT ![d] = flush[t].state]
     /\ FlushReturns(t, room)
     /\ UNCHANGED <<exists, events, process, owed>>

SaveFindsNoDocument(t) ==
  /\ flush[t].step = "saving"
  /\ DocumentSavedBy(t) \notin exists
  /\ FlushReturns(t, MarkDeleted(flush[t].room))
  /\ UNCHANGED <<database, events, process, owed>>

\* The exception may come after the commit was applied.
SaveRaises(t) ==
  LET d == DocumentSavedBy(t)
  IN /\ flush[t].step = "saving"
     /\ failures < MaxFailures
     /\ failures' = failures + 1
     /\ \/ UNCHANGED snapshot
        \/ d \in exists /\ snapshot' = [snapshot EXCEPT ![d] = flush[t].state]
     /\ FlushReturns(t, MarkDirty(flush[t].room))
     /\ UNCHANGED <<exists, events, phase, stops, owed>>

--------------------------------------------------------------------------------
(* The API deletes the document; its snapshots go with it (ON DELETE CASCADE). *)

DeleteDocument(d) ==
  /\ d \in exists \cap Deletable
  /\ exists' = exists \ {d}
  /\ snapshot' = [snapshot EXCEPT ![d] = {}]
  /\ events' = IF phase \in {"up", "draining"} THEN events \cup {d} ELSE events
  /\ owed' = [owed EXCEPT ![d] = {}]
  /\ UNCHANGED <<memory, tasks, process, abandoned>>

\* handle_permission_event; the closes it makes end in Disconnect.
HandleDeleted(d) ==
  /\ phase \in {"up", "draining"} /\ d \in events
  /\ events' = events \ {d}
  /\ room' = IF rooms[d] = NoRoom THEN room
             ELSE MarkDeleted(rooms[d])
  /\ UNCHANGED <<database, rooms, pc, at, loaded, tasks, process, history>>

--------------------------------------------------------------------------------
(* Stopping, crashing and starting again. *)

\* SIGTERM: no more handshakes; the server disconnects the open sockets.
BeginStop ==
  /\ phase = "up" /\ stops < MaxStops
  /\ phase' = "draining"
  /\ stops' = stops + 1
  /\ UNCHANGED <<database, events, memory, tasks, failures, history>>

\* lifespan: task.cancel() and gather, then manager.shutdown() lists the rooms.
\* CancelledError is not an Exception: flush does not put dirty back.  (A commit
\* that went through before the cancellation is SaveCommits before this step.)
CancelTasks ==
  LET saved == IF flush[FlushLoop].step = "saving"
               THEN {DocumentSavedBy(FlushLoop)} ELSE {}
  IN /\ phase = "draining"
     /\ ServerWaits => \A c \in Connection : pc[c] = "idle"
     /\ phase' = "stopping"
     /\ flush' = [flush EXCEPT ![FlushLoop] = NotFlushing]
     /\ todo' = [todo EXCEPT ![FlushLoop] = {}, ![Shutdown] = Registered]
     /\ abandoned' = abandoned \cup saved
     /\ UNCHANGED <<database, events, memory, failures, stops, owed>>

\* shutdown closes a room's sockets (they end in Disconnect) and flushes it.
ShutdownRoom(r) ==
  /\ phase = "stopping" /\ flush[Shutdown] = NotFlushing
  /\ r \in todo[Shutdown]
  /\ todo' = [todo EXCEPT ![Shutdown] = @ \ {r}]
  /\ \/ NeedsFlush(room[r]) /\ EnterFlush(Shutdown, r, room)
     \/ ~NeedsFlush(room[r]) /\ UNCHANGED <<room, flush>>
  /\ UNCHANGED <<database, events, rooms, pc, at, loaded, process, history>>

\* Every task and every object of the process goes.
Forget ==
  /\ rooms' = [d \in Document |-> NoRoom]
  /\ room' = [r \in Room |-> Garbage]
  /\ pc' = [c \in Connection |-> "idle"]
  /\ at' = [c \in Connection |-> NoRoom]
  /\ loaded' = {}
  /\ flush' = [t \in Task |-> NotFlushing]
  /\ todo' = [t \in {FlushLoop, Shutdown} |-> {}]
  /\ events' = {}
  /\ phase' = "down"

\* A flush of shutdown that failed, or an edit or a save it came too early for.
LeftUnsaved ==
  {d \in Document : /\ rooms[d] # NoRoom
                    /\ \/ NeedsFlush(room[rooms[d]])
                       \/ \E t \in Task : Saving(t, rooms[d])}

Exit ==
  /\ phase = "stopping"
  /\ todo[Shutdown] = {} /\ flush[Shutdown] = NotFlushing
  /\ Forget
  /\ abandoned' = abandoned \cup LeftUnsaved
  /\ UNCHANGED <<database, failures, stops, owed>>

\* A crash may lose what was not flushed: the design accepts one flush interval.
Crash ==
  /\ phase # "down" /\ stops < MaxStops
  /\ stops' = stops + 1
  /\ Forget
  /\ owed' = snapshot
  /\ UNCHANGED <<database, failures, abandoned>>

Restart ==
  /\ phase = "down"
  /\ phase' = "up"
  /\ UNCHANGED <<database, events, memory, tasks, failures, stops, history>>

--------------------------------------------------------------------------------

Join(c)  == JoinExisting(c) \/ StartLoad(c)
Leave(c) == LeaveOthers(c) \/ LeaveClean(c) \/ LeaveFlush(c)
SaveReturns(t) == SaveCommits(t) \/ SaveFindsNoDocument(t) \/ SaveRaises(t)

Endpoint(c) ==
  \/ Handshake(c) \/ Join(c) \/ LoadReads(c) \/ LoadFails(c) \/ LoadReturns(c)
  \/ \E u \in Update : ReceiveUpdate(c, u)
  \/ Disconnect(c) \/ Leave(c)

Flushing(t) == AcquireFlushLock(t) \/ SaveReturns(t)

Next ==
  \/ \E c \in Connection : Endpoint(c)
  \/ \E t \in Task : Flushing(t)
  \/ LoopTick
  \/ \E d \in Document : DeleteDocument(d) \/ HandleDeleted(d)
  \/ BeginStop \/ CancelTasks \/ (\E r \in Room : ShutdownRoom(r)) \/ Exit
  \/ Crash \/ Restart

Spec == Init /\ [][Next]_vars

\* asyncio runs every ready task and serves a Lock's waiters in order (SF on the
\* acquisitions); Postgres answers; a stopping server disconnects its sockets.
\* Nothing makes a client send, or an open socket close while the server is up.
Fairness ==
  /\ \A c \in Connection :
       /\ SF_vars(Join(c)) /\ SF_vars(Leave(c))
       /\ WF_vars(LoadReads(c) \/ LoadFails(c)) /\ WF_vars(LoadReturns(c))
       /\ WF_vars(phase # "up" /\ Disconnect(c))
  /\ \A t \in Task : SF_vars(AcquireFlushLock(t)) /\ WF_vars(SaveReturns(t))
  /\ WF_vars(LoopTick)
  /\ WF_vars(CancelTasks) /\ WF_vars(Exit) /\ WF_vars(Restart)
  /\ \A r \in Room : WF_vars(ShutdownRoom(r))

FairSpec == Spec /\ Fairness

--------------------------------------------------------------------------------
(* Properties. *)

RoomType ==
  [document_id : Document \cup {NoDocument}, doc : SUBSET Update,
   connections : SUBSET Connection, dirty : BOOLEAN, deleted : BOOLEAN]

FlushType ==
  [step : {"none", "waiting", "saving"}, room : Room \cup {NoRoom},
   state : SUBSET Update]

\* Every variable keeps its type.
TypeOK ==
  /\ exists \subseteq Document
  /\ snapshot \in [Document -> SUBSET Update]
  /\ events \subseteq Document
  /\ rooms \in [Document -> Room \cup {NoRoom}]
  /\ room \in [Room -> RoomType]
  /\ pc \in [Connection -> {"idle", "joining", "loading", "loaded", "live",
                            "leaving", "flushing"}]
  /\ at \in [Connection -> Room \cup {NoRoom}]
  /\ loaded \subseteq Update
  /\ flush \in [Task -> FlushType]
  /\ todo \in [{FlushLoop, Shutdown} -> SUBSET Room]
  /\ phase \in {"up", "draining", "stopping", "down"}
  /\ failures \in 0..MaxFailures
  /\ stops \in 0..MaxStops
  /\ owed \in [Document -> SUBSET Update]
  /\ abandoned \subseteq Document

\* Everyone who has a document open is in the one room the manager has for it:
\* no interleaving of join, load, leave, flush and reload splits a document's
\* editors between two rooms (RoomManager.join and leave).
SharedRoom ==
  \A c \in Connection :
    pc[c] \in {"live", "leaving"} =>
      /\ at[c] # NoRoom
      /\ rooms[DocumentOf[c]] = at[c]
      /\ c \in room[at[c]].connections

\* A room is marked deleted, which ends its persistence for good, only when the
\* document's row is gone (flush and handle_permission_event).
DeletedIsGone ==
  \A r \in Room : room[r].deleted => room[r].document_id \notin exists

\* What the server merged and no crash or delete took is in the live row or in
\* the registered room, unless a room was let go before it was durable: no
\* failed, late or concurrent save loses an edit any other way.
NoSilentLoss ==
  \A d \in Document \ abandoned :
    owed[d] \subseteq
      snapshot[d] \cup (IF rooms[d] = NoRoom THEN {} ELSE room[rooms[d]].doc)

\* dirty is truthful: a registered room that is clean, and that nobody is
\* saving, holds nothing the live row lacks (flush clears dirty before the save
\* is awaited and sets it again when the save raises).
CleanIsDurable ==
  \A d \in exists \ abandoned :
    LET r == rooms[d]
    IN \/ r = NoRoom
       \/ room[r].dirty
       \/ \E t \in Task : Saving(t, r)
       \/ room[r].doc \subseteq snapshot[d]

\* The live row only grows: the last committed save contains every earlier one
\* (save_state overwrites the row with the room's whole state).
SnapshotGrows ==
  [][\A d \in exists' \ abandoned' : snapshot[d] \subseteq snapshot'[d]]_vars

\* A socket that passed the handshake gets its room or is closed, however other
\* loads, failures and teardowns hold the manager's lock (join).
JoinCompletes ==
  \A c \in Connection : (pc[c] = "joining") ~> (pc[c] # "joining" /\ pc[c] # "loading")

\* What was merged reaches the live row, however saves fail, unless a crash, a
\* delete or a room let go too early takes it (flush_loop, leave, shutdown).
EventuallyDurable ==
  \A d \in Document : \A u \in Update :
    (u \in owed[d]) ~> (u \in snapshot[d] \/ u \notin owed[d] \/ d \in abandoned)

\* A stop that has begun ends (lifespan): no wait for a lock or a save blocks it.
StopCompletes == (phase = "draining") ~> (phase = "down")

--------------------------------------------------------------------------------
(* The abstract document: what is in the registered room or else in the live row. *)

Gone == abandoned \cup (Document \ exists)

Live(d) == IF rooms[d] = NoRoom THEN snapshot[d] ELSE room[rooms[d]].doc

Abstract == INSTANCE MergedDocument WITH
  content <- [d \in Document |-> IF d \in Gone THEN {} ELSE Live(d)],
  durable <- [d \in Document |-> IF d \in Gone THEN {} ELSE snapshot[d]],
  gone    <- Gone

\* Every behaviour of the room manager is one of the abstract document, as long
\* as rooms are let go durable (join, handle_message, leave, flush, shutdown).
ImplementsMergedDocument == Abstract!Spec

--------------------------------------------------------------------------------
(* What comments and documentation say, which the runs refute. *)

\* rooms.py, leave: "durable before the in-memory copy is dropped".
DurableBeforeDrop ==
  [][\A d \in exists' :
       LET r == rooms[d]
       IN (phase' = "up" /\ r # NoRoom /\ rooms'[d] = NoRoom)
            => room[r].doc \subseteq snapshot'[d]]_vars

\* main.py, lifespan: "final flush so a restart loses nothing".
RestartLosesNothing ==
  [][\A d \in Document : (phase = "stopping" /\ phase' = "down" /\ stops' = stops)
       => owed[d] \subseteq snapshot'[d]]_vars

================================================================================
