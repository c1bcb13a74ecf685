--------------------------- MODULE RoomManagerProofs ---------------------------
(***************************************************************************)
(* Proofs about RoomManager, for every set of documents, sockets, rooms    *)
(* and updates.  The inductive invariant has three layers: who holds what  *)
(* (Structure), what "deleted" means (Deletion) and where merged updates   *)
(* are (Durability).  Under it the room manager implements the abstract    *)
(* document of MergedDocument.                                             *)
(***************************************************************************)
EXTENDS RoomManager, TLAPS

--------------------------------------------------------------------------------
(* Structure. *)

Holding(c) == pc[c] \in {"loading", "loaded", "flushing"}

\* _lock has one holder.
LockExclusive ==
  \A c, e \in Connection : Holding(c) /\ Holding(e) => c = e

LoadingUnregistered ==
  \A c \in Connection :
    pc[c] \in {"loading", "loaded"} => rooms[DocumentOf[c]] = NoRoom

\* Room.connections lists only sockets that are in the room.
Occupants ==
  \A r \in Room : \A c \in Connection :
    c \in room[r].connections => pc[c] \in {"live", "leaving"} /\ at[c] = r

\* While the last socket's flush runs, the room stays registered and empty.
TeardownEmpty ==
  \A c \in Connection : pc[c] = "flushing" =>
    /\ at[c] # NoRoom
    /\ rooms[DocumentOf[c]] = at[c]
    /\ room[at[c]].connections = {}

Identity ==
  \A d \in Document : rooms[d] # NoRoom => room[rooms[d]].document_id = d

\* A call of flush by an endpoint is the one its teardown makes.
FlushOwner ==
  \A c \in Connection :
    flush[c].step # "none" => pc[c] = "flushing" /\ flush[c].room = at[c]

\* What flush works on, and what the passes have left, are rooms of documents.
FlushRooms ==
  \A t \in Task :
    /\ flush[t].step = "none" <=> flush[t].room = NoRoom
    /\ flush[t].room # NoRoom => room[flush[t].room].document_id \in Document

TodoRooms ==
  \A t \in {FlushLoop, Shutdown} : \A r \in todo[t] :
    room[r].document_id \in Document

Structure ==
  /\ TypeOK /\ SharedRoom
  /\ LockExclusive /\ LoadingUnregistered /\ Occupants /\ TeardownEmpty
  /\ Identity /\ FlushOwner /\ FlushRooms /\ TodoRooms

--------------------------------------------------------------------------------
(* Deletion. *)

EventsGone == events \cap exists = {}

Deletion == DeletedIsGone /\ EventsGone

--------------------------------------------------------------------------------
(* Durability, for the documents of which every room was let go durable. *)

Kept == exists \ abandoned

SavingIn(f, t, r) == f[t].step = "saving" /\ f[t].room = r

\* flush_lock has one holder per room.
OneSaver ==
  \A s, t \in Task : \A r \in Room : Saving(s, r) /\ Saving(t, r) => s = t

\* A registered room contains what was loaded for it and saved of it, and what
\* is owed; when it is clean and not being saved, the row contains the room.
RoomMatchesRow(r, h, f, row, due) ==
  /\ row \subseteq h[r].doc
  /\ due \subseteq h[r].doc
  /\ (~h[r].dirty /\ \A t \in Task : ~SavingIn(f, t, r)) => h[r].doc \subseteq row

\* A save in flight is of the registered room, and covers the row.
SaversCover(d, r, h, f, row) ==
  \A t \in Task :
    (f[t].step = "saving" /\ h[f[t].room].document_id = d) =>
      /\ f[t].room = r
      /\ row \subseteq f[t].state
      /\ f[t].state \subseteq h[r].doc
      /\ ~h[r].dirty => f[t].state = h[r].doc

\* A room no longer registered has nothing left to save.
DetachedClean(d, r, h) ==
  \A q \in Room : (h[q].document_id = d /\ q # r) => ~h[q].dirty

\* Document d, with registered room r (or none), Room objects h, flushes f,
\* live row row and owed updates due, has lost nothing.
DocumentSafe(d, r, h, f, row, due) ==
  /\ IF r = NoRoom THEN due \subseteq row ELSE RoomMatchesRow(r, h, f, row, due)
  /\ SaversCover(d, r, h, f, row)
  /\ DetachedClean(d, r, h)

KeptSafe ==
  \A d \in Kept : DocumentSafe(d, rooms[d], room, flush, snapshot[d], owed[d])

LoadedIsRow ==
  \A c \in Connection :
    (pc[c] = "loaded" /\ DocumentOf[c] \in Kept) => loaded = snapshot[DocumentOf[c]]

GoneIsEmpty ==
  \A d \in Document \ exists : owed[d] = {} /\ snapshot[d] = {}

Durability == OneSaver /\ KeptSafe /\ LoadedIsRow /\ GoneIsEmpty

IInv == Structure /\ Deletion /\ Durability

--------------------------------------------------------------------------------
(* What the shared parts of the handlers do. *)

\* Two heaps agree on whose the rooms are, who is in them and what they hold.
SameRooms(h, g) ==
  \A r \in Room : /\ h[r].document_id = g[r].document_id
                  /\ h[r].connections = g[r].connections
                  /\ h[r].doc = g[r].doc

LEMMA TaskTypes ==
  /\ Connection \subseteq Task
  /\ FlushLoop \in Task /\ Shutdown \in Task
  /\ \A t \in Task : t \in Connection \/ t = FlushLoop \/ t = Shutdown
BY DEF Task

LEMMA NotFlushingType == NotFlushing \in FlushType
BY DEF NotFlushing, FlushType

\* Taking the flush lock, at once or after a wait, makes t the only saver of r.
LEMMA StartSaveEffect ==
  ASSUME flush \in [Task -> FlushType],
         NEW t \in Task, NEW r \in Room, NEW heap \in [Room -> RoomType],
         StartSave(t, r, heap)
  PROVE  /\ flush' \in [Task -> FlushType]
         /\ room' \in [Room -> RoomType]
         /\ SameRooms(room', heap)
         /\ \A q \in Room : room'[q].deleted = heap[q].deleted
         /\ \A q \in Room \ {r} : room'[q] = heap[q]
         /\ ~room'[r].dirty
         /\ flush'[t] = [step |-> "saving", room |-> r, state |-> heap[r].doc]
         /\ \A s \in Task \ {t} : flush'[s] = flush[s]
BY DEF StartSave, FlushType, RoomType, SameRooms

\* Task t has entered flush of r and now saves it, or waits for its flush lock.
FlushStarts(t, r, heap) ==
  /\ \A q \in Room \ {r} : room'[q] = heap[q]
  /\ \/ /\ flush'[t] = [step |-> "saving", room |-> r, state |-> heap[r].doc]
        /\ ~room'[r].dirty
        /\ \A s \in Task : flush[s].room # r
     \/ /\ flush'[t] = [step |-> "waiting", room |-> r, state |-> {}]
        /\ room' = heap

\* Flushing keeps the rooms' identities, occupants, content and deletion marks.
SameHeap(heap) ==
  /\ flush' \in [Task -> FlushType]
  /\ room' \in [Room -> RoomType]
  /\ SameRooms(room', heap)
  /\ \A q \in Room : room'[q].deleted = heap[q].deleted

LEMMA EnterFlushEffect ==
  ASSUME flush \in [Task -> FlushType],
         NEW t \in Task, NEW r \in Room, NEW heap \in [Room -> RoomType],
         EnterFlush(t, r, heap)
  PROVE  /\ SameHeap(heap)
         /\ \A s \in Task \ {t} : flush'[s] = flush[s]
         /\ FlushStarts(t, r, heap)
<1>1. CASE ~FlushLockTaken(r) /\ StartSave(t, r, heap)
  BY <1>1, StartSaveEffect DEF FlushLockTaken, SameHeap, FlushStarts
<1>2. CASE FlushLockTaken(r) /\ WaitForFlush(t, r, heap)
  BY <1>2 DEF WaitForFlush, FlushType, SameRooms, SameHeap, FlushStarts
<1> QED
  BY <1>1, <1>2 DEF EnterFlush

LEMMA FlushStartsStep ==
  ASSUME NEW t, NEW r, NEW heap, FlushStarts(t, r, heap)
  PROVE  flush'[t].step \in {"saving", "waiting"} /\ flush'[t].room = r
BY DEF FlushStarts

\* A pass of flush_loop moves on: it may end up flushing one of the rooms left.
Advanced(remaining, heap) ==
  /\ SameHeap(heap)
  /\ todo' \in [{FlushLoop, Shutdown} -> SUBSET Room]
  /\ todo'[FlushLoop] \subseteq remaining
  /\ todo'[Shutdown] = todo[Shutdown]
  /\ \A s \in Task \ {FlushLoop} : flush'[s] = flush[s]
  /\ \/ flush'[FlushLoop] = NotFlushing /\ room' = heap
     \/ \E r \in remaining : NeedsFlush(heap[r]) /\ FlushStarts(FlushLoop, r, heap)

LEMMA AdvanceEffect ==
  ASSUME ConstantsAssumption,
         flush \in [Task -> FlushType],
         todo \in [{FlushLoop, Shutdown} -> SUBSET Room],
         NEW remaining \in SUBSET Room, NEW heap \in [Room -> RoomType],
         Advance(remaining, heap)
  PROVE  Advanced(remaining, heap)
<1> FlushLoop # Shutdown
  BY DEF ConstantsAssumption
<1>1. CASE /\ todo' = [todo EXCEPT ![FlushLoop] = {}]
           /\ flush' = [flush EXCEPT ![FlushLoop] = NotFlushing]
           /\ room' = heap
  BY <1>1, NotFlushingType, TaskTypes DEF SameRooms, SameHeap, Advanced
<1>2. ASSUME NEW r \in remaining, NEW later \in SUBSET (remaining \ {r}),
             NeedsFlush(heap[r]),
             todo' = [todo EXCEPT ![FlushLoop] = later],
             EnterFlush(FlushLoop, r, heap)
      PROVE  Advanced(remaining, heap)
  <2>1. r \in Room /\ FlushLoop \in Task
    BY TaskTypes
  <2>2. /\ todo' \in [{FlushLoop, Shutdown} -> SUBSET Room]
        /\ todo'[FlushLoop] \subseteq remaining
        /\ todo'[Shutdown] = todo[Shutdown]
    BY <1>2
  <2>3. /\ SameHeap(heap)
        /\ \A s \in Task \ {FlushLoop} : flush'[s] = flush[s]
        /\ FlushStarts(FlushLoop, r, heap)
    BY <1>2, <2>1, EnterFlushEffect
  <2> QED
    BY <1>2, <2>2, <2>3 DEF Advanced
<1> QED
  BY <1>1, <1>2 DEF Advance

\* An endpoint lets its room go: the end of leave.
LetGo(c, heap) ==
  /\ room' = heap
  /\ rooms' = Unregister(heap[at[c]].document_id, at[c])
  /\ pc' = [pc EXCEPT ![c] = "idle"]
  /\ at' = [at EXCEPT ![c] = NoRoom]
  /\ abandoned' = IF NotDurable(c, at[c], heap)
                  THEN abandoned \cup {heap[at[c]].document_id} ELSE abandoned
  /\ loaded' = loaded

\* flush returns to t, which runs on.
Returned(t, heap) ==
  \/ /\ t \in Connection
     /\ flush' = [flush EXCEPT ![t] = NotFlushing]
     /\ todo' = todo
     /\ LetGo(t, heap)
  \/ /\ t = FlushLoop
     /\ Advanced(todo[FlushLoop], heap)
     /\ UNCHANGED <<rooms, pc, at, loaded, abandoned>>
  \/ /\ t = Shutdown
     /\ flush' = [flush EXCEPT ![t] = NotFlushing]
     /\ room' = heap
     /\ UNCHANGED <<rooms, pc, at, loaded, abandoned, todo>>

LEMMA FlushReturnsEffect ==
  ASSUME ConstantsAssumption,
         flush \in [Task -> FlushType],
         todo \in [{FlushLoop, Shutdown} -> SUBSET Room],
         NEW t \in Task, NEW heap \in [Room -> RoomType],
         FlushReturns(t, heap)
  PROVE  Returned(t, heap)
<1>1. CASE t = FlushLoop /\ Advance(todo[FlushLoop], heap)
  <2>1. todo[FlushLoop] \in SUBSET Room
    OBVIOUS
  <2>2. Advanced(todo[FlushLoop], heap)
    BY <1>1, <2>1, AdvanceEffect
  <2> QED
    BY <1>1, <2>2, TaskTypes DEF FlushReturns, Returned, ConstantsAssumption
<1>2. CASE t # FlushLoop
  BY <1>2 DEF FlushReturns, Returned, Drop, LetGo
<1> QED
  BY <1>1, <1>2, TaskTypes DEF FlushReturns, ConstantsAssumption

--------------------------------------------------------------------------------
(* Structure is inductive. *)

\* A flush that has started is of a room of a document, and an endpoint only
\* flushes the room it tears down.
FlushMoves ==
  \A t \in Task :
    \/ flush'[t] = flush[t]
    \/ flush'[t] = NotFlushing
    \/ /\ flush'[t].step # "none"
       /\ flush'[t].room \in Room
       /\ room[flush'[t].room].document_id \in Document
       /\ t \in Connection => pc'[t] = "flushing" /\ flush'[t].room = at'[t]

\* Steps that leave every endpoint where it is.
LEMMA CalmStep ==
  ASSUME ConstantsAssumption, Structure, TypeOK',
         UNCHANGED <<rooms, pc, at>>,
         \A q \in Room : /\ room'[q].document_id = room[q].document_id
                         /\ room'[q].connections = room[q].connections,
         FlushMoves,
         \A t \in {FlushLoop, Shutdown} : \A r \in todo'[t] :
           room[r].document_id \in Document
  PROVE  Structure'
<1> USE DEF Structure
<1>1. SharedRoom'
  BY DEF SharedRoom, TypeOK, ConstantsAssumption
<1>2. LockExclusive' /\ LoadingUnregistered'
  BY DEF LockExclusive, LoadingUnregistered, Holding
<1>3. Occupants'
  BY DEF Occupants
<1>4. TeardownEmpty'
  BY DEF TeardownEmpty, TypeOK, ConstantsAssumption
<1>5. Identity'
  BY DEF Identity, TypeOK
<1>6. FlushOwner'
  BY TaskTypes DEF FlushOwner, FlushMoves, NotFlushing
<1>7. FlushRooms'
  <2> SUFFICES ASSUME NEW t \in Task
               PROVE  /\ flush'[t].step = "none" <=> flush'[t].room = NoRoom
                      /\ flush'[t].room # NoRoom => room'[flush'[t].room].document_id \in Document
    BY DEF FlushRooms
  <2>1. flush[t].room \in Room \cup {NoRoom}
    BY DEF TypeOK, FlushType
  <2>2. CASE flush'[t] = flush[t]
    BY <2>1, <2>2 DEF FlushRooms
  <2>3. CASE flush'[t] = NotFlushing
    BY <2>3 DEF NotFlushing
  <2>4. CASE flush'[t] # flush[t] /\ flush'[t] # NotFlushing
    BY <2>4 DEF FlushMoves, ConstantsAssumption
  <2> QED
    BY <2>2, <2>3, <2>4
<1>8. TodoRooms'
  BY DEF TodoRooms, TypeOK
<1> QED
  BY <1>1, <1>2, <1>3, <1>4, <1>5, <1>6, <1>7, <1>8

\* The steps of one endpoint that do not touch a room it shares with others:
\* only its own pc changes, and not into or out of a room.
LEMMA PcStep ==
  ASSUME ConstantsAssumption, Structure, TypeOK',
         NEW c \in Connection, NEW p,
         pc' = [pc EXCEPT ![c] = p],
         \/ pc[c] \in {"idle", "joining"} /\ p \in {"idle", "joining"}
         \/ /\ pc[c] = "joining" /\ p = "loading"
            /\ LockFree /\ rooms[DocumentOf[c]] = NoRoom
         \/ pc[c] = "loading" /\ p \in {"loaded", "idle"}
         \/ pc[c] = "live" /\ p = "leaving",
         UNCHANGED <<rooms, room, at, flush, todo>>
  PROVE  Structure'
<1> USE DEF Structure
<1>0. /\ pc'[c] = p
      /\ \A e \in Connection \ {c} : pc'[e] = pc[e]
      /\ pc[c] # "flushing" /\ p # "flushing"
      /\ pc[c] \in {"live", "leaving"} <=> p \in {"live", "leaving"}
  BY DEF TypeOK
<1>1. SharedRoom'
  BY <1>0 DEF SharedRoom
<1>2. LockExclusive' /\ LoadingUnregistered'
  BY <1>0 DEF LockExclusive, LoadingUnregistered, Holding, LockFree
<1>3. Occupants' /\ TeardownEmpty'
  BY <1>0 DEF Occupants, TeardownEmpty
<1>5. Identity' /\ FlushRooms' /\ TodoRooms'
  BY DEF Identity, FlushRooms, TodoRooms
<1>6. FlushOwner'
  BY <1>0 DEF FlushOwner
<1> QED
  BY <1>1, <1>2, <1>3, <1>5, <1>6

\* The last socket, holding the lock, lets go of an empty room.
LEMMA LetGoStep ==
  ASSUME ConstantsAssumption, Structure, TypeOK',
         NEW c \in Connection, NEW heap \in [Room -> RoomType],
         at[c] \in Room,
         \/ pc[c] = "flushing"
         \/ pc[c] = "leaving" /\ LockFree,
         \A q \in Room : /\ heap[q].document_id = room[q].document_id
                         /\ q # at[c] => heap[q].connections = room[q].connections,
         heap[at[c]].connections = {},
         room[at[c]].connections \subseteq {c},
         LetGo(c, heap),
         \/ pc[c] = "leaving" /\ flush' = flush
         \/ flush' = [flush EXCEPT ![c] = NotFlushing],
         todo' = todo
  PROVE  Structure'
<1> USE DEF Structure
<1>0. /\ pc'[c] = "idle" /\ at'[c] = NoRoom /\ room' = heap
      /\ \A e \in Connection \ {c} : pc'[e] = pc[e] /\ at'[e] = at[e]
  BY DEF LetGo, TypeOK
<1>1. rooms[DocumentOf[c]] = at[c]
  BY DEF SharedRoom, TeardownEmpty
<1>2. heap[at[c]].document_id = DocumentOf[c]
  BY <1>1 DEF Identity, ConstantsAssumption
<1>3. /\ rooms' = [rooms EXCEPT ![DocumentOf[c]] = NoRoom]
      /\ rooms'[DocumentOf[c]] = NoRoom
      /\ \A d \in Document : d # DocumentOf[c] => rooms'[d] = rooms[d]
  BY <1>1, <1>2 DEF LetGo, Unregister, TypeOK, ConstantsAssumption
<1>4. ASSUME NEW e \in Connection \ {c}, pc[e] \in {"live", "leaving"}
      PROVE  at[e] # at[c] /\ DocumentOf[e] # DocumentOf[c]
  BY <1>1, <1>4 DEF SharedRoom
<1>5. SharedRoom'
  BY <1>0, <1>3, <1>4 DEF SharedRoom, TypeOK, ConstantsAssumption
<1>6. LockExclusive' /\ LoadingUnregistered'
  BY <1>0, <1>3 DEF LockExclusive, LoadingUnregistered, Holding, ConstantsAssumption
<1>7. Occupants'
  BY <1>0 DEF Occupants
<1>8. TeardownEmpty'
  BY <1>0 DEF TeardownEmpty, LockExclusive, Holding, LockFree
<1>9. Identity'
  BY <1>0, <1>3 DEF Identity, TypeOK
<1>10. /\ pc[c] = "leaving" => flush[c].step = "none"
       /\ flush'[c].step = "none" /\ flush'[c].room = NoRoom
       /\ \A t \in Task \ {c} : flush'[t] = flush[t]
  <2>1. flush[c].step = "none" => flush'[c] = flush[c] \/ flush'[c] = NotFlushing
    BY TaskTypes DEF TypeOK
  <2> QED
    BY <2>1, TaskTypes DEF FlushOwner, FlushRooms, NotFlushing, TypeOK
<1>11. FlushOwner' /\ FlushRooms'
  <2>1. FlushOwner'
    BY <1>0, <1>10, TaskTypes DEF FlushOwner
  <2>2. \A t \in Task : flush[t].room \in Room \cup {NoRoom}
    BY DEF TypeOK, FlushType
  <2> QED
    BY <1>0, <1>10, <2>1, <2>2 DEF FlushRooms
<1>12. TodoRooms'
  BY <1>0 DEF TodoRooms, TypeOK
<1> QED
  BY <1>5, <1>6, <1>7, <1>8, <1>9, <1>11, <1>12

\* The part of the type invariant about variables flush never writes.
OutsideType ==
  /\ exists \subseteq Document
  /\ snapshot \in [Document -> SUBSET Update]
  /\ events \subseteq Document
  /\ phase \in {"up", "draining", "stopping", "down"}
  /\ failures \in 0..MaxFailures
  /\ stops \in 0..MaxStops
  /\ owed \in [Document -> SUBSET Update]

\* Changing marks of a room, before flush returns.
SameOccupants(heap) ==
  /\ heap \in [Room -> RoomType]
  /\ \A q \in Room : /\ heap[q].document_id = room[q].document_id
                     /\ heap[q].connections = room[q].connections

LEMMA MarkEffect ==
  ASSUME room \in [Room -> RoomType], NEW r \in Room
  PROVE  /\ SameOccupants(MarkDirty(r)) /\ SameOccupants(MarkDeleted(r))
         /\ \A q \in Room : /\ MarkDirty(r)[q].doc = room[q].doc
                            /\ MarkDirty(r)[q].deleted = room[q].deleted
                            /\ MarkDeleted(r)[q].doc = room[q].doc
                            /\ MarkDeleted(r)[q].dirty = room[q].dirty
         /\ \A q \in Room \ {r} : /\ MarkDirty(r)[q] = room[q]
                                  /\ MarkDeleted(r)[q] = room[q]
         /\ MarkDirty(r)[r].dirty
<1> USE DEF MarkDirty, MarkDeleted
<1>1. MarkDirty(r) \in [Room -> RoomType] /\ MarkDeleted(r) \in [Room -> RoomType]
  BY DEF RoomType
<1>2. \A q \in Room : /\ MarkDirty(r)[q].document_id = room[q].document_id
                      /\ MarkDirty(r)[q].connections = room[q].connections
                      /\ MarkDirty(r)[q].doc = room[q].doc
                      /\ MarkDirty(r)[q].deleted = room[q].deleted
  BY DEF RoomType
<1>3. \A q \in Room : /\ MarkDeleted(r)[q].document_id = room[q].document_id
                      /\ MarkDeleted(r)[q].connections = room[q].connections
                      /\ MarkDeleted(r)[q].doc = room[q].doc
                      /\ MarkDeleted(r)[q].dirty = room[q].dirty
  BY DEF RoomType
<1>4. \A q \in Room \ {r} : /\ MarkDirty(r)[q] = room[q]
                            /\ MarkDeleted(r)[q] = room[q]
  OBVIOUS
<1>5. MarkDirty(r)[r].dirty
  BY DEF RoomType
<1> QED
  BY <1>1, <1>2, <1>3, <1>4, <1>5 DEF SameOccupants

LEMMA StartedRoom ==
  ASSUME ConstantsAssumption, Structure,
         NEW t \in Task, flush[t].step # "none"
  PROVE  /\ flush[t].room \in Room
         /\ room[flush[t].room].document_id \in Document
         /\ t \in Connection => /\ pc[t] = "flushing"
                                /\ at[t] = flush[t].room
                                /\ rooms[DocumentOf[t]] = at[t]
                                /\ room[at[t]].connections = {}
                                /\ room[at[t]].document_id = DocumentOf[t]
<1>1. flush[t].room \in Room \cup {NoRoom}
  BY DEF Structure, TypeOK, FlushType
<1>2. flush[t].room \in Room /\ room[flush[t].room].document_id \in Document
  BY <1>1 DEF Structure, FlushRooms
<1>3. t \in Connection => pc[t] = "flushing" /\ at[t] = flush[t].room
  BY DEF Structure, FlushOwner
<1>4. t \in Connection => /\ rooms[DocumentOf[t]] = at[t]
                          /\ room[at[t]].connections = {}
                          /\ room[at[t]].document_id = DocumentOf[t]
  BY <1>2, <1>3 DEF Structure, TeardownEmpty, Identity, ConstantsAssumption
<1> QED
  BY <1>2, <1>3, <1>4

LEMMA ReturnStep ==
  ASSUME ConstantsAssumption, Structure, OutsideType',
         NEW t \in Task, flush[t].step # "none",
         NEW heap, SameOccupants(heap),
         FlushReturns(t, heap)
  PROVE  Structure'
<1> USE DEF SameOccupants
<1>1. /\ flush \in [Task -> FlushType]
      /\ todo \in [{FlushLoop, Shutdown} -> SUBSET Room]
  BY DEF Structure, TypeOK
<1>2. Returned(t, heap)
  BY <1>1, FlushReturnsEffect
<1>3. CASE t \in Connection
  <2>1. LetGo(t, heap) /\ flush' = [flush EXCEPT ![t] = NotFlushing] /\ todo' = todo
    BY <1>2, <1>3 DEF Returned, ConstantsAssumption
  <2>2. /\ at[t] \in Room /\ pc[t] = "flushing"
        /\ heap[at[t]].connections = {} /\ room[at[t]].connections = {}
        /\ heap[at[t]].document_id \in Document
    BY <1>3, StartedRoom
  <2>3. TypeOK'
    BY <2>1, <2>2, NotFlushingType, <1>1
       DEF LetGo, Unregister, TypeOK, OutsideType, Structure
  <2> QED
    BY <1>3, <2>1, <2>2, <2>3, LetGoStep
<1>4. CASE t = FlushLoop
  <2>1. Advanced(todo[FlushLoop], heap) /\ UNCHANGED <<rooms, pc, at, loaded, abandoned>>
    BY <1>2, <1>4 DEF Returned, ConstantsAssumption
  <2>2. TypeOK'
    BY <2>1 DEF Advanced, SameHeap, TypeOK, OutsideType, Structure
  <2>3. FlushMoves
    <3>1. \/ flush'[FlushLoop] = NotFlushing
          \/ \E r \in todo[FlushLoop] :
               flush'[FlushLoop].step # "none" /\ flush'[FlushLoop].room = r
      BY <2>1, FlushStartsStep DEF Advanced
    <3>2. \A r \in todo[FlushLoop] : r \in Room /\ room[r].document_id \in Document
      BY <1>1 DEF Structure, TodoRooms
    <3>3. FlushLoop \notin Connection /\ \A s \in Task \ {FlushLoop} : flush'[s] = flush[s]
      BY <2>1 DEF Advanced, ConstantsAssumption
    <3> SUFFICES ASSUME NEW s \in Task, flush'[s] # flush[s], flush'[s] # NotFlushing
                 PROVE  /\ flush'[s].step # "none" /\ flush'[s].room \in Room
                        /\ room[flush'[s].room].document_id \in Document
                        /\ s \notin Connection
      BY DEF FlushMoves
    <3>4. s = FlushLoop
      BY <3>3
    <3> QED
      BY <3>1, <3>2, <3>3, <3>4
  <2>4. \A q \in Room : /\ room'[q].document_id = room[q].document_id
                        /\ room'[q].connections = room[q].connections
    BY <2>1 DEF Advanced, SameHeap, SameRooms
  <2>5. \A s \in {FlushLoop, Shutdown} : \A r \in todo'[s] :
          room[r].document_id \in Document
    BY <2>1 DEF Advanced, Structure, TodoRooms
  <2> QED
    BY <2>1, <2>2, <2>3, <2>4, <2>5, CalmStep
<1>5. CASE t = Shutdown
  <2>1. /\ flush' = [flush EXCEPT ![t] = NotFlushing]
        /\ room' = heap
        /\ UNCHANGED <<rooms, pc, at, loaded, abandoned, todo>>
    BY <1>2, <1>5 DEF Returned, ConstantsAssumption
  <2>2. TypeOK' /\ FlushMoves
    BY <2>1, NotFlushingType DEF TypeOK, OutsideType, Structure, FlushMoves
  <2>3. \A s \in {FlushLoop, Shutdown} : \A r \in todo'[s] :
          room[r].document_id \in Document
    BY <2>1 DEF Structure, TodoRooms
  <2> QED
    BY <2>1, <2>2, <2>3, CalmStep
<1> QED
  BY <1>3, <1>4, <1>5, TaskTypes

LEMMA FlushingStructure ==
  ASSUME ConstantsAssumption, Structure, NEW t \in Task, Flushing(t)
  PROVE  Structure'
<1>0. OutsideType
  BY DEF Structure, TypeOK, OutsideType
<1>1. SameOccupants(room)
  BY DEF SameOccupants, Structure, TypeOK
<1>2. flush[t].step # "none" => flush[t].room \in Room
  BY StartedRoom
<1>3. /\ flush[t].step # "none" => SameOccupants(MarkDirty(flush[t].room))
      /\ flush[t].step # "none" => SameOccupants(MarkDeleted(flush[t].room))
  BY <1>2, MarkEffect DEF Structure, TypeOK
<1>4. CASE AcquireFlushLock(t)
  <2>1. CASE FlushReturns(t, room)
    BY <1>0, <1>1, <1>4, <2>1, ReturnStep
       DEF AcquireFlushLock, OutsideType, database, process
  <2>2. CASE StartSave(t, flush[t].room, room) /\ UNCHANGED <<rooms, pc, at, loaded, abandoned, todo>>
    <3>1. /\ flush' \in [Task -> FlushType]
          /\ room' \in [Room -> RoomType]
          /\ SameRooms(room', room)
          /\ flush'[t] = [step |-> "saving", room |-> flush[t].room, state |-> room[flush[t].room].doc]
          /\ \A s \in Task \ {t} : flush'[s] = flush[s]
      BY <1>2, <1>4, <2>2, StartSaveEffect DEF AcquireFlushLock, Structure, TypeOK
    <3>2. TypeOK'
      BY <1>4, <2>2, <3>1 DEF AcquireFlushLock, Structure, TypeOK, database, process
    <3>3. FlushMoves
      BY <1>4, <2>2, <3>1, StartedRoom DEF AcquireFlushLock, FlushMoves
    <3> QED
      BY <2>2, <3>1, <3>2, <3>3, CalmStep DEF SameRooms, Structure, TodoRooms
  <2> QED
    BY <1>4, <2>1, <2>2 DEF AcquireFlushLock
<1>5. CASE SaveCommits(t)
  <2>1. OutsideType'
    BY <1>0, <1>5 DEF SaveCommits, OutsideType, process, Structure, TypeOK, FlushType
  <2> QED
    BY <1>1, <1>5, <2>1, ReturnStep DEF SaveCommits
<1>6. CASE SaveFindsNoDocument(t)
  BY <1>0, <1>3, <1>6, ReturnStep
     DEF SaveFindsNoDocument, OutsideType, database, process
<1>7. CASE SaveRaises(t)
  <2>1. /\ failures' \in 0..MaxFailures
        /\ UNCHANGED <<exists, events, phase, stops, owed>>
    BY <1>0, <1>7 DEF SaveRaises, OutsideType, ConstantsAssumption
  <2>2. snapshot' \in [Document -> SUBSET Update]
    BY <1>0, <1>7 DEF SaveRaises, OutsideType, Structure, TypeOK, FlushType
  <2>3. OutsideType'
    BY <1>0, <2>1, <2>2 DEF OutsideType
  <2> QED
    BY <1>3, <1>7, <2>3, ReturnStep DEF SaveRaises
<1> QED
  BY <1>4, <1>5, <1>6, <1>7 DEF Flushing, SaveReturns

LEMMA JoinStructure ==
  ASSUME ConstantsAssumption, Structure, NEW c \in Connection, JoinExisting(c)
  PROVE  Structure'
<1> USE DEF JoinExisting
<1> DEFINE r == rooms[DocumentOf[c]]
<1>0. r \in Room /\ DocumentOf[c] \in Document /\ TypeOK
  BY DEF Structure, TypeOK, ConstantsAssumption
<1>1. /\ room' \in [Room -> RoomType]
      /\ room'[r].connections = room[r].connections \cup {c}
      /\ \A q \in Room \ {r} : room'[q] = room[q]
      /\ \A q \in Room : room'[q].document_id = room[q].document_id
  BY <1>0 DEF TypeOK, RoomType
<1>2. /\ pc'[c] = "live" /\ at'[c] = r
      /\ \A e \in Connection \ {c} : pc'[e] = pc[e] /\ at'[e] = at[e]
  BY <1>0 DEF TypeOK
<1>3. TypeOK'
  BY <1>0, <1>1 DEF TypeOK, database, tasks, process, history
<1>4. SharedRoom'
  BY <1>0, <1>1, <1>2 DEF Structure, SharedRoom
<1>5. LockExclusive' /\ LoadingUnregistered'
  BY <1>2 DEF Structure, LockExclusive, LoadingUnregistered, Holding
<1>6. Occupants' /\ TeardownEmpty'
  BY <1>0, <1>1, <1>2 DEF Structure, Occupants, TeardownEmpty, LockFree
<1>7. Identity' /\ FlushRooms' /\ TodoRooms'
  BY <1>0, <1>1 DEF Structure, Identity, FlushRooms, TodoRooms, TypeOK, FlushType, tasks
<1>8. FlushOwner'
  BY <1>2 DEF Structure, FlushOwner, tasks
<1> QED
  BY <1>3, <1>4, <1>5, <1>6, <1>7, <1>8 DEF Structure

LEMMA LoadReturnsStructure ==
  ASSUME ConstantsAssumption, Structure, NEW c \in Connection, LoadReturns(c)
  PROVE  Structure'
<1> USE DEF LoadReturns
<1> DEFINE d == DocumentOf[c]
<1>0. PICK r \in Room :
        /\ Unreferenced(r)
        /\ room' = [room EXCEPT ![r] = NewRoom(d, loaded, {c})]
        /\ rooms' = [rooms EXCEPT ![d] = r]
        /\ at' = [at EXCEPT ![c] = r]
  OBVIOUS
<1>1. /\ d \in Document /\ TypeOK /\ rooms[d] = NoRoom /\ r # NoRoom
      /\ NewRoom(d, loaded, {c}) \in RoomType
  BY DEF Structure, TypeOK, LoadingUnregistered, ConstantsAssumption, NewRoom, RoomType
<1>2. /\ room'[r].connections = {c} /\ room'[r].document_id = d
      /\ \A q \in Room \ {r} : room'[q] = room[q]
      /\ rooms'[d] = r
      /\ \A e \in Document \ {d} : rooms'[e] = rooms[e] /\ rooms[e] # r
  BY <1>0, <1>1 DEF TypeOK, NewRoom, Unreferenced, Registered
<1>3. /\ pc'[c] = "live" /\ at'[c] = r
      /\ \A e \in Connection \ {c} : /\ pc'[e] = pc[e] /\ at'[e] = at[e]
                                     /\ at[e] # r
                                     /\ pc[e] \notin {"loading", "loaded", "flushing"}
  <2>1. pc'[c] = "live" /\ at'[c] = r
    BY <1>0, <1>1 DEF TypeOK
  <2>2. \A e \in Connection \ {c} : pc'[e] = pc[e] /\ at'[e] = at[e] /\ at[e] # r
    BY <1>0, <1>1 DEF TypeOK, Unreferenced
  <2>3. \A e \in Connection \ {c} : ~Holding(e)
    BY DEF Structure, LockExclusive, Holding
  <2> QED
    BY <2>1, <2>2, <2>3 DEF Holding
<1>4. TypeOK'
  BY <1>0, <1>1 DEF TypeOK, database, tasks, process, history
<1>5. SharedRoom'
  <2> SUFFICES ASSUME NEW e \in Connection, pc'[e] \in {"live", "leaving"}
               PROVE  /\ at'[e] # NoRoom /\ rooms'[DocumentOf[e]] = at'[e]
                      /\ e \in room'[at'[e]].connections
    BY DEF SharedRoom
  <2>1. CASE e = c
    BY <1>1, <1>2, <1>3, <2>1
  <2>2. CASE e # c
    <3>1. /\ at[e] \in Room /\ rooms[DocumentOf[e]] = at[e]
          /\ e \in room[at[e]].connections
          /\ DocumentOf[e] \in Document
      BY <1>1, <1>3, <2>2 DEF Structure, SharedRoom, TypeOK, ConstantsAssumption
    <3>2. DocumentOf[e] # d /\ at[e] # NoRoom
      BY <1>1, <3>1 DEF ConstantsAssumption
    <3> QED
      BY <1>2, <1>3, <2>2, <3>1, <3>2, SMTT(60)
  <2> QED
    BY <2>1, <2>2
<1>6. LockExclusive' /\ LoadingUnregistered' /\ TeardownEmpty'
  <2>1. \A e \in Connection : pc'[e] \notin {"loading", "loaded", "flushing"}
    BY <1>3
  <2> QED
    BY <2>1 DEF LockExclusive, LoadingUnregistered, Holding, TeardownEmpty
<1>7. Occupants'
  <2> SUFFICES ASSUME NEW q \in Room, NEW e \in Connection, e \in room'[q].connections
               PROVE  pc'[e] \in {"live", "leaving"} /\ at'[e] = q
    BY DEF Occupants
  <2>1. CASE q = r
    BY <1>2, <1>3, <2>1
  <2>2. CASE q # r
    <3>1. pc[e] \in {"live", "leaving"} /\ at[e] = q
      BY <1>2, <2>2 DEF Structure, Occupants
    <3> QED
      BY <1>3, <3>1
  <2> QED
    BY <2>1, <2>2
<1>8. Identity'
  BY <1>1, <1>2 DEF Structure, Identity, TypeOK
<1>9. FlushRooms' /\ TodoRooms'
  <2>1. /\ \A t \in Task : flush'[t] = flush[t] /\ flush[t].room # r
        /\ \A t \in {FlushLoop, Shutdown} : todo'[t] = todo[t] /\ r \notin todo[t]
    BY <1>0 DEF tasks, Unreferenced
  <2>2. \A t \in Task : flush[t].room \in Room \cup {NoRoom}
    BY <1>1 DEF TypeOK, FlushType
  <2>3. \A t \in {FlushLoop, Shutdown} : todo[t] \subseteq Room
    BY <1>1 DEF TypeOK
  <2>4. FlushRooms'
    <3> SUFFICES ASSUME NEW t \in Task
                 PROVE  /\ flush'[t].step = "none" <=> flush'[t].room = NoRoom
                        /\ flush'[t].room # NoRoom => room'[flush'[t].room].document_id \in Document
      BY DEF FlushRooms
    <3>1. flush'[t] = flush[t] /\ flush[t].room \in (Room \ {r}) \cup {NoRoom}
      BY <2>1, <2>2
    <3>2. flush[t].room # NoRoom => room'[flush[t].room] = room[flush[t].room]
      BY <1>2, <3>1
    <3> QED
      BY <3>1, <3>2 DEF Structure, FlushRooms
  <2>5. TodoRooms'
    <3> SUFFICES ASSUME NEW t \in {FlushLoop, Shutdown}, NEW p \in todo'[t]
                 PROVE  room'[p].document_id \in Document
      BY DEF TodoRooms
    <3>1. p \in todo[t] /\ p \in Room /\ p # r
      BY <2>1, <2>3
    <3>2. room'[p] = room[p]
      BY <1>2, <3>1
    <3> QED
      BY <3>1, <3>2 DEF Structure, TodoRooms
  <2> QED
    BY <2>4, <2>5
<1>10. FlushOwner'
  BY <1>0, <1>1, <1>3 DEF Structure, FlushOwner, tasks
<1> QED
  BY <1>4, <1>5, <1>6, <1>7, <1>8, <1>9, <1>10 DEF Structure

\* discard takes one socket out of its room.
LEMMA DiscardedEffect ==
  ASSUME ConstantsAssumption, Structure, NEW c \in Connection, pc[c] = "leaving"
  PROVE  /\ at[c] \in Room
         /\ rooms[DocumentOf[c]] = at[c]
         /\ room[at[c]].document_id = DocumentOf[c]
         /\ DocumentOf[c] \in Document
         /\ Discarded(c) \in [Room -> RoomType]
         /\ Discarded(c)[at[c]].connections = room[at[c]].connections \ {c}
         /\ Discarded(c)[at[c]].dirty = room[at[c]].dirty
         /\ \A q \in Room : /\ Discarded(c)[q].document_id = room[q].document_id
                            /\ Discarded(c)[q].deleted = room[q].deleted
                            /\ Discarded(c)[q].doc = room[q].doc
         /\ \A q \in Room \ {at[c]} : Discarded(c)[q] = room[q]
<1>1. at[c] \in Room /\ rooms[DocumentOf[c]] = at[c] /\ DocumentOf[c] \in Document
  BY DEF Structure, TypeOK, SharedRoom, ConstantsAssumption
<1>2. room[at[c]].document_id = DocumentOf[c]
  BY <1>1 DEF Structure, Identity, ConstantsAssumption
<1>3. room \in [Room -> RoomType]
  BY DEF Structure, TypeOK
<1> QED
  BY <1>1, <1>2, <1>3 DEF Discarded, RoomType

LEMMA LeaveStructure ==
  ASSUME ConstantsAssumption, Structure, NEW c \in Connection, Leave(c)
  PROVE  Structure'
<1> DEFINE r == at[c]
           h == Discarded(c)
<1>0. pc[c] = "leaving" /\ LockFree
  BY DEF Leave, LeaveOthers, LeaveClean, LeaveFlush, LastLeaves
<1>1. /\ r \in Room /\ rooms[DocumentOf[c]] = r
      /\ room[r].document_id = DocumentOf[c]
      /\ DocumentOf[c] \in Document
      /\ h \in [Room -> RoomType]
      /\ h[r].connections = room[r].connections \ {c}
      /\ \A q \in Room : h[q].document_id = room[q].document_id
      /\ \A q \in Room \ {r} : h[q] = room[q]
  BY <1>0, DiscardedEffect
<1>2. CASE LeaveOthers(c)
  <2> USE <1>2 DEF LeaveOthers
  <2>1. /\ pc'[c] = "idle" /\ at'[c] = NoRoom
        /\ \A e \in Connection \ {c} : pc'[e] = pc[e] /\ at'[e] = at[e]
    BY DEF Structure, TypeOK
  <2>2. TypeOK'
    BY <1>1 DEF Structure, TypeOK, database, tasks, process, history
  <2>3. SharedRoom'
    BY <1>1, <2>1 DEF Structure, SharedRoom, TypeOK
  <2>4. LockExclusive' /\ LoadingUnregistered' /\ TeardownEmpty'
    BY <1>0, <2>1 DEF LockFree, LockExclusive, LoadingUnregistered, Holding, TeardownEmpty
  <2>5. Occupants'
    BY <1>1, <2>1 DEF Structure, Occupants
  <2>6. Identity' /\ FlushRooms' /\ TodoRooms'
    BY <1>1 DEF Structure, Identity, FlushRooms, TodoRooms, TypeOK, FlushType, tasks
  <2>7. FlushOwner'
    BY <1>0, <2>1 DEF Structure, FlushOwner, tasks
  <2> QED
    BY <2>2, <2>3, <2>4, <2>5, <2>6, <2>7 DEF Structure
<1>3. CASE LeaveClean(c)
  <2>1. LetGo(c, h) /\ flush' = flush /\ todo' = todo
    BY <1>3 DEF LeaveClean, Drop, LetGo, tasks
  <2>2. h[r].connections = {} /\ room[r].connections \subseteq {c}
    BY <1>1, <1>3 DEF LeaveClean, LastLeaves
  <2>3. TypeOK'
    BY <1>1, <1>3, <2>1 DEF LeaveClean, LetGo, Unregister, Structure, TypeOK, database, tasks, process
  <2> QED
    BY <1>0, <1>1, <2>1, <2>2, <2>3, LetGoStep
<1>4. CASE LeaveFlush(c)
  <2>1. /\ SameHeap(h)
        /\ \A s \in Task \ {c} : flush'[s] = flush[s]
        /\ flush'[c].step # "none" /\ flush'[c].room = r
    BY <1>1, <1>4, TaskTypes, EnterFlushEffect, FlushStartsStep DEF LeaveFlush, Structure, TypeOK
  <2>2. /\ pc'[c] = "flushing"
        /\ \A e \in Connection \ {c} : pc'[e] = pc[e]
        /\ UNCHANGED <<rooms, at, todo>>
    BY <1>4 DEF LeaveFlush, Structure, TypeOK
  <2>3. /\ \A q \in Room : room'[q].document_id = room[q].document_id
        /\ \A q \in Room \ {r} : room'[q].connections = room[q].connections
        /\ room'[r].connections = {}
        /\ room[r].connections \subseteq {c}
    BY <1>1, <1>4, <2>1 DEF SameHeap, SameRooms, LeaveFlush, LastLeaves
  <2>4. TypeOK'
    BY <1>4, <2>1 DEF LeaveFlush, SameHeap, Structure, TypeOK, database, process, history
  <2>5. SharedRoom'
    <3> SUFFICES ASSUME NEW e \in Connection, pc'[e] \in {"live", "leaving"}
                 PROVE  /\ at[e] # NoRoom /\ rooms[DocumentOf[e]] = at[e]
                        /\ e \in room'[at[e]].connections
      BY <2>2 DEF SharedRoom
    <3>1. e # c /\ at[e] # NoRoom /\ rooms[DocumentOf[e]] = at[e] /\ e \in room[at[e]].connections
      BY <2>2 DEF Structure, SharedRoom
    <3> QED
      BY <2>3, <3>1 DEF Structure, TypeOK
  <2>6. LockExclusive' /\ LoadingUnregistered' /\ TeardownEmpty'
    BY <1>0, <1>1, <2>2, <2>3, ConstantsAssumption
       DEF ConstantsAssumption, LockFree, LockExclusive, LoadingUnregistered, Holding, TeardownEmpty
  <2>7. Occupants'
    BY <2>2, <2>3 DEF Structure, Occupants
  <2>8. Identity' /\ TodoRooms'
    BY <2>2, <2>3 DEF Structure, Identity, TodoRooms, TypeOK
  <2>9. FlushOwner'
    BY <1>0, <2>1, <2>2, TaskTypes DEF Structure, FlushOwner
  <2>10. FlushRooms'
    BY <1>1, <2>1, <2>3 DEF Structure, FlushRooms, TypeOK, FlushType, ConstantsAssumption
  <2> QED
    BY <2>4, <2>5, <2>6, <2>7, <2>8, <2>9, <2>10 DEF Structure
<1> QED
  BY <1>2, <1>3, <1>4 DEF Leave

LEMMA EditedEffect ==
  ASSUME NEW ro \in RoomType, NEW u \in Update
  PROVE  /\ Edited(ro, u) \in RoomType
         /\ Edited(ro, u).document_id = ro.document_id
         /\ Edited(ro, u).connections = ro.connections
         /\ Edited(ro, u).deleted = ro.deleted
         /\ Edited(ro, u).doc = ro.doc \cup {u}
         /\ Edited(ro, u).dirty
BY DEF Edited, RoomType

LEMMA EndpointStructure ==
  ASSUME ConstantsAssumption, Structure, NEW c \in Connection, Endpoint(c)
  PROVE  Structure'
<1>0. TypeOK /\ DocumentOf[c] \in Document
  BY DEF Structure, ConstantsAssumption
<1>1. CASE Handshake(c)
  <2>1. TypeOK'
    BY <1>0, <1>1 DEF Handshake, TypeOK, database, tasks, process, history
  <2> QED
    BY <1>1, <2>1, PcStep DEF Handshake, tasks
<1>2. CASE JoinExisting(c)
  BY <1>2, JoinStructure
<1>3. CASE StartLoad(c)
  <2>1. TypeOK'
    BY <1>0, <1>3 DEF StartLoad, TypeOK, database, tasks, process, history
  <2> QED
    BY <1>3, <2>1, PcStep DEF StartLoad, tasks
<1>4. CASE LoadReads(c)
  <2>1. TypeOK'
    BY <1>0, <1>4 DEF LoadReads, TypeOK, database, tasks, process, history
  <2> QED
    BY <1>4, <2>1, PcStep DEF LoadReads, tasks
<1>5. CASE LoadFails(c)
  <2>1. TypeOK'
    BY <1>0, <1>5 DEF LoadFails, TypeOK, database, tasks, process, history, ConstantsAssumption
  <2> QED
    BY <1>5, <2>1, PcStep DEF LoadFails, tasks
<1>6. CASE LoadReturns(c)
  BY <1>6, LoadReturnsStructure
<1>7. ASSUME NEW u \in Update, ReceiveUpdate(c, u)
      PROVE  Structure'
  <2>0. at[c] \in Room
    BY <1>0, <1>7 DEF ReceiveUpdate, Structure, SharedRoom, TypeOK
  <2>1. /\ room' \in [Room -> RoomType]
        /\ \A q \in Room : /\ room'[q].document_id = room[q].document_id
                           /\ room'[q].connections = room[q].connections
    <3>1. room[at[c]] \in RoomType /\ room \in [Room -> RoomType]
      BY <1>0, <2>0 DEF TypeOK
    <3>2. room' = [room EXCEPT ![at[c]] = Edited(room[at[c]], u)]
      BY <1>7 DEF ReceiveUpdate
    <3> QED
      BY <2>0, <3>1, <3>2, EditedEffect
  <2>2. owed' \in [Document -> SUBSET Update]
    BY <1>0, <1>7 DEF ReceiveUpdate, TypeOK
  <2>3. TypeOK'
    BY <1>0, <1>7, <2>1, <2>2 DEF ReceiveUpdate, TypeOK, database, tasks, process
  <2>4. FlushMoves
    BY <1>7 DEF ReceiveUpdate, FlushMoves, tasks
  <2> QED
    BY <1>7, <2>1, <2>3, <2>4, CalmStep DEF ReceiveUpdate, tasks, Structure, TodoRooms
<1>8. CASE Disconnect(c)
  <2>1. TypeOK'
    BY <1>0, <1>8 DEF Disconnect, TypeOK, database, tasks, process, history
  <2> QED
    BY <1>8, <2>1, PcStep DEF Disconnect, tasks
<1>9. CASE Leave(c)
  BY <1>9, LeaveStructure
<1> QED
  BY <1>1, <1>2, <1>3, <1>4, <1>5, <1>6, <1>7, <1>8, <1>9 DEF Endpoint, Join

\* The rooms a pass lists are rooms of documents.
LEMMA RegisteredRooms ==
  ASSUME Structure
  PROVE  /\ Registered \subseteq Room
         /\ \A r \in Registered : room[r].document_id \in Document
BY DEF Registered, Structure, TypeOK, Identity

LEMMA ForgetStructure ==
  ASSUME ConstantsAssumption, Structure, Forget, OutsideType', abandoned' \subseteq Document
  PROVE  Structure'
<1> USE DEF Forget
<1>0. /\ Garbage \in RoomType /\ Garbage.connections = {}
      /\ NotFlushing \in FlushType
      /\ NotFlushing.step = "none" /\ NotFlushing.room = NoRoom
  BY DEF Garbage, NewRoom, RoomType, NotFlushing, FlushType
<1>1. TypeOK'
  BY <1>0 DEF TypeOK, OutsideType
<1>2. SharedRoom' /\ LockExclusive' /\ LoadingUnregistered' /\ TeardownEmpty'
  BY DEF SharedRoom, LockExclusive, LoadingUnregistered, Holding, TeardownEmpty
<1>3. Occupants' /\ Identity' /\ FlushOwner' /\ FlushRooms' /\ TodoRooms'
  BY <1>0, TaskTypes DEF Occupants, Identity, FlushOwner, FlushRooms, TodoRooms
<1> QED
  BY <1>1, <1>2, <1>3 DEF Structure

LEMMA ProcessStructure ==
  ASSUME ConstantsAssumption, Structure,
         \/ LoopTick
         \/ \E d \in Document : DeleteDocument(d) \/ HandleDeleted(d)
         \/ BeginStop \/ CancelTasks \/ (\E r \in Room : ShutdownRoom(r)) \/ Exit
         \/ Crash \/ Restart
  PROVE  Structure'
<1>0. TypeOK /\ FlushLoop \notin Connection /\ Shutdown \notin Connection
  BY DEF Structure, ConstantsAssumption
<1>1. CASE LoopTick
  <2>1. Advanced(Registered, room)
    BY <1>0, <1>1, RegisteredRooms, AdvanceEffect DEF LoopTick, TypeOK
  <2>2. TypeOK'
    BY <1>0, <1>1, <2>1 DEF LoopTick, Advanced, SameHeap, TypeOK, database, process, history
  <2>3. FlushMoves
    <3> SUFFICES ASSUME NEW s \in Task, flush'[s] # flush[s], flush'[s] # NotFlushing
                 PROVE  /\ flush'[s].step # "none" /\ flush'[s].room \in Room
                        /\ room[flush'[s].room].document_id \in Document
                        /\ s \notin Connection
      BY DEF FlushMoves
    <3>1. s = FlushLoop
      BY <2>1 DEF Advanced
    <3> QED
      BY <1>0, <2>1, <3>1, RegisteredRooms, FlushStartsStep DEF Advanced
  <2> QED
    BY <1>1, <2>1, <2>2, <2>3, RegisteredRooms, CalmStep
       DEF LoopTick, Advanced, SameHeap, SameRooms, Structure, TodoRooms
<1>2. ASSUME NEW d \in Document, DeleteDocument(d)
      PROVE  Structure'
  <2>1. TypeOK'
    BY <1>0, <1>2 DEF DeleteDocument, TypeOK, memory, tasks, process
  <2>2. FlushMoves
    BY <1>2 DEF DeleteDocument, FlushMoves, tasks
  <2> QED
    BY <1>2, <2>1, <2>2, CalmStep DEF DeleteDocument, memory, tasks, Structure, TodoRooms
<1>3. ASSUME NEW d \in Document, HandleDeleted(d)
      PROVE  Structure'
  <2>1. /\ room' \in [Room -> RoomType]
        /\ \A q \in Room : /\ room'[q].document_id = room[q].document_id
                           /\ room'[q].connections = room[q].connections
    <3>1. CASE rooms[d] = NoRoom
      BY <1>0, <1>3, <3>1 DEF HandleDeleted, TypeOK
    <3>2. CASE rooms[d] # NoRoom
      <4>1. rooms[d] \in Room /\ room \in [Room -> RoomType]
        BY <1>0, <3>2 DEF TypeOK
      <4> QED
        BY <1>3, <3>2, <4>1, MarkEffect DEF HandleDeleted, SameOccupants
    <3> QED
      BY <3>1, <3>2
  <2>2. TypeOK' /\ FlushMoves
    BY <1>0, <1>3, <2>1 DEF HandleDeleted, TypeOK, FlushMoves, database, tasks, process, history
  <2> QED
    BY <1>3, <2>1, <2>2, CalmStep DEF HandleDeleted, tasks, Structure, TodoRooms
<1>4. CASE BeginStop
  <2>1. TypeOK' /\ FlushMoves
    BY <1>0, <1>4 DEF BeginStop, TypeOK, FlushMoves, database, memory, tasks, history, ConstantsAssumption
  <2> QED
    BY <1>4, <2>1, CalmStep DEF BeginStop, memory, tasks, Structure, TodoRooms
<1>5. CASE CancelTasks
  <2>1. flush[FlushLoop].step = "saving" => DocumentSavedBy(FlushLoop) \in Document
    BY TaskTypes, StartedRoom DEF DocumentSavedBy
  <2>2. TypeOK'
    BY <1>0, <1>5, <2>1, NotFlushingType, RegisteredRooms
       DEF CancelTasks, TypeOK, database, memory
  <2>3. FlushMoves
    BY <1>0, <1>5 DEF CancelTasks, FlushMoves, TypeOK
  <2> QED
    BY <1>0, <1>5, <2>2, <2>3, RegisteredRooms, CalmStep
       DEF CancelTasks, memory, TypeOK
<1>6. ASSUME NEW r \in Room, ShutdownRoom(r)
      PROVE  Structure'
  <2>1. room[r].document_id \in Document
    BY <1>6 DEF ShutdownRoom, Structure, TodoRooms
  <2>2. /\ todo' \in [{FlushLoop, Shutdown} -> SUBSET Room]
        /\ \A s \in {FlushLoop, Shutdown} : todo'[s] \subseteq todo[s]
    BY <1>0, <1>6 DEF ShutdownRoom, TypeOK
  <2>3. \/ UNCHANGED <<room, flush>>
        \/ /\ SameHeap(room)
           /\ \A s \in Task \ {Shutdown} : flush'[s] = flush[s]
           /\ flush'[Shutdown].step # "none" /\ flush'[Shutdown].room = r
    BY <1>0, <1>6, TaskTypes, EnterFlushEffect, FlushStartsStep DEF ShutdownRoom, TypeOK
  <2>4. TypeOK'
    BY <1>0, <1>6, <2>2, <2>3 DEF ShutdownRoom, SameHeap, TypeOK, database, process, history
  <2>5. FlushMoves
    BY <1>0, <2>1, <2>3 DEF FlushMoves
  <2> QED
    BY <1>6, <2>2, <2>3, <2>4, <2>5, CalmStep
       DEF ShutdownRoom, SameHeap, SameRooms, Structure, TodoRooms
<1>7. CASE Exit
  BY <1>0, <1>7, ForgetStructure
     DEF Exit, Forget, LeftUnsaved, OutsideType, TypeOK, database
<1>8. CASE Crash
  BY <1>0, <1>8, ForgetStructure
     DEF Crash, Forget, OutsideType, TypeOK, database, ConstantsAssumption
<1>9. CASE Restart
  <2>1. TypeOK' /\ FlushMoves
    BY <1>0, <1>9 DEF Restart, TypeOK, FlushMoves, database, memory, tasks, history
  <2> QED
    BY <1>9, <2>1, CalmStep DEF Restart, memory, tasks, Structure, TodoRooms
<1> QED
  BY <1>1, <1>2, <1>3, <1>4, <1>5, <1>6, <1>7, <1>8, <1>9

LEMMA InitStructure ==
  ASSUME ConstantsAssumption, Init
  PROVE  Structure
<1> USE DEF Init
<1>0. /\ Garbage \in RoomType /\ Garbage.connections = {}
      /\ NotFlushing \in FlushType
      /\ NotFlushing.step = "none" /\ NotFlushing.room = NoRoom
  BY DEF Garbage, NewRoom, RoomType, NotFlushing, FlushType
<1>1. TypeOK
  BY <1>0 DEF TypeOK, ConstantsAssumption
<1>2. SharedRoom /\ LockExclusive /\ LoadingUnregistered /\ TeardownEmpty
  BY DEF SharedRoom, LockExclusive, LoadingUnregistered, Holding, TeardownEmpty
<1>3. Occupants /\ Identity /\ FlushOwner /\ FlushRooms /\ TodoRooms
  BY <1>0, TaskTypes DEF Occupants, Identity, FlushOwner, FlushRooms, TodoRooms
<1> QED
  BY <1>1, <1>2, <1>3 DEF Structure

LEMMA StutterStructure ==
  ASSUME Structure, UNCHANGED vars
  PROVE  Structure'
BY DEF Structure, TypeOK, SharedRoom, LockExclusive, Holding, LoadingUnregistered,
       Occupants, TeardownEmpty, Identity, FlushOwner, FlushRooms, TodoRooms,
       vars, database, memory, tasks, process, history

LEMMA NextStructure ==
  ASSUME ConstantsAssumption, Structure, [Next]_vars
  PROVE  Structure'
BY EndpointStructure, FlushingStructure, ProcessStructure, StutterStructure DEF Next

\* The structural invariant holds in every state: locks, rooms, sockets and
\* flushes always belong together as the code assumes.
THEOREM StructureInvariant == Spec => []Structure
<1>1. Init => Structure
  BY ConstantsAssumption, InitStructure
<1>2. Structure /\ [Next]_vars => Structure'
  BY ConstantsAssumption, NextStructure
<1> QED
  BY <1>1, <1>2, PTL DEF Spec

\* Every variable always has its type.
THEOREM TypeCorrect == Spec => []TypeOK
<1>1. Structure => TypeOK
  BY DEF Structure
<1> QED
  BY <1>1, StructureInvariant, PTL

\* Everyone who has a document open is always in its one registered room
\* (RoomManager.join and leave).
THEOREM RoomIsShared == Spec => []SharedRoom
<1>1. Structure => SharedRoom
  BY DEF Structure
<1> QED
  BY <1>1, StructureInvariant, PTL

--------------------------------------------------------------------------------
(* Deletion is inductive. *)

\* flush, returning or starting, keeps the deletion marks its caller set.
LEMMA ReturnedHeap ==
  ASSUME NEW t \in Task, NEW heap \in [Room -> RoomType], Returned(t, heap)
  PROVE  \A q \in Room : /\ room'[q].document_id = heap[q].document_id
                         /\ room'[q].deleted = heap[q].deleted
BY DEF Returned, LetGo, Advanced, SameHeap, SameRooms

LEMMA DeletionStep ==
  ASSUME Deletion, EventsGone', exists' \subseteq exists,
         \A q \in Room :
           room'[q].deleted =>
             \/ room[q].deleted /\ room'[q].document_id = room[q].document_id
             \/ room'[q].document_id \notin exists
  PROVE  Deletion'
BY DEF Deletion, DeletedIsGone

LEMMA FlushingDeletion ==
  ASSUME ConstantsAssumption, Structure, Deletion, NEW t \in Task, Flushing(t)
  PROVE  Deletion'
<1>0. /\ flush \in [Task -> FlushType] /\ room \in [Room -> RoomType]
      /\ todo \in [{FlushLoop, Shutdown} -> SUBSET Room]
  BY DEF Structure, TypeOK
<1>1. flush[t].step # "none" /\ flush[t].room \in Room
  BY StartedRoom DEF Flushing, SaveReturns, AcquireFlushLock, SaveCommits,
                     SaveFindsNoDocument, SaveRaises
<1>2. exists' = exists /\ events' = events
  BY DEF Flushing, SaveReturns, AcquireFlushLock, SaveCommits, SaveFindsNoDocument,
         SaveRaises, database
<1>3. EventsGone' /\ exists' \subseteq exists
  BY <1>2 DEF Deletion, EventsGone
<1>4. CASE StartSave(t, flush[t].room, room)
  <2>1. \A q \in Room : /\ room'[q].deleted = room[q].deleted
                        /\ room'[q].document_id = room[q].document_id
    <3>1. room' = [room EXCEPT ![flush[t].room].dirty = FALSE]
      BY <1>4 DEF StartSave
    <3> QED
      BY <1>0, <1>1, <3>1 DEF RoomType
  <2> QED
    BY <1>3, <2>1, DeletionStep
<1>5. ASSUME NEW heap \in {room, MarkDirty(flush[t].room)}, FlushReturns(t, heap)
      PROVE  Deletion'
  <2>1. /\ heap \in [Room -> RoomType]
        /\ \A q \in Room : /\ heap[q].deleted = room[q].deleted
                           /\ heap[q].document_id = room[q].document_id
    BY <1>0, <1>1, <1>5, MarkEffect DEF SameOccupants
  <2>2. Returned(t, heap)
    BY <1>0, <1>5, <2>1, FlushReturnsEffect
  <2>3. \A q \in Room : /\ room'[q].deleted = room[q].deleted
                        /\ room'[q].document_id = room[q].document_id
    BY <2>1, <2>2, ReturnedHeap
  <2> QED
    BY <1>3, <2>3, DeletionStep
<1>6. CASE FlushReturns(t, MarkDeleted(flush[t].room)) /\ DocumentSavedBy(t) \notin exists
  <2>0. /\ MarkDeleted(flush[t].room) \in [Room -> RoomType]
        /\ \A q \in Room :
             /\ MarkDeleted(flush[t].room)[q].document_id = room[q].document_id
             /\ q # flush[t].room => MarkDeleted(flush[t].room)[q] = room[q]
    BY <1>0, <1>1, MarkEffect DEF SameOccupants
  <2>1. Returned(t, MarkDeleted(flush[t].room))
    BY <1>0, <2>0, <1>6, FlushReturnsEffect
  <2>2. \A q \in Room : /\ room'[q].deleted = MarkDeleted(flush[t].room)[q].deleted
                        /\ room'[q].document_id = room[q].document_id
    BY <2>0, <2>1, ReturnedHeap
  <2> QED
    BY <1>1, <1>3, <1>6, <2>0, <2>2, DeletionStep DEF DocumentSavedBy
<1> QED
  BY <1>4, <1>5, <1>6
     DEF Flushing, SaveReturns, AcquireFlushLock, SaveCommits, SaveFindsNoDocument, SaveRaises

LEMMA EndpointDeletion ==
  ASSUME ConstantsAssumption, Structure, Deletion, NEW c \in Connection, Endpoint(c)
  PROVE  Deletion'
<1>0. UNCHANGED <<exists, events>>
  BY DEF Endpoint, Handshake, Join, JoinExisting, StartLoad, LoadReads, LoadFails,
         LoadReturns, ReceiveUpdate, Disconnect, Leave, LeaveOthers, LeaveClean,
         LeaveFlush, database
<1>1. room \in [Room -> RoomType] /\ flush \in [Task -> FlushType]
  BY DEF Structure, TypeOK
<1>2. EventsGone'
  BY <1>0 DEF Deletion, EventsGone
<1>3. CASE room' = room
  BY <1>0, <1>2, <1>3, DeletionStep
<1>4. CASE JoinExisting(c)
  <2>1. rooms[DocumentOf[c]] \in Room
    BY <1>4 DEF JoinExisting, Structure, TypeOK, ConstantsAssumption
  <2>2. \A q \in Room : /\ room'[q].deleted = room[q].deleted
                        /\ room'[q].document_id = room[q].document_id
    BY <1>1, <1>4, <2>1 DEF JoinExisting, RoomType
  <2> QED
    BY <1>0, <1>2, <2>2, DeletionStep
<1>5. CASE LoadReturns(c)
  <2>1. PICK r \in Room : room' = [room EXCEPT ![r] = NewRoom(DocumentOf[c], loaded, {c})]
    BY <1>5 DEF LoadReturns
  <2>2. \A q \in Room : room'[q] = room[q] \/ room'[q].deleted = FALSE
    BY <1>1, <2>1 DEF NewRoom
  <2> QED
    BY <1>0, <1>2, <2>2, DeletionStep
<1>6. ASSUME NEW u \in Update, ReceiveUpdate(c, u)
      PROVE  Deletion'
  <2>1. at[c] \in Room
    BY <1>6 DEF ReceiveUpdate, Structure, SharedRoom, TypeOK
  <2>2. room' = [room EXCEPT ![at[c]] = Edited(room[at[c]], u)]
    BY <1>6 DEF ReceiveUpdate
  <2>3. \A q \in Room : /\ room'[q].deleted = room[q].deleted
                        /\ room'[q].document_id = room[q].document_id
    BY <1>1, <2>1, <2>2, EditedEffect
  <2> QED
    BY <1>0, <1>2, <2>3, DeletionStep
<1>7. CASE Leave(c)
  <2>1. pc[c] = "leaving"
    BY <1>7 DEF Leave, LeaveOthers, LeaveClean, LeaveFlush, LastLeaves
  <2>2. /\ Discarded(c) \in [Room -> RoomType] /\ at[c] \in Room
        /\ \A q \in Room : /\ Discarded(c)[q].deleted = room[q].deleted
                           /\ Discarded(c)[q].document_id = room[q].document_id
    BY <2>1, DiscardedEffect
  <2>3. room' = Discarded(c) \/ SameHeap(Discarded(c))
    BY <1>1, <1>7, <2>2, TaskTypes, EnterFlushEffect
       DEF Leave, LeaveOthers, LeaveClean, LeaveFlush, Drop
  <2>4. \A q \in Room : /\ room'[q].deleted = room[q].deleted
                        /\ room'[q].document_id = room[q].document_id
    BY <2>2, <2>3 DEF SameHeap, SameRooms
  <2> QED
    BY <1>0, <1>2, <2>4, DeletionStep
<1> QED
  BY <1>3, <1>4, <1>5, <1>6, <1>7
     DEF Endpoint, Join, Handshake, StartLoad, LoadReads, LoadFails, Disconnect

LEMMA ProcessDeletion ==
  ASSUME ConstantsAssumption, Structure, Deletion,
         \/ LoopTick
         \/ \E d \in Document : DeleteDocument(d) \/ HandleDeleted(d)
         \/ BeginStop \/ CancelTasks \/ (\E r \in Room : ShutdownRoom(r)) \/ Exit
         \/ Crash \/ Restart
  PROVE  Deletion'
<1>0. /\ room \in [Room -> RoomType] /\ flush \in [Task -> FlushType]
      /\ todo \in [{FlushLoop, Shutdown} -> SUBSET Room]
      /\ EventsGone
  BY DEF Structure, TypeOK, Deletion
<1>1. CASE LoopTick
  <2>1. Advanced(Registered, room)
    BY <1>0, <1>1, RegisteredRooms, AdvanceEffect DEF LoopTick
  <2> QED
    BY <1>0, <1>1, <2>1, DeletionStep
       DEF LoopTick, Advanced, SameHeap, SameRooms, database, EventsGone
<1>2. ASSUME NEW d \in Document, DeleteDocument(d)
      PROVE  Deletion'
  <2>1. EventsGone' /\ exists' \subseteq exists /\ room' = room
    BY <1>0, <1>2 DEF DeleteDocument, memory, EventsGone
  <2> QED
    BY <2>1, DeletionStep
<1>3. ASSUME NEW d \in Document, HandleDeleted(d)
      PROVE  Deletion'
  <2>1. CASE rooms[d] = NoRoom
    BY <1>0, <1>3, <2>1, DeletionStep DEF HandleDeleted, database, EventsGone
  <2>2. CASE rooms[d] # NoRoom
    <3>1. rooms[d] \in Room /\ room[rooms[d]].document_id = d /\ d \notin exists
      BY <1>0, <1>3, <2>2 DEF Structure, TypeOK, Identity, HandleDeleted, EventsGone
    <3>2. /\ \A q \in Room : room'[q].document_id = room[q].document_id
          /\ \A q \in Room \ {rooms[d]} : room'[q] = room[q]
      BY <1>0, <1>3, <2>2, <3>1, MarkEffect DEF HandleDeleted, SameOccupants
    <3> QED
      BY <1>0, <1>3, <3>1, <3>2, DeletionStep DEF HandleDeleted, database, EventsGone
  <2> QED
    BY <2>1, <2>2
<1>4. CASE BeginStop \/ CancelTasks \/ Restart
  <2>1. EventsGone' /\ exists' = exists /\ room' = room
    BY <1>0, <1>4 DEF BeginStop, CancelTasks, Restart, database, memory, EventsGone
  <2> QED
    BY <2>1, DeletionStep
<1>5. ASSUME NEW r \in Room, ShutdownRoom(r)
      PROVE  Deletion'
  <2>1. UNCHANGED room \/ SameHeap(room)
    BY <1>0, <1>5, TaskTypes, EnterFlushEffect DEF ShutdownRoom
  <2> QED
    BY <1>0, <1>5, <2>1, DeletionStep
       DEF ShutdownRoom, SameHeap, SameRooms, database, EventsGone
<1>6. CASE Exit \/ Crash
  <2>1. \A q \in Room : room'[q].deleted = FALSE
    BY <1>6 DEF Exit, Crash, Forget, Garbage, NewRoom
  <2> QED
    BY <1>6, <2>1, DeletionStep DEF Exit, Crash, Forget, database, EventsGone
<1> QED
  BY <1>1, <1>2, <1>3, <1>4, <1>5, <1>6

\* A deletion mark never stops the persistence of a document that still exists
\* (flush, handle_permission_event).
THEOREM DeletedOnlyWhenGone == Spec => []DeletedIsGone
<1>1. Init => Structure /\ Deletion
  BY ConstantsAssumption, InitStructure
     DEF Init, Deletion, DeletedIsGone, EventsGone, Garbage, NewRoom
<1>2. Structure /\ Deletion /\ [Next]_vars => Structure' /\ Deletion'
  <2>1. Structure /\ Deletion /\ UNCHANGED vars => Deletion'
    BY DEF Deletion, DeletedIsGone, EventsGone, vars, database, memory
  <2> QED
    BY <2>1, ConstantsAssumption, NextStructure, EndpointDeletion, FlushingDeletion,
       ProcessDeletion DEF Next
<1>3. Structure /\ Deletion => DeletedIsGone
  BY DEF Deletion
<1> QED
  BY <1>1, <1>2, <1>3, PTL DEF Spec

--------------------------------------------------------------------------------
(* One document: what each kind of step does to DocumentSafe. *)

\* From Room objects h and flushes f to k and g: t starts to save the dirty q.
SaveStarted(t, q, h, k, f, g) ==
  /\ f[t].step # "saving"
  /\ \A s \in Task : ~SavingIn(f, s, q)
  /\ \A s \in Task : f[s].step = "saving" => f[s].room \in Room
  /\ h[q].dirty
  /\ \A s \in Task \ {t} : g[s] = f[s]
  /\ g[t].step = "saving" /\ g[t].room = q /\ g[t].state = h[q].doc
  /\ \A p \in Room \ {q} : k[p] = h[p]
  /\ k[q].document_id = h[q].document_id /\ k[q].doc = h[q].doc /\ ~k[q].dirty

\* The room t saves is now in flight.
LEMMA SafeStart ==
  ASSUME NEW d \in Document, NEW r \in Room \cup {NoRoom}, NoRoom \notin Room,
         NEW h \in [Room -> RoomType], NEW k \in [Room -> RoomType],
         NEW f \in [Task -> FlushType], NEW g \in [Task -> FlushType],
         NEW row \in SUBSET Update, NEW due \in SUBSET Update,
         DocumentSafe(d, r, h, f, row, due),
         NEW t \in Task, NEW q \in Room, SaveStarted(t, q, h, k, f, g)
  PROVE  DocumentSafe(d, r, k, g, row, due)
<1> USE DEF DocumentSafe, DetachedClean, SavingIn, SaveStarted
<1>1. h[q].document_id = d => r = q
  BY DEF FlushType
<1>2. DetachedClean(d, r, k)
  OBVIOUS
<1>3. SaversCover(d, r, k, g, row)
  <2> SUFFICES ASSUME NEW s \in Task, g[s].step = "saving", k[g[s].room].document_id = d
               PROVE  /\ g[s].room = r
                      /\ row \subseteq g[s].state
                      /\ g[s].state \subseteq k[r].doc
                      /\ ~k[r].dirty => g[s].state = k[r].doc
    BY DEF SaversCover
  <2>1. CASE s = t
    <3>1. r = q
      BY <1>1, <2>1
    <3> QED
      BY <2>1, <3>1 DEF RoomMatchesRow
  <2>2. CASE s # t
    <3>1. f[s].step = "saving" /\ f[s].room \in Room /\ f[s].room # q
      BY <2>2
    <3>2. h[f[s].room].document_id = d /\ g[s] = f[s] /\ k[f[s].room] = h[f[s].room]
      BY <2>2, <3>1
    <3>3. f[s].room = r
      BY <3>1, <3>2 DEF SaversCover
    <3> QED
      BY <3>1, <3>2, <3>3 DEF SaversCover
  <2> QED
    BY <2>1, <2>2
<1>4. r # NoRoom => RoomMatchesRow(r, k, g, row, due)
  <2> SUFFICES ASSUME r # NoRoom PROVE RoomMatchesRow(r, k, g, row, due)
    OBVIOUS
  <2>1. CASE r = q
    BY <2>1 DEF RoomMatchesRow
  <2>2. CASE r # q
    <3>1. \A s \in Task : SavingIn(f, s, r) => SavingIn(g, s, r)
      OBVIOUS
    <3> QED
      BY <2>2, <3>1 DEF RoomMatchesRow
  <2> QED
    BY <2>1, <2>2
<1> QED
  BY <1>2, <1>3, <1>4

\* A task that saves nothing, before and after, moves.
LEMMA SafeMove ==
  ASSUME NEW d, NEW r, NEW h,
         NEW f, NEW g, NEW row, NEW due,
         DocumentSafe(d, r, h, f, row, due),
         NEW t \in Task, f[t].step # "saving", g[t].step # "saving",
         \A s \in Task \ {t} : g[s] = f[s]
  PROVE  DocumentSafe(d, r, h, g, row, due)
BY DEF DocumentSafe, DetachedClean, SaversCover, RoomMatchesRow, SavingIn

\* t's save commits: the row becomes what t took when it started.
LEMMA SafeCommit ==
  ASSUME NEW d \in Document, NEW r \in Room \cup {NoRoom}, NoRoom \notin Room,
         NEW h, NEW f, NEW g, NEW row, NEW due,
         DocumentSafe(d, r, h, f, row, due),
         r # NoRoom => h[r].document_id = d,
         NEW t \in Task, f[t].step = "saving", f[t].room \in Room,
         \A s \in Task : SavingIn(f, s, f[t].room) => s = t,
         g[t].step # "saving",
         \A s \in Task \ {t} : g[s] = f[s]
  PROVE  DocumentSafe(d, r, h, g, IF h[f[t].room].document_id = d THEN f[t].state ELSE row, due)
<1> USE DEF DocumentSafe
<1>1. CASE h[f[t].room].document_id = d
  <2>1. /\ f[t].room = r /\ r # NoRoom
        /\ f[t].state \subseteq h[r].doc
        /\ ~h[r].dirty => f[t].state = h[r].doc
    BY <1>1 DEF SaversCover
  <2>2. RoomMatchesRow(r, h, g, f[t].state, due)
    BY <2>1 DEF RoomMatchesRow
  <2>3. \A s \in Task : g[s].step = "saving" => h[g[s].room].document_id # d
    BY <1>1, <2>1 DEF SaversCover, SavingIn
  <2>4. SaversCover(d, r, h, g, f[t].state)
    BY <2>3 DEF SaversCover
  <2> QED
    BY <1>1, <2>1, <2>2, <2>4
<1>2. CASE h[f[t].room].document_id # d
  <2>1. SaversCover(d, r, h, g, row)
    BY DEF SaversCover
  <2>2. r # NoRoom => RoomMatchesRow(r, h, g, row, due)
    BY <1>2 DEF RoomMatchesRow, SavingIn
  <2> QED
    BY <1>2, <2>1, <2>2
<1> QED
  BY <1>1, <1>2

\* q is marked dirty, when the save of it ends without a commit or after one.
LEMMA SafeFail ==
  ASSUME NEW d \in Document, NEW r \in Room \cup {NoRoom}, NoRoom \notin Room,
         NEW h, NEW k, NEW f, NEW g, NEW row, NEW due,
         DocumentSafe(d, r, h, f, row, due),
         NEW q \in Room,
         h[q].document_id = d => q = r,
         \A p \in Room \ {q} : k[p] = h[p],
         k[q].document_id = h[q].document_id, k[q].doc = h[q].doc, k[q].dirty,
         \A s \in Task : \/ g[s] = f[s]
                         \/ g[s].step # "saving" /\ SavingIn(f, s, q),
         \A s \in Task : g[s].step = "saving" => g[s].room \in Room
  PROVE  DocumentSafe(d, r, k, g, row, due)
<1> USE DEF DocumentSafe
<1>1. DetachedClean(d, r, k)
  BY DEF DetachedClean
<1>2. r # NoRoom => RoomMatchesRow(r, k, g, row, due)
  <2>1. CASE r = q
    BY <2>1 DEF RoomMatchesRow
  <2>2. CASE r # q /\ r # NoRoom
    <3>1. \A s \in Task : SavingIn(f, s, r) => SavingIn(g, s, r)
      BY <2>2 DEF SavingIn
    <3> QED
      BY <2>2, <3>1 DEF RoomMatchesRow
  <2> QED
    BY <2>1, <2>2
<1>3. SaversCover(d, r, k, g, row)
  <2> SUFFICES ASSUME NEW s \in Task, g[s].step = "saving", k[g[s].room].document_id = d
               PROVE  /\ g[s].room = r
                      /\ row \subseteq g[s].state
                      /\ g[s].state \subseteq k[r].doc
                      /\ ~k[r].dirty => g[s].state = k[r].doc
    BY DEF SaversCover
  <2>1. g[s] = f[s] /\ f[s].room \in Room /\ h[f[s].room].document_id = d
    OBVIOUS
  <2>2. /\ f[s].room = r
        /\ row \subseteq f[s].state
        /\ f[s].state \subseteq h[r].doc
        /\ ~h[r].dirty => f[s].state = h[r].doc
    BY <2>1 DEF SaversCover
  <2> QED
    BY <2>1, <2>2
<1> QED
  BY <1>1, <1>2, <1>3

\* Nothing about the rooms of d changes.
LEMMA SafeFrame ==
  ASSUME NEW d \in Document, NEW r \in Room \cup {NoRoom}, NoRoom \notin Room,
         NEW h, NEW k, NEW f, NEW g, NEW row, NEW due,
         DocumentSafe(d, r, h, f, row, due),
         \A p \in Room : k[p].document_id = d =>
           /\ h[p].document_id = d
           /\ k[p].doc = h[p].doc /\ k[p].dirty = h[p].dirty,
         r # NoRoom => k[r].document_id = d,
         \A s \in Task : g[s].step = "saving" =>
           /\ g[s].room \in Room
           /\ g[s] = f[s] \/ k[g[s].room].document_id # d,
         \A s \in Task : SavingIn(f, s, r) => g[s] = f[s]
  PROVE  DocumentSafe(d, r, k, g, row, due)
<1> USE DEF DocumentSafe
<1>1. DetachedClean(d, r, k)
  BY DEF DetachedClean
<1>2. r # NoRoom => RoomMatchesRow(r, k, g, row, due)
  <2>1. \A s \in Task : SavingIn(f, s, r) => SavingIn(g, s, r)
    BY DEF SavingIn
  <2> QED
    BY <2>1 DEF RoomMatchesRow
<1>3. SaversCover(d, r, k, g, row)
  <2> SUFFICES ASSUME NEW s \in Task, g[s].step = "saving", k[g[s].room].document_id = d
               PROVE  /\ g[s].room = r
                      /\ row \subseteq g[s].state
                      /\ g[s].state \subseteq k[r].doc
                      /\ ~k[r].dirty => g[s].state = k[r].doc
    BY DEF SaversCover
  <2>1. g[s] = f[s] /\ f[s].room \in Room /\ h[f[s].room].document_id = d
    OBVIOUS
  <2>2. /\ f[s].room = r
        /\ row \subseteq f[s].state
        /\ f[s].state \subseteq h[r].doc
        /\ ~h[r].dirty => f[s].state = h[r].doc
    BY <2>1 DEF SaversCover
  <2>3. k[r].doc = h[r].doc /\ k[r].dirty = h[r].dirty
    BY <2>1, <2>2
  <2> QED
    BY <2>1, <2>2, <2>3
<1> QED
  BY <1>1, <1>2, <1>3

\* The registered room, clean and not being saved, is let go.
LEMMA SafeDrop ==
  ASSUME NEW d \in Document, NEW r \in Room, NoRoom \notin Room,
         NEW h, NEW f, NEW row, NEW due,
         DocumentSafe(d, r, h, f, row, due),
         h[r].document_id = d, ~h[r].dirty,
         \A s \in Task : ~SavingIn(f, s, r)
  PROVE  DocumentSafe(d, NoRoom, h, f, row, due)
<1> USE DEF DocumentSafe
<1>1. due \subseteq row
  BY DEF RoomMatchesRow
<1>2. DetachedClean(d, NoRoom, h)
  BY DEF DetachedClean
<1>3. SaversCover(d, NoRoom, h, f, row)
  BY DEF SaversCover, SavingIn
<1> QED
  BY <1>1, <1>2, <1>3

\* A room nobody refers to becomes d's, holding the row.
LEMMA SafeLoad ==
  ASSUME NEW d \in Document, NEW q \in Room, NoRoom \notin Room,
         NEW h, NEW k, NEW f, NEW row, NEW due,
         DocumentSafe(d, NoRoom, h, f, row, due),
         \A p \in Room \ {q} : k[p] = h[p],
         k[q].doc = row, ~k[q].dirty,
         \A s \in Task : f[s].step = "saving" => f[s].room \in Room \ {q}
  PROVE  DocumentSafe(d, q, k, f, row, due)
<1> USE DEF DocumentSafe
<1>1. DetachedClean(d, q, k)
  BY DEF DetachedClean
<1>2. RoomMatchesRow(q, k, f, row, due)
  BY DEF RoomMatchesRow
<1>3. \A s \in Task : f[s].step = "saving" => k[f[s].room].document_id # d
  BY DEF SaversCover
<1>4. SaversCover(d, q, k, f, row)
  BY <1>3 DEF SaversCover
<1> QED
  BY <1>1, <1>2, <1>4

\* An update is merged into the registered room and becomes due.
LEMMA SafeEdit ==
  ASSUME NEW d \in Document, NEW r \in Room, NoRoom \notin Room,
         NEW h, NEW k, NEW f, NEW row, NEW due, NEW u,
         DocumentSafe(d, r, h, f, row, due),
         h[r].document_id = d,
         \A p \in Room \ {r} : k[p] = h[p],
         k[r].document_id = d, k[r].doc = h[r].doc \cup {u}, k[r].dirty,
         \A s \in Task : f[s].step = "saving" => f[s].room \in Room
  PROVE  DocumentSafe(d, r, k, f, row, due \cup {u})
<1> USE DEF DocumentSafe
<1>1. DetachedClean(d, r, k)
  BY DEF DetachedClean
<1>2. RoomMatchesRow(r, k, f, row, due \cup {u})
  BY DEF RoomMatchesRow
<1>3. SaversCover(d, r, k, f, row)
  BY DEF SaversCover
<1> QED
  BY <1>1, <1>2, <1>3

--------------------------------------------------------------------------------
(* Durability is inductive. *)

Safe(d) == DocumentSafe(d, rooms[d], room, flush, snapshot[d], owed[d])

LEMMA KnownTypes ==
  ASSUME ConstantsAssumption, Structure
  PROVE  /\ room \in [Room -> RoomType] /\ flush \in [Task -> FlushType]
         /\ todo \in [{FlushLoop, Shutdown} -> SUBSET Room]
         /\ \A d \in Document : /\ rooms[d] \in Room \cup {NoRoom}
                                /\ rooms[d] # NoRoom => room[rooms[d]].document_id = d
                                /\ snapshot[d] \in SUBSET Update
                                /\ owed[d] \in SUBSET Update
         /\ \A t \in Task : flush[t].step # "none" => flush[t].room \in Room
         /\ NoRoom \notin Room
<1>1. \A t \in Task : flush[t].step # "none" => flush[t].room \in Room
  BY StartedRoom
<1> QED
  BY <1>1 DEF Structure, TypeOK, Identity, ConstantsAssumption

\* In f, t's previous flush is over, and the other flushes are as they stay.
Ready(t, q, f) ==
  /\ f[t].step # "saving"
  /\ \A s \in Task : f[s].step = "saving" => f[s].room \in Room
  /\ \A s \in Task : SavingIn(f, s, q) => flush[s].room = q
  /\ \A s \in Task \ {t} : flush'[s] = f[s]

\* FlushStarts, seen from the state f in which t's previous flush is over.
LEMMA StartSafe ==
  ASSUME ConstantsAssumption,
         NEW d \in Document, NEW r \in Room \cup {NoRoom},
         NEW h \in [Room -> RoomType], NEW f \in [Task -> FlushType],
         NEW row \in SUBSET Update, NEW due \in SUBSET Update,
         DocumentSafe(d, r, h, f, row, due),
         NEW t \in Task, NEW q \in Room,
         Ready(t, q, f), NeedsFlush(h[q]), SameHeap(h), FlushStarts(t, q, h)
  PROVE  DocumentSafe(d, r, room', flush', row, due)
<1>0. NoRoom \notin Room
  BY DEF ConstantsAssumption
<1>1. CASE /\ flush'[t] = [step |-> "saving", room |-> q, state |-> h[q].doc]
           /\ ~room'[q].dirty
           /\ \A s \in Task : flush[s].room # q
  <2>1. /\ room' \in [Room -> RoomType] /\ flush' \in [Task -> FlushType]
        /\ room'[q].document_id = h[q].document_id /\ room'[q].doc = h[q].doc
        /\ \A p \in Room \ {q} : room'[p] = h[p]
    BY DEF SameHeap, SameRooms, FlushStarts
  <2>2. h[q].dirty /\ \A s \in Task : ~SavingIn(f, s, q)
    BY <1>1 DEF NeedsFlush, Ready
  <2>3. flush'[t].step = "saving" /\ flush'[t].room = q /\ flush'[t].state = h[q].doc
    BY <1>1
  <2>4. SaveStarted(t, q, h, room', f, flush')
    BY <1>1, <2>1, <2>2, <2>3 DEF SaveStarted, Ready
  <2> QED
    BY <1>0, <2>1, <2>4, SafeStart
<1>2. CASE flush'[t] = [step |-> "waiting", room |-> q, state |-> {}] /\ room' = h
  <2>1. flush'[t].step # "saving"
    BY <1>2
  <2> QED
    BY <1>2, <2>1, SafeMove DEF Ready
<1> QED
  BY <1>1, <1>2 DEF FlushStarts

\* flush returns to its caller: the endpoint that tears its room down drops it
\* only clean, or marks the document abandoned.
LEMMA ReturnSafe ==
  ASSUME ConstantsAssumption, Structure,
         NEW t \in Task, flush[t].step # "none",
         NEW heap, SameOccupants(heap),
         \A q \in Room : heap[q].deleted => heap[q].document_id \notin exists,
         Returned(t, heap),
         NEW d \in Document, d \in exists \ abandoned',
         NEW row \in SUBSET Update, NEW due \in SUBSET Update,
         NEW f, f = [flush EXCEPT ![t] = NotFlushing],
         DocumentSafe(d, rooms[d], heap, f, row, due)
  PROVE  DocumentSafe(d, rooms'[d], room', flush', row, due)
<1>0. /\ heap \in [Room -> RoomType] /\ NoRoom \notin Room
      /\ f \in [Task -> FlushType] /\ f[t].step = "none" /\ f[t].room = NoRoom
      /\ \A s \in Task \ {t} : f[s] = flush[s]
      /\ \A s \in Task : f[s].step = "saving" => f[s].room \in Room
      /\ rooms[d] \in Room \cup {NoRoom}
  <2>1. heap \in [Room -> RoomType] /\ f \in [Task -> FlushType] /\ f[t] = NotFlushing
    BY KnownTypes, NotFlushingType DEF SameOccupants
  <2>2. f[t].step = "none" /\ f[t].room = NoRoom
    BY <2>1 DEF NotFlushing
  <2>3. \A s \in Task \ {t} : f[s] = flush[s]
    BY KnownTypes
  <2> QED
    BY <2>1, <2>2, <2>3, KnownTypes
<1>1. CASE t \in Connection
  <2>1. LetGo(t, heap) /\ flush' = f
    BY <1>1 DEF Returned, ConstantsAssumption
  <2>2. /\ at[t] \in Room /\ rooms[DocumentOf[t]] = at[t]
        /\ heap[at[t]].document_id = DocumentOf[t] /\ DocumentOf[t] \in Document
    BY <1>1, StartedRoom DEF SameOccupants, ConstantsAssumption
  <2>3. CASE d = DocumentOf[t]
    <3>1. ~NotDurable(t, at[t], heap)
      BY <2>1, <2>2, <2>3 DEF LetGo
    <3>2. ~heap[at[t]].deleted
      BY <2>2, <2>3
    <3>3. ~heap[at[t]].dirty /\ \A s \in Task : ~SavingIn(f, s, at[t])
      BY <1>0, <3>1, <3>2 DEF NotDurable, Saving, SavingIn
    <3>4. rooms'[d] = NoRoom
      BY <2>1, <2>2, <2>3 DEF LetGo, Unregister, Structure, TypeOK
    <3>5. DocumentSafe(d, NoRoom, heap, f, row, due)
      BY <1>0, <2>2, <2>3, <3>3, SafeDrop
    <3> QED
      BY <2>1, <3>4, <3>5 DEF LetGo
  <2>4. CASE d # DocumentOf[t]
    <3>1. rooms'[d] = rooms[d]
      BY <2>1, <2>2, <2>4 DEF LetGo, Unregister, Structure, TypeOK
    <3> QED
      BY <2>1, <3>1 DEF LetGo
  <2> QED
    BY <2>3, <2>4
<1>2. CASE t = FlushLoop
  <2>1. Advanced(todo[FlushLoop], heap) /\ rooms' = rooms
    BY <1>2 DEF Returned, ConstantsAssumption
  <2>2. \A s \in Task \ {t} : flush'[s] = f[s]
    BY <1>0, <1>2, <2>1 DEF Advanced
  <2>3. CASE flush'[FlushLoop] = NotFlushing /\ room' = heap
    <3>1. flush'[t].step # "saving"
      BY <1>2, <2>3 DEF NotFlushing
    <3> QED
      BY <1>0, <2>1, <2>2, <2>3, <3>1, SafeMove
  <2>4. ASSUME NEW q \in todo[FlushLoop], NeedsFlush(heap[q]), FlushStarts(FlushLoop, q, heap)
        PROVE  DocumentSafe(d, rooms'[d], room', flush', row, due)
    <3>1. q \in Room /\ SameHeap(heap)
      BY <2>1, KnownTypes DEF Advanced
    <3>2. Ready(FlushLoop, q, f)
      BY <1>0, <1>2, <2>2 DEF SavingIn, Ready
    <3>3. DocumentSafe(d, rooms[d], room', flush', row, due)
      BY <1>0, <2>4, <3>1, <3>2, TaskTypes, StartSafe
    <3> QED
      BY <2>1, <3>3
  <2> QED
    BY <2>1, <2>3, <2>4 DEF Advanced
<1>3. CASE t = Shutdown
  BY <1>3 DEF Returned, ConstantsAssumption
<1> QED
  BY <1>1, <1>2, <1>3, TaskTypes

LEMMA FlushingOneSaver ==
  ASSUME ConstantsAssumption, Structure, OneSaver, NEW t \in Task, Flushing(t)
  PROVE  OneSaver'
<1>0. /\ room \in [Room -> RoomType] /\ flush \in [Task -> FlushType]
      /\ todo \in [{FlushLoop, Shutdown} -> SUBSET Room]
  BY KnownTypes
<1>1. flush[t].step # "none" /\ flush[t].room \in Room
  BY StartedRoom DEF Flushing, SaveReturns, AcquireFlushLock, SaveCommits,
                     SaveFindsNoDocument, SaveRaises
<1>2. CASE AcquireFlushLock(t) /\ StartSave(t, flush[t].room, room)
  <2>0. PICK r \in Room : r = flush[t].room /\ StartSave(t, r, room)
    BY <1>1, <1>2
  <2>1. /\ flush'[t].room = r
        /\ \A s \in Task \ {t} : flush'[s] = flush[s]
    <3>1. /\ flush'[t] = [step |-> "saving", room |-> r, state |-> room[r].doc]
          /\ \A s \in Task \ {t} : flush'[s] = flush[s]
      BY <1>0, <2>0, StartSaveEffect
    <3> QED
      BY <3>1
  <2>2. \A s \in Task : ~Saving(s, r)
    BY <1>2, <2>0 DEF AcquireFlushLock
  <2> QED
    BY <2>1, <2>2 DEF OneSaver, Saving
<1>3. ASSUME NEW heap \in [Room -> RoomType], FlushReturns(t, heap)
      PROVE  OneSaver'
  <2>1. Returned(t, heap)
    BY <1>0, <1>3, FlushReturnsEffect
  <2>2. \A s \in Task \ {t} : flush'[s] = flush[s]
    BY <1>0, <2>1 DEF Returned, Advanced
  <2>3. \/ flush'[t].step # "saving"
        \/ \A s \in Task \ {t} : flush[s].room # flush'[t].room
    <3>1. CASE t # FlushLoop
      BY <1>0, <2>1, <3>1, NotFlushingType DEF Returned, NotFlushing
    <3>2. CASE t = FlushLoop
      <4>1. Advanced(todo[FlushLoop], heap)
        BY <2>1, <3>2 DEF Returned, ConstantsAssumption
      <4>2. CASE flush'[FlushLoop] = NotFlushing
        BY <3>2, <4>2 DEF NotFlushing
      <4>3. ASSUME NEW q \in todo[FlushLoop], FlushStarts(FlushLoop, q, heap)
            PROVE  \/ flush'[t].step # "saving"
                   \/ \A s \in Task \ {t} : flush[s].room # flush'[t].room
        BY <3>2, <4>3 DEF FlushStarts
      <4> QED
        BY <4>1, <4>2, <4>3 DEF Advanced
    <3> QED
      BY <3>1, <3>2
  <2> QED
    BY <2>2, <2>3 DEF OneSaver, Saving
<1>4. CASE FlushReturns(t, room)
  BY <1>0, <1>3, <1>4
<1>5. CASE FlushReturns(t, MarkDirty(flush[t].room))
  BY <1>0, <1>1, <1>3, <1>5, MarkEffect DEF SameOccupants
<1>6. CASE FlushReturns(t, MarkDeleted(flush[t].room))
  BY <1>0, <1>1, <1>3, <1>6, MarkEffect DEF SameOccupants
<1> QED
  BY <1>2, <1>4, <1>5, <1>6
     DEF Flushing, SaveReturns, AcquireFlushLock, SaveCommits, SaveFindsNoDocument, SaveRaises

\* t's save is over: no task saves its room any more.
LEMMA SaveOver ==
  ASSUME ConstantsAssumption, Structure, OneSaver,
         NEW t \in Task, flush[t].step # "none",
         NEW f, f = [flush EXCEPT ![t] = NotFlushing]
  PROVE  /\ f \in [Task -> FlushType]
         /\ f[t].step = "none" /\ f[t].room = NoRoom
         /\ \A s \in Task \ {t} : f[s] = flush[s]
         /\ \A s \in Task : f[s].step = "saving" => f[s].room \in Room
         /\ flush[t].room \in Room
         /\ flush[t].step = "saving" =>
              \A s \in Task : SavingIn(flush, s, flush[t].room) => s = t
<1>1. f \in [Task -> FlushType] /\ f[t] = NotFlushing
  BY KnownTypes, NotFlushingType
<1>2. \A s \in Task \ {t} : f[s] = flush[s]
  BY KnownTypes
<1>3. flush[t].room \in Room
  BY KnownTypes
<1>4. flush[t].step = "saving" =>
        \A s \in Task : SavingIn(flush, s, flush[t].room) => s = t
  BY <1>3 DEF OneSaver, Saving, SavingIn
<1>5. f[t].step = "none" /\ f[t].room = NoRoom
  BY <1>1 DEF NotFlushing
<1>6. \A s \in Task : f[s].step = "saving" => f[s].room \in Room
  BY <1>2, <1>5, KnownTypes
<1> QED
  BY <1>1, <1>2, <1>3, <1>4, <1>5, <1>6

LEMMA FlushingSafe ==
  ASSUME ConstantsAssumption, Structure, Deletion, Durability,
         NEW t \in Task, Flushing(t),
         NEW d \in Document, d \in Kept'
  PROVE  Safe(d)'
<1> DEFINE q == flush[t].room
           f == [flush EXCEPT ![t] = NotFlushing]
<1>0. /\ flush[t].step # "none"
      /\ exists' = exists /\ owed' = owed /\ abandoned \subseteq abandoned'
  BY DEF Flushing, SaveReturns, AcquireFlushLock, SaveCommits, SaveFindsNoDocument,
         SaveRaises, FlushReturns, Drop, database
<1>1. /\ q \in Room /\ NoRoom \notin Room
      /\ room \in [Room -> RoomType] /\ flush \in [Task -> FlushType]
      /\ todo \in [{FlushLoop, Shutdown} -> SUBSET Room]
      /\ rooms[d] \in Room \cup {NoRoom}
      /\ rooms[d] # NoRoom => room[rooms[d]].document_id = d
      /\ snapshot[d] \in SUBSET Update /\ owed[d] \in SUBSET Update
      /\ flush[t].state \in SUBSET Update
      /\ \A s \in Task : flush[s].step = "saving" => flush[s].room \in Room
  BY <1>0, KnownTypes DEF FlushType
<1>2. /\ d \in exists \ abandoned'
      /\ Safe(d)
      /\ OneSaver
  BY <1>0 DEF Kept, Durability, KeptSafe, Safe
<1>3. /\ f \in [Task -> FlushType]
      /\ f[t].step = "none" /\ f[t].room = NoRoom
      /\ \A s \in Task \ {t} : f[s] = flush[s]
      /\ \A s \in Task : f[s].step = "saving" => f[s].room \in Room
      /\ flush[t].step = "saving" => \A s \in Task : SavingIn(flush, s, q) => s = t
  BY <1>0, <1>2, SaveOver
<1>4. \A p \in Room : room[p].deleted => room[p].document_id \notin exists
  BY DEF Deletion, DeletedIsGone
<1>5. ASSUME NEW heap, SameOccupants(heap), FlushReturns(t, heap),
             \A p \in Room : heap[p].deleted => heap[p].document_id \notin exists,
             NEW row \in SUBSET Update, row = snapshot'[d],
             DocumentSafe(d, rooms[d], heap, f, row, owed[d])
      PROVE  Safe(d)'
  <2>1. Returned(t, heap)
    BY <1>1, <1>5, FlushReturnsEffect DEF SameOccupants
  <2>2. DocumentSafe(d, rooms'[d], room', flush', row, owed[d])
    BY <1>0, <1>1, <1>2, <1>5, <2>1, ReturnSafe
  <2> QED
    BY <1>0, <1>5, <2>2 DEF Safe
<1> HIDE DEF f
<1>6. CASE AcquireFlushLock(t) /\ NeedsFlush(room[q]) /\ StartSave(t, q, room) /\ rooms' = rooms
  <2>0. PICK p \in Room : p = q /\ StartSave(t, p, room)
    BY <1>1, <1>6
  <2>1. /\ flush' \in [Task -> FlushType]
        /\ room' \in [Room -> RoomType]
        /\ SameRooms(room', room)
        /\ \A o \in Room \ {p} : room'[o] = room[o]
        /\ ~room'[p].dirty
        /\ flush'[t] = [step |-> "saving", room |-> p, state |-> room[p].doc]
        /\ \A s \in Task \ {t} : flush'[s] = flush[s]
    BY <1>1, <2>0, StartSaveEffect
  <2>2. /\ flush[t].step # "saving" /\ room[p].dirty
        /\ \A s \in Task : ~SavingIn(flush, s, p)
        /\ snapshot' = snapshot
    <3>1. flush[t].step # "saving" /\ snapshot' = snapshot
      BY <1>6 DEF AcquireFlushLock, database
    <3>2. room[p].dirty
      BY <1>6, <2>0 DEF NeedsFlush
    <3>3. \A s \in Task : ~SavingIn(flush, s, p)
      BY <1>6, <2>0 DEF AcquireFlushLock, Saving, SavingIn
    <3> QED
      BY <3>1, <3>2, <3>3
  <2>3. SaveStarted(t, p, room, room', flush, flush')
    BY <1>1, <2>1, <2>2 DEF SaveStarted, SameRooms
  <2>4. DocumentSafe(d, rooms[d], room', flush', snapshot[d], owed[d])
    BY <1>1, <1>2, <2>1, <2>3, SafeStart DEF Safe
  <2> QED
    BY <1>0, <1>6, <2>2, <2>4 DEF Safe
<1>7. CASE AcquireFlushLock(t) /\ FlushReturns(t, room)
  <2>1. flush[t].step # "saving" /\ snapshot' = snapshot
    BY <1>7 DEF AcquireFlushLock, database
  <2>2. DocumentSafe(d, rooms[d], room, f, snapshot[d], owed[d])
    BY <1>2, <1>3, <2>1, SafeMove DEF Safe
  <2>3. SameOccupants(room)
    BY <1>1 DEF SameOccupants
  <2> QED
    BY <1>1, <1>4, <1>5, <1>7, <2>1, <2>2, <2>3
<1>8. CASE SaveCommits(t)
  <2>1. /\ flush[t].step = "saving" /\ FlushReturns(t, room)
        /\ snapshot'[d] = IF room[q].document_id = d THEN flush[t].state ELSE snapshot[d]
    BY <1>8 DEF SaveCommits, DocumentSavedBy, Structure, TypeOK
  <2>2. DocumentSafe(d, rooms[d], room, f, snapshot'[d], owed[d])
    BY <1>1, <1>2, <1>3, <2>1, SafeCommit, SMTT(60) DEF Safe
  <2>3. SameOccupants(room) /\ snapshot'[d] \in SUBSET Update
    BY <1>1, <2>1 DEF SameOccupants
  <2> QED
    BY <1>4, <1>5, <2>1, <2>2, <2>3
<1>9. CASE SaveFindsNoDocument(t)
  <2>1. /\ flush[t].step = "saving" /\ FlushReturns(t, MarkDeleted(q))
        /\ room[q].document_id \notin exists
        /\ snapshot' = snapshot
    BY <1>9 DEF SaveFindsNoDocument, DocumentSavedBy, database
  <2>2. /\ SameOccupants(MarkDeleted(q))
        /\ \A p \in Room : /\ MarkDeleted(q)[p].document_id = room[p].document_id
                           /\ MarkDeleted(q)[p].doc = room[p].doc
                           /\ MarkDeleted(q)[p].dirty = room[p].dirty
                           /\ p # q => MarkDeleted(q)[p] = room[p]
    BY <1>1, MarkEffect DEF SameOccupants
  <2>3. room[q].document_id # d
    BY <1>2, <2>1
  <2>4. DocumentSafe(d, rooms[d], MarkDeleted(q), f, snapshot[d], owed[d])
    <3>1. \A s \in Task : f[s].step = "saving" => f[s] = flush[s] /\ f[s].room \in Room
      BY <1>3
    <3>2. \A s \in Task : SavingIn(flush, s, rooms[d]) => f[s] = flush[s]
      BY <1>1, <1>3, <2>3 DEF SavingIn
    <3> HIDE DEF q
    <3> QED
      BY <1>1, <1>2, <2>2, <3>1, <3>2, SafeFrame DEF Safe
  <2>5. \A p \in Room : MarkDeleted(q)[p].deleted => MarkDeleted(q)[p].document_id \notin exists
    BY <1>4, <2>1, <2>2
  <2> QED
    BY <1>1, <1>5, <2>1, <2>2, <2>4, <2>5
<1>10. CASE SaveRaises(t)
  <2>1. /\ flush[t].step = "saving" /\ FlushReturns(t, MarkDirty(q))
        /\ \/ snapshot'[d] = snapshot[d]
           \/ snapshot'[d] = IF room[q].document_id = d THEN flush[t].state ELSE snapshot[d]
    BY <1>10 DEF SaveRaises, DocumentSavedBy, Structure, TypeOK
  <2>2. /\ SameOccupants(MarkDirty(q))
        /\ \A p \in Room \ {q} : MarkDirty(q)[p] = room[p]
        /\ MarkDirty(q)[q].document_id = room[q].document_id
        /\ MarkDirty(q)[q].doc = room[q].doc
        /\ MarkDirty(q)[q].dirty
        /\ \A p \in Room : /\ MarkDirty(q)[p].deleted = room[p].deleted
                           /\ MarkDirty(q)[p].document_id = room[p].document_id
    BY <1>1, MarkEffect DEF SameOccupants
  <2>3. room[q].document_id = d => q = rooms[d]
    BY <1>2, <2>1 DEF Safe, DocumentSafe, SaversCover
  <2>4. CASE snapshot'[d] = snapshot[d]
    <3>1. \A s \in Task : f[s] = flush[s] \/ (f[s].step # "saving" /\ SavingIn(flush, s, q))
      BY <1>3, <2>1 DEF SavingIn
    <3>2. DocumentSafe(d, rooms[d], MarkDirty(q), f, snapshot[d], owed[d])
      <4> HIDE DEF q
      <4> QED
        BY <1>1, <1>2, <1>3, <2>2, <2>3, <3>1, SafeFail DEF Safe
    <3> QED
      BY <1>1, <1>4, <1>5, <2>1, <2>2, <2>4, <3>2
  <2>5. CASE snapshot'[d] = IF room[q].document_id = d THEN flush[t].state ELSE snapshot[d]
    <3>1. DocumentSafe(d, rooms[d], room, f, snapshot'[d], owed[d])
      BY <1>1, <1>2, <1>3, <2>1, <2>5, SafeCommit, SMTT(60) DEF Safe
    <3>2. DocumentSafe(d, rooms[d], MarkDirty(q), f, snapshot'[d], owed[d])
      <4> HIDE DEF q
      <4> QED
        BY <1>1, <1>2, <1>3, <2>2, <2>3, <3>1, SafeFail
    <3>3. snapshot'[d] \in SUBSET Update
      BY <1>1, <2>5
    <3> QED
      BY <1>4, <1>5, <2>1, <2>2, <3>2, <3>3
  <2> QED
    BY <2>1, <2>4, <2>5
<1> QED
  BY <1>6, <1>7, <1>8, <1>9, <1>10
     DEF Flushing, SaveReturns, AcquireFlushLock


\* Rooms that keep their document, content and dirty flag keep it safe.
LEMMA SameContentSafe ==
  ASSUME ConstantsAssumption, Structure, NEW d \in Document, Safe(d),
         NEW k, \A p \in Room : /\ k[p].document_id = room[p].document_id
                                /\ k[p].doc = room[p].doc
                                /\ k[p].dirty = room[p].dirty
  PROVE  DocumentSafe(d, rooms[d], k, flush, snapshot[d], owed[d])
<1>1. /\ rooms[d] \in Room \cup {NoRoom} /\ NoRoom \notin Room
      /\ rooms[d] # NoRoom => k[rooms[d]].document_id = d
      /\ \A s \in Task : flush[s].step = "saving" => flush[s].room \in Room
  BY KnownTypes
<1> QED
  BY <1>1, SafeFrame DEF Safe

LEMMA JoinSafe ==
  ASSUME ConstantsAssumption, Structure, NEW d \in Document, Safe(d),
         NEW c \in Connection, JoinExisting(c)
  PROVE  Safe(d)'
<1>1. rooms[DocumentOf[c]] \in Room /\ room \in [Room -> RoomType]
  BY KnownTypes DEF JoinExisting, ConstantsAssumption
<1>2. \A p \in Room : /\ room'[p].document_id = room[p].document_id
                      /\ room'[p].doc = room[p].doc
                      /\ room'[p].dirty = room[p].dirty
  BY <1>1 DEF JoinExisting, RoomType
<1>3. DocumentSafe(d, rooms[d], room', flush, snapshot[d], owed[d])
  BY <1>2, SameContentSafe
<1> QED
  BY <1>3 DEF JoinExisting, Safe, database, tasks, history

LEMMA LoadSafe ==
  ASSUME ConstantsAssumption, Structure, LoadedIsRow,
         NEW d \in Document, d \in Kept, Safe(d),
         NEW c \in Connection, LoadReturns(c)
  PROVE  Safe(d)'
<1>1. PICK q \in Room :
        /\ Unreferenced(q)
        /\ room' = [room EXCEPT ![q] = NewRoom(DocumentOf[c], loaded, {c})]
        /\ rooms' = [rooms EXCEPT ![DocumentOf[c]] = q]
  BY DEF LoadReturns
<1>2. UNCHANGED <<flush, snapshot, owed>>
  BY DEF LoadReturns, database, tasks, history
<1>3. /\ NoRoom \notin Room
      /\ rooms[d] \in Room \cup {NoRoom}
      /\ rooms[d] # NoRoom => room[rooms[d]].document_id = d /\ rooms[d] # q
      /\ \A s \in Task : flush[s].step = "saving" => flush[s].room \in Room \ {q}
      /\ \A p \in Room \ {q} : room'[p] = room[p]
      /\ room'[q].document_id = DocumentOf[c] /\ room'[q].doc = loaded /\ ~room'[q].dirty
  BY <1>1, KnownTypes DEF Unreferenced, Registered, NewRoom
<1>4. CASE d = DocumentOf[c]
  <2>1. rooms[d] = NoRoom /\ loaded = snapshot[d] /\ rooms'[d] = q
    BY <1>1, <1>4 DEF LoadReturns, Structure, TypeOK, LoadingUnregistered, LoadedIsRow
  <2>2. DocumentSafe(d, q, room', flush, snapshot[d], owed[d])
    BY <1>3, <2>1, SafeLoad DEF Safe
  <2> QED
    BY <1>2, <2>1, <2>2 DEF Safe
<1>5. CASE d # DocumentOf[c]
  <2>1. rooms'[d] = rooms[d]
    BY <1>1, <1>5 DEF Structure, TypeOK
  <2>2. DocumentSafe(d, rooms[d], room', flush, snapshot[d], owed[d])
    BY <1>3, <1>5, SafeFrame DEF Safe
  <2> QED
    BY <1>2, <2>1, <2>2 DEF Safe
<1> QED
  BY <1>4, <1>5

LEMMA UpdateSafe ==
  ASSUME ConstantsAssumption, Structure,
         NEW d \in Document, d \in Kept, Safe(d),
         NEW c \in Connection, NEW u \in Update, ReceiveUpdate(c, u)
  PROVE  Safe(d)'
<1>1. /\ at[c] \in Room /\ rooms[DocumentOf[c]] = at[c] /\ DocumentOf[c] \in Document
      /\ room[at[c]].document_id = DocumentOf[c]
  BY KnownTypes DEF ReceiveUpdate, Structure, SharedRoom, ConstantsAssumption
<1>2. UNCHANGED <<rooms, flush, snapshot>>
  BY DEF ReceiveUpdate, database, tasks
<1>3. /\ room' = [room EXCEPT ![at[c]] = Edited(room[at[c]], u)]
      /\ room \in [Room -> RoomType]
  BY KnownTypes DEF ReceiveUpdate
<1>4. /\ \A p \in Room \ {at[c]} : room'[p] = room[p]
      /\ room'[at[c]].document_id = DocumentOf[c]
      /\ room'[at[c]].doc = room[at[c]].doc \cup {u}
      /\ room'[at[c]].dirty
  BY <1>1, <1>3, EditedEffect
<1>5. /\ NoRoom \notin Room
      /\ rooms[d] \in Room \cup {NoRoom}
      /\ rooms[d] # NoRoom => room[rooms[d]].document_id = d
      /\ \A s \in Task : flush[s].step = "saving" => flush[s].room \in Room
  BY KnownTypes
<1>6. CASE d = DocumentOf[c]
  <2>1. owed'[d] = owed[d] \cup {u}
    BY <1>6 DEF ReceiveUpdate, Kept, Structure, TypeOK
  <2>2. DocumentSafe(d, at[c], room', flush, snapshot[d], owed[d] \cup {u})
    <3>1. /\ DocumentSafe(d, at[c], room, flush, snapshot[d], owed[d])
          /\ room[at[c]].document_id = d /\ room'[at[c]].document_id = d
      BY <1>1, <1>4, <1>6 DEF Safe
    <3> QED
      BY <1>1, <1>4, <1>5, <3>1, SafeEdit
  <2> QED
    BY <1>1, <1>2, <1>6, <2>1, <2>2 DEF Safe
<1>7. CASE d # DocumentOf[c]
  <2>1. owed'[d] = owed[d]
    BY <1>1, <1>7 DEF ReceiveUpdate, Structure, TypeOK
  <2>2. DocumentSafe(d, rooms[d], room', flush, snapshot[d], owed[d])
    BY <1>1, <1>4, <1>5, <1>7, SafeFrame DEF Safe
  <2> QED
    BY <1>2, <2>1, <2>2 DEF Safe
<1> QED
  BY <1>6, <1>7


LEMMA LeaveSafe ==
  ASSUME ConstantsAssumption, Structure, Deletion,
         NEW d \in Document, d \in Kept', Safe(d),
         NEW c \in Connection, Leave(c)
  PROVE  Safe(d)'
<1> DEFINE q == at[c]
           k == Discarded(c)
<1>0. /\ pc[c] = "leaving"
      /\ UNCHANGED <<exists, snapshot, owed>>
  BY DEF Leave, LeaveOthers, LeaveClean, LeaveFlush, LastLeaves, database, history
<1>1. /\ q \in Room /\ rooms[DocumentOf[c]] = q /\ DocumentOf[c] \in Document
      /\ k \in [Room -> RoomType]
      /\ k[q].document_id = DocumentOf[c]
      /\ \A p \in Room : /\ k[p].document_id = room[p].document_id
                         /\ k[p].deleted = room[p].deleted
                         /\ k[p].doc = room[p].doc
                         /\ k[p].dirty = room[p].dirty
  <2> HIDE DEF k
  <2>1. \A p \in Room : p = q \/ k[p] = room[p]
    BY <1>0, DiscardedEffect DEF k
  <2> QED
    BY <1>0, <2>1, DiscardedEffect DEF k
<1> HIDE DEF k
<1>2. DocumentSafe(d, rooms[d], k, flush, snapshot[d], owed[d])
  BY <1>1, SameContentSafe
<1>3. /\ NoRoom \notin Room /\ rooms[d] \in Room \cup {NoRoom} /\ c \in Task
      /\ flush \in [Task -> FlushType]
      /\ snapshot[d] \in SUBSET Update /\ owed[d] \in SUBSET Update
      /\ \A s \in Task : flush[s].step = "saving" => flush[s].room \in Room
      /\ flush[c].step = "none"
  <2>1. flush[c].step = "none"
    BY <1>0 DEF Structure, FlushOwner
  <2> QED
    BY <2>1, KnownTypes, TaskTypes
<1>4. CASE LeaveOthers(c)
  BY <1>0, <1>2, <1>4 DEF LeaveOthers, Safe, tasks, k
<1>5. CASE LeaveClean(c)
  <2>1. /\ ~NeedsFlush(room[q])
        /\ room' = k
        /\ rooms' = Unregister(DocumentOf[c], q)
        /\ flush' = flush
        /\ abandoned' = IF NotDurable(c, q, k) THEN abandoned \cup {DocumentOf[c]} ELSE abandoned
    BY <1>1, <1>5 DEF LeaveClean, Drop, tasks, k
  <2>2. CASE d = DocumentOf[c]
    <3>1. ~k[q].deleted /\ ~NotDurable(c, q, k)
      BY <1>0, <1>1, <2>1, <2>2 DEF Kept, Deletion, DeletedIsGone
    <3>2. ~k[q].dirty /\ \A s \in Task : ~SavingIn(flush, s, q)
      BY <1>3, <3>1 DEF NotDurable, Saving, SavingIn
    <3>3. rooms'[d] = NoRoom
      BY <1>1, <2>1, <2>2 DEF Unregister, Structure, TypeOK
    <3>4. DocumentSafe(d, NoRoom, k, flush, snapshot[d], owed[d])
      <4>1. DocumentSafe(d, q, k, flush, snapshot[d], owed[d])
        BY <1>1, <1>2, <2>2
      <4> QED
        BY <1>1, <1>3, <2>2, <3>2, <4>1, SafeDrop
    <3> QED
      BY <1>0, <2>1, <3>3, <3>4 DEF Safe
  <2>3. CASE d # DocumentOf[c]
    <3>1. rooms'[d] = rooms[d]
      BY <2>1, <2>3 DEF Unregister, Structure, TypeOK
    <3> QED
      BY <1>0, <1>2, <2>1, <3>1 DEF Safe
  <2> QED
    BY <2>2, <2>3
<1>6. CASE LeaveFlush(c)
  <2>1. /\ NeedsFlush(k[q]) /\ rooms' = rooms
        /\ SameHeap(k) /\ FlushStarts(c, q, k)
        /\ \A s \in Task \ {c} : flush'[s] = flush[s]
    <3>1. EnterFlush(c, q, k) /\ NeedsFlush(room[q]) /\ rooms' = rooms
      BY <1>6 DEF LeaveFlush, k
    <3>2. NeedsFlush(k[q])
      BY <1>1, <3>1 DEF NeedsFlush
    <3> HIDE DEF q
    <3> QED
      BY <1>1, <1>3, <3>1, <3>2, EnterFlushEffect
  <2>2. Ready(c, q, flush)
    BY <1>3, <2>1 DEF Ready, SavingIn
  <2>3. DocumentSafe(d, rooms[d], room', flush', snapshot[d], owed[d])
    BY <1>1, <1>2, <1>3, <2>1, <2>2, StartSafe
  <2> QED
    BY <1>0, <2>1, <2>3 DEF Safe
<1> QED
  BY <1>4, <1>5, <1>6 DEF Leave

\* The endpoint's steps keep every kept document safe.
LEMMA EndpointSafe ==
  ASSUME ConstantsAssumption, Structure, Deletion, Durability,
         NEW c \in Connection, Endpoint(c),
         NEW d \in Document, d \in Kept'
  PROVE  Safe(d)'
<1>1. d \in Kept /\ Safe(d) /\ LoadedIsRow
  <2>1. exists' = exists /\ abandoned \subseteq abandoned'
    BY DEF Endpoint, Handshake, Join, JoinExisting, StartLoad, LoadReads, LoadFails,
           LoadReturns, ReceiveUpdate, Disconnect, Leave, LeaveOthers, LeaveClean,
           LeaveFlush, Drop, database, history
  <2> QED
    BY <2>1 DEF Kept, Durability, KeptSafe, Safe
<1>2. CASE UNCHANGED <<rooms, room, flush, snapshot, owed>>
  BY <1>1, <1>2 DEF Safe
<1>3. CASE \/ Handshake(c) \/ StartLoad(c) \/ LoadReads(c) \/ LoadFails(c) \/ Disconnect(c)
  BY <1>2, <1>3 DEF Handshake, StartLoad, LoadReads, LoadFails, Disconnect,
                    database, tasks, history
<1> QED
  BY <1>1, <1>3, JoinSafe, LoadSafe, UpdateSafe, LeaveSafe DEF Endpoint, Join


\* A flush that starts takes the flush lock only when nobody has it.
LEMMA StartOneSaver ==
  ASSUME OneSaver, NEW t \in Task,
         \A s \in Task \ {t} : flush'[s] = flush[s],
         \/ flush'[t].step # "saving"
         \/ \A s \in Task : flush[s].room # flush'[t].room
  PROVE  OneSaver'
BY DEF OneSaver, Saving

LEMMA StartsAlone ==
  ASSUME NEW t, NEW q, NEW heap, FlushStarts(t, q, heap)
  PROVE  \/ flush'[t].step # "saving"
         \/ \A s \in Task : flush[s].room # flush'[t].room
BY DEF FlushStarts

LEMMA EndpointLoaded ==
  ASSUME ConstantsAssumption, Structure, LoadedIsRow, NEW c \in Connection, Endpoint(c)
  PROVE  LoadedIsRow'
<1>1. UNCHANGED <<exists, snapshot>> /\ abandoned \subseteq abandoned'
  BY DEF Endpoint, Handshake, Join, JoinExisting, StartLoad, LoadReads, LoadFails,
         LoadReturns, ReceiveUpdate, Disconnect, Leave, LeaveOthers, LeaveClean,
         LeaveFlush, Drop, database, history
<1>2. \A e \in Connection \ {c} : pc'[e] = pc[e]
  BY DEF Endpoint, Handshake, Join, JoinExisting, StartLoad, LoadReads, LoadFails,
         LoadReturns, ReceiveUpdate, Disconnect, Leave, LeaveOthers, LeaveClean,
         LeaveFlush, Drop, Structure, TypeOK
<1>3. CASE LoadReads(c) \/ LoadReturns(c)
  <2>1. \A e \in Connection \ {c} : pc[e] \notin {"loading", "loaded"}
    BY <1>3 DEF LoadReads, LoadReturns, Structure, LockExclusive, Holding
  <2>2. pc'[c] = "loaded" => loaded' = snapshot[DocumentOf[c]]
    BY <1>3 DEF LoadReads, LoadReturns, Structure, TypeOK
  <2> QED
    BY <1>1, <1>2, <2>1, <2>2 DEF LoadedIsRow
<1>4. CASE loaded' = loaded /\ pc'[c] # "loaded"
  BY <1>1, <1>2, <1>4 DEF LoadedIsRow, Kept
<1>5. CASE \/ Handshake(c) \/ JoinExisting(c) \/ StartLoad(c) \/ LoadFails(c)
           \/ (\E u \in Update : ReceiveUpdate(c, u)) \/ Disconnect(c) \/ Leave(c)
  <2>1. loaded' = loaded /\ pc'[c] # "loaded"
    BY <1>5 DEF Handshake, JoinExisting, StartLoad, LoadFails, ReceiveUpdate, Disconnect,
                Leave, LeaveOthers, LeaveClean, LeaveFlush, LastLeaves, Drop,
                Structure, TypeOK
  <2> QED
    BY <1>4, <2>1
<1> QED
  BY <1>3, <1>5 DEF Endpoint, Join

LEMMA EndpointDurability ==
  ASSUME ConstantsAssumption, Structure, Deletion, Durability,
         NEW c \in Connection, Endpoint(c)
  PROVE  Durability'
<1>1. LoadedIsRow'
  BY EndpointLoaded DEF Durability
<1>2. KeptSafe'
  <2>1. exists' = exists
    BY DEF Endpoint, Handshake, Join, JoinExisting, StartLoad, LoadReads, LoadFails,
           LoadReturns, ReceiveUpdate, Disconnect, Leave, LeaveOthers, LeaveClean,
           LeaveFlush, database
  <2>2. \A d \in Kept' : d \in Document
    BY <2>1 DEF Kept, Structure, TypeOK
  <2>3. \A d \in Kept' : Safe(d)'
    BY <2>2, EndpointSafe
  <2> QED
    BY <2>3 DEF KeptSafe, Safe
<1>3. GoneIsEmpty'
  BY DEF Durability, GoneIsEmpty, Endpoint, Handshake, Join, JoinExisting, StartLoad,
         LoadReads, LoadFails, LoadReturns, ReceiveUpdate, Disconnect, Leave,
         LeaveOthers, LeaveClean, LeaveFlush, Drop, database, history, Structure, TypeOK
<1>4. OneSaver'
  <2>1. CASE flush' = flush
    BY <2>1 DEF Durability, OneSaver, Saving
  <2>2. CASE LeaveFlush(c)
    <3>1. /\ at[c] \in Room /\ Discarded(c) \in [Room -> RoomType]
          /\ flush \in [Task -> FlushType] /\ c \in Task
      BY <2>2, DiscardedEffect, KnownTypes, TaskTypes DEF LeaveFlush, LastLeaves
    <3>2. /\ FlushStarts(c, at[c], Discarded(c))
          /\ \A s \in Task \ {c} : flush'[s] = flush[s]
      BY <2>2, <3>1, EnterFlushEffect DEF LeaveFlush
    <3> QED
      BY <3>1, <3>2, StartsAlone, StartOneSaver DEF Durability
  <2> QED
    BY <2>1, <2>2 DEF Endpoint, Handshake, Join, JoinExisting, StartLoad, LoadReads,
         LoadFails, LoadReturns, ReceiveUpdate, Disconnect, Leave, LeaveOthers,
         LeaveClean, tasks
<1> QED
  BY <1>1, <1>2, <1>3, <1>4 DEF Durability

LEMMA FlushingDurability ==
  ASSUME ConstantsAssumption, Structure, Deletion, Durability,
         NEW t \in Task, Flushing(t)
  PROVE  Durability'
<1>0. /\ flush[t].step # "none"
      /\ exists' = exists /\ owed' = owed /\ abandoned \subseteq abandoned'
      /\ loaded' = loaded
      /\ pc' = pc \/ pc' = [pc EXCEPT ![t] = "idle"]
  BY DEF Flushing, SaveReturns, AcquireFlushLock, SaveCommits, SaveFindsNoDocument,
         SaveRaises, FlushReturns, Drop, database
<1>1. OneSaver'
  BY FlushingOneSaver DEF Durability
<1>2. KeptSafe'
  <2>1. \A d \in Kept' : d \in Document
    BY <1>0 DEF Kept, Structure, TypeOK
  <2>2. \A d \in Kept' : Safe(d)'
    BY <2>1, FlushingSafe
  <2> QED
    BY <2>2 DEF KeptSafe, Safe
<1>3. \/ snapshot' = snapshot
      \/ /\ flush[t].step = "saving" /\ DocumentSavedBy(t) \in exists
         /\ snapshot' = [snapshot EXCEPT ![DocumentSavedBy(t)] = flush[t].state]
  BY DEF Flushing, SaveReturns, AcquireFlushLock, SaveCommits, SaveFindsNoDocument,
         SaveRaises, database
<1>4. GoneIsEmpty'
  BY <1>0, <1>3 DEF Durability, GoneIsEmpty, Structure, TypeOK
<1>5. LoadedIsRow'
  <2> SUFFICES ASSUME NEW c \in Connection, pc'[c] = "loaded", DocumentOf[c] \in Kept'
               PROVE  loaded' = snapshot'[DocumentOf[c]]
    BY DEF LoadedIsRow
  <2>1. pc[c] = "loaded" /\ DocumentOf[c] \in Kept /\ DocumentOf[c] \in Document
    BY <1>0 DEF Kept, Structure, TypeOK, ConstantsAssumption
  <2>2. loaded = snapshot[DocumentOf[c]] /\ rooms[DocumentOf[c]] = NoRoom
    BY <2>1 DEF Durability, LoadedIsRow, Structure, LoadingUnregistered
  <2>3. flush[t].step = "saving" => DocumentSavedBy(t) # DocumentOf[c]
    <3>1. DocumentSafe(DocumentOf[c], NoRoom, room, flush, snapshot[DocumentOf[c]], owed[DocumentOf[c]])
      BY <2>1, <2>2 DEF Durability, KeptSafe
    <3> QED
      BY <1>0, <3>1, KnownTypes DEF DocumentSafe, SaversCover, DocumentSavedBy
  <2> QED
    BY <1>0, <1>3, <2>1, <2>2, <2>3 DEF Structure, TypeOK
<1> QED
  BY <1>1, <1>2, <1>4, <1>5 DEF Durability


\* Every room is gone and what is owed is in the row.
LEMMA ForgottenSafe ==
  ASSUME ConstantsAssumption, Forget, NEW d \in Document, owed'[d] \subseteq snapshot'[d]
  PROVE  Safe(d)'
<1>1. /\ rooms'[d] = NoRoom
      /\ \A q \in Room : room'[q] = Garbage
      /\ \A t \in Task : flush'[t] = NotFlushing
  BY DEF Forget
<1>2. Garbage.document_id # d /\ NotFlushing.step # "saving"
  BY DEF Garbage, NewRoom, NotFlushing, ConstantsAssumption
<1>3. SaversCover(d, NoRoom, room', flush', snapshot'[d]) /\ DetachedClean(d, NoRoom, room')
  BY <1>1, <1>2 DEF SaversCover, DetachedClean
<1> QED
  BY <1>1, <1>3 DEF Safe, DocumentSafe

LEMMA TickSafe ==
  ASSUME ConstantsAssumption, Structure, NEW d \in Document, Safe(d), LoopTick
  PROVE  Safe(d)'
<1>0. /\ rooms[d] \in Room \cup {NoRoom} /\ FlushLoop \in Task
      /\ room \in [Room -> RoomType] /\ flush \in [Task -> FlushType]
      /\ snapshot[d] \in SUBSET Update /\ owed[d] \in SUBSET Update
      /\ \A s \in Task : flush[s].step = "saving" => flush[s].room \in Room
      /\ flush[FlushLoop].step = "none"
  BY KnownTypes, TaskTypes DEF LoopTick, NotFlushing
<1>1. Advanced(Registered, room) /\ UNCHANGED <<rooms, snapshot, owed>>
  BY KnownTypes, RegisteredRooms, AdvanceEffect DEF LoopTick, database, history
<1>2. \A s \in Task \ {FlushLoop} : flush'[s] = flush[s]
  BY <1>1 DEF Advanced
<1>3. CASE flush'[FlushLoop] = NotFlushing /\ room' = room
  <2>1. flush[FlushLoop].step # "saving" /\ flush'[FlushLoop].step # "saving"
    BY <1>0, <1>3 DEF NotFlushing
  <2> QED
    BY <1>0, <1>1, <1>2, <1>3, <2>1, SafeMove DEF Safe
<1>4. ASSUME NEW q \in Registered, NeedsFlush(room[q]), FlushStarts(FlushLoop, q, room)
      PROVE  Safe(d)'
  <2>1. q \in Room /\ SameHeap(room)
    BY <1>1, RegisteredRooms DEF Advanced
  <2>2. Ready(FlushLoop, q, flush)
    BY <1>0, <1>2 DEF Ready, SavingIn
  <2>3. DocumentSafe(d, rooms[d], room', flush', snapshot[d], owed[d])
    BY <1>0, <1>4, <2>1, <2>2, StartSafe DEF Safe
  <2> QED
    BY <1>1, <2>3 DEF Safe
<1> QED
  BY <1>1, <1>3, <1>4 DEF Advanced

LEMMA ShutdownSafe ==
  ASSUME ConstantsAssumption, Structure, NEW d \in Document, Safe(d),
         NEW q \in Room, ShutdownRoom(q)
  PROVE  Safe(d)'
<1>0. /\ rooms[d] \in Room \cup {NoRoom} /\ Shutdown \in Task
      /\ room \in [Room -> RoomType] /\ flush \in [Task -> FlushType]
      /\ snapshot[d] \in SUBSET Update /\ owed[d] \in SUBSET Update
      /\ \A s \in Task : flush[s].step = "saving" => flush[s].room \in Room
      /\ flush[Shutdown].step = "none"
      /\ UNCHANGED <<rooms, snapshot, owed>>
  BY KnownTypes, TaskTypes DEF ShutdownRoom, NotFlushing, database, history
<1>1. CASE UNCHANGED <<room, flush>>
  BY <1>0, <1>1 DEF Safe
<1>2. CASE NeedsFlush(room[q]) /\ EnterFlush(Shutdown, q, room)
  <2>1. /\ SameHeap(room) /\ FlushStarts(Shutdown, q, room)
        /\ \A s \in Task \ {Shutdown} : flush'[s] = flush[s]
    BY <1>0, <1>2, EnterFlushEffect
  <2>2. Ready(Shutdown, q, flush)
    BY <1>0, <2>1 DEF Ready, SavingIn
  <2>3. DocumentSafe(d, rooms[d], room', flush', snapshot[d], owed[d])
    BY <1>0, <1>2, <2>1, <2>2, StartSafe DEF Safe
  <2> QED
    BY <1>0, <2>3 DEF Safe
<1> QED
  BY <1>1, <1>2 DEF ShutdownRoom

LEMMA CancelSafe ==
  ASSUME ConstantsAssumption, Structure,
         NEW d \in Document, d \in Kept', Safe(d), CancelTasks
  PROVE  Safe(d)'
<1>0. /\ rooms[d] \in Room \cup {NoRoom} /\ NoRoom \notin Room /\ FlushLoop \in Task
      /\ rooms[d] # NoRoom => room[rooms[d]].document_id = d
      /\ flush \in [Task -> FlushType]
      /\ \A s \in Task : flush[s].step = "saving" => flush[s].room \in Room
      /\ UNCHANGED <<rooms, room, snapshot, owed>>
  BY KnownTypes, TaskTypes DEF CancelTasks, database, memory
<1>1. /\ flush'[FlushLoop].step # "saving"
      /\ \A s \in Task \ {FlushLoop} : flush'[s] = flush[s]
  BY <1>0 DEF CancelTasks, NotFlushing
<1>2. flush[FlushLoop].step = "saving" => room[flush[FlushLoop].room].document_id # d
  BY DEF CancelTasks, Kept, DocumentSavedBy
<1>3. \A s \in Task : flush'[s].step = "saving" => flush'[s] = flush[s] /\ flush[s].room \in Room
  BY <1>0, <1>1
<1>4. \A s \in Task : SavingIn(flush, s, rooms[d]) => flush'[s] = flush[s]
  BY <1>0, <1>1, <1>2 DEF SavingIn
<1>5. DocumentSafe(d, rooms[d], room, flush', snapshot[d], owed[d])
  BY <1>0, <1>3, <1>4, SafeFrame DEF Safe
<1> QED
  BY <1>0, <1>5 DEF Safe

\* Exit only lets go, unnoticed, of rooms the row contains.
LEMMA ExitSafe ==
  ASSUME ConstantsAssumption, Structure, Deletion,
         NEW d \in Document, d \in Kept', Safe(d), Exit
  PROVE  Safe(d)'
<1>1. d \in exists /\ d \notin LeftUnsaved /\ UNCHANGED <<snapshot, owed>>
  BY DEF Exit, Kept, database
<1>2. CASE rooms[d] = NoRoom
  BY <1>1, <1>2, ForgottenSafe DEF Exit, Safe, DocumentSafe
<1>3. CASE rooms[d] # NoRoom
  <2>1. ~NeedsFlush(room[rooms[d]]) /\ \A t \in Task : ~Saving(t, rooms[d])
    BY <1>1, <1>3 DEF LeftUnsaved
  <2>2. ~room[rooms[d]].deleted
    BY <1>1, <1>3, KnownTypes DEF Deletion, DeletedIsGone
  <2>3. RoomMatchesRow(rooms[d], room, flush, snapshot[d], owed[d])
    BY <1>3 DEF Safe, DocumentSafe
  <2>4. owed[d] \subseteq snapshot[d]
    BY <2>1, <2>2, <2>3 DEF NeedsFlush, RoomMatchesRow, Saving, SavingIn
  <2> QED
    BY <1>1, <2>4, ForgottenSafe DEF Exit
<1> QED
  BY <1>2, <1>3

LEMMA HandleDeletedSafe ==
  ASSUME ConstantsAssumption, Structure, NEW d \in Document, Safe(d),
         NEW e \in Document, HandleDeleted(e)
  PROVE  Safe(d)'
<1>1. UNCHANGED <<rooms, flush, snapshot, owed>>
  BY DEF HandleDeleted, database, tasks, history
<1>2. CASE rooms[e] = NoRoom
  BY <1>1, <1>2 DEF HandleDeleted, Safe
<1>3. CASE rooms[e] # NoRoom
  <2>1. rooms[e] \in Room /\ room \in [Room -> RoomType] /\ room' = MarkDeleted(rooms[e])
    BY <1>3, KnownTypes DEF HandleDeleted
  <2>2. \A p \in Room : /\ room'[p].document_id = room[p].document_id
                        /\ room'[p].doc = room[p].doc
                        /\ room'[p].dirty = room[p].dirty
    BY <2>1, MarkEffect DEF SameOccupants
  <2>3. DocumentSafe(d, rooms[d], room', flush, snapshot[d], owed[d])
    BY <2>2, SameContentSafe
  <2> QED
    BY <1>1, <2>3 DEF Safe
<1> QED
  BY <1>2, <1>3

LEMMA ProcessDurability ==
  ASSUME ConstantsAssumption, Structure, Deletion, Durability,
         \/ LoopTick
         \/ \E d \in Document : DeleteDocument(d) \/ HandleDeleted(d)
         \/ BeginStop \/ CancelTasks \/ (\E r \in Room : ShutdownRoom(r)) \/ Exit
         \/ Crash \/ Restart
  PROVE  Durability'
<1>0. /\ exists' \subseteq exists /\ abandoned \subseteq abandoned'
      /\ flush \in [Task -> FlushType] /\ room \in [Room -> RoomType]
      /\ FlushLoop \in Task /\ Shutdown \in Task
  BY KnownTypes, TaskTypes
     DEF LoopTick, DeleteDocument, HandleDeleted, BeginStop, CancelTasks, ShutdownRoom, Exit,
         Crash, Restart, database, memory, history
<1>1. \A d \in Kept' : d \in Document /\ d \in Kept /\ Safe(d)
  BY <1>0 DEF Kept, Structure, TypeOK, Durability, KeptSafe, Safe
<1>2. \A d \in Kept' : Safe(d)'
  <2> SUFFICES ASSUME NEW d \in Kept' PROVE Safe(d)'
    OBVIOUS
  <2>1. d \in Document /\ d \in Kept /\ Safe(d)
    BY <1>1
  <2>2. CASE BeginStop \/ Restart
    BY <2>1, <2>2 DEF BeginStop, Restart, Safe, database, memory, tasks, history
  <2>3. ASSUME NEW e \in Document, DeleteDocument(e)
        PROVE  Safe(d)'
    <3>1. d # e
      BY <2>3 DEF Kept, DeleteDocument
    <3> QED
      BY <2>1, <2>3, <3>1 DEF DeleteDocument, Safe, memory, tasks, Structure, TypeOK
  <2>4. CASE Crash
    BY <2>1, <2>4, ForgottenSafe DEF Crash, database
  <2> QED
    BY <2>1, <2>2, <2>3, <2>4, TickSafe, HandleDeletedSafe, CancelSafe, ShutdownSafe, ExitSafe
<1>3. KeptSafe'
  BY <1>2 DEF KeptSafe, Safe
<1>4. OneSaver'
  <2>1. CASE flush' = flush
    BY <2>1 DEF Durability, OneSaver, Saving
  <2>2. CASE LoopTick
    <3>1. Advanced(Registered, room)
      BY <2>2, KnownTypes, RegisteredRooms, AdvanceEffect DEF LoopTick
    <3>2. \/ flush'[FlushLoop].step # "saving"
          \/ \A s \in Task : flush[s].room # flush'[FlushLoop].room
      BY <3>1, StartsAlone DEF Advanced, NotFlushing
    <3> QED
      BY <1>0, <3>1, <3>2, StartOneSaver DEF Advanced, Durability
  <2>3. ASSUME NEW q \in Room, EnterFlush(Shutdown, q, room)
        PROVE  OneSaver'
    <3>1. /\ FlushStarts(Shutdown, q, room)
          /\ \A s \in Task \ {Shutdown} : flush'[s] = flush[s]
      BY <1>0, <2>3, EnterFlushEffect
    <3> QED
      BY <1>0, <3>1, StartsAlone, StartOneSaver DEF Durability
  <2>4. CASE CancelTasks
    <3>1. /\ flush'[FlushLoop].step # "saving"
          /\ \A s \in Task \ {FlushLoop} : flush'[s] = flush[s]
      BY <1>0, <2>4 DEF CancelTasks, NotFlushing
    <3> QED
      BY <1>0, <3>1, StartOneSaver DEF Durability
  <2>5. CASE Forget
    <3>1. \A t \in Task : flush'[t].step # "saving"
      BY <2>5 DEF Forget, NotFlushing
    <3> QED
      BY <3>1 DEF OneSaver, Saving
  <2> QED
    BY <2>1, <2>2, <2>3, <2>4, <2>5
       DEF DeleteDocument, HandleDeleted, BeginStop, ShutdownRoom, Exit, Crash, Restart, tasks
<1>5. LoadedIsRow'
  <2>1. CASE Forget
    BY <2>1 DEF Forget, LoadedIsRow
  <2>2. CASE /\ UNCHANGED <<pc, loaded>>
             /\ \A d \in Kept' : snapshot'[d] = snapshot[d]
    BY <1>1, <2>2 DEF Durability, LoadedIsRow
  <2>3. CASE snapshot' = snapshot /\ UNCHANGED <<pc, loaded>>
    BY <2>2, <2>3
  <2>4. ASSUME NEW e \in Document, DeleteDocument(e)
        PROVE  LoadedIsRow'
    <3>1. \A d \in Kept' : snapshot'[d] = snapshot[d]
      BY <2>4 DEF Kept, DeleteDocument, Structure, TypeOK
    <3> QED
      BY <2>2, <2>4, <3>1 DEF DeleteDocument, memory
  <2> QED
    BY <2>1, <2>3, <2>4
       DEF LoopTick, HandleDeleted, BeginStop, CancelTasks, ShutdownRoom, Exit, Crash,
           Restart, database, memory
<1>6. GoneIsEmpty'
  <2>1. CASE UNCHANGED <<exists, snapshot, owed>>
    BY <2>1 DEF Durability, GoneIsEmpty
  <2>2. ASSUME NEW e \in Document, DeleteDocument(e)
        PROVE  GoneIsEmpty'
    BY <2>2 DEF DeleteDocument, Durability, GoneIsEmpty, Structure, TypeOK
  <2>3. CASE Crash
    BY <2>3 DEF Crash, Durability, GoneIsEmpty, database
  <2> QED
    BY <2>1, <2>2, <2>3
       DEF LoopTick, HandleDeleted, BeginStop, CancelTasks, ShutdownRoom, Exit, Restart,
           database, history
<1> QED
  BY <1>3, <1>4, <1>5, <1>6 DEF Durability


LEMMA InitDurability ==
  ASSUME ConstantsAssumption, Init
  PROVE  Durability
<1>1. /\ \A d \in Document : rooms[d] = NoRoom /\ snapshot[d] = {} /\ owed[d] = {}
      /\ \A r \in Room : room[r] = Garbage
      /\ \A t \in Task : flush[t] = NotFlushing
      /\ \A c \in Connection : pc[c] = "idle"
      /\ exists = Document
  BY DEF Init
<1>2. NotFlushing.step = "none" /\ Garbage.document_id = NoDocument /\ NoDocument \notin Document
  BY DEF NotFlushing, Garbage, NewRoom, ConstantsAssumption
<1>3. OneSaver
  BY <1>1, <1>2 DEF OneSaver, Saving
<1>4. KeptSafe
  <2> SUFFICES ASSUME NEW d \in Document
               PROVE  DocumentSafe(d, NoRoom, room, flush, {}, {})
    BY <1>1 DEF KeptSafe, Kept
  <2> QED
    BY <1>1, <1>2 DEF DocumentSafe, SaversCover, DetachedClean
<1>5. LoadedIsRow /\ GoneIsEmpty
  BY <1>1 DEF LoadedIsRow, GoneIsEmpty
<1> QED
  BY <1>3, <1>4, <1>5 DEF Durability

LEMMA DurabilityStep ==
  ASSUME ConstantsAssumption, IInv, [Next]_vars
  PROVE  IInv'
<1>1. Structure'
  BY NextStructure DEF IInv
<1>2. CASE UNCHANGED vars
  BY <1>1, <1>2
     DEF IInv, Deletion, DeletedIsGone, EventsGone, Durability, OneSaver, Saving, KeptSafe,
         Kept, LoadedIsRow, GoneIsEmpty, vars, database, memory, tasks, history
<1>3. CASE Next
  <2>1. Deletion'
    BY <1>3, EndpointDeletion, FlushingDeletion, ProcessDeletion DEF Next, IInv
  <2>2. Durability'
    BY <1>3, EndpointDurability, FlushingDurability, ProcessDurability DEF Next, IInv
  <2> QED
    BY <1>1, <2>1, <2>2 DEF IInv
<1> QED
  BY <1>2, <1>3

\* The whole inductive invariant holds.
THEOREM InductiveInvariant == Spec => []IInv
<1>1. Init => IInv
  BY ConstantsAssumption, InitStructure, InitDurability
     DEF IInv, Init, Deletion, DeletedIsGone, EventsGone, Garbage, NewRoom
<1>2. IInv /\ [Next]_vars => IInv'
  BY ConstantsAssumption, DurabilityStep
<1> QED
  BY <1>1, <1>2, PTL DEF Spec

LEMMA InvariantGivesDurability ==
  ASSUME ConstantsAssumption, IInv
  PROVE  NoSilentLoss /\ CleanIsDurable
<1>1. \A d \in Kept : Safe(d) /\ d \in Document
  BY DEF IInv, Durability, KeptSafe, Safe, Kept, Structure, TypeOK
<1>2. NoSilentLoss
  <2> SUFFICES ASSUME NEW d \in Document, d \notin abandoned
               PROVE  owed[d] \subseteq
                        snapshot[d] \cup (IF rooms[d] = NoRoom THEN {} ELSE room[rooms[d]].doc)
    BY DEF NoSilentLoss
  <2>1. CASE d \in exists
    BY <1>1, <2>1 DEF Kept, Safe, DocumentSafe, RoomMatchesRow
  <2>2. CASE d \notin exists
    BY <2>2 DEF IInv, Durability, GoneIsEmpty
  <2> QED
    BY <2>1, <2>2
<1>3. CleanIsDurable
  BY <1>1 DEF CleanIsDurable, Kept, Safe, DocumentSafe, RoomMatchesRow, Saving, SavingIn
<1> QED
  BY <1>2, <1>3

\* However saves fail, arrive late or run beside edits, merged updates are in the
\* live row or in the registered room, unless a room was let go before it was
\* durable (flush, leave, shutdown).
THEOREM NothingLostSilently == Spec => []NoSilentLoss
<1>1. IInv => NoSilentLoss
  BY ConstantsAssumption, InvariantGivesDurability
<1> QED
  BY <1>1, InductiveInvariant, PTL

\* A registered room that is clean and not being saved is in the live row.
THEOREM CleanRoomsAreDurable == Spec => []CleanIsDurable
<1>1. IInv => CleanIsDurable
  BY ConstantsAssumption, InvariantGivesDurability
<1> QED
  BY <1>1, InductiveInvariant, PTL

LEMMA GrowthStep ==
  ASSUME ConstantsAssumption, IInv, [Next]_vars,
         NEW d \in Document, d \in exists' \ abandoned'
  PROVE  snapshot[d] \subseteq snapshot'[d]
<1>1. CASE snapshot' = snapshot
  BY <1>1
<1>2. ASSUME NEW e \in Document, DeleteDocument(e)
      PROVE  snapshot[d] \subseteq snapshot'[d]
  BY <1>2 DEF DeleteDocument, IInv, Structure, TypeOK
<1>3. ASSUME NEW t \in Task, flush[t].step = "saving",
             snapshot' = [snapshot EXCEPT ![DocumentSavedBy(t)] = flush[t].state],
             exists' = exists, abandoned \subseteq abandoned'
      PROVE  snapshot[d] \subseteq snapshot'[d]
  <2>1. d \in Kept
    BY <1>3 DEF Kept
  <2>2. DocumentSavedBy(t) = d => snapshot[d] \subseteq flush[t].state
    BY <1>3, <2>1 DEF IInv, Durability, KeptSafe, DocumentSafe, SaversCover, DocumentSavedBy
  <2> QED
    BY <1>3, <2>2 DEF IInv, Structure, TypeOK
<1>4. ASSUME NEW t \in Task, Flushing(t)
      PROVE  snapshot[d] \subseteq snapshot'[d]
  <2>1. exists' = exists /\ abandoned \subseteq abandoned'
    BY <1>4 DEF Flushing, SaveReturns, AcquireFlushLock, SaveCommits, SaveFindsNoDocument,
                SaveRaises, FlushReturns, Drop, database
  <2> QED
    BY <1>1, <1>3, <1>4, <2>1 DEF Flushing, SaveReturns, AcquireFlushLock, SaveCommits,
                                 SaveFindsNoDocument, SaveRaises, database
<1>5. ASSUME NEW c \in Connection, Endpoint(c)
      PROVE  snapshot[d] \subseteq snapshot'[d]
  BY <1>1, <1>5
     DEF Endpoint, Handshake, Join, JoinExisting, StartLoad, LoadReads, LoadFails,
         LoadReturns, ReceiveUpdate, Disconnect, Leave, LeaveOthers, LeaveClean,
         LeaveFlush, database
<1> QED
  BY <1>1, <1>2, <1>4, <1>5
     DEF Next, LoopTick, HandleDeleted, BeginStop, CancelTasks, ShutdownRoom, Exit, Crash,
         Restart, database, vars

\* The live row of a document only grows (save_state overwrites it with a state
\* that contains it).
THEOREM SnapshotOnlyGrows == Spec => SnapshotGrows
<1>1. IInv /\ [Next]_vars =>
        \A d \in exists' \ abandoned' : snapshot[d] \subseteq snapshot'[d]
  <2> SUFFICES ASSUME IInv, [Next]_vars, NEW d \in exists' \ abandoned'
               PROVE  snapshot[d] \subseteq snapshot'[d]
    OBVIOUS
  <2>1. Structure'
    BY ConstantsAssumption, NextStructure DEF IInv
  <2>2. d \in Document
    BY <2>1 DEF Structure, TypeOK
  <2> QED
    BY <2>2, ConstantsAssumption, GrowthStep
<1> QED
  BY <1>1, InductiveInvariant, PTL DEF Spec, SnapshotGrows

--------------------------------------------------------------------------------
(* The refinement: each step keeps what users see of a document that is not     *)
(* gone, or is the edit, the save or the crash of the abstract MergedDocument.  *)

Content == [d \in Document |-> IF d \in Gone THEN {} ELSE Live(d)]
Durable == [d \in Document |-> IF d \in Gone THEN {} ELSE snapshot[d]]

\* What users see of d, and what is durable of it, stay.
SameDocument(d) == Live(d)' = Live(d) /\ snapshot'[d] = snapshot[d]

Implemented == Abstract!Next \/ UNCHANGED Abstract!vars

LEMMA KeptIsNotGone ==
  ASSUME exists \subseteq Document
  PROVE  \A d \in Document : d \in Kept <=> d \notin Gone
BY DEF Kept, Gone

\* A step that leaves every document that is not gone as it was ends the promise for
\* those that it makes gone, which may be none.
LEMMA EndStep ==
  ASSUME TypeOK, TypeOK', Gone \subseteq Gone',
         \A d \in Document \ Gone' : SameDocument(d)
  PROVE  Implemented
<1>1. PICK ds \in SUBSET Document : ds = Gone' \ Gone
  BY DEF Gone, TypeOK
<1>2. Content' = [d \in Document |-> IF d \in ds THEN {} ELSE Content[d]]
  BY <1>1 DEF Content, SameDocument
<1>3. Durable' = [d \in Document |-> IF d \in ds THEN {} ELSE Durable[d]]
  BY <1>1 DEF Durable, SameDocument
<1>4. Abstract!End(ds)
  BY <1>1, <1>2, <1>3 DEF Abstract!End, Content, Durable
<1> QED
  BY <1>4 DEF Implemented, Abstract!Next

LEMMA EditStep ==
  ASSUME TypeOK, Gone' = Gone, NEW d \in Document, d \notin Gone, NEW u \in Update,
         Live(d)' = Live(d) \cup {u},
         \A e \in Document \ {d} : e \notin Gone => Live(e)' = Live(e),
         snapshot' = snapshot
  PROVE  Implemented
<1>1. Content' = [Content EXCEPT ![d] = Content[d] \cup {u}] /\ Durable' = Durable
  BY DEF Content, Durable
<1>2. Abstract!Edit(d, u)
  BY <1>1 DEF Abstract!Edit, Content, Durable
<1> QED
  BY <1>2 DEF Implemented, Abstract!Next

LEMMA SaveStep ==
  ASSUME TypeOK, Gone' = Gone, NEW d \in Document, d \notin Gone, NEW saved \in SUBSET Update,
         snapshot[d] \subseteq saved, saved \subseteq Live(d),
         snapshot' = [snapshot EXCEPT ![d] = saved],
         \A e \in Document : e \notin Gone => Live(e)' = Live(e)
  PROVE  Implemented
<1>1. Content' = Content /\ Durable' = [Durable EXCEPT ![d] = saved]
  BY DEF Content, Durable, TypeOK
<1>2. Durable[d] \subseteq saved /\ saved \subseteq Content[d]
  BY DEF Durable, Content
<1>3. Abstract!Save(d, saved)
  BY <1>1, <1>2 DEF Abstract!Save, Content, Durable
<1> QED
  BY <1>3 DEF Implemented, Abstract!Next

LEMMA CrashStep ==
  ASSUME TypeOK, Crash
  PROVE  Implemented
<1>1. Gone' = Gone /\ snapshot' = snapshot /\ \A d \in Document : Live(d)' = snapshot[d]
  BY DEF Crash, Forget, database, Gone, Live
<1>2. Content' = Durable /\ Durable' = Durable
  BY <1>1 DEF Content, Durable
<1>3. Abstract!Crash
  BY <1>1, <1>2 DEF Abstract!Crash, Content, Durable
<1> QED
  BY <1>3 DEF Implemented, Abstract!Next

--------------------------------------------------------------------------------
(* What each step does to a document that is not gone. *)

\* The registered room and what is in it stay, and the row of an unregistered document.
LEMMA SameRoomSame ==
  ASSUME ConstantsAssumption, Structure, NEW d \in Document, rooms'[d] = rooms[d],
         \A q \in Room : q = rooms[d] => room'[q].doc = room[q].doc,
         rooms[d] = NoRoom => snapshot'[d] = snapshot[d]
  PROVE  Live(d)' = Live(d)
<1>1. rooms[d] \in Room \cup {NoRoom}
  BY KnownTypes
<1> QED
  BY <1>1 DEF Live

LEMMA LoadSame ==
  ASSUME ConstantsAssumption, Structure, LoadedIsRow, NEW c \in Connection, LoadReturns(c),
         NEW d \in Document, d \in Kept
  PROVE  SameDocument(d)
<1>1. PICK q \in Room :
        /\ Unreferenced(q)
        /\ room' = [room EXCEPT ![q] = NewRoom(DocumentOf[c], loaded, {c})]
        /\ rooms' = [rooms EXCEPT ![DocumentOf[c]] = q]
  BY DEF LoadReturns
<1>2. snapshot' = snapshot
  BY DEF LoadReturns, database
<1>3. CASE d = DocumentOf[c]
  <2>1. rooms[d] = NoRoom /\ loaded = snapshot[d] /\ rooms'[d] = q
    BY <1>1, <1>3 DEF LoadReturns, Structure, TypeOK, LoadingUnregistered, LoadedIsRow
  <2>2. room'[q].doc = loaded /\ q # NoRoom
    BY <1>1, KnownTypes DEF NewRoom
  <2> QED
    BY <1>2, <2>1, <2>2 DEF SameDocument, Live
<1>4. CASE d # DocumentOf[c]
  <2>1. rooms'[d] = rooms[d]
    BY <1>1, <1>4 DEF Structure, TypeOK
  <2>2. \A p \in Room : p = rooms[d] => room'[p] = room[p]
    BY <1>1, KnownTypes DEF Unreferenced, Registered
  <2> QED
    BY <1>2, <2>1, <2>2, SameRoomSame DEF SameDocument
<1> QED
  BY <1>3, <1>4

\* A room that is let go when it is durable holds what the row holds.
LEMMA LeaveSame ==
  ASSUME ConstantsAssumption, Structure, Deletion, NEW c \in Connection, Leave(c),
         NEW d \in Document, d \in Kept', Safe(d)
  PROVE  SameDocument(d)
<1> DEFINE q == at[c]
           k == Discarded(c)
<1>1. pc[c] = "leaving" /\ UNCHANGED <<exists, snapshot>>
  BY DEF Leave, LeaveOthers, LeaveClean, LeaveFlush, LastLeaves, database
<1>2. /\ q \in Room /\ rooms[DocumentOf[c]] = q
      /\ k[q].document_id = DocumentOf[c] /\ k \in [Room -> RoomType]
      /\ k[q].dirty = room[q].dirty
      /\ \A p \in Room : k[p].deleted = room[p].deleted /\ k[p].doc = room[p].doc
  BY <1>1, DiscardedEffect
<1> HIDE DEF k
<1>3. CASE LeaveOthers(c)
  <2>1. room' = k /\ rooms' = rooms
    BY <1>3 DEF LeaveOthers, k
  <2> QED
    BY <1>1, <1>2, <2>1, SameRoomSame DEF SameDocument
<1>4. CASE LeaveClean(c)
  <2>1. /\ ~NeedsFlush(room[q]) /\ room' = k /\ rooms' = Unregister(DocumentOf[c], q)
        /\ abandoned' = IF NotDurable(c, q, k) THEN abandoned \cup {DocumentOf[c]} ELSE abandoned
    BY <1>2, <1>4 DEF LeaveClean, Drop, k
  <2>2. CASE d = DocumentOf[c]
    <3>1. ~k[q].deleted /\ ~NotDurable(c, q, k)
      BY <1>1, <1>2, <2>1, <2>2, DiscardedEffect DEF Kept, Deletion, DeletedIsGone
    <3>2. flush[c].step # "saving"
      BY <1>1 DEF Structure, FlushOwner
    <3>3. ~room[q].dirty /\ \A s \in Task : ~SavingIn(flush, s, q)
      BY <1>2, <3>1, <3>2 DEF NotDurable, Saving, SavingIn
    <3>4. room[q].doc = snapshot[d]
      BY <1>2, <2>2, <3>3, KnownTypes DEF Safe, DocumentSafe, RoomMatchesRow
    <3>5. rooms'[d] = NoRoom /\ rooms[d] = q /\ q # NoRoom
      BY <1>2, <2>1, <2>2, KnownTypes DEF Unregister, Structure, TypeOK
    <3> QED
      BY <1>1, <3>4, <3>5 DEF SameDocument, Live
  <2>3. CASE d # DocumentOf[c]
    <3>1. rooms'[d] = rooms[d]
      BY <2>1, <2>3 DEF Unregister, Structure, TypeOK
    <3> QED
      BY <1>1, <1>2, <2>1, <3>1, SameRoomSame DEF SameDocument
  <2> QED
    BY <2>2, <2>3
<1>5. CASE LeaveFlush(c)
  <2>1. EnterFlush(c, q, k) /\ rooms' = rooms /\ c \in Task
    BY <1>5, TaskTypes DEF LeaveFlush, k
  <2>2. SameHeap(k)
    <3> HIDE DEF q
    <3> QED
      BY <1>2, <2>1, EnterFlushEffect DEF Structure, TypeOK
  <2>3. \A p \in Room : room'[p].doc = room[p].doc
    BY <1>2, <2>2 DEF SameHeap, SameRooms
  <2> QED
    BY <1>1, <2>1, <2>3, SameRoomSame DEF SameDocument
<1> QED
  BY <1>3, <1>4, <1>5 DEF Leave

LEMMA EndpointSame ==
  ASSUME ConstantsAssumption, IInv, NEW c \in Connection, Endpoint(c),
         \A u \in Update : ~ReceiveUpdate(c, u), NEW d \in Document, d \in Kept'
  PROVE  SameDocument(d)
<1>1. /\ UNCHANGED <<exists, snapshot>> /\ abandoned \subseteq abandoned'
  BY DEF Endpoint, Handshake, Join, JoinExisting, StartLoad, LoadReads, LoadFails, LoadReturns,
         Disconnect, Leave, LeaveOthers, LeaveClean, LeaveFlush, Drop, database, history
<1>2. d \in Kept /\ Safe(d)
  BY <1>1 DEF Kept, IInv, Durability, KeptSafe, Safe
<1>3. CASE UNCHANGED <<rooms, room>>
  BY <1>1, <1>3 DEF SameDocument, Live
<1>4. CASE JoinExisting(c)
  <2>1. rooms[DocumentOf[c]] \in Room /\ room \in [Room -> RoomType] /\ rooms' = rooms
    BY <1>4, KnownTypes DEF JoinExisting, ConstantsAssumption, IInv
  <2>2. \A p \in Room : room'[p].doc = room[p].doc
    BY <1>4, <2>1 DEF JoinExisting, RoomType
  <2> QED
    BY <1>1, <2>1, <2>2, SameRoomSame DEF SameDocument, IInv
<1>5. CASE LoadReturns(c)
  BY <1>2, <1>5, LoadSame DEF IInv, Durability
<1>6. CASE Leave(c)
  BY <1>2, <1>6, LeaveSame DEF IInv
<1> QED
  BY <1>3, <1>4, <1>5, <1>6
     DEF Endpoint, Handshake, Join, StartLoad, LoadReads, LoadFails, Disconnect

\* A task whose flush returns lets go of its room only if the row has what is in it; a
\* save that other tasks wait for, or that fails, does not touch what is merged.
LEMMA FlushingLive ==
  ASSUME ConstantsAssumption, IInv, NEW t \in Task, Flushing(t),
         NEW d \in Document, d \in Kept'
  PROVE  Live(d)' = Live(d)
<1> DEFINE q == flush[t].room
<1>1. /\ flush[t].step # "none" /\ exists' = exists /\ abandoned \subseteq abandoned'
  BY DEF Flushing, SaveReturns, AcquireFlushLock, SaveCommits, SaveFindsNoDocument,
         SaveRaises, FlushReturns, Drop, database
<1>2. d \in Kept /\ Safe(d) /\ d \in exists /\ d \notin abandoned' /\ Structure
  BY <1>1 DEF Kept, IInv, Durability, KeptSafe, Safe
<1>3. /\ q \in Room /\ NoRoom \notin Room
      /\ room \in [Room -> RoomType] /\ flush \in [Task -> FlushType]
      /\ todo \in [{FlushLoop, Shutdown} -> SUBSET Room]
      /\ rooms[d] \in Room \cup {NoRoom} /\ rooms \in [Document -> Room \cup {NoRoom}]
      /\ rooms[d] # NoRoom => room[rooms[d]].document_id = d
      /\ ~(rooms[d] # NoRoom /\ room[rooms[d]].deleted)
  BY <1>1, <1>2, KnownTypes DEF IInv, Deletion, DeletedIsGone, Structure, TypeOK
<1>4. rooms[d] = NoRoom => snapshot'[d] = snapshot[d]
  <2>1. flush[t].step = "saving" /\ DocumentSavedBy(t) = d => rooms[d] = q
    BY <1>2 DEF Safe, DocumentSafe, SaversCover, DocumentSavedBy
  <2>2. \/ snapshot' = snapshot
        \/ /\ flush[t].step = "saving"
           /\ snapshot' = [snapshot EXCEPT ![DocumentSavedBy(t)] = flush[t].state]
    BY DEF Flushing, SaveReturns, AcquireFlushLock, SaveCommits, SaveFindsNoDocument,
           SaveRaises, database
  <2> QED
    BY <1>2, <1>3, <2>1, <2>2 DEF Structure, TypeOK
<1>5. CASE rooms' = rooms /\ \A p \in Room : room'[p].doc = room[p].doc
  BY <1>2, <1>4, <1>5, SameRoomSame
<1>6. CASE AcquireFlushLock(t) /\ StartSave(t, q, room) /\ rooms' = rooms
  <2>1. PICK p \in Room : StartSave(t, p, room)
    BY <1>3, <1>6
  <2>2. SameRooms(room', room)
    BY <1>3, <2>1, StartSaveEffect
  <2> QED
    BY <1>5, <1>6, <2>2 DEF SameRooms
<1>7. ASSUME NEW heap \in [Room -> RoomType], FlushReturns(t, heap),
             \A p \in Room : /\ heap[p].doc = room[p].doc
                             /\ heap[p].document_id = room[p].document_id,
             room[q].document_id = d => heap[q].deleted = room[q].deleted,
             \/ heap[q].dirty \/ room[q].document_id # d
             \/ heap = room /\ (AcquireFlushLock(t) \/ SaveCommits(t))
      PROVE  Live(d)' = Live(d)
  <2>1. Returned(t, heap)
    BY <1>3, <1>7, FlushReturnsEffect
  <2>2. CASE t = FlushLoop /\ Advanced(todo[FlushLoop], heap) /\ rooms' = rooms
    BY <1>5, <1>7, <2>2 DEF Advanced, SameHeap, SameRooms
  <2>3. CASE room' = heap /\ rooms' = rooms
    BY <1>5, <1>7, <2>3
  <2>4. CASE t \in Connection /\ LetGo(t, heap)
    <3>1. /\ at[t] = q /\ rooms[DocumentOf[t]] = q /\ room[q].document_id = DocumentOf[t]
          /\ DocumentOf[t] \in Document
      BY <1>1, <1>2, <2>4, StartedRoom DEF ConstantsAssumption
    <3>2. CASE d # DocumentOf[t]
      <4>1. rooms'[d] = rooms[d] /\ room' = heap
        BY <1>3, <1>7, <2>4, <3>1, <3>2 DEF LetGo, Unregister
      <4> QED
        BY <1>2, <1>4, <1>7, <4>1, SameRoomSame
    <3>3. CASE d = DocumentOf[t]
      <4>1. ~NotDurable(t, q, heap) /\ rooms'[d] = NoRoom /\ rooms[d] = q
        BY <1>2, <1>3, <1>7, <2>4, <3>1, <3>3 DEF LetGo, Unregister
      <4>2. heap[q].document_id = d /\ room[q].document_id = d /\ rooms[d] # NoRoom
        BY <1>3, <1>7, <3>1, <3>3, <4>1
      <4>3. ~heap[q].dirty /\ \A s \in Task \ {t} : ~SavingIn(flush, s, q)
        <5>1. ~heap[q].deleted
          BY <1>3, <1>7, <4>1, <4>2
        <5> QED
          BY <4>1, <5>1 DEF NotDurable, Saving, SavingIn
      <4>4. ~room[q].dirty
        BY <1>7, <4>2, <4>3
      <4>5. room[q].doc = snapshot'[d]
        <5>1. CASE AcquireFlushLock(t)
          <6>1. flush[t].step # "saving" /\ snapshot' = snapshot
            BY <5>1 DEF AcquireFlushLock, database
          <6>2. \A s \in Task : ~SavingIn(flush, s, q)
            BY <4>3, <6>1 DEF SavingIn
          <6> QED
            BY <1>2, <1>3, <4>1, <4>2, <4>4, <6>1, <6>2 DEF Safe, DocumentSafe, RoomMatchesRow
        <5>2. CASE SaveCommits(t)
          <6>1. flush[t].step = "saving" /\ snapshot'[d] = flush[t].state
            BY <1>2, <4>2, <5>2 DEF SaveCommits, DocumentSavedBy, Structure, TypeOK
          <6>2. flush[t].state = room[q].doc
            BY <1>2, <4>1, <4>2, <4>4, <6>1 DEF Safe, DocumentSafe, SaversCover
          <6> QED
            BY <6>1, <6>2
        <5> QED
          BY <1>7, <4>2, <4>3, <5>1, <5>2
      <4> QED
        BY <4>1, <4>2, <4>5 DEF Live
    <3> QED
      BY <3>2, <3>3
  <2> QED
    BY <2>1, <2>2, <2>3, <2>4 DEF Returned
<1>8. CASE SaveFindsNoDocument(t)
  <2>1. room[q].document_id # d /\ FlushReturns(t, MarkDeleted(q))
    BY <1>2, <1>8 DEF SaveFindsNoDocument, DocumentSavedBy
  <2>2. /\ MarkDeleted(q) \in [Room -> RoomType]
        /\ \A p \in Room : /\ MarkDeleted(q)[p].doc = room[p].doc
                           /\ MarkDeleted(q)[p].document_id = room[p].document_id
    BY <1>3, MarkEffect DEF SameOccupants
  <2> HIDE DEF q
  <2> QED
    BY <1>7, <2>1, <2>2
<1>9. CASE SaveRaises(t)
  <2>1. FlushReturns(t, MarkDirty(q))
    BY <1>9 DEF SaveRaises
  <2>2. /\ MarkDirty(q) \in [Room -> RoomType] /\ MarkDirty(q)[q].dirty
        /\ \A p \in Room : /\ MarkDirty(q)[p].doc = room[p].doc
                           /\ MarkDirty(q)[p].document_id = room[p].document_id
    BY <1>3, MarkEffect DEF SameOccupants
  <2>3. MarkDirty(q)[q].deleted = room[q].deleted
    BY <1>3, MarkEffect
  <2> HIDE DEF q
  <2> QED
    BY <1>7, <2>1, <2>2, <2>3
<1>10. CASE SaveCommits(t)
  BY <1>3, <1>7, <1>10 DEF SaveCommits
<1>11. CASE AcquireFlushLock(t) /\ FlushReturns(t, room)
  BY <1>3, <1>7, <1>11
<1> QED
  BY <1>6, <1>8, <1>9, <1>10, <1>11 DEF Flushing, SaveReturns, AcquireFlushLock

LEMMA ForgottenLive ==
  ASSUME NEW d \in Document, Forget
  PROVE  Live(d)' = snapshot'[d]
BY DEF Forget, Live

LEMMA ProcessSame ==
  ASSUME ConstantsAssumption, IInv, NEW d \in Document, d \in Kept',
         \/ LoopTick
         \/ \E e \in Document : DeleteDocument(e) \/ HandleDeleted(e)
         \/ BeginStop \/ CancelTasks \/ (\E r \in Room : ShutdownRoom(r)) \/ Exit
         \/ Restart
  PROVE  SameDocument(d)
<1>1. /\ exists' \subseteq exists /\ abandoned \subseteq abandoned' /\ Structure
      /\ flush \in [Task -> FlushType] /\ room \in [Room -> RoomType]
      /\ FlushLoop \in Task /\ Shutdown \in Task
  BY KnownTypes, TaskTypes
     DEF IInv, LoopTick, DeleteDocument, HandleDeleted, BeginStop, CancelTasks, ShutdownRoom,
         Exit, Restart, database, memory, history
<1>2. d \in exists /\ d \notin abandoned' /\ Safe(d)
  BY <1>1 DEF Kept, IInv, Durability, KeptSafe, Safe
<1>3. ASSUME rooms' = rooms, snapshot'[d] = snapshot[d],
             \A q \in Room : room'[q].doc = room[q].doc
      PROVE  SameDocument(d)
  BY <1>1, <1>3, SameRoomSame DEF SameDocument
<1>4. CASE BeginStop \/ CancelTasks \/ Restart
  BY <1>4, <1>3 DEF BeginStop, CancelTasks, Restart, database, memory
<1>5. ASSUME NEW e \in Document, DeleteDocument(e)
      PROVE  SameDocument(d)
  <2>1. d # e
    BY <1>2, <1>5 DEF DeleteDocument, Kept
  <2> QED
    BY <1>1, <1>3, <1>5, <2>1 DEF DeleteDocument, memory, Structure, TypeOK
<1>6. ASSUME NEW e \in Document, HandleDeleted(e)
      PROVE  SameDocument(d)
  <2>1. UNCHANGED <<rooms, snapshot>>
    BY <1>6 DEF HandleDeleted, database
  <2>2. CASE rooms[e] = NoRoom
    BY <1>3, <1>6, <2>1, <2>2 DEF HandleDeleted
  <2>3. CASE rooms[e] # NoRoom
    <3>1. rooms[e] \in Room /\ room' = MarkDeleted(rooms[e])
      BY <1>1, <1>6, <2>3, KnownTypes DEF HandleDeleted
    <3>2. \A q \in Room : room'[q].doc = room[q].doc
      BY <1>1, <3>1, MarkEffect
    <3> QED
      BY <1>3, <2>1, <3>2
  <2> QED
    BY <2>2, <2>3
<1>7. CASE LoopTick
  <2>1. Advanced(Registered, room) /\ UNCHANGED <<rooms, snapshot>>
    BY <1>1, <1>7, KnownTypes, RegisteredRooms, AdvanceEffect DEF LoopTick, database
  <2> QED
    BY <1>3, <2>1 DEF Advanced, SameHeap, SameRooms
<1>8. ASSUME NEW q \in Room, ShutdownRoom(q)
      PROVE  SameDocument(d)
  <2>1. UNCHANGED <<rooms, snapshot>>
    BY <1>8 DEF ShutdownRoom, database
  <2>2. CASE room' = room
    BY <1>3, <2>1, <2>2
  <2>3. CASE EnterFlush(Shutdown, q, room)
    <3>1. SameHeap(room)
      BY <1>1, <2>3, EnterFlushEffect
    <3> QED
      BY <1>3, <2>1, <3>1 DEF SameHeap, SameRooms
  <2> QED
    BY <1>8, <2>2, <2>3 DEF ShutdownRoom
<1>9. CASE Exit
  <2>1. snapshot' = snapshot /\ d \notin LeftUnsaved
    BY <1>2, <1>9 DEF Exit, database
  <2>2. Live(d)' = snapshot[d]
    BY <1>9, <2>1, ForgottenLive DEF Exit
  <2>3. CASE rooms[d] = NoRoom
    BY <2>1, <2>2, <2>3 DEF SameDocument, Live
  <2>4. CASE rooms[d] # NoRoom
    <3>1. ~NeedsFlush(room[rooms[d]]) /\ \A t \in Task : ~SavingIn(flush, t, rooms[d])
      BY <2>1, <2>4 DEF LeftUnsaved, Saving, SavingIn
    <3>2. ~room[rooms[d]].deleted
      BY <1>1, <1>2, <2>4, KnownTypes DEF IInv, Deletion, DeletedIsGone
    <3>3. room[rooms[d]].doc = snapshot[d]
      BY <1>2, <2>4, <3>1, <3>2 DEF NeedsFlush, Safe, DocumentSafe, RoomMatchesRow
    <3> QED
      BY <2>1, <2>2, <2>4, <3>3 DEF SameDocument, Live
  <2> QED
    BY <2>3, <2>4
<1> QED
  BY <1>4, <1>5, <1>6, <1>7, <1>8, <1>9

--------------------------------------------------------------------------------
(* The steps of the room manager, as steps of the abstract document. *)

LEMMA UpdateImplemented ==
  ASSUME ConstantsAssumption, IInv, TypeOK', NEW c \in Connection, NEW u \in Update,
         ReceiveUpdate(c, u)
  PROVE  Implemented
<1> DEFINE d == DocumentOf[c]
<1>1. /\ TypeOK /\ at[c] \in Room /\ rooms[d] = at[c] /\ d \in Document
      /\ room[at[c]].document_id = d /\ NoRoom \notin Room
      /\ \A e \in Document : rooms[e] # NoRoom => room[rooms[e]].document_id = e
  BY KnownTypes DEF IInv, ReceiveUpdate, Structure, SharedRoom, ConstantsAssumption
<1>2. UNCHANGED <<rooms, snapshot>> /\ Gone' = Gone
  BY DEF ReceiveUpdate, database, Gone
<1>3. /\ \A p \in Room \ {at[c]} : room'[p] = room[p]
      /\ room'[at[c]].doc = room[at[c]].doc \cup {u}
  <2>1. room' = [room EXCEPT ![at[c]] = Edited(room[at[c]], u)] /\ room \in [Room -> RoomType]
    BY <1>1 DEF ReceiveUpdate, TypeOK
  <2> QED
    BY <1>1, <2>1, EditedEffect
<1>4. Live(d)' = Live(d) \cup {u}
  BY <1>1, <1>2, <1>3 DEF Live
<1>5. ASSUME NEW e \in Document \ {d}
      PROVE  SameDocument(e)
  <2>1. \A p \in Room : p = rooms[e] => room'[p].doc = room[p].doc
    BY <1>1, <1>3
  <2> HIDE DEF d
  <2> QED
    BY <1>2, <2>1, SameRoomSame DEF SameDocument, IInv
<1> HIDE DEF d
<1>6. CASE d \in Gone
  BY <1>1, <1>2, <1>5, <1>6, EndStep
<1>7. CASE d \notin Gone
  BY <1>1, <1>2, <1>4, <1>5, <1>7, EditStep DEF SameDocument
<1> QED
  BY <1>6, <1>7

LEMMA FlushingImplemented ==
  ASSUME ConstantsAssumption, IInv, TypeOK', NEW t \in Task, Flushing(t)
  PROVE  Implemented
<1> DEFINE d == DocumentSavedBy(t)
<1>1. /\ flush[t].step # "none" /\ exists' = exists /\ abandoned \subseteq abandoned'
      /\ TypeOK /\ Structure
  BY DEF Flushing, SaveReturns, AcquireFlushLock, SaveCommits, SaveFindsNoDocument,
         SaveRaises, FlushReturns, Drop, database, IInv, Structure
<1>2. Gone \subseteq Gone' /\ \A e \in Document : e \in Kept' <=> e \notin Gone'
  BY <1>1 DEF Gone, Kept
<1>3. \A e \in Document : e \notin Gone' => Live(e)' = Live(e)
  BY <1>2, FlushingLive
<1>4. CASE snapshot' = snapshot
  BY <1>1, <1>2, <1>3, <1>4, EndStep DEF SameDocument
<1>5. CASE flush[t].step = "saving" /\ snapshot' = [snapshot EXCEPT ![d] = flush[t].state]
  <2>1. d \in Document /\ flush[t].state \in SUBSET Update
    BY <1>1, StartedRoom DEF DocumentSavedBy, TypeOK, FlushType
  <2>2. CASE d \in Gone'
    <3>1. \A e \in Document : e \notin Gone' => snapshot'[e] = snapshot[e]
      BY <1>1, <1>5, <2>2 DEF TypeOK
    <3> QED
      BY <1>1, <1>2, <1>3, <3>1, EndStep DEF SameDocument
  <2>3. CASE d \notin Gone'
    <3>1. d \in Kept /\ d \notin abandoned' /\ Safe(d) /\ d \notin Gone
      BY <1>1, <1>2, <2>1, <2>3 DEF Kept, Gone, IInv, Durability, KeptSafe, Safe
    <3>2. abandoned' = abandoned
      <4>1. t \in Connection => at[t] = flush[t].room
        BY <1>1, StartedRoom
      <4>2. ASSUME NEW heap \in [Room -> RoomType], FlushReturns(t, heap),
                   heap[flush[t].room].document_id = d
            PROVE  abandoned' = abandoned
        BY <3>1, <4>1, <4>2 DEF FlushReturns, Drop
      <4>3. flush[t].room \in Room /\ room \in [Room -> RoomType]
        BY <1>1, StartedRoom DEF TypeOK
      <4>4. /\ MarkDirty(flush[t].room) \in [Room -> RoomType]
            /\ MarkDirty(flush[t].room)[flush[t].room].document_id = d
            /\ MarkDeleted(flush[t].room) \in [Room -> RoomType]
            /\ MarkDeleted(flush[t].room)[flush[t].room].document_id = d
        BY <4>3, MarkEffect DEF SameOccupants, DocumentSavedBy
      <4>5. room[flush[t].room].document_id = d
        BY DEF DocumentSavedBy
      <4> HIDE DEF d
      <4> QED
        BY <1>5, <4>2, <4>3, <4>4, <4>5
           DEF Flushing, SaveReturns, AcquireFlushLock, SaveCommits, SaveFindsNoDocument, SaveRaises
    <3>3. Gone' = Gone
      BY <1>1, <3>2 DEF Gone
    <3>4. /\ snapshot[d] \subseteq flush[t].state /\ rooms[d] = flush[t].room
          /\ flush[t].state \subseteq room[rooms[d]].doc
      BY <1>5, <3>1 DEF Safe, DocumentSafe, SaversCover, DocumentSavedBy
    <3>5. rooms[d] # NoRoom
      BY <1>1, <3>4, StartedRoom DEF ConstantsAssumption
    <3> HIDE DEF d
    <3> QED
      BY <1>1, <1>3, <1>5, <2>1, <3>1, <3>3, <3>4, <3>5, SaveStep DEF Live
  <2> QED
    BY <2>2, <2>3
<1> QED
  BY <1>4, <1>5
     DEF Flushing, SaveReturns, AcquireFlushLock, SaveCommits, SaveFindsNoDocument, SaveRaises,
         database

LEMMA StepImplemented ==
  ASSUME ConstantsAssumption, IInv, [Next]_vars
  PROVE  Implemented
<1>1. TypeOK /\ TypeOK'
  BY NextStructure DEF IInv, Structure
<1>2. ASSUME \A d \in Document : d \in Kept' => SameDocument(d),
             exists' \subseteq exists, abandoned \subseteq abandoned'
      PROVE  Implemented
  BY <1>1, <1>2, EndStep DEF Gone, Kept
<1>3. CASE UNCHANGED vars
  BY <1>2, <1>3 DEF vars, database, memory, history, SameDocument, Live
<1>4. ASSUME NEW c \in Connection, Endpoint(c)
      PROVE  Implemented
  <2>1. CASE \E u \in Update : ReceiveUpdate(c, u)
    BY <1>1, <2>1, UpdateImplemented
  <2>2. CASE \A u \in Update : ~ReceiveUpdate(c, u)
    <3>1. exists' \subseteq exists /\ abandoned \subseteq abandoned'
      BY <1>4 DEF Endpoint, Handshake, Join, JoinExisting, StartLoad, LoadReads, LoadFails,
                  LoadReturns, ReceiveUpdate, Disconnect, Leave, LeaveOthers, LeaveClean,
                  LeaveFlush, Drop, database, history
    <3> QED
      BY <1>2, <1>4, <2>2, <3>1, EndpointSame
  <2> QED
    BY <2>1, <2>2
<1>5. ASSUME NEW t \in Task, Flushing(t)
      PROVE  Implemented
  BY <1>1, <1>5, FlushingImplemented
<1>6. CASE Crash
  BY <1>1, <1>6, CrashStep
<1>7. CASE \/ LoopTick
           \/ \E e \in Document : DeleteDocument(e) \/ HandleDeleted(e)
           \/ BeginStop \/ CancelTasks \/ (\E r \in Room : ShutdownRoom(r)) \/ Exit
           \/ Restart
  <2>1. exists' \subseteq exists /\ abandoned \subseteq abandoned'
    BY <1>7 DEF LoopTick, DeleteDocument, HandleDeleted, BeginStop, CancelTasks, ShutdownRoom,
                Exit, Restart, database, memory, history
  <2> QED
    BY <1>2, <1>7, <2>1, ProcessSame
<1> QED
  BY <1>3, <1>4, <1>5, <1>6, <1>7 DEF Next

LEMMA InitImplemented ==
  ASSUME ConstantsAssumption, Init
  PROVE  Abstract!Init
<1>1. Gone = {} /\ \A d \in Document : Live(d) = {} /\ snapshot[d] = {}
  BY DEF Init, Gone, Live
<1> QED
  BY <1>1 DEF Abstract!Init

\* Every behaviour of the room manager is one of the abstract document: joins, leaves,
\* flushes and the periodic loop change nothing that users see, an update is an edit, a
\* committed save is a save, and only deletion, or letting a room go too early, ends the
\* promise for a document.
THEOREM RefinesMergedDocument == Spec => ImplementsMergedDocument
<1>1. Init => Abstract!Init
  BY ConstantsAssumption, InitImplemented
<1>2. IInv /\ [Next]_vars => [Abstract!Next]_(Abstract!vars)
  BY ConstantsAssumption, StepImplemented DEF Implemented
<1> QED
  BY <1>1, <1>2, InductiveInvariant, PTL DEF Spec, ImplementsMergedDocument, Abstract!Spec

================================================================================
