# Synchronic: specifications, model checking and proofs

Synchronic is a collaborative editor: a sync server that keeps one Yjs document per
open room (`apps/server/sync`), a REST API for accounts, documents and sharing
(`apps/server/api`), and a React client (`apps/client`). Postgres holds documents,
permissions and one live snapshot row per document; Redis carries permission events,
refresh tokens and rate limits.

The modules here model the parts whose correctness depends on the order in which things
happen: rooms and their persistence, the relay of edits, how a change of access reaches
open sockets, who is shown as present, overlapping requests of the sharing API, accounts
and the login limiter, a tab's sign-in, and the page of a document. TLC checks
small instances; TLAPS proves the main results for every instance.

Paths below leave out `src/`; `rooms.py`, `main.py`, `access.py` and `protocol.py` are in
`apps/server/sync`, `documents.py`, `auth.py` in `apps/server/api/routers`.

## 1. Inventory

| Component | State | Operations | Interacts with | What is hard | What makes it correct | Status |
|---|---|---|---|---|---|---|
| Rooms (`rooms.py` RoomManager, `main.py` lifespan, `access.py` load/save) | `rooms`, `Room.doc/connections/dirty/deleted`, `_lock`, `flush_lock`s; snapshot row | join, leave, flush, flush_loop, shutdown, deleted event | endpoints call join and leave; Postgres; the API deletes documents | every `await` lets others run; crash, stop, failing calls | one room per document; no merged edit lost silently; `dirty` truthful; the row only grows | modelled |
| Relay and presence (`rooms.py` Connection, Room; `protocol.py`) | send queues, `closing`, `awareness_clients`, `last_awareness` | send, close, handle_message, announce_departure, writer | y-websocket in the page; rooms | bounded queues, frames in flight, reconnects | a lasting socket misses nothing; offline edits arrive; readers change nothing; no ghost cursors | modelled (Relay, Presence) |
| Live access (`rooms.py` revalidate, listener, timer; handshake) | `Connection.role`, events | handle_permission_event, revalidate, revalidate_loop | API via Redis pub/sub; Postgres | look-ups suspend, two tasks look up; lost events | a session with an old role is found and closed | modelled |
| Role arithmetic (`roles.py`, two copies) | none | compute_role, has_role | both servers | null roles, ties | highest of permission and link role | modelled |
| Sharing API (`documents.py`, `permissions.py`, `redis_client.py`) | documents, document_permissions rows | update, delete, grant, revoke, transfer | publishes events | READ COMMITTED, row locks, failure between commit and publish | every changed user is told; rows agree with the owner; rows go with the document | modelled but for titles and reads |
| Wire protocol (`protocol.py`) | none | varints, frames, awareness payloads | relay | lengths, truncated input | what is written is read back | frames as records; bytes not modelled |
| Accounts (`auth.py`, `security.py`) | users, refresh allowlist, login counters | register, login, refresh, logout, limiter | client | two Redis calls that belong together; register races | a revoked token mints nothing; one account per address; a limit ends | modelled (Accounts, Sessions) |
| Client tokens (`tokens.ts`, `api.ts`, `state/auth.ts`) | stored tokens, refresh in flight, user and status | request, refresh, login, logout, init | accounts | replies that arrive after the session changed | the tab shows whose tokens it uses; no call hangs | modelled (one tab) |
| Client session (`useCollabSession.ts`, `DocumentPage.tsx`) | Y.Doc, provider, role of the page | effect and its clean-up, token timer, role re-fetch | relay, tokens | cleaned up while awaiting; replies out of order | one provider per page; the page shows the current role | modelled but for the token timer, saving badge and peer list |
| User directory, start-up, health, views, deployment | little or none | queries, forms, configuration | | | | not modelled |

PROJECT.json lists the same components with their files, and under "hazards" the places
where this code is hard to test, each with the properties that watch it, or why none does.

## 2. Modules

| Module | Models | Rests on |
|---|---|---|
| `Roles` | `roles.py`: ROLE_RANK, compute_role, has_role, WRITE_ROLES | |
| `RoomManager` | rooms and their persistence | |
| `MergedDocument` | abstract: a document that grows, is saved, is gone | |
| `RoomManagerProofs` | inductive invariant and theorems of RoomManager; that it implements MergedDocument | RoomManager |
| `LiveAccess`, `LiveAccessProofs` | role look-ups, events, closing; theorems | Roles |
| `DocumentSharing`, `DocumentSharingProofs` | overlapping API requests; theorems | Roles |
| `Relay` | frames between the sockets of one room | |
| `SharedText` | abstract: a text that pages share, without sockets or frames | |
| `RelayProofs` | theorems of Relay; that it implements SharedText | Relay |
| `Presence`, `PresenceProofs` | awareness frames, joiners and departures; theorems | |
| `Accounts`, `AccountsProofs` | registration, login, the login limiter; theorems | |
| `DocumentPage`, `DocumentPageProofs` | a page's document and role, its session, the API and server it meets; theorems | |
| `Sessions`, `SessionsProofs` | one tab's tokens against the refresh allowlist; theorems | |
| `MC*` | small instances: sets of model values, symmetry | the module named |

The servers are asyncio programs: another task runs only at an `await` that suspends. So
an action is the code between two such awaits, and `pc`-like variables name the awaits. In
the API the suspension points are database calls; a transaction of one statement is one
step, a transfer has several because it flushes under a row lock. In the client they are
fetches; a promise's waiters resume in the step that settles it.

Every module contains operators named `Mutant...`: plausible bugs in the operator that
follows, which no behaviour of the specification uses. PROJECT.json pairs each checked
property with one that breaks it.

**RoomManager.** A Yjs document is the set of updates merged into it, so `apply_update` is
a union. `rooms` is `RoomManager.rooms`, `room` the heap of Room objects, `at` what an
endpoint task holds, `flush` each task's call of `flush` with the state it is saving,
`snapshot` the live row, `phase` the process. A join is `Join` (lock free, room present),
or `StartLoad`, `LoadReads`, `LoadReturns` (lock held over the query). A flush is
`StartSave` (clears `dirty` and takes the state), `SaveCommits`/`SaveFindsNoDocument`,
`SaveReturns`; `LastLeaves` runs one under the manager's lock and then drops the room. A
save may commit although its caller is cancelled. `abandoned` records the documents whose
room was dropped before it was durable, `owed` the updates merged and not lost to a crash
or delete. `ServerWaits` says whether the ASGI server ends every endpoint before lifespan
goes on: uvicorn, as the repository starts it (no graceful timeout), does, and the liveness
run assumes it; the safety run does not, so it holds as well under a server that would let
`shutdown()` meet rooms with sockets in them.

**MergedDocument** promises that a document's content only grows by edits, that saving
makes its content durable, and that only a crash takes it back, to what was durable. The
mapping at the end of `RoomManager` reads the content from the registered room, else from the row,
and maps abandoned documents to "gone".

**LiveAccess.** One document, its sockets, the API's commits (`ChangeAccess` sets the roles
and leaves events to publish for those it changed), the listener and the timer, each with
the sockets it has left, the one in hand and the answer it got. A connection is a slot;
each session has its own role. Commits here notify every user they change;
`LoseEvent` stands for a publish that fails, a listener that is reconnecting, and the
omission of overlapping transfers (`displaced`, below).

**DocumentSharing.** A request slot holds its step, what it was asked and what it read.
`Begin` authorises (require_role), the later steps read, lock, write, commit, refresh and
publish. `unaware` records users whose effective role a commit changed and who have not
been named by an event; `displaced` owners replaced by a transfer that had read another
owner.

**Relay.** A page's document is a set of edits (author, index), a state vector what it has
up to each author's first gap. `sent` is the frames of a page the endpoint has not
received, `queue` is `Connection.queue`. Sending to a full queue drops the frame and
leaves a close task in `closer`. A page edits online or offline, reconnects with what it
has, and may still send edits after its role was lowered.

**SharedText** promises that an edit is made once, by its author, that the text takes edits only from
the copies of pages that may write, that a page learns only what is in the text, and that nothing is
taken back. The mapping in `Relay` is direct: the room's document is the text, a page's Y.Doc its copy,
and frames, queues and sockets are gone.

**Sessions.** A session is one login: its refresh token and all access tokens from it.
`call` says where each request is (sent, waiting for the refresh, sent again), `refreshing`
the shared promise with what the API answered but the tab has not yet seen. The user may
sign out, sign in as another or reload at any time, and sign out again before the first
logout is answered if a refresh brought the tokens back; `logging_out` counts the logouts
awaited. `overtaken` is true when the last reply
that set the tokens or the user was made for another session than the one it met.

**Presence.** A page is a y-websocket provider with one awareness client. `meta` and `shown`
are the two maps of its Awareness, `known` and `last` what the server keeps per socket. A
frame the server sends is taken by the page in the step that sends it; its delay shows as
the delay of what the page sends on (`inbox`), which is what the server sees of it. The
manager's lock is a first-come queue (`waiting`), since a joiner that is ahead of a leaver
is the interesting case. y-protocols is outside the repository: `Take` follows what the
client relies on (newer clocks win, an equal clock wins for a removal, a page answers its own
removal with a newer clock, and changes are sent on).

**Accounts.** One counter per address stands for one client address. `Place` names the
awaits; `raced` and `endless` mark an address whose two registrations overlapped and one
whose counter was left without an expiry.

**DocumentPage.** `fetch` holds the requests in flight, each answered by the API in one step
and received in a later one. `provider` is the provider of each document and the role of its
socket; `awaiting` the runs of the effect that wait for a token. React re-renders before the
next event, so `Reply` and `Navigate` include the effect's clean-up and its next run.
A refresh keeps what the page shows if role and title agree, whatever document that is of
(`DocumentPage.tsx:33`). Titles are not in the model: `SetDoc` lets any two agree or differ,
as renames and the default title allow. `missed` and `disordered` mark the two ways in which
what the page shows may stay behind; `disordered` stays set while such a refresh keeps a
document of another URL.

## 3. Runs

| Run | Checks | Instance | Distinct states |
|---|---|---|---|
| RoomSafety | TypeOK, SharedRoom, DeletedIsGone, NoSilentLoss, CleanIsDurable, SnapshotGrows, ImplementsMergedDocument | one document, 3 sockets (2 edit), 2 rooms, 2 updates, deletion, 2 failing calls, 2 crashes or stops | 2.2 M |
| RoomLiveness | JoinCompletes, EventuallyDurable, StopCompletes | 2 sockets, 1 update, 1 failure, 1 crash or stop | 15 k |
| AccessSafety | TypeOK, StaleRoleIsFound | 2 users with a socket each, 2 changes, 1 failure or lost event | 5.1 M |
| AccessLiveness | StaleRoleEnds, EventsAreHandled | 1 socket, 2 changes, 2 lost events or failures | 26 k |
| SharingApi | TypeOK, ChangesArePublished, OwnerRowIsOwners, RowsGoWithDocument, OwnerKeepsRow, RequestsFinish | 3 users, 2 overlapping requests of any kind from any earlier state, 1 failure | 233 k |
| Relay | TypeOK, NoSilentGap, NoEditForgotten, ImplementsSharedText, EditsReachPages, EditsReachRoom | 2 pages, queues of 2, 2 edits, 3 sessions | 140 k |
| Sessions | TypeOK, UserMatchesTokens, SessionEndsForCause, CallsEnd | 2 persons, 2 logins, 2 logouts at once, api.me() of init and login and one other call | 249 k |
| Presence | TypeOK, DepartedAreGone, CursorsConverge | 3 pages, 3 sockets that any of them opens, one page moves its cursor twice | 2.9 M |
| Accounts | TypeOK, OneAccountPerAddress, LockoutEnds | one address in 2 spellings, 3 slots, 5 requests, limit 2, 1 failure | 375 k |
| DocumentPage | TypeOK, OneProvider, RoleReachesPage, RevocationReachesPage | 2 documents, 2 requests in flight, 2 changes of role, 1 navigation, 1 failure | 557 k |
| RoomDurableBeforeDrop, RoomRestart | one statement of a comment each, violated | the smallest that shows it | |

*Why the bounds are enough.* Two rooms are the one in use and the one a late save still
writes; two updates tell an old snapshot from a new one; three sockets give a last leaver,
a joiner and an editor at once, with the flush loop as a fourth task. Two failures and
two stops let a fault meet the traces of an earlier one; the liveness run has one of each. Two changes of access are the least that
make an answer old twice, two users that an event concerns one and not the other. Three
users are an owner, a displaced owner and a new one; with two requests any pair of
endpoints overlaps. In Relay a queue of two is full with the step-1 frame and one more; two
edits of one author are the least that make a gap, and a third session lets a page come
back while the other stays; a variant with edits on both sides (1.2 million states, safety
only) passed as well. In Presence three pages are one that leaves, one that echoed it and one
that heard of it from the other; a page that opens a second socket is among them. In Accounts
five requests pass a limit of two while others clear the counter. In DocumentPage two changes
of role take access and give it back, and two requests are the least that overtake each other. In Sessions two logins give the old and the new session of each race, two logouts one whose answer comes after the next began.
The proofs below remove the bounds for the theorems they state.

*Symmetry* is used in RoomSafety (rooms and updates), AccessSafety (the users together with
their sockets) and Presence (see `MCPresence`), never with liveness.

*Deadlock* is checked in RoomLiveness, the Access runs and Sessions. It is off where the
bounds let the system stop: RoomSafety ends with the process down or everyone gone,
SharingApi and Accounts when the requests are used up, Relay and Presence when the sockets
are, DocumentPage when nothing changes any more.

*Fairness* is that of the code's schedulers. asyncio runs every ready task (WF) and an
`asyncio.Lock` serves waiters in order (SF on acquiring it). Postgres answers or fails and
serves waiters of a row lock (SF on the steps of a request). A stopping uvicorn disconnects
its sockets, and its pings find a dead one: a frame on a socket arrives or the socket is
closed. A fetch ends in an answer or an error, a provider tries again for as long as it exists, and
Redis drops a key whose time has passed. Nothing is assumed of users: no client has
to connect, edit, leave or call. CallsEnd assumes that the page is not
reloaded for ever.

## 4. What the checks show

*Holds.* However joins, leaves, saves, failures, deletions and stops interleave, everyone in
a document is in one room, a room is marked deleted only when its document is gone, and a
clean room is durable. An edit is lost silently only if a crash takes it or a room is
dropped early. Joins and stops end. A session with an outdated role always has a look-up
coming or was missed by an event, and in the second case the timer ends it. Users
whose role a request changes are told, except one displaced by an overlapping transfer.
Slow consumers are closed before they miss anything for good, and offline edits reach the
room: with all its queues, drops and reconnects the relay is a text that pages share
(ImplementsSharedText). Pages agree on who is present. A lockout ends, and a page keeps one provider. A tab
shows the person it acts as unless a reply overtakes a change of session.

*Does not hold*, each with its run and a finding in PROJECT.json:

- `rooms.py:166` "durable before the in-memory copy is dropped": if the periodic save is in
  flight, the last leaver's flush returns at once and the room is dropped before the save
  commits; a new room may be loaded from the old row (RoomDurableBeforeDrop). When the last
  leave's own save fails the room is dropped dirty, and the "next tick" of `rooms.py:182` never
  sees it.
- `main.py:59` "final flush so a restart loses nothing": the flush loop is cancelled first,
  with `dirty` cleared and the save possibly not sent (RoomRestart).

*Holds but for exceptions*, which the invariants name, so that they say there are no others:

- `abandoned`: the rooms let go too early of the two findings.
- `missed` (LiveAccess): an event was lost, a look-up failed, or the event was handled while the
  session was joining. A session may also regain a role it lost for the time its socket takes
  to close: an older answer of the timer is assigned after the listener's newer one, so
  `rooms.py:200` "takes effect on the very next message" is about a socket that is closing, and
  StaleRoleIsFound holds because every assignment closes it.
- `displaced`: the second of two overlapping transfers announces the owner it read, not the one
  it displaces, who gets no event (`documents.py:212`).
- OwnerKeepsRow: a grant or revocation authorised before a transfer may take the new owner's row.
  They remain the owner, but the next transfer finds no row to turn into edit access.
- `overtaken` (Sessions): a refresh answered before a sign-out and received after it stores the
  signed-out session's tokens again (`tokens.ts:58`), which is visible after a reload.
- `haunted`: `protocol.py:123` says that cursors disappear the moment someone disconnects. A
  leaver is announced before it waits for the lock; whoever is ahead of it in the queue joins
  after the announcement and is handed its last frame, a cursor that stays until the 30 s
  timeout of the providers.
- `reopened`: the removal's clock is one ahead of the client's own. A page that reconnects keeps
  its clock, so the others ignore its next frame and show it only from the one after. Removals
  that name clients still connected do no such harm: those answer with a newer clock.
- `raced`: two overlapping registrations of one address in different case both succeed, as the
  unique index compares the e-mail as written; every look-up of it raises from then on.
- `endless`: a request that ends between INCR and EXPIRE leaves a counter that only a login
  can clear, and above the limit none gets that far.
- `missed` and `disordered` (DocumentPage): the comment at `DocumentPage.tsx:24` counts on a
  fetch at each close. A close within 1500 ms of the last refresh starts none (a dropped socket
  followed by a demotion is enough), a change between the fetch and the handshake closes nothing,
  and a late reply overwrites a newer one or is taken for a document the page has left. The page
  then shows a role that is not the user's until the next close. A document the page has left may
  stay longer: `DocumentPage.tsx:33` compares role and title and not the id, so each refresh of the
  URL's document that has the same ones (the default title, say) keeps the other, and saving the
  title or sharing is of that one, until a refresh differs or the user navigates. The server checks
  each write, so only the page is wrong; and revoked access is always noticed (RevocationReachesPage), because
  the provider's rejected handshakes are closes too.

The README's "rotating refresh token" (README.md:79) is not in the code: a refresh returns a new
access token and keeps the refresh token.

## 5. Proofs

All theorems are checked by TLAPS with its SMT, Zenon and LS4 backends, from the named
assumption on the constants of each module alone (`ConstantsAssumption`,
`LiveAccessAssumption`, `SharingAssumption`, `RelayAssumption`, `SessionsAssumption`,
`AccountsAssumption`, `PageAssumption`, `PresenceAssumption`): the constants have their types, the special values
are distinct, and where the code needs it a set or a size is not zero (a queue holds a
frame, a page may have a request in flight; Presence counts sockets, so its sets are finite). The numbers of sockets, users, documents,
requests, edits, failures and crashes are arbitrary.

| Module | Theorem | States |
|---|---|---|
| RoomManagerProofs | TypeCorrect, RoomIsShared, DeletedOnlyWhenGone, NothingLostSilently, CleanRoomsAreDurable, SnapshotOnlyGrows, RefinesMergedDocument | TypeOK, SharedRoom, DeletedIsGone, NoSilentLoss, CleanIsDurable, SnapshotGrows, ImplementsMergedDocument |
| LiveAccessProofs | TypeCorrect, StaleRolesAreFound | TypeOK, StaleRoleIsFound |
| DocumentSharingProofs | TypeCorrect, ChangesPublished, OwnerRows, RowsGo, OwnerRowStays | TypeOK, ChangesArePublished, OwnerRowIsOwners, RowsGoWithDocument, OwnerKeepsRow |
| RelayProofs | TypeCorrect, NothingMissed, NoEditLost, ReadersOnlyRead, RefinesSharedText | TypeOK, NoSilentGap, NoEditForgotten; that readers change nothing; ImplementsSharedText |
| SessionsProofs | TypeCorrect, RightUserShown, NoSessionLost | TypeOK, UserMatchesTokens, SessionEndsForCause |
| AccountsProofs | TypeCorrect, OneAccount, CountersExpire | TypeOK, OneAccountPerAddress, the safety half of LockoutEnds |
| PresenceProofs | TypeCorrect, DepartedGone, CursorsAgree | TypeOK, DepartedAreGone, CursorsConverge |
| DocumentPageProofs | TypeCorrect, ProviderIsOne, PageShowsRole | TypeOK, OneProvider, RoleReachesPage |

Each module also has its inductive invariant as a theorem (`InductiveInvariant`,
`SharingInvariant`). What each adds to the properties, and why they need it:

**RoomManagerProofs.** `IInv` is `Structure /\ Deletion /\ Durability`. *Structure* adds to
SharedRoom what the locks give: the manager's lock has one holder, a document that is being
loaded is not registered, a registered room's sockets are those that point at it, a room in
teardown is empty, room objects are not reused while anyone refers to them, and a flush
belongs to a task that may be flushing. Without these SharedRoom is not inductive: a load
could register a second room. *Deletion* adds that deleted events are of documents that are
gone. *Durability* adds that one task saves a room at a time, that a state being saved lies
between the row and the room's document, and that a loaded state is still the row's; so a
save that commits never takes anything from the row.

**The refinement** (at the end of RoomManagerProofs). Under that invariant the initial states are abstract initial
states, and each step maps to one of the abstract document: `ReceiveUpdate` to Edit,
`SaveCommits` to Save (of a state between the row and the room's document), `Crash` to Crash,
and every other, or one of these about a document already gone, to the end of the documents
it makes gone, none of them for a stutter. The
steps that need the invariant are those that register or drop a room: a loaded state is the
row's, and a room that is dropped clean holds what the row holds, so nothing users see
changes.

**LiveAccessProofs.** StaleRoleIsFound speaks of live sessions. It is not inductive as it
stands, for two reasons: a session takes its role while it is still joining, so `StaleIsFound` covers those
as well; and what a look-up answers is assigned to the session it was made for, so
`AnsweredIsOpen` says that this session has not ended since.

**DocumentSharingProofs.** `Shape` types the slots: which call is at which step. `Inv` adds
that one transfer at a time holds the document's row lock, that a transfer about to commit
holds the old owner's row as it is, and that each unaware user who was not displaced is
covered by an event that some committed request still has to publish. OwnerRowStays is an
action property; it rests on `NotTheOwner`, that no request in progress is about the person
who owned the document when the request was let through.

**RelayProofs.** `SenderHasThem` says that every frame on its way is of edits its sender still
has, in both directions: what was sent is never news to the one who sent it, and nothing is
taken out of a document. `Phases` says that a page's state vector is unread until its endpoint has joined
the room, so that its answer covers what was relayed before, that a socket on its way out was marked closing
first, and that a session that writes entitles its page. The three properties and these are
inductive together: a frame taken by one side is what makes the property of the other.
RefinesSharedText needs one thing more, `OwnEdits`: a page always has all the edits it made,
numbered without a gap, so the next number is one that nobody has. With it `MakeEdit` maps to
Write, a frame that is applied to Merge, one that a page merges to Learn, a session that may write
to Admit; every other step, each lost frame among them, to a stutter.

**SessionsProofs.** The strengthening is that a refused refresh is of a session that is not
in the allowlist and, as each login has a new token, never will be again.

**AccountsProofs.** `Shape` bounds a counter by the requests begun, less those that still have
to count: a bound on a sum, which TypeOK alone does not preserve. `OneInserts` says that
whoever inserts an account found none, so if there is one by now, or another is to insert the
same address, the two requests overlap. CountersExpire is the reason for LockoutEnds: a
counter has a time to live, or a request is about to set it, or the call that was to set it
was never made.

**DocumentPageProofs.** `SessionInv` adds to OneProvider that at most one run of the effect
still waits for a token without having been cleaned up, the last, and that no provider lives
beside it. `RightDocument` says that the page shows a document of another URL only while
`disordered` is set, which a refresh that keeps that document needs: it is the newest answer and
yet changes nothing. `RoleOnItsWay` says where the user's present role is when the page does not show
it: the server is about to close the socket, a fetch has still to be answered, or will fail,
or has an answer that is the newest and not received yet; otherwise page and pending answers
have it already. It is a disjunction over the whole journey, each step of which hands over to the next.

**PresenceProofs.** What a page makes of the frames handed to a joiner is a fold over them.
No induction over data is available, but the natural numbers have least elements: if taking
one frame keeps a property of what a page holds, there is no least number of frames after
which it fails (`TakeAllInduction`). With that, `Moved` and `Told` say what any number of
frames may do to a page and what it sends on, and `Delivery` what they do to all pages at once. The
invariant has twelve parts:

- *Shape, Opened, Shows*: types with clocks that nothing bounds; who has which socket; a page
  that is not in the room shows only itself.
- *Ordered, Echoes, Speaks*: what a socket carries. The clocks of each client never fall along
  the way from a page to the server's memory; a page that has stopped to show a client has told the server
  so or is telling it; of itself it tells each time with a newer clock. Without the order, a
  late frame could bring back what a removal took.
- *Authentic, Bound, Unknown*: how far clocks reach. Only the client itself is ahead of its own
  clock in a frame that says it is there; a removal adds one to what the server remembers and
  its client's answer another, once for each socket that ends: hence the bound in TypeOK.
- *Ahead, Converges*: a page that has opened one socket is ahead of every removal of it, so whoever
  was sent a frame of it has it as it is, or the page's next frame is on its way. A second socket
  is where this ends, and why CursorsConverge excepts `reopened`.
- *Accounted*: for each client that a page in the room shows there is a socket in the room, not
  the page's own, whose end will announce it with a clock at least as new, and which the client or a page
  that is to say it has gone keeps from being the last to know of it. Frames are handed
  over between sockets as they travel: who took the client from a socket's last frame is
  accounted for by that socket, or by the one that accounts for its page. DepartedAreGone is what
  this says when nothing is on its way; a joiner that is handed the frame of a socket already
  announced is the case where no socket is left, and is in `haunted`.

*Only model-checked.* Liveness under fairness is beyond the prover: JoinCompletes,
EventuallyDurable, StopCompletes, StaleRoleEnds, EventsAreHandled, RequestsFinish,
EditsReachPages, EditsReachRoom, CallsEnd, LockoutEnds, RevocationReachesPage. Every invariant
and every action property of a passing run is a theorem. DurableBeforeDrop and RestartLosesNothing are
refuted by their runs.

## 6. What is left out

- Relay: the room stays open (RoomManager opens and drops rooms), a session keeps its role
  (LiveAccess ends it otherwise), malformed frames are ignored by the code and absent here,
  and a page has one socket at a time.
- Presence: query-awareness frames (the client sends none), full queues (in Relay they close the
  socket), the 30 s and 15 s timers of the providers.
- The page's saving badge, peer list and token timer; an expired token is a failed handshake.
- Document titles, but for whether two agree (DocumentPage), and read-only endpoints, user search, avatar and profile data.
- Wire format, JWT contents, password hashing: libraries and byte layout.
- Several replicas of the sync server: the deployment files run one.
- Rendering and forms of the client; several tabs on one localStorage.

## 7. Plan

Done: RoomManager, its abstract specification and the refinement; LiveAccess; DocumentSharing;
Relay; Presence; Sessions; Accounts; DocumentPage, all with their safety properties as theorems.
Next:

1. What the invariants already proved say of single steps: in LiveAccess, that a session ends
   only for a cause the code names.
2. Several tabs on one localStorage.

Not planned, for want of behaviour that depends on order: the bytes of `protocol.py`, the reading
endpoints and the user directory, start-up and health checks, rendering.
