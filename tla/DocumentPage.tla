------------------------------ MODULE DocumentPage ------------------------------
(***************************************************************************)
(* The page of a document (apps/client/src/pages/DocumentPage.tsx) and the *)
(* collaboration session it holds (hooks/useCollabSession.ts), for one     *)
(* user whose role others change.                                          *)
(*                                                                         *)
(* The page fetches the document when the URL changes and again when the   *)
(* socket closes, at most once in 1500 ms; a reply is taken whenever it    *)
(* comes, whatever the page shows by then, but a refresh keeps what the    *)
(* page shows if role and title agree, even when it is another document.   *)
(* Titles are left out: any two may agree or differ.                       *)
(*                                                                         *)
(* The session is an effect of (documentId, enabled): it awaits a token,   *)
(* then creates a provider that connects again by itself until the effect  *)
(* is cleaned up.                                                          *)
(*                                                                         *)
(* The sync server closes a socket whose role is not the user's any more   *)
(* (LiveAccess.tla) and looks the role up at every handshake.              *)
(***************************************************************************)
EXTENDS Naturals, FiniteSets

CONSTANTS
  Document,
  First,          \* the document the page is opened on
  NoDocument,
  Fetch,          \* slots for requests to the API: a bound on those in flight
  MaxChanges,     \* bound on changes of role
  MaxVisits,      \* bound on navigations
  MaxFailures     \* bound on sockets, handshakes and requests that fail

ASSUME PageAssumption ==
  /\ First \in Document /\ NoDocument \notin Document /\ Fetch # {}
  /\ {MaxChanges, MaxVisits, MaxFailures} \subseteq Nat

VARIABLES
  role,         \* the user's role in each document
  url,          \* documentId
  doc,          \* the state doc: a document and the role fetched with it
  lost,         \* lost is not null
  throttled,    \* lastRefresh is less than 1500 ms ago
  fetch,        \* requests in flight
  effect,       \* the dependencies the session's effect ran with
  awaiting,     \* runs of the effect that await a token, and whether cancelled
  provider,     \* the provider of each document: "down", or the role of its socket
  spent,        \* what is used of the bounds
  missed,       \* history: no fetch was answered since a change that should bring one
  disordered    \* history: the last reply that set doc was overtaken, or of a document
                \* the page had left

page == <<url, doc, lost, throttled>>
session == <<effect, awaiting, provider>>
history == <<missed, disordered>>
vars == <<role, page, fetch, session, spent, history>>

Role == {"viewer", "editor"}
NoRole == "none"
Absent == "absent"     \* no provider

NoDoc == [id |-> NoDocument, role |-> NoRole]
Free == [kind |-> "free"]
\* A request remembers which ones were answered before it, and whether a reply that
\* was answered after it came first.
Request(kind, d) ==
  [kind |-> kind, id |-> d, answer |-> "pending", earlier |-> {}, overtaken |-> FALSE]

Enabled == doc # NoDoc /\ ~lost

FreeSlots == {f \in Fetch : fetch[f] = Free}

Init ==
  /\ role \in [Document -> Role \cup {NoRole}]
  /\ url = First
  /\ doc = NoDoc /\ lost = FALSE /\ throttled = FALSE
  /\ fetch = [f \in Fetch |->
                IF f = CHOOSE g \in Fetch : TRUE THEN Request("load", First) ELSE Free]
  /\ effect = [id |-> First, enabled |-> FALSE]
  /\ awaiting = {}
  /\ provider = [d \in Document |-> Absent]
  /\ spent = [changes |-> 0, visits |-> 0, failures |-> 0]
  /\ missed = FALSE /\ disordered = FALSE

Spend(what, max) ==
  /\ spent[what] < max
  /\ spent' = [spent EXCEPT ![what] = @ + 1]

Start(kind, d) ==
  /\ FreeSlots # {}
  /\ fetch' = [fetch EXCEPT ![CHOOSE f \in FreeSlots : TRUE] = Request(kind, d)]

--------------------------------------------------------------------------------
(* The session: useCollabSession. *)

Cancelled == {[w EXCEPT !.cancelled = TRUE] : w \in awaiting}

\* React renders before another reply or timer: the effect is cleaned up, and runs
\* again, when its dependencies are others.
Render(enabled) ==
  IF enabled = effect.enabled THEN UNCHANGED session
  ELSE /\ effect' = [effect EXCEPT !.enabled = enabled]
       /\ provider' = [provider EXCEPT ![url] = Absent]
       /\ awaiting' = Cancelled \cup
            (IF enabled THEN {[id |-> url, cancelled |-> FALSE]} ELSE {})

\* After a navigation the effect runs with the new URL and the old doc first, and
\* without one in the render that setDoc(null) brings.
RenderUrl(d) ==
  /\ effect' = [id |-> d, enabled |-> FALSE]
  /\ provider' = [provider EXCEPT ![url] = Absent]
  /\ awaiting' = Cancelled \cup (IF Enabled THEN {[id |-> d, cancelled |-> TRUE]} ELSE {})

\* getFreshAccessToken returns; a run that was cleaned up meanwhile stops here.
MutantTokenReady(w) ==
  /\ w \in awaiting
  /\ awaiting' = awaiting \ {w}
  /\ provider' = [provider EXCEPT ![w.id] = "down"]
  /\ UNCHANGED <<role, page, fetch, effect, spent, history>>

TokenReady(w) ==
  /\ w \in awaiting
  /\ awaiting' = awaiting \ {w}
  /\ provider' = IF w.cancelled THEN provider ELSE [provider EXCEPT ![w.id] = "down"]
  /\ UNCHANGED <<role, page, fetch, effect, spent, history>>

\* onClose is the refreshDoc of the last render.
RefreshDoc ==
  IF throttled THEN missed' = TRUE /\ UNCHANGED <<throttled, fetch>>
  ELSE throttled' = TRUE /\ Start("refresh", url) /\ UNCHANGED missed

Closed(d) ==
  /\ provider' = [provider EXCEPT ![d] = "down"]
  /\ RefreshDoc
  /\ UNCHANGED <<role, url, doc, lost, effect, awaiting, disordered>>

Connect(d) ==
  /\ provider[d] = "down" /\ role[d] # NoRole
  /\ provider' = [provider EXCEPT ![d] = role[d]]
  /\ UNCHANGED <<role, page, fetch, effect, awaiting, spent, history>>

\* A handshake without access; the provider tries again.
Reject(d) == provider[d] = "down" /\ role[d] = NoRole /\ Closed(d) /\ UNCHANGED spent

\* The network, or an expired token, fails a handshake or a socket.
Drop(d) == provider[d] # Absent /\ Spend("failures", MaxFailures) /\ Closed(d)

\* The server finds that the role of the socket has changed.
ServerCloses(d) ==
  /\ provider[d] \in Role \ {role[d]}
  /\ Closed(d)
  /\ UNCHANGED spent

--------------------------------------------------------------------------------
(* The page. *)

\* The effect of documentId.
Navigate(d) ==
  /\ d # url /\ Spend("visits", MaxVisits)
  /\ url' = d /\ doc' = NoDoc /\ lost' = FALSE /\ throttled' = FALSE
  /\ Start("load", d)
  /\ RenderUrl(d)
  /\ missed' = FALSE /\ disordered' = FALSE
  /\ UNCHANGED role

\* 1500 ms pass.
Cool ==
  /\ throttled
  /\ throttled' = FALSE
  /\ UNCHANGED <<role, url, doc, lost, fetch, session, spent, history>>

\* saveTitle, of the document the page shows.
SaveTitle ==
  /\ doc # NoDoc /\ ~lost /\ doc.role = "editor"
  /\ \A f \in Fetch : fetch[f] # Free => fetch[f].kind # "save"
  /\ Start("save", doc.id)
  /\ UNCHANGED <<role, page, session, spent, history>>

Answered == {f \in Fetch : fetch[f] # Free /\ fetch[f].answer # "pending"}

\* The API reads the caller's role: getDocument answers it, or 404; updateDocument
\* requires an editor.
Handle(f) ==
  LET r == fetch[f]
  IN /\ r # Free /\ r.answer = "pending"
     /\ fetch' = [fetch EXCEPT ![f].answer = role[r.id], ![f].earlier = Answered]
     /\ missed' = (missed /\ (r.kind = "save" \/ r.id # url))
     /\ UNCHANGED <<role, page, session, spent, disordered>>

\* The request fails, or the API does.
Errs(f) ==
  /\ fetch[f] # Free /\ fetch[f].answer = "pending"
  /\ Spend("failures", MaxFailures)
  /\ fetch' = [fetch EXCEPT ![f].answer = "error"]
  /\ UNCHANGED <<role, page, session, history>>

\* A reply that carries the document: setDoc.
MutantFound(r) == r.answer # "error"
MutantFoundOnce(r) == r.answer \in Role /\ r.kind # "refresh"
Found(r) == r.answer \in Role /\ (r.kind = "save" => r.answer = "editor")

\* An error that says the document is lost: setLost.
MutantLoses(r) == r.kind = "load" /\ r.answer \notin Role
Loses(r) ==
  \/ r.kind = "load" /\ r.answer \notin Role
  \/ r.kind = "refresh" /\ r.answer = NoRole

\* The other requests, after the reply to f has come.
Overtaking(f) ==
  [g \in Fetch |->
     IF g = f \/ fetch[g] = Free THEN Free
     ELSE [fetch[g] EXCEPT !.earlier = @ \ {f},
                           !.overtaken = @ \/ (Found(fetch[f]) /\ g \in fetch[f].earlier)]]

Fresh(r) == [id |-> r.id, role |-> r.answer]

\* setDoc: what the reply brings, or after a refresh what the page shows (prev) if role
\* and title agree, whatever its id.
SetDoc(r) ==
  {Fresh(r)} \cup {prev \in {doc} : r.kind = "refresh" /\ prev.role = r.answer}

Reply(f) ==
  LET r == fetch[f]
  IN /\ r # Free /\ r.answer # "pending"
     /\ fetch' = Overtaking(f)
     /\ doc' \in IF Found(r) THEN SetDoc(r) ELSE {doc}
     /\ lost' = (lost \/ Loses(r))
     /\ Render(doc' # NoDoc /\ ~lost')
     /\ disordered' = IF Found(r) /\ doc' = Fresh(r) THEN r.overtaken \/ r.id # url
                      ELSE disordered
     /\ missed' = (missed \/ r.answer = "error")
     /\ UNCHANGED <<role, url, throttled, spent>>

--------------------------------------------------------------------------------

ChangeRole(d, r) ==
  /\ role[d] # r /\ Spend("changes", MaxChanges)
  /\ role' = [role EXCEPT ![d] = r]
  /\ missed' = (missed \/ (d = url /\ provider[d] \notin Role \ {r}))
  /\ UNCHANGED <<page, fetch, session, disordered>>

Next ==
  \/ Cool \/ SaveTitle
  \/ \E w \in awaiting : TokenReady(w)
  \/ \E f \in Fetch : Handle(f) \/ Errs(f) \/ Reply(f)
  \/ \E d \in Document :
       \/ Navigate(d) \/ Connect(d) \/ Reject(d) \/ Drop(d) \/ ServerCloses(d)
       \/ \E r \in Role \cup {NoRole} : ChangeRole(d, r)

Spec == Init /\ [][Next]_vars

Fairness ==
  /\ WF_vars(Cool)
  /\ WF_vars(\E w \in awaiting : TokenReady(w))
  /\ \A f \in Fetch : WF_vars(Handle(f) \/ Reply(f))
  /\ \A d \in Document : WF_vars(Connect(d) \/ Reject(d) \/ ServerCloses(d))

FairSpec == Spec /\ Fairness

--------------------------------------------------------------------------------
(* Properties. *)

\* Every variable keeps its type.
TypeOK ==
  /\ role \in [Document -> Role \cup {NoRole}]
  /\ url \in Document /\ lost \in BOOLEAN /\ throttled \in BOOLEAN
  /\ doc \in [id : Document, role : Role] \cup {NoDoc}
  /\ \A f \in Fetch : fetch[f] # Free =>
       /\ fetch[f].kind \in {"load", "refresh", "save"} /\ fetch[f].id \in Document
       /\ fetch[f].answer \in Role \cup {NoRole, "pending", "error"}
  /\ effect \in [id : Document, enabled : BOOLEAN]
  /\ awaiting \subseteq [id : Document, cancelled : BOOLEAN]
  /\ provider \in [Document -> {Absent, "down"} \cup Role]

\* A provider is of the document the URL names, and of the effect's last run: a token
\* that comes after a navigation, or after access was lost, starts none.
OneProvider ==
  \A d \in Document : provider[d] # Absent => d = url /\ effect.enabled

\* Nothing is in flight, and the page's socket is open with the user's role.
AtRest ==
  /\ FreeSlots = Fetch
  /\ awaiting = {}
  /\ Enabled => provider[url] \in Role /\ provider[url] = role[url]

\* At rest the page shows the user's role in the document of the URL, or that it is
\* lost, but for two causes.  A fetch was missed: a close within 1500 ms of the last
\* refresh starts none, a request fails, or a role changes while no socket holds another
\* (after the fetch and before the handshake, or changed back before the server looked),
\* so that nothing closes.  Or a reply was disordered: refreshDoc and the load take
\* whatever reply comes last, an older one or one for a document the page has left, and
\* a document the page has left stays, through every refresh that finds its role and
\* title, until one finds others or the user saves a title or navigates.
RoleReachesPage ==
  AtRest /\ ~missed /\ ~disordered => lost \/ doc = [id |-> url, role |-> role[url]]

\* A user whose access is gone is told so while on the page, whatever the throttle
\* swallows: the provider tries again and each handshake the server rejects is another
\* close.
RevocationReachesPage ==
  \A d \in Document : (url = d /\ role[d] = NoRole) ~> (lost \/ role[d] # NoRole \/ url # d)

================================================================================
