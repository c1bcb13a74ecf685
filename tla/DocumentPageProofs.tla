---------------------------- MODULE DocumentPageProofs ---------------------------
(***************************************************************************)
(* Theorems of DocumentPage, for any number of documents, requests in      *)
(* flight, navigations, changes of role and failures.                      *)
(***************************************************************************)
EXTENDS DocumentPage, TLAPS

Answer == Role \cup {NoRole, "pending", "error"}

Requests ==
  [kind : {"load", "refresh", "save"}, id : Document, answer : Answer,
   earlier : SUBSET Fetch, overtaken : BOOLEAN]

Shape == TypeOK /\ fetch \in [Fetch -> Requests \cup {Free}]

\* The effect ran last with what the page shows, and one run of it at most has
\* neither its provider nor been cleaned up: the last.
OneEffect ==
  /\ effect.enabled = Enabled
  /\ \A w \in awaiting :
       ~w.cancelled => w.id = url /\ effect.enabled /\ provider[url] = Absent

SessionInv == OneEffect /\ OneProvider

--------------------------------------------------------------------------------
(* Where the user's present role is, on its way to the page. *)

\* The server is about to close the page's socket.
WillClose == provider[url] \in Role \ {role[url]}

Reads(f) == fetch[f] # Free /\ fetch[f].kind # "save" /\ fetch[f].id = url

WillRead == \E f \in Fetch : Reads(f) /\ fetch[f].answer = "pending"

WillErr == \E f \in Fetch : fetch[f] # Free /\ fetch[f].answer = "error"

\* An answer that would set doc, of the document the page shows.
Shows(g) == g \in Answered /\ Found(fetch[g]) /\ fetch[g].id = url

\* f was answered with the present role, and so was whatever was answered after it.
Newest(f) ==
  /\ Reads(f) /\ fetch[f].answer = role[url]
  /\ \A g \in Fetch \ {f} :
       Shows(g) => g \in fetch[f].earlier \/ fetch[g].answer = role[url]

\* The page has the present role, or a late reply has taken its place, and every
\* answer to come that is not late has it too.
Settled ==
  /\ disordered \/ doc = [id |-> url, role |-> role[url]]
  /\ \A g \in Fetch : Shows(g) /\ ~fetch[g].overtaken => fetch[g].answer = role[url]

RoleOnItsWay ==
  \/ lost \/ missed
  \/ WillClose \/ WillRead \/ WillErr
  \/ \E f \in Fetch : Newest(f)
  \/ Settled

\* The page shows the document of the URL, unless a late reply brought another, which
\* any number of refreshes may keep.
RightDocument == disordered \/ doc = NoDoc \/ doc.id = url

IInv == Shape /\ SessionInv /\ RightDocument /\ RoleOnItsWay

--------------------------------------------------------------------------------
(* Type correctness. *)

\* A new request takes a free slot.
LEMMA StartStep ==
  ASSUME Shape, NEW kind \in {"load", "refresh", "save"}, NEW d \in Document, Start(kind, d)
  PROVE  \E f \in Fetch :
           /\ fetch[f] = Free
           /\ fetch' = [fetch EXCEPT ![f] = Request(kind, d)]
           /\ fetch' \in [Fetch -> Requests \cup {Free}]
<1> DEFINE f == CHOOSE g \in FreeSlots : TRUE
<1>1. f \in FreeSlots
  BY DEF Start
<1>2. Request(kind, d) \in Requests
  BY DEF Request, Requests, Answer
<1>3. fetch' = [fetch EXCEPT ![f] = Request(kind, d)]
  BY DEF Start
<1> HIDE DEF f
<1> QED
  BY <1>1, <1>2, <1>3 DEF Shape, FreeSlots

LEMMA RequestType ==
  ASSUME Shape, NEW f \in Fetch, fetch[f] # Free
  PROVE  /\ fetch[f] \in Requests
         /\ fetch[f].kind \in {"load", "refresh", "save"} /\ fetch[f].id \in Document
         /\ fetch[f].answer \in Answer
         /\ fetch[f].earlier \subseteq Fetch /\ fetch[f].overtaken \in BOOLEAN
BY DEF Shape, Requests

LEMMA FetchType ==
  ASSUME NEW requests \in [Fetch -> Requests \cup {Free}]
  PROVE  \A f \in Fetch : requests[f] # Free =>
           /\ requests[f].kind \in {"load", "refresh", "save"}
           /\ requests[f].id \in Document
           /\ requests[f].answer \in Role \cup {NoRole, "pending", "error"}
BY DEF Requests, Answer

\* What TypeOK says of all but the requests.
PageType ==
  /\ role \in [Document -> Role \cup {NoRole}]
  /\ url \in Document /\ lost \in BOOLEAN /\ throttled \in BOOLEAN
  /\ doc \in [id : Document, role : Role] \cup {NoDoc}
  /\ effect \in [id : Document, enabled : BOOLEAN]
  /\ awaiting \subseteq [id : Document, cancelled : BOOLEAN]
  /\ provider \in [Document -> {Absent, "down"} \cup Role]

LEMMA CancelledType ==
  ASSUME awaiting \subseteq [id : Document, cancelled : BOOLEAN]
  PROVE  /\ Cancelled \subseteq [id : Document, cancelled : BOOLEAN]
         /\ \A w \in Cancelled : w.cancelled
BY DEF Cancelled

\* A reply: the slot is free, and the requests it overtakes are told.
LEMMA OvertakingType ==
  ASSUME Shape, NEW f \in Fetch
  PROVE  Overtaking(f) \in [Fetch -> Requests \cup {Free}]
<1> SUFFICES ASSUME NEW g \in Fetch, g # f, fetch[g] # Free
             PROVE  [fetch[g] EXCEPT !.earlier = @ \ {f},
                       !.overtaken = @ \/ (Found(fetch[f]) /\ g \in fetch[f].earlier)]
                      \in Requests
  BY DEF Overtaking
<1>1. (fetch[g].overtaken \/ (Found(fetch[f]) /\ g \in fetch[f].earlier)) \in BOOLEAN
  OBVIOUS
<1> QED
  BY <1>1, RequestType DEF Requests

\* A reply that carries the document sets doc to it, or leaves doc.
LEMMA SetDocType ==
  ASSUME Shape, NEW f \in Fetch, Reply(f)
  PROVE  /\ doc' \in {doc, Fresh(fetch[f])}
         /\ doc' # doc => Found(fetch[f])
         /\ Found(fetch[f]) => /\ Fresh(fetch[f]) \in [id : Document, role : Role]
                              /\ doc'.role = fetch[f].answer /\ doc' # NoDoc
<1>1. doc' \in IF Found(fetch[f]) THEN SetDoc(fetch[f]) ELSE {doc}
  BY DEF Reply
<1>2. doc' \in {doc, Fresh(fetch[f])} /\ (doc' # doc => Found(fetch[f]))
  BY <1>1 DEF SetDoc
<1>3. ASSUME Found(fetch[f])
      PROVE  /\ Fresh(fetch[f]) \in [id : Document, role : Role]
             /\ doc'.role = fetch[f].answer /\ doc' # NoDoc
  <2>1. fetch[f] # Free
    BY DEF Reply
  <2>2. Fresh(fetch[f]) \in [id : Document, role : Role]
    BY <1>3, <2>1, RequestType DEF Found, Fresh
  <2>3. doc'.role = fetch[f].answer
    BY <1>1, <1>3 DEF SetDoc, Fresh
  <2>4. fetch[f].answer \in Role
    BY <1>3 DEF Found
  <2> QED
    BY <2>2, <2>3, <2>4 DEF NoDoc, Role, NoRole
<1> QED
  BY <1>2, <1>3

\* The page's socket is closed, in any of four ways.
LEMMA ClosedStep ==
  ASSUME Shape, NEW d \in Document, Closed(d)
  PROVE  /\ provider' = [provider EXCEPT ![d] = "down"]
         /\ UNCHANGED <<role, url, doc, lost, effect, awaiting, disordered>>
         /\ \/ missed' = TRUE /\ UNCHANGED <<throttled, fetch>>
            \/ /\ missed' = missed /\ throttled' = TRUE
               /\ Start("refresh", url)
BY DEF Closed, RefreshDoc

LEMMA ShapeFrom ==
  ASSUME PageType', fetch' \in [Fetch -> Requests \cup {Free}]
  PROVE  Shape'
BY FetchType DEF PageType, Shape, TypeOK

LEMMA ShapeInit == Init => Shape
<1> SUFFICES ASSUME Init PROVE Shape
  OBVIOUS
<1>1. fetch \in [Fetch -> Requests \cup {Free}]
  BY PageAssumption DEF Init, Request, Requests, Answer
<1>2. \A f \in Fetch : fetch[f] # Free =>
        /\ fetch[f].kind \in {"load", "refresh", "save"} /\ fetch[f].id \in Document
        /\ fetch[f].answer \in Role \cup {NoRole, "pending", "error"}
  BY <1>1, FetchType
<1> QED
  BY <1>1, <1>2, PageAssumption DEF Init, Shape, TypeOK

LEMMA ShapeClosed ==
  ASSUME Shape, NEW d \in Document, Closed(d)
  PROVE  Shape'
<1>1. PageType'
  BY ClosedStep DEF Shape, TypeOK, PageType
<1>2. fetch' \in [Fetch -> Requests \cup {Free}]
  BY ClosedStep, StartStep DEF Shape, TypeOK
<1> QED
  BY <1>1, <1>2, ShapeFrom

LEMMA ShapeReply ==
  ASSUME Shape, NEW f \in Fetch, Reply(f)
  PROVE  Shape'
<1>1. fetch' \in [Fetch -> Requests \cup {Free}]
  BY OvertakingType DEF Reply
<1>2. doc' \in [id : Document, role : Role] \cup {NoDoc} /\ lost' \in BOOLEAN
  BY SetDocType, RequestType DEF Reply, Loses, Shape, TypeOK
<1>3. /\ effect' \in [id : Document, enabled : BOOLEAN]
      /\ awaiting' \subseteq [id : Document, cancelled : BOOLEAN]
      /\ provider' \in [Document -> {Absent, "down"} \cup Role]
  <2> DEFINE enabled == doc' # NoDoc /\ ~lost'
  <2>1. Render(enabled) /\ enabled \in BOOLEAN
    BY DEF Reply
  <2> HIDE DEF enabled
  <2>2. CASE enabled = effect.enabled
    BY <2>1, <2>2 DEF Render, session, Shape, TypeOK
  <2>3. CASE enabled # effect.enabled
    <3>1. Cancelled \subseteq [id : Document, cancelled : BOOLEAN]
      BY CancelledType DEF Shape, TypeOK
    <3>2. /\ effect' = [effect EXCEPT !.enabled = enabled]
          /\ provider' = [provider EXCEPT ![url] = Absent]
          /\ awaiting' \subseteq Cancelled \cup {[id |-> url, cancelled |-> FALSE]}
      BY <2>1, <2>3 DEF Render
    <3>3. [id |-> url, cancelled |-> FALSE] \in [id : Document, cancelled : BOOLEAN]
      BY DEF Shape, TypeOK
    <3> QED
      BY <2>1, <3>1, <3>2, <3>3 DEF Shape, TypeOK
  <2> QED
    BY <2>2, <2>3
<1>4. PageType'
  BY <1>2, <1>3 DEF Reply, PageType, Shape, TypeOK
<1> QED
  BY <1>1, <1>4, ShapeFrom

LEMMA ShapeStep ==
  ASSUME Shape, [Next]_vars
  PROVE  Shape'
<1> USE DEF PageType
<1>0. PageType /\ fetch \in [Fetch -> Requests \cup {Free}]
  BY DEF Shape, TypeOK
<1>1. CASE Cool
  BY <1>0, <1>1, ShapeFrom DEF Cool, session
<1>2. CASE SaveTitle
  <2>1. doc.id \in Document /\ Start("save", doc.id)
    BY <1>0, <1>2 DEF SaveTitle
  <2> QED
    BY <1>0, <1>2, <2>1, StartStep, ShapeFrom DEF SaveTitle, page, session
<1>3. ASSUME NEW w \in awaiting, TokenReady(w)
      PROVE  Shape'
  BY <1>0, <1>3, ShapeFrom DEF TokenReady, page
<1>4. ASSUME NEW f \in Fetch, Handle(f)
      PROVE  Shape'
  <2>1. fetch[f].id \in Document /\ role[fetch[f].id] \in Answer /\ Answered \subseteq Fetch
    BY <1>0, <1>4, RequestType DEF Handle, Answered, Answer
  <2>2. [fetch[f] EXCEPT !.answer = role[fetch[f].id], !.earlier = Answered] \in Requests
    BY <1>4, <2>1, RequestType DEF Handle, Requests
  <2>3. fetch' \in [Fetch -> Requests \cup {Free}]
    BY <1>0, <1>4, <2>2 DEF Handle
  <2> QED
    BY <1>0, <1>4, <2>3, ShapeFrom DEF Handle, page, session
<1>5. ASSUME NEW f \in Fetch, Errs(f)
      PROVE  Shape'
  <2>1. [fetch[f] EXCEPT !.answer = "error"] \in Requests
    BY <1>5, RequestType DEF Errs, Requests, Answer
  <2>2. fetch' \in [Fetch -> Requests \cup {Free}]
    BY <1>0, <1>5, <2>1 DEF Errs
  <2> QED
    BY <1>0, <1>5, <2>2, ShapeFrom DEF Errs, page, session
<1>6. ASSUME NEW d \in Document, Navigate(d)
      PROVE  Shape'
  <2>1. fetch' \in [Fetch -> Requests \cup {Free}]
    BY <1>6, StartStep DEF Navigate
  <2>2. /\ effect' \in [id : Document, enabled : BOOLEAN]
        /\ awaiting' \subseteq [id : Document, cancelled : BOOLEAN]
        /\ provider' \in [Document -> {Absent, "down"} \cup Role]
    <3>1. Cancelled \subseteq [id : Document, cancelled : BOOLEAN]
      BY <1>0, CancelledType
    <3>2. /\ effect' = [id |-> d, enabled |-> FALSE]
          /\ provider' = [provider EXCEPT ![url] = Absent]
          /\ awaiting' \subseteq Cancelled \cup {[id |-> d, cancelled |-> TRUE]}
      BY <1>6 DEF Navigate, RenderUrl
    <3>3. [id |-> d, cancelled |-> TRUE] \in [id : Document, cancelled : BOOLEAN]
      OBVIOUS
    <3>4. awaiting' \subseteq [id : Document, cancelled : BOOLEAN]
      BY <3>1, <3>2, <3>3
    <3> QED
      BY <1>0, <3>2, <3>4
  <2> QED
    BY <1>0, <1>6, <2>1, <2>2, ShapeFrom DEF Navigate
<1>7. ASSUME NEW d \in Document, Connect(d)
      PROVE  Shape'
  <2>1. provider' \in [Document -> {Absent, "down"} \cup Role]
    BY <1>0, <1>7 DEF Connect
  <2> QED
    BY <1>0, <1>7, <2>1, ShapeFrom DEF Connect, page
<1>8. ASSUME NEW d \in Document, NEW r \in Role \cup {NoRole}, ChangeRole(d, r)
      PROVE  Shape'
  BY <1>0, <1>8, ShapeFrom DEF ChangeRole, page, session
<1>9. CASE UNCHANGED vars
  BY <1>0, <1>9, ShapeFrom DEF vars, page, session
<1> QED
  BY <1>1, <1>2, <1>3, <1>4, <1>5, <1>6, <1>7, <1>8, <1>9, ShapeReply, ShapeClosed
     DEF Next, Reject, Drop, ServerCloses

\* Every variable of DocumentPage keeps its type.
THEOREM TypeCorrect == Spec => []TypeOK
<1>1. Shape /\ [Next]_vars => Shape'
  BY ShapeStep
<1>2. Shape => TypeOK
  BY DEF Shape
<1> QED
  BY ShapeInit, <1>1, <1>2, PTL DEF Spec

--------------------------------------------------------------------------------
(* One provider. *)

LEMMA SessionInit == Init => SessionInv
<1> SUFFICES ASSUME Init PROVE SessionInv
  OBVIOUS
<1>1. Enabled = FALSE /\ effect.enabled = FALSE
  BY DEF Init, Enabled
<1> QED
  BY <1>1 DEF Init, SessionInv, OneEffect, OneProvider

\* A step that leaves the page and the session alone, but that a provider that exists
\* may be down or connected.
LEMMA SessionStays ==
  ASSUME Shape, SessionInv, UNCHANGED <<url, doc, lost, effect, awaiting>>,
         \A d \in Document : provider'[d] # Absent => provider[d] # Absent
  PROVE  SessionInv'
<1>1. Enabled' = Enabled /\ url \in Document
  BY DEF Enabled, Shape, TypeOK
<1> QED
  BY <1>1 DEF SessionInv, OneEffect, OneProvider

LEMMA SessionClosed ==
  ASSUME Shape, SessionInv, NEW d \in Document, provider[d] # Absent, Closed(d)
  PROVE  SessionInv'
<1>1. \A e \in Document : provider'[e] # Absent => provider[e] # Absent
  BY DEF Closed, Shape, TypeOK
<1> QED
  BY <1>1, SessionStays DEF Closed

\* React renders after a reply: what runs of the effect are left, and their providers.
LEMMA SessionReply ==
  ASSUME Shape, SessionInv, NEW f \in Fetch, Reply(f)
  PROVE  SessionInv'
<1> USE DEF SessionInv
<1> DEFINE enabled == doc' # NoDoc /\ ~lost'
<1>1. Render(enabled) /\ url' = url /\ url \in Document
  BY DEF Reply, Shape, TypeOK
<1>2. Enabled' = enabled
  BY DEF Enabled
<1> HIDE DEF enabled
<1>3. CASE enabled = effect.enabled
  <2>1. UNCHANGED session
    BY <1>1, <1>3 DEF Render
  <2> QED
    BY <1>1, <1>2, <1>3, <2>1 DEF OneEffect, OneProvider, session
<1>4. CASE enabled # effect.enabled
  <2>1. /\ effect' = [effect EXCEPT !.enabled = enabled]
        /\ provider' = [provider EXCEPT ![url] = Absent]
        /\ awaiting' = Cancelled \cup
             (IF enabled THEN {[id |-> url, cancelled |-> FALSE]} ELSE {})
    BY <1>1, <1>4 DEF Render
  <2>2. effect'.enabled = enabled /\ provider'[url] = Absent
    BY <1>1, <2>1 DEF Shape, TypeOK
  <2>3. \A d \in Document : provider'[d] = Absent
    BY <2>1, <2>2 DEF OneProvider, Shape, TypeOK
  <2>4. \A w \in Cancelled : w.cancelled
    BY CancelledType DEF Shape, TypeOK
  <2>5. \A w \in awaiting' : ~w.cancelled => w.id = url /\ enabled
    BY <2>1, <2>4
  <2> QED
    BY <1>1, <1>2, <2>2, <2>3, <2>5 DEF OneEffect, OneProvider
<1> QED
  BY <1>3, <1>4

\* After a navigation no provider is left, and every run of the effect is cleaned up.
LEMMA SessionNavigate ==
  ASSUME Shape, SessionInv, NEW d \in Document, Navigate(d)
  PROVE  SessionInv'
<1> USE DEF SessionInv
<1>1. /\ Enabled' = FALSE /\ effect'.enabled = FALSE
      /\ provider' = [provider EXCEPT ![url] = Absent]
  BY DEF Navigate, RenderUrl, Enabled
<1>2. \A e \in Document : provider'[e] = Absent
  BY <1>1 DEF OneProvider, Shape, TypeOK
<1>3. \A w \in Cancelled : w.cancelled
  BY CancelledType DEF Shape, TypeOK
<1>4. \A w \in awaiting' : w.cancelled
  BY <1>3 DEF Navigate, RenderUrl
<1> QED
  BY <1>1, <1>2, <1>4 DEF OneEffect, OneProvider, Navigate

LEMMA SessionToken ==
  ASSUME Shape, SessionInv, NEW w \in awaiting, TokenReady(w)
  PROVE  SessionInv'
<1> USE DEF SessionInv
<1>1. /\ UNCHANGED <<url, doc, lost, effect>> /\ awaiting' = awaiting \ {w}
      /\ Enabled' = Enabled /\ url \in Document
  BY DEF TokenReady, page, Enabled, Shape, TypeOK
<1>2. CASE w.cancelled
  BY <1>1, <1>2 DEF TokenReady, OneEffect, OneProvider
<1>3. CASE ~w.cancelled
  <2>1. w.id = url /\ effect.enabled /\ provider' = [provider EXCEPT ![url] = "down"]
    BY <1>3 DEF OneEffect, TokenReady
  <2>2. \A v \in awaiting : ~v.cancelled => v = w
    <3>1. \A v \in awaiting : ~v.cancelled => v.id = url /\ v.cancelled = w.cancelled
      BY <1>3 DEF OneEffect, Shape, TypeOK
    <3>2. awaiting \subseteq [id : Document, cancelled : BOOLEAN]
      BY DEF Shape, TypeOK
    <3> QED
      BY <2>1, <3>1, <3>2
  <2>3. \A v \in awaiting' : v.cancelled
    BY <1>1, <2>2
  <2> QED
    BY <1>1, <2>1, <2>3 DEF OneEffect, OneProvider, Shape, TypeOK
<1> QED
  BY <1>2, <1>3

LEMMA SessionStep ==
  ASSUME Shape, SessionInv, [Next]_vars
  PROVE  SessionInv'
<1>1. CASE Cool \/ SaveTitle
  BY <1>1, SessionStays DEF Cool, SaveTitle, page, session
<1>2. ASSUME NEW f \in Fetch, Handle(f) \/ Errs(f)
      PROVE  SessionInv'
  BY <1>2, SessionStays DEF Handle, Errs, page, session
<1>3. ASSUME NEW d \in Document, Connect(d)
      PROVE  SessionInv'
  <2>1. \A e \in Document : provider'[e] # Absent => provider[e] # Absent
    BY <1>3 DEF Connect, Shape, TypeOK, Absent
  <2> QED
    BY <1>3, <2>1, SessionStays DEF Connect, page
<1>4. ASSUME NEW d \in Document, Reject(d) \/ Drop(d) \/ ServerCloses(d)
      PROVE  SessionInv'
  <2>1. provider[d] # Absent /\ Closed(d)
    BY <1>4 DEF Reject, Drop, ServerCloses, Role, Absent
  <2> QED
    BY <2>1, SessionClosed
<1>5. ASSUME NEW d \in Document, NEW r \in Role \cup {NoRole}, ChangeRole(d, r)
      PROVE  SessionInv'
  BY <1>5, SessionStays DEF ChangeRole, page, session
<1>6. CASE UNCHANGED vars
  BY <1>6, SessionStays DEF vars, page, session
<1> QED
  BY <1>1, <1>2, <1>3, <1>4, <1>5, <1>6, SessionReply, SessionNavigate, SessionToken DEF Next

\* A provider is of the document the URL names, and of the last run of the effect, for
\* any number of navigations and token fetches that overlap (useCollabSession).
THEOREM ProviderIsOne == Spec => []OneProvider
<1>1. Init => SessionInv
  BY SessionInit
<1>2. Shape /\ SessionInv /\ [Next]_vars => SessionInv'
  BY SessionStep
<1>3. Shape /\ [Next]_vars => Shape'
  BY ShapeStep
<1>4. SessionInv => OneProvider
  BY DEF SessionInv
<1> QED
  BY ShapeInit, <1>1, <1>2, <1>3, <1>4, PTL DEF Spec

--------------------------------------------------------------------------------
(* The role reaches the page. *)

\* A step that leaves the page and its requests alone, and a close that is due, due.
LEMMA WayStays ==
  ASSUME RoleOnItsWay, UNCHANGED <<role, url, doc, fetch, disordered>>,
         lost => lost', missed => missed', WillClose => WillClose'
  PROVE  RoleOnItsWay'
<1>1. /\ (WillRead => WillRead') /\ (WillErr => WillErr') /\ (Settled => Settled')
      /\ \A f \in Fetch : Newest(f) => Newest(f)'
  BY DEF WillRead, WillErr, Settled, Newest, Reads, Shows, Answered, Found
<1> QED
  BY <1>1 DEF RoleOnItsWay

\* A request that starts has no answer, and the others are as before.
LEMMA WayStart ==
  ASSUME Shape, NEW kind \in {"load", "refresh", "save"}, NEW d \in Document, Start(kind, d)
  PROVE  /\ (kind # "save" /\ d = url' => WillRead')
         /\ UNCHANGED <<role, url, doc, disordered>> =>
              /\ (WillRead => WillRead') /\ (WillErr => WillErr') /\ (Settled => Settled')
              /\ \A f \in Fetch : Newest(f) => Newest(f)'
<1>1. PICK s \in Fetch : /\ fetch[s] = Free
                         /\ fetch' = [fetch EXCEPT ![s] = Request(kind, d)]
  BY StartStep
<1>2. /\ fetch'[s].kind = kind /\ fetch'[s].id = d /\ fetch'[s].answer = "pending"
      /\ fetch'[s] # Free
      /\ \A f \in Fetch \ {s} : fetch'[f] = fetch[f]
  BY <1>1 DEF Shape, Request, Free
<1>3. ASSUME kind # "save", d = url' PROVE WillRead'
  BY <1>2, <1>3 DEF WillRead, Reads
<1>4. ASSUME UNCHANGED <<role, url, doc, disordered>>
      PROVE  /\ (WillRead => WillRead') /\ (WillErr => WillErr') /\ (Settled => Settled')
             /\ \A f \in Fetch : Newest(f) => Newest(f)'
  <2>1. \A f \in Fetch : fetch[f] # Free => fetch'[f] = fetch[f]
    BY <1>1, <1>2
  <2>2. \A g \in Fetch : Shows(g)' => g # s /\ Shows(g)
    BY <1>2, <1>4 DEF Shows, Answered, Found
  <2>3. (WillRead => WillRead') /\ (WillErr => WillErr')
    BY <1>4, <2>1 DEF WillRead, WillErr, Reads
  <2>4. Settled => Settled'
    BY <1>2, <1>4, <2>2 DEF Settled
  <2>5. ASSUME NEW f \in Fetch, Newest(f) PROVE Newest(f)'
    <3>1. fetch[f] # Free /\ fetch'[f] = fetch[f]
      BY <2>1, <2>5 DEF Newest, Reads
    <3> QED
      BY <1>2, <1>4, <2>2, <2>5, <3>1 DEF Newest, Reads
  <2> QED
    BY <2>3, <2>4, <2>5
<1> QED
  BY <1>3, <1>4

\* A close brings a read, unless it is within 1500 ms of the last.
LEMMA WayClosed ==
  ASSUME Shape, NEW d \in Document, Closed(d)
  PROVE  RoleOnItsWay'
<1>1. CASE missed'
  BY <1>1 DEF RoleOnItsWay
<1>2. CASE ~missed'
  <2>1. Start("refresh", url) /\ url' = url /\ url \in Document
    BY <1>2, ClosedStep DEF Shape, TypeOK
  <2> QED
    BY <2>1, WayStart DEF RoleOnItsWay
<1> QED
  BY <1>1, <1>2

\* The API answers a read with the present role, which is then the newest.
LEMMA WayHandle ==
  ASSUME Shape, RoleOnItsWay, NEW f \in Fetch, Handle(f)
  PROVE  RoleOnItsWay'
<1>1. /\ UNCHANGED <<role, url, doc, lost, throttled, session, disordered>>
      /\ fetch[f] # Free /\ fetch[f].answer = "pending"
  BY DEF Handle, page
<1>2. /\ fetch'[f].kind = fetch[f].kind /\ fetch'[f].id = fetch[f].id
      /\ fetch'[f].answer = role[fetch[f].id] /\ fetch'[f].earlier = Answered
      /\ fetch'[f] # Free
      /\ \A g \in Fetch \ {f} : fetch'[g] = fetch[g]
  <2>1. fetch[f] \in Requests
    BY <1>1, RequestType
  <2>2. fetch' = [fetch EXCEPT ![f] = [fetch[f] EXCEPT !.answer = role[fetch[f].id],
                                                       !.earlier = Answered]]
    BY DEF Handle
  <2>3. fetch'[f] = [fetch[f] EXCEPT !.answer = role[fetch[f].id], !.earlier = Answered]
    BY <2>2 DEF Shape
  <2>4. fetch'[f].kind = fetch[f].kind
    BY <2>1, <2>3 DEF Requests
  <2>5. fetch[f].kind # "free"
    BY <2>1 DEF Requests
  <2> QED
    BY <2>1, <2>2, <2>3, <2>4, <2>5 DEF Requests, Shape, Free
<1>3. \A g \in Fetch \ {f} : Shows(g)' => Shows(g)
  BY <1>1, <1>2 DEF Shows, Answered, Found
<1>4. CASE Reads(f)
  <2>1. Newest(f)'
    BY <1>1, <1>2, <1>3, <1>4 DEF Newest, Reads, Shows
  <2> QED
    BY <2>1 DEF RoleOnItsWay
<1>5. CASE ~Reads(f)
  <2>1. missed => missed'
    <3>1. fetch[f].kind = "save" \/ fetch[f].id # url
      BY <1>1, <1>5 DEF Reads
    <3> QED
      BY <3>1 DEF Handle
  <2>2. WillClose => WillClose'
    BY <1>1 DEF WillClose, session
  <2>3. WillRead => WillRead'
    BY <1>1, <1>2, <1>5 DEF WillRead, Reads
  <2>4. WillErr => WillErr'
    BY <1>1, <1>2 DEF WillErr
  <2>5. ASSUME NEW h \in Fetch, Newest(h) PROVE Newest(h)'
    <3>1. h # f
      BY <1>5, <2>5 DEF Newest
    <3>2. Shows(f)' => fetch'[f].answer = role[url]
      BY <1>1, <1>2 DEF Shows
    <3> QED
      BY <1>1, <1>2, <1>3, <2>5, <3>1, <3>2 DEF Newest, Reads
  <2>6. Settled => Settled'
    <3>1. Shows(f)' => fetch'[f].answer = role[url]
      BY <1>1, <1>2 DEF Shows
    <3> QED
      BY <1>1, <1>2, <1>3, <3>1 DEF Settled
  <2> QED
    BY <1>1, <2>1, <2>2, <2>3, <2>4, <2>5, <2>6 DEF RoleOnItsWay
<1> QED
  BY <1>4, <1>5

\* What a reply to f leaves of the other requests: those that were answered before f
\* are overtaken if f sets doc.
LEMMA ReplyOthers ==
  ASSUME Shape, NEW f \in Fetch, Reply(f)
  PROVE  /\ fetch'[f] = Free
         /\ \A g \in Fetch \ {f} :
              /\ fetch'[g] # Free <=> fetch[g] # Free
              /\ fetch[g] # Free =>
                   /\ fetch'[g].kind = fetch[g].kind /\ fetch'[g].id = fetch[g].id
                   /\ fetch'[g].answer = fetch[g].answer
                   /\ fetch'[g].earlier = fetch[g].earlier \ {f}
                   /\ fetch[g].overtaken => fetch'[g].overtaken
                   /\ Found(fetch[f]) /\ g \in fetch[f].earlier => fetch'[g].overtaken
<1>1. fetch' = Overtaking(f)
  BY DEF Reply
<1>2. fetch'[f] = Free
  BY <1>1 DEF Overtaking
<1>3. ASSUME NEW g \in Fetch \ {f}, fetch[g] = Free
      PROVE  fetch'[g] = Free
  BY <1>1, <1>3 DEF Overtaking
<1>4. ASSUME NEW g \in Fetch \ {f}, fetch[g] # Free
      PROVE  /\ fetch'[g] # Free
             /\ fetch'[g].kind = fetch[g].kind /\ fetch'[g].id = fetch[g].id
             /\ fetch'[g].answer = fetch[g].answer
             /\ fetch'[g].earlier = fetch[g].earlier \ {f}
             /\ fetch'[g].overtaken =
                  (fetch[g].overtaken \/ (Found(fetch[f]) /\ g \in fetch[f].earlier))
  <2>1. fetch[g] \in Requests /\ fetch'[g] \in Requests \cup {Free}
    BY <1>1, <1>4, RequestType, OvertakingType
  <2>2. fetch'[g] = [fetch[g] EXCEPT !.earlier = @ \ {f},
                       !.overtaken = @ \/ (Found(fetch[f]) /\ g \in fetch[f].earlier)]
    BY <1>1, <1>4 DEF Overtaking
  <2>3. /\ fetch'[g].kind = fetch[g].kind /\ fetch'[g].id = fetch[g].id
        /\ fetch'[g].answer = fetch[g].answer
        /\ fetch'[g].earlier = fetch[g].earlier \ {f}
        /\ fetch'[g].overtaken =
             (fetch[g].overtaken \/ (Found(fetch[f]) /\ g \in fetch[f].earlier))
    BY <2>1, <2>2 DEF Requests
  <2>4. fetch'[g].kind # "free"
    BY <2>1, <2>3 DEF Requests
  <2> QED
    BY <2>3, <2>4 DEF Free
<1> QED
  BY <1>2, <1>3, <1>4

\* The wrong document comes only with a late reply, and stays only while it is known
\* to be one.
LEMMA RightStep ==
  ASSUME Shape, RightDocument, [Next]_vars
  PROVE  RightDocument'
<1>1. ASSUME NEW f \in Fetch, Reply(f)
      PROVE  RightDocument'
  <2>1. CASE doc' = doc /\ disordered' = disordered
    BY <1>1, <2>1 DEF Reply, RightDocument
  <2>2. CASE Found(fetch[f]) /\ doc' = Fresh(fetch[f])
    BY <1>1, <2>2 DEF Reply, Fresh, RightDocument
  <2> QED
    BY <1>1, <2>1, <2>2, SetDocType DEF Reply
<1>2. ASSUME NEW d \in Document, Navigate(d)
      PROVE  RightDocument'
  BY <1>2 DEF Navigate, RightDocument
<1>3. CASE UNCHANGED <<url, doc, disordered>>
  BY <1>3 DEF RightDocument
<1> QED
  BY <1>1, <1>2, <1>3
     DEF Next, vars, page, history, Cool, SaveTitle, TokenReady, Handle, Errs, Connect,
         Reject, Drop, ServerCloses, Closed, ChangeRole

\* A reply that neither loses the document nor is an error: it takes the newest answer,
\* or one that is as new, or it is late.
LEMMA WayReply ==
  ASSUME Shape, SessionInv, RightDocument, RoleOnItsWay,
         NEW f \in Fetch, Reply(f), ~lost', ~missed'
  PROVE  RoleOnItsWay'
<1>1. /\ fetch[f] # Free /\ fetch[f].answer # "pending" /\ fetch[f].answer # "error"
      /\ ~lost /\ ~missed /\ ~Loses(fetch[f])
      /\ UNCHANGED <<role, url>>
  BY DEF Reply
<1>2. \A g \in Fetch : Shows(g)' => g # f /\ Shows(g)
  BY <1>1, ReplyOthers DEF Shows, Answered, Found
<1>3. ASSUME Found(fetch[f])
      PROVE  \/ /\ doc' = Fresh(fetch[f])
                /\ ~disordered' => ~fetch[f].overtaken /\ fetch[f].id = url
             \/ doc' # Fresh(fetch[f]) /\ doc' = doc /\ disordered' = disordered
  BY <1>1, <1>3, SetDocType DEF Reply
<1>4. CASE WillClose
  <2>1. provider[url] # Absent /\ url \in Document
    BY <1>4 DEF WillClose, Role, Absent, Shape, TypeOK
  <2>2. effect.enabled = TRUE /\ doc # NoDoc
    BY <2>1 DEF SessionInv, OneProvider, OneEffect, Enabled, Shape, TypeOK
  <2>3. doc' # NoDoc
    BY <2>2, SetDocType
  <2>4. (doc' # NoDoc /\ ~lost') = TRUE
    BY <2>3
  <2>5. UNCHANGED session
    BY <2>2, <2>4 DEF Reply, Render
  <2> QED
    BY <1>1, <1>4, <2>5 DEF session, WillClose, RoleOnItsWay
<1>5. CASE WillRead
  <2>1. PICK h \in Fetch : Reads(h) /\ fetch[h].answer = "pending"
    BY <1>5 DEF WillRead
  <2>2. h # f /\ Reads(h)' /\ fetch'[h].answer = "pending"
    BY <1>1, <2>1, ReplyOthers DEF Reads
  <2> QED
    BY <2>2 DEF WillRead, RoleOnItsWay
<1>6. CASE WillErr
  <2>1. PICK h \in Fetch : fetch[h] # Free /\ fetch[h].answer = "error"
    BY <1>6 DEF WillErr
  <2>2. fetch'[h] # Free /\ fetch'[h].answer = "error"
    BY <1>1, <2>1, ReplyOthers
  <2> QED
    BY <2>2 DEF WillErr, RoleOnItsWay
<1>7. ASSUME NEW h \in Fetch, h # f, Newest(h)
      PROVE  RoleOnItsWay'
  <2>1. fetch[h] # Free
    BY <1>7 DEF Newest, Reads
  <2>2. Reads(h)' /\ fetch'[h].answer = role'[url']
    BY <1>1, <1>7, <2>1, ReplyOthers DEF Newest, Reads
  <2>3. ASSUME NEW g \in Fetch \ {h}, Shows(g)'
        PROVE  g \in fetch'[h].earlier \/ fetch'[g].answer = role'[url']
    <3>1. g # f /\ Shows(g) /\ fetch[g] # Free
      BY <1>2, <2>3 DEF Shows, Answered
    <3>2. fetch'[g].answer = fetch[g].answer /\ fetch'[h].earlier = fetch[h].earlier \ {f}
      BY <1>7, <2>1, <3>1, ReplyOthers
    <3>3. g \in fetch[h].earlier \/ fetch[g].answer = role[url]
      BY <1>7, <2>3, <3>1 DEF Newest
    <3> QED
      BY <1>1, <3>1, <3>2, <3>3
  <2>4. Newest(h)'
    BY <2>2, <2>3 DEF Newest
  <2> QED
    BY <2>4 DEF RoleOnItsWay
<1>8. CASE Newest(f)
  <2>1. fetch[f].kind # "save" /\ fetch[f].id = url /\ fetch[f].answer = role[url]
    BY <1>8 DEF Newest, Reads
  <2>2. Found(fetch[f])
    <3>1. fetch[f].kind \in {"load", "refresh"} /\ fetch[f].answer \in Role \cup {NoRole}
      BY <1>1, <2>1, RequestType DEF Shape, TypeOK
    <3> QED
      BY <1>1, <2>1, <3>1 DEF Loses, Found
  <2>3. disordered' \/ doc' = [id |-> url', role |-> role'[url']]
    <3>1. Fresh(fetch[f]) = [id |-> url', role |-> role'[url']]
      BY <1>1, <2>1 DEF Fresh
    <3>2. CASE doc' # Fresh(fetch[f]) /\ doc' = doc /\ disordered' = disordered
      <4>1. doc \in [id : Document, role : Role] /\ doc.role = role[url]
        BY <2>1, <2>2, <3>2, SetDocType DEF Shape, TypeOK
      <4>2. doc.id # url
        BY <1>1, <3>1, <3>2, <4>1
      <4> QED
        BY <3>2, <4>1, <4>2, SetDocType, <2>2 DEF RightDocument
    <3> QED
      BY <1>3, <2>2, <3>1, <3>2
  <2>4. ASSUME NEW g \in Fetch, Shows(g)', ~fetch'[g].overtaken
        PROVE  fetch'[g].answer = role'[url']
    <3>1. g # f /\ Shows(g) /\ fetch[g] # Free
      BY <1>2, <2>4 DEF Shows, Answered
    <3>2. g \notin fetch[f].earlier /\ fetch'[g].answer = fetch[g].answer
      BY <2>2, <2>4, <3>1, ReplyOthers
    <3> QED
      BY <1>1, <1>8, <3>1, <3>2 DEF Newest
  <2> QED
    BY <2>3, <2>4 DEF Settled, RoleOnItsWay
<1>9. CASE Settled
  <2>1. disordered' \/ doc' = [id |-> url', role |-> role'[url']]
    <3>1. CASE Found(fetch[f])
      <4>1. fetch[f].id = url => Shows(f)
        BY <1>1, <3>1 DEF Shows, Answered
      <4> QED
        BY <1>1, <1>3, <1>9, <3>1, <4>1 DEF Settled, Fresh
    <3>2. CASE ~Found(fetch[f])
      BY <1>1, <1>9, <3>2 DEF Reply, Settled
    <3> QED
      BY <3>1, <3>2
  <2>2. ASSUME NEW g \in Fetch, Shows(g)', ~fetch'[g].overtaken
        PROVE  fetch'[g].answer = role'[url']
    <3>1. g # f /\ Shows(g) /\ fetch[g] # Free
      BY <1>2, <2>2 DEF Shows, Answered
    <3>2. ~fetch[g].overtaken /\ fetch'[g].answer = fetch[g].answer
      BY <2>2, <3>1, ReplyOthers
    <3> QED
      BY <1>1, <1>9, <3>1, <3>2 DEF Settled
  <2> QED
    BY <2>1, <2>2 DEF Settled, RoleOnItsWay
<1> QED
  BY <1>1, <1>4, <1>5, <1>6, <1>7, <1>8, <1>9 DEF RoleOnItsWay

LEMMA WayStep ==
  ASSUME Shape, SessionInv, RightDocument, RoleOnItsWay, [Next]_vars
  PROVE  RoleOnItsWay'
<1>1. CASE Cool
  BY <1>1, WayStays DEF Cool, session, history, WillClose
<1>2. CASE SaveTitle
  <2>1. doc.id \in Document /\ Start("save", doc.id)
    BY <1>2 DEF SaveTitle, Shape, TypeOK
  <2>2. /\ UNCHANGED <<role, url, doc, disordered>> /\ (WillClose => WillClose')
        /\ (lost => lost') /\ (missed => missed')
    BY <1>2 DEF SaveTitle, page, session, history, WillClose
  <2> QED
    BY <2>1, <2>2, WayStart DEF RoleOnItsWay
<1>3. ASSUME NEW w \in awaiting, TokenReady(w)
      PROVE  RoleOnItsWay'
  <2>1. WillClose => provider' = provider
    BY <1>3 DEF TokenReady, WillClose, SessionInv, OneEffect, Role, Absent
  <2> QED
    BY <1>3, <2>1, WayStays DEF TokenReady, page, history, WillClose
<1>4. ASSUME NEW f \in Fetch, Errs(f)
      PROVE  RoleOnItsWay'
  <2>1. fetch[f] \in Requests /\ fetch'[f] = [fetch[f] EXCEPT !.answer = "error"]
    BY <1>4, RequestType DEF Errs, Shape
  <2>2. fetch'[f].answer = "error" /\ fetch'[f].kind # "free"
    BY <2>1 DEF Requests
  <2> QED
    BY <2>2 DEF WillErr, Free, RoleOnItsWay
<1>5. ASSUME NEW f \in Fetch, Reply(f)
      PROVE  RoleOnItsWay'
  BY <1>5, WayReply DEF RoleOnItsWay
<1>6. ASSUME NEW d \in Document, Navigate(d)
      PROVE  RoleOnItsWay'
  BY <1>6, WayStart DEF Navigate, RoleOnItsWay
<1>7. ASSUME NEW d \in Document, Connect(d)
      PROVE  RoleOnItsWay'
  <2>1. WillClose => WillClose'
    BY <1>7 DEF Connect, page, WillClose, Role, Shape, TypeOK
  <2> QED
    BY <1>7, <2>1, WayStays DEF Connect, page, history
<1>8. ASSUME NEW d \in Document, Reject(d) \/ Drop(d) \/ ServerCloses(d)
      PROVE  RoleOnItsWay'
  BY <1>8, WayClosed DEF Reject, Drop, ServerCloses
<1>9. ASSUME NEW d \in Document, NEW r \in Role \cup {NoRole}, ChangeRole(d, r)
      PROVE  RoleOnItsWay'
  <2>1. /\ UNCHANGED <<url, doc, lost, fetch, provider, disordered>>
        /\ role' = [role EXCEPT ![d] = r]
        /\ missed => missed'
    BY <1>9 DEF ChangeRole, page, session
  <2>2. CASE d = url
    <3>1. ~missed' => provider[url] \in Role \ {r}
      BY <1>9, <2>2 DEF ChangeRole
    <3>2. role'[url] = r
      BY <2>1, <2>2 DEF Shape, TypeOK
    <3> QED
      BY <2>1, <3>1, <3>2 DEF WillClose, RoleOnItsWay
  <2>3. CASE d # url
    <3>1. role'[url] = role[url]
      BY <2>1, <2>3 DEF Shape, TypeOK
    <3>2. (WillClose => WillClose') /\ (WillRead => WillRead') /\ (WillErr => WillErr')
      BY <2>1, <3>1 DEF WillClose, WillRead, WillErr, Reads
    <3>3. (Settled => Settled') /\ \A f \in Fetch : Newest(f) => Newest(f)'
      BY <2>1, <3>1 DEF Settled, Newest, Reads, Shows, Answered, Found
    <3> QED
      BY <2>1, <3>2, <3>3 DEF RoleOnItsWay
  <2> QED
    BY <2>2, <2>3
<1>10. CASE UNCHANGED vars
  BY <1>10, WayStays DEF vars, page, session, history, WillClose
<1> QED
  BY <1>1, <1>2, <1>3, <1>4, <1>5, <1>6, <1>7, <1>8, <1>9, <1>10, WayHandle DEF Next

\* The page is opened with a read on its way.
LEMMA WayInit == Init => RoleOnItsWay
<1> SUFFICES ASSUME Init PROVE RoleOnItsWay
  OBVIOUS
<1> DEFINE f == CHOOSE g \in Fetch : TRUE
<1>1. f \in Fetch
  BY PageAssumption
<1>2. fetch[f] = Request("load", First) /\ url = First
  BY <1>1 DEF Init
<1> HIDE DEF f
<1>3. Reads(f) /\ fetch[f].answer = "pending"
  BY <1>2 DEF Reads, Request, Free
<1> QED
  BY <1>1, <1>3 DEF WillRead, RoleOnItsWay

\* The inductive invariant: the present role has reached the page, or an answer that
\* carries it, a request that will read it or a close that will bring one is on its way.
THEOREM InductiveInvariant == Spec => []IInv
<1>1. Init => IInv
  BY ShapeInit, SessionInit, WayInit DEF IInv, Init, RightDocument
<1>2. IInv /\ [Next]_vars => IInv'
  BY ShapeStep, SessionStep, RightStep, WayStep DEF IInv
<1> QED
  BY <1>1, <1>2, PTL DEF Spec

\* At rest the page shows the user's role, or that the document is lost, unless a fetch
\* was missed or a reply came late: for any number of requests that overtake each other,
\* navigations and changes of role (DocumentPage.tsx: the load, refreshDoc).
THEOREM PageShowsRole == Spec => []RoleReachesPage
<1>1. IInv => RoleReachesPage
  <2> SUFFICES ASSUME IInv, AtRest, ~missed, ~disordered, ~lost
               PROVE  doc = [id |-> url, role |-> role[url]]
    BY DEF RoleReachesPage
  <2> USE DEF IInv
  <2>1. \A f \in Fetch : fetch[f] = Free
    BY DEF AtRest, FreeSlots
  <2>2. ~WillRead /\ ~WillErr /\ \A f \in Fetch : ~Newest(f)
    BY <2>1 DEF WillRead, WillErr, Newest, Reads
  <2>3. ~WillClose
    <3>1. CASE Enabled
      BY <3>1 DEF AtRest, WillClose
    <3>2. CASE ~Enabled
      <4>1. ~effect.enabled /\ url \in Document
        BY <3>2 DEF SessionInv, OneEffect, Shape, TypeOK
      <4> QED
        BY <4>1 DEF SessionInv, OneProvider, WillClose, Role, Absent
    <3> QED
      BY <3>1, <3>2
  <2> QED
    BY <2>2, <2>3 DEF RoleOnItsWay, Settled
<1> QED
  BY InductiveInvariant, <1>1, PTL

================================================================================
