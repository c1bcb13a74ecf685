---------------------------- MODULE LiveAccessProofs ----------------------------
(***************************************************************************)
(* Theorems of LiveAccess, for any number of users, sockets, commits and   *)
(* failures.                                                               *)
(***************************************************************************)
EXTENDS LiveAccess, TLAPS

PC == {"idle", "joining", "live", "leaving"}

\* The role a session acts with, or will once it has joined: resolve_role answers in
\* the handshake, so a session may be stale before it is among Room.connections, and
\* StaleRoleIsFound is not inductive without those that are joining.
Acting(c) == pc[c] \in {"joining", "live"} /\ ~closing[c]

\* What will end the session, or the trace of what was to: Connection.revalidate finds it.
Found(c) == c \in missed \/ Notified(c) \/ \E k \in Checker : UnderCheck(k, c)

StaleIsFound == \A c \in Connection : Acting(c) /\ role[c] # granted[UserOf[c]] => Found(c)

\* A look-up that was answered is of a socket whose session has not ended.
AnsweredIsOpen ==
  \A k \in Checker : work[k].step = "answered" => work[k].conn \in Connection

IInv == TypeOK /\ AnsweredIsOpen /\ StaleIsFound

--------------------------------------------------------------------------------
(* What a checker has in hand. *)

LEMMA IdleType == Idle \in WorkType
BY DEF Idle, WorkType, AnyRole

LEMMA NextJobType ==
  ASSUME NEW w \in WorkType, NEW c \in Connection
  PROVE  /\ Turned(w, c) \in WorkType /\ Resumed(w) \in WorkType
         /\ Forgotten(w, c) \in WorkType
BY DEF Turned, Resumed, Forgotten, Idle, WorkType, AnyRole

\* Going on with the loop leaves the sockets that are left.
LEMMA ResumedKeeps ==
  ASSUME NEW w \in WorkType
  PROVE  Resumed(w).todo = w.todo /\ Resumed(w).step = "none"
BY DEF Resumed, Idle, WorkType

LEMMA TurnedKeeps ==
  ASSUME NEW w \in WorkType, NEW c
  PROVE  /\ Turned(w, c).todo = w.todo \ {c} /\ Turned(w, c).conn = w.conn
         /\ Turned(w, c).step = w.step /\ Turned(w, c).answer = w.answer
         /\ Turned(w, c).job = w.job
BY DEF Turned, WorkType

--------------------------------------------------------------------------------
(* Type correctness. *)

LEMMA EndSessionType ==
  ASSUME TypeOK, NEW c \in Connection, EndSession(c)
  PROVE  /\ pc' \in [Connection -> PC] /\ role' \in [Connection -> AnyRole]
         /\ closing' \in [Connection -> BOOLEAN] /\ work' \in [Checker -> WorkType]
         /\ missed' \subseteq Connection
<1>1. work' \in [Checker -> WorkType]
  BY NextJobType DEF EndSession, TypeOK
<1>2. NoRole \in AnyRole
  BY DEF AnyRole
<1> QED
  BY <1>1, <1>2 DEF EndSession, TypeOK, PC

LEMMA CloseType ==
  ASSUME TypeOK, NEW k \in Checker, NEW c \in Connection, Close(k, c)
  PROVE  closing' \in [Connection -> BOOLEAN] /\ work' \in [Checker -> WorkType]
<1>1. NoRole \in AnyRole
  BY DEF AnyRole
<1>2. Turned(work[k], c) \in WorkType /\ Resumed(Turned(work[k], c)) \in WorkType
  BY NextJobType DEF TypeOK
<1>3. [Turned(work[k], c) EXCEPT !.conn = c, !.step = "closing", !.answer = NoRole]
        \in WorkType
  BY <1>1, <1>2 DEF WorkType
<1> QED
  BY <1>2, <1>3 DEF Close, TypeOK

LEMMA OpenEndSession ==
  ASSUME TypeOK, AnsweredIsOpen, NEW c \in Connection, EndSession(c)
  PROVE  AnsweredIsOpen'
<1> SUFFICES ASSUME NEW k \in Checker, work'[k].step = "answered"
             PROVE  work'[k].conn \in Connection
  BY DEF AnsweredIsOpen
<1>1. work[k] \in WorkType /\ work'[k] = Forgotten(work[k], c)
  BY DEF TypeOK, EndSession
<1>2. CASE work[k].conn # c
  BY <1>1, <1>2, TurnedKeeps DEF Forgotten, AnsweredIsOpen
<1>3. CASE work[k].conn = c
  <2>1. work[k].step = "answered" => work'[k].step = "none"
    BY <1>1, <1>3, ResumedKeeps DEF Forgotten
  <2>2. work[k].step # "answered" => work'[k].step = work[k].step
    BY <1>1, <1>3 DEF Forgotten, WorkType
  <2> QED
    BY <2>1, <2>2
<1> QED
  BY <1>2, <1>3

LEMMA OpenClose ==
  ASSUME TypeOK, AnsweredIsOpen, NEW k \in Checker, NEW c \in Connection, Close(k, c)
  PROVE  AnsweredIsOpen'
<1>1. work[k] \in WorkType /\ Turned(work[k], c) \in WorkType
  BY NextJobType DEF TypeOK
<1>2. Resumed(Turned(work[k], c)).step = "none"
  BY <1>1, ResumedKeeps
<1>3. [Turned(work[k], c) EXCEPT !.conn = c, !.step = "closing", !.answer = NoRole].step
        = "closing"
  BY <1>1 DEF WorkType
<1> QED
  BY <1>2, <1>3 DEF Close, AnsweredIsOpen, TypeOK

LEMMA TypeStep ==
  ASSUME TypeOK, AnsweredIsOpen, [Next]_vars
  PROVE  TypeOK' /\ AnsweredIsOpen'
<1> USE LiveAccessAssumption
<1>1. ASSUME NEW f \in [User -> AnyRole], NEW whom \in SUBSET (User \cup {Everyone}),
             ChangeAccess(f, whom)
      PROVE  TypeOK' /\ AnsweredIsOpen'
  BY <1>1 DEF ChangeAccess, TypeOK, AnsweredIsOpen, Event, session
<1>2. CASE DeleteDocument
  <2>1. granted' \in [User -> AnyRole]
    BY <1>2 DEF DeleteDocument, AnyRole
  <2>2. UNCHANGED <<events, session, work, failures, missed>>
    BY <1>2 DEF DeleteDocument
  <2>3. /\ exists' = FALSE /\ unpublished' = unpublished \cup {Deleted}
        /\ changes < MaxChanges /\ changes' = changes + 1
    BY <1>2 DEF DeleteDocument
  <2>4. unpublished' \subseteq Event /\ changes' \in 0..MaxChanges
    BY <2>3 DEF TypeOK, Event
  <2> QED
    BY <2>1, <2>2, <2>3, <2>4 DEF TypeOK, AnsweredIsOpen, session
<1>3. ASSUME NEW e \in Event, Publish(e) \/ LoseEvent(e)
      PROVE  TypeOK' /\ AnsweredIsOpen'
  BY <1>3 DEF Publish, LoseEvent, TypeOK, AnsweredIsOpen, Event, session
<1>4. ASSUME NEW e \in Event, HandleEvent(e)
      PROVE  TypeOK' /\ AnsweredIsOpen'
  <2> DEFINE job == [Idle EXCEPT !.todo = {c \in InRoom : Concerns(e, c)},
                                 !.job = IF e = Deleted THEN "close" ELSE "check"]
  <2>1. job \in WorkType
    BY IdleType DEF WorkType, InRoom
  <2>2. Resumed(job) \in WorkType /\ Resumed(job).step = "none"
    BY <2>1, ResumedKeeps DEF Resumed, Idle, WorkType, AnyRole
  <2>3. work' = [work EXCEPT ![Listener] = Resumed(job)]
    BY <1>4 DEF HandleEvent
  <2> HIDE DEF job
  <2>4. work' \in [Checker -> WorkType] /\ AnsweredIsOpen'
    BY <2>2, <2>3 DEF TypeOK, AnsweredIsOpen, Checker
  <2> QED
    BY <1>4, <2>4 DEF HandleEvent, TypeOK, api, session
<1>5. CASE TimerTick
  <2> DEFINE job == [Idle EXCEPT !.todo = InRoom]
  <2>1. job \in WorkType /\ job.step = "none"
    BY IdleType DEF WorkType, InRoom, Idle
  <2>2. work' = [work EXCEPT ![Timer] = job]
    BY <1>5 DEF TimerTick
  <2> HIDE DEF job
  <2>3. work' \in [Checker -> WorkType] /\ AnsweredIsOpen'
    BY <2>1, <2>2 DEF TypeOK, AnsweredIsOpen, Checker
  <2> QED
    BY <1>5, <2>3 DEF TimerTick, TypeOK, api, session
<1>6. ASSUME NEW c \in Connection, Handshake(c) \/ JoinRoom(c) \/ Disconnect(c)
      PROVE  TypeOK' /\ AnsweredIsOpen'
  BY <1>6 DEF Handshake, JoinRoom, Disconnect, TypeOK, AnsweredIsOpen, api, session
<1>7. ASSUME NEW c \in Connection, Refuse(c) \/ LoadFails(c) \/ Leave(c)
      PROVE  TypeOK' /\ AnsweredIsOpen'
  <2>1. EndSession(c)
    BY <1>7 DEF Refuse, LoadFails, Leave
  <2>2. failures' \in 0..MaxFailures
    BY <1>7 DEF Refuse, LoadFails, Leave, TypeOK
  <2> QED
    BY <1>7, <2>1, <2>2, EndSessionType, OpenEndSession
       DEF Refuse, LoadFails, Leave, TypeOK, PC, api
<1>8. ASSUME NEW k \in Checker, NEW c \in Connection, LookUp(k, c)
      PROVE  TypeOK' /\ AnsweredIsOpen'
  <2> DEFINE job == [Turned(work[k], c) EXCEPT !.conn = c, !.step = "answered",
                                               !.answer = granted[UserOf[c]]]
  <2>1. Turned(work[k], c) \in WorkType /\ granted[UserOf[c]] \in AnyRole
    BY NextJobType DEF TypeOK
  <2>2. job \in WorkType /\ job.conn = c
    BY <2>1 DEF WorkType
  <2>3. work' = [work EXCEPT ![k] = job]
    BY <1>8 DEF LookUp
  <2> HIDE DEF job
  <2>4. work' \in [Checker -> WorkType] /\ AnsweredIsOpen'
    BY <2>2, <2>3 DEF TypeOK, AnsweredIsOpen
  <2> QED
    BY <1>8, <2>4 DEF LookUp, TypeOK, api, session
<1>9. ASSUME NEW k \in Checker, NEW c \in Connection, LookUpFails(k, c)
      PROVE  TypeOK' /\ AnsweredIsOpen'
  <2>1. Resumed(Turned(work[k], c)) \in WorkType
    BY NextJobType DEF TypeOK
  <2>2. Resumed(Turned(work[k], c)).step = "none"
    BY ResumedKeeps, NextJobType DEF TypeOK
  <2>3. work' \in [Checker -> WorkType] /\ AnsweredIsOpen'
    BY <1>9, <2>1, <2>2 DEF LookUpFails, TypeOK, AnsweredIsOpen
  <2> QED
    BY <1>9, <2>3 DEF LookUpFails, TypeOK, api, session
<1>10. ASSUME NEW c \in Connection, CloseDeleted(c)
       PROVE  TypeOK' /\ AnsweredIsOpen'
  <2>1. Listener \in Checker /\ Close(Listener, c)
    BY <1>10 DEF CloseDeleted, Checker
  <2> QED
    BY <1>10, <2>1, CloseType, OpenClose DEF CloseDeleted, TypeOK, api
<1>11. ASSUME NEW k \in Checker, AnswerAgrees(k) \/ CloseReturns(k)
       PROVE  TypeOK' /\ AnsweredIsOpen'
  <2>1. work[k] \in WorkType /\ Resumed(work[k]) \in WorkType /\ Resumed(work[k]).step = "none"
    BY ResumedKeeps DEF TypeOK, Resumed, Idle, WorkType, AnyRole
  <2>2. work' = [work EXCEPT ![k] = Resumed(work[k])]
    BY <1>11 DEF AnswerAgrees, CloseReturns
  <2>3. work' \in [Checker -> WorkType] /\ AnsweredIsOpen'
    BY <2>1, <2>2 DEF TypeOK, AnsweredIsOpen
  <2> QED
    BY <1>11, <2>3 DEF AnswerAgrees, CloseReturns, TypeOK, api, session
<1>12. ASSUME NEW k \in Checker, AnswerRevokes(k)
       PROVE  TypeOK' /\ AnsweredIsOpen'
  <2>1. work[k].conn \in Connection /\ Close(k, work[k].conn)
    BY <1>12 DEF AnswerRevokes, AnsweredIsOpen
  <2> QED
    BY <1>12, <2>1, CloseType, OpenClose DEF AnswerRevokes, TypeOK, api
<1>13. ASSUME NEW k \in Checker, AnswerChanges(k)
       PROVE  TypeOK' /\ AnsweredIsOpen'
  <2>1. work[k].conn \in Connection /\ Close(k, work[k].conn) /\ work[k].answer \in AnyRole
    BY <1>13 DEF AnswerChanges, AnsweredIsOpen, TypeOK, WorkType
  <2> QED
    BY <1>13, <2>1, CloseType, OpenClose DEF AnswerChanges, TypeOK, api
<1>14. CASE UNCHANGED vars
  BY <1>14 DEF vars, TypeOK, AnsweredIsOpen, api, session
<1> QED
  BY <1>1, <1>2, <1>3, <1>4, <1>5, <1>6, <1>7, <1>8, <1>9, <1>10, <1>11, <1>12, <1>13,
     <1>14 DEF Next, Endpoint, Proceed, Answer

LEMMA TypeInit == Init => TypeOK /\ AnsweredIsOpen
<1>1. SUFFICES ASSUME Init PROVE TypeOK /\ AnsweredIsOpen
  OBVIOUS
<1>2. work \in [Checker -> WorkType] /\ AnsweredIsOpen
  BY <1>1, IdleType DEF Init, AnsweredIsOpen, Idle
<1>3. role \in [Connection -> AnyRole] /\ granted \in [User -> AnyRole]
  BY <1>1 DEF Init, AnyRole
<1> QED
  BY <1>1, <1>2, <1>3, LiveAccessAssumption DEF Init, TypeOK

\* Every variable of LiveAccess keeps its type: a checker never acts on an answer for a
\* session that has ended (Connection.close, revalidate).
THEOREM TypeCorrect == Spec => []TypeOK
<1>1. TypeOK /\ AnsweredIsOpen /\ [Next]_vars => (TypeOK /\ AnsweredIsOpen)'
  BY TypeStep
<1> QED
  BY TypeInit, <1>1, PTL DEF Spec

--------------------------------------------------------------------------------
(* Stale roles. *)

\* The end of another session does not disturb the checks of c.
LEMMA ForgottenKeeps ==
  ASSUME TypeOK, NEW k \in Checker, NEW c \in Connection, NEW ended \in Connection,
         c # ended, EndSession(ended), UnderCheck(k, c)
  PROVE  UnderCheck(k, c)'
<1>1. work[k] \in WorkType /\ work'[k] = Forgotten(work[k], ended) /\ role'[c] = role[c]
  BY DEF TypeOK, EndSession
<1>2. CASE work[k].conn # ended
  BY <1>1, <1>2, TurnedKeeps DEF Forgotten, UnderCheck
<1>3. CASE work[k].conn = ended /\ work[k].step = "answered"
  BY <1>1, <1>3, ResumedKeeps DEF Forgotten, UnderCheck
<1>4. CASE work[k].conn = ended /\ work[k].step # "answered"
  <2>1. work'[k].todo = work[k].todo
    BY <1>1, <1>4 DEF Forgotten, WorkType
  <2> QED
    BY <1>4, <2>1 DEF UnderCheck
<1> QED
  BY <1>2, <1>3, <1>4

\* Closing one socket does not disturb the checks of another, unless the task had an
\* answer for it in hand.
LEMMA CloseKeeps ==
  ASSUME TypeOK, NEW k \in Checker, NEW closed \in Connection, Close(k, closed),
         work[k].step = "answered" => work[k].conn = closed,
         NEW j \in Checker, NEW c \in Connection, c # closed,
         role'[c] = role[c], UnderCheck(j, c)
  PROVE  UnderCheck(j, c)'
<1>1. work[k] \in WorkType /\ Turned(work[k], closed) \in WorkType
  BY NextJobType DEF TypeOK
<1>2. CASE j # k
  BY <1>2 DEF Close, TypeOK, UnderCheck
<1>3. CASE j = k
  <2>1. c \in work[k].todo
    BY <1>3 DEF UnderCheck
  <2>2. c \in Turned(work[k], closed).todo
    BY <2>1, <1>1, TurnedKeeps
  <2>3. CASE closing[closed]
    BY <2>2, <2>3, <1>1, <1>3, ResumedKeeps DEF Close, TypeOK, UnderCheck
  <2>4. CASE ~closing[closed]
    <3>1. work'[k].todo = Turned(work[k], closed).todo
      BY <1>1, <2>4 DEF Close, TypeOK, WorkType
    <3> QED
      BY <3>1, <2>2, <1>3 DEF UnderCheck
  <2> QED
    BY <2>3, <2>4
<1> QED
  BY <1>2, <1>3

\* A session whose work, role and events a step leaves alone.
LEMMA Untouched ==
  ASSUME StaleIsFound,
         UNCHANGED <<granted, unpublished, events, pc, role, closing, work>>,
         missed \subseteq missed'
  PROVE  StaleIsFound'
BY DEF StaleIsFound, Acting, Found, Notified, UnderCheck

\* A session of another's end, close or look-up: its own state is as before.
LEMMA OthersStay ==
  ASSUME StaleIsFound, NEW c \in Connection,
         UNCHANGED <<granted, unpublished, events>>,
         pc'[c] = pc[c], role'[c] = role[c], closing'[c] = closing[c],
         c \in missed => c \in missed',
         \A k \in Checker : UnderCheck(k, c) => UnderCheck(k, c)'
  PROVE  (Acting(c) /\ role[c] # granted[UserOf[c]] => Found(c))'
BY DEF StaleIsFound, Acting, Found, Notified

LEMMA StaleEndSession ==
  ASSUME TypeOK, StaleIsFound, NEW ended \in Connection, EndSession(ended),
         UNCHANGED <<api, events>>
  PROVE  StaleIsFound'
<1> SUFFICES ASSUME NEW c \in Connection
             PROVE  (Acting(c) /\ role[c] # granted[UserOf[c]] => Found(c))'
  BY DEF StaleIsFound
<1>1. CASE c = ended
  BY <1>1 DEF EndSession, TypeOK, Acting
<1>2. CASE c # ended
  <2>1. /\ pc'[c] = pc[c] /\ role'[c] = role[c] /\ closing'[c] = closing[c]
        /\ c \in missed => c \in missed'
    BY <1>2 DEF EndSession, TypeOK
  <2>2. \A k \in Checker : UnderCheck(k, c) => UnderCheck(k, c)'
    BY <1>2, ForgottenKeeps
  <2> QED
    BY <2>1, <2>2, OthersStay DEF api
<1> QED
  BY <1>1, <1>2

LEMMA StaleClose ==
  ASSUME TypeOK, StaleIsFound, NEW k \in Checker, NEW closed \in Connection,
         Close(k, closed), work[k].step = "answered" => work[k].conn = closed,
         UNCHANGED <<api, events, pc, missed>>,
         \A c \in Connection \ {closed} : role'[c] = role[c]
  PROVE  StaleIsFound'
<1> SUFFICES ASSUME NEW c \in Connection
             PROVE  (Acting(c) /\ role[c] # granted[UserOf[c]] => Found(c))'
  BY DEF StaleIsFound
<1>1. CASE c = closed
  BY <1>1 DEF Close, TypeOK, Acting
<1>2. CASE c # closed
  <2>1. closing'[c] = closing[c] /\ role'[c] = role[c]
    BY <1>2 DEF Close, TypeOK
  <2>2. \A j \in Checker : UnderCheck(j, c) => UnderCheck(j, c)'
    BY <1>2, <2>1, CloseKeeps
  <2> QED
    BY <2>1, <2>2, OthersStay DEF api
<1> QED
  BY <1>1, <1>2

\* Commits: whoever's role changes has an event coming.
LEMMA StaleCommit ==
  ASSUME TypeOK, StaleIsFound,
         \/ DeleteDocument
         \/ \E f \in [User -> AnyRole], whom \in SUBSET (User \cup {Everyone}) :
              ChangeAccess(f, whom)
  PROVE  StaleIsFound'
<1> SUFFICES ASSUME NEW c \in Connection, Acting(c), role[c] # granted'[UserOf[c]]
             PROVE  Found(c)'
  BY DEF StaleIsFound, Acting, DeleteDocument, ChangeAccess, session
<1>1. UNCHANGED <<events, session, work, missed>> /\ unpublished \subseteq unpublished'
  BY DEF DeleteDocument, ChangeAccess
<1>2. CASE role[c] # granted[UserOf[c]]
  BY <1>1, <1>2 DEF StaleIsFound, Found, Notified, UnderCheck, Acting, session
<1>3. CASE role[c] = granted[UserOf[c]]
  <2>1. CASE DeleteDocument
    BY <2>1 DEF DeleteDocument, Found, Notified, Concerns
  <2>2. ASSUME NEW f \in [User -> AnyRole], NEW whom \in SUBSET (User \cup {Everyone}),
               ChangeAccess(f, whom)
        PROVE  Found(c)'
    <3>1. UserOf[c] \in User /\ f[UserOf[c]] # granted[UserOf[c]]
      BY <1>3, <2>2, LiveAccessAssumption DEF ChangeAccess
    <3>2. Everyone \in whom \/ UserOf[c] \in whom
      BY <2>2, <3>1 DEF ChangeAccess
    <3>3. whom \subseteq unpublished'
      BY <2>2 DEF ChangeAccess
    <3> QED
      BY <3>2, <3>3 DEF Found, Notified, Concerns
  <2> QED
    BY <2>1, <2>2
<1> QED
  BY <1>2, <1>3

\* Events: one that is lost, or handled while a session joins, marks it as missed; one
\* that is handled later puts it on the listener's list.
LEMMA StaleEvent ==
  ASSUME TypeOK, StaleIsFound, NEW e \in Event,
         Publish(e) \/ LoseEvent(e) \/ HandleEvent(e)
  PROVE  StaleIsFound'
<1> SUFFICES ASSUME NEW c \in Connection, Acting(c), role[c] # granted[UserOf[c]]
             PROVE  Found(c)'
  BY DEF StaleIsFound, Acting, Publish, LoseEvent, HandleEvent, api, session
<1>1. Found(c)
  BY DEF StaleIsFound
<1>2. CASE Publish(e)
  BY <1>1, <1>2 DEF Publish, Found, Notified, UnderCheck, session
<1>3. CASE LoseEvent(e)
  BY <1>1, <1>3 DEF LoseEvent, Found, Notified, UnderCheck, session, Acting
<1>4. CASE HandleEvent(e)
  <2> DEFINE list == {d \in InRoom : Concerns(e, d)}
             job == [Idle EXCEPT !.todo = list,
                                 !.job = IF e = Deleted THEN "close" ELSE "check"]
  <2>1. work' = [work EXCEPT ![Listener] = Resumed(job)] /\ role' = role
    BY <1>4 DEF HandleEvent, session
  <2>2. job \in WorkType /\ job.todo = list
    BY IdleType DEF WorkType, InRoom, Idle
  <2>3. work'[Listener].todo = list
    BY <2>1, <2>2, ResumedKeeps DEF TypeOK, Checker
  <2>4. CASE Concerns(e, c)
    <3>1. pc[c] = "joining" => c \in missed'
      BY <1>4, <2>4 DEF HandleEvent
    <3>2. pc[c] = "live" => c \in list
      BY <2>4 DEF InRoom
    <3> QED
      BY <3>1, <3>2, <2>3 DEF Acting, Found, UnderCheck, Checker
  <2>5. CASE ~Concerns(e, c)
    <3>1. Notified(c) => Notified(c)'
      BY <1>4, <2>5 DEF HandleEvent, Notified, api
    <3>2. ASSUME NEW k \in Checker, UnderCheck(k, c)
          PROVE  UnderCheck(k, c)'
      <4>1. k # Listener
        BY <1>4, <3>2 DEF HandleEvent, Resting, UnderCheck
      <4>2. work'[k] = work[k]
        BY <4>1, <2>1 DEF TypeOK
      <4> QED
        BY <2>1, <3>2, <4>2 DEF UnderCheck
    <3> QED
      BY <1>1, <1>4, <3>1, <3>2 DEF HandleEvent, Found
  <2> QED
    BY <2>4, <2>5
<1> QED
  BY <1>2, <1>3, <1>4

\* The handshake answers with the role of that moment; from then on the session counts.
LEMMA StaleEndpoint ==
  ASSUME TypeOK, StaleIsFound, NEW d \in Connection, Endpoint(d)
  PROVE  StaleIsFound'
<1>1. CASE Refuse(d) \/ LoadFails(d) \/ Leave(d)
  BY <1>1, StaleEndSession DEF Refuse, LoadFails, Leave
<1>2. CASE Handshake(d) \/ JoinRoom(d) \/ Disconnect(d)
  <2> SUFFICES ASSUME NEW c \in Connection
               PROVE  (Acting(c) /\ role[c] # granted[UserOf[c]] => Found(c))'
    BY DEF StaleIsFound
  <2>1. UNCHANGED <<api, events, work, missed>>
    BY <1>2 DEF Handshake, JoinRoom, Disconnect
  <2>2. CASE c = d
    <3>1. CASE Handshake(d)
      BY <2>2, <3>1 DEF Handshake, TypeOK, api
    <3>2. CASE JoinRoom(d)
      <4>1. Acting(c)' => Acting(c)
        BY <2>2, <3>2 DEF JoinRoom, Acting
      <4> QED
        BY <4>1, <3>2, <2>1 DEF JoinRoom, StaleIsFound, Found, Notified, UnderCheck, api
    <3>3. CASE Disconnect(d)
      BY <2>2, <3>3 DEF Disconnect, TypeOK, Acting
    <3> QED
      BY <1>2, <3>1, <3>2, <3>3
  <2>3. CASE c # d
    <3>1. pc'[c] = pc[c] /\ role'[c] = role[c] /\ closing'[c] = closing[c]
      BY <1>2, <2>3 DEF Handshake, JoinRoom, Disconnect, TypeOK
    <3>2. \A k \in Checker : UnderCheck(k, c) => UnderCheck(k, c)'
      BY <2>1, <3>1 DEF UnderCheck
    <3> QED
      BY <2>1, <3>1, <3>2, OthersStay DEF api
  <2> QED
    BY <2>2, <2>3
<1> QED
  BY <1>1, <1>2 DEF Endpoint

\* The timer puts every socket of the room on its list, and takes none off.
LEMMA StaleTick ==
  ASSUME TypeOK, StaleIsFound, TimerTick
  PROVE  StaleIsFound'
<1> SUFFICES ASSUME NEW c \in Connection
             PROVE  (Acting(c) /\ role[c] # granted[UserOf[c]] => Found(c))'
  BY DEF StaleIsFound
<1>1. ASSUME NEW k \in Checker, UnderCheck(k, c)
      PROVE  UnderCheck(k, c)'
  <2>1. k # Timer
    BY <1>1 DEF TimerTick, Resting, UnderCheck
  <2> QED
    BY <1>1, <2>1 DEF TimerTick, TypeOK, UnderCheck, session
<1> QED
  BY <1>1, OthersStay DEF TimerTick, api, session

\* A look-up takes its socket off the list.  If the role it finds is another, the answer
\* will show it; if it fails, the session counts as missed.
LEMMA StaleLookUp ==
  ASSUME TypeOK, StaleIsFound, NEW k \in Checker, NEW d \in Connection,
         LookUp(k, d) \/ LookUpFails(k, d)
  PROVE  StaleIsFound'
<1> SUFFICES ASSUME NEW c \in Connection
             PROVE  (Acting(c) /\ role[c] # granted[UserOf[c]] => Found(c))'
  BY DEF StaleIsFound
<1>1. UNCHANGED <<api, events, session>> /\ work[k].step = "none"
  BY DEF LookUp, LookUpFails
<1>2. work[k] \in WorkType /\ Turned(work[k], d) \in WorkType
  BY NextJobType DEF TypeOK
<1>3. CASE c = d /\ LookUp(k, d)
  <2>1. /\ work'[k].conn = d /\ work'[k].step = "answered"
        /\ work'[k].answer = granted[UserOf[d]]
    BY <1>2, <1>3 DEF LookUp, TypeOK, WorkType
  <2> QED
    BY <1>1, <1>3, <2>1 DEF Found, UnderCheck, api, session
<1>4. CASE c = d /\ LookUpFails(k, d)
  BY <1>4 DEF LookUpFails, Found
<1>5. CASE c # d
  <2>1. work'[k].todo = work[k].todo \ {d}
    <3>1. CASE LookUp(k, d)
      BY <3>1, <1>2, TurnedKeeps DEF LookUp, TypeOK, WorkType
    <3>2. CASE LookUpFails(k, d)
      BY <3>2, <1>2, TurnedKeeps, ResumedKeeps DEF LookUpFails, TypeOK
    <3> QED
      BY <3>1, <3>2
  <2>2. \A j \in Checker \ {k} : work'[j] = work[j]
    BY DEF LookUp, LookUpFails, TypeOK
  <2>3. \A j \in Checker : UnderCheck(j, c) => UnderCheck(j, c)'
    BY <1>1, <1>5, <2>1, <2>2 DEF UnderCheck, session
  <2>4. c \in missed => c \in missed'
    BY <1>5 DEF LookUp, LookUpFails
  <2> QED
    BY <1>1, <2>3, <2>4, OthersStay DEF api, session
<1> QED
  BY <1>3, <1>4, <1>5

\* An answer that agrees is of a socket whose role is not stale by that answer.
LEMMA StaleResume ==
  ASSUME TypeOK, StaleIsFound, NEW k \in Checker, AnswerAgrees(k) \/ CloseReturns(k)
  PROVE  StaleIsFound'
<1> SUFFICES ASSUME NEW c \in Connection
             PROVE  (Acting(c) /\ role[c] # granted[UserOf[c]] => Found(c))'
  BY DEF StaleIsFound
<1>1. UNCHANGED <<api, events, session, missed>>
  BY DEF AnswerAgrees, CloseReturns
<1>2. work'[k].todo = work[k].todo /\ \A j \in Checker \ {k} : work'[j] = work[j]
  BY ResumedKeeps DEF AnswerAgrees, CloseReturns, TypeOK
<1>3. \A j \in Checker : UnderCheck(j, c) => UnderCheck(j, c)'
  BY <1>1, <1>2 DEF UnderCheck, AnswerAgrees, CloseReturns, session
<1> QED
  BY <1>1, <1>3, OthersStay DEF api, session

LEMMA StaleProceed ==
  ASSUME TypeOK, AnsweredIsOpen, StaleIsFound, NEW k \in Checker, Proceed(k)
  PROVE  StaleIsFound'
<1>1. CASE AnswerAgrees(k) \/ CloseReturns(k)
  BY <1>1, StaleResume
<1>2. CASE AnswerRevokes(k) \/ AnswerChanges(k)
  <2>1. work[k].conn \in Connection /\ Close(k, work[k].conn)
    BY <1>2 DEF AnswerRevokes, AnswerChanges, AnsweredIsOpen
  <2>2. /\ UNCHANGED <<api, events, pc, missed>>
        /\ \A c \in Connection \ {work[k].conn} : role'[c] = role[c]
    BY <1>2 DEF AnswerRevokes, AnswerChanges, TypeOK
  <2> QED
    BY <2>1, <2>2, StaleClose
<1>3. ASSUME NEW c \in Connection, LookUp(k, c) \/ LookUpFails(k, c)
      PROVE  StaleIsFound'
  BY <1>3, StaleLookUp
<1>4. ASSUME NEW c \in Connection, CloseDeleted(c)
      PROVE  StaleIsFound'
  BY <1>4, StaleClose DEF CloseDeleted, Checker
<1> QED
  BY <1>1, <1>2, <1>3, <1>4 DEF Proceed, Answer

LEMMA StaleStep ==
  ASSUME TypeOK, AnsweredIsOpen, StaleIsFound, [Next]_vars
  PROVE  StaleIsFound'
<1>1. CASE UNCHANGED vars
  BY <1>1, Untouched DEF vars, api, session
<1> QED
  BY <1>1, StaleCommit, StaleEvent, StaleEndpoint, StaleTick, StaleProceed DEF Next

\* The inductive invariant: a session that has looked its role up and may act with it,
\* joined or not, has its user's role or is still to be found.
THEOREM InductiveInvariant == Spec => []IInv
<1>1. Init => IInv
  BY TypeInit DEF Init, IInv, StaleIsFound, Acting
<1>2. IInv /\ [Next]_vars => IInv'
  BY TypeStep, StaleStep DEF IInv
<1> QED
  BY <1>1, <1>2, PTL DEF Spec

\* An open session acts with the role its user has now, or an event or a look-up is on
\* its way to it, or it was missed: for any number of users, sockets, overlapping commits
\* and failures (handle_permission_event, revalidate, sync_endpoint).
THEOREM StaleRolesAreFound == Spec => []StaleRoleIsFound
<1>1. IInv => StaleRoleIsFound
  BY DEF IInv, StaleIsFound, StaleRoleIsFound, Acting, Found
<1> QED
  BY InductiveInvariant, <1>1, PTL

================================================================================
