------------------------------ MODULE RelayProofs ------------------------------
(***************************************************************************)
(* Theorems of Relay, for any number of pages, sessions and edits and any  *)
(* size of the queues.                                                     *)
(***************************************************************************)
EXTENDS Relay, TLAPS, FiniteSetTheorems

\* Whether all the frames of a socket are of edits that a document has.
From(frames, edits) == \A i \in DOMAIN frames : frames[i].content \subseteq edits

\* A frame is of edits its sender had when it sent it, and has still: nothing is
\* ever taken out of a document.
SenderHasThem == \A c \in Connection : From(sent[c], copy[c]) /\ From(queue[c], doc)

\* The page's state vector is unread until its endpoint has joined the room, and the
\* finally clause sets closing before it waits for the lock.
Phases ==
  /\ \A c \in Connection : pc[c] = "joining" => Asks(sent[c])
  /\ \A c \in Connection : pc[c] = "leaving" => c \in closing
  /\ can_write \subseteq entitled

\* The room holds edits only of pages that had a session that writes, and a page holds
\* of others only what the room holds.
ReadersChangeNothing ==
  /\ \A e \in doc : e[1] \in entitled
  /\ \A c \in Connection : \A e \in copy[c] : e[1] = c \/ e \in doc

IInv ==
  TypeOK /\ SenderHasThem /\ Phases /\ NoSilentGap /\ NoEditForgotten /\ ReadersChangeNothing

--------------------------------------------------------------------------------
(* Frames and sequences of them. *)

LEMMA StateVectorBound ==
  ASSUME NEW edits
  PROVE  StateVector(edits) \subseteq edits
BY DEF StateVector

LEMMA FrameTypes ==
  ASSUME NEW edits \in SUBSET Edit, NEW vector
  PROVE  /\ Step1(edits) \in Frame /\ Step2(edits, vector) \in Frame
         /\ SyncUpdate(edits) \in Frame
<1>1. StateVector(edits) \subseteq Edit
  BY StateVectorBound
<1> QED
  BY <1>1 DEF Step1, Step2, SyncUpdate, Frame

\* What a frame brings to the one who merges it.
Brings(frame) == IF frame.type = "step1" THEN {} ELSE frame.content

LEMMA CarriedMember ==
  ASSUME NEW s \in Seq(Frame), NEW e
  PROVE  e \in Carried(s) <=> \E i \in 1..Len(s) : e \in Brings(s[i])
BY DEF Carried, Brings

LEMMA AppendFrame ==
  ASSUME NEW s \in Seq(Frame), NEW f \in Frame
  PROVE  /\ Append(s, f) \in Seq(Frame) /\ Len(Append(s, f)) = Len(s) + 1
         /\ Asks(Append(s, f)) <=> (Asks(s) \/ f.type = "step1")
         /\ Carried(Append(s, f)) = Carried(s) \cup Brings(f)
         /\ \A edits : From(Append(s, f), edits) <=> (From(s, edits) /\ f.content \subseteq edits)
<1> DEFINE t == Append(s, f)
<1>1. t \in Seq(Frame) /\ Len(t) = Len(s) + 1
  OBVIOUS
<1>2. t[Len(s) + 1] = f /\ \A i \in 1..Len(s) : t[i] = s[i]
  OBVIOUS
<1>3. DOMAIN t = 1..Len(s) + 1 /\ DOMAIN s = 1..Len(s) /\ Len(s) \in Nat
  BY <1>1
<1> HIDE DEF t
<1>4. Asks(t) <=> (Asks(s) \/ f.type = "step1")
  BY <1>2, <1>3 DEF Asks
<1>5. \A e : e \in Carried(t) <=> (e \in Carried(s) \/ e \in Brings(f))
  BY <1>1, <1>2, <1>3, CarriedMember
<1>6. \A edits : From(t, edits) <=> (From(s, edits) /\ f.content \subseteq edits)
  BY <1>2, <1>3 DEF From
<1> QED
  BY <1>1, <1>4, <1>5, <1>6 DEF t

LEMMA HeadFrame ==
  ASSUME NEW s \in Seq(Frame), s # <<>>
  PROVE  /\ Head(s) \in Frame /\ Tail(s) \in Seq(Frame) /\ Len(Tail(s)) = Len(s) - 1
         /\ Asks(s) <=> (Head(s).type = "step1" \/ Asks(Tail(s)))
         /\ Carried(s) = Brings(Head(s)) \cup Carried(Tail(s))
         /\ \A edits : From(s, edits) <=> (Head(s).content \subseteq edits /\ From(Tail(s), edits))
<1> DEFINE t == Tail(s)
           f == Head(s)
<1>1. t \in Seq(Frame) /\ Len(t) = Len(s) - 1 /\ f \in Frame /\ Len(s) \in Nat \ {0}
  OBVIOUS
<1>2. s[1] = f /\ \A i \in 1..Len(t) : t[i] = s[i + 1]
  OBVIOUS
<1>3. DOMAIN t = 1..Len(s) - 1 /\ DOMAIN s = 1..Len(s) /\ 1 \in DOMAIN s
  BY <1>1
<1>4. \A i \in 1..Len(s) : i = 1 \/ (i - 1 \in 1..Len(t) /\ s[i] = t[i - 1])
  BY <1>1, <1>2
<1>5. \A i \in 1..Len(t) : i + 1 \in 1..Len(s)
  BY <1>1
<1> HIDE DEF t, f
<1>6. Asks(s) <=> (f.type = "step1" \/ Asks(t))
  BY <1>1, <1>2, <1>3, <1>4, <1>5 DEF Asks
<1>7. ASSUME NEW e
      PROVE  e \in Carried(s) <=> (e \in Brings(f) \/ e \in Carried(t))
  <2>1. e \in Carried(s) <=> \E i \in 1..Len(s) : e \in Brings(s[i])
    BY CarriedMember
  <2>2. e \in Carried(t) <=> \E i \in 1..Len(t) : e \in Brings(t[i])
    BY <1>1, CarriedMember
  <2>3. Brings(s[1]) = Brings(f) /\ 1 \in 1..Len(s)
    BY <1>2, <1>3
  <2>4. \A i \in 1..Len(t) : Brings(t[i]) = Brings(s[i + 1])
    BY <1>2
  <2>5. \A i \in 1..Len(s) : i = 1 \/ (i - 1 \in 1..Len(t) /\ Brings(s[i]) = Brings(t[i - 1]))
    BY <1>4
  <2> QED
    BY <1>5, <2>1, <2>2, <2>3, <2>4, <2>5
<1>8. \A edits : From(s, edits) <=> (f.content \subseteq edits /\ From(t, edits))
  BY <1>1, <1>2, <1>3, <1>4, <1>5 DEF From
<1> QED
  BY <1>1, <1>6, <1>7, <1>8 DEF t, f

LEMMA NoFrame ==
  /\ <<>> \in Seq(Frame) /\ Len(<<>>) = 0 /\ ~Asks(<<>>) /\ Carried(<<>>) = {}
  /\ \A edits : From(<<>>, edits)
BY DEF Asks, Carried, From

LEMMA OneFrame ==
  ASSUME NEW f \in Frame
  PROVE  /\ <<f>> \in Seq(Frame) /\ Len(<<f>>) = 1
         /\ Asks(<<f>>) <=> f.type = "step1"
         /\ \A edits : From(<<f>>, edits) <=> f.content \subseteq edits
BY DEF Asks, From

--------------------------------------------------------------------------------
(* What the steps do to the queues and to the room. *)

LEMMA SendFacts ==
  ASSUME TypeOK, NEW R \in SUBSET Connection, NEW f \in Frame, Send(R, f)
  PROVE  /\ queue' \in [Connection -> Seq(Frame)]
         /\ closer' \subseteq Connection /\ closer \subseteq closer'
         /\ \A d \in Connection :
              /\ Len(queue'[d]) <= QueueSize
              /\ queue'[d] = queue[d] \/ (d \in R /\ queue'[d] = Append(queue[d], f))
              /\ d \in R => d \in closing \cup closer' \/ queue'[d] = Append(queue[d], f)
<1>1. ASSUME NEW d \in Connection
      PROVE  /\ queue'[d] \in Seq(Frame) /\ Len(queue'[d]) <= QueueSize
             /\ queue'[d] = queue[d] \/ (d \in R /\ queue'[d] = Append(queue[d], f))
             /\ d \in R => d \in closing \cup closer' \/ queue'[d] = Append(queue[d], f)
  <2>1. queue[d] \in Seq(Frame) /\ Len(queue[d]) \in Nat /\ Len(queue[d]) <= QueueSize
    BY DEF TypeOK
  <2>2. Append(queue[d], f) \in Seq(Frame) /\ Len(Append(queue[d], f)) = Len(queue[d]) + 1
    BY <2>1, AppendFrame
  <2>3. ~Full(d) => Len(queue[d]) + 1 <= QueueSize
    BY <2>1, RelayAssumption DEF Full
  <2> QED
    BY <2>1, <2>2, <2>3 DEF Send
<1>2. DOMAIN queue' = Connection /\ queue' = [d \in Connection |-> queue'[d]]
  BY DEF Send
<1> QED
  BY <1>1, <1>2 DEF Send, TypeOK

LEMMA SendTo ==
  ASSUME TypeOK, NEW R \in SUBSET Connection, NEW f \in Frame, Send(R, f),
         NEW d \in Connection, d \notin closing, d \notin closer'
  PROVE  /\ d \notin closer
         /\ d \in R => queue'[d] = Append(queue[d], f)
         /\ d \notin R => queue'[d] = queue[d]
BY SendFacts

\* A socket whose session goes on has the frames it had, and one it does not touch
\* keeps all it has.
LEMMA ReceiveFacts ==
  ASSUME TypeOK, NEW c \in Connection, Receive(c)
  PROVE  /\ Head(sent[c]) \in Frame /\ Tail(sent[c]) \in Seq(Frame)
         /\ sent' \in [Connection -> Seq(Frame)] /\ sent'[c] = Tail(sent[c])
         /\ \A d \in Connection \ {c} : sent'[d] = sent[d]
         /\ closing' = closing /\ InRoom' = InRoom /\ c \in InRoom
         /\ pc' \in [Connection -> {"away", "joining", "live", "leaving"}]
         /\ \A d \in Connection : pc'[d] = pc[d] \/ (pc'[d] = "leaving" /\ d \in closing)
<1>1. sent[c] \in Seq(Frame) /\ sent[c] # <<>> /\ pc[c] = "live"
  BY DEF Receive, TypeOK
<1>2. Head(sent[c]) \in Frame /\ Tail(sent[c]) \in Seq(Frame)
  BY <1>1, HeadFrame
<1>3. sent' = [sent EXCEPT ![c] = Tail(sent[c])] /\ sent \in [Connection -> Seq(Frame)]
  BY DEF Receive, TypeOK
<1>4. CASE c \in closing
  <2>1. pc' = [pc EXCEPT ![c] = "leaving"] /\ closing' = closing
    BY <1>4 DEF Receive, Finally, TypeOK
  <2>2. InRoom' = InRoom
    BY <1>1, <2>1 DEF InRoom, TypeOK
  <2> QED
    BY <1>1, <1>2, <1>3, <1>4, <2>1, <2>2 DEF TypeOK, InRoom
<1>5. CASE c \notin closing
  BY <1>1, <1>2, <1>3, <1>5 DEF Receive, TypeOK, InRoom
<1> QED
  BY <1>4, <1>5

--------------------------------------------------------------------------------
(* Type correctness. *)

LEMMA EditBound ==
  ASSUME NEW edits \in SUBSET Edit, NEW c \in Connection,
         NEW n, n = Cardinality({e \in edits : e[1] = c}) + 1, n <= MaxEdits[c]
  PROVE  <<c, n>> \in Edit
<1> DEFINE Own == {e \in edits : e[1] = c}
           All == {c} \X (1..MaxEdits[c])
<1>1. Own \subseteq All
  BY DEF Edit
<1>2. IsFiniteSet(1..MaxEdits[c])
  <2>1. 1 \in Int /\ MaxEdits[c] \in Int
    BY RelayAssumption
  <2> QED
    BY <2>1, FS_Interval, Zenon
<1>3. IsFiniteSet(All)
  BY <1>2, FS_Singleton, FS_Product, Zenon
<1>4. Cardinality(Own) \in Nat
  BY <1>1, <1>3, FS_Subset, FS_CardinalityType
<1>5. n \in 1..MaxEdits[c]
  BY <1>4, RelayAssumption
<1> QED
  BY <1>5 DEF Edit

LEMMA TypeInit == Init => TypeOK
BY NoFrame, RelayAssumption DEF Init, TypeOK

LEMMA SendType ==
  ASSUME TypeOK, NEW c \in Connection, Receive(c)
  PROVE  /\ doc' \subseteq Edit /\ queue' \in [Connection -> Seq(Frame)]
         /\ closer' \subseteq Connection
         /\ \A d \in Connection : Len(queue'[d]) <= QueueSize
<1> DEFINE f == Head(sent[c])
<1>1. f \in Frame /\ f.content \subseteq Edit
  BY ReceiveFacts DEF Frame
<1>2. CASE Answer(c, f)
  <2>1. Step2(doc, f.content) \in Frame
    BY FrameTypes DEF TypeOK
  <2> QED
    BY <1>2, <2>1, SendFacts DEF Answer, TypeOK
<1>3. CASE Apply(c, f)
  <2>1. SyncUpdate(f.content) \in Frame /\ InRoom \ {c} \subseteq Connection
    BY <1>1, FrameTypes DEF InRoom
  <2> QED
    BY <1>1, <1>3, <2>1, SendFacts DEF Apply, TypeOK
<1>4. CASE Ignore(c, f)
  BY <1>4 DEF Ignore, TypeOK
<1> QED
  BY <1>2, <1>3, <1>4 DEF Receive

LEMMA TypeStep == TypeOK /\ [Next]_vars => TypeOK'
<1> SUFFICES ASSUME TypeOK, [Next]_vars
             PROVE  TypeOK'
  OBVIOUS
<1> USE DEF TypeOK
<1>1. CASE UNCHANGED vars
  BY <1>1 DEF vars, page
<1>2. ASSUME NEW c \in Connection, Accept(c)
      PROVE  TypeOK'
  <2>1. <<Step1(copy[c])>> \in Seq(Frame)
    BY FrameTypes, OneFrame
  <2> QED
    BY <1>2, <2>1, RelayAssumption DEF Accept
<1>3. ASSUME NEW c \in Connection, Join(c)
      PROVE  TypeOK'
  <2>1. <<Step1(doc)>> \in Seq(Frame) /\ Len(<<Step1(doc)>>) = 1
    BY FrameTypes, OneFrame
  <2> QED
    BY <1>3, <2>1, RelayAssumption DEF Join, page
<1>4. ASSUME NEW c \in Connection, EndSession(c)
      PROVE  TypeOK'
  BY <1>4, NoFrame, RelayAssumption DEF EndSession
<1>5. ASSUME NEW c \in Connection, Disconnect(c)
      PROVE  TypeOK'
  BY <1>5 DEF Disconnect, Finally, page
<1>6. ASSUME NEW c \in Connection, CloseSlow(c)
      PROVE  TypeOK'
  BY <1>6 DEF CloseSlow, page
<1>7. ASSUME NEW c \in Connection, Receive(c)
      PROVE  TypeOK'
  <2>1. UNCHANGED <<can_write, copy, sessions, entitled>> /\ UNCHANGED closing
    BY <1>7, ReceiveFacts DEF Receive
  <2> QED
    BY <1>7, <2>1, ReceiveFacts, SendType
<1>8. ASSUME NEW c \in Connection, MakeEdit(c)
      PROVE  TypeOK'
  <2> DEFINE n == Cardinality({e \in copy[c] : e[1] = c}) + 1
  <2>1. <<c, n>> \in Edit
    BY <1>8, EditBound DEF MakeEdit
  <2> HIDE DEF n
  <2>2. SyncUpdate({<<c, n>>}) \in Frame
    BY <2>1, FrameTypes
  <2>3. Append(sent[c], SyncUpdate({<<c, n>>})) \in Seq(Frame)
    BY <2>2, AppendFrame
  <2>4. /\ copy' = [copy EXCEPT ![c] = copy[c] \cup {<<c, n>>}]
        /\ sent' = sent \/ sent' = [sent EXCEPT ![c] = Append(sent[c], SyncUpdate({<<c, n>>}))]
    BY <1>8 DEF MakeEdit, n
  <2>5. copy' \in [Connection -> SUBSET Edit] /\ sent' \in [Connection -> Seq(Frame)]
    BY <2>1, <2>3, <2>4
  <2> QED
    BY <1>8, <2>5 DEF MakeEdit
<1>9. ASSUME NEW c \in Connection, Deliver(c)
      PROVE  TypeOK'
  <2> DEFINE f == Head(queue[c])
  <2>1. f \in Frame /\ Tail(queue[c]) \in Seq(Frame) /\ Len(Tail(queue[c])) = Len(queue[c]) - 1
    BY <1>9, HeadFrame DEF Deliver
  <2>2. f.content \subseteq Edit /\ Len(queue[c]) \in Nat
    BY <2>1 DEF Frame
  <2>3. Append(sent[c], Step2(copy[c], f.content)) \in Seq(Frame)
    <3>1. Step2(copy[c], f.content) \in Frame /\ sent[c] \in Seq(Frame)
      BY FrameTypes
    <3> QED
      BY <3>1, AppendFrame
  <2>4. queue' \in [Connection -> Seq(Frame)] /\ \A d \in Connection : Len(queue'[d]) <= QueueSize
    BY <1>9, <2>1, <2>2, RelayAssumption DEF Deliver
  <2>5. sent' \in [Connection -> Seq(Frame)] /\ copy' \in [Connection -> SUBSET Edit]
    BY <1>9, <2>2, <2>3 DEF Deliver
  <2> QED
    BY <1>9, <2>4, <2>5 DEF Deliver
<1> QED
  BY <1>1, <1>2, <1>3, <1>4, <1>5, <1>6, <1>7, <1>8, <1>9 DEF Next, JoinFails, Leave

\* Every variable keeps its type, and no queue holds more than maxsize.
THEOREM TypeCorrect == Spec => []TypeOK
BY TypeInit, TypeStep, PTL DEF Spec

--------------------------------------------------------------------------------
(* Frames hold what their senders have. *)

LEMMA FromGrows ==
  ASSUME NEW s, NEW e1, NEW e2, e1 \subseteq e2, From(s, e1)
  PROVE  From(s, e2)
BY DEF From

LEMMA SendKeeps ==
  ASSUME TypeOK, NEW R \in SUBSET Connection, NEW f \in Frame, Send(R, f),
         NEW edits, NEW d \in Connection
  PROVE  /\ From(queue[d], edits) /\ f.content \subseteq edits => From(queue'[d], edits)
         /\ Asks(queue[d]) => Asks(queue'[d])
         /\ Carried(queue[d]) \subseteq Carried(queue'[d])
<1>1. queue[d] \in Seq(Frame) /\ (queue'[d] = queue[d] \/ queue'[d] = Append(queue[d], f))
  BY SendFacts DEF TypeOK
<1>2. CASE queue'[d] = queue[d]
  BY <1>2
<1>3. CASE queue'[d] = Append(queue[d], f)
  BY <1>1, <1>3, AppendFrame
<1> QED
  BY <1>1, <1>2, <1>3

LEMMA HeldReceive ==
  ASSUME TypeOK, SenderHasThem, NEW c \in Connection, Receive(c)
  PROVE  /\ SenderHasThem' /\ doc \subseteq doc'
         /\ Head(sent[c]).content \subseteq copy[c]
<1> DEFINE f == Head(sent[c])
<1>1. f \in Frame /\ f.content \subseteq copy[c] /\ From(Tail(sent[c]), copy[c])
  BY HeadFrame, ReceiveFacts DEF Receive, TypeOK, SenderHasThem
<1>2. f.content \subseteq Edit /\ copy' = copy
  BY <1>1 DEF Frame, Receive
<1>3. \A d \in Connection : From(sent'[d], copy'[d])
  BY <1>1, <1>2, ReceiveFacts DEF SenderHasThem
<1>4. ASSUME NEW d \in Connection
      PROVE  From(queue'[d], doc') /\ doc \subseteq doc'
  <2>1. CASE Answer(c, f)
    <3>1. Step2(doc, f.content) \in Frame /\ Step2(doc, f.content).content \subseteq doc
      BY FrameTypes DEF TypeOK, Step2
    <3> QED
      BY <2>1, <3>1, SendKeeps DEF Answer, SenderHasThem
  <2>2. CASE Apply(c, f)
    <3>1. SyncUpdate(f.content) \in Frame /\ SyncUpdate(f.content).content \subseteq doc'
      BY <1>2, <2>2, FrameTypes DEF Apply, SyncUpdate
    <3>2. From(queue[d], doc') /\ doc \subseteq doc' /\ InRoom \ {c} \in SUBSET Connection
      BY <2>2, FromGrows DEF Apply, SenderHasThem, InRoom
    <3> QED
      BY <2>2, <3>1, <3>2, SendKeeps DEF Apply
  <2>3. CASE Ignore(c, f)
    BY <2>3 DEF Ignore, SenderHasThem
  <2> QED
    BY <2>1, <2>2, <2>3 DEF Receive
<1> QED
  BY <1>1, <1>3, <1>4 DEF SenderHasThem

\* What MakeEdit adds, and what the socket then carries.
Adds(c, e, f) ==
  /\ e[1] = c /\ copy' = [copy EXCEPT ![c] = copy[c] \cup {e}]
  /\ f \in Frame /\ f.type = "update" /\ f.content = {e}
  /\ IF pc[c] \in {"joining", "live"}
     THEN sent' = [sent EXCEPT ![c] = Append(sent[c], f)]
     ELSE sent' = sent

LEMMA MakeEditFacts ==
  ASSUME TypeOK, NEW c \in Connection, MakeEdit(c)
  PROVE  \E e, f : Adds(c, e, f)
<1> DEFINE n == Cardinality({e \in copy[c] : e[1] = c}) + 1
<1>1. <<c, n>> \in Edit
  BY EditBound DEF MakeEdit, TypeOK
<1>2. SyncUpdate({<<c, n>>}) \in Frame
  BY <1>1, FrameTypes
<1>3. SyncUpdate({<<c, n>>}).type = "update" /\ SyncUpdate({<<c, n>>}).content = {<<c, n>>}
  BY DEF SyncUpdate
<1>4. /\ copy' = [copy EXCEPT ![c] = copy[c] \cup {<<c, n>>}]
      /\ IF pc[c] \in {"joining", "live"}
         THEN sent' = [sent EXCEPT ![c] = Append(sent[c], SyncUpdate({<<c, n>>}))]
         ELSE sent' = sent
  BY DEF MakeEdit
<1> HIDE DEF n
<1>5. <<c, n>>[1] = c
  OBVIOUS
<1> QED
  BY <1>2, <1>3, <1>4, <1>5 DEF Adds

LEMMA DeliverFacts ==
  ASSUME TypeOK, SenderHasThem, NEW c \in Connection, Deliver(c)
  PROVE  /\ Head(queue[c]) \in Frame /\ Head(queue[c]).content \subseteq doc
         /\ queue'[c] = Tail(queue[c]) /\ From(Tail(queue[c]), doc)
         /\ \A d \in Connection \ {c} : UNCHANGED <<queue[d], copy[d], sent[d]>>
         /\ IF Head(queue[c]).type = "step1"
            THEN /\ copy' = copy
                 /\ Step2(copy[c], Head(queue[c]).content) \in Frame
                 /\ sent'[c] = Append(sent[c], Step2(copy[c], Head(queue[c]).content))
            ELSE copy'[c] = copy[c] \cup Head(queue[c]).content /\ sent' = sent
<1> DEFINE f == Head(queue[c])
<1>1. f \in Frame /\ f.content \subseteq doc /\ From(Tail(queue[c]), doc)
  BY HeadFrame DEF Deliver, TypeOK, SenderHasThem
<1>2. Step2(copy[c], f.content) \in Frame
  BY FrameTypes DEF TypeOK
<1>3. /\ queue'[c] = Tail(queue[c])
      /\ \A d \in Connection \ {c} : UNCHANGED <<queue[d], copy[d], sent[d]>>
  BY DEF Deliver, TypeOK
<1>4. IF f.type = "step1"
      THEN copy' = copy /\ sent'[c] = Append(sent[c], Step2(copy[c], f.content))
      ELSE copy'[c] = copy[c] \cup f.content /\ sent' = sent
  BY DEF Deliver, TypeOK
<1> QED
  BY <1>1, <1>2, <1>3, <1>4

LEMMA HeldStep ==
  ASSUME TypeOK, SenderHasThem, [Next]_vars
  PROVE  SenderHasThem'
<1>1. CASE UNCHANGED vars
  BY <1>1 DEF vars, page, SenderHasThem
<1>2. ASSUME NEW c \in Connection, Accept(c)
      PROVE  SenderHasThem'
  <2>1. From(<<Step1(copy[c])>>, copy[c])
    BY FrameTypes, StateVectorBound, OneFrame DEF TypeOK, Step1
  <2> QED
    BY <1>2, <2>1 DEF Accept, SenderHasThem, TypeOK
<1>3. ASSUME NEW c \in Connection, Join(c)
      PROVE  SenderHasThem'
  <2>1. From(<<Step1(doc)>>, doc)
    BY FrameTypes, StateVectorBound, OneFrame DEF TypeOK, Step1
  <2> QED
    BY <1>3, <2>1 DEF Join, page, SenderHasThem, TypeOK
<1>4. ASSUME NEW c \in Connection, EndSession(c)
      PROVE  SenderHasThem'
  BY <1>4, NoFrame DEF EndSession, SenderHasThem, TypeOK
<1>5. ASSUME NEW c \in Connection, Disconnect(c) \/ CloseSlow(c)
      PROVE  SenderHasThem'
  BY <1>5 DEF Disconnect, CloseSlow, page, SenderHasThem
<1>6. ASSUME NEW c \in Connection, MakeEdit(c)
      PROVE  SenderHasThem'
  <2>1. UNCHANGED <<doc, queue>>
    BY <1>6 DEF MakeEdit
  <2>2. PICK e, f : Adds(c, e, f)
    BY <1>6, MakeEditFacts
  <2>3. /\ copy'[c] = copy[c] \cup {e} /\ f \in Frame /\ f.content = {e}
        /\ \A d \in Connection \ {c} : copy'[d] = copy[d] /\ sent'[d] = sent[d]
        /\ sent'[c] = sent[c] \/ sent'[c] = Append(sent[c], f)
    BY <2>2 DEF Adds, TypeOK
  <2>4. From(sent[c], copy'[c]) /\ From(Append(sent[c], f), copy'[c])
    <3>1. sent[c] \in Seq(Frame) /\ From(sent[c], copy[c])
      BY DEF SenderHasThem, TypeOK
    <3>2. From(sent[c], copy'[c])
      BY <2>3, <3>1, FromGrows
    <3> QED
      BY <2>3, <3>1, <3>2, AppendFrame
  <2>5. \A d \in Connection : From(sent'[d], copy'[d])
    BY <2>3, <2>4 DEF SenderHasThem
  <2> QED
    BY <2>1, <2>5 DEF SenderHasThem
<1>7. ASSUME NEW c \in Connection, Deliver(c)
      PROVE  SenderHasThem'
  <2> DEFINE f == Head(queue[c])
  <2>1. doc' = doc /\ \A d \in Connection : From(queue'[d], doc)
    BY <1>7, DeliverFacts DEF Deliver, SenderHasThem
  <2>2. CASE f.type = "step1"
    <3>1. Step2(copy[c], f.content).content \subseteq copy[c]
      BY DEF Step2
    <3>2. sent[c] \in Seq(Frame) /\ From(sent[c], copy[c])
      BY DEF SenderHasThem, TypeOK
    <3>3. /\ copy' = copy /\ Step2(copy[c], f.content) \in Frame
          /\ sent'[c] = Append(sent[c], Step2(copy[c], f.content))
      BY <1>7, <2>2, DeliverFacts
    <3>4. From(sent'[c], copy[c])
      BY <3>1, <3>2, <3>3, AppendFrame
    <3> QED
      BY <1>7, <2>1, <3>3, <3>4, DeliverFacts DEF SenderHasThem
  <2>3. CASE f.type # "step1"
    <3>1. copy[c] \subseteq copy'[c] /\ sent' = sent
      BY <1>7, <2>3, DeliverFacts
    <3>2. From(sent'[c], copy'[c])
      BY <3>1, FromGrows DEF SenderHasThem
    <3> QED
      BY <1>7, <2>1, <3>1, <3>2, DeliverFacts DEF SenderHasThem
  <2> QED
    BY <2>2, <2>3
<1> QED
  BY <1>1, <1>2, <1>3, <1>4, <1>5, <1>6, <1>7, HeldReceive DEF Next, JoinFails, Leave

--------------------------------------------------------------------------------
(* The page's state vector is unread while its endpoint joins. *)

LEMMA PhaseStep ==
  ASSUME TypeOK, SenderHasThem, Phases, [Next]_vars
  PROVE  Phases'
<1>1. CASE UNCHANGED vars
  BY <1>1 DEF vars, page, Phases
<1>2. ASSUME NEW c \in Connection, Accept(c)
      PROVE  Phases'
  <2>1. Asks(<<Step1(copy[c])>>)
    BY FrameTypes, OneFrame DEF TypeOK, Step1
  <2> QED
    BY <1>2, <2>1 DEF Accept, Phases, TypeOK
<1>3. ASSUME NEW c \in Connection, Join(c) \/ EndSession(c) \/ Disconnect(c) \/ CloseSlow(c)
      PROVE  Phases'
  BY <1>3 DEF Join, EndSession, Disconnect, Finally, CloseSlow, page, Phases, TypeOK
<1>4. ASSUME NEW c \in Connection, Receive(c)
      PROVE  Phases'
  <2>1. pc[c] = "live" /\ UNCHANGED <<can_write, entitled>>
    BY <1>4 DEF Receive
  <2> QED
    BY <1>4, <2>1, ReceiveFacts DEF Phases
<1>5. ASSUME NEW c \in Connection, MakeEdit(c)
      PROVE  Phases'
  <2>1. PICK e, f : Adds(c, e, f)
    BY <1>5, MakeEditFacts
  <2>2. sent[c] \in Seq(Frame) /\ f \in Frame
    BY <2>1 DEF Adds, TypeOK
  <2>3. Asks(sent[c]) => Asks(Append(sent[c], f))
    BY <2>2, AppendFrame
  <2>4. \A d \in Connection : Asks(sent[d]) => Asks(sent'[d])
    BY <2>1, <2>3 DEF Adds, TypeOK
  <2> QED
    BY <1>5, <2>4 DEF MakeEdit, Phases
<1>6. ASSUME NEW c \in Connection, Deliver(c)
      PROVE  Phases'
  <2>1. pc[c] = "live" /\ UNCHANGED <<pc, closing, can_write, entitled>>
    BY <1>6 DEF Deliver
  <2> QED
    BY <1>6, <2>1, DeliverFacts DEF Phases
<1> QED
  BY <1>1, <1>2, <1>3, <1>4, <1>5, <1>6 DEF Next, JoinFails, Leave

--------------------------------------------------------------------------------
(* A socket that stays open misses nothing. *)

LEMMA GapReceive ==
  ASSUME TypeOK, SenderHasThem, NoSilentGap, NEW c \in Connection, Receive(c)
  PROVE  NoSilentGap'
<1> SUFFICES ASSUME NEW d \in InRoom', d \notin closing', d \notin closer'
             PROVE  Asks(sent'[d]) \/ doc' \subseteq copy'[d] \cup Carried(queue'[d])
  BY DEF NoSilentGap
<1> DEFINE f == Head(sent[c])
<1>1. d \in InRoom /\ d \in Connection /\ d \notin closing /\ copy' = copy
  BY ReceiveFacts DEF Receive, InRoom
<1>2. f \in Frame /\ f.content \subseteq copy[c] /\ f.content \subseteq Edit
  BY ReceiveFacts, HeldReceive DEF Frame
<1>3. f.type # "step1" => (Asks(sent[d]) => Asks(sent'[d]))
  BY HeadFrame, ReceiveFacts DEF Receive, TypeOK
<1>4. d # c => sent'[d] = sent[d]
  BY <1>1, ReceiveFacts
<1>5. queue[d] \in Seq(Frame)
  BY <1>1 DEF TypeOK
<1>6. d \notin closer => Asks(sent[d]) \/ doc \subseteq copy[d] \cup Carried(queue[d])
  BY <1>1 DEF NoSilentGap
<1>7. CASE Answer(c, f)
  <2> DEFINE g == Step2(doc, f.content)
  <2>1. g \in Frame /\ Brings(g) = doc \ f.content
    BY FrameTypes DEF TypeOK, Brings, Step2
  <2>2. Send({c}, g) /\ doc' = doc
    BY <1>7 DEF Answer
  <2> HIDE DEF g
  <2> DEFINE R == {c}
  <2> R \in SUBSET Connection
    OBVIOUS
  <2>3. /\ d \notin closer /\ (d \in R => queue'[d] = Append(queue[d], g))
        /\ (d \notin R => queue'[d] = queue[d])
    BY <1>1, <2>1, <2>2, SendTo
  <2>4. CASE d = c
    <3>1. Carried(queue'[d]) = Carried(queue[d]) \cup (doc \ f.content)
      BY <1>5, <2>1, <2>3, <2>4, AppendFrame
    <3> QED
      BY <1>1, <1>2, <2>2, <2>4, <3>1
  <2>5. CASE d # c
    BY <1>1, <1>4, <1>6, <2>2, <2>3, <2>5
  <2> QED
    BY <2>4, <2>5
<1>8. CASE Apply(c, f)
  <2> DEFINE g == SyncUpdate(f.content)
  <2>1. g \in Frame /\ Brings(g) = f.content
    BY <1>2, FrameTypes DEF Brings, SyncUpdate
  <2>2. Send(InRoom \ {c}, g) /\ doc' = doc \cup f.content /\ f.type # "step1"
    BY <1>8 DEF Apply
  <2> HIDE DEF g
  <2>3. InRoom \ {c} \in SUBSET Connection
    BY DEF InRoom
  <2>4. /\ d \notin closer /\ (d # c => queue'[d] = Append(queue[d], g))
        /\ (d = c => queue'[d] = queue[d])
    BY <1>1, <2>1, <2>2, <2>3, SendTo
  <2>5. CASE d = c
    BY <1>1, <1>2, <1>3, <1>6, <2>2, <2>4, <2>5
  <2>6. CASE d # c
    <3>1. Carried(queue'[d]) = Carried(queue[d]) \cup f.content
      BY <1>5, <2>1, <2>4, <2>6, AppendFrame
    <3> QED
      BY <1>1, <1>4, <1>6, <2>2, <2>4, <2>6, <3>1
  <2> QED
    BY <2>5, <2>6
<1>9. CASE Ignore(c, f)
  BY <1>1, <1>3, <1>4, <1>6, <1>9 DEF Ignore
<1> QED
  BY <1>7, <1>8, <1>9 DEF Receive

LEMMA GapStep ==
  ASSUME TypeOK, SenderHasThem, Phases, NoSilentGap, [Next]_vars
  PROVE  NoSilentGap'
<1>1. CASE UNCHANGED vars
  BY <1>1 DEF vars, page, NoSilentGap, InRoom
<1>2. ASSUME NEW c \in Connection, Accept(c)
      PROVE  NoSilentGap'
  BY <1>2 DEF Accept, NoSilentGap, InRoom, TypeOK
<1>3. ASSUME NEW c \in Connection, Join(c)
      PROVE  NoSilentGap'
  BY <1>3 DEF Join, page, NoSilentGap, InRoom, Phases, TypeOK
<1>4. ASSUME NEW c \in Connection, EndSession(c)
      PROVE  NoSilentGap'
  BY <1>4 DEF EndSession, NoSilentGap, InRoom, TypeOK
<1>5. ASSUME NEW c \in Connection, Disconnect(c) \/ CloseSlow(c)
      PROVE  NoSilentGap'
  BY <1>5 DEF Disconnect, Finally, CloseSlow, page, NoSilentGap, InRoom, TypeOK
<1>6. ASSUME NEW c \in Connection, MakeEdit(c)
      PROVE  NoSilentGap'
  <2>1. PICK e, f : Adds(c, e, f)
    BY <1>6, MakeEditFacts
  <2>2. sent[c] \in Seq(Frame) /\ f \in Frame
    BY <2>1 DEF Adds, TypeOK
  <2>3. Asks(sent[c]) => Asks(Append(sent[c], f))
    BY <2>2, AppendFrame
  <2>4. \A d \in Connection : (Asks(sent[d]) => Asks(sent'[d])) /\ copy[d] \subseteq copy'[d]
    BY <2>1, <2>3 DEF Adds, TypeOK
  <2> QED
    BY <1>6, <2>4 DEF MakeEdit, NoSilentGap, InRoom
<1>7. ASSUME NEW c \in Connection, Deliver(c)
      PROVE  NoSilentGap'
  <2>1. queue[c] \in Seq(Frame) /\ sent[c] \in Seq(Frame) /\ queue[c] # <<>>
    BY <1>7 DEF Deliver, TypeOK
  <2>2. Carried(queue[c]) = Brings(Head(queue[c])) \cup Carried(queue'[c])
    BY <1>7, <2>1, HeadFrame, DeliverFacts
  <2>3. copy'[c] = copy[c] \cup Brings(Head(queue[c]))
    BY <1>7, DeliverFacts DEF Brings
  <2>4. Asks(sent[c]) => Asks(sent'[c])
    <3> DEFINE g == Step2(copy[c], Head(queue[c]).content)
    <3>1. CASE Head(queue[c]).type = "step1"
      <4>1. g \in Frame /\ sent'[c] = Append(sent[c], g)
        BY <1>7, <3>1, DeliverFacts
      <4> HIDE DEF g
      <4> QED
        BY <2>1, <4>1, AppendFrame
    <3>2. CASE Head(queue[c]).type # "step1"
      BY <1>7, <3>2, DeliverFacts
    <3> QED
      BY <3>1, <3>2
  <2>5. UNCHANGED <<doc, closing, closer, pc>>
    BY <1>7 DEF Deliver
  <2> QED
    BY <1>7, <2>2, <2>3, <2>4, <2>5, DeliverFacts DEF NoSilentGap, InRoom
<1> QED
  BY <1>1, <1>2, <1>3, <1>4, <1>5, <1>6, <1>7, GapReceive DEF Next, JoinFails, Leave

--------------------------------------------------------------------------------
(* What a page may write reaches the room. *)

LEMMA QueuesGrow ==
  ASSUME TypeOK, NEW c \in Connection, Receive(c), NEW d \in Connection, Asks(queue[d])
  PROVE  Asks(queue'[d])
<1> DEFINE f == Head(sent[c])
<1>1. f \in Frame /\ f.content \in SUBSET Edit /\ doc \in SUBSET Edit
  BY ReceiveFacts DEF Frame, TypeOK
<1>2. CASE Answer(c, f)
  <2>1. Step2(doc, f.content) \in Frame /\ Send({c}, Step2(doc, f.content))
    BY <1>1, <1>2, FrameTypes DEF Answer
  <2> QED
    BY <2>1, SendKeeps
<1>3. CASE Apply(c, f)
  <2>1. SyncUpdate(f.content) \in Frame /\ Send(InRoom \ {c}, SyncUpdate(f.content))
    BY <1>1, <1>3, FrameTypes DEF Apply
  <2>2. InRoom \ {c} \in SUBSET Connection
    BY DEF InRoom
  <2> QED
    BY <2>1, <2>2, SendKeeps
<1>4. CASE Ignore(c, f)
  BY <1>4 DEF Ignore
<1> QED
  BY <1>2, <1>3, <1>4 DEF Receive

LEMMA ForgottenReceive ==
  ASSUME TypeOK, SenderHasThem, NoEditForgotten, NEW c \in Connection, Receive(c)
  PROVE  NoEditForgotten'
<1> SUFFICES ASSUME NEW d \in InRoom', d \in can_write', d \notin closing'
             PROVE  Asks(queue'[d]) \/ copy'[d] \subseteq doc' \cup Carried(sent'[d])
  BY DEF NoEditForgotten
<1> DEFINE f == Head(sent[c])
<1>1. d \in InRoom /\ d \in Connection /\ d \notin closing /\ d \in can_write /\ copy' = copy
  BY ReceiveFacts DEF Receive, InRoom
<1>2. Asks(queue[d]) \/ copy[d] \subseteq doc \cup Carried(sent[d])
  BY <1>1 DEF NoEditForgotten
<1>3. (Asks(queue[d]) => Asks(queue'[d])) /\ doc \subseteq doc'
  BY <1>1, QueuesGrow, HeldReceive
<1>4. Carried(sent[c]) = Brings(f) \cup Carried(sent'[c])
  BY HeadFrame, ReceiveFacts DEF Receive, TypeOK
<1>5. CASE d # c
  BY <1>1, <1>2, <1>3, <1>5, ReceiveFacts
<1>6. CASE d = c
  <2>1. Brings(f) \subseteq doc'
    <3>1. CASE Answer(c, f)
      BY <3>1 DEF Answer, Brings
    <3>2. CASE Apply(c, f)
      BY <3>2 DEF Apply, Brings
    <3>3. CASE Ignore(c, f)
      BY <1>1, <1>6, <3>3 DEF Ignore, MayApply, Brings
    <3> QED
      BY <3>1, <3>2, <3>3 DEF Receive
  <2> QED
    BY <1>1, <1>2, <1>3, <1>4, <1>6, <2>1
<1> QED
  BY <1>5, <1>6

LEMMA ForgottenStep ==
  ASSUME TypeOK, SenderHasThem, Phases, NoEditForgotten, [Next]_vars
  PROVE  NoEditForgotten'
<1>1. CASE UNCHANGED vars
  BY <1>1 DEF vars, page, NoEditForgotten, InRoom
<1>2. ASSUME NEW c \in Connection, Accept(c)
      PROVE  NoEditForgotten'
  BY <1>2 DEF Accept, NoEditForgotten, InRoom, TypeOK
<1>3. ASSUME NEW c \in Connection, Join(c)
      PROVE  NoEditForgotten'
  <2>1. Asks(<<Step1(doc)>>)
    BY FrameTypes, OneFrame DEF TypeOK, Step1
  <2> QED
    BY <1>3, <2>1 DEF Join, page, NoEditForgotten, InRoom, TypeOK
<1>4. ASSUME NEW c \in Connection, EndSession(c)
      PROVE  NoEditForgotten'
  BY <1>4 DEF EndSession, NoEditForgotten, InRoom, TypeOK
<1>5. ASSUME NEW c \in Connection, Disconnect(c) \/ CloseSlow(c)
      PROVE  NoEditForgotten'
  BY <1>5 DEF Disconnect, Finally, CloseSlow, page, NoEditForgotten, InRoom, TypeOK
<1>6. ASSUME NEW c \in Connection, MakeEdit(c)
      PROVE  NoEditForgotten'
  <2>1. PICK e, f : Adds(c, e, f)
    BY <1>6, MakeEditFacts
  <2>2. sent[c] \in Seq(Frame) /\ f \in Frame /\ Brings(f) = {e}
    BY <2>1 DEF Adds, Brings, TypeOK
  <2>3. Carried(Append(sent[c], f)) = Carried(sent[c]) \cup {e}
    BY <2>2, AppendFrame
  <2>4. /\ \A d \in Connection \ {c} : copy'[d] = copy[d] /\ sent'[d] = sent[d]
        /\ copy'[c] = copy[c] \cup {e}
        /\ pc[c] = "live" => sent'[c] = Append(sent[c], f)
    BY <2>1 DEF Adds, TypeOK
  <2>5. c \in InRoom \ closing => pc[c] = "live"
    BY DEF InRoom, Phases
  <2>6. UNCHANGED <<doc, queue, closing, can_write, pc>>
    BY <1>6 DEF MakeEdit
  <2> QED
    BY <2>3, <2>4, <2>5, <2>6 DEF NoEditForgotten, InRoom
<1>7. ASSUME NEW c \in Connection, Deliver(c)
      PROVE  NoEditForgotten'
  <2> DEFINE f == Head(queue[c])
  <2>1. queue[c] \in Seq(Frame) /\ sent[c] \in Seq(Frame) /\ queue[c] # <<>>
    BY <1>7 DEF Deliver, TypeOK
  <2>2. UNCHANGED <<doc, closing, can_write, pc>> /\ f.content \subseteq doc
    BY <1>7, DeliverFacts DEF Deliver
  <2>3. f.type # "step1" => (sent' = sent /\ copy'[c] = copy[c] \cup f.content)
    BY <1>7, DeliverFacts
  <2>4. f.type = "step1" => copy'[c] \subseteq doc \cup Carried(sent'[c])
    <3> SUFFICES ASSUME f.type = "step1"
                 PROVE  copy'[c] \subseteq doc \cup Carried(sent'[c])
      OBVIOUS
    <3> DEFINE g == Step2(copy[c], f.content)
    <3>1. /\ g \in Frame /\ Brings(g) = copy[c] \ f.content
          /\ copy' = copy /\ sent'[c] = Append(sent[c], g)
      BY <1>7, DeliverFacts DEF Step2, Brings
    <3> HIDE DEF g
    <3>2. Carried(sent'[c]) = Carried(sent[c]) \cup (copy[c] \ f.content)
      BY <2>1, <3>1, AppendFrame
    <3> QED
      BY <2>2, <3>1, <3>2
  <2>5. Asks(queue[c]) <=> (f.type = "step1" \/ Asks(queue'[c]))
    BY <1>7, <2>1, HeadFrame, DeliverFacts
  <2> QED
    BY <1>7, <2>2, <2>3, <2>4, <2>5, DeliverFacts DEF NoEditForgotten, InRoom
<1> QED
  BY <1>1, <1>2, <1>3, <1>4, <1>5, <1>6, <1>7, ForgottenReceive DEF Next, JoinFails, Leave

--------------------------------------------------------------------------------
(* Readers change nobody's document. *)

LEMMA ReadersStep ==
  ASSUME TypeOK, SenderHasThem, Phases, ReadersChangeNothing, [Next]_vars
  PROVE  ReadersChangeNothing'
<1>1. CASE UNCHANGED vars
  BY <1>1 DEF vars, page, ReadersChangeNothing
<1>2. ASSUME NEW c \in Connection,
             Accept(c) \/ Join(c) \/ EndSession(c) \/ Disconnect(c) \/ CloseSlow(c)
      PROVE  ReadersChangeNothing'
  <2>1. UNCHANGED <<doc, copy>> /\ entitled \subseteq entitled'
    BY <1>2 DEF Accept, Join, EndSession, Disconnect, CloseSlow, page
  <2> QED
    BY <2>1 DEF ReadersChangeNothing
<1>3. ASSUME NEW c \in Connection, Receive(c)
      PROVE  ReadersChangeNothing'
  <2> DEFINE f == Head(sent[c])
  <2>1. f.content \subseteq copy[c] /\ UNCHANGED <<copy, entitled>> /\ doc \subseteq doc'
    BY <1>3, HeldReceive DEF Receive
  <2>2. CASE doc' = doc
    BY <2>1, <2>2 DEF ReadersChangeNothing
  <2>3. CASE Apply(c, f)
    <3>1. c \in entitled /\ doc' = doc \cup f.content
      BY <2>3 DEF Apply, MayApply, Phases
    <3> QED
      BY <2>1, <3>1 DEF ReadersChangeNothing
  <2> QED
    BY <1>3, <2>2, <2>3 DEF Receive, Answer, Ignore
<1>4. ASSUME NEW c \in Connection, MakeEdit(c)
      PROVE  ReadersChangeNothing'
  <2>1. PICK e, f : Adds(c, e, f)
    BY <1>4, MakeEditFacts
  <2>2. /\ e[1] = c /\ copy'[c] = copy[c] \cup {e}
        /\ \A d \in Connection \ {c} : copy'[d] = copy[d]
    BY <2>1 DEF Adds, TypeOK
  <2>3. UNCHANGED <<doc, entitled>>
    BY <1>4 DEF MakeEdit
  <2> QED
    BY <2>2, <2>3 DEF ReadersChangeNothing
<1>5. ASSUME NEW c \in Connection, Deliver(c)
      PROVE  ReadersChangeNothing'
  <2> DEFINE f == Head(queue[c])
  <2>1. f.content \subseteq doc /\ UNCHANGED <<doc, entitled>>
    BY <1>5, DeliverFacts DEF Deliver
  <2>2. /\ copy'[c] \subseteq copy[c] \cup f.content
        /\ \A d \in Connection \ {c} : copy'[d] = copy[d]
    BY <1>5, DeliverFacts
  <2> QED
    BY <2>1, <2>2 DEF ReadersChangeNothing
<1> QED
  BY <1>1, <1>2, <1>3, <1>4, <1>5 DEF Next, JoinFails, Leave

--------------------------------------------------------------------------------
(* The theorems. *)

LEMMA InvInit == Init => IInv
<1>1. Init => TypeOK
  BY TypeInit
<1>2. Init => SenderHasThem
  BY NoFrame DEF Init, SenderHasThem
<1>3. Init => Phases /\ NoSilentGap /\ NoEditForgotten /\ ReadersChangeNothing
  BY DEF Init, Phases, NoSilentGap, NoEditForgotten, ReadersChangeNothing, InRoom
<1> QED
  BY <1>1, <1>2, <1>3 DEF IInv

LEMMA InvStep == IInv /\ [Next]_vars => IInv'
BY TypeStep, HeldStep, PhaseStep, GapStep, ForgottenStep, ReadersStep DEF IInv

\* The inductive invariant: frames hold only what their senders have, a state vector is
\* unread while its endpoint joins, and with these the three properties below.
THEOREM InductiveInvariant == Spec => []IInv
BY InvInit, InvStep, PTL DEF Spec

\* Room.broadcast and Connection.send: a socket that stays open has, or will get, all
\* that the room has, for any number of sockets and any size of the queues.
THEOREM NothingMissed == Spec => []NoSilentGap
<1>1. IInv => NoSilentGap
  BY DEF IInv
<1> QED
  BY <1>1, InductiveInvariant, PTL

\* Room.handle_message and the exchange of state vectors: an edit of a page that may
\* write is in the room, on its way, or will be asked for.
THEOREM NoEditLost == Spec => []NoEditForgotten
<1>1. IInv => NoEditForgotten
  BY DEF IInv
<1> QED
  BY <1>1, InductiveInvariant, PTL

\* Room.handle_message: no frame of a page that never had a role that writes changes a
\* document, and a page gets nothing that is not in the room's.
THEOREM ReadersOnlyRead == Spec => []ReadersChangeNothing
<1>1. IInv => ReadersChangeNothing
  BY DEF IInv
<1> QED
  BY <1>1, InductiveInvariant, PTL

--------------------------------------------------------------------------------
(* The refinement: each step is one of the abstract SharedText, or changes no   *)
(* document.                                                                    *)

Own(c) == {e \in copy[c] : e[1] = c}

\* A page has all the edits that it made, in the room or not, numbered without a gap.
OwnEdits ==
  /\ \A e \in doc : e \in copy[e[1]]
  /\ \A c \in Connection : \E k \in Nat : Own(c) = {c} \X (1..k)

Implemented == Shared!Next \/ UNCHANGED Shared!vars

LEMMA Authors ==
  ASSUME NEW e \in Edit
  PROVE  e[1] \in Connection /\ e[2] \in Nat /\ e = <<e[1], e[2]>>
BY RelayAssumption DEF Edit

\* The next edit of a page is one that nobody has.
LEMMA NextEdit ==
  ASSUME IInv, OwnEdits, NEW c \in Connection, MakeEdit(c)
  PROVE  \E k \in Nat :
           /\ Own(c) = {c} \X (1..k) /\ <<c, k + 1>> \in Edit
           /\ <<c, k + 1>> \notin doc /\ \A d \in Connection : <<c, k + 1>> \notin copy[d]
           /\ copy' = [copy EXCEPT ![c] = copy[c] \cup {<<c, k + 1>>}]
           /\ UNCHANGED <<doc, entitled>>
<1>1. PICK k \in Nat : Own(c) = {c} \X (1..k)
  BY DEF OwnEdits
<1>2. Cardinality(Own(c)) = k
  <2>1. IsFiniteSet(1..k) /\ Cardinality(1..k) = k
    <3>1. 1 \in Int /\ k \in Int
      OBVIOUS
    <3>2. IsFiniteSet(1..k) /\ Cardinality(1..k) = IF 1 > k THEN 0 ELSE k - 1 + 1
      BY <3>1, FS_Interval, Zenon
    <3> QED
      BY <3>2
  <2>2. IsFiniteSet({c}) /\ Cardinality({c}) = 1
    BY FS_Singleton, Zenon
  <2>3. Cardinality({c} \X (1..k)) = 1 * k
    BY <2>1, <2>2, FS_Product, Zenon
  <2> QED
    BY <1>1, <2>3
<1>3. Cardinality({e \in copy[c] : e[1] = c}) + 1 = k + 1
  BY <1>2 DEF Own
<1>4. <<c, k + 1>> \in Edit
  <2>1. copy[c] \in SUBSET Edit
    BY DEF IInv, TypeOK
  <2>2. k + 1 <= MaxEdits[c]
    BY <1>3 DEF MakeEdit
  <2> QED
    BY <1>3, <2>1, <2>2, EditBound
<1>5. <<c, k + 1>> \notin copy[c]
  BY <1>1 DEF Own
<1>6. <<c, k + 1>> \notin doc
  BY <1>5 DEF OwnEdits
<1>7. \A d \in Connection : <<c, k + 1>> \notin copy[d]
  BY <1>5, <1>6 DEF IInv, ReadersChangeNothing
<1>8. copy' = [copy EXCEPT ![c] = copy[c] \cup {<<c, k + 1>>}] /\ UNCHANGED <<doc, entitled>>
  BY <1>3 DEF MakeEdit
<1> QED
  BY <1>1, <1>4, <1>5, <1>6, <1>7, <1>8

\* What a received frame does to the room.
LEMMA ReceiveMerges ==
  ASSUME IInv, NEW c \in Connection, Receive(c)
  PROVE  /\ copy' = copy /\ entitled' = entitled
         /\ \/ doc' = doc
            \/ \E edits \in SUBSET Edit :
                 c \in entitled /\ edits \subseteq copy[c] /\ doc' = doc \cup edits
<1> DEFINE f == Head(sent[c])
<1>1. f \in Frame /\ f.content \subseteq copy[c]
  BY ReceiveFacts, HeldReceive DEF IInv
<1>2. f.content \in SUBSET Edit
  BY <1>1 DEF Frame
<1>3. Answer(c, f) \/ Apply(c, f) \/ Ignore(c, f)
  BY DEF Receive
<1>4. copy' = copy /\ entitled' = entitled
  BY DEF Receive
<1> HIDE DEF f
<1>5. CASE Apply(c, f)
  <2>1. c \in entitled
    BY <1>5 DEF Apply, MayApply, IInv, Phases
  <2> QED
    BY <1>1, <1>2, <1>4, <1>5, <2>1 DEF Apply
<1>6. CASE Answer(c, f) \/ Ignore(c, f)
  BY <1>4, <1>6 DEF Answer, Ignore
<1> QED
  BY <1>3, <1>5, <1>6

\* What a delivered frame does to the page.
LEMMA DeliverTeaches ==
  ASSUME IInv, NEW c \in Connection, Deliver(c)
  PROVE  /\ doc' = doc /\ entitled' = entitled
         /\ \/ copy' = copy
            \/ \E edits \in SUBSET Edit :
                 edits \subseteq doc /\ copy' = [copy EXCEPT ![c] = copy[c] \cup edits]
<1> DEFINE f == Head(queue[c])
<1>1. f \in Frame /\ f.content \subseteq doc
  BY DeliverFacts DEF IInv
<1>2. f.content \in SUBSET Edit
  BY <1>1 DEF Frame
<1> QED
  BY <1>1, <1>2 DEF Deliver

LEMMA OwnStep == IInv /\ OwnEdits /\ [Next]_vars => OwnEdits'
<1> SUFFICES ASSUME IInv, OwnEdits, [Next]_vars
             PROVE  OwnEdits'
  OBVIOUS
<1>0. /\ doc \subseteq Edit /\ copy \in [Connection -> SUBSET Edit]
      /\ \A e \in doc : e \in copy[e[1]]
      /\ \A c \in Connection : \E k \in Nat : Own(c) = {c} \X (1..k)
  BY DEF IInv, TypeOK, OwnEdits
<1>1. ASSUME UNCHANGED <<doc, copy>>
      PROVE  OwnEdits'
  BY <1>0, <1>1 DEF OwnEdits, Own
<1>2. ASSUME NEW c \in Connection, MakeEdit(c)
      PROVE  OwnEdits'
  <2>1. PICK k \in Nat :
          /\ Own(c) = {c} \X (1..k)
          /\ copy' = [copy EXCEPT ![c] = copy[c] \cup {<<c, k + 1>>}] /\ doc' = doc
    BY <1>2, NextEdit
  <2>2. copy'[c] = copy[c] \cup {<<c, k + 1>>} /\ \A d \in Connection \ {c} : copy'[d] = copy[d]
    BY <1>0, <2>1
  <2>3. \A e \in doc' : e \in copy'[e[1]]
    BY <1>0, <2>1, <2>2, Authors
  <2>4. Own(c)' = {c} \X (1..k + 1)
    <3>1. Own(c)' = Own(c) \cup {<<c, k + 1>>}
      BY <2>2 DEF Own
    <3> QED
      BY <2>1, <3>1
  <2>5. \A d \in Connection \ {c} : Own(d)' = Own(d)
    BY <2>2 DEF Own
  <2>6. ASSUME NEW d \in Connection
        PROVE  \E m \in Nat : Own(d)' = {d} \X (1..m)
    <3>1. CASE d = c
      <4>1. k + 1 \in Nat
        OBVIOUS
      <4> QED
        BY <2>4, <3>1, <4>1
    <3>2. CASE d # c
      BY <1>0, <2>5, <3>2
    <3> QED
      BY <3>1, <3>2
  <2> QED
    BY <2>3, <2>6 DEF OwnEdits
<1>3. ASSUME NEW c \in Connection, Receive(c)
      PROVE  OwnEdits'
  <2>1. CASE doc' = doc
    BY <1>1, <1>3, <2>1, ReceiveMerges
  <2>2. CASE doc' # doc
    <3>1. PICK edits \in SUBSET Edit : edits \subseteq copy[c] /\ doc' = doc \cup edits
      BY <1>3, <2>2, ReceiveMerges
    <3>2. copy' = copy
      BY <1>3, ReceiveMerges
    <3>3. ASSUME NEW e \in edits
          PROVE  e \in copy[e[1]]
      BY <1>0, <3>1 DEF IInv, ReadersChangeNothing
    <3> QED
      BY <1>0, <3>1, <3>2, <3>3 DEF OwnEdits, Own
  <2> QED
    BY <2>1, <2>2
<1>4. ASSUME NEW c \in Connection, Deliver(c)
      PROVE  OwnEdits'
  <2>1. CASE copy' = copy
    BY <1>1, <1>4, <2>1, DeliverTeaches
  <2>2. CASE copy' # copy
    <3>1. PICK edits \in SUBSET Edit :
            edits \subseteq doc /\ copy' = [copy EXCEPT ![c] = copy[c] \cup edits]
      BY <1>4, <2>2, DeliverTeaches
    <3>2. /\ doc' = doc /\ copy'[c] = copy[c] \cup edits
          /\ \A d \in Connection \ {c} : copy'[d] = copy[d]
      BY <1>0, <1>4, <3>1, DeliverTeaches
    <3>3. \A d \in Connection : Own(d)' = Own(d)
      BY <1>0, <3>1, <3>2 DEF Own
    <3>4. \A e \in doc' : e \in copy'[e[1]]
      BY <1>0, <3>2, Authors
    <3> QED
      BY <1>0, <3>3, <3>4 DEF OwnEdits
  <2> QED
    BY <2>1, <2>2
<1>5. ASSUME NEW c \in Connection,
             \/ Accept(c) \/ Join(c) \/ JoinFails(c) \/ Leave(c) \/ Disconnect(c) \/ CloseSlow(c)
      PROVE  OwnEdits'
  BY <1>1, <1>5
     DEF Accept, Join, JoinFails, Leave, EndSession, Disconnect, CloseSlow, page
<1>6. CASE UNCHANGED vars
  BY <1>1, <1>6 DEF vars, page
<1> QED
  BY <1>2, <1>3, <1>4, <1>5, <1>6 DEF Next

LEMMA StepImplemented == IInv /\ OwnEdits /\ [Next]_vars => Implemented
<1> SUFFICES ASSUME IInv, OwnEdits, [Next]_vars
             PROVE  Implemented
  OBVIOUS
<1>1. ASSUME UNCHANGED <<doc, copy, entitled>>
      PROVE  Implemented
  BY <1>1 DEF Implemented, Shared!vars
<1>2. ASSUME NEW c \in Connection, Accept(c)
      PROVE  Implemented
  <2>1. UNCHANGED <<doc, copy>> /\ (entitled' = entitled \cup {c} \/ entitled' = entitled)
    BY <1>2 DEF Accept
  <2> QED
    BY <1>1, <2>1 DEF Implemented, Shared!Next, Shared!Admit
<1>3. ASSUME NEW c \in Connection, MakeEdit(c)
      PROVE  Implemented
  <2>1. PICK k \in Nat :
          /\ <<c, k + 1>> \in Edit
          /\ <<c, k + 1>> \notin doc /\ \A d \in Connection : <<c, k + 1>> \notin copy[d]
          /\ copy' = [copy EXCEPT ![c] = copy[c] \cup {<<c, k + 1>>}]
          /\ UNCHANGED <<doc, entitled>>
    BY <1>3, NextEdit
  <2>2. Shared!Write(c, <<c, k + 1>>)
    BY <2>1 DEF Shared!Write, Shared!New
  <2> QED
    BY <2>1, <2>2 DEF Implemented, Shared!Next
<1>4. ASSUME NEW c \in Connection, Receive(c)
      PROVE  Implemented
  <2>1. CASE doc' = doc
    BY <1>1, <1>4, <2>1, ReceiveMerges
  <2>2. CASE doc' # doc
    <3>1. PICK edits \in SUBSET Edit :
            c \in entitled /\ edits \subseteq copy[c] /\ doc' = doc \cup edits
      BY <1>4, <2>2, ReceiveMerges
    <3>2. Shared!Merge(c, edits)
      BY <1>4, <3>1, ReceiveMerges DEF Shared!Merge
    <3> QED
      BY <3>2 DEF Implemented, Shared!Next
  <2> QED
    BY <2>1, <2>2
<1>5. ASSUME NEW c \in Connection, Deliver(c)
      PROVE  Implemented
  <2>1. CASE copy' = copy
    BY <1>1, <1>5, <2>1, DeliverTeaches
  <2>2. CASE copy' # copy
    <3>1. PICK edits \in SUBSET Edit :
            edits \subseteq doc /\ copy' = [copy EXCEPT ![c] = copy[c] \cup edits]
      BY <1>5, <2>2, DeliverTeaches
    <3>2. Shared!Learn(c, edits)
      BY <1>5, <3>1, DeliverTeaches DEF Shared!Learn
    <3> QED
      BY <3>2 DEF Implemented, Shared!Next
  <2> QED
    BY <2>1, <2>2
<1>6. ASSUME NEW c \in Connection,
             \/ Join(c) \/ JoinFails(c) \/ Leave(c) \/ Disconnect(c) \/ CloseSlow(c)
      PROVE  Implemented
  BY <1>1, <1>6 DEF Join, JoinFails, Leave, EndSession, Disconnect, CloseSlow, page
<1>7. CASE UNCHANGED vars
  BY <1>1, <1>7 DEF vars, page
<1> QED
  BY <1>2, <1>3, <1>4, <1>5, <1>6, <1>7 DEF Next

LEMMA InitImplemented == Init => OwnEdits /\ Shared!Init
<1> SUFFICES ASSUME Init
             PROVE  OwnEdits /\ Shared!Init
  OBVIOUS
<1>1. \A c \in Connection : Own(c) = {c} \X (1..0)
  BY DEF Init, Own
<1> QED
  BY <1>1 DEF Init, OwnEdits, Shared!Init

\* The relay implements a text that pages share: an edit is made once and by its author,
\* the room takes edits only from pages that may write, a page only what the room has, and
\* no frame dropped, answered late or sent again takes anything from a document.
THEOREM RefinesSharedText == Spec => ImplementsSharedText
<1>1. Init => OwnEdits /\ Shared!Init
  BY InitImplemented
<1>2. IInv /\ OwnEdits /\ [Next]_vars => OwnEdits'
  BY OwnStep
<1>3. IInv /\ OwnEdits /\ [Next]_vars => [Shared!Next]_(Shared!vars)
  BY StepImplemented DEF Implemented
<1> QED
  BY <1>1, <1>2, <1>3, InductiveInvariant, PTL DEF Spec, ImplementsSharedText, Shared!Spec

================================================================================
