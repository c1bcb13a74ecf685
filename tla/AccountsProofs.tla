------------------------------ MODULE AccountsProofs -----------------------------
(***************************************************************************)
(* Theorems of Accounts, for any number of addresses, spellings and        *)
(* requests at a time.                                                     *)
(***************************************************************************)
EXTENDS Accounts, FiniteSetTheorems, TLAPS

Busy == [pc : Place, call : Register \cup Login]

\* The requests about to count an attempt on an address.
Counting(a) == {q \in Request : At(q, "incr") /\ Of(q) = a}

\* A counter is at most the number of requests begun, less those still to count.
AttemptsCounted ==
  \A a \in Address :
    /\ IsFiniteSet(Counting(a))
    /\ count[a] \in Nat /\ count[a] + Cardinality(Counting(a)) <= begun

Shape ==
  /\ TypeOK
  /\ request \in [Request -> {Free} \cup Busy]
  /\ AttemptsCounted

Inserting(q, a) == At(q, "insert") /\ Of(q) = a

\* Whoever inserts has found no row.  If there is one by now, or another is to insert
\* the same address, the two requests overlap.
OneInserts ==
  \A a \in Address, q \in Request :
    Inserting(q, a) =>
      /\ Rows(a) # {} => a \in raced
      /\ \A r \in Request \ {q} : Inserting(r, a) => a \in raced

Accounted == \A a \in Address : (\E e, f \in Rows(a) : e # f) => a \in raced

IInv == Shape /\ OneInserts /\ Accounted

\* A counter has a time to live, or a request is about to give it one, or the call that
\* was to do so was never made.
CounterExpires ==
  \A a \in Address :
    count[a] > 0 =>
      a \in expiring \cup endless \/ \E q \in Request : At(q, "expire") /\ Of(q) = a

--------------------------------------------------------------------------------
(* Requests. *)

\* What each step makes of the request q it is a step of; the others stay.
LEMMA BusyType ==
  ASSUME Shape, NEW q \in Request, request[q].pc # "free"
  PROVE  /\ request[q] \in Busy /\ Of(q) \in Address
         /\ request[q].call.email \in Email
<1>1. request[q] \in Busy
  BY DEF Shape, Free
<1>2. request[q].call.email \in Email
  BY <1>1 DEF Busy, Register, Login
<1> QED
  BY <1>1, <1>2, AccountsAssumption DEF Of

LEMMA GoStep ==
  ASSUME Shape, NEW q \in Request, request[q].pc # "free", NEW place \in Place,
         Go(q, place)
  PROVE  /\ request' \in [Request -> {Free} \cup Busy]
         /\ request'[q] \in Busy /\ request'[q].pc = place
         /\ request'[q].call = request[q].call
         /\ \A r \in Request \ {q} : request'[r] = request[r]
<1>1. request[q] \in Busy
  BY BusyType
<1>2. [request[q] EXCEPT !.pc = place] \in Busy
  BY <1>1 DEF Busy
<1>3. request' = [request EXCEPT ![q] = [request[q] EXCEPT !.pc = place]]
  BY DEF Go
<1> QED
  BY <1>1, <1>2, <1>3 DEF Shape, Busy

LEMMA FinishStep ==
  ASSUME Shape, NEW q \in Request, Finish(q)
  PROVE  /\ request' \in [Request -> {Free} \cup Busy] /\ request'[q] = Free
         /\ \A r \in Request \ {q} : request'[r] = request[r]
BY DEF Finish, Shape

LEMMA BeginStep ==
  ASSUME Shape, NEW q \in Request, NEW call \in Register \cup Login, Begin(q, call)
  PROVE  /\ request' \in [Request -> {Free} \cup Busy]
         /\ request'[q] \in Busy /\ request'[q].pc \in {"lookup", "incr"}
         /\ \A r \in Request \ {q} : request'[r] = request[r]
<1> DEFINE new == [pc |-> IF call.op = "register" THEN "lookup" ELSE "incr", call |-> call]
<1>1. new \in Busy /\ new.pc \in {"lookup", "incr"}
  BY DEF Busy, Place
<1>2. request' = [request EXCEPT ![q] = new]
  BY DEF Begin
<1> HIDE DEF new
<1> QED
  BY <1>1, <1>2 DEF Shape

LEMMA IncrStep ==
  ASSUME Shape, NEW q \in Request, Incr(q)
  PROVE  /\ Of(q) \in Address /\ At(q, "incr") /\ count[Of(q)] \in Nat
         /\ count' = [count EXCEPT ![Of(q)] = count[Of(q)] + 1]
         /\ \/ count[Of(q)] = 0 /\ Go(q, "expire")
            \/ count[Of(q)] # 0 /\ (Go(q, "find") \/ Finish(q))
<1>1. At(q, "incr") /\ Of(q) \in Address
  BY BusyType DEF Incr, At
<1>2. count[Of(q)] \in Nat
  BY <1>1 DEF Shape, AttemptsCounted
<1> QED
  BY <1>1, <1>2, AccountsAssumption DEF Incr

\* A step of q does one of these to its request.
LEMMA RequestStep ==
  ASSUME Shape, NEW q \in Request,
         Step(q) \/ Fails(q) \/ \E call \in Register \cup Login : Begin(q, call)
  PROVE  /\ request' \in [Request -> {Free} \cup Busy]
         /\ \A r \in Request \ {q} : request'[r] = request[r]
<1>1. ASSUME NEW call \in Register \cup Login, Begin(q, call)
      PROVE  /\ request' \in [Request -> {Free} \cup Busy]
             /\ \A r \in Request \ {q} : request'[r] = request[r]
  BY <1>1, BeginStep
<1>2. CASE Step(q) \/ Fails(q)
  <2>1. Finish(q) \/ \E place \in Place : Go(q, place)
    <3>1. CASE Incr(q)
      BY <3>1, IncrStep DEF Place
    <3>2. CASE Fails(q)
      BY <3>2 DEF Fails
    <3>3. CASE Lookup(q) \/ Insert(q)
      BY <3>3 DEF Lookup, Insert, Place
    <3>4. CASE Expire(q)
      BY <3>4 DEF Expire, Place
    <3>5. CASE Find(q) \/ Clear(q) \/ CreateToken(q)
      BY <3>5 DEF Find, Clear, CreateToken, Place
    <3> QED
      BY <1>2, <3>1, <3>2, <3>3, <3>4, <3>5 DEF Step
  <2>2. request[q].pc # "free"
    BY <1>2 DEF Step, Fails, Lookup, Insert, Incr, Expire, Find, Clear, CreateToken, At
  <2> QED
    BY <2>1, <2>2, FinishStep, GoStep
<1> QED
  BY <1>1, <1>2

--------------------------------------------------------------------------------
(* Counting attempts. *)

\* Fewer requests to count, and no attempt more.
LEMMA CountedLess ==
  ASSUME Shape, NEW a \in Address, Counting(a)' \subseteq Counting(a),
         count'[a] \in Nat, count'[a] <= count[a], begun' \in Nat, begun <= begun'
  PROVE  /\ IsFiniteSet(Counting(a)')
         /\ count'[a] + Cardinality(Counting(a)') <= begun'
<1>1. /\ IsFiniteSet(Counting(a)) /\ count[a] \in Nat
      /\ count[a] + Cardinality(Counting(a)) <= begun
  BY DEF Shape, AttemptsCounted
<1>2. /\ IsFiniteSet(Counting(a)')
      /\ Cardinality(Counting(a)') <= Cardinality(Counting(a))
  BY <1>1, FS_Subset
<1>3. Cardinality(Counting(a)') \in Nat /\ Cardinality(Counting(a)) \in Nat
  BY <1>1, <1>2, FS_CardinalityType
<1>4. begun \in Nat
  BY AccountsAssumption DEF Shape, TypeOK
<1> QED
  BY <1>1, <1>2, <1>3, <1>4

\* A request that does not come to count leaves no set of Counting larger.
LEMMA CountingShrinks ==
  ASSUME Shape, NEW q \in Request, NEW a \in Address,
         \A r \in Request \ {q} : request'[r] = request[r],
         ~At(q, "incr")'
  PROVE  Counting(a)' = Counting(a) \ {q}
BY DEF Counting, At, Of

LEMMA CountedBegin ==
  ASSUME Shape, NEW q \in Request, NEW call \in Register \cup Login, Begin(q, call)
  PROVE  AttemptsCounted'
<1> SUFFICES ASSUME NEW a \in Address
             PROVE  /\ IsFiniteSet(Counting(a)') /\ count'[a] \in Nat
                    /\ count'[a] + Cardinality(Counting(a)') <= begun'
  BY DEF AttemptsCounted
<1>1. /\ IsFiniteSet(Counting(a)) /\ count[a] \in Nat
      /\ count[a] + Cardinality(Counting(a)) <= begun
  BY DEF Shape, AttemptsCounted
<1>2. begun \in Nat /\ begun' = begun + 1 /\ count' = count
  BY AccountsAssumption DEF Shape, TypeOK, Begin, redis
<1>3. Counting(a)' \subseteq Counting(a) \cup {q}
  BY BeginStep DEF Counting, At, Of
<1>4. /\ IsFiniteSet(Counting(a) \cup {q})
      /\ Cardinality(Counting(a) \cup {q}) <= Cardinality(Counting(a)) + 1
  <2>1. Cardinality(Counting(a)) \in Nat
    BY <1>1, FS_CardinalityType
  <2>2. /\ IsFiniteSet(Counting(a) \cup {q})
        /\ Cardinality(Counting(a) \cup {q}) =
             IF q \in Counting(a) THEN Cardinality(Counting(a)) ELSE Cardinality(Counting(a)) + 1
    BY <1>1, FS_AddElement
  <2> QED
    BY <2>1, <2>2
<1>5. /\ IsFiniteSet(Counting(a)')
      /\ Cardinality(Counting(a)') <= Cardinality(Counting(a) \cup {q})
  BY <1>3, <1>4, FS_Subset
<1>6. /\ Cardinality(Counting(a)') \in Nat /\ Cardinality(Counting(a)) \in Nat
      /\ Cardinality(Counting(a) \cup {q}) \in Nat
  BY <1>1, <1>4, <1>5, FS_CardinalityType
<1> QED
  BY <1>1, <1>2, <1>4, <1>5, <1>6

LEMMA CountedIncr ==
  ASSUME Shape, NEW q \in Request, Incr(q)
  PROVE  AttemptsCounted'
<1> SUFFICES ASSUME NEW a \in Address
             PROVE  /\ IsFiniteSet(Counting(a)') /\ count'[a] \in Nat
                    /\ count'[a] + Cardinality(Counting(a)') <= begun'
  BY DEF AttemptsCounted
<1>1. /\ IsFiniteSet(Counting(a)) /\ count[a] \in Nat
      /\ count[a] + Cardinality(Counting(a)) <= begun
  BY DEF Shape, AttemptsCounted
<1>2. begun \in Nat /\ begun' = begun
  BY AccountsAssumption DEF Shape, TypeOK, Incr
<1>3. ~At(q, "incr")' /\ \A r \in Request \ {q} : request'[r] = request[r]
  BY IncrStep, GoStep, FinishStep DEF At, Place, Free
<1>4. Counting(a)' = Counting(a) \ {q}
  BY <1>3, CountingShrinks
<1>5. CASE a # Of(q)
  <2>1. count'[a] = count[a]
    BY <1>5, IncrStep DEF Shape, TypeOK
  <2>2. Counting(a)' \subseteq Counting(a)
    BY <1>4
  <2> QED
    BY <1>1, <1>2, <2>1, <2>2, CountedLess
<1>6. CASE a = Of(q)
  <2>1. q \in Counting(a) /\ count'[a] = count[a] + 1
    BY <1>6, IncrStep DEF Counting, Shape, TypeOK
  <2>2. /\ IsFiniteSet(Counting(a)')
        /\ Cardinality(Counting(a)') = Cardinality(Counting(a)) - 1
    BY <1>1, <1>4, <2>1, FS_RemoveElement
  <2>3. Cardinality(Counting(a)) \in Nat
    BY <1>1, FS_CardinalityType
  <2> QED
    BY <1>1, <1>2, <2>1, <2>2, <2>3
<1> QED
  BY <1>5, <1>6

LEMMA CountedStep ==
  ASSUME Shape, [Next]_vars
  PROVE  AttemptsCounted'
<1> USE DEF Shape
<1>1. begun \in Nat /\ \A a \in Address : count[a] \in Nat
  BY AccountsAssumption DEF TypeOK, AttemptsCounted
<1>2. ASSUME NEW q \in Request,
             Lookup(q) \/ Insert(q) \/ Expire(q) \/ Find(q) \/ Clear(q) \/ CreateToken(q)
               \/ Fails(q)
      PROVE  AttemptsCounted'
  <2> SUFFICES ASSUME NEW a \in Address
               PROVE  /\ IsFiniteSet(Counting(a)') /\ count'[a] \in Nat
                      /\ count'[a] + Cardinality(Counting(a)') <= begun'
    BY DEF AttemptsCounted
  <2>1. begun' = begun /\ count'[a] \in {0, count[a]}
    BY <1>2 DEF Lookup, Insert, Expire, Find, Clear, CreateToken, Fails, Delete, redis, TypeOK
  <2>2. request[q].pc # "free" /\ (Finish(q) \/ \E place \in Place \ {"incr"} : Go(q, place))
    BY <1>2 DEF Lookup, Insert, Expire, Find, Clear, CreateToken, Fails, Place, At
  <2>3. ~At(q, "incr")' /\ \A r \in Request \ {q} : request'[r] = request[r]
    BY <2>2, GoStep, FinishStep DEF At, Free
  <2>4. Counting(a)' \subseteq Counting(a)
    BY <2>3, CountingShrinks
  <2> QED
    BY <1>1, <2>1, <2>4, CountedLess
<1>3. ASSUME NEW b \in Address, WindowEnds(b)
      PROVE  AttemptsCounted'
  <2> SUFFICES ASSUME NEW a \in Address
               PROVE  /\ IsFiniteSet(Counting(a)') /\ count'[a] \in Nat
                      /\ count'[a] + Cardinality(Counting(a)') <= begun'
    BY DEF AttemptsCounted
  <2>1. begun' = begun /\ count'[a] \in {0, count[a]} /\ Counting(a)' = Counting(a)
    BY <1>3 DEF WindowEnds, Delete, TypeOK, Counting, At, Of
  <2> QED
    BY <1>1, <2>1, CountedLess
<1>4. CASE UNCHANGED vars
  BY <1>4 DEF vars, redis, AttemptsCounted, Counting, At, Of
<1> QED
  BY <1>2, <1>3, <1>4, CountedBegin, CountedIncr DEF Next, Step

--------------------------------------------------------------------------------
(* Type correctness. *)

LEMMA ShapeInit == Init => Shape
<1> SUFFICES ASSUME Init PROVE Shape
  OBVIOUS
<1>1. \A a \in Address : Counting(a) = {}
  BY DEF Init, Counting, At, Free
<1>2. AttemptsCounted
  BY <1>1, FS_EmptySet DEF Init, AttemptsCounted
<1> QED
  BY <1>2, AccountsAssumption DEF Init, Shape, TypeOK

\* What TypeOK says, but for the requests and the bound on the counters.
Ranges ==
  /\ users \subseteq Email
  /\ count = [a \in Address |-> count[a]] /\ expiring \subseteq Address
  /\ begun \in 0..MaxRequests /\ failures \in 0..MaxFailures
  /\ raced \subseteq Address /\ endless \subseteq Address

LEMMA RangesStep ==
  ASSUME Shape, [Next]_vars
  PROVE  Ranges'
<1> USE AccountsAssumption DEF Shape, TypeOK, Ranges, redis, history
<1>1. ASSUME NEW q \in Request, NEW call \in Register \cup Login, Begin(q, call)
      PROVE  Ranges'
  BY <1>1 DEF Begin
<1>2. ASSUME NEW q \in Request, Lookup(q)
      PROVE  Ranges'
  <2>1. \A r \in Request : At(r, "insert") => Of(r) \in Address
    BY BusyType DEF At
  <2> QED
    BY <1>2, <2>1 DEF Lookup
<1>3. ASSUME NEW q \in Request, Insert(q)
      PROVE  Ranges'
  BY <1>3, BusyType DEF Insert, At
<1>4. ASSUME NEW q \in Request, Incr(q)
      PROVE  Ranges'
  BY <1>4, IncrStep DEF Incr
<1>5. ASSUME NEW q \in Request, Expire(q) \/ Find(q) \/ CreateToken(q)
      PROVE  Ranges'
  BY <1>5, BusyType DEF Expire, Find, CreateToken, At
<1>6. ASSUME NEW q \in Request, Clear(q)
      PROVE  Ranges'
  BY <1>6 DEF Clear, Delete
<1>7. ASSUME NEW q \in Request, Fails(q)
      PROVE  Ranges'
  BY <1>7, BusyType DEF Fails, At
<1>8. ASSUME NEW a \in Address, WindowEnds(a)
      PROVE  Ranges'
  BY <1>8 DEF WindowEnds, Delete
<1>9. CASE UNCHANGED vars
  BY <1>9 DEF vars
<1> HIDE DEF Shape, TypeOK, Ranges
<1> QED
  BY <1>1, <1>2, <1>3, <1>4, <1>5, <1>6, <1>7, <1>8, <1>9 DEF Next, Step

LEMMA ShapeStep ==
  ASSUME Shape, [Next]_vars
  PROVE  Shape'
<1>1. AttemptsCounted' /\ Ranges'
  BY CountedStep, RangesStep
<1>2. request' \in [Request -> {Free} \cup Busy]
  BY RequestStep DEF Next, WindowEnds, vars, Shape
<1>3. \A a \in Address : count'[a] \in 0..MaxRequests
  <2> SUFFICES ASSUME NEW a \in Address PROVE count'[a] \in 0..MaxRequests
    OBVIOUS
  <2>1. /\ IsFiniteSet(Counting(a)') /\ count'[a] \in Nat
        /\ count'[a] + Cardinality(Counting(a)') <= begun'
    BY <1>1 DEF AttemptsCounted
  <2>2. Cardinality(Counting(a)') \in Nat
    BY <2>1, FS_CardinalityType
  <2> QED
    BY <1>1, <2>1, <2>2, AccountsAssumption DEF Ranges
<1>4. count' \in [Address -> 0..MaxRequests]
  BY <1>1, <1>3 DEF Ranges
<1>5. TypeOK'
  BY <1>1, <1>2, <1>4 DEF Ranges, TypeOK, Busy
<1> QED
  BY <1>1, <1>2, <1>5 DEF Shape

\* Every variable of Accounts keeps its type; no counter passes the number of requests
\* (enforce_rate_limit).
THEOREM TypeCorrect == Spec => []TypeOK
<1>1. Shape /\ [Next]_vars => Shape'
  BY ShapeStep
<1>2. Shape => TypeOK
  BY DEF Shape
<1> QED
  BY ShapeInit, <1>1, <1>2, PTL DEF Spec

--------------------------------------------------------------------------------
(* Accounts. *)

\* A step after which nobody new inserts, and that inserts nothing.
LEMMA NobodyInserts ==
  ASSUME OneInserts, Accounted, users' = users, raced \subseteq raced',
         \A q \in Request, a \in Address : Inserting(q, a)' => Inserting(q, a)
  PROVE  OneInserts' /\ Accounted'
BY DEF OneInserts, Accounted, Rows

\* The lookup finds no row, and marks the addresses that another is to insert.
LEMMA InsertsLookup ==
  ASSUME Shape, OneInserts, Accounted, NEW q \in Request, Lookup(q)
  PROVE  OneInserts' /\ Accounted'
<1>1. users' = users /\ raced \subseteq raced' /\ request[q].pc # "free"
  BY DEF Lookup, At
<1>2. CASE Rows(Of(q)) # {}
  <2>1. Finish(q)
    BY <1>2 DEF Lookup
  <2>2. \A r \in Request, a \in Address : Inserting(r, a)' => Inserting(r, a)
    BY <2>1, FinishStep DEF Inserting, At, Of, Free
  <2> QED
    BY <1>1, <2>2, NobodyInserts
<1>3. CASE Rows(Of(q)) = {}
  <2>1. Go(q, "insert")
    BY <1>3 DEF Lookup
  <2>2. /\ request'[q].call = request[q].call
        /\ \A r \in Request \ {q} : request'[r] = request[r]
    BY <1>1, <2>1, GoStep DEF Place
  <2>3. /\ \A r \in Request \ {q}, a \in Address : Inserting(r, a)' <=> Inserting(r, a)
        /\ \A a \in Address : Inserting(q, a)' => a = Of(q)
    BY <2>2 DEF Inserting, At, Of
  <2>4. \A r \in Request \ {q} : Inserting(r, Of(q)) => Of(q) \in raced'
    BY DEF Lookup, Inserting
  <2>5. OneInserts'
    <3> SUFFICES ASSUME NEW a \in Address, NEW r \in Request, Inserting(r, a)'
                 PROVE  /\ Rows(a) # {} => a \in raced'
                        /\ \A t \in Request \ {r} : Inserting(t, a)' => a \in raced'
      BY <1>1 DEF OneInserts, Rows
    <3>1. CASE r = q
      BY <3>1, <1>3, <2>3, <2>4
    <3>2. CASE r # q
      <4>1. Inserting(r, a)
        BY <3>2, <2>3
      <4> QED
        BY <3>2, <4>1, <1>1, <2>3, <2>4 DEF OneInserts
    <3> QED
      BY <3>1, <3>2
  <2>6. Accounted'
    BY <1>1 DEF Accounted, Rows
  <2> QED
    BY <2>5, <2>6
<1> QED
  BY <1>2, <1>3

\* The insert makes the one row of its address, unless it is marked.
LEMMA InsertsInsert ==
  ASSUME Shape, OneInserts, Accounted, NEW q \in Request, Insert(q)
  PROVE  OneInserts' /\ Accounted'
<1>1. Inserting(q, Of(q)) /\ Of(q) \in Address /\ Of(q) = lower[request[q].call.email]
  BY BusyType DEF Insert, At, Inserting, Of
<1>2. raced' = raced /\ users' = users \cup {request[q].call.email}
  BY DEF Insert, history
<1>3. \A a \in Address : Rows(a)' = Rows(a) \/ a = Of(q)
  BY <1>1, <1>2 DEF Rows
<1>4. \A r \in Request, a \in Address : Inserting(r, a)' => r # q /\ Inserting(r, a)
  BY FinishStep DEF Insert, Inserting, At, Of, Free
<1>5. OneInserts'
  <2> SUFFICES ASSUME NEW a \in Address, NEW r \in Request, Inserting(r, a)'
               PROVE  /\ Rows(a)' # {} => a \in raced
                      /\ \A t \in Request \ {r} : Inserting(t, a)' => a \in raced
    BY <1>2 DEF OneInserts
  <2>1. r # q /\ Inserting(r, a)
    BY <1>4
  <2>2. a = Of(q) => a \in raced
    BY <1>1, <2>1 DEF OneInserts
  <2> QED
    BY <1>3, <1>4, <2>1, <2>2 DEF OneInserts
<1>6. Accounted'
  <2> SUFFICES ASSUME NEW a \in Address, NEW e \in Rows(a)', NEW f \in Rows(a)', e # f
               PROVE  a \in raced
    BY <1>2 DEF Accounted
  <2>1. CASE a # Of(q)
    BY <2>1, <1>3 DEF Accounted
  <2>2. CASE a = Of(q)
    <3>1. Rows(a) # {}
      BY <1>2 DEF Rows
    <3> QED
      BY <1>1, <2>2, <3>1 DEF OneInserts
  <2> QED
    BY <2>1, <2>2
<1> QED
  BY <1>5, <1>6

LEMMA InsertsStep ==
  ASSUME IInv, [Next]_vars
  PROVE  OneInserts' /\ Accounted'
<1> USE DEF IInv
<1>1. ASSUME NEW q \in Request,
             \/ Incr(q) \/ Expire(q) \/ Find(q) \/ Clear(q) \/ CreateToken(q) \/ Fails(q)
             \/ \E call \in Register \cup Login : Begin(q, call)
      PROVE  OneInserts' /\ Accounted'
  <2>1. users' = users /\ raced' = raced
    BY <1>1 DEF Incr, Expire, Find, Clear, CreateToken, Fails, Begin, history
  <2>2. ~At(q, "insert")'
    <3>1. CASE \E call \in Register \cup Login : Begin(q, call)
      BY <3>1, BeginStep DEF At
    <3>2. CASE Fails(q)
      BY <3>2, FinishStep DEF Fails, At, Free
    <3>3. CASE Incr(q)
      BY <3>3, IncrStep, GoStep, FinishStep DEF At, Place, Free
    <3>4. CASE Expire(q) \/ Find(q) \/ Clear(q) \/ CreateToken(q)
      <4>1. request[q].pc # "free" /\ (Finish(q) \/ \E place \in Place \ {"insert"} : Go(q, place))
        BY <3>4 DEF Expire, Find, Clear, CreateToken, Place, At
      <4> QED
        BY <4>1, GoStep, FinishStep DEF At, Free
    <3> QED
      BY <1>1, <3>1, <3>2, <3>3, <3>4
  <2>3. \A r \in Request \ {q} : request'[r] = request[r]
    BY <1>1, RequestStep DEF Step
  <2>4. \A r \in Request, a \in Address : Inserting(r, a)' => Inserting(r, a)
    BY <2>2, <2>3 DEF Inserting, At, Of
  <2> QED
    BY <2>1, <2>4, NobodyInserts
<1>2. ASSUME NEW a \in Address, WindowEnds(a)
      PROVE  OneInserts' /\ Accounted'
  BY <1>2, NobodyInserts DEF WindowEnds, Inserting, At, Of
<1>3. CASE UNCHANGED vars
  BY <1>3, NobodyInserts DEF vars, history, Inserting, At, Of
<1> QED
  BY <1>1, <1>2, <1>3, InsertsLookup, InsertsInsert DEF Next, Step

\* The inductive invariant: two requests that insert one address overlap.
THEOREM InductiveInvariant == Spec => []IInv
<1>1. Init => IInv
  BY ShapeInit DEF Init, IInv, OneInserts, Accounted, Inserting, At, Free, Rows
<1>2. IInv /\ [Next]_vars => IInv'
  BY ShapeStep, InsertsStep DEF IInv
<1> QED
  BY <1>1, <1>2, PTL DEF Spec

\* An address has one account unless two requests registered it at a time, for any
\* number of addresses, spellings and requests (register, the unique index of User).
THEOREM OneAccount == Spec => []OneAccountPerAddress
<1>1. IInv => OneAccountPerAddress
  <2> SUFFICES ASSUME Accounted, NEW a \in Address, a \notin raced
               PROVE  ~(Cardinality(Rows(a)) > 1)
    BY DEF IInv, OneAccountPerAddress
  <2>1. \A e, f \in Rows(a) : e = f
    BY DEF Accounted
  <2>2. Rows(a) = {} \/ \E e : Rows(a) = {e}
    BY <2>1
  <2>3. Cardinality(Rows(a)) \in {0, 1}
    BY <2>2, FS_EmptySet, FS_Singleton
  <2> QED
    BY <2>3
<1> QED
  BY InductiveInvariant, <1>1, PTL

--------------------------------------------------------------------------------
(* The limiter. *)

Expiring(q, a) == At(q, "expire") /\ Of(q) = a

\* A step that leaves the counters and the requests that are to send an EXPIRE.
LEMMA ExpiresStays ==
  ASSUME CounterExpires, NEW a \in Address, count'[a] = count[a],
         expiring \subseteq expiring', endless \subseteq endless',
         \A q \in Request : Expiring(q, a) => Expiring(q, a)'
  PROVE  (count[a] > 0 =>
            a \in expiring \cup endless \/ \E q \in Request : Expiring(q, a))'
BY DEF CounterExpires, Expiring

LEMMA ExpiresStep ==
  ASSUME Shape, CounterExpires, [Next]_vars
  PROVE  CounterExpires'
<1> DEFINE Covered(a) == count[a] > 0 =>
             a \in expiring \cup endless \/ \E q \in Request : Expiring(q, a)
<1> SUFFICES ASSUME NEW a \in Address PROVE Covered(a)'
  BY DEF CounterExpires, Expiring
<1>1. ASSUME NEW q \in Request,
             \/ Lookup(q) \/ Insert(q) \/ Find(q) \/ CreateToken(q)
             \/ \E call \in Register \cup Login : Begin(q, call)
      PROVE  Covered(a)'
  <2>1. UNCHANGED redis /\ endless' = endless /\ ~At(q, "expire")
    BY <1>1 DEF Lookup, Insert, Find, CreateToken, Begin, history, At
  <2>2. \A r \in Request : Expiring(r, a) => Expiring(r, a)'
    BY <1>1, <2>1, RequestStep DEF Expiring, At, Of, Step
  <2> QED
    BY <2>1, <2>2, ExpiresStays DEF redis
<1>2. ASSUME NEW q \in Request, Incr(q)
      PROVE  Covered(a)'
  <2>1. expiring' = expiring /\ endless' = endless
    BY <1>2 DEF Incr, history
  <2>2. /\ At(q, "incr") /\ count[Of(q)] \in Nat
        /\ count' = [count EXCEPT ![Of(q)] = count[Of(q)] + 1]
    BY <1>2, IncrStep
  <2>3. \A r \in Request : Expiring(r, a) => Expiring(r, a)'
    BY <1>2, <2>2, RequestStep DEF Expiring, At, Of, Step
  <2>4. CASE a # Of(q)
    <3>1. count'[a] = count[a]
      BY <2>2, <2>4 DEF Shape, TypeOK
    <3> QED
      BY <2>1, <2>3, <3>1, ExpiresStays
  <2>5. CASE a = Of(q) /\ count[a] = 0
    <3>1. Go(q, "expire") /\ request[q].pc # "free"
      BY <1>2, <2>2, <2>5, IncrStep DEF At
    <3>2. request'[q].pc = "expire" /\ request'[q].call = request[q].call
      BY <3>1, GoStep DEF Place
    <3> QED
      BY <2>5, <3>2 DEF Expiring, At, Of
  <2>6. CASE a = Of(q) /\ count[a] # 0
    <3>1. count[a] > 0
      BY <2>2, <2>6
    <3> QED
      BY <3>1, <2>1, <2>3 DEF CounterExpires, Expiring
  <2> QED
    BY <2>4, <2>5, <2>6
<1>3. ASSUME NEW q \in Request, Expire(q)
      PROVE  Covered(a)'
  <2>1. count' = count /\ endless' = endless
    BY <1>3 DEF Expire, history
  <2>2. CASE a = Of(q)
    BY <1>3, <2>1, <2>2 DEF Expire
  <2>3. CASE a # Of(q)
    <3>1. \A r \in Request : Expiring(r, a) => Expiring(r, a)'
      BY <1>3, <2>3, RequestStep DEF Expiring, At, Of, Step
    <3> QED
      BY <1>3, <2>1, <3>1, ExpiresStays DEF Expire
  <2> QED
    BY <2>2, <2>3
<1>4. ASSUME NEW b \in Address, Delete(b),
             \A r \in Request : Expiring(r, a) => Expiring(r, a)'
      PROVE  Covered(a)'
  <2>1. CASE a = b
    BY <1>4, <2>1 DEF Delete, Shape, TypeOK
  <2>2. CASE a # b
    BY <1>4, <2>2 DEF Delete, Shape, TypeOK, CounterExpires, Expiring
  <2> QED
    BY <2>1, <2>2
<1>5. ASSUME NEW q \in Request, Clear(q)
      PROVE  Covered(a)'
  <2>1. Of(q) \in Address /\ Delete(Of(q))
    BY <1>5, BusyType DEF Clear, At
  <2>2. \A r \in Request : Expiring(r, a) => Expiring(r, a)'
    BY <1>5, RequestStep DEF Clear, Expiring, At, Of, Step
  <2> QED
    BY <1>4, <2>1, <2>2
<1>6. ASSUME NEW b \in Address, WindowEnds(b)
      PROVE  Covered(a)'
  BY <1>4, <1>6 DEF WindowEnds, Expiring, At, Of
<1>7. ASSUME NEW q \in Request, Fails(q)
      PROVE  Covered(a)'
  <2>1. UNCHANGED redis /\ endless \subseteq endless'
    BY <1>7 DEF Fails
  <2>2. CASE Expiring(q, a)
    BY <1>7, <2>2 DEF Fails, Expiring
  <2>3. CASE ~Expiring(q, a)
    <3>1. \A r \in Request : Expiring(r, a) => Expiring(r, a)'
      BY <1>7, <2>3, RequestStep DEF Expiring, At, Of
    <3> QED
      BY <2>1, <3>1, ExpiresStays DEF redis
  <2> QED
    BY <2>2, <2>3
<1>8. CASE UNCHANGED vars
  BY <1>8, ExpiresStays DEF vars, redis, history, Expiring, At, Of
<1> QED
  BY <1>1, <1>2, <1>3, <1>5, <1>6, <1>7, <1>8 DEF Next, Step

\* Every counter has a time to live or a request that is about to give it one, but for
\* those whose EXPIRE was never sent: whatever logins, clears and ends of windows
\* interleave, no other counter can lock an address out for good.  This is what
\* LockoutEnds rests on (enforce_rate_limit, clear_rate_limit).
THEOREM CountersExpire == Spec => []CounterExpires
<1>1. Init => CounterExpires
  BY DEF Init, CounterExpires
<1>2. Shape /\ CounterExpires /\ [Next]_vars => CounterExpires'
  BY ExpiresStep
<1>3. Shape /\ [Next]_vars => Shape'
  BY ShapeStep
<1> QED
  BY ShapeInit, <1>1, <1>2, <1>3, PTL DEF Spec

================================================================================
