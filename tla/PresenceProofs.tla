---------------------------- MODULE PresenceProofs -----------------------------
(***************************************************************************)
(* Theorems of Presence, for any number of pages, sockets and moves.       *)
(*                                                                         *)
(* A page takes the frames of a joiner one after the other (TakeAll): what *)
(* holds at the start and is kept by taking one frame holds at the end,    *)
(* by the least number at which it would not.  So a delivery to all pages  *)
(* becomes a few facts (Moved, Told, Delivery) of clocks and frames.       *)
(*                                                                         *)
(* The inductive invariant then says what each socket carries (Ordered,    *)
(* Echoes, Speaks), how far clocks reach (Authentic, Bound, Unknown,       *)
(* Ahead), who is up to date with whom (Converges) and which socket will   *)
(* retract what a page shows (Accounted).                                  *)
(***************************************************************************)
EXTENDS Presence, FiniteSetTheorems, WellFoundedInduction, TLAPS

Entry == [clock : Nat, here : BOOLEAN]
Message == UNION {[S -> Entry] : S \in SUBSET Page}
Clocks == UNION {[S -> Nat] : S \in SUBSET Page}
View == [meta : [Page -> Nat], shown : SUBSET Page, sent : Seq(Message)]

\* What a frame says of a client.
Here(frame, q) == q \in DOMAIN frame /\ frame[q].here
Null(frame, q) == q \in DOMAIN frame /\ ~frame[q].here

\* What some frames, taken in their order, say of a client.
About(frames, q) == \E i \in DOMAIN frames : q \in DOMAIN frames[i]
Retracts(frames, q) == \E i \in DOMAIN frames : Null(frames[i], q)

\* Whenever they say that a client is there, they say later that it is not.
Settled(frames, q) ==
  \A i \in DOMAIN frames :
    Here(frames[i], q) => \E j \in DOMAIN frames : j > i /\ Null(frames[j], q)

\* The clocks of each client never fall, and lie between two others.
Climbs(frames, from, to) ==
  /\ \A i \in DOMAIN frames : \A q \in DOMAIN frames[i] :
       from[q] <= frames[i][q].clock /\ frames[i][q].clock <= to[q]
  /\ \A i, j \in DOMAIN frames : i < j =>
       \A q \in DOMAIN frames[i] \cap DOMAIN frames[j] :
         frames[i][q].clock <= frames[j][q].clock

\* The client is there in all of them, each time with a newer clock, the last time
\* with the one given.
Rises(frames, q, to) ==
  /\ \A i \in DOMAIN frames : q \in DOMAIN frames[i] =>
       /\ frames[i][q].here /\ frames[i][q].clock <= to
       /\ frames[i][q].clock = to \/ \E j \in DOMAIN frames : j > i /\ q \in DOMAIN frames[j]
  /\ \A i, j \in DOMAIN frames : i < j /\ q \in DOMAIN frames[i] /\ q \in DOMAIN frames[j]
       => frames[i][q].clock < frames[j][q].clock

--------------------------------------------------------------------------------
(* Induction: a set of natural numbers that is not empty has a least element. *)

Less == {nn \in Nat \X Nat : nn[1] < nn[2]}

LEMMA LessWellFounded == IsWellFoundedOn(Less, Nat)
BY NatLessThanWellFounded, Zenon DEF OpToRel, Less

LEMMA LeastNumber ==
  ASSUME NEW T \in SUBSET Nat, T # {}
  PROVE  \E m \in T : \A k \in T : m <= k
<1>1. PICK m \in T : \A k \in T : ~(<<k, m>> \in Less)
  BY LessWellFounded, WFMin
<1>2. ASSUME NEW k \in T
      PROVE  m <= k
  <2>1. k \in Nat /\ m \in Nat
    OBVIOUS
  <2>2. <<k, m>> \in Less <=> k < m
    BY <2>1 DEF Less
  <2> QED
    BY <1>1, <2>1, <2>2
<1> QED
  BY <1>2

LEMMA Induction ==
  ASSUME NEW T, 0 \in T, \A n \in Nat : n \in T => n + 1 \in T
  PROVE  Nat \subseteq T
<1> SUFFICES ASSUME Nat \ T # {}
             PROVE  FALSE
  OBVIOUS
<1>1. PICK m \in Nat \ T : \A k \in Nat \ T : m <= k
  BY LeastNumber
<1>2. m # 0 /\ m - 1 \in Nat /\ ~(m <= m - 1)
  BY <1>1
<1>3. m - 1 \in T
  BY <1>1, <1>2
<1> QED
  BY <1>1, <1>2, <1>3

--------------------------------------------------------------------------------
(* Frames taken one after the other. *)

Start(p) == [meta |-> meta[p], shown |-> shown[p], sent |-> <<>>]

\* The views of p from before the first of n frames to after the last.
IsViewing(p, frames, n, view) ==
  view = [i \in 0..n |-> IF i = 0 THEN Start(p) ELSE Take(p, view[i - 1], frames[i])]

LEMMA ViewingExists ==
  ASSUME NEW p, NEW frames, NEW m \in Nat
  PROVE  \E view : IsViewing(p, frames, m, view)
<1> DEFINE T == {n \in Nat : \E view : IsViewing(p, frames, n, view)}
<1>1. 0 \in T
  <2> DEFINE one == [i \in 0..0 |-> Start(p)]
  <2>1. one = [i \in 0..0 |-> IF i = 0 THEN Start(p) ELSE Take(p, one[i - 1], frames[i])]
    OBVIOUS
  <2> HIDE DEF one
  <2> QED
    BY <2>1 DEF IsViewing
<1>2. ASSUME NEW n \in Nat, n \in T
      PROVE  n + 1 \in T
  <2>1. PICK view : IsViewing(p, frames, n, view)
    BY <1>2
  <2> DEFINE longer ==
        [i \in 0..(n + 1) |-> IF i = n + 1 THEN Take(p, view[n], frames[n + 1]) ELSE view[i]]
  <2> DEFINE again ==
        [i \in 0..(n + 1) |-> IF i = 0 THEN Start(p) ELSE Take(p, longer[i - 1], frames[i])]
  <2>2. ASSUME NEW i \in 0..(n + 1)
        PROVE  longer[i] = again[i]
    <3>1. CASE i = n + 1
      <4>1. n \in 0..(n + 1) /\ n # n + 1 /\ i # 0 /\ i - 1 = n
        BY <3>1
      <4>2. longer[n] = view[n]
        BY <4>1
      <4> QED
        BY <3>1, <4>1, <4>2
    <3>2. CASE i = 0
      <4>1. view[0] = Start(p) /\ i # n + 1
        BY <2>1, <3>2 DEF IsViewing
      <4> QED
        BY <3>2, <4>1
    <3>3. CASE i # 0 /\ i # n + 1
      <4>1. i \in 0..n /\ i - 1 \in 0..(n + 1) /\ i - 1 # n + 1
        BY <3>3
      <4>2. view[i] = Take(p, view[i - 1], frames[i])
        BY <2>1, <3>3, <4>1 DEF IsViewing
      <4>3. longer[i] = view[i] /\ longer[i - 1] = view[i - 1]
        BY <3>3, <4>1
      <4> QED
        BY <3>3, <4>2, <4>3
    <3> QED
      BY <3>1, <3>2, <3>3
  <2>3. longer = again
    <3> HIDE DEF Take, Start
    <3> QED
      BY <2>2
  <2> HIDE DEF longer
  <2>4. IsViewing(p, frames, n + 1, longer)
    BY <2>3 DEF IsViewing
  <2> QED
    BY <2>4
<1> HIDE DEF T
<1>3. m \in T
  BY <1>1, <1>2, Induction
<1> QED
  BY <1>3 DEF T

LEMMA TakeAllViewing ==
  ASSUME NEW p, NEW frames, Len(frames) \in Nat
  PROVE  \E view : /\ IsViewing(p, frames, Len(frames), view)
                   /\ TakeAll(p, frames) = view[Len(frames)]
<1> DEFINE chosen == CHOOSE view : IsViewing(p, frames, Len(frames), view)
<1>1. IsViewing(p, frames, Len(frames), chosen)
  BY ViewingExists
<1>2. TakeAll(p, frames) = chosen[Len(frames)]
  BY DEF TakeAll, Start, IsViewing
<1> QED
  BY <1>1, <1>2

\* A set that has the view before the frames, and with a view the one after another
\* frame, has the view after them all.
LEMMA TakeAllInduction ==
  ASSUME NEW p, NEW frames, Len(frames) \in Nat, NEW Good, Start(p) \in Good,
         \A v \in Good : \A i \in 1..Len(frames) : Take(p, v, frames[i]) \in Good
  PROVE  TakeAll(p, frames) \in Good
<1> DEFINE n == Len(frames)
<1>1. PICK view : IsViewing(p, frames, n, view) /\ TakeAll(p, frames) = view[n]
  BY TakeAllViewing
<1> DEFINE T == {i \in Nat : i <= n => view[i] \in Good}
<1>2. 0 \in T
  BY <1>1 DEF IsViewing
<1>3. ASSUME NEW i \in Nat, i \in T
      PROVE  i + 1 \in T
  <2> SUFFICES ASSUME i + 1 <= n
               PROVE  view[i + 1] \in Good
    OBVIOUS
  <2>1. view[i] \in Good /\ i + 1 \in 1..n /\ i + 1 \in 0..n /\ (i + 1) - 1 = i
    BY <1>3
  <2>2. view[i + 1] = Take(p, view[i], frames[i + 1])
    BY <1>1, <2>1 DEF IsViewing
  <2> QED
    BY <2>1, <2>2
<1> HIDE DEF T
<1>4. n \in T
  BY <1>2, <1>3, Induction
<1> QED
  BY <1>1, <1>4 DEF T

LEMMA TakeAllOfNone ==
  ASSUME NEW p, NEW frames, Len(frames) = 0
  PROVE  TakeAll(p, frames) = Start(p)
<1>1. PICK view : IsViewing(p, frames, 0, view) /\ TakeAll(p, frames) = view[0]
  BY TakeAllViewing
<1> QED
  BY <1>1 DEF IsViewing

LEMMA TakeAllOfOne ==
  ASSUME NEW p, NEW frames, Len(frames) = 1
  PROVE  TakeAll(p, frames) = Take(p, Start(p), frames[1])
<1>1. PICK view : IsViewing(p, frames, 1, view) /\ TakeAll(p, frames) = view[1]
  BY TakeAllViewing
<1>2. 0 \in 0..1 /\ 1 \in 0..1 /\ 1 # 0 /\ 1 - 1 = 0
  OBVIOUS
<1>3. view[1] = Take(p, view[0], frames[1]) /\ view[0] = Start(p)
  BY <1>1, <1>2 DEF IsViewing
<1> QED
  BY <1>1, <1>3

--------------------------------------------------------------------------------
(* Frames and sequences of them. *)

LEMMA MessageFacts ==
  ASSUME NEW f \in Message
  PROVE  /\ DOMAIN f \subseteq Page
         /\ \A q \in DOMAIN f : f[q] \in Entry /\ f[q].clock \in Nat /\ f[q].here \in BOOLEAN
BY DEF Message, Entry

LEMMA IsMessage ==
  ASSUME NEW S \in SUBSET Page, NEW f \in [S -> Entry]
  PROVE  f \in Message /\ DOMAIN f = S
BY DEF Message

LEMMA ConcatFacts ==
  ASSUME NEW s \in Seq(Message), NEW t \in Seq(Message)
  PROVE  /\ s \o t \in Seq(Message)
         /\ DOMAIN (s \o t) = 1..(Len(s) + Len(t))
         /\ DOMAIN s = 1..Len(s) /\ DOMAIN t = 1..Len(t) /\ Len(s) \in Nat /\ Len(t) \in Nat
         /\ \A i \in DOMAIN s : (s \o t)[i] = s[i]
         /\ \A i \in DOMAIN t : (s \o t)[Len(s) + i] = t[i]
         /\ \A i \in DOMAIN (s \o t) :
              \/ i \in DOMAIN s
              \/ i - Len(s) \in DOMAIN t /\ Len(s) + (i - Len(s)) = i
OBVIOUS

LEMMA ConcatSays ==
  ASSUME NEW s \in Seq(Message), NEW t \in Seq(Message), NEW q
  PROVE  /\ About(s \o t, q) <=> About(s, q) \/ About(t, q)
         /\ Retracts(s \o t, q) <=> Retracts(s, q) \/ Retracts(t, q)
<1> DEFINE u == s \o t
<1>1. /\ DOMAIN u = 1..(Len(s) + Len(t))
      /\ DOMAIN s = 1..Len(s) /\ DOMAIN t = 1..Len(t) /\ Len(s) \in Nat /\ Len(t) \in Nat
      /\ \A i \in DOMAIN s : i \in DOMAIN u /\ u[i] = s[i]
      /\ \A i \in DOMAIN t : Len(s) + i \in DOMAIN u /\ u[Len(s) + i] = t[i]
      /\ \A i \in DOMAIN u : i \in DOMAIN s \/ (i - Len(s) \in DOMAIN t /\ Len(s) + (i - Len(s)) = i)
  BY ConcatFacts
<1> HIDE DEF u
<1>2. About(u, q) <=> About(s, q) \/ About(t, q)
  BY <1>1 DEF About
<1>3. Retracts(u, q) <=> Retracts(s, q) \/ Retracts(t, q)
  BY <1>1 DEF Retracts
<1> QED
  BY <1>2, <1>3 DEF u

LEMMA ConcatSettled ==
  ASSUME NEW s \in Seq(Message), NEW t \in Seq(Message), NEW q,
         Settled(t, q), Settled(s, q) \/ Retracts(t, q)
  PROVE  Settled(s \o t, q)
<1> DEFINE u == s \o t
<1>1. /\ DOMAIN u = 1..(Len(s) + Len(t))
      /\ DOMAIN s = 1..Len(s) /\ DOMAIN t = 1..Len(t) /\ Len(s) \in Nat /\ Len(t) \in Nat
      /\ \A i \in DOMAIN s : i \in DOMAIN u /\ u[i] = s[i]
      /\ \A i \in DOMAIN t : Len(s) + i \in DOMAIN u /\ u[Len(s) + i] = t[i]
      /\ \A i \in DOMAIN u : i \in DOMAIN s \/ (i - Len(s) \in DOMAIN t /\ Len(s) + (i - Len(s)) = i)
  BY ConcatFacts
<1> HIDE DEF u
<1> SUFFICES ASSUME NEW i \in DOMAIN u, Here(u[i], q)
             PROVE  \E j \in DOMAIN u : j > i /\ Null(u[j], q)
  BY DEF Settled, u
<1>2. CASE i \in DOMAIN s
  <2>1. CASE Settled(s, q)
    <3>1. PICK j \in DOMAIN s : j > i /\ Null(s[j], q)
      BY <1>1, <1>2, <2>1 DEF Settled
    <3> QED
      BY <1>1, <3>1
  <2>2. CASE Retracts(t, q)
    <3>1. PICK j \in DOMAIN t : Null(t[j], q)
      BY <2>2 DEF Retracts
    <3>2. Len(s) + j \in DOMAIN u /\ Len(s) + j > i
      BY <1>1, <1>2
    <3> QED
      BY <1>1, <3>1, <3>2
  <2> QED
    BY <2>1, <2>2
<1>3. CASE i \notin DOMAIN s
  <2>1. i - Len(s) \in DOMAIN t /\ Len(s) + (i - Len(s)) = i
    BY <1>1, <1>3
  <2>2. u[i] = t[i - Len(s)]
    BY <1>1, <2>1
  <2>3. PICK j \in DOMAIN t : j > i - Len(s) /\ Null(t[j], q)
    BY <2>1, <2>2 DEF Settled
  <2>4. Len(s) + j \in DOMAIN u /\ Len(s) + j > i /\ u[Len(s) + j] = t[j]
    BY <1>1, <2>3
  <2> QED
    BY <2>3, <2>4
<1> QED
  BY <1>2, <1>3

LEMMA ConcatClimbs ==
  ASSUME NEW s \in Seq(Message), NEW t \in Seq(Message),
         NEW a \in [Page -> Nat], NEW b \in [Page -> Nat], NEW c \in [Page -> Nat],
         \A q \in Page : a[q] <= b[q] /\ b[q] <= c[q], Climbs(s, a, b), Climbs(t, b, c)
  PROVE  Climbs(s \o t, a, c)
<1> DEFINE u == s \o t
<1>1. /\ DOMAIN s = 1..Len(s) /\ DOMAIN t = 1..Len(t) /\ Len(s) \in Nat /\ Len(t) \in Nat
      /\ DOMAIN u = 1..(Len(s) + Len(t))
      /\ \A i \in DOMAIN s : u[i] = s[i]
      /\ \A i \in DOMAIN t : u[Len(s) + i] = t[i]
      /\ \A i \in DOMAIN u : i \in DOMAIN s \/ (i - Len(s) \in DOMAIN t /\ Len(s) + (i - Len(s)) = i)
  BY ConcatFacts
<1> HIDE DEF u
<1>2. /\ \A i \in DOMAIN s : \A q \in DOMAIN s[i] : q \in Page /\ s[i][q].clock \in Nat
      /\ \A i \in DOMAIN t : \A q \in DOMAIN t[i] : q \in Page /\ t[i][q].clock \in Nat
  BY <1>1, MessageFacts
<1>3. ASSUME NEW i \in DOMAIN u, NEW q \in DOMAIN u[i]
      PROVE  a[q] <= u[i][q].clock /\ u[i][q].clock <= c[q]
  <2>1. CASE i \in DOMAIN s
    BY <1>1, <1>2, <1>3, <2>1 DEF Climbs
  <2>2. CASE i \notin DOMAIN s
    <3>1. i - Len(s) \in DOMAIN t /\ u[i] = t[i - Len(s)]
      BY <1>1, <2>2
    <3> QED
      BY <1>2, <1>3, <3>1 DEF Climbs
  <2> QED
    BY <2>1, <2>2
<1>4. ASSUME NEW i \in DOMAIN u, NEW j \in DOMAIN u, i < j,
             NEW q \in DOMAIN u[i] \cap DOMAIN u[j]
      PROVE  u[i][q].clock <= u[j][q].clock
  <2>1. CASE i \in DOMAIN s /\ j \in DOMAIN s
    BY <1>1, <1>4, <2>1 DEF Climbs
  <2>2. CASE i \in DOMAIN s /\ j \notin DOMAIN s
    <3>1. j - Len(s) \in DOMAIN t /\ u[j] = t[j - Len(s)] /\ u[i] = s[i]
      BY <1>1, <2>2
    <3>2. s[i][q].clock <= b[q] /\ b[q] <= t[j - Len(s)][q].clock
      BY <1>4, <2>2, <3>1 DEF Climbs
    <3> QED
      BY <1>2, <1>4, <2>2, <3>1, <3>2
  <2>3. CASE i \notin DOMAIN s
    <3>1. j \notin DOMAIN s
      BY <1>1, <1>4, <2>3
    <3>2. /\ i - Len(s) \in DOMAIN t /\ u[i] = t[i - Len(s)]
          /\ j - Len(s) \in DOMAIN t /\ u[j] = t[j - Len(s)]
          /\ i - Len(s) < j - Len(s)
      BY <1>1, <1>4, <2>3, <3>1
    <3> QED
      BY <1>4, <3>2 DEF Climbs
  <2> QED
    BY <2>1, <2>2, <2>3
<1> QED
  BY <1>3, <1>4 DEF Climbs, u

LEMMA ConcatRises ==
  ASSUME NEW s \in Seq(Message), NEW t \in Seq(Message), NEW q,
         NEW m \in Nat, NEW n \in Nat, m <= n, About(t, q) \/ m = n,
         Rises(s, q, m), Rises(t, q, n),
         \A i \in DOMAIN t : q \in DOMAIN t[i] => m < t[i][q].clock
  PROVE  Rises(s \o t, q, n)
<1> DEFINE u == s \o t
<1>1. /\ DOMAIN s = 1..Len(s) /\ DOMAIN t = 1..Len(t) /\ Len(s) \in Nat /\ Len(t) \in Nat
      /\ DOMAIN u = 1..(Len(s) + Len(t))
      /\ \A i \in DOMAIN s : i \in DOMAIN u /\ u[i] = s[i]
      /\ \A i \in DOMAIN t : Len(s) + i \in DOMAIN u /\ u[Len(s) + i] = t[i]
      /\ \A i \in DOMAIN u : i \in DOMAIN s \/ (i - Len(s) \in DOMAIN t /\ Len(s) + (i - Len(s)) = i)
  BY ConcatFacts
<1> HIDE DEF u
<1>2. /\ \A i \in DOMAIN s : q \in DOMAIN s[i] => s[i][q].clock \in Nat
      /\ \A i \in DOMAIN t : q \in DOMAIN t[i] => t[i][q].clock \in Nat
  BY <1>1, MessageFacts
<1>3. ASSUME NEW i \in DOMAIN u, q \in DOMAIN u[i]
      PROVE  /\ u[i][q].here /\ u[i][q].clock <= n
             /\ u[i][q].clock = n \/ \E j \in DOMAIN u : j > i /\ q \in DOMAIN u[j]
  <2>1. CASE i \in DOMAIN s
    <3>1. u[i] = s[i] /\ s[i][q].here /\ s[i][q].clock <= m
      BY <1>1, <1>3, <2>1 DEF Rises
    <3>2. CASE About(t, q)
      <4>1. PICK j \in DOMAIN t : q \in DOMAIN t[j]
        BY <3>2 DEF About
      <4>2. Len(s) + j \in DOMAIN u /\ Len(s) + j > i /\ q \in DOMAIN u[Len(s) + j]
        BY <1>1, <2>1, <4>1
      <4> QED
        BY <1>2, <1>3, <2>1, <3>1, <4>2
    <3>3. CASE m = n
      <4>1. s[i][q].clock = n \/ \E j \in DOMAIN s : j > i /\ q \in DOMAIN s[j]
        BY <1>3, <2>1, <3>1, <3>3 DEF Rises
      <4> QED
        BY <1>1, <3>1, <3>3, <4>1
    <3> QED
      BY <3>2, <3>3
  <2>2. CASE i \notin DOMAIN s
    <3>1. i - Len(s) \in DOMAIN t /\ u[i] = t[i - Len(s)]
      BY <1>1, <2>2
    <3>2. /\ u[i][q].here /\ u[i][q].clock <= n
          /\ u[i][q].clock = n \/ \E j \in DOMAIN t : j > i - Len(s) /\ q \in DOMAIN t[j]
      BY <1>3, <3>1 DEF Rises
    <3>3. ASSUME NEW j \in DOMAIN t, j > i - Len(s), q \in DOMAIN t[j]
          PROVE  \E k \in DOMAIN u : k > i /\ q \in DOMAIN u[k]
      <4>1. Len(s) + j \in DOMAIN u /\ Len(s) + j > i /\ q \in DOMAIN u[Len(s) + j]
        BY <1>1, <3>3
      <4> QED
        BY <4>1
    <3> QED
      BY <3>2, <3>3
  <2> QED
    BY <2>1, <2>2
<1>4. ASSUME NEW i \in DOMAIN u, NEW j \in DOMAIN u, i < j, q \in DOMAIN u[i], q \in DOMAIN u[j]
      PROVE  u[i][q].clock < u[j][q].clock
  <2>1. CASE i \in DOMAIN s /\ j \in DOMAIN s
    BY <1>1, <1>4, <2>1 DEF Rises
  <2>2. CASE i \in DOMAIN s /\ j \notin DOMAIN s
    <3>1. j - Len(s) \in DOMAIN t /\ u[j] = t[j - Len(s)] /\ u[i] = s[i]
      BY <1>1, <2>2
    <3>2. s[i][q].clock <= m /\ m < t[j - Len(s)][q].clock
      BY <1>4, <2>2, <3>1 DEF Rises
    <3> QED
      BY <1>2, <1>4, <2>2, <3>1, <3>2
  <2>3. CASE i \notin DOMAIN s
    <3>1. j \notin DOMAIN s
      BY <1>1, <1>4, <2>3
    <3>2. /\ i - Len(s) \in DOMAIN t /\ u[i] = t[i - Len(s)]
          /\ j - Len(s) \in DOMAIN t /\ u[j] = t[j - Len(s)]
          /\ i - Len(s) < j - Len(s)
      BY <1>1, <1>4, <2>3, <3>1
    <3> QED
      BY <1>4, <3>2 DEF Rises
  <2> QED
    BY <2>1, <2>2, <2>3
<1> QED
  BY <1>3, <1>4 DEF Rises, u

LEMMA OneFrame ==
  ASSUME NEW s \in Seq(Message), NEW e \in Message, NEW q
  PROVE  /\ <<e>> \in Seq(Message) /\ Append(s, e) = s \o <<e>>
         /\ About(<<e>>, q) <=> q \in DOMAIN e
         /\ Retracts(<<e>>, q) <=> Null(e, q)
         /\ Settled(<<e>>, q) <=> ~Here(e, q)
<1> DEFINE t == <<e>>
<1>1. t \in Seq(Message) /\ DOMAIN t = {1} /\ t[1] = e
  OBVIOUS
<1>2. Append(s, e) = s \o t
  OBVIOUS
<1> HIDE DEF t
<1>3. /\ About(t, q) <=> q \in DOMAIN e
      /\ Retracts(t, q) <=> Null(e, q)
  BY <1>1 DEF About, Retracts
<1>4. Settled(t, q) <=> ~Here(e, q)
  <2>1. ~(1 > 1)
    OBVIOUS
  <2> QED
    BY <1>1, <2>1 DEF Settled
<1> QED
  BY <1>1, <1>2, <1>3, <1>4 DEF t

LEMMA NoFrames ==
  ASSUME NEW q
  PROVE  /\ <<>> \in Seq(Message) /\ Len(<<>>) = 0
         /\ ~About(<<>>, q) /\ ~Retracts(<<>>, q) /\ Settled(<<>>, q)
         /\ \A a, b : Climbs(<<>>, a, b)
         /\ \A m : Rises(<<>>, q, m)
<1>1. <<>> \in Seq(Message) /\ Len(<<>>) = 0 /\ DOMAIN <<>> = {}
  OBVIOUS
<1> QED
  BY <1>1 DEF About, Retracts, Settled, Climbs, Rises

LEMMA TailFacts ==
  ASSUME NEW s \in Seq(Message), s # <<>>
  PROVE  /\ Head(s) \in Message /\ Head(s) = s[1] /\ 1 \in DOMAIN s
         /\ Tail(s) \in Seq(Message)
         /\ \A i \in DOMAIN Tail(s) : i + 1 \in DOMAIN s /\ Tail(s)[i] = s[i + 1] /\ 1 < i + 1
         /\ \A i \in DOMAIN s : i = 1 \/ (i - 1 \in DOMAIN Tail(s) /\ s[i] = Tail(s)[i - 1])
         /\ DOMAIN s \subseteq Nat /\ DOMAIN Tail(s) \subseteq Nat
<1>1. Len(s) \in Nat /\ Len(s) # 0 /\ DOMAIN s = 1..Len(s)
  OBVIOUS
<1>2. Tail(s) \in Seq(Message) /\ Len(Tail(s)) = Len(s) - 1 /\ DOMAIN Tail(s) = 1..(Len(s) - 1)
  BY <1>1
<1>3. \A i \in 1..(Len(s) - 1) : Tail(s)[i] = s[i + 1]
  BY <1>1
<1> QED
  BY <1>1, <1>2, <1>3

LEMMA TailSays ==
  ASSUME NEW s \in Seq(Message), s # <<>>, NEW q
  PROVE  /\ About(s, q) <=> (q \in DOMAIN Head(s) \/ About(Tail(s), q))
         /\ Retracts(s, q) <=> (Null(Head(s), q) \/ Retracts(Tail(s), q))
         /\ Settled(s, q) => Settled(Tail(s), q) /\ (Here(Head(s), q) => Retracts(Tail(s), q))
<1> DEFINE t == Tail(s)
           h == Head(s)
<1>1. /\ h = s[1] /\ 1 \in DOMAIN s
      /\ \A i \in DOMAIN t : i + 1 \in DOMAIN s /\ t[i] = s[i + 1] /\ 1 < i + 1
      /\ \A i \in DOMAIN s : i = 1 \/ (i - 1 \in DOMAIN t /\ s[i] = t[i - 1])
      /\ DOMAIN s \subseteq Nat /\ DOMAIN t \subseteq Nat
  BY TailFacts
<1> HIDE DEF t, h
<1>2. About(s, q) <=> (q \in DOMAIN h \/ About(t, q))
  BY <1>1 DEF About
<1>3. Retracts(s, q) <=> (Null(h, q) \/ Retracts(t, q))
  BY <1>1 DEF Retracts
<1>4. ASSUME Settled(s, q), NEW i \in DOMAIN s, Here(s[i], q)
      PROVE  \E j \in DOMAIN t : j > i - 1 /\ Null(t[j], q)
  <2>1. PICK j \in DOMAIN s : j > i /\ Null(s[j], q)
    BY <1>4 DEF Settled
  <2>2. j - 1 \in DOMAIN t /\ s[j] = t[j - 1] /\ j - 1 > i - 1
    BY <1>1, <2>1
  <2> QED
    BY <2>1, <2>2
<1>5. ASSUME Settled(s, q), NEW i \in DOMAIN t, Here(t[i], q)
      PROVE  \E j \in DOMAIN t : j > i /\ Null(t[j], q)
  <2>1. i + 1 \in DOMAIN s /\ t[i] = s[i + 1] /\ (i + 1) - 1 = i
    BY <1>1
  <2> QED
    BY <1>4, <1>5, <2>1
<1>6. ASSUME Settled(s, q), Here(h, q)
      PROVE  Retracts(t, q)
  BY <1>1, <1>4, <1>6 DEF Retracts
<1> QED
  BY <1>2, <1>3, <1>5, <1>6 DEF Settled, t, h

LEMMA TailClimbs ==
  ASSUME NEW s \in Seq(Message), s # <<>>, NEW a, NEW b, Climbs(s, a, b),
         NEW c, \A q \in Page : c[q] = a[q] \/ (q \in DOMAIN Head(s) /\ c[q] = Head(s)[q].clock)
  PROVE  Climbs(Tail(s), c, b)
<1> DEFINE t == Tail(s)
           h == Head(s)
<1>1. /\ h = s[1] /\ 1 \in DOMAIN s
      /\ \A i \in DOMAIN t : i + 1 \in DOMAIN s /\ t[i] = s[i + 1] /\ 1 < i + 1
      /\ t \in Seq(Message) /\ DOMAIN t \subseteq Nat
  BY TailFacts
<1> HIDE DEF t, h
<1>2. ASSUME NEW i \in DOMAIN t, NEW q \in DOMAIN t[i]
      PROVE  c[q] <= t[i][q].clock /\ t[i][q].clock <= b[q]
  <2>1. q \in Page
    BY <1>1, <1>2, MessageFacts
  <2>2. i + 1 \in DOMAIN s /\ q \in DOMAIN s[i + 1] /\ t[i] = s[i + 1] /\ 1 < i + 1
    BY <1>1, <1>2
  <2>3. a[q] <= t[i][q].clock /\ t[i][q].clock <= b[q]
    BY <2>2 DEF Climbs
  <2>4. q \in DOMAIN h => h[q].clock <= t[i][q].clock
    BY <1>1, <2>2 DEF Climbs
  <2> QED
    BY <2>1, <2>3, <2>4 DEF h
<1>3. ASSUME NEW i \in DOMAIN t, NEW j \in DOMAIN t, i < j, NEW q \in DOMAIN t[i] \cap DOMAIN t[j]
      PROVE  t[i][q].clock <= t[j][q].clock
  <2>1. i + 1 \in DOMAIN s /\ j + 1 \in DOMAIN s /\ i + 1 < j + 1 /\ t[i] = s[i + 1] /\ t[j] = s[j + 1]
    BY <1>1, <1>3
  <2> QED
    BY <1>3, <2>1 DEF Climbs
<1> QED
  BY <1>2, <1>3 DEF Climbs, t

LEMMA TailRises ==
  ASSUME NEW s \in Seq(Message), s # <<>>, NEW q, NEW m, Rises(s, q, m)
  PROVE  /\ Rises(Tail(s), q, m)
         /\ q \in DOMAIN Head(s) =>
              /\ Head(s)[q].here /\ Head(s)[q].clock <= m
              /\ Head(s)[q].clock = m \/ About(Tail(s), q)
              /\ \A i \in DOMAIN Tail(s) :
                   q \in DOMAIN Tail(s)[i] => Head(s)[q].clock < Tail(s)[i][q].clock
<1> DEFINE t == Tail(s)
           h == Head(s)
<1>1. /\ h = s[1] /\ 1 \in DOMAIN s
      /\ \A i \in DOMAIN t : i + 1 \in DOMAIN s /\ t[i] = s[i + 1] /\ 1 < i + 1
      /\ \A i \in DOMAIN s : i = 1 \/ (i - 1 \in DOMAIN t /\ s[i] = t[i - 1])
      /\ DOMAIN s \subseteq Nat /\ DOMAIN t \subseteq Nat
  BY TailFacts
<1> HIDE DEF t, h
<1>2. ASSUME NEW i \in DOMAIN s, q \in DOMAIN s[i]
      PROVE  /\ s[i][q].here /\ s[i][q].clock <= m
             /\ s[i][q].clock = m \/ \E j \in DOMAIN t : j > i - 1 /\ q \in DOMAIN t[j]
  <2>1. ASSUME NEW j \in DOMAIN s, j > i, q \in DOMAIN s[j]
        PROVE  \E k \in DOMAIN t : k > i - 1 /\ q \in DOMAIN t[k]
    <3>1. j - 1 \in DOMAIN t /\ s[j] = t[j - 1] /\ j - 1 > i - 1
      BY <1>1, <2>1
    <3> QED
      BY <2>1, <3>1
  <2> QED
    BY <1>2, <2>1 DEF Rises
<1>3. ASSUME NEW i \in DOMAIN t, q \in DOMAIN t[i]
      PROVE  /\ t[i][q].here /\ t[i][q].clock <= m
             /\ t[i][q].clock = m \/ \E j \in DOMAIN t : j > i /\ q \in DOMAIN t[j]
  <2>1. i + 1 \in DOMAIN s /\ t[i] = s[i + 1] /\ (i + 1) - 1 = i
    BY <1>1
  <2> QED
    BY <1>2, <1>3, <2>1
<1>4. ASSUME NEW i \in DOMAIN t, NEW j \in DOMAIN t, i < j, q \in DOMAIN t[i], q \in DOMAIN t[j]
      PROVE  t[i][q].clock < t[j][q].clock
  <2>1. i + 1 \in DOMAIN s /\ j + 1 \in DOMAIN s /\ i + 1 < j + 1 /\ t[i] = s[i + 1] /\ t[j] = s[j + 1]
    BY <1>1, <1>4
  <2> QED
    BY <1>4, <2>1 DEF Rises
<1>5. q \in DOMAIN h =>
        /\ h[q].here /\ h[q].clock <= m
        /\ h[q].clock = m \/ About(t, q)
        /\ \A i \in DOMAIN t : q \in DOMAIN t[i] => h[q].clock < t[i][q].clock
  <2>1. q \in DOMAIN h => h[q].here /\ h[q].clock <= m /\ (h[q].clock = m \/ About(t, q))
    BY <1>1, <1>2 DEF About
  <2>2. ASSUME q \in DOMAIN h, NEW i \in DOMAIN t, q \in DOMAIN t[i]
        PROVE  h[q].clock < t[i][q].clock
    BY <1>1, <2>2 DEF Rises
  <2> QED
    BY <2>1, <2>2
<1> QED
  BY <1>3, <1>4, <1>5 DEF Rises, t, h

--------------------------------------------------------------------------------
(* What a page makes of frames. *)

\* With w, p has sent on e, which says what p took from f.
SendsOn(p, v, f, w, e) ==
  /\ w.sent = v.sent \o <<e>>
  /\ DOMAIN e \subseteq Newer(v, f)
  /\ p \in Newer(v, f) => p \in DOMAIN e /\ e[p].here /\ e[p].clock = w.meta[p]
  /\ \A q \in DOMAIN e \ {p} : e[q] = f[q] /\ f[q].clock > 0
  /\ \A q \in Newer(v, f) \ DOMAIN e : q \notin v.shown /\ ~f[q].here

\* What Take returns: a client it is not told of newly stays as it was, another is as
\* the frame says; what is sent on is a frame of the changes.
LEMMA TakeStep ==
  ASSUME NEW p \in Page, NEW v \in View, NEW f \in Message, p \in v.shown,
         \A q \in v.shown \ {p} : v.meta[q] > 0
  PROVE  LET new == Newer(v, f)
             w == Take(p, v, f)
         IN /\ w \in View /\ p \in w.shown /\ new \subseteq DOMAIN f \cap Page
            /\ \A q \in Page \ new : w.meta[q] = v.meta[q] /\ (q \in w.shown <=> q \in v.shown)
            /\ \A q \in new \ {p} : w.meta[q] = f[q].clock /\ (q \in w.shown <=> f[q].here)
            /\ p \in new => w.meta[p] = f[p].clock + 1
            /\ \A q \in new : v.meta[q] <= f[q].clock /\ (f[q].here => v.meta[q] < f[q].clock)
            /\ \/ w.sent = v.sent /\ p \notin new /\ \A q \in new : q \notin v.shown /\ ~f[q].here
               \/ \E e \in Message : SendsOn(p, v, f, w, e)
<1> DEFINE new == Newer(v, f)
           w == Take(p, v, f)
           changed == {q \in new : f[q].here \/ v.meta[q] > 0 \/ q = p}
           clocks == [q \in Page |->
             IF q \notin new THEN v.meta[q]
             ELSE IF q = p THEN f[q].clock + 1 ELSE f[q].clock]
           present == {q \in Page : IF q \in new \ {p} THEN f[q].here ELSE q \in v.shown}
           e == Encode(changed, clocks, present)
<1>1. w = [meta |-> clocks, shown |-> present,
           sent |-> IF changed = {} THEN v.sent ELSE Append(v.sent, e)]
  BY DEF Take
<1>2. v.meta \in [Page -> Nat] /\ v.shown \in SUBSET Page /\ v.sent \in Seq(Message)
  BY DEF View
<1>3. /\ DOMAIN f \subseteq Page
      /\ \A q \in DOMAIN f : f[q] = [clock |-> f[q].clock, here |-> f[q].here]
                             /\ f[q].clock \in Nat /\ f[q].here \in BOOLEAN
  BY DEF Message, Entry
<1>4. /\ new \subseteq DOMAIN f
      /\ \A q \in new : \/ v.meta[q] < f[q].clock
                        \/ v.meta[q] = f[q].clock /\ ~f[q].here /\ q \in v.shown
  BY DEF Newer
<1> HIDE DEF new
<1>5. clocks \in [Page -> Nat]
  BY <1>2, <1>3, <1>4
<1>6. present \in SUBSET Page /\ p \in present
  OBVIOUS
<1>7. changed \subseteq Page /\ e \in [changed -> Entry]
  <2>1. changed \subseteq Page
    BY <1>3, <1>4
  <2>2. \A q \in changed : [clock |-> clocks[q], here |-> q \in present] \in Entry
    BY <1>5, <2>1 DEF Entry
  <2> QED
    BY <2>1, <2>2 DEF Encode
<1>8. e \in Message /\ DOMAIN e = changed
  BY <1>7, IsMessage
<1>9. \A q \in changed : e[q] = [clock |-> clocks[q], here |-> q \in present]
  BY DEF Encode
<1>10. \A q \in new : v.meta[q] <= f[q].clock /\ (f[q].here => v.meta[q] < f[q].clock)
  BY <1>2, <1>3, <1>4
<1>11. \A q \in Page \ new : clocks[q] = v.meta[q] /\ (q \in present <=> q \in v.shown)
  OBVIOUS
<1>12. \A q \in new \ {p} : clocks[q] = f[q].clock /\ (q \in present <=> f[q].here)
  BY <1>3, <1>4
<1>13. p \in new => clocks[p] = f[p].clock + 1
  OBVIOUS
<1>14. \A q \in new \ changed : q \notin v.shown /\ ~f[q].here /\ q # p
  BY <1>2, <1>3, <1>4
<1>15. \A q \in changed \ {p} : e[q] = f[q] /\ f[q].clock > 0
  <2> SUFFICES ASSUME NEW q \in changed \ {p}
               PROVE  e[q] = f[q] /\ f[q].clock > 0
    OBVIOUS
  <2>1. q \in new \ {p} /\ q \in DOMAIN f
    BY <1>4
  <2>2. clocks[q] = f[q].clock /\ ((q \in present) = f[q].here)
    BY <1>3, <1>12, <2>1
  <2>3. f[q].clock > 0
    BY <1>2, <1>3, <1>10, <2>1
  <2> HIDE DEF e, clocks, present
  <2>4. e[q] = [clock |-> f[q].clock, here |-> f[q].here]
    BY <1>9, <2>2
  <2> QED
    BY <1>3, <2>1, <2>3, <2>4
<1>16. p \in new => p \in changed /\ e[p].here /\ e[p].clock = clocks[p]
  <2> HIDE DEF clocks, present, e
  <2>1. p \in new => p \in changed
    BY DEF changed
  <2> HIDE DEF changed
  <2>2. (p \in present) = TRUE
    BY <1>6
  <2>3. p \in changed => e[p] = [clock |-> clocks[p], here |-> TRUE]
    BY <1>9, <2>2
  <2> QED
    BY <2>1, <2>3
<1> HIDE DEF clocks, present, e, changed
<1>17. Append(v.sent, e) = v.sent \o <<e>> /\ Append(v.sent, e) \in Seq(Message)
  <2> DEFINE s == v.sent
  <2>1. s \in Seq(Message)
    BY <1>2
  <2> HIDE DEF s
  <2>2. Append(s, e) = s \o <<e>> /\ <<e>> \in Seq(Message)
    BY <1>8, <2>1, OneFrame
  <2>3. s \o <<e>> \in Seq(Message)
    BY <2>1, <2>2
  <2> QED
    BY <2>2, <2>3 DEF s
<1>18. w \in View
  BY <1>1, <1>2, <1>5, <1>6, <1>17 DEF View
<1>19. w.meta = clocks /\ w.shown = present
  BY <1>1
<1>20. \/ w.sent = v.sent /\ p \notin new /\ \A q \in new : q \notin v.shown /\ ~f[q].here
       \/ \E g \in Message : SendsOn(p, v, f, w, g)
  <2>1. CASE changed = {}
    <3>1. w.sent = v.sent
      BY <1>1, <2>1
    <3> QED
      BY <1>14, <1>16, <2>1, <3>1
  <2>2. CASE changed # {}
    <3>1. w.sent = v.sent \o <<e>>
      BY <1>1, <1>17, <2>2
    <3>2. changed \subseteq new
      BY DEF changed
    <3>3. SendsOn(p, v, f, w, e)
      BY <1>8, <1>14, <1>15, <1>16, <1>19, <3>1, <3>2 DEF SendsOn, new
    <3> QED
      BY <1>8, <3>3
  <2> QED
    BY <2>1, <2>2
<1> HIDE DEF w
<1> QED
  BY <1>3, <1>4, <1>6, <1>10, <1>11, <1>12, <1>13, <1>18, <1>19, <1>20 DEF new, w

LEMMA OneClimbs ==
  ASSUME NEW e \in Message, NEW a, NEW b,
         \A q \in DOMAIN e : a[q] <= e[q].clock /\ e[q].clock <= b[q]
  PROVE  Climbs(<<e>>, a, b)
<1> DEFINE t == <<e>>
<1>1. DOMAIN t = {1} /\ t[1] = e /\ ~(1 < 1)
  OBVIOUS
<1> HIDE DEF t
<1>2. Climbs(t, a, b)
  BY <1>1 DEF Climbs
<1> QED
  BY <1>2 DEF t

LEMMA OneRises ==
  ASSUME NEW e \in Message, NEW q, NEW m \in Nat,
         q \in DOMAIN e => e[q].here /\ e[q].clock = m
  PROVE  Rises(<<e>>, q, m)
<1> DEFINE t == <<e>>
<1>1. DOMAIN t = {1} /\ t[1] = e /\ ~(1 < 1) /\ m <= m
  OBVIOUS
<1> HIDE DEF t
<1>2. Rises(t, q, m)
  BY <1>1 DEF Rises
<1> QED
  BY <1>2 DEF t

\* How the clocks and the clients of p's view differ from those before the frames.
Moved(p, frames, v) ==
  /\ p \in v.shown
  /\ \A q \in Page : meta[p][q] <= v.meta[q]
  /\ \A q \in v.shown \ {p} :
       \/ q \in shown[p] /\ v.meta[q] = meta[p][q]
       \/ \E i \in DOMAIN frames :
            Here(frames[i], q) /\ v.meta[q] = frames[i][q].clock /\ meta[p][q] < v.meta[q]
  /\ \A q \in Page \ {p} :
       \/ v.meta[q] = meta[p][q]
       \/ \E i \in DOMAIN frames : q \in DOMAIN frames[i] /\ v.meta[q] = frames[i][q].clock
  /\ \/ v.meta[p] = meta[p][p]
     \/ \E i \in DOMAIN frames :
          /\ p \in DOMAIN frames[i] /\ v.meta[p] = frames[i][p].clock + 1
          /\ frames[i][p].here => meta[p][p] < frames[i][p].clock

\* What p sends on: of others what it was told, of those it has stopped to show that
\* they are gone, of itself that it is there, with newer and newer clocks.
Told(p, frames, v) ==
  /\ Climbs(v.sent, meta[p], v.meta)
  /\ \A i \in DOMAIN v.sent : \A q \in DOMAIN v.sent[i] \ {p} :
       /\ v.sent[i][q].clock > 0
       /\ \E j \in DOMAIN frames : q \in DOMAIN frames[j] /\ frames[j][q] = v.sent[i][q]
  /\ \A q \in Page \ v.shown : Settled(v.sent, q) /\ (q \in shown[p] => Retracts(v.sent, q))
  /\ Rises(v.sent, p, v.meta[p])
  /\ \A i \in DOMAIN v.sent : p \in DOMAIN v.sent[i] => meta[p][p] < v.sent[i][p].clock
  /\ v.meta[p] = meta[p][p] \/ About(v.sent, p)

Reached(p, frames, v) == v \in View /\ Moved(p, frames, v) /\ Told(p, frames, v)

LEMMA MovedStep ==
  ASSUME NEW p \in Page, NEW frames, NEW v \in View, Moved(p, frames, v),
         NEW i \in DOMAIN frames, frames[i] \in Message,
         meta[p] \in [Page -> Nat], \A q \in shown[p] \ {p} : meta[p][q] > 0
  PROVE  Moved(p, frames, Take(p, v, frames[i]))
<1> DEFINE f == frames[i]
           w == Take(p, v, f)
           new == Newer(v, f)
<1>1. p \in v.shown /\ \A q \in v.shown \ {p} : v.meta[q] > 0
  <2> SUFFICES ASSUME NEW q \in v.shown \ {p}
               PROVE  v.meta[q] > 0
    BY DEF Moved
  <2>1. q \in Page /\ v.meta[q] \in Nat /\ meta[p][q] \in Nat
    BY DEF View
  <2> QED
    BY <2>1 DEF Moved
<1>2. /\ w \in View /\ p \in w.shown /\ new \subseteq DOMAIN f \cap Page
      /\ \A q \in Page \ new : w.meta[q] = v.meta[q] /\ (q \in w.shown <=> q \in v.shown)
      /\ \A q \in new \ {p} : w.meta[q] = f[q].clock /\ (q \in w.shown <=> f[q].here)
      /\ p \in new => w.meta[p] = f[p].clock + 1
      /\ \A q \in new : v.meta[q] <= f[q].clock /\ (f[q].here => v.meta[q] < f[q].clock)
  BY <1>1, TakeStep
<1>3. /\ \A q \in Page : v.meta[q] \in Nat /\ w.meta[q] \in Nat /\ meta[p][q] \in Nat
      /\ \A q \in new : f[q].clock \in Nat
      /\ v.shown \subseteq Page /\ w.shown \subseteq Page
  BY <1>2, MessageFacts DEF View
<1>4. \A q \in Page : meta[p][q] <= v.meta[q]
  BY DEF Moved
<1> HIDE DEF f, w, new
<1>5. ASSUME NEW q \in Page
      PROVE  meta[p][q] <= w.meta[q]
  BY <1>2, <1>3, <1>4
<1>6. ASSUME NEW q \in w.shown \ {p}
      PROVE  \/ q \in shown[p] /\ w.meta[q] = meta[p][q]
             \/ \E j \in DOMAIN frames :
                  Here(frames[j], q) /\ w.meta[q] = frames[j][q].clock /\ meta[p][q] < w.meta[q]
  <2>1. CASE q \in new
    <3>1. Here(f, q) /\ w.meta[q] = f[q].clock /\ meta[p][q] < w.meta[q]
      BY <1>2, <1>3, <1>4, <2>1 DEF Here
    <3> QED
      BY <3>1 DEF f
  <2>2. CASE q \notin new
    <3>1. w.meta[q] = v.meta[q] /\ q \in v.shown \ {p}
      BY <1>2, <1>3, <2>2
    <3> QED
      BY <3>1 DEF Moved
  <2> QED
    BY <2>1, <2>2
<1>7. ASSUME NEW q \in Page \ {p}
      PROVE  \/ w.meta[q] = meta[p][q]
             \/ \E j \in DOMAIN frames : q \in DOMAIN frames[j] /\ w.meta[q] = frames[j][q].clock
  <2>1. CASE q \in new
    <3>1. q \in DOMAIN f /\ w.meta[q] = f[q].clock
      BY <1>2, <2>1
    <3> QED
      BY <3>1 DEF f
  <2>2. CASE q \notin new
    <3>1. w.meta[q] = v.meta[q]
      BY <1>2, <2>2
    <3> QED
      BY <3>1 DEF Moved
  <2> QED
    BY <2>1, <2>2
<1>8. \/ w.meta[p] = meta[p][p]
      \/ \E j \in DOMAIN frames :
           /\ p \in DOMAIN frames[j] /\ w.meta[p] = frames[j][p].clock + 1
           /\ frames[j][p].here => meta[p][p] < frames[j][p].clock
  <2>1. CASE p \in new
    <3>1. p \in DOMAIN f /\ w.meta[p] = f[p].clock + 1 /\ (f[p].here => meta[p][p] < f[p].clock)
      BY <1>2, <1>3, <1>4, <2>1
    <3> QED
      BY <3>1 DEF f
  <2>2. CASE p \notin new
    <3>1. w.meta[p] = v.meta[p]
      BY <1>2, <2>2
    <3> QED
      BY <3>1 DEF Moved
  <2> QED
    BY <2>1, <2>2
<1>9. Moved(p, frames, w)
  BY <1>2, <1>5, <1>6, <1>7, <1>8 DEF Moved
<1> QED
  BY <1>9 DEF w, f

LEMMA ToldStep ==
  ASSUME NEW p \in Page, NEW frames, NEW v \in View, Moved(p, frames, v), Told(p, frames, v),
         NEW k \in DOMAIN frames, frames[k] \in Message,
         meta[p] \in [Page -> Nat], \A q \in shown[p] \ {p} : meta[p][q] > 0
  PROVE  Told(p, frames, Take(p, v, frames[k]))
<1> DEFINE f == frames[k]
           w == Take(p, v, f)
           new == Newer(v, f)
           s == v.sent
<1>1. p \in v.shown /\ \A q \in v.shown \ {p} : v.meta[q] > 0
  <2> SUFFICES ASSUME NEW q \in v.shown \ {p}
               PROVE  v.meta[q] > 0
    BY DEF Moved
  <2>1. q \in Page /\ v.meta[q] \in Nat /\ meta[p][q] \in Nat
    BY DEF View
  <2> QED
    BY <2>1 DEF Moved
<1>2. /\ w \in View /\ p \in w.shown /\ new \subseteq DOMAIN f \cap Page
      /\ \A q \in Page \ new : w.meta[q] = v.meta[q] /\ (q \in w.shown <=> q \in v.shown)
      /\ \A q \in new \ {p} : w.meta[q] = f[q].clock /\ (q \in w.shown <=> f[q].here)
      /\ p \in new => w.meta[p] = f[p].clock + 1
      /\ \A q \in new : v.meta[q] <= f[q].clock
  BY <1>1, TakeStep
<1>x. \/ w.sent = s /\ p \notin new /\ \A q \in new : q \notin v.shown /\ ~f[q].here
      \/ \E e \in Message : SendsOn(p, v, f, w, e)
  BY <1>1, TakeStep
<1>3. /\ \A q \in Page : v.meta[q] \in Nat /\ w.meta[q] \in Nat /\ meta[p][q] \in Nat
      /\ \A q \in new : f[q].clock \in Nat
      /\ v.shown \subseteq Page /\ w.shown \subseteq Page /\ s \in Seq(Message)
      /\ v.meta \in [Page -> Nat] /\ w.meta \in [Page -> Nat]
  BY <1>2, MessageFacts DEF View
<1>4. \A q \in Page : meta[p][q] <= v.meta[q]
  BY DEF Moved
<1>5. /\ Climbs(s, meta[p], v.meta)
      /\ \A i \in DOMAIN s : \A q \in DOMAIN s[i] \ {p} :
           /\ s[i][q].clock > 0
           /\ \E j \in DOMAIN frames : q \in DOMAIN frames[j] /\ frames[j][q] = s[i][q]
      /\ \A q \in Page \ v.shown : Settled(s, q) /\ (q \in shown[p] => Retracts(s, q))
      /\ Rises(s, p, v.meta[p])
      /\ \A i \in DOMAIN s : p \in DOMAIN s[i] => meta[p][p] < s[i][p].clock
      /\ v.meta[p] = meta[p][p] \/ About(s, p)
  BY DEF Told
<1>6. /\ \A i \in DOMAIN s : \A q \in DOMAIN s[i] : q \in Page /\ s[i][q].clock \in Nat
      /\ DOMAIN s = 1..Len(s) /\ Len(s) \in Nat
  BY <1>3, MessageFacts
<1>f. f = frames[k]
  OBVIOUS
<1> HIDE DEF f, w, new, s
<1>7. ASSUME NEW q \in Page
      PROVE  v.meta[q] <= w.meta[q]
  <2>1. CASE q \in new
    <3>1. w.meta[q] = f[q].clock \/ w.meta[q] = f[q].clock + 1
      BY <1>2, <2>1
    <3> QED
      BY <1>2, <1>3, <2>1, <3>1
  <2>2. CASE q \notin new
    BY <1>2, <1>3, <2>2
  <2> QED
    BY <2>1, <2>2
<1>8. ASSUME w.sent = s, p \notin new, \A q \in new : q \notin v.shown /\ ~f[q].here
      PROVE  Told(p, frames, w)
  <2>1. w.meta[p] = v.meta[p]
    BY <1>2, <1>8
  <2>2. \A q \in Page \ w.shown : q \notin v.shown
    BY <1>2, <1>8
  <2>3. Climbs(s, meta[p], w.meta)
    BY <1>3, <1>5, <1>6, <1>7 DEF Climbs
  <2>4. Rises(s, p, w.meta[p]) /\ (w.meta[p] = meta[p][p] \/ About(s, p))
    BY <1>5, <2>1
  <2>5. \A q \in Page \ w.shown : Settled(s, q) /\ (q \in shown[p] => Retracts(s, q))
    BY <1>5, <2>2
  <2>6. w.sent = s
    BY <1>8
  <2>7. /\ \A i \in DOMAIN s : \A q \in DOMAIN s[i] \ {p} :
             /\ s[i][q].clock > 0
             /\ \E j \in DOMAIN frames : q \in DOMAIN frames[j] /\ frames[j][q] = s[i][q]
        /\ \A i \in DOMAIN s : p \in DOMAIN s[i] => meta[p][p] < s[i][p].clock
    BY <1>5
  <2> QED
    BY <2>3, <2>4, <2>5, <2>6, <2>7, Zenon DEF Told
<1>9. ASSUME NEW e \in Message, SendsOn(p, v, f, w, e)
      PROVE  Told(p, frames, w)
  <2> DEFINE t == <<e>>
             u == s \o t
  <2>s. /\ w.sent = u /\ DOMAIN e \subseteq new
        /\ p \in new => p \in DOMAIN e /\ e[p].here /\ e[p].clock = w.meta[p]
        /\ \A q \in DOMAIN e \ {p} : e[q] = f[q] /\ f[q].clock > 0
        /\ \A q \in new \ DOMAIN e : q \notin v.shown /\ ~f[q].here
    BY <1>9 DEF SendsOn, s, new
  <2>1. t \in Seq(Message) /\ \A q : /\ About(t, q) <=> q \in DOMAIN e
                                     /\ Retracts(t, q) <=> Null(e, q)
                                     /\ Settled(t, q) <=> ~Here(e, q)
    BY OneFrame, <1>3
  <2>2. /\ DOMAIN t = {1} /\ t[1] = e
        /\ \A i \in DOMAIN u : (i \in DOMAIN s /\ u[i] = s[i]) \/ u[i] = e
    <3>1. DOMAIN t = {1} /\ t[1] = e /\ t \in Seq(Message)
      BY <2>1
    <3> HIDE DEF t
    <3>2. \A i \in DOMAIN u : (i \in DOMAIN s /\ u[i] = s[i])
                              \/ (i - Len(s) \in DOMAIN t /\ u[Len(s) + (i - Len(s))] = t[i - Len(s)]
                                  /\ Len(s) + (i - Len(s)) = i)
      BY <1>3, <3>1, ConcatFacts
    <3> QED
      BY <3>1, <3>2
  <2>3. \A q : /\ About(u, q) <=> About(s, q) \/ q \in DOMAIN e
               /\ Retracts(u, q) <=> Retracts(s, q) \/ Null(e, q)
    BY <1>3, <2>1, ConcatSays
  <2>4. \A q \in DOMAIN e : /\ q \in Page /\ e[q].clock \in Nat
                            /\ v.meta[q] <= e[q].clock /\ e[q].clock <= w.meta[q]
    BY <1>2, <1>3, <1>7, <2>s
  <2>5. Climbs(t, v.meta, w.meta)
    BY <2>4, OneClimbs
  <2> HIDE DEF t
  <2>6. Climbs(u, meta[p], w.meta)
    BY <1>3, <1>4, <1>5, <1>7, <2>1, <2>5, ConcatClimbs
  <2>7. Rises(t, p, w.meta[p])
    BY <1>2, <1>3, <2>s, OneRises DEF t
  <2>8. \A i \in DOMAIN t : p \in DOMAIN t[i] => v.meta[p] < t[i][p].clock
    BY <1>2, <1>3, <2>s, <2>2
  <2>9. About(t, p) \/ v.meta[p] = w.meta[p]
    BY <1>2, <2>s, <2>1
  <2>10. Rises(u, p, w.meta[p])
    BY <1>3, <1>5, <1>7, <2>1, <2>7, <2>8, <2>9, ConcatRises
  <2>11. ASSUME NEW i \in DOMAIN u, NEW q \in DOMAIN u[i] \ {p}
         PROVE  /\ u[i][q].clock > 0
                /\ \E j \in DOMAIN frames : q \in DOMAIN frames[j] /\ frames[j][q] = u[i][q]
    <3>1. CASE i \in DOMAIN s /\ u[i] = s[i]
      BY <1>5, <2>11, <3>1
    <3>2. CASE u[i] = e
      <4>1. q \in DOMAIN f /\ e[q] = f[q] /\ f[q].clock > 0
        BY <1>2, <2>s, <2>11, <3>2
      <4> QED
        BY <1>f, <3>2, <4>1
    <3> QED
      BY <2>2, <3>1, <3>2
  <2>12. ASSUME NEW q \in Page \ w.shown
         PROVE  Settled(u, q) /\ (q \in shown[p] => Retracts(u, q))
    <3>1. q # p
      BY <1>2
    <3>2. ~Here(e, q)
      BY <1>2, <2>s, <3>1 DEF Here
    <3>3. Settled(t, q)
      BY <2>1, <3>2
    <3>4. CASE q \notin v.shown
      <4>1. Settled(s, q) /\ (q \in shown[p] => Retracts(s, q))
        BY <1>5, <3>4
      <4> QED
        BY <1>3, <2>1, <2>3, <3>3, <4>1, ConcatSettled
    <3>5. CASE q \in v.shown
      <4>1. q \in new /\ ~f[q].here /\ q \in DOMAIN e
        BY <1>2, <2>s, <3>1, <3>5
      <4>2. Null(e, q)
        BY <2>s, <3>1, <4>1 DEF Null
      <4>3. Retracts(t, q)
        BY <2>1, <4>2
      <4> QED
        BY <1>3, <2>1, <2>3, <3>3, <4>2, <4>3, ConcatSettled
    <3> QED
      BY <3>4, <3>5
  <2>13. ASSUME NEW i \in DOMAIN u, p \in DOMAIN u[i]
         PROVE  meta[p][p] < u[i][p].clock
    <3>1. CASE i \in DOMAIN s /\ u[i] = s[i]
      BY <1>5, <2>13, <3>1
    <3>2. CASE u[i] = e
      <4>1. v.meta[p] < e[p].clock
        BY <2>2, <2>8, <2>13, <3>2
      <4> QED
        BY <1>3, <1>4, <2>4, <2>13, <3>2, <4>1
    <3> QED
      BY <2>2, <3>1, <3>2
  <2>14. w.meta[p] = meta[p][p] \/ About(u, p)
    BY <1>5, <2>1, <2>3, <2>9
  <2>15. w.sent = u
    BY <2>s
  <2> HIDE DEF u
  <2> QED
    BY <2>6, <2>10, <2>11, <2>12, <2>13, <2>14, <2>15 DEF Told
<1>10. Told(p, frames, w)
  <2>1. CASE \E e \in Message : SendsOn(p, v, f, w, e)
    BY <1>9, <2>1
  <2> QED
    BY <1>x, <1>8, <2>1
<1> QED
  BY <1>10 DEF w, f

LEMMA TakeAllReached ==
  ASSUME NEW p \in Page, NEW frames \in Seq(Message),
         meta[p] \in [Page -> Nat], shown[p] \in SUBSET Page, p \in shown[p],
         \A q \in shown[p] \ {p} : meta[p][q] > 0
  PROVE  Reached(p, frames, TakeAll(p, frames))
<1> DEFINE Good == {v \in View : Moved(p, frames, v) /\ Told(p, frames, v)}
           v0 == Start(p)
<1>1. Len(frames) \in Nat /\ DOMAIN frames = 1..Len(frames)
      /\ \A i \in DOMAIN frames : frames[i] \in Message
  OBVIOUS
<1>2. v0.meta = meta[p] /\ v0.shown = shown[p] /\ v0.sent = <<>>
  BY DEF Start
<1>3. v0 \in View
  <2>1. <<>> \in Seq(Message)
    OBVIOUS
  <2> QED
    BY <2>1 DEF Start, View
<1> HIDE DEF v0
<1>4. Moved(p, frames, v0)
  BY <1>2 DEF Moved
<1>5. Told(p, frames, v0)
  <2>1. DOMAIN v0.sent = {}
    BY <1>2
  <2>2. /\ Climbs(v0.sent, meta[p], v0.meta) /\ Rises(v0.sent, p, v0.meta[p])
        /\ \A q : Settled(v0.sent, q)
    BY <2>1 DEF Climbs, Rises, Settled
  <2> QED
    BY <1>2, <2>1, <2>2, Zenon DEF Told
<1>6. v0 \in Good
  BY <1>3, <1>4, <1>5
<1>7. ASSUME NEW v \in Good, NEW i \in 1..Len(frames)
      PROVE  Take(p, v, frames[i]) \in Good
  <2>1. v \in View /\ Moved(p, frames, v) /\ Told(p, frames, v)
    BY <1>7
  <2>2. i \in DOMAIN frames /\ frames[i] \in Message
    BY <1>1
  <2>3. /\ Moved(p, frames, Take(p, v, frames[i]))
        /\ Told(p, frames, Take(p, v, frames[i]))
    BY <2>1, <2>2, MovedStep, ToldStep
  <2>4. Take(p, v, frames[i]) \in View
    <3>1. p \in v.shown /\ \A q \in v.shown \ {p} : v.meta[q] > 0
      <4> SUFFICES ASSUME NEW q \in v.shown \ {p}
                   PROVE  v.meta[q] > 0
        BY <2>1 DEF Moved
      <4>1. q \in Page /\ v.meta[q] \in Nat /\ meta[p][q] \in Nat
        BY <2>1 DEF View
      <4> QED
        BY <2>1, <4>1 DEF Moved
    <3> QED
      BY <2>1, <2>2, <3>1, TakeStep
  <2> QED
    BY <2>3, <2>4
<1> HIDE DEF Good
<1>8. TakeAll(p, frames) \in Good
  BY <1>1, <1>6, <1>7, TakeAllInduction DEF v0
<1> QED
  BY <1>8 DEF Good, Reached

--------------------------------------------------------------------------------
(* The invariant. *)

\* The type, with clocks that nothing bounds.
Shape ==
  /\ pc \in [Socket -> {"unused", "joining", "live", "leaving", "gone"}]
  /\ waiting \in Seq({s \in Socket : pc[s] \in {"joining", "leaving"}})
  /\ known \in [Socket -> Clocks]
  /\ last \in [Socket -> Message] /\ inbox \in [Socket -> Seq(Message)]
  /\ opener \in [Socket -> Page \cup {NoPage}] /\ at \in [Page -> Socket \cup {NoSocket}]
  /\ meta \in [Page -> [Page -> Nat]] /\ shown \in [Page -> SUBSET Page]
  /\ haunted \subseteq Page /\ reopened \subseteq Page /\ heard \in [Socket -> SUBSET Page]

\* A socket has one page and knows nothing before it joins; a page is at a socket of
\* its own; a task waits once.
Opened ==
  /\ \A s \in Socket :
       /\ pc[s] = "unused" <=> opener[s] = NoPage
       /\ pc[s] \in {"unused", "joining"} =>
            known[s] = NoFrame /\ last[s] = NoFrame /\ heard[s] = {}
       /\ pc[s] = "unused" => inbox[s] = <<>>
  /\ \A p \in Page : at[p] # NoSocket => opener[at[p]] = p
  /\ \A i, j \in DOMAIN waiting : i # j => waiting[i] # waiting[j]
  /\ \A s, t \in Socket :
       opener[s] = opener[t] /\ s # t /\ opener[s] # NoPage => opener[s] \in reopened

\* A page shows itself, others only once it is in the room and has a clock of them.
Shows ==
  \A p \in Page :
    /\ p \in shown[p]
    /\ at[p] = NoSocket => shown[p] = {p}
    /\ at[p] # NoSocket /\ pc[at[p]] = "joining" => shown[p] = {p}
    /\ \A q \in shown[p] \ {p} : meta[p][q] > 0

\* What the server knows of a client from a socket, 0 for nothing.
Remembered(t) == [q \in Page |-> IF q \in DOMAIN known[t] THEN known[t][q] ELSE 0]

\* A socket brings the clocks of its page, in order: the server knows the older ones,
\* those on their way are newer, the page has the newest.
OrderedAt(t) ==
  /\ \A q \in Page : Remembered(t)[q] <= meta[opener[t]][q]
  /\ \A q \in DOMAIN last[t] : q \in DOMAIN known[t] /\ last[t][q].clock = known[t][q]
  /\ Climbs(inbox[t], Remembered(t), meta[opener[t]])
  /\ \A q \in DOMAIN known[t] \ {opener[t]} : known[t][q] > 0
  /\ \A i \in DOMAIN inbox[t] : \A q \in DOMAIN inbox[t][i] \ {opener[t]} :
       inbox[t][i][q].clock > 0

Ordered == \A t \in Socket : opener[t] \in Page => OrderedAt(t)

\* A page that does not show a client has told the server so, or is telling it.
Echoes ==
  \A t \in Socket, q \in Page :
    opener[t] \in Page \ {q} /\ at[opener[t]] = t /\ q \notin shown[opener[t]] =>
      /\ Settled(inbox[t], q)
      /\ pc[t] = "live" /\ Here(last[t], q) => Retracts(inbox[t], q)

\* A page that has a socket open tells of itself, each time with a newer clock.
SpeaksAt(q) ==
  /\ Rises(inbox[at[q]], q, meta[q][q])
  /\ pc[at[q]] = "joining" => About(inbox[at[q]], q)
  /\ \A i \in DOMAIN inbox[at[q]] :
       q \in DOMAIN inbox[at[q]][i] /\ q \in DOMAIN known[at[q]]
         => known[at[q]][q] < inbox[at[q]][i][q].clock

Speaks ==
  \A q \in Page : at[q] # NoSocket /\ pc[at[q]] \in {"joining", "live"} => SpeaksAt(q)

\* An entry about q that t sent last, or that is on its way from t.
Says(t, q, x) ==
  \/ q \in DOMAIN last[t] /\ x = last[t][q]
  \/ \E i \in DOMAIN inbox[t] : q \in DOMAIN inbox[t][i] /\ x = inbox[t][i][q]

\* Nobody has a client there with a clock that the client itself has not reached.
Authentic ==
  \A q \in Page :
    /\ \A p \in Page : q \in shown[p] => meta[p][q] <= meta[q][q]
    /\ \A t \in Socket, x \in Entry : Says(t, q, x) /\ x.here => x.clock <= meta[q][q]

\* The sockets whose end may have been announced, and what clocks they allow.
Ended == {s \in Socket : pc[s] \in {"leaving", "gone"}}
Top == Max(Range(MaxMoves)) + 2 * Cardinality(Ended)

\* No clock is above Top; a removal is below it, for its client to answer.
Bound ==
  \A q \in Page :
    /\ \A p \in Page : meta[p][q] <= Top
    /\ \A t \in Socket, x \in Entry : Says(t, q, x) /\ ~x.here => x.clock < Top

\* Nobody knows of a page before its first socket is in the room.
Unknown ==
  \A q \in Page :
    q \notin reopened /\ (\A t \in Socket : opener[t] = q => pc[t] = "joining") =>
      \A p \in Page \ {q} : meta[p][q] = 0

\* The page is in the room with the only socket that it has opened.
Solo(q) == q \notin reopened /\ at[q] # NoSocket /\ pc[at[q]] = "live"

\* The clock of such a page is ahead: nobody has a newer one, all have older ones as
\* long as it has something to tell of itself, and every removal of it is older.
Ahead ==
  \A q \in Page : Solo(q) =>
    /\ \A p \in Page \ {q} :
         /\ meta[p][q] <= meta[q][q]
         /\ About(inbox[at[q]], q) /\ meta[q][q] > 0 => meta[p][q] < meta[q][q]
    /\ \A t \in Socket, x \in Entry : Says(t, q, x) /\ ~x.here => x.clock < meta[q][q]

\* A page that was sent a frame of such a page has it as it is, or is to be told again.
Converges ==
  \A p, q \in Page :
    /\ p # q /\ Solo(q) /\ meta[q][q] > 0
    /\ at[p] # NoSocket /\ pc[at[p]] = "live" /\ q \in heard[at[p]]
    => About(inbox[at[q]], q) \/ (q \in shown[p] /\ meta[p][q] = meta[q][q])

\* The socket is in the room, its end announces q with a clock newer than c, and it ends
\* or says that q has left before it can be the only thing that holds q.
WillRetract(t, q, c) ==
  /\ pc[t] = "live" /\ q \in DOMAIN known[t] /\ c <= known[t][q]
  /\ opener[t] = q \/ at[opener[t]] # t \/ Retracts(inbox[t], q)

\* Whoever is shown to a page has a socket, other than the page's, that will retract it.
Accounted ==
  \A p \in Page : \A q \in shown[p] \ {p} :
    at[p] # NoSocket /\ pc[at[p]] = "live" /\ q \notin haunted =>
      \E t \in Socket \ {at[p]} : WillRetract(t, q, meta[p][q])

--------------------------------------------------------------------------------
(* What a delivery changes. *)

\* The frames that reach p.
Gets(p, frames) == IF at[p] = NoSocket THEN <<>> ELSE frames[at[p]]

\* The pages have taken their frames, view is what they made of them, and each has sent
\* on what it sends over the socket that it has open.
Delivery(frames, received, view) ==
  /\ view \in [Page -> View]
  /\ \A p \in Page :
       /\ Reached(p, Gets(p, frames), view[p])
       /\ view[p] = TakeAll(p, Gets(p, frames))
       /\ meta'[p] = view[p].meta /\ shown'[p] = view[p].shown
  /\ \A p \in Page : at[p] # NoSocket => inbox'[at[p]] = received[at[p]] \o view[p].sent
  /\ \A t \in Socket : (\A p \in Page : at[p] # t) => inbox'[t] = received[t]
  /\ meta' \in [Page -> [Page -> Nat]] /\ shown' \in [Page -> SUBSET Page]
  /\ inbox' \in [Socket -> Seq(Message)]
  /\ UNCHANGED <<opener, at>>

LEMMA DeliverFacts ==
  ASSUME Shape, Opened, Shows,
         NEW frames \in [Socket -> Seq(Message)], NEW received \in [Socket -> Seq(Message)],
         Deliver(frames, received)
  PROVE  \E view : Delivery(frames, received, view)
<1> DEFINE view == [p \in Page |-> TakeAll(p, Gets(p, frames))]
<1>1. ASSUME NEW p \in Page
      PROVE  Gets(p, frames) \in Seq(Message) /\ (at[p] # NoSocket => at[p] \in Socket)
  <2>1. <<>> \in Seq(Message)
    OBVIOUS
  <2> QED
    BY <2>1 DEF Gets, Shape
<1>2. ASSUME NEW p \in Page
      PROVE  Reached(p, Gets(p, frames), TakeAll(p, Gets(p, frames)))
  <2>1. meta[p] \in [Page -> Nat] /\ shown[p] \in SUBSET Page
    BY DEF Shape
  <2>2. p \in shown[p] /\ \A q \in shown[p] \ {p} : meta[p][q] > 0
    BY DEF Shows
  <2> HIDE DEF view
  <2> QED
    BY <1>1, <2>1, <2>2, TakeAllReached
<1>3. view \in [Page -> View]
  BY <1>2 DEF Reached
<1>4. \A p \in Page : view[p] = TakeAll(p, Gets(p, frames))
  OBVIOUS
<1>5. /\ meta' = [p \in Page |-> view[p].meta]
      /\ shown' = [p \in Page |-> view[p].shown]
      /\ inbox' = [t \in Socket |->
           IF Attached(t) THEN received[t] \o view[opener[t]].sent ELSE received[t]]
      /\ UNCHANGED <<opener, at>>
  <2>1. /\ meta' = [p \in Page |-> TakeAll(p, Gets(p, frames)).meta]
        /\ shown' = [p \in Page |-> TakeAll(p, Gets(p, frames)).shown]
        /\ inbox' = [t \in Socket |->
             IF Attached(t) THEN received[t] \o TakeAll(opener[t], Gets(opener[t], frames)).sent
             ELSE received[t]]
        /\ UNCHANGED <<opener, at>>
    BY DEF Deliver, Gets
  <2>2. \A t \in Socket : Attached(t) => opener[t] \in Page
    BY PresenceAssumption DEF Attached, Opened, Shape
  <2> QED
    BY <1>4, <2>1, <2>2
<1> HIDE DEF view
<1>6. /\ \A p \in Page : view[p].meta \in [Page -> Nat] /\ view[p].shown \in SUBSET Page
                         /\ view[p].sent \in Seq(Message)
  BY <1>3 DEF View
<1>7. ASSUME NEW p \in Page, at[p] # NoSocket
      PROVE  inbox'[at[p]] = received[at[p]] \o view[p].sent
  <2>1. at[p] \in Socket /\ opener[at[p]] = p /\ Attached(at[p])
    BY <1>1, <1>7 DEF Opened, Attached
  <2> QED
    BY <1>5, <2>1
<1>8. ASSUME NEW t \in Socket, \A p \in Page : at[p] # t
      PROVE  inbox'[t] = received[t]
  BY <1>5, <1>8 DEF Attached
<1>9. ASSUME NEW t \in Socket
      PROVE  inbox'[t] \in Seq(Message)
  <2>1. CASE \E p \in Page : at[p] = t
    <3>1. PICK p \in Page : at[p] = t
      BY <2>1
    <3>2. inbox'[t] = received[t] \o view[p].sent
      BY <1>7, <3>1, PresenceAssumption
    <3> QED
      BY <1>6, <3>2
  <2>2. CASE \A p \in Page : at[p] # t
    BY <1>8, <2>2
  <2> QED
    BY <2>1, <2>2
<1>10. /\ meta' \in [Page -> [Page -> Nat]] /\ shown' \in [Page -> SUBSET Page]
       /\ inbox' \in [Socket -> Seq(Message)]
  <2>1. inbox' \in [Socket -> Seq(Message)]
    BY <1>5, <1>9
  <2> QED
    BY <1>5, <1>6, <2>1
<1> QED
  BY <1>2, <1>3, <1>4, <1>5, <1>7, <1>8, <1>10 DEF Delivery

\* What p sends on is appended to what was on its way from t.
SendsOver(p, t, received, view) ==
  /\ p \in Page /\ at[p] = t /\ (\A r \in Page : at[r] = t => r = p)
  /\ view[p].sent \in Seq(Message) /\ inbox'[t] = received[t] \o view[p].sent

LEMMA InboxAfter ==
  ASSUME Shape, Opened, NEW frames, NEW received \in [Socket -> Seq(Message)], NEW view,
         Delivery(frames, received, view), NEW t \in Socket
  PROVE  \/ inbox'[t] = received[t] /\ \A p \in Page : at[p] # t
         \/ SendsOver(opener[t], t, received, view)
<1>1. CASE \A p \in Page : at[p] # t
  BY <1>1 DEF Delivery
<1>2. ASSUME NEW p \in Page, at[p] = t
      PROVE  SendsOver(opener[t], t, received, view)
  <2>1. at[p] # NoSocket /\ \A r \in Page : at[r] = t => r = opener[t]
    BY <1>2, PresenceAssumption DEF Opened
  <2>2. inbox'[t] = received[t] \o view[p].sent /\ view[p] \in View /\ p = opener[t]
    BY <1>2, <2>1 DEF Delivery
  <2> QED
    BY <1>2, <2>1, <2>2 DEF View, SendsOver
<1> QED
  BY <1>1, <1>2

\* The clocks a page has do not fall.
LEMMA MetaAfter ==
  ASSUME Shape, NEW frames, NEW received, NEW view, Delivery(frames, received, view),
         NEW p \in Page, NEW q \in Page
  PROVE  /\ meta[p][q] \in Nat /\ meta'[p][q] \in Nat /\ meta[p][q] <= meta'[p][q]
         /\ meta[p] \in [Page -> Nat] /\ meta'[p] \in [Page -> Nat]
         /\ shown'[p] \subseteq Page
BY DEF Shape, Delivery, Reached, Moved

LEMMA ClimbsAfter ==
  ASSUME Shape, Opened, NEW frames, NEW received \in [Socket -> Seq(Message)], NEW view,
         Delivery(frames, received, view), NEW t \in Socket, opener[t] \in Page,
         NEW k \in [Page -> Nat], \A q \in Page : k[q] <= meta[opener[t]][q],
         Climbs(received[t], k, meta[opener[t]])
  PROVE  Climbs(inbox'[t], k, meta'[opener[t]])
<1> DEFINE p == opener[t]
           r == received[t]
<1>1. r \in Seq(Message)
  OBVIOUS
<1>2. /\ meta[p] \in [Page -> Nat] /\ meta'[p] \in [Page -> Nat]
      /\ \A q \in Page : meta[p][q] \in Nat /\ meta'[p][q] \in Nat /\ meta[p][q] <= meta'[p][q]
  BY MetaAfter
<1>3. CASE inbox'[t] = r
  <2>1. \A i \in DOMAIN r : \A q \in DOMAIN r[i] : q \in Page /\ r[i][q].clock \in Nat
    BY <1>1, MessageFacts
  <2> HIDE DEF p, r
  <2>2. Climbs(r, k, meta[p])
    BY DEF p, r
  <2>3. Climbs(r, k, meta'[p])
    BY <1>2, <2>1, <2>2 DEF Climbs
  <2> QED
    BY <1>3, <2>3 DEF p
<1>4. CASE SendsOver(p, t, received, view)
  <2> DEFINE s == view[p].sent
  <2>1. Climbs(s, meta[p], meta'[p])
    BY DEF Delivery, Reached, Told
  <2>2. s \in Seq(Message) /\ inbox'[t] = r \o s
    BY <1>4 DEF SendsOver
  <2> HIDE DEF s
  <2>3. Climbs(r \o s, k, meta'[p])
    BY <1>1, <1>2, <2>1, <2>2, ConcatClimbs
  <2> QED
    BY <2>2, <2>3
<1> QED
  BY <1>3, <1>4, InboxAfter

\* The entries on their way after a delivery: those there before, what a page says of
\* itself, and what it was told of others.
Stays(t, i, received) == i \in DOMAIN received[t] /\ inbox'[t][i] = received[t][i]

OfItself(t, i, q) ==
  /\ q = opener[t] /\ at[q] = t /\ inbox'[t][i][q].here
  /\ inbox'[t][i][q].clock <= meta'[q][q] /\ meta[q][q] < inbox'[t][i][q].clock

Repeats(t, i, q, frames) ==
  /\ q # opener[t] /\ opener[t] \in Page /\ at[opener[t]] = t
  /\ inbox'[t][i][q].clock > 0
  /\ \E j \in DOMAIN Gets(opener[t], frames) :
       /\ q \in DOMAIN Gets(opener[t], frames)[j]
       /\ Gets(opener[t], frames)[j][q] = inbox'[t][i][q]

LEMMA EntriesAfter ==
  ASSUME Shape, Opened, NEW frames, NEW received \in [Socket -> Seq(Message)], NEW view,
         Delivery(frames, received, view), NEW t \in Socket,
         NEW i \in DOMAIN inbox'[t], NEW q \in DOMAIN inbox'[t][i]
  PROVE  /\ q \in Page /\ inbox'[t][i] \in Message
         /\ Stays(t, i, received) \/ OfItself(t, i, q) \/ Repeats(t, i, q, frames)
<1> DEFINE p == opener[t]
           r == received[t]
           s == view[p].sent
           u == inbox'[t]
<1>1. r \in Seq(Message) /\ u \in Seq(Message)
  BY DEF Delivery
<1>2. q \in Page /\ u[i] \in Message
  <2>1. u[i] \in Message
    BY <1>1
  <2> QED
    BY <2>1, MessageFacts
<1>3. CASE u = r
  BY <1>2, <1>3 DEF Stays
<1>4. CASE SendsOver(p, t, received, view)
  <2>0. u = r \o s /\ s \in Seq(Message) /\ p \in Page /\ at[p] = t
    BY <1>4 DEF SendsOver
  <2> HIDE DEF r, s
  <2>1. \/ i \in DOMAIN r /\ u[i] = r[i]
        \/ i - Len(r) \in DOMAIN s /\ Len(r) + (i - Len(r)) = i /\ u[Len(r) + (i - Len(r))] = s[i - Len(r)]
    BY <1>1, <2>0, ConcatFacts
  <2>2. ASSUME NEW j \in DOMAIN s, u[i] = s[j]
        PROVE  \/ /\ q = p /\ u[i][q].here
                  /\ u[i][q].clock <= meta'[q][q] /\ meta[q][q] < u[i][q].clock
               \/ /\ q # p /\ u[i][q].clock > 0
                  /\ \E m \in DOMAIN Gets(p, frames) :
                       q \in DOMAIN Gets(p, frames)[m] /\ Gets(p, frames)[m][q] = u[i][q]
    <3>1. Told(p, Gets(p, frames), view[p]) /\ meta'[p] = view[p].meta
      BY <2>0 DEF Delivery, Reached
    <3>2. CASE q = p
      BY <2>2, <3>1, <3>2 DEF Told, Rises, s
    <3>3. CASE q # p
      BY <2>2, <3>1, <3>3 DEF Told, s
    <3> QED
      BY <3>2, <3>3
  <2> HIDE DEF u, p
  <2> QED
    BY <1>2, <2>0, <2>1, <2>2 DEF u, r, p, Stays, OfItself, Repeats
<1> QED
  BY <1>3, <1>4, InboxAfter

LEMMA SaysAfter ==
  ASSUME Shape, Opened, NEW frames, NEW received \in [Socket -> Seq(Message)], NEW view,
         Delivery(frames, received, view), NEW t \in Socket, opener[t] \in Page,
         at[opener[t]] = t, NEW q \in Page \ {opener[t]}, q \notin shown'[opener[t]],
         q \notin shown[opener[t]] => Settled(received[t], q)
  PROVE  /\ Settled(inbox'[t], q)
         /\ q \in shown[opener[t]] \/ Retracts(received[t], q) => Retracts(inbox'[t], q)
<1> DEFINE p == opener[t]
           r == received[t]
           s == view[p].sent
<1>1. r \in Seq(Message)
  OBVIOUS
<1>2. inbox'[t] = r \o s /\ s \in Seq(Message)
  <2>1. SendsOver(opener[t], t, received, view)
    BY InboxAfter
  <2> QED
    BY <2>1 DEF SendsOver
<1>3. Settled(s, q) /\ (q \in shown[p] => Retracts(s, q))
  BY DEF Delivery, Reached, Told
<1> HIDE DEF r, s
<1>4. Settled(r \o s, q)
  BY <1>1, <1>2, <1>3, ConcatSettled DEF r
<1>5. Retracts(r \o s, q) <=> Retracts(r, q) \/ Retracts(s, q)
  BY <1>1, <1>2, ConcatSays
<1> QED
  BY <1>2, <1>3, <1>4, <1>5 DEF r

\* What is said of a client before a delivery is said after it.
LEMMA SaidBefore ==
  ASSUME Shape, Opened, NEW frames, NEW received \in [Socket -> Seq(Message)], NEW view,
         Delivery(frames, received, view), NEW t \in Socket, NEW q
  PROVE  /\ About(received[t], q) => About(inbox'[t], q)
         /\ Retracts(received[t], q) => Retracts(inbox'[t], q)
<1> DEFINE r == received[t]
           s == view[opener[t]].sent
<1>1. r \in Seq(Message)
  OBVIOUS
<1>2. inbox'[t] = r \/ (inbox'[t] = r \o s /\ s \in Seq(Message))
  <2>1. CASE SendsOver(opener[t], t, received, view)
    BY <2>1 DEF SendsOver
  <2> QED
    BY <2>1, InboxAfter
<1> HIDE DEF r, s
<1>3. CASE s \in Seq(Message)
  <2>1. /\ About(r \o s, q) <=> About(r, q) \/ About(s, q)
        /\ Retracts(r \o s, q) <=> Retracts(r, q) \/ Retracts(s, q)
    BY <1>1, <1>3, ConcatSays
  <2> QED
    BY <1>2, <2>1 DEF r
<1> QED
  BY <1>2, <1>3 DEF r

LEMMA RisesAfter ==
  ASSUME Shape, Opened, NEW frames, NEW received \in [Socket -> Seq(Message)], NEW view,
         Delivery(frames, received, view), NEW q \in Page, at[q] # NoSocket
  PROVE  /\ Rises(received[at[q]], q, meta[q][q]) => Rises(inbox'[at[q]], q, meta'[q][q])
         /\ meta'[q][q] = meta[q][q] \/ About(inbox'[at[q]], q)
         /\ About(inbox'[at[q]], q) =>
              About(received[at[q]], q) \/ meta[q][q] < meta'[q][q]
<1> DEFINE t == at[q]
           r == received[t]
           s == view[q].sent
<1>1. t \in Socket /\ r \in Seq(Message)
  BY DEF Shape
<1>2. view[q] \in View /\ Told(q, Gets(q, frames), view[q]) /\ meta'[q] = view[q].meta
      /\ inbox'[t] = r \o s
  BY DEF Delivery, Reached
<1>3. s \in Seq(Message)
  BY <1>2 DEF View
<1>4. /\ meta[q][q] \in Nat /\ meta'[q][q] \in Nat /\ meta[q][q] <= meta'[q][q]
  BY MetaAfter
<1>5. /\ Rises(s, q, meta'[q][q])
      /\ \A i \in DOMAIN s : q \in DOMAIN s[i] => meta[q][q] < s[i][q].clock
      /\ meta'[q][q] = meta[q][q] \/ About(s, q)
  BY <1>2 DEF Told
<1> HIDE DEF t, r, s
<1>6. About(r \o s, q) <=> About(r, q) \/ About(s, q)
  BY <1>1, <1>3, ConcatSays
<1>7. Rises(r, q, meta[q][q]) => Rises(r \o s, q, meta'[q][q])
  BY <1>1, <1>3, <1>4, <1>5, ConcatRises
<1>8. About(s, q) => meta[q][q] < meta'[q][q]
  <2> SUFFICES ASSUME NEW i \in DOMAIN s, q \in DOMAIN s[i]
               PROVE  meta[q][q] < meta'[q][q]
    BY DEF About
  <2>1. s[i][q].clock \in Nat
    BY <1>3, MessageFacts
  <2>2. meta[q][q] < s[i][q].clock /\ s[i][q].clock <= meta'[q][q]
    BY <1>5 DEF Rises
  <2> QED
    BY <1>4, <2>1, <2>2
<1> QED
  BY <1>2, <1>5, <1>6, <1>7, <1>8 DEF t, r

--------------------------------------------------------------------------------
(* What the actions that deliver frames do. *)

\* A page takes the entry of a client.
Fresh(p, e, q) ==
  /\ q \in DOMAIN e
  /\ \/ meta[p][q] < e[q].clock
     \/ meta[p][q] = e[q].clock /\ ~e[q].here /\ q \in shown[p]

\* A page takes one frame.
Takes(p, e) ==
  /\ \A q \in Page : ~Fresh(p, e, q) =>
       meta'[p][q] = meta[p][q] /\ (q \in shown'[p] <=> q \in shown[p])
  /\ \A q \in Page \ {p} : Fresh(p, e, q) =>
       meta'[p][q] = e[q].clock /\ (q \in shown'[p] <=> e[q].here)
  /\ Fresh(p, e, p) => meta'[p][p] = e[p].clock + 1

Unmoved(p) == meta'[p] = meta[p] /\ shown'[p] = shown[p]

\* The page is sent what the room broadcasts.
Reachable(p, exclude) == at[p] # NoSocket /\ pc[at[p]] = "live" /\ at[p] # exclude

Relayed(e, exclude, frames, received, view) ==
  /\ Delivery(frames, received, view)
  /\ \A p \in Page : Reachable(p, exclude) => Gets(p, frames) = <<e>> /\ Takes(p, e)
  /\ \A p \in Page : ~Reachable(p, exclude) => Gets(p, frames) = <<>> /\ Unmoved(p)

\* The page of s is told of clients by some of the sockets in the room.
Handed(s, frames, view) ==
  /\ Delivery(frames, inbox, view)
  /\ \A p \in Page : at[p] # s => Gets(p, frames) = <<>> /\ Unmoved(p)
  /\ \A p \in Page : \A i \in DOMAIN Gets(p, frames) :
       \E t \in Socket : t # s /\ pc[t] \in {"live", "leaving"} /\ Gets(p, frames)[i] = last[t]

LEMMA NoneTaken ==
  ASSUME NEW frames, NEW received, NEW view, Delivery(frames, received, view),
         NEW p \in Page, Gets(p, frames) = <<>>
  PROVE  Unmoved(p)
<1>1. view[p] = Start(p)
  BY TakeAllOfNone, Len(<<>>) = 0 DEF Delivery
<1> QED
  BY <1>1 DEF Delivery, Start, Unmoved

LEMMA OneTaken ==
  ASSUME Shape, Shows, NEW p \in Page, NEW e \in Message,
         NEW v, v = Take(p, Start(p), e), meta'[p] = v.meta, shown'[p] = v.shown
  PROVE  Takes(p, e)
<1> DEFINE v0 == Start(p)
           new == Newer(v0, e)
<1>1. v0.meta = meta[p] /\ v0.shown = shown[p]
  BY DEF Start
<1>2. v0 \in View
  <2>1. <<>> \in Seq(Message)
    OBVIOUS
  <2> QED
    BY <2>1 DEF Start, View, Shape
<1>3. p \in v0.shown /\ \A q \in v0.shown \ {p} : v0.meta[q] > 0
  BY <1>1 DEF Shows
<1> HIDE DEF v0
<1>4. \A q : q \in new <=> Fresh(p, e, q)
  BY <1>1 DEF Newer, Fresh
<1>5. v = Take(p, v0, e)
  BY DEF v0
<1> HIDE DEF new
<1>6. /\ \A q \in Page \ new : v.meta[q] = v0.meta[q] /\ (q \in v.shown <=> q \in v0.shown)
      /\ \A q \in new \ {p} : v.meta[q] = e[q].clock /\ (q \in v.shown <=> e[q].here)
      /\ p \in new => v.meta[p] = e[p].clock + 1
  BY <1>2, <1>3, <1>5, TakeStep DEF new
<1> QED
  BY <1>1, <1>4, <1>6 DEF Takes

LEMMA BroadcastFacts ==
  ASSUME Shape, Opened, Shows, NEW e \in Message, NEW exclude,
         NEW received \in [Socket -> Seq(Message)], Broadcast(e, exclude, received)
  PROVE  \E frames, view : Relayed(e, exclude, frames, received, view)
<1> DEFINE frames ==
      [t \in Socket |-> IF pc[t] = "live" /\ t # exclude THEN <<e>> ELSE <<>>]
<1>1. <<e>> \in Seq(Message) /\ <<>> \in Seq(Message) /\ Len(<<e>>) = 1 /\ <<e>>[1] = e
  OBVIOUS
<1>2. frames \in [Socket -> Seq(Message)] /\ Deliver(frames, received)
  BY <1>1 DEF Broadcast
<1>3. PICK view : Delivery(frames, received, view)
  <2> HIDE DEF frames
  <2> QED
    BY <1>2, DeliverFacts
<1>4. ASSUME NEW p \in Page
      PROVE  /\ Reachable(p, exclude) => Gets(p, frames) = <<e>>
             /\ ~Reachable(p, exclude) => Gets(p, frames) = <<>>
  <2>1. at[p] \in Socket \cup {NoSocket}
    BY DEF Shape
  <2> QED
    BY <2>1 DEF Gets, Reachable
<1> HIDE DEF frames
<1>5. ASSUME NEW p \in Page, ~Reachable(p, exclude)
      PROVE  Unmoved(p)
  BY <1>3, <1>4, <1>5, NoneTaken
<1>6. ASSUME NEW p \in Page, Reachable(p, exclude)
      PROVE  Takes(p, e)
  <2> DEFINE one == <<e>>
  <2>1. view[p] = TakeAll(p, one) /\ meta'[p] = view[p].meta /\ shown'[p] = view[p].shown
    BY <1>3, <1>4, <1>6 DEF Delivery
  <2>2. Len(one) = 1 /\ one[1] = e
    BY <1>1
  <2> HIDE DEF one
  <2>3. view[p] = Take(p, Start(p), e)
    BY <2>1, <2>2, TakeAllOfOne
  <2> QED
    BY <2>1, <2>3, OneTaken
<1>7. Relayed(e, exclude, frames, received, view)
  BY <1>3, <1>4, <1>5, <1>6 DEF Relayed
<1> QED
  BY <1>7

LEMMA ReceiveFacts ==
  ASSUME Shape, Opened, Shows, NEW s \in Socket, Receive(s)
  PROVE  /\ inbox[s] \in Seq(Message) /\ inbox[s] # <<>> /\ Head(inbox[s]) \in Message
         /\ pc[s] = "live" /\ opener[s] \in Page
         /\ [inbox EXCEPT ![s] = Tail(@)] \in [Socket -> Seq(Message)]
         /\ \E frames, view :
              Relayed(Head(inbox[s]), s, frames, [inbox EXCEPT ![s] = Tail(@)], view)
<1>1. inbox[s] \in Seq(Message) /\ inbox[s] # <<>> /\ pc[s] = "live"
  BY DEF Receive, Shape
<1>2. Head(inbox[s]) \in Message /\ Tail(inbox[s]) \in Seq(Message)
  BY <1>1, TailFacts
<1>3. opener[s] \in Page
  BY <1>1 DEF Opened, Shape
<1>4. [inbox EXCEPT ![s] = Tail(@)] \in [Socket -> Seq(Message)]
  BY <1>2 DEF Shape
<1>5. Broadcast(Head(inbox[s]), s, [inbox EXCEPT ![s] = Tail(@)])
  BY DEF Receive
<1> QED
  BY <1>1, <1>2, <1>3, <1>4, <1>5, BroadcastFacts

\* A frame about nobody changes nothing.
LEMMA EmptyBroadcast ==
  ASSUME Shape, Opened, Shows, NEW e \in Message, DOMAIN e = {}, NEW exclude,
         NEW received \in [Socket -> Seq(Message)], inbox' = received, UNCHANGED page
  PROVE  Broadcast(e, exclude, received)
<1> DEFINE frames ==
      [t \in Socket |-> IF pc[t] = "live" /\ t # exclude THEN <<e>> ELSE <<>>]
           all(p) == TakeAll(p, IF at[p] = NoSocket THEN <<>> ELSE frames[at[p]])
<1>1. ASSUME NEW p \in Page
      PROVE  all(p) = Start(p)
  <2> DEFINE g == IF at[p] = NoSocket THEN <<>> ELSE frames[at[p]]
             v0 == Start(p)
  <2>1. at[p] \in Socket \cup {NoSocket}
    BY DEF Shape
  <2>2. g = <<>> \/ g = <<e>>
    BY <2>1
  <2> HIDE DEF g
  <2>3. CASE g = <<>>
    BY <2>3, TakeAllOfNone, Len(<<>>) = 0 DEF g
  <2>4. CASE g = <<e>>
    <3>1. Len(g) = 1 /\ g[1] = e
      BY <2>4
    <3>2. TakeAll(p, g) = Take(p, v0, e)
      BY <3>1, TakeAllOfOne
    <3>3. v0.meta = meta[p] /\ v0.shown = shown[p] /\ v0.sent = <<>>
          /\ v0 = [meta |-> v0.meta, shown |-> v0.shown, sent |-> v0.sent]
      BY DEF Start
    <3>4. meta[p] \in [Page -> Nat] /\ shown[p] \in SUBSET Page
      BY DEF Shape
    <3> HIDE DEF v0
    <3>5. Newer(v0, e) = {}
      BY DEF Newer
    <3>6. /\ [q \in Page |-> v0.meta[q]] = v0.meta
          /\ {q \in Page : q \in v0.shown} = v0.shown
      BY <3>3, <3>4
    <3>7. Take(p, v0, e) = [meta |-> [q \in Page |-> v0.meta[q]],
                            shown |-> {q \in Page : q \in v0.shown}, sent |-> v0.sent]
      BY <3>5, Zenon DEF Take
    <3> QED
      BY <3>2, <3>3, <3>6, <3>7 DEF g, v0
  <2> QED
    BY <2>2, <2>3, <2>4
<1> HIDE DEF all, frames
<1>2. \A p \in Page : /\ all(p).meta = meta[p] /\ all(p).shown = shown[p]
                      /\ all(p).sent = <<>>
  BY <1>1 DEF Start
<1>3. meta' = [p \in Page |-> all(p).meta] /\ shown' = [p \in Page |-> all(p).shown]
  BY <1>2 DEF page, Shape
<1>4. ASSUME NEW t \in Socket
      PROVE  received[t] = IF Attached(t) THEN received[t] \o all(opener[t]).sent ELSE received[t]
  <2>1. Attached(t) => opener[t] \in Page
    BY PresenceAssumption DEF Attached, Opened, Shape
  <2>2. received[t] \o <<>> = received[t]
    OBVIOUS
  <2> QED
    BY <1>2, <2>1, <2>2
<1>5. inbox' = [t \in Socket |->
         IF Attached(t) THEN received[t] \o all(opener[t]).sent ELSE received[t]]
  BY <1>4
<1>6. UNCHANGED <<opener, at>>
  BY DEF page
<1>7. Deliver(frames, received)
  BY <1>3, <1>5, <1>6, Zenon DEF Deliver, all
<1> QED
  BY <1>7, Zenon DEF Broadcast, frames

LEMMA RemovalFacts ==
  ASSUME Shape, NEW s \in Socket
  PROVE  /\ Removal(s) \in Message /\ DOMAIN Removal(s) = DOMAIN known[s]
         /\ \A q \in DOMAIN known[s] :
              /\ q \in Page /\ known[s][q] \in Nat
              /\ Removal(s)[q].clock = known[s][q] + 1 /\ ~Removal(s)[q].here
<1>1. DOMAIN known[s] \in SUBSET Page /\ \A q \in DOMAIN known[s] : known[s][q] \in Nat
  BY DEF Shape, Clocks
<1>2. \A q \in DOMAIN known[s] : [clock |-> known[s][q] + 1, here |-> FALSE] \in Entry
  BY <1>1 DEF Entry
<1>3. Removal(s) \in [DOMAIN known[s] -> Entry]
  BY <1>2 DEF Removal
<1> QED
  BY <1>1, <1>3, IsMessage DEF Removal

LEMMA LeaveFacts ==
  ASSUME Shape, Opened, Shows, NEW s \in Socket, Leave(s)
  PROVE  /\ pc[s] = "live" /\ opener[s] \in Page
         /\ [inbox EXCEPT ![s] = <<>>] \in [Socket -> Seq(Message)]
         /\ \E frames, view :
              Relayed(Removal(s), s, frames, [inbox EXCEPT ![s] = <<>>], view)
<1> DEFINE received == [inbox EXCEPT ![s] = <<>>]
<1>1. pc[s] = "live"
  BY DEF Leave
<1>2. opener[s] \in Page
  BY <1>1 DEF Opened, Shape
<1>3. received \in [Socket -> Seq(Message)]
  <2>1. <<>> \in Seq(Message)
    OBVIOUS
  <2> QED
    BY <2>1 DEF Shape
<1>4. Removal(s) \in Message /\ DOMAIN Removal(s) = DOMAIN known[s]
  BY RemovalFacts
<1>5. Broadcast(Removal(s), s, received)
  <2>1. CASE known[s] = NoFrame
    <3>1. inbox' = received /\ UNCHANGED page
      BY <2>1 DEF Leave
    <3>2. DOMAIN known[s] = {}
      BY <2>1 DEF NoFrame
    <3> HIDE DEF received
    <3> QED
      BY <1>3, <1>4, <3>1, <3>2, EmptyBroadcast
  <2>2. CASE known[s] # NoFrame
    BY <2>2 DEF Leave
  <2> QED
    BY <2>1, <2>2
<1> HIDE DEF received
<1>6. \E frames, view : Relayed(Removal(s), s, frames, received, view)
  BY <1>3, <1>4, <1>5, BroadcastFacts
<1> QED
  BY <1>1, <1>2, <1>3, <1>6 DEF received

LEMMA JoinFacts ==
  ASSUME Shape, Opened, Shows, NEW s \in Socket, Join(s)
  PROVE  /\ pc[s] = "joining" /\ opener[s] \in Page
         /\ \E frames, view : Handed(s, frames, view)
<1> DEFINE others == {t \in InRoom : last[t] # NoFrame}
<1>1. pc[s] = "joining" /\ opener[s] \in Page
  BY DEF Join, Opened, Shape
<1>2. IsFiniteSet(others)
  BY PresenceAssumption, FS_Subset DEF InRoom
<1>3. Cardinality(others) \in Nat
  BY <1>2, FS_CardinalityType
<1>4. PICK order \in SetToSeqs(others) :
        Deliver([t \in Socket |->
                   IF t = s THEN [i \in DOMAIN order |-> last[order[i]]] ELSE <<>>], inbox)
  BY DEF Join
<1> DEFINE n == Cardinality(others)
           lasts == [i \in DOMAIN order |-> last[order[i]]]
           frames == [t \in Socket |-> IF t = s THEN lasts ELSE <<>>]
<1>5. order \in [1..n -> others]
  BY DEF SetToSeqs
<1>6. \A t \in others : t \in Socket /\ pc[t] \in {"live", "leaving"} /\ t # s /\ last[t] \in Message
  BY <1>1 DEF InRoom, Shape
<1> HIDE DEF n, others
<1>7. /\ lasts \in Seq(Message) /\ DOMAIN lasts = DOMAIN order
      /\ \A i \in DOMAIN lasts : order[i] \in others /\ lasts[i] = last[order[i]]
  <2>1. lasts \in [1..n -> Message]
    BY <1>5, <1>6
  <2>2. lasts \in Seq(Message)
    <3> HIDE DEF lasts
    <3> QED
      BY <1>3, <2>1 DEF n
  <2> QED
    BY <1>5, <2>2
<1>8. frames \in [Socket -> Seq(Message)]
  <2>1. <<>> \in Seq(Message)
    OBVIOUS
  <2> QED
    BY <1>7, <2>1
<1>9. Deliver(frames, inbox)
  BY <1>4
<1> HIDE DEF lasts
<1>10. \A t \in Socket : frames[t] = IF t = s THEN lasts ELSE <<>>
  OBVIOUS
<1> HIDE DEF frames
<1>11. PICK view : Delivery(frames, inbox, view)
  BY <1>8, <1>9, DeliverFacts DEF Shape
<1>12. ASSUME NEW p \in Page, at[p] # s
       PROVE  Gets(p, frames) = <<>> /\ Unmoved(p)
  <2>1. at[p] \in Socket \cup {NoSocket}
    BY DEF Shape
  <2>2. Gets(p, frames) = <<>>
    BY <1>10, <1>12, <2>1 DEF Gets
  <2> QED
    BY <1>11, <2>2, NoneTaken
<1>13. ASSUME NEW p \in Page, NEW i \in DOMAIN Gets(p, frames)
       PROVE  \E t \in Socket : t # s /\ pc[t] \in {"live", "leaving"} /\ Gets(p, frames)[i] = last[t]
  <2>1. at[p] = s
    <3>1. DOMAIN <<>> = {}
      OBVIOUS
    <3> QED
      BY <1>12, <1>13, <3>1
  <2>2. Gets(p, frames) = lasts
    BY <1>10, <2>1, PresenceAssumption DEF Gets
  <2>3. order[i] \in others /\ lasts[i] = last[order[i]]
    BY <1>7, <1>13, <2>2
  <2> QED
    BY <1>6, <2>2, <2>3
<1>14. Handed(s, frames, view)
  BY <1>11, <1>12, <1>13 DEF Handed
<1> QED
  BY <1>1, <1>14

--------------------------------------------------------------------------------
(* The type is kept. *)

LEMMA QueueTail ==
  ASSUME NEW W, NEW w \in Seq(W), w # <<>>,
         \A i, j \in DOMAIN w : i # j => w[i] # w[j]
  PROVE  /\ Head(w) \in W /\ Tail(w) \in Seq(W \ {Head(w)})
         /\ \A i, j \in DOMAIN Tail(w) : i # j => Tail(w)[i] # Tail(w)[j]
<1>1. Len(w) \in Nat /\ Len(w) # 0 /\ DOMAIN w = 1..Len(w) /\ Head(w) = w[1]
  OBVIOUS
<1> DEFINE n == Len(w) - 1
           t == Tail(w)
<1>2. t \in Seq(W) /\ Len(t) = n /\ DOMAIN t = 1..n /\ n \in Nat
  BY <1>1
<1>3. \A i \in 1..n : t[i] = w[i + 1] /\ i + 1 \in DOMAIN w /\ i + 1 # 1
  BY <1>1
<1> HIDE DEF n, t
<1>4. \A i \in 1..n : t[i] \in W \ {w[1]}
  BY <1>1, <1>3
<1>5. t \in Seq(W \ {w[1]})
  BY <1>2, <1>4
<1>6. \A i, j \in 1..n : i # j => t[i] # t[j]
  <2> SUFFICES ASSUME NEW i \in 1..n, NEW j \in 1..n, i # j
               PROVE  t[i] # t[j]
    OBVIOUS
  <2>1. i + 1 # j + 1
    BY <1>2
  <2> QED
    BY <1>3, <2>1
<1>7. Head(w) \in W
  BY <1>1
<1> QED
  BY <1>1, <1>2, <1>5, <1>6, <1>7 DEF t

LEMMA QueueAppend ==
  ASSUME NEW W, NEW w \in Seq(W), \A i, j \in DOMAIN w : i # j => w[i] # w[j],
         NEW s, s \notin W
  PROVE  /\ Append(w, s) \in Seq(W \cup {s})
         /\ \A i, j \in DOMAIN Append(w, s) : i # j => Append(w, s)[i] # Append(w, s)[j]
<1>1. Len(w) \in Nat /\ DOMAIN w = 1..Len(w) /\ \A i \in DOMAIN w : w[i] \in W
  OBVIOUS
<1> DEFINE a == Append(w, s)
<1>2. /\ a \in Seq(W \cup {s}) /\ DOMAIN a = 1..(Len(w) + 1)
      /\ \A i \in DOMAIN a : (i \in DOMAIN w /\ a[i] = w[i]) \/ (i = Len(w) + 1 /\ a[i] = s)
  OBVIOUS
<1> HIDE DEF a
<1> QED
  BY <1>1, <1>2 DEF a

Queued == {s \in Socket : pc[s] \in {"joining", "leaving"}}

\* The queue and the sockets, with the shape of the rest.
LEMMA QueueTakes ==
  ASSUME Shape, Opened, NEW s \in Socket, waiting # <<>>, s = Head(waiting),
         waiting' = Tail(waiting), NEW v \in {"live", "gone"}, pc' = [pc EXCEPT ![s] = v]
  PROVE  /\ waiting' \in Seq(Queued')
         /\ \A i, j \in DOMAIN waiting' : i # j => waiting'[i] # waiting'[j]
<1>1. waiting \in Seq(Queued) /\ \A i, j \in DOMAIN waiting : i # j => waiting[i] # waiting[j]
  BY DEF Shape, Queued, Opened
<1>2. Queued' = Queued \ {s}
  BY DEF Queued, Shape
<1> HIDE DEF Queued
<1>3. /\ Tail(waiting) \in Seq(Queued \ {s})
      /\ \A i, j \in DOMAIN Tail(waiting) : i # j => Tail(waiting)[i] # Tail(waiting)[j]
  BY <1>1, QueueTail
<1> QED
  BY <1>2, <1>3

LEMMA QueueGrows ==
  ASSUME Shape, Opened, NEW s \in Socket, pc[s] \in {"unused", "live"},
         waiting' = Append(waiting, s), NEW v \in {"joining", "leaving"},
         pc' = [pc EXCEPT ![s] = v]
  PROVE  /\ waiting' \in Seq(Queued')
         /\ \A i, j \in DOMAIN waiting' : i # j => waiting'[i] # waiting'[j]
<1>1. waiting \in Seq(Queued) /\ \A i, j \in DOMAIN waiting : i # j => waiting[i] # waiting[j]
  BY DEF Shape, Queued, Opened
<1>2. Queued' = Queued \cup {s} /\ s \notin Queued
  BY DEF Queued, Shape
<1> HIDE DEF Queued
<1>3. /\ Append(waiting, s) \in Seq(Queued \cup {s})
      /\ \A i, j \in DOMAIN Append(waiting, s) :
           i # j => Append(waiting, s)[i] # Append(waiting, s)[j]
  BY <1>1, <1>2, QueueAppend
<1> QED
  BY <1>2, <1>3

LEMMA OwnFacts ==
  ASSUME NEW p \in Page, NEW m, m[p] \in Nat
  PROVE  /\ Encode({p}, m, {p}) \in Message /\ DOMAIN Encode({p}, m, {p}) = {p}
         /\ Encode({p}, m, {p})[p].clock = m[p] /\ Encode({p}, m, {p})[p].here
<1> DEFINE e == Encode({p}, m, {p})
<1>1. (p \in {p}) = TRUE
  OBVIOUS
<1>2. e[p] = [clock |-> m[p], here |-> TRUE] /\ DOMAIN e = {p}
  BY <1>1 DEF Encode
<1>3. e \in [{p} -> Entry]
  BY <1>1 DEF Encode, Entry
<1>4. e \in Message
  BY <1>3, IsMessage
<1> QED
  BY <1>2, <1>4

LEMMA ShapeKept ==
  ASSUME Shape, Opened, Shows, Next
  PROVE  Shape'
<1>1. ASSUME NEW p \in Page, Move(p)
      PROVE  Shape'
  <2>1. meta' \in [Page -> [Page -> Nat]] /\ meta'[p][p] \in Nat
    BY <1>1 DEF Move, Shape
  <2>2. Encode({p}, meta'[p], {p}) \in Message
    BY <2>1, OwnFacts
  <2> DEFINE e == Encode({p}, meta'[p], {p})
  <2>3. \/ at[p] \in Socket /\ inbox' = [inbox EXCEPT ![at[p]] = Append(@, e)]
        \/ inbox' = inbox
    BY <1>1 DEF Move, Send, Shape
  <2>e. e \in Message
    BY <2>2
  <2> HIDE DEF e
  <2>4. inbox' \in [Socket -> Seq(Message)]
    <3>1. inbox \in [Socket -> Seq(Message)]
      BY DEF Shape
    <3>2. CASE at[p] \in Socket /\ inbox' = [inbox EXCEPT ![at[p]] = Append(@, e)]
      <4>1. inbox[at[p]] \in Seq(Message)
        BY <3>1, <3>2
      <4>2. Append(inbox[at[p]], e) \in Seq(Message)
        BY <2>e, <4>1
      <4> QED
        BY <3>1, <3>2, <4>2
    <3> QED
      BY <2>3, <3>1, <3>2
  <2> QED
    BY <1>1, <2>1, <2>4 DEF Move, Shape, server, history
<1>2. ASSUME NEW p \in Page, Close(p)
      PROVE  Shape'
  BY <1>2 DEF Close, Shape, server, history
<1>3. ASSUME NEW p \in Page, NEW s \in Socket, Open(p, s)
      PROVE  Shape'
  <2>1. waiting' \in Seq(Queued')
    BY <1>3, QueueGrows DEF Open
  <2>2. Own(p) \in Message
    <3>1. meta[p][p] \in Nat
      BY DEF Shape
    <3> QED
      BY <3>1, OwnFacts DEF Own
  <2>3. inbox' \in [Socket -> Seq(Message)]
    BY <1>3, <2>2 DEF Open, Send, Shape
  <2>4. reopened' \subseteq Page
    BY <1>3 DEF Open, Shape
  <2>5. pc' \in [Socket -> {"unused", "joining", "live", "leaving", "gone"}]
    BY <1>3 DEF Open, Shape
  <2>6. /\ opener' \in [Socket -> Page \cup {NoPage}] /\ at' \in [Page -> Socket \cup {NoSocket}]
        /\ UNCHANGED <<known, last, meta, shown, haunted, heard>>
    BY <1>3 DEF Open, Shape
  <2> QED
    BY <2>1, <2>3, <2>4, <2>5, <2>6 DEF Shape, Queued
<1>4. ASSUME NEW s \in Socket, Join(s)
      PROVE  Shape'
  <2>1. waiting' \in Seq(Queued')
    BY <1>4, QueueTakes DEF Join
  <2>2. PICK frames, view : Delivery(frames, inbox, view)
    BY <1>4, JoinFacts DEF Handed
  <2>3. haunted' \subseteq Page
    <3>1. \A t \in Socket : DOMAIN last[t] \subseteq Page
      BY MessageFacts DEF Shape
    <3> QED
      BY <1>4, <3>1 DEF Join, Shape, InRoom
  <2>4. /\ pc' \in [Socket -> {"unused", "joining", "live", "leaving", "gone"}]
        /\ UNCHANGED <<known, last, reopened, heard>>
    BY <1>4 DEF Join, Shape
  <2> QED
    BY <2>1, <2>2, <2>3, <2>4 DEF Delivery, Shape, Queued
<1>5. ASSUME NEW s \in Socket, JoinFails(s)
      PROVE  Shape'
  <2>1. waiting' \in Seq(Queued')
    BY <1>5, QueueTakes DEF JoinFails
  <2>2. <<>> \in Seq(Message)
    OBVIOUS
  <2> QED
    BY <1>5, <2>1, <2>2 DEF JoinFails, Shape, Queued, page, history
<1>6. ASSUME NEW s \in Socket, Receive(s)
      PROVE  Shape'
  <2> DEFINE e == Head(inbox[s])
  <2>1. e \in Message
    BY <1>6, ReceiveFacts
  <2>2. PICK frames, view : Relayed(e, s, frames, [inbox EXCEPT ![s] = Tail(@)], view)
    BY <1>6, ReceiveFacts
  <2>3. Delivery(frames, [inbox EXCEPT ![s] = Tail(@)], view)
    BY <2>2 DEF Relayed
  <2>4. Spoken(known[s], e) \in Clocks
    <3>1. DOMAIN known[s] \in SUBSET Page /\ \A q \in DOMAIN known[s] : known[s][q] \in Nat
      BY DEF Shape, Clocks
    <3>2. DOMAIN e \in SUBSET Page /\ \A q \in DOMAIN e : e[q].clock \in Nat
      BY <2>1, MessageFacts
    <3> DEFINE S == DOMAIN known[s] \cup DOMAIN e
    <3>3. S \in SUBSET Page /\ Spoken(known[s], e) \in [S -> Nat]
      BY <3>1, <3>2 DEF Spoken
    <3> QED
      BY <3>3 DEF Clocks
  <2> HIDE DEF e
  <2>5. /\ known' = [known EXCEPT ![s] = Spoken(@, e)] /\ last' = [last EXCEPT ![s] = e]
        /\ heard' = [t \in Socket |->
             IF pc[t] = "live" /\ t # s THEN heard[t] \cup (DOMAIN e \cap {opener[s]})
             ELSE heard[t]]
        /\ UNCHANGED <<pc, waiting, haunted, reopened>>
    BY <1>6 DEF Receive, e
  <2>6. heard' \in [Socket -> SUBSET Page]
    <3>1. DOMAIN e \subseteq Page
      BY <2>1, MessageFacts
    <3> QED
      BY <2>5, <3>1 DEF Shape
  <2>7. known' \in [Socket -> Clocks] /\ last' \in [Socket -> Message]
    BY <2>1, <2>4, <2>5 DEF Shape
  <2>8. /\ meta' \in [Page -> [Page -> Nat]] /\ shown' \in [Page -> SUBSET Page]
        /\ inbox' \in [Socket -> Seq(Message)] /\ opener' = opener /\ at' = at
    BY <2>3 DEF Delivery
  <2> QED
    BY <2>5, <2>6, <2>7, <2>8 DEF Shape
<1>7. ASSUME NEW s \in Socket, Leave(s)
      PROVE  Shape'
  <2>1. waiting' \in Seq(Queued')
    BY <1>7, QueueGrows DEF Leave
  <2>2. PICK frames, view : Relayed(Removal(s), s, frames, [inbox EXCEPT ![s] = <<>>], view)
    BY <1>7, LeaveFacts
  <2>3. Delivery(frames, [inbox EXCEPT ![s] = <<>>], view)
    BY <2>2 DEF Relayed
  <2>4. /\ pc' \in [Socket -> {"unused", "joining", "live", "leaving", "gone"}]
        /\ UNCHANGED <<known, last, history>>
    BY <1>7 DEF Leave, Shape
  <2> QED
    BY <2>1, <2>3, <2>4 DEF Delivery, Shape, Queued, history
<1>8. ASSUME NEW s \in Socket, Discard(s)
      PROVE  Shape'
  <2>1. waiting' \in Seq(Queued')
    BY <1>8, QueueTakes DEF Discard
  <2> QED
    BY <1>8, <2>1 DEF Discard, Shape, Queued, page, history
<1> QED
  BY <1>1, <1>2, <1>3, <1>4, <1>5, <1>6, <1>7, <1>8 DEF Next

LEMMA UnusedAfter ==
  ASSUME Shape, Opened, NEW frames, NEW received \in [Socket -> Seq(Message)], NEW view,
         Delivery(frames, received, view), NEW t \in Socket, pc[t] = "unused"
  PROVE  inbox'[t] = received[t]
<1>1. ASSUME NEW p \in Page, at[p] = t
      PROVE  FALSE
  <2>1. opener[t] = NoPage /\ t # NoSocket
    BY PresenceAssumption DEF Opened
  <2>2. opener[t] = p
    BY <1>1, <2>1 DEF Opened
  <2> QED
    BY <2>1, <2>2, PresenceAssumption
<1> QED
  BY <1>1 DEF Delivery

LEMMA OpenedKept ==
  ASSUME Shape, Opened, Shows, Next
  PROVE  Opened'
<1>1. ASSUME NEW p \in Page, Move(p)
      PROVE  Opened'
  <2>1. UNCHANGED <<server, opener, at, heard, reopened>>
    BY <1>1 DEF Move, history
  <2>2. \A s \in Socket : pc[s] = "unused" => inbox'[s] = inbox[s]
    BY <1>1 DEF Move, Send, Shape
  <2> QED
    BY <2>1, <2>2 DEF Opened, server
<1>2. ASSUME NEW p \in Page, Close(p)
      PROVE  Opened'
  <2>1. /\ UNCHANGED <<server, inbox, opener, meta, history>>
        /\ \A r \in Page : at'[r] # NoSocket => at'[r] = at[r]
    BY <1>2 DEF Close, Shape
  <2> QED
    BY <2>1 DEF Opened, server, history
<1>3. ASSUME NEW p \in Page, NEW s \in Socket, Open(p, s)
      PROVE  Opened'
  <2>1. \A i, j \in DOMAIN waiting' : i # j => waiting'[i] # waiting'[j]
    BY <1>3, QueueGrows DEF Open
  <2>2. /\ pc[s] = "unused" /\ at[p] = NoSocket /\ opener[s] = NoPage /\ p # NoPage
        /\ \A t \in Socket : t # s =>
             pc'[t] = pc[t] /\ opener'[t] = opener[t] /\ inbox'[t] = inbox[t]
        /\ pc'[s] = "joining" /\ opener'[s] = p
        /\ \A r \in Page : r # p => at'[r] = at[r]
        /\ at'[p] = s
        /\ UNCHANGED <<known, last, heard>>
        /\ reopened \subseteq reopened'
        /\ \A t \in Socket : opener[t] = p => p \in reopened'
    BY <1>3, PresenceAssumption DEF Open, Send, Shape, Opened
  <2>3. ASSUME NEW t \in Socket
        PROVE  /\ pc'[t] = "unused" <=> opener'[t] = NoPage
               /\ pc'[t] \in {"unused", "joining"} =>
                    known'[t] = NoFrame /\ last'[t] = NoFrame /\ heard'[t] = {}
               /\ pc'[t] = "unused" => inbox'[t] = <<>>
    BY <2>2 DEF Opened
  <2>4. ASSUME NEW r \in Page, at'[r] # NoSocket
        PROVE  opener'[at'[r]] = r
    <3>1. CASE r = p
      BY <2>2, <3>1
    <3>2. CASE r # p
      <4>1. at'[r] = at[r] /\ opener[at[r]] = r /\ at[r] \in Socket /\ r # NoPage
        BY <2>2, <2>4, <3>2, PresenceAssumption DEF Opened, Shape
      <4> QED
        BY <2>2, <4>1
    <3> QED
      BY <3>1, <3>2
  <2>5. ASSUME NEW t \in Socket, NEW u \in Socket, opener'[t] = opener'[u], t # u,
               opener'[t] # NoPage
        PROVE  opener'[t] \in reopened'
    <3>1. CASE t # s /\ u # s
      BY <2>2, <2>5, <3>1 DEF Opened
    <3>2. CASE t = s \/ u = s
      BY <2>2, <2>5, <3>2
    <3> QED
      BY <3>1, <3>2
  <2> QED
    BY <2>1, <2>3, <2>4, <2>5 DEF Opened
<1>4. ASSUME NEW s \in Socket, Join(s)
      PROVE  Opened'
  <2>1. \A i, j \in DOMAIN waiting' : i # j => waiting'[i] # waiting'[j]
    BY <1>4, QueueTakes DEF Join
  <2>2. PICK frames, view : Delivery(frames, inbox, view)
    BY <1>4, JoinFacts DEF Handed
  <2>3. /\ opener' = opener /\ at' = at /\ UNCHANGED <<known, last, reopened, heard>>
        /\ pc[s] = "joining" /\ pc' = [pc EXCEPT ![s] = "live"]
    BY <1>4, <2>2 DEF Join, Delivery
  <2>4. \A t \in Socket : pc[t] = "unused" => inbox'[t] = inbox[t]
    BY <2>2, UnusedAfter DEF Shape
  <2> QED
    BY <2>1, <2>3, <2>4 DEF Opened, Shape
<1>5. ASSUME NEW s \in Socket, JoinFails(s)
      PROVE  Opened'
  <2>1. \A i, j \in DOMAIN waiting' : i # j => waiting'[i] # waiting'[j]
    BY <1>5, QueueTakes DEF JoinFails
  <2> QED
    BY <1>5, <2>1 DEF JoinFails, Opened, Shape, page, history
<1>6. ASSUME NEW s \in Socket, Receive(s)
      PROVE  Opened'
  <2> DEFINE received == [inbox EXCEPT ![s] = Tail(@)]
  <2>1. PICK frames, view : Relayed(Head(inbox[s]), s, frames, received, view)
    BY <1>6, ReceiveFacts
  <2>2. Delivery(frames, received, view) /\ received \in [Socket -> Seq(Message)]
    BY <1>6, <2>1, ReceiveFacts DEF Relayed
  <2>3. pc[s] = "live" /\ \A t \in Socket : t # s => received[t] = inbox[t]
    BY <1>6 DEF Receive, Shape
  <2> HIDE DEF received
  <2>4. \A t \in Socket : pc[t] = "unused" => inbox'[t] = inbox[t]
    BY <2>2, <2>3, UnusedAfter
  <2>5. /\ opener' = opener /\ at' = at /\ UNCHANGED <<pc, waiting, reopened>>
    BY <1>6, <2>2 DEF Receive, Delivery
  <2>6. /\ \A t \in Socket : t # s => known'[t] = known[t] /\ last'[t] = last[t]
        /\ \A t \in Socket : pc[t] # "live" => heard'[t] = heard[t]
    BY <1>6 DEF Receive, Shape
  <2> QED
    BY <2>3, <2>4, <2>5, <2>6 DEF Opened
<1>7. ASSUME NEW s \in Socket, Leave(s)
      PROVE  Opened'
  <2> DEFINE received == [inbox EXCEPT ![s] = <<>>]
  <2>1. PICK frames, view : Relayed(Removal(s), s, frames, received, view)
    BY <1>7, LeaveFacts
  <2>2. Delivery(frames, received, view) /\ received \in [Socket -> Seq(Message)]
    BY <1>7, <2>1, LeaveFacts DEF Relayed
  <2>3. pc[s] = "live" /\ \A t \in Socket : t # s => received[t] = inbox[t]
    BY <1>7 DEF Leave, Shape
  <2> HIDE DEF received
  <2>4. \A t \in Socket : pc[t] = "unused" => inbox'[t] = inbox[t]
    BY <2>2, <2>3, UnusedAfter
  <2>5. /\ opener' = opener /\ at' = at /\ UNCHANGED <<known, last, history>>
        /\ pc' = [pc EXCEPT ![s] = "leaving"]
    BY <1>7, <2>2 DEF Leave, Delivery
  <2>6. \A i, j \in DOMAIN waiting' : i # j => waiting'[i] # waiting'[j]
    BY <1>7, QueueGrows DEF Leave
  <2> QED
    BY <2>3, <2>4, <2>5, <2>6 DEF Opened, Shape, history
<1>8. ASSUME NEW s \in Socket, Discard(s)
      PROVE  Opened'
  <2>1. \A i, j \in DOMAIN waiting' : i # j => waiting'[i] # waiting'[j]
    BY <1>8, QueueTakes DEF Discard
  <2> QED
    BY <1>8, <2>1 DEF Discard, Opened, Shape, page, history
<1> QED
  BY <1>1, <1>2, <1>3, <1>4, <1>5, <1>6, <1>7, <1>8 DEF Next

\* What a page shows after frames has a clock.
LEMMA ShownAfter ==
  ASSUME Shape, Shows, NEW frames, NEW received, NEW view,
         Delivery(frames, received, view), NEW p \in Page
  PROVE  p \in shown'[p] /\ \A q \in shown'[p] \ {p} : meta'[p][q] > 0
<1>1. /\ Moved(p, Gets(p, frames), view[p]) /\ meta'[p] = view[p].meta /\ shown'[p] = view[p].shown
  BY DEF Delivery, Reached
<1>2. ASSUME NEW q \in shown'[p] \ {p}
      PROVE  meta'[p][q] > 0
  <2>1. q \in Page /\ meta[p][q] \in Nat /\ meta'[p][q] \in Nat
    BY MetaAfter
  <2>2. (q \in shown[p] /\ meta'[p][q] = meta[p][q]) \/ meta[p][q] < meta'[p][q]
    BY <1>1, <1>2 DEF Moved
  <2>3. q \in shown[p] => meta[p][q] > 0
    BY <1>2 DEF Shows
  <2> QED
    BY <2>1, <2>2, <2>3
<1> QED
  BY <1>1, <1>2 DEF Moved

LEMMA ShowsKept ==
  ASSUME Shape, Opened, Shows, Next
  PROVE  Shows'
<1>1. ASSUME NEW p \in Page, Move(p)
      PROVE  Shows'
  <2>1. /\ UNCHANGED <<pc, at, shown>>
        /\ \A r \in Page : \A q \in Page : q # r => meta'[r][q] = meta[r][q]
    BY <1>1 DEF Move, Shape, server
  <2> QED
    BY <2>1 DEF Shows, Shape
<1>2. ASSUME NEW p \in Page, Close(p)
      PROVE  Shows'
  <2>1. /\ UNCHANGED <<pc, meta>> /\ at'[p] = NoSocket /\ shown'[p] = {p}
        /\ \A r \in Page : r # p => at'[r] = at[r] /\ shown'[r] = shown[r]
    BY <1>2 DEF Close, Shape, server
  <2> QED
    BY <2>1 DEF Shows
<1>3. ASSUME NEW p \in Page, NEW s \in Socket, Open(p, s)
      PROVE  Shows'
  <2>1. /\ UNCHANGED <<meta, shown>> /\ at[p] = NoSocket /\ at'[p] = s /\ pc[s] = "unused"
        /\ \A r \in Page : r # p => at'[r] = at[r]
        /\ \A t \in Socket : t # s => pc'[t] = pc[t]
    BY <1>3 DEF Open, Shape
  <2>2. \A r \in Page : at[r] # NoSocket => at[r] \in Socket /\ at[r] # s
    BY <2>1, PresenceAssumption DEF Shape, Opened
  <2> QED
    BY <2>1, <2>2 DEF Shows
<1>4. ASSUME NEW s \in Socket, Join(s)
      PROVE  Shows'
  <2>1. PICK frames, view : Handed(s, frames, view)
    BY <1>4, JoinFacts
  <2>2. Delivery(frames, inbox, view)
    BY <2>1 DEF Handed
  <2>3. \A p \in Page : p \in shown'[p] /\ \A q \in shown'[p] \ {p} : meta'[p][q] > 0
    BY <2>2, ShownAfter
  <2>4. ASSUME NEW p \in Page,
               at'[p] = NoSocket \/ (at'[p] # NoSocket /\ pc'[at'[p]] = "joining")
        PROVE  shown'[p] = {p}
    <3>1. at' = at /\ pc' = [pc EXCEPT ![s] = "live"]
      BY <1>4, <2>2 DEF Join, Delivery
    <3>2. at[p] # s /\ (at[p] = NoSocket \/ (at[p] # NoSocket /\ pc[at[p]] = "joining"))
      BY <2>4, <3>1, PresenceAssumption DEF Shape
    <3>3. shown'[p] = shown[p]
      BY <2>1, <3>2 DEF Handed, Unmoved
    <3> QED
      BY <3>2, <3>3 DEF Shows
  <2> QED
    BY <2>3, <2>4 DEF Shows
<1>5. ASSUME NEW s \in Socket, JoinFails(s) \/ Discard(s)
      PROVE  Shows'
  <2>1. UNCHANGED page /\ \A t \in Socket : pc'[t] = "joining" => pc[t] = "joining"
    BY <1>5 DEF JoinFails, Discard, Shape
  <2>2. \A r \in Page : at[r] # NoSocket => at[r] \in Socket
    BY DEF Shape
  <2> QED
    BY <2>1, <2>2 DEF Shows, page
<1>6. ASSUME NEW e, NEW s \in Socket, NEW frames, NEW received, NEW view,
             Relayed(e, s, frames, received, view),
             \A t \in Socket : pc'[t] = "joining" => pc[t] = "joining"
      PROVE  Shows'
  <2>1. Delivery(frames, received, view)
    BY <1>6 DEF Relayed
  <2>2. \A p \in Page : p \in shown'[p] /\ \A q \in shown'[p] \ {p} : meta'[p][q] > 0
    BY <2>1, ShownAfter
  <2>3. ASSUME NEW p \in Page,
               at'[p] = NoSocket \/ (at'[p] # NoSocket /\ pc'[at'[p]] = "joining")
        PROVE  shown'[p] = {p}
    <3>1. at[p] = NoSocket \/ (at[p] # NoSocket /\ pc[at[p]] = "joining")
      BY <1>6, <2>1, <2>3 DEF Shape, Delivery
    <3>2. shown'[p] = shown[p]
      BY <1>6, <3>1 DEF Relayed, Reachable, Unmoved
    <3> QED
      BY <3>1, <3>2 DEF Shows
  <2> QED
    BY <2>2, <2>3 DEF Shows
<1>7. ASSUME NEW s \in Socket, Receive(s)
      PROVE  Shows'
  <2>1. \A t \in Socket : pc'[t] = "joining" => pc[t] = "joining"
    BY <1>7 DEF Receive
  <2> QED
    BY <1>6, <1>7, <2>1, ReceiveFacts
<1>8. ASSUME NEW s \in Socket, Leave(s)
      PROVE  Shows'
  <2>1. \A t \in Socket : pc'[t] = "joining" => pc[t] = "joining"
    BY <1>8 DEF Leave, Shape
  <2> QED
    BY <1>6, <1>8, <2>1, LeaveFacts
<1> QED
  BY <1>1, <1>2, <1>3, <1>4, <1>5, <1>7, <1>8 DEF Next

--------------------------------------------------------------------------------
(* The clocks that a socket brings stay in order. *)

LEMMA ClimbsMore ==
  ASSUME NEW s \in Seq(Message), NEW a, NEW b \in [Page -> Nat], NEW c \in [Page -> Nat],
         \A q \in Page : b[q] <= c[q], Climbs(s, a, b)
  PROVE  Climbs(s, a, c)
<1>1. \A i \in DOMAIN s : \A q \in DOMAIN s[i] : q \in Page /\ s[i][q].clock \in Nat
  BY MessageFacts
<1> QED
  BY <1>1 DEF Climbs

LEMMA RememberedFacts ==
  ASSUME Shape, NEW t \in Socket
  PROVE  /\ Remembered(t) \in [Page -> Nat]
         /\ \A q \in DOMAIN known[t] : q \in Page /\ known[t][q] \in Nat
                                       /\ Remembered(t)[q] = known[t][q]
         /\ \A q \in Page \ DOMAIN known[t] : Remembered(t)[q] = 0
<1>1. DOMAIN known[t] \in SUBSET Page /\ \A q \in DOMAIN known[t] : known[t][q] \in Nat
  BY DEF Shape, Clocks
<1> QED
  BY <1>1 DEF Remembered

LEMMA OrderedAfter ==
  ASSUME Shape, Opened, Shape', NEW frames, NEW received \in [Socket -> Seq(Message)], NEW view,
         Delivery(frames, received, view), NEW t \in Socket, opener[t] \in Page,
         \A q \in Page : Remembered(t)'[q] <= meta[opener[t]][q],
         \A q \in DOMAIN last'[t] : q \in DOMAIN known'[t] /\ last'[t][q].clock = known'[t][q],
         Climbs(received[t], Remembered(t)', meta[opener[t]]),
         \A q \in DOMAIN known'[t] \ {opener[t]} : known'[t][q] > 0,
         \A i \in DOMAIN received[t] : \A q \in DOMAIN received[t][i] \ {opener[t]} :
           received[t][i][q].clock > 0
  PROVE  OrderedAt(t)'
<1> DEFINE k == Remembered(t)'
           p == opener[t]
<1>1. k \in [Page -> Nat]
  <2>1. DOMAIN known'[t] \in SUBSET Page /\ \A q \in DOMAIN known'[t] : known'[t][q] \in Nat
    BY DEF Shape, Clocks
  <2> QED
    BY <2>1 DEF Remembered
<1>2. opener'[t] = p
  BY DEF Delivery
<1>3. \A q \in Page : k[q] <= meta[p][q]
  OBVIOUS
<1>4. \A q \in Page : meta[p][q] \in Nat /\ meta'[p][q] \in Nat /\ meta[p][q] <= meta'[p][q]
  BY MetaAfter
<1>5. Climbs(received[t], k, meta[p])
  OBVIOUS
<1> HIDE DEF k
<1>6. Climbs(inbox'[t], k, meta'[p])
  BY <1>1, <1>3, <1>5, ClimbsAfter
<1>7. \A q \in Page : k[q] <= meta'[p][q]
  BY <1>1, <1>3, <1>4
<1>8. ASSUME NEW i \in DOMAIN inbox'[t], NEW q \in DOMAIN inbox'[t][i] \ {p}
      PROVE  inbox'[t][i][q].clock > 0
  <2>1. Stays(t, i, received) \/ OfItself(t, i, q) \/ Repeats(t, i, q, frames)
    BY <1>8, EntriesAfter
  <2> QED
    BY <1>8, <2>1 DEF Stays, OfItself, Repeats
<1> HIDE DEF p
<1> QED
  BY <1>2, <1>6, <1>7, <1>8 DEF OrderedAt, k, p

\* What a page sends of itself, appended to what is on its way.
LEMMA SendFacts ==
  ASSUME Shape, NEW p \in Page, at[p] \in Socket, NEW e \in Message, Send(at[p], e)
  PROVE  /\ inbox'[at[p]] = inbox[at[p]] \o <<e>> /\ inbox[at[p]] \in Seq(Message)
         /\ \A t \in Socket : t # at[p] => inbox'[t] = inbox[t]
<1> DEFINE r == inbox[at[p]]
<1>1. r \in Seq(Message)
  BY DEF Shape
<1>2. inbox'[at[p]] = Append(r, e) /\ \A t \in Socket : t # at[p] => inbox'[t] = inbox[t]
  BY DEF Send, Shape
<1> HIDE DEF r
<1>3. Append(r, e) = r \o <<e>>
  BY <1>1, OneFrame
<1> QED
  BY <1>1, <1>2, <1>3 DEF r

\* A page that moves and has its socket open sends one frame about itself.
LEMMA MoveFacts ==
  ASSUME Shape, NEW p \in Page, Move(p)
  PROVE  /\ meta[p][p] \in Nat /\ meta'[p][p] = meta[p][p] + 1
         /\ \A r, q \in Page : r # p \/ q # p => meta'[r][q] = meta[r][q]
         /\ UNCHANGED <<server, opener, at, shown, history>>
         /\ \/ /\ at[p] \in Socket /\ pc[at[p]] \in {"joining", "live"}
               /\ \E e \in Message :
                    DOMAIN e = {p} /\ e[p].clock = meta'[p][p] /\ e[p].here /\ Send(at[p], e)
            \/ /\ inbox' = inbox
               /\ at[p] # NoSocket => pc[at[p]] \notin {"joining", "live"}
<1>1. /\ meta[p][p] \in Nat /\ meta'[p][p] = meta[p][p] + 1
      /\ \A r, q \in Page : r # p \/ q # p => meta'[r][q] = meta[r][q]
      /\ UNCHANGED <<server, opener, at, shown, history>>
  BY DEF Move, Shape
<1>2. CASE at[p] # NoSocket /\ pc[at[p]] \in {"joining", "live"}
  <2>1. Send(at[p], Encode({p}, meta'[p], {p})) /\ at[p] \in Socket
    BY <1>2 DEF Move, Shape
  <2>2. /\ Encode({p}, meta'[p], {p}) \in Message /\ DOMAIN Encode({p}, meta'[p], {p}) = {p}
        /\ Encode({p}, meta'[p], {p})[p].clock = meta'[p][p]
        /\ Encode({p}, meta'[p], {p})[p].here
    <3>1. meta'[p][p] \in Nat
      BY <1>1
    <3> QED
      BY <3>1, OwnFacts
  <2> QED
    BY <1>1, <1>2, <2>1, <2>2
<1>3. CASE ~(at[p] # NoSocket /\ pc[at[p]] \in {"joining", "live"})
  <2>1. inbox' = inbox
    BY <1>3 DEF Move
  <2> QED
    BY <1>1, <1>3, <2>1
<1> QED
  BY <1>2, <1>3

LEMMA OpenFacts ==
  ASSUME Shape, Opened, NEW p \in Page, NEW s \in Socket, Open(p, s)
  PROVE  /\ pc[s] = "unused" /\ at[p] = NoSocket /\ opener[s] = NoPage /\ p # NoPage
         /\ \A t \in Socket : t # s =>
              pc'[t] = pc[t] /\ opener'[t] = opener[t] /\ inbox'[t] = inbox[t]
         /\ pc'[s] = "joining" /\ opener'[s] = p
         /\ \A r \in Page : r # p => at'[r] = at[r] /\ at[r] # s
         /\ at'[p] = s /\ s # NoSocket
         /\ UNCHANGED <<known, last, meta, shown, haunted, heard>>
         /\ reopened \subseteq reopened'
         /\ \A t \in Socket : opener[t] = p => p \in reopened'
         /\ known[s] = NoFrame /\ last[s] = NoFrame
<1>1. /\ pc[s] = "unused" /\ at[p] = NoSocket /\ opener[s] = NoPage /\ p # NoPage
      /\ \A t \in Socket : t # s =>
           pc'[t] = pc[t] /\ opener'[t] = opener[t] /\ inbox'[t] = inbox[t]
      /\ pc'[s] = "joining" /\ opener'[s] = p
      /\ at'[p] = s /\ s # NoSocket
      /\ UNCHANGED <<known, last, meta, shown, haunted, heard>>
      /\ known[s] = NoFrame /\ last[s] = NoFrame
  BY PresenceAssumption DEF Open, Send, Shape, Opened
<1>2. /\ \A r \in Page : r # p => at'[r] = at[r]
      /\ reopened \subseteq reopened'
      /\ \A t \in Socket : opener[t] = p => p \in reopened'
  BY DEF Open, Shape
<1>5. \A r \in Page : at[r] # s
  BY <1>1, PresenceAssumption DEF Opened
<1> QED
  BY <1>1, <1>2, <1>5

\* All that is on its way from s is a frame of p about itself.
Announces(p, s, e) ==
  inbox'[s] = <<e>> /\ DOMAIN e = {p} /\ e[p].clock = meta[p][p] /\ e[p].here

LEMMA OpenSends ==
  ASSUME Shape, Opened, NEW p \in Page, NEW s \in Socket, Open(p, s)
  PROVE  \E e \in Message : Announces(p, s, e)
<1>1. inbox'[s] = Append(<<>>, Own(p))
  BY DEF Open, Send, Shape, Opened
<1>2. meta[p][p] \in Nat
  BY DEF Shape
<1>3. /\ Own(p) \in Message /\ DOMAIN Own(p) = {p}
      /\ Own(p)[p].clock = meta[p][p] /\ Own(p)[p].here
  BY <1>2, OwnFacts DEF Own
<1>4. Append(<<>>, Own(p)) = <<Own(p)>>
  OBVIOUS
<1>5. Announces(p, s, Own(p))
  BY <1>1, <1>3, <1>4 DEF Announces
<1> QED
  BY <1>3, <1>5

LEMMA OrderedKept ==
  ASSUME Shape, Opened, Shows, Ordered, Shape', Opened', Next
  PROVE  Ordered'
<1> SUFFICES ASSUME NEW t \in Socket, opener'[t] \in Page
             PROVE  OrderedAt(t)'
  BY DEF Ordered
<1>0. /\ Remembered(t) \in [Page -> Nat]
      /\ \A q \in DOMAIN known[t] : q \in Page /\ known[t][q] \in Nat
                                    /\ Remembered(t)[q] = known[t][q]
      /\ \A q \in Page \ DOMAIN known[t] : Remembered(t)[q] = 0
  BY RememberedFacts
<1>m. ASSUME NEW r \in Page
      PROVE  meta[r] \in [Page -> Nat] /\ meta'[r] \in [Page -> Nat]
  BY DEF Shape
<1>1. ASSUME NEW p \in Page, Move(p)
      PROVE  OrderedAt(t)'
  <2>1. /\ \A r, q \in Page : r # p \/ q # p => meta'[r][q] = meta[r][q]
        /\ meta[p][p] \in Nat /\ meta'[p][p] = meta[p][p] + 1
        /\ UNCHANGED <<known, last, opener, at>>
    BY <1>1, MoveFacts DEF server
  <2>2. OrderedAt(t) /\ opener[t] \in Page
    BY <2>1 DEF Ordered
  <2>3. \A r, q \in Page : meta[r][q] <= meta'[r][q]
    BY <1>m, <2>1
  <2>4. Remembered(t)' = Remembered(t)
    BY <2>1 DEF Remembered
  <2>5. \A q \in Page : Remembered(t)[q] <= meta'[opener[t]][q]
    BY <1>0, <1>m, <2>2, <2>3 DEF OrderedAt
  <2>6. CASE inbox'[t] = inbox[t]
    <3>1. Climbs(inbox[t], Remembered(t), meta'[opener[t]])
      BY <1>m, <2>2, <2>3, ClimbsMore DEF Shape, OrderedAt
    <3> QED
      BY <2>1, <2>2, <2>4, <2>5, <2>6, <3>1 DEF OrderedAt
  <2>7. CASE inbox'[t] # inbox[t]
    <3>1. PICK e \in Message :
            /\ at[p] \in Socket /\ DOMAIN e = {p} /\ e[p].clock = meta'[p][p]
            /\ Send(at[p], e)
      BY <1>1, <2>7, MoveFacts
    <3>2. t = at[p] /\ inbox'[t] = inbox[t] \o <<e>> /\ inbox[t] \in Seq(Message)
      BY <2>7, <3>1, SendFacts
    <3>3. opener[t] = p
      BY <3>1, <3>2, PresenceAssumption DEF Opened
    <3> DEFINE r == inbox[t]
               g == <<e>>
    <3>4. g \in Seq(Message)
      BY <3>1
    <3>5. Climbs(g, meta[p], meta'[p])
      BY <2>1, <3>1, OneClimbs
    <3> HIDE DEF g
    <3>6. Climbs(r, Remembered(t), meta[p]) /\ \A q \in Page : Remembered(t)[q] <= meta[p][q]
      BY <2>2, <3>3 DEF OrderedAt
    <3>7. Climbs(r \o g, Remembered(t), meta'[p])
      <4>1. meta[p] \in [Page -> Nat] /\ meta'[p] \in [Page -> Nat]
        BY <1>m
      <4>2. \A q \in Page : Remembered(t)[q] <= meta[p][q] /\ meta[p][q] <= meta'[p][q]
        BY <2>3, <3>6
      <4> QED
        BY <1>0, <3>2, <3>4, <3>5, <3>6, <4>1, <4>2, ConcatClimbs
    <3>8. ASSUME NEW i \in DOMAIN inbox'[t], NEW q \in DOMAIN inbox'[t][i] \ {p}
          PROVE  inbox'[t][i][q].clock > 0
      <4>1. /\ DOMAIN g = {1} /\ g[1] = e
        BY DEF g
      <4>2. inbox'[t] = r \o g
        BY <3>2 DEF g
      <4> HIDE DEF r
      <4>3. (i \in DOMAIN r /\ inbox'[t][i] = r[i]) \/ inbox'[t][i] = e
        <5>1. \/ i \in DOMAIN r
              \/ i - Len(r) \in DOMAIN g /\ Len(r) + (i - Len(r)) = i
          BY <3>2, <3>4, <3>8, <4>2, ConcatFacts DEF r
        <5>2. /\ \A j \in DOMAIN r : (r \o g)[j] = r[j]
              /\ \A j \in DOMAIN g : (r \o g)[Len(r) + j] = g[j]
          BY <3>2, <3>4, ConcatFacts DEF r
        <5> QED
          BY <4>1, <4>2, <5>1, <5>2
      <4> QED
        BY <2>2, <3>1, <3>3, <3>8, <4>3 DEF OrderedAt, r
    <3> QED
      BY <2>1, <2>2, <2>4, <2>5, <3>2, <3>3, <3>7, <3>8 DEF OrderedAt, g
  <2> QED
    BY <2>6, <2>7
<1>2. ASSUME NEW p \in Page, Close(p)
      PROVE  OrderedAt(t)'
  BY <1>2 DEF Close, Ordered, OrderedAt, Remembered, server
<1>3. ASSUME NEW p \in Page, NEW s \in Socket, Open(p, s)
      PROVE  OrderedAt(t)'
  <2>1. CASE t # s
    <3>1. opener'[t] = opener[t] /\ inbox'[t] = inbox[t]
      BY <1>3, <2>1, OpenFacts
    <3>2. UNCHANGED <<known, last, meta>>
      BY <1>3 DEF Open
    <3> QED
      BY <3>1, <3>2 DEF Ordered, OrderedAt, Remembered
  <2>2. CASE t = s
    <3>1. /\ opener'[t] = p /\ UNCHANGED <<known, last, meta>>
          /\ known[t] = NoFrame /\ last[t] = NoFrame
      BY <1>3, <2>2, OpenFacts
    <3>a. PICK e \in Message : Announces(p, s, e)
      BY <1>3, OpenSends
    <3>0. inbox'[t] = <<e>> /\ DOMAIN e = {p} /\ e[p].clock = meta[p][p]
      BY <2>2, <3>a DEF Announces
    <3> DEFINE k == Remembered(t)
    <3>2. DOMAIN known[t] = {} /\ DOMAIN last[t] = {}
      BY <3>1 DEF NoFrame
    <3>3. k = Remembered(t)'
      BY <3>1 DEF Remembered
    <3>4. \A q \in Page : k[q] = 0 /\ k[q] <= meta[p][q]
      BY <1>0, <1>m, <3>2
    <3> HIDE DEF k
    <3>5. Climbs(<<e>>, k, meta[p])
      <4>1. \A q \in DOMAIN e : k[q] <= e[q].clock /\ e[q].clock <= meta[p][q]
        BY <1>m, <3>0, <3>4
      <4> QED
        BY <4>1, OneClimbs
    <3>6. \A i \in DOMAIN <<e>> : DOMAIN <<e>>[i] = {p}
      BY <3>0
    <3> QED
      BY <3>0, <3>1, <3>2, <3>3, <3>4, <3>5, <3>6 DEF OrderedAt
  <2> QED
    BY <2>1, <2>2
<1>4. ASSUME NEW s \in Socket, Join(s)
      PROVE  OrderedAt(t)'
  <2>1. PICK frames, view : Delivery(frames, inbox, view)
    BY <1>4, JoinFacts DEF Handed
  <2>2. /\ UNCHANGED <<known, last>> /\ opener'[t] = opener[t] /\ Remembered(t)' = Remembered(t)
        /\ inbox \in [Socket -> Seq(Message)]
    BY <1>4, <2>1 DEF Join, Delivery, Remembered, Shape
  <2>3. OrderedAt(t)
    BY <2>2 DEF Ordered
  <2>4. /\ \A q \in Page : Remembered(t)[q] <= meta[opener[t]][q]
        /\ \A q \in DOMAIN last[t] : q \in DOMAIN known[t] /\ last[t][q].clock = known[t][q]
        /\ Climbs(inbox[t], Remembered(t), meta[opener[t]])
        /\ \A q \in DOMAIN known[t] \ {opener[t]} : known[t][q] > 0
        /\ \A i \in DOMAIN inbox[t] : \A q \in DOMAIN inbox[t][i] \ {opener[t]} :
             inbox[t][i][q].clock > 0
    BY <2>3 DEF OrderedAt
  <2> QED
    BY <2>1, <2>2, <2>4, OrderedAfter
<1>5. ASSUME NEW s \in Socket, JoinFails(s)
      PROVE  OrderedAt(t)'
  <2>1. /\ UNCHANGED <<known, last, opener, meta>> /\ (inbox'[t] = inbox[t] \/ inbox'[t] = <<>>)
    BY <1>5 DEF JoinFails, Shape, page
  <2>2. OrderedAt(t) /\ Remembered(t)' = Remembered(t)
    BY <1>5 DEF JoinFails, Ordered, Remembered, page
  <2>3. CASE inbox'[t] = <<>>
    <3>1. Climbs(<<>>, Remembered(t), meta[opener[t]]) /\ DOMAIN <<>> = {}
      BY NoFrames
    <3> QED
      BY <1>5, <2>2, <2>3, <3>1 DEF JoinFails, OrderedAt, page
  <2>4. CASE inbox'[t] = inbox[t]
    BY <1>5, <2>2, <2>4 DEF JoinFails, OrderedAt, page
  <2> QED
    BY <2>1, <2>3, <2>4
<1>6. ASSUME NEW s \in Socket, Receive(s)
      PROVE  OrderedAt(t)'
  <2> DEFINE e == Head(inbox[s])
             received == [inbox EXCEPT ![s] = Tail(@)]
  <2>1. PICK frames, view : Relayed(e, s, frames, received, view)
    BY <1>6, ReceiveFacts
  <2>2. /\ Delivery(frames, received, view) /\ received \in [Socket -> Seq(Message)]
        /\ e \in Message /\ inbox[s] \in Seq(Message) /\ inbox[s] # <<>>
    BY <1>6, <2>1, ReceiveFacts DEF Relayed
  <2>3. /\ received[s] = Tail(inbox[s])
        /\ \A u \in Socket : u # s =>
             received[u] = inbox[u] /\ known'[u] = known[u] /\ last'[u] = last[u]
        /\ known'[s] = Spoken(known[s], e) /\ last'[s] = e
    BY <1>6 DEF Receive, Shape
  <2>4. opener'[t] = opener[t] /\ OrderedAt(t)
    BY <2>2 DEF Delivery, Ordered
  <2>5. CASE t # s
    <3>1. Remembered(t)' = Remembered(t) /\ received[t] = inbox[t]
          /\ known'[t] = known[t] /\ last'[t] = last[t]
      BY <2>3, <2>5 DEF Remembered
    <3> HIDE DEF received, e
    <3>2. /\ \A q \in Page : Remembered(t)[q] <= meta[opener[t]][q]
          /\ \A q \in DOMAIN last[t] : q \in DOMAIN known[t] /\ last[t][q].clock = known[t][q]
          /\ Climbs(inbox[t], Remembered(t), meta[opener[t]])
          /\ \A q \in DOMAIN known[t] \ {opener[t]} : known[t][q] > 0
          /\ \A i \in DOMAIN inbox[t] : \A q \in DOMAIN inbox[t][i] \ {opener[t]} :
               inbox[t][i][q].clock > 0
      BY <2>4 DEF OrderedAt
    <3> QED
      BY <2>2, <2>4, <3>1, <3>2, OrderedAfter
  <2>6. CASE t = s
    <3>1. \A q \in DOMAIN e : q \in Page /\ e[q].clock \in Nat
      BY <2>2, MessageFacts
    <3>2. e = inbox[s][1] /\ 1 \in DOMAIN inbox[s]
          /\ \A i \in DOMAIN Tail(inbox[s]) : i + 1 \in DOMAIN inbox[s] /\ Tail(inbox[s])[i] = inbox[s][i + 1]
      BY <2>2, TailFacts
    <3>3. \A q \in DOMAIN e : /\ Remembered(t)[q] <= e[q].clock /\ e[q].clock <= meta[opener[t]][q]
                              /\ q # opener[t] => e[q].clock > 0
      BY <2>4, <2>6, <3>2 DEF OrderedAt, Climbs
    <3> DEFINE k == Remembered(t)'
    <3> HIDE DEF received, e
    <3>4. /\ DOMAIN known'[t] = DOMAIN known[t] \cup DOMAIN e
          /\ \A q \in DOMAIN known'[t] :
               known'[t][q] = IF q \in DOMAIN e THEN e[q].clock ELSE known[t][q]
      BY <2>3, <2>6 DEF Spoken
    <3>5. \A q \in Page : k[q] = IF q \in DOMAIN e THEN e[q].clock ELSE Remembered(t)[q]
      BY <3>4 DEF Remembered
    <3>6. \A q \in Page : k[q] <= meta[opener[t]][q]
      BY <2>4, <3>3, <3>5 DEF OrderedAt
    <3>7. Climbs(received[t], k, meta[opener[t]])
      <4>1. Climbs(inbox[t], Remembered(t), meta[opener[t]])
        BY <2>4 DEF OrderedAt
      <4>2. \A q \in Page : k[q] = Remembered(t)[q] \/ (q \in DOMAIN Head(inbox[t]) /\ k[q] = Head(inbox[t])[q].clock)
        BY <2>6, <3>5 DEF e
      <4> HIDE DEF k
      <4>3. Climbs(Tail(inbox[s]), k, meta[opener[t]])
        BY <2>2, <2>6, <4>1, <4>2, TailClimbs
      <4> QED
        BY <2>3, <2>6, <4>3
    <3>8. \A q \in DOMAIN known'[t] \ {opener[t]} : known'[t][q] > 0
      BY <2>4, <3>3, <3>4 DEF OrderedAt
    <3>9. \A q \in DOMAIN last'[t] : q \in DOMAIN known'[t] /\ last'[t][q].clock = known'[t][q]
      BY <2>3, <2>6, <3>4
    <3>10. \A i \in DOMAIN received[t] : \A q \in DOMAIN received[t][i] \ {opener[t]} :
             received[t][i][q].clock > 0
      <4> SUFFICES ASSUME NEW i \in DOMAIN received[t], NEW q \in DOMAIN received[t][i] \ {opener[t]}
                   PROVE  received[t][i][q].clock > 0
        OBVIOUS
      <4>1. i + 1 \in DOMAIN inbox[t] /\ received[t][i] = inbox[t][i + 1]
        BY <2>3, <2>6, <3>2
      <4> QED
        BY <2>4, <4>1 DEF OrderedAt
    <3> QED
      BY <2>2, <2>4, <3>6, <3>7, <3>8, <3>9, <3>10, OrderedAfter
  <2> QED
    BY <2>5, <2>6
<1>7. ASSUME NEW s \in Socket, Leave(s)
      PROVE  OrderedAt(t)'
  <2> DEFINE received == [inbox EXCEPT ![s] = <<>>]
  <2>1. PICK frames, view : Relayed(Removal(s), s, frames, received, view)
    BY <1>7, LeaveFacts
  <2>2. Delivery(frames, received, view) /\ received \in [Socket -> Seq(Message)]
    BY <1>7, <2>1, LeaveFacts DEF Relayed
  <2>3. /\ received[t] = inbox[t] \/ received[t] = <<>>
        /\ UNCHANGED <<known, last>> /\ opener'[t] = opener[t] /\ Remembered(t)' = Remembered(t)
    BY <1>7, <2>2 DEF Leave, Delivery, Remembered, Shape
  <2>4. OrderedAt(t)
    BY <2>3 DEF Ordered
  <2> HIDE DEF received
  <2>5. Climbs(received[t], Remembered(t), meta[opener[t]])
    BY <2>3, <2>4, NoFrames DEF OrderedAt
  <2>6. \A i \in DOMAIN received[t] : \A q \in DOMAIN received[t][i] \ {opener[t]} :
          received[t][i][q].clock > 0
    <3>1. DOMAIN <<>> = {}
      OBVIOUS
    <3> QED
      BY <2>3, <2>4, <3>1 DEF OrderedAt
  <2>7. /\ \A q \in Page : Remembered(t)[q] <= meta[opener[t]][q]
        /\ \A q \in DOMAIN last[t] : q \in DOMAIN known[t] /\ last[t][q].clock = known[t][q]
        /\ \A q \in DOMAIN known[t] \ {opener[t]} : known[t][q] > 0
    BY <2>4 DEF OrderedAt
  <2> QED
    BY <2>2, <2>3, <2>5, <2>6, <2>7, OrderedAfter
<1>8. ASSUME NEW s \in Socket, Discard(s)
      PROVE  OrderedAt(t)'
  BY <1>8 DEF Discard, Ordered, OrderedAt, Remembered, page
<1> QED
  BY <1>1, <1>2, <1>3, <1>4, <1>5, <1>6, <1>7, <1>8 DEF Next

--------------------------------------------------------------------------------
(* A page tells the server whom it does not show. *)

LEMMA EchoesKept ==
  ASSUME Shape, Opened, Shows, Echoes, Next
  PROVE  Echoes'
<1> SUFFICES ASSUME NEW t \in Socket, NEW q \in Page,
                    opener'[t] \in Page \ {q}, at'[opener'[t]] = t, q \notin shown'[opener'[t]]
             PROVE  /\ Settled(inbox'[t], q)
                    /\ pc'[t] = "live" /\ Here(last'[t], q) => Retracts(inbox'[t], q)
  BY DEF Echoes
<1>0. ASSUME opener[t] \in Page \ {q}, at[opener[t]] = t, q \notin shown[opener[t]]
      PROVE  /\ Settled(inbox[t], q)
             /\ pc[t] = "live" /\ Here(last[t], q) => Retracts(inbox[t], q)
  BY <1>0 DEF Echoes
<1>1. ASSUME NEW p \in Page, Move(p)
      PROVE  /\ Settled(inbox'[t], q)
             /\ pc'[t] = "live" /\ Here(last'[t], q) => Retracts(inbox'[t], q)
  <2>1. UNCHANGED <<pc, last, opener, at, shown>>
    BY <1>1, MoveFacts DEF server
  <2>2. /\ Settled(inbox[t], q)
        /\ pc[t] = "live" /\ Here(last[t], q) => Retracts(inbox[t], q)
    BY <1>0, <2>1
  <2>3. CASE inbox'[t] = inbox[t]
    BY <2>1, <2>2, <2>3
  <2>4. CASE inbox'[t] # inbox[t]
    <3>1. PICK e \in Message : at[p] \in Socket /\ DOMAIN e = {p} /\ Send(at[p], e)
      BY <1>1, <2>4, MoveFacts
    <3>2. t = at[p] /\ inbox'[t] = inbox[t] \o <<e>> /\ inbox[t] \in Seq(Message)
      BY <2>4, <3>1, SendFacts
    <3>3. opener[t] = p /\ p # q
      BY <2>1, <3>1, <3>2, PresenceAssumption DEF Opened
    <3>4. ~Here(e, q)
      BY <3>1, <3>3 DEF Here
    <3> DEFINE r == inbox[t]
               g == <<e>>
    <3>5. g \in Seq(Message) /\ Settled(g, q)
      BY <3>1, <3>2, <3>4, OneFrame
    <3> HIDE DEF r, g
    <3>6. Settled(r \o g, q)
      BY <2>2, <3>2, <3>5, ConcatSettled DEF r
    <3>7. Retracts(r, q) => Retracts(r \o g, q)
      BY <3>2, <3>5, ConcatSays DEF r
    <3> QED
      BY <2>1, <2>2, <3>2, <3>6, <3>7 DEF r, g
  <2> QED
    BY <2>3, <2>4
<1>2. ASSUME NEW p \in Page, Close(p)
      PROVE  /\ Settled(inbox'[t], q)
             /\ pc'[t] = "live" /\ Here(last'[t], q) => Retracts(inbox'[t], q)
  <2>1. UNCHANGED <<pc, last, opener, inbox>>
    BY <1>2 DEF Close, server
  <2>2. at[opener[t]] = t /\ shown'[opener[t]] = shown[opener[t]]
    BY <1>2, <2>1, PresenceAssumption DEF Close, Shape
  <2> QED
    BY <1>0, <2>1, <2>2
<1>3. ASSUME NEW p \in Page, NEW s \in Socket, Open(p, s)
      PROVE  /\ Settled(inbox'[t], q)
             /\ pc'[t] = "live" /\ Here(last'[t], q) => Retracts(inbox'[t], q)
  <2>1. CASE t = s
    <3>0. PICK e \in Message : Announces(p, s, e)
      BY <1>3, OpenSends
    <3>1. inbox'[t] = <<e>> /\ DOMAIN e = {p}
      BY <2>1, <3>0 DEF Announces
    <3>2. pc'[t] = "joining" /\ opener'[t] = p
      BY <1>3, <2>1, OpenFacts
    <3>3. ~Here(e, q)
      BY <3>1, <3>2 DEF Here
    <3>4. <<>> \in Seq(Message)
      OBVIOUS
    <3>5. Settled(<<e>>, q)
      BY <3>1, <3>3, <3>4, OneFrame
    <3> QED
      BY <3>1, <3>2, <3>5
  <2>2. CASE t # s
    <3>1. pc'[t] = pc[t] /\ opener'[t] = opener[t] /\ inbox'[t] = inbox[t]
      BY <1>3, <2>2, OpenFacts
    <3>2. UNCHANGED <<last, shown>>
      BY <1>3 DEF Open
    <3>3. at'[p] = s /\ \A r \in Page : r # p => at'[r] = at[r]
      BY <1>3, OpenFacts
    <3>4. at[opener[t]] = t
      BY <2>2, <3>1, <3>3
    <3> QED
      BY <1>0, <3>1, <3>2, <3>4
  <2> QED
    BY <2>1, <2>2
<1>d. ASSUME NEW frames, NEW received \in [Socket -> Seq(Message)], NEW view,
             Delivery(frames, received, view),
             q \notin shown[opener[t]] => Settled(received[t], q)
      PROVE  /\ Settled(inbox'[t], q)
             /\ q \in shown[opener[t]] \/ Retracts(received[t], q) => Retracts(inbox'[t], q)
             /\ opener'[t] = opener[t] /\ opener[t] \in Page \ {q} /\ at[opener[t]] = t
  <2>1. opener'[t] = opener[t] /\ at' = at
    BY <1>d DEF Delivery
  <2>2. opener[t] \in Page \ {q} /\ at[opener[t]] = t /\ q \notin shown'[opener[t]]
        /\ q \in Page \ {opener[t]}
    BY <2>1
  <2> QED
    BY <1>d, <2>1, <2>2, SaysAfter
<1>u. ASSUME UNCHANGED <<opener, at>>
      PROVE  opener[t] \in Page \ {q} /\ at[opener[t]] = t
  BY <1>u
<1>4. ASSUME NEW s \in Socket, Join(s)
      PROVE  /\ Settled(inbox'[t], q)
             /\ pc'[t] = "live" /\ Here(last'[t], q) => Retracts(inbox'[t], q)
  <2>1. PICK frames, view : Delivery(frames, inbox, view)
    BY <1>4, JoinFacts DEF Handed
  <2>2. last' = last /\ (t # s => pc'[t] = pc[t]) /\ (t = s => last[t] = NoFrame)
    BY <1>4 DEF Join, Shape, Opened
  <2>3. opener[t] \in Page \ {q} /\ at[opener[t]] = t
    BY <1>u, <2>1 DEF Delivery
  <2>4. inbox \in [Socket -> Seq(Message)]
    BY DEF Shape
  <2>5. /\ Settled(inbox'[t], q)
        /\ q \in shown[opener[t]] \/ Retracts(inbox[t], q) => Retracts(inbox'[t], q)
    BY <1>0, <1>d, <2>1, <2>3, <2>4
  <2>6. t = s => ~Here(last[t], q)
    BY <2>2 DEF NoFrame, Here
  <2> QED
    BY <1>0, <2>2, <2>3, <2>5, <2>6
<1>5. ASSUME NEW s \in Socket, JoinFails(s)
      PROVE  /\ Settled(inbox'[t], q)
             /\ pc'[t] = "live" /\ Here(last'[t], q) => Retracts(inbox'[t], q)
  <2>1. /\ UNCHANGED <<last, opener, at, shown>>
        /\ t # s => pc'[t] = pc[t] /\ inbox'[t] = inbox[t]
        /\ t = s => pc'[t] = "gone" /\ inbox'[t] = <<>>
    BY <1>5 DEF JoinFails, Shape, page
  <2> QED
    BY <1>0, <1>u, <2>1, NoFrames
<1>6. ASSUME NEW s \in Socket, Receive(s)
      PROVE  /\ Settled(inbox'[t], q)
             /\ pc'[t] = "live" /\ Here(last'[t], q) => Retracts(inbox'[t], q)
  <2> DEFINE e == Head(inbox[s])
             received == [inbox EXCEPT ![s] = Tail(@)]
  <2>1. PICK frames, view : Relayed(e, s, frames, received, view)
    BY <1>6, ReceiveFacts
  <2>2. /\ Delivery(frames, received, view) /\ received \in [Socket -> Seq(Message)]
        /\ inbox[s] \in Seq(Message) /\ inbox[s] # <<>>
    BY <1>6, <2>1, ReceiveFacts DEF Relayed
  <2>3. /\ received[s] = Tail(inbox[s]) /\ last'[s] = e /\ pc' = pc /\ pc[s] = "live"
        /\ \A u \in Socket : u # s => received[u] = inbox[u] /\ last'[u] = last[u]
    BY <1>6 DEF Receive, Shape
  <2>4. opener[t] \in Page \ {q} /\ at[opener[t]] = t
    BY <1>u, <2>2 DEF Delivery
  <2>5. CASE t # s
    <3>1. received[t] = inbox[t] /\ last'[t] = last[t]
      BY <2>3, <2>5
    <3> HIDE DEF received
    <3> QED
      BY <1>0, <1>d, <2>2, <2>3, <2>4, <3>1
  <2>6. CASE t = s
    <3>1. shown'[opener[t]] = shown[opener[t]] /\ opener'[t] = opener[t]
      <4>1. ~Reachable(opener[t], s)
        BY <2>4, <2>6 DEF Reachable
      <4> QED
        BY <2>1, <2>2, <2>4, <4>1 DEF Relayed, Unmoved, Delivery
    <3>2. Settled(inbox[s], q)
      BY <1>0, <2>4, <2>6, <3>1
    <3>3. Settled(Tail(inbox[s]), q) /\ (Here(e, q) => Retracts(Tail(inbox[s]), q))
      BY <2>2, <3>2, TailSays
    <3> HIDE DEF received, e
    <3>4. /\ Settled(inbox'[t], q)
          /\ Retracts(received[t], q) => Retracts(inbox'[t], q)
      BY <1>d, <2>2, <2>3, <2>6, <3>3
    <3> QED
      BY <2>3, <2>6, <3>3, <3>4
  <2> QED
    BY <2>5, <2>6
<1>7. ASSUME NEW s \in Socket, Leave(s)
      PROVE  /\ Settled(inbox'[t], q)
             /\ pc'[t] = "live" /\ Here(last'[t], q) => Retracts(inbox'[t], q)
  <2> DEFINE received == [inbox EXCEPT ![s] = <<>>]
  <2>1. PICK frames, view : Relayed(Removal(s), s, frames, received, view)
    BY <1>7, LeaveFacts
  <2>2. Delivery(frames, received, view) /\ received \in [Socket -> Seq(Message)]
    BY <1>7, <2>1, LeaveFacts DEF Relayed
  <2>3. /\ last' = last
        /\ t # s => received[t] = inbox[t] /\ pc'[t] = pc[t]
        /\ t = s => received[t] = <<>> /\ pc'[t] = "leaving"
    BY <1>7 DEF Leave, Shape
  <2>4. opener[t] \in Page \ {q} /\ at[opener[t]] = t
    BY <1>u, <2>2 DEF Delivery
  <2> HIDE DEF received
  <2>5. q \notin shown[opener[t]] => Settled(received[t], q)
    BY <1>0, <2>3, <2>4, NoFrames
  <2>6. /\ Settled(inbox'[t], q)
        /\ q \in shown[opener[t]] \/ Retracts(received[t], q) => Retracts(inbox'[t], q)
    BY <1>d, <2>2, <2>5
  <2> QED
    BY <1>0, <2>3, <2>4, <2>6
<1>8. ASSUME NEW s \in Socket, Discard(s)
      PROVE  /\ Settled(inbox'[t], q)
             /\ pc'[t] = "live" /\ Here(last'[t], q) => Retracts(inbox'[t], q)
  <2>1. /\ UNCHANGED <<last, opener, at, shown, inbox>>
        /\ pc'[t] = "live" => pc[t] = "live"
    BY <1>8 DEF Discard, Shape, page
  <2> QED
    BY <1>0, <2>1
<1> QED
  BY <1>1, <1>2, <1>3, <1>4, <1>5, <1>6, <1>7, <1>8 DEF Next

--------------------------------------------------------------------------------
(* A page tells of itself. *)

LEMMA SpeaksAfter ==
  ASSUME Shape, Opened, Shape', NEW frames, NEW received \in [Socket -> Seq(Message)], NEW view,
         Delivery(frames, received, view), NEW q \in Page, at[q] # NoSocket,
         Rises(received[at[q]], q, meta[q][q]),
         pc'[at[q]] = "joining" => About(received[at[q]], q),
         q \in DOMAIN known'[at[q]] => known'[at[q]][q] <= meta[q][q],
         \A i \in DOMAIN received[at[q]] :
           q \in DOMAIN received[at[q]][i] /\ q \in DOMAIN known'[at[q]]
             => known'[at[q]][q] < received[at[q]][i][q].clock
  PROVE  SpeaksAt(q)'
<1> DEFINE t == at[q]
<1>1. t \in Socket /\ at'[q] = t /\ opener[t] = q
  BY DEF Shape, Delivery, Opened
<1>2. Rises(inbox'[t], q, meta'[q][q])
  BY RisesAfter
<1>3. pc'[t] = "joining" => About(inbox'[t], q)
  BY <1>1, SaidBefore
<1>4. ASSUME NEW i \in DOMAIN inbox'[t], q \in DOMAIN inbox'[t][i], q \in DOMAIN known'[t]
      PROVE  known'[t][q] < inbox'[t][i][q].clock
  <2>1. Stays(t, i, received) \/ OfItself(t, i, q) \/ Repeats(t, i, q, frames)
    BY <1>1, <1>4, EntriesAfter
  <2>2. CASE Stays(t, i, received)
    BY <1>4, <2>2 DEF Stays
  <2>3. CASE OfItself(t, i, q)
    <3>1. meta[q][q] < inbox'[t][i][q].clock /\ known'[t][q] <= meta[q][q]
      BY <1>4, <2>3 DEF OfItself
    <3>2. inbox'[t][i][q].clock \in Nat /\ meta[q][q] \in Nat /\ known'[t][q] \in Nat
      <4>1. known'[t][q] \in Nat
        BY <1>1, <1>4 DEF Shape, Clocks
      <4>2. inbox'[t][i][q].clock \in Nat
        BY <1>1, <1>4, EntriesAfter, MessageFacts
      <4> QED
        BY <4>1, <4>2 DEF Shape
    <3> QED
      BY <3>1, <3>2
  <2>4. CASE Repeats(t, i, q, frames)
    BY <1>1, <2>4 DEF Repeats
  <2> QED
    BY <2>1, <2>2, <2>3, <2>4
<1> HIDE DEF t
<1> QED
  BY <1>1, <1>2, <1>3, <1>4 DEF SpeaksAt

LEMMA SpeaksKept ==
  ASSUME Shape, Opened, Shows, Ordered, Speaks, Shape', Next
  PROVE  Speaks'
<1> SUFFICES ASSUME NEW q \in Page, at'[q] # NoSocket, pc'[at'[q]] \in {"joining", "live"}
             PROVE  SpeaksAt(q)'
  BY DEF Speaks
<1>0. /\ at[q] # NoSocket => at[q] \in Socket /\ opener[at[q]] = q
      /\ \A p \in Page : at[p] = at[q] /\ at[p] # NoSocket => p = q
      /\ meta[q][q] \in Nat
  BY DEF Shape, Opened
<1>k. at[q] # NoSocket /\ q \in DOMAIN known[at[q]] => known[at[q]][q] <= meta[q][q]
  <2> SUFFICES ASSUME at[q] # NoSocket, q \in DOMAIN known[at[q]]
               PROVE  known[at[q]][q] <= meta[q][q]
    OBVIOUS
  <2>1. OrderedAt(at[q])
    BY <1>0 DEF Ordered
  <2> QED
    BY <1>0, <2>1, RememberedFacts DEF OrderedAt
<1>1. ASSUME NEW p \in Page, Move(p)
      PROVE  SpeaksAt(q)'
  <2>1. /\ UNCHANGED <<pc, known, opener, at>> /\ SpeaksAt(q)
        /\ at[q] # NoSocket /\ at[q] \in Socket /\ pc[at[q]] \in {"joining", "live"}
    BY <1>0, <1>1, MoveFacts DEF server, Speaks
  <2>2. CASE p # q
    <3>1. meta'[q] [q] = meta[q][q]
      BY <1>1, <2>2, MoveFacts
    <3>2. inbox'[at[q]] = inbox[at[q]]
      <4>1. at[p] # at[q]
        BY <1>0, <2>1, <2>2
      <4>2. CASE inbox' # inbox
        <5>1. PICK e \in Message : at[p] \in Socket /\ Send(at[p], e)
          BY <1>1, <4>2, MoveFacts
        <5> QED
          BY <2>1, <4>1, <5>1, SendFacts
      <4> QED
        BY <4>2
    <3> QED
      BY <2>1, <3>1, <3>2 DEF SpeaksAt
  <2>3. CASE p = q
    <3>1. PICK e \in Message : /\ at[q] \in Socket /\ DOMAIN e = {q} /\ e[q].clock = meta'[q][q]
                               /\ e[q].here /\ Send(at[q], e)
      BY <1>1, <2>1, <2>3, MoveFacts
    <3>2. meta'[q][q] = meta[q][q] + 1
      BY <1>1, <2>3, MoveFacts
    <3>3. inbox'[at[q]] = inbox[at[q]] \o <<e>> /\ inbox[at[q]] \in Seq(Message)
      BY <3>1, SendFacts
    <3> DEFINE r == inbox[at[q]]
               g == <<e>>
    <3>4. g \in Seq(Message) /\ About(g, q) /\ DOMAIN g = {1} /\ g[1] = e
      BY <3>1, <3>3, OneFrame
    <3>5. Rises(g, q, meta'[q][q])
      BY <1>0, <3>1, <3>2, OneRises
    <3> HIDE DEF r, g
    <3>6. \A i \in DOMAIN g : q \in DOMAIN g[i] => meta[q][q] < g[i][q].clock
      BY <1>0, <3>1, <3>2, <3>4
    <3>7. Rises(r, q, meta[q][q])
      BY <2>1 DEF SpeaksAt, r
    <3>8. Rises(r \o g, q, meta'[q][q])
      BY <1>0, <3>2, <3>3, <3>4, <3>5, <3>6, <3>7, ConcatRises DEF r
    <3>9. About(r \o g, q)
      BY <3>3, <3>4, ConcatSays DEF r
    <3>10. ASSUME NEW i \in DOMAIN (r \o g), q \in DOMAIN (r \o g)[i], q \in DOMAIN known[at[q]]
           PROVE  known[at[q]][q] < (r \o g)[i][q].clock
      <4>1. (i \in DOMAIN r /\ (r \o g)[i] = r[i]) \/ (r \o g)[i] = e
        <5>1. \/ i \in DOMAIN r
              \/ i - Len(r) \in DOMAIN g /\ Len(r) + (i - Len(r)) = i
          BY <3>3, <3>4, <3>10, ConcatFacts DEF r
        <5>2. /\ \A j \in DOMAIN r : (r \o g)[j] = r[j]
              /\ \A j \in DOMAIN g : (r \o g)[Len(r) + j] = g[j]
          BY <3>3, <3>4, ConcatFacts DEF r
        <5> QED
          BY <3>4, <5>1, <5>2
      <4>2. CASE i \in DOMAIN r /\ (r \o g)[i] = r[i]
        BY <2>1, <3>10, <4>2 DEF SpeaksAt, r
      <4>3. CASE (r \o g)[i] = e
        <5>1. known[at[q]][q] \in Nat
          BY <2>1, <3>10, RememberedFacts
        <5> QED
          BY <1>0, <1>k, <2>1, <3>1, <3>2, <3>10, <4>3, <5>1
      <4> QED
        BY <4>1, <4>2, <4>3
    <3> QED
      BY <2>1, <3>3, <3>8, <3>9, <3>10 DEF SpeaksAt, r, g
  <2> QED
    BY <2>2, <2>3
<1>2. ASSUME NEW p \in Page, Close(p)
      PROVE  SpeaksAt(q)'
  <2>1. UNCHANGED <<pc, known, inbox, meta>> /\ at'[q] = at[q]
    BY <1>2 DEF Close, server, Shape
  <2> QED
    BY <2>1 DEF Speaks, SpeaksAt
<1>3. ASSUME NEW p \in Page, NEW s \in Socket, Open(p, s)
      PROVE  SpeaksAt(q)'
  <2>1. UNCHANGED <<meta, known>>
    BY <1>3 DEF Open
  <2>2. CASE q = p
    <3>1. at'[q] = s /\ pc'[s] = "joining" /\ known[s] = NoFrame
      BY <1>3, <2>2, OpenFacts
    <3>2. PICK e \in Message : Announces(p, s, e)
      BY <1>3, OpenSends
    <3>3. inbox'[s] = <<e>> /\ DOMAIN e = {q} /\ e[q].clock = meta[q][q] /\ e[q].here
      BY <2>2, <3>2 DEF Announces
    <3>4. Rises(<<e>>, q, meta[q][q])
      BY <1>0, <3>3, OneRises
    <3>5. About(<<e>>, q)
      <4>1. <<>> \in Seq(Message)
        OBVIOUS
      <4> QED
        BY <3>3, <4>1, OneFrame
    <3>6. DOMAIN known[s] = {}
      BY <3>1 DEF NoFrame
    <3> QED
      BY <2>1, <3>1, <3>3, <3>4, <3>5, <3>6 DEF SpeaksAt
  <2>3. CASE q # p
    <3>1. at'[q] = at[q] /\ at[q] # s
      BY <1>3, <2>3, OpenFacts
    <3>2. at[q] # NoSocket /\ at[q] \in Socket
      BY <1>0, <3>1
    <3>3. pc'[at[q]] = pc[at[q]] /\ inbox'[at[q]] = inbox[at[q]]
      BY <1>3, <3>1, <3>2, OpenFacts
    <3> QED
      BY <2>1, <3>1, <3>2, <3>3 DEF Speaks, SpeaksAt
  <2> QED
    BY <2>2, <2>3
<1>s. ASSUME UNCHANGED at, at[q] # NoSocket, pc[at[q]] \in {"joining", "live"}
      PROVE  /\ Rises(inbox[at[q]], q, meta[q][q])
             /\ pc[at[q]] = "joining" => About(inbox[at[q]], q)
             /\ \A i \in DOMAIN inbox[at[q]] :
                  q \in DOMAIN inbox[at[q]][i] /\ q \in DOMAIN known[at[q]]
                    => known[at[q]][q] < inbox[at[q]][i][q].clock
  BY <1>s DEF Speaks, SpeaksAt
<1>4. ASSUME NEW s \in Socket, Join(s)
      PROVE  SpeaksAt(q)'
  <2>1. PICK frames, view : Delivery(frames, inbox, view)
    BY <1>4, JoinFacts DEF Handed
  <2>2. at' = at /\ known' = known /\ at[q] # NoSocket /\ at[q] \in Socket
    BY <1>0, <1>4, <2>1 DEF Join, Delivery
  <2>3. pc[at[q]] \in {"joining", "live"} /\ (pc'[at[q]] = "joining" => pc[at[q]] = "joining")
    BY <1>4, <2>2 DEF Join, Shape
  <2>4. inbox \in [Socket -> Seq(Message)]
    BY DEF Shape
  <2> QED
    BY <1>k, <1>s, <2>1, <2>2, <2>3, <2>4, SpeaksAfter
<1>5. ASSUME NEW s \in Socket, JoinFails(s) \/ Discard(s)
      PROVE  SpeaksAt(q)'
  <2>1. UNCHANGED <<known, at, meta>> /\ at[q] # NoSocket /\ at[q] \in Socket
    BY <1>0, <1>5 DEF JoinFails, Discard, page
  <2>2. pc'[at[q]] = pc[at[q]] /\ inbox'[at[q]] = inbox[at[q]]
    BY <1>5, <2>1 DEF JoinFails, Discard, Shape
  <2> QED
    BY <2>1, <2>2 DEF Speaks, SpeaksAt
<1>6. ASSUME NEW s \in Socket, Receive(s)
      PROVE  SpeaksAt(q)'
  <2> DEFINE e == Head(inbox[s])
             received == [inbox EXCEPT ![s] = Tail(@)]
  <2>1. PICK frames, view : Relayed(e, s, frames, received, view)
    BY <1>6, ReceiveFacts
  <2>2. /\ Delivery(frames, received, view) /\ received \in [Socket -> Seq(Message)]
        /\ inbox[s] \in Seq(Message) /\ inbox[s] # <<>> /\ e \in Message
    BY <1>6, <2>1, ReceiveFacts DEF Relayed
  <2>3. /\ received[s] = Tail(inbox[s]) /\ pc' = pc /\ pc[s] = "live"
        /\ known'[s] = Spoken(known[s], e)
        /\ \A u \in Socket : u # s => received[u] = inbox[u] /\ known'[u] = known[u]
    BY <1>6 DEF Receive, Shape
  <2>4. at' = at /\ at[q] # NoSocket /\ at[q] \in Socket /\ pc[at[q]] \in {"joining", "live"}
    BY <1>0, <2>2, <2>3 DEF Delivery
  <2>5. CASE at[q] # s
    <3>1. received[at[q]] = inbox[at[q]] /\ known'[at[q]] = known[at[q]]
      BY <2>3, <2>4, <2>5
    <3> HIDE DEF received, e
    <3> QED
      BY <1>k, <1>s, <2>2, <2>3, <2>4, <3>1, SpeaksAfter
  <2>6. CASE at[q] = s
    <3>1. Rises(inbox[s], q, meta[q][q])
      BY <1>s, <2>4, <2>6
    <3>2. /\ Rises(Tail(inbox[s]), q, meta[q][q])
          /\ q \in DOMAIN e =>
               /\ e[q].clock <= meta[q][q]
               /\ \A i \in DOMAIN Tail(inbox[s]) :
                    q \in DOMAIN Tail(inbox[s])[i] => e[q].clock < Tail(inbox[s])[i][q].clock
      BY <2>2, <3>1, TailRises
    <3> HIDE DEF received, e
    <3>3. \A i \in DOMAIN Tail(inbox[s]) : q \in DOMAIN Tail(inbox[s])[i] /\ q \in DOMAIN known[s]
            => known[s][q] < Tail(inbox[s])[i][q].clock
      <4>1. \A i \in DOMAIN Tail(inbox[s]) :
              i + 1 \in DOMAIN inbox[s] /\ Tail(inbox[s])[i] = inbox[s][i + 1]
        BY <2>2, TailFacts
      <4> QED
        BY <1>s, <2>4, <2>6, <4>1
    <3>4. /\ DOMAIN known'[s] = DOMAIN known[s] \cup DOMAIN e
          /\ \A r \in DOMAIN known'[s] :
               known'[s][r] = IF r \in DOMAIN e THEN e[r].clock ELSE known[s][r]
      BY <2>3 DEF Spoken
    <3>5. q \in DOMAIN known'[s] => known'[s][q] <= meta[q][q]
      BY <1>k, <2>4, <2>6, <3>2, <3>4
    <3>6. \A i \in DOMAIN received[s] : q \in DOMAIN received[s][i] /\ q \in DOMAIN known'[s]
            => known'[s][q] < received[s][i][q].clock
      BY <2>3, <3>2, <3>3, <3>4
    <3>7. pc'[at[q]] # "joining" /\ Rises(received[s], q, meta[q][q])
      BY <2>3, <2>6, <3>2
    <3> QED
      BY <2>2, <2>4, <2>6, <3>5, <3>6, <3>7, SpeaksAfter
  <2> QED
    BY <2>5, <2>6
<1>7. ASSUME NEW s \in Socket, Leave(s)
      PROVE  SpeaksAt(q)'
  <2> DEFINE received == [inbox EXCEPT ![s] = <<>>]
  <2>1. PICK frames, view : Relayed(Removal(s), s, frames, received, view)
    BY <1>7, LeaveFacts
  <2>2. Delivery(frames, received, view) /\ received \in [Socket -> Seq(Message)]
    BY <1>7, <2>1, LeaveFacts DEF Relayed
  <2>3. at' = at /\ known' = known /\ at[q] # NoSocket /\ at[q] \in Socket
    BY <1>0, <1>7, <2>2 DEF Leave, Delivery
  <2>4. at[q] # s /\ pc'[at[q]] = pc[at[q]] /\ received[at[q]] = inbox[at[q]]
    BY <1>7, <2>3 DEF Leave, Shape
  <2> HIDE DEF received
  <2> QED
    BY <1>k, <1>s, <2>2, <2>3, <2>4, SpeaksAfter
<1> QED
  BY <1>1, <1>2, <1>3, <1>4, <1>5, <1>6, <1>7 DEF Next

--------------------------------------------------------------------------------
(* What any step changes. *)

LEMMA SocketSteps ==
  ASSUME Shape, Opened, Next, NEW t \in Socket
  PROVE  /\ opener[t] # NoPage => opener'[t] = opener[t]
         /\ pc'[t] = "joining" => pc[t] \in {"unused", "joining"}
         /\ pc'[t] = "live" => pc[t] = "live" \/ Join(t)
         /\ pc[t] \in {"leaving", "gone"} => pc'[t] \in {"leaving", "gone"}
<1>1. ASSUME NEW p \in Page, Move(p) \/ Close(p)
      PROVE  UNCHANGED <<pc, opener>>
  BY <1>1 DEF Move, Close, server
<1>2. ASSUME NEW p \in Page, NEW s \in Socket, Open(p, s)
      PROVE  pc' = [pc EXCEPT ![s] = "joining"] /\ pc[s] = "unused" /\ opener[s] = NoPage
             /\ opener' = [opener EXCEPT ![s] = p]
  BY <1>2 DEF Open, Opened
<1>3. ASSUME NEW s \in Socket, Join(s)
      PROVE  pc' = [pc EXCEPT ![s] = "live"] /\ pc[s] = "joining" /\ opener' = opener
  BY <1>3 DEF Join, Deliver
<1>4. ASSUME NEW s \in Socket, JoinFails(s) \/ Discard(s)
      PROVE  pc' = [pc EXCEPT ![s] = "gone"] /\ opener' = opener
  BY <1>4 DEF JoinFails, Discard, page
<1>5. ASSUME NEW s \in Socket, Receive(s)
      PROVE  UNCHANGED <<pc, opener>>
  BY <1>5 DEF Receive, Broadcast, Deliver
<1>6. ASSUME NEW s \in Socket, Leave(s)
      PROVE  pc' = [pc EXCEPT ![s] = "leaving"] /\ opener' = opener
  BY <1>6 DEF Leave, Broadcast, Deliver, page
<1>7. pc \in [Socket -> {"unused", "joining", "live", "leaving", "gone"}]
      /\ opener \in [Socket -> Page \cup {NoPage}]
  BY DEF Shape
<1> QED
  BY <1>1, <1>2, <1>3, <1>4, <1>5, <1>6, <1>7 DEF Next

LEMMA PageSteps ==
  ASSUME Shape, Opened, Next, NEW p \in Page
  PROVE  /\ at'[p] = at[p] \/ at'[p] = NoSocket \/ pc'[at'[p]] = "joining"
         /\ reopened \subseteq reopened'
<1>1. ASSUME NEW r \in Page, Move(r)
      PROVE  UNCHANGED <<at, reopened>>
  BY <1>1 DEF Move, history
<1>2. ASSUME NEW r \in Page, Close(r)
      PROVE  UNCHANGED reopened /\ at' = [at EXCEPT ![r] = NoSocket]
  BY <1>2 DEF Close, history
<1>3. ASSUME NEW r \in Page, NEW s \in Socket, Open(r, s)
      PROVE  /\ reopened \subseteq reopened' /\ at' = [at EXCEPT ![r] = s]
             /\ pc'[s] = "joining"
  BY <1>3 DEF Open, Shape
<1>4. ASSUME NEW s \in Socket, Join(s)
      PROVE  UNCHANGED <<at, reopened>>
  BY <1>4 DEF Join, Deliver
<1>5. ASSUME NEW s \in Socket, JoinFails(s) \/ Discard(s)
      PROVE  UNCHANGED <<at, reopened>>
  BY <1>5 DEF JoinFails, Discard, page, history
<1>6. ASSUME NEW s \in Socket, Receive(s)
      PROVE  UNCHANGED <<at, reopened>>
  BY <1>6 DEF Receive, Broadcast, Deliver
<1>7. ASSUME NEW s \in Socket, Leave(s)
      PROVE  UNCHANGED <<at, reopened>>
  BY <1>7 DEF Leave, Broadcast, Deliver, page, history
<1>8. at \in [Page -> Socket \cup {NoSocket}]
  BY DEF Shape
<1> QED
  BY <1>1, <1>2, <1>3, <1>4, <1>5, <1>6, <1>7, <1>8 DEF Next

\* An entry that t brings to other pages in this step.
Brings(t, q, x) ==
  /\ t \in Socket /\ x \in Entry /\ pc[t] \notin {"unused", "joining"}
  /\ \/ q \in DOMAIN last[t] /\ x = last[t][q]
     \/ Receive(t) /\ q \in DOMAIN Head(inbox[t]) /\ x = Head(inbox[t])[q]

\* The clock with which the end of s removes q, and which q answers if it is there.
Removes(s, q, c) ==
  /\ s \in Socket /\ Leave(s) /\ q \in DOMAIN known[s] /\ c = known[s][q] + 1
  /\ at[q] # NoSocket /\ at[q] # s /\ pc[at[q]] = "live" => c < meta'[q][q]

\* An entry that reaches pages is brought by a socket or removes a client.
Brought(q, x) ==
  \/ \E t : Brings(t, q, x)
  \/ ~x.here /\ \E s : Removes(s, q, x.clock)

Sourced(frames) ==
  \A p \in Page : \A i \in DOMAIN Gets(p, frames) : \A q \in DOMAIN Gets(p, frames)[i] :
    Brought(q, Gets(p, frames)[i][q])

Delivers(frames, received, view) ==
  /\ Delivery(frames, received, view) /\ received \in [Socket -> Seq(Message)]
  /\ Sourced(frames)
  /\ \A t \in Socket : \A q \in Page :
       /\ \A i \in DOMAIN received[t] :
            q \in DOMAIN received[t][i] => Says(t, q, received[t][i][q])
       /\ q \in DOMAIN last'[t] => Says(t, q, last'[t][q])

LEMMA LeaveRemoves ==
  ASSUME Shape, Opened, Shows, NEW s \in Socket, Leave(s), NEW q \in DOMAIN known[s]
  PROVE  Removes(s, q, known[s][q] + 1)
<1>1. PICK frames, view : Relayed(Removal(s), s, frames, [inbox EXCEPT ![s] = <<>>], view)
  BY LeaveFacts
<1>2. /\ DOMAIN Removal(s) = DOMAIN known[s] /\ q \in Page /\ known[s][q] \in Nat
      /\ Removal(s)[q].clock = known[s][q] + 1 /\ ~Removal(s)[q].here
  BY RemovalFacts
<1>3. ASSUME at[q] # NoSocket, at[q] # s, pc[at[q]] = "live"
      PROVE  known[s][q] + 1 < meta'[q][q]
  <2>1. Takes(q, Removal(s))
    BY <1>1, <1>2, <1>3 DEF Relayed, Reachable
  <2>2. q \in shown[q] /\ meta[q][q] \in Nat
    BY <1>2 DEF Shows, Shape
  <2>3. CASE Fresh(q, Removal(s), q)
    BY <1>2, <2>1, <2>3 DEF Takes
  <2>4. CASE ~Fresh(q, Removal(s), q)
    <3>1. meta'[q][q] = meta[q][q]
      BY <1>2, <2>1, <2>4 DEF Takes
    <3>2. ~(meta[q][q] < known[s][q] + 1) /\ meta[q][q] # known[s][q] + 1
      BY <1>2, <2>2, <2>4 DEF Fresh
    <3> QED
      BY <1>2, <2>2, <3>1, <3>2
  <2> QED
    BY <2>3, <2>4
<1> QED
  BY <1>3 DEF Removes

LEMMA JoinDelivers ==
  ASSUME Shape, Opened, Shows, NEW s \in Socket, Join(s)
  PROVE  \E frames, view : Handed(s, frames, view) /\ Delivers(frames, inbox, view)
<1>1. PICK frames, view : Handed(s, frames, view)
  BY JoinFacts
<1>2. Delivery(frames, inbox, view) /\ last' = last /\ inbox \in [Socket -> Seq(Message)]
  BY <1>1 DEF Handed, Join, Shape
<1>3. ASSUME NEW p \in Page, NEW i \in DOMAIN Gets(p, frames),
             NEW q \in DOMAIN Gets(p, frames)[i]
      PROVE  \E t : Brings(t, q, Gets(p, frames)[i][q])
  <2>1. PICK t \in Socket : pc[t] \in {"live", "leaving"} /\ Gets(p, frames)[i] = last[t]
    BY <1>1, <1>3 DEF Handed
  <2>2. last[t][q] \in Entry
    BY <1>3, <2>1, MessageFacts DEF Shape
  <2>3. Brings(t, q, Gets(p, frames)[i][q])
    BY <1>3, <2>1, <2>2 DEF Brings
  <2> QED
    BY <2>3
<1>4. Sourced(frames)
  BY <1>3 DEF Sourced, Brought
<1> QED
  BY <1>1, <1>2, <1>4 DEF Delivers, Says

LEMMA ReceiveDelivers ==
  ASSUME Shape, Opened, Shows, NEW s \in Socket, Receive(s)
  PROVE  \E frames, view :
           LET received == [inbox EXCEPT ![s] = Tail(@)]
           IN /\ Relayed(Head(inbox[s]), s, frames, received, view)
              /\ Delivers(frames, received, view)
<1> DEFINE e == Head(inbox[s])
           received == [inbox EXCEPT ![s] = Tail(@)]
<1>1. PICK frames, view : Relayed(e, s, frames, received, view)
  BY ReceiveFacts
<1>2. /\ Delivery(frames, received, view) /\ received \in [Socket -> Seq(Message)]
      /\ inbox[s] \in Seq(Message) /\ inbox[s] # <<>> /\ e \in Message /\ pc[s] = "live"
  BY <1>1, ReceiveFacts DEF Relayed
<1>3. ASSUME NEW p \in Page, NEW i \in DOMAIN Gets(p, frames),
             NEW q \in DOMAIN Gets(p, frames)[i]
      PROVE  \E t : Brings(t, q, Gets(p, frames)[i][q])
  <2>1. Gets(p, frames) = <<e>> \/ Gets(p, frames) = <<>>
    BY <1>1 DEF Relayed
  <2> HIDE DEF e
  <2>2. Gets(p, frames)[i] = e
    BY <1>3, <2>1
  <2>3. e[q] \in Entry
    BY <1>2, <1>3, <2>2, MessageFacts
  <2>4. Brings(s, q, Gets(p, frames)[i][q])
    BY <1>2, <1>3, <2>2, <2>3 DEF Brings, e
  <2> QED
    BY <2>4
<1>4. Sourced(frames)
  BY <1>3 DEF Sourced, Brought
<1>5. ASSUME NEW t \in Socket, NEW q \in Page
      PROVE  /\ \A i \in DOMAIN received[t] :
                  q \in DOMAIN received[t][i] => Says(t, q, received[t][i][q])
             /\ q \in DOMAIN last'[t] => Says(t, q, last'[t][q])
  <2>1. /\ received[s] = Tail(inbox[s]) /\ last'[s] = e
        /\ \A u \in Socket : u # s => received[u] = inbox[u] /\ last'[u] = last[u]
    BY DEF Receive, Shape
  <2>2. /\ e = inbox[s][1] /\ 1 \in DOMAIN inbox[s]
        /\ \A i \in DOMAIN Tail(inbox[s]) :
             i + 1 \in DOMAIN inbox[s] /\ Tail(inbox[s])[i] = inbox[s][i + 1]
    BY <1>2, TailFacts
  <2> HIDE DEF e, received
  <2>3. CASE t = s
    BY <2>1, <2>2, <2>3 DEF Says
  <2>4. CASE t # s
    BY <2>1, <2>4 DEF Says
  <2> QED
    BY <2>3, <2>4
<1> HIDE DEF e, received
<1>6. Delivers(frames, received, view)
  BY <1>2, <1>4, <1>5 DEF Delivers
<1> QED
  BY <1>1, <1>6 DEF e, received

LEMMA LeaveDelivers ==
  ASSUME Shape, Opened, Shows, NEW s \in Socket, Leave(s)
  PROVE  \E frames, view :
           LET received == [inbox EXCEPT ![s] = <<>>]
           IN /\ Relayed(Removal(s), s, frames, received, view)
              /\ Delivers(frames, received, view)
<1> DEFINE e == Removal(s)
           received == [inbox EXCEPT ![s] = <<>>]
<1>1. PICK frames, view : Relayed(e, s, frames, received, view)
  BY LeaveFacts
<1>2. /\ Delivery(frames, received, view) /\ received \in [Socket -> Seq(Message)]
  BY <1>1, LeaveFacts DEF Relayed
<1>3. ASSUME NEW p \in Page, NEW i \in DOMAIN Gets(p, frames),
             NEW q \in DOMAIN Gets(p, frames)[i]
      PROVE  Brought(q, Gets(p, frames)[i][q])
  <2>1. Gets(p, frames) = <<e>> \/ Gets(p, frames) = <<>>
    BY <1>1 DEF Relayed
  <2>e. DOMAIN e = DOMAIN known[s]
        /\ \A r \in DOMAIN known[s] : e[r].clock = known[s][r] + 1 /\ ~e[r].here
    BY RemovalFacts
  <2> HIDE DEF e
  <2>2. Gets(p, frames)[i] = e
    BY <1>3, <2>1
  <2>3. Removes(s, q, e[q].clock)
    BY <1>3, <2>2, <2>e, LeaveRemoves
  <2> QED
    BY <1>3, <2>2, <2>3, <2>e DEF Brought
<1>4. Sourced(frames)
  BY <1>3 DEF Sourced
<1>5. ASSUME NEW t \in Socket, NEW q \in Page
      PROVE  /\ \A i \in DOMAIN received[t] :
                  q \in DOMAIN received[t][i] => Says(t, q, received[t][i][q])
             /\ q \in DOMAIN last'[t] => Says(t, q, last'[t][q])
  <2>1. /\ received[s] = <<>> /\ DOMAIN <<>> = {} /\ last' = last
        /\ \A u \in Socket : u # s => received[u] = inbox[u]
    BY DEF Leave, Shape
  <2> HIDE DEF e, received
  <2> QED
    BY <2>1 DEF Says
<1> HIDE DEF e, received
<1>6. Delivers(frames, received, view)
  BY <1>2, <1>4, <1>5 DEF Delivers
<1> QED
  BY <1>1, <1>6 DEF e, received

\* What a step makes of the clock that a page has of itself, and of another, and whence
\* an entry about it comes that is there after the step.
OwnStep(q) ==
  /\ meta[q][q] <= meta'[q][q]
  /\ \/ meta'[q][q] = meta[q][q]
     \/ meta'[q][q] = meta[q][q] + 1 /\ meta'[q][q] <= MaxMoves[q]
     \/ \E t, x : /\ Brings(t, q, x) /\ meta'[q][q] = x.clock + 1
                  /\ x.here => meta[q][q] < x.clock
     \/ \E s, c : Removes(s, q, c) /\ meta'[q][q] = c + 1

OtherStep(p, q) ==
  \/ meta'[p][q] = meta[p][q] /\ (q \in shown'[p] => q \in shown[p])
  \/ \E t, x : Brings(t, q, x) /\ meta'[p][q] = x.clock /\ (q \in shown'[p] => x.here)
  \/ \E s : Removes(s, q, meta'[p][q]) /\ q \notin shown'[p]

SaidStep(t, q, x) ==
  \/ \E u \in Socket : Says(u, q, x)
  \/ x.here /\ x.clock <= meta'[q][q]
  \/ ~x.here /\ \E s : Removes(s, q, x.clock)

LEMMA BringsSays ==
  ASSUME Shape, NEW q, NEW t, NEW x, Brings(t, q, x)
  PROVE  t \in Socket /\ x \in Entry /\ x.clock \in Nat /\ x.here \in BOOLEAN /\ Says(t, q, x)
<1>1. t \in Socket /\ x \in Entry
  BY DEF Brings
<1>2. CASE Receive(t) /\ q \in DOMAIN Head(inbox[t]) /\ x = Head(inbox[t])[q]
  <2>1. inbox[t] \in Seq(Message) /\ inbox[t] # <<>>
    BY <1>1, <1>2 DEF Receive, Shape
  <2>2. Head(inbox[t]) = inbox[t][1] /\ 1 \in DOMAIN inbox[t]
    BY <2>1, TailFacts
  <2> QED
    BY <1>1, <1>2, <2>2 DEF Says, Entry
<1> QED
  BY <1>1, <1>2 DEF Brings, Says, Entry

LEMMA DeliveryMoves ==
  ASSUME Shape, Opened, Shows, NEW frames, NEW received, NEW view,
         Delivers(frames, received, view)
  PROVE  /\ \A q \in Page : OwnStep(q)
         /\ \A p, q \in Page : p # q => OtherStep(p, q)
         /\ \A t \in Socket, q \in Page, x \in Entry : Says(t, q, x)' => SaidStep(t, q, x)
<1>1. /\ Delivery(frames, received, view) /\ received \in [Socket -> Seq(Message)]
      /\ Sourced(frames)
  BY DEF Delivers
<1>2. ASSUME NEW p \in Page
      PROVE  /\ Moved(p, Gets(p, frames), view[p])
             /\ view[p].meta = meta'[p] /\ view[p].shown = shown'[p]
             /\ \A i \in DOMAIN Gets(p, frames) : \A q \in DOMAIN Gets(p, frames)[i] :
                  Brought(q, Gets(p, frames)[i][q])
  BY <1>1 DEF Delivery, Reached, Sourced
<1>3. ASSUME NEW q \in Page
      PROVE  OwnStep(q)
  <2>1. meta[q][q] <= meta'[q][q]
    BY <1>1, MetaAfter
  <2>2. CASE meta'[q][q] = meta[q][q]
    BY <2>1, <2>2 DEF OwnStep
  <2>3. ASSUME NEW i \in DOMAIN Gets(q, frames), q \in DOMAIN Gets(q, frames)[i],
               meta'[q][q] = Gets(q, frames)[i][q].clock + 1,
               Gets(q, frames)[i][q].here => meta[q][q] < Gets(q, frames)[i][q].clock
        PROVE  OwnStep(q)
    <3>1. Brought(q, Gets(q, frames)[i][q])
      BY <1>2, <2>3
    <3> QED
      BY <2>1, <2>3, <3>1 DEF Brought, OwnStep
  <2> QED
    BY <1>2, <2>2, <2>3 DEF Moved
<1>4. ASSUME NEW p \in Page, NEW q \in Page, p # q
      PROVE  OtherStep(p, q)
  <2>1. CASE meta'[p][q] = meta[p][q] /\ (q \in shown'[p] => q \in shown[p])
    BY <2>1 DEF OtherStep
  <2>2. CASE q \in shown'[p] /\ ~(q \in shown[p] /\ meta'[p][q] = meta[p][q])
    <3>1. PICK i \in DOMAIN Gets(p, frames) :
            /\ Here(Gets(p, frames)[i], q) /\ meta'[p][q] = Gets(p, frames)[i][q].clock
      BY <1>2, <1>4, <2>2 DEF Moved
    <3>2. Brought(q, Gets(p, frames)[i][q]) /\ Gets(p, frames)[i][q].here
      BY <1>2, <3>1 DEF Here
    <3> QED
      BY <3>1, <3>2 DEF Brought, OtherStep
  <2>3. CASE q \notin shown'[p] /\ meta'[p][q] # meta[p][q]
    <3>1. PICK i \in DOMAIN Gets(p, frames) :
            /\ q \in DOMAIN Gets(p, frames)[i] /\ meta'[p][q] = Gets(p, frames)[i][q].clock
      BY <1>2, <1>4, <2>3 DEF Moved
    <3>2. Brought(q, Gets(p, frames)[i][q])
      BY <1>2, <3>1
    <3> QED
      BY <2>3, <3>1, <3>2 DEF Brought, OtherStep
  <2> QED
    BY <2>1, <2>2, <2>3
<1>5. ASSUME NEW t \in Socket, NEW q \in Page, NEW x \in Entry, Says(t, q, x)'
      PROVE  SaidStep(t, q, x)
  <2>1. CASE q \in DOMAIN last'[t] /\ x = last'[t][q]
    BY <2>1 DEF Delivers, SaidStep
  <2>2. CASE \E i \in DOMAIN inbox'[t] : q \in DOMAIN inbox'[t][i] /\ x = inbox'[t][i][q]
    <3>1. PICK i \in DOMAIN inbox'[t] : q \in DOMAIN inbox'[t][i] /\ x = inbox'[t][i][q]
      BY <2>2
    <3>2. Stays(t, i, received) \/ OfItself(t, i, q) \/ Repeats(t, i, q, frames)
      BY <1>1, <3>1, EntriesAfter
    <3>3. CASE Stays(t, i, received)
      <4>1. Says(t, q, x)
        BY <3>1, <3>3 DEF Stays, Delivers
      <4> QED
        BY <4>1 DEF SaidStep
    <3>4. CASE OfItself(t, i, q)
      BY <3>1, <3>4 DEF OfItself, SaidStep
    <3>5. CASE Repeats(t, i, q, frames)
      <4>1. Brought(q, x)
        BY <1>2, <3>1, <3>5 DEF Repeats
      <4>2. CASE \E u : Brings(u, q, x)
        BY <4>2, BringsSays DEF SaidStep
      <4> QED
        BY <4>1, <4>2 DEF Brought, SaidStep
    <3> QED
      BY <3>2, <3>3, <3>4, <3>5
  <2> QED
    BY <1>5, <2>1, <2>2 DEF Says
<1> QED
  BY <1>3, <1>4, <1>5

\* An entry that is on its way after s has sent a frame about p was so before, or is of p.
LEMMA SentSays ==
  ASSUME Shape, NEW s \in Socket, NEW e \in Message, NEW p, DOMAIN e = {p},
         NEW r \in Seq(Message), inbox'[s] = r \o <<e>>,
         NEW i \in DOMAIN inbox'[s], NEW q \in DOMAIN inbox'[s][i]
  PROVE  (i \in DOMAIN r /\ inbox'[s][i] = r[i]) \/ (q = p /\ inbox'[s][i] = e)
<1> DEFINE g == <<e>>
           u == r \o g
<1>1. g \in Seq(Message) /\ DOMAIN g = {1} /\ g[1] = e
  OBVIOUS
<1> HIDE DEF g
<1>2. /\ i \in DOMAIN u /\ u = inbox'[s]
  BY DEF g
<1>3. \/ i \in DOMAIN r
      \/ i - Len(r) \in DOMAIN g /\ Len(r) + (i - Len(r)) = i
  BY <1>1, <1>2, ConcatFacts
<1>4. /\ \A j \in DOMAIN r : u[j] = r[j]
      /\ \A j \in DOMAIN g : u[Len(r) + j] = g[j]
  BY <1>1, ConcatFacts
<1> HIDE DEF u
<1> QED
  BY <1>1, <1>2, <1>3, <1>4

LEMMA StepMoves ==
  ASSUME Shape, Opened, Shows, Next
  PROVE  /\ \A q \in Page : OwnStep(q)
         /\ \A p, q \in Page : p # q => OtherStep(p, q)
         /\ \A t \in Socket, q \in Page, x \in Entry : Says(t, q, x)' => SaidStep(t, q, x)
<1> DEFINE Goal == /\ \A q \in Page : OwnStep(q)
                   /\ \A p, q \in Page : p # q => OtherStep(p, q)
                   /\ \A t \in Socket, q \in Page, x \in Entry :
                        Says(t, q, x)' => SaidStep(t, q, x)
<1>a. ASSUME UNCHANGED meta, \A p \in Page : shown'[p] \subseteq shown[p]
      PROVE  /\ \A q \in Page : OwnStep(q)
             /\ \A p, q \in Page : p # q => OtherStep(p, q)
  <2>1. \A q \in Page : meta[q][q] \in Nat /\ meta'[q][q] = meta[q][q]
    BY <1>a DEF Shape
  <2> QED
    BY <1>a, <2>1 DEF OwnStep, OtherStep
<1>b. ASSUME NEW t \in Socket, last'[t] = last[t],
             \/ inbox'[t] = inbox[t] \/ inbox'[t] = <<>>
      PROVE  \A q \in Page, x \in Entry : Says(t, q, x)' => SaidStep(t, q, x)
  <2>1. DOMAIN <<>> = {}
    OBVIOUS
  <2> QED
    BY <1>b, <2>1 DEF Says, SaidStep
<1>1. ASSUME NEW p \in Page, Move(p)
      PROVE  Goal
  <2>1. /\ meta[p][p] \in Nat /\ meta'[p][p] = meta[p][p] + 1
        /\ \A r, q \in Page : r # p \/ q # p => meta'[r][q] = meta[r][q]
        /\ last' = last /\ shown' = shown
    BY <1>1, MoveFacts DEF server
  <2>2. meta[p][p] < MaxMoves[p] /\ MaxMoves[p] \in Nat
    BY <1>1, PresenceAssumption DEF Move
  <2>3. ASSUME NEW q \in Page
        PROVE  OwnStep(q)
    <3>1. CASE q = p
      <4>1. meta'[p][p] <= MaxMoves[p] /\ meta[p][p] <= meta'[p][p]
        BY <2>1, <2>2
      <4> QED
        BY <2>1, <3>1, <4>1 DEF OwnStep
    <3>2. CASE q # p
      <4>1. meta'[q][q] = meta[q][q] /\ meta[q][q] \in Nat
        BY <2>1, <3>2 DEF Shape
      <4> QED
        BY <4>1 DEF OwnStep
    <3> QED
      BY <3>1, <3>2
  <2>4. \A r, q \in Page : r # q => OtherStep(r, q)
    BY <2>1 DEF OtherStep
  <2>5. ASSUME NEW t \in Socket, NEW q \in Page, NEW x \in Entry, Says(t, q, x)'
        PROVE  SaidStep(t, q, x)
    <3>1. CASE inbox'[t] = inbox[t]
      BY <1>b, <2>1, <2>5, <3>1
    <3>2. CASE inbox'[t] # inbox[t]
      <4>1. PICK e \in Message : /\ at[p] \in Socket /\ DOMAIN e = {p}
                                 /\ e[p].clock = meta'[p][p] /\ e[p].here /\ Send(at[p], e)
        BY <1>1, <3>2, MoveFacts
      <4>2. t = at[p] /\ inbox'[t] = inbox[t] \o <<e>> /\ inbox[t] \in Seq(Message)
        BY <3>2, <4>1, SendFacts
      <4>3. \A i \in DOMAIN inbox'[t] : q \in DOMAIN inbox'[t][i] =>
              (i \in DOMAIN inbox[t] /\ inbox'[t][i] = inbox[t][i])
              \/ (q = p /\ inbox'[t][i] = e)
        BY <4>1, <4>2, SentSays
      <4>4. meta'[p][p] <= meta'[p][p]
        BY <2>1
      <4> QED
        BY <2>1, <2>5, <4>1, <4>3, <4>4 DEF Says, SaidStep
    <3> QED
      BY <3>1, <3>2
  <2> QED
    BY <2>3, <2>4, <2>5
<1>2. ASSUME NEW p \in Page, Close(p)
      PROVE  Goal
  <2>1. UNCHANGED <<meta, last, inbox>> /\ \A r \in Page : shown'[r] \subseteq shown[r]
    BY <1>2 DEF Close, server, Shape, Shows
  <2> QED
    BY <1>a, <1>b, <2>1
<1>3. ASSUME NEW p \in Page, NEW s \in Socket, Open(p, s)
      PROVE  Goal
  <2>1. UNCHANGED <<meta, last, shown>> /\ \A t \in Socket : t # s => inbox'[t] = inbox[t]
    BY <1>3, OpenFacts
  <2>2. PICK e \in Message : Announces(p, s, e)
    BY <1>3, OpenSends
  <2>3. inbox'[s] = <<e>> /\ DOMAIN e = {p} /\ e[p].clock = meta[p][p] /\ e[p].here
    BY <2>2 DEF Announces
  <2>4. DOMAIN <<e>> = {1} /\ <<e>>[1] = e /\ meta'[p][p] = meta[p][p] /\ meta[p][p] \in Nat
    BY <2>1 DEF Shape
  <2>5. ASSUME NEW q \in Page, NEW x \in Entry, Says(s, q, x)'
        PROVE  SaidStep(s, q, x)
    BY <2>1, <2>3, <2>4, <2>5 DEF Says, SaidStep
  <2> QED
    BY <1>a, <1>b, <2>1, <2>5
<1>4. ASSUME NEW s \in Socket, JoinFails(s) \/ Discard(s)
      PROVE  Goal
  <2>1. UNCHANGED <<meta, last, shown>>
        /\ \A t \in Socket : inbox'[t] = inbox[t] \/ inbox'[t] = <<>>
    BY <1>4 DEF JoinFails, Discard, page, Shape
  <2> QED
    BY <1>a, <1>b, <2>1
<1>5. ASSUME NEW s \in Socket, Join(s)
      PROVE  Goal
  BY <1>5, JoinDelivers, DeliveryMoves
<1>6. ASSUME NEW s \in Socket, Receive(s)
      PROVE  Goal
  BY <1>6, ReceiveDelivers, DeliveryMoves
<1>7. ASSUME NEW s \in Socket, Leave(s)
      PROVE  Goal
  BY <1>7, LeaveDelivers, DeliveryMoves
<1> QED
  BY <1>1, <1>2, <1>3, <1>4, <1>5, <1>6, <1>7 DEF Next

--------------------------------------------------------------------------------
(* The clocks stay below Top, and nobody has a client there that it was not. *)

LEMMA MostMoves ==
  ASSUME NEW S \in SUBSET Page, S # {}
  PROVE  \E m \in S : \A p \in S : MaxMoves[p] <= MaxMoves[m]
<1> DEFINE T == {n \in Nat : \A U \in SUBSET Page :
                   U # {} /\ Cardinality(U) = n =>
                     \E m \in U : \A p \in U : MaxMoves[p] <= MaxMoves[m]}
<1>0. \A U \in SUBSET Page : IsFiniteSet(U) /\ Cardinality(U) \in Nat
  BY PresenceAssumption, FS_Subset, FS_CardinalityType
<1>m. \A p \in Page : MaxMoves[p] \in Nat
  BY PresenceAssumption
<1>1. 0 \in T
  BY <1>0, FS_EmptySet
<1>2. ASSUME NEW n \in Nat, n \in T
      PROVE  n + 1 \in T
  <2> SUFFICES ASSUME NEW U \in SUBSET Page, U # {}, Cardinality(U) = n + 1
               PROVE  \E m \in U : \A p \in U : MaxMoves[p] <= MaxMoves[m]
    OBVIOUS
  <2>1. PICK x \in U : TRUE
    OBVIOUS
  <2>2. Cardinality(U \ {x}) = n
    BY <1>0, <2>1, FS_RemoveElement
  <2>3. CASE U \ {x} = {}
    BY <1>m, <2>1, <2>3
  <2>4. CASE U \ {x} # {}
    <3>1. PICK m \in U \ {x} : \A p \in U \ {x} : MaxMoves[p] <= MaxMoves[m]
      BY <1>2, <2>2, <2>4
    <3>2. CASE MaxMoves[x] <= MaxMoves[m]
      BY <3>1, <3>2
    <3>3. CASE ~(MaxMoves[x] <= MaxMoves[m])
      <4>1. \A p \in U : MaxMoves[p] <= MaxMoves[x]
        BY <1>m, <2>1, <3>1, <3>3
      <4> QED
        BY <2>1, <4>1
    <3> QED
      BY <3>2, <3>3
  <2> QED
    BY <2>3, <2>4
<1> HIDE DEF T
<1>3. Cardinality(S) \in T
  BY <1>0, <1>1, <1>2, Induction
<1> QED
  BY <1>3 DEF T

LEMMA TopFacts ==
  ASSUME Page # {}
  PROVE  /\ Max(Range(MaxMoves)) \in Nat
         /\ \A p \in Page : MaxMoves[p] \in Nat /\ MaxMoves[p] <= Max(Range(MaxMoves))
         /\ IsFiniteSet(Ended) /\ Cardinality(Ended) \in Nat
         /\ Cardinality(Ended) <= Cardinality(Socket) /\ Cardinality(Socket) \in Nat
         /\ Top \in Nat /\ Top <= Max(Range(MaxMoves)) + 2 * Cardinality(Socket)
<1>1. PICK m \in Page : \A p \in Page : MaxMoves[p] <= MaxMoves[m]
  BY MostMoves
<1>2. \A p \in Page : MaxMoves[p] \in Nat
  BY PresenceAssumption
<1>3. /\ Range(MaxMoves) \subseteq Nat /\ MaxMoves[m] \in Range(MaxMoves)
      /\ \A y \in Range(MaxMoves) : MaxMoves[m] >= y
      /\ \A p \in Page : MaxMoves[p] \in Range(MaxMoves)
  BY <1>1, <1>2, PresenceAssumption DEF Range
<1> DEFINE top == Max(Range(MaxMoves))
<1>4. top \in Range(MaxMoves) /\ \A y \in Range(MaxMoves) : top >= y
  BY <1>3 DEF Max
<1> HIDE DEF top
<1>5. top \in Nat /\ \A p \in Page : MaxMoves[p] <= top
  BY <1>2, <1>3, <1>4
<1>6. /\ IsFiniteSet(Ended) /\ Cardinality(Ended) \in Nat
      /\ Cardinality(Ended) <= Cardinality(Socket) /\ Cardinality(Socket) \in Nat
  BY PresenceAssumption, FS_Subset, FS_CardinalityType DEF Ended
<1>7. Top = top + 2 * Cardinality(Ended)
  BY DEF Top, top
<1>8. Top \in Nat /\ Top <= top + 2 * Cardinality(Socket)
  BY <1>5, <1>6, <1>7
<1> QED
  BY <1>2, <1>5, <1>6, <1>8 DEF top

\* What a socket says of a client is not newer than what its page has of it.
LEMMA SaysBelow ==
  ASSUME Shape, Opened, Ordered, NEW t \in Socket, NEW q \in Page, NEW x \in Entry,
         Says(t, q, x)
  PROVE  /\ opener[t] \in Page /\ x.clock \in Nat /\ x.here \in BOOLEAN
         /\ x.clock <= meta[opener[t]][q]
         /\ opener[t] # q => x.clock > 0
<1>1. opener[t] \in Page
  <2>1. CASE pc[t] = "unused"
    <3>1. last[t] = <<>> /\ inbox[t] = <<>> /\ DOMAIN <<>> = {}
      BY <2>1 DEF Opened, NoFrame
    <3> QED
      BY <3>1 DEF Says
  <2> QED
    BY <2>1 DEF Opened, Shape
<1>2. OrderedAt(t)
  BY <1>1 DEF Ordered
<1>3. x.clock \in Nat /\ x.here \in BOOLEAN
  BY DEF Entry
<1>4. CASE q \in DOMAIN last[t] /\ x = last[t][q]
  <2>1. q \in DOMAIN known[t] /\ x.clock = known[t][q]
    BY <1>2, <1>4 DEF OrderedAt
  <2>2. Remembered(t)[q] = known[t][q]
    BY <2>1, RememberedFacts
  <2> QED
    BY <1>1, <1>2, <1>3, <2>1, <2>2 DEF OrderedAt
<1>5. ASSUME NEW i \in DOMAIN inbox[t], q \in DOMAIN inbox[t][i], x = inbox[t][i][q]
      PROVE  x.clock <= meta[opener[t]][q] /\ (opener[t] # q => x.clock > 0)
  BY <1>2, <1>5 DEF OrderedAt, Climbs
<1> QED
  BY <1>1, <1>3, <1>4, <1>5 DEF Says

LEMMA RemovesBelow ==
  ASSUME Shape, Opened, Ordered, NEW s, NEW q \in Page, NEW c, Removes(s, q, c)
  PROVE  /\ s \in Socket /\ Leave(s) /\ opener[s] \in Page
         /\ known[s][q] \in Nat /\ c \in Nat /\ c = known[s][q] + 1
         /\ known[s][q] <= meta[opener[s]][q] /\ meta[opener[s]][q] \in Nat
         /\ opener[s] # q => known[s][q] > 0
<1>1. s \in Socket /\ Leave(s) /\ q \in DOMAIN known[s] /\ c = known[s][q] + 1
  BY DEF Removes
<1>2. opener[s] \in Page
  BY <1>1 DEF Leave, Opened, Shape
<1>3. OrderedAt(s)
  BY <1>1, <1>2 DEF Ordered
<1>4. known[s][q] \in Nat /\ Remembered(s)[q] = known[s][q] /\ meta[opener[s]][q] \in Nat
  BY <1>1, <1>2, RememberedFacts DEF Shape
<1> QED
  BY <1>1, <1>2, <1>3, <1>4 DEF OrderedAt

LEMMA AuthenticKept ==
  ASSUME Shape, Opened, Shows, Authentic, Shape', Next
  PROVE  Authentic'
<1>m. \A p, q \in Page : meta[p][q] \in Nat /\ meta'[p][q] \in Nat
  BY DEF Shape
<1>1. ASSUME NEW q \in Page
      PROVE  meta[q][q] <= meta'[q][q]
  BY StepMoves DEF OwnStep
<1>2. ASSUME NEW q \in Page, NEW p \in Page, q \in shown'[p]
      PROVE  meta'[p][q] <= meta'[q][q]
  <2>1. CASE p = q
    BY <1>m, <2>1
  <2>2. CASE p # q
    <3>1. OtherStep(p, q)
      BY <2>2, StepMoves
    <3>2. CASE meta'[p][q] = meta[p][q] /\ q \in shown[p]
      BY <1>m, <1>1, <3>2 DEF Authentic
    <3>3. ASSUME NEW t, NEW x, Brings(t, q, x), meta'[p][q] = x.clock, x.here
          PROVE  meta'[p][q] <= meta'[q][q]
      <4>1. t \in Socket /\ x \in Entry /\ Says(t, q, x)
        BY <3>3, BringsSays
      <4>2. x.clock <= meta[q][q]
        BY <3>3, <4>1 DEF Authentic
      <4> QED
        BY <1>m, <1>1, <3>3, <4>2
    <3> QED
      BY <1>2, <3>1, <3>2, <3>3 DEF OtherStep
  <2> QED
    BY <2>1, <2>2
<1>3. ASSUME NEW q \in Page, NEW t \in Socket, NEW x \in Entry, Says(t, q, x)', x.here
      PROVE  x.clock <= meta'[q][q]
  <2>1. SaidStep(t, q, x)
    BY <1>3, StepMoves
  <2>2. ASSUME NEW u \in Socket, Says(u, q, x)
        PROVE  x.clock <= meta'[q][q]
    <3>1. x.clock <= meta[q][q] /\ x.clock \in Nat
      BY <1>3, <2>2 DEF Authentic, Entry
    <3> QED
      BY <1>m, <1>1, <3>1
  <2> QED
    BY <1>3, <2>1, <2>2 DEF SaidStep
<1> QED
  BY <1>2, <1>3 DEF Authentic

\* Top never falls, and the end of a socket that is in the room raises it by two.
LEMMA TopRises ==
  ASSUME Shape, Opened, Shape', Next, Page # {}
  PROVE  /\ Top \in Nat /\ Top' \in Nat /\ Top <= Top'
         /\ \A s \in Socket : Leave(s) => Top' = Top + 2
<1>1. /\ Max(Range(MaxMoves)) \in Nat /\ Cardinality(Ended) \in Nat /\ IsFiniteSet(Ended)
  BY TopFacts
<1>2. Ended \subseteq Ended' /\ Ended' \subseteq Socket
  BY SocketSteps DEF Ended
<1>3. IsFiniteSet(Ended') /\ Cardinality(Ended') \in Nat
  BY <1>2, PresenceAssumption, FS_Subset, FS_CardinalityType
<1>4. Cardinality(Ended) <= Cardinality(Ended')
  BY <1>2, <1>3, FS_Subset
<1>5. ASSUME NEW s \in Socket, Leave(s)
      PROVE  Cardinality(Ended') = Cardinality(Ended) + 1
  <2>1. Ended' = Ended \cup {s} /\ s \notin Ended
    BY <1>5 DEF Leave, Ended, Shape
  <2> QED
    BY <1>1, <2>1, FS_AddElement
<1> DEFINE m == Max(Range(MaxMoves))
           c == Cardinality(Ended)
           d == Cardinality(Ended')
<1>6. Top = m + 2 * c /\ Top' = m + 2 * d
  BY DEF Top
<1>7. m \in Nat /\ c \in Nat /\ d \in Nat /\ c <= d
      /\ \A s \in Socket : Leave(s) => d = c + 1
  BY <1>1, <1>3, <1>4, <1>5
<1> HIDE DEF m, c, d
<1> QED
  BY <1>6, <1>7

LEMMA BoundKept ==
  ASSUME Shape, Opened, Shows, Ordered, Authentic, Bound, Shape', Next
  PROVE  Bound'
<1> SUFFICES ASSUME NEW q \in Page
             PROVE  /\ \A p \in Page : meta'[p][q] <= Top'
                    /\ \A t \in Socket, x \in Entry :
                         Says(t, q, x)' /\ ~x.here => x.clock < Top'
  BY DEF Bound
<1>1. /\ Top \in Nat /\ Top' \in Nat /\ Top <= Top'
      /\ \A s \in Socket : Leave(s) => Top' = Top + 2
  BY TopRises
<1>m. \A p \in Page : meta[p][q] \in Nat /\ meta'[p][q] \in Nat /\ meta[p][q] <= Top
  BY DEF Shape, Bound
<1>2. ASSUME NEW s, NEW c, Removes(s, q, c)
      PROVE  c \in Nat /\ c < Top' /\ c + 1 <= Top'
  <2>1. /\ s \in Socket /\ Leave(s) /\ opener[s] \in Page /\ c = known[s][q] + 1
        /\ known[s][q] \in Nat /\ known[s][q] <= meta[opener[s]][q]
    BY <1>2, RemovesBelow
  <2> QED
    BY <1>1, <1>m, <2>1
<1>3. ASSUME NEW t, NEW x, Brings(t, q, x)
      PROVE  /\ x.clock \in Nat /\ x.here \in BOOLEAN /\ x.clock <= Top
             /\ x.here => x.clock <= meta[q][q]
             /\ ~x.here => x.clock < Top
  <2>1. t \in Socket /\ x \in Entry /\ x.clock \in Nat /\ x.here \in BOOLEAN /\ Says(t, q, x)
    BY <1>3, BringsSays
  <2>2. x.here => x.clock <= meta[q][q]
    BY <2>1 DEF Authentic
  <2>3. ~x.here => x.clock < Top
    BY <2>1 DEF Bound
  <2> QED
    BY <1>1, <1>m, <2>1, <2>2, <2>3
<1>4. meta'[q][q] <= Top'
  <2>1. OwnStep(q)
    BY StepMoves
  <2>2. CASE meta'[q][q] = meta[q][q]
    BY <1>1, <1>m, <2>2
  <2>3. CASE meta'[q][q] <= MaxMoves[q]
    <3>1. MaxMoves[q] <= Max(Range(MaxMoves)) /\ MaxMoves[q] \in Nat
          /\ Max(Range(MaxMoves)) \in Nat /\ Cardinality(Ended) \in Nat
      BY TopFacts
    <3>2. Max(Range(MaxMoves)) <= Top
      <4> DEFINE m == Max(Range(MaxMoves))
                 c == Cardinality(Ended)
      <4>1. m \in Nat /\ c \in Nat /\ Top = m + 2 * c
        BY <3>1 DEF Top
      <4> HIDE DEF m, c
      <4>2. m <= Top
        BY <4>1
      <4> QED
        BY <4>2 DEF m
    <3> QED
      BY <1>1, <1>m, <2>3, <3>1, <3>2
  <2>4. ASSUME NEW t, NEW x, Brings(t, q, x), meta'[q][q] = x.clock + 1,
               x.here => meta[q][q] < x.clock
        PROVE  meta'[q][q] <= Top'
    BY <1>1, <1>3, <1>m, <2>4
  <2>5. ASSUME NEW s, NEW c, Removes(s, q, c), meta'[q][q] = c + 1
        PROVE  meta'[q][q] <= Top'
    BY <1>2, <2>5
  <2> QED
    BY <2>1, <2>2, <2>3, <2>4, <2>5 DEF OwnStep
<1>5. ASSUME NEW p \in Page, p # q
      PROVE  meta'[p][q] <= Top'
  <2>1. OtherStep(p, q)
    BY <1>5, StepMoves
  <2>2. CASE meta'[p][q] = meta[p][q]
    BY <1>1, <1>m, <2>2
  <2>3. ASSUME NEW t, NEW x, Brings(t, q, x), meta'[p][q] = x.clock
        PROVE  meta'[p][q] <= Top'
    BY <1>1, <1>3, <2>3
  <2>4. ASSUME NEW s, Removes(s, q, meta'[p][q])
        PROVE  meta'[p][q] <= Top'
    BY <1>1, <1>2, <2>4
  <2> QED
    BY <2>1, <2>2, <2>3, <2>4 DEF OtherStep
<1>6. ASSUME NEW t \in Socket, NEW x \in Entry, Says(t, q, x)', ~x.here
      PROVE  x.clock < Top'
  <2>1. SaidStep(t, q, x) /\ x.clock \in Nat
    BY <1>6, StepMoves DEF Entry
  <2>2. ASSUME NEW u \in Socket, Says(u, q, x)
        PROVE  x.clock < Top'
    BY <1>1, <1>6, <2>1, <2>2 DEF Bound
  <2> QED
    BY <1>2, <1>6, <2>1, <2>2 DEF SaidStep
<1> QED
  BY <1>4, <1>5, <1>6

--------------------------------------------------------------------------------
(* The clock of a page that has one socket is ahead. *)

LEMMA UnknownKept ==
  ASSUME Shape, Opened, Shows, Ordered, Unknown, Shape', Opened', Next
  PROVE  Unknown'
<1> SUFFICES ASSUME NEW q \in Page, q \notin reopened',
                    \A t \in Socket : opener'[t] = q => pc'[t] = "joining",
                    NEW p \in Page \ {q}
             PROVE  meta'[p][q] = 0
  BY DEF Unknown
<1>1. ASSUME NEW t \in Socket, opener[t] = q
      PROVE  pc[t] = "joining"
  <2>1. opener[t] # NoPage
    BY <1>1, PresenceAssumption
  <2>2. pc'[t] = "joining"
    BY <1>1, <2>1, SocketSteps
  <2>3. pc[t] \in {"unused", "joining"} /\ pc[t] # "unused"
    BY <2>1, <2>2, SocketSteps DEF Opened
  <2> QED
    BY <2>3
<1>2. q \notin reopened
  BY PageSteps
<1>3. \A r \in Page \ {q} : meta[r][q] = 0
  BY <1>1, <1>2 DEF Unknown
<1>4. OtherStep(p, q)
  BY StepMoves
<1>5. ASSUME NEW t, NEW x, Brings(t, q, x)
      PROVE  FALSE
  <2>1. t \in Socket /\ x \in Entry /\ Says(t, q, x)
    BY <1>5, BringsSays
  <2>2. opener[t] # q
    BY <1>1, <1>5, <2>1 DEF Brings
  <2>3. opener[t] \in Page /\ x.clock \in Nat /\ x.clock > 0 /\ x.clock <= meta[opener[t]][q]
    BY <2>1, <2>2, SaysBelow
  <2> QED
    BY <1>3, <2>2, <2>3
<1>6. ASSUME NEW s, NEW c, Removes(s, q, c)
      PROVE  FALSE
  <2>1. /\ s \in Socket /\ Leave(s) /\ opener[s] \in Page
        /\ known[s][q] \in Nat /\ known[s][q] <= meta[opener[s]][q]
        /\ opener[s] # q => known[s][q] > 0
    BY <1>6, RemovesBelow
  <2>2. opener[s] # q
    BY <1>1, <2>1 DEF Leave
  <2> QED
    BY <1>3, <2>1, <2>2
<1> QED
  BY <1>3, <1>4, <1>5, <1>6 DEF OtherStep

LEMMA SoloSteps ==
  ASSUME Shape, Opened, Opened', Next, NEW q \in Page, Solo(q)'
  PROVE  /\ at'[q] = at[q] /\ at[q] \in Socket /\ at[q] # NoSocket /\ opener[at[q]] = q
         /\ pc'[at[q]] = "live" /\ q \notin reopened
         /\ Solo(q) \/ Join(at[q])
         /\ \A t \in Socket : opener[t] = q => t = at[q]
         /\ \A p \in Page : at[p] = at[q] => p = q
<1>1. at'[q] = at[q] /\ at[q] # NoSocket /\ q \notin reopened
  BY PageSteps DEF Solo
<1>2. at[q] \in Socket /\ opener[at[q]] = q
  BY <1>1 DEF Shape, Opened
<1>3. Solo(q) \/ Join(at[q])
  BY <1>1, <1>2, SocketSteps DEF Solo
<1>4. \A t \in Socket : opener[t] = q => t = at[q]
  BY <1>1, <1>2, PresenceAssumption DEF Opened
<1>5. \A p \in Page : at[p] = at[q] => p = q
  BY <1>1, <1>2 DEF Opened
<1> QED
  BY <1>1, <1>2, <1>3, <1>4, <1>5 DEF Solo

\* As long as the clock of a page stays, it tells nothing that it was not telling.
LEMMA AboutBefore ==
  ASSUME Shape, Opened, Shows, Next, NEW q \in Page, at[q] # NoSocket,
         meta'[q][q] = meta[q][q], About(inbox'[at[q]], q)
  PROVE  /\ About(inbox[at[q]], q)
         /\ Receive(at[q]) => About(Tail(inbox[at[q]]), q)
<1> DEFINE s == at[q]
<1>0. /\ s \in Socket /\ opener[s] = q /\ s # NoSocket
      /\ \A p \in Page : at[p] = s => p = q
      /\ ~About(<<>>, q) /\ meta[q][q] \in Nat
  BY NoFrames DEF Shape, Opened
<1> HIDE DEF s
<1>d. ASSUME NEW frames, NEW received, NEW view, Delivers(frames, received, view)
      PROVE  About(received[s], q)
  <2>1. Delivery(frames, received, view) /\ received \in [Socket -> Seq(Message)]
    BY <1>d DEF Delivers
  <2>2. About(inbox'[at[q]], q) => About(received[at[q]], q) \/ meta[q][q] < meta'[q][q]
    BY <2>1, RisesAfter
  <2> QED
    BY <1>0, <2>2 DEF s
<1>1. ASSUME NEW p \in Page, Move(p)
      PROVE  About(inbox[s], q)
  <2>0. meta'[p][p] = meta[p][p] + 1 /\ meta[p][p] \in Nat
    BY <1>1, MoveFacts
  <2>1. p # q
    BY <2>0
  <2>2. CASE inbox' = inbox
    BY <2>2 DEF s
  <2>3. CASE inbox' # inbox
    <3>1. PICK e \in Message : at[p] \in Socket /\ Send(at[p], e)
      BY <1>1, <2>3, MoveFacts
    <3>2. inbox'[s] = inbox[s]
      BY <1>0, <2>1, <3>1, SendFacts
    <3> QED
      BY <3>2 DEF s
  <2> QED
    BY <2>2, <2>3
<1>2. ASSUME NEW p \in Page, Close(p)
      PROVE  About(inbox[s], q)
  BY <1>2 DEF Close, s
<1>3. ASSUME NEW p \in Page, NEW u \in Socket, Open(p, u)
      PROVE  About(inbox[s], q)
  <2>1. s # u
    BY <1>0, <1>3, OpenFacts DEF s
  <2> QED
    BY <1>0, <1>3, <2>1, OpenFacts DEF s
<1>4. ASSUME NEW u \in Socket, JoinFails(u) \/ Discard(u)
      PROVE  About(inbox[s], q)
  <2>1. inbox'[s] = inbox[s] \/ inbox'[s] = <<>>
    BY <1>0, <1>4 DEF JoinFails, Discard, Shape
  <2> QED
    BY <1>0, <2>1 DEF s
<1>5. ASSUME NEW u \in Socket, Join(u)
      PROVE  About(inbox[s], q)
  BY <1>5, <1>d, JoinDelivers
<1>6. ASSUME NEW u \in Socket, Receive(u)
      PROVE  About(inbox[s], q) /\ (u = s => About(Tail(inbox[s]), q))
  <2> DEFINE received == [inbox EXCEPT ![u] = Tail(@)]
  <2>1. PICK frames, view : Delivers(frames, received, view)
    BY <1>6, ReceiveDelivers
  <2>2. /\ received[u] = Tail(inbox[u]) /\ (u # s => received[s] = inbox[s])
        /\ inbox[u] \in Seq(Message) /\ inbox[u] # <<>>
    BY <1>0, <1>6 DEF Receive, Shape
  <2> HIDE DEF received
  <2>3. About(received[s], q)
    BY <1>d, <2>1
  <2>4. u = s => About(Tail(inbox[s]), q)
    BY <2>2, <2>3
  <2>5. u = s => About(inbox[s], q)
    BY <2>2, <2>4, TailSays
  <2> QED
    BY <2>2, <2>3, <2>4, <2>5
<1>7. ASSUME NEW u \in Socket, Leave(u)
      PROVE  About(inbox[s], q)
  <2> DEFINE received == [inbox EXCEPT ![u] = <<>>]
  <2>1. PICK frames, view : Delivers(frames, received, view)
    BY <1>7, LeaveDelivers
  <2>2. received[s] = inbox[s] \/ received[s] = <<>>
    BY <1>0 DEF Shape
  <2> HIDE DEF received
  <2> QED
    BY <1>0, <1>d, <2>1, <2>2
<1>8. About(inbox[s], q)
  BY <1>1, <1>2, <1>3, <1>4, <1>5, <1>6, <1>7 DEF Next
<1> QED
  BY <1>0, <1>6, <1>8 DEF s

LEMMA AheadKept ==
  ASSUME Shape, Opened, Shows, Ordered, Speaks, Authentic, Unknown, Ahead,
         Shape', Opened', Next
  PROVE  Ahead'
<1> SUFFICES ASSUME NEW q \in Page, Solo(q)'
             PROVE  /\ \A p \in Page \ {q} :
                         /\ meta'[p][q] <= meta'[q][q]
                         /\ About(inbox'[at'[q]], q) /\ meta'[q][q] > 0 =>
                              meta'[p][q] < meta'[q][q]
                    /\ \A t \in Socket, x \in Entry :
                         Says(t, q, x)' /\ ~x.here => x.clock < meta'[q][q]
  BY DEF Ahead
<1> DEFINE s == at[q]
<1>0. /\ at'[q] = s /\ s \in Socket /\ s # NoSocket /\ opener[s] = q
      /\ pc'[s] = "live" /\ q \notin reopened
      /\ Solo(q) \/ Join(s)
      /\ \A t \in Socket : opener[t] = q => t = s
      /\ \A p \in Page : at[p] = s => p = q
  BY SoloSteps
<1>m. /\ \A p \in Page : meta[p][q] \in Nat /\ meta'[p][q] \in Nat
      /\ meta[q][q] <= meta'[q][q]
  BY StepMoves DEF Shape, OwnStep
<1> HIDE DEF s
<1>1. CASE Solo(q)
  <2>1. /\ \A p \in Page \ {q} :
             /\ meta[p][q] <= meta[q][q]
             /\ About(inbox[s], q) /\ meta[q][q] > 0 => meta[p][q] < meta[q][q]
        /\ \A t \in Socket, x \in Entry : Says(t, q, x) /\ ~x.here => x.clock < meta[q][q]
    BY <1>1 DEF Ahead, s
  <2>2. pc[s] = "live"
    BY <1>1 DEF Solo, s
  <2>3. ASSUME NEW t, NEW x, Brings(t, q, x)
        PROVE  /\ t \in Socket /\ x \in Entry /\ Says(t, q, x) /\ x.clock \in Nat
               /\ x.clock <= meta[q][q] /\ (~x.here => x.clock < meta[q][q])
    <3>1. t \in Socket /\ x \in Entry /\ Says(t, q, x) /\ x.clock \in Nat /\ x.here \in BOOLEAN
      BY <2>3, BringsSays
    <3>2. x.here => x.clock <= meta[q][q]
      BY <3>1 DEF Authentic
    <3>3. ~x.here => x.clock < meta[q][q]
      BY <2>1, <3>1
    <3> QED
      BY <1>m, <3>1, <3>2, <3>3
  <2>4. ASSUME NEW u, NEW c, Removes(u, q, c)
        PROVE  c \in Nat /\ c < meta'[q][q]
    <3>1. u \in Socket /\ Leave(u) /\ c \in Nat
      BY <2>4, RemovesBelow
    <3>2. u # s
      BY <1>0, <3>1 DEF Leave, Shape
    <3> QED
      BY <1>0, <2>2, <2>4, <3>1, <3>2 DEF Removes, s
  <2>5. ASSUME NEW t, NEW x, Brings(t, q, x), meta'[q][q] = meta[q][q], meta[q][q] > 0,
               About(inbox'[s], q)
        PROVE  x.clock < meta[q][q]
    <3>1. About(inbox[s], q) /\ (Receive(s) => About(Tail(inbox[s]), q))
      BY <1>0, <2>5, AboutBefore DEF s
    <3>2. t \in Socket /\ x \in Entry /\ Says(t, q, x) /\ x.clock \in Nat
      BY <2>3, <2>5
    <3>3. CASE t # s
      <4>1. opener[t] \in Page \ {q} /\ x.clock <= meta[opener[t]][q]
        BY <1>0, <3>2, <3>3, SaysBelow
      <4>2. meta[opener[t]][q] < meta[q][q]
        BY <2>1, <2>5, <3>1, <4>1
      <4> QED
        BY <1>m, <3>2, <4>1, <4>2
    <3>4. CASE t = s
      <4>1. SpeaksAt(q) /\ Rises(inbox[s], q, meta[q][q])
        BY <1>0, <2>2 DEF Speaks, SpeaksAt, s
      <4>2. CASE q \in DOMAIN last[s] /\ x = last[s][q]
        <5>1. q \in DOMAIN known[s] /\ x.clock = known[s][q]
          BY <1>0, <4>2 DEF Ordered, OrderedAt
        <5>2. PICK i \in DOMAIN inbox[s] : q \in DOMAIN inbox[s][i]
          BY <3>1 DEF About
        <5>3. known[s][q] < inbox[s][i][q].clock
          BY <4>1, <5>1, <5>2 DEF SpeaksAt, s
        <5>4. inbox[s][i][q].clock <= meta[q][q]
          BY <4>1, <5>2 DEF Rises
        <5>5. inbox[s][i][q].clock \in Nat
          BY <1>0, <5>2, MessageFacts DEF Shape
        <5> QED
          BY <1>m, <3>2, <5>1, <5>3, <5>4, <5>5
      <4>3. CASE Receive(s) /\ q \in DOMAIN Head(inbox[s]) /\ x = Head(inbox[s])[q]
        <5>1. inbox[s] \in Seq(Message) /\ inbox[s] # <<>>
          BY <1>0, <4>3 DEF Receive, Shape
        <5> DEFINE w == Tail(inbox[s])
        <5>2. PICK i \in DOMAIN w : q \in DOMAIN w[i]
          BY <3>1, <4>3 DEF About
        <5>3. Rises(w, q, meta[q][q]) /\ x.clock < w[i][q].clock
          BY <4>1, <4>3, <5>1, <5>2, TailRises
        <5>4. w[i][q].clock <= meta[q][q]
          BY <5>2, <5>3 DEF Rises
        <5>5. w[i][q].clock \in Nat
          <6>1. w \in Seq(Message)
            BY <5>1, TailFacts
          <6> HIDE DEF w
          <6>2. w[i] \in Message
            BY <6>1
          <6> QED
            BY <5>2, <6>2, MessageFacts
        <5> QED
          BY <1>m, <3>2, <5>3, <5>4, <5>5
      <4> QED
        BY <2>5, <3>4, <4>2, <4>3 DEF Brings
    <3> QED
      BY <3>3, <3>4
  <2>6. ASSUME NEW p \in Page \ {q}
        PROVE  /\ meta'[p][q] <= meta'[q][q]
               /\ About(inbox'[s], q) /\ meta'[q][q] > 0 => meta'[p][q] < meta'[q][q]
    <3>1. OtherStep(p, q)
      BY StepMoves
    <3>2. meta[p][q] <= meta[q][q]
      BY <2>1
    <3>3. CASE meta'[p][q] = meta[p][q]
      <4>1. ASSUME meta'[q][q] = meta[q][q], meta[q][q] > 0, About(inbox'[s], q)
            PROVE  meta[p][q] < meta[q][q]
        <5>1. About(inbox[s], q)
          BY <1>0, <4>1, AboutBefore DEF s
        <5> QED
          BY <2>1, <4>1, <5>1
      <4> QED
        BY <1>m, <3>2, <3>3, <4>1
    <3>4. ASSUME NEW t, NEW x, Brings(t, q, x), meta'[p][q] = x.clock
          PROVE  /\ meta'[p][q] <= meta'[q][q]
                 /\ About(inbox'[s], q) /\ meta'[q][q] > 0 => meta'[p][q] < meta'[q][q]
      BY <1>m, <2>3, <2>5, <3>4
    <3>5. ASSUME NEW u, Removes(u, q, meta'[p][q])
          PROVE  meta'[p][q] < meta'[q][q]
      BY <2>4, <3>5
    <3> QED
      BY <1>m, <3>1, <3>3, <3>4, <3>5 DEF OtherStep
  <2>7. ASSUME NEW t \in Socket, NEW x \in Entry, Says(t, q, x)', ~x.here
        PROVE  x.clock < meta'[q][q]
    <3>1. SaidStep(t, q, x) /\ x.clock \in Nat
      BY <2>7, StepMoves DEF Entry
    <3>2. ASSUME NEW u \in Socket, Says(u, q, x)
          PROVE  x.clock < meta'[q][q]
      BY <1>m, <2>1, <2>7, <3>1, <3>2
    <3> QED
      BY <2>4, <2>7, <3>1, <3>2 DEF SaidStep
  <2> QED
    BY <1>0, <2>6, <2>7
<1>2. CASE Join(s)
  <2>1. pc[s] = "joining" /\ last[s] = NoFrame
    BY <1>0, <1>2 DEF Join, Opened
  <2>2. \A p \in Page \ {q} : meta[p][q] = 0
    BY <1>0, <2>1 DEF Unknown
  <2>3. Rises(inbox[s], q, meta[q][q]) /\ About(inbox[s], q)
    BY <1>0, <2>1 DEF Speaks, SpeaksAt, s
  <2>4. \A p \in Page \ {q} : meta'[p][q] = 0
    <3>1. PICK frames, view : Handed(s, frames, view)
      BY <1>0, <1>2, JoinFacts
    <3>2. \A p \in Page \ {q} : Unmoved(p)
      BY <1>0, <3>1 DEF Handed
    <3> QED
      BY <2>2, <3>2 DEF Unmoved
  <2>5. ASSUME NEW t \in Socket, NEW x \in Entry, Says(t, q, x)', ~x.here
        PROVE  FALSE
    <3>1. SaidStep(t, q, x) /\ x.clock \in Nat
      BY <2>5, StepMoves DEF Entry
    <3>2. \A u \in Socket : ~Leave(u)
      BY <1>0, <1>2 DEF Join, Leave, Shape
    <3>3. PICK u \in Socket : Says(u, q, x)
      BY <2>5, <3>1, <3>2 DEF SaidStep, Removes
    <3>4. opener[u] \in Page /\ x.clock <= meta[opener[u]][q]
          /\ (opener[u] # q => x.clock > 0)
      BY <3>3, SaysBelow
    <3>5. opener[u] = q /\ u = s
      BY <1>0, <2>2, <3>1, <3>4
    <3>6. q \notin DOMAIN last[s]
      BY <2>1 DEF NoFrame
    <3> QED
      BY <2>3, <2>5, <3>3, <3>5, <3>6 DEF Says, Rises
  <2> QED
    BY <1>m, <2>4, <2>5
<1> QED
  BY <1>0, <1>1, <1>2

--------------------------------------------------------------------------------
(* What is shown of a page that has one socket is its cursor. *)

\* A page that is in the room after a step tells of itself when its clock has changed,
\* and tells what it was telling unless the server has just received it.
LEMMA AboutAfter ==
  ASSUME Shape, Opened, Shows, Next, NEW q \in Page, at[q] # NoSocket,
         at'[q] = at[q], pc'[at[q]] = "live"
  PROVE  /\ meta'[q][q] # meta[q][q] => About(inbox'[at[q]], q)
         /\ About(inbox[at[q]], q) =>
              \/ About(inbox'[at[q]], q)
              \/ /\ Receive(at[q]) /\ q \in DOMAIN Head(inbox[at[q]])
                 /\ ~About(Tail(inbox[at[q]]), q)
<1> DEFINE s == at[q]
           Telling == /\ meta'[q][q] # meta[q][q] => About(inbox'[s], q)
                      /\ About(inbox[s], q) =>
                           \/ About(inbox'[s], q)
                           \/ /\ Receive(s) /\ q \in DOMAIN Head(inbox[s])
                              /\ ~About(Tail(inbox[s]), q)
<1>0. /\ s \in Socket /\ opener[s] = q /\ s # NoSocket
      /\ \A p \in Page : at[p] = s => p = q
      /\ pc'[s] = "live" /\ pc[s] \in {"joining", "live"} /\ at'[q] = s
  <2>1. s \in Socket /\ opener[s] = q /\ \A p \in Page : at[p] = s => p = q
    BY DEF Shape, Opened
  <2>2. pc[s] \in {"joining", "live"}
    BY <2>1, SocketSteps DEF Join
  <2> QED
    BY <2>1, <2>2
<1> HIDE DEF s
<1>d. ASSUME NEW frames, NEW received, NEW view, Delivers(frames, received, view)
      PROVE  /\ meta'[q][q] # meta[q][q] => About(inbox'[s], q)
             /\ About(received[s], q) => About(inbox'[s], q)
  <2>1. Delivery(frames, received, view) /\ received \in [Socket -> Seq(Message)]
    BY <1>d DEF Delivers
  <2>2. meta'[q][q] = meta[q][q] \/ About(inbox'[at[q]], q)
    BY <2>1, RisesAfter
  <2>3. About(received[s], q) => About(inbox'[s], q)
    BY <1>0, <2>1, SaidBefore
  <2> QED
    BY <2>2, <2>3 DEF s
<1>1. ASSUME NEW p \in Page, Move(p)
      PROVE  Telling
  <2>1. CASE p = q
    <3>1. PICK e \in Message : DOMAIN e = {q} /\ at[q] \in Socket /\ Send(at[q], e)
      BY <1>0, <1>1, <2>1, MoveFacts DEF s
    <3>2. inbox'[s] = inbox[s] \o <<e>> /\ inbox[s] \in Seq(Message)
      BY <3>1, SendFacts DEF s
    <3> DEFINE r == inbox[s]
               g == <<e>>
    <3>3. g \in Seq(Message) /\ About(g, q)
      BY <3>1, <3>2, OneFrame
    <3> HIDE DEF r, g
    <3>4. About(r \o g, q)
      BY <3>2, <3>3, ConcatSays DEF r
    <3> QED
      BY <3>2, <3>4 DEF r, g
  <2>2. CASE p # q
    <3>1. meta'[q][q] = meta[q][q] /\ at[p] # s
      BY <1>0, <1>1, <2>2, MoveFacts
    <3>2. CASE inbox' = inbox
      BY <3>1, <3>2
    <3>3. CASE inbox' # inbox
      <4>1. PICK e \in Message : at[p] \in Socket /\ Send(at[p], e)
        BY <1>1, <3>3, MoveFacts
      <4>2. inbox'[s] = inbox[s]
        BY <1>0, <3>1, <4>1, SendFacts
      <4> QED
        BY <3>1, <4>2
    <3> QED
      BY <3>2, <3>3
  <2> QED
    BY <2>1, <2>2
<1>2. ASSUME NEW p \in Page, Close(p)
      PROVE  Telling
  BY <1>2 DEF Close
<1>3. ASSUME NEW p \in Page, NEW u \in Socket, Open(p, u)
      PROVE  Telling
  <2>1. s # u /\ meta' = meta
    BY <1>0, <1>3, OpenFacts
  <2>2. inbox'[s] = inbox[s]
    BY <1>0, <1>3, <2>1, OpenFacts
  <2> QED
    BY <2>1, <2>2
<1>4. ASSUME NEW u \in Socket, JoinFails(u) \/ Discard(u)
      PROVE  Telling
  <2>1. meta' = meta /\ inbox'[s] = inbox[s]
    BY <1>0, <1>4 DEF JoinFails, Discard, Shape, page
  <2> QED
    BY <2>1
<1>5. ASSUME NEW u \in Socket, Join(u)
      PROVE  Telling
  BY <1>5, <1>d, JoinDelivers
<1>6. ASSUME NEW u \in Socket, Receive(u)
      PROVE  Telling
  <2> DEFINE received == [inbox EXCEPT ![u] = Tail(@)]
  <2>1. PICK frames, view : Delivers(frames, received, view)
    BY <1>6, ReceiveDelivers
  <2>2. /\ received[u] = Tail(inbox[u]) /\ (u # s => received[s] = inbox[s])
        /\ inbox[u] \in Seq(Message) /\ inbox[u] # <<>>
    BY <1>0, <1>6 DEF Receive, Shape
  <2> HIDE DEF received
  <2>3. /\ meta'[q][q] # meta[q][q] => About(inbox'[s], q)
        /\ About(received[s], q) => About(inbox'[s], q)
    BY <1>d, <2>1
  <2>4. CASE u = s
    <3>1. About(inbox[s], q) => q \in DOMAIN Head(inbox[s]) \/ About(Tail(inbox[s]), q)
      BY <2>2, <2>4, TailSays
    <3> QED
      BY <1>6, <2>2, <2>3, <2>4, <3>1
  <2>5. CASE u # s
    BY <2>2, <2>3, <2>5
  <2> QED
    BY <2>4, <2>5
<1>7. ASSUME NEW u \in Socket, Leave(u)
      PROVE  Telling
  <2> DEFINE received == [inbox EXCEPT ![u] = <<>>]
  <2>1. PICK frames, view : Delivers(frames, received, view)
    BY <1>7, LeaveDelivers
  <2>2. u # s
    BY <1>0, <1>7 DEF Leave, Shape
  <2>3. received[s] = inbox[s]
    BY <1>0, <2>2 DEF Shape
  <2> HIDE DEF received
  <2> QED
    BY <1>d, <2>1, <2>3
<1>8. Telling
  BY <1>1, <1>2, <1>3, <1>4, <1>5, <1>6, <1>7 DEF Next
<1> QED
  BY <1>8 DEF s

\* A client that others have with the clock it has itself, shown, stays so until it moves:
\* what they are told of it is older, and a removal that is not makes it move.
LEMMA ShownStays ==
  ASSUME Shape, Opened, Shows, Ordered, Authentic, Ahead, Next,
         NEW q \in Page, Solo(q), pc'[at[q]] = "live", meta'[q][q] = meta[q][q],
         NEW p \in Page, p # q, at[p] # NoSocket, pc[at[p]] = "live", at'[p] # NoSocket,
         q \in shown[p], meta[p][q] = meta[q][q]
  PROVE  q \in shown'[p] /\ meta'[p][q] = meta'[q][q]
<1> SUFFICES q \in shown'[p] /\ meta'[p][q] = meta[p][q]
  OBVIOUS
<1>m. meta[p][q] \in Nat /\ meta[q][q] \in Nat
  BY DEF Shape
<1>0. at[p] \in Socket /\ at[q] \in Socket /\ at[q] # NoSocket /\ pc[at[q]] = "live"
  BY DEF Solo, Shape
<1>e. ASSUME NEW e \in Message, Takes(p, e), ~Fresh(p, e, q)
      PROVE  q \in shown'[p] /\ meta'[p][q] = meta[p][q]
  BY <1>e DEF Takes
<1>1. ASSUME NEW r \in Page, Move(r)
      PROVE  q \in shown'[p] /\ meta'[p][q] = meta[p][q]
  BY <1>1, MoveFacts
<1>2. ASSUME NEW r \in Page, Close(r)
      PROVE  q \in shown'[p] /\ meta'[p][q] = meta[p][q]
  <2>1. r # p
    BY <1>2 DEF Close, Shape
  <2> QED
    BY <1>2, <2>1 DEF Close, Shape
<1>3. ASSUME NEW r \in Page, NEW u \in Socket, Open(r, u)
      PROVE  q \in shown'[p] /\ meta'[p][q] = meta[p][q]
  BY <1>3 DEF Open
<1>4. ASSUME NEW u \in Socket, JoinFails(u) \/ Discard(u)
      PROVE  q \in shown'[p] /\ meta'[p][q] = meta[p][q]
  BY <1>4 DEF JoinFails, Discard, page
<1>5. ASSUME NEW u \in Socket, Join(u)
      PROVE  q \in shown'[p] /\ meta'[p][q] = meta[p][q]
  <2>1. PICK frames, view : Handed(u, frames, view)
    BY <1>5, JoinFacts
  <2>2. at[p] # u
    BY <1>5 DEF Join
  <2>3. Unmoved(p)
    BY <2>1, <2>2 DEF Handed
  <2> QED
    BY <2>3 DEF Unmoved
<1>6. ASSUME NEW u \in Socket, Receive(u)
      PROVE  q \in shown'[p] /\ meta'[p][q] = meta[p][q]
  <2> DEFINE e == Head(inbox[u])
  <2>1. PICK frames, view : Relayed(e, u, frames, [inbox EXCEPT ![u] = Tail(@)], view)
    BY <1>6, ReceiveFacts
  <2>2. e \in Message /\ pc[u] = "live"
    BY <1>6, ReceiveFacts
  <2> HIDE DEF e
  <2>3. CASE ~Reachable(p, u)
    BY <2>1, <2>3 DEF Relayed, Unmoved
  <2>4. CASE Reachable(p, u)
    <3>1. ~Fresh(p, e, q)
      <4> SUFFICES ASSUME q \in DOMAIN e
                   PROVE  ~(meta[p][q] < e[q].clock)
                          /\ ~(meta[p][q] = e[q].clock /\ ~e[q].here)
        BY DEF Fresh
      <4>1. e[q] \in Entry /\ e[q].clock \in Nat /\ e[q].here \in BOOLEAN
        BY <2>2, MessageFacts
      <4>2. Brings(u, q, e[q])
        BY <1>6, <2>2, <4>1 DEF Brings, e
      <4>3. Says(u, q, e[q])
        BY <4>2, BringsSays
      <4>4. e[q].here => e[q].clock <= meta[q][q]
        BY <4>1, <4>3 DEF Authentic
      <4>5. ~e[q].here => e[q].clock < meta[q][q]
        BY <4>1, <4>3 DEF Ahead
      <4> QED
        BY <1>m, <4>1, <4>4, <4>5
    <3> QED
      BY <1>e, <2>1, <2>2, <2>4, <3>1 DEF Relayed
  <2> QED
    BY <2>3, <2>4
<1>7. ASSUME NEW u \in Socket, Leave(u)
      PROVE  q \in shown'[p] /\ meta'[p][q] = meta[p][q]
  <2>1. PICK frames, view : Relayed(Removal(u), u, frames, [inbox EXCEPT ![u] = <<>>], view)
    BY <1>7, LeaveFacts
  <2>2. /\ Removal(u) \in Message /\ DOMAIN Removal(u) = DOMAIN known[u]
        /\ \A r \in DOMAIN known[u] : Removal(u)[r].clock = known[u][r] + 1
    BY RemovalFacts
  <2>3. CASE ~Reachable(p, u)
    BY <2>1, <2>3 DEF Relayed, Unmoved
  <2>4. CASE Reachable(p, u)
    <3>1. ~Fresh(p, Removal(u), q)
      <4> SUFFICES ASSUME q \in DOMAIN known[u]
                   PROVE  known[u][q] + 1 < meta[p][q]
        BY <1>m, <2>2, RemovalFacts DEF Fresh
      <4>1. Removes(u, q, known[u][q] + 1)
        BY <1>7, LeaveRemoves
      <4>2. at[q] # u
        BY <1>0, <1>7 DEF Leave, Shape
      <4> QED
        BY <1>0, <4>1, <4>2 DEF Removes
    <3> QED
      BY <1>e, <2>1, <2>2, <2>4, <3>1 DEF Relayed
  <2> QED
    BY <2>3, <2>4
<1> QED
  BY <1>1, <1>2, <1>3, <1>4, <1>5, <1>6, <1>7 DEF Next

LEMMA HeardAfter ==
  ASSUME Shape, Next, NEW u \in Socket, NEW q \in heard'[u]
  PROVE  \/ q \in heard[u]
         \/ \E s \in Socket : /\ Receive(s) /\ s # u /\ pc[u] = "live"
                              /\ opener[s] = q /\ q \in DOMAIN Head(inbox[s])
<1>1. ASSUME NEW p \in Page, Move(p) \/ Close(p) \/ \E s \in Socket : Open(p, s)
      PROVE  heard' = heard
  BY <1>1 DEF Move, Close, Open, history
<1>2. ASSUME NEW s \in Socket, Join(s) \/ JoinFails(s) \/ Leave(s) \/ Discard(s)
      PROVE  heard' = heard
  BY <1>2 DEF Join, JoinFails, Leave, Discard, history
<1>3. ASSUME NEW s \in Socket, Receive(s)
      PROVE  \/ q \in heard[u]
             \/ /\ s # u /\ pc[u] = "live"
                /\ opener[s] = q /\ q \in DOMAIN Head(inbox[s])
  <2>1. heard'[u] = IF pc[u] = "live" /\ u # s
                    THEN heard[u] \cup (DOMAIN Head(inbox[s]) \cap {opener[s]})
                    ELSE heard[u]
    BY <1>3 DEF Receive
  <2> QED
    BY <2>1
<1> QED
  BY <1>1, <1>2, <1>3 DEF Next

LEMMA ConvergesKept ==
  ASSUME Shape, Opened, Shows, Ordered, Speaks, Authentic, Ahead, Converges,
         Shape', Opened', Next
  PROVE  Converges'
<1> SUFFICES ASSUME NEW p \in Page, NEW q \in Page, p # q, Solo(q)', meta'[q][q] > 0,
                    at'[p] # NoSocket, pc'[at'[p]] = "live", q \in heard'[at'[p]],
                    ~About(inbox'[at'[q]], q)
             PROVE  q \in shown'[p] /\ meta'[p][q] = meta'[q][q]
  BY DEF Converges
<1> DEFINE s == at[q]
           u == at[p]
<1>0. /\ at'[q] = s /\ s \in Socket /\ s # NoSocket /\ opener[s] = q
      /\ pc'[s] = "live" /\ q \notin reopened
      /\ Solo(q) \/ Join(s)
      /\ \A t \in Socket : opener[t] = q => t = s
      /\ \A r \in Page : at[r] = s => r = q
  BY SoloSteps
<1>u. at'[p] = u /\ u \in Socket /\ u # s /\ u # NoSocket /\ opener[u] = p
  <2>1. at'[p] = u /\ u # NoSocket
    BY PageSteps
  <2> QED
    BY <1>0, <2>1 DEF Shape, Opened
<1> HIDE DEF s, u
<1>1. /\ meta'[q][q] = meta[q][q]
      /\ About(inbox[s], q) =>
           Receive(s) /\ q \in DOMAIN Head(inbox[s]) /\ ~About(Tail(inbox[s]), q)
  BY <1>0, AboutAfter DEF s
<1>2. CASE Join(s)
  <2>1. pc[s] = "joining"
    BY <1>2 DEF Join
  <2>2. About(inbox[s], q)
    BY <1>0, <2>1 DEF Speaks, SpeaksAt, s
  <2> QED
    BY <1>1, <2>1, <2>2 DEF Receive
<1>3. CASE Solo(q)
  <2>m. meta[q][q] \in Nat /\ meta[p][q] \in Nat /\ meta[q][q] > 0
    BY <1>1 DEF Shape
  <2>1. \/ q \in heard[u]
        \/ \E t \in Socket : /\ Receive(t) /\ pc[u] = "live"
                             /\ opener[t] = q /\ q \in DOMAIN Head(inbox[t])
    BY <1>u, HeardAfter
  <2>2. pc[u] = "live"
    <3>1. pc[u] = "joining" => heard[u] = {}
      BY <1>u DEF Opened
    <3>2. pc[u] = "live" \/ pc[u] = "joining"
      BY <1>u, SocketSteps DEF Join
    <3> QED
      BY <2>1, <3>1, <3>2
  <2>3. CASE Receive(s) /\ q \in DOMAIN Head(inbox[s])
    <3> DEFINE e == Head(inbox[s])
               received == [inbox EXCEPT ![s] = Tail(@)]
    <3>1. PICK frames, view : Relayed(e, s, frames, received, view)
      BY <1>0, <2>3, ReceiveFacts
    <3>2. /\ Delivery(frames, received, view) /\ received \in [Socket -> Seq(Message)]
          /\ inbox[s] \in Seq(Message) /\ inbox[s] # <<>> /\ e \in Message
      BY <1>0, <2>3, <3>1, ReceiveFacts DEF Relayed
    <3>3. received[s] = Tail(inbox[s])
      BY <1>0, <2>3 DEF Shape
    <3> HIDE DEF received
    <3>4. ~About(Tail(inbox[s]), q)
      BY <1>0, <3>2, <3>3, SaidBefore
    <3>5. Rises(inbox[s], q, meta[q][q])
      BY <1>0, <1>3 DEF Solo, Speaks, SpeaksAt, s
    <3>6. e[q].here /\ e[q].clock = meta[q][q]
      BY <2>3, <3>2, <3>4, <3>5, TailRises
    <3>7. About(inbox[s], q)
      BY <2>3, <3>2, TailSays
    <3>8. meta[p][q] < meta[q][q]
      BY <1>3, <2>m, <3>7 DEF Ahead, s
    <3> HIDE DEF e
    <3>9. Takes(p, e)
      BY <1>u, <2>2, <3>1 DEF Relayed, Reachable, u
    <3>10. Fresh(p, e, q)
      BY <2>3, <3>6, <3>8 DEF Fresh, e
    <3> QED
      BY <1>1, <3>6, <3>9, <3>10 DEF Takes
  <2>4. CASE ~(Receive(s) /\ q \in DOMAIN Head(inbox[s]))
    <3>1. ~About(inbox[s], q)
      BY <1>1, <2>4
    <3>2. q \in heard[u]
      BY <1>0, <2>1, <2>4
    <3>3. q \in shown[p] /\ meta[p][q] = meta[q][q]
      BY <1>3, <1>u, <2>m, <2>2, <3>1, <3>2 DEF Converges, s, u
    <3> QED
      BY <1>0, <1>1, <1>3, <1>u, <2>2, <3>3, ShownStays DEF s, u
  <2> QED
    BY <2>3, <2>4
<1> QED
  BY <1>0, <1>2, <1>3

--------------------------------------------------------------------------------
(* Whoever is shown has a socket that will retract it. *)

\* Such a socket remains one, unless it ends or the room receives the retraction.
LEMMA WillRetractStays ==
  ASSUME Shape, Opened, Shows, Ordered, Shape', Next,
         NEW t \in Socket, NEW q \in Page, NEW c \in Nat, WillRetract(t, q, c), ~Leave(t)
  PROVE  \/ WillRetract(t, q, c)'
         \/ Receive(t) /\ Null(Head(inbox[t]), q) /\ c <= Head(inbox[t])[q].clock
<1>0. /\ pc[t] = "live" /\ q \in DOMAIN known[t] /\ c <= known[t][q]
      /\ opener[t] = q \/ at[opener[t]] # t \/ Retracts(inbox[t], q)
      /\ opener[t] \in Page /\ opener'[t] = opener[t] /\ known[t][q] \in Nat
  <2>1. opener[t] \in Page
    BY DEF WillRetract, Opened, Shape
  <2>2. opener[t] # NoPage
    BY <2>1, PresenceAssumption
  <2>3. opener'[t] = opener[t]
    BY <2>2, SocketSteps
  <2> QED
    BY <2>1, <2>3, RememberedFacts DEF WillRetract
<1>a. at[opener[t]] # t => at'[opener[t]] # t
  BY <1>0, PageSteps, SocketSteps, PresenceAssumption
<1>b. ASSUME pc'[t] = "live", known'[t] = known[t],
             Retracts(inbox[t], q) => Retracts(inbox'[t], q)
      PROVE  WillRetract(t, q, c)'
  BY <1>0, <1>a, <1>b DEF WillRetract
<1>1. ASSUME NEW p \in Page, Move(p)
      PROVE  WillRetract(t, q, c)'
  <2>1. UNCHANGED <<pc, known>>
    BY <1>1 DEF Move, server
  <2>2. Retracts(inbox[t], q) => Retracts(inbox'[t], q)
    <3>1. CASE inbox'[t] # inbox[t]
      <4>1. PICK e \in Message : at[p] \in Socket /\ Send(at[p], e)
        BY <1>1, <3>1, MoveFacts
      <4>2. inbox'[t] = inbox[t] \o <<e>> /\ inbox[t] \in Seq(Message)
        BY <3>1, <4>1, SendFacts
      <4> DEFINE r == inbox[t]
                 g == <<e>>
      <4>3. g \in Seq(Message)
        OBVIOUS
      <4> HIDE DEF r, g
      <4>4. Retracts(r, q) => Retracts(r \o g, q)
        BY <4>2, <4>3, ConcatSays DEF r
      <4> QED
        BY <4>2, <4>4 DEF r, g
    <3> QED
      BY <3>1
  <2> QED
    BY <1>0, <1>b, <2>1, <2>2
<1>2. ASSUME NEW p \in Page, Close(p)
      PROVE  WillRetract(t, q, c)'
  BY <1>0, <1>2, <1>b DEF Close, server
<1>3. ASSUME NEW p \in Page, NEW s \in Socket, Open(p, s)
      PROVE  WillRetract(t, q, c)'
  <2>1. t # s /\ known' = known
    BY <1>0, <1>3, OpenFacts
  <2> QED
    BY <1>0, <1>3, <1>b, <2>1, OpenFacts
<1>4. ASSUME NEW s \in Socket, JoinFails(s) \/ Discard(s)
      PROVE  WillRetract(t, q, c)'
  BY <1>0, <1>4, <1>b DEF JoinFails, Discard, Shape
<1>d. ASSUME NEW frames, NEW received, NEW view, Delivers(frames, received, view),
             pc'[t] = "live", known'[t] = known[t], received[t] = inbox[t]
      PROVE  WillRetract(t, q, c)'
  <2>1. Delivery(frames, received, view) /\ received \in [Socket -> Seq(Message)]
    BY <1>d DEF Delivers
  <2>2. Retracts(received[t], q) => Retracts(inbox'[t], q)
    BY <2>1, SaidBefore
  <2> QED
    BY <1>b, <1>d, <2>2
<1>5. ASSUME NEW s \in Socket, Join(s)
      PROVE  WillRetract(t, q, c)'
  <2>1. PICK frames, view : Delivers(frames, inbox, view)
    BY <1>5, JoinDelivers
  <2>2. pc'[t] = "live" /\ known'[t] = known[t]
    BY <1>0, <1>5 DEF Join, Shape
  <2> QED
    BY <1>d, <2>1, <2>2
<1>6. ASSUME NEW s \in Socket, Leave(s)
      PROVE  WillRetract(t, q, c)'
  <2> DEFINE received == [inbox EXCEPT ![s] = <<>>]
  <2>1. PICK frames, view : Delivers(frames, received, view)
    BY <1>6, LeaveDelivers
  <2>2. s # t
    BY <1>6
  <2>3. pc'[t] = "live" /\ known'[t] = known[t] /\ received[t] = inbox[t]
    BY <1>0, <1>6, <2>2 DEF Leave, Shape
  <2> HIDE DEF received
  <2> QED
    BY <1>d, <2>1, <2>3
<1>7. ASSUME NEW s \in Socket, Receive(s)
      PROVE  \/ WillRetract(t, q, c)'
             \/ Receive(t) /\ Null(Head(inbox[t]), q) /\ c <= Head(inbox[t])[q].clock
  <2> DEFINE e == Head(inbox[s])
             received == [inbox EXCEPT ![s] = Tail(@)]
  <2>1. PICK frames, view : Delivers(frames, received, view)
    BY <1>7, ReceiveDelivers
  <2>2. /\ pc'[t] = "live" /\ known'[s] = Spoken(known[s], e)
        /\ s # t => known'[t] = known[t] /\ received[t] = inbox[t]
        /\ received[s] = Tail(inbox[s])
    BY <1>0, <1>7 DEF Receive, Shape
  <2>3. Delivery(frames, received, view) /\ received \in [Socket -> Seq(Message)]
        /\ inbox[s] \in Seq(Message) /\ inbox[s] # <<>> /\ e \in Message
    BY <1>7, <2>1, ReceiveFacts DEF Delivers
  <2> HIDE DEF received
  <2>4. CASE s # t
    BY <1>d, <2>1, <2>2, <2>4
  <2>5. CASE s = t
    <3>1. q \in DOMAIN e => known[t][q] <= e[q].clock /\ e[q].clock \in Nat
      <4>1. e = inbox[t][1] /\ 1 \in DOMAIN inbox[t]
        BY <2>3, <2>5, TailFacts
      <4>2. Climbs(inbox[t], Remembered(t), meta[opener[t]])
        BY <1>0 DEF Ordered, OrderedAt
      <4>3. Remembered(t)[q] = known[t][q]
        BY <1>0, RememberedFacts
      <4> HIDE DEF e
      <4> QED
        BY <2>3, <4>1, <4>2, <4>3, MessageFacts DEF Climbs
    <3> HIDE DEF e
    <3>2. q \in DOMAIN known'[t] /\ c <= known'[t][q]
      <4>1. /\ q \in DOMAIN known'[t]
            /\ known'[t][q] = IF q \in DOMAIN e THEN e[q].clock ELSE known[t][q]
        BY <1>0, <2>2, <2>5 DEF Spoken
      <4> QED
        BY <1>0, <3>1, <4>1
    <3>3. CASE Null(e, q)
      <4>1. c <= e[q].clock
        BY <1>0, <3>1, <3>3 DEF Null
      <4> QED
        BY <1>7, <2>5, <3>3, <4>1 DEF e
    <3>4. CASE ~Null(e, q)
      <4>1. Retracts(inbox[t], q) => Retracts(Tail(inbox[t]), q)
        BY <2>3, <2>5, <3>4, TailSays DEF e
      <4>2. Retracts(received[t], q) => Retracts(inbox'[t], q)
        BY <2>3, SaidBefore
      <4> QED
        BY <1>0, <1>a, <2>2, <2>5, <3>2, <4>1, <4>2 DEF WillRetract
    <3> QED
      BY <3>3, <3>4
  <2> QED
    BY <2>4, <2>5
<1> QED
  BY <1>1, <1>2, <1>3, <1>4, <1>5, <1>6, <1>7 DEF Next

\* When the last frame of a socket in the room says that q is there, a socket will retract
\* it: this one, or, if its page goes on showing q, the one that accounts for that.
LEMMA LastAccounts ==
  ASSUME Shape, Opened, Ordered, Echoes, Accounted, NEW s \in Socket, pc[s] = "live",
         NEW q \in Page, q \notin haunted, Here(last[s], q)
  PROVE  \E t \in Socket : WillRetract(t, q, last[s][q].clock)
<1> DEFINE r == opener[s]
           c == last[s][q].clock
<1>1. /\ r \in Page /\ q \in DOMAIN known[s] /\ c = known[s][q]
      /\ c \in Nat /\ c <= meta[r][q] /\ meta[r][q] \in Nat
  <2>1. r \in Page
    BY DEF Opened, Shape
  <2>2. OrderedAt(s) /\ q \in DOMAIN last[s]
    BY <2>1 DEF Ordered, Here
  <2>3. q \in DOMAIN known[s] /\ c = known[s][q]
    BY <2>2 DEF OrderedAt
  <2>4. Remembered(s)[q] = known[s][q] /\ known[s][q] \in Nat
    BY <2>3, RememberedFacts
  <2> QED
    BY <2>1, <2>2, <2>3, <2>4 DEF OrderedAt, Shape
<1>2. c <= c
  BY <1>1
<1>3. CASE r = q \/ at[r] # s
  BY <1>1, <1>2, <1>3 DEF WillRetract
<1>4. CASE r # q /\ at[r] = s /\ q \notin shown[r]
  <2>1. Retracts(inbox[s], q)
    BY <1>1, <1>4 DEF Echoes
  <2> QED
    BY <1>1, <1>2, <2>1 DEF WillRetract
<1>5. CASE r # q /\ at[r] = s /\ q \in shown[r]
  <2>1. at[r] # NoSocket
    BY <1>5, PresenceAssumption
  <2>2. PICK t \in Socket : WillRetract(t, q, meta[r][q])
    BY <1>1, <1>5, <2>1 DEF Accounted
  <2>3. known[t][q] \in Nat /\ meta[r][q] <= known[t][q]
    BY <2>2, RememberedFacts DEF WillRetract
  <2>4. c <= known[t][q]
    BY <1>1, <2>3
  <2>5. WillRetract(t, q, c)
    BY <2>2, <2>4 DEF WillRetract
  <2> QED
    BY <2>5
<1> QED
  BY <1>3, <1>4, <1>5

LEMMA HauntedGrows ==
  ASSUME Next
  PROVE  haunted \subseteq haunted'
BY DEF Next, Move, Close, Open, Join, JoinFails, Receive, Leave, Discard, history

\* What a page goes on showing with the same clock is accounted for as before.
LEMMA KeptAccounts ==
  ASSUME Shape, Opened, Shows, Ordered, Accounted, Shape', Next,
         NEW p \in Page, NEW q \in Page \ {p}, q \in shown[p], q \in shown'[p],
         meta'[p][q] = meta[p][q], at'[p] = at[p], at[p] # NoSocket,
         pc'[at[p]] = "live", q \notin haunted
  PROVE  \E t \in Socket \ {at[p]} : WillRetract(t, q, meta[p][q])'
<1>0. at[p] \in Socket /\ meta[p][q] \in Nat
  BY DEF Shape
<1>1. pc[at[p]] = "live"
  <2>1. pc[at[p]] = "live" \/ pc[at[p]] = "joining"
    BY <1>0, SocketSteps DEF Join
  <2> QED
    BY <2>1 DEF Shows
<1>2. PICK t \in Socket \ {at[p]} : WillRetract(t, q, meta[p][q])
  BY <1>1 DEF Accounted
<1>3. Reachable(p, t)
  BY <1>1, <1>2 DEF Reachable
<1>4. ~Leave(t)
  <2> SUFFICES ASSUME Leave(t)
               PROVE  FALSE
    OBVIOUS
  <2>1. Takes(p, Removal(t))
    BY <1>3, LeaveFacts DEF Relayed
  <2>2. q \in DOMAIN known[t] /\ meta[p][q] <= known[t][q]
    BY <1>2 DEF WillRetract
  <2>3. /\ DOMAIN Removal(t) = DOMAIN known[t] /\ known[t][q] \in Nat
        /\ Removal(t)[q].clock = known[t][q] + 1 /\ ~Removal(t)[q].here
    BY <2>2, RemovalFacts
  <2>4. Fresh(p, Removal(t), q)
    BY <1>0, <2>2, <2>3 DEF Fresh
  <2> QED
    BY <2>1, <2>3, <2>4 DEF Takes
<1>5. ~(Receive(t) /\ Null(Head(inbox[t]), q) /\ meta[p][q] <= Head(inbox[t])[q].clock)
  <2> DEFINE e == Head(inbox[t])
  <2> SUFFICES ASSUME Receive(t), Null(e, q), meta[p][q] <= e[q].clock
               PROVE  FALSE
    OBVIOUS
  <2>1. Takes(p, e) /\ e \in Message
    BY <1>3, ReceiveFacts DEF Relayed
  <2> HIDE DEF e
  <2>2. q \in DOMAIN e /\ ~e[q].here /\ e[q].clock \in Nat
    BY <2>1, MessageFacts DEF Null
  <2>3. Fresh(p, e, q)
    BY <1>0, <2>2 DEF Fresh
  <2> QED
    BY <2>1, <2>2, <2>3 DEF Takes
<1>6. WillRetract(t, q, meta[p][q])'
  <2>1. PICK c \in Nat : c = meta[p][q]
    BY <1>0
  <2>2. /\ WillRetract(t, q, c)
        /\ ~(Receive(t) /\ Null(Head(inbox[t]), q) /\ c <= Head(inbox[t])[q].clock)
    BY <1>2, <1>5, <2>1
  <2>3. WillRetract(t, q, c)'
    BY <1>4, <2>2, WillRetractStays
  <2> QED
    BY <2>1, <2>3 DEF WillRetract
<1> QED
  BY <1>6

LEMMA AccountedKept ==
  ASSUME Shape, Opened, Shows, Ordered, Echoes, Accounted, Shape', Next
  PROVE  Accounted'
<1> SUFFICES ASSUME NEW p \in Page, NEW q \in shown'[p] \ {p},
                    at'[p] # NoSocket, pc'[at'[p]] = "live", q \notin haunted'
             PROVE  \E t \in Socket \ {at'[p]} : WillRetract(t, q, meta[p][q])'
  BY DEF Accounted
<1> DEFINE u == at[p]
<1>0. /\ at'[p] = u /\ u # NoSocket /\ u \in Socket /\ pc'[u] = "live"
      /\ q \in Page \ {p} /\ q \notin haunted
      /\ pc[u] = "live" \/ pc[u] = "joining"
      /\ opener[u] = p /\ meta[p][q] \in Nat /\ meta'[p][q] \in Nat
  <2>1. at'[p] = u /\ u # NoSocket
    BY PageSteps
  <2>2. u \in Socket /\ opener[u] = p
    BY <2>1 DEF Shape, Opened
  <2>3. pc[u] = "live" \/ pc[u] = "joining"
    BY <2>1, <2>2, SocketSteps DEF Join
  <2> QED
    BY <2>1, <2>2, <2>3, HauntedGrows DEF Shape
<1>k. ASSUME q \in shown[p], meta'[p][q] = meta[p][q]
      PROVE  \E t \in Socket \ {at'[p]} : WillRetract(t, q, meta[p][q])'
  BY <1>0, <1>k, KeptAccounts
<1> HIDE DEF u
<1>1. ASSUME NEW r \in Page, Move(r)
      PROVE  q \in shown[p] /\ meta'[p][q] = meta[p][q]
  BY <1>0, <1>1, MoveFacts
<1>2. ASSUME NEW r \in Page, Close(r)
      PROVE  q \in shown[p] /\ meta'[p][q] = meta[p][q]
  BY <1>0, <1>2 DEF Close, Shape
<1>3. ASSUME NEW r \in Page, NEW s \in Socket, Open(r, s)
      PROVE  q \in shown[p] /\ meta'[p][q] = meta[p][q]
  BY <1>3 DEF Open
<1>4. ASSUME NEW s \in Socket, JoinFails(s) \/ Discard(s)
      PROVE  q \in shown[p] /\ meta'[p][q] = meta[p][q]
  BY <1>4 DEF JoinFails, Discard, page
<1>5. ASSUME NEW s \in Socket, Join(s), ~(q \in shown[p] /\ meta'[p][q] = meta[p][q])
      PROVE  \E t \in Socket \ {at'[p]} : WillRetract(t, q, meta[p][q])'
  <2>1. PICK frames, view : Handed(s, frames, view)
    BY <1>5, JoinFacts
  <2>2. Delivery(frames, inbox, view)
    BY <2>1 DEF Handed
  <2>3. u = s /\ pc[s] = "joining"
    <3>1. at[p] # s => Unmoved(p)
      BY <2>1 DEF Handed
    <3> QED
      BY <1>5, <3>1 DEF Unmoved, u, Join
  <2>4. PICK i \in DOMAIN Gets(p, frames) :
          Here(Gets(p, frames)[i], q) /\ meta'[p][q] = Gets(p, frames)[i][q].clock
    <3>1. /\ Moved(p, Gets(p, frames), view[p])
          /\ meta'[p] = view[p].meta /\ shown'[p] = view[p].shown
      BY <2>2 DEF Delivery, Reached
    <3>2. q \in view[p].shown \ {p} /\ view[p].meta[q] = meta'[p][q]
      BY <1>0, <3>1
    <3> QED
      BY <1>5, <3>1, <3>2 DEF Moved
  <2>5. PICK t0 \in Socket : /\ t0 # s /\ pc[t0] \in {"live", "leaving"}
                             /\ Gets(p, frames)[i] = last[t0]
    BY <2>1, <2>4 DEF Handed
  <2>6. Here(last[t0], q) /\ meta'[p][q] = last[t0][q].clock
    BY <2>4, <2>5
  <2>7. pc[t0] = "live"
    <3> SUFFICES ASSUME pc[t0] = "leaving"
                 PROVE  FALSE
      BY <2>5
    <3>1. q \in DOMAIN last[t0] /\ last[t0] # NoFrame
      <4>1. DOMAIN NoFrame = {}
        BY DEF NoFrame
      <4> QED
        BY <2>6, <4>1 DEF Here
    <3> QED
      BY <1>5, <3>1 DEF Join, InRoom
  <2>8. PICK t \in Socket : WillRetract(t, q, last[t0][q].clock)
    BY <1>0, <2>6, <2>7, LastAccounts
  <2>9. t # s /\ ~Leave(t) /\ ~Receive(t)
    <3>1. pc[t] = "live" /\ pc'[t] = pc[t]
      BY <1>5, <2>3, <2>8 DEF WillRetract, Join, Shape
    <3>2. ~Leave(t)
      BY <3>1 DEF Leave, Shape
    <3>3. ~Receive(t)
      BY <1>5, <2>3 DEF Receive, Join, Shape
    <3> QED
      BY <2>3, <3>1, <3>2, <3>3
  <2>10. PICK c \in Nat : c = meta'[p][q]
    BY <1>0
  <2>11. WillRetract(t, q, c)
    BY <2>6, <2>8, <2>10
  <2>12. WillRetract(t, q, c)'
    BY <1>0, <2>9, <2>11, WillRetractStays
  <2>13. WillRetract(t, q, meta[p][q])'
    BY <2>10, <2>12 DEF WillRetract
  <2> QED
    BY <1>0, <2>3, <2>9, <2>13
<1>6. ASSUME NEW s \in Socket, Receive(s), ~(q \in shown[p] /\ meta'[p][q] = meta[p][q])
      PROVE  \E t \in Socket \ {at'[p]} : WillRetract(t, q, meta[p][q])'
  <2> DEFINE e == Head(inbox[s])
             received == [inbox EXCEPT ![s] = Tail(@)]
             r == opener[s]
  <2>1. PICK frames, view : Relayed(e, s, frames, received, view)
    BY <1>6, ReceiveFacts
  <2>2. /\ Delivery(frames, received, view) /\ received \in [Socket -> Seq(Message)]
        /\ inbox[s] \in Seq(Message) /\ inbox[s] # <<>> /\ e \in Message
        /\ r \in Page /\ pc[s] = "live" /\ pc' = pc /\ received[s] = Tail(inbox[s])
        /\ known'[s] = Spoken(known[s], e) /\ at' = at /\ opener' = opener
    <3>1. Delivery(frames, received, view)
      BY <2>1 DEF Relayed
    <3>2. /\ pc' = pc /\ received[s] = Tail(inbox[s]) /\ known'[s] = Spoken(known[s], e)
      BY <1>6 DEF Receive, Shape
    <3> HIDE DEF received, e
    <3> QED
      BY <1>6, <3>1, <3>2, ReceiveFacts DEF Delivery, received, e
  <2> HIDE DEF received
  <2>3. Reachable(p, s) /\ Takes(p, e)
    <3>1. ~Reachable(p, s) => Unmoved(p)
      BY <2>1 DEF Relayed
    <3>2. Reachable(p, s)
      BY <1>6, <3>1 DEF Unmoved
    <3> QED
      BY <2>1, <3>2 DEF Relayed
  <2>4. /\ Fresh(p, e, q) /\ e[q].here /\ meta'[p][q] = e[q].clock
        /\ q \in DOMAIN e /\ meta[p][q] < e[q].clock
    <3>1. Fresh(p, e, q)
      BY <1>0, <1>6, <2>3 DEF Takes
    <3>2. e[q].here /\ meta'[p][q] = e[q].clock
      BY <1>0, <2>3, <3>1 DEF Takes
    <3> QED
      BY <3>1, <3>2 DEF Fresh
  <2>5. u # s
    BY <2>3 DEF Reachable, u
  <2>6. /\ e[q].clock \in Nat /\ e[q].clock <= meta[r][q] /\ meta[r][q] \in Nat
    <3>1. e[q].clock \in Nat /\ e[q] \in Entry
      BY <2>2, <2>4, MessageFacts
    <3>2. Brings(s, q, e[q])
      BY <1>6, <2>2, <2>4, <3>1 DEF Brings
    <3>3. Says(s, q, e[q])
      BY <3>2, BringsSays
    <3> HIDE DEF e
    <3> QED
      BY <1>0, <2>2, <3>1, <3>3, SaysBelow DEF Shape
  <2>7. CASE r = q \/ at[r] # s \/ q \notin shown[r]
    <3>1. q \in DOMAIN known'[s] /\ known'[s][q] = e[q].clock
      BY <2>2, <2>4 DEF Spoken
    <3>2. r # q /\ at[r] = s => Retracts(inbox'[s], q)
      <4> SUFFICES ASSUME r # q, at[r] = s
                   PROVE  Retracts(inbox'[s], q)
        OBVIOUS
      <4>1. Settled(inbox[s], q)
        BY <1>0, <2>2, <2>7 DEF Echoes
      <4>2. Retracts(Tail(inbox[s]), q)
        BY <2>2, <2>4, <4>1, TailSays DEF Here
      <4> QED
        BY <2>2, <4>2, SaidBefore
    <3>3. WillRetract(s, q, meta[p][q])'
      <4>1. meta'[p][q] <= known'[s][q]
        BY <2>4, <2>6, <3>1
      <4> QED
        BY <2>2, <3>1, <3>2, <4>1 DEF WillRetract
    <3> QED
      BY <1>0, <2>5, <3>3
  <2>8. CASE r # q /\ at[r] = s /\ q \in shown[r]
    <3>1. at[r] # NoSocket
      BY <2>8, PresenceAssumption
    <3>2. PICK t \in Socket \ {s} : WillRetract(t, q, meta[r][q])
      BY <1>0, <2>2, <2>8, <3>1 DEF Accounted
    <3>3. /\ pc[t] = "live" /\ opener[t] \in Page /\ q \in DOMAIN known[t]
          /\ known[t][q] \in Nat /\ meta[r][q] <= known[t][q]
      <4>1. pc[t] = "live" /\ q \in DOMAIN known[t] /\ meta[r][q] <= known[t][q]
        BY <3>2 DEF WillRetract
      <4>2. opener[t] \in Page
        BY <4>1 DEF Opened, Shape
      <4>3. known[t][q] \in Nat
        BY <4>1, RememberedFacts
      <4> QED
        BY <4>1, <4>2, <4>3
    <3>4. PICK c \in Nat : c = meta'[p][q]
      BY <1>0
    <3>5. c <= known[t][q]
      BY <2>4, <2>6, <3>3, <3>4
    <3>6. WillRetract(t, q, c)
      BY <3>2, <3>5 DEF WillRetract
    <3>7. t # u
      <4> SUFFICES ASSUME t = u
                   PROVE  FALSE
        OBVIOUS
      <4>1. known[t][q] <= meta[p][q]
        <5>1. OrderedAt(t) /\ Remembered(t)[q] = known[t][q]
          BY <3>3, RememberedFacts DEF Ordered
        <5> QED
          BY <1>0, <5>1 DEF OrderedAt
      <4> QED
        BY <1>0, <2>4, <2>6, <3>4, <3>5, <3>3, <4>1
    <3>8. ~Leave(t) /\ ~(Receive(t) /\ Null(Head(inbox[t]), q) /\ c <= Head(inbox[t])[q].clock)
      <4>1. ~Leave(t)
        BY <2>2, <3>3 DEF Leave, Shape
      <4>2. ASSUME Receive(t), NEW f, f = Head(inbox[t]), Null(f, q), c <= f[q].clock
            PROVE  FALSE
        <5>1. Reachable(p, t)
          BY <2>3, <3>7 DEF Reachable, u
        <5>2. Takes(p, f) /\ f \in Message
          BY <4>2, <5>1, ReceiveFacts DEF Relayed
        <5>3. q \in DOMAIN f /\ ~f[q].here /\ f[q].clock \in Nat
          BY <4>2, <5>2, MessageFacts DEF Null
        <5>4. Fresh(p, f, q)
          BY <1>0, <2>4, <2>6, <3>4, <4>2, <5>3 DEF Fresh
        <5> QED
          BY <1>0, <5>2, <5>3, <5>4 DEF Takes
      <4> QED
        BY <4>1, <4>2
    <3>9. WillRetract(t, q, c)'
      BY <1>0, <3>6, <3>8, WillRetractStays
    <3>10. WillRetract(t, q, meta[p][q])'
      BY <3>4, <3>9 DEF WillRetract
    <3> QED
      BY <1>0, <3>7, <3>10
  <2> QED
    BY <2>7, <2>8
<1>7. ASSUME NEW s \in Socket, Leave(s)
      PROVE  q \in shown[p] /\ meta'[p][q] = meta[p][q]
  <2>1. PICK frames, view : Relayed(Removal(s), s, frames, [inbox EXCEPT ![s] = <<>>], view)
    BY <1>7, LeaveFacts
  <2>2. CASE ~Reachable(p, s)
    BY <1>0, <2>1, <2>2 DEF Relayed, Unmoved
  <2>3. CASE Reachable(p, s)
    <3>1. Takes(p, Removal(s))
      BY <2>1, <2>3 DEF Relayed
    <3>2. Fresh(p, Removal(s), q) => ~Removal(s)[q].here
      BY RemovalFacts DEF Fresh
    <3> QED
      BY <1>0, <3>1, <3>2 DEF Takes
  <2> QED
    BY <2>2, <2>3
<1> QED
  BY <1>k, <1>1, <1>2, <1>3, <1>4, <1>5, <1>6, <1>7 DEF Next

--------------------------------------------------------------------------------
(* The inductive invariant. *)

IInv ==
  /\ Shape /\ Opened /\ Shows
  /\ Ordered /\ Echoes /\ Speaks
  /\ Authentic /\ Bound /\ Unknown
  /\ Ahead /\ Converges /\ Accounted

LEMMA InitShape == Init => Shape /\ Opened /\ Shows
<1> SUFFICES ASSUME Init
             PROVE  Shape /\ Opened /\ Shows
  OBVIOUS
<1>1. NoFrame \in Message /\ NoFrame \in Clocks /\ DOMAIN NoFrame = {}
  <2>1. NoFrame \in [{} -> Entry] /\ NoFrame \in [{} -> Nat] /\ DOMAIN NoFrame = {}
    BY DEF NoFrame
  <2> QED
    BY <2>1 DEF Message, Clocks
<1>2. Shape
  <2>1. known \in [Socket -> Clocks] /\ last \in [Socket -> Message]
    BY <1>1 DEF Init
  <2>2. meta \in [Page -> [Page -> Nat]] /\ shown \in [Page -> SUBSET Page]
    BY DEF Init
  <2>3. waiting \in Seq({s \in Socket : pc[s] \in {"joining", "leaving"}})
    BY DEF Init
  <2>4. inbox \in [Socket -> Seq(Message)]
    BY DEF Init
  <2>5. /\ pc \in [Socket -> {"unused", "joining", "live", "leaving", "gone"}]
        /\ opener \in [Socket -> Page \cup {NoPage}] /\ at \in [Page -> Socket \cup {NoSocket}]
        /\ haunted \subseteq Page /\ reopened \subseteq Page
        /\ heard \in [Socket -> SUBSET Page]
    BY DEF Init
  <2> QED
    BY <2>1, <2>2, <2>3, <2>4, <2>5 DEF Shape
<1>3. Opened
  BY PresenceAssumption DEF Init, Opened
<1>4. Shows
  BY DEF Init, Shows
<1> QED
  BY <1>2, <1>3, <1>4

LEMMA InitIInv == Init => IInv
<1> SUFFICES ASSUME Init
             PROVE  IInv
  OBVIOUS
<1>1. Shape /\ Opened /\ Shows
  BY InitShape
<1>2. /\ \A t \in Socket : opener[t] = NoPage /\ inbox[t] = <<>> /\ last[t] = NoFrame
                           /\ pc[t] = "unused"
      /\ \A p \in Page : at[p] = NoSocket /\ shown[p] = {p}
      /\ \A p, q \in Page : meta[p][q] = 0
  BY DEF Init
<1>3. \A t \in Socket : opener[t] \notin Page
  BY <1>2, PresenceAssumption
<1>4. ~\E t \in Socket, q \in Page, x \in Entry : Says(t, q, x)
  BY <1>2 DEF Says, NoFrame
<1>5. Ordered /\ Echoes /\ Speaks
  <2>1. Ordered
    BY <1>3 DEF Ordered
  <2>2. Echoes
    BY <1>3 DEF Echoes
  <2>3. Speaks
    BY <1>2 DEF Speaks
  <2> QED
    BY <2>1, <2>2, <2>3
<1>6. Authentic
  <2>1. ASSUME NEW p \in Page, NEW q \in Page
        PROVE  meta[p][q] <= meta[q][q]
    BY <1>2
  <2> QED
    BY <1>4, <2>1 DEF Authentic
<1>7. Bound
  <2> SUFFICES ASSUME NEW q \in Page
               PROVE  \A p \in Page : meta[p][q] <= Top
    BY <1>4 DEF Bound
  <2>1. Top \in Nat
    BY TopFacts
  <2> QED
    BY <1>2, <2>1
<1>8. Unknown
  BY <1>2 DEF Unknown
<1>9. Ahead /\ Converges
  BY <1>2 DEF Ahead, Converges, Solo
<1>10. Accounted
  BY <1>2 DEF Accounted
<1> QED
  BY <1>1, <1>5, <1>6, <1>7, <1>8, <1>9, <1>10 DEF IInv

LEMMA NextIInv == IInv /\ Next => IInv'
<1> SUFFICES ASSUME IInv, Next
             PROVE  IInv'
  OBVIOUS
<1>1. /\ Shape /\ Opened /\ Shows
      /\ Ordered /\ Echoes /\ Speaks
      /\ Authentic /\ Bound /\ Unknown
      /\ Ahead /\ Converges /\ Accounted
  BY DEF IInv
<1>2. Shape' /\ Opened' /\ Shows'
  BY <1>1, ShapeKept, OpenedKept, ShowsKept
<1>3. Ordered' /\ Echoes' /\ Speaks'
  BY <1>1, <1>2, OrderedKept, EchoesKept, SpeaksKept
<1>4. Authentic' /\ Bound' /\ Unknown'
  BY <1>1, <1>2, AuthenticKept, BoundKept, UnknownKept
<1>5. Ahead'
  BY <1>1, <1>2, AheadKept
<1>6. Converges'
  BY <1>1, <1>2, ConvergesKept
<1>7. Accounted'
  BY <1>1, <1>2, AccountedKept
<1> QED
  BY <1>2, <1>3, <1>4, <1>5, <1>6, <1>7 DEF IInv

LEMMA StutterIInv == IInv /\ UNCHANGED vars => IInv'
<1> SUFFICES ASSUME IInv, UNCHANGED vars
             PROVE  IInv'
  OBVIOUS
<1>1. /\ UNCHANGED <<pc, waiting, known, last, inbox, opener, at, meta, shown>>
      /\ UNCHANGED <<haunted, reopened, heard>>
  BY DEF vars, server, page, history
<1>2. Shape' /\ Opened' /\ Shows'
  BY <1>1 DEF IInv, Shape, Opened, Shows
<1>3. Ordered' /\ Echoes' /\ Speaks'
  <2>1. Ordered'
    BY <1>1 DEF IInv, Ordered, OrderedAt, Remembered
  <2>2. Echoes' /\ Speaks'
    BY <1>1 DEF IInv, Echoes, Speaks, SpeaksAt
  <2> QED
    BY <2>1, <2>2
<1>4. Authentic' /\ Bound' /\ Unknown'
  <2>1. Top' = Top /\ \A t, q, x : Says(t, q, x)' <=> Says(t, q, x)
    BY <1>1 DEF Top, Ended, Says
  <2>2. Authentic'
    BY <1>1, <2>1 DEF IInv, Authentic
  <2>3. Bound'
    BY <1>1, <2>1 DEF IInv, Bound
  <2> QED
    BY <1>1, <2>2, <2>3 DEF IInv, Unknown
<1>5. Ahead' /\ Converges'
  <2>1. \A q : Solo(q)' <=> Solo(q)
    BY <1>1 DEF Solo
  <2>2. \A t, q, x : Says(t, q, x)' <=> Says(t, q, x)
    BY <1>1 DEF Says
  <2> QED
    BY <1>1, <2>1, <2>2 DEF IInv, Ahead, Converges
<1>6. Accounted'
  BY <1>1 DEF IInv, Accounted, WillRetract
<1> QED
  BY <1>2, <1>3, <1>4, <1>5, <1>6 DEF IInv

\* Whatever the pages and the server do, in whatever order the frames of the sockets
\* are received: what the pages hold, what the server remembers and what is on its way
\* agree in the twelve ways above.
THEOREM InductiveInvariant == Spec => []IInv
<1>1. IInv /\ [Next]_vars => IInv'
  BY NextIInv, StutterIInv
<1> QED
  BY InitIInv, <1>1, PTL DEF Spec

--------------------------------------------------------------------------------
(* What follows from it. *)

\* The clocks that TypeOK allows.
LEMMA ClocksBelow ==
  ASSUME IInv, NEW p \in Page, NEW q \in Page
  PROVE  /\ meta[p][q] \in Clock
         /\ \A n \in Nat : n <= meta[p][q] => n \in Clock
<1>1. meta[p][q] \in Nat /\ meta[p][q] <= Top
  BY DEF IInv, Shape, Bound
<1>2. /\ Top \in Nat /\ Top <= Max(Range(MaxMoves)) + 2 * Cardinality(Socket)
      /\ Max(Range(MaxMoves)) \in Nat /\ Cardinality(Socket) \in Nat
  BY TopFacts
<1> DEFINE m == Max(Range(MaxMoves))
           b == m + 2 * Cardinality(Socket)
<1>3. b \in Nat /\ Top <= b /\ Clock = 0..b
  BY <1>2 DEF Clock
<1> HIDE DEF b
<1> QED
  BY <1>1, <1>2, <1>3

LEMMA IsFrame ==
  ASSUME NEW f \in Message, \A q \in DOMAIN f : f[q].clock \in Clock
  PROVE  f \in Frame
<1>1. PICK S \in SUBSET Page : f \in [S -> Entry]
  BY DEF Message
<1>2. f \in [S -> [clock : Clock, here : BOOLEAN]]
  <2> SUFFICES ASSUME NEW q \in S
               PROVE  f[q] \in [clock : Clock, here : BOOLEAN]
    BY <1>1
  <2>1. f[q] \in Entry /\ f[q].clock \in Clock
    BY <1>1
  <2> QED
    BY <2>1 DEF Entry
<1> QED
  BY <1>2 DEF Frame

LEMMA SaidClocks ==
  ASSUME IInv, NEW t \in Socket, NEW q \in Page, NEW x \in Entry, Says(t, q, x)
  PROVE  x.clock \in Clock
<1>1. Shape /\ Opened /\ Ordered
  BY DEF IInv
<1>2. opener[t] \in Page /\ x.clock \in Nat /\ x.clock <= meta[opener[t]][q]
  BY <1>1, SaysBelow
<1> QED
  BY <1>2, ClocksBelow

LEMMA IInvType == IInv => TypeOK
<1> SUFFICES ASSUME IInv
             PROVE  TypeOK
  OBVIOUS
<1>1. Shape /\ Opened /\ Ordered
  BY DEF IInv
<1>2. ASSUME NEW t \in Socket
      PROVE  known[t] \in UNION {[S -> Clock] : S \in SUBSET Page}
  <2>1. PICK S \in SUBSET Page : known[t] \in [S -> Nat]
    BY <1>1 DEF Shape, Clocks
  <2>2. ASSUME NEW q \in S
        PROVE  known[t][q] \in Clock
    <3>1. opener[t] \in Page
      <4>1. pc[t] # "unused"
        BY <1>1, <2>1 DEF Opened, NoFrame
      <4> QED
        BY <1>1, <4>1 DEF Opened, Shape
    <3>2. known[t][q] \in Nat /\ Remembered(t)[q] = known[t][q]
      BY <1>1, <2>1, RememberedFacts
    <3>3. known[t][q] <= meta[opener[t]][q]
      BY <1>1, <3>1, <3>2 DEF Ordered, OrderedAt
    <3> QED
      BY <3>1, <3>2, <3>3, ClocksBelow
  <2>3. known[t] \in [S -> Clock]
    BY <2>1, <2>2
  <2> QED
    BY <2>3
<1>3. ASSUME NEW t \in Socket
      PROVE  last[t] \in Frame
  <2>1. last[t] \in Message
    BY <1>1 DEF Shape
  <2>2. ASSUME NEW q \in DOMAIN last[t]
        PROVE  last[t][q].clock \in Clock
    <3>1. q \in Page /\ last[t][q] \in Entry
      BY <2>1, MessageFacts
    <3>2. Says(t, q, last[t][q])
      BY DEF Says
    <3> QED
      BY <3>1, <3>2, SaidClocks
  <2> QED
    BY <2>1, <2>2, IsFrame
<1>4. ASSUME NEW t \in Socket
      PROVE  inbox[t] \in Seq(Frame)
  <2>1. inbox[t] \in Seq(Message)
    BY <1>1 DEF Shape
  <2>2. ASSUME NEW i \in DOMAIN inbox[t]
        PROVE  inbox[t][i] \in Frame
    <3>1. inbox[t][i] \in Message
      BY <2>1
    <3>2. ASSUME NEW q \in DOMAIN inbox[t][i]
          PROVE  inbox[t][i][q].clock \in Clock
      <4>1. q \in Page /\ inbox[t][i][q] \in Entry
        BY <3>1, MessageFacts
      <4>2. Says(t, q, inbox[t][i][q])
        BY DEF Says
      <4> QED
        BY <4>1, <4>2, SaidClocks
    <3> QED
      BY <3>1, <3>2, IsFrame
  <2> QED
    BY <2>1, <2>2
<1>5. meta \in [Page -> [Page -> Clock]]
  <2>1. \A p, q \in Page : meta[p][q] \in Clock
    BY ClocksBelow
  <2> QED
    BY <1>1, <2>1 DEF Shape
<1>6. /\ pc \in [Socket -> {"unused", "joining", "live", "leaving", "gone"}]
      /\ waiting \in Seq({s \in Socket : pc[s] \in {"joining", "leaving"}})
      /\ opener \in [Socket -> Page \cup {NoPage}] /\ at \in [Page -> Socket \cup {NoSocket}]
      /\ shown \in [Page -> SUBSET Page]
      /\ haunted \subseteq Page /\ reopened \subseteq Page /\ heard \in [Socket -> SUBSET Page]
  BY <1>1 DEF Shape
<1>7. /\ known \in [Socket -> UNION {[S -> Clock] : S \in SUBSET Page}]
      /\ last \in [Socket -> Frame] /\ inbox \in [Socket -> Seq(Frame)]
  <2>1. /\ known = [t \in Socket |-> known[t]] /\ last = [t \in Socket |-> last[t]]
        /\ inbox = [t \in Socket |-> inbox[t]]
    BY <1>1 DEF Shape
  <2>2. known \in [Socket -> UNION {[S -> Clock] : S \in SUBSET Page}]
    BY <1>2, <2>1, Zenon
  <2>3. last \in [Socket -> Frame]
    BY <1>3, <2>1
  <2>4. inbox \in [Socket -> Seq(Frame)]
    BY <1>4, <2>1
  <2> QED
    BY <2>2, <2>3, <2>4
<1> QED
  BY <1>5, <1>6, <1>7 DEF TypeOK

\* In a quiet state, a page that has a socket open is in the room with it, and nothing is
\* on its way from there.
LEMMA QuietAt ==
  ASSUME Shape, Quiet, NEW p \in Page, at[p] # NoSocket
  PROVE  at[p] \in Socket /\ pc[at[p]] = "live" /\ inbox[at[p]] = <<>>
<1>1. at[p] \in Socket /\ Attached(at[p])
  BY DEF Shape, Attached
<1> QED
  BY <1>1 DEF Quiet

LEMMA IInvDeparted == IInv => DepartedAreGone
<1> SUFFICES ASSUME IInv, Quiet, NEW p \in Page, NEW q \in Page,
                    p # q, q \in shown[p], Departed(q), q \notin haunted
             PROVE  FALSE
  BY DEF DepartedAreGone
<1>1. Shape /\ Opened /\ Shows /\ Accounted
  BY DEF IInv
<1>2. at[p] # NoSocket
  BY <1>1 DEF Shows
<1>3. at[p] \in Socket /\ pc[at[p]] = "live"
  BY <1>1, <1>2, QuietAt
<1>4. PICK t \in Socket : WillRetract(t, q, meta[p][q])
  BY <1>1, <1>2, <1>3 DEF Accounted
<1>5. Attached(t) /\ inbox[t] = <<>>
  BY <1>4 DEF Quiet, WillRetract
<1>6. PICK r \in Page : at[r] = t
  BY <1>5 DEF Attached
<1>7. t # NoSocket /\ opener[t] = r
  BY <1>1, <1>6, PresenceAssumption DEF Opened
<1>8. ~Retracts(inbox[t], q)
  BY <1>5, NoFrames
<1>9. r = q
  BY <1>4, <1>6, <1>7, <1>8 DEF WillRetract
<1> QED
  BY <1>6, <1>7, <1>9 DEF Departed

LEMMA IInvCursors == IInv => CursorsConverge
<1> SUFFICES ASSUME IInv, Quiet, NEW p \in Page, NEW q \in Page,
                    p # q, ~Departed(p), ~Departed(q), q \in heard[at[p]] \ reopened,
                    meta[q][q] > 0
             PROVE  q \in shown[p] /\ meta[p][q] = meta[q][q]
  BY DEF CursorsConverge
<1>1. Shape /\ Converges
  BY DEF IInv
<1>2. /\ at[p] # NoSocket /\ pc[at[p]] = "live"
      /\ at[q] # NoSocket /\ pc[at[q]] = "live" /\ inbox[at[q]] = <<>>
  BY <1>1, QuietAt DEF Departed
<1>3. Solo(q)
  BY <1>2 DEF Solo
<1>4. ~About(inbox[at[q]], q)
  BY <1>2, NoFrames
<1> QED
  BY <1>1, <1>2, <1>3, <1>4 DEF Converges

\* Every variable keeps its type, for any number of pages and sockets: no clock of a
\* client, and none of a frame, passes the moves of its page by more than two for each
\* socket that has ended, however the removals and the answers to them cross.
THEOREM TypeCorrect == Spec => []TypeOK
BY InductiveInvariant, IInvType, PTL

\* When nothing is on its way, no page shows a client that has left, unless a joining
\* socket was handed the frame of a socket that had announced its departure
\* (rooms.py: announce_departure, leave; main.py: the frames sent after join).
THEOREM DepartedGone == Spec => []DepartedAreGone
BY InductiveInvariant, IInvDeparted, PTL

\* When nothing is on its way, a page shows every connected client that it was sent a
\* frame of as the client is, unless the client's page has opened another socket.
THEOREM CursorsAgree == Spec => []CursorsConverge
BY InductiveInvariant, IInvCursors, PTL

================================================================================
