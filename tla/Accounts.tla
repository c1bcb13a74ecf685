-------------------------------- MODULE Accounts -------------------------------
(***************************************************************************)
(* Accounts and the login limiter (apps/server/api/routers/auth.py:        *)
(* register, login; security.py: enforce_rate_limit, clear_rate_limit,     *)
(* create_refresh_token; models.py: User).                                 *)
(*                                                                         *)
(* An address is looked up in lower case, while the unique index is on     *)
(* the e-mail as it was written, and the lookup comes before the insert.   *)
(* The limiter counts with INCR and starts the window with an EXPIRE of    *)
(* its own; a login clears the counter.  Every await lets other requests   *)
(* in, and a request may fail at any of them.                              *)
(***************************************************************************)
EXTENDS Naturals, FiniteSets

CONSTANTS
  Email,         \* e-mails as they are written
  Address,       \* ... and in lower case
  lower,
  Request,       \* slots for requests in progress
  Limit,         \* 10 in login
  MaxRequests,   \* bound on the requests
  MaxFailures    \* bound on failures of Postgres, of Redis and of the process

ASSUME AccountsAssumption ==
  /\ lower \in [Email -> Address]
  /\ Limit \in Nat \ {0} /\ MaxRequests \in Nat /\ MaxFailures \in Nat

VARIABLES
  users,         \* the e-mails of the rows of users
  count,         \* the counter ratelimit:login:..., 0 when there is no key
  expiring,      \* the counters with a time to live
  request,       \* the requests in progress
  begun,         \* requests so far
  failures,      \* failures so far
  raced,         \* history: addresses registered by two requests at a time
  endless        \* history: addresses whose EXPIRE was never sent

redis == <<count, expiring>>
history == <<raced, endless>>
vars == <<users, redis, request, begun, failures, history>>

\* A login knows the password of the row it finds, or not.
Register == [op : {"register"}, email : Email]
Login    == [op : {"login"}, email : Email, right : BOOLEAN]
Free     == [pc |-> "free"]

Place == {"lookup", "insert", "incr", "expire", "find", "clear", "token"}

Init ==
  /\ users = {}
  /\ count = [a \in Address |-> 0]
  /\ expiring = {}
  /\ request = [q \in Request |-> Free]
  /\ begun = 0 /\ failures = 0
  /\ raced = {} /\ endless = {}

--------------------------------------------------------------------------------

At(q, place) == request[q].pc = place

Go(q, place) == request' = [request EXCEPT ![q].pc = place]

Finish(q) == request' = [request EXCEPT ![q] = Free]

Of(q) == lower[request[q].call.email]

\* func.lower(User.email) == payload.email.lower()
Rows(a) == {e \in users : lower[e] = a}

Begin(q, call) ==
  /\ At(q, "free") /\ begun < MaxRequests
  /\ begun' = begun + 1
  /\ request' = [request EXCEPT ![q] =
       [pc |-> IF call.op = "register" THEN "lookup" ELSE "incr", call |-> call]]
  /\ UNCHANGED <<users, redis, failures, history>>

--------------------------------------------------------------------------------
(* register *)

\* Faulty variant: the e-mail is compared as it is written.
MutantLookup(q) ==
  /\ At(q, "lookup")
  /\ IF request[q].call.email \notin users THEN Go(q, "insert") ELSE Finish(q)
  /\ raced' = raced \cup
       {Of(r) : r \in {r \in Request \ {q} : At(r, "insert") /\ Of(r) = Of(q)}}
  /\ UNCHANGED <<users, redis, begun, failures, endless>>

\* One row is answered 409; scalar_one_or_none raises on more.
Lookup(q) ==
  /\ At(q, "lookup")
  /\ IF Rows(Of(q)) = {} THEN Go(q, "insert") ELSE Finish(q)
  /\ raced' = raced \cup
       {Of(r) : r \in {r \in Request \ {q} : At(r, "insert") /\ Of(r) = Of(q)}}
  /\ UNCHANGED <<users, redis, begun, failures, endless>>

\* The commit; the unique index refuses an e-mail that has a row.
Insert(q) ==
  /\ At(q, "insert")
  /\ users' = users \cup {request[q].call.email}
  /\ Finish(q)
  /\ UNCHANGED <<redis, begun, failures, history>>

--------------------------------------------------------------------------------
(* login *)

\* enforce_rate_limit: redis.incr, and 429 above the limit.
Incr(q) ==
  LET n == count[Of(q)] + 1
  IN /\ At(q, "incr")
     /\ count' = [count EXCEPT ![Of(q)] = n]
     /\ \/ n = 1 /\ Go(q, "expire")
        \/ n > 1 /\ n <= Limit /\ Go(q, "find")
        \/ n > Limit /\ Finish(q)
     /\ UNCHANGED <<users, expiring, begun, failures, history>>

\* Faulty variant: the counter is read again before the window starts.
MutantExpire(q) ==
  /\ At(q, "expire")
  /\ expiring' = expiring \cup {a \in {Of(q)} : count[a] = 1}
  /\ Go(q, "find")
  /\ UNCHANGED <<users, count, begun, failures, history>>

\* redis.expire, which does nothing when the key is gone; Limit is at least 1.
Expire(q) ==
  /\ At(q, "expire")
  /\ expiring' = expiring \cup {a \in {Of(q)} : count[a] > 0}
  /\ Go(q, "find")
  /\ UNCHANGED <<users, count, begun, failures, history>>

\* 401 without a row or with the wrong password; two rows raise.
Find(q) ==
  /\ At(q, "find")
  /\ IF Cardinality(Rows(Of(q))) = 1 /\ request[q].call.right THEN Go(q, "clear")
     ELSE Finish(q)
  /\ UNCHANGED <<users, redis, begun, failures, history>>

Delete(a) ==
  /\ count' = [count EXCEPT ![a] = 0]
  /\ expiring' = expiring \ {a}
  /\ endless' = endless \ {a}

\* Faulty variant: a login takes its own attempt back.
MutantClear(q) ==
  /\ At(q, "clear")
  /\ count' = [count EXCEPT ![Of(q)] = @ - 1]
  /\ Go(q, "token")
  /\ UNCHANGED <<users, expiring, begun, failures, history>>

\* clear_rate_limit
Clear(q) ==
  /\ At(q, "clear")
  /\ Delete(Of(q))
  /\ Go(q, "token")
  /\ UNCHANGED <<users, begun, failures, raced>>

\* create_refresh_token; the session it starts is Sessions.tla's.
CreateToken(q) ==
  /\ At(q, "token")
  /\ Finish(q)
  /\ UNCHANGED <<users, redis, begun, failures, history>>

\* Redis drops the key when its time is up.
WindowEnds(a) ==
  /\ a \in expiring
  /\ Delete(a)
  /\ UNCHANGED <<users, request, begun, failures, raced>>

\* A call to Postgres or Redis raises, or the process ends.
Fails(q) ==
  /\ ~At(q, "free") /\ failures < MaxFailures
  /\ failures' = failures + 1
  /\ endless' = endless \cup {a \in {Of(q)} : At(q, "expire")}
  /\ Finish(q)
  /\ UNCHANGED <<users, redis, begun, raced>>

--------------------------------------------------------------------------------

Step(q) ==
  Lookup(q) \/ Insert(q) \/ Incr(q) \/ Expire(q) \/ Find(q) \/ Clear(q) \/ CreateToken(q)

Next ==
  \/ \E q \in Request :
       \/ \E call \in Register \cup Login : Begin(q, call)
       \/ Step(q)
       \/ Fails(q)
  \/ \E a \in Address : WindowEnds(a)

Spec == Init /\ [][Next]_vars

\* Postgres and Redis answer, and Redis expires keys; nobody need send a request.
Fairness ==
  /\ \A q \in Request : WF_vars(Step(q))
  /\ \A a \in Address : WF_vars(WindowEnds(a))

FairSpec == Spec /\ Fairness

--------------------------------------------------------------------------------
(* Properties. *)

\* Every variable keeps its type.
TypeOK ==
  /\ users \subseteq Email
  /\ count \in [Address -> 0..MaxRequests] /\ expiring \subseteq Address
  /\ \A q \in Request :
       request[q] = Free \/ request[q] \in [pc : Place, call : Register \cup Login]
  /\ begun \in 0..MaxRequests /\ failures \in 0..MaxFailures
  /\ raced \subseteq Address /\ endless \subseteq Address

\* An address has one account, whatever case its e-mails are written in, unless two
\* requests registered it at the same time; with two rows, every lookup of the
\* address raises from then on, in register, login and grant_permission.
OneAccountPerAddress ==
  \A a \in Address : Cardinality(Rows(a)) > 1 => a \in raced

\* enforce_rate_limit: "please try again shortly".  A counter above the limit is
\* dropped, however logins that clear it, windows that end and the two calls that
\* start a window interleave; unless the second of these was never made.
LockoutEnds ==
  \A a \in Address : (count[a] > Limit) ~> (count[a] = 0 \/ a \in endless)

================================================================================
