-------------------------------- MODULE Sessions -------------------------------
(***************************************************************************)
(* The sign-in of one browser tab (apps/client/src/tokens.ts, api.ts,      *)
(* state/auth.ts) and the refresh tokens the API honours                   *)
(* (apps/server/api/routers/auth.py, security.py).                         *)
(*                                                                         *)
(* A call that is answered 401 awaits the refresh in flight, starting one  *)
(* if there is none, and is sent again with the access token it brings.    *)
(* Meanwhile the user may sign out, sign in as someone else, or reload.    *)
(*                                                                         *)
(* A session is what one login created: its refresh token, and the access  *)
(* tokens made from it.  localStorage holds what the tab holds, so a       *)
(* reload starts from the same tokens; other tabs are not modelled.        *)
(***************************************************************************)
EXTENDS Naturals, Sequences

CONSTANTS
  Person,
  Nobody,        \* useAuth's user: null
  Call,          \* authenticated calls of the pages, each running one at a time
  InitMe,        \* api.me() of useAuth.init
  LoginMe,       \* api.me() of useAuth.login
  MaxLogins,     \* bound on the sessions created
  MaxLogouts     \* bound on the logouts awaited at once

ASSUME SessionsAssumption ==
  /\ Nobody \notin Person
  /\ InitMe # LoginMe /\ {InitMe, LoginMe} \cap Call = {}
  /\ {MaxLogins, MaxLogouts} \subseteq Nat

VARIABLES
  owner,         \* who each session is of, in the order of the logins
  valid,         \* the sessions whose jti is in Redis
  revoking,      \* sessions whose logout request the API has not handled yet
  tokens,        \* the session of the stored tokens
  refreshing,    \* the refresh in flight and what the API answered
  call,          \* where each request is, and the session of its access token
  login_at,      \* where useAuth.login is
  logging_out,   \* how many logout requests are awaited
  status, user,  \* useAuth
  overtaken      \* history: the last reply that set tokens or user was made for
                 \* another session than the one it met

api == <<owner, valid, revoking>>
auth == <<status, user>>
vars == <<api, tokens, refreshing, call, login_at, logging_out, auth, overtaken>>

NoSession == 0
Session == 1..Len(owner)
AnyCall == Call \cup {InitMe, LoginMe}

NoRefresh == [session |-> NoSession, answer |-> "none"]
Ended == [at |-> "ended", session |-> NoSession]
Sent(s) == [at |-> "sent", session |-> s]
Resent(s) == [at |-> "resent", session |-> s]

\* The first load: init finds no tokens.
Init ==
  /\ owner = <<>> /\ valid = {} /\ revoking = {}
  /\ tokens = NoSession
  /\ refreshing = NoRefresh
  /\ call = [k \in AnyCall |-> Ended]
  /\ login_at = "idle"
  /\ logging_out = 0
  /\ status = "anon" /\ user = Nobody
  /\ overtaken = FALSE

--------------------------------------------------------------------------------
(* The API. *)

\* The request arrives with the right password, and a jti goes into Redis.
LoginGranted(p) ==
  /\ login_at = "posted"
  /\ owner' = Append(owner, p)
  /\ valid' = valid \cup {Len(owner) + 1}
  /\ login_at' = "granted"
  /\ UNCHANGED <<revoking, tokens, refreshing, call, logging_out, auth, overtaken>>

RefreshAnswered ==
  /\ refreshing.answer = "pending"
  /\ refreshing' = [refreshing EXCEPT !.answer =
                      IF refreshing.session \in valid THEN "granted" ELSE "refused"]
  /\ UNCHANGED <<api, tokens, call, login_at, logging_out, auth, overtaken>>

Revoke(s) ==
  /\ s \in revoking
  /\ revoking' = revoking \ {s}
  /\ valid' = valid \ {s}
  /\ UNCHANGED <<owner, tokens, refreshing, call, login_at, logging_out, auth, overtaken>>

LogoutLost(s) ==
  /\ s \in revoking
  /\ revoking' = revoking \ {s}
  /\ UNCHANGED <<owner, valid, tokens, refreshing, call, login_at, logging_out, auth, overtaken>>

\* The key and the token expire together.
RefreshTokenExpires(s) ==
  /\ s \in valid
  /\ valid' = valid \ {s}
  /\ UNCHANGED <<owner, revoking, tokens, refreshing, call, login_at, logging_out, auth, overtaken>>

--------------------------------------------------------------------------------
(* Signing in and out. *)

\* The form shows whenever status is not "authed", also while init is loading.
Submit ==
  /\ status # "authed" /\ login_at = "idle" /\ Len(owner) < MaxLogins
  /\ login_at' = "posted"
  /\ UNCHANGED <<api, tokens, refreshing, call, logging_out, auth, overtaken>>

\* A wrong password, too many attempts, or no network.
LoginFails ==
  /\ login_at \in {"posted", "granted"}
  /\ login_at' = "idle"
  /\ UNCHANGED <<api, tokens, refreshing, call, logging_out, auth, overtaken>>

LoginReturns ==
  /\ login_at = "granted"
  /\ login_at' = "me"
  /\ tokens' = Len(owner)
  /\ call' = [call EXCEPT ![LoginMe] = Sent(Len(owner))]
  /\ overtaken' = (overtaken \/ status = "authed")
  /\ UNCHANGED <<api, refreshing, logging_out, auth>>

\* Also while another logout is awaited: a refresh may have brought the tokens back.
SignOut ==
  /\ status = "authed" /\ tokens # NoSession /\ logging_out < MaxLogouts
  /\ logging_out' = logging_out + 1
  /\ revoking' = revoking \cup {tokens}
  /\ tokens' = NoSession
  /\ UNCHANGED <<owner, valid, refreshing, call, login_at, auth, overtaken>>

Anonymous == status' = "anon" /\ user' = Nobody

\* Without tokens there is nothing to post.
SignOutAgain ==
  /\ status = "authed" /\ tokens = NoSession
  /\ Anonymous
  /\ UNCHANGED <<api, tokens, refreshing, call, login_at, logging_out, overtaken>>

\* With whatever answer, or none.
LogoutReturns ==
  /\ logging_out > 0
  /\ logging_out' = logging_out - 1
  /\ Anonymous
  /\ UNCHANGED <<api, tokens, refreshing, call, login_at, overtaken>>

\* The page starts again: what was in flight is nobody's any more.
Reload ==
  /\ refreshing' = NoRefresh
  /\ login_at' = "idle"
  /\ logging_out' = 0
  /\ user' = Nobody
  /\ overtaken' = FALSE
  /\ IF tokens = NoSession
     THEN status' = "anon" /\ call' = [k \in AnyCall |-> Ended]
     ELSE /\ status' = "loading"
          /\ call' = [k \in AnyCall |-> IF k = InitMe THEN Sent(tokens) ELSE Ended]
  /\ UNCHANGED <<api, tokens>>

--------------------------------------------------------------------------------
(* request and refreshAccessToken. *)

Request(k) ==
  /\ k \in Call /\ status = "authed" /\ call[k] = Ended
  /\ call' = [call EXCEPT ![k] = Sent(tokens)]
  /\ UNCHANGED <<api, tokens, refreshing, login_at, logging_out, auth, overtaken>>

StartRefresh ==
  refreshing' = IF refreshing = NoRefresh
                THEN [session |-> tokens, answer |-> "pending"] ELSE refreshing

\* getFreshAccessToken of an open document finds the access token old.
KeepFresh ==
  /\ status = "authed" /\ tokens # NoSession
  /\ StartRefresh
  /\ UNCHANGED <<api, tokens, call, login_at, logging_out, auth, overtaken>>

\* These calls throw: init catches, login passes it on to the form.
Fail(failed) ==
  /\ call' = [k \in AnyCall |-> IF k \in failed THEN Ended ELSE call[k]]
  /\ login_at' = IF LoginMe \in failed THEN "idle" ELSE login_at
  /\ IF InitMe \in failed THEN Anonymous ELSE UNCHANGED auth

\* api.me() answers: the tab shows who its access token is of.
Greet(k) ==
  /\ status' = "authed" /\ user' = owner[call[k].session]
  /\ overtaken' = (call[k].session # tokens)

Respond(k) ==
  /\ call[k].at \in {"sent", "resent"} /\ call[k].session # NoSession
  /\ call' = [call EXCEPT ![k] = Ended]
  /\ IF k \in Call THEN UNCHANGED <<auth, overtaken>> ELSE Greet(k)
  /\ login_at' = IF k = LoginMe THEN "idle" ELSE login_at
  /\ UNCHANGED <<api, tokens, refreshing, logging_out>>

\* Faulty variants: a refresh is started without tokens; every 401 is retried.
MutantUnauthorized(k) ==
  /\ call[k].at = "sent"
  /\ call' = [call EXCEPT ![k] = [at |-> "waiting", session |-> NoSession]]
  /\ StartRefresh
  /\ UNCHANGED <<api, tokens, login_at, logging_out, auth, overtaken>>

MutantRetry(k) ==
  /\ call[k].at \in {"sent", "resent"} /\ tokens # NoSession
  /\ call' = [call EXCEPT ![k] = [at |-> "waiting", session |-> NoSession]]
  /\ StartRefresh
  /\ UNCHANGED <<api, tokens, login_at, logging_out, auth, overtaken>>

\* Any access token may have expired; a request without one is refused as well.
Unauthorized(k) ==
  /\ call[k].at = "sent" /\ tokens # NoSession
  /\ call' = [call EXCEPT ![k] = [at |-> "waiting", session |-> NoSession]]
  /\ StartRefresh
  /\ UNCHANGED <<api, tokens, login_at, logging_out, auth, overtaken>>

\* No network, another error, a second 401, or a 401 when there are no tokens.
RequestFails(k) ==
  /\ call[k].at \in {"sent", "resent"}
  /\ Fail({k})
  /\ UNCHANGED <<api, tokens, refreshing, logging_out, overtaken>>

Waiting == {k \in AnyCall : call[k].at = "waiting"}

\* The tokens are stored and every call that waited is sent again.
RefreshSucceeds ==
  /\ refreshing.answer = "granted"
  /\ refreshing' = NoRefresh
  /\ tokens' = refreshing.session
  /\ call' = [k \in AnyCall |->
                IF k \in Waiting THEN Resent(refreshing.session) ELSE call[k]]
  /\ overtaken' = (overtaken \/ refreshing.session # tokens)
  /\ UNCHANGED <<api, login_at, logging_out, auth>>

\* Faulty variant: nobody is told that the session is over.
MutantSessionExpires ==
  /\ refreshing.answer = "refused"
  /\ refreshing' = NoRefresh
  /\ tokens' = NoSession
  /\ Fail(Waiting)
  /\ UNCHANGED <<api, logging_out, overtaken>>

\* 401: the tokens are dropped and onSessionExpired tells useAuth.
SessionExpires ==
  /\ refreshing.answer = "refused"
  /\ refreshing' = NoRefresh
  /\ tokens' = NoSession
  /\ call' = [k \in AnyCall |-> IF k \in Waiting THEN Ended ELSE call[k]]
  /\ login_at' = IF LoginMe \in Waiting THEN "idle" ELSE login_at
  /\ Anonymous
  /\ UNCHANGED <<api, logging_out, overtaken>>

\* Faulty variant: any failure drops the tokens.
MutantRefreshFails ==
  /\ refreshing.answer # "none"
  /\ refreshing' = NoRefresh
  /\ tokens' = NoSession
  /\ Fail(Waiting)
  /\ UNCHANGED <<api, logging_out, overtaken>>

\* Network trouble or a server error, before or after the API answered.
RefreshFails ==
  /\ refreshing.answer # "none"
  /\ refreshing' = NoRefresh
  /\ Fail(Waiting)
  /\ UNCHANGED <<api, tokens, logging_out, overtaken>>

--------------------------------------------------------------------------------

Next ==
  \/ \E p \in Person : LoginGranted(p)
  \/ \E s \in Session : Revoke(s) \/ LogoutLost(s) \/ RefreshTokenExpires(s)
  \/ Submit \/ LoginFails \/ LoginReturns
  \/ SignOut \/ SignOutAgain \/ LogoutReturns \/ Reload
  \/ \E k \in AnyCall :
       Request(k) \/ Respond(k) \/ Unauthorized(k) \/ RequestFails(k)
  \/ KeepFresh \/ RefreshAnswered
  \/ RefreshSucceeds \/ SessionExpires \/ RefreshFails

Spec == Init /\ [][Next]_vars

\* A fetch ends in an answer or an error.
Fairness ==
  /\ WF_vars(\E p \in Person : LoginGranted(p) \/ LoginReturns \/ LoginFails)
  /\ WF_vars(LogoutReturns)
  /\ WF_vars(RefreshSucceeds \/ SessionExpires \/ RefreshFails)
  /\ \A k \in AnyCall : WF_vars(Respond(k) \/ Unauthorized(k) \/ RequestFails(k))

FairSpec == Spec /\ Fairness

--------------------------------------------------------------------------------
(* Properties. *)

\* Every variable keeps its type.
TypeOK ==
  /\ owner \in Seq(Person) /\ Len(owner) <= MaxLogins
  /\ valid \subseteq Session /\ revoking \subseteq Session
  /\ tokens \in Session \cup {NoSession}
  /\ logging_out \in 0..MaxLogouts
  /\ refreshing \in [session : Session, answer : {"pending", "granted", "refused"}]
                      \cup {NoRefresh}
  /\ call \in [AnyCall -> [at : {"ended", "sent", "waiting", "resent"},
                           session : Session \cup {NoSession}]]
  /\ login_at \in {"idle", "posted", "granted", "me"}
  /\ status \in {"loading", "authed", "anon"}
  /\ user \in Person \cup {Nobody}
  /\ overtaken \in BOOLEAN

\* A signed-in tab shows the person its requests are made for, unless it is being
\* signed out: through refreshes, failures and reloads, and unless a reply met
\* another session than it was asked for (useAuth, refreshAccessToken).
UserMatchesTokens ==
  status = "authed" /\ ~overtaken =>
    \/ tokens # NoSession /\ user = owner[tokens]
    \/ tokens = NoSession /\ logging_out > 0

\* Tokens are dropped only by the user, who then has them revoked, or because the API
\* no longer honours the refresh token that was sent: never by network trouble
\* (api.logout, refreshAccessToken).
SessionEndsForCause ==
  [][tokens # NoSession /\ tokens' = NoSession =>
       \/ logging_out' = logging_out + 1 /\ tokens \in revoking'
       \/ refreshing.session \notin valid]_vars

NotReloadedForEver == <>[][~Reload]_vars

\* Every call ends, also one that waits for a refresh that fails.
CallsEnd ==
  NotReloadedForEver => \A k \in AnyCall : call[k] # Ended ~> call[k] = Ended

================================================================================
