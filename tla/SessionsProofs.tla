----------------------------- MODULE SessionsProofs ----------------------------
(***************************************************************************)
(* Theorems of Sessions, for any number of persons, logins and calls.      *)
(***************************************************************************)
EXTENDS Sessions, TLAPS

\* A login that is posted has room below the bound, one that is granted exists.
LoginCounted ==
  /\ login_at = "posted" => Len(owner) < MaxLogins
  /\ login_at = "granted" => Len(owner) # 0

\* A refresh that the API refused was for a session it does not honour, and never
\* will again: a new login has a new token (create_refresh_token).
RefusedIsOver == refreshing.answer = "refused" => refreshing.session \notin valid

IInv == TypeOK /\ LoginCounted /\ RefusedIsOver /\ UserMatchesTokens

--------------------------------------------------------------------------------
(* Type correctness. *)

LEMMA TypeInit == Init => TypeOK /\ LoginCounted
<1> SUFFICES ASSUME Init PROVE TypeOK /\ LoginCounted
  OBVIOUS
<1>1. owner \in Seq(Person) /\ Len(owner) = 0 /\ Len(owner) <= MaxLogins
  BY SessionsAssumption DEF Init
<1>2. call \in [AnyCall -> [at : {"ended", "sent", "waiting", "resent"},
                           session : Session \cup {NoSession}]]
  BY DEF Init, Ended
<1>3. logging_out \in 0..MaxLogouts
  BY SessionsAssumption DEF Init
<1> QED
  BY <1>1, <1>2, <1>3 DEF Init, TypeOK, LoginCounted

\* Steps that leave the list of logins alone leave Session alone.
LEMMA SameSessions == UNCHANGED owner => Session' = Session
BY DEF Session

\* LoginGranted: the new session is one more.
LEMMA NewSession ==
  ASSUME owner \in Seq(Person), NEW p \in Person, owner' = Append(owner, p)
  PROVE  /\ owner' \in Seq(Person) /\ Len(owner') = Len(owner) + 1
         /\ Session \subseteq Session' /\ Len(owner) + 1 \in Session'
         /\ Len(owner) + 1 \notin Session
         /\ \A s \in Session : owner'[s] = owner[s]
BY DEF Session

\* Fail ends the calls it is given and touches nothing else but useAuth.
LEMMA FailType ==
  ASSUME TypeOK, NEW failed, Fail(failed), Session' = Session
  PROVE  /\ call' \in [AnyCall -> [at : {"ended", "sent", "waiting", "resent"},
                                   session : Session' \cup {NoSession}]]
         /\ login_at' \in {"idle", login_at}
         /\ status' \in {"loading", "authed", "anon"} /\ user' \in Person \cup {Nobody}
BY DEF TypeOK, Fail, Anonymous, Ended, auth

LEMMA TypeStep ==
  ASSUME TypeOK, LoginCounted, [Next]_vars
  PROVE  TypeOK' /\ LoginCounted'
<1> USE SessionsAssumption
<1>1. ASSUME NEW p \in Person, LoginGranted(p)
      PROVE  TypeOK' /\ LoginCounted'
  <2> USE <1>1 DEF LoginGranted, TypeOK, LoginCounted
  <2>1. owner' = Append(owner, p)
    OBVIOUS
  <2>2. /\ owner' \in Seq(Person) /\ Len(owner') = Len(owner) + 1
        /\ Session \subseteq Session' /\ Len(owner) + 1 \in Session'
    BY <2>1, NewSession
  <2>3. Len(owner') <= MaxLogins /\ Len(owner') # 0
    BY <2>2
  <2> QED
    BY <2>2, <2>3 DEF auth
<1>2. ASSUME NEW s \in Session,
             Revoke(s) \/ LogoutLost(s) \/ RefreshTokenExpires(s)
      PROVE  TypeOK' /\ LoginCounted'
  BY <1>2, SameSessions
     DEF Revoke, LogoutLost, RefreshTokenExpires, TypeOK, LoginCounted, auth
<1>3. CASE Submit \/ LoginFails
  BY <1>3, SameSessions DEF Submit, LoginFails, TypeOK, LoginCounted, api, auth
<1>4. CASE LoginReturns
  <2>1. Session' = Session /\ Len(owner) \in Session
    BY <1>4, SameSessions DEF LoginReturns, TypeOK, LoginCounted, Session, api
  <2> QED
    BY <1>4, <2>1 DEF LoginReturns, TypeOK, LoginCounted, api, auth, Sent
<1>5. CASE SignOut \/ SignOutAgain \/ LogoutReturns
  <2>1. logging_out' \in 0..MaxLogouts
    BY <1>5 DEF SignOut, SignOutAgain, LogoutReturns, TypeOK
  <2>2. Session' = Session /\ UNCHANGED <<owner, valid, refreshing, call, login_at, overtaken>>
    BY <1>5, SameSessions DEF SignOut, SignOutAgain, LogoutReturns, api
  <2>3. revoking' \subseteq Session /\ tokens' \in Session \cup {NoSession}
    BY <1>5 DEF SignOut, SignOutAgain, LogoutReturns, TypeOK, api
  <2>4. status' \in {"loading", "authed", "anon"} /\ user' \in Person \cup {Nobody}
    BY <1>5 DEF SignOut, SignOutAgain, LogoutReturns, Anonymous, TypeOK, auth
  <2>5. LoginCounted'
    BY <2>2 DEF LoginCounted
  <2>6. /\ owner' \in Seq(Person) /\ Len(owner') <= MaxLogins
        /\ valid' \subseteq Session' /\ revoking' \subseteq Session'
        /\ tokens' \in Session' \cup {NoSession}
    BY <2>2, <2>3 DEF TypeOK
  <2>7. /\ refreshing' \in [session : Session', answer : {"pending", "granted", "refused"}]
                             \cup {NoRefresh}
        /\ call' \in [AnyCall -> [at : {"ended", "sent", "waiting", "resent"},
                                  session : Session' \cup {NoSession}]]
    BY <2>2 DEF TypeOK
  <2>8. login_at' \in {"idle", "posted", "granted", "me"} /\ overtaken' \in BOOLEAN
    BY <2>2 DEF TypeOK
  <2> QED
    BY <2>1, <2>4, <2>5, <2>6, <2>7, <2>8 DEF TypeOK
<1>6. CASE Reload
  <2>1. Session' = Session /\ tokens \in Session \cup {NoSession}
    BY <1>6, SameSessions DEF Reload, TypeOK, api
  <2>2. call' \in [AnyCall -> [at : {"ended", "sent", "waiting", "resent"},
                               session : Session' \cup {NoSession}]]
    BY <1>6, <2>1 DEF Reload, Ended, Sent
  <2>3. logging_out' \in 0..MaxLogouts
    BY <1>6 DEF Reload
  <2>4. /\ refreshing' = NoRefresh /\ login_at' = "idle" /\ overtaken' \in BOOLEAN
        /\ status' \in {"loading", "authed", "anon"} /\ user' \in Person \cup {Nobody}
        /\ UNCHANGED <<owner, valid, revoking, tokens>>
    BY <1>6 DEF Reload, api
  <2> QED
    BY <2>1, <2>2, <2>3, <2>4 DEF TypeOK, LoginCounted
<1>7. ASSUME NEW k \in AnyCall, Request(k) \/ Unauthorized(k)
      PROVE  TypeOK' /\ LoginCounted'
  BY <1>7, SameSessions
     DEF Request, Unauthorized, StartRefresh, TypeOK, LoginCounted, api, auth, Sent
<1>8. ASSUME NEW k \in AnyCall, Respond(k)
      PROVE  TypeOK' /\ LoginCounted'
  <2>1. call[k].session \in Session
    BY <1>8 DEF Respond, TypeOK
  <2>2. owner[call[k].session] \in Person
    BY <2>1 DEF TypeOK, Session
  <2> QED
    BY <1>8, <2>2, SameSessions
       DEF Respond, Greet, TypeOK, LoginCounted, api, auth, Ended
<1>9. ASSUME NEW k \in AnyCall, RequestFails(k)
      PROVE  TypeOK' /\ LoginCounted'
  <2>1. Session' = Session /\ Fail({k})
    BY <1>9, SameSessions DEF RequestFails, api
  <2> QED
    BY <1>9, <2>1, FailType DEF RequestFails, TypeOK, LoginCounted, api
<1>10. CASE KeepFresh \/ RefreshAnswered
  BY <1>10, SameSessions
     DEF KeepFresh, StartRefresh, RefreshAnswered, TypeOK, LoginCounted, api, auth, NoRefresh
<1>11. CASE RefreshSucceeds
  BY <1>11, SameSessions
     DEF RefreshSucceeds, TypeOK, LoginCounted, api, auth, Resent, NoRefresh
<1>12. CASE SessionExpires
  BY <1>12, SameSessions
     DEF SessionExpires, Anonymous, TypeOK, LoginCounted, api, Ended
<1>13. CASE RefreshFails
  <2>1. Session' = Session /\ Fail(Waiting)
    BY <1>13, SameSessions DEF RefreshFails, api
  <2> QED
    BY <1>13, <2>1, FailType DEF RefreshFails, TypeOK, LoginCounted, api
<1>14. CASE UNCHANGED vars
  BY <1>14, SameSessions DEF vars, TypeOK, LoginCounted, api, auth
<1> QED
  BY <1>1, <1>2, <1>3, <1>4, <1>5, <1>6, <1>7, <1>8, <1>9, <1>10, <1>11, <1>12,
     <1>13, <1>14 DEF Next


\* Every variable of Sessions keeps its type, and at most MaxLogins sessions are
\* made, whatever calls, logins and reloads overlap.
THEOREM TypeCorrect == Spec => []TypeOK
<1>1. TypeOK /\ LoginCounted /\ [Next]_vars => (TypeOK /\ LoginCounted)'
  BY TypeStep
<1> QED
  BY TypeInit, <1>1, PTL DEF Spec

--------------------------------------------------------------------------------
(* Refused refreshes. *)

LEMMA RefusedStep ==
  ASSUME TypeOK, RefusedIsOver, [Next]_vars
  PROVE  RefusedIsOver'
<1>1. ASSUME NEW p \in Person, LoginGranted(p)
      PROVE  RefusedIsOver'
  <2>1. refreshing.answer = "refused" => refreshing.session \in Session
    BY DEF TypeOK, NoRefresh
  <2>2. Len(owner) + 1 \notin Session
    BY DEF TypeOK, Session
  <2> QED
    BY <1>1, <2>1, <2>2 DEF LoginGranted, RefusedIsOver
<1>2. ASSUME NEW s \in Session,
             Revoke(s) \/ LogoutLost(s) \/ RefreshTokenExpires(s)
      PROVE  RefusedIsOver'
  BY <1>2 DEF Revoke, LogoutLost, RefreshTokenExpires, RefusedIsOver
<1>3. CASE Submit \/ LoginFails \/ LoginReturns \/ SignOut \/ SignOutAgain \/ LogoutReturns
  BY <1>3 DEF Submit, LoginFails, LoginReturns, SignOut, SignOutAgain, LogoutReturns,
              RefusedIsOver, api
<1>4. CASE Reload \/ RefreshSucceeds \/ SessionExpires \/ RefreshFails
  BY <1>4 DEF Reload, RefreshSucceeds, SessionExpires, RefreshFails, NoRefresh, RefusedIsOver
<1>5. ASSUME NEW k \in AnyCall,
             Request(k) \/ Respond(k) \/ RequestFails(k)
      PROVE  RefusedIsOver'
  BY <1>5 DEF Request, Respond, RequestFails, RefusedIsOver, api
<1>6. ASSUME NEW k \in AnyCall, Unauthorized(k)
      PROVE  RefusedIsOver'
  BY <1>6 DEF Unauthorized, StartRefresh, RefusedIsOver, api
<1>7. CASE KeepFresh
  BY <1>7 DEF KeepFresh, StartRefresh, RefusedIsOver, api
<1>8. CASE RefreshAnswered
  <2>1. refreshing \in [session : Session, answer : {"pending", "granted", "refused"}]
    BY <1>8 DEF RefreshAnswered, TypeOK, NoRefresh
  <2> QED
    BY <1>8, <2>1 DEF RefreshAnswered, RefusedIsOver, api
<1>9. CASE UNCHANGED vars
  BY <1>9 DEF vars, RefusedIsOver, api
<1> QED
  BY <1>1, <1>2, <1>3, <1>4, <1>5, <1>6, <1>7, <1>8, <1>9 DEF Next

--------------------------------------------------------------------------------
(* Who is signed in. *)

LEMMA UserStep ==
  ASSUME TypeOK, LoginCounted, UserMatchesTokens, [Next]_vars
  PROVE  UserMatchesTokens'
<1> USE DEF UserMatchesTokens
<1>1. ASSUME NEW p \in Person, LoginGranted(p)
      PROVE  UserMatchesTokens'
  <2>1. \A s \in Session : owner'[s] = owner[s]
    BY <1>1, NewSession DEF LoginGranted, TypeOK
  <2>2. tokens # NoSession => owner'[tokens] = owner[tokens]
    BY <2>1 DEF TypeOK
  <2> QED
    BY <1>1, <2>2 DEF LoginGranted, auth
<1>2. ASSUME NEW s \in Session,
             Revoke(s) \/ LogoutLost(s) \/ RefreshTokenExpires(s)
      PROVE  UserMatchesTokens'
  BY <1>2 DEF Revoke, LogoutLost, RefreshTokenExpires, auth
<1>3. CASE Submit \/ LoginFails
  BY <1>3 DEF Submit, LoginFails, api, auth
<1>4. CASE LoginReturns
  BY <1>4 DEF LoginReturns, api, auth, TypeOK
<1>5. CASE SignOut
  BY <1>5 DEF SignOut, auth, TypeOK
<1>6. CASE SignOutAgain \/ LogoutReturns
  BY <1>6 DEF SignOutAgain, LogoutReturns, Anonymous
<1>7. CASE Reload
  BY <1>7 DEF Reload
<1>8. ASSUME NEW k \in AnyCall, Request(k) \/ Unauthorized(k)
      PROVE  UserMatchesTokens'
  BY <1>8 DEF Request, Unauthorized, api, auth
<1>9. ASSUME NEW k \in AnyCall, Respond(k)
      PROVE  UserMatchesTokens'
  BY <1>9 DEF Respond, Greet, api, auth
<1>10. ASSUME NEW k \in AnyCall, RequestFails(k)
      PROVE  UserMatchesTokens'
  BY <1>10 DEF RequestFails, Fail, Anonymous, api, auth
<1>11. CASE KeepFresh \/ RefreshAnswered
  BY <1>11 DEF KeepFresh, RefreshAnswered, api, auth
<1>12. CASE RefreshSucceeds
  BY <1>12 DEF RefreshSucceeds, api, auth, TypeOK
<1>13. CASE SessionExpires
  BY <1>13 DEF SessionExpires, Anonymous
<1>14. CASE RefreshFails
  BY <1>14 DEF RefreshFails, Fail, Anonymous, api, auth
<1>15. CASE UNCHANGED vars
  BY <1>15 DEF vars, api, auth
<1> QED
  BY <1>1, <1>2, <1>3, <1>4, <1>5, <1>6, <1>7, <1>8, <1>9, <1>10, <1>11, <1>12,
     <1>13, <1>14, <1>15 DEF Next

\* The inductive invariant of the results below.
THEOREM InductiveInvariant == Spec => []IInv
<1>1. Init => IInv
  BY TypeInit DEF Init, IInv, RefusedIsOver, UserMatchesTokens, NoRefresh
<1>2. IInv /\ [Next]_vars => IInv'
  BY TypeStep, RefusedStep, UserStep DEF IInv
<1> QED
  BY <1>1, <1>2, PTL DEF Spec

\* A signed-in tab shows the person its requests are made for, for any number of
\* calls and logins (useAuth, request, refreshAccessToken).
THEOREM RightUserShown == Spec => []UserMatchesTokens
<1>1. IInv => UserMatchesTokens
  BY DEF IInv
<1> QED
  BY InductiveInvariant, <1>1, PTL

--------------------------------------------------------------------------------
(* What ends a session. *)

LEMMA CauseStep ==
  ASSUME TypeOK, LoginCounted, RefusedIsOver, [Next]_vars,
         tokens # NoSession, tokens' = NoSession
  PROVE  \/ logging_out' = logging_out + 1 /\ tokens \in revoking'
         \/ refreshing.session \notin valid
<1>1. ASSUME NEW p \in Person, LoginGranted(p)
      PROVE  FALSE
  BY <1>1 DEF LoginGranted
<1>2. ASSUME NEW s \in Session,
             Revoke(s) \/ LogoutLost(s) \/ RefreshTokenExpires(s)
      PROVE  FALSE
  BY <1>2 DEF Revoke, LogoutLost, RefreshTokenExpires
<1>3. CASE Submit \/ LoginFails \/ SignOutAgain \/ LogoutReturns \/ Reload
  BY <1>3 DEF Submit, LoginFails, SignOutAgain, LogoutReturns, Reload
<1>4. CASE LoginReturns
  BY <1>4 DEF LoginReturns, LoginCounted, NoSession
<1>5. CASE SignOut
  BY <1>5 DEF SignOut
<1>6. ASSUME NEW k \in AnyCall,
             Request(k) \/ Respond(k) \/ Unauthorized(k) \/ RequestFails(k)
      PROVE  FALSE
  BY <1>6 DEF Request, Respond, Unauthorized, RequestFails
<1>7. CASE KeepFresh \/ RefreshAnswered \/ RefreshFails
  BY <1>7 DEF KeepFresh, RefreshAnswered, RefreshFails
<1>8. CASE RefreshSucceeds
  <2>1. refreshing.session \in Session
    BY <1>8 DEF RefreshSucceeds, TypeOK, NoRefresh
  <2> QED
    BY <1>8, <2>1 DEF RefreshSucceeds, Session, NoSession
<1>9. CASE SessionExpires
  BY <1>9 DEF SessionExpires, RefusedIsOver
<1>10. CASE UNCHANGED vars
  BY <1>10 DEF vars
<1> QED
  BY <1>1, <1>2, <1>3, <1>4, <1>5, <1>6, <1>7, <1>8, <1>9, <1>10 DEF Next

\* A tab drops its tokens only when the user signs out or the API no longer
\* honours the refresh token it was sent, never for network trouble.
THEOREM NoSessionLost == Spec => SessionEndsForCause
<1>1. IInv /\ [Next]_vars =>
        [tokens # NoSession /\ tokens' = NoSession =>
           \/ logging_out' = logging_out + 1 /\ tokens \in revoking'
           \/ refreshing.session \notin valid]_vars
  BY CauseStep DEF IInv
<1> QED
  BY InductiveInvariant, <1>1, PTL DEF Spec, SessionEndsForCause

================================================================================
