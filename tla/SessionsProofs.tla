---------------------------- MODULE SessionsProofs ----------------------------
(***************************************************************************)
(* What holds of sessions and refresh tokens for any number of users,      *)
(* devices, tokens and concurrent requests.                                *)
(***************************************************************************)
EXTENDS Sessions, TLAPS

LEMMA ChosenIds ==
    /\ NoJob \in Job
    /\ AnySid \in Sid /\ AnyJti \in Jti
  BY SessionsAssumption DEF NoJob, Job, AnySid, AnyJti

LEMMA NextJtiIsNew ==
    ASSUME NEW t \in Jti, ~Issued(t)
    PROVE  NextJti \in Jti /\ ~Issued(NextJti)
  BY DEF NextJti

LEMMA AddTokenTypes ==
    ASSUME TypeOK, NEW x \in Sid, AddToken(x)
    PROVE  /\ NextJti \in Jti /\ ~Issued(NextJti)
           /\ token' = [token EXCEPT ![NextJti] = [status |-> "live", sid |-> x]]
           /\ token' \in [Jti -> [status : {"unused", "live", "revoked", "deleted"}, sid : Sid]]
  <1>1. NextJti \in Jti /\ ~Issued(NextJti)
    BY NextJtiIsNew DEF AddToken
  <1> QED
    BY <1>1 DEF AddToken, TypeOK

\* The end of a request leaves its variables well typed.
LEMMA CloseTypes ==
    ASSUME TypeOK, NEW r \in Request, Close(r)
    PROVE  /\ pc' \in [Request -> {"idle", "open session", "lock token", "revoke",
                                   "check session", "issue", "touch", "authenticated",
                                   "end sessions", "end tokens"}]
           /\ job' \in [Request -> Job]
           /\ pc'[r] = "idle"
           /\ \A q \in Request : q # r => pc'[q] = pc[q] /\ job'[q] = job[q]
  BY ChosenIds DEF TypeOK, Close, Goto

LEMMA RollbackTypes ==
    ASSUME TypeOK, NEW r \in Request, Rollback(r)
    PROVE  TypeOK'
  BY CloseTypes DEF TypeOK, Rollback, clock

LEMMA TypeInit == Init => TypeOK
  BY ChosenIds DEF Init, TypeOK

\* A request that begins to end sessions or tokens.
LEMMA BeginEndingTypes ==
    ASSUME TypeOK, NEW r \in Request, NEW j \in Job, BeginEnding(r, j)
    PROVE  TypeOK'
  BY DEF TypeOK, BeginEnding, Goto, clock

LEMMA TypeStep == TypeOK /\ [Next]_vars => TypeOK'
  <1> SUFFICES ASSUME TypeOK, [Next]_vars PROVE TypeOK'
    OBVIOUS
  <1> USE ChosenIds
  <1>1. ASSUME NEW r \in Request, BeginLogin(r) PROVE TypeOK'
    <2>1. PICK u \in User : job' = [job EXCEPT ![r] = [NoJob EXCEPT !.user = u]]
      BY <1>1 DEF BeginLogin
    <2>2. [NoJob EXCEPT !.user = u] \in Job
      BY DEF Job
    <2> QED
      BY <1>1, <2>1, <2>2 DEF TypeOK, BeginLogin, Goto, clock
  <1>2. ASSUME NEW r \in Request, OpenSession(r) PROVE TypeOK'
    <2> DEFINE x == CHOOSE x \in Unopened(job[r].user) : TRUE
    <2>1. x \in Sid /\ session' = [session EXCEPT ![x] = "active"] /\ AddToken(x)
      BY <1>2 DEF OpenSession, Unopened
    <2>2. session' \in [Sid -> {"unused", "active", "inactive", "deleted"}]
      BY <2>1 DEF TypeOK
    <2>3. token' \in [Jti -> [status : {"unused", "live", "revoked", "deleted"}, sid : Sid]]
      BY <2>1, AddTokenTypes
    <2>4. Close(r) /\ UNCHANGED <<expired, enabled>>
      BY <1>2 DEF OpenSession, clock
    <2> QED
      BY <2>2, <2>3, <2>4, CloseTypes DEF TypeOK
  <1>3. ASSUME NEW r \in Request, BeginRefresh(r) PROVE TypeOK'
    <2>1. PICK t \in Jti :
            job' = [job EXCEPT ![r] = [NoJob EXCEPT !.jti = t, !.sid = SessionOf(t)]]
      BY <1>3 DEF BeginRefresh
    <2>2. [NoJob EXCEPT !.jti = t, !.sid = SessionOf(t)] \in Job
      BY DEF Job, TypeOK, SessionOf
    <2> QED
      BY <1>3, <2>1, <2>2 DEF TypeOK, BeginRefresh, Goto, clock
  <1>4. ASSUME NEW r \in Request, LockToken(r) PROVE TypeOK'
    BY <1>4, RollbackTypes DEF TypeOK, LockToken, Goto, clock
  <1>5. ASSUME NEW r \in Request, RevokeToken(r) PROVE TypeOK'
    <2>1. job[r].jti \in Jti
      BY DEF TypeOK, Job
    <2>2. token' \in [Jti -> [status : {"unused", "live", "revoked", "deleted"}, sid : Sid]]
      <3>1. token[job[r].jti] \in [status : {"unused", "live", "revoked", "deleted"}, sid : Sid]
        BY <2>1 DEF TypeOK
      <3>2. [token[job[r].jti] EXCEPT !.status = "revoked"]
              \in [status : {"unused", "live", "revoked", "deleted"}, sid : Sid]
        BY <3>1
      <3>3. token' = [token EXCEPT ![job[r].jti] = [token[job[r].jti] EXCEPT !.status = "revoked"]]
        BY <1>5 DEF RevokeToken
      <3> QED
        BY <3>2, <3>3 DEF TypeOK
    <2> QED
      BY <1>5, <2>2 DEF TypeOK, RevokeToken, Goto, clock
  <1>6. ASSUME NEW r \in Request, CheckSession(r) PROVE TypeOK'
    BY <1>6, RollbackTypes DEF TypeOK, CheckSession, Goto, clock
  <1>7. ASSUME NEW r \in Request, IssueTokens(r) PROVE TypeOK'
    <2>1. job[r].sid \in Sid
      BY DEF TypeOK, Job
    <2> QED
      BY <1>7, <2>1, AddTokenTypes, CloseTypes DEF TypeOK, IssueTokens, clock
  <1>8. ASSUME NEW r \in Request, Authenticate(r) PROVE TypeOK'
    <2>1. PICK x \in Sid : job' = [job EXCEPT ![r] = [NoJob EXCEPT !.sid = x]]
      BY <1>8 DEF Authenticate
    <2>2. [NoJob EXCEPT !.sid = x] \in Job
      BY DEF Job
    <2> QED
      BY <1>8, <2>1, <2>2 DEF TypeOK, Authenticate, Goto, clock
  <1>9. ASSUME NEW r \in Request, Touch(r) PROVE TypeOK'
    <2>1. CASE Rollback(r)
      BY <2>1, RollbackTypes
    <2>2. CASE ~Rollback(r)
      <3>1. job[r].sid \in Sid /\ [NoJob EXCEPT !.user = UserOf[job[r].sid]] \in Job
        BY SessionsAssumption DEF TypeOK, Job
      <3>2. /\ session' = [session EXCEPT ![job[r].sid] = session[job[r].sid]]
            /\ job' = [job EXCEPT ![r] = [NoJob EXCEPT !.user = UserOf[job[r].sid]]]
            /\ pc' = [pc EXCEPT ![r] = "authenticated"]
            /\ UNCHANGED <<token, expired, enabled>>
        BY <1>9, <2>2 DEF Touch, Touched, Goto, clock
      <3> QED
        BY <3>1, <3>2 DEF TypeOK
    <2> QED
      BY <2>1, <2>2
  <1>10. ASSUME NEW r \in Request, Serve(r) PROVE TypeOK'
    BY <1>10, RollbackTypes DEF Serve
  <1>11. ASSUME NEW r \in Request, BeginLogout(r) PROVE TypeOK'
    <2>1. PICK t \in Jti : BeginEnding(r, [NoJob EXCEPT !.kind = "logout",
                                            !.sid = SessionOf(t), !.seen = {t}])
      BY <1>11 DEF BeginLogout
    <2>2. [NoJob EXCEPT !.kind = "logout", !.sid = SessionOf(t), !.seen = {t}] \in Job
      BY DEF Job, TypeOK, SessionOf, Ending
    <2> QED
      BY <2>1, <2>2, BeginEndingTypes
  <1>12. ASSUME NEW r \in Request, BeginLogoutAll(r) PROVE TypeOK'
    <2>1. [NoJob EXCEPT !.kind = "logout all", !.user = job[r].user,
             !.seen = {t \in Jti : Live(t) /\ Owner(t) = job[r].user}] \in Job
      BY DEF Job, TypeOK, Ending
    <2> QED
      BY <1>12, <2>1, BeginEndingTypes DEF BeginLogoutAll
  <1>13. ASSUME NEW r \in Request, BeginRevokeSession(r) PROVE TypeOK'
    <2>1. \A x \in Sid : [NoJob EXCEPT !.kind = "revoke session", !.sid = x] \in Job
      BY DEF Job, Ending
    <2> QED
      BY <1>13, <2>1, BeginEndingTypes DEF BeginRevokeSession
  <1>14. ASSUME NEW r \in Request, BeginReset(r) PROVE TypeOK'
    <2>1. \A u \in User : [NoJob EXCEPT !.kind = "reset", !.user = u] \in Job
      BY DEF Job, Ending
    <2> QED
      BY <1>14, <2>1, BeginEndingTypes DEF BeginReset
  <1>15. ASSUME NEW r \in Request, EndSessions(r) PROVE TypeOK'
    <2>1. CASE Rollback(r)
      BY <2>1, RollbackTypes
    <2>2. CASE ~Rollback(r)
      <3>1. ToEnd(job[r]) \in SUBSET Sid
        BY DEF ToEnd
      <3>2. [job[r] EXCEPT !.ending = ToEnd(job[r])] \in Job
        BY <3>1 DEF TypeOK, Job
      <3>3. /\ job' = [job EXCEPT ![r] = [job[r] EXCEPT !.ending = ToEnd(job[r])]]
            /\ pc' = [pc EXCEPT ![r] = "end tokens"]
            /\ UNCHANGED <<session, token, expired, enabled>>
        BY <1>15, <2>2 DEF EndSessions, Goto, clock
      <3> QED
        BY <3>2, <3>3 DEF TypeOK
    <2> QED
      BY <2>1, <2>2
  <1>16. ASSUME NEW r \in Request, EndTokens(r) PROVE TypeOK'
    <2>1. CASE Rollback(r)
      BY <2>1, RollbackTypes
    <2>2. CASE ~Rollback(r)
      <3>1. /\ session' = [x \in Sid |-> IF x \in job[r].ending THEN "inactive"
                                                                 ELSE session[x]]
            /\ token' = [t \in Jti |-> IF t \in ToRevoke(job[r])
                                       THEN [token[t] EXCEPT !.status = "revoked"] ELSE token[t]]
            /\ Close(r) /\ UNCHANGED <<expired, enabled>>
        BY <1>16, <2>2 DEF EndTokens, clock
      <3>2. session' \in [Sid -> {"unused", "active", "inactive", "deleted"}]
        BY <3>1 DEF TypeOK
      <3>3. token' \in [Jti -> [status : {"unused", "live", "revoked", "deleted"}, sid : Sid]]
        BY <3>1 DEF TypeOK
      <3> QED
        BY <3>1, <3>2, <3>3, CloseTypes DEF TypeOK
    <2> QED
      BY <2>1, <2>2
  <1>17. CASE Environment
    <2>1. CASE CleanUp
      <3>1. session' \in [Sid -> {"unused", "active", "inactive", "deleted"}]
        BY <2>1 DEF TypeOK, CleanUp, Gone
      <3>2. token' \in [Jti -> [status : {"unused", "live", "revoked", "deleted"}, sid : Sid]]
        BY <2>1 DEF TypeOK, CleanUp, Gone
      <3> QED
        BY <2>1, <3>1, <3>2 DEF TypeOK, CleanUp, clock
    <2>2. ASSUME NEW x \in Sid, SessionExpires(x) PROVE TypeOK'
      BY <2>2 DEF TypeOK, SessionExpires
    <2>3. ASSUME NEW t \in Jti, TokenExpires(t) PROVE TypeOK'
      BY <2>3 DEF TypeOK, TokenExpires
    <2>4. ASSUME NEW u \in User, SetActive(u) PROVE TypeOK'
      BY <2>4 DEF TypeOK, SetActive
    <2> QED
      BY <1>17, <2>1, <2>2, <2>3, <2>4 DEF Environment
  <1>18. CASE UNCHANGED vars
    BY <1>18 DEF TypeOK, vars
  <1>19. ASSUME NEW r \in Request, LockTimeout(r) \/ WorkerDies(r) PROVE TypeOK'
    BY <1>19, RollbackTypes DEF LockTimeout, WorkerDies
  <1> QED
    BY <1>1, <1>2, <1>3, <1>4, <1>5, <1>6, <1>7, <1>8, <1>9, <1>10, <1>11, <1>12, <1>13,
       <1>14, <1>15, <1>16, <1>17, <1>18, <1>19
    DEF Next, Begin, Run

\* Every variable keeps its type.
THEOREM TypeCorrect == Spec => []TypeOK
  BY TypeInit, TypeStep, PTL DEF Spec

-------------------------------------------------------------------------------
(* The inductive invariant. *)

Rotating(r) == pc[r] \in {"check session", "issue"}
EndsAll(j) == j.kind \in {"logout all", "reset"}
\* The user whose sessions an ending request is about.
UserEnded(j) == IF EndsAll(j) THEN j.user ELSE UserOf[j.sid]

\* What is issued belongs to a session that was opened; only such rows expire.
IssuedInSession ==
    /\ \A t \in Jti : Issued(t) => session[SessionOf(t)] # "unused"
    /\ \A t \in expired.jti : Issued(t)
    /\ \A x \in expired.sid : session[x] # "unused"

\* The token of a request is the one the client presented; once it holds the
\* lock the token is live, and while it rotates its session has no live token.
RotationOwn(r) ==
    /\ pc[r] \in {"lock token", "revoke"} =>
          Issued(job[r].jti) /\ job[r].sid = SessionOf(job[r].jti)
    /\ pc[r] = "revoke" => Live(job[r].jti)
    /\ Rotating(r) =>
          /\ session[job[r].sid] # "unused"
          /\ \A t \in Jti : Live(t) => SessionOf(t) # job[r].sid

\* What a request ends belongs to its user and has existed; a logout of all
\* devices has the session of every token it saw, or it is over already.
EndingOwn(r) ==
    /\ pc[r] \in {"end sessions", "end tokens"} =>
          \A t \in job[r].seen : Issued(t) /\ Owner(t) = UserEnded(job[r])
    /\ pc[r] = "end tokens" =>
          /\ \A x \in job[r].ending : session[x] # "unused" /\ UserOf[x] = UserEnded(job[r])
          /\ job[r].kind = "logout all" =>
                \A t \in job[r].seen :
                    SessionOf(t) \in job[r].ending \/ session[SessionOf(t)] # "active"

\* The token lock keeps two requests from rotating in the same session.
RotatingApart(r, q) ==
    /\ pc[r] = "revoke" /\ pc[q] = "revoke" => job[r].jti # job[q].jti
    /\ Rotating(r) /\ Rotating(q) => job[r].sid # job[q].sid

Requests ==
    /\ \A r \in Request : RotationOwn(r) /\ EndingOwn(r)
    /\ \A r, q \in Request : r # q => RotatingApart(r, q)

Inv == TypeOK /\ OneLiveTokenPerSession /\ IssuedInSession /\ Requests

\* Rows only move on: an issued token stays in its session, a session that
\* was opened is never active again once it is not.
Advance ==
    /\ \A t \in Jti : Issued(t) => Issued(t)' /\ SessionOf(t)' = SessionOf(t)
    /\ \A x \in Sid : session[x] # "unused" =>
          /\ session'[x] # "unused"
          /\ session'[x] = "active" => session[x] = "active"

LEMMA InvInit == Init => Inv
  <1> SUFFICES ASSUME Init PROVE Inv
    OBVIOUS
  <1>1. \A r \in Request : pc[r] = "idle"
    BY DEF Init
  <1>2. \A t \in Jti : ~Issued(t) /\ ~Live(t)
    BY DEF Init, Issued, Live
  <1>3. expired.sid = {} /\ expired.jti = {}
    BY DEF Init
  <1> QED
    BY <1>1, <1>2, <1>3, TypeInit
    DEF Inv, OneLiveTokenPerSession, IssuedInSession, Requests, RotationOwn, EndingOwn,
        RotatingApart, Rotating

\* A request that neither rotates nor ends anything satisfies its part.
LEMMA IdleOwn ==
    ASSUME NEW r \in Request, pc'[r] \in {"idle", "open session", "touch", "authenticated"}
    PROVE  /\ RotationOwn(r)' /\ EndingOwn(r)'
           /\ \A q \in Request : RotatingApart(r, q)' /\ RotatingApart(q, r)'
  BY DEF RotationOwn, EndingOwn, RotatingApart, Rotating

\* What a step of another request must leave alone.
LEMMA OthersOwn ==
    ASSUME Inv, Advance, NEW q \in Request, pc'[q] = pc[q], job'[q] = job[q],
           pc[q] = "revoke" => Live(job[q].jti)',
           Rotating(q) => \A t \in Jti : Live(t)' => SessionOf(t)' # job[q].sid
    PROVE  RotationOwn(q)' /\ EndingOwn(q)'
  <1>1. job[q] \in Job
    BY DEF Inv, TypeOK
  <1>2. job[q].jti \in Jti /\ job[q].sid \in Sid /\ job[q].seen \subseteq Jti
        /\ job[q].ending \subseteq Sid
    BY <1>1 DEF Job
  <1>3. RotationOwn(q) /\ EndingOwn(q)
    BY DEF Inv, Requests
  <1>4. \A t \in Jti : SessionOf(t) \in Sid
    BY DEF Inv, TypeOK, SessionOf
  <1>5. RotationOwn(q)'
    BY <1>2, <1>3 DEF RotationOwn, Rotating, Advance
  <1>6. \A t \in Jti : Issued(t) => Owner(t)' = Owner(t)
    BY DEF Advance, Owner
  <1>7. pc[q] \in {"end sessions", "end tokens"} =>
          \A t \in job[q].seen : Issued(t)' /\ Owner(t)' = UserEnded(job[q])
    BY <1>2, <1>3, <1>6 DEF EndingOwn, Advance
  <1>8. pc[q] = "end tokens" =>
          /\ \A x \in job[q].ending : session'[x] # "unused" /\ UserOf[x] = UserEnded(job[q])
          /\ job[q].kind = "logout all" =>
                \A t \in job[q].seen :
                    SessionOf(t)' \in job[q].ending \/ session'[SessionOf(t)'] # "active"
    <2>1. ASSUME pc[q] = "end tokens", NEW t \in job[q].seen
          PROVE  SessionOf(t)' = SessionOf(t) /\ session[SessionOf(t)] # "unused"
      BY <2>1, <1>2, <1>3 DEF EndingOwn, Advance, Inv, IssuedInSession
    <2> QED
      BY <2>1, <1>2, <1>3, <1>4 DEF EndingOwn, Advance
  <1>9. UserEnded(job[q])' = UserEnded(job[q])
    BY DEF UserEnded, EndsAll
  <1> QED
    BY <1>5, <1>7, <1>8, <1>9 DEF EndingOwn

\* A step of r that changes no row: only r's part is to be shown again.
LEMMA QuietStep ==
    ASSUME Inv, NEW r \in Request, UNCHANGED <<session, token, expired>>,
           \A q \in Request : q # r => pc'[q] = pc[q] /\ job'[q] = job[q],
           RotationOwn(r)', EndingOwn(r)',
           \A q \in Request : q # r => RotatingApart(r, q)' /\ RotatingApart(q, r)'
    PROVE  OneLiveTokenPerSession' /\ IssuedInSession' /\ Requests'
  <1>1. Advance
    BY DEF Advance, Issued, SessionOf
  <1>2. \A t \in Jti : Live(t)' = Live(t) /\ SessionOf(t)' = SessionOf(t) /\ Issued(t)' = Issued(t)
    BY DEF Live, SessionOf, Issued
  <1>3. OneLiveTokenPerSession' /\ IssuedInSession'
    BY DEF Inv, OneLiveTokenPerSession, IssuedInSession, Live, SessionOf, Issued
  <1>4. ASSUME NEW q \in Request, q # r PROVE RotationOwn(q)' /\ EndingOwn(q)'
    <2>1. job[q].jti \in Jti
      BY DEF Inv, TypeOK, Job
    <2>2. RotationOwn(q)
      BY DEF Inv, Requests
    <2>3. pc[q] = "revoke" => Live(job[q].jti)'
      BY <2>2, <1>4 DEF RotationOwn, Live
    <2>4. Rotating(q) => \A t \in Jti : Live(t)' => SessionOf(t)' # job[q].sid
      BY <2>2, <1>2 DEF RotationOwn
    <2> QED
      BY <1>1, <1>4, <2>3, <2>4, OthersOwn
  <1>5. ASSUME NEW p \in Request, NEW q \in Request, p # q, p # r, q # r
        PROVE  RotatingApart(p, q)'
    <2>1. RotatingApart(p, q)
      BY <1>5 DEF Inv, Requests
    <2>2. pc'[p] = pc[p] /\ pc'[q] = pc[q] /\ job'[p] = job[p] /\ job'[q] = job[q]
      BY <1>5
    <2> QED
      BY <2>1, <2>2 DEF RotatingApart, Rotating
  <1> QED
    BY <1>3, <1>4, <1>5 DEF Requests

LEMMA RollbackStep ==
    ASSUME Inv, NEW r \in Request, Rollback(r)
    PROVE  OneLiveTokenPerSession' /\ IssuedInSession' /\ Requests'
  <1>1. pc'[r] = "idle" /\ \A q \in Request : q # r => pc'[q] = pc[q] /\ job'[q] = job[q]
    BY CloseTypes DEF Inv, Rollback
  <1> QED
    BY <1>1, IdleOwn, QuietStep DEF Rollback, clock

\* A step that changes rows and at the end of which r is idle.
LEMMA ClosingStep ==
    ASSUME Inv, Advance, NEW r \in Request, Close(r),
           \A q \in Request : q # r => (pc[q] = "revoke" => Live(job[q].jti)'),
           \A q \in Request : q # r /\ Rotating(q) =>
               \A t \in Jti : Live(t)' => SessionOf(t)' # job[q].sid
    PROVE  Requests'
  <1>1. pc'[r] = "idle" /\ \A q \in Request : q # r => pc'[q] = pc[q] /\ job'[q] = job[q]
    BY CloseTypes DEF Inv
  <1>2. ASSUME NEW q \in Request, q # r PROVE RotationOwn(q)' /\ EndingOwn(q)'
    BY <1>1, <1>2, OthersOwn
  <1>3. ASSUME NEW p \in Request, NEW q \in Request, p # q, p # r, q # r
        PROVE  RotatingApart(p, q)'
    <2>1. RotatingApart(p, q)
      BY <1>3 DEF Inv, Requests
    <2>2. pc'[p] = pc[p] /\ pc'[q] = pc[q] /\ job'[p] = job[p] /\ job'[q] = job[q]
      BY <1>1, <1>3
    <2> QED
      BY <2>1, <2>2 DEF RotatingApart, Rotating
  <1> QED
    BY <1>1, <1>2, <1>3, IdleOwn DEF Requests

\* A new token comes to a session that has no live one, and none in rotation
\* except the rotation that ends with this step.
LEMMA AddTokenStep ==
    ASSUME Inv, NEW r \in Request, NEW x \in Sid, AddToken(x), Close(r),
           UNCHANGED expired,
           \/ session[x] = "unused" /\ session' = [session EXCEPT ![x] = "active"]
           \/ pc[r] = "issue" /\ job[r].sid = x /\ UNCHANGED session
    PROVE  OneLiveTokenPerSession' /\ IssuedInSession' /\ Requests'
  <1>1. /\ NextJti \in Jti /\ ~Issued(NextJti)
        /\ token' = [token EXCEPT ![NextJti] = [status |-> "live", sid |-> x]]
    BY AddTokenTypes DEF Inv
  <1>2. \A t \in Jti : t # NextJti => token'[t] = token[t]
    BY <1>1 DEF Inv, TypeOK
  <1>3. token'[NextJti] = [status |-> "live", sid |-> x]
    BY <1>1 DEF Inv, TypeOK
  <1>4. \A t \in Jti : Live(t) => SessionOf(t) # x
    <2>1. CASE session[x] = "unused"
      BY <2>1 DEF Inv, IssuedInSession, Live, Issued
    <2>2. CASE pc[r] = "issue" /\ job[r].sid = x
      BY <2>2 DEF Inv, Requests, RotationOwn, Rotating
    <2> QED
      BY <2>1, <2>2
  <1>5. session'[x] # "unused" /\ \A y \in Sid : session[y] # "unused" => session'[y] = session[y]
    BY DEF Inv, TypeOK, Requests, RotationOwn, Rotating
  <1>6. OneLiveTokenPerSession'
    BY <1>2, <1>3, <1>4 DEF Inv, OneLiveTokenPerSession, Live, SessionOf
  <1>7. IssuedInSession'
    <2>1. \A t \in Jti : Issued(t)' => session'[SessionOf(t)'] # "unused"
      <3> SUFFICES ASSUME NEW t \in Jti, Issued(t)' PROVE session'[SessionOf(t)'] # "unused"
        OBVIOUS
      <3>1. CASE t = NextJti
        BY <1>3, <1>5, <3>1 DEF SessionOf
      <3>2. CASE t # NextJti
        <4>1. Issued(t) /\ SessionOf(t)' = SessionOf(t) /\ SessionOf(t) \in Sid
          BY <1>2, <3>2 DEF Inv, TypeOK, Issued, SessionOf
        <4> QED
          BY <1>5, <4>1 DEF Inv, IssuedInSession
      <3> QED
        BY <3>1, <3>2
    <2>2. \A t \in expired.jti : t \in Jti /\ Issued(t)'
      <3>1. \A t \in Jti : Issued(t) => Issued(t)'
        BY <1>1, <1>2 DEF Issued
      <3>2. expired.jti \subseteq Jti
        BY DEF Inv, TypeOK
      <3> QED
        BY <3>1, <3>2 DEF Inv, IssuedInSession
    <2>3. \A y \in expired.sid : session'[y] # "unused"
      BY <1>5 DEF Inv, TypeOK, IssuedInSession
    <2> QED
      BY <2>1, <2>2, <2>3 DEF IssuedInSession
  <1>8. Advance
    BY <1>1, <1>2, <1>5 DEF Advance, Issued, SessionOf
  <1>9. ASSUME NEW q \in Request, q # r, pc[q] = "revoke" PROVE Live(job[q].jti)'
    <2>1. job[q].jti \in Jti /\ Live(job[q].jti) /\ job'[q] = job[q]
      BY <1>9, CloseTypes DEF Inv, TypeOK, Job, Requests, RotationOwn
    <2> QED
      BY <1>1, <1>2, <2>1 DEF Live, Issued
  <1>10. ASSUME NEW q \in Request, q # r, Rotating(q), NEW t \in Jti, Live(t)'
         PROVE  SessionOf(t)' # job[q].sid
    <2>1. RotationOwn(q) /\ RotatingApart(r, q)
      BY <1>10 DEF Inv, Requests
    <2>2. CASE t = NextJti
      <3>1. SessionOf(t)' = x
        BY <1>3, <2>2 DEF SessionOf
      <3>2. CASE session[x] = "unused"
        BY <1>10, <2>1, <3>1, <3>2 DEF RotationOwn
      <3>3. CASE pc[r] = "issue" /\ job[r].sid = x
        BY <1>10, <2>1, <3>1, <3>3 DEF RotatingApart, Rotating
      <3> QED
        BY <3>2, <3>3
    <2>3. CASE t # NextJti
      BY <1>2, <1>10, <2>1, <2>3 DEF RotationOwn, Live, SessionOf
    <2> QED
      BY <2>2, <2>3
  <1> QED
    BY <1>6, <1>7, <1>8, <1>9, <1>10, ClosingStep

\* Tokens leave the live ones, sessions become inactive or are deleted.
LEMMA FewerLive ==
    ASSUME Inv, UNCHANGED expired,
           \A t \in Jti : /\ SessionOf(t)' = SessionOf(t)
                          /\ Issued(t) => Issued(t)'
                          /\ Live(t)' => Live(t)
                          /\ Issued(t)' => Issued(t),
           \A x \in Sid : /\ session[x] # "unused" => session'[x] # "unused"
                          /\ session'[x] = "active" => session[x] = "active"
    PROVE  Advance /\ OneLiveTokenPerSession' /\ IssuedInSession'
  <1>1. Advance
    BY DEF Advance
  <1>2. OneLiveTokenPerSession'
    BY DEF Inv, OneLiveTokenPerSession
  <1>3. \A t \in Jti : Issued(t)' => session'[SessionOf(t)'] # "unused"
    BY DEF Inv, TypeOK, IssuedInSession, SessionOf
  <1>4. \A t \in expired.jti : Issued(t)'
    BY DEF Inv, TypeOK, IssuedInSession
  <1>5. \A x \in expired.sid : session'[x] # "unused"
    BY DEF Inv, TypeOK, IssuedInSession
  <1> QED
    BY <1>1, <1>2, <1>3, <1>4, <1>5 DEF IssuedInSession

LEMMA RevokeTokenStep ==
    ASSUME Inv, NEW r \in Request, RevokeToken(r)
    PROVE  OneLiveTokenPerSession' /\ IssuedInSession' /\ Requests'
  <1> DEFINE t == job[r].jti
  <1>1. /\ t \in Jti /\ Live(t) /\ Issued(t)
        /\ job[r].sid = SessionOf(t) /\ session[job[r].sid] # "unused"
    BY DEF RevokeToken, Inv, TypeOK, Job, Requests, RotationOwn, IssuedInSession
  <1>2. token'[t].status = "revoked" /\ token'[t].sid = token[t].sid
    BY <1>1 DEF RevokeToken, Inv, TypeOK
  <1>3. \A s \in Jti : s # t => token'[s] = token[s]
    BY <1>1 DEF RevokeToken, Inv, TypeOK
  <1>4. \A s \in Jti : /\ SessionOf(s)' = SessionOf(s)
                       /\ Issued(s) => Issued(s)'
                       /\ Live(s)' => Live(s) /\ s # t
                       /\ Issued(s)' => Issued(s)
    BY <1>1, <1>2, <1>3 DEF SessionOf, Issued, Live
  <1>5. UNCHANGED <<session, expired, job>>
    BY DEF RevokeToken, clock
  <1>6. Advance /\ OneLiveTokenPerSession' /\ IssuedInSession'
    BY <1>4, <1>5, FewerLive
  <1>7. pc'[r] = "check session" /\ \A q \in Request : q # r => pc'[q] = pc[q]
    BY DEF RevokeToken, Goto, Inv, TypeOK
  <1>8. \A s \in Jti : Live(s)' => SessionOf(s)' # job[r].sid
    BY <1>1, <1>4 DEF Inv, OneLiveTokenPerSession
  <1>9. RotationOwn(r)' /\ EndingOwn(r)'
    BY <1>1, <1>5, <1>7, <1>8 DEF RotationOwn, EndingOwn, Rotating
  <1>10. ASSUME NEW q \in Request, q # r
         PROVE  /\ RotationOwn(q)' /\ EndingOwn(q)'
                /\ RotatingApart(r, q)' /\ RotatingApart(q, r)'
    <2>1. RotationOwn(q) /\ RotatingApart(r, q) /\ pc'[q] = pc[q] /\ job'[q] = job[q]
          /\ job[q].jti \in Jti
      BY <1>5, <1>7, <1>10 DEF Inv, Requests, TypeOK, Job
    <2>2. pc[q] = "revoke" => Live(job[q].jti)'
      <3> SUFFICES ASSUME pc[q] = "revoke" PROVE Live(job[q].jti)'
        OBVIOUS
      <3>1. job[q].jti # t /\ Live(job[q].jti)
        BY <2>1 DEF RotatingApart, RotationOwn, RevokeToken
      <3> QED
        BY <1>3, <2>1, <3>1 DEF Live
    <2>3. Rotating(q) => \A s \in Jti : Live(s)' => SessionOf(s)' # job[q].sid
      BY <1>4, <2>1 DEF RotationOwn
    <2>4. Rotating(q) => job[q].sid # job[r].sid
      BY <1>1, <2>1 DEF RotationOwn
    <2>5. RotationOwn(q)' /\ EndingOwn(q)'
      BY <1>6, <2>1, <2>2, <2>3, OthersOwn
    <2> QED
      BY <1>5, <1>7, <2>1, <2>4, <2>5 DEF RotatingApart, Rotating
  <1>11. ASSUME NEW p \in Request, NEW q \in Request, p # q, p # r, q # r
         PROVE  RotatingApart(p, q)'
    <2>1. RotatingApart(p, q)
      BY <1>11 DEF Inv, Requests
    <2> QED
      BY <1>5, <1>7, <1>11, <2>1 DEF RotatingApart, Rotating
  <1> QED
    BY <1>6, <1>9, <1>10, <1>11 DEF Requests

LEMMA EndTokensStep ==
    ASSUME Inv, NEW r \in Request, EndTokens(r)
    PROVE  OneLiveTokenPerSession' /\ IssuedInSession' /\ Requests'
  <1>1. CASE Rollback(r)
    BY <1>1, RollbackStep
  <1>2. CASE ~Rollback(r)
    <2> DEFINE j == job[r]
    <2>1. /\ session' = [x \in Sid |-> IF x \in j.ending THEN "inactive" ELSE session[x]]
          /\ token' = [t \in Jti |-> IF t \in ToRevoke(j)
                                     THEN [token[t] EXCEPT !.status = "revoked"] ELSE token[t]]
          /\ Close(r) /\ UNCHANGED expired
          /\ pc[r] = "end tokens"
          /\ \A t \in ToRevoke(j) : ~TokenLocked(t)
      BY <1>2 DEF EndTokens, clock
    <2>2. \A t \in ToRevoke(j) : Issued(t)
      <3>1. EndingOwn(r)
        BY DEF Inv, Requests
      <3> QED
        BY <2>1, <3>1 DEF ToRevoke, EndingOwn, Issued, Live
    <2>3. \A t \in Jti : /\ SessionOf(t)' = SessionOf(t)
                         /\ Issued(t) => Issued(t)'
                         /\ Live(t)' => Live(t)
                         /\ Issued(t)' => Issued(t)
      BY <2>1, <2>2 DEF Inv, TypeOK, SessionOf, Issued, Live
    <2>4. \A x \in Sid : /\ session[x] # "unused" => session'[x] # "unused"
                         /\ session'[x] = "active" => session[x] = "active"
      BY <2>1
    <2>5. Advance /\ OneLiveTokenPerSession' /\ IssuedInSession'
      BY <2>1, <2>3, <2>4, FewerLive
    <2>6. ASSUME NEW q \in Request, q # r, pc[q] = "revoke" PROVE Live(job[q].jti)'
      <3>1. job[q].jti \in Jti /\ Live(job[q].jti) /\ job'[q] = job[q]
        BY <2>1, <2>6, CloseTypes DEF Inv, TypeOK, Job, Requests, RotationOwn
      <3>2. TokenLocked(job[q].jti)
        BY <2>6 DEF TokenLocked
      <3>3. token'[job[q].jti] = token[job[q].jti]
        BY <2>1, <3>1, <3>2
      <3> QED
        BY <3>1, <3>3 DEF Live
    <2>7. ASSUME NEW q \in Request, Rotating(q), NEW t \in Jti, Live(t)'
          PROVE  SessionOf(t)' # job[q].sid
      BY <2>3, <2>7 DEF Inv, Requests, RotationOwn
    <2> QED
      BY <2>1, <2>5, <2>6, <2>7, ClosingStep
  <1> QED
    BY <1>1, <1>2

LEMMA CleanUpStep ==
    ASSUME Inv, CleanUp
    PROVE  OneLiveTokenPerSession' /\ IssuedInSession' /\ Requests'
  <1>1. UNCHANGED <<expired, pc, job>>
    BY DEF CleanUp, clock
  <1>2. \A t \in expired.jti : t \in Jti /\ Issued(t) /\ ~TokenLocked(t)
    BY DEF CleanUp, Inv, TypeOK, IssuedInSession
  <1>3. \A t \in Jti : /\ SessionOf(t)' = SessionOf(t)
                       /\ Issued(t) => Issued(t)'
                       /\ Live(t)' => Live(t)
                       /\ Issued(t)' => Issued(t)
    BY <1>2 DEF CleanUp, Gone, Inv, TypeOK, SessionOf, Issued, Live
  <1>4. \A x \in Sid : /\ session[x] # "unused" => session'[x] # "unused"
                       /\ session'[x] = "active" => session[x] = "active"
    BY DEF CleanUp, Gone
  <1>5. Advance /\ OneLiveTokenPerSession' /\ IssuedInSession'
    BY <1>1, <1>3, <1>4, FewerLive
  <1>6. ASSUME NEW q \in Request PROVE RotationOwn(q)' /\ EndingOwn(q)'
    <2>1. RotationOwn(q) /\ job[q].jti \in Jti
      BY DEF Inv, Requests, TypeOK, Job
    <2>2. pc[q] = "revoke" => Live(job[q].jti)'
      <3> SUFFICES ASSUME pc[q] = "revoke" PROVE Live(job[q].jti)'
        OBVIOUS
      <3>1. job[q].jti \notin expired.jti
        BY <1>2 DEF TokenLocked
      <3>2. token'[job[q].jti] = token[job[q].jti]
        BY <2>1, <3>1 DEF CleanUp
      <3> QED
        BY <1>1, <2>1, <3>2 DEF RotationOwn, Live
    <2>3. Rotating(q) => \A t \in Jti : Live(t)' => SessionOf(t)' # job[q].sid
      BY <1>3, <2>1 DEF RotationOwn
    <2> QED
      BY <1>1, <1>5, <2>2, <2>3, OthersOwn
  <1>7. \A p, q \in Request : p # q => RotatingApart(p, q)'
    BY <1>1 DEF Inv, Requests, RotatingApart, Rotating
  <1> QED
    BY <1>5, <1>6, <1>7 DEF Requests

\* The steps of r that only read or lock.
LEMMA ReadingStep ==
    ASSUME Inv, NEW r \in Request,
           \/ BeginLogin(r) \/ BeginRefresh(r) \/ LockToken(r) \/ CheckSession(r)
           \/ Authenticate(r) \/ Touch(r) \/ Serve(r) \/ LockTimeout(r) \/ WorkerDies(r)
    PROVE  OneLiveTokenPerSession' /\ IssuedInSession' /\ Requests'
  <1>1. CASE Rollback(r)
    BY <1>1, RollbackStep
  <1>2. CASE /\ ~Rollback(r)
             /\ BeginLogin(r) \/ Authenticate(r) \/ Touch(r)
    <2>1. /\ pc'[r] \in {"open session", "touch", "authenticated"}
          /\ \A q \in Request : q # r => pc'[q] = pc[q] /\ job'[q] = job[q]
      BY <1>2 DEF BeginLogin, Authenticate, Touch, Goto, Inv, TypeOK
    <2>2. session' = session
      BY <1>2 DEF BeginLogin, Authenticate, Touch, Touched, Inv, TypeOK
    <2>3. UNCHANGED <<token, expired>>
      BY <1>2 DEF BeginLogin, Authenticate, Touch, clock
    <2> QED
      BY <2>1, <2>2, <2>3, IdleOwn, QuietStep
  <1>3. CASE BeginRefresh(r)
    <2>1. PICK t \in Jti : /\ Issued(t)
                          /\ job' = [job EXCEPT ![r] = [NoJob EXCEPT !.jti = t,
                                                                    !.sid = SessionOf(t)]]
      BY <1>3 DEF BeginRefresh
    <2>2. job'[r].jti = t /\ job'[r].sid = SessionOf(t)
      BY <2>1 DEF Inv, TypeOK, NoJob
    <2>3. /\ pc'[r] = "lock token" /\ UNCHANGED <<session, token, expired>>
          /\ \A q \in Request : q # r => pc'[q] = pc[q] /\ job'[q] = job[q]
      BY <1>3, <2>1 DEF BeginRefresh, Goto, clock, Inv, TypeOK
    <2>4. RotationOwn(r)' /\ EndingOwn(r)'
      <3>1. Issued(t)' /\ SessionOf(t)' = SessionOf(t)
        BY <2>1, <2>3 DEF Issued, SessionOf
      <3>2. Issued(job[r].jti)' /\ job'[r].sid = SessionOf(job[r].jti)'
        BY <2>2, <3>1 DEF Issued, SessionOf
      <3> QED
        BY <2>3, <3>2 DEF RotationOwn, EndingOwn, Rotating
    <2>5. \A q \in Request : RotatingApart(r, q)' /\ RotatingApart(q, r)'
      BY <2>3 DEF RotatingApart, Rotating
    <2> QED
      BY <2>3, <2>4, <2>5, QuietStep
  <1>4. CASE LockToken(r) /\ ~Rollback(r)
    <2>1. /\ pc[r] = "lock token" /\ pc'[r] = "revoke" /\ UNCHANGED <<session, token, expired, job>>
          /\ \A q \in Request : q # r => pc'[q] = pc[q]
          /\ Live(job[r].jti) /\ ~TokenLocked(job[r].jti)
      BY <1>4 DEF LockToken, Goto, Redeemable, clock, Inv, TypeOK
    <2>2. RotationOwn(r)
      BY DEF Inv, Requests
    <2>3. RotationOwn(r)' /\ EndingOwn(r)'
      BY <2>1, <2>2 DEF RotationOwn, EndingOwn, Rotating, Issued, Live, SessionOf
    <2>4. \A q \in Request : q # r => RotatingApart(r, q)' /\ RotatingApart(q, r)'
      BY <2>1 DEF RotatingApart, Rotating, TokenLocked
    <2> QED
      BY <2>1, <2>3, <2>4, QuietStep
  <1>5. CASE CheckSession(r) /\ ~Rollback(r)
    <2>1. /\ pc[r] = "check session" /\ pc'[r] = "issue"
          /\ UNCHANGED <<session, token, expired, job>>
          /\ \A q \in Request : q # r => pc'[q] = pc[q]
      BY <1>5 DEF CheckSession, Goto, clock, Inv, TypeOK
    <2>2. RotationOwn(r)
      BY DEF Inv, Requests
    <2>3. RotationOwn(r)' /\ EndingOwn(r)'
      BY <2>1, <2>2 DEF RotationOwn, EndingOwn, Rotating, Live, SessionOf
    <2>4. \A q \in Request : q # r => RotatingApart(r, q)' /\ RotatingApart(q, r)'
      BY <2>1 DEF Inv, Requests, RotatingApart, Rotating
    <2> QED
      BY <2>1, <2>3, <2>4, QuietStep
  <1> QED
    BY <1>1, <1>2, <1>3, <1>4, <1>5 DEF Serve, LockTimeout, WorkerDies

\* A request that begins to end things has seen only issued tokens of its user.
LEMMA BeginEndingStep ==
    ASSUME Inv, NEW r \in Request, NEW j \in Job, BeginEnding(r, j),
           \A t \in j.seen : Issued(t) /\ Owner(t) = UserEnded(j)
    PROVE  OneLiveTokenPerSession' /\ IssuedInSession' /\ Requests'
  <1>1. /\ pc'[r] = "end sessions" /\ job'[r] = j /\ UNCHANGED <<session, token, expired>>
        /\ \A q \in Request : q # r => pc'[q] = pc[q] /\ job'[q] = job[q]
    BY DEF BeginEnding, Goto, clock, Inv, TypeOK
  <1>2. RotationOwn(r)' /\ EndingOwn(r)'
    BY <1>1 DEF RotationOwn, EndingOwn, Rotating, Issued, Owner, SessionOf, UserEnded, EndsAll
  <1>3. \A q \in Request : RotatingApart(r, q)' /\ RotatingApart(q, r)'
    BY <1>1 DEF RotatingApart, Rotating
  <1> QED
    BY <1>1, <1>2, <1>3, QuietStep

LEMMA BeginEndingsStep ==
    ASSUME Inv, NEW r \in Request,
           BeginLogout(r) \/ BeginLogoutAll(r) \/ BeginRevokeSession(r) \/ BeginReset(r)
    PROVE  OneLiveTokenPerSession' /\ IssuedInSession' /\ Requests'
  <1> USE ChosenIds
  <1>1. CASE BeginLogout(r)
    <2>1. PICK t \in Jti : /\ Live(t)
                          /\ BeginEnding(r, [NoJob EXCEPT !.kind = "logout",
                                               !.sid = SessionOf(t), !.seen = {t}])
      BY <1>1 DEF BeginLogout
    <2> DEFINE j == [NoJob EXCEPT !.kind = "logout", !.sid = SessionOf(t), !.seen = {t}]
    <2>2. j \in Job /\ j.kind = "logout" /\ j.sid = SessionOf(t) /\ j.seen = {t}
      BY DEF Job, Inv, TypeOK, SessionOf, Ending
    <2>3. \A s \in j.seen : Issued(s) /\ Owner(s) = UserEnded(j)
      BY <2>1, <2>2 DEF Issued, Live, Owner, UserEnded, EndsAll
    <2> QED
      BY <2>1, <2>2, <2>3, BeginEndingStep
  <1>2. CASE BeginLogoutAll(r)
    <2> DEFINE j == [NoJob EXCEPT !.kind = "logout all", !.user = job[r].user,
                                  !.seen = {t \in Jti : Live(t) /\ Owner(t) = job[r].user}]
    <2>1. /\ j \in Job /\ j.kind = "logout all" /\ j.user = job[r].user
          /\ j.seen = {t \in Jti : Live(t) /\ Owner(t) = job[r].user}
      BY DEF Job, Inv, TypeOK, Ending
    <2>2. \A s \in j.seen : Issued(s) /\ Owner(s) = UserEnded(j)
      BY <2>1 DEF Issued, Live, UserEnded, EndsAll
    <2>3. BeginEnding(r, j)
      BY <1>2 DEF BeginLogoutAll
    <2> QED
      BY <2>1, <2>2, <2>3, BeginEndingStep
  <1>3. CASE BeginRevokeSession(r)
    <2>1. PICK x \in Sid : BeginEnding(r, [NoJob EXCEPT !.kind = "revoke session", !.sid = x])
      BY <1>3 DEF BeginRevokeSession
    <2> DEFINE j == [NoJob EXCEPT !.kind = "revoke session", !.sid = x]
    <2>2. j \in Job /\ j.seen = {}
      BY DEF Job, NoJob, Ending
    <2> QED
      BY <2>1, <2>2, BeginEndingStep
  <1>4. CASE BeginReset(r)
    <2>1. PICK u \in User : BeginEnding(r, [NoJob EXCEPT !.kind = "reset", !.user = u])
      BY <1>4 DEF BeginReset
    <2> DEFINE j == [NoJob EXCEPT !.kind = "reset", !.user = u]
    <2>2. j \in Job /\ j.seen = {}
      BY DEF Job, NoJob, Ending
    <2> QED
      BY <2>1, <2>2, BeginEndingStep
  <1> QED
    BY <1>1, <1>2, <1>3, <1>4

LEMMA EndSessionsStep ==
    ASSUME Inv, NEW r \in Request, EndSessions(r)
    PROVE  OneLiveTokenPerSession' /\ IssuedInSession' /\ Requests'
  <1>1. CASE Rollback(r)
    BY <1>1, RollbackStep
  <1>2. CASE ~Rollback(r)
    <2> DEFINE j == job[r]
    <2>1. /\ pc[r] = "end sessions" /\ pc'[r] = "end tokens"
          /\ job'[r] = [j EXCEPT !.ending = ToEnd(j)]
          /\ UNCHANGED <<session, token, expired>>
          /\ \A q \in Request : q # r => pc'[q] = pc[q] /\ job'[q] = job[q]
      BY <1>2 DEF EndSessions, Goto, clock, Inv, TypeOK
    <2>2. j \in Job
      BY DEF Inv, TypeOK
    <2>3. /\ job'[r].kind = j.kind /\ job'[r].user = j.user /\ job'[r].sid = j.sid
          /\ job'[r].seen = j.seen /\ job'[r].ending = ToEnd(j)
      BY <2>1, <2>2 DEF Job
    <2>4. UserEnded(job[r])' = UserEnded(j)
      BY <2>3 DEF UserEnded, EndsAll
    <2>5. \A t \in j.seen : Issued(t) /\ Owner(t) = UserEnded(j) /\ SessionOf(t) \in Sid
      BY <2>1, <2>2 DEF Inv, Requests, EndingOwn, TypeOK, SessionOf, Job
    <2>6. \A x \in ToEnd(j) : session[x] # "unused" /\ UserOf[x] = UserEnded(j)
      BY DEF ToEnd, UserEnded, EndsAll
    <2>7. j.kind = "logout all" =>
            \A t \in j.seen : SessionOf(t) \in ToEnd(j) \/ session[SessionOf(t)] # "active"
      BY <2>5 DEF ToEnd, Owner, UserEnded, EndsAll
    <2>8. \A t \in j.seen : Issued(t)' /\ Owner(t)' = UserEnded(j) /\ SessionOf(t)' = SessionOf(t)
      BY <2>1, <2>5 DEF Issued, Owner, SessionOf
    <2>9. RotationOwn(r)' /\ EndingOwn(r)'
      <3>1. RotationOwn(r)'
        BY <2>1 DEF RotationOwn, Rotating
      <3>2. \A t \in job'[r].seen : Issued(t)' /\ Owner(t)' = UserEnded(job[r])'
        BY <2>3, <2>4, <2>8
      <3>3. \A x \in job'[r].ending : session'[x] # "unused" /\ UserOf[x] = UserEnded(job[r])'
        BY <2>1, <2>3, <2>4, <2>6
      <3>4. job'[r].kind = "logout all" =>
              \A t \in job'[r].seen :
                  SessionOf(t)' \in job'[r].ending \/ session'[SessionOf(t)'] # "active"
        <4> SUFFICES ASSUME j.kind = "logout all", NEW t \in j.seen
                     PROVE  SessionOf(t)' \in ToEnd(j) \/ session'[SessionOf(t)'] # "active"
          BY <2>3
        <4>1. SessionOf(t)' = SessionOf(t) /\ session' = session
          BY <2>1, <2>8
        <4>2. SessionOf(t) \in ToEnd(j) \/ session[SessionOf(t)] # "active"
          BY <2>7
        <4> QED
          BY <4>1, <4>2
      <3> QED
        BY <3>1, <3>2, <3>3, <3>4 DEF EndingOwn
    <2>10. \A q \in Request : RotatingApart(r, q)' /\ RotatingApart(q, r)'
      BY <2>1 DEF RotatingApart, Rotating
    <2> QED
      BY <2>1, <2>9, <2>10, QuietStep
  <1> QED
    BY <1>1, <1>2

\* Time and administration touch neither the rows nor the requests.
LEMMA UnchangedStep ==
    ASSUME Inv, UNCHANGED <<session, token, pc, job>>
    PROVE  OneLiveTokenPerSession' /\ Requests'
  <1>1. Advance
    BY DEF Advance, Issued, SessionOf
  <1>2. OneLiveTokenPerSession'
    BY DEF Inv, OneLiveTokenPerSession, Live, SessionOf
  <1>3. ASSUME NEW q \in Request PROVE RotationOwn(q)' /\ EndingOwn(q)'
    <2>1. RotationOwn(q)
      BY DEF Inv, Requests
    <2>2. pc[q] = "revoke" => Live(job[q].jti)'
      BY <2>1 DEF RotationOwn, Live
    <2>3. Rotating(q) => \A t \in Jti : Live(t)' => SessionOf(t)' # job[q].sid
      BY <2>1 DEF RotationOwn, Live, SessionOf
    <2> QED
      BY <1>1, <2>2, <2>3, OthersOwn
  <1>4. ASSUME NEW p \in Request, NEW q \in Request, p # q PROVE RotatingApart(p, q)'
    <2>1. RotatingApart(p, q)
      BY <1>4 DEF Inv, Requests
    <2> QED
      BY <2>1 DEF RotatingApart, Rotating
  <1> QED
    BY <1>2, <1>3, <1>4 DEF Requests

LEMMA InvStep == Inv /\ [Next]_vars => Inv'
  <1> SUFFICES ASSUME Inv, [Next]_vars
               PROVE  OneLiveTokenPerSession' /\ IssuedInSession' /\ Requests'
    BY TypeStep DEF Inv
  <1>1. ASSUME NEW r \in Request, OpenSession(r)
        PROVE  OneLiveTokenPerSession' /\ IssuedInSession' /\ Requests'
    <2> DEFINE x == CHOOSE x \in Unopened(job[r].user) : TRUE
    <2>1. /\ x \in Sid /\ session[x] = "unused"
          /\ session' = [session EXCEPT ![x] = "active"]
          /\ AddToken(x) /\ Close(r) /\ UNCHANGED expired
      BY <1>1 DEF OpenSession, Unopened, clock
    <2> QED
      BY <2>1, AddTokenStep
  <1>2. ASSUME NEW r \in Request, IssueTokens(r)
        PROVE  OneLiveTokenPerSession' /\ IssuedInSession' /\ Requests'
    <2>1. job[r].sid \in Sid
      BY DEF Inv, TypeOK, Job
    <2> QED
      BY <1>2, <2>1, AddTokenStep DEF IssueTokens, clock
  <1>3. CASE Environment
    <2>1. CASE CleanUp
      BY <2>1, CleanUpStep
    <2>2. CASE ~CleanUp
      <3>1. UNCHANGED <<session, token, pc, job>>
        BY <1>3, <2>2 DEF Environment, SessionExpires, TokenExpires, SetActive
      <3>2. /\ \A t \in expired.jti' : t \in Jti /\ Issued(t)
            /\ \A x \in expired.sid' : x \in Sid /\ session[x] # "unused"
        <4>1. /\ expired.jti \subseteq Jti /\ expired.sid \subseteq Sid
              /\ \A t \in expired.jti : Issued(t)
              /\ \A x \in expired.sid : session[x] # "unused"
              /\ expired \in [sid : SUBSET Sid, jti : SUBSET Jti]
          BY DEF Inv, TypeOK, IssuedInSession
        <4>2. ASSUME NEW x \in Sid, SessionExpires(x)
              PROVE  /\ expired'.sid = expired.sid \cup {x} /\ expired'.jti = expired.jti
                     /\ session[x] # "unused"
          BY <4>1, <4>2 DEF SessionExpires
        <4>3. ASSUME NEW t \in Jti, TokenExpires(t)
              PROVE  /\ expired'.jti = expired.jti \cup {t} /\ expired'.sid = expired.sid
                     /\ Issued(t)
          BY <4>1, <4>3 DEF TokenExpires
        <4>4. CASE \E u \in User : SetActive(u)
          BY <4>1, <4>4 DEF SetActive
        <4> QED
          BY <1>3, <2>2, <4>1, <4>2, <4>3, <4>4 DEF Environment
      <3>3. IssuedInSession'
        BY <3>1, <3>2 DEF Inv, IssuedInSession, Issued, SessionOf
      <3>4. OneLiveTokenPerSession' /\ Requests'
        BY <3>1, UnchangedStep
      <3> QED
        BY <3>3, <3>4
    <2> QED
      BY <2>1, <2>2
  <1>4. CASE UNCHANGED vars
    <2>1. UNCHANGED <<session, token, expired, pc, job>>
      BY <1>4 DEF vars, clock
    <2>2. IssuedInSession'
      BY <2>1 DEF Inv, IssuedInSession, Issued, SessionOf
    <2> QED
      BY <2>1, <2>2, UnchangedStep
  <1> QED
    BY <1>1, <1>2, <1>3, <1>4, ReadingStep, BeginEndingsStep, EndSessionsStep, EndTokensStep,
       RevokeTokenStep
    DEF Next, Begin, Run

LEMMA InvAlways == Spec => []Inv
  BY InvInit, InvStep, PTL DEF Spec

\* However often and concurrently a client refreshes, a session never has two
\* live refresh tokens.
THEOREM SingleUse == Spec => []OneLiveTokenPerSession
  <1>1. Inv => OneLiveTokenPerSession
    BY DEF Inv
  <1> QED
    BY <1>1, InvAlways, PTL

LEMMA LogoutAllStep ==
    ASSUME Inv, NEW r \in Request, EndTokens(r), job[r].kind = "logout all",
           \A t \in job[r].seen : token[t].status # "deleted",
           NEW t \in job[r].seen
    PROVE  ~Live(t)' /\ session'[SessionOf(t)] # "active"
  <1>1. t \in Jti /\ SessionOf(t) \in Sid
    BY DEF Inv, TypeOK, Job, SessionOf
  <1>2. /\ session' = [x \in Sid |-> IF x \in job[r].ending THEN "inactive" ELSE session[x]]
        /\ token' = [s \in Jti |-> IF s \in job[r].seen
                                   THEN [token[s] EXCEPT !.status = "revoked"] ELSE token[s]]
    BY DEF EndTokens, ToRevoke
  <1>3. SessionOf(t) \in job[r].ending \/ session[SessionOf(t)] # "active"
    BY DEF Inv, Requests, EndingOwn, EndTokens
  <1> QED
    BY <1>1, <1>2, <1>3 DEF Live, Inv, TypeOK

\* A logout of all devices that succeeds ends the session of every token it
\* saw, whatever was rotated meanwhile.
THEOREM LogoutAllIsComplete == Spec => LogoutAllEndsSessions
  <1>1. Inv /\ [Next]_vars =>
          [\A r \in Request :
              /\ EndTokens(r) /\ job[r].kind = "logout all"
              /\ \A t \in job[r].seen : token[t].status # "deleted"
              => \A t \in job[r].seen : ~Live(t)' /\ session'[SessionOf(t)] # "active"]_vars
    BY LogoutAllStep
  <1> QED
    BY <1>1, InvAlways, PTL DEF Spec, LogoutAllEndsSessions

-------------------------------------------------------------------------------
(* Sessions implements TokenChain. *)

OpenedSids == {x \in Sid : session[x] # "unused"}
OpenSids == {x \in Sid : Usable(x)}
LivePairs == {<<SessionOf(t), t>> : t \in {t \in Jti : CanRenew(t)}}
SpentPairs == {<<SessionOf(t), t>> : t \in {t \in Jti : Issued(t) /\ ~CanRenew(t)}}

LEMMA InLivePairs ==
    ASSUME NEW x, NEW t
    PROVE  <<x, t>> \in LivePairs <=> t \in Jti /\ CanRenew(t) /\ x = SessionOf(t)
  BY DEF LivePairs

LEMMA InSpentPairs ==
    ASSUME NEW x, NEW t
    PROVE  <<x, t>> \in SpentPairs <=>
               t \in Jti /\ Issued(t) /\ ~CanRenew(t) /\ x = SessionOf(t)
  BY DEF SpentPairs

\* A step in which sessions and tokens of one user come to an end.
LEMMA EndRefines ==
    ASSUME Inv, NEW u \in User,
           \A x \in Sid : /\ session'[x] = "unused" <=> session[x] = "unused"
                          /\ Usable(x)' => Usable(x)
                          /\ Usable(x) /\ ~Usable(x)' => UserOf[x] = u,
           \A t \in Jti : /\ SessionOf(t)' = SessionOf(t)
                          /\ Issued(t)' <=> Issued(t)
                          /\ CanRenew(t)' => CanRenew(t)
                          /\ CanRenew(t) /\ ~CanRenew(t)' => Owner(t) = u
    PROVE  Chain!End(u)
  <1>1. OpenedSids' = OpenedSids /\ OpenSids' \subseteq OpenSids
        /\ \A x \in OpenSids \ OpenSids' : UserOf[x] = u
    BY DEF OpenedSids, OpenSids
  <1>2. LivePairs' \subseteq LivePairs
    BY DEF LivePairs
  <1>3. \A p \in LivePairs \ LivePairs' : UserOf[p[1]] = u
    <2> SUFFICES ASSUME NEW t \in Jti, CanRenew(t), <<SessionOf(t), t>> \notin LivePairs'
                 PROVE  UserOf[SessionOf(t)] = u
      BY DEF LivePairs
    <2>1. ~CanRenew(t)'
      BY DEF LivePairs
    <2> QED
      BY <2>1 DEF Owner
  <1>4. SpentPairs' = SpentPairs \cup (LivePairs \ LivePairs')
    <2>1. \A t \in Jti : CanRenew(t) => Issued(t)
      BY DEF CanRenew, Live, Issued
    <2>2. \A t \in Jti : <<SessionOf(t), t>> \in LivePairs' <=> CanRenew(t)'
      BY DEF LivePairs
    <2>3. SpentPairs' \subseteq SpentPairs \cup (LivePairs \ LivePairs')
      BY <2>2 DEF SpentPairs, LivePairs
    <2>4. SpentPairs \subseteq SpentPairs'
      BY DEF SpentPairs
    <2>5. LivePairs \ LivePairs' \subseteq SpentPairs'
      BY <2>1, <2>2 DEF SpentPairs, LivePairs
    <2> QED
      BY <2>3, <2>4, <2>5
  <1> QED
    BY <1>1, <1>2, <1>3, <1>4 DEF Chain!End, OpenedSids, OpenSids, LivePairs, SpentPairs

\* The rows of a new token, seen through the mapping.
LEMMA IssueRefines ==
    ASSUME Inv, NEW x \in Sid, AddToken(x), UNCHANGED expired,
           \A t \in Jti : Live(t) => SessionOf(t) # x
    PROVE  \E n \in Jti : Chain!Issue(x, n)
  <1>1. PICK n \in Jti : /\ ~Issued(n)
                        /\ token' = [token EXCEPT ![n] = [status |-> "live", sid |-> x]]
    BY AddTokenTypes DEF Inv
  <1>2. \A t \in Jti : t # n => token'[t] = token[t]
    BY <1>1 DEF Inv, TypeOK
  <1>3. token'[n] = [status |-> "live", sid |-> x]
    BY <1>1 DEF Inv, TypeOK
  <1>4. n \notin expired.jti
    BY <1>1 DEF Inv, IssuedInSession
  <1>5. SessionOf(n)' = x /\ CanRenew(n)' /\ Issued(n)'
    BY <1>3, <1>4 DEF SessionOf, CanRenew, Live, Issued
  <1>6. ~CanRenew(n)
    BY <1>1 DEF CanRenew, Live, Issued
  <1>7. \A t \in Jti : t # n => /\ SessionOf(t)' = SessionOf(t)
                                     /\ CanRenew(t)' = CanRenew(t)
                                     /\ Issued(t)' = Issued(t)
    BY <1>2 DEF SessionOf, CanRenew, Live, Issued
  <1>8. LivePairs' = LivePairs \cup {<<x, n>>}
    BY <1>1, <1>5, <1>6, <1>7 DEF LivePairs
  <1>9. SpentPairs' = SpentPairs
    BY <1>1, <1>5, <1>7 DEF SpentPairs
  <1>10. \A y \in Sid : <<y, n>> \notin LivePairs \cup SpentPairs
    BY <1>1, <1>6, InLivePairs, InSpentPairs
  <1>11. \A s \in Jti : <<x, s>> \notin LivePairs
    BY InLivePairs DEF CanRenew
  <1> QED
    BY <1>1, <1>8, <1>9, <1>10, <1>11
    DEF Chain!Issue, Chain!NeverIssued, LivePairs, SpentPairs

LEMMA StutterRefines ==
    ASSUME UNCHANGED <<session, token, expired>>
    PROVE  UNCHANGED Chain!vars
  BY DEF Chain!vars, Usable, Issued, CanRenew, Live, SessionOf

\* Every step is a step of TokenChain or leaves its variables alone.
LEMMA StepRefines == Inv /\ [Next]_vars => [Chain!Next]_(Chain!vars)
  <1> SUFFICES ASSUME Inv, [Next]_vars PROVE Chain!Next \/ UNCHANGED Chain!vars
    OBVIOUS
  <1>1. ASSUME NEW r \in Request, OpenSession(r) PROVE Chain!Next
    <2>1. PICK x \in Sid : /\ session[x] = "unused"
                          /\ session' = [session EXCEPT ![x] = "active"]
                          /\ AddToken(x) /\ UNCHANGED expired
      BY <1>1 DEF OpenSession, Unopened, clock
    <2>2. \A t \in Jti : Live(t) => SessionOf(t) # x
      BY <2>1 DEF Inv, IssuedInSession, Live, Issued
    <2>3. PICK n \in Jti : Chain!Issue(x, n)
      BY <2>1, <2>2, IssueRefines
    <2>4. x \notin expired.sid
      BY <2>1 DEF Inv, IssuedInSession
    <2>5. session'[x] = "active" /\ \A y \in Sid : y # x => session'[y] = session[y]
      BY <2>1 DEF Inv, TypeOK
    <2>6. /\ x \notin OpenedSids
          /\ OpenedSids' = OpenedSids \cup {x}
          /\ OpenSids' = OpenSids \cup {x}
      BY <2>1, <2>4, <2>5 DEF OpenedSids, OpenSids, Usable
    <2>7. Chain!Open(x, n)
      BY <2>3, <2>6 DEF Chain!Open, OpenedSids, OpenSids
    <2> QED
      BY <2>7 DEF Chain!Next
  <1>2. ASSUME NEW r \in Request, IssueTokens(r) PROVE Chain!Next
    <2>1. PICK x \in Sid : x = job[r].sid /\ AddToken(x) /\ UNCHANGED <<session, expired>>
      BY <1>2 DEF IssueTokens, clock, Inv, TypeOK, Job
    <2>2. session[x] # "unused" /\ \A t \in Jti : Live(t) => SessionOf(t) # x
      BY <1>2, <2>1 DEF IssueTokens, Inv, Requests, RotationOwn, Rotating
    <2>3. PICK n \in Jti : Chain!Issue(x, n)
      BY <2>1, <2>2, IssueRefines
    <2>4. Chain!Renew(x, n)
      BY <2>1, <2>2, <2>3 DEF Chain!Renew, Usable
    <2> QED
      BY <2>1, <2>4 DEF Chain!Next
  <1>3. ASSUME NEW r \in Request, RevokeToken(r) PROVE Chain!Next
    <2>1. PICK t \in Jti : t = job[r].jti /\ Issued(t) /\ UNCHANGED <<session, expired>>
      BY <1>3 DEF RevokeToken, clock, Inv, TypeOK, Job, Requests, RotationOwn
    <2>2. token'[t].status = "revoked" /\ token'[t].sid = token[t].sid
      BY <1>3, <2>1 DEF RevokeToken, Inv, TypeOK
    <2>3. \A s \in Jti : s # t => token'[s] = token[s]
      BY <1>3, <2>1 DEF RevokeToken, Inv, TypeOK
    <2>4. PICK u \in User : u = Owner(t)
      BY SessionsAssumption DEF Inv, TypeOK, Owner, SessionOf
    <2>5. \A s \in Jti : /\ SessionOf(s)' = SessionOf(s)
                         /\ Issued(s)' <=> Issued(s)
                         /\ CanRenew(s)' => CanRenew(s)
                         /\ CanRenew(s) /\ ~CanRenew(s)' => Owner(s) = u
      BY <2>1, <2>2, <2>3, <2>4 DEF SessionOf, Issued, CanRenew, Live
    <2>6. Chain!End(u)
      BY <2>1, <2>5, EndRefines DEF Usable
    <2> QED
      BY <2>6 DEF Chain!Next
  <1>4. ASSUME NEW r \in Request, EndTokens(r), ~Rollback(r) PROVE Chain!Next
    <2> DEFINE j == job[r]
    <2>1. /\ session' = [x \in Sid |-> IF x \in j.ending THEN "inactive" ELSE session[x]]
          /\ token' = [t \in Jti |-> IF t \in ToRevoke(j)
                                     THEN [token[t] EXCEPT !.status = "revoked"] ELSE token[t]]
          /\ UNCHANGED expired
          /\ pc[r] = "end tokens"
      BY <1>4 DEF EndTokens, clock
    <2>2. EndingOwn(r) /\ UserEnded(j) \in User
      BY SessionsAssumption DEF Inv, Requests, TypeOK, Job, UserEnded
    <2> PICK u \in User : u = UserEnded(j)
      BY <2>2
    <2>3. \A t \in ToRevoke(j) : Issued(t) /\ Owner(t) = u
      BY <2>1, <2>2 DEF ToRevoke, EndingOwn, Issued, Live, UserEnded, EndsAll
    <2>4. \A x \in j.ending : session[x] # "unused" /\ UserOf[x] = u
      BY <2>1, <2>2 DEF EndingOwn
    <2>5. \A x \in Sid : /\ session'[x] = "unused" <=> session[x] = "unused"
                         /\ Usable(x)' => Usable(x)
                         /\ Usable(x) /\ ~Usable(x)' => UserOf[x] = u
      BY <2>1, <2>4 DEF Usable
    <2>6. \A t \in Jti : /\ SessionOf(t)' = SessionOf(t)
                         /\ Issued(t)' <=> Issued(t)
                         /\ CanRenew(t)' => CanRenew(t)
                         /\ CanRenew(t) /\ ~CanRenew(t)' => Owner(t) = u
      BY <2>1, <2>3 DEF Inv, TypeOK, SessionOf, Issued, CanRenew, Live
    <2>7. Chain!End(u)
      BY <2>5, <2>6, EndRefines
    <2> QED
      BY <2>7 DEF Chain!Next
  <1>5. CASE CleanUp
    <2>1. PICK u \in User : TRUE
      BY SessionsAssumption
    <2>2. \A x \in Sid : /\ session'[x] = "unused" <=> session[x] = "unused"
                         /\ Usable(x)' <=> Usable(x)
      BY <1>5 DEF CleanUp, Gone, clock, Usable, Inv, IssuedInSession
    <2>3. \A t \in Jti : /\ SessionOf(t)' = SessionOf(t)
                         /\ Issued(t)' <=> Issued(t)
                         /\ CanRenew(t)' <=> CanRenew(t)
      BY <1>5 DEF CleanUp, Gone, clock, Inv, TypeOK, IssuedInSession, SessionOf, Issued,
                  CanRenew, Live
    <2>4. Chain!End(u)
      BY <2>2, <2>3, EndRefines
    <2> QED
      BY <2>4 DEF Chain!Next
  <1>6. ASSUME NEW x \in Sid, SessionExpires(x) PROVE Chain!Next
    <2>1. expired'.sid = expired.sid \cup {x} /\ expired'.jti = expired.jti
          /\ UNCHANGED <<session, token>>
      BY <1>6 DEF SessionExpires, Inv, TypeOK
    <2>2. UserOf[x] \in User
      BY SessionsAssumption
    <2>3. Chain!End(UserOf[x])
      BY <2>1, <2>2, EndRefines DEF Usable, SessionOf, Issued, CanRenew, Live
    <2> QED
      BY <2>2, <2>3 DEF Chain!Next
  <1>7. ASSUME NEW t \in Jti, TokenExpires(t) PROVE Chain!Next
    <2>1. expired'.jti = expired.jti \cup {t} /\ expired'.sid = expired.sid
          /\ UNCHANGED <<session, token>>
      BY <1>7 DEF TokenExpires, Inv, TypeOK
    <2>2. PICK u \in User : u = Owner(t)
      BY SessionsAssumption DEF Inv, TypeOK, Owner, SessionOf
    <2>3. Chain!End(u)
      BY <2>1, <2>2, EndRefines DEF Usable, SessionOf, Issued, CanRenew, Live
    <2> QED
      BY <2>2, <2>3 DEF Chain!Next
  <1>8. ASSUME NEW r \in Request, Rollback(r) PROVE UNCHANGED Chain!vars
    BY <1>8, StutterRefines DEF Rollback, clock
  <1>9. ASSUME NEW r \in Request,
               \/ BeginLogin(r) \/ BeginRefresh(r) \/ LockToken(r) \/ CheckSession(r)
               \/ Authenticate(r) \/ Touch(r) \/ BeginLogout(r) \/ BeginLogoutAll(r)
               \/ BeginRevokeSession(r) \/ BeginReset(r) \/ EndSessions(r),
               ~Rollback(r)
        PROVE  UNCHANGED Chain!vars
    <2>1. session' = session
      BY <1>9 DEF BeginLogin, BeginRefresh, LockToken, CheckSession, Authenticate, Touch, Touched,
                  BeginLogout, BeginLogoutAll, BeginRevokeSession, BeginReset, BeginEnding,
                  EndSessions, Inv, TypeOK
    <2>2. UNCHANGED <<token, expired>>
      BY <1>9 DEF BeginLogin, BeginRefresh, LockToken, CheckSession, Authenticate, Touch,
                  BeginLogout, BeginLogoutAll, BeginRevokeSession, BeginReset, BeginEnding,
                  EndSessions, clock
    <2> QED
      BY <2>1, <2>2, StutterRefines
  <1>10. ASSUME NEW u \in User, SetActive(u) PROVE UNCHANGED Chain!vars
    BY <1>10, StutterRefines DEF SetActive
  <1>11. CASE UNCHANGED vars
    BY <1>11, StutterRefines DEF vars, clock
  <1> QED
    BY <1>1, <1>2, <1>3, <1>4, <1>5, <1>6, <1>7, <1>8, <1>9, <1>10, <1>11
    DEF Next, Begin, Run, Environment, Serve, LockTimeout, WorkerDies

\* Sessions and their tokens are a chain: a session that is over stays over, a
\* token is issued once, one is live at a time, and a request ends only the
\* sessions and tokens of one user.
THEOREM RefinesTokenChain == Spec => ImplementsTokenChain
  <1>1. Init => Chain!Init
    BY DEF Init, Chain!Init, Usable, CanRenew, Live, Issued
  <1> QED
    BY <1>1, InvAlways, StepRefines, PTL DEF Spec, ImplementsTokenChain, Chain!Spec
===============================================================================
