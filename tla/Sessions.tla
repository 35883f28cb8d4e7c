------------------------------- MODULE Sessions -------------------------------
(***************************************************************************)
(* Sessions and refresh tokens: AuthService, the session check of every    *)
(* authenticated request, SessionManagementService.revoke_session and the  *)
(* clean-up job, as concurrent requests over one database.                 *)
(*                                                                         *)
(* A step of a request is what one of its transactions makes visible, or a *)
(* read or lock that another request can come after.  Only a rotation      *)
(* locks a token row before it decides (SELECT ... FOR UPDATE); the rows   *)
(* that an UPDATE has changed are locked until its commit.                 *)
(*                                                                         *)
(* Operators named Op_Variant are faulty versions of Op; the model does    *)
(* not use them, they show which property notices the fault.               *)
(***************************************************************************)
EXTENDS Integers, FiniteSets

CONSTANTS
    User,
    Sid,      \* session ids (uuid4), the session_token of a row of user_sessions
    UserOf,   \* the user each of them will belong to
    Jti,      \* ids of refresh tokens (uuid4)
    Request,  \* the requests that can be in flight at once
    Expiring  \* bound: the sessions and tokens that reach their expires_at

ASSUME SessionsAssumption ==
    /\ UserOf \in [Sid -> User]
    /\ User # {} /\ Sid # {} /\ Jti # {}

VARIABLES
    session,  \* committed rows of user_sessions
    token,    \* committed rows of refresh_tokens, with the sid claim of the JWT
    expired,  \* the sessions and tokens whose expires_at has passed
    enabled,  \* users that are is_active and not is_deleted
    pc,       \* what the request does next
    job       \* the request: its user, session and token, and what it ends

vars == <<session, token, expired, enabled, pc, job>>
clock == <<expired, enabled>>

Ending == {"logout", "logout all", "revoke session", "reset"}
Job == [user : User, sid : Sid, jti : Jti, kind : Ending \cup {"none"},
        seen : SUBSET Jti, ending : SUBSET Sid]

AnySid == CHOOSE x \in Sid : TRUE
AnyJti == CHOOSE t \in Jti : TRUE
NoJob == [user |-> UserOf[AnySid], sid |-> AnySid, jti |-> AnyJti, kind |-> "none",
          seen |-> {}, ending |-> {}]

TypeOK ==
    /\ session \in [Sid -> {"unused", "active", "inactive", "deleted"}]
    /\ token \in [Jti -> [status : {"unused", "live", "revoked", "deleted"}, sid : Sid]]
    /\ expired \in [sid : SUBSET Sid, jti : SUBSET Jti]
    /\ enabled \in [User -> BOOLEAN]
    /\ pc \in [Request -> {"idle", "open session", "lock token", "revoke", "check session",
                           "issue", "touch", "authenticated", "end sessions", "end tokens"}]
    /\ job \in [Request -> Job]

Init ==
    /\ session = [x \in Sid |-> "unused"]
    /\ token = [t \in Jti |-> [status |-> "unused", sid |-> AnySid]]
    /\ expired = [sid |-> {}, jti |-> {}]
    /\ enabled = [u \in User |-> TRUE]
    /\ pc = [r \in Request |-> "idle"]
    /\ job = [r \in Request |-> NoJob]

-------------------------------------------------------------------------------
Issued(t) == token[t].status # "unused"
Live(t) == token[t].status = "live"
SessionOf(t) == token[t].sid
Owner(t) == UserOf[SessionOf(t)]

\* The row locks: of a token between FOR UPDATE and commit, of the sessions
\* an UPDATE has set inactive until its transaction commits.
TokenLocked_NoForUpdate(t) == FALSE
TokenLocked(t) == \E r \in Request : pc[r] = "revoke" /\ job[r].jti = t
SessionLocked(x) == \E r \in Request : pc[r] = "end tokens" /\ x \in job[r].ending

Goto(r, step) == pc' = [pc EXCEPT ![r] = step]

Close(r) == Goto(r, "idle") /\ job' = [job EXCEPT ![r] = NoJob]
Rollback(r) == Close(r) /\ UNCHANGED <<session, token, clock>>

\* Bounds: a login or refresh is begun while ids are left for it.
Needing(steps) == Cardinality({r \in Request : pc[r] \in steps})
JtiLeft == Needing({"open session", "lock token", "revoke", "check session", "issue"})
             < Cardinality({t \in Jti : ~Issued(t)})
Unopened(u) == {x \in Sid : UserOf[x] = u /\ session[x] = "unused"}
SidsLeft(u) == Cardinality({r \in Request : pc[r] = "open session" /\ job[r].user = u})
                 < Cardinality(Unopened(u))

-------------------------------------------------------------------------------
(* AuthService.login and _issue_token_pair. *)

\* The password is right and the account neither locked nor inactive.  The
\* commits of the login attempt and of last_login_at touch no row of the model.
BeginLogin(r) ==
    /\ pc[r] = "idle"
    /\ JtiLeft
    /\ \E u \in User :
        /\ enabled[u] /\ SidsLeft(u)
        /\ job' = [job EXCEPT ![r] = [NoJob EXCEPT !.user = u]]
    /\ Goto(r, "open session")
    /\ UNCHANGED <<session, token, clock>>

\* db.add(refresh_token_row), with a jti never used before, and commit().
\* New ids are interchangeable: the model takes the next one.
NextJti == CHOOSE t \in Jti : ~Issued(t)
AddToken(x) ==
    /\ \E t \in Jti : ~Issued(t)
    /\ token' = [token EXCEPT ![NextJti] = [status |-> "live", sid |-> x]]

OpenSession(r) ==
    /\ pc[r] = "open session"
    /\ Unopened(job[r].user) # {}
    /\ LET x == CHOOSE x \in Unopened(job[r].user) : TRUE
       IN session' = [session EXCEPT ![x] = "active"] /\ AddToken(x)
    /\ Close(r)
    /\ UNCHANGED clock

-------------------------------------------------------------------------------
(* AuthService.refresh_access_token. *)

\* A client presents any refresh token it ever got whose exp has not passed.
BeginRefresh(r) ==
    /\ pc[r] = "idle"
    /\ JtiLeft
    /\ \E t \in Jti :
        /\ Issued(t) /\ t \notin expired.jti
        /\ job' = [job EXCEPT ![r] = [NoJob EXCEPT !.jti = t, !.sid = SessionOf(t)]]
    /\ Goto(r, "lock token")
    /\ UNCHANGED <<session, token, clock>>

Redeemable(t) == Live(t) /\ t \notin expired.jti /\ enabled[Owner(t)]

LockToken(r) ==
    LET t == job[r].jti
    IN /\ pc[r] = "lock token"
       /\ ~TokenLocked(t)
       /\ \/ ~Redeemable(t) /\ Rollback(r)
          \/ /\ Redeemable(t)
             /\ Goto(r, "revoke")
             /\ UNCHANGED <<session, token, clock, job>>

\* token_row.is_revoked = True and the first commit of the rotation.
RevokeToken(r) ==
    /\ pc[r] = "revoke"
    /\ token' = [token EXCEPT ![job[r].jti].status = "revoked"]
    /\ Goto(r, "check session")
    /\ UNCHANGED <<session, clock, job>>

\* The session of the sid claim, read without a lock.
Usable(x) == session[x] = "active" /\ x \notin expired.sid

CheckSession(r) ==
    /\ pc[r] = "check session"
    /\ \/ ~Usable(job[r].sid) /\ Rollback(r)
       \/ /\ Usable(job[r].sid)
          /\ Goto(r, "issue")
          /\ UNCHANGED <<session, token, clock, job>>

IssueTokens(r) ==
    /\ pc[r] = "issue"
    /\ AddToken(job[r].sid)
    /\ Close(r)
    /\ UNCHANGED <<session, clock>>

-------------------------------------------------------------------------------
(* get_current_user: the check that every authenticated request begins with. *)

Authenticate(r) ==
    /\ pc[r] = "idle"
    /\ \E x \in Sid :
        /\ Usable(x)
        /\ job' = [job EXCEPT ![r] = [NoJob EXCEPT !.sid = x]]
    /\ Goto(r, "touch")
    /\ UNCHANGED <<session, token, clock>>

\* The UPDATE names last_active_at only: is_active stays what it is by now.
Touched_WholeRow(status) == "active"
Touched(status) == status

\* A row that clean-up has deleted meanwhile is a StaleDataError.
Touch(r) ==
    LET x == job[r].sid
    IN /\ pc[r] = "touch"
       /\ ~SessionLocked(x)
       /\ \/ session[x] = "deleted" /\ Rollback(r)
          \/ /\ session[x] # "deleted"
             /\ session' = [session EXCEPT ![x] = Touched(@)]
             /\ job' = [job EXCEPT ![r] = [NoJob EXCEPT !.user = UserOf[x]]]
             /\ Goto(r, "authenticated")
             /\ UNCHANGED <<token, clock>>

\* Any other endpoint: nothing it does concerns sessions.
Serve(r) == pc[r] = "authenticated" /\ Rollback(r)

-------------------------------------------------------------------------------
(* What ends sessions.  Each sets sessions inactive with an UPDATE, whose   *)
(* WHERE sees the newest rows, and tokens revoked in the flush of the same  *)
(* transaction.                                                             *)

BeginEnding(r, request) ==
    /\ job' = [job EXCEPT ![r] = request]
    /\ Goto(r, "end sessions")
    /\ UNCHANGED <<session, token, clock>>

\* logout(): a token that is revoked already, or gone, is answered as success.
BeginLogout(r) ==
    /\ pc[r] = "idle"
    /\ \E t \in Jti :
        /\ Live(t) /\ t \notin expired.jti
        /\ BeginEnding(r, [NoJob EXCEPT !.kind = "logout", !.sid = SessionOf(t), !.seen = {t}])

\* logout_all_devices(): the tokens to revoke are those its SELECT returns.
BeginLogoutAll(r) ==
    /\ pc[r] = "authenticated"
    /\ enabled[job[r].user]
    /\ BeginEnding(r, [NoJob EXCEPT !.kind = "logout all", !.user = job[r].user,
                                    !.seen = {t \in Jti : Live(t) /\ Owner(t) = job[r].user}])

\* DELETE /sessions/{id}: one session of the caller; its token is left alone.
BeginRevokeSession(r) ==
    /\ pc[r] = "authenticated"
    /\ enabled[job[r].user]
    /\ \E x \in Sid :
        /\ UserOf[x] = job[r].user /\ session[x] = "active"
        /\ BeginEnding(r, [NoJob EXCEPT !.kind = "revoke session", !.sid = x])

\* confirm_password_reset(), the code being right; an inactive user may do so.
BeginReset(r) ==
    /\ pc[r] = "idle"
    /\ \E u \in User : BeginEnding(r, [NoJob EXCEPT !.kind = "reset", !.user = u])

\* The rows of the UPDATE that are still active.
ToEnd_OnlyOwn(j) == {x \in Sid : session[x] = "active" /\ x = j.sid}
ToEnd(j) ==
    {x \in Sid : session[x] = "active" /\ IF j.kind \in {"logout all", "reset"}
                                          THEN UserOf[x] = j.user ELSE x = j.sid}

\* revoke_session() writes the row it has loaded, and fails if that is gone.
EndSessions(r) ==
    /\ pc[r] = "end sessions"
    /\ \A x \in ToEnd(job[r]) : ~SessionLocked(x)
    /\ IF job[r].kind = "revoke session" /\ session[job[r].sid] = "deleted"
       THEN Rollback(r)
       ELSE /\ job' = [job EXCEPT ![r].ending = ToEnd(job[r])]
            /\ Goto(r, "end tokens")
            /\ UNCHANGED <<session, token, clock>>

\* A reset revokes with a second UPDATE, the others the objects they loaded.
ToRevoke(j) ==
    IF j.kind = "reset" THEN {t \in Jti : Live(t) /\ Owner(t) = j.user} ELSE j.seen

\* The flush fails as a whole if a loaded token is gone; then nothing is ended.
EndTokens(r) ==
    LET j == job[r]
    IN /\ pc[r] = "end tokens"
       /\ \A t \in ToRevoke(j) : ~TokenLocked(t)
       /\ \/ (\E t \in j.seen : token[t].status = "deleted") /\ Rollback(r)
          \/ /\ \A t \in j.seen : token[t].status # "deleted"
             /\ session' = [x \in Sid |-> IF x \in j.ending THEN "inactive" ELSE session[x]]
             /\ token' = [t \in Jti |-> IF t \in ToRevoke(j)
                                        THEN [token[t] EXCEPT !.status = "revoked"] ELSE token[t]]
             /\ Close(r)
             /\ UNCHANGED clock

-------------------------------------------------------------------------------
(* The clean-up job, time, administration. *)

Gone_Marked == "expired"
Gone == "deleted"

\* The DELETEs wait for the rows that requests have locked.
CleanUp ==
    /\ \A t \in expired.jti : ~TokenLocked(t)
    /\ \A x \in expired.sid : ~SessionLocked(x)
    /\ token' = [t \in Jti |-> IF t \in expired.jti
                               THEN [token[t] EXCEPT !.status = Gone] ELSE token[t]]
    /\ session' = [x \in Sid |-> IF x \in expired.sid THEN Gone ELSE session[x]]
    /\ UNCHANGED <<clock, pc, job>>

SessionExpires(x) ==
    /\ x \in Expiring /\ session[x] # "unused"
    /\ expired' = [expired EXCEPT !.sid = @ \cup {x}]
    /\ UNCHANGED <<session, token, enabled, pc, job>>

TokenExpires(t) ==
    /\ t \in Expiring /\ Issued(t)
    /\ expired' = [expired EXCEPT !.jti = @ \cup {t}]
    /\ UNCHANGED <<session, token, enabled, pc, job>>

\* UserService.update: is_active in a PATCH of the user.
SetActive(u) ==
    /\ enabled' = [enabled EXCEPT ![u] = ~@]
    /\ UNCHANGED <<session, token, expired, pc, job>>

Waits(r) ==
    \/ pc[r] = "lock token" /\ TokenLocked(job[r].jti)
    \/ pc[r] = "touch" /\ SessionLocked(job[r].sid)
    \/ pc[r] = "end sessions" /\ \E x \in ToEnd(job[r]) : SessionLocked(x)
    \/ pc[r] = "end tokens" /\ \E t \in ToRevoke(job[r]) : TokenLocked(t)

LockTimeout(r) == Waits(r) /\ Rollback(r)
WorkerDies(r) == pc[r] # "idle" /\ Rollback(r)

Begin(r) ==
    \/ BeginLogin(r) \/ BeginRefresh(r) \/ BeginLogout(r) \/ BeginReset(r) \/ Authenticate(r)

Run(r) ==
    \/ OpenSession(r) \/ LockToken(r) \/ RevokeToken(r) \/ CheckSession(r) \/ IssueTokens(r)
    \/ Touch(r) \/ Serve(r) \/ BeginLogoutAll(r) \/ BeginRevokeSession(r)
    \/ EndSessions(r) \/ EndTokens(r) \/ LockTimeout(r)

Environment ==
    \/ CleanUp
    \/ \E x \in Sid : SessionExpires(x)
    \/ \E t \in Jti : TokenExpires(t)
    \/ \E u \in User : SetActive(u)

Next == (\E r \in Request : Begin(r) \/ Run(r) \/ WorkerDies(r)) \/ Environment

Spec == Init /\ [][Next]_vars

-------------------------------------------------------------------------------
(* Properties. *)

\* "Single-use in practice" (auth_service.py:10-12): however often and however
\* concurrently a client refreshes, a session never has two live tokens.
OneLiveTokenPerSession ==
    \A t1, t2 \in Jti : Live(t1) /\ Live(t2) /\ SessionOf(t1) = SessionOf(t2) => t1 = t2

\* A logout of all devices that succeeds leaves no session active that had a
\* live token when it looked, even if a rotation has replaced that token since
\* (auth_service.py:337-358).
LogoutAllEndsSessions ==
    [][\A r \in Request :
          /\ EndTokens(r) /\ job[r].kind = "logout all"
          /\ \A t \in job[r].seen : token[t].status # "deleted"
          => \A t \in job[r].seen : ~Live(t)' /\ session'[SessionOf(t)] # "active"]_vars

\* Sessions and tokens as a chain: a row that is inactive, expired or deleted
\* never comes back, and only requests of a user end that user's sessions.
CanRenew(t) == Live(t) /\ t \notin expired.jti
Chain == INSTANCE TokenChain WITH
    opened <- {x \in Sid : session[x] # "unused"},
    open <- {x \in Sid : Usable(x)},
    live <- {<<SessionOf(t), t>> : t \in {t \in Jti : CanRenew(t)}},
    spent <- {<<SessionOf(t), t>> : t \in {t \in Jti : Issued(t) /\ ~CanRenew(t)}}
ImplementsTokenChain == Chain!Spec
===============================================================================
