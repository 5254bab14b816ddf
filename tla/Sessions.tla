------------------------------ MODULE Sessions ------------------------------
(***************************************************************************)
(* Sessions of the emulator: how JWTs are minted, refreshed, inspected and *)
(* revoked by concurrent HTTP requests (routes/auth/session.rs, the tail   *)
(* of routes/auth/password.rs signin, routes/mgmt/jwt.rs, force_logout of  *)
(* routes/mgmt/user.rs) while management calls and /emulator/reset change  *)
(* the stores underneath them.                                             *)
(*                                                                         *)
(* A request is one element of Reqs and runs one handler once.  Every      *)
(* `.await` on a store is a point where other requests run, so a handler   *)
(* is one action per store it visits; pc[r] names the next one.  The only  *)
(* lock a handler holds across such a point is the read lock on `users`,   *)
(* held while tokens are minted (LockHolders).                             *)
(*                                                                         *)
(* A JWT carries no random part, so it is modelled by its claims: two JWTs *)
(* with the same claims are the same string.  `exp` is iat plus the TTL of *)
(* the token's kind.  The signing key is fixed here.                       *)
(***************************************************************************)
EXTENDS Integers, FiniteSets

CONSTANTS
  Users,          \* user ids; an impersonator is a user id too
  NoOne,          \* the absent `act` claim
  NoToken,        \* the JWT of a request that carries none
  Reqs,           \* HTTP requests
  Ops,            \* the handlers the instance exercises, a subset of AllOps
  TenantMembers,  \* users that belong to the (existing) tenant they may select
  MaxTime,        \* bound of the model: last second of the wall clock
  MaxResets,      \* bound of the model: resets/imports of the emulator
  SessionTTL, RefreshTTL,
  Leeway          \* clock leeway of the JWT library

AllOps == {"signIn", "refresh", "tenantSelect", "me", "validate", "logout",
           "logoutAll", "forceLogout", "impersonate", "stopImpersonation",
           "updateJwt"}

ASSUME SessionsAssumption ==
  /\ NoOne \notin Users
  /\ NoToken \notin [drn : {"DS", "DSR"}, sub : Users, iat : Nat,
                      act : Users \cup {NoOne}, dct : BOOLEAN]
  /\ Ops \subseteq AllOps
  /\ TenantMembers \subseteq Users
  /\ MaxTime \in Nat /\ MaxResets \in Nat
  /\ SessionTTL \in Nat /\ RefreshTTL \in Nat /\ Leeway \in Nat

VARIABLES
  now,        \* wall clock, in seconds
  status,     \* UserStore: "enabled", "disabled" or "absent" for each user id
  revoked,    \* RevocationStore: revoked JWT strings
  boundary,   \* user_revocations: user id -> second, 0 when there is no entry
  resetPc,    \* where /emulator/reset or a snapshot import stands
  resets,     \* how many of them have started
  pc, op, tok, subj,  \* per request: next step, handler, JWT in, user acted on
  ts,         \* per request: the second a logout's boundary is taken from
  sess,       \* per request: the session JWT minted so far
  issued,     \* every JWT returned to a client
  loggedOut, forcedOut, \* JWTs whose logout / forced logout was acknowledged
  marks      \* per request: which of those two its JWT was in when it began

stores   == <<status, revoked, boundary>>
resetVars == <<resetPc, resets>>
request  == <<pc, op, tok, subj, ts, sess, marks>>
clients  == <<issued, loggedOut, forcedOut>>
vars == <<now, stores, resetVars, request, clients>>

-----------------------------------------------------------------------------
(* JWTs *)

Tokens == [drn : {"DS", "DSR"}, sub : Users, iat : Nat,
           act : Users \cup {NoOne}, dct : BOOLEAN]

SessionJwt(u, t, act, dct) ==
  [drn |-> "DS", sub |-> u, iat |-> t, act |-> act, dct |-> dct]

RefreshJwt(u, t, act) ==
  [drn |-> "DSR", sub |-> u, iat |-> t, act |-> act, dct |-> FALSE]

Expiry(t) == t.iat + (IF t.drn = "DS" THEN SessionTTL ELSE RefreshTTL)

NotExpired(t) == now <= Expiry(t) + Leeway

\* validate_refresh_jwt reads only claims a session JWT has too, so it takes
\* both kinds; validate_session_jwt needs claims only a session JWT has.
ValidAsRefresh(t) == NotExpired(t)
ValidAsSession(t) == NotExpired(t) /\ t.drn = "DS"

-----------------------------------------------------------------------------
(* Handlers *)

UserOps  == {"signIn", "forceLogout", "impersonate"}
TokenOps == AllOps \ UserOps

\* Mutant of FirstStep: tenant_select forgets is_revoked.
FirstStepUnchecked(o) ==
  CASE o \in UserOps -> "load"
    [] o \in {"refresh", "me"} -> "revocation"
    [] OTHER -> "jwt"

FirstStep(o) ==
  CASE o \in UserOps -> "load"
    [] o \in {"refresh", "me", "tenantSelect"} -> "revocation"
    [] OTHER -> "jwt"

\* Mutant of LockHolders: the user is cloned and the lock let go before minting.
LockHoldersNone == {}

\* Requests that hold the read lock on `users`.
LockHolders == {r \in Reqs : pc[r] \in {"mintSession", "mintRefresh"}}

Reply(r, outcome) == pc' = [pc EXCEPT ![r] = outcome]
Goto(r, step) == pc' = [pc EXCEPT ![r] = step]

\* History: what is recorded of a request when it starts, for the properties.
Marks == {"loggedOut", "forcedOut", "afterLogoutAll",
          "revokedCleared", "boundaryCleared"}

MarkedAtStart(m, o, t) ==
  \/ m = "loggedOut" /\ t \in loggedOut
  \/ m = "forcedOut" /\ t \in forcedOut
  \/ /\ m = "afterLogoutAll" /\ o = "signIn"
     /\ \E q \in Reqs : op[q] = "logoutAll" /\ pc[q] = "ok"

Start(r, o, t, u) ==
  /\ pc[r] = "idle"
  /\ o \in Ops
  /\ o \in TokenOps => t \in issued /\ u = t.sub
  /\ o \in UserOps => t = NoToken
  /\ Goto(r, FirstStep(o))
  /\ op' = [op EXCEPT ![r] = o]
  /\ tok' = [tok EXCEPT ![r] = t]
  /\ subj' = [subj EXCEPT ![r] = u]
  /\ marks' = [marks EXCEPT ![r] = {m \in Marks : MarkedAtStart(m, o, t)}]
  /\ UNCHANGED <<now, stores, resetVars, ts, sess, clients>>

\* is_revoked(token): refresh, me, tenant_select.
CheckRevocation(r) ==
  /\ pc[r] = "revocation"
  /\ IF tok[r] \in revoked THEN Reply(r, "refused") ELSE Goto(r, "jwt")
  /\ UNCHANGED <<now, stores, resetVars, op, tok, subj, ts, sess, marks,
                 clients>>

\* The step that follows a JWT found valid.
AfterJwt(o, t) ==
  CASE o \in {"refresh", "validate"} -> "boundary"
    [] o = "me" -> IF t.drn = "DS" THEN "load" ELSE "boundary"
    [] o \in {"logout", "logoutAll"} -> "revoke"
    [] OTHER -> "load"

JwtAccepted(o, t) ==
  /\ IF o \in {"validate", "updateJwt"} THEN ValidAsSession(t)
     ELSE ValidAsRefresh(t)
  /\ o = "stopImpersonation" => t.act # NoOne

CheckJwt(r) ==
  /\ pc[r] = "jwt"
  /\ IF JwtAccepted(op[r], tok[r])
     THEN /\ Goto(r, AfterJwt(op[r], tok[r]))
          /\ subj' = [subj EXCEPT ![r] = IF op[r] = "stopImpersonation"
                                         THEN tok[r].act ELSE @]
     ELSE Reply(r, "refused") /\ UNCHANGED subj
  /\ UNCHANGED <<now, stores, resetVars, op, tok, ts, sess, marks, clients>>

\* iat < revoked_at: refresh, validate, and me with a refresh JWT.
BehindBoundary(t) == t.iat < boundary[t.sub]

CheckBoundary(r) ==
  /\ pc[r] = "boundary"
  /\ IF BehindBoundary(tok[r]) THEN Reply(r, "refused")
     ELSE IF op[r] = "validate" THEN Reply(r, "ok") ELSE Goto(r, "load")
  /\ UNCHANGED <<now, stores, resetVars, op, tok, subj, ts, sess, marks,
                 clients>>

\* logout and logout_all put the JWT string in the revoked set.
Revoke(r) ==
  /\ pc[r] = "revoke"
  /\ revoked' = revoked \cup {tok[r]}
  /\ IF op[r] = "logout"
     THEN /\ Reply(r, "ok")
          /\ loggedOut' = loggedOut \cup {tok[r]}
          /\ UNCHANGED ts
     ELSE /\ Goto(r, "setBoundary")
          /\ ts' = [ts EXCEPT ![r] = tok[r].iat]
          /\ UNCHANGED loggedOut
  /\ UNCHANGED <<now, status, boundary, resetVars, op, tok, subj, sess, marks,
                 issued, forcedOut>>

\* Mutant of Later: a plain insert.
LaterOverwrites(old, new) == new

\* The per-user boundary only ever moves forward.
Later(old, new) == IF new > old THEN new ELSE old

\* Mutant of NewBoundary: force_logout without its extra second.
NewBoundaryNow(r) == ts[r]

\* force_logout stores one second more than the second it read the clock in, so
\* that JWTs of that second fall behind it; logout_all stores its JWT's iat.
NewBoundary(r) == IF op[r] = "forceLogout" THEN ts[r] + 1 ELSE ts[r]

SetBoundary(r) ==
  /\ pc[r] = "setBoundary"
  /\ boundary' = [boundary EXCEPT ![subj[r]] = Later(@, NewBoundary(r))]
  /\ Reply(r, "ok")
  /\ IF op[r] = "logoutAll"
     THEN /\ loggedOut' = IF "revokedCleared" \in marks[r] THEN loggedOut
                          ELSE loggedOut \cup {tok[r]}
          /\ UNCHANGED forcedOut
     ELSE /\ forcedOut' = forcedOut \cup
                {t \in issued : t.sub = subj[r] /\ t.iat <= ts[r]}
          /\ UNCHANGED loggedOut
  /\ UNCHANGED <<now, status, revoked, resetVars, op, tok, subj, ts, sess,
                 marks, issued>>

\* Handlers that refuse a disabled user, and those that only need it to exist.
ChecksStatus == {"signIn", "refresh", "tenantSelect"}

UserAccepted(o, u) ==
  /\ status[u] # "absent"
  /\ o \in ChecksStatus => status[u] # "disabled"
  /\ o = "tenantSelect" => u \in TenantMembers

AfterLoad(o) ==
  CASE o = "forceLogout" -> "setBoundary"
    [] o = "me" -> "ok"
    [] o \in {"impersonate", "stopImpersonation"} -> "mintRefresh"
    [] OTHER -> "mintSession"

\* The read lock on `users` is taken here; force_logout and me let it go at
\* once, the others keep it until their tokens are minted.  force_logout reads
\* the clock here, before it waits for the lock of the revocations.
LoadUser(r) ==
  /\ pc[r] = "load"
  /\ IF UserAccepted(op[r], subj[r]) THEN Goto(r, AfterLoad(op[r]))
     ELSE Reply(r, "refused")
  /\ ts' = [ts EXCEPT ![r] = IF op[r] = "forceLogout" THEN now ELSE @]
  /\ UNCHANGED <<now, stores, resetVars, op, tok, subj, sess, marks, clients>>

\* Mutant of SessionActor: the JWT where its actor belongs.
SessionActorJwt(r) == tok[r]

\* Impersonation travels on the refresh JWT; refresh puts the actor back on
\* the session, tenant_select and jwt/update rebuild it without one.
SessionActor(r) == IF op[r] = "refresh" THEN tok[r].act ELSE NoOne

MintSession(r) ==
  /\ pc[r] = "mintSession"
  /\ LET jwt == SessionJwt(subj[r], now, SessionActor(r), op[r] = "tenantSelect")
     IN  /\ sess' = [sess EXCEPT ![r] = jwt]
         /\ IF op[r] = "updateJwt"
            THEN Reply(r, "ok") /\ issued' = issued \cup {jwt}
            ELSE Goto(r, "mintRefresh") /\ UNCHANGED issued
  /\ UNCHANGED <<now, stores, resetVars, op, tok, subj, ts, marks, loggedOut,
                 forcedOut>>

\* Mutant of RefreshActors: refresh mints with generate_refresh_jwt.
RefreshActorsPlain(r) == IF op[r] = "impersonate" THEN Users ELSE {NoOne}

\* impersonate records its caller; any user id may be named.
RefreshActors(r) ==
  CASE op[r] = "impersonate" -> Users
    [] op[r] = "refresh" -> {tok[r].act}
    [] OTHER -> {NoOne}

MintRefresh(r) ==
  /\ pc[r] = "mintRefresh"
  /\ Reply(r, "ok")
  /\ \E act \in RefreshActors(r) :
       issued' = issued \cup {RefreshJwt(subj[r], now, act)}
                        \cup ({sess[r]} \ {NoToken})
  /\ UNCHANGED <<now, stores, resetVars, op, tok, subj, ts, sess, marks,
                 loggedOut, forcedOut>>

Handler(r) ==
  \/ CheckRevocation(r) \/ CheckJwt(r) \/ CheckBoundary(r) \/ Revoke(r)
  \/ SetBoundary(r) \/ LoadUser(r) \/ MintSession(r) \/ MintRefresh(r)

-----------------------------------------------------------------------------
(* Management, reset and the clock.  A write to `users` waits for the        *)
(* requests that hold its read lock.                                         *)

UsersWritable == LockHolders = {}

SetStatus(u, s) ==
  /\ UsersWritable
  /\ status[u] # "absent" /\ status[u] # s
  /\ status' = [status EXCEPT ![u] = s]
  /\ UNCHANGED <<now, revoked, boundary, resetVars, request, clients>>

DeleteUser(u) ==
  /\ UsersWritable
  /\ status[u] # "absent"
  /\ status' = [status EXCEPT ![u] = "absent"]
  /\ UNCHANGED <<now, revoked, boundary, resetVars, request, clients>>

\* reset_stores clears one store after the other; a snapshot import runs it
\* first and then restores users, under the ids they had when exported.  One
\* reset or import runs at a time.
ResetUsers ==
  /\ UsersWritable
  /\ resetPc = "idle" /\ resets < MaxResets
  /\ resets' = resets + 1
  /\ status' = [u \in Users |-> "absent"]
  /\ resetPc' = "revoked"
  /\ UNCHANGED <<now, revoked, boundary, request, clients>>

ResetRevoked ==
  /\ resetPc = "revoked"
  /\ revoked' = {}
  /\ loggedOut' = {}
  /\ marks' = [r \in Reqs |-> marks[r] \cup {"revokedCleared"}]
  /\ resetPc' = "boundary"
  /\ UNCHANGED <<now, status, boundary, resets, pc, op, tok, subj, ts, sess,
                 issued, forcedOut>>

ResetBoundary ==
  /\ resetPc = "boundary"
  /\ boundary' = [u \in Users |-> 0]
  /\ forcedOut' = {}
  /\ marks' = [r \in Reqs |-> marks[r] \cup {"boundaryCleared"}]
  /\ resetPc' = "restore"
  /\ UNCHANGED <<now, status, revoked, resets, pc, op, tok, subj, ts, sess,
                 issued, loggedOut>>

FinishReset(restored) ==
  /\ resetPc = "restore"
  /\ restored # {} => UsersWritable
  /\ status' = [u \in Users |-> IF u \in restored THEN "enabled" ELSE status[u]]
  /\ resetPc' = "idle"
  /\ UNCHANGED <<now, revoked, boundary, resets, request, clients>>

Tick ==
  /\ now < MaxTime
  /\ now' = now + 1
  /\ UNCHANGED <<stores, resetVars, request, clients>>

-----------------------------------------------------------------------------
Init ==
  /\ now = 0
  /\ status = [u \in Users |-> "enabled"]
  /\ revoked = {}
  /\ boundary = [u \in Users |-> 0]
  /\ resetPc = "idle" /\ resets = 0
  /\ pc = [r \in Reqs |-> "idle"]
  /\ op = [r \in Reqs |-> "me"]
  /\ tok = [r \in Reqs |-> NoToken]
  /\ subj = [r \in Reqs |-> NoOne]
  /\ ts = [r \in Reqs |-> 0]
  /\ sess = [r \in Reqs |-> NoToken]
  /\ issued = {} /\ loggedOut = {} /\ forcedOut = {}
  /\ marks = [r \in Reqs |-> {}]

Next ==
  \/ \E r \in Reqs, o \in Ops, t \in issued \cup {NoToken}, u \in Users :
       Start(r, o, t, u)
  \/ \E r \in Reqs : Handler(r)
  \/ \E u \in Users : DeleteUser(u)
  \/ \E u \in Users, s \in {"enabled", "disabled"} : SetStatus(u, s)
  \/ ResetUsers \/ ResetRevoked \/ ResetBoundary
  \/ \E restored \in SUBSET Users : FinishReset(restored)
  \/ Tick

Spec == Init /\ [][Next]_vars

-----------------------------------------------------------------------------
(* Properties *)

Steps == {"idle", "revocation", "jwt", "boundary", "revoke", "setBoundary",
          "load", "mintSession", "mintRefresh", "ok", "refused"}

\* Every variable keeps its shape.
TypeOK ==
  /\ now \in Nat
  /\ status \in [Users -> {"enabled", "disabled", "absent"}]
  /\ revoked \in SUBSET Tokens
  /\ boundary \in [Users -> Nat]
  /\ resetPc \in {"idle", "revoked", "boundary", "restore"} /\ resets \in Nat
  /\ pc \in [Reqs -> Steps]
  /\ op \in [Reqs -> AllOps]
  /\ tok \in [Reqs -> Tokens \cup {NoToken}]
  /\ subj \in [Reqs -> Users \cup {NoOne}]
  /\ ts \in [Reqs -> Nat]
  /\ sess \in [Reqs -> Tokens \cup {NoToken}]
  /\ issued \in SUBSET Tokens
  /\ loggedOut \in SUBSET Tokens /\ forcedOut \in SUBSET Tokens
  /\ marks \in [Reqs -> SUBSET Marks]

\* The JWT was logged out (or its user forced out) when the request began, and
\* no reset has forgotten it since.
LoggedOutBefore(r) ==
  "loggedOut" \in marks[r] /\ "revokedCleared" \notin marks[r]
ForcedOutBefore(r) ==
  "forcedOut" \in marks[r] /\ "boundaryCleared" \notin marks[r]

Succeeded(r, ops) == pc[r] = "ok" /\ op[r] \in ops

\* Once a logout or logout_all has answered ok, its JWT opens nothing: a
\* refresh, me or tenant_select that begins later with that JWT never
\* succeeds, however it interleaves with other requests, unless a reset
\* emptied the revocation set after it began.
LogoutIsFinal ==
  \A r \in Reqs : Succeeded(r, {"refresh", "me", "tenantSelect"})
    => ~LoggedOutBefore(r)

\* Once force_logout has answered ok, the user's earlier JWTs are refused by
\* every later refresh and validate, and by me when given a refresh JWT, even
\* though the boundary was computed before the lock it is stored under.
ForceLogoutIsFinal ==
  \A r \in Reqs :
    \/ Succeeded(r, {"refresh", "validate"})
    \/ Succeeded(r, {"me"}) /\ tok[r].drn = "DSR"
    => ~ForcedOutBefore(r)

\* The status check and the minting that follows it are one critical section:
\* while sign-in, refresh or tenant_select mint, their user exists and is not
\* disabled, whatever management calls and resets run meanwhile.
MintsOnlyForLiveUsers ==
  \A r \in Reqs : pc[r] \in {"mintSession", "mintRefresh"} =>
    /\ status[subj[r]] # "absent"
    /\ op[r] \in ChecksStatus => status[subj[r]] # "disabled"

\* No request moves a user's revocation boundary back, in whatever order a
\* logout_all with an old JWT and a force_logout store theirs; only a reset
\* clears it.
BoundaryNeverMovesBack ==
  [][ \/ \A u \in Users : boundary'[u] >= boundary[u]
      \/ resetPc = "boundary" /\ resetPc' = "restore" ]_vars

\* An impersonation survives any chain of refreshes: a JWT of `u` without an
\* actor exists only if `u` signed in, was returned to by stop_impersonation,
\* or a JWT of `u` went through tenant_select or jwt/update.
ImpersonationSurvivesRefresh ==
  \A t \in issued : t.act = NoOne =>
    \E r \in Reqs : /\ op[r] \in {"signIn", "stopImpersonation",
                                    "tenantSelect", "updateJwt"}
                     /\ pc[r] \in {"mintRefresh", "ok"} /\ subj[r] = t.sub

\* openspec user-mgmt-extended: force logout invalidates all existing tokens
\* of the user, so none of the handlers that exchange a refresh JWT for new
\* tokens succeeds with an earlier one.
ForceLogoutInvalidatesAllTokens ==
  \A r \in Reqs :
    /\ Succeeded(r, {"refresh", "tenantSelect"}) /\ tok[r].drn = "DSR"
    => ~ForcedOutBefore(r)

\* openspec session-flows and the comment in logout_all: a JWT issued by a
\* sign-in that began after logout_all is accepted by refresh.
SignInAfterLogoutAllIsAccepted ==
  [][ \A r \in Reqs :
        /\ pc[r] = "mintRefresh" /\ pc'[r] = "ok"
        /\ "afterLogoutAll" \in marks[r]
        => RefreshJwt(subj[r], now, NoOne) \notin revoked ]_vars

=============================================================================
