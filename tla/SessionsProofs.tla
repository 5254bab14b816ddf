--------------------------- MODULE SessionsProofs ---------------------------
(***************************************************************************)
(* Safety of Sessions for every set of users and requests, and without the *)
(* bounds TLC needs.  StepInv ties each step to the handlers that reach    *)
(* it; the other parts say what a logged-out or forced-out JWT has met.    *)
(***************************************************************************)
EXTENDS Sessions, TLAPS

\* The steps each handler can be at once it has started.
StepsOf(o) ==
  {"ok", "refused"} \cup
  CASE o = "signIn" -> {"load", "mintSession", "mintRefresh"}
    [] o \in {"refresh", "me"} ->
         {"revocation", "jwt", "boundary", "load"} \cup
         (IF o = "me" THEN {} ELSE {"mintSession", "mintRefresh"})
    [] o = "tenantSelect" ->
         {"revocation", "jwt", "load", "mintSession", "mintRefresh"}
    [] o = "validate" -> {"jwt", "boundary"}
    [] o = "logout" -> {"jwt", "revoke"}
    [] o = "logoutAll" -> {"jwt", "revoke", "setBoundary"}
    [] o = "forceLogout" -> {"load", "setBoundary"}
    [] o = "impersonate" -> {"load", "mintRefresh"}
    [] o = "stopImpersonation" -> {"jwt", "load", "mintRefresh"}
    [] OTHER -> {"jwt", "load", "mintSession"}

StepInv ==
  \A r \in Reqs : pc[r] # "idle" =>
    /\ pc[r] \in StepsOf(op[r])
    /\ subj[r] \in Users
    /\ op[r] \in TokenOps => tok[r] \in Tokens

TypeInv == TypeOK /\ StepInv

\* A logged-out JWT is in the revoked set and the requests that look there
\* before anything else do not get past it.
LogoutInv ==
  /\ loggedOut \subseteq revoked
  /\ \A r \in Reqs :
       /\ /\ op[r] = "logoutAll" /\ pc[r] = "setBoundary"
          /\ "revokedCleared" \notin marks[r]
          => tok[r] \in revoked
       /\ LoggedOutBefore(r) =>
            /\ tok[r] \in revoked
            /\ op[r] \in {"refresh", "me", "tenantSelect"} =>
                 pc[r] \in {"idle", "revocation", "refused"}

\* The requests that compare their JWT with the user's boundary.
ReadsBoundary(r) ==
  op[r] \in {"refresh", "validate"} \/ (op[r] = "me" /\ tok[r].drn = "DSR")

\* A forced-out JWT is behind its user's boundary, which never moves back.
ForceLogoutInv ==
  /\ \A t \in forcedOut : BehindBoundary(t)
  /\ \A r \in Reqs : ForcedOutBefore(r) =>
       /\ tok[r] \in Tokens /\ BehindBoundary(tok[r])
       /\ ReadsBoundary(r) =>
            pc[r] \in {"idle", "revocation", "jwt", "boundary", "refused"}

\* What a request mints has the actor and the user its own JWT gave it.
MintInv ==
  \A r \in Reqs :
    /\ sess[r] # NoToken => pc[r] \in {"mintRefresh", "ok"}
    /\ pc[r] # "idle" =>
         /\ op[r] \in TokenOps => tok[r] \in issued
         /\ op[r] \in TokenOps \ {"stopImpersonation"} => subj[r] = tok[r].sub
         /\ sess[r] # NoToken => op[r] # "impersonate"
    /\ pc[r] = "mintRefresh" /\ sess[r] # NoToken =>
         sess[r].sub = subj[r] /\ sess[r].act = SessionActor(r)

\* Some request has put the user's own, actor-less session in place.
OwnSession(u) ==
  \E r \in Reqs : /\ op[r] \in {"signIn", "stopImpersonation", "tenantSelect", "updateJwt"}
                  /\ pc[r] \in {"mintRefresh", "ok"} /\ subj[r] = u

-----------------------------------------------------------------------------
(* Type correctness *)

LEMMA JwtTypes ==
  ASSUME NEW u \in Users, NEW t \in Nat, NEW a \in Users \cup {NoOne},
         NEW d \in BOOLEAN
  PROVE  SessionJwt(u, t, a, d) \in Tokens /\ RefreshJwt(u, t, a) \in Tokens
BY DEF SessionJwt, RefreshJwt, Tokens

LEMMA StepSets == \A o \in AllOps : StepsOf(o) \subseteq Steps
BY DEF AllOps, StepsOf, Steps

LEMMA TypeInit == Init => TypeInv
BY SessionsAssumption DEF Init, TypeInv, TypeOK, StepInv, Steps, AllOps

LEMMA TypeNext == TypeInv /\ [Next]_vars => TypeInv'
<1> SUFFICES ASSUME TypeInv, [Next]_vars PROVE TypeInv'
  OBVIOUS
<1> USE SessionsAssumption DEF TypeInv
<1>1. ASSUME NEW r \in Reqs, NEW o \in Ops, NEW t \in issued \cup {NoToken},
             NEW u \in Users, Start(r, o, t, u)
      PROVE TypeInv'
  <2>1. o \in AllOps /\ FirstStep(o) \in StepsOf(o) \cap Steps
    BY DEF AllOps, FirstStep, StepsOf, Steps, UserOps
  <2>2. TypeOK'
    BY <1>1, <2>1 DEF Start, Goto, TypeOK, stores, resetVars, clients
  <2>3. StepInv'
    BY <1>1, <2>1 DEF Start, Goto, StepInv, TypeOK, TokenOps
  <2>4. QED BY <2>2, <2>3
<1>2. ASSUME NEW r \in Reqs, CheckRevocation(r) PROVE TypeInv'
  <2>1. pc[r] = "revocation" /\ "jwt" \in StepsOf(op[r]) /\ "refused" \in StepsOf(op[r])
    BY <1>2 DEF CheckRevocation, StepInv, StepsOf, TypeOK, AllOps
  <2>2. TypeOK'
    BY <1>2 DEF CheckRevocation, Goto, Reply, TypeOK, Steps, stores, resetVars, clients
  <2>3. StepInv'
    BY <1>2, <2>1 DEF CheckRevocation, Goto, Reply, StepInv, TypeOK
  <2>4. QED BY <2>2, <2>3
<1>3. ASSUME NEW r \in Reqs, CheckJwt(r) PROVE TypeInv'
  <2>1. op[r] \in TokenOps /\ tok[r] \in Tokens /\ subj[r] \in Users
    BY <1>3 DEF CheckJwt, StepInv, StepsOf, TypeOK, AllOps, TokenOps, UserOps
  <2>2. AfterJwt(op[r], tok[r]) \in StepsOf(op[r]) \cap Steps
    BY <1>3, <2>1 DEF CheckJwt, StepInv, StepsOf, Steps, AfterJwt, TypeOK, AllOps, TokenOps, UserOps
  <2>3. "refused" \in StepsOf(op[r]) \cap Steps
    BY DEF StepsOf, Steps
  <2>4. JwtAccepted(op[r], tok[r]) /\ op[r] = "stopImpersonation" => tok[r].act \in Users
    BY <2>1 DEF JwtAccepted, Tokens
  <2>5. TypeOK'
    BY <1>3, <2>1, <2>2, <2>3, <2>4 DEF CheckJwt, Goto, Reply, TypeOK, stores, resetVars, clients
  <2>6. StepInv'
    BY <1>3, <2>1, <2>2, <2>3, <2>4 DEF CheckJwt, Goto, Reply, StepInv, TypeOK
  <2>7. QED BY <2>5, <2>6
<1>4. ASSUME NEW r \in Reqs, CheckBoundary(r) PROVE TypeInv'
  <2>1. op[r] # "validate" => "load" \in StepsOf(op[r])
    BY <1>4 DEF CheckBoundary, StepInv, StepsOf, TypeOK, AllOps
  <2>2. {"ok", "refused"} \subseteq StepsOf(op[r])
    BY DEF StepsOf
  <2>3. TypeOK'
    BY <1>4 DEF CheckBoundary, Goto, Reply, TypeOK, Steps, stores, resetVars, clients
  <2>4. StepInv'
    BY <1>4, <2>1, <2>2 DEF CheckBoundary, Goto, Reply, StepInv, TypeOK
  <2>5. QED BY <2>3, <2>4
<1>5. ASSUME NEW r \in Reqs, Revoke(r) PROVE TypeInv'
  <2>1. op[r] \in {"logout", "logoutAll"} /\ tok[r] \in Tokens
    BY <1>5 DEF Revoke, StepInv, StepsOf, TypeOK, AllOps, TokenOps, UserOps
  <2>2. {"ok", IF op[r] = "logout" THEN "ok" ELSE "setBoundary"} \subseteq StepsOf(op[r])
    BY <2>1 DEF StepsOf
  <2>3. tok[r].iat \in Nat
    BY <2>1 DEF Tokens
  <2>4. TypeOK'
    BY <1>5, <2>1, <2>3 DEF Revoke, Goto, Reply, TypeOK, Steps, resetVars
  <2>5. StepInv'
    BY <1>5, <2>1, <2>2 DEF Revoke, Goto, Reply, StepInv, TypeOK
  <2>6. QED BY <2>4, <2>5
<1>6. ASSUME NEW r \in Reqs, SetBoundary(r) PROVE TypeInv'
  <2>1. subj[r] \in Users /\ (op[r] = "logoutAll" => tok[r] \in Tokens)
    BY <1>6 DEF SetBoundary, StepInv, TypeOK, TokenOps, UserOps, AllOps
  <2>2. NewBoundary(r) \in Nat
    BY DEF NewBoundary, TypeOK
  <2>3. Later(boundary[subj[r]], NewBoundary(r)) \in Nat
    BY <2>1, <2>2 DEF Later, TypeOK
  <2>4. TypeOK'
    BY <1>6, <2>1, <2>3 DEF SetBoundary, Reply, TypeOK, Steps, resetVars
  <2>5. "ok" \in StepsOf(op[r])
    BY DEF StepsOf
  <2>6. StepInv'
    BY <1>6, <2>5 DEF SetBoundary, Reply, StepInv, TypeOK
  <2>7. QED BY <2>4, <2>6
<1>7. ASSUME NEW r \in Reqs, LoadUser(r) PROVE TypeInv'
  <2>1. AfterLoad(op[r]) \in StepsOf(op[r]) \cap Steps
    BY <1>7 DEF LoadUser, StepInv, StepsOf, Steps, AfterLoad, TypeOK, AllOps
  <2>2. "refused" \in StepsOf(op[r]) \cap Steps
    BY DEF StepsOf, Steps
  <2>3. TypeOK'
    BY <1>7, <2>1, <2>2 DEF LoadUser, Goto, Reply, TypeOK, stores, resetVars, clients
  <2>4. StepInv'
    BY <1>7, <2>1, <2>2 DEF LoadUser, Goto, Reply, StepInv, TypeOK
  <2>5. QED BY <2>3, <2>4
<1>8. ASSUME NEW r \in Reqs, MintSession(r) PROVE TypeInv'
  <2>1. subj[r] \in Users /\ (op[r] = "refresh" => tok[r] \in Tokens)
    BY <1>8 DEF MintSession, StepInv, TypeOK, TokenOps, UserOps, AllOps
  <2>2. SessionActor(r) \in Users \cup {NoOne}
    BY <2>1 DEF SessionActor, Tokens
  <2>3. SessionJwt(subj[r], now, SessionActor(r), op[r] = "tenantSelect") \in Tokens
    BY <2>1, <2>2, JwtTypes DEF TypeOK
  <2>4. IF op[r] = "updateJwt" THEN "ok" \in StepsOf(op[r])
        ELSE "mintRefresh" \in StepsOf(op[r])
    BY <1>8 DEF MintSession, StepInv, StepsOf, TypeOK, AllOps
  <2>5. TypeOK'
    BY <1>8, <2>3 DEF MintSession, Goto, Reply, TypeOK, Steps, stores, resetVars
  <2>6. StepInv'
    BY <1>8, <2>4 DEF MintSession, Goto, Reply, StepInv, TypeOK
  <2>7. QED BY <2>5, <2>6
<1>9. ASSUME NEW r \in Reqs, MintRefresh(r) PROVE TypeInv'
  <2>1. subj[r] \in Users /\ (op[r] = "refresh" => tok[r] \in Tokens)
    BY <1>9 DEF MintRefresh, StepInv, TypeOK, TokenOps, UserOps, AllOps
  <2>2. RefreshActors(r) \subseteq Users \cup {NoOne}
    BY <2>1 DEF RefreshActors, Tokens
  <2>3. \A act \in RefreshActors(r) : RefreshJwt(subj[r], now, act) \in Tokens
    BY <2>1, <2>2, JwtTypes DEF TypeOK
  <2>4. sess[r] \in Tokens \cup {NoToken}
    BY DEF TypeOK
  <2>5. issued' \in SUBSET Tokens
    BY <1>9, <2>3, <2>4 DEF MintRefresh, TypeOK
  <2>6. TypeOK'
    BY <1>9, <2>5 DEF MintRefresh, Reply, TypeOK, Steps, stores, resetVars
  <2>7. "ok" \in StepsOf(op[r])
    BY DEF StepsOf
  <2>8. StepInv'
    BY <1>9, <2>7 DEF MintRefresh, Reply, StepInv, TypeOK
  <2>9. QED BY <2>6, <2>8
<1>10. ASSUME NEW u \in Users, DeleteUser(u) PROVE TypeInv'
  BY <1>10 DEF DeleteUser, TypeOK, StepInv, resetVars, request, clients
<1>11. ASSUME NEW u \in Users, NEW s \in {"enabled", "disabled"}, SetStatus(u, s)
       PROVE TypeInv'
  BY <1>11 DEF SetStatus, TypeOK, StepInv, resetVars, request, clients
<1>12. CASE ResetUsers
  BY <1>12 DEF ResetUsers, TypeOK, StepInv, request, clients
<1>13. CASE ResetRevoked
  <2>1. TypeOK'
    BY <1>13 DEF ResetRevoked, TypeOK, Marks
  <2>2. StepInv'
    BY <1>13 DEF ResetRevoked, StepInv
  <2>3. QED BY <2>1, <2>2
<1>14. CASE ResetBoundary
  <2>1. TypeOK'
    BY <1>14 DEF ResetBoundary, TypeOK, Marks
  <2>2. StepInv'
    BY <1>14 DEF ResetBoundary, StepInv
  <2>3. QED BY <2>1, <2>2
<1>15. ASSUME NEW restored \in SUBSET Users, FinishReset(restored) PROVE TypeInv'
  BY <1>15 DEF FinishReset, TypeOK, StepInv, request, clients
<1>16. CASE Tick
  BY <1>16 DEF Tick, TypeOK, StepInv, stores, resetVars, request, clients
<1>17. CASE UNCHANGED vars
  BY <1>17 DEF vars, TypeOK, StepInv, stores, resetVars, request, clients
<1>18. QED
  BY <1>1, <1>2, <1>3, <1>4, <1>5, <1>6, <1>7, <1>8, <1>9, <1>10, <1>11,
     <1>12, <1>13, <1>14, <1>15, <1>16, <1>17 DEF Next, Handler

\* Every variable keeps its shape, for any sets of users and requests.
THEOREM TypeCorrect == Spec => []TypeOK
<1>1. Spec => []TypeInv
  BY TypeInit, TypeNext, PTL DEF Spec
<1>2. TypeInv => TypeOK
  BY DEF TypeInv
<1>3. QED BY <1>1, <1>2, PTL

-----------------------------------------------------------------------------
(* Logout is final *)

LEMMA LogoutInit == Init => LogoutInv
BY DEF Init, LogoutInv, LoggedOutBefore

\* The steps that touch neither the revoked set, the marks, nor what LogoutInv
\* reads of a request.
LEMMA LogoutFrame ==
  ASSUME LogoutInv, UNCHANGED <<revoked, loggedOut, op, tok, marks, pc>>
  PROVE  LogoutInv'
BY DEF LogoutInv, LoggedOutBefore

\* A request's own step keeps LogoutInv when it leaves the revoked set alone
\* and moves on from a step a logged-out JWT does not reach.
LEMMA LogoutStep ==
  ASSUME LogoutInv, TypeOK, NEW r \in Reqs, NEW s,
         UNCHANGED <<revoked, loggedOut, op, tok, marks>>,
         pc' = [pc EXCEPT ![r] = s], s # "setBoundary" \/ op[r] # "logoutAll",
         \/ pc[r] \notin {"idle", "revocation", "refused"}
         \/ s = "refused"
         \/ tok[r] \notin revoked
  PROVE  LogoutInv'
BY DEF LogoutInv, LoggedOutBefore, TypeOK

LEMMA LogoutNext == TypeInv /\ LogoutInv /\ [Next]_vars => LogoutInv'
<1> SUFFICES ASSUME TypeInv, LogoutInv, [Next]_vars PROVE LogoutInv'
  OBVIOUS
<1> USE DEF TypeInv
<1>1. ASSUME NEW r \in Reqs, NEW o \in Ops, NEW t \in issued \cup {NoToken},
             NEW u \in Users, Start(r, o, t, u)
      PROVE LogoutInv'
  <2>1. o \in {"refresh", "me", "tenantSelect"} => FirstStep(o) = "revocation"
    BY DEF FirstStep, UserOps
  <2>2. FirstStep(o) # "setBoundary"
    BY DEF FirstStep
  <2>3. "loggedOut" \in marks'[r] => t \in loggedOut
    BY <1>1 DEF Start, MarkedAtStart, TypeOK
  <2>4. QED
    BY <1>1, <2>1, <2>2, <2>3
       DEF Start, Goto, LogoutInv, LoggedOutBefore, TypeOK, stores, clients
<1>2. ASSUME NEW r \in Reqs, CheckRevocation(r) PROVE LogoutInv'
  BY <1>2, LogoutStep DEF CheckRevocation, Goto, Reply, stores, clients
<1>3. ASSUME NEW r \in Reqs, CheckJwt(r) PROVE LogoutInv'
  <2>1. AfterJwt(op[r], tok[r]) # "setBoundary"
    BY DEF AfterJwt
  <2>2. QED
    BY <1>3, <2>1, LogoutStep DEF CheckJwt, Goto, Reply, stores, clients
<1>4. ASSUME NEW r \in Reqs, CheckBoundary(r) PROVE LogoutInv'
  BY <1>4, LogoutStep DEF CheckBoundary, Goto, Reply, stores, clients
<1>5. ASSUME NEW r \in Reqs, Revoke(r) PROVE LogoutInv'
  <2>1. op[r] \in {"logout", "logoutAll"}
    BY <1>5 DEF Revoke, StepInv, StepsOf, TypeOK, AllOps
  <2>2. QED
    BY <1>5, <2>1 DEF Revoke, Goto, Reply, LogoutInv, LoggedOutBefore, TypeOK
<1>6. ASSUME NEW r \in Reqs, SetBoundary(r) PROVE LogoutInv'
  <2>1. op[r] \in {"logoutAll", "forceLogout"}
    BY <1>6 DEF SetBoundary, StepInv, StepsOf, TypeOK, AllOps
  <2>2. loggedOut' \subseteq revoked
    BY <1>6, <2>1 DEF SetBoundary, LogoutInv
  <2>3. QED
    BY <1>6, <2>1, <2>2
       DEF SetBoundary, Reply, LogoutInv, LoggedOutBefore, TypeOK
<1>7. ASSUME NEW r \in Reqs, LoadUser(r) PROVE LogoutInv'
  <2>1. AfterLoad(op[r]) = "setBoundary" => op[r] # "logoutAll"
    BY DEF AfterLoad
  <2>2. QED
    BY <1>7, <2>1, LogoutStep DEF LoadUser, Goto, Reply, stores, clients
<1>8. ASSUME NEW r \in Reqs, MintSession(r) PROVE LogoutInv'
  BY <1>8, LogoutStep DEF MintSession, Goto, Reply, stores
<1>9. ASSUME NEW r \in Reqs, MintRefresh(r) PROVE LogoutInv'
  BY <1>9, LogoutStep DEF MintRefresh, Reply, stores
<1>10. ASSUME NEW u \in Users, DeleteUser(u) PROVE LogoutInv'
  BY <1>10, LogoutFrame DEF DeleteUser, request, clients
<1>11. ASSUME NEW u \in Users, NEW s \in {"enabled", "disabled"}, SetStatus(u, s)
       PROVE LogoutInv'
  BY <1>11, LogoutFrame DEF SetStatus, request, clients
<1>12. CASE ResetUsers
  BY <1>12, LogoutFrame DEF ResetUsers, request, clients
<1>13. CASE ResetRevoked
  BY <1>13 DEF ResetRevoked, LogoutInv, LoggedOutBefore
<1>14. CASE ResetBoundary
  BY <1>14 DEF ResetBoundary, LogoutInv, LoggedOutBefore
<1>15. ASSUME NEW restored \in SUBSET Users, FinishReset(restored) PROVE LogoutInv'
  BY <1>15, LogoutFrame DEF FinishReset, request, clients
<1>16. CASE Tick
  BY <1>16, LogoutFrame DEF Tick, stores, request, clients
<1>17. CASE UNCHANGED vars
  BY <1>17, LogoutFrame DEF vars, stores, request, clients
<1>18. QED
  BY <1>1, <1>2, <1>3, <1>4, <1>5, <1>6, <1>7, <1>8, <1>9, <1>10, <1>11,
     <1>12, <1>13, <1>14, <1>15, <1>16, <1>17 DEF Next, Handler

\* Once a logout or logout_all (session.rs) has answered ok, no refresh, me or
\* tenant_select that begins later with that JWT succeeds, unless a reset
\* emptied the revocation set after it began.
THEOREM LogoutIsFinalHolds == Spec => []LogoutIsFinal
<1>1. Spec => [](TypeInv /\ LogoutInv)
  BY TypeInit, TypeNext, LogoutInit, LogoutNext, PTL DEF Spec
<1>2. LogoutInv => LogoutIsFinal
  BY DEF LogoutInv, LogoutIsFinal, Succeeded
<1>3. QED BY <1>1, <1>2, PTL

-----------------------------------------------------------------------------
(* Forced logout is final *)

LEMMA ForceLogoutInit == Init => ForceLogoutInv
BY DEF Init, ForceLogoutInv, ForcedOutBefore

LEMMA ForceLogoutFrame ==
  ASSUME ForceLogoutInv, UNCHANGED <<boundary, forcedOut, op, tok, marks, pc>>
  PROVE  ForceLogoutInv'
BY DEF ForceLogoutInv, ForcedOutBefore, BehindBoundary, ReadsBoundary

\* A request's own step keeps ForceLogoutInv when it leaves the boundaries
\* alone and goes where a forced-out JWT may go.
LEMMA ForceLogoutStep ==
  ASSUME ForceLogoutInv, TypeOK, NEW r \in Reqs, NEW s,
         UNCHANGED <<boundary, forcedOut, op, tok, marks>>,
         pc' = [pc EXCEPT ![r] = s],
         \/ pc[r] \notin {"idle", "revocation", "jwt", "boundary", "refused"}
         \/ ReadsBoundary(r) /\ ~BehindBoundary(tok[r])
         \/ ReadsBoundary(r) => s \in {"jwt", "boundary", "refused"}
  PROVE  ForceLogoutInv'
BY DEF ForceLogoutInv, ForcedOutBefore, BehindBoundary, ReadsBoundary, TypeOK

LEMMA ForceLogoutNext ==
  TypeInv /\ ForceLogoutInv /\ [Next]_vars => ForceLogoutInv'
<1> SUFFICES ASSUME TypeInv, ForceLogoutInv, [Next]_vars PROVE ForceLogoutInv'
  OBVIOUS
<1> USE DEF TypeInv
<1>1. ASSUME NEW r \in Reqs, NEW o \in Ops, NEW t \in issued \cup {NoToken},
             NEW u \in Users, Start(r, o, t, u)
      PROVE ForceLogoutInv'
  <2>1. o \in {"refresh", "me", "validate"} => FirstStep(o) \in {"revocation", "jwt"}
    BY DEF FirstStep, UserOps
  <2>2. "forcedOut" \in marks'[r] => t \in forcedOut
    BY <1>1 DEF Start, MarkedAtStart, TypeOK
  <2>3. forcedOut \subseteq Tokens
    BY DEF TypeOK
  <2>4. QED
    BY <1>1, <2>1, <2>2, <2>3
       DEF Start, Goto, ForceLogoutInv, ForcedOutBefore, ReadsBoundary,
           BehindBoundary, TypeOK, stores, clients
<1>2. ASSUME NEW r \in Reqs, CheckRevocation(r) PROVE ForceLogoutInv'
  BY <1>2, ForceLogoutStep DEF CheckRevocation, Goto, Reply, stores, clients
<1>3. ASSUME NEW r \in Reqs, CheckJwt(r) PROVE ForceLogoutInv'
  <2>1. ReadsBoundary(r) => AfterJwt(op[r], tok[r]) = "boundary"
    BY DEF AfterJwt, ReadsBoundary
  <2>2. QED
    BY <1>3, <2>1, ForceLogoutStep DEF CheckJwt, Goto, Reply, stores, clients
<1>4. ASSUME NEW r \in Reqs, CheckBoundary(r) PROVE ForceLogoutInv'
  BY <1>4, ForceLogoutStep DEF CheckBoundary, Goto, Reply, stores, clients
<1>5. ASSUME NEW r \in Reqs, Revoke(r) PROVE ForceLogoutInv'
  BY <1>5, ForceLogoutStep DEF Revoke, Goto, Reply
<1>6. ASSUME NEW r \in Reqs, SetBoundary(r) PROVE ForceLogoutInv'
  <2>1. /\ subj[r] \in Users /\ ts[r] \in Nat
        /\ \A u \in Users : boundary[u] \in Nat
        /\ issued \subseteq Tokens /\ forcedOut \subseteq Tokens
    BY <1>6 DEF SetBoundary, StepInv, TypeOK
  <2>2. op[r] \in {"logoutAll", "forceLogout"}
    BY <1>6 DEF SetBoundary, StepInv, StepsOf, TypeOK, AllOps
  <2>3. \A u \in Users : boundary'[u] >= boundary[u] /\ boundary'[u] \in Nat
    BY <1>6, <2>1 DEF SetBoundary, Later, NewBoundary, TypeOK
  <2>4. \A t \in Tokens : BehindBoundary(t) => BehindBoundary(t)'
    BY <2>1, <2>3 DEF BehindBoundary, Tokens
  <2>5. op[r] = "forceLogout" => boundary'[subj[r]] >= ts[r] + 1
    BY <1>6, <2>1 DEF SetBoundary, Later, NewBoundary, TypeOK
  <2>6. ASSUME NEW t \in forcedOut' PROVE BehindBoundary(t)'
    <3>1. CASE t \in forcedOut
      BY <2>1, <2>4, <3>1 DEF ForceLogoutInv
    <3>2. CASE t \notin forcedOut
      <4>1. op[r] = "forceLogout" /\ t.sub = subj[r] /\ t.iat <= ts[r] /\ t \in Tokens
        BY <1>6, <2>1, <2>2, <3>2 DEF SetBoundary
      <4>2. t.iat \in Nat
        BY <4>1 DEF Tokens
      <4>3. QED
        BY <2>1, <2>3, <2>5, <4>1, <4>2 DEF BehindBoundary
    <3>3. QED BY <3>1, <3>2
  <2>7. ASSUME NEW q \in Reqs, ForcedOutBefore(q)'
        PROVE  /\ tok'[q] \in Tokens /\ BehindBoundary(tok[q])'
               /\ ReadsBoundary(q)' => pc'[q] \in
                    {"idle", "revocation", "jwt", "boundary", "refused"}
    <3>1. ForcedOutBefore(q) /\ UNCHANGED <<tok, op>>
      BY <1>6, <2>7 DEF SetBoundary, ForcedOutBefore
    <3>2. tok[q] \in Tokens /\ BehindBoundary(tok[q])'
      BY <2>4, <3>1 DEF ForceLogoutInv
    <3>3. ReadsBoundary(q)' => pc'[q] = pc[q]
      BY <1>6, <2>2, <3>1 DEF SetBoundary, Reply, ReadsBoundary, TypeOK
    <3>4. QED
      BY <3>1, <3>2, <3>3 DEF ForceLogoutInv, ReadsBoundary
  <2>8. QED
    BY <2>6, <2>7, <1>6 DEF ForceLogoutInv, SetBoundary, BehindBoundary
<1>7. ASSUME NEW r \in Reqs, LoadUser(r) PROVE ForceLogoutInv'
  BY <1>7, ForceLogoutStep DEF LoadUser, Goto, Reply, stores, clients
<1>8. ASSUME NEW r \in Reqs, MintSession(r) PROVE ForceLogoutInv'
  BY <1>8, ForceLogoutStep DEF MintSession, Goto, Reply, stores
<1>9. ASSUME NEW r \in Reqs, MintRefresh(r) PROVE ForceLogoutInv'
  BY <1>9, ForceLogoutStep DEF MintRefresh, Reply, stores
<1>10. ASSUME NEW u \in Users, DeleteUser(u) PROVE ForceLogoutInv'
  BY <1>10, ForceLogoutFrame DEF DeleteUser, request, clients
<1>11. ASSUME NEW u \in Users, NEW s \in {"enabled", "disabled"}, SetStatus(u, s)
       PROVE ForceLogoutInv'
  BY <1>11, ForceLogoutFrame DEF SetStatus, request, clients
<1>12. CASE ResetUsers
  BY <1>12, ForceLogoutFrame DEF ResetUsers, request, clients
<1>13. CASE ResetRevoked
  BY <1>13 DEF ResetRevoked, ForceLogoutInv, ForcedOutBefore, BehindBoundary,
               ReadsBoundary
<1>14. CASE ResetBoundary
  BY <1>14 DEF ResetBoundary, ForceLogoutInv, ForcedOutBefore
<1>15. ASSUME NEW restored \in SUBSET Users, FinishReset(restored)
       PROVE ForceLogoutInv'
  BY <1>15, ForceLogoutFrame DEF FinishReset, request, clients
<1>16. CASE Tick
  BY <1>16, ForceLogoutFrame DEF Tick, stores, request, clients
<1>17. CASE UNCHANGED vars
  BY <1>17, ForceLogoutFrame DEF vars, stores, request, clients
<1>18. QED
  BY <1>1, <1>2, <1>3, <1>4, <1>5, <1>6, <1>7, <1>8, <1>9, <1>10, <1>11,
     <1>12, <1>13, <1>14, <1>15, <1>16, <1>17 DEF Next, Handler

\* Once force_logout (mgmt/user.rs) has answered ok, the user's earlier JWTs
\* are refused by every later refresh and validate, and by me when it is given
\* a refresh JWT, unless a reset cleared the boundaries after it began.
THEOREM ForceLogoutIsFinalHolds == Spec => []ForceLogoutIsFinal
<1>1. Spec => [](TypeInv /\ ForceLogoutInv)
  BY TypeInit, TypeNext, ForceLogoutInit, ForceLogoutNext, PTL DEF Spec
<1>2. ForceLogoutInv => ForceLogoutIsFinal
  BY DEF ForceLogoutInv, ForceLogoutIsFinal, Succeeded, ReadsBoundary
<1>3. QED BY <1>1, <1>2, PTL

-----------------------------------------------------------------------------
(* Minting under the read lock *)

LEMMA MintsInit == Init => MintsOnlyForLiveUsers
BY DEF Init, MintsOnlyForLiveUsers

\* A request's own step keeps the invariant when the users stay as they are
\* and the step does not lead into minting.
LEMMA MintsStep ==
  ASSUME MintsOnlyForLiveUsers, TypeOK, NEW r \in Reqs, NEW s, NEW v,
         UNCHANGED <<status, op>>, subj' \in {subj, [subj EXCEPT ![r] = v]},
         pc' = [pc EXCEPT ![r] = s], s \notin {"mintSession", "mintRefresh"}
  PROVE  MintsOnlyForLiveUsers'
BY DEF MintsOnlyForLiveUsers, TypeOK

LEMMA MintsNext ==
  TypeInv /\ MintsOnlyForLiveUsers /\ [Next]_vars => MintsOnlyForLiveUsers'
<1> SUFFICES ASSUME TypeInv, MintsOnlyForLiveUsers, [Next]_vars
             PROVE  MintsOnlyForLiveUsers'
  OBVIOUS
<1> USE DEF TypeInv
<1>1. ASSUME NEW r \in Reqs, NEW o \in Ops, NEW t \in issued \cup {NoToken},
             NEW u \in Users, Start(r, o, t, u)
      PROVE MintsOnlyForLiveUsers'
  <2>1. FirstStep(o) \notin {"mintSession", "mintRefresh"}
    BY DEF FirstStep
  <2>2. QED
    BY <1>1, <2>1 DEF Start, Goto, MintsOnlyForLiveUsers, TypeOK, stores
<1>2. ASSUME NEW r \in Reqs, CheckRevocation(r) PROVE MintsOnlyForLiveUsers'
  BY <1>2, MintsStep DEF CheckRevocation, Goto, Reply, stores
<1>3. ASSUME NEW r \in Reqs, CheckJwt(r) PROVE MintsOnlyForLiveUsers'
  <2>1. AfterJwt(op[r], tok[r]) \notin {"mintSession", "mintRefresh"}
    BY DEF AfterJwt
  <2>2. QED
    BY <1>3, <2>1, MintsStep DEF CheckJwt, Goto, Reply, stores
<1>4. ASSUME NEW r \in Reqs, CheckBoundary(r) PROVE MintsOnlyForLiveUsers'
  BY <1>4, MintsStep DEF CheckBoundary, Goto, Reply, stores
<1>5. ASSUME NEW r \in Reqs, Revoke(r) PROVE MintsOnlyForLiveUsers'
  BY <1>5, MintsStep DEF Revoke, Goto, Reply
<1>6. ASSUME NEW r \in Reqs, SetBoundary(r) PROVE MintsOnlyForLiveUsers'
  BY <1>6, MintsStep DEF SetBoundary, Reply
<1>7. ASSUME NEW r \in Reqs, LoadUser(r) PROVE MintsOnlyForLiveUsers'
  BY <1>7 DEF LoadUser, Goto, Reply, MintsOnlyForLiveUsers, UserAccepted, TypeOK,
              stores
<1>8. ASSUME NEW r \in Reqs, MintSession(r) PROVE MintsOnlyForLiveUsers'
  BY <1>8 DEF MintSession, Goto, Reply, MintsOnlyForLiveUsers, TypeOK, stores
<1>9. ASSUME NEW r \in Reqs, MintRefresh(r) PROVE MintsOnlyForLiveUsers'
  BY <1>9, MintsStep DEF MintRefresh, Reply, stores
<1>10. ASSUME NEW u \in Users, DeleteUser(u) PROVE MintsOnlyForLiveUsers'
  BY <1>10 DEF DeleteUser, UsersWritable, LockHolders, MintsOnlyForLiveUsers, request
<1>11. ASSUME NEW u \in Users, NEW s \in {"enabled", "disabled"}, SetStatus(u, s)
       PROVE MintsOnlyForLiveUsers'
  BY <1>11 DEF SetStatus, UsersWritable, LockHolders, MintsOnlyForLiveUsers, request
<1>12. CASE ResetUsers
  BY <1>12 DEF ResetUsers, UsersWritable, LockHolders, MintsOnlyForLiveUsers, request
<1>13. CASE ResetRevoked
  BY <1>13 DEF ResetRevoked, MintsOnlyForLiveUsers
<1>14. CASE ResetBoundary
  BY <1>14 DEF ResetBoundary, MintsOnlyForLiveUsers
<1>15. ASSUME NEW restored \in SUBSET Users, FinishReset(restored)
       PROVE MintsOnlyForLiveUsers'
  <2>1. CASE restored = {}
    <3>1. status' = status
      BY <1>15, <2>1 DEF FinishReset, TypeOK
    <3>2. QED
      BY <1>15, <3>1 DEF FinishReset, MintsOnlyForLiveUsers, request
  <2>2. CASE restored # {}
    BY <1>15, <2>2 DEF FinishReset, UsersWritable, LockHolders,
                       MintsOnlyForLiveUsers, request
  <2>3. QED BY <2>1, <2>2
<1>16. CASE Tick
  BY <1>16 DEF Tick, MintsOnlyForLiveUsers, stores, request
<1>17. CASE UNCHANGED vars
  BY <1>17 DEF vars, MintsOnlyForLiveUsers, stores, request
<1>18. QED
  BY <1>1, <1>2, <1>3, <1>4, <1>5, <1>6, <1>7, <1>8, <1>9, <1>10, <1>11,
     <1>12, <1>13, <1>14, <1>15, <1>16, <1>17 DEF Next, Handler

\* Holding the read lock on `users` from the status check to the last JWT
\* (session.rs refresh and tenant_select, password.rs signin) keeps the user
\* present and enabled while its tokens are minted.
THEOREM MintsOnlyForLiveUsersHolds == Spec => []MintsOnlyForLiveUsers
<1>1. Spec => [](TypeInv /\ MintsOnlyForLiveUsers)
  BY TypeInit, TypeNext, MintsInit, MintsNext, PTL DEF Spec
<1>2. QED BY <1>1, PTL

-----------------------------------------------------------------------------
(* Revocation boundaries *)

LEMMA BoundaryStep ==
  TypeInv /\ [Next]_vars =>
    \/ \A u \in Users : boundary'[u] >= boundary[u]
    \/ resetPc = "boundary" /\ resetPc' = "restore"
<1> SUFFICES ASSUME TypeInv, [Next]_vars,
                    ~(resetPc = "boundary" /\ resetPc' = "restore")
             PROVE  \A u \in Users : boundary'[u] >= boundary[u]
  OBVIOUS
<1>1. \A u \in Users : boundary[u] \in Nat
  BY DEF TypeInv, TypeOK
<1>2. CASE boundary' = boundary
  BY <1>1, <1>2
<1>3. ASSUME NEW r \in Reqs, SetBoundary(r)
      PROVE  \A u \in Users : boundary'[u] >= boundary[u]
  <2>1. NewBoundary(r) \in Nat
    BY <1>3 DEF NewBoundary, TypeInv, TypeOK
  <2>2. QED
    BY <1>1, <1>3, <2>1 DEF SetBoundary, Later, TypeInv, TypeOK
<1>4. ASSUME NEW r \in Reqs, Handler(r), ~SetBoundary(r) PROVE boundary' = boundary
  BY <1>4 DEF Handler, CheckRevocation, CheckJwt, CheckBoundary, Revoke,
              LoadUser, MintSession, MintRefresh, stores
<1>5. ASSUME NEW r \in Reqs, NEW o \in Ops, NEW t \in issued \cup {NoToken},
             NEW u \in Users, Start(r, o, t, u)
      PROVE boundary' = boundary
  BY <1>5 DEF Start, stores
<1>6. CASE UNCHANGED vars
  BY <1>2, <1>6 DEF vars, stores
<1>7. QED
  BY <1>2, <1>3, <1>4, <1>5, <1>6
     DEF Next, DeleteUser, SetStatus, ResetUsers, ResetRevoked, ResetBoundary,
         FinishReset, Tick, stores

\* The monotone insert of logout_all and force_logout: only a reset ever moves
\* a user's revocation boundary back.
THEOREM BoundaryNeverMovesBackHolds == Spec => BoundaryNeverMovesBack
<1>1. Spec => []TypeInv
  BY TypeInit, TypeNext, PTL DEF Spec
<1>2. QED
  BY <1>1, BoundaryStep, PTL DEF Spec, BoundaryNeverMovesBack

-----------------------------------------------------------------------------
(* Impersonation survives refresh *)

LEMMA MintInit == Init => MintInv /\ ImpersonationSurvivesRefresh
BY DEF Init, MintInv, ImpersonationSurvivesRefresh

\* A request's own step that mints nothing and keeps its operation and JWT.
LEMMA MintStep ==
  ASSUME MintInv, TypeOK, NEW r \in Reqs, NEW s, NEW v,
         UNCHANGED <<op, tok, sess, issued>>,
         pc' = [pc EXCEPT ![r] = s], s # "mintRefresh",
         pc[r] \notin {"idle", "mintRefresh", "ok"},
         \/ subj' = subj
         \/ subj' = [subj EXCEPT ![r] = v] /\ op[r] = "stopImpersonation"
  PROVE  MintInv'
BY DEF MintInv, SessionActor, TypeOK

LEMMA MintFrame ==
  ASSUME MintInv, UNCHANGED <<op, tok, subj, sess, issued, pc>>
  PROVE  MintInv'
BY DEF MintInv, SessionActor

LEMMA MintNext == TypeInv /\ MintInv /\ [Next]_vars => MintInv'
<1> SUFFICES ASSUME TypeInv, MintInv, [Next]_vars PROVE MintInv'
  OBVIOUS
<1> USE SessionsAssumption DEF TypeInv
<1>1. ASSUME NEW r \in Reqs, NEW o \in Ops, NEW t \in issued \cup {NoToken},
             NEW u \in Users, Start(r, o, t, u)
      PROVE MintInv'
  <2>1. FirstStep(o) \notin {"idle", "mintRefresh"} /\ sess[r] = NoToken
    BY <1>1 DEF FirstStep, Start, MintInv
  <2>2. QED
    BY <1>1, <2>1 DEF Start, Goto, MintInv, SessionActor, TypeOK, clients
<1>2. ASSUME NEW r \in Reqs, CheckRevocation(r) PROVE MintInv'
  BY <1>2, MintStep DEF CheckRevocation, Goto, Reply, clients
<1>3. ASSUME NEW r \in Reqs, CheckJwt(r) PROVE MintInv'
  <2>1. AfterJwt(op[r], tok[r]) \notin {"idle", "mintRefresh"}
    BY DEF AfterJwt
  <2>2. CASE op[r] = "stopImpersonation"
    BY <1>3, <2>1, <2>2, MintStep DEF CheckJwt, Goto, Reply, clients
  <2>3. CASE op[r] # "stopImpersonation"
    <3>1. subj' = subj
      BY <1>3, <2>3 DEF CheckJwt, TypeOK
    <3>2. QED
      BY <1>3, <2>1, <3>1, MintStep DEF CheckJwt, Goto, Reply, clients
  <2>4. QED BY <2>2, <2>3
<1>4. ASSUME NEW r \in Reqs, CheckBoundary(r) PROVE MintInv'
  BY <1>4, MintStep DEF CheckBoundary, Goto, Reply, clients
<1>5. ASSUME NEW r \in Reqs, Revoke(r) PROVE MintInv'
  BY <1>5, MintStep DEF Revoke, Goto, Reply
<1>6. ASSUME NEW r \in Reqs, SetBoundary(r) PROVE MintInv'
  BY <1>6, MintStep DEF SetBoundary, Reply
<1>7. ASSUME NEW r \in Reqs, LoadUser(r) PROVE MintInv'
  <2>1. AfterLoad(op[r]) # "idle"
    BY DEF AfterLoad
  <2>2. AfterLoad(op[r]) = "mintRefresh" => sess[r] = NoToken
    BY <1>7 DEF LoadUser, MintInv
  <2>3. QED
    BY <1>7, <2>1, <2>2 DEF LoadUser, Goto, Reply, MintInv, SessionActor, TypeOK, clients
<1>8. ASSUME NEW r \in Reqs, MintSession(r) PROVE MintInv'
  <2>1. op[r] # "impersonate"
    BY <1>8 DEF MintSession, StepInv, StepsOf, TypeOK, AllOps
  <2>2. sess'[r].sub = subj[r] /\ sess'[r].act = SessionActor(r)
    BY <1>8 DEF MintSession, SessionJwt, TypeOK
  <2>3. /\ UNCHANGED <<op, tok, subj>> /\ issued \subseteq issued'
        /\ \A q \in Reqs \ {r} : sess'[q] = sess[q] /\ pc'[q] = pc[q]
        /\ pc'[r] \in {"mintRefresh", "ok"} /\ pc[r] = "mintSession"
    BY <1>8 DEF MintSession, Goto, Reply, TypeOK
  <2>4. \A q \in Reqs : SessionActor(q)' = SessionActor(q)
    BY <2>3 DEF SessionActor
  <2>5. QED
    BY <2>1, <2>2, <2>3, <2>4 DEF MintInv
<1>9. ASSUME NEW r \in Reqs, MintRefresh(r) PROVE MintInv'
  BY <1>9 DEF MintRefresh, Reply, MintInv, SessionActor, TypeOK
<1>10. ASSUME NEW u \in Users, DeleteUser(u) PROVE MintInv'
  BY <1>10, MintFrame DEF DeleteUser, request, clients
<1>11. ASSUME NEW u \in Users, NEW s \in {"enabled", "disabled"}, SetStatus(u, s)
       PROVE MintInv'
  BY <1>11, MintFrame DEF SetStatus, request, clients
<1>12. CASE ResetUsers
  BY <1>12, MintFrame DEF ResetUsers, request, clients
<1>13. CASE ResetRevoked
  BY <1>13, MintFrame DEF ResetRevoked
<1>14. CASE ResetBoundary
  BY <1>14, MintFrame DEF ResetBoundary
<1>15. ASSUME NEW restored \in SUBSET Users, FinishReset(restored) PROVE MintInv'
  BY <1>15, MintFrame DEF FinishReset, request, clients
<1>16. CASE Tick
  BY <1>16, MintFrame DEF Tick, request, clients
<1>17. CASE UNCHANGED vars
  BY <1>17, MintFrame DEF vars, request, clients
<1>18. QED
  BY <1>1, <1>2, <1>3, <1>4, <1>5, <1>6, <1>7, <1>8, <1>9, <1>10, <1>11,
     <1>12, <1>13, <1>14, <1>15, <1>16, <1>17 DEF Next, Handler

\* Nothing takes back an own session once it is in place.
LEMMA OwnSessionStays ==
  ASSUME TypeInv, [Next]_vars, NEW u \in Users, OwnSession(u)
  PROVE  OwnSession(u)'
<1> DEFINE Late == {"mintRefresh", "ok"}
<1>1. SUFFICES \A q \in Reqs : pc[q] \in Late =>
                 pc'[q] \in Late /\ op'[q] = op[q] /\ subj'[q] = subj[q]
  BY DEF OwnSession
<1> USE DEF TypeInv
<1>2. ASSUME NEW r \in Reqs, NEW o \in Ops, NEW t \in issued \cup {NoToken},
             NEW v \in Users, Start(r, o, t, v), NEW q \in Reqs, pc[q] \in Late
      PROVE pc'[q] \in Late /\ op'[q] = op[q] /\ subj'[q] = subj[q]
  BY <1>2 DEF Start, Goto, TypeOK
<1>3. ASSUME NEW r \in Reqs, Handler(r), NEW q \in Reqs, pc[q] \in Late
      PROVE pc'[q] \in Late /\ op'[q] = op[q] /\ subj'[q] = subj[q]
  <2>1. CASE q = r
    BY <1>3, <2>1 DEF Handler, CheckRevocation, CheckJwt, CheckBoundary, Revoke,
         SetBoundary, LoadUser, MintSession, MintRefresh, Reply, TypeOK
  <2>2. CASE q # r
    BY <1>3, <2>2 DEF Handler, CheckRevocation, CheckJwt, CheckBoundary, Revoke,
         SetBoundary, LoadUser, MintSession, MintRefresh, Reply, Goto, TypeOK
  <2>3. QED BY <2>1, <2>2
<1>4. CASE UNCHANGED <<pc, op, subj>>
  BY <1>4
<1>5. QED
  BY <1>2, <1>3, <1>4
     DEF Next, vars, DeleteUser, SetStatus, ResetUsers, ResetRevoked,
         ResetBoundary, FinishReset, Tick, request

LEMMA ImpersonationNext ==
  TypeInv /\ MintInv /\ ImpersonationSurvivesRefresh /\ [Next]_vars
    => ImpersonationSurvivesRefresh'
<1> SUFFICES ASSUME TypeInv, MintInv, ImpersonationSurvivesRefresh, [Next]_vars,
                    TypeInv', NEW t \in issued', t.act = NoOne
             PROVE  OwnSession(t.sub)'
  BY TypeNext DEF ImpersonationSurvivesRefresh, OwnSession
<1>1. t \in Tokens /\ t.sub \in Users
  BY DEF TypeInv, TypeOK, Tokens
<1>2. CASE t \in issued
  BY <1>1, <1>2, OwnSessionStays DEF ImpersonationSurvivesRefresh, OwnSession
<1>3. ASSUME NEW r \in Reqs, MintSession(r), t \notin issued PROVE OwnSession(t.sub)'
  <2>1. op[r] = "updateJwt" /\ t.sub = subj[r]
    BY <1>3 DEF MintSession, SessionJwt
  <2>2. op'[r] = op[r] /\ subj'[r] = subj[r] /\ pc'[r] = "ok"
    BY <1>3, <2>1 DEF MintSession, Reply, TypeInv, TypeOK
  <2>3. QED BY <2>1, <2>2 DEF OwnSession
<1>4. ASSUME NEW r \in Reqs, MintRefresh(r), t \notin issued PROVE OwnSession(t.sub)'
  <2>1. op'[r] = op[r] /\ subj'[r] = subj[r] /\ pc'[r] = "ok" /\ pc[r] = "mintRefresh"
    BY <1>4 DEF MintRefresh, Reply, TypeInv, TypeOK
  <2>2. PICK act \in RefreshActors(r) :
          t \in {RefreshJwt(subj[r], now, act)} \cup ({sess[r]} \ {NoToken})
    BY <1>4 DEF MintRefresh
  <2>3. t.sub = subj[r] /\ t.act \in RefreshActors(r) \cup {SessionActor(r)}
    BY <2>1, <2>2 DEF MintInv, RefreshJwt
  <2>4. op[r] \in {"signIn", "refresh", "tenantSelect", "impersonate",
                   "stopImpersonation"}
    BY <2>1 DEF TypeInv, StepInv, StepsOf, TypeOK, AllOps
  <2>5. op[r] # "impersonate"
    <3>1. op[r] = "impersonate" => sess[r] = NoToken /\ RefreshActors(r) = Users
      BY <2>1 DEF MintInv, RefreshActors
    <3>2. QED
      BY <3>1, <2>2, SessionsAssumption DEF RefreshJwt
  <2>6. CASE op[r] = "refresh"
    <3>1. tok[r] \in issued /\ subj[r] = tok[r].sub
      BY <2>1, <2>6 DEF MintInv, TokenOps, AllOps, UserOps
    <3>2. tok[r].act = NoOne
      BY <2>3, <2>6 DEF RefreshActors, SessionActor
    <3>3. OwnSession(t.sub)
      BY <2>3, <3>1, <3>2 DEF ImpersonationSurvivesRefresh, OwnSession
    <3>4. QED BY <1>1, <3>3, OwnSessionStays
  <2>7. CASE op[r] # "refresh"
    BY <2>1, <2>3, <2>4, <2>5, <2>7 DEF OwnSession
  <2>8. QED BY <2>6, <2>7
<1>5. ASSUME NEW r \in Reqs, Handler(r), ~MintSession(r), ~MintRefresh(r)
      PROVE issued' = issued
  BY <1>5 DEF Handler, CheckRevocation, CheckJwt, CheckBoundary, Revoke,
              SetBoundary, LoadUser, clients
<1>6. ASSUME NEW r \in Reqs, NEW o \in Ops, NEW j \in issued \cup {NoToken},
             NEW u \in Users, Start(r, o, j, u)
      PROVE issued' = issued
  BY <1>6 DEF Start, clients
<1>7. QED
  BY <1>2, <1>3, <1>4, <1>5, <1>6
     DEF Next, vars, DeleteUser, SetStatus, ResetUsers, ResetRevoked,
         ResetBoundary, FinishReset, Tick, clients

\* The `act` claim survives any chain of refreshes (session.rs refresh): a JWT
\* without an actor comes only from a request that put the user's own session
\* in place, never from refreshing an impersonation.
THEOREM ImpersonationSurvivesRefreshHolds == Spec => []ImpersonationSurvivesRefresh
<1>1. Spec => [](TypeInv /\ MintInv /\ ImpersonationSurvivesRefresh)
  BY TypeInit, TypeNext, MintInit, MintNext, ImpersonationNext, PTL DEF Spec
<1>2. QED BY <1>1, PTL

=============================================================================
