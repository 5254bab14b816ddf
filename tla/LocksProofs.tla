---------------------------- MODULE LocksProofs ----------------------------
(***************************************************************************)
(* For any number of requests.  All but the out-of-order handlers ask for  *)
(* locks in one fixed order: users, then the templates, tenants and        *)
(* passkeys, then the roles.  The out-of-order ones keep to that order too *)
(* once the templates are set aside, so a circle needs one of them and a   *)
(* request for the templates that a writer holds up.                       *)
(***************************************************************************)
EXTENDS Locks, TLAPS

Rank(l) ==
  CASE l = "users" -> 1
    [] l \in {"jwt_templates", "tenants", "webauthn"} -> 2
    [] OTHER -> 3

Request == [lock : LockNames, mode : {"read", "write"}, kept : SUBSET LockNames]

\* Requests made while holding only locks that come earlier.
InOrder == {q \in Request : \A l \in q.kept : Rank(l) < Rank(q.lock)}

\* Requests in order but for the templates, asked for or held.
Sound ==
  {q \in Request : q.lock # "jwt_templates" =>
     \A l \in q.kept \ {"jwt_templates"} : Rank(l) < Rank(q.lock)}

-----------------------------------------------------------------------------
(* The programs *)

LEMMA MintReadsInOrder == MintReads \in Seq(InOrder)
<1>1. /\ Read("users", {}) \in InOrder
      /\ Read("jwt_templates", {"users"}) \in InOrder
      /\ Read("roles", {"users", "jwt_templates"}) \in InOrder
  BY DEF Read, InOrder, Request, LockNames, Rank
<1>2. QED BY <1>1 DEF MintReads

LEMMA RequestsInOrder ==
  /\ \A l \in LockNames : Read(l, {}) \in InOrder /\ Write(l, {}) \in InOrder
  /\ \A l \in {"tenants", "roles", "webauthn"} : Read(l, {"users"}) \in InOrder
BY DEF Read, Write, InOrder, Request, LockNames, Rank

\* Every handler but the out-of-order ones makes its requests in order.
LEMMA ProgramsInOrder ==
  \A h \in DOMAIN Program \ OutOfOrder : Program[h] \in Seq(InOrder)
<1> USE MintReadsInOrder, RequestsInOrder
<1>1. RecordLogin \in Seq(InOrder)
  BY DEF RecordLogin, LockNames
<1>2. << Read("users", {}) >> \in Seq(InOrder) /\ << Read("webauthn", {}) >> \in Seq(InOrder)
  BY DEF LockNames
<1>3. << Read("users", {}), Write("users", {}) >> \in Seq(InOrder)
  BY DEF LockNames
<1>4. Refresh \in Seq(InOrder) /\ VerifyLink \in Seq(InOrder)
  BY <1>1 DEF Refresh, VerifyLink
<1>5. MintReads \o RecordLogin \in Seq(InOrder)
  BY <1>1
<1>6. FlowNext \in Seq(InOrder) /\ Passkey \in Seq(InOrder)
  <2>1. << Read("users", {}) >> \o MintReads \in Seq(InOrder)
    BY <1>2
  <2>2. << Read("webauthn", {}) >> \o MintReads \in Seq(InOrder)
    BY <1>2
  <2>3. QED BY <1>1, <2>1, <2>2 DEF FlowNext, Passkey
<1>7. ReplacePassword \in Seq(InOrder)
  BY <1>3 DEF ReplacePassword
<1>8. TenantSelect \in Seq(InOrder) /\ UpdateJwt \in Seq(InOrder)
  BY DEF TenantSelect, UpdateJwt, LockNames
<1>9. FlowContext \in Seq(InOrder) /\ UpdateUser \in Seq(InOrder)
  BY DEF FlowContext, UpdateUser, LockNames
<1>10. /\ EditTemplates \in Seq(InOrder) /\ EditRoles \in Seq(InOrder)
       /\ EditTenants \in Seq(InOrder)
  BY DEF EditTemplates, EditRoles, EditTenants, LockNames
<1>11. Import \in Seq(InOrder)
  BY DEF Import, LockNames
<1>12. PasskeyStart \in Seq(InOrder)
  <2>1. << Read("users", {}), Read("webauthn", {"users"}), Write("webauthn", {}) >>
          \in Seq(InOrder)
    BY DEF LockNames
  <2>2. QED BY <1>9, <2>1 DEF PasskeyStart
<1>13. QED
  BY <1>4, <1>6, <1>7, <1>8, <1>9, <1>10, <1>11, <1>12 DEF Program, OutOfOrder

\* The out-of-order handlers are in order but for the templates.
LEMMA ProgramsSound ==
  \A h \in DOMAIN Program : Program[h] \in Seq(Sound)
<1>1. InOrder \subseteq Sound
  BY DEF InOrder, Sound
<1>2. MintReads \in Seq(Sound)
  BY <1>1, MintReadsInOrder
<1>3. RecordLoginLate \in Seq(Sound)
  <2>1. Write("users", {"jwt_templates"}) \in Sound
    BY DEF Write, Sound, Request, LockNames
  <2>2. QED BY <2>1 DEF RecordLoginLate
<1>4. Read("users", {}) \in Sound /\ Write("users", {}) \in Sound
  BY <1>1, RequestsInOrder DEF LockNames
<1>5. MintReads \o RecordLoginLate \in Seq(Sound)
  BY <1>2, <1>3
<1>6. Exchange \in Seq(Sound)
  BY <1>5 DEF Exchange
<1>7. Signin \in Seq(Sound) /\ Signup \in Seq(Sound)
  <2>1. << Read("users", {}) >> \o MintReads \in Seq(Sound)
    BY <1>2, <1>4
  <2>2. << Write("users", {}) >> \o MintReads \in Seq(Sound)
    BY <1>2, <1>4
  <2>3. QED BY <1>3, <2>1, <2>2 DEF Signin, Signup
<1>8. VerifyOtp \in Seq(Sound)
  <2>1. << Read("users", {}), Write("users", {}) >> \o MintReads \in Seq(Sound)
    BY <1>2, <1>4
  <2>2. QED BY <1>3, <2>1 DEF VerifyOtp
<1>9. Export \in Seq(Sound)
  <2>1. /\ Read("users", {}) \in Sound
        /\ Read("tenants", {"users"}) \in Sound
        /\ Read("roles", {"users", "tenants"}) \in Sound
        /\ Read("jwt_templates", {"users", "tenants", "roles"}) \in Sound
    BY DEF Read, Sound, Request, LockNames, Rank
  <2>2. QED BY <2>1 DEF Export
<1>10. \A h \in DOMAIN Program \ OutOfOrder : Program[h] \in Seq(Sound)
  BY <1>1, ProgramsInOrder
<1>11. \A h \in OutOfOrder : Program[h] \in Seq(Sound)
  BY <1>6, <1>7, <1>8, <1>9 DEF Program, OutOfOrder
<1>12. QED BY <1>10, <1>11

-----------------------------------------------------------------------------
(* The invariant: a task that waits stands in no queue but those of the
   guards it kept and the one of the lock it wants. *)

RestInv == \A t \in Tasks : ~Active(t) => stage[t] = 1 /\ ~asked[t]

GuardInv ==
  \A t \in Tasks : Active(t) /\ asked[t] =>
    More(t) /\ Guards(t) \subseteq Kept(t) \cup {Wanted(t).lock}

Inv == TypeOK /\ RestInv /\ GuardInv

\* What a program made of well-formed requests gives.
LEMMA ProgramTyped ==
  ASSUME \A h \in Handlers : Program[h] \in Seq(Request), TypeOK,
         NEW t \in Tasks, Active(t)
  PROVE  /\ running[t] \in Handlers /\ Steps(t) \in Seq(Request)
         /\ Len(Steps(t)) \in Nat
         /\ stage[t] \in 1..(Len(Steps(t)) + 1)
         /\ More(t) => Wanted(t) \in Request
BY DEF TypeOK, Active, Steps, More, Wanted

LEMMA LeaveTyped ==
  ASSUME TypeOK, NEW t \in Tasks, NEW gone, Leave(t, gone)
  PROVE  /\ mode' \in [LockNames -> [Tasks -> {"none", "read", "write"}]]
         /\ ahead' \in [LockNames -> [Tasks -> SUBSET Tasks]]
         /\ \A u \in Tasks : u # t => Guards(u)' = Guards(u)
BY DEF TypeOK, Leave, Guards

LEMMA InvInit == Init => Inv
BY DEF Init, Inv, TypeOK, RestInv, GuardInv, Active

\* A step of t leaves the others where they are.
LEMMA OthersKeep ==
  ASSUME Inv, NEW t \in Tasks,
         \A u \in Tasks : u # t =>
           /\ running'[u] = running[u] /\ stage'[u] = stage[u]
           /\ asked'[u] = asked[u] /\ Guards(u)' = Guards(u),
         ~Active(t)' => stage'[t] = 1 /\ ~asked'[t],
         Active(t)' /\ asked'[t] =>
           More(t)' /\ Guards(t)' \subseteq Kept(t)' \cup {Wanted(t)'.lock}
  PROVE  RestInv' /\ GuardInv'
<1>1. \A u \in Tasks : u # t =>
        /\ Active(u)' = Active(u) /\ More(u)' = More(u)
        /\ Wanted(u)' = Wanted(u) /\ Kept(u)' = Kept(u)
  BY DEF Active, More, Wanted, Kept, Steps
<1>2. RestInv'
  BY <1>1 DEF Inv, RestInv
<1>3. GuardInv'
  BY <1>1 DEF Inv, GuardInv
<1>4. QED BY <1>2, <1>3

LEMMA StartStep ==
  ASSUME Inv, \A g \in Handlers : Program[g] \in Seq(Request),
         NEW t \in Tasks, NEW h \in Handlers, Start(t, h)
  PROVE  Inv'
<1> USE DEF Inv
<1>1. /\ running' = [running EXCEPT ![t] = h] /\ ~asked[t] /\ stage[t] = 1
      /\ UNCHANGED <<stage, asked, mode, ahead>>
  BY DEF Start, RestInv
<1>2. running'[t] = h /\ Len(Program[h]) \in Nat
  BY <1>1 DEF TypeOK
<1>3. TypeOK'
  BY <1>1, <1>2 DEF TypeOK, Active, Steps
<1>4. RestInv' /\ GuardInv'
  <2>1. \A u \in Tasks : Guards(u)' = Guards(u)
    BY <1>1 DEF Guards
  <2>2. QED BY <1>1, <1>2, <2>1, OthersKeep DEF TypeOK, RestInv
<1>5. QED BY <1>3, <1>4

LEMMA ReleaseStep ==
  ASSUME Inv, \A g \in Handlers : Program[g] \in Seq(Request),
         NEW t \in Tasks, Release(t)
  PROVE  Inv'
<1> USE DEF Inv
<1>1. /\ Active(t) /\ ~asked[t] /\ UNCHANGED <<running, stage, asked>>
      /\ Leave(t, Guards(t) \ Kept(t))
  BY DEF Release
<1>2. TypeOK'
  BY <1>1, LeaveTyped DEF TypeOK, Active, Steps
<1>3. RestInv' /\ GuardInv'
  BY <1>1, LeaveTyped, OthersKeep DEF Active
<1>4. QED BY <1>2, <1>3

LEMMA AskStep ==
  ASSUME Inv, \A g \in Handlers : Program[g] \in Seq(Request),
         NEW t \in Tasks, Ask(t)
  PROVE  Inv'
<1> USE DEF Inv
<1> DEFINE w == Wanted(t)
<1>1. /\ Active(t) /\ ~asked[t] /\ More(t) /\ Guards(t) \subseteq Kept(t)
      /\ asked' = [asked EXCEPT ![t] = TRUE]
      /\ mode' = [mode EXCEPT ![w.lock][t] = w.mode]
      /\ ahead' = [ahead EXCEPT ![w.lock][t] = Queued(w.lock)]
      /\ UNCHANGED <<running, stage>>
  BY DEF Ask
<1>2. w \in Request
  BY <1>1, ProgramTyped
<1>3. w.lock \in LockNames /\ w.mode \in {"read", "write"} /\ Queued(w.lock) \subseteq Tasks
  BY <1>2 DEF Request, Queued
<1> HIDE DEF w
<1>4. TypeOK'
  BY <1>1, <1>3 DEF TypeOK, Active, Steps
<1>5. \A l \in LockNames, u \in Tasks :
        mode'[l][u] = IF l = w.lock /\ u = t THEN w.mode ELSE mode[l][u]
  BY <1>1, <1>3 DEF TypeOK
<1>6. \A u \in Tasks : u # t => Guards(u)' = Guards(u)
  BY <1>5 DEF Guards
<1>7. Guards(t)' \subseteq Guards(t) \cup {w.lock}
  BY <1>5 DEF Guards
<1>8. Active(t)' /\ More(t)' /\ Kept(t)' = Kept(t) /\ Wanted(t)' = w
  BY <1>1 DEF Active, More, Kept, Wanted, Steps, w
<1>9. RestInv' /\ GuardInv'
  <2>1. Guards(t)' \subseteq Kept(t)' \cup {Wanted(t)'.lock}
    BY <1>1, <1>7, <1>8
  <2>2. \A u \in Tasks : u # t => asked'[u] = asked[u]
    BY <1>1 DEF TypeOK
  <2>3. UNCHANGED <<running, stage>>
    BY <1>1
  <2>4. QED BY <1>6, <1>8, <2>1, <2>2, <2>3, OthersKeep
<1>10. QED BY <1>4, <1>9

LEMMA TakeStep ==
  ASSUME Inv, \A g \in Handlers : Program[g] \in Seq(Request),
         NEW t \in Tasks, Take(t)
  PROVE  Inv'
<1> USE DEF Inv
<1>1. /\ Active(t) /\ asked[t] /\ asked' = [asked EXCEPT ![t] = FALSE]
      /\ stage' = [stage EXCEPT ![t] = stage[t] + 1]
      /\ UNCHANGED <<running, mode, ahead>>
  BY DEF Take
<1>2. stage[t] <= Len(Steps(t)) /\ Len(Steps(t)) \in Nat /\ stage[t] \in Nat /\ stage[t] >= 1
  BY <1>1, ProgramTyped DEF GuardInv, More, TypeOK
<1>3. stage'[t] \in 1..(Len(Steps(t)) + 1)
  BY <1>1, <1>2 DEF TypeOK
<1>4. stage' \in [Tasks -> Nat] /\ \A u \in Tasks : u # t => stage'[u] = stage[u]
  BY <1>1, <1>2 DEF TypeOK
<1>5. \A u \in Tasks : Steps(u)' = Steps(u) /\ Active(u)' = Active(u)
  BY <1>1 DEF Steps, Active
<1>6. TypeOK'
  BY <1>1, <1>3, <1>4, <1>5 DEF TypeOK
<1>7. RestInv' /\ GuardInv'
  <2>1. \A u \in Tasks : Guards(u)' = Guards(u)
    BY <1>1 DEF Guards
  <2>2. Active(t)' /\ ~asked'[t]
    BY <1>1 DEF Active, TypeOK
  <2>3. QED BY <1>1, <1>4, <2>1, <2>2, OthersKeep DEF TypeOK
<1>8. QED BY <1>6, <1>7

LEMMA FinishStep ==
  ASSUME Inv, NEW t \in Tasks, Finish(t)
  PROVE  Inv'
<1> USE DEF Inv
<1>1. /\ running' = [running EXCEPT ![t] = None] /\ stage' = [stage EXCEPT ![t] = 1]
      /\ ~asked[t] /\ UNCHANGED <<asked, mode, ahead>>
  BY DEF Finish
<1>2. TypeOK'
  BY <1>1 DEF TypeOK, Active, Steps
<1>3. RestInv' /\ GuardInv'
  <2>1. \A u \in Tasks : Guards(u)' = Guards(u)
    BY <1>1 DEF Guards
  <2>2. ~Active(t)' /\ stage'[t] = 1 /\ ~asked'[t]
    BY <1>1 DEF Active, TypeOK
  <2>3. QED BY <1>1, <2>1, <2>2, OthersKeep DEF TypeOK
<1>4. QED BY <1>2, <1>3

LEMMA AbandonStep ==
  ASSUME Inv, NEW t \in Tasks, Abandon(t)
  PROVE  Inv'
<1> USE DEF Inv
<1>1. /\ running' = [running EXCEPT ![t] = None] /\ stage' = [stage EXCEPT ![t] = 1]
      /\ asked' = [asked EXCEPT ![t] = FALSE] /\ Leave(t, LockNames)
  BY DEF Abandon
<1>2. TypeOK'
  BY <1>1, LeaveTyped DEF TypeOK, Active, Steps
<1>3. RestInv' /\ GuardInv'
  <2>1. ~Active(t)' /\ stage'[t] = 1 /\ ~asked'[t]
    BY <1>1 DEF Active, TypeOK
  <2>2. QED BY <1>1, <2>1, LeaveTyped, OthersKeep DEF TypeOK
<1>4. QED BY <1>2, <1>3

LEMMA InvStep ==
  ASSUME \A g \in Handlers : Program[g] \in Seq(Request)
  PROVE  Inv /\ [Next]_vars => Inv'
<1> SUFFICES ASSUME Inv, [Next]_vars PROVE Inv'
  OBVIOUS
<1>1. CASE UNCHANGED vars
  BY <1>1 DEF vars, Inv, TypeOK, RestInv, GuardInv, Active, Steps, More, Wanted, Kept, Guards
<1>2. CASE Next
  BY <1>2, StartStep, ReleaseStep, AskStep, TakeStep, FinishStep, AbandonStep
     DEF Next, Advance
<1>3. QED BY <1>1, <1>2

LEMMA Invariance ==
  ASSUME \A g \in Handlers : Program[g] \in Seq(Request)
  PROVE  Spec => []Inv
<1>1. Inv /\ [Next]_vars => Inv'
  BY InvStep
<1>2. QED BY InvInit, <1>1, PTL DEF Spec

-----------------------------------------------------------------------------
(* The theorems *)

\* Along a circle the rank of the lock that is waited for would grow for ever.
LEMMA RanksExcludeCircles ==
  ASSUME Inv, NEW D \in SUBSET Tasks, Circle(D),
         \A t \in D : Wanted(t) \in Request,
         \A t, u \in D : Wanted(t).lock \in Wanted(u).kept =>
                           Rank(Wanted(t).lock) < Rank(Wanted(u).lock)
  PROVE  FALSE
<1>0. /\ D # {} /\ \A t \in D : Blocked(t)
      /\ \A t \in D : \E u \in D : Holds(u, Wanted(t).lock)
  BY DEF Circle
<1> DEFINE goal == [t \in D |-> Rank(Wanted(t).lock)]
<1>1. \A t \in D : Active(t) /\ asked[t] /\ More(t) /\ ~Holds(t, Wanted(t).lock)
  BY <1>0 DEF Blocked, Inv, GuardInv
<1>3. \A t \in D : goal[t] \in 1..3
  BY DEF Rank, Request
<1>4. \A t \in D : \E u \in D : goal[t] < goal[u]
  <2>1. TAKE t \in D
  <2>2. PICK u \in D : Holds(u, Wanted(t).lock)
    BY <1>0
  <2>3. Wanted(t).lock \in Guards(u)
    BY <2>2 DEF Holds, Guards, Request
  <2>4. Wanted(t).lock # Wanted(u).lock
    BY <1>1, <2>2
  <2>5. Wanted(t).lock \in Wanted(u).kept
    BY <1>1, <2>3, <2>4 DEF Inv, GuardInv, Kept
  <2>6. goal[t] < goal[u]
    BY <2>5
  <2>7. QED BY <2>6
<1> HIDE DEF goal
<1>5. \A t \in D : goal[t] # 3
  <2>1. SUFFICES ASSUME NEW t \in D, goal[t] = 3 PROVE FALSE
    OBVIOUS
  <2>2. PICK u \in D : goal[t] < goal[u]
    BY <1>4
  <2>3. goal[u] = 1 \/ goal[u] = 2 \/ goal[u] = 3
    BY <1>3
  <2>4. QED BY <2>1, <2>2, <2>3
<1>6. \A t \in D : goal[t] # 2
  <2>1. SUFFICES ASSUME NEW t \in D, goal[t] = 2 PROVE FALSE
    OBVIOUS
  <2>2. PICK u \in D : goal[t] < goal[u]
    BY <1>4
  <2>3. goal[u] = 1 \/ goal[u] = 2 \/ goal[u] = 3
    BY <1>3
  <2>4. QED BY <2>1, <2>2, <2>3, <1>5
<1>7. \A t \in D : goal[t] # 1
  <2>1. SUFFICES ASSUME NEW t \in D, goal[t] = 1 PROVE FALSE
    OBVIOUS
  <2>2. PICK u \in D : goal[t] < goal[u]
    BY <1>4
  <2>3. goal[u] = 1 \/ goal[u] = 2 \/ goal[u] = 3
    BY <1>3
  <2>4. QED BY <2>1, <2>2, <2>3, <1>5, <1>6
<1>8. PICK t \in D : TRUE
  BY <1>0
<1>9. goal[t] = 1 \/ goal[t] = 2 \/ goal[t] = 3
  BY <1>3
<1>10. QED BY <1>5, <1>6, <1>7, <1>9

\* Every program is made of well-formed requests.
LEMMA ProgramsTyped == \A h \in Handlers : Program[h] \in Seq(Request)
<1>1. \A p \in Seq(Sound) : p \in Seq(Request)
  BY DEF Sound
<1>2. QED BY <1>1, LocksAssumption, ProgramsSound

\* What a waiting task wants is a request of its handler's program.
LEMMA WantedOf ==
  ASSUME Inv, NEW t \in Tasks, Blocked(t)
  PROVE  /\ running[t] \in Handlers
         /\ \A Q : Program[running[t]] \in Seq(Q) => Wanted(t) \in Q
<1>1. Active(t) /\ More(t)
  BY DEF Blocked, Inv, GuardInv
<1>2. running[t] \in Handlers /\ stage[t] \in 1..(Len(Steps(t)) + 1)
  BY <1>1 DEF Inv, TypeOK, Active
<1>3. ASSUME NEW Q, Program[running[t]] \in Seq(Q)
      PROVE  Wanted(t) \in Q
  <2>1. Len(Steps(t)) \in Nat /\ stage[t] \in 1..Len(Steps(t))
    BY <1>1, <1>2, <1>3 DEF More, Steps
  <2>2. QED BY <1>3, <2>1 DEF Wanted, Steps
<1>4. QED BY <1>2, <1>3

\* Nobody in a circle may want only ordinary locks, or be in order throughout.
LEMMA CirclesNeedBoth == Inv => DeadlocksNeedTemplates
<1> SUFFICES ASSUME Inv, NEW D \in SUBSET Tasks, Circle(D)
             PROVE  /\ \E t \in D : Wanted(t).lock = "jwt_templates"
                    /\ \E t \in D : running[t] \in OutOfOrder
  BY DEF DeadlocksNeedTemplates
<1>1. \A t \in D : Blocked(t)
  BY DEF Circle
<1>2. \A t \in D : Wanted(t) \in Request /\ Wanted(t) \in Sound
  BY <1>1, WantedOf, ProgramsTyped, ProgramsSound, LocksAssumption
<1>3. \E t \in D : Wanted(t).lock = "jwt_templates"
  <2>1. SUFFICES ASSUME \A t \in D : Wanted(t).lock # "jwt_templates" PROVE FALSE
    OBVIOUS
  <2>2. \A t, u \in D : Wanted(t).lock \in Wanted(u).kept =>
                         Rank(Wanted(t).lock) < Rank(Wanted(u).lock)
    BY <1>2, <2>1 DEF Sound
  <2>3. QED BY <1>2, <2>2, RanksExcludeCircles
<1>4. \E t \in D : running[t] \in OutOfOrder
  <2>1. SUFFICES ASSUME \A t \in D : running[t] \notin OutOfOrder PROVE FALSE
    OBVIOUS
  <2>2. \A t \in D : Wanted(t) \in InOrder
    BY <1>1, <2>1, WantedOf, ProgramsInOrder, LocksAssumption
  <2>3. \A t, u \in D : Wanted(t).lock \in Wanted(u).kept =>
                         Rank(Wanted(t).lock) < Rank(Wanted(u).lock)
    BY <2>2 DEF InOrder
  <2>4. QED BY <1>2, <2>3, RanksExcludeCircles
<1>5. QED BY <1>3, <1>4

\* Every variable keeps its shape, and no handler runs past its last request.
THEOREM TypeCorrect == Spec => []TypeOK
<1>1. Inv => TypeOK
  BY DEF Inv
<1>2. Spec => []Inv
  BY Invariance, ProgramsTyped
<1>3. QED BY <1>1, <1>2, PTL

\* Whatever handlers are served and however many: a circle needs a task that
\* waits for the templates' lock and a handler that breaks the order (otp.rs,
\* password.rs signin and signup, saml.rs exchange, snapshot.rs export).
THEOREM DeadlocksNeedTemplatesHolds == Spec => []DeadlocksNeedTemplates
<1>1. Spec => []Inv
  BY Invariance, ProgramsTyped
<1>2. QED BY <1>1, CirclesNeedBoth, PTL

\* The handlers that never break the order cannot deadlock on the stores'
\* locks, however many run at once, and whatever they write.
THEOREM NoDeadlockInOrder ==
  ASSUME Handlers \cap OutOfOrder = {}
  PROVE  Spec => []NoDeadlock
<1>1. Inv => NoDeadlock
  <2>1. SUFFICES ASSUME Inv, NEW D \in SUBSET Tasks, Circle(D) PROVE FALSE
    BY DEF NoDeadlock
  <2>2. PICK t \in D : running[t] \in OutOfOrder
    BY <2>1, CirclesNeedBoth DEF DeadlocksNeedTemplates
  <2>3. Blocked(t)
    BY <2>1 DEF Circle
  <2>4. running[t] \in Handlers
    BY <2>1, <2>3, WantedOf
  <2>5. QED BY <2>2, <2>4
<1>2. Spec => []Inv
  BY Invariance, ProgramsTyped
<1>3. QED BY <1>1, <1>2, PTL
============================================================================
