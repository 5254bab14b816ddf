------------------------------- MODULE Locks -------------------------------
(***************************************************************************)
(* Every store of EmulatorState (state.rs) sits behind its own tokio       *)
(* RwLock and handlers nest the guards: a sign-in reads the user, then the *)
(* JWT templates, then the roles, and records the login afterwards; the    *)
(* snapshot export keeps every store it has read until its file is whole.  *)
(*                                                                         *)
(* A handler is its sequence of lock requests, each with the guards still  *)
(* alive at that point.  Stores whose lock is only ever held alone (tokens,*)
(* otps, flows, revoked, user_revocations, lockouts and most configuration *)
(* stores) cannot take part in a wait cycle and are left out; so is every  *)
(* handler that never holds one lock while it asks for another, but for    *)
(* one writer of each store: writers are what readers queue behind.        *)
(*                                                                         *)
(* The lock is tokio's and is modelled from how it is used: requests queue *)
(* in the order they are made, readers share the front of the queue and a  *)
(* waiting writer holds up the readers behind it.                          *)
(***************************************************************************)
EXTENDS Integers, Sequences, FiniteSets

CONSTANTS
  Tasks,    \* requests being served at the same time
  Handlers, \* the handlers they may run
  None      \* what a task runs when it runs nothing

-----------------------------------------------------------------------------
(* Handlers *)

LockNames == {"users", "jwt_templates", "roles", "tenants", "webauthn"}

Read(l, kept) == [lock |-> l, mode |-> "read", kept |-> kept]
Write(l, kept) == [lock |-> l, mode |-> "write", kept |-> kept]

\* The user, the active template and the roles, read together to mint a session.
MintReads == << Read("users", {}),
                Read("jwt_templates", {"users"}),
                Read("roles", {"users", "jwt_templates"}) >>

\* record_login once every guard is gone, and with the templates' guard alive.
RecordLogin == << Write("users", {}) >>
RecordLoginLate == << Write("users", {"jwt_templates"}) >>

\* session.rs refresh: mints under the guards and writes nothing.
Refresh == MintReads

\* magic_link.rs verify: the templates' guard ends with its block.
VerifyLink == MintReads \o RecordLogin

\* Mutant of FlowNext: forgets drop(tmpl_store).
FlowNextKeepsTemplates == << Read("users", {}) >> \o MintReads \o RecordLoginLate

\* Mutant of FlowNext: forgets the second drop(users).
FlowNextKeepsUsers ==
  << Read("users", {}) >> \o MintReads \o << Write("users", {"users"}) >>

\* flow.rs next: reads the hash, drops both guards before it records the login.
FlowNext == << Read("users", {}) >> \o MintReads \o RecordLogin

\* webauthn.rs session_for; flow_engine.rs logged_in does the same.
Passkey == << Read("webauthn", {}) >> \o MintReads \o RecordLogin

\* password.rs replace: checks the old password, stores the new one, mints.
ReplacePassword == << Read("users", {}), Write("users", {}) >> \o MintReads

\* session.rs tenant_select.
TenantSelect == << Read("users", {}), Read("tenants", {"users"}), Read("roles", {"users"}) >>

\* mgmt/jwt.rs update.
UpdateJwt == << Read("users", {}), Read("roles", {"users"}) >>

\* flow_engine.rs full_context.
FlowContext == << Read("users", {}), Read("webauthn", {"users"}), Read("tenants", {}) >>

\* flow_engine.rs passkey_start.
PasskeyStart == FlowContext \o
  << Read("users", {}), Read("webauthn", {"users"}), Write("webauthn", {}) >>

\* mgmt/user.rs update.
UpdateUser == << Read("tenants", {}), Write("users", {}) >>

\* mgmt/jwt_templates.rs, mgmt/roles.rs and mgmt/tenant.rs: one write each.
EditTemplates == << Write("jwt_templates", {}) >>
EditRoles == << Write("roles", {}) >>
EditTenants == << Write("tenants", {}) >>

\* snapshot.rs export: one struct expression, and the guards in it live until
\* it ends.  It asks for the templates after the roles, the mints before them.
Export == << Read("users", {}),
             Read("tenants", {"users"}),
             Read("roles", {"users", "tenants"}),
             Read("jwt_templates", {"users", "tenants", "roles"}) >>

\* snapshot.rs import: reset_stores, then the stores one after the other.
Import == << Write("users", {}), Write("tenants", {}), Write("webauthn", {}),
             Write("users", {}), Write("tenants", {}),
             Write("roles", {}), Write("jwt_templates", {}) >>

\* The handlers that drop the users' guard but not the templates' before they
\* record the login: otp.rs verify_email and verify_phone_sms, password.rs
\* signin and signup, saml.rs exchange.
VerifyOtp ==
  << Read("users", {}), Write("users", {}) >> \o MintReads \o RecordLoginLate
Signin == << Read("users", {}) >> \o MintReads \o RecordLoginLate
Signup == << Write("users", {}) >> \o MintReads \o RecordLoginLate
Exchange == MintReads \o RecordLoginLate

Program ==
  [refresh |-> Refresh, verifyLink |-> VerifyLink, flowNext |-> FlowNext,
   passkey |-> Passkey, replacePassword |-> ReplacePassword,
   tenantSelect |-> TenantSelect, updateJwt |-> UpdateJwt,
   flowContext |-> FlowContext, passkeyStart |-> PasskeyStart,
   updateUser |-> UpdateUser, editTemplates |-> EditTemplates,
   editRoles |-> EditRoles, editTenants |-> EditTenants,
   export |-> Export, import |-> Import,
   verifyOtp |-> VerifyOtp, signin |-> Signin, signup |-> Signup,
   exchange |-> Exchange]

\* The handlers that hold a guard others ask for after the one they ask for
\* next: a late record_login has the templates', the export has the roles'.
OutOfOrder == {"verifyOtp", "signin", "signup", "exchange", "export"}

ASSUME LocksAssumption ==
  /\ Handlers \subseteq DOMAIN Program
  /\ None \notin Handlers

-----------------------------------------------------------------------------
VARIABLES
  running,  \* the handler each task runs, or None
  stage,    \* the lock request it is at
  asked,    \* whether that request has been made
  mode,     \* mode[l][t]: how t stands in the queue of l, "none" if it does not
  ahead     \* ahead[l][t]: the tasks in front of t in the queue of l

vars == <<running, stage, asked, mode, ahead>>

Active(t) == running[t] # None
Steps(t) == Program[running[t]]
More(t) == stage[t] <= Len(Steps(t))
Wanted(t) == Steps(t)[stage[t]]

Queued(l) == {t \in Tasks : mode[l][t] # "none"}
Guards(t) == {l \in LockNames : mode[l][t] # "none"}

\* t has the lock: a writer at the front, a reader with only readers in front.
Holds(t, l) ==
  \/ mode[l][t] = "write" /\ ahead[l][t] = {}
  \/ mode[l][t] = "read" /\ \A u \in ahead[l][t] : mode[l][u] = "read"

\* The guards alive once t makes the request it is at.
Kept(t) == IF More(t) THEN Wanted(t).kept ELSE {}

\* t leaves the queues of the locks in gone.
Leave(t, gone) ==
  /\ mode' = [l \in LockNames |->
               [mode[l] EXCEPT ![t] = IF l \in gone THEN "none" ELSE @]]
  /\ ahead' = [l \in LockNames |->
                IF l \in gone
                THEN [u \in Tasks |-> IF u = t THEN {} ELSE ahead[l][u] \ {t}]
                ELSE ahead[l]]

-----------------------------------------------------------------------------
(* A request arrives. *)
Start(t, h) ==
  /\ ~Active(t)
  /\ running' = [running EXCEPT ![t] = h]
  /\ UNCHANGED <<stage, asked, mode, ahead>>

(* Guards go out of scope or are dropped. *)
Release(t) ==
  /\ Active(t) /\ ~asked[t]
  /\ Guards(t) \ Kept(t) # {}
  /\ Leave(t, Guards(t) \ Kept(t))
  /\ UNCHANGED <<running, stage, asked>>

(* .read().await or .write().await: joins the queue. *)
Ask(t) ==
  /\ Active(t) /\ ~asked[t] /\ More(t)
  /\ Guards(t) \subseteq Kept(t)
  /\ asked' = [asked EXCEPT ![t] = TRUE]
  /\ LET w == Wanted(t)
     IN  /\ mode' = [mode EXCEPT ![w.lock][t] = w.mode]
         /\ ahead' = [ahead EXCEPT ![w.lock][t] = Queued(w.lock)]
  /\ UNCHANGED <<running, stage>>

(* The lock is granted. *)
Take(t) ==
  /\ Active(t) /\ asked[t]
  /\ Holds(t, Wanted(t).lock)
  /\ asked' = [asked EXCEPT ![t] = FALSE]
  /\ stage' = [stage EXCEPT ![t] = @ + 1]
  /\ UNCHANGED <<running, mode, ahead>>

\* Mutant of Finish: leaves the place in the program where it was.
FinishInPlace(t) ==
  /\ Active(t) /\ ~asked[t] /\ ~More(t) /\ Guards(t) = {}
  /\ running' = [running EXCEPT ![t] = None]
  /\ UNCHANGED <<stage, asked, mode, ahead>>

(* The handler has answered. *)
Finish(t) ==
  /\ Active(t) /\ ~asked[t] /\ ~More(t) /\ Guards(t) = {}
  /\ running' = [running EXCEPT ![t] = None]
  /\ stage' = [stage EXCEPT ![t] = 1]
  /\ UNCHANGED <<asked, mode, ahead>>

(* An early return, or the client hangs up and the handler is dropped where
   it waits: all its guards go, and its place in the queue. *)
Abandon(t) ==
  /\ Active(t)
  /\ running' = [running EXCEPT ![t] = None]
  /\ stage' = [stage EXCEPT ![t] = 1]
  /\ asked' = [asked EXCEPT ![t] = FALSE]
  /\ Leave(t, LockNames)

-----------------------------------------------------------------------------
Init ==
  /\ running = [t \in Tasks |-> None]
  /\ stage = [t \in Tasks |-> 1]
  /\ asked = [t \in Tasks |-> FALSE]
  /\ mode = [l \in LockNames |-> [t \in Tasks |-> "none"]]
  /\ ahead = [l \in LockNames |-> [t \in Tasks |-> {}]]

Advance(t) == Release(t) \/ Ask(t) \/ Take(t) \/ Finish(t)

Next ==
  \E t \in Tasks :
    \/ \E h \in Handlers : Start(t, h)
    \/ Advance(t)
    \/ Abandon(t)

\* The runtime polls every task that can go on.  Nobody owes the emulator a
\* request, nor need a client ever hang up.
Fairness == \A t \in Tasks : WF_vars(Advance(t))

Spec == Init /\ [][Next]_vars /\ Fairness

-----------------------------------------------------------------------------
(* Properties *)

\* Every variable keeps its shape and a handler is never past its end.
TypeOK ==
  /\ running \in [Tasks -> Handlers \cup {None}]
  /\ stage \in [Tasks -> Nat]
  /\ \A t \in Tasks : Active(t) => stage[t] \in 1..(Len(Steps(t)) + 1)
  /\ asked \in [Tasks -> BOOLEAN]
  /\ mode \in [LockNames -> [Tasks -> {"none", "read", "write"}]]
  /\ ahead \in [LockNames -> [Tasks -> SUBSET Tasks]]

Blocked(t) == Active(t) /\ asked[t] /\ ~Holds(t, Wanted(t).lock)

\* The tasks of D wait for one another, each for a lock another of them holds.
Circle(D) ==
  /\ D # {}
  /\ \A t \in D : Blocked(t) /\ \E u \in D : Holds(u, Wanted(t).lock)

\* Handlers wait for one another in a circle only over the templates' lock and
\* only if one of them is among the out-of-order ones.  Every other nesting of
\* guards in the emulator is safe, not only while other requests get through.
DeadlocksNeedTemplates ==
  \A D \in SUBSET Tasks :
    Circle(D) => /\ \E t \in D : Wanted(t).lock = "jwt_templates"
                 /\ \E t \in D : running[t] \in OutOfOrder

\* No handlers wait for one another in a circle: what holds of every choice of
\* handlers without an out-of-order one.
NoDeadlock == \A D \in SUBSET Tasks : ~Circle(D)

\* Every request gets its answer, whatever else is being served.  The code
\* does not keep this once out-of-order handlers meet a template edit.
EveryRequestIsAnswered ==
  \A t \in Tasks : Active(t) ~> ~Active(t)

\* Every request gets its answer, whatever else is being served, unless some
\* handlers close a circle: none waits for a lock it holds itself, and whatever
\* is in front of it in a queue moves on.
AnsweredUnlessCircle ==
  \A t \in Tasks : Active(t) ~> (~Active(t) \/ \E D \in SUBSET Tasks : Circle(D))
=============================================================================
