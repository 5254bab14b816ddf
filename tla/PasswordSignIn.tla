--------------------------- MODULE PasswordSignIn ---------------------------
(***************************************************************************)
(* Passwords: sign-up, sign-in, replacement and update (routes/auth/       *)
(* password.rs), the built-in hosted flow that signs in with a password    *)
(* (routes/auth/flow.rs), and the lockout both consult (auth_policy.rs),   *)
(* while management calls rename, disable and delete users and             *)
(* /emulator/reset empties the stores.                                     *)
(*                                                                         *)
(* A handler is one action per store it visits; it looks its user up by    *)
(* login id at every visit.  A bcrypt run is part of the visit that reads  *)
(* the hash.  What authorises update_password is TokenStore's and          *)
(* Sessions' matter; JWTs, the password policy, the time of the last login *)
(* and the switch of the method (a refusal that changes nothing) are left  *)
(* out.                                                                    *)
(***************************************************************************)
EXTENDS Lockouts, Accounts, FiniteSets

CONSTANTS
  Passwords,
  Execs,     \* ids of executions of the built-in flow, each drawn once
  Reqs,      \* requests; one that was answered may serve another call
  MaxCalls,  \* bound of the model: calls served
  MaxChanges \* bound of the model: management calls and resets

ASSUME PasswordSignInAssumption ==
  /\ None \notin Uids \cup Logins \cup Passwords \cup Execs
  /\ IsFiniteSet(Reqs)
  /\ MaxCalls \in Nat /\ MaxChanges \in Nat

VARIABLES
  hash,    \* User._password_hash: uid -> the password hashed, or None
  lockout, \* login id -> its record
  execs,   \* FlowStore.execs
  req,     \* request -> the call it serves
  resetPc, \* the store /emulator/reset empties next
  calls, changes

users == <<accounts, hash>>
vars == <<users, lockout, execs, req, resetPc, calls, changes>>

\* proved: the user whose password matched, or was just set.
\* session: the user it minted for.
\* moved: history, whether its login id was made to lead elsewhere since.
Call == [pc : {"idle", "insert", "gate", "verify", "record", "clear", "set",
               "mint", "complete", "recordLogin",
               "create", "step", "advance", "login"},
         op : {"none", "signup", "signin", "replace", "update", "flowStart",
               "flowNext"},
         login : Logins \cup {None},
         pw : Passwords \cup {None}, new : Passwords \cup {None},
         exec : Execs \cup {None},
         proved : Uids \cup {None}, session : Uids \cup {None},
         moved : BOOLEAN]

Idle == [pc |-> "idle", op |-> "none", login |-> None, pw |-> None,
         new |-> None, exec |-> None, proved |-> None, session |-> None,
         moved |-> FALSE]

NoExec == [status |-> "unused", step |-> 1, login |-> None]

At(r, step) == req[r].pc = step
Goto(r, step) == req' = [req EXCEPT ![r].pc = step]
\* The call is answered, with a result or an error.
Answer(r) == req' = [req EXCEPT ![r] = Idle]

-----------------------------------------------------------------------------
(* Calls *)

\* signup, with the password hashed beforehand.
CallSignup(r, l, p) ==
  req' = [req EXCEPT ![r] = [Idle EXCEPT !.pc = "insert", !.op = "signup",
                                         !.login = l, !.pw = p]]

CallSignin(r, l, p) ==
  req' = [req EXCEPT ![r] = [Idle EXCEPT !.pc = "gate", !.op = "signin",
                                         !.login = l, !.pw = p]]

\* replace does not ask whether the login id is locked out.
CallReplace(r, l, p, q) ==
  req' = [req EXCEPT ![r] = [Idle EXCEPT !.pc = "verify", !.op = "replace",
                                         !.login = l, !.pw = p, !.new = q]]

\* update_password, once its reset token is consumed or its JWT accepted.
CallUpdate(r, l, q) ==
  req' = [req EXCEPT ![r] = [Idle EXCEPT !.pc = "set", !.op = "update",
                                         !.login = l, !.new = q]]

\* flow/start; l is what the first screen's submit brought along, if it came.
CallFlowStart(r, x, l) ==
  /\ execs[x] = NoExec
  /\ \A q \in Reqs : req[q].exec # x
  /\ req' = [req EXCEPT ![r] = [Idle EXCEPT !.pc = "create", !.op = "flowStart",
                                            !.login = l, !.exec = x]]

\* flow/next brings what the screen its browser shows asks for: a login id, or
\* a password once an answer has shown the password screen.
CallFlowNext(r, x, l, p) ==
  /\ execs[x] # NoExec
  /\ l = None <=> p # None
  /\ p # None => execs[x].step = 2
  /\ req' = [req EXCEPT ![r] = [Idle EXCEPT !.pc = "step", !.op = "flowNext",
                                   !.login = l, !.pw = p, !.exec = x]]

Arrive(r) ==
  /\ At(r, "idle") /\ calls < MaxCalls
  /\ calls' = calls + 1
  /\ \/ \E l \in Logins, p \in Passwords : CallSignup(r, l, p) \/ CallSignin(r, l, p)
     \/ \E l \in Logins, p, q \in Passwords : CallReplace(r, l, p, q)
     \/ \E l \in Logins, q \in Passwords : CallUpdate(r, l, q)
     \/ \E x \in Execs, l \in Logins \cup {None} : CallFlowStart(r, x, l)
     \/ \E x \in Execs, l \in Logins \cup {None}, p \in Passwords \cup {None} :
          CallFlowNext(r, x, l, p)
  /\ UNCHANGED <<users, lockout, execs, resetPc, changes>>

-----------------------------------------------------------------------------
(* Steps of the handlers *)

Counts(r) == req[r].op \in {"signin", "flowNext"}

\* check_not_locked_out, before the password is looked at.
Gate(r) ==
  /\ At(r, "gate")
  /\ IF LockedOut(lockout[req[r].login]) THEN Answer(r) ELSE Goto(r, "verify")
  /\ UNCHANGED <<users, lockout, execs, resetPc, calls, changes>>

Fail(r) == req' = [req EXCEPT ![r].pc = "record", ![r].pw = None]

\* The hash is read and compared, and the password dropped.  signin and replace answer an unknown login
\* id and a user without a password at once; the flow records a failure first.
Verify(r) ==
  /\ At(r, "verify")
  /\ LET l == req[r].login
         stored == IF Known(l) THEN hash[Behind(l)] ELSE None
     IN \/ /\ stored # None /\ stored = req[r].pw
           /\ req' = [req EXCEPT ![r].proved = Behind(l), ![r].moved = FALSE,
                                 ![r].pw = None,
                                 ![r].pc = IF Counts(r) THEN "clear" ELSE "set"]
        \/ /\ stored # None /\ stored # req[r].pw
           /\ IF Counts(r) THEN Fail(r) ELSE Answer(r)
        \/ /\ stored = None
           /\ IF req[r].op = "flowNext" THEN Fail(r) ELSE Answer(r)
  /\ UNCHANGED <<users, lockout, execs, resetPc, calls, changes>>

RecordFailure(r) ==
  /\ At(r, "record")
  /\ lockout' = [lockout EXCEPT ![req[r].login] = Recorded(@)]
  /\ Answer(r)
  /\ UNCHANGED <<users, execs, resetPc, calls, changes>>

\* The failures go before the status is looked at.
ClearFailures(r) ==
  /\ At(r, "clear")
  /\ lockout' = [lockout EXCEPT ![req[r].login] = NoFailures]
  /\ Goto(r, "mint")
  /\ UNCHANGED <<users, execs, resetPc, calls, changes>>

\* History: the calls that go by one of the login ids ls are marked.
Marked(ls) == [r \in Reqs |-> IF req[r].login \in ls THEN [req[r] EXCEPT !.moved = TRUE]
                              ELSE req[r]]

\* signup's insert, under a fresh user id u.
Insert(r, u, a) ==
  /\ At(r, "insert")
  /\ LET l == req[r].login IN
     \/ /\ ~Free(l)
        /\ Answer(r)
        /\ UNCHANGED users
     \/ /\ Free(l)
        /\ Register(u, l, a)
        /\ hash' = [hash EXCEPT ![u] = req[r].pw]
        /\ req' = [Marked(Claimed(l, a)) EXCEPT ![r] =
                     [req[r] EXCEPT !.proved = u, !.moved = FALSE, !.pw = None,
                                    !.pc = "mint"]]
  /\ UNCHANGED <<lockout, execs, resetPc, calls, changes>>

\* users.write().set_password(login id): whoever has the login id now, and
\* whatever its password is now.
SetPassword(r) ==
  /\ At(r, "set")
  /\ LET l == req[r].login IN
     IF Known(l)
     THEN /\ hash' = [hash EXCEPT ![Behind(l)] = req[r].new]
          /\ IF req[r].op = "replace"
             THEN req' = [req EXCEPT ![r].pc = "mint", ![r].new = None]
             ELSE Answer(r)
     ELSE Answer(r) /\ UNCHANGED hash
  /\ UNCHANGED <<accounts, lockout, execs, resetPc, calls, changes>>

\* Mutant of Subject: the flow asks its execution for the login id again.
SubjectReread(r) ==
  IF req[r].op = "flowNext" /\ execs[req[r].exec].login # None
  THEN Behind(execs[req[r].exec].login) ELSE Behind(req[r].login)

\* Whom a handler mints for: whoever its login id leads to now.
Subject(r) == Behind(req[r].login)

\* The user is loaded once more and the JWTs are minted under the users lock.
\* Only signin and the flow look at the status.
Mint(r) ==
  /\ At(r, "mint")
  /\ LET u == Subject(r) IN
     IF u # None /\ (Counts(r) => status[u] # "disabled")
     THEN req' = [req EXCEPT ![r].session = u,
                             ![r].pc = IF req[r].op = "flowNext" THEN "complete"
                                       ELSE "recordLogin"]
     ELSE Answer(r)
  /\ UNCHANGED <<users, lockout, execs, resetPc, calls, changes>>

\* record_login, and the answer with the session.
RecordLogin(r) ==
  /\ At(r, "recordLogin")
  /\ Answer(r)
  /\ UNCHANGED <<users, lockout, execs, resetPc, calls, changes>>

-----------------------------------------------------------------------------
(* The built-in flow's own steps *)

Held(x) == execs[x].status \in {"waiting", "completed"}

\* flow/start: a new execution; a submit that came along goes on to its screen.
CreateExec(r) ==
  /\ At(r, "create")
  /\ execs' = [execs EXCEPT ![req[r].exec] = [NoExec EXCEPT !.status = "waiting"]]
  /\ IF req[r].login = None THEN Answer(r) ELSE Goto(r, "advance")
  /\ UNCHANGED <<users, lockout, resetPc, calls, changes>>

\* flow/next: which screen the execution waits at.
ReadStep(r) ==
  /\ At(r, "step")
  /\ LET e == execs[req[r].exec] IN
     \/ e.status # "waiting" /\ Answer(r)
     \/ e.status = "waiting" /\ Goto(r, IF e.step = 1 THEN "advance" ELSE "login")
  /\ UNCHANGED <<users, lockout, execs, resetPc, calls, changes>>

\* Mutant of ShownNext: one screen further than the execution is now.
ShownNextCounted(e) == e.step + 1

\* The screen after the sign-in screen.
ShownNext(e) == 2

\* advance_to_password: whatever the execution has come to in the meantime.
Advance(r) ==
  /\ At(r, "advance")
  /\ LET x == req[r].exec IN
     execs' = IF Held(x)
              THEN [execs EXCEPT ![x] = [status |-> "waiting", login |-> req[r].login,
                                         step |-> ShownNext(execs[x])]]
              ELSE execs
  /\ Answer(r)
  /\ UNCHANGED <<users, lockout, resetPc, calls, changes>>

\* The login id the execution is for, read once, in a visit of its own.  When a
\* reset came between, nobody's login id is tried and refused.
ReadLogin(r) ==
  /\ At(r, "login")
  /\ LET l == execs[req[r].exec].login IN
     IF l = None THEN Answer(r)
     ELSE req' = [req EXCEPT ![r].login = l, ![r].pc = "gate"]
  /\ UNCHANGED <<users, lockout, execs, resetPc, calls, changes>>

\* flows.write().complete(), after the session is minted; record_login and the
\* answer follow.
Complete(r) ==
  /\ At(r, "complete")
  /\ LET x == req[r].exec IN
     execs' = IF Held(x) THEN [execs EXCEPT ![x].status = "completed"] ELSE execs
  /\ Answer(r)
  /\ UNCHANGED <<users, lockout, resetPc, calls, changes>>

-----------------------------------------------------------------------------
(* Management, reset and time *)

Move(ls) == req' = Marked(ls)

Change == changes < MaxChanges /\ changes' = changes + 1

SetStatus(u, s) ==
  /\ Change
  /\ SwitchStatus(u, s)
  /\ UNCHANGED <<hash, lockout, execs, req, resetPc, calls>>

Rename(l, m, a) ==
  /\ Change
  /\ Rekey(l, m, a)
  /\ Move({l, m} \cup Turned(a))
  /\ UNCHANGED <<hash, lockout, execs, resetPc, calls>>

\* update and patch of an email or a phone.
Describe(l, u) ==
  /\ Change
  /\ Realias(l, u)
  /\ Move(Loose \cap {l})
  /\ UNCHANGED <<hash, lockout, execs, resetPc, calls>>

Delete(u, ls, a) ==
  /\ Change
  /\ Remove(u, ls, a)
  /\ hash' = [hash EXCEPT ![u] = None]
  /\ Move(ls \cup Turned(a))
  /\ UNCHANGED <<lockout, execs, resetPc, calls>>

\* reset_stores: the users, then the executions, then the lockouts.
ResetUsers ==
  /\ Change
  /\ resetPc = "idle" /\ resetPc' = "flows"
  /\ RemoveAll
  /\ hash' = [u \in Uids |-> None]
  /\ Move(Logins)
  /\ UNCHANGED <<lockout, execs, calls>>

ResetFlows ==
  /\ resetPc = "flows" /\ resetPc' = "lockouts"
  /\ execs' = [x \in Execs |-> IF Held(x) THEN [NoExec EXCEPT !.status = "cleared"]
                               ELSE execs[x]]
  /\ UNCHANGED <<users, lockout, req, calls, changes>>

ResetLockouts ==
  /\ resetPc = "lockouts" /\ resetPc' = "idle"
  /\ lockout' = [l \in Logins |-> NoFailures]
  /\ UNCHANGED <<users, execs, req, calls, changes>>

Tick ==
  /\ lockout' = [l \in Logins |-> Aged(lockout[l])]
  /\ UNCHANGED <<users, execs, req, resetPc, calls, changes>>

-----------------------------------------------------------------------------
\* Any users may have signed up with a password, and any executions have been
\* started, before; emails, phones and bare names come to lead to users later.
Init ==
  /\ owner \in [Logins -> Uids \cup {None}]
  /\ \A l, m \in Logins : l # m /\ owner[l] # None => owner[l] # owner[m]
  /\ status = [u \in Uids |-> IF \E l \in Logins : owner[l] = u
                              THEN "enabled" ELSE "unused"]
  /\ alias = [l \in Logins |-> None]
  /\ hash \in [Uids -> Passwords \cup {None}]
  /\ \A u \in Uids : hash[u] # None <=> Stored(u)
  /\ lockout = [l \in Logins |-> NoFailures]
  /\ execs \in [Execs -> {NoExec, [NoExec EXCEPT !.status = "waiting"]}]
  /\ req = [r \in Reqs |-> Idle]
  /\ resetPc = "idle" /\ calls = 0 /\ changes = 0

Serve(r) ==
  \/ Gate(r) \/ Verify(r) \/ RecordFailure(r) \/ ClearFailures(r)
  \/ \E u \in Uids, a \in Aliases : Insert(r, u, a)
  \/ SetPassword(r) \/ Mint(r) \/ RecordLogin(r)
  \/ CreateExec(r) \/ ReadStep(r) \/ Advance(r) \/ ReadLogin(r) \/ Complete(r)

Manage ==
  \/ \E u \in Uids, s \in {"enabled", "disabled"} : SetStatus(u, s)
  \/ \E u \in Uids, ls \in SUBSET Logins, a \in Aliases : Delete(u, ls, a)
  \/ \E l, m \in Logins, a \in Aliases : Rename(l, m, a)
  \/ \E l \in Logins, u \in Uids \cup {None} : Describe(l, u)
  \/ ResetUsers \/ ResetFlows \/ ResetLockouts

Next == (\E r \in Reqs : Arrive(r) \/ Serve(r)) \/ Manage \/ Tick

Spec == Init /\ [][Next]_vars

-----------------------------------------------------------------------------
(* Properties *)

Exec == [status : {"unused", "waiting", "completed", "cleared"},
         step : {1, 2}, login : Logins \cup {None}]

\* Every variable keeps its shape.
TypeOK ==
  /\ AccountsTyped
  /\ hash \in [Uids -> Passwords \cup {None}]
  /\ lockout \in [Logins -> Record]
  /\ execs \in [Execs -> Exec]
  /\ req \in [Reqs -> Call]
  /\ resetPc \in {"idle", "flows", "lockouts"}
  /\ calls \in Nat /\ changes \in Nat

\* The check of the lockout and the recording of a failure straddle a bcrypt
\* run, so requests under way together all pass the check; still no login id
\* collects more failures than the limit and one for each other request.
GuessesPerWindow ==
  \A l \in Logins : lockout[l].count <= MaxFailures - 1 + Cardinality(Reqs)

\* While a login id stays locked out, the failures of requests that passed the
\* check before do not prolong it: its window runs from the first failure.
LockoutNotProlonged ==
  [][ \A l \in Logins :
        LockedOut(lockout[l]) /\ LockedOut(lockout'[l])
          => lockout'[l].age >= lockout[l].age ]_vars

\* A session is minted for the user whose password was compared, set or signed
\* up with, although the user is looked up by login id up to three times and a
\* flow's execution may be moved to another login id by a submit that arrives
\* late.  The exceptions: management or a reset makes the login id lead elsewhere
\* meanwhile, or a sign-up does, over an id that led to its user by an email, a
\* phone or a bare name only.
SignsInPasswordOwner ==
  \A r \in Reqs : req[r].session # None /\ ~req[r].moved
                    => req[r].session = req[r].proved

\* "Disabled users are blocked from all auth flows": who is disabled gets no
\* session (the emulator-completeness proposal).
DisabledUsersAreBlocked ==
  [][ \A r \in Reqs :
        req[r].session = None /\ req'[r].session # None
          => status[req'[r].session] # "disabled" ]_vars
=============================================================================
