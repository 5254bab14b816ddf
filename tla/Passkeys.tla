------------------------------ MODULE Passkeys ------------------------------
(***************************************************************************)
(* Passkeys (routes/auth/webauthn.rs, store/webauthn_store.rs): the start  *)
(* and the finish of sign-up, sign-in and update ceremonies, while         *)
(* management calls rename, disable and delete users and /emulator/reset   *)
(* empties the stores.                                                     *)
(*                                                                         *)
(* A handler is one action per store it visits.  What a browser sends back *)
(* is a passkey and the ceremony whose challenge it answers; None stands   *)
(* for the answers that fail any other check (another relying party, no    *)
(* user present, a bad signature, not CBOR).  JWTs, the options, the       *)
(* signature counter and the time of the last login are left out.          *)
(***************************************************************************)
EXTENDS Integers, FiniteSets

CONSTANTS
  Uids,      \* user ids; new_user_id never returns one twice
  Logins,    \* login ids
  Keys,      \* credential ids, with the key pair behind them
  Txs,       \* transaction ids, each drawn once
  Reqs,      \* requests; one that was answered may serve another call
  None,
  MaxCalls,  \* bound of the model: calls served
  MaxChanges \* bound of the model: management calls and resets

ASSUME PasskeysAssumption ==
  /\ None \notin Uids \cup Logins \cup Keys \cup Txs
  /\ MaxCalls \in Nat /\ MaxChanges \in Nat

VARIABLES
  owner,   \* UserStore.by_login_id: login id -> uid or None
  status,  \* uid -> "unused", "enabled", "disabled" or "gone"
  creds,   \* WebAuthnStore.credentials: uid -> its passkeys
  txs,     \* WebAuthnStore.transactions
  req,     \* request -> the call it serves
  resetPc, \* the store /emulator/reset empties next
  enrolled, \* history: <<passkey, uid>> of the ceremonies that stored one
  finished, \* history: the transactions a finish took
  twice,    \* history: the transactions two finishes took
  wiped,    \* history: users whose passkeys a reset took, or who came without
  asked,    \* history: transaction -> whose login id its start was given
  calls, changes

users == <<owner, status>>
history == <<enrolled, finished, twice, wiped, asked>>
vars == <<users, creds, txs, req, resetPc, history, calls, changes>>

Ceremonies == {"signUp", "signIn", "update"}

\* status: "open", or "old" once the ceremony is past its time to live.
Transaction ==
  [status : {"unused", "open", "old", "gone"}, ceremony : Ceremonies \cup {None},
   login : Logins \cup {None}, uid : Uids \cup {None}]

NoTransaction ==
  [status |-> "unused", ceremony |-> None, login |-> None, uid |-> None]

\* uid: whom the call found, is signing up or signs in; tx: the transaction;
\* key and challenge: the browser's response; login: the login id sent or taken.
Call ==
  [pc : {"idle", "load", "has", "begin", "take", "register", "insert", "mint",
         "recordLogin"},
   op : {"none", "start", "finish"}, ceremony : Ceremonies \cup {None},
   login : Logins \cup {None}, uid : Uids \cup {None}, tx : Txs \cup {None},
   key : Keys \cup {None}, challenge : Txs \cup {None}, session : Uids \cup {None}]

Idle == [pc |-> "idle", op |-> "none", ceremony |-> None, login |-> None,
         uid |-> None, tx |-> None, key |-> None, challenge |-> None,
         session |-> None]

At(r, step) == req[r].pc = step
Goto(r, step) == req' = [req EXCEPT ![r].pc = step]
\* The call is answered, with a result or an error.
Answer(r) == req' = [req EXCEPT ![r] = Idle]

Taken(l) == owner[l] # None
Stored(u) == status[u] \in {"enabled", "disabled"}
Open(t) == txs[t].status \in {"open", "old"}
Started(t) == txs[t].status # "unused"

\* UserStore.load: who registered the id, else anybody or nobody.  UserStore has
\* the rest of the chain, by email, by phone and by a bare name.
Loaded(l) == IF Taken(l) THEN {owner[l]} ELSE {None} \cup {u \in Uids : Stored(u)}

-----------------------------------------------------------------------------
(* Calls *)

CallStart(r, c, l) ==
  req' = [req EXCEPT ![r] = [Idle EXCEPT !.pc = "load", !.op = "start",
                                         !.ceremony = c, !.login = l]]

\* A finish may name any transaction that was started and bring the answer to
\* the challenge of another.
CallFinish(r, c, t, k, s) ==
  /\ Started(t)
  /\ s # None => Started(s)
  /\ req' = [req EXCEPT ![r] = [Idle EXCEPT !.pc = "take", !.op = "finish",
                                  !.ceremony = c, !.tx = t, !.key = k,
                                  !.challenge = s]]

Arrive(r) ==
  /\ At(r, "idle") /\ calls < MaxCalls
  /\ calls' = calls + 1
  /\ \/ \E c \in Ceremonies, l \in Logins : CallStart(r, c, l)
     \/ \E c \in Ceremonies, t \in Txs, k \in Keys, s \in Txs \cup {None} :
          CallFinish(r, c, t, k, s)
  /\ UNCHANGED <<users, creds, txs, resetPc, history, changes>>

-----------------------------------------------------------------------------
(* Starting a ceremony *)

\* Mutant of Found: the ceremony is kept under the login id.
FoundLogin(l, u) == l

\* Whom a ceremony is for: the user u behind the login id l.
Found(l, u) == u

\* signup_start refuses a login id that leads to a user; the others need one.
Load(r) ==
  /\ At(r, "load")
  /\ LET l == req[r].login
         c == req[r].ceremony
     IN \E u \in Loaded(l) :
          IF u # None <=> c = "signUp" THEN Answer(r)
          ELSE req' = [req EXCEPT ![r].uid = Found(l, u),
                                  ![r].pc = IF c = "signIn" THEN "has" ELSE "begin"]
  /\ UNCHANGED <<users, creds, txs, resetPc, history, calls, changes>>

\* signin_start: has_credentials.
HasPasskey(r) ==
  /\ At(r, "has")
  /\ IF creds[req[r].uid] = {} THEN Answer(r) ELSE Goto(r, "begin")
  /\ UNCHANGED <<users, creds, txs, resetPc, history, calls, changes>>

\* The only place where ceremonies past their time are swept.
Swept ==
  [t \in Txs |-> IF txs[t].status = "old" THEN [NoTransaction EXCEPT !.status = "gone"]
                 ELSE txs[t]]

\* begin: a new transaction t for the user the handler found.
Begin(r, t) ==
  /\ At(r, "begin")
  /\ txs[t].status = "unused"
  /\ txs' = [Swept EXCEPT ![t] = [status |-> "open", ceremony |-> req[r].ceremony,
                                  login |-> req[r].login, uid |-> req[r].uid]]
  /\ asked' = [asked EXCEPT ![t] = req[r].uid]
  /\ Answer(r)
  /\ UNCHANGED <<users, creds, resetPc, enrolled, finished, twice, wiped, calls, changes>>

-----------------------------------------------------------------------------
(* Finishing a ceremony *)

\* take_transaction puts a ceremony of another kind back.
Takes(r) == Open(req[r].tx) /\ txs[req[r].tx].ceremony = req[r].ceremony

\* Mutant of AfterTaking: looks the transaction up and leaves it.
AfterTakingStill(t) == txs[t]

\* What is left of a transaction that was taken.
AfterTaking(t) == [NoTransaction EXCEPT !.status = "gone"]

Take(r) ==
  LET t == req[r].tx IN
  /\ txs' = [txs EXCEPT ![t] = AfterTaking(t)]
  /\ finished' = finished \cup {t}
  /\ twice' = IF t \in finished THEN twice \cup {t} ELSE twice

\* check_client_data, parse_auth_data: the response answers the challenge of
\* the transaction the request took, and nothing else is wrong with it.
Accepted(r) == req[r].challenge = req[r].tx

\* finish_registration for the user u.
Register(u, k) ==
  /\ creds' = [creds EXCEPT ![u] = @ \cup {k}]
  /\ enrolled' = enrolled \cup {<<k, u>>}

\* Mutant of Follows: the account first, then its passkey.
FollowsSwapped(step) ==
  CASE step = "take" -> "insert" [] step = "insert" -> "register"
    [] OTHER -> "mint"

\* What follows in signup_finish: the passkey, the account, the session.
Follows(step) ==
  CASE step = "take" -> "register" [] step = "register" -> "insert"
    [] OTHER -> "mint"

\* signup_finish: the transaction, and a user id for the new user.
TakeSignUp(r, u) ==
  /\ At(r, "take") /\ req[r].ceremony = "signUp"
  /\ IF Takes(r)
     THEN /\ status[u] = "unused" /\ \A q \in Reqs : req[q].uid # u
          /\ \A k \in Keys : <<k, u>> \notin enrolled
          /\ Take(r)
          /\ req' = [req EXCEPT ![r].pc = Follows("take"), ![r].uid = u,
                                ![r].login = txs[req[r].tx].login]
     ELSE Answer(r) /\ UNCHANGED <<txs, finished, twice>>
  /\ UNCHANGED <<users, creds, resetPc, enrolled, wiped, asked, calls, changes>>

\* signup_finish: the passkey, for a user who is not in the store yet.
RegisterNew(r) ==
  /\ At(r, "register")
  /\ IF Accepted(r) THEN Register(req[r].uid, req[r].key) /\ Goto(r, Follows("register"))
     ELSE Answer(r) /\ UNCHANGED <<creds, enrolled>>
  /\ UNCHANGED <<users, txs, resetPc, finished, twice, wiped, asked, calls, changes>>

\* signup_finish: insert, which refuses a login id registered since the start;
\* the passkey stays behind.
Insert(r) ==
  /\ At(r, "insert")
  /\ LET l == req[r].login IN
     IF Taken(l) THEN Answer(r) /\ UNCHANGED users
     ELSE /\ owner' = [owner EXCEPT ![l] = req[r].uid]
          /\ status' = [status EXCEPT ![req[r].uid] = "enabled"]
          /\ Goto(r, Follows("insert"))
  /\ UNCHANGED <<creds, txs, resetPc, history, calls, changes>>

\* Whose passkeys an assertion is checked against, and whom it signs in.
Subject(t) == txs[t].uid

\* Mutant of Holds: any passkey the store knows will do.
HoldsAny(u, k) == \E v \in Uids : k \in creds[v]

\* The passkey is one of the user's own.
Holds(u, k) == k \in creds[u]

\* signin_finish: the transaction and the assertion in one visit.
AssertPasskey(r) ==
  /\ At(r, "take") /\ req[r].ceremony = "signIn"
  /\ IF Takes(r)
     THEN LET u == Subject(req[r].tx) IN
          /\ Take(r)
          /\ IF Accepted(r) /\ u # None /\ Holds(u, req[r].key)
             THEN req' = [req EXCEPT ![r].pc = "mint", ![r].uid = u]
             ELSE Answer(r)
     ELSE Answer(r) /\ UNCHANGED <<txs, finished, twice>>
  /\ UNCHANGED <<users, creds, resetPc, enrolled, wiped, asked, calls, changes>>

\* update_finish: both in one visit, without another look at the user.
AddPasskey(r) ==
  /\ At(r, "take") /\ req[r].ceremony = "update"
  /\ IF Takes(r)
     THEN /\ Take(r)
          /\ IF Accepted(r) THEN Register(txs[req[r].tx].uid, req[r].key)
             ELSE UNCHANGED <<creds, enrolled>>
     ELSE UNCHANGED <<txs, finished, twice, creds, enrolled>>
  /\ Answer(r)
  /\ UNCHANGED <<users, resetPc, wiped, asked, calls, changes>>

\* session_for: load_by_user_id, the status and the JWTs under the users lock.
Mint(r) ==
  /\ At(r, "mint")
  /\ LET u == req[r].uid IN
     IF status[u] = "enabled"
     THEN req' = [req EXCEPT ![r].session = u, ![r].pc = "recordLogin"]
     ELSE Answer(r)
  /\ UNCHANGED <<users, creds, txs, resetPc, history, calls, changes>>

\* record_login_by_user_id, and the answer with the session.
RecordLogin(r) ==
  /\ At(r, "recordLogin")
  /\ Answer(r)
  /\ UNCHANGED <<users, creds, txs, resetPc, history, calls, changes>>

-----------------------------------------------------------------------------
(* Management, reset and time *)

Change == changes < MaxChanges /\ changes' = changes + 1

SetStatus(u, s) ==
  /\ Change
  /\ Stored(u) /\ status[u] # s
  /\ status' = [status EXCEPT ![u] = s]
  /\ UNCHANGED <<owner, creds, txs, req, resetPc, history, calls>>

\* update_login_id
Rename(l, m) ==
  /\ Change
  /\ Taken(l) /\ ~Taken(m)
  /\ owner' = [owner EXCEPT ![l] = None, ![m] = owner[l]]
  /\ UNCHANGED <<status, creds, txs, req, resetPc, history, calls>>

\* The user goes, and the ids ls on its list, one that another user registered
\* perhaps; its passkeys and ceremonies stay.
Delete(u, ls) ==
  /\ Change
  /\ Stored(u)
  /\ \A l \in Logins : owner[l] = u => l \in ls
  /\ status' = [status EXCEPT ![u] = "gone"]
  /\ owner' = [l \in Logins |-> IF l \in ls THEN None ELSE owner[l]]
  /\ UNCHANGED <<creds, txs, req, resetPc, history, calls>>

\* reset_stores empties the users well before the passkeys.
ResetUsers ==
  /\ Change
  /\ resetPc = "idle" /\ resetPc' = "webauthn"
  /\ status' = [u \in Uids |-> IF Stored(u) THEN "gone" ELSE status[u]]
  /\ owner' = [l \in Logins |-> None]
  /\ UNCHANGED <<creds, txs, req, history, calls>>

ResetPasskeys ==
  /\ resetPc = "webauthn" /\ resetPc' = "idle"
  /\ creds' = [u \in Uids |-> {}]
  /\ txs' = [t \in Txs |-> IF Open(t) THEN [NoTransaction EXCEPT !.status = "gone"]
                           ELSE txs[t]]
  /\ wiped' = wiped \cup {u \in Uids : creds[u] # {}}
  /\ UNCHANGED <<users, req, enrolled, finished, twice, asked, calls, changes>>

\* 300 seconds pass.
Tick ==
  /\ \E t \in Txs : txs[t].status = "open"
  /\ txs' = [t \in Txs |-> IF txs[t].status = "open" THEN [txs[t] EXCEPT !.status = "old"]
                           ELSE txs[t]]
  /\ UNCHANGED <<users, creds, req, resetPc, history, calls, changes>>

-----------------------------------------------------------------------------
\* Any users may have signed up before, with passkeys or without.
Init ==
  /\ owner \in [Logins -> Uids \cup {None}]
  /\ \A l, m \in Logins : l # m /\ owner[l] # None => owner[l] # owner[m]
  /\ status = [u \in Uids |-> IF \E l \in Logins : owner[l] = u
                              THEN "enabled" ELSE "unused"]
  /\ creds \in [Uids -> {{}} \cup {{k} : k \in Keys}]
  /\ \A u \in Uids : status[u] = "unused" => creds[u] = {}
  /\ enrolled = {p \in Keys \X Uids : p[1] \in creds[p[2]]}
  /\ txs = [t \in Txs |-> NoTransaction]
  /\ req = [r \in Reqs |-> Idle]
  /\ resetPc = "idle"
  /\ finished = {} /\ twice = {}
  /\ asked = [t \in Txs |-> None]
  /\ wiped = {u \in Uids : status[u] = "enabled" /\ creds[u] = {}}
  /\ calls = 0 /\ changes = 0

Serve(r) ==
  \/ Load(r) \/ HasPasskey(r) \/ \E t \in Txs : Begin(r, t)
  \/ \E u \in Uids : TakeSignUp(r, u)
  \/ RegisterNew(r) \/ Insert(r) \/ AssertPasskey(r) \/ AddPasskey(r)
  \/ Mint(r) \/ RecordLogin(r)

Manage ==
  \/ \E u \in Uids, ls \in SUBSET Logins : Delete(u, ls)
  \/ \E u \in Uids : SetStatus(u, "enabled") \/ SetStatus(u, "disabled")
  \/ \E l, m \in Logins : Rename(l, m)
  \/ ResetUsers \/ ResetPasskeys

Next == (\E r \in Reqs : Arrive(r) \/ Serve(r)) \/ Manage \/ Tick

Spec == Init /\ [][Next]_vars

-----------------------------------------------------------------------------
(* Properties *)

\* Every variable keeps its shape.
TypeOK ==
  /\ owner \in [Logins -> Uids \cup {None}]
  /\ status \in [Uids -> {"unused", "enabled", "disabled", "gone"}]
  /\ creds \in [Uids -> SUBSET Keys]
  /\ txs \in [Txs -> Transaction]
  /\ req \in [Reqs -> Call]
  /\ resetPc \in {"idle", "webauthn"}
  /\ enrolled \subseteq Keys \X Uids
  /\ finished \subseteq Txs /\ twice \subseteq Txs
  /\ wiped \subseteq Uids
  /\ asked \in [Txs -> Uids \cup {None}]
  /\ calls \in Nat /\ changes \in Nat

\* A ceremony is finished at most once, however many finishes name it at once
\* and although a finish of the wrong kind puts it back.
FinishedOnce == twice = {}

\* A session is for a user that enrolled the very passkey presented, and a
\* sign-in is for whoever the login id led to when the ceremony started, although
\* it may lead to another passkey user by its finish.
SignsInEnrolledUser ==
  \A r \in Reqs : req[r].session # None =>
    /\ <<req[r].key, req[r].session>> \in enrolled
    /\ req[r].ceremony = "signIn" => req[r].session = asked[req[r].tx]

\* Whoever signed up with a passkey can sign in with one: nobody is in the
\* store without the passkey it signed up with, unless a reset swept the
\* passkeys underneath.
SignedUpHasPasskey ==
  \A u \in Uids : Stored(u) /\ u \notin wiped => creds[u] # {}
=============================================================================
