----------------------------- MODULE OtpSignIn -----------------------------
(***************************************************************************)
(* One-time passwords (routes/auth/otp.rs, store/otp_store.rs): requests   *)
(* that sign a user up or look it up and store a code for it, and requests *)
(* that exchange a code for a session, while management calls rename,      *)
(* disable and delete users and /emulator/reset empties the stores.        *)
(*                                                                         *)
(* A handler is one action per store it visits.  It looks its user up by   *)
(* login id again at every visit to the user store, so it need not find    *)
(* the same user twice.  There is one pending code per user, whichever     *)
(* channel it was sent over.                                               *)
(*                                                                         *)
(* JWTs, the time of the last login and the import of a snapshot after a   *)
(* reset are left out.                                                     *)
(***************************************************************************)
EXTENDS Accounts, Integers, FiniteSets

CONSTANTS
  Codes,    \* six-digit codes, drawn at random and so possibly repeated
  Reqs,     \* requests, each serves one call
  MaxChanges \* bound of the model: management calls and resets

ASSUME OtpSignInAssumption ==
  /\ None \notin Uids \cup Codes \cup Reqs
  /\ MaxChanges \in Nat

VARIABLES
  phoneOk, \* User.verified_phone
  pending, \* OtpStore: uid -> code or None
  resetPc, changes,
  pc, op, login, code, \* per request: next step, handler, login id, code sent
  who,     \* per request: the user it found first, or created
  subject, \* per request: the user it mints for
  source,  \* history: the request that stored a user's pending code
  spent,   \* history: the request whose code a verification consumed
  staged,  \* history: the update_phone a user's phone comes from
  moved    \* history: requests whose login id was made to lead elsewhere

users   == <<accounts, phoneOk, staged>>
otps    == <<pending, source>>
bounds == <<resetPc, changes>>
request == <<pc, op, login, code, who, subject, spent>>
vars == <<users, otps, bounds, request, moved>>

-----------------------------------------------------------------------------
(* Handlers *)

Issuers   == {"signIn", "signUp", "send", "updatePhone"}
Verifiers == {"verifyEmail", "verifyPhone"}
Ops == Issuers \cup Verifiers

\* signIn: signin_email, signup_in_email, signup_in_phone_sms.
\* send: signin_phone_sms, generate_otp_for_test_user.
FirstStep(o) ==
  CASE o = "signUp" -> "insert"
    [] o = "updatePhone" -> "stage"
    [] OTHER -> "load"

Goto(r, step) == pc' = [pc EXCEPT ![r] = step]

\* Mutant of Minting: the user is cloned and the lock let go before minting.
MintingUnlocked == {}

\* Requests that hold the read lock on `users`.
Minting == {r \in Reqs : pc[r] = "mint"}
UsersWritable == Minting = {}

\* A request arrives; OTP may be switched off for those that check.
Start(r, o, l, c) ==
  /\ pc[r] = "idle"
  /\ \/ Goto(r, FirstStep(o))
     \/ o \in {"signIn", "signUp", "send"} /\ Goto(r, "refused")
  /\ c = None <=> o \in Issuers
  /\ op' = [op EXCEPT ![r] = o]
  /\ login' = [login EXCEPT ![r] = l]
  /\ code' = [code EXCEPT ![r] = c]
  /\ UNCHANGED <<users, otps, bounds, who, subject, spent, moved>>

\* History: the requests under way or answered for the login ids ls.
Concerned(ls) == {r \in Reqs : pc[r] # "idle" /\ login[r] \in ls}

\* Mutant of Found: codes kept under the login id.
FoundLogin(r) == login[r]

\* What a handler goes by from here on: the user id behind its login id.
Found(r) == Behind(login[r])

\* users.read().load(login id).
Load(r) ==
  /\ pc[r] = "load"
  /\ who' = [who EXCEPT ![r] = Found(r)]
  /\ CASE ~Known(login[r]) ->
            Goto(r, IF op[r] = "signIn" THEN "insert" ELSE "refused")
       [] Known(login[r]) /\ op[r] \in Issuers -> Goto(r, "store")
       [] OTHER -> Goto(r, IF status[Found(r)] = "disabled"
                           THEN "refused" ELSE "consume")
  /\ UNCHANGED <<users, otps, bounds, op, login, code, subject, spent, moved>>

\* The insert, of a user whose email or phone the login id is.
Insert(r, u, a) ==
  /\ pc[r] = "insert" /\ UsersWritable
  /\ IF Free(login[r])
     THEN /\ Register(u, login[r], a)
          /\ moved' = moved \cup (Concerned(Claimed(login[r], a)) \ {r})
          /\ who' = [who EXCEPT ![r] = u]
          /\ Goto(r, "store")
     ELSE /\ Goto(r, "refused")
          /\ UNCHANGED <<accounts, who, moved>>
  /\ UNCHANGED <<phoneOk, staged, otps, bounds, op, login, code, subject, spent>>

\* update_phone: the new phone, not verified yet, instead of the old one.
Stage(r, a) ==
  /\ pc[r] = "stage" /\ UsersWritable
  /\ who' = [who EXCEPT ![r] = Found(r)]
  /\ IF Known(login[r])
     THEN /\ phoneOk' = [phoneOk EXCEPT ![Found(r)] = FALSE]
          /\ staged' = [staged EXCEPT ![Found(r)] = r]
          /\ a \in Edited(Found(r))
          /\ alias' = a
          /\ moved' = moved \cup Concerned(Turned(a))
          /\ Goto(r, "store")
     ELSE /\ Goto(r, "refused")
          /\ UNCHANGED <<alias, phoneOk, staged, moved>>
  /\ UNCHANGED <<owner, status, otps, bounds, op, login, code, subject, spent>>

\* otps.write().store(): overwrites the pending code, and does not ask whether
\* the user is still there.  The answer carries the code.
Store(r, c) ==
  /\ pc[r] = "store"
  /\ code' = [code EXCEPT ![r] = c]
  /\ pending' = [pending EXCEPT ![who[r]] = c]
  /\ source' = [source EXCEPT ![who[r]] = r]
  /\ Goto(r, "ok")
  /\ UNCHANGED <<users, bounds, op, login, who, subject, spent, moved>>

\* Mutant of Kept: consume compares and leaves the code.
KeptAlways(u) == pending[u]

\* What is pending for u once its code is consumed.
Kept(u) == None

\* otps.write().consume(): only the pending code, and it is gone afterwards.
Consume(r) ==
  /\ pc[r] = "consume"
  /\ IF pending[who[r]] = code[r]
     THEN /\ pending' = [pending EXCEPT ![who[r]] = Kept(who[r])]
          /\ spent' = [spent EXCEPT ![r] = source[who[r]]]
          /\ Goto(r, "patch")
     ELSE /\ Goto(r, "refused")
          /\ UNCHANGED <<pending, spent>>
  /\ UNCHANGED <<users, source, bounds, op, login, code, who, subject, moved>>

\* users.write().patch(login id): whoever has the login id now.
Patch(r) ==
  /\ pc[r] = "patch" /\ UsersWritable
  /\ IF Known(login[r])
     THEN /\ phoneOk' = [phoneOk EXCEPT ![Found(r)] = @ \/ op[r] = "verifyPhone"]
          /\ Goto(r, "reload")
     ELSE /\ Goto(r, "burnt")
          /\ UNCHANGED phoneOk
  /\ UNCHANGED <<accounts, staged, otps, bounds, op, login, code, who,
                 subject, spent, moved>>

\* users.read().load(login id) again, without another look at the status.
Reload(r) ==
  /\ pc[r] = "reload"
  /\ subject' = [subject EXCEPT ![r] = Found(r)]
  /\ Goto(r, IF Known(login[r]) THEN "mint" ELSE "burnt")
  /\ UNCHANGED <<users, otps, bounds, op, login, code, who, spent, moved>>

\* Both JWTs are minted, the lock is let go and the login recorded.
Mint(r) ==
  /\ pc[r] = "mint"
  /\ Goto(r, "ok")
  /\ UNCHANGED <<users, otps, bounds, op, login, code, who, subject, spent,
                 moved>>

-----------------------------------------------------------------------------
(* Management and reset *)

\* A management call that writes to `users`.
Change == UsersWritable /\ changes < MaxChanges /\ changes' = changes + 1

SetStatus(u, s) ==
  /\ Change
  /\ SwitchStatus(u, s)
  /\ UNCHANGED <<phoneOk, staged, otps, resetPc, request, moved>>

Rename(old, new, a) ==
  /\ Change
  /\ Rekey(old, new, a)
  /\ moved' = moved \cup Concerned({old, new} \cup Turned(a))
  /\ UNCHANGED <<phoneOk, staged, otps, resetPc, request>>

\* update and patch of an email or a phone.
Describe(l, u) ==
  /\ Change
  /\ Realias(l, u)
  /\ moved' = moved \cup Concerned(Loose \cap {l})
  /\ UNCHANGED <<phoneOk, staged, otps, resetPc, request>>

\* The user goes, its pending code stays behind.
Delete(u, ls, a) ==
  /\ Change
  /\ Remove(u, ls, a)
  /\ moved' = moved \cup Concerned(ls \cup Turned(a))
  /\ UNCHANGED <<phoneOk, staged, otps, resetPc, request>>

\* reset_stores empties the users before the codes.
ResetUsers ==
  /\ Change
  /\ resetPc = "idle" /\ resetPc' = "otps"
  /\ RemoveAll
  /\ moved' = moved \cup Concerned(Logins)
  /\ UNCHANGED <<phoneOk, staged, otps, request>>

ResetCodes ==
  /\ resetPc = "otps"
  /\ resetPc' = "idle"
  /\ pending' = [u \in Uids |-> None]
  /\ moved' = moved \cup Concerned(Logins)
  /\ UNCHANGED <<users, source, changes, request>>

-----------------------------------------------------------------------------
Init ==
  /\ owner = [l \in Logins |-> None]
  /\ alias = [l \in Logins |-> None]
  /\ status = [u \in Uids |-> "unused"]
  /\ phoneOk = [u \in Uids |-> FALSE]
  /\ pending = [u \in Uids |-> None]
  /\ resetPc = "idle" /\ changes = 0
  /\ pc = [r \in Reqs |-> "idle"]
  /\ op = [r \in Reqs |-> "signIn"]
  /\ login = [r \in Reqs |-> None]
  /\ code = [r \in Reqs |-> None]
  /\ who = [r \in Reqs |-> None]
  /\ subject = [r \in Reqs |-> None]
  /\ source = [u \in Uids |-> None]
  /\ spent = [r \in Reqs |-> None]
  /\ staged = [u \in Uids |-> None]
  /\ moved = {}

Serving ==
  \E r \in Reqs :
    \/ \E o \in Ops, l \in Logins, c \in Codes \cup {None} : Start(r, o, l, c)
    \/ Load(r)
    \/ \E c \in Codes : Store(r, c)
    \/ \E a \in Aliases : Stage(r, a) \/ \E u \in Uids : Insert(r, u, a)
    \/ Consume(r) \/ Patch(r) \/ Reload(r) \/ Mint(r)

Managing ==
  \/ \E u \in Uids, s \in {"enabled", "disabled"} : SetStatus(u, s)
  \/ \E u \in Uids, ls \in SUBSET Logins, a \in Aliases : Delete(u, ls, a)
  \/ \E old, new \in Logins, a \in Aliases : Rename(old, new, a)
  \/ \E l \in Logins, u \in Uids \cup {None} : Describe(l, u)
  \/ ResetUsers \/ ResetCodes

Next == Serving \/ Managing

Spec == Init /\ [][Next]_vars

-----------------------------------------------------------------------------
(* Properties *)

Steps == {"idle", "load", "insert", "stage", "store", "consume", "patch",
          "reload", "mint", "ok", "refused", "burnt"}

\* Every variable keeps its shape.
TypeOK ==
  /\ AccountsTyped
  /\ phoneOk \in [Uids -> BOOLEAN]
  /\ pending \in [Uids -> Codes \cup {None}]
  /\ resetPc \in {"idle", "otps"} /\ changes \in Nat
  /\ pc \in [Reqs -> Steps]
  /\ op \in [Reqs -> Ops]
  /\ login \in [Reqs -> Logins \cup {None}]
  /\ code \in [Reqs -> Codes \cup {None}]
  /\ who \in [Reqs -> Uids \cup {None}]
  /\ subject \in [Reqs -> Uids \cup {None}]
  /\ source \in [Uids -> Reqs \cup {None}]
  /\ spent \in [Reqs -> Reqs \cup {None}]
  /\ staged \in [Uids -> Reqs \cup {None}]
  /\ moved \subseteq Reqs

\* Requests that race to create the account of one login id agree on it in the
\* end: a code that was handed out belongs to the account its login id leads
\* to.  Management, update_phone and a reset may take it away, and so may a
\* sign-up where the id led there by an email, a phone or a bare name only.
OneAccountPerLogin ==
  \A r \in Reqs \ moved :
    pc[r] = "ok" /\ op[r] \in Issuers => Behind(login[r]) = who[r]

\* A code that was handed out opens one session: no two verifications succeed
\* on the same one, not even at the same time.
CodeSignsInOnce ==
  \A q, r \in Reqs : q # r /\ spent[q] # None => spent[q] # spent[r]

\* While a verification mints, its user is in the store, and it is the user
\* whose code was consumed, although the login id is looked up three times,
\* unless the id was made to lead elsewhere meanwhile, in one of those ways.
SignsInCodeOwner ==
  \A r \in Reqs : pc[r] = "mint" =>
    /\ Stored(subject[r])
    /\ r \notin moved => subject[r] = who[r] /\ who[spent[r]] = who[r]

\* The comment in update_phone: the new phone stays unverified until the code
\* that update_phone sent is confirmed.
PhoneConfirmedByItsCode ==
  [][ \A u \in Uids : ~phoneOk[u] /\ phoneOk'[u] /\ staged[u] # None =>
        \E r \in Reqs : pc[r] = "patch" /\ pc'[r] # "patch" /\ spent[r] = staged[u] ]_vars
=============================================================================
