---------------------------- MODULE TokenStore ----------------------------
(***************************************************************************)
(* The store of one-time tokens (store/token_store.rs) under concurrent    *)
(* requests: issuers look a user up and insert a token for it, redeemers   *)
(* consume one and then sign its user in (magic_link.rs verify, saml.rs    *)
(* exchange) or change a password (password.rs update_password), while     *)
(* management calls and /emulator/reset change the users underneath.       *)
(*                                                                         *)
(* A redeemer first consumes the token and only then looks at the user, so *)
(* a redemption that fails afterwards has still spent the token.  No       *)
(* consumer looks at a token's type or its creation time; both are left    *)
(* out.  A generated token is 32 random bytes and is taken never to repeat.*)
(***************************************************************************)
EXTENDS Integers, FiniteSets, Sequences

CONSTANTS
  Tokens,   \* token strings
  Users,    \* user ids
  Tenant,   \* the owner "tenant:<id>" of a code issued for a tenant
  NoToken,
  Issuers,  \* concurrent requests that issue tokens, any number of times each
  Redemptions, \* requests that redeem a token, once each
  Cap,      \* TOKEN_STORE_MAX
  MaxResets \* bound of the model: calls of /emulator/reset

ASSUME TokenStoreAssumption ==
  /\ Tenant \notin Users
  /\ NoToken \notin Tokens
  /\ Cap \in Nat \ {0}
  /\ MaxResets \in Nat

VARIABLES
  entries,  \* TokenStore.entries: token -> owner
  order,    \* TokenStore.order: insertion order, for eviction
  status,   \* UserStore: "enabled", "disabled" or "absent"
  resets,   \* calls of /emulator/reset
  issuing,  \* per issuer: the owner it looked up, {} when idle
  pc, code, subj,  \* per redeemer: next step, token presented, user signed in
  count, serial, owner  \* history: tokens issued, their numbers and owners

tokenStore == <<entries, order>>
redeem == <<pc, code, subj>>
history == <<count, serial, owner>>
tokenVars == <<tokenStore, status, resets, issuing, redeem, history>>

Owners == Users \cup {Tenant}
Held == DOMAIN entries
SeqRange(s) == {s[i] : i \in 1..Len(s)}

-----------------------------------------------------------------------------
(* TokenStore::insert and TokenStore::consume *)

\* Mutant of AtCap: evicts one entry early.
AtCapEarly == Cardinality(Held) >= Cap - 1 /\ order # <<>>

AtCap == Cardinality(Held) >= Cap

\* The head of the queue when the store is full.
Evicted == IF AtCap /\ order # <<>> THEN {Head(order)} ELSE {}

InsertToken(t, o) ==
  /\ entries' = [x \in (Held \ Evicted) \cup {t} |->
                   IF x = t THEN o ELSE entries[x]]
  /\ order' = Append(IF Evicted = {} THEN order ELSE Tail(order), t)

\* Mutant of Without: consume leaves the token in the queue.
WithoutNothing(s, t) == s

\* order.retain(|x| x != t); t stands in the queue at most once.
Without(s, t) ==
  IF t \notin SeqRange(s) THEN s
  ELSE LET k == CHOOSE i \in 1..Len(s) : s[i] = t
       IN  [i \in 1..(Len(s) - 1) |-> IF i < k THEN s[i] ELSE s[i + 1]]

\* Mutant of Remaining: a lookup that does not remove.
RemainingAll(t) == Held

Remaining(t) == Held \ {t}

Consume(t) ==
  /\ entries' = [x \in Remaining(t) |-> entries[x]]
  /\ order' = Without(order, t)

-----------------------------------------------------------------------------
(* The lock on the users *)

\* Mutant of MintHolders: the user is cloned and the lock let go before minting.
MintHoldersNone == {}

\* Requests that hold the read lock on `users`.
MintHolders == {r \in Redemptions : pc[r] = "mint"}

UsersWritable == MintHolders = {}

-----------------------------------------------------------------------------
(* Requests that issue a token *)

\* users.read(): the user must exist; nobody looks at its status.
LookUp(i, u) ==
  /\ issuing[i] = {}
  /\ status[u] # "absent"
  /\ issuing' = [issuing EXCEPT ![i] = {u}]
  /\ UNCHANGED <<tokenStore, status, resets, redeem, history>>

\* Nobody has ever been given a token of u, nor is about to be: the id is new.
New(u) ==
  /\ \A t \in Tokens : serial[t] > 0 => owner[t] # u
  /\ \A i \in Issuers : u \notin issuing[i]

\* The sign-ups, and the sign-ins that sign up: the login id is unknown, so a user
\* with a new id is inserted and gets the token.  (An insert that is refused,
\* because somebody else took the login id meanwhile, ends the call.)
SignUp(i, u) ==
  /\ issuing[i] = {}
  /\ status[u] = "absent" /\ New(u)
  /\ UsersWritable
  /\ status' = [status EXCEPT ![u] = "enabled"]
  /\ issuing' = [issuing EXCEPT ![i] = {u}]
  /\ UNCHANGED <<tokenStore, resets, redeem, history>>

\* saml.start for a tenant id.
LookUpTenant(i) ==
  /\ issuing[i] = {}
  /\ issuing' = [issuing EXCEPT ![i] = {Tenant}]
  /\ UNCHANGED <<tokenStore, status, resets, redeem, history>>

\* tokens.write().insert(generate_token(), ..); the user may be gone by now.
IssueToken(i, t) ==
  /\ serial[t] = 0
  /\ \E o \in issuing[i] :
       /\ InsertToken(t, o)
       /\ owner' = [owner EXCEPT ![t] = o]
  /\ count' = count + 1
  /\ serial' = [serial EXCEPT ![t] = count + 1]
  /\ issuing' = [issuing EXCEPT ![i] = {}]
  /\ UNCHANGED <<status, resets, redeem>>

-----------------------------------------------------------------------------
(* Requests that redeem a token *)

Goto(r, step) == pc' = [pc EXCEPT ![r] = step]

\* A client presents a token it was once given.
Present(r, t, step) ==
  /\ pc[r] = "idle"
  /\ serial[t] > 0
  /\ code' = [code EXCEPT ![r] = t]
  /\ IF t \in Held
     THEN /\ Consume(t)
          /\ Goto(r, step)
          /\ subj' = [subj EXCEPT ![r] = {entries[t]}]
     ELSE /\ Goto(r, "invalid")
          /\ UNCHANGED <<tokenStore, subj>>
  /\ UNCHANGED <<status, resets, issuing, history>>

\* Mutant of Admitted: forgets that a user may have been disabled.
AdmittedAnyStatus(o) == o \in Users /\ status[o] # "absent"

\* The owner is a user, exists and is not disabled.
Admitted(o) == o \in Users /\ status[o] = "enabled"

\* verify and exchange take the read lock on `users` here and keep it while
\* they mint.
LoadUser(r) ==
  /\ pc[r] = "load"
  /\ Goto(r, IF \E o \in subj[r] : Admitted(o) THEN "mint" ELSE "burnt")
  /\ UNCHANGED <<tokenStore, status, resets, issuing, code, subj, history>>

\* Both JWTs are minted and the lock is let go.
Mint(r) ==
  /\ pc[r] = "mint"
  /\ Goto(r, "record")
  /\ UNCHANGED <<tokenStore, status, resets, issuing, code, subj, history>>

\* record_login_by_user_id; an error is ignored.
RecordLogin(r) ==
  /\ pc[r] = "record"
  /\ UsersWritable
  /\ Goto(r, "ok")
  /\ UNCHANGED <<tokenStore, status, resets, issuing, code, subj, history>>

\* update_password sets the password of the login id in the request body,
\* whoever owned the token.
SetPassword(r, u) ==
  /\ pc[r] = "setPassword"
  /\ UsersWritable
  /\ Goto(r, IF status[u] # "absent" THEN "passwordSet" ELSE "burnt")
  /\ UNCHANGED <<tokenStore, status, resets, issuing, code, subj, history>>

-----------------------------------------------------------------------------
(* Management calls and reset *)

SetStatus(u, s) ==
  /\ UsersWritable
  /\ status[u] # s
  /\ status' = [status EXCEPT ![u] = s]
  /\ UNCHANGED <<tokenStore, resets, issuing, redeem, history>>

\* Mutant of AfterReset: reset_stores clears `tokens` too.
AfterResetEmpty == /\ entries' = [x \in {} |-> Tenant]
                   /\ order' = <<>>

\* reset_stores keeps the tokens on purpose.
AfterReset == UNCHANGED tokenStore

ResetStores ==
  /\ UsersWritable
  /\ resets < MaxResets
  /\ resets' = resets + 1
  /\ status' = [u \in Users |-> "absent"]
  /\ AfterReset
  /\ UNCHANGED <<issuing, redeem, history>>

-----------------------------------------------------------------------------
TokensInit ==
  /\ entries = [x \in {} |-> Tenant]
  /\ order = <<>>
  /\ status \in [Users -> {"enabled", "absent"}]
  /\ resets = 0
  /\ issuing = [i \in Issuers |-> {}]
  /\ pc = [r \in Redemptions |-> "idle"]
  /\ code = [r \in Redemptions |-> NoToken]
  /\ subj = [r \in Redemptions |-> {}]
  /\ count = 0
  /\ serial = [t \in Tokens |-> 0]
  /\ owner = [t \in Tokens |-> Tenant]

Issuing ==
  \E i \in Issuers :
    \/ \E u \in Users : LookUp(i, u) \/ SignUp(i, u)
    \/ LookUpTenant(i)
    \/ \E t \in Tokens : IssueToken(i, t)

Redeeming ==
  \E r \in Redemptions :
    \/ \E t \in Tokens, step \in {"load", "setPassword"} : Present(r, t, step)
    \/ LoadUser(r) \/ Mint(r) \/ RecordLogin(r)
    \/ \E u \in Users : SetPassword(r, u)

Managing ==
  \/ \E u \in Users, s \in {"enabled", "disabled", "absent"} : SetStatus(u, s)
  \/ ResetStores

TokensNext == Issuing \/ Redeeming \/ Managing

TokensSpec == TokensInit /\ [][TokensNext]_tokenVars

-----------------------------------------------------------------------------
(* Properties *)

Consumed == {"load", "mint", "record", "ok", "burnt", "setPassword", "passwordSet"}
Steps == {"idle", "invalid"} \cup Consumed

\* Every variable keeps its shape; the store never holds more than Cap tokens.
TokensTypeOK ==
  /\ Held \in SUBSET Tokens /\ entries \in [Held -> Owners]
  /\ order \in Seq(Tokens) /\ Len(order) <= Cap
  /\ status \in [Users -> {"enabled", "disabled", "absent"}]
  /\ resets \in Nat
  /\ issuing \in [Issuers -> SUBSET Owners]
  /\ pc \in [Redemptions -> Steps]
  /\ code \in [Redemptions -> Tokens \cup {NoToken}]
  /\ subj \in [Redemptions -> SUBSET Owners]
  /\ count \in Nat
  /\ serial \in [Tokens -> Nat]
  /\ owner \in [Tokens -> Owners]

\* The map and the queue never drift apart, however inserts, evictions and
\* redemptions interleave: the queue lists the stored tokens, each once, in
\* the order they were issued.
QueueMatchesMap ==
  /\ SeqRange(order) = Held
  /\ Cardinality(Held) = Len(order)
  /\ \A i, j \in 1..Len(order) : i < j => serial[order[i]] < serial[order[j]]

Redeemers == [t \in Tokens |-> {r \in Redemptions : code[r] = t /\ pc[r] \in Consumed}]
Lost == {t \in Tokens : serial[t] > 0 /\ Redeemers[t] = {} /\ t \notin Held}

\* The store keeps the promise of OneTimeTokens: one redeemer per token, and
\* only the oldest outstanding token is ever given up, when Cap are held.
OneTime == INSTANCE OneTimeTokens
             WITH Reqs <- Redemptions, redeemers <- Redeemers, lost <- Lost
ImplementsOneTimeTokens == OneTime!Spec

\* An unredeemed token is given up only after Cap newer ones were issued.
LostOnlyUnderPressure == \A t \in Lost : count - serial[t] >= Cap

\* Tokens are minted only for the user the presented token was issued to, and
\* while that user is enabled, whatever was deleted, disabled or reset between
\* the issue, the redemption and the minting.
SignsInEnabledOwner ==
  \A r \in Redemptions : pc[r] = "mint" =>
    /\ subj[r] = {owner[code[r]]}
    /\ \A o \in subj[r] : o \in Users /\ status[o] = "enabled"
=============================================================================
