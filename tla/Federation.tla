----------------------------- MODULE Federation -----------------------------
(***************************************************************************)
(* Single sign-on with the emulated identity providers: starting at the    *)
(* application (routes/auth/saml.rs), the OIDC and the SAML provider       *)
(* (routes/emulator/idp_oidc.rs, idp_saml.rs), the configuration screen    *)
(* (routes/emulator/sso_provision.rs), the provisioning of users who sign  *)
(* in for the first time (sso_jit.rs) and the exchange of the code for a   *)
(* session, while management edits tenants, providers and users and        *)
(* /emulator/reset empties the stores.                                     *)
(*                                                                         *)
(* A handler is one action per store it visits.  What a browser carries    *)
(* between two calls (an assertion, a code, a return URL) is the input of  *)
(* the second; the ACS takes any assertion.  The login ids of Accounts are *)
(* the email addresses here, in lower case.  Attributes, roles, pages,     *)
(* metadata, keys, JWTs, the client secret and the cap of the token store  *)
(* are left out.                                                           *)
(***************************************************************************)
EXTENDS Accounts, Integers, FiniteSets

CONSTANTS
  Tenants,
  SsoTenants, \* the tenants configured for SAML or OIDC
  Domains,    \* Domains[t]: the addresses on the domains of tenant t
  OidcIdps, SamlIdps, \* ids of identity providers, each drawn once
  TenantOf,   \* TenantOf[i]: the tenant of provider i, which update_idp keeps
  Codes,      \* authorization and exchange codes, each drawn once
  Reqs,       \* requests; one that was answered may serve another call
  MaxCalls,   \* bound of the model: calls served
  MaxChanges  \* bound of the model: management calls and resets

Idps == OidcIdps \cup SamlIdps

ASSUME FederationAssumption ==
  /\ None \notin Uids \cup Logins \cup Tenants \cup Idps \cup Codes
  /\ Uids \cap Tenants = {}
  /\ SsoTenants \subseteq Tenants
  /\ Domains \in [Tenants -> SUBSET Logins]
  /\ TenantOf \in [Idps -> Tenants]
  /\ MaxCalls \in Nat /\ MaxChanges \in Nat

VARIABLES
  tenants, \* tenant -> "gone", or its provisioning "on" or "off"
  idps,    \* IdpStore: the providers that are set up
  codes,   \* OidcCodeStore ("auth") and the SAML codes of TokenStore ("sp")
  req,     \* request -> the call it serves
  resetPc, \* the store /emulator/reset empties next
  calls, changes

vars == <<accounts, tenants, idps, codes, req, resetPc, calls, changes>>

\* uid: a user, or the tenant of a code that names none.
\* addr, moved: history, the address it is for, and whether that was made to
\* lead elsewhere since.
Code == [kind : {"unused", "auth", "sp", "spent"},
         uid : Uids \cup Tenants \cup {None}, addr : Logins \cup {None},
         moved : BOOLEAN]

NoCode == [kind |-> "unused", uid |-> None, addr |-> None, moved |-> FALSE]

\* tenant, setting: the copy of the tenant a handler works on.
\* allowed: history, the tenants that provisioned at some time since the call.
Call == [pc : {"idle", "tenant", "idp", "acsUrl", "lookup", "exists", "insert",
               "reload", "authCode", "spCode", "redeem", "redeemedUser",
               "mint", "recordLogin"},
         op : {"none", "start", "startTenant", "submit", "resume", "authorize",
               "sso", "acs", "token", "callback", "exchange"},
         addr : Logins \cup {None}, tenant : Tenants \cup {None},
         setting : {"off", "on"}, idp : Idps \cup {None},
         code : Codes \cup {None},
         uid : Uids \cup Tenants \cup {None}, session : Uids \cup {None},
         moved : BOOLEAN, allowed : SUBSET Tenants]

Idle == [pc |-> "idle", op |-> "none", addr |-> None, tenant |-> None,
         setting |-> "off", idp |-> None, code |-> None, uid |-> None,
         session |-> None, moved |-> FALSE, allowed |-> {}]

At(r, step) == req[r].pc = step
Goto(r, step) == req' = [req EXCEPT ![r].pc = step]
\* The call is answered, with a page, a redirect or an error.
Answer(r) == req' = [req EXCEPT ![r] = Idle]

Held(t) == tenants[t] # "gone"
Provisioning == {t \in Tenants : tenants[t] = "on"}

-----------------------------------------------------------------------------
(* Calls *)

Open(o, step) ==
  [Idle EXCEPT !.op = o, !.pc = step, !.allowed = Provisioning]

\* saml/start with an address, and the ACS: the latter looks the user up first.
CallStart(r, a) == req' = [req EXCEPT ![r] = [Open("start", "tenant") EXCEPT !.addr = a]]
CallAcs(r, a) == req' = [req EXCEPT ![r] = [Open("acs", "lookup") EXCEPT !.addr = a]]

\* saml/start with a tenant id: nobody to sign in yet.
CallStartTenant(r, t) ==
  req' = [req EXCEPT ![r] = [Idle EXCEPT !.op = "startTenant", !.pc = "tenant",
                                          !.tenant = t]]

\* The screen's form; it may name the tenant, and resumes with a code or at the
\* provider that sent the browser here.
CallSubmit(r, a, t, o) ==
  req' = [req EXCEPT ![r] = [Open(o, "tenant") EXCEPT !.addr = a, !.tenant = t]]

\* authorize and sso, with the user the picker or a test chose.
CallIdp(r, o, i, a) ==
  req' = [req EXCEPT ![r] = [Open(o, "idp") EXCEPT !.idp = i, !.addr = a]]

\* The token endpoint, the provider's callback, saml/exchange.
CallRedeem(r, o, c) ==
  /\ codes[c].kind # "unused"
  /\ req' = [req EXCEPT ![r] = [Idle EXCEPT !.op = o, !.pc = "redeem", !.code = c]]

Arrive(r) ==
  /\ At(r, "idle") /\ calls < MaxCalls
  /\ calls' = calls + 1
  /\ \/ \E a \in Logins : CallStart(r, a) \/ CallAcs(r, a)
     \/ \E t \in Tenants : CallStartTenant(r, t)
     \/ \E a \in Logins, t \in Tenants \cup {None} :
          CallSubmit(r, a, t, "submit") \/ CallSubmit(r, a, t, "resume")
     \/ \E i \in Idps, a \in Logins, o \in {"authorize", "sso"} : CallIdp(r, o, i, a)
     \/ \E c \in Codes, o \in {"token", "callback", "exchange"} : CallRedeem(r, o, c)
  /\ UNCHANGED <<accounts, tenants, idps, codes, resetPc, changes>>

-----------------------------------------------------------------------------
(* Whom a sign-in is for *)

\* What a handler does once it has its user: another code, or its answer.
AfterUser(o) ==
  CASE o = "authorize" -> "authCode"
    [] o \in {"sso", "resume"} -> "idle"
    [] OTHER -> "spCode"

Settled(q, u) ==
  IF AfterUser(q.op) = "idle" THEN Idle
  ELSE [Idle EXCEPT !.op = q.op, !.uid = u, !.addr = q.addr, !.pc = AfterUser(q.op)]

Found(r, u) == req' = [req EXCEPT ![r] = Settled(req[r], u)]

\* idp_emulators.load: the provider, and that it speaks the protocol.
LoadIdp(r) ==
  /\ At(r, "idp")
  /\ LET i == req[r].idp IN
     IF i \in idps /\ (i \in OidcIdps <=> req[r].op = "authorize")
     THEN req' = [req EXCEPT ![r].tenant = TenantOf[i], ![r].idp = None,
                             ![r].pc = IF req[r].op = "sso" THEN "acsUrl" ELSE "lookup"]
     ELSE Answer(r)
  /\ UNCHANGED <<accounts, tenants, idps, codes, resetPc, calls, changes>>

\* sso asks the tenant where the assertion goes.
LoadAcsUrl(r) ==
  /\ At(r, "acsUrl")
  /\ IF Held(req[r].tenant) THEN Goto(r, "lookup") ELSE Answer(r)
  /\ UNCHANGED <<accounts, tenants, idps, codes, resetPc, calls, changes>>

\* users.load: who is known signs in.  The others saml/start refuses, or sends
\* to the screen if the tenant or the call wants that; the rest provisions them.
LookUp(r) ==
  /\ At(r, "lookup")
  /\ LET a == req[r].addr
         o == req[r].op
     IN \/ Known(a) /\ Found(r, Behind(a))
        \/ /\ ~Known(a) /\ o = "start"
           /\ Answer(r) \/ (req[r].setting = "on" /\ Goto(r, "exists"))
        \/ ~Known(a) /\ o # "start" /\ Goto(r, "tenant")
  /\ UNCHANGED <<accounts, tenants, idps, codes, resetPc, calls, changes>>

\* Mutant of Owning: a tenant that was deleted still owns its addresses.
OwningDeleted(a) == {t \in SsoTenants : a \in Domains[t]}

\* find_by_email: any SSO tenant that owns the address.
Owning(a) == {t \in SsoTenants : Held(t) /\ a \in Domains[t]}

\* The handler goes on with a copy of tenant t.
Copy(r, t, step) ==
  req' = [req EXCEPT ![r].tenant = t, ![r].setting = tenants[t], ![r].pc = step]

\* tenants.read(): by address, by the id in the call, or the provider's.
LoadTenant(r) ==
  /\ At(r, "tenant")
  /\ LET t == req[r].tenant
         o == req[r].op
     IN \/ /\ o = "startTenant"
           /\ IF t \in SsoTenants /\ tenants[t] = "off"
              THEN req' = [req EXCEPT ![r].uid = t, ![r].pc = "spCode"]
              ELSE Answer(r)
        \/ /\ o # "startTenant" /\ t = None
           /\ IF Owning(req[r].addr) = {} THEN Answer(r)
              ELSE \E s \in Owning(req[r].addr) :
                     Copy(r, s, IF o = "start" THEN "lookup" ELSE "exists")
        \/ /\ o # "startTenant" /\ t # None
           /\ IF Held(t) THEN Copy(r, t, "exists") ELSE Answer(r)
  /\ UNCHANGED <<accounts, tenants, idps, codes, resetPc, calls, changes>>

-----------------------------------------------------------------------------
(* provision_sso_user *)

\* A tenant with domains vouches for the addresses on them only.
Vouches(t, a) == Domains[t] = {} \/ a \in Domains[t]

\* Mutant of Willing: left to the handlers that call it.
WillingAlways(setting) == TRUE

\* jit.enabled, in the copy of the tenant.
Willing(setting) == setting = "on"

\* Existing user wins.
Exists(r) ==
  /\ At(r, "exists")
  /\ LET a == req[r].addr IN
     IF Vouches(req[r].tenant, a) /\ Willing(req[r].setting)
     THEN IF Known(a) THEN Found(r, Behind(a)) ELSE Goto(r, "insert")
     ELSE Answer(r)
  /\ UNCHANGED <<accounts, tenants, idps, codes, resetPc, calls, changes>>

\* Mutant of AfterInsert: the loser goes on with the user it made up.
AfterInsertOwn(q, u) == Settled(q, u)

\* Winner and loser of a race for the address read it back.
AfterInsert(q, u) == [q EXCEPT !.pc = "reload"]

\* History: the sign-ins for one of the addresses as.
Moved(as) == [r \in Reqs |-> IF req[r].addr \in as THEN [req[r] EXCEPT !.moved = TRUE]
                             ELSE req[r]]
MoveCodes(as) ==
  codes' = [c \in Codes |-> IF codes[c].addr \in as
                            THEN [codes[c] EXCEPT !.moved = TRUE] ELSE codes[c]]

\* users.insert of the new user u, whose email the address is too;
\* UserAlreadyExists is no error here.
Insert(r, u) ==
  /\ At(r, "insert")
  /\ LET l == req[r].addr
         a == [alias EXCEPT ![l] = u]
     IN
     \/ /\ ~Free(l)
        /\ status[u] = "unused"
        /\ req' = [req EXCEPT ![r] = AfterInsert(req[r], u)]
        /\ UNCHANGED <<accounts, codes>>
     \/ /\ Free(l)
        /\ Register(u, l, a)
        /\ req' = [Moved(Claimed(l, a)) EXCEPT ![r] = AfterInsert(req[r], u)]
        /\ MoveCodes(Claimed(l, a))
  /\ UNCHANGED <<tenants, idps, resetPc, calls, changes>>

\* users.load again; gone if management was faster.
Reload(r) ==
  /\ At(r, "reload")
  /\ LET a == req[r].addr IN IF Known(a) THEN Found(r, Behind(a)) ELSE Answer(r)
  /\ UNCHANGED <<accounts, tenants, idps, codes, resetPc, calls, changes>>

-----------------------------------------------------------------------------
(* Codes *)

\* oidc_codes.insert, or tokens.insert of a SAML code.
IssueCode(r, c) ==
  /\ req[r].pc \in {"authCode", "spCode"}
  /\ codes[c] = NoCode
  /\ codes' = [codes EXCEPT ![c] =
       [kind |-> IF At(r, "authCode") THEN "auth" ELSE "sp", uid |-> req[r].uid,
        addr |-> req[r].addr, moved |-> req[r].moved]]
  /\ Answer(r)
  /\ UNCHANGED <<accounts, tenants, idps, resetPc, calls, changes>>

\* What is left of a code that was consumed.
Spent == [NoCode EXCEPT !.kind = "spent"]

\* consume, and what each handler does with the entry.  saml/exchange refuses a
\* code for a tenant.  The token endpoint answers with an id_token, or the error
\* of another provider or client, or of a provider, tenant or user that is gone.
Redeem(r) ==
  /\ At(r, "redeem")
  /\ LET c == req[r].code
         o == req[r].op
     IN \/ /\ codes[c].kind # (IF o = "exchange" THEN "sp" ELSE "auth")
           /\ Answer(r)
           /\ UNCHANGED codes
        \/ /\ codes[c].kind = (IF o = "exchange" THEN "sp" ELSE "auth")
           /\ codes' = [codes EXCEPT ![c] = Spent]
           /\ IF o = "token" \/ codes[c].uid \in Tenants
              THEN Answer(r)
              ELSE req' = [req EXCEPT
                     ![r].uid = codes[c].uid, ![r].code = None,
                     ![r].addr = codes[c].addr, ![r].moved = codes[c].moved,
                     ![r].pc = IF o = "exchange" THEN "mint" ELSE "redeemedUser"]
  /\ UNCHANGED <<accounts, tenants, idps, resetPc, calls, changes>>

\* The callback loads the user and goes on with a code of its own for it.
RedeemedUser(r) ==
  /\ At(r, "redeemedUser")
  /\ IF Stored(req[r].uid) THEN Goto(r, "spCode") ELSE Answer(r)
  /\ UNCHANGED <<accounts, tenants, idps, codes, resetPc, calls, changes>>

\* Whom the exchange signs in.
Subject(r) == req[r].uid

\* exchange: load_by_user_id, the status and both JWTs under the users lock.
Mint(r) ==
  /\ At(r, "mint")
  /\ IF status[Subject(r)] = "enabled"
     THEN req' = [req EXCEPT ![r].session = Subject(r), ![r].pc = "recordLogin"]
     ELSE Answer(r)
  /\ UNCHANGED <<accounts, tenants, idps, codes, resetPc, calls, changes>>

RecordLogin(r) ==
  /\ At(r, "recordLogin")
  /\ Answer(r)
  /\ UNCHANGED <<accounts, tenants, idps, codes, resetPc, calls, changes>>

-----------------------------------------------------------------------------
(* Management and reset *)

Change == changes < MaxChanges /\ changes' = changes + 1

Move(as) == req' = Moved(as) /\ MoveCodes(as)

\* set_sso_jit
SetJit(t, s) ==
  /\ Change
  /\ Held(t) /\ tenants[t] # s
  /\ tenants' = [tenants EXCEPT ![t] = s]
  /\ req' = [r \in Reqs |-> IF s = "on" /\ ~At(r, "idle")
               THEN [req[r] EXCEPT !.allowed = @ \cup {t}] ELSE req[r]]
  /\ UNCHANGED <<accounts, idps, codes, resetPc, calls>>

DeleteTenant(t) ==
  /\ Change
  /\ Held(t)
  /\ tenants' = [tenants EXCEPT ![t] = "gone"]
  /\ UNCHANGED <<accounts, idps, codes, req, resetPc, calls>>

\* delete_idp
DeleteIdp(i) ==
  /\ Change
  /\ i \in idps
  /\ idps' = idps \ {i}
  /\ UNCHANGED <<accounts, tenants, codes, req, resetPc, calls>>

Disable(u) ==
  /\ Change
  /\ SwitchStatus(u, "disabled")
  /\ UNCHANGED <<tenants, idps, codes, req, resetPc, calls>>

\* Any other surface that inserts a user.
Join(u, l, a) ==
  /\ Change
  /\ Free(l)
  /\ Register(u, l, a)
  /\ Move(Claimed(l, a))
  /\ UNCHANGED <<tenants, idps, resetPc, calls>>

\* update_login_id
Rename(l, m, a) ==
  /\ Change
  /\ Rekey(l, m, a)
  /\ Move({l, m} \cup Turned(a))
  /\ UNCHANGED <<tenants, idps, resetPc, calls>>

\* update and patch of an email or a phone.
Describe(l, u) ==
  /\ Change
  /\ Realias(l, u)
  /\ Move(Loose \cap {l})
  /\ UNCHANGED <<tenants, idps, resetPc, calls>>

Delete(u, ls, a) ==
  /\ Change
  /\ Remove(u, ls, a)
  /\ Move(ls \cup Turned(a))
  /\ UNCHANGED <<tenants, idps, resetPc, calls>>

\* reset_stores: users, tenants, providers, authorization codes.  The codes for
\* the application stay.
ResetUsers ==
  /\ Change
  /\ resetPc = "idle" /\ resetPc' = "tenants"
  /\ RemoveAll
  /\ Move(Logins)
  /\ UNCHANGED <<tenants, idps, calls>>

ResetTenants ==
  /\ resetPc = "tenants" /\ resetPc' = "idps"
  /\ tenants' = [t \in Tenants |-> "gone"]
  /\ UNCHANGED <<accounts, idps, codes, req, calls, changes>>

ResetIdps ==
  /\ resetPc = "idps" /\ resetPc' = "codes"
  /\ idps' = {}
  /\ UNCHANGED <<accounts, tenants, codes, req, calls, changes>>

ResetCodes ==
  /\ resetPc = "codes" /\ resetPc' = "idle"
  /\ codes' = [c \in Codes |-> IF codes[c].kind = "auth" THEN Spent ELSE codes[c]]
  /\ UNCHANGED <<accounts, tenants, idps, req, calls, changes>>

-----------------------------------------------------------------------------
\* Tenants and providers are set up, provisioning is on, nobody is known.
Init ==
  /\ owner = [l \in Logins |-> None]
  /\ alias = [l \in Logins |-> None]
  /\ status = [u \in Uids |-> "unused"]
  /\ tenants = [t \in Tenants |-> "on"]
  /\ idps = Idps
  /\ codes = [c \in Codes |-> NoCode]
  /\ req = [r \in Reqs |-> Idle]
  /\ resetPc = "idle"
  /\ calls = 0 /\ changes = 0

Serve(r) ==
  \/ LoadIdp(r) \/ LoadAcsUrl(r) \/ LookUp(r) \/ LoadTenant(r) \/ Exists(r)
  \/ \E u \in Uids : Insert(r, u)
  \/ Reload(r)
  \/ \E c \in Codes : IssueCode(r, c)
  \/ Redeem(r) \/ RedeemedUser(r)
  \/ Mint(r) \/ RecordLogin(r)

Manage ==
  \/ \E t \in Tenants : \/ DeleteTenant(t)
                        \/ \E s \in {"off", "on"} : SetJit(t, s)
  \/ \E i \in Idps : DeleteIdp(i)
  \/ \E u \in Uids : Disable(u) \/ \E l \in Logins, a \in Aliases : Join(u, l, a)
  \/ \E u \in Uids, ls \in SUBSET Logins, a \in Aliases : Delete(u, ls, a)
  \/ \E l, m \in Logins, a \in Aliases : Rename(l, m, a)
  \/ \E l \in Logins, u \in Uids \cup {None} : Describe(l, u)
  \/ ResetUsers \/ ResetTenants \/ ResetIdps \/ ResetCodes

Next == (\E r \in Reqs : Arrive(r) \/ Serve(r)) \/ Manage

Spec == Init /\ [][Next]_vars

-----------------------------------------------------------------------------
(* Properties *)

\* Every variable keeps its shape.
TypeOK ==
  /\ AccountsTyped
  /\ tenants \in [Tenants -> {"gone", "off", "on"}]
  /\ idps \subseteq Idps
  /\ codes \in [Codes -> Code]
  /\ req \in [Reqs -> Call]
  /\ resetPc \in {"idle", "tenants", "idps", "codes"}
  /\ calls \in Nat /\ changes \in Nat

\* Several surfaces may provision one address at once.  They end at one user:
\* every code and every session for an address is for the user the address
\* leads to.  The exceptions: management or a reset makes the address lead
\* elsewhere, or a new user registers it, who led to another by email only.
SignsInAddressOwner ==
  /\ \A c \in Codes :
       codes[c].uid \in Uids /\ ~codes[c].moved => Behind(codes[c].addr) = codes[c].uid
  /\ \A r \in Reqs :
       req[r].session # None /\ ~req[r].moved => Behind(req[r].addr) = req[r].session

\* Once a tenant's provisioning is switched off, no sign-in that begins later
\* creates a user in it, although the surfaces work on copies of the tenant and
\* the screen comes back in a call of its own.
ProvisionsOnlyWhileOn ==
  \A r \in Reqs : At(r, "insert") => req[r].tenant \in req[r].allowed
=============================================================================
