-------------------------- MODULE FederationProofs --------------------------
(***************************************************************************)
(* Every code and every session of a single sign-on is for the user its    *)
(* address leads to, and no sign-in provisions a user in a tenant that was *)
(* switched off before it began: for all users, addresses, tenants,        *)
(* providers and requests.  Three facts carry it: an address that leads to *)
(* a user comes to lead elsewhere only in steps that mark the sign-ins for *)
(* it as moved; a code keeps the address of the call that issued it; and a *)
(* call allows every tenant that provisions now, so that whatever copy it  *)
(* takes is one it allows.                                                 *)
(***************************************************************************)
EXTENDS Federation, TLAPS

\* An address leads to a stored user.
AccountsInv ==
  \A l \in Logins : /\ owner[l] # None => Stored(owner[l])
                    /\ alias[l] # None => Stored(alias[l])

\* Whom each address leads to.
Leads == [l \in Logins |-> Behind(l)]

\* The steps before a call has its user.
Searching == {"tenant", "idp", "acsUrl", "lookup", "exists", "insert", "reload"}

\* The sign-in of user u for address a.
Owns(a, u, moved, ow) == a \in Logins /\ (~moved => ow[a] = u)

\* What the call q knows at its step, when addresses lead where ow says and the
\* tenants on provision.
Finds(q, ow, on) ==
  /\ q.op = "startTenant" => q.pc \in {"idle", "tenant", "spCode"}
  /\ q.pc \in Searching /\ q.op # "startTenant" => q.addr \in Logins /\ on \subseteq q.allowed
  /\ q.pc = "idp" => q.idp \in Idps
  /\ q.setting = "on" => q.tenant \in q.allowed /\ q.pc # "idp"
  /\ q.pc = "insert" => q.tenant \in q.allowed
  /\ q.pc = "redeem" => q.code \in Codes
  /\ q.pc \in {"authCode", "redeemedUser", "mint"} => q.uid \in Uids
  /\ q.pc = "spCode" => q.uid # None
  /\ q.pc \in {"authCode", "spCode", "redeemedUser", "mint"} /\ q.uid \in Uids =>
       Owns(q.addr, q.uid, q.moved, ow)
  /\ q.session # None => q.pc = "recordLogin" /\ Owns(q.addr, q.session, q.moved, ow)

CallsInv == \A r \in Reqs : Finds(req[r], Leads, Provisioning)

\* What the code d stands for.
Sound(d, ow) ==
  /\ d.kind \in {"auth", "sp"} => d.uid # None
  /\ d.uid \in Uids => Owns(d.addr, d.uid, d.moved, ow)

CodesInv == \A c \in Codes : Sound(codes[c], Leads)

Inv == TypeOK /\ AccountsInv /\ CallsInv /\ CodesInv

-----------------------------------------------------------------------------
(* What the edits of the accounts keep: login ids lead to stored users, and  *)
(* only the ids an edit is known to turn lead elsewhere afterwards.          *)

LEMMA RegisterKeeps ==
  ASSUME None \notin Uids, AccountsTyped, AccountsInv,
         NEW u \in Uids, NEW l \in Logins, NEW a, Free(l), Register(u, l, a)
  PROVE  /\ AccountsTyped' /\ AccountsInv' /\ Behind(l)' = u
         /\ \A m \in Logins : Known(m) /\ m \notin Claimed(l, a) => Behind(m)' = Behind(m)
         /\ \A v \in Uids : Stored(v) => Stored(v)'
<1>1. /\ status[u] = "unused" /\ owner[l] = None
      /\ status' = [status EXCEPT ![u] = "enabled"]
      /\ owner' = [owner EXCEPT ![l] = u]
      /\ alias' = a /\ a \in [Logins -> Uids \cup {None}]
      /\ \A m \in Logins : a[m] # alias[m] => a[m] = u
  BY DEF Register, Free, Edited, Aliases, AccountsInv, Stored
<1>2. AccountsTyped'
  BY <1>1 DEF AccountsTyped
<1>3. AccountsInv'
  BY <1>1 DEF AccountsTyped, AccountsInv, Stored
<1>4. Behind(l)' = u
  BY <1>1 DEF Behind, AccountsTyped
<1>5. \A m \in Logins : Known(m) /\ m \notin Claimed(l, a) => Behind(m)' = Behind(m)
  BY <1>1 DEF Behind, Known, Claimed, Turned, Loose, AccountsTyped
<1>6. \A v \in Uids : Stored(v) => Stored(v)'
  BY <1>1 DEF Stored, AccountsTyped
<1>7. QED BY <1>2, <1>3, <1>4, <1>5, <1>6

LEMMA RekeyKeeps ==
  ASSUME AccountsTyped, AccountsInv,
         NEW old \in Logins, NEW new \in Logins, NEW a, Rekey(old, new, a)
  PROVE  /\ AccountsTyped' /\ AccountsInv'
         /\ \A m \in Logins \ ({old, new} \cup Turned(a)) :
              Known(m) => Behind(m)' = Behind(m)
<1>1. /\ owner[old] \in Uids /\ Stored(owner[old]) /\ UNCHANGED status
      /\ owner' = [owner EXCEPT ![old] = None, ![new] = owner[old]]
      /\ alias' = a /\ a \in [Logins -> Uids \cup {None}]
      /\ \A m \in Logins : a[m] = alias[m] \/ a[m] = None \/ Stored(a[m])
  BY DEF Rekey, Free, Edited, Aliases, AccountsInv, AccountsTyped
<1>2. AccountsTyped'
  BY <1>1 DEF AccountsTyped
<1>3. AccountsInv'
  BY <1>1 DEF AccountsTyped, AccountsInv, Stored
<1>4. \A m \in Logins \ ({old, new} \cup Turned(a)) : Known(m) => Behind(m)' = Behind(m)
  BY <1>1 DEF Behind, Known, Turned, Loose, AccountsTyped
<1>5. QED BY <1>2, <1>3, <1>4

LEMMA RealiasKeeps ==
  ASSUME AccountsTyped, AccountsInv,
         NEW l \in Logins, NEW u \in Uids \cup {None}, Realias(l, u)
  PROVE  /\ AccountsTyped' /\ AccountsInv'
         /\ \A m \in Logins \ (Loose \cap {l}) : Known(m) => Behind(m)' = Behind(m)
<1>1. /\ u # None => Stored(u)
      /\ alias' = [alias EXCEPT ![l] = u] /\ UNCHANGED <<owner, status>>
  BY DEF Realias
<1>2. AccountsTyped'
  BY <1>1 DEF AccountsTyped
<1>3. AccountsInv'
  BY <1>1 DEF AccountsTyped, AccountsInv, Stored
<1>4. \A m \in Logins \ (Loose \cap {l}) : Known(m) => Behind(m)' = Behind(m)
  BY <1>1 DEF Behind, Known, Loose, AccountsTyped
<1>5. QED BY <1>2, <1>3, <1>4

LEMMA RemoveKeeps ==
  ASSUME AccountsTyped, AccountsInv,
         NEW u \in Uids, NEW ls \in SUBSET Logins, NEW a, Remove(u, ls, a)
  PROVE  /\ AccountsTyped' /\ AccountsInv'
         /\ \A m \in Logins \ (ls \cup Turned(a)) : Known(m) => Behind(m)' = Behind(m)
<1>1. /\ \A m \in Logins : owner[m] = u => m \in ls
      /\ status' = [status EXCEPT ![u] = "gone"]
      /\ owner' = [m \in Logins |-> IF m \in ls THEN None ELSE owner[m]]
      /\ alias' = a /\ a \in [Logins -> Uids \cup {None}]
      /\ \A m \in Logins : a[m] # u
      /\ \A m \in Logins : a[m] = alias[m] \/ a[m] = None \/ Stored(a[m])
  BY DEF Remove, Bereft, Aliases
<1>2. AccountsTyped'
  BY <1>1 DEF AccountsTyped
<1>3. AccountsInv'
  <2>1. ASSUME NEW m \in Logins, owner'[m] # None PROVE status'[owner'[m]] \in {"enabled", "disabled"}
    BY <1>1, <2>1 DEF AccountsTyped, AccountsInv, Stored
  <2>2. ASSUME NEW m \in Logins, alias'[m] # None PROVE status'[alias'[m]] \in {"enabled", "disabled"}
    BY <1>1, <2>2 DEF AccountsTyped, AccountsInv, Stored
  <2>3. QED BY <2>1, <2>2 DEF AccountsInv, Stored
<1>4. \A m \in Logins \ (ls \cup Turned(a)) : Known(m) => Behind(m)' = Behind(m)
  BY <1>1 DEF Behind, Known, Turned, Loose, AccountsTyped
<1>5. QED BY <1>2, <1>3, <1>4

LEMMA RemoveAllKeeps ==
  ASSUME AccountsTyped, RemoveAll
  PROVE  AccountsTyped' /\ AccountsInv'
BY DEF RemoveAll, AccountsTyped, AccountsInv

LEMMA SwitchStatusKeeps ==
  ASSUME AccountsTyped, AccountsInv,
         NEW u \in Uids, NEW s \in {"enabled", "disabled"}, SwitchStatus(u, s)
  PROVE  /\ AccountsTyped' /\ AccountsInv'
         /\ \A m \in Logins : Behind(m)' = Behind(m)
<1>1. status' = [status EXCEPT ![u] = s] /\ UNCHANGED <<owner, alias>>
  BY DEF SwitchStatus
<1>2. AccountsTyped'
  BY <1>1 DEF AccountsTyped
<1>3. AccountsInv'
  BY <1>1 DEF AccountsTyped, AccountsInv, Stored
<1>4. QED BY <1>1, <1>2, <1>3 DEF Behind

-----------------------------------------------------------------------------
(* What every step leaves true *)

\* Known addresses lead where they did, and no tenant begins to provision.
Onward ==
  /\ \A l \in Logins : Known(l) => Behind(l)' = Behind(l)
  /\ Provisioning' \subseteq Provisioning

LEMMA SameAccounts ==
  ASSUME UNCHANGED accounts
  PROVE  /\ Leads' = Leads /\ \A l \in Logins : Behind(l)' = Behind(l)
         /\ AccountsTyped' <=> AccountsTyped
         /\ AccountsInv' <=> AccountsInv
<1>1. \A l : Behind(l)' = Behind(l)
  BY DEF accounts, Behind
<1>2. Leads' = Leads
  BY <1>1 DEF Leads
<1>3. (AccountsTyped' <=> AccountsTyped) /\ (AccountsInv' <=> AccountsInv)
  BY DEF accounts, AccountsTyped, AccountsInv, Stored
<1>4. QED BY <1>1, <1>2, <1>3

\* A step that leaves the accounts and the tenants alone.
LEMMA OnwardStill ==
  ASSUME UNCHANGED <<accounts, tenants>>
  PROVE  Onward /\ Leads' = Leads /\ Provisioning' = Provisioning
BY SameAccounts DEF Onward, Provisioning

\* A call whose address is one of as is marked when they change hands.
Marked(q, as) == IF q.addr \in as THEN [q EXCEPT !.moved = TRUE] ELSE q

LEMMA OwnsKept ==
  ASSUME Onward, NEW a, NEW u \in Uids, NEW m, Owns(a, u, m, Leads)
  PROVE  Owns(a, u, m, Leads')
BY FederationAssumption DEF Onward, Owns, Leads, Known

LEMMA FindsKept ==
  ASSUME Onward, NEW q \in Call, Finds(q, Leads, Provisioning)
  PROVE  Finds(q, Leads', Provisioning')
<1>1. q.uid \in Uids /\ Owns(q.addr, q.uid, q.moved, Leads) => Owns(q.addr, q.uid, q.moved, Leads')
  BY OwnsKept
<1>2. q.session # None => q.session \in Uids
  BY DEF Call
<1>3. q.session # None => Owns(q.addr, q.session, q.moved, Leads')
  BY <1>2, OwnsKept DEF Finds
<1>4. q.pc \in Searching /\ q.op # "startTenant" =>
        q.addr \in Logins /\ Provisioning' \subseteq q.allowed
  BY DEF Finds, Onward
<1>5. QED BY <1>1, <1>3, <1>4 DEF Finds

LEMMA OwnsUnmarked ==
  ASSUME NEW as, NEW a, a \notin as, NEW u \in Uids, NEW m, Owns(a, u, m, Leads),
         \A l \in Logins \ as : Known(l) => Behind(l)' = Behind(l)
  PROVE  Owns(a, u, m, Leads')
BY FederationAssumption DEF Owns, Leads, Known

LEMMA FindsMarked ==
  ASSUME NEW as, NEW q \in Call, Finds(q, Leads, Provisioning), UNCHANGED tenants,
         \A l \in Logins \ as : Known(l) => Behind(l)' = Behind(l)
  PROVE  Marked(q, as) \in Call /\ Finds(Marked(q, as), Leads', Provisioning')
<1>1. Provisioning' = Provisioning
  BY DEF Provisioning
<1>2. CASE q.addr \in as
  <2> DEFINE n == [q EXCEPT !.moved = TRUE]
  <2>1. n \in Call
    BY DEF Call
  <2>2. /\ n.pc = q.pc /\ n.op = q.op /\ n.addr = q.addr /\ n.tenant = q.tenant
        /\ n.setting = q.setting /\ n.idp = q.idp /\ n.code = q.code /\ n.uid = q.uid
        /\ n.session = q.session /\ n.moved = TRUE /\ n.allowed = q.allowed
    BY DEF Call
  <2> HIDE DEF n
  <2>3. Finds(n, Leads', Provisioning)
    BY <2>2 DEF Finds, Owns
  <2>4. QED BY <1>1, <1>2, <2>1, <2>3 DEF Marked, n
<1>3. CASE q.addr \notin as
  <2>1. q.uid \in Uids /\ Owns(q.addr, q.uid, q.moved, Leads)
          => Owns(q.addr, q.uid, q.moved, Leads')
    BY <1>3, OwnsUnmarked
  <2>2. q.session # None => Owns(q.addr, q.session, q.moved, Leads')
    <3>1. q.session # None => q.session \in Uids
      BY DEF Call
    <3>2. QED BY <1>3, <3>1, OwnsUnmarked DEF Finds
  <2>3. Finds(q, Leads', Provisioning)
    BY <2>1, <2>2 DEF Finds
  <2>4. QED BY <1>1, <1>3, <2>3 DEF Marked
<1>4. QED BY <1>2, <1>3

LEMMA SoundKept ==
  ASSUME Onward, NEW d \in Code, Sound(d, Leads)
  PROVE  Sound(d, Leads')
BY OwnsKept DEF Sound

LEMMA SoundMarked ==
  ASSUME NEW as, NEW d \in Code, Sound(d, Leads),
         \A l \in Logins \ as : Known(l) => Behind(l)' = Behind(l)
  PROVE  Marked(d, as) \in Code /\ Sound(Marked(d, as), Leads')
<1>1. CASE d.addr \in as
  <2> DEFINE n == [d EXCEPT !.moved = TRUE]
  <2>1. n \in Code /\ n.kind = d.kind /\ n.uid = d.uid /\ n.addr = d.addr /\ n.moved = TRUE
    BY DEF Code
  <2> HIDE DEF n
  <2>2. Sound(n, Leads')
    BY <2>1 DEF Sound, Owns
  <2>3. QED BY <1>1, <2>1, <2>2 DEF Marked, n
<1>2. CASE d.addr \notin as
  <2>1. Sound(d, Leads')
    BY <1>2, OwnsUnmarked DEF Sound
  <2>2. QED BY <1>2, <2>1 DEF Marked
<1>3. QED BY <1>1, <1>2

LEMMA IdleFinds ==
  Idle \in Call /\ \A ow, on : Finds(Idle, ow, on)
BY DEF Idle, Call, Finds, Searching

\* A step of one request at most.
LEMMA CallsStep ==
  ASSUME Inv, Onward, NEW r, NEW next, next \in Call,
         Finds(next, Leads', Provisioning'), req' = [req EXCEPT ![r] = next]
  PROVE  CallsInv' /\ req' \in [Reqs -> Call]
<1>1. req \in [Reqs -> Call]
  BY DEF Inv, TypeOK
<1>2. req' \in [Reqs -> Call]
  BY <1>1
<1>3. ASSUME NEW q \in Reqs PROVE Finds(req'[q], Leads', Provisioning')
  <2>1. req'[q] = next \/ req'[q] = req[q]
    BY <1>1
  <2>2. req[q] \in Call /\ Finds(req[q], Leads, Provisioning)
    BY <1>1 DEF Inv, CallsInv
  <2>3. Finds(req[q], Leads', Provisioning')
    BY <2>2, FindsKept
  <2>4. QED BY <2>1, <2>3
<1>4. QED BY <1>2, <1>3 DEF CallsInv

\* A step that leaves the requests alone.
LEMMA CallsStill ==
  ASSUME Inv, Onward, UNCHANGED req
  PROVE  CallsInv' /\ req' \in [Reqs -> Call]
<1>1. \A q \in Reqs : Finds(req[q], Leads', Provisioning')
  BY FindsKept DEF Inv, CallsInv, TypeOK
<1>2. QED BY <1>1 DEF Inv, CallsInv, TypeOK

LEMMA CodesStill ==
  ASSUME Inv, Onward, UNCHANGED codes
  PROVE  CodesInv' /\ codes' \in [Codes -> Code]
<1>1. \A c \in Codes : Sound(codes[c], Leads')
  BY SoundKept DEF Inv, CodesInv, TypeOK
<1>2. QED BY <1>1 DEF Inv, CodesInv, TypeOK

\* The types of the variables other than req and codes.
Rest ==
  /\ AccountsTyped /\ AccountsInv
  /\ tenants \in [Tenants -> {"gone", "off", "on"}]
  /\ idps \subseteq Idps
  /\ resetPc \in {"idle", "tenants", "idps", "codes"}
  /\ calls \in Nat /\ changes \in Nat

LEMMA TypeParts ==
  TypeOK /\ AccountsInv <=> Rest /\ codes \in [Codes -> Code] /\ req \in [Reqs -> Call]
BY DEF TypeOK, Rest

LEMMA TypePartsNext ==
  TypeOK' /\ AccountsInv' <=> Rest' /\ codes' \in [Codes -> Code] /\ req' \in [Reqs -> Call]
BY DEF TypeOK, Rest

\* A step that changes one call and nothing the others know.
LEMMA OwnStep ==
  ASSUME Inv, NEW r, NEW next, next \in Call, Finds(next, Leads, Provisioning),
         req' = [req EXCEPT ![r] = next],
         UNCHANGED <<accounts, tenants, idps, codes, resetPc, changes>>, calls' \in Nat
  PROVE  Inv'
<1>1. Leads' = Leads /\ Provisioning' = Provisioning
  BY OnwardStill
<1>2. Onward
  BY OnwardStill
<1>3. Finds(next, Leads', Provisioning')
  BY <1>1
<1>4. CallsInv' /\ req' \in [Reqs -> Call]
  BY <1>2, <1>3, CallsStep
<1>5. CodesInv' /\ codes' \in [Codes -> Code]
  BY <1>2, CodesStill
<1>6. Rest'
  BY SameAccounts DEF Inv, TypeOK, Rest
<1>7. QED BY <1>4, <1>5, <1>6, TypePartsNext DEF Inv

LEMMA ReqIs ==
  ASSUME Inv, NEW r \in Reqs
  PROVE  req[r] \in Call /\ Finds(req[r], Leads, Provisioning)
BY DEF Inv, TypeOK, CallsInv

LEMMA AnswerStep ==
  ASSUME Inv, NEW r \in Reqs, Answer(r),
         UNCHANGED <<accounts, tenants, idps, codes, resetPc, calls, changes>>
  PROVE  Inv'
<1>1. calls' \in Nat
  BY DEF Inv, TypeOK
<1>2. QED BY <1>1, IdleFinds, OwnStep DEF Answer

\* A call that goes on and takes no note.
LEMMA GotoStep ==
  ASSUME Inv, NEW r \in Reqs, NEW step, Goto(r, step),
         [req[r] EXCEPT !.pc = step] \in Call,
         Finds([req[r] EXCEPT !.pc = step], Leads, Provisioning),
         UNCHANGED <<accounts, tenants, idps, codes, resetPc, calls, changes>>
  PROVE  Inv'
<1> DEFINE next == [req[r] EXCEPT !.pc = step]
<1>1. calls' \in Nat /\ next \in Call /\ Finds(next, Leads, Provisioning)
  BY DEF Inv, TypeOK
<1>2. req' = [req EXCEPT ![r] = next]
  BY DEF Goto
<1> HIDE DEF next
<1>3. QED BY <1>1, <1>2, OwnStep

-----------------------------------------------------------------------------
(* Calls *)

LEMMA ArriveStep ==
  ASSUME Inv, NEW r \in Reqs, Arrive(r)
  PROVE  Inv'
<1>1. calls' \in Nat /\ UNCHANGED <<accounts, tenants, idps, codes, resetPc, changes>>
  BY DEF Arrive, Inv, TypeOK
<1>2. Provisioning \in SUBSET Tenants
  BY DEF Provisioning
<1>3. CASE \E a \in Logins : CallStart(r, a) \/ CallAcs(r, a)
  <2>1. PICK a \in Logins, o \in {"start", "acs"}, step \in {"tenant", "lookup"} :
          req' = [req EXCEPT ![r] = [Open(o, step) EXCEPT !.addr = a]]
    BY <1>3 DEF CallStart, CallAcs
  <2> DEFINE next == [Open(o, step) EXCEPT !.addr = a]
  <2>2. next \in Call /\ Finds(next, Leads, Provisioning)
    BY <1>2 DEF Open, Idle, Call, Finds, Searching
  <2>3. req' = [req EXCEPT ![r] = next]
    BY <2>1
  <2> HIDE DEF next
  <2>4. QED BY <1>1, <2>2, <2>3, OwnStep
<1>4. CASE \E t \in Tenants : CallStartTenant(r, t)
  <2>1. PICK t \in Tenants : CallStartTenant(r, t)
    BY <1>4
  <2> DEFINE next == [Idle EXCEPT !.op = "startTenant", !.pc = "tenant", !.tenant = t]
  <2>2. next \in Call /\ Finds(next, Leads, Provisioning)
    BY DEF Idle, Call, Finds, Searching
  <2>3. req' = [req EXCEPT ![r] = next]
    BY <2>1 DEF CallStartTenant
  <2> HIDE DEF next
  <2>4. QED BY <1>1, <2>2, <2>3, OwnStep
<1>5. CASE \E a \in Logins, t \in Tenants \cup {None} :
             CallSubmit(r, a, t, "submit") \/ CallSubmit(r, a, t, "resume")
  <2>1. PICK a \in Logins, t \in Tenants \cup {None}, o \in {"submit", "resume"} :
          req' = [req EXCEPT ![r] = [Open(o, "tenant") EXCEPT !.addr = a, !.tenant = t]]
    BY <1>5 DEF CallSubmit
  <2> DEFINE next == [Open(o, "tenant") EXCEPT !.addr = a, !.tenant = t]
  <2>2. next \in Call /\ Finds(next, Leads, Provisioning)
    BY <1>2 DEF Open, Idle, Call, Finds, Searching
  <2>3. req' = [req EXCEPT ![r] = next]
    BY <2>1
  <2> HIDE DEF next
  <2>4. QED BY <1>1, <2>2, <2>3, OwnStep
<1>6. CASE \E i \in Idps, a \in Logins, o \in {"authorize", "sso"} : CallIdp(r, o, i, a)
  <2>1. PICK i \in Idps, a \in Logins, o \in {"authorize", "sso"} :
          req' = [req EXCEPT ![r] = [Open(o, "idp") EXCEPT !.idp = i, !.addr = a]]
    BY <1>6 DEF CallIdp
  <2> DEFINE next == [Open(o, "idp") EXCEPT !.idp = i, !.addr = a]
  <2>2. next \in Call /\ Finds(next, Leads, Provisioning)
    BY <1>2 DEF Open, Idle, Call, Finds, Searching
  <2>3. req' = [req EXCEPT ![r] = next]
    BY <2>1
  <2> HIDE DEF next
  <2>4. QED BY <1>1, <2>2, <2>3, OwnStep
<1>7. CASE \E c \in Codes, o \in {"token", "callback", "exchange"} : CallRedeem(r, o, c)
  <2>1. PICK c \in Codes, o \in {"token", "callback", "exchange"} : CallRedeem(r, o, c)
    BY <1>7
  <2> DEFINE next == [Idle EXCEPT !.op = o, !.pc = "redeem", !.code = c]
  <2>2. next \in Call /\ Finds(next, Leads, Provisioning)
    BY DEF Idle, Call, Finds, Searching
  <2>3. req' = [req EXCEPT ![r] = next]
    BY <2>1 DEF CallRedeem
  <2> HIDE DEF next
  <2>4. QED BY <1>1, <2>2, <2>3, OwnStep
<1>8. QED BY <1>3, <1>4, <1>5, <1>6, <1>7 DEF Arrive

-----------------------------------------------------------------------------
(* Whom a sign-in is for *)

\* The user the address leads to now.
LEMMA FoundStep ==
  ASSUME Inv, NEW r \in Reqs, req[r].addr \in Logins, Known(req[r].addr),
         Found(r, Behind(req[r].addr)),
         UNCHANGED <<accounts, tenants, idps, codes, resetPc, calls, changes>>
  PROVE  Inv'
<1> DEFINE a == req[r].addr
           step == AfterUser(req[r].op)
           next == [Idle EXCEPT !.op = req[r].op, !.uid = Behind(a), !.addr = a,
                                !.pc = step]
<1>1. CASE step = "idle"
  BY <1>1, AnswerStep DEF Found, Settled, Answer
<1>2. CASE step # "idle"
  <2>1. req[r] \in Call /\ Behind(a) \in Uids /\ Leads[a] = Behind(a)
    BY ReqIs DEF Known, Inv, TypeOK, AccountsTyped, Behind, Leads
  <2>2. step \in {"authCode", "spCode"} /\ (step = "authCode" => req[r].op # "startTenant")
    BY <1>2 DEF AfterUser
  <2>3. req' = [req EXCEPT ![r] = next]
    BY <1>2 DEF Found, Settled
  <2> HIDE DEF step
  <2>4. next \in Call
    BY <2>1, <2>2 DEF Idle, Call
  <2>5. Finds(next, Leads, Provisioning)
    BY <2>1, <2>2, FederationAssumption DEF Idle, Call, Finds, Searching, Owns
  <2>6. calls' \in Nat
    BY DEF Inv, TypeOK
  <2> HIDE DEF next
  <2>7. QED BY <2>3, <2>4, <2>5, <2>6, OwnStep
<1>3. QED BY <1>1, <1>2

LEMMA LoadIdpStep ==
  ASSUME Inv, NEW r \in Reqs, LoadIdp(r)
  PROVE  Inv'
<1> DEFINE i == req[r].idp
           step == IF req[r].op = "sso" THEN "acsUrl" ELSE "lookup"
           next == [req[r] EXCEPT !.tenant = TenantOf[i], !.idp = None, !.pc = step]
<1>1. UNCHANGED <<accounts, tenants, idps, codes, resetPc, calls, changes>> /\ calls' \in Nat
  BY DEF LoadIdp, Inv, TypeOK
<1>2. CASE Answer(r)
  BY <1>1, <1>2, AnswerStep
<1>3. CASE req' = [req EXCEPT ![r] = next]
  <2>1. req[r] \in Call /\ Finds(req[r], Leads, Provisioning) /\ req[r].pc = "idp"
    BY ReqIs DEF LoadIdp, At
  <2>2. TenantOf[i] \in Tenants /\ step \in {"acsUrl", "lookup"}
    BY <2>1, FederationAssumption DEF Finds
  <2> HIDE DEF step
  <2>3. next \in Call
    BY <2>1, <2>2 DEF Call
  <2>4. Finds(next, Leads, Provisioning)
    BY <2>1, <2>2 DEF Call, Finds, Searching
  <2> HIDE DEF next
  <2>5. QED BY <1>1, <1>3, <2>3, <2>4, OwnStep
<1>4. QED BY <1>2, <1>3 DEF LoadIdp

LEMMA LoadAcsUrlStep ==
  ASSUME Inv, NEW r \in Reqs, LoadAcsUrl(r)
  PROVE  Inv'
<1>1. UNCHANGED <<accounts, tenants, idps, codes, resetPc, calls, changes>>
  BY DEF LoadAcsUrl
<1>2. req[r] \in Call /\ Finds(req[r], Leads, Provisioning) /\ req[r].pc = "acsUrl"
  BY ReqIs DEF LoadAcsUrl, At
<1>3. [req[r] EXCEPT !.pc = "lookup"] \in Call
      /\ Finds([req[r] EXCEPT !.pc = "lookup"], Leads, Provisioning)
  BY <1>2 DEF Call, Finds, Searching
<1>4. CASE Goto(r, "lookup")
  BY <1>1, <1>3, <1>4, GotoStep
<1>5. CASE Answer(r)
  BY <1>1, <1>5, AnswerStep
<1>6. QED BY <1>4, <1>5 DEF LoadAcsUrl

LEMMA LookUpStep ==
  ASSUME Inv, NEW r \in Reqs, LookUp(r)
  PROVE  Inv'
<1>1. UNCHANGED <<accounts, tenants, idps, codes, resetPc, calls, changes>>
  BY DEF LookUp
<1>2. /\ req[r] \in Call /\ Finds(req[r], Leads, Provisioning) /\ req[r].pc = "lookup"
      /\ req[r].addr \in Logins
  BY ReqIs DEF LookUp, At, Finds, Searching
<1>3. ASSUME NEW step \in {"exists", "tenant"}
      PROVE  [req[r] EXCEPT !.pc = step] \in Call
             /\ Finds([req[r] EXCEPT !.pc = step], Leads, Provisioning)
  BY <1>2 DEF Call, Finds, Searching
<1>4. CASE Known(req[r].addr) /\ Found(r, Behind(req[r].addr))
  BY <1>1, <1>2, <1>4, FoundStep
<1>5. CASE Answer(r)
  BY <1>1, <1>5, AnswerStep
<1>6. CASE Goto(r, "exists") \/ Goto(r, "tenant")
  BY <1>1, <1>3, <1>6, GotoStep
<1>7. QED BY <1>4, <1>5, <1>6 DEF LookUp

\* A copy of a tenant that is set up says whether it provisions now.
LEMMA CopyStep ==
  ASSUME Inv, NEW r \in Reqs, req[r].pc = "tenant", req[r].op # "startTenant",
         NEW t \in Tenants, Held(t), NEW step \in {"lookup", "exists"}, Copy(r, t, step),
         UNCHANGED <<accounts, tenants, idps, codes, resetPc, calls, changes>>
  PROVE  Inv'
<1> DEFINE next == [req[r] EXCEPT !.tenant = t, !.setting = tenants[t], !.pc = step]
<1>1. calls' \in Nat
  BY DEF Inv, TypeOK
<1>2. req[r] \in Call /\ Finds(req[r], Leads, Provisioning)
  BY ReqIs
<1>3. tenants[t] \in {"off", "on"} /\ (tenants[t] = "on" => t \in Provisioning)
  BY DEF Held, Inv, TypeOK, Provisioning
<1>4. next \in Call
  BY <1>2, <1>3 DEF Call
<1>5. Finds(next, Leads, Provisioning)
  BY <1>2, <1>3 DEF Call, Finds, Searching
<1>6. req' = [req EXCEPT ![r] = next]
  BY DEF Copy
<1> HIDE DEF next
<1>7. QED BY <1>1, <1>4, <1>5, <1>6, OwnStep

LEMMA LoadTenantStep ==
  ASSUME Inv, NEW r \in Reqs, LoadTenant(r)
  PROVE  Inv'
<1> DEFINE t == req[r].tenant
           next == [req[r] EXCEPT !.uid = t, !.pc = "spCode"]
<1>1. UNCHANGED <<accounts, tenants, idps, codes, resetPc, calls, changes>> /\ calls' \in Nat
  BY DEF LoadTenant, Inv, TypeOK
<1>2. req[r] \in Call /\ Finds(req[r], Leads, Provisioning) /\ req[r].pc = "tenant"
  BY ReqIs DEF LoadTenant, At
<1>3. CASE Answer(r)
  BY <1>1, <1>3, AnswerStep
<1>4. CASE req[r].op = "startTenant" /\ t \in SsoTenants /\ req' = [req EXCEPT ![r] = next]
  <2>1. t \in Tenants /\ t # None /\ t \notin Uids
    BY <1>4, FederationAssumption
  <2>2. next \in Call
    BY <1>2, <2>1 DEF Call
  <2>3. Finds(next, Leads, Provisioning)
    BY <1>2, <1>4, <2>1 DEF Call, Finds, Searching
  <2> HIDE DEF next
  <2>4. QED BY <1>1, <1>4, <2>2, <2>3, OwnStep
<1>5. CASE /\ req[r].op # "startTenant"
           /\ \E s \in Owning(req[r].addr) :
                Copy(r, s, IF req[r].op = "start" THEN "lookup" ELSE "exists")
  <2>1. PICK s \in Owning(req[r].addr), step \in {"lookup", "exists"} : Copy(r, s, step)
    BY <1>5
  <2>2. s \in Tenants /\ Held(s)
    BY <2>1, FederationAssumption DEF Owning
  <2>3. QED BY <1>1, <1>2, <1>5, <2>1, <2>2, CopyStep
<1>6. CASE req[r].op # "startTenant" /\ t # None /\ Held(t) /\ Copy(r, t, "exists")
  <2>1. t \in Tenants
    BY <1>2, <1>6 DEF Call
  <2>2. QED BY <1>1, <1>2, <1>6, <2>1, CopyStep
<1>7. QED BY <1>3, <1>4, <1>5, <1>6 DEF LoadTenant

-----------------------------------------------------------------------------
(* provision_sso_user *)

LEMMA ExistsStep ==
  ASSUME Inv, NEW r \in Reqs, Exists(r)
  PROVE  Inv'
<1>1. UNCHANGED <<accounts, tenants, idps, codes, resetPc, calls, changes>>
  BY DEF Exists
<1>2. /\ req[r] \in Call /\ Finds(req[r], Leads, Provisioning) /\ req[r].pc = "exists"
      /\ req[r].addr \in Logins
  BY ReqIs DEF Exists, At, Finds, Searching
<1>3. CASE Known(req[r].addr) /\ Found(r, Behind(req[r].addr))
  BY <1>1, <1>2, <1>3, FoundStep
<1>4. CASE req[r].setting = "on" /\ Goto(r, "insert")
  <2>1. [req[r] EXCEPT !.pc = "insert"] \in Call
        /\ Finds([req[r] EXCEPT !.pc = "insert"], Leads, Provisioning)
    BY <1>2, <1>4 DEF Call, Finds, Searching
  <2>2. QED BY <1>1, <1>4, <2>1, GotoStep
<1>5. CASE Answer(r)
  BY <1>1, <1>5, AnswerStep
<1>6. QED BY <1>3, <1>4, <1>5 DEF Exists, Willing

\* Sign-ins for the addresses as are marked; a call may go on to a step of which
\* the invariant holds then.
LEMMA MarkedStep ==
  ASSUME Inv, NEW as, UNCHANGED tenants, Rest',
         \A l \in Logins \ as : Known(l) => Behind(l)' = Behind(l),
         req' = [r \in Reqs |-> req'[r]],
         \A r \in Reqs : \/ req'[r] = Marked(req[r], as)
                         \/ req'[r] \in Call /\ Finds(req'[r], Leads', Provisioning'),
         codes' = [c \in Codes |-> Marked(codes[c], as)]
  PROVE  Inv'
<1>1. ASSUME NEW r \in Reqs
      PROVE  req'[r] \in Call /\ Finds(req'[r], Leads', Provisioning')
  <2>1. Marked(req[r], as) \in Call /\ Finds(Marked(req[r], as), Leads', Provisioning')
    BY ReqIs, FindsMarked
  <2>2. QED BY <2>1
<1>2. ASSUME NEW c \in Codes
      PROVE  Marked(codes[c], as) \in Code /\ Sound(Marked(codes[c], as), Leads')
  BY SoundMarked DEF Inv, TypeOK, CodesInv
<1>3. CallsInv' /\ req' \in [Reqs -> Call]
  BY <1>1 DEF CallsInv
<1>4. CodesInv' /\ codes' \in [Codes -> Code]
  BY <1>2 DEF CodesInv
<1>5. QED BY <1>3, <1>4, TypePartsNext DEF Inv

LEMMA MoveStep ==
  ASSUME Inv, NEW as, Move(as), UNCHANGED tenants, Rest',
         \A l \in Logins \ as : Known(l) => Behind(l)' = Behind(l)
  PROVE  Inv'
<1>1. /\ req' = [r \in Reqs |-> Marked(req[r], as)]
      /\ codes' = [c \in Codes |-> Marked(codes[c], as)]
  BY DEF Move, Moved, MoveCodes, Marked
<1>2. QED BY <1>1, MarkedStep

LEMMA InsertStep ==
  ASSUME Inv, NEW r \in Reqs, NEW u \in Uids, Insert(r, u)
  PROVE  Inv'
<1> DEFINE next == [req[r] EXCEPT !.pc = "reload"]
<1>0. PICK l : l = req[r].addr
  OBVIOUS
<1>1. UNCHANGED <<tenants, idps, resetPc, calls, changes>>
  BY DEF Insert
<1>2. /\ req[r] \in Call /\ Finds(req[r], Leads, Provisioning) /\ req[r].pc = "insert"
      /\ l \in Logins
  BY <1>0, ReqIs DEF Insert, At, Finds, Searching
<1>3. next \in Call
  BY <1>2 DEF Call
<1>4. Finds(next, Leads, Provisioning)
  BY <1>2 DEF Call, Finds, Searching
<1>5. CASE req' = [req EXCEPT ![r] = next] /\ UNCHANGED <<accounts, codes>>
  <2>1. calls' \in Nat
    BY <1>1 DEF Inv, TypeOK
  <2> HIDE DEF next
  <2>2. QED BY <1>1, <1>3, <1>4, <1>5, <2>1, OwnStep
<1>6. ASSUME NEW a, Free(l), Register(u, l, a),
             req' = [Moved(Claimed(l, a)) EXCEPT ![r] = next], MoveCodes(Claimed(l, a))
      PROVE  Inv'
  <2>1. /\ AccountsTyped' /\ AccountsInv'
        /\ \A m \in Logins : Known(m) /\ m \notin Claimed(l, a) => Behind(m)' = Behind(m)
    <3>1. None \notin Uids /\ AccountsTyped /\ AccountsInv
      BY FederationAssumption DEF Inv, TypeOK
    <3>2. QED BY <1>2, <1>6, <3>1, RegisterKeeps
  <2>2. Rest'
    BY <1>1, <2>1 DEF Rest, Inv, TypeOK
  <2>3. Finds(next, Leads', Provisioning')
    <3>1. Provisioning' = Provisioning
      BY <1>1 DEF Provisioning
    <3>2. next.pc = "reload" /\ next.session = req[r].session /\ req[r].session = None
      BY <1>2 DEF Finds, Call
    <3> HIDE DEF next
    <3>3. QED BY <1>4, <3>1, <3>2 DEF Finds
  <2> HIDE DEF next
  <2>4. /\ \A q \in Reqs : req'[q] = IF q = r THEN next ELSE Marked(req[q], Claimed(l, a))
        /\ req' = [q \in Reqs |-> req'[q]]
        /\ codes' = [c \in Codes |-> Marked(codes[c], Claimed(l, a))]
    BY <1>6 DEF Moved, Marked, MoveCodes
  <2>5. \A m \in Logins \ Claimed(l, a) : Known(m) => Behind(m)' = Behind(m)
    BY <2>1
  <2>6. QED BY <1>1, <1>3, <2>2, <2>3, <2>4, <2>5, MarkedStep
<1>7. QED BY <1>0, <1>5, <1>6 DEF Insert, AfterInsert

LEMMA ReloadStep ==
  ASSUME Inv, NEW r \in Reqs, Reload(r)
  PROVE  Inv'
<1>1. UNCHANGED <<accounts, tenants, idps, codes, resetPc, calls, changes>>
  BY DEF Reload
<1>2. req[r].addr \in Logins
  BY ReqIs DEF Reload, At, Finds, Searching
<1>3. CASE Known(req[r].addr) /\ Found(r, Behind(req[r].addr))
  BY <1>1, <1>2, <1>3, FoundStep
<1>4. CASE Answer(r)
  BY <1>1, <1>4, AnswerStep
<1>5. QED BY <1>3, <1>4 DEF Reload

-----------------------------------------------------------------------------
(* Codes *)

LEMMA IssueCodeStep ==
  ASSUME Inv, NEW r \in Reqs, NEW c \in Codes, IssueCode(r, c)
  PROVE  Inv'
<1> DEFINE q == req[r]
           kind == IF At(r, "authCode") THEN "auth" ELSE "sp"
           d == [kind |-> kind, uid |-> q.uid, addr |-> q.addr, moved |-> q.moved]
<1>1. /\ UNCHANGED <<accounts, tenants, idps, resetPc, calls, changes>>
      /\ codes' = [codes EXCEPT ![c] = d] /\ req' = [req EXCEPT ![r] = Idle]
  BY DEF IssueCode, Answer
<1>2. q \in Call /\ Finds(q, Leads, Provisioning) /\ q.pc \in {"authCode", "spCode"}
  BY ReqIs DEF IssueCode
<1>3. kind \in {"auth", "sp"}
  OBVIOUS
<1> HIDE DEF kind
<1>4. d \in Code
  BY <1>2, <1>3 DEF Call, Code
<1>5. Sound(d, Leads)
  BY <1>2, FederationAssumption DEF Finds, Sound
<1>6. Onward /\ Leads' = Leads
  BY <1>1, OnwardStill
<1>7. CallsInv' /\ req' \in [Reqs -> Call]
  BY <1>1, <1>6, IdleFinds, CallsStep
<1> HIDE DEF d
<1>8. CodesInv' /\ codes' \in [Codes -> Code]
  BY <1>1, <1>4, <1>5, <1>6 DEF Inv, CodesInv, TypeOK
<1>9. Rest'
  BY <1>1, SameAccounts DEF Rest, Inv, TypeOK
<1>10. QED BY <1>7, <1>8, <1>9, TypePartsNext DEF Inv

LEMMA SpentSound ==
  Spent \in Code /\ \A ow : Sound(Spent, ow)
BY FederationAssumption DEF Spent, NoCode, Code, Sound

LEMMA RedeemStep ==
  ASSUME Inv, NEW r \in Reqs, Redeem(r)
  PROVE  Inv'
<1> DEFINE c == req[r].code
           step == IF req[r].op = "exchange" THEN "mint" ELSE "redeemedUser"
           next == [req[r] EXCEPT !.uid = codes[c].uid, !.code = None, !.addr = codes[c].addr,
                                  !.moved = codes[c].moved, !.pc = step]
<1>1. UNCHANGED <<accounts, tenants, idps, resetPc, calls, changes>>
  BY DEF Redeem
<1>2. CASE Answer(r) /\ UNCHANGED codes
  BY <1>1, <1>2, AnswerStep
<1>3. CASE /\ codes[c].kind \in {"auth", "sp"}
           /\ codes' = [codes EXCEPT ![c] = Spent]
           /\ \/ Answer(r)
              \/ codes[c].uid \notin Tenants /\ req' = [req EXCEPT ![r] = next]
  <2>1. /\ req[r] \in Call /\ Finds(req[r], Leads, Provisioning) /\ req[r].pc = "redeem"
        /\ c \in Codes
    BY ReqIs DEF Redeem, At, Finds
  <2>2. codes[c] \in Code /\ Sound(codes[c], Leads)
    BY <2>1 DEF Inv, TypeOK, CodesInv
  <2>3. Onward /\ Leads' = Leads /\ Provisioning' = Provisioning
    BY <1>1, OnwardStill
  <2>4. ASSUME codes[c].uid \notin Tenants, req' = [req EXCEPT ![r] = next]
        PROVE  CallsInv' /\ req' \in [Reqs -> Call]
    <3>1. codes[c].uid \in Uids /\ Owns(codes[c].addr, codes[c].uid, codes[c].moved, Leads)
      BY <1>3, <2>2, <2>4 DEF Code, Sound
    <3>2. step \in {"mint", "redeemedUser"}
      OBVIOUS
    <3> HIDE DEF step
    <3>3. next \in Call
      BY <2>1, <2>2, <3>1, <3>2 DEF Call, Code
    <3>4. Finds(next, Leads, Provisioning)
      BY <2>1, <3>1, <3>2 DEF Call, Finds, Searching
    <3>5. Finds(next, Leads', Provisioning')
      BY <2>3, <3>4
    <3> HIDE DEF next
    <3>6. QED BY <2>3, <2>4, <3>3, <3>5, CallsStep
  <2>5. ASSUME Answer(r) PROVE CallsInv' /\ req' \in [Reqs -> Call]
    BY <2>3, <2>5, IdleFinds, CallsStep DEF Answer
  <2>6. CallsInv' /\ req' \in [Reqs -> Call]
    BY <1>3, <2>4, <2>5
  <2>7. CodesInv' /\ codes' \in [Codes -> Code]
    BY <1>3, <2>3, SpentSound DEF Inv, CodesInv, TypeOK
  <2>8. Rest'
    BY <1>1, SameAccounts DEF Rest, Inv, TypeOK
  <2>9. QED BY <2>6, <2>7, <2>8, TypePartsNext DEF Inv
<1>4. QED BY <1>2, <1>3 DEF Redeem

LEMMA RedeemedUserStep ==
  ASSUME Inv, NEW r \in Reqs, RedeemedUser(r)
  PROVE  Inv'
<1>1. UNCHANGED <<accounts, tenants, idps, codes, resetPc, calls, changes>>
  BY DEF RedeemedUser
<1>2. req[r] \in Call /\ Finds(req[r], Leads, Provisioning) /\ req[r].pc = "redeemedUser"
  BY ReqIs DEF RedeemedUser, At
<1>3. CASE Goto(r, "spCode")
  <2>1. [req[r] EXCEPT !.pc = "spCode"] \in Call
        /\ Finds([req[r] EXCEPT !.pc = "spCode"], Leads, Provisioning)
    BY <1>2, FederationAssumption DEF Call, Finds, Searching
  <2>2. QED BY <1>1, <1>3, <2>1, GotoStep
<1>4. CASE Answer(r)
  BY <1>1, <1>4, AnswerStep
<1>5. QED BY <1>3, <1>4 DEF RedeemedUser

LEMMA MintStep ==
  ASSUME Inv, NEW r \in Reqs, Mint(r)
  PROVE  Inv'
<1> DEFINE next == [req[r] EXCEPT !.session = req[r].uid, !.pc = "recordLogin"]
<1>1. UNCHANGED <<accounts, tenants, idps, codes, resetPc, calls, changes>> /\ calls' \in Nat
  BY DEF Mint, Inv, TypeOK
<1>2. CASE Answer(r)
  BY <1>1, <1>2, AnswerStep
<1>3. CASE req' = [req EXCEPT ![r] = next]
  <2>1. req[r] \in Call /\ Finds(req[r], Leads, Provisioning) /\ req[r].pc = "mint"
    BY ReqIs DEF Mint, At
  <2>2. req[r].uid \in Uids /\ Owns(req[r].addr, req[r].uid, req[r].moved, Leads)
        /\ req[r].op # "startTenant"
    BY <2>1 DEF Finds
  <2>3. next \in Call
    BY <2>1, <2>2 DEF Call
  <2>4. Finds(next, Leads, Provisioning)
    BY <2>1, <2>2 DEF Call, Finds, Searching
  <2> HIDE DEF next
  <2>5. QED BY <1>1, <1>3, <2>3, <2>4, OwnStep
<1>4. QED BY <1>2, <1>3 DEF Mint, Subject

LEMMA RecordLoginStep ==
  ASSUME Inv, NEW r \in Reqs, RecordLogin(r)
  PROVE  Inv'
BY AnswerStep DEF RecordLogin

-----------------------------------------------------------------------------
(* Management and reset *)

\* A step of others that takes no address and lets no tenant begin to provision.
LEMMA OthersStep ==
  ASSUME Inv, Onward, UNCHANGED <<req, codes>>, Rest'
  PROVE  Inv'
BY CallsStill, CodesStill, TypePartsNext DEF Inv

LEMMA SetJitStep ==
  ASSUME Inv, NEW t \in Tenants, NEW s \in {"off", "on"}, SetJit(t, s)
  PROVE  Inv'
<1> DEFINE Allowing(q) == [q EXCEPT !.allowed = @ \cup {t}]
<1>1. /\ tenants' = [tenants EXCEPT ![t] = s] /\ changes' = changes + 1
      /\ req' = [r \in Reqs |-> IF s = "on" /\ ~At(r, "idle") THEN Allowing(req[r]) ELSE req[r]]
      /\ UNCHANGED <<accounts, idps, codes, resetPc, calls>>
  BY DEF SetJit, Change
<1>2. Rest' /\ Leads' = Leads
  BY <1>1, SameAccounts DEF Rest, Inv, TypeOK
<1>3. \A c \in Codes : Sound(codes'[c], Leads')
  BY <1>1, <1>2 DEF Inv, CodesInv
<1>4. CodesInv' /\ codes' \in [Codes -> Code]
  BY <1>1, <1>3 DEF Inv, CodesInv, TypeOK
<1>5. Provisioning' \subseteq (IF s = "on" THEN Provisioning \cup {t} ELSE Provisioning)
  BY <1>1 DEF Provisioning, Inv, TypeOK
<1>6. ASSUME NEW r \in Reqs
      PROVE  req'[r] \in Call /\ Finds(req'[r], Leads', Provisioning')
  <2>1. req[r] \in Call /\ Finds(req[r], Leads, Provisioning)
    BY ReqIs
  <2>2. CASE s = "on" /\ ~At(r, "idle")
    <3> DEFINE n == Allowing(req[r])
    <3>1. req'[r] = n
      BY <1>1, <2>2
    <3>2. n \in Call
      BY <2>1 DEF Call
    <3>3. Provisioning' \subseteq Provisioning \cup {t}
      BY <1>5, <2>2
    <3>4. Finds(n, Leads, Provisioning')
      BY <2>1, <3>3 DEF Call, Finds
    <3>5. QED BY <1>2, <3>1, <3>2, <3>4
  <2>3. CASE s = "off"
    <3>1. req'[r] = req[r] /\ Provisioning' \subseteq Provisioning
      BY <1>1, <1>5, <2>3
    <3>2. Finds(req[r], Leads, Provisioning')
      BY <2>1, <3>1 DEF Finds
    <3>3. QED BY <1>2, <2>1, <3>1, <3>2
  <2>4. CASE At(r, "idle")
    <3>1. req'[r] = req[r] /\ req[r].pc = "idle"
      BY <1>1, <2>4 DEF At
    <3>2. Finds(req[r], Leads, Provisioning')
      BY <2>1, <3>1 DEF Finds, Searching
    <3>3. QED BY <1>2, <2>1, <3>1, <3>2
  <2>5. QED BY <2>2, <2>3, <2>4
<1>7. CallsInv' /\ req' \in [Reqs -> Call]
  <2>1. req' = [r \in Reqs |-> req'[r]]
    BY <1>1
  <2>2. QED BY <1>6, <2>1 DEF CallsInv
<1>8. QED BY <1>2, <1>4, <1>7, TypePartsNext DEF Inv

LEMMA ManageStep ==
  ASSUME Inv, Manage
  PROVE  Inv'
<1>1. Rest
  BY TypeParts DEF Inv
<1>2. CASE \E t \in Tenants : \E s \in {"off", "on"} : SetJit(t, s)
  BY <1>2, SetJitStep
<1>3. CASE \E t \in Tenants : DeleteTenant(t)
  <2>1. PICK t \in Tenants : DeleteTenant(t)
    BY <1>3
  <2>2. /\ tenants' = [tenants EXCEPT ![t] = "gone"] /\ changes' = changes + 1
        /\ UNCHANGED <<accounts, idps, codes, req, resetPc, calls>>
    BY <2>1 DEF DeleteTenant, Change
  <2>3. Onward /\ Rest'
    BY <1>1, <2>2, SameAccounts DEF Onward, Provisioning, Rest
  <2>4. QED BY <2>2, <2>3, OthersStep
<1>4. CASE \E i \in Idps : DeleteIdp(i)
  <2>1. /\ idps' \subseteq idps /\ changes' = changes + 1
        /\ UNCHANGED <<accounts, tenants, codes, req, resetPc, calls>>
    BY <1>4 DEF DeleteIdp, Change
  <2>2. Onward /\ Rest'
    BY <1>1, <2>1, SameAccounts DEF Onward, Provisioning, Rest
  <2>3. QED BY <2>1, <2>2, OthersStep
<1>5. CASE \E u \in Uids : Disable(u)
  <2>1. PICK u \in Uids : Disable(u)
    BY <1>5
  <2>2. /\ SwitchStatus(u, "disabled") /\ changes' = changes + 1
        /\ UNCHANGED <<tenants, idps, codes, req, resetPc, calls>>
    BY <2>1 DEF Disable, Change
  <2>3. AccountsTyped' /\ AccountsInv' /\ \A l \in Logins : Behind(l)' = Behind(l)
    BY <1>1, <2>2, SwitchStatusKeeps DEF Rest
  <2>4. Onward /\ Rest'
    BY <1>1, <2>2, <2>3 DEF Onward, Provisioning, Rest
  <2>5. QED BY <2>2, <2>4, OthersStep
<1>6. CASE \E u \in Uids, l \in Logins, a \in Aliases : Join(u, l, a)
  <2>1. PICK u \in Uids, l \in Logins, a \in Aliases : Join(u, l, a)
    BY <1>6
  <2>2. /\ Free(l) /\ Register(u, l, a) /\ changes' = changes + 1
        /\ Move(Claimed(l, a)) /\ UNCHANGED <<tenants, idps, resetPc, calls>>
    BY <2>1 DEF Join, Change
  <2>3. /\ AccountsTyped' /\ AccountsInv'
        /\ \A m \in Logins : Known(m) /\ m \notin Claimed(l, a) => Behind(m)' = Behind(m)
    BY <1>1, <2>2, RegisterKeeps, FederationAssumption DEF Rest
  <2>4. Rest' /\ \A m \in Logins \ Claimed(l, a) : Known(m) => Behind(m)' = Behind(m)
    BY <1>1, <2>2, <2>3 DEF Rest
  <2>5. QED BY <2>2, <2>4, MoveStep
<1>7. CASE \E l, m \in Logins, a \in Aliases : Rename(l, m, a)
  <2>1. PICK l \in Logins, m \in Logins, a \in Aliases : Rename(l, m, a)
    BY <1>7
  <2>2. /\ Rekey(l, m, a) /\ changes' = changes + 1
        /\ Move({l, m} \cup Turned(a)) /\ UNCHANGED <<tenants, idps, resetPc, calls>>
    BY <2>1 DEF Rename, Change
  <2>3. /\ AccountsTyped' /\ AccountsInv'
        /\ \A x \in Logins \ ({l, m} \cup Turned(a)) : Known(x) => Behind(x)' = Behind(x)
    BY <1>1, <2>2, RekeyKeeps DEF Rest
  <2>4. Rest'
    BY <1>1, <2>2, <2>3 DEF Rest
  <2>5. QED BY <2>2, <2>3, <2>4, MoveStep
<1>14. CASE \E l \in Logins, u \in Uids \cup {None} : Describe(l, u)
  <2>1. PICK l \in Logins, u \in Uids \cup {None} : Describe(l, u)
    BY <1>14
  <2>2. /\ Realias(l, u) /\ changes' = changes + 1
        /\ Move(Loose \cap {l}) /\ UNCHANGED <<tenants, idps, resetPc, calls>>
    BY <2>1 DEF Describe, Change
  <2>3. /\ AccountsTyped' /\ AccountsInv'
        /\ \A x \in Logins \ (Loose \cap {l}) : Known(x) => Behind(x)' = Behind(x)
    BY <1>1, <2>2, RealiasKeeps DEF Rest
  <2>4. Rest'
    BY <1>1, <2>2, <2>3 DEF Rest
  <2>5. QED BY <2>2, <2>3, <2>4, MoveStep
<1>8. CASE \E u \in Uids, ls \in SUBSET Logins, a \in Aliases : Delete(u, ls, a)
  <2>1. PICK u \in Uids, ls \in SUBSET Logins, a \in Aliases : Delete(u, ls, a)
    BY <1>8
  <2>2. /\ Remove(u, ls, a) /\ changes' = changes + 1
        /\ Move(ls \cup Turned(a)) /\ UNCHANGED <<tenants, idps, resetPc, calls>>
    BY <2>1 DEF Delete, Change
  <2>3. /\ AccountsTyped' /\ AccountsInv'
        /\ \A x \in Logins \ (ls \cup Turned(a)) : Known(x) => Behind(x)' = Behind(x)
    BY <1>1, <2>2, RemoveKeeps DEF Rest
  <2>4. Rest'
    BY <1>1, <2>2, <2>3 DEF Rest
  <2>5. QED BY <2>2, <2>3, <2>4, MoveStep
<1>9. CASE ResetUsers
  <2>1. /\ RemoveAll /\ changes' = changes + 1 /\ resetPc' = "tenants"
        /\ Move(Logins) /\ UNCHANGED <<tenants, idps, calls>>
    BY <1>9 DEF ResetUsers, Change
  <2>2. Rest'
    BY <1>1, <2>1, RemoveAllKeeps DEF Rest
  <2>3. QED BY <2>1, <2>2, MoveStep
<1>10. CASE ResetTenants
  <2>1. /\ tenants' = [t \in Tenants |-> "gone"] /\ resetPc' = "idps"
        /\ UNCHANGED <<accounts, idps, codes, req, calls, changes>>
    BY <1>10 DEF ResetTenants
  <2>2. Onward /\ Rest'
    BY <1>1, <2>1, SameAccounts DEF Onward, Provisioning, Rest
  <2>3. QED BY <2>1, <2>2, OthersStep
<1>11. CASE ResetIdps
  <2>1. /\ idps' = {} /\ resetPc' = "codes"
        /\ UNCHANGED <<accounts, tenants, codes, req, calls, changes>>
    BY <1>11 DEF ResetIdps
  <2>2. Onward /\ Rest'
    BY <1>1, <2>1, SameAccounts DEF Onward, Provisioning, Rest
  <2>3. QED BY <2>1, <2>2, OthersStep
<1>12. CASE ResetCodes
  <2>1. /\ codes' = [c \in Codes |-> IF codes[c].kind = "auth" THEN Spent ELSE codes[c]]
        /\ resetPc' = "idle" /\ UNCHANGED <<accounts, tenants, idps, req, calls, changes>>
    BY <1>12 DEF ResetCodes
  <2>2. Onward /\ Rest' /\ Leads' = Leads
    BY <1>1, <2>1, SameAccounts DEF Onward, Provisioning, Rest
  <2>3. CallsInv' /\ req' \in [Reqs -> Call]
    BY <2>1, <2>2, CallsStill
  <2>4. CodesInv' /\ codes' \in [Codes -> Code]
    BY <2>1, <2>2, SpentSound DEF CodesInv, Inv, TypeOK
  <2>5. QED BY <2>2, <2>3, <2>4, TypePartsNext DEF Inv
<1>13. QED
  BY <1>2, <1>3, <1>4, <1>5, <1>6, <1>7, <1>8, <1>9, <1>10, <1>11, <1>12, <1>14, Zenon DEF Manage

-----------------------------------------------------------------------------

LEMMA InitInv ==
  ASSUME Init
  PROVE  Inv
<1>1. NoCode \in Code /\ Sound(NoCode, Leads)
  BY FederationAssumption DEF NoCode, Code, Sound
<1>2. TypeOK /\ AccountsInv
  BY <1>1, IdleFinds DEF Init, TypeOK, AccountsTyped, AccountsInv
<1>3. CallsInv /\ CodesInv
  BY <1>1, IdleFinds DEF Init, CallsInv, CodesInv
<1>4. QED BY <1>2, <1>3 DEF Inv

LEMMA NextInv ==
  ASSUME Inv, [Next]_vars
  PROVE  Inv'
<1>1. CASE \E r \in Reqs : Arrive(r)
  BY <1>1, ArriveStep
<1>2. CASE \E r \in Reqs : Serve(r)
  <2>1. PICK r \in Reqs : Serve(r)
    BY <1>2
  <2>2. QED
    BY <2>1, LoadIdpStep, LoadAcsUrlStep, LookUpStep, LoadTenantStep, ExistsStep, InsertStep,
       ReloadStep, IssueCodeStep, RedeemStep, RedeemedUserStep, MintStep, RecordLoginStep,
       Zenon DEF Serve
<1>3. CASE Manage
  BY <1>3, ManageStep
<1>4. CASE UNCHANGED vars
  <2>1. UNCHANGED <<accounts, tenants, idps, codes, req, resetPc, calls, changes>>
    BY <1>4 DEF vars
  <2>2. Onward /\ Rest'
    BY <2>1, SameAccounts DEF Onward, Provisioning, Rest, Inv, TypeOK
  <2>3. QED BY <2>1, <2>2, OthersStep
<1>5. QED BY <1>1, <1>2, <1>3, <1>4 DEF Next

LEMMA InvHolds == Spec => []Inv
<1>1. Init => Inv
  BY InitInv
<1>2. Inv /\ [Next]_vars => Inv'
  BY NextInv
<1>3. QED BY <1>1, <1>2, PTL DEF Spec

\* Every variable keeps its shape.
THEOREM TypeCorrect == Spec => []TypeOK
<1>1. Inv => TypeOK
  BY DEF Inv
<1>2. Spec => []Inv
  BY InvHolds
<1>3. QED BY <1>1, <1>2, PTL

\* saml/start, the screen, the ACS and the providers may provision one address at
\* once, and a code may be redeemed long after it was issued: every code and every
\* session is for the user its address leads to, unless management, a reset or a
\* sign-up made the address lead elsewhere.
THEOREM SignsInAddressOwnerHolds == Spec => []SignsInAddressOwner
<1>1. Inv => SignsInAddressOwner
  <2>1. SUFFICES ASSUME Inv PROVE SignsInAddressOwner
    OBVIOUS
  <2>2. \A c \in Codes : codes[c].uid \in Uids /\ ~codes[c].moved
                           => Behind(codes[c].addr) = codes[c].uid
    BY <2>1 DEF Inv, CodesInv, Sound, Owns, Leads
  <2>3. \A r \in Reqs : req[r].session # None /\ ~req[r].moved
                          => Behind(req[r].addr) = req[r].session
    BY <2>1 DEF Inv, CallsInv, Finds, Owns, Leads
  <2>4. QED BY <2>2, <2>3 DEF SignsInAddressOwner
<1>2. Spec => []Inv
  BY InvHolds
<1>3. QED BY <1>1, <1>2, PTL

\* provision_sso_user inserts a user only in a tenant that provisioned at some
\* time since the call began, whichever copy of the tenant the handler works on.
THEOREM ProvisionsOnlyWhileOnHolds == Spec => []ProvisionsOnlyWhileOn
<1>1. Inv => ProvisionsOnlyWhileOn
  BY DEF Inv, CallsInv, Finds, ProvisionsOnlyWhileOn, At
<1>2. Spec => []Inv
  BY InvHolds
<1>3. QED BY <1>1, <1>2, PTL
=============================================================================
