-------------------------- MODULE OtpSignInProofs --------------------------
(***************************************************************************)
(* For any users, login ids, codes and concurrent requests: racing         *)
(* sign-ups agree on one account, a code opens one session, and the        *)
(* session is that of the user the code was made for.                      *)
(***************************************************************************)
EXTENDS OtpSignIn, TLAPS

\* A request that has settled on a user.
Settled(r) == pc[r] \in {"store", "consume", "patch", "reload", "mint"}
              \/ pc[r] = "ok"

\* A login id leads to a stored user.
AccountsInv ==
  \A l \in Logins : /\ owner[l] # None => Stored(owner[l])
                    /\ alias[l] # None => Stored(alias[l])

\* A request under way serves a login id, and the user it settled on is behind
\* it unless the login id was made to lead elsewhere.
WhoInv ==
  \A r \in Reqs :
    /\ pc[r] # "idle" => login[r] \in Logins
    /\ Settled(r) => who[r] \in Uids
    /\ Settled(r) /\ r \notin moved => Behind(login[r]) = who[r]

\* Only a verification consumes a code, and then minds whose it was.
SpentInv ==
  \A r \in Reqs :
    /\ pc[r] \in {"idle", "load", "insert", "stage", "store", "consume"}
         => spent[r] = None
    /\ spent[r] # None => pc[spent[r]] = "ok" /\ who[spent[r]] = who[r]
    /\ pc[r] \in {"patch", "reload", "mint"} => spent[r] # None

\* A pending code was stored for its user by a request that has answered, and
\* nobody has consumed it.
PendingInv ==
  \A u \in Uids : pending[u] # None =>
    /\ source[u] # None
    /\ pc[source[u]] = "ok" /\ who[source[u]] = u
    /\ \A r \in Reqs : spent[r] # source[u]

\* A verification presents a code.
CodeInv ==
  \A r \in Reqs :
    /\ pc[r] # "idle" /\ op[r] \in Verifiers => code[r] # None
    /\ pc[r] = "consume" => op[r] \in Verifiers

\* While a request mints, its user is stored.
MintInv ==
  \A r \in Reqs : pc[r] = "mint" =>
    /\ subject[r] # None /\ Stored(subject[r])
    /\ r \notin moved => subject[r] = who[r]

Inv == /\ TypeOK /\ AccountsInv /\ WhoInv /\ SpentInv /\ PendingInv
       /\ CodeInv /\ MintInv /\ CodeSignsInOnce

-----------------------------------------------------------------------------
(* What the edits of the accounts keep: login ids lead to stored users, and  *)
(* only the ids an edit is known to turn lead elsewhere afterwards.          *)

LEMMA RegisterKeeps ==
  ASSUME None \notin Uids, AccountsTyped, AccountsInv,
         NEW u \in Uids, NEW l \in Logins, NEW a, Free(l), Register(u, l, a)
  PROVE  /\ AccountsTyped' /\ AccountsInv' /\ Behind(l)' = u
         /\ \A m \in Logins : Known(m) /\ m \notin Claimed(l, a) => Behind(m)' = Behind(m)
         /\ \A v \in Uids : Stored(v) => Stored(v)'
<1>1. /\ status[u] = "unused" /\ owner[l] = None
      /\ status' = [status EXCEPT ![u] = "enabled"]
      /\ owner' = [owner EXCEPT ![l] = u]
      /\ alias' = a /\ a \in [Logins -> Uids \cup {None}]
      /\ \A m \in Logins : a[m] # alias[m] => a[m] = u
  BY DEF Register, Free, Edited, Aliases, AccountsInv, Stored
<1>2. AccountsTyped'
  BY <1>1 DEF AccountsTyped
<1>3. AccountsInv'
  BY <1>1 DEF AccountsTyped, AccountsInv, Stored
<1>4. Behind(l)' = u
  BY <1>1 DEF Behind, AccountsTyped
<1>5. \A m \in Logins : Known(m) /\ m \notin Claimed(l, a) => Behind(m)' = Behind(m)
  BY <1>1 DEF Behind, Known, Claimed, Turned, Loose, AccountsTyped
<1>6. \A v \in Uids : Stored(v) => Stored(v)'
  BY <1>1 DEF Stored, AccountsTyped
<1>7. QED BY <1>2, <1>3, <1>4, <1>5, <1>6

LEMMA RekeyKeeps ==
  ASSUME AccountsTyped, AccountsInv,
         NEW old \in Logins, NEW new \in Logins, NEW a, Rekey(old, new, a)
  PROVE  /\ AccountsTyped' /\ AccountsInv'
         /\ \A m \in Logins \ ({old, new} \cup Turned(a)) :
              Known(m) => Behind(m)' = Behind(m)
<1>1. /\ owner[old] \in Uids /\ Stored(owner[old]) /\ UNCHANGED status
      /\ owner' = [owner EXCEPT ![old] = None, ![new] = owner[old]]
      /\ alias' = a /\ a \in [Logins -> Uids \cup {None}]
      /\ \A m \in Logins : a[m] = alias[m] \/ a[m] = None \/ Stored(a[m])
  BY DEF Rekey, Free, Edited, Aliases, AccountsInv, AccountsTyped
<1>2. AccountsTyped'
  BY <1>1 DEF AccountsTyped
<1>3. AccountsInv'
  BY <1>1 DEF AccountsTyped, AccountsInv, Stored
<1>4. \A m \in Logins \ ({old, new} \cup Turned(a)) : Known(m) => Behind(m)' = Behind(m)
  BY <1>1 DEF Behind, Known, Turned, Loose, AccountsTyped
<1>5. QED BY <1>2, <1>3, <1>4

\* A change of u's email or phone by itself.
LEMMA EditKeeps ==
  ASSUME AccountsTyped, AccountsInv, UNCHANGED <<owner, status>>,
         NEW u \in Uids, Stored(u), NEW a \in Edited(u), alias' = a
  PROVE  /\ AccountsTyped' /\ AccountsInv'
         /\ \A m \in Logins \ Turned(a) : Known(m) => Behind(m)' = Behind(m)
<1>1. /\ a \in [Logins -> Uids \cup {None}]
      /\ \A m \in Logins : a[m] = alias[m] \/ a[m] = None \/ Stored(a[m])
  BY DEF Edited, Aliases
<1>2. AccountsTyped'
  BY <1>1 DEF AccountsTyped
<1>3. AccountsInv'
  BY <1>1 DEF AccountsInv, Stored
<1>4. \A m \in Logins \ Turned(a) : Known(m) => Behind(m)' = Behind(m)
  BY <1>1 DEF Behind, Known, Turned, Loose
<1>5. QED BY <1>2, <1>3, <1>4

LEMMA RealiasKeeps ==
  ASSUME AccountsTyped, AccountsInv,
         NEW l \in Logins, NEW u \in Uids \cup {None}, Realias(l, u)
  PROVE  /\ AccountsTyped' /\ AccountsInv'
         /\ \A m \in Logins \ (Loose \cap {l}) : Known(m) => Behind(m)' = Behind(m)
<1>1. /\ u # None => Stored(u)
      /\ alias' = [alias EXCEPT ![l] = u] /\ UNCHANGED <<owner, status>>
  BY DEF Realias
<1>2. AccountsTyped'
  BY <1>1 DEF AccountsTyped
<1>3. AccountsInv'
  BY <1>1 DEF AccountsTyped, AccountsInv, Stored
<1>4. \A m \in Logins \ (Loose \cap {l}) : Known(m) => Behind(m)' = Behind(m)
  BY <1>1 DEF Behind, Known, Loose, AccountsTyped
<1>5. QED BY <1>2, <1>3, <1>4

LEMMA RemoveKeeps ==
  ASSUME AccountsTyped, AccountsInv,
         NEW u \in Uids, NEW ls \in SUBSET Logins, NEW a, Remove(u, ls, a)
  PROVE  /\ AccountsTyped' /\ AccountsInv'
         /\ \A m \in Logins \ (ls \cup Turned(a)) : Known(m) => Behind(m)' = Behind(m)
<1>1. /\ \A m \in Logins : owner[m] = u => m \in ls
      /\ status' = [status EXCEPT ![u] = "gone"]
      /\ owner' = [m \in Logins |-> IF m \in ls THEN None ELSE owner[m]]
      /\ alias' = a /\ a \in [Logins -> Uids \cup {None}]
      /\ \A m \in Logins : a[m] # u
      /\ \A m \in Logins : a[m] = alias[m] \/ a[m] = None \/ Stored(a[m])
  BY DEF Remove, Bereft, Aliases
<1>2. AccountsTyped'
  BY <1>1 DEF AccountsTyped
<1>3. AccountsInv'
  <2>1. ASSUME NEW m \in Logins, owner'[m] # None PROVE status'[owner'[m]] \in {"enabled", "disabled"}
    BY <1>1, <2>1 DEF AccountsTyped, AccountsInv, Stored
  <2>2. ASSUME NEW m \in Logins, alias'[m] # None PROVE status'[alias'[m]] \in {"enabled", "disabled"}
    BY <1>1, <2>2 DEF AccountsTyped, AccountsInv, Stored
  <2>3. QED BY <2>1, <2>2 DEF AccountsInv, Stored
<1>4. \A m \in Logins \ (ls \cup Turned(a)) : Known(m) => Behind(m)' = Behind(m)
  BY <1>1 DEF Behind, Known, Turned, Loose, AccountsTyped
<1>5. QED BY <1>2, <1>3, <1>4

LEMMA RemoveAllKeeps ==
  ASSUME AccountsTyped, RemoveAll
  PROVE  AccountsTyped' /\ AccountsInv'
BY DEF RemoveAll, AccountsTyped, AccountsInv

LEMMA SwitchStatusKeeps ==
  ASSUME AccountsTyped, AccountsInv,
         NEW u \in Uids, NEW s \in {"enabled", "disabled"}, SwitchStatus(u, s)
  PROVE  /\ AccountsTyped' /\ AccountsInv'
         /\ \A m \in Logins : Behind(m)' = Behind(m)
<1>1. status' = [status EXCEPT ![u] = s] /\ UNCHANGED <<owner, alias>>
  BY DEF SwitchStatus
<1>2. AccountsTyped'
  BY <1>1 DEF AccountsTyped
<1>3. AccountsInv'
  BY <1>1 DEF AccountsTyped, AccountsInv, Stored
<1>4. QED BY <1>1, <1>2, <1>3 DEF Behind

-----------------------------------------------------------------------------
LEMMA InvInit == Init => Inv
<1> SUFFICES ASSUME Init PROVE Inv
  OBVIOUS
<1>1. TypeOK
  BY DEF Init, TypeOK, AccountsTyped, Steps, Ops, Issuers
<1>2. AccountsInv /\ WhoInv /\ SpentInv /\ PendingInv /\ CodeInv /\ MintInv /\ CodeSignsInOnce
  BY DEF Init, AccountsInv, WhoInv, SpentInv, PendingInv, CodeInv, MintInv, Settled,
         CodeSignsInOnce
<1>3. QED BY <1>1, <1>2 DEF Inv

LEMMA StartStep ==
  ASSUME Inv, NEW r \in Reqs, NEW o \in Ops, NEW l \in Logins,
         NEW c \in Codes \cup {None}, Start(r, o, l, c)
  PROVE  Inv'
<1> USE OtpSignInAssumption DEF Inv
<1>1. PICK s \in {"insert", "stage", "load", "refused"} :
        pc[r] = "idle" /\ pc' = [pc EXCEPT ![r] = s]
  BY DEF Start, Goto, FirstStep
<1>2. TypeOK'
  BY <1>1 DEF Start, TypeOK, AccountsTyped, Steps, users, accounts, otps, bounds
<1>3. AccountsInv' /\ MintInv'
  BY <1>1 DEF Start, AccountsInv, MintInv, Stored, TypeOK, AccountsTyped, users, accounts
<1>4. WhoInv'
  BY <1>1 DEF Start, WhoInv, Behind, Settled, TypeOK, AccountsTyped, users, accounts
<1>5. SpentInv' /\ CodeSignsInOnce'
  BY <1>1 DEF Start, SpentInv, CodeSignsInOnce, TypeOK, AccountsTyped
<1>6. PendingInv'
  BY <1>1 DEF Start, PendingInv, TypeOK, AccountsTyped, otps
<1>7. CodeInv'
  BY <1>1 DEF Start, CodeInv, TypeOK, AccountsTyped, Issuers, Verifiers
<1>8. QED BY <1>2, <1>3, <1>4, <1>5, <1>6, <1>7

LEMMA LoadStep ==
  ASSUME Inv, NEW r \in Reqs, Load(r)
  PROVE  Inv'
<1> USE OtpSignInAssumption DEF Inv
<1>1. PICK s \in {"insert", "refused", "store", "consume"} :
        /\ pc[r] = "load" /\ pc' = [pc EXCEPT ![r] = s]
        /\ s \in {"store", "consume"} => Known(login[r])
        /\ s = "consume" => op[r] \in Verifiers
  BY DEF Load, Goto, TypeOK, AccountsTyped, Ops
<1>2. /\ who' = [who EXCEPT ![r] = Behind(login[r])]
      /\ UNCHANGED <<users, otps, bounds, op, login, code, subject, spent, moved>>
  BY DEF Load, Found
<1>3. login[r] \in Logins
  BY <1>1 DEF WhoInv, Behind
<1>4. TypeOK'
  BY <1>1, <1>2, <1>3 DEF TypeOK, AccountsTyped, Behind, Steps, users, accounts, otps, bounds
<1>5. AccountsInv' /\ MintInv'
  BY <1>1, <1>2 DEF AccountsInv, MintInv, Stored, TypeOK, AccountsTyped, users, accounts
<1>6. WhoInv'
  BY <1>1, <1>2, <1>3 DEF WhoInv, Behind, Settled, TypeOK, AccountsTyped, users, accounts, Known
<1>7. SpentInv' /\ CodeSignsInOnce'
  BY <1>1, <1>2 DEF SpentInv, CodeSignsInOnce, TypeOK, AccountsTyped
<1>8. PendingInv' /\ CodeInv'
  BY <1>1, <1>2 DEF PendingInv, CodeInv, TypeOK, AccountsTyped, otps
<1>9. QED BY <1>4, <1>5, <1>6, <1>7, <1>8

LEMMA InsertStep ==
  ASSUME Inv, NEW r \in Reqs, NEW u \in Uids, NEW a \in Aliases, Insert(r, u, a)
  PROVE  Inv'
<1> USE OtpSignInAssumption DEF Inv
<1>1. pc[r] = "insert" /\ login[r] \in Logins /\ Minting = {}
  BY DEF Insert, WhoInv, UsersWritable
<1>2. UNCHANGED <<phoneOk, staged, otps, bounds, op, login, code, subject, spent>>
  BY DEF Insert
<1>3. CASE Free(login[r])
  <2>1. /\ Register(u, login[r], a)
        /\ moved' = moved \cup (Concerned(Claimed(login[r], a)) \ {r})
        /\ who' = [who EXCEPT ![r] = u]
        /\ pc' = [pc EXCEPT ![r] = "store"]
    BY <1>3 DEF Insert, Goto
  <2>2. /\ AccountsTyped' /\ AccountsInv' /\ Behind(login[r])' = u
        /\ \A m \in Logins : Known(m) /\ m \notin Claimed(login[r], a)
                                => Behind(m)' = Behind(m)
    BY <1>1, <1>2, <1>3, <2>1, RegisterKeeps DEF TypeOK
  <2>3. moved \subseteq moved' /\ moved' \subseteq Reqs
    BY <2>1 DEF TypeOK, Concerned
  <2>4. TypeOK'
    BY <1>1, <1>2, <2>1, <2>2, <2>3 DEF TypeOK, Steps, otps, bounds
  <2>5. MintInv'
    BY <1>1, <1>2, <2>1 DEF MintInv, TypeOK, Minting
  <2>6. WhoInv'
    <3>1. \A q \in Reqs : pc'[q] # "idle" => login'[q] \in Logins
      BY <1>1, <1>2, <2>1 DEF WhoInv, TypeOK
    <3>2. \A q \in Reqs : Settled(q)' => who'[q] \in Uids
      BY <1>1, <1>2, <2>1 DEF WhoInv, Settled, TypeOK
    <3>3. ASSUME NEW q \in Reqs, Settled(q)', q \notin moved'
          PROVE  Behind(login[q])' = who'[q]
      <4>1. CASE q = r
        BY <1>2, <2>1, <2>2, <4>1 DEF TypeOK
      <4>2. CASE q # r
        <5>1. /\ Settled(q) /\ q \notin moved /\ who'[q] = who[q] /\ pc[q] # "idle"
              /\ login'[q] = login[q]
          BY <1>2, <2>1, <2>3, <3>3, <4>2 DEF Settled, TypeOK
        <5>2. login[q] \in Logins /\ Known(login[q]) /\ Behind(login[q]) = who[q]
          BY <5>1 DEF WhoInv, Known
        <5>3. login[q] \notin Claimed(login[r], a)
          BY <2>1, <3>3, <4>2, <5>1 DEF Concerned
        <5>4. QED BY <2>2, <5>1, <5>2, <5>3
      <4>3. QED BY <4>1, <4>2
    <3>4. QED BY <1>2, <3>1, <3>2, <3>3 DEF WhoInv
  <2>7. SpentInv' /\ CodeSignsInOnce'
    BY <1>1, <1>2, <2>1 DEF SpentInv, CodeSignsInOnce, TypeOK
  <2>8. PendingInv' /\ CodeInv'
    BY <1>1, <1>2, <2>1 DEF PendingInv, CodeInv, TypeOK, otps
  <2>9. QED BY <2>2, <2>4, <2>5, <2>6, <2>7, <2>8
<1>4. CASE ~Free(login[r])
  <2>1. pc' = [pc EXCEPT ![r] = "refused"] /\ UNCHANGED <<accounts, who, moved>>
    BY <1>4 DEF Insert, Goto
  <2>2. TypeOK'
    BY <1>1, <1>2, <2>1 DEF TypeOK, AccountsTyped, accounts, Steps, otps, bounds
  <2>3. AccountsInv' /\ MintInv' /\ WhoInv'
    BY <1>1, <1>2, <2>1 DEF AccountsInv, MintInv, Stored, TypeOK, WhoInv, Settled,
                            Behind, accounts
  <2>4. SpentInv' /\ CodeSignsInOnce'
    BY <1>1, <1>2, <2>1 DEF SpentInv, CodeSignsInOnce, TypeOK
  <2>5. PendingInv' /\ CodeInv'
    BY <1>1, <1>2, <2>1 DEF PendingInv, CodeInv, TypeOK, otps
  <2>6. QED BY <2>2, <2>3, <2>4, <2>5
<1>5. QED BY <1>3, <1>4

LEMMA StageStep ==
  ASSUME Inv, NEW r \in Reqs, NEW a \in Aliases, Stage(r, a)
  PROVE  Inv'
<1> USE OtpSignInAssumption DEF Inv
<1>1. PICK s \in {"store", "refused"} :
        /\ pc[r] = "stage" /\ pc' = [pc EXCEPT ![r] = s]
        /\ s = "store" => Known(login[r])
  BY DEF Stage, Goto
<1>2. /\ who' = [who EXCEPT ![r] = Behind(login[r])] /\ Minting = {}
      /\ UNCHANGED <<owner, status, otps, bounds, op, login, code, subject, spent>>
  BY DEF Stage, Found, UsersWritable
<1>3. login[r] \in Logins
  BY <1>1 DEF WhoInv
<1>4. Behind(login[r]) \in Uids \cup {None}
      /\ (Known(login[r]) => Behind(login[r]) \in Uids /\ Stored(Behind(login[r])))
  BY <1>3 DEF TypeOK, AccountsTyped, AccountsInv, Behind, Known
<1>5. phoneOk' \in [Uids -> BOOLEAN] /\ staged' \in [Uids -> Reqs \cup {None}]
  <2>1. CASE Known(login[r])
    <3>1. /\ phoneOk' = [phoneOk EXCEPT ![Behind(login[r])] = FALSE]
          /\ staged' = [staged EXCEPT ![Behind(login[r])] = r]
      BY <2>1 DEF Stage, Found
    <3>2. QED BY <3>1 DEF TypeOK
  <2>2. CASE ~Known(login[r])
    BY <2>2 DEF Stage, TypeOK
  <2>3. QED BY <2>1, <2>2
<1>6. /\ AccountsTyped' /\ AccountsInv' /\ moved \subseteq moved' /\ moved' \subseteq Reqs
      /\ \A q \in Reqs : pc[q] # "idle" /\ q \notin moved' /\ Known(login[q])
                           => Behind(login[q])' = Behind(login[q])
  <2>1. CASE Known(login[r])
    <3>1. /\ a \in Edited(Behind(login[r])) /\ alias' = a
          /\ moved' = moved \cup Concerned(Turned(a))
      BY <2>1 DEF Stage, Found
    <3>2. /\ AccountsTyped' /\ AccountsInv'
          /\ \A m \in Logins \ Turned(a) : Known(m) => Behind(m)' = Behind(m)
      BY <1>2, <1>4, <2>1, <3>1, EditKeeps DEF TypeOK
    <3>3. UNCHANGED login
      BY <1>2
    <3>4. QED BY <3>1, <3>2, <3>3 DEF TypeOK, Concerned, WhoInv
  <2>2. CASE ~Known(login[r])
    <3>1. UNCHANGED <<owner, status, alias, moved, login>>
      BY <1>2, <2>2 DEF Stage
    <3>2. QED BY <3>1 DEF TypeOK, AccountsTyped, AccountsInv, Stored, Behind
  <2>3. QED BY <2>1, <2>2
<1>7. TypeOK'
  BY <1>1, <1>2, <1>3, <1>4, <1>5, <1>6 DEF TypeOK, Steps, otps, bounds
<1>8. MintInv'
  BY <1>1, <1>2 DEF MintInv, Minting, TypeOK
<1>9. WhoInv'
  <2>1. \A q \in Reqs : pc'[q] # "idle" => login'[q] \in Logins
    BY <1>1, <1>2, <1>3 DEF WhoInv, TypeOK
  <2>2. \A q \in Reqs : Settled(q)' => who'[q] \in Uids
    BY <1>1, <1>2, <1>4 DEF WhoInv, Settled, TypeOK
  <2>3. ASSUME NEW q \in Reqs, Settled(q)', q \notin moved'
        PROVE  Behind(login[q])' = who'[q]
    <3>1. CASE q = r
      BY <1>1, <1>2, <1>6, <2>3, <3>1 DEF TypeOK, Settled
    <3>2. CASE q # r
      <4>1. Settled(q) /\ q \notin moved /\ who'[q] = who[q] /\ pc[q] # "idle"
        BY <1>1, <1>2, <1>6, <2>3, <3>2 DEF Settled, TypeOK
      <4>2. Known(login[q]) /\ Behind(login[q]) = who[q]
        BY <4>1 DEF WhoInv, Known
      <4>3. QED BY <1>6, <2>3, <4>1, <4>2
    <3>3. QED BY <3>1, <3>2
  <2>4. QED BY <1>2, <2>1, <2>2, <2>3 DEF WhoInv
<1>10. SpentInv' /\ CodeSignsInOnce'
  BY <1>1, <1>2 DEF SpentInv, CodeSignsInOnce, TypeOK
<1>11. PendingInv' /\ CodeInv'
  BY <1>1, <1>2 DEF PendingInv, CodeInv, TypeOK, otps
<1>12. QED BY <1>6, <1>7, <1>8, <1>9, <1>10, <1>11

LEMMA StoreStep ==
  ASSUME Inv, NEW r \in Reqs, NEW c \in Codes, Store(r, c)
  PROVE  Inv'
<1> USE OtpSignInAssumption DEF Inv
<1>1. /\ pc[r] = "store" /\ pc' = [pc EXCEPT ![r] = "ok"]
      /\ code' = [code EXCEPT ![r] = c]
      /\ pending' = [pending EXCEPT ![who[r]] = c]
      /\ source' = [source EXCEPT ![who[r]] = r]
      /\ UNCHANGED <<users, bounds, op, login, who, subject, spent, moved>>
  BY DEF Store, Goto
<1>2. who[r] \in Uids /\ r # None
  BY <1>1 DEF WhoInv, Behind, Settled
<1>3. TypeOK'
  BY <1>1, <1>2 DEF TypeOK, AccountsTyped, Steps, users, accounts, bounds
<1>4. AccountsInv' /\ MintInv'
  BY <1>1 DEF AccountsInv, MintInv, Stored, TypeOK, AccountsTyped, users, accounts
<1>5. WhoInv'
  BY <1>1 DEF WhoInv, Behind, Settled, TypeOK, AccountsTyped, users, accounts
<1>6. SpentInv' /\ CodeSignsInOnce'
  BY <1>1 DEF SpentInv, CodeSignsInOnce, TypeOK, AccountsTyped
<1>7. \A q \in Reqs : spent[q] # r
  BY <1>1, <1>2 DEF SpentInv
<1>8. PendingInv'
  <2>1. SUFFICES ASSUME NEW u \in Uids, pending'[u] # None
                 PROVE  /\ source'[u] # None
                        /\ pc'[source'[u]] = "ok" /\ who[source'[u]] = u
                        /\ \A q \in Reqs : spent[q] # source'[u]
    BY <1>1 DEF PendingInv
  <2>2. CASE u = who[r]
    BY <1>1, <1>2, <1>7, <2>2 DEF TypeOK, AccountsTyped
  <2>3. CASE u # who[r]
    <3>1. pending'[u] = pending[u] /\ source'[u] = source[u]
      BY <1>1, <2>3 DEF TypeOK, AccountsTyped
    <3>2. QED BY <1>1, <2>1, <3>1 DEF PendingInv, TypeOK, AccountsTyped
  <2>4. QED BY <2>2, <2>3
<1>9. CodeInv'
  BY <1>1, <1>2 DEF CodeInv, TypeOK, AccountsTyped
<1>10. QED BY <1>3, <1>4, <1>5, <1>6, <1>8, <1>9

LEMMA ConsumeStep ==
  ASSUME Inv, NEW r \in Reqs, Consume(r)
  PROVE  Inv'
<1> USE OtpSignInAssumption DEF Inv
<1>1. /\ pc[r] = "consume" /\ who[r] \in Uids
      /\ UNCHANGED <<users, source, bounds, op, login, code, who, subject, moved>>
  BY DEF Consume, WhoInv, Behind, Settled
<1>2. CASE pending[who[r]] = code[r] /\ pending[who[r]] # None
  <2>1. /\ pending' = [pending EXCEPT ![who[r]] = None]
        /\ spent' = [spent EXCEPT ![r] = source[who[r]]]
        /\ pc' = [pc EXCEPT ![r] = "patch"]
    BY <1>2 DEF Consume, Goto, Kept
  <2>2. /\ source[who[r]] \in Reqs /\ source[who[r]] # None
        /\ pc[source[who[r]]] = "ok" /\ who[source[who[r]]] = who[r]
        /\ \A q \in Reqs : spent[q] # source[who[r]]
    BY <1>1, <1>2 DEF PendingInv, TypeOK, AccountsTyped
  <2>3. TypeOK'
    BY <1>1, <2>1, <2>2 DEF TypeOK, AccountsTyped, Steps, users, accounts, bounds
  <2>4. AccountsInv' /\ MintInv' /\ WhoInv'
    BY <1>1, <2>1 DEF AccountsInv, MintInv, Stored, TypeOK, AccountsTyped, users, accounts, WhoInv, Behind, Settled
  <2>5. SpentInv'
    BY <1>1, <2>1, <2>2 DEF SpentInv, TypeOK, AccountsTyped
  <2>6. CodeSignsInOnce'
    BY <2>1, <2>2 DEF CodeSignsInOnce, TypeOK, AccountsTyped
  <2>7. PendingInv'
    <3>1. SUFFICES ASSUME NEW u \in Uids, pending'[u] # None
                   PROVE  /\ source[u] # None
                          /\ pc'[source[u]] = "ok" /\ who[source[u]] = u
                          /\ \A q \in Reqs : spent'[q] # source[u]
      BY <1>1 DEF PendingInv
    <3>2. u # who[r] /\ pending[u] # None
      BY <1>1, <2>1, <3>1 DEF TypeOK, AccountsTyped
    <3>3. /\ source[u] # None /\ pc[source[u]] = "ok" /\ who[source[u]] = u
          /\ \A q \in Reqs : spent[q] # source[u]
      BY <3>2 DEF PendingInv
    <3>4. source[u] # source[who[r]]
      BY <2>2, <3>2, <3>3
    <3>5. QED BY <1>1, <2>1, <3>3, <3>4 DEF TypeOK, AccountsTyped
  <2>8. CodeInv'
    BY <1>1, <2>1 DEF CodeInv, TypeOK, AccountsTyped
  <2>9. QED BY <2>3, <2>4, <2>5, <2>6, <2>7, <2>8
<1>3. CASE pending[who[r]] # code[r]
  <2>1. pc' = [pc EXCEPT ![r] = "refused"] /\ UNCHANGED <<pending, spent>>
    BY <1>3 DEF Consume, Goto
  <2>2. TypeOK'
    BY <1>1, <2>1 DEF TypeOK, AccountsTyped, Steps, users, accounts, bounds
  <2>3. AccountsInv' /\ MintInv' /\ WhoInv'
    BY <1>1, <2>1 DEF AccountsInv, MintInv, Stored, TypeOK, AccountsTyped, users, accounts, WhoInv, Behind, Settled
  <2>4. SpentInv' /\ CodeSignsInOnce'
    BY <1>1, <2>1 DEF SpentInv, CodeSignsInOnce, TypeOK, AccountsTyped
  <2>5. PendingInv' /\ CodeInv'
    BY <1>1, <2>1 DEF PendingInv, CodeInv, TypeOK, AccountsTyped
  <2>6. QED BY <2>2, <2>3, <2>4, <2>5
<1>4. code[r] # None
  BY <1>1 DEF CodeInv
<1>5. QED BY <1>2, <1>3, <1>4

LEMMA PatchStep ==
  ASSUME Inv, NEW r \in Reqs, Patch(r)
  PROVE  Inv'
<1> USE OtpSignInAssumption DEF Inv
<1>1. PICK s \in {"reload", "burnt"} :
        pc[r] = "patch" /\ pc' = [pc EXCEPT ![r] = s]
  BY DEF Patch, Goto
<1>2. UNCHANGED <<owner, status, alias, staged, otps, bounds, op, login, code, who,
                  subject, spent, moved>>
  BY DEF Patch, accounts
<1>3. phoneOk' \in [Uids -> BOOLEAN]
  <2>1. PICK b \in BOOLEAN :
          phoneOk' = phoneOk \/ phoneOk' = [phoneOk EXCEPT ![Found(r)] = @ \/ b]
    BY DEF Patch
  <2>2. QED BY <2>1 DEF TypeOK, AccountsTyped
<1>4. TypeOK'
  BY <1>1, <1>2, <1>3 DEF TypeOK, AccountsTyped, Steps, otps, bounds
<1>5. AccountsInv' /\ MintInv' /\ WhoInv'
  BY <1>1, <1>2 DEF AccountsInv, MintInv, Stored, TypeOK, AccountsTyped, WhoInv, Behind, Settled
<1>6. SpentInv' /\ CodeSignsInOnce'
  BY <1>1, <1>2 DEF SpentInv, CodeSignsInOnce, TypeOK, AccountsTyped
<1>7. PendingInv' /\ CodeInv'
  BY <1>1, <1>2 DEF PendingInv, CodeInv, TypeOK, AccountsTyped, otps
<1>8. QED BY <1>4, <1>5, <1>6, <1>7

LEMMA ReloadStep ==
  ASSUME Inv, NEW r \in Reqs, Reload(r)
  PROVE  Inv'
<1> USE OtpSignInAssumption DEF Inv
<1>1. PICK s \in {"mint", "burnt"} :
        /\ pc[r] = "reload" /\ pc' = [pc EXCEPT ![r] = s]
        /\ s = "mint" => Known(login[r])
  BY DEF Reload, Goto
<1>2. /\ subject' = [subject EXCEPT ![r] = Behind(login[r])]
      /\ UNCHANGED <<users, otps, bounds, op, login, code, who, spent, moved>>
  BY DEF Reload, Found
<1>3. login[r] \in Logins
  BY <1>1 DEF WhoInv, Behind
<1>4. TypeOK'
  BY <1>1, <1>2, <1>3 DEF TypeOK, AccountsTyped, Behind, Steps, users, accounts, otps, bounds
<1>5. AccountsInv' /\ WhoInv'
  BY <1>1, <1>2 DEF AccountsInv, Stored, TypeOK, AccountsTyped, users, accounts, WhoInv, Behind, Settled
<1>6. MintInv'
  <2>1. SUFFICES ASSUME NEW q \in Reqs, pc'[q] = "mint"
                 PROVE  /\ subject'[q] # None /\ Stored(subject'[q])
                        /\ q \notin moved => subject'[q] = who[q]
    BY <1>2 DEF MintInv, Stored, users, accounts
  <2>2. CASE q = r
    <3>1. subject'[q] = Behind(login[r]) /\ Known(login[r])
      BY <1>1, <1>2, <2>1, <2>2 DEF TypeOK, AccountsTyped
    <3>2. QED BY <1>1, <1>3, <2>2, <3>1 DEF Known, AccountsInv, WhoInv, Behind, Settled
  <2>3. CASE q # r
    BY <1>1, <1>2, <2>1, <2>3 DEF MintInv, TypeOK, AccountsTyped
  <2>4. QED BY <2>2, <2>3
<1>7. SpentInv' /\ CodeSignsInOnce'
  BY <1>1, <1>2 DEF SpentInv, CodeSignsInOnce, TypeOK, AccountsTyped
<1>8. PendingInv' /\ CodeInv'
  BY <1>1, <1>2 DEF PendingInv, CodeInv, TypeOK, AccountsTyped, otps
<1>9. QED BY <1>4, <1>5, <1>6, <1>7, <1>8

LEMMA MintStep ==
  ASSUME Inv, NEW r \in Reqs, Mint(r)
  PROVE  Inv'
<1> USE OtpSignInAssumption DEF Inv
<1>1. /\ pc[r] = "mint" /\ pc' = [pc EXCEPT ![r] = "ok"]
      /\ UNCHANGED <<users, otps, bounds, op, login, code, who, subject, spent, moved>>
  BY DEF Mint, Goto
<1>2. TypeOK'
  BY <1>1 DEF TypeOK, AccountsTyped, Steps, users, accounts, otps, bounds
<1>3. AccountsInv' /\ MintInv' /\ WhoInv'
  BY <1>1 DEF AccountsInv, MintInv, Stored, TypeOK, AccountsTyped, users, accounts, WhoInv, Behind, Settled
<1>4. SpentInv' /\ CodeSignsInOnce'
  BY <1>1 DEF SpentInv, CodeSignsInOnce, TypeOK, AccountsTyped
<1>5. PendingInv' /\ CodeInv'
  BY <1>1 DEF PendingInv, CodeInv, TypeOK, AccountsTyped, otps
<1>6. QED BY <1>2, <1>3, <1>4, <1>5

\* A management step: nobody mints, the requests whose login id it turns are
\* marked, and the requests and the codes stay as they are.
LEMMA ManagingStep ==
  ASSUME Inv, AccountsTyped', AccountsInv', Minting = {},
         changes' = changes + 1, resetPc' \in {"idle", "otps"},
         UNCHANGED <<phoneOk, staged, otps, request>>,
         NEW ls \in SUBSET Logins, moved' = moved \cup Concerned(ls),
         \A l \in Logins \ ls : Known(l) => Behind(l)' = Behind(l)
  PROVE  Inv'
<1> USE DEF Inv
<1>1. TypeOK'
  BY DEF TypeOK, Concerned, otps, request
<1>2. WhoInv'
  <2>1. ASSUME NEW r \in Reqs, Settled(r)', r \notin moved'
        PROVE  Behind(login[r])' = who'[r]
    <3>1. /\ Settled(r) /\ r \notin moved /\ pc[r] # "idle" /\ login[r] \in Logins
          /\ UNCHANGED <<login, who>>
      BY <2>1 DEF Settled, WhoInv, request
    <3>2. Behind(login[r]) = who[r] /\ who[r] \in Uids /\ login[r] \notin ls
      BY <2>1, <3>1 DEF WhoInv, Concerned
    <3>3. QED BY <3>1, <3>2, OtpSignInAssumption DEF Known
  <2>2. QED BY <2>1 DEF WhoInv, Settled, request
<1>3. SpentInv' /\ CodeSignsInOnce' /\ PendingInv' /\ CodeInv'
  BY DEF SpentInv, CodeSignsInOnce, PendingInv, CodeInv, request, otps
<1>4. MintInv'
  BY DEF MintInv, Minting, request
<1>5. QED BY <1>1, <1>2, <1>3, <1>4

LEMMA SetStatusStep ==
  ASSUME Inv, NEW u \in Uids, NEW s \in {"enabled", "disabled"}, SetStatus(u, s)
  PROVE  Inv'
<1>1. /\ Minting = {} /\ changes' = changes + 1 /\ SwitchStatus(u, s)
      /\ UNCHANGED <<phoneOk, staged, otps, resetPc, request, moved>>
  BY DEF SetStatus, Change, UsersWritable
<1>2. /\ AccountsTyped' /\ AccountsInv'
      /\ \A l \in Logins \ {} : Known(l) => Behind(l)' = Behind(l)
  BY <1>1, SwitchStatusKeeps DEF Inv, TypeOK
<1>3. moved' = moved \cup Concerned({}) /\ resetPc' \in {"idle", "otps"}
  BY <1>1 DEF Concerned, Inv, TypeOK
<1>4. QED BY <1>1, <1>2, <1>3, ManagingStep

LEMMA RenameStep ==
  ASSUME Inv, NEW old \in Logins, NEW new \in Logins, NEW a, Rename(old, new, a)
  PROVE  Inv'
<1>1. /\ Minting = {} /\ changes' = changes + 1 /\ Rekey(old, new, a)
      /\ moved' = moved \cup Concerned({old, new} \cup Turned(a))
      /\ UNCHANGED <<phoneOk, staged, otps, resetPc, request>>
  BY DEF Rename, Change, UsersWritable
<1>2. /\ AccountsTyped' /\ AccountsInv'
      /\ \A l \in Logins \ ({old, new} \cup Turned(a)) : Known(l) => Behind(l)' = Behind(l)
  BY <1>1, RekeyKeeps DEF Inv, TypeOK
<1>3. {old, new} \cup Turned(a) \in SUBSET Logins /\ resetPc' \in {"idle", "otps"}
  BY <1>1 DEF Turned, Loose, Inv, TypeOK
<1>4. QED BY <1>1, <1>2, <1>3, ManagingStep

LEMMA DescribeStep ==
  ASSUME Inv, NEW l \in Logins, NEW u \in Uids \cup {None}, Describe(l, u)
  PROVE  Inv'
<1>1. /\ Minting = {} /\ changes' = changes + 1 /\ Realias(l, u)
      /\ moved' = moved \cup Concerned(Loose \cap {l})
      /\ UNCHANGED <<phoneOk, staged, otps, resetPc, request>>
  BY DEF Describe, Change, UsersWritable
<1>2. /\ AccountsTyped' /\ AccountsInv'
      /\ \A m \in Logins \ (Loose \cap {l}) : Known(m) => Behind(m)' = Behind(m)
  BY <1>1, RealiasKeeps DEF Inv, TypeOK
<1>3. Loose \cap {l} \in SUBSET Logins /\ resetPc' \in {"idle", "otps"}
  BY <1>1 DEF Inv, TypeOK
<1>4. QED BY <1>1, <1>2, <1>3, ManagingStep

LEMMA DeleteStep ==
  ASSUME Inv, NEW u \in Uids, NEW ls \in SUBSET Logins, NEW a, Delete(u, ls, a)
  PROVE  Inv'
<1>1. /\ Minting = {} /\ changes' = changes + 1 /\ Remove(u, ls, a)
      /\ moved' = moved \cup Concerned(ls \cup Turned(a))
      /\ UNCHANGED <<phoneOk, staged, otps, resetPc, request>>
  BY DEF Delete, Change, UsersWritable
<1>2. /\ AccountsTyped' /\ AccountsInv'
      /\ \A l \in Logins \ (ls \cup Turned(a)) : Known(l) => Behind(l)' = Behind(l)
  BY <1>1, RemoveKeeps DEF Inv, TypeOK
<1>3. ls \cup Turned(a) \in SUBSET Logins /\ resetPc' \in {"idle", "otps"}
  BY <1>1 DEF Turned, Loose, Inv, TypeOK
<1>4. QED BY <1>1, <1>2, <1>3, ManagingStep

LEMMA ResetUsersStep ==
  ASSUME Inv, ResetUsers
  PROVE  Inv'
<1>1. /\ Minting = {} /\ changes' = changes + 1 /\ RemoveAll
      /\ resetPc' \in {"idle", "otps"}
      /\ moved' = moved \cup Concerned(Logins)
      /\ UNCHANGED <<phoneOk, staged, otps, request>>
  BY DEF ResetUsers, Change, UsersWritable
<1>2. AccountsTyped' /\ AccountsInv'
  BY <1>1, RemoveAllKeeps DEF Inv, TypeOK
<1>3. QED BY <1>1, <1>2, ManagingStep

LEMMA ResetCodesStep ==
  ASSUME Inv, ResetCodes
  PROVE  Inv'
<1> USE DEF Inv
<1>1. /\ resetPc' = "idle"
      /\ pending' = [u \in Uids |-> None]
      /\ moved' = moved \cup Concerned(Logins)
      /\ UNCHANGED <<users, source, changes, request>>
  BY DEF ResetCodes
<1>2. TypeOK'
  BY <1>1 DEF TypeOK, AccountsTyped, Concerned, users, accounts, request
<1>3. AccountsInv' /\ WhoInv' /\ MintInv'
  BY <1>1 DEF AccountsInv, WhoInv, MintInv, Settled, Stored, Behind, users, accounts,
              request
<1>4. SpentInv' /\ CodeSignsInOnce' /\ PendingInv' /\ CodeInv'
  BY <1>1 DEF SpentInv, CodeSignsInOnce, PendingInv, CodeInv, request
<1>5. QED BY <1>2, <1>3, <1>4

LEMMA InvStep == Inv /\ [Next]_vars => Inv'
<1> SUFFICES ASSUME Inv, [Next]_vars PROVE Inv'
  OBVIOUS
<1>1. CASE UNCHANGED vars
  <2>1. UNCHANGED <<users, otps, bounds, request, moved>>
    BY <1>1 DEF vars
  <2>2. TypeOK' /\ AccountsInv' /\ WhoInv' /\ MintInv'
    BY <2>1 DEF Inv, TypeOK, AccountsTyped, AccountsInv, WhoInv, Behind, MintInv, Settled, Stored,
                users, accounts, otps, bounds, request
  <2>3. SpentInv' /\ CodeSignsInOnce' /\ PendingInv' /\ CodeInv'
    BY <2>1 DEF Inv, SpentInv, CodeSignsInOnce, PendingInv, CodeInv, otps, request
  <2>4. QED BY <2>2, <2>3 DEF Inv
<1>2. CASE Serving
  BY <1>2, StartStep, LoadStep, InsertStep, StageStep, StoreStep, ConsumeStep,
     PatchStep, ReloadStep, MintStep DEF Serving
<1>3. CASE Managing
  BY <1>3, SetStatusStep, RenameStep, DescribeStep, DeleteStep, ResetUsersStep, ResetCodesStep
     DEF Managing
<1>4. QED BY <1>1, <1>2, <1>3 DEF Next

LEMMA Invariance == Spec => []Inv
<1>1. QED BY InvInit, InvStep, PTL DEF Spec

-----------------------------------------------------------------------------
(* The theorems *)

\* Every variable keeps its shape, for any number of users and requests.
THEOREM TypeCorrect == Spec => []TypeOK
<1>1. Inv => TypeOK
  BY DEF Inv
<1>2. QED BY Invariance, <1>1, PTL

\* Sign-ins and sign-ups that race to create the account of a login id
\* (otp.rs, load then insert) agree on it, however many there are.
THEOREM OneAccountPerLoginHolds == Spec => []OneAccountPerLogin
<1>1. Inv => OneAccountPerLogin
  BY DEF Inv, WhoInv, Settled, OneAccountPerLogin
<1>2. QED BY Invariance, <1>1, PTL

\* A code opens one session (OtpStore::consume), however many verifications
\* present it.
THEOREM CodeSignsInOnceHolds == Spec => []CodeSignsInOnce
<1>1. Inv => CodeSignsInOnce
  BY DEF Inv
<1>2. QED BY Invariance, <1>1, PTL

\* The three lookups of verify_email and verify_phone_sms end at the user whose
\* code was consumed, unless the login id was made to lead elsewhere.
THEOREM SignsInCodeOwnerHolds == Spec => []SignsInCodeOwner
<1>1. Inv => SignsInCodeOwner
  BY DEF Inv, MintInv, SpentInv, SignsInCodeOwner
<1>2. QED BY Invariance, <1>1, PTL
=============================================================================
