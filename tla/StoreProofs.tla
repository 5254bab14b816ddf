---------------------------- MODULE StoreProofs ----------------------------
(***************************************************************************)
(* The stores.  Users: but for phones registered in place (PhoneLogins)    *)
(* the login index matches the users exactly, a lookup finds whom a scan   *)
(* would, and a snapshot is restored without loss.  Tokens: TokenStore     *)
(* implements OneTimeTokens, since the queue lists the stored tokens in    *)
(* issue order (QueueInv) and a stored token has met no redeemer           *)
(* (HistoryInv).  Configuration: names and keys agree,                     *)
(* an export is a picture of one moment and an import leaves what its file *)
(* lists (ImportsInv).  All of it for any users, identifiers, tokens,      *)
(* capacity, names, requests and files.                                    *)
(***************************************************************************)
EXTENDS UserStore, TokenStore, ProjectConfig, FiniteSetTheorems, SequenceTheorems, TLAPS

(***************************************************************************)
(* Users                                                                   *)
(***************************************************************************)

(* The shape of the user store *)

LEMMA LeastNatural ==
  ASSUME NEW T \in SUBSET Nat, T # {}
  PROVE  \E x \in T : \A y \in T : x <= y
<1> DEFINE R == {ss \in Nat \X Nat : ss[1] < ss[2]}
<1>1. IsWellFoundedOn(R, Nat)
  BY NatLessThanWellFounded DEF OpToRel
<1>2. \A x, y \in Nat : <<y, x>> \in R <=> y < x
  OBVIOUS
<1> HIDE DEF R
<1>3. PICK x \in T : \A y \in T : ~(<<y, x>> \in R)
  BY <1>1, WFMin
<1>4. ASSUME NEW y \in T PROVE x <= y
  <2>1. x \in Nat /\ y \in Nat /\ ~(<<y, x>> \in R)
    BY <1>3
  <2>2. ~(y < x)
    BY <1>2, <2>1
  <2>3. QED BY <2>1, <2>2
<1>5. QED BY <1>4

\* Among any users there is one the snapshot lists last.
LEMMA LastOf ==
  ASSUME NEW S, NEW n \in Nat, NEW r \in [S -> 1..n], NEW K \in SUBSET S, K # {}
  PROVE  Last(r, K) \in K
<1> DEFINE T == {n - r[u] : u \in K}
<1>1. \A u \in K : r[u] \in Nat /\ n - r[u] \in Nat
  OBVIOUS
<1>2. T \in SUBSET Nat /\ T # {}
  BY <1>1
<1>3. PICK x \in T : \A y \in T : x <= y
  BY <1>2, LeastNatural
<1>4. PICK u \in K : x = n - r[u]
  BY <1>3
<1>5. ASSUME NEW v \in K PROVE r[v] <= r[u]
  <2>1. n - r[u] <= n - r[v]
    BY <1>3, <1>4
  <2>2. QED BY <1>1, <2>1
<1>6. QED BY <1>4, <1>5 DEF Last

\* An index over the keys D.
Maps(f, D) == DOMAIN f \subseteq D /\ f \in [DOMAIN f -> Uids]

LEMMA PointingMaps ==
  ASSUME NEW D, NEW f, Maps(f, D), NEW ks \in SUBSET D, NEW u \in Uids
  PROVE  Maps(Pointing(f, ks, u), D)
BY DEF Maps, Pointing

LEMMA DroppingMaps ==
  ASSUME NEW D, NEW f, Maps(f, D), NEW ks
  PROVE  Maps(Dropping(f, ks), D)
BY DEF Maps, Dropping

\* The users are finitely many, so a snapshot can list them at all.
UsersShape ==
  /\ IsFiniteSet(Stored) /\ Stored \subseteq Uids /\ users \in [Stored -> User]
  /\ Maps(byLogin, LoginIds \cup Phones) /\ Maps(byEmail, Emails) /\ Maps(byPhone, Phones)
  /\ Stored \subseteq seen /\ seen \subseteq Uids

\* An edit of the stored user u, which stays where it is.
LEMMA EditShape ==
  ASSUME UsersShape, NEW u \in Stored, NEW d \in User,
         users' = [users EXCEPT ![u] = d], seen' = seen,
         Maps(byLogin', LoginIds \cup Phones), Maps(byEmail', Emails), Maps(byPhone', Phones)
  PROVE  UsersShape'
<1>1. Stored' = Stored /\ users' \in [Stored -> User]
  BY DEF UsersShape, Stored
<1>2. QED BY <1>1 DEF UsersShape, Maps

LEMMA IndexShape ==
  ASSUME UsersShape, NEW u \in Uids, NEW ls \in SUBSET LoginIds,
         NEW e \in Emails \cup {Absent}, NEW p \in Phones \cup {Absent}, Index(u, ls, e, p)
  PROVE  /\ Maps(byLogin', LoginIds \cup Phones) /\ Maps(byEmail', Emails)
         /\ Maps(byPhone', Phones)
<1>1. Maps(Pointing(byLogin, ls, u), LoginIds \cup Phones)
  BY PointingMaps DEF UsersShape
<1>2. Maps(Pointing(byEmail, {e} \ {Absent}, u), Emails)
  BY PointingMaps DEF UsersShape
<1>3. Maps(Pointing(byPhone, {p} \ {Absent}, u), Phones)
  BY PointingMaps DEF UsersShape
<1>4. QED BY <1>1, <1>2, <1>3 DEF Index

LEMMA CreatingShape ==
  ASSUME UsersShape, Creating
  PROVE  UsersShape'
<1>1. PICK u \in Uids, ls \in SUBSET LoginIds, e \in Emails \cup {Absent},
           p \in Phones \cup {Absent} : Insert(u, ls, e, p)
  BY DEF Creating
<1> DEFINE d == [logins |-> ls, email |-> e, phone |-> p]
<1>2. d \in User
  BY DEF User
<1>3. /\ users' = [v \in Stored \cup {u} |-> IF v = u THEN d ELSE users[v]]
      /\ seen' = seen \cup {u} /\ Index(u, ls, e, p)
  BY <1>1 DEF Insert
<1> HIDE DEF d
<1>4. Stored' = Stored \cup {u} /\ users' \in [Stored' -> User]
  BY <1>2, <1>3 DEF UsersShape, Stored
<1>5. IsFiniteSet(Stored \cup {u})
  BY FS_AddElement DEF UsersShape
<1>6. /\ Maps(byLogin', LoginIds \cup Phones) /\ Maps(byEmail', Emails)
      /\ Maps(byPhone', Phones)
  BY <1>3, IndexShape
<1>7. QED BY <1>3, <1>4, <1>5, <1>6 DEF UsersShape, Maps

LEMMA EditingShape ==
  ASSUME UsersShape, Editing
  PROVE  UsersShape'
<1>1. \A u \in Stored : u \in Uids /\ users[u] \in User
  BY DEF UsersShape
<1>2. ASSUME NEW x \in Ids, NEW e \in Emails \cup {Absent}, NEW p \in Phones \cup {Absent},
             UpdateUser(x, e, p)
      PROVE  UsersShape'
  <2>1. PICK u \in Load(x) :
          /\ users' = [users EXCEPT ![u].email = e, ![u].phone = p]
          /\ Index(u, {}, e, p) /\ seen' = seen
    BY <1>2 DEF UpdateUser
  <2> DEFINE d == [users[u] EXCEPT !.email = e, !.phone = p]
  <2>2. u \in Stored /\ d \in User /\ users' = [users EXCEPT ![u] = d]
    BY <1>1, <2>1 DEF Load, User
  <2> HIDE DEF d
  <2>3. /\ Maps(byLogin', LoginIds \cup Phones) /\ Maps(byEmail', Emails)
        /\ Maps(byPhone', Phones)
    BY <1>1, <2>1, <2>2, IndexShape
  <2>4. QED BY <2>1, <2>2, <2>3, EditShape
<1>3. ASSUME NEW u \in Stored, NEW d \in User, users' = [users EXCEPT ![u] = d],
             UNCHANGED <<byLogin, byEmail, byPhone, seen>>
      PROVE  UsersShape'
  BY <1>3, EditShape DEF UsersShape
<1>4. ASSUME NEW x \in Ids, NEW e \in Emails \cup {Absent}, NEW p \in Phones \cup {Absent},
             Patch(x, e, p)
      PROVE  UsersShape'
  <2>1. PICK u \in Load(x) :
          /\ users' = [users EXCEPT ![u].email = IF e = Absent THEN @ ELSE e,
                                    ![u].phone = IF p = Absent THEN @ ELSE p]
          /\ UNCHANGED <<byLogin, byEmail, byPhone, seen>>
    BY <1>4 DEF Patch
  <2> DEFINE d == [users[u] EXCEPT !.email = IF e = Absent THEN @ ELSE e,
                                   !.phone = IF p = Absent THEN @ ELSE p]
  <2>2. u \in Stored /\ users' = [users EXCEPT ![u] = d]
    BY <2>1 DEF Load
  <2>3. d \in User
    <3>1. users[u].email \in Emails \cup {Absent} /\ users[u].phone \in Phones \cup {Absent}
      BY <1>1, <2>2 DEF User
    <3>2. QED BY <1>1, <2>2, <3>1 DEF User
  <2> HIDE DEF d
  <2>4. QED BY <1>3, <2>1, <2>2, <2>3
<1>5. ASSUME NEW x \in Ids, NEW p \in Phones, NEW added \in SUBSET Phones,
             UpdatePhone(x, p, added)
      PROVE  UsersShape'
  <2>1. PICK u \in Load(x) :
          /\ users' = [users EXCEPT ![u].phone = p, ![u].logins = @ \cup added]
          /\ UNCHANGED <<byLogin, byEmail, byPhone, seen>>
    BY <1>5 DEF UpdatePhone
  <2> DEFINE d == [users[u] EXCEPT !.phone = p, !.logins = @ \cup added]
  <2>2. u \in Stored /\ d \in User /\ users' = [users EXCEPT ![u] = d]
    BY <1>1, <2>1 DEF Load, User
  <2> HIDE DEF d
  <2>3. QED BY <1>3, <2>1, <2>2
<1>6. ASSUME NEW old \in Ids, NEW new \in LoginIds, Rename(old, new) PROVE UsersShape'
  <2> DEFINE u == byLogin[old]
             d == [users[u] EXCEPT !.logins = (@ \ {old}) \cup {new}]
  <2>1. /\ u \in Stored /\ byLogin' = Pointing(Dropping(byLogin, {old}), {new}, u)
        /\ users' = [users EXCEPT ![u].logins = (@ \ {old}) \cup {new}]
        /\ UNCHANGED <<byEmail, byPhone, seen>>
    BY <1>6 DEF Rename
  <2>2. u \in Uids /\ d \in User /\ users' = [users EXCEPT ![u] = d]
    BY <1>1, <2>1 DEF User
  <2> HIDE DEF u, d
  <2>3. Maps(Dropping(byLogin, {old}), LoginIds \cup Phones)
    BY DroppingMaps DEF UsersShape
  <2>4. Maps(byLogin', LoginIds \cup Phones)
    BY <2>1, <2>2, <2>3, PointingMaps
  <2>5. QED BY <2>1, <2>2, <2>4, EditShape DEF UsersShape
<1>7. \A p \in Phones : {} \in SUBSET Phones /\ {p} \cap PhoneLogins \in SUBSET Phones
  OBVIOUS
<1>8. QED BY <1>2, <1>4, <1>5, <1>6, <1>7 DEF Editing

LEMMA RemoveShape ==
  ASSUME UsersShape, NEW gone, NEW ls, NEW es, NEW ps,
         users' = Dropping(users, gone), byLogin' = Dropping(byLogin, ls),
         byEmail' = Dropping(byEmail, es), byPhone' = Dropping(byPhone, ps),
         seen' \subseteq Uids, Stored \ gone \subseteq seen'
  PROVE  UsersShape'
<1>1. Stored' = Stored \ gone /\ users' \in [Stored' -> User]
  BY DEF UsersShape, Stored, Dropping
<1>2. IsFiniteSet(Stored')
  BY <1>1, FS_Subset DEF UsersShape
<1>3. /\ Maps(byLogin', LoginIds \cup Phones) /\ Maps(byEmail', Emails)
      /\ Maps(byPhone', Phones)
  BY DroppingMaps DEF UsersShape
<1>4. QED BY <1>1, <1>2, <1>3 DEF UsersShape, Maps

LEMMA RestoringShape ==
  ASSUME UsersShape, NEW r \in Orders, Restore(r)
  PROVE  UsersShape'
<1> DEFINE n == Cardinality(Stored)
<1>1. PICK in \in SUBSET Stored :
        /\ users' = [u \in in |-> users[u]]
        /\ byLogin' = [l \in UNION {users[u].logins : u \in in} |->
                        Last(r, {u \in in : l \in users[u].logins})]
        /\ byEmail' = [e \in {users[u].email : u \in in} \ {Absent} |->
                        Last(r, {u \in in : users[u].email = e})]
        /\ byPhone' = [p \in {users[u].phone : u \in in} \ {Absent} |->
                        Last(r, {u \in in : users[u].phone = p})]
        /\ seen' = in
  BY DEF Restore
<1>2. n \in Nat /\ r \in [Stored -> 1..n]
  BY FS_CardinalityType DEF UsersShape, Orders
<1> HIDE DEF n
<1>3. \A K \in SUBSET in : K # {} => Last(r, K) \in Uids
  BY <1>2, LastOf DEF UsersShape
<1>4. \A u \in in : users[u] \in User
  BY DEF UsersShape
<1>5. /\ Stored' = in /\ users' \in [Stored' -> User] /\ IsFiniteSet(Stored')
      /\ Stored' \subseteq Uids
  BY <1>1, <1>4, FS_Subset DEF UsersShape, Stored
<1>6. Maps(byLogin', LoginIds \cup Phones)
  <2>1. ASSUME NEW l \in UNION {users[u].logins : u \in in}
        PROVE  /\ l \in LoginIds \cup Phones
               /\ Last(r, {u \in in : l \in users[u].logins}) \in Uids
    <3>1. PICK v \in in : l \in users[v].logins
      OBVIOUS
    <3>2. {u \in in : l \in users[u].logins} # {}
      BY <3>1
    <3>3. QED BY <1>3, <1>4, <3>1, <3>2 DEF User
  <2>2. QED BY <1>1, <2>1 DEF Maps
<1>7. Maps(byEmail', Emails)
  <2>1. ASSUME NEW e \in {users[u].email : u \in in} \ {Absent}
        PROVE  e \in Emails /\ Last(r, {u \in in : users[u].email = e}) \in Uids
    <3>1. PICK v \in in : users[v].email = e
      OBVIOUS
    <3>2. {u \in in : users[u].email = e} # {}
      BY <3>1
    <3>3. QED BY <1>3, <1>4, <3>1, <3>2 DEF User
  <2>2. QED BY <1>1, <2>1 DEF Maps
<1>8. Maps(byPhone', Phones)
  <2>1. ASSUME NEW p \in {users[u].phone : u \in in} \ {Absent}
        PROVE  p \in Phones /\ Last(r, {u \in in : users[u].phone = p}) \in Uids
    <3>1. PICK v \in in : users[v].phone = p
      OBVIOUS
    <3>2. {u \in in : users[u].phone = p} # {}
      BY <3>1
    <3>3. QED BY <1>3, <1>4, <3>1, <3>2 DEF User
  <2>2. QED BY <1>1, <2>1 DEF Maps
<1>9. QED BY <1>1, <1>5, <1>6, <1>7, <1>8 DEF UsersShape, Maps

LEMMA UsersShapeHolds == UsersSpec => []UsersShape
<1>1. UsersInit => UsersShape
  <2>1. IsFiniteSet({})
    BY FS_EmptySet
  <2>2. QED BY <2>1 DEF UsersInit, UsersShape, Maps, Stored
<1>2. UsersShape /\ [UsersNext]_userVars => UsersShape'
  <2> SUFFICES ASSUME UsersShape, [UsersNext]_userVars PROVE UsersShape'
    OBVIOUS
  <2>1. CASE Creating
    BY <2>1, CreatingShape
  <2>2. CASE Editing
    BY <2>2, EditingShape
  <2>3. CASE Deleting
    <3>1. ASSUME NEW gone \in SUBSET Stored, RemoveUsers(gone) PROVE UsersShape'
      BY <3>1, RemoveShape DEF RemoveUsers, UsersShape
    <3>2. ASSUME Reset PROVE UsersShape'
      BY <3>2, RemoveShape DEF Reset
    <3>3. QED BY <2>3, <3>1, <3>2 DEF Deleting, DeleteByLoginId
  <2>4. CASE Restoring
    BY <2>4, RestoringShape DEF Restoring
  <2>5. CASE UNCHANGED userVars
    BY <2>5 DEF userVars, UsersShape, Maps, Stored
  <2>6. QED BY <2>1, <2>2, <2>3, <2>4, <2>5 DEF UsersNext
<1>3. QED BY <1>1, <1>2, PTL DEF UsersSpec

\* The users and the three indices keep their shape, also where update_phone
\* registers phones as login ids; no index leads to an id never handed out.
THEOREM UsersTypeCorrect == UsersSpec => []UsersTypeOK
<1>1. UsersShape => UsersTypeOK
  BY DEF UsersShape, Maps, UsersTypeOK
<1>2. QED BY <1>1, UsersShapeHolds, PTL

-----------------------------------------------------------------------------
(* The login index *)

\* What the argument needs of the types: a stored user is a record, the login
\* index maps login ids to user ids, and a new user gets a new user id.
LoginTyped ==
  /\ users \in [Stored -> User]
  /\ byLogin \in [DOMAIN byLogin -> Uids]
  /\ DOMAIN byLogin \subseteq LoginIds \cup Phones
  /\ Stored \subseteq Uids
  /\ Stored \subseteq seen

UsersInv == LoginTyped /\ LoginIndexExact

-----------------------------------------------------------------------------
LEMMA PointingAt ==
  ASSUME NEW f, NEW ks, NEW u
  PROVE  /\ DOMAIN Pointing(f, ks, u) = DOMAIN f \cup ks
         /\ \A k \in DOMAIN f \cup ks :
              Pointing(f, ks, u)[k] = IF k \in ks THEN u ELSE f[k]
         /\ ks = {} /\ f = [k \in DOMAIN f |-> f[k]] => Pointing(f, ks, u) = f
BY DEF Pointing

LEMMA DroppingFrom ==
  ASSUME NEW f, NEW ks
  PROVE  /\ DOMAIN Dropping(f, ks) = DOMAIN f \ ks
         /\ \A k \in DOMAIN f \ ks : Dropping(f, ks)[k] = f[k]
         /\ Dropping(f, ks) = [k \in DOMAIN f \ ks |-> f[k]]
BY DEF Dropping

LEMMA UsersInitInv == UsersInit => UsersInv
BY DEF UsersInit, UsersInv, LoginTyped, LoginIndexExact, Stored

\* A step that leaves every stored user its login ids and the index alone.
LEMMA UsersQuietStep ==
  ASSUME UsersInv, Stored' = Stored, users' \in [Stored -> User],
         \A u \in Stored : users'[u].logins = users[u].logins,
         byLogin' = byLogin, seen' = seen
  PROVE  UsersInv'
BY DEF UsersInv, LoginTyped, LoginIndexExact, Stored

LEMMA InsertUserStep ==
  ASSUME UsersInv, NEW u \in Uids, NEW ls \in SUBSET LoginIds,
         NEW e \in Emails \cup {Absent}, NEW p \in Phones \cup {Absent},
         Insert(u, ls, e, p)
  PROVE  UsersInv'
<1> DEFINE new == [logins |-> ls, email |-> e, phone |-> p]
<1>1. /\ u \notin seen /\ ls \cap DOMAIN byLogin = {}
      /\ users' = [v \in Stored \cup {u} |-> IF v = u THEN new ELSE users[v]]
      /\ byLogin' = Pointing(byLogin, ls, u)
      /\ seen' = seen \cup {u}
  BY DEF Insert, Unclaimed, Index
<1>2. new \in User /\ new.logins = ls
  BY DEF User
<1> HIDE DEF new
<1>3. u \notin Stored
  BY <1>1 DEF UsersInv, LoginTyped
<1>4. /\ Stored' = Stored \cup {u}
      /\ \A v \in Stored : users'[v] = users[v]
      /\ users'[u] = new
  BY <1>1, <1>3 DEF Stored
<1>5. /\ DOMAIN byLogin' = DOMAIN byLogin \cup ls
      /\ \A k \in DOMAIN byLogin \cup ls :
           byLogin'[k] = IF k \in ls THEN u ELSE byLogin[k]
  BY <1>1, PointingAt
<1>6. byLogin' \in [DOMAIN byLogin' -> Uids]
  BY <1>1, <1>5 DEF UsersInv, LoginTyped, Pointing
<1>7. users' \in [Stored' -> User]
  BY <1>1, <1>2, <1>4 DEF UsersInv, LoginTyped
<1>8. LoginTyped'
  BY <1>1, <1>4, <1>5, <1>6, <1>7 DEF UsersInv, LoginTyped
<1>9. LoginIndexExact'
  BY <1>1, <1>2, <1>3, <1>4, <1>5 DEF UsersInv, LoginIndexExact
<1>10. QED BY <1>8, <1>9 DEF UsersInv

LEMMA UpdateUserStep ==
  ASSUME UsersInv, NEW x \in Ids, NEW e \in Emails \cup {Absent},
         NEW p \in Phones \cup {Absent}, UpdateUser(x, e, p)
  PROVE  UsersInv'
<1>1. PICK u \in Load(x) :
        /\ users' = [users EXCEPT ![u].email = e, ![u].phone = p]
        /\ Index(u, {}, e, p)
        /\ UNCHANGED seen
  BY DEF UpdateUser
<1>2. u \in Stored
  BY DEF Load
<1>3. byLogin' = byLogin
  <2>1. byLogin = [k \in DOMAIN byLogin |-> byLogin[k]]
    BY DEF UsersInv, LoginTyped
  <2>2. Pointing(byLogin, {}, u) = byLogin
    BY <2>1, PointingAt
  <2>3. byLogin' = Pointing(byLogin, {}, u)
    BY <1>1 DEF Index
  <2>4. QED BY <2>2, <2>3
<1>4. users' \in [Stored -> User] /\ \A v \in Stored : users'[v].logins = users[v].logins
  BY <1>1, <1>2 DEF UsersInv, LoginTyped, User
<1>5. Stored' = Stored
  BY <1>1 DEF Stored
<1>6. QED BY <1>1, <1>3, <1>4, <1>5, UsersQuietStep

LEMMA PatchStep ==
  ASSUME UsersInv, NEW x \in Ids, NEW e \in Emails \cup {Absent},
         NEW p \in Phones \cup {Absent}, Patch(x, e, p)
  PROVE  UsersInv'
<1>1. PICK u \in Load(x) :
        /\ users' = [users EXCEPT ![u].email = IF e = Absent THEN @ ELSE e,
                                  ![u].phone = IF p = Absent THEN @ ELSE p]
        /\ UNCHANGED <<byLogin, byEmail, byPhone, seen>>
  BY DEF Patch
<1>2. u \in Stored
  BY DEF Load
<1>3. users' \in [Stored -> User] /\ \A v \in Stored : users'[v].logins = users[v].logins
  <2>1. users \in [Stored -> User] /\ users[u] \in User
    BY <1>2 DEF UsersInv, LoginTyped
  <2>2. PICK e2 \in Emails \cup {Absent}, p2 \in Phones \cup {Absent} :
          users' = [users EXCEPT ![u].email = e2, ![u].phone = p2]
    <3>1. users[u].email \in Emails \cup {Absent} /\ users[u].phone \in Phones \cup {Absent}
      BY <2>1 DEF User
    <3>2. CASE e = Absent /\ p = Absent
      BY <1>1, <3>1, <3>2
    <3>3. CASE e = Absent /\ p # Absent
      BY <1>1, <3>1, <3>3
    <3>4. CASE e # Absent /\ p = Absent
      BY <1>1, <3>1, <3>4
    <3>5. CASE e # Absent /\ p # Absent
      BY <1>1, <3>1, <3>5
    <3>6. QED BY <3>2, <3>3, <3>4, <3>5
  <2>3. QED BY <1>2, <2>1, <2>2 DEF User
<1>4. Stored' = Stored
  BY <1>1 DEF Stored
<1>5. QED BY <1>1, <1>3, <1>4, UsersQuietStep

LEMMA UpdatePhoneStep ==
  ASSUME UsersInv, NEW x \in Ids, NEW p \in Phones, NEW added \in SUBSET PhoneLogins,
         UpdatePhone(x, p, added)
  PROVE  UsersInv'
<1>1. PICK u \in Load(x) :
        /\ users' = [users EXCEPT ![u].phone = p, ![u].logins = @ \cup added]
        /\ UNCHANGED <<byLogin, byEmail, byPhone, seen>>
  BY DEF UpdatePhone
<1>2. u \in Stored
  BY DEF Load
<1>3. /\ users' \in [Stored -> User]
      /\ \A v \in Stored : /\ users[v].logins \subseteq users'[v].logins
                          /\ users'[v].logins \ PhoneLogins = users[v].logins \ PhoneLogins
  <2>1. users \in [Stored -> User] /\ users[u] \in User /\ added \in SUBSET Phones
    BY <1>2, UserStoreAssumption DEF UsersInv, LoginTyped
  <2> DEFINE new == [users[u] EXCEPT !.phone = p, !.logins = @ \cup added]
  <2>2. new \in User /\ new.logins = users[u].logins \cup added
    BY <2>1 DEF User
  <2>3. users' = [users EXCEPT ![u] = new]
    BY <1>1, <1>2, <2>1 DEF User
  <2> HIDE DEF new
  <2>4. QED BY <1>2, <2>1, <2>2, <2>3
<1>4. Stored' = Stored /\ byLogin' = byLogin /\ seen' = seen
  BY <1>1 DEF Stored
<1>5. QED BY <1>3, <1>4 DEF UsersInv, LoginTyped, LoginIndexExact

LEMMA RenameLoginStep ==
  ASSUME UsersInv, NEW old \in Ids, NEW new \in LoginIds, Rename(old, new)
  PROVE  UsersInv'
<1> DEFINE u == byLogin[old]
<1>1. /\ old \in DOMAIN byLogin
      /\ new \in DOMAIN byLogin => byLogin[new] = u
      /\ byLogin' = Pointing(Dropping(byLogin, {old}), {new}, u)
      /\ users' = [users EXCEPT ![u].logins = (@ \ {old}) \cup {new}]
      /\ seen' = seen
  BY DEF Rename
<1>2. u \in Stored /\ u \in Uids /\ old \in users[u].logins
  BY <1>1 DEF UsersInv, LoginTyped, LoginIndexExact
<1> HIDE DEF u
<1>3. /\ DOMAIN byLogin' = (DOMAIN byLogin \ {old}) \cup {new}
      /\ \A k \in DOMAIN byLogin' :
           byLogin'[k] = IF k = new THEN u ELSE byLogin[k]
  <2> DEFINE d == Dropping(byLogin, {old})
  <2>1. /\ DOMAIN d = DOMAIN byLogin \ {old}
        /\ \A k \in DOMAIN byLogin \ {old} : d[k] = byLogin[k]
    BY DEF Dropping
  <2>2. byLogin' = Pointing(d, {new}, u)
    BY <1>1
  <2> HIDE DEF d
  <2>3. /\ DOMAIN byLogin' = DOMAIN d \cup {new}
        /\ \A k \in DOMAIN d \cup {new} :
             byLogin'[k] = IF k \in {new} THEN u ELSE d[k]
    BY <2>2, PointingAt
  <2>4. QED BY <2>1, <2>3
<1>4. /\ Stored' = Stored
      /\ users'[u].logins = (users[u].logins \ {old}) \cup {new}
      /\ \A v \in Stored : v # u => users'[v] = users[v]
  BY <1>1, <1>2 DEF UsersInv, LoginTyped, User, Stored
<1>5. users' \in [Stored -> User]
  BY <1>1, <1>2 DEF UsersInv, LoginTyped, User
<1>6. byLogin' \in [DOMAIN byLogin' -> Uids]
  BY <1>1, <1>2, <1>3 DEF UsersInv, LoginTyped, Pointing
<1>7. LoginTyped'
  BY <1>1, <1>3, <1>4, <1>5, <1>6 DEF UsersInv, LoginTyped
<1>8. ASSUME NEW v \in Stored, NEW l \in users'[v].logins \ PhoneLogins
      PROVE  l \in DOMAIN byLogin' /\ byLogin'[l] = v
  <2>1. CASE v = u
    BY <1>3, <1>4, <1>8, <2>1 DEF UsersInv, LoginIndexExact
  <2>2. CASE v # u
    <3>1. l \in DOMAIN byLogin /\ byLogin[l] = v
      BY <1>4, <1>8, <2>2 DEF UsersInv, LoginIndexExact
    <3>2. l # old /\ l # new
      BY <1>1, <2>2, <3>1 DEF u
    <3>3. QED BY <1>3, <3>1, <3>2
  <2>3. QED BY <2>1, <2>2
<1>9. ASSUME NEW l \in DOMAIN byLogin'
      PROVE  byLogin'[l] \in Stored /\ l \in users'[byLogin'[l]].logins
  <2>1. CASE l = new
    BY <1>2, <1>3, <1>4, <1>9, <2>1
  <2>2. CASE l # new
    <3>1. l \in DOMAIN byLogin /\ l # old /\ byLogin'[l] = byLogin[l]
      BY <1>3, <1>9, <2>2
    <3>2. byLogin[l] \in Stored /\ l \in users[byLogin[l]].logins
      BY <3>1 DEF UsersInv, LoginIndexExact
    <3>3. QED BY <1>4, <3>1, <3>2
  <2>3. QED BY <2>1, <2>2
<1>10. LoginIndexExact'
  BY <1>4, <1>8, <1>9 DEF LoginIndexExact
<1>11. QED BY <1>7, <1>10 DEF UsersInv

LEMMA RemoveUsersStep ==
  ASSUME UsersInv, NEW gone \in SUBSET Stored, RemoveUsers(gone)
  PROVE  UsersInv'
<1> DEFINE ids == UNION {users[u].logins : u \in gone}
<1>1. /\ users' = Dropping(users, gone) /\ byLogin' = Dropping(byLogin, ids)
      /\ seen' = seen
  BY DEF RemoveUsers
<1>2. \A l \in DOMAIN byLogin : /\ byLogin[l] \in gone => l \in ids
                               /\ l \in ids \ PhoneLogins => byLogin[l] \in gone
  BY DEF UsersInv, LoginIndexExact
<1> HIDE DEF ids
<1>3. /\ Stored' = Stored \ gone
      /\ \A u \in Stored \ gone : users'[u] = users[u]
      /\ users' = [u \in Stored \ gone |-> users[u]]
  BY <1>1, DroppingFrom DEF Stored
<1>4. /\ DOMAIN byLogin' = DOMAIN byLogin \ ids
      /\ \A l \in DOMAIN byLogin \ ids : byLogin'[l] = byLogin[l]
      /\ byLogin' = [l \in DOMAIN byLogin \ ids |-> byLogin[l]]
  BY <1>1, DroppingFrom
<1>5. users' \in [Stored' -> User] /\ byLogin' \in [DOMAIN byLogin' -> Uids]
  BY <1>3, <1>4 DEF UsersInv, LoginTyped
<1>6. LoginTyped'
  BY <1>1, <1>3, <1>4, <1>5 DEF UsersInv, LoginTyped
<1>7. ASSUME NEW u \in Stored \ gone, NEW l \in users[u].logins \ PhoneLogins
      PROVE  l \in DOMAIN byLogin \ ids /\ byLogin[l] = u
  BY <1>2, <1>7 DEF UsersInv, LoginIndexExact
<1>8. ASSUME NEW l \in DOMAIN byLogin \ ids
      PROVE  byLogin[l] \in Stored \ gone /\ l \in users[byLogin[l]].logins
  <2>1. byLogin[l] \in Stored /\ l \in users[byLogin[l]].logins
    BY DEF UsersInv, LoginIndexExact
  <2>2. l \in DOMAIN byLogin /\ l \notin ids
    BY <1>8
  <2>3. ASSUME byLogin[l] \in gone PROVE FALSE
    BY <2>1, <2>2, <2>3 DEF ids
  <2>4. QED BY <2>1, <2>3
<1>9. LoginIndexExact'
  BY <1>3, <1>4, <1>7, <1>8 DEF LoginIndexExact
<1>10. QED BY <1>6, <1>9 DEF UsersInv

LEMMA ResetUsersStep ==
  ASSUME UsersInv, Reset
  PROVE  UsersInv'
<1>1. /\ users' = [k \in {} |-> users[k]]
      /\ byLogin' = [k \in {} |-> byLogin[k]]
      /\ seen' = {}
  <2>1. /\ users' = [k \in DOMAIN users \ DOMAIN users |-> users[k]]
        /\ byLogin' = [k \in DOMAIN byLogin \ DOMAIN byLogin |-> byLogin[k]]
        /\ seen' = {}
    BY DEF Reset, Stored, Dropping
  <2>2. DOMAIN users \ DOMAIN users = {} /\ DOMAIN byLogin \ DOMAIN byLogin = {}
    OBVIOUS
  <2>3. QED BY <2>1, <2>2
<1>2. /\ Stored' = {} /\ DOMAIN byLogin' = {}
      /\ users' \in [Stored' -> User] /\ byLogin' \in [DOMAIN byLogin' -> Uids]
  BY <1>1 DEF Stored
<1>3. QED BY <1>1, <1>2 DEF UsersInv, LoginTyped, LoginIndexExact

\* Two users clash over phones registered in place only, so restore skips only
\* users that share one with a user it keeps.
LEMMA RestoreSkips ==
  ASSUME UsersInv, NEW r \in Orders, Restore(r)
  PROVE  \E in \in SUBSET Stored :
           /\ users' = [u \in in |-> users[u]] /\ seen' = in
           /\ byLogin' = [l \in UNION {users[u].logins : u \in in} |->
                           Last(r, {u \in in : l \in users[u].logins})]
           /\ \A u \in Stored \ in : \E v \in in :
                users[u].logins \cap users[v].logins \cap PhoneLogins # {}
<1>1. ASSUME NEW u \in Stored, NEW v \in Stored, Clash(u, v), u # v
      PROVE  users[u].logins \cap users[v].logins \cap PhoneLogins # {}
  BY <1>1 DEF UsersInv, LoginIndexExact, Clash
<1>2. \A u \in Stored : ~(r[u] < r[u])
  BY DEF Orders
<1>3. PICK in \in SUBSET Stored :
        /\ \A u \in Stored :
             u \in in <=> ~\E v \in in : r[v] < r[u] /\ Clash(u, v)
        /\ users' = [u \in in |-> users[u]]
        /\ byLogin' = [l \in UNION {users[u].logins : u \in in} |->
                        Last(r, {u \in in : l \in users[u].logins})]
        /\ seen' = in
  BY DEF Restore
<1>4. ASSUME NEW u \in Stored \ in
      PROVE  \E v \in in : users[u].logins \cap users[v].logins \cap PhoneLogins # {}
  <2>1. PICK v \in in : r[v] < r[u] /\ Clash(u, v)
    BY <1>3
  <2>2. QED BY <1>1, <1>2, <2>1
<1>5. QED BY <1>3, <1>4

LEMMA RestoreUsersStep ==
  ASSUME UsersInv, UsersShape, NEW r \in Orders, Restore(r)
  PROVE  UsersInv'
<1>1. PICK in \in SUBSET Stored :
        /\ users' = [u \in in |-> users[u]] /\ seen' = in
        /\ byLogin' = [l \in UNION {users[u].logins : u \in in} |->
                        Last(r, {u \in in : l \in users[u].logins})]
  BY RestoreSkips
<1> DEFINE having(l) == {u \in in : l \in users[u].logins}
<1>2. Stored' = in /\ users' \in [Stored' -> User] /\ \A u \in in : users'[u] = users[u]
  BY <1>1 DEF Stored, UsersInv, LoginTyped
<1>3. /\ DOMAIN byLogin' = UNION {users[u].logins : u \in in}
      /\ \A l \in DOMAIN byLogin' : byLogin'[l] = Last(r, having(l))
  BY <1>1
<1>4. ASSUME NEW l \in DOMAIN byLogin' PROVE byLogin'[l] \in having(l)
  <2>1. having(l) \in SUBSET Stored /\ having(l) # {}
    BY <1>3
  <2>2. Cardinality(Stored) \in Nat /\ r \in [Stored -> 1..Cardinality(Stored)]
    BY FS_CardinalityType DEF UsersShape, Orders
  <2> HIDE DEF having
  <2>3. Last(r, having(l)) \in having(l)
    BY <2>1, <2>2, LastOf
  <2>4. QED BY <1>3, <2>3
<1>5. ASSUME NEW u \in in, NEW l \in users[u].logins \ PhoneLogins
      PROVE  l \in DOMAIN byLogin' /\ byLogin'[l] = u
  <2>1. l \in DOMAIN byLogin' /\ \A v \in in : l \in users[v].logins => v = u
    BY <1>3 DEF UsersInv, LoginIndexExact
  <2>2. QED BY <1>4, <2>1
<1>6. LoginIndexExact'
  BY <1>2, <1>4, <1>5 DEF LoginIndexExact
<1>7. LoginTyped'
  <2>1. byLogin' = [l \in DOMAIN byLogin' |-> byLogin'[l]]
    BY <1>1
  <2>2. \A l \in DOMAIN byLogin' : byLogin'[l] \in Uids
    BY <1>4 DEF UsersInv, LoginTyped
  <2>3. DOMAIN byLogin' \subseteq LoginIds \cup Phones
    BY <1>3 DEF UsersInv, LoginTyped, User
  <2>4. Stored' \subseteq Uids /\ Stored' \subseteq seen'
    BY <1>1, <1>2 DEF UsersInv, LoginTyped
  <2>5. byLogin' \in [DOMAIN byLogin' -> Uids]
    BY <2>1, <2>2
  <2>6. QED BY <1>2, <2>3, <2>4, <2>5 DEF LoginTyped
<1>8. QED BY <1>6, <1>7 DEF UsersInv

LEMMA UsersNextInv ==
  ASSUME UsersInv, UsersShape, [UsersNext]_userVars
  PROVE  UsersInv'
<1>1. CASE UNCHANGED userVars
  BY <1>1, UsersQuietStep DEF userVars, UsersInv, LoginTyped, Stored
<1>2. CASE Creating
  BY <1>2, InsertUserStep DEF Creating
<1>3. CASE Editing
  BY <1>3, UpdateUserStep, PatchStep, UpdatePhoneStep, RenameLoginStep DEF Editing
<1>4. CASE Deleting
  BY <1>4, RemoveUsersStep, ResetUsersStep DEF Deleting, DeleteByLoginId
<1>5. CASE Restoring
  BY <1>5, RestoreUsersStep DEF Restoring
<1>6. QED BY <1>1, <1>2, <1>3, <1>4, <1>5 DEF UsersNext

LEMMA UsersInvHolds == UsersSpec => []UsersInv
<1>1. UsersInv /\ UsersShape /\ [UsersNext]_userVars => UsersInv'
  BY UsersNextInv
<1>2. QED BY UsersInitInv, UsersShapeHolds, <1>1, PTL DEF UsersSpec

-----------------------------------------------------------------------------
(* The theorems *)

\* The login index of user_store.rs matches the users exactly, for every set of
\* users and identifiers, but for the phones update_phone registers in place.
THEOREM LoginIndexExactHolds == UsersSpec => []LoginIndexExact
<1>1. UsersInv => LoginIndexExact
  BY DEF UsersInv
<1>2. QED BY UsersInvHolds, <1>1, PTL

\* load finds whom a scan of the users would find, wherever the email index is
\* silent: the stale entries that patch and update leave in the phone index are
\* checked, and those of the login index are never stale.
THEOREM LookupIsCurrentHolds == UsersSpec => []LookupIsCurrent
<1>1. UsersInv => LookupIsCurrent
  <2> SUFFICES ASSUME LoginIndexExact, NEW x \in Ids \ PhoneLogins, Lower[x] \notin DOMAIN byEmail
               PROVE  /\ Resolve(x) \subseteq Described(x, {})
                      /\ Resolve(x) = {} => Described(x, PhoneLogins) = {}
    BY DEF UsersInv, LookupIsCurrent
  <2> DEFINE owners == {u \in Stored : x \in users[u].logins}
             named(ls) == {u \in Stored :
                             \E l \in users[u].logins \ ls : NameOf[Lower[l]] = Lower[x]}
             indexed == {byLogin[l] : l \in {k \in DOMAIN byLogin : NameOf[Lower[k]] = Lower[x]}}
  <2>1. \A ls : Described(x, ls) = IF owners # {} THEN owners
                                  ELSE IF WithPhone(x) # {} THEN WithPhone(x) ELSE named(ls)
    BY DEF Described
  <2>2. CASE x \in DOMAIN byLogin
    <3>1. Resolve(x) = {byLogin[x]} /\ byLogin[x] \in owners
      BY <2>2 DEF Resolve, LoginIndexExact
    <3>2. owners = {byLogin[x]}
      BY <2>2 DEF LoginIndexExact
    <3> HIDE DEF owners, named
    <3>3. QED BY <2>1, <3>1, <3>2
  <2>3. CASE x \notin DOMAIN byLogin
    <3>1. owners = {}
      BY <2>3 DEF LoginIndexExact
    <3>2. PhoneHit(x) \subseteq WithPhone(x)
      BY DEF PhoneHit, WithPhone
    <3>3. indexed \subseteq named({})
      BY DEF LoginIndexExact
    <3>4. named(PhoneLogins) \subseteq indexed
      BY DEF LoginIndexExact
    <3>5. Resolve(x) = IF PhoneHit(x) # {} THEN PhoneHit(x)
                       ELSE IF WithPhone(x) # {} THEN WithPhone(x) ELSE indexed
      BY <2>3 DEF Resolve
    <3> HIDE DEF named, owners, indexed
    <3>6. QED BY <2>1, <3>1, <3>2, <3>3, <3>4, <3>5
  <2>4. QED BY <2>2, <2>3
<1>2. QED BY UsersInvHolds, <1>1, PTL

\* restore(snapshot()) keeps every user as it was, whatever order the snapshot has
\* them in, but for one that has a phone in place which a user it keeps has too.
THEOREM RestoreLosesOnlySharedPhonesHolds == UsersSpec => RestoreLosesOnlySharedPhones
<1> DEFINE Keeps == /\ Stored' \subseteq Stored /\ \A u \in Stored' : users'[u] = users[u]
                    /\ \A u \in Stored \ Stored' : \E v \in Stored' :
                         users[u].logins \cap users[v].logins \cap PhoneLogins # {}
<1>1. ASSUME UsersInv, Restoring PROVE Keeps
  <2>1. PICK in \in SUBSET Stored :
          /\ users' = [u \in in |-> users[u]]
          /\ \A u \in Stored \ in : \E v \in in :
               users[u].logins \cap users[v].logins \cap PhoneLogins # {}
    BY <1>1, RestoreSkips DEF Restoring
  <2>2. Stored' = in
    BY <2>1 DEF Stored
  <2>3. QED BY <2>1, <2>2
<1>2. UsersInv /\ [UsersNext]_userVars => [Restoring => Keeps]_userVars
  BY <1>1
<1>3. QED BY UsersInvHolds, <1>2, PTL DEF RestoreLosesOnlySharedPhones, UsersSpec

-----------------------------------------------------------------------------
(***************************************************************************)
(* Tokens                                                                  *)
(***************************************************************************)

-----------------------------------------------------------------------------
(* What the sequence operators do to the elements of a queue *)

Distinct(s) == \A i, j \in 1..Len(s) : s[i] = s[j] => i = j

LEMMA AppendRange ==
  ASSUME NEW S, NEW s \in Seq(S), NEW x \in S
  PROVE  /\ Append(s, x) \in Seq(S)
         /\ Len(Append(s, x)) = Len(s) + 1
         /\ \A i \in 1..Len(s) : Append(s, x)[i] = s[i]
         /\ Append(s, x)[Len(s) + 1] = x
         /\ SeqRange(Append(s, x)) = SeqRange(s) \cup {x}
<1>1. /\ Append(s, x) \in Seq(S) /\ Len(Append(s, x)) = Len(s) + 1
      /\ \A i \in 1..Len(s) : Append(s, x)[i] = s[i]
      /\ Append(s, x)[Len(s) + 1] = x
  BY AppendProperties
<1>2. Len(s) \in Nat
  BY LenProperties
<1>3. \A i \in 1..(Len(s) + 1) : i \in 1..Len(s) \/ i = Len(s) + 1
  BY <1>2
<1>4. SeqRange(Append(s, x)) \subseteq SeqRange(s) \cup {x}
  BY <1>1, <1>3 DEF SeqRange
<1>5. SeqRange(s) \cup {x} \subseteq SeqRange(Append(s, x))
  <2>1. ASSUME NEW i \in 1..Len(s) PROVE s[i] \in SeqRange(Append(s, x))
    <3>1. i \in 1..Len(Append(s, x)) /\ Append(s, x)[i] = s[i]
      BY <1>1, <1>2
    <3>2. QED BY <3>1 DEF SeqRange
  <2>2. x \in SeqRange(Append(s, x))
    <3>1. Len(s) + 1 \in 1..Len(Append(s, x))
      BY <1>1, <1>2
    <3>2. QED BY <1>1, <3>1 DEF SeqRange
  <2>3. QED BY <2>1, <2>2 DEF SeqRange
<1>6. QED
  BY <1>1, <1>4, <1>5

LEMMA TailRange ==
  ASSUME NEW S, NEW s \in Seq(S), s # <<>>, Distinct(s)
  PROVE  /\ Tail(s) \in Seq(S) /\ Head(s) = s[1] /\ Head(s) \in S
         /\ Len(Tail(s)) = Len(s) - 1 /\ Len(s) > 0
         /\ \A i \in 1..Len(Tail(s)) : Tail(s)[i] = s[i + 1]
         /\ SeqRange(Tail(s)) = SeqRange(s) \ {Head(s)}
<1>1. /\ Head(s) \in S /\ Tail(s) \in Seq(S) /\ Len(Tail(s)) = Len(s) - 1
      /\ \A i \in 1..Len(Tail(s)) : Tail(s)[i] = s[i + 1]
  BY HeadTailProperties
<1>2. Len(s) \in Nat /\ Len(s) > 0 /\ Head(s) = s[1]
  BY LenProperties, EmptySeq
<1>3. \A i \in 1..Len(s) : i = 1 \/ (i - 1) \in 1..Len(Tail(s))
  BY <1>1, <1>2
<1>4. SeqRange(Tail(s)) \subseteq SeqRange(s) \ {Head(s)}
  <2> SUFFICES ASSUME NEW i \in 1..Len(Tail(s))
               PROVE  Tail(s)[i] \in SeqRange(s) \ {Head(s)}
    BY DEF SeqRange
  <2>1. i + 1 \in 1..Len(s) /\ 1 \in 1..Len(s) /\ Tail(s)[i] = s[i + 1] /\ i + 1 # 1
    BY <1>1, <1>2
  <2>2. QED BY <1>2, <2>1 DEF SeqRange, Distinct
<1>5. SeqRange(s) \ {Head(s)} \subseteq SeqRange(Tail(s))
  <2> SUFFICES ASSUME NEW i \in 1..Len(s), s[i] # Head(s)
               PROVE  s[i] \in SeqRange(Tail(s))
    BY DEF SeqRange
  <2>1. (i - 1) \in 1..Len(Tail(s)) /\ Tail(s)[i - 1] = s[i]
    BY <1>1, <1>2, <1>3
  <2>2. QED BY <2>1 DEF SeqRange
<1>6. QED BY <1>1, <1>2, <1>4, <1>5

\* Without(s, t) drops the one place where t stands and closes the gap.
LEMMA WithoutRange ==
  ASSUME NEW S, NEW s \in Seq(S), Distinct(s), NEW t \in SeqRange(s)
  PROVE  /\ Without(s, t) \in Seq(S)
         /\ Len(Without(s, t)) = Len(s) - 1
         /\ SeqRange(Without(s, t)) = SeqRange(s) \ {t}
         /\ \E k \in 1..Len(s) : \A i \in 1..Len(Without(s, t)) :
              /\ (i < k => Without(s, t)[i] = s[i])
              /\ (i >= k => Without(s, t)[i] = s[i + 1])
<1> DEFINE k == CHOOSE i \in 1..Len(s) : s[i] = t
           w == [i \in 1..(Len(s) - 1) |-> IF i < k THEN s[i] ELSE s[i + 1]]
<1>1. k \in 1..Len(s) /\ s[k] = t
  BY DEF SeqRange
<1>2. Len(s) \in Nat /\ \A i \in 1..Len(s) : s[i] \in S
  BY LenProperties, ElementOfSeq
<1>3. Without(s, t) = w
  BY DEF Without
<1> HIDE DEF k
<1>4. w \in [1..(Len(s) - 1) -> S] /\ Len(s) - 1 \in Nat
  BY <1>1, <1>2
<1>5. w \in Seq(S) /\ Len(w) = Len(s) - 1
  BY <1>4, IsASeq, LenProperties
<1>6. \A i \in 1..Len(w) : (i < k => w[i] = s[i]) /\ (i >= k => w[i] = s[i + 1])
  BY <1>1, <1>5
<1> HIDE DEF w
<1>7. SeqRange(w) \subseteq SeqRange(s) \ {t}
  <2> SUFFICES ASSUME NEW i \in 1..Len(w) PROVE w[i] \in SeqRange(s) \ {t}
    BY DEF SeqRange
  <2>1. PICK j \in 1..Len(s) : w[i] = s[j] /\ j # k
    BY <1>1, <1>2, <1>5, <1>6
  <2>2. QED BY <1>1, <2>1 DEF SeqRange, Distinct
<1>8. SeqRange(s) \ {t} \subseteq SeqRange(w)
  <2> SUFFICES ASSUME NEW j \in 1..Len(s), s[j] # t PROVE s[j] \in SeqRange(w)
    BY DEF SeqRange
  <2>1. CASE j < k
    <3>1. j \in 1..Len(w) /\ w[j] = s[j]
      BY <1>1, <1>2, <1>5, <1>6, <2>1
    <3>2. QED BY <3>1 DEF SeqRange
  <2>2. CASE j > k
    <3>1. (j - 1) \in 1..Len(w) /\ w[j - 1] = s[j]
      BY <1>1, <1>2, <1>5, <1>6, <2>2
    <3>2. QED BY <3>1 DEF SeqRange
  <2>3. QED BY <1>1, <2>1, <2>2
<1>9. QED BY <1>1, <1>3, <1>5, <1>6, <1>7, <1>8

-----------------------------------------------------------------------------
(* A queue s that lists the set S in the order of the serial numbers f: the  *)
(* element at place i has seen at least as many of the n issues as there are *)
(* elements behind it.                                                       *)

Ordered(s, f) == \A i, j \in 1..Len(s) : i < j => f[s[i]] < f[s[j]]
Aged(s, f, n) == \A i \in 1..Len(s) : f[s[i]] <= n - (Len(s) - i)

Lists(s, f, n, S) ==
  /\ SeqRange(s) = S
  /\ IsFiniteSet(S) /\ Cardinality(S) = Len(s)
  /\ Ordered(s, f)
  /\ Aged(s, f, n)

LEMMA ListsDistinct ==
  ASSUME NEW T, NEW s \in Seq(T), NEW f \in [T -> Nat], Ordered(s, f)
  PROVE  /\ Len(s) \in Nat /\ Distinct(s)
         /\ \A i \in 1..Len(s) : s[i] \in T /\ f[s[i]] \in Nat
<1>1. Len(s) \in Nat /\ \A i \in 1..Len(s) : s[i] \in T /\ f[s[i]] \in Nat
  BY LenProperties, ElementOfSeq
<1>2. SUFFICES ASSUME NEW i \in 1..Len(s), NEW j \in 1..Len(s), s[i] = s[j], i # j
               PROVE  FALSE
  BY <1>1 DEF Distinct
<1>3. i < j \/ j < i
  BY <1>1, <1>2
<1>4. f[s[i]] < f[s[j]] \/ f[s[j]] < f[s[i]]
  BY <1>3 DEF Ordered
<1>5. QED BY <1>1, <1>2, <1>4

LEMMA ListsTail ==
  ASSUME NEW T, NEW s \in Seq(T), NEW f \in [T -> Nat], NEW n \in Nat, NEW S,
         Lists(s, f, n, S), s # <<>>
  PROVE  /\ Tail(s) \in Seq(T) /\ Len(Tail(s)) = Len(s) - 1
         /\ Lists(Tail(s), f, n, S \ {Head(s)})
         /\ Head(s) \in S /\ \A x \in S : f[Head(s)] <= f[x]
         /\ \A x \in S : f[x] <= f[Head(s)] => x = Head(s)
         /\ f[Head(s)] <= n - (Len(s) - 1)
<1>1. /\ Len(s) \in Nat /\ Distinct(s)
      /\ \A i \in 1..Len(s) : s[i] \in T /\ f[s[i]] \in Nat
  BY ListsDistinct DEF Lists
<1>2. /\ Tail(s) \in Seq(T) /\ Head(s) = s[1] /\ Len(Tail(s)) = Len(s) - 1
      /\ Len(s) > 0 /\ SeqRange(Tail(s)) = S \ {Head(s)}
      /\ \A i \in 1..Len(Tail(s)) : Tail(s)[i] = s[i + 1]
  BY <1>1, TailRange DEF Lists
<1>3. Head(s) \in S /\ 1 \in 1..Len(s)
  BY <1>1, <1>2 DEF Lists, SeqRange
<1>4. IsFiniteSet(S \ {Head(s)}) /\ Cardinality(S \ {Head(s)}) = Len(Tail(s))
  BY <1>2, <1>3, FS_RemoveElement DEF Lists
<1>5. \A i \in 1..Len(Tail(s)) : i + 1 \in 1..Len(s) /\ Tail(s)[i] = s[i + 1]
  BY <1>1, <1>2
<1>6. Ordered(Tail(s), f)
  BY <1>1, <1>2, <1>5 DEF Lists, Ordered
<1>7. Aged(Tail(s), f, n)
  <2> SUFFICES ASSUME NEW i \in 1..Len(Tail(s))
               PROVE  f[Tail(s)[i]] <= n - (Len(Tail(s)) - i)
    BY DEF Aged
  <2>1. f[s[i + 1]] <= n - (Len(s) - (i + 1))
    BY <1>5 DEF Lists, Aged
  <2>2. n - (Len(s) - (i + 1)) = n - (Len(Tail(s)) - i)
    BY <1>1, <1>2
  <2>3. QED BY <1>5, <2>1, <2>2
<1>8. \A x \in S : x = Head(s) \/ f[Head(s)] < f[x]
  <2> SUFFICES ASSUME NEW i \in 1..Len(s) PROVE i = 1 \/ f[s[1]] < f[s[i]]
    BY <1>2 DEF Lists, SeqRange
  <2>1. QED BY <1>1, <1>3 DEF Lists, Ordered
<1>9. f[Head(s)] <= n - (Len(s) - 1)
  BY <1>2, <1>3 DEF Lists, Aged
<1>10. \A x \in S : f[x] \in Nat
  BY <1>1 DEF Lists, SeqRange
<1>11. QED
  BY <1>2, <1>3, <1>4, <1>6, <1>7, <1>8, <1>9, <1>10 DEF Lists

LEMMA ListsAppend ==
  ASSUME NEW T, NEW s \in Seq(T), NEW f \in [T -> Nat], NEW n \in Nat, NEW S,
         Lists(s, f, n, S), \A t \in T : f[t] <= n,
         NEW x \in T, x \notin S
  PROVE  /\ Append(s, x) \in Seq(T) /\ Len(Append(s, x)) = Len(s) + 1
         /\ Lists(Append(s, x), [f EXCEPT ![x] = n + 1], n + 1, S \cup {x})
<1> DEFINE q == Append(s, x)
           g == [f EXCEPT ![x] = n + 1]
<1>1. /\ Len(s) \in Nat /\ \A i \in 1..Len(s) : s[i] \in T /\ f[s[i]] \in Nat
  BY ListsDistinct DEF Lists
<1>2. /\ q \in Seq(T) /\ Len(q) = Len(s) + 1
      /\ \A i \in 1..Len(s) : q[i] = s[i]
      /\ q[Len(s) + 1] = x
      /\ SeqRange(q) = S \cup {x}
  BY AppendRange DEF Lists
<1>3. IsFiniteSet(S \cup {x}) /\ Cardinality(S \cup {x}) = Len(q)
  BY <1>2, FS_AddElement DEF Lists
<1>4. \A i \in 1..Len(s) : s[i] # x /\ g[q[i]] = f[s[i]] /\ f[s[i]] <= n
  BY <1>1, <1>2 DEF Lists, SeqRange
<1>5. g[q[Len(s) + 1]] = n + 1
  BY <1>2
<1> HIDE DEF q, g
<1>6. \A i \in 1..Len(q) : i \in 1..Len(s) \/ i = Len(s) + 1
  BY <1>1, <1>2
<1>7. Ordered(q, g)
  <2> SUFFICES ASSUME NEW i \in 1..Len(q), NEW j \in 1..Len(q), i < j
               PROVE  g[q[i]] < g[q[j]]
    BY DEF Ordered
  <2>1. i \in 1..Len(s)
    BY <1>1, <1>2, <1>6
  <2>2. CASE j \in 1..Len(s)
    BY <1>4, <2>1, <2>2 DEF Lists, Ordered
  <2>3. CASE j = Len(s) + 1
    BY <1>1, <1>4, <1>5, <2>1, <2>3
  <2>4. QED BY <1>6, <2>2, <2>3
<1>8. Aged(q, g, n + 1)
  <2> SUFFICES ASSUME NEW i \in 1..Len(q)
               PROVE  g[q[i]] <= (n + 1) - (Len(q) - i)
    BY DEF Aged
  <2>1. CASE i \in 1..Len(s)
    <3>1. f[s[i]] <= n - (Len(s) - i)
      BY <2>1 DEF Lists, Aged
    <3>2. n - (Len(s) - i) = (n + 1) - (Len(q) - i)
      BY <1>1, <1>2, <2>1
    <3>3. QED BY <1>4, <2>1, <3>1, <3>2
  <2>2. CASE i = Len(s) + 1
    BY <1>1, <1>2, <1>5, <2>2
  <2>3. QED BY <1>6, <2>1, <2>2
<1>9. Lists(q, g, n + 1, S \cup {x})
  BY <1>2, <1>3, <1>7, <1>8 DEF Lists
<1>10. QED BY <1>2, <1>9 DEF q, g

LEMMA ListsWithout ==
  ASSUME NEW T, NEW s \in Seq(T), NEW f \in [T -> Nat], NEW n \in Nat, NEW S,
         Lists(s, f, n, S), NEW x \in S
  PROVE  /\ Without(s, x) \in Seq(T) /\ Len(Without(s, x)) = Len(s) - 1
         /\ Lists(Without(s, x), f, n, S \ {x})
<1>1. Len(s) \in Nat /\ Distinct(s)
  BY ListsDistinct DEF Lists
<1>2. SeqRange(s) = S
  BY DEF Lists
<1>3. /\ Without(s, x) \in Seq(T) /\ Len(Without(s, x)) = Len(s) - 1
      /\ SeqRange(Without(s, x)) = S \ {x}
  BY <1>1, <1>2, WithoutRange
<1>4. PICK k \in 1..Len(s) : \A i \in 1..Len(Without(s, x)) :
        /\ (i < k => Without(s, x)[i] = s[i])
        /\ (i >= k => Without(s, x)[i] = s[i + 1])
  BY <1>1, <1>2, WithoutRange
<1>5. PICK w : w = Without(s, x)
  OBVIOUS
<1>6. w \in Seq(T) /\ Len(w) = Len(s) - 1 /\ SeqRange(w) = S \ {x}
  BY <1>3, <1>5
<1>7. IsFiniteSet(S \ {x}) /\ Cardinality(S \ {x}) = Len(w)
  BY <1>6, FS_RemoveElement DEF Lists
\* Where the element at place i of w stood in s.
<1>8. ASSUME NEW i \in 1..Len(w)
      PROVE  \E j \in 1..Len(s) : w[i] = s[j] /\ (((i < k) /\ j = i) \/ ((i >= k) /\ j = i + 1))
  <2>1. i \in 1..Len(s) /\ i + 1 \in 1..Len(s)
    BY <1>1, <1>6
  <2>2. (i < k => w[i] = s[i]) /\ (i >= k => w[i] = s[i + 1])
    BY <1>4, <1>5
  <2>3. i < k \/ i >= k
    BY <1>1, <1>6
  <2>4. CASE i < k
    BY <2>1, <2>2, <2>4
  <2>5. CASE i >= k
    BY <2>1, <2>2, <2>5
  <2>6. QED BY <2>3, <2>4, <2>5
<1>9. Ordered(w, f)
  <2> SUFFICES ASSUME NEW i \in 1..Len(w), NEW j \in 1..Len(w), i < j
               PROVE  f[w[i]] < f[w[j]]
    BY DEF Ordered
  <2>1. PICK a \in 1..Len(s) : w[i] = s[a] /\ (((i < k) /\ a = i) \/ ((i >= k) /\ a = i + 1))
    BY <1>8
  <2>2. PICK b \in 1..Len(s) : w[j] = s[b] /\ (((j < k) /\ b = j) \/ ((j >= k) /\ b = j + 1))
    BY <1>8
  <2>3. a < b
    <3>1. i \in Int /\ j \in Int /\ k \in Int
      BY <1>1, <1>6
    <3>2. (i < k /\ a = i) \/ (i >= k /\ a = i + 1)
      BY <2>1
    <3>3. (j < k /\ b = j) \/ (j >= k /\ b = j + 1)
      BY <2>2
    <3>4. QED BY <3>1, <3>2, <3>3
  <2>4. f[s[a]] < f[s[b]]
    BY <2>3 DEF Lists, Ordered
  <2>5. QED BY <2>1, <2>2, <2>4
<1>10. Aged(w, f, n)
  <2> SUFFICES ASSUME NEW i \in 1..Len(w) PROVE f[w[i]] <= n - (Len(w) - i)
    BY DEF Aged
  <2>1. PICK j \in 1..Len(s) : w[i] = s[j] /\ (j = i \/ j = i + 1)
    BY <1>8
  <2>2. f[s[j]] \in Nat /\ f[s[j]] <= n - (Len(s) - j)
    BY ListsDistinct DEF Lists, Aged
  <2>3. n - (Len(s) - j) <= n - (Len(w) - i)
    <3>1. i \in Int /\ j \in Int /\ n \in Int /\ Len(s) \in Int /\ Len(w) = Len(s) - 1
      BY <1>1, <1>6
    <3>2. j <= i + 1
      BY <2>1, <3>1
    <3>3. QED BY <3>1, <3>2
  <2>4. n - (Len(s) - j) \in Int /\ n - (Len(w) - i) \in Int
    BY <1>1, <1>6
  <2>5. f[s[j]] <= n - (Len(w) - i)
    BY <2>2, <2>3, <2>4
  <2>6. QED BY <2>1, <2>5
<1>11. QED BY <1>3, <1>5, <1>6, <1>7, <1>9, <1>10 DEF Lists

-----------------------------------------------------------------------------
(* The inductive invariant *)

\* The queue lists the stored tokens in issue order.
QueueInv == Lists(order, serial, count, Held)

\* A stored token was issued to its owner and has met no redeemer; a redeemer
\* past the store holds the owner of the token it presented.
HistoryInv ==
  /\ \A t \in Tokens : serial[t] <= count
  /\ \A t \in Held : serial[t] > 0 /\ entries[t] = owner[t] /\ Redeemers[t] = {}
  /\ \A r \in Redemptions : pc[r] \in Consumed =>
       code[r] \in Tokens /\ serial[code[r]] > 0 /\ subj[r] = {owner[code[r]]}

TokensInv == TokensTypeOK /\ QueueInv /\ HistoryInv

LEMMA QueueMatches == QueueInv => QueueMatchesMap
BY DEF QueueInv, Lists, Ordered, QueueMatchesMap

LEMMA AtCapacity ==
  ASSUME TokensTypeOK, QueueInv
  PROVE  /\ Len(order) \in Nat
         /\ Evicted = {} => Len(order) < Cap
         /\ Evicted # {} => order # <<>> /\ Evicted = {Head(order)} /\ Len(order) = Cap
<1>1. Len(order) \in Nat /\ Cardinality(Held) = Len(order) /\ Len(order) <= Cap
      /\ (order = <<>> => Len(order) = 0)
  BY LenProperties, EmptySeq DEF TokensTypeOK, QueueInv, Lists
<1>2. QED
  BY <1>1, TokenStoreAssumption DEF Evicted, AtCap

\* insert: at most the head of the queue, the oldest stored token, makes room
\* for a token never issued before.
LEMMA InsertTokenStep ==
  ASSUME TokensInv, NEW t \in Tokens, NEW o \in Owners, serial[t] = 0, InsertToken(t, o),
         count' = count + 1, serial' = [serial EXCEPT ![t] = count + 1]
  PROVE  /\ QueueInv'
         /\ entries' \in [Held' -> Owners] /\ Held' \in SUBSET Tokens
         /\ order' \in Seq(Tokens) /\ Len(order') <= Cap
         /\ Held' = (Held \ Evicted) \cup {t} /\ t \notin Held
         /\ entries'[t] = o /\ \A x \in Held \ Evicted : entries'[x] = entries[x]
<1> USE DEF TokensInv
<1>1. /\ Len(order) \in Nat
      /\ Evicted = {} => Len(order) < Cap
      /\ Evicted # {} => order # <<>> /\ Evicted = {Head(order)} /\ Len(order) = Cap
  BY AtCapacity
<1>2. t \notin Held
  BY DEF HistoryInv
<1>3. order \in Seq(Tokens) /\ serial \in [Tokens -> Nat] /\ count \in Nat
      /\ Held \in SUBSET Tokens /\ entries \in [Held -> Owners]
  BY DEF TokensTypeOK
<1>4. PICK kept : kept = IF Evicted = {} THEN order ELSE Tail(order)
  OBVIOUS
<1>5. /\ kept \in Seq(Tokens) /\ Len(kept) < Cap /\ Len(kept) \in Nat
      /\ Lists(kept, serial, count, Held \ Evicted)
  <2>1. CASE Evicted = {}
    <3>1. kept = order /\ Held \ Evicted = Held
      BY <1>4, <2>1
    <3>2. QED BY <1>1, <1>3, <2>1, <3>1 DEF QueueInv
  <2>2. CASE Evicted # {}
    <3>1. kept = Tail(order) /\ order # <<>> /\ Evicted = {Head(order)} /\ Len(order) = Cap
      BY <1>1, <1>4, <2>2
    <3>2. /\ Tail(order) \in Seq(Tokens) /\ Len(Tail(order)) = Len(order) - 1
          /\ Lists(Tail(order), serial, count, Held \ {Head(order)})
      BY <1>3, <3>1, ListsTail DEF QueueInv
    <3>3. Len(Tail(order)) \in Nat
      BY <3>2, LenProperties
    <3>4. QED BY <1>1, <3>1, <3>2, <3>3
  <2>3. QED BY <2>1, <2>2
<1>6. \A x \in Tokens : serial[x] <= count
  BY DEF HistoryInv
<1>7. t \notin Held \ Evicted
  BY <1>2
<1>8. /\ Append(kept, t) \in Seq(Tokens) /\ Len(Append(kept, t)) = Len(kept) + 1
      /\ Lists(Append(kept, t), [serial EXCEPT ![t] = count + 1], count + 1,
               (Held \ Evicted) \cup {t})
  <2> HIDE DEF TokensInv
  <2>1. QED BY <1>3, <1>5, <1>6, <1>7, ListsAppend
<1>9. /\ entries' = [x \in (Held \ Evicted) \cup {t} |-> IF x = t THEN o ELSE entries[x]]
      /\ order' = Append(kept, t)
  BY <1>4 DEF InsertToken
<1>10. Held' = (Held \ Evicted) \cup {t}
  BY <1>9 DEF Held
<1>11. /\ entries' \in [Held' -> Owners] /\ Held' \in SUBSET Tokens
       /\ entries'[t] = o /\ \A x \in Held \ Evicted : entries'[x] = entries[x]
  BY <1>2, <1>3, <1>9, <1>10
<1>12. QueueInv'
  BY <1>8, <1>9, <1>10 DEF QueueInv
<1>13. Len(order') <= Cap
  BY <1>5, <1>8, <1>9, TokenStoreAssumption
<1>14. QED
  BY <1>2, <1>8, <1>9, <1>10, <1>11, <1>12, <1>13

\* consume: the token leaves the map and the queue.
LEMMA ConsumeStep ==
  ASSUME TokensInv, NEW t \in Held, Consume(t), UNCHANGED <<count, serial>>
  PROVE  /\ QueueInv'
         /\ entries' \in [Held' -> Owners]
         /\ order' \in Seq(Tokens) /\ Len(order') <= Cap
         /\ Held' = Held \ {t}
         /\ \A x \in Held' : entries'[x] = entries[x]
<1> USE DEF TokensInv
<1>1. order \in Seq(Tokens) /\ serial \in [Tokens -> Nat] /\ count \in Nat
      /\ entries \in [Held -> Owners] /\ Len(order) <= Cap /\ Len(order) \in Nat
  BY LenProperties DEF TokensTypeOK
<1>2. order' = Without(order, t) /\ entries' = [x \in Held \ {t} |-> entries[x]]
  BY DEF Consume, Remaining
<1>3. Held' = Held \ {t}
  BY <1>2 DEF Held
<1>4. /\ Without(order, t) \in Seq(Tokens) /\ Len(Without(order, t)) = Len(order) - 1
      /\ Lists(Without(order, t), serial, count, Held \ {t})
  BY <1>1, ListsWithout DEF QueueInv
<1>5. QueueInv'
  BY <1>2, <1>3, <1>4 DEF QueueInv
<1>6. Len(order') <= Cap
  BY <1>1, <1>2, <1>4, TokenStoreAssumption
<1>7. QED
  BY <1>1, <1>2, <1>3, <1>4, <1>5, <1>6

-----------------------------------------------------------------------------
(* Every step keeps the invariant *)

LEMMA TokensInitInv == TokensInit => TokensInv
<1> SUFFICES ASSUME TokensInit PROVE TokensInv
  OBVIOUS
<1>1. Held = {} /\ order = <<>> /\ Len(order) = 0 /\ order \in Seq(Tokens)
  BY EmptySeq DEF TokensInit, Held
<1>2. TokensTypeOK
  BY <1>1, TokenStoreAssumption DEF TokensInit, TokensTypeOK, Owners, Steps, Consumed
<1>3. QueueInv
  BY <1>1, FS_EmptySet DEF QueueInv, Lists, SeqRange, Ordered, Aged
<1>4. HistoryInv
  BY <1>1 DEF TokensInit, HistoryInv, Consumed
<1>5. QED BY <1>2, <1>3, <1>4 DEF TokensInv

\* Steps that leave the store and the tokens alone and move at most one
\* redeemer that is past the store.
LEMMA TokensQuietStep ==
  ASSUME TokensInv, UNCHANGED <<tokenStore, code, subj, history>>,
         \/ pc' = pc
         \/ \E r \in Redemptions : \E s \in Consumed :
              pc[r] \in Consumed /\ pc' = [pc EXCEPT ![r] = s],
         status' \in [Users -> {"enabled", "disabled", "absent"}],
         resets' \in Nat, issuing' \in [Issuers -> SUBSET Owners]
  PROVE  TokensInv' /\ Redeemers' = Redeemers /\ Lost' = Lost
<1> USE DEF TokensInv, tokenStore, history
<1>1. pc' \in [Redemptions -> Steps] /\ \A r \in Redemptions : pc'[r] \in Consumed <=> pc[r] \in Consumed
  BY DEF TokensTypeOK, Steps
<1>2. Redeemers' = Redeemers
  BY <1>1 DEF Redeemers
<1>3. Held' = Held
  BY DEF Held
<1>4. Lost' = Lost
  BY <1>2, <1>3 DEF Lost
<1>5. TokensTypeOK'
  BY <1>1, <1>3 DEF TokensTypeOK
<1>6. QueueInv'
  BY <1>3 DEF QueueInv
<1>7. HistoryInv'
  BY <1>1, <1>2, <1>3 DEF HistoryInv
<1>8. QED BY <1>2, <1>4, <1>5, <1>6, <1>7

LEMMA IssueStep ==
  ASSUME TokensInv, NEW i \in Issuers, NEW t \in Tokens, IssueToken(i, t)
  PROVE  /\ TokensInv' /\ Redeemers' = Redeemers
         /\ Held' = (Held \ Evicted) \cup {t} /\ t \notin Held
<1> USE DEF TokensInv
<1>1. PICK o \in issuing[i] : InsertToken(t, o) /\ owner' = [owner EXCEPT ![t] = o]
  BY DEF IssueToken
<1>2. /\ o \in Owners /\ serial[t] = 0 /\ count' = count + 1
      /\ serial' = [serial EXCEPT ![t] = count + 1]
      /\ issuing' = [issuing EXCEPT ![i] = {}]
      /\ UNCHANGED <<status, resets, pc, code, subj>>
  BY <1>1 DEF IssueToken, TokensTypeOK, redeem
<1>3. /\ QueueInv'
      /\ entries' \in [Held' -> Owners] /\ Held' \in SUBSET Tokens
      /\ order' \in Seq(Tokens) /\ Len(order') <= Cap
      /\ Held' = (Held \ Evicted) \cup {t} /\ t \notin Held
      /\ entries'[t] = o /\ \A x \in Held \ Evicted : entries'[x] = entries[x]
  BY <1>1, <1>2, InsertTokenStep
<1>4. Redeemers' = Redeemers
  BY <1>2 DEF Redeemers
<1>5. TokensTypeOK'
  BY <1>1, <1>2, <1>3 DEF TokensTypeOK
<1>6. Redeemers[t] = {}
  BY <1>2 DEF Redeemers, HistoryInv
<1>7. HistoryInv'
  <2>1. \A x \in Tokens : serial'[x] <= count'
    BY <1>2 DEF HistoryInv, TokensTypeOK
  <2>2. ASSUME NEW x \in Held'
        PROVE  serial'[x] > 0 /\ entries'[x] = owner'[x] /\ Redeemers'[x] = {}
    <3>1. CASE x = t
      BY <1>1, <1>2, <1>3, <1>4, <1>6, <3>1 DEF TokensTypeOK
    <3>2. CASE x # t
      BY <1>1, <1>2, <1>3, <1>4, <3>2 DEF HistoryInv, TokensTypeOK
    <3>3. QED BY <3>1, <3>2
  <2>3. ASSUME NEW r \in Redemptions, pc'[r] \in Consumed
        PROVE  code'[r] \in Tokens /\ serial'[code'[r]] > 0 /\ subj'[r] = {owner'[code'[r]]}
    <3>1. code[r] \in Tokens /\ serial[code[r]] > 0 /\ subj[r] = {owner[code[r]]}
      BY <1>2, <2>3 DEF HistoryInv
    <3>2. code[r] # t
      BY <1>2, <3>1
    <3>3. QED BY <1>1, <1>2, <3>1, <3>2 DEF TokensTypeOK
  <2>4. QED BY <2>1, <2>2, <2>3 DEF HistoryInv
<1>8. QED BY <1>3, <1>4, <1>5, <1>7

LEMMA RedeemStep ==
  ASSUME TokensInv, NEW r \in Redemptions, NEW t \in Tokens, NEW s \in {"load", "setPassword"},
         Present(r, t, s), t \in Held
  PROVE  /\ TokensInv' /\ Held' = Held \ {t}
         /\ Redeemers' = [Redeemers EXCEPT ![t] = {r}]
<1> USE DEF TokensInv
<1>1. /\ Consume(t) /\ UNCHANGED <<status, resets, issuing, count, serial, owner>>
      /\ pc[r] = "idle" /\ pc' = [pc EXCEPT ![r] = s] /\ serial[t] > 0
      /\ code' = [code EXCEPT ![r] = t] /\ subj' = [subj EXCEPT ![r] = {entries[t]}]
  BY DEF Present, Goto, history
<1>2. /\ QueueInv' /\ entries' \in [Held' -> Owners]
      /\ order' \in Seq(Tokens) /\ Len(order') <= Cap
      /\ Held' = Held \ {t} /\ \A x \in Held' : entries'[x] = entries[x]
  BY <1>1, ConsumeStep
<1>3. s \in Consumed /\ s \in Steps /\ "idle" \notin Consumed
  BY DEF Consumed, Steps
<1>4. \A q \in Redemptions : /\ q # r => pc'[q] = pc[q] /\ code'[q] = code[q] /\ subj'[q] = subj[q]
                      /\ q = r => pc'[q] = s /\ code'[q] = t /\ subj'[q] = {entries[t]}
  BY <1>1 DEF TokensTypeOK
<1>5. Redeemers[t] = {} /\ entries[t] = owner[t] /\ entries[t] \in Owners
  BY DEF HistoryInv, TokensTypeOK
<1>6. ASSUME NEW x \in Tokens
      PROVE  Redeemers'[x] = IF x = t THEN {r} ELSE Redeemers[x]
  BY <1>1, <1>3, <1>4, <1>5 DEF Redeemers
<1>7. Redeemers' = [Redeemers EXCEPT ![t] = {r}]
  BY <1>6 DEF Redeemers
<1>8. TokensTypeOK'
  BY <1>1, <1>2, <1>3, <1>5 DEF TokensTypeOK
<1>9. HistoryInv'
  <2>1. \A x \in Held' : x \in Held /\ x \in Tokens /\ x # t
    BY <1>2 DEF TokensTypeOK
  <2>2. \A x \in Held' : serial'[x] > 0 /\ entries'[x] = owner'[x] /\ Redeemers'[x] = {}
    BY <1>1, <1>2, <1>6, <2>1 DEF HistoryInv
  <2>3. \A q \in Redemptions : pc'[q] \in Consumed =>
          code'[q] \in Tokens /\ serial'[code'[q]] > 0 /\ subj'[q] = {owner'[code'[q]]}
    BY <1>1, <1>4, <1>5 DEF HistoryInv
  <2>4. QED BY <1>1, <2>2, <2>3 DEF HistoryInv
<1>10. QED BY <1>2, <1>7, <1>8, <1>9

LEMMA RefusedStep ==
  ASSUME TokensInv, NEW r \in Redemptions, NEW t \in Tokens, NEW s \in {"load", "setPassword"},
         Present(r, t, s), t \notin Held
  PROVE  TokensInv' /\ Redeemers' = Redeemers /\ Lost' = Lost
<1> USE DEF TokensInv
<1>1. /\ UNCHANGED <<entries, order, status, resets, issuing, subj, count, serial, owner>>
      /\ pc[r] = "idle" /\ pc' = [pc EXCEPT ![r] = "invalid"]
      /\ code' = [code EXCEPT ![r] = t]
  BY DEF Present, Goto, history, tokenStore
<1>2. "invalid" \notin Consumed /\ "invalid" \in Steps /\ "idle" \notin Consumed
  BY DEF Consumed, Steps
<1>3. \A q \in Redemptions : pc'[q] \in Consumed => pc[q] \in Consumed /\ code'[q] = code[q]
  BY <1>1, <1>2 DEF TokensTypeOK
<1>4. \A q \in Redemptions : pc[q] \in Consumed => pc'[q] \in Consumed /\ code'[q] = code[q]
  BY <1>1, <1>2 DEF TokensTypeOK
<1>5. Redeemers' = Redeemers
  BY <1>3, <1>4 DEF Redeemers
<1>6. Held' = Held
  BY <1>1 DEF Held
<1>7. Lost' = Lost
  BY <1>1, <1>5, <1>6 DEF Lost
<1>8. TokensTypeOK'
  BY <1>1, <1>2, <1>6 DEF TokensTypeOK
<1>9. QueueInv' /\ HistoryInv'
  BY <1>1, <1>3, <1>5, <1>6 DEF QueueInv, HistoryInv
<1>10. QED BY <1>5, <1>7, <1>8, <1>9

-----------------------------------------------------------------------------
(* The steps of TokenStore as steps of OneTimeTokens *)

LEMMA LiveIsStored == TokensInv => OneTime!Live = Held
BY DEF TokensInv, TokensTypeOK, HistoryInv, Lost, Held, OneTime!Live, OneTime!Issued

\* What insert evicts is what OneTimeTokens gives up.
LEMMA EvictsOldest ==
  ASSUME TokensInv
  PROVE  Evicted = IF Cardinality(OneTime!Live) >= Cap THEN OneTime!Oldest ELSE {}
<1> USE DEF TokensInv
<1>1. /\ Len(order) \in Nat
      /\ Evicted = {} => Len(order) < Cap
      /\ Evicted # {} => order # <<>> /\ Evicted = {Head(order)} /\ Len(order) = Cap
  BY AtCapacity
<1>2. Cardinality(OneTime!Live) = Len(order)
  BY LiveIsStored DEF QueueInv, Lists
<1>3. CASE Evicted = {}
  BY <1>1, <1>2, <1>3, TokenStoreAssumption
<1>4. CASE Evicted # {}
  <2>1. order # <<>> /\ Evicted = {Head(order)} /\ Cardinality(OneTime!Live) >= Cap
    BY <1>1, <1>2, <1>4, TokenStoreAssumption
  <2>2. /\ Head(order) \in Held /\ \A x \in Held : serial[Head(order)] <= serial[x]
        /\ \A x \in Held : serial[x] <= serial[Head(order)] => x = Head(order)
    BY <2>1, ListsTail DEF TokensTypeOK, QueueInv
  <2>3. OneTime!Oldest = {t \in Held : \A u \in Held : serial[t] <= serial[u]}
    BY LiveIsStored DEF OneTime!Oldest
  <2>4. OneTime!Oldest = {Head(order)}
    BY <2>2, <2>3
  <2>5. QED BY <2>1, <2>4
<1>5. QED BY <1>3, <1>4

LEMMA IssueRefines ==
  ASSUME TokensInv, NEW i \in Issuers, NEW t \in Tokens, IssueToken(i, t)
  PROVE  TokensInv' /\ OneTime!Issue(t)
<1>1. /\ TokensInv' /\ Redeemers' = Redeemers
      /\ Held' = (Held \ Evicted) \cup {t} /\ t \notin Held
  BY IssueStep
<1>2. /\ serial[t] = 0 /\ count' = count + 1
      /\ serial' = [serial EXCEPT ![t] = count + 1]
  BY DEF IssueToken
<1>3. Evicted \subseteq Held /\ Held \subseteq Tokens
  <2>1. Held \subseteq Tokens
    BY DEF TokensInv, TokensTypeOK
  <2>2. OneTime!Oldest \subseteq Held
    BY LiveIsStored DEF OneTime!Oldest
  <2>3. QED BY <2>1, <2>2, EvictsOldest
<1>4. Lost' = Lost \cup Evicted
  <2>1. \A x \in Tokens : serial'[x] > 0 <=> serial[x] > 0 \/ x = t
    BY <1>2 DEF TokensInv, TokensTypeOK
  <2>2. \A x \in Evicted : serial[x] > 0 /\ Redeemers[x] = {} /\ x # t
    BY <1>1, <1>3 DEF TokensInv, HistoryInv
  <2>3. \A x \in Tokens : x \in Lost' <=> x \in Lost \/ x \in Evicted
    BY <1>1, <1>2, <2>1, <2>2 DEF Lost
  <2>4. Lost' \subseteq Tokens /\ Lost \subseteq Tokens
    BY DEF Lost
  <2>5. QED BY <1>3, <2>3, <2>4
<1>5. Lost' = Lost \cup (IF Cardinality(OneTime!Live) >= Cap THEN OneTime!Oldest ELSE {})
  BY <1>4, EvictsOldest
<1>6. QED
  BY <1>1, <1>2, <1>5 DEF OneTime!Issue, OneTime!Cardinality, Cardinality

LEMMA RedeemRefines ==
  ASSUME TokensInv, NEW r \in Redemptions, NEW t \in Tokens, NEW s \in {"load", "setPassword"},
         Present(r, t, s), t \in Held
  PROVE  TokensInv' /\ OneTime!Redeem(t, r)
<1>1. /\ TokensInv' /\ Held' = Held \ {t}
      /\ Redeemers' = [Redeemers EXCEPT ![t] = {r}]
  BY RedeemStep
<1>2. UNCHANGED <<count, serial>>
  BY DEF Present, history
<1>3. Lost' = Lost
  <2>1. Redeemers'[t] = {r} /\ \A x \in Tokens : x # t => Redeemers'[x] = Redeemers[x]
    BY <1>1 DEF Redeemers
  <2>2. \A x \in Tokens : x \in Lost' <=> x \in Lost
    BY <1>1, <1>2, <2>1 DEF Lost
  <2>3. QED BY <2>2 DEF Lost
<1>4. QED
  BY <1>1, <1>2, <1>3, LiveIsStored DEF OneTime!Redeem

LEMMA StepRefines ==
  TokensInv /\ [TokensNext]_tokenVars => TokensInv' /\ [OneTime!Next]_(OneTime!vars)
<1> SUFFICES ASSUME TokensInv, [TokensNext]_tokenVars
             PROVE  TokensInv' /\ (OneTime!Next \/ UNCHANGED OneTime!vars)
  OBVIOUS
<1> DEFINE Still == UNCHANGED <<count, serial>> /\ Redeemers' = Redeemers /\ Lost' = Lost
<1>1. Still => UNCHANGED OneTime!vars
  BY DEF OneTime!vars
<1>2. ASSUME NEW i \in Issuers, NEW u \in Users, LookUp(i, u) PROVE TokensInv' /\ Still
  BY <1>2, TokensQuietStep DEF LookUp, redeem, history, TokensInv, TokensTypeOK, Owners
<1>3. ASSUME NEW i \in Issuers, NEW u \in Users, SignUp(i, u) PROVE TokensInv' /\ Still
  BY <1>3, TokensQuietStep DEF SignUp, redeem, history, TokensInv, TokensTypeOK, Owners
<1>4. ASSUME NEW i \in Issuers, LookUpTenant(i) PROVE TokensInv' /\ Still
  BY <1>4, TokensQuietStep DEF LookUpTenant, redeem, history, TokensInv, TokensTypeOK, Owners
<1>5. ASSUME NEW i \in Issuers, NEW t \in Tokens, IssueToken(i, t)
      PROVE  TokensInv' /\ OneTime!Next
  BY <1>5, IssueRefines DEF OneTime!Next
<1>6. ASSUME NEW r \in Redemptions, NEW t \in Tokens, NEW s \in {"load", "setPassword"},
             Present(r, t, s)
      PROVE  TokensInv' /\ (OneTime!Next \/ Still)
  <2>1. CASE t \in Held
    BY <1>6, <2>1, RedeemRefines DEF OneTime!Next
  <2>2. CASE t \notin Held
    BY <1>6, <2>2, RefusedStep DEF Present, history
  <2>3. QED BY <2>1, <2>2
<1>7. ASSUME NEW r \in Redemptions, LoadUser(r) PROVE TokensInv' /\ Still
  BY <1>7, TokensQuietStep DEF LoadUser, Goto, history, TokensInv, TokensTypeOK, Consumed
<1>8. ASSUME NEW r \in Redemptions, Mint(r) PROVE TokensInv' /\ Still
  BY <1>8, TokensQuietStep DEF Mint, Goto, history, TokensInv, TokensTypeOK, Consumed
<1>9. ASSUME NEW r \in Redemptions, RecordLogin(r) PROVE TokensInv' /\ Still
  BY <1>9, TokensQuietStep DEF RecordLogin, Goto, history, TokensInv, TokensTypeOK, Consumed
<1>10. ASSUME NEW r \in Redemptions, NEW u \in Users, SetPassword(r, u) PROVE TokensInv' /\ Still
  BY <1>10, TokensQuietStep DEF SetPassword, Goto, history, TokensInv, TokensTypeOK, Consumed
<1>11. ASSUME NEW u \in Users, NEW s \in {"enabled", "disabled", "absent"}, SetStatus(u, s)
       PROVE  TokensInv' /\ Still
  BY <1>11, TokensQuietStep DEF SetStatus, redeem, history, TokensInv, TokensTypeOK
<1>12. CASE ResetStores
  <2>1. TokensInv' /\ Still
    BY <1>12, TokensQuietStep DEF ResetStores, AfterReset, redeem, history, TokensInv, TokensTypeOK
  <2>2. QED BY <1>1, <2>1
<1>13. CASE UNCHANGED tokenVars
  <2>1. TokensInv' /\ Still
    BY <1>13, TokensQuietStep DEF tokenVars, redeem, history, TokensInv, TokensTypeOK
  <2>2. QED BY <1>1, <2>1
<1>14. QED
  BY <1>1, <1>2, <1>3, <1>4, <1>5, <1>6, <1>7, <1>8, <1>9, <1>10, <1>11, <1>12, <1>13
     DEF TokensNext, Issuing, Redeeming, Managing

LEMMA InitRefines == TokensInit => OneTime!Init
<1> SUFFICES ASSUME TokensInit PROVE OneTime!Init
  OBVIOUS
<1>1. Redeemers = [t \in Tokens |-> {}]
  BY DEF TokensInit, Redeemers, Consumed
<1>2. Lost = {}
  BY DEF TokensInit, Lost
<1>3. QED BY <1>1, <1>2 DEF TokensInit, OneTime!Init

-----------------------------------------------------------------------------
(* Pressure and minting *)

\* A step gives up at most the evicted token.
LEMMA LossStep ==
  ASSUME TokensInv, LostOnlyUnderPressure, [TokensNext]_tokenVars
  PROVE  LostOnlyUnderPressure'
<1>1. ASSUME NEW i \in Issuers, NEW t \in Tokens, IssueToken(i, t)
      PROVE  LostOnlyUnderPressure'
  <2>1. /\ TokensInv' /\ Redeemers' = Redeemers
        /\ Held' = (Held \ Evicted) \cup {t}
    BY <1>1, IssueStep
  <2>2. count' = count + 1 /\ serial' = [serial EXCEPT ![t] = count + 1]
    BY <1>1 DEF IssueToken
  <2>3. SUFFICES ASSUME NEW x \in Tokens, x \in Lost'
                 PROVE  count' - serial'[x] >= Cap
    BY DEF LostOnlyUnderPressure, Lost
  <2>4. x # t /\ serial'[x] = serial[x] /\ serial[x] > 0 /\ Redeemers[x] = {}
    BY <2>1, <2>2, <2>3 DEF Lost, TokensInv, TokensTypeOK
  <2>5. count \in Nat /\ serial[x] \in Nat /\ Cap \in Nat
    BY TokenStoreAssumption DEF TokensInv, TokensTypeOK
  <2>6. CASE x \notin Held
    <3>1. x \in Lost
      BY <2>4, <2>6 DEF Lost
    <3>2. count - serial[x] >= Cap
      BY <3>1 DEF LostOnlyUnderPressure
    <3>3. QED BY <2>2, <2>4, <2>5, <3>2
  <2>7. CASE x \in Held
    <3>1. x \in Evicted
      BY <2>1, <2>3, <2>7 DEF Lost
    <3>2. order # <<>> /\ x = Head(order) /\ Len(order) = Cap
      BY <3>1, AtCapacity DEF TokensInv
    <3>3. serial[order[1]] <= count - (Len(order) - 1)
      BY <2>5, <3>2, TokenStoreAssumption DEF TokensInv, QueueInv, Lists, Aged
    <3>4. Head(order) = order[1]
      BY <3>2 DEF TokensInv, TokensTypeOK
    <3>5. QED BY <2>2, <2>4, <2>5, <3>2, <3>3, <3>4
  <2>8. QED BY <2>6, <2>7
<1>2. ASSUME NEW r \in Redemptions, NEW t \in Tokens, NEW s \in {"load", "setPassword"},
             Present(r, t, s)
      PROVE  LostOnlyUnderPressure'
  <2>1. UNCHANGED <<count, serial>>
    BY <1>2 DEF Present, history
  <2>2. CASE t \in Held
    <3>1. Held' = Held \ {t} /\ Redeemers' = [Redeemers EXCEPT ![t] = {r}]
      BY <1>2, <2>2, RedeemStep
    <3>2. Lost' \subseteq Lost
      BY <2>1, <3>1 DEF Lost, Redeemers
    <3>3. QED BY <2>1, <3>2 DEF LostOnlyUnderPressure
  <2>3. CASE t \notin Held
    BY <1>2, <2>1, <2>3, RefusedStep DEF LostOnlyUnderPressure
  <2>4. QED BY <2>2, <2>3
<1> DEFINE Quiet == UNCHANGED <<count, serial>> /\ Redeemers' = Redeemers /\ Held' = Held
<1>3. Quiet => LostOnlyUnderPressure'
  BY DEF Lost, LostOnlyUnderPressure
<1>4. ASSUME NEW r \in Redemptions, NEW a \in Steps, NEW b \in Consumed, a \in Consumed,
             pc[r] = a, pc' = [pc EXCEPT ![r] = b], UNCHANGED <<tokenStore, code, history>>
      PROVE  Quiet
  BY <1>4 DEF tokenStore, history, Held, Redeemers, TokensInv, TokensTypeOK
<1>5. ASSUME NEW r \in Redemptions,
             \/ LoadUser(r) \/ Mint(r) \/ RecordLogin(r)
             \/ \E u \in Users : SetPassword(r, u)
      PROVE  Quiet
  <2>1. PICK a \in Consumed, b \in Consumed :
          /\ pc[r] = a /\ pc' = [pc EXCEPT ![r] = b]
          /\ UNCHANGED <<tokenStore, code, history>>
    BY <1>5 DEF LoadUser, Mint, RecordLogin, SetPassword, Goto, Consumed
  <2>2. QED BY <1>4, <2>1 DEF Steps
<1>6. ASSUME UNCHANGED <<tokenStore, redeem, history>> PROVE Quiet
  BY <1>6 DEF tokenStore, redeem, history, Held, Redeemers
<1>7. ASSUME NEW i \in Issuers,
             \/ LookUpTenant(i)
             \/ \E u \in Users : LookUp(i, u) \/ SignUp(i, u)
      PROVE  Quiet
  BY <1>6, <1>7 DEF LookUpTenant, LookUp, SignUp
<1>8. ASSUME Managing \/ UNCHANGED tokenVars PROVE Quiet
  BY <1>6, <1>8 DEF Managing, SetStatus, ResetStores, AfterReset, tokenVars
<1>9. QED
  BY <1>1, <1>2, <1>3, <1>5, <1>7, <1>8 DEF TokensNext, Issuing, Redeeming

\* The owner a request mints for is still enabled.
MintInv ==
  \A r \in Redemptions : pc[r] = "mint" =>
    \A o \in subj[r] : o \in Users /\ status[o] = "enabled"

LEMMA MintInvStep ==
  ASSUME TokensInv, MintInv, [TokensNext]_tokenVars
  PROVE  MintInv'
<1> USE DEF MintInv
<1>1. ASSUME NEW r \in Redemptions, NEW s \in Steps, s # "mint",
             pc' = [pc EXCEPT ![r] = s], status' = status,
             \A q \in Redemptions \ {r} : subj'[q] = subj[q]
      PROVE  MintInv'
  BY <1>1 DEF TokensInv, TokensTypeOK
<1>2. ASSUME NEW r \in Redemptions, LoadUser(r) PROVE MintInv'
  <2>1. /\ UNCHANGED <<status, subj>>
        /\ pc' = [pc EXCEPT ![r] = IF \E o \in subj[r] : Admitted(o) THEN "mint" ELSE "burnt"]
    BY <1>2 DEF LoadUser, Goto
  <2>2. subj[r] = {owner[code[r]]}
    BY <1>2 DEF LoadUser, TokensInv, HistoryInv, Consumed
  <2>3. CASE \E o \in subj[r] : Admitted(o)
    BY <2>1, <2>2, <2>3 DEF Admitted, TokensInv, TokensTypeOK
  <2>4. CASE ~\E o \in subj[r] : Admitted(o)
    BY <2>1, <2>4, <1>1 DEF Steps, Consumed
  <2>5. QED BY <2>3, <2>4
<1>3. ASSUME NEW r \in Redemptions, NEW t \in Tokens, NEW s \in {"load", "setPassword"},
             Present(r, t, s)
      PROVE  MintInv'
  <2>1. PICK n \in {"load", "setPassword", "invalid"} : pc' = [pc EXCEPT ![r] = n]
    BY <1>3 DEF Present, Goto
  <2>2. status' = status /\ \A q \in Redemptions \ {r} : subj'[q] = subj[q]
    BY <1>3 DEF Present, TokensInv, TokensTypeOK
  <2>3. QED BY <1>1, <2>1, <2>2 DEF Steps, Consumed
<1>4. ASSUME NEW r \in Redemptions,
             Mint(r) \/ RecordLogin(r) \/ \E u \in Users : SetPassword(r, u)
      PROVE  MintInv'
  <2>1. PICK n \in {"record", "ok", "passwordSet", "burnt"} : pc' = [pc EXCEPT ![r] = n]
    BY <1>4 DEF Mint, RecordLogin, SetPassword, Goto
  <2>2. UNCHANGED <<status, subj>>
    BY <1>4 DEF Mint, RecordLogin, SetPassword
  <2>3. QED BY <1>1, <2>1, <2>2 DEF Steps, Consumed
<1>5. ASSUME UNCHANGED <<pc, status, subj>> PROVE MintInv'
  BY <1>5
<1>6. ASSUME NEW i \in Issuers,
             \/ LookUpTenant(i)
             \/ \E u \in Users : LookUp(i, u)
             \/ \E t \in Tokens : IssueToken(i, t)
      PROVE  MintInv'
  BY <1>5, <1>6 DEF LookUp, LookUpTenant, IssueToken, redeem
<1>7. CASE Managing
  <2>1. MintHolders = {} /\ UNCHANGED <<pc, subj>>
    BY <1>7 DEF Managing, SetStatus, ResetStores, UsersWritable, redeem
  <2>2. QED BY <2>1 DEF MintHolders
<1>8. ASSUME NEW i \in Issuers, NEW u \in Users, SignUp(i, u) PROVE MintInv'
  <2>1. MintHolders = {} /\ UNCHANGED <<pc, subj>>
    BY <1>8 DEF SignUp, UsersWritable, redeem
  <2>2. QED BY <2>1 DEF MintHolders
<1>9. CASE UNCHANGED tokenVars
  BY <1>5, <1>9 DEF redeem, tokenVars
<1>10. CASE Issuing
  <2>1. PICK i \in Issuers :
          \/ LookUpTenant(i)
          \/ \E u \in Users : LookUp(i, u)
          \/ \E t \in Tokens : IssueToken(i, t)
          \/ \E u \in Users : SignUp(i, u)
    BY <1>10, Zenon DEF Issuing
  <2>2. QED BY <1>6, <1>8, <2>1, Zenon
<1>11. CASE Redeeming
  BY <1>2, <1>3, <1>4, <1>11 DEF Redeeming
<1>12. QED
  BY <1>7, <1>9, <1>10, <1>11 DEF TokensNext

-----------------------------------------------------------------------------
(* The theorems *)

LEMMA TokensInvHolds == TokensSpec => []TokensInv
<1>1. TokensInv /\ [TokensNext]_tokenVars => TokensInv'
  BY StepRefines
<1>2. QED BY TokensInitInv, <1>1, PTL DEF TokensSpec

\* Every variable keeps its shape and the store never exceeds its capacity.
THEOREM TokensTypeCorrect == TokensSpec => []TokensTypeOK
<1>1. TokensInv => TokensTypeOK
  BY DEF TokensInv
<1>2. QED BY TokensInvHolds, <1>1, PTL

\* TokenStore.order lists the keys of TokenStore.entries, each once, in the
\* order they were issued (token_store.rs insert and consume).
THEOREM QueueMatchesMapHolds == TokensSpec => []QueueMatchesMap
<1>1. TokensInv => QueueMatchesMap
  BY QueueMatches DEF TokensInv
<1>2. QED BY TokensInvHolds, <1>1, PTL

\* TokenStore keeps the promise of OneTimeTokens: each token is redeemed by at
\* most one request, and only the oldest of Cap outstanding ones is given up.
THEOREM StoreImplementsOneTimeTokens == TokensSpec => ImplementsOneTimeTokens
<1>1. TokensInv /\ [TokensNext]_tokenVars => [OneTime!Next]_(OneTime!vars)
  BY StepRefines
<1>2. QED
  BY InitRefines, TokensInvHolds, <1>1, PTL
     DEF TokensSpec, ImplementsOneTimeTokens, OneTime!Spec

\* Of the requests that present one token (magic_link.rs verify, saml.rs exchange,
\* password.rs update_password) one goes on.
TokenOpensOnce ==
  \A q, r \in Redemptions :
    pc[q] \in Consumed /\ pc[r] \in Consumed /\ code[q] = code[r] => q = r

\* What OneTimeTokens says of redeemers carries over to the requests: consume in
\* token_store.rs lets one request past, for any number that race for a token and
\* whatever is issued and evicted meanwhile.
THEOREM TokenOpensOnceHolds == TokensSpec => []TokenOpensOnce
<1> DEFINE One == \A t \in Tokens : \A q, r \in Redeemers[t] : q = r
<1>1. OneTime!Init => One
  BY DEF OneTime!Init
<1>2. ASSUME One, [OneTime!Next]_(OneTime!vars)
      PROVE  One'
  <2>1. CASE \E t \in Tokens : OneTime!Issue(t)
    BY <1>2, <2>1 DEF OneTime!Issue
  <2>2. CASE \E t \in Tokens, r \in Redemptions : OneTime!Redeem(t, r)
    <3>1. PICK t \in Tokens, r \in Redemptions : Redeemers' = [Redeemers EXCEPT ![t] = {r}]
      BY <2>2 DEF OneTime!Redeem
    <3>2. \A u \in Tokens : Redeemers'[u] = {r} \/ Redeemers'[u] = Redeemers[u]
      BY <3>1 DEF Redeemers
    <3>3. QED BY <1>2, <3>2
  <2>3. CASE UNCHANGED OneTime!vars
    BY <1>2, <2>3 DEF OneTime!vars
  <2>4. QED BY <1>2, <2>1, <2>2, <2>3 DEF OneTime!Next
<1>3. TokensInv /\ One => TokenOpensOnce
  BY DEF TokensInv, HistoryInv, Redeemers, TokenOpensOnce
<1> HIDE DEF One
<1>4. OneTime!Spec => []One
  BY <1>1, <1>2, PTL DEF OneTime!Spec
<1>5. QED BY StoreImplementsOneTimeTokens, TokensInvHolds, <1>3, <1>4, PTL
             DEF ImplementsOneTimeTokens

\* TokenStore::insert evicts an unredeemed token only once as many newer ones as
\* the store holds were issued, for any cap.
THEOREM LostOnlyUnderPressureHolds == TokensSpec => []LostOnlyUnderPressure
<1>1. TokensInit => LostOnlyUnderPressure
  BY DEF TokensInit, Lost, LostOnlyUnderPressure
<1>2. TokensInv /\ LostOnlyUnderPressure /\ [TokensNext]_tokenVars => LostOnlyUnderPressure'
  BY LossStep
<1>3. QED BY TokensInvHolds, <1>1, <1>2, PTL DEF TokensSpec

\* verify and exchange (magic_link.rs, saml.rs) mint for the user the token was
\* issued to, and while it is enabled.
THEOREM SignsInEnabledOwnerHolds == TokensSpec => []SignsInEnabledOwner
<1>1. TokensInit => MintInv
  BY DEF TokensInit, MintInv
<1>2. TokensInv /\ MintInv /\ [TokensNext]_tokenVars => MintInv'
  BY MintInvStep
<1>3. TokensInv /\ MintInv => SignsInEnabledOwner
  BY DEF TokensInv, HistoryInv, MintInv, SignsInEnabledOwner, Consumed
<1>4. QED BY TokensInvHolds, <1>1, <1>2, <1>3, PTL DEF TokensSpec

-----------------------------------------------------------------------------
(***************************************************************************)
(* Configuration                                                           *)
(***************************************************************************)

Good(c) == c \in Contents /\ \A k \in Keys : c[k] # None => c[k].name = k

StoreInv == DOMAIN store = Stores /\ \A s \in Stores : Good(store[s])

\* The tenant a call works on has a name.
Sound(c) == c.op = "tenant" => c.tenant \in Keys

CallsInv == \A r \in Reqs : Sound(req[r])

Inv == Shapes /\ StoreInv /\ CallsInv

-----------------------------------------------------------------------------
(* What the edits of a store preserve *)

LEMMA PutGood ==
  ASSUME NEW c, Good(c), NEW k \in Keys, NEW f \in BOOLEAN
  PROVE  Good(Put(c, k, f))
BY DEF Good, Put, Contents, Entry

LEMMA RemoveGood ==
  ASSUME NEW c, Good(c), NEW k \in Keys
  PROVE  Good(Remove(c, k))
BY DEF Good, Remove, Contents

LEMMA EmptyGood == Good(Empty)
BY DEF Good, Empty, Contents

LEMMA RenamedGood ==
  ASSUME NEW c, Good(c), NEW k \in Keys, NEW j \in Keys, c[k] # None
  PROVE  Good(Renamed(c, k, j))
<1> DEFINE e == [c[k] EXCEPT !.flag = TRUE]
           f == [e EXCEPT !.name = j]
<1>1. c[k] \in Entry /\ c[k].name = k
  BY DEF Good, Contents
<1>2. e \in Entry /\ e.name = k /\ f \in Entry /\ f.name = j
  BY <1>1 DEF Entry
<1>3. c \in [Keys -> Entry \cup {None}]
  BY DEF Good, Contents
<1>4. CASE j = k \/ c[j] # None
  <2>1. Renamed(c, k, j) = [c EXCEPT ![k] = e]
    BY <1>4 DEF Renamed
  <2> HIDE DEF e, f
  <2>2. QED BY <1>2, <1>3, <2>1 DEF Good, Contents
<1>5. CASE ~(j = k \/ c[j] # None)
  <2>1. Renamed(c, k, j) = [Remove(c, k) EXCEPT ![j] = f]
    BY <1>5 DEF Renamed
  <2>2. Remove(c, k) = [c EXCEPT ![k] = None]
    BY DEF Remove
  <2> HIDE DEF e, f
  <2>3. QED BY <1>2, <1>3, <1>5, <2>1, <2>2 DEF Good, Contents
<1>6. QED BY <1>4, <1>5

LEMMA KeyedGood ==
  ASSUME NEW es \in SUBSET Entry
  PROVE  Good(Keyed(es))
<1> DEFINE c == Keyed(es)
<1>1. \A k \in Keys : c[k] \in es \cup {None} /\ (c[k] # None => c[k].name = k)
  BY DEF Keyed
<1>2. c = [k \in Keys |-> c[k]]
  BY DEF Keyed
<1> HIDE DEF c
<1>3. Good(c)
  BY <1>1, <1>2 DEF Good, Contents
<1>4. QED BY <1>3 DEF c

LEMMA ActivatedGood ==
  ASSUME NEW c, Good(c), NEW k \in Keys
  PROVE  Good(Activated(c, k))
<1> DEFINE d == Deactivated(c)
<1>1. \A j \in Keys : c[j] \in Entry \cup {None}
  BY DEF Good, Contents
<1>2. \A j \in Keys : c[j] # None =>
        [c[j] EXCEPT !.flag = FALSE] \in Entry /\ [c[j] EXCEPT !.flag = FALSE].name = c[j].name
        /\ ~[c[j] EXCEPT !.flag = FALSE].flag
  BY <1>1 DEF Entry
<1>3. \A j \in Keys : /\ d[j] \in Entry \cup {None}
                      /\ d[j] # None => d[j].name = j
  BY <1>1, <1>2 DEF Deactivated, Good
<1>4. d = [j \in Keys |-> d[j]]
  BY DEF Deactivated
<1>5. Activated(c, k) = Put(d, k, TRUE)
  BY DEF Activated
<1> HIDE DEF d
<1>6. Good(d)
  BY <1>3, <1>4 DEF Good, Contents
<1>7. QED BY <1>5, <1>6, PutGood

LEMMA TemplatedGood ==
  ASSUME NEW c, Good(c), NEW k \in Keys, NEW f \in BOOLEAN
  PROVE  Good(Templated(c, k, f))
BY ActivatedGood, PutGood DEF Templated

LEMMA EntriesGood ==
  ASSUME Inv, NEW s \in Stores
  PROVE  Entries(s) \in SUBSET Entry
BY DEF Inv, StoreInv, Good, Contents, Entries

-----------------------------------------------------------------------------
(* The steps of a request *)

Harmless(next) == next \in Call /\ Sound(next)

LEMMA IdleHarmless == Harmless(Idle) /\ NoSnapshot \in Snapshot
<1>1. NoSnapshot \in Snapshot
  BY DEF NoSnapshot, Snapshot
<1>2. Idle \in Call /\ Idle.op # "tenant"
  BY <1>1 DEF Idle, Call
<1>3. QED BY <1>1, <1>2 DEF Harmless, Sound

LEMMA ReqHarmless ==
  ASSUME Inv, NEW r \in Reqs
  PROVE  Harmless(req[r]) /\ req[r].at \in Nat /\ req[r].snap \in Snapshot
<1>1. req[r] \in Call /\ Sound(req[r])
  BY DEF Inv, Shapes, CallsInv
<1>2. QED BY <1>1 DEF Harmless, Call

LEMMA ReqStep ==
  ASSUME Inv, NEW r \in Reqs, NEW next, Harmless(next),
         req' = [req EXCEPT ![r] = next], UNCHANGED <<store, files>>
  PROVE  StoreInv' /\ CallsInv' /\ req' \in [Reqs -> Call] /\ store' \in [Stores -> Contents]
<1>1. req \in [Reqs -> Call] /\ store \in [Stores -> Contents]
  BY DEF Inv, Shapes
<1>2. req' \in [Reqs -> Call]
  BY <1>1 DEF Harmless
<1>3. \A q \in Reqs : req'[q] = next \/ req'[q] = req[q]
  BY <1>1
<1>4. CallsInv'
  BY <1>3 DEF Inv, CallsInv, Harmless
<1>5. QED BY <1>1, <1>2, <1>4 DEF Inv, StoreInv

LEMMA WriteStep ==
  ASSUME Inv, NEW r, NEW s \in Stores, NEW c, Good(c),
         NEW next, Harmless(next), Write(r, s, c, next), UNCHANGED files
  PROVE  StoreInv' /\ CallsInv' /\ req' \in [Reqs -> Call] /\ store' \in [Stores -> Contents]
<1>1. req \in [Reqs -> Call] /\ store \in [Stores -> Contents]
  BY DEF Inv, Shapes
<1>2. store' = [store EXCEPT ![s] = c]
  BY DEF Write
<1>3. c \in Contents /\ store' \in [Stores -> Contents]
  BY <1>1, <1>2 DEF Good
<1>4. \A x \in Stores : store'[x] = IF x = s THEN c ELSE store[x]
  BY <1>1, <1>2
<1>5. \A x \in Stores : Good(store'[x])
  BY <1>4 DEF Inv, StoreInv
<1>7. DOMAIN store' = Stores
  BY <1>3
<1>8. ASSUME NEW q \in Reqs PROVE Harmless(req'[q])
  <2> DEFINE touched == [req[q] EXCEPT !.touched = @ \cup {s}]
  <2>1. Harmless(req[q])
    BY ReqHarmless
  <2>2. Harmless(touched)
    <3>1. req[q] \in Call /\ req[q].touched \cup {s} \in SUBSET Stores
      BY <2>1 DEF Harmless, Call
    <3>2. /\ touched \in Call /\ touched.snap = req[q].snap
          /\ touched.op = req[q].op /\ touched.tenant = req[q].tenant
      BY <3>1 DEF Call
    <3> HIDE DEF touched
    <3>3. QED BY <2>1, <3>2 DEF Harmless, Sound
  <2>3. req'[q] = next \/ req'[q] = touched \/ req'[q] = req[q]
    BY DEF Write
  <2> HIDE DEF touched
  <2>4. QED BY <2>1, <2>2, <2>3
<1>9. req' = [q \in Reqs |-> req'[q]]
  BY DEF Write
<1>10. req' \in [Reqs -> Call] /\ CallsInv'
  BY <1>8, <1>9 DEF Harmless, CallsInv, Inv
<1>11. StoreInv'
  BY <1>5, <1>7 DEF StoreInv
<1>12. QED BY <1>3, <1>10, <1>11

\* The variables the management calls and jobs hardly touch.
Rest == /\ key \in Pems
        /\ spawned \in [Pems -> Nat] /\ queue \in Seq(Pems)
        /\ calls \in Nat /\ jobs \in Nat

LEMMA InvFromParts ==
  ASSUME StoreInv', CallsInv', req' \in [Reqs -> Call], store' \in [Stores -> Contents],
         Rest', files' \subseteq Snapshot
  PROVE  Inv'
BY DEF Inv, Shapes, Rest

LEMMA EditStep ==
  ASSUME Inv, NEW r \in Reqs, NEW s \in Stores, NEW c, Good(c),
         Edit(r, s, c)
  PROVE  Inv'
<1>1. Write(r, s, c, Idle) /\ UNCHANGED <<files, keyVars, calls, jobs>>
  BY DEF Edit
<1>2. StoreInv' /\ CallsInv' /\ req' \in [Reqs -> Call] /\ store' \in [Stores -> Contents]
  BY <1>1, WriteStep, IdleHarmless
<1>3. Rest' /\ files' \subseteq Snapshot
  BY <1>1 DEF Inv, Shapes, Rest, keyVars
<1>4. QED BY <1>2, <1>3, InvFromParts

\* A step that leaves stores and files alone and changes one request at most.
LEMMA CallStep ==
  ASSUME Inv, NEW r \in Reqs, NEW next, Harmless(next),
         req' = [req EXCEPT ![r] = next], UNCHANGED <<store, files>>, Rest'
  PROVE  Inv'
<1>1. StoreInv' /\ CallsInv' /\ req' \in [Reqs -> Call] /\ store' \in [Stores -> Contents]
  BY ReqStep
<1>2. files' \subseteq Snapshot
  BY DEF Inv, Shapes
<1>3. QED BY <1>1, <1>2, InvFromParts

-----------------------------------------------------------------------------
(* Management calls *)

LEMMA StoresGood ==
  ASSUME Inv
  PROVE  /\ \A s \in Stores : Good(store[s])
         /\ Rest /\ files \subseteq Snapshot
BY DEF Inv, Shapes, StoreInv, Rest

LEMMA StoreNames ==
  /\ "users" \in Stores /\ "tenants" \in Stores /\ "roles" \in Stores
  /\ "permissions" \in Stores /\ "methods" \in Stores /\ "templates" \in Stores
  /\ "connectors" \in Stores /\ "attributes" \in Stores /\ "accessKeys" \in Stores
  /\ "idps" \in Stores
BY DEF Stores

LEMMA CreateStep ==
  ASSUME Inv, NEW r \in Reqs, NEW s \in Stores, NEW k \in Keys, NEW f \in BOOLEAN,
         Create(r, s, k, f)
  PROVE  Inv'
BY StoresGood, PutGood, EditStep DEF Create

LEMMA UpdateStep ==
  ASSUME Inv, NEW r \in Reqs, NEW s \in Stores, NEW k \in Keys, Update(r, s, k)
  PROVE  Inv'
BY StoresGood, PutGood, EditStep DEF Update

LEMMA DeleteStep ==
  ASSUME Inv, NEW r \in Reqs, NEW s \in Stores, NEW k \in Keys, Delete(r, s, k)
  PROVE  Inv'
<1>1. Good(Remove(store[s], k))
  BY StoresGood, RemoveGood
<1>2. Edit(r, s, Remove(store[s], k))
  BY DEF Delete
<1>3. QED BY <1>1, <1>2, EditStep

LEMMA RenameStep ==
  ASSUME Inv, NEW r \in Reqs, NEW s \in {"roles", "permissions"}, NEW k \in Keys, NEW j \in Keys,
         Found(s, k), Edit(r, s, Renamed(store[s], k, j))
  PROVE  Inv'
<1>1. s \in Stores
  BY DEF Stores
<1>2. Good(Renamed(store[s], k, j))
  BY <1>1, StoresGood, RenamedGood DEF Found
<1>3. QED BY <1>1, <1>2, EditStep

LEMMA TemplateStep ==
  ASSUME Inv, NEW r \in Reqs, NEW k \in Keys, NEW f \in BOOLEAN,
         \/ CreateTemplate(r, k, f) \/ UpdateTemplate(r, k, f)
         \/ SetActiveTemplate(r, k) \/ DeleteTemplate(r, k)
  PROVE  Inv'
<1>1. "templates" \in Stores /\ Good(store["templates"])
  BY StoresGood, StoreNames
<1>2. CASE CreateTemplate(r, k, f) \/ UpdateTemplate(r, k, f)
  BY <1>1, <1>2, TemplatedGood, EditStep DEF CreateTemplate, UpdateTemplate
<1>3. CASE SetActiveTemplate(r, k)
  BY <1>1, <1>3, ActivatedGood, EditStep DEF SetActiveTemplate
<1>4. CASE DeleteTemplate(r, k)
  BY <1>1, <1>4, DeleteStep DEF DeleteTemplate
<1>5. QED BY <1>2, <1>3, <1>4

LEMMA AdmitStep ==
  ASSUME Inv, NEW r \in Reqs, \/ \E k \in Keys \cup {None} : Admit(r, k)
                              \/ AnswerOnly(r)
  PROVE  Inv'
<1>1. CASE \E k \in Keys \cup {None} : Admit(r, k)
  <2>1. /\ req' = [req EXCEPT ![r] = [req[r] EXCEPT !.op = "admitted"]]
        /\ UNCHANGED <<store, files, keyVars, jobs>> /\ calls' = calls + 1
    BY <1>1 DEF Admit
  <2>2. Harmless([req[r] EXCEPT !.op = "admitted"])
    <3>1. Harmless(req[r]) /\ req[r] \in Call
      BY ReqHarmless DEF Harmless
    <3>2. /\ [req[r] EXCEPT !.op = "admitted"] \in Call
          /\ [req[r] EXCEPT !.op = "admitted"].snap = req[r].snap
          /\ [req[r] EXCEPT !.op = "admitted"].op = "admitted"
      BY <3>1 DEF Call
    <3>3. QED BY <3>1, <3>2 DEF Harmless, Sound
  <2>3. Rest'
    BY <2>1, StoresGood DEF Rest, keyVars
  <2>4. QED BY <2>1, <2>2, <2>3, CallStep
<1>2. CASE AnswerOnly(r)
  <2>1. req' = [req EXCEPT ![r] = Idle] /\ UNCHANGED <<store, files, keyVars, calls, jobs>>
    BY <1>2 DEF AnswerOnly, Answer
  <2>2. Rest'
    BY <2>1, StoresGood DEF Rest, keyVars
  <2>3. QED BY <2>1, <2>2, IdleHarmless, CallStep
<1>3. QED BY <1>1, <1>2

LEMMA TenantStep ==
  ASSUME Inv, NEW r \in Reqs,
         \/ \E k \in Keys : CreateTenant(r, k) \/ UpdateTenant(r, k)
         \/ FinishTenant(r)
  PROVE  Inv'
<1>1. Harmless(req[r]) /\ req[r] \in Call /\ "tenants" \in Stores
  BY ReqHarmless, StoreNames DEF Harmless
<1>2. ASSUME NEW k \in Keys, NEW f \in BOOLEAN, NEW next, Harmless(next),
             Write(r, "tenants", Put(store["tenants"], k, f), next),
             UNCHANGED <<files, keyVars, calls, jobs>>
      PROVE  Inv'
  <2>1. Good(Put(store["tenants"], k, f))
    BY <1>1, StoresGood, PutGood
  <2>2. StoreInv' /\ CallsInv' /\ req' \in [Reqs -> Call] /\ store' \in [Stores -> Contents]
    BY <1>1, <1>2, <2>1, WriteStep
  <2>3. Rest' /\ files' \subseteq Snapshot
    BY <1>2, StoresGood DEF Rest, keyVars
  <2>4. QED BY <2>2, <2>3, InvFromParts
<1>3. CASE \E k \in Keys : CreateTenant(r, k) \/ UpdateTenant(r, k)
  <2>1. PICK k \in Keys : CreateTenant(r, k) \/ UpdateTenant(r, k)
    BY <1>3
  <2> DEFINE more == [req[r] EXCEPT !.op = "tenant", !.tenant = k]
  <2>2. Harmless(more)
    <3>1. more \in Call /\ more.snap = req[r].snap /\ more.tenant = k
      BY <1>1 DEF Call
    <3>2. QED BY <1>1, <3>1 DEF Harmless, Sound
  <2> HIDE DEF more
  <2>3. PICK next \in {Idle, more}, f \in BOOLEAN :
          /\ Write(r, "tenants", Put(store["tenants"], k, f), next)
          /\ UNCHANGED <<files, keyVars, calls, jobs>>
    BY <2>1 DEF CreateTenant, UpdateTenant, more
  <2>4. QED BY <1>2, <2>2, <2>3, IdleHarmless
<1>4. CASE FinishTenant(r)
  <2> DEFINE k == req[r].tenant
  <2>1. CASE Found("tenants", k)
    <3>1. k \in Keys
      BY <1>1, <1>4 DEF FinishTenant, At, Harmless, Sound
    <3>2. PICK next \in {Idle, req[r]} :
            Write(r, "tenants", Put(store["tenants"], k, TRUE), next)
      BY <1>4, <2>1 DEF FinishTenant
    <3>3. UNCHANGED <<files, keyVars, calls, jobs>>
      BY <1>4 DEF FinishTenant
    <3>4. Harmless(next)
      BY <1>1, <3>2, IdleHarmless
    <3>5. QED BY <1>2, <3>1, <3>2, <3>3, <3>4
  <2>2. CASE ~Found("tenants", k)
    <3>1. /\ req' = [req EXCEPT ![r] = Idle]
          /\ UNCHANGED <<store, files, keyVars, calls, jobs>>
      BY <1>4, <2>2 DEF FinishTenant, Answer
    <3>2. Rest'
      BY <3>1, StoresGood DEF Rest, keyVars
    <3>3. QED BY <3>1, <3>2, IdleHarmless, CallStep
  <2>3. QED BY <2>1, <2>2
<1>5. QED BY <1>3, <1>4

LEMMA PutUserStep ==
  ASSUME Inv, NEW k \in Keys, PutUser(k)
  PROVE  Inv'
<1>1. /\ Write(None, "users", Put(store["users"], k, TRUE), Idle)
      /\ UNCHANGED <<files, keyVars, jobs>> /\ calls' = calls + 1
  BY DEF PutUser
<1>2. Good(Put(store["users"], k, TRUE)) /\ "users" \in Stores
  BY StoresGood, StoreNames, PutGood
<1>3. StoreInv' /\ CallsInv' /\ req' \in [Reqs -> Call] /\ store' \in [Stores -> Contents]
  BY <1>1, <1>2, IdleHarmless, WriteStep
<1>4. Rest' /\ files' \subseteq Snapshot
  BY <1>1, StoresGood DEF Rest, keyVars
<1>5. QED BY <1>3, <1>4, InvFromParts

LEMMA AuthMethodsStep ==
  ASSUME Inv, NEW r \in Reqs, NEW k \in Keys, PutAuthMethods(r, k)
  PROVE  Inv'
<1>1. "methods" \in Stores /\ Good(Put(Empty, k, TRUE))
  BY EmptyGood, PutGood, StoreNames
<1>2. Edit(r, "methods", Put(Empty, k, TRUE))
  BY DEF PutAuthMethods
<1>3. QED BY <1>1, <1>2, EditStep

LEMMA ManageStep ==
  ASSUME Inv, NEW r \in Reqs, Manage(r)
  PROVE  Inv'
<1>1. CASE (\E k \in Keys \cup {None} : Admit(r, k)) \/ AnswerOnly(r)
  BY <1>1, AdmitStep
<1>2. CASE \E k \in Keys :
             \/ CreateRole(r, k) \/ CreatePermission(r, k) \/ CreateConnector(r, k)
             \/ CreateAttribute(r, k) \/ CreateAccessKey(r, k) \/ CreateIdp(r, k)
  BY <1>2, CreateStep, StoreNames
     DEF CreateRole, CreatePermission, CreateConnector, CreateAttribute, CreateAccessKey, CreateIdp
<1>3. CASE \E k \in Keys : UpdateConnector(r, k) \/ UpdateIdp(r, k)
  BY <1>3, UpdateStep, StoreNames DEF UpdateConnector, UpdateIdp
<1>4. CASE \E k \in Keys :
             \/ DeleteRole(r, k) \/ DeletePermission(r, k) \/ DeleteConnector(r, k)
             \/ DeleteAttribute(r, k) \/ DeleteAccessKey(r, k) \/ DeleteIdp(r, k)
  BY <1>4, DeleteStep, StoreNames
     DEF DeleteRole, DeletePermission, DeleteConnector, DeleteAttribute, DeleteAccessKey, DeleteIdp
<1>5. CASE \E k \in Keys, j \in Keys : UpdateRole(r, k, j) \/ UpdatePermission(r, k, j)
  BY <1>5, RenameStep DEF UpdateRole, UpdatePermission
<1>6. CASE \E k \in Keys, f \in BOOLEAN :
             \/ CreateTemplate(r, k, f) \/ UpdateTemplate(r, k, f)
             \/ SetActiveTemplate(r, k) \/ DeleteTemplate(r, k)
  BY <1>6, TemplateStep
<1>7. CASE \E k \in Keys : DisableAccessKey(r, k)
  <2>1. PICK k \in Keys : Edit(r, "accessKeys", Put(store["accessKeys"], k, FALSE))
    BY <1>7 DEF DisableAccessKey
  <2>2. QED BY <2>1, StoresGood, StoreNames, PutGood, EditStep
<1>8. CASE \E k \in Keys : PutAuthMethods(r, k)
  BY <1>8, AuthMethodsStep
<1>9. CASE (\E k \in Keys : CreateTenant(r, k) \/ UpdateTenant(r, k)) \/ FinishTenant(r)
  BY <1>9, TenantStep
<1>10. CASE \E k \in Keys : DeleteTenant(r, k)
  <2>1. PICK k \in Keys : Edit(r, "tenants", Remove(store["tenants"], k))
    BY <1>10 DEF DeleteTenant
  <2>2. QED BY <2>1, StoresGood, StoreNames, RemoveGood, EditStep
<1>11. QED
  BY <1>1, <1>2, <1>3, <1>4, <1>5, <1>6, <1>7, <1>8, <1>9, <1>10, Zenon DEF Manage

-----------------------------------------------------------------------------
(* Export, import, reset *)

LEMMA JobOrders ==
  ResetOrder \in Seq(Stores) /\ ExportOrder \in Seq(Stores) /\ SeedOrder \in Seq(Stores)
BY DEF ResetOrder, ExportOrder, SeedOrder, Stores

LEMMA StepsOf ==
  ASSUME NEW what, NEW steps \in Seq(Stores), what \in {"reset", "restore", "seed"}
  PROVE  [i \in 1..Len(steps) |-> <<what, steps[i]>>]
           \in Seq({"reset", "restore", "seed"} \X Stores)
<1>1. Len(steps) \in Nat /\ \A i \in 1..Len(steps) : steps[i] \in Stores
  OBVIOUS
<1>2. \A i \in 1..Len(steps) : <<what, steps[i]>> \in {"reset", "restore", "seed"} \X Stores
  BY <1>1
<1>3. QED BY <1>1, <1>2

LEMMA JobSteps ==
  /\ ImportSteps \in Seq({"reset", "restore", "seed"} \X Stores)
  /\ ResetSteps \in Seq({"reset", "restore", "seed"} \X Stores)
<1> DEFINE T == Seq({"reset", "restore", "seed"} \X Stores)
<1>1. \A f \in T, g \in T : f \o g \in T
  OBVIOUS
<1>2. [i \in 1..Len(ResetOrder) |-> <<"reset", ResetOrder[i]>>] \in T
  BY JobOrders, StepsOf
<1>3. [i \in 1..Len(ExportOrder) |-> <<"restore", ExportOrder[i]>>] \in T
  BY JobOrders, StepsOf
<1>4. [i \in 1..Len(SeedOrder) |-> <<"seed", SeedOrder[i]>>] \in T
  BY JobOrders, StepsOf
<1> HIDE DEF T
<1>5. ImportSteps \in T
  BY <1>1, <1>2, <1>3 DEF ImportSteps
<1>6. ResetSteps \in T
  BY <1>1, <1>2, <1>4 DEF ResetSteps
<1>7. QED BY <1>5, <1>6 DEF T

LEMMA StepOfJob ==
  ASSUME NEW r \in Reqs, Step(r)[1] \in {"reset", "restore", "seed"}
  PROVE  At(r, "import") \/ At(r, "reset")
BY DEF Step

LEMMA StepStore ==
  ASSUME Inv, NEW r \in Reqs, Step(r)[1] \in {"reset", "restore", "seed"}
  PROVE  Step(r)[2] \in Stores
<1> DEFINE steps == IF At(r, "import") THEN ImportSteps ELSE ResetSteps
<1>1. steps \in Seq({"reset", "restore", "seed"} \X Stores)
  BY JobSteps
<1>2. At(r, "import") \/ At(r, "reset")
  BY DEF Step
<1>3. req[r].at < Len(steps)
  BY <1>2 DEF Step
<1>4. req[r].at \in Nat
  BY ReqHarmless
<1> HIDE DEF steps
<1>5. steps[req[r].at + 1] \in {"reset", "restore", "seed"} \X Stores
  BY <1>1, <1>3, <1>4
<1>6. Step(r) = steps[req[r].at + 1]
  BY <1>2, <1>3 DEF Step, steps
<1>7. QED BY <1>5, <1>6

LEMMA DoneHarmless ==
  ASSUME Inv, NEW r \in Reqs, NEW s
  PROVE  Harmless(Done(r)) /\ Harmless([Done(r) EXCEPT !.touched = @ \ {s}])
<1>1. Harmless(req[r]) /\ req[r] \in Call /\ req[r].at + 1 \in Nat
      /\ req[r].touched \ {s} \in SUBSET Stores
  BY ReqHarmless DEF Harmless, Call
<1>2. /\ Done(r) \in Call /\ Done(r).snap = req[r].snap
      /\ Done(r).op = req[r].op /\ Done(r).tenant = req[r].tenant
      /\ Done(r).touched = req[r].touched
  BY <1>1 DEF Done, Call
<1>3. /\ [Done(r) EXCEPT !.touched = @ \ {s}] \in Call
      /\ [Done(r) EXCEPT !.touched = @ \ {s}].snap = req[r].snap
      /\ [Done(r) EXCEPT !.touched = @ \ {s}].op = req[r].op
      /\ [Done(r) EXCEPT !.touched = @ \ {s}].tenant = req[r].tenant
  BY <1>1, <1>2 DEF Call
<1>4. QED BY <1>1, <1>2, <1>3 DEF Harmless, Sound

\* A step of a job that writes one store.
LEMMA JobWrite ==
  ASSUME Inv, NEW r \in Reqs, NEW s \in Stores, NEW c, Good(c),
         NEW next, Harmless(next), Write(r, s, c, next), UNCHANGED <<files, keyVars, calls, jobs>>
  PROVE  Inv'
<1>1. StoreInv' /\ CallsInv' /\ req' \in [Reqs -> Call] /\ store' \in [Stores -> Contents]
  BY WriteStep
<1>2. Rest' /\ files' \subseteq Snapshot
  BY StoresGood DEF Rest, keyVars
<1>3. QED BY <1>1, <1>2, InvFromParts

LEMMA ResetStepInv ==
  ASSUME Inv, NEW r \in Reqs, ResetStep(r)
  PROVE  Inv'
<1>1. Step(r)[2] \in Stores
  BY StepStore DEF ResetStep
<1>2. Write(r, Step(r)[2], Empty, Done(r)) /\ UNCHANGED <<files, keyVars, calls, jobs>>
  BY DEF ResetStep
<1>3. QED BY <1>1, <1>2, EmptyGood, DoneHarmless, JobWrite

LEMMA RestoreStepInv ==
  ASSUME Inv, NEW r \in Reqs, RestoreStep(r)
  PROVE  Inv'
<1> DEFINE s == Step(r)[2]
           es == req[r].snap.lists[s]
<1>1. s \in Stores /\ UNCHANGED <<files, keyVars, calls, jobs>>
  BY StepStore DEF RestoreStep
<1>2. es \in SUBSET Entry
  BY <1>1, ReqHarmless DEF Snapshot
<1>3. CASE Restores(req[r].snap, s)
  <2>1. PICK ds \in Accepted(s, es) : Write(r, s, Keyed(ds), [Done(r) EXCEPT !.touched = @ \ {s}])
    BY <1>3 DEF RestoreStep
  <2>2. Good(Keyed(ds))
    BY <1>2, KeyedGood DEF Accepted
  <2>3. Harmless([Done(r) EXCEPT !.touched = @ \ {s}])
    BY DoneHarmless
  <2> HIDE DEF s, es
  <2>4. QED BY <1>1, <2>1, <2>2, <2>3, JobWrite
<1>4. CASE ~Restores(req[r].snap, s)
  <2>1. req' = [req EXCEPT ![r] = Done(r)] /\ UNCHANGED store
    BY <1>4 DEF RestoreStep
  <2>2. Rest'
    BY <1>1, StoresGood DEF Rest, keyVars
  <2>3. QED BY <1>1, <2>1, <2>2, DoneHarmless, CallStep
<1>5. QED BY <1>3, <1>4

\* seed::load adds entries to a store: those of ds replace what has their names.
LEMMA AddedGood ==
  ASSUME NEW c, Good(c), NEW ds \in SUBSET Entry
  PROVE  Good([k \in Keys |-> IF \E e \in ds : e.name = k THEN Keyed(ds)[k] ELSE c[k]])
<1> DEFINE d == [k \in Keys |-> IF \E e \in ds : e.name = k THEN Keyed(ds)[k] ELSE c[k]]
<1>1. Good(Keyed(ds))
  BY KeyedGood
<1>2. \A k \in Keys : /\ d[k] \in Entry \cup {None}
                      /\ d[k] # None => d[k].name = k
  BY <1>1 DEF Good, Contents
<1>3. d = [k \in Keys |-> d[k]]
  OBVIOUS
<1> HIDE DEF d
<1>4. Good(d)
  BY <1>2, <1>3 DEF Good, Contents
<1>5. QED BY <1>4 DEF d

LEMMA SeededGood ==
  ASSUME Inv, NEW s \in Stores, NEW c \in Seeded(s)
  PROVE  Good(c)
<1> DEFINE es == Seed.lists[s]
           added(ds) == [k \in Keys |-> IF \E e \in ds : e.name = k
                                        THEN Keyed(ds)[k] ELSE store[s][k]]
<1>1. es \in SUBSET Entry
  BY ProjectConfigAssumption DEF Snapshot
<1>2. \A ds \in SUBSET Entry : Good(added(ds)) /\ Good(Keyed(ds))
  BY StoresGood, AddedGood, KeyedGood
<1>3. c = Keyed(es) \/ \E ds \in SUBSET es : c = added(ds)
  BY DEF Seeded
<1> HIDE DEF es, added
<1>4. QED BY <1>1, <1>2, <1>3

LEMMA SeedStepInv ==
  ASSUME Inv, NEW r \in Reqs, SeedStep(r)
  PROVE  Inv'
<1> DEFINE s == Step(r)[2]
<1>1. s \in Stores /\ UNCHANGED <<files, keyVars, calls, jobs>>
  BY StepStore DEF SeedStep
<1>2. Harmless(Done(r))
  BY DoneHarmless
<1>3. CASE Restores(Seed, s)
  <2>1. PICK c \in Seeded(s) : Write(r, s, c, Done(r))
    BY <1>3 DEF SeedStep
  <2> HIDE DEF s
  <2>2. QED BY <1>1, <1>2, <2>1, SeededGood, JobWrite
<1>4. CASE ~Restores(Seed, s)
  <2>1. req' = [req EXCEPT ![r] = Done(r)] /\ UNCHANGED store
    BY <1>4 DEF SeedStep
  <2>2. Rest'
    BY <1>1, StoresGood DEF Rest, keyVars
  <2>3. QED BY <1>1, <1>2, <2>1, <2>2, CallStep
<1>5. QED BY <1>3, <1>4

LEMMA StartJobInv ==
  ASSUME Inv, NEW r \in Reqs,
         \/ StartJob(r, "export", NoSnapshot) \/ StartJob(r, "reset", NoSnapshot)
         \/ \E snap \in files \cup {Elsewhere} : StartJob(r, "import", snap)
  PROVE  Inv'
<1>1. PICK o \in {"export", "reset", "import"}, snap \in files \cup {Elsewhere, NoSnapshot} :
        StartJob(r, o, snap)
  OBVIOUS
<1> DEFINE next == [Idle EXCEPT !.op = o, !.snap = snap]
<1>2. snap \in Snapshot
  BY <1>1, IdleHarmless, ProjectConfigAssumption, StoresGood
<1>3. Harmless(next)
  <2>1. next \in Call /\ next.snap = snap /\ next.op # "tenant"
    BY <1>2 DEF Idle, Call
  <2>2. QED BY <1>2, <2>1 DEF Harmless, Sound
<1>4. /\ req' = [req EXCEPT ![r] = next] /\ jobs' = jobs + 1
      /\ UNCHANGED <<store, files, keyVars, calls>>
  BY <1>1 DEF StartJob
<1>5. Rest'
  BY <1>4, StoresGood DEF Rest, keyVars
<1> HIDE DEF next
<1>6. QED BY <1>3, <1>4, <1>5, CallStep

LEMMA ExportStepInv ==
  ASSUME Inv, NEW r \in Reqs, ExportStep(r)
  PROVE  Inv'
<1> DEFINE s == ExportOrder[req[r].at + 1]
           d == Done(r)
           lists == [d.snap.lists EXCEPT ![s] = Entries(s)]
           next == [d EXCEPT !.snap.lists[s] = Entries(s)]
<1>1. s \in Stores
  <2>1. req[r].at \in Nat /\ req[r].at < Len(ExportOrder)
    BY ReqHarmless DEF ExportStep
  <2>2. QED BY <2>1, JobOrders
<1>2. Entries(s) \in SUBSET Entry
  BY <1>1, EntriesGood
<1>3. d \in Call /\ d.snap \in Snapshot /\ Sound(d)
  BY DoneHarmless DEF Harmless, Call
<1> HIDE DEF s, d
<1>4. lists \in [Stores -> SUBSET Entry]
  BY <1>1, <1>2, <1>3 DEF Snapshot
<1>5. /\ next = [d EXCEPT !.snap = [d.snap EXCEPT !.lists = lists]]
      /\ [d.snap EXCEPT !.lists = lists] \in Snapshot
      /\ [d.snap EXCEPT !.lists = lists].lists = lists
  BY <1>3, <1>4 DEF Snapshot
<1> HIDE DEF lists, next
<1>6. next \in Call /\ next.snap.lists = lists /\ next.op = d.op /\ next.tenant = d.tenant
  BY <1>3, <1>5 DEF Call
<1>7. Harmless(next)
  BY <1>3, <1>4, <1>6 DEF Harmless, Sound
<1>8. req' = [req EXCEPT ![r] = next] /\ UNCHANGED <<store, files, keyVars, calls, jobs>>
  BY DEF ExportStep, next, s, d
<1>9. Rest'
  BY <1>8, StoresGood DEF Rest, keyVars
<1>10. QED BY <1>7, <1>8, <1>9, CallStep

LEMMA ExportKeysInv ==
  ASSUME Inv, NEW r \in Reqs, ExportKeys(r)
  PROVE  Inv'
<1> DEFINE f == [req[r].snap EXCEPT !.pem = key]
<1>1. /\ files' = files \cup {f} /\ req' = [req EXCEPT ![r] = Idle]
      /\ UNCHANGED <<store, keyVars, calls, jobs>>
  BY DEF ExportKeys, Answer
<1>2. f \in Snapshot /\ f.lists = req[r].snap.lists
  BY ReqHarmless, StoresGood DEF Rest, Snapshot
<1> HIDE DEF f
<1>4. files' \subseteq Snapshot
  BY <1>1, <1>2, StoresGood
<1>5. req \in [Reqs -> Call] /\ store \in [Stores -> Contents]
  BY DEF Inv, Shapes
<1>6. req' \in [Reqs -> Call] /\ \A q \in Reqs : Sound(req'[q])
  BY <1>1, <1>5, IdleHarmless DEF Inv, CallsInv, Harmless
<1>7. CallsInv'
  BY <1>6 DEF CallsInv, Sound
<1>8. StoreInv' /\ store' \in [Stores -> Contents] /\ Rest'
  BY <1>1, <1>5, StoresGood DEF Inv, StoreInv, Rest, keyVars
<1>9. QED BY <1>4, <1>6, <1>7, <1>8, InvFromParts

LEMMA DoneInv ==
  ASSUME Inv, NEW r \in Reqs, ImportDone(r) \/ ResetDone(r) \/ EndRead(r)
  PROVE  Inv'
<1>1. req' = [req EXCEPT ![r] = Idle] /\ UNCHANGED <<store, files>>
  BY DEF ImportDone, ResetDone, EndRead, Answer
<1>2. Rest'
  <2>1. CASE ImportDone(r)
    <3>1. req[r].snap.pem \in Pems \cup {None} /\ Rest
      BY ReqHarmless, StoresGood DEF Snapshot
    <3>2. UNCHANGED <<queue, calls, jobs>>
      BY <2>1 DEF ImportDone
    <3>3. key' \in Pems
      BY <2>1, <3>1 DEF ImportDone, Rest
    <3>4. spawned' \in [Pems -> Nat]
      BY <2>1, <3>1 DEF ImportDone, Rest
    <3>5. QED BY <3>1, <3>2, <3>3, <3>4 DEF Rest
  <2>2. CASE ResetDone(r) \/ EndRead(r)
    BY <2>2, StoresGood DEF ResetDone, EndRead, Rest, keyVars
  <2>3. QED BY <2>1, <2>2
<1>3. QED BY <1>1, <1>2, IdleHarmless, CallStep

LEMMA BeginReadInv ==
  ASSUME Inv, NEW r \in Reqs, BeginRead(r)
  PROVE  Inv'
<1> DEFINE next == [req[r] EXCEPT !.op = "reading"]
<1>1. req' = [req EXCEPT ![r] = next] /\ UNCHANGED <<store, files, keyVars, calls, jobs>>
  BY DEF BeginRead
<1>2. Harmless(next)
  <2>1. req[r] \in Call /\ Sound(req[r])
    BY ReqHarmless DEF Harmless
  <2>2. next \in Call /\ next.snap = req[r].snap /\ next.op = "reading"
    BY <2>1 DEF Call
  <2>3. QED BY <2>1, <2>2 DEF Harmless, Sound
<1>3. Rest'
  BY <1>1, StoresGood DEF Rest, keyVars
<1> HIDE DEF next
<1>4. QED BY <1>1, <1>2, <1>3, CallStep

\* A step that leaves stores, files and requests alone.
LEMMA KeyStep ==
  ASSUME Inv, UNCHANGED <<store, files, req>>, Rest'
  PROVE  Inv'
<1>1. StoreInv' /\ store' \in [Stores -> Contents] /\ req' \in [Reqs -> Call]
  BY DEF Inv, Shapes, StoreInv
<1>2. CallsInv' /\ files' \subseteq Snapshot
  BY DEF Inv, Shapes, CallsInv, Sound
<1>3. QED BY <1>1, <1>2, InvFromParts

LEMMA SwapInv ==
  ASSUME Inv, Swap \/ \E p \in Pems : PollSwap(p)
  PROVE  Inv'
<1>1. Rest /\ UNCHANGED <<store, files, req, calls, jobs>>
  BY StoresGood DEF Swap, PollSwap
<1>2. CASE Swap
  <2>1. queue \in Seq(Pems) /\ queue # <<>> /\ UNCHANGED spawned
        /\ key' = Head(queue) /\ queue' = Tail(queue)
    BY <1>1, <1>2 DEF Swap, Rest
  <2>2. key' \in Pems /\ queue' \in Seq(Pems)
    BY <2>1
  <2>3. Rest'
    BY <1>1, <2>1, <2>2 DEF Rest
  <2>4. QED BY <1>1, <2>3, KeyStep
<1>3. CASE \E p \in Pems : PollSwap(p)
  <2>1. PICK p \in Pems : /\ spawned[p] > 0 /\ spawned' = [spawned EXCEPT ![p] = @ - 1]
                          /\ queue' = Append(queue, p) /\ UNCHANGED key
    BY <1>3 DEF PollSwap
  <2>2. spawned' \in [Pems -> Nat] /\ queue' \in Seq(Pems)
    BY <1>1, <2>1 DEF Rest
  <2>3. Rest'
    BY <1>1, <2>1, <2>2 DEF Rest
  <2>4. QED BY <1>1, <2>3, KeyStep
<1>4. QED BY <1>2, <1>3

-----------------------------------------------------------------------------

LEMMA InitInv ==
  ASSUME Init
  PROVE  Inv
<1>1. \A s \in Stores : Seed.lists[s] \in SUBSET Entry /\ store[s] = Keyed(Seed.lists[s])
  BY ProjectConfigAssumption DEF Init, Snapshot
<1>2. \A s \in Stores : Good(store[s])
  BY <1>1, KeyedGood
<1>4. store \in [Stores -> Contents] /\ DOMAIN store = Stores
  BY <1>2 DEF Init, Good
<1>5. \A r \in Reqs : req[r] = Idle
  BY DEF Init
<1>6. req \in [Reqs -> Call] /\ \A r \in Reqs : Sound(req[r])
  BY <1>5, IdleHarmless DEF Init, Harmless
<1>7. files = {} /\ Rest
  BY ProjectConfigAssumption DEF Init, Rest
<1>8. QED BY <1>2, <1>4, <1>6, <1>7 DEF Inv, Shapes, StoreInv, CallsInv, Rest

LEMMA NextInv ==
  ASSUME Inv, [Next]_vars
  PROVE  Inv'
<1>1. CASE \E r \in Reqs : Manage(r)
  BY <1>1, ManageStep
<1>2. CASE \E r \in Reqs : Job(r)
  <2>1. PICK r \in Reqs : Job(r)
    BY <1>2
  <2>2. CASE \/ StartJob(r, "export", NoSnapshot) \/ StartJob(r, "reset", NoSnapshot)
             \/ \E snap \in files \cup {Elsewhere} : StartJob(r, "import", snap)
    BY <2>2, StartJobInv
  <2>3. CASE ExportStep(r) \/ ExportKeys(r)
    BY <2>3, ExportStepInv, ExportKeysInv
  <2>4. CASE ImportDone(r) \/ ResetDone(r)
    BY <2>4, DoneInv
  <2>5. CASE ResetStep(r) \/ RestoreStep(r) \/ SeedStep(r)
    BY <2>5, ResetStepInv, RestoreStepInv, SeedStepInv
  <2>6. QED BY <2>1, <2>2, <2>3, <2>4, <2>5, Zenon DEF Job
<1>3. CASE \E r \in Reqs : BeginRead(r) \/ EndRead(r)
  BY <1>3, BeginReadInv, DoneInv
<1>4. CASE \E k \in Keys : PutUser(k)
  BY <1>4, PutUserStep
<1>5. CASE Swap \/ \E p \in Pems : PollSwap(p)
  BY <1>5, SwapInv
<1>6. CASE UNCHANGED vars
  <2>1. Rest' /\ UNCHANGED <<store, files, req>>
    BY <1>6, StoresGood DEF vars, keyVars, Rest
  <2>2. QED BY <2>1, KeyStep
<1>7. QED BY <1>1, <1>2, <1>3, <1>4, <1>5, <1>6, Zenon DEF Next

LEMMA InvHolds == Spec => []Inv
<1>1. Init => Inv
  BY InitInv
<1>2. Inv /\ [Next]_vars => Inv'
  BY NextInv
<1>3. QED BY <1>1, <1>2, PTL DEF Spec

\* Every variable keeps its shape, and every entry sits under the name a restore
\* would put it under, whatever renames, imports and resets run into each other.
THEOREM TypeCorrect == Spec => []TypeOK
<1>1. Inv => TypeOK
  <2>1. Inv => KeyedByName
    BY DEF Inv, StoreInv, Good, KeyedByName, Found
  <2>2. QED BY <2>1 DEF Inv, TypeOK
<1>2. Spec => []Inv
  BY InvHolds
<1>3. QED BY <1>1, <1>2, PTL

-----------------------------------------------------------------------------
(* Imports and exports under way *)

\* The file a call works from lists every name once.
Listed(snap) == \A s \in Stores : NamedOnce(snap.lists[s])

\* What an import that has done n steps is through with.
HasReset(n, s) == \E j \in 1..Len(ResetOrder) : ResetOrder[j] = s /\ j <= n
HasRestored(n, s) ==
  \E i \in 1..Len(ExportOrder) : ExportOrder[i] = s /\ Len(ResetOrder) + i <= n

\* The stores st hold what import c made of them, where nobody else wrote.
Follows(c, st) ==
  \A s \in Stores \ c.touched :
    LET restored == HasRestored(c.at, s) /\ Restores(c.snap, s)
    IN /\ restored => \E ds \in Accepted(s, c.snap.lists[s]) : st[s] = Keyed(ds)
       /\ HasReset(c.at, s) /\ ~restored => st[s] = Empty

\* Export c has in its file what the stores st it has come to still hold.
Pictures(c, st) ==
  /\ c.snap.methods /\ c.at <= Len(ExportOrder)
  /\ \A i \in 1..c.at :
       c.snap.lists[ExportOrder[i]] = {st[ExportOrder[i]][k] : k \in Keys} \ {None}

Faithful(c, st) ==
  /\ Listed(c.snap)
  /\ c.op = "import" => Follows(c, st)
  /\ c.op = "export" => Pictures(c, st)

ImportsInv ==
  /\ \A f \in files : Listed(f)
  /\ \A r \in Reqs : Faithful(req[r], store)

LEMMA IdleListed == Listed(NoSnapshot) /\ Idle.snap = NoSnapshot /\ Idle.op = "idle"
BY DEF Listed, NoSnapshot, NamedOnce, Idle

LEMMA EntriesNamedOnce ==
  ASSUME Inv, NEW s \in Stores
  PROVE  NamedOnce(Entries(s))
BY DEF Inv, StoreInv, Good, Entries, NamedOnce

\* A step of request r alone.
LEMMA CallFollows ==
  ASSUME ImportsInv, NEW r \in Reqs, NEW next, Faithful(next, store), req \in [Reqs -> Call],
         req' = [req EXCEPT ![r] = next], UNCHANGED <<store, files>>
  PROVE  ImportsInv'
<1>1. \A q \in Reqs : Faithful(req'[q], store)
  BY DEF ImportsInv
<1>2. QED BY <1>1 DEF ImportsInv

\* A visit that writes store s: the imports of the others lose it from sight.
LEMMA WriteFollows ==
  ASSUME Inv, ImportsInv, NEW r, NEW s \in Stores, NEW c, NEW next,
         Faithful(next, [store EXCEPT ![s] = c]), Write(r, s, c, next), UNCHANGED files
  PROVE  ImportsInv'
<1>1. store' = [store EXCEPT ![s] = c] /\ store \in [Stores -> Contents]
  BY DEF Write, Inv, Shapes
<1>2. ASSUME NEW q \in Reqs PROVE Faithful(req'[q], store')
  <2>1. Faithful(req[q], store) /\ req[q] \in Call
    BY DEF ImportsInv, Inv, Shapes
  <2>2. CASE q = r
    BY <1>1, <2>2 DEF Write
  <2>3. CASE q # r /\ ~At(q, "import")
    <3>1. req'[q] = req[q] /\ req[q].op # "import"
      BY <2>3 DEF Write, At
    <3>2. ASSUME req[q].op = "export" PROVE Pictures(req[q], store')
      <4>1. Pictures(req[q], store) /\ req[q].at \in Nat
        BY <2>1, <3>2 DEF Faithful, Call
      <4>2. \A i \in 1..req[q].at : ExportOrder[i] # s
        BY <3>2 DEF Write, HeldByExport, At
      <4>3. \A i \in 1..req[q].at : ExportOrder[i] \in Stores
        BY <4>1, JobOrders DEF Pictures
      <4>4. \A i \in 1..req[q].at : store'[ExportOrder[i]] = store[ExportOrder[i]]
        BY <1>1, <4>2, <4>3
      <4>5. ASSUME NEW i \in 1..req[q].at
            PROVE  req[q].snap.lists[ExportOrder[i]]
                     = {store'[ExportOrder[i]][k] : k \in Keys} \ {None}
        <5> DEFINE e == ExportOrder[i]
        <5>1. req[q].snap.lists[e] = {store[e][k] : k \in Keys} \ {None}
          BY <4>1 DEF Pictures
        <5>2. store'[e] = store[e]
          BY <4>4
        <5> HIDE DEF e
        <5>3. req[q].snap.lists[e] = {store'[e][k] : k \in Keys} \ {None}
          BY <5>1, <5>2
        <5>4. QED BY <5>3 DEF e
      <4>6. QED BY <4>1, <4>5 DEF Pictures
    <3>3. QED BY <2>1, <3>1, <3>2 DEF Faithful
  <2>4. CASE q # r /\ At(q, "import")
    <3> DEFINE d == [req[q] EXCEPT !.touched = @ \cup {s}]
    <3>1. req'[q] = d
      BY <2>4 DEF Write
    <3>2. d.snap = req[q].snap /\ d.at = req[q].at /\ d.touched = req[q].touched \cup {s}
      BY <2>1 DEF Call
    <3> HIDE DEF d
    <3>3. Follows(req[q], store) /\ Listed(req[q].snap)
      BY <2>1, <2>4 DEF Faithful, At
    <3>4. \A x \in Stores \ d.touched : x \in Stores \ req[q].touched /\ store'[x] = store[x]
      BY <1>1, <3>2
    <3>5. Follows(d, store')
      BY <3>2, <3>3, <3>4, Zenon DEF Follows
    <3>6. d.op = "import"
      BY <2>1, <2>4, <3>1 DEF Call, At, Write
    <3>7. QED BY <3>1, <3>2, <3>3, <3>5, <3>6 DEF Faithful
  <2>5. QED BY <2>2, <2>3, <2>4
<1>3. QED BY <1>2 DEF ImportsInv

-----------------------------------------------------------------------------
(* Management calls beside an import *)

LEMMA EditFollows ==
  ASSUME Inv, ImportsInv, NEW r \in Reqs, NEW s \in Stores, NEW c, Edit(r, s, c)
  PROVE  ImportsInv'
<1>1. Faithful(Idle, [store EXCEPT ![s] = c])
  BY IdleListed DEF Faithful
<1>2. QED BY <1>1, WriteFollows DEF Edit

LEMMA TenantFollows ==
  ASSUME Inv, ImportsInv, NEW r \in Reqs,
         \/ \E k \in Keys : CreateTenant(r, k) \/ UpdateTenant(r, k)
         \/ FinishTenant(r)
  PROVE  ImportsInv'
<1>1. req[r] \in Call /\ req \in [Reqs -> Call] /\ "tenants" \in Stores /\ Listed(req[r].snap)
  BY StoreNames DEF Inv, Shapes, ImportsInv, Faithful
<1>2. ASSUME NEW c, NEW next, next.op \notin {"import", "export"}, Listed(next.snap),
             Write(r, "tenants", c, next), UNCHANGED files
      PROVE  ImportsInv'
  <2>1. Faithful(next, [store EXCEPT !["tenants"] = c])
    BY <1>2 DEF Faithful
  <2>2. QED BY <1>1, <1>2, <2>1, WriteFollows
<1>3. CASE \E k \in Keys : CreateTenant(r, k) \/ UpdateTenant(r, k)
  <2>1. PICK k \in Keys : CreateTenant(r, k) \/ UpdateTenant(r, k)
    BY <1>3
  <2> DEFINE more == [req[r] EXCEPT !.op = "tenant", !.tenant = k]
  <2>2. more.op = "tenant" /\ more.snap = req[r].snap
    BY <1>1 DEF Call
  <2> HIDE DEF more
  <2>3. PICK next \in {Idle, more}, f \in BOOLEAN :
          Write(r, "tenants", Put(store["tenants"], k, f), next) /\ UNCHANGED files
    BY <2>1 DEF CreateTenant, UpdateTenant, more
  <2>4. next.op \notin {"import", "export"} /\ Listed(next.snap)
    BY <1>1, <2>2, <2>3, IdleListed
  <2>5. QED BY <1>2, <2>3, <2>4
<1>4. CASE FinishTenant(r)
  <2> DEFINE k == req[r].tenant
  <2>1. UNCHANGED files /\ req[r].op = "tenant"
    BY <1>4 DEF FinishTenant, At
  <2>2. CASE Found("tenants", k)
    <3>1. PICK next \in {Idle, req[r]} :
            Write(r, "tenants", Put(store["tenants"], k, TRUE), next)
      BY <1>4, <2>2 DEF FinishTenant
    <3>2. next.op \notin {"import", "export"} /\ Listed(next.snap)
      BY <1>1, <2>1, <3>1, IdleListed
    <3>3. QED BY <1>2, <2>1, <3>1, <3>2
  <2>3. CASE ~Found("tenants", k)
    <3>1. req' = [req EXCEPT ![r] = Idle] /\ UNCHANGED <<store, files>>
      BY <1>4, <2>3 DEF FinishTenant, Answer
    <3>2. Faithful(Idle, store)
      BY IdleListed DEF Faithful
    <3>3. QED BY <1>1, <3>1, <3>2, CallFollows
  <2>4. QED BY <2>2, <2>3
<1>5. QED BY <1>3, <1>4

LEMMA ManageFollows ==
  ASSUME Inv, ImportsInv, NEW r \in Reqs, Manage(r)
  PROVE  ImportsInv'
<1>1. req \in [Reqs -> Call] /\ req[r] \in Call /\ Listed(req[r].snap)
  BY DEF Inv, Shapes, ImportsInv, Faithful
<1>2. CASE \E k \in Keys \cup {None} : Admit(r, k)
  <2> DEFINE next == [req[r] EXCEPT !.op = "admitted"]
  <2>1. next.op = "admitted" /\ next.snap = req[r].snap
    BY <1>1 DEF Call
  <2>2. req' = [req EXCEPT ![r] = next] /\ UNCHANGED <<store, files>>
    BY <1>2 DEF Admit
  <2> HIDE DEF next
  <2>3. QED BY <1>1, <2>1, <2>2, CallFollows DEF Faithful
<1>3. CASE AnswerOnly(r)
  <2>1. req' = [req EXCEPT ![r] = Idle] /\ UNCHANGED <<store, files>>
    BY <1>3 DEF AnswerOnly, Answer
  <2>2. QED BY <1>1, <2>1, IdleListed, CallFollows DEF Faithful
<1>4. CASE \E k \in Keys :
             \/ CreateRole(r, k) \/ CreatePermission(r, k) \/ CreateConnector(r, k)
             \/ CreateAttribute(r, k) \/ CreateAccessKey(r, k) \/ CreateIdp(r, k)
             \/ UpdateConnector(r, k) \/ UpdateIdp(r, k)
  BY <1>4, StoreNames, EditFollows
     DEF Create, Update, CreateRole, CreatePermission, CreateConnector, CreateAttribute,
         CreateAccessKey, CreateIdp, UpdateConnector, UpdateIdp
<1>5. CASE \E k \in Keys :
             \/ DeleteRole(r, k) \/ DeletePermission(r, k) \/ DeleteTemplate(r, k)
             \/ DeleteConnector(r, k) \/ DeleteAttribute(r, k) \/ DeleteAccessKey(r, k)
             \/ DeleteIdp(r, k) \/ DeleteTenant(r, k)
  BY <1>5, StoreNames, EditFollows
     DEF Delete, DeleteRole, DeletePermission, DeleteTemplate, DeleteConnector, DeleteAttribute,
         DeleteAccessKey, DeleteIdp, DeleteTenant
<1>6. CASE \E k \in Keys, j \in Keys, f \in BOOLEAN :
             \/ UpdateRole(r, k, j) \/ UpdatePermission(r, k, j)
             \/ CreateTemplate(r, k, f) \/ UpdateTemplate(r, k, f) \/ SetActiveTemplate(r, k)
             \/ DisableAccessKey(r, k) \/ PutAuthMethods(r, k)
  BY <1>6, StoreNames, EditFollows
     DEF UpdateRole, UpdatePermission, CreateTemplate, UpdateTemplate, SetActiveTemplate,
         DisableAccessKey, PutAuthMethods
<1>7. CASE (\E k \in Keys : CreateTenant(r, k) \/ UpdateTenant(r, k)) \/ FinishTenant(r)
  BY <1>7, TenantFollows
<1>8. QED BY <1>2, <1>3, <1>4, <1>5, <1>6, <1>7, Zenon DEF Manage

LEMMA PutUserFollows ==
  ASSUME Inv, ImportsInv, NEW k \in Keys, PutUser(k)
  PROVE  ImportsInv'
<1>1. Write(None, "users", Put(store["users"], k, TRUE), Idle) /\ UNCHANGED files
  BY DEF PutUser
<1> DEFINE c == Put(store["users"], k, TRUE)
<1>2. Faithful(Idle, [store EXCEPT !["users"] = c])
  BY IdleListed DEF Faithful
<1> HIDE DEF c
<1>3. QED BY <1>1, <1>2, StoreNames, WriteFollows DEF c

-----------------------------------------------------------------------------
(* The import's own visits, and those of the other jobs *)

LEMMA Lengths ==
  /\ Len(ResetOrder) = 4 /\ Len(ExportOrder) = 10 /\ Len(SeedOrder) = 8
  /\ Len(ImportSteps) = 14 /\ Len(ResetSteps) = 12
<1>1. Len(ResetOrder) = 4 /\ Len(ExportOrder) = 10 /\ Len(SeedOrder) = 8
  BY DEF ResetOrder, ExportOrder, SeedOrder
<1>2. QED BY <1>1 DEF ImportSteps, ResetSteps

\* An import resets in its order and then restores in the order of the file.
LEMMA ImportStepIs ==
  ASSUME Inv, NEW r \in Reqs, At(r, "import"), req[r].at < Len(ImportSteps)
  PROVE  IF req[r].at < Len(ResetOrder)
         THEN Step(r) = <<"reset", ResetOrder[req[r].at + 1]>>
         ELSE /\ req[r].at - Len(ResetOrder) + 1 \in 1..Len(ExportOrder)
              /\ Step(r) = <<"restore", ExportOrder[req[r].at - Len(ResetOrder) + 1]>>
<1> DEFINE n == req[r].at + 1
           first == [i \in 1..Len(ResetOrder) |-> <<"reset", ResetOrder[i]>>]
           second == [i \in 1..Len(ExportOrder) |-> <<"restore", ExportOrder[i]>>]
<1>1. req[r].at \in Nat
  BY ReqHarmless
<1>2. Step(r) = (first \o second)[n]
  BY DEF Step, ImportSteps
<1>3. Len(first) = 4 /\ Len(second) = 10 /\ n \in 1..14
  BY <1>1, Lengths
<1>4. (first \o second)[n] = IF n <= 4 THEN first[n] ELSE second[n - 4]
  <2>1. first \in Seq({"reset", "restore", "seed"} \X Stores)
        /\ second \in Seq({"reset", "restore", "seed"} \X Stores)
    BY JobOrders, StepsOf
  <2> DEFINE both == first \o second
  <2> HIDE DEF first, second, n
  <2>2. \A i \in 1..Len(first) + Len(second) :
          both[i] = IF i <= Len(first) THEN first[i] ELSE second[i - Len(first)]
    BY <2>1, ConcatProperties
  <2>3. Len(first) + Len(second) = 14 /\ n \in Int
    BY <1>3
  <2> HIDE DEF both
  <2>4. both[n] = IF n <= 4 THEN first[n] ELSE second[n - 4]
    BY <1>3, <2>2, <2>3
  <2>5. QED BY <2>4 DEF both
<1>5. QED BY <1>1, <1>2, <1>3, <1>4, Lengths

LEMMA ResetJobSteps == ResetSteps \in Seq({"reset", "seed"} \X Stores)
<1> DEFINE T == Seq({"reset", "seed"} \X Stores)
           first == [i \in 1..Len(ResetOrder) |-> <<"reset", ResetOrder[i]>>]
           second == [i \in 1..Len(SeedOrder) |-> <<"seed", SeedOrder[i]>>]
<1>1. ASSUME NEW what \in {"reset", "seed"}, NEW steps \in Seq(Stores)
      PROVE  [i \in 1..Len(steps) |-> <<what, steps[i]>>] \in T
  <2>1. Len(steps) \in Nat
        /\ \A i \in 1..Len(steps) : <<what, steps[i]>> \in {"reset", "seed"} \X Stores
    OBVIOUS
  <2>2. QED BY <2>1
<1>2. first \in T /\ second \in T
  BY <1>1, JobOrders
<1> HIDE DEF first, second
<1>3. first \o second \in T
  BY <1>2
<1>4. QED BY <1>3 DEF ResetSteps, first, second

LEMMA ResetFollows ==
  ASSUME Inv, ImportsInv, NEW r \in Reqs, ResetStep(r)
  PROVE  ImportsInv'
<1> DEFINE s == Step(r)[2]
           d == Done(r)
           st == [store EXCEPT ![s] = Empty]
<1>1. req[r] \in Call /\ Faithful(req[r], store) /\ store \in [Stores -> Contents]
      /\ req[r].at \in Nat
  BY DEF Inv, Shapes, ImportsInv, Call
<1>2. s \in Stores
  BY StepStore DEF ResetStep
<1>3. d.op = req[r].op /\ d.snap = req[r].snap /\ d.at = req[r].at + 1
      /\ d.touched = req[r].touched
  BY <1>1 DEF Done, Call
<1>4. ASSUME req[r].op = "import" PROVE Follows(d, st)
  <2>1. req[r].at < Len(ResetOrder) /\ s = ResetOrder[req[r].at + 1]
    <3>1. req[r].at < Len(ImportSteps)
      BY <1>4 DEF ResetStep, Step, At
    <3>2. QED BY <1>4, <3>1, ImportStepIs DEF ResetStep, At
  <2>2. Follows(req[r], store)
    BY <1>1, <1>4 DEF Faithful
  <2>3. \A x \in Stores : ~HasRestored(d.at, x) /\ ~HasRestored(req[r].at, x)
    BY <1>1, <1>3, <2>1, Lengths DEF HasRestored
  <2>4. \A x \in Stores : HasReset(d.at, x) => HasReset(req[r].at, x) \/ x = s
    BY <1>1, <1>3, <2>1, Lengths DEF HasReset
  <2> HIDE DEF d, s
  <2>5. \A x \in Stores : st[x] = IF x = s THEN Empty ELSE store[x]
    BY <1>1
  <2> HIDE DEF st
  <2>6. QED BY <1>3, <2>2, <2>3, <2>4, <2>5 DEF Follows
<1>5. Faithful(d, st)
  <2>1. req[r].op # "export"
    BY StepOfJob DEF ResetStep, At
  <2>2. QED BY <1>1, <1>3, <1>4, <2>1 DEF Faithful
<1>6. Write(r, s, Empty, d) /\ UNCHANGED files
  BY DEF ResetStep
<1> HIDE DEF d, s
<1>7. QED BY <1>2, <1>5, <1>6, WriteFollows

LEMMA RestoreFollows ==
  ASSUME Inv, ImportsInv, NEW r \in Reqs, RestoreStep(r)
  PROVE  ImportsInv'
<1> DEFINE n == req[r].at
           s == Step(r)[2]
           es == req[r].snap.lists[s]
           d == Done(r)
           clear == [d EXCEPT !.touched = @ \ {s}]
<1>1. req[r] \in Call /\ Faithful(req[r], store) /\ store \in [Stores -> Contents]
      /\ n \in Nat /\ req \in [Reqs -> Call]
  BY DEF Inv, Shapes, ImportsInv, Call
<1>2. s \in Stores /\ UNCHANGED files
  BY StepStore DEF RestoreStep
<1>3. d \in Call /\ d.op = req[r].op /\ d.snap = req[r].snap /\ d.at = n + 1
      /\ d.touched = req[r].touched
  BY <1>1, DoneHarmless DEF Done, Call, Harmless
<1>4. req[r].op = "import" /\ n < Len(ImportSteps)
  <2>1. At(r, "import")
    <3>1. ResetSteps \in Seq({"reset", "seed"} \X Stores)
      BY ResetJobSteps
    <3>2. QED BY <1>1, <3>1 DEF RestoreStep, Step
  <2>2. QED BY <2>1 DEF RestoreStep, Step, At
<1>5. n >= Len(ResetOrder) /\ n - Len(ResetOrder) + 1 \in 1..Len(ExportOrder)
      /\ s = ExportOrder[n - Len(ResetOrder) + 1]
  <2>1. Step(r)[1] = "restore"
    BY DEF RestoreStep
  <2>2. QED BY <1>1, <1>4, <2>1, ImportStepIs, Lengths DEF At
<1>6. Follows(req[r], store) /\ Listed(req[r].snap)
  BY <1>1, <1>4 DEF Faithful
<1>7. /\ \A x \in Stores : HasRestored(n + 1, x) <=> HasRestored(n, x) \/ x = s
      /\ \A x \in Stores : HasReset(n + 1, x) <=> HasReset(n, x)
  <2> HIDE DEF n, s
  <2>1. QED BY <1>1, <1>5, Lengths DEF HasRestored, HasReset
<1>8. CASE Restores(req[r].snap, s)
  <2>0. PICK ds \in Accepted(s, es) : Write(r, s, Keyed(ds), clear)
    BY <1>8 DEF RestoreStep
  <2> DEFINE st == [store EXCEPT ![s] = Keyed(ds)]
  <2>1. clear.op = d.op /\ clear.snap = d.snap /\ clear.at = d.at
        /\ clear.touched = d.touched \ {s}
    BY <1>3 DEF Call
  <2> HIDE DEF clear, d, n
  <2>3. \A x \in Stores : st[x] = IF x = s THEN Keyed(ds) ELSE store[x]
    BY <1>1, <1>2
  <2>4. \A x \in Stores \ clear.touched : x = s \/ x \in Stores \ req[r].touched
    BY <1>3, <2>1
  <2>5. Follows(clear, st)
    <3> HIDE DEF st, s
    <3>1. QED BY <1>3, <1>6, <1>7, <1>8, <2>0, <2>1, <2>3, <2>4 DEF Follows, n
  <2>6. Faithful(clear, st)
    BY <1>3, <1>4, <1>6, <2>1, <2>5 DEF Faithful
  <2> HIDE DEF s, es
  <2>7. QED BY <1>2, <2>0, <2>6, WriteFollows
<1>9. CASE ~Restores(req[r].snap, s)
  <2>1. req' = [req EXCEPT ![r] = d] /\ UNCHANGED store
    BY <1>9 DEF RestoreStep
  <2> HIDE DEF d, s
  <2>2. Follows(d, store)
    BY <1>3, <1>6, <1>7, <1>9 DEF Follows
  <2>3. Faithful(d, store)
    BY <1>3, <1>4, <1>6, <2>2 DEF Faithful
  <2>4. QED BY <1>1, <1>2, <2>1, <2>3, CallFollows
<1>10. QED BY <1>8, <1>9

LEMMA SeedFollows ==
  ASSUME Inv, ImportsInv, NEW r \in Reqs, SeedStep(r)
  PROVE  ImportsInv'
<1> DEFINE s == Step(r)[2]
           d == Done(r)
<1>1. req[r] \in Call /\ Listed(req[r].snap) /\ req \in [Reqs -> Call]
  BY DEF Inv, Shapes, ImportsInv, Faithful
<1>2. s \in Stores /\ UNCHANGED files
  BY StepStore DEF SeedStep
<1>3. req[r].op \notin {"import", "export"}
  <2>1. Step(r)[1] = "seed"
    BY DEF SeedStep
  <2>2. At(r, "import") => req[r].at < Len(ImportSteps)
    BY <2>1 DEF Step
  <2>3. req[r].op # "export"
    BY <2>1, StepOfJob DEF At
  <2>4. QED BY <2>1, <2>2, <2>3, ImportStepIs DEF At
<1>4. d.op = req[r].op /\ d.snap = req[r].snap
  BY <1>1 DEF Done, Call
<1>5. \/ req' = [req EXCEPT ![r] = d] /\ UNCHANGED store
      \/ \E c : Write(r, s, c, d)
  BY DEF SeedStep
<1> HIDE DEF s, d
<1>6. \A st : Faithful(d, st)
  BY <1>1, <1>3, <1>4 DEF Faithful
<1>7. QED BY <1>1, <1>2, <1>5, <1>6, CallFollows, WriteFollows

\* An import starts with the file it was sent, and is through with nothing.
LEMMA StartFollows ==
  ASSUME Inv, ImportsInv, NEW r \in Reqs,
         \/ StartJob(r, "export", NoSnapshot) \/ StartJob(r, "reset", NoSnapshot)
         \/ \E snap \in files \cup {Elsewhere} : StartJob(r, "import", snap)
  PROVE  ImportsInv'
<1>1. PICK o \in {"export", "reset", "import"}, snap \in files \cup {Elsewhere, NoSnapshot} :
        StartJob(r, o, snap) /\ (o = "export" => snap = NoSnapshot)
  OBVIOUS
<1> DEFINE next == [Idle EXCEPT !.op = o, !.snap = snap]
<1>2. next.snap = snap /\ next.at = 0 /\ next.op = o
  BY DEF Idle
<1>3. Listed(snap)
  BY <1>1, IdleListed, ListsAssumption DEF ImportsInv, Listed
<1>4. req' = [req EXCEPT ![r] = next] /\ UNCHANGED <<store, files>> /\ req \in [Reqs -> Call]
  BY <1>1 DEF StartJob, Inv, Shapes
<1> HIDE DEF next
<1>5. \A s \in Stores : ~HasReset(next.at, s) /\ ~HasRestored(next.at, s)
  BY <1>2, Lengths DEF HasReset, HasRestored
<1>6. next.op = "export" => next.snap.methods
  BY <1>1, <1>2 DEF NoSnapshot
<1>7. next.op = "export" => Pictures(next, store)
  BY <1>2, <1>6, Lengths DEF Pictures
<1>8. Faithful(next, store)
  BY <1>2, <1>3, <1>5, <1>7 DEF Faithful, Follows
<1>9. QED BY <1>4, <1>8, CallFollows

LEMMA ExportFollows ==
  ASSUME Inv, ImportsInv, NEW r \in Reqs, ExportStep(r)
  PROVE  ImportsInv'
<1> DEFINE s == ExportOrder[req[r].at + 1]
           d == Done(r)
           next == [d EXCEPT !.snap.lists[s] = Entries(s)]
<1>1. req[r] \in Call /\ Listed(req[r].snap) /\ req \in [Reqs -> Call]
  BY DEF Inv, Shapes, ImportsInv, Faithful
<1>2. s \in Stores /\ req[r].at \in Nat /\ req[r].at < Len(ExportOrder)
  <2>1. req[r].at \in Nat /\ req[r].at < Len(ExportOrder)
    BY ReqHarmless DEF ExportStep
  <2>2. QED BY <2>1, JobOrders
<1>3. d \in Call /\ d.op = "export" /\ d.snap = req[r].snap /\ d.at = req[r].at + 1
      /\ Pictures(req[r], store)
  BY <1>1, DoneHarmless DEF Done, Call, Harmless, ExportStep, At, ImportsInv, Faithful
<1>4. req' = [req EXCEPT ![r] = next] /\ UNCHANGED <<store, files>>
  BY DEF ExportStep
<1>0. s = ExportOrder[req[r].at + 1]
  OBVIOUS
<1> HIDE DEF s, d
<1>5. next.op = "export" /\ next.at = d.at /\ next.snap.methods = d.snap.methods
      /\ next.snap.lists = [d.snap.lists EXCEPT ![s] = Entries(s)]
  BY <1>3 DEF Call, Snapshot
<1> HIDE DEF next
<1>6. d.snap.lists \in [Stores -> SUBSET Entry]
  BY <1>3 DEF Call, Snapshot
<1>7. \A x \in Stores : next.snap.lists[x] = IF x = s THEN Entries(s) ELSE d.snap.lists[x]
  BY <1>2, <1>5, <1>6
<1>8. Listed(next.snap)
  BY <1>1, <1>2, <1>3, <1>7, EntriesNamedOnce DEF Listed
<1>9. Pictures(next, store)
  <2> SUFFICES ASSUME NEW i \in 1..next.at
               PROVE  next.snap.lists[ExportOrder[i]]
                        = {store[ExportOrder[i]][k] : k \in Keys} \ {None}
    BY <1>2, <1>3, <1>5, Lengths DEF Pictures
  <2>1. CASE i = req[r].at + 1
    BY <1>0, <1>2, <1>7, <2>1 DEF Entries
  <2>2. CASE i \in 1..req[r].at
    <3>1. ExportOrder[i] \in Stores
      BY <1>2, <2>2, JobOrders
    <3>2. d.snap.lists[ExportOrder[i]] = Entries(ExportOrder[i])
      BY <1>3, <2>2 DEF Entries, Pictures
    <3>3. next.snap.lists[ExportOrder[i]] = Entries(ExportOrder[i])
      BY <1>7, <3>1, <3>2
    <3>4. QED BY <3>3 DEF Entries
  <2>3. QED BY <1>2, <1>3, <1>5, <2>1, <2>2
<1>10. Faithful(next, store)
  BY <1>5, <1>8, <1>9 DEF Faithful
<1>11. QED BY <1>1, <1>4, <1>10, CallFollows

LEMMA ExportKeysFollows ==
  ASSUME Inv, ImportsInv, NEW r \in Reqs, ExportKeys(r)
  PROVE  ImportsInv'
<1> DEFINE f == [req[r].snap EXCEPT !.pem = key]
<1>1. /\ files' = files \cup {f} /\ req' = [req EXCEPT ![r] = Idle] /\ UNCHANGED store
      /\ req \in [Reqs -> Call]
  BY DEF ExportKeys, Answer, Inv, Shapes
<1>2. f.lists = req[r].snap.lists /\ Listed(req[r].snap)
  BY ReqHarmless DEF Snapshot, ImportsInv, Faithful
<1> HIDE DEF f
<1>3. \A g \in files' : Listed(g)
  BY <1>1, <1>2 DEF ImportsInv, Listed
<1>4. \A q \in Reqs : Faithful(req'[q], store)
  BY <1>1, IdleListed DEF ImportsInv, Faithful
<1>5. QED BY <1>1, <1>3, <1>4 DEF ImportsInv

\* Steps that end a job or take the lock of the signing key.
LEMMA QuietFollows ==
  ASSUME Inv, ImportsInv, NEW r \in Reqs,
         ImportDone(r) \/ ResetDone(r) \/ BeginRead(r) \/ EndRead(r)
  PROVE  ImportsInv'
<1> DEFINE next == [req[r] EXCEPT !.op = "reading"]
<1>1. req[r] \in Call /\ Listed(req[r].snap) /\ req \in [Reqs -> Call]
  BY DEF Inv, Shapes, ImportsInv, Faithful
<1>2. next.op = "reading" /\ next.snap = req[r].snap
  BY <1>1 DEF Call
<1>3. /\ req' = [req EXCEPT ![r] = Idle] \/ req' = [req EXCEPT ![r] = next]
      /\ UNCHANGED <<store, files>>
  BY DEF ImportDone, ResetDone, BeginRead, EndRead, Answer
<1> HIDE DEF next
<1>4. Faithful(Idle, store) /\ Faithful(next, store)
  BY <1>1, <1>2, IdleListed DEF Faithful
<1>5. QED BY <1>1, <1>3, <1>4, CallFollows

-----------------------------------------------------------------------------

LEMMA NextFollows ==
  ASSUME Inv, ImportsInv, [Next]_vars
  PROVE  ImportsInv'
<1>1. CASE \E r \in Reqs : Manage(r)
  BY <1>1, ManageFollows
<1>2. CASE \E r \in Reqs : Job(r)
  <2>1. PICK r \in Reqs : Job(r)
    BY <1>2
  <2>2. CASE \/ StartJob(r, "export", NoSnapshot) \/ StartJob(r, "reset", NoSnapshot)
             \/ \E snap \in files \cup {Elsewhere} : StartJob(r, "import", snap)
    BY <2>2, StartFollows
  <2>3. CASE ExportStep(r) \/ ExportKeys(r)
    BY <2>3, ExportFollows, ExportKeysFollows
  <2>4. CASE ImportDone(r) \/ ResetDone(r)
    BY <2>4, QuietFollows
  <2>5. CASE ResetStep(r) \/ RestoreStep(r) \/ SeedStep(r)
    BY <2>5, ResetFollows, RestoreFollows, SeedFollows
  <2>6. QED BY <2>1, <2>2, <2>3, <2>4, <2>5, Zenon DEF Job
<1>3. CASE \E r \in Reqs : BeginRead(r) \/ EndRead(r)
  BY <1>3, QuietFollows
<1>4. CASE \E k \in Keys : PutUser(k)
  BY <1>4, PutUserFollows
<1>5. CASE (Swap \/ \E p \in Pems : PollSwap(p)) \/ UNCHANGED vars
  <2>1. UNCHANGED <<store, files, req>>
    BY <1>5 DEF Swap, PollSwap, vars
  <2>2. QED BY <2>1 DEF ImportsInv
<1>6. QED BY <1>1, <1>2, <1>3, <1>4, <1>5, Zenon DEF Next

LEMMA EntriesOfKeyed ==
  ASSUME NEW es \in SUBSET Entry, NamedOnce(es)
  PROVE  {Keyed(es)[k] : k \in Keys} \ {None} = es
<1> DEFINE c == Keyed(es)
<1>1. \A k \in Keys : c[k] \in es \cup {None}
  BY DEF Keyed
<1>2. \A e \in es : e.name \in Keys /\ c[e.name] = e
  BY DEF Keyed, Entry, NamedOnce
<1>3. None \notin es
  BY ProjectConfigAssumption
<1> HIDE DEF c
<1>4. QED BY <1>1, <1>2, <1>3 DEF c

\* An import of snapshot.rs leaves every store as its file lists it, or empty where
\* reset_stores emptied it and the file has nothing to say, as far as it has come
\* and nobody else wrote that store: exports, resets, other imports and
\* management calls may run between any two of its visits.
THEOREM ImportRestoresHolds == Spec => []ImportRestores
<1>1. Init => ImportsInv
  BY IdleListed DEF Init, ImportsInv, Faithful
<1>2. Inv /\ ImportsInv /\ [Next]_vars => ImportsInv'
  BY NextFollows
<1>3. Inv /\ ImportsInv => ImportRestores
  <2> SUFFICES ASSUME Inv, ImportsInv, NEW r \in Reqs, NEW i \in 1..Len(ExportOrder),
                      At(r, "import"), req[r].at >= Len(ResetOrder) + i,
                      ExportOrder[i] \notin req[r].touched
               PROVE  LET s == ExportOrder[i]
                          snap == req[r].snap
                      IN /\ Restores(snap, s) => Entries(s) \in Accepted(s, snap.lists[s])
                         /\ /\ ~Restores(snap, s)
                            /\ \E j \in 1..Len(ResetOrder) : ResetOrder[j] = s
                            => Entries(s) = {}
    BY DEF ImportRestores
  <2> DEFINE s == ExportOrder[i]
             snap == req[r].snap
             es == snap.lists[s]
  <2>1. s \in Stores /\ HasRestored(req[r].at, s)
    BY JobOrders DEF HasRestored
  <2>2. Follows(req[r], store) /\ NamedOnce(es) /\ es \in SUBSET Entry
    BY <2>1, ReqHarmless DEF ImportsInv, Faithful, Listed, At, Snapshot
  <2>3. req[r].at \in Nat /\ (\E j \in 1..Len(ResetOrder) : ResetOrder[j] = s)
          => HasReset(req[r].at, s)
    BY Lengths DEF HasReset
  <2>4. Restores(snap, s) => \E ds \in Accepted(s, es) : store[s] = Keyed(ds)
    BY <2>1, <2>2 DEF Follows
  <2>5. ~Restores(snap, s) /\ HasReset(req[r].at, s) => store[s] = Empty
    BY <2>1, <2>2 DEF Follows
  <2>6. ASSUME NEW ds \in Accepted(s, es), store[s] = Keyed(ds)
        PROVE  Entries(s) = ds
    <3>1. ds \in SUBSET Entry /\ NamedOnce(ds)
      BY <2>2 DEF Accepted, NamedOnce
    <3>2. QED BY <2>6, <3>1, EntriesOfKeyed DEF Entries
  <2>7. store[s] = Empty => Entries(s) = {}
    BY DEF Entries, Empty
  <2> HIDE DEF s, es, snap
  <2>8. Restores(snap, s) => Entries(s) \in Accepted(s, es)
    BY <2>4, <2>6
  <2>9. ~Restores(snap, s) /\ (\E j \in 1..Len(ResetOrder) : ResetOrder[j] = s)
          => Entries(s) = {}
    BY <2>3, <2>5, <2>7, ReqHarmless
  <2>10. QED BY <2>8, <2>9 DEF s, es, snap
<1>4. Spec => []Inv
  BY InvHolds
<1>5. QED BY <1>1, <1>2, <1>3, <1>4, PTL DEF Spec

-----------------------------------------------------------------------------
(* Where an export ends *)

\* No request but q, if that, stops exporting.
Spares(q) == \A r \in Reqs \ {q} : At(r, "export") => At(r, "export")'

LEMMA WriteSpares ==
  ASSUME Inv, NEW q, NEW s, NEW c, NEW next, Write(q, s, c, next)
  PROVE  Spares(q)
BY DEF Write, Spares, At, Inv, Shapes, Call

LEMMA CallSpares ==
  ASSUME Inv, NEW q, NEW next, req' = [req EXCEPT ![q] = next]
  PROVE  Spares(q)
BY DEF Spares, At, Inv, Shapes

\* A management call is none of the exports, and changes no other request.
LEMMA ManageSpares ==
  ASSUME Inv, NEW q \in Reqs, Manage(q)
  PROVE  Spares(q) /\ ~At(q, "export")
<1>1. CASE (\E k \in Keys \cup {None} : Admit(q, k)) \/ AnswerOnly(q)
  BY <1>1, CallSpares DEF Admit, AnswerOnly, Answer, At
<1>2. ASSUME NEW s, NEW c, Edit(q, s, c) PROVE Spares(q) /\ ~At(q, "export")
  BY <1>2, WriteSpares DEF Edit, At
<1>3. CASE (\E k \in Keys : CreateTenant(q, k) \/ UpdateTenant(q, k)) \/ FinishTenant(q)
  <2>1. ~At(q, "export")
    BY <1>3, Zenon DEF CreateTenant, UpdateTenant, FinishTenant, At
  <2>2. \/ \E s, c, next : Write(q, s, c, next)
        \/ req' = [req EXCEPT ![q] = Idle]
    <3>1. CASE FinishTenant(q)
      BY <3>1, Zenon DEF FinishTenant, Answer
    <3>2. CASE \E k \in Keys : CreateTenant(q, k) \/ UpdateTenant(q, k)
      BY <3>2, Zenon DEF CreateTenant, UpdateTenant
    <3>3. QED BY <1>3, <3>1, <3>2
  <2>3. QED BY <2>1, <2>2, WriteSpares, CallSpares
<1>4. CASE \E s, c : Edit(q, s, c)
  BY <1>2, <1>4
<1>5. ASSUME NEW k \in Keys,
             \/ CreateRole(q, k) \/ DeleteRole(q, k)
             \/ CreatePermission(q, k) \/ DeletePermission(q, k)
             \/ \E j \in Keys : UpdateRole(q, k, j) \/ UpdatePermission(q, k, j)
             \/ \E f \in BOOLEAN : CreateTemplate(q, k, f) \/ UpdateTemplate(q, k, f)
             \/ SetActiveTemplate(q, k) \/ DeleteTemplate(q, k)
             \/ CreateConnector(q, k) \/ UpdateConnector(q, k) \/ DeleteConnector(q, k)
             \/ CreateAttribute(q, k) \/ DeleteAttribute(q, k)
             \/ CreateAccessKey(q, k) \/ DisableAccessKey(q, k) \/ DeleteAccessKey(q, k)
             \/ CreateIdp(q, k) \/ UpdateIdp(q, k) \/ DeleteIdp(q, k)
             \/ PutAuthMethods(q, k) \/ DeleteTenant(q, k)
      PROVE  \E s, c : Edit(q, s, c)
  BY <1>5, Zenon
     DEF CreateRole, DeleteRole, CreatePermission, DeletePermission, UpdateRole, UpdatePermission,
         CreateTemplate, UpdateTemplate, SetActiveTemplate, DeleteTemplate, CreateConnector,
         UpdateConnector, DeleteConnector, CreateAttribute, DeleteAttribute, CreateAccessKey,
         DisableAccessKey, DeleteAccessKey, CreateIdp, UpdateIdp, DeleteIdp, PutAuthMethods,
         DeleteTenant, Create, Update, Delete
<1>6. QED BY <1>1, <1>3, <1>4, <1>5, Zenon DEF Manage

\* An export ends only in ExportKeys.
LEMMA JobSpares ==
  ASSUME Inv, NEW q \in Reqs, Job(q), ~ExportKeys(q)
  PROVE  Spares(q) /\ (At(q, "export") => At(q, "export")')
<1>1. CASE ExportStep(q)
  <2> DEFINE d == Done(q)
             next == [d EXCEPT !.snap.lists[ExportOrder[req[q].at + 1]] =
                                 Entries(ExportOrder[req[q].at + 1])]
  <2>1. req' = [req EXCEPT ![q] = next] /\ At(q, "export")
    BY <1>1 DEF ExportStep
  <2>2. req[q] \in Call /\ req \in [Reqs -> Call] /\ d \in Call /\ d.op = req[q].op
    BY DoneHarmless DEF Inv, Shapes, Done, Call, Harmless
  <2> HIDE DEF d
  <2>3. next.op = d.op
    BY <2>2 DEF Call
  <2> HIDE DEF next
  <2>4. QED BY <2>1, <2>2, <2>3, CallSpares DEF At
<1>2. CASE \/ \E o, snap : StartJob(q, o, snap)
           \/ ImportDone(q) \/ ResetDone(q)
  BY <1>2, CallSpares DEF StartJob, ImportDone, ResetDone, Answer, At
<1>3. CASE ResetStep(q) \/ RestoreStep(q) \/ SeedStep(q)
  <2>1. ~At(q, "export")
    <3>1. At(q, "import") \/ At(q, "reset")
      BY <1>3, StepOfJob DEF ResetStep, RestoreStep, SeedStep
    <3>2. QED BY <3>1 DEF At
  <2>2. \/ \E s, c, next : Write(q, s, c, next)
        \/ \E next : req' = [req EXCEPT ![q] = next]
    <3>1. CASE ResetStep(q)
      BY <3>1, Zenon DEF ResetStep
    <3>2. CASE RestoreStep(q)
      BY <3>2, Zenon DEF RestoreStep
    <3>3. CASE SeedStep(q)
      BY <3>3, Zenon DEF SeedStep
    <3>4. QED BY <1>3, <3>1, <3>2, <3>3
  <2>3. QED BY <2>1, <2>2, WriteSpares, CallSpares
<1>4. QED BY <1>1, <1>2, <1>3, Zenon DEF Job

LEMMA ExportEnds ==
  ASSUME Inv, Next, NEW r \in Reqs, At(r, "export"), ~At(r, "export")'
  PROVE  ExportKeys(r)
<1>1. CASE \E q \in Reqs : Manage(q)
  BY <1>1, ManageSpares DEF Spares
<1>2. CASE \E q \in Reqs : Job(q)
  <2>1. PICK q \in Reqs : Job(q)
    BY <1>2
  <2>2. CASE ExportKeys(q)
    <3>1. Spares(q)
      BY <2>2, CallSpares DEF ExportKeys, Answer
    <3>2. QED BY <2>2, <3>1 DEF Spares
  <2>3. CASE ~ExportKeys(q)
    BY <2>1, <2>3, JobSpares DEF Spares
  <2>4. QED BY <2>2, <2>3
<1>3. CASE \E q \in Reqs : BeginRead(q) \/ EndRead(q)
  <2>1. PICK q \in Reqs : BeginRead(q) \/ EndRead(q)
    BY <1>3
  <2>2. ~At(q, "export") /\ Spares(q)
    BY <2>1, CallSpares DEF BeginRead, EndRead, Answer, At
  <2>3. QED BY <2>2 DEF Spares
<1>4. CASE \E k \in Keys : PutUser(k)
  <2>1. Spares(None)
    BY <1>4, WriteSpares DEF PutUser
  <2>2. None \notin Reqs
    BY ProjectConfigAssumption
  <2>3. QED BY <2>1, <2>2 DEF Spares
<1>5. CASE Swap \/ \E p \in Pems : PollSwap(p)
  BY <1>5 DEF Swap, PollSwap, At
<1>6. QED BY <1>1, <1>2, <1>3, <1>4, <1>5, Zenon DEF Next

\* export of snapshot.rs keeps every read guard until its struct expression ends:
\* whatever edits, imports and resets wait for their turn, the file shows all the
\* stores and the signing key as they are at the moment it is complete.
THEOREM ExportIsOneMomentHolds == Spec => ExportIsOneMoment
<1> DEFINE Ends == \A r \in Reqs :
             At(r, "export") /\ ~At(r, "export")' =>
               \E f \in files' : /\ \A s \in Stores : f.lists[s] = Entries(s)
                                /\ f.methods /\ f.pem = key
<1>1. Init => ImportsInv
  BY IdleListed DEF Init, ImportsInv, Faithful
<1>2. Inv /\ ImportsInv /\ [Next]_vars => ImportsInv'
  BY NextFollows
<1>3. ASSUME Inv, ImportsInv, Next PROVE Ends
  <2> SUFFICES ASSUME NEW r \in Reqs, At(r, "export"), ~At(r, "export")'
               PROVE  \E f \in files' : /\ \A s \in Stores : f.lists[s] = Entries(s)
                                       /\ f.methods /\ f.pem = key
    OBVIOUS
  <2> DEFINE f == [req[r].snap EXCEPT !.pem = key]
  <2>1. ExportKeys(r)
    BY <1>3, ExportEnds
  <2>2. f \in files' /\ req[r].at = Len(ExportOrder)
    BY <2>1 DEF ExportKeys
  <2>3. Pictures(req[r], store) /\ req[r].snap \in Snapshot
    BY <1>3, ReqHarmless DEF ImportsInv, Faithful, At
  <2>4. f.lists = req[r].snap.lists /\ f.methods = req[r].snap.methods /\ f.pem = key
    BY <2>3 DEF Snapshot
  <2>5. \A s \in Stores : \E i \in 1..Len(ExportOrder) : ExportOrder[i] = s
    <3>1. Len(ExportOrder) = 10
      BY Lengths
    <3>2. /\ ExportOrder[1] = "users" /\ ExportOrder[2] = "tenants"
          /\ ExportOrder[3] = "permissions" /\ ExportOrder[4] = "roles"
          /\ ExportOrder[5] = "methods" /\ ExportOrder[6] = "templates"
          /\ ExportOrder[7] = "connectors" /\ ExportOrder[8] = "attributes"
          /\ ExportOrder[9] = "accessKeys" /\ ExportOrder[10] = "idps"
      BY DEF ExportOrder
    <3>3. QED BY <3>1, <3>2 DEF Stores
  <2>6. ASSUME NEW s \in Stores PROVE f.lists[s] = Entries(s)
    <3> HIDE DEF f
    <3>1. PICK i \in 1..req[r].at : ExportOrder[i] = s
      BY <2>2, <2>5
    <3>2. req[r].snap.lists[ExportOrder[i]]
            = {store[ExportOrder[i]][k] : k \in Keys} \ {None}
      BY <2>3 DEF Pictures
    <3>3. QED BY <2>4, <3>1, <3>2 DEF Entries
  <2> HIDE DEF f
  <2>7. QED BY <2>2, <2>3, <2>4, <2>6 DEF Pictures
<1>4. Spec => []Inv
  BY InvHolds
<1>5. Inv /\ ImportsInv /\ [Next]_vars => [Ends]_vars
  BY <1>3
<1>6. QED BY <1>1, <1>2, <1>4, <1>5, PTL DEF Spec, ExportIsOneMoment
=============================================================================
