----------------------------- MODULE UserStore -----------------------------
(***************************************************************************)
(* The user store (store/user_store.rs): users under their ids and three   *)
(* indices over login ids, emails and phones, all behind one lock, so each *)
(* operation is one step.  The handlers that edit a user in place          *)
(* (otp.rs update_phone, magic_link.rs update_phone_sms) are steps too.    *)
(*                                                                         *)
(* What a user holds besides its identifiers plays no part in finding it   *)
(* and is left out.  The order of login_ids matters to nobody but the      *)
(* management calls that resolve a user id and is left out with it.        *)
(***************************************************************************)
EXTENDS Integers, FiniteSets

CONSTANTS
  Uids,        \* user ids; new_user_id never returns one twice
  Ids,         \* strings used as login ids, emails and phones
  LoginIds, Emails, Phones, \* the ones used as each
  Lower,       \* Lower[x]: x in lower case
  NameOf,      \* NameOf[x]: what stands before the @ of x, Absent without one
  Absent,
  PhoneLogins, \* phones that update_phone registers as login ids
  MaxLogins    \* bound of the model: login ids given to a new user

ASSUME UserStoreAssumption ==
  /\ LoginIds \cup Emails \cup Phones \subseteq Ids
  /\ Absent \notin Ids
  /\ Lower \in [Ids -> Ids] /\ NameOf \in [Ids -> Ids \cup {Absent}]
  /\ PhoneLogins \subseteq Phones
  /\ MaxLogins \in Nat

VARIABLES
  users,   \* by_user_id: uid -> [logins, email, phone]
  byLogin, byEmail, byPhone, \* the indices: identifier -> uid
  seen     \* uids handed out since the store was last emptied

userVars == <<users, byLogin, byEmail, byPhone, seen>>

Stored == DOMAIN users
User == [logins : SUBSET (LoginIds \cup Phones), email : Emails \cup {Absent},
         phone : Phones \cup {Absent}]

\* The index f with the keys ks pointing to u, and without the keys ks.
Pointing(f, ks, u) == [k \in DOMAIN f \cup ks |-> IF k \in ks THEN u ELSE f[k]]
Dropping(f, ks) == [k \in DOMAIN f \ ks |-> f[k]]

-----------------------------------------------------------------------------
(* Finding a user *)

WithPhone(x) == {u \in Stored : users[u].phone = x}

\* Mutant of PhoneHit: trusts the index.
PhoneHitStale(x) == {u \in Stored : x \in DOMAIN byPhone /\ byPhone[x] = u}

\* The phone index, believed only if the user still has that phone.
PhoneHit(x) ==
  {u \in Stored : x \in DOMAIN byPhone /\ byPhone[x] = u /\ users[u].phone = x}

\* The user ids x may resolve to: an exact login id, an email, the phone index,
\* any user with that phone, any login id "x@..".  {} when there is none.
Resolve(x) ==
  IF x \in DOMAIN byLogin THEN {byLogin[x]}
  ELSE IF Lower[x] \in DOMAIN byEmail THEN {byEmail[Lower[x]]}
  ELSE IF PhoneHit(x) # {} THEN PhoneHit(x)
  ELSE IF WithPhone(x) # {} THEN WithPhone(x)
  ELSE {byLogin[l] : l \in {k \in DOMAIN byLogin : NameOf[Lower[k]] = Lower[x]}}

\* load: a user id that is indexed but gone is not found.
Load(x) == Resolve(x) \cap Stored

-----------------------------------------------------------------------------
(* Writing *)

\* Mutant of Unclaimed: only the first login id is looked at.
UnclaimedFirst(ls) == ls = {} \/ \E l \in ls : l \notin DOMAIN byLogin

Unclaimed(ls) == ls \cap DOMAIN byLogin = {}

\* Mutant of Index: makes an entry for an absent email too.
IndexAbsent(u, ls, e, p) ==
  /\ byLogin' = Pointing(byLogin, ls, u)
  /\ byEmail' = Pointing(byEmail, {e}, u)
  /\ byPhone' = Pointing(byPhone, {p} \ {Absent}, u)

\* Identifiers that are Absent get no entry.
Index(u, ls, e, p) ==
  /\ byLogin' = Pointing(byLogin, ls, u)
  /\ byEmail' = Pointing(byEmail, {e} \ {Absent}, u)
  /\ byPhone' = Pointing(byPhone, {p} \ {Absent}, u)

\* insert refuses a login id that is taken and looks at nothing else.
Insert(u, ls, e, p) ==
  /\ u \notin seen
  /\ Unclaimed(ls)
  /\ users' = [v \in Stored \cup {u} |->
                IF v = u THEN [logins |-> ls, email |-> e, phone |-> p] ELSE users[v]]
  /\ Index(u, ls, e, p)
  /\ seen' = seen \cup {u}

\* update replaces email and phone and indexes the new ones; the entries of
\* the old ones stay.
UpdateUser(x, e, p) ==
  \E u \in Load(x) :
    /\ users' = [users EXCEPT ![u].email = e, ![u].phone = p]
    /\ Index(u, {}, e, p)
    /\ UNCHANGED seen

\* patch sets the fields it is given and indexes nothing.
Patch(x, e, p) ==
  \E u \in Load(x) :
    /\ users' = [users EXCEPT ![u].email = IF e = Absent THEN @ ELSE e,
                              ![u].phone = IF p = Absent THEN @ ELSE p]
    /\ UNCHANGED <<byLogin, byEmail, byPhone, seen>>

\* update_phone and update_phone_sms, with addToLoginIDs or without.
UpdatePhone(x, p, added) ==
  \E u \in Load(x) :
    /\ users' = [users EXCEPT ![u].phone = p, ![u].logins = @ \cup added]
    /\ UNCHANGED <<byLogin, byEmail, byPhone, seen>>

\* Mutant of Rename: leaves the old login id indexed.
RenameKeepsOld(old, new) ==
  /\ old \in DOMAIN byLogin
  /\ new \in DOMAIN byLogin => byLogin[new] = byLogin[old]
  /\ byLogin' = Pointing(byLogin, {new}, byLogin[old])
  /\ byLogin[old] \in Stored
  /\ users' = [users EXCEPT ![byLogin[old]].logins = (@ \ {old}) \cup {new}]
  /\ UNCHANGED <<byEmail, byPhone, seen>>

\* update_login_id; `new` may be another login id of the same user.
Rename(old, new) ==
  /\ old \in DOMAIN byLogin
  /\ new \in DOMAIN byLogin => byLogin[new] = byLogin[old]
  /\ byLogin' = Pointing(Dropping(byLogin, {old}), {new}, byLogin[old])
  /\ byLogin[old] \in Stored
  /\ users' = [users EXCEPT ![byLogin[old]].logins = (@ \ {old}) \cup {new}]
  /\ UNCHANGED <<byEmail, byPhone, seen>>

\* remove_by_uid for each user in gone: drops every index entry under a gone
\* user's identifiers, whoever the entry points to.
RemoveUsers(gone) ==
  /\ users' = Dropping(users, gone)
  /\ byLogin' = Dropping(byLogin, UNION {users[u].logins : u \in gone})
  /\ byEmail' = Dropping(byEmail, {users[u].email : u \in gone})
  /\ byPhone' = Dropping(byPhone, {users[u].phone : u \in gone})
  /\ UNCHANGED seen

\* delete_by_login_id knows exact login ids only.
DeleteByLoginId(x) ==
  /\ x \in DOMAIN byLogin /\ byLogin[x] \in Stored
  /\ RemoveUsers({byLogin[x]})

Reset ==
  /\ users' = Dropping(users, Stored)
  /\ byLogin' = Dropping(byLogin, DOMAIN byLogin)
  /\ byEmail' = Dropping(byEmail, DOMAIN byEmail)
  /\ byPhone' = Dropping(byPhone, DOMAIN byPhone)
  /\ seen' = {}

\* Mutant of Clash: compares emails as well.
ClashOnEmail(u, v) ==
  \/ users[u].logins \cap users[v].logins # {}
  \/ users[u].email = users[v].email

Clash(u, v) == users[u].logins \cap users[v].logins # {}

\* The orders in which a snapshot may list the users.
Orders == {r \in [Stored -> 1..Cardinality(Stored)] :
             \A u, v \in Stored : u # v => r[u] # r[v]}

\* The last user of ks in the order r.
Last(r, ks) == CHOOSE u \in ks : \A v \in ks : r[v] <= r[u]

\* restore(snapshot()): empties the store and inserts the users one by one; one
\* that clashes with a user already in is skipped.
Restore(r) ==
  \E in \in SUBSET Stored :
    /\ \A u \in Stored :
         u \in in <=> ~\E v \in in : r[v] < r[u] /\ Clash(u, v)
    /\ users' = [u \in in |-> users[u]]
    /\ byLogin' = [l \in UNION {users[u].logins : u \in in} |->
                    Last(r, {u \in in : l \in users[u].logins})]
    /\ byEmail' = [e \in {users[u].email : u \in in} \ {Absent} |->
                    Last(r, {u \in in : users[u].email = e})]
    /\ byPhone' = [p \in {users[u].phone : u \in in} \ {Absent} |->
                    Last(r, {u \in in : users[u].phone = p})]
    /\ seen' = in

-----------------------------------------------------------------------------
UsersInit ==
  /\ users = [u \in {} |-> Absent]
  /\ byLogin = [x \in {} |-> Absent]
  /\ byEmail = [x \in {} |-> Absent]
  /\ byPhone = [x \in {} |-> Absent]
  /\ seen = {}

Creating ==
  \E u \in Uids, ls \in SUBSET LoginIds,
     e \in Emails \cup {Absent}, p \in Phones \cup {Absent} :
    /\ ls # {} /\ Cardinality(ls) <= MaxLogins
    /\ Insert(u, ls, e, p)

Editing ==
  \E x \in Ids :
    \/ \E e \in Emails \cup {Absent}, p \in Phones \cup {Absent} :
         UpdateUser(x, e, p) \/ Patch(x, e, p)
    \/ \E p \in Phones :
         \/ UpdatePhone(x, p, {})
         \/ UpdatePhone(x, p, {p} \cap PhoneLogins)
    \/ \E y \in LoginIds : Rename(x, y)

Deleting ==
  \/ \E x \in Ids : DeleteByLoginId(x)
  \/ \E gone \in SUBSET Stored : RemoveUsers(gone)
  \/ Reset

Restoring == \E r \in Orders : Restore(r)

UsersNext == Creating \/ Editing \/ Deleting \/ Restoring

UsersSpec == UsersInit /\ [][UsersNext]_userVars

-----------------------------------------------------------------------------
(* Properties *)

\* Every variable keeps its shape.
UsersTypeOK ==
  /\ Stored \subseteq Uids /\ users \in [Stored -> User]
  /\ DOMAIN byLogin \subseteq LoginIds \cup Phones /\ byLogin \in [DOMAIN byLogin -> Uids]
  /\ DOMAIN byEmail \subseteq Emails /\ byEmail \in [DOMAIN byEmail -> Uids]
  /\ DOMAIN byPhone \subseteq Phones /\ byPhone \in [DOMAIN byPhone -> Uids]
  /\ Stored \subseteq seen /\ seen \subseteq Uids

\* The index leads to the user that has the login id, and to each user under each of
\* its login ids, after any sequence of creations, renames, deletions and restores.
\* Only a phone that was registered in place may be missing, or lead to another
\* user that has it too.
LoginIndexExact ==
  /\ \A u \in Stored : \A l \in users[u].logins \ PhoneLogins :
       l \in DOMAIN byLogin /\ byLogin[l] = u
  /\ \A l \in DOMAIN byLogin :
       byLogin[l] \in Stored /\ l \in users[byLogin[l]].logins

\* The users a lookup of x should find by what they are now: the owner of that
\* login id, or else those with that phone, or else those with a login id "x@..",
\* of which the ids in `missed` do not count.
Described(x, missed) ==
  LET owners == {u \in Stored : x \in users[u].logins}
  IN IF owners # {} THEN owners
     ELSE IF WithPhone(x) # {} THEN WithPhone(x)
     ELSE {u \in Stored : \E l \in users[u].logins \ missed : NameOf[Lower[l]] = Lower[x]}

\* What the email index does not answer, a lookup through the other two, of which
\* the phone index is not kept up to date, answers with the users as they are
\* now: by login id before phone before name, never with one that is gone, and
\* with nobody only if there is nobody.  The exception are phones registered in
\* place: looked up by their own they may lead elsewhere, and nobody need be found
\* by the name in them.
LookupIsCurrent ==
  \A x \in Ids \ PhoneLogins :
    Lower[x] \notin DOMAIN byEmail =>
      /\ Resolve(x) \subseteq Described(x, {})
      /\ Resolve(x) = {} => Described(x, PhoneLogins) = {}

\* Exporting the users and importing them again changes none, and loses a user only
\* to one that is kept and has the same phone registered in place.
RestoreLosesOnlySharedPhones ==
  [][Restoring =>
       /\ Stored' \subseteq Stored /\ \A u \in Stored' : users'[u] = users[u]
       /\ \A u \in Stored \ Stored' : \E v \in Stored' :
            users[u].logins \cap users[v].logins \cap PhoneLogins # {}]_userVars

\* What the user-store specification says of load: a user is found under every
\* one of its login ids.
LoadFindsEveryLoginId ==
  \A u \in Stored : \A l \in users[u].logins : Load(l) = {u}
=============================================================================
