------------------------------ MODULE Accounts ------------------------------
(***************************************************************************)
(* Whom a login id leads to (store/user_store.rs), as the sign-in modules  *)
(* need it: the user who registered it or else, further down the chain of  *)
(* load, whoever has it as an email or a phone, or a login id that begins  *)
(* with it.  insert looks at the registered ids only.  UserStore has the   *)
(* chain link by link; here a user registers one login id.                 *)
(***************************************************************************)
CONSTANTS
  Uids,   \* user ids; new_user_id never returns one twice
  Logins, \* login ids
  None

VARIABLES
  owner,  \* UserStore.by_login_id: login id -> uid or None
  alias,  \* login id -> the uid the rest of the chain finds, or None
  status  \* uid -> "unused", "enabled", "disabled" or "gone"

accounts == <<owner, alias, status>>

Stored(u) == status[u] \in {"enabled", "disabled"}

\* UserStore.load
Behind(l) == IF owner[l] # None THEN owner[l] ELSE alias[l]
Known(l) == Behind(l) # None

\* Mutant of Free: trusts the lookup made before.
FreeUnchecked(l) == TRUE

\* insert and update_login_id refuse a login id that somebody has registered.
Free(l) == owner[l] = None

Aliases == [Logins -> Uids \cup {None}]

\* The aliases after a change to the ids, the email or the phone of u: an id
\* comes to lead to u, or away from it, to somebody else perhaps.
Edited(u) ==
  {a \in Aliases : \A l \in Logins :
     \/ a[l] \in {alias[l], u}
     \/ alias[l] = u /\ (a[l] = None \/ Stored(a[l]))}

\* Login ids that lead to a user although nobody registered them.
Loose == {l \in Logins : owner[l] = None /\ alias[l] # None}

\* Those of them that lead elsewhere, or nowhere, once the aliases are a.
Turned(a) == {l \in Loose : a[l] # alias[l]}

\* A new user u signs up with login id l.
Register(u, l, a) ==
  /\ status[u] = "unused"
  /\ status' = [status EXCEPT ![u] = "enabled"]
  /\ owner' = [owner EXCEPT ![l] = u]
  /\ a \in Edited(u)
  /\ alias' = a

\* The login ids somebody else is reached by until then.
Claimed(l, a) == (Loose \cap {l}) \cup Turned(a)

\* update_login_id: `new` is free, for a user has registered one login id.
Rekey(old, new, a) ==
  /\ ~Free(old) /\ Free(new)
  /\ owner' = [owner EXCEPT ![old] = None, ![new] = owner[old]]
  /\ a \in Edited(owner[old])
  /\ alias' = a
  /\ UNCHANGED status

\* An email or a phone is updated, or the map comes to list the candidates for
\* a bare name in another order: login id l leads elsewhere.
Realias(l, u) ==
  /\ u # None => Stored(u)
  /\ alias[l] # u
  /\ alias' = [alias EXCEPT ![l] = u]
  /\ UNCHANGED <<owner, status>>

\* The aliases once user u is removed: its email and phone leave the index even
\* where the entry has come to lead to another user.
Bereft(u) ==
  {a \in Aliases : \A l \in Logins :
     /\ a[l] # u
     /\ a[l] = alias[l] \/ (alias[l] # None /\ (a[l] = None \/ Stored(a[l])))}

\* remove_by_uid takes the ids ls on the user's list out of the index, one of
\* them registered by another user perhaps.
Remove(u, ls, a) ==
  /\ Stored(u)
  /\ \A l \in Logins : owner[l] = u => l \in ls
  /\ status' = [status EXCEPT ![u] = "gone"]
  /\ owner' = [l \in Logins |-> IF l \in ls THEN None ELSE owner[l]]
  /\ a \in Bereft(u)
  /\ alias' = a

\* UserStore.reset
RemoveAll ==
  /\ status' = [u \in Uids |-> IF Stored(u) THEN "gone" ELSE status[u]]
  /\ owner' = [l \in Logins |-> None]
  /\ alias' = [l \in Logins |-> None]

SwitchStatus(u, s) ==
  /\ Stored(u) /\ status[u] # s
  /\ status' = [status EXCEPT ![u] = s]
  /\ UNCHANGED <<owner, alias>>

AccountsTyped ==
  /\ owner \in [Logins -> Uids \cup {None}]
  /\ alias \in [Logins -> Uids \cup {None}]
  /\ status \in [Uids -> {"unused", "enabled", "disabled", "gone"}]
=============================================================================
