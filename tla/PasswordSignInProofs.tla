------------------------ MODULE PasswordSignInProofs ------------------------
(***************************************************************************)
(* Passwords sign in their owner, and the lockout bounds the guesses, for  *)
(* all users, login ids, passwords, executions and requests, any limit and *)
(* any window.  A request whose password was accepted still finds its      *)
(* owner behind its login id, unless the id was made to lead elsewhere     *)
(* (Finds); a login id whose window is open has room left for every        *)
(* request that has passed the check and has not recorded its failure yet  *)
(* (Room).                                                                 *)
(***************************************************************************)
EXTENDS PasswordSignIn, FiniteSetTheorems, TLAPS

\* A login id leads to a stored user.
AccountsInv ==
  \A l \in Logins : /\ owner[l] # None => Stored(owner[l])
                    /\ alias[l] # None => Stored(alias[l])

\* Whom each login id leads to.
Leads == [l \in Logins |-> Behind(l)]

\* What the call q knows at its step, when login ids lead where ow says.
Finds(q, ow) ==
  /\ q.pc \in {"insert", "gate", "verify", "record", "clear", "set", "mint"} =>
       q.login \in Logins
  /\ q.pc = "record" => q.op \in {"signin", "flowNext"}
  /\ q.pc \in {"step", "login"} => q.exec \in Execs
  /\ (q.pc \in {"clear", "mint"} \/ (q.pc = "set" /\ q.op = "replace")) =>
       q.proved \in Uids /\ (~q.moved => ow[q.login] = q.proved)
  /\ q.session # None => q.pc \in {"complete", "recordLogin"}
                          /\ (~q.moved => q.session = q.proved)

CallsInv == \A r \in Reqs : Finds(req[r], Leads)

\* q has passed the check for l and may still record a failure.
Guessing(q, l) ==
  q.op \in {"signin", "flowNext"} /\ q.pc \in {"verify", "record"} /\ q.login = l

Pending(rq, l) == {r \in Reqs : Guessing(rq[r], l)}

Room(f, pending) ==
  /\ f.count <= MaxFailures - 1 + Cardinality(Reqs)
  /\ \/ f.age = Window
     \/ f.count + Cardinality(pending) <= MaxFailures - 1 + Cardinality(Reqs)

GuessInv == \A l \in Logins : Room(lockout[l], Pending(req, l))

Inv == TypeOK /\ AccountsInv /\ CallsInv /\ GuessInv

-----------------------------------------------------------------------------
(* What the edits of the accounts keep: login ids lead to stored users, and  *)
(* only the ids an edit is known to turn lead elsewhere afterwards.          *)

LEMMA RegisterKeeps ==
  ASSUME None \notin Uids, AccountsTyped, AccountsInv,
         NEW u \in Uids, NEW l \in Logins, NEW a, Free(l), Register(u, l, a)
  PROVE  /\ AccountsTyped' /\ AccountsInv' /\ Behind(l)' = u
         /\ \A m \in Logins : Known(m) /\ m \notin Claimed(l, a) => Behind(m)' = Behind(m)
         /\ \A v \in Uids : Stored(v) => Stored(v)'
<1>1. /\ status[u] = "unused" /\ owner[l] = None
      /\ status' = [status EXCEPT ![u] = "enabled"]
      /\ owner' = [owner EXCEPT ![l] = u]
      /\ alias' = a /\ a \in [Logins -> Uids \cup {None}]
      /\ \A m \in Logins : a[m] # alias[m] => a[m] = u
  BY DEF Register, Free, Edited, Aliases, AccountsInv, Stored
<1>2. AccountsTyped'
  BY <1>1 DEF AccountsTyped
<1>3. AccountsInv'
  BY <1>1 DEF AccountsTyped, AccountsInv, Stored
<1>4. Behind(l)' = u
  BY <1>1 DEF Behind, AccountsTyped
<1>5. \A m \in Logins : Known(m) /\ m \notin Claimed(l, a) => Behind(m)' = Behind(m)
  BY <1>1 DEF Behind, Known, Claimed, Turned, Loose, AccountsTyped
<1>6. \A v \in Uids : Stored(v) => Stored(v)'
  BY <1>1 DEF Stored, AccountsTyped
<1>7. QED BY <1>2, <1>3, <1>4, <1>5, <1>6

LEMMA RekeyKeeps ==
  ASSUME AccountsTyped, AccountsInv,
         NEW old \in Logins, NEW new \in Logins, NEW a, Rekey(old, new, a)
  PROVE  /\ AccountsTyped' /\ AccountsInv'
         /\ \A m \in Logins \ ({old, new} \cup Turned(a)) :
              Known(m) => Behind(m)' = Behind(m)
<1>1. /\ owner[old] \in Uids /\ Stored(owner[old]) /\ UNCHANGED status
      /\ owner' = [owner EXCEPT ![old] = None, ![new] = owner[old]]
      /\ alias' = a /\ a \in [Logins -> Uids \cup {None}]
      /\ \A m \in Logins : a[m] = alias[m] \/ a[m] = None \/ Stored(a[m])
  BY DEF Rekey, Free, Edited, Aliases, AccountsInv, AccountsTyped
<1>2. AccountsTyped'
  BY <1>1 DEF AccountsTyped
<1>3. AccountsInv'
  BY <1>1 DEF AccountsTyped, AccountsInv, Stored
<1>4. \A m \in Logins \ ({old, new} \cup Turned(a)) : Known(m) => Behind(m)' = Behind(m)
  BY <1>1 DEF Behind, Known, Turned, Loose, AccountsTyped
<1>5. QED BY <1>2, <1>3, <1>4

LEMMA RealiasKeeps ==
  ASSUME AccountsTyped, AccountsInv,
         NEW l \in Logins, NEW u \in Uids \cup {None}, Realias(l, u)
  PROVE  /\ AccountsTyped' /\ AccountsInv'
         /\ \A m \in Logins \ (Loose \cap {l}) : Known(m) => Behind(m)' = Behind(m)
<1>1. /\ u # None => Stored(u)
      /\ alias' = [alias EXCEPT ![l] = u] /\ UNCHANGED <<owner, status>>
  BY DEF Realias
<1>2. AccountsTyped'
  BY <1>1 DEF AccountsTyped
<1>3. AccountsInv'
  BY <1>1 DEF AccountsTyped, AccountsInv, Stored
<1>4. \A m \in Logins \ (Loose \cap {l}) : Known(m) => Behind(m)' = Behind(m)
  BY <1>1 DEF Behind, Known, Loose, AccountsTyped
<1>5. QED BY <1>2, <1>3, <1>4

LEMMA RemoveKeeps ==
  ASSUME AccountsTyped, AccountsInv,
         NEW u \in Uids, NEW ls \in SUBSET Logins, NEW a, Remove(u, ls, a)
  PROVE  /\ AccountsTyped' /\ AccountsInv'
         /\ \A m \in Logins \ (ls \cup Turned(a)) : Known(m) => Behind(m)' = Behind(m)
<1>1. /\ \A m \in Logins : owner[m] = u => m \in ls
      /\ status' = [status EXCEPT ![u] = "gone"]
      /\ owner' = [m \in Logins |-> IF m \in ls THEN None ELSE owner[m]]
      /\ alias' = a /\ a \in [Logins -> Uids \cup {None}]
      /\ \A m \in Logins : a[m] # u
      /\ \A m \in Logins : a[m] = alias[m] \/ a[m] = None \/ Stored(a[m])
  BY DEF Remove, Bereft, Aliases
<1>2. AccountsTyped'
  BY <1>1 DEF AccountsTyped
<1>3. AccountsInv'
  <2>1. ASSUME NEW m \in Logins, owner'[m] # None PROVE status'[owner'[m]] \in {"enabled", "disabled"}
    BY <1>1, <2>1 DEF AccountsTyped, AccountsInv, Stored
  <2>2. ASSUME NEW m \in Logins, alias'[m] # None PROVE status'[alias'[m]] \in {"enabled", "disabled"}
    BY <1>1, <2>2 DEF AccountsTyped, AccountsInv, Stored
  <2>3. QED BY <2>1, <2>2 DEF AccountsInv, Stored
<1>4. \A m \in Logins \ (ls \cup Turned(a)) : Known(m) => Behind(m)' = Behind(m)
  BY <1>1 DEF Behind, Known, Turned, Loose, AccountsTyped
<1>5. QED BY <1>2, <1>3, <1>4

LEMMA RemoveAllKeeps ==
  ASSUME AccountsTyped, RemoveAll
  PROVE  AccountsTyped' /\ AccountsInv'
BY DEF RemoveAll, AccountsTyped, AccountsInv

LEMMA SwitchStatusKeeps ==
  ASSUME AccountsTyped, AccountsInv,
         NEW u \in Uids, NEW s \in {"enabled", "disabled"}, SwitchStatus(u, s)
  PROVE  /\ AccountsTyped' /\ AccountsInv'
         /\ \A m \in Logins : Behind(m)' = Behind(m)
<1>1. status' = [status EXCEPT ![u] = s] /\ UNCHANGED <<owner, alias>>
  BY DEF SwitchStatus
<1>2. AccountsTyped'
  BY <1>1 DEF AccountsTyped
<1>3. AccountsInv'
  BY <1>1 DEF AccountsTyped, AccountsInv, Stored
<1>4. QED BY <1>1, <1>2, <1>3 DEF Behind

-----------------------------------------------------------------------------
(* Counting requests *)

LEMMA PendingSize ==
  ASSUME NEW rq, NEW l
  PROVE  /\ IsFiniteSet(Pending(rq, l)) /\ Cardinality(Pending(rq, l)) \in Nat
         /\ Cardinality(Reqs) \in Nat
         /\ Cardinality(Pending(rq, l)) <= Cardinality(Reqs)
<1>1. IsFiniteSet(Reqs) /\ Pending(rq, l) \subseteq Reqs
  BY PasswordSignInAssumption DEF Pending
<1>2. QED BY <1>1, FS_Subset, FS_CardinalityType

LEMMA Fewer ==
  ASSUME NEW rq, NEW rn, NEW l, NEW f \in Record, Room(f, Pending(rq, l)),
         Pending(rn, l) \subseteq Pending(rq, l)
  PROVE  Room(f, Pending(rn, l))
<1>1. Cardinality(Pending(rn, l)) <= Cardinality(Pending(rq, l))
  BY PendingSize, FS_Subset
<1>2. /\ Cardinality(Pending(rn, l)) \in Nat /\ Cardinality(Pending(rq, l)) \in Nat
      /\ Cardinality(Reqs) \in Nat /\ MaxFailures \in Nat /\ f.count \in Nat
  BY PendingSize, LockoutsAssumption DEF Record
<1>3. QED BY <1>1, <1>2 DEF Room

\* Whoever finds the count below the limit leaves room for everybody.
LEMMA Below ==
  ASSUME NEW rq, NEW l, NEW f \in Record, f.count < MaxFailures
  PROVE  Room(f, Pending(rq, l))
<1>1. /\ Cardinality(Pending(rq, l)) \in Nat /\ Cardinality(Reqs) \in Nat
      /\ Cardinality(Pending(rq, l)) <= Cardinality(Reqs)
      /\ MaxFailures \in Nat /\ f.count \in Nat
  BY PendingSize, LockoutsAssumption DEF Record
<1>2. QED BY <1>1 DEF Room

\* A request records its failure and is pending no more.
LEMMA OneRecorded ==
  ASSUME NEW rq, NEW rn, NEW l, NEW f \in Record, Room(f, Pending(rq, l)),
         NEW r \in Pending(rq, l), Pending(rn, l) \subseteq Pending(rq, l) \ {r}
  PROVE  Recorded(f) \in Record /\ Room(Recorded(f), Pending(rn, l))
<1> DEFINE P == Pending(rq, l)
           Q == Pending(rn, l)
<1>1. IsFiniteSet(P) /\ Cardinality(P \ {r}) = Cardinality(P) - 1
  BY PendingSize, FS_RemoveElement
<1>2. IsFiniteSet(P \ {r}) /\ Cardinality(Q) <= Cardinality(P \ {r})
  <2>1. IsFiniteSet(P \ {r})
    BY <1>1, FS_Subset
  <2>2. QED BY <2>1, FS_Subset
<1>3. /\ Cardinality(P) \in Nat /\ Cardinality(Q) \in Nat /\ Cardinality(Reqs) \in Nat
      /\ Cardinality(P) <= Cardinality(Reqs)
      /\ f.count \in Nat /\ f.age \in 0..Window /\ MaxFailures \in Nat \ {0} /\ Window \in Nat \ {0}
  BY PendingSize, LockoutsAssumption DEF Record
<1> HIDE DEF P, Q
<1>4. Recorded(f) \in Record
  BY <1>3 DEF Recorded, Record
<1>5. CASE f.age >= Window
  <2>1. Recorded(f) = [count |-> 1, age |-> 0]
    BY <1>5 DEF Recorded
  <2>2. QED BY <1>1, <1>2, <1>3, <1>4, <2>1 DEF Room, P, Q
<1>6. CASE ~(f.age >= Window)
  <2>1. Recorded(f).count = f.count + 1
    BY <1>6 DEF Recorded
  <2>2. f.age # Window
    BY <1>3, <1>6
  <2>3. f.count + Cardinality(P) <= MaxFailures - 1 + Cardinality(Reqs)
    BY <2>2 DEF Room, P
  <2>4. f.count + 1 + Cardinality(Q) <= MaxFailures - 1 + Cardinality(Reqs)
    BY <1>1, <1>2, <1>3, <2>3
  <2>5. QED BY <1>3, <1>4, <2>1, <2>4 DEF Room, Q
<1>7. QED BY <1>5, <1>6

LEMMA AgedRoom ==
  ASSUME NEW rq, NEW l, NEW f \in Record, Room(f, Pending(rq, l))
  PROVE  Aged(f) \in Record /\ Room(Aged(f), Pending(rq, l))
<1>1. f.count \in Nat /\ f.age \in 0..Window /\ Window \in Nat
  BY LockoutsAssumption DEF Record
<1>2. Aged(f) \in Record /\ Aged(f).count = f.count /\ (f.age = Window => Aged(f).age = Window)
  BY <1>1 DEF Aged, Record
<1>3. QED BY <1>2 DEF Room

LEMMA NoneFailed ==
  ASSUME NEW rq, NEW l
  PROVE  NoFailures \in Record /\ Room(NoFailures, Pending(rq, l))
<1>1. NoFailures \in Record /\ NoFailures.count < MaxFailures
  BY LockoutsAssumption DEF NoFailures, Record
<1>2. QED BY <1>1, Below

-----------------------------------------------------------------------------
(* Steps of one request *)

Rest ==
  /\ AccountsTyped /\ AccountsInv
  /\ hash \in [Uids -> Passwords \cup {None}]
  /\ lockout \in [Logins -> Record]
  /\ execs \in [Execs -> Exec]
  /\ resetPc \in {"idle", "flows", "lockouts"}
  /\ calls \in Nat /\ changes \in Nat

LEMMA TypeParts == (TypeOK /\ AccountsInv <=> Rest /\ req \in [Reqs -> Call])
                   /\ (TypeOK' /\ AccountsInv' <=> Rest' /\ req' \in [Reqs -> Call])
BY DEF TypeOK, Rest

LEMMA ReqIs ==
  ASSUME Inv, NEW r \in Reqs
  PROVE  req[r] \in Call /\ Finds(req[r], Leads)
BY DEF Inv, TypeOK, CallsInv

\* Known login ids lead where they did.
LeadsKept == \A l \in Logins : Known(l) => Behind(l)' = Behind(l)

LEMMA SameAccounts ==
  ASSUME UNCHANGED accounts
  PROVE  /\ Leads' = Leads /\ LeadsKept
         /\ AccountsTyped' <=> AccountsTyped
         /\ AccountsInv' <=> AccountsInv
<1>1. \A l : Behind(l)' = Behind(l)
  BY DEF accounts, Behind
<1>2. Leads' = Leads /\ LeadsKept
  BY <1>1 DEF Leads, LeadsKept
<1>3. (AccountsTyped' <=> AccountsTyped) /\ (AccountsInv' <=> AccountsInv)
  BY DEF accounts, AccountsTyped, AccountsInv, Stored
<1>4. QED BY <1>2, <1>3

LEMMA FindsKept ==
  ASSUME NEW q, Finds(q, Leads), q.login \in Logins /\ Known(q.login) =>
           Behind(q.login)' = Behind(q.login)
  PROVE  Finds(q, Leads')
<1>1. ASSUME q.pc \in {"clear", "mint"} \/ (q.pc = "set" /\ q.op = "replace")
      PROVE  q.proved \in Uids /\ (~q.moved => Leads'[q.login] = q.proved)
  <2>1. q.login \in Logins /\ q.proved \in Uids /\ (~q.moved => Leads[q.login] = q.proved)
    BY <1>1 DEF Finds
  <2>2. q.proved # None
    BY <2>1, PasswordSignInAssumption
  <2>3. QED BY <2>1, <2>2 DEF Leads, Known
<1>2. QED BY <1>1 DEF Finds

\* A step of request r: next may be pending only if the call was so before, or
\* the login id has room.
LEMMA CallsStep ==
  ASSUME Inv, LeadsKept, NEW r, NEW next, next \in Call, Finds(next, Leads'),
         req' = [req EXCEPT ![r] = next]
  PROVE  CallsInv' /\ req' \in [Reqs -> Call]
<1>1. req \in [Reqs -> Call]
  BY DEF Inv, TypeOK
<1>2. req' \in [Reqs -> Call]
  BY <1>1
<1>3. ASSUME NEW q \in Reqs PROVE Finds(req'[q], Leads')
  <2>1. req'[q] = next \/ req'[q] = req[q]
    BY <1>1
  <2>2. Finds(req[q], Leads')
    BY FindsKept DEF Inv, CallsInv, LeadsKept
  <2>3. QED BY <2>1, <2>2
<1>4. QED BY <1>2, <1>3 DEF CallsInv

LEMMA FewerPending ==
  ASSUME Inv, NEW r \in Reqs, NEW next, req' = [req EXCEPT ![r] = next], NEW l,
         Guessing(next, l) => Guessing(req[r], l)
  PROVE  Pending(req', l) \subseteq Pending(req, l)
<1>1. \A q \in Reqs : req'[q] = IF q = r THEN next ELSE req[q]
  BY DEF Inv, TypeOK
<1>2. QED BY <1>1 DEF Pending

LEMMA OwnStep ==
  ASSUME Inv, LeadsKept, NEW r \in Reqs, NEW next, next \in Call, Finds(next, Leads'),
         req' = [req EXCEPT ![r] = next],
         \A l \in Logins : Guessing(next, l) => Guessing(req[r], l),
         Rest', UNCHANGED lockout
  PROVE  Inv'
<1>1. CallsInv' /\ req' \in [Reqs -> Call]
  BY CallsStep
<1>2. \A l \in Logins : lockout[l] \in Record /\ Room(lockout[l], Pending(req, l))
  BY DEF Inv, TypeOK, GuessInv
<1>3. \A l \in Logins : Room(lockout'[l], Pending(req', l))
  BY <1>2, FewerPending, Fewer
<1>4. QED BY <1>1, <1>3, TypeParts DEF Inv, GuessInv

LEMMA IdleFinds ==
  /\ Idle \in Call
  /\ \A ow : Finds(Idle, ow)
  /\ \A l : ~Guessing(Idle, l)
BY DEF Idle, Call, Finds, Guessing

LEMMA RestNow ==
  ASSUME Inv
  PROVE  Rest
BY DEF Inv, TypeOK, Rest

\* A request knows whom its login id leads to.
LEMMA LeadsIs ==
  ASSUME Inv, NEW l \in Logins
  PROVE  Behind(l) \in Uids \cup {None} /\ Leads[l] = Behind(l)
BY DEF Inv, TypeOK, AccountsTyped, Behind, Leads

LEMMA AnswerStep ==
  ASSUME Inv, LeadsKept, NEW r \in Reqs, Answer(r), Rest', UNCHANGED lockout
  PROVE  Inv'
BY IdleFinds, OwnStep DEF Answer

\* A step that leaves everything but one call alone.
LEMMA GoStep ==
  ASSUME Inv, NEW r \in Reqs, NEW next, next \in Call, Finds(next, Leads),
         req' = [req EXCEPT ![r] = next],
         \A l \in Logins : Guessing(next, l) => Guessing(req[r], l),
         UNCHANGED <<users, lockout, execs, resetPc, changes>>, calls' \in Nat
  PROVE  Inv'
<1>1. Rest' /\ LeadsKept /\ Leads' = Leads
  BY RestNow, SameAccounts DEF Rest, users
<1>2. QED BY <1>1, OwnStep

LEMMA AnswerOnly ==
  ASSUME Inv, NEW r \in Reqs, Answer(r),
         UNCHANGED <<users, lockout, execs, resetPc, calls, changes>>
  PROVE  Inv'
<1>1. Rest' /\ LeadsKept
  BY RestNow, SameAccounts DEF Rest, users
<1>2. QED BY <1>1, AnswerStep

LEMMA ArriveStep ==
  ASSUME Inv, NEW r \in Reqs, Arrive(r)
  PROVE  Inv'
<1>1. calls' \in Nat /\ UNCHANGED <<users, lockout, execs, resetPc, changes>>
  BY RestNow DEF Arrive, Rest
<1>2. CASE \E l \in Logins, p \in Passwords : CallSignup(r, l, p) \/ CallSignin(r, l, p)
  <2>1. PICK l \in Logins, p \in Passwords : CallSignup(r, l, p) \/ CallSignin(r, l, p)
    BY <1>2
  <2>2. PICK step \in {"insert", "gate"}, op \in {"signup", "signin"} :
          req' = [req EXCEPT ![r] = [Idle EXCEPT !.pc = step, !.op = op, !.login = l, !.pw = p]]
    BY <2>1 DEF CallSignup, CallSignin
  <2> DEFINE next == [Idle EXCEPT !.pc = step, !.op = op, !.login = l, !.pw = p]
  <2>3. next \in Call /\ Finds(next, Leads) /\ \A m : ~Guessing(next, m)
    BY DEF Idle, Call, Finds, Guessing
  <2> HIDE DEF next
  <2>4. QED BY <1>1, <2>2, <2>3, GoStep DEF next
<1>3. CASE \E l \in Logins, p, q \in Passwords : CallReplace(r, l, p, q)
  <2>1. PICK l \in Logins, p \in Passwords, q \in Passwords : CallReplace(r, l, p, q)
    BY <1>3
  <2> DEFINE next == [Idle EXCEPT !.pc = "verify", !.op = "replace", !.login = l, !.pw = p,
                                  !.new = q]
  <2>2. next \in Call /\ Finds(next, Leads) /\ \A m : ~Guessing(next, m)
    BY DEF Idle, Call, Finds, Guessing
  <2>3. req' = [req EXCEPT ![r] = next]
    BY <2>1 DEF CallReplace
  <2> HIDE DEF next
  <2>4. QED BY <1>1, <2>2, <2>3, GoStep
<1>4. CASE \E l \in Logins, q \in Passwords : CallUpdate(r, l, q)
  <2>1. PICK l \in Logins, q \in Passwords : CallUpdate(r, l, q)
    BY <1>4
  <2> DEFINE next == [Idle EXCEPT !.pc = "set", !.op = "update", !.login = l, !.new = q]
  <2>2. next \in Call /\ Finds(next, Leads) /\ \A m : ~Guessing(next, m)
    BY DEF Idle, Call, Finds, Guessing
  <2>3. req' = [req EXCEPT ![r] = next]
    BY <2>1 DEF CallUpdate
  <2> HIDE DEF next
  <2>4. QED BY <1>1, <2>2, <2>3, GoStep
<1>5. CASE \E x \in Execs, l \in Logins \cup {None} : CallFlowStart(r, x, l)
  <2>1. PICK x \in Execs, l \in Logins \cup {None} : CallFlowStart(r, x, l)
    BY <1>5
  <2> DEFINE next == [Idle EXCEPT !.pc = "create", !.op = "flowStart", !.login = l, !.exec = x]
  <2>2. next \in Call /\ Finds(next, Leads) /\ \A m : ~Guessing(next, m)
    BY DEF Idle, Call, Finds, Guessing
  <2>3. req' = [req EXCEPT ![r] = next]
    BY <2>1 DEF CallFlowStart
  <2> HIDE DEF next
  <2>4. QED BY <1>1, <2>2, <2>3, GoStep
<1>6. CASE \E x \in Execs, l \in Logins \cup {None}, p \in Passwords \cup {None} :
             CallFlowNext(r, x, l, p)
  <2>1. PICK x \in Execs, l \in Logins \cup {None}, p \in Passwords \cup {None} :
          CallFlowNext(r, x, l, p)
    BY <1>6
  <2> DEFINE next == [Idle EXCEPT !.pc = "step", !.op = "flowNext", !.login = l, !.pw = p,
                                  !.exec = x]
  <2>2. next \in Call /\ Finds(next, Leads) /\ \A m : ~Guessing(next, m)
    BY DEF Idle, Call, Finds, Guessing
  <2>3. req' = [req EXCEPT ![r] = next]
    BY <2>1 DEF CallFlowNext
  <2> HIDE DEF next
  <2>4. QED BY <1>1, <2>2, <2>3, GoStep
<1>7. QED BY <1>2, <1>3, <1>4, <1>5, <1>6 DEF Arrive

-----------------------------------------------------------------------------
(* Steps of the handlers *)

LEMMA GateStep ==
  ASSUME Inv, NEW r \in Reqs, Gate(r)
  PROVE  Inv'
<1> DEFINE q == req[r]
           k == q.login
           next == [q EXCEPT !.pc = "verify"]
<1>1. q \in Call /\ Finds(q, Leads) /\ q.pc = "gate" /\ k \in Logins
  BY ReqIs DEF Gate, At, Finds
<1>2. UNCHANGED <<users, lockout, execs, resetPc, calls, changes>>
  BY DEF Gate
<1>3. CASE LockedOut(lockout[k])
  BY <1>2, <1>3, AnswerOnly DEF Gate
<1>4. CASE ~LockedOut(lockout[k])
  <2>1. next \in Call /\ Finds(next, Leads')
    BY <1>1, <1>2, SameAccounts DEF Call, Finds, users
  <2>2. req' = [req EXCEPT ![r] = next]
    BY <1>4 DEF Gate, Goto
  <2>3. \A l \in Logins : lockout[l] \in Record /\ Room(lockout[l], Pending(req, l))
    BY DEF Inv, TypeOK, GuessInv
  <2>4. Room(lockout[k], Pending(req', k))
    <3>1. lockout[k].count \in Nat /\ lockout[k].age \in 0..Window /\ MaxFailures \in Nat
          /\ Window \in Nat
      BY <1>1, <2>3, LockoutsAssumption DEF Record
    <3>2. lockout[k].count < MaxFailures \/ lockout[k].age = Window
      BY <1>4, <3>1 DEF LockedOut
    <3>3. QED BY <1>1, <2>3, <3>2, Below DEF Room
  <2>5. ASSUME NEW l \in Logins, l # k PROVE Room(lockout[l], Pending(req', l))
    <3>1. ~Guessing(next, l)
      BY <1>1, <2>5 DEF Guessing, Call
    <3> HIDE DEF next
    <3>2. Pending(req', l) \subseteq Pending(req, l)
      BY <2>2, <3>1, FewerPending
    <3>3. QED BY <2>3, <2>5, <3>2, Fewer
  <2>6. GuessInv'
    BY <1>2, <2>4, <2>5 DEF GuessInv
  <2>7. Rest' /\ LeadsKept
    BY <1>2, RestNow, SameAccounts DEF Rest, users
  <2> HIDE DEF next
  <2>8. CallsInv' /\ req' \in [Reqs -> Call]
    BY <2>1, <2>2, <2>7, CallsStep
  <2>9. QED BY <2>6, <2>7, <2>8, TypeParts DEF Inv
<1>5. QED BY <1>3, <1>4

LEMMA VerifyStep ==
  ASSUME Inv, NEW r \in Reqs, Verify(r)
  PROVE  Inv'
<1> DEFINE q == req[r]
           k == q.login
           failed == [q EXCEPT !.pc = "record", !.pw = None]
<1>1. q \in Call /\ Finds(q, Leads) /\ q.pc = "verify" /\ k \in Logins
      /\ Behind(k) \in Uids \cup {None} /\ Leads[k] = Behind(k)
  BY ReqIs, LeadsIs DEF Verify, At, Finds
<1>2. UNCHANGED <<users, lockout, execs, resetPc, calls, changes>> /\ calls' \in Nat
  BY RestNow DEF Verify, Rest
<1>3. \/ Answer(r)
      \/ req' = [req EXCEPT ![r] = failed] /\ q.op \in {"signin", "flowNext"}
      \/ /\ Known(k)
         /\ req' = [req EXCEPT ![r].proved = Behind(k), ![r].moved = FALSE,
                               ![r].pw = None,
                               ![r].pc = IF Counts(r) THEN "clear" ELSE "set"]
  BY DEF Verify, Counts, Fail
<1>4. CASE Answer(r)
  BY <1>2, <1>4, AnswerOnly
<1>5. CASE req' = [req EXCEPT ![r] = failed] /\ q.op \in {"signin", "flowNext"}
  <2>1. failed \in Call /\ failed.pc = "record" /\ failed.login = k /\ failed.op = q.op
        /\ failed.session = q.session
    BY <1>1 DEF Call
  <2>2. q.session = None
    BY <1>1 DEF Finds
  <2> HIDE DEF failed
  <2>3. Finds(failed, Leads) /\ \A l : Guessing(failed, l) => Guessing(q, l)
    BY <1>1, <1>5, <2>1, <2>2 DEF Finds, Guessing
  <2>4. QED BY <1>2, <1>5, <2>1, <2>3, GoStep
<1>6. CASE /\ Known(k)
           /\ req' = [req EXCEPT ![r].proved = Behind(k), ![r].moved = FALSE,
                                 ![r].pw = None,
                                 ![r].pc = IF Counts(r) THEN "clear" ELSE "set"]
  <2>1. PICK step \in {"clear", "set"} :
          req' = [req EXCEPT ![r] = [q EXCEPT !.proved = Behind(k), !.moved = FALSE,
                                              !.pw = None, !.pc = step]]
    BY <1>6
  <2> DEFINE next == [q EXCEPT !.proved = Behind(k), !.moved = FALSE, !.pw = None, !.pc = step]
  <2>2. Behind(k) \in Uids
    BY <1>1, <1>6 DEF Known
  <2>3. next \in Call /\ next.pc = step /\ next.login = k /\ next.proved = Behind(k)
        /\ next.session = q.session
    BY <1>1, <2>2 DEF Call
  <2>4. q.session = None
    BY <1>1 DEF Finds
  <2>5. Finds(next, Leads) /\ \A l : ~Guessing(next, l)
    BY <1>1, <2>2, <2>3, <2>4 DEF Finds, Guessing
  <2> HIDE DEF next
  <2>6. QED BY <1>2, <2>1, <2>3, <2>5, GoStep DEF next
<1>7. QED BY <1>3, <1>4, <1>5, <1>6

LEMMA RecordFailureStep ==
  ASSUME Inv, NEW r \in Reqs, RecordFailure(r)
  PROVE  Inv'
<1> DEFINE q == req[r]
           k == q.login
<1>1. q \in Call /\ q.pc = "record" /\ k \in Logins /\ Guessing(q, k)
  BY ReqIs DEF RecordFailure, At, Finds, Guessing
<1>2. /\ lockout' = [lockout EXCEPT ![k] = Recorded(lockout[k])] /\ req' = [req EXCEPT ![r] = Idle]
      /\ UNCHANGED <<users, execs, resetPc, calls, changes>>
  BY DEF RecordFailure, Answer
<1>3. /\ lockout \in [Logins -> Record] /\ req \in [Reqs -> Call]
      /\ \A l \in Logins : Room(lockout[l], Pending(req, l))
  BY DEF Inv, TypeOK, GuessInv
<1>4. \A l : Pending(req', l) = Pending(req, l) \ {r}
  BY <1>2, <1>3, IdleFinds DEF Pending
<1>5. r \in Pending(req, k)
  BY <1>1 DEF Pending
<1>6. Recorded(lockout[k]) \in Record /\ Room(Recorded(lockout[k]), Pending(req', k))
  BY <1>1, <1>3, <1>4, <1>5, OneRecorded
<1>7. lockout' \in [Logins -> Record]
  BY <1>2, <1>3, <1>6
<1>8. ASSUME NEW l \in Logins PROVE Room(lockout'[l], Pending(req', l))
  <2>1. CASE l = k
    BY <1>1, <1>2, <1>3, <1>6, <2>1
  <2>2. CASE l # k
    <3>1. lockout'[l] = lockout[l] /\ Pending(req', l) \subseteq Pending(req, l)
      BY <1>2, <1>3, <1>4, <2>2
    <3>2. QED BY <1>3, <3>1, Fewer
  <2>3. QED BY <2>1, <2>2
<1>9. Rest' /\ LeadsKept
  BY <1>2, <1>7, RestNow, SameAccounts DEF Rest, users
<1>10. CallsInv' /\ req' \in [Reqs -> Call]
  BY <1>2, <1>9, IdleFinds, CallsStep
<1>11. QED BY <1>8, <1>9, <1>10, TypeParts DEF Inv, GuessInv

LEMMA ClearFailuresStep ==
  ASSUME Inv, NEW r \in Reqs, ClearFailures(r)
  PROVE  Inv'
<1> DEFINE q == req[r]
           k == q.login
           next == [q EXCEPT !.pc = "mint"]
<1>1. q \in Call /\ Finds(q, Leads) /\ q.pc = "clear"
  BY ReqIs DEF ClearFailures, At
<1>2. /\ lockout' = [lockout EXCEPT ![k] = NoFailures] /\ req' = [req EXCEPT ![r] = next]
      /\ UNCHANGED <<users, execs, resetPc, calls, changes>>
  BY DEF ClearFailures, Goto
<1>3. /\ lockout \in [Logins -> Record]
      /\ \A l \in Logins : Room(lockout[l], Pending(req, l))
  BY DEF Inv, TypeOK, GuessInv
<1>4. next \in Call /\ Finds(next, Leads') /\ \A l : ~Guessing(next, l)
  BY <1>1, <1>2, SameAccounts DEF Call, Finds, Guessing, users
<1> HIDE DEF next
<1>5. \A l : Pending(req', l) \subseteq Pending(req, l)
  BY <1>2, <1>4, FewerPending
<1>6. lockout' \in [Logins -> Record]
  BY <1>2, <1>3, NoneFailed
<1>7. ASSUME NEW l \in Logins PROVE Room(lockout'[l], Pending(req', l))
  <2>1. lockout'[l] = NoFailures \/ lockout'[l] = lockout[l]
    BY <1>2, <1>3
  <2>2. QED BY <1>3, <1>5, <2>1, NoneFailed, Fewer
<1>8. Rest' /\ LeadsKept
  BY <1>2, <1>6, RestNow, SameAccounts DEF Rest, users
<1>9. CallsInv' /\ req' \in [Reqs -> Call]
  BY <1>2, <1>4, <1>8, CallsStep
<1>10. QED BY <1>7, <1>8, <1>9, TypeParts DEF Inv, GuessInv

\* Calls by the login ids ls are marked; the others find what they found.
LEMMA MarkedCall ==
  ASSUME Inv, NEW ls, NEW r \in Reqs, NEW d, d = Marked(ls)[r],
         \A l \in Logins \ ls : Known(l) => Behind(l)' = Behind(l)
  PROVE  d \in Call /\ Finds(d, Leads') /\ \A l : Guessing(d, l) <=> Guessing(req[r], l)
<1>1. req[r] \in Call /\ Finds(req[r], Leads)
  BY ReqIs
<1>2. CASE req[r].login \in ls
  <2>1. d = [req[r] EXCEPT !.moved = TRUE]
    BY <1>2 DEF Marked
  <2>2. /\ d \in Call /\ d.moved
        /\ d.pc = req[r].pc /\ d.op = req[r].op /\ d.login = req[r].login
        /\ d.exec = req[r].exec /\ d.proved = req[r].proved /\ d.session = req[r].session
    BY <1>1, <2>1 DEF Call
  <2>3. Finds(d, Leads')
    BY <1>1, <2>2 DEF Finds
  <2>4. QED BY <2>2, <2>3 DEF Guessing
<1>3. CASE req[r].login \notin ls
  <2>1. d = req[r]
    BY <1>3 DEF Marked
  <2>2. QED BY <1>1, <1>3, <2>1, FindsKept
<1>4. QED BY <1>2, <1>3

\* Calls are marked, or go on to a step that knows whom its login id leads to now.
LEMMA MarkedStep ==
  ASSUME Inv, NEW ls, UNCHANGED lockout, Rest',
         \A l \in Logins \ ls : Known(l) => Behind(l)' = Behind(l),
         req' = [r \in Reqs |-> req'[r]],
         \A r \in Reqs : \/ req'[r] = Marked(ls)[r]
                        \/ /\ req'[r] \in Call /\ Finds(req'[r], Leads')
                           /\ \A l : ~Guessing(req'[r], l)
  PROVE  Inv'
<1>1. ASSUME NEW r \in Reqs
      PROVE  /\ req'[r] \in Call /\ Finds(req'[r], Leads')
             /\ \A l : Guessing(req'[r], l) => Guessing(req[r], l)
  BY MarkedCall
<1>2. \A l : Pending(req', l) \subseteq Pending(req, l)
  BY <1>1 DEF Pending
<1>3. \A l \in Logins : lockout[l] \in Record /\ Room(lockout[l], Pending(req, l))
  BY DEF Inv, TypeOK, GuessInv
<1>4. \A l \in Logins : Room(lockout'[l], Pending(req', l))
  BY <1>2, <1>3, Fewer
<1>5. req' \in [Reqs -> Call]
  BY <1>1
<1>6. QED BY <1>1, <1>4, <1>5, TypeParts DEF Inv, CallsInv, GuessInv

LEMMA MovedStep ==
  ASSUME Inv, NEW ls, Move(ls), UNCHANGED lockout, Rest',
         \A l \in Logins \ ls : Known(l) => Behind(l)' = Behind(l)
  PROVE  Inv'
<1>1. req' = Marked(ls) /\ req' = [r \in Reqs |-> req'[r]]
  BY DEF Move, Marked
<1>2. QED BY <1>1, MarkedStep

LEMMA InsertStep ==
  ASSUME Inv, NEW r \in Reqs, NEW u \in Uids, NEW a \in Aliases, Insert(r, u, a)
  PROVE  Inv'
<1> DEFINE q == req[r]
           next == [q EXCEPT !.proved = u, !.moved = FALSE, !.pw = None, !.pc = "mint"]
<1>0. PICK k : k = q.login
  OBVIOUS
<1>1. q \in Call /\ Finds(q, Leads) /\ q.pc = "insert" /\ k \in Logins
  BY <1>0, ReqIs DEF Insert, At, Finds
<1>2. UNCHANGED <<lockout, execs, resetPc, calls, changes>>
  BY DEF Insert
<1>3. CASE Answer(r) /\ UNCHANGED users
  BY <1>2, <1>3, AnswerOnly
<1>4. CASE ~(Answer(r) /\ UNCHANGED users)
  <2>1. /\ Free(k) /\ Register(u, k, a)
        /\ hash' = [hash EXCEPT ![u] = q.pw]
        /\ req' = [Marked(Claimed(k, a)) EXCEPT ![r] = next]
    BY <1>0, <1>4 DEF Insert
  <2>2. /\ AccountsTyped' /\ AccountsInv' /\ Behind(k)' = u
        /\ \A m \in Logins \ Claimed(k, a) : Known(m) => Behind(m)' = Behind(m)
    <3>1. None \notin Uids /\ AccountsTyped /\ AccountsInv
      BY RestNow, PasswordSignInAssumption DEF Rest
    <3>2. /\ AccountsTyped' /\ AccountsInv' /\ Behind(k)' = u
          /\ \A m \in Logins : Known(m) /\ m \notin Claimed(k, a) => Behind(m)' = Behind(m)
      BY <1>1, <2>1, <3>1, RegisterKeeps
    <3>3. QED BY <3>2
  <2>3. next \in Call /\ next.login = k /\ next.pc = "mint" /\ next.proved = u
        /\ next.session = q.session /\ q.session = None
    <3>1. next \in Call /\ next.login = k /\ next.pc = "mint" /\ next.proved = u
          /\ next.session = q.session
      BY <1>0, <1>1 DEF Call
    <3>2. QED BY <1>1, <3>1 DEF Finds
  <2>4. Leads'[k] = u
    BY <1>1, <2>2 DEF Leads
  <2>5. Finds(next, Leads') /\ \A l : ~Guessing(next, l)
    BY <1>1, <2>3, <2>4 DEF Finds, Guessing
  <2>6. Rest'
    <3>1. q.pw \in Passwords \cup {None}
      BY <1>1 DEF Call
    <3>2. QED BY <1>2, <2>1, <2>2, <3>1, RestNow DEF Rest
  <2> HIDE DEF next
  <2>7. \A x \in Reqs : req'[x] = IF x = r THEN next ELSE Marked(Claimed(k, a))[x]
    BY <2>1 DEF Marked
  <2>8. req' = [x \in Reqs |-> req'[x]]
    BY <2>1 DEF Marked
  <2>9. QED BY <1>2, <2>2, <2>3, <2>5, <2>6, <2>7, <2>8, MarkedStep
<1>5. QED BY <1>3, <1>4

LEMMA SetPasswordStep ==
  ASSUME Inv, NEW r \in Reqs, SetPassword(r)
  PROVE  Inv'
<1> DEFINE q == req[r]
           k == q.login
           next == [q EXCEPT !.pc = "mint", !.new = None]
<1>1. q \in Call /\ Finds(q, Leads) /\ q.pc = "set" /\ k \in Logins
  BY ReqIs DEF SetPassword, At, Finds
<1>2. UNCHANGED <<accounts, lockout, execs, resetPc, calls, changes>>
  BY DEF SetPassword
<1>3. hash' \in [Uids -> Passwords \cup {None}]
  <2>1. q.new \in Passwords \cup {None} /\ hash \in [Uids -> Passwords \cup {None}]
    BY <1>1, RestNow DEF Call, Rest
  <2>2. hash' = [hash EXCEPT ![Behind(k)] = q.new] \/ hash' = hash
    BY DEF SetPassword
  <2>3. QED BY <2>1, <2>2
<1>4. Rest' /\ LeadsKept
  BY <1>2, <1>3, RestNow, SameAccounts DEF Rest
<1>5. CASE Answer(r)
  BY <1>2, <1>4, <1>5, AnswerStep
<1>6. CASE req' = [req EXCEPT ![r] = next] /\ q.op = "replace"
  <2>1. next \in Call /\ next.pc = "mint" /\ next.login = k /\ next.proved = q.proved
        /\ next.moved = q.moved /\ next.session = q.session
    BY <1>1 DEF Call
  <2> HIDE DEF next
  <2>2. Leads' = Leads
    BY <1>2, SameAccounts
  <2>3. Finds(next, Leads') /\ \A l : ~Guessing(next, l)
    BY <1>1, <1>6, <2>1, <2>2 DEF Finds, Guessing
  <2>4. QED BY <1>2, <1>4, <1>6, <2>1, <2>3, OwnStep
<1>7. QED BY <1>5, <1>6 DEF SetPassword

LEMMA MintStep ==
  ASSUME Inv, NEW r \in Reqs, Mint(r)
  PROVE  Inv'
<1> DEFINE q == req[r]
           u == Behind(q.login)
<1>1. q \in Call /\ Finds(q, Leads) /\ q.pc = "mint" /\ q.login \in Logins
  BY ReqIs DEF Mint, At, Finds
<1>2. UNCHANGED <<users, lockout, execs, resetPc, calls, changes>> /\ calls' \in Nat
  BY RestNow DEF Mint, Rest
<1>3. CASE Answer(r)
  BY <1>2, <1>3, AnswerOnly
<1>4. CASE ~Answer(r)
  <2>1. PICK step \in {"complete", "recordLogin"} :
          req' = [req EXCEPT ![r] = [q EXCEPT !.session = u, !.pc = step]]
    BY <1>4 DEF Mint, Subject
  <2> DEFINE next == [q EXCEPT !.session = u, !.pc = step]
  <2>2. u \in Uids \cup {None} /\ Leads[q.login] = u
    BY <1>1, LeadsIs
  <2>3. ~q.moved => u = q.proved
    BY <1>1, <2>2 DEF Finds
  <2>4. next \in Call /\ next.pc = step /\ next.session = u /\ next.moved = q.moved
        /\ next.proved = q.proved
    BY <1>1, <2>2 DEF Call
  <2>5. Finds(next, Leads) /\ \A l : ~Guessing(next, l)
    BY <2>3, <2>4 DEF Finds, Guessing
  <2> HIDE DEF next
  <2>6. QED BY <1>2, <2>1, <2>4, <2>5, GoStep DEF next
<1>5. QED BY <1>3, <1>4

LEMMA RecordLoginStep ==
  ASSUME Inv, NEW r \in Reqs, RecordLogin(r)
  PROVE  Inv'
BY AnswerOnly DEF RecordLogin

-----------------------------------------------------------------------------
(* The flow's own steps *)

\* A step that changes one call and may change the executions.
LEMMA FlowStep ==
  ASSUME Inv, NEW r \in Reqs, NEW next, next \in Call, Finds(next, Leads),
         req' = [req EXCEPT ![r] = next],
         \A l \in Logins : Guessing(next, l) => Guessing(req[r], l),
         UNCHANGED <<users, lockout, resetPc, calls, changes>>, execs' \in [Execs -> Exec]
  PROVE  Inv'
<1>1. Rest' /\ LeadsKept /\ Leads' = Leads
  BY RestNow, SameAccounts DEF Rest, users
<1>2. QED BY <1>1, OwnStep

LEMMA Executions ==
  ASSUME Inv, NEW l \in Logins \cup {None}
  PROVE  /\ execs \in [Execs -> Exec]
         /\ [NoExec EXCEPT !.status = "waiting"] \in Exec
         /\ [NoExec EXCEPT !.status = "cleared"] \in Exec
         /\ [status |-> "waiting", step |-> 2, login |-> l] \in Exec
         /\ \A e \in Exec : [e EXCEPT !.status = "completed"] \in Exec
BY RestNow DEF Rest, Exec, NoExec

LEMMA CreateExecStep ==
  ASSUME Inv, NEW r \in Reqs, CreateExec(r)
  PROVE  Inv'
<1> DEFINE q == req[r]
           next == [q EXCEPT !.pc = "advance"]
<1>1. q \in Call /\ Finds(q, Leads) /\ q.pc = "create"
  BY ReqIs DEF CreateExec, At
<1>2. UNCHANGED <<users, lockout, resetPc, calls, changes>>
      /\ execs' = [execs EXCEPT ![q.exec] = [NoExec EXCEPT !.status = "waiting"]]
  BY DEF CreateExec
<1>3. execs' \in [Execs -> Exec]
  BY <1>2, Executions
<1>4. CASE Answer(r)
  BY <1>2, <1>3, <1>4, IdleFinds, FlowStep DEF Answer
<1>5. CASE Goto(r, "advance")
  <2>1. next \in Call /\ Finds(next, Leads) /\ \A l : ~Guessing(next, l)
    BY <1>1 DEF Call, Finds, Guessing
  <2>2. req' = [req EXCEPT ![r] = next]
    BY <1>5 DEF Goto
  <2> HIDE DEF next
  <2>3. QED BY <1>2, <1>3, <2>1, <2>2, FlowStep
<1>6. QED BY <1>4, <1>5 DEF CreateExec

LEMMA ReadStepStep ==
  ASSUME Inv, NEW r \in Reqs, ReadStep(r)
  PROVE  Inv'
<1> DEFINE q == req[r]
<1>1. q \in Call /\ Finds(q, Leads) /\ q.pc = "step"
  BY ReqIs DEF ReadStep, At
<1>2. UNCHANGED <<users, lockout, execs, resetPc, calls, changes>> /\ calls' \in Nat
  BY RestNow DEF ReadStep, Rest
<1>3. CASE Answer(r)
  BY <1>2, <1>3, AnswerOnly
<1>4. CASE ~Answer(r)
  <2>1. PICK step \in {"advance", "login"} : req' = [req EXCEPT ![r] = [q EXCEPT !.pc = step]]
    BY <1>4 DEF ReadStep, Goto
  <2> DEFINE next == [q EXCEPT !.pc = step]
  <2>2. next \in Call /\ Finds(next, Leads) /\ \A l : ~Guessing(next, l)
    BY <1>1 DEF Call, Finds, Guessing
  <2> HIDE DEF next
  <2>3. QED BY <1>2, <2>1, <2>2, GoStep DEF next
<1>5. QED BY <1>3, <1>4

LEMMA AdvanceStep ==
  ASSUME Inv, NEW r \in Reqs, Advance(r)
  PROVE  Inv'
<1>1. req' = [req EXCEPT ![r] = Idle] /\ UNCHANGED <<users, lockout, resetPc, calls, changes>>
  BY DEF Advance, Answer
<1>2. execs' \in [Execs -> Exec]
  <2> DEFINE e == [status |-> "waiting", step |-> 2, login |-> req[r].login]
  <2>1. req[r].login \in Logins \cup {None}
    BY ReqIs DEF Call
  <2>2. e \in Exec /\ execs \in [Execs -> Exec]
    BY <2>1, Executions
  <2>3. execs' = [execs EXCEPT ![req[r].exec] = e] \/ execs' = execs
    BY DEF Advance, ShownNext
  <2> HIDE DEF e
  <2>4. QED BY <2>2, <2>3
<1>3. QED BY <1>1, <1>2, IdleFinds, FlowStep

LEMMA ReadLoginStep ==
  ASSUME Inv, NEW r \in Reqs, ReadLogin(r)
  PROVE  Inv'
<1> DEFINE q == req[r]
           l == execs[q.exec].login
           next == [q EXCEPT !.login = l, !.pc = "gate"]
<1>1. q \in Call /\ Finds(q, Leads) /\ q.pc = "login" /\ q.exec \in Execs
  BY ReqIs DEF ReadLogin, At, Finds
<1>2. UNCHANGED <<users, lockout, execs, resetPc, calls, changes>> /\ calls' \in Nat
  BY RestNow DEF ReadLogin, Rest
<1>3. CASE l = None
  BY <1>2, <1>3, AnswerOnly DEF ReadLogin
<1>4. CASE l # None
  <2>1. l \in Logins
    BY <1>1, <1>4, RestNow DEF Rest, Exec
  <2>2. req' = [req EXCEPT ![r] = next]
    BY <1>4 DEF ReadLogin
  <2>3. next \in Call /\ next.pc = "gate" /\ next.login = l /\ next.session = q.session
        /\ q.session = None
    <3>1. q.session = None
      BY <1>1 DEF Finds
    <3>2. QED BY <1>1, <2>1, <3>1 DEF Call
  <2>4. Finds(next, Leads) /\ \A m : ~Guessing(next, m)
    BY <2>1, <2>3 DEF Finds, Guessing
  <2> HIDE DEF next
  <2>5. QED BY <1>2, <2>2, <2>3, <2>4, GoStep
<1>5. QED BY <1>3, <1>4

LEMMA CompleteStep ==
  ASSUME Inv, NEW r \in Reqs, Complete(r)
  PROVE  Inv'
<1> DEFINE q == req[r]
<1>1. req' = [req EXCEPT ![r] = Idle] /\ UNCHANGED <<users, lockout, resetPc, calls, changes>>
  BY DEF Complete, Answer
<1>2. execs' \in [Execs -> Exec]
  <2>1. \A l : l = None => execs \in [Execs -> Exec]
    BY Executions
  <2>2. execs \in [Execs -> Exec] /\ \A e \in Exec : [e EXCEPT !.status = "completed"] \in Exec
    BY <2>1, Executions
  <2>3. execs' = [execs EXCEPT ![q.exec] = [execs[q.exec] EXCEPT !.status = "completed"]]
        \/ execs' = execs
    BY DEF Complete
  <2>4. QED BY <2>2, <2>3
<1>3. QED BY <1>1, <1>2, IdleFinds, FlowStep

-----------------------------------------------------------------------------
(* Management, reset and time *)

\* A step that leaves the login ids and the calls alone.
LEMMA StillStep ==
  ASSUME Inv, UNCHANGED <<accounts, req>>, Rest',
         \A l \in Logins : Room(lockout'[l], Pending(req, l))
  PROVE  Inv'
BY TypeParts, SameAccounts DEF Inv, TypeOK, CallsInv, GuessInv

LEMMA ManageStep ==
  ASSUME Inv, Manage
  PROVE  Inv'
<1>1. Rest /\ \A l \in Logins : Room(lockout[l], Pending(req, l))
  BY RestNow DEF Inv, GuessInv
<1>2. CASE \E u \in Uids, s \in {"enabled", "disabled"} : SetStatus(u, s)
  <2>1. PICK u \in Uids, s \in {"enabled", "disabled"} : SetStatus(u, s)
    BY <1>2
  <2>2. /\ SwitchStatus(u, s) /\ changes' = changes + 1
        /\ UNCHANGED <<hash, lockout, execs, req, resetPc, calls>>
    BY <2>1 DEF SetStatus, Change
  <2>3. AccountsTyped' /\ AccountsInv' /\ \A l \in Logins : Behind(l)' = Behind(l)
    BY <1>1, <2>2, SwitchStatusKeeps DEF Rest
  <2>4. Rest' /\ Leads' = Leads
    BY <1>1, <2>2, <2>3 DEF Rest, Leads
  <2>5. QED BY <1>1, <2>2, <2>4, TypeParts DEF Inv, TypeOK, CallsInv, GuessInv
<1>3. CASE \E u \in Uids, ls \in SUBSET Logins, a \in Aliases : Delete(u, ls, a)
  <2>1. PICK u \in Uids, ls \in SUBSET Logins, a \in Aliases : Delete(u, ls, a)
    BY <1>3
  <2>2. /\ Remove(u, ls, a) /\ hash' = [hash EXCEPT ![u] = None] /\ changes' = changes + 1
        /\ Move(ls \cup Turned(a))
        /\ UNCHANGED <<lockout, execs, resetPc, calls>>
    BY <2>1 DEF Delete, Change
  <2>3. /\ AccountsTyped' /\ AccountsInv'
        /\ \A l \in Logins \ (ls \cup Turned(a)) : Known(l) => Behind(l)' = Behind(l)
    BY <1>1, <2>2, RemoveKeeps DEF Rest
  <2>4. Rest'
    BY <1>1, <2>2, <2>3 DEF Rest
  <2>5. QED BY <2>2, <2>3, <2>4, MovedStep
<1>4. CASE \E l, m \in Logins, a \in Aliases : Rename(l, m, a)
  <2>1. PICK l \in Logins, m \in Logins, a \in Aliases : Rename(l, m, a)
    BY <1>4
  <2>2. /\ Rekey(l, m, a) /\ changes' = changes + 1
        /\ Move({l, m} \cup Turned(a))
        /\ UNCHANGED <<hash, lockout, execs, resetPc, calls>>
    BY <2>1 DEF Rename, Change
  <2>3. /\ AccountsTyped' /\ AccountsInv'
        /\ \A x \in Logins \ ({l, m} \cup Turned(a)) : Known(x) => Behind(x)' = Behind(x)
    BY <1>1, <2>2, RekeyKeeps DEF Rest
  <2>4. Rest'
    BY <1>1, <2>2, <2>3 DEF Rest
  <2>5. QED BY <2>2, <2>3, <2>4, MovedStep
<1>9. CASE \E l \in Logins, u \in Uids \cup {None} : Describe(l, u)
  <2>1. PICK l \in Logins, u \in Uids \cup {None} : Describe(l, u)
    BY <1>9
  <2>2. /\ Realias(l, u) /\ changes' = changes + 1 /\ Move(Loose \cap {l})
        /\ UNCHANGED <<hash, lockout, execs, resetPc, calls>>
    BY <2>1 DEF Describe, Change
  <2>3. /\ AccountsTyped' /\ AccountsInv'
        /\ \A x \in Logins \ (Loose \cap {l}) : Known(x) => Behind(x)' = Behind(x)
    BY <1>1, <2>2, RealiasKeeps DEF Rest
  <2>4. Rest'
    BY <1>1, <2>2, <2>3 DEF Rest
  <2>5. QED BY <2>2, <2>3, <2>4, MovedStep
<1>5. CASE ResetUsers
  <2>1. /\ RemoveAll /\ hash' = [u \in Uids |-> None]
        /\ changes' = changes + 1 /\ resetPc' = "flows"
        /\ Move(Logins)
        /\ UNCHANGED <<lockout, execs, calls>>
    BY <1>5 DEF ResetUsers, Change
  <2>2. Rest'
    BY <1>1, <2>1, RemoveAllKeeps DEF Rest
  <2>3. QED BY <2>1, <2>2, MovedStep
<1>6. CASE ResetFlows
  <2>1. /\ execs' = [x \in Execs |-> IF Held(x) THEN [NoExec EXCEPT !.status = "cleared"]
                                     ELSE execs[x]]
        /\ resetPc' = "lockouts" /\ UNCHANGED <<users, lockout, req, calls, changes>>
    BY <1>6 DEF ResetFlows
  <2>2. execs \in [Execs -> Exec] /\ [NoExec EXCEPT !.status = "cleared"] \in Exec
    BY Executions
  <2>3. Rest'
    BY <1>1, <2>1, <2>2, SameAccounts DEF Rest, users
  <2>4. QED BY <1>1, <2>1, <2>3, StillStep DEF users
<1>7. CASE ResetLockouts
  <2>1. /\ lockout' = [l \in Logins |-> NoFailures] /\ resetPc' = "idle"
        /\ UNCHANGED <<users, execs, req, calls, changes>>
    BY <1>7 DEF ResetLockouts
  <2>2. Rest' /\ \A l \in Logins : Room(lockout'[l], Pending(req, l))
    BY <1>1, <2>1, NoneFailed, SameAccounts DEF Rest, users
  <2>3. QED BY <2>1, <2>2, StillStep DEF users
<1>8. QED BY <1>2, <1>3, <1>4, <1>5, <1>6, <1>7, <1>9 DEF Manage

LEMMA TickStep ==
  ASSUME Inv, Tick
  PROVE  Inv'
<1>1. /\ lockout' = [l \in Logins |-> Aged(lockout[l])]
      /\ UNCHANGED <<users, execs, req, resetPc, calls, changes>>
  BY DEF Tick
<1>2. \A l \in Logins : lockout[l] \in Record /\ Room(lockout[l], Pending(req, l))
  BY DEF Inv, TypeOK, GuessInv
<1>3. \A l \in Logins : lockout'[l] \in Record /\ Room(lockout'[l], Pending(req, l))
  BY <1>1, <1>2, AgedRoom
<1>4. Rest'
  BY <1>1, <1>3, RestNow, SameAccounts DEF Rest, users
<1>5. QED BY <1>1, <1>3, <1>4, StillStep DEF users

-----------------------------------------------------------------------------

LEMMA InitInv ==
  ASSUME Init
  PROVE  Inv
<1>1. NoExec \in Exec /\ [NoExec EXCEPT !.status = "waiting"] \in Exec
  BY DEF NoExec, Exec
<1>2. Rest
  <2>1. AccountsTyped /\ AccountsInv
    BY DEF Init, AccountsTyped, AccountsInv, Stored
  <2>2. QED BY <1>1, <2>1, NoneFailed DEF Init, Rest
<1>3. req \in [Reqs -> Call] /\ \A r \in Reqs : Finds(req[r], Leads)
  BY IdleFinds DEF Init
<1>4. \A l \in Logins : Room(lockout[l], Pending(req, l))
  BY NoneFailed DEF Init
<1>5. QED BY <1>2, <1>3, <1>4, TypeParts DEF Inv, CallsInv, GuessInv

LEMMA NextInv ==
  ASSUME Inv, [Next]_vars
  PROVE  Inv'
<1>1. CASE \E r \in Reqs : Arrive(r)
  BY <1>1, ArriveStep
<1>2. CASE \E r \in Reqs : Serve(r)
  <2>1. PICK r \in Reqs : Serve(r)
    BY <1>2
  <2>2. QED
    BY <2>1, GateStep, VerifyStep, RecordFailureStep, ClearFailuresStep, InsertStep,
       SetPasswordStep, MintStep, RecordLoginStep, CreateExecStep, ReadStepStep, AdvanceStep,
       ReadLoginStep, CompleteStep, Zenon DEF Serve
<1>3. CASE Manage
  BY <1>3, ManageStep
<1>4. CASE Tick
  BY <1>4, TickStep
<1>5. CASE UNCHANGED vars
  <2>1. UNCHANGED <<users, lockout, execs, req, resetPc, calls, changes>>
    BY <1>5 DEF vars
  <2>2. Rest' /\ \A l \in Logins : Room(lockout'[l], Pending(req, l))
    BY <2>1, RestNow, SameAccounts DEF Rest, users, Inv, GuessInv
  <2>3. QED BY <2>1, <2>2, StillStep DEF users
<1>6. QED BY <1>1, <1>2, <1>3, <1>4, <1>5 DEF Next

LEMMA InvHolds == Spec => []Inv
<1>1. Init => Inv
  BY InitInv
<1>2. Inv /\ [Next]_vars => Inv'
  BY NextInv
<1>3. QED BY <1>1, <1>2, PTL DEF Spec

\* Every variable keeps its shape.
THEOREM TypeCorrect == Spec => []TypeOK
<1>1. Inv => TypeOK
  BY DEF Inv
<1>2. Spec => []Inv
  BY InvHolds
<1>3. QED BY <1>1, <1>2, PTL

\* check_not_locked_out and record_failure straddle a bcrypt run; a window holds
\* one failure per request beyond the limit all the same.
THEOREM GuessesPerWindowHolds == Spec => []GuessesPerWindow
<1>1. Inv => GuessesPerWindow
  BY DEF Inv, GuessInv, Room, GuessesPerWindow
<1>2. Spec => []Inv
  BY InvHolds
<1>3. QED BY <1>1, <1>2, PTL

\* signup, signin, replace and the built-in flow mint for whom the password was
\* compared with or set, unless the login id was made to lead elsewhere on the way.
THEOREM SignsInPasswordOwnerHolds == Spec => []SignsInPasswordOwner
<1>1. Inv => SignsInPasswordOwner
  BY DEF Inv, CallsInv, Finds, SignsInPasswordOwner
<1>2. Spec => []Inv
  BY InvHolds
<1>3. QED BY <1>1, <1>2, PTL

NoProlonging ==
  \A l \in Logins :
    LockedOut(lockout[l]) /\ LockedOut(lockout'[l]) => lockout'[l].age >= lockout[l].age

LEMMA LockoutStep ==
  ASSUME Inv, [Next]_vars
  PROVE  NoProlonging
<1>1. lockout \in [Logins -> Record] /\ MaxFailures \in Nat \ {0} /\ Window \in Nat
  BY LockoutsAssumption DEF Inv, TypeOK
<1>2. CASE UNCHANGED lockout
  BY <1>1, <1>2 DEF NoProlonging, Record
<1>3. ASSUME NEW r \in Reqs, RecordFailure(r) PROVE NoProlonging
  <2>1. lockout' = [lockout EXCEPT ![req[r].login] = Recorded(lockout[req[r].login])]
    BY <1>3 DEF RecordFailure
  <2>2. \A f \in Record : LockedOut(f) => Recorded(f).age = f.age
    BY <1>1 DEF Record, LockedOut, Recorded
  <2>3. QED BY <1>1, <2>1, <2>2 DEF NoProlonging, Record
<1>4. ASSUME NEW r \in Reqs, ClearFailures(r) PROVE NoProlonging
  <2>1. lockout' = [lockout EXCEPT ![req[r].login] = NoFailures]
    BY <1>4 DEF ClearFailures
  <2>2. ~LockedOut(NoFailures)
    BY <1>1 DEF LockedOut, NoFailures
  <2>3. QED BY <1>1, <2>1, <2>2 DEF NoProlonging, Record
<1>5. CASE ResetLockouts
  <2>1. \A l \in Logins : lockout'[l] = NoFailures
    BY <1>5 DEF ResetLockouts
  <2>2. ~LockedOut(NoFailures)
    BY <1>1 DEF LockedOut, NoFailures
  <2>3. QED BY <2>1, <2>2 DEF NoProlonging
<1>6. CASE Tick
  <2>1. \A l \in Logins : lockout'[l] = Aged(lockout[l])
    BY <1>6 DEF Tick
  <2>2. \A f \in Record : Aged(f).age >= f.age
    BY <1>1 DEF Record, Aged
  <2>3. QED BY <1>1, <2>1, <2>2 DEF NoProlonging
<1>7. ASSUME NEW r \in Reqs, Serve(r), ~RecordFailure(r), ~ClearFailures(r)
      PROVE  UNCHANGED lockout
  BY <1>7 DEF Serve, Gate, Verify, Insert, SetPassword, Mint, RecordLogin, CreateExec, ReadStep,
              Advance, ReadLogin, Complete
<1>8. (\E r \in Reqs : Arrive(r)) \/ UNCHANGED vars => UNCHANGED lockout
  BY DEF Arrive, vars
<1>9. Manage /\ ~ResetLockouts => UNCHANGED lockout
  BY DEF Manage, Delete, SetStatus, Rename, Describe, ResetUsers, ResetFlows
<1>10. QED BY <1>2, <1>3, <1>4, <1>5, <1>6, <1>7, <1>8, <1>9 DEF Next

\* record_failure keeps the time of the first failure, so late failures do not
\* prolong a lockout.
THEOREM LockoutNotProlongedHolds == Spec => LockoutNotProlonged
<1>1. Spec => []Inv
  BY InvHolds
<1>2. Inv /\ [Next]_vars => [NoProlonging]_vars
  BY LockoutStep
<1>3. Spec => [][NoProlonging]_vars
  BY <1>1, <1>2, PTL DEF Spec
<1>4. QED BY <1>3 DEF LockoutNotProlonged, NoProlonging
=============================================================================
