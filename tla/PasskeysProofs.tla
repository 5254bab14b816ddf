--------------------------- MODULE PasskeysProofs ---------------------------
(***************************************************************************)
(* Every passkey session is for a user that enrolled the passkey, every    *)
(* ceremony is finished once, and nobody who signed up with a passkey is   *)
(* in the store without one: for all users, passkeys, ceremonies and       *)
(* requests.  What a call has found so far stays true while others run     *)
(* because of four facts about every step (Onward): a transaction that was *)
(* started stays started, whom it was started for does not change, nothing *)
(* is taken out of the enrolments, and a user loses its passkeys only to a *)
(* reset.                                                                  *)
(***************************************************************************)
EXTENDS Passkeys, TLAPS

\* What the call q knows at its step: ts, as, en, cs and ws are txs, asked,
\* enrolled, creds and wiped.
Finds(q, ts, as, en, cs, ws) ==
  /\ q.pc = "load" => q.login \in Logins /\ q.ceremony \in Ceremonies
  /\ q.pc \in {"has", "begin"} =>
       /\ q.login \in Logins /\ q.ceremony \in Ceremonies
       /\ q.ceremony # "signUp" => q.uid \in Uids
  /\ q.pc \in {"take", "register", "insert", "mint", "recordLogin"} =>
       q.tx \in Txs /\ q.key \in Keys /\ ts[q.tx].status # "unused"
  /\ q.pc \in {"register", "insert"} =>
       q.ceremony = "signUp" /\ q.login \in Logins /\ q.uid \in Uids
  /\ q.pc = "insert" => <<q.key, q.uid>> \in en /\ (cs[q.uid] # {} \/ q.uid \in ws)
  /\ q.pc \in {"mint", "recordLogin"} =>
       /\ q.uid \in Uids /\ <<q.key, q.uid>> \in en
       /\ q.ceremony = "signIn" => q.uid = as[q.tx]
  /\ q.session # None => q.pc = "recordLogin" /\ q.session = q.uid

CallsInv == \A r \in Reqs : Finds(req[r], txs, asked, enrolled, creds, wiped)

\* What the open ceremony t was started with, and that of those that were taken
\* nothing is left.
Sound(t) ==
  /\ Open(t) => /\ txs[t].login \in Logins /\ txs[t].ceremony \in Ceremonies
                /\ txs[t].uid = asked[t]
                /\ txs[t].ceremony # "signUp" => txs[t].uid \in Uids
  /\ t \in finished => txs[t].status = "gone"

TxsInv == twice = {} /\ \A t \in Txs : Sound(t)

CredsInv ==
  /\ \A u \in Uids : \A k \in creds[u] : <<k, u>> \in enrolled
  /\ SignedUpHasPasskey

Inv == TypeOK /\ CallsInv /\ TxsInv /\ CredsInv

-----------------------------------------------------------------------------
(* What every step leaves true *)

Onward ==
  /\ \A t \in Txs : Started(t) => txs'[t].status # "unused" /\ asked'[t] = asked[t]
  /\ enrolled \subseteq enrolled'
  /\ wiped \subseteq wiped'
  /\ \A u \in Uids : creds[u] # {} => creds'[u] # {} \/ u \in wiped'

LEMMA FindsKept ==
  ASSUME Onward, NEW q, Finds(q, txs, asked, enrolled, creds, wiped)
  PROVE  Finds(q, txs', asked', enrolled', creds', wiped')
<1>1. /\ q.pc = "load" => q.login \in Logins /\ q.ceremony \in Ceremonies
      /\ q.pc \in {"has", "begin"} =>
           /\ q.login \in Logins /\ q.ceremony \in Ceremonies
           /\ q.ceremony # "signUp" => q.uid \in Uids
      /\ q.pc \in {"register", "insert"} =>
           q.ceremony = "signUp" /\ q.login \in Logins /\ q.uid \in Uids
      /\ q.session # None => q.pc = "recordLogin" /\ q.session = q.uid
  BY DEF Finds
<1>2. q.pc \in {"take", "register", "insert", "mint", "recordLogin"} =>
        q.tx \in Txs /\ q.key \in Keys /\ Started(q.tx)
  BY DEF Finds, Started
<1>3. q.pc \in {"take", "register", "insert", "mint", "recordLogin"} =>
        q.tx \in Txs /\ q.key \in Keys /\ txs'[q.tx].status # "unused"
  BY <1>2 DEF Onward
<1>4. q.pc = "insert" =>
        <<q.key, q.uid>> \in enrolled' /\ (creds'[q.uid] # {} \/ q.uid \in wiped')
  BY <1>1 DEF Finds, Onward
<1>5. q.pc \in {"mint", "recordLogin"} =>
        /\ q.uid \in Uids /\ <<q.key, q.uid>> \in enrolled'
        /\ q.ceremony = "signIn" => q.uid = asked'[q.tx]
  BY <1>2 DEF Finds, Onward
<1>6. QED BY <1>1, <1>3, <1>4, <1>5 DEF Finds

\* A step of one request at most.
LEMMA CallsStep ==
  ASSUME Inv, Onward, NEW r, NEW next, next \in Call,
         Finds(next, txs', asked', enrolled', creds', wiped'),
         req' = [req EXCEPT ![r] = next]
  PROVE  CallsInv' /\ req' \in [Reqs -> Call]
<1>1. req \in [Reqs -> Call]
  BY DEF Inv, TypeOK
<1>2. req' \in [Reqs -> Call]
  BY <1>1
<1>3. ASSUME NEW q \in Reqs PROVE Finds(req'[q], txs', asked', enrolled', creds', wiped')
  <2>1. req'[q] = next \/ req'[q] = req[q]
    BY <1>1
  <2>2. Finds(req[q], txs, asked, enrolled, creds, wiped)
    BY DEF Inv, CallsInv
  <2>3. Finds(req[q], txs', asked', enrolled', creds', wiped')
    BY <2>2, FindsKept
  <2>4. QED BY <2>1, <2>3
<1>4. QED BY <1>2, <1>3 DEF CallsInv

\* A step that leaves the requests alone.
LEMMA CallsStill ==
  ASSUME Inv, Onward, UNCHANGED req
  PROVE  CallsInv' /\ req' \in [Reqs -> Call]
<1>1. \A q \in Reqs : Finds(req[q], txs', asked', enrolled', creds', wiped')
  BY FindsKept DEF Inv, CallsInv
<1>2. QED BY <1>1 DEF Inv, CallsInv, TypeOK

LEMMA IdleFinds ==
  /\ Idle \in Call
  /\ \A ts, as, en, cs, ws : Finds(Idle, ts, as, en, cs, ws)
BY DEF Idle, Call, Finds

\* The rest of the types.
Rest ==
  /\ owner \in [Logins -> Uids \cup {None}]
  /\ status \in [Uids -> {"unused", "enabled", "disabled", "gone"}]
  /\ creds \in [Uids -> SUBSET Keys]
  /\ txs \in [Txs -> Transaction]
  /\ resetPc \in {"idle", "webauthn"}
  /\ enrolled \subseteq Keys \X Uids
  /\ finished \subseteq Txs /\ twice \subseteq Txs
  /\ wiped \subseteq Uids
  /\ asked \in [Txs -> Uids \cup {None}]
  /\ calls \in Nat /\ changes \in Nat

LEMMA TypeParts == TypeOK <=> Rest /\ req \in [Reqs -> Call]
BY DEF TypeOK, Rest

LEMMA TypePartsNext == TypeOK' <=> Rest' /\ req' \in [Reqs -> Call]
BY DEF TypeOK, Rest

\* A step that changes one call and none of what the calls know.
LEMMA OwnStep ==
  ASSUME Inv, NEW r, NEW next, next \in Call,
         Finds(next, txs, asked, enrolled, creds, wiped),
         req' = [req EXCEPT ![r] = next],
         UNCHANGED <<users, creds, txs, resetPc, history, changes>>, calls' \in Nat
  PROVE  Inv'
<1>1. Onward
  BY DEF Onward, Started, history
<1>2. Finds(next, txs', asked', enrolled', creds', wiped')
  BY DEF history
<1>3. CallsInv' /\ req' \in [Reqs -> Call]
  BY <1>1, <1>2, CallsStep
<1>4. Rest'
  BY DEF Inv, TypeOK, Rest, users, history
<1>5. TxsInv' /\ CredsInv'
  BY DEF Inv, TxsInv, Sound, Open, CredsInv, SignedUpHasPasskey, Stored, users, history
<1>6. QED BY <1>3, <1>4, <1>5, TypePartsNext DEF Inv

LEMMA ReqIs ==
  ASSUME Inv, NEW r \in Reqs
  PROVE  req[r] \in Call /\ Finds(req[r], txs, asked, enrolled, creds, wiped)
BY DEF Inv, TypeOK, CallsInv

LEMMA AnswerStep ==
  ASSUME Inv, NEW r \in Reqs, Answer(r),
         UNCHANGED <<users, creds, txs, resetPc, history, calls, changes>>
  PROVE  Inv'
<1>1. calls' \in Nat
  BY DEF Inv, TypeOK
<1>2. QED BY <1>1, IdleFinds, OwnStep DEF Answer

-----------------------------------------------------------------------------
(* Calls *)

LEMMA ArriveStep ==
  ASSUME Inv, NEW r \in Reqs, Arrive(r)
  PROVE  Inv'
<1>1. calls' \in Nat /\ UNCHANGED <<users, creds, txs, resetPc, history, changes>>
  BY DEF Arrive, Inv, TypeOK
<1>2. CASE \E c \in Ceremonies, l \in Logins : CallStart(r, c, l)
  <2>1. PICK c \in Ceremonies, l \in Logins : CallStart(r, c, l)
    BY <1>2
  <2> DEFINE next == [Idle EXCEPT !.pc = "load", !.op = "start", !.ceremony = c, !.login = l]
  <2>2. next \in Call /\ Finds(next, txs, asked, enrolled, creds, wiped)
    BY DEF Idle, Call, Finds
  <2>3. req' = [req EXCEPT ![r] = next]
    BY <2>1 DEF CallStart
  <2> HIDE DEF next
  <2>4. QED BY <1>1, <2>2, <2>3, OwnStep
<1>3. CASE \E c \in Ceremonies, t \in Txs, k \in Keys, s \in Txs \cup {None} :
             CallFinish(r, c, t, k, s)
  <2>1. PICK c \in Ceremonies, t \in Txs, k \in Keys, s \in Txs \cup {None} :
          CallFinish(r, c, t, k, s)
    BY <1>3
  <2> DEFINE next == [Idle EXCEPT !.pc = "take", !.op = "finish", !.ceremony = c, !.tx = t,
                                  !.key = k, !.challenge = s]
  <2>2. next \in Call /\ Finds(next, txs, asked, enrolled, creds, wiped)
    BY <2>1 DEF Idle, Call, Finds, CallFinish, Started
  <2>3. req' = [req EXCEPT ![r] = next]
    BY <2>1 DEF CallFinish
  <2> HIDE DEF next
  <2>4. QED BY <1>1, <2>2, <2>3, OwnStep
<1>4. QED BY <1>2, <1>3 DEF Arrive

LEMMA LoadStep ==
  ASSUME Inv, NEW r \in Reqs, Load(r)
  PROVE  Inv'
<1> DEFINE l == req[r].login
           c == req[r].ceremony
           next(u) == [req[r] EXCEPT !.uid = Found(l, u), !.pc = IF c = "signIn" THEN "has" ELSE "begin"]
<1>1. UNCHANGED <<users, creds, txs, resetPc, history, calls, changes>> /\ calls' \in Nat
  BY DEF Load, Inv, TypeOK
<1>2. PICK u \in Loaded(l) :
        IF u # None <=> c = "signUp" THEN Answer(r) ELSE req' = [req EXCEPT ![r] = next(u)]
  BY DEF Load
<1>3. CASE u # None <=> c = "signUp"
  BY <1>1, <1>2, <1>3, AnswerStep
<1>4. CASE ~(u # None <=> c = "signUp")
  <2>1. req[r] \in Call /\ l \in Logins /\ c \in Ceremonies /\ req[r].pc = "load"
        /\ req[r].session = None
    BY ReqIs DEF Load, At, Finds
  <2>2. u \in Uids \cup {None} /\ (c # "signUp" => u \in Uids)
    BY <1>2, <1>4, <2>1 DEF Loaded, Taken, Inv, TypeOK
  <2>3. next(u) \in Call
    <3>1. PICK step \in {"has", "begin"} : step = IF c = "signIn" THEN "has" ELSE "begin"
      OBVIOUS
    <3>2. next(u) = [req[r] EXCEPT !.uid = u, !.pc = step]
      BY <3>1 DEF Found
    <3>3. \A d \in Call, v \in Uids \cup {None} : [d EXCEPT !.uid = v, !.pc = step] \in Call
      BY DEF Call
    <3>4. [req[r] EXCEPT !.uid = u, !.pc = step] \in Call
      BY <2>1, <2>2, <3>1, <3>3
    <3> HIDE DEF next
    <3>5. QED BY <3>2, <3>4
  <2>4. Finds(next(u), txs, asked, enrolled, creds, wiped)
    BY <2>1, <2>2 DEF Call, Finds, Found
  <2>5. req' = [req EXCEPT ![r] = next(u)]
    BY <1>2, <1>4
  <2> HIDE DEF next
  <2>6. QED BY <1>1, <2>3, <2>4, <2>5, OwnStep
<1>5. QED BY <1>3, <1>4

LEMMA HasPasskeyStep ==
  ASSUME Inv, NEW r \in Reqs, HasPasskey(r)
  PROVE  Inv'
<1> DEFINE next == [req[r] EXCEPT !.pc = "begin"]
<1>1. UNCHANGED <<users, creds, txs, resetPc, history, calls, changes>> /\ calls' \in Nat
  BY DEF HasPasskey, Inv, TypeOK
<1>2. CASE Goto(r, "begin")
  <2>1. req[r] \in Call /\ Finds(req[r], txs, asked, enrolled, creds, wiped) /\ req[r].pc = "has"
    BY ReqIs DEF HasPasskey, At
  <2>2. next \in Call /\ Finds(next, txs, asked, enrolled, creds, wiped)
    BY <2>1 DEF Call, Finds
  <2>3. req' = [req EXCEPT ![r] = next]
    BY <1>2 DEF Goto
  <2> HIDE DEF next
  <2>4. QED BY <1>1, <2>2, <2>3, OwnStep
<1>3. CASE Answer(r)
  BY <1>1, <1>3, AnswerStep
<1>4. QED BY <1>2, <1>3 DEF HasPasskey

LEMMA MintStep ==
  ASSUME Inv, NEW r \in Reqs, Mint(r)
  PROVE  Inv'
<1> DEFINE next == [req[r] EXCEPT !.session = req[r].uid, !.pc = "recordLogin"]
<1>1. UNCHANGED <<users, creds, txs, resetPc, history, calls, changes>> /\ calls' \in Nat
  BY DEF Mint, Inv, TypeOK
<1>2. CASE status[req[r].uid] = "enabled"
  <2>1. req[r] \in Call /\ Finds(req[r], txs, asked, enrolled, creds, wiped) /\ req[r].pc = "mint"
    BY ReqIs DEF Mint, At
  <2>2. next \in Call /\ Finds(next, txs, asked, enrolled, creds, wiped)
    BY <2>1 DEF Call, Finds
  <2>3. req' = [req EXCEPT ![r] = next]
    BY <1>2 DEF Mint
  <2> HIDE DEF next
  <2>4. QED BY <1>1, <2>2, <2>3, OwnStep
<1>3. CASE status[req[r].uid] # "enabled"
  BY <1>1, <1>3, AnswerStep DEF Mint
<1>4. QED BY <1>2, <1>3

LEMMA RecordLoginStep ==
  ASSUME Inv, NEW r \in Reqs, RecordLogin(r)
  PROVE  Inv'
BY AnswerStep DEF RecordLogin

-----------------------------------------------------------------------------
(* Transactions *)

LEMMA BeginStep ==
  ASSUME Inv, NEW r \in Reqs, NEW t \in Txs, Begin(r, t)
  PROVE  Inv'
<1> DEFINE q == req[r]
           new == [status |-> "open", ceremony |-> q.ceremony, login |-> q.login, uid |-> q.uid]
           old == [NoTransaction EXCEPT !.status = "gone"]
<1>1. /\ txs[t].status = "unused" /\ txs' = [Swept EXCEPT ![t] = new]
      /\ asked' = [asked EXCEPT ![t] = q.uid] /\ req' = [req EXCEPT ![r] = Idle]
      /\ UNCHANGED <<users, creds, resetPc, enrolled, finished, twice, wiped, calls, changes>>
  BY DEF Begin, Answer
<1>2. q \in Call /\ q.login \in Logins /\ q.ceremony \in Ceremonies
      /\ (q.ceremony # "signUp" => q.uid \in Uids)
  BY ReqIs DEF Begin, At, Finds
<1>3. q.uid \in Uids \cup {None}
  BY <1>2 DEF Call
<1>4. new \in Transaction /\ old \in Transaction /\ old.status = "gone"
  BY <1>2, <1>3 DEF Transaction, NoTransaction
<1>5. txs \in [Txs -> Transaction] /\ asked \in [Txs -> Uids \cup {None}]
  BY DEF Inv, TypeOK
<1> HIDE DEF new, old
<1>6. \A x \in Txs : txs'[x] = IF x = t THEN new
                              ELSE IF txs[x].status = "old" THEN old ELSE txs[x]
  BY <1>1, <1>5 DEF Swept, old
<1>7. txs' = [x \in Txs |-> txs'[x]]
  BY <1>1 DEF Swept
<1>8. txs' \in [Txs -> Transaction]
  BY <1>4, <1>5, <1>6, <1>7
<1>9. asked' \in [Txs -> Uids \cup {None}] /\ \A x \in Txs : asked'[x] = IF x = t THEN q.uid ELSE asked[x]
  BY <1>1, <1>3, <1>5
<1>10. Onward
  BY <1>1, <1>4, <1>6, <1>9 DEF Onward, Started, new
<1>11. CallsInv' /\ req' \in [Reqs -> Call]
  BY <1>1, <1>10, IdleFinds, CallsStep
<1>12. Rest'
  BY <1>1, <1>8, <1>9 DEF Inv, TypeOK, Rest, users
<1>13. ASSUME NEW x \in Txs PROVE Sound(x)'
  <2>1. Sound(x) /\ finished' = finished
    BY <1>1 DEF Inv, TxsInv
  <2>2. CASE x = t
    <3>1. txs'[x] = new /\ asked'[x] = q.uid /\ x \notin finished
      BY <1>1, <1>6, <1>9, <2>1, <2>2 DEF Sound
    <3>2. QED BY <1>2, <2>1, <3>1 DEF Sound, Open, new
  <2>3. CASE x # t /\ txs[x].status = "old"
    <3>1. txs'[x].status = "gone"
      BY <1>4, <1>6, <2>3
    <3>2. QED BY <3>1 DEF Sound, Open
  <2>4. CASE x # t /\ txs[x].status # "old"
    <3>1. txs'[x] = txs[x] /\ asked'[x] = asked[x]
      BY <1>6, <1>9, <2>4
    <3>2. QED BY <2>1, <3>1 DEF Sound, Open
  <2>5. QED BY <2>2, <2>3, <2>4
<1>14. TxsInv' /\ CredsInv'
  BY <1>1, <1>13 DEF Inv, TxsInv, CredsInv, SignedUpHasPasskey, Stored, users
<1>15. QED BY <1>11, <1>12, <1>14, TypePartsNext DEF Inv

\* What a finish that takes its transaction leaves behind.
LEMMA TakeFacts ==
  ASSUME Inv, NEW r \in Reqs, req[r].tx \in Txs, Takes(r), Take(r), UNCHANGED asked
  PROVE  /\ TxsInv'
         /\ \A t \in Txs : Started(t) => txs'[t].status # "unused"
         /\ txs' \in [Txs -> Transaction] /\ finished' \subseteq Txs /\ twice' \subseteq Txs
         /\ txs[req[r].tx].login \in Logins /\ txs[req[r].tx].ceremony = req[r].ceremony
         /\ txs[req[r].tx].uid = asked[req[r].tx]
         /\ req[r].ceremony # "signUp" => txs[req[r].tx].uid \in Uids
<1> DEFINE t == req[r].tx
           old == [NoTransaction EXCEPT !.status = "gone"]
<1>1. Open(t) /\ Sound(t) /\ txs[t].ceremony = req[r].ceremony
  BY DEF Takes, Inv, TxsInv
<1>2. t \notin finished
  BY <1>1 DEF Sound, Open
<1>3. txs' = [txs EXCEPT ![t] = old] /\ finished' = finished \cup {t} /\ twice' = twice
  BY <1>2 DEF Take, AfterTaking
<1>4. old \in Transaction /\ old.status = "gone"
  BY DEF Transaction, NoTransaction
<1> HIDE DEF old
<1>5. txs \in [Txs -> Transaction] /\ finished \subseteq Txs /\ twice = {}
  BY DEF Inv, TypeOK, TxsInv
<1>6. \A x \in Txs : txs'[x] = IF x = t THEN old ELSE txs[x]
  BY <1>3, <1>5
<1>7. \A x \in Txs : Sound(x)'
  <2>1. \A x \in Txs : Sound(x)
    BY DEF Inv, TxsInv
  <2>2. QED BY <1>3, <1>4, <1>6, <2>1 DEF Sound, Open
<1>8. TxsInv'
  BY <1>3, <1>5, <1>7 DEF TxsInv
<1>9. QED BY <1>1, <1>3, <1>4, <1>5, <1>6, <1>8 DEF Sound, Started

LEMMA TakeOnward ==
  ASSUME \A t \in Txs : Started(t) => txs'[t].status # "unused",
         enrolled \subseteq enrolled', \A u \in Uids : creds[u] \subseteq creds'[u],
         UNCHANGED <<wiped, asked>>
  PROVE  Onward
<1>1. \A u \in Uids : creds[u] # {} => creds'[u] # {}
  OBVIOUS
<1>2. QED BY <1>1 DEF Onward

LEMMA CredsStill ==
  ASSUME Inv, UNCHANGED <<users, creds, enrolled, wiped>>
  PROVE  CredsInv'
BY DEF Inv, CredsInv, SignedUpHasPasskey, Stored, users

\* finish_registration for a user of this store.
LEMMA RegisterFacts ==
  ASSUME Inv, NEW u \in Uids, NEW k \in Keys, Register(u, k), UNCHANGED <<users, wiped>>
  PROVE  /\ CredsInv' /\ creds' \in [Uids -> SUBSET Keys] /\ enrolled' \subseteq Keys \X Uids
         /\ enrolled \subseteq enrolled' /\ \A v \in Uids : creds[v] \subseteq creds'[v]
         /\ creds'[u] # {} /\ <<k, u>> \in enrolled'
<1>1. creds \in [Uids -> SUBSET Keys] /\ enrolled \subseteq Keys \X Uids
  BY DEF Inv, TypeOK
<1>2. /\ creds' = [creds EXCEPT ![u] = creds[u] \cup {k}]
      /\ enrolled' = enrolled \cup {<<k, u>>}
  BY DEF Register
<1>3. \A v \in Uids : creds'[v] = IF v = u THEN creds[v] \cup {k} ELSE creds[v]
  BY <1>1, <1>2
<1>4. creds' \in [Uids -> SUBSET Keys]
  BY <1>1, <1>2
<1>5. \A v \in Uids : \A j \in creds'[v] : <<j, v>> \in enrolled'
  <2>1. ASSUME NEW v \in Uids, NEW j \in creds'[v] PROVE <<j, v>> \in enrolled'
    <3>1. CASE j \in creds[v]
      BY <1>2, <3>1 DEF Inv, CredsInv
    <3>2. CASE j \notin creds[v]
      BY <1>2, <1>3, <2>1, <3>2
    <3>3. QED BY <3>1, <3>2
  <2>2. QED BY <2>1
<1>6. SignedUpHasPasskey'
  BY <1>3 DEF Inv, CredsInv, SignedUpHasPasskey, Stored, users
<1>7. QED BY <1>1, <1>2, <1>3, <1>4, <1>5, <1>6 DEF CredsInv

LEMMA TakeSignUpStep ==
  ASSUME Inv, NEW r \in Reqs, NEW u \in Uids, TakeSignUp(r, u)
  PROVE  Inv'
<1> DEFINE q == req[r]
           next == [q EXCEPT !.pc = "register", !.uid = u, !.login = txs[q.tx].login]
<1>1. q \in Call /\ q.pc = "take" /\ q.tx \in Txs /\ q.key \in Keys /\ Started(q.tx)
      /\ q.ceremony = "signUp" /\ q.session = None
  BY ReqIs DEF TakeSignUp, At, Finds, Started
<1>2. UNCHANGED <<users, creds, resetPc, enrolled, wiped, asked, calls, changes>>
  BY DEF TakeSignUp
<1>3. CASE Takes(r)
  <2>1. Take(r) /\ req' = [req EXCEPT ![r] = next]
    BY <1>3 DEF TakeSignUp, Follows
  <2>2. /\ TxsInv' /\ \A t \in Txs : Started(t) => txs'[t].status # "unused"
        /\ txs' \in [Txs -> Transaction] /\ finished' \subseteq Txs /\ twice' \subseteq Txs
        /\ txs[q.tx].login \in Logins
    BY <1>1, <1>2, <1>3, <2>1, TakeFacts
  <2>3. Onward
    BY <1>2, <2>2, TakeOnward
  <2>4. next \in Call
    BY <1>1, <2>2 DEF Call
  <2>5. Finds(next, txs', asked', enrolled', creds', wiped')
    BY <1>1, <2>2 DEF Finds, Call
  <2> HIDE DEF next
  <2>6. CallsInv' /\ req' \in [Reqs -> Call]
    BY <2>1, <2>3, <2>4, <2>5, CallsStep
  <2>7. Rest'
    BY <1>2, <2>2 DEF Rest, Inv, TypeOK, users
  <2>8. QED BY <1>2, <2>2, <2>6, <2>7, CredsStill, TypePartsNext DEF Inv
<1>4. CASE ~Takes(r)
  BY <1>2, <1>4, AnswerStep DEF TakeSignUp, history
<1>5. QED BY <1>3, <1>4

LEMMA AssertPasskeyStep ==
  ASSUME Inv, NEW r \in Reqs, AssertPasskey(r)
  PROVE  Inv'
<1> DEFINE q == req[r]
           u == txs[q.tx].uid
           next == [q EXCEPT !.pc = "mint", !.uid = u]
<1>1. q \in Call /\ q.pc = "take" /\ q.tx \in Txs /\ q.key \in Keys /\ Started(q.tx)
      /\ q.ceremony = "signIn" /\ q.session = None
  BY ReqIs DEF AssertPasskey, At, Finds, Started
<1>2. UNCHANGED <<users, creds, resetPc, enrolled, wiped, asked, calls, changes>>
  BY DEF AssertPasskey
<1>3. CASE Takes(r)
  <2>1. Take(r)
    BY <1>3 DEF AssertPasskey
  <2>2. /\ TxsInv' /\ \A t \in Txs : Started(t) => txs'[t].status # "unused"
        /\ txs' \in [Txs -> Transaction] /\ finished' \subseteq Txs /\ twice' \subseteq Txs
        /\ u = asked[q.tx] /\ u \in Uids
    BY <1>1, <1>2, <1>3, <2>1, TakeFacts
  <2>3. Onward
    BY <1>2, <2>2, TakeOnward
  <2>4. \/ req' = [req EXCEPT ![r] = next] /\ q.key \in creds[u]
        \/ req' = [req EXCEPT ![r] = Idle]
    BY <1>3 DEF AssertPasskey, Subject, Holds, Answer
  <2>5. ASSUME req' = [req EXCEPT ![r] = next], q.key \in creds[u]
        PROVE  CallsInv' /\ req' \in [Reqs -> Call]
    <3>1. <<q.key, u>> \in enrolled'
      BY <1>2, <2>2, <2>5 DEF Inv, CredsInv
    <3>2. next \in Call
      BY <1>1, <2>2 DEF Call
    <3>3. Finds(next, txs', asked', enrolled', creds', wiped')
      BY <1>1, <1>2, <2>2, <3>1 DEF Finds, Call
    <3> HIDE DEF next
    <3>4. QED BY <2>3, <2>5, <3>2, <3>3, CallsStep
  <2>6. ASSUME req' = [req EXCEPT ![r] = Idle]
        PROVE  CallsInv' /\ req' \in [Reqs -> Call]
    BY <2>3, <2>6, IdleFinds, CallsStep
  <2>7. CallsInv' /\ req' \in [Reqs -> Call]
    BY <2>4, <2>5, <2>6
  <2>8. Rest'
    BY <1>2, <2>2 DEF Rest, Inv, TypeOK, users
  <2>9. QED BY <1>2, <2>2, <2>7, <2>8, CredsStill, TypePartsNext DEF Inv
<1>4. CASE ~Takes(r)
  BY <1>2, <1>4, AnswerStep DEF AssertPasskey, history
<1>5. QED BY <1>3, <1>4

LEMMA AddPasskeyStep ==
  ASSUME Inv, NEW r \in Reqs, AddPasskey(r)
  PROVE  Inv'
<1> DEFINE q == req[r]
           u == txs[q.tx].uid
<1>1. q \in Call /\ q.tx \in Txs /\ q.key \in Keys /\ q.ceremony = "update"
  BY ReqIs DEF AddPasskey, At, Finds
<1>2. req' = [req EXCEPT ![r] = Idle] /\ UNCHANGED <<users, resetPc, wiped, asked, calls, changes>>
  BY DEF AddPasskey, Answer
<1>3. CASE Takes(r)
  <2>1. Take(r)
    BY <1>3 DEF AddPasskey
  <2>2. /\ TxsInv' /\ \A t \in Txs : Started(t) => txs'[t].status # "unused"
        /\ txs' \in [Txs -> Transaction] /\ finished' \subseteq Txs /\ twice' \subseteq Txs
        /\ u \in Uids
    BY <1>1, <1>2, <1>3, <2>1, TakeFacts
  <2> HIDE DEF u
  <2>3. /\ CredsInv' /\ creds' \in [Uids -> SUBSET Keys] /\ enrolled' \subseteq Keys \X Uids
        /\ enrolled \subseteq enrolled' /\ \A v \in Uids : creds[v] \subseteq creds'[v]
    <3>1. CASE Register(u, q.key)
      BY <1>1, <1>2, <2>2, <3>1, RegisterFacts
    <3>2. CASE UNCHANGED <<creds, enrolled>>
      BY <1>2, <3>2, CredsStill DEF Inv, TypeOK
    <3>3. QED BY <1>3, <3>1, <3>2 DEF AddPasskey, u
  <2>4. Onward
    BY <1>2, <2>2, <2>3, TakeOnward
  <2>5. CallsInv' /\ req' \in [Reqs -> Call]
    BY <1>2, <2>4, IdleFinds, CallsStep
  <2>6. Rest'
    BY <1>2, <2>2, <2>3 DEF Rest, Inv, TypeOK, users
  <2>7. QED BY <2>2, <2>3, <2>5, <2>6, TypePartsNext DEF Inv
<1>4. CASE ~Takes(r)
  BY <1>2, <1>4, AnswerStep DEF AddPasskey, Answer, history
<1>5. QED BY <1>3, <1>4

-----------------------------------------------------------------------------
(* Passkeys and accounts *)

LEMMA RegisterNewStep ==
  ASSUME Inv, NEW r \in Reqs, RegisterNew(r)
  PROVE  Inv'
<1> DEFINE q == req[r]
           next == [q EXCEPT !.pc = "insert"]
<1>1. q \in Call /\ Finds(q, txs, asked, enrolled, creds, wiped) /\ q.pc = "register"
  BY ReqIs DEF RegisterNew, At
<1>2. q.key \in Keys /\ q.uid \in Uids
  BY <1>1 DEF Finds
<1>3. UNCHANGED <<users, txs, resetPc, finished, twice, wiped, asked, calls, changes>>
  BY DEF RegisterNew
<1>4. CASE Accepted(r)
  <2>1. Register(q.uid, q.key) /\ req' = [req EXCEPT ![r] = next]
    BY <1>4 DEF RegisterNew, Follows, Goto
  <2>2. /\ CredsInv' /\ creds' \in [Uids -> SUBSET Keys] /\ enrolled' \subseteq Keys \X Uids
        /\ enrolled \subseteq enrolled' /\ \A v \in Uids : creds[v] \subseteq creds'[v]
        /\ creds'[q.uid] # {} /\ <<q.key, q.uid>> \in enrolled'
    BY <1>2, <1>3, <2>1, RegisterFacts
  <2>3. Onward
    BY <1>3, <2>2, TakeOnward DEF Started
  <2>4. next \in Call
    BY <1>1 DEF Call
  <2>5. Finds(next, txs', asked', enrolled', creds', wiped')
    BY <1>1, <1>3, <2>2 DEF Finds, Call
  <2> HIDE DEF next
  <2>6. CallsInv' /\ req' \in [Reqs -> Call]
    BY <2>1, <2>3, <2>4, <2>5, CallsStep
  <2>7. Rest'
    BY <1>3, <2>2 DEF Rest, Inv, TypeOK, users
  <2>8. TxsInv'
    BY <1>3 DEF Inv, TxsInv, Sound, Open
  <2>9. QED BY <2>2, <2>6, <2>7, <2>8, TypePartsNext DEF Inv
<1>5. CASE ~Accepted(r)
  BY <1>3, <1>5, AnswerStep DEF RegisterNew, history
<1>6. QED BY <1>4, <1>5

LEMMA InsertStep ==
  ASSUME Inv, NEW r \in Reqs, Insert(r)
  PROVE  Inv'
<1> DEFINE q == req[r]
           l == q.login
           next == [q EXCEPT !.pc = "mint"]
<1>1. q \in Call /\ Finds(q, txs, asked, enrolled, creds, wiped) /\ q.pc = "insert"
  BY ReqIs DEF Insert, At
<1>2. UNCHANGED <<creds, txs, resetPc, history, calls, changes>>
  BY DEF Insert
<1>3. CASE Taken(l)
  BY <1>2, <1>3, AnswerStep DEF Insert
<1>4. CASE ~Taken(l)
  <2>1. /\ owner' = [owner EXCEPT ![l] = q.uid] /\ status' = [status EXCEPT ![q.uid] = "enabled"]
        /\ req' = [req EXCEPT ![r] = next]
    BY <1>4 DEF Insert, Follows, Goto
  <2>2. Onward
    BY <1>2 DEF Onward, Started, history
  <2>3. next \in Call
    BY <1>1 DEF Call
  <2>4. Finds(next, txs', asked', enrolled', creds', wiped')
    BY <1>1, <1>2 DEF Finds, Call, history
  <2> HIDE DEF next
  <2>5. CallsInv' /\ req' \in [Reqs -> Call]
    BY <2>1, <2>2, <2>3, <2>4, CallsStep
  <2>6. q.uid \in Uids /\ (creds[q.uid] # {} \/ q.uid \in wiped)
    BY <1>1 DEF Finds
  <2>7. owner' \in [Logins -> Uids \cup {None}]
        /\ status' \in [Uids -> {"unused", "enabled", "disabled", "gone"}]
    BY <2>1, <2>6 DEF Inv, TypeOK
  <2>8. Rest'
    BY <1>2, <2>7 DEF Rest, Inv, TypeOK, history
  <2>9. \A u \in Uids : Stored(u)' => Stored(u) \/ u = q.uid
    BY <2>1 DEF Stored, Inv, TypeOK
  <2>10. CredsInv'
    BY <1>2, <2>6, <2>9 DEF Inv, CredsInv, SignedUpHasPasskey, history
  <2>11. TxsInv'
    BY <1>2 DEF Inv, TxsInv, Sound, Open, history
  <2>12. QED BY <2>5, <2>8, <2>10, <2>11, TypePartsNext DEF Inv
<1>5. QED BY <1>3, <1>4

-----------------------------------------------------------------------------
(* Management, reset and time *)

\* A step of others that leaves ceremonies and passkeys alone and adds no user.
LEMMA UsersStep ==
  ASSUME Inv, UNCHANGED <<creds, txs, req, history, calls>>,
         owner' \in [Logins -> Uids \cup {None}],
         status' \in [Uids -> {"unused", "enabled", "disabled", "gone"}],
         \A u \in Uids : Stored(u)' => Stored(u),
         resetPc' \in {"idle", "webauthn"}, changes' \in Nat
  PROVE  Inv'
<1>1. Onward
  BY DEF Onward, Started, history
<1>2. CallsInv' /\ req' \in [Reqs -> Call]
  BY <1>1, CallsStill
<1>3. Rest'
  BY DEF Inv, TypeOK, Rest, history
<1>4. TxsInv' /\ CredsInv'
  BY DEF Inv, TxsInv, Sound, Open, CredsInv, SignedUpHasPasskey, history
<1>5. QED BY <1>2, <1>3, <1>4, TypePartsNext DEF Inv

LEMMA ManageStep ==
  ASSUME Inv, Manage
  PROVE  Inv'
<1>1. /\ owner \in [Logins -> Uids \cup {None}] /\ changes \in Nat
      /\ status \in [Uids -> {"unused", "enabled", "disabled", "gone"}]
      /\ resetPc \in {"idle", "webauthn"}
  BY DEF Inv, TypeOK
<1>2. CASE \E u \in Uids : SetStatus(u, "enabled") \/ SetStatus(u, "disabled")
  <2>1. PICK u \in Uids, s \in {"enabled", "disabled"} : SetStatus(u, s)
    BY <1>2
  <2>2. /\ status' = [status EXCEPT ![u] = s] /\ Stored(u) /\ changes' = changes + 1
        /\ UNCHANGED <<owner, creds, txs, req, resetPc, history, calls>>
    BY <2>1 DEF SetStatus, Change
  <2>3. status' \in [Uids -> {"unused", "enabled", "disabled", "gone"}]
        /\ \A v \in Uids : Stored(v)' => Stored(v)
    BY <1>1, <2>2 DEF Stored
  <2>4. QED BY <1>1, <2>2, <2>3, UsersStep
<1>3. CASE \E u \in Uids, ls \in SUBSET Logins : Delete(u, ls)
  <2>1. PICK u \in Uids, ls \in SUBSET Logins : Delete(u, ls)
    BY <1>3
  <2>2. /\ status' = [status EXCEPT ![u] = "gone"] /\ changes' = changes + 1
        /\ owner' = [l \in Logins |-> IF l \in ls THEN None ELSE owner[l]]
        /\ UNCHANGED <<creds, txs, req, resetPc, history, calls>>
    BY <2>1 DEF Delete, Change
  <2>3. status' \in [Uids -> {"unused", "enabled", "disabled", "gone"}]
        /\ \A v \in Uids : Stored(v)' => Stored(v)
    BY <1>1, <2>2 DEF Stored
  <2>4. QED BY <1>1, <2>2, <2>3, UsersStep
<1>4. CASE \E l, m \in Logins : Rename(l, m)
  <2>1. PICK l \in Logins, m \in Logins : Rename(l, m)
    BY <1>4
  <2>2. /\ owner' = [owner EXCEPT ![l] = None, ![m] = owner[l]] /\ changes' = changes + 1
        /\ UNCHANGED <<status, creds, txs, req, resetPc, history, calls>>
    BY <2>1 DEF Rename, Change
  <2>3. owner' \in [Logins -> Uids \cup {None}]
    BY <1>1, <2>2
  <2>4. \A v \in Uids : Stored(v)' => Stored(v)
    BY <2>2 DEF Stored
  <2>5. QED BY <1>1, <2>2, <2>3, <2>4, UsersStep
<1>5. CASE ResetUsers
  <2>1. /\ status' = [u \in Uids |-> IF Stored(u) THEN "gone" ELSE status[u]]
        /\ owner' = [l \in Logins |-> None] /\ changes' = changes + 1 /\ resetPc' = "webauthn"
        /\ UNCHANGED <<creds, txs, req, history, calls>>
    BY <1>5 DEF ResetUsers, Change
  <2>2. status' \in [Uids -> {"unused", "enabled", "disabled", "gone"}]
        /\ \A v \in Uids : Stored(v)' => Stored(v)
    BY <1>1, <2>1 DEF Stored
  <2>3. QED BY <1>1, <2>1, <2>2, UsersStep
<1>6. CASE ResetPasskeys
  <2> DEFINE old == [NoTransaction EXCEPT !.status = "gone"]
  <2>1. /\ creds' = [u \in Uids |-> {}] /\ wiped' = wiped \cup {u \in Uids : creds[u] # {}}
        /\ txs' = [t \in Txs |-> IF Open(t) THEN old ELSE txs[t]] /\ resetPc' = "idle"
        /\ UNCHANGED <<users, req, enrolled, finished, twice, asked, calls, changes>>
    BY <1>6 DEF ResetPasskeys
  <2>2. old \in Transaction /\ old.status = "gone"
    BY DEF Transaction, NoTransaction
  <2> HIDE DEF old
  <2>3. Onward
    BY <2>1, <2>2 DEF Onward, Started
  <2>4. CallsInv' /\ req' \in [Reqs -> Call]
    BY <2>1, <2>3, CallsStill
  <2>5. Rest'
    BY <2>1, <2>2 DEF Rest, Inv, TypeOK, users
  <2>6. ASSUME NEW t \in Txs PROVE Sound(t)'
    <3>1. Sound(t) /\ txs'[t] = IF Open(t) THEN old ELSE txs[t]
      BY <2>1 DEF Inv, TxsInv
    <3>2. txs'[t].status \notin {"open", "old"}
      BY <2>2, <3>1 DEF Open
    <3>3. t \in finished => txs'[t].status = "gone"
      BY <2>2, <3>1 DEF Sound, Open
    <3>4. QED BY <2>1, <3>2, <3>3 DEF Sound, Open
  <2>7. TxsInv'
    BY <2>1, <2>6 DEF Inv, TxsInv
  <2>8. CredsInv'
    BY <2>1 DEF Inv, CredsInv, SignedUpHasPasskey, Stored, users
  <2>9. QED BY <2>4, <2>5, <2>7, <2>8, TypePartsNext DEF Inv
<1>7. QED BY <1>2, <1>3, <1>4, <1>5, <1>6 DEF Manage

LEMMA TickStep ==
  ASSUME Inv, Tick
  PROVE  Inv'
<1>1. /\ txs' = [t \in Txs |-> IF txs[t].status = "open" THEN [txs[t] EXCEPT !.status = "old"]
                               ELSE txs[t]]
      /\ UNCHANGED <<users, creds, req, resetPc, history, calls, changes>>
  BY DEF Tick
<1>2. txs \in [Txs -> Transaction]
  BY DEF Inv, TypeOK
<1>3. \A t \in Txs : /\ txs'[t] \in Transaction
                     /\ txs'[t].login = txs[t].login /\ txs'[t].uid = txs[t].uid
                     /\ txs'[t].ceremony = txs[t].ceremony
                     /\ \/ txs[t].status = "open" /\ txs'[t].status = "old"
                        \/ txs'[t].status = txs[t].status
  BY <1>1, <1>2 DEF Transaction
<1>4. txs' \in [Txs -> Transaction]
  <2>1. txs' = [t \in Txs |-> txs'[t]]
    BY <1>1
  <2>2. QED BY <1>3, <2>1
<1>5. Onward
  BY <1>1, <1>3 DEF Onward, Started, history
<1>6. CallsInv' /\ req' \in [Reqs -> Call]
  BY <1>1, <1>5, CallsStill
<1>7. Rest'
  BY <1>1, <1>4 DEF Rest, Inv, TypeOK, users, history
<1>8. TxsInv'
  BY <1>1, <1>3 DEF Inv, TxsInv, Sound, Open, history
<1>9. CredsInv'
  BY <1>1, CredsStill DEF history
<1>10. QED BY <1>6, <1>7, <1>8, <1>9, TypePartsNext DEF Inv

-----------------------------------------------------------------------------

LEMMA InitInv ==
  ASSUME Init
  PROVE  Inv
<1>1. NoTransaction \in Transaction /\ NoTransaction.status = "unused"
  BY DEF NoTransaction, Transaction
<1>2. creds \in [Uids -> SUBSET Keys] /\ enrolled = {p \in Keys \X Uids : p[1] \in creds[p[2]]}
  BY DEF Init
<1>3. \A u \in Uids : \A k \in creds[u] : <<k, u>> \in enrolled
  BY <1>2
<1>4. SignedUpHasPasskey
  BY DEF Init, SignedUpHasPasskey, Stored
<1>5. TxsInv
  BY <1>1 DEF Init, TxsInv, Sound, Open
<1>6. CallsInv
  BY IdleFinds DEF Init, CallsInv
<1>7. TypeOK
  BY <1>1, <1>2, IdleFinds, PasskeysAssumption DEF Init, TypeOK
<1>8. QED BY <1>3, <1>4, <1>5, <1>6, <1>7 DEF Inv, CredsInv

LEMMA NextInv ==
  ASSUME Inv, [Next]_vars
  PROVE  Inv'
<1>1. CASE \E r \in Reqs : Arrive(r)
  BY <1>1, ArriveStep
<1>2. CASE \E r \in Reqs : Serve(r)
  <2>1. PICK r \in Reqs : Serve(r)
    BY <1>2
  <2>2. QED
    BY <2>1, LoadStep, HasPasskeyStep, BeginStep, TakeSignUpStep, RegisterNewStep, InsertStep,
       AssertPasskeyStep, AddPasskeyStep, MintStep, RecordLoginStep, Zenon DEF Serve
<1>3. CASE Manage
  BY <1>3, ManageStep
<1>4. CASE Tick
  BY <1>4, TickStep
<1>5. CASE UNCHANGED vars
  <2>1. UNCHANGED <<users, creds, txs, req, resetPc, history, calls, changes>>
    BY <1>5 DEF vars
  <2>2. \A u \in Uids : Stored(u)' => Stored(u)
    BY <2>1 DEF Stored, users
  <2>3. QED BY <2>1, <2>2, UsersStep DEF users, Inv, TypeOK
<1>6. QED BY <1>1, <1>2, <1>3, <1>4, <1>5 DEF Next

LEMMA InvHolds == Spec => []Inv
<1>1. Init => Inv
  BY InitInv
<1>2. Inv /\ [Next]_vars => Inv'
  BY NextInv
<1>3. QED BY <1>1, <1>2, PTL DEF Spec

\* Every variable keeps its shape.
THEOREM TypeCorrect == Spec => []TypeOK
<1>1. Inv => TypeOK
  BY DEF Inv
<1>2. Spec => []Inv
  BY InvHolds
<1>3. QED BY <1>1, <1>2, PTL

\* take_transaction hands a ceremony out once, however many finishes name it and
\* although a finish of the wrong kind puts it back.
THEOREM FinishedOnceHolds == Spec => []FinishedOnce
<1>1. Inv => FinishedOnce
  BY DEF Inv, TxsInv, FinishedOnce
<1>2. Spec => []Inv
  BY InvHolds
<1>3. QED BY <1>1, <1>2, PTL

\* signin_finish signs in whoever the login id led to at the start, with a passkey
\* of theirs; signup_finish whoever it enrolled.
THEOREM SignsInEnrolledUserHolds == Spec => []SignsInEnrolledUser
<1>1. Inv => SignsInEnrolledUser
  BY DEF Inv, CallsInv, Finds, SignsInEnrolledUser
<1>2. Spec => []Inv
  BY InvHolds
<1>3. QED BY <1>1, <1>2, PTL

\* signup_finish stores the passkey before it inserts the user, so that only a
\* reset in between leaves a user without one.
THEOREM SignedUpHasPasskeyHolds == Spec => []SignedUpHasPasskey
<1>1. Inv => SignedUpHasPasskey
  BY DEF Inv, CredsInv
<1>2. Spec => []Inv
  BY InvHolds
<1>3. QED BY <1>1, <1>2, PTL
=============================================================================
