--------------------------- MODULE OneTimeTokens ---------------------------
(***************************************************************************)
(* What the emulator promises of a one-time token (a magic link, a SAML    *)
(* code, an embedded link, a password-reset token): it is redeemed by at   *)
(* most one request, only after it was issued, and an unredeemed token is  *)
(* given up only when Cap tokens are outstanding and it is the oldest.     *)
(* TokenStore implements this with a map and a queue.                      *)
(***************************************************************************)
EXTENDS Integers, FiniteSets

CONSTANTS Tokens, Reqs, Cap

VARIABLES
  count,      \* how many tokens have been issued
  serial,     \* the number a token was issued under, 0 before that
  redeemers,  \* the requests that redeemed each token
  lost        \* tokens given up

vars == <<count, serial, redeemers, lost>>

Issued == {t \in Tokens : serial[t] > 0}
Live == {t \in Issued : redeemers[t] = {} /\ t \notin lost}
Oldest == {t \in Live : \A u \in Live : serial[t] <= serial[u]}

Init ==
  /\ count = 0
  /\ serial = [t \in Tokens |-> 0]
  /\ redeemers = [t \in Tokens |-> {}]
  /\ lost = {}

Issue(t) ==
  /\ serial[t] = 0
  /\ count' = count + 1
  /\ serial' = [serial EXCEPT ![t] = count + 1]
  /\ lost' = lost \cup (IF Cardinality(Live) >= Cap THEN Oldest ELSE {})
  /\ UNCHANGED redeemers

Redeem(t, r) ==
  /\ t \in Live
  /\ redeemers' = [redeemers EXCEPT ![t] = {r}]
  /\ UNCHANGED <<count, serial, lost>>

Next == \E t \in Tokens : Issue(t) \/ \E r \in Reqs : Redeem(t, r)

Spec == Init /\ [][Next]_vars
=============================================================================
