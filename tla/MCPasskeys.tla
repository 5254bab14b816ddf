----------------------------- MODULE MCPasskeys -----------------------------
(* Small instances of Passkeys for TLC. *)
EXTENDS Passkeys, TLC

PasskeySymmetry ==
  Permutations(Uids) \cup Permutations(Logins) \cup Permutations(Keys)
  \cup Permutations(Txs) \cup Permutations(Reqs)
=============================================================================
