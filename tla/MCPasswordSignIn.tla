-------------------------- MODULE MCPasswordSignIn --------------------------
(* Small instances of PasswordSignIn for TLC. *)
EXTENDS PasswordSignIn, TLC

PasswordSymmetry ==
  Permutations(Uids) \cup Permutations(Logins) \cup Permutations(Passwords)
  \cup Permutations(Reqs)
=============================================================================
