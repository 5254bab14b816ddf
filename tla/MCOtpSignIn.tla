---------------------------- MODULE MCOtpSignIn ----------------------------
(* Small instances of OtpSignIn for TLC. *)
EXTENDS OtpSignIn, TLC

OtpSymmetry ==
  Permutations(Uids) \cup Permutations(Logins) \cup Permutations(Codes)
  \cup Permutations(Reqs)
============================================================================
