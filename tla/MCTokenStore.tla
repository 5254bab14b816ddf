--------------------------- MODULE MCTokenStore ---------------------------
(* A small instance of TokenStore for TLC. *)
EXTENDS TokenStore, TLC

\* Token strings, requests and issuers are interchangeable.
StoreSymmetry ==
  Permutations(Tokens) \cup Permutations(Redemptions) \cup Permutations(Issuers)
===========================================================================
