---------------------------- MODULE MCFederation ----------------------------
(* Small instances of Federation for TLC. *)
EXTENDS Federation, TLC

CONSTANTS ann, bob, corp, lab, oidc, saml

\* corp vouches for ann only, lab has no domains; nobody owns bob's domain.
TwoTenants == (corp :> {ann}) @@ (lab :> {})

\* The SAML provider asserts into corp, the OIDC provider into lab.
TwoProviders == (oidc :> lab) @@ (saml :> corp)

FederationSymmetry ==
  Permutations(Uids) \cup Permutations(Codes) \cup Permutations(Reqs)
=============================================================================
