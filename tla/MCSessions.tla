---------------------------- MODULE MCSessions ----------------------------
(* Small instances of Sessions for TLC. *)
EXTENDS Sessions, TLC

\* Requests are interchangeable until one starts; users are not when only
\* some belong to the tenant.
ReqSymmetry == Permutations(Reqs)
===========================================================================
