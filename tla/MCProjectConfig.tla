--------------------------- MODULE MCProjectConfig ---------------------------
(* Small instances of ProjectConfig for TLC. *)
EXTENDS ProjectConfig

CONSTANTS k1, k2, pem1, pem2

Named(k) == [name |-> k, flag |-> TRUE]

\* The seed file has one entry in most lists.
SmallSeed ==
  [lists |-> [s \in Stores |-> IF s \in {"users", "tenants", "permissions", "roles",
                                         "templates", "connectors"}
                               THEN {Named(k1)} ELSE {}],
   methods |-> FALSE, pem |-> None]

\* Another user and another template, access key, attribute and provider, and
\* another signing key; what the seed file has besides is not listed.
OtherFile ==
  [lists |-> [s \in Stores |-> IF s \in {"users", "templates", "attributes",
                                         "accessKeys", "idps"}
                               THEN {Named(k2)} ELSE {}],
   methods |-> FALSE, pem |-> pem2]

\* A file that lists two active templates.
TwoTemplates == [OtherFile EXCEPT !.lists["templates"] = {Named(k1), Named(k2)}]
=============================================================================
