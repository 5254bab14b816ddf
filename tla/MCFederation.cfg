\* Two requests that serve three calls between them over two providers.
SPECIFICATION Spec
CONSTANTS
  ann = ann
  bob = bob
  corp = corp
  lab = lab
  oidc = oidc
  saml = saml
  Uids = {u1, u2}
  Logins = {ann, bob}
  Tenants = {corp, lab}
  SsoTenants = {corp}
  Domains <- TwoTenants
  TenantOf <- TwoProviders
  OidcIdps = {oidc}
  SamlIdps = {saml}
  Codes = {k1, k2}
  Reqs = {r1, r2}
  None = None
  MaxCalls = 3
  MaxChanges = 1
SYMMETRY FederationSymmetry
CHECK_DEADLOCK FALSE
INVARIANTS TypeOK SignsInAddressOwner ProvisionsOnlyWhileOn
