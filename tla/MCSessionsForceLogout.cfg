\* A forced logout against every handler that takes a JWT.
SPECIFICATION Spec
CONSTANTS
  Users = {alice}
  NoOne = NoOne
  NoToken = NoToken
  Reqs = {r1, r2, r3}
  Ops = {"signIn", "refresh", "tenantSelect", "validate", "forceLogout"}
  TenantMembers = {alice}
  MaxTime = 1
  MaxResets = 0
  SessionTTL = 0
  RefreshTTL = 1
  Leeway = 0
SYMMETRY ReqSymmetry
CHECK_DEADLOCK FALSE
INVARIANT ForceLogoutInvalidatesAllTokens
