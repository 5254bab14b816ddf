\* Three concurrent requests, every handler, one user acted on and impersonated.
SPECIFICATION Spec
CONSTANTS
  Users = {alice}
  NoOne = NoOne
  NoToken = NoToken
  Reqs = {r1, r2, r3}
  Ops = {"signIn", "refresh", "tenantSelect", "me", "validate", "logout", "logoutAll", "forceLogout", "impersonate", "stopImpersonation", "updateJwt"}
  TenantMembers = {alice}
  MaxTime = 1
  MaxResets = 1
  SessionTTL = 0
  RefreshTTL = 1
  Leeway = 0
SYMMETRY ReqSymmetry
CHECK_DEADLOCK FALSE
INVARIANTS TypeOK LogoutIsFinal ForceLogoutIsFinal MintsOnlyForLiveUsers ImpersonationSurvivesRefresh
PROPERTIES BoundaryNeverMovesBack
