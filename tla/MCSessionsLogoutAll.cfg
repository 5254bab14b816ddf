\* Sign in, log out everywhere, sign in again: is the new session accepted?
SPECIFICATION Spec
CONSTANTS
  Users = {alice}
  NoOne = NoOne
  NoToken = NoToken
  Reqs = {r1, r2, r3}
  Ops = {"signIn", "logoutAll"}
  TenantMembers = {alice}
  MaxTime = 1
  MaxResets = 0
  SessionTTL = 0
  RefreshTTL = 1
  Leeway = 0
SYMMETRY ReqSymmetry
CHECK_DEADLOCK FALSE
PROPERTY SignInAfterLogoutAllIsAccepted
