\* Two issuers and two redeemers over a store of two tokens, four issued.
SPECIFICATION TokensSpec
CONSTANTS
  Tokens = {t1, t2, t3, t4}
  Users = {alice}
  Tenant = Tenant
  NoToken = NoToken
  Issuers = {i1, i2}
  Redemptions = {r1, r2}
  Cap = 2
  MaxResets = 1
SYMMETRY StoreSymmetry
CHECK_DEADLOCK FALSE
INVARIANTS TokensTypeOK QueueMatchesMap LostOnlyUnderPressure SignsInEnabledOwner
PROPERTIES ImplementsOneTimeTokens
