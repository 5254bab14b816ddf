\* A file with two active templates: OneActiveTemplate is violated.
SPECIFICATION Spec
CONSTANTS
  k1 = k1
  k2 = k2
  pem1 = pem1
  pem2 = pem2
  Keys = {k1, k2}
  Pems = {pem1, pem2}
  FirstPem = pem1
  Seed <- SmallSeed
  Elsewhere <- TwoTemplates
  Reqs = {r1, r2}
  None = None
  MaxCalls = 1
  MaxJobs = 1
CHECK_DEADLOCK FALSE
INVARIANTS OneActiveTemplate
