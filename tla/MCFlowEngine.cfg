\* Two requests that serve three calls between them, on two runs.
SPECIFICATION Spec
CONSTANTS
  Flow <- SignInFlow
  StartTask = "start"
  Uids = {u1, u2}
  Logins = {alice}
  Lower <- LowerCase
  Secrets = {s1, s2}
  Runs = {x1, x2}
  Reqs = {r1, r2}
  None = None
  Swept = Swept
  MaxSteps = 4
  MaxCalls = 3
  MaxChanges = 1
SYMMETRY FlowSymmetry
CHECK_DEADLOCK FALSE
INVARIANTS TypeOK SignsInProvedUser OneSessionPerRun
