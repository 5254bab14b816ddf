\* A disabled user and a password reset (not among the runs that pass).
SPECIFICATION Spec
CONSTANTS
  Uids = {u1, u2}
  Logins = {alice, al}
  Passwords = {p1, p2}
  Execs = {x1}
  Reqs = {r1, r2}
  None = None
  MaxFailures = 1
  Window = 2
  MaxCalls = 3
  MaxChanges = 1
SYMMETRY PasswordSymmetry
CHECK_DEADLOCK FALSE
PROPERTY DisabledUsersAreBlocked
