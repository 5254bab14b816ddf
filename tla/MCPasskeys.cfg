\* Two requests that serve four calls between them: two ceremonies from start
\* to finish, or one with a second finish and a start in its way.
SPECIFICATION Spec
CONSTANTS
  Uids = {u1, u2}
  Logins = {alice, al}
  Keys = {k1, k2}
  Txs = {t1, t2}
  Reqs = {r1, r2}
  None = None
  MaxCalls = 4
  MaxChanges = 1
SYMMETRY PasskeySymmetry
CHECK_DEADLOCK FALSE
INVARIANTS TypeOK FinishedOnce SignsInEnrolledUser SignedUpHasPasskey
