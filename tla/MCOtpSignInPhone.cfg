\* A new phone, and a code sent for something else.
SPECIFICATION Spec
CONSTANTS
  Uids = {u1, u2}
  Logins = {alice, al}
  Codes = {c1, c2}
  None = None
  Reqs = {r1, r2, r3}
  MaxChanges = 1
SYMMETRY OtpSymmetry
CHECK_DEADLOCK FALSE
PROPERTY PhoneConfirmedByItsCode
