\* Two users between resets; one of two phones may be registered as a login id.
SPECIFICATION UsersSpec
CONSTANTS
  name = name
  email = email
  Email = Email
  phone = phone
  phone2 = phone2
  Absent = Absent
  Uids = {u1, u2}
  Ids <- MCIds
  LoginIds = {name, email, phone}
  Emails = {email, Email}
  Phones = {phone, phone2}
  Lower <- MCLower
  NameOf <- MCNameOf
  PhoneLogins = {phone}
  MaxLogins = 2
SYMMETRY UidSymmetry
INVARIANTS UsersTypeOK LoginIndexExact LookupIsCurrent
PROPERTIES RestoreLosesOnlySharedPhones
