\* A phone registered as a login id is not indexed.
SPECIFICATION UsersSpec
CONSTANTS
  name = name
  email = email
  Email = Email
  phone = phone
  phone2 = phone2
  Absent = Absent
  Uids = {u1, u2}
  Ids <- MCIds
  LoginIds = {name, email, phone}
  Emails = {email, Email}
  Phones = {phone, phone2}
  Lower <- MCLower
  NameOf <- MCNameOf
  PhoneLogins = {phone}
  MaxLogins = 2
INVARIANTS LoadFindsEveryLoginId
