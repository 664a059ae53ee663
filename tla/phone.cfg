SPECIFICATION FairSpec
CONSTANTS
  a1 = a1
  a2 = a2
  b1 = b1
  ann = ann
  bob = bob
  p1 = p1
  p2 = p2
  Users = {ann, bob}
  Phones = {p1, p2}
  Attempts = {a1, a2, b1}
  OwnerOf <- MCOwnerOf
  PhoneOf <- MCPhoneOf
  Requests = {r1, r2}
  MaxFaults = 1
  NoPhone = NoPhone
  NoAttempt = NoAttempt
  NoRequest = NoRequest
INVARIANTS
  TypeOK
  OnePending
  OneOwner
  LinkedWasProven
  LinkedIsKept
PROPERTIES
  KeepsContract
  ApprovedIsLinked
CHECK_DEADLOCK FALSE
