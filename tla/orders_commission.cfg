SPECIFICATION Spec
CONSTANTS
  shirt = shirt
  cod = cod
  online = online
  s1 = s1
  s2 = s2
  Listings = {shirt}
  Orders = {online}
  ListingOf <- MCListingOf
  MethodOf <- MCMethodOf
  Quantity <- TwoUnits
  Sessions = {s1}
  CourierReports <- NoReports
  MaxSettlements = 0
INVARIANT ReversedCommissionWasCharged
CHECK_DEADLOCK FALSE
