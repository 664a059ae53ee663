SPECIFICATION Spec
CONSTANTS
  shirt = shirt
  cod = cod
  online = online
  s1 = s1
  s2 = s2
  Listings = {shirt}
  Orders = {cod}
  ListingOf <- MCListingOf
  MethodOf <- AllCash
  Quantity <- TwoUnits
  Sessions = {s1}
  CourierReports <- NoReports
  MaxSettlements = 0
PROPERTY ModeratedStaysDown
CHECK_DEADLOCK FALSE
