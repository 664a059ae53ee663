SPECIFICATION Spec
CONSTANTS
  shirt = shirt
  cod = cod
  online = online
  s1 = s1
  s2 = s2
  Listings = {shirt}
  Orders = {online}
  ListingOf <- MCListingOf
  MethodOf <- MCMethodOf
  Quantity <- TwoUnits
  Sessions = {s1}
  CourierReports <- DoorReports
  MaxSettlements = 0
INVARIANT RefundedSellerIsNotOwed
CHECK_DEADLOCK FALSE
