SPECIFICATION Spec
CONSTANTS
  shirt = shirt
  cod = cod
  online = online
  s1 = s1
  s2 = s2
  Listings = {shirt}
  Orders = {cod, online}
  ListingOf <- MCListingOf
  MethodOf <- MCMethodOf
  Quantity <- OneUnit
  Sessions = {s1}
  CourierReports <- AllReports
  MaxSettlements = 1
INVARIANTS
  RowAgreesWithMovements
  RefundStagesAgree
  OversoldOnlyAfterTwoReturns
ACTION_CONSTRAINT Alone
CHECK_DEADLOCK FALSE
