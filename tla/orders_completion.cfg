SPECIFICATION FairSpec
CONSTANTS
  shirt = shirt
  cod = cod
  online = online
  s1 = s1
  s2 = s2
  Listings = {shirt}
  Orders = {cod, online}
  ListingOf <- MCListingOf
  MethodOf <- MCMethodOf
  Quantity <- OneUnit
  Sessions = {s1, s2}
  CourierReports <- DoorReports
  MaxSettlements = 0
PROPERTY DeliveredCompletes
CHECK_DEADLOCK FALSE
