SPECIFICATION Spec
CONSTANTS
  shirt = shirt
  cod = cod
  online = online
  s1 = s1
  s2 = s2
  Listings = {shirt}
  Orders = {cod, online}
  ListingOf <- MCListingOf
  MethodOf <- MCMethodOf
  Quantity <- TwoUnits
  Sessions = {s1, s2}
  CourierReports <- DoorReports
  MaxSettlements = 0
SYMMETRY SessionSymmetry
INVARIANTS
  TypeOK
  LockedReadsHold
  MovementsMatchStatus
  RefundNeedsCollectedMoney
PROPERTIES
  TerminalIsFinal
  KeepsContract
CHECK_DEADLOCK FALSE
