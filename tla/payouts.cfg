SPECIFICATION Spec
CONSTANTS
  seller = seller
  Orders = {o1}
  Sellers = {seller}
  Profiles = {p1, p2}
  Batches = {b1, b2}
  Sessions = {s1, s2}
  SellerOf <- MCSellerOf
  OwnerOf <- MCOwnerOf
  NoProfile = NoProfile
  NoBatch = NoBatch
  NoAdmin = NoAdmin
  Creators = {ann, bea}
  Approvers = {ann, bea, cy}
  Undelivered = {o1}
  DisputeActions <- ResolveAndReopen
  Price <- MCPrice
  WithholdingBps = 0
  MaxSettlements = 2
SYMMETRY PayoutSymmetry
INVARIANTS
  TypeOK
  PaidOnce
  TwoPeople
  ItemsWereEligible
PROPERTIES
  KeepsContract
CHECK_DEADLOCK FALSE
