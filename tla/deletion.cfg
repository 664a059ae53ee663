SPECIFICATION FairSpec
CONSTANTS
  ann = ann
  Users = {ann}
  Images = {i1, i2}
  OwnerOf <- MCOwnerOf
  Workers = {w1, w2}
  MaxAttempts = 2
  MaxFaults = 1
  NoUser = NoUser
INVARIANTS
  TypeOK
  StepsAreInOrder
  OnlyLooseMediaStay
  AttemptsAreUsed
PROPERTY EveryRequestEnds
PROPERTY KeepsQueue
CHECK_DEADLOCK FALSE
