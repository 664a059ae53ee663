SPECIFICATION FairSpec
CONSTANTS
  buyer = buyer
  Events = {e1}
  Devices = {d1}
  Users = {buyer}
  RecipientOf <- MCRecipientOf
  Workers = {w1, w2}
  MaxAttempts = 4
  MaxFaults = 1
  NoEvent = NoEvent
  NoDevice = NoDevice
  NoUser = NoUser
INVARIANTS
  TypeOK
  DuplicatesNeedFaults
  AttemptsAreBounded
PROPERTY EveryEventEnds
PROPERTY KeepsQueue
CHECK_DEADLOCK FALSE
