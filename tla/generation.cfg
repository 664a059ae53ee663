SPECIFICATION Spec
CONSTANTS
  ann = ann
  bob = bob
  c1 = c1
  c2 = c2
  c3 = c3
  r1 = r1
  r2 = r2
  r3 = r3
  r4 = r4
  i1 = i1
  i2 = i2
  Ids = {i1, i2}
  Users = {ann, bob}
  Conversations = {c1, c2, c3}
  Requests = {r1, r2, r3, r4}
  UserOf <- MCUserOf
  IdOf <- MCIdOf
  ConversationOf <- MCConversationOf
  Handlers = {h1, h2}
  h1 = h1
  h2 = h2
  MaxConcurrent = 1
  MaxFaults = 1
  NoRequest = NoRequest
INVARIANTS
  TypeOK
  SpentOnce
  AnswersMatchStatus
  CeilingHolds
  SlotsHaveHandlers
PROPERTIES
  KeepsContract
SYMMETRY HandlerSymmetry
CHECK_DEADLOCK FALSE
