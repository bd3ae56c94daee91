SPECIFICATION HubSpec
CONSTANTS
  n1 = n1
  n2 = n2
  c1 = c1
  e1 = e1
  e2 = e2
  Nodes = {n1, n2}
  Clients = {c1}
  NodeOf <- MCNodeOf
  Events = {e1, e2}
  KindOf <- MCKindOf
  QueueSize = 1
  SendSize = 1
  Attempts <- MCAttempts
  NoEvent = NoEvent
INVARIANTS
  HubTypeOK
  CopiesBounded
PROPERTY EventuallyTold
CHECK_DEADLOCK FALSE
