SPECIFICATION FairSession
CONSTANTS
  Nodes = {n1, n2}
  Conns = {c1, c2}
  None = none
  ServerCap = 1
  FlowCap = 1
  MaxEvents = 2
  MaxRoots = 2
INVARIANTS
  SessionTypeOK
  SubscribedIsOpen
  StableRoot
PROPERTIES
  HandedOutOnce
  PushesEnd
  QueuePerNode
CHECK_DEADLOCK FALSE
