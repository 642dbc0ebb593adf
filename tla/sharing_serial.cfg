SPECIFICATION Spec
CONSTANTS
  owner = owner
  p1 = p1
  p2 = p2
  p3 = p3
  repl = repl
  healer = healer
  forcer = forcer
  v1 = v1
  v2 = v2
  Owner = owner
  Peers <- ThreePeers
  Mesh <- ThreePeers
  Repl = repl
  Requests <- AnyRequest
  Healers <- NoJob
  Forcers <- NoJob
  Values <- TwoValues
  NoValue = NoValue
  Threshold = 2
  Total = 3
  Margin = 0
  Faults <- NodeFaults
  MaxGroups = 3
  MaxStores = 2
  MaxFaults = 2
INVARIANTS TypeOK Recoverable
PROPERTIES ImplementsRegister
SYMMETRY PeerSymmetry
CHECK_DEADLOCK FALSE
