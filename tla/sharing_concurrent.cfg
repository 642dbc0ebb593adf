SPECIFICATION Spec
CONSTANTS
  owner = owner
  p1 = p1
  p2 = p2
  p3 = p3
  repl = repl
  healer = healer
  forcer = forcer
  v1 = v1
  v2 = v2
  Owner = owner
  Peers <- TwoPeers
  Mesh <- NoPeers
  Repl = repl
  Requests <- AnyRequest
  Healers <- NoJob
  Forcers <- OneForcer
  Values <- TwoValues
  NoValue = NoValue
  Threshold = 2
  Total = 3
  Margin = 0
  Faults <- LateFaults
  MaxGroups = 3
  MaxStores = 2
  MaxFaults = 1
INVARIANTS Recoverable OnlyPublishedValues
PROPERTIES RegisterUnlessOvertaken
SYMMETRY TwoPeerSymmetry
CHECK_DEADLOCK FALSE
