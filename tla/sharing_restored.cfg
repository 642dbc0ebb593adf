SPECIFICATION FairSpec
CONSTANTS
  owner = owner
  p1 = p1
  p2 = p2
  p3 = p3
  repl = repl
  healer = healer
  forcer = forcer
  v1 = v1
  v2 = v2
  Owner = owner
  Peers <- ThreePeers
  Mesh <- NoPeers
  Repl = repl
  Requests <- StoreOnly
  Healers <- OneHealer
  Forcers <- NoJob
  Values <- OneValue
  NoValue = NoValue
  Threshold = 2
  Total = 3
  Margin = 0
  Faults <- LossFaults
  MaxGroups = 5
  MaxStores = 1
  MaxFaults = 3
PROPERTIES DegradedIsHealed
CHECK_DEADLOCK FALSE
