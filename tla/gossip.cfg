SPECIFICATION FairSpec
CONSTANTS
  Holders = {h1, h2, h3}
  Owner = h1
  Mutators = {h1, h2}
  Faults = {"lost", "timeout", "crash"}
  MaxMutations = 2
  MaxFaults = 1
INVARIANTS
  TypeOK
  NeverAhead
  InSync
PROPERTIES
  MutationsEnd
CHECK_DEADLOCK FALSE
