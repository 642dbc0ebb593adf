SPECIFICATION FairSpec
CONSTANTS
  events = events
  watchdog = watchdog
  repl = repl
  EventLoop = events
  Reactors <- TwoReactors
  ChainLength = 2
  ChannelCap = 0
  Faults <- AllFaults
  MaxSeeds = 0
  MaxReactions = 3
  MaxFaults = 1
INVARIANTS
  ShareNeverLost
  RouteNeverAhead
  AnchorAheadOfChain
PROPERTIES
  IdentityAdvances
  AnchorWalksChain
  OnlyRacesPanic
  MutationsEnd
CHECK_DEADLOCK FALSE
