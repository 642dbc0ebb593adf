SPECIFICATION Spec
CONSTANTS
  events = events
  watchdog = watchdog
  repl = repl
  EventLoop = events
  Reactors <- TwoReactors
  ChainLength = 2
  ChannelCap = 2
  Faults <- NodeFaults
  MaxSeeds = 2
  MaxReactions = 2
  MaxFaults = 1
INVARIANTS
  TypeOK
  ShareNeverLost
  RouteNeverAhead
  RoutesMatchRows
PROPERTIES
  IdentityAdvances
CHECK_DEADLOCK FALSE
