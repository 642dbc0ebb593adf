SPECIFICATION Spec
CONSTANTS
  events = events
  watchdog = watchdog
  repl = repl
  EventLoop = events
  Reactors <- OneReactor
  ChainLength = 2
  ChannelCap = 1
  Faults <- NoFaults
  MaxSeeds = 1
  MaxReactions = 1
  MaxFaults = 0
INVARIANTS AtMostOneFragment
CHECK_DEADLOCK FALSE
