SPECIFICATION Spec
CONSTANTS
  events = events
  watchdog = watchdog
  repl = repl
  EventLoop = events
  Reactors <- OneReactor
  ChainLength = 3
  ChannelCap = 1
  Faults <- NetOnly
  MaxSeeds = 0
  MaxReactions = 2
  MaxFaults = 0
INVARIANTS GenuineLinksVerify
CHECK_DEADLOCK FALSE
