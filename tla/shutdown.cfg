SPECIFICATION FairSpec
CONSTANTS
  Servers = 2
  Manager = 2
  Client = {a, b, c}
  Patience = 2
  MaxSignals = 2
  MaxFaults = 1
INVARIANT NobodyLeft
INVARIANT DrainTells
PROPERTY DrainHasTime
PROPERTY AllDown
CHECK_DEADLOCK FALSE
