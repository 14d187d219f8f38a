SPECIFICATION FairSpec
CONSTANTS
  Conn = {a}
  Caller = {p, q}
  MaxGen = 3
INVARIANT RegisteredRuns
INVARIANT StaleAtMostOnce
PROPERTY EndsItsOwn
PROPERTY SupersededEnds
PROPERTY ClosedIsQuiet
