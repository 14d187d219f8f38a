SPECIFICATION FairSpec
CONSTANTS
  Conn = {a, b}
  Slots = 1
  MaxBytes = 2
  Backups = 2
  MaxChars = 1
  MaxTalk = 2
  MaxConns = 4
  MaxCrash = 1
INVARIANT SlotsConserved
INVARIANT HistoryInOrder
INVARIANT RecentSurvives
INVARIANT DiskBound
PROPERTY EverybodyIsServed
CHECK_DEADLOCK FALSE
