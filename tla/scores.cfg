SPECIFICATION FairSpec
CONSTANTS
  Player = {"p", "q"}
  Named = 2
  Extra = 1
  OldTables <- MCOldTables
  Conn = {f, g}
  Score = {2}
  Wire <- MCWire
  Window <- MCWindow
  MaxCmd = 3
  MaxCrash = 1
INVARIANT Durable
INVARIANT RankInBoard
INVARIANT PageCoversTotal
INVARIANT SentAsStored
PROPERTY Answered
