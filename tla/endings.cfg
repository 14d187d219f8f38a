SPECIFICATION FairSpec
CONSTANTS
  Conn = {a, b}
  Ops = {"party","public","join","leave","kick","drop","promote","raise"}
  CapInputs = {3}
  RetailMax = 2
  MaxRooms = 2
  MaxMid = 2
  MaxBusy = 2
INVARIANT GoneMeansGone
PROPERTY LostIsFinished
PROPERTY ImplementsRoomService
CHECK_DEADLOCK FALSE
