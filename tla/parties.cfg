SPECIFICATION Spec
CONSTANTS
  Conn = {a, b, c}
  Ops = {"party","join","leave","kick","promote","data"}
  CapInputs = {3}
  RetailMax = 2
  MaxRooms = 3
  MaxMid = 3
  MaxBusy = 1
INVARIANT ClientAgreement
INVARIANT BlobsOfMembers
PROPERTY ClosedIsTold
SYMMETRY Symmetry
CHECK_DEADLOCK FALSE
