SPECIFICATION Spec
CONSTANTS
  Conn = {a, b, c}
  Ops = {"party","join","kick","promote"}
  CapInputs = {3}
  RetailMax = 2
  MaxRooms = 2
  MaxMid = 3
  MaxBusy = 2
INVARIANT TypeOK
INVARIANT UniqueMemberIds
INVARIANT KickAuthority
SYMMETRY Symmetry
CHECK_DEADLOCK FALSE
