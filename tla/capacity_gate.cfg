SPECIFICATION Spec
CONSTANTS
  Conn = {a, b, c}
  Ops = {"private","join"}
  CapInputs = {2}
  RetailMax = 8
  MaxRooms = 1
  MaxMid = 3
  MaxBusy = 2
INVARIANT CapacityGate
SYMMETRY Symmetry
CHECK_DEADLOCK FALSE
