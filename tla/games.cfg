SPECIFICATION Spec
CONSTANTS
  Conn = {a, b, c}
  Ops = {"public","private","join","leave","latekick","drop"}
  CapInputs = {0, 3}
  RetailMax = 2
  MaxRooms = 2
  MaxMid = 3
  MaxBusy = 1
INVARIANT CapacityGate
INVARIANT ServerAgreement
INVARIANT KeepaliveTarget
SYMMETRY Symmetry
CHECK_DEADLOCK FALSE
