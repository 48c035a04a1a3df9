CONSTANTS
  Room = {R1}
  Client = {a, b, c}
  Conn = {k1, k2, k3}
  MaxSignals = 2
SPECIFICATION Spec
SYMMETRY MCSymmetry
CHECK_DEADLOCK FALSE
INVARIANTS
  MeshFollowsRoom
  SignalsAreOfTheKnownSession
  NoSignalVanishes
