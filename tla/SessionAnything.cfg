CONSTANTS
  Room = {R1, R2}
  Client = {a, b}
  Conn = {k1, k2, k3}
  Steady = {}
  EarlyEdits = TRUE
  LosesMessages = TRUE
  SlowRender = TRUE
  SlowServer = TRUE
  LateDelivery = TRUE
  Restarts = TRUE
  MaxEdits = 1
  MaxSteadyEdits = 1
  MaxLives = 2
  MaxBreaks = 1
SPECIFICATION Spec
SYMMETRY MCSymmetry
CHECK_DEADLOCK FALSE
INVARIANTS
  TypeOK
  ReadersHaveSeenTheLog
  RoomsStayApart
