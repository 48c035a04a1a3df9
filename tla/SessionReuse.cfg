CONSTANTS
  Room = {R1}
  Client = {a, b}
  Conn = {k1, k2, k3, k4}
  Steady = {b}
  EarlyEdits = TRUE
  LosesMessages = FALSE
  SlowRender = FALSE
  SlowServer = FALSE
  LateDelivery = FALSE
  Restarts = FALSE
  MaxEdits = 4
  MaxSteadyEdits = 0
  MaxLives = 2
  MaxBreaks = 1
SPECIFICATION Spec
CHECK_DEADLOCK FALSE
INVARIANT
  LiveIdsAreUnique
