CONSTANTS
  Room = {R1}
  Client = {a, b}
  Conn = {k1, k2, k3, k4}
  Steady = {b}
  EarlyEdits = FALSE
  LosesMessages = FALSE
  SlowRender = FALSE
  SlowServer = FALSE
  LateDelivery = FALSE
  Restarts = FALSE
  MaxEdits = 2
  MaxSteadyEdits = 1
  MaxLives = 2
  MaxBreaks = 1
SPECIFICATION FairSpec
CHECK_DEADLOCK FALSE
INVARIANTS
  NothingIsLost
  SettledClientsAgree
  LiveIdsAreUnique
  EditsWaitForTheLog
PROPERTY
  EventualAgreement
