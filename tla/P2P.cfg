CONSTANTS
  Client = {1, 2, 3}
  Steady = {3}
  Unreliable = {1}
  SlowServer = FALSE
  AbruptLeave = FALSE
  MaxEvents = 2
  MaxSessions = 4
SPECIFICATION FairSpec
CHECK_DEADLOCK FALSE
INVARIANTS
  ConnectedPeersAgree
  LiveIdsAreUnique
PROPERTY
  EverySessionSyncs
