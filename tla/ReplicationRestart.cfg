CONSTANTS
  FullReplay = TRUE
  Replica <- MCReplica2
  MaxOps = 4
  MaxChars = 2
  MaxRestarts = 1
SPECIFICATION FairSpec
INVARIANTS
  Consistent
  IndexIsExact
PROPERTIES
  ImplementsOpSet
  EditsStayInPlace
  EventualConvergence
