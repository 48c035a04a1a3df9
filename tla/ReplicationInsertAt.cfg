CONSTANTS
  FullReplay = TRUE
  Replica <- MCReplica2
  MaxOps = 4
  MaxChars = 2
  MaxRestarts = 0
SPECIFICATION Spec
PROPERTIES
  InsertAtPosition
