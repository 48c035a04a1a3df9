CONSTANTS
  TooLarge = {2}
  MaxMessages = 8
  MaxWire = 2
  Total <- MCTotal
  SlowTransfer = TRUE
SPECIFICATION FairSpec
CHECK_DEADLOCK FALSE
INVARIANTS
  QueueNeverStalls
  SnapshotsAreWhole
PROPERTIES
  ImplementsFifo
  SnapshotsArrive
