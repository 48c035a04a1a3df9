CONSTANTS
  Server = {s1, s2}
  NoServer = NoServer
  Overlap = FALSE
SPECIFICATION FairSpec
CHECK_DEADLOCK FALSE
INVARIANTS
  TypeOK
  NoServerIsForgotten
  KeptServerIsUntouched
  StopMeansIt
PROPERTIES
  StartsAndStopsEnd
