CONSTANTS
  EmptiedRoom = FALSE
  FastJoin = FALSE
  MaxTyped = 2
  MaxRemote = 2
  MaxLives = 2
SPECIFICATION FairSpec
CHECK_DEADLOCK FALSE
INVARIANTS
  DocumentFollowsCrdt
PROPERTIES
  OnlyEditsAreTaken
  TextIsShown
