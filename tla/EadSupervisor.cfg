SPECIFICATION FairSpec
CONSTANTS
  Instances <- MCInstances
  Bridges <- MCBridges
  NoBridge = 0
  MaxMoves = 2
  MaxCrashes = 1
  MaxFails = 1
INVARIANTS
  TypeOK
  ServersKnown
  NothingLeftBehind
PROPERTIES
  FollowsBridge
CHECK_DEADLOCK FALSE
