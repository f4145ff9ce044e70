SPECIFICATION Spec
CONSTANTS
  p1 = p1
  p2 = p2
  Procs = {p1, p2}
  Names <- RaceNames
  Values <- MCValues
  NoValue = NoValue
  NBuckets = 2
  Bucket <- RaceBucket
  NameLen <- RaceNameLen
  ValLen <- MCValLen
  Space = 64
  Sdram <- RaceSdram
  Num <- MCNum
  Hex <- MCHex
  Default <- RaceDefault
  Commands <- RaceCommands
  Images <- RaceImages
  Faults = {"kill"}
  MaxRuns = 3
  MaxFaults = 1
INVARIANTS
  DamageNeedsMishap
PROPERTIES
  SoloCommandSticks
CHECK_DEADLOCK FALSE
SYMMETRY Symmetry
