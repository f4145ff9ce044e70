SPECIFICATION Spec
CONSTANTS
  p1 = p1
  p2 = p2
  Procs = {p1}
  Names <- MCNames
  Values <- MCValues
  NoValue = NoValue
  NBuckets = 2
  Bucket <- MCBucket
  NameLen <- MCNameLen
  ValLen <- MCValLen
  Space = 52
  Sdram <- MCSdram
  Num <- MCNum
  Hex <- MCHex
  Default <- MCDefault
  Commands <- SerialCommands
  Images <- MCImages
  Faults = {"reboot", "full"}
  MaxRuns = 3
  MaxFaults = 2
INVARIANTS
  ImagesSound
  WritableUnlessFull
PROPERTIES
  RefinesStore
CHECK_DEADLOCK FALSE
