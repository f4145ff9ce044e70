SPECIFICATION LiveSpec
CONSTANTS
  Jobs <- MCJobs
  Options <- AllOptions
INVARIANTS
  Installed
  
  RecoveryCovers
PROPERTIES
  Terminates
CHECK_DEADLOCK FALSE
