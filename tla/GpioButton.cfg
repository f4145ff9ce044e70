SPECIFICATION LiveSpec
CONSTANTS
  MaxButtons = 2
  Setups <- Boards
INVARIANTS
  UeventsFaithful
  QuietAfterRemove
PROPERTIES
  ReportsArePresses
  SeenIsHoldTime
  ButtonIsHeard
CHECK_DEADLOCK FALSE
