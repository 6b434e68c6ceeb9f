SPECIFICATION Spec
CONSTANTS
  Events <- MCEvents
  MaxApplied = 6
  MaxRefused = 1
  MaxInt = 3
INVARIANTS
  NoTextDroppedSilently
CHECK_DEADLOCK FALSE
