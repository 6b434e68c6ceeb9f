SPECIFICATION Spec
CONSTANTS
  Events <- MCEvents
  MaxApplied = 9
  MaxResumed = 1
INVARIANTS
  AcceptsLittleElse
  RefusesOnlyForCause
  OutputIsBlockwise
  LossesInOrderOfGaps
CHECK_DEADLOCK FALSE
