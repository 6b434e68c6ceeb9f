SPECIFICATION TripSpec
CONSTANTS
  Events <- MCEvents
  MaxApplied = 9
  MaxResumed = 1
INVARIANTS
  AcceptsLittleElse
  RefusesOnlyForCause
  TerminalRepeatsStream
  LossesInOrderOfGaps
  ReadBack
CHECK_DEADLOCK FALSE
