SPECIFICATION TripSpec
CONSTANTS
  Events <- MCEvents
  MaxApplied = 7
  MaxResumed = 0
INVARIANTS
  NamespacedCallsReadBack
CHECK_DEADLOCK FALSE
