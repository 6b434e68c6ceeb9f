SPECIFICATION Spec
CONSTANTS
  Events <- MCEvents
  MaxApplied = 9
  MaxRefused = 2
  MaxInt = 3
INVARIANTS
  AcceptsOnlyTheGrammar
  RefusesOnlyForCause
  ContentPassesInOrder
  CallsRebuiltByClient
  LossesAccountForGaps
CHECK_DEADLOCK FALSE
