SPECIFICATION Spec
CONSTANTS
  Events <- MCEvents
  MaxEvents = 8
INVARIANTS
  TypeOK
  AcceptsExactlyTheGrammar
  ReadsOnlyLegalPrefixes
CHECK_DEADLOCK FALSE
