SPECIFICATION TripSpec
CONSTANTS
  Requests <- MCRequests
  Irs <- MCIrs
INVARIANTS
  ContentCarriedInOrder
  PatchesAnswered
  ToolsChangeInPlace
  NothingLostUnsaid
  WrittenRequestIsStable
CHECK_DEADLOCK FALSE
