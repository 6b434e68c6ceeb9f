SPECIFICATION TripSpec
CONSTANTS
  Requests <- NestedRequests
  Irs <- MCIrs
INVARIANTS
  ToolsReadBack
CHECK_DEADLOCK FALSE
