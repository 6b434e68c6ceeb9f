SPECIFICATION Spec
CONSTANTS
  Events <- MCEvents
  MaxFeeds = 8
  MaxUnits = 3
  NestedTypes <- MCNestedTypes
  MixesParts = FALSE
INVARIANTS
  TypeOK
  ItemsDoNotInterleave
  OutputIsItemwise
  LossesInOrderOfGaps
  TerminalAgreesWithStream
PROPERTIES
  HonoursContract
