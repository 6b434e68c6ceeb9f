SPECIFICATION Spec
CONSTANTS
  Events <- MCEvents
  MaxFeeds = 8
  CitesTools = FALSE
INVARIANTS
  TypeOK
  OutputIsBlockwise
  LossesInOrderOfGaps
PROPERTIES
  HonoursContract
