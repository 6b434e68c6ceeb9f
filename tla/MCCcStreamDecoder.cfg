SPECIFICATION Spec
CONSTANTS
  Chunks <- MCChunks
  MaxFeeds = 5
INVARIANTS
  FragmentsPassInOrder
  CallsReplayedAtFlush
  OneLossPerUnsupportedCall
  NothingAfterTheEnd
PROPERTIES
  HonoursContract
