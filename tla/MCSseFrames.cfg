SPECIFICATION Spec
CONSTANTS
  Frames <- MCFrames
  Lines <- MCLines
  MaxWrites = 3
  Pieces = {1, 3}
INVARIANTS
  FramesIndependentOfCuts
  WrittenFramesArrive
PROPERTIES
  LoopEnds
CHECK_DEADLOCK FALSE
