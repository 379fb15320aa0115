SPECIFICATION LiveSpec
CONSTANTS
  N = 3
  G = 4
  MaxFrame = 2
  BufSizes = {1, 2}
  MaxChunks = 7
  Readers = {"frame", "chunk", "poll"}
INVARIANTS
  FramesIntact
  LossReported
PROPERTIES
  AbortWithinFrame
  CallReturns
  CatchesUp
CHECK_DEADLOCK FALSE
