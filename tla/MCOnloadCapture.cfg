SPECIFICATION LiveSpec
CONSTANTS
  Buf = {b1, b2}
  Batch = 1
  NoBuf = NoBuf
  Modes <- AllModes
  Outcomes <- AllOutcomes
  PollBatch = 2
  LookAhead = 2
  LoopBatch = 2
  ChanCap = 1
INVARIANTS
  
  NilMeansStopped
  ReleasedAfterUse
PROPERTIES
  InOrder
  CancelReturns
  EventsPolled
  
CHECK_DEADLOCK FALSE
