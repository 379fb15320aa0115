SPECIFICATION LiveSpec
CONSTANTS
  Frame = {f1, f2, f3}
  Slice = {s1, s2, s3}
  NoFrame = NoFrame
  NoSlice = NoSlice
  ChanCap = 1
  MaxId = 3
  Kinds <- AllKinds
  Outcomes <- AllOutcomes
INVARIANTS
  FramesAccounted
  ReleasedAfterUse
  
PROPERTIES
  CancelReturns
CHECK_DEADLOCK FALSE
