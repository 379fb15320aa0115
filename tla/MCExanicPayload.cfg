SPECIFICATION Spec
CONSTANTS
  Frame = {f1, f2, f3}
  Slice = {s1, s2, s3}
  NoFrame = NoFrame
  NoSlice = NoSlice
  ChanCap = 1
  MaxId = 2
  Kinds <- SegmentKind
  Outcomes <- NoErrors
INVARIANTS
  HandlerSeesPacket
CHECK_DEADLOCK FALSE
