SPECIFICATION ListSpec
CONSTANTS
  PktBuf = {b1, b2, b3}
  Null = Null
  BatchSize = 1
  OneThread = FALSE
INVARIANTS
  PostedOnce
CHECK_DEADLOCK FALSE
