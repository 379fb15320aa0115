SPECIFICATION ListSpec
CONSTANTS
  PktBuf = {b1, b2, b3, b4}
  Null = Null
  BatchSize = 2
  OneThread = TRUE
INVARIANTS
  ListIsPool
  PostedOnce
