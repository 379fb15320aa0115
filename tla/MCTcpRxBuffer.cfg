SPECIFICATION LiveSpec
CONSTANTS
  BufSize = 6
  SeqMod = 30
  First = 28
  Total = 6
  MaxSegs = 2
  MaxLen = 2
INVARIANTS
  TypeOK
  DataIntact
  AssertsHold
  LockReturned
PROPERTIES
  RecvAdvances
  AllRead
CONSTRAINT NotSpoiled
CHECK_DEADLOCK FALSE
