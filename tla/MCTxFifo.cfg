SPECIFICATION LiveSpec
CONSTANTS
  BufSize = 6
  QueueLen = 4
  Interval = 1
  SeqMod = 8
  MaxStale = 2
  Sizes = {1, 2, 5}
INVARIANTS
  NoOverwrite
  SentIsSent
PROPERTIES
  PrepareReturns
