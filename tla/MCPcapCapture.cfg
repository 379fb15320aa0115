SPECIFICATION LiveSpec
CONSTANTS
  Byte <- MCByte
  Zero = 0
  MaxBytesSize = 2
  Session = {s1, s2}
  NoSession = NoSession
  Kinds <- AllKinds
  Payloads = {0, 1, 2}
  Answers <- AnyCounts
  MaxBytes = 3
INVARIANTS
  SessionsIntact
PROPERTIES
  CancelReturns
CHECK_DEADLOCK FALSE
