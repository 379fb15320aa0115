SPECIFICATION LiveSpec
CONSTANTS
  Byte <- MCByte
  Zero = 0
  MaxBytesSize = 3
  BuffSize = 2
  Counts <- MCCounts
  MaxSent = 5
INVARIANTS
  StreamIntact
  PeerEOFDeliversAll
  OneLateCall
PROPERTIES
  EndedConnectionReturns
  CancelReturns
CHECK_DEADLOCK FALSE
