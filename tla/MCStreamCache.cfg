SPECIFICATION MCSpec
CONSTANTS
  Byte <- MCByte
  Zero = 0
  MaxBytesSize = 4
  Chunks <- MCChunks
  UsedCounts <- MCCounts
  MaxChunk = 2
  CapBound = 6
INVARIANTS
  SlicesInBounds
PROPERTIES
  GrowthJustified
  ImplementsByteStream
