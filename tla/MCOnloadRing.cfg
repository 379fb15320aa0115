SPECIFICATION Spec
CONSTANTS
  Buf = {b1, b2, b3, b4, b5, b6, b7}
  Batch = 2
INVARIANTS
  Conserved
  FillAdvances
  StarvedOnlyByApp
