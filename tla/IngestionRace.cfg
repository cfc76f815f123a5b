SPECIFICATION Spec
CONSTANTS
  full = full
  blank = blank
  w1 = w1
  w2 = w2
  None = None
  Docs <- OneDoc
  Slots <- TwoSlots
  ChunkCount <- CountOne
  MaxRetries = 1
  Budget <- RaceFaults
SYMMETRY Symmetry
INVARIANTS
  WholeCopyOrNone
  CountMatchesChunks
  AcceptedIsOwed
PROPERTIES
  ReadersKeepFile
CHECK_DEADLOCK FALSE
