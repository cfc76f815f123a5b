SPECIFICATION Spec
CONSTANTS
  full = full
  blank = blank
  w1 = w1
  w2 = w2
  None = None
  Docs <- TwoDocs
  Slots <- TwoSlots
  ChunkCount <- CountTwo
  MaxRetries = 1
  Budget <- LockFaults
SYMMETRY Symmetry
INVARIANTS
  DoneIsSearchable
  OnlyDoneIsSearchable
CHECK_DEADLOCK FALSE
