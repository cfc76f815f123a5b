SPECIFICATION FairSpec
CONSTANTS
  full = full
  blank = blank
  w1 = w1
  w2 = w2
  None = None
  Docs <- OneDoc
  Slots <- TwoSlots
  ChunkCount <- CountOne
  MaxRetries = 2
  Budget <- DeliveryFaults
INVARIANTS
  TypeOK
  AcceptedIsOwed
PROPERTIES
  DoneIsFinal
  IndexedIsKept
  BytesOutliveDecision
  ImplementsLifecycle
  EventuallySettled
CHECK_DEADLOCK FALSE
