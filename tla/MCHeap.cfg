CONSTANTS
  HeapBase = 64
  HEAP_MAX_SIZE = 112
  Word = 256
  Sizes <- SmallSizes
SPECIFICATION Spec
INVARIANTS
  Tiling
  Coalesced
  Accounting
  HeldInBlocks
PROPERTY
  Implements
CHECK_DEADLOCK FALSE
