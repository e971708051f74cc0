CONSTANTS
  HeapBase = 1081360
  HEAP_MAX_SIZE = 4194304
  Word = 1073741824
  MaxOthers = 3
  Sizes <- ClientSizes
SPECIFICATION TestSpec
INVARIANT
  HeapTestNeutral
CHECK_DEADLOCK FALSE
