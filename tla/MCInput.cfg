CONSTANTS
  Size = 4
  Keys <- SpecialKeys
  Chars <- SomeChars
  Values <- SomeValues
  Orders <- SomeOrders
  MaxSteps = 4
SPECIFICATION FairSpec
INVARIANTS
  ByteReady
  KeysArrive
PROPERTIES
  KeysServed
CHECK_DEADLOCK FALSE
