CONSTANTS
  Base = 2
  Window = 6
  Characters = {0, 1}
  Attrs = {0, 1}
  Looks = {0, 1}
  Offsets <- SomeOffsets
  MaxSteps = 3
  Target = 1
SPECIFICATION DisplayFairSpec
INVARIANTS
  CellsMirrorMemory
  CleanRowsAreTrue
  WaiterOverlooksNothing
PROPERTIES
  DirtyRowsAreRendered
CHECK_DEADLOCK FALSE
