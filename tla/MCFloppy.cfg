CONSTANTS
  Base = 2
  MemSize = 4
  Formats <- FewFormats
  Sizes <- FewSizes
  Addresses <- FewAddresses
  Targets <- FewTargets
  MaxCommands = 2
  MaxSwaps = 1
SPECIFICATION FloppySpec
INVARIANTS
  FdcProtocol
PROPERTIES
  TransferTruthful
  SeekArrives
CHECK_DEADLOCK FALSE
