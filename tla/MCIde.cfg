CONSTANTS
  Base = 3
  HeadBase = 2
  Heads = 2
  Spt = 2
  Drq = 2
  DiskUnits = 33
  CdUnits = 2
  Chunk = 3
  Kinds = {"sync", "file", "chunks", "parts"}
  Requests <- ManyRequests
  Packets <- ManyPackets
  MemSize = 3
  MaxCommands = 3
  MaxFaults = 1
SPECIFICATION Spec
INVARIANTS
  IdeProtocol
  ReadsAreTrue
  AddressFollows
PROPERTIES
  ResetIsFinal
CHECK_DEADLOCK FALSE
