CONSTANTS
  Base = 2
  Millisecond = 2
  MaxSleep = 3
  Grain = 2
  MaxLate = 4
  MaxServed = 1
  MaxOps = 3
  MaxWakes = 2
SPECIFICATION ClockFairSpec
INVARIANTS
  OneLoop
  PhaseKept
PROPERTIES
  TicksKeepComing
  StopResolves
  NeverOversleeps
