CONSTANTS
  MaxTasks = 4
  Code <- TwoCode
  Entries <- OneCode
  RegFiles <- TwoRegFiles
  OwnStacks <- OneOwnStack
  NULL = NULL
  Uninit = Uninit
SPECIFICATION FairSpec
INVARIANTS
  ContextSaved
  OneRing
PROPERTIES
  ContextRestored
  RoundRobin
  EveryTaskRuns
CHECK_DEADLOCK FALSE
