CONSTANTS
  Word = 8
  frequency = 3
  Devices <- SmallDevices
  NULL = NULL
  Uninit = Uninit
SPECIFICATION FairSpec
INVARIANTS
  IdleIsClean
PROPERTIES
  SecondTakesHzTicks
  ImplementsTasks
  TickServed
CHECK_DEADLOCK FALSE
