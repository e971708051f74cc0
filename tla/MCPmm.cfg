CONSTANTS
  Unit = 8
  LowMemory = 16
  TotalMemory = 128
  Word = 512
  FrameSize = 8
  ByteBits = 2
  KernelEnds <- AllEnds
  BiosMaps <- AllMaps
SPECIFICATION Spec
INVARIANTS
  CountMatches
  GivenFramesUsable
PROPERTY
  FramesConserved
CHECK_DEADLOCK FALSE
