CONSTANTS
  Unit = 8
  LowMemory = 16
  TotalMemory = 128
  Word = 512
  FrameSize = 8
  ByteBits = 2
  KernelEnds <- OddEnd
  BiosMaps <- ShortMaps
SPECIFICATION Spec
INVARIANT
  BitmapReserved
CHECK_DEADLOCK FALSE
