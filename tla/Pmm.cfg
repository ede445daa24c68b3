SPECIFICATION Spec
CONSTANTS
  FrameSize = 2
  WordBits = 4
  WordBytes = 1
  KernelEnd = 3
  MaxRun = 3
  MemoryMaps <- Maps
INVARIANTS
  TypeOK
  StatsMatchBitmap
  Exclusive
  KernelKept
  
  FailsOnlyWhenSearchedFull
