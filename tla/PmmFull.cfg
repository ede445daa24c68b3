SPECIFICATION Spec
CONSTANTS
  FrameSize = 2
  WordBits = 4
  WordBytes = 1
  KernelEnd = 3
  MaxRun = 3
  MemoryMaps <- Maps
INVARIANT FailsOnlyWhenFull
