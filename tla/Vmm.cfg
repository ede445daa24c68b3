SPECIFICATION vmSpec
CONSTANTS
  FrameSize = 1
  WordBits = 8
  WordBytes = 1
  KernelEnd = 1
  MaxRun = 1
  MemoryMaps <- Maps
  TablesPerDir = 3
  PagesPerTable = 8
  HeapFrames = {5}
  BarPages = {18, 19}
  Pages = {7, 8, 19}
  MaxMapped = 4
INVARIANTS
  vmTypeOK
  
  TlbCoherent
  
  
CHECK_DEADLOCK FALSE
