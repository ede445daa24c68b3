SPECIFICATION Spec
CONSTANTS
  HeapInitial = 104
  SizeModulus = 256
  Requests = {0, 1, 24, 253}
INVARIANTS
  TypeOK
  Tiling
  Coalesced
  OwnedBlocks
  Accounting

  
