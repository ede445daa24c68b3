SPECIFICATION Spec
CONSTANTS
  HeapInitial = 104
  SizeModulus = 256
  Requests = {0, 1, 16, 24, 253}
INVARIANT FreeWithinTotal
