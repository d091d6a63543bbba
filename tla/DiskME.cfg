SPECIFICATION Spec
CONSTANTS
  DiskPairs <- MCPairs
  M = 2
  Lambda = 3
  Alpha <- MCAlpha
  BatchSize = 2
  BatchSize0 = 1
  BatchSize2 = 2
INVARIANTS
  ReadsInMemory
  
