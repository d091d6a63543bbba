SPECIFICATION Spec
CONSTANTS
  DiskPairs <- MCPairs
  M = 2
  Lambda = 3
  Alpha <- MCAlpha
  BatchSize = 2
  CacheLimit = 3
  Garbage = {0, 1000}
INVARIANTS
  CachesSound
  BatchStaysLoaded
  
  
