SPECIFICATION Spec
CONSTANTS
  k = k
  m = m
  Names <- MCNames
  NoName = NoName
  Images <- MCImages
  Block = 60
  Blocks = 2
  PerChunk = 2
  Chunks = 4
  MaxFiles = 2
INVARIANTS ScanComplete 
