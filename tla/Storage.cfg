SPECIFICATION Spec
CONSTANTS
  SizeMax = 31
  HeaderSize = 6
  MallocAlign = 4
  DefaultAlign = 2
  DefaultBlockSize = 4
  RequestSizes = {0, 3, 31}
  Alignments = {0, 3, 4}
  Null = None
  None = None
  Names = {1, 2, 3, 4}
  Values <- MCValues
  HashOf <- MCHashOf
  LengthOf <- MCLengthOf
  InitialBuckets = 2
  MaxObjects = 5
  MaxOthers = 1
CONSTRAINT Few
INVARIANTS
  ObjectsApart
  Accounted
  Findable
  CopiesHeld
PROPERTIES
  GrowsToServe
  ImplementsPool
