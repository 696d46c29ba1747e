SPECIFICATION MCSpec
CONSTANTS
  Names = {1, 2, 3, 4}
  Values = {d1, d2}
  None = None
  InitialBuckets = 4
  Hashes = {0, 3, 7}
INVARIANTS
  TypeOK
  Findable
  ShiftConfined
  ProbeStops
PROPERTIES
  CallsReturn
  ImplementsMap
