SPECIFICATION Spec
CONSTANTS
  Names = {m}
  InitialCapacity = 1
  IncludeCap = 2
  MaxDepth = 3
  MaxGroups = 3
INVARIANTS
  FramesNested
  FlagsMatchSource
PROPERTIES
  SkippedIsInert
  AtMostOneGroup
  ImplementsGroups
