SPECIFICATION Spec
CONSTANTS
  Names = {m}
  InitialCapacity = 1
  IncludeCap = 2
  MaxDepth = 2
  MaxGroups = 2
PROPERTIES
  OpenAtEndOfFileIsAnError
