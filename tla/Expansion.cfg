SPECIFICATION FairSpec
CONSTANTS
  Names <- MCNames
  HeaderNames <- MCHeaderNames
  Headers <- MCHeaders
  Programs <- MCPrograms
  Pastes <- MCPastes
  Numbers <- MCNumbers
  IncludeCap = 3
  LineMax = 40
CHECK_DEADLOCK FALSE
INVARIANTS
  NestedHidden
  MatchesReference
PROPERTIES
  RunEnds
  DefinitionsHeld
