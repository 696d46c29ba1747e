SPECIFICATION Spec
CONSTANTS
  Scenarios <- MCScenarios
  KeywordTable <- MCKeywordTable
  OverReads = 2
  MaxFaults = 2
  Declarations = 2
  IntWidth = 5
  LongWidth = 8
  IntBytes = 2
  WordWidth = 24
CHECK_DEADLOCK FALSE
INVARIANTS
  Tokenizes
  ReportsEach
  NewlineOnce
  Converts
  HeldWhileNeeded
  
  RendersBack
  GluesBack
