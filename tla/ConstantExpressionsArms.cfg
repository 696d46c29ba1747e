SPECIFICATION Spec
CONSTANTS
  CharWidth = 2
  ShortWidth = 3
  IntWidth = 4
  LongWidth = 8
  Trees <- MCExpressions
CHECK_DEADLOCK FALSE
INVARIANTS
  ConformsAlways
