SPECIFICATION EitherSpec
CONSTANTS
  CharWidth = 2
  ShortWidth = 3
  IntWidth = 4
  LongWidth = 8
  Trees <- MCExpressions
  MaxWidth = 8
  Numbers <- MCNumbers
  Characters <- MCCharacters
  Code <- MCCode
  Identifiers <- MCIdentifiers
  Macros <- MCMacros
  Lines <- MCLines
CHECK_DEADLOCK FALSE
INVARIANTS
  Conforms
  PpConforms
