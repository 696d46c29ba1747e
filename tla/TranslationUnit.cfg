CONSTANTS
  CharWidth = 2
  ShortWidth = 3
  IntWidth = 4
  LongWidth = 8
  InitialScopes = 2
  Strings = {"s"}
  Identifiers <- MCIdentifiers
  Constants <- MCConstants
  Operands <- MCOperands
  TypeNames <- MCTypeNames
  Inputs <- AllInputs
SPECIFICATION Spec
CHECK_DEADLOCK FALSE
INVARIANTS ExpressionsConform DeclaratorsConform ProgramsConform ScopesBalanced RefusalsReported
