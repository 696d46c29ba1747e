CONSTANTS
  CharWidth = 2
  ShortWidth = 3
  IntWidth = 4
  LongWidth = 8
  InitialScopes = 2
  Strings = {"s"}
  Identifiers <- MCIdentifiers
  Constants <- MCConstants
  Operands <- MCOperands
  TypeNames <- MCTypeNames
  Inputs <- Faults
SPECIFICATION Spec
CHECK_DEADLOCK FALSE
INVARIANT ParseErrorsDiagnosed
