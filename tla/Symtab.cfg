SPECIFICATION Spec
CONSTANTS
  Names = {n1, n2}
  BucketCount = 2
  InitialScopes = 1
  MaxSymbols = 3
  MaxScopes = 3
SYMMETRY Symmetry
INVARIANTS
  InnermostFirst
  ChainsAgree
  UnlinksHead
PROPERTIES
  ImplementsScopes
