SPECIFICATION Spec
CONSTANTS
  Ids = {r1, r2}
  BlockSize = 2
  ExtraLayer = TRUE
  NumGpu = 3
  NumCpu = 3
  MaxBatch = 2
  MaxTokens = 4
  MaxLen = 5
SYMMETRY Symmetry
INVARIANTS
  TypeOK
  AccountingExact
  BlocksMatchLength
PROPERTY
  RowsStable
CHECK_DEADLOCK FALSE
