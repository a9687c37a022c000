SPECIFICATION Spec
CONSTANTS
  BlockSize = 2
  NumGpu = 4
  NumCpu = 6
  MaxBatch = 3
  MaxTokens = 7
  MaxLen = 8
  PartialOfflOff = {TRUE, FALSE}
  LinrThreshold = 4
  NumReqs = 4
  Prompts = {1, 3}
  Outputs = {5}
  MaxIds = 3
  ExtraLayer = TRUE
  Modes = {TRUE, FALSE}
INVARIANTS
  NoRequestLost
  QueuesMatchDevices
  IdsExact
  DiesOnlyWhenFull
PROPERTY
  ImplementsBlockManager
CHECK_DEADLOCK FALSE
