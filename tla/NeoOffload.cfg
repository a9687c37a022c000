SPECIFICATION FairSpec
CONSTANTS
  BlockSize = 2
  NumGpu = 3
  NumCpu = 9
  MaxBatch = 3
  MaxTokens = 7
  MaxLen = 6
  PartialOfflOff = {TRUE, FALSE}
  LinrThreshold = 4
  NumReqs = 4
  Prompts = {1, 3}
  Outputs = {1, 3}
  MaxIds = 5
  ExtraLayer = TRUE
  Modes = {TRUE, FALSE}
INVARIANTS
  TypeOK
  NoRequestLost
  QueuesMatchDevices
  IdsExact
  StartsInOrder
  EngineNeverDies
PROPERTY
  ImplementsBlockManager
  EveryRequestFinishes
CHECK_DEADLOCK FALSE
