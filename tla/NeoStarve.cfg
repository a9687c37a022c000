SPECIFICATION FairSpec
CONSTANTS
  BlockSize = 1
  NumGpu = 11
  NumCpu = 33
  MaxBatch = 3
  MaxTokens = 16
  MaxLen = 13
  PartialOfflOff = {FALSE}
  LinrThreshold = 4
  NumReqs = 2
  Prompts = {1, 11}
  Outputs = {2}
  MaxIds = 5
  ExtraLayer = TRUE
  Modes = {FALSE}
PROPERTY
  EveryRequestFinishes
CHECK_DEADLOCK FALSE
