SPECIFICATION Spec
CONSTANTS
  BlockSize = 2
  NumGpu = 3
  NumCpu = 9
  MaxBatch = 3
  MaxTokens = 7
  MaxLen = 6
  PartialOfflOff = {FALSE}
  LinrThreshold = 4
  NumReqs = 2
  Prompts = {1, 3}
  Outputs = {1, 3}
  MaxIds = 5
  ExtraLayer = FALSE
  Modes = {FALSE}
INVARIANT
  EngineNeverDies
CHECK_DEADLOCK FALSE
