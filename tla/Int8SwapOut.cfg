SPECIFICATION Spec
CONSTANTS
  Ids = {0, 1}
  BlockSize = 2
  ExtraLayer = FALSE
  NumGpu = 6
  NumCpu = 6
  MaxBatch = 2
  MaxTokens = 8
  MaxLen = 6
  Prompts = {2}
  NumLayers = 1
  CprfInSecond = FALSE
  MaxIters = 2
  SwapModes = {"int8_transfer", "int8_cpu_kv"}
  EarlyStores = TRUE
INVARIANT KVInPlace
CHECK_DEADLOCK FALSE
