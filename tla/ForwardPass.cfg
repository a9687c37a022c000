SPECIFICATION Spec
CONSTANTS
  Ids = {0, 1}
  BlockSize = 2
  ExtraLayer = TRUE
  NumGpu = 6
  NumCpu = 6
  MaxBatch = 2
  MaxTokens = 8
  MaxLen = 6
  Prompts = {4}
  NumLayers = 2
  CprfInSecond = FALSE
  MaxIters = 2
  SwapModes = {"fp16", "int8_transfer"}
  EarlyStores = FALSE
INVARIANTS
  GpuReadsRight
  QkvArrive
  CpuReadsRight
  OutputsArrive
  SwapsReadRight
  KVInPlace
CHECK_DEADLOCK FALSE
