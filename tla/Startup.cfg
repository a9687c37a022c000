SPECIFICATION Spec
CONSTANTS
  DenseBits = 3
  RotarySlack = 2
  NumLayers = 2
  NWarmup = 1
  NRepeat = 2
  Configs <- AllConfigs
  Evaluations <- MCEvaluations
  Peaks = {0, 10}
  UsableMemory = 80
  MaxStarts = 2
  NumQHeads = 8
  NumKvHeads = 4
  HeadDim = 128
  FfnInterDim = 8
  VocabSize = 8
  CompiledHeads <- MCHeads
  CompiledHeadDim = 128
  CompiledBlockSize = 4
  MaxBatchSize = 4
  MaxWs = 2
  MaxTokNum = 32
  MaxSeqBlock = 16
  MinSeqBlock = 8
  Occupancy = 4
  MaxSplit = 128
INVARIANTS
  TypeOK
  TablesComplete
  LookupsBracket
  ProfilingLeavesNothing
  CacheFits
PROPERTY
  SupportedStarts
CHECK_DEADLOCK FALSE
