SPECIFICATION FairSpec
CONSTANTS
  NumLayers = 2
  MaxSeqBlock = 8
  MinSeqBlock = 2
  Occupancy = 4
  MaxSplit = 3
  BlockSize = 2
  NumGpu = 10
  NumCpu = 8
  TileQ = 4
  TileK = 2
  MinTile = 2
  Threads = 3
  CompiledHeads <- MCHeads
  CompiledHeadDim = 128
  CompiledBlockSize = 2
  MaxBatchSize = 2
  MaxWs = 3
  MaxTokNum = 8
  Worlds <- MCWorlds
INVARIANTS
  TypeOK
  NextTokensRight
  KVWritten
  NoRaces
  AccessesInBounds
PROPERTY IterationReturns
CHECK_DEADLOCK FALSE
