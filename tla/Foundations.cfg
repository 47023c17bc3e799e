SPECIFICATION SpecFoundations
CONSTANTS
  Blocks = {0, 1, 2, 3, 4, 5, 6}
  Genesis = 0
  K = 2
  NoBlock = NoBlock
  Hash <- MCHash
  Work <- MCWork
  VirtualGenesis = 99
  Bits = 5
  reindexSlack = 1
  reindexWindow = 1
  Time <- MCTime
  Level <- MCLevel
  Fees <- MCFees
  maxBlockLevel = 2
  VirtualGenesisHash = 99
  difficultyAdjustmentWindowSize = 3
  timestampDeviationTolerance = 2
  targetTimePerBlock = 2
  powMax = 33554431
  genesisBits <- MCGenesisBits
  mergeSetSizeLimit = 4
  mergeDepth = 2
  subsidyGenesisReward = 1
  preDeflationaryPhaseBaseSubsidy = 5
  deflationaryPhaseDaaScore = 1
  secondsPerMonth = 1
  subsidyByDeflationaryMonthTable <- MCSubsidies
  Outpoints = {o1, o2, o3}
  DAAScores = {1, 2}
  Slots = {s1, s2}
  Keys = {k1, k2}
  Values = {v1, v2}
  None = None
  Uncached = Uncached
  Areas = {a1, a2}
  Capacity = 1
  Scopes <- MCScopes
  MaxStaged = 2
  MaxCommits = 2
  MaxRestarts = 1
CHECK_DEADLOCK FALSE
SYMMETRY Symmetry
INVARIANTS FoundationsTypeOK DiffsCorrect DagCorrect HeadersCorrect CachesCoherent
PROPERTY ImplementsAtomicStore
