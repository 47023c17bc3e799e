SPECIFICATION FairSync
CONSTANTS
  Parts = {"relay", "negotiation", "transfer", "peers"}
  c1 = c1
  c2 = c2
  NoConn = NoConn
  Conns = {c1, c2}
  Outbound = {c1}
  PeerIds = {"id"}
  Capacity = 2
  Environments <- LivenessEnvironments
  p1 = p1
  p2 = p2
  Peers = {p1, p2}
  NoPeer = NoPeer
  Blocks = {0, 1, 2, 3, 4, 5}
  Genesis = 0
  NoBlock = NoBlock
  Parents <- MCParents
  Data <- MCData
  Known = {0, 1}
  Announced <- MCAnnounced
  Limits <- MCLimits
  MergeDepth = 3
  DisallowDirectBlocksOnTopOfGenesis = TRUE
  ChainData <- MCChainData
  Root = 1
  InitialTip = 10
  SynceeTips <- MCSynceeTips
  SynceePruningPoints = {0, 2, 4}
  Learnable = {6, 7, 21}
  Signalling = {TRUE, FALSE}
  NoHash = NoHash
  MaxChanges = 2
  MaxRestarts = 1
  Downloads = {"headers", "trusted", "utxos", "bodies"}
  MaxItems = 9
  BatchSize = 3
  ChunkSize = 2
  HeaderQueue = 2
CHECK_DEADLOCK FALSE
INVARIANTS TypeOK RelayStateOwned RelayLosesNothing ChainIndexExact  TransferCorrect
PROPERTY SyncEnds
