SPECIFICATION SpecNode
CONSTANTS
  Parts = {"mempool", "peers", "messages", "rpc"}
  c1 = c1
  c2 = c2
  a1 = a1
  a2 = a2
  Transactions = {1, 2, 3, 4}
  NoTransaction = NoTransaction
  Inputs <- MCInputs
  NumOutputs <- MCNumOutputs
  FeeRate <- MCFeeRate
  ValidFrom <- MCMaturing
  OverOrphanMass = {}
  Confirmed <- MCConfirmed
  BlockContents <- MCBlocks
  MaximumTransactionCount = 2
  MaximumOrphanTransactionCount = 1
  ExpireInterval = 0
  ScanInterval = 1
  MaxBlocks = 1
  MaxReorgs = 1
  MaxInsertions = 4
  NoConn = NoConn
  Conns = {c1, c2}
  Outbound = {c1}
  PeerIds = {"id"}
  Capacity = 2
  Environments <- SafetyEnvironments
  MaxAddressesPerMsg = 2
  MaxBlockLocatorsPerMsg = 2
  MaxInvPerTxInvMsg = 2
  MaxInvPerRequestTransactionsMsg = 2
  MaxRequestRelayBlocksHashes = 2
  Addresses = {a1, a2}
  RpcClients = {c1, c2}
  RpcEnvironments <- MCEnvironments
  MaxConnections = 2
  MaxCalls = 2
  RouteCapacity = 1
CHECK_DEADLOCK FALSE
INVARIANTS
  NodeTypeOK IndicesExact WaitsOnlyForPool
  ConnectionsOwned HonestNeverBanned
  
  AnswersOwn EveryCallAnswered 
 
