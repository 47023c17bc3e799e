SPECIFICATION SpecConsensus
CONSTANTS
  Parts = {"state", "scripts"}
  Blocks = {0, 1, 2, 3, 4, 5}
  Genesis = 0
  NoBlock = NoBlock
  NoDiff = NoDiff
  Transactions <- MCTransactions
  Inputs <- MCInputs
  Outputs <- MCOutputs
  Environments <- MCPassing
  MaxPubKeysPerMultiSig = 3
  ScriptNumLen = 2
  MaxStackSize = 7
  MaxOpsPerScript = 6
  maxEntries = 1
  MaxRuns = 3
  Reruns <- MCReruns
  Spends <- MCSpends
CHECK_DEADLOCK FALSE
INVARIANTS ConsensusTypeOK RestorePathsCorrect VirtualUtxoCorrect VirtualIsBest StatusesCorrect
  SigOpsCounted ScriptsSound
PROPERTIES VirtualNeverRegresses EventuallyResolved
