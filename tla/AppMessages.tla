----------------------------- MODULE AppMessages -----------------------------
(***************************************************************************)
(* The messages of package appmessage: what the flows and the RPC handlers *)
(* exchange with the network adapter, as the fields of their Go structs    *)
(* and the command a message answers to.  The messages of one RPC are the  *)
(* fields of one record.                                                   *)
(***************************************************************************)
EXTENDS MessageTypes

ScriptPublicKey == Struct([Script |-> Bytes, Version |-> Uint16])
RPCError == Struct([Message |-> String])
MsgBlockHeader ==
  Struct([Version |-> Uint16, Parents |-> List(List(DomainHash)), HashMerkleRoot |-> DomainHash,
          AcceptedIDMerkleRoot |-> DomainHash, UTXOCommitment |-> DomainHash, Timestamp |-> Int64,
          Bits |-> Uint32, Nonce |-> Uint64, DAAScore |-> Uint64, BlueScore |-> Uint64,
          BlueWork |-> BigInt, PruningPoint |-> DomainHash])
BlockHeadersMessage == Message("CmdBlockHeaders", [BlockHeaders |-> List(MsgBlockHeader)])
NetAddress == Struct([Timestamp |-> Int64, IP |-> Bytes, Port |-> Uint16])
MsgAddresses == Message("CmdAddresses", [AddressList |-> List(NetAddress)])
Outpoint == Struct([TxID |-> DomainHash, Index |-> Uint32])
TxIn ==
  Struct([PreviousOutpoint |-> Outpoint, SignatureScript |-> Bytes, Sequence |-> Uint64,
          SigOpCount |-> Uint8])
TxOut == Struct([Value |-> Uint64, ScriptPubKey |-> ScriptPublicKey])
MsgTx ==
  Message("CmdTx",
    [Version |-> Uint16, TxIn |-> List(TxIn), TxOut |-> List(TxOut), LockTime |-> Uint64,
     SubnetworkID |-> DomainHash, Gas |-> Uint64, Payload |-> Bytes])
MsgBlock == Message("CmdBlock", [Header |-> MsgBlockHeader, Transactions |-> List(MsgTx)])
MsgBlockLocator == Message("CmdBlockLocator", [BlockLocatorHashes |-> List(DomainHash)])
BluesAnticoneSizes == Struct([BlueHash |-> DomainHash, AnticoneSize |-> Uint8])
BlockGHOSTDAGData ==
  Struct([BlueScore |-> Uint64, BlueWork |-> BigInt, SelectedParent |-> DomainHash,
          MergeSetBlues |-> List(DomainHash), MergeSetReds |-> List(DomainHash),
          BluesAnticoneSizes |-> List(BluesAnticoneSizes)])
TrustedDataDataDAABlock == Struct([Block |-> MsgBlock, GHOSTDAGData |-> BlockGHOSTDAGData])
BlockGHOSTDAGDataHashPair == Struct([Hash |-> DomainHash, GHOSTDAGData |-> BlockGHOSTDAGData])
MsgBlockWithTrustedData ==
  Message("CmdBlockWithTrustedData",
    [Block |-> MsgBlock, DAAScore |-> Uint64, DAAWindow |-> List(TrustedDataDataDAABlock),
     GHOSTDAGData |-> List(BlockGHOSTDAGDataHashPair)])
MsgBlockWithTrustedDataV4 ==
  Message("CmdBlockWithTrustedDataV4",
    [Block |-> MsgBlock, DAAWindowIndices |-> List(Uint64), GHOSTDAGDataIndices |-> List(Uint64)])
MsgDoneBlocksWithTrustedData == Message("CmdDoneBlocksWithTrustedData", NoFields)
MsgDoneHeaders == Message("CmdDoneHeaders", NoFields)
MsgDonePruningPointUTXOSetChunks == Message("CmdDonePruningPointUTXOSetChunks", NoFields)
MsgRequestPruningPointAndItsAnticone == Message("CmdRequestPruningPointAndItsAnticone", NoFields)
MsgIBDBlock == Message("CmdIBDBlock", [MsgBlock |-> MsgBlock])
MsgIBDBlockLocator ==
  Message("CmdIBDBlockLocator",
    [TargetHash |-> DomainHash, BlockLocatorHashes |-> List(DomainHash)])
MsgIBDBlockLocatorHighestHash ==
  Message("CmdIBDBlockLocatorHighestHash", [HighestHash |-> DomainHash])
MsgIBDBlockLocatorHighestHashNotFound ==
  Message("CmdIBDBlockLocatorHighestHashNotFound", NoFields)
MsgIBDChainBlockLocator ==
  Message("CmdIBDChainBlockLocator", [BlockLocatorHashes |-> List(DomainHash)])
MsgInvRelayBlock == Message("CmdInvRelayBlock", [Hash |-> DomainHash])
MsgInvTransaction == Message("CmdInvTransaction", [TxIDs |-> List(DomainHash)])
MsgPing == Message("CmdPing", [Nonce |-> Uint64])
MsgPong == Message("CmdPong", [Nonce |-> Uint64])
MsgPruningPointProof == Message("CmdPruningPointProof", [Headers |-> List(List(MsgBlockHeader))])
MsgPruningPoints == Message("CmdPruningPoints", [Headers |-> List(MsgBlockHeader)])
UTXOEntry ==
  Struct([Amount |-> Uint64, ScriptPublicKey |-> ScriptPublicKey, BlockDAAScore |-> Uint64,
          IsCoinbase |-> Boolean])
OutpointAndUTXOEntryPair == Struct([Outpoint |-> Outpoint, UTXOEntry |-> UTXOEntry])
MsgPruningPointUTXOSetChunk ==
  Message("CmdPruningPointUTXOSetChunk",
    [OutpointAndUTXOEntryPairs |-> List(OutpointAndUTXOEntryPair)])
MsgReject == Message("CmdReject", [Reason |-> String])
MsgRequestAddresses ==
  Message("CmdRequestAddresses",
    [IncludeAllSubnetworks |-> Boolean, SubnetworkID |-> Ptr(DomainHash)])
MsgRequestAnticone ==
  Message("CmdRequestAnticone", [BlockHash |-> DomainHash, ContextHash |-> DomainHash])
MsgRequestBlockLocator ==
  Message("CmdRequestBlockLocator", [HighHash |-> DomainHash, Limit |-> Uint32])
MsgRequestHeaders ==
  Message("CmdRequestHeaders", [LowHash |-> DomainHash, HighHash |-> DomainHash])
MsgRequestIBDBlocks == Message("CmdRequestIBDBlocks", [Hashes |-> List(DomainHash)])
MsgRequestIBDChainBlockLocator ==
  Message("CmdRequestIBDChainBlockLocator",
    [HighHash |-> Ptr(DomainHash), LowHash |-> Ptr(DomainHash)])
MsgRequestNextHeaders == Message("CmdRequestNextHeaders", NoFields)
MsgRequestNextPruningPointAndItsAnticoneBlocks ==
  Message("CmdRequestNextPruningPointAndItsAnticoneBlocks", NoFields)
MsgRequestNextPruningPointUTXOSetChunk ==
  Message("CmdRequestNextPruningPointUTXOSetChunk", NoFields)
MsgRequestPruningPointProof == Message("CmdRequestPruningPointProof", NoFields)
MsgRequestPruningPointUTXOSet ==
  Message("CmdRequestPruningPointUTXOSet", [PruningPointHash |-> DomainHash])
MsgRequestRelayBlocks == Message("CmdRequestRelayBlocks", [Hashes |-> List(DomainHash)])
MsgRequestTransactions == Message("CmdRequestTransactions", [IDs |-> List(DomainHash)])
MsgTransactionNotFound == Message("CmdTransactionNotFound", [ID |-> DomainHash])
TrustedDataDAAHeader == Struct([Header |-> MsgBlockHeader, GHOSTDAGData |-> BlockGHOSTDAGData])
MsgTrustedData ==
  Message("CmdTrustedData",
    [DAAWindow |-> List(TrustedDataDAAHeader), GHOSTDAGData |-> List(BlockGHOSTDAGDataHashPair)])
MsgVerAck == Message("CmdVerAck", NoFields)
MsgVersion ==
  Message("CmdVersion",
    [ProtocolVersion |-> Uint32, Network |-> String, Services |-> Uint64, Timestamp |-> Int64,
     Address |-> Ptr(NetAddress), ID |-> DomainHash, UserAgent |-> UserAgentString,
     DisableRelayTx |-> Boolean, SubnetworkID |-> Ptr(DomainHash)])
MsgReady == Message("CmdReady", NoFields)
MsgUnexpectedPruningPoint == Message("CmdUnexpectedPruningPoint", NoFields)
AddPeer ==
  [Request |-> Message("CmdAddPeerRequestMessage", [Address |-> String, IsPermanent |-> Boolean]),
   Response |-> Message("CmdAddPeerResponseMessage", [Error |-> Ptr(RPCError)])]
Ban ==
  [Request |-> Message("CmdBanRequestMessage", [IP |-> String]),
   Response |-> Message("CmdBanResponseMessage", [Error |-> Ptr(RPCError)])]
EstimateNetworkHashesPerSecond ==
  [Request |->
     Message("CmdEstimateNetworkHashesPerSecondRequestMessage",
       [StartHash |-> String, WindowSize |-> Uint32]),
   Response |->
     Message("CmdEstimateNetworkHashesPerSecondResponseMessage",
       [NetworkHashesPerSecond |-> Uint64, Error |-> Ptr(RPCError)])]
RPCFeeRateBucket == Struct([Feerate |-> Float64, EstimatedSeconds |-> Float64])
RPCFeeEstimate ==
  Struct([PriorityBucket |-> RPCFeeRateBucket, NormalBuckets |-> List(RPCFeeRateBucket),
          LowBuckets |-> List(RPCFeeRateBucket)])
GetFeeEstimate ==
  [Request |-> Message("CmdGetFeeEstimateRequestMessage", NoFields),
   Response |->
     Message("CmdGetFeeEstimateResponseMessage",
       [Estimate |-> RPCFeeEstimate, Error |-> Ptr(RPCError)])]
GetBalanceByAddress ==
  [Request |-> Message("CmdGetBalanceByAddressRequestMessage", [Address |-> String]),
   Response |->
     Message("CmdGetBalanceByAddressResponseMessage", [Balance |-> Uint64, Error |-> Ptr(RPCError)])]
BalancesByAddressesEntry == Struct([Address |-> String, Balance |-> Uint64])
GetBalancesByAddresses ==
  [Request |-> Message("CmdGetBalancesByAddressesRequestMessage", [Addresses |-> List(String)]),
   Response |->
     Message("CmdGetBalancesByAddressesResponseMessage",
       [Entries |-> List(BalancesByAddressesEntry), Error |-> Ptr(RPCError)])]
RPCBlockLevelParents == Struct([ParentHashes |-> List(String)])
RPCBlockHeader ==
  Struct([Version |-> VersionUint32, Parents |-> List(RPCBlockLevelParents),
          HashMerkleRoot |-> String, AcceptedIDMerkleRoot |-> String, UTXOCommitment |-> String, Timestamp |-> Int64,
          Bits |-> Uint32, Nonce |-> Uint64, DAAScore |-> Uint64, BlueScore |-> Uint64,
          BlueWork |-> String, PruningPoint |-> String])
RPCOutpoint == Struct([TransactionID |-> String, Index |-> Uint32])
RPCTransactionInputVerboseData == Struct(NoFields)
RPCTransactionInput ==
  Struct([PreviousOutpoint |-> RPCOutpoint, SignatureScript |-> String, Sequence |-> Uint64,
          SigOpCount |-> Uint8, VerboseData |-> Ptr(RPCTransactionInputVerboseData)])
RPCScriptPublicKey == Struct([Version |-> Uint16, Script |-> String])
RPCTransactionOutputVerboseData ==
  Struct([ScriptPublicKeyType |-> String, ScriptPublicKeyAddress |-> String])
RPCTransactionOutput ==
  Struct([Amount |-> Uint64, ScriptPublicKey |-> RPCScriptPublicKey,
          VerboseData |-> Ptr(RPCTransactionOutputVerboseData)])
RPCTransactionVerboseData ==
  Struct([TransactionID |-> String, Hash |-> String, Mass |-> Uint64, BlockHash |-> String,
          BlockTime |-> Uint64])
RPCTransaction ==
  Struct([Version |-> Uint16, Inputs |-> List(RPCTransactionInput),
          Outputs |-> List(RPCTransactionOutput), LockTime |-> Uint64, SubnetworkID |-> String,
          Gas |-> Uint64, Payload |-> String, VerboseData |-> Ptr(RPCTransactionVerboseData)])
RPCBlockVerboseData ==
  Struct([Hash |-> String, Difficulty |-> Float64, SelectedParentHash |-> String,
          TransactionIDs |-> List(String), IsHeaderOnly |-> Boolean, BlueScore |-> Uint64,
          ChildrenHashes |-> List(String), MergeSetBluesHashes |-> List(String),
          MergeSetRedsHashes |-> List(String), IsChainBlock |-> Boolean])
RPCBlock ==
  Struct([Header |-> RPCBlockHeader, Transactions |-> List(RPCTransaction),
          VerboseData |-> Ptr(RPCBlockVerboseData)])
GetBlock ==
  [Request |->
     Message("CmdGetBlockRequestMessage", [Hash |-> String, IncludeTransactions |-> Boolean]),
   Response |->
     Message("CmdGetBlockResponseMessage", [Block |-> Ref(RPCBlock), Error |-> Ptr(RPCError)])]
GetBlockCount ==
  [Request |-> Message("CmdGetBlockCountRequestMessage", NoFields),
   Response |->
     Message("CmdGetBlockCountResponseMessage",
       [BlockCount |-> Uint64, HeaderCount |-> Uint64, Error |-> Ptr(RPCError)])]
GetBlockDAGInfo ==
  [Request |-> Message("CmdGetBlockDAGInfoRequestMessage", NoFields),
   Response |->
     Message("CmdGetBlockDAGInfoResponseMessage",
       [NetworkName |-> String, BlockCount |-> Uint64, HeaderCount |-> Uint64,
        TipHashes |-> List(String), VirtualParentHashes |-> List(String), Difficulty |-> Float64,
        PastMedianTime |-> Int64, PruningPointHash |-> String, VirtualDAAScore |-> Uint64,
        Error |-> Ptr(RPCError)])]
GetBlockTemplate ==
  [Request |->
     Message("CmdGetBlockTemplateRequestMessage", [PayAddress |-> String, ExtraData |-> String]),
   Response |->
     Message("CmdGetBlockTemplateResponseMessage",
       [Block |-> Ptr(RPCBlock), IsSynced |-> Boolean, Error |-> Ptr(RPCError)])]
GetBlocks ==
  [Request |->
     Message("CmdGetBlocksRequestMessage",
       [LowHash |-> String, IncludeBlocks |-> Boolean, IncludeTransactions |-> Boolean]),
   Response |->
     Message("CmdGetBlocksResponseMessage",
       [BlockHashes |-> List(String), Blocks |-> List(RPCBlock), Error |-> Ptr(RPCError)])]
GetCoinSupply ==
  [Request |-> Message("CmdGetCoinSupplyRequestMessage", NoFields),
   Response |->
     Message("CmdGetCoinSupplyResponseMessage",
       [MaxSompi |-> Uint64, CirculatingSompi |-> Uint64, Error |-> Ptr(RPCError)])]
GetConnectedPeerInfoMessage ==
  Struct([ID |-> String, Address |-> String, LastPingDuration |-> Int64, IsOutbound |-> Boolean,
          TimeOffset |-> Int64, UserAgent |-> String, AdvertisedProtocolVersion |-> Uint32,
          TimeConnected |-> Int64, IsIBDPeer |-> Boolean])
GetConnectedPeerInfo ==
  [Request |-> Message("CmdGetConnectedPeerInfoRequestMessage", NoFields),
   Response |->
     Message("CmdGetConnectedPeerInfoResponseMessage",
       [Infos |-> List(GetConnectedPeerInfoMessage), Error |-> Ptr(RPCError)])]
GetCurrentNetwork ==
  [Request |-> Message("CmdGetCurrentNetworkRequestMessage", NoFields),
   Response |->
     Message("CmdGetCurrentNetworkResponseMessage",
       [CurrentNetwork |-> String, Error |-> Ptr(RPCError)])]
GetHeaders ==
  [Request |->
     Message("CmdGetHeadersRequestMessage",
       [StartHash |-> String, Limit |-> Uint64, IsAscending |-> Boolean]),
   Response |->
     Message("CmdGetHeadersResponseMessage", [Headers |-> List(String), Error |-> Ptr(RPCError)])]
GetInfo ==
  [Request |-> Message("CmdGetInfoRequestMessage", NoFields),
   Response |->
     Message("CmdGetInfoResponseMessage",
       [P2PID |-> String, MempoolSize |-> Uint64, ServerVersion |-> String,
        IsUtxoIndexed |-> Boolean, IsSynced |-> Boolean, Error |-> Ptr(RPCError)])]
MempoolEntry == Struct([Fee |-> Uint64, Transaction |-> RPCTransaction, IsOrphan |-> Boolean])
GetMempoolEntries ==
  [Request |->
     Message("CmdGetMempoolEntriesRequestMessage",
       [IncludeOrphanPool |-> Boolean, FilterTransactionPool |-> Boolean]),
   Response |->
     Message("CmdGetMempoolEntriesResponseMessage",
       [Entries |-> List(MempoolEntry), Error |-> Ptr(RPCError)])]
MempoolEntryByAddress ==
  Struct([Address |-> String, Receiving |-> List(MempoolEntry), Sending |-> List(MempoolEntry)])
GetMempoolEntriesByAddresses ==
  [Request |->
     Message("CmdGetMempoolEntriesByAddressesRequestMessage",
       [Addresses |-> List(String), IncludeOrphanPool |-> Boolean, FilterTransactionPool |-> Boolean]),
   Response |->
     Message("CmdGetMempoolEntriesByAddressesResponseMessage",
       [Entries |-> List(MempoolEntryByAddress), Error |-> Ptr(RPCError)])]
GetMempoolEntry ==
  [Request |->
     Message("CmdGetMempoolEntryRequestMessage",
       [TxID |-> String, IncludeOrphanPool |-> Boolean, FilterTransactionPool |-> Boolean]),
   Response |->
     Message("CmdGetMempoolEntryResponseMessage",
       [Entry |-> Ptr(MempoolEntry), Error |-> Ptr(RPCError)])]
GetPeerAddressesKnownAddressMessage == Struct([Addr |-> String])
GetPeerAddresses ==
  [Request |-> Message("CmdGetPeerAddressesRequestMessage", NoFields),
   Response |->
     Message("CmdGetPeerAddressesResponseMessage",
       [Addresses |-> List(GetPeerAddressesKnownAddressMessage),
        BannedAddresses |-> List(GetPeerAddressesKnownAddressMessage), Error |-> Ptr(RPCError)])]
GetSelectedTipHash ==
  [Request |-> Message("CmdGetSelectedTipHashRequestMessage", NoFields),
   Response |->
     Message("CmdGetSelectedTipHashResponseMessage",
       [SelectedTipHash |-> String, Error |-> Ptr(RPCError)])]
GetSubnetwork ==
  [Request |-> Message("CmdGetSubnetworkRequestMessage", [SubnetworkID |-> String]),
   Response |->
     Message("CmdGetSubnetworkResponseMessage", [GasLimit |-> Uint64, Error |-> Ptr(RPCError)])]
RPCUTXOEntry ==
  Struct([Amount |-> Uint64, ScriptPublicKey |-> RPCScriptPublicKey, BlockDAAScore |-> Uint64,
          IsCoinbase |-> Boolean])
UTXOsByAddressesEntry ==
  Struct([Address |-> String, Outpoint |-> RPCOutpoint, UTXOEntry |-> Ptr(RPCUTXOEntry)])
GetUTXOsByAddresses ==
  [Request |-> Message("CmdGetUTXOsByAddressesRequestMessage", [Addresses |-> List(String)]),
   Response |->
     Message("CmdGetUTXOsByAddressesResponseMessage",
       [Entries |-> List(UTXOsByAddressesEntry), Error |-> Ptr(RPCError)])]
GetVirtualSelectedParentBlueScore ==
  [Request |-> Message("CmdGetVirtualSelectedParentBlueScoreRequestMessage", NoFields),
   Response |->
     Message("CmdGetVirtualSelectedParentBlueScoreResponseMessage",
       [BlueScore |-> Uint64, Error |-> Ptr(RPCError)])]
AcceptedTransactionIDs ==
  Struct([AcceptingBlockHash |-> String, AcceptedTransactionIDs |-> List(String)])
GetVirtualSelectedParentChainFromBlock ==
  [Request |->
     Message("CmdGetVirtualSelectedParentChainFromBlockRequestMessage",
       [StartHash |-> String, IncludeAcceptedTransactionIDs |-> Boolean]),
   Response |->
     Message("CmdGetVirtualSelectedParentChainFromBlockResponseMessage",
       [RemovedChainBlockHashes |-> List(String), AddedChainBlockHashes |-> List(String),
        AcceptedTransactionIDs |-> List(AcceptedTransactionIDs), Error |-> Ptr(RPCError)])]
NotifyBlockAdded ==
  [Request |-> Message("CmdNotifyBlockAddedRequestMessage", NoFields),
   Response |-> Message("CmdNotifyBlockAddedResponseMessage", [Error |-> Ptr(RPCError)]),
   BlockAddedNotification |-> Message("CmdBlockAddedNotificationMessage", [Block |-> RPCBlock])]
NotifyFinalityConflicts ==
  [Request |-> Message("CmdNotifyFinalityConflictsRequestMessage", NoFields),
   Response |-> Message("CmdNotifyFinalityConflictsResponseMessage", [Error |-> Ptr(RPCError)]),
   FinalityConflictNotification |->
     Message("CmdFinalityConflictNotificationMessage", [ViolatingBlockHash |-> String]),
   FinalityConflictResolvedNotification |->
     Message("CmdFinalityConflictResolvedNotificationMessage", [FinalityBlockHash |-> String])]
NotifyNewBlockTemplate ==
  [Request |-> Message("CmdNotifyNewBlockTemplateRequestMessage", NoFields),
   Response |-> Message("CmdNotifyNewBlockTemplateResponseMessage", [Error |-> Ptr(RPCError)]),
   NewBlockTemplateNotification |-> Message("CmdNewBlockTemplateNotificationMessage", NoFields)]
NotifyPruningPointUTXOSetOverride ==
  [Request |-> Message("CmdNotifyPruningPointUTXOSetOverrideRequestMessage", NoFields),
   Response |->
     Message("CmdNotifyPruningPointUTXOSetOverrideResponseMessage", [Error |-> Ptr(RPCError)]),
   PruningPointUTXOSetOverrideNotification |->
     Message("CmdPruningPointUTXOSetOverrideNotificationMessage", NoFields),
   StopNotifyingPruningPointUTXOSetOverrideRequest |->
     Message("CmdNotifyPruningPointUTXOSetOverrideRequestMessage", NoFields),
   StopNotifyingPruningPointUTXOSetOverrideResponse |->
     Message("CmdNotifyPruningPointUTXOSetOverrideResponseMessage", [Error |-> Ptr(RPCError)])]
AddedUTXOsByAddressesEntry ==
  Struct([Address |-> String, Outpoint |-> RPCOutpoint, UTXOEntry |-> Ref(RPCUTXOEntry)])
NotifyUTXOsChanged ==
  [Request |-> Message("CmdNotifyUTXOsChangedRequestMessage", [Addresses |-> List(String)]),
   Response |-> Message("CmdNotifyUTXOsChangedResponseMessage", [Error |-> Ptr(RPCError)]),
   UTXOsChangedNotification |->
     Message("CmdUTXOsChangedNotificationMessage",
       [Added |-> List(AddedUTXOsByAddressesEntry), Removed |-> List(UTXOsByAddressesEntry)])]
NotifyVirtualDaaScoreChanged ==
  [Request |-> Message("CmdNotifyVirtualDaaScoreChangedRequestMessage", NoFields),
   Response |->
     Message("CmdNotifyVirtualDaaScoreChangedResponseMessage", [Error |-> Ptr(RPCError)]),
   VirtualDaaScoreChangedNotification |->
     Message("CmdVirtualDaaScoreChangedNotificationMessage", [VirtualDaaScore |-> Uint64])]
NotifyVirtualSelectedParentBlueScoreChanged ==
  [Request |-> Message("CmdNotifyVirtualSelectedParentBlueScoreChangedRequestMessage", NoFields),
   Response |->
     Message("CmdNotifyVirtualSelectedParentBlueScoreChangedResponseMessage",
       [Error |-> Ptr(RPCError)]),
   VirtualSelectedParentBlueScoreChangedNotification |->
     Message("CmdVirtualSelectedParentBlueScoreChangedNotificationMessage",
       [VirtualSelectedParentBlueScore |-> Uint64])]
NotifyVirtualSelectedParentChainChanged ==
  [Request |->
     Message("CmdNotifyVirtualSelectedParentChainChangedRequestMessage",
       [IncludeAcceptedTransactionIDs |-> Boolean]),
   Response |->
     Message("CmdNotifyVirtualSelectedParentChainChangedResponseMessage", [Error |-> Ptr(RPCError)]),
   VirtualSelectedParentChainChangedNotification |->
     Message("CmdVirtualSelectedParentChainChangedNotificationMessage",
       [RemovedChainBlockHashes |-> List(String), AddedChainBlockHashes |-> List(String),
        AcceptedTransactionIDs |-> List(AcceptedTransactionIDs)])]
ResolveFinalityConflict ==
  [Request |-> Message("CmdResolveFinalityConflictRequestMessage", [FinalityBlockHash |-> String]),
   Response |-> Message("CmdResolveFinalityConflictResponseMessage", [Error |-> Ptr(RPCError)])]
ShutDown ==
  [Request |-> Message("CmdShutDownRequestMessage", NoFields),
   Response |-> Message("CmdShutDownResponseMessage", [Error |-> Ptr(RPCError)])]
StopNotifyingUTXOsChanged ==
  [Request |-> Message("CmdStopNotifyingUTXOsChangedRequestMessage", [Addresses |-> List(String)]),
   Response |-> Message("CmdStopNotifyingUTXOsChangedResponseMessage", [Error |-> Ptr(RPCError)])]
SubmitBlock ==
  [Request |->
     Message("CmdSubmitBlockRequestMessage", [Block |-> RPCBlock, AllowNonDAABlocks |-> Boolean]),
   Response |->
     Message("CmdSubmitBlockResponseMessage", [RejectReason |-> Uint64, Error |-> Ptr(RPCError)])]
SubmitTransaction ==
  [Request |->
     Message("CmdSubmitTransactionRequestMessage",
       [Transaction |-> RPCTransaction, AllowOrphan |-> Boolean]),
   Response |->
     Message("CmdSubmitTransactionResponseMessage",
       [TransactionID |-> String, Error |-> Ptr(RPCError)])]
SubmitTransactionReplacement ==
  [Request |->
     Message("CmdSubmitTransactionReplacementRequestMessage", [Transaction |-> RPCTransaction]),
   Response |->
     Message("CmdSubmitTransactionReplacementResponseMessage",
       [TransactionID |-> String, ReplacedTransaction |-> Ref(RPCTransaction),
        Error |-> Ptr(RPCError)])]
Unban ==
  [Request |-> Message("CmdUnbanRequestMessage", [IP |-> String]),
   Response |-> Message("CmdUnbanResponseMessage", [Error |-> Ptr(RPCError)])]
==============================================================================
