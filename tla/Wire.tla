--------------------------------- MODULE Wire ---------------------------------
(***************************************************************************)
(* The conversion between app messages and protobuf messages (package      *)
(* protowire): one codec per message, and one set of payloads per file of  *)
(* converters.                                                             *)
(***************************************************************************)
EXTENDS Codecs

A == INSTANCE AppMessages
P == INSTANCE ProtoMessages

CONSTANTS MaxAddressesPerMsg, MaxBlockLocatorsPerMsg, MaxInvPerTxInvMsg,
          MaxInvPerRequestTransactionsMsg, MaxRequestRelayBlocksHashes

(* A payload of KaspadMessage: its app message and the codec between the two. *)
Payload(name, message, codec) == [name |-> name, message |-> message, codec |-> codec]

(* Common parts (common.go). *)
Hash == Wrap(P!Hash, "Bytes", Id)
TransactionId == Wrap(P!TransactionId, "Bytes", Id)
SubnetworkId == Wrap(P!SubnetworkId, "Bytes", Id)
RPCError == Msg(P!RPCError, Same({"Message"}))

(* The response of a request, with an optional error. *)
Answer(t, fields, alone, need) ==
  Codec(t, [Error |-> F("Error", OptNil(RPCError))] @@ fields, alone, need, NoFields)
Plain(t) == Answer(t, NoFields, NoFields, NoFields)

(* Messages inside messages. *)
AcceptedTransactionIds ==
  Msg(P!AcceptedTransactionIds,
    Same({"AcceptingBlockHash"})
    @@ [AcceptedTransactionIDs |-> F("AcceptedTransactionIds", Copy)])
BalancesByAddressEntry == Msg(P!BalancesByAddressEntry, Same({"Address", "Balance"}))
BluesAnticoneSizes ==
  Msg(P!BluesAnticoneSizes,
    [BlueHash |-> F("BlueHash", Req(Hash)), AnticoneSize |-> F("AnticoneSize", Narrow(MaxUint8))])
GhostdagData ==
  Msg(P!GhostdagData,
    Same({"BlueScore"})
    @@ [BlueWork |-> F("BlueWork", BigIntBytes),
        SelectedParent |-> F("SelectedParent", Req(Hash)),
        MergeSetBlues |-> F("MergeSetBlues", All(Hash)),
        MergeSetReds |-> F("MergeSetReds", All(Hash)),
        BluesAnticoneSizes |-> F("BluesAnticoneSizes", All(BluesAnticoneSizes))])
BlockGhostdagDataHashPair ==
  Msg(P!BlockGhostdagDataHashPair,
    [Hash |-> F("Hash", Req(Hash)), GHOSTDAGData |-> F("GhostdagData", Req(GhostdagData))])
BlockLevelParents == Wrap(P!BlockLevelParents, "ParentHashes", All(Hash))
BlockHeader ==
  Msg(P!BlockHeader,
    Same({"Timestamp", "Bits", "Nonce", "BlueScore"})
    @@ [Version |-> F("Version", Narrow(MaxUint16)),
        Parents |-> F("Parents", All(BlockLevelParents)),
        HashMerkleRoot |-> F("HashMerkleRoot", Req(Hash)),
        AcceptedIDMerkleRoot |-> F("AcceptedIdMerkleRoot", Req(Hash)),
        UTXOCommitment |-> F("UtxoCommitment", Req(Hash)), DAAScore |-> F("DaaScore", Copy),
        BlueWork |-> F("BlueWork", BigIntBytes), PruningPoint |-> F("PruningPoint", Req(Hash))])
Outpoint == Msg(P!Outpoint, Same({"Index"}) @@ [TxID |-> F("TransactionId", Req(TransactionId))])
TransactionInput ==
  Msg(P!TransactionInput,
    Same({"SignatureScript", "Sequence"})
    @@ [PreviousOutpoint |-> F("PreviousOutpoint", Req(Outpoint)),
        SigOpCount |-> F("SigOpCount", Narrow(MaxUint8))])
ScriptPublicKey ==
  Msg(P!ScriptPublicKey,
    Same({"Script"})
    @@ [Version |-> F("Version", Narrow(MaxUint16))])
TransactionOutput ==
  Msg(P!TransactionOutput,
    Same({"Value"})
    @@ [ScriptPubKey |-> F("ScriptPublicKey", Req(ScriptPublicKey))])
TransactionMessage ==
  Msg(P!TransactionMessage,
    Same({"LockTime", "Gas", "Payload"})
    @@ [Version |-> F("Version", Narrow(MaxUint16)), TxIn |-> F("Inputs", All(TransactionInput)),
        TxOut |-> F("Outputs", All(TransactionOutput)),
        SubnetworkID |-> F("SubnetworkId", Req(SubnetworkId))])
BlockMessage ==
  Msg(P!BlockMessage,
    [Header |-> F("Header", Req(BlockHeader)),
     Transactions |-> F("Transactions", All(TransactionMessage))])
DaaBlock ==
  Msg(P!DaaBlock,
    [Block |-> F("Block", Req(BlockMessage)),
     GHOSTDAGData |-> F("GhostdagData", Req(GhostdagData))])
DaaBlockV4 ==
  Msg(P!DaaBlockV4,
    [Header |-> F("Header", Req(BlockHeader)),
     GHOSTDAGData |-> F("GhostdagData", Req(GhostdagData))])
GetConnectedPeerInfoMessage ==
  Msg(P!GetConnectedPeerInfoMessage,
    Same({"Address", "LastPingDuration", "IsOutbound", "TimeOffset", "UserAgent",
          "AdvertisedProtocolVersion"})
    @@ [ID |-> F("Id", Copy),
        TimeConnected |-> [to |-> "TimeConnected", from |-> "TimeOffset", as |-> Copy],
        IsIBDPeer |-> F("IsIbdPeer", Copy)])
GetPeerAddressesKnownAddressMessage == Msg(P!GetPeerAddressesKnownAddressMessage, Same({"Addr"}))
RpcOutpoint == Msg(P!RpcOutpoint, Same({"Index"}) @@ [TransactionID |-> F("TransactionId", Copy)])
RpcTransactionInputVerboseData == Msg(P!RpcTransactionInputVerboseData, NoFields)
RpcTransactionInput ==
  Msg(P!RpcTransactionInput,
    Same({"SignatureScript", "Sequence"})
    @@ [PreviousOutpoint |-> F("PreviousOutpoint", Req(RpcOutpoint)),
        SigOpCount |-> F("SigOpCount", Narrow(MaxUint8)),
        VerboseData |-> F("VerboseData", NeverSent)])
RpcScriptPublicKey ==
  Msg(P!RpcScriptPublicKey,
    [Version |-> F("Version", Narrow(MaxUint16)), Script |-> F("ScriptPublicKey", Copy)])
RpcTransactionOutputVerboseData ==
  Msg(P!RpcTransactionOutputVerboseData,
    Same({"ScriptPublicKeyType", "ScriptPublicKeyAddress"}))
RpcTransactionOutput ==
  Msg(P!RpcTransactionOutput,
    Same({"Amount"})
    @@ [ScriptPublicKey |-> F("ScriptPublicKey", Req(RpcScriptPublicKey)),
        VerboseData |-> F("VerboseData", Opt(RpcTransactionOutputVerboseData))])
RpcTransactionVerboseData ==
  Msg(P!RpcTransactionVerboseData,
    Same({"Hash", "Mass", "BlockHash", "BlockTime"})
    @@ [TransactionID |-> F("TransactionId", Copy)])
RpcTransaction ==
  Msg(P!RpcTransaction,
    Same({"LockTime", "Gas", "Payload"})
    @@ [Version |-> F("Version", Narrow(MaxUint16)),
        Inputs |-> F("Inputs", All(RpcTransactionInput)),
        Outputs |-> F("Outputs", All(RpcTransactionOutput)),
        SubnetworkID |-> F("SubnetworkId", Copy),
        VerboseData |-> F("VerboseData", Opt(RpcTransactionVerboseData))])
MempoolEntry ==
  Msg(P!MempoolEntry,
    Same({"Fee", "IsOrphan"})
    @@ [Transaction |-> F("Transaction", Req(RpcTransaction))])
MempoolEntryByAddress ==
  Msg(P!MempoolEntryByAddress,
    Same({"Address"})
    @@ [Receiving |-> F("Receiving", All(MempoolEntry)),
        Sending |-> F("Sending", All(MempoolEntry))])
NetAddress ==
  Msg(P!NetAddress,
    Same({"Timestamp"})
    @@ [IP |-> F("Ip", Copy), Port |-> F("Port", Narrow(MaxUint16))])
UtxoEntry ==
  Msg(P!UtxoEntry,
    Same({"Amount", "IsCoinbase"})
    @@ [ScriptPublicKey |-> F("ScriptPublicKey", Req(ScriptPublicKey)),
        BlockDAAScore |-> F("BlockDaaScore", Copy)])
OutpointAndUtxoEntryPair ==
  Msg(P!OutpointAndUtxoEntryPair,
    [Outpoint |-> F("Outpoint", Req(Outpoint)), UTXOEntry |-> F("UtxoEntry", Req(UtxoEntry))])
PruningPointProofHeaderArray == Wrap(P!PruningPointProofHeaderArray, "Headers", All(BlockHeader))
RpcBlockLevelParents == Msg(P!RpcBlockLevelParents, Same({"ParentHashes"}))
RpcBlockHeader ==
  Msg(P!RpcBlockHeader,
    Same({"HashMerkleRoot", "Timestamp", "Bits", "Nonce", "BlueScore", "BlueWork",
          "PruningPoint"})
    @@ [Version |-> F("Version", Narrow(MaxUint16)),
        Parents |-> F("Parents", All(RpcBlockLevelParents)),
        AcceptedIDMerkleRoot |-> F("AcceptedIdMerkleRoot", Copy),
        UTXOCommitment |-> F("UtxoCommitment", Copy), DAAScore |-> F("DaaScore", Copy)])
RpcBlockVerboseData ==
  Msg(P!RpcBlockVerboseData,
    Same({"Hash", "Difficulty", "SelectedParentHash", "IsHeaderOnly", "BlueScore",
          "ChildrenHashes", "MergeSetBluesHashes", "MergeSetRedsHashes", "IsChainBlock"})
    @@ [TransactionIDs |-> F("TransactionIds", Copy)])
RpcBlock ==
  Msg(P!RpcBlock,
    [Header |-> F("Header", Req(RpcBlockHeader)),
     Transactions |-> F("Transactions", All(RpcTransaction)),
     VerboseData |-> F("VerboseData", Opt(RpcBlockVerboseData))])
RpcFeerateBucket == Msg(P!RpcFeerateBucket, Same({"Feerate", "EstimatedSeconds"}))
RpcFeeEstimate ==
  Msg(P!RpcFeeEstimate,
    [PriorityBucket |-> F("PriorityBucket", Deref(RpcFeerateBucket)),
     NormalBuckets |-> F("NormalBuckets", All(RpcFeerateBucket)),
     LowBuckets |-> F("LowBuckets", All(RpcFeerateBucket))])
RpcUtxoEntry ==
  Msg(P!RpcUtxoEntry,
    Same({"Amount", "IsCoinbase"})
    @@ [ScriptPublicKey |-> F("ScriptPublicKey", Req(RpcScriptPublicKey)),
        BlockDAAScore |-> F("BlockDaaScore", Copy)])
UtxosByAddressesEntry ==
  Msg(P!UtxosByAddressesEntry,
    Same({"Address"})
    @@ [Outpoint |-> F("Outpoint", Req(RpcOutpoint)),
        UTXOEntry |-> F("UtxoEntry", OptNil(RpcUtxoEntry))])

(* The payloads of the P2P protocol. *)
KaspadMessage_Addresses ==
  Payload("Addresses", A!MsgAddresses,
    Msg(P!AddressesMessage,
      [AddressList |-> F("AddressList", Limited(NetAddress, MaxAddressesPerMsg, "other"))]))
KaspadMessage_Block == Payload("Block", A!MsgBlock, BlockMessage)
KaspadMessage_Transaction == Payload("Transaction", A!MsgTx, TransactionMessage)
KaspadMessage_BlockLocator ==
  Payload("BlockLocator", A!MsgBlockLocator,
    Msg(P!BlockLocatorMessage,
      [BlockLocatorHashes |-> F("Hashes", Limited(Hash, MaxBlockLocatorsPerMsg, "other"))]))
KaspadMessage_RequestAddresses ==
  Payload("RequestAddresses", A!MsgRequestAddresses,
    Msg(P!RequestAddressesMessage,
      Same({"IncludeAllSubnetworks"})
      @@ [SubnetworkID |-> F("SubnetworkId", OptNil(SubnetworkId))]))
KaspadMessage_RequestRelayBlocks ==
  Payload("RequestRelayBlocks", A!MsgRequestRelayBlocks,
    Msg(P!RequestRelayBlocksMessage,
      [Hashes |-> F("Hashes", Limited(Hash, MaxRequestRelayBlocksHashes, "other"))]))
KaspadMessage_RequestTransactions ==
  Payload("RequestTransactions", A!MsgRequestTransactions,
    Msg(P!RequestTransactionsMessage,
      [IDs |-> F("Ids", Limited(TransactionId, MaxInvPerRequestTransactionsMsg, "panic"))]))
KaspadMessage_IbdBlock == Payload("IbdBlock", A!MsgIBDBlock, Embed("MsgBlock", BlockMessage))
KaspadMessage_InvRelayBlock ==
  Payload("InvRelayBlock", A!MsgInvRelayBlock,
    Msg(P!InvRelayBlockMessage, [Hash |-> F("Hash", Req(Hash))]))
KaspadMessage_InvTransactions ==
  Payload("InvTransactions", A!MsgInvTransaction,
    Msg(P!InvTransactionsMessage,
      [TxIDs |-> F("Ids", Limited(TransactionId, MaxInvPerTxInvMsg, "other"))]))
KaspadMessage_Ping == Payload("Ping", A!MsgPing, Msg(P!PingMessage, Same({"Nonce"})))
KaspadMessage_Pong == Payload("Pong", A!MsgPong, Msg(P!PongMessage, Same({"Nonce"})))
KaspadMessage_Verack == Payload("Verack", A!MsgVerAck, Msg(P!VerackMessage, NoFields))
KaspadMessage_Version ==
  Payload("Version", A!MsgVersion,
    Msg(P!VersionMessage,
      Same({"ProtocolVersion", "Network", "Services", "Timestamp", "DisableRelayTx"})
      @@ [Address |-> F("Address", OptNil(NetAddress)), ID |-> F("Id", Id),
          UserAgent |-> F("UserAgent", UserAgent),
          SubnetworkID |-> F("SubnetworkId", OptNil(SubnetworkId))]))
KaspadMessage_TransactionNotFound ==
  Payload("TransactionNotFound", A!MsgTransactionNotFound,
    Msg(P!TransactionNotFoundMessage, [ID |-> F("Id", Req(TransactionId))]))
KaspadMessage_Reject == Payload("Reject", A!MsgReject, Msg(P!RejectMessage, Same({"Reason"})))
KaspadMessage_PruningPointUtxoSetChunk ==
  Payload("PruningPointUtxoSetChunk", A!MsgPruningPointUTXOSetChunk,
    Msg(P!PruningPointUtxoSetChunkMessage,
      [OutpointAndUTXOEntryPairs |-> F("OutpointAndUtxoEntryPairs", All(OutpointAndUtxoEntryPair))]))
KaspadMessage_RequestIBDBlocks ==
  Payload("RequestIBDBlocks", A!MsgRequestIBDBlocks,
    Msg(P!RequestIBDBlocksMessage, [Hashes |-> F("Hashes", All(Hash))]))
KaspadMessage_UnexpectedPruningPoint ==
  Payload("UnexpectedPruningPoint", A!MsgUnexpectedPruningPoint,
    Msg(P!UnexpectedPruningPointMessage, NoFields))
KaspadMessage_IbdBlockLocator ==
  Payload("IbdBlockLocator", A!MsgIBDBlockLocator,
    Msg(P!IbdBlockLocatorMessage,
      [TargetHash |-> F("TargetHash", Req(Hash)),
       BlockLocatorHashes |-> F("BlockLocatorHashes", All(Hash))]))
KaspadMessage_IbdBlockLocatorHighestHash ==
  Payload("IbdBlockLocatorHighestHash", A!MsgIBDBlockLocatorHighestHash,
    Msg(P!IbdBlockLocatorHighestHashMessage, [HighestHash |-> F("HighestHash", Req(Hash))]))
KaspadMessage_RequestNextPruningPointUtxoSetChunk ==
  Payload("RequestNextPruningPointUtxoSetChunk", A!MsgRequestNextPruningPointUTXOSetChunk,
    Msg(P!RequestNextPruningPointUtxoSetChunkMessage, NoFields))
KaspadMessage_DonePruningPointUtxoSetChunks ==
  Payload("DonePruningPointUtxoSetChunks", A!MsgDonePruningPointUTXOSetChunks,
    Msg(P!DonePruningPointUtxoSetChunksMessage, NoFields))
KaspadMessage_IbdBlockLocatorHighestHashNotFound ==
  Payload("IbdBlockLocatorHighestHashNotFound", A!MsgIBDBlockLocatorHighestHashNotFound,
    Msg(P!IbdBlockLocatorHighestHashNotFoundMessage, NoFields))
KaspadMessage_BlockWithTrustedData ==
  Payload("BlockWithTrustedData", A!MsgBlockWithTrustedData,
    Msg(P!BlockWithTrustedDataMessage,
      [Block |-> F("Block", Req(BlockMessage)), DAAScore |-> F("DaaScore", Copy),
       DAAWindow |-> F("DaaWindow", All(DaaBlock)),
       GHOSTDAGData |-> F("GhostdagData", All(BlockGhostdagDataHashPair))]))
KaspadMessage_DoneBlocksWithTrustedData ==
  Payload("DoneBlocksWithTrustedData", A!MsgDoneBlocksWithTrustedData,
    Msg(P!DoneBlocksWithTrustedDataMessage, NoFields))
KaspadMessage_RequestPruningPointAndItsAnticone ==
  Payload("RequestPruningPointAndItsAnticone", A!MsgRequestPruningPointAndItsAnticone,
    Msg(P!RequestPruningPointAndItsAnticoneMessage, NoFields))
KaspadMessage_BlockHeaders ==
  Payload("BlockHeaders", A!BlockHeadersMessage,
    Msg(P!BlockHeadersMessage, [BlockHeaders |-> F("BlockHeaders", All(BlockHeader))]))
KaspadMessage_RequestNextHeaders ==
  Payload("RequestNextHeaders", A!MsgRequestNextHeaders,
    Msg(P!RequestNextHeadersMessage, NoFields))
KaspadMessage_DoneHeaders ==
  Payload("DoneHeaders", A!MsgDoneHeaders, Msg(P!DoneHeadersMessage, NoFields))
KaspadMessage_RequestPruningPointUTXOSet ==
  Payload("RequestPruningPointUTXOSet", A!MsgRequestPruningPointUTXOSet,
    Msg(P!RequestPruningPointUTXOSetMessage,
      [PruningPointHash |-> F("PruningPointHash", Req(Hash))]))
KaspadMessage_RequestHeaders ==
  Payload("RequestHeaders", A!MsgRequestHeaders,
    Msg(P!RequestHeadersMessage,
      [LowHash |-> F("LowHash", Req(Hash)), HighHash |-> F("HighHash", Req(Hash))]))
KaspadMessage_RequestBlockLocator ==
  Payload("RequestBlockLocator", A!MsgRequestBlockLocator,
    Msg(P!RequestBlockLocatorMessage,
      Same({"Limit"})
      @@ [HighHash |-> F("HighHash", Req(Hash))]))
KaspadMessage_PruningPoints ==
  Payload("PruningPoints", A!MsgPruningPoints,
    Msg(P!PruningPointsMessage, [Headers |-> F("Headers", All(BlockHeader))]))
KaspadMessage_RequestPruningPointProof ==
  Payload("RequestPruningPointProof", A!MsgRequestPruningPointProof,
    Msg(P!RequestPruningPointProofMessage, NoFields))
KaspadMessage_PruningPointProof ==
  Payload("PruningPointProof", A!MsgPruningPointProof,
    Msg(P!PruningPointProofMessage,
      [Headers |-> F("Headers", All(PruningPointProofHeaderArray))]))
KaspadMessage_Ready == Payload("Ready", A!MsgReady, Msg(P!ReadyMessage, NoFields))
KaspadMessage_BlockWithTrustedDataV4 ==
  Payload("BlockWithTrustedDataV4", A!MsgBlockWithTrustedDataV4,
    Msg(P!BlockWithTrustedDataV4Message,
      [Block |-> F("Block", Req(BlockMessage)), DAAWindowIndices |-> F("DaaWindowIndices", Copy),
       GHOSTDAGDataIndices |-> F("GhostdagDataIndices", Copy)]))
KaspadMessage_TrustedData ==
  Payload("TrustedData", A!MsgTrustedData,
    Msg(P!TrustedDataMessage,
      [DAAWindow |-> F("DaaWindow", All(DaaBlockV4)),
       GHOSTDAGData |-> F("GhostdagData", All(BlockGhostdagDataHashPair))]))
KaspadMessage_RequestIBDChainBlockLocator ==
  Payload("RequestIBDChainBlockLocator", A!MsgRequestIBDChainBlockLocator,
    Msg(P!RequestIBDChainBlockLocatorMessage,
      [HighHash |-> F("HighHash", Opt(Hash)), LowHash |-> F("LowHash", Opt(Hash))]))
KaspadMessage_IbdChainBlockLocator ==
  Payload("IbdChainBlockLocator", A!MsgIBDChainBlockLocator,
    Msg(P!IbdChainBlockLocatorMessage,
      [BlockLocatorHashes |-> F("BlockLocatorHashes", All(Hash))]))
KaspadMessage_RequestAnticone ==
  Payload("RequestAnticone", A!MsgRequestAnticone,
    Msg(P!RequestAnticoneMessage,
      [BlockHash |-> F("BlockHash", Req(Hash)), ContextHash |-> F("ContextHash", Req(Hash))]))
KaspadMessage_RequestNextPruningPointAndItsAnticoneBlocks ==
  Payload("RequestNextPruningPointAndItsAnticoneBlocks",
          A!MsgRequestNextPruningPointAndItsAnticoneBlocks,
    Msg(P!RequestNextPruningPointAndItsAnticoneBlocksMessage, NoFields))

(* The payloads of the RPC protocol. *)
KaspadMessage_GetCurrentNetwork ==
  {Payload("GetCurrentNetworkRequest", A!GetCurrentNetwork.Request,
     Msg(P!GetCurrentNetwork.Request, NoFields)),
   Payload("GetCurrentNetworkResponse", A!GetCurrentNetwork.Response,
     Answer(P!GetCurrentNetwork.Response,
       Same({"CurrentNetwork"}),
       [CurrentNetwork |-> 0], NoFields))}
KaspadMessage_SubmitBlock ==
  {Payload("SubmitBlockRequest", A!SubmitBlock.Request,
     Msg(P!SubmitBlock.Request,
       Same({"AllowNonDAABlocks"})
       @@ [Block |-> F("Block", Req(RpcBlock))])),
   Payload("SubmitBlockResponse", A!SubmitBlock.Response,
     Answer(P!SubmitBlock.Response, Same({"RejectReason"}), NoFields, NoFields))}
KaspadMessage_GetBlockTemplate ==
  {Payload("GetBlockTemplateRequest", A!GetBlockTemplate.Request,
     Msg(P!GetBlockTemplate.Request, Same({"PayAddress", "ExtraData"}))),
   Payload("GetBlockTemplateResponse", A!GetBlockTemplate.Response,
     Answer(P!GetBlockTemplate.Response,
       Same({"IsSynced"})
       @@ [Block |-> F("Block", Opt(RpcBlock))],
       NoFields, NoFields))}
KaspadMessage_NotifyBlockAdded ==
  {Payload("NotifyBlockAddedRequest", A!NotifyBlockAdded.Request,
     Msg(P!NotifyBlockAdded.Request, NoFields)),
   Payload("NotifyBlockAddedResponse", A!NotifyBlockAdded.Response,
     Plain(P!NotifyBlockAdded.Response)),
   Payload("BlockAddedNotification", A!NotifyBlockAdded.BlockAddedNotification,
     Msg(P!NotifyBlockAdded.BlockAddedNotification, [Block |-> F("Block", Req(RpcBlock))]))}
KaspadMessage_GetPeerAddresses ==
  {Payload("GetPeerAddressesRequest", A!GetPeerAddresses.Request,
     Msg(P!GetPeerAddresses.Request, NoFields)),
   Payload("GetPeerAddressesResponse", A!GetPeerAddresses.Response,
     Answer(P!GetPeerAddresses.Response,
       [Addresses |-> F("Addresses", All(GetPeerAddressesKnownAddressMessage)),
        BannedAddresses |-> F("BannedAddresses", All(GetPeerAddressesKnownAddressMessage))],
       [Addresses |-> <<>>, BannedAddresses |-> <<>>], NoFields))}
KaspadMessage_GetSelectedTipHash ==
  {Payload("GetSelectedTipHashRequest", A!GetSelectedTipHash.Request,
     Msg(P!GetSelectedTipHash.Request, NoFields)),
   Payload("GetSelectedTipHashResponse", A!GetSelectedTipHash.Response,
     Answer(P!GetSelectedTipHash.Response,
       Same({"SelectedTipHash"}),
       [SelectedTipHash |-> 0], NoFields))}
KaspadMessage_GetMempoolEntry ==
  {Payload("GetMempoolEntryRequest", A!GetMempoolEntry.Request,
     Msg(P!GetMempoolEntry.Request,
       Same({"IncludeOrphanPool", "FilterTransactionPool"})
       @@ [TxID |-> F("TxId", Copy)])),
   Payload("GetMempoolEntryResponse", A!GetMempoolEntry.Response,
     Answer(P!GetMempoolEntry.Response,
       [Entry |-> F("Entry", OptNil(MempoolEntry))],
       [Entry |-> <<>>], NoFields))}
KaspadMessage_GetConnectedPeerInfo ==
  {Payload("GetConnectedPeerInfoRequest", A!GetConnectedPeerInfo.Request,
     Msg(P!GetConnectedPeerInfo.Request, NoFields)),
   Payload("GetConnectedPeerInfoResponse", A!GetConnectedPeerInfo.Response,
     Answer(P!GetConnectedPeerInfo.Response,
       [Infos |-> F("Infos", All(GetConnectedPeerInfoMessage))],
       [Infos |-> <<>>], NoFields))}
KaspadMessage_AddPeer ==
  {Payload("AddPeerRequest", A!AddPeer.Request,
     Msg(P!AddPeer.Request, Same({"Address", "IsPermanent"}))),
   Payload("AddPeerResponse", A!AddPeer.Response, Plain(P!AddPeer.Response))}
KaspadMessage_SubmitTransaction ==
  {Payload("SubmitTransactionRequest", A!SubmitTransaction.Request,
     Msg(P!SubmitTransaction.Request,
       Same({"AllowOrphan"})
       @@ [Transaction |-> F("Transaction", Req(RpcTransaction))])),
   Payload("SubmitTransactionResponse", A!SubmitTransaction.Response,
     Answer(P!SubmitTransaction.Response,
       [TransactionID |-> F("TransactionId", Copy)],
       NoFields, NoFields))}
KaspadMessage_NotifyVirtualSelectedParentChainChanged ==
  {Payload("NotifyVirtualSelectedParentChainChangedRequest",
           A!NotifyVirtualSelectedParentChainChanged.Request,
     Msg(P!NotifyVirtualSelectedParentChainChanged.Request,
       [IncludeAcceptedTransactionIDs |-> F("IncludeAcceptedTransactionIds", Copy)])),
   Payload("NotifyVirtualSelectedParentChainChangedResponse",
           A!NotifyVirtualSelectedParentChainChanged.Response,
     Plain(P!NotifyVirtualSelectedParentChainChanged.Response)),
   Payload("VirtualSelectedParentChainChangedNotification",
           A!NotifyVirtualSelectedParentChainChanged.VirtualSelectedParentChainChangedNotification,
     Msg(P!NotifyVirtualSelectedParentChainChanged.VirtualSelectedParentChainChangedNotification,
       Same({"RemovedChainBlockHashes", "AddedChainBlockHashes"})
       @@ [AcceptedTransactionIDs |-> F("AcceptedTransactionIds", All(AcceptedTransactionIds))]))}
KaspadMessage_GetBlock ==
  {Payload("GetBlockRequest", A!GetBlock.Request,
     Msg(P!GetBlock.Request, Same({"Hash", "IncludeTransactions"}))),
   Payload("GetBlockResponse", A!GetBlock.Response,
     Answer(P!GetBlock.Response,
       [Block |-> F("Block", Opt(RpcBlock))],
       NoFields, [Block |-> "refuse"]))}
KaspadMessage_GetSubnetwork ==
  {Payload("GetSubnetworkRequest", A!GetSubnetwork.Request,
     Msg(P!GetSubnetwork.Request, [SubnetworkID |-> F("SubnetworkId", Copy)])),
   Payload("GetSubnetworkResponse", A!GetSubnetwork.Response,
     Answer(P!GetSubnetwork.Response, Same({"GasLimit"}), [GasLimit |-> 0], NoFields))}
KaspadMessage_GetVirtualSelectedParentChainFromBlock ==
  {Payload("GetVirtualSelectedParentChainFromBlockRequest",
           A!GetVirtualSelectedParentChainFromBlock.Request,
     Msg(P!GetVirtualSelectedParentChainFromBlock.Request,
       Same({"StartHash"})
       @@ [IncludeAcceptedTransactionIDs |-> F("IncludeAcceptedTransactionIds", Copy)])),
   Payload("GetVirtualSelectedParentChainFromBlockResponse",
           A!GetVirtualSelectedParentChainFromBlock.Response,
     Answer(P!GetVirtualSelectedParentChainFromBlock.Response,
       Same({"RemovedChainBlockHashes", "AddedChainBlockHashes"})
       @@ [AcceptedTransactionIDs |-> F("AcceptedTransactionIds", All(AcceptedTransactionIds))],
       [AddedChainBlockHashes |-> <<>>, RemovedChainBlockHashes |-> <<>>], NoFields))}
KaspadMessage_GetBlocks ==
  {Payload("GetBlocksRequest", A!GetBlocks.Request,
     Msg(P!GetBlocks.Request, Same({"LowHash", "IncludeBlocks", "IncludeTransactions"}))),
   Payload("GetBlocksResponse", A!GetBlocks.Response,
     Answer(P!GetBlocks.Response,
       Same({"BlockHashes"})
       @@ [Blocks |-> F("Blocks", All(RpcBlock))],
       [Blocks |-> <<>>], NoFields))}
KaspadMessage_GetBlockCount ==
  {Payload("GetBlockCountRequest", A!GetBlockCount.Request,
     Msg(P!GetBlockCount.Request, NoFields)),
   Payload("GetBlockCountResponse", A!GetBlockCount.Response,
     Answer(P!GetBlockCount.Response,
       Same({"BlockCount", "HeaderCount"}),
       [BlockCount |-> 0, HeaderCount |-> 0], NoFields))}
KaspadMessage_GetBlockDagInfo ==
  {Payload("GetBlockDagInfoRequest", A!GetBlockDAGInfo.Request,
     Msg(P!GetBlockDagInfo.Request, NoFields)),
   Payload("GetBlockDagInfoResponse", A!GetBlockDAGInfo.Response,
     Answer(P!GetBlockDagInfo.Response,
       Same({"NetworkName", "BlockCount", "HeaderCount", "TipHashes", "VirtualParentHashes",
             "Difficulty", "PastMedianTime", "PruningPointHash"})
       @@ [VirtualDAAScore |-> F("VirtualDaaScore", Copy)],
       [NetworkName |-> 0, BlockCount |-> 0, HeaderCount |-> 0, TipHashes |-> <<>>,
        VirtualParentHashes |-> <<>>, Difficulty |-> 0, PastMedianTime |-> 0,
        PruningPointHash |-> 0], NoFields))}
KaspadMessage_ResolveFinalityConflict ==
  {Payload("ResolveFinalityConflictRequest", A!ResolveFinalityConflict.Request,
     Msg(P!ResolveFinalityConflict.Request, Same({"FinalityBlockHash"}))),
   Payload("ResolveFinalityConflictResponse", A!ResolveFinalityConflict.Response,
     Plain(P!ResolveFinalityConflict.Response))}
KaspadMessage_NotifyFinalityConflicts ==
  {Payload("NotifyFinalityConflictsRequest", A!NotifyFinalityConflicts.Request,
     Msg(P!NotifyFinalityConflicts.Request, NoFields)),
   Payload("NotifyFinalityConflictsResponse", A!NotifyFinalityConflicts.Response,
     Plain(P!NotifyFinalityConflicts.Response)),
   Payload("FinalityConflictNotification", A!NotifyFinalityConflicts.FinalityConflictNotification,
     Msg(P!NotifyFinalityConflicts.FinalityConflictNotification, Same({"ViolatingBlockHash"}))),
   Payload("FinalityConflictResolvedNotification", A!NotifyFinalityConflicts.FinalityConflictResolvedNotification,
     Msg(P!NotifyFinalityConflicts.FinalityConflictResolvedNotification, Same({"FinalityBlockHash"})))}
KaspadMessage_GetMempoolEntries ==
  {Payload("GetMempoolEntriesRequest", A!GetMempoolEntries.Request,
     Msg(P!GetMempoolEntries.Request,
       Same({"IncludeOrphanPool", "FilterTransactionPool"}))),
   Payload("GetMempoolEntriesResponse", A!GetMempoolEntries.Response,
     Answer(P!GetMempoolEntries.Response,
       [Entries |-> F("Entries", All(MempoolEntry))],
       [Entries |-> <<>>], NoFields))}
KaspadMessage_ShutDown ==
  {Payload("ShutDownRequest", A!ShutDown.Request, Msg(P!ShutDown.Request, NoFields)),
   Payload("ShutDownResponse", A!ShutDown.Response, Plain(P!ShutDown.Response))}
KaspadMessage_GetHeaders ==
  {Payload("GetHeadersRequest", A!GetHeaders.Request,
     Msg(P!GetHeaders.Request, Same({"StartHash", "Limit", "IsAscending"}))),
   Payload("GetHeadersResponse", A!GetHeaders.Response,
     Answer(P!GetHeaders.Response, Same({"Headers"}), [Headers |-> <<>>], NoFields))}
KaspadMessage_NotifyUtxosChanged ==
  {Payload("NotifyUtxosChangedRequest", A!NotifyUTXOsChanged.Request,
     Msg(P!NotifyUtxosChanged.Request, Same({"Addresses"}))),
   Payload("NotifyUtxosChangedResponse", A!NotifyUTXOsChanged.Response,
     Plain(P!NotifyUtxosChanged.Response)),
   Payload("UtxosChangedNotification", A!NotifyUTXOsChanged.UTXOsChangedNotification,
     Msg(P!NotifyUtxosChanged.UtxosChangedNotification,
       [Added |-> F("Added", All(UtxosByAddressesEntry)),
        Removed |-> F("Removed", All(UtxosByAddressesEntry))]))}
KaspadMessage_GetUtxosByAddresses ==
  {Payload("GetUtxosByAddressesRequest", A!GetUTXOsByAddresses.Request,
     Msg(P!GetUtxosByAddresses.Request, Same({"Addresses"}))),
   Payload("GetUtxosByAddressesResponse", A!GetUTXOsByAddresses.Response,
     Answer(P!GetUtxosByAddresses.Response,
       [Entries |-> F("Entries", All(UtxosByAddressesEntry))],
       [Entries |-> <<>>], NoFields))}
KaspadMessage_GetVirtualSelectedParentBlueScore ==
  {Payload("GetVirtualSelectedParentBlueScoreRequest",
           A!GetVirtualSelectedParentBlueScore.Request,
     Msg(P!GetVirtualSelectedParentBlueScore.Request, NoFields)),
   Payload("GetVirtualSelectedParentBlueScoreResponse",
           A!GetVirtualSelectedParentBlueScore.Response,
     Answer(P!GetVirtualSelectedParentBlueScore.Response,
       Same({"BlueScore"}),
       [BlueScore |-> 0], NoFields))}
KaspadMessage_NotifyVirtualSelectedParentBlueScoreChanged ==
  {Payload("NotifyVirtualSelectedParentBlueScoreChangedRequest",
           A!NotifyVirtualSelectedParentBlueScoreChanged.Request,
     Msg(P!NotifyVirtualSelectedParentBlueScoreChanged.Request, NoFields)),
   Payload("NotifyVirtualSelectedParentBlueScoreChangedResponse",
           A!NotifyVirtualSelectedParentBlueScoreChanged.Response,
     Plain(P!NotifyVirtualSelectedParentBlueScoreChanged.Response)),
   Payload("VirtualSelectedParentBlueScoreChangedNotification",
           A!NotifyVirtualSelectedParentBlueScoreChanged.VirtualSelectedParentBlueScoreChangedNotification,
     Msg(P!NotifyVirtualSelectedParentBlueScoreChanged.VirtualSelectedParentBlueScoreChangedNotification,
       Same({"VirtualSelectedParentBlueScore"})))}
KaspadMessage_Ban ==
  {Payload("BanRequest", A!Ban.Request, Msg(P!Ban.Request, [IP |-> F("Ip", Copy)])),
   Payload("BanResponse", A!Ban.Response, Plain(P!Ban.Response))}
KaspadMessage_Unban ==
  {Payload("UnbanRequest", A!Unban.Request,
     Msg(P!Unban.Request, [IP |-> F("Ip", Copy)])),
   Payload("UnbanResponse", A!Unban.Response, Plain(P!Unban.Response))}
KaspadMessage_GetInfo ==
  {Payload("GetInfoRequest", A!GetInfo.Request, Msg(P!GetInfo.Request, NoFields)),
   Payload("GetInfoResponse", A!GetInfo.Response,
     Answer(P!GetInfo.Response,
       Same({"MempoolSize", "ServerVersion", "IsUtxoIndexed", "IsSynced"})
       @@ [P2PID |-> F("P2PId", Copy)],
       [P2PID |-> 0], NoFields))}
KaspadMessage_StopNotifyingUtxosChanged ==
  {Payload("StopNotifyingUtxosChangedRequest", A!StopNotifyingUTXOsChanged.Request,
     Msg(P!StopNotifyingUtxosChanged.Request, Same({"Addresses"}))),
   Payload("StopNotifyingUtxosChangedResponse", A!StopNotifyingUTXOsChanged.Response,
     Plain(P!StopNotifyingUtxosChanged.Response))}
KaspadMessage_NotifyPruningPointUTXOSetOverride ==
  {Payload("NotifyPruningPointUTXOSetOverrideRequest",
           A!NotifyPruningPointUTXOSetOverride.Request,
     Msg(P!NotifyPruningPointUTXOSetOverride.Request, NoFields)),
   Payload("NotifyPruningPointUTXOSetOverrideResponse",
           A!NotifyPruningPointUTXOSetOverride.Response,
     Plain(P!NotifyPruningPointUTXOSetOverride.Response)),
   Payload("PruningPointUTXOSetOverrideNotification",
           A!NotifyPruningPointUTXOSetOverride.PruningPointUTXOSetOverrideNotification,
     Msg(P!NotifyPruningPointUTXOSetOverride.PruningPointUTXOSetOverrideNotification, NoFields)),
   Payload("StopNotifyingPruningPointUTXOSetOverrideRequest",
           A!NotifyPruningPointUTXOSetOverride.StopNotifyingPruningPointUTXOSetOverrideRequest,
     Msg(P!NotifyPruningPointUTXOSetOverride.StopNotifyingPruningPointUTXOSetOverrideRequest, NoFields)),
   Payload("StopNotifyingPruningPointUTXOSetOverrideResponse",
           A!NotifyPruningPointUTXOSetOverride.StopNotifyingPruningPointUTXOSetOverrideResponse,
     Plain(P!NotifyPruningPointUTXOSetOverride.StopNotifyingPruningPointUTXOSetOverrideResponse))}
KaspadMessage_EstimateNetworkHashesPerSecond ==
  {Payload("EstimateNetworkHashesPerSecondRequest",
           A!EstimateNetworkHashesPerSecond.Request,
     Msg(P!EstimateNetworkHashesPerSecond.Request, Same({"StartHash", "WindowSize"}))),
   Payload("EstimateNetworkHashesPerSecondResponse",
           A!EstimateNetworkHashesPerSecond.Response,
     Answer(P!EstimateNetworkHashesPerSecond.Response,
       Same({"NetworkHashesPerSecond"}),
       [NetworkHashesPerSecond |-> 0], NoFields))}
KaspadMessage_NotifyVirtualDaaScoreChanged ==
  {Payload("NotifyVirtualDaaScoreChangedRequest", A!NotifyVirtualDaaScoreChanged.Request,
     Msg(P!NotifyVirtualDaaScoreChanged.Request, NoFields)),
   Payload("NotifyVirtualDaaScoreChangedResponse", A!NotifyVirtualDaaScoreChanged.Response,
     Plain(P!NotifyVirtualDaaScoreChanged.Response)),
   Payload("VirtualDaaScoreChangedNotification", A!NotifyVirtualDaaScoreChanged.VirtualDaaScoreChangedNotification,
     Msg(P!NotifyVirtualDaaScoreChanged.VirtualDaaScoreChangedNotification, Same({"VirtualDaaScore"})))}
KaspadMessage_GetBalanceByAddress ==
  {Payload("GetBalanceByAddressRequest", A!GetBalanceByAddress.Request,
     Msg(P!GetBalanceByAddress.Request, Same({"Address"}))),
   Payload("GetBalanceByAddressResponse", A!GetBalanceByAddress.Response,
     Answer(P!GetBalanceByAddress.Response, Same({"Balance"}), [Balance |-> 1], NoFields))}
KaspadMessage_GetBalancesByAddresses ==
  {Payload("GetBalancesByAddressesRequest", A!GetBalancesByAddresses.Request,
     Msg(P!GetBalancesByAddresses.Request, Same({"Addresses"}))),
   Payload("GetBalancesByAddressesResponse", A!GetBalancesByAddresses.Response,
     Answer(P!GetBalancesByAddresses.Response,
       [Entries |-> F("Entries", All(BalancesByAddressEntry))],
       [Entries |-> <<>>], NoFields))}
KaspadMessage_NotifyNewBlockTemplate ==
  {Payload("NotifyNewBlockTemplateRequest", A!NotifyNewBlockTemplate.Request,
     Msg(P!NotifyNewBlockTemplate.Request, NoFields)),
   Payload("NotifyNewBlockTemplateResponse", A!NotifyNewBlockTemplate.Response,
     Plain(P!NotifyNewBlockTemplate.Response)),
   Payload("NewBlockTemplateNotification", A!NotifyNewBlockTemplate.NewBlockTemplateNotification,
     Msg(P!NotifyNewBlockTemplate.NewBlockTemplateNotification, NoFields))}
KaspadMessage_GetMempoolEntriesByAddresses ==
  {Payload("GetMempoolEntriesByAddressesRequest", A!GetMempoolEntriesByAddresses.Request,
     Msg(P!GetMempoolEntriesByAddresses.Request,
       Same({"Addresses", "IncludeOrphanPool", "FilterTransactionPool"}))),
   Payload("GetMempoolEntriesByAddressesResponse", A!GetMempoolEntriesByAddresses.Response,
     Answer(P!GetMempoolEntriesByAddresses.Response,
       [Entries |-> F("Entries", All(MempoolEntryByAddress))],
       [Entries |-> <<>>], NoFields))}
KaspadMessage_GetCoinSupply ==
  {Payload("GetCoinSupplyRequest", A!GetCoinSupply.Request,
     Msg(P!GetCoinSupply.Request, NoFields)),
   Payload("GetCoinSupplyResponse", A!GetCoinSupply.Response,
     Answer(P!GetCoinSupply.Response,
       Same({"MaxSompi", "CirculatingSompi"}),
       NoFields, NoFields))}
KaspadMessage_SubmitTransactionReplacement ==
  {Payload("SubmitTransactionReplacementRequest", A!SubmitTransactionReplacement.Request,
     Msg(P!SubmitTransactionReplacement.Request,
       [Transaction |-> F("Transaction", Req(RpcTransaction))])),
   Payload("SubmitTransactionReplacementResponse", A!SubmitTransactionReplacement.Response,
     Answer(P!SubmitTransactionReplacement.Response,
       [TransactionID |-> F("TransactionId", Copy),
        ReplacedTransaction |-> F("ReplacedTransaction", Filled(RpcTransaction, P!RpcTransaction))],
       NoFields, [ReplacedTransaction |-> "ignore"]))}
KaspadMessage_GetFeeEstimate ==
  {Payload("GetFeeEstimateRequest", A!GetFeeEstimate.Request,
     Msg(P!GetFeeEstimate.Request, NoFields)),
   Payload("GetFeeEstimateResponse", A!GetFeeEstimate.Response,
     Answer(P!GetFeeEstimate.Response,
       [Estimate |-> F("Estimate", Req(RpcFeeEstimate))],
       NoFields, NoFields))}

(* The converters of the RPC messages, and the messages among them that can be read but  *)
(* that the type switch of wire.go does not know.                                         *)
RPCPayloads ==
  UNION {KaspadMessage_GetCurrentNetwork, KaspadMessage_SubmitBlock,
         KaspadMessage_GetBlockTemplate, KaspadMessage_NotifyBlockAdded,
         KaspadMessage_GetPeerAddresses, KaspadMessage_GetSelectedTipHash,
         KaspadMessage_GetMempoolEntry, KaspadMessage_GetConnectedPeerInfo,
         KaspadMessage_AddPeer, KaspadMessage_SubmitTransaction,
         KaspadMessage_NotifyVirtualSelectedParentChainChanged, KaspadMessage_GetBlock,
         KaspadMessage_GetSubnetwork, KaspadMessage_GetVirtualSelectedParentChainFromBlock,
         KaspadMessage_GetBlocks, KaspadMessage_GetBlockCount, KaspadMessage_GetBlockDagInfo,
         KaspadMessage_ResolveFinalityConflict, KaspadMessage_NotifyFinalityConflicts,
         KaspadMessage_GetMempoolEntries, KaspadMessage_ShutDown, KaspadMessage_GetHeaders,
         KaspadMessage_NotifyUtxosChanged, KaspadMessage_GetUtxosByAddresses,
         KaspadMessage_GetVirtualSelectedParentBlueScore,
         KaspadMessage_NotifyVirtualSelectedParentBlueScoreChanged, KaspadMessage_Ban,
         KaspadMessage_Unban, KaspadMessage_GetInfo, KaspadMessage_StopNotifyingUtxosChanged,
         KaspadMessage_NotifyPruningPointUTXOSetOverride,
         KaspadMessage_EstimateNetworkHashesPerSecond,
         KaspadMessage_NotifyVirtualDaaScoreChanged, KaspadMessage_GetBalanceByAddress,
         KaspadMessage_GetBalancesByAddresses, KaspadMessage_NotifyNewBlockTemplate,
         KaspadMessage_GetMempoolEntriesByAddresses, KaspadMessage_GetCoinSupply,
         KaspadMessage_SubmitTransactionReplacement, KaspadMessage_GetFeeEstimate}
DecodeOnly == {"GetFeeEstimateResponse", "StopNotifyingPruningPointUTXOSetOverrideResponse"}

(* The app messages the type switches of wire.go know. *)
toP2PPayload == {
  KaspadMessage_Addresses, KaspadMessage_Block, KaspadMessage_Transaction,
  KaspadMessage_BlockLocator, KaspadMessage_RequestAddresses, KaspadMessage_RequestRelayBlocks,
  KaspadMessage_RequestTransactions, KaspadMessage_IbdBlock, KaspadMessage_InvRelayBlock,
  KaspadMessage_InvTransactions, KaspadMessage_Ping, KaspadMessage_Pong, KaspadMessage_Verack,
  KaspadMessage_Version, KaspadMessage_TransactionNotFound, KaspadMessage_Reject,
  KaspadMessage_PruningPointUtxoSetChunk, KaspadMessage_RequestIBDBlocks,
  KaspadMessage_UnexpectedPruningPoint, KaspadMessage_IbdBlockLocator,
  KaspadMessage_IbdBlockLocatorHighestHash, KaspadMessage_RequestNextPruningPointUtxoSetChunk,
  KaspadMessage_DonePruningPointUtxoSetChunks, KaspadMessage_IbdBlockLocatorHighestHashNotFound,
  KaspadMessage_BlockWithTrustedData, KaspadMessage_DoneBlocksWithTrustedData,
  KaspadMessage_RequestPruningPointAndItsAnticone, KaspadMessage_BlockHeaders,
  KaspadMessage_RequestNextHeaders, KaspadMessage_DoneHeaders,
  KaspadMessage_RequestPruningPointUTXOSet, KaspadMessage_RequestHeaders,
  KaspadMessage_RequestBlockLocator, KaspadMessage_PruningPoints,
  KaspadMessage_RequestPruningPointProof, KaspadMessage_PruningPointProof, KaspadMessage_Ready,
  KaspadMessage_BlockWithTrustedDataV4, KaspadMessage_TrustedData,
  KaspadMessage_RequestIBDChainBlockLocator, KaspadMessage_IbdChainBlockLocator,
  KaspadMessage_RequestAnticone, KaspadMessage_RequestNextPruningPointAndItsAnticoneBlocks}
toRPCPayload == {p \in RPCPayloads : p.name \notin DecodeOnly}
==============================================================================
