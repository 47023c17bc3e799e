---------------------------- MODULE ProtoMessages ----------------------------
(***************************************************************************)
(* The protobuf messages the converters of package protowire read and      *)
(* fill.  A definition stands for a generated struct with the methods      *)
(* generated for it: Reset leaves the zero of its type, and a getter reads *)
(* a field, or the zero of its type from a message that is nil.  The       *)
(* messages of one RPC are the fields of one record.  A message field is a *)
(* pointer that is nil when the sender left it out.                        *)
(***************************************************************************)
EXTENDS MessageTypes

SubnetworkId == Struct([Bytes |-> Bytes])
RequestAddressesMessage ==
  Struct([IncludeAllSubnetworks |-> Boolean, SubnetworkId |-> Ptr(SubnetworkId)])
NetAddress == Struct([Timestamp |-> Int64, Ip |-> Bytes, Port |-> Uint32])
AddressesMessage == Struct([AddressList |-> List(NetAddress)])
TransactionId == Struct([Bytes |-> Bytes])
Outpoint == Struct([TransactionId |-> Ptr(TransactionId), Index |-> Uint32])
TransactionInput ==
  Struct([PreviousOutpoint |-> Ptr(Outpoint), SignatureScript |-> Bytes, Sequence |-> Uint64,
          SigOpCount |-> Uint32])
ScriptPublicKey == Struct([Script |-> Bytes, Version |-> Uint32])
TransactionOutput == Struct([Value |-> Uint64, ScriptPublicKey |-> Ptr(ScriptPublicKey)])
TransactionMessage ==
  Struct([Version |-> Uint32, Inputs |-> List(TransactionInput),
          Outputs |-> List(TransactionOutput), LockTime |-> Uint64,
          SubnetworkId |-> Ptr(SubnetworkId), Gas |-> Uint64, Payload |-> Bytes])
Hash == Struct([Bytes |-> Bytes])
BlockLevelParents == Struct([ParentHashes |-> List(Hash)])
BlockHeader ==
  Struct([Version |-> Uint32, Parents |-> List(BlockLevelParents), HashMerkleRoot |-> Ptr(Hash),
          AcceptedIdMerkleRoot |-> Ptr(Hash), UtxoCommitment |-> Ptr(Hash), Timestamp |-> Int64,
          Bits |-> Uint32, Nonce |-> Uint64, DaaScore |-> Uint64, BlueWork |-> Bytes,
          PruningPoint |-> Ptr(Hash), BlueScore |-> Uint64])
BlockMessage == Struct([Header |-> Ptr(BlockHeader), Transactions |-> List(TransactionMessage)])
RequestBlockLocatorMessage == Struct([HighHash |-> Ptr(Hash), Limit |-> Uint32])
BlockLocatorMessage == Struct([Hashes |-> List(Hash)])
RequestHeadersMessage == Struct([LowHash |-> Ptr(Hash), HighHash |-> Ptr(Hash)])
RequestNextHeadersMessage == Struct(NoFields)
DoneHeadersMessage == Struct(NoFields)
RequestRelayBlocksMessage == Struct([Hashes |-> List(Hash)])
RequestTransactionsMessage == Struct([Ids |-> List(TransactionId)])
TransactionNotFoundMessage == Struct([Id |-> Ptr(TransactionId)])
InvRelayBlockMessage == Struct([Hash |-> Ptr(Hash)])
InvTransactionsMessage == Struct([Ids |-> List(TransactionId)])
PingMessage == Struct([Nonce |-> Uint64])
PongMessage == Struct([Nonce |-> Uint64])
VerackMessage == Struct(NoFields)
VersionMessage ==
  Struct([ProtocolVersion |-> Uint32, Services |-> Uint64, Timestamp |-> Int64,
          Address |-> Ptr(NetAddress), Id |-> Bytes, UserAgent |-> String,
          DisableRelayTx |-> Boolean, SubnetworkId |-> Ptr(SubnetworkId), Network |-> String])
RejectMessage == Struct([Reason |-> String])
RequestPruningPointUTXOSetMessage == Struct([PruningPointHash |-> Ptr(Hash)])
UtxoEntry ==
  Struct([Amount |-> Uint64, ScriptPublicKey |-> Ptr(ScriptPublicKey), BlockDaaScore |-> Uint64,
          IsCoinbase |-> Boolean])
OutpointAndUtxoEntryPair == Struct([Outpoint |-> Ptr(Outpoint), UtxoEntry |-> Ptr(UtxoEntry)])
PruningPointUtxoSetChunkMessage ==
  Struct([OutpointAndUtxoEntryPairs |-> List(OutpointAndUtxoEntryPair)])
RequestNextPruningPointUtxoSetChunkMessage == Struct(NoFields)
DonePruningPointUtxoSetChunksMessage == Struct(NoFields)
RequestIBDBlocksMessage == Struct([Hashes |-> List(Hash)])
UnexpectedPruningPointMessage == Struct(NoFields)
IbdBlockLocatorMessage == Struct([TargetHash |-> Ptr(Hash), BlockLocatorHashes |-> List(Hash)])
RequestIBDChainBlockLocatorMessage == Struct([LowHash |-> Ptr(Hash), HighHash |-> Ptr(Hash)])
IbdChainBlockLocatorMessage == Struct([BlockLocatorHashes |-> List(Hash)])
RequestAnticoneMessage == Struct([BlockHash |-> Ptr(Hash), ContextHash |-> Ptr(Hash)])
IbdBlockLocatorHighestHashMessage == Struct([HighestHash |-> Ptr(Hash)])
IbdBlockLocatorHighestHashNotFoundMessage == Struct(NoFields)
BlockHeadersMessage == Struct([BlockHeaders |-> List(BlockHeader)])
RequestPruningPointAndItsAnticoneMessage == Struct(NoFields)
RequestNextPruningPointAndItsAnticoneBlocksMessage == Struct(NoFields)
BluesAnticoneSizes == Struct([BlueHash |-> Ptr(Hash), AnticoneSize |-> Uint32])
GhostdagData ==
  Struct([BlueScore |-> Uint64, BlueWork |-> Bytes, SelectedParent |-> Ptr(Hash),
          MergeSetBlues |-> List(Hash), MergeSetReds |-> List(Hash),
          BluesAnticoneSizes |-> List(BluesAnticoneSizes)])
DaaBlock == Struct([Block |-> Ptr(BlockMessage), GhostdagData |-> Ptr(GhostdagData)])
BlockGhostdagDataHashPair == Struct([Hash |-> Ptr(Hash), GhostdagData |-> Ptr(GhostdagData)])
BlockWithTrustedDataMessage ==
  Struct([Block |-> Ptr(BlockMessage), DaaScore |-> Uint64, DaaWindow |-> List(DaaBlock),
          GhostdagData |-> List(BlockGhostdagDataHashPair)])
DaaBlockV4 == Struct([Header |-> Ptr(BlockHeader), GhostdagData |-> Ptr(GhostdagData)])
DoneBlocksWithTrustedDataMessage == Struct(NoFields)
PruningPointsMessage == Struct([Headers |-> List(BlockHeader)])
RequestPruningPointProofMessage == Struct(NoFields)
PruningPointProofHeaderArray == Struct([Headers |-> List(BlockHeader)])
PruningPointProofMessage == Struct([Headers |-> List(PruningPointProofHeaderArray)])
ReadyMessage == Struct(NoFields)
BlockWithTrustedDataV4Message ==
  Struct([Block |-> Ptr(BlockMessage), DaaWindowIndices |-> List(Uint64),
          GhostdagDataIndices |-> List(Uint64)])
TrustedDataMessage ==
  Struct([DaaWindow |-> List(DaaBlockV4), GhostdagData |-> List(BlockGhostdagDataHashPair)])
RPCError == Struct([Message |-> String])
RpcBlockLevelParents == Struct([ParentHashes |-> List(String)])
RpcBlockHeader ==
  Struct([Version |-> Uint32, Parents |-> List(RpcBlockLevelParents), HashMerkleRoot |-> String,
          AcceptedIdMerkleRoot |-> String, UtxoCommitment |-> String, Timestamp |-> Int64,
          Bits |-> Uint32, Nonce |-> Uint64, DaaScore |-> Uint64, BlueWork |-> String,
          PruningPoint |-> String, BlueScore |-> Uint64])
RpcOutpoint == Struct([TransactionId |-> String, Index |-> Uint32])
RpcTransactionInputVerboseData == Struct(NoFields)
RpcTransactionInput ==
  Struct([PreviousOutpoint |-> Ptr(RpcOutpoint), SignatureScript |-> String, Sequence |-> Uint64,
          SigOpCount |-> Uint32, VerboseData |-> Ptr(RpcTransactionInputVerboseData)])
RpcScriptPublicKey == Struct([Version |-> Uint32, ScriptPublicKey |-> String])
RpcTransactionOutputVerboseData ==
  Struct([ScriptPublicKeyType |-> String, ScriptPublicKeyAddress |-> String])
RpcTransactionOutput ==
  Struct([Amount |-> Uint64, ScriptPublicKey |-> Ptr(RpcScriptPublicKey),
          VerboseData |-> Ptr(RpcTransactionOutputVerboseData)])
RpcTransactionVerboseData ==
  Struct([TransactionId |-> String, Hash |-> String, Mass |-> Uint64, BlockHash |-> String,
          BlockTime |-> Uint64])
RpcTransaction ==
  Struct([Version |-> Uint32, Inputs |-> List(RpcTransactionInput),
          Outputs |-> List(RpcTransactionOutput), LockTime |-> Uint64, SubnetworkId |-> String,
          Gas |-> Uint64, Payload |-> String, VerboseData |-> Ptr(RpcTransactionVerboseData)])
RpcBlockVerboseData ==
  Struct([Hash |-> String, Difficulty |-> Float64, SelectedParentHash |-> String,
          TransactionIds |-> List(String), IsHeaderOnly |-> Boolean, BlueScore |-> Uint64,
          ChildrenHashes |-> List(String), MergeSetBluesHashes |-> List(String),
          MergeSetRedsHashes |-> List(String), IsChainBlock |-> Boolean])
RpcBlock ==
  Struct([Header |-> Ptr(RpcBlockHeader), Transactions |-> List(RpcTransaction),
          VerboseData |-> Ptr(RpcBlockVerboseData)])
RpcUtxoEntry ==
  Struct([Amount |-> Uint64, ScriptPublicKey |-> Ptr(RpcScriptPublicKey),
          BlockDaaScore |-> Uint64, IsCoinbase |-> Boolean])
GetCurrentNetwork ==
  [Request |-> Struct(NoFields),
   Response |-> Struct([CurrentNetwork |-> String, Error |-> Ptr(RPCError)])]
SubmitBlock ==
  [Request |-> Struct([Block |-> Ptr(RpcBlock), AllowNonDAABlocks |-> Boolean]),
   Response |-> Struct([RejectReason |-> Uint64, Error |-> Ptr(RPCError)])]
GetBlockTemplate ==
  [Request |-> Struct([PayAddress |-> String, ExtraData |-> String]),
   Response |-> Struct([Block |-> Ptr(RpcBlock), IsSynced |-> Boolean, Error |-> Ptr(RPCError)])]
NotifyBlockAdded ==
  [Request |-> Struct(NoFields),
   Response |-> Struct([Error |-> Ptr(RPCError)]),
   BlockAddedNotification |-> Struct([Block |-> Ptr(RpcBlock)])]
GetPeerAddressesKnownAddressMessage == Struct([Addr |-> String])
GetPeerAddresses ==
  [Request |-> Struct(NoFields),
   Response |->
     Struct([Addresses |-> List(GetPeerAddressesKnownAddressMessage),
             BannedAddresses |-> List(GetPeerAddressesKnownAddressMessage), Error |-> Ptr(RPCError)])]
GetSelectedTipHash ==
  [Request |-> Struct(NoFields),
   Response |-> Struct([SelectedTipHash |-> String, Error |-> Ptr(RPCError)])]
MempoolEntry ==
  Struct([Fee |-> Uint64, Transaction |-> Ptr(RpcTransaction), IsOrphan |-> Boolean])
GetMempoolEntry ==
  [Request |->
     Struct([TxId |-> String, IncludeOrphanPool |-> Boolean, FilterTransactionPool |-> Boolean]),
   Response |-> Struct([Entry |-> Ptr(MempoolEntry), Error |-> Ptr(RPCError)])]
GetMempoolEntries ==
  [Request |-> Struct([IncludeOrphanPool |-> Boolean, FilterTransactionPool |-> Boolean]),
   Response |-> Struct([Entries |-> List(MempoolEntry), Error |-> Ptr(RPCError)])]
GetConnectedPeerInfoMessage ==
  Struct([Id |-> String, Address |-> String, LastPingDuration |-> Int64, IsOutbound |-> Boolean,
          TimeOffset |-> Int64, UserAgent |-> String, AdvertisedProtocolVersion |-> Uint32,
          TimeConnected |-> Int64, IsIbdPeer |-> Boolean])
GetConnectedPeerInfo ==
  [Request |-> Struct(NoFields),
   Response |-> Struct([Infos |-> List(GetConnectedPeerInfoMessage), Error |-> Ptr(RPCError)])]
AddPeer ==
  [Request |-> Struct([Address |-> String, IsPermanent |-> Boolean]),
   Response |-> Struct([Error |-> Ptr(RPCError)])]
SubmitTransaction ==
  [Request |-> Struct([Transaction |-> Ptr(RpcTransaction), AllowOrphan |-> Boolean]),
   Response |-> Struct([TransactionId |-> String, Error |-> Ptr(RPCError)])]
AcceptedTransactionIds ==
  Struct([AcceptingBlockHash |-> String, AcceptedTransactionIds |-> List(String)])
NotifyVirtualSelectedParentChainChanged ==
  [Request |-> Struct([IncludeAcceptedTransactionIds |-> Boolean]),
   Response |-> Struct([Error |-> Ptr(RPCError)]),
   VirtualSelectedParentChainChangedNotification |->
     Struct([RemovedChainBlockHashes |-> List(String), AddedChainBlockHashes |-> List(String),
             AcceptedTransactionIds |-> List(AcceptedTransactionIds)])]
GetBlock ==
  [Request |-> Struct([Hash |-> String, IncludeTransactions |-> Boolean]),
   Response |-> Struct([Block |-> Ptr(RpcBlock), Error |-> Ptr(RPCError)])]
GetSubnetwork ==
  [Request |-> Struct([SubnetworkId |-> String]),
   Response |-> Struct([GasLimit |-> Uint64, Error |-> Ptr(RPCError)])]
GetVirtualSelectedParentChainFromBlock ==
  [Request |-> Struct([StartHash |-> String, IncludeAcceptedTransactionIds |-> Boolean]),
   Response |->
     Struct([RemovedChainBlockHashes |-> List(String), AddedChainBlockHashes |-> List(String),
             AcceptedTransactionIds |-> List(AcceptedTransactionIds), Error |-> Ptr(RPCError)])]
GetBlocks ==
  [Request |->
     Struct([LowHash |-> String, IncludeBlocks |-> Boolean, IncludeTransactions |-> Boolean]),
   Response |->
     Struct([BlockHashes |-> List(String), Blocks |-> List(RpcBlock), Error |-> Ptr(RPCError)])]
GetBlockCount ==
  [Request |-> Struct(NoFields),
   Response |-> Struct([BlockCount |-> Uint64, HeaderCount |-> Uint64, Error |-> Ptr(RPCError)])]
GetBlockDagInfo ==
  [Request |-> Struct(NoFields),
   Response |->
     Struct([NetworkName |-> String, BlockCount |-> Uint64, HeaderCount |-> Uint64,
             TipHashes |-> List(String), Difficulty |-> Float64, PastMedianTime |-> Int64,
             VirtualParentHashes |-> List(String), PruningPointHash |-> String,
             VirtualDaaScore |-> Uint64, Error |-> Ptr(RPCError)])]
ResolveFinalityConflict ==
  [Request |-> Struct([FinalityBlockHash |-> String]),
   Response |-> Struct([Error |-> Ptr(RPCError)])]
NotifyFinalityConflicts ==
  [Request |-> Struct(NoFields),
   Response |-> Struct([Error |-> Ptr(RPCError)]),
   FinalityConflictNotification |-> Struct([ViolatingBlockHash |-> String]),
   FinalityConflictResolvedNotification |-> Struct([FinalityBlockHash |-> String])]
ShutDown == [Request |-> Struct(NoFields), Response |-> Struct([Error |-> Ptr(RPCError)])]
GetHeaders ==
  [Request |-> Struct([StartHash |-> String, Limit |-> Uint64, IsAscending |-> Boolean]),
   Response |-> Struct([Headers |-> List(String), Error |-> Ptr(RPCError)])]
UtxosByAddressesEntry ==
  Struct([Address |-> String, Outpoint |-> Ptr(RpcOutpoint), UtxoEntry |-> Ptr(RpcUtxoEntry)])
NotifyUtxosChanged ==
  [Request |-> Struct([Addresses |-> List(String)]),
   Response |-> Struct([Error |-> Ptr(RPCError)]),
   UtxosChangedNotification |->
     Struct([Added |-> List(UtxosByAddressesEntry), Removed |-> List(UtxosByAddressesEntry)])]
StopNotifyingUtxosChanged ==
  [Request |-> Struct([Addresses |-> List(String)]),
   Response |-> Struct([Error |-> Ptr(RPCError)])]
GetUtxosByAddresses ==
  [Request |-> Struct([Addresses |-> List(String)]),
   Response |-> Struct([Entries |-> List(UtxosByAddressesEntry), Error |-> Ptr(RPCError)])]
GetBalanceByAddress ==
  [Request |-> Struct([Address |-> String]),
   Response |-> Struct([Balance |-> Uint64, Error |-> Ptr(RPCError)])]
BalancesByAddressEntry ==
  Struct([Address |-> String, Balance |-> Uint64, Error |-> Ptr(RPCError)])
GetBalancesByAddresses ==
  [Request |-> Struct([Addresses |-> List(String)]),
   Response |-> Struct([Entries |-> List(BalancesByAddressEntry), Error |-> Ptr(RPCError)])]
GetVirtualSelectedParentBlueScore ==
  [Request |-> Struct(NoFields),
   Response |-> Struct([BlueScore |-> Uint64, Error |-> Ptr(RPCError)])]
NotifyVirtualSelectedParentBlueScoreChanged ==
  [Request |-> Struct(NoFields),
   Response |-> Struct([Error |-> Ptr(RPCError)]),
   VirtualSelectedParentBlueScoreChangedNotification |->
     Struct([VirtualSelectedParentBlueScore |-> Uint64])]
NotifyVirtualDaaScoreChanged ==
  [Request |-> Struct(NoFields),
   Response |-> Struct([Error |-> Ptr(RPCError)]),
   VirtualDaaScoreChangedNotification |-> Struct([VirtualDaaScore |-> Uint64])]
NotifyPruningPointUTXOSetOverride ==
  [Request |-> Struct(NoFields),
   Response |-> Struct([Error |-> Ptr(RPCError)]),
   PruningPointUTXOSetOverrideNotification |-> Struct(NoFields),
   StopNotifyingPruningPointUTXOSetOverrideRequest |-> Struct(NoFields),
   StopNotifyingPruningPointUTXOSetOverrideResponse |-> Struct([Error |-> Ptr(RPCError)])]
Ban == [Request |-> Struct([Ip |-> String]), Response |-> Struct([Error |-> Ptr(RPCError)])]
Unban == [Request |-> Struct([Ip |-> String]), Response |-> Struct([Error |-> Ptr(RPCError)])]
GetInfo ==
  [Request |-> Struct(NoFields),
   Response |->
     Struct([P2PId |-> String, MempoolSize |-> Uint64, ServerVersion |-> String,
             IsUtxoIndexed |-> Boolean, IsSynced |-> Boolean, Error |-> Ptr(RPCError)])]
EstimateNetworkHashesPerSecond ==
  [Request |-> Struct([WindowSize |-> Uint32, StartHash |-> String]),
   Response |-> Struct([NetworkHashesPerSecond |-> Uint64, Error |-> Ptr(RPCError)])]
NotifyNewBlockTemplate ==
  [Request |-> Struct(NoFields),
   Response |-> Struct([Error |-> Ptr(RPCError)]),
   NewBlockTemplateNotification |-> Struct(NoFields)]
MempoolEntryByAddress ==
  Struct([Address |-> String, Sending |-> List(MempoolEntry), Receiving |-> List(MempoolEntry)])
GetMempoolEntriesByAddresses ==
  [Request |->
     Struct([Addresses |-> List(String), IncludeOrphanPool |-> Boolean,
             FilterTransactionPool |-> Boolean]),
   Response |-> Struct([Entries |-> List(MempoolEntryByAddress), Error |-> Ptr(RPCError)])]
GetCoinSupply ==
  [Request |-> Struct(NoFields),
   Response |->
     Struct([MaxSompi |-> Uint64, CirculatingSompi |-> Uint64, Error |-> Ptr(RPCError)])]
RpcFeerateBucket == Struct([Feerate |-> Float64, EstimatedSeconds |-> Float64])
RpcFeeEstimate ==
  Struct([PriorityBucket |-> Ptr(RpcFeerateBucket), NormalBuckets |-> List(RpcFeerateBucket),
          LowBuckets |-> List(RpcFeerateBucket)])
GetFeeEstimate ==
  [Request |-> Struct(NoFields),
   Response |-> Struct([Estimate |-> Ptr(RpcFeeEstimate), Error |-> Ptr(RPCError)])]
SubmitTransactionReplacement ==
  [Request |-> Struct([Transaction |-> Ptr(RpcTransaction)]),
   Response |->
     Struct([TransactionId |-> String, ReplacedTransaction |-> Ptr(RpcTransaction),
             Error |-> Ptr(RPCError)])]
==============================================================================
