----------------------------- MODULE RpcClient -----------------------------
(***************************************************************************)
(* The calls of the RPC client (infrastructure/network/rpcclient), one     *)
(* definition per function.  A call is the request it enqueues, the        *)
(* classes of argument its caller can pass, the command of the route it    *)
(* waits on, the notifications it then listens to, and whether it skips    *)
(* responses that name another transaction.                                *)
(***************************************************************************)
EXTENDS RpcHandlers

CONSTANT Addresses      \* the addresses of the model

NoArgument == {[arg |-> "valid", addresses |-> {}]}
Either(args) == NoArgument \union {[arg |-> a, addresses |-> {}] : a \in args}
SomeAddresses == {[arg |-> "malformed", addresses |-> {}]}
                   \union {[arg |-> "valid", addresses |-> A] : A \in SUBSET Addresses}

Call(name, arguments, awaits) ==
    [request |-> name, arguments |-> arguments, awaits |-> awaits,
     listensTo |-> {}, matchesID |-> FALSE]

(* A call that waits for the response named after its request. *)
Get(name, arguments) == Call(name, arguments, Response(name))

Register(name, arguments, kinds) ==
    [Get(name, arguments) EXCEPT !.listensTo = {Notification(k) : k \in kinds}]

Matching(call) == [call EXCEPT !.matchesID = TRUE]

-----------------------------------------------------------------------------
GetInfo == Get("GetInfo", NoArgument)
GetBlockCount == Get("GetBlockCount", NoArgument)
GetBlockDAGInfo == Get("GetBlockDAGInfo", NoArgument)
GetPeerAddresses == Get("GetPeerAddresses", NoArgument)
GetSelectedTipHash == Get("GetSelectedTipHash", NoArgument)
GetConnectedPeerInfo == Get("GetConnectedPeerInfo", NoArgument)
GetMempoolEntries == Get("GetMempoolEntries", NoArgument)
GetVirtualSelectedParentBlueScore == Get("GetVirtualSelectedParentBlueScore", NoArgument)
GetHeaders == Get("GetHeaders", NoArgument)
GetSubnetwork == Get("GetSubnetwork", NoArgument)
GetCoinSupply == Get("GetCoinSupply", NoArgument)
ResolveFinalityConflict == Get("ResolveFinalityConflict", NoArgument)
GetFeeEstimate == Get("GetFeeEstimate", NoArgument)

GetBlock == Get("GetBlock", Either({"malformed", "unknown", "invalid"}))
GetBlocks ==
    Get("GetBlocks", Either({"transactions without blocks", "malformed", "unknown"}))
GetMempoolEntry == Get("GetMempoolEntry", Either({"malformed", "unknown"}))
GetMempoolEntriesByAddresses == Get("GetMempoolEntriesByAddresses", Either({"malformed"}))
GetBlockTemplate == Get("GetBlockTemplate", Either({"malformed", "long extra data"}))
GetVirtualSelectedParentChainFromBlock ==
    Get("GetVirtualSelectedParentChainFromBlock", Either({"malformed", "unknown"}))
EstimateNetworkHashesPerSecond ==
    Get("EstimateNetworkHashesPerSecond",
        Either({"malformed", "unknown", "above 10000", "above pruning depth"}))
GetUTXOsByAddresses == Get("GetUTXOsByAddresses", Either({"malformed"}))
GetBalanceByAddress == Get("GetBalanceByAddress", Either({"malformed"}))
GetBalancesByAddresses == Get("GetBalancesByAddresses", Either({"malformed"}))
AddPeer == Get("AddPeer", Either({"malformed"}))

(* These two wait on the route of their own request. *)
Ban == Call("Ban", Either({"malformed", "refused"}), Request("Ban"))
Unban == Call("Unban", Either({"malformed", "refused"}), Request("Unban"))

(* Mutant: the first response is taken, whatever transaction it names. *)
SubmitTransactionUnmatched == Get("SubmitTransaction", Either({"malformed"}))
SubmitTransaction == Matching(Get("SubmitTransaction", Either({"malformed"})))
SubmitTransactionReplacement ==
    Matching(Get("SubmitTransactionReplacement", Either({"malformed"})))
SubmitBlock == Get("SubmitBlock", Either({"malformed", "outdated"}))
SubmitBlockAlsoIfNonDAA == Get("SubmitBlock", Either({"malformed"}))

-----------------------------------------------------------------------------
RegisterForBlockAddedNotifications == Register("NotifyBlockAdded", NoArgument, {"BlockAdded"})

RegisterForVirtualSelectedParentChainChangedNotifications ==
    Register("NotifyVirtualSelectedParentChainChanged", Either({"with accepted"}),
             {"VirtualSelectedParentChainChanged"})

RegisterForFinalityConflictsNotifications ==
    Register("NotifyFinalityConflicts", NoArgument,
             {"FinalityConflict", "FinalityConflictResolved"})

RegisterForNewBlockTemplateNotifications ==
    Register("NotifyNewBlockTemplate", NoArgument, {"NewBlockTemplate"})

RegisterForUTXOsChangedNotifications ==
    Register("NotifyUTXOsChanged", SomeAddresses, {"UTXOsChanged"})

RegisterForVirtualDaaScoreChangedNotifications ==
    Register("NotifyVirtualDaaScoreChanged", NoArgument, {"VirtualDaaScoreChanged"})

RegisterForVirtualSelectedParentBlueScoreChangedNotifications ==
    Register("NotifyVirtualSelectedParentBlueScoreChanged", NoArgument,
             {"VirtualSelectedParentBlueScoreChanged"})

RegisterPruningPointUTXOSetNotifications ==
    Register("NotifyPruningPointUTXOSetOverride", NoArgument, {"PruningPointUTXOSetOverride"})

(* The command of the stop request is that of the subscription. *)
UnregisterPruningPointUTXOSetNotifications ==
    Call("NotifyPruningPointUTXOSetOverride", NoArgument,
         Response("StopNotifyingPruningPointUTXOSetOverride"))

-----------------------------------------------------------------------------
(* Post: any request, answered by the first message of the stream. *)
FirstMessage == <<"First", "message">>
Post(name, arguments) == Call(name, arguments, FirstMessage)

(* The calls, by name.  The post_ names are requests posted on the stream  *)
(* by kaspactl, without a router.                                          *)
Calls == [
    GetInfo |-> GetInfo, GetBlockCount |-> GetBlockCount, GetBlockDAGInfo |-> GetBlockDAGInfo,
    GetPeerAddresses |-> GetPeerAddresses, GetSelectedTipHash |-> GetSelectedTipHash,
    GetConnectedPeerInfo |-> GetConnectedPeerInfo, GetMempoolEntries |-> GetMempoolEntries,
    GetVirtualSelectedParentBlueScore |-> GetVirtualSelectedParentBlueScore,
    GetHeaders |-> GetHeaders, GetSubnetwork |-> GetSubnetwork, GetCoinSupply |-> GetCoinSupply,
    ResolveFinalityConflict |-> ResolveFinalityConflict, GetFeeEstimate |-> GetFeeEstimate,
    GetBlock |-> GetBlock, GetBlocks |-> GetBlocks, GetMempoolEntry |-> GetMempoolEntry,
    GetMempoolEntriesByAddresses |-> GetMempoolEntriesByAddresses,
    GetBlockTemplate |-> GetBlockTemplate,
    GetVirtualSelectedParentChainFromBlock |-> GetVirtualSelectedParentChainFromBlock,
    EstimateNetworkHashesPerSecond |-> EstimateNetworkHashesPerSecond,
    GetUTXOsByAddresses |-> GetUTXOsByAddresses, GetBalanceByAddress |-> GetBalanceByAddress,
    GetBalancesByAddresses |-> GetBalancesByAddresses, AddPeer |-> AddPeer, Ban |-> Ban,
    Unban |-> Unban, SubmitTransaction |-> SubmitTransaction,
    SubmitTransactionReplacement |-> SubmitTransactionReplacement,
    SubmitBlock |-> SubmitBlock, SubmitBlockAlsoIfNonDAA |-> SubmitBlockAlsoIfNonDAA,
    RegisterForBlockAdded |-> RegisterForBlockAddedNotifications,
    RegisterForChainChanged |-> RegisterForVirtualSelectedParentChainChangedNotifications,
    RegisterForFinalityConflicts |-> RegisterForFinalityConflictsNotifications,
    RegisterForNewBlockTemplate |-> RegisterForNewBlockTemplateNotifications,
    RegisterForUTXOsChanged |-> RegisterForUTXOsChangedNotifications,
    RegisterForDaaScoreChanged |-> RegisterForVirtualDaaScoreChangedNotifications,
    RegisterForBlueScoreChanged |->
        RegisterForVirtualSelectedParentBlueScoreChangedNotifications,
    RegisterPruningPointUTXOSet |-> RegisterPruningPointUTXOSetNotifications,
    UnregisterPruningPointUTXOSet |-> UnregisterPruningPointUTXOSetNotifications,
    post_SubmitBlock |-> Post("SubmitBlock", SubmitBlock.arguments),
    post_NotifyNewBlockTemplate |-> Post("NotifyNewBlockTemplate", NoArgument),
    post_NotifyBlockAdded |-> Post("NotifyBlockAdded", NoArgument),
    post_GetCurrentNetwork |-> Post("GetCurrentNetwork", NoArgument),
    post_ShutDown |-> Post("ShutDown", NoArgument),
    post_NotifyUTXOsChanged |-> Post("NotifyUTXOsChanged", SomeAddresses),
    post_StopNotifyingUTXOsChanged |-> Post("StopNotifyingUTXOsChanged", SomeAddresses)]
=============================================================================
