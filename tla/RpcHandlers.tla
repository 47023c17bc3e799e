---------------------------- MODULE RpcHandlers ----------------------------
(***************************************************************************)
(* The request handlers of the RPC server (app/rpc/rpchandlers) and the    *)
(* notification listener they configure.  A handler is a function of the   *)
(* node's configuration, the listener of the connection and the request,   *)
(* and returns the set of outcomes the code can reach: which response is   *)
(* enqueued, whether it carries an error, what the listener becomes and    *)
(* which effect on the node the request has.  What the request carries is  *)
(* abstracted to the class of argument the handler's conditions tell       *)
(* apart; "accepted" and "refused" by another component (the mempool, the  *)
(* consensus, the address manager) is a choice.  Failures of the node's    *)
(* own database or consensus, which handleError turns into a panic, are    *)
(* outside this model.                                                     *)
(***************************************************************************)
EXTENDS Naturals, FiniteSets

(* A command is what a message is routed by. *)
Request(name) == <<"Request", name>>
Response(name) == <<"Response", name>>
Notification(name) == <<"Notification", name>>

Kinds == {"BlockAdded", "VirtualSelectedParentChainChanged", "FinalityConflict",
          "FinalityConflictResolved", "UTXOsChanged",
          "VirtualSelectedParentBlueScoreChanged", "VirtualDaaScoreChanged",
          "PruningPointUTXOSetOverride", "NewBlockTemplate"}

-----------------------------------------------------------------------------
(* The listener. *)

NewNotificationListener == [propagate |-> {}, addresses |-> {}, includeAccepted |-> FALSE]

Propagating(listener, kinds) == [listener EXCEPT !.propagate = @ \union kinds]

PropagateVirtualSelectedParentChainChangedNotifications(listener, include) ==
    [Propagating(listener, {"VirtualSelectedParentChainChanged"})
       EXCEPT !.includeAccepted = include]

PropagateUTXOsChangedNotifications(listener, addresses) ==
    [Propagating(listener, {"UTXOsChanged"}) EXCEPT !.addresses = @ \union addresses]

StopPropagatingUTXOsChangedNotifications(listener, addresses) ==
    IF "UTXOsChanged" \in listener.propagate
    THEN [listener EXCEPT !.addresses = @ \ addresses]
    ELSE listener

(* The changed addresses a listener is told of: the smaller of the two     *)
(* sets is the one iterated, and no address at all means every address.    *)
ConvertUTXOChangesToUTXOsChangedNotification(listener, changed) ==
    IF Cardinality(changed) < Cardinality(listener.addresses)
    THEN {a \in changed : a \in listener.addresses}
    ELSE IF listener.addresses # {}
    THEN {a \in listener.addresses : a \in changed}
    ELSE changed

-----------------------------------------------------------------------------
(* Outcomes. *)

Outcome(name, error, listener, effect) ==
    [command |-> Response(name), error |-> error, listener |-> listener, effect |-> effect]

Success(name, listener) == Outcome(name, FALSE, listener, "none")
Failure(name, listener) == Outcome(name, TRUE, listener, "none")

FailureIf(condition, name, listener) ==
    IF condition THEN {Failure(name, listener)} ELSE {Success(name, listener)}

-----------------------------------------------------------------------------
(* Handlers that always answer. *)

HandleGetCurrentNetwork(context, listener, request) == {Success("GetCurrentNetwork", listener)}
HandleGetInfo(context, listener, request) == {Success("GetInfo", listener)}
HandleGetBlockCount(context, listener, request) == {Success("GetBlockCount", listener)}
HandleGetBlockDAGInfo(context, listener, request) == {Success("GetBlockDAGInfo", listener)}
HandleGetPeerAddresses(context, listener, request) == {Success("GetPeerAddresses", listener)}
HandleGetSelectedTipHash(context, listener, request) == {Success("GetSelectedTipHash", listener)}
HandleGetConnectedPeerInfo(context, listener, request) ==
    {Success("GetConnectedPeerInfo", listener)}
HandleGetMempoolEntries(context, listener, request) == {Success("GetMempoolEntries", listener)}
HandleGetVirtualSelectedParentBlueScore(context, listener, request) ==
    {Success("GetVirtualSelectedParentBlueScore", listener)}

(* Handlers that are not implemented. *)
HandleGetHeaders(context, listener, request) == {Failure("GetHeaders", listener)}
HandleGetSubnetwork(context, listener, request) == {Failure("GetSubnetwork", listener)}
HandleResolveFinalityConflict(context, listener, request) ==
    {Failure("ResolveFinalityConflict", listener)}

-----------------------------------------------------------------------------
(* Handlers that parse their argument and look it up. *)

HandleGetBlock(context, listener, request) ==
    FailureIf(request.arg \in {"malformed", "unknown", "invalid"}, "GetBlock", listener)

HandleGetBlocks(context, listener, request) ==
    FailureIf(request.arg \in {"transactions without blocks", "malformed", "unknown"},
              "GetBlocks", listener)

HandleGetMempoolEntry(context, listener, request) ==
    FailureIf(request.arg \in {"malformed", "unknown"}, "GetMempoolEntry", listener)

HandleGetMempoolEntriesByAddresses(context, listener, request) ==
    FailureIf(request.arg = "malformed", "GetMempoolEntriesByAddresses", listener)

HandleGetBlockTemplate(context, listener, request) ==
    FailureIf(request.arg \in {"malformed", "long extra data"}, "GetBlockTemplate", listener)

HandleGetVirtualSelectedParentChainFromBlock(context, listener, request) ==
    FailureIf(request.arg \in {"malformed", "unknown"},
              "GetVirtualSelectedParentChainFromBlock", listener)

HandleEstimateNetworkHashesPerSecond(context, listener, request) ==
    FailureIf(\/ request.arg \in {"malformed", "unknown", "above pruning depth"}
              \/ request.arg = "above 10000" /\ context.SafeRPC,
              "EstimateNetworkHashesPerSecond", listener)

(* Handlers that safe mode refuses. *)
HandleAddPeer(context, listener, request) ==
    FailureIf(context.SafeRPC \/ request.arg = "malformed", "AddPeer", listener)

HandleBan(context, listener, request) ==
    FailureIf(context.SafeRPC \/ request.arg \in {"malformed", "refused"}, "Ban", listener)

HandleUnban(context, listener, request) ==
    FailureIf(context.SafeRPC \/ request.arg \in {"malformed", "refused"}, "Unban", listener)

HandleShutDown(context, listener, request) ==
    {IF context.SafeRPC
     THEN Failure("ShutDown", listener)
     ELSE Outcome("ShutDown", FALSE, listener, "shut down")}

-----------------------------------------------------------------------------
(* Handlers that need the UTXO index. *)

(* Mutant: the error leaves as another response. *)
HandleGetCoinSupplyMisrouted(context, listener, request) ==
    {IF ~context.UTXOIndex THEN Failure("GetUTXOsByAddresses", listener)
                           ELSE Success("GetCoinSupply", listener)}
HandleGetCoinSupply(context, listener, request) ==
    FailureIf(~context.UTXOIndex, "GetCoinSupply", listener)

HandleGetUTXOsByAddresses(context, listener, request) ==
    FailureIf(~context.UTXOIndex \/ request.arg = "malformed", "GetUTXOsByAddresses", listener)

(* The failures of the two balance requests leave as the response message  *)
(* of another request.                                                     *)
HandleGetBalanceByAddress(context, listener, request) ==
    {IF ~context.UTXOIndex \/ request.arg = "malformed"
     THEN Failure("GetUTXOsByAddresses", listener)
     ELSE Success("GetBalanceByAddress", listener)}

HandleGetBalancesByAddresses(context, listener, request) ==
    {IF ~context.UTXOIndex
     THEN Failure("GetBalancesByAddresses", listener)
     ELSE IF request.arg = "malformed"
     THEN Failure("GetUTXOsByAddresses", listener)
     ELSE Success("GetBalancesByAddresses", listener)}

HandleNotifyUTXOsChanged(context, listener, request) ==
    {IF ~context.UTXOIndex \/ request.arg = "malformed"
     THEN Failure("NotifyUTXOsChanged", listener)
     ELSE Success("NotifyUTXOsChanged",
                 PropagateUTXOsChangedNotifications(listener, request.addresses))}

HandleStopNotifyingUTXOsChanged(context, listener, request) ==
    {IF ~context.UTXOIndex
     THEN Failure("StopNotifyingUTXOsChanged", listener)
     ELSE IF request.arg = "malformed"
     THEN Failure("NotifyUTXOsChanged", listener)
     ELSE Success("StopNotifyingUTXOsChanged",
                 StopPropagatingUTXOsChangedNotifications(listener, request.addresses))}

-----------------------------------------------------------------------------
(* The other subscriptions. *)

HandleNotifyBlockAdded(context, listener, request) ==
    {Success("NotifyBlockAdded", Propagating(listener, {"BlockAdded"}))}

HandleNotifyVirtualSelectedParentChainChanged(context, listener, request) ==
    {Success("NotifyVirtualSelectedParentChainChanged",
            PropagateVirtualSelectedParentChainChangedNotifications(
                listener, request.arg = "with accepted"))}

HandleNotifyFinalityConflicts(context, listener, request) ==
    {Success("NotifyFinalityConflicts",
            Propagating(listener, {"FinalityConflict", "FinalityConflictResolved"}))}

HandleNotifyNewBlockTemplate(context, listener, request) ==
    {Success("NotifyNewBlockTemplate", Propagating(listener, {"NewBlockTemplate"}))}

HandleNotifyVirtualDaaScoreChanged(context, listener, request) ==
    {Success("NotifyVirtualDaaScoreChanged", Propagating(listener, {"VirtualDaaScoreChanged"}))}

HandleNotifyVirtualSelectedParentBlueScoreChanged(context, listener, request) ==
    {Success("NotifyVirtualSelectedParentBlueScoreChanged",
            Propagating(listener, {"VirtualSelectedParentBlueScoreChanged"}))}

HandleNotifyPruningPointUTXOSetOverrideRequest(context, listener, request) ==
    {Success("NotifyPruningPointUTXOSetOverride",
            Propagating(listener, {"PruningPointUTXOSetOverride"}))}

(* No message carries the command this handler is registered for.          *)
HandleStopNotifyingPruningPointUTXOSetOverrideRequest(context, listener, request) ==
    {Success("StopNotifyingPruningPointUTXOSetOverride",
            [listener EXCEPT !.propagate = @ \ {"PruningPointUTXOSetOverride"}])}

-----------------------------------------------------------------------------
(* Submissions.  A response to a transaction names the transaction unless  *)
(* the transaction could not be parsed.                                    *)

HandleSubmitTransaction(context, listener, request) ==
    IF request.arg = "malformed"
    THEN {Outcome("SubmitTransaction", TRUE, listener, "unnamed")}
    ELSE {Failure("SubmitTransaction", listener), Success("SubmitTransaction", listener)}

(* A block is refused while the node is not synced, when it cannot be      *)
(* parsed, when its DAA score is too old, and when it is invalid.          *)
HandleSubmitBlock(context, listener, request) ==
    IF request.arg \in {"malformed", "outdated"}
    THEN {Failure("SubmitBlock", listener)}
    ELSE {Failure("SubmitBlock", listener), Outcome("SubmitBlock", FALSE, listener, "add block")}

-----------------------------------------------------------------------------
(* The commands the server registers a handler for. *)
Handlers == {
    "GetCurrentNetwork", "SubmitBlock", "GetBlockTemplate", "NotifyBlockAdded",
    "GetPeerAddresses", "GetSelectedTipHash", "GetMempoolEntry", "GetConnectedPeerInfo",
    "AddPeer", "SubmitTransaction", "NotifyVirtualSelectedParentChainChanged", "GetBlock",
    "GetSubnetwork", "GetVirtualSelectedParentChainFromBlock", "GetBlocks", "GetBlockCount",
    "GetBalanceByAddress", "GetBlockDAGInfo", "ResolveFinalityConflict",
    "NotifyFinalityConflicts", "GetMempoolEntries", "ShutDown", "GetHeaders",
    "NotifyUTXOsChanged", "StopNotifyingUTXOsChanged", "GetUTXOsByAddresses",
    "GetBalancesByAddresses", "GetVirtualSelectedParentBlueScore",
    "NotifyVirtualSelectedParentBlueScoreChanged", "Ban", "Unban", "GetInfo",
    "NotifyPruningPointUTXOSetOverride", "StopNotifyingPruningPointUTXOSetOverride",
    "EstimateNetworkHashesPerSecond", "NotifyVirtualDaaScoreChanged",
    "NotifyNewBlockTemplate", "GetCoinSupply", "GetMempoolEntriesByAddresses"}

(* The outcomes of the handler registered for a command. *)
Handle(command, context, listener, request) ==
    CASE command = "GetCurrentNetwork" ->
            HandleGetCurrentNetwork(context, listener, request)
      [] command = "SubmitBlock" ->
            HandleSubmitBlock(context, listener, request)
      [] command = "GetBlockTemplate" ->
            HandleGetBlockTemplate(context, listener, request)
      [] command = "NotifyBlockAdded" ->
            HandleNotifyBlockAdded(context, listener, request)
      [] command = "GetPeerAddresses" ->
            HandleGetPeerAddresses(context, listener, request)
      [] command = "GetSelectedTipHash" ->
            HandleGetSelectedTipHash(context, listener, request)
      [] command = "GetMempoolEntry" ->
            HandleGetMempoolEntry(context, listener, request)
      [] command = "GetConnectedPeerInfo" ->
            HandleGetConnectedPeerInfo(context, listener, request)
      [] command = "AddPeer" ->
            HandleAddPeer(context, listener, request)
      [] command = "SubmitTransaction" ->
            HandleSubmitTransaction(context, listener, request)
      [] command = "NotifyVirtualSelectedParentChainChanged" ->
            HandleNotifyVirtualSelectedParentChainChanged(context, listener, request)
      [] command = "GetBlock" ->
            HandleGetBlock(context, listener, request)
      [] command = "GetSubnetwork" ->
            HandleGetSubnetwork(context, listener, request)
      [] command = "GetVirtualSelectedParentChainFromBlock" ->
            HandleGetVirtualSelectedParentChainFromBlock(context, listener, request)
      [] command = "GetBlocks" ->
            HandleGetBlocks(context, listener, request)
      [] command = "GetBlockCount" ->
            HandleGetBlockCount(context, listener, request)
      [] command = "GetBalanceByAddress" ->
            HandleGetBalanceByAddress(context, listener, request)
      [] command = "GetBlockDAGInfo" ->
            HandleGetBlockDAGInfo(context, listener, request)
      [] command = "ResolveFinalityConflict" ->
            HandleResolveFinalityConflict(context, listener, request)
      [] command = "NotifyFinalityConflicts" ->
            HandleNotifyFinalityConflicts(context, listener, request)
      [] command = "GetMempoolEntries" ->
            HandleGetMempoolEntries(context, listener, request)
      [] command = "ShutDown" ->
            HandleShutDown(context, listener, request)
      [] command = "GetHeaders" ->
            HandleGetHeaders(context, listener, request)
      [] command = "NotifyUTXOsChanged" ->
            HandleNotifyUTXOsChanged(context, listener, request)
      [] command = "StopNotifyingUTXOsChanged" ->
            HandleStopNotifyingUTXOsChanged(context, listener, request)
      [] command = "GetUTXOsByAddresses" ->
            HandleGetUTXOsByAddresses(context, listener, request)
      [] command = "GetBalancesByAddresses" ->
            HandleGetBalancesByAddresses(context, listener, request)
      [] command = "GetVirtualSelectedParentBlueScore" ->
            HandleGetVirtualSelectedParentBlueScore(context, listener, request)
      [] command = "NotifyVirtualSelectedParentBlueScoreChanged" ->
            HandleNotifyVirtualSelectedParentBlueScoreChanged(context, listener, request)
      [] command = "Ban" ->
            HandleBan(context, listener, request)
      [] command = "Unban" ->
            HandleUnban(context, listener, request)
      [] command = "GetInfo" ->
            HandleGetInfo(context, listener, request)
      [] command = "NotifyPruningPointUTXOSetOverride" ->
            HandleNotifyPruningPointUTXOSetOverrideRequest(context, listener, request)
      [] command = "StopNotifyingPruningPointUTXOSetOverride" ->
            HandleStopNotifyingPruningPointUTXOSetOverrideRequest(context, listener, request)
      [] command = "EstimateNetworkHashesPerSecond" ->
            HandleEstimateNetworkHashesPerSecond(context, listener, request)
      [] command = "NotifyVirtualDaaScoreChanged" ->
            HandleNotifyVirtualDaaScoreChanged(context, listener, request)
      [] command = "NotifyNewBlockTemplate" ->
            HandleNotifyNewBlockTemplate(context, listener, request)
      [] command = "GetCoinSupply" ->
            HandleGetCoinSupply(context, listener, request)
      [] command = "GetMempoolEntriesByAddresses" ->
            HandleGetMempoolEntriesByAddresses(context, listener, request)
=============================================================================
