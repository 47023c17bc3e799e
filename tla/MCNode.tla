------------------------------- MODULE MCNode -------------------------------
(* Four parts of a node, side by side: its mempool, its connections with   *)
(* peers, the messages and stored objects those connections and the        *)
(* database carry, and its RPC server with the clients.  A behaviour is    *)
(* one of one part, the others staying as they began.                      *)
EXTENDS Mempool, MessageTransport, Rpc, PeerConnections

CONSTANTS Parts, c1, c2, a1, a2

VARIABLE part

mempoolVars == vars
nodeVars == <<part, mempoolVars, peerVars, transportVars, rpcVars>>

-----------------------------------------------------------------------------
(* The mempool: four transactions.  2 redeems 1, 4 redeems both 1 and 2,   *)
(* and 3 spends the confirmed output that 2 spends too.                    *)
MCInputs == <<{<<0, 0>>}, {<<1, 0>>, <<0, 1>>}, {<<0, 1>>}, {<<2, 0>>, <<1, 1>>}>>
MCNumOutputs == <<2, 1, 1, 1>>
MCFeeRate == <<2, 1, 3, 2>>
MCMaturing == <<0, 1, 0, 0>>
MCAlwaysValid == <<0, 0, 0, 0>>
MCConfirmed == {<<0, 0>>, <<0, 1>>}
MCBlocks == {<<1>>, <<2>>, <<3>>, <<1, 3>>}

(* The peers: one connection whose other side may send anything, and two   *)
(* connections to honest nodes that present the same ID.                   *)
Quiet == [conns |-> {}, honest |-> {}, reliable |-> {}, bannedBefore |-> {},
          flowRoutes |-> {"relay"}, maxBroadcasts |-> 0, stops |-> FALSE]
Arbitrary == [Quiet EXCEPT !.conns = {c1}, !.bannedBefore = {c1},
                           !.flowRoutes = {"relay", "addresses"}, !.maxBroadcasts = 1]
Pair == [Quiet EXCEPT !.conns = {c1, c2}, !.honest = {c1, c2}, !.reliable = {c2}]
SafetyEnvironments == {Arbitrary, Pair}

(* The RPC: every call by itself, in every configuration of the node;      *)
(* calls over a connection that breaks and is made again; subscriptions    *)
(* while the node changes; and two clients, one of which adds blocks.      *)
Setting(calls1, calls2, connections, breaks, events) ==
  [calls |-> [c \in {c1, c2} |-> IF c = c1 THEN calls1 ELSE calls2],
   connections |-> connections, breaks |-> breaks, events |-> events]
Configured(settings, safe, index) ==
  {[calls |-> s.calls, connections |-> s.connections, breaks |-> s.breaks, events |-> s.events,
    SafeRPC |-> b, UTXOIndex |-> i] : s \in settings, b \in safe, i \in index}
Idle == Setting({}, {}, 0, 0, 0)
Submitter == Setting({"post_SubmitBlock"}, {"post_NotifyNewBlockTemplate"}, 1, 1, 1)
MCEnvironments ==
  Configured({Setting({name}, {}, 1, 1, 0) : name \in DOMAIN Calls}, BOOLEAN, BOOLEAN)
  \union
  Configured(
    {Idle, Submitter,
     Setting({"GetBlockCount"}, {}, 2, 2, 0), Setting({"SubmitTransaction"}, {}, 2, 1, 0),
     Setting({"GetBalanceByAddress", "GetUTXOsByAddresses"}, {}, 1, 0, 0),
     Setting({"RegisterForUTXOsChanged"}, {}, 1, 0, 1),
     Setting({"RegisterForChainChanged"}, {}, 1, 0, 2),
     Setting({"RegisterForBlockAdded"}, {}, 1, 1, 1),
     Setting({"RegisterPruningPointUTXOSet"}, {}, 1, 1, 1),
     Setting({"post_NotifyUTXOsChanged", "post_StopNotifyingUTXOsChanged"}, {}, 1, 0, 1),
     Setting({"post_NotifyBlockAdded"}, {"post_NotifyNewBlockTemplate"}, 1, 1, 1)},
    {FALSE}, {TRUE})

(* A miner that submits blocks and another one that is told of templates.  *)
TwoMiners ==
  Configured({Setting({"post_SubmitBlock"}, {"post_NotifyNewBlockTemplate"}, 1, 1, 0)},
             {FALSE}, {FALSE})

-----------------------------------------------------------------------------
InitNode ==
  /\ part \in Parts
  /\ Init
  /\ InitPeers /\ (part # "peers" => peerEnv = Pair /\ banned = {})
  /\ IF part = "messages" THEN TransportInit
     ELSE /\ payload = "Verack" /\ level = "wire" /\ at = "wire"
          /\ origin = <<>> /\ val = <<>> /\ hop = 1 /\ acceptedValue = <<>> /\ refusedBy = "none"
  /\ RpcInit /\ (part # "rpc" => rpcEnv \in Configured({Idle}, {FALSE}, {TRUE}))

InMempool == part = "mempool" /\ UNCHANGED <<part, peerVars, transportVars, rpcVars>>
InPeers == part = "peers" /\ UNCHANGED <<part, mempoolVars, transportVars, rpcVars>>
InMessages == part = "messages" /\ UNCHANGED <<part, mempoolVars, peerVars, rpcVars>>
InRpc == part = "rpc" /\ UNCHANGED <<part, mempoolVars, peerVars, transportVars>>

NextNode ==
  \/ InMempool /\ Next
  \/ InPeers /\ NextPeers
  \/ InMessages /\ TransportNext
  \/ InRpc /\ RpcNext

SpecNode == InitNode /\ [][NextNode]_nodeVars

-----------------------------------------------------------------------------
(* Every variable of every part has its type.                              *)
NodeTypeOK ==
  CASE part = "mempool" -> TypeOK
    [] part = "peers" -> PeersTypeOK
    [] part = "messages" -> TransportTypeOK
    [] part = "rpc" -> RpcTypeOK
=============================================================================
