-------------------------- MODULE PeerConnections --------------------------
(***************************************************************************)
(* The life of the p2p connections of a node: the gRPC connection and its  *)
(* two loops (netadapter/server/grpcserver), the router and its routes     *)
(* (netadapter/router), the NetConnection that ties them together          *)
(* (netadapter), and the goroutine of the protocol manager that does the   *)
(* handshake, registers the flows, runs them and cleans up                 *)
(* (app/protocol).  The other side may go away at any time; it may send    *)
(* any message at any time, unless it is Honest: then it follows this same *)
(* protocol, and owed is what it has still to send.                        *)
(*                                                                         *)
(* Messages are told apart only by the route they belong to.  A route      *)
(* holds one message (RouteCapacity = 1); the outgoing route is a counter. *)
(***************************************************************************)
EXTENDS Naturals, FiniteSets

CONSTANTS
  Conns,         \* the connections that are ever made
  Outbound,      \* those that this node initiates
  PeerIds,       \* the IDs the other sides present
  NoConn,
  Capacity,      \* capacity of an outgoing route
  Environments   \* what may surround the node, see peerEnv

VARIABLES
  peerEnv,         \* the environment of this behaviour, fixed at the start
  conn,            \* the state of every connection, see Fresh
  p2pConnections,  \* NetAdapter.p2pConnections
  peers,           \* FlowContext.peers: the connection of every peer ID
  banned,          \* the connections whose address is banned
  phase,           \* how far ComponentManager.Stop is
  broadcasts,      \* messages broadcast so far
  panicked         \* the panic of some goroutine, which ends the node

peerVars == <<peerEnv, conn, p2pConnections, peers, banned, phase, broadcasts, panicked>>

Honest == peerEnv.honest                \* connections whose other side follows the protocol
Reliable == peerEnv.reliable            \* those of them whose other side neither goes away nor lets us wait
BannedBefore == peerEnv.bannedBefore    \* those whose address may have been banned before
FlowRoutes == peerEnv.flowRoutes        \* the routes v5.Register registers, of AllFlowRoutes
MaxBroadcasts == peerEnv.maxBroadcasts  \* bound: messages sent to all peers
Stops == peerEnv.stops                  \* whether the node shuts down

AllFlowRoutes == {"relay", "addresses", "pong"}
HandshakeRoutes == {"version", "verack", "ready"}

(* Whatever the environment, v5.Register registers the relay of blocks.    *)
ASSUME ConnectionsAssumption ==
  /\ NoConn \notin Conns
  /\ Capacity \in Nat
  /\ \A e \in Environments :
       /\ e.conns \cup e.honest \cup e.bannedBefore \subseteq Conns
       /\ "relay" \in e.flowRoutes /\ e.flowRoutes \subseteq AllFlowRoutes

Routes == HandshakeRoutes \cup FlowRoutes

(* The flows, by where they are: HandleRelayInvs and its like in relay;    *)
(* ReceiveAddresses before and after its request in askAddresses and       *)
(* addresses; SendPings between pings and during one in tick and pong.     *)
FirstFlow == [relay |-> "relay", addresses |-> "askAddresses", pong |-> "tick"]
FirstFlows == {FirstFlow[f] : f \in FlowRoutes}

Errors == {"closed", "ban", "noban"}
NoErr == "none"

(* A new connection.  net is the gRPC connection, recv and send its loops; *)
(* pc is the goroutine of routerInitializer, rv and sv the two goroutines  *)
(* of the handshake and hsErr their error.                                 *)
Fresh ==
  [net |-> "new", recv |-> "idle", send |-> "idle", pc |-> "spawned", rv |-> "idle", sv |-> "idle", hsErr |-> NoErr,
   routes |-> HandshakeRoutes, closed |-> {}, queued |-> {}, outClosed |-> FALSE, out |-> 0,
   isRouterClosed |-> FALSE, closes |-> 0, handler |-> FALSE, isStopping |-> FALSE, errChan |-> NoErr,
   flows |-> {}, id |-> NoConn, owed |-> {"version", "ready"}]

None == [Fresh EXCEPT !.pc = "none", !.net = "none", !.routes = {}]

InitPeers ==
  /\ peerEnv \in Environments
  /\ conn = [c \in Conns |-> None]
  /\ p2pConnections = {}
  /\ peers = [i \in PeerIds |-> NoConn]
  /\ banned \in SUBSET BannedBefore
  /\ phase = "run"
  /\ broadcasts = 0
  /\ panicked = "no"

-----------------------------------------------------------------------------
(* route.go, router.go, netconnection.go, as functions of the record of a  *)
(* connection.                                                             *)
RouteEnqueue(r) == IF r.outClosed \/ r.out = Capacity THEN r ELSE [r EXCEPT !.out = @ + 1]
EnqueueError(r) == IF r.outClosed THEN "closed" ELSE IF r.out = Capacity THEN "noban" ELSE NoErr

(* Router.Close: every route registered now; closing a route a second time *)
(* is a panic of Go.                                                       *)
RouterClose(r) == [r EXCEPT !.closed = r.closed \cup r.routes, !.outClosed = TRUE, !.closes = @ + 1]

(* NetConnection.Disconnect, and the handler of a network error.           *)
Disconnect(r) == IF r.isRouterClosed THEN r ELSE [RouterClose(r) EXCEPT !.isRouterClosed = TRUE]

(* Dequeue: what is queued is delivered even after the route was closed.   *)
HasMessage(r, route) == route \in r.queued
RouteClosed(r, route) == route \in r.closed \ r.queued
Dequeue(r, route) == [r EXCEPT !.queued = @ \ {route}]

(* FlowContext.HandleError and the handler of invalid messages: the first  *)
(* error of a connection goes to errChan.                                  *)
HandleError(r, err) == [r EXCEPT !.isStopping = TRUE, !.errChan = IF r.isStopping THEN @ ELSE err]

(* Manager.handleError.                                                    *)
ManagerHandleError(r, err) ==
  CASE err = "ban" -> Disconnect(RouteEnqueue(r))
    [] err = "noban" -> Disconnect(r)
    [] OTHER -> r

RejectPanics(r, err) == err = "ban" /\ EnqueueError(r) = "noban"

(* An update of connection c.  Once its goroutines have ended, nothing     *)
(* refers to it any more.                                                  *)
Gone == [None EXCEPT !.pc = "done", !.net = "closed", !.closes = 1]
GoroutinesEnded(r) == /\ r.pc = "done" /\ r.net = "closed" /\ r.recv = "ended" /\ r.send = "ended"
            /\ r.rv \notin {"wait"} /\ r.sv \notin {"start", "wait"} /\ r.closes = 1
Set(c, r) == conn' = [conn EXCEPT ![c] = IF GoroutinesEnded(r) THEN Gone ELSE r]

-----------------------------------------------------------------------------
(* netadapter.go: newNetConnection spawns the goroutine of the protocol;   *)
(* the connection is then added to the map and its loops are started.      *)
NewNetConnection(c) ==
  /\ conn[c].pc = "none" /\ c \in peerEnv.conns
  /\ phase \in IF c \in Outbound THEN {"run", "connStopping"} ELSE {"run", "connStopping", "connStopped"}
  /\ Set(c, Fresh)
  /\ UNCHANGED <<peerEnv, p2pConnections, peers, banned, phase, broadcasts, panicked>>

StreamStopped(c) == c \notin Outbound /\ phase \in {"netStopped", "closing", "closed"}

Start(c) ==
  /\ conn[c].net = "new"
  /\ Set(c, [conn[c] EXCEPT !.net = "started", !.send = "loop", !.recv = IF StreamStopped(c) THEN "ended" ELSE "recv"])
  /\ p2pConnections' = p2pConnections \cup {c}
  /\ UNCHANGED <<peerEnv, peers, banned, phase, broadcasts, panicked>>

IsConnected(r) == r.net = "started"

(* receiveLoop, from one Recv to the next.  A message without a route is   *)
(* an invalid message.                                                     *)
ReceiveLoop(c, m) ==
  /\ conn[c].recv = "recv"
  /\ c \in Honest => m \in conn[c].owed \ (conn[c].queued \cap {"relay"})
  /\ LET r == [conn[c] EXCEPT !.owed = @ \ ({m} \ {"relay"})]
     IN Set(c, IF m \notin r.routes
               THEN [IF r.handler THEN HandleError(r, "ban") ELSE r EXCEPT !.recv = "ended"]
               ELSE IF m \in r.closed \cup r.queued THEN [r EXCEPT !.recv = "ended"]
               ELSE [r EXCEPT !.queued = @ \cup {m}, !.recv = IF IsConnected(r) THEN "recv" ELSE "ended"])
  /\ UNCHANGED <<peerEnv, p2pConnections, peers, banned, phase, broadcasts, panicked>>

(* Recv fails: the other side is gone, or an inbound stream was ended.     *)
StreamEnds(c) ==
  /\ conn[c].recv = "recv" /\ (c \in Reliable => conn[c].net # "started")
  /\ Set(c, [conn[c] EXCEPT !.recv = "ended"])
  /\ UNCHANGED <<peerEnv, p2pConnections, peers, banned, phase, broadcasts, panicked>>

(* sendLoop: one message is sent, or the route is closed and empty.        *)
SendLoop(c) ==
  /\ conn[c].send = "loop"
  /\ LET r == conn[c]
     IN \/ r.out > 0 /\ Set(c, [r EXCEPT !.out = @ - 1, !.send = IF IsConnected(r) THEN "loop" ELSE "ended"])
        \/ r.out = 0 /\ r.outClosed /\ Set(c, [r EXCEPT !.send = "ended"])
  /\ UNCHANGED <<peerEnv, p2pConnections, peers, banned, phase, broadcasts, panicked>>

(* connectionLoops: the first loop that ends disconnects the connection.   *)
(* An outbound one then waits in closeSend for the receive in progress.    *)
DisconnectStart(c) ==
  /\ conn[c].net = "started" /\ (conn[c].recv = "ended" \/ conn[c].send = "ended")
  /\ Set(c, [conn[c] EXCEPT !.net = "disconnecting"])
  /\ UNCHANGED <<peerEnv, p2pConnections, peers, banned, phase, broadcasts, panicked>>

DisconnectFinish(c) ==
  /\ conn[c].net = "disconnecting"
  /\ c \in Outbound => conn[c].recv = "ended"
  /\ Set(c, [Disconnect(conn[c]) EXCEPT !.net = "closed"])
  /\ p2pConnections' = p2pConnections \ {c}
  /\ UNCHANGED <<peerEnv, peers, banned, phase, broadcasts, panicked>>

-----------------------------------------------------------------------------
(* routerInitializer.                                                      *)
RunFlowsBegin(c) ==
  /\ conn[c].pc = "spawned"
  /\ IF phase \in {"closing", "closed"}
     THEN panicked' = "manager is closed" /\ UNCHANGED conn
     ELSE /\ Set(c, IF c \in banned THEN [Disconnect(conn[c]) EXCEPT !.pc = "done"]
                    ELSE [conn[c] EXCEPT !.handler = TRUE, !.pc = "handshake", !.rv = "wait", !.sv = "start"])
          /\ UNCHANGED panicked
  /\ UNCHANGED <<peerEnv, p2pConnections, peers, banned, phase, broadcasts>>

(* A protocol error that the messages of the other side can bring about.   *)
ProtocolErrors(c) == IF c \in Reliable THEN {} ELSE IF c \in Honest THEN {"noban"} ELSE {"ban", "noban"}

(* DequeueWithTimeout gives up.                                            *)
TimesOut(c, route) == c \notin Reliable /\ ~HasMessage(conn[c], route)

(* What an honest other side sends because of what we queue for it.        *)
Owes(c, r, m) == IF c \in Honest THEN [r EXCEPT !.owed = @ \cup {m}] ELSE r

(* The two goroutines of the handshake; the first error is its result.     *)
HandshakeError(r, err) == [r EXCEPT !.hsErr = IF @ = NoErr THEN err ELSE @]

(* ReceiveVersion: a version is refused, or acknowledged and the ID kept.  *)
ReceiveVersion(c) ==
  /\ conn[c].rv = "wait"
  /\ LET r == conn[c]
     IN \/ /\ HasMessage(r, "version")
           /\ \/ \E err \in ProtocolErrors(c) : Set(c, [HandshakeError(Dequeue(r, "version"), err) EXCEPT !.rv = "done"])
              \/ /\ EnqueueError(r) # NoErr
                 /\ Set(c, [HandshakeError(Dequeue(r, "version"), EnqueueError(r)) EXCEPT !.rv = "done"])
              \/ /\ EnqueueError(r) = NoErr
                 /\ \E i \in PeerIds : Set(c, [RouteEnqueue(Dequeue(r, "version")) EXCEPT !.rv = "ok", !.id = i])
        \/ RouteClosed(r, "version") /\ Set(c, [HandshakeError(r, "closed") EXCEPT !.rv = "done"])
        \/ TimesOut(c, "version") /\ Set(c, [HandshakeError(r, "noban") EXCEPT !.rv = "done"])
  /\ UNCHANGED <<peerEnv, p2pConnections, peers, banned, phase, broadcasts, panicked>>

SendVersion(c) ==
  /\ LET r == conn[c]
     IN \/ /\ r.sv = "start"
           /\ Set(c, IF EnqueueError(r) = NoErr THEN [Owes(c, RouteEnqueue(r), "verack") EXCEPT !.sv = "wait"]
                     ELSE [HandshakeError(r, EnqueueError(r)) EXCEPT !.sv = "done"])
        \/ /\ r.sv = "wait"
           /\ \/ HasMessage(r, "verack") /\ Set(c, [Dequeue(r, "verack") EXCEPT !.sv = "ok"])
              \/ RouteClosed(r, "verack") /\ Set(c, [HandshakeError(r, "closed") EXCEPT !.sv = "done"])
              \/ TimesOut(c, "verack") /\ Set(c, [HandshakeError(r, "noban") EXCEPT !.sv = "done"])
  /\ UNCHANGED <<peerEnv, p2pConnections, peers, banned, phase, broadcasts, panicked>>

(* An error ends the goroutine: Manager.handleError, then, for a peer that *)
(* was added, RemoveFromPeers; runFlows first waits for the flows.         *)
EndWith(c, r, err, next) ==
  /\ Set(c, [ManagerHandleError(r, err) EXCEPT !.pc = next])
  /\ banned' = IF err = "ban" THEN banned \cup {c} ELSE banned
  /\ panicked' = IF RejectPanics(r, err) THEN "cannot reject" ELSE panicked

HandshakeFails(c) ==
  /\ conn[c].pc = "handshake" /\ conn[c].hsErr # NoErr
  /\ LET r == conn[c]
         inner == r.errChan # NoErr /\ r.hsErr = "closed"
     IN EndWith(c, [r EXCEPT !.errChan = NoErr], IF inner THEN r.errChan ELSE r.hsErr, "done")
  /\ UNCHANGED <<peerEnv, p2pConnections, peers, phase, broadcasts>>

AddToPeers(c) ==
  /\ conn[c].pc = "handshake" /\ conn[c].rv = "ok" /\ conn[c].sv = "ok"
  /\ IF peers[conn[c].id] # NoConn
     THEN EndWith(c, conn[c], "noban", "done") /\ UNCHANGED peers
     ELSE /\ peers' = [peers EXCEPT ![conn[c].id] = c]
          /\ Set(c, [conn[c] EXCEPT !.pc = "register"])
          /\ UNCHANGED <<peerEnv, banned, panicked>>
  /\ UNCHANGED <<peerEnv, p2pConnections, phase, broadcasts>>

(* Mutant: we say that we are ready before all flows are registered. *)
RegisterFlowLate(c, f) ==
  /\ conn[c].pc = "register" /\ f \notin conn[c].routes
  /\ Set(c, [conn[c] EXCEPT !.pc = "sendReady"])
  /\ UNCHANGED <<peerEnv, p2pConnections, peers, banned, phase, broadcasts, panicked>>

(* v5.Register adds one route after the other; the routes of a router that *)
(* is closed already stay open.                                            *)
RegisterFlow(c, f) ==
  /\ conn[c].pc = "register" /\ f \notin conn[c].routes
  /\ LET routes == conn[c].routes \cup {f}
     IN Set(c, [conn[c] EXCEPT !.routes = routes,
                               !.pc = IF FlowRoutes \subseteq routes THEN "sendReady" ELSE @])
  /\ UNCHANGED <<peerEnv, p2pConnections, peers, banned, phase, broadcasts, panicked>>

(* Mutant: the flows start before our ready message could be queued. *)
SendReadyUnchecked(c) ==
  /\ conn[c].pc = "sendReady"
  /\ Set(c, [Owes(c, RouteEnqueue(conn[c]), "relay") EXCEPT !.pc = "ready"])
  /\ UNCHANGED <<peerEnv, p2pConnections, peers, banned, phase, broadcasts, panicked>>

(* HandleReady: our ready message, then theirs.                            *)
SendReady(c) ==
  /\ conn[c].pc = "sendReady"
  /\ IF EnqueueError(conn[c]) # NoErr
     THEN EndWith(c, conn[c], EnqueueError(conn[c]), "cleanup")
     ELSE Set(c, [Owes(c, RouteEnqueue(conn[c]), "relay") EXCEPT !.pc = "ready"]) /\ UNCHANGED <<peerEnv, banned, panicked>>
  /\ UNCHANGED <<peerEnv, p2pConnections, peers, phase, broadcasts>>

ReceiveReady(c) ==
  /\ conn[c].pc = "ready"
  /\ LET r == conn[c]
     IN \/ RouteClosed(r, "ready") /\ EndWith(c, r, "closed", "cleanup")
        \/ TimesOut(c, "ready") /\ EndWith(c, r, "noban", "cleanup")
        \/ /\ HasMessage(r, "ready")
           /\ Set(c, [Dequeue(r, "ready") EXCEPT !.routes = @ \ HandshakeRoutes, !.flows = FirstFlows, !.pc = "running"])
           /\ UNCHANGED <<peerEnv, banned, panicked>>
  /\ UNCHANGED <<peerEnv, p2pConnections, peers, phase, broadcasts>>

(* The flows.  The first error of one goes to errChan; a one-time flow     *)
(* removes its route when it ends.                                         *)
EndFlow(r, f) ==
  [r EXCEPT !.flows = @ \ {f},
            !.routes = IF f \in {"askAddresses", "addresses"} THEN @ \ {"addresses"} ELSE @]
FailFlow(r, f, err) == EndFlow(HandleError(r, err), f)

(* A flow that waits on its route handles a message, with or without a     *)
(* protocol error, or finds the route closed.                              *)
FlowMessage(c, f) ==
  /\ f \in conn[c].flows /\ HasMessage(conn[c], f)
  /\ LET r == Dequeue(conn[c], f)
     IN \/ f = "relay" /\ Set(c, IF EnqueueError(r) = NoErr THEN RouteEnqueue(r) ELSE FailFlow(r, f, EnqueueError(r)))
        \/ f = "relay" /\ Set(c, r)
        \/ f = "addresses" /\ Set(c, EndFlow(r, f))
        \/ f = "pong" /\ Set(c, [r EXCEPT !.flows = (@ \ {f}) \cup {"tick"}])
        \/ \E err \in ProtocolErrors(c) : Set(c, FailFlow(r, f, err))
  /\ UNCHANGED <<peerEnv, p2pConnections, peers, banned, phase, broadcasts, panicked>>

FlowRouteClosed(c, f) ==
  /\ f \in conn[c].flows /\ RouteClosed(conn[c], f)
  /\ Set(c, FailFlow(conn[c], f, "closed"))
  /\ UNCHANGED <<peerEnv, p2pConnections, peers, banned, phase, broadcasts, panicked>>

(* The answer to a request for addresses or to a ping is waited for with a *)
(* timeout.                                                                *)
FlowTimeout(c, f) ==
  /\ f \in conn[c].flows \cap {"addresses", "pong"} /\ TimesOut(c, f)
  /\ Set(c, FailFlow(conn[c], f, "noban"))
  /\ UNCHANGED <<peerEnv, p2pConnections, peers, banned, phase, broadcasts, panicked>>

(* ReceiveAddresses sends its request, SendPings its next ping: not before *)
(* the tick does SendPings notice that the connection is closed.           *)
FlowRequest(c, f, answer) ==
  /\ f \in conn[c].flows
  /\ LET r == conn[c]
     IN Set(c, IF EnqueueError(r) # NoErr THEN FailFlow(r, f, EnqueueError(r))
               ELSE [Owes(c, RouteEnqueue(r), answer) EXCEPT !.flows = (@ \ {f}) \cup {answer}])
  /\ UNCHANGED <<peerEnv, p2pConnections, peers, banned, phase, broadcasts, panicked>>

PingsShutdown(c) ==
  /\ "tick" \in conn[c].flows /\ phase \in {"closing", "closed"}
  /\ Set(c, EndFlow(conn[c], "tick"))
  /\ UNCHANGED <<peerEnv, p2pConnections, peers, banned, phase, broadcasts, panicked>>

(* P2PBroadcast, called by the relay flow of c: the peers are visited in   *)
(* any order, closed routes are skipped, and a full one ends the broadcast *)
(* with an error of the calling flow.                                      *)
Ready == {c \in Conns : \E i \in PeerIds : peers[i] = c}
Full(c) == EnqueueError(conn[c]) = "noban"

Broadcast(c) ==
  /\ "relay" \in conn[c].flows /\ broadcasts < MaxBroadcasts
  /\ broadcasts' = broadcasts + 1
  /\ \E reached \in SUBSET {d \in Ready : ~Full(d)} :
       /\ \A d \in Ready : ~Full(d) /\ d \notin reached => \E e \in Ready : Full(e)
       /\ LET sent == [d \in Conns |-> IF d \in reached THEN RouteEnqueue(conn[d]) ELSE conn[d]]
          IN conn' = IF \E d \in Ready : Full(d)
                     THEN [sent EXCEPT ![c] = FailFlow(@, "relay", "noban")] ELSE sent
  /\ UNCHANGED <<peerEnv, p2pConnections, peers, banned, phase, panicked>>

(* runFlows returns the first error of a flow; the flows are waited for.   *)
RunFlowsEnd(c) ==
  /\ conn[c].pc = "running" /\ conn[c].errChan # NoErr
  /\ EndWith(c, [conn[c] EXCEPT !.errChan = NoErr], conn[c].errChan, "wait")
  /\ UNCHANGED <<peerEnv, p2pConnections, peers, phase, broadcasts>>

WaitForFlows(c) ==
  /\ conn[c].pc = "wait" /\ conn[c].flows = {}
  /\ Set(c, [conn[c] EXCEPT !.pc = "cleanup"])
  /\ UNCHANGED <<peerEnv, p2pConnections, peers, banned, phase, broadcasts, panicked>>

RemoveFromPeers(c) ==
  /\ conn[c].pc = "cleanup"
  /\ peers' = [peers EXCEPT ![conn[c].id] = NoConn]
  /\ Set(c, [conn[c] EXCEPT !.pc = "done"])
  /\ UNCHANGED <<peerEnv, p2pConnections, banned, phase, broadcasts, panicked>>

-----------------------------------------------------------------------------
(* ComponentManager.Stop: the connection manager disconnects what is       *)
(* connected and its loop ends, the net adapter stops its servers, the     *)
(* protocol manager closes and waits for the goroutines that have begun.   *)
StopConnectionManager ==
  /\ Stops /\ phase = "run"
  /\ phase' = "connStopping"
  /\ conn' = [c \in Conns |-> IF c \in p2pConnections THEN Disconnect(conn[c]) ELSE conn[c]]
  /\ UNCHANGED <<peerEnv, p2pConnections, peers, banned, broadcasts, panicked>>

ConnectionsLoopEnds ==
  /\ phase = "connStopping"
  /\ phase' = "connStopped"
  /\ UNCHANGED <<peerEnv, conn, p2pConnections, peers, banned, broadcasts, panicked>>

StopNetAdapter ==
  /\ phase = "connStopped"
  /\ phase' = "netStopped"
  /\ conn' = [c \in Conns |-> IF c \notin Outbound /\ conn[c].recv = "recv"
                              THEN [conn[c] EXCEPT !.recv = "ended"] ELSE conn[c]]
  /\ UNCHANGED <<peerEnv, p2pConnections, peers, banned, broadcasts, panicked>>

CloseProtocolManager ==
  /\ phase = "netStopped"
  /\ phase' = "closing"
  /\ UNCHANGED <<peerEnv, conn, p2pConnections, peers, banned, broadcasts, panicked>>

CloseReturns ==
  /\ phase = "closing"
  /\ \A c \in Conns : conn[c].pc \in {"none", "spawned", "done"}
  /\ phase' = "closed"
  /\ UNCHANGED <<peerEnv, conn, p2pConnections, peers, banned, broadcasts, panicked>>

-----------------------------------------------------------------------------
(* The goroutines of connection c, and the other side.                     *)
NetSteps(c) == Start(c) \/ DisconnectStart(c) \/ DisconnectFinish(c)
ProtocolSteps(c) ==
  \/ RunFlowsBegin(c) \/ HandshakeFails(c) \/ AddToPeers(c) \/ SendReady(c) \/ ReceiveReady(c)
  \/ RunFlowsEnd(c) \/ WaitForFlows(c) \/ RemoveFromPeers(c)
  \/ \E f \in FlowRoutes : RegisterFlow(c, f)
FlowSteps(c, f) ==
  \/ FlowMessage(c, f) \/ FlowRouteClosed(c, f) \/ FlowTimeout(c, f)
  \/ f = "addresses" /\ FlowRequest(c, "askAddresses", f)
  \/ f = "pong" /\ (FlowRequest(c, "tick", f) \/ PingsShutdown(c))
Remote(c) == StreamEnds(c) \/ \E m \in Routes : ReceiveLoop(c, m)

Shutdown == StopConnectionManager \/ ConnectionsLoopEnds \/ StopNetAdapter \/ CloseProtocolManager \/ CloseReturns

NextPeers ==
  /\ panicked = "no"
  /\ \/ \E c \in Conns :
          \/ NewNetConnection(c) \/ NetSteps(c) \/ SendLoop(c) \/ Remote(c)
          \/ ProtocolSteps(c) \/ ReceiveVersion(c) \/ SendVersion(c) \/ Broadcast(c)
          \/ \E f \in FlowRoutes : FlowSteps(c, f)
     \/ Shutdown

SpecPeers == InitPeers /\ [][NextPeers]_peerVars

(* Every goroutine is scheduled; timers fire; the other side goes on       *)
(* sending (it pings every two minutes) or goes away; once the shutdown    *)
(* has begun it goes on.  A node without connections has nothing to do.    *)
Live == panicked = "no" /\ peerEnv.conns # {}
Fairness ==
  /\ \A c \in Conns :
       /\ WF_peerVars(Live /\ NetSteps(c)) /\ WF_peerVars(Live /\ SendLoop(c)) /\ WF_peerVars(Live /\ Remote(c))
       /\ WF_peerVars(Live /\ ProtocolSteps(c)) /\ WF_peerVars(Live /\ ReceiveVersion(c)) /\ WF_peerVars(Live /\ SendVersion(c))
       /\ \A f \in AllFlowRoutes : WF_peerVars(Live /\ FlowSteps(c, f))
  /\ WF_peerVars(Live /\ Shutdown /\ phase # "run")

FairPeers == SpecPeers /\ Fairness

-----------------------------------------------------------------------------
(* Type invariant.                                                         *)
PeersTypeOK ==
  /\ p2pConnections \subseteq Conns /\ banned \subseteq Conns
  /\ peers \in [PeerIds -> Conns \cup {NoConn}]
  /\ \A c \in Conns :
       /\ conn[c].closed \cup conn[c].routes \cup conn[c].queued \subseteq Routes
       /\ conn[c].out \in 0 .. Capacity /\ conn[c].closes \in Nat
       /\ conn[c].errChan \in Errors \cup {NoErr}

(* A route is closed once: whoever disconnects a connection, the manager,  *)
(* a flow that failed or the network, and in whatever order, Router.Close  *)
(* runs at most once, since closing a Go channel twice would panic.        *)
(* And no goroutine is left behind: when the router of a connection is     *)
(* closed, every route that a goroutine of the connection waits on without *)
(* a timeout is closed, although flows register their routes while the     *)
(* connection may already be closing.                                      *)
RoutesClosedOnce ==
  \A c \in Conns :
    /\ conn[c].closes <= 1
    /\ conn[c].closes > 0 /\ "relay" \in conn[c].flows => "relay" \in conn[c].closed

(* FlowContext.peers has a peer exactly while the goroutine that added it  *)
(* is between AddToPeers and RemoveFromPeers: no connection removes the    *)
(* entry of another one with the same ID, and none is left behind.         *)
PeersOwned ==
  \A c \in Conns :
    (conn[c].pc \in {"register", "sendReady", "ready", "running", "wait", "cleanup"}) <=>
    (\E i \in PeerIds : peers[i] = c /\ conn[c].id = i)

(* Connections, routes and peers have one owner each.                      *)
ConnectionsOwned == RoutesClosedOnce /\ PeersOwned

(* A peer that follows the protocol is never banned: the ready messages    *)
(* make sure that every message it may send has a route here.              *)
HonestNeverBanned == \A c \in Honest : c \in banned => c \in BannedBefore

(* A connection that was disconnected, by either side, is gone: out of     *)
(* p2pConnections, out of peers, its goroutines ended.                     *)
WasDisconnected(c) == conn[c].closes > 0 \/ conn[c].net = "disconnecting"
Forgotten(c) == conn[c].pc = "done" /\ c \notin p2pConnections /\ conn[c].net = "closed"
DisconnectCompletes == \A c \in Conns : WasDisconnected(c) => Forgotten(c) \/ panicked # "no"

(* ComponentManager.Stop returns.                                          *)
ShutdownCompletes == phase # "run" => phase = "closed" \/ panicked # "no"

(* What was told to end has ended, one connection and the whole node, as   *)
(* it must eventually (SyncEnds of MCSync).                                *)
EndsCompletely == DisconnectCompletes /\ ShutdownCompletes
=============================================================================
