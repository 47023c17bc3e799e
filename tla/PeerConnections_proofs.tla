----------------------- MODULE PeerConnections_proofs -----------------------
(***************************************************************************)
(* Proofs about the p2p connections, for any number of connections, peer   *)
(* IDs and messages of an outgoing route, and in every environment: a      *)
(* router is closed once and a peer has one owner (ConnectionsOwned), and  *)
(* a node that follows the protocol is never banned (HonestNeverBanned).   *)
(*                                                                         *)
(* The inductive invariant has a part for the record of one connection     *)
(* (Active), which an action has to keep only for the record that it writes, *)
(* and a part that ties the records to the shared maps (Shared).           *)
(***************************************************************************)
EXTENDS PeerConnections, TLAPS

Registered == {"register", "sendReady", "ready", "running", "wait", "cleanup"}
AllRoutes == HandshakeRoutes \cup AllFlowRoutes
AllFlows == {"relay", "askAddresses", "addresses", "tick", "pong"}

ConnRec ==
  [net : {"new", "started", "disconnecting", "closed"},
   recv : {"idle", "recv", "ended"}, send : {"idle", "loop", "ended"},
   pc : {"spawned", "handshake", "done"} \cup Registered,
   rv : {"idle", "wait", "ok", "done"}, sv : {"idle", "start", "wait", "ok", "done"},
   hsErr : Errors \cup {NoErr}, errChan : Errors \cup {NoErr},
   routes : SUBSET AllRoutes, closed : SUBSET AllRoutes, queued : SUBSET AllRoutes,
   owed : SUBSET AllRoutes, flows : SUBSET AllFlows,
   outClosed : BOOLEAN, isRouterClosed : BOOLEAN, handler : BOOLEAN, isStopping : BOOLEAN,
   out : 0 .. Capacity, closes : Nat, id : PeerIds \cup {NoConn}]

(* The routes are those of this environment; closing the router closed the *)
(* outgoing route with it, once; and a flow that starts after that finds   *)
(* the route it waits on closed, since our ready message needs the         *)
(* outgoing route after all routes are registered.                         *)
Closing(r) ==
  /\ r.routes \cup r.closed \cup r.queued \cup r.owed \subseteq Routes
  /\ r.closes = IF r.isRouterClosed THEN 1 ELSE 0
  /\ r.outClosed <=> r.isRouterClosed
  /\ r.pc \in {"ready", "running", "wait"} /\ r.isRouterClosed => "relay" \in r.closed

(* How far the goroutines of a connection are, against each other.         *)
Staged(r) ==
  /\ r.pc \in Registered => r.rv = "ok" /\ r.sv = "ok"
  /\ r.rv = "ok" => r.id \in PeerIds
  /\ r.pc = "spawned" => r.rv = "idle" /\ r.sv = "idle"
  /\ r.sv \in {"idle", "start"} => HandshakeRoutes \subseteq r.routes
  /\ r.flows # {} => r.pc \in {"running", "wait"}
  /\ r.pc \in {"sendReady", "ready"} => FlowRoutes \subseteq r.routes
  /\ r.pc \in {"running", "wait"} => FlowRoutes \ {"addresses"} \subseteq r.routes
  /\ "askAddresses" \in r.flows \/ "addresses" \in r.flows => "addresses" \in r.routes
  /\ ~("askAddresses" \in r.flows /\ "addresses" \in r.flows)

(* What an honest peer has still to send has a route here, until an error  *)
(* of ours ends the connection; and a message that comes once is owed or   *)
(* queued or neither.                                                      *)
Trusted(c, r) ==
  c \in Honest =>
    /\ r.errChan # "ban" /\ r.hsErr # "ban"
    /\ r.isStopping \/ r.owed \subseteq r.routes
    /\ r.owed \cap r.queued \subseteq {"relay", "pong"}
    /\ r.rv = "ok" => "version" \notin r.owed
    /\ r.sv = "ok" => "verack" \notin r.owed
    /\ r.sv \in {"idle", "start"} => "verack" \notin r.owed \cup r.queued
    /\ "askAddresses" \in r.flows \/ r.pc \in {"spawned", "handshake", "register", "sendReady", "ready"}
       => "addresses" \notin r.owed \cup r.queued

Active(c, r) == r \in ConnRec /\ Closing(r) /\ Staged(r) /\ Trusted(c, r)
Local(c, r) == r = None \/ r = Gone \/ Active(c, r)

EnvInv == peerEnv \in Environments

ConnInv == conn = [c \in Conns |-> conn[c]] /\ \A c \in Conns : Local(c, conn[c])

(* A peer is in the map exactly while the goroutine that added it runs,    *)
(* and a connection is in the map of the net adapter only while it is      *)
(* neither new nor closed.                                                 *)
Shared ==
  /\ p2pConnections \subseteq Conns
  /\ peers \in [PeerIds -> Conns \cup {NoConn}]
  /\ \A c \in p2pConnections : conn[c].net \in {"started", "disconnecting"}
  /\ \A c \in Conns : conn[c].pc \in Registered => conn[c].id \in PeerIds /\ peers[conn[c].id] = c
  /\ \A i \in PeerIds : peers[i] \in Conns => conn[peers[i]].pc \in Registered /\ conn[peers[i]].id = i

BanInv == banned \subseteq Conns /\ HonestNeverBanned

IInv == EnvInv /\ ConnInv /\ Shared /\ BanInv

(* What the environment is.                                                *)
LEMMA EnvFacts ==
  ASSUME EnvInv
  PROVE  /\ Honest \subseteq Conns /\ BannedBefore \subseteq Conns
         /\ "relay" \in FlowRoutes /\ FlowRoutes \subseteq AllFlowRoutes
         /\ Routes \subseteq AllRoutes
BY ConnectionsAssumption DEF EnvInv, Honest, BannedBefore, FlowRoutes, Routes, AllRoutes

(* A connection one of whose goroutines runs is neither unmade nor gone.   *)
LEMMA Actives ==
  ASSUME ConnInv, NEW c \in Conns,
         \/ conn[c].net \in {"new", "started", "disconnecting"}
         \/ conn[c].recv = "recv" \/ conn[c].send = "loop"
         \/ conn[c].pc \in {"spawned", "handshake"} \cup Registered
         \/ conn[c].rv = "wait" \/ conn[c].sv \in {"start", "wait"}
         \/ conn[c].flows # {}
  PROVE  Active(c, conn[c])
<1>1. /\ None.net = "none" /\ None.recv = "idle" /\ None.send = "idle" /\ None.pc = "none"
      /\ None.rv = "idle" /\ None.sv = "idle" /\ None.flows = {}
  BY DEF None, Fresh
<1>2. /\ Gone.net = "closed" /\ Gone.recv = "idle" /\ Gone.send = "idle" /\ Gone.pc = "done"
      /\ Gone.rv = "idle" /\ Gone.sv = "idle" /\ Gone.flows = {}
  BY DEF Gone, None, Fresh
<1> QED BY <1>1, <1>2 DEF ConnInv, Local, Registered

(* The record that Set writes: the others stay, and this one keeps its net *)
(* and its pc, also when it is the end of the connection.                  *)
LEMMA SetFacts ==
  ASSUME ConnInv, NEW c \in Conns, NEW r, Set(c, r)
  PROVE  /\ conn' = [d \in Conns |-> conn'[d]]
         /\ \A d \in Conns : d # c => conn'[d] = conn[d]
         /\ conn'[c] = r \/ (conn'[c] = Gone /\ r.pc = "done" /\ r.net = "closed")
         /\ conn'[c].pc = r.pc /\ conn'[c].net = r.net
BY DEF ConnInv, Set, GoroutinesEnded, Gone, None, Fresh

(* An update of one connection that keeps the invariant of its record      *)
(* keeps that of all.                                                      *)
LEMMA ConnStep ==
  ASSUME ConnInv, NEW c \in Conns, NEW r, Set(c, r), Active(c, r), peerEnv' = peerEnv
  PROVE  ConnInv'
<1>1. \A d \in Conns : Local(d, conn'[d])
  BY SetFacts DEF ConnInv, Local
<1> QED BY <1>1, SetFacts DEF ConnInv, Local, Active, Closing, Staged, Trusted, Honest, FlowRoutes, Routes

(* The shared maps, when a connection stays registered or unregistered.    *)
LEMMA SharedMoves ==
  ASSUME ConnInv, Shared, NEW c \in Conns, NEW r, Set(c, r), UNCHANGED peers,
         r.pc \in Registered <=> conn[c].pc \in Registered, r.pc \in Registered => r.id = conn[c].id,
         p2pConnections' \subseteq p2pConnections \cup {c},
         c \in p2pConnections' => r.net \in {"started", "disconnecting"}
  PROVE  Shared'
<1>1. conn'[c].pc \in Registered => conn'[c].id = r.id
  BY SetFacts DEF Registered
<1>2. \A d \in p2pConnections' : d \in Conns /\ conn'[d].net \in {"started", "disconnecting"}
  BY SetFacts DEF Shared
<1>3. \A d \in Conns : conn'[d].pc \in Registered <=> conn[d].pc \in Registered
  BY SetFacts
<1>4. \A d \in Conns : conn[d].pc \in Registered => conn'[d].id = conn[d].id
  BY <1>1, <1>3, SetFacts
<1> QED BY <1>2, <1>3, <1>4 DEF Shared

(* Every action of a connection but those that register it, and those that *)
(* start and end its loops, leaves the shared maps as they are.            *)
Same(c, r) ==
  /\ r.net = conn[c].net
  /\ r.pc \in Registered <=> conn[c].pc \in Registered
  /\ r.pc \in Registered => r.id = conn[c].id

(* A step of one connection that keeps what the shared maps depend on.     *)
LEMMA SharedStep ==
  ASSUME ConnInv, Shared, NEW c \in Conns, NEW r, Set(c, r), Same(c, r),
         UNCHANGED <<p2pConnections, peers>>
  PROVE  Shared'
<1>1. c \in p2pConnections' => r.net \in {"started", "disconnecting"}
  BY DEF Shared, Same
<1> QED BY <1>1, SharedMoves DEF Same

(* Nothing that the invariant is about moves.                              *)
LEMMA NothingMoves ==
  ASSUME IInv, UNCHANGED <<peerEnv, conn, p2pConnections, peers, banned>>
  PROVE  IInv'
<1>1. ConnInv'
  BY DEF IInv, ConnInv, Local, Active, Closing, Staged, Trusted, Honest, FlowRoutes, Routes
<1>2. Shared'
  BY DEF IInv, Shared
<1> QED BY <1>1, <1>2 DEF IInv, EnvInv, BanInv, HonestNeverBanned, Honest, BannedBefore

(* The two together.                                                       *)
LEMMA RecordStep ==
  ASSUME IInv, NEW c \in Conns, NEW r, Set(c, r), Active(c, r), Same(c, r),
         UNCHANGED <<peerEnv, p2pConnections, peers, banned>>
  PROVE  IInv'
BY ConnStep, SharedStep DEF IInv, EnvInv, BanInv, HonestNeverBanned, Honest, BannedBefore

-----------------------------------------------------------------------------
(* The operations on the record of a connection.                           *)

(* What none of the operations on routes and errors touches.               *)
Alike(q, r) ==
  /\ q.pc = r.pc /\ q.net = r.net /\ q.id = r.id /\ q.rv = r.rv /\ q.sv = r.sv
  /\ q.recv = r.recv /\ q.routes = r.routes /\ q.flows = r.flows /\ q.owed = r.owed

(* A message queued for the other side.                                    *)
LEMMA EnqueueActive ==
  ASSUME NEW c, NEW r, Active(c, r)
  PROVE  LET q == RouteEnqueue(r)
         IN /\ Active(c, q) /\ Alike(q, r) /\ q.queued = r.queued
            /\ q.isRouterClosed = r.isRouterClosed /\ q.isStopping = r.isStopping
<1>1. CASE r.outClosed \/ r.out = Capacity
  BY <1>1 DEF RouteEnqueue, Alike
<1>2. CASE ~(r.outClosed \/ r.out = Capacity)
  <2> DEFINE q == [r EXCEPT !.out = @ + 1]
  <2>1. q \in ConnRec
    BY <1>2, ConnectionsAssumption DEF Active, ConnRec
  <2>2. /\ Closing(q) /\ Staged(q) /\ Trusted(c, q) /\ Alike(q, r) /\ q.queued = r.queued
        /\ q.isRouterClosed = r.isRouterClosed /\ q.isStopping = r.isStopping
    BY DEF Active, Closing, Staged, Trusted, ConnRec, Alike
  <2> QED BY <1>2, <2>1, <2>2 DEF Active, RouteEnqueue
<1> QED BY <1>1, <1>2

(* Whoever closes the router.                                              *)
LEMMA DisconnectActive ==
  ASSUME EnvInv, NEW c, NEW r, Active(c, r)
  PROVE  Active(c, Disconnect(r)) /\ Alike(Disconnect(r), r)
<1>1. CASE r.isRouterClosed
  BY <1>1 DEF Disconnect, Alike
<1>2. CASE ~r.isRouterClosed
  <2> DEFINE q == [[r EXCEPT !.closed = r.closed \cup r.routes, !.outClosed = TRUE, !.closes = @ + 1]
                     EXCEPT !.isRouterClosed = TRUE]
  <2>1. q \in ConnRec
    <3>1. r.closed \cup r.routes \in SUBSET AllRoutes /\ r.closes + 1 \in Nat
      BY DEF Active, ConnRec
    <3> QED BY <3>1 DEF Active, ConnRec
  <2>2. Closing(q)
    BY <1>2, EnvFacts DEF Active, Closing, Staged, ConnRec
  <2>3. Staged(q) /\ Trusted(c, q) /\ Alike(q, r)
    BY DEF Active, Staged, Trusted, ConnRec, Alike
  <2> QED BY <1>2, <2>1, <2>2, <2>3 DEF Active, Disconnect, RouterClose
<1> QED BY <1>1, <1>2

(* A message taken from a route.                                           *)
LEMMA DequeueActive ==
  ASSUME NEW c, NEW r, Active(c, r), NEW m
  PROVE  LET q == Dequeue(r, m)
         IN Active(c, q) /\ Alike(q, r) /\ q.queued = r.queued \ {m} /\ q.isStopping = r.isStopping
<1> DEFINE q == Dequeue(r, m)
<1>1. q \in ConnRec /\ Alike(q, r) /\ q.queued = r.queued \ {m} /\ q.isStopping = r.isStopping
  BY DEF Active, ConnRec, Dequeue, Alike
<1>2. Closing(q) /\ Staged(q)
  BY DEF Active, ConnRec, Closing, Staged, Dequeue
<1>3. Trusted(c, q)
  BY DEF Active, ConnRec, Trusted, Dequeue
<1> QED BY <1>1, <1>2, <1>3 DEF Active

(* An error of a flow or an invalid message.  Only when it is the first    *)
(* one does it matter which error it is.                                   *)
LEMMA HandleErrorActive ==
  ASSUME NEW c, NEW r, Active(c, r), NEW err \in Errors, c \in Honest => err # "ban" \/ r.isStopping
  PROVE  LET q == HandleError(r, err)
         IN Active(c, q) /\ Alike(q, r) /\ q.queued = r.queued /\ q.isStopping
<1> DEFINE q == HandleError(r, err)
<1>1. q \in ConnRec /\ Alike(q, r) /\ q.queued = r.queued /\ q.isStopping
  BY DEF Active, ConnRec, HandleError, Alike
<1>2. Closing(q) /\ Staged(q)
  BY DEF Active, ConnRec, Closing, Staged, HandleError
<1>3. Trusted(c, q)
  BY DEF Active, ConnRec, Trusted, HandleError
<1> QED BY <1>1, <1>2, <1>3 DEF Active

(* An error of the handshake.                                              *)
LEMMA HandshakeErrorActive ==
  ASSUME NEW c, NEW r, Active(c, r), NEW err \in Errors, c \in Honest => err # "ban"
  PROVE  LET q == HandshakeError(r, err)
         IN Active(c, q) /\ Alike(q, r) /\ q.queued = r.queued
<1> DEFINE q == HandshakeError(r, err)
<1>1. q \in ConnRec /\ Alike(q, r) /\ q.queued = r.queued
  BY DEF Active, ConnRec, HandshakeError, Alike
<1>2. Closing(q) /\ Staged(q)
  BY DEF Active, ConnRec, Closing, Staged, HandshakeError
<1>3. Trusted(c, q)
  BY DEF Active, ConnRec, Trusted, HandshakeError
<1> QED BY <1>1, <1>2, <1>3 DEF Active

(* The end of a flow.  An honest peer may find the route of a one-time     *)
(* flow gone only after an error.                                          *)
LEMMA EndFlowActive ==
  ASSUME NEW c, NEW r, Active(c, r), NEW f \in r.flows,
         c \in Honest /\ f \in {"askAddresses", "addresses"} => r.isStopping \/ "addresses" \notin r.owed
  PROVE  LET q == EndFlow(r, f)
         IN Active(c, q) /\ q.net = r.net /\ q.pc = r.pc /\ q.id = r.id
<1> DEFINE q == EndFlow(r, f)
<1>1. q \in ConnRec /\ q.net = r.net /\ q.pc = r.pc /\ q.id = r.id
  BY DEF Active, ConnRec, EndFlow
<1>2. Closing(q)
  BY DEF Active, ConnRec, Closing, EndFlow
<1>3. Staged(q)
  <2>1. /\ q.pc = r.pc /\ q.rv = r.rv /\ q.sv = r.sv /\ q.id = r.id /\ q.flows = r.flows \ {f}
        /\ q.routes = IF f \in {"askAddresses", "addresses"} THEN r.routes \ {"addresses"} ELSE r.routes
    BY DEF Active, ConnRec, EndFlow
  <2> QED BY <2>1 DEF Active, Staged, HandshakeRoutes
<1>4. Trusted(c, q)
  BY DEF Active, ConnRec, Trusted, EndFlow
<1> QED BY <1>1, <1>2, <1>3, <1>4 DEF Active

(* A flow ends with an error.                                              *)
LEMMA FailFlowActive ==
  ASSUME NEW c, NEW r, Active(c, r), NEW f \in r.flows, NEW err \in Errors, c \in Honest => err # "ban"
  PROVE  LET q == FailFlow(r, f, err)
         IN Active(c, q) /\ q.net = r.net /\ q.pc = r.pc /\ q.id = r.id
<1> DEFINE h == HandleError(r, err)
<1>1. Active(c, h) /\ Alike(h, r) /\ h.isStopping
  BY HandleErrorActive
<1>2. Active(c, EndFlow(h, f)) /\ EndFlow(h, f).net = h.net /\ EndFlow(h, f).pc = h.pc /\ EndFlow(h, f).id = h.id
  BY <1>1, EndFlowActive DEF Alike
<1> QED BY <1>1, <1>2 DEF FailFlow, Alike

(* What the errors are.                                                    *)
LEMMA EnqueueErrors == \A r : EnqueueError(r) \in {"closed", "noban", NoErr}
BY DEF EnqueueError

(* Manager.handleError, and where the goroutine goes on.                   *)
LEMMA ManagerHandleErrorActive ==
  ASSUME EnvInv, NEW c, NEW r, Active(c, r), NEW err
  PROVE  Active(c, ManagerHandleError(r, err)) /\ Alike(ManagerHandleError(r, err), r)
<1>1. CASE err = "ban"
  <2>1. Active(c, RouteEnqueue(r)) /\ Alike(RouteEnqueue(r), r)
    BY EnqueueActive
  <2>2. Active(c, Disconnect(RouteEnqueue(r))) /\ Alike(Disconnect(RouteEnqueue(r)), RouteEnqueue(r))
    BY <2>1, DisconnectActive
  <2> QED BY <1>1, <2>1, <2>2 DEF ManagerHandleError, Alike
<1>2. CASE err = "noban"
  BY <1>2, DisconnectActive DEF ManagerHandleError
<1>3. CASE err # "ban" /\ err # "noban"
  BY <1>3 DEF ManagerHandleError, Alike
<1> QED BY <1>1, <1>2, <1>3

(* routerInitializer goes on to its last steps once its flows have ended.  *)
LEMMA PcActive ==
  ASSUME NEW c, NEW r, Active(c, r), NEW next \in {"wait", "cleanup", "done"},
         next = "wait" => r.pc = "running",
         next = "cleanup" => r.pc \in Registered /\ r.flows = {},
         next = "done" => r.flows = {}
  PROVE  LET q == [r EXCEPT !.pc = next]
         IN Active(c, q) /\ q.pc = next /\ q.net = r.net /\ q.id = r.id
<1> DEFINE q == [r EXCEPT !.pc = next]
<1>1. q \in ConnRec /\ q.pc = next /\ q.net = r.net /\ q.id = r.id
  BY DEF Active, ConnRec, Registered
<1>2. Closing(q)
  BY DEF Active, ConnRec, Closing, Registered
<1>3. Staged(q)
  BY DEF Active, ConnRec, Staged, Registered
<1>4. Trusted(c, q)
  BY DEF Active, ConnRec, Trusted, Registered
<1> QED BY <1>1, <1>2, <1>3, <1>4 DEF Active

-----------------------------------------------------------------------------
(* The actions.                                                            *)

(* Recv fails.                                                             *)
LEMMA StreamEndsStep ==
  ASSUME IInv, NEW c \in Conns, StreamEnds(c) PROVE IInv'
<1> DEFINE r == conn[c]  q == [r EXCEPT !.recv = "ended"]
<1>1. Active(c, r)
  BY Actives DEF IInv, StreamEnds
<1>2. Active(c, q) /\ Same(c, q)
  BY <1>1 DEF Active, ConnRec, Closing, Staged, Trusted, Same
<1> QED BY <1>2, RecordStep DEF StreamEnds

(* The send loop.                                                          *)
LEMMA SendLoopStep ==
  ASSUME IInv, NEW c \in Conns, SendLoop(c) PROVE IInv'
<1> DEFINE r == conn[c]
           q1 == [r EXCEPT !.out = @ - 1, !.send = IF IsConnected(r) THEN "loop" ELSE "ended"]
           q2 == [r EXCEPT !.send = "ended"]
<1>1. Active(c, r)
  BY Actives DEF IInv, SendLoop
<1>2. r.out > 0 => Active(c, q1) /\ Same(c, q1)
  <2>1. r.out > 0 => r.out - 1 \in 0 .. Capacity
    BY <1>1, ConnectionsAssumption DEF Active, ConnRec
  <2>2. r.out > 0 => q1 \in ConnRec
    <3>1. ASSUME NEW x \in 0 .. Capacity, NEW y \in {"loop", "ended"}
          PROVE  [r EXCEPT !.out = x, !.send = y] \in ConnRec
      BY <1>1 DEF Active, ConnRec
    <3> QED BY <2>1, <3>1
  <2>3. Closing(q1) /\ Staged(q1) /\ Trusted(c, q1) /\ Same(c, q1)
    BY <1>1 DEF Active, ConnRec, Closing, Staged, Trusted, Same
  <2> QED BY <2>2, <2>3 DEF Active
<1>3. Active(c, q2) /\ Same(c, q2)
  BY <1>1 DEF Active, ConnRec, Closing, Staged, Trusted, Same
<1> QED BY <1>2, <1>3, RecordStep DEF SendLoop

(* A message arrives.                                                      *)
LEMMA ReceiveStep ==
  ASSUME IInv, NEW c \in Conns, NEW m \in Routes, ReceiveLoop(c, m) PROVE IInv'
<1> DEFINE r == [conn[c] EXCEPT !.owed = @ \ ({m} \ {"relay"})]
           q1 == [IF r.handler THEN HandleError(r, "ban") ELSE r EXCEPT !.recv = "ended"]
           q2 == [r EXCEPT !.recv = "ended"]
           q3 == [r EXCEPT !.queued = @ \cup {m}, !.recv = IF IsConnected(r) THEN "recv" ELSE "ended"]
<1>1. Active(c, conn[c])
  BY Actives DEF IInv, ReceiveLoop
<1>2. Active(c, r) /\ r.pc = conn[c].pc /\ r.net = conn[c].net /\ r.id = conn[c].id /\ r.routes = conn[c].routes
  <2>1. r \in ConnRec /\ Closing(r) /\ Staged(r)
    BY <1>1 DEF Active, ConnRec, Closing, Staged
  <2>2. Trusted(c, r)
    BY <1>1 DEF Active, ConnRec, Trusted
  <2>3. r.pc = conn[c].pc /\ r.net = conn[c].net /\ r.id = conn[c].id /\ r.routes = conn[c].routes
    BY <1>1 DEF Active, ConnRec
  <2> QED BY <2>1, <2>2, <2>3 DEF Active
<1>3. ASSUME NEW x, Active(c, x), x.pc = r.pc, x.net = r.net, x.id = r.id
      PROVE  Active(c, [x EXCEPT !.recv = "ended"]) /\ Same(c, [x EXCEPT !.recv = "ended"])
  BY <1>2, <1>3 DEF Active, ConnRec, Closing, Staged, Trusted, Same
<1>4. m \notin r.routes => Active(c, q1) /\ Same(c, q1)
  <2>1. m \notin r.routes /\ c \in Honest => r.isStopping
    BY <1>1, <1>2 DEF ReceiveLoop, Active, Trusted, ConnRec
  <2>2. m \notin r.routes => Active(c, HandleError(r, "ban")) /\ Alike(HandleError(r, "ban"), r)
    BY <1>2, <2>1, HandleErrorActive DEF Errors
  <2> QED BY <1>2, <1>3, <2>2 DEF Alike
<1>5. Active(c, q2) /\ Same(c, q2)
  BY <1>2, <1>3
<1>6. Active(c, q3) /\ Same(c, q3)
  <2>1. m \in AllRoutes
    BY EnvFacts DEF IInv
  <2>2. q3 \in ConnRec /\ Same(c, q3)
    BY <1>1, <1>2, <2>1 DEF Active, ConnRec, Same
  <2>3. Closing(q3) /\ Staged(q3)
    BY <1>1, <1>2 DEF Active, ConnRec, Closing, Staged
  <2>4. Trusted(c, q3)
    BY <1>1, <1>2 DEF Active, ConnRec, Trusted, ReceiveLoop, HandshakeRoutes, AllFlowRoutes, AllRoutes
  <2> QED BY <2>2, <2>3, <2>4 DEF Active
<1>7. \E x : Set(c, x) /\ Active(c, x) /\ Same(c, x)
  BY <1>4, <1>5, <1>6 DEF ReceiveLoop
<1> QED BY <1>7, RecordStep DEF ReceiveLoop

(* A connection is made.                                                   *)
LEMMA NewStep ==
  ASSUME IInv, NEW c \in Conns, NewNetConnection(c) PROVE IInv'
<1>1. Active(c, Fresh)
  <2>1. Fresh \in ConnRec
    BY ConnectionsAssumption DEF ConnRec, Fresh, Errors, AllRoutes, HandshakeRoutes
  <2>2. Closing(Fresh) /\ Staged(Fresh)
    BY DEF Closing, Staged, Fresh, Routes, HandshakeRoutes, Registered
  <2>3. Trusted(c, Fresh)
    BY DEF Trusted, Fresh, HandshakeRoutes, NoErr
  <2> QED BY <2>1, <2>2, <2>3 DEF Active
<1>2. ConnInv'
  BY <1>1, ConnStep DEF IInv, NewNetConnection
<1>3. Fresh.pc = "spawned"
  BY DEF Fresh
<1>4. c \notin p2pConnections
  <2>1. CASE conn[c] = None
    BY <2>1 DEF IInv, Shared, None, Fresh
  <2>2. CASE conn[c] = Gone
    BY <2>2 DEF NewNetConnection, Gone, None, Fresh
  <2>3. CASE Active(c, conn[c])
    BY <2>3 DEF NewNetConnection, Active, ConnRec, Registered
  <2> QED BY <2>1, <2>2, <2>3 DEF IInv, ConnInv, Local
<1>5. Shared'
  BY <1>3, <1>4, SetFacts DEF IInv, Shared, NewNetConnection, Registered
<1> QED BY <1>2, <1>5 DEF IInv, EnvInv, BanInv, HonestNeverBanned, Honest, BannedBefore, NewNetConnection

(* Its loops start.                                                        *)
LEMMA StartStep ==
  ASSUME IInv, NEW c \in Conns, Start(c) PROVE IInv'
<1> DEFINE q == [conn[c] EXCEPT !.net = "started", !.send = "loop", !.recv = IF StreamStopped(c) THEN "ended" ELSE "recv"]
<1>1. Active(c, conn[c])
  BY Actives DEF IInv, Start
<1>2. Active(c, q) /\ q.net = "started" /\ q.pc = conn[c].pc /\ q.id = conn[c].id
  <2>1. ASSUME NEW y \in {"recv", "ended"}
        PROVE  LET x == [conn[c] EXCEPT !.net = "started", !.send = "loop", !.recv = y]
               IN Active(c, x) /\ x.net = "started" /\ x.pc = conn[c].pc /\ x.id = conn[c].id
    <3> DEFINE x == [conn[c] EXCEPT !.net = "started", !.send = "loop", !.recv = y]
    <3>1. x \in ConnRec
      BY <1>1 DEF Active, ConnRec
    <3>2. x.net = "started" /\ x.pc = conn[c].pc /\ x.id = conn[c].id
      BY <1>1 DEF Active, ConnRec
    <3>3. Closing(x) /\ Staged(x) /\ Trusted(c, x)
      BY <1>1 DEF Active, ConnRec, Closing, Staged, Trusted
    <3> QED BY <3>1, <3>2, <3>3 DEF Active
  <2> QED BY <2>1
<1>3. ConnInv'
  BY <1>2, ConnStep DEF IInv, Start
<1>4. Shared'
  BY <1>2, SharedMoves DEF IInv, Start
<1> QED BY <1>3, <1>4 DEF IInv, EnvInv, BanInv, HonestNeverBanned, Honest, BannedBefore, Start

(* The first loop has ended.                                               *)
LEMMA DisconnectStartStep ==
  ASSUME IInv, NEW c \in Conns, DisconnectStart(c) PROVE IInv'
<1> DEFINE q == [conn[c] EXCEPT !.net = "disconnecting"]
<1>1. Active(c, conn[c])
  BY Actives DEF IInv, DisconnectStart
<1>2. Active(c, q) /\ q.net = "disconnecting" /\ q.pc = conn[c].pc /\ q.id = conn[c].id
  BY <1>1 DEF Active, ConnRec, Closing, Staged, Trusted
<1>3. ConnInv'
  BY <1>2, ConnStep DEF IInv, DisconnectStart
<1>4. Shared'
  BY <1>2, SharedMoves DEF IInv, DisconnectStart
<1> QED BY <1>3, <1>4 DEF IInv, EnvInv, BanInv, HonestNeverBanned, Honest, BannedBefore, DisconnectStart

(* The connection leaves the map of the net adapter.                       *)
LEMMA DisconnectFinishStep ==
  ASSUME IInv, NEW c \in Conns, DisconnectFinish(c) PROVE IInv'
<1> DEFINE d == Disconnect(conn[c])
           q == [d EXCEPT !.net = "closed"]
<1>1. Active(c, conn[c])
  BY Actives DEF IInv, DisconnectFinish
<1>2. Active(c, d) /\ Alike(d, conn[c])
  BY <1>1, DisconnectActive DEF IInv
<1>3. Active(c, q) /\ q.net = "closed" /\ q.pc = conn[c].pc /\ q.id = conn[c].id
  BY <1>2 DEF Active, ConnRec, Closing, Staged, Trusted, Alike
<1>4. ConnInv'
  BY <1>3, ConnStep DEF IInv, DisconnectFinish
<1>6. Shared'
  BY <1>3, SharedMoves DEF IInv, DisconnectFinish
<1> QED BY <1>4, <1>6 DEF IInv, EnvInv, BanInv, HonestNeverBanned, Honest, BannedBefore, DisconnectFinish

(* The goroutine of the protocol begins.                                   *)
LEMMA RunFlowsBeginStep ==
  ASSUME IInv, NEW c \in Conns, RunFlowsBegin(c) PROVE IInv'
<1> DEFINE r == conn[c]
           d == Disconnect(r)
           q == [r EXCEPT !.handler = TRUE, !.pc = "handshake", !.rv = "wait", !.sv = "start"]
<1>1. Active(c, r) /\ r.pc = "spawned"
  BY Actives DEF IInv, RunFlowsBegin
<1>2. Active(c, d) /\ Alike(d, r)
  BY <1>1, DisconnectActive DEF IInv
<1>3. Active(c, [d EXCEPT !.pc = "done"]) /\ Same(c, [d EXCEPT !.pc = "done"])
  <2>1. d.flows = {}
    BY <1>1, <1>2 DEF Alike, Active, Staged
  <2> QED BY <1>1, <1>2, <2>1, PcActive DEF Alike, Same, Registered
<1>4. Active(c, q) /\ Same(c, q)
  <2>1. q \in ConnRec
    BY <1>1 DEF Active, ConnRec
  <2>2. Closing(q) /\ Same(c, q)
    BY <1>1 DEF Active, ConnRec, Closing, Same, Registered
  <2>3. Staged(q)
    BY <1>1 DEF Active, ConnRec, Staged, Registered
  <2>4. /\ q.errChan = r.errChan /\ q.hsErr = r.hsErr /\ q.isStopping = r.isStopping /\ q.owed = r.owed
        /\ q.queued = r.queued /\ q.routes = r.routes /\ q.flows = r.flows
        /\ q.rv = "wait" /\ q.sv = "start" /\ r.sv = "idle"
    BY <1>1 DEF Active, ConnRec, Staged
  <2>5. Trusted(c, q)
    BY <1>1, <2>4 DEF Active, Trusted
  <2> QED BY <2>1, <2>2, <2>3, <2>5 DEF Active
<1>5. CASE UNCHANGED conn
  BY <1>5, NothingMoves DEF RunFlowsBegin
<1> QED BY <1>3, <1>4, <1>5, RecordStep DEF RunFlowsBegin

(* What an honest peer owes us for what we queued.                         *)
LEMMA OwesActive ==
  ASSUME NEW c, NEW r, Active(c, r), NEW m \in r.routes \cap AllRoutes,
         m \in r.queued => m \in {"relay", "pong"},
         m = "version" => r.rv # "ok",
         m = "verack" => r.sv \notin {"idle", "start", "ok"},
         m = "addresses" => "askAddresses" \notin r.flows /\ r.pc \in {"running", "wait"}
  PROVE  LET q == Owes(c, r, m)
         IN Active(c, q) /\ q.pc = r.pc /\ q.net = r.net /\ q.id = r.id
<1>1. CASE c \in Honest
  <2> DEFINE q == [r EXCEPT !.owed = @ \cup {m}]
  <2>1. q \in ConnRec
    BY DEF Active, ConnRec
  <2>2. q.pc = r.pc /\ q.net = r.net /\ q.id = r.id
    BY DEF Active, ConnRec
  <2>3. Closing(q) /\ Staged(q)
    BY DEF Active, ConnRec, Closing, Staged
  <2>4. /\ q.errChan = r.errChan /\ q.hsErr = r.hsErr /\ q.isStopping = r.isStopping
        /\ q.queued = r.queued /\ q.routes = r.routes /\ q.flows = r.flows /\ q.rv = r.rv /\ q.sv = r.sv
        /\ q.owed = r.owed \cup {m}
    BY DEF Active, ConnRec
  <2>5. Trusted(c, q)
    BY <2>2, <2>4 DEF Active, Trusted
  <2> QED BY <1>1, <2>1, <2>2, <2>3, <2>5 DEF Active, Owes
<1>2. CASE c \notin Honest
  BY <1>2 DEF Owes
<1> QED BY <1>1, <1>2

(* ReceiveVersion.                                                         *)
LEMMA ReceiveVersionStep ==
  ASSUME IInv, NEW c \in Conns, ReceiveVersion(c) PROVE IInv'
<1> DEFINE r == conn[c]
           d == Dequeue(r, "version")
<1>1. Active(c, r) /\ r.rv = "wait"
  BY Actives DEF IInv, ReceiveVersion
<1>2. Active(c, d) /\ Alike(d, r) /\ d.queued = r.queued \ {"version"}
  BY <1>1, DequeueActive
<1>3. ASSUME NEW x, Active(c, x), Alike(x, r)
      PROVE  Active(c, [x EXCEPT !.rv = "done"]) /\ Same(c, [x EXCEPT !.rv = "done"])
  <2> DEFINE q == [x EXCEPT !.rv = "done"]
  <2>1. q \in ConnRec /\ Closing(q)
    BY <1>3 DEF Active, ConnRec, Closing
  <2>2. Staged(q) /\ Same(c, q)
    BY <1>1, <1>3 DEF Active, ConnRec, Staged, Same, Alike, Registered
  <2>3. Trusted(c, q)
    BY <1>3 DEF Active, ConnRec, Trusted
  <2> QED BY <2>1, <2>2, <2>3 DEF Active
<1>4. ASSUME NEW x, Active(c, x), Alike(x, r), NEW err \in Errors, c \in Honest => err # "ban"
      PROVE  LET q == [HandshakeError(x, err) EXCEPT !.rv = "done"]
             IN Active(c, q) /\ Same(c, q)
  <2>1. Active(c, HandshakeError(x, err)) /\ Alike(HandshakeError(x, err), x)
    BY <1>4, HandshakeErrorActive
  <2>2. Alike(HandshakeError(x, err), r)
    BY <1>4, <2>1 DEF Alike
  <2> QED BY <1>3, <2>1, <2>2
<1>5. ASSUME NEW i \in PeerIds, HasMessage(r, "version")
      PROVE  LET q == [RouteEnqueue(d) EXCEPT !.rv = "ok", !.id = i]
             IN Active(c, q) /\ Same(c, q)
  <2> DEFINE e == RouteEnqueue(d)
             q == [e EXCEPT !.rv = "ok", !.id = i]
  <2>1. Active(c, e) /\ Alike(e, d)
    BY <1>2, EnqueueActive
  <2>2. q \in ConnRec
    BY <2>1 DEF Active, ConnRec
  <2>3. Closing(q)
    BY <2>1 DEF Active, ConnRec, Closing
  <2>4. Staged(q) /\ Same(c, q)
    BY <1>1, <1>2, <2>1 DEF Active, ConnRec, Staged, Same, Alike, Registered
  <2>5. c \in Honest => "version" \notin e.owed
    BY <1>1, <1>2, <1>5, <2>1 DEF Active, Trusted, HasMessage, Alike
  <2>6. Trusted(c, q)
    BY <2>1, <2>5 DEF Active, ConnRec, Trusted
  <2> QED BY <2>2, <2>3, <2>4, <2>6 DEF Active
<1>6. Alike(r, r)
  BY DEF Alike
<1>7. \A err \in ProtocolErrors(c) : err \in Errors /\ (c \in Honest => err # "ban")
  BY DEF ProtocolErrors, Errors
<1>8. EnqueueError(r) # NoErr => EnqueueError(r) \in Errors /\ EnqueueError(r) # "ban"
  BY EnqueueErrors DEF Errors
<1>9. \E x : Set(c, x) /\ Active(c, x) /\ Same(c, x)
  <2>1. ASSUME NEW err \in ProtocolErrors(c), Set(c, [HandshakeError(d, err) EXCEPT !.rv = "done"])
        PROVE  \E x : Set(c, x) /\ Active(c, x) /\ Same(c, x)
    BY <1>2, <1>4, <1>7, <2>1
  <2>2. CASE EnqueueError(r) # NoErr /\ Set(c, [HandshakeError(d, EnqueueError(r)) EXCEPT !.rv = "done"])
    BY <1>2, <1>4, <1>8, <2>2
  <2>3. CASE HasMessage(r, "version") /\ \E i \in PeerIds : Set(c, [RouteEnqueue(d) EXCEPT !.rv = "ok", !.id = i])
    BY <1>5, <2>3
  <2>4. CASE Set(c, [HandshakeError(r, "closed") EXCEPT !.rv = "done"])
    BY <1>1, <1>4, <1>6, <2>4 DEF Errors
  <2>5. CASE Set(c, [HandshakeError(r, "noban") EXCEPT !.rv = "done"])
    BY <1>1, <1>4, <1>6, <2>5 DEF Errors
  <2> QED BY <2>1, <2>2, <2>3, <2>4, <2>5 DEF ReceiveVersion
<1> QED BY <1>9, RecordStep DEF ReceiveVersion

(* SendVersion.                                                            *)
LEMMA SendVersionStep ==
  ASSUME IInv, NEW c \in Conns, SendVersion(c) PROVE IInv'
<1> DEFINE r == conn[c]
<1>1. Active(c, r) /\ r.sv \in {"start", "wait"}
  BY Actives DEF IInv, SendVersion
<1>2. ASSUME NEW x, Active(c, x), Alike(x, r), NEW y \in {"ok", "done"},
             y = "ok" /\ c \in Honest => "verack" \notin x.owed
      PROVE  Active(c, [x EXCEPT !.sv = y]) /\ Same(c, [x EXCEPT !.sv = y])
  <2> DEFINE q == [x EXCEPT !.sv = y]
  <2>1. q \in ConnRec /\ Closing(q)
    BY <1>2 DEF Active, ConnRec, Closing
  <2>2. Staged(q) /\ Same(c, q)
    BY <1>1, <1>2 DEF Active, ConnRec, Staged, Same, Alike, Registered
  <2>3. Trusted(c, q)
    BY <1>2 DEF Active, ConnRec, Trusted
  <2> QED BY <2>1, <2>2, <2>3 DEF Active
<1>3. ASSUME NEW err \in {"closed", "noban"}
      PROVE  LET q == [HandshakeError(r, err) EXCEPT !.sv = "done"]
             IN Active(c, q) /\ Same(c, q)
  BY <1>1, <1>2, HandshakeErrorActive DEF Errors
<1>4. r.sv = "start" => LET q == [Owes(c, RouteEnqueue(r), "verack") EXCEPT !.sv = "wait"]
                        IN Active(c, q) /\ Same(c, q)
  <2> SUFFICES ASSUME r.sv = "start"
               PROVE  LET q == [Owes(c, RouteEnqueue(r), "verack") EXCEPT !.sv = "wait"]
                      IN Active(c, q) /\ Same(c, q)
    OBVIOUS
  <2> DEFINE e == RouteEnqueue(r)
             o == Owes(c, e, "verack")
             q == [o EXCEPT !.sv = "wait"]
  <2>1. Active(c, e) /\ Alike(e, r) /\ e.queued = r.queued
    BY <1>1, EnqueueActive
  <2>2. /\ o \in ConnRec /\ o.sv = "start" /\ o.pc = e.pc /\ o.net = e.net /\ o.id = e.id /\ o.routes = e.routes
        /\ o.rv = e.rv /\ o.flows = e.flows /\ o.queued = e.queued /\ o.isStopping = e.isStopping
        /\ o.errChan = e.errChan /\ o.hsErr = e.hsErr
        /\ o.owed = IF c \in Honest THEN e.owed \cup {"verack"} ELSE e.owed
    BY <2>1 DEF Owes, Active, ConnRec, Alike, AllRoutes, HandshakeRoutes
  <2>3. /\ q.sv = "wait" /\ q.pc = e.pc /\ q.net = e.net /\ q.id = e.id /\ q.routes = e.routes
        /\ q.rv = e.rv /\ q.flows = e.flows /\ q.queued = e.queued /\ q.isStopping = e.isStopping
        /\ q.errChan = e.errChan /\ q.hsErr = e.hsErr
        /\ q.owed = IF c \in Honest THEN e.owed \cup {"verack"} ELSE e.owed
    BY <2>2 DEF ConnRec
  <2>4. q \in ConnRec
    BY <2>2 DEF ConnRec
  <2>5. Closing(q)
    BY <2>1, <2>2 DEF Active, ConnRec, Closing, Owes, Routes, HandshakeRoutes
  <2>6. e.pc \notin Registered
    BY <1>1, <2>1 DEF Active, Staged, Alike
  <2>7. Staged(q)
    BY <2>1, <2>3, <2>6 DEF Active, Staged, Registered, Alike
  <2>8. Trusted(c, q)
    <3>1. e.sv = "start" /\ "verack" \in e.routes
      BY <2>1 DEF Active, Staged, HandshakeRoutes, Alike
    <3> QED BY <2>1, <2>3, <3>1 DEF Active, Trusted
  <2> QED BY <2>1, <2>3, <2>4, <2>5, <2>6, <2>7, <2>8 DEF Active, Same, Alike
<1>5. HasMessage(r, "verack") => LET q == [Dequeue(r, "verack") EXCEPT !.sv = "ok"]
                                 IN Active(c, q) /\ Same(c, q)
  <2> DEFINE d == Dequeue(r, "verack")
  <2>1. Active(c, d) /\ Alike(d, r)
    BY <1>1, DequeueActive
  <2>2. HasMessage(r, "verack") /\ c \in Honest => "verack" \notin d.owed
    BY <1>1, <2>1 DEF Active, Trusted, HasMessage, Alike
  <2> QED BY <1>2, <2>1, <2>2
<1>6. EnqueueError(r) # NoErr => EnqueueError(r) \in {"closed", "noban"}
  BY EnqueueErrors
<1>7. \E x : Set(c, x) /\ Active(c, x) /\ Same(c, x)
  BY <1>3, <1>4, <1>5, <1>6 DEF SendVersion
<1> QED BY <1>7, RecordStep DEF SendVersion

(* An error ends the goroutine of the protocol; what it may ban is never   *)
(* an honest peer.                                                         *)
LEMMA EndStep ==
  ASSUME IInv, NEW c \in Conns, NEW r, NEW err, NEW next, EndWith(c, r, err, next),
         Active(c, r), Alike(r, conn[c]), c \in Honest => err # "ban",
         next \in {"wait", "cleanup", "done"},
         next = "wait" => r.pc = "running",
         next = "cleanup" => r.pc \in Registered /\ r.flows = {},
         next = "done" => r.pc \notin Registered,
         UNCHANGED <<peerEnv, p2pConnections, peers>>
  PROVE  IInv'
<1> DEFINE h == ManagerHandleError(r, err)
           q == [h EXCEPT !.pc = next]
<1>1. Active(c, h) /\ Alike(h, r)
  BY ManagerHandleErrorActive DEF IInv
<1>2. next = "done" => h.flows = {}
  BY <1>1 DEF Active, Staged, Alike, Registered
<1>3. Active(c, q) /\ q.pc = next /\ q.net = h.net /\ q.id = h.id
  <2>1. h.pc = r.pc /\ h.flows = r.flows
    BY <1>1 DEF Alike
  <2>2. /\ next = "wait" => h.pc = "running"
        /\ next = "cleanup" => h.pc \in Registered /\ h.flows = {}
        /\ next = "done" => h.flows = {}
    BY <1>2, <2>1
  <2> HIDE DEF h
  <2> QED BY <1>1, <2>2, PcActive
<1>4. Same(c, q)
  BY <1>1, <1>3 DEF Same, Alike, Registered
<1>5. Set(c, q) /\ banned' = IF err = "ban" THEN banned \cup {c} ELSE banned
  BY DEF EndWith
<1>6. ConnInv' /\ Shared'
  BY <1>3, <1>4, <1>5, ConnStep, SharedStep DEF IInv
<1> QED BY <1>5, <1>6 DEF IInv, EnvInv, BanInv, HonestNeverBanned, Honest, BannedBefore

(* The handshake failed.                                                   *)
LEMMA HandshakeFailsStep ==
  ASSUME IInv, NEW c \in Conns, HandshakeFails(c) PROVE IInv'
<1> DEFINE r == conn[c]
           q == [r EXCEPT !.errChan = NoErr]
           err == IF r.errChan # NoErr /\ r.hsErr = "closed" THEN r.errChan ELSE r.hsErr
<1>1. Active(c, r) /\ r.pc = "handshake"
  BY Actives DEF IInv, HandshakeFails
<1>2. Active(c, q) /\ Alike(q, r)
  BY <1>1 DEF Active, ConnRec, Closing, Staged, Trusted, Alike, NoErr
<1>3. c \in Honest => err # "ban"
  BY <1>1 DEF Active, Trusted
<1>4. EndWith(c, q, err, "done")
  BY DEF HandshakeFails
<1>5. q.pc \notin Registered
  BY <1>1, <1>2 DEF Alike, Registered
<1> QED BY <1>2, <1>3, <1>4, <1>5, EndStep DEF HandshakeFails

(* A peer is registered, unless its ID is registered already.              *)
LEMMA AddToPeersStep ==
  ASSUME IInv, NEW c \in Conns, AddToPeers(c) PROVE IInv'
<1> DEFINE r == conn[c]
           q == [r EXCEPT !.pc = "register"]
<1>1. Active(c, r) /\ r.pc = "handshake" /\ r.rv = "ok" /\ r.sv = "ok"
  BY Actives DEF IInv, AddToPeers
<1>2. CASE peers[r.id] # NoConn
  <2>1. EndWith(c, r, "noban", "done") /\ UNCHANGED <<peerEnv, p2pConnections, peers>>
    BY <1>2 DEF AddToPeers
  <2>2. Alike(r, r) /\ r.pc \notin Registered
    BY <1>1 DEF Alike, Registered
  <2> QED BY <1>1, <2>1, <2>2, EndStep
<1>3. CASE peers[r.id] = NoConn
  <2>1. Set(c, q) /\ peers' = [peers EXCEPT ![r.id] = c] /\ UNCHANGED <<peerEnv, p2pConnections, banned>>
    BY <1>3 DEF AddToPeers
  <2>2. Active(c, q)
    <3>1. q \in ConnRec /\ Closing(q)
      BY <1>1 DEF Active, ConnRec, Closing, Registered
    <3>2. Staged(q) /\ Trusted(c, q)
      BY <1>1 DEF Active, ConnRec, Staged, Trusted, Registered
    <3> QED BY <3>1, <3>2 DEF Active
  <2>3. q.pc = "register" /\ q.net = r.net /\ q.id = r.id /\ r.id \in PeerIds
    BY <1>1 DEF Active, ConnRec, Staged
  <2>4. ConnInv'
    BY <2>1, <2>2, ConnStep DEF IInv
  <2>5. conn'[c] = q /\ \A d \in Conns : d # c => conn'[d] = conn[d]
    BY <2>1, <2>3, SetFacts DEF IInv
  <2>6. \A d \in Conns : conn'[d].net = conn[d].net
    BY <2>3, <2>5
  <2>7. \A d \in Conns : conn[d].pc \in Registered => d # c /\ conn[d].id # r.id
    BY <1>1, <1>3, ConnectionsAssumption DEF IInv, Shared, Registered
  <2>8. Shared'
    <3>1. p2pConnections' \subseteq Conns /\ peers' \in [PeerIds -> Conns \cup {NoConn}]
      BY <2>1, <2>3 DEF IInv, Shared
    <3>2. \A d \in p2pConnections' : conn'[d].net \in {"started", "disconnecting"}
      BY <2>1, <2>6 DEF IInv, Shared
    <3>3. \A d \in Conns : conn'[d].pc \in Registered => conn'[d].id \in PeerIds /\ peers'[conn'[d].id] = d
      <4>1. peers'[r.id] = c /\ \A i \in PeerIds : i # r.id => peers'[i] = peers[i]
        BY <2>1, <2>3 DEF IInv, Shared
      <4>2. conn'[c].id \in PeerIds /\ peers'[conn'[c].id] = c
        BY <2>3, <2>5, <4>1
      <4>3. ASSUME NEW d \in Conns, d # c, conn'[d].pc \in Registered
            PROVE  conn'[d].id \in PeerIds /\ peers'[conn'[d].id] = d
        BY <2>5, <2>7, <4>1, <4>3 DEF IInv, Shared
      <4> QED BY <4>2, <4>3
    <3>4. \A i \in PeerIds : peers'[i] \in Conns => conn'[peers'[i]].pc \in Registered /\ conn'[peers'[i]].id = i
      <4>1. peers'[r.id] = c /\ \A i \in PeerIds : i # r.id => peers'[i] = peers[i]
        BY <2>1, <2>3 DEF IInv, Shared
      <4>2. conn'[c].pc \in Registered /\ conn'[c].id = r.id
        BY <2>3, <2>5 DEF Registered
      <4>3. ASSUME NEW i \in PeerIds, i # r.id, peers[i] \in Conns
            PROVE  conn'[peers[i]].pc \in Registered /\ conn'[peers[i]].id = i
        <5>1. conn[peers[i]].pc \in Registered /\ conn[peers[i]].id = i
          BY <4>3 DEF IInv, Shared
        <5>2. peers[i] # c
          BY <1>1, <5>1 DEF Registered
        <5> QED BY <2>5, <4>3, <5>1, <5>2
      <4> QED BY <4>1, <4>2, <4>3
    <3> QED BY <3>1, <3>2, <3>3, <3>4 DEF Shared
  <2> QED BY <2>1, <2>4, <2>8 DEF IInv, EnvInv, BanInv, HonestNeverBanned, Honest, BannedBefore
<1> QED BY <1>2, <1>3

(* A peer is removed by the goroutine that registered it.                  *)
LEMMA RemoveFromPeersStep ==
  ASSUME IInv, NEW c \in Conns, RemoveFromPeers(c) PROVE IInv'
<1> DEFINE r == conn[c]
           q == [r EXCEPT !.pc = "done"]
<1>1. Active(c, r) /\ r.pc = "cleanup"
  BY Actives DEF IInv, RemoveFromPeers, Registered
<1>2. Set(c, q) /\ peers' = [peers EXCEPT ![r.id] = NoConn] /\ UNCHANGED <<peerEnv, p2pConnections, banned>>
  BY DEF RemoveFromPeers
<1>3. r.flows = {}
  BY <1>1 DEF Active, Staged
<1>4. Active(c, q) /\ q.pc = "done" /\ q.net = r.net
  BY <1>1, <1>3, PcActive
<1>5. r.id \in PeerIds /\ peers[r.id] = c
  BY <1>1 DEF IInv, Shared, Registered
<1>6. ConnInv'
  BY <1>2, <1>4, ConnStep DEF IInv
<1>7. conn'[c].pc = "done" /\ conn'[c].net = r.net /\ \A d \in Conns : d # c => conn'[d] = conn[d]
  BY <1>2, <1>4, SetFacts DEF IInv
<1>8. \A i \in PeerIds : peers[i] = c => i = r.id
  BY DEF IInv, Shared
<1>9. Shared'
  <2>1. p2pConnections' \subseteq Conns /\ peers' \in [PeerIds -> Conns \cup {NoConn}]
    BY <1>2 DEF IInv, Shared
  <2>2. \A d \in p2pConnections' : conn'[d].net \in {"started", "disconnecting"}
    BY <1>2, <1>7 DEF IInv, Shared
  <2>3. \A d \in Conns : conn'[d].pc \in Registered => conn'[d].id \in PeerIds /\ peers'[conn'[d].id] = d
    BY <1>2, <1>5, <1>7 DEF IInv, Shared, Registered
  <2>4. \A i \in PeerIds : peers'[i] \in Conns => conn'[peers'[i]].pc \in Registered /\ conn'[peers'[i]].id = i
    BY <1>2, <1>5, <1>7, <1>8, ConnectionsAssumption DEF IInv, Shared
  <2> QED BY <2>1, <2>2, <2>3, <2>4 DEF Shared
<1> QED BY <1>2, <1>6, <1>9 DEF IInv, EnvInv, BanInv, HonestNeverBanned, Honest, BannedBefore

(* A flow registers its route.                                             *)
LEMMA RegisterFlowStep ==
  ASSUME IInv, NEW c \in Conns, NEW f \in FlowRoutes, RegisterFlow(c, f) PROVE IInv'
<1> DEFINE r == conn[c]
           routes == r.routes \cup {f}
           pc == IF FlowRoutes \subseteq routes THEN "sendReady" ELSE r.pc
           q == [r EXCEPT !.routes = routes, !.pc = pc]
<1>1. Active(c, r) /\ r.pc = "register"
  BY Actives DEF IInv, RegisterFlow, Registered
<1>2. pc \in {"register", "sendReady"} /\ (pc = "sendReady" => FlowRoutes \subseteq routes)
  BY <1>1
<1>3. f \in Routes /\ f \in AllRoutes
  BY EnvFacts DEF IInv, Routes
<1>4. Set(c, q)
  BY <1>1 DEF RegisterFlow
<1>5. q.pc = pc /\ q.routes = routes
  BY <1>1 DEF Active, ConnRec
<1> HIDE DEF pc
<1>6. Active(c, q) /\ Same(c, q)
  <2>1. q \in ConnRec
    BY <1>1, <1>2, <1>3 DEF Active, ConnRec, Registered
  <2>2. Closing(q) /\ Same(c, q)
    BY <1>1, <1>2, <1>3 DEF Active, ConnRec, Closing, Same, Registered
  <2>3. Staged(q)
    <3>1. q.flows = r.flows /\ q.rv = r.rv /\ q.sv = r.sv /\ q.id = r.id
      BY <1>1 DEF Active, ConnRec
    <3> QED BY <1>1, <1>2, <1>5, <3>1 DEF Active, Staged, Registered
  <2>4. Trusted(c, q)
    BY <1>1, <1>2 DEF Active, ConnRec, Trusted, Registered
  <2> QED BY <2>1, <2>2, <2>3, <2>4 DEF Active
<1> QED BY <1>4, <1>6, RecordStep DEF RegisterFlow

(* Our ready message.                                                      *)
LEMMA SendReadyStep ==
  ASSUME IInv, NEW c \in Conns, SendReady(c) PROVE IInv'
<1> DEFINE r == conn[c]
           e == RouteEnqueue(r)
           o == Owes(c, e, "relay")
           q == [o EXCEPT !.pc = "ready"]
<1>1. Active(c, r) /\ r.pc = "sendReady"
  BY Actives DEF IInv, SendReady, Registered
<1>2. CASE EnqueueError(r) # NoErr
  <2>1. EndWith(c, r, EnqueueError(r), "cleanup")
    BY <1>2 DEF SendReady
  <2>2. r.pc \in Registered /\ r.flows = {} /\ Alike(r, r)
    BY <1>1 DEF Active, Staged, Registered, Alike
  <2>3. EnqueueError(r) # "ban"
    BY EnqueueErrors DEF NoErr
  <2> QED BY <1>1, <2>1, <2>2, <2>3, EndStep DEF SendReady
<1>3. CASE EnqueueError(r) = NoErr
  <2>1. Set(c, q) /\ UNCHANGED <<peerEnv, p2pConnections, peers, banned>>
    BY <1>3 DEF SendReady
  <2>2. Active(c, e) /\ Alike(e, r) /\ e.isRouterClosed = r.isRouterClosed
    BY <1>1, EnqueueActive
  <2>3. ~e.isRouterClosed
    BY <1>1, <1>3, <2>2 DEF EnqueueError, NoErr, Active, Closing
  <2>4. FlowRoutes \subseteq e.routes /\ "relay" \in e.routes /\ "relay" \in AllRoutes
    BY <1>1, <2>2, EnvFacts DEF Active, Staged, Alike, IInv, AllRoutes
  <2>5. Active(c, o) /\ o.pc = e.pc /\ o.net = e.net /\ o.id = e.id
    BY <2>2, <2>4, OwesActive
  <2>6. o.routes = e.routes /\ (o.isRouterClosed <=> e.isRouterClosed)
    BY <2>2 DEF Owes, Active, ConnRec
  <2> HIDE DEF o
  <2>7. q \in ConnRec /\ Closing(q) /\ Same(c, q)
    BY <1>1, <2>2, <2>3, <2>5, <2>6 DEF Active, ConnRec, Closing, Same, Alike, Registered
  <2>8. Staged(q)
    BY <1>1, <2>2, <2>4, <2>5, <2>6 DEF Active, ConnRec, Staged, Alike, Registered
  <2>9. Trusted(c, q)
    BY <1>1, <2>2, <2>5 DEF Active, ConnRec, Trusted, Alike
  <2> QED BY <2>1, <2>7, <2>8, <2>9, RecordStep DEF Active
<1> QED BY <1>2, <1>3

(* Their ready message: the handshake routes go, the flows start.          *)
LEMMA ReceiveReadyStep ==
  ASSUME IInv, NEW c \in Conns, ReceiveReady(c) PROVE IInv'
<1> DEFINE r == conn[c]
           d == Dequeue(r, "ready")
           q == [d EXCEPT !.routes = @ \ HandshakeRoutes, !.flows = FirstFlows, !.pc = "running"]
<1>1. Active(c, r) /\ r.pc = "ready"
  BY Actives DEF IInv, ReceiveReady, Registered
<1>2. ASSUME NEW err \in {"closed", "noban"}, EndWith(c, r, err, "cleanup") PROVE IInv'
  <2>1. r.pc \in Registered /\ r.flows = {} /\ Alike(r, r)
    BY <1>1 DEF Active, Staged, Registered, Alike
  <2> QED BY <1>1, <1>2, <2>1, EndStep DEF ReceiveReady
<1>3. CASE HasMessage(r, "ready") /\ Set(c, q) /\ UNCHANGED <<peerEnv, banned, panicked>>
  <2>1. Active(c, d) /\ Alike(d, r)
    BY <1>1, DequeueActive
  <2>2. FlowRoutes \subseteq d.routes /\ d.rv = "ok" /\ d.sv = "ok"
    BY <1>1, <2>1 DEF Active, Staged, Alike, Registered
  <2>3. FirstFlows \subseteq AllFlows /\ "addresses" \notin FirstFlows
        /\ ("askAddresses" \in FirstFlows => "addresses" \in FlowRoutes)
    BY EnvFacts DEF IInv, FirstFlows, FirstFlow, AllFlowRoutes, AllFlows
  <2>4. c \in Honest => "ready" \notin d.owed
    BY <1>1, <1>3, <2>1 DEF Active, Trusted, HasMessage, Alike
  <2>5. q \in ConnRec
    BY <2>1, <2>3 DEF Active, ConnRec, Registered
  <2>6. /\ q.routes = d.routes \ HandshakeRoutes /\ q.flows = FirstFlows /\ q.pc = "running" /\ q.rv = d.rv
        /\ q.sv = d.sv /\ q.id = d.id /\ q.owed = d.owed /\ q.queued = d.queued /\ q.net = d.net
        /\ q.errChan = d.errChan /\ q.hsErr = d.hsErr /\ q.isStopping = d.isStopping
    BY <2>1 DEF Active, ConnRec
  <2>7. Closing(q) /\ Same(c, q)
    BY <1>1, <2>1 DEF Active, ConnRec, Closing, Same, Alike, Registered
  <2>8. Staged(q)
    BY <1>1, <2>1, <2>2, <2>3, <2>6, EnvFacts DEF IInv, Active, Staged, Registered, HandshakeRoutes, AllFlowRoutes
  <2>9. Trusted(c, q)
    BY <1>1, <2>1, <2>2, <2>4, <2>6 DEF Active, Trusted, HandshakeRoutes, Alike
  <2> QED BY <1>3, <2>5, <2>7, <2>8, <2>9, RecordStep DEF Active, ReceiveReady
<1> QED BY <1>2, <1>3 DEF ReceiveReady

(* SendPings and ReceiveAddresses go from a tick to a ping and back, from  *)
(* their request to the answer: the flow at f is then at g.                *)
LEMMA NextFlowActive ==
  ASSUME NEW c, NEW r, Active(c, r), NEW f \in r.flows, NEW g \in {"tick", "pong", "addresses"},
         g = "addresses" => f = "askAddresses"
  PROVE  LET q == [r EXCEPT !.flows = (@ \ {f}) \cup {g}]
         IN Active(c, q) /\ q.pc = r.pc /\ q.net = r.net /\ q.id = r.id
<1> DEFINE q == [r EXCEPT !.flows = (@ \ {f}) \cup {g}]
<1>1. q \in ConnRec
  BY DEF Active, ConnRec, AllFlows
<1>2. /\ q.pc = r.pc /\ q.net = r.net /\ q.id = r.id /\ q.rv = r.rv /\ q.sv = r.sv /\ q.routes = r.routes
      /\ q.flows = (r.flows \ {f}) \cup {g}
  BY DEF Active, ConnRec
<1>3. Closing(q)
  BY DEF Active, ConnRec, Closing
<1>4. Staged(q)
  BY <1>2 DEF Active, Staged
<1>5. Trusted(c, q)
  BY DEF Active, ConnRec, Trusted
<1> QED BY <1>1, <1>2, <1>3, <1>4, <1>5 DEF Active

(* A flow handles a message.                                               *)
LEMMA FlowMessageStep ==
  ASSUME IInv, NEW c \in Conns, NEW f \in FlowRoutes, FlowMessage(c, f) PROVE IInv'
<1> DEFINE r == conn[c]
           d == Dequeue(r, f)
<1>1. Active(c, r) /\ f \in r.flows /\ f \in r.queued
  BY Actives DEF IInv, FlowMessage, HasMessage
<1>2. Active(c, d) /\ Alike(d, r) /\ f \in d.flows
  BY <1>1, DequeueActive DEF Alike
<1>3. ASSUME NEW x, Active(c, x), x.pc = d.pc, x.net = d.net, x.id = d.id PROVE Same(c, x)
  BY <1>2, <1>3 DEF Same, Alike
<1>4. Active(c, RouteEnqueue(d)) /\ Same(c, RouteEnqueue(d))
  BY <1>2, <1>3, EnqueueActive DEF Alike
<1>5. ASSUME NEW err \in Errors, c \in Honest => err # "ban"
      PROVE  Active(c, FailFlow(d, f, err)) /\ Same(c, FailFlow(d, f, err))
  BY <1>2, <1>3, <1>5, FailFlowActive
<1>6. EnqueueError(d) # NoErr => EnqueueError(d) \in Errors /\ EnqueueError(d) # "ban"
  BY EnqueueErrors DEF Errors
<1>7. f = "addresses" => Active(c, EndFlow(d, f)) /\ Same(c, EndFlow(d, f))
  <2>1. f = "addresses" /\ c \in Honest => "addresses" \notin d.owed
    BY <1>1, <1>2 DEF Active, Trusted, Alike
  <2> QED BY <1>2, <1>3, <2>1, EndFlowActive
<1>8. LET q == [d EXCEPT !.flows = (@ \ {f}) \cup {"tick"}]
      IN Active(c, q) /\ Same(c, q)
  BY <1>2, <1>3, NextFlowActive
<1>9. \A err \in ProtocolErrors(c) : err \in Errors /\ (c \in Honest => err # "ban")
  BY DEF ProtocolErrors, Errors
<1>10. Active(c, d) /\ Same(c, d)
  BY <1>2, <1>3
<1>11. \E x : Set(c, x) /\ Active(c, x) /\ Same(c, x)
  <2>1. CASE Set(c, IF EnqueueError(d) = NoErr THEN RouteEnqueue(d) ELSE FailFlow(d, f, EnqueueError(d)))
    BY <1>4, <1>5, <1>6, <2>1
  <2>2. CASE Set(c, d)
    BY <1>10, <2>2
  <2>3. CASE f = "addresses" /\ Set(c, EndFlow(d, f))
    BY <1>7, <2>3
  <2>4. CASE Set(c, [d EXCEPT !.flows = (@ \ {f}) \cup {"tick"}])
    BY <1>8, <2>4
  <2>5. CASE \E err \in ProtocolErrors(c) : Set(c, FailFlow(d, f, err))
    BY <1>5, <1>9, <2>5
  <2> QED BY <2>1, <2>2, <2>3, <2>4, <2>5 DEF FlowMessage
<1> QED BY <1>11, RecordStep DEF FlowMessage

(* A flow finds its route closed, or has waited too long.                  *)
LEMMA FlowErrorStep ==
  ASSUME IInv, NEW c \in Conns, NEW f \in FlowRoutes, FlowRouteClosed(c, f) \/ FlowTimeout(c, f)
  PROVE  IInv'
<1>1. Active(c, conn[c]) /\ f \in conn[c].flows
  BY Actives DEF IInv, FlowRouteClosed, FlowTimeout
<1>2. ASSUME NEW err \in {"closed", "noban"}
      PROVE  Active(c, FailFlow(conn[c], f, err)) /\ Same(c, FailFlow(conn[c], f, err))
  BY <1>1, FailFlowActive DEF Errors, Same
<1> QED BY <1>2, RecordStep DEF FlowRouteClosed, FlowTimeout

(* A flow sends its request.                                               *)
LEMMA FlowRequestStep ==
  ASSUME IInv, NEW c \in Conns, NEW f, NEW answer \in FlowRoutes, FlowRequest(c, f, answer),
         <<f, answer>> \in {<<"askAddresses", "addresses">>, <<"tick", "pong">>}
  PROVE  IInv'
<1> DEFINE r == conn[c]
           e == RouteEnqueue(r)
           n == [e EXCEPT !.flows = (@ \ {f}) \cup {answer}]
           o == Owes(c, e, answer)
           q == [o EXCEPT !.flows = (@ \ {f}) \cup {answer}]
<1>1. Active(c, r) /\ f \in r.flows
  BY Actives DEF IInv, FlowRequest
<1>2. EnqueueError(r) # NoErr => LET x == FailFlow(r, f, EnqueueError(r)) IN Active(c, x) /\ Same(c, x)
  BY <1>1, EnqueueErrors, FailFlowActive DEF Errors, Same
<1>3. Active(c, e) /\ Alike(e, r) /\ e.queued = r.queued /\ f \in e.flows
  BY <1>1, EnqueueActive DEF Alike
<1>4. Active(c, n) /\ n.pc = e.pc /\ n.net = e.net /\ n.id = e.id
  <2>1. answer \in {"tick", "pong", "addresses"} /\ (answer = "addresses" => f = "askAddresses")
    OBVIOUS
  <2> HIDE DEF e
  <2> QED BY <1>3, <2>1, NextFlowActive
<1>5. n.flows = (e.flows \ {f}) \cup {answer} /\ n.routes = e.routes /\ n.queued = e.queued
  BY <1>3 DEF Active, ConnRec
<1>6. answer \in n.routes \cap AllRoutes
  BY <1>3, <1>5, EnvFacts DEF IInv, Active, Staged, Routes, AllRoutes
<1>7. c \in Honest /\ f = "askAddresses" => "addresses" \notin n.queued
  BY <1>3, <1>5 DEF Active, Trusted
<1>8. n.pc \in {"running", "wait"}
  BY <1>4, <1>5 DEF Active, Staged
<1>9. c \in Honest => Active(c, Owes(c, n, answer)) /\ Owes(c, n, answer).pc = n.pc
                       /\ Owes(c, n, answer).net = n.net /\ Owes(c, n, answer).id = n.id
  <2>1. "askAddresses" \notin n.flows \/ answer # "addresses"
    BY <1>5
  <2> HIDE DEF n
  <2> QED BY <1>4, <1>6, <1>7, <1>8, <2>1, OwesActive
<1>10. c \in Honest => Owes(c, n, answer) = q
  <2>1. [[e EXCEPT !.flows = (@ \ {f}) \cup {answer}] EXCEPT !.owed = @ \cup {answer}]
        = [[e EXCEPT !.owed = @ \cup {answer}] EXCEPT !.flows = (@ \ {f}) \cup {answer}]
    BY <1>3 DEF Active, ConnRec
  <2> QED BY <2>1 DEF Owes
<1>11. c \notin Honest => q = n
  BY DEF Owes
<1>12. Active(c, q) /\ Same(c, q)
  <2>1. Active(c, q) /\ q.pc = n.pc /\ q.net = n.net /\ q.id = n.id
    BY <1>4, <1>9, <1>10, <1>11
  <2> QED BY <1>3, <1>4, <2>1 DEF Same, Alike
<1> QED BY <1>2, <1>12, RecordStep DEF FlowRequest

(* SendPings ends with the node.                                           *)
LEMMA PingsShutdownStep ==
  ASSUME IInv, NEW c \in Conns, PingsShutdown(c) PROVE IInv'
<1>1. Active(c, conn[c]) /\ "tick" \in conn[c].flows
  BY Actives DEF IInv, PingsShutdown
<1>2. LET x == EndFlow(conn[c], "tick") IN Active(c, x) /\ Same(c, x)
  BY <1>1, EndFlowActive DEF Same
<1> QED BY <1>2, RecordStep DEF PingsShutdown

(* What a step leaves of a record, when the shared maps do not move.       *)
Kept(d, x) ==
  /\ Local(d, x) /\ x.net = conn[d].net /\ x.id = conn[d].id
  /\ x.pc \in Registered <=> conn[d].pc \in Registered

(* A step that writes the records of several connections.                  *)
LEMMA RecordsStep ==
  ASSUME IInv, conn' = [d \in Conns |-> conn'[d]], \A d \in Conns : Kept(d, conn'[d]),
         UNCHANGED <<peerEnv, p2pConnections, peers, banned>>
  PROVE  IInv'
<1>1. ConnInv'
  BY DEF ConnInv, Local, Kept, Active, Closing, Staged, Trusted, Honest, FlowRoutes, Routes
<1>2. Shared'
  BY DEF IInv, Shared, Kept
<1> QED BY <1>1, <1>2 DEF IInv, EnvInv, BanInv, HonestNeverBanned, Honest, BannedBefore

(* A broadcast reaches the outgoing routes of registered peers.            *)
LEMMA BroadcastStep ==
  ASSUME IInv, NEW c \in Conns, Broadcast(c) PROVE IInv'
<1>1. PICK reached \in SUBSET {d \in Ready : ~Full(d)} :
        LET sent == [d \in Conns |-> IF d \in reached THEN RouteEnqueue(conn[d]) ELSE conn[d]]
        IN conn' = IF \E d \in Ready : Full(d)
                   THEN [sent EXCEPT ![c] = FailFlow(@, "relay", "noban")] ELSE sent
  BY DEF Broadcast
<1> DEFINE sent == [d \in Conns |-> IF d \in reached THEN RouteEnqueue(conn[d]) ELSE conn[d]]
<1>2. \A d \in reached : d \in Conns /\ Active(d, conn[d])
  <2> SUFFICES ASSUME NEW d \in reached PROVE d \in Conns /\ Active(d, conn[d])
    OBVIOUS
  <2>1. d \in Conns /\ conn[d].pc \in Registered
    BY DEF Ready, IInv, Shared
  <2> QED BY <2>1, Actives DEF IInv
<1>3. \A d \in Conns : Kept(d, sent[d])
  <2>1. ASSUME NEW d \in reached PROVE Kept(d, RouteEnqueue(conn[d]))
    <3>1. Active(d, RouteEnqueue(conn[d])) /\ Alike(RouteEnqueue(conn[d]), conn[d])
      BY <1>2, EnqueueActive
    <3> QED BY <3>1 DEF Kept, Local, Alike
  <2>2. ASSUME NEW d \in Conns PROVE Kept(d, conn[d])
    BY DEF IInv, ConnInv, Kept
  <2> QED BY <2>1, <2>2
<1>4. Active(c, conn[c]) /\ "relay" \in conn[c].flows
  BY Actives DEF IInv, Broadcast
<1>5. Active(c, sent[c]) /\ "relay" \in sent[c].flows /\ sent[c].pc = conn[c].pc
  <2>1. Active(c, RouteEnqueue(conn[c])) /\ Alike(RouteEnqueue(conn[c]), conn[c])
    BY <1>4, EnqueueActive
  <2> QED BY <1>4, <2>1 DEF Alike
<1>6. Kept(c, FailFlow(sent[c], "relay", "noban"))
  <2> DEFINE x == FailFlow(sent[c], "relay", "noban")
  <2>1. Active(c, x) /\ x.net = sent[c].net /\ x.pc = sent[c].pc /\ x.id = sent[c].id
    <3> HIDE DEF sent
    <3> QED BY <1>5, FailFlowActive DEF Errors
  <2> QED BY <1>3, <1>5, <2>1 DEF Local, Kept
<1>7. conn' = [d \in Conns |-> conn'[d]] /\ \A d \in Conns : Kept(d, conn'[d])
  <2>1. CASE \E d \in Ready : Full(d)
    <3>1. conn' = [sent EXCEPT ![c] = FailFlow(sent[c], "relay", "noban")]
      BY <1>1, <2>1
    <3> QED BY <1>3, <1>6, <3>1
  <2>2. CASE ~\E d \in Ready : Full(d)
    <3>1. conn' = sent
      BY <1>1, <2>2
    <3> QED BY <1>3, <3>1
  <2> QED BY <2>1, <2>2
<1>8. UNCHANGED <<peerEnv, p2pConnections, peers, banned>>
  BY DEF Broadcast
<1> QED BY <1>7, <1>8, RecordsStep

(* The first error of a flow.                                              *)
LEMMA RunFlowsEndStep ==
  ASSUME IInv, NEW c \in Conns, RunFlowsEnd(c) PROVE IInv'
<1> DEFINE r == conn[c]
           q == [r EXCEPT !.errChan = NoErr]
<1>1. Active(c, r) /\ r.pc = "running"
  BY Actives DEF IInv, RunFlowsEnd, Registered
<1>2. Active(c, q) /\ Alike(q, r)
  BY <1>1 DEF Active, ConnRec, Closing, Staged, Trusted, Alike, NoErr
<1>3. c \in Honest => r.errChan # "ban"
  BY <1>1 DEF Active, Trusted
<1>4. EndWith(c, q, r.errChan, "wait") /\ UNCHANGED <<peerEnv, p2pConnections, peers>>
  BY DEF RunFlowsEnd
<1>5. q.pc = "running"
  BY <1>1, <1>2 DEF Alike
<1> HIDE DEF q
<1> QED BY <1>2, <1>3, <1>4, <1>5, EndStep

(* The flows have ended.                                                   *)
LEMMA WaitForFlowsStep ==
  ASSUME IInv, NEW c \in Conns, WaitForFlows(c) PROVE IInv'
<1>1. Active(c, conn[c]) /\ conn[c].pc = "wait" /\ conn[c].flows = {}
  BY Actives DEF IInv, WaitForFlows, Registered
<1>2. LET x == [conn[c] EXCEPT !.pc = "cleanup"] IN Active(c, x) /\ Same(c, x)
  BY <1>1, PcActive DEF Same, Registered
<1> QED BY <1>2, RecordStep DEF WaitForFlows

(* The shutdown disconnects what is connected and ends inbound streams.    *)
LEMMA ShutdownStep ==
  ASSUME IInv, Shutdown PROVE IInv'
<1>2. ASSUME NEW d \in Conns PROVE Kept(d, conn[d])
  BY DEF IInv, ConnInv, Kept
<1>3. CASE StopConnectionManager
  <2>1. ASSUME NEW d \in p2pConnections PROVE d \in Conns /\ Kept(d, Disconnect(conn[d]))
    <3>1. d \in Conns /\ Active(d, conn[d])
      BY Actives DEF IInv, Shared
    <3> QED BY <3>1, DisconnectActive DEF IInv, Local, Alike, Kept
  <2>2. conn' = [d \in Conns |-> conn'[d]] /\ \A d \in Conns : Kept(d, conn'[d])
    BY <1>2, <1>3, <2>1 DEF StopConnectionManager
  <2> QED BY <1>3, <2>2, RecordsStep DEF StopConnectionManager
<1>4. CASE StopNetAdapter
  <2>1. ASSUME NEW d \in Conns, conn[d].recv = "recv" PROVE Kept(d, [conn[d] EXCEPT !.recv = "ended"])
    <3>1. Active(d, conn[d])
      BY <2>1, Actives DEF IInv
    <3> QED BY <3>1 DEF Local, Active, ConnRec, Closing, Staged, Trusted, Kept
  <2>2. conn' = [d \in Conns |-> conn'[d]] /\ \A d \in Conns : Kept(d, conn'[d])
    BY <1>2, <1>4, <2>1 DEF StopNetAdapter
  <2> QED BY <1>4, <2>2, RecordsStep DEF StopNetAdapter
<1>5. CASE ConnectionsLoopEnds \/ CloseProtocolManager \/ CloseReturns
  BY <1>5, NothingMoves DEF ConnectionsLoopEnds, CloseProtocolManager, CloseReturns
<1> QED BY <1>3, <1>4, <1>5 DEF Shutdown

-----------------------------------------------------------------------------
(* No connection is made at the start.                                     *)
LEMMA InitIInv == InitPeers => IInv
<1> SUFFICES ASSUME InitPeers PROVE IInv
  OBVIOUS
<1>1. EnvInv /\ ConnInv
  BY DEF InitPeers, EnvInv, ConnInv, Local
<1>2. None.pc = "none"
  BY DEF None, Fresh
<1>3. Shared
  BY <1>2, ConnectionsAssumption DEF InitPeers, Shared, Registered
<1> QED BY <1>1, <1>3, EnvFacts DEF IInv, BanInv, HonestNeverBanned, InitPeers

(* Every step keeps the invariant.                                         *)
LEMMA IInvStep == IInv /\ [NextPeers]_peerVars => IInv'
<1> SUFFICES ASSUME IInv, [NextPeers]_peerVars PROVE IInv'
  OBVIOUS
<1>1. CASE UNCHANGED peerVars
  BY <1>1, NothingMoves DEF peerVars
<1>2. ASSUME NEW c \in Conns, NEW f \in FlowRoutes, FlowSteps(c, f) PROVE IInv'
  BY <1>2, FlowMessageStep, FlowErrorStep, FlowRequestStep, PingsShutdownStep DEF FlowSteps
<1>3. ASSUME NEW c \in Conns, ProtocolSteps(c) PROVE IInv'
  BY <1>3, RunFlowsBeginStep, HandshakeFailsStep, AddToPeersStep, SendReadyStep, ReceiveReadyStep,
     RunFlowsEndStep, WaitForFlowsStep, RemoveFromPeersStep, RegisterFlowStep DEF ProtocolSteps
<1>4. ASSUME NEW c \in Conns, NewNetConnection(c) \/ NetSteps(c) \/ SendLoop(c) \/ Remote(c) PROVE IInv'
  BY <1>4, NewStep, StartStep, DisconnectStartStep, DisconnectFinishStep, SendLoopStep, StreamEndsStep, ReceiveStep
     DEF NetSteps, Remote
<1> QED BY <1>1, <1>2, <1>3, <1>4, ReceiveVersionStep, SendVersionStep, BroadcastStep, ShutdownStep DEF NextPeers

(* The invariant holds throughout.                                         *)
THEOREM PeersInvariance == SpecPeers => []IInv
BY InitIInv, IInvStep, PTL DEF SpecPeers

(* Routes, queues, errors and the shared maps keep their types; no route   *)
(* ever holds more than its capacity.                                      *)
THEOREM PeersTyped == SpecPeers => []PeersTypeOK
<1>1. IInv => PeersTypeOK
  <2> SUFFICES ASSUME IInv PROVE PeersTypeOK
    OBVIOUS
  <2>1. /\ None.closed = {} /\ None.routes = {} /\ None.queued = {} /\ None.out = 0 /\ None.closes = 0
        /\ None.errChan = NoErr
    BY DEF None, Fresh
  <2>3. /\ Gone.closed = {} /\ Gone.routes = {} /\ Gone.queued = {} /\ Gone.out = 0 /\ Gone.closes = 1
        /\ Gone.errChan = NoErr
    BY DEF Gone, None, Fresh
  <2>2. ASSUME NEW c \in Conns
        PROVE  /\ conn[c].closed \cup conn[c].routes \cup conn[c].queued \subseteq Routes
               /\ conn[c].out \in 0 .. Capacity /\ conn[c].closes \in Nat
               /\ conn[c].errChan \in Errors \cup {NoErr}
    <3>1. CASE Active(c, conn[c])
      BY <3>1 DEF Active, ConnRec, Closing
    <3>2. CASE conn[c] \in {None, Gone}
      BY <2>1, <2>3, <3>2, ConnectionsAssumption
    <3> QED BY <3>1, <3>2 DEF IInv, ConnInv, Local
  <2> QED BY <2>2 DEF IInv, Shared, BanInv, PeersTypeOK
<1> QED BY <1>1, PeersInvariance, PTL

(* Whoever disconnects a connection, and in whatever order, its router is  *)
(* closed once and no flow is left waiting on a route that closing it has  *)
(* missed; and a peer is in the map of peers exactly while the goroutine   *)
(* that added it runs, whatever IDs the other sides present.               *)
THEOREM PeersOwnedThroughout == SpecPeers => []ConnectionsOwned
<1>1. IInv => ConnectionsOwned
  <2> SUFFICES ASSUME IInv PROVE ConnectionsOwned
    OBVIOUS
  <2>1. RoutesClosedOnce
    <3> SUFFICES ASSUME NEW c \in Conns
                 PROVE  /\ conn[c].closes <= 1
                        /\ conn[c].closes > 0 /\ "relay" \in conn[c].flows => "relay" \in conn[c].closed
      BY DEF RoutesClosedOnce
    <3>1. CASE Active(c, conn[c])
      BY <3>1 DEF Active, Closing, Staged
    <3>2. CASE conn[c] = None
      BY <3>2 DEF None, Fresh
    <3>3. CASE conn[c] = Gone
      BY <3>3 DEF Gone, None, Fresh
    <3> QED BY <3>1, <3>2, <3>3 DEF IInv, ConnInv, Local
  <2>2. PeersOwned
    BY DEF PeersOwned, IInv, Shared, Registered
  <2> QED BY <2>1, <2>2 DEF ConnectionsOwned
<1> QED BY <1>1, PeersInvariance, PTL

(* A node that follows the protocol is never banned, in whatever order the *)
(* handshakes, flows, errors and timeouts of its connections come.         *)
THEOREM HonestSafe == SpecPeers => []HonestNeverBanned
<1>1. IInv => HonestNeverBanned
  BY DEF IInv, BanInv
<1> QED BY <1>1, PeersInvariance, PTL
=============================================================================
