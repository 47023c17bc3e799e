-------------------------------- MODULE Rpc --------------------------------
(***************************************************************************)
(* RPC clients and the RPC server they are connected to.                   *)
(*                                                                         *)
(* A client calls by enqueuing a request on the router of its current      *)
(* connection and then waiting, with a timeout, on the route of the        *)
(* response; in the background it reconnects when its connection breaks.   *)
(* The server runs one loop per connection, which dequeues a request,      *)
(* runs its handler and enqueues the response.  The node raises            *)
(* notifications from two places: the consensus-events handler, and the    *)
(* flows and handlers that add blocks.  Connections break at any time.     *)
(*                                                                         *)
(* rpcConn[c][n] is the n-th connection of client c: the stream (link), the   *)
(* requests on their way to the server's loop (up), the messages on their  *)
(* way to the client (down), the client's routes (inbox, in order of       *)
(* arrival), the server's router, loop and listener, and, for the          *)
(* properties, the subscription requests served so far (asked).            *)
(***************************************************************************)
EXTENDS RpcClient, Sequences, SequencesExt

CONSTANTS
    RpcClients,         \* the clients
    RpcEnvironments,    \* the settings examined, see rpcEnv
    MaxConnections,     \* bound: connections of one client
    MaxCalls,           \* bound: calls of one client
    RouteCapacity       \* the capacity of one of the client's routes

VARIABLES
    rpcEnv,                \* SafeRPC and UTXOIndex, the configuration of the node; calls[c], the
                        \* names of the calls client c makes; and the bounds connections
                        \* (of a client), breaks (of streams) and events (of the node)
    client, rpcConn, node

rpcVars == <<rpcEnv, client, rpcConn, node>>

Connections == 1 .. MaxConnections

Posts(c) == \E name \in rpcEnv.calls[c] : Calls[name].awaits = FirstMessage

-----------------------------------------------------------------------------
NoConnection == [link |-> "none", up |-> <<>>, down |-> <<>>, inbox |-> <<>>,
                 router |-> "none", loop |-> "none",
                 listener |-> NewNotificationListener, asked |-> <<>>]

NoClient == [status |-> "disconnected", current |-> 0, greeting |-> FALSE, call |-> "none",
             arg |-> "none", id |-> 0, sentOn |-> 0, waiting |-> FALSE, on |-> 0, made |-> 0,
             listening |-> {}, late |-> {},
             returned |-> [call |-> "none", id |-> 0, by |-> 0, on |-> 0]]

RpcInit ==
    /\ rpcEnv \in RpcEnvironments
    /\ client = [c \in RpcClients |-> NoClient]
    /\ rpcConn = [c \in RpcClients |-> [n \in Connections |-> NoConnection]]
    /\ node = [added |-> 0, propagated |-> 0, events |-> 0, breaks |-> 0, chain |-> "idle",
               changed |-> {}, flow |-> "running", handler |-> "running", shutDowns |-> 0]

-----------------------------------------------------------------------------
(* Messages.  A request and its response share an id, which the code does  *)
(* not have: it is how the properties tell whose answer a response is.     *)
(* The response to a transaction also names it.                            *)

GreetingID(n) == MaxCalls + n
NotificationID == MaxCalls + MaxConnections + 1

Asking(name, argument, id) ==
    [command |-> Request(name), arg |-> argument.arg, addresses |-> argument.addresses, id |-> id]

Telling(kind, addresses, accepted) ==
    [command |-> Notification(kind), error |-> FALSE, id |-> NotificationID, names |-> 0,
     addresses |-> addresses, accepted |-> accepted]

(* The client's enqueue: a request that finds its connection broken is     *)
(* lost, since nothing drains the outgoing route any longer.               *)
Sending(k, message) == IF k.link = "open" THEN [k EXCEPT !.up = Append(@, message)] ELSE k

-----------------------------------------------------------------------------
(* The client. *)

(* connect: a new connection and router, and a GetInfo over them.  On the  *)
(* server the router initializer registers the listener and starts the     *)
(* loop.                                                                   *)
Connect(c) ==
    LET n == client[c].current + 1
        greets == ~Posts(c)
        fresh == [NoConnection EXCEPT !.link = "open", !.router = "open", !.loop = "running"]
        argument == [arg |-> "valid", addresses |-> {}]
    IN  /\ client[c].status = "disconnected"
        /\ rpcEnv.calls[c] # {}
        /\ n <= rpcEnv.connections
        /\ Posts(c) => n = 1
        /\ rpcConn' = [rpcConn EXCEPT ![c][n] =
                        IF greets THEN Sending(fresh, Asking("GetInfo", argument, GreetingID(n)))
                                  ELSE fresh]
        /\ client' = [client EXCEPT ![c].current = n, ![c].greeting = greets,
                                    ![c].status = IF greets THEN "connecting" ELSE "connected"]
        /\ UNCHANGED <<rpcEnv, node>>

(* The responses on the route of a command. *)
OnRoute(k, command) == {i \in DOMAIN k.inbox : k.inbox[i].command = command}

FirstOf(S) == CHOOSE i \in S : \A j \in S : i <= j

(* GetInfo of connect returns, with a response or with a timeout.  Without *)
(* a response a first connection fails the constructor, and a later one    *)
(* is retried, with the connection it made left open.                      *)
Greeted(c) ==
    LET n == client[c].current
        k == rpcConn[c][n]
        answers == OnRoute(k, Response("GetInfo"))
    IN  /\ client[c].greeting
        /\ answers # {}
        /\ rpcConn' = [rpcConn EXCEPT ![c][n].inbox = RemoveAt(@, FirstOf(answers))]
        /\ client' = [client EXCEPT ![c].greeting = FALSE, ![c].status = "connected"]
        /\ UNCHANGED <<rpcEnv, node>>

GreetingTimesOut(c) ==
    /\ client[c].greeting
    /\ client' = [client EXCEPT ![c].greeting = FALSE,
                                ![c].status = IF client[c].current = 1 THEN "stopped"
                                                                       ELSE "disconnected"]
    /\ UNCHANGED <<rpcEnv, rpcConn, node>>

(* A caller has the client once the constructor has returned it. *)
Constructed(c) == client[c].current > 1 \/ client[c].status \in {"connected", "disconnected"}

MakeCall(c) ==
    /\ client[c].current > 0 /\ Constructed(c)
    /\ client[c].call = "none"
    /\ client[c].made < MaxCalls
    /\ \E name \in rpcEnv.calls[c] : \E argument \in Calls[name].arguments :
         LET id == client[c].made + 1
             n == client[c].current
         IN  /\ rpcConn' = [rpcConn EXCEPT ![c][n] =
                             Sending(@, Asking(Calls[name].request, argument, id))]
             /\ client' = [client EXCEPT ![c].call = name, ![c].arg = argument.arg,
                                         ![c].made = id, ![c].id = id, ![c].sentOn = n]
    /\ UNCHANGED <<rpcEnv, node>>

(* The route is that of the connection which is current by then. *)
PickRoute(c) ==
    /\ client[c].call # "none" /\ ~client[c].waiting
    /\ client' = [client EXCEPT ![c].waiting = TRUE, ![c].on = client[c].current]
    /\ UNCHANGED <<rpcEnv, rpcConn, node>>

Returned(k, by) ==
    [k EXCEPT !.call = "none", !.arg = "none", !.waiting = FALSE, !.on = 0, !.sentOn = 0,
              !.returned = [call |-> k.call, id |-> k.id, by |-> by, on |-> k.on]]

(* A response is dequeued.  It ends the call, unless the call matches IDs  *)
(* and the response names another transaction.  A registration goes on to  *)
(* listen to its notifications, unless the response is an error.           *)
Receive(c) ==
    LET call == Calls[client[c].call]
        n == client[c].on
        answers == IF call.awaits = FirstMessage
                   THEN DOMAIN rpcConn[c][n].down
                   ELSE OnRoute(rpcConn[c][n], call.awaits)
        from == IF call.awaits = FirstMessage THEN rpcConn[c][n].down ELSE rpcConn[c][n].inbox
        answer == from[FirstOf(answers)]
        current == client[c].current
    IN  /\ client[c].waiting
        /\ answers # {}
        /\ rpcConn' = IF call.awaits = FirstMessage
                   THEN [rpcConn EXCEPT ![c][n].down = Tail(@)]
                   ELSE [rpcConn EXCEPT ![c][n].inbox = RemoveAt(@, FirstOf(answers))]
        /\ client' =
             [client EXCEPT ![c] =
                IF call.matchesID /\ answer.names # @.id
                THEN @
                ELSE [Returned(@, answer.id) EXCEPT
                        !.listening = IF answer.error THEN @
                                      ELSE @ \union (call.listensTo \X {current})]]
        /\ UNCHANGED <<rpcEnv, node>>

(* The timeout of a call; a post has none, and ends with the stream. *)
GiveUp(c) ==
    LET call == Calls[client[c].call]
        n == client[c].on
    IN  /\ client[c].waiting
        /\ call.awaits = FirstMessage => rpcConn[c][n].link = "closed" /\ rpcConn[c][n].down = <<>>
        /\ client' = [client EXCEPT ![c] = [Returned(@, 0) EXCEPT
                                                !.late = @ \union {n}]]
        /\ UNCHANGED <<rpcEnv, rpcConn, node>>

(* The goroutine of a registration takes a notification, calls back, and   *)
(* looks up the route again.                                               *)
Listen(c) ==
    \E place \in client[c].listening :
      LET n == place[2]
          notifications == OnRoute(rpcConn[c][n], place[1])
      IN  /\ notifications # {}
          /\ rpcConn' = [rpcConn EXCEPT ![c][n].inbox = RemoveAt(@, FirstOf(notifications))]
          /\ client' = [client EXCEPT ![c].listening =
                            (@ \ {place}) \union {<<place[1], client[c].current>>}]
          /\ UNCHANGED <<rpcEnv, node>>

(* handleClientDisconnected closes the current connection, whichever one   *)
(* broke, and reconnects unless a reconnection is already running.         *)
Disconnected(k) ==
    [k EXCEPT !.status = CASE @ = "connected" -> "disconnected"
                           [] @ = "connecting" /\ k.current = 1 -> "stopped"
                           [] OTHER -> @,
              !.greeting = IF k.current = 1 THEN FALSE ELSE @]

ClosingSend(k) == IF k.link = "open" THEN [k EXCEPT !.link = "closed"] ELSE k

(* The stream breaks: the server keeps what it had received, the client    *)
(* learns of it and disconnects.                                           *)
Break(c, n) ==
    /\ rpcConn[c][n].link = "open"
    /\ node.breaks < rpcEnv.breaks
    /\ node' = [node EXCEPT !.breaks = @ + 1]
    /\ \E kept \in 0 .. Len(rpcConn[c][n].up) :
         rpcConn' = [rpcConn EXCEPT ![c] =
                    [m \in Connections |->
                       LET k == IF m = n /\ ~Posts(c)
                                THEN [rpcConn[c][n] EXCEPT !.up = SubSeq(@, 1, kept),
                                                        !.down = <<>>]
                                ELSE rpcConn[c][m]
                       IN  IF m = n \/ m = client[c].current THEN ClosingSend(k) ELSE k]]
    /\ client' = [client EXCEPT ![c] = Disconnected(@)]
    /\ UNCHANGED rpcEnv

(* The client's receive loop enqueues a message on the route of its        *)
(* command.  Every command but ShutDown has one; a full route is an error  *)
(* that disconnects the client.                                            *)
Deliver(c, n) ==
    LET k == rpcConn[c][n]
        message == Head(k.down)
        full == Cardinality(OnRoute(k, message.command)) = RouteCapacity
    IN  /\ ~Posts(c)
        /\ k.link = "open" /\ k.down # <<>>
        /\ IF full
           THEN /\ rpcConn' = [rpcConn EXCEPT
                              ![c] = [m \in Connections |->
                                        IF m = n \/ m = client[c].current
                                        THEN ClosingSend([@[m] EXCEPT
                                               !.down = IF m = n THEN <<>> ELSE @])
                                        ELSE @[m]]]
                /\ client' = [client EXCEPT ![c] = Disconnected(@)]
           ELSE /\ rpcConn' = [rpcConn EXCEPT ![c][n].down = Tail(@),
                                        ![c][n].inbox = Append(@, message)]
                /\ UNCHANGED client
        /\ UNCHANGED <<rpcEnv, node>>

-----------------------------------------------------------------------------
(* The server. *)

(* The stream has broken: connectionLoops disconnects, closing the router. *)
Close(c, n) ==
    /\ rpcConn[c][n].router = "open"
    /\ rpcConn[c][n].link = "closed"
    /\ rpcConn' = [rpcConn EXCEPT ![c][n].router = "closed"]
    /\ UNCHANGED <<rpcEnv, client, node>>

(* The receive loop meets a request no route takes and disconnects; the    *)
(* requests received before it stay on the loop's route.                   *)
RefuseRequest(c, n) ==
    LET k == rpcConn[c][n]
        refused == {i \in DOMAIN k.up : k.up[i].command[2] \notin Handlers}
    IN  /\ k.router = "open"
        /\ refused # {}
        /\ rpcConn' = [rpcConn EXCEPT ![c] =
                       [m \in Connections |->
                          IF m = n THEN [k EXCEPT !.up = SubSeq(@, 1, FirstOf(refused) - 1),
                                                  !.down = <<>>, !.link = "closed",
                                                  !.router = "closed"]
                          ELSE IF m = client[c].current THEN ClosingSend(rpcConn[c][m])
                          ELSE rpcConn[c][m]]]
        /\ client' = [client EXCEPT ![c] = Disconnected(@)]
        /\ UNCHANGED <<rpcEnv, node>>

-----------------------------------------------------------------------------
(* Notifications.  The listeners are those of the loops still running.     *)

ListenersTo(cs, kind) ==
    {p \in RpcClients \X Connections :
        /\ cs[p[1]][p[2]].loop = "running"
        /\ kind \in cs[p[1]][p[2]].listener.propagate}

Open(cs, places) == {p \in places : cs[p[1]][p[2]].router = "open"}

(* Every connection of a set is sent a message that may depend on it. *)
Told(cs, places, message) ==
    [c \in RpcClients |-> [n \in Connections |->
        IF <<c, n>> \in places THEN [cs[c][n] EXCEPT !.down = Append(@, message[<<c, n>>])]
                               ELSE cs[c][n]]]

Alike(places, message) == [p \in places |-> message]

(* Enqueue fails on the first closed router met: some of the listeners     *)
(* have been told by then.  MaybeEnqueue skips closed routers.             *)
Enqueue(cs, kind) ==
    LET listeners == ListenersTo(cs, kind)
        open == Open(cs, listeners)
        told == Alike(open, Telling(kind, {}, FALSE))
    IN  IF open = listeners
        THEN {[after |-> Told(cs, open, told), ok |-> TRUE]}
        ELSE {[after |-> Told(cs, S, told), ok |-> FALSE] : S \in SUBSET open}

MaybeEnqueue(cs, kind, message) ==
    {[after |-> Told(cs, Open(cs, ListenersTo(cs, kind)), message), ok |-> TRUE]}

Plainly(cs, kind) == MaybeEnqueue(cs, kind, Alike(ListenersTo(cs, kind), Telling(kind, {}, FALSE)))

NotifyBlockAdded(cs) == Plainly(cs, "BlockAdded")
NotifyVirtualSelectedParentBlueScoreChanged(cs) ==
    Plainly(cs, "VirtualSelectedParentBlueScoreChanged")
NotifyVirtualDaaScoreChanged(cs) == Plainly(cs, "VirtualDaaScoreChanged")
NotifyNewBlockTemplate(cs) == Enqueue(cs, "NewBlockTemplate")
NotifyPruningPointUTXOSetOverride(cs) == Enqueue(cs, "PruningPointUTXOSetOverride")

NotifyUTXOsChanged(cs, changed) ==
    LET due(p) == ConvertUTXOChangesToUTXOsChangedNotification(cs[p[1]][p[2]].listener, changed)
        told == {p \in ListenersTo(cs, "UTXOsChanged") : due(p) # {}}
    IN  {[after |-> Told(cs, Open(cs, told),
                        [p \in told |-> Telling("UTXOsChanged", due(p), FALSE)]),
          ok |-> TRUE]}

(* Accepted transaction IDs are in the notification if some listener       *)
(* wanted them when it was put together.                                   *)
NotifyVirtualSelectedParentChainChanged(cs, accepted) ==
    MaybeEnqueue(cs, "VirtualSelectedParentChainChanged",
        [p \in ListenersTo(cs, "VirtualSelectedParentChainChanged") |->
            Telling("VirtualSelectedParentChainChanged", {},
                    accepted /\ cs[p[1]][p[2]].listener.includeAccepted)])

-----------------------------------------------------------------------------
(* The loop of a connection. *)

(* The loop returns: its deferred call removes the listener. *)
Ended(k) == [k EXCEPT !.loop = "ended", !.listener = NewNotificationListener]

(* The response is enqueued, which a closed router refuses. *)
Responding(k, response) ==
    IF k.router = "open" THEN [k EXCEPT !.down = Append(@, response)] ELSE Ended(k)

ResponseTo(request, outcome) ==
    [command |-> outcome.command, error |-> outcome.error, id |-> request.id,
     names |-> IF outcome.effect = "unnamed" THEN 0 ELSE request.id,
     addresses |-> {}, accepted |-> FALSE]

Subscriptions == {"NotifyBlockAdded", "NotifyVirtualSelectedParentChainChanged",
                  "NotifyFinalityConflicts", "NotifyNewBlockTemplate",
                  "NotifyVirtualDaaScoreChanged", "NotifyVirtualSelectedParentBlueScoreChanged",
                  "NotifyPruningPointUTXOSetOverride", "NotifyUTXOsChanged",
                  "StopNotifyingUTXOsChanged"}

(* The connection after its handler has run. *)
Served(k, request, outcome) ==
    [k EXCEPT !.up = Tail(@), !.listener = outcome.listener,
              !.asked = IF request.command[2] \in Subscriptions /\ ~outcome.error
                        THEN Append(@, [name |-> request.command[2],
                                        addresses |-> request.addresses])
                        ELSE @]

(* AddBlock: the block is in the DAG, then miners are told of the new      *)
(* template, then the block is broadcast.  An error of the second step     *)
(* ends the handler, and with it the loop, without the third and without   *)
(* a response.                                                             *)
AddBlockAndRespond(c, n, cs, response) ==
    \E notified \in NotifyNewBlockTemplate(cs) :
      /\ rpcConn' = [notified.after EXCEPT ![c][n] =
                      IF notified.ok THEN Responding(@, response) ELSE Ended(@)]
      /\ node' = [node EXCEPT !.added = @ + 1,
                              !.propagated = IF notified.ok THEN @ + 1 ELSE @]

HandleIncomingMessage(c, n) ==
    LET k == rpcConn[c][n]
        request == Head(k.up)
    IN  /\ k.loop = "running"
        /\ k.up # <<>>
        /\ request.command[2] \in Handlers
        /\ \E outcome \in Handle(request.command[2], rpcEnv, k.listener, request) :
             LET response == ResponseTo(request, outcome)
                 served == [rpcConn EXCEPT ![c][n] = Served(@, request, outcome)]
             IN  IF outcome.effect = "add block"
                 THEN AddBlockAndRespond(c, n, served, response)
                 ELSE /\ rpcConn' = [served EXCEPT ![c][n] = Responding(@, response)]
                      /\ node' = IF outcome.effect = "shut down"
                                 THEN [node EXCEPT !.shutDowns = @ + 1] ELSE node
        /\ UNCHANGED <<rpcEnv, client>>

(* The closed route is drained. *)
LoopEnds(c, n) ==
    /\ rpcConn[c][n].loop = "running"
    /\ rpcConn[c][n].router = "closed"
    /\ rpcConn[c][n].up = <<>>
    /\ rpcConn' = [rpcConn EXCEPT ![c][n] = Ended(@)]
    /\ UNCHANGED <<rpcEnv, client, node>>

-----------------------------------------------------------------------------
(* The node. *)

Running == node.handler = "running"
Occurs(changes) == [changes EXCEPT !.events = @ + 1]
HandlerAfter(ok) == IF ok THEN "running" ELSE "panicked"

(* The consensus-events handler, which panics on any error. *)
BlockAdded ==
    /\ Running /\ node.chain = "idle" /\ node.events < rpcEnv.events
    /\ \E notified \in NotifyBlockAdded(rpcConn) :
         /\ rpcConn' = notified.after
         /\ node' = Occurs([node EXCEPT !.handler = HandlerAfter(notified.ok), !.changed = {}])
    /\ UNCHANGED <<rpcEnv, client>>

(* UTXO changes, blue score, DAA score, and then the look at who wants     *)
(* chain changes.                                                          *)
VirtualChange ==
    /\ Running /\ node.chain = "idle" /\ node.events < rpcEnv.events
    /\ \E changed \in SUBSET Addresses, chainChanged \in BOOLEAN :
       \E utxos \in IF rpcEnv.UTXOIndex THEN NotifyUTXOsChanged(rpcConn, changed)
                                     ELSE {[after |-> rpcConn, ok |-> TRUE]} :
       \E blue \in NotifyVirtualSelectedParentBlueScoreChanged(utxos.after) :
       \E daa \in NotifyVirtualDaaScoreChanged(blue.after) :
         LET listeners == ListenersTo(rpcConn, "VirtualSelectedParentChainChanged")
             wanted == \E p \in listeners : rpcConn[p[1]][p[2]].listener.includeAccepted
         IN  /\ rpcConn' = daa.after
             /\ node' = Occurs([node EXCEPT
                           !.handler = HandlerAfter(utxos.ok /\ blue.ok /\ daa.ok),
                           !.changed = changed,
                           !.chain = IF chainChanged /\ listeners # {}
                                     THEN IF wanted THEN "accepted" ELSE "plain"
                                     ELSE "idle"])
    /\ UNCHANGED <<rpcEnv, client>>

ChainChanged ==
    /\ Running /\ node.chain # "idle"
    /\ \E notified \in NotifyVirtualSelectedParentChainChanged(rpcConn, node.chain = "accepted") :
         /\ rpcConn' = notified.after
         /\ node' = [node EXCEPT !.chain = "idle", !.handler = HandlerAfter(notified.ok)]
    /\ UNCHANGED <<rpcEnv, client>>

(* A flow of the P2P layer relays a block and then tells miners; an error  *)
(* ends the flow.  So does one of telling that the UTXO set was replaced.  *)
FlowAfter(ok) == IF ok THEN "running" ELSE "ended"

RelayBlock ==
    /\ node.flow = "running" /\ node.events < rpcEnv.events
    /\ \E notified \in NotifyNewBlockTemplate(rpcConn) :
         /\ rpcConn' = notified.after
         /\ node' = Occurs([node EXCEPT !.added = @ + 1, !.propagated = @ + 1,
                                        !.changed = {}, !.flow = FlowAfter(notified.ok)])
    /\ UNCHANGED <<rpcEnv, client>>

OverridePruningPointUTXOSet ==
    /\ node.flow = "running" /\ node.events < rpcEnv.events
    /\ rpcEnv.UTXOIndex
    /\ \E notified \in NotifyPruningPointUTXOSetOverride(rpcConn) :
         /\ rpcConn' = notified.after
         /\ node' = Occurs([node EXCEPT !.changed = {}, !.flow = FlowAfter(notified.ok)])
    /\ UNCHANGED <<rpcEnv, client>>

-----------------------------------------------------------------------------
ClientStep(c) ==
    \/ Connect(c) \/ Greeted(c) \/ GreetingTimesOut(c) \/ MakeCall(c)
    \/ PickRoute(c) \/ Receive(c) \/ GiveUp(c) \/ Listen(c)

ConnectionStep(c, n) ==
    \/ Break(c, n) \/ Deliver(c, n) \/ Close(c, n) \/ RefuseRequest(c, n)
    \/ HandleIncomingMessage(c, n) \/ LoopEnds(c, n)

NodeStep ==
    \/ BlockAdded \/ VirtualChange \/ ChainChanged
    \/ RelayBlock \/ OverridePruningPointUTXOSet

RpcNext ==
    \/ \E c \in RpcClients : ClientStep(c)
    \/ \E c \in RpcClients, n \in Connections : ConnectionStep(c, n)
    \/ NodeStep

RpcSpec == RpcInit /\ [][RpcNext]_rpcVars

-----------------------------------------------------------------------------
(* Properties. *)

(* Every variable has its type, a client waits on a connection it made,    *)
(* and only the connections made so far are in use.                        *)
RpcTypeOK ==
    /\ \A c \in RpcClients :
         LET k == client[c] IN
         /\ k.status \in {"disconnected", "connecting", "connected", "stopped"}
         /\ k.call \in DOMAIN Calls \union {"none"}
         /\ k.current \in 0 .. MaxConnections /\ k.on \in 0 .. k.current
         /\ k.waiting => k.on > 0 /\ k.call # "none"
         /\ \A n \in Connections :
              /\ rpcConn[c][n].link = "none" <=> n > k.current
              /\ rpcConn[c][n].loop \in {"none", "running", "ended"}
              /\ rpcConn[c][n].listener.propagate \subseteq Kinds
              /\ rpcConn[c][n].listener.addresses \subseteq Addresses
    /\ node.flow \in {"running", "ended"} /\ node.handler \in {"running", "panicked"}

(* A call returns the answer to its own request.  The routes of the client *)
(* are by command only (rpcrouter.go), so this is not so on a connection   *)
(* where an earlier call has timed out and its answer may still come, nor  *)
(* for a GetInfo that shares its route with the one of connect; nor does   *)
(* a post tell an answer from a notification.  SubmitTransaction, which    *)
(* skips the responses that name another transaction, returns its own      *)
(* answer whatever timed out before.                                       *)
AnswersOwn ==
    \A c \in RpcClients :
      LET r == client[c].returned IN
      r.call # "none" =>
        \/ r.by \in {0, r.id}
        \/ /\ r.call \notin {"SubmitTransaction", "SubmitTransactionReplacement"}
           /\ \/ \E n \in client[c].late : n = r.on
              \/ r.call = "GetInfo" /\ r.on > 1
              \/ Calls[r.call].awaits = FirstMessage /\ rpcConn[c][1].asked # <<>>

(* The calls whose answer the server sends to a route other than the one   *)
(* they wait on: Ban and Unban wait on the route of their request, the     *)
(* stop of pruning-point notifications is served as a subscription, the    *)
(* failures of the balance requests leave as another response, and a       *)
(* transaction that cannot be parsed is answered without its name.         *)
MisroutedCall(k) ==
    \/ k.call \in {"Ban", "Unban", "UnregisterPruningPointUTXOSet"}
    \/ k.call = "GetBalanceByAddress" /\ (k.arg = "malformed" \/ ~rpcEnv.UTXOIndex)
    \/ k.call = "GetBalancesByAddresses" /\ k.arg = "malformed"
    \/ k.call = "SubmitTransaction" /\ k.arg = "malformed"

(* No call is left without an answer: when nothing is on its way in either *)
(* direction on a working connection, whoever waits there for the answer   *)
(* to a request sent over it has a response on its route, unless the call  *)
(* is misrouted.                                                           *)
EveryCallAnswered ==
    \A c \in RpcClients :
      LET k == client[c]
          n == k.on
      IN  (/\ k.waiting /\ k.sentOn = n
           /\ rpcConn[c][n].link = "open" /\ rpcConn[c][n].loop = "running"
           /\ rpcConn[c][n].up = <<>> /\ rpcConn[c][n].down = <<>>)
          => \/ MisroutedCall(k)
             \/ OnRoute(rpcConn[c][n], Calls[k.call].awaits) # {}

(* What the subscription requests served on a connection ask for, in their *)
(* order: the kinds, and the addresses of the UTXO changes.                *)
KindsOf(name) ==
    CASE name = "NotifyFinalityConflicts" -> {"FinalityConflict", "FinalityConflictResolved"}
      [] name = "NotifyUTXOsChanged" -> {"UTXOsChanged"}
      [] name = "StopNotifyingUTXOsChanged" -> {}
      [] name = "NotifyBlockAdded" -> {"BlockAdded"}
      [] name = "NotifyNewBlockTemplate" -> {"NewBlockTemplate"}
      [] name = "NotifyPruningPointUTXOSetOverride" -> {"PruningPointUTXOSetOverride"}
      [] name = "NotifyVirtualDaaScoreChanged" -> {"VirtualDaaScoreChanged"}
      [] name = "NotifyVirtualSelectedParentBlueScoreChanged" ->
            {"VirtualSelectedParentBlueScoreChanged"}
      [] name = "NotifyVirtualSelectedParentChainChanged" ->
            {"VirtualSelectedParentChainChanged"}

AskedKinds(asked) == UNION {KindsOf(asked[i].name) : i \in DOMAIN asked}

(* An address is asked for by a request no later stop undoes. *)
AskedAddresses(asked) ==
    {a \in Addresses : \E i \in DOMAIN asked :
        /\ asked[i].name = "NotifyUTXOsChanged" /\ a \in asked[i].addresses
        /\ \A j \in (i + 1) .. Len(asked) :
             ~(asked[j].name = "StopNotifyingUTXOsChanged" /\ a \in asked[j].addresses)}

Due(asked, changed) ==
    IF AskedAddresses(asked) = {} THEN changed ELSE AskedAddresses(asked) \intersect changed



(* A block that AddBlock adds to the DAG is propagated ("AddBlock adds the *)
(* given block to the DAG and propagates it", flowcontext/blocks.go:104).  *)
AddedBlocksPropagated == node.added = node.propagated
=============================================================================
