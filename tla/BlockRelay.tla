----------------------------- MODULE BlockRelay -----------------------------
(* How announced blocks get into the DAG.  Every peer has a relay flow     *)
(* (handle_relay_invs.go) that requests what the peer announces and an IBD *)
(* flow (ibd.go) that downloads a block with its whole past.  The flows    *)
(* share the consensus, the set of requested blocks, the orphan pool with  *)
(* its mutex and the IBD latch.  Peers are honest: what they announce is   *)
(* valid, and they send what they are asked for, unless the connection is  *)
(* too slow.                                                               *)
EXTENDS BlockLocators, Functions

CONSTANTS
  Peers, NoPeer,
  Blocks, Genesis, NoBlock,
  Parents,          \* [Blocks -> SUBSET Blocks]
  Data,             \* [Blocks -> selected parent and blue score]; the score is the work, too
  Known,            \* the blocks the node starts with
  Announced,        \* the announcements there may be: (peer, block) pairs
  Limits,           \* records of maxOrphans, orphanResolutionRange and the
                    \* number of connections that may time out
  MergeDepth,       \* of the virtual's merge depth root below its selected parent
  DisallowDirectBlocksOnTopOfGenesis

(* Blocks are numbered in an order in which they could have been mined.    *)
ASSUME BlockRelayAssumption ==
  /\ Blocks \subseteq Nat /\ IsFiniteSet(Blocks) /\ Known \subseteq Blocks
  /\ Announced \subseteq Peers \X Blocks /\ NoPeer \notin Peers
  /\ \A b \in Blocks : Parents[b] \subseteq {x \in Blocks : x < b}
  /\ \A b \in Known : Parents[b] \subseteq Known

(* The orders in which a program may go through a set of blocks.           *)
Orders(S) == Injection(1 .. Cardinality(S), S)

VARIABLES
  limits,           \* those of this behaviour
  body,             \* blocks whose body is in the DAG
  headers,          \* blocks of which only the header is
  orphans,
  mutex,            \* the flow that holds orphansMutex
  requested,        \* SharedRequestedBlocks
  ibdPeer,
  queue,            \* peer -> the announcements to handle: invsQueue, then the route
  relay,            \* peer -> [at, block, root, old]: the relay flow, the inv it is at
                    \* and the virtual's parents before the block is processed
  ibd,              \* peer -> [at, block, hashes]: the IBD flow
  unorphaning,      \* the processQueue of the holder of the mutex
  announced,        \* (peer, block) pairs already announced
  lost,             \* ghost: blocks some flow gave up on its own
  relayed,          \* blocks announced to all peers
  direct            \* ghost: blocks inserted as they were relayed to the node

vars == <<limits, body, headers, orphans, mutex, requested, ibdPeer, queue, relay, ibd, unorphaning, announced, lost, relayed, direct>>

Flows == Peers \X {"relay", "ibd"}
NoFlow == <<NoPeer, "none">>
Idle == [at |-> "read", block |-> NoBlock, root |-> FALSE, old |-> {}]
NoIBD == [at |-> "wait", block |-> NoBlock, hashes |-> <<>>]

Init ==
  /\ limits \in Limits
  /\ body = Known /\ headers = {} /\ orphans = {} /\ mutex = NoFlow /\ requested = {}
  /\ ibdPeer = NoPeer
  /\ queue = [p \in Peers |-> <<>>]
  /\ relay = [p \in Peers |-> Idle] /\ ibd = [p \in Peers |-> NoIBD]
  /\ unorphaning = <<>>
  /\ announced = {} /\ lost = {} /\ relayed = {} /\ direct = {}

(* The selected tip, and whether it is still genesis.                      *)
virtualSelectedParent == CHOOSE b \in body : \A c \in body : Data[c].blueScore <= Data[b].blueScore
virtualParents == {b \in body : \A c \in body : b \notin Parents[c]}
isGenesisVirtualSelectedParent == virtualSelectedParent = Genesis
isChildOfGenesis(b) == Parents[b] = {Genesis}

(* A peer announces a block, when it gets it or when it connects.          *)
Announce(p, b) ==
  /\ <<p, b>> \in Announced \ announced /\ relay[p].at # "gone"
  /\ announced' = announced \cup {<<p, b>>}
  /\ queue' = [queue EXCEPT ![p] = Append(@, [block |-> b, root |-> FALSE])]
  /\ UNCHANGED <<limits, body, headers, orphans, mutex, requested, ibdPeer, relay, ibd, unorphaning, lost, relayed, direct>>

-----------------------------------------------------------------------------
(* The relay flow.                                                         *)
At(p, at) == relay[p].at = at
Goto(p, at) == relay' = [relay EXCEPT ![p].at = at]
Continue(p) == relay' = [relay EXCEPT ![p] = Idle]
Lose(p) == lost' = lost \cup {relay[p].block}

(* readInv, and a block that is known already.                             *)
ReadInv(p) ==
  /\ At(p, "read") /\ queue[p] # <<>>
  /\ queue' = [queue EXCEPT ![p] = Tail(@)]
  /\ relay' = IF Head(queue[p]).block \in body THEN relay
              ELSE [relay EXCEPT ![p] = [Idle EXCEPT !.at = "unknown", !.block = Head(queue[p]).block, !.root = Head(queue[p]).root]]
  /\ UNCHANGED <<limits, body, headers, orphans, mutex, requested, ibdPeer, ibd, unorphaning, announced, lost, relayed, direct>>

(* An orphan is not requested, but its missing ancestors are.  A node that *)
(* has only genesis waits for an IBD instead.                              *)
CheckOrphan(p) ==
  /\ At(p, "unknown") /\ mutex = NoFlow
  /\ IF relay[p].block \notin orphans THEN Goto(p, "notOrphan") /\ UNCHANGED lost
     ELSE IF DisallowDirectBlocksOnTopOfGenesis /\ isGenesisVirtualSelectedParent THEN Continue(p) /\ Lose(p)
     ELSE Goto(p, "roots") /\ UNCHANGED lost
  /\ UNCHANGED <<limits, body, headers, orphans, mutex, requested, ibdPeer, queue, ibd, unorphaning, announced, relayed, direct>>

(* No relay during an IBD of a node that is out of sync, which depends on  *)
(* the clock.                                                              *)
CheckIBD(p) ==
  /\ At(p, "notOrphan")
  /\ \/ Goto(p, "request") /\ UNCHANGED lost
     \/ ibdPeer # NoPeer /\ Continue(p) /\ Lose(p)
  /\ UNCHANGED <<limits, body, headers, orphans, mutex, requested, ibdPeer, queue, ibd, unorphaning, announced, relayed, direct>>

(* requestBlock: a block that some flow is waiting for is left to it.      *)
RequestBlock(p) ==
  /\ At(p, "request")
  /\ IF relay[p].block \in requested THEN Continue(p) /\ UNCHANGED requested
     ELSE requested' = requested \cup {relay[p].block} /\ Goto(p, "waitBlock")
  /\ UNCHANGED <<limits, body, headers, orphans, mutex, ibdPeer, queue, ibd, unorphaning, announced, lost, relayed, direct>>

(* Blocks that the virtual could not merge anyway.                         *)
BelowMergeDepth(b) ==
  LET tip == Data[virtualSelectedParent].blueScore
  IN tip > MergeDepth /\ Data[b].blueScore <= tip - MergeDepth

(* The block arrives; it is no longer requested when requestBlock returns. *)
ReceiveBlock(p) ==
  /\ At(p, "waitBlock")
  /\ requested' = requested \ {relay[p].block}
  /\ IF \/ DisallowDirectBlocksOnTopOfGenesis /\ isChildOfGenesis(relay[p].block)
        \/ ~relay[p].root /\ BelowMergeDepth(relay[p].block)
     THEN Continue(p) /\ Lose(p)
     ELSE relay' = [relay EXCEPT ![p].at = "process", ![p].old = virtualParents] /\ UNCHANGED lost
  /\ UNCHANGED <<limits, body, headers, orphans, mutex, ibdPeer, queue, ibd, unorphaning, announced, relayed, direct>>

(* Mutant: the request is not withdrawn when the peer does not answer. *)
TimeOutKeepsRequest(p) ==
  /\ relay[p].at \in {"waitBlock", "waitLocator"} /\ Cardinality({q \in Peers : At(q, "gone")}) < limits.failures
  /\ relay' = [relay EXCEPT ![p] = [Idle EXCEPT !.at = "gone"]]
  /\ queue' = [queue EXCEPT ![p] = <<>>]
  /\ lost' = lost \cup {relay[p].block} \cup {queue[p][i].block : i \in DOMAIN queue[p]}
  /\ UNCHANGED <<limits, body, headers, orphans, mutex, requested, ibdPeer, ibd, unorphaning, announced, relayed, direct>>

(* No answer in time: the flow returns, the connection is closed with all  *)
(* its flows, and what the peer announced and was not handled is lost.     *)
TimeOut(p) ==
  /\ relay[p].at \in {"waitBlock", "waitLocator"} /\ Cardinality({q \in Peers : At(q, "gone")}) < limits.failures
  /\ requested' = IF At(p, "waitBlock") THEN requested \ {relay[p].block} ELSE requested
  /\ relay' = [relay EXCEPT ![p] = [Idle EXCEPT !.at = "gone"]]
  /\ queue' = [queue EXCEPT ![p] = <<>>]
  /\ lost' = lost \cup {relay[p].block} \cup {queue[p][i].block : i \in DOMAIN queue[p]}
  /\ UNCHANGED <<limits, body, headers, orphans, mutex, ibdPeer, ibd, unorphaning, announced, relayed, direct>>

(* ValidateAndInsertBlock: refused as a duplicate or for missing parents,  *)
(* or inserted.                                                            *)
Insertable(b) == b \notin body /\ Parents[b] \subseteq body

ProcessBlock(p) ==
  /\ At(p, "process")
  /\ IF relay[p].block \in body THEN Continue(p) /\ UNCHANGED <<body, headers, direct>>
     ELSE IF Insertable(relay[p].block)
     THEN /\ body' = body \cup {relay[p].block} /\ headers' = headers \ {relay[p].block}
          /\ direct' = direct \cup {relay[p].block}
          /\ Goto(p, "relay")
     ELSE Goto(p, "orphan") /\ UNCHANGED <<body, headers, direct>>
  /\ UNCHANGED <<limits, orphans, mutex, requested, ibdPeer, queue, ibd, unorphaning, announced, lost, relayed>>

(* The parents the virtual has got since the block came are announced to   *)
(* the peers, whichever flow inserted them.                                *)
RelayVirtualParents(p) ==
  /\ At(p, "relay")
  /\ relayed' = relayed \cup (virtualParents \ relay[p].old)
  /\ Goto(p, "inserted")
  /\ UNCHANGED <<limits, body, headers, orphans, mutex, requested, ibdPeer, queue, ibd, unorphaning, announced, lost, direct>>

(* processOrphan asks the peer for a locator of the block, unless another  *)
(* flow has added it to the pool meanwhile.                                *)
RequestLocator(p) ==
  /\ At(p, "orphan") /\ mutex = NoFlow
  /\ IF relay[p].block \in orphans THEN Continue(p) ELSE Goto(p, "waitLocator")
  /\ UNCHANGED <<limits, body, headers, orphans, mutex, requested, ibdPeer, queue, ibd, unorphaning, announced, lost, relayed, direct>>

isBlockInOrphanResolutionRange(b) ==
  Range(createBlockLocator(Data, Genesis, b, limits.orphanResolutionRange)) \cap body # {}

(* The locator: a known block among its hashes makes an orphan, otherwise  *)
(* the IBD flow gets the block, if it is there to take it.                 *)
ReceiveLocator(p) ==
  /\ At(p, "waitLocator")
  /\ IF isBlockInOrphanResolutionRange(relay[p].block)
     THEN /\ UNCHANGED ibd
          /\ IF DisallowDirectBlocksOnTopOfGenesis /\ isGenesisVirtualSelectedParent
             THEN Continue(p) /\ Lose(p) ELSE Goto(p, "addOrphan") /\ UNCHANGED lost
     ELSE /\ Continue(p)
          /\ IF ibd[p].at = "wait"
             THEN ibd' = [ibd EXCEPT ![p].at = "start", ![p].block = relay[p].block] /\ UNCHANGED lost
             ELSE UNCHANGED ibd /\ Lose(p)
  /\ UNCHANGED <<limits, body, headers, orphans, mutex, requested, ibdPeer, queue, unorphaning, announced, relayed, direct>>

(* AddOrphan: over the limit some orphan is evicted, it may be the new one.*)
AddOrphan(p) ==
  /\ At(p, "addOrphan") /\ mutex = NoFlow
  /\ \E evicted \in SUBSET (orphans \cup {relay[p].block}) :
       /\ Cardinality(evicted) = IF Cardinality(orphans \cup {relay[p].block}) > limits.maxOrphans THEN 1 ELSE 0
       /\ orphans' = (orphans \cup {relay[p].block}) \ evicted
       /\ lost' = lost \cup evicted
  /\ Goto(p, "roots")
  /\ UNCHANGED <<limits, body, headers, mutex, requested, ibdPeer, queue, ibd, unorphaning, announced, relayed, direct>>

(* Mutant: an orphan that is not in the pool counts as its own root. *)
GetOrphanRootsOfAbsent(o) ==
  LET reached[n \in Nat] ==
        IF n = 0 THEN {o} ELSE reached[n - 1] \cup UNION {Parents[x] : x \in reached[n - 1] \cap orphans}
  IN reached[Cardinality(Blocks)] \ (orphans \cup body)

(* GetOrphanRoots: the blocks below o, reached through orphans, that are   *)
(* neither orphans nor in the DAG.                                         *)
GetOrphanRoots(o) ==
  LET reached[n \in Nat] ==
        IF n = 0 THEN {o} ELSE reached[n - 1] \cup UNION {Parents[x] : x \in reached[n - 1] \cap orphans}
  IN IF o \in orphans THEN reached[Cardinality(Blocks)] \ (orphans \cup body) ELSE {}

(* Mutant: the missing ancestors are not queued. *)
AddOrphanRootsLost(p) ==
  /\ At(p, "roots") /\ mutex = NoFlow
  /\ Continue(p)
  /\ UNCHANGED <<limits, body, headers, orphans, mutex, requested, ibdPeer, queue, ibd, unorphaning, announced, lost, relayed, direct>>

(* The missing ancestors come before everything the peer announced.        *)
AddOrphanRootsToQueue(p) ==
  /\ At(p, "roots") /\ mutex = NoFlow
  /\ \E order \in Orders(GetOrphanRoots(relay[p].block)) :
       queue' = [queue EXCEPT ![p] = [i \in DOMAIN order |-> [block |-> order[i], root |-> TRUE]] \o @]
  /\ Continue(p)
  /\ UNCHANGED <<limits, body, headers, orphans, mutex, requested, ibdPeer, ibd, unorphaning, announced, lost, relayed, direct>>

-----------------------------------------------------------------------------
(* UnorphanBlocks, in either flow, after a block was inserted: it holds    *)
(* the mutex over all its insertions, but not the consensus.               *)
findChildOrphansOfBlock(b) == {o \in orphans : b \in Parents[o]}

(* The children that are not yet in the queue follow, in any order.        *)
addChildOrphansToProcessQueue(b, pending) ==
  {pending \o order : order \in Orders(findChildOrphansOfBlock(b) \ Range(pending))}

InsertedBlock(f) == IF f[2] = "relay" THEN relay[f[1]].block ELSE Head(ibd[f[1]].hashes)
Inserted(f) == IF f[2] = "relay" THEN At(f[1], "inserted") ELSE ibd[f[1]].at = "inserted"

StartUnorphaning(f) ==
  /\ Inserted(f) /\ mutex = NoFlow
  /\ mutex' = f
  /\ unorphaning' \in addChildOrphansToProcessQueue(InsertedBlock(f), <<>>)
  /\ UNCHANGED <<limits, body, headers, orphans, requested, ibdPeer, queue, relay, ibd, announced, lost, relayed, direct>>

(* It leaves the pool and is inserted, or was inserted by some flow.       *)
unorphanBlock(o) == orphans' = orphans \ {o} /\ body' = body \cup {o} /\ headers' = headers \ {o}

(* One block of the process queue: with all its parents in the DAG it      *)
(* is unorphaned, and if it is new its own children are queued.            *)
UnorphanBlock(f) ==
  /\ mutex = f /\ unorphaning # <<>>
  /\ LET o == Head(unorphaning)
     IN IF ~(Parents[o] \subseteq body)
        THEN unorphaning' = Tail(unorphaning) /\ UNCHANGED <<body, headers, orphans>>
        ELSE /\ unorphanBlock(o)
             /\ IF o \in body THEN unorphaning' = Tail(unorphaning)
                ELSE unorphaning' \in addChildOrphansToProcessQueue(o, Tail(unorphaning))
  /\ UNCHANGED <<limits, mutex, requested, ibdPeer, queue, relay, ibd, announced, lost, relayed, direct>>

FinishUnorphaning(f) ==
  /\ mutex = f /\ unorphaning = <<>>
  /\ mutex' = NoFlow
  /\ IF f[2] = "relay" THEN Continue(f[1]) /\ UNCHANGED ibd
     ELSE /\ ibd' = [ibd EXCEPT ![f[1]].at = "bodies", ![f[1]].hashes = Tail(@)]
          /\ UNCHANGED relay
  /\ UNCHANGED <<limits, body, headers, orphans, requested, ibdPeer, queue, unorphaning, announced, lost, relayed, direct>>

-----------------------------------------------------------------------------
(* The IBD flow.                                                           *)
PastOfBlock[b \in Blocks] == {b} \cup UNION {PastOfBlock[x] : x \in Parents[b]}

(* TrySetIBDRunning: one IBD at a time, whoever the peer is.               *)
TrySetIBDRunning(p) ==
  /\ ibd[p].at = "start"
  /\ IF ibdPeer # NoPeer
     THEN ibd' = [ibd EXCEPT ![p] = NoIBD] /\ lost' = lost \cup {ibd[p].block} /\ UNCHANGED ibdPeer
     ELSE ibdPeer' = p /\ ibd' = [ibd EXCEPT ![p].at = "headers"] /\ UNCHANGED lost
  /\ UNCHANGED <<limits, body, headers, orphans, mutex, requested, queue, relay, unorphaning, announced, relayed, direct>>

(* The headers of the past of the block, and then the list of the bodies   *)
(* that are missing (GetMissingBlockBodyHashes), lowest first.             *)
SyncHeaders(p) ==
  /\ ibd[p].at = "headers" /\ ~At(p, "gone")
  /\ headers' = headers \cup (PastOfBlock[ibd[p].block] \ body)
  /\ ibd' = [ibd EXCEPT ![p].at = "missing"]
  /\ UNCHANGED <<limits, body, orphans, mutex, requested, ibdPeer, queue, relay, unorphaning, announced, lost, relayed, direct>>

ListMissingBodies(p) ==
  /\ ibd[p].at = "missing"
  /\ \E order \in Orders(PastOfBlock[ibd[p].block] \ body) :
       /\ \A i, j \in DOMAIN order : i < j => order[i] < order[j]
       /\ ibd' = [ibd EXCEPT ![p].at = "bodies", ![p].hashes = order]
  /\ UNCHANGED <<limits, body, headers, orphans, mutex, requested, ibdPeer, queue, relay, unorphaning, announced, lost, relayed, direct>>

(* Mutant: the header that gets its body stays header-only. *)
InsertBodyKeepsHeader(p) ==
  /\ ibd[p].at = "bodies" /\ ibd[p].hashes # <<>> /\ ~At(p, "gone")
  /\ LET b == Head(ibd[p].hashes)
     IN /\ body' = body \cup {b} /\ UNCHANGED headers
        /\ ibd' = IF b \in body THEN [ibd EXCEPT ![p].hashes = Tail(@)] ELSE [ibd EXCEPT ![p].at = "inserted"]
  /\ UNCHANGED <<limits, orphans, mutex, requested, ibdPeer, queue, relay, unorphaning, announced, lost, relayed, direct>>

(* The next body: a duplicate is skipped, with no OnNewBlock.              *)
InsertBody(p) ==
  /\ ibd[p].at = "bodies" /\ ibd[p].hashes # <<>> /\ ~At(p, "gone")
  /\ LET b == Head(ibd[p].hashes)
     IN /\ body' = body \cup {b} /\ headers' = headers \ {b}
        /\ ibd' = IF b \in body THEN [ibd EXCEPT ![p].hashes = Tail(@)] ELSE [ibd EXCEPT ![p].at = "inserted"]
  /\ UNCHANGED <<limits, orphans, mutex, requested, ibdPeer, queue, relay, unorphaning, announced, lost, relayed, direct>>

(* The IBD ends: everything is there, or the connection is gone.           *)
FinishIBD(p) ==
  /\ \/ ibd[p].at = "bodies" /\ ibd[p].hashes = <<>>
     \/ At(p, "gone") /\ ibd[p].at \in {"headers", "bodies"}
  /\ ibdPeer' = NoPeer
  /\ lost' = lost \cup (PastOfBlock[ibd[p].block] \ body)
  /\ ibd' = [ibd EXCEPT ![p] = NoIBD]
  /\ UNCHANGED <<limits, body, headers, orphans, mutex, requested, queue, relay, unorphaning, announced, relayed, direct>>

-----------------------------------------------------------------------------
RelayStep(p) ==
  \/ ReadInv(p) \/ CheckOrphan(p) \/ CheckIBD(p) \/ RequestBlock(p) \/ ReceiveBlock(p) \/ ProcessBlock(p) \/ RelayVirtualParents(p)
  \/ RequestLocator(p) \/ ReceiveLocator(p) \/ AddOrphan(p) \/ AddOrphanRootsToQueue(p)
UnorphanStep(f) == StartUnorphaning(f) \/ UnorphanBlock(f) \/ FinishUnorphaning(f)
IBDStep(p) == TrySetIBDRunning(p) \/ SyncHeaders(p) \/ ListMissingBodies(p) \/ InsertBody(p) \/ FinishIBD(p)

Progress ==
  \/ \E p \in Peers : RelayStep(p) \/ IBDStep(p)
  \/ \E f \in Flows : UnorphanStep(f)

Next ==
  \/ Progress
  \/ \E p \in Peers : TimeOut(p) \/ \E b \in Blocks : Announce(p, b)

Spec == Init /\ [][Next]_vars

(* Some flow that can go on does: goroutines are scheduled, a mutex is     *)
(* released, and a peer that is not given up answers.  Nothing is assumed  *)
(* about which flow it is.                                                 *)
FairSpec == Spec /\ WF_vars(Progress)

-----------------------------------------------------------------------------
TypeOK ==
  /\ body \subseteq Blocks /\ headers \subseteq Blocks \ body /\ orphans \subseteq Blocks
  /\ requested \subseteq Blocks /\ ibdPeer \in Peers \cup {NoPeer} /\ mutex \in Flows \cup {NoFlow}

(* A block counts as requested exactly while one flow waits for it, so     *)
(* that no failure leaves a block that nobody may request again.           *)
RequestsOwned ==
  /\ requested = {relay[p].block : p \in {q \in Peers : At(q, "waitBlock")}}
  /\ \A p, q \in Peers : p # q /\ At(p, "waitBlock") /\ At(q, "waitBlock") => relay[p].block # relay[q].block

(* UnorphanBlocks looks its queue up in the pool without a test: what is   *)
(* queued is there, once.                                                  *)
UnorphanQueueInPool ==
  /\ Range(unorphaning) \subseteq orphans
  /\ Cardinality(Range(unorphaning)) = Len(unorphaning)

(* The latch is held by the one flow that runs an IBD and by nobody else,  *)
(* so that UnsetIBDRunning never meets a latch that is not set.            *)
IBDLatchOwned ==
  \A p \in Peers : ibd[p].at \in {"headers", "missing", "bodies", "inserted"} <=> ibdPeer = p

(* Whatever fails, what the flows share is left as it must be: a requested *)
(* block has one flow that waits for it, the queue of UnorphanBlocks is in *)
(* the pool, and the IBD latch is held by the flow that runs the IBD.      *)
RelayStateOwned == RequestsOwned /\ UnorphanQueueInPool /\ IBDLatchOwned

Settled == \A p \in Peers : queue[p] = <<>> /\ relay[p].at \in {"read", "gone"} /\ ibd[p].at = "wait"

(* Nothing is lost silently: when all flows rest, every announced block is *)
(* in the DAG, in the orphan pool, or was given up by the flow that had    *)
(* it; and an orphan misses no ancestor that was not given up.             *)
NothingLostSilently ==
  Settled => /\ \A pb \in announced : pb[2] \in body \cup orphans \cup lost
             /\ \A o \in orphans : GetOrphanRoots(o) \subseteq lost

(* Whatever other flows insert meanwhile, a block that a relay flow has    *)
(* inserted reaches the network: it, or a block above it, is announced.    *)
InsertedIsRelayed ==
  \A b \in direct : (\A p \in Peers : ~(At(p, "relay") /\ relay[p].block = b))
                    => \E r \in relayed : b \in PastOfBlock[r]

(* No announced block is lost silently, and what a relay flow inserted is  *)
(* announced.                                                              *)
RelayLosesNothing == NothingLostSilently /\ InsertedIsRelayed

(* When all flows rest, no block that could be inserted is left in the     *)
(* orphan pool.                                                            *)
NoReadyOrphan == Settled => \A o \in orphans : ~(Parents[o] \subseteq body)
=============================================================================
