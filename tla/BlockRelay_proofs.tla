------------------------- MODULE BlockRelay_proofs -------------------------
(* What BlockRelay promises, for any peers, any DAG of blocks, any         *)
(* announcements and any limits: the flows own what they share             *)
(* (RelayStateOwned) and no block gets lost (RelayLosesNothing).           *)
EXTENDS BlockRelay_flows, FiniteSetTheorems

-----------------------------------------------------------------------------
(* Every block is accounted for: it is in the DAG, in the orphan pool, in  *)
(* somebody's hands or given up.                                           *)

(* A step of the flows of one peer keeps a block accounted for when what   *)
(* this peer had in hand is.                                               *)
LEMMA AccountedMoves ==
  ASSUME NEW b, Accounted(b), NEW p \in Peers, Placed \subseteq Placed',
         \A q \in Peers \ {p} : queue'[q] = queue[q] /\ relay'[q] = relay[q] /\ ibd'[q] = ibd[q],
         Queued(p, b) => b \in Placed' \/ Queued(p, b)' \/ Handled(p, b)' \/ Synced(p, b)',
         Handled(p, b) => b \in Placed' \/ InHand(b)',
         Synced(p, b) => b \in Placed' \/ Synced(p, b)'
  PROVE  Accounted(b)'
<1>1. \A q \in Peers \ {p} : (Queued(q, b) => Queued(q, b)') /\ (Handled(q, b) => Handled(q, b)') /\ (Synced(q, b) => Synced(q, b)')
  BY DEF Queued, Handled, Synced
<1>2. Queued(p, b)' \/ Handled(p, b)' \/ Synced(p, b)' => InHand(b)'
  BY DEF InHand
<1>3. CASE b \in Placed
  BY <1>3 DEF Accounted
<1>4. ASSUME NEW q \in Peers, Queued(q, b) \/ Handled(q, b) \/ Synced(q, b) PROVE Accounted(b)'
  <2>1. CASE q = p
    BY <1>2, <1>4, <2>1 DEF Accounted
  <2>2. CASE q # p
    <3>1. Queued(q, b)' \/ Handled(q, b)' \/ Synced(q, b)'
      BY <1>1, <1>4, <2>2
    <3>2. InHand(b)'
      BY <3>1 DEF InHand
    <3> QED BY <3>2 DEF Accounted
  <2> QED BY <2>1, <2>2
<1> QED BY <1>3, <1>4 DEF Accounted, InHand

(* An announced block is queued, after what was queued before.             *)
LEMMA AnnouncedQueued ==
  ASSUME TypeInv, NEW p \in Peers, NEW c \in Blocks, Announce(p, c)
  PROVE  Queued(p, c)' /\ \A b : Queued(p, b) => Queued(p, b)'
<1> DEFINE inv == [block |-> c, root |-> FALSE]
<1>1. queue[p] \in Seq(Invs) /\ inv \in Invs /\ queue'[p] = Append(queue[p], inv)
  BY Zenon DEF TypeInv, Announce, Invs
<1>2. /\ Len(queue'[p]) = Len(queue[p]) + 1 /\ DOMAIN queue'[p] = 1 .. Len(queue[p]) + 1
      /\ queue'[p][Len(queue[p]) + 1] = inv
      /\ \A i \in DOMAIN queue[p] : i \in DOMAIN queue'[p] /\ queue'[p][i] = queue[p][i]
  BY <1>1
<1>3. Len(queue[p]) + 1 \in DOMAIN queue'[p]
  BY <1>1, <1>2
<1> QED BY <1>2, <1>3 DEF Queued

(* The missing ancestors are queued, before what was queued before.        *)
LEMMA RootsQueued ==
  ASSUME OrdersEnumerate, RootsComplete, TypeInv, NEW p \in Peers, AddOrphanRootsToQueue(p)
  PROVE  /\ \A b \in GetOrphanRoots(relay[p].block) : Queued(p, b)'
         /\ \A b : Queued(p, b) => Queued(p, b)'
<1> DEFINE roots == GetOrphanRoots(relay[p].block)
           invs(order) == [i \in DOMAIN order |-> [block |-> order[i], root |-> TRUE]]
<1>1. roots \subseteq Blocks
  <2>1. relay[p].block \in Blocks
    BY Zenon DEF TypeInv, AddOrphanRootsToQueue, At, Relays, Resting
  <2> QED BY <2>1 DEF RootsComplete
<1>2. PICK order \in Orders(roots) : queue' = [queue EXCEPT ![p] = invs(order) \o @]
  BY Zenon DEF AddOrphanRootsToQueue
<1> HIDE DEF roots
<1>3. order \in Seq(roots) /\ Range(order) = roots
  BY <1>1 DEF OrdersEnumerate
<1>4. order \in Seq(Blocks) /\ \A i \in DOMAIN order : order[i] \in Blocks
  BY <1>1, <1>3, SeqElement
<1>5. invs(order) \in Seq(Invs) /\ Len(invs(order)) = Len(order) /\ DOMAIN invs(order) = DOMAIN order
  <2>1. \A i \in 1 .. Len(order) : [block |-> order[i], root |-> TRUE] \in Invs
    BY <1>4 DEF Invs
  <2>2. invs(order) \in [1 .. Len(order) -> Invs]
    BY <1>4, <2>1
  <2> QED BY <1>4, <2>2
<1>6. \A i \in DOMAIN order : invs(order)[i].block = order[i]
  OBVIOUS
<1> HIDE DEF invs
<1>7. queue[p] \in Seq(Invs) /\ queue'[p] = invs(order) \o queue[p]
  BY <1>2 DEF TypeInv
<1>8. /\ \A i \in DOMAIN order : i \in DOMAIN queue'[p] /\ queue'[p][i] = invs(order)[i]
      /\ \A i \in DOMAIN queue[p] : i + Len(order) \in DOMAIN queue'[p] /\ queue'[p][i + Len(order)] = queue[p][i]
  BY <1>4, <1>5, <1>7
<1>9. ASSUME NEW b \in roots PROVE Queued(p, b)'
  <2>1. PICK i \in DOMAIN order : order[i] = b
    BY <1>3 DEF Range
  <2> QED BY <1>6, <1>8, <2>1 DEF Queued
<1>10. ASSUME NEW b, Queued(p, b) PROVE Queued(p, b)'
  BY <1>8, <1>10 DEF Queued
<1> QED BY <1>9, <1>10 DEF roots

(* A block that is accounted for stays so: no step drops a block that is   *)
(* neither in the DAG nor an orphan without listing it as lost.            *)
LEMMA AccountedStep ==
  ASSUME Facts, TypeInv, HolderInv, RequestsOwned, PlaceInv, [Next]_vars, NEW b \in Blocks, Accounted(b)
  PROVE  Accounted(b)'
<1>f. OrdersEnumerate /\ PastClosed /\ RootsComplete
  BY DEF Facts
<1>t. /\ relay \in [Peers -> Relays] /\ ibd \in [Peers -> IBDs] /\ queue \in [Peers -> Seq(Invs)]
      /\ \A p \in Peers : queue[p] \in Seq(Invs)
  BY DEF TypeInv
<1>1. ASSUME NEW p \in Peers, ReadInv(p) PROVE Accounted(b)'
  <2>1. UNCHANGED <<ibd, body, orphans, lost>> /\ \A q \in Peers \ {p} : relay'[q] = relay[q] /\ queue'[q] = queue[q]
    BY <1>1, <1>t DEF ReadInv
  <2>2. relay[p].at = "read" /\ queue[p] # <<>> /\ queue[p] \in Seq(Invs) /\ queue'[p] = Tail(queue[p])
    BY <1>1, <1>t DEF ReadInv, At
  <2>3. ASSUME Queued(p, b) PROVE b \in Placed' \/ Queued(p, b)' \/ Handled(p, b)'
    <3>1. PICK i \in DOMAIN queue[p] : queue[p][i].block = b
      BY <2>3 DEF Queued
    <3>2. CASE i = 1
      <4>1. Head(queue[p]).block = b
        BY <2>2, <3>1, <3>2
      <4>2. CASE b \in body
        BY <2>1, <4>2 DEF Placed
      <4>3. CASE b \notin body
        BY <1>1, <1>t, <4>1, <4>3 DEF ReadInv, Handled, Idle, Resting
      <4> QED BY <4>2, <4>3
    <3>3. CASE i # 1
      <4>1. i - 1 \in DOMAIN Tail(queue[p]) /\ Tail(queue[p])[i - 1] = queue[p][i]
        BY <2>2, <3>3
      <4> QED BY <2>2, <3>1, <4>1 DEF Queued
    <3> QED BY <3>2, <3>3
  <2>4. ~Handled(p, b) /\ (Synced(p, b) => Synced(p, b)') /\ Placed' = Placed
    BY <2>1, <2>2 DEF Handled, Synced, Resting, Placed
  <2> QED BY <2>1, <2>3, <2>4, AccountedMoves
<1>2. ASSUME NEW p \in Peers, CheckOrphan(p) PROVE Accounted(b)'
  <2>1. UNCHANGED <<queue, ibd>> /\ \A q \in Peers \ {p} : relay'[q] = relay[q]
    BY <1>2, <1>t, GotoFacts, ContinueFacts, SMTT(30) DEF CheckOrphan, At, RelayAt, Resting
  <2>2. Placed \subseteq Placed'
    BY <1>2 DEF CheckOrphan, Placed, Lose
  <2>3. Handled(p, b) => b \in Placed' \/ Handled(p, b)'
    BY <1>2, <1>t, GotoFacts, ContinueFacts DEF CheckOrphan, Placed, Handled, Lose, At, RelayAt, Resting
  <2> QED BY <2>1, <2>2, <2>3, AccountedMoves DEF Queued, Synced, InHand
<1>3. ASSUME NEW p \in Peers, CheckIBD(p) PROVE Accounted(b)'
  <2>1. UNCHANGED <<queue, ibd>> /\ \A q \in Peers \ {p} : relay'[q] = relay[q]
    BY <1>3, <1>t, GotoFacts, ContinueFacts, Zenon DEF CheckIBD, At, RelayAt, Resting
  <2>2. Placed \subseteq Placed'
    BY <1>3 DEF CheckIBD, Placed, Lose
  <2>3. Handled(p, b) => b \in Placed' \/ Handled(p, b)'
    BY <1>3, <1>t, GotoFacts, ContinueFacts, Zenon DEF CheckIBD, Placed, Handled, Lose, At, RelayAt, Resting
  <2> QED BY <2>1, <2>2, <2>3, AccountedMoves DEF Queued, Synced, InHand
<1>4. ASSUME NEW p \in Peers, RequestBlock(p) PROVE Accounted(b)'
  <2>1. UNCHANGED <<queue, ibd, body, orphans, lost>> /\ \A q \in Peers \ {p} : relay'[q] = relay[q]
    BY <1>4, <1>t, GotoFacts, ContinueFacts DEF RequestBlock, At, RelayAt, Resting
  <2>2. ASSUME Handled(p, b) PROVE InHand(b)'
    <3>1. CASE b \in requested
      <4>1. PICK q \in Peers : relay[q].at = "waitBlock" /\ relay[q].block = b
        BY <3>1 DEF RequestsOwned, At
      <4>2. q # p
        BY <1>4, <4>1 DEF RequestBlock, At
      <4>3. Handled(q, b)'
        BY <2>1, <4>1, <4>2 DEF Handled, Resting
      <4> QED BY <4>3 DEF InHand
    <3>2. CASE b \notin requested
      <4>1. Handled(p, b)'
        BY <1>4, <1>t, <2>2, <3>2, GotoFacts, SMTT(30) DEF RequestBlock, Handled, At, RelayAt, Resting
      <4> QED BY <4>1 DEF InHand
    <3> QED BY <3>1, <3>2
  <2> QED BY <2>1, <2>2, AccountedMoves DEF Queued, Synced, Placed
<1>5. ASSUME NEW p \in Peers, ReceiveBlock(p) PROVE Accounted(b)'
  <2>1. UNCHANGED <<queue, ibd, body, orphans>> /\ lost \subseteq lost'
    BY <1>5 DEF ReceiveBlock, Lose
  <2>2. /\ \A q \in Peers \ {p} : relay'[q] = relay[q]
        /\ Handled(p, b) => b \in lost' \/ Handled(p, b)'
    <3>1. CASE Continue(p) /\ Lose(p)
      BY <1>5, <1>t, <3>1, ContinueFacts DEF Handled, Lose
    <3>2. CASE relay' = [relay EXCEPT ![p].at = "process", ![p].old = virtualParents]
      BY <1>5, <1>t, <3>2 DEF Handled, Relays, Resting
    <3> QED BY <1>5, <3>1, <3>2 DEF ReceiveBlock
  <2>3. Placed \subseteq Placed' /\ (Handled(p, b) => b \in Placed' \/ InHand(b)')
    BY <2>1, <2>2, SMTT(30) DEF Placed, InHand
  <2> QED BY <2>1, <2>2, <2>3, AccountedMoves DEF Queued, Synced
<1>6. ASSUME NEW p \in Peers, ProcessBlock(p) PROVE Accounted(b)'
  <2>1. UNCHANGED <<queue, ibd>> /\ \A q \in Peers \ {p} : relay'[q] = relay[q]
    BY <1>6, <1>t, GotoFacts, ContinueFacts, SMTT(30) DEF ProcessBlock, At, RelayAt, Resting
  <2>2. Placed \subseteq Placed'
    BY <1>6 DEF ProcessBlock, Placed, Lose
  <2>3. Handled(p, b) => b \in Placed' \/ Handled(p, b)'
    BY <1>6, <1>t, GotoFacts, ContinueFacts DEF ProcessBlock, Placed, Handled, Lose, At, RelayAt, Resting
  <2> QED BY <2>1, <2>2, <2>3, AccountedMoves DEF Queued, Synced, InHand
<1>7. ASSUME NEW p \in Peers, RelayVirtualParents(p) PROVE Accounted(b)'
  <2>1. UNCHANGED <<queue, ibd>> /\ \A q \in Peers \ {p} : relay'[q] = relay[q]
    BY <1>7, <1>t, GotoFacts, ContinueFacts, Zenon DEF RelayVirtualParents, At, RelayAt, Resting
  <2>2. Placed \subseteq Placed'
    BY <1>7, SMTT(20) DEF RelayVirtualParents, Placed, Lose
  <2>3. Handled(p, b) => b \in Placed' \/ Handled(p, b)'
    BY <1>7, <1>t, GotoFacts, ContinueFacts DEF RelayVirtualParents, Placed, Handled, Lose, At, RelayAt, Resting
  <2> QED BY <2>1, <2>2, <2>3, AccountedMoves DEF Queued, Synced, InHand
<1>8. ASSUME NEW p \in Peers, RequestLocator(p) PROVE Accounted(b)'
  <2>1. UNCHANGED <<queue, ibd>> /\ \A q \in Peers \ {p} : relay'[q] = relay[q]
    BY <1>8, <1>t, GotoFacts, ContinueFacts, Zenon DEF RequestLocator, At, RelayAt, Resting
  <2>2. Placed \subseteq Placed'
    BY <1>8 DEF RequestLocator, Placed, Lose
  <2>3. Handled(p, b) => b \in Placed' \/ Handled(p, b)'
    BY <1>8, <1>t, GotoFacts, ContinueFacts, SMTT(30) DEF RequestLocator, Placed, Handled, Lose, At, RelayAt, Resting
  <2> QED BY <2>1, <2>2, <2>3, AccountedMoves DEF Queued, Synced, InHand
<1>9. ASSUME NEW p \in Peers, ReceiveLocator(p) PROVE Accounted(b)'
  <2>1. UNCHANGED <<queue, body, orphans>> /\ lost \subseteq lost'
    BY <1>9 DEF ReceiveLocator, Lose
  <2>2. \A q \in Peers \ {p} : relay'[q] = relay[q] /\ ibd'[q] = ibd[q]
    BY <1>9, <1>t, GotoFacts, ContinueFacts, Zenon DEF ReceiveLocator, At, RelayAt, Resting
  <2>3. Handled(p, b) => b \in lost' \/ Handled(p, b)' \/ Synced(p, b)'
    <3>1. CASE Continue(p) /\ ibd' = [ibd EXCEPT ![p].at = "start", ![p].block = relay[p].block]
      BY <1>t, <3>1 DEF Handled, Synced, IBDs
    <3>2. CASE Lose(p)
      BY <3>2 DEF Handled, Lose
    <3>3. CASE Goto(p, "addOrphan")
      BY <1>9, <1>t, <3>3, GotoFacts, Zenon DEF ReceiveLocator, Handled, At, RelayAt, Resting
    <3> QED BY <1>9, <3>1, <3>2, <3>3 DEF ReceiveLocator
  <2>4. Synced(p, b) => Synced(p, b)'
    BY <1>9, <1>t DEF ReceiveLocator, Synced
  <2>5. Placed \subseteq Placed' /\ (Handled(p, b) => b \in Placed' \/ InHand(b)')
    BY <2>1, <2>3 DEF Placed, InHand
  <2> QED BY <2>1, <2>2, <2>4, <2>5, AccountedMoves DEF Queued
<1>10. ASSUME NEW p \in Peers, AddOrphan(p) PROVE Accounted(b)'
  <2>1. UNCHANGED <<queue, ibd>> /\ \A q \in Peers \ {p} : relay'[q] = relay[q]
    BY <1>10, <1>t, GotoFacts, ContinueFacts, Zenon DEF AddOrphan, At, RelayAt, Resting
  <2>2. Placed \subseteq Placed'
    BY <1>10 DEF AddOrphan, Placed, Lose
  <2>3. Handled(p, b) => b \in Placed' \/ Handled(p, b)'
    BY <1>10, <1>t, GotoFacts, ContinueFacts, SMTT(20) DEF AddOrphan, Placed, Handled, Lose, At, RelayAt, Resting
  <2> QED BY <2>1, <2>2, <2>3, AccountedMoves DEF Queued, Synced, InHand
<1>11. ASSUME NEW p \in Peers, AddOrphanRootsToQueue(p) PROVE Accounted(b)'
  <2>1. UNCHANGED <<ibd, body, orphans, lost>>
    BY <1>11 DEF AddOrphanRootsToQueue
  <2>2. \A q \in Peers \ {p} : relay'[q] = relay[q] /\ queue'[q] = queue[q]
    BY <1>11, <1>t, ContinueFacts DEF AddOrphanRootsToQueue
  <2>3. Handled(p, b) => b \in Placed'
    BY <1>11, <2>1, Zenon DEF AddOrphanRootsToQueue, Handled, PlaceInv, Placed, At
  <2>4. Queued(p, b) => Queued(p, b)'
    BY <1>11, <1>f, <1>t, RootsQueued
  <2> QED BY <2>1, <2>2, <2>3, <2>4, AccountedMoves DEF Synced, Placed
<1>12. ASSUME NEW f \in Flows, StartUnorphaning(f) PROVE Accounted(b)'
  <2>1. UNCHANGED <<queue, relay, ibd>> /\ Placed \subseteq Placed'
    BY <1>12 DEF StartUnorphaning, Placed
  <2> QED BY <2>1 DEF Accounted, InHand, Queued, Handled, Synced
<1>13. ASSUME NEW f \in Flows, UnorphanBlock(f) PROVE Accounted(b)'
  <2>1. UNCHANGED <<queue, relay, ibd>> /\ Placed \subseteq Placed'
    BY <1>13, Zenon DEF UnorphanBlock, Placed, unorphanBlock
  <2> QED BY <2>1 DEF Accounted, InHand, Queued, Handled, Synced
<1>14. ASSUME NEW f \in Flows, FinishUnorphaning(f) PROVE Accounted(b)'
  <2>0. f[1] \in Peers /\ f \in {<<f[1], "relay">>, <<f[1], "ibd">>}
    BY DEF Flows
  <2>1. UNCHANGED <<queue, body, orphans, lost>>
    BY <1>14 DEF FinishUnorphaning
  <2>2. CASE f[2] = "relay"
    <3>1. UNCHANGED ibd /\ \A q \in Peers \ {f[1]} : relay'[q] = relay[q]
      BY <1>14, <1>t, <2>0, <2>2, ContinueFacts DEF FinishUnorphaning
    <3>2. Handled(f[1], b) => b \in body
      BY <1>14, <2>0, <2>2 DEF FinishUnorphaning, HolderInv, PlaceInv, Handled
    <3> QED BY <2>0, <2>1, <3>1, <3>2, AccountedMoves DEF Queued, Synced, Placed
  <2>3. CASE f[2] # "relay"
    <3>1. ibd[f[1]].at = "inserted"
      BY <1>14, <2>0, <2>3 DEF FinishUnorphaning, HolderInv
    <3>2. UNCHANGED relay /\ ibd' = [ibd EXCEPT ![f[1]].at = "bodies", ![f[1]].hashes = Tail(@)]
      BY <1>14, <2>3 DEF FinishUnorphaning
    <3>3. (\A q \in Peers \ {f[1]} : ibd'[q] = ibd[q]) /\ ibd'[f[1]].at = "bodies" /\ ibd'[f[1]].block = ibd[f[1]].block
      BY <1>t, <2>0, <3>2, SMTT(30) DEF IBDs
    <3>4. Synced(f[1], b) => Synced(f[1], b)'
      BY <3>3, SMTT(30) DEF Synced
    <3> QED BY <2>0, <2>1, <3>2, <3>3, <3>4, AccountedMoves, Zenon DEF Queued, Handled, Placed, InHand
  <2> QED BY <2>2, <2>3
<1>15. ASSUME NEW p \in Peers, TrySetIBDRunning(p) PROVE Accounted(b)'
  <2>1. UNCHANGED <<queue, relay>> /\ \A q \in Peers \ {p} : ibd'[q] = ibd[q]
    BY <1>15, <1>t DEF TrySetIBDRunning
  <2>2. Placed \subseteq Placed'
    BY <1>15 DEF TrySetIBDRunning, Placed
  <2>3. Synced(p, b) => b \in Placed' \/ Synced(p, b)'
    BY <1>15, <1>t, SMTT(30) DEF TrySetIBDRunning, Placed, Synced, IBDs
  <2> QED BY <2>1, <2>2, <2>3, AccountedMoves DEF Queued, Handled, InHand
<1>16. ASSUME NEW p \in Peers, SyncHeaders(p) PROVE Accounted(b)'
  <2>1. UNCHANGED <<queue, relay>> /\ \A q \in Peers \ {p} : ibd'[q] = ibd[q]
    BY <1>16, <1>t DEF SyncHeaders
  <2>2. Placed \subseteq Placed'
    BY <1>16 DEF SyncHeaders, Placed
  <2>3. Synced(p, b) => b \in Placed' \/ Synced(p, b)'
    BY <1>16, <1>t DEF SyncHeaders, Placed, Synced, IBDs
  <2> QED BY <2>1, <2>2, <2>3, AccountedMoves DEF Queued, Handled, InHand
<1>17. ASSUME NEW p \in Peers, ListMissingBodies(p) PROVE Accounted(b)'
  <2>1. UNCHANGED <<queue, relay>> /\ \A q \in Peers \ {p} : ibd'[q] = ibd[q]
    BY <1>17, <1>t DEF ListMissingBodies
  <2>2. Placed \subseteq Placed'
    BY <1>17 DEF ListMissingBodies, Placed
  <2>3. Synced(p, b) => b \in Placed' \/ Synced(p, b)'
    BY <1>17, <1>t DEF ListMissingBodies, Placed, Synced, IBDs
  <2> QED BY <2>1, <2>2, <2>3, AccountedMoves DEF Queued, Handled, InHand
<1>18. ASSUME NEW p \in Peers, InsertBody(p) PROVE Accounted(b)'
  <2>1. UNCHANGED <<queue, relay>> /\ \A q \in Peers \ {p} : ibd'[q] = ibd[q]
    BY <1>18, <1>t DEF InsertBody
  <2>2. Placed \subseteq Placed'
    BY <1>18 DEF InsertBody, Placed
  <2>3. Synced(p, b) => b \in Placed' \/ Synced(p, b)'
    BY <1>18, <1>t, SMTT(20) DEF InsertBody, Placed, Synced, IBDs
  <2> QED BY <2>1, <2>2, <2>3, AccountedMoves DEF Queued, Handled, InHand
<1>19. ASSUME NEW p \in Peers, FinishIBD(p) PROVE Accounted(b)'
  <2>1. UNCHANGED <<queue, relay>> /\ \A q \in Peers \ {p} : ibd'[q] = ibd[q]
    BY <1>19, <1>t DEF FinishIBD
  <2>2. Placed \subseteq Placed'
    BY <1>19, SMTT(30) DEF FinishIBD, Placed
  <2>3. Synced(p, b) => b \in Placed' \/ Synced(p, b)'
    BY <1>19, <1>f, <1>t, SMTT(30) DEF PastClosed, FinishIBD, Placed, Synced, IBDs
  <2> QED BY <2>1, <2>2, <2>3, AccountedMoves DEF Queued, Handled, InHand
<1>20. ASSUME NEW p \in Peers, TimeOut(p) PROVE Accounted(b)'
  <2>1. UNCHANGED <<ibd, body, orphans>> /\ \A q \in Peers \ {p} : relay'[q] = relay[q] /\ queue'[q] = queue[q]
    BY <1>20, <1>t DEF TimeOut
  <2>2. lost' = lost \cup {relay[p].block} \cup {queue[p][i].block : i \in DOMAIN queue[p]}
    BY <1>20 DEF TimeOut
  <2>3. (Handled(p, b) => b \in lost') /\ (Queued(p, b) => b \in lost')
    BY <2>2, SMTT(30) DEF Handled, Queued
  <2> QED BY <2>1, <2>2, <2>3, AccountedMoves DEF Synced, Placed
<1>21. ASSUME NEW p \in Peers, NEW c \in Blocks, Announce(p, c) PROVE Accounted(b)'
  <2>1. UNCHANGED <<relay, ibd, body, orphans, lost>> /\ \A q \in Peers \ {p} : queue'[q] = queue[q]
    BY <1>21, <1>t DEF Announce
  <2>2. Queued(p, b) => Queued(p, b)'
    BY <1>21, <1>t, AnnouncedQueued, SMTT(30)
  <2> QED BY <2>1, <2>2, AccountedMoves DEF Synced, Handled, Placed, InHand
<1>22. CASE UNCHANGED vars
  BY <1>22 DEF Accounted, InHand, Queued, Handled, Synced, Placed, vars
<1> QED
  BY <1>1, <1>2, <1>3, <1>4, <1>5, <1>6, <1>7, <1>8, <1>9, <1>10, <1>11, <1>12, <1>13, <1>14, <1>15,
     <1>16, <1>17, <1>18, <1>19, <1>20, <1>21, <1>22, SMTT(30)
  DEF Next, Progress, RelayStep, UnorphanStep, IBDStep

(* Every announced block is accounted for.                                 *)
LEMMA AnnouncedStep ==
  Facts /\ TypeInv /\ HolderInv /\ RequestsOwned /\ PlaceInv /\ AnnouncedInv /\ [Next]_vars => AnnouncedInv'
<1> SUFFICES ASSUME Facts, TypeInv, HolderInv, RequestsOwned, PlaceInv, AnnouncedInv, [Next]_vars,
                    NEW pb \in announced'
             PROVE  Accounted(pb[2])'
  BY DEF AnnouncedInv
<1>1. CASE pb \in announced
  <2>1. pb[2] \in Blocks /\ Accounted(pb[2])
    BY <1>1, BlockRelayAssumption DEF TypeInv, AnnouncedInv
  <2> QED BY <2>1, AccountedStep, SMTT(30)
<1>2. ASSUME NEW p \in Peers, NEW b \in Blocks, Announce(p, b), pb \notin announced PROVE Accounted(pb[2])'
  <2>1. pb[2] = b
    BY <1>2 DEF Announce
  <2>2. Queued(p, b)'
    BY <1>2, AnnouncedQueued
  <2>3. InHand(b)'
    BY <2>2 DEF InHand
  <2> QED BY <2>1, <2>3, SMTT(20) DEF Accounted
<1>3. \/ UNCHANGED announced
      \/ \E p \in Peers, b \in Blocks : Announce(p, b)
  BY ZenonT(40) DEF Next, Progress, RelayStep, UnorphanStep, IBDStep, vars, ReadInv, CheckOrphan, CheckIBD, RequestBlock,
     ReceiveBlock, ProcessBlock, RelayVirtualParents, RequestLocator, ReceiveLocator, AddOrphan,
     AddOrphanRootsToQueue, StartUnorphaning, UnorphanBlock, FinishUnorphaning, TrySetIBDRunning, SyncHeaders,
     ListMissingBodies, InsertBody, FinishIBD, TimeOut
<1> QED BY <1>1, <1>2, <1>3

(* A flow about to look up the ancestors of an orphan stays there until it *)
(* queues them.                                                            *)
LEMMA RootsKept ==
  ASSUME TypeInv, HolderInv, [Next]_vars, NEW o, NEW p \in Peers, relay[p].at = "roots", relay[p].block = o
  PROVE  (relay'[p].at = "roots" /\ relay'[p].block = o) \/ AddOrphanRootsToQueue(p)
<1>t. relay \in [Peers -> Relays]
  BY DEF TypeInv
<1> DEFINE Kept == relay'[p].at = "roots" /\ relay'[p].block = o
<1>1. ASSUME NEW q \in Peers, ReadInv(q) PROVE Kept
  BY <1>1, <1>t DEF ReadInv, At, Goto, Continue
<1>2. ASSUME NEW q \in Peers, CheckOrphan(q) PROVE Kept
  BY <1>2, <1>t DEF CheckOrphan, At, Goto, Continue
<1>3. ASSUME NEW q \in Peers, CheckIBD(q) PROVE Kept
  BY <1>3, <1>t DEF CheckIBD, At, Goto, Continue
<1>4. ASSUME NEW q \in Peers, RequestBlock(q) PROVE Kept
  BY <1>4, <1>t DEF RequestBlock, At, Goto, Continue
<1>5. ASSUME NEW q \in Peers, ReceiveBlock(q) PROVE Kept
  BY <1>5, <1>t DEF ReceiveBlock, At, Goto, Continue
<1>6. ASSUME NEW q \in Peers, ProcessBlock(q) PROVE Kept
  BY <1>6, <1>t DEF ProcessBlock, At, Goto, Continue
<1>7. ASSUME NEW q \in Peers, RelayVirtualParents(q) PROVE Kept
  BY <1>7, <1>t DEF RelayVirtualParents, At, Goto, Continue
<1>8. ASSUME NEW q \in Peers, RequestLocator(q) PROVE Kept
  BY <1>8, <1>t DEF RequestLocator, At, Goto, Continue
<1>9. ASSUME NEW q \in Peers, ReceiveLocator(q) PROVE Kept
  BY <1>9, <1>t DEF ReceiveLocator, At, Goto, Continue
<1>10. ASSUME NEW q \in Peers, AddOrphan(q) PROVE Kept
  BY <1>10, <1>t DEF AddOrphan, At, Goto, Continue
<1>11. ASSUME NEW q \in Peers, AddOrphanRootsToQueue(q), q # p PROVE Kept
  BY <1>11, <1>t DEF AddOrphanRootsToQueue, Continue
<1>12. ASSUME NEW f \in Flows, StartUnorphaning(f) PROVE Kept
  BY <1>12 DEF StartUnorphaning
<1>13. ASSUME NEW f \in Flows, UnorphanBlock(f) PROVE Kept
  BY <1>13 DEF UnorphanBlock
<1>14. ASSUME NEW f \in Flows, FinishUnorphaning(f) PROVE Kept
  <2>1. CASE UNCHANGED relay
    BY <2>1
  <2>2. CASE f[2] = "relay"
    <3>1. f = <<f[1], "relay">> /\ f[1] \in Peers
      BY <2>2 DEF Flows
    <3>2. relay[f[1]].at = "inserted"
      BY <1>14, <3>1 DEF FinishUnorphaning, HolderInv
    <3> QED BY <1>14, <1>t, <2>2, <3>1, <3>2 DEF FinishUnorphaning, Continue
  <2> QED BY <1>14, <2>1, <2>2 DEF FinishUnorphaning
<1>15. ASSUME NEW q \in Peers, TrySetIBDRunning(q) PROVE Kept
  BY <1>15 DEF TrySetIBDRunning
<1>16. ASSUME NEW q \in Peers, SyncHeaders(q) PROVE Kept
  BY <1>16 DEF SyncHeaders
<1>17. ASSUME NEW q \in Peers, ListMissingBodies(q) PROVE Kept
  BY <1>17 DEF ListMissingBodies
<1>18. ASSUME NEW q \in Peers, InsertBody(q) PROVE Kept
  BY <1>18 DEF InsertBody
<1>19. ASSUME NEW q \in Peers, FinishIBD(q) PROVE Kept
  BY <1>19 DEF FinishIBD
<1>20. ASSUME NEW q \in Peers, TimeOut(q) PROVE Kept
  BY <1>20, <1>t, SMTT(30) DEF TimeOut, At, Goto, Continue
<1>21. ASSUME NEW q \in Peers, NEW b \in Blocks, Announce(q, b) PROVE Kept
  BY <1>21 DEF Announce
<1>22. ASSUME UNCHANGED vars PROVE Kept
  BY <1>22 DEF vars
<1> HIDE DEF Kept
<1>23. ASSUME NEW q \in Peers, AddOrphanRootsToQueue(q) PROVE Kept \/ AddOrphanRootsToQueue(p)
  <2>1. CASE q = p
    BY <1>23, <2>1
  <2>2. CASE q # p
    BY <1>11, <1>23, <2>2
  <2> QED BY <2>1, <2>2
<1>24. Kept \/ AddOrphanRootsToQueue(p)
  BY ZenonT(40), <1>1, <1>2, <1>3, <1>4, <1>5, <1>6, <1>7, <1>8, <1>9, <1>10, <1>23, <1>12, <1>13, <1>14, <1>15,
     <1>16, <1>17, <1>18, <1>19, <1>20, <1>21, <1>22
  DEF Next, Progress, RelayStep, UnorphanStep, IBDStep
<1> QED BY <1>24 DEF Kept

(* The parents of an orphan are accounted for, or about to be.             *)
LEMMA OrphanStep ==
  Facts /\ TypeInv /\ HolderInv /\ RequestsOwned /\ PlaceInv /\ OrphanInv /\ [Next]_vars => OrphanInv'
<1> SUFFICES ASSUME Facts, TypeInv, HolderInv, RequestsOwned, PlaceInv, OrphanInv, [Next]_vars,
                    NEW o \in orphans', NEW x \in Parents[o]
             PROVE  Accounted(x)' \/ \E p \in Peers : relay'[p].at = "roots" /\ relay'[p].block = o
  BY DEF OrphanInv
<1>1. CASE o \in orphans
  <2>0. o \in Blocks /\ x \in Blocks
    BY <1>1, BlockRelayAssumption DEF TypeInv
  <2>1. CASE Accounted(x)
    BY <2>0, <2>1, AccountedStep
  <2>2. ASSUME NEW p \in Peers, relay[p].at = "roots", relay[p].block = o
        PROVE  Accounted(x)' \/ \E q \in Peers : relay'[q].at = "roots" /\ relay'[q].block = o
    <3>1. CASE relay'[p].at = "roots" /\ relay'[p].block = o
      BY <3>1
    <3>2. CASE AddOrphanRootsToQueue(p)
      <4>1. x \in orphans \cup body \cup GetOrphanRoots(o)
        BY <1>1, <2>0 DEF Facts, RootsComplete
      <4>2. CASE x \in orphans \cup body
        BY <3>2, <4>2 DEF AddOrphanRootsToQueue, Accounted, Placed
      <4>3. CASE x \in GetOrphanRoots(o)
        <5>1. Queued(p, x)'
          BY <2>2, <3>2, <4>3, RootsQueued DEF Facts
        <5> QED BY <5>1 DEF Accounted, InHand
      <4> QED BY <4>1, <4>2, <4>3
    <3> QED BY <2>2, <3>1, <3>2, RootsKept
  <2> QED BY <1>1, <2>1, <2>2 DEF OrphanInv
<1>2. ASSUME NEW p \in Peers, AddOrphan(p), o \notin orphans PROVE relay'[p].at = "roots" /\ relay'[p].block = o
  <2>1. relay[p].at = "addOrphan" /\ Goto(p, "roots") /\ o = relay[p].block
    BY <1>2 DEF AddOrphan, At
  <2> QED BY <2>1, GotoFacts, Zenon DEF TypeInv, RelayAt, Resting
<1>3. orphans' \subseteq orphans \/ \E p \in Peers : AddOrphan(p)
  BY Zenon DEF Next, Progress, RelayStep, UnorphanStep, IBDStep, vars, ReadInv, CheckOrphan, CheckIBD, RequestBlock,
     ReceiveBlock, ProcessBlock, RelayVirtualParents, RequestLocator, ReceiveLocator,
     AddOrphanRootsToQueue, StartUnorphaning, UnorphanBlock, unorphanBlock, FinishUnorphaning, TrySetIBDRunning, SyncHeaders,
     ListMissingBodies, InsertBody, FinishIBD, TimeOut, Announce
<1> QED BY <1>1, <1>2, <1>3

-----------------------------------------------------------------------------
(* Induction for sets instead of predicates, which the provers can apply,  *)
(* and what follows: a recursive definition over the naturals has a        *)
(* solution.                                                               *)

(* Every non-empty set of naturals has a least element.                    *)
LEMMA Least ==
  ASSUME NEW T, T \subseteq Nat, T # {}
  PROVE  \E x \in T : \A y \in T : x <= y
<1> DEFINE R == OpToRel(<, Nat)
<1>1. IsWellFoundedOn(R, Nat)
  BY NatLessThanWellFounded, Zenon
<1>2. \A x, y \in Nat : x < y => <<x, y>> \in R
  BY DEF OpToRel
<1> HIDE DEF R
<1>3. PICK x \in T : \A y \in T : ~ (<<y, x>> \in R)
  BY <1>1, WFMin, Zenon
<1>4. \A y \in T : ~(y < x)
  BY <1>2, <1>3, Zenon
<1>5. \A y \in T : x <= y
  BY <1>4
<1> QED BY <1>5

(* A set is contained in another when each of its numbers is in the other  *)
(* provided that the smaller ones are.                                     *)
LEMMA StrongInduction ==
  ASSUME NEW S, S \subseteq Nat, NEW T,
         \A n \in S : (\A m \in S : m < n => m \in T) => n \in T
  PROVE  S \subseteq T
<1> DEFINE B == S \ T
<1> SUFFICES ASSUME B # {} PROVE FALSE
  OBVIOUS
<1>1. PICK n \in B : \A m \in B : n <= m
  <2>1. B \subseteq Nat
    BY Zenon
  <2> HIDE DEF B
  <2> QED BY <2>1, Least, Zenon
<1>2. \A m \in S : m < n => m \in T
  BY <1>1
<1> QED BY <1>2

(* Induction over the naturals.                                            *)
LEMMA Induction ==
  ASSUME NEW T, 0 \in T, \A n \in Nat : n \in T => n + 1 \in T
  PROVE  Nat \subseteq T
<1> SUFFICES ASSUME NEW n \in Nat, \A m \in Nat : m < n => m \in T
             PROVE  n \in T
  BY StrongInduction, Zenon
<1>1. CASE n = 0
  BY <1>1
<1>2. CASE n # 0
  <2>1. n - 1 \in Nat /\ n - 1 < n /\ (n - 1) + 1 = n
    BY <1>2
  <2>2. n - 1 \in T
    BY <2>1
  <2> QED BY <2>1, <2>2
<1> QED BY <1>1, <1>2

(* The iterates of a function exist.                                       *)
LEMMA Iterates ==
  ASSUME NEW S, NEW a \in S, NEW step \in [S -> S]
  PROVE  \E g \in [Nat -> S] : g[0] = a /\ \A n \in Nat : g[n + 1] = step[g[n]]
<1> DEFINE Appr(n, h) == /\ h \in [0 .. n -> S] /\ h[0] = a
                         /\ \A m \in 0 .. n : m < n => h[m + 1] = step[h[m]]
           T == {n \in Nat : \E h : Appr(n, h)}
<1>1. 0 \in T
  <2>1. Appr(0, [i \in 0 .. 0 |-> a])
    OBVIOUS
  <2> HIDE DEF Appr
  <2> QED BY <2>1
<1>2. ASSUME NEW n \in Nat, n \in T PROVE n + 1 \in T
  <2>1. PICK h : Appr(n, h)
    BY <1>2
  <2> DEFINE k == [i \in 0 .. n + 1 |-> IF i = n + 1 THEN step[h[n]] ELSE h[i]]
  <2>2. h[n] \in S /\ \A i \in 0 .. n : h[i] \in S
    BY <2>1
  <2>3. k \in [0 .. n + 1 -> S] /\ k[0] = a
    BY <2>1, <2>2
  <2>4. ASSUME NEW m \in 0 .. n + 1, m < n + 1 PROVE k[m + 1] = step[k[m]]
    <3>1. CASE m = n
      BY <3>1
    <3>2. CASE m < n
      BY <2>1, <3>2
    <3> QED BY <3>1, <3>2, <2>4
  <2>5. Appr(n + 1, k)
    BY <2>3, <2>4
  <2> HIDE DEF Appr
  <2> QED BY <2>5
<1>3. \A n \in Nat : \E h : Appr(n, h)
  <2> HIDE DEF Appr
  <2>1. Nat \subseteq T
    <3> HIDE DEF T
    <3> QED BY <1>1, <1>2, Induction
  <2> QED BY <2>1
<1> DEFINE H == [n \in Nat |-> CHOOSE h : Appr(n, h)]
<1>4. \A n \in Nat : Appr(n, H[n])
  <2> HIDE DEF Appr
  <2> QED BY <1>3
<1> HIDE DEF H
<1>5. ASSUME NEW n \in Nat PROVE \A m \in Nat : m <= n => H[n][m] = H[m][m]
  <2> DEFINE U == {m \in Nat : \A k, l \in Nat : m <= k /\ m <= l => H[k][m] = H[l][m]}
  <2>1. 0 \in U
    BY <1>4
  <2>2. ASSUME NEW m \in Nat, m \in U PROVE m + 1 \in U
    <3> SUFFICES ASSUME NEW k \in Nat, NEW l \in Nat, m + 1 <= k, m + 1 <= l
                 PROVE  H[k][m + 1] = H[l][m + 1]
      OBVIOUS
    <3>1. H[k][m + 1] = step[H[k][m]] /\ H[l][m + 1] = step[H[l][m]]
      BY <1>4
    <3>2. H[k][m] = H[l][m]
      BY <2>2
    <3> QED BY <3>1, <3>2
  <2>3. Nat \subseteq U
    <3> HIDE DEF U
    <3> QED BY <2>1, <2>2, Induction
  <2> QED BY <2>3
<1> DEFINE g == [n \in Nat |-> H[n][n]]
<1>6. g \in [Nat -> S] /\ g[0] = a
  BY <1>4
<1>7. ASSUME NEW n \in Nat PROVE g[n + 1] = step[g[n]]
  <2>1. H[n + 1][n + 1] = step[H[n + 1][n]]
    BY <1>4
  <2>2. H[n + 1][n] = H[n][n]
    BY <1>5
  <2> QED BY <2>1, <2>2
<1> HIDE DEF g
<1> QED BY <1>6, <1>7

(* A non-empty set of naturals within a finite one has a greatest element. *)
LEMMA Greatest ==
  ASSUME NEW B, IsFiniteSet(B), B \subseteq Nat, NEW T, T \subseteq B, T # {}
  PROVE  \E x \in T : \A y \in T : y <= x
<1> DEFINE U == {n \in Nat : \A S \in SUBSET B : S # {} /\ Cardinality(S) = n => \E x \in S : \A y \in S : y <= x}
<1>1. \A S \in SUBSET B : IsFiniteSet(S) /\ Cardinality(S) \in Nat
  BY FS_Subset, FS_CardinalityType, Zenon
<1>2. 0 \in U
  BY <1>1, FS_EmptySet
<1>3. ASSUME NEW n \in Nat, n \in U PROVE n + 1 \in U
  <2> SUFFICES ASSUME NEW S \in SUBSET B, S # {}, Cardinality(S) = n + 1
               PROVE  \E x \in S : \A y \in S : y <= x
    OBVIOUS
  <2>1. PICK z \in S : TRUE
    BY Zenon
  <2> DEFINE R == S \ {z}
  <2>2. Cardinality(R) = n
    BY <1>1, FS_RemoveElement
  <2>3. CASE R = {}
    BY <2>3
  <2>4. CASE R # {}
    <3>1. PICK x \in R : \A y \in R : y <= x
      BY <1>3, <2>2, <2>4
    <3>2. CASE z <= x
      BY <3>1, <3>2
    <3>3. CASE ~(z <= x)
      <4>1. z \in Nat /\ x \in Nat /\ \A y \in R : y \in Nat
        OBVIOUS
      <4>2. \A y \in R : y <= z
        BY <3>1, <3>3, <4>1
      <4>3. \A y \in S : y <= z
        BY <4>1, <4>2
      <4> QED BY <4>3
    <3> QED BY <3>2, <3>3
  <2> QED BY <2>3, <2>4
<1>4. Nat \subseteq U
  <2> HIDE DEF U
  <2> QED BY <1>2, <1>3, Induction
<1> QED BY <1>1, <1>4

-----------------------------------------------------------------------------
(* An enumeration of a finite set has each element of it once.             *)
LEMMA Enumeration ==
  ASSUME NEW S, IsFiniteSet(S), NEW order \in Orders(S)
  PROVE  /\ order \in Seq(S) /\ DOMAIN order = 1 .. Cardinality(S) /\ Len(order) = Cardinality(S)
         /\ \A i, j \in DOMAIN order : i # j => order[i] # order[j]
         /\ Range(order) = S
<1> DEFINE n == Cardinality(S)
<1>1. n \in Nat
  BY FS_CardinalityType
<1>3. order \in Injection(1 .. n, S)
  BY DEF Orders
<1>2. order \in [1 .. n -> S] /\ \A i, j \in 1 .. n : i # j => order[i] # order[j]
  BY <1>3 DEF Injection, IsInjective
<1>4. order \in Surjection(1 .. n, S)
  BY <1>1, <1>3, FS_Interval, FS_Injection
<1>5. Range(order) = S
  BY <1>2, <1>4 DEF Surjection, Range
<1> QED BY <1>1, <1>2, <1>5

(* The past of a block is what its recursive definition says: the          *)
(* definition has a solution.                                              *)
LEMMA PastEquation ==
  \A b \in Blocks : PastOfBlock[b] = {b} \cup UNION {PastOfBlock[x] : x \in Parents[b]}
<1> DEFINE Closed(T) == \A x \in T : Parents[x] \subseteq T
           P == [b \in Blocks |-> {c \in Blocks : \A T \in SUBSET Blocks : b \in T /\ Closed(T) => c \in T}]
           F(g) == [b \in Blocks |-> {b} \cup UNION {g[x] : x \in Parents[b]}]
<1>0. \A b \in Blocks : Parents[b] \subseteq Blocks
  BY BlockRelayAssumption
<1>1. ASSUME NEW b \in Blocks PROVE P[b] = {b} \cup UNION {P[x] : x \in Parents[b]}
  <2> DEFINE T0 == {b} \cup UNION {P[x] : x \in Parents[b]}
  <2>1. T0 \subseteq P[b]
    BY <1>0, Zenon
  <2>2. T0 \in SUBSET Blocks /\ b \in T0
    BY <1>0, Zenon
  <2>3. Closed(T0)
    <3> SUFFICES ASSUME NEW y \in T0, NEW z \in Parents[y] PROVE z \in T0
      BY Zenon
    <3>1. CASE y = b
      <4>1. z \in P[z]
        BY <3>1, <1>0
      <4> QED BY <3>1, <4>1, Zenon
    <3>2. ASSUME NEW x \in Parents[b], y \in P[x] PROVE z \in T0
      <4>1. z \in P[x]
        BY <3>2, <1>0
      <4> QED BY <4>1, Zenon
    <3> QED BY <3>1, <3>2, Zenon
  <2>4. P[b] \subseteq T0
    <3> HIDE DEF Closed, T0
    <3> QED BY <2>2, <2>3
  <2> QED BY <2>1, <2>4, Zenon
<1>2. P = F(P)
  <2>1. \A b \in Blocks : P[b] = F(P)[b]
    <3> HIDE DEF P
    <3> QED BY <1>1
  <2>2. P = [b \in Blocks |-> P[b]] /\ F(P) = [b \in Blocks |-> F(P)[b]]
    OBVIOUS
  <2> HIDE DEF P, F
  <2> QED BY <2>1, <2>2
<1>3. PastOfBlock = F(PastOfBlock)
  <2>1. \E g : g = F(g)
    BY <1>2, Zenon
  <2>2. PastOfBlock = CHOOSE g : g = F(g)
    BY DEF PastOfBlock
  <2> HIDE DEF F
  <2> QED BY <2>1, <2>2
<1> QED BY <1>3, Zenon

(* A set that is closed under parents has the past of each of its blocks.  *)
LEMMA PastInClosedSets ==
  ASSUME NEW T, \A x \in T \cap Blocks : Parents[x] \subseteq T
  PROVE  \A b \in T \cap Blocks : PastOfBlock[b] \subseteq T
<1> DEFINE U == {b \in Blocks : b \in T => PastOfBlock[b] \subseteq T}
<1> SUFFICES ASSUME NEW b \in Blocks, \A c \in Blocks : c < b => c \in U
             PROVE  b \in U
  <2>1. Blocks \subseteq Nat
    BY BlockRelayAssumption
  <2>2. (\A b \in Blocks : (\A c \in Blocks : c < b => c \in U) => b \in U) => Blocks \subseteq U
    <3> HIDE DEF U
    <3> QED BY <2>1, StrongInduction, Zenon
  <2> QED BY <2>2
<1> SUFFICES ASSUME b \in T PROVE PastOfBlock[b] \subseteq T
  OBVIOUS
<1>1. \A x \in Parents[b] : x \in Blocks /\ x < b /\ x \in T
  BY BlockRelayAssumption
<1>2. \A x \in Parents[b] : PastOfBlock[x] \subseteq T
  BY <1>1
<1> QED BY <1>2, PastEquation

(* The past of a block has the block, is closed under parents and has only *)
(* blocks.                                                                 *)
LEMMA PastFacts ==
  ASSUME NEW b \in Blocks
  PROVE  /\ b \in PastOfBlock[b]
         /\ PastOfBlock[b] \subseteq Blocks
         /\ \A c \in PastOfBlock[b] : Parents[c] \subseteq PastOfBlock[b]
<1>1. b \in PastOfBlock[b]
  BY PastEquation
<1>2. \A c \in Blocks : PastOfBlock[c] \subseteq Blocks
  BY BlockRelayAssumption, PastInClosedSets
<1> DEFINE U == {c \in Blocks : \A d \in PastOfBlock[c] : Parents[d] \subseteq PastOfBlock[c]}
<1>3. ASSUME NEW c \in Blocks, \A d \in Blocks : d < c => d \in U PROVE c \in U
  <2> SUFFICES ASSUME NEW d \in PastOfBlock[c] PROVE Parents[d] \subseteq PastOfBlock[c]
    OBVIOUS
  <2>1. PastOfBlock[c] = {c} \cup UNION {PastOfBlock[x] : x \in Parents[c]}
    BY PastEquation
  <2>2. \A x \in Parents[c] : x \in Blocks /\ x < c /\ x \in PastOfBlock[x]
    BY BlockRelayAssumption, PastEquation, Zenon
  <2>3. CASE d = c
    BY <2>1, <2>2, <2>3
  <2>4. ASSUME NEW x \in Parents[c], d \in PastOfBlock[x] PROVE Parents[d] \subseteq PastOfBlock[c]
    <3>1. x \in U
      BY <1>3, <2>2
    <3> QED BY <2>1, <2>4, <3>1
  <2> QED BY <2>1, <2>3, <2>4
<1>4. Blocks \subseteq U
  <2>1. Blocks \subseteq Nat
    BY BlockRelayAssumption
  <2> HIDE DEF U
  <2> QED BY <1>3, <2>1, StrongInduction, Zenon
<1> QED BY <1>1, <1>2, <1>4

(* What GetOrphanRoots reaches is within every set that has the orphan and *)
(* the parents of its orphans; what it stops at is neither an orphan nor   *)
(* in the DAG; and no parent of the orphan is overlooked.                  *)
LEMMA OrphanRoots ==
  ASSUME orphans \subseteq Blocks, NEW o \in Blocks
  PROVE  /\ \A T \in SUBSET Blocks : o \in T /\ (\A x \in T \cap orphans : Parents[x] \subseteq T)
                                      => GetOrphanRoots(o) \subseteq T \ (orphans \cup body)
         /\ GetOrphanRoots(o) \subseteq Blocks
         /\ o \in orphans => Parents[o] \subseteq orphans \cup body \cup GetOrphanRoots(o)
<1> DEFINE F(g) == [n \in Nat |-> IF n = 0 THEN {o} ELSE g[n - 1] \cup UNION {Parents[x] : x \in g[n - 1] \cap orphans}]
           reached == CHOOSE g : g = F(g)
           step == [R \in SUBSET Blocks |-> R \cup UNION {Parents[x] : x \in R \cap orphans}]
           N == Cardinality(Blocks)
<1>0. \A b \in Blocks : Parents[b] \subseteq Blocks
  BY BlockRelayAssumption
<1>1. PICK g \in [Nat -> SUBSET Blocks] : g[0] = {o} /\ \A n \in Nat : g[n + 1] = step[g[n]]
  <2>1. step \in [SUBSET Blocks -> SUBSET Blocks]
    BY <1>0
  <2>2. {o} \in SUBSET Blocks
    OBVIOUS
  <2> DEFINE S == SUBSET Blocks
             a == {o}
  <2>3. a \in S /\ step \in [S -> S]
    BY <2>1, <2>2
  <2> HIDE DEF step, S, a
  <2>4. \E g \in [Nat -> S] : g[0] = a /\ \A n \in Nat : g[n + 1] = step[g[n]]
    BY <2>3, Iterates
  <2> QED BY <2>4 DEF S, a
<1>2. g = F(g)
  <2>1. ASSUME NEW n \in Nat PROVE g[n] = F(g)[n]
    <3>1. CASE n = 0
      BY <1>1, <3>1
    <3>2. CASE n # 0
      <4>1. n - 1 \in Nat /\ (n - 1) + 1 = n
        BY <3>2
      <4>2. g[n] = step[g[n - 1]] /\ g[n - 1] \in SUBSET Blocks
        BY <1>1, <4>1, Zenon
      <4> QED BY <3>2, <4>2
    <3> QED BY <3>1, <3>2
  <2>2. g = [n \in Nat |-> g[n]] /\ F(g) = [n \in Nat |-> F(g)[n]]
    BY <1>1
  <2> HIDE DEF F
  <2> QED BY <2>1, <2>2
<1>3. reached = F(reached)
  <2> HIDE DEF F
  <2> QED BY <1>2
<1> HIDE DEF reached
<1>4. /\ reached[0] = {o}
      /\ \A n \in Nat : reached[n + 1] = reached[n] \cup UNION {Parents[x] : x \in reached[n] \cap orphans}
  BY <1>3
<1>5. GetOrphanRoots(o) = IF o \in orphans THEN reached[N] \ (orphans \cup body) ELSE {}
  BY DEF GetOrphanRoots, reached
<1>6. N \in Nat \ {0}
  <2>1. IsFiniteSet(Blocks)
    BY BlockRelayAssumption
  <2>2. N \in Nat /\ (N = 0 <=> Blocks = {})
    BY <2>1, FS_CardinalityType, FS_EmptySet
  <2> QED BY <2>2
<1> HIDE DEF N
<1>7. ASSUME NEW T \in SUBSET Blocks, o \in T, \A x \in T \cap orphans : Parents[x] \subseteq T
      PROVE  reached[N] \subseteq T
  <2> DEFINE U == {n \in Nat : reached[n] \subseteq T}
  <2>1. 0 \in U /\ \A n \in Nat : n \in U => n + 1 \in U
    BY <1>4, <1>7
  <2>2. Nat \subseteq U
    <3> HIDE DEF U
    <3> QED BY <2>1, Induction
  <2> QED BY <1>6, <2>2
<1>8. ASSUME o \in orphans PROVE Parents[o] \subseteq reached[N]
  <2> DEFINE U == {n \in Nat : n = 0 \/ Parents[o] \subseteq reached[n]}
  <2>1. ASSUME NEW n \in Nat, n \in U PROVE n + 1 \in U
    <3>1. CASE n = 0
      BY <1>4, <1>8, <3>1
    <3>2. CASE Parents[o] \subseteq reached[n]
      BY <1>4, <3>2
    <3> QED BY <2>1, <3>1, <3>2
  <2>2. 0 \in U
    OBVIOUS
  <2>3. Nat \subseteq U
    <3> HIDE DEF U
    <3> QED BY <2>1, <2>2, Induction
  <2> QED BY <1>6, <2>3
<1>9. Blocks \in SUBSET Blocks /\ \A x \in Blocks \cap orphans : Parents[x] \subseteq Blocks
  BY <1>0
<1> QED BY <1>5, <1>7, <1>8, <1>9

(* A block of the DAG is in the past of a virtual parent.                  *)
LEMMA BelowVirtualParent ==
  ASSUME TypeInv, NEW b \in body
  PROVE  \E v \in virtualParents : b \in PastOfBlock[v]
<1> DEFINE T == {c \in body : b \in PastOfBlock[c]}
<1>1. T # {} /\ T \subseteq Blocks /\ body \subseteq Blocks
  BY PastFacts DEF TypeInv
<1>2. PICK v \in T : \A c \in T : c <= v
  <2> HIDE DEF T
  <2> QED BY <1>1, BlockRelayAssumption, Greatest, Zenon
<1>3. ASSUME NEW c \in body, v \in Parents[c] PROVE FALSE
  <2>1. c \in Blocks /\ v \in Blocks /\ c \in Nat /\ v \in Nat /\ v < c
    BY <1>1, <1>3, BlockRelayAssumption
  <2>2. b \in PastOfBlock[c]
    BY <1>3, <2>1, PastEquation
  <2> QED BY <1>2, <2>1, <2>2
<1> QED BY <1>3 DEF virtualParents

(* An orphan queued once counts once.                                      *)
LEMMA QueueInPool == TypeInv /\ QueueInv => UnorphanQueueInPool
<1> SUFFICES ASSUME TypeInv, QueueInv PROVE UnorphanQueueInPool
  OBVIOUS
<1> DEFINE S == Range(unorphaning)
           n == Len(unorphaning)
<1>1. unorphaning \in [1 .. n -> S] /\ n \in Nat /\ DOMAIN unorphaning = 1 .. n
  BY DEF TypeInv, Range
<1>2. unorphaning \in Surjection(1 .. n, S) /\ unorphaning \in Injection(1 .. n, S)
  BY <1>1 DEF Surjection, Injection, IsInjective, QueueInv, Range
<1> HIDE DEF n, S
<1>3. IsFiniteSet(1 .. n) /\ Cardinality(1 .. n) = n
  BY <1>1, FS_Interval
<1>4. Cardinality(S) = n
  BY <1>2, <1>3, FS_Surjection
<1>5. S \subseteq orphans
  BY DEF S, Range, QueueInv
<1> QED BY <1>4, <1>5 DEF UnorphanQueueInPool, S, n

-----------------------------------------------------------------------------
(* The results.                                                            *)

(* The facts the steps use hold in every typed state.                      *)
LEMMA FactsHold == TypeInv => Facts
<1> SUFFICES ASSUME TypeInv PROVE Facts
  OBVIOUS
<1>1. OrdersEnumerate
  <2> SUFFICES ASSUME NEW S \in SUBSET Blocks, NEW order \in Orders(S)
               PROVE  /\ order \in Seq(S) /\ Range(order) = S
                      /\ \A i, j \in DOMAIN order : i # j => order[i] # order[j]
    BY DEF OrdersEnumerate
  <2>1. IsFiniteSet(S)
    BY BlockRelayAssumption, FS_Subset, Zenon
  <2> QED BY <2>1, Enumeration
<1>2. PastClosed
  BY PastFacts DEF PastClosed
<1>3. PastLeast
  <2> SUFFICES ASSUME NEW T \in SUBSET Blocks, \A x \in T : Parents[x] \subseteq T
               PROVE  \A b \in T : PastOfBlock[b] \subseteq T
    BY DEF PastLeast
  <2>1. \A x \in T \cap Blocks : Parents[x] \subseteq T
    OBVIOUS
  <2>2. \A b \in T \cap Blocks : PastOfBlock[b] \subseteq T
    BY <2>1, PastInClosedSets
  <2> QED BY <2>2
<1>4. RootsComplete
  <2>1. orphans \subseteq Blocks
    BY DEF TypeInv
  <2> QED BY <2>1, OrphanRoots DEF RootsComplete
<1>5. VirtualParentsOnTop
  BY BelowVirtualParent DEF VirtualParentsOnTop
<1> QED BY <1>1, <1>2, <1>3, <1>4, <1>5 DEF Facts

(* The invariant holds before anything is announced.                       *)
LEMMA InitIInv == Init => IInv
<1> SUFFICES ASSUME Init PROVE IInv
  OBVIOUS
<1>1. TypeInv
  BY BlockRelayAssumption DEF Init, TypeInv, Idle, NoIBD, Relays, IBDs, RelayAt, IBDAt, Resting, Flows, NoFlow
<1>2. HolderInv /\ QueueInv
  BY DEF Init, HolderInv, QueueInv, NoFlow
<1>3. RequestsOwned
  BY SMTT(30) DEF Init, RequestsOwned, At, Idle
<1>4. IBDLatchOwned
  BY BlockRelayAssumption DEF Init, IBDLatchOwned, NoIBD
<1>5. BodyInv
  BY BlockRelayAssumption, SMTT(30) DEF Init, BodyInv, NoIBD
<1>6. PlaceInv /\ AnnouncedInv /\ OrphanInv
  BY SMTT(30) DEF Init, PlaceInv, AnnouncedInv, OrphanInv, Idle
<1>7. RelayedInv
  BY DEF Init, RelayedInv, InsertedIsRelayed, At, Idle
<1> QED BY <1>1, <1>2, <1>3, <1>4, <1>5, <1>6, <1>7, SMTT(30) DEF IInv

(* Every step keeps the invariant.                                         *)
LEMMA IInvStep == IInv /\ [Next]_vars => IInv'
BY FactsHold, TypeStep, HolderStep, RequestsStep, LatchStep, QueueStep, BodyStep, PlaceStep, AnnouncedStep, OrphanStep, RelayedStep
  , SMTT(30) DEF IInv

(* The invariant holds throughout.                                         *)
THEOREM Invariance == Spec => []IInv
BY InitIInv, IInvStep, PTL DEF Spec

(* Type correctness, with headers and bodies disjoint: a block counts as   *)
(* header-only exactly until its body is inserted, by whichever flow.      *)
THEOREM TypesCorrect == Spec => []TypeOK
<1>1. IInv => TypeOK
  BY DEF IInv, TypeInv, TypeOK
<1> QED BY <1>1, Invariance, PTL

(* Whatever times out and in whichever order the flows run, a requested    *)
(* block has exactly one flow that waits for it, what UnorphanBlocks has   *)
(* queued is in the orphan pool, once, and the IBD latch is held by the    *)
(* one flow that runs an IBD.                                              *)
THEOREM RelayOwned == Spec => []RelayStateOwned
<1>1. IInv => RelayStateOwned
  BY QueueInPool DEF IInv, RelayStateOwned
<1> QED BY <1>1, Invariance, PTL

(* When all flows rest, nothing is in hand, so that what is accounted for  *)
(* is in the DAG, in the pool or given up; an orphan then misses no        *)
(* ancestor that was not given up.                                         *)
LEMMA RestingLosesNothing == IInv => NothingLostSilently
<1> SUFFICES ASSUME IInv, Settled PROVE /\ \A pb \in announced : pb[2] \in Placed
                                        /\ \A o \in orphans : GetOrphanRoots(o) \subseteq lost
  BY DEF NothingLostSilently, Placed
<1>1. \A b : ~InHand(b)
  BY DEF Settled, InHand, Queued, Handled, Synced, Resting
<1>2. \A p \in Peers : relay[p].at # "roots"
  BY DEF Settled
<1>3. \A pb \in announced : pb[2] \in Placed
  BY <1>1 DEF IInv, AnnouncedInv, Accounted
<1>4. ASSUME NEW o \in orphans PROVE GetOrphanRoots(o) \subseteq lost
  <2>1. \A x \in orphans : Parents[x] \subseteq Placed
    BY <1>1, <1>2 DEF IInv, OrphanInv, Accounted
  <2>2. Placed \in SUBSET Blocks /\ o \in Placed /\ orphans \subseteq Blocks /\ o \in Blocks
    BY DEF IInv, TypeInv, Placed
  <2>3. GetOrphanRoots(o) \subseteq Placed \ (orphans \cup body)
    BY <2>1, <2>2, OrphanRoots, SMTT(30)
  <2> QED BY <2>3 DEF Placed
<1> QED BY <1>3, <1>4

(* No announced block is lost silently, an orphan misses no ancestor that  *)
(* was not given up, and what a relay flow inserted is announced, itself   *)
(* or a block above it, whatever other flows insert meanwhile.             *)
THEOREM RelayLossless == Spec => []RelayLosesNothing
<1>1. IInv => RelayLosesNothing
  BY RestingLosesNothing DEF IInv, RelayedInv, RelayLosesNothing
<1> QED BY <1>1, Invariance, PTL

(* Between rests, too: a block the node has taken note of is never dropped *)
(* in a step without being listed as given up.                             *)
THEOREM NothingDropped == Spec => [][\A b \in Blocks : Accounted(b) => Accounted(b)']_vars
<1>1. IInv /\ [Next]_vars => [\A b \in Blocks : Accounted(b) => Accounted(b)']_vars
  <2> SUFFICES ASSUME IInv, [Next]_vars, NEW b \in Blocks, Accounted(b) PROVE Accounted(b)'
    OBVIOUS
  <2> QED BY FactsHold, AccountedStep DEF IInv
<1> QED BY <1>1, Invariance, PTL DEF Spec
=============================================================================
