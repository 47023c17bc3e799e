-------------------------- MODULE BlockRelay_flows --------------------------
(* Every step of BlockRelay keeps the invariants about the flows and what  *)
(* they share, keeps the DAG closed under parents, and announces what the  *)
(* flows insert.                                                           *)
EXTENDS BlockRelay_invariant

(* A sequence over a set has elements of it.                               *)
LEMMA SeqElement == ASSUME NEW S, NEW s \in Seq(S), NEW i \in DOMAIN s PROVE s[i] \in S
OBVIOUS

(* A concatenation has the elements of both parts, in order.               *)
LEMMA SeqConcat ==
  ASSUME NEW S, NEW s \in Seq(S), NEW t \in Seq(S)
  PROVE  /\ s \o t \in Seq(S) /\ Len(s \o t) = Len(s) + Len(t)
         /\ \A i \in 1 .. Len(s) + Len(t) : (s \o t)[i] = IF i <= Len(s) THEN s[i] ELSE t[i - Len(s)]
OBVIOUS

(* Goto moves the flow of one peer and keeps what it works on.             *)
LEMMA GotoFacts ==
  ASSUME relay \in [Peers -> Relays], NEW p \in Peers, NEW at \in RelayAt,
         at \in Resting \/ relay[p].at \notin Resting, Goto(p, at)
  PROVE  /\ relay' \in [Peers -> Relays]
         /\ relay'[p].at = at
         /\ relay'[p].block = relay[p].block
         /\ relay'[p].old = relay[p].old
         /\ \A q \in Peers \ {p} : relay'[q] = relay[q]
BY DEF Relays, RelayAt, Resting, Goto

(* Continue lets the flow of one peer read again.                          *)
LEMMA ContinueFacts ==
  ASSUME relay \in [Peers -> Relays], NEW p \in Peers, Continue(p)
  PROVE  /\ relay' \in [Peers -> Relays]
         /\ relay'[p] = Idle /\ relay'[p].at = "read"
         /\ \A q \in Peers \ {p} : relay'[q] = relay[q]
BY DEF Relays, RelayAt, Resting, Continue, Idle

(* addChildOrphansToProcessQueue queues orphans, each once.                *)
LEMMA QueueExtended ==
  ASSUME OrdersEnumerate, TypeInv, NEW b \in Blocks, NEW pending \in Seq(Blocks),
         \A i \in DOMAIN pending : pending[i] \in orphans \ {b},
         \A i, j \in DOMAIN pending : i # j => pending[i] # pending[j],
         NEW queued \in addChildOrphansToProcessQueue(b, pending)
  PROVE  /\ queued \in Seq(Blocks)
         /\ \A i \in DOMAIN queued : queued[i] \in orphans \ {b}
         /\ \A i, j \in DOMAIN queued : i # j => queued[i] # queued[j]
<1> DEFINE Q == findChildOrphansOfBlock(b) \ Range(pending)
<1>1. PICK order \in Orders(Q) : queued = pending \o order
  BY Zenon DEF addChildOrphansToProcessQueue
<1>2. Q \subseteq orphans \ {b} /\ Q \subseteq Blocks /\ \A x \in Q : \A i \in DOMAIN pending : pending[i] # x
  <2>1. b \notin Parents[b] /\ orphans \subseteq Blocks
    BY BlockRelayAssumption DEF TypeInv
  <2> QED BY <2>1 DEF findChildOrphansOfBlock, Range
<1> HIDE DEF Q
<1>4. order \in Seq(Q) /\ \A i, j \in DOMAIN order : i # j => order[i] # order[j]
  BY <1>2 DEF OrdersEnumerate
<1>5. order \in Seq(Blocks) /\ \A i \in DOMAIN order : order[i] \in Q
  BY <1>2, <1>4, SeqElement
<1>6. /\ queued \in Seq(Blocks)
      /\ Len(queued) = Len(pending) + Len(order)
      /\ \A i \in 1 .. Len(queued) : queued[i] = IF i <= Len(pending) THEN pending[i] ELSE order[i - Len(pending)]
  BY <1>1, <1>5, SeqConcat
<1>7. \A i \in DOMAIN queued : IF i <= Len(pending) THEN i \in DOMAIN pending ELSE i - Len(pending) \in DOMAIN order
  BY <1>5, <1>6
<1>8. \A i \in DOMAIN queued : queued[i] \in orphans \ {b}
  BY <1>2, <1>5, <1>6, <1>7
<1>9. ASSUME NEW i \in DOMAIN queued, NEW j \in DOMAIN queued, i # j PROVE queued[i] # queued[j]
  <2>1. i \in Nat /\ j \in Nat /\ Len(pending) \in Nat /\ i - Len(pending) # j - Len(pending)
    BY <1>6, <1>9
  <2> QED BY <1>2, <1>4, <1>5, <1>6, <1>7, <1>9, <2>1
<1> QED BY <1>6, <1>8, <1>9

-----------------------------------------------------------------------------
(* Types, and the holder of the mutex.                                     *)

(* Every variable keeps its type.                                          *)
LEMMA TypeStep == Facts /\ TypeInv /\ HolderInv /\ [Next]_vars => TypeInv'
<1> SUFFICES ASSUME OrdersEnumerate, PastClosed, RootsComplete, TypeInv, HolderInv, [Next]_vars PROVE TypeInv'
  BY DEF Facts
<1>t. relay \in [Peers -> Relays] /\ \A p \in Peers : relay[p].at \notin Resting => relay[p].block \in Blocks
  BY DEF TypeInv, Relays
<1>1. ASSUME NEW p \in Peers, ReadInv(p) PROVE TypeInv'
  <2>1. queue' \in [Peers -> Seq(Invs)] /\ Head(queue[p]) \in Invs
    BY <1>1 DEF TypeInv, ReadInv
  <2>2. relay' \in [Peers -> Relays]
    BY <1>1, <2>1, Zenon DEF TypeInv, ReadInv, Relays, Idle, Invs, RelayAt, Resting
  <2> QED BY <1>1, <2>1, <2>2 DEF TypeInv, ReadInv
<1>2. ASSUME NEW p \in Peers, CheckOrphan(p) PROVE TypeInv'
  <2>1. relay' \in [Peers -> Relays]
    BY <1>2, <1>t, GotoFacts, ContinueFacts DEF CheckOrphan, At, RelayAt, Resting
  <2> QED BY <1>2, <2>1, <1>t DEF TypeInv, CheckOrphan, Lose, At, Resting
<1>3. ASSUME NEW p \in Peers, CheckIBD(p) PROVE TypeInv'
  <2>1. relay' \in [Peers -> Relays]
    BY <1>3, <1>t, GotoFacts, ContinueFacts DEF CheckIBD, At, RelayAt, Resting
  <2> QED BY <1>3, <2>1, <1>t, Zenon DEF TypeInv, CheckIBD, Lose, At, Resting
<1>4. ASSUME NEW p \in Peers, RequestBlock(p) PROVE TypeInv'
  <2>1. relay' \in [Peers -> Relays]
    BY <1>4, <1>t, GotoFacts, ContinueFacts DEF RequestBlock, At, RelayAt, Resting
  <2>2. relay[p].block \in Blocks /\ requested \subseteq Blocks
    BY <1>4, <1>t, Zenon DEF TypeInv, RequestBlock, At, Resting
  <2>3. requested' = requested \/ requested' = requested \cup {relay[p].block}
    BY <1>4, Zenon DEF RequestBlock
  <2>4. requested' \subseteq Blocks
    BY <2>2, <2>3, Zenon
  <2> QED BY <1>4, <2>1, <2>4 DEF TypeInv, RequestBlock
<1>5. ASSUME NEW p \in Peers, ReceiveBlock(p) PROVE TypeInv'
  <2>1. CASE Continue(p) /\ Lose(p)
    <3>1. relay' \in [Peers -> Relays]
      BY <2>1, <1>t, ContinueFacts
    <3> QED BY <1>5, <2>1, <3>1, <1>t, Zenon DEF TypeInv, ReceiveBlock, Lose, At, Resting
  <2>2. CASE relay' = [relay EXCEPT ![p].at = "process", ![p].old = virtualParents] /\ UNCHANGED lost
    <3>1. virtualParents \in SUBSET Blocks
      BY DEF TypeInv, virtualParents
    <3>2. relay[p].block \in Blocks
      BY <1>5, <1>t DEF ReceiveBlock, At, Resting
    <3>3. relay' \in [Peers -> Relays]
      BY <2>2, <3>1, <3>2, <1>t, ZenonT(40) DEF Relays, RelayAt, Resting
    <3> QED BY <1>5, <2>2, <3>3, <1>t DEF TypeInv, ReceiveBlock
  <2> QED BY <1>5, <2>1, <2>2 DEF ReceiveBlock
<1>6. ASSUME NEW p \in Peers, ProcessBlock(p) PROVE TypeInv'
  <2>1. relay' \in [Peers -> Relays]
    BY <1>6, <1>t, GotoFacts, ContinueFacts DEF ProcessBlock, At, RelayAt, Resting
  <2> QED BY <1>6, <2>1, <1>t, Zenon DEF TypeInv, ProcessBlock, At, Resting
<1>7. ASSUME NEW p \in Peers, RelayVirtualParents(p) PROVE TypeInv'
  <2>1. relay' \in [Peers -> Relays]
    BY <1>7, <1>t, GotoFacts DEF RelayVirtualParents, At, RelayAt, Resting
  <2> QED BY <1>7, <2>1, <1>t DEF TypeInv, RelayVirtualParents, virtualParents
<1>8. ASSUME NEW p \in Peers, RequestLocator(p) PROVE TypeInv'
  <2>1. relay' \in [Peers -> Relays]
    BY <1>8, <1>t, GotoFacts, ContinueFacts DEF RequestLocator, At, RelayAt, Resting
  <2> QED BY <1>8, <2>1 DEF TypeInv, RequestLocator
<1>9. ASSUME NEW p \in Peers, ReceiveLocator(p) PROVE TypeInv'
  <2>0. relay[p].block \in Blocks
    BY <1>9, <1>t DEF ReceiveLocator, At, Resting
  <2>1. relay' \in [Peers -> Relays]
    BY <1>9, <1>t, GotoFacts, ContinueFacts DEF ReceiveLocator, At, RelayAt, Resting
  <2>2. ibd' \in [Peers -> IBDs]
    <3>1. CASE UNCHANGED ibd
      BY <3>1 DEF TypeInv
    <3>2. CASE ibd' = [ibd EXCEPT ![p].at = "start", ![p].block = relay[p].block]
      BY <2>0, <3>2, ZenonT(40) DEF TypeInv, IBDs, IBDAt
    <3> QED BY <1>9, <3>1, <3>2 DEF ReceiveLocator
  <2>3. lost' \subseteq Blocks
    BY <1>9, <2>0 DEF TypeInv, ReceiveLocator, Lose
  <2> QED BY <1>9, <2>1, <2>2, <2>3 DEF TypeInv, ReceiveLocator
<1>10. ASSUME NEW p \in Peers, AddOrphan(p) PROVE TypeInv'
  <2>0. relay[p].block \in Blocks
    BY <1>10, <1>t DEF AddOrphan, At, Resting
  <2>1. relay' \in [Peers -> Relays]
    BY <1>10, <1>t, GotoFacts DEF AddOrphan, At, RelayAt, Resting
  <2>2. lost' \subseteq Blocks /\ orphans' \subseteq Blocks
    BY <1>10, <2>0 DEF TypeInv, AddOrphan
  <2> QED BY <1>10, <2>1, <2>2 DEF TypeInv, AddOrphan
<1>11. ASSUME NEW p \in Peers, AddOrphanRootsToQueue(p) PROVE TypeInv'
  <2>0. relay[p].block \in Blocks
    BY <1>11, <1>t DEF AddOrphanRootsToQueue, At, Resting
  <2>1. relay' \in [Peers -> Relays]
    BY <1>11, <1>t, ContinueFacts DEF AddOrphanRootsToQueue
  <2> DEFINE roots == GetOrphanRoots(relay[p].block)
             invs(order) == [i \in DOMAIN order |-> [block |-> order[i], root |-> TRUE]]
  <2>2. roots \subseteq Blocks
    BY <2>0 DEF RootsComplete
  <2> HIDE DEF roots
  <2>3. PICK order \in Orders(roots) : queue' = [queue EXCEPT ![p] = invs(order) \o @]
    BY <1>11, Zenon DEF AddOrphanRootsToQueue, roots
  <2>4. invs(order) \in Seq(Invs)
    <3>1. order \in Seq(roots)
      BY <2>2 DEF OrdersEnumerate
    <3>2. order \in Seq(Blocks)
      BY <2>2, <3>1
    <3>3. \A i \in 1 .. Len(order) : order[i] \in Blocks
      BY <3>2
    <3>4. invs(order) \in [1 .. Len(order) -> Invs]
      BY <3>2, <3>3 DEF Invs
    <3> QED BY <3>2, <3>4
  <2>5. queue' \in [Peers -> Seq(Invs)]
    <3> HIDE DEF invs
    <3> QED BY <2>3, <2>4 DEF TypeInv
  <2> QED BY <1>11, <2>1, <2>5 DEF TypeInv, AddOrphanRootsToQueue
<1>12. ASSUME NEW f \in Flows, StartUnorphaning(f) PROVE TypeInv'
  <2>1. unorphaning' \in Seq(Blocks)
    <3> DEFINE Q == findChildOrphansOfBlock(InsertedBlock(f)) \ Range(<<>>)
    <3>1. Q \subseteq Blocks
      BY DEF TypeInv, findChildOrphansOfBlock
    <3> HIDE DEF Q
    <3>2. PICK order \in Orders(Q) : unorphaning' = <<>> \o order
      BY <1>12, Zenon DEF StartUnorphaning, addChildOrphansToProcessQueue, Q
    <3>3. order \in Seq(Blocks)
      BY <3>1 DEF OrdersEnumerate
    <3> QED BY <3>2, <3>3
  <2> QED BY <1>12, <2>1 DEF TypeInv, StartUnorphaning
<1>13. ASSUME NEW f \in Flows, UnorphanBlock(f) PROVE TypeInv'
  <2> DEFINE o == Head(unorphaning)
  <2>0. o \in Blocks /\ Tail(unorphaning) \in Seq(Blocks)
    BY <1>13 DEF TypeInv, UnorphanBlock
  <2>1. body' \subseteq Blocks /\ headers' \subseteq Blocks \ body' /\ orphans' \subseteq Blocks
    BY <1>13, <2>0 DEF TypeInv, UnorphanBlock, unorphanBlock
  <2>2. unorphaning' \in Seq(Blocks)
    <3>1. CASE unorphaning' = Tail(unorphaning)
      BY <3>1, <2>0
    <3>2. CASE unorphaning' \in addChildOrphansToProcessQueue(o, Tail(unorphaning))
      <4> DEFINE Q == findChildOrphansOfBlock(o) \ Range(Tail(unorphaning))
      <4>1. Q \subseteq Blocks
        BY DEF TypeInv, findChildOrphansOfBlock
      <4> HIDE DEF Q
      <4>2. PICK order \in Orders(Q) : unorphaning' = Tail(unorphaning) \o order
        BY <3>2, Zenon DEF addChildOrphansToProcessQueue, Q
      <4>3. order \in Seq(Blocks)
        BY <4>1 DEF OrdersEnumerate
      <4> QED BY <2>0, <4>2, <4>3
    <3> QED BY <1>13, <3>1, <3>2 DEF UnorphanBlock
  <2> QED BY <1>13, <2>1, <2>2 DEF TypeInv, UnorphanBlock
<1>14. ASSUME NEW f \in Flows, FinishUnorphaning(f) PROVE TypeInv'
  <2>0. f[1] \in Peers
    BY DEF Flows
  <2>1. relay' \in [Peers -> Relays]
    BY <1>14, <1>t, <2>0, ContinueFacts DEF FinishUnorphaning
  <2>2. ibd' \in [Peers -> IBDs]
    <3>1. CASE UNCHANGED ibd
      BY <3>1 DEF TypeInv
    <3>2. CASE f[2] # "relay"
      <4> DEFINE d == ibd[f[1]]
      <4>1. d \in IBDs /\ d.at = "inserted"
        <5>1. f = <<f[1], "ibd">>
          BY <3>2 DEF Flows
        <5> QED BY <1>14, <2>0, <5>1 DEF TypeInv, FinishUnorphaning, HolderInv
      <4>2. d.block \in Blocks /\ Tail(d.hashes) \in Seq(Blocks)
        BY <4>1 DEF IBDs
      <4>3. ibd' = [ibd EXCEPT ![f[1]].at = "bodies", ![f[1]].hashes = Tail(@)]
        BY <1>14, <3>2 DEF FinishUnorphaning
      <4> QED BY <2>0, <4>1, <4>2, <4>3, Zenon DEF TypeInv, IBDs, IBDAt
    <3> QED BY <1>14, <3>1, <3>2 DEF FinishUnorphaning
  <2> QED BY <1>14, <2>1, <2>2 DEF TypeInv, FinishUnorphaning
<1>15. ASSUME NEW p \in Peers, TrySetIBDRunning(p) PROVE TypeInv'
  <2>1. ibd' \in [Peers -> IBDs]
    <3>1. CASE ibd' = [ibd EXCEPT ![p] = NoIBD]
      BY <3>1 DEF TypeInv, IBDs, IBDAt, NoIBD
    <3>2. CASE ibd' = [ibd EXCEPT ![p].at = "headers"]
      BY <1>15, <3>2, ZenonT(40) DEF TypeInv, TrySetIBDRunning, IBDs, IBDAt
    <3> QED BY <1>15, <3>1, <3>2 DEF TrySetIBDRunning
  <2>2. lost' \subseteq Blocks
    BY <1>15 DEF TypeInv, TrySetIBDRunning, IBDs
  <2> QED BY <1>15, <2>1, <2>2 DEF TypeInv, TrySetIBDRunning
<1>16. ASSUME NEW p \in Peers, SyncHeaders(p) PROVE TypeInv'
  <2>0. ibd[p].block \in Blocks
    BY <1>16 DEF TypeInv, SyncHeaders, IBDs
  <2>1. ibd' \in [Peers -> IBDs]
    BY <1>16, Zenon DEF TypeInv, SyncHeaders, IBDs, IBDAt
  <2>2. headers' \subseteq Blocks \ body
    BY <1>16, <2>0 DEF PastClosed, TypeInv, SyncHeaders
  <2> QED BY <1>16, <2>1, <2>2 DEF TypeInv, SyncHeaders
<1>17. ASSUME NEW p \in Peers, ListMissingBodies(p) PROVE TypeInv'
  <2>0. ibd[p].block \in Blocks
    BY <1>17 DEF TypeInv, ListMissingBodies, IBDs
  <2> DEFINE Q == PastOfBlock[ibd[p].block] \ body
  <2>1. Q \subseteq Blocks
    BY <2>0 DEF PastClosed
  <2> HIDE DEF Q
  <2>2. PICK order \in Orders(Q) : ibd' = [ibd EXCEPT ![p].at = "bodies", ![p].hashes = order]
    BY <1>17, Zenon DEF ListMissingBodies, Q
  <2>3. order \in Seq(Blocks)
    BY <2>1 DEF OrdersEnumerate
  <2>4. ibd' \in [Peers -> IBDs]
    BY <2>0, <2>2, <2>3, ZenonT(40) DEF TypeInv, IBDs, IBDAt
  <2> QED BY <1>17, <2>4 DEF TypeInv, ListMissingBodies
<1>18. ASSUME NEW p \in Peers, InsertBody(p) PROVE TypeInv'
  <2>0. ibd[p].hashes \in Seq(Blocks) /\ ibd[p].hashes # <<>> /\ ibd[p] \in IBDs
    BY <1>18 DEF TypeInv, InsertBody, IBDs
  <2>1. Head(ibd[p].hashes) \in Blocks /\ Tail(ibd[p].hashes) \in Seq(Blocks)
    BY <2>0
  <2>2. ibd' \in [Peers -> IBDs]
    BY <1>18, <2>0, <2>1, Zenon DEF TypeInv, InsertBody, IBDs, IBDAt
  <2>3. body' \subseteq Blocks /\ headers' \subseteq Blocks \ body'
    BY <1>18, <2>1 DEF TypeInv, InsertBody
  <2> QED BY <1>18, <2>2, <2>3 DEF TypeInv, InsertBody
<1>19. ASSUME NEW p \in Peers, FinishIBD(p) PROVE TypeInv'
  <2>0. ibd[p].block \in Blocks
    BY <1>19 DEF TypeInv, FinishIBD, IBDs
  <2>1. ibd' \in [Peers -> IBDs]
    BY <1>19 DEF TypeInv, FinishIBD, IBDs, IBDAt, NoIBD
  <2>2. lost' \subseteq Blocks
    BY <1>19, <2>0 DEF PastClosed, TypeInv, FinishIBD
  <2> QED BY <1>19, <2>1, <2>2 DEF TypeInv, FinishIBD
<1>20. ASSUME NEW p \in Peers, TimeOut(p) PROVE TypeInv'
  <2>0. relay[p].block \in Blocks
    BY <1>20, <1>t DEF TimeOut, At, Resting
  <2>1. relay' \in [Peers -> Relays]
    BY <1>20, Zenon DEF TypeInv, TimeOut, Relays, Idle, RelayAt, Resting
  <2>2. queue' \in [Peers -> Seq(Invs)]
    BY <1>20 DEF TypeInv, TimeOut
  <2>3. \A i \in DOMAIN queue[p] : queue[p][i].block \in Blocks
    <3>1. queue[p] \in Seq(Invs)
      BY DEF TypeInv
    <3>2. \A i \in DOMAIN queue[p] : queue[p][i] \in Invs
      BY <3>1, SeqElement
    <3> QED BY <3>2 DEF Invs
  <2>4. lost' \subseteq Blocks
    BY <1>20, <2>0, <2>3 DEF TypeInv, TimeOut
  <2>5. requested' \subseteq Blocks
    BY <1>20 DEF TypeInv, TimeOut
  <2> QED BY <1>20, <2>1, <2>2, <2>4, <2>5 DEF TypeInv, TimeOut
<1>21. ASSUME NEW p \in Peers, NEW b \in Blocks, Announce(p, b) PROVE TypeInv'
  <2>1. queue' \in [Peers -> Seq(Invs)]
    <3>1. [block |-> b, root |-> FALSE] \in Invs /\ queue \in [Peers -> Seq(Invs)]
      BY Zenon DEF TypeInv, Invs
    <3> QED BY <1>21, <3>1 DEF Announce
  <2> QED BY <1>21, <2>1, Zenon DEF TypeInv, Announce
<1>22. CASE UNCHANGED vars
  BY <1>22 DEF TypeInv, vars
<1> QED
  BY <1>1, <1>2, <1>3, <1>4, <1>5, <1>6, <1>7, <1>8, <1>9, <1>10, <1>11, <1>12, <1>13, <1>14, <1>15,
     <1>16, <1>17, <1>18, <1>19, <1>20, <1>21, <1>22
  DEF Next, Progress, RelayStep, UnorphanStep, IBDStep

(* The flow that holds the mutex stays where it inserted the block.        *)
LEMMA HolderStep == TypeInv /\ HolderInv /\ [Next]_vars => HolderInv'
<1> SUFFICES ASSUME TypeInv, HolderInv, [Next]_vars PROVE HolderInv'
  OBVIOUS
<1>t. relay \in [Peers -> Relays] /\ ibd \in [Peers -> IBDs]
  BY DEF TypeInv
<1>f. \A f \in Flows : f[1] \in Peers /\ f \in {<<f[1], "relay">>, <<f[1], "ibd">>}
  BY DEF Flows
<1>1. ASSUME NEW p \in Peers, ReadInv(p) PROVE HolderInv'
  BY <1>1, <1>t DEF HolderInv, ReadInv, At, Goto, Continue, Inserted
<1>2. ASSUME NEW p \in Peers, CheckOrphan(p) PROVE HolderInv'
  <2>1. relay[p].at # "inserted" /\ \A q \in Peers \ {p} : relay'[q] = relay[q]
    BY <1>2, <1>t DEF CheckOrphan, At, Goto, Continue
  <2> QED BY <1>2, <2>1, <1>t DEF HolderInv, CheckOrphan
<1>3. ASSUME NEW p \in Peers, CheckIBD(p) PROVE HolderInv'
  <2>1. relay[p].at # "inserted" /\ \A q \in Peers \ {p} : relay'[q] = relay[q]
    BY <1>3, <1>t DEF CheckIBD, At, Goto, Continue
  <2> QED BY <1>3, <2>1, <1>t DEF HolderInv, CheckIBD
<1>4. ASSUME NEW p \in Peers, RequestBlock(p) PROVE HolderInv'
  <2>1. relay[p].at # "inserted" /\ \A q \in Peers \ {p} : relay'[q] = relay[q]
    BY <1>4, <1>t DEF RequestBlock, At, Goto, Continue
  <2> QED BY <1>4, <2>1, <1>t DEF HolderInv, RequestBlock
<1>5. ASSUME NEW p \in Peers, ReceiveBlock(p) PROVE HolderInv'
  BY <1>5, <1>t DEF HolderInv, ReceiveBlock, At, Goto, Continue, Inserted
<1>6. ASSUME NEW p \in Peers, ProcessBlock(p) PROVE HolderInv'
  <2>1. relay[p].at # "inserted" /\ \A q \in Peers \ {p} : relay'[q] = relay[q]
    BY <1>6, <1>t, SMTT(30) DEF ProcessBlock, At, Goto, Continue
  <2> QED BY <1>6, <2>1, <1>t DEF HolderInv, ProcessBlock
<1>7. ASSUME NEW p \in Peers, RelayVirtualParents(p) PROVE HolderInv'
  <2>1. relay[p].at # "inserted" /\ \A q \in Peers \ {p} : relay'[q] = relay[q]
    BY <1>7, <1>t, SMTT(30) DEF RelayVirtualParents, At, Goto, Continue
  <2> QED BY <1>7, <2>1, <1>t DEF HolderInv, RelayVirtualParents
<1>8. ASSUME NEW p \in Peers, RequestLocator(p) PROVE HolderInv'
  <2>1. relay[p].at # "inserted" /\ \A q \in Peers \ {p} : relay'[q] = relay[q]
    BY <1>8, <1>t DEF RequestLocator, At, Goto, Continue
  <2> QED BY <1>8, <2>1, <1>t DEF HolderInv, RequestLocator
<1>9. ASSUME NEW p \in Peers, ReceiveLocator(p) PROVE HolderInv'
  <2>1. relay[p].at # "inserted" /\ \A q \in Peers \ {p} : relay'[q] = relay[q]
    BY <1>9, <1>t DEF ReceiveLocator, At, Goto, Continue
  <2> QED BY <1>9, <2>1, <1>t DEF HolderInv, ReceiveLocator
<1>10. ASSUME NEW p \in Peers, AddOrphan(p) PROVE HolderInv'
  <2>1. relay[p].at # "inserted" /\ \A q \in Peers \ {p} : relay'[q] = relay[q]
    BY <1>10, <1>t DEF AddOrphan, At, Goto, Continue
  <2> QED BY <1>10, <2>1, <1>t DEF HolderInv, AddOrphan
<1>11. ASSUME NEW p \in Peers, AddOrphanRootsToQueue(p) PROVE HolderInv'
  <2>1. relay[p].at # "inserted" /\ \A q \in Peers \ {p} : relay'[q] = relay[q]
    BY <1>11, <1>t DEF AddOrphanRootsToQueue, At, Goto, Continue
  <2> QED BY <1>11, <2>1, <1>t DEF HolderInv, AddOrphanRootsToQueue
<1>12. ASSUME NEW f \in Flows, StartUnorphaning(f) PROVE HolderInv'
  BY <1>12, <1>t DEF HolderInv, StartUnorphaning, At, Goto, Continue, Inserted
<1>13. ASSUME NEW f \in Flows, UnorphanBlock(f) PROVE HolderInv'
  BY <1>13, <1>t DEF HolderInv, UnorphanBlock, At, Goto, Continue, Inserted
<1>14. ASSUME NEW f \in Flows, FinishUnorphaning(f) PROVE HolderInv'
  BY <1>14, <1>t DEF HolderInv, FinishUnorphaning, At, Goto, Continue, Inserted, NoFlow
<1>15. ASSUME NEW p \in Peers, TrySetIBDRunning(p) PROVE HolderInv'
  BY <1>15, <1>t DEF HolderInv, TrySetIBDRunning, At, Goto, Continue, Inserted
<1>16. ASSUME NEW p \in Peers, SyncHeaders(p) PROVE HolderInv'
  BY <1>16, <1>t DEF HolderInv, SyncHeaders, At, Goto, Continue, Inserted
<1>17. ASSUME NEW p \in Peers, ListMissingBodies(p) PROVE HolderInv'
  BY <1>17, <1>t DEF HolderInv, ListMissingBodies, At, Goto, Continue, Inserted
<1>18. ASSUME NEW p \in Peers, InsertBody(p) PROVE HolderInv'
  BY <1>18, <1>t DEF HolderInv, InsertBody, At, Goto, Continue, Inserted
<1>19. ASSUME NEW p \in Peers, FinishIBD(p) PROVE HolderInv'
  BY <1>19, <1>t DEF HolderInv, FinishIBD, At, Goto, Continue, Inserted
<1>20. ASSUME NEW p \in Peers, TimeOut(p) PROVE HolderInv'
  BY <1>20, <1>t DEF HolderInv, TimeOut, At, Goto, Continue, Inserted
<1>21. ASSUME NEW p \in Peers, NEW b \in Blocks, Announce(p, b) PROVE HolderInv'
  BY <1>21 DEF HolderInv, Announce
<1>22. CASE UNCHANGED vars
  BY <1>22 DEF HolderInv, vars
<1> QED
  BY <1>1, <1>2, <1>3, <1>4, <1>5, <1>6, <1>7, <1>8, <1>9, <1>10, <1>11, <1>12, <1>13, <1>14, <1>15,
     <1>16, <1>17, <1>18, <1>19, <1>20, <1>21, <1>22
  DEF Next, Progress, RelayStep, UnorphanStep, IBDStep

-----------------------------------------------------------------------------
(* What the flows share.                                                   *)

(* A flow that does not wait for a block leaves the requests alone.        *)
LEMMA RequestsUntouched ==
  ASSUME TypeInv, RequestsOwned, NEW p \in Peers, relay[p].at # "waitBlock", relay'[p].at # "waitBlock",
         \A q \in Peers \ {p} : relay'[q] = relay[q], UNCHANGED requested
  PROVE  RequestsOwned'
<1>1. \A q \in Peers : /\ At(q, "waitBlock")' <=> At(q, "waitBlock")
                       /\ At(q, "waitBlock") => relay'[q] = relay[q]
  BY DEF At
<1> QED BY <1>1 DEF RequestsOwned

(* A flow that stops waiting withdraws its request and no other.           *)
LEMMA RequestWithdrawn ==
  ASSUME TypeInv, RequestsOwned, NEW p \in Peers, relay[p].at = "waitBlock", relay'[p].at # "waitBlock",
         \A q \in Peers \ {p} : relay'[q] = relay[q], requested' = requested \ {relay[p].block}
  PROVE  RequestsOwned'
<1>1. \A q \in Peers \ {p} : /\ At(q, "waitBlock")' <=> At(q, "waitBlock")
                             /\ relay'[q] = relay[q]
                             /\ At(q, "waitBlock") => relay[q].block # relay[p].block
  BY DEF At, RequestsOwned
<1>2. At(p, "waitBlock") /\ ~At(p, "waitBlock")'
  BY DEF At
<1>3. requested' = {relay'[q].block : q \in {r \in Peers : At(r, "waitBlock")'}}
  BY <1>1, <1>2 DEF RequestsOwned
<1> QED BY <1>1, <1>2, <1>3 DEF RequestsOwned

(* A block stays requested exactly while one flow waits for it.            *)
LEMMA RequestsStep == TypeInv /\ HolderInv /\ RequestsOwned /\ [Next]_vars => RequestsOwned'
<1> SUFFICES ASSUME TypeInv, HolderInv, RequestsOwned, [Next]_vars PROVE RequestsOwned'
  OBVIOUS
<1>t. relay \in [Peers -> Relays]
  BY DEF TypeInv
<1>1. ASSUME NEW p \in Peers, ReadInv(p) PROVE RequestsOwned'
  <2>1. relay[p].at # "waitBlock" /\ relay'[p].at # "waitBlock" /\ \A q \in Peers \ {p} : relay'[q] = relay[q]
    BY <1>1, <1>t DEF ReadInv, At, RelayAt, Resting, Idle, Relays
  <2>2. UNCHANGED requested
    BY <1>1 DEF ReadInv
  <2> QED BY <2>1, <2>2, RequestsUntouched
<1>2. ASSUME NEW p \in Peers, CheckOrphan(p) PROVE RequestsOwned'
  <2>1. relay[p].at # "waitBlock" /\ relay'[p].at # "waitBlock" /\ \A q \in Peers \ {p} : relay'[q] = relay[q]
    BY <1>2, <1>t, GotoFacts, ContinueFacts DEF CheckOrphan, At, RelayAt, Resting
  <2>2. UNCHANGED requested
    BY <1>2 DEF CheckOrphan
  <2> QED BY <2>1, <2>2, RequestsUntouched
<1>3. ASSUME NEW p \in Peers, CheckIBD(p) PROVE RequestsOwned'
  <2>1. relay[p].at # "waitBlock" /\ relay'[p].at # "waitBlock" /\ \A q \in Peers \ {p} : relay'[q] = relay[q]
    BY <1>3, <1>t, GotoFacts, ContinueFacts DEF CheckIBD, At, RelayAt, Resting
  <2>2. UNCHANGED requested
    BY <1>3 DEF CheckIBD
  <2> QED BY <2>1, <2>2, RequestsUntouched
<1>4. ASSUME NEW p \in Peers, RequestBlock(p) PROVE RequestsOwned'
  <2>1. CASE Continue(p) /\ UNCHANGED requested
    <3>1. relay[p].at # "waitBlock" /\ relay'[p].at # "waitBlock" /\ \A q \in Peers \ {p} : relay'[q] = relay[q]
      BY <1>4, <2>1, <1>t, ContinueFacts DEF RequestBlock, At
    <3> QED BY <2>1, <3>1, RequestsUntouched
  <2>2. CASE relay[p].block \notin requested /\ requested' = requested \cup {relay[p].block} /\ Goto(p, "waitBlock")
    <3>1. /\ relay[p].at = "request" /\ relay'[p].at = "waitBlock" /\ relay'[p].block = relay[p].block
          /\ \A q \in Peers \ {p} : relay'[q] = relay[q]
      BY <1>4, <2>2, <1>t, GotoFacts DEF RequestBlock, At, RelayAt, Resting
    <3>2. \A q \in Peers : relay[q].at = "waitBlock" => relay[q].block \in requested
      BY DEF RequestsOwned, At
    <3>3. \A b \in requested' : \E q \in Peers : relay'[q].at = "waitBlock" /\ relay'[q].block = b
      BY <2>2, <3>1 DEF RequestsOwned, At
    <3>4. \A q \in Peers : relay'[q].at = "waitBlock" => relay'[q].block \in requested'
      BY <2>2, <3>1, <3>2
    <3>5. \A q, r \in Peers : q # r /\ relay'[q].at = "waitBlock" /\ relay'[r].at = "waitBlock" => relay'[q].block # relay'[r].block
      BY <2>2, <3>1, <3>2 DEF RequestsOwned, At
    <3> QED BY <3>3, <3>4, <3>5 DEF RequestsOwned, At
  <2> QED BY <1>4, <2>1, <2>2 DEF RequestBlock
<1>5. ASSUME NEW p \in Peers, ReceiveBlock(p) PROVE RequestsOwned'
  <2>1. relay[p].at = "waitBlock" /\ relay'[p].at # "waitBlock" /\ \A q \in Peers \ {p} : relay'[q] = relay[q]
    <3>1. CASE Continue(p)
      BY <1>5, <3>1, <1>t, ContinueFacts DEF ReceiveBlock, At
    <3>2. CASE relay' = [relay EXCEPT ![p].at = "process", ![p].old = virtualParents]
      BY <1>5, <3>2, <1>t DEF ReceiveBlock, At, Relays
    <3> QED BY <1>5, <3>1, <3>2 DEF ReceiveBlock
  <2>2. requested' = requested \ {relay[p].block}
    BY <1>5 DEF ReceiveBlock
  <2> QED BY <2>1, <2>2, RequestWithdrawn
<1>6. ASSUME NEW p \in Peers, ProcessBlock(p) PROVE RequestsOwned'
  <2>1. relay[p].at # "waitBlock" /\ relay'[p].at # "waitBlock" /\ \A q \in Peers \ {p} : relay'[q] = relay[q]
    BY <1>6, <1>t, GotoFacts, ContinueFacts DEF ProcessBlock, At, RelayAt, Resting
  <2>2. UNCHANGED requested
    BY <1>6, SMTT(30) DEF ProcessBlock
  <2> QED BY <2>1, <2>2, RequestsUntouched
<1>7. ASSUME NEW p \in Peers, RelayVirtualParents(p) PROVE RequestsOwned'
  <2>1. relay[p].at # "waitBlock" /\ relay'[p].at # "waitBlock" /\ \A q \in Peers \ {p} : relay'[q] = relay[q]
    BY <1>7, <1>t, GotoFacts, ContinueFacts DEF RelayVirtualParents, At, RelayAt, Resting
  <2>2. UNCHANGED requested
    BY <1>7 DEF RelayVirtualParents
  <2> QED BY <2>1, <2>2, RequestsUntouched
<1>8. ASSUME NEW p \in Peers, RequestLocator(p) PROVE RequestsOwned'
  <2>1. relay[p].at # "waitBlock" /\ relay'[p].at # "waitBlock" /\ \A q \in Peers \ {p} : relay'[q] = relay[q]
    BY <1>8, <1>t, GotoFacts, ContinueFacts DEF RequestLocator, At, RelayAt, Resting
  <2>2. UNCHANGED requested
    BY <1>8 DEF RequestLocator
  <2> QED BY <2>1, <2>2, RequestsUntouched
<1>9. ASSUME NEW p \in Peers, ReceiveLocator(p) PROVE RequestsOwned'
  <2>1. relay[p].at # "waitBlock" /\ relay'[p].at # "waitBlock" /\ \A q \in Peers \ {p} : relay'[q] = relay[q]
    BY <1>9, <1>t, GotoFacts, ContinueFacts DEF ReceiveLocator, At, RelayAt, Resting
  <2>2. UNCHANGED requested
    BY <1>9 DEF ReceiveLocator
  <2> QED BY <2>1, <2>2, RequestsUntouched
<1>10. ASSUME NEW p \in Peers, AddOrphan(p) PROVE RequestsOwned'
  <2>1. relay[p].at # "waitBlock" /\ relay'[p].at # "waitBlock" /\ \A q \in Peers \ {p} : relay'[q] = relay[q]
    BY <1>10, <1>t, GotoFacts, ContinueFacts DEF AddOrphan, At, RelayAt, Resting
  <2>2. UNCHANGED requested
    BY <1>10 DEF AddOrphan
  <2> QED BY <2>1, <2>2, RequestsUntouched
<1>11. ASSUME NEW p \in Peers, AddOrphanRootsToQueue(p) PROVE RequestsOwned'
  <2>1. relay[p].at # "waitBlock" /\ relay'[p].at # "waitBlock" /\ \A q \in Peers \ {p} : relay'[q] = relay[q]
    BY <1>11, <1>t, GotoFacts, ContinueFacts DEF AddOrphanRootsToQueue, At, RelayAt, Resting
  <2>2. UNCHANGED requested
    BY <1>11 DEF AddOrphanRootsToQueue
  <2> QED BY <2>1, <2>2, RequestsUntouched
<1>12. ASSUME NEW f \in Flows, StartUnorphaning(f) PROVE RequestsOwned'
  BY <1>12 DEF RequestsOwned, StartUnorphaning, At
<1>13. ASSUME NEW f \in Flows, UnorphanBlock(f) PROVE RequestsOwned'
  BY <1>13 DEF RequestsOwned, UnorphanBlock, At
<1>14. ASSUME NEW f \in Flows, FinishUnorphaning(f) PROVE RequestsOwned'
  <2>0. f[1] \in Peers
    BY DEF Flows
  <2>1. CASE f[2] = "relay"
    <3>1. f = <<f[1], "relay">>
      BY <2>1 DEF Flows
    <3>2. relay[f[1]].at = "inserted"
      BY <1>14, <2>0, <3>1 DEF FinishUnorphaning, HolderInv
    <3>3. relay'[f[1]].at # "waitBlock" /\ \A q \in Peers \ {f[1]} : relay'[q] = relay[q]
      BY <1>14, <2>0, <2>1, <1>t, ContinueFacts DEF FinishUnorphaning
    <3>4. UNCHANGED requested
      BY <1>14 DEF FinishUnorphaning
    <3> QED BY <2>0, <3>2, <3>3, <3>4, RequestsUntouched
  <2>2. CASE f[2] # "relay"
    BY <1>14, <2>2 DEF RequestsOwned, FinishUnorphaning, At
  <2> QED BY <2>1, <2>2
<1>15. ASSUME NEW p \in Peers, TrySetIBDRunning(p) PROVE RequestsOwned'
  BY <1>15 DEF RequestsOwned, TrySetIBDRunning, At
<1>16. ASSUME NEW p \in Peers, SyncHeaders(p) PROVE RequestsOwned'
  BY <1>16 DEF RequestsOwned, SyncHeaders, At
<1>17. ASSUME NEW p \in Peers, ListMissingBodies(p) PROVE RequestsOwned'
  BY <1>17 DEF RequestsOwned, ListMissingBodies, At
<1>18. ASSUME NEW p \in Peers, InsertBody(p) PROVE RequestsOwned'
  BY <1>18 DEF RequestsOwned, InsertBody, At
<1>19. ASSUME NEW p \in Peers, FinishIBD(p) PROVE RequestsOwned'
  BY <1>19 DEF RequestsOwned, FinishIBD, At
<1>20. ASSUME NEW p \in Peers, TimeOut(p) PROVE RequestsOwned'
  <2>1. relay'[p].at # "waitBlock" /\ \A q \in Peers \ {p} : relay'[q] = relay[q]
    BY <1>20, <1>t DEF TimeOut, Idle
  <2>2. CASE relay[p].at = "waitBlock"
    <3>1. requested' = requested \ {relay[p].block}
      BY <1>20, <2>2 DEF TimeOut, At
    <3> QED BY <2>1, <2>2, <3>1, RequestWithdrawn
  <2>3. CASE relay[p].at # "waitBlock"
    <3>1. UNCHANGED requested
      BY <1>20, <2>3 DEF TimeOut, At
    <3> QED BY <2>1, <2>3, <3>1, RequestsUntouched
  <2> QED BY <2>2, <2>3
<1>21. ASSUME NEW p \in Peers, NEW b \in Blocks, Announce(p, b) PROVE RequestsOwned'
  BY <1>21, SMTT(30) DEF RequestsOwned, Announce, At
<1>22. CASE UNCHANGED vars
  BY <1>22, SMTT(30) DEF RequestsOwned, At, vars
<1> QED
  BY <1>1, <1>2, <1>3, <1>4, <1>5, <1>6, <1>7, <1>8, <1>9, <1>10, <1>11, <1>12, <1>13, <1>14, <1>15,
     <1>16, <1>17, <1>18, <1>19, <1>20, <1>21, <1>22
  DEF Next, Progress, RelayStep, UnorphanStep, IBDStep

(* The IBD latch stays with the flow that runs the IBD.                    *)
LEMMA LatchStep == TypeInv /\ HolderInv /\ IBDLatchOwned /\ [Next]_vars => IBDLatchOwned'
<1> SUFFICES ASSUME TypeInv, HolderInv, IBDLatchOwned, [Next]_vars PROVE IBDLatchOwned'
  OBVIOUS
<1>t. ibd \in [Peers -> IBDs] /\ NoPeer \notin Peers
  BY BlockRelayAssumption DEF TypeInv
<1>1. ASSUME NEW p \in Peers, ReadInv(p) PROVE IBDLatchOwned'
  BY <1>1, <1>t DEF IBDLatchOwned, ReadInv
<1>2. ASSUME NEW p \in Peers, CheckOrphan(p) PROVE IBDLatchOwned'
  BY <1>2, <1>t DEF IBDLatchOwned, CheckOrphan
<1>3. ASSUME NEW p \in Peers, CheckIBD(p) PROVE IBDLatchOwned'
  BY <1>3, <1>t DEF IBDLatchOwned, CheckIBD
<1>4. ASSUME NEW p \in Peers, RequestBlock(p) PROVE IBDLatchOwned'
  BY <1>4, <1>t DEF IBDLatchOwned, RequestBlock
<1>5. ASSUME NEW p \in Peers, ReceiveBlock(p) PROVE IBDLatchOwned'
  BY <1>5, <1>t DEF IBDLatchOwned, ReceiveBlock
<1>6. ASSUME NEW p \in Peers, ProcessBlock(p) PROVE IBDLatchOwned'
  BY <1>6, <1>t, SMTT(30) DEF IBDLatchOwned, ProcessBlock
<1>7. ASSUME NEW p \in Peers, RelayVirtualParents(p) PROVE IBDLatchOwned'
  BY <1>7, <1>t DEF IBDLatchOwned, RelayVirtualParents
<1>8. ASSUME NEW p \in Peers, RequestLocator(p) PROVE IBDLatchOwned'
  BY <1>8, <1>t DEF IBDLatchOwned, RequestLocator
<1>9. ASSUME NEW p \in Peers, ReceiveLocator(p) PROVE IBDLatchOwned'
  <2>1. \/ UNCHANGED ibd
        \/ ibd[p].at = "wait" /\ ibd'[p].at = "start" /\ \A q \in Peers \ {p} : ibd'[q] = ibd[q]
    BY <1>9, <1>t DEF ReceiveLocator, IBDs
  <2> QED BY <1>9, <2>1 DEF IBDLatchOwned, ReceiveLocator
<1>10. ASSUME NEW p \in Peers, AddOrphan(p) PROVE IBDLatchOwned'
  BY <1>10, <1>t DEF IBDLatchOwned, AddOrphan
<1>11. ASSUME NEW p \in Peers, AddOrphanRootsToQueue(p) PROVE IBDLatchOwned'
  BY <1>11, <1>t DEF IBDLatchOwned, AddOrphanRootsToQueue
<1>12. ASSUME NEW f \in Flows, StartUnorphaning(f) PROVE IBDLatchOwned'
  BY <1>12, <1>t DEF IBDLatchOwned, StartUnorphaning
<1>13. ASSUME NEW f \in Flows, UnorphanBlock(f) PROVE IBDLatchOwned'
  BY <1>13, <1>t DEF IBDLatchOwned, UnorphanBlock
<1>14. ASSUME NEW f \in Flows, FinishUnorphaning(f) PROVE IBDLatchOwned'
  <2>0. f[1] \in Peers
    BY DEF Flows
  <2>1. CASE f[2] = "relay"
    BY <1>14, <2>1 DEF IBDLatchOwned, FinishUnorphaning
  <2>2. CASE f[2] # "relay"
    <3>1. f = <<f[1], "ibd">>
      BY <2>2 DEF Flows
    <3>2. ibd[f[1]].at = "inserted"
      BY <1>14, <2>0, <3>1 DEF FinishUnorphaning, HolderInv
    <3>3. ibd'[f[1]].at = "bodies" /\ \A q \in Peers \ {f[1]} : ibd'[q] = ibd[q]
      BY <1>14, <2>0, <2>2, <1>t DEF FinishUnorphaning, IBDs
    <3> QED BY <1>14, <2>0, <3>2, <3>3 DEF IBDLatchOwned, FinishUnorphaning
  <2> QED BY <2>1, <2>2
<1>15. ASSUME NEW p \in Peers, TrySetIBDRunning(p) PROVE IBDLatchOwned'
  BY <1>15, <1>t, SMTT(30) DEF IBDLatchOwned, TrySetIBDRunning, IBDs, NoIBD
<1>16. ASSUME NEW p \in Peers, SyncHeaders(p) PROVE IBDLatchOwned'
  BY <1>16, <1>t DEF IBDLatchOwned, SyncHeaders, IBDs, NoIBD
<1>17. ASSUME NEW p \in Peers, ListMissingBodies(p) PROVE IBDLatchOwned'
  <2>1. ibd[p].at = "missing" /\ ibd'[p].at = "bodies" /\ \A q \in Peers \ {p} : ibd'[q] = ibd[q]
    BY <1>17, <1>t DEF ListMissingBodies, IBDs
  <2> QED BY <1>17, <2>1, Zenon DEF IBDLatchOwned, ListMissingBodies
<1>18. ASSUME NEW p \in Peers, InsertBody(p) PROVE IBDLatchOwned'
  <2>1. ibd[p].at = "bodies" /\ ibd'[p].at \in {"bodies", "inserted"} /\ \A q \in Peers \ {p} : ibd'[q] = ibd[q]
    BY <1>18, <1>t DEF InsertBody, IBDs
  <2> QED BY <1>18, <2>1 DEF IBDLatchOwned, InsertBody
<1>19. ASSUME NEW p \in Peers, FinishIBD(p) PROVE IBDLatchOwned'
  BY <1>19, <1>t DEF IBDLatchOwned, FinishIBD, IBDs, NoIBD
<1>20. ASSUME NEW p \in Peers, TimeOut(p) PROVE IBDLatchOwned'
  BY <1>20, <1>t DEF IBDLatchOwned, TimeOut
<1>21. ASSUME NEW p \in Peers, NEW b \in Blocks, Announce(p, b) PROVE IBDLatchOwned'
  BY <1>21, <1>t DEF IBDLatchOwned, Announce
<1>22. CASE UNCHANGED vars
  BY <1>22 DEF IBDLatchOwned, vars
<1> QED
  BY <1>1, <1>2, <1>3, <1>4, <1>5, <1>6, <1>7, <1>8, <1>9, <1>10, <1>11, <1>12, <1>13, <1>14, <1>15,
     <1>16, <1>17, <1>18, <1>19, <1>20, <1>21, <1>22
  DEF Next, Progress, RelayStep, UnorphanStep, IBDStep

(* The queue of UnorphanBlocks keeps to the orphan pool.                   *)
LEMMA QueueStep == Facts /\ TypeInv /\ HolderInv /\ QueueInv /\ [Next]_vars => QueueInv'
<1> SUFFICES ASSUME OrdersEnumerate, TypeInv, HolderInv, QueueInv, [Next]_vars PROVE QueueInv'
  BY DEF Facts
<1>t. unorphaning \in Seq(Blocks)
  BY DEF TypeInv
<1>n. NoFlow \notin Flows
  BY DEF NoFlow, Flows
<1>1. ASSUME NEW p \in Peers, ReadInv(p) PROVE QueueInv'
  BY <1>1, <1>n DEF QueueInv, ReadInv
<1>2. ASSUME NEW p \in Peers, CheckOrphan(p) PROVE QueueInv'
  BY <1>2, <1>n DEF QueueInv, CheckOrphan
<1>3. ASSUME NEW p \in Peers, CheckIBD(p) PROVE QueueInv'
  BY <1>3, <1>n DEF QueueInv, CheckIBD
<1>4. ASSUME NEW p \in Peers, RequestBlock(p) PROVE QueueInv'
  BY <1>4, <1>n DEF QueueInv, RequestBlock
<1>5. ASSUME NEW p \in Peers, ReceiveBlock(p) PROVE QueueInv'
  BY <1>5, <1>n DEF QueueInv, ReceiveBlock
<1>6. ASSUME NEW p \in Peers, ProcessBlock(p) PROVE QueueInv'
  BY <1>6, <1>n DEF QueueInv, ProcessBlock
<1>7. ASSUME NEW p \in Peers, RelayVirtualParents(p) PROVE QueueInv'
  BY <1>7, <1>n DEF QueueInv, RelayVirtualParents
<1>8. ASSUME NEW p \in Peers, RequestLocator(p) PROVE QueueInv'
  BY <1>8, <1>n DEF QueueInv, RequestLocator
<1>9. ASSUME NEW p \in Peers, ReceiveLocator(p) PROVE QueueInv'
  BY <1>9, <1>n DEF QueueInv, ReceiveLocator
<1>10. ASSUME NEW p \in Peers, AddOrphan(p) PROVE QueueInv'
  <2>1. unorphaning = <<>>
    BY <1>10 DEF AddOrphan, QueueInv
  <2> QED BY <1>10, <2>1 DEF QueueInv, AddOrphan
<1>11. ASSUME NEW p \in Peers, AddOrphanRootsToQueue(p) PROVE QueueInv'
  BY <1>11, <1>n DEF QueueInv, AddOrphanRootsToQueue
<1>12. ASSUME NEW f \in Flows, StartUnorphaning(f) PROVE QueueInv'
  <2>1. InsertedBlock(f) \in Blocks
    <3>1. f[1] \in Peers /\ relay[f[1]] \in Relays /\ ibd[f[1]] \in IBDs /\ Inserted(f)
      BY <1>12 DEF TypeInv, StartUnorphaning, Flows
    <3>2. CASE f[2] = "relay"
      BY <3>1, <3>2 DEF InsertedBlock, Inserted, At, Relays, Resting
    <3>3. CASE f[2] # "relay"
      BY <3>1, <3>3 DEF InsertedBlock, Inserted, IBDs
    <3> QED BY <3>2, <3>3
  <2>2. <<>> \in Seq(Blocks) /\ DOMAIN <<>> = {}
    OBVIOUS
  <2>3. unorphaning' \in addChildOrphansToProcessQueue(InsertedBlock(f), <<>>)
    BY <1>12 DEF StartUnorphaning
  <2>4. /\ \A i \in DOMAIN unorphaning' : unorphaning'[i] \in orphans
        /\ \A i, j \in DOMAIN unorphaning' : i # j => unorphaning'[i] # unorphaning'[j]
    BY <2>1, <2>2, <2>3, QueueExtended, Zenon
  <2>5. mutex' # NoFlow /\ orphans' = orphans
    BY <1>12, <1>n DEF StartUnorphaning
  <2> QED BY <2>4, <2>5 DEF QueueInv
<1>13. ASSUME NEW f \in Flows, UnorphanBlock(f) PROVE QueueInv'
  <2> DEFINE o == Head(unorphaning)
             t == Tail(unorphaning)
  <2>1. /\ o \in Blocks /\ t \in Seq(Blocks)
        /\ \A i \in DOMAIN t : t[i] \in orphans \ {o}
        /\ \A i, j \in DOMAIN t : i # j => t[i] # t[j]
    <3>1. unorphaning # <<>> /\ o = unorphaning[1] /\ Len(t) = Len(unorphaning) - 1
      BY <1>13, <1>t DEF UnorphanBlock
    <3>2. t \in Seq(Blocks) /\ \A i \in DOMAIN t : i + 1 \in DOMAIN unorphaning /\ t[i] = unorphaning[i + 1] /\ i + 1 # 1
      BY <1>t, <3>1
    <3>3. 1 \in DOMAIN unorphaning
      BY <1>t, <3>1
    <3>4. \A i, j \in DOMAIN t : i # j => i + 1 # j + 1
      BY <3>2
    <3> QED BY <1>t, <3>1, <3>2, <3>3, <3>4 DEF QueueInv
  <2>2. mutex' = f /\ f # NoFlow
    BY <1>13, <1>n DEF UnorphanBlock
  <2>3. orphans' \in {orphans, orphans \ {o}}
    BY <1>13 DEF UnorphanBlock, unorphanBlock
  <2>4. CASE unorphaning' = t
    <3> HIDE DEF t
    <3> QED BY <2>1, <2>2, <2>3, <2>4 DEF QueueInv
  <2>5. CASE unorphaning' \in addChildOrphansToProcessQueue(o, t)
    <3> HIDE DEF t, o
    <3>1. /\ \A i \in DOMAIN unorphaning' : unorphaning'[i] \in orphans \ {o}
          /\ \A i, j \in DOMAIN unorphaning' : i # j => unorphaning'[i] # unorphaning'[j]
      BY <2>1, <2>5, QueueExtended
    <3> QED BY <2>2, <2>3, <3>1 DEF QueueInv
  <2> QED BY <1>13, <2>4, <2>5 DEF UnorphanBlock
<1>14. ASSUME NEW f \in Flows, FinishUnorphaning(f) PROVE QueueInv'
  BY <1>14, <1>n DEF QueueInv, FinishUnorphaning
<1>15. ASSUME NEW p \in Peers, TrySetIBDRunning(p) PROVE QueueInv'
  BY <1>15, <1>n DEF QueueInv, TrySetIBDRunning
<1>16. ASSUME NEW p \in Peers, SyncHeaders(p) PROVE QueueInv'
  BY <1>16, <1>n DEF QueueInv, SyncHeaders
<1>17. ASSUME NEW p \in Peers, ListMissingBodies(p) PROVE QueueInv'
  BY <1>17, <1>n DEF QueueInv, ListMissingBodies
<1>18. ASSUME NEW p \in Peers, InsertBody(p) PROVE QueueInv'
  BY <1>18, <1>n DEF QueueInv, InsertBody
<1>19. ASSUME NEW p \in Peers, FinishIBD(p) PROVE QueueInv'
  BY <1>19, <1>n DEF QueueInv, FinishIBD
<1>20. ASSUME NEW p \in Peers, TimeOut(p) PROVE QueueInv'
  BY <1>20, <1>n, SMTT(30) DEF QueueInv, TimeOut
<1>21. ASSUME NEW p \in Peers, NEW b \in Blocks, Announce(p, b) PROVE QueueInv'
  BY <1>21, <1>n DEF QueueInv, Announce
<1>22. CASE UNCHANGED vars
  BY <1>22 DEF QueueInv, vars
<1> QED
  BY <1>1, <1>2, <1>3, <1>4, <1>5, <1>6, <1>7, <1>8, <1>9, <1>10, <1>11, <1>12, <1>13, <1>14, <1>15,
     <1>16, <1>17, <1>18, <1>19, <1>20, <1>21, <1>22
  DEF Next, Progress, RelayStep, UnorphanStep, IBDStep

-----------------------------------------------------------------------------
(* The DAG is closed under parents.                                        *)

(* The first block in such an order has its parents, and when it is known  *)
(* itself the rest is such an order, too.                                  *)
LEMMA ParentsFirstTail ==
  ASSUME NEW order \in Seq(Blocks), order # <<>>, NEW known, ParentsFirst(order, known)
  PROVE  /\ Parents[order[1]] \subseteq known
         /\ order[1] \in known => ParentsFirst(Tail(order), known)
<1>1. 1 \in DOMAIN order /\ 1 .. (1 - 1) = {}
  OBVIOUS
<1>2. Parents[order[1]] \subseteq known
  BY <1>1 DEF ParentsFirst
<1>3. ASSUME order[1] \in known PROVE ParentsFirst(Tail(order), known)
  <2> SUFFICES ASSUME NEW i \in DOMAIN Tail(order), NEW x \in Parents[Tail(order)[i]]
               PROVE  x \in known \cup {Tail(order)[j] : j \in 1 .. (i - 1)}
    BY DEF ParentsFirst
  <2>1. /\ i \in Nat /\ i # 0 /\ i + 1 \in DOMAIN order /\ Tail(order)[i] = order[i + 1]
        /\ \A j \in 1 .. i : j \in DOMAIN order
        /\ \A j \in 1 .. (i - 1) : Tail(order)[j] = order[j + 1]
    OBVIOUS
  <2>2. x \in known \/ \E j \in 1 .. ((i + 1) - 1) : x = order[j]
    BY <2>1 DEF ParentsFirst
  <2>3. ASSUME NEW j \in 1 .. i, x = order[j] PROVE x \in known \/ \E k \in 1 .. (i - 1) : x = Tail(order)[k]
    <3>1. CASE j = 1
      BY <1>3, <2>3, <3>1
    <3>2. CASE j # 1
      <4>1. j - 1 \in 1 .. (i - 1) /\ (j - 1) + 1 = j
        BY <2>1, <3>2
      <4> QED BY <2>1, <2>3, <4>1
    <3> QED BY <3>1, <3>2
  <2> QED BY <2>1, <2>2, <2>3
<1> QED BY <1>2, <1>3

(* More known blocks do no harm.                                           *)
LEMMA ParentsFirstGrows ==
  ASSUME NEW order, NEW known, NEW more, known \subseteq more, ParentsFirst(order, known)
  PROVE  ParentsFirst(order, more)
BY SMTT(30) DEF ParentsFirst

(* A step that leaves the IBD flows alone and inserts blocks with their    *)
(* parents keeps the DAG closed.                                           *)
LEMMA BodyUntouched ==
  ASSUME BodyInv, UNCHANGED ibd, body \subseteq body', \A b \in body' \ body : Parents[b] \subseteq body
  PROVE  BodyInv'
<1>1. \A p \in Peers : ibd[p].at \in {"bodies", "inserted"} => ParentsFirst(ibd[p].hashes, body')
  BY ParentsFirstGrows DEF BodyInv
<1>2. \A b \in body' : Parents[b] \subseteq body'
  BY DEF BodyInv
<1>3. \A p \in Peers : ibd'[p].at \in {"bodies", "inserted"} => ParentsFirst(ibd[p].hashes, body')
  BY <1>1, SMTT(30)
<1> QED BY <1>1, <1>2, <1>3 DEF BodyInv, ParentsFirst

(* So does one that moves one IBD flow, when its list has parents first.   *)
LEMMA BodyIBDMoves ==
  ASSUME TypeInv, BodyInv, NEW p \in Peers, \A q \in Peers \ {p} : ibd'[q] = ibd[q],
         body \subseteq body', \A b \in body' \ body : Parents[b] \subseteq body,
         ibd'[p].at \in {"bodies", "inserted"} => ParentsFirst(ibd'[p].hashes, body'),
         ibd'[p].at = "inserted" => ibd'[p].hashes[1] \in body'
  PROVE  BodyInv'
<1>1. \A q \in Peers : ibd'[q].at \in {"bodies", "inserted"} => ParentsFirst(ibd'[q].hashes, body')
  <2> SUFFICES ASSUME NEW q \in Peers \ {p}, ibd'[q].at \in {"bodies", "inserted"} PROVE ParentsFirst(ibd'[q].hashes, body')
    OBVIOUS
  <2>1. ParentsFirst(ibd[q].hashes, body)
    BY DEF BodyInv
  <2> QED BY <2>1, ParentsFirstGrows
<1>2. \A b \in body' : Parents[b] \subseteq body'
  BY DEF BodyInv
<1>3. \A q \in Peers : ibd'[q].at = "inserted" => ibd'[q].hashes[1] \in body'
  BY DEF BodyInv
<1> QED BY <1>1, <1>2, <1>3, SMTT(30) DEF BodyInv, ParentsFirst

(* The DAG stays closed under parents, whatever the flows insert           *)
(* meanwhile.                                                              *)
LEMMA BodyStep == Facts /\ TypeInv /\ HolderInv /\ BodyInv /\ [Next]_vars => BodyInv'
<1> SUFFICES ASSUME OrdersEnumerate, PastClosed, TypeInv, HolderInv, BodyInv, [Next]_vars PROVE BodyInv'
  BY DEF Facts
<1>t. ibd \in [Peers -> IBDs] /\ \A p \in Peers : ibd[p].hashes \in Seq(Blocks)
  BY DEF TypeInv, IBDs
<1>1. ASSUME NEW p \in Peers, ReadInv(p) PROVE BodyInv'
  BY <1>1, BodyUntouched DEF ReadInv
<1>2. ASSUME NEW p \in Peers, CheckOrphan(p) PROVE BodyInv'
  BY <1>2, BodyUntouched, ZenonT(40) DEF CheckOrphan
<1>3. ASSUME NEW p \in Peers, CheckIBD(p) PROVE BodyInv'
  BY <1>3, BodyUntouched DEF CheckIBD
<1>4. ASSUME NEW p \in Peers, RequestBlock(p) PROVE BodyInv'
  BY <1>4, BodyUntouched DEF RequestBlock
<1>5. ASSUME NEW p \in Peers, ReceiveBlock(p) PROVE BodyInv'
  BY <1>5, BodyUntouched DEF ReceiveBlock
<1>6. ASSUME NEW p \in Peers, ProcessBlock(p) PROVE BodyInv'
  <2>1. UNCHANGED ibd /\ body \subseteq body' /\ \A b \in body' \ body : Parents[b] \subseteq body
    BY <1>6, SMTT(30) DEF ProcessBlock, Insertable
  <2> QED BY <2>1, BodyUntouched, SMTT(30)
<1>7. ASSUME NEW p \in Peers, RelayVirtualParents(p) PROVE BodyInv'
  BY <1>7, BodyUntouched DEF RelayVirtualParents
<1>8. ASSUME NEW p \in Peers, RequestLocator(p) PROVE BodyInv'
  BY <1>8, BodyUntouched DEF RequestLocator
<1>9. ASSUME NEW p \in Peers, ReceiveLocator(p) PROVE BodyInv'
  <2>1. CASE UNCHANGED ibd
    BY <1>9, <2>1, BodyUntouched DEF ReceiveLocator
  <2>2. CASE ibd' = [ibd EXCEPT ![p].at = "start", ![p].block = relay[p].block]
    <3>1. ibd'[p].at = "start" /\ \A q \in Peers \ {p} : ibd'[q] = ibd[q]
      BY <2>2, <1>t DEF IBDs
    <3>2. body' = body
      BY <1>9 DEF ReceiveLocator
    <3> QED BY <3>1, <3>2, BodyIBDMoves
  <2> QED BY <1>9, <2>1, <2>2 DEF ReceiveLocator
<1>10. ASSUME NEW p \in Peers, AddOrphan(p) PROVE BodyInv'
  BY <1>10, BodyUntouched, SMTT(30) DEF AddOrphan
<1>11. ASSUME NEW p \in Peers, AddOrphanRootsToQueue(p) PROVE BodyInv'
  BY <1>11, BodyUntouched, SMTT(30) DEF AddOrphanRootsToQueue
<1>12. ASSUME NEW f \in Flows, StartUnorphaning(f) PROVE BodyInv'
  BY <1>12, BodyUntouched DEF StartUnorphaning
<1>13. ASSUME NEW f \in Flows, UnorphanBlock(f) PROVE BodyInv'
  <2>1. UNCHANGED ibd /\ body \subseteq body' /\ \A b \in body' \ body : Parents[b] \subseteq body
    BY <1>13, Zenon DEF UnorphanBlock, unorphanBlock
  <2> QED BY <2>1, BodyUntouched
<1>14. ASSUME NEW f \in Flows, FinishUnorphaning(f) PROVE BodyInv'
  <2>0. f[1] \in Peers
    BY DEF Flows
  <2>1. CASE f[2] = "relay"
    BY <1>14, <2>1, BodyUntouched DEF FinishUnorphaning
  <2>2. CASE f[2] # "relay"
    <3> DEFINE h == ibd[f[1]].hashes
    <3>1. f = <<f[1], "ibd">>
      BY <2>2 DEF Flows
    <3>2. ibd[f[1]].at = "inserted"
      BY <1>14, <2>0, <3>1, SMTT(30) DEF FinishUnorphaning, HolderInv
    <3>3. h \in Seq(Blocks) /\ h # <<>> /\ ParentsFirst(h, body) /\ h[1] \in body
      BY <1>t, <2>0, <3>2 DEF BodyInv, IBDs
    <3>4. ParentsFirst(Tail(h), body)
      BY <3>3, ParentsFirstTail
    <3>5. /\ ibd'[f[1]].at = "bodies" /\ ibd'[f[1]].hashes = Tail(h)
          /\ \A q \in Peers \ {f[1]} : ibd'[q] = ibd[q]
      <4>1. ibd' = [ibd EXCEPT ![f[1]].at = "bodies", ![f[1]].hashes = Tail(@)]
        BY <1>14, <2>2 DEF FinishUnorphaning
      <4>2. ibd[f[1]] \in IBDs
        BY <1>t, <2>0
      <4> QED BY <1>t, <2>0, <4>1, <4>2 DEF IBDs
    <3>6. body' = body
      BY <1>14 DEF FinishUnorphaning
    <3> HIDE DEF h
    <3> QED BY <2>0, <3>4, <3>5, <3>6, BodyIBDMoves, Zenon
  <2> QED BY <2>1, <2>2
<1>15. ASSUME NEW p \in Peers, TrySetIBDRunning(p) PROVE BodyInv'
  <2>1. ibd'[p].at \in {"wait", "headers"} /\ \A q \in Peers \ {p} : ibd'[q] = ibd[q]
    BY <1>15, <1>t DEF TrySetIBDRunning, IBDs, NoIBD
  <2>2. body' = body
    BY <1>15 DEF TrySetIBDRunning
  <2> QED BY <2>1, <2>2, BodyIBDMoves
<1>16. ASSUME NEW p \in Peers, SyncHeaders(p) PROVE BodyInv'
  <2>1. ibd'[p].at = "missing" /\ \A q \in Peers \ {p} : ibd'[q] = ibd[q]
    BY <1>16, <1>t DEF SyncHeaders, IBDs, NoIBD
  <2>2. body' = body
    BY <1>16 DEF SyncHeaders
  <2> QED BY <2>1, <2>2, BodyIBDMoves
<1>17. ASSUME NEW p \in Peers, ListMissingBodies(p) PROVE BodyInv'
  <2>0. ibd[p].block \in Blocks
    BY <1>17, <1>t DEF ListMissingBodies, IBDs
  <2> DEFINE P == PastOfBlock[ibd[p].block]
             Q == P \ body
  <2>1. /\ Q \subseteq Blocks /\ Blocks \subseteq Nat
        /\ \A b \in Q : \A x \in Parents[b] : x < b /\ (x \in body \/ x \in Q)
    <3>1. P \subseteq Blocks /\ \A c \in P : Parents[c] \subseteq P
      BY <2>0 DEF PastClosed
    <3> HIDE DEF P
    <3> QED BY <3>1, BlockRelayAssumption, Zenon
  <2>2. PICK order \in Orders(Q) : /\ \A i, j \in DOMAIN order : i < j => order[i] < order[j]
                                   /\ ibd' = [ibd EXCEPT ![p].at = "bodies", ![p].hashes = order]
    BY <1>17, Zenon DEF ListMissingBodies
  <2> HIDE DEF Q
  <2>3. order \in Seq(Q) /\ Range(order) = Q
    BY <2>1 DEF OrdersEnumerate
  <2>4. ParentsFirst(order, body)
    <3> SUFFICES ASSUME NEW i \in DOMAIN order, NEW x \in Parents[order[i]], x \notin body
                 PROVE  \E j \in 1 .. (i - 1) : x = order[j]
      BY DEF ParentsFirst
    <3>1. order[i] \in Q
      BY <2>3, SeqElement
    <3>2. x < order[i] /\ x \in Q
      BY <2>1, <3>1, Zenon
    <3>3. PICK j \in DOMAIN order : x = order[j]
      BY <2>3, <3>2 DEF Range
    <3>4. ~(i < j) /\ i # j
      <4>1. x \in Nat /\ order[i] \in Nat
        BY <2>1, <3>1, <3>2, Zenon
      <4> QED BY <2>2, <3>2, <3>3, <4>1
    <3>5. j \in 1 .. (i - 1)
      BY <2>3, <3>4
    <3> QED BY <3>3, <3>5
  <2>5. /\ ibd'[p].at = "bodies" /\ ibd'[p].hashes = order
        /\ \A q \in Peers \ {p} : ibd'[q] = ibd[q]
    <3>1. ibd' = [ibd EXCEPT ![p].at = "bodies", ![p].hashes = order]
      BY <2>2
    <3>2. ibd \in [Peers -> IBDs] /\ ibd[p] \in IBDs
      BY <1>t
    <3> QED BY <3>1, <3>2 DEF IBDs
  <2>6. body' = body
    BY <1>17 DEF ListMissingBodies
  <2> QED BY <2>4, <2>5, <2>6, BodyIBDMoves
<1>18. ASSUME NEW p \in Peers, InsertBody(p) PROVE BodyInv'
  <2> DEFINE h == ibd[p].hashes
  <2>1. h \in Seq(Blocks) /\ h # <<>> /\ ParentsFirst(h, body) /\ Head(h) = h[1]
    BY <1>18, <1>t DEF InsertBody, BodyInv
  <2>2. Parents[h[1]] \subseteq body /\ (h[1] \in body => ParentsFirst(Tail(h), body))
    BY <2>1, ParentsFirstTail
  <2>3. body' = body \cup {h[1]}
    BY <1>18, <2>1 DEF InsertBody
  <2>4. \A q \in Peers \ {p} : ibd'[q] = ibd[q]
    BY <1>18, <1>t DEF InsertBody
  <2>5. CASE h[1] \in body
    <3>1. ibd'[p].at = "bodies" /\ ibd'[p].hashes = Tail(h)
      BY <1>18, <1>t, <2>1, <2>5 DEF InsertBody, IBDs
    <3>2. body' = body
      BY <2>3, <2>5
    <3> HIDE DEF h
    <3> QED BY <2>2, <2>4, <2>5, <3>1, <3>2, BodyIBDMoves, Zenon
  <2>6. CASE h[1] \notin body
    <3>1. ibd'[p].at = "inserted" /\ ibd'[p].hashes = h
      BY <1>18, <1>t, <2>1, <2>6 DEF InsertBody, IBDs
    <3>2. ParentsFirst(h, body')
      BY <2>1, <2>3, ParentsFirstGrows
    <3> HIDE DEF h
    <3> QED BY <2>2, <2>3, <2>4, <3>1, <3>2, BodyIBDMoves
  <2> QED BY <2>5, <2>6
<1>19. ASSUME NEW p \in Peers, FinishIBD(p) PROVE BodyInv'
  <2>1. ibd'[p].at = "wait" /\ \A q \in Peers \ {p} : ibd'[q] = ibd[q]
    BY <1>19, <1>t, SMTT(30) DEF FinishIBD, IBDs, NoIBD
  <2>2. body' = body
    BY <1>19 DEF FinishIBD
  <2> QED BY <2>1, <2>2, BodyIBDMoves, SMTT(30)
<1>20. ASSUME NEW p \in Peers, TimeOut(p) PROVE BodyInv'
  BY <1>20, BodyUntouched, SMTT(30) DEF TimeOut
<1>21. ASSUME NEW p \in Peers, NEW b \in Blocks, Announce(p, b) PROVE BodyInv'
  BY <1>21, BodyUntouched, SMTT(30) DEF Announce
<1>22. CASE UNCHANGED vars
  BY <1>22, BodyUntouched DEF vars
<1> QED
  BY <1>1, <1>2, <1>3, <1>4, <1>5, <1>6, <1>7, <1>8, <1>9, <1>10, <1>11, <1>12, <1>13, <1>14, <1>15,
     <1>16, <1>17, <1>18, <1>19, <1>20, <1>21, <1>22
  DEF Next, Progress, RelayStep, UnorphanStep, IBDStep

-----------------------------------------------------------------------------
(* Where the blocks of a flow are.                                         *)

(* A step of one relay flow that drops nothing keeps the others' blocks in *)
(* place.                                                                  *)
LEMMA PlaceMoves ==
  ASSUME PlaceInv, NEW p \in Peers, \A q \in Peers \ {p} : relay'[q] = relay[q],
         body \subseteq body', body \cup orphans \cup lost \subseteq body' \cup orphans' \cup lost',
         relay'[p].at \in {"relay", "inserted"} => relay'[p].block \in body',
         relay'[p].at = "roots" => relay'[p].block \in body' \cup orphans' \cup lost'
  PROVE  PlaceInv'
BY DEF PlaceInv

(* A step of no relay flow does so, too.                                   *)
LEMMA PlaceUntouched ==
  ASSUME PlaceInv, UNCHANGED relay, body \subseteq body', body \cup orphans \cup lost \subseteq body' \cup orphans' \cup lost'
  PROVE  PlaceInv'
BY SMTT(30) DEF PlaceInv

(* What a flow has inserted stays in the DAG, and an orphan is kept or     *)
(* lost knowingly.                                                         *)
LEMMA PlaceStep == TypeInv /\ PlaceInv /\ [Next]_vars => PlaceInv'
<1> SUFFICES ASSUME TypeInv, PlaceInv, [Next]_vars PROVE PlaceInv'
  OBVIOUS
<1>t. relay \in [Peers -> Relays]
  BY DEF TypeInv
<1>1. ASSUME NEW p \in Peers, ReadInv(p) PROVE PlaceInv'
  <2>1. CASE UNCHANGED relay
    BY <1>1, <2>1, PlaceUntouched DEF ReadInv
  <2>2. CASE relay' # relay
    <3>1. relay'[p].at = "unknown" /\ \A q \in Peers \ {p} : relay'[q] = relay[q]
      BY <1>1, <1>t, <2>2, SMTT(30) DEF ReadInv, Idle
    <3> QED BY <1>1, <3>1, PlaceMoves DEF ReadInv
  <2> QED BY <2>1, <2>2
<1>2. ASSUME NEW p \in Peers, CheckOrphan(p) PROVE PlaceInv'
  <2>1. \A q \in Peers \ {p} : relay'[q] = relay[q]
    BY <1>2, <1>t, GotoFacts, ContinueFacts, SMTT(30) DEF CheckOrphan, At, RelayAt, Resting
  <2>2. /\ relay'[p].at \in {"relay", "inserted"} => relay'[p].block \in body'
        /\ relay'[p].at = "roots" => relay'[p].block \in body' \cup orphans' \cup lost'
    BY <1>2, <1>t, GotoFacts, ContinueFacts DEF CheckOrphan, PlaceInv, At, RelayAt, Resting
  <2>3. body \subseteq body' /\ body \cup orphans \cup lost \subseteq body' \cup orphans' \cup lost'
    BY <1>2, SMTT(30) DEF CheckOrphan, Lose
  <2> QED BY <2>1, <2>2, <2>3, PlaceMoves, SMTT(30)
<1>3. ASSUME NEW p \in Peers, CheckIBD(p) PROVE PlaceInv'
  <2>1. \A q \in Peers \ {p} : relay'[q] = relay[q]
    BY <1>3, <1>t, GotoFacts, ContinueFacts, SMTT(30) DEF CheckIBD, At, RelayAt, Resting
  <2>2. /\ relay'[p].at \in {"relay", "inserted"} => relay'[p].block \in body'
        /\ relay'[p].at = "roots" => relay'[p].block \in body' \cup orphans' \cup lost'
    BY <1>3, <1>t, GotoFacts, ContinueFacts DEF CheckIBD, PlaceInv, At, RelayAt, Resting
  <2>3. body \subseteq body' /\ body \cup orphans \cup lost \subseteq body' \cup orphans' \cup lost'
    BY <1>3 DEF CheckIBD, Lose
  <2> QED BY <2>1, <2>2, <2>3, PlaceMoves
<1>4. ASSUME NEW p \in Peers, RequestBlock(p) PROVE PlaceInv'
  <2>1. \A q \in Peers \ {p} : relay'[q] = relay[q]
    BY <1>4, <1>t, GotoFacts, ContinueFacts, SMTT(30) DEF RequestBlock, At, RelayAt, Resting
  <2>2. /\ relay'[p].at \in {"relay", "inserted"} => relay'[p].block \in body'
        /\ relay'[p].at = "roots" => relay'[p].block \in body' \cup orphans' \cup lost'
    BY <1>4, <1>t, GotoFacts, ContinueFacts DEF RequestBlock, PlaceInv, At, RelayAt, Resting
  <2>3. body \subseteq body' /\ body \cup orphans \cup lost \subseteq body' \cup orphans' \cup lost'
    BY <1>4 DEF RequestBlock, Lose
  <2> QED BY <2>1, <2>2, <2>3, PlaceMoves
<1>5. ASSUME NEW p \in Peers, ReceiveBlock(p) PROVE PlaceInv'
  <2>1. relay'[p].at \in {"read", "process"} /\ \A q \in Peers \ {p} : relay'[q] = relay[q]
    <3>1. CASE Continue(p)
      BY <3>1, <1>t, ContinueFacts
    <3>2. CASE relay' = [relay EXCEPT ![p].at = "process", ![p].old = virtualParents]
      BY <3>2, <1>t DEF Relays
    <3> QED BY <1>5, <3>1, <3>2 DEF ReceiveBlock
  <2>2. body' = body /\ orphans' = orphans /\ lost \subseteq lost'
    BY <1>5, SMTT(30) DEF ReceiveBlock, Lose
  <2> QED BY <2>1, <2>2, PlaceMoves
<1>6. ASSUME NEW p \in Peers, ProcessBlock(p) PROVE PlaceInv'
  <2>1. \A q \in Peers \ {p} : relay'[q] = relay[q]
    BY <1>6, <1>t, GotoFacts, ContinueFacts, SMTT(30) DEF ProcessBlock, At, RelayAt, Resting
  <2>2. /\ relay'[p].at \in {"relay", "inserted"} => relay'[p].block \in body'
        /\ relay'[p].at = "roots" => relay'[p].block \in body' \cup orphans' \cup lost'
    BY <1>6, <1>t, GotoFacts, ContinueFacts DEF ProcessBlock, PlaceInv, At, RelayAt, Resting
  <2>3. body \subseteq body' /\ body \cup orphans \cup lost \subseteq body' \cup orphans' \cup lost'
    BY <1>6, SMTT(30) DEF ProcessBlock, Lose
  <2> QED BY <2>1, <2>2, <2>3, PlaceMoves
<1>7. ASSUME NEW p \in Peers, RelayVirtualParents(p) PROVE PlaceInv'
  <2>0. /\ relay[p].at = "relay" /\ Goto(p, "inserted")
        /\ body' = body /\ orphans' = orphans /\ lost' = lost
    BY <1>7, Zenon DEF RelayVirtualParents, At
  <2>1. /\ relay'[p].at = "inserted" /\ relay'[p].block = relay[p].block
        /\ \A q \in Peers \ {p} : relay'[q] = relay[q]
    BY <1>t, <2>0, GotoFacts DEF RelayAt, Resting
  <2>2. /\ relay'[p].at \in {"relay", "inserted"} => relay'[p].block \in body'
        /\ relay'[p].at = "roots" => relay'[p].block \in body' \cup orphans' \cup lost'
    BY <2>0, <2>1 DEF PlaceInv
  <2>3. body \subseteq body' /\ body \cup orphans \cup lost \subseteq body' \cup orphans' \cup lost'
    BY <2>0
  <2> QED BY <2>1, <2>2, <2>3, PlaceMoves
<1>8. ASSUME NEW p \in Peers, RequestLocator(p) PROVE PlaceInv'
  <2>1. \A q \in Peers \ {p} : relay'[q] = relay[q]
    BY <1>8, <1>t, GotoFacts, ContinueFacts, SMTT(30) DEF RequestLocator, At, RelayAt, Resting
  <2>2. /\ relay'[p].at \in {"relay", "inserted"} => relay'[p].block \in body'
        /\ relay'[p].at = "roots" => relay'[p].block \in body' \cup orphans' \cup lost'
    BY <1>8, <1>t, GotoFacts, ContinueFacts DEF RequestLocator, PlaceInv, At, RelayAt, Resting
  <2>3. body \subseteq body' /\ body \cup orphans \cup lost \subseteq body' \cup orphans' \cup lost'
    BY <1>8 DEF RequestLocator, Lose
  <2> QED BY <2>1, <2>2, <2>3, PlaceMoves
<1>9. ASSUME NEW p \in Peers, ReceiveLocator(p) PROVE PlaceInv'
  <2>1. \A q \in Peers \ {p} : relay'[q] = relay[q]
    BY <1>9, <1>t, GotoFacts, ContinueFacts DEF ReceiveLocator, At, RelayAt, Resting
  <2>2. /\ relay'[p].at \in {"relay", "inserted"} => relay'[p].block \in body'
        /\ relay'[p].at = "roots" => relay'[p].block \in body' \cup orphans' \cup lost'
    BY <1>9, <1>t, GotoFacts, ContinueFacts DEF ReceiveLocator, PlaceInv, At, RelayAt, Resting
  <2>3. body \subseteq body' /\ body \cup orphans \cup lost \subseteq body' \cup orphans' \cup lost'
    BY <1>9, SMTT(30) DEF ReceiveLocator, Lose
  <2> QED BY <2>1, <2>2, <2>3, PlaceMoves
<1>10. ASSUME NEW p \in Peers, AddOrphan(p) PROVE PlaceInv'
  <2>1. \A q \in Peers \ {p} : relay'[q] = relay[q]
    BY <1>10, <1>t, GotoFacts, ContinueFacts, SMTT(30) DEF AddOrphan, At, RelayAt, Resting
  <2>2. /\ relay'[p].at \in {"relay", "inserted"} => relay'[p].block \in body'
        /\ relay'[p].at = "roots" => relay'[p].block \in body' \cup orphans' \cup lost'
    BY <1>10, <1>t, GotoFacts, ContinueFacts DEF AddOrphan, PlaceInv, At, RelayAt, Resting
  <2>3. body \subseteq body' /\ body \cup orphans \cup lost \subseteq body' \cup orphans' \cup lost'
    BY <1>10, SMTT(30) DEF AddOrphan, Lose
  <2> QED BY <2>1, <2>2, <2>3, PlaceMoves
<1>11. ASSUME NEW p \in Peers, AddOrphanRootsToQueue(p) PROVE PlaceInv'
  <2>1. \A q \in Peers \ {p} : relay'[q] = relay[q]
    BY <1>11, <1>t, GotoFacts, ContinueFacts, SMTT(30) DEF AddOrphanRootsToQueue, At, RelayAt, Resting
  <2>2. /\ relay'[p].at \in {"relay", "inserted"} => relay'[p].block \in body'
        /\ relay'[p].at = "roots" => relay'[p].block \in body' \cup orphans' \cup lost'
    BY <1>11, <1>t, GotoFacts, ContinueFacts DEF AddOrphanRootsToQueue, PlaceInv, At, RelayAt, Resting
  <2>3. body \subseteq body' /\ body \cup orphans \cup lost \subseteq body' \cup orphans' \cup lost'
    BY <1>11 DEF AddOrphanRootsToQueue, Lose
  <2> QED BY <2>1, <2>2, <2>3, PlaceMoves
<1>12. ASSUME NEW f \in Flows, StartUnorphaning(f) PROVE PlaceInv'
  BY <1>12, PlaceUntouched DEF StartUnorphaning
<1>13. ASSUME NEW f \in Flows, UnorphanBlock(f) PROVE PlaceInv'
  <2>1. /\ UNCHANGED relay /\ body \subseteq body'
        /\ body \cup orphans \cup lost \subseteq body' \cup orphans' \cup lost'
    BY <1>13 DEF UnorphanBlock, unorphanBlock
  <2> QED BY <2>1, PlaceUntouched, SMTT(30)
<1>14. ASSUME NEW f \in Flows, FinishUnorphaning(f) PROVE PlaceInv'
  <2>1. CASE UNCHANGED relay
    BY <1>14, <2>1, PlaceUntouched DEF FinishUnorphaning
  <2>2. CASE f[2] = "relay"
    <3>0. f[1] \in Peers
      BY DEF Flows
    <3>1. relay'[f[1]].at = "read" /\ \A q \in Peers \ {f[1]} : relay'[q] = relay[q]
      BY <1>14, <1>t, <2>2, <3>0, ContinueFacts DEF FinishUnorphaning
    <3> QED BY <1>14, <3>0, <3>1, PlaceMoves DEF FinishUnorphaning
  <2> QED BY <1>14, <2>1, <2>2 DEF FinishUnorphaning
<1>15. ASSUME NEW p \in Peers, TrySetIBDRunning(p) PROVE PlaceInv'
  BY <1>15, PlaceUntouched DEF TrySetIBDRunning
<1>16. ASSUME NEW p \in Peers, SyncHeaders(p) PROVE PlaceInv'
  BY <1>16, PlaceUntouched DEF SyncHeaders
<1>17. ASSUME NEW p \in Peers, ListMissingBodies(p) PROVE PlaceInv'
  BY <1>17, PlaceUntouched DEF ListMissingBodies
<1>18. ASSUME NEW p \in Peers, InsertBody(p) PROVE PlaceInv'
  BY <1>18, PlaceUntouched DEF InsertBody
<1>19. ASSUME NEW p \in Peers, FinishIBD(p) PROVE PlaceInv'
  BY <1>19, PlaceUntouched DEF FinishIBD
<1>20. ASSUME NEW p \in Peers, TimeOut(p) PROVE PlaceInv'
  <2>1. relay'[p].at = "gone" /\ \A q \in Peers \ {p} : relay'[q] = relay[q]
    BY <1>20, <1>t DEF TimeOut, Idle
  <2>2. body' = body /\ orphans' = orphans /\ lost \subseteq lost'
    BY <1>20, SMTT(30) DEF TimeOut
  <2> QED BY <2>1, <2>2, PlaceMoves
<1>21. ASSUME NEW p \in Peers, NEW b \in Blocks, Announce(p, b) PROVE PlaceInv'
  BY <1>21, PlaceUntouched DEF Announce
<1>22. CASE UNCHANGED vars
  BY <1>22, PlaceUntouched, SMTT(30) DEF vars
<1> QED
  BY <1>1, <1>2, <1>3, <1>4, <1>5, <1>6, <1>7, <1>8, <1>9, <1>10, <1>11, <1>12, <1>13, <1>14, <1>15,
     <1>16, <1>17, <1>18, <1>19, <1>20, <1>21, <1>22
  DEF Next, Progress, RelayStep, UnorphanStep, IBDStep

-----------------------------------------------------------------------------
(* What a flow inserts is announced.                                       *)

(* A flow that neither inserts nor announces changes nothing.              *)
LEMMA RelayedMoves ==
  ASSUME RelayedInv, NEW p \in Peers, \A q \in Peers \ {p} : relay'[q] = relay[q],
         ~At(p, "relay"), relay'[p].at \notin {"process", "relay"}, body \subseteq body', UNCHANGED <<direct, relayed>>
  PROVE  RelayedInv'
BY SMTT(30) DEF RelayedInv, InsertedIsRelayed, At

(* A step of no relay flow changes nothing.                                *)
LEMMA RelayedUntouched ==
  ASSUME RelayedInv, UNCHANGED <<relay, direct, relayed>>, body \subseteq body'
  PROVE  RelayedInv'
BY SMTT(30) DEF RelayedInv, InsertedIsRelayed, At

(* A flow that announces the new virtual parents announces one above the   *)
(* block it inserted.                                                      *)
LEMMA RelayedStep ==
  Facts /\ TypeInv /\ HolderInv /\ BodyInv /\ PlaceInv /\ RelayedInv /\ [Next]_vars => RelayedInv'
<1> SUFFICES ASSUME PastLeast, VirtualParentsOnTop, TypeInv, HolderInv, BodyInv, PlaceInv, RelayedInv, [Next]_vars
             PROVE  RelayedInv'
  BY DEF Facts
<1>t. relay \in [Peers -> Relays]
  BY DEF TypeInv
<1>1. ASSUME NEW p \in Peers, ReadInv(p) PROVE RelayedInv'
  <2>1. ~At(p, "relay") /\ relay'[p].at \notin {"process", "relay"} /\ \A q \in Peers \ {p} : relay'[q] = relay[q]
    BY <1>1, <1>t DEF ReadInv, At, Idle
  <2> QED BY <1>1, <2>1, RelayedMoves DEF ReadInv
<1>2. ASSUME NEW p \in Peers, CheckOrphan(p) PROVE RelayedInv'
  <2>1. ~At(p, "relay") /\ relay'[p].at \notin {"process", "relay"} /\ \A q \in Peers \ {p} : relay'[q] = relay[q]
    BY <1>2, <1>t, GotoFacts, ContinueFacts DEF CheckOrphan, At, RelayAt, Resting
  <2> QED BY <1>2, <2>1, RelayedMoves, Zenon DEF CheckOrphan
<1>3. ASSUME NEW p \in Peers, CheckIBD(p) PROVE RelayedInv'
  <2>1. ~At(p, "relay") /\ relay'[p].at \notin {"process", "relay"} /\ \A q \in Peers \ {p} : relay'[q] = relay[q]
    BY <1>3, <1>t, GotoFacts, ContinueFacts DEF CheckIBD, At, RelayAt, Resting
  <2> QED BY <1>3, <2>1, RelayedMoves, SMTT(30) DEF CheckIBD
<1>4. ASSUME NEW p \in Peers, RequestBlock(p) PROVE RelayedInv'
  <2>1. ~At(p, "relay") /\ relay'[p].at \notin {"process", "relay"} /\ \A q \in Peers \ {p} : relay'[q] = relay[q]
    BY <1>4, <1>t, GotoFacts, ContinueFacts DEF RequestBlock, At, RelayAt, Resting
  <2> QED BY <1>4, <2>1, RelayedMoves, Zenon DEF RequestBlock
<1>5. ASSUME NEW p \in Peers, ReceiveBlock(p) PROVE RelayedInv'
  <2>0. UNCHANGED <<body, direct, relayed>> /\ relay[p].at = "waitBlock"
    BY <1>5 DEF ReceiveBlock, At
  <2>1. CASE Continue(p)
    <3>1. ~At(p, "relay") /\ relay'[p].at = "read" /\ \A q \in Peers \ {p} : relay'[q] = relay[q]
      BY <1>t, <2>0, <2>1, ContinueFacts, SMTT(30) DEF At
    <3> QED BY <2>0, <3>1, RelayedMoves
  <2>2. CASE relay' = [relay EXCEPT ![p].at = "process", ![p].old = virtualParents]
    <3>1. /\ relay'[p].at = "process" /\ relay'[p].block = relay[p].block /\ relay'[p].old = virtualParents
          /\ \A q \in Peers \ {p} : relay'[q] = relay[q]
      BY <1>t, <2>2 DEF Relays
    <3>2. \A v \in virtualParents : PastOfBlock[v] \subseteq body
      <4>1. body \subseteq Blocks /\ \A x \in body : Parents[x] \subseteq body
        BY Zenon DEF TypeInv, BodyInv
      <4>2. \A b \in body : PastOfBlock[b] \subseteq body
        BY <4>1, ZenonT(40) DEF PastLeast
      <4> QED BY <4>1, <4>2, SMTT(30) DEF virtualParents
    <3>3. relay'[p].block \in body' \/ \A v \in relay'[p].old : relay'[p].block \notin PastOfBlock[v]
      BY <2>0, <3>1, <3>2, SMTT(30)
    <3> QED BY <2>0, <3>1, <3>3 DEF RelayedInv, InsertedIsRelayed, At
  <2> QED BY <1>5, <2>1, <2>2 DEF ReceiveBlock
<1>6. ASSUME NEW p \in Peers, ProcessBlock(p) PROVE RelayedInv'
  <2>0. relay[p].at = "process" /\ relayed' = relayed
    BY <1>6, SMTT(30) DEF ProcessBlock, At
  <2>1. CASE UNCHANGED <<body, direct>>
    <3>1. relay'[p].at \in {"read", "orphan"} /\ \A q \in Peers \ {p} : relay'[q] = relay[q]
      BY <1>6, <1>t, <2>0, <2>1, GotoFacts, ContinueFacts, SMTT(20) DEF ProcessBlock, RelayAt, Resting
    <3> QED BY <2>0, <2>1, <3>1, RelayedMoves, SMTT(30) DEF At
  <2>2. CASE relay[p].block \notin body /\ Goto(p, "relay") /\ body' = body \cup {relay[p].block} /\ direct' = direct \cup {relay[p].block}
    <3>1. /\ relay'[p].at = "relay" /\ relay'[p].block = relay[p].block /\ relay'[p].old = relay[p].old
          /\ \A q \in Peers \ {p} : relay'[q] = relay[q]
      BY <1>t, <2>0, <2>2, GotoFacts, SMTT(30) DEF RelayAt, Resting
    <3>2. \A v \in relay[p].old : relay[p].block \notin PastOfBlock[v]
      BY <2>0, <2>2, SMTT(20) DEF RelayedInv, At
    <3>3. InsertedIsRelayed'
      BY <2>0, <2>2, <3>1, SMTT(30) DEF RelayedInv, InsertedIsRelayed, At
    <3> QED BY <2>2, <3>1, <3>2, <3>3, Zenon DEF RelayedInv, At
  <2> QED BY <1>6, <2>1, <2>2, SMTT(30) DEF ProcessBlock, Insertable
<1>7. ASSUME NEW p \in Peers, RelayVirtualParents(p) PROVE RelayedInv'
  <2>0. /\ relay[p].at = "relay" /\ UNCHANGED <<body, direct>> /\ Goto(p, "inserted")
        /\ relayed' = relayed \cup (virtualParents \ relay[p].old)
    BY <1>7, Zenon DEF RelayVirtualParents, At
  <2>1. relay'[p].at = "inserted" /\ \A q \in Peers \ {p} : relay'[q] = relay[q]
    BY <1>t, <2>0, GotoFacts DEF RelayAt, Resting
  <2>2. \E r \in relayed' : relay[p].block \in PastOfBlock[r]
    <3>1. relay[p].block \in body
      BY <2>0 DEF PlaceInv
    <3>2. PICK v \in virtualParents : relay[p].block \in PastOfBlock[v]
      BY <3>1 DEF VirtualParentsOnTop
    <3>3. v \notin relay[p].old
      BY <2>0, <3>2 DEF RelayedInv, At
    <3> QED BY <2>0, <3>2, <3>3
  <2>3. InsertedIsRelayed'
    <3> SUFFICES ASSUME NEW b \in direct, \A q \in Peers : ~(relay'[q].at = "relay" /\ relay'[q].block = b)
                 PROVE  \E r \in relayed' : b \in PastOfBlock[r]
      BY <2>0 DEF InsertedIsRelayed, At
    <3>1. CASE b = relay[p].block
      BY <2>2, <3>1, SMTT(30)
    <3>2. CASE b # relay[p].block
      <4>1. \A q \in Peers : ~(relay[q].at = "relay" /\ relay[q].block = b)
        BY <2>1, <3>2, SMTT(30)
      <4> QED BY <2>0, <4>1 DEF RelayedInv, InsertedIsRelayed, At
    <3> QED BY <3>1, <3>2, SMTT(30)
  <2>4. \A q \in Peers : relay'[q].at \in {"process", "relay"} => relay'[q] = relay[q]
    BY <2>1
  <2> QED BY <2>0, <2>3, <2>4 DEF RelayedInv, At
<1>8. ASSUME NEW p \in Peers, RequestLocator(p) PROVE RelayedInv'
  <2>1. ~At(p, "relay") /\ relay'[p].at \notin {"process", "relay"} /\ \A q \in Peers \ {p} : relay'[q] = relay[q]
    BY <1>8, <1>t, GotoFacts, ContinueFacts DEF RequestLocator, At, RelayAt, Resting
  <2> QED BY <1>8, <2>1, RelayedMoves, SMTT(30) DEF RequestLocator
<1>9. ASSUME NEW p \in Peers, ReceiveLocator(p) PROVE RelayedInv'
  <2>1. ~At(p, "relay") /\ relay'[p].at \notin {"process", "relay"} /\ \A q \in Peers \ {p} : relay'[q] = relay[q]
    BY <1>9, <1>t, GotoFacts, ContinueFacts, SMTT(30) DEF ReceiveLocator, At, RelayAt, Resting
  <2> QED BY <1>9, <2>1, RelayedMoves DEF ReceiveLocator
<1>10. ASSUME NEW p \in Peers, AddOrphan(p) PROVE RelayedInv'
  <2>1. ~At(p, "relay") /\ relay'[p].at \notin {"process", "relay"} /\ \A q \in Peers \ {p} : relay'[q] = relay[q]
    BY <1>10, <1>t, GotoFacts, ContinueFacts, SMTT(30) DEF AddOrphan, At, RelayAt, Resting
  <2> QED BY <1>10, <2>1, RelayedMoves, SMTT(30) DEF AddOrphan
<1>11. ASSUME NEW p \in Peers, AddOrphanRootsToQueue(p) PROVE RelayedInv'
  <2>1. ~At(p, "relay") /\ relay'[p].at \notin {"process", "relay"} /\ \A q \in Peers \ {p} : relay'[q] = relay[q]
    BY <1>11, <1>t, GotoFacts, ContinueFacts DEF AddOrphanRootsToQueue, At, RelayAt, Resting
  <2> QED BY <1>11, <2>1, RelayedMoves, SMTT(30) DEF AddOrphanRootsToQueue
<1>12. ASSUME NEW f \in Flows, StartUnorphaning(f) PROVE RelayedInv'
  BY <1>12, RelayedUntouched DEF StartUnorphaning
<1>13. ASSUME NEW f \in Flows, UnorphanBlock(f) PROVE RelayedInv'
  <2>1. UNCHANGED <<relay, direct, relayed>> /\ body \subseteq body'
    BY <1>13 DEF UnorphanBlock, unorphanBlock
  <2> QED BY <2>1, RelayedUntouched, SMTT(30)
<1>14. ASSUME NEW f \in Flows, FinishUnorphaning(f) PROVE RelayedInv'
  <2>1. CASE UNCHANGED relay
    BY <1>14, <2>1, RelayedUntouched DEF FinishUnorphaning
  <2>2. CASE f[2] = "relay"
    <3>1. f = <<f[1], "relay">> /\ f[1] \in Peers
      BY <2>2 DEF Flows
    <3>2. ~At(f[1], "relay") /\ relay'[f[1]].at = "read" /\ \A q \in Peers \ {f[1]} : relay'[q] = relay[q]
      BY <1>14, <1>t, <2>2, <3>1, ContinueFacts DEF FinishUnorphaning, HolderInv, At
    <3> QED BY <1>14, <3>1, <3>2, RelayedMoves DEF FinishUnorphaning
  <2> QED BY <1>14, <2>1, <2>2 DEF FinishUnorphaning
<1>15. ASSUME NEW p \in Peers, TrySetIBDRunning(p) PROVE RelayedInv'
  BY <1>15, RelayedUntouched DEF TrySetIBDRunning
<1>16. ASSUME NEW p \in Peers, SyncHeaders(p) PROVE RelayedInv'
  BY <1>16, RelayedUntouched DEF SyncHeaders
<1>17. ASSUME NEW p \in Peers, ListMissingBodies(p) PROVE RelayedInv'
  BY <1>17, RelayedUntouched DEF ListMissingBodies
<1>18. ASSUME NEW p \in Peers, InsertBody(p) PROVE RelayedInv'
  BY <1>18, RelayedUntouched DEF InsertBody
<1>19. ASSUME NEW p \in Peers, FinishIBD(p) PROVE RelayedInv'
  BY <1>19, RelayedUntouched DEF FinishIBD
<1>20. ASSUME NEW p \in Peers, TimeOut(p) PROVE RelayedInv'
  <2>1. ~At(p, "relay") /\ relay'[p].at \notin {"process", "relay"} /\ \A q \in Peers \ {p} : relay'[q] = relay[q]
    BY <1>20, <1>t, SMTT(30) DEF TimeOut, At, Idle
  <2> QED BY <1>20, <2>1, RelayedMoves DEF TimeOut
<1>21. ASSUME NEW p \in Peers, NEW b \in Blocks, Announce(p, b) PROVE RelayedInv'
  BY <1>21, RelayedUntouched DEF Announce
<1>22. CASE UNCHANGED vars
  BY <1>22, RelayedUntouched DEF vars
<1> QED
  BY <1>1, <1>2, <1>3, <1>4, <1>5, <1>6, <1>7, <1>8, <1>9, <1>10, <1>11, <1>12, <1>13, <1>14, <1>15,
     <1>16, <1>17, <1>18, <1>19, <1>20, <1>21, <1>22, SMTT(30)
  DEF Next, Progress, RelayStep, UnorphanStep, IBDStep
=============================================================================
