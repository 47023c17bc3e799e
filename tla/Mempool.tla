------------------------------ MODULE Mempool ------------------------------
(***************************************************************************)
(* The memory pool of the mining manager (domain/miningmanager/mempool):   *)
(* the transactions pool, the orphans pool and the mempool UTXO set, with  *)
(* every operation that changes them.  Each public method of the mempool   *)
(* runs under one mutex, so each is one action; the operators below are    *)
(* the methods it calls, as functions of the pool's state mp.              *)
(*                                                                         *)
(* The consensus the pool is validated against moves on its own: a block   *)
(* is added to the DAG, later (or never) its transactions are accepted by  *)
(* the virtual block, and a reorganisation may take the acceptance back.   *)
(* The pool learns of a block only through HandleNewBlockTransactions,     *)
(* which the protocol layer calls after the block was committed: between   *)
(* the two, anything else may happen.                                      *)
(***************************************************************************)
EXTENDS Naturals, FiniteSets, Sequences, SequencesExt

CONSTANTS
  Transactions,              \* transaction IDs, numbered so that a spender has a larger ID
  Inputs,                    \* [Transactions -> the outpoints it spends]
  NumOutputs,                \* [Transactions -> the number of its outputs]
  FeeRate,                   \* [Transactions -> fee over mass]; 0: below the relay fee
  ValidFrom,                 \* [Transactions -> the virtual DAA score it is mature from]
  OverOrphanMass,            \* transactions heavier than MaximumOrphanTransactionMass
  Confirmed,                 \* outpoints in the UTXO set at the start
  BlockContents,             \* the transaction lists a block may have
  MaximumTransactionCount, MaximumOrphanTransactionCount,
  ExpireInterval, ScanInterval,   \* in DAA score, for both pools
  MaxBlocks, MaxReorgs,      \* bounds on what consensus does
  MaxInsertions,             \* bound on the transactions put into a pool
  NoTransaction

(* An outpoint is <<transaction, index>>; transaction 0 stands for the     *)
(* transactions that were confirmed before.  No hash cycle: a transaction  *)
(* spends outputs of earlier ones only.                                    *)
ASSUME TransactionsAssumption ==
  /\ Transactions \subseteq Nat \ {0}
  /\ \A t \in Transactions : \A o \in Inputs[t] : o[1] < t
  /\ NoTransaction \notin Transactions

VARIABLES
  mp,         \* the state of the mempool
  accepted,   \* the transactions the virtual block accepts, in order
  mined,      \* the transactions of the blocks of the DAG
  pending,    \* the blocks added and not yet handed to the mempool
  daaScore,   \* the virtual's DAA score: grows with every block
  reorgs,     \* reorganisations so far
  insertions  \* submissions that changed a pool so far

vars == <<mp, accepted, mined, pending, daaScore, reorgs, insertions>>

OutputsOf(t) == {<<t, i>> : i \in 0 .. NumOutputs[t] - 1}
InputsOf(S) == UNION {Inputs[t] : t \in S}
Outpoints == Confirmed \cup UNION {OutputsOf(t) : t \in Transactions} \cup InputsOf(Transactions)
ParentIDs(t) == {o[1] : o \in Inputs[t]}

(* The virtual's UTXO set. *)
UtxoOf(acc) == (Confirmed \cup UNION {OutputsOf(t) : t \in ToSet(acc)}) \ InputsOf(ToSet(acc))
Utxo == UtxoOf(accepted)

-----------------------------------------------------------------------------
(* TransactionsOrderedByFeeRate: a slice of pointers to pool transactions. *)
(* A pointer is the transaction's ID and its priority, the fields that are *)
(* read through it.                                                        *)
NotBefore(e, t) == FeeRate[e.id] > FeeRate[t] \/ (FeeRate[e.id] = FeeRate[t] /\ t <= e.id)

Push(order, e) ==
  LET i == SelectInSeq(order, LAMBDA x : NotBefore(x, e.id))
  IN IF i = 0 THEN Append(order, e) ELSE InsertAt(order, i, e)

(* Remove takes out one pointer; removing what is not there is logged.     *)
RemoveAll(order, ids) ==
  FoldLeft(LAMBDA s, t : RemoveFirstMatch(s, LAMBDA x : x.id = t), order, ids)

-----------------------------------------------------------------------------
(* The orphans pool. *)

(* The orphans that redeem outputs of S, of those orphans, and so on.      *)
removeRedeemersOf(m, S) ==
  LET redeeming[n \in Nat] ==
        IF n = 0 THEN {}
        ELSE LET D == S \cup redeeming[n - 1]
             IN {m.byPrevious[o] : o \in UNION {OutputsOf(t) : t \in D}} \ {NoTransaction}
  IN redeeming[Cardinality(Transactions)]

removeOrphans(m, D) ==
  [m EXCEPT !.orphans = @ \ D,
            !.orphanHigh = @ \ D,
            !.orphanFilled = [t \in Transactions |-> IF t \in D THEN {} ELSE @[t]],
            !.orphanAdded = [t \in Transactions |-> IF t \in D THEN 0 ELSE @[t]],
            !.byPrevious = [o \in Outpoints |-> IF o \in InputsOf(D) THEN NoTransaction ELSE @[o]],
            !.failed = @ \/ \E o \in InputsOf(D) : m.byPrevious[o] = NoTransaction]

removeOrphan(m, t, removeRedeemers) ==
  IF t \notin m.orphans THEN m
  ELSE removeOrphans(m, {t} \cup IF removeRedeemers THEN removeRedeemersOf(m, {t}) ELSE {})

addOrphan(m, t, isHighPriority, filled, daa) ==
  [m EXCEPT !.orphans = @ \cup {t},
            !.orphanHigh = IF isHighPriority THEN @ \cup {t} ELSE @,
            !.orphanFilled[t] = filled,
            !.orphanAdded[t] = daa,
            !.byPrevious = [o \in Outpoints |-> IF o \in Inputs[t] THEN t ELSE @[o]]]

(* The states limitOrphanPoolSize may leave: it evicts a random orphan     *)
(* that is not high-priority.  One is enough, the pool grows one at a time.*)
limitOrphanPoolSize(m) ==
  IF Cardinality(m.orphans) <= MaximumOrphanTransactionCount \/ m.orphans = m.orphanHigh
  THEN {m}
  ELSE {removeOrphan(m, t, FALSE) : t \in m.orphans \ m.orphanHigh}

maybeAddOrphanUnchecked(m, t, isHighPriority, filled, daa) ==
  IF MaximumOrphanTransactionCount = 0 \/ t \in m.orphans \/ t \in OverOrphanMass
  THEN {m}
  ELSE limitOrphanPoolSize(addOrphan(m, t, isHighPriority, filled, daa))

maybeAddOrphan(m, t, isHighPriority, filled, daa) ==
  IF \/ MaximumOrphanTransactionCount = 0
     \/ t \in m.orphans
     \/ t \in OverOrphanMass
     \/ \E o \in Inputs[t] : m.byPrevious[o] # NoTransaction
  THEN {m}
  ELSE limitOrphanPoolSize(addOrphan(m, t, isHighPriority, filled, daa))

expireOrphanTransactions(m, daa) ==
  IF daa - m.lastOrphanScan < ScanInterval THEN m
  ELSE [removeOrphans(m, {t \in m.orphans \ m.orphanHigh : daa - m.orphanAdded[t] > ExpireInterval})
          EXCEPT !.lastOrphanScan = daa]

-----------------------------------------------------------------------------
(* The mempool UTXO set: which pool transaction spends an outpoint, and    *)
(* the outputs of pool transactions.  Adding a transaction deletes the     *)
(* outpoints made of its own ID and of its input indices.                  *)
addToUTXOSet(m, t) ==
  [m EXCEPT !.spentBy = [o \in Outpoints |-> IF o \in Inputs[t] THEN t ELSE @[o]],
            !.unspent = (@ \ {<<t, i>> : i \in 0 .. Cardinality(Inputs[t]) - 1}) \cup OutputsOf(t)]

(* Whoever spends an input now, its entry goes; an input that a pool       *)
(* transaction created becomes unspent again.                              *)
removeFromUTXOSet(m, D) ==
  [m EXCEPT !.spentBy = [o \in Outpoints |-> IF o \in InputsOf(D) THEN NoTransaction ELSE @[o]],
            !.unspent = (@ \cup {o \in InputsOf(D) : o[1] \in m.all}) \ UNION {OutputsOf(t) : t \in D}]

checkDoubleSpends(m, t) == \A o \in Inputs[t] : m.spentBy[o] = NoTransaction

-----------------------------------------------------------------------------
(* The transactions pool. *)

addMempoolTransaction(m, t, isHighPriority, daa) ==
  LET parents == ParentIDs(t) \cap m.all
  IN [addToUTXOSet(m, t)
        EXCEPT !.all = @ \cup {t},
               !.parents[t] = parents,
               !.isHigh[t] = isHighPriority,
               !.added[t] = daa,
               !.filled[t] = Inputs[t],
               !.high = IF isHighPriority THEN @ \cup {t} ELSE @,
               !.chained = [p \in Transactions |-> IF p \in parents THEN Append(@[p], t) ELSE @[p]],
               !.order = Push(@, [id |-> t, high |-> isHighPriority])]

(* The redeemers of a pool transaction: a transaction is listed once for   *)
(* every chain of chained transactions that leads to it.                   *)
getRedeemers(m, t) ==
  LET below[x \in Transactions] ==
        FlattenSeq([i \in DOMAIN m.chained[x] |-> <<m.chained[x][i]>> \o below[m.chained[x][i]]])
  IN below[t]

removeTransactionFromSetsKeepHigh(m, ids) ==
  LET D == ToSet(ids)
  IN [removeFromUTXOSet(m, D)
        EXCEPT !.all = @ \ D,
               !.parents = [t \in Transactions |-> IF t \in D THEN {} ELSE @[t]],
               !.isHigh = [t \in Transactions |-> @[t] /\ t \notin D],
               !.added = [t \in Transactions |-> IF t \in D THEN 0 ELSE @[t]],
               !.filled = [t \in Transactions |-> IF t \in D THEN {} ELSE @[t]],
               !.chained = [t \in Transactions |-> IF t \in D THEN <<>> ELSE @[t]],
               !.order = RemoveAll(@, ids)]

removeTransactionFromSets(m, ids) ==
  LET D == ToSet(ids)
  IN [removeFromUTXOSet(m, D)
        EXCEPT !.all = @ \ D,
               !.high = @ \ D,
               !.parents = [t \in Transactions |-> IF t \in D THEN {} ELSE @[t]],
               !.isHigh = [t \in Transactions |-> @[t] /\ t \notin D],
               !.added = [t \in Transactions |-> IF t \in D THEN 0 ELSE @[t]],
               !.filled = [t \in Transactions |-> IF t \in D THEN {} ELSE @[t]],
               !.chained = [t \in Transactions |-> IF t \in D THEN <<>> ELSE @[t]],
               !.order = RemoveAll(@, ids)]

removeTransactionOnlyDirect(m, t, removeRedeemers) ==
  IF t \in m.orphans THEN removeOrphan(m, t, TRUE)
  ELSE IF t \notin m.all THEN m
  ELSE removeTransactionFromSets(m, <<t>> \o IF removeRedeemers THEN m.chained[t] ELSE <<>>)

removeTransaction(m, t, removeRedeemers) ==
  IF t \in m.orphans THEN removeOrphan(m, t, TRUE)
  ELSE IF t \notin m.all THEN m
  ELSE LET redeemers == getRedeemers(m, t)
       IN IF removeRedeemers
          THEN LET D == <<t>> \o redeemers
               IN removeOrphans(removeTransactionFromSets(m, D), removeRedeemersOf(m, ToSet(D)))
          ELSE [removeTransactionFromSets(m, <<t>>)
                  EXCEPT !.parents = [x \in Transactions |-> @[x] \ {t}],
                         !.orphanFilled = [x \in Transactions |-> @[x] \ OutputsOf(t)]]

(* limitTransactionCount walks the slice from its cheapest end.  When the  *)
(* transaction it picks is not in the pool any more, nothing is removed    *)
(* and the loop picks it again: it never ends.                             *)
limitTransactionCount(m) ==
  LET over(x) == Cardinality(x.all) > MaximumTransactionCount
      step(acc, n) ==
        IF acc.done \/ ~over(acc.m) THEN [acc EXCEPT !.done = TRUE]
        ELSE LET e == acc.m.order[acc.index + 1]
             IN IF e.high
                THEN [acc EXCEPT !.index = @ + 1, !.done = acc.index + 1 >= Cardinality(acc.m.all)]
                ELSE LET r == removeTransaction(acc.m, e.id, TRUE)
                     IN [acc EXCEPT !.m = r, !.done = acc.index >= Cardinality(r.all),
                                    !.hung = r = acc.m]
      loop == FoldLeft(step, [m |-> m, index |-> 0, done |-> FALSE, hung |-> FALSE],
                       [n \in 1 .. 3 * Cardinality(Transactions) |-> n])
  IN [loop.m EXCEPT !.hung = loop.hung]

(* The order in which Go visits the map is arbitrary: the expired          *)
(* transactions come in some order, a removed one is not visited.          *)
Expired(m, daa) == {t \in m.all : ~m.isHigh[t] /\ daa - m.added[t] > ExpireInterval}

expireOldTransactions(m, daa, timePassed) ==
  IF daa - m.lastTransactionScan < ScanInterval \/ ~timePassed THEN {m}
  ELSE {[FoldLeft(LAMBDA x, t : IF t \in x.all THEN removeTransaction(x, t, TRUE) ELSE x, m, visit)
           EXCEPT !.lastTransactionScan = daa] : visit \in SetToSeqs(Expired(m, daa))}

-----------------------------------------------------------------------------
(* Validation.  Scripts and signatures are valid: what differs between     *)
(* transactions is whether their inputs exist, whether they are mature     *)
(* (lock times, coinbase maturity) and whether they pay the relay fee.     *)
checkTransactionStandardInContext(t) == FeeRate[t] > 0
validateInContext(t, daa) == ValidFrom[t] <= daa
Missing(t, filled, utxo) == (Inputs[t] \ filled) \ utxo

(* An orphan whose last input was filled moves to the pool, or is dropped  *)
(* when it fails validation.  It never becomes high-priority.              *)
unorphanTransaction(m, t, daa) ==
  LET r == removeOrphan(m, t, FALSE)
  IN IF validateInContext(t, daa) /\ checkTransactionStandardInContext(t)
     THEN addMempoolTransaction(r, t, FALSE, daa)
     ELSE r

processOrphansAfterAcceptedTransaction(m, t, daa) ==
  LET step(x, i) ==
        LET orphan == x.byPrevious[<<t, i - 1>>]
        IN IF orphan = NoTransaction THEN x
           ELSE LET f == [x EXCEPT !.orphanFilled[orphan] = @ \cup {<<t, i - 1>>}]
                IN IF f.orphanFilled[orphan] = Inputs[orphan]
                   THEN unorphanTransaction(f, orphan, daa) ELSE f
  IN FoldLeft(step, m, [i \in 1 .. NumOutputs[t] |-> i])

(* The possible results of validateAndInsertTransaction. *)
validateAndInsertTransaction(m, t, isHighPriority, allowOrphan, utxo, daa) ==
  LET filled == {o \in Inputs[t] : o[1] \in m.all}
      missing == Missing(t, filled, utxo)
  IN IF t \in m.all \/ ~checkDoubleSpends(m, t)
     THEN {m}
     ELSE IF missing # {}
     THEN IF allowOrphan THEN maybeAddOrphan(m, t, isHighPriority, Inputs[t] \ missing, daa) ELSE {m}
     ELSE IF ~validateInContext(t, daa) \/ ~checkTransactionStandardInContext(t)
     THEN {m}
     ELSE {limitTransactionCount(processOrphansAfterAcceptedTransaction(
             addMempoolTransaction(m, t, isHighPriority, daa), t, daa))}

removeDoubleSpends(m, t) ==
  FoldLeft(LAMBDA x, o : IF x.spentBy[o] = NoTransaction THEN x ELSE removeTransaction(x, x.spentBy[o], TRUE),
           m, SetToSeq(Inputs[t]))

(* The possible results of handleNewBlockTransactions. *)
handleNewBlockTransactions(m, ts, daa, timePassed) ==
  LET handle(x, t) ==
        processOrphansAfterAcceptedTransaction(
          removeOrphan(removeDoubleSpends(removeTransaction(x, t, FALSE), t), t, FALSE), t, daa)
  IN expireOldTransactions(expireOrphanTransactions(FoldLeft(handle, m, ts), daa), daa, timePassed)

(* The entries of the inputs are cleared and filled again.  A high-        *)
(* priority pointer may be older than the transaction of the pool: then    *)
(* it is not the pool's transaction that is cleared.                       *)
revalidateTransaction(m, t, utxo) ==
  LET fromPool == {o \in Inputs[t] : o[1] \in m.all}
      missing == Missing(t, fromPool, utxo)
      refilled == [m EXCEPT !.filled[t] = IF m.isHigh[t] THEN Inputs[t] \ missing ELSE @]
  IN IF missing = {} THEN refilled ELSE removeTransaction(refilled, t, FALSE)

(* Parents before children; the first rule error other than a missing      *)
(* output ends the whole revalidation.                                     *)
revalidateHighPriorityTransactions(m, utxo, daa) ==
  LET step(acc, t) ==
        LET r == revalidateTransaction(acc.m, t, utxo)
            lost == Missing(t, {o \in Inputs[t] : o[1] \in acc.m.all}, utxo) # {}
        IN IF acc.stopped THEN acc ELSE [m |-> r, stopped |-> ~lost /\ ~validateInContext(t, daa)]
  IN FoldLeft(step, [m |-> m, stopped |-> FALSE], SetToSortSeq(m.high, <)).m

(* The transactions a block template may take: no parent left in the pool. *)
allReadyTransactions(m) == {t \in m.all : m.parents[t] = {}}

(* The weighted random selection, up to the block's mass limit: any of the *)
(* ready transactions may be selected.                                     *)
selectTransactions(m) == SUBSET allReadyTransactions(m)

(* RemoveInvalidTransactions, of the template's transactions that the      *)
(* consensus refused: with their redeemers unless an output is missing.    *)
RemoveInvalidTransactions(m, invalid, utxo) ==
  FoldLeft(LAMBDA x, t : removeTransaction(x, t, Inputs[t] \subseteq utxo), m, SetToSortSeq(invalid, <))

-----------------------------------------------------------------------------
EmptyPool ==
  [all |-> {}, high |-> {}, order |-> <<>>, unspent |-> {},
   parents |-> [t \in Transactions |-> {}],
   isHigh |-> [t \in Transactions |-> FALSE],
   added |-> [t \in Transactions |-> 0],
   filled |-> [t \in Transactions |-> {}],
   chained |-> [t \in Transactions |-> <<>>],
   spentBy |-> [o \in Outpoints |-> NoTransaction],
   orphans |-> {}, orphanHigh |-> {},
   orphanFilled |-> [t \in Transactions |-> {}],
   orphanAdded |-> [t \in Transactions |-> 0],
   byPrevious |-> [o \in Outpoints |-> NoTransaction],
   lastOrphanScan |-> 0, lastTransactionScan |-> 0,
   hung |-> FALSE, failed |-> FALSE]

Init ==
  /\ mp = EmptyPool
  /\ accepted = <<>>
  /\ mined = {}
  /\ pending = {}
  /\ daaScore = 0
  /\ reorgs = 0
  /\ insertions = 0

consensusVars == <<accepted, mined, pending, daaScore, reorgs>>

(* A transaction of a peer (not high-priority, orphans allowed) or of RPC. *)
ValidateAndInsertTransaction(t, isHighPriority, allowOrphan) ==
  /\ isHighPriority \/ allowOrphan
  /\ insertions < MaxInsertions
  /\ mp' \in validateAndInsertTransaction(mp, t, isHighPriority, allowOrphan, Utxo, daaScore)
  /\ insertions' = IF mp' = mp THEN insertions ELSE insertions + 1
  /\ UNCHANGED consensusVars

HandleNewBlockTransactions(ts, timePassed) ==
  /\ ts \in pending
  /\ mp' \in handleNewBlockTransactions(mp, ts, daaScore, timePassed)
  /\ pending' = pending \ {ts}
  /\ UNCHANGED <<accepted, mined, daaScore, reorgs, insertions>>

RevalidateHighPriorityTransactions ==
  /\ mp' = revalidateHighPriorityTransactions(mp, Utxo, daaScore)
  /\ UNCHANGED <<consensusVars, insertions>>

(* One round of BuildBlockTemplate: the transactions selected among the    *)
(* ready ones that consensus refuses are removed.  An input without its    *)
(* entry would be a nil dereference.                                       *)
BuildBlockTemplate(selected) ==
  LET invalid == {t \in selected : ~(Inputs[t] \subseteq Utxo) \/ ~validateInContext(t, daaScore)}
  IN /\ \A t \in allReadyTransactions(mp) : mp.filled[t] = Inputs[t]
     /\ invalid # {}
     /\ mp' = RemoveInvalidTransactions(mp, invalid, Utxo)
     /\ UNCHANGED <<consensusVars, insertions>>

(* Consensus: a block is added, its transactions are accepted, taken back. *)
AddBlock(ts) ==
  /\ daaScore < MaxBlocks
  /\ daaScore' = daaScore + 1
  /\ mined' = mined \cup ToSet(ts)
  /\ pending' = pending \cup {ts}
  /\ UNCHANGED <<mp, accepted, reorgs, insertions>>

VirtualAccepts(t) ==
  /\ t \in mined \ ToSet(accepted)
  /\ Inputs[t] \subseteq Utxo
  /\ accepted' = Append(accepted, t)
  /\ UNCHANGED <<mp, mined, pending, daaScore, reorgs, insertions>>

Reorganise ==
  /\ accepted # <<>>
  /\ reorgs < MaxReorgs
  /\ accepted' = Front(accepted)
  /\ reorgs' = reorgs + 1
  /\ UNCHANGED <<mp, mined, pending, daaScore, insertions>>

Next ==
  /\ ~mp.hung /\ ~mp.failed
  /\ \/ \E t \in Transactions, isHighPriority, allowOrphan \in BOOLEAN :
          ValidateAndInsertTransaction(t, isHighPriority, allowOrphan)
     \/ \E ts \in pending, timePassed \in BOOLEAN : HandleNewBlockTransactions(ts, timePassed)
     \/ RevalidateHighPriorityTransactions
     \/ \E selected \in selectTransactions(mp) : BuildBlockTemplate(selected)
     \/ \E ts \in BlockContents : AddBlock(ts)
     \/ \E t \in Transactions : VirtualAccepts(t)
     \/ Reorganise

Spec == Init /\ [][Next]_vars

-----------------------------------------------------------------------------
(* Every index of the pool ranges over what the Go maps can hold.          *)
TypeOK ==
  /\ mp.all \subseteq Transactions /\ mp.high \subseteq mp.all
  /\ mp.orphans \subseteq Transactions /\ mp.orphanHigh \subseteq mp.orphans
  /\ mp.parents \in [Transactions -> SUBSET Transactions]
  /\ \A t \in Transactions : mp.filled[t] \subseteq Inputs[t] /\ mp.orphanFilled[t] \subseteq Inputs[t]
  /\ mp.spentBy \in [Outpoints -> Transactions \cup {NoTransaction}]
  /\ mp.byPrevious \in [Outpoints -> Transactions \cup {NoTransaction}]
  /\ \A i \in DOMAIN mp.order : mp.order[i].id \in Transactions
  /\ daaScore \in 0 .. MaxBlocks

(* orphansByPreviousOutpoint indexes exactly the inputs of the orphans, so *)
(* removeOrphan never meets an input that is not in the index, and no two  *)
(* orphans spend the same output; and there are more orphans than the      *)
(* maximum only if all of them are high-priority.                          *)
OrphanIndexExact ==
  /\ ~mp.failed
  /\ \A o \in Outpoints, t \in Transactions :
       mp.byPrevious[o] = t <=> (t \in mp.orphans /\ o \in Inputs[t])
  /\ Cardinality(mp.orphans) > MaximumOrphanTransactionCount => mp.orphans = mp.orphanHigh

(* A transaction waits only for parents that are in the pool, and each of  *)
(* them lists it as chained: when the parent leaves, the transaction       *)
(* leaves too or stops waiting, so none is kept out of templates by a      *)
(* parent that is gone.                                                    *)
WaitsOnlyForPool ==
  \A t \in mp.all, p \in Transactions :
    p \in mp.parents[t] => p \in mp.all /\ t \in ToSet(mp.chained[p])

(* The slice ordered by fee rate is sorted, and holds every transaction of *)
(* the pool, so limitTransactionCount finds a pointer at every index below *)
(* the pool's size.                                                        *)
FeeRateOrderComplete ==
  /\ \A i \in 1 .. Len(mp.order) - 1 : NotBefore(mp.order[i + 1], mp.order[i].id)
  /\ mp.all \subseteq {mp.order[i].id : i \in DOMAIN mp.order}

(* The indices of the two pools agree with the pools.                      *)
IndicesExact == OrphanIndexExact /\ FeeRateOrderComplete

-----------------------------------------------------------------------------
(* No two transactions of the pool spend the same output.                  *)
NoDoubleSpendsInPool ==
  \A t, u \in mp.all : t # u => Inputs[t] \cap Inputs[u] = {}
=============================================================================
