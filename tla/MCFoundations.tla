---------------------------- MODULE MCFoundations ----------------------------
(* What the rest of the consensus stands on, in four parts checked side    *)
(* by side: the DAG with its colouring and its reachability tree, a DAG of *)
(* valid headers, the algebra of UTXO diffs, and the stores.  A behaviour  *)
(* is one of one part, the others staying as they began.                   *)
EXTENDS PastUtxo, Reachability, HeaderContext, Stores

VARIABLE part

(* Every DAG of seven blocks: hashes in an order other than the blocks'    *)
(* own, one block of more work than the others, and intervals of five bits *)
(* so that every reallocation path runs.                                   *)
MCHash == [b \in Blocks |-> (b * 3) % 7]
MCWork == [b \in Blocks |-> IF b = 1 THEN 3 ELSE 1]

(* Headers on such DAGs: two blocks of the same time, all levels, and a    *)
(* subsidy that falls to nothing.                                          *)
MCTime == [b \in Blocks |-> <<0, 2, 3, 4, 4, 5, 6>>[b + 1]]
MCLevel == [b \in Blocks |-> <<2, 0, 1, 2, 1, 0, 1>>[b + 1]]
MCFees == [b \in Blocks |-> b % 2]
MCSubsidies == <<4, 2, 0>>
MCGenesisBits == BigToCompact(powMax)

(* One store of each kind by itself, with two areas or with two values;    *)
(* and two stores that one area stages for, so that a commit can fail      *)
(* between their shards.                                                   *)
Scope(stores, areas, keys, values) == [stores |-> stores, areas |-> areas, keys |-> keys, values |-> values]
MCScopes ==
  {Scope({"block"}, Areas, Keys, {v}): v \in Values}
    \cup {Scope({s}, {a}, Keys, Values): a \in Areas,
            s \in {"block", "relations", "reachability", "daaWindow", "heapSlices"}}
    \cup {Scope({"virtualUTXOs"}, {a}, Keys, {v}): a \in Areas, v \in Values}
    \cup {Scope(stores, {a}, {k}, {v}): a \in Areas, k \in Keys, v \in Values, stores \in
            {{"block", "status"}, {"utxoDiff", "utxoDiffChild"}, {"daaScore", "daaAddedBlocks"}}}

Symmetry == Permutations(Outpoints) \cup Permutations(Slots) \cup Permutations(Keys) \cup Permutations(Values) \cup Permutations(Areas)

dagVars == <<rvars, headers>>
diffVars == vars
foundationVars == <<part, dagVars, diffVars, storeVars>>

InitFoundations ==
  /\ part \in {"dag", "headers", "diffs", "stores"}
  /\ InitR /\ headers = Genesis :> GenesisHeader
  /\ Init /\ (part # "diffs" => base = {})
  /\ InitStores /\ (part # "stores" => scope.areas = Areas)

InDag == part = "dag" /\ UNCHANGED <<part, headers, diffVars, storeVars>>
InHeaders == part = "headers" /\ UNCHANGED <<part, tree, selectedTip, failed, diffVars, storeVars>>
InDiffs == part = "diffs" /\ UNCHANGED <<part, dagVars, storeVars>>
InStores == part = "stores" /\ UNCHANGED <<part, dagVars, diffVars>>

NextFoundations ==
  \/ InDag /\ NextR
  \/ InHeaders /\ NextH
  \/ InDiffs /\ Next
  \/ InStores /\ NextStores

SpecFoundations == InitFoundations /\ [][NextFoundations]_foundationVars
SpecHeaders == InitFoundations /\ part = "headers" /\ [][NextFoundations]_foundationVars

(* The diffs, the caches, the areas and the buckets have their shapes.     *)
FoundationsTypeOK == TypeOK /\ StoresTypeOK

(* GHOSTDAG colours every DAG as its definition says, with exact anticone  *)
(* sizes in its data; the intervals stay nested and disjoint through every *)
(* reindexing, and the tree with its future covering sets answers every    *)
(* ancestry query.                                                         *)
DagCorrect ==
  /\ ColouringExact /\ AnticoneSizesExact
  /\ part = "dag" => IntervalsValid /\ AncestryExact
=============================================================================
