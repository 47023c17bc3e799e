--------------------------- MODULE HeaderContext ---------------------------
(***************************************************************************)
(* What a header must say of its past                                      *)
(* (domain/consensus/processes: dagtraversalmanager/window.go,             *)
(* pastmediantimemanager, difficultymanager, mergedepthmanager,            *)
(* blockparentbuilder, coinbasemanager, and block_header_in_context.go).   *)
(* A window of the greatest blocks of the past is kept as a heap that      *)
(* grows along the selected chain; the median time, the difficulty and the *)
(* DAA score are read from it.  The module grows a DAG of valid headers    *)
(* with module Ghostdag and keeps with each what it was given.             *)
(***************************************************************************)
EXTENDS Ghostdag, Integers, FiniteSetsExt

CONSTANTS
  Time,                            \* [Blocks -> Nat]: the times that miners write
  Level,                           \* [Blocks -> 0..maxBlockLevel]: how far the hash is below the target
  Fees,                            \* [Blocks -> Nat]: fees accepted from a block
  maxBlockLevel,
  VirtualGenesisHash,              \* stands for a root below the pruning point
  difficultyAdjustmentWindowSize,
  timestampDeviationTolerance,
  targetTimePerBlock,
  powMax,                          \* the easiest target
  genesisBits,
  mergeSetSizeLimit,
  mergeDepth,
  subsidyGenesisReward,
  preDeflationaryPhaseBaseSubsidy,
  deflationaryPhaseDaaScore,
  secondsPerMonth,
  subsidyByDeflationaryMonthTable  \* a sequence that ends in 0

VARIABLE headers   \* [the blocks of the DAG -> what their headers and stores say]

headerVars == <<ghostdagVars, headers>>

-----------------------------------------------------------------------------
(* dagtraversalmanager: a heap of at most size blocks, as the sequence of  *)
(* its blocks in some order.                                               *)
MinOf(d, heap) == CHOOSE b \in ToSet(heap): \A x \in ToSet(heap) \ {b}: Less(d, b, x)

(* A full heap gives up its least block for a greater one.                 *)
tryPush(d, size, heap, b) ==
  CASE Len(heap) < size -> [heap |-> Append(heap, b), added |-> TRUE]
    [] Len(heap) >= size /\ Less(d, b, MinOf(d, heap)) -> [heap |-> heap, added |-> FALSE]
    [] OTHER -> [heap |-> Append(RemoveFirst(heap, MinOf(d, heap)), b), added |-> TRUE]

(* The blocks of s from the last one on, until one is refused.             *)
tryPushBackwards(d, size, heap, s) ==
  FoldRight(LAMBDA b, acc: IF acc.added THEN tryPush(d, size, acc.heap, b) ELSE acc, s,
            [heap |-> heap, added |-> TRUE]).heap

(* The merge set of the block that has the data g: none of it when the     *)
(* selected parent, the greatest of it, is refused.                        *)
tryPushMergeSet(d, size, heap, g) ==
  LET first == tryPush(d, size, heap, g.selectedParent)
  IN [done |-> ~first.added,
      heap |-> IF ~first.added THEN heap
               ELSE tryPushBackwards(d, size, tryPushBackwards(d, size, first.heap, Tail(g.blues)), g.reds)]

(* The window of a block whose selected parent's is cached ...             *)
WindowFromCache(d, size, g, cached) ==
  IF g.selectedParent = Genesis THEN cached ELSE tryPushMergeSet(d, size, cached, g).heap

(* ... and of one where it is not: down the selected chain until a         *)
(* selected parent is refused, or is genesis.                              *)
WindowByWalk(d, size, g) ==
  LET chain == SelectedChain(d, g.selectedParent)
      step(acc, h) == IF acc.done \/ h.selectedParent \in {Genesis, NoBlock} THEN [acc EXCEPT !.done = TRUE]
                      ELSE tryPushMergeSet(d, size, acc.heap, h)
  IN FoldLeft(step, [heap |-> <<>>, done |-> FALSE], <<g>> \o [i \in DOMAIN chain |-> d[chain[i]]]).heap

BlockWindow(d, g, size) == IF g.selectedParent = NoBlock \/ size = 0 THEN <<>> ELSE WindowByWalk(d, size, g)

-----------------------------------------------------------------------------
(* pastmediantimemanager                                                   *)
medianTimestamp(hs, window) ==
  LET times == SortSeq([i \in DOMAIN window |-> hs[window[i]].time], LAMBDA a, b: a < b)
  IN times[Len(times) \div 2 + 1]

PastMedianTime(d, hs, g) ==
  LET window == BlockWindow(d, g, 2 * timestampDeviationTolerance - 1)
  IN IF window = <<>> THEN hs[Genesis].time ELSE medianTimestamp(hs, window)

-----------------------------------------------------------------------------
(* util/difficulty: a target as three bytes and their exponent.            *)
BytesOf(n) == CASE n = 0 -> 0 [] n \in 1..255 -> 1 [] n \in 256..65535 -> 2 [] n \in 65536..16777215 -> 3 [] OTHER -> 4
BigToCompact(n) ==
  LET exponent == BytesOf(n)
      mantissa == IF exponent <= 3 THEN n * 256 ^ (3 - exponent) ELSE n \div 256 ^ (exponent - 3)
  IN CASE n = 0 -> [exponent |-> 0, mantissa |-> 0]
       [] n # 0 /\ mantissa >= 8388608 -> [exponent |-> exponent + 1, mantissa |-> mantissa \div 256]
       [] OTHER -> [exponent |-> exponent, mantissa |-> mantissa]
CompactToBig(c) ==
  IF c.exponent <= 3 THEN c.mantissa \div 256 ^ (3 - c.exponent) ELSE c.mantissa * 256 ^ (c.exponent - 3)

(* Mutant: of equal times the one that the heap holds first counts. *)
minIndexAnyTie(d, hs, window) ==
  FoldLeft(LAMBDA m, i: IF hs[window[i]].time < hs[window[m]].time THEN i ELSE m, 1, [i \in DOMAIN window |-> i])

(* difficultymanager: the earliest block of the window, of equal times the *)
(* least block.                                                            *)
minIndex(d, hs, window) ==
  FoldLeft(LAMBDA m, i: IF \/ hs[window[i]].time < hs[window[m]].time
                           \/ hs[window[i]].time = hs[window[m]].time /\ Less(d, window[i], window[m])
                        THEN i ELSE m, 1, [i \in DOMAIN window |-> i])

TimeSpan(hs, window) ==
  LET times == {hs[window[i]].time: i \in DOMAIN window} IN Max({Max(times) - Min(times), 1})

averageTarget(hs, window) ==
  FoldLeft(LAMBDA sum, b: sum + CompactToBig(hs[b].bits), 0, window) \div Len(window)

(* What is left when it goes, stretched by the time that the window took.  *)
requiredDifficultyFromTargetsWindow(d, hs, window) ==
  IF Len(window) < 2 \/ Len(window) < difficultyAdjustmentWindowSize THEN genesisBits
  ELSE LET rest == RemoveAt(window, minIndex(d, hs, window))
           target == ((averageTarget(hs, rest) * TimeSpan(hs, window)) \div targetTimePerBlock) \div Len(rest)
       IN BigToCompact(Min({target, powMax}))

(* The blocks of the merge set that are in the window are those that the   *)
(* block adds to the DAA score.                                            *)
calculateDaaScoreAndAddedBlocks(hs, g, window) ==
  LET added == SelectSeq(window, LAMBDA b: b \in ToSet(g.blues) \cup ToSet(g.reds))
  IN [added |-> ToSet(added), daaScore |-> hs[g.selectedParent].daaScore + Len(added)]

-----------------------------------------------------------------------------
(* mergedepthmanager: the highest block of the selected chain that is more *)
(* than mergeDepth below the block, found by climbing from the root of the *)
(* selected parent; a node that has nothing below its pruning point climbs *)
(* from there, and close to it has no root.                                *)
calculateMergeDepthRoot(d, root, g, pruningPoint) ==
  LET chain == ToSet(SelectedChain(d, g.selectedParent))
      required == g.blueScore - mergeDepth
      start == IF root[g.selectedParent] = VirtualGenesisHash THEN pruningPoint ELSE root[g.selectedParent]
      climbed == {b \in chain: d[b].blueScore > d[start].blueScore /\ d[b].blueScore < required}
  IN CASE g.blueScore < mergeDepth -> Genesis
       [] g.blueScore >= mergeDepth /\ (\/ g.blueScore < d[pruningPoint].blueScore + mergeDepth
                                        \/ pruningPoint \notin chain) -> VirtualGenesisHash
       [] OTHER -> IF g.selectedParent = Genesis THEN Genesis
                   ELSE IF climbed = {} THEN start
                   ELSE CHOOSE b \in climbed: \A x \in climbed: d[x].blueScore <= d[b].blueScore

NonBoundedMergeDepthViolatingBlues(d, g, root) == {b \in ToSet(g.blues): root \in ToSet(SelectedChain(d, b))}

(* A red block is above the root, or a blue that has the root on its       *)
(* selected chain has merged it before.  Every block is above the virtual  *)
(* genesis.                                                                *)
CheckBoundedMergeDepth(d, past, g, root) ==
  root = VirtualGenesisHash \/
    \A red \in ToSet(g.reds):
      root \in past[red] \/ \E blue \in NonBoundedMergeDepthViolatingBlues(d, g, root): red \in past[blue]

-----------------------------------------------------------------------------
(* parentsmanager: the parents that a header has at a level, genesis where *)
(* it lists none.                                                          *)
ParentsAtLevel(hs, b, level) ==
  IF hs[b].levels # <<>> /\ (Len(hs[b].levels) <= level \/ hs[b].levels[level + 1] = {}) THEN {Genesis}
  ELSE IF hs[b].levels = <<>> THEN {} ELSE hs[b].levels[level + 1]

(* blockparentbuilder: a candidate at a level stands with the blocks that  *)
(* are asked in its place.  A node's DAG begins at the children of its     *)
(* virtual genesis.                                                        *)
addCandidate(hs, node, level, isEmptyLevel, candidates, parent) ==
  LET known == parent \in DOMAIN node.past /\ node.past[parent] \cap node.virtualGenesisChildren # {}
      references == IF known THEN {parent}
                    ELSE {c \in node.virtualGenesisChildren: parent \in ParentsAtLevel(hs, c, level)}
      toRemove == {c \in DOMAIN candidates: candidates[c] \cap node.past[parent] # {}}
      kept == [c \in DOMAIN candidates \ toRemove |-> candidates[c]]
      isAncestorOfAnyCandidate == \E c \in DOMAIN kept: \E r \in kept[c]: parent \in node.past[r]
  IN CASE isEmptyLevel -> (parent :> references) @@ candidates
       [] ~isEmptyLevel /\ ~known -> candidates
       [] OTHER -> IF isAncestorOfAnyCandidate /\ toRemove = {} THEN kept ELSE (parent :> references) @@ kept

candidatesAtLevel(hs, node, directs, level) ==
  LET occupying == {b \in ToSet(directs): Level[b] >= level}
      step(candidates, i) ==
        FoldLeft(LAMBDA c, parent: addCandidate(hs, node, level, i = 1 /\ occupying = {}, c, parent),
                 candidates, SetToSeq(ParentsAtLevel(hs, directs[i], level)))
  IN DOMAIN FoldLeft(step, [b \in occupying |-> {b}], [i \in DOMAIN directs |-> i])

(* The first direct parent in the future of the pruning point comes first; *)
(* from the first level on that only genesis occupies none is listed.      *)
BuildParents(hs, node, directParents) ==
  LET i == SelectInSeq(directParents, LAMBDA b: node.pruningPoint \in node.past[b])
      directs == [directParents EXCEPT ![1] = directParents[i], ![i] = directParents[1]]
      at == [level \in 0..maxBlockLevel |-> candidatesAtLevel(hs, node, directs, level)]
      end == Min({level \in 1..maxBlockLevel: at[level] = {Genesis}} \cup {maxBlockLevel + 1})
  IN [l \in 1..end |-> at[l - 1]]

(* A node that has every block since genesis.                              *)
FullNode(ps) == [past |-> PastOf(ps), pruningPoint |-> Genesis, virtualGenesisChildren |-> {Genesis}]

-----------------------------------------------------------------------------
(* coinbasemanager                                                         *)
CalcBlockSubsidy(daaScore) ==
  IF daaScore < deflationaryPhaseDaaScore THEN preDeflationaryPhaseBaseSubsidy
  ELSE subsidyByDeflationaryMonthTable[
         Min({(daaScore - deflationaryPhaseDaaScore) \div secondsPerMonth, Len(subsidyByDeflationaryMonthTable) - 1}) + 1]

(* The subsidy is the one that the merged block itself claimed.            *)
calcMergedBlockReward(hs, added, b) == IF b \in added THEN hs[b].subsidy + Fees[b] ELSE 0

(* The rewards of the red blocks go to the one that merges them.           *)
coinbaseOutputForRewardFromRedBlocks(hs, g, added, miner) ==
  LET total == FoldLeft(LAMBDA sum, b: sum + calcMergedBlockReward(hs, added, b), 0, g.reds)
  IN IF total = 0 THEN <<>> ELSE <<[to |-> miner, value |-> total]>>

ExpectedCoinbaseOutputs(hs, g, added, miner) ==
  LET blue == [i \in DOMAIN g.blues |-> [to |-> g.blues[i], value |-> calcMergedBlockReward(hs, added, g.blues[i])]]
  IN SelectSeq(blue, LAMBDA o: o.value # 0) \o coinbaseOutputForRewardFromRedBlocks(hs, g, added, miner)

-----------------------------------------------------------------------------
(* The header of a block over the given parents.                           *)
Roots(hs) == [b \in DOMAIN hs |-> hs[b].mergeDepthRoot]

HeaderOf(d, hs, ps, b, P, g) ==
  LET window == BlockWindow(d, g, difficultyAdjustmentWindowSize)
      daa == calculateDaaScoreAndAddedBlocks(hs, g, window)
  IN [time |-> Time[b], bits |-> requiredDifficultyFromTargetsWindow(d, hs, window),
      daaScore |-> daa.daaScore, added |-> daa.added, subsidy |-> CalcBlockSubsidy(daa.daaScore),
      coinbase |-> ExpectedCoinbaseOutputs(hs, g, daa.added, b),
      levels |-> BuildParents(hs, FullNode(ps), SetToSeq(P)),
      mergeDepthRoot |-> calculateMergeDepthRoot(d, Roots(hs), g, Genesis)]

GenesisHeader ==
  [time |-> Time[Genesis], bits |-> genesisBits, daaScore |-> 0, added |-> {}, subsidy |-> subsidyGenesisReward,
   coinbase |-> <<>>, levels |-> <<>>, mergeDepthRoot |-> Genesis]

validateMedianTime(d, hs, g, h) == h.time > PastMedianTime(d, hs, g)
checkMergeSizeLimit(g) == Len(g.blues) + Len(g.reds) <= mergeSetSizeLimit

(* The rules of a header whose fields are the expected ones.               *)
ValidateHeaderInContext(d, past, hs, g, h) ==
  /\ validateMedianTime(d, hs, g, h)
  /\ checkMergeSizeLimit(g)
  /\ CheckBoundedMergeDepth(d, past, g, h.mergeDepthRoot)

InitH == InitG /\ headers = Genesis :> GenesisHeader

InsertHeader(b, P) ==
  /\ AddBlock(b, P)
  /\ \E h \in {HeaderOf(data, headers, parents, b, P, data'[b])}:
       /\ ValidateHeaderInContext(data, PastOf(parents), headers, data'[b], h)
       /\ headers' = headers @@ (b :> h)

NextH == \E b \in Blocks \ DOMAIN parents: \E P \in SUBSET DOMAIN parents: InsertHeader(b, P)
SpecH == InitH /\ [][NextH]_headerVars

-----------------------------------------------------------------------------
(* The block that was added last; the ones before were checked when they   *)
(* were.                                                                   *)
Newest == Max(DOMAIN headers)

(* The window of a block is the greatest blocks of its past but genesis,   *)
(* each once, whether it is found by walking down the chain or from the    *)
(* cached window of the selected parent.                                   *)
GreatestOf(d, S, n) == {b \in S: Cardinality({x \in S: Less(d, b, x)}) < n}
IsWindow(d, past, b, size, window) ==
  /\ IsInjective(window)
  /\ ToSet(window) = GreatestOf(d, past[b] \ {b, Genesis}, size)

WindowsExact ==
  \A size \in {difficultyAdjustmentWindowSize, 2 * timestampDeviationTolerance - 1}:
    LET g == data[Newest]
        past == PastOf(parents)
    IN Newest # Genesis =>
         /\ IsWindow(data, past, Newest, size, BlockWindow(data, g, size))
         /\ IsWindow(data, past, Newest, size,
                     WindowFromCache(data, size, g, BlockWindow(data, data[g.selectedParent], size)))

(* The difficulty does not depend on the order in which a heap happens to  *)
(* hold the window, which a cached window and a walked one do not share;   *)
(* it is never easier than allowed nor impossible, and its bits are the    *)
(* ones of the target that they stand for.                                 *)
DifficultyAgreed ==
  LET window == BlockWindow(data, data[Newest], difficultyAdjustmentWindowSize)
      bits == headers[Newest].bits
  IN /\ \A w \in SetToSeqs(ToSet(window)): requiredDifficultyFromTargetsWindow(data, headers, w) = bits \/ Newest = Genesis
     /\ CompactToBig(bits) \in 1..powMax
     /\ BigToCompact(CompactToBig(bits)) = bits

(* The DAA score counts the blocks that the chain has paid for: each block *)
(* of the past is paid for at most once, by one block of the selected      *)
(* chain, and all that was ever paid is what the counted blocks claimed.   *)
Paid(b) == FoldLeft(LAMBDA sum, o: sum + o.value, 0, headers[b].coinbase)
IssuanceMatchesDaaScore ==
  LET chain == ToSet(SelectedChain(data, Newest))
      counted == UNION {headers[b].added: b \in chain}
  IN /\ headers[Newest].daaScore = Cardinality(counted)
     /\ MapThenSumSet(Paid, chain) = MapThenSumSet(LAMBDA b: headers[b].subsidy + Fees[b], counted)

(* The parents of a header at a level are the maximal blocks of that level *)
(* in its past, in whatever order its direct parents are listed.           *)
MaximalAt(past, P, level) ==
  LET S == {b \in UNION {past[p]: p \in P}: Level[b] >= level}
  IN {b \in S: \A x \in S \ {b}: b \notin past[x]}
LevelParentsExact ==
  LET past == PastOf(parents)
      P == parents[Newest]
  IN Newest # Genesis =>
       /\ \A level \in 0..maxBlockLevel: ParentsAtLevel(headers, Newest, level) = MaximalAt(past, P, level)
       /\ \A order \in SetToSeqs(P): BuildParents(headers, FullNode(parents), order) = headers[Newest].levels

(* A node that was synced from a pruning point and a proof of the chain    *)
(* down to a root has the blocks above the root and those beside the       *)
(* pruning point.  It lists the same parents, if what it lacks is below    *)
(* all that it has.                                                        *)
Synced(past, root, pruningPoint) == {b \in DOMAIN past: root \in past[b] \/ InAnticone(past, b, pruningPoint)}
SyncedNode(ps, past, root, pruningPoint) ==
  LET kept == Synced(past, root, pruningPoint)
  IN [past |-> [b \in kept |-> past[b] \cap kept], pruningPoint |-> pruningPoint,
      virtualGenesisChildren |-> {b \in kept: ps[b] \cap kept = {}}]
DeepEnough(past, kept) == \A b \in kept: \A x \in DOMAIN past \ kept: x \in past[b]
LevelParentsAgreed ==
  LET past == PastOf(parents)
      P == parents[Newest]
  IN Newest # Genesis =>
       \A pp \in ToSet(SelectedChain(data, data[Newest].selectedParent)): \A root \in ToSet(SelectedChain(data, pp)):
         LET kept == Synced(past, root, pp)
         IN P \subseteq kept /\ (\A p \in P: p \notin past[pp] \/ p = pp) /\ DeepEnough(past, kept) =>
              \A order \in SetToSeqs(P):
                BuildParents(headers, SyncedNode(parents, past, root, pp), order) = headers[Newest].levels

(* The root of a block is the highest block of its chain that is deeper    *)
(* than the merge depth, and genesis if none is.                           *)
MergeDepthRootExact ==
  LET g == data[Newest]
      deep == {b \in ToSet(SelectedChain(data, Newest)): data[b].blueScore < g.blueScore - mergeDepth} \cup {Genesis}
  IN headers[Newest].mergeDepthRoot \in deep
       /\ \A b \in deep: data[b].blueScore <= data[headers[Newest].mergeDepthRoot].blueScore

(* The root that a node finds which was synced from the pruning point: the *)
(* roots of the blocks above it are computed from there up.                *)
RootSincePruningPoint(pruningPoint) ==
  LET above == SelectSeq(Reverse(SelectedChain(data, Newest)),
                         LAMBDA b: data[b].blueScore > data[pruningPoint].blueScore)
  IN FoldLeft(LAMBDA roots, b: (b :> calculateMergeDepthRoot(data, roots, data[b], pruningPoint)) @@ roots,
              pruningPoint :> VirtualGenesisHash, above)[Newest]
PruningPoints == ToSet(SelectedChain(data, Newest)) \ {Newest, Genesis}

(* It is the same root, or none near the pruning point; the one block of   *)
(* the chain that is as far above the pruning point as the merge depth is  *)
(* left out (see MergeDepthAgreed).                                        *)
MergeDepthRootsAgree ==
  \A pp \in PruningPoints:
    \/ RootSincePruningPoint(pp) \in {VirtualGenesisHash, headers[Newest].mergeDepthRoot}
    \/ data[Newest].blueScore = data[pp].blueScore + mergeDepth

(* What a header says of its past is a function of its past, the same for  *)
(* a node whatever it has cached and wherever it began.                    *)
HeadersCorrect ==
  /\ WindowsExact /\ DifficultyAgreed /\ IssuanceMatchesDaaScore
  /\ LevelParentsExact /\ LevelParentsAgreed /\ MergeDepthRootExact /\ MergeDepthRootsAgree

(* A header that a node with the whole DAG finds valid is valid for a node *)
(* synced from a pruning point of its chain, whose root, as the log of     *)
(* calculateMergeDepthRoot says, "is the one having the highest blue score *)
(* lower then" the required one.                                           *)
MergeDepthAgreed ==
  \A pp \in PruningPoints:
    CheckBoundedMergeDepth(data, PastOf(parents), data[Newest], RootSincePruningPoint(pp))
=============================================================================
