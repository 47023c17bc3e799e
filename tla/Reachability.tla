---------------------------- MODULE Reachability ----------------------------
(***************************************************************************)
(* The reachability tree (domain/consensus/processes/reachabilitymanager): *)
(* ancestry queries on the DAG are answered from an interval per block and *)
(* a future covering set per block.  A new block takes half of the space   *)
(* that is left in its selected parent's interval; when none is left the   *)
(* intervals around it are reallocated, and when the headers selected tip  *)
(* advances the space is concentrated towards a new reindex root.          *)
(*                                                                         *)
(* The module grows the DAG with module Ghostdag and keeps the tree beside *)
(* it, as the validation of a header does.  Intervals are pairs of         *)
(* unsigned words of Bits bits, and all arithmetic on them wraps.          *)
(***************************************************************************)
EXTENDS Ghostdag

CONSTANTS
  VirtualGenesis,  \* the root of the tree
  Bits,            \* the width of an interval's bounds
  reindexSlack,
  reindexWindow

ASSUME ReachabilityAssumption ==
  /\ VirtualGenesis \in Nat \ Blocks
  /\ Bits \in Nat \ {0} /\ reindexSlack \in Nat /\ reindexWindow \in Nat

VARIABLES
  tree,         \* [parent, children, interval, covering, root, err]
  selectedTip,  \* the headers selected tip
  failed        \* a header was refused with an error of the tree

rvars == <<ghostdagVars, tree, selectedTip, failed>>

-----------------------------------------------------------------------------
(* interval.go                                                             *)
Word == 2 ^ Bits
Interval(s, e) == <<s % Word, e % Word>>
intervalSize(i) == (i[2] - i[1] + 1) % Word
intervalContains(i, j) == i[1] <= j[1] /\ j[2] <= i[2]
intervalSplitInHalf(i) == Interval(i[1], i[1] + (intervalSize(i) + 1) \div 2 - 1)

SumOf(sizes) == FoldLeft(LAMBDA a, n : a + n, 0, sizes)

(* Consecutive parts of the given sizes.                                   *)
intervalSplitExact(i, sizes) ==
  [n \in DOMAIN sizes |->
     Interval(i[1] + SumOf(SubSeq(sizes, 1, n - 1)), i[1] + SumOf(SubSeq(sizes, 1, n)) - 1)]

(* The weights of the parts: fraction n is weight n over their sum.        *)
exponentialFractions(sizes) == [n \in DOMAIN sizes |-> 2 ^ sizes[n]]

(* totalBias * weight / sum, rounded half up, no more than what is left;   *)
(* the last part takes the rest.                                           *)
biasedSizes(sizes, totalBias) ==
  LET w == exponentialFractions(sizes)
      sum == SumOf(w)
      bias(n) == (2 * totalBias * w[n] + sum) \div (2 * sum)
      step(acc, n) ==
        LET b == IF n = Len(sizes) \/ bias(n) > acc.left THEN acc.left ELSE bias(n)
        IN [sizes |-> Append(acc.sizes, sizes[n] + b), left |-> acc.left - b]
  IN FoldLeft(step, [sizes |-> <<>>, left |-> totalBias], [n \in DOMAIN sizes |-> n]).sizes

intervalSplitWithExponentialBias(i, sizes) ==
  intervalSplitExact(i, biasedSizes(sizes, intervalSize(i) - SumOf(sizes)))

-----------------------------------------------------------------------------
(* tree.go: the space a node can give to its children is its interval      *)
(* without the last point.                                                 *)
stageInterval(t, n, i) == [t EXCEPT !.interval[n] = i]

intervalRangeForChildAllocation(t, n) == Interval(t.interval[n][1], t.interval[n][2] - 1)

remainingIntervalBefore(t, n) ==
  LET range == intervalRangeForChildAllocation(t, n)
  IN IF t.children[n] = <<>> THEN range
     ELSE Interval(range[1], t.interval[Head(t.children[n])][1] - 1)

remainingIntervalAfter(t, n) ==
  LET range == intervalRangeForChildAllocation(t, n)
  IN IF t.children[n] = <<>> THEN range
     ELSE Interval(t.interval[Last(t.children[n])][2] + 1, range[2])

IsReachabilityTreeAncestorOf(t, a, b) == intervalContains(t.interval[a], t.interval[b])
isStrictAncestorOf(t, a, b) == a # b /\ IsReachabilityTreeAncestorOf(t, a, b)

(* A binary search for the last node of the list that starts at or before  *)
(* the end of node's interval; 0 when there is none.                       *)
findAncestorIndexOfNode(t, list, node) ==
  LET end == t.interval[node][2]
      search[range \in Nat \X Nat] ==
        IF range[1] >= range[2] THEN range[1]
        ELSE LET middle == (range[1] + range[2]) \div 2
             IN IF end < t.interval[list[middle + 1]][1] THEN search[<<range[1], middle>>]
                ELSE search[<<middle + 1, range[2]>>]
  IN search[<<0, Len(list)>>]

NoNode == NoBlock

FindNextAncestor(t, descendant, ancestor) ==
  LET i == findAncestorIndexOfNode(t, t.children[ancestor], descendant)
  IN IF ancestor = descendant \/ i = 0 THEN NoNode ELSE t.children[ancestor][i]

(* The chain from the child of ancestor towards descendant, up to it.      *)
ChainTo(t, ancestor, descendant) ==
  LET chain[n \in DOMAIN t.children \cup {NoNode}] ==
        IF n = descendant \/ n = NoNode THEN <<n>> ELSE <<n>> \o chain[FindNextAncestor(t, descendant, n)]
  IN chain[FindNextAncestor(t, descendant, ancestor)]

findCommonAncestor(t, node, root) ==
  LET up[n \in DOMAIN t.children] == IF IsReachabilityTreeAncestorOf(t, n, root) THEN n ELSE up[t.parent[n]]
  IN up[node]

splitChildren(t, n, pivot) ==
  LET c == t.children[n]
      i == SelectInSeq(c, LAMBDA x : x = pivot)
  IN [before |-> SubSeq(c, 1, i - 1), after |-> SubSeq(c, i + 1, Len(c))]

-----------------------------------------------------------------------------
(* reindex_context.go.  The tree's shape does not change while intervals   *)
(* are reallocated, so the cached subtree sizes are the subtrees' sizes.   *)
BreadthFirst(t, n) ==
  LET level[k \in Nat] ==
        IF k = 0 THEN <<n>> ELSE LET up == level[k - 1] IN FlattenSeq([i \in DOMAIN up |-> t.children[up[i]]])
      from[k \in Nat] == IF level[k] = <<>> THEN <<>> ELSE level[k] \o from[k + 1]
  IN from[0]

countSubtrees(t, n) == Len(BreadthFirst(t, n))
countChildrenSubtrees(t, nodes) == [i \in DOMAIN nodes |-> countSubtrees(t, nodes[i])]

TreeFails(t) == [t EXCEPT !.err = TRUE]

stageIntervals(t, nodes, intervals) ==
  FoldLeft(LAMBDA acc, i : stageInterval(acc, nodes[i], intervals[i]), t, [i \in DOMAIN nodes |-> i])

(* Every node of the subtree, from the top, gives its space to its         *)
(* children by the sizes of their subtrees.                                *)
allocateToChildren(t, nodes, range, sizes) ==
  IF t.err THEN t
  ELSE IF SumOf(sizes) > intervalSize(range) THEN TreeFails(t)
  ELSE stageIntervals(t, nodes, intervalSplitWithExponentialBias(range, sizes))

propagateInterval(t, n) ==
  FoldLeft(LAMBDA acc, x : allocateToChildren(acc, t.children[x], intervalRangeForChildAllocation(acc, x),
                                              countChildrenSubtrees(t, t.children[x])),
           t, BreadthFirst(t, n))

UpTo(nodes, last) ==
  LET i == SelectInSeq(nodes, LAMBDA x : x = last) IN IF i = 0 THEN nodes ELSE SubSeq(nodes, 1, i)

(* Siblings between the chain and the allocation node are shifted; the     *)
(* allocation node itself grows by the offset.                             *)
offsetSiblingsBefore(t, allocationNode, current, offset) ==
  LET moved(i, x) == Interval(i[1] + (IF x = allocationNode THEN 0 ELSE offset), i[2] + offset)
  IN FoldLeft(LAMBDA acc, x : propagateInterval(stageInterval(acc, x, moved(acc.interval[x], x)), x), t,
              UpTo(Reverse(splitChildren(t, t.parent[current], current).before), allocationNode))

offsetSiblingsAfter(t, allocationNode, current, offset) ==
  LET moved(i, x) == Interval(i[1] - offset, i[2] - (IF x = allocationNode THEN 0 ELSE offset))
  IN FoldLeft(LAMBDA acc, x : propagateInterval(stageInterval(acc, x, moved(acc.interval[x], x)), x), t,
              UpTo(splitChildren(t, t.parent[current], current).after, allocationNode))

(* The first block of the chain, from the chosen child to the reindex      *)
(* root, at which the slacks passed on the way suffice; 0 if there is none *)
(* before the root.                                                        *)
StopAt(slacks, required) ==
  SelectInSeq([i \in DOMAIN slacks |-> SumOf(SubSeq(slacks, 1, i))], LAMBDA sum : sum >= required)

(* The offsets along the way: at the root (whose subtree is then           *)
(* reallocated) what the slacks do not cover and new slack for the chain;  *)
(* at the block where the walk stops just what is missing.                 *)
OffsetAtRoot(slacks, required) == required + reindexSlack * Len(slacks) - SumOf(slacks)
OffsetAtStop(slacks, stop, required) == slacks[stop] - (SumOf(SubSeq(slacks, 1, stop)) - required)

(* A block of the chain gives up offset at its start, and the siblings     *)
(* before it move.                                                         *)
moveStart(t, allocationNode, x, offset) ==
  LET shrunk == stageInterval(t, x, Interval(t.interval[x][1] + offset, t.interval[x][2]))
  IN offsetSiblingsBefore(IF x = t.root THEN propagateInterval(shrunk, x) ELSE shrunk, allocationNode, x, offset)

downBefore(t, allocationNode, chain, slack) ==
  FoldLeft(LAMBDA acc, x : moveStart(acc, allocationNode, x, intervalSize(remainingIntervalBefore(acc, x)) - slack),
           t, Reverse(chain))

walkBefore(t, allocationNode, required, chain, slacks, stop) ==
  IF stop = 0
  THEN downBefore(moveStart(t, allocationNode, t.root, OffsetAtRoot(slacks, required)), allocationNode, Front(chain),
                  reindexSlack)
  ELSE downBefore(moveStart(t, allocationNode, chain[stop], OffsetAtStop(slacks, stop, required)), allocationNode,
                  SubSeq(chain, 1, stop - 1), 0)

slacksBefore(t, chain) == [i \in 1 .. Len(chain) - 1 |-> intervalSize(remainingIntervalBefore(t, chain[i]))]

reclaimBefore(t, allocationNode, required, chain) ==
  walkBefore(t, allocationNode, required, chain, slacksBefore(t, chain), StopAt(slacksBefore(t, chain), required))

reclaimIntervalBefore(t, allocationNode, commonAncestor, required) ==
  reclaimBefore(t, allocationNode, required, ChainTo(t, commonAncestor, t.root))

(* The mirror image, on the side after the chain.                          *)
moveEnd(t, allocationNode, x, offset) ==
  LET shrunk == stageInterval(t, x, Interval(t.interval[x][1], t.interval[x][2] - offset))
  IN offsetSiblingsAfter(IF x = t.root THEN propagateInterval(shrunk, x) ELSE shrunk, allocationNode, x, offset)

downAfter(t, allocationNode, chain, slack) ==
  FoldLeft(LAMBDA acc, x : moveEnd(acc, allocationNode, x, intervalSize(remainingIntervalAfter(acc, x)) - slack),
           t, Reverse(chain))

walkAfter(t, allocationNode, required, chain, slacks, stop) ==
  IF stop = 0
  THEN downAfter(moveEnd(t, allocationNode, t.root, OffsetAtRoot(slacks, required)), allocationNode, Front(chain),
                 reindexSlack)
  ELSE downAfter(moveEnd(t, allocationNode, chain[stop], OffsetAtStop(slacks, stop, required)), allocationNode,
                 SubSeq(chain, 1, stop - 1), 0)

slacksAfter(t, chain) == [i \in 1 .. Len(chain) - 1 |-> intervalSize(remainingIntervalAfter(t, chain[i]))]

reclaimAfter(t, allocationNode, required, chain) ==
  walkAfter(t, allocationNode, required, chain, slacksAfter(t, chain), StopAt(slacksAfter(t, chain), required))

reclaimIntervalAfter(t, allocationNode, commonAncestor, required) ==
  reclaimAfter(t, allocationNode, required, ChainTo(t, commonAncestor, t.root))

reindexIntervalsEarlierThanRoot(t, allocationNode, commonAncestor, required) ==
  LET chosenChild == FindNextAncestor(t, t.root, commonAncestor)
  IN IF chosenChild = NoNode THEN TreeFails(t)
     ELSE IF t.interval[allocationNode][1] < t.interval[chosenChild][1]
     THEN reclaimIntervalBefore(t, allocationNode, commonAncestor, required)
     ELSE reclaimIntervalAfter(t, allocationNode, commonAncestor, required)

(* The first ancestor of the new child whose interval holds its subtree    *)
(* reallocates it; below the reindex root the slacks of the chain are used *)
(* instead.                                                                *)
reindexIntervals(t, newChild) ==
  LET from[current \in DOMAIN t.children] ==
        LET size == countSubtrees(t, current)
            parent == t.parent[current]
        IN IF intervalSize(t.interval[current]) >= size THEN propagateInterval(t, current)
           ELSE IF parent = NoNode \/ current = t.root THEN TreeFails(t)
           ELSE IF isStrictAncestorOf(t, parent, t.root)
           THEN reindexIntervalsEarlierThanRoot(t, current, parent, size)
           ELSE from[parent]
  IN from[newChild]

addChild(t, node, child) ==
  LET remaining == remainingIntervalAfter(t, node)
      allocated == IF intervalSize(remaining) = 0 THEN remaining ELSE intervalSplitInHalf(remaining)
      linked == [t EXCEPT !.parent = @ @@ (child :> node), !.interval = @ @@ (child :> allocated),
                          !.covering = @ @@ (child :> <<>>),
                          !.children = [@ EXCEPT ![node] = Append(@, child)] @@ (child :> <<>>)]
  IN IF intervalSize(remaining) = 0 THEN reindexIntervals(linked, child) ELSE linked

-----------------------------------------------------------------------------
(* Moving the reindex root.                                                *)
propagateChildrenIntervals(t, interval, nodes) ==
  FoldLeft(LAMBDA acc, x : propagateInterval(acc, x),
           stageIntervals(t, nodes, intervalSplitExact(interval, countChildrenSubtrees(t, nodes))), nodes)

tightenIntervalsBefore(t, node, siblings) ==
  LET start == t.interval[node][1] + reindexSlack
  IN propagateChildrenIntervals(t, Interval(start, start + SumOf(countChildrenSubtrees(t, siblings)) - 1), siblings)

tightenIntervalsAfter(t, node, siblings) ==
  LET end == t.interval[node][2] - reindexSlack - 1
  IN propagateChildrenIntervals(t, Interval(end + 1 - SumOf(countChildrenSubtrees(t, siblings)), end), siblings)

expandIntervalToChosen(t, node, chosenChild, sumBefore, sumAfter, isFinal) ==
  LET new == Interval(t.interval[node][1] + sumBefore + reindexSlack,
                      t.interval[node][2] - sumAfter - reindexSlack - 1)
      propagated ==
        IF isFinal /\ ~intervalContains(new, t.interval[chosenChild])
        THEN propagateInterval(stageInterval(t, chosenChild, Interval(new[1] + reindexSlack, new[2] - reindexSlack)),
                               chosenChild)
        ELSE t
  IN stageInterval(propagated, chosenChild, new)

concentrateInterval(t, node, chosenChild, isFinal) ==
  LET siblings == splitChildren(t, node, chosenChild)
  IN expandIntervalToChosen(
       tightenIntervalsAfter(tightenIntervalsBefore(t, node, siblings.before), node, siblings.after),
       node, chosenChild, SumOf(countChildrenSubtrees(t, siblings.before)),
       SumOf(countChildrenSubtrees(t, siblings.after)), isFinal)

BlueScore(d, n) == IF n = VirtualGenesis THEN 0 ELSE d[n].blueScore

(* The common ancestor of the current and the next reindex root, and the   *)
(* next one: the block of the tip's chain that is reindexWindow below it.  *)
findNextReindexRoot(t, d, tip) ==
  LET onChain == IsReachabilityTreeAncestorOf(t, t.root, tip)
      start == IF onChain THEN t.root ELSE findCommonAncestor(t, tip, t.root)
      advance[n \in DOMAIN t.children] ==
        LET chosenChild == FindNextAncestor(t, tip, n)
        IN IF chosenChild = NoNode THEN NoNode
           ELSE IF BlueScore(d, tip) < BlueScore(d, chosenChild) THEN NoNode
           ELSE IF BlueScore(d, tip) - BlueScore(d, chosenChild) < reindexWindow THEN n
           ELSE advance[chosenChild]
  IN IF ~onChain /\ BlueScore(d, tip) < BlueScore(d, t.root) + reindexSlack
     THEN [ancestor |-> t.root, root |-> t.root]
     ELSE [ancestor |-> start, root |-> advance[start]]

concentrateTowards(t, next) ==
  IF next.root = NoNode THEN TreeFails(t)
  ELSE IF next.root = t.root THEN t
  ELSE [FoldLeft(LAMBDA acc, x : concentrateInterval(acc, acc.parent[x], x, x = next.root), t,
                 IF next.root = next.ancestor THEN <<>> ELSE ChainTo(t, next.ancestor, next.root))
        EXCEPT !.root = next.root]

updateReindexRoot(t, d, tip) == concentrateTowards(t, findNextReindexRoot(t, d, tip))

updateReachabilityReindexRoot(t, d, oldTip, tip) ==
  IF t.err \/ tip = oldTip THEN t ELSE updateReindexRoot(t, d, tip)

-----------------------------------------------------------------------------
(* future_covering_set.go                                                  *)
insertToFutureCoveringSet(t, node, futureNode) ==
  [t EXCEPT !.covering[node] =
     LET i == findAncestorIndexOfNode(t, @, futureNode)
     IN IF i = 0 THEN <<futureNode>> \o @
        ELSE IF IsReachabilityTreeAncestorOf(t, @[i], futureNode) THEN @
        ELSE IF IsReachabilityTreeAncestorOf(t, futureNode, @[i]) THEN [@ EXCEPT ![i] = futureNode]
        ELSE InsertAt(@, i + 1, futureNode)]

futureCoveringSetHasAncestorOf(t, this, other) ==
  LET i == findAncestorIndexOfNode(t, t.covering[this], other)
  IN i # 0 /\ IsReachabilityTreeAncestorOf(t, t.covering[this][i], other)

IsDAGAncestorOf(t, a, b) == IsReachabilityTreeAncestorOf(t, a, b) \/ futureCoveringSetHasAncestorOf(t, a, b)

AddToTree(t, b, new) ==
  FoldLeft(LAMBDA acc, x : insertToFutureCoveringSet(acc, x, b), addChild(t, new.selectedParent, b),
           new.blues \o new.reds)

-----------------------------------------------------------------------------
InitTree ==
  addChild([parent |-> VirtualGenesis :> NoNode, children |-> VirtualGenesis :> <<>>,
            interval |-> VirtualGenesis :> Interval(1, Word - 2), covering |-> VirtualGenesis :> <<>>,
            root |-> VirtualGenesis, err |-> FALSE],
           VirtualGenesis, Genesis)

InitR ==
  /\ InitG
  /\ tree = InitTree
  /\ selectedTip = Genesis
  /\ failed = FALSE

(* A header is validated: it joins the tree, may become the headers        *)
(* selected tip, and then may move the reindex root.  After an error of    *)
(* the tree the model stops.                                               *)
AddHeader(b, P) ==
  /\ AddBlock(b, P)
  /\ selectedTip' = IF Less(data', selectedTip, b) THEN b ELSE selectedTip
  /\ \E added \in {AddToTree(tree, b, data'[b])} :
       tree' = updateReachabilityReindexRoot(added, data', selectedTip, selectedTip')
  /\ failed' = tree'.err

NextR ==
  /\ ~failed
  /\ \E b \in Blocks \ DOMAIN parents : \E P \in SUBSET DOMAIN parents :
       AddHeader(b, P)

SpecR == InitR /\ [][NextR]_rvars

-----------------------------------------------------------------------------
(* The reallocation always finds the space it needs (reindexIntervals says *)
(* that it can only fail with about 2^64 / reindexSlack blocks), and what   *)
(* validateIntervals of the tests checks holds: every interval is not      *)
(* empty, lies strictly inside its parent's, and starts where that of the  *)
(* sibling before it ends.                                                 *)
IntervalsValid ==
  ~failed /\ \A n \in DOMAIN tree.children :
    LET i == tree.interval[n]
        c == tree.children[n]
    IN /\ i[1] <= i[2]
       /\ \A k \in DOMAIN c :
            /\ i[1] <= tree.interval[c[k]][1] /\ tree.interval[c[k]][2] < i[2]
            /\ k > 1 => tree.interval[c[k]][1] = tree.interval[c[k - 1]][2] + 1

(* The answers of the tree are the truth, for every pair of blocks and     *)
(* after any reallocation: ancestry in the DAG (IsDAGAncestorOf) and in    *)
(* the selected parent chain (IsReachabilityTreeAncestorOf), and the step  *)
(* from a block of a selected parent chain to the one above it             *)
(* (FindNextAncestor).                                                     *)
AncestryExact ==
  LET past == PastOf(parents)
  IN failed \/ \A a, b \in DOMAIN parents :
       /\ IsDAGAncestorOf(tree, a, b) <=> a \in past[b]
       /\ IsReachabilityTreeAncestorOf(tree, a, b) <=> a \in ToSet(SelectedChain(data, b))
       /\ LET chain == SelectedChain(data, b)
          IN \A k \in 2 .. Len(chain) : a = chain[k] => FindNextAncestor(tree, b, a) = chain[k - 1]
=============================================================================
