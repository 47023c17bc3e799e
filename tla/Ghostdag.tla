------------------------------ MODULE Ghostdag ------------------------------
(***************************************************************************)
(* The GHOSTDAG colouring of the block DAG                                 *)
(* (domain/consensus/processes/ghostdagmanager): when a block is added its *)
(* selected parent, the blue and the red blocks of its merge set, its blue *)
(* score and its blue work are computed from the data of its parents.      *)
(* The colouring never recounts an anticone: it keeps, with each block,    *)
(* the blue anticone sizes that the block changed, and looks the others up *)
(* along the selected chain.  The module adds blocks to a DAG one at a     *)
(* time.                                                                   *)
(***************************************************************************)
EXTENDS Naturals, FiniteSets, Sequences, SequencesExt, TLC

CONSTANTS
  Blocks,      \* the blocks that may be added, in the order they come
  Genesis,
  K,           \* the anticone size parameter
  Hash,        \* [Blocks -> Nat]: the order of the hashes
  Work,        \* [Blocks -> Nat \ {0}]: the work of a block's own header
  NoBlock      \* the selected parent of genesis

ASSUME GhostdagAssumption ==
  /\ Blocks \subseteq Nat /\ Genesis \in Blocks
  /\ \A b \in Blocks : Genesis <= b
  /\ K \in Nat
  /\ \A a, b \in Blocks : Hash[a] = Hash[b] => a = b
  /\ \A b \in Blocks : Work[b] \in Nat \ {0}

VARIABLES
  parents,     \* [the blocks of the DAG -> their parents]
  data,        \* [the blocks of the DAG -> their GHOSTDAG data]
  error        \* an internal error was returned

ghostdagVars == <<parents, data, error>>

-----------------------------------------------------------------------------
(* The DAG.  Past includes the block itself, as IsAncestorOf does.         *)
PastOf(ps) ==
  [b \in DOMAIN ps |->
     LET up[n \in Nat] == IF n = 0 THEN {b} ELSE up[n - 1] \cup UNION {ps[x] : x \in up[n - 1]}
     IN up[Cardinality(Blocks)]]

IsAncestorOf(past, a, b) == a \in past[b]
InAnticone(past, a, b) == ~IsAncestorOf(past, a, b) /\ ~IsAncestorOf(past, b, a)

Less(d, a, b) ==
  \/ d[a].blueWork < d[b].blueWork
  \/ d[a].blueWork = d[b].blueWork /\ Hash[a] < Hash[b]

findSelectedParent(d, P) == CHOOSE p \in P : \A q \in P \ {p} : Less(d, q, p)

(* The blocks that are in the past of the parents P and not in the past of *)
(* the selected parent, sorted.                                            *)
mergeSetWithoutSelectedParent(d, past, sp, P) ==
  SetToSortSeq(UNION {past[p] : p \in P} \ past[sp], LAMBDA a, b : Less(d, a, b))

(* The selected chain from b down to genesis.                              *)
SelectedChain(d, b) ==
  LET chain[x \in DOMAIN d] == IF x = Genesis THEN <<x>> ELSE <<x>> \o chain[d[x].selectedParent]
  IN chain[b]

-----------------------------------------------------------------------------
(* The lookup's error: the block is not in the blue set of the context.    *)
NotInBlueSet == K + Cardinality(Blocks) + 1

(* The blue anticone size of block in the view of the new block: the entry *)
(* of the first block of the chain that has one.                           *)
blueAnticoneSize(d, new, block) ==
  LET maps == <<new.sizes>> \o [i \in DOMAIN SelectedChain(d, new.selectedParent) |->
                                  d[SelectedChain(d, new.selectedParent)[i]].sizes]
      i == SelectInSeq(maps, LAMBDA m : block \in DOMAIN m)
  IN IF i = 0 THEN NotInBlueSet ELSE maps[i][block]

(* One blue block of a chain block against the candidate: the candidate's  *)
(* anticone and the block's own may not exceed K.                          *)
checkWithBlue(d, past, new, candidate, acc, block) ==
  IF acc.colour # "undecided" \/ IsAncestorOf(past, block, candidate) THEN acc
  ELSE LET size == blueAnticoneSize(d, new, block)
           n == acc.n + 1
       IN [n |-> n, sizes |-> (block :> size) @@ acc.sizes,
           colour |->
             CASE size = NotInBlueSet -> "error" [] n > K -> "red" [] size = K -> "red" [] size > K -> "error"
               [] OTHER -> "undecided"]

(* A chain block in the candidate's past ends the search: all the blues    *)
(* that are left are in the candidate's past too.                          *)
checkBlueCandidateWithChainBlock(d, past, new, candidate, acc, chainBlock) ==
  IF acc.colour # "undecided" THEN acc
  ELSE IF IsAncestorOf(past, chainBlock, candidate) THEN [acc EXCEPT !.colour = "blue"]
  ELSE FoldLeft(LAMBDA x, block : checkWithBlue(d, past, new, candidate, x, block), acc, d[chainBlock].blues)

checkBlueCandidate(d, past, new, candidate) ==
  IF Len(new.blues) = K + 1 THEN [colour |-> "red", n |-> 0, sizes |-> <<>>]
  ELSE FoldLeft(LAMBDA x, chainBlock : checkBlueCandidateWithChainBlock(d, past, new, candidate, x, chainBlock),
                FoldLeft(LAMBDA x, block : checkWithBlue(d, past, new, candidate, x, block),
                         [colour |-> "undecided", n |-> 0, sizes |-> <<>>], new.blues),
                SelectedChain(d, new.selectedParent))

(* Mutant: the blues of the candidate's anticone keep their sizes. *)
colourCandidateStale(d, past, new, candidate) ==
  LET c == checkBlueCandidate(d, past, new, candidate)
  IN IF c.colour = "blue"
     THEN [new EXCEPT !.blues = Append(@, candidate), !.sizes = c.sizes @@ (candidate :> c.n) @@ @]
     ELSE [new EXCEPT !.reds = Append(@, candidate), !.error = @ \/ c.colour # "red"]

(* A blue candidate joins the blues, and every blue of its anticone now    *)
(* has one more blue in its own.                                           *)
colourCandidate(d, past, new, candidate) ==
  LET c == checkBlueCandidate(d, past, new, candidate)
  IN IF c.colour = "blue"
     THEN [new EXCEPT !.blues = Append(@, candidate),
                      !.sizes = [b \in DOMAIN c.sizes |-> c.sizes[b] + 1] @@ (candidate :> c.n) @@ @]
     ELSE [new EXCEPT !.reds = Append(@, candidate), !.error = @ \/ c.colour # "red"]

BlueScoreOf(d, sp, blues) == d[sp].blueScore + Len(blues)

WorkOf(blues) == FoldLeft(LAMBDA w, b : w + Work[b], 0, blues)

GHOSTDAG(d, past, P) ==
  LET sp == findSelectedParent(d, P)
      coloured == FoldLeft(LAMBDA new, candidate : colourCandidate(d, past, new, candidate),
                           [selectedParent |-> sp, blues |-> <<sp>>, reds |-> <<>>, sizes |-> sp :> 0,
                            error |-> FALSE],
                           mergeSetWithoutSelectedParent(d, past, sp, P))
  IN [selectedParent |-> sp, blues |-> coloured.blues, reds |-> coloured.reds, sizes |-> coloured.sizes,
      blueScore |-> BlueScoreOf(d, sp, coloured.blues),
      blueWork |-> d[sp].blueWork + WorkOf(coloured.blues),
      error |-> coloured.error]

GenesisData ==
  [selectedParent |-> NoBlock, blues |-> <<>>, reds |-> <<>>, sizes |-> <<>>,
   blueScore |-> 0, blueWork |-> 0, error |-> FALSE]

(* The merge set in one sequence: the selected parent, then blues and reds *)
(* merged by Less.                                                         *)
GetSortedMergeSet(d, b) ==
  IF d[b].blues = <<>> THEN <<>>
  ELSE LET step(acc, n) ==
             IF acc.blues # <<>> /\ (acc.reds = <<>> \/ Less(d, Head(acc.blues), Head(acc.reds)))
             THEN [acc EXCEPT !.out = Append(@, Head(acc.blues)), !.blues = Tail(@)]
             ELSE [acc EXCEPT !.out = Append(@, Head(acc.reds)), !.reds = Tail(@)]
           n == Len(d[b].blues) - 1 + Len(d[b].reds)
       IN FoldLeft(step, [out |-> <<Head(d[b].blues)>>, blues |-> Tail(d[b].blues), reds |-> d[b].reds],
                   [i \in 1 .. n |-> i]).out

-----------------------------------------------------------------------------
InitG ==
  /\ parents = Genesis :> {}
  /\ data = Genesis :> GenesisData
  /\ error = FALSE

(* The next block comes with an antichain of parents.                      *)
AddBlock(b, P) ==
  /\ b \notin DOMAIN parents /\ \A x \in Blocks : x < b => x \in DOMAIN parents
  /\ P # {} /\ \A p, q \in P : p # q => InAnticone(PastOf(parents), p, q)
  /\ \E new \in {GHOSTDAG(data, PastOf(parents), P)} :
       /\ parents' = parents @@ (b :> P)
       /\ data' = data @@ (b :> new)
       /\ error' = (error \/ new.error)

NextG == \E b \in Blocks \ DOMAIN parents : \E P \in SUBSET DOMAIN parents : AddBlock(b, P)

SpecG == InitG /\ [][NextG]_ghostdagVars

-----------------------------------------------------------------------------
(* The blue set of a block: the blue blocks of its past.                   *)
BlueSet(d, b) == UNION {ToSet(d[x].blues) : x \in ToSet(SelectedChain(d, b))}
BlueAnticone(past, S, x) == {y \in S : InAnticone(past, x, y)}

(* The blue set of every block is a K-cluster: no blue block has more than *)
(* K blue blocks in its anticone.  The comment of GHOSTDAG promises it,    *)
(* although the code compares only the blues of one chain block at a time  *)
(* and stops early.                                                        *)
BlueSetIsKCluster ==
  LET past == PastOf(parents)
  IN \A b \in DOMAIN data : \A x \in BlueSet(data, b) : Cardinality(BlueAnticone(past, BlueSet(data, b), x)) <= K

(* The sizes kept along the selected chain are exact: looked up from any   *)
(* block, the entry of each of its blue blocks is the size of that block's *)
(* blue anticone in the view of the looking block.  So neither of the two  *)
(* sanity errors of the colouring is ever returned; and the blue score     *)
(* counts the blue set.                                                    *)
AnticoneSizesExact ==
  LET past == PastOf(parents)
  IN /\ ~error
     /\ \A b \in DOMAIN data \ {Genesis} : \A x \in BlueSet(data, b) :
          blueAnticoneSize(data, data[b], x) = Cardinality(BlueAnticone(past, BlueSet(data, b), x))
     /\ \A b \in DOMAIN data : data[b].blueScore = Cardinality(BlueSet(data, b))

(* The sorted merge set lists every block of the merge set once, each      *)
(* after the blocks of its past that are in it.                            *)
MergeSetTopological ==
  LET past == PastOf(parents)
  IN \A b \in DOMAIN data \ {Genesis} :
       LET s == GetSortedMergeSet(data, b)
       IN /\ ToSet(s) = (past[b] \ {b}) \ (past[data[b].selectedParent] \ {data[b].selectedParent})
          /\ \A i, j \in DOMAIN s : i < j => ~IsAncestorOf(past, s[j], s[i])

(* A block is red only with cause: adding it to the blues chosen before it *)
(* would have left a blue block with more than K blues in its anticone.    *)
RedsHaveCause ==
  LET past == PastOf(parents)
  IN \A b \in DOMAIN data \ {Genesis} : \A r \in ToSet(data[b].reds) :
       LET before == BlueSet(data, data[b].selectedParent) \cup {data[b].selectedParent}
                       \cup {x \in ToSet(data[b].blues) : Less(data, x, r)}
       IN \E x \in before \cup {r} : Cardinality(BlueAnticone(past, before \cup {r}, x)) > K

(* The colouring is the greedy one, over the merge set in topological      *)
(* order: the blues form a K-cluster, and no block is left out of it       *)
(* without need.                                                           *)
ColouringExact == MergeSetTopological /\ BlueSetIsKCluster /\ RedsHaveCause
=============================================================================
