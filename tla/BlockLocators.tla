--------------------------- MODULE BlockLocators ---------------------------
(* Walks along a selected parent chain: the blocks above another one, the  *)
(* chain block at a blue score, and the locator a node sends to a peer     *)
(* that wants to know where their DAGs part.  A DAG is given by its        *)
(* GHOSTDAG data d, of which only the selected parent and the blue score   *)
(* are read.                                                               *)
EXTENDS Naturals, FiniteSets, Sequences

(* The blocks of the selected parent chain of b, b included.               *)
ChainOf(d, b) ==
  LET chain[x \in DOMAIN d] ==
        IF d[x].selectedParent \in DOMAIN d THEN {x} \cup chain[d[x].selectedParent] ELSE {x}
  IN chain[b]

IsInSelectedParentChainOf(d, a, b) == a \in ChainOf(d, b)

(* The blocks of the chain of `high` above low, upwards.                   *)
SelectedChildIterator(d, high, low) ==
  LET below == ChainOf(d, low)
      path[x \in DOMAIN d] ==
        IF x \in below THEN <<>>
        ELSE IF d[x].selectedParent \in DOMAIN d THEN Append(path[d[x].selectedParent], x) ELSE <<x>>
  IN path[high]

LowestChainBlockAboveOrEqualToBlueScore(d, high, score) ==
  CHOOSE b \in ChainOf(d, high) :
    /\ d[b].blueScore >= score
    /\ d[b].selectedParent \in DOMAIN d => d[d[b].selectedParent].blueScore < score

-----------------------------------------------------------------------------
(* createBlockLocator: from high down to low, at distances in blue score   *)
(* that double, `limit` blocks at most (0 for any number).                 *)
createBlockLocator(d, low, high, limit) ==
  LET bound == IF limit = 0 THEN Cardinality(DOMAIN d) ELSE limit
      next(b, step) ==
        IF d[b].blueScore < step \/ d[b].blueScore - step < d[low].blueScore THEN d[low].blueScore
        ELSE d[b].blueScore - step
      entry[i \in 1 .. bound] ==
        IF i = 1 THEN high
        ELSE IF d[entry[i - 1]].blueScore <= d[low].blueScore THEN entry[i - 1]
        ELSE LowestChainBlockAboveOrEqualToBlueScore(d, entry[i - 1], next(entry[i - 1], 2 ^ (i - 2)))
      atLow == {i \in 1 .. bound : d[entry[i]].blueScore <= d[low].blueScore}
  IN  SubSeq(entry, 1, IF atLow = {} THEN bound ELSE CHOOSE i \in atLow : \A j \in atLow : i <= j)
=============================================================================
