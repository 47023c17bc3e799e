------------------------ MODULE HeadersSelectedChain ------------------------
(* The index a node keeps of the chain of its selected tip of headers, how *)
(* it follows the tip, and the locators made from it.                      *)
EXTENDS BlockLocators, SequencesExt

(* What to remove from the chain of `from` and to add to get that of `to`. *)
CalculateChainPath(d, from, to) ==
  [removed |-> Reverse(SelectedChildIterator(d, from, to)), added |-> SelectedChildIterator(d, to, from)]

(* The headers selected chain store: the chain's blocks by index and their *)
(* indices by hash, and the index of the tip.                              *)
EmptyChainStore == [byIndex |-> <<>>, byHash |-> <<>>, highest |-> 0, empty |-> TRUE]

Without(f, keys) == [k \in DOMAIN f \ keys |-> f[k]]

(* Mutant: the blocks that leave the chain stay in the index of hashes. *)
CommitChainKeepsHashes(store, removed, added, first) ==
  LET indices == [b \in ToSet(added) |-> first + SelectInSeq(added, LAMBDA x : x = b) - 1]
  IN [byIndex |-> [i \in first .. first + Len(added) - 1 |-> added[i - first + 1]]
                  @@ Without(store.byIndex, {store.byHash[b] : b \in removed}),
      byHash |-> indices @@ store.byHash,
      highest |-> IF added = <<>> THEN 0 ELSE first + Len(added) - 1,
      empty |-> FALSE]

(* Commit: what leaves the chain is deleted before what joins it is        *)
(* written, and the highest index is that of the last block that joins.    *)
CommitChain(store, removed, added, first) ==
  LET indices == [b \in ToSet(added) |-> first + SelectInSeq(added, LAMBDA x : x = b) - 1]
  IN [byIndex |-> [i \in first .. first + Len(added) - 1 |-> added[i - first + 1]]
                  @@ Without(store.byIndex, {store.byHash[b] : b \in removed}),
      byHash |-> indices @@ Without(store.byHash, removed),
      highest |-> IF added = <<>> THEN 0 ELSE first + Len(added) - 1,
      empty |-> FALSE]

(* Stage: the indices of what joins follow those of what stays.            *)
StageChain(store, path) ==
  CommitChain(store, ToSet(path.removed), path.added,
              IF store.empty THEN 0 ELSE store.highest - Len(path.removed) + 1)

(* createHeadersSelectedChainBlockLocator between two blocks of the chain: *)
(* the steps down from high double, and low is the last.                   *)
createHeadersSelectedChainBlockLocator(store, low, high) ==
  LET below(i) == 2 ^ (i - 1) - 1
      count == Cardinality({i \in 1 .. store.highest + 1 : below(i) < store.byHash[high] - store.byHash[low]})
  IN  [i \in 1 .. count |-> store.byIndex[store.byHash[high] - below(i)]] \o <<low>>
=============================================================================
