--------------------------- MODULE PastUtxo_proofs ---------------------------
(***************************************************************************)
(* Proofs about PastUtxo, for every set of outpoints, DAA scores and slots. *)
(*                                                                         *)
(* The argument rests on one observation: a diff over base b that stands   *)
(* for the set u is always Exact(b, u), the record of the two set          *)
(* differences.  Each operation of the algebra maps exact diffs to exact   *)
(* diffs and returns no error on them; the rest is set algebra.            *)
(***************************************************************************)
EXTENDS PastUtxo, TLAPS

Exact(b, u) == [toAdd |-> u \ b, toRemove |-> b \ u]

(* removeEntry on an exact diff, for entries that are in the set.          *)
LEMMA RemoveExact ==
    ASSUME NEW b, NEW u, NEW spent,
           IsCollection(b), spent \subseteq u
    PROVE  /\ RemoveEntriesOK(Exact(b, u), spent)
           /\ RemoveEntries(Exact(b, u), spent) = Exact(b, u \ spent)
<1>1. RemoveEntriesOK(Exact(b, u), spent)
  BY DEF RemoveEntriesOK, Exact, IsCollection, ContainsOutpoint, OutpointsOf
<1>2. (u \ b) \ spent = (u \ spent) \ b
  OBVIOUS
<1>3. (b \ u) \cup (spent \ (u \ b)) = b \ (u \ spent)
  OBVIOUS
<1> QED
  BY <1>1, <1>2, <1>3 DEF RemoveEntries, Exact

(* addEntry on an exact diff, for outpoints that are not in the set.       *)
LEMMA AddExact ==
    ASSUME NEW b, NEW u, NEW created,
           OutpointsOf(created) \cap OutpointsOf(u) = {}
    PROVE  /\ AddEntriesOK(Exact(b, u), created)
           /\ AddEntries(Exact(b, u), created) = Exact(b, u \cup created)
<1>1. created \cap u = {}
  BY DEF OutpointsOf
<1>2. AddEntriesOK(Exact(b, u), created)
  BY DEF AddEntriesOK, Exact, ContainsOutpoint, OutpointsOf
<1>3. (u \ b) \cup (created \ (b \ u)) = (u \cup created) \ b
  BY <1>1
<1>4. (b \ u) \ created = b \ (u \cup created)
  OBVIOUS
<1> QED
  BY <1>2, <1>3, <1>4 DEF AddEntries, Exact

(* AddTransaction on an exact diff returns no error and yields the exact   *)
(* diff of the set after the transaction.                                  *)
LEMMA AddTransactionExact ==
    ASSUME NEW b, NEW u, NEW spent, NEW created,
           IsCollection(b), IsTransition(u, spent, created)
    PROVE  /\ AddTransactionOK(Exact(b, u), spent, created)
           /\ AddTransaction(Exact(b, u), spent, created)
                = Exact(b, (u \ spent) \cup created)
<1>1. /\ RemoveEntriesOK(Exact(b, u), spent)
      /\ RemoveEntries(Exact(b, u), spent) = Exact(b, u \ spent)
  BY RemoveExact DEF IsTransition
<1>2. /\ AddEntriesOK(Exact(b, u \ spent), created)
      /\ AddEntries(Exact(b, u \ spent), created) = Exact(b, (u \ spent) \cup created)
  BY AddExact DEF IsTransition
<1> QED
  BY <1>1, <1>2 DEF AddTransaction, AddTransactionOK

(* withDiffInPlace on an exact diff and a diff of the set it stands for.   *)
LEMMA WithDiffExact ==
    ASSUME NEW b, NEW u, NEW other,
           IsCollection(b), IsCollection(u),
           other.toAdd \cap other.toRemove = {},
           IsTransition(u, other.toRemove, other.toAdd)
    PROVE  /\ WithDiffOK(Exact(b, u), other)
           /\ WithDiff(Exact(b, u), other)
                = Exact(b, (u \ other.toRemove) \cup other.toAdd)
<1> DEFINE a == other.toAdd
           r == other.toRemove
<1>1. a \cap (u \ r) = {} /\ r \subseteq u /\ a \cap r = {}
  BY DEF IsTransition, OutpointsOf
<1>2. \A e \in r : ContainsOutpoint(b \ u, e[1]) => e \in u \ b
  BY <1>1 DEF IsCollection, ContainsOutpoint, OutpointsOf
<1>3. \A e \in a, f \in u \ b : e[1] = f[1] => f \in r
  BY DEF IsTransition, OutpointsOf
<1>4. WithDiffOK(Exact(b, u), other)
  BY <1>2, <1>3 DEF WithDiffOK, Exact
<1> HIDE DEF a, r
<1>5. ((u \ b) \ r) \cup (a \ ((b \ u) \cup (r \ (u \ b)))) = ((u \ r) \cup a) \ b
  BY <1>1
<1>6. ((b \ u) \cup (r \ (u \ b))) \ a = b \ ((u \ r) \cup a)
  BY <1>1
<1>7. WithDiff(Exact(b, u), other)
        = [toAdd    |-> ((u \ b) \ r) \cup (a \ ((b \ u) \cup (r \ (u \ b)))),
           toRemove |-> ((b \ u) \cup (r \ (u \ b))) \ a]
  BY DEF WithDiff, Exact, a, r
<1> QED
  BY <1>4, <1>5, <1>6, <1>7 DEF Exact, a, r

(* diffFrom on two exact diffs of one base returns no error and yields the *)
(* exact diff from the first set to the second.                            *)
LEMMA DiffFromExact ==
    ASSUME NEW b, NEW u, NEW v,
           IsCollection(b), IsCollection(u), IsCollection(v)
    PROVE  /\ DiffFromOK(Exact(b, u), Exact(b, v))
           /\ DiffFrom(Exact(b, u), Exact(b, v)) = Exact(u, v)
<1>1. \A e \in b \ u, f \in v \ b :
         e[1] = f[1] => e # f /\ (f \in u \ b \/ e \in b \ v)
  BY DEF IsCollection
<1>2. \A e \in u \ b, f \in b \ v :
         e[1] = f[1] => e # f /\ (f \in b \ u \/ e \in v \ b)
  BY DEF IsCollection
<1>3. \A e \in b \ u, f \in b \ v : e[1] = f[1] => e = f
  BY DEF IsCollection
<1>4. Intersects((u \ b) \cap (v \ b), b \ u) <=> Intersects((u \ b) \cap (v \ b), b \ v)
  BY DEF IsCollection, Intersects, ContainsOutpoint, OutpointsOf
<1>5. DiffFromOK(Exact(b, u), Exact(b, v))
  BY <1>1, <1>2, <1>3, <1>4 DEF DiffFromOK, Exact
<1>6. ((b \ u) \ (b \ v)) \cup ((v \ b) \ (u \ b)) = v \ u
  OBVIOUS
<1>7. ((u \ b) \ (v \ b)) \cup ((b \ v) \ (b \ u)) = u \ v
  OBVIOUS
<1> QED
  BY <1>5, <1>6, <1>7 DEF DiffFrom, Exact

(* Committing or reading an exact diff yields the set it stands for.       *)
LEMMA ApplyExact ==
    ASSUME NEW b, NEW u, IsCollection(b), IsCollection(u)
    PROVE  /\ CommitDiff(b, Exact(b, u)) = u
           /\ ReadThroughDiff(b, Exact(b, u)) = u
<1>1. ReadThroughDiff(b, Exact(b, u)) = u
  BY DEF ReadThroughDiff, Exact
<1>2. CommitDiff(b, Exact(b, u)) = u
  BY DEF CommitDiff, Exact, IsCollection, ContainsOutpoint, OutpointsOf
<1> QED
  BY <1>1, <1>2
-----------------------------------------------------------------------------
(* The inductive invariant: exactness needs the collections to be maps,    *)
(* and the absence of errors needs exactness.                              *)
IInv == TypeOK /\ DiffIsExact /\ NeverFails

(* A transition of a collection (one entry per outpoint) is a collection.  *)
LEMMA TransitionCollection ==
    ASSUME NEW u \in Collections, NEW spent, NEW created \in SUBSET Entries,
           IsTransition(u, spent, created)
    PROVE  (u \ spent) \cup created \in Collections
BY DEF Collections, IsCollection, IsTransition, OutpointsOf

(* The two halves of the exact diff of two collections are collections.    *)
LEMMA ExactTyped ==
    ASSUME NEW b \in Collections, NEW u \in Collections
    PROVE  Exact(b, u) \in [toAdd : Collections, toRemove : Collections]
BY DEF Exact, Collections, IsCollection

(* Empty diffs over a collection satisfy the invariant.                    *)
LEMMA InitIInv == Init => IInv
<1> SUFFICES ASSUME Init PROVE IInv
  OBVIOUS
<1>1. \A b \in Collections : EmptyDiff = Exact(b, b)
  BY DEF EmptyDiff, Exact
<1>2. DiffIsExact
  BY <1>1 DEF Init, DiffIsExact, Exact
<1>3. TypeOK
  BY <1>1, ExactTyped DEF Init, TypeOK
<1> QED
  BY <1>2, <1>3 DEF Init, IInv, NeverFails

(* The slot that changes gets an exact diff of a new collection.           *)
LEMMA SlotStep ==
    ASSUME IInv, NEW s \in Slots, NEW u \in Collections,
           diff' = [diff EXCEPT ![s] = Exact(base, u)],
           utxo' = [utxo EXCEPT ![s] = u],
           UNCHANGED <<base, err>>
    PROVE  IInv'
<1>1. Exact(base, u) \in [toAdd : Collections, toRemove : Collections]
  BY ExactTyped DEF IInv, TypeOK
<1>2. TypeOK'
  BY <1>1 DEF IInv, TypeOK
<1>3. DiffIsExact'
  BY DEF IInv, TypeOK, DiffIsExact, Exact
<1> QED
  BY <1>2, <1>3 DEF IInv, NeverFails

(* What the invariant says of one slot.                                    *)
LEMMA SlotFacts ==
    ASSUME IInv, NEW s \in Slots
    PROVE  /\ base \in Collections /\ IsCollection(base)
           /\ utxo[s] \in Collections /\ IsCollection(utxo[s])
           /\ diff[s] = Exact(base, utxo[s])
BY DEF IInv, TypeOK, DiffIsExact, Exact, Collections

(* Accepting a transaction, restoring a past UTXO set and committing a     *)
(* virtual diff each preserve the invariant.                               *)
LEMMA NextIInv == IInv /\ [Next]_vars => IInv'
<1> SUFFICES ASSUME IInv, [Next]_vars PROVE IInv'
  OBVIOUS
<1>1. ASSUME NEW s \in Slots, NEW spent \in SUBSET utxo[s],
             NEW outs \in SUBSET Outpoints, NEW daa \in DAAScores,
             Accept(s, spent, outs, daa)
      PROVE  IInv'
  <2> DEFINE created == outs \X {daa}
             u == (utxo[s] \ spent) \cup created
  <2>1. IsTransition(utxo[s], spent, created)
    BY <1>1 DEF Accept
  <2>2. created \in SUBSET Entries
    BY <1>1 DEF Entries
  <2>3. u \in Collections
    BY <2>1, <2>2, SlotFacts, TransitionCollection
  <2>4. /\ AddTransactionOK(diff[s], spent, created)
        /\ AddTransaction(diff[s], spent, created) = Exact(base, u)
    <3>1. IsCollection(base) /\ diff[s] = Exact(base, utxo[s])
      BY SlotFacts
    <3> HIDE DEF created
    <3> QED
      BY <2>1, <3>1, AddTransactionExact
  <2>5. /\ diff' = [diff EXCEPT ![s] = Exact(base, u)]
        /\ utxo' = [utxo EXCEPT ![s] = u]
        /\ UNCHANGED <<base, err>>
    BY <1>1, <2>4 DEF Accept
  <2> QED
    BY <2>3, <2>5, SlotStep
<1>2. ASSUME NEW s \in Slots, NEW removed \in SUBSET utxo[s], NEW added \in Collections,
             Restore(s, [toAdd |-> added, toRemove |-> removed])
      PROVE  IInv'
  <2> DEFINE other == [toAdd |-> added, toRemove |-> removed]
             u == (utxo[s] \ removed) \cup added
  <2>1. /\ IsTransition(utxo[s], other.toRemove, other.toAdd)
        /\ other.toAdd \cap other.toRemove = {}
    BY <1>2 DEF Restore
  <2>2. u \in Collections
    <3>1. added \in SUBSET Entries
      BY DEF Collections
    <3> QED
      BY <2>1, <3>1, SlotFacts, TransitionCollection
  <2>3. /\ WithDiffOK(diff[s], other)
        /\ WithDiff(diff[s], other) = Exact(base, u)
    <3>1. /\ IsCollection(base) /\ IsCollection(utxo[s])
          /\ diff[s] = Exact(base, utxo[s])
      BY SlotFacts
    <3>2. u = (utxo[s] \ other.toRemove) \cup other.toAdd
      OBVIOUS
    <3> HIDE DEF other, u
    <3> QED
      BY <2>1, <3>1, <3>2, WithDiffExact
  <2>4. /\ diff' = [diff EXCEPT ![s] = Exact(base, u)]
        /\ utxo' = [utxo EXCEPT ![s] = u]
        /\ UNCHANGED <<base, err>>
    BY <1>2, <2>3 DEF Restore
  <2> QED
    BY <2>2, <2>4, SlotStep
<1>3. ASSUME NEW s \in Slots, Commit(s)
      PROVE  IInv'
  <2>1. \A t \in Slots : /\ DiffFromOK(diff[s], diff[t])
                         /\ DiffFrom(diff[s], diff[t]) = Exact(utxo[s], utxo[t])
    BY SlotFacts, DiffFromExact
  <2>2. CommitDiff(base, diff[s]) = utxo[s]
    BY SlotFacts, ApplyExact
  <2>3. /\ base' = utxo[s]
        /\ diff' = [t \in Slots |-> Exact(utxo[s], utxo[t])]
        /\ UNCHANGED <<utxo, err>>
    BY <1>3, <2>1, <2>2 DEF Commit
  <2>4. TypeOK'
    BY <2>3, SlotFacts, ExactTyped DEF IInv, TypeOK
  <2>5. DiffIsExact'
    BY <2>3 DEF DiffIsExact, Exact
  <2> QED
    BY <2>3, <2>4, <2>5 DEF IInv, NeverFails
<1>4. CASE UNCHANGED vars
  BY <1>4 DEF IInv, TypeOK, DiffIsExact, NeverFails, vars
<1> QED
  BY <1>1, <1>2, <1>3, <1>4 DEF Next

(* The inductive invariant holds in every reachable state.                 *)
THEOREM Invariance == Spec => []IInv
BY InitIInv, NextIInv, PTL DEF Spec

(* Every diff the consensus state manager accumulates, restores or re-bases *)
(* is a pair of well-formed collections, whatever the transactions.        *)
THEOREM TypeCorrect == Spec => []TypeOK
<1>1. IInv => TypeOK
  BY DEF IInv
<1> QED
  BY Invariance, <1>1, PTL

(* A diff always removes exactly what left the virtual UTXO set and adds   *)
(* exactly what entered it (AddTransaction, WithDiffInPlace, DiffFrom).    *)
THEOREM DiffsExact == Spec => []DiffIsExact
<1>1. IInv => DiffIsExact
  BY DEF IInv
<1> QED
  BY Invariance, <1>1, PTL

(* The errors of addEntry, removeEntry, withDiffInPlace and diffFrom are   *)
(* never returned while every diff is over the same base.                  *)
THEOREM AlgebraNeverFails == Spec => []NeverFails
<1>1. IInv => NeverFails
  BY DEF IInv
<1> QED
  BY Invariance, <1>1, PTL

(* Deleting by outpoint (commitVirtualUTXODiff) and reading by outpoint    *)
(* and DAA score (IteratorWithDiff) give the same set.                     *)
THEOREM CommitAgreesWithRead == Spec => []CommitMatchesRead
<1>1. IInv => CommitMatchesRead
  BY SlotFacts, ApplyExact DEF CommitMatchesRead
<1> QED
  BY Invariance, <1>1, PTL

(* DiffFrom, WithDiff and Reversed are what resolveSingleBlockStatus and   *)
(* ReverseUTXODiffs take them for: a path there, its use and a path back.  *)
THEOREM DiffFromCorrect == Spec => []DiffFromLeadsToOther
<1>1. IInv => DiffFromLeadsToOther
  <2> SUFFICES ASSUME IInv, NEW s \in Slots, NEW t \in Slots
               PROVE  LET d == DiffFrom(diff[s], diff[t])
                      IN  /\ DiffFromOK(diff[s], diff[t])
                          /\ ReadThroughDiff(utxo[s], d) = utxo[t]
                          /\ ReadThroughDiff(utxo[t], Reversed(d)) = utxo[s]
                          /\ WithDiffOK(diff[s], d)
                          /\ WithDiff(diff[s], d) = diff[t]
    BY DEF DiffFromLeadsToOther
  <2> DEFINE u == utxo[s]
             v == utxo[t]
             d == Exact(u, v)
  <2>1. /\ IsCollection(base) /\ IsCollection(u) /\ IsCollection(v)
        /\ diff[s] = Exact(base, u) /\ diff[t] = Exact(base, v)
    BY SlotFacts
  <2>2. DiffFromOK(diff[s], diff[t]) /\ DiffFrom(diff[s], diff[t]) = d
    BY <2>1, DiffFromExact
  <2>3. ReadThroughDiff(u, d) = v /\ ReadThroughDiff(v, Reversed(d)) = u
    BY DEF ReadThroughDiff, Reversed, Exact
  <2>4. /\ d.toAdd \cap d.toRemove = {}
        /\ IsTransition(u, d.toRemove, d.toAdd)
        /\ (u \ d.toRemove) \cup d.toAdd = v
    BY <2>1 DEF IsTransition, Exact, IsCollection, OutpointsOf
  <2>5. WithDiffOK(diff[s], d) /\ WithDiff(diff[s], d) = diff[t]
    BY <2>1, <2>4, WithDiffExact
  <2> QED
    BY <2>2, <2>3, <2>5
<1> QED
  BY Invariance, <1>1, PTL

(* All of it together, for the accumulated, restored and re-based diffs of *)
(* calculate_past_utxo.go, update_virtual.go and reverse_utxo_diffs.go.    *)
THEOREM AlgebraCorrect == Spec => []DiffsCorrect
BY DiffsExact, AlgebraNeverFails, CommitAgreesWithRead, DiffFromCorrect, PTL DEF DiffsCorrect
=============================================================================
