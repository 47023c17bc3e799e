------------------------------ MODULE UtxoDiff ------------------------------
(***************************************************************************)
(* The UTXO-diff algebra of domain/consensus/utils/utxo.                   *)
(*                                                                         *)
(* A utxoCollection is a Go map from outpoints to UTXO entries.  Two       *)
(* entries of one outpoint differ only in the DAA score of the block that  *)
(* accepted the creating transaction, so a collection is a set of pairs    *)
(* <<outpoint, daaScore>> with at most one pair per outpoint.  A diff is a *)
(* record of two collections.  An operator of the code that may return an  *)
(* error comes as two operators: its result, and a predicate ...OK that is *)
(* true exactly when the code returns no error.                            *)
(***************************************************************************)

OutpointsOf(c) == {e[1] : e \in c}

(* utxoCollection.Contains                                                 *)
ContainsOutpoint(c, o) == o \in OutpointsOf(c)

(* The type of a collection: a map has one value per key. *)
IsCollection(c) == \A e, f \in c : e[1] = f[1] => e = f

EmptyDiff == [toAdd |-> {}, toRemove |-> {}]

(* mutableUTXODiff.addEntry, for a set of entries with distinct outpoints. *)
AddEntriesOK(d, es) ==
    \A e \in es \ d.toRemove : ~ContainsOutpoint(d.toAdd, e[1])

AddEntries(d, es) ==
    [toAdd    |-> d.toAdd \cup (es \ d.toRemove),
     toRemove |-> d.toRemove \ es]

(* mutableUTXODiff.removeEntry, for a set of entries with distinct outpoints. *)
RemoveEntriesOK(d, es) ==
    \A e \in es \ d.toAdd : ~ContainsOutpoint(d.toRemove, e[1])

RemoveEntries(d, es) ==
    [toAdd    |-> d.toAdd \ es,
     toRemove |-> d.toRemove \cup (es \ d.toAdd)]

(* mutableUTXODiff.AddTransaction: every input is removed, then every      *)
(* output is added with the DAA score of the accepting block.              *)
AddTransaction(d, spent, created) ==
    AddEntries(RemoveEntries(d, spent), created)

AddTransactionOK(d, spent, created) ==
    /\ RemoveEntriesOK(d, spent)
    /\ AddEntriesOK(RemoveEntries(d, spent), created)

(* checkIntersection *)
Intersects(c1, c2) == \E e \in c1 : ContainsOutpoint(c2, e[1])

(* withDiffInPlace: `this' becomes the diff that applies `this' and then   *)
(* `other'.                                                                *)
WithDiffOK(this, other) ==
    /\ \A e \in other.toRemove :
          ContainsOutpoint(this.toRemove, e[1]) => e \in this.toAdd
    /\ \A e \in other.toAdd, f \in this.toAdd :
          e[1] = f[1] => f \in other.toRemove

WithDiff(this, other) ==
    LET removed == [toAdd    |-> this.toAdd \ other.toRemove,
                    toRemove |-> this.toRemove \cup (other.toRemove \ this.toAdd)]
    IN  [toAdd    |-> removed.toAdd \cup (other.toAdd \ removed.toRemove),
         toRemove |-> removed.toRemove \ other.toAdd]

(* diffFrom: the diff that leads from `this' to `other', two diffs of one  *)
(* base.  The four conjuncts are the four errors of the code, in order.    *)
DiffFromOK(this, other) ==
    LET inBothToAdd == this.toAdd \cap other.toAdd
    IN  /\ \A e \in this.toRemove, f \in other.toAdd :
              e[1] = f[1] => e # f /\ (f \in this.toAdd \/ e \in other.toRemove)
        /\ \A e \in this.toAdd, f \in other.toRemove :
              e[1] = f[1] => e # f /\ (f \in this.toRemove \/ e \in other.toAdd)
        /\ \A e \in this.toRemove, f \in other.toRemove : e[1] = f[1] => e = f
        /\ Intersects(inBothToAdd, this.toRemove)
              <=> Intersects(inBothToAdd, other.toRemove)

DiffFrom(this, other) ==
    [toAdd    |-> (this.toRemove \ other.toRemove) \cup (other.toAdd \ this.toAdd),
     toRemove |-> (this.toAdd \ other.toAdd) \cup (other.toRemove \ this.toRemove)]

(* Mutant: only one half is turned round. *)
ReversedHalf(d) == [toAdd |-> d.toRemove, toRemove |-> {}]

(* mutableUTXODiff.Reversed *)
Reversed(d) == [toAdd |-> d.toRemove, toRemove |-> d.toAdd]

(* Mutants: put, then delete by outpoint; and put without deleting. *)
CommitDiffPutFirst(base, d) ==
    {e \in base \cup d.toAdd : ~ContainsOutpoint(d.toRemove, e[1])}
CommitDiffNoDelete(base, d) == base \cup d.toAdd

(* What a diff means: the removed entries leave the set, the added ones    *)
(* enter it.  commitVirtualUTXODiff does this to the virtual UTXO set in   *)
(* the database, deleting by outpoint and then putting; IteratorWithDiff   *)
(* does it to a set that is only read, deleting by outpoint and score.     *)
CommitDiff(base, d) ==
    {e \in base : ~ContainsOutpoint(d.toRemove, e[1]) /\ ~ContainsOutpoint(d.toAdd, e[1])} \cup d.toAdd

ReadThroughDiff(base, d) == (base \ d.toRemove) \cup d.toAdd
=============================================================================
