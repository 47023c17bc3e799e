------------------------------ MODULE PastUtxo ------------------------------
(***************************************************************************)
(* How the consensus state manager holds UTXO sets in memory: as mutable   *)
(* diffs of one base, the virtual UTXO set in the database.                *)
(*                                                                         *)
(* A slot is one diff of the code: the accumulatedDiff of restorePastUTXO, *)
(* the accumulatedUTXODiff of applyMergeSetBlocks, the past UTXO of the    *)
(* old selected tip or the diff of the new virtual.  A slot starts empty   *)
(* (NewMutableUTXODiff), accepts transactions, absorbs stored diffs and is *)
(* finally committed to the base, after which every other slot must be     *)
(* re-expressed over the new base with DiffFrom (updateSelectedTipUTXODiff *)
(* does that for the selected tip).                                        *)
(*                                                                         *)
(* The history variable utxo is the set each diff stands for; the code     *)
(* never builds it.                                                        *)
(***************************************************************************)
EXTENDS UtxoDiff

CONSTANTS Outpoints,   \* transaction outputs
          DAAScores,   \* DAA scores of accepting blocks
          Slots        \* diffs alive at the same time

VARIABLES base,        \* the virtual UTXO set in the database
          diff,        \* slot -> mutableUTXODiff
          utxo,        \* slot -> the UTXO set the diff stands for
          err          \* some operation returned an error

vars == <<base, diff, utxo, err>>

Entries == Outpoints \X DAAScores
Collections == {c \in SUBSET Entries : IsCollection(c)}

Init ==
    /\ base \in Collections
    /\ diff = [s \in Slots |-> EmptyDiff]
    /\ utxo = [s \in Slots |-> base]
    /\ err = FALSE

(* What may be done to a UTXO set: entries in it are spent, and outpoints  *)
(* that are not in it afterwards are created.                              *)
IsTransition(set, spent, created) ==
    /\ spent \subseteq set
    /\ IsCollection(created)
    /\ OutpointsOf(created) \cap OutpointsOf(set \ spent) = {}

(* An error of the algebra is returned up the stack and aborts the block.  *)
Fail ==
    /\ err' = TRUE
    /\ UNCHANGED <<base, diff, utxo>>

(* maybeAcceptTransaction: the inputs were found in the slot's set, the    *)
(* outputs carry the DAA score of the accepting block.                     *)
Accept(s, spent, outs, daa) ==
    LET created == outs \X {daa}
    IN  /\ IsTransition(utxo[s], spent, created)
        /\ IF AddTransactionOK(diff[s], spent, created)
           THEN /\ diff' = [diff EXCEPT ![s] = AddTransaction(@, spent, created)]
                /\ utxo' = [utxo EXCEPT ![s] = (@ \ spent) \cup created]
                /\ UNCHANGED <<base, err>>
           ELSE Fail

(* One step of the second loop of restorePastUTXO: the diff stored for the *)
(* next block on the path leads from that slot's set to the block's set.   *)
Restore(s, other) ==
    /\ other.toAdd \cap other.toRemove = {}
    /\ IsTransition(utxo[s], other.toRemove, other.toAdd)
    /\ IF WithDiffOK(diff[s], other)
       THEN /\ diff' = [diff EXCEPT ![s] = WithDiff(@, other)]
            /\ utxo' = [utxo EXCEPT ![s] = (@ \ other.toRemove) \cup other.toAdd]
            /\ UNCHANGED <<base, err>>
       ELSE Fail

(* updateVirtualWithParents followed by the commit of its staging area:    *)
(* the slot's diff is applied to the database and every other slot becomes *)
(* virtualUTXODiff.DiffFrom(slot).                                         *)
Commit(s) ==
    IF \A t \in Slots : DiffFromOK(diff[s], diff[t])
    THEN /\ base' = CommitDiff(base, diff[s])
         /\ diff' = [t \in Slots |-> DiffFrom(diff[s], diff[t])]
         /\ UNCHANGED <<utxo, err>>
    ELSE Fail

Next ==
    \E s \in Slots :
        \/ \E spent \in SUBSET utxo[s], outs \in SUBSET Outpoints, daa \in DAAScores :
              Accept(s, spent, outs, daa)
        \/ \E removed \in SUBSET utxo[s], added \in Collections :
              Restore(s, [toAdd |-> added, toRemove |-> removed])
        \/ Commit(s)

Spec == Init /\ [][Next]_vars
-----------------------------------------------------------------------------
(* Every slot holds a diff of two collections, and the sets they stand for *)
(* have one entry per outpoint (a Go map cannot hold two).                 *)
TypeOK ==
    /\ base \in Collections
    /\ diff \in [Slots -> [toAdd : Collections, toRemove : Collections]]
    /\ utxo \in [Slots -> Collections]
    /\ err \in BOOLEAN

(* However a diff was built, by accepting transactions, by absorbing       *)
(* stored diffs or by re-basing with DiffFrom, it removes exactly what     *)
(* left the base and adds exactly what entered it.  The DAA-score-aware    *)
(* cancellations of addEntry, removeEntry and withDiffInPlace exist for    *)
(* this: a leftover pair in both halves would later make diffFrom fail.    *)
DiffIsExact ==
    \A s \in Slots : diff[s] = [toAdd |-> utxo[s] \ base, toRemove |-> base \ utxo[s]]

(* commitVirtualUTXODiff, which deletes by outpoint alone, and             *)
(* IteratorWithDiff, which compares DAA scores too, both turn the base     *)
(* into the set the diff stands for.                                       *)
CommitMatchesRead ==
    \A s \in Slots :
        /\ CommitDiff(base, diff[s]) = utxo[s]
        /\ ReadThroughDiff(base, diff[s]) = utxo[s]

(* None of the "both in this.toAdd and other.toRemove" style errors of     *)
(* diffFrom, withDiffInPlace, addEntry or removeEntry is ever returned     *)
(* while every diff is over the same base.                                 *)
NeverFails == ~err

(* DiffFrom leads from one slot's set to another's, WithDiff undoes it and *)
(* Reversed turns it round: the three facts resolveSingleBlockStatus and   *)
(* ReverseUTXODiffs rest on.                                               *)
DiffFromLeadsToOther ==
    \A s, t \in Slots :
        LET d == DiffFrom(diff[s], diff[t])
        IN  /\ DiffFromOK(diff[s], diff[t])
            /\ ReadThroughDiff(utxo[s], d) = utxo[t]
            /\ ReadThroughDiff(utxo[t], Reversed(d)) = utxo[s]
            /\ WithDiffOK(diff[s], d)
            /\ WithDiff(diff[s], d) = diff[t]

(* The algebra as its callers rely on it: exact diffs, no error, a commit  *)
(* and a read that agree, and DiffFrom as a way from one set to another.   *)
DiffsCorrect == DiffIsExact /\ NeverFails /\ CommitMatchesRead /\ DiffFromLeadsToOther
=============================================================================
