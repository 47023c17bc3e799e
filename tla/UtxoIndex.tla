------------------------------ MODULE UtxoIndex ------------------------------
(***************************************************************************)
(* The UTXO index: a copy of the virtual UTXO set kept in keys of its own, *)
(* with the circulating supply and the virtual parents it is a copy for.   *)
(* It is fed asynchronously by the consensus events and rebuilt by Reset.  *)
(*                                                                         *)
(* A virtual is a pair <<n, s>>: n blocks, the last of which are those of  *)
(* side s of a fork.  An index entry is a pair <<outpoint, DAA score>>.    *)
(* Every amount is 1.                                                      *)
(***************************************************************************)
EXTENDS Integers, FiniteSets, Sequences, FiniteSetsExt

CONSTANTS Step,        \* outpoints per chunk of Reset
          Capacity,    \* of the consensus events channel
          Absent       \* a key that is not in the database

VARIABLES
    entries,    \* utxoIndexBucket
    supply,     \* circulatingSupplyKey
    parents,    \* virtualParentsKey
    events,     \* the consensus events channel
    reset       \* Reset in progress: its step, the virtual and the last outpoint read

indexVars == <<entries, supply, parents, reset>>

NoReset == [step |-> "off", virtual |-> Absent, from |-> 0]

Outpoints(S) == {e[1] : e \in S}

-----------------------------------------------------------------------------
(* commit: the deletions, then the puts, in one transaction.               *)
CommitStaged(S, removed, added) ==
    {e \in S : e[1] \notin removed \cup Outpoints(added)} \cup added

(* Update: an outpoint that is staged for removal and then added is taken  *)
(* out of the staged removals and not staged for addition.                 *)
StagedRemove(event) == Outpoints(event.toRemove) \ Outpoints(event.toAdd)
StagedAdd(event) == {e \in event.toAdd : e[1] \notin Outpoints(event.toRemove)}

NewSupply(removed, added) == supply + Cardinality(added) - Cardinality(removed)

Update(event) ==
    /\ entries' = CommitStaged(entries, StagedRemove(event), StagedAdd(event))
    /\ supply' = NewSupply(StagedRemove(event), StagedAdd(event))
    /\ parents' = event.virtual
    /\ UNCHANGED reset

-----------------------------------------------------------------------------
(* Reset.  The virtual parents are the first key deleted and the last one  *)
(* written.  `virtual` is the virtual of the consensus that is asked.      *)
StartReset == reset' = [NoReset EXCEPT !.step = "unmark"]

(* Mutant: the virtual parents stay until they are overwritten.            *)
ResetUnmarkLate ==
    /\ reset.step = "unmark"
    /\ supply' = 0
    /\ reset' = [reset EXCEPT !.step = "delete"]
    /\ UNCHANGED <<entries, parents>>

ResetUnmark ==
    /\ reset.step = "unmark"
    /\ parents' = Absent /\ supply' = Absent
    /\ reset' = [reset EXCEPT !.step = "delete"]
    /\ UNCHANGED entries

ResetDelete(virtual) ==
    /\ reset.step = "delete"
    /\ entries' = {} /\ supply' = Cardinality(entries')
    /\ reset' = [step |-> "copy", virtual |-> virtual, from |-> 0]
    /\ UNCHANGED parents

(* The outpoints after `from`, at most Step of them.                       *)
NextChunk(utxos) ==
    LET rest == {e \in utxos : e[1] > reset.from}
    IN  {e \in rest : Cardinality({d \in rest : d[1] < e[1]}) < Step}

ResetCopy(utxos) ==
    /\ reset.step = "copy"
    /\ LET chunk == NextChunk(utxos) IN
        /\ entries' = CommitStaged(entries, {}, chunk)
        /\ supply' = supply + Cardinality(chunk)
        /\ reset' = IF Cardinality(chunk) < Step THEN [reset EXCEPT !.step = "mark"]
                    ELSE [reset EXCEPT !.from = Max(Outpoints(chunk))]
    /\ UNCHANGED parents

ResetMark ==
    /\ reset.step = "mark"
    /\ parents' = reset.virtual
    /\ reset' = NoReset
    /\ UNCHANGED <<entries, supply>>

(* New: the index is rebuilt unless it is a copy for this virtual.         *)
IsSynced(virtual) == parents = virtual /\ supply # Absent

-----------------------------------------------------------------------------
(* Mutant: off by one.                                                     *)
FullLate(queue) == Len(queue) = Capacity + 1

(* The channel.  A full channel is an error, never a wait.                 *)
Full(queue) == Len(queue) = Capacity

(* The index once the queued events have been applied to it.               *)
Caught(queue, S) ==
    LET caught[i \in 0..Len(queue)] ==
            IF i = 0 THEN S
            ELSE IF queue[i].kind = "block" THEN caught[i - 1]
            ELSE CommitStaged(caught[i - 1], StagedRemove(queue[i]), StagedAdd(queue[i]))
    IN  caught[Len(queue)]
=============================================================================
