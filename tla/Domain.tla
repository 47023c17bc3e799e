------------------------------- MODULE Domain -------------------------------
(***************************************************************************)
(* The domain: the consensus in use, the staging consensus that a headers- *)
(* proof IBD fills beside it under the other database prefix, the exchange *)
(* of the two, and the UTXO index that has to follow.  Every step between  *)
(* two database writes is a step of its own, and the process may crash     *)
(* between any two.                                                        *)
(*                                                                         *)
(* Env says what the rest of the node and the peer may do:                 *)
(*   "quiet"        a flow that holds a consensus, and the events queued,  *)
(*                  are done before a download of headers is;              *)
(*   "lateInserts"  blocks are also inserted during an IBD (submitted with *)
(*                  AllowSubmitBlockWhenNotSynced, or held by a flow that  *)
(*                  took the consensus before);                            *)
(*   "lateEvents"   events may still be queued at the exchange;            *)
(*   "peerMovesOn"  the peer's pruning point may move during the download. *)
(***************************************************************************)
EXTENDS UtxoIndex

CONSTANTS MaxVirtual,    \* bound: blocks of a virtual
          Shared,        \* blocks whose transaction is on both sides of the fork
          MaxIBD,        \* bound: IBDs with headers proof
          MaxStops,      \* bound: crashes
          Envs           \* the environments checked

(* A chunk holds an outpoint at least; the sentinel is no prefix and no    *)
(* virtual.                                                                *)
ASSUME DomainAssumption ==
    /\ Step \in Nat \ {0} /\ Capacity \in Nat /\ MaxVirtual \in Nat \ {0}
    /\ Absent \notin {0, 1} /\ Absent \notin (1..MaxVirtual) \X {0, 1}

VARIABLES
    env,
    content,     \* prefix -> what the database has under it
    virtual,     \* prefix -> the virtual of a complete consensus
    active,      \* activePrefixKey
    inactive,    \* inactivePrefixKey
    current,     \* the prefix of the instance d.consensus points to
    staging,     \* the prefix of the instance d.stagingConsensus points to
    inserter,    \* the instance a block flow holds
    ibd,         \* the step of the IBD flow
    process,     \* "down", "boot", "boot2", "up" or "failed"
    ibds, stops

domainVars == <<env, content, virtual, active, inactive, current, staging, inserter, ibd, process,
          ibds, stops, events, indexVars>>
diskVars == <<content, virtual, active, inactive>>
flowVars == <<current, staging, inserter, ibd, process>>
bounds == <<env, ibds, stops>>

DbPrefixes == {0, 1}
Flip(p) == 1 - p

(* The virtual UTXO set.  Block k creates one output; the output of an     *)
(* even block is spent by the second block after it.  The transaction of a *)
(* shared block is accepted with another DAA score on the other side.      *)
Entry(k, side) == IF k \in Shared THEN <<k, k + side>> ELSE <<k + side * MaxVirtual, k>>
Utxos(v) == {Entry(k, v[2]) : k \in {j \in 1..v[1] : ~(j % 2 = 0 /\ j + 2 <= v[1])}}

(* The change set of a move of the virtual.                                *)
Change(old, new) == [kind     |-> "virtual",
                     toAdd    |-> Utxos(new) \ Utxos(old),
                     toRemove |-> Utxos(old) \ Utxos(new),
                     virtual  |-> new]
BlockAdded == [kind |-> "block"]

-----------------------------------------------------------------------------
(* The node is synced and its index too.                                   *)
InitDomain ==
    /\ env \in Envs
    /\ content = [p \in DbPrefixes |-> IF p = 0 THEN "full" ELSE "empty"]
    /\ virtual = [p \in DbPrefixes |-> <<1, 0>>]
    /\ active = 0 /\ inactive = Absent
    /\ current = 0 /\ staging = Absent
    /\ inserter = Absent /\ ibd = "off" /\ process = "up"
    /\ ibds = 0 /\ stops = 0
    /\ events = <<>>
    /\ entries = Utxos(<<1, 0>>) /\ supply = 1 /\ parents = <<1, 0>>
    /\ reset = NoReset

(* What is lost with the process.                                          *)
Die(to) ==
    /\ process' = to
    /\ current' = Absent /\ staging' = Absent /\ inserter' = Absent /\ ibd' = "off"
    /\ events' = <<>>
    /\ reset' = NoReset

Panic ==
    /\ Die("down")
    /\ UNCHANGED <<bounds, diskVars, entries, supply, parents>>

-----------------------------------------------------------------------------
(* A block flow.  It takes the consensus once and uses it in a later step. *)
TakeConsensus ==
    /\ process = "up" /\ inserter = Absent
    /\ ibd = "off" \/ env = "lateInserts"
    /\ virtual[current][1] < MaxVirtual
    /\ inserter' = current
    /\ UNCHANGED <<bounds, diskVars, current, staging, ibd, process, events, indexVars>>

(* ValidateAndInsertBlock: the commit, then the two events.  A full        *)
(* channel is an error of the flow after the commit, hence a panic.        *)
InsertBlock ==
    /\ process = "up" /\ inserter # Absent
    /\ content[inserter] = "full" /\ virtual[inserter][1] < MaxVirtual
    /\ \E side \in {0, 1} :
        LET old == virtual[inserter]
            new == <<old[1] + 1, side>>
            sent == Append(events, BlockAdded)
        IN  /\ virtual' = [virtual EXCEPT ![inserter] = new]
            /\ IF Full(events) \/ Full(sent)
               THEN Die("down") /\ UNCHANGED <<entries, supply, parents>>
               ELSE /\ events' = Append(sent, Change(old, new))
                    /\ inserter' = Absent
                    /\ UNCHANGED <<current, staging, ibd, process, indexVars>>
    /\ UNCHANGED <<bounds, content, active, inactive>>

(* The same on an instance whose data has been deleted: what the flow      *)
(* still writes lands under the old prefix, and the flow fails.            *)
InsertIntoDeleted ==
    /\ process = "up" /\ inserter # Absent
    /\ content[inserter] # "full"
    /\ \E c \in {content[inserter], IF content[inserter] = "empty" THEN "remains" ELSE "mixed"} :
        content' = [content EXCEPT ![inserter] = c]
    /\ Die("down")
    /\ UNCHANGED <<bounds, virtual, active, inactive, entries, supply, parents>>

(* The events handler.  It waits for a Reset, which holds the mutex.       *)
HandleEvent ==
    /\ process = "up" /\ events # <<>>
    /\ Head(events).kind = "virtual" => reset.step = "off"
    /\ events' = Tail(events)
    /\ IF Head(events).kind = "virtual" THEN Update(Head(events)) ELSE UNCHANGED indexVars
    /\ UNCHANGED <<bounds, diskVars, flowVars>>

-----------------------------------------------------------------------------
(* InitStagingConsensusWithoutGenesis.                                     *)
InitStaging ==
    /\ process = "up" /\ ibd = "off"
    /\ ibds < MaxIBD /\ virtual[current][1] < MaxVirtual
    /\ inactive = Absent
    /\ inactive' = Flip(active)
    /\ ibd' = "create"
    /\ ibds' = ibds + 1
    /\ UNCHANGED <<env, stops, content, virtual, active, current, staging, inserter, process, events, indexVars>>

NewStaging ==
    /\ ibd = "create"
    /\ staging' = inactive
    /\ content' = [content EXCEPT ![inactive] = IF @ = "empty" THEN "headers" ELSE "mixed"]
    /\ ibd' = "download"
    /\ UNCHANGED <<bounds, virtual, active, inactive, current, inserter, process, events, indexVars>>

Download ==
    /\ ibd = "download"
    /\ \/ /\ env # "lateInserts" => inserter = Absent
          /\ env # "lateEvents" => events = <<>>
          /\ \E n \in virtual[active][1] + 1 .. MaxVirtual :
                virtual' = [virtual EXCEPT ![staging] = <<n, 0>>]
          /\ content' = [content EXCEPT ![staging] = IF @ = "headers" THEN "full" ELSE @]
          /\ ibd' = "commit"
       \/ /\ env = "peerMovesOn"     \* (false, nil): the headers stay, and no error is returned
          /\ ibd' = "commit"
          /\ UNCHANGED <<content, virtual>>
       \/ /\ ibd' = "delete"
          /\ UNCHANGED <<content, virtual>>
    /\ UNCHANGED <<bounds, active, inactive, current, staging, inserter, process, events, indexVars>>

(* CommitStagingConsensus: one transaction exchanges the prefixes,         *)
CommitSwap ==
    /\ ibd = "commit"
    /\ active' = inactive /\ inactive' = active
    /\ ibd' = "clear"
    /\ UNCHANGED <<bounds, content, virtual, current, staging, inserter, process, events, indexVars>>

(* Mutant: the key is deleted first, so that a crash leaves the data.      *)
DeletePrefixKeyFirst == inactive # Absent /\ inactive' = Absent /\ UNCHANGED content

(* DeleteInactivePrefix: the data, and then the key.                       *)
DeletePrefix ==
    \/ /\ inactive # Absent /\ content[inactive] # "empty"
       /\ content' = [content EXCEPT ![inactive] = "empty"]
       /\ UNCHANGED inactive
    \/ /\ inactive # Absent /\ content[inactive] = "empty"
       /\ inactive' = Absent
       /\ UNCHANGED content

(* the old data goes,                                                      *)
CommitDelete ==
    /\ ibd = "clear"
    /\ DeletePrefix
    /\ ibd' = IF inactive' = Absent THEN "point" ELSE "clear"
    /\ UNCHANGED <<bounds, virtual, active, current, staging, inserter, process, events, indexVars>>

(* and only then is the instance exchanged and the index rebuilt.          *)
CommitPointer ==
    /\ ibd = "point"
    /\ current' = staging /\ staging' = Absent
    /\ ibd' = "override"
    /\ StartReset
    /\ UNCHANGED <<bounds, diskVars, inserter, process, events, entries, supply, parents>>

(* DeleteStagingConsensus.                                                 *)
DeleteStaging ==
    /\ ibd = "delete"
    /\ DeletePrefix
    /\ IF inactive' = Absent
       THEN ibd' = "off" /\ staging' = Absent
       ELSE UNCHANGED <<ibd, staging>>
    /\ UNCHANGED <<bounds, virtual, active, current, inserter, process, events, indexVars>>

-----------------------------------------------------------------------------
(* The steps of a Reset, of the IBD flow or of the start-up.               *)
ResetProceeds == reset.step # "off" /\ content[current] = "full"

(* GetVirtualUTXOs: the virtual is no longer the expected one.             *)
VirtualMoved == reset.step = "copy" /\ virtual[current] # reset.virtual

ResetStep ==
    /\ ResetProceeds /\ ~VirtualMoved
    /\ \/ ResetUnmark \/ ResetDelete(virtual[current]) \/ ResetCopy(Utxos(virtual[current]))
       \/ ResetMark
    /\ IF reset' = NoReset THEN ibd' = "off" /\ process' = "up" ELSE UNCHANGED <<ibd, process>>
    /\ UNCHANGED <<bounds, diskVars, current, staging, inserter, events>>

ResetFails ==
    /\ ResetProceeds /\ VirtualMoved
    /\ Panic

(* There is no virtual to read.                                            *)
ResetWithoutVirtual ==
    /\ reset.step # "off" /\ content[current] # "full"
    /\ Die("failed")
    /\ UNCHANGED <<bounds, diskVars, entries, supply, parents>>

-----------------------------------------------------------------------------
CrashProcess ==
    /\ process \in {"boot", "boot2", "up"} /\ stops < MaxStops
    /\ Die("down")
    /\ stops' = stops + 1
    /\ UNCHANGED <<env, ibds, diskVars, entries, supply, parents>>

Start ==
    /\ process = "down"
    /\ process' = "boot"
    /\ UNCHANGED <<bounds, diskVars, current, staging, inserter, ibd, events, indexVars>>

(* domain.New: what an interrupted exchange or download has left goes.     *)
StartDelete ==
    /\ process = "boot" /\ DeletePrefix
    /\ UNCHANGED <<bounds, virtual, active, flowVars, events, indexVars>>

(* domain.New, then utxoindex.New.                                         *)
StartConsensus ==
    /\ process = "boot" /\ inactive = Absent
    /\ IF content[active] = "full"
       THEN /\ current' = active
            /\ IF IsSynced(virtual[active])
               THEN process' = "up" /\ UNCHANGED reset
               ELSE process' = "boot2" /\ StartReset
       ELSE process' = "failed" /\ UNCHANGED <<current, reset>>
    /\ UNCHANGED <<bounds, diskVars, staging, inserter, ibd, events, entries, supply, parents>>

Inserter == InsertBlock \/ InsertIntoDeleted
IBDFlow == NewStaging \/ Download \/ CommitSwap \/ CommitDelete \/ CommitPointer \/ DeleteStaging
Resetting == ResetStep \/ ResetFails \/ ResetWithoutVirtual
Starting == Start \/ StartDelete \/ StartConsensus

NextDomain ==
    \/ TakeConsensus \/ Inserter \/ HandleEvent
    \/ InitStaging \/ IBDFlow \/ Resetting
    \/ CrashProcess \/ Starting

SpecDomain == InitDomain /\ [][NextDomain]_domainVars

(* The goroutines run: the flows finish what they started, the events are  *)
(* handled, and a process that is down is started again.                   *)
FairDomain ==
    /\ SpecDomain
    /\ WF_domainVars(Inserter) /\ WF_domainVars(HandleEvent) /\ WF_domainVars(IBDFlow)
    /\ WF_domainVars(Resetting) /\ WF_domainVars(Starting)

-----------------------------------------------------------------------------
(* What the keys, the data under the two prefixes and the index can be; a  *)
(* node that is up has a consensus, and the events channel never holds     *)
(* more than its capacity.                                                 *)
DomainTypeOK ==
    /\ env \in Envs
    /\ content \in [DbPrefixes -> {"empty", "headers", "full", "remains", "mixed"}]
    /\ \A p \in DbPrefixes : virtual[p][1] \in 1..MaxVirtual /\ virtual[p][2] \in {0, 1}
    /\ active \in DbPrefixes
    /\ {inactive, current, staging, inserter} \subseteq DbPrefixes \cup {Absent}
    /\ Len(events) <= Capacity
    /\ process \in {"down", "boot", "boot2", "up", "failed"}
    /\ process = "up" => current # Absent

(* Whenever the process stops, the active prefix holds a complete          *)
(* consensus: the exchange never lets go of one before the other is whole  *)
(* (domain.go, CommitStagingConsensus).  And a staging consensus starts on *)
(* an empty prefix, whatever crash came before ("A fresh consensus").      *)
ExchangeSafe ==
    env # "lateInserts" =>
        /\ env # "peerMovesOn" => content[active] = "full"
        /\ \A p \in DbPrefixes : content[p] # "mixed"

(* An index that names the virtual it was made for holds the outpoints of  *)
(* that virtual and the supply of them, also after a crash in the middle   *)
(* of a Reset or with events lost: this is what New trusts (isSynced).     *)
IndexMarkTruthful ==
    env = "quiet" /\ parents # Absent =>
        /\ Outpoints(entries) = Outpoints(Utxos(parents))
        /\ supply = Cardinality(entries)

(* The violation run: so are the entries themselves, the score of the      *)
(* block that accepted them included.                                      *)
IndexEntriesExact == env = "quiet" /\ parents # Absent => entries = Utxos(parents)

(* The index with the queued events applied is the index of the virtual:   *)
(* no change of the virtual is lost between consensus and index, whether   *)
(* by a full channel, a crash or the exchange of the consensus.            *)
NoChangeLost ==
    env = "quiet" /\ process = "up" /\ reset.step = "off" /\ ibd \notin {"clear", "point"}
        => Outpoints(Caught(events, entries)) = Outpoints(Utxos(virtual[current]))

(* What isSynced trusts is true, and no change set of the virtual is       *)
(* missing between the index and the virtual: it is applied, queued, or    *)
(* the index is to be reset (utxoindex.go, New and Update).                *)
IndexConsistent == IndexMarkTruthful /\ NoChangeLost

IndexCurrent ==
    /\ process = "up" /\ reset.step = "off"
    /\ parents = virtual[current]
    /\ Outpoints(entries) = Outpoints(Utxos(virtual[current]))

(* The index catches up with the virtual again and again.                  *)
IndexCatchesUp == env = "quiet" => []<>IndexCurrent
=============================================================================
