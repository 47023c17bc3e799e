--------------------------- MODULE ConsensusState ---------------------------
(***************************************************************************)
(* The consensus state manager: how the node keeps the UTXO set of the     *)
(* virtual block, and a way back to the UTXO set of every verified block,  *)
(* while blocks arrive, chains are resolved in chunks and the process      *)
(* crashes between two database commits.                                   *)
(*                                                                         *)
(* domain/consensus/processes/consensusstatemanager, with the parts of     *)
(* blockprocessor, consensus.go and the stores it drives.                  *)
(*                                                                         *)
(* Blocks are numbers; the number is the block hash.  Every block is blue  *)
(* (K is larger than any anticone here), so the blue work of a block is    *)
(* the size of its past, and so is its DAA score.  The merge set limits,   *)
(* finality and pruning are outside the depth of these DAGs.               *)
(***************************************************************************)
EXTENDS UtxoDiff, Naturals, FiniteSets, Sequences, SequencesExt

CONSTANTS Blocks,         \* block hashes, a finite set of naturals
          Genesis,        \* the first block
          NoBlock, NoDiff,    \* nil
          Transactions,   \* block -> the sequence of its non-coinbase transactions
          Inputs,         \* transaction -> the outpoints it spends
          Outputs,        \* transaction -> the outpoints it creates
          Environments    \* what may surround the node, see env

ASSUME BlocksAssumption ==
    /\ IsFiniteSet(Blocks) /\ Blocks \subseteq Nat
    /\ Genesis \in Blocks /\ NoBlock \notin Blocks
    /\ \A e \in Environments :
          /\ e.badHeaders \subseteq Blocks \ {Genesis}
          /\ e.onlyValidBlocks \in BOOLEAN /\ e.updateVirtualArgs \subseteq BOOLEAN
          /\ e.minable \subseteq Blocks /\ e.chunkSize \in Nat /\ e.maxCrashes \in Nat

VARIABLES env,        \* the environment of this behaviour, fixed at the start
          dag,        \* every block ever mined: its parents, past and selected chain
          db,         \* the consensus database
          job,        \* the operation that holds the consensus lock
          notUpdated, \* consensus.virtualNotUpdated, in memory
          failed,     \* the last operation returned an error that is no rule error
          crashes     \* crashes so far

vars == <<env, dag, db, job, notUpdated, failed, crashes>>
(* badHeaders: blocks whose header or coinbase fails verifyUTXO;           *)
(* onlyValidBlocks: every block is mined by an honest node;                *)
(* updateVirtualArgs: the values of updateVirtual, TRUE relay, FALSE IBD.  *)
BadHeaders == env.badHeaders
OnlyValidBlocks == env.onlyValidBlocks
UpdateVirtualArgs == env.updateVirtualArgs
(* minable: the blocks that may be found; chunkSize: maxBlocksToResolve;   *)
(* crashPoints: <<operation, stage>> pairs at which a crash is explored,   *)
(* maxCrashes times at most.                                               *)
ChunkSize == env.chunkSize
CrashPoints == env.crashPoints
MaxCrashes == env.maxCrashes
-----------------------------------------------------------------------------
(* The DAG: blockRelationStore, reachability and GHOSTDAG data.            *)
Mined == DOMAIN dag

(* ghostdagManager.less, compare.go: blue work, then hash. *)
BlueWork(b) == Cardinality(dag[b].past)
Less(a, b) ==
    \/ BlueWork(a) < BlueWork(b)
    \/ BlueWork(a) = BlueWork(b) /\ a < b

(* ChooseSelectedParent *)
Best(bs) == CHOOSE b \in bs : \A c \in bs \ {b} : Less(c, b)

SelectedParent(b) == IF b = Genesis THEN NoBlock ELSE Best(dag[b].parents)

PastOf(parents) == parents \cup UNION {dag[p].past : p \in parents}

(* The merge set of a block with these parents, without its selected parent. *)
MergeSet(parents) ==
    PastOf(parents) \ (dag[Best(parents)].past \cup {Best(parents)})

(* A left fold over a set of blocks in increasing GHOSTDAG order. *)
FoldBlocks(op(_, _), start, bs) ==
    MapThenFoldSet(op, start, LAMBDA b : b, Best, bs)
-----------------------------------------------------------------------------
(* Acceptance of the merge set.                                            *)
Ok(d) == [ok |-> TRUE, diff |-> d]
Error == [ok |-> FALSE, diff |-> NoDiff]

(* populateTransactionWithUTXOEntriesFromVirtualOrDiff: the diff first,    *)
(* then the virtual UTXO set.                                              *)
Lookup(utxo, d, o) ==
    IF ContainsOutpoint(d.toAdd, o) THEN {e \in d.toAdd : e[1] = o}
    ELSE IF ContainsOutpoint(d.toRemove, o) THEN {}
    ELSE {e \in utxo : e[1] = o}

Populated(utxo, d, tx) == \A o \in Inputs[tx] : Lookup(utxo, d, o) # {}

Spend(utxo, d, tx) == UNION {Lookup(utxo, d, o) : o \in Inputs[tx]}

(* mutableUTXODiff.AddTransaction with its error. *)
AddTx(r, spent, created) ==
    IF r.ok /\ AddTransactionOK(r.diff, spent, created)
    THEN Ok(AddTransaction(r.diff, spent, created)) ELSE Error

(* maybeAcceptTransaction for a transaction that is not a coinbase. *)
MaybeAccept(utxo, daaScore, r, tx) ==
    IF r.ok /\ Populated(utxo, r.diff, tx)
    THEN AddTx(r, Spend(utxo, r.diff, tx), Outputs[tx] \X {daaScore}) ELSE r

(* applyMergeSetBlocks: the selected parent first, then the rest of the    *)
(* merge set in increasing order.  Only the selected parent's coinbase,    *)
(* whose outpoint is named after the block, is accepted.                   *)
ApplyMergeSetBlocks(utxo, parents, spDiff) ==
    LET sp == Best(parents)
        daaScore == Cardinality(PastOf(parents))
        AcceptAll(b, r) == FoldLeft(LAMBDA q, tx : MaybeAccept(utxo, daaScore, q, tx),
                                    r, Transactions[b])
        coinbase == AddTx(Ok(spDiff), {}, {<<sp, daaScore>>})
    IN  FoldBlocks(AcceptAll, AcceptAll(sp, coinbase), MergeSet(parents))
-----------------------------------------------------------------------------
(* The stores, as a view: the database or the database under a staging     *)
(* area.                                                                   *)

(* utxoDiffStore.Stage: a nil diff child leaves the stored one in place.   *)
StageDiff(view, b, d, child) ==
    [view EXCEPT !.diff[b] = d,
                 !.diffChild[b] = IF child = NoBlock THEN @ ELSE child]

StageStatus(view, b, s) == [view EXCEPT !.status[b] = s]

(* virtualSelectedParent *)
VirtualSelectedParent(view) == Best(view.virtualParents)

(* restorePastUTXO: the stored diffs on the way along the diff children to *)
(* the virtual are applied last to first.  A missing diff is an error; a   *)
(* cycle, on which the code would not return, is one here.                 *)
RestorePastUTXO(view, block) ==
    LET Restore[n \in 0..Cardinality(Blocks), b \in Blocks] ==
            IF n = 0 \/ view.diff[b] = NoDiff THEN Error
            ELSE LET child == view.diffChild[b]
                     rest == IF child = NoBlock THEN Ok(EmptyDiff) ELSE Restore[n - 1, child]
                 IN  IF rest.ok /\ WithDiffOK(rest.diff, view.diff[b])
                     THEN Ok(WithDiff(rest.diff, view.diff[b])) ELSE Error
    IN  Restore[Cardinality(Blocks), block]

DiffFromResult(this, other) ==
    IF DiffFromOK(this, other) THEN Ok(DiffFrom(this, other)) ELSE Error

(* getUnverifiedChainBlocks, a set: the chain blocks of b above the newest *)
(* one that is not pending.                                                *)
UnverifiedChainBlocks(view, b) ==
    {c \in dag[b].chain :
        \A d \in dag[b].chain : ~Less(d, c) => view.status[d] = "pending"}

Oldest(bs) == CHOOSE b \in bs : \A c \in bs \ {b} : Less(b, c)
-----------------------------------------------------------------------------
(* Mutant: only the header and the coinbase are verified. *)
VerifyUTXOHeaderOnly(utxo, b, past) == b \notin BadHeaders

(* verifyUTXO: header commitments and coinbase, then every transaction     *)
(* against the block's past UTXO.                                          *)
VerifyUTXO(utxo, b, past) ==
    /\ b \notin BadHeaders
    /\ \A i \in DOMAIN Transactions[b] : Populated(utxo, past, Transactions[b][i])

Result(ok, s, utxoDiff, view) == [ok |-> ok, status |-> s, past |-> utxoDiff, view |-> view]

(* resolveSingleBlockStatus *)
ResolveSingleBlockStatus(view, b, sp, spPast, isResolveTip) ==
    LET past == ApplyMergeSetBlocks(view.utxo, dag[b].parents, spPast)
        oldTip == VirtualSelectedParent(view)
        oldTipPast == RestorePastUTXO(view, oldTip)
        oldTipDiff == DiffFromResult(past.diff, oldTipPast.diff)
        toOldTip == DiffFromResult(oldTipPast.diff, past.diff)
        toParent == DiffFromResult(spPast, past.diff)
        Failed == Result(FALSE, "pending", NoDiff, view)
        Valid(r, v) == IF r.ok THEN Result(TRUE, "valid", past.diff, v) ELSE Failed
    IN  IF ~past.ok THEN Failed
        ELSE IF ~VerifyUTXO(view.utxo, b, past.diff)
        THEN Result(TRUE, "disqualified", NoDiff, view)
        ELSE IF ~isResolveTip
        THEN Valid(toParent, StageDiff(view, b, toParent.diff, sp))
        ELSE IF ~oldTipPast.ok THEN Failed
        ELSE IF Less(oldTip, b)
        THEN Valid(oldTipDiff, StageDiff(StageDiff(view, oldTip, oldTipDiff.diff, b),
                                         b, past.diff, NoBlock))
        ELSE Valid(toOldTip, StageDiff(view, b, toOldTip.diff, oldTip))

(* One turn of the loop of resolveBlockStatus: a block above a             *)
(* disqualified one is disqualified without being verified.                *)
ResolveNext(view, b, prev, isResolveTip) ==
    LET r == IF prev.status = "disqualified"
             THEN Result(TRUE, "disqualified", NoDiff, view)
             ELSE ResolveSingleBlockStatus(view, b, prev.block, prev.past, isResolveTip)
    IN  [r EXCEPT !.view = StageStatus(@, b, r.status)]

(* selectedParentInfo *)
SelectedParentInfo(view, b) ==
    LET sp == SelectedParent(b)
        past == RestorePastUTXO(view, sp)
    IN  IF view.status[sp] = "valid"
        THEN [ok |-> past.ok, block |-> sp, status |-> "valid", past |-> past.diff]
        ELSE [ok |-> TRUE, block |-> sp, status |-> view.status[sp], past |-> NoDiff]
-----------------------------------------------------------------------------
(* The virtual block.                                                      *)

(* Children of a block with a body, without the virtual. *)
Children(view, b) == {c \in Mined : view.status[c] # "none" /\ b \in dag[c].parents}

(* selectVirtualSelectedParent: pop the best candidate until it is valid;  *)
(* a candidate that is not is replaced by those of its parents all of      *)
(* whose children were popped.                                             *)
SelectVirtualSelectedParent(view, tips) ==
    LET Pick[heap \in SUBSET Blocks, popped \in SUBSET Blocks] ==
            IF heap = {} THEN [ok |-> FALSE, block |-> NoBlock, rest |-> {}]
            ELSE LET b == Best(heap)
                     seen == popped \cup {b}
                     freed == {p \in dag[b].parents : Children(view, p) \subseteq seen}
                 IN  IF view.status[b] = "valid"
                     THEN [ok |-> TRUE, block |-> b, rest |-> heap \ {b}]
                     ELSE Pick[(heap \ {b}) \cup freed, seen]
    IN  Pick[tips, {}]

(* pickVirtualParents, below its limits on parents and merge set size. *)
PickVirtualParents(view, tips) ==
    LET r == SelectVirtualSelectedParent(view, tips)
    IN  [ok |-> r.ok, parents |-> {r.block} \cup r.rest]

(* updateVirtualWithParents and updateSelectedTipUTXODiff; the staged      *)
(* virtual UTXO diff takes effect at the commit.                           *)
UpdateVirtualWithParents(view, parents) ==
    LET sp == Best(parents)
        spPast == RestorePastUTXO(view, sp)
        virtualDiff == ApplyMergeSetBlocks(view.utxo, parents, spPast.diff)
        tipDiff == DiffFromResult(virtualDiff.diff, view.diff[sp])
    IN  IF spPast.ok /\ virtualDiff.ok /\ tipDiff.ok
        THEN [ok |-> TRUE,
              view |-> [StageDiff(view, sp, tipDiff.diff, NoBlock)
                           EXCEPT !.virtualParents = parents,
                                  !.utxo = CommitDiff(@, virtualDiff.diff)]]
        ELSE [ok |-> FALSE, view |-> view]

(* updateVirtual: the parents that were picked, if any. *)
UpdateVirtual(view, picked) ==
    IF picked.ok THEN UpdateVirtualWithParents(view, picked.parents)
    ELSE [ok |-> FALSE, view |-> view]

(* addTip *)
AddTip(view, b) == [view EXCEPT !.tips = (@ \ dag[b].parents) \cup {b}]
-----------------------------------------------------------------------------
(* The reference: UTXO sets computed from the DAG alone, without diffs.    *)
RefAccept(set, daaScore, tx) ==
    LET spent == {e \in set : e[1] \in Inputs[tx]}
    IN  IF OutpointsOf(spent) = Inputs[tx]
        THEN (set \ spent) \cup (Outputs[tx] \X {daaScore}) ELSE set

RefMerge(set, parents) ==
    LET daaScore == Cardinality(PastOf(parents))
        AcceptAll(b, s) == FoldLeft(LAMBDA q, tx : RefAccept(q, daaScore, tx), s, Transactions[b])
    IN  FoldBlocks(AcceptAll, AcceptAll(Best(parents), set \cup {<<Best(parents), daaScore>>}),
                   MergeSet(parents))

RefUtxo[b \in Mined] ==
    IF b = Genesis THEN {} ELSE RefMerge(RefUtxo[SelectedParent(b)], dag[b].parents)

RefVerifies(b) ==
    /\ b \notin BadHeaders
    /\ \A i \in DOMAIN Transactions[b] :
          Inputs[Transactions[b][i]] \subseteq OutpointsOf(RefUtxo[b])

RefValid(b) == \A c \in dag[b].chain \ {Genesis} : RefVerifies(c)
-----------------------------------------------------------------------------
Idle == [op |-> "none", stage |-> "idle"]

(* consensus.Init and the insertion of the genesis block; a node that      *)
(* starts does not know whether its virtual is up to date (factory.go).    *)
Init ==
    /\ env \in Environments
    /\ dag = [b \in {Genesis} |-> [parents |-> {}, past |-> {}, chain |-> {Genesis}]]
    /\ db = [status |-> [b \in Blocks |-> IF b = Genesis THEN "valid" ELSE "none"],
             tips |-> {Genesis},
             virtualParents |-> {Genesis},
             utxo |-> {<<Genesis, 1>>},
             diff |-> [b \in Blocks |->
                          IF b = Genesis THEN [toAdd |-> {}, toRemove |-> {<<Genesis, 1>>}]
                          ELSE NoDiff],
             diffChild |-> [b \in Blocks |-> NoBlock]]
    /\ job = Idle
    /\ notUpdated = TRUE
    /\ failed = FALSE
    /\ crashes = 0

(* An operation that meets an internal error returns it; what it committed *)
(* before stays.                                                           *)
Abort ==
    /\ job' = Idle
    /\ failed' = TRUE
    /\ UNCHANGED <<env, dag, db, notUpdated, crashes>>

(* A miner, anywhere, finds a block on top of blocks this node has.  At    *)
(* most one block is on its way, and one more per crash.                   *)
Mine(b, parents) ==
    /\ job = Idle
    /\ b \in env.minable \ Mined
    /\ Cardinality({m \in Mined : db.status[m] = "none"}) <= crashes
    /\ parents # {} /\ \A p \in parents : db.status[p] # "none"
    /\ \A p, q \in parents : p \notin dag[q].past
    /\ dag' = [c \in Mined \cup {b} |->
                  IF c = b THEN [parents |-> parents, past |-> PastOf(parents),
                                 chain |-> dag[Best(parents)].chain \cup {b}]
                  ELSE dag[c]]
    /\ UNCHANGED <<env, db, job, notUpdated, failed, crashes>>
    /\ OnlyValidBlocks => RefValid(b)'

(* resolveBlockStatus up to its loop: the chain still to be verified and   *)
(* what is known of its selected parent.                                   *)
StartJob(op, view, target, pendingTip, updateVirtual, todo) ==
    LET info == SelectedParentInfo(view, Oldest(todo))
        start == [op |-> op, stage |-> "chain", target |-> target, pendingTip |-> pendingTip,
                  updateVirtual |-> updateVirtual, todo |-> todo,
                  long |-> Cardinality(todo) > 1,
                  prev |-> IF todo = {} THEN NoBlock ELSE info]
    IN  IF todo = {} \/ info.ok
        THEN /\ job' = start
             /\ failed' = FALSE
             /\ UNCHANGED <<env, dag, db, notUpdated, crashes>>
        ELSE Abort

(* isCandidateToBeNextVirtualSelectedParent *)
IsCandidate(b) == Less(VirtualSelectedParent(db), b)

(* ValidateAndInsertBlock.  A caller that wants the virtual updated first  *)
(* resolves it and keeps the lock, so it never inserts while notUpdated.   *)
(* Only a block that would become the virtual selected parent is verified. *)
StartAddBlock(b, updateVirtual) ==
    LET view == StageStatus(db, b, "pending")
    IN  /\ job = Idle
        /\ b \in Mined /\ db.status[b] = "none"
        /\ updateVirtual => ~notUpdated
        /\ StartJob("add", view, b, b, updateVirtual,
                    IF updateVirtual /\ IsCandidate(b)
                    THEN UnverifiedChainBlocks(view, b) ELSE {})

(* findNextPendingTip: the best tip that is not disqualified. *)
PendingTips == {t \in db.tips : db.status[t] \in {"valid", "pending"}}

(* Mutants: the chunk ends where its size says, whether or not the block   *)
(* wins; and no further block is tried when it does not.                   *)
ProcessingPointsBySize(unverified) ==
    {c \in unverified : Cardinality({d \in unverified : ~Less(c, d)}) >= ChunkSize}

ProcessingPointsExact(unverified) ==
    {c \in unverified : /\ Less(VirtualSelectedParent(db), c)
                        /\ Cardinality({d \in unverified : ~Less(c, d)}) = ChunkSize}

(* The processing point of a chunk: the first unverified block, at least   *)
(* ChunkSize from the start, that wins the virtual selected parent.        *)
ProcessingPoints(unverified) ==
    {c \in unverified : /\ Less(VirtualSelectedParent(db), c)
                        /\ Cardinality({d \in unverified : ~Less(c, d)}) >= ChunkSize}

(* ResolveVirtual, up to the call of resolveBlockStatus. *)
StartResolveVirtual ==
    LET tip == Best(PendingTips)
        unverified == UnverifiedChainBlocks(db, tip)
        points == ProcessingPoints(unverified)
    IN  /\ job = Idle
        /\ notUpdated \/ FALSE \in UpdateVirtualArgs
        /\ IF PendingTips = {} \/ (db.status[tip] = "valid" /\ tip = VirtualSelectedParent(db))
           THEN /\ notUpdated' = FALSE
                /\ failed' = FALSE
                /\ UNCHANGED <<env, dag, db, job, crashes>>
           ELSE IF ChunkSize # 0 /\ Cardinality(unverified) > ChunkSize
           THEN IF points = {} THEN Abort
                ELSE StartJob("resolve", db, Oldest(points), tip, TRUE,
                              UnverifiedChainBlocks(db, Oldest(points)))
           ELSE StartJob("resolve", db, tip, tip, TRUE, unverified)

(* One turn of the loop of resolveBlockStatus for a block that is not the  *)
(* last: it has a staging area of its own, committed at once.              *)
ResolveChainBlock ==
    LET b == Oldest(job.todo)
        r == ResolveNext(db, b, job.prev, FALSE)
    IN  /\ job.stage = "chain" /\ Cardinality(job.todo) > 1
        /\ IF r.ok
           THEN /\ db' = r.view
                /\ job' = [job EXCEPT !.todo = @ \ {b},
                                      !.prev = [ok |-> TRUE, block |-> b, status |-> r.status,
                                                past |-> r.past]]
                /\ UNCHANGED <<env, dag, notUpdated, failed, crashes>>
           ELSE Abort

(* The last turn, on the view of the staging area of the caller. *)
ResolveLast(view) ==
    IF job.todo = {}
    THEN Result(TRUE, view.status[job.target], NoDiff, view)
    ELSE ResolveNext(view, job.target, job.prev, TRUE)

(* The reversal data of resolveBlockStatus. *)
NeedsReversal(r) == r.status = "valid" /\ job.long

ReversalDiff(r) ==
    IF NeedsReversal(r) THEN DiffFromResult(r.past, job.prev.past) ELSE Ok(NoDiff)

StartReversal(r) ==
    [op |-> job.op, stage |-> "reverse", target |-> job.target, pendingTip |-> job.pendingTip,
     status |-> r.status, first |-> TRUE,
     block |-> job.prev.block, diff |-> ReversalDiff(r).diff, child |-> job.target]

LastBlockPending == job.stage = "chain" /\ Cardinality(job.todo) <= 1

(* The rest of AddBlock and the commit of the block's staging area, for    *)
(* the result r of resolveBlockStatus.                                     *)
CommitInserted(view) ==
    /\ db' = view
    /\ job' = Idle
    /\ notUpdated' = TRUE
    /\ UNCHANGED <<env, dag, failed, crashes>>

CommitUpdated(r, updated) ==
    IF r.ok /\ ReversalDiff(r).ok /\ updated.ok
    THEN /\ db' = updated.view
         /\ job' = IF NeedsReversal(r) THEN StartReversal(r) ELSE Idle
         /\ UNCHANGED <<env, dag, notUpdated, failed, crashes>>
    ELSE Abort

CommitBlock ==
    /\ job.op = "add" /\ LastBlockPending
    /\ \E r \in {ResolveLast(StageStatus(db, job.target, "pending"))} :
       \E view \in {AddTip(r.view, job.target)} :
          IF ~job.updateVirtual THEN CommitInserted(view)
          ELSE CommitUpdated(r, UpdateVirtual(view, PickVirtualParents(view, view.tips)))

(* ResolveVirtual: the resolve staging area is committed only if its last  *)
(* block is valid.                                                         *)
CommitResolved ==
    /\ job.op = "resolve" /\ LastBlockPending
    /\ \E r \in {ResolveLast(db)} :
           IF r.ok /\ ReversalDiff(r).ok
           THEN /\ db' = IF r.status = "valid" THEN r.view ELSE db
                /\ job' = IF NeedsReversal(r) THEN StartReversal(r)
                          ELSE [op |-> "resolve", stage |-> "update", target |-> job.target,
                                pendingTip |-> job.pendingTip, status |-> r.status]
                /\ UNCHANGED <<env, dag, notUpdated, failed, crashes>>
           ELSE Abort

(* ReverseUTXODiffs, one commitUTXODiffInSeparateStagingArea.  It stops    *)
(* below the first block whose diff child is not its selected parent.      *)
ReverseUTXODiff ==
    LET b == job.block
        stop == ~job.first /\ db.diffChild[b] # SelectedParent(b)
    IN  /\ job.stage = "reverse"
        /\ IF ~job.first /\ (db.diffChild[b] = NoBlock \/ db.diff[b] = NoDiff) THEN Abort
           ELSE /\ db' = StageDiff(db, b, job.diff, job.child)
                /\ job' = IF ~stop
                          THEN [job EXCEPT !.first = FALSE, !.block = SelectedParent(b),
                                           !.diff = Reversed(db.diff[b]), !.child = b]
                          ELSE IF job.op = "add" THEN Idle
                          ELSE [op |-> "resolve", stage |-> "update", target |-> job.target,
                                pendingTip |-> job.pendingTip, status |-> job.status]
                /\ UNCHANGED <<env, dag, notUpdated, failed, crashes>>

(* Mutant: a chunk that ends well counts as the whole chain. *)
ResolvedChunk == job.status = "valid"

(* isCompletelyResolved *)
ResolvedCompletely == job.target = job.pendingTip /\ job.status = "valid"

(* The rest of ResolveVirtual: the virtual gets the processing point as    *)
(* its only parent or, when the pending tip is reached, the tips below it. *)
UpdateResolvedVirtual ==
    LET lowerTips == {t \in db.tips : t = job.pendingTip \/ Less(t, job.pendingTip)}
        picked == IF ResolvedCompletely THEN PickVirtualParents(db, lowerTips)
                  ELSE [ok |-> TRUE, parents |-> {job.target}]
    IN  /\ job.stage = "update"
        /\ \E updated \in {UpdateVirtual(db, picked)} :
              IF updated.ok
              THEN /\ db' = updated.view
                   /\ job' = Idle
                   /\ notUpdated' = ~ResolvedCompletely
                   /\ UNCHANGED <<env, dag, failed, crashes>>
              ELSE Abort

(* The process stops: what is in memory is lost and the node starts anew.  *)
Crash ==
    /\ <<job.op, job.stage>> \in CrashPoints
    /\ crashes < MaxCrashes
    /\ crashes' = crashes + 1
    /\ job' = Idle
    /\ notUpdated' = TRUE
    /\ failed' = FALSE
    /\ UNCHANGED <<env, dag, db>>

JobStep == ResolveChainBlock \/ CommitBlock \/ CommitResolved \/ ReverseUTXODiff \/ UpdateResolvedVirtual

Next ==
    \/ \E b \in Blocks, parents \in SUBSET Blocks : Mine(b, parents)
    \/ \E b \in Blocks, updateVirtual \in UpdateVirtualArgs : StartAddBlock(b, updateVirtual)
    \/ StartResolveVirtual
    \/ ResolveChainBlock
    \/ CommitBlock
    \/ CommitResolved
    \/ ReverseUTXODiff
    \/ UpdateResolvedVirtual
    \/ Crash

Spec == Init /\ [][Next]_vars
-----------------------------------------------------------------------------
Statuses == {"none", "pending", "valid", "disqualified"}

(* The tables of the database and the job of the processor are typed, and  *)
(* the stored UTXO set has one entry per outpoint.                         *)
TypeOK ==
    /\ db.status \in [Blocks -> Statuses]
    /\ db.tips \subseteq Mined /\ db.virtualParents \subseteq Mined
    /\ IsCollection(db.utxo)
    /\ db.diffChild \in [Blocks -> Blocks \cup {NoBlock}]
    /\ job.op \in {"none", "add", "resolve"}
    /\ job.stage \in {"idle", "chain", "reverse", "update"}
    /\ notUpdated \in BOOLEAN /\ failed \in BOOLEAN /\ crashes \in 0..MaxCrashes

(* "A restore path to all blocks at all times": between any two commits,   *)
(* following the diff children of a valid block and applying its diffs to  *)
(* the virtual UTXO set gives exactly the UTXO set of its past.            *)
RestorePathsCorrect ==
    \A b \in Mined : db.status[b] = "valid" =>
        LET r == RestorePastUTXO(db, b)
        IN  r.ok /\ ReadThroughDiff(db.utxo, r.diff) = RefUtxo[b]

(* The UTXO set in the database is that of the virtual's parents, and no   *)
(* operation meets an internal error: a missing or inconsistent diff, a    *)
(* chunk that cannot win, a virtual without a valid parent.                *)
VirtualUtxoCorrect ==
    ~failed /\ db.utxo = RefMerge(RefUtxo[VirtualSelectedParent(db)], db.virtualParents)

(* A block is valid only if it and its whole chain verify, and is          *)
(* disqualified only if some block of the chain does not.                  *)
StatusesCorrect ==
    \A b \in Mined :
        /\ db.status[b] = "valid" => RefValid(b)
        /\ db.status[b] = "disqualified" => ~RefValid(b)

(* When nothing is in progress and the virtual is up to date, its selected *)
(* parent is the best block, among all the node has, with a valid chain:   *)
(* verifying only the blocks that win, and skipping the candidates that    *)
(* are not valid, misses none.  And no parent of the virtual is in the     *)
(* past of another: mergeSetIncrease relies on it ("we already know the    *)
(* candidate isn't an ancestor of the selectedVirtualParents"), and a      *)
(* block built on them would be rejected.                                  *)
VirtualIsBest ==
    job = Idle /\ ~notUpdated =>
        /\ VirtualSelectedParent(db) = Best({b \in Mined : db.status[b] # "none" /\ RefValid(b)})
        /\ \A p, q \in db.virtualParents : p \notin dag[q].past

(* The virtual selected parent is only ever replaced by a better block     *)
(* ("we must find a processing point which wins previous virtual selected  *)
(* parent").                                                               *)
VirtualNeverRegresses ==
    [][~Less(VirtualSelectedParent(db'), VirtualSelectedParent(db))]_vars

(* A running operation goes on, and an outdated virtual is resolved: every *)
(* relayed block, and the end of every IBD, calls ResolveVirtual; nobody   *)
(* calls it again just because it failed.  This is weak fairness of        *)
(* JobStep and StartResolveVirtual with ENABLED written out: an operation  *)
(* can take its next step until it is over, and a free lock can be taken.  *)
Fairness ==
    /\ []<>(job = Idle) \/ []<><<JobStep>>_vars
    /\ []<>(job # Idle \/ ~notUpdated \/ failed) \/ []<><<StartResolveVirtual>>_vars

FairSpec == Spec /\ Fairness

(* However many chunks it takes, and whatever crashed before, the virtual  *)
(* is brought up to date.                                                  *)
EventuallyResolved == notUpdated ~> ~notUpdated
=============================================================================
