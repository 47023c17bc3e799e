------------------------------- MODULE Pruning -------------------------------
(***************************************************************************)
(* The pruning point: which block of the selected chain it is, how every   *)
(* header commits to it, and how the node moves its own pruning point,     *)
(* rewrites the UTXO set it keeps for it and deletes what lies below.      *)
(*                                                                         *)
(* The DAG is abstracted to its selected-parent tree.  Merging shows only  *)
(* in the blue score, which grows by a member of Gaps from a selected      *)
(* parent to its child.  Blocks are numbered in order of arrival; block 0  *)
(* is the genesis.                                                         *)
(***************************************************************************)
EXTENDS Integers, FiniteSets, Sequences, FiniteSetsExt, SequencesExt

CONSTANTS MaxBlocks,        \* bound: blocks after the genesis
          Gaps,             \* blue scores a block may add to its selected parent's
          FinalityInterval, \* pm.finalityInterval, also the finality depth
          PruningDepth,     \* pm.pruningDepth
          MergeDepth,       \* mdm.mergeDepth
          Window,           \* pm.difficultyAdjustmentWindowSize
          Chunk,            \* virtualResolveChunk, in chain blocks
          MaxReorg,         \* blocks arrive at most this far below the best header
          MaxSide,          \* bound: blocks that are on no longest chain
          MaxDrop,          \* blue score the virtual may lose in a reorganisation
          CrashPoints,      \* jobs during which the process may stop
          MaxCrashes,       \* bound: crashes
          VirtualGenesis,   \* model.VirtualGenesisBlockHash
          Failure           \* an error that is not a rule error

(* The depths are ordered the way dagconfig orders them, and a chunk is    *)
(* shorter than a finality interval (the comment at virtualResolveChunk).  *)
ASSUME DepthsAssumption ==
    /\ FinalityInterval \in Nat \ {0} /\ MergeDepth \in 1..FinalityInterval
    /\ PruningDepth > 2 * FinalityInterval
    /\ Gaps \subseteq Nat \ {0} /\ Gaps # {}
    /\ \A g \in Gaps : Chunk * g < FinalityInterval /\ g < PruningDepth

VARIABLES
    sp,         \* selected parent of every block but the genesis
    score,      \* blue score of every block
    chain,      \* a block's selected parent chain with itself (reachability tree)
    header,     \* the pruning point in the header of every block
    finality,   \* finalityStore
    mergeRoot,  \* mergeDepthRootStore
    vsp,        \* the virtual's selected parent
    points,     \* pruningStore: pruning points by index, the last is current
    candidate,  \* pruningStore: pruning point candidate
    updating,   \* pruningStore: the "updating pruning point UTXO set" flag
    utxos,      \* pruningStore: the pruning point UTXO set
    pruned,     \* blocks whose data has been deleted (StatusHeaderOnly)
    job,        \* what the holder of the consensus lock does next
    starting,   \* NewConsensus has not returned yet
    crashes

dagVars == <<sp, score, chain, header, finality, mergeRoot>>
storeVars == <<points, candidate, updating, utxos, pruned>>
vars == <<dagVars, vsp, storeVars, job, starting, crashes>>

Genesis == 0
Blocks == DOMAIN score
Jobs == {"idle", "moved", "saved", "written", "deleted", "down", "failed"}

HighestOf(S) == CHOOSE b \in S : \A c \in S : score[c] <= score[b]
LowestOf(S) == CHOOSE b \in S : \A c \in S : score[c] >= score[b]

(* finalityScore: the finality intervals passed since the genesis.         *)
FinalityScore(b) == score[b] \div FinalityInterval

PruningPoint == Last(points)

-----------------------------------------------------------------------------
(* nextPruningPointAndCandidateByBlockHash: the chain blocks from low up   *)
(* to end that are deep enough below blue score s are tried in order.      *)

Deep(s, low, end) == {c \in chain[end] : low \in chain[c] /\ s - score[c] >= PruningDepth}

(* Mutant: computed afresh, forgetting the current pruning point.          *)
NextPruningPointFresh(s, low, end) ==
    LET deep == {Genesis} \cup Deep(s, Genesis, end)
    IN  LowestOf({c \in deep : FinalityScore(c) = Max({FinalityScore(d) : d \in deep})})

NextPruningPoint(s, low, end) ==
    LET deep == Deep(s, low, end)
        best == Max({FinalityScore(c) : c \in deep})
    IN  IF deep = {} THEN PruningPoint
        ELSE IF best <= FinalityScore(PruningPoint) THEN PruningPoint
        ELSE LowestOf({c \in deep : FinalityScore(c) = best})

(* Mutant: the candidate runs ahead to the end of the iteration.           *)
NextCandidateAbove(s, low, end) ==
    LET deep == Deep(s, low, end) IN IF deep = {} THEN low ELSE end

NextCandidate(s, low, end) ==
    LET deep == Deep(s, low, end) IN IF deep = {} THEN candidate ELSE HighestOf(deep)

(* Where the iteration starts, given the pruning point of the selected     *)
(* parent's header; the two must be on one chain (the panic in the code).  *)
LowHash(suggested) ==
    IF PruningPoint \notin chain[suggested] \/ suggested \in chain[candidate] THEN candidate
    ELSE IF candidate \in chain[suggested] THEN suggested
    ELSE Failure

(* Mutant: strictly deeper.                                                *)
IsInPruningDepthStrict(s, point) == s > score[point] + PruningDepth

IsInPruningDepth(s, point) == s >= score[point] + PruningDepth

(* ExpectedHeaderPruningPoint of a block with selected parent p and blue   *)
(* score s.                                                                *)
ExpectedHeaderPruningPoint(p, s) ==
    LET low == LowHash(header[p])
        required == (FinalityScore(header[p]) + 1) * FinalityInterval
        triggers == PruningPoint \in chain[p] /\ required + PruningDepth <= s
        fails == triggers /\ (low = Failure \/ low \notin chain[p])
        next == IF triggers THEN NextPruningPoint(s, low, p) ELSE header[p]
        known == {i \in DOMAIN points : IsInPruningDepth(s, points[i])}
    IN  IF p = Genesis THEN Genesis
        ELSE IF fails THEN Failure
        ELSE IF IsInPruningDepth(s, next) THEN next
        ELSE IF known = {} THEN Genesis
        ELSE points[Max(known)]

-----------------------------------------------------------------------------
(* calculateFinalityPoint and calculateMergeDepthRoot: the highest chain   *)
(* block more than depth below blue score s, found by walking up from the  *)
(* stored value of the selected parent p.                                  *)
DepthPoint(p, s, stored, depth) ==
    LET start == IF stored[p] = VirtualGenesis THEN PruningPoint ELSE stored[p]
        above == {c \in chain[p] : start \in chain[c] /\ score[c] < s - depth}
    IN  IF s < depth THEN Genesis
        ELSE IF s < score[PruningPoint] + depth \/ PruningPoint \notin chain[p] THEN VirtualGenesis
        ELSE IF p = Genesis THEN Genesis
        ELSE IF above = {} THEN start
        ELSE HighestOf(above)

FinalityPoint(p, s) == DepthPoint(p, s, finality, FinalityInterval)
MergeDepthRoot(p, s) == DepthPoint(p, s, mergeRoot, MergeDepth)
VirtualFinalityPoint == FinalityPoint(vsp, score[vsp] + 1)

(* isViolatingFinality: a finality point below the pruning point gives way *)
(* to the pruning point.                                                   *)
IsViolatingFinality(b) ==
    LET point == VirtualFinalityPoint
        below == point = VirtualGenesis \/ point \in chain[PruningPoint]
    IN  b # Genesis /\ (IF below THEN PruningPoint ELSE point) \notin chain[b]

-----------------------------------------------------------------------------
Init ==
    /\ sp = [b \in {} |-> Genesis]
    /\ score = [b \in {Genesis} |-> 0]
    /\ chain = [b \in {Genesis} |-> {Genesis}]
    /\ header = [b \in {Genesis} |-> Genesis]
    /\ finality = [b \in {Genesis} |-> Genesis]
    /\ mergeRoot = [b \in {Genesis} |-> Genesis]
    /\ vsp = Genesis
    /\ points = <<Genesis>> /\ candidate = Genesis
    /\ updating = FALSE /\ utxos = {} /\ pruned = {}
    /\ job = "idle" /\ starting = FALSE /\ crashes = 0

(* The reachability tree places the block below its selected parent.       *)
AddChild(p, b) == chain[p] \cup {b}

BestScore == Max({score[b] : b \in Blocks})

(* checkPruningPointViolation: the pruning point must be in the past.      *)
PruningPointViolation(p) == PruningPoint \notin chain[p]

(* A header arrives and is validated: checkPruningPointViolation, then     *)
(* CheckBoundedMergeDepth, which stores the two depth points, and          *)
(* validateHeaderPruningPoint.  The header is the one the node demands;    *)
(* HeaderPruningPointsAgreed says that it is the one every node demands.   *)
AddHeader(p, gap) ==
    LET b == Cardinality(Blocks)
        s == score[p] + gap
        expected == ExpectedHeaderPruningPoint(p, s)
        With(f, v) == [c \in Blocks \cup {b} |-> IF c = b THEN v ELSE f[c]]
    IN  /\ job = "idle" /\ b <= MaxBlocks
        /\ score[p] >= BestScore - MaxReorg
        /\ b - Max({Cardinality(chain[c]) : c \in Blocks} \cup {Cardinality(chain[p]) + 1}) < MaxSide
        /\ ~PruningPointViolation(p)
        /\ IF expected = Failure
           THEN job' = "failed" /\ UNCHANGED dagVars
           ELSE /\ sp' = [c \in DOMAIN sp \cup {b} |-> IF c = b THEN p ELSE sp[c]]
                /\ score' = With(score, s)
                /\ chain' = With(chain, AddChild(p, b))
                /\ header' = With(header, expected)
                /\ finality' = With(finality, FinalityPoint(p, s))
                /\ mergeRoot' = With(mergeRoot, MergeDepthRoot(p, s))
                /\ UNCHANGED job
        /\ UNCHANGED <<vsp, storeVars, starting, crashes>>

(* "cannot advance pruning point by more than one finality interval"       *)
SkipsInterval(point) == FinalityScore(point) > FinalityScore(PruningPoint) + 1

(* UpdatePruningPointByVirtual for the virtual with selected parent v, and *)
(* the commit after it; the lock holder goes on to update the UTXO set     *)
(* when the flag is set.                                                   *)
UpdatePruningPointByVirtual(v) ==
    LET low == candidate
        end == IF v = candidate THEN v ELSE sp[v]
        point == NextPruningPoint(score[v], low, end)
        moves == point # PruningPoint
    IN  IF v = Genesis
        THEN /\ job' = (IF updating THEN "saved" ELSE "idle")
             /\ UNCHANGED <<points, candidate, updating>>
        ELSE IF \/ candidate \notin chain[end]
                \/ moves /\ SkipsInterval(point)
        THEN job' = "failed" /\ UNCHANGED <<points, candidate, updating>>
        ELSE /\ candidate' = NextCandidate(score[v], low, end)
             /\ points' = (IF moves THEN Append(points, point) ELSE points)
             /\ updating' = (updating \/ moves)
             /\ job' = (IF updating' THEN "saved" ELSE "idle")

(* The virtual follows the blue work, which the blue score follows up to   *)
(* MaxDrop.                                                                *)
MayFollow(v) ==
    v \notin chain[vsp] /\ score[v] >= score[vsp] - MaxDrop /\ ~IsViolatingFinality(v)

(* validateAndInsertBlock of a block that moves the virtual, which its     *)
(* selected parent did not: the virtual and the pruning point are in one   *)
(* commit.                                                                 *)
AddBlock(v) ==
    /\ job = "idle" /\ MayFollow(v) /\ score[sp[v]] <= score[vsp]
    /\ UpdatePruningPointByVirtual(v)
    /\ vsp' = (IF job' = "failed" THEN vsp ELSE v)
    /\ UNCHANGED <<dagVars, utxos, pruned, starting, crashes>>

(* resolveVirtualChunkNoLock: the virtual is committed first.              *)
ResolveVirtual(v) ==
    /\ job = "idle" /\ MayFollow(v) /\ Cardinality(chain[v] \ chain[vsp]) <= Chunk
    /\ vsp' = v /\ job' = "moved"
    /\ UNCHANGED <<dagVars, storeVars, starting, crashes>>

(* ... and the pruning point after it.  NewConsensus ends the same way.    *)
MovePruningPoint ==
    /\ job = "moved"
    /\ UpdatePruningPointByVirtual(vsp)
    /\ starting' = FALSE
    /\ UNCHANGED <<dagVars, vsp, utxos, pruned, crashes>>

-----------------------------------------------------------------------------
(* updatePruningPoint.  The past UTXO set of a block holds the outputs of  *)
(* its selected parent and of that one's.                                  *)
PastUtxo(b) == {c \in chain[b] \ {b} : Cardinality(chain[b] \ chain[c]) <= 2}

PreviousPruningPoint == points[Len(points) - 1]

(* The diff is found through the diff children from the previous to the    *)
(* current point, or else from the acceptance data of the blocks after the *)
(* previous point; both need what deleteBlock deletes.                     *)
Between == chain[PruningPoint] \ chain[PreviousPruningPoint]
DiffChildrenKnown == ((Between \ {PruningPoint}) \cup {PreviousPruningPoint}) \cap pruned = {}
AcceptanceDataKnown == Between \cap pruned = {}

ToRemove == PastUtxo(PreviousPruningPoint) \ PastUtxo(PruningPoint)
ToAdd == PastUtxo(PruningPoint) \ PastUtxo(PreviousPruningPoint)

(* UpdatePruningPointUTXOSet after the diff was computed.                  *)
WriteUtxos ==
    /\ job = "saved"
    /\ IF DiffChildrenKnown \/ AcceptanceDataKnown
       THEN utxos' = (utxos \ ToRemove) \cup ToAdd /\ job' = "written"
       ELSE job' = "failed" /\ UNCHANGED utxos
    /\ UNCHANGED <<dagVars, vsp, points, candidate, updating, pruned, starting, crashes>>

(* calculateBlocksToKeep: the pruning point and its difficulty window.     *)
BlocksToKeep ==
    {c \in chain[PruningPoint] : Cardinality(chain[PruningPoint] \ chain[c]) <= Window}

(* deletePastBlocks and its commit: the past of the pruning point, and the *)
(* side chains none of whose blocks has it in its past.                    *)
DeletePastBlocks ==
    /\ job = "written"
    /\ pruned' = pruned \cup
           {b \in Blocks : PruningPoint \notin chain[b] /\ b \notin BlocksToKeep}
    /\ job' = "deleted"
    /\ UNCHANGED <<dagVars, vsp, points, candidate, updating, utxos, starting, crashes>>

(* FinishUpdatingPruningPointUTXOSet.  During startup the pruning point is *)
(* then moved to where the virtual calls for.                              *)
FinishUpdating ==
    /\ job = "deleted"
    /\ updating' = FALSE
    /\ job' = (IF starting THEN "moved" ELSE "idle")
    /\ UNCHANGED <<dagVars, vsp, points, candidate, utxos, pruned, starting, crashes>>

(* The process stops.  Keys of the UTXO set are deleted and put one by     *)
(* one, so a prefix of the writes may have been made.                      *)
PartialUtxos ==
    {utxos \ R : R \in SUBSET ToRemove} \cup {(utxos \ ToRemove) \cup A : A \in SUBSET ToAdd}

Crash ==
    /\ job \in CrashPoints /\ crashes < MaxCrashes
    /\ IF job = "saved" THEN utxos' \in PartialUtxos ELSE UNCHANGED utxos
    /\ job' = "down" /\ starting' = FALSE
    /\ crashes' = crashes + 1
    /\ UNCHANGED <<dagVars, vsp, points, candidate, updating, pruned>>

(* Mutant: an unfinished update is not noticed at startup.                 *)
RestartIdle ==
    /\ job = "down" /\ job' = "idle"
    /\ UNCHANGED <<dagVars, vsp, storeVars, starting, crashes>>

(* NewConsensus: UpdatePruningPointIfRequired, then                        *)
(* UpdatePruningPointByVirtual, then UpdatePruningPointIfRequired again.   *)
Restart ==
    /\ job = "down"
    /\ starting' = TRUE
    /\ job' = (IF updating THEN "saved" ELSE "moved")
    /\ UNCHANGED <<dagVars, vsp, storeVars, crashes>>

LockHolder == MovePruningPoint \/ WriteUtxos \/ DeletePastBlocks \/ FinishUpdating

Next ==
    \/ \E p \in Blocks, gap \in Gaps : AddHeader(p, gap)
    \/ \E v \in Blocks : AddBlock(v) \/ ResolveVirtual(v)
    \/ LockHolder
    \/ Crash
    \/ Restart

Spec == Init /\ [][Next]_vars

(* The lock holder runs to the end, and the operator restarts the node.    *)
FairSpec == Spec /\ WF_vars(LockHolder) /\ WF_vars(Restart)

-----------------------------------------------------------------------------
(* The headers form a tree of selected parents with their chains, and the  *)
(* pruning and finality stores refer to blocks of it.                      *)
TypeOK ==
    /\ Blocks = 0..(Cardinality(Blocks) - 1) /\ DOMAIN sp = Blocks \ {Genesis}
    /\ \A b \in DOMAIN sp : sp[b] \in Blocks /\ sp[b] < b /\ chain[b] = chain[sp[b]] \cup {b}
    /\ header \in [Blocks -> Blocks]
    /\ finality \in [Blocks -> Blocks \cup {VirtualGenesis}]
    /\ mergeRoot \in [Blocks -> Blocks \cup {VirtualGenesis}]
    /\ vsp \in Blocks /\ points \in Seq(Blocks) /\ points # <<>> /\ candidate \in Blocks
    /\ updating \in BOOLEAN /\ utxos \subseteq Blocks /\ pruned \subseteq Blocks
    /\ job \in Jobs /\ starting \in BOOLEAN /\ crashes \in 0..MaxCrashes

(* The pruning point from a block's own point of view, from its chain      *)
(* alone: the last block that opens a finality interval and is deep enough.*)
Opens(c) == c # Genesis /\ FinalityScore(c) > FinalityScore(sp[c])
ChainPruningPoint(b) ==
    HighestOf({Genesis} \cup {c \in chain[b] : Opens(c) /\ score[b] >= score[c] + PruningDepth})

(* Whatever its virtual, candidate and pruning point were when the block   *)
(* arrived, the node demanded the pruning point that the block's own chain *)
(* determines; so two nodes never disagree about a header.                 *)
HeaderPruningPointsAgreed == \A b \in Blocks : header[b] = ChainPruningPoint(b)

ChainDepthPoint(b, depth) ==
    IF score[b] < depth \/ sp[b] = Genesis THEN Genesis
    ELSE HighestOf({Genesis} \cup {c \in chain[b] : score[c] < score[b] - depth})

(* The finality points and merge depth roots in the stores do not depend   *)
(* on the state of the node when the block arrived either.                 *)
DepthPointsAgreed ==
    \A b \in Blocks \ {Genesis} :
        /\ finality[b] = ChainDepthPoint(b, FinalityInterval)
        /\ mergeRoot[b] = ChainDepthPoint(b, MergeDepth)

(* The stored pruning points are, in order and without a gap, the blocks   *)
(* of the virtual's chain that open a finality interval; the current one   *)
(* is never behind what that chain calls for once an operation has ended.  *)
(* So there is no error other than a rule error: the candidate stays on    *)
(* the virtual's chain, the pruning point never has to skip a finality     *)
(* interval, and the data for the update of the UTXO set is still there.   *)
PruningPointsComplete ==
    /\ job # "failed"
    /\ \A i \in 1..(Len(points) - 1) : points[i] \in chain[points[i + 1]] \ {points[i + 1]}
    /\ Range(points) = {Genesis} \cup {c \in chain[PruningPoint] : Opens(c)}
    /\ PruningPoint \in chain[candidate] /\ candidate \in chain[vsp]
    /\ job = "idle" => ChainPruningPoint(vsp) \in chain[PruningPoint]

(* Whenever the flag is clear the UTXO set kept for syncing peers is that  *)
(* of the current pruning point, crashes in the middle of its update       *)
(* included.                                                               *)
PruningUtxosExact == ~updating => utxos = PastUtxo(PruningPoint)

(* Nothing the virtual may still need is deleted, and nothing below the    *)
(* pruning point and its difficulty window is left behind.                 *)
PrunedExactly ==
    LET window == {c \in chain[PruningPoint] : Cardinality(chain[PruningPoint] \ chain[c]) <= Window}
        needed == {b \in Blocks : PruningPoint \in chain[b]} \cup window
    IN  /\ pruned \cap needed = {}
        /\ ~updating => pruned = Blocks \ needed

(* A pruning point is never replaced by one that is not in its future.     *)
PruningPointAdvances == [][(PruningPoint \in chain[PruningPoint]')]_vars

(* An update that was started is finished, by the restarted node if need   *)
(* be.                                                                     *)
UpdateFinished == updating ~> ~updating

(* "If the virtual moved before shutdown but the pruning point hasn't, we  *)
(* move it if needed" (factory.go): a node that goes down comes up with    *)
(* its pruning point where the virtual calls for it.                       *)
StartupCatchesUp ==
    job = "down" ~> job = "idle" /\ ChainPruningPoint(vsp) \in chain[PruningPoint]
=============================================================================
