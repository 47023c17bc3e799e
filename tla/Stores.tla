------------------------------- MODULE Stores -------------------------------
(* The data stores of the consensus as they are built: every store keeps a *)
(* cache in front of its bucket of the database and a shard in every       *)
(* staging area that touched it.  Committing an area visits its shards one *)
(* by one, and a shard writes into the database transaction and into the   *)
(* cache of its store at the same time, so that a commit that fails leaves *)
(* caches ahead of the database.                                           *)
EXTENDS Naturals, FiniteSets

CONSTANTS
    Keys, Values, None,
    Uncached,       \* marks a key a cache does not hold
    Areas,          \* staging areas one operation has open at the same time
    Capacity,       \* entries a cache holds
    Scopes,         \* what a behaviour is about: [stores, areas, keys, values]
    MaxStaged,      \* entries staged at the same time
    MaxCommits, MaxRestarts

VARIABLES
    scope,      \* the stores of this behaviour, the areas, keys and values it uses
    db,         \* store -> key -> value or None
    cache,      \* store -> key -> value, None (a cached miss) or Uncached
    area,       \* area -> [add: store -> key -> value, del: store -> keys]
    answer,     \* what a read returns in this step
    up,         \* FALSE after a failed commit: the process is panicking
    commits, restarts

storeVars == <<scope, db, cache, area, answer, up, commits, restarts>>

-----------------------------------------------------------------------------
(* What sets a store apart when it is read and staged for: it may remember *)
(* in its cache that a key is missing, keep the first value staged for a   *)
(* key, or see the removals that are staged with it.                       *)
acceptanceDataStore == {}
blockStore == {}
blockHeaderStore == {}
multisetStore == {}
utxoDiffStore == {}
daaBlocksStore == {}
blockRelationStore == {}
blockStatusStore == {}
finalityStore == {}
mergeDepthRootStore == {}
ghostdagDataStore == {}
headersSelectedTipStore == {}
reachabilityDataStore == {"cachesMisses"}
daaWindowStore == {"cachesMisses", "keepsFirst"}
blockWindowHeapSliceStore == {}
tipsOfConsensusState == {}
pruningStore == {}
consensusStateStore == {"seesRemovals"}

(* What its shard does on a commit: additions and then deletions, or       *)
(* additions alone, or the removals of a diff before its additions, or     *)
(* nothing but an addition to the cache.                                   *)
acceptanceDataStagingShard == "addDelete"
blockStagingShard == "addDelete"
blockHeaderStagingShard == "addDelete"
multisetStagingShard == "addDelete"
utxoDiffStagingShard == "addDelete"
daaBlocksStagingShard == "addDelete"
blockRelationStagingShard == "add"
blockStatusStagingShard == "add"
finalityStagingShard == "add"
mergeDepthRootStagingShard == "add"
ghostdagDataStagingShard == "add"
headersSelectedTipStagingShard == "add"
reachabilityDataStagingShard == "add"
daaWindowStagingShard == "add"
pruningStagingShard == "add"
commitTips == "add"
commitVirtualUTXODiff == "removeAdd"
blockWindowHeapSliceStagingShard == "cacheOnly"

Kind(store, shard) == [reads |-> store, commits |-> shard]

KindOf ==
    [acceptanceData |-> Kind(acceptanceDataStore, acceptanceDataStagingShard),
     block |-> Kind(blockStore, blockStagingShard),
     header |-> Kind(blockHeaderStore, blockHeaderStagingShard),
     multiset |-> Kind(multisetStore, multisetStagingShard),
     utxoDiff |-> Kind(utxoDiffStore, utxoDiffStagingShard),
     utxoDiffChild |-> Kind(utxoDiffStore, utxoDiffStagingShard),
     daaScore |-> Kind(daaBlocksStore, daaBlocksStagingShard),
     daaAddedBlocks |-> Kind(daaBlocksStore, daaBlocksStagingShard),
     relations |-> Kind(blockRelationStore, blockRelationStagingShard),
     status |-> Kind(blockStatusStore, blockStatusStagingShard),
     finality |-> Kind(finalityStore, finalityStagingShard),
     mergeDepth |-> Kind(mergeDepthRootStore, mergeDepthRootStagingShard),
     ghostdag |-> Kind(ghostdagDataStore, ghostdagDataStagingShard),
     headersTip |-> Kind(headersSelectedTipStore, headersSelectedTipStagingShard),
     reachability |-> Kind(reachabilityDataStore, reachabilityDataStagingShard),
     daaWindow |-> Kind(daaWindowStore, daaWindowStagingShard),
     heapSlices |-> Kind(blockWindowHeapSliceStore, blockWindowHeapSliceStagingShard),
     tips |-> Kind(tipsOfConsensusState, commitTips),
     pruning |-> Kind(pruningStore, pruningStagingShard),
     virtualUTXOs |-> Kind(consensusStateStore, commitVirtualUTXODiff)]

AllStores == DOMAIN KindOf
Volatile == {s \in AllStores : KindOf[s].commits = "cacheOnly"}
Diffed == {s \in AllStores : KindOf[s].commits = "removeAdd"}
chosen == scope.stores

(* No value of a store is taken for a missing one.                         *)
ASSUME StoresAssumption ==
    /\ None \notin Values /\ Uncached \notin Values \cup {None}
    /\ Scopes \subseteq [stores: SUBSET AllStores, areas: SUBSET Areas, keys: SUBSET Keys, values: SUBSET Values]

-----------------------------------------------------------------------------
NewStagingArea == [add |-> [s \in chosen |-> [k \in Keys |-> None]], del |-> [s \in chosen |-> {}]]
EmptyCaches == [s \in chosen |-> [k \in Keys |-> Uncached]]

Cached(c) == {k \in Keys: c[k] # Uncached}

(* A cache after entries were added to it: each addition over the capacity *)
(* evicts some entry, it may be the one just added.                        *)
Added(c, entries) ==
    LET full == [k \in Keys |-> IF entries[k] # Uncached THEN entries[k] ELSE c[k]]
        size == IF Cardinality(Cached(full)) > Capacity THEN Capacity ELSE Cardinality(Cached(full))
    IN  {[k \in Keys |-> IF k \in kept THEN full[k] ELSE Uncached]:
            kept \in {K \in SUBSET Cached(full): Cardinality(K) = size}}

Removed(c, keys) == [k \in Keys |-> IF k \in keys THEN Uncached ELSE c[k]]

(* What a shard leaves in its store's cache, if it got as far as the keys  *)
(* in `reached`.                                                           *)
ShardCachesKeepDeleted(p, s, reached) ==
    LET entries == [k \in Keys |-> IF k \in reached /\ p.add[s][k] # None THEN p.add[s][k] ELSE Uncached]
    IN  Added(cache[s], entries)
ShardCaches(p, s, reached) ==
    LET entries == [k \in Keys |-> IF k \in reached /\ p.add[s][k] # None THEN p.add[s][k] ELSE Uncached]
        deleted == p.del[s] \cap reached
    IN  IF s \in Diffed THEN Added(Removed(cache[s], deleted), entries)
        ELSE {Removed(c, deleted): c \in Added(cache[s], entries)}

(* One member of each of the sets f[s].                                    *)
OneEach(f) == {g \in [DOMAIN f -> UNION {f[s]: s \in DOMAIN f}]: \A s \in DOMAIN f: g[s] \in f[s]}

ShardWrites(p, s) ==
    [k \in Keys |-> IF s \in Volatile \/ (k \in p.del[s] /\ (s \in Diffed => p.add[s][k] = None)) THEN None
                    ELSE IF p.add[s][k] # None THEN p.add[s][k] ELSE db[s][k]]

InitStores ==
    /\ scope \in Scopes
    /\ db = [s \in chosen |-> [k \in Keys |-> None]]
    /\ cache = EmptyCaches
    /\ area = [a \in Areas |-> NewStagingArea]
    /\ answer = None
    /\ up = TRUE
    /\ commits = 0 /\ restarts = 0

Staged == {e \in Areas \X chosen \X Keys: area[e[1]].add[e[2]][e[3]] # None \/ e[3] \in area[e[1]].del[e[2]]}

(* Stage: a later value replaces an earlier one, except in the DAA window. *)
Stage(a, s, k, v) ==
    /\ s \notin Diffed
    /\ Cardinality(Staged) < MaxStaged
    /\ area' = [area EXCEPT ![a].add[s][k] = IF "keepsFirst" \in KindOf[s].reads /\ @ # None THEN @ ELSE v]
    /\ answer' = None
    /\ UNCHANGED <<scope, db, cache, up, commits, restarts>>

(* StageVirtualUTXODiff: the diff takes the place of one staged before.    *)
StageVirtualUTXODiff(a, s, removed, added) ==
    /\ s \in Diffed
    /\ area' = [area EXCEPT ![a].add[s] = added, ![a].del[s] = removed]
    /\ Cardinality(removed) + Cardinality({k \in Keys: added[k] # None}) <= MaxStaged
    /\ answer' = None
    /\ UNCHANGED <<scope, db, cache, up, commits, restarts>>

(* The stores one Delete is for: a diff and its child go together.         *)
DeletedTogether(s) == IF s = "utxoDiff" THEN {"utxoDiff", "utxoDiffChild"} ELSE {s}

(* Delete: a value staged in the same area is taken back instead, and then *)
(* what the database holds for the key stays there.                        *)
Delete(a, s, k) ==
    LET together == DeletedTogether(s) \cap chosen
    IN  /\ KindOf[s].commits = "addDelete" /\ s \notin {"utxoDiffChild", "daaScore", "daaAddedBlocks"}
        /\ Cardinality(Staged) < MaxStaged
        /\ area' = IF \E t \in together: area[a].add[t][k] # None
                   THEN [area EXCEPT ![a].add = [t \in chosen |->
                            IF t \in together THEN [@[t] EXCEPT ![k] = None] ELSE @[t]]]
                   ELSE [area EXCEPT ![a].del = [t \in chosen |->
                            IF t \in together THEN @[t] \cup {k} ELSE @[t]]]
        /\ answer' = None
        /\ UNCHANGED <<scope, db, cache, up, commits, restarts>>

(* Delete of the DAA blocks store: a staged score or list of added blocks  *)
(* is taken back; where one is not staged, it is the list of added blocks  *)
(* that gets deleted, in both cases.                                       *)
DeleteDAABlocks(a, k) ==
    LET stores == {"daaScore", "daaAddedBlocks"}
    IN  /\ stores \subseteq chosen
        /\ Cardinality(Staged) < MaxStaged
        /\ area' = [area EXCEPT
               ![a].add = [t \in chosen |-> IF t \in stores THEN [@[t] EXCEPT ![k] = None] ELSE @[t]],
               ![a].del["daaAddedBlocks"] = IF \E t \in stores: area[a].add[t][k] = None THEN @ \cup {k} ELSE @]
        /\ answer' = None
        /\ UNCHANGED <<scope, db, cache, up, commits, restarts>>

(* UnstageAll of the relation and GHOSTDAG data stores.                    *)
UnstageAll(a, s) ==
    /\ s \in {"relations", "ghostdag"}
    /\ area' = [area EXCEPT ![a].add[s] = [k \in Keys |-> None]]
    /\ answer' = None
    /\ UNCHANGED <<scope, db, cache, up, commits, restarts>>

(* Get: the area's shard, the cache, the database; what the database       *)
(* returns goes into the cache, a miss only in the stores that cache one.  *)
ReadThrough(s, k) ==
    /\ answer' = db[s][k]
    /\ IF db[s][k] # None \/ "cachesMisses" \in KindOf[s].reads
       THEN \E c \in Added(cache[s], [x \in Keys |-> IF x = k THEN db[s][k] ELSE Uncached]):
                cache' = [cache EXCEPT ![s] = c]
       ELSE UNCHANGED cache
Get(a, s, k) ==
    /\ IF "seesRemovals" \in KindOf[s].reads /\ k \in area[a].del[s] THEN answer' = None /\ UNCHANGED cache
       ELSE IF area[a].add[s][k] # None THEN answer' = area[a].add[s][k] /\ UNCHANGED cache
       ELSE IF cache[s][k] # Uncached THEN answer' = cache[s][k] /\ UNCHANGED cache
       ELSE ReadThrough(s, k)
    /\ UNCHANGED <<scope, db, area, up, commits, restarts>>

(* CommitAllChanges that succeeds.                                         *)
CommitAllChanges(a) ==
    /\ commits < MaxCommits
    /\ cache' \in OneEach([s \in chosen |-> ShardCaches(area[a], s, Keys)])
    /\ db' = [s \in chosen |-> ShardWrites(area[a], s)]
    /\ area' = [area EXCEPT ![a] = NewStagingArea]
    /\ commits' = commits + 1
    /\ answer' = None
    /\ UNCHANGED <<scope, up, restarts>>

(* CommitAllChanges that fails: Begin, some Put or Delete in the middle of *)
(* a shard, or the final dbTx.Commit.  The shards already visited, and     *)
(* part of the one that failed, are in the caches; nothing is in the       *)
(* database.  The error is no rule error, so the flow that got it panics.  *)
CommitFails(a) ==
    /\ commits < MaxCommits
    /\ \E visited \in SUBSET chosen: \E failed \in SUBSET (chosen \ visited):
          /\ Cardinality(failed) <= 1
          /\ cache' \in OneEach([s \in chosen |->
                IF s \in visited THEN ShardCaches(area[a], s, Keys)
                ELSE IF s \in failed THEN UNION {ShardCaches(area[a], s, K): K \in SUBSET Keys}
                ELSE {cache[s]}])
    /\ area' = [b \in Areas |-> NewStagingArea]
    /\ up' = FALSE
    /\ commits' = commits + 1
    /\ answer' = None
    /\ UNCHANGED <<scope, db, restarts>>

(* The operation ends on a rule error or was a read: its areas are dropped.*)
Discard ==
    /\ area # [a \in Areas |-> NewStagingArea]
    /\ area' = [a \in Areas |-> NewStagingArea]
    /\ answer' = None
    /\ UNCHANGED <<scope, db, cache, up, commits, restarts>>

(* The process dies, panicking or at any other moment, and starts again.   *)
Restart ==
    /\ restarts < MaxRestarts
    /\ restarts' = restarts + 1
    /\ cache' = EmptyCaches
    /\ area' = [a \in Areas |-> NewStagingArea]
    /\ up' = TRUE /\ answer' = None
    /\ UNCHANGED <<scope, db, commits>>

NextStores ==
    \/ \E a \in scope.areas, s \in chosen, k \in scope.keys:
          Get(a, s, k) \/ Delete(a, s, k) \/ \E v \in scope.values: Stage(a, s, k, v)
    \/ \E a \in scope.areas, s \in chosen \cap Diffed, removed \in SUBSET scope.keys, added \in [Keys -> scope.values \cup {None}]:
          StageVirtualUTXODiff(a, s, removed, added)
    \/ \E a \in scope.areas, k \in scope.keys: DeleteDAABlocks(a, k)
    \/ \E a \in scope.areas, s \in chosen: UnstageAll(a, s)
    \/ \E a \in scope.areas: CommitAllChanges(a) \/ CommitFails(a)
    \/ Discard
    \/ Restart

SpecStores == InitStores /\ [][NextStores]_storeVars

-----------------------------------------------------------------------------
(* Every cache, area and bucket holds values of its store or nothing.      *)
StoresTypeOK ==
    /\ db \in [chosen -> [Keys -> Values \cup {None}]]
    /\ cache \in [chosen -> [Keys -> Values \cup {None, Uncached}]]
    /\ \A a \in Areas, s \in chosen: KindOf[s].commits \in {"add", "cacheOnly"} => area[a].del[s] = {}

(* While no commit has failed, a cache never disagrees with the bucket     *)
(* behind it: whatever was committed, read, missed, deleted or evicted     *)
(* before, a cached value is the committed one and a cached miss is absent *)
(* from the database.                                                      *)
CachesCoherent ==
    up => \A s \in chosen, k \in Keys:
            s \notin Volatile /\ cache[s][k] # Uncached => cache[s][k] = db[s][k]

(* The stores with their caches, shards and evictions implement stores     *)
(* that have none: every read of a process that has not failed answers     *)
(* what is staged in its area or committed, and every commit is atomic.    *)
Abstract == INSTANCE AtomicStore WITH
    stores <- chosen, store <- db, pending <- area
ImplementsAtomicStore == Abstract!ASpec
=============================================================================
