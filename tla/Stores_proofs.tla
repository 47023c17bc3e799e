--------------------------- MODULE Stores_proofs ---------------------------
(* The stores implement AtomicStore, for any stores, keys, values, staging *)
(* areas, capacity of the caches and any number of commits and restarts.   *)
(* The inductive invariant is that a cache never disagrees with the bucket *)
(* behind it while no commit has failed.                                   *)
EXTENDS Stores, TLAPS

(* What a bucket, a cache and a shard hold.                                *)
Cells == Values \cup {None}
CacheCells == Values \cup {None, Uncached}
Shards == [add: [chosen -> [Keys -> Cells]], del: [chosen -> SUBSET Keys]]

(* Every variable has its type.                                            *)
TypeInv ==
  /\ scope \in Scopes
  /\ db \in [chosen -> [Keys -> Cells]]
  /\ cache \in [chosen -> [Keys -> CacheCells]]
  /\ area \in [Areas -> Shards]
  /\ answer \in Cells
  /\ up \in BOOLEAN

(* The store that sees staged removals is the one staged for with diffs.   *)
LEMMA StoreKinds ==
  \A s \in AllStores : "seesRemovals" \in KindOf[s].reads <=> s \in Diffed
BY DEF AllStores, KindOf, Kind, Diffed, consensusStateStore, commitVirtualUTXODiff, acceptanceDataStore, blockStore,
  blockHeaderStore, multisetStore,
  utxoDiffStore, daaBlocksStore, blockRelationStore, blockStatusStore, finalityStore, mergeDepthRootStore, ghostdagDataStore, headersSelectedTipStore,
  reachabilityDataStore, daaWindowStore, blockWindowHeapSliceStore, tipsOfConsensusState, pruningStore,
  acceptanceDataStagingShard, blockStagingShard, blockHeaderStagingShard, multisetStagingShard, utxoDiffStagingShard,
  daaBlocksStagingShard, blockRelationStagingShard, blockStatusStagingShard, finalityStagingShard,
  mergeDepthRootStagingShard, ghostdagDataStagingShard, headersSelectedTipStagingShard, reachabilityDataStagingShard,
  daaWindowStagingShard, pruningStagingShard, commitTips, blockWindowHeapSliceStagingShard

(* What Added leaves in a cache is a new entry or an old one: an eviction  *)
(* forgets, it does not change.                                            *)
LEMMA AddedFacts ==
  ASSUME NEW c \in [Keys -> CacheCells], NEW entries \in [Keys -> CacheCells], NEW d \in Added(c, entries)
  PROVE  /\ d \in [Keys -> CacheCells]
         /\ \A k \in Keys : d[k] # Uncached => d[k] = IF entries[k] # Uncached THEN entries[k] ELSE c[k]
BY DEF Added, CacheCells

(* Removed forgets some keys and leaves the others.                        *)
LEMMA RemovedFacts ==
  ASSUME NEW c \in [Keys -> CacheCells], NEW keys
  PROVE  /\ Removed(c, keys) \in [Keys -> CacheCells]
         /\ \A k \in Keys : Removed(c, keys)[k] = IF k \in keys THEN Uncached ELSE c[k]
BY DEF Removed, CacheCells

(* A shard leaves a cache with cells of a cache, however far it got.       *)
LEMMA ShardCachesType ==
  ASSUME TypeInv, NEW p \in Shards, NEW s \in chosen, NEW reached, NEW d \in ShardCaches(p, s, reached)
  PROVE  d \in [Keys -> CacheCells]
<1> DEFINE entries == [k \in Keys |-> IF k \in reached /\ p.add[s][k] # None THEN p.add[s][k] ELSE Uncached]
           deleted == p.del[s] \cap reached
<1>1. entries \in [Keys -> CacheCells] /\ cache[s] \in [Keys -> CacheCells]
  BY DEF TypeInv, Shards, Cells, CacheCells
<1>2. d \in IF s \in Diffed THEN Added(Removed(cache[s], deleted), entries)
            ELSE {Removed(c, deleted): c \in Added(cache[s], entries)}
  BY DEF ShardCaches
<1> HIDE DEF entries, deleted
<1>3. CASE s \in Diffed
  BY <1>1, <1>2, <1>3, AddedFacts, RemovedFacts
<1>4. CASE s \notin Diffed
  BY <1>1, <1>2, <1>4, AddedFacts, RemovedFacts
<1> QED BY <1>3, <1>4

(* A shard whose cache agreed with its bucket leaves in the cache what it  *)
(* leaves in the bucket: additions and deletions come in the same order in *)
(* both.                                                                   *)
LEMMA ShardCachesCoherent ==
  ASSUME TypeInv, NEW p \in Shards, NEW s \in chosen, s \notin Volatile, NEW d \in ShardCaches(p, s, Keys),
         \A k \in Keys : cache[s][k] # Uncached => cache[s][k] = db[s][k]
  PROVE  \A k \in Keys : d[k] # Uncached => d[k] = ShardWrites(p, s)[k]
<1> DEFINE entries == [k \in Keys |-> IF k \in Keys /\ p.add[s][k] # None THEN p.add[s][k] ELSE Uncached]
           deleted == p.del[s] \cap Keys
<1>1. entries \in [Keys -> CacheCells] /\ cache[s] \in [Keys -> CacheCells]
  BY DEF TypeInv, Shards, Cells, CacheCells
<1>2. d \in IF s \in Diffed THEN Added(Removed(cache[s], deleted), entries)
            ELSE {Removed(c, deleted): c \in Added(cache[s], entries)}
  BY DEF ShardCaches
<1>3. \A k \in Keys : /\ entries[k] # Uncached <=> p.add[s][k] # None
                      /\ p.add[s][k] # None => entries[k] = p.add[s][k]
                      /\ k \in deleted <=> k \in p.del[s]
  BY StoresAssumption DEF Shards, Cells
<1> SUFFICES ASSUME NEW k \in Keys, d[k] # Uncached PROVE d[k] = ShardWrites(p, s)[k]
  OBVIOUS
<1> HIDE DEF entries, deleted
<1>4. CASE s \in Diffed
  <2>1. d[k] = IF entries[k] # Uncached THEN entries[k] ELSE Removed(cache[s], deleted)[k]
    BY <1>1, <1>2, <1>4, AddedFacts, RemovedFacts
  <2>2. d[k] = IF p.add[s][k] # None THEN p.add[s][k] ELSE IF k \in p.del[s] THEN Uncached ELSE cache[s][k]
    BY <1>1, <1>3, <2>1, RemovedFacts
  <2> QED BY <1>4, <2>2 DEF ShardWrites
<1>5. CASE s \notin Diffed
  <2>1. PICK c \in Added(cache[s], entries) : d = Removed(c, deleted)
    BY <1>2, <1>5
  <2>2. c \in [Keys -> CacheCells] /\ k \notin deleted /\ d[k] = c[k]
    BY <1>1, <2>1, AddedFacts, RemovedFacts
  <2>3. d[k] = IF entries[k] # Uncached THEN entries[k] ELSE cache[s][k]
    BY <1>1, <2>1, <2>2, AddedFacts
  <2> QED BY <1>3, <1>5, <2>2, <2>3 DEF ShardWrites
<1> QED BY <1>4, <1>5

-----------------------------------------------------------------------------
(* What a behaviour uses is among what there is.                           *)
LEMMA ScopeFacts ==
  ASSUME TypeInv
  PROVE  chosen \subseteq AllStores /\ scope.areas \subseteq Areas /\ scope.keys \subseteq Keys /\ scope.values \subseteq Values
BY StoresAssumption DEF TypeInv, chosen

(* A new area has nothing staged.                                          *)
LEMMA NewStagingAreaFacts == NewStagingArea \in Shards /\ NewStagingArea.del = [s \in chosen |-> {}]
BY DEF NewStagingArea, Shards, Cells

(* Stage changes the additions of one area.                                *)
LEMMA StageMoves ==
  ASSUME TypeInv, NEW a \in Areas, NEW s \in chosen, NEW k \in Keys, NEW v \in Values, Stage(a, s, k, v)
  PROVE  area' \in [Areas -> Shards] /\ area'[a].del = area[a].del /\ \A b \in Areas \ {a} : area'[b] = area[b]
<1> DEFINE w == IF "keepsFirst" \in KindOf[s].reads /\ area[a].add[s][k] # None THEN area[a].add[s][k] ELSE v
<1>1. area \in [Areas -> Shards] /\ area[a].add \in [chosen -> [Keys -> Cells]] /\ area[a].del \in [chosen -> SUBSET Keys] /\ w \in Cells
  BY DEF TypeInv, Shards, Cells
<1>2. area' = [area EXCEPT ![a].add[s][k] = w]
  BY DEF Stage
<1> HIDE DEF w
<1> QED BY <1>1, <1>2 DEF Shards

(* StageVirtualUTXODiff changes one area, and the removals of one store.   *)
LEMMA DiffMoves ==
  ASSUME TypeInv, NEW a \in Areas, NEW s \in chosen, NEW removed \in SUBSET Keys, NEW added \in [Keys -> Cells],
         StageVirtualUTXODiff(a, s, removed, added)
  PROVE  /\ area' \in [Areas -> Shards] /\ \A b \in Areas \ {a} : area'[b] = area[b]
         /\ \A t \in chosen \ {s} : area'[a].del[t] = area[a].del[t]
<1>1. area \in [Areas -> Shards] /\ area[a].add \in [chosen -> [Keys -> Cells]] /\ area[a].del \in [chosen -> SUBSET Keys]
  BY DEF TypeInv, Shards
<1>2. area' = [area EXCEPT ![a].add[s] = added, ![a].del[s] = removed]
  BY DEF StageVirtualUTXODiff
<1> QED BY <1>1, <1>2 DEF Shards

(* Delete changes one area, and the deletions of the stores it is for.     *)
LEMMA DeleteMoves ==
  ASSUME TypeInv, NEW a \in Areas, NEW s \in chosen, NEW k \in Keys, Delete(a, s, k)
  PROVE  /\ area' \in [Areas -> Shards] /\ \A b \in Areas \ {a} : area'[b] = area[b]
         /\ \A t \in chosen \ DeletedTogether(s) : area'[a].del[t] = area[a].del[t]
<1> DEFINE together == DeletedTogether(s) \cap chosen
           add == [t \in chosen |-> IF t \in together THEN [area[a].add[t] EXCEPT ![k] = None] ELSE area[a].add[t]]
           del == [t \in chosen |-> IF t \in together THEN area[a].del[t] \cup {k} ELSE area[a].del[t]]
<1>1. area \in [Areas -> Shards] /\ area[a].add \in [chosen -> [Keys -> Cells]] /\ area[a].del \in [chosen -> SUBSET Keys]
  BY DEF TypeInv, Shards
<1>2. add \in [chosen -> [Keys -> Cells]] /\ del \in [chosen -> SUBSET Keys]
  BY <1>1 DEF Cells
<1>3. area' = [area EXCEPT ![a].add = add] \/ area' = [area EXCEPT ![a].del = del]
  BY DEF Delete
<1>4. \A t \in chosen \ DeletedTogether(s) : del[t] = area[a].del[t]
  OBVIOUS
<1> HIDE DEF add, del
<1>5. CASE area' = [area EXCEPT ![a].add = add]
  BY <1>1, <1>2, <1>5 DEF Shards
<1>6. CASE area' = [area EXCEPT ![a].del = del]
  <2>1. area' \in [Areas -> Shards] /\ area'[a].del = del /\ \A b \in Areas \ {a} : area'[b] = area[b]
    BY <1>1, <1>2, <1>6 DEF Shards
  <2> QED BY <1>4, <2>1
<1> QED BY <1>3, <1>5, <1>6

(* Delete of the DAA blocks store changes one area, and the deletions of   *)
(* the lists of added blocks.                                              *)
LEMMA DeleteDAABlocksMoves ==
  ASSUME TypeInv, NEW a \in Areas, NEW k \in Keys, DeleteDAABlocks(a, k)
  PROVE  /\ area' \in [Areas -> Shards] /\ \A b \in Areas \ {a} : area'[b] = area[b]
         /\ \A t \in chosen \ {"daaAddedBlocks"} : area'[a].del[t] = area[a].del[t]
<1> DEFINE stores == {"daaScore", "daaAddedBlocks"}
           add == [t \in chosen |-> IF t \in stores THEN [area[a].add[t] EXCEPT ![k] = None] ELSE area[a].add[t]]
           d == IF \E t \in stores: area[a].add[t][k] = None THEN area[a].del["daaAddedBlocks"] \cup {k} ELSE area[a].del["daaAddedBlocks"]
<1>1. area \in [Areas -> Shards] /\ area[a].add \in [chosen -> [Keys -> Cells]] /\ area[a].del \in [chosen -> SUBSET Keys]
  BY DEF TypeInv, Shards
<1>2. "daaAddedBlocks" \in chosen /\ add \in [chosen -> [Keys -> Cells]] /\ d \in SUBSET Keys
  BY <1>1 DEF Cells, DeleteDAABlocks
<1>3. area' = [area EXCEPT ![a].add = add, ![a].del["daaAddedBlocks"] = d]
  BY <1>1 DEF DeleteDAABlocks
<1> HIDE DEF add, d
<1> QED BY <1>1, <1>2, <1>3 DEF Shards

(* UnstageAll changes the additions of one area.                           *)
LEMMA UnstageAllMoves ==
  ASSUME TypeInv, NEW a \in Areas, NEW s \in chosen, UnstageAll(a, s)
  PROVE  area' \in [Areas -> Shards] /\ area'[a].del = area[a].del /\ \A b \in Areas \ {a} : area'[b] = area[b]
<1>1. area \in [Areas -> Shards] /\ area[a].add \in [chosen -> [Keys -> Cells]] /\ area[a].del \in [chosen -> SUBSET Keys]
  BY DEF TypeInv, Shards
<1>2. area' = [area EXCEPT ![a].add[s] = [k \in Keys |-> None]] /\ [k \in Keys |-> None] \in [Keys -> Cells]
  BY DEF UnstageAll, Cells
<1> QED BY <1>1, <1>2 DEF Shards

-----------------------------------------------------------------------------
(* What a kind of store never deletes.                                     *)
NothingDeleted == \A a \in Areas, s \in chosen: KindOf[s].commits \in {"add", "cacheOnly"} => area[a].del[s] = {}

(* Which stores the deletions are for.                                     *)
CommitKinds ==
  /\ \A s \in AllStores : KindOf[s].commits = "addDelete" => \A t \in DeletedTogether(s) : KindOf[t].commits = "addDelete"
  /\ KindOf["daaAddedBlocks"].commits = "addDelete"
  /\ \A s \in Diffed : KindOf[s].commits = "removeAdd"

(* It follows from the table of stores.                                    *)
LEMMA CommitKindsHold == CommitKinds
BY DEF CommitKinds, DeletedTogether, AllStores, KindOf, Kind, Diffed, daaBlocksStagingShard, utxoDiffStagingShard

(* A choice of one member each is a function with a member of each.        *)
LEMMA OneEachFacts ==
  ASSUME NEW S, NEW f, DOMAIN f = S, NEW g \in OneEach(f)
  PROVE  DOMAIN g = S /\ g = [s \in S |-> g[s]] /\ \A s \in S : g[s] \in f[s]
BY DEF OneEach

(* Once the areas are dropped, nothing is staged for deletion.             *)
LEMMA NewAreasFacts ==
  ASSUME area' = [a \in Areas |-> NewStagingArea] PROVE area' \in [Areas -> Shards] /\ \A a \in Areas, s \in chosen : area'[a].del[s] = {}
BY NewStagingAreaFacts

(* A read leaves in a cache what was there or what the bucket has.         *)
LEMMA GetMoves ==
  ASSUME TypeInv, NEW a \in Areas, NEW s \in chosen, NEW k \in Keys, Get(a, s, k)
  PROVE  /\ answer' \in Cells
         /\ cache' \in [chosen -> [Keys -> CacheCells]]
         /\ \A t \in chosen, x \in Keys : cache'[t][x] # Uncached => cache'[t][x] = cache[t][x] \/ cache'[t][x] = db[t][x]
<1>1. cache \in [chosen -> [Keys -> CacheCells]] /\ db[s] \in [Keys -> Cells] /\ cache[s] \in [Keys -> CacheCells] /\ area[a].add[s][k] \in Cells
  BY DEF TypeInv, Shards
<1>2. ASSUME UNCHANGED cache, answer' \in Cells
      PROVE  /\ answer' \in Cells
             /\ cache' \in [chosen -> [Keys -> CacheCells]]
             /\ \A t \in chosen, x \in Keys : cache'[t][x] # Uncached => cache'[t][x] = cache[t][x] \/ cache'[t][x] = db[t][x]
  BY <1>1, <1>2
<1>3. ASSUME NEW c \in Added(cache[s], [x \in Keys |-> IF x = k THEN db[s][k] ELSE Uncached]), cache' = [cache EXCEPT ![s] = c]
      PROVE  /\ cache' \in [chosen -> [Keys -> CacheCells]]
             /\ \A t \in chosen, x \in Keys : cache'[t][x] # Uncached => cache'[t][x] = cache[t][x] \/ cache'[t][x] = db[t][x]
  <2> DEFINE entries == [x \in Keys |-> IF x = k THEN db[s][k] ELSE Uncached]
  <2>1. entries \in [Keys -> CacheCells]
    BY <1>1 DEF Cells, CacheCells
  <2>2. c \in [Keys -> CacheCells] /\ \A x \in Keys : c[x] # Uncached => c[x] = IF entries[x] # Uncached THEN entries[x] ELSE cache[s][x]
    <3>1. c \in Added(cache[s], entries)
      BY <1>3
    <3> HIDE DEF entries
    <3> QED BY <1>1, <2>1, <3>1, AddedFacts
  <2>3. \A x \in Keys : c[x] # Uncached => c[x] = cache[s][x] \/ c[x] = db[s][x]
    BY <2>2
  <2> HIDE DEF entries
  <2> QED BY <1>1, <1>3, <2>2, <2>3
<1>4. None \in Cells /\ db[s][k] \in Cells
  BY <1>1 DEF Cells
<1>5. ASSUME ReadThrough(s, k)
      PROVE  /\ answer' \in Cells
             /\ cache' \in [chosen -> [Keys -> CacheCells]]
             /\ \A t \in chosen, x \in Keys : cache'[t][x] # Uncached => cache'[t][x] = cache[t][x] \/ cache'[t][x] = db[t][x]
  BY <1>2, <1>3, <1>4, <1>5 DEF ReadThrough
<1>6. cache[s][k] # Uncached => cache[s][k] \in Cells
  BY <1>1 DEF Cells, CacheCells
<1> QED BY <1>1, <1>2, <1>4, <1>5, <1>6 DEF Get

(* A commit leaves every store with what its shard wrote.                  *)
LEMMA CommitMoves ==
  ASSUME TypeInv, NEW a \in Areas, CommitAllChanges(a)
  PROVE  /\ db' \in [chosen -> [Keys -> Cells]]
         /\ cache' \in [chosen -> [Keys -> CacheCells]]
         /\ area' \in [Areas -> Shards] /\ area'[a] = NewStagingArea /\ \A b \in Areas \ {a} : area'[b] = area[b]
         /\ \A s \in chosen : cache'[s] \in ShardCaches(area[a], s, Keys) /\ db'[s] = ShardWrites(area[a], s)
<1>1. area[a] \in Shards /\ area \in [Areas -> Shards]
  BY DEF TypeInv
<1>2. \A s \in chosen : ShardWrites(area[a], s) \in [Keys -> Cells]
  BY <1>1 DEF ShardWrites, TypeInv, Shards, Cells
<1>3. db' = [s \in chosen |-> ShardWrites(area[a], s)]
  BY DEF CommitAllChanges
<1>4. cache' = [s \in chosen |-> cache'[s]] /\ \A s \in chosen : cache'[s] \in ShardCaches(area[a], s, Keys)
  <2> DEFINE f == [s \in chosen |-> ShardCaches(area[a], s, Keys)]
  <2>1. cache' \in OneEach(f) /\ DOMAIN f = chosen /\ \A s \in chosen : f[s] = ShardCaches(area[a], s, Keys)
    BY DEF CommitAllChanges
  <2> HIDE DEF f
  <2> QED BY <2>1, OneEachFacts
<1>5. \A s \in chosen : cache'[s] \in [Keys -> CacheCells]
  BY <1>1, <1>4, ShardCachesType
<1>6. area' = [area EXCEPT ![a] = NewStagingArea]
  BY DEF CommitAllChanges
<1>7. cache' \in [chosen -> [Keys -> CacheCells]]
  BY <1>4, <1>5
<1>8. db' \in [chosen -> [Keys -> Cells]]
  BY <1>2, <1>3
<1> QED BY <1>1, <1>3, <1>4, <1>6, <1>7, <1>8, NewStagingAreaFacts

(* A failed commit leaves the caches with cells of a cache.                *)
LEMMA FailMoves ==
  ASSUME TypeInv, NEW a \in Areas, CommitFails(a)
  PROVE  cache' \in [chosen -> [Keys -> CacheCells]]
<1>1. area[a] \in Shards /\ area \in [Areas -> Shards] /\ \A s \in chosen : cache[s] \in [Keys -> CacheCells]
  BY DEF TypeInv
<1>2. PICK visited \in SUBSET chosen : \E failed \in SUBSET (chosen \ visited) :
        cache' \in OneEach([s \in chosen |->
                IF s \in visited THEN ShardCaches(area[a], s, Keys)
                ELSE IF s \in failed THEN UNION {ShardCaches(area[a], s, K): K \in SUBSET Keys}
                ELSE {cache[s]}])
  BY DEF CommitFails
<1>3. PICK failed \in SUBSET (chosen \ visited) :
        cache' \in OneEach([s \in chosen |->
                IF s \in visited THEN ShardCaches(area[a], s, Keys)
                ELSE IF s \in failed THEN UNION {ShardCaches(area[a], s, K): K \in SUBSET Keys}
                ELSE {cache[s]}])
  BY <1>2
<1> DEFINE f == [s \in chosen |->
                IF s \in visited THEN ShardCaches(area[a], s, Keys)
                ELSE IF s \in failed THEN UNION {ShardCaches(area[a], s, K): K \in SUBSET Keys}
                ELSE {cache[s]}]
<1>4. ASSUME NEW s \in chosen, NEW c \in f[s] PROVE c \in [Keys -> CacheCells]
  <2>1. CASE s \in visited
    BY <1>1, <1>4, <2>1, ShardCachesType
  <2>2. CASE s \notin visited /\ s \in failed
    <3>1. PICK K \in SUBSET Keys : c \in ShardCaches(area[a], s, K)
      BY <1>4, <2>2
    <3> QED BY <1>1, <3>1, ShardCachesType
  <2>3. CASE s \notin visited /\ s \notin failed
    BY <1>1, <1>4, <2>3
  <2> QED BY <2>1, <2>2, <2>3
<1>5. cache' \in OneEach(f) /\ DOMAIN f = chosen
  BY <1>3
<1> HIDE DEF f
<1>6. cache' = [s \in chosen |-> cache'[s]] /\ \A s \in chosen : cache'[s] \in f[s]
  BY <1>5, OneEachFacts
<1> QED BY <1>4, <1>6

-----------------------------------------------------------------------------
(* The inductive invariant, and that every step keeps it.                  *)
IInv == TypeInv /\ NothingDeleted /\ CachesCoherent

(* Staging touches neither a cache nor a bucket.                           *)
LEMMA StagedOnly ==
  ASSUME IInv, UNCHANGED <<scope, db, cache, up>>, answer' = None, area' \in [Areas -> Shards], NothingDeleted'
  PROVE  IInv'
BY DEF IInv, TypeInv, Shards, Cells, CacheCells, chosen, CachesCoherent

(* Every step keeps it: a commit writes to caches and buckets alike, a     *)
(* read caches what the bucket has, a failed commit takes the process      *)
(* down and a restart empties the caches.                                  *)
LEMMA IInvStep == IInv /\ [NextStores]_storeVars => IInv'
<1> SUFFICES ASSUME IInv, [NextStores]_storeVars PROVE IInv'
  OBVIOUS
<1>t. TypeInv /\ NothingDeleted /\ CachesCoherent
  BY DEF IInv
<1>s. chosen \subseteq AllStores /\ scope.areas \subseteq Areas /\ scope.keys \subseteq Keys /\ scope.values \subseteq Values
  BY <1>t, ScopeFacts
<1>1. ASSUME NEW a \in scope.areas, NEW s \in chosen, NEW k \in scope.keys, NEW v \in scope.values, Stage(a, s, k, v) PROVE IInv'
  <2>1. area' \in [Areas -> Shards] /\ area'[a].del = area[a].del /\ \A b \in Areas \ {a} : area'[b] = area[b]
    BY <1>1, <1>s, <1>t, StageMoves
  <2>2. NothingDeleted'
    BY <1>1, <1>t, <2>1 DEF Stage, NothingDeleted, chosen
  <2> QED BY <1>1, <2>1, <2>2, StagedOnly DEF Stage
<1>2. ASSUME NEW a \in scope.areas, NEW s \in chosen, NEW removed \in SUBSET scope.keys,
             NEW added \in [Keys -> scope.values \cup {None}], StageVirtualUTXODiff(a, s, removed, added) PROVE IInv'
  <2>0. added \in [Keys -> Cells]
    BY <1>s DEF Cells
  <2>1. area' \in [Areas -> Shards] /\ \A t \in chosen \ {s} : area'[a].del[t] = area[a].del[t] /\ \A b \in Areas \ {a} : area'[b] = area[b]
    BY <1>2, <1>s, <1>t, <2>0, DiffMoves
  <2>2. NothingDeleted'
    BY <1>2, <1>s, <1>t, <2>1, CommitKindsHold DEF StageVirtualUTXODiff, NothingDeleted, CommitKinds, chosen
  <2> QED BY <1>2, <2>1, <2>2, StagedOnly DEF StageVirtualUTXODiff
<1>3. ASSUME NEW a \in scope.areas, NEW s \in chosen, NEW k \in scope.keys, Delete(a, s, k) PROVE IInv'
  <2>1. area' \in [Areas -> Shards] /\ \A t \in chosen \ DeletedTogether(s) : area'[a].del[t] = area[a].del[t] /\ \A b \in Areas \ {a} : area'[b] = area[b]
    BY <1>3, <1>s, <1>t, DeleteMoves
  <2>2. NothingDeleted'
    BY <1>3, <1>s, <1>t, <2>1, CommitKindsHold DEF Delete, NothingDeleted, CommitKinds, chosen
  <2> QED BY <1>3, <2>1, <2>2, StagedOnly DEF Delete
<1>4. ASSUME NEW a \in scope.areas, NEW k \in scope.keys, DeleteDAABlocks(a, k) PROVE IInv'
  <2>1. area' \in [Areas -> Shards] /\ \A t \in chosen \ {"daaAddedBlocks"} : area'[a].del[t] = area[a].del[t] /\ \A b \in Areas \ {a} : area'[b] = area[b]
    BY <1>4, <1>s, <1>t, DeleteDAABlocksMoves
  <2>2. NothingDeleted'
    BY <1>4, <1>t, <2>1, CommitKindsHold DEF DeleteDAABlocks, NothingDeleted, CommitKinds, chosen
  <2> QED BY <1>4, <2>1, <2>2, StagedOnly DEF DeleteDAABlocks
<1>5. ASSUME NEW a \in scope.areas, NEW s \in chosen, UnstageAll(a, s) PROVE IInv'
  <2>1. area' \in [Areas -> Shards] /\ area'[a].del = area[a].del /\ \A b \in Areas \ {a} : area'[b] = area[b]
    BY <1>5, <1>s, <1>t, UnstageAllMoves
  <2>2. NothingDeleted'
    BY <1>5, <1>t, <2>1 DEF UnstageAll, NothingDeleted, chosen
  <2> QED BY <1>5, <2>1, <2>2, StagedOnly DEF UnstageAll
<1>6. ASSUME NEW a \in scope.areas, NEW s \in chosen, NEW k \in scope.keys, Get(a, s, k) PROVE IInv'
  <2>1. /\ answer' \in Cells /\ cache' \in [chosen -> [Keys -> CacheCells]]
        /\ \A t \in chosen, x \in Keys : cache'[t][x] # Uncached => cache'[t][x] = cache[t][x] \/ cache'[t][x] = db[t][x]
    BY <1>6, <1>s, <1>t, GetMoves
  <2>2. UNCHANGED <<scope, db, area, up>>
    BY <1>6 DEF Get
  <2>3. TypeInv' /\ NothingDeleted'
    BY <1>t, <2>1, <2>2 DEF TypeInv, Shards, Cells, CacheCells, chosen, NothingDeleted
  <2>4. CachesCoherent'
    BY <1>t, <2>1, <2>2 DEF CachesCoherent, chosen
  <2> QED BY <2>3, <2>4 DEF IInv
<1>7. ASSUME NEW a \in scope.areas, CommitAllChanges(a) PROVE IInv'
  <2>1. /\ db' \in [chosen -> [Keys -> Cells]] /\ cache' \in [chosen -> [Keys -> CacheCells]]
        /\ area' \in [Areas -> Shards] /\ area'[a] = NewStagingArea /\ \A b \in Areas \ {a} : area'[b] = area[b]
        /\ \A s \in chosen : cache'[s] \in ShardCaches(area[a], s, Keys) /\ db'[s] = ShardWrites(area[a], s)
    BY <1>7, <1>s, <1>t, CommitMoves
  <2>2. UNCHANGED <<scope, up>> /\ answer' = None
    BY <1>7 DEF CommitAllChanges
  <2>3. TypeInv'
    BY <1>t, <2>1, <2>2 DEF TypeInv, Shards, Cells, CacheCells, chosen
  <2>4. NothingDeleted'
    BY <1>t, <2>1, <2>2, NewStagingAreaFacts DEF NothingDeleted, chosen
  <2>5. CachesCoherent'
    <3> SUFFICES ASSUME up, NEW s \in chosen, NEW k \in Keys, s \notin Volatile, cache'[s][k] # Uncached
                 PROVE  cache'[s][k] = db'[s][k]
      BY <2>2 DEF CachesCoherent, chosen
    <3>1. area[a] \in Shards /\ \A x \in Keys : cache[s][x] # Uncached => cache[s][x] = db[s][x]
      BY <1>s, <1>t DEF TypeInv, CachesCoherent
    <3>2. cache'[s] \in ShardCaches(area[a], s, Keys) /\ db'[s] = ShardWrites(area[a], s)
      BY <2>1
    <3>3. \A x \in Keys : cache'[s][x] # Uncached => cache'[s][x] = ShardWrites(area[a], s)[x]
      BY <1>t, <3>1, <3>2, ShardCachesCoherent
    <3> QED BY <3>2, <3>3
  <2> QED BY <2>3, <2>4, <2>5 DEF IInv
<1>8. ASSUME NEW a \in scope.areas, CommitFails(a) PROVE IInv'
  <2>1. cache' \in [chosen -> [Keys -> CacheCells]] /\ area' \in [Areas -> Shards] /\ \A b \in Areas, s \in chosen : area'[b].del[s] = {}
    BY <1>8, <1>s, <1>t, FailMoves, NewAreasFacts DEF CommitFails
  <2>2. UNCHANGED <<scope, db>> /\ answer' = None /\ up' = FALSE
    BY <1>8 DEF CommitFails
  <2>3. TypeInv' /\ NothingDeleted' /\ CachesCoherent'
    BY <1>t, <2>1, <2>2 DEF TypeInv, Shards, Cells, CacheCells, chosen, NothingDeleted, CachesCoherent
  <2> QED BY <2>3 DEF IInv
<1>9. CASE Discard
  <2>1. area' \in [Areas -> Shards] /\ \A b \in Areas, s \in chosen : area'[b].del[s] = {}
    BY <1>9, NewAreasFacts DEF Discard
  <2>2. NothingDeleted'
    BY <1>9, <2>1 DEF Discard, NothingDeleted, chosen
  <2> QED BY <1>9, <2>1, <2>2, StagedOnly DEF Discard
<1>10. CASE Restart
  <2>1. area' \in [Areas -> Shards] /\ \A b \in Areas, s \in chosen : area'[b].del[s] = {}
    BY <1>10, NewAreasFacts DEF Restart
  <2>2. UNCHANGED <<scope, db>> /\ answer' = None /\ up' = TRUE /\ cache' = [s \in chosen |-> [k \in Keys |-> Uncached]]
    BY <1>10 DEF Restart, EmptyCaches
  <2>3. TypeInv' /\ NothingDeleted'
    BY <1>t, <2>1, <2>2 DEF TypeInv, Shards, Cells, CacheCells, chosen, NothingDeleted
  <2>4. CachesCoherent'
    BY <2>2 DEF CachesCoherent, chosen
  <2> QED BY <2>3, <2>4 DEF IInv
<1>11. CASE UNCHANGED storeVars
  BY <1>t, <1>11 DEF IInv, TypeInv, Shards, Cells, CacheCells, chosen, NothingDeleted, CachesCoherent, storeVars
<1> QED BY <1>1, <1>2, <1>3, <1>4, <1>5, <1>6, <1>7, <1>8, <1>9, <1>10, <1>11 DEF NextStores

(* The empty stores satisfy it.                                            *)
LEMMA InitIInv == InitStores => IInv
BY DEF InitStores, IInv, TypeInv, NothingDeleted, CachesCoherent, EmptyCaches, NewStagingArea, Shards, Cells, CacheCells, chosen

(* The invariant holds throughout.                                         *)
THEOREM StoresInvariance == SpecStores => []IInv
BY InitIInv, IInvStep, PTL DEF SpecStores

(* Every cache, area and bucket holds values of its store or nothing, and  *)
(* only the shards that delete on a commit have deletions staged.          *)
THEOREM StoresTyped == SpecStores => []StoresTypeOK
<1>1. IInv => StoresTypeOK
  BY DEF IInv, TypeInv, NothingDeleted, StoresTypeOK, Cells, CacheCells
<1> QED BY <1>1, StoresInvariance, PTL

(* While no commit has failed, no cache disagrees with its bucket, for any *)
(* stores, keys, values, areas and capacity of the caches.                 *)
THEOREM CachesNeverStale == SpecStores => []CachesCoherent
BY StoresInvariance, PTL DEF IInv

(* The empty stores are the empty abstract stores.                         *)
LEMMA InitRefines == InitStores => Abstract!AInit
BY DEF InitStores, Abstract!AInit, Abstract!Nothing, NewStagingArea

(* What is staged is staged in the abstract stores.                        *)
LEMMA StageRefines ==
  ASSUME NEW a \in Areas, area' \in [Areas -> Shards], \A b \in Areas \ {a} : area'[b] = area[b],
         answer' = None, UNCHANGED <<scope, db, up>>
  PROVE  Abstract!ANext
<1>1. Abstract!AStage(a)
  BY DEF Abstract!AStage, Abstract!Pending, Shards, Cells, chosen
<1> QED BY <1>1 DEF Abstract!ANext

(* A read answers from the area, and otherwise what is committed: a cache  *)
(* that is coherent does not show. A volatile store may forget, and a      *)
(* process that is going down may answer anything.                         *)
LEMMA GetRefines ==
  ASSUME IInv, NEW a \in Areas, NEW s \in chosen, NEW k \in Keys, Get(a, s, k)
  PROVE  Abstract!ANext
<1>1. TypeInv /\ CachesCoherent /\ s \in AllStores
  BY ScopeFacts DEF IInv
<1>2. answer' \in Cells /\ UNCHANGED <<scope, db, area, up>>
  BY <1>1, GetMoves DEF Get
<1>3. CASE ~up
  <2>1. Abstract!ADying
    BY <1>2, <1>3 DEF Abstract!ADying, Cells, chosen
  <2> QED BY <2>1 DEF Abstract!ANext
<1>4. CASE up
  <2>1. "seesRemovals" \in KindOf[s].reads <=> s \in Diffed
    BY <1>1, StoreKinds
  <2>2. cache[s][k] # Uncached /\ s \notin Volatile => cache[s][k] = db[s][k]
    BY <1>1, <1>4 DEF CachesCoherent
  <2>3. IF s \in Diffed /\ k \in area[a].del[s] THEN answer' = None
        ELSE IF area[a].add[s][k] # None THEN answer' = area[a].add[s][k]
        ELSE IF s \in Volatile THEN answer' \in Cells ELSE answer' = db[s][k]
    BY <1>2, <2>1, <2>2 DEF Get, ReadThrough
  <2>4. Abstract!ARead(a, s, k)
    BY <1>2, <2>3 DEF Abstract!ARead, Cells, chosen
  <2> QED BY <1>4, <2>4 DEF Abstract!ANext
<1> QED BY <1>3, <1>4 DEF IInv, TypeInv

(* Every step of the stores is one of the abstract stores or stutters.     *)
LEMMA StepRefines == IInv /\ [NextStores]_storeVars => [Abstract!ANext]_(Abstract!avars)
<1> SUFFICES ASSUME IInv, [NextStores]_storeVars PROVE Abstract!ANext \/ UNCHANGED Abstract!avars
  OBVIOUS
<1>t. TypeInv
  BY DEF IInv
<1>s. chosen \subseteq AllStores /\ scope.areas \subseteq Areas /\ scope.keys \subseteq Keys /\ scope.values \subseteq Values
  BY <1>t, ScopeFacts
<1>1. ASSUME NEW a \in scope.areas, NEW s \in chosen, NEW k \in scope.keys, NEW v \in scope.values, Stage(a, s, k, v) PROVE Abstract!ANext
  BY <1>1, <1>s, <1>t, StageMoves, StageRefines DEF Stage
<1>2. ASSUME NEW a \in scope.areas, NEW s \in chosen, NEW removed \in SUBSET scope.keys,
             NEW added \in [Keys -> scope.values \cup {None}], StageVirtualUTXODiff(a, s, removed, added) PROVE Abstract!ANext
  <2>0. added \in [Keys -> Cells]
    BY <1>s DEF Cells
  <2> QED BY <1>2, <1>s, <1>t, <2>0, DiffMoves, StageRefines DEF StageVirtualUTXODiff
<1>3. ASSUME NEW a \in scope.areas, NEW s \in chosen, NEW k \in scope.keys, Delete(a, s, k) PROVE Abstract!ANext
  BY <1>3, <1>s, <1>t, DeleteMoves, StageRefines DEF Delete
<1>4. ASSUME NEW a \in scope.areas, NEW k \in scope.keys, DeleteDAABlocks(a, k) PROVE Abstract!ANext
  BY <1>4, <1>s, <1>t, DeleteDAABlocksMoves, StageRefines DEF DeleteDAABlocks
<1>5. ASSUME NEW a \in scope.areas, NEW s \in chosen, UnstageAll(a, s) PROVE Abstract!ANext
  BY <1>5, <1>s, <1>t, UnstageAllMoves, StageRefines DEF UnstageAll
<1>6. ASSUME NEW a \in scope.areas, NEW s \in chosen, NEW k \in scope.keys, Get(a, s, k) PROVE Abstract!ANext
  BY <1>6, <1>s, GetRefines
<1>7. ASSUME NEW a \in scope.areas, CommitAllChanges(a) PROVE Abstract!ANext
  <2>1. Abstract!ACommit(a)
    BY <1>7 DEF CommitAllChanges, Abstract!ACommit, Abstract!Applied, Abstract!Nothing, ShardWrites, NewStagingArea, chosen
  <2> QED BY <1>s, <2>1 DEF Abstract!ANext
<1>8. ASSUME NEW a \in scope.areas, CommitFails(a) PROVE Abstract!ANext
  <2>1. Abstract!AFail
    BY <1>8 DEF CommitFails, Abstract!AFail, Abstract!Nothing, NewStagingArea, chosen
  <2> QED BY <2>1 DEF Abstract!ANext
<1>9. CASE Discard
  <2>1. Abstract!ADiscard
    BY <1>9 DEF Discard, Abstract!ADiscard, Abstract!Nothing, NewStagingArea, chosen
  <2> QED BY <2>1 DEF Abstract!ANext
<1>10. CASE Restart
  <2>1. Abstract!ARestart
    BY <1>10 DEF Restart, Abstract!ARestart, Abstract!Nothing, NewStagingArea, chosen
  <2> QED BY <2>1 DEF Abstract!ANext
<1>11. CASE UNCHANGED storeVars
  BY <1>11 DEF storeVars, Abstract!avars, chosen
<1> QED BY <1>1, <1>2, <1>3, <1>4, <1>5, <1>6, <1>7, <1>8, <1>9, <1>10, <1>11 DEF NextStores

(* The stores with their caches, shards and evictions implement the stores *)
(* without: reads answer what is staged or committed, commits are atomic,  *)
(* whatever is evicted, wherever a commit fails and whenever the process   *)
(* restarts.                                                               *)
THEOREM StoresRefine == SpecStores => ImplementsAtomicStore
BY InitRefines, StoresInvariance, StepRefines, PTL DEF SpecStores, ImplementsAtomicStore, Abstract!ASpec
=============================================================================
