------------------------ MODULE IBDTransfer_proofs ------------------------
(***************************************************************************)
(* Proofs about the downloads of an IBD, for any number of items and any   *)
(* sizes of batches, chunks and queues: what arrives is complete and in    *)
(* order, what is on the way is bounded by a batch, and the two sides      *)
(* count alike (TransferCorrect).                                          *)
(***************************************************************************)
EXTENDS IBDTransfer_steps

-----------------------------------------------------------------------------
(* UTXOs.                                                                  *)

(* The number of full chunks, and what is left after them.                 *)
LEMMA FullTyped ==
  ASSUME NEW total \in Nat
  PROVE  \E d \in Nat, r \in Nat : /\ d = FullChunks(total) /\ ChunkSize \in Nat /\ ChunkSize > 0
                                   /\ total = d * ChunkSize + r /\ r < ChunkSize
<1>1. ChunkSize \in Nat \ {0}
  BY TransferAssumption
<1>2. /\ total % ChunkSize \in 0 .. ChunkSize - 1 /\ total \div ChunkSize \in Nat
      /\ total = ChunkSize * (total \div ChunkSize) + (total % ChunkSize)
  BY <1>1, Remainder, Zenon
<1>3. PICK d \in Nat, r \in Nat : d = total \div ChunkSize /\ r = total % ChunkSize
  BY <1>1, <1>2
<1>4. ChunkSize * d = d * ChunkSize
  BY <1>1
<1> QED BY <1>1, <1>2, <1>3, <1>4 DEF FullChunks

(* What the next chunk ends with: a full chunk further, or the last item.  *)
LEMMA BoundStep ==
  ASSUME NEW k \in Nat, NEW total \in Nat
  PROVE  /\ FullChunks(total) \in Nat /\ Bound(k, total) \in Nat /\ Bound(k + 1, total) \in Nat
         /\ Bound(k, total) <= Bound(k + 1, total)
         /\ Bound(k + 1, total) = LeastOf(Bound(k, total) + ChunkSize, total)
         /\ (Bound(k + 1, total) - Bound(k, total) < ChunkSize <=> FullChunks(total) <= k)
<1>1. PICK d \in Nat, r \in Nat : /\ d = FullChunks(total) /\ ChunkSize \in Nat /\ ChunkSize > 0
                                  /\ total = d * ChunkSize + r /\ r < ChunkSize
  BY FullTyped, Zenon
<1>2. PICK f \in Nat : f = d * ChunkSize
  BY <1>1
<1>3. PICK x \in Nat : x = k * ChunkSize
  BY <1>1
<1>4. (k + 1) * ChunkSize = x + ChunkSize
  BY <1>1, <1>3
<1>5. CASE k + 1 <= d
  <2>1. PICK j \in Nat : d = (k + 1) + j
    BY <1>5
  <2>2. PICK y \in Nat : y = j * ChunkSize
    BY <1>1
  <2>3. f = x + ChunkSize + y
    <3>1. ((k + 1) + j) * ChunkSize = (k + 1) * ChunkSize + j * ChunkSize
      BY <1>1
    <3> QED BY <1>2, <1>4, <2>1, <2>2, <3>1
  <2>4. Bound(k, total) = x /\ Bound(k + 1, total) = x + ChunkSize
    BY <1>1, <1>3, <1>4, <1>5 DEF Bound
  <2>5. x + ChunkSize <= total
    BY <1>1, <1>2, <2>3
  <2>6. LeastOf(x + ChunkSize, total) = x + ChunkSize
    BY <1>1, <2>5 DEF LeastOf
  <2> QED BY <1>1, <1>5, <2>4, <2>6
<1>6. CASE k = d
  <2>1. Bound(k, total) = f
    <3>1. k <= FullChunks(total)
      BY <1>1, <1>6
    <3> QED BY <1>2, <1>6, <3>1, Zenon DEF Bound
  <2>2. Bound(k + 1, total) = total
    <3>1. ~(k + 1 <= FullChunks(total))
      BY <1>1, <1>6
    <3> QED BY <3>1 DEF Bound
  <2>3. total = f + r /\ ChunkSize \in Nat /\ r < ChunkSize
    BY <1>1, <1>2
  <2>4. LeastOf(f + ChunkSize, total) = total
    BY <2>3 DEF LeastOf
  <2>5. total - f < ChunkSize /\ f <= total
    BY <2>3
  <2>6. FullChunks(total) \in Nat /\ FullChunks(total) <= k
    BY <1>1, <1>6
  <2> QED BY <2>1, <2>2, <2>4, <2>5, <2>6
<1>7. CASE d < k
  <2>1. Bound(k, total) = total /\ Bound(k + 1, total) = total
    BY <1>1, <1>7 DEF Bound
  <2>2. LeastOf(total + ChunkSize, total) = total
    BY <1>1 DEF LeastOf
  <2> QED BY <1>1, <1>7, <2>1, <2>2
<1> QED BY <1>5, <1>6, <1>7

(* No chunk has no items.                                                  *)
LEMMA BoundZero ==
  ASSUME NEW total \in Nat
  PROVE  Bound(0, total) = 0
<1>1. PICK d \in Nat : d = FullChunks(total) /\ ChunkSize \in Nat
  BY FullTyped
<1>2. 0 * ChunkSize = 0
  BY <1>1
<1> QED BY <1>1, <1>2 DEF Bound

(* A chunk is a message.                                                   *)
LEMMA ChunkTyped ==
  ASSUME NEW k \in Nat, NEW total \in Nat
  PROVE  /\ Chunk(k + 1, total) = Message("item", Items(Bound(k, total) + 1, Bound(k + 1, total)))
         /\ Chunk(k + 1, total) \in Messages
<1>1. (k + 1) - 1 = k
  OBVIOUS
<1>2. Chunk(k + 1, total) = Message("item", Items(Bound(k, total) + 1, Bound(k + 1, total)))
  BY <1>1 DEF Chunk
<1>3. Items(Bound(k, total) + 1, Bound(k + 1, total)) \in Seq(Nat)
  BY BoundStep, ItemsTyped, Zenon
<1> QED BY <1>2, <1>3, MessageTyped DEF MessageTypes

(* The next chunk, or the last message, goes to the end of the queue.      *)
LEMMA ChunksAppend ==
  ASSUME NEW q \in Seq(Messages), NEW c \in Nat, NEW n \in Nat, NEW total \in Nat, NEW m \in Messages,
         ChunksFrom(q, c, n, <<>>, total)
  PROVE  /\ ChunksFrom(Append(q, m), c, n, <<m>>, total)
         /\ m = Chunk(n + 1, total) => ChunksFrom(Append(q, m), c, n + 1, <<>>, total)
<1>1. Len(q) = n - c /\ Len(q) \in Nat /\ c <= n /\ \A i \in 1 .. n - c : q[i] = Chunk(c + i, total)
  BY DEF ChunksFrom
<1>2. /\ Len(Append(q, m)) = (n - c) + 1 /\ Append(q, m)[(n - c) + 1] = m
      /\ \A i \in 1 .. n - c : Append(q, m)[i] = q[i]
  BY <1>1
<1>3. Len(<<m>>) = 1 /\ <<m>>[1] = m /\ Len(<<>>) = 0
  OBVIOUS
<1>4. ChunksFrom(Append(q, m), c, n, <<m>>, total)
  BY <1>1, <1>2, <1>3 DEF ChunksFrom
<1>5. ASSUME m = Chunk(n + 1, total)
      PROVE  ChunksFrom(Append(q, m), c, n + 1, <<>>, total)
  <2>1. ASSUME NEW i \in 1 .. (n + 1) - c
        PROVE  Append(q, m)[i] = Chunk(c + i, total)
    <3>1. CASE i = (n - c) + 1
      <4>1. c + i = n + 1
        BY <3>1
      <4> QED BY <1>2, <1>5, <3>1, <4>1
    <3>2. CASE i # (n - c) + 1
      <4>1. i \in 1 .. n - c
        BY <1>1, <3>2
      <4> QED BY <1>1, <1>2, <4>1
    <3> QED BY <3>1, <3>2, Zenon
  <2>2. c <= n + 1 /\ Len(Append(q, m)) = ((n + 1) - c) + Len(<<>>)
    BY <1>1, <1>2, <1>3
  <2> QED BY <2>1, <2>2 DEF ChunksFrom
<1> QED BY <1>4, <1>5

(* A sequence of length 0.                                                 *)
LEMMA NoItems ==
  ASSUME NEW S, NEW s \in Seq(S), Len(s) = 0
  PROVE  s = <<>>
OBVIOUS

(* The first message of the queue is the next chunk or, when all have      *)
(* come, the last message.                                                 *)
LEMMA ChunksTake ==
  ASSUME NEW q \in Seq(Messages), q # <<>>, NEW c \in Nat, NEW n \in Nat, NEW total \in Nat, NEW last,
         ChunksFrom(q, c, n, last, total), last = <<>> \/ \E m \in Messages : last = <<m>>
  PROVE  \/ c < n /\ Head(q) = Chunk(c + 1, total) /\ ChunksFrom(Tail(q), c + 1, n, last, total)
         \/ c = n /\ last = <<Head(q)>> /\ Tail(q) = <<>>
<1>1. /\ Len(q) \in Nat /\ Len(q) > 0 /\ Len(Tail(q)) = Len(q) - 1 /\ Head(q) = q[1]
      /\ \A i \in 1 .. Len(q) - 1 : Tail(q)[i] = q[i + 1]
      /\ Tail(q) \in Seq(Messages)
  BY QueueTyped
<1>2. PICK l \in {0, 1} : l = Len(last) /\ (last # <<>> => l = 1 /\ last = <<last[1]>>) /\ (last = <<>> => l = 0)
  OBVIOUS
<1>3. /\ c <= n /\ Len(q) = (n - c) + l
      /\ \A i \in 1 .. n - c : q[i] = Chunk(c + i, total)
      /\ last # <<>> => q[(n - c) + 1] = last[1]
  BY <1>2 DEF ChunksFrom
<1>4. CASE c = n
  <2>1. l = 1 /\ (n - c) + 1 = 1 /\ Len(Tail(q)) = 0
    BY <1>1, <1>2, <1>3, <1>4
  <2>2. last = <<q[1]>>
    BY <1>2, <1>3, <2>1
  <2>3. Tail(q) = <<>>
    BY <1>1, <2>1, NoItems, Zenon
  <2>4. last = <<Head(q)>>
    BY <1>1, <2>2
  <2> QED BY <1>4, <2>3, <2>4
<1>5. CASE c # n
  <2>1. c < n /\ 1 \in 1 .. n - c /\ n - (c + 1) = (n - c) - 1 /\ n - (c + 1) \in Nat
    BY <1>3, <1>5
  <2>0. n - c <= Len(q) /\ (last # <<>> => Len(q) = (n - c) + 1)
    <3>1. (n - c) + l = n - c \/ (n - c) + l = (n - c) + 1
      BY <1>2
    <3> QED BY <1>1, <1>2, <1>3, <3>1
  <2>2. Head(q) = Chunk(c + 1, total)
    BY <1>1, <1>3, <2>1
  <2>3. ASSUME NEW i \in 1 .. n - (c + 1)
        PROVE  Tail(q)[i] = Chunk((c + 1) + i, total)
    <3>1. i + 1 \in 1 .. n - c /\ (c + 1) + i = c + (i + 1) /\ i \in 1 .. Len(q) - 1
      BY <1>1, <2>0, <2>1
    <3>2. q[i + 1] = Chunk(c + (i + 1), total)
      BY <1>3, <3>1, Zenon
    <3> QED BY <1>1, <3>1, <3>2
  <2>4. last # <<>> => Tail(q)[(n - (c + 1)) + 1] = last[1]
    <3>1. ASSUME last # <<>>
          PROVE  Tail(q)[(n - (c + 1)) + 1] = last[1]
      <4>1. (n - (c + 1)) + 1 = n - c /\ n - c \in 1 .. Len(q) - 1
        BY <1>1, <2>0, <2>1, <3>1
      <4> QED BY <1>1, <1>3, <3>1, <4>1
    <3> QED BY <3>1, Zenon
  <2>5. c + 1 <= n /\ Len(Tail(q)) = (n - (c + 1)) + Len(last)
    <3>1. ((n - c) + l) - 1 = (n - (c + 1)) + l
      BY <1>2, <2>1
    <3> QED BY <1>1, <1>2, <1>3, <2>1, <3>1
  <2> QED BY <2>1, <2>2, <2>3, <2>4, <2>5 DEF ChunksFrom
<1> QED BY <1>4, <1>5

(* The syncer's next chunk or last message, wherever the syncee is.        *)
LEMMA ChunksMore ==
  ASSUME NEW q \in Seq(Messages), NEW s \in SynceeStates, NEW n \in Nat, NEW total \in Nat, NEW m \in Messages,
         ChunksOnTheWay(q, s, n, <<>>, total)
  PROVE  /\ ChunksOnTheWay(Append(q, m), s, n, <<m>>, total)
         /\ m = Chunk(n + 1, total) => ChunksOnTheWay(Append(q, m), s, n + 1, <<>>, total)
<1>1. s.at \in {"utxos", "timedOut"} /\ ChunksFrom(q, s.chunks, n, <<>>, total)
  BY DEF ChunksOnTheWay
<1>2. s.chunks \in Nat
  BY DEF SynceeStates
<1> QED BY <1>1, <1>2, ChunksAppend DEF ChunksOnTheWay

(* The actions that can change the state of a download of UTXOs.           *)
LEMMA UtxosActions ==
  ASSUME Types, download = "utxos", UtxosInv, TransferNext
  PROVE  \/ TakeRequest \/ SendUTXOs \/ TakeNext \/ StartDownload \/ ReceiveUTXOs
         \/ TimeOutSyncee /\ syncee.at = "utxos"
         \/ TimeOutSyncer \/ PruningPointMoves
<1>1. syncer.at \in {"idle", "utxos", "waitNext", "timedOut", "unexpected"}
  BY DEF UtxosInv, UtxosEnded, AtStart
<1>2. ~SendHeaders /\ ~SendTrustedData /\ ~SendTrustedBlock /\ ~SendBody
  BY <1>1, Zenon DEF SendHeaders, SendTrustedData, SendTrustedBlock, SendBody
<1>3. ~RequestBodies /\ ~ReceiveBody /\ ~ReceivePruningPoints /\ ~ReceiveTrustedData /\ ~ReceiveTrustedBlock
  BY Zenon DEF UtxosInv, RequestBodies, ReceiveBody, ReceivePruningPoints, ReceiveTrustedData, ReceiveTrustedBlock
<1>4. ~OtherRequest /\ ~ReceiveHeaders /\ ~PutHeaders /\ ~ProcessHeaders /\ ~EndHeaders
  BY DEF UtxosInv, OtherRequest, ReceiveHeaders, PutHeaders, ProcessHeaders, EndHeaders
<1>5. TimeOutSyncee => syncee.at = "utxos"
  BY DEF UtxosInv, TimeOutSyncee
<1> QED BY <1>2, <1>3, <1>4, <1>5 DEF TransferNext, TransferStep

(* The syncer takes the request, or one for another batch after the end:   *)
(* the exception CountsAgree makes.                                        *)
LEMMA UtxosTakeRequest ==
  ASSUME Types, download = "utxos", UtxosInv, TakeRequest
  PROVE  UtxosInv' /\ syncee' = syncee
<1>1. /\ toSyncee' = toSyncee /\ syncee' = syncee /\ items' = items /\ receiver' = receiver /\ headerChan' = headerChan
      /\ toSyncer' = Tail(toSyncer) /\ Got' = Got /\ syncer.at = "idle" /\ toSyncer # <<>> /\ syncee.at # "start"
  BY DEF TakeRequest, SyncerStays, Got, UtxosInv, AtStart
<1>2. CASE toSyncer = <<Request>>
  <2>1. FromSyncee.type = "request" /\ toSyncer' = <<>>
    BY <1>1, <1>2, Single DEF FromSyncee, Request, Message
  <2>2. syncer' = [syncer EXCEPT !.at = "utxos"]
    BY <2>1 DEF TakeRequest
  <2>3. syncer'.at = "utxos" /\ syncer'.sent = syncer.sent /\ syncer'.chunks = syncer.chunks
    BY <2>2, Typed DEF SyncerStates
  <2>4. /\ toSyncee = <<>> /\ syncee.at \in {"utxos", "timedOut"}
        /\ syncer.sent = 0 /\ syncer.chunks = 0 /\ syncee.chunks = 0
    <3>1. <<NextBatch>> # <<Request>>
      BY DEF NextBatch, Request, Message
    <3> QED BY <1>1, <1>2, <3>1 DEF UtxosInv, UtxosEnded, Filled
  <2>5. ChunksOnTheWay(toSyncee', syncee', syncer'.chunks, <<>>, items')
    BY <1>1, <2>3, <2>4 DEF ChunksOnTheWay, ChunksFrom
  <2>6. Apart(syncee'.chunks, syncer'.chunks)
    BY <1>1, <2>3, <2>4, ApartZero
  <2>7. Underway(syncer'.sent, syncer'.chunks, items')
    <3>0. PICK d \in Nat : d = FullChunks(items)
      BY Typed, FullTyped, Zenon
    <3>1. 0 <= FullChunks(items) /\ Bound(0, items) = 0
      BY <3>0, Typed, BoundZero
    <3> QED BY <1>1, <2>3, <2>4, <3>1 DEF Underway
  <2> QED BY <1>1, <2>1, <2>3, <2>5, <2>6, <2>7 DEF UtxosInv, ChunksSent
<1>3. CASE toSyncer # <<Request>>
  <2>1. /\ syncer.chunks + 1 = LastChunk /\ FullChunks(items) < syncer.chunks + 1
        /\ ChunksSent(syncer.chunks + 1, <<Done>>)
        /\ Filled(syncee.chunks, syncer.chunks + 1, toSyncer)
    BY <1>1, <1>3 DEF UtxosInv, UtxosEnded
  <2>2. syncee.chunks = syncer.chunks + 1 /\ toSyncer = <<NextBatch>> /\ (syncer.chunks + 1) % BatchSize = 0
    BY <1>1, <2>1 DEF Filled
  <2>3. FromSyncee.type = "next" /\ toSyncer' = <<>>
    BY <1>1, <2>2, Single DEF FromSyncee, NextBatch, Message
  <2>4. syncer' = [syncer EXCEPT !.at = "unexpected"]
    BY <2>3 DEF TakeRequest
  <2>5. syncer'.at = "unexpected" /\ syncer'.sent = syncer.sent /\ syncer'.chunks = syncer.chunks
    BY <2>4, Typed DEF SyncerStates
  <2>6. UtxosEnded(syncer'.at, syncee'.chunks, toSyncer', syncer'.chunks + 1)
    BY <1>1, <2>2, <2>3, <2>5 DEF UtxosEnded
  <2>7. ChunksOnTheWay(toSyncee', syncee', syncer'.chunks + 1, <<Done>>, items')
    BY <1>1, <2>1, <2>5 DEF ChunksSent
  <2>8. LastChunk' = LastChunk
    BY <1>1 DEF LastChunk
  <2> QED BY <1>1, <2>1, <2>5, <2>6, <2>7, <2>8 DEF UtxosInv, ChunksSent
<1> QED BY <1>2, <1>3

(* The syncer takes the request for the next batch.                        *)
LEMMA UtxosTakeNext ==
  ASSUME Types, download = "utxos", UtxosInv, TakeNext \/ TimeOutSyncer
  PROVE  UtxosInv' /\ syncee' = syncee
<1>1. /\ syncee' = syncee /\ items' = items /\ receiver' = receiver /\ headerChan' = headerChan /\ Got' = Got
      /\ syncer.at = "waitNext" /\ syncee.at # "start"
  BY DEF TakeNext, TimeOutSyncer, SyncerStays, Got, UtxosInv, UtxosEnded, AtStart
<1>2. /\ Filled(syncee.chunks, syncer.chunks, toSyncer)
      /\ ChunksSent(syncer.chunks, <<>>) /\ Underway(syncer.sent, syncer.chunks, items)
  BY <1>1 DEF UtxosInv, UtxosEnded
<1>3. CASE TakeNext
  <2>1. syncee.chunks = syncer.chunks /\ toSyncer = <<NextBatch>>
    BY <1>2, <1>3, Typed, FilledAsked DEF TakeNext
  <2>2. FromSyncee.type = "next" /\ Tail(toSyncer) = <<>>
    BY <2>1, Single DEF FromSyncee, NextBatch, Message
  <2>3. syncer' = [syncer EXCEPT !.at = "utxos"] /\ toSyncer' = <<>> /\ toSyncee' = toSyncee
    BY <1>1, <1>3, <2>2 DEF TakeNext
  <2>4. syncer'.at = "utxos" /\ syncer'.sent = syncer.sent /\ syncer'.chunks = syncer.chunks
    BY <2>3, Typed DEF SyncerStates
  <2>5. Apart(syncee'.chunks, syncer'.chunks)
    BY <1>1, <2>1, <2>4, Typed, ApartSame
  <2>6. ChunksOnTheWay(toSyncee', syncee', syncer'.chunks, <<>>, items') /\ Underway(syncer'.sent, syncer'.chunks, items')
    BY <1>1, <1>2, <2>3, <2>4 DEF ChunksSent
  <2> QED BY <1>1, <2>3, <2>4, <2>5, <2>6 DEF UtxosInv, ChunksSent
<1>4. CASE TimeOutSyncer
  <2>1. syncer' = [syncer EXCEPT !.at = "timedOut"] /\ toSyncer' = toSyncer /\ toSyncee' = toSyncee
    BY <1>4 DEF TimeOutSyncer
  <2>2. syncer'.at = "timedOut" /\ syncer'.sent = syncer.sent /\ syncer'.chunks = syncer.chunks
    BY <2>1, Typed DEF SyncerStates
  <2>3. ChunksOnTheWay(toSyncee', syncee', syncer'.chunks, <<>>, items') /\ Underway(syncer'.sent, syncer'.chunks, items')
        /\ Filled(syncee'.chunks, syncer'.chunks, toSyncer')
    BY <1>1, <1>2, <2>1, <2>2 DEF ChunksSent
  <2> QED BY <1>1, <2>2, <2>3 DEF UtxosInv, ChunksSent
<1> QED BY <1>3, <1>4

(* The start of a download of UTXOs.                                       *)
LEMMA UtxosStart ==
  ASSUME Types, download = "utxos", UtxosInv, StartDownload
  PROVE  UtxosInv' /\ syncee'.got = syncee.got
<1>1. AtStart
  BY DEF UtxosInv, StartDownload
<1>2. /\ toSyncer' = Append(toSyncer, Message("request", <<>>)) /\ syncee' = [syncee EXCEPT !.at = "utxos"]
      /\ receiver' = "none" /\ toSyncee' = <<>> /\ headerChan' = <<>> /\ items' = items /\ syncer' = syncer
  BY <1>1 DEF StartDownload, SendToSyncer, SynceeStays, AtStart
<1>3. syncee'.at = "utxos" /\ syncee'.got = syncee.got /\ syncee'.chunks = syncee.chunks /\ Got' = Got
  BY <1>2, Typed DEF SynceeStates, Got
<1>4. toSyncer' = <<Request>>
  BY <1>1, <1>2, Single DEF Request, AtStart
<1> QED BY <1>1, <1>2, <1>3, <1>4, Zenon DEF UtxosInv, AtStart

(* The syncer's pruning point moves.                                       *)
LEMMA UtxosPointMoves ==
  ASSUME Types, download = "utxos", UtxosInv, PruningPointMoves
  PROVE  UtxosInv' /\ syncee' = syncee
<1>1. /\ toSyncee' = toSyncee /\ toSyncer' = toSyncer /\ receiver' = receiver /\ headerChan' = headerChan
      /\ items' = items /\ syncer' = syncer /\ syncee' = syncee /\ Got' = Got
  BY DEF PruningPointMoves, Got
<1>2. LastChunk' = LastChunk /\ (AtStart => AtStart')
  BY <1>1 DEF LastChunk, AtStart
<1> QED BY <1>1, <1>2 DEF UtxosInv, ChunksSent

(* One of the two gives up.                                                *)
LEMMA UtxosTimeOut ==
  ASSUME Types, download = "utxos", UtxosInv, TimeOutSyncee, syncee.at = "utxos"
  PROVE  UtxosInv' /\ syncee'.got = syncee.got
<1>1. /\ toSyncee' = toSyncee /\ toSyncer' = toSyncer /\ receiver' = receiver /\ headerChan' = headerChan
      /\ items' = items /\ syncer' = syncer /\ syncee' = [syncee EXCEPT !.at = "timedOut"]
  BY DEF TimeOutSyncee, SynceeStays, UtxosInv
<1>2. syncee'.at = "timedOut" /\ syncee'.got = syncee.got /\ syncee'.chunks = syncee.chunks /\ Got' = Got
  BY <1>1, Typed DEF SynceeStates, Got
<1>3. \A n, last : ChunksOnTheWay(toSyncee, syncee, n, last, items) => ChunksOnTheWay(toSyncee', syncee', n, last, items')
  BY <1>1, <1>2 DEF ChunksOnTheWay
<1>4. LastChunk' = LastChunk
  BY <1>1 DEF LastChunk
<1> QED BY <1>1, <1>2, <1>3, <1>4 DEF UtxosInv, ChunksSent

(* sendPruningPointUTXOSet sends a chunk, a last chunk with the end, or    *)
(* that its pruning point has moved.                                       *)
LEMMA UtxosSend ==
  ASSUME Types, download = "utxos", UtxosInv, SendUTXOs
  PROVE  UtxosInv' /\ syncee' = syncee
<1>1. /\ syncee' = syncee /\ items' = items /\ receiver' = receiver /\ headerChan' = headerChan /\ toSyncer' = toSyncer
      /\ syncer.at = "utxos" /\ syncee.at # "start" /\ Got' = Got
  BY DEF SendUTXOs, SyncerStays, UtxosInv, AtStart, Got
<1>2. /\ toSyncer = <<>> /\ Apart(syncee.chunks, syncer.chunks)
      /\ ChunksOnTheWay(toSyncee, syncee, syncer.chunks, <<>>, items) /\ Underway(syncer.sent, syncer.chunks, items)
  BY <1>1 DEF UtxosInv, UtxosEnded, ChunksSent
<1>3. syncer.chunks \in Nat /\ syncee.chunks \in Nat /\ items \in Nat /\ syncer.sent = Bound(syncer.chunks, items)
      /\ syncer.chunks + 1 \in Nat
  BY <1>2, Typed DEF Underway
<1> DEFINE k == syncer.chunks
           d == FullChunks(items)
           to == LeastOf(syncer.sent + ChunkSize, items)
           chunk == Message("item", Items(syncer.sent + 1, to))
           finished == to - syncer.sent < ChunkSize
<1>4. /\ d \in Nat /\ to = Bound(k + 1, items) /\ (finished <=> d <= k)
      /\ chunk = Chunk(k + 1, items) /\ chunk \in Messages
  <2>1. /\ d \in Nat /\ Bound(k + 1, items) = LeastOf(Bound(k, items) + ChunkSize, items)
        /\ (Bound(k + 1, items) - Bound(k, items) < ChunkSize <=> d <= k)
    BY <1>3, BoundStep, Zenon
  <2>2. to = Bound(k + 1, items) /\ (finished <=> d <= k) /\ d \in Nat
    BY <1>3, <2>1
  <2>3. chunk = Chunk(k + 1, items) /\ chunk \in Messages
    BY <1>3, <2>2, ChunkTyped
  <2> QED BY <2>2, <2>3
<1>5. k <= d \/ (k = d + 1 /\ d % BatchSize = 0)
  BY <1>2 DEF Underway
<1>6. /\ ChunksOnTheWay(Append(toSyncee, chunk), syncee, k + 1, <<>>, items)
      /\ \A m \in Messages : ChunksOnTheWay(Append(toSyncee, m), syncee, k, <<m>>, items)
  BY <1>2, <1>3, <1>4, Typed, ChunksMore, Zenon
<1>7. IF (k + 1) % BatchSize = 0 THEN Filled(syncee.chunks, k + 1, <<>>) ELSE Apart(syncee.chunks, k + 1)
  BY <1>2, <1>3, ApartSend
<1>8. CASE syncerPP # proofPP
  <2>1. toSyncee' = Append(toSyncee, Aborted) /\ syncer' = [syncer EXCEPT !.at = "idle"]
    BY <1>8 DEF SendUTXOs, SendToSyncee, Aborted
  <2>2. syncer'.at = "idle" /\ syncer'.chunks = syncer.chunks
    BY <2>1, Typed DEF SyncerStates
  <2>3. Aborted \in Messages
    BY MessageTyped DEF Aborted, MessageTypes
  <2>4. ChunksOnTheWay(toSyncee', syncee', syncer'.chunks, <<Aborted>>, items')
    BY <1>1, <1>6, <2>1, <2>2, <2>3
  <2> QED BY <1>1, <1>2, <2>2, <2>4 DEF UtxosInv, ChunksSent
<1>9. CASE syncerPP = proofPP /\ finished /\ k % BatchSize # 0
  <2>1. toSyncee' = toSyncee \o <<chunk, Done>> /\ syncer' = [syncer EXCEPT !.sent = to, !.at = "idle"]
    BY <1>9 DEF SendUTXOs, Done
  <2>2. syncer'.at = "idle" /\ syncer'.chunks = k
    BY <2>1, Typed DEF SyncerStates
  <2>3. Done \in Messages
    BY MessageTyped DEF Done, MessageTypes
  <2>4. toSyncee' = Append(Append(toSyncee, chunk), Done) /\ Append(toSyncee, chunk) \in Seq(Messages)
    <3>1. ASSUME NEW a \in Messages, NEW b \in Messages, NEW q \in Seq(Messages)
          PROVE  q \o <<a, b>> = Append(Append(q, a), b) /\ Append(q, a) \in Seq(Messages)
      OBVIOUS
    <3> HIDE DEF chunk
    <3> QED BY <1>4, <2>1, <2>3, <3>1, Typed, Zenon
  <2>5. ChunksOnTheWay(toSyncee', syncee', syncer'.chunks + 1, <<Done>>, items')
    <3> HIDE DEF chunk
    <3> QED BY <1>1, <1>3, <1>6, <2>2, <2>3, <2>4, Typed, ChunksMore, Zenon
  <2>6. d < k + 1 /\ k + 1 = LastChunk
    <3>1. d <= k /\ (k = d \/ k = d + 1)
      BY <1>3, <1>4, <1>5, <1>9
    <3>2. (d + 1) - 1 = d /\ (d + 1) + 1 = d + 2 /\ LastChunk = IF ((d + 1) - 1) % BatchSize = 0 THEN (d + 1) + 1 ELSE d + 1
      BY <1>4 DEF LastChunk, FullChunks
    <3> HIDE DEF d
    <3>3. CASE k = d
      BY <1>3, <1>4, <1>9, <3>2, <3>3
    <3>4. CASE k # d
      <4>1. k = d + 1 /\ d % BatchSize = 0
        BY <1>3, <1>4, <1>5, <3>1, <3>4
      <4> QED BY <1>3, <1>4, <3>2, <4>1
    <3> QED BY <3>3, <3>4
  <2>7. UtxosEnded(syncer'.at, syncee'.chunks, toSyncer', syncer'.chunks + 1)
    <3>1. CASE (k + 1) % BatchSize = 0
      <4>1. Filled(syncee.chunks, k + 1, <<>>)
        BY <1>7, <3>1
      <4> QED BY <1>1, <1>2, <2>2, <4>1 DEF UtxosEnded
    <3>2. CASE (k + 1) % BatchSize # 0
      <4>1. Apart(syncee.chunks, k + 1)
        BY <1>7, <3>2
      <4> QED BY <1>1, <1>2, <2>2, <4>1 DEF UtxosEnded
    <3> QED BY <3>1, <3>2
  <2>8. LastChunk' = LastChunk
    BY <1>1 DEF LastChunk
  <2>9. syncer'.chunks + 1 = LastChunk' /\ FullChunks(items') < syncer'.chunks + 1
    BY <1>1, <2>2, <2>6, <2>8, SMTT(30)
  <2> HIDE DEF k, d, to, chunk, finished
  <2> QED BY <1>1, <2>5, <2>7, <2>9 DEF UtxosInv, ChunksSent
<1>10. CASE syncerPP = proofPP /\ ~(finished /\ k % BatchSize # 0)
  <2> DEFINE a == IF (k + 1) % BatchSize # 0 THEN "utxos" ELSE IF finished THEN "waitLast" ELSE "waitNext"
  <2>1. toSyncee' = Append(toSyncee, chunk) /\ syncer' = [syncer EXCEPT !.sent = to, !.chunks = k + 1, !.at = a]
    BY <1>10 DEF SendUTXOs, SendToSyncee
  <2>2. syncer'.at = a /\ syncer'.chunks = k + 1 /\ syncer'.sent = to
    BY <2>1, Typed DEF SyncerStates
  <2>3. finished => (k + 1) % BatchSize # 0
    <3>1. k % BatchSize = 0 => (k + 1) % BatchSize # 0
      <4>1. BatchSize \in Nat /\ BatchSize > 1
            /\ (k + 1) % BatchSize = IF k % BatchSize = BatchSize - 1 THEN 0 ELSE (k % BatchSize) + 1
        BY <1>3, Residue, SMTT(30)
      <4> QED BY <4>1
    <3> QED BY <1>10, <3>1
  <2>4. ChunksOnTheWay(toSyncee', syncee', syncer'.chunks, <<>>, items')
    <3> HIDE DEF chunk
    <3> QED BY <1>1, <1>6, <2>1, <2>2
  <2>5. Underway(syncer'.sent, syncer'.chunks, items')
    <3>1. k + 1 <= d \/ (k + 1 = d + 1 /\ d % BatchSize = 0)
      <4>1. CASE finished
        <5>1. k % BatchSize = 0 /\ d <= k
          BY <1>4, <1>10, <4>1
        <5>2. k = d
          <6>1. ASSUME k = d + 1, d % BatchSize = 0
                PROVE  FALSE
            <7>1. BatchSize \in Nat /\ BatchSize > 1
                  /\ (d + 1) % BatchSize = IF d % BatchSize = BatchSize - 1 THEN 0 ELSE (d % BatchSize) + 1
              BY <1>4, Residue
            <7> QED BY <5>1, <6>1, <7>1
          <6> QED BY <1>3, <1>4, <1>5, <5>1, <6>1
        <5> QED BY <5>1, <5>2
      <4>2. CASE ~finished
        <5>1. k < d
          BY <1>3, <1>4, <4>2
        <5> QED BY <1>3, <1>4, <5>1
      <4> QED BY <4>1, <4>2
    <3>2. syncer'.sent = Bound(k + 1, items)
      BY <1>4, <2>2
    <3> HIDE DEF to, finished, chunk, a
    <3> QED BY <1>1, <2>2, <3>1, <3>2 DEF Underway
  <2>6. \/ syncer'.at = "utxos" /\ Apart(syncee'.chunks, syncer'.chunks)
        \/ syncer'.at = "waitNext" /\ Filled(syncee'.chunks, syncer'.chunks, toSyncer')
    <3>1. CASE (k + 1) % BatchSize = 0
      <4>1. Filled(syncee.chunks, k + 1, <<>>) /\ syncer'.at = "waitNext"
        BY <1>7, <2>2, <2>3, <3>1
      <4> QED BY <1>1, <1>2, <2>2, <4>1
    <3>2. CASE (k + 1) % BatchSize # 0
      <4>1. Apart(syncee.chunks, k + 1) /\ syncer'.at = "utxos"
        BY <1>7, <2>2, <3>2
      <4> QED BY <1>1, <2>2, <4>1
    <3> QED BY <3>1, <3>2
  <2> HIDE DEF k, d, to, chunk, finished, a
  <2> QED BY <1>1, <1>2, <2>4, <2>5, <2>6 DEF UtxosInv, ChunksSent
<1> QED BY <1>8, <1>9, <1>10

(* What a chunk adds to what the syncee has.                               *)
LEMMA UtxosReceived ==
  ASSUME Types, InOrder, Got = Bound(syncee.chunks, items), ReceiveUTXOs,
         NEW n \in Nat, NEW last \in {<<>>, <<Aborted>>, <<Done>>},
         ChunksOnTheWay(toSyncee, syncee, n, last, items)
  PROVE  /\ ChunksOnTheWay(toSyncee', syncee', n, last, items) /\ InOrder' /\ Got' = Bound(syncee'.chunks, items)
         /\ \/ /\ syncee.chunks < n /\ syncee'.chunks = syncee.chunks + 1 /\ syncee'.at = "utxos"
               /\ toSyncer' = IF (syncee.chunks + 1) % BatchSize = 0 THEN Append(toSyncer, NextBatch) ELSE toSyncer
            \/ /\ last # <<>> /\ syncee'.chunks = syncee.chunks /\ syncee'.at \in {"done", "aborted"}
               /\ toSyncer' = toSyncer
<1> DEFINE c == syncee.chunks
<1>1. /\ syncee.at = "utxos" /\ toSyncee # <<>> /\ toSyncee' = Tail(toSyncee)
      /\ ChunksFrom(toSyncee, c, n, last, items) /\ c \in Nat /\ items \in Nat /\ Got \in Nat /\ c + 1 \in Nat
  BY Typed, SMTT(30) DEF ReceiveUTXOs, ChunksOnTheWay, Got
<1>2. Aborted \in Messages /\ Done \in Messages
  BY MessageTyped DEF Aborted, Done, MessageTypes
<1>3. \/ c < n /\ FromSyncer = Chunk(c + 1, items) /\ ChunksFrom(toSyncee', c + 1, n, last, items)
      \/ c = n /\ last = <<FromSyncer>> /\ toSyncee' = <<>>
  <2>1. last = <<>> \/ \E m \in Messages : last = <<m>>
    BY <1>2
  <2>2. toSyncee \in Seq(Messages)
    BY Typed
  <2>3. \/ c < n /\ Head(toSyncee) = Chunk(c + 1, items) /\ ChunksFrom(Tail(toSyncee), c + 1, n, last, items)
        \/ c = n /\ last = <<Head(toSyncee)>> /\ Tail(toSyncee) = <<>>
    <3> HIDE DEF c
    <3> QED BY <1>1, <2>1, <2>2, ChunksTake, Zenon
  <2> QED BY <1>1, <2>3 DEF FromSyncer
<1>4. CASE c < n /\ FromSyncer = Chunk(c + 1, items) /\ ChunksFrom(toSyncee', c + 1, n, last, items)
  <2> DEFINE piece == Items(Bound(c, items) + 1, Bound(c + 1, items))
  <2>1. FromSyncer.type = "item" /\ FromSyncer.items = piece
    <3>1. FromSyncer = Message("item", piece)
      BY <1>1, <1>4, ChunkTyped, Zenon
    <3> QED BY <3>1 DEF Message
  <2>2. /\ Bound(c, items) \in Nat /\ Bound(c + 1, items) \in Nat /\ Bound(c, items) <= Bound(c + 1, items)
    BY <1>1, BoundStep, Zenon
  <2> HIDE DEF piece
  <2>3. /\ syncee' = [syncee EXCEPT !.got = syncee.got \o piece, !.chunks = c + 1]
        /\ toSyncer' = IF (c + 1) % BatchSize = 0 THEN Append(toSyncer, NextBatch) ELSE toSyncer
    BY <2>1 DEF ReceiveUTXOs, SendToSyncer, NextBatch
  <2>4. syncee'.at = "utxos" /\ syncee'.got = syncee.got \o piece /\ syncee'.chunks = c + 1
    BY <1>1, <2>3, Typed, Zenon DEF SynceeStates
  <2>5. syncee'.got = Items(1, Bound(c + 1, items))
    <3>1. Items(1, Bound(c, items)) \o Items(Bound(c, items) + 1, Bound(c + 1, items)) = Items(1, Bound(c + 1, items))
      BY <2>2, ItemsConcat, Zenon
    <3> QED BY <2>4, <3>1, Zenon DEF InOrder, piece
  <2>6. Len(syncee'.got) = Bound(c + 1, items)
    <3>1. PICK b \in Nat : b = Bound(c + 1, items)
      BY <2>2
    <3>2. Len(Items(0 + 1, b)) = b - 0
      <4>1. 0 \in Nat /\ 0 <= b
        BY <3>1
      <4> QED BY <3>1, <4>1, ItemsSeq, Zenon
    <3>3. 0 + 1 = 1 /\ b - 0 = b
      OBVIOUS
    <3> QED BY <2>5, <3>1, <3>2, <3>3
  <2>7. ChunksOnTheWay(toSyncee', syncee', n, last, items)
    BY <1>4, <2>4 DEF ChunksOnTheWay
  <2>8. InOrder' /\ Got' = Bound(syncee'.chunks, items)
    BY <2>4, <2>5, <2>6 DEF InOrder, Got
  <2> QED BY <1>4, <2>3, <2>4, <2>7, <2>8
<1>5. CASE c = n /\ last = <<FromSyncer>> /\ toSyncee' = <<>>
  <2>1. last # <<>> /\ FromSyncer \in {Aborted, Done}
    BY <1>5
  <2>2. CASE FromSyncer = Done
    <3>1. FromSyncer.type = "done"
      BY <2>2 DEF Done, Message
    <3>2. syncee' = [syncee EXCEPT !.at = "done"] /\ toSyncer' = toSyncer
      BY <3>1 DEF ReceiveUTXOs
    <3>3. syncee'.at = "done" /\ syncee'.got = syncee.got /\ syncee'.chunks = c
      BY <3>2, Typed DEF SynceeStates
    <3> QED BY <1>5, <2>1, <2>2, <3>2, <3>3 DEF ChunksOnTheWay, InOrder, Got
  <2>3. CASE FromSyncer = Aborted
    <3>1. FromSyncer.type = "unexpectedPruningPoint"
      BY <2>3 DEF Aborted, Message
    <3>2. syncee' = [syncee EXCEPT !.at = "aborted"] /\ toSyncer' = toSyncer
      BY <3>1 DEF ReceiveUTXOs
    <3>3. syncee'.at = "aborted" /\ syncee'.got = syncee.got /\ syncee'.chunks = c
      BY <3>2, Typed DEF SynceeStates
    <3> QED BY <1>5, <2>1, <2>3, <3>2, <3>3 DEF ChunksOnTheWay, InOrder, Got
  <2> QED BY <2>1, <2>2, <2>3
<1> QED BY <1>3, <1>4, <1>5

(* receiveAndInsertPruningPointUTXOSet takes a chunk, and asks for the     *)
(* next batch with the last chunk of one, or takes the last message.       *)
LEMMA UtxosReceive ==
  ASSUME Types, InOrder, download = "utxos", UtxosInv, ReceiveUTXOs
  PROVE  UtxosInv' /\ InOrder'
<1> DEFINE c == syncee.chunks
           k == syncer.chunks
<1>1. /\ syncer' = syncer /\ items' = items /\ receiver' = receiver /\ headerChan' = headerChan
      /\ syncee.at = "utxos" /\ toSyncee # <<>> /\ receiver = "none" /\ headerChan = <<>>
      /\ Got = Bound(c, items) /\ c \in Nat /\ k \in Nat /\ k + 1 \in Nat /\ LastChunk' = LastChunk
  BY Typed, SMTT(30) DEF ReceiveUTXOs, SynceeStays, UtxosInv, LastChunk
<1>2. \/ /\ syncer.at = "utxos" /\ toSyncer = <<>> /\ Apart(c, k)
         /\ ChunksSent(k, <<>>) /\ Underway(syncer.sent, k, items)
      \/ /\ syncer.at \in {"waitNext", "timedOut"} /\ Filled(c, k, toSyncer)
         /\ ChunksSent(k, <<>>) /\ Underway(syncer.sent, k, items)
      \/ /\ syncer.at = "idle" /\ toSyncer = <<>> /\ Apart(c, k)
         /\ ChunksSent(k, <<Aborted>>)
      \/ /\ k + 1 = LastChunk /\ FullChunks(items) < k + 1 /\ ChunksSent(k + 1, <<Done>>)
         /\ UtxosEnded(syncer.at, c, toSyncer, k + 1)
  BY <1>1 DEF UtxosInv
<1>3. ASSUME NEW n \in Nat, NEW last \in {<<>>, <<Aborted>>, <<Done>>}, ChunksSent(n, last)
      PROVE  /\ ChunksOnTheWay(toSyncee', syncee', n, last, items') /\ InOrder' /\ Got' = Bound(syncee'.chunks, items')
             /\ \/ /\ c < n /\ syncee'.chunks = c + 1 /\ syncee'.at = "utxos"
                   /\ toSyncer' = IF (c + 1) % BatchSize = 0 THEN Append(toSyncer, NextBatch) ELSE toSyncer
                \/ /\ last # <<>> /\ syncee'.chunks = c /\ syncee'.at \in {"done", "aborted"}
                   /\ toSyncer' = toSyncer
  BY <1>1, <1>3, UtxosReceived DEF ChunksSent
<1>4. ASSUME NEW n \in Nat, c < n, Apart(c, n), toSyncer = <<>>, syncee'.chunks = c + 1,
             toSyncer' = IF (c + 1) % BatchSize = 0 THEN Append(toSyncer, NextBatch) ELSE toSyncer
      PROVE  toSyncer' = <<>> /\ Apart(syncee'.chunks, n)
  BY <1>1, <1>4, ApartGet
<1>5. ASSUME NEW n \in Nat, c < n, Filled(c, n, toSyncer), syncee'.chunks = c + 1,
             toSyncer' = IF (c + 1) % BatchSize = 0 THEN Append(toSyncer, NextBatch) ELSE toSyncer
      PROVE  Filled(syncee'.chunks, n, toSyncer')
  <2>1. /\ toSyncer = <<>> /\ ((c + 1) % BatchSize = 0 <=> c + 1 = n)
        /\ Filled(c + 1, n, IF c + 1 = n THEN <<NextBatch>> ELSE <<>>)
    BY <1>1, <1>5, FilledGet
  <2>2. toSyncer' = IF c + 1 = n THEN Append(<<>>, NextBatch) ELSE <<>>
    BY <1>5, <2>1
  <2>3. toSyncer' = IF c + 1 = n THEN <<NextBatch>> ELSE <<>>
    BY <2>2, Single
  <2> QED BY <1>5, <2>1, <2>3
<1> HIDE DEF c, k
<1>6. CASE syncer.at = "utxos" /\ toSyncer = <<>> /\ Apart(c, k) /\ ChunksSent(k, <<>>) /\ Underway(syncer.sent, k, items)
  <2>1. /\ ChunksOnTheWay(toSyncee', syncee', k, <<>>, items') /\ InOrder' /\ Got' = Bound(syncee'.chunks, items')
        /\ c < k /\ syncee'.chunks = c + 1 /\ syncee'.at = "utxos"
        /\ toSyncer' = IF (c + 1) % BatchSize = 0 THEN Append(toSyncer, NextBatch) ELSE toSyncer
    BY <1>1, <1>3, <1>6
  <2>2. toSyncer' = <<>> /\ Apart(syncee'.chunks, k)
    BY <1>1, <1>4, <1>6, <2>1, SMTT(30)
  <2> QED BY <1>1, <1>6, <2>1, <2>2 DEF UtxosInv, ChunksSent, k
<1>7. CASE /\ syncer.at \in {"waitNext", "timedOut"} /\ Filled(c, k, toSyncer)
           /\ ChunksSent(k, <<>>) /\ Underway(syncer.sent, k, items)
  <2>1. /\ ChunksOnTheWay(toSyncee', syncee', k, <<>>, items') /\ InOrder' /\ Got' = Bound(syncee'.chunks, items')
        /\ c < k /\ syncee'.chunks = c + 1 /\ syncee'.at = "utxos"
        /\ toSyncer' = IF (c + 1) % BatchSize = 0 THEN Append(toSyncer, NextBatch) ELSE toSyncer
    BY <1>1, <1>3, <1>7
  <2>2. Filled(syncee'.chunks, k, toSyncer')
    BY <1>1, <1>5, <1>7, <2>1, SMTT(30)
  <2> QED BY <1>1, <1>7, <2>1, <2>2 DEF UtxosInv, ChunksSent, k
<1>8. CASE syncer.at = "idle" /\ toSyncer = <<>> /\ Apart(c, k) /\ ChunksSent(k, <<Aborted>>)
  <2>1. /\ ChunksOnTheWay(toSyncee', syncee', k, <<Aborted>>, items') /\ InOrder' /\ Got' = Bound(syncee'.chunks, items')
        /\ syncee'.at \in {"utxos", "done", "aborted"}
    BY <1>1, <1>3, <1>8
  <2>2. toSyncer' = <<>> /\ Apart(syncee'.chunks, k)
    <3>1. \/ /\ c < k /\ syncee'.chunks = c + 1
             /\ toSyncer' = IF (c + 1) % BatchSize = 0 THEN Append(toSyncer, NextBatch) ELSE toSyncer
          \/ syncee'.chunks = c /\ toSyncer' = toSyncer
      BY <1>1, <1>3, <1>8, SMTT(30)
    <3> QED BY <1>1, <1>4, <1>8, <3>1
  <2> QED BY <1>1, <1>8, <2>1, <2>2, SMTT(30) DEF UtxosInv, ChunksSent, k
<1>9. CASE /\ k + 1 = LastChunk /\ FullChunks(items) < k + 1 /\ ChunksSent(k + 1, <<Done>>)
           /\ UtxosEnded(syncer.at, c, toSyncer, k + 1)
  <2>1. PICK n \in Nat : n = k + 1
    BY <1>1
  <2>2. /\ ChunksOnTheWay(toSyncee', syncee', n, <<Done>>, items') /\ InOrder' /\ Got' = Bound(syncee'.chunks, items')
        /\ \/ /\ c < n /\ syncee'.chunks = c + 1 /\ syncee'.at = "utxos"
              /\ toSyncer' = IF (c + 1) % BatchSize = 0 THEN Append(toSyncer, NextBatch) ELSE toSyncer
           \/ /\ syncee'.chunks = c /\ syncee'.at \in {"done", "aborted"}
              /\ toSyncer' = toSyncer
    BY <1>3, <1>9, <2>1
  <2>3. UtxosEnded(syncer.at, syncee'.chunks, toSyncer', n)
    <3>1. CASE syncee'.chunks = c /\ toSyncer' = toSyncer
      BY <1>9, <2>1, <3>1
    <3>2. CASE /\ c < n /\ syncee'.chunks = c + 1
               /\ toSyncer' = IF (c + 1) % BatchSize = 0 THEN Append(toSyncer, NextBatch) ELSE toSyncer
      <4>1. CASE syncer.at = "idle" /\ toSyncer = <<>> /\ Apart(c, n)
        <5>1. toSyncer' = <<>> /\ Apart(syncee'.chunks, n)
          BY <1>4, <3>2, <4>1
        <5> QED BY <4>1, <5>1 DEF UtxosEnded
      <4>2. CASE syncer.at = "idle" /\ Filled(c, n, toSyncer)
        <5>1. Filled(syncee'.chunks, n, toSyncer')
          BY <1>5, <3>2, <4>2
        <5> QED BY <4>2, <5>1 DEF UtxosEnded
      <4>3. c # n
        BY <1>1, <3>2 DEF c
      <4> QED BY <1>9, <2>1, <4>1, <4>2, <4>3 DEF UtxosEnded
    <3> QED BY <2>2, <3>1, <3>2
  <2>4. syncer'.chunks + 1 = n /\ n = LastChunk' /\ FullChunks(items') < n
    BY <1>1, <1>9, <2>1 DEF k
  <2>5. /\ ChunksOnTheWay(toSyncee', syncee', syncer'.chunks + 1, <<Done>>, items')
        /\ UtxosEnded(syncer'.at, syncee'.chunks, toSyncer', syncer'.chunks + 1)
        /\ syncer'.chunks + 1 = LastChunk' /\ FullChunks(items') < syncer'.chunks + 1
    BY <1>1, <2>2, <2>3, <2>4
  <2> QED BY <1>1, <2>2, <2>5 DEF UtxosInv, ChunksSent
<1> QED BY <1>2, <1>6, <1>7, <1>8, <1>9 DEF c, k

(* The invariant of the UTXOs is inductive.                                *)
LEMMA UtxosStep ==
  ASSUME Types, InOrder, download = "utxos", UtxosInv, TransferNext
  PROVE  UtxosInv' /\ InOrder'
<1>1. CASE TakeRequest \/ SendUTXOs \/ TakeNext \/ TimeOutSyncer \/ PruningPointMoves
  BY <1>1, UtxosTakeRequest, UtxosSend, UtxosTakeNext, UtxosPointMoves DEF InOrder, Got
<1>2. CASE StartDownload \/ (TimeOutSyncee /\ syncee.at = "utxos")
  BY <1>2, UtxosStart, UtxosTimeOut DEF InOrder, Got
<1>3. CASE ReceiveUTXOs
  BY <1>3, UtxosReceive
<1> QED BY <1>1, <1>2, <1>3, UtxosActions

(* The inductive invariant holds at the start.                             *)
LEMMA TransferInitially ==
  ASSUME TransferInit
  PROVE  IInv
<1>1. /\ syncer = [at |-> "idle", sent |-> 0, chunks |-> 0, batch |-> <<>>]
      /\ syncee = [at |-> "start", got |-> <<>>, chunks |-> 0, batch |-> <<>>]
      /\ toSyncer = <<>> /\ toSyncee = <<>> /\ receiver = "none" /\ headerChan = <<>>
      /\ isBusy = FALSE /\ syncerPP = 0 /\ proofPP = 0 /\ slow \in BOOLEAN
  BY DEF TransferInit
<1>2. /\ download \in {"headers", "trusted", "utxos", "bodies"} /\ items \in Nat /\ (download # "utxos" => items > 0)
  BY TransferAssumption DEF TransferInit
<1>3. Types
  <2>1. <<>> \in Seq(Nat) /\ <<>> \in Seq(Messages) /\ <<>> \in Seq(Seq(Nat)) /\ 0 \in Nat
    OBVIOUS
  <2>2. syncer \in SyncerStates /\ syncee \in SynceeStates
    BY <1>1, <2>1 DEF SyncerStates, SynceeStates, SyncerPlaces, SynceePlaces
  <2> QED BY <1>1, <1>2, <2>1, <2>2, Zenon DEF Types
<1>4. Got = 0 /\ AtStart /\ syncee.at = "start"
  BY <1>1 DEF Got, AtStart
<1>5. InOrder
  <2>1. Items(0 + 1, 0) = <<>>
    <3>1. 0 \in Nat
      OBVIOUS
    <3> QED BY <3>1, ItemsEmpty, Zenon
  <2>2. 0 + 1 = 1
    OBVIOUS
  <2> QED BY <1>1, <1>4, <2>1, <2>2 DEF InOrder
<1>6. HeadersInv
  BY <1>1, <1>2, <1>4 DEF HeadersInv
<1>7. download = "trusted" => TrustedInv
  BY <1>1, <1>2, <1>4, SMTT(30) DEF TrustedInv
<1>8. UtxosInv
  BY <1>1, <1>2, <1>4, BoundZero, SMTT(30) DEF UtxosInv
<1>9. BodiesInv
  BY <1>1, <1>2, <1>4 DEF BodiesInv
<1> QED BY <1>3, <1>5, <1>6, <1>7, <1>8, <1>9 DEF IInv

(* Every step keeps the inductive invariant.                               *)
LEMMA TransferSteps ==
  ASSUME IInv, [TransferNext]_transferVars
  PROVE  IInv'
<1>1. CASE TransferNext
  <2>1. Types' /\ download \in {"headers", "trusted", "utxos", "bodies"}
    BY <1>1, TypesStep, SMTT(30) DEF IInv, Types
  <2>2. download' = download
    BY <1>1, ZenonT(40) DEF TransferNext, TransferStep, TakeRequest, SendHeaders, SendTrustedData, SendTrustedBlock, SendUTXOs,
      TakeNext, SendBody, StartDownload, RequestBodies, ReceiveBody, ReceivePruningPoints, ReceiveTrustedData,
      ReceiveTrustedBlock, ReceiveUTXOs, ReceiveHeaders, PutHeaders, ProcessHeaders, EndHeaders, TimeOutSyncee,
      TimeOutSyncer, PruningPointMoves, OtherRequest, SyncerStays, SynceeStays
  <2>3. InOrder' /\ (download = "headers" => HeadersInv') /\ (download = "trusted" => TrustedInv')
        /\ (download = "utxos" => UtxosInv') /\ (download = "bodies" => BodiesInv')
    BY <1>1, <2>1, HeadersStep, TrustedStep, UtxosStep, BodiesStep DEF IInv
  <2> QED BY <2>1, <2>2, <2>3 DEF IInv
<1>2. CASE UNCHANGED transferVars
  <2>1. /\ download' = download /\ items' = items /\ slow' = slow /\ toSyncer' = toSyncer /\ toSyncee' = toSyncee
        /\ syncer' = syncer /\ syncee' = syncee /\ receiver' = receiver /\ headerChan' = headerChan
        /\ isBusy' = isBusy /\ syncerPP' = syncerPP /\ proofPP' = proofPP
    BY <1>2 DEF transferVars
  <2>2. Types' = Types /\ InOrder' = InOrder /\ AtStart' = AtStart
    BY <2>1, SMTT(30) DEF Types, InOrder, Got, AtStart
  <2>3. HeadersInv' = HeadersInv
    BY <2>1, <2>2, SMTT(30) DEF HeadersInv, HeadersOnTheWay, Received, Got
  <2>4. TrustedInv' = TrustedInv
    BY <2>1, <2>2, SMTT(30) DEF TrustedInv, TrustedSent, PruningPoints, Got
  <2>5. UtxosInv' = UtxosInv
    BY <2>1, <2>2, SMTT(30) DEF UtxosInv, ChunksSent, LastChunk, Got
  <2>6. BodiesInv' = BodiesInv
    BY <2>1, <2>2 DEF BodiesInv, BodiesSent, Got
  <2> QED BY <2>1, <2>2, <2>3, <2>4, <2>5, <2>6 DEF IInv
<1> QED BY <1>1, <1>2

-----------------------------------------------------------------------------
(* What the invariant implies.                                             *)

(* A queue that is empty or has one message.                               *)
LEMMA AtMostOne ==
  ASSUME NEW q, q = <<>> \/ \E m : q = <<m>>
  PROVE  Len(q) <= 1
<1>1. CASE q = <<>>
  BY <1>1
<1>2. CASE \E m : q = <<m>>
  <2>1. PICK m : q = <<m>>
    BY <1>2
  <2>2. Len(<<m>>) = 1
    OBVIOUS
  <2> QED BY <2>1, <2>2
<1> QED BY <1>1, <1>2

(* TransferCorrect from the invariant of the headers.                      *)
LEMMA HeadersDelivered ==
  ASSUME Types, download = "headers", HeadersInv
  PROVE  /\ syncee.at = "done" => Got = items
         /\ Len(toSyncee) <= 1 /\ Len(toSyncer) <= 1
         /\ syncee.at \notin {"unexpected", "otherPruningPoint"} /\ syncer.at # "unexpected"
<1>1. /\ toSyncer \in {<<>>, <<Request>>, <<NextBatch>>} /\ syncer.at # "unexpected"
      /\ toSyncee = <<>> \/ toSyncee = <<Done>> \/ \E its : toSyncee = <<Message("item", its)>>
  BY DEF HeadersInv, HeadersOnTheWay, AtStart
<1>2. Len(toSyncee) <= 1 /\ Len(toSyncer) <= 1
  BY <1>1, AtMostOne
<1>3. ASSUME syncee.at = "done"
      PROVE  Got = items
  <2>1. syncer.at = "idle" /\ toSyncer = <<>> /\ headerChan = <<>> /\ HeadersOnTheWay
    BY <1>3 DEF HeadersInv
  <2>2. Pieces(<<>>, Got, items)
    BY <2>1 DEF HeadersOnTheWay, Received
  <2> QED BY <2>2, PiecesEmpty, Typed DEF Got
<1> QED BY <1>1, <1>2, <1>3, SMTT(30) DEF HeadersInv

(* TransferCorrect from the invariant of the anticone.                     *)
LEMMA TrustedDelivered ==
  ASSUME Types, download = "trusted", TrustedInv
  PROVE  /\ syncee.at = "done" => Got = items
         /\ Len(toSyncee) <= BatchSize + 2 /\ Len(toSyncer) <= 1
         /\ syncee.at # "unexpected" /\ syncer.at # "unexpected"
         /\ syncee.at = "otherPruningPoint" => syncerPP # proofPP
<1>1. (\A m : Len(<<m>>) = 1) /\ Len(<<>>) = 0 /\ BatchSize \in Nat /\ BatchSize > 1
  BY TransferAssumption
<1>2. Got \in Nat /\ items \in Nat /\ syncer.sent \in Nat /\ Len(toSyncee) \in Nat
  BY Typed DEF Got
<1>3. syncee.at # "unexpected" /\ syncer.at # "unexpected" /\ (syncee.at = "otherPruningPoint" => syncerPP # proofPP)
  BY DEF TrustedInv, AtStart
<1>4. \A s, q : s \in Nat /\ Filled(Got, s, q) => Got <= s /\ s - Got <= BatchSize /\ q \in {<<>>, <<NextBatch>>}
  BY <1>2, FilledBound
<1>5. \A s \in Nat : Apart(Got, s) => Got <= s /\ s - Got < BatchSize
  BY <1>2, ApartBound
<1>6. Len(toSyncer) <= 1
  <2>1. toSyncer \in {<<>>, <<Request>>, <<NextBatch>>}
    BY <1>2, <1>4 DEF TrustedInv, AtStart
  <2> QED BY <2>1, AtMostOne, SMTT(30)
<1>7. ASSUME NEW n \in Nat, TrustedOnTheWay(toSyncee, syncee, n, items, PruningPoints), syncee.at # "start"
      PROVE  Len(toSyncee) <= n - Got \/ toSyncee = <<>>
  <2>1. PICK g \in Nat, l \in Nat : g = Got /\ l = Len(toSyncee)
    BY <1>2, Zenon
  <2>2. (l = n - 0 /\ g = 0) \/ (l = n - 1 /\ g = 0) \/ l = n - (g + 2) \/ toSyncee = <<>> \/ l <= n - g
    BY <1>7, <2>1, Zenon DEF TrustedOnTheWay, TrustedFrom, TrustedInv, Got
  <2> QED BY <2>1, <2>2
<1>8. Len(toSyncee) <= BatchSize + 2
  <2>1. CASE toSyncee = <<>>
    BY <1>1, <2>1
  <2>2. CASE toSyncee # <<>>
    <3>1. syncee.at # "start" /\ syncer.sent + 2 \in Nat /\ items + 3 \in Nat /\ 1 \in Nat
      BY <1>2, <2>2 DEF TrustedInv, AtStart
    <3>2. /\ TrustedSent(1) => Len(toSyncee) <= 1 - Got
          /\ TrustedSent(syncer.sent + 2) => Len(toSyncee) <= (syncer.sent + 2) - Got
          /\ TrustedSent(items + 3) => Len(toSyncee) <= (items + 3) - Got
      BY <1>7, <2>2, <3>1, SMTT(30) DEF TrustedSent
    <3>3. \/ Len(toSyncee) <= 1 - Got
          \/ Len(toSyncee) <= (syncer.sent + 2) - Got /\ syncer.sent - Got <= BatchSize
          \/ Len(toSyncee) <= (items + 3) - Got /\ items - Got < BatchSize
      <4>1. /\ Apart(Got, syncer.sent) => syncer.sent - Got <= BatchSize
            /\ Filled(Got, syncer.sent, toSyncer) => syncer.sent - Got <= BatchSize
            /\ Apart(Got, items) => items - Got < BatchSize
        BY <1>1, <1>2, <1>4, <1>5, SMTT(30)
      <4> QED BY <2>2, <3>1, <3>2, <4>1 DEF TrustedInv
    <3> QED BY <1>1, <1>2, <3>3, SMTT(30)
  <2> QED BY <2>1, <2>2
<1>9. syncee.at = "done" => Got = items
  BY DEF TrustedInv, TrustedSent, TrustedOnTheWay, Got
<1> QED BY <1>3, <1>6, <1>8, <1>9

(* TransferCorrect from the invariant of the UTXOs.                        *)
LEMMA UtxosDelivered ==
  ASSUME Types, download = "utxos", UtxosInv
  PROVE  /\ syncee.at = "done" => Got = items
         /\ Len(toSyncee) <= BatchSize + 1 /\ Len(toSyncer) <= 1
         /\ syncee.at \notin {"unexpected", "otherPruningPoint"}
         /\ syncer.at = "unexpected" => LastChunk % BatchSize = 0
<1>1. (\A m : Len(<<m>>) = 1) /\ Len(<<>>) = 0 /\ BatchSize \in Nat /\ BatchSize > 1
  BY TransferAssumption
<1> DEFINE c == syncee.chunks
           k == syncer.chunks
<1>2. c \in Nat /\ k \in Nat /\ k + 1 \in Nat /\ items \in Nat /\ Len(toSyncee) \in Nat
  BY Typed, SMTT(30)
<1>3. \A s, q : s \in Nat /\ Filled(c, s, q) => c <= s /\ s - c <= BatchSize /\ q \in {<<>>, <<NextBatch>>}
  BY <1>2, FilledBound
<1>4. \A s \in Nat : Apart(c, s) => c <= s /\ s - c < BatchSize
  BY <1>2, ApartBound
<1>5. Len(toSyncer) <= 1
  <2>1. toSyncer \in {<<>>, <<Request>>, <<NextBatch>>}
    BY <1>2, <1>3, SMTT(30) DEF UtxosInv, UtxosEnded, AtStart
  <2> QED BY <2>1, AtMostOne, SMTT(30)
<1>6. syncee.at \notin {"unexpected", "otherPruningPoint"} /\ (syncer.at = "unexpected" => LastChunk % BatchSize = 0)
  BY DEF UtxosInv, UtxosEnded, AtStart
<1>7. ASSUME NEW n \in Nat, NEW last \in {<<>>, <<Aborted>>, <<Done>>}, ChunksSent(n, last), n - c <= BatchSize
      PROVE  Len(toSyncee) <= BatchSize + 1
  <2>1. PICK l \in {0, 1} : Len(last) = l
    BY <1>1
  <2>2. Len(toSyncee) = (n - c) + l \/ Len(toSyncee) = 0
    BY <1>1, <1>7, <2>1 DEF ChunksSent, ChunksOnTheWay, ChunksFrom
  <2>3. PICK z \in Nat : z = Len(toSyncee)
    BY <1>2
  <2> HIDE DEF c
  <2>4. z <= BatchSize + 1
    BY <1>1, <1>2, <1>7, <2>1, <2>2, <2>3
  <2> QED BY <2>3, <2>4
<1>8. Len(toSyncee) <= BatchSize + 1
  <2>1. CASE toSyncee = <<>>
    BY <1>1, <2>1
  <2>2. CASE toSyncee # <<>>
    <3>1. /\ Apart(c, k) => k - c <= BatchSize
          /\ Filled(c, k, toSyncer) => k - c <= BatchSize
          /\ UtxosEnded(syncer.at, c, toSyncer, k + 1) => (k + 1) - c <= BatchSize
      <4>1. /\ Apart(c, k) => k - c <= BatchSize
            /\ Filled(c, k, toSyncer) => k - c <= BatchSize
        BY <1>1, <1>2, <1>3, <1>4
      <4>2. PICK n \in Nat : n = k + 1
        BY <1>2
      <4>3. UtxosEnded(syncer.at, c, toSyncer, n) => n - c <= BatchSize
        BY <1>1, <1>2, <1>3, <1>4, SMTT(30) DEF UtxosEnded
      <4> QED BY <4>1, <4>2, <4>3
    <3>2. \E n \in Nat, last \in {<<>>, <<Aborted>>, <<Done>>} : ChunksSent(n, last) /\ n - c <= BatchSize
      BY <1>2, <2>2, <3>1, SMTT(30) DEF UtxosInv, AtStart
    <3> QED BY <1>7, <3>2
  <2> QED BY <2>1, <2>2
<1>9. ASSUME syncee.at = "done"
      PROVE  Got = items
  <2>1. ChunksSent(k + 1, <<Done>>) /\ FullChunks(items) < k + 1
    <3>1. <<Aborted>> # <<Done>> /\ <<>> # <<Done>>
      BY DEF Aborted, Done, Message
    <3> QED BY <1>9, <3>1 DEF UtxosInv, ChunksSent, ChunksOnTheWay
  <2>2. c = k + 1
    BY <1>9, <2>1 DEF ChunksSent, ChunksOnTheWay
  <2>3. PICK d \in Nat : d = FullChunks(items)
    BY <1>2, FullTyped
  <2>4. ~(c <= FullChunks(items))
    BY <1>2, <2>1, <2>2, <2>3
  <2>5. Bound(c, items) = items
    BY <2>4 DEF Bound
  <2> QED BY <2>5, SMTT(30) DEF UtxosInv
<1> QED BY <1>5, <1>6, <1>8, <1>9

(* TransferCorrect from the invariant of the bodies.                       *)
LEMMA BodiesDelivered ==
  ASSUME Types, download = "bodies", BodiesInv
  PROVE  /\ syncee.at = "done" => Got = items
         /\ Len(toSyncee) <= BatchSize /\ Len(toSyncer) <= 1
         /\ syncee.at \notin {"unexpected", "otherPruningPoint"} /\ syncer.at # "unexpected"
<1>1. (\A m : Len(<<m>>) = 1) /\ Len(<<>>) = 0 /\ BatchSize \in Nat /\ BatchSize > 1
  BY TransferAssumption
<1>2. Len(toSyncer) <= 1
  <2>1. toSyncer = <<>> \/ toSyncer = <<Message("request", Items(Got + 1, syncee.chunks))>>
    BY DEF BodiesInv, AtStart
  <2> QED BY <2>1, AtMostOne
<1>3. Len(toSyncee) <= BatchSize
  <2>1. CASE toSyncee = <<>>
    BY <1>1, <2>1
  <2>2. CASE toSyncee # <<>>
    <3>1. syncee.chunks <= Got + BatchSize /\ \E next \in 0 .. items : BodiesSent(next)
      BY <2>2 DEF BodiesInv, AtStart
    <3>2. PICK next \in 0 .. items : BodiesSent(next)
      BY <3>1
    <3> QED BY <1>1, <3>1, <3>2, Typed, SMTT(30) DEF BodiesSent, Got
  <2> QED BY <2>1, <2>2
<1> QED BY <1>2, <1>3 DEF BodiesInv

(* The inductive invariant implies TransferCorrect.                        *)
LEMMA TransferImplied ==
  ASSUME IInv
  PROVE  TransferCorrect
<1>1. Types /\ InOrder /\ download \in {"headers", "trusted", "utxos", "bodies"} /\ BatchSize \in Nat /\ BatchSize > 1
      /\ Len(toSyncee) \in Nat
  BY TransferAssumption, Typed DEF IInv, Types
<1>2. syncee.got = Items(1, Len(syncee.got))
  BY <1>1 DEF InOrder, Got
<1>3. /\ syncee.at = "done" => Got = items
      /\ Len(toSyncee) <= BatchSize + 2 /\ Len(toSyncer) <= 1
      /\ syncee.at # "unexpected"
      /\ syncer.at = "unexpected" => download = "utxos" /\ LastChunk % BatchSize = 0
      /\ syncee.at = "otherPruningPoint" => syncerPP # proofPP
  <2>1. CASE download = "headers"
    BY <1>1, <2>1, HeadersDelivered DEF IInv
  <2>2. CASE download = "trusted"
    BY <1>1, <2>2, TrustedDelivered DEF IInv
  <2>3. CASE download = "utxos"
    BY <1>1, <2>3, UtxosDelivered DEF IInv
  <2>4. CASE download = "bodies"
    BY <1>1, <2>4, BodiesDelivered DEF IInv
  <2> QED BY <1>1, <2>1, <2>2, <2>3, <2>4
<1> QED BY <1>2, <1>3 DEF TransferCorrect, TransferExact, BatchesBounded, CountsAgree, Got

(* The invariant holds throughout: what is on the way in a download is     *)
(* what the syncer has sent and the syncee has not yet got, in order.      *)
THEOREM TransferInvariance == TransferSpec => []IInv
<1>1. TransferInit => IInv
  BY TransferInitially
<1>2. IInv /\ [TransferNext]_transferVars => IInv'
  BY TransferSteps
<1> QED BY <1>1, <1>2, PTL DEF TransferSpec

(* The downloads of an IBD deliver their items complete and in order, keep *)
(* what is on the way below the capacity of a route, and count their       *)
(* batches alike on both sides (TransferCorrect), for any number of items  *)
(* and any sizes of batches, chunks and the channel of headers.            *)
THEOREM TransferSafe == TransferSpec => []TransferCorrect
<1>1. IInv => TransferCorrect
  BY TransferImplied
<1> QED BY <1>1, TransferInvariance, PTL
=============================================================================
