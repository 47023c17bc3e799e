------------------------- MODULE IBDTransfer_steps -------------------------
(***************************************************************************)
(* The inductive invariant of the downloads of an IBD, and the steps of    *)
(* the headers, of the anticone and of the bodies.                         *)
(*                                                                         *)
(* The invariant says of each download what is on the way, from what the   *)
(* syncer has sent to what the syncee has got, and on which side the next  *)
(* step is.                                                                *)
(***************************************************************************)
EXTENDS IBDTransfer, TLAPS

Request == Message("request", <<>>)
NextBatch == Message("next", <<>>)
Done == Message("done", <<>>)
Got == Len(syncee.got)

MessageTypes == {"request", "next", "item", "done", "pruningPoints", "trustedData", "unexpectedPruningPoint"}
Messages == [type : MessageTypes, items : Seq(Nat)]

SyncerPlaces == {"idle", "headers", "trustedData", "trusted", "utxos", "bodies", "waitNext", "waitLast",
                 "busy", "timedOut", "unexpected"}
SynceePlaces == {"start", "headers", "pruningPoints", "trustedData", "trusted", "utxos", "bodies", "receiveBodies",
                 "done", "aborted", "otherPruningPoint", "timedOut", "unexpected"}
SyncerStates == [at : SyncerPlaces, sent : Nat, chunks : Nat, batch : Seq(Nat)]
SynceeStates == [at : SynceePlaces, got : Seq(Nat), chunks : Nat, batch : Seq(Nat)]

Types ==
  /\ download \in {"headers", "trusted", "utxos", "bodies"}
  /\ items \in Nat /\ slow \in BOOLEAN /\ isBusy \in BOOLEAN
  /\ proofPP = 0 /\ syncerPP \in {0, 1}
  /\ syncer \in SyncerStates /\ syncee \in SynceeStates
  /\ receiver \in {"none", "receive", "put", "error", "closed"}
  /\ toSyncer \in Seq(Messages) /\ toSyncee \in Seq(Messages) /\ headerChan \in Seq(Seq(Nat))

(* The syncee has the first items.                                         *)
InOrder == syncee.got = Items(1, Got)

(* Before the request.                                                     *)
AtStart ==
  /\ toSyncer = <<>> /\ toSyncee = <<>> /\ Got = 0
  /\ syncer.at = "idle" /\ syncer.sent = 0 /\ syncer.chunks = 0 /\ syncer.batch = <<>>
  /\ syncee.chunks = 0 /\ receiver = "none" /\ headerChan = <<>>

(* The requests for batches: of what was sent, a batch at most has not     *)
(* arrived, and the syncee asks for the next one with the last of it.      *)
Apart(got, sent) == got <= sent /\ (got % BatchSize) + (sent - got) = sent % BatchSize
Filled(got, sent, asked) == sent % BatchSize = 0 /\ got <= sent /\
                            IF got = sent THEN asked = <<NextBatch>>
                            ELSE asked = <<>> /\ (got % BatchSize) + (sent - got) = BatchSize
-----------------------------------------------------------------------------
(* Headers.  One message is on the way at most: it, or what the receiver   *)
(* has in hand, goes on where the channel ends.                            *)
Pieces(chan, from, to) ==
  \E ends \in [0 .. Len(chan) -> 0 .. to] :
    /\ ends[0] = from /\ ends[Len(chan)] = to
    /\ \A i \in 1 .. Len(chan) : ends[i - 1] <= ends[i] /\ chan[i] = Items(ends[i - 1] + 1, ends[i])
Received(to) == Pieces(headerChan, Got, to)

HeadersOnTheWay ==
  \/ /\ syncer.at = "idle" /\ toSyncer = <<Request>> /\ toSyncee = <<>> /\ receiver # "put"
     /\ syncer.sent = 0 /\ Received(0)
  \/ /\ syncer.at = "headers" /\ toSyncer = <<>> /\ toSyncee = <<>> /\ receiver # "put"
     /\ Received(syncer.sent)
  \/ /\ syncer.at = "waitNext" /\ toSyncer = <<>> /\ receiver # "put"
     /\ \E from \in 0 .. syncer.sent : /\ from < syncer.sent /\ Received(from)
                                       /\ toSyncee = <<Message("item", Items(from + 1, syncer.sent))>>
  \/ /\ syncer.at = "waitNext" /\ toSyncer = <<>> /\ toSyncee = <<>> /\ receiver = "put"
     /\ \E from \in 0 .. syncer.sent : Received(from) /\ syncee.batch = Items(from + 1, syncer.sent)
  \/ /\ syncer.at = "waitNext" /\ toSyncer = <<NextBatch>> /\ toSyncee = <<>> /\ receiver # "put"
     /\ Received(syncer.sent)
  \/ /\ syncer.at = "idle" /\ toSyncer = <<>> /\ syncer.sent = items /\ Received(items)
     /\ \/ toSyncee = <<Done>> /\ receiver # "put"
        \/ toSyncee = <<>> /\ receiver = "closed"

HeadersInv ==
  /\ syncer.sent <= items
  /\ syncee.at \in {"start", "headers", "done", "timedOut"}
  /\ syncee.at = "start" => AtStart
  /\ syncee.at # "start" => HeadersOnTheWay /\ receiver \in {"receive", "put", "error", "closed"}
  /\ syncee.at \in {"headers", "done"} /\ receiver = "closed" =>
       syncer.at = "idle" /\ toSyncer = <<>> /\ toSyncee = <<>>
  /\ syncee.at = "done" => receiver = "closed" /\ headerChan = <<>>

-----------------------------------------------------------------------------
(* The pruning point and its anticone.  The messages of the syncer are     *)
(* numbered: the pruning points, the trusted data, the blocks, the end.    *)
PruningPoints == {<<proofPP>>, <<syncerPP>>}
TrustedMessage(k, m, total, points) ==
  IF k = 1 THEN m.type = "pruningPoints" /\ m.items \in points
  ELSE IF k = 2 THEN m.type = "trustedData" /\ m.items \in points
  ELSE m = IF k = total + 3 THEN Done ELSE Message("item", <<k - 2>>)

(* The first n messages have been sent, and the syncee s, as long as it    *)
(* goes on, gets those it has not yet had from the queue q.                *)
TrustedFrom(q, r, n, total, points) ==
  Len(q) = n - r /\ \A i \in 1 .. n - r : TrustedMessage(r + i, q[i], total, points)
TrustedOnTheWay(q, s, n, total, points) ==
  /\ s.at = "pruningPoints" => Len(s.got) = 0 /\ TrustedFrom(q, 0, n, total, points)
  /\ s.at = "trustedData" => Len(s.got) = 0 /\ TrustedFrom(q, 1, n, total, points)
  /\ s.at = "trusted" => TrustedFrom(q, Len(s.got) + 2, n, total, points) /\ s.batch \in points
  /\ s.at = "done" => n = total + 3 /\ Len(s.got) = total /\ q = <<>>
  /\ s.at \in {"otherPruningPoint", "timedOut"} => Len(q) <= n - Len(s.got)
TrustedSent(n) == TrustedOnTheWay(toSyncee, syncee, n, items, PruningPoints)

TrustedInv ==
  /\ items > 0 /\ syncer.sent <= items /\ receiver = "none" /\ headerChan = <<>>
  /\ syncee.at \in {"start", "pruningPoints", "trustedData", "trusted", "done", "otherPruningPoint", "timedOut"}
  /\ syncee.at = "otherPruningPoint" => syncerPP # proofPP
  /\ syncee.at = "start" => AtStart
  /\ syncee.at # "start" =>
       \/ /\ (syncer.at = "idle" /\ toSyncer = <<Request>>) \/ (syncer.at = "busy" /\ toSyncer = <<>>)
          /\ syncee.at \in {"pruningPoints", "timedOut"}
          /\ toSyncee = <<>> /\ syncer.sent = 0 /\ Got = 0
       \/ syncer.at = "trustedData" /\ toSyncer = <<>> /\ syncer.sent = 0 /\ Got = 0 /\ TrustedSent(1)
       \/ syncer.at = "trusted" /\ toSyncer = <<>> /\ Apart(Got, syncer.sent) /\ TrustedSent(syncer.sent + 2)
       \/ syncer.at = "waitNext" /\ syncer.sent > 0 /\ Filled(Got, syncer.sent, toSyncer) /\ TrustedSent(syncer.sent + 2)
       \/ syncer.at = "idle" /\ toSyncer = <<>> /\ syncer.sent = items /\ Apart(Got, items) /\ TrustedSent(items + 3)

-----------------------------------------------------------------------------
(* UTXOs.  The items in the first k chunks, of which those up to FullChunks *)
(* are full, and the k-th chunk.                                            *)
FullChunks(total) == total \div ChunkSize
Bound(k, total) == IF k <= FullChunks(total) THEN k * ChunkSize ELSE total
Chunk(k, total) == Message("item", Items(Bound(k - 1, total) + 1, Bound(k, total)))
Aborted == Message("unexpectedPruningPoint", <<>>)

(* The first n chunks have been sent, and the last of all messages; the    *)
(* syncee s gets those it has not yet had from the queue q.                *)
ChunksFrom(q, c, n, last, total) ==
  /\ c <= n /\ Len(q) = (n - c) + Len(last)
  /\ \A i \in 1 .. n - c : q[i] = Chunk(c + i, total)
  /\ last # <<>> => q[(n - c) + 1] = last[1]
ChunksOnTheWay(q, s, n, last, total) ==
  \/ s.at \in {"utxos", "timedOut"} /\ ChunksFrom(q, s.chunks, n, last, total)
  \/ s.at = "done" /\ last = <<Done>> /\ q = <<>> /\ s.chunks = n
  \/ s.at = "aborted" /\ last = <<Aborted>> /\ q = <<>> /\ s.chunks = n
ChunksSent(n, last) == ChunksOnTheWay(toSyncee, syncee, n, last, items)

(* No chunk has been the last one, or one that was not full began a batch. *)
Underway(sent, chunks, total) ==
  /\ sent = Bound(chunks, total)
  /\ chunks <= FullChunks(total) \/ (chunks = FullChunks(total) + 1 /\ FullChunks(total) % BatchSize = 0)

(* The last chunk has been sent, and with it the end; if the chunk filled  *)
(* a batch, the syncee asks for another one.                               *)
UtxosEnded(at, got, asked, n) ==
  \/ at = "idle" /\ asked = <<>> /\ Apart(got, n)
  \/ at = "idle" /\ Filled(got, n, asked)
  \/ at = "unexpected" /\ asked = <<>> /\ got = n /\ n % BatchSize = 0

UtxosInv ==
  /\ receiver = "none" /\ headerChan = <<>>
  /\ syncee.at \in {"start", "utxos", "done", "aborted", "timedOut"}
  /\ syncee.at = "start" => AtStart
  /\ Got = Bound(syncee.chunks, items)
  /\ syncee.at # "start" =>
       \/ /\ syncer.at = "idle" /\ toSyncer = <<Request>> /\ toSyncee = <<>> /\ syncee.at \in {"utxos", "timedOut"}
          /\ syncer.sent = 0 /\ syncer.chunks = 0 /\ syncee.chunks = 0
       \/ /\ syncer.at = "utxos" /\ toSyncer = <<>> /\ Apart(syncee.chunks, syncer.chunks)
          /\ ChunksSent(syncer.chunks, <<>>) /\ Underway(syncer.sent, syncer.chunks, items)
       \/ /\ syncer.at \in {"waitNext", "timedOut"} /\ Filled(syncee.chunks, syncer.chunks, toSyncer)
          /\ ChunksSent(syncer.chunks, <<>>) /\ Underway(syncer.sent, syncer.chunks, items)
       \/ /\ syncer.at = "idle" /\ toSyncer = <<>> /\ Apart(syncee.chunks, syncer.chunks)
          /\ ChunksSent(syncer.chunks, <<Aborted>>)
       \/ /\ syncer.chunks + 1 = LastChunk /\ FullChunks(items) < syncer.chunks + 1
          /\ ChunksSent(syncer.chunks + 1, <<Done>>)
          /\ UtxosEnded(syncer.at, syncee.chunks, toSyncer, syncer.chunks + 1)

-----------------------------------------------------------------------------
(* Bodies.  The syncer has sent the blocks asked for up to `next`.         *)
BodiesSent(next) ==
  /\ next \in Got .. syncee.chunks /\ syncer.batch = Items(next + 1, syncee.chunks)
  /\ Len(toSyncee) = next - Got
  /\ \A i \in 1 .. next - Got : toSyncee[i] = Message("item", <<Got + i>>)

BodiesInv ==
  /\ receiver = "none" /\ headerChan = <<>> /\ Got <= items
  /\ syncee.at \in {"start", "bodies", "receiveBodies", "done", "timedOut"}
  /\ syncer.at \in {"idle", "bodies"} /\ (syncer.at = "idle" => syncer.batch = <<>>)
  /\ syncee.at = "start" => AtStart
  /\ syncee.at \in {"bodies", "done"} => toSyncer = <<>> /\ toSyncee = <<>> /\ syncer.batch = <<>>
  /\ syncee.at = "done" => Got = items
  /\ syncee.at \in {"receiveBodies", "timedOut"} =>
       /\ Got < syncee.chunks /\ syncee.chunks <= items /\ syncee.chunks <= Got + BatchSize
       /\ \/ /\ toSyncer = <<Message("request", Items(Got + 1, syncee.chunks))>>
             /\ toSyncee = <<>> /\ syncer.batch = <<>>
          \/ toSyncer = <<>> /\ \E next \in 0 .. items : BodiesSent(next)

IInv ==
  /\ Types /\ InOrder
  /\ download = "headers" => HeadersInv
  /\ download = "trusted" => TrustedInv
  /\ download = "utxos" => UtxosInv
  /\ download = "bodies" => BodiesInv

-----------------------------------------------------------------------------
(* Division of a natural number with remainder.                            *)
LEMMA Remainder ==
  ASSUME NEW a \in Nat, NEW b \in Nat \ {0}
  PROVE  /\ a % b \in 0 .. b - 1 /\ a \div b \in Nat /\ a = b * (a \div b) + (a % b)
BY SMT

(* The quotient and the remainder of a division are unique.                *)
LEMMA Unique ==
  ASSUME NEW b \in Nat \ {0}, NEW d \in Nat, NEW e \in Nat, NEW r \in 0 .. b - 1, NEW s \in 0 .. b - 1,
         b * d + r = b * e + s
  PROVE  d = e /\ r = s
<1>1. CASE d < e
  <2>1. PICK k \in Nat : e = d + 1 + k
    BY <1>1
  <2>2. b * e = b * d + b + b * k
    BY <2>1
  <2>3. b * k \in Nat
    BY <2>1
  <2> QED BY <2>2, <2>3
<1>2. CASE e < d
  <2>1. PICK k \in Nat : d = e + 1 + k
    BY <1>2
  <2>2. b * d = b * e + b + b * k
    BY <2>1
  <2>3. b * k \in Nat
    BY <2>1
  <2> QED BY <2>2, <2>3
<1> QED BY <1>1, <1>2

(* What the counter of a batch does from one message to the next: it goes  *)
(* up by one, or back to 0 when the batch is full.                         *)
LEMMA Successor ==
  ASSUME NEW a \in Nat, NEW b \in Nat, b > 1
  PROVE  (a + 1) % b = IF a % b = b - 1 THEN 0 ELSE (a % b) + 1
<1>1. b \in Nat \ {0} /\ a + 1 \in Nat
  OBVIOUS
<1>2. /\ a % b \in 0 .. b - 1 /\ a \div b \in Nat /\ a = b * (a \div b) + (a % b)
      /\ (a + 1) % b \in 0 .. b - 1 /\ (a + 1) \div b \in Nat
      /\ a + 1 = b * ((a + 1) \div b) + ((a + 1) % b)
  BY <1>1, Remainder, Zenon
<1>3. PICK d \in Nat, r \in 0 .. b - 1 : d = a \div b /\ r = a % b /\ a = b * d + r
  BY <1>2
<1>4. PICK e \in Nat, s \in 0 .. b - 1 : s = (a + 1) % b /\ a + 1 = b * e + s
  BY <1>2
<1>5. CASE r = b - 1
  <2>1. PICK c \in Nat, q \in 0 .. b - 1 : c = d + 1 /\ q = 0
    BY <1>1
  <2>2. b * c + q = b * e + s
    BY <1>3, <1>4, <1>5, <2>1
  <2>3. q = s
    BY <1>1, <2>2, Unique
  <2> QED BY <1>3, <1>4, <1>5, <2>1, <2>3
<1>6. CASE r # b - 1
  <2>1. b * d + (r + 1) = b * e + s
    BY <1>3, <1>4
  <2>2. r + 1 \in 0 .. b - 1
    BY <1>6
  <2>3. r + 1 = s
    BY <1>1, <2>1, <2>2, Unique
  <2> QED BY <1>3, <1>4, <1>6, <2>3
<1> QED BY <1>5, <1>6

(* A run of items, as a sequence of its numbers.                           *)
LEMMA ItemsSeq ==
  ASSUME NEW a \in Nat, NEW b \in Nat, a <= b
  PROVE  Items(a + 1, b) \in Seq(Nat) /\ Len(Items(a + 1, b)) = b - a /\ DOMAIN Items(a + 1, b) = 1 .. b - a
         /\ \A i \in 1 .. b - a : Items(a + 1, b)[i] = a + i
BY DEF Items

(* A run of items is a sequence of natural numbers, also when it is empty. *)
LEMMA ItemsTyped ==
  ASSUME NEW a \in Nat, NEW b \in Nat
  PROVE  Items(a + 1, b) \in Seq(Nat)
<1>1. CASE a <= b
  BY <1>1, ItemsSeq
<1>2. CASE b < a
  <2>1. 1 .. (b - (a + 1) + 1) = {}
    BY <1>2
  <2>2. Items(a + 1, b) = <<>>
    BY <2>1 DEF Items
  <2>3. <<>> \in Seq(Nat)
    OBVIOUS
  <2> QED BY <2>2, <2>3, Zenon
<1> QED BY <1>1, <1>2

(* A run of items and the one that goes on after it are one run.           *)
LEMMA ItemsConcat ==
  ASSUME NEW a \in Nat, NEW b \in Nat, a <= b
  PROVE  Items(1, a) \o Items(a + 1, b) = Items(1, b)
BY DEF Items

-----------------------------------------------------------------------------
(* The types.                                                              *)

(* A message built from a type and items is a message.                     *)
LEMMA MessageTyped ==
  /\ \A t \in MessageTypes : Message(t, <<>>) \in Messages
  /\ \A t \in MessageTypes, n \in Nat : Message(t, <<n>>) \in Messages
  /\ \A t \in MessageTypes, s \in Seq(Nat) : Message(t, s) \in Messages
  /\ \A m \in Messages : m.items \in Seq(Nat)
<1>1. \A t \in MessageTypes, s \in Seq(Nat) : Message(t, s) \in Messages
  BY DEF Message, Messages
<1>2. <<>> \in Seq(Nat) /\ \A n \in Nat : <<n>> \in Seq(Nat)
  OBVIOUS
<1>3. \A m \in Messages : m.items \in Seq(Nat)
  BY DEF Messages
<1> QED BY <1>1, <1>2, <1>3, Zenon

(* What appending a message to a queue, and taking its first one, do to    *)
(* it.                                                                     *)
LEMMA QueueTyped ==
  ASSUME NEW M, NEW q \in Seq(M)
  PROVE  /\ \A m \in M : Append(q, m) \in Seq(M)
         /\ q # <<>> => /\ Tail(q) \in Seq(M) /\ Head(q) \in M /\ Head(q) = q[1]
                        /\ Len(q) > 0 /\ Len(Tail(q)) = Len(q) - 1
                        /\ \A i \in 1 .. Len(q) - 1 : Tail(q)[i] = q[i + 1]
OBVIOUS

(* A queue of messages stays one when a message is put in or taken out.    *)
LEMMA MessageQueue ==
  ASSUME NEW q \in Seq(Messages)
  PROVE  /\ \A m \in Messages : Append(q, m) \in Seq(Messages)
         /\ \A m, n \in Messages : q \o <<m, n>> \in Seq(Messages)
         /\ q # <<>> => Tail(q) \in Seq(Messages) /\ Head(q) \in Messages
<1>1. \A m, n \in Messages : <<m, n>> \in Seq(Messages)
  OBVIOUS
<1>2. \A s \in Seq(Messages) : q \o s \in Seq(Messages)
  OBVIOUS
<1> QED BY <1>1, <1>2, QueueTyped

(* The types of the two sides, field by field.                             *)
LEMMA Typed ==
  ASSUME Types
  PROVE  /\ toSyncer \in Seq(Messages) /\ toSyncee \in Seq(Messages) /\ headerChan \in Seq(Seq(Nat))
         /\ syncer \in SyncerStates /\ syncee \in SynceeStates
         /\ syncer.at \in SyncerPlaces /\ syncer.sent \in Nat /\ syncer.chunks \in Nat /\ syncer.batch \in Seq(Nat)
         /\ syncee.at \in SynceePlaces /\ syncee.got \in Seq(Nat) /\ syncee.chunks \in Nat /\ syncee.batch \in Seq(Nat)
         /\ Got \in Nat /\ items \in Nat
BY DEF Types, SyncerStates, SynceeStates, Got

(* The assignments to the syncer's fields keep its type.                   *)
LEMMA SyncerTyped ==
  ASSUME syncer \in SyncerStates
  PROVE  /\ \A a \in SyncerPlaces : [syncer EXCEPT !.at = a] \in SyncerStates
         /\ \A a \in SyncerPlaces, b \in Seq(Nat) : [syncer EXCEPT !.at = a, !.batch = b] \in SyncerStates
         /\ \A a \in SyncerPlaces, n \in Nat : [syncer EXCEPT !.sent = n, !.at = a] \in SyncerStates
         /\ \A a \in SyncerPlaces, n \in Nat, k \in Nat :
              [syncer EXCEPT !.sent = n, !.chunks = k, !.at = a] \in SyncerStates
         /\ \A b \in Seq(Nat) : [syncer EXCEPT !.batch = b] \in SyncerStates
BY Zenon DEF SyncerStates

(* TakeRequest keeps the types.                                            *)
LEMMA TakeRequestTyped ==
  ASSUME Types, TakeRequest
  PROVE  Types'
<1>1. toSyncer' \in Seq(Messages) /\ FromSyncee \in Messages
  BY QueueTyped DEF Types, TakeRequest, FromSyncee
<1>2. toSyncee' \in Seq(Messages)
  <2>1. Message("pruningPoints", <<syncerPP>>) \in Messages
    BY MessageTyped DEF Types, MessageTypes
  <2>2. toSyncee' = toSyncee \/ toSyncee' = Append(toSyncee, Message("pruningPoints", <<syncerPP>>))
    BY DEF TakeRequest, SendToSyncee
  <2> QED BY <2>1, <2>2, QueueTyped, Zenon DEF Types
<1>3. syncer' \in SyncerStates
  <2>1. FromSyncee.items \in Seq(Nat)
    BY <1>1, MessageTyped
  <2>2. "unexpected" \in SyncerPlaces /\ "busy" \in SyncerPlaces /\ "trustedData" \in SyncerPlaces
        /\ "bodies" \in SyncerPlaces /\ download \in SyncerPlaces
    BY DEF Types, SyncerPlaces
  <2>3. \/ \E a \in SyncerPlaces : syncer' = [syncer EXCEPT !.at = a]
        \/ syncer' = [syncer EXCEPT !.at = "bodies", !.batch = FromSyncee.items]
    BY <2>2, Zenon DEF TakeRequest
  <2>4. syncer \in SyncerStates
    BY DEF Types
  <2>5. CASE \E a \in SyncerPlaces : syncer' = [syncer EXCEPT !.at = a]
    BY <2>4, <2>5, SyncerTyped, Zenon
  <2>6. CASE syncer' = [syncer EXCEPT !.at = "bodies", !.batch = FromSyncee.items]
    BY <2>1, <2>2, <2>4, <2>6, SyncerTyped, Zenon
  <2> QED BY <2>3, <2>5, <2>6
<1> QED BY <1>1, <1>2, <1>3, Zenon DEF Types, TakeRequest, SyncerStays

(* The assignments to the syncee's fields keep its type.                   *)
LEMMA SynceeTyped ==
  ASSUME syncee \in SynceeStates
  PROVE  /\ \A a \in SynceePlaces : [syncee EXCEPT !.at = a] \in SynceeStates
         /\ \A a \in SynceePlaces, k \in Nat : [syncee EXCEPT !.at = a, !.chunks = k] \in SynceeStates
         /\ \A a \in SynceePlaces, b \in Seq(Nat) : [syncee EXCEPT !.at = a, !.batch = b] \in SynceeStates
         /\ \A s \in Seq(Nat), a \in SynceePlaces : [syncee EXCEPT !.got = s, !.at = a] \in SynceeStates
         /\ \A s \in Seq(Nat), k \in Nat : [syncee EXCEPT !.got = s, !.chunks = k] \in SynceeStates
         /\ \A s \in Seq(Nat) : [syncee EXCEPT !.got = s] \in SynceeStates
         /\ \A b \in Seq(Nat) : [syncee EXCEPT !.batch = b] \in SynceeStates
BY Zenon DEF SynceeStates

(* SendHeaders keeps the types.                                            *)
LEMMA SendHeadersTyped ==
  ASSUME Types, SendHeaders
  PROVE  Types'
<1>1. CASE syncer.sent = items
  <2>1. toSyncee' = Append(toSyncee, Message("done", <<>>)) /\ syncer' = [syncer EXCEPT !.at = "idle"]
    BY <1>1 DEF SendHeaders, SendToSyncee
  <2>2. Message("done", <<>>) \in Messages /\ "idle" \in SyncerPlaces
    BY MessageTyped DEF MessageTypes, SyncerPlaces
  <2>3. toSyncee' \in Seq(Messages) /\ syncer' \in SyncerStates
    BY <2>1, <2>2, QueueTyped, SyncerTyped, Zenon DEF Types
  <2> QED BY <2>3, Zenon DEF Types, SendHeaders, SyncerStays
<1>2. CASE syncer.sent # items
  <2>1. PICK n \in 1 .. LeastOf(ChunkSize, items - syncer.sent) :
          /\ toSyncee' = Append(toSyncee, Message("item", Items(syncer.sent + 1, syncer.sent + n)))
          /\ syncer' = [syncer EXCEPT !.sent = @ + n, !.at = "waitNext"]
    BY <1>2, Zenon DEF SendHeaders, SendToSyncee
  <2>2. n \in Nat /\ syncer.sent \in Nat /\ syncer.sent + n \in Nat
    BY TransferAssumption DEF Types, LeastOf, SyncerStates
  <2>3. Message("item", Items(syncer.sent + 1, syncer.sent + n)) \in Messages /\ "waitNext" \in SyncerPlaces
    BY <2>2, ItemsSeq, MessageTyped DEF MessageTypes, SyncerPlaces
  <2>4. toSyncee' \in Seq(Messages)
    BY <2>1, <2>3, QueueTyped DEF Types
  <2>5. syncer' \in SyncerStates
    BY <2>1, <2>2, <2>3, Zenon DEF Types, SyncerStates
  <2> QED BY <2>4, <2>5, Zenon DEF Types, SendHeaders, SyncerStays
<1> QED BY <1>1, <1>2

(* SendTrustedData keeps the types.                                        *)
LEMMA SendTrustedDataTyped ==
  ASSUME Types, SendTrustedData
  PROVE  Types'
<1>1. Message("trustedData", <<syncerPP>>) \in Messages /\ "trusted" \in SyncerPlaces
  BY MessageTyped DEF MessageTypes, SyncerPlaces, Types
<1>2. toSyncee' \in Seq(Messages) /\ syncer' \in SyncerStates
  BY <1>1, QueueTyped, SyncerTyped, Zenon DEF Types, SendTrustedData, SendToSyncee
<1> QED BY <1>2 DEF Types, SendTrustedData, SyncerStays

(* SendTrustedBlock keeps the types.                                       *)
LEMMA SendTrustedBlockTyped ==
  ASSUME Types, SendTrustedBlock
  PROVE  Types'
<1>1. /\ Message("done", <<>>) \in Messages /\ Message("item", <<syncer.sent + 1>>) \in Messages
      /\ syncer.sent + 1 \in Nat /\ {"idle", "waitNext", "trusted"} \subseteq SyncerPlaces
  BY MessageTyped DEF MessageTypes, SyncerPlaces, Types, SyncerStates
<1>2. CASE syncer.sent = items
  <2>1. toSyncee' = Append(toSyncee, Message("done", <<>>)) /\ syncer' = [syncer EXCEPT !.at = "idle"] /\ isBusy' = FALSE
    BY <1>2 DEF SendTrustedBlock, SendToSyncee
  <2>2. toSyncee' \in Seq(Messages) /\ syncer' \in SyncerStates
    BY <1>1, <2>1, Typed, MessageQueue, SyncerTyped, Zenon
  <2> QED BY <2>1, <2>2, Zenon DEF Types, SendTrustedBlock, SyncerStays
<1>3. CASE syncer.sent # items
  <2>1. toSyncee' \in Seq(Messages)
    <3>1. toSyncee' = Append(toSyncee, Message("item", <<syncer.sent + 1>>))
      BY <1>3 DEF SendTrustedBlock, SendToSyncee
    <3> QED BY <1>1, <3>1, Typed, MessageQueue
  <2>2. PICK a \in {"waitNext", "trusted"} : syncer' = [syncer EXCEPT !.sent = syncer.sent + 1, !.at = a]
    BY <1>3, Zenon DEF SendTrustedBlock
  <2>3. syncer' \in SyncerStates
    BY <1>1, <2>2, SyncerTyped, Typed, Zenon
  <2> QED BY <1>3, <2>1, <2>3 DEF Types, SendTrustedBlock, SyncerStays
<1> QED BY <1>2, <1>3

(* SendUTXOs keeps the types.                                              *)
LEMMA SendUTXOsTyped ==
  ASSUME Types, SendUTXOs
  PROVE  Types'
<1> DEFINE to == LeastOf(syncer.sent + ChunkSize, items)
           chunk == Message("item", Items(syncer.sent + 1, to))
           finished == to - syncer.sent < ChunkSize
<1>1. /\ to \in Nat /\ syncer.sent \in Nat /\ syncer.chunks + 1 \in Nat
      /\ {"idle", "utxos", "waitLast", "waitNext"} \subseteq SyncerPlaces
  BY TransferAssumption DEF Types, LeastOf, SyncerStates, SyncerPlaces
<1>2. Items(syncer.sent + 1, to) \in Seq(Nat)
  <2> HIDE DEF to
  <2>1. \A a \in Nat, b \in Nat : Items(a + 1, b) \in Seq(Nat)
    BY ItemsTyped
  <2> QED BY <1>1, <2>1
<1>3. chunk \in Messages /\ Message("done", <<>>) \in Messages /\ Message("unexpectedPruningPoint", <<>>) \in Messages
  BY <1>2, MessageTyped DEF MessageTypes
<1> HIDE DEF to, chunk, finished
<1>4. /\ \/ toSyncee' = Append(toSyncee, Message("unexpectedPruningPoint", <<>>))
         \/ toSyncee' = toSyncee \o <<chunk, Message("done", <<>>)>>
         \/ toSyncee' = Append(toSyncee, chunk)
      /\ \/ syncer' = [syncer EXCEPT !.at = "idle"]
         \/ syncer' = [syncer EXCEPT !.sent = to, !.at = "idle"]
         \/ \E a \in {"utxos", "waitLast", "waitNext"} :
              syncer' = [syncer EXCEPT !.sent = to, !.chunks = syncer.chunks + 1, !.at = a]
  BY Zenon DEF SendUTXOs, SendToSyncee, to, chunk, finished
<1>5. toSyncee' \in Seq(Messages)
  <2>1. toSyncee \in Seq(Messages)
    BY Typed
  <2>2. /\ Append(toSyncee, Message("unexpectedPruningPoint", <<>>)) \in Seq(Messages)
        /\ Append(toSyncee, chunk) \in Seq(Messages)
    BY <1>3, <2>1, MessageQueue
  <2>3. toSyncee \o <<chunk, Message("done", <<>>)>> \in Seq(Messages)
    BY <1>3, <2>1, MessageQueue
  <2> QED BY <1>4, <2>2, <2>3, Zenon
<1>6. syncer' \in SyncerStates
  <2>1. syncer \in SyncerStates
    BY Typed
  <2>2. [syncer EXCEPT !.at = "idle"] \in SyncerStates /\ [syncer EXCEPT !.sent = to, !.at = "idle"] \in SyncerStates
    BY <1>1, <2>1, SyncerTyped, Zenon
  <2>3. \A a \in {"utxos", "waitLast", "waitNext"} :
          [syncer EXCEPT !.sent = to, !.chunks = syncer.chunks + 1, !.at = a] \in SyncerStates
    BY <1>1, <2>1, SyncerTyped, Zenon
  <2> QED BY <1>4, <2>2, <2>3
<1> QED BY <1>5, <1>6 DEF Types, SendUTXOs, SyncerStays

(* TakeNext keeps the types.                                               *)
LEMMA TakeNextTyped ==
  ASSUME Types, TakeNext
  PROVE  Types'
<1>1. Message("done", <<>>) \in Messages /\ {"idle", "unexpected", download} \subseteq SyncerPlaces
  BY MessageTyped DEF MessageTypes, Types, SyncerPlaces
<1>2. \E a \in {"idle", "unexpected", download} : syncer' = [syncer EXCEPT !.at = a]
  BY DEF TakeNext
<1>3. syncer' \in SyncerStates
  BY <1>1, <1>2, SyncerTyped, Zenon DEF Types
<1>4. toSyncee' = toSyncee \/ toSyncee' = Append(toSyncee, Message("done", <<>>))
  BY DEF TakeNext, SendToSyncee
<1>5. toSyncee' \in Seq(Messages) /\ toSyncer' \in Seq(Messages)
  BY <1>1, <1>4, Typed, MessageQueue, Zenon DEF TakeNext
<1>6. isBusy' \in BOOLEAN
  BY Zenon DEF TakeNext, Types
<1> QED BY <1>3, <1>5, <1>6 DEF Types, TakeNext, SyncerStays

(* SendBody keeps the types.                                               *)
LEMMA SendBodyTyped ==
  ASSUME Types, SendBody
  PROVE  Types'
<1>1. CASE syncer.batch = <<>>
  <2>1. syncer' \in SyncerStates
    BY <1>1, SyncerTyped, Zenon DEF SendBody, SyncerPlaces, Types
  <2> QED BY <1>1, <2>1 DEF Types, SendBody, SyncerStays
<1>2. CASE syncer.batch # <<>>
  <2>1. syncer.batch \in Seq(Nat)
    BY DEF Types, SyncerStates
  <2>2. Head(syncer.batch) \in Nat /\ Tail(syncer.batch) \in Seq(Nat)
    BY <1>2, <2>1
  <2>3. Message("item", <<Head(syncer.batch)>>) \in Messages
    BY <2>2, MessageTyped DEF MessageTypes
  <2>4. toSyncee' = Append(toSyncee, Message("item", <<Head(syncer.batch)>>))
        /\ syncer' = [syncer EXCEPT !.batch = Tail(syncer.batch)]
    BY <1>2 DEF SendBody, SendToSyncee
  <2>5. toSyncee' \in Seq(Messages) /\ syncer' \in SyncerStates
    BY <2>2, <2>3, <2>4, Typed, MessageQueue, SyncerTyped, Zenon
  <2> QED BY <1>2, <2>5 DEF Types, SendBody, SyncerStays
<1> QED BY <1>1, <1>2

(* StartDownload keeps the types.                                          *)
LEMMA StartDownloadTyped ==
  ASSUME Types, StartDownload
  PROVE  Types'
<1>1. Message("request", <<>>) \in Messages /\ {"bodies", "pruningPoints", download} \subseteq SynceePlaces
  BY MessageTyped DEF MessageTypes, Types, SynceePlaces
<1>2. /\ toSyncer' = toSyncer \/ toSyncer' = Append(toSyncer, Message("request", <<>>))
      /\ \E a \in {"bodies", "pruningPoints", download} : syncee' = [syncee EXCEPT !.at = a]
      /\ receiver' \in {receiver, "receive", "none"}
  BY DEF StartDownload, SendToSyncer
<1>3. toSyncer' \in Seq(Messages)
  BY <1>1, <1>2, Typed, MessageQueue, ZenonT(40)
<1>4. syncee' \in SynceeStates
  BY <1>1, <1>2, Typed, SynceeTyped, Zenon
<1> QED BY <1>2, <1>3, <1>4 DEF Types, StartDownload, SynceeStays

(* RequestBodies keeps the types.                                          *)
LEMMA RequestBodiesTyped ==
  ASSUME Types, RequestBodies
  PROVE  Types'
<1> DEFINE to == LeastOf(Len(syncee.got) + BatchSize, items)
           request == Message("request", Items(Len(syncee.got) + 1, to))
<1>1. to \in Nat /\ Len(syncee.got) \in Nat
  BY TransferAssumption, Typed DEF LeastOf, Got
<1>2. {"done", "receiveBodies"} \subseteq SynceePlaces
  BY DEF SynceePlaces
<1>3. Items(Len(syncee.got) + 1, to) \in Seq(Nat)
  <2> HIDE DEF to
  <2> QED BY <1>1, ItemsTyped
<1>4. request \in Messages
  BY <1>3, MessageTyped DEF MessageTypes
<1> HIDE DEF to, request
<1>5. /\ toSyncer' = toSyncer \/ toSyncer' = Append(toSyncer, request)
      /\ syncee' = [syncee EXCEPT !.at = "done"] \/ syncee' = [syncee EXCEPT !.at = "receiveBodies", !.chunks = to]
  BY DEF RequestBodies, SendToSyncer, to, request
<1>6. toSyncer' \in Seq(Messages)
  BY <1>4, <1>5, Typed, MessageQueue, Zenon
<1>7. syncee' \in SynceeStates
  <2>1. [syncee EXCEPT !.at = "done"] \in SynceeStates
    BY <1>2, Typed, SynceeTyped, Zenon
  <2>2. [syncee EXCEPT !.at = "receiveBodies", !.chunks = to] \in SynceeStates
    BY <1>1, <1>2, Typed, SynceeTyped, Zenon
  <2> QED BY <1>5, <2>1, <2>2
<1> QED BY <1>6, <1>7 DEF Types, RequestBodies, SynceeStays

(* The message the syncee takes from its queue is a message, and the rest  *)
(* a queue.                                                                *)
LEMMA ReceivedTyped ==
  ASSUME Types, toSyncee # <<>>
  PROVE  /\ Tail(toSyncee) \in Seq(Messages) /\ FromSyncer.items \in Seq(Nat)
         /\ syncee.got \o FromSyncer.items \in Seq(Nat)
<1>1. Tail(toSyncee) \in Seq(Messages) /\ FromSyncer \in Messages
  BY Typed, MessageQueue DEF FromSyncer
<1>2. FromSyncer.items \in Seq(Nat) /\ syncee.got \in Seq(Nat)
  BY <1>1, Typed, MessageTyped
<1> QED BY <1>1, <1>2

(* ReceiveBody keeps the types.                                            *)
LEMMA ReceiveBodyTyped ==
  ASSUME Types, ReceiveBody
  PROVE  Types'
<1>1. Tail(toSyncee) \in Seq(Messages) /\ syncee.got \o FromSyncer.items \in Seq(Nat)
  BY ReceivedTyped DEF ReceiveBody
<1>2. \/ syncee' = [syncee EXCEPT !.at = "unexpected"]
      \/ \E a \in {"bodies", "receiveBodies"} : syncee' = [syncee EXCEPT !.got = syncee.got \o FromSyncer.items, !.at = a]
  BY Zenon DEF ReceiveBody
<1>3. {"unexpected", "bodies", "receiveBodies"} \subseteq SynceePlaces
  BY DEF SynceePlaces
<1>4. syncee' \in SynceeStates
  <2>1. [syncee EXCEPT !.at = "unexpected"] \in SynceeStates
    BY <1>3, Typed, SynceeTyped, Zenon
  <2>2. \A a \in {"bodies", "receiveBodies"} : [syncee EXCEPT !.got = syncee.got \o FromSyncer.items, !.at = a] \in SynceeStates
    BY <1>1, <1>3, Typed, SynceeTyped, Zenon
  <2> QED BY <1>2, <2>1, <2>2
<1> QED BY <1>1, <1>4 DEF Types, ReceiveBody, SynceeStays

(* ReceivePruningPoints keeps the types.                                   *)
LEMMA ReceivePruningPointsTyped ==
  ASSUME Types, ReceivePruningPoints
  PROVE  Types'
<1>1. Tail(toSyncee) \in Seq(Messages)
  BY ReceivedTyped DEF ReceivePruningPoints
<1>2. \E a \in {"unexpected", "otherPruningPoint", "trustedData"} : syncee' = [syncee EXCEPT !.at = a]
  BY DEF ReceivePruningPoints
<1>3. {"unexpected", "otherPruningPoint", "trustedData"} \subseteq SynceePlaces
  BY DEF SynceePlaces
<1>4. syncee' \in SynceeStates
  BY <1>2, <1>3, Typed, SynceeTyped, Zenon
<1> QED BY <1>1, <1>4 DEF Types, ReceivePruningPoints, SynceeStays

(* ReceiveTrustedData keeps the types.                                     *)
LEMMA ReceiveTrustedDataTyped ==
  ASSUME Types, ReceiveTrustedData
  PROVE  Types'
<1>1. Tail(toSyncee) \in Seq(Messages) /\ FromSyncer.items \in Seq(Nat)
  BY ReceivedTyped DEF ReceiveTrustedData
<1>2. \/ syncee' = [syncee EXCEPT !.at = "unexpected"]
      \/ syncee' = [syncee EXCEPT !.at = "trusted", !.batch = FromSyncer.items]
  BY DEF ReceiveTrustedData
<1>3. {"unexpected", "trusted"} \subseteq SynceePlaces
  BY DEF SynceePlaces
<1>4. syncee' \in SynceeStates
  <2>1. [syncee EXCEPT !.at = "unexpected"] \in SynceeStates
    BY <1>3, Typed, SynceeTyped, Zenon
  <2>2. [syncee EXCEPT !.at = "trusted", !.batch = FromSyncer.items] \in SynceeStates
    BY <1>1, <1>3, Typed, SynceeTyped, Zenon
  <2> QED BY <1>2, <2>1, <2>2
<1> QED BY <1>1, <1>4 DEF Types, ReceiveTrustedData, SynceeStays

(* ReceiveTrustedBlock keeps the types.                                    *)
LEMMA ReceiveTrustedBlockTyped ==
  ASSUME Types, ReceiveTrustedBlock
  PROVE  Types'
<1>1. Tail(toSyncee) \in Seq(Messages) /\ syncee.got \o FromSyncer.items \in Seq(Nat)
  BY ReceivedTyped DEF ReceiveTrustedBlock
<1>2. /\ \/ \E a \in {"unexpected", "otherPruningPoint", "done"} : syncee' = [syncee EXCEPT !.at = a]
         \/ syncee' = [syncee EXCEPT !.got = syncee.got \o FromSyncer.items]
      /\ toSyncer' = toSyncer \/ toSyncer' = Append(toSyncer, Message("next", <<>>))
  BY Zenon DEF ReceiveTrustedBlock, SendToSyncer
<1>3. {"unexpected", "otherPruningPoint", "done"} \subseteq SynceePlaces /\ Message("next", <<>>) \in Messages
  BY MessageTyped DEF SynceePlaces, MessageTypes
<1>4. syncee' \in SynceeStates
  BY <1>1, <1>2, <1>3, Typed, SynceeTyped, Zenon
<1>5. toSyncer' \in Seq(Messages)
  BY <1>2, <1>3, Typed, MessageQueue, Zenon
<1> QED BY <1>1, <1>4, <1>5 DEF Types, ReceiveTrustedBlock, SynceeStays

(* ReceiveUTXOs keeps the types.                                           *)
LEMMA ReceiveUTXOsTyped ==
  ASSUME Types, ReceiveUTXOs
  PROVE  Types'
<1>1. /\ Tail(toSyncee) \in Seq(Messages) /\ syncee.got \o FromSyncer.items \in Seq(Nat)
      /\ syncee.chunks + 1 \in Nat
  BY ReceivedTyped, Typed, SMTT(30) DEF ReceiveUTXOs
<1>2. /\ \/ \E a \in {"unexpected", "aborted", "done"} : syncee' = [syncee EXCEPT !.at = a]
         \/ syncee' = [syncee EXCEPT !.got = syncee.got \o FromSyncer.items, !.chunks = syncee.chunks + 1]
      /\ toSyncer' = toSyncer \/ toSyncer' = Append(toSyncer, Message("next", <<>>))
  BY DEF ReceiveUTXOs, SendToSyncer
<1>3. {"unexpected", "aborted", "done"} \subseteq SynceePlaces /\ Message("next", <<>>) \in Messages
  BY MessageTyped DEF SynceePlaces, MessageTypes
<1>4. syncee' \in SynceeStates
  <2>1. syncee \in SynceeStates
    BY Typed
  <2>2. CASE \E a \in {"unexpected", "aborted", "done"} : syncee' = [syncee EXCEPT !.at = a]
    BY <1>3, <2>1, <2>2, SynceeTyped, Zenon
  <2>3. CASE syncee' = [syncee EXCEPT !.got = syncee.got \o FromSyncer.items, !.chunks = syncee.chunks + 1]
    BY <1>1, <2>1, <2>3, SynceeTyped, Zenon
  <2> QED BY <1>2, <2>2, <2>3
<1>5. toSyncer' \in Seq(Messages)
  BY <1>2, <1>3, Typed, MessageQueue, Zenon
<1> QED BY <1>1, <1>4, <1>5 DEF Types, ReceiveUTXOs, SynceeStays

(* The four steps of the two goroutines that take in headers, and a        *)
(* timeout of either, keep the types.                                      *)
LEMMA HeadersTyped ==
  ASSUME Types, ReceiveHeaders \/ PutHeaders \/ ProcessHeaders \/ EndHeaders \/ TimeOutSyncee
  PROVE  Types'
<1>1. CASE ReceiveHeaders
  <2>1. Tail(toSyncee) \in Seq(Messages) /\ FromSyncer.items \in Seq(Nat)
    BY <1>1, ReceivedTyped DEF ReceiveHeaders
  <2>2. syncee' = syncee \/ syncee' = [syncee EXCEPT !.batch = FromSyncer.items]
    BY <1>1 DEF ReceiveHeaders
  <2>3. syncee' \in SynceeStates
    BY <2>1, <2>2, Typed, SynceeTyped, Zenon
  <2> QED BY <1>1, <2>1, <2>3 DEF Types, ReceiveHeaders, SynceeStays
<1>2. CASE PutHeaders
  <2>1. toSyncer' = Append(toSyncer, Message("next", <<>>)) /\ headerChan' = Append(headerChan, syncee.batch)
    BY <1>2 DEF PutHeaders, SendToSyncer
  <2>2. Message("next", <<>>) \in Messages
    BY MessageTyped DEF MessageTypes
  <2>3. toSyncer' \in Seq(Messages)
    BY <2>1, <2>2, Typed, MessageQueue
  <2>4. headerChan' \in Seq(Seq(Nat))
    BY <2>1, Typed, QueueTyped
  <2> QED BY <1>2, <2>3, <2>4 DEF Types, PutHeaders, SynceeStays
<1>3. CASE ProcessHeaders
  <2>1. Head(headerChan) \in Seq(Nat) /\ Tail(headerChan) \in Seq(Seq(Nat))
    BY <1>3, Typed, QueueTyped DEF ProcessHeaders
  <2>2. syncee.got \o Head(headerChan) \in Seq(Nat)
    BY <2>1, Typed
  <2>3. syncee' \in SynceeStates
    BY <1>3, <2>2, Typed, SynceeTyped, Zenon DEF ProcessHeaders
  <2> QED BY <1>3, <2>1, <2>3 DEF Types, ProcessHeaders, SynceeStays
<1>4. CASE EndHeaders \/ TimeOutSyncee
  <2>1. syncee' = syncee \/ \E a \in {"done", "timedOut"} : syncee' = [syncee EXCEPT !.at = a]
    BY <1>4 DEF EndHeaders, TimeOutSyncee
  <2>2. {"done", "timedOut"} \subseteq SynceePlaces
    BY DEF SynceePlaces
  <2>3. syncee' \in SynceeStates
    BY <2>1, <2>2, Typed, SynceeTyped, Zenon
  <2>4. receiver' \in {receiver, "closed", "error"}
    BY <1>4 DEF EndHeaders, TimeOutSyncee
  <2> QED BY <1>4, <2>3, <2>4 DEF Types, EndHeaders, TimeOutSyncee, SynceeStays
<1> QED BY <1>1, <1>2, <1>3, <1>4

(* The types are inductive.                                                *)
LEMMA TypesStep ==
  ASSUME Types, TransferNext
  PROVE  Types'
<1>1. CASE TimeOutSyncer
  <2>1. "timedOut" \in SyncerPlaces
    BY DEF SyncerPlaces
  <2>2. syncer' \in SyncerStates
    BY <1>1, <2>1, Typed, SyncerTyped, Zenon DEF TimeOutSyncer
  <2> QED BY <1>1, <2>2 DEF Types, TimeOutSyncer, SyncerStays
<1>2. CASE PruningPointMoves \/ OtherRequest
  BY <1>2, Zenon DEF Types, PruningPointMoves, OtherRequest
<1> QED
  BY <1>1, <1>2, TakeRequestTyped, SendHeadersTyped, SendTrustedDataTyped, SendTrustedBlockTyped, SendUTXOsTyped,
     TakeNextTyped, SendBodyTyped, StartDownloadTyped, RequestBodiesTyped, ReceiveBodyTyped,
     ReceivePruningPointsTyped, ReceiveTrustedDataTyped, ReceiveTrustedBlockTyped, ReceiveUTXOsTyped, HeadersTyped
  DEF TransferNext, TransferStep

-----------------------------------------------------------------------------
(* Bodies.                                                                 *)

(* A queue with one message.                                               *)
LEMMA Single ==
  ASSUME NEW m
  PROVE  Head(<<m>>) = m /\ Tail(<<m>>) = <<>> /\ <<m>> # <<>> /\ Len(<<m>>) = 1 /\ <<m>>[1] = m
         /\ Append(<<>>, m) = <<m>>
OBVIOUS

(* A run of one item.                                                      *)
LEMMA ItemsOne ==
  ASSUME NEW a \in Nat
  PROVE  Items(a + 1, a + 1) = <<a + 1>>
<1>1. a + 1 \in Nat /\ a <= a + 1 /\ (a + 1) - a = 1
  OBVIOUS
<1>2. /\ Items(a + 1, a + 1) \in Seq(Nat) /\ Len(Items(a + 1, a + 1)) = (a + 1) - a
      /\ \A i \in 1 .. (a + 1) - a : Items(a + 1, a + 1)[i] = a + i
  BY <1>1, ItemsSeq, Zenon
<1> QED BY <1>1, <1>2

(* The actions that can change the state of a download of bodies.          *)
LEMMA BodiesActions ==
  ASSUME download = "bodies", BodiesInv, TransferNext
  PROVE  \/ TakeRequest \/ SendBody \/ StartDownload \/ RequestBodies \/ ReceiveBody
         \/ TimeOutSyncee /\ syncee.at = "receiveBodies"
<1>1. ~SendHeaders /\ ~SendTrustedData /\ ~SendTrustedBlock /\ ~SendUTXOs /\ ~TakeNext
  BY Zenon DEF BodiesInv, SendHeaders, SendTrustedData, SendTrustedBlock, SendUTXOs, TakeNext
<1>2. ~ReceivePruningPoints /\ ~ReceiveTrustedData /\ ~ReceiveTrustedBlock /\ ~ReceiveUTXOs
  BY Zenon DEF BodiesInv, ReceivePruningPoints, ReceiveTrustedData, ReceiveTrustedBlock, ReceiveUTXOs
<1>3. ~ReceiveHeaders /\ ~PutHeaders /\ ~ProcessHeaders /\ ~EndHeaders
  BY DEF BodiesInv, ReceiveHeaders, PutHeaders, ProcessHeaders, EndHeaders
<1>4. ~TimeOutSyncer /\ ~PruningPointMoves /\ ~OtherRequest
  BY DEF TimeOutSyncer, PruningPointMoves, OtherRequest
<1>5. TimeOutSyncee => syncee.at = "receiveBodies"
  BY DEF BodiesInv, TimeOutSyncee
<1> QED BY <1>1, <1>2, <1>3, <1>4, <1>5 DEF TransferNext, TransferStep

(* The syncer takes the request with the list of the batch.                *)
LEMMA BodiesTakeRequest ==
  ASSUME Types, download = "bodies", BodiesInv, TakeRequest
  PROVE  BodiesInv'
<1> DEFINE batch == Items(Got + 1, syncee.chunks)
<1>1. /\ toSyncer = <<Message("request", batch)>> /\ toSyncee = <<>> /\ syncer.batch = <<>>
      /\ syncee.at \in {"receiveBodies", "timedOut"}
      /\ Got < syncee.chunks /\ syncee.chunks <= items /\ syncee.chunks <= Got + BatchSize
  BY DEF BodiesInv, TakeRequest, AtStart
<1>2. FromSyncee = Message("request", batch) /\ Tail(toSyncer) = <<>>
  BY <1>1, Single DEF FromSyncee
<1>3. FromSyncee.type = "request" /\ FromSyncee.items = batch
  BY <1>2 DEF Message
<1> HIDE DEF batch
<1>4. /\ toSyncer' = <<>> /\ toSyncee' = <<>> /\ syncee' = syncee /\ items' = items
      /\ receiver' = receiver /\ headerChan' = headerChan
      /\ syncer' = [syncer EXCEPT !.at = "bodies", !.batch = batch]
  BY <1>1, <1>2, <1>3, Zenon DEF TakeRequest, SyncerStays
<1>5. syncer'.at = "bodies" /\ syncer'.batch = batch
  BY <1>4, Typed DEF SyncerStates
<1>6. Got' = Got /\ Got \in Nat /\ syncee.chunks \in Nat /\ items \in Nat
  BY <1>4, Typed DEF Got
<1>7. Got \in 0 .. items /\ BodiesSent(Got)'
  BY <1>1, <1>4, <1>5, <1>6 DEF BodiesSent, batch
<1>8. \E next \in 0 .. items : BodiesSent(next)'
  BY <1>7, <1>6, <1>4 DEF BodiesSent
<1> QED BY <1>1, <1>4, <1>5, <1>6, <1>8 DEF BodiesInv

(* Two sequences with the same items are the same.                         *)
LEMMA SameItems ==
  ASSUME NEW S, NEW s \in Seq(S), NEW t \in Seq(S), Len(s) = Len(t), \A i \in 1 .. Len(s) : s[i] = t[i]
  PROVE  s = t
OBVIOUS

(* The first item of a run, and the run after it.                          *)
LEMMA ItemsShift ==
  ASSUME NEW a \in Nat, NEW b \in Nat, a < b
  PROVE  /\ Items(a + 1, b) # <<>> /\ Head(Items(a + 1, b)) = a + 1
         /\ Tail(Items(a + 1, b)) = Items((a + 1) + 1, b)
<1>1. /\ Items(a + 1, b) \in Seq(Nat) /\ Len(Items(a + 1, b)) = b - a
      /\ \A i \in 1 .. b - a : Items(a + 1, b)[i] = a + i
  BY ItemsSeq
<1>2. Items(a + 1, b) # <<>> /\ Head(Items(a + 1, b)) = a + 1
  BY <1>1
<1>3. /\ Items((a + 1) + 1, b) \in Seq(Nat) /\ Len(Items((a + 1) + 1, b)) = b - (a + 1)
      /\ \A i \in 1 .. b - (a + 1) : Items((a + 1) + 1, b)[i] = (a + 1) + i
  <2>1. a + 1 \in Nat /\ a + 1 <= b
    OBVIOUS
  <2> QED BY <2>1, ItemsSeq, Zenon
<1>4. /\ Tail(Items(a + 1, b)) \in Seq(Nat) /\ Len(Tail(Items(a + 1, b))) = b - a - 1
      /\ \A i \in 1 .. b - a - 1 : Tail(Items(a + 1, b))[i] = a + i + 1
  BY <1>1, <1>2
<1>5. Tail(Items(a + 1, b)) = Items((a + 1) + 1, b)
  <2>1. /\ Len(Tail(Items(a + 1, b))) = Len(Items((a + 1) + 1, b))
        /\ \A i \in 1 .. Len(Tail(Items(a + 1, b))) : Tail(Items(a + 1, b))[i] = Items((a + 1) + 1, b)[i]
    BY <1>3, <1>4
  <2> QED BY <1>3, <1>4, <2>1, SameItems, Zenon
<1> QED BY <1>2, <1>5

(* A run that ends before it begins is empty.                              *)
LEMMA ItemsNone ==
  ASSUME NEW a \in Nat, NEW b \in Nat, b <= a
  PROVE  Items(a + 1, b) = <<>>
<1>1. 1 .. (b - (a + 1) + 1) = 1 .. 0
  OBVIOUS
<1>2. Items(a + 1, b) = [i \in 1 .. 0 |-> a + 1 + i - 1]
  BY <1>1, Zenon DEF Items
<1>3. [i \in 1 .. 0 |-> a + 1 + i - 1] = <<>>
  OBVIOUS
<1> QED BY <1>2, <1>3, Zenon

(* The run after the last item is empty.                                   *)
LEMMA ItemsEmpty ==
  ASSUME NEW a \in Nat
  PROVE  Items(a + 1, a) = <<>>
BY ItemsNone

(* HandleIBDBlockRequests sends the next block of the list.                *)
LEMMA BodiesSendBody ==
  ASSUME Types, download = "bodies", BodiesInv, SendBody
  PROVE  BodiesInv'
<1>1. /\ syncee' = syncee /\ items' = items /\ receiver' = receiver /\ headerChan' = headerChan
      /\ toSyncer' = toSyncer /\ Got' = Got
  BY DEF SendBody, SyncerStays, Got
<1>2. CASE syncer.batch = <<>>
  <2>1. toSyncee' = toSyncee /\ syncer' = [syncer EXCEPT !.at = "idle"]
    BY <1>2 DEF SendBody
  <2>2. syncer'.at = "idle" /\ syncer'.batch = syncer.batch
    BY <2>1, Typed DEF SyncerStates
  <2>3. \A next : BodiesSent(next)' <=> BodiesSent(next)
    BY <1>1, <2>1, <2>2 DEF BodiesSent
  <2>4. syncee.at # "start"
    BY DEF BodiesInv, AtStart, SendBody
  <2> QED BY <1>1, <1>2, <2>1, <2>2, <2>3, <2>4 DEF BodiesInv
<1>3. CASE syncer.batch # <<>>
  <2>1. syncee.at \in {"receiveBodies", "timedOut"} /\ toSyncer = <<>>
    BY <1>3 DEF BodiesInv, AtStart
  <2>2. PICK next \in 0 .. items : BodiesSent(next)
    BY <1>3, <2>1 DEF BodiesInv
  <2>3. next < syncee.chunks
    <3>1. CASE next = syncee.chunks
      BY <1>3, <2>2, <3>1, ItemsEmpty, Typed, Zenon DEF BodiesSent
    <3> QED BY <2>2, <3>1, Typed DEF BodiesSent
  <2>4. Head(syncer.batch) = next + 1 /\ Tail(syncer.batch) = Items((next + 1) + 1, syncee.chunks)
    <3>1. syncer.batch = Items(next + 1, syncee.chunks) /\ next \in Nat /\ syncee.chunks \in Nat
      BY <2>2, Typed DEF BodiesSent
    <3> QED BY <2>3, <3>1, ItemsShift
  <2>5. toSyncee' = Append(toSyncee, Message("item", <<next + 1>>)) /\ syncer' = [syncer EXCEPT !.batch = Tail(syncer.batch)]
    BY <1>3, <2>4 DEF SendBody, SendToSyncee
  <2>6. syncer'.at = syncer.at /\ syncer'.batch = Items((next + 1) + 1, syncee.chunks)
    BY <2>4, <2>5, Typed DEF SyncerStates
  <2>7. /\ Len(toSyncee) = next - Got /\ next \in Nat /\ Got \in Nat /\ Got <= next
        /\ \A i \in 1 .. next - Got : toSyncee[i] = Message("item", <<Got + i>>)
    BY <2>2, Typed DEF BodiesSent
  <2>8. /\ Len(toSyncee') = next + 1 - Got
        /\ \A i \in 1 .. next + 1 - Got : toSyncee'[i] = Message("item", <<Got + i>>)
    <3>1. toSyncee \in Seq(Messages)
      BY Typed
    <3>2. /\ Len(toSyncee') = Len(toSyncee) + 1
          /\ \A i \in 1 .. Len(toSyncee) : toSyncee'[i] = toSyncee[i]
          /\ toSyncee'[Len(toSyncee) + 1] = Message("item", <<next + 1>>)
      BY <2>5, <3>1
    <3>3. ASSUME NEW i \in 1 .. next + 1 - Got
          PROVE  toSyncee'[i] = Message("item", <<Got + i>>)
      <4>1. CASE i <= Len(toSyncee)
        BY <2>7, <3>2, <4>1
      <4>2. CASE i = Len(toSyncee) + 1
        <5>1. Got + i = next + 1
          BY <2>7, <4>2
        <5> QED BY <3>2, <4>2, <5>1
      <4> QED BY <2>7, <4>1, <4>2
    <3> QED BY <2>7, <3>2, <3>3
  <2>9. next + 1 \in 0 .. items /\ BodiesSent(next + 1)'
    <3>1. next + 1 \in Got .. syncee.chunks
      BY <2>3, <2>7, Typed
    <3>2. syncee.chunks <= items
      BY <2>1 DEF BodiesInv
    <3> QED BY <1>1, <2>3, <2>6, <2>7, <2>8, <3>1, <3>2, Typed DEF BodiesSent
  <2>10. \E n \in 0 .. items : BodiesSent(n)'
    BY <2>9, <1>1 DEF BodiesSent
  <2>11. syncer.at = "bodies"
    BY DEF SendBody
  <2> QED BY <1>1, <2>1, <2>6, <2>10, <2>11 DEF BodiesInv
<1> QED BY <1>2, <1>3

(* The start of a download of bodies.                                      *)
LEMMA BodiesStart ==
  ASSUME Types, download = "bodies", BodiesInv, StartDownload
  PROVE  BodiesInv' /\ syncee'.got = syncee.got
<1>1. /\ syncee' = [syncee EXCEPT !.at = "bodies"] /\ items' = items /\ receiver' = receiver
      /\ headerChan' = headerChan /\ toSyncer' = toSyncer /\ toSyncee' = toSyncee /\ syncer' = syncer
  BY DEF StartDownload, SynceeStays
<1>2. syncee'.at = "bodies" /\ syncee'.got = syncee.got
  BY <1>1, Typed DEF SynceeStates
<1>3. AtStart
  BY DEF BodiesInv, StartDownload
<1> QED BY <1>1, <1>2, <1>3 DEF BodiesInv, AtStart, Got

(* syncMissingBlockBodies asks for the next batch only when all of the     *)
(* last one has come.                                                      *)
LEMMA BodiesRequest ==
  ASSUME Types, download = "bodies", BodiesInv, RequestBodies
  PROVE  BodiesInv' /\ syncee'.got = syncee.got
<1>1. /\ items' = items /\ receiver' = receiver /\ headerChan' = headerChan
      /\ toSyncee' = toSyncee /\ syncer' = syncer
  BY DEF RequestBodies, SynceeStays
<1>2. toSyncer = <<>> /\ toSyncee = <<>> /\ syncer.batch = <<>> /\ syncee.at = "bodies"
  BY DEF BodiesInv, RequestBodies
<1>3. CASE Len(syncee.got) = items
  <2>1. syncee' = [syncee EXCEPT !.at = "done"] /\ toSyncer' = toSyncer
    BY <1>3 DEF RequestBodies
  <2>2. syncee'.at = "done" /\ syncee'.got = syncee.got
    BY <2>1, Typed DEF SynceeStates
  <2> QED BY <1>1, <1>2, <1>3, <2>1, <2>2 DEF BodiesInv, Got
<1>4. CASE Len(syncee.got) # items
  <2> DEFINE to == LeastOf(Got + BatchSize, items)
  <2>1. /\ toSyncer' = Append(toSyncer, Message("request", Items(Got + 1, to)))
        /\ syncee' = [syncee EXCEPT !.at = "receiveBodies", !.chunks = to]
    BY <1>4 DEF RequestBodies, SendToSyncer, Got
  <2>2. to \in Nat /\ Got < to /\ to <= items /\ to <= Got + BatchSize
    BY <1>4, TransferAssumption, Typed, SMTT(30) DEF LeastOf, BodiesInv, Got
  <2> HIDE DEF to
  <2>3. syncee'.at = "receiveBodies" /\ syncee'.got = syncee.got /\ syncee'.chunks = to /\ Got' = Got
    BY <2>1, Typed DEF SynceeStates, Got
  <2>4. toSyncer' = <<Message("request", Items(Got + 1, to))>>
    BY <1>2, <2>1, Single
  <2> QED BY <1>1, <1>2, <2>2, <2>3, <2>4 DEF BodiesInv
<1> QED BY <1>3, <1>4

(* The block that comes is the next one of the list.                       *)
LEMMA BodiesReceive ==
  ASSUME Types, InOrder, download = "bodies", BodiesInv, ReceiveBody
  PROVE  BodiesInv' /\ InOrder'
<1>1. /\ items' = items /\ receiver' = receiver /\ headerChan' = headerChan
      /\ toSyncer' = toSyncer /\ syncer' = syncer /\ toSyncee' = Tail(toSyncee)
  BY DEF ReceiveBody, SynceeStays
<1>2. syncee.at = "receiveBodies" /\ toSyncer = <<>>
  BY DEF BodiesInv, ReceiveBody
<1>3. PICK next \in 0 .. items : BodiesSent(next)
  BY <1>2 DEF BodiesInv, ReceiveBody
<1>4. /\ Len(toSyncee) = next - Got /\ next \in Nat /\ Got \in Nat /\ Got < next /\ next <= syncee.chunks
      /\ \A i \in 1 .. next - Got : toSyncee[i] = Message("item", <<Got + i>>)
      /\ syncer.batch = Items(next + 1, syncee.chunks)
  BY <1>3, Typed, QueueTyped, SMTT(30) DEF BodiesSent, ReceiveBody
<1>5. /\ FromSyncer = Message("item", <<Got + 1>>)
      /\ Len(Tail(toSyncee)) = Len(toSyncee) - 1
      /\ \A i \in 1 .. Len(toSyncee) - 1 : Tail(toSyncee)[i] = toSyncee[i + 1]
  <2>1. toSyncee \in Seq(Messages) /\ toSyncee # <<>>
    BY Typed DEF ReceiveBody
  <2>2. /\ FromSyncer = toSyncee[1] /\ Len(Tail(toSyncee)) = Len(toSyncee) - 1
        /\ \A i \in 1 .. Len(toSyncee) - 1 : Tail(toSyncee)[i] = toSyncee[i + 1]
    BY <2>1, QueueTyped DEF FromSyncer
  <2>3. 1 \in 1 .. next - Got
    BY <1>4
  <2> QED BY <1>4, <2>2, <2>3
<1>6. FromSyncer.type = "item" /\ FromSyncer.items = <<Got + 1>>
  BY <1>5 DEF Message
<1>7. PICK a \in {"bodies", "receiveBodies"} :
        /\ syncee' = [syncee EXCEPT !.got = @ \o <<Got + 1>>, !.at = a]
        /\ a = "bodies" <=> Got + 1 = syncee.chunks
  BY <1>6, Zenon DEF ReceiveBody, Got
<1>8. syncee'.at = a /\ syncee'.got = syncee.got \o <<Got + 1>> /\ syncee'.chunks = syncee.chunks
  BY <1>7, Typed, Zenon DEF SynceeStates
<1>9. Got' = Got + 1
  BY <1>8, Typed DEF Got
<1>10. InOrder'
  <2>1. Items(Got + 1, Got + 1) = <<Got + 1>>
    BY <1>4, ItemsOne
  <2>2. Items(1, Got) \o Items(Got + 1, Got + 1) = Items(1, Got + 1)
    <3>1. Got + 1 \in Nat /\ Got <= Got + 1
      BY <1>4
    <3> QED BY <1>4, <3>1, ItemsConcat, Zenon
  <2> QED BY <1>8, <1>9, <2>1, <2>2, Zenon DEF InOrder
<1>11. Got + 1 <= items /\ syncee.chunks <= items /\ syncee.chunks <= Got + BatchSize /\ syncee.chunks \in Nat /\ items \in Nat
  BY <1>2, <1>4, Typed DEF BodiesInv
<1>12. CASE Got + 1 = syncee.chunks
  <2>1. toSyncee' = <<>>
    <3>1. Len(Tail(toSyncee)) = 0
      BY <1>4, <1>5, <1>12
    <3>2. Tail(toSyncee) \in Seq(Messages)
      BY Typed, MessageQueue DEF ReceiveBody
    <3> QED BY <1>1, <3>1, <3>2
  <2>2. syncer.batch = <<>>
    <3>1. next = syncee.chunks
      BY <1>4, <1>11, <1>12
    <3> QED BY <1>4, <3>1, ItemsEmpty
  <2>3. syncee'.at = "bodies"
    BY <1>7, <1>8, <1>12
  <2>4. /\ receiver' = "none" /\ headerChan' = <<>> /\ Got' <= items'
        /\ syncer'.at \in {"idle", "bodies"} /\ toSyncer' = <<>> /\ syncer'.batch = <<>>
    BY <1>1, <1>2, <1>9, <1>11, <2>2 DEF BodiesInv
  <2> QED BY <1>10, <2>1, <2>3, <2>4, Zenon DEF BodiesInv
<1>13. CASE Got + 1 # syncee.chunks
  <2>1. BodiesSent(next)'
    <3>1. \A i \in 1 .. next - (Got + 1) : toSyncee'[i] = Message("item", <<(Got + 1) + i>>)
      <4>1. ASSUME NEW i \in 1 .. next - (Got + 1)
            PROVE  toSyncee'[i] = Message("item", <<(Got + 1) + i>>)
        <5>1. i + 1 \in 1 .. next - Got /\ i \in 1 .. Len(toSyncee) - 1 /\ Got + (i + 1) = (Got + 1) + i
          BY <1>4
        <5>2. toSyncee'[i] = toSyncee[i + 1] /\ toSyncee[i + 1] = Message("item", <<Got + (i + 1)>>)
          BY <1>1, <1>4, <1>5, <5>1
        <5> QED BY <5>1, <5>2
      <4> QED BY <4>1
    <3>2. Len(toSyncee') = next - (Got + 1) /\ next \in Got + 1 .. syncee.chunks
      BY <1>1, <1>4, <1>5, <1>11
    <3> QED BY <1>1, <1>4, <1>8, <1>9, <3>1, <3>2 DEF BodiesSent
  <2>2. \E n \in 0 .. items : BodiesSent(n)'
    BY <2>1 DEF BodiesSent
  <2>3. syncee'.at = "receiveBodies" /\ syncee'.chunks = syncee.chunks
    BY <1>7, <1>8, <1>13
  <2>4. Got' < syncee'.chunks /\ syncee'.chunks <= items' /\ syncee'.chunks <= Got' + BatchSize
    BY <1>1, <1>4, <1>9, <1>11, <1>13, <2>3, TransferAssumption
  <2>5. /\ receiver' = "none" /\ headerChan' = <<>> /\ Got' <= items' /\ toSyncer' = <<>>
        /\ syncer'.at \in {"idle", "bodies"} /\ (syncer'.at = "idle" => syncer'.batch = <<>>)
    BY <1>1, <1>2, <1>9, <1>11 DEF BodiesInv
  <2>6. \E n \in 0 .. items' : BodiesSent(n)'
    BY <1>1, <2>2
  <2> QED BY <1>10, <2>3, <2>4, <2>5, <2>6, Zenon DEF BodiesInv
<1> QED BY <1>10, <1>12, <1>13

(* The invariant of the bodies is inductive.                               *)
LEMMA BodiesStep ==
  ASSUME Types, InOrder, download = "bodies", BodiesInv, TransferNext
  PROVE  BodiesInv' /\ InOrder'
<1>1. CASE TakeRequest \/ SendBody
  <2>1. syncee' = syncee
    BY <1>1 DEF TakeRequest, SendBody, SyncerStays
  <2> QED BY <1>1, <2>1, BodiesTakeRequest, BodiesSendBody DEF InOrder, Got
<1>2. CASE StartDownload \/ RequestBodies
  BY <1>2, BodiesStart, BodiesRequest DEF InOrder, Got
<1>3. CASE ReceiveBody
  BY <1>3, BodiesReceive
<1>4. CASE TimeOutSyncee /\ syncee.at = "receiveBodies"
  <2>1. /\ syncee' = [syncee EXCEPT !.at = "timedOut"] /\ items' = items /\ receiver' = receiver
        /\ headerChan' = headerChan /\ toSyncer' = toSyncer /\ toSyncee' = toSyncee /\ syncer' = syncer
    BY <1>4 DEF TimeOutSyncee, SynceeStays, BodiesInv
  <2>2. syncee'.at = "timedOut" /\ syncee'.got = syncee.got /\ syncee'.chunks = syncee.chunks
    BY <2>1, Typed DEF SynceeStates
  <2>3. \A n : BodiesSent(n)' <=> BodiesSent(n)
    BY <2>1, <2>2 DEF BodiesSent, Got
  <2> QED BY <1>4, <2>1, <2>2, <2>3 DEF BodiesInv, InOrder, Got
<1> QED BY <1>1, <1>2, <1>3, <1>4, BodiesActions

-----------------------------------------------------------------------------
(* Headers.                                                                *)

(* Nothing in the channel: nothing is between its ends.                    *)
LEMMA PiecesNone ==
  ASSUME NEW n \in Nat
  PROVE  Pieces(<<>>, n, n)
<1> DEFINE ends == [i \in 0 .. 0 |-> n]
<1>1. ends \in [0 .. 0 -> 0 .. n] /\ ends[0] = n
  OBVIOUS
<1>2. Len(<<>>) = 0 /\ 1 .. 0 = {}
  OBVIOUS
<1> HIDE DEF ends
<1> QED BY <1>1, <1>2 DEF Pieces

(* An empty channel ends where it begins.                                  *)
LEMMA PiecesEmpty ==
  ASSUME NEW from \in Nat, NEW to \in Nat, Pieces(<<>>, from, to)
  PROVE  from = to
BY DEF Pieces

(* A channel ends no earlier than it begins.                               *)
LEMMA PiecesOrder ==
  ASSUME NEW chan \in Seq(Seq(Nat)), NEW from, NEW to \in Nat, Pieces(chan, from, to)
  PROVE  from \in 0 .. to
<1>1. Len(chan) \in Nat
  OBVIOUS
<1>2. 0 \in 0 .. Len(chan)
  BY <1>1
<1> QED BY <1>2 DEF Pieces

(* A message that goes on where the channel ends, put into it.             *)
LEMMA PiecesPut ==
  ASSUME NEW chan \in Seq(Seq(Nat)), NEW from \in Nat, NEW mid \in Nat, NEW to \in Nat, mid <= to,
         Pieces(chan, from, mid)
  PROVE  Pieces(Append(chan, Items(mid + 1, to)), from, to)
<1> DEFINE batch == Items(mid + 1, to)
           more == Append(chan, batch)
<1>1. PICK ends \in [0 .. Len(chan) -> 0 .. mid] :
        /\ ends[0] = from /\ ends[Len(chan)] = mid
        /\ \A i \in 1 .. Len(chan) : ends[i - 1] <= ends[i] /\ chan[i] = Items(ends[i - 1] + 1, ends[i])
  BY Zenon DEF Pieces
<1>2. batch \in Seq(Nat) /\ Len(chan) \in Nat
  BY ItemsTyped
<1> HIDE DEF batch
<1>3. /\ Len(more) = Len(chan) + 1 /\ more[Len(chan) + 1] = batch
      /\ \A i \in 1 .. Len(chan) : more[i] = chan[i]
  BY <1>2
<1> DEFINE then == [i \in 0 .. Len(chan) + 1 |-> IF i = Len(chan) + 1 THEN to ELSE ends[i]]
<1>4. then \in [0 .. Len(chan) + 1 -> 0 .. to]
  <2>1. \A i \in 0 .. Len(chan) : ends[i] \in 0 .. mid
    BY <1>1, Zenon
  <2> QED BY <1>2, <2>1
<1>5. /\ then[0] = from /\ then[Len(chan) + 1] = to /\ then[Len(chan)] = mid
      /\ \A i \in 0 .. Len(chan) : then[i] = ends[i]
  BY <1>1, <1>2
<1> HIDE DEF then, more
<1>6. ASSUME NEW i \in 1 .. Len(chan) + 1
      PROVE  then[i - 1] <= then[i] /\ more[i] = Items(then[i - 1] + 1, then[i])
  <2>1. CASE i = Len(chan) + 1
    <3>1. i - 1 = Len(chan)
      BY <1>2, <2>1
    <3> QED BY <1>3, <1>5, <2>1, <3>1 DEF batch
  <2>2. CASE i # Len(chan) + 1
    <3>1. i \in 1 .. Len(chan) /\ i \in 0 .. Len(chan) /\ i - 1 \in 0 .. Len(chan)
      BY <1>2, <2>2
    <3> QED BY <1>1, <1>3, <1>5, <3>1, Zenon
  <2> QED BY <2>1, <2>2
<1>7. Pieces(more, from, to)
  <2>1. then \in [0 .. Len(more) -> 0 .. to] /\ then[0] = from /\ then[Len(more)] = to
    BY <1>3, <1>4, <1>5
  <2>2. \A i \in 1 .. Len(more) : then[i - 1] <= then[i] /\ more[i] = Items(then[i - 1] + 1, then[i])
    BY <1>3, <1>6
  <2> QED BY <2>1, <2>2, Zenon DEF Pieces
<1> QED BY <1>7 DEF more, batch

(* The first message of the channel goes on where it begins.               *)
LEMMA PiecesTake ==
  ASSUME NEW chan \in Seq(Seq(Nat)), chan # <<>>, NEW from \in Nat, NEW to \in Nat, Pieces(chan, from, to)
  PROVE  \E mid \in from .. to : Head(chan) = Items(from + 1, mid) /\ Pieces(Tail(chan), mid, to)
<1>1. PICK ends \in [0 .. Len(chan) -> 0 .. to] :
        /\ ends[0] = from /\ ends[Len(chan)] = to
        /\ \A i \in 1 .. Len(chan) : ends[i - 1] <= ends[i] /\ chan[i] = Items(ends[i - 1] + 1, ends[i])
  BY Zenon DEF Pieces
<1>2. /\ Head(chan) = chan[1] /\ Len(chan) \in Nat /\ Len(chan) > 0 /\ Len(Tail(chan)) = Len(chan) - 1
      /\ \A i \in 1 .. Len(chan) - 1 : Tail(chan)[i] = chan[i + 1]
  BY QueueTyped
<1>3. ends[1] \in from .. to /\ Head(chan) = Items(from + 1, ends[1])
  <2>1. 1 \in 1 .. Len(chan) /\ 1 \in 0 .. Len(chan)
    BY <1>2
  <2>2. ends[1 - 1] <= ends[1] /\ chan[1] = Items(ends[1 - 1] + 1, ends[1]) /\ ends[1] \in 0 .. to
    BY <1>1, <2>1, Zenon
  <2> QED BY <1>1, <1>2, <2>2
<1> DEFINE then == [i \in 0 .. Len(chan) - 1 |-> ends[i + 1]]
<1>4. then \in [0 .. Len(chan) - 1 -> 0 .. to]
  <2>1. ASSUME NEW i \in 0 .. Len(chan) - 1
        PROVE  ends[i + 1] \in 0 .. to
    <3>1. i + 1 \in 0 .. Len(chan)
      BY <1>2
    <3> QED BY <1>1, <3>1, Zenon
  <2> QED BY <2>1
<1>5. then[0] = ends[1] /\ then[Len(chan) - 1] = to /\ \A i \in 0 .. Len(chan) - 1 : then[i] = ends[i + 1]
  BY <1>1, <1>2
<1> HIDE DEF then
<1>6. ASSUME NEW i \in 1 .. Len(chan) - 1
      PROVE  then[i - 1] <= then[i] /\ Tail(chan)[i] = Items(then[i - 1] + 1, then[i])
  <2>1. i + 1 \in 1 .. Len(chan) /\ i \in 0 .. Len(chan) - 1 /\ i - 1 \in 0 .. Len(chan) - 1
        /\ (i + 1) - 1 = i /\ (i - 1) + 1 = i
    BY <1>2
  <2>2. then[i] = ends[i + 1] /\ then[i - 1] = ends[i]
    BY <1>5, <2>1
  <2>3. ends[i] <= ends[i + 1] /\ chan[i + 1] = Items(ends[i] + 1, ends[i + 1])
    BY <1>1, <2>1
  <2> QED BY <1>2, <2>2, <2>3
<1>7. Pieces(Tail(chan), ends[1], to)
  BY <1>2, <1>4, <1>5, <1>6, Zenon DEF Pieces
<1> QED BY <1>3, <1>7

(* The actions that can change the state of a download of headers.         *)
LEMMA HeadersActions ==
  ASSUME Types, download = "headers", HeadersInv, TransferNext
  PROVE  \/ TakeRequest \/ SendHeaders \/ TakeNext \/ StartDownload \/ ReceiveHeaders \/ PutHeaders
         \/ ProcessHeaders \/ EndHeaders \/ (TimeOutSyncee /\ receiver = "receive")
<1>1. syncer.at \in {"idle", "headers", "waitNext"}
  BY DEF HeadersInv, HeadersOnTheWay, AtStart
<1>2. ~SendTrustedData /\ ~SendTrustedBlock /\ ~SendUTXOs /\ ~SendBody
  BY <1>1 DEF SendTrustedData, SendTrustedBlock, SendUTXOs, SendBody
<1>3. ~RequestBodies /\ ~ReceiveBody /\ ~ReceivePruningPoints /\ ~ReceiveTrustedData /\ ~ReceiveTrustedBlock /\ ~ReceiveUTXOs
  BY Zenon DEF HeadersInv, RequestBodies, ReceiveBody, ReceivePruningPoints, ReceiveTrustedData, ReceiveTrustedBlock, ReceiveUTXOs
<1>4. ~TimeOutSyncer /\ ~PruningPointMoves /\ ~OtherRequest
  BY DEF TimeOutSyncer, PruningPointMoves, OtherRequest
<1>5. TimeOutSyncee => receiver = "receive"
  BY DEF HeadersInv, TimeOutSyncee
<1> QED BY <1>2, <1>3, <1>4, <1>5 DEF TransferNext, TransferStep

(* The syncer takes the request for headers.                               *)
LEMMA HeadersTakeRequest ==
  ASSUME Types, download = "headers", HeadersInv, TakeRequest
  PROVE  HeadersInv' /\ syncee' = syncee
<1>1. /\ toSyncer = <<Request>> /\ toSyncee = <<>> /\ receiver # "put" /\ syncer.sent = 0 /\ Received(0)
      /\ syncee.at # "start"
  BY DEF HeadersInv, HeadersOnTheWay, TakeRequest, AtStart
<1>2. FromSyncee = Request /\ Tail(toSyncer) = <<>>
  BY <1>1, Single DEF FromSyncee
<1>3. FromSyncee.type = "request"
  BY <1>2 DEF Message, Request
<1>4. /\ toSyncer' = <<>> /\ toSyncee' = <<>> /\ syncee' = syncee /\ items' = items
      /\ receiver' = receiver /\ headerChan' = headerChan /\ syncer' = [syncer EXCEPT !.at = "headers"]
  BY <1>1, <1>2, <1>3 DEF TakeRequest, SyncerStays
<1>5. syncer'.at = "headers" /\ syncer'.sent = 0
  BY <1>1, <1>4, Typed DEF SyncerStates
<1>6. \A n : Received(n)' <=> Received(n)
  BY <1>4 DEF Received, Got
<1>7. HeadersOnTheWay'
  BY <1>1, <1>4, <1>5, <1>6 DEF HeadersOnTheWay, Received, Got
<1> QED BY <1>1, <1>4, <1>5, <1>7, Typed DEF HeadersInv

(* HandleRequestHeaders sends a message of headers, or the end.            *)
LEMMA HeadersSend ==
  ASSUME Types, download = "headers", HeadersInv, SendHeaders
  PROVE  HeadersInv' /\ syncee' = syncee
<1>1. /\ toSyncer = <<>> /\ toSyncee = <<>> /\ receiver # "put" /\ Received(syncer.sent)
      /\ syncee.at # "start" /\ syncer.at = "headers"
  BY Zenon DEF HeadersInv, HeadersOnTheWay, SendHeaders, AtStart
<1>2. /\ toSyncer' = <<>> /\ syncee' = syncee /\ items' = items /\ receiver' = receiver /\ headerChan' = headerChan
  BY <1>1, Zenon DEF SendHeaders, SyncerStays
<1>3. \A n : Pieces(headerChan', Got', n) <=> Pieces(headerChan, Got, n)
  BY <1>2 DEF Got
<1>4. CASE syncer.sent = items
  <2>1. toSyncee' = <<Done>> /\ syncer' = [syncer EXCEPT !.at = "idle"]
    BY <1>1, <1>4, Single DEF SendHeaders, SendToSyncee, Done
  <2>2. syncer'.at = "idle" /\ syncer'.sent = items
    BY <1>4, <2>1, Typed DEF SyncerStates
  <2>3. Pieces(headerChan', Got', items')
    BY <1>1, <1>2, <1>3, <1>4 DEF Received
  <2>4. HeadersOnTheWay'
    BY <1>1, <1>2, <2>1, <2>2, <2>3 DEF HeadersOnTheWay, Received
  <2> QED BY <1>1, <1>2, <2>2, <2>4, Typed DEF HeadersInv
<1>5. CASE syncer.sent # items
  <2>1. PICK n \in 1 .. LeastOf(ChunkSize, items - syncer.sent) :
          /\ toSyncee' = Append(toSyncee, Message("item", Items(syncer.sent + 1, syncer.sent + n)))
          /\ syncer' = [syncer EXCEPT !.sent = syncer.sent + n, !.at = "waitNext"]
    BY <1>5, Zenon DEF SendHeaders, SendToSyncee
  <2>2. n \in Nat /\ n > 0 /\ syncer.sent + n <= items /\ syncer.sent \in Nat /\ syncer.sent + n \in Nat
    <3>1. syncer.sent <= items /\ syncer.sent \in Nat /\ items \in Nat
      BY Typed DEF HeadersInv
    <3>2. ChunkSize \in Nat
      BY TransferAssumption
    <3>3. n \in 1 .. (IF ChunkSize < items - syncer.sent THEN ChunkSize ELSE items - syncer.sent)
      BY DEF LeastOf
    <3> QED BY <1>5, <3>1, <3>2, <3>3
  <2>3. syncer'.at = "waitNext" /\ syncer'.sent = syncer.sent + n
    BY <2>1, Typed DEF SyncerStates
  <2>4. toSyncee' = <<Message("item", Items(syncer.sent + 1, syncer'.sent))>>
    BY <1>1, <2>1, <2>3, Single
  <2>5. syncer.sent \in 0 .. syncer'.sent /\ syncer.sent < syncer'.sent
    BY <2>2, <2>3
  <2>6. Pieces(headerChan', Got', syncer.sent)
    BY <1>1, <1>3 DEF Received
  <2>7. \E from \in 0 .. syncer'.sent : /\ from < syncer'.sent /\ Pieces(headerChan', Got', from)
                                        /\ toSyncee' = <<Message("item", Items(from + 1, syncer'.sent))>>
    BY <2>4, <2>5, <2>6
  <2>8. HeadersOnTheWay'
    BY <1>1, <1>2, <2>3, <2>7 DEF HeadersOnTheWay, Received
  <2>9. syncer'.sent <= items'
    BY <1>2, <2>2, <2>3
  <2>10. ~(syncee.at \in {"headers", "done"} /\ receiver = "closed")
    BY <1>1 DEF HeadersInv
  <2> QED BY <1>1, <1>2, <2>8, <2>9, <2>10 DEF HeadersInv
<1> QED BY <1>4, <1>5

(* The syncer takes the request for the next message.                      *)
LEMMA HeadersTakeNext ==
  ASSUME Types, download = "headers", HeadersInv, TakeNext
  PROVE  HeadersInv' /\ syncee' = syncee
<1>1. /\ toSyncer = <<NextBatch>> /\ toSyncee = <<>> /\ receiver # "put" /\ Received(syncer.sent)
      /\ syncee.at # "start" /\ syncer.at = "waitNext"
  BY DEF HeadersInv, HeadersOnTheWay, TakeNext, AtStart
<1>2. FromSyncee = NextBatch /\ Tail(toSyncer) = <<>>
  BY <1>1, Single DEF FromSyncee
<1>3. FromSyncee.type = "next"
  BY <1>2 DEF Message, NextBatch
<1>4. /\ toSyncer' = <<>> /\ toSyncee' = <<>> /\ syncee' = syncee /\ items' = items
      /\ receiver' = receiver /\ headerChan' = headerChan /\ syncer' = [syncer EXCEPT !.at = "headers"]
  BY <1>1, <1>2, <1>3 DEF TakeNext, SyncerStays
<1>5. syncer'.at = "headers" /\ syncer'.sent = syncer.sent
  BY <1>4, Typed DEF SyncerStates
<1>6. Pieces(headerChan', Got', syncer'.sent)
  BY <1>1, <1>4, <1>5 DEF Received, Got
<1>7. HeadersOnTheWay'
  BY <1>1, <1>4, <1>5, <1>6 DEF HeadersOnTheWay, Received
<1>8. ~(syncee.at \in {"headers", "done"} /\ receiver = "closed")
  BY <1>1 DEF HeadersInv
<1> QED BY <1>1, <1>4, <1>5, <1>7, <1>8 DEF HeadersInv

(* The start of a download of headers.                                     *)
LEMMA HeadersStart ==
  ASSUME Types, download = "headers", HeadersInv, StartDownload
  PROVE  HeadersInv' /\ syncee'.got = syncee.got
<1>1. AtStart
  BY DEF HeadersInv, StartDownload
<1>2. /\ toSyncer' = Append(toSyncer, Message("request", <<>>)) /\ syncee' = [syncee EXCEPT !.at = "headers"]
      /\ receiver' = "receive" /\ toSyncee' = <<>> /\ headerChan' = <<>> /\ items' = items /\ syncer' = syncer
  BY <1>1 DEF StartDownload, SendToSyncer, SynceeStays, AtStart
<1>3. syncee'.at = "headers" /\ syncee'.got = syncee.got
  BY <1>2, Typed DEF SynceeStates
<1>4. toSyncer' = <<Request>>
  BY <1>1, <1>2, Single DEF Request, AtStart
<1>5. Got' = 0 /\ Pieces(headerChan', Got', 0)
  BY <1>1, <1>2, <1>3, PiecesNone DEF AtStart, Got
<1>6. HeadersOnTheWay'
  BY <1>1, <1>2, <1>4, <1>5 DEF HeadersOnTheWay, AtStart, Received
<1> QED BY <1>2, <1>3, <1>6 DEF HeadersInv

(* The receiver takes the message on the way.                              *)
LEMMA HeadersReceive ==
  ASSUME Types, download = "headers", HeadersInv, ReceiveHeaders
  PROVE  HeadersInv' /\ syncee'.got = syncee.got
<1>1. syncee.at # "start" /\ receiver = "receive" /\ toSyncee # <<>> /\ syncee.at # "done"
  BY DEF HeadersInv, ReceiveHeaders, AtStart
<1>2. /\ toSyncee' = Tail(toSyncee) /\ toSyncer' = toSyncer /\ headerChan' = headerChan /\ items' = items /\ syncer' = syncer
  BY DEF ReceiveHeaders, SynceeStays
<1>3. CASE toSyncee = <<Done>>
  <2>1. FromSyncer = Done /\ Tail(toSyncee) = <<>>
    BY <1>3, Single DEF FromSyncer
  <2>2. FromSyncer.type = "done"
    BY <2>1 DEF Done, Message
  <2>3. receiver' = "closed" /\ syncee' = syncee
    BY <2>2 DEF ReceiveHeaders
  <2>4. syncer.at = "idle" /\ toSyncer = <<>> /\ syncer.sent = items /\ Received(items)
    <3>1. \A its : <<Message("item", its)>> # <<Done>> /\ <<>> # <<Done>>
      BY DEF Message, Done
    <3> QED BY <1>1, <1>3, <3>1 DEF HeadersInv, HeadersOnTheWay
  <2>5. Pieces(headerChan', Got', items')
    BY <1>2, <2>3, <2>4 DEF Received, Got
  <2>6. HeadersOnTheWay'
    BY <1>2, <2>1, <2>3, <2>4, <2>5 DEF HeadersOnTheWay, Received
  <2> QED BY <1>1, <1>2, <2>1, <2>3, <2>4, <2>6 DEF HeadersInv
<1>4. CASE toSyncee # <<Done>>
  <2>1. /\ syncer.at = "waitNext" /\ toSyncer = <<>>
        /\ \E from \in 0 .. syncer.sent : /\ from < syncer.sent /\ Received(from)
                                          /\ toSyncee = <<Message("item", Items(from + 1, syncer.sent))>>
    BY <1>1, <1>4 DEF HeadersInv, HeadersOnTheWay
  <2>2. PICK from \in 0 .. syncer.sent : /\ from < syncer.sent /\ Received(from)
                                         /\ toSyncee = <<Message("item", Items(from + 1, syncer.sent))>>
    BY <2>1
  <2> DEFINE batch == Items(from + 1, syncer.sent)
  <2>3. batch # <<>> /\ syncer.sent \in Nat /\ from \in Nat
    BY <2>2, Typed, ItemsShift, SMTT(30)
  <2>4. FromSyncer = Message("item", batch) /\ Tail(toSyncee) = <<>>
    BY <2>2, Single DEF FromSyncer
  <2>5. FromSyncer.type = "item" /\ FromSyncer.items = batch
    BY <2>4 DEF Message
  <2> HIDE DEF batch
  <2>6. receiver' = "put" /\ syncee' = [syncee EXCEPT !.batch = batch]
    BY <2>3, <2>5 DEF ReceiveHeaders
  <2>7. syncee'.at = syncee.at /\ syncee'.got = syncee.got /\ syncee'.batch = batch
    BY <2>6, Typed DEF SynceeStates
  <2>8. Pieces(headerChan', Got', from)
    BY <1>2, <2>2, <2>7 DEF Received, Got
  <2>9. \E f \in 0 .. syncer'.sent : Pieces(headerChan', Got', f) /\ syncee'.batch = Items(f + 1, syncer'.sent)
    BY <1>2, <2>7, <2>8 DEF batch
  <2>10. HeadersOnTheWay'
    BY <1>2, <2>1, <2>4, <2>6, <2>9 DEF HeadersOnTheWay, Received
  <2> QED BY <1>1, <1>2, <2>6, <2>7, <2>10 DEF HeadersInv
<1> QED BY <1>3, <1>4

(* The receiver puts it into the channel and asks for the next one.        *)
LEMMA HeadersPut ==
  ASSUME Types, download = "headers", HeadersInv, PutHeaders
  PROVE  HeadersInv' /\ syncee' = syncee
<1>1. syncee.at # "start" /\ receiver = "put" /\ syncee.at # "done"
  BY DEF HeadersInv, PutHeaders, AtStart
<1>2. /\ syncer.at = "waitNext" /\ toSyncer = <<>> /\ toSyncee = <<>>
      /\ \E from \in 0 .. syncer.sent : Received(from) /\ syncee.batch = Items(from + 1, syncer.sent)
  BY <1>1 DEF HeadersInv, HeadersOnTheWay
<1>3. PICK from \in 0 .. syncer.sent : Received(from) /\ syncee.batch = Items(from + 1, syncer.sent)
  BY <1>2
<1>4. /\ toSyncee' = <<>> /\ toSyncer' = Append(toSyncer, Message("next", <<>>)) /\ syncee' = syncee
      /\ headerChan' = Append(headerChan, syncee.batch) /\ items' = items /\ syncer' = syncer /\ receiver' = "receive"
  BY <1>2 DEF PutHeaders, SynceeStays, SendToSyncer
<1>5. toSyncer' = <<NextBatch>>
  BY <1>2, <1>4, Single DEF NextBatch
<1>6. Pieces(headerChan', Got', syncer'.sent)
  <2>1. from \in Nat /\ syncer.sent \in Nat /\ from <= syncer.sent /\ Got \in Nat /\ Pieces(headerChan, Got, from)
    BY <1>3, Typed DEF Received, Got
  <2>2. Pieces(Append(headerChan, Items(from + 1, syncer.sent)), Got, syncer.sent)
    BY <2>1, Typed, PiecesPut
  <2> QED BY <1>3, <1>4, <2>2 DEF Got
<1>7. HeadersOnTheWay'
  BY <1>2, <1>4, <1>5, <1>6 DEF HeadersOnTheWay, Received
<1> QED BY <1>1, <1>4, <1>7 DEF HeadersInv

(* syncPruningPointFutureHeaders processes the first message of the        *)
(* channel.                                                                *)
LEMMA HeadersProcess ==
  ASSUME Types, InOrder, download = "headers", HeadersInv, ProcessHeaders
  PROVE  HeadersInv' /\ InOrder'
<1>1. /\ syncee' = [syncee EXCEPT !.got = syncee.got \o Head(headerChan)] /\ headerChan' = Tail(headerChan)
      /\ toSyncer' = toSyncer /\ toSyncee' = toSyncee /\ receiver' = receiver /\ items' = items /\ syncer' = syncer
      /\ headerChan # <<>> /\ syncee.at = "headers"
  BY DEF ProcessHeaders, SynceeStays
<1>2. syncee'.at = "headers" /\ syncee'.got = syncee.got \o Head(headerChan) /\ syncee'.batch = syncee.batch
  BY <1>1, Typed, Zenon DEF SynceeStates
<1>3. ASSUME NEW to \in Nat, Received(to)
      PROVE  Pieces(headerChan', Got', to) /\ InOrder'
  <2>1. Pieces(headerChan, Got, to) /\ Got \in Nat /\ headerChan \in Seq(Seq(Nat))
    BY <1>3, Typed DEF Received, Got
  <2>2. PICK mid \in Got .. to : Head(headerChan) = Items(Got + 1, mid) /\ Pieces(Tail(headerChan), mid, to)
    BY <1>1, <2>1, PiecesTake
  <2>3. mid \in Nat /\ Got <= mid
    BY <2>1, <2>2
  <2>4. syncee'.got = Items(1, mid)
    <3>1. Items(1, Got) \o Items(Got + 1, mid) = Items(1, mid)
      BY <2>1, <2>3, ItemsConcat, Zenon
    <3> QED BY <1>2, <2>2, <3>1, Zenon DEF InOrder
  <2>5. Len(syncee'.got) = mid
    <3>1. Len(Items(0 + 1, mid)) = mid - 0
      <4>1. 0 \in Nat /\ 0 <= mid /\ mid \in Nat
        BY <2>3
      <4> QED BY <4>1, ItemsSeq, Zenon
    <3>2. 0 + 1 = 1 /\ mid - 0 = mid
      BY <2>3
    <3> QED BY <2>4, <3>1, <3>2
  <2> QED BY <1>1, <2>2, <2>4, <2>5, Zenon DEF InOrder, Got
<1>4. syncer.sent \in Nat /\ items \in Nat
  BY Typed
<1>5. HeadersOnTheWay
  BY <1>1 DEF HeadersInv
<1>6. HeadersOnTheWay' /\ InOrder'
  <2>1. CASE Received(0) \/ Received(syncer.sent) \/ Received(items)
    BY <1>1, <1>3, <1>4, <1>5, <2>1 DEF HeadersOnTheWay, Received
  <2>2. \A from \in 0 .. syncer.sent : Received(from) => Pieces(headerChan', Got', from) /\ InOrder'
    BY <1>3, <1>4
  <2> QED BY <1>1, <1>2, <1>3, <1>4, <1>5, <2>2 DEF HeadersOnTheWay, Received
<1> QED BY <1>1, <1>2, <1>6 DEF HeadersInv

(* The end of the headers, an error of the receiver, or its timeout.       *)
LEMMA HeadersEnd ==
  ASSUME Types, download = "headers", HeadersInv, EndHeaders \/ (TimeOutSyncee /\ receiver = "receive")
  PROVE  HeadersInv' /\ syncee'.got = syncee.got
<1>1. /\ toSyncer' = toSyncer /\ toSyncee' = toSyncee /\ items' = items /\ syncer' = syncer /\ headerChan' = headerChan
  BY DEF EndHeaders, TimeOutSyncee, SynceeStays
<1>2. /\ syncee.at # "start" /\ receiver # "put" /\ HeadersOnTheWay
      /\ \E a \in {syncee.at, "done", "timedOut"} :
           /\ syncee' = [syncee EXCEPT !.at = a] \/ (a = syncee.at /\ syncee' = syncee)
           /\ \/ a = "done" /\ receiver' = "closed" /\ receiver = "closed" /\ headerChan = <<>> /\ syncee.at = "headers"
              \/ a = "timedOut" /\ receiver' = "closed" /\ receiver = "error"
              \/ a = syncee.at /\ receiver' = "error" /\ receiver = "receive"
  BY DEF EndHeaders, TimeOutSyncee, HeadersInv, AtStart
<1>3. PICK a \in {syncee.at, "done", "timedOut"} :
        /\ syncee'.at = a /\ syncee'.got = syncee.got /\ syncee'.batch = syncee.batch
        /\ \/ a = "done" /\ receiver' = "closed" /\ receiver = "closed" /\ headerChan = <<>> /\ syncee.at = "headers"
           \/ a = "timedOut" /\ receiver' = "closed" /\ receiver = "error"
           \/ a = syncee.at /\ receiver' = "error" /\ receiver = "receive"
  BY <1>2, Typed DEF SynceeStates
<1>4. Got' = Got
  BY <1>3 DEF Got
<1>5. HeadersOnTheWay'
  BY <1>1, <1>2, <1>3, <1>4 DEF HeadersOnTheWay, Received
<1> QED BY <1>1, <1>2, <1>3, <1>5 DEF HeadersInv

(* The invariant of the headers is inductive.                              *)
LEMMA HeadersStep ==
  ASSUME Types, InOrder, download = "headers", HeadersInv, TransferNext
  PROVE  HeadersInv' /\ InOrder'
<1>1. CASE TakeRequest \/ SendHeaders \/ TakeNext \/ PutHeaders
  BY <1>1, HeadersTakeRequest, HeadersSend, HeadersTakeNext, HeadersPut DEF InOrder, Got
<1>2. CASE StartDownload \/ ReceiveHeaders \/ EndHeaders \/ (TimeOutSyncee /\ receiver = "receive")
  BY <1>2, HeadersStart, HeadersReceive, HeadersEnd DEF InOrder, Got
<1>3. CASE ProcessHeaders
  BY <1>3, HeadersProcess
<1> QED BY <1>1, <1>2, <1>3, HeadersActions

-----------------------------------------------------------------------------
(* The pruning point and its anticone.                                     *)

(* The counter of a batch is below its size, and its next value.           *)
LEMMA Residue ==
  ASSUME NEW a \in Nat
  PROVE  /\ a % BatchSize \in 0 .. BatchSize - 1 /\ BatchSize \in Nat /\ BatchSize > 1
         /\ (a + 1) % BatchSize = IF a % BatchSize = BatchSize - 1 THEN 0 ELSE (a % BatchSize) + 1
<1>1. BatchSize \in Nat /\ BatchSize > 1
  BY TransferAssumption
<1>2. a % BatchSize \in 0 .. BatchSize - 1
  BY <1>1, Remainder
<1> QED BY <1>1, <1>2, Successor, Zenon

(* Nothing has been sent, nothing is on the way.                           *)
LEMMA ApartZero ==
  Apart(0, 0)
<1>1. 0 % BatchSize \in 0 .. BatchSize - 1
  BY Residue
<1> QED BY <1>1 DEF Apart

(* All that was sent has arrived.                                          *)
LEMMA ApartSame ==
  ASSUME NEW s \in Nat
  PROVE  Apart(s, s)
<1>1. s % BatchSize \in 0 .. BatchSize - 1
  BY Residue
<1> QED BY <1>1 DEF Apart

(* What is on the way fits into a batch that is not full.                  *)
LEMMA ApartBound ==
  ASSUME NEW g \in Nat, NEW s \in Nat, Apart(g, s)
  PROVE  g <= s /\ s - g < BatchSize
<1>1. /\ g % BatchSize \in 0 .. BatchSize - 1 /\ s % BatchSize \in 0 .. BatchSize - 1 /\ BatchSize \in Nat
  BY Residue
<1> QED BY <1>1 DEF Apart

(* What is on the way fits into a batch.                                   *)
LEMMA FilledBound ==
  ASSUME NEW g \in Nat, NEW s \in Nat, NEW q, Filled(g, s, q)
  PROVE  g <= s /\ s - g <= BatchSize /\ q \in {<<>>, <<NextBatch>>}
<1>1. /\ g % BatchSize \in 0 .. BatchSize - 1 /\ BatchSize \in Nat
  BY Residue
<1> QED BY <1>1 DEF Filled

(* Sending one more: the batch is still not full, or it is now.            *)
LEMMA ApartSend ==
  ASSUME NEW g \in Nat, NEW s \in Nat, Apart(g, s)
  PROVE  IF (s + 1) % BatchSize = 0 THEN Filled(g, s + 1, <<>>) ELSE Apart(g, s + 1)
<1>1. /\ g % BatchSize \in 0 .. BatchSize - 1 /\ s % BatchSize \in 0 .. BatchSize - 1 /\ BatchSize \in Nat /\ BatchSize > 1
      /\ (s + 1) % BatchSize = IF s % BatchSize = BatchSize - 1 THEN 0 ELSE (s % BatchSize) + 1
  BY Residue
<1>2. g <= s /\ (g % BatchSize) + (s - g) = s % BatchSize
  BY DEF Apart
<1>3. PICK x \in Nat, y \in Nat, z \in Nat : x = g % BatchSize /\ y = s % BatchSize /\ z = (s + 1) % BatchSize
  BY <1>1
<1>4. CASE z = 0
  <2>1. y = BatchSize - 1
    BY <1>1, <1>3, <1>4
  <2>2. g # s + 1 /\ g <= s + 1 /\ x + ((s + 1) - g) = BatchSize
    BY <1>1, <1>2, <1>3, <2>1
  <2> QED BY <1>3, <1>4, <2>2 DEF Filled
<1>5. CASE z # 0
  <2>1. z = y + 1
    BY <1>1, <1>3, <1>5
  <2>2. g <= s + 1 /\ x + ((s + 1) - g) = z
    BY <1>1, <1>2, <1>3, <2>1
  <2> QED BY <1>3, <1>5, <2>2 DEF Apart
<1> QED BY <1>4, <1>5

(* Getting one more of a batch that is not full asks for nothing.          *)
LEMMA ApartGet ==
  ASSUME NEW g \in Nat, NEW s \in Nat, g < s, Apart(g, s)
  PROVE  (g + 1) % BatchSize # 0 /\ Apart(g + 1, s)
<1>1. /\ g % BatchSize \in 0 .. BatchSize - 1 /\ s % BatchSize \in 0 .. BatchSize - 1 /\ BatchSize \in Nat /\ BatchSize > 1
      /\ (g + 1) % BatchSize = IF g % BatchSize = BatchSize - 1 THEN 0 ELSE (g % BatchSize) + 1
  BY Residue
<1>2. g <= s /\ (g % BatchSize) + (s - g) = s % BatchSize
  BY DEF Apart
<1>3. PICK x \in Nat, y \in Nat, z \in Nat : x = g % BatchSize /\ y = s % BatchSize /\ z = (g + 1) % BatchSize
  BY <1>1
<1>4. x < BatchSize - 1
  BY <1>1, <1>2, <1>3
<1>5. z = x + 1
  BY <1>1, <1>3, <1>4
<1>6. g + 1 <= s /\ z + (s - (g + 1)) = y /\ z # 0
  BY <1>1, <1>2, <1>3, <1>5
<1> QED BY <1>3, <1>6 DEF Apart

(* Getting one more of a full batch asks for the next one with the last.   *)
LEMMA FilledGet ==
  ASSUME NEW g \in Nat, NEW s \in Nat, NEW q, g < s, Filled(g, s, q)
  PROVE  /\ q = <<>>
         /\ (g + 1) % BatchSize = 0 <=> g + 1 = s
         /\ Filled(g + 1, s, IF g + 1 = s THEN <<NextBatch>> ELSE <<>>)
<1>1. /\ g % BatchSize \in 0 .. BatchSize - 1 /\ BatchSize \in Nat /\ BatchSize > 1
      /\ (g + 1) % BatchSize = IF g % BatchSize = BatchSize - 1 THEN 0 ELSE (g % BatchSize) + 1
  BY Residue
<1>2. s % BatchSize = 0 /\ (g % BatchSize) + (s - g) = BatchSize /\ q = <<>>
  BY DEF Filled
<1>3. PICK x \in Nat, z \in Nat : x = g % BatchSize /\ z = (g + 1) % BatchSize
  BY <1>1
<1>4. CASE g + 1 = s
  <2>1. z = 0
    BY <1>1, <1>2, <1>3, <1>4
  <2> QED BY <1>2, <1>3, <1>4, <2>1 DEF Filled
<1>5. CASE g + 1 # s
  <2>1. z = x + 1
    BY <1>1, <1>2, <1>3, <1>5
  <2>2. z # 0 /\ g + 1 <= s /\ z + (s - (g + 1)) = BatchSize
    BY <1>1, <1>2, <1>3, <1>5, <2>1
  <2> QED BY <1>2, <1>3, <1>5, <2>2 DEF Filled
<1> QED BY <1>4, <1>5

(* The next batch is asked for when all of the last one has come.          *)
LEMMA FilledAsked ==
  ASSUME NEW g \in Nat, NEW s \in Nat, NEW q, q # <<>>, Filled(g, s, q)
  PROVE  g = s /\ q = <<NextBatch>>
BY DEF Filled

(* The next message of the syncer goes to the end of the queue.            *)
LEMMA TrustedAppend ==
  ASSUME NEW q \in Seq(Messages), NEW m \in Messages, NEW r \in Nat, NEW n \in Nat, NEW t, NEW p,
         TrustedFrom(q, r, n, t, p), TrustedMessage(n + 1, m, t, p)
  PROVE  r <= n /\ TrustedFrom(Append(q, m), r, n + 1, t, p)
<1>1. Len(q) = n - r /\ Len(q) \in Nat
  BY DEF TrustedFrom
<1>2. r <= n /\ Len(Append(q, m)) = (n + 1) - r
  BY <1>1
<1>3. ASSUME NEW i \in 1 .. (n + 1) - r
      PROVE  TrustedMessage(r + i, Append(q, m)[i], t, p)
  <2>1. CASE i = (n + 1) - r
    <3>1. r + i = n + 1 /\ Append(q, m)[i] = m
      BY <1>1, <2>1
    <3> QED BY <3>1
  <2>2. CASE i # (n + 1) - r
    <3>1. i \in 1 .. n - r /\ Append(q, m)[i] = q[i]
      BY <1>1, <1>2, <2>2
    <3> QED BY <3>1 DEF TrustedFrom
  <2> QED BY <2>1, <2>2, Zenon
<1> QED BY <1>2, <1>3 DEF TrustedFrom

(* The first message of the queue is the next one the syncee is to get.    *)
LEMMA TrustedTake ==
  ASSUME NEW q \in Seq(Messages), q # <<>>, NEW r \in Nat, NEW n \in Nat, NEW t, NEW p,
         TrustedFrom(q, r, n, t, p)
  PROVE  r < n /\ TrustedMessage(r + 1, Head(q), t, p) /\ TrustedFrom(Tail(q), r + 1, n, t, p)
<1>1. Len(q) = n - r /\ Len(q) \in Nat /\ Len(q) > 0 /\ Len(Tail(q)) = Len(q) - 1 /\ Head(q) = q[1]
      /\ \A i \in 1 .. Len(q) - 1 : Tail(q)[i] = q[i + 1]
  BY QueueTyped DEF TrustedFrom
<1>2. r < n /\ Len(Tail(q)) = n - (r + 1) /\ 1 \in 1 .. n - r
  BY <1>1
<1>3. TrustedMessage(r + 1, Head(q), t, p)
  BY <1>1, <1>2 DEF TrustedFrom
<1>4. ASSUME NEW i \in 1 .. n - (r + 1)
      PROVE  TrustedMessage((r + 1) + i, Tail(q)[i], t, p)
  <2>1. i + 1 \in 1 .. n - r /\ (r + 1) + i = r + (i + 1) /\ Tail(q)[i] = q[i + 1]
    BY <1>1, <1>2
  <2>2. TrustedMessage(r + (i + 1), q[i + 1], t, p)
    BY <2>1, Zenon DEF TrustedFrom
  <2> QED BY <2>1, <2>2, Zenon
<1> QED BY <1>2, <1>3, <1>4 DEF TrustedFrom

(* The syncer's next message, wherever the syncee is.                      *)
LEMMA TrustedMore ==
  ASSUME NEW q \in Seq(Messages), NEW m \in Messages, NEW s \in SynceeStates, NEW n \in Nat, NEW t \in Nat, NEW p,
         TrustedOnTheWay(q, s, n, t, p), TrustedMessage(n + 1, m, t, p), n < t + 3
  PROVE  TrustedOnTheWay(Append(q, m), s, n + 1, t, p)
<1>1. Len(s.got) \in Nat /\ Len(q) \in Nat /\ Len(Append(q, m)) = Len(q) + 1
  BY DEF SynceeStates
<1>2. \A r \in Nat : TrustedFrom(q, r, n, t, p) => TrustedFrom(Append(q, m), r, n + 1, t, p)
  BY TrustedAppend
<1>3. Len(s.got) + 2 \in Nat /\ 0 \in Nat /\ 1 \in Nat
  BY <1>1
<1>4. /\ s.at = "pruningPoints" => Len(s.got) = 0 /\ TrustedFrom(Append(q, m), 0, n + 1, t, p)
      /\ s.at = "trustedData" => Len(s.got) = 0 /\ TrustedFrom(Append(q, m), 1, n + 1, t, p)
      /\ s.at = "trusted" => TrustedFrom(Append(q, m), Len(s.got) + 2, n + 1, t, p) /\ s.batch \in p
  BY <1>2, <1>3 DEF TrustedOnTheWay
<1>5. s.at # "done"
  BY DEF TrustedOnTheWay
<1>6. s.at \in {"otherPruningPoint", "timedOut"} => Len(Append(q, m)) <= (n + 1) - Len(s.got)
  <2>1. s.at \in {"otherPruningPoint", "timedOut"} => Len(q) <= n - Len(s.got)
    BY DEF TrustedOnTheWay
  <2>2. PICK x \in Nat, y \in Nat, z \in Nat : x = Len(q) /\ y = Len(s.got) /\ z = Len(Append(q, m)) /\ z = x + 1
    BY <1>1
  <2>3. x <= n - y => x + 1 <= (n + 1) - y
    OBVIOUS
  <2> QED BY <2>1, <2>2, <2>3, Zenon
<1> QED BY <1>4, <1>5, <1>6, Zenon DEF TrustedOnTheWay

(* A pruning point of the syncer that moves leaves the messages on the way *)
(* as they are.                                                            *)
LEMMA TrustedPoints ==
  ASSUME NEW q, NEW s, NEW n, NEW t, NEW p, NEW more, p \subseteq more, TrustedOnTheWay(q, s, n, t, p)
  PROVE  TrustedOnTheWay(q, s, n, t, more)
<1>1. \A k, m : TrustedMessage(k, m, t, p) => TrustedMessage(k, m, t, more)
  BY DEF TrustedMessage
<1>2. \A r : TrustedFrom(q, r, n, t, p) => TrustedFrom(q, r, n, t, more)
  BY <1>1 DEF TrustedFrom
<1> QED BY <1>2 DEF TrustedOnTheWay

(* The actions that can change the state of a download of the anticone.    *)
LEMMA TrustedActions ==
  ASSUME Types, download = "trusted", TrustedInv, TransferNext
  PROVE  \/ TakeRequest \/ SendTrustedData \/ SendTrustedBlock \/ TakeNext \/ StartDownload
         \/ ReceivePruningPoints \/ ReceiveTrustedData \/ ReceiveTrustedBlock
         \/ TimeOutSyncee /\ syncee.at \in {"pruningPoints", "trustedData", "trusted"}
         \/ PruningPointMoves \/ OtherRequest
<1>1. syncer.at \in {"idle", "busy", "trustedData", "trusted", "waitNext"}
  BY DEF TrustedInv, AtStart
<1>2. ~SendHeaders /\ ~SendUTXOs /\ ~SendBody
  BY <1>1, Zenon DEF SendHeaders, SendUTXOs, SendBody
<1>3. ~RequestBodies /\ ~ReceiveBody /\ ~ReceiveUTXOs
  BY DEF TrustedInv, RequestBodies, ReceiveBody, ReceiveUTXOs
<1>4. ~TimeOutSyncer /\ ~ReceiveHeaders /\ ~PutHeaders /\ ~ProcessHeaders /\ ~EndHeaders
  BY DEF TrustedInv, TimeOutSyncer, ReceiveHeaders, PutHeaders, ProcessHeaders, EndHeaders
<1>5. TimeOutSyncee => syncee.at \in {"pruningPoints", "trustedData", "trusted"}
  BY DEF TrustedInv, TimeOutSyncee
<1> QED BY <1>2, <1>3, <1>4, <1>5 DEF TransferNext, TransferStep

(* The syncer takes the request, or refuses it for being busy.             *)
LEMMA TrustedTakeRequest ==
  ASSUME Types, download = "trusted", TrustedInv, TakeRequest
  PROVE  TrustedInv' /\ syncee' = syncee
<1>1. /\ toSyncer = <<Request>> /\ syncee.at \in {"pruningPoints", "timedOut"}
      /\ toSyncee = <<>> /\ syncer.sent = 0 /\ Got = 0 /\ syncer.at = "idle"
  BY DEF TrustedInv, TakeRequest, AtStart
<1>2. FromSyncee = Request /\ Tail(toSyncer) = <<>>
  BY <1>1, Single DEF FromSyncee
<1>3. FromSyncee.type = "request"
  BY <1>2 DEF Message, Request
<1>4. /\ toSyncer' = <<>> /\ syncee' = syncee /\ items' = items /\ receiver' = receiver /\ headerChan' = headerChan
      /\ proofPP' = proofPP /\ syncerPP' = syncerPP
  BY <1>1, <1>2, <1>3 DEF TakeRequest, SyncerStays
<1>5. Got' = 0
  BY <1>1, <1>4 DEF Got
<1>6. CASE isBusy
  <2>1. syncer' = [syncer EXCEPT !.at = "busy"] /\ toSyncee' = <<>>
    BY <1>1, <1>3, <1>6 DEF TakeRequest
  <2>2. syncer'.at = "busy" /\ syncer'.sent = 0
    BY <1>1, <2>1, Typed DEF SyncerStates
  <2> QED BY <1>1, <1>4, <1>5, <2>1, <2>2, Typed DEF TrustedInv
<1>7. CASE ~isBusy
  <2> DEFINE m == Message("pruningPoints", <<syncerPP>>)
  <2>1. syncer' = [syncer EXCEPT !.at = "trustedData"] /\ toSyncee' = Append(toSyncee, m)
    BY <1>1, <1>3, <1>7 DEF TakeRequest, SendToSyncee
  <2>2. syncer'.at = "trustedData" /\ syncer'.sent = 0
    BY <1>1, <2>1, Typed DEF SyncerStates
  <2>3. m \in Messages
    BY MessageTyped DEF Types, MessageTypes
  <2>4. TrustedMessage(0 + 1, m, items, PruningPoints)
    BY DEF TrustedMessage, Message, PruningPoints
  <2> HIDE DEF m
  <2>5. TrustedOnTheWay(<<>>, syncee, 0, items, PruningPoints)
    BY <1>1 DEF TrustedOnTheWay, TrustedFrom, Got
  <2>6. TrustedOnTheWay(Append(<<>>, m), syncee, 0 + 1, items, PruningPoints)
    <3>1. <<>> \in Seq(Messages) /\ 0 \in Nat /\ 0 < items + 3 /\ items \in Nat
      BY Typed
    <3> QED BY <2>3, <2>4, <2>5, <3>1, Typed, TrustedMore, Zenon
  <2>7. TrustedOnTheWay(toSyncee', syncee', 1, items', PruningPoints')
    <3>1. 0 + 1 = 1 /\ PruningPoints' = PruningPoints
      BY <1>4 DEF PruningPoints
    <3> QED BY <1>1, <1>4, <2>1, <2>6, <3>1
  <2>8. syncer'.at = "trustedData" /\ toSyncer' = <<>> /\ syncer'.sent = 0 /\ Got' = 0 /\ TrustedSent(1)'
    BY <1>4, <1>5, <2>2, <2>7 DEF TrustedSent
  <2> QED BY <1>1, <1>4, <2>8, Typed DEF TrustedInv
<1> QED BY <1>6, <1>7

(* The trusted data follow the pruning points.                             *)
LEMMA TrustedSendData ==
  ASSUME Types, download = "trusted", TrustedInv, SendTrustedData
  PROVE  TrustedInv' /\ syncee' = syncee
<1>1. /\ toSyncer = <<>> /\ syncer.sent = 0 /\ Got = 0 /\ TrustedSent(1) /\ syncer.at = "trustedData" /\ syncee.at # "start"
  BY DEF TrustedInv, SendTrustedData, AtStart
<1> DEFINE m == Message("trustedData", <<syncerPP>>)
<1>2. /\ toSyncer' = <<>> /\ syncee' = syncee /\ items' = items /\ receiver' = receiver /\ headerChan' = headerChan
      /\ proofPP' = proofPP /\ syncerPP' = syncerPP
      /\ syncer' = [syncer EXCEPT !.at = "trusted"] /\ toSyncee' = Append(toSyncee, m)
  BY <1>1 DEF SendTrustedData, SyncerStays, SendToSyncee
<1>3. syncer'.at = "trusted" /\ syncer'.sent = 0 /\ Got' = 0
  BY <1>1, <1>2, Typed DEF SyncerStates, Got
<1>4. m \in Messages
  BY MessageTyped DEF Types, MessageTypes
<1>5. TrustedMessage(1 + 1, m, items, PruningPoints)
  BY DEF TrustedMessage, Message, PruningPoints
<1> HIDE DEF m
<1>6. TrustedOnTheWay(Append(toSyncee, m), syncee, 1 + 1, items, PruningPoints)
  <2>1. TrustedOnTheWay(toSyncee, syncee, 1, items, PruningPoints)
    BY <1>1 DEF TrustedSent
  <2>2. 1 \in Nat /\ 1 < items + 3 /\ items \in Nat
    BY Typed
  <2> QED BY <1>4, <1>5, <2>1, <2>2, Typed, TrustedMore, Zenon
<1>7. TrustedOnTheWay(toSyncee', syncee', syncer'.sent + 2, items', PruningPoints')
  <2>1. 1 + 1 = syncer'.sent + 2 /\ PruningPoints' = PruningPoints
    BY <1>2, <1>3 DEF PruningPoints
  <2> QED BY <1>2, <1>6, <2>1
<1>8. Apart(Got', syncer'.sent)
  BY <1>3, ApartZero
<1> QED BY <1>1, <1>2, <1>3, <1>7, <1>8, Typed DEF TrustedInv, TrustedSent

(* The next block of the anticone, or the end after the last.              *)
LEMMA TrustedSendBlock ==
  ASSUME Types, download = "trusted", TrustedInv, SendTrustedBlock
  PROVE  TrustedInv' /\ syncee' = syncee
<1>1. /\ toSyncer = <<>> /\ Apart(Got, syncer.sent) /\ TrustedSent(syncer.sent + 2) /\ syncer.at = "trusted"
      /\ syncee.at # "start" /\ syncer.sent <= items
  BY DEF TrustedInv, SendTrustedBlock, AtStart
<1>2. /\ toSyncer' = <<>> /\ syncee' = syncee /\ items' = items /\ receiver' = receiver /\ headerChan' = headerChan
      /\ proofPP' = proofPP /\ syncerPP' = syncerPP
  BY <1>1 DEF SendTrustedBlock, SyncerStays
<1>3. Got' = Got /\ PruningPoints' = PruningPoints /\ Got \in Nat /\ syncer.sent \in Nat /\ items \in Nat
  BY <1>2, Typed DEF Got, PruningPoints
<1>4. TrustedOnTheWay(toSyncee, syncee, syncer.sent + 2, items, PruningPoints)
  BY <1>1 DEF TrustedSent
<1>5. ASSUME NEW m \in Messages, TrustedMessage((syncer.sent + 2) + 1, m, items, PruningPoints)
      PROVE  TrustedOnTheWay(Append(toSyncee, m), syncee, (syncer.sent + 2) + 1, items, PruningPoints)
  <2>1. syncer.sent + 2 \in Nat /\ syncer.sent + 2 < items + 3
    BY <1>1, <1>3
  <2> QED BY <1>3, <1>4, <1>5, <2>1, Typed, TrustedMore, Zenon
<1>6. CASE syncer.sent = items
  <2>1. syncer' = [syncer EXCEPT !.at = "idle"] /\ toSyncee' = Append(toSyncee, Done)
    BY <1>6 DEF SendTrustedBlock, SendToSyncee, Done
  <2>2. syncer'.at = "idle" /\ syncer'.sent = items
    BY <1>6, <2>1, Typed DEF SyncerStates
  <2>3. Done \in Messages
    BY MessageTyped DEF Done, MessageTypes
  <2>4. TrustedMessage((syncer.sent + 2) + 1, Done, items, PruningPoints) /\ (syncer.sent + 2) + 1 = items + 3
    BY <1>3, <1>6 DEF TrustedMessage
  <2>5. TrustedOnTheWay(Append(toSyncee, Done), syncee, (syncer.sent + 2) + 1, items, PruningPoints)
    BY <1>5, <2>3, <2>4
  <2>6. TrustedOnTheWay(toSyncee', syncee', items' + 3, items', PruningPoints')
    BY <1>2, <1>3, <2>1, <2>4, <2>5
  <2>7. Apart(Got', items')
    BY <1>1, <1>2, <1>3, <1>6, SMTT(30)
  <2> QED BY <1>1, <1>2, <2>2, <2>6, <2>7, Typed DEF TrustedInv, TrustedSent
<1>7. CASE syncer.sent # items
  <2> DEFINE m == Message("item", <<syncer.sent + 1>>)
             a == IF (syncer.sent + 1) % BatchSize = 0 THEN "waitNext" ELSE "trusted"
  <2>1. syncer' = [syncer EXCEPT !.sent = syncer.sent + 1, !.at = a] /\ toSyncee' = Append(toSyncee, m)
    BY <1>7 DEF SendTrustedBlock, SendToSyncee
  <2>2. syncer'.at = a /\ syncer'.sent = syncer.sent + 1
    BY <2>1, Typed DEF SyncerStates
  <2>3. m \in Messages /\ syncer.sent + 1 \in Nat
    <3>1. syncer.sent + 1 \in Nat
      BY <1>3
    <3> QED BY <3>1, MessageTyped DEF MessageTypes
  <2>4. TrustedMessage((syncer.sent + 2) + 1, m, items, PruningPoints)
    <3>1. (syncer.sent + 2) + 1 # 1 /\ (syncer.sent + 2) + 1 # 2 /\ (syncer.sent + 2) + 1 # items + 3
          /\ ((syncer.sent + 2) + 1) - 2 = syncer.sent + 1
      BY <1>3, <1>7
    <3> QED BY <3>1, Zenon DEF TrustedMessage
  <2> HIDE DEF m
  <2>5. TrustedOnTheWay(Append(toSyncee, m), syncee, (syncer.sent + 2) + 1, items, PruningPoints)
    BY <1>5, <2>3, <2>4
  <2>6. TrustedOnTheWay(toSyncee', syncee', syncer'.sent + 2, items', PruningPoints')
    <3>1. (syncer.sent + 2) + 1 = syncer'.sent + 2
      BY <1>3, <2>2
    <3> QED BY <1>2, <1>3, <2>1, <2>5, <3>1
  <2>7. IF (syncer.sent + 1) % BatchSize = 0 THEN Filled(Got, syncer.sent + 1, <<>>) ELSE Apart(Got, syncer.sent + 1)
    BY <1>1, <1>3, ApartSend
  <2>8. /\ (syncer'.at = "waitNext" /\ Filled(Got', syncer'.sent, toSyncer')) \/ (syncer'.at = "trusted" /\ Apart(Got', syncer'.sent))
        /\ syncer'.sent > 0 /\ syncer'.sent <= items'
    <3>1. syncer'.sent > 0 /\ syncer'.sent <= items'
      BY <1>1, <1>2, <1>3, <1>7, <2>2
    <3>2. CASE (syncer.sent + 1) % BatchSize = 0
      <4>1. syncer'.at = "waitNext"
        BY <2>2, <3>2
      <4>2. Filled(Got, syncer.sent + 1, <<>>)
        BY <2>7, <3>2
      <4>3. toSyncer' = <<>> /\ Got' = Got /\ syncer'.sent = syncer.sent + 1
        BY <1>2, <1>3, <2>2
      <4>4. Filled(Got', syncer'.sent, toSyncer')
        BY <4>2, <4>3
      <4> QED BY <3>1, <4>1, <4>4
    <3>3. CASE (syncer.sent + 1) % BatchSize # 0
      <4>1. syncer'.at = "trusted"
        BY <2>2, <3>3
      <4>2. Apart(Got, syncer.sent + 1)
        BY <2>7, <3>3
      <4> QED BY <1>2, <1>3, <2>2, <3>1, <4>1, <4>2
    <3> QED BY <3>2, <3>3
  <2> QED BY <1>1, <1>2, <2>6, <2>8, Typed DEF TrustedInv, TrustedSent
<1> QED BY <1>6, <1>7

(* The syncer takes the request for the next batch.                        *)
LEMMA TrustedTakeNext ==
  ASSUME Types, download = "trusted", TrustedInv, TakeNext
  PROVE  TrustedInv' /\ syncee' = syncee
<1>1. /\ syncer.at = "waitNext" /\ Filled(Got, syncer.sent, toSyncer) /\ TrustedSent(syncer.sent + 2) /\ syncee.at # "start"
      /\ toSyncer # <<>> /\ syncer.sent \in Nat /\ Got \in Nat
  BY Typed DEF TrustedInv, TakeNext, AtStart, Got
<1>2. Got = syncer.sent /\ toSyncer = <<NextBatch>>
  BY <1>1, FilledAsked
<1>3. FromSyncee = NextBatch /\ Tail(toSyncer) = <<>>
  BY <1>2, Single DEF FromSyncee
<1>4. FromSyncee.type = "next"
  BY <1>3 DEF Message, NextBatch
<1>5. /\ toSyncer' = <<>> /\ toSyncee' = toSyncee /\ syncee' = syncee /\ items' = items
      /\ receiver' = receiver /\ headerChan' = headerChan /\ syncer' = [syncer EXCEPT !.at = "trusted"]
      /\ proofPP' = proofPP /\ syncerPP' = syncerPP
  BY <1>1, <1>3, <1>4 DEF TakeNext, SyncerStays
<1>6. syncer'.at = "trusted" /\ syncer'.sent = syncer.sent /\ Got' = Got /\ PruningPoints' = PruningPoints
  BY <1>5, Typed DEF SyncerStates, Got, PruningPoints
<1>7. Apart(Got', syncer'.sent)
  BY <1>1, <1>2, <1>6, ApartSame
<1>8. TrustedOnTheWay(toSyncee', syncee', syncer'.sent + 2, items', PruningPoints')
  BY <1>1, <1>5, <1>6 DEF TrustedSent
<1> QED BY <1>1, <1>5, <1>6, <1>7, <1>8 DEF TrustedInv, TrustedSent

(* The start of a download of the anticone.                                *)
LEMMA TrustedStart ==
  ASSUME Types, download = "trusted", TrustedInv, StartDownload
  PROVE  TrustedInv' /\ syncee'.got = syncee.got
<1>1. AtStart
  BY DEF TrustedInv, StartDownload
<1>2. /\ toSyncer' = Append(toSyncer, Message("request", <<>>)) /\ syncee' = [syncee EXCEPT !.at = "pruningPoints"]
      /\ receiver' = "none" /\ toSyncee' = <<>> /\ headerChan' = <<>> /\ items' = items /\ syncer' = syncer
  BY <1>1 DEF StartDownload, SendToSyncer, SynceeStays, AtStart
<1>3. syncee'.at = "pruningPoints" /\ syncee'.got = syncee.got
  BY <1>2, Typed DEF SynceeStates
<1>4. toSyncer' = <<Request>> /\ Got' = 0
  BY <1>1, <1>2, <1>3, Single, SMTT(30) DEF Request, AtStart, Got
<1> QED BY <1>1, <1>2, <1>3, <1>4 DEF TrustedInv, AtStart

(* A step of the syncee that keeps what is on the way in accord with what  *)
(* it has keeps the invariant.                                             *)
LEMMA TrustedOthers ==
  ASSUME Types, TrustedInv, download' = download, items' = items, receiver' = receiver, headerChan' = headerChan,
         syncer' = syncer, toSyncer' = toSyncer, Got' = Got, PruningPoints' = PruningPoints,
         syncee.at \in {"pruningPoints", "trustedData", "trusted"},
         syncee'.at \in {"trustedData", "trusted", "otherPruningPoint", "timedOut"},
         syncee'.at = "otherPruningPoint" => syncerPP' # proofPP',
         syncee'.at = "timedOut" \/ toSyncee # <<>>, syncee'.at = "timedOut" => toSyncee' = toSyncee,
         \A n \in Nat : TrustedOnTheWay(toSyncee, syncee, n, items, PruningPoints) =>
                        TrustedOnTheWay(toSyncee', syncee', n, items, PruningPoints)
  PROVE  TrustedInv'
<1>1. syncer.sent + 2 \in Nat /\ items + 3 \in Nat /\ 1 \in Nat
  BY Typed, SMTT(30)
<1>2. /\ TrustedSent(1) => TrustedOnTheWay(toSyncee', syncee', 1, items', PruningPoints')
      /\ TrustedSent(syncer.sent + 2) => TrustedOnTheWay(toSyncee', syncee', syncer'.sent + 2, items', PruningPoints')
      /\ TrustedSent(items + 3) => TrustedOnTheWay(toSyncee', syncee', items' + 3, items', PruningPoints')
  BY <1>1 DEF TrustedSent
<1>3. \/ /\ (syncer.at = "idle" /\ toSyncer = <<Request>>) \/ (syncer.at = "busy" /\ toSyncer = <<>>)
         /\ toSyncee = <<>> /\ syncer.sent = 0 /\ Got = 0
      \/ syncer.at = "trustedData" /\ toSyncer = <<>> /\ syncer.sent = 0 /\ Got = 0 /\ TrustedSent(1)
      \/ syncer.at = "trusted" /\ toSyncer = <<>> /\ Apart(Got, syncer.sent) /\ TrustedSent(syncer.sent + 2)
      \/ syncer.at = "waitNext" /\ syncer.sent > 0 /\ Filled(Got, syncer.sent, toSyncer) /\ TrustedSent(syncer.sent + 2)
      \/ syncer.at = "idle" /\ toSyncer = <<>> /\ syncer.sent = items /\ Apart(Got, items) /\ TrustedSent(items + 3)
  BY DEF TrustedInv
<1>4. items > 0 /\ syncer.sent <= items /\ receiver = "none" /\ headerChan = <<>>
  BY DEF TrustedInv
<1> QED BY <1>2, <1>3, <1>4 DEF TrustedInv, TrustedSent

(* The syncee takes the pruning points.                                    *)
LEMMA TrustedReceivePoints ==
  ASSUME Types, download = "trusted", TrustedInv, ReceivePruningPoints
  PROVE  TrustedInv' /\ syncee'.got = syncee.got
<1>1. /\ syncee.at = "pruningPoints" /\ toSyncee # <<>> /\ toSyncee' = Tail(toSyncee) /\ toSyncer' = toSyncer
      /\ receiver' = receiver /\ headerChan' = headerChan /\ download' = download /\ items' = items
      /\ syncer' = syncer /\ syncerPP' = syncerPP /\ proofPP' = proofPP
  BY DEF ReceivePruningPoints, SynceeStays
<1>2. ASSUME NEW n \in Nat, TrustedOnTheWay(toSyncee, syncee, n, items, PruningPoints)
      PROVE  /\ FromSyncer.type = "pruningPoints" /\ FromSyncer.items \in PruningPoints
             /\ Got = 0 /\ TrustedFrom(Tail(toSyncee), 1, n, items, PruningPoints) /\ 1 <= n
  <2>1. Got = 0 /\ TrustedFrom(toSyncee, 0, n, items, PruningPoints)
    BY <1>1, <1>2 DEF TrustedOnTheWay, Got
  <2>2. 0 < n /\ TrustedMessage(0 + 1, FromSyncer, items, PruningPoints)
        /\ TrustedFrom(Tail(toSyncee), 0 + 1, n, items, PruningPoints)
    <3>1. 0 \in Nat
      OBVIOUS
    <3> QED BY <1>1, <2>1, <3>1, Typed, TrustedTake, Zenon DEF FromSyncer
  <2>3. 0 + 1 = 1
    OBVIOUS
  <2> QED BY <2>1, <2>2, <2>3 DEF TrustedMessage
<1>3. FromSyncer.type = "pruningPoints" /\ FromSyncer.items \in PruningPoints
  <2>1. syncer.sent + 2 \in Nat /\ items + 3 \in Nat /\ 1 \in Nat
    BY Typed, SMTT(30)
  <2> QED BY <1>1, <1>2, <2>1 DEF TrustedInv, TrustedSent
<1>4. PICK a \in {"trustedData", "otherPruningPoint"} :
        /\ syncee' = [syncee EXCEPT !.at = a]
        /\ a = "otherPruningPoint" => FromSyncer.items # <<proofPP>>
  BY <1>3 DEF ReceivePruningPoints
<1>5. syncee'.at = a /\ syncee'.got = syncee.got /\ Got' = Got /\ PruningPoints' = PruningPoints
  BY <1>1, <1>4, Typed DEF SynceeStates, Got, PruningPoints
<1>6. a = "otherPruningPoint" => syncerPP' # proofPP'
  BY <1>1, <1>3, <1>4 DEF PruningPoints
<1>7. ASSUME NEW n \in Nat, TrustedOnTheWay(toSyncee, syncee, n, items, PruningPoints)
      PROVE  TrustedOnTheWay(toSyncee', syncee', n, items, PruningPoints)
  <2>1. Got = 0 /\ TrustedFrom(toSyncee', 1, n, items, PruningPoints) /\ 1 <= n
    BY <1>1, <1>2, <1>7
  <2>2. Len(syncee'.got) = 0
    BY <1>5, <2>1 DEF Got
  <2>3. Len(toSyncee') <= n - 0
    BY <2>1 DEF TrustedFrom
  <2> QED BY <1>5, <2>1, <2>2, <2>3 DEF TrustedOnTheWay
<1>8. TrustedInv'
  <2>1. /\ syncee.at \in {"pruningPoints", "trustedData", "trusted"}
        /\ syncee'.at \in {"trustedData", "trusted", "otherPruningPoint", "timedOut"}
        /\ syncee'.at = "otherPruningPoint" => syncerPP' # proofPP'
        /\ syncee'.at # "timedOut"
    BY <1>1, <1>5, <1>6
  <2>2. \A n \in Nat : TrustedOnTheWay(toSyncee, syncee, n, items, PruningPoints) =>
                       TrustedOnTheWay(toSyncee', syncee', n, items, PruningPoints)
    BY <1>7
  <2> QED BY <1>1, <1>5, <2>1, <2>2, TrustedOthers
<1> QED BY <1>5, <1>8

(* The syncee takes the trusted data.                                      *)
LEMMA TrustedReceiveData ==
  ASSUME Types, download = "trusted", TrustedInv, ReceiveTrustedData
  PROVE  TrustedInv' /\ syncee'.got = syncee.got
<1>1. /\ syncee.at = "trustedData" /\ toSyncee # <<>> /\ toSyncee' = Tail(toSyncee) /\ toSyncer' = toSyncer
      /\ receiver' = receiver /\ headerChan' = headerChan /\ download' = download /\ items' = items
      /\ syncer' = syncer /\ syncerPP' = syncerPP /\ proofPP' = proofPP
  BY DEF ReceiveTrustedData, SynceeStays
<1>2. ASSUME NEW n \in Nat, TrustedOnTheWay(toSyncee, syncee, n, items, PruningPoints)
      PROVE  /\ FromSyncer.type = "trustedData" /\ FromSyncer.items \in PruningPoints
             /\ Got = 0 /\ TrustedFrom(Tail(toSyncee), 2, n, items, PruningPoints)
  <2>1. Got = 0 /\ TrustedFrom(toSyncee, 1, n, items, PruningPoints)
    BY <1>1, <1>2 DEF TrustedOnTheWay, Got
  <2>2. TrustedMessage(1 + 1, FromSyncer, items, PruningPoints)
        /\ TrustedFrom(Tail(toSyncee), 1 + 1, n, items, PruningPoints)
    <3>1. 1 \in Nat
      OBVIOUS
    <3> QED BY <1>1, <2>1, <3>1, Typed, TrustedTake, Zenon DEF FromSyncer
  <2>3. 1 + 1 = 2
    OBVIOUS
  <2> QED BY <2>1, <2>2, <2>3 DEF TrustedMessage
<1>3. FromSyncer.type = "trustedData" /\ FromSyncer.items \in PruningPoints
  <2>1. syncer.sent + 2 \in Nat /\ items + 3 \in Nat /\ 1 \in Nat
    BY Typed
  <2> QED BY <1>1, <1>2, <2>1 DEF TrustedInv, TrustedSent
<1>4. syncee' = [syncee EXCEPT !.at = "trusted", !.batch = FromSyncer.items]
  BY <1>3 DEF ReceiveTrustedData
<1>5. /\ syncee'.at = "trusted" /\ syncee'.got = syncee.got /\ syncee'.batch = FromSyncer.items
      /\ Got' = Got /\ PruningPoints' = PruningPoints
  BY <1>1, <1>4, Typed DEF SynceeStates, Got, PruningPoints
<1>6. ASSUME NEW n \in Nat, TrustedOnTheWay(toSyncee, syncee, n, items, PruningPoints)
      PROVE  TrustedOnTheWay(toSyncee', syncee', n, items, PruningPoints)
  <2>1. Got = 0 /\ TrustedFrom(toSyncee', 2, n, items, PruningPoints)
    BY <1>1, <1>2, <1>6
  <2>2. Len(syncee'.got) + 2 = 2
    BY <1>5, <2>1 DEF Got
  <2> QED BY <1>3, <1>5, <2>1, <2>2 DEF TrustedOnTheWay
<1>7. TrustedInv'
  <2>1. /\ syncee.at \in {"pruningPoints", "trustedData", "trusted"}
        /\ syncee'.at \in {"trustedData", "trusted", "otherPruningPoint", "timedOut"}
        /\ syncee'.at # "otherPruningPoint" /\ syncee'.at # "timedOut"
    BY <1>1, <1>5
  <2>2. \A n \in Nat : TrustedOnTheWay(toSyncee, syncee, n, items, PruningPoints) =>
                       TrustedOnTheWay(toSyncee', syncee', n, items, PruningPoints)
    BY <1>6
  <2> QED BY <1>1, <1>5, <2>1, <2>2, TrustedOthers
<1> QED BY <1>5, <1>7

(* The syncee gives up.                                                    *)
LEMMA TrustedTimeOut ==
  ASSUME Types, download = "trusted", TrustedInv, TimeOutSyncee,
         syncee.at \in {"pruningPoints", "trustedData", "trusted"}
  PROVE  TrustedInv' /\ syncee'.got = syncee.got
<1>1. /\ toSyncee = <<>> /\ toSyncee' = toSyncee /\ toSyncer' = toSyncer
      /\ receiver' = receiver /\ headerChan' = headerChan /\ download' = download /\ items' = items
      /\ syncer' = syncer /\ syncerPP' = syncerPP /\ proofPP' = proofPP
      /\ syncee' = [syncee EXCEPT !.at = "timedOut"]
  BY DEF TimeOutSyncee, SynceeStays, TrustedInv
<1>2. syncee'.at = "timedOut" /\ syncee'.got = syncee.got /\ Got' = Got /\ PruningPoints' = PruningPoints
  BY <1>1, Typed DEF SynceeStates, Got, PruningPoints
<1>3. ASSUME NEW n \in Nat, TrustedOnTheWay(toSyncee, syncee, n, items, PruningPoints)
      PROVE  TrustedOnTheWay(toSyncee', syncee', n, items, PruningPoints)
  <2>1. Len(toSyncee) = 0 /\ Len(syncee.got) \in Nat
    BY <1>1, Typed DEF Got
  <2>2. PICK g \in Nat : g = Len(syncee.got)
    BY <2>1
  <2>3. (0 = n - 0 /\ g = 0) \/ (0 = n - 1 /\ g = 0) \/ 0 = n - (g + 2)
    BY <1>3, <2>1, <2>2 DEF TrustedOnTheWay, TrustedFrom
  <2>4. 0 <= n - g
    BY <2>2, <2>3
  <2> QED BY <1>1, <1>2, <2>1, <2>2, <2>4 DEF TrustedOnTheWay
<1>4. \A n \in Nat : TrustedOnTheWay(toSyncee, syncee, n, items, PruningPoints) =>
                     TrustedOnTheWay(toSyncee', syncee', n, items, PruningPoints)
  BY <1>3
<1>5. TrustedInv'
  <2>1. /\ syncee'.at \in {"trustedData", "trusted", "otherPruningPoint", "timedOut"}
        /\ syncee'.at # "otherPruningPoint" /\ syncee'.at = "timedOut"
    BY <1>2, SMTT(30)
  <2> QED BY <1>1, <1>2, <1>4, <2>1, TrustedOthers
<1> QED BY <1>2, <1>5

(* The syncer's pruning point moves, or another peer's request begins or   *)
(* ends.                                                                   *)
LEMMA TrustedElsewhere ==
  ASSUME Types, download = "trusted", TrustedInv, PruningPointMoves \/ OtherRequest
  PROVE  TrustedInv' /\ syncee' = syncee
<1>1. /\ toSyncee' = toSyncee /\ toSyncer' = toSyncer /\ receiver' = receiver /\ headerChan' = headerChan
      /\ items' = items /\ syncer' = syncer /\ syncee' = syncee /\ proofPP' = proofPP
      /\ syncerPP' = syncerPP \/ (syncerPP = 0 /\ syncerPP' = 1)
  BY DEF PruningPointMoves, OtherRequest
<1>2. PruningPoints \subseteq PruningPoints' /\ Got' = Got
  BY <1>1 DEF PruningPoints, Types, Got
<1>3. \A n : TrustedOnTheWay(toSyncee, syncee, n, items, PruningPoints) =>
             TrustedOnTheWay(toSyncee', syncee', n, items', PruningPoints')
  BY <1>1, <1>2, TrustedPoints
<1>4. /\ TrustedSent(1) => TrustedOnTheWay(toSyncee', syncee', 1, items', PruningPoints')
      /\ TrustedSent(syncer.sent + 2) => TrustedOnTheWay(toSyncee', syncee', syncer'.sent + 2, items', PruningPoints')
      /\ TrustedSent(items + 3) => TrustedOnTheWay(toSyncee', syncee', items' + 3, items', PruningPoints')
  BY <1>1, <1>3 DEF TrustedSent
<1>5. syncerPP # proofPP => syncerPP' # proofPP'
  BY <1>1 DEF Types
<1>6. AtStart => AtStart'
  BY <1>1, <1>2 DEF AtStart
<1> QED BY <1>1, <1>2, <1>4, <1>5, <1>6 DEF TrustedInv, TrustedSent

(* A batch is larger than 1: the first block, which the loop does not      *)
(* count, never completes one.                                             *)
LEMMA FirstResidue ==
  (0 + 1) % BatchSize # 0
<1>1. BatchSize \in Nat /\ BatchSize > 1
  BY TransferAssumption
<1>2. 0 % BatchSize = 0
  BY <1>1
<1>3. (0 + 1) % BatchSize = IF 0 % BatchSize = BatchSize - 1 THEN 0 ELSE (0 % BatchSize) + 1
  <2>1. 0 \in Nat
    OBVIOUS
  <2> QED BY <2>1, Residue, Zenon
<1>4. 0 # BatchSize - 1 /\ (0 % BatchSize) + 1 # 0
  BY <1>1, <1>2
<1> QED BY <1>2, <1>3, <1>4, Zenon

(* The syncee takes a block or the end, and asks for the next batch with   *)
(* the last block of one.                                                  *)
LEMMA TrustedReceiveBlock ==
  ASSUME Types, InOrder, download = "trusted", TrustedInv, ReceiveTrustedBlock
  PROVE  TrustedInv' /\ InOrder'
<1>1. /\ syncee.at = "trusted" /\ toSyncee # <<>> /\ toSyncee' = Tail(toSyncee)
      /\ receiver' = receiver /\ headerChan' = headerChan /\ download' = download /\ items' = items
      /\ syncer' = syncer /\ syncerPP' = syncerPP /\ proofPP' = proofPP /\ PruningPoints' = PruningPoints
  BY DEF ReceiveTrustedBlock, SynceeStays, PruningPoints
<1>2. /\ Got \in Nat /\ items \in Nat /\ syncer.sent \in Nat /\ syncer.sent <= items /\ items > 0
      /\ receiver = "none" /\ headerChan = <<>>
  BY Typed DEF Got, TrustedInv
<1>3. ASSUME NEW n \in Nat, TrustedOnTheWay(toSyncee, syncee, n, items, PruningPoints)
      PROVE  /\ Got + 3 <= n /\ TrustedMessage(Got + 3, FromSyncer, items, PruningPoints)
             /\ TrustedFrom(toSyncee', Got + 3, n, items, PruningPoints) /\ syncee.batch \in PruningPoints
  <2>1. TrustedFrom(toSyncee, Got + 2, n, items, PruningPoints) /\ syncee.batch \in PruningPoints
    BY <1>1, <1>3 DEF TrustedOnTheWay, Got
  <2>2. Got + 2 < n /\ TrustedMessage((Got + 2) + 1, FromSyncer, items, PruningPoints)
        /\ TrustedFrom(Tail(toSyncee), (Got + 2) + 1, n, items, PruningPoints)
    <3>1. Got + 2 \in Nat
      BY <1>2
    <3> QED BY <1>1, <2>1, <3>1, Typed, TrustedTake, Zenon DEF FromSyncer
  <2>3. (Got + 2) + 1 = Got + 3 /\ Got + 3 <= n
    BY <1>2, <2>2
  <2> QED BY <1>1, <2>1, <2>2, <2>3
<1>4. PICK n \in Nat :
        /\ TrustedOnTheWay(toSyncee, syncee, n, items, PruningPoints)
        /\ \/ syncer.at = "trusted" /\ toSyncer = <<>> /\ Apart(Got, syncer.sent) /\ n = syncer.sent + 2
           \/ syncer.at = "waitNext" /\ syncer.sent > 0 /\ Filled(Got, syncer.sent, toSyncer) /\ n = syncer.sent + 2
           \/ syncer.at = "idle" /\ toSyncer = <<>> /\ syncer.sent = items /\ Apart(Got, items) /\ n = items + 3
  <2>1. syncer.sent + 2 \in Nat /\ items + 3 \in Nat /\ 1 \in Nat
    BY <1>2
  <2>2. ~TrustedSent(1)
    <3>1. ASSUME TrustedOnTheWay(toSyncee, syncee, 1, items, PruningPoints)
          PROVE  FALSE
      <4>1. Got + 3 <= 1
        BY <1>3, <2>1, <3>1
      <4> QED BY <1>2, <4>1
    <3> QED BY <3>1 DEF TrustedSent
  <2> QED BY <1>1, <2>1, <2>2 DEF TrustedInv, TrustedSent
<1>5. /\ Got + 3 <= n /\ TrustedMessage(Got + 3, FromSyncer, items, PruningPoints)
      /\ TrustedFrom(toSyncee', Got + 3, n, items, PruningPoints) /\ syncee.batch \in PruningPoints
  BY <1>3, <1>4
<1>6. Got <= items
  BY <1>2, <1>4, <1>5
<1>7. CASE Got = items
  <2>1. FromSyncer = Done
    <3>1. Got + 3 # 1 /\ Got + 3 # 2 /\ Got + 3 = items + 3
      BY <1>2, <1>7
    <3> QED BY <1>5, <3>1, Zenon DEF TrustedMessage
  <2>2. FromSyncer.type = "done" /\ syncee.got # <<>>
    BY <1>2, <1>7, <2>1 DEF Done, Message, Got
  <2>3. syncee' = [syncee EXCEPT !.at = "done"] /\ toSyncer' = toSyncer
    BY <2>2 DEF ReceiveTrustedBlock
  <2>4. syncee'.at = "done" /\ syncee'.got = syncee.got /\ Got' = Got
    BY <2>3, Typed DEF SynceeStates, Got
  <2>5. n = items + 3 /\ syncer.at = "idle" /\ toSyncer = <<>> /\ syncer.sent = items /\ Apart(Got, items)
    BY <1>2, <1>4, <1>5, <1>7
  <2>6. toSyncee' = <<>>
    <3>1. Len(toSyncee') = 0
      BY <1>2, <1>5, <1>7, <2>5 DEF TrustedFrom
    <3>2. toSyncee' \in Seq(Messages)
      BY <1>1, Typed, MessageQueue, SMTT(30)
    <3> QED BY <3>1, <3>2
  <2>7. TrustedOnTheWay(toSyncee', syncee', items' + 3, items', PruningPoints')
    BY <1>1, <1>7, <2>4, <2>5, <2>6 DEF TrustedOnTheWay, Got
  <2>8. InOrder'
    BY <2>4 DEF InOrder
  <2> QED BY <1>1, <1>2, <2>3, <2>4, <2>5, <2>7, <2>8 DEF TrustedInv, TrustedSent
<1>8. CASE Got # items
  <2>1. FromSyncer = Message("item", <<Got + 1>>)
    <3>1. Got + 3 # 1 /\ Got + 3 # 2 /\ Got + 3 # items + 3 /\ (Got + 3) - 2 = Got + 1
      BY <1>2, <1>8
    <3> QED BY <1>5, <3>1, Zenon DEF TrustedMessage
  <2>2. FromSyncer.type = "item" /\ FromSyncer.items = <<Got + 1>>
    BY <2>1 DEF Message
  <2>3. CASE syncee.got = <<>> /\ syncee.batch # <<proofPP>>
    <3>1. syncee' = [syncee EXCEPT !.at = "otherPruningPoint"] /\ toSyncer' = toSyncer
      BY <2>2, <2>3 DEF ReceiveTrustedBlock
    <3>2. syncee'.at = "otherPruningPoint" /\ syncee'.got = syncee.got /\ Got' = Got
      BY <3>1, Typed DEF SynceeStates, Got
    <3>3. syncerPP' # proofPP'
      BY <1>1, <1>5, <2>3 DEF PruningPoints
    <3>4. ASSUME NEW k \in Nat, TrustedOnTheWay(toSyncee, syncee, k, items, PruningPoints)
          PROVE  TrustedOnTheWay(toSyncee', syncee', k, items, PruningPoints)
      <4>1. Got + 3 <= k /\ Len(toSyncee') = k - (Got + 3)
        BY <1>3, <3>4 DEF TrustedFrom
      <4>2. Len(toSyncee') <= k - Got
        BY <1>2, <4>1
      <4>3. Len(syncee'.got) = Got
        BY <3>2 DEF Got
      <4> QED BY <3>2, <4>2, <4>3 DEF TrustedOnTheWay
    <3>5. \A k \in Nat : TrustedOnTheWay(toSyncee, syncee, k, items, PruningPoints) =>
                         TrustedOnTheWay(toSyncee', syncee', k, items, PruningPoints)
      BY <3>4
    <3>6. TrustedInv'
      <4>1. /\ syncee.at \in {"pruningPoints", "trustedData", "trusted"}
            /\ syncee'.at \in {"trustedData", "trusted", "otherPruningPoint", "timedOut"} /\ syncee'.at # "timedOut"
        BY <1>1, <3>2
      <4> QED BY <1>1, <3>1, <3>2, <3>3, <3>5, <4>1, TrustedOthers
    <3> QED BY <3>2, <3>6 DEF InOrder
  <2>4. CASE ~(syncee.got = <<>> /\ syncee.batch # <<proofPP>>)
    <3>1. /\ syncee' = [syncee EXCEPT !.got = syncee.got \o <<Got + 1>>]
          /\ toSyncer' = IF syncee.got # <<>> /\ ((Got - 1) + 2) % BatchSize = 0
                         THEN Append(toSyncer, Message("next", <<>>)) ELSE toSyncer
      BY <2>2, <2>4 DEF ReceiveTrustedBlock, SendToSyncer, Got
    <3>2. /\ syncee'.at = "trusted" /\ syncee'.got = syncee.got \o <<Got + 1>> /\ syncee'.batch = syncee.batch
      BY <1>1, <3>1, Typed, Zenon DEF SynceeStates
    <3>3. Got' = Got + 1
      BY <3>2, Typed DEF Got
    <3>4. InOrder'
      <4>1. Items(Got + 1, Got + 1) = <<Got + 1>>
        BY <1>2, ItemsOne
      <4>2. Items(1, Got) \o Items(Got + 1, Got + 1) = Items(1, Got + 1)
        <5>1. Got + 1 \in Nat /\ Got <= Got + 1
          BY <1>2
        <5> QED BY <1>2, <5>1, ItemsConcat, Zenon
      <4> QED BY <3>2, <3>3, <4>1, <4>2 DEF InOrder
    <3>5. toSyncer' = IF (Got + 1) % BatchSize = 0 THEN Append(toSyncer, NextBatch) ELSE toSyncer
      <4>1. (Got - 1) + 2 = Got + 1
        BY <1>2
      <4>2. syncee.got = <<>> => (Got + 1) % BatchSize # 0
        BY FirstResidue DEF Got
      <4> QED BY <3>1, <4>1, <4>2 DEF NextBatch
    <3>6. TrustedOnTheWay(toSyncee', syncee', n, items', PruningPoints')
      <4>1. Len(syncee'.got) + 2 = Got + 3
        BY <1>2, <3>3 DEF Got
      <4> QED BY <1>1, <1>5, <3>2, <4>1 DEF TrustedOnTheWay
    <3>7. CASE n = syncer.sent + 2
      <4>1. Got < syncer.sent /\ n = syncer'.sent + 2 /\ n # items + 3
        BY <1>1, <1>2, <1>5, <3>7, SMTT(30)
      <4>2. CASE syncer.at = "trusted"
        <5>1. (Got + 1) % BatchSize # 0 /\ Apart(Got + 1, syncer.sent)
          BY <1>2, <1>4, <4>1, <4>2, ApartGet
        <5>2. toSyncer' = <<>> /\ Apart(Got', syncer'.sent)
          BY <1>1, <1>4, <3>3, <3>5, <4>2, <5>1, SMTT(30)
        <5> QED BY <1>1, <1>2, <3>2, <3>4, <3>6, <4>1, <4>2, <5>2, SMTT(30) DEF TrustedInv, TrustedSent
      <4>3. CASE syncer.at = "waitNext"
        <5>1. /\ toSyncer = <<>> /\ ((Got + 1) % BatchSize = 0 <=> Got + 1 = syncer.sent)
              /\ Filled(Got + 1, syncer.sent, IF Got + 1 = syncer.sent THEN <<NextBatch>> ELSE <<>>)
          BY <1>2, <1>4, <4>1, <4>3, FilledGet
        <5>2. toSyncer' = IF Got + 1 = syncer.sent THEN <<NextBatch>> ELSE <<>>
          <6>1. toSyncer' = IF Got + 1 = syncer.sent THEN Append(<<>>, NextBatch) ELSE <<>>
            BY <3>5, <5>1
          <6> QED BY <6>1, Single
        <5>3. Filled(Got', syncer'.sent, toSyncer')
          BY <1>1, <3>3, <5>1, <5>2
        <5>4. syncer'.sent > 0
          BY <1>1, <1>2, <4>1, SMTT(30)
        <5> QED BY <1>1, <1>2, <3>2, <3>4, <3>6, <4>1, <4>3, <5>3, <5>4, SMTT(30) DEF TrustedInv, TrustedSent
      <4> QED BY <1>4, <4>1, <4>2, <4>3
    <3>8. CASE n = items + 3
      <4>1. /\ syncer.at = "idle" /\ toSyncer = <<>> /\ syncer.sent = items /\ Apart(Got, items) /\ Got < items
        BY <1>2, <1>4, <1>6, <1>8, <3>8
      <4>2. (Got + 1) % BatchSize # 0 /\ Apart(Got + 1, items)
        BY <1>2, <4>1, ApartGet
      <4>3. toSyncer' = <<>> /\ Apart(Got', items')
        BY <1>1, <3>3, <3>5, <4>1, <4>2
      <4> QED BY <1>1, <1>2, <3>2, <3>4, <3>6, <3>8, <4>1, <4>3, SMTT(30) DEF TrustedInv, TrustedSent
    <3> QED BY <1>4, <3>7, <3>8
  <2> QED BY <2>3, <2>4
<1> QED BY <1>7, <1>8

(* The invariant of the anticone is inductive.                             *)
LEMMA TrustedStep ==
  ASSUME Types, InOrder, download = "trusted", TrustedInv, TransferNext
  PROVE  TrustedInv' /\ InOrder'
<1>1. CASE TakeRequest \/ SendTrustedData \/ SendTrustedBlock \/ TakeNext \/ PruningPointMoves \/ OtherRequest
  BY <1>1, TrustedTakeRequest, TrustedSendData, TrustedSendBlock, TrustedTakeNext, TrustedElsewhere DEF InOrder, Got
<1>2. CASE \/ StartDownload \/ ReceivePruningPoints \/ ReceiveTrustedData
           \/ TimeOutSyncee /\ syncee.at \in {"pruningPoints", "trustedData", "trusted"}
  BY <1>2, TrustedStart, TrustedReceivePoints, TrustedReceiveData, TrustedTimeOut DEF InOrder, Got
<1>3. CASE ReceiveTrustedBlock
  BY <1>3, TrustedReceiveBlock
<1> QED BY <1>1, <1>2, <1>3, TrustedActions
=============================================================================
