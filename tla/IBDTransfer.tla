---------------------------- MODULE IBDTransfer ----------------------------
(* The four downloads of an IBD between a syncee and an honest syncer: the *)
(* headers, the pruning point with its anticone, the UTXO set of the       *)
(* pruning point and the missing bodies.  In each of them the syncer sends *)
(* a batch of messages and waits until the syncee asks for the next one;   *)
(* the two count the batches on their own.  The items of a download are    *)
(* numbered in the order in which they are to arrive.                      *)
EXTENDS Naturals, Sequences

CONSTANTS
  Downloads,        \* of "headers", "trusted", "utxos" and "bodies"
  MaxItems,
  BatchSize,        \* ibdBatchSize
  ChunkSize,        \* UTXOs in a chunk (step), headers in a message (maxBlocks)
  HeaderQueue       \* capacity of blockHeadersMessageChan

ASSUME TransferAssumption ==
  /\ Downloads \subseteq {"headers", "trusted", "utxos", "bodies"}
  /\ MaxItems \in Nat /\ BatchSize \in Nat /\ BatchSize > 1
  /\ ChunkSize \in Nat \ {0} /\ HeaderQueue \in Nat \ {0}

VARIABLES
  download, items,  \* which, and how many items the syncer has
  slow,             \* whether an answer may take too long
  toSyncer, toSyncee,
  syncer,           \* [at, sent, chunks, batch]
  syncee,           \* [at, got, chunks, batch]
  receiver,         \* the goroutine that receives headers
  headerChan,       \* blockHeadersMessageChan
  isBusy,           \* shared by all flows that send a pruning point's anticone
  syncerPP, proofPP \* whether the syncer's pruning point has moved since the
                    \* proof was sent: 0 or 1

transferVars == <<download, items, slow, toSyncer, toSyncee, syncer, syncee, receiver, headerChan, isBusy, syncerPP, proofPP>>

Message(t, its) == [type |-> t, items |-> its]
Items(from, to) == [i \in 1 .. to - from + 1 |-> from + i - 1]
LeastOf(a, b) == IF a < b THEN a ELSE b

TransferInit ==
  /\ download \in Downloads /\ slow \in BOOLEAN
  /\ items \in (IF download = "utxos" THEN 0 ELSE 1) .. MaxItems
  /\ toSyncer = <<>> /\ toSyncee = <<>>
  /\ syncer = [at |-> "idle", sent |-> 0, chunks |-> 0, batch |-> <<>>]
  /\ syncee = [at |-> "start", got |-> <<>>, chunks |-> 0, batch |-> <<>>]
  /\ receiver = "none" /\ headerChan = <<>>
  /\ isBusy = FALSE /\ syncerPP = 0 /\ proofPP = 0

SendToSyncee(m) == toSyncee' = Append(toSyncee, m)
SendToSyncer(m) == toSyncer' = Append(toSyncer, m)
FromSyncer == Head(toSyncee)
FromSyncee == Head(toSyncer)

(* The virtual of the syncer goes on, and with it its pruning point.       *)
PruningPointMoves ==
  /\ download \in {"trusted", "utxos"} /\ syncerPP = 0
  /\ syncerPP' = 1
  /\ UNCHANGED <<download, items, slow, toSyncer, toSyncee, syncer, syncee, receiver, headerChan, isBusy, proofPP>>

(* Another peer's request for an anticone, and the end of it.              *)
OtherRequest ==
  /\ download = "trusted" /\ syncer.at = "idle"
  /\ isBusy' = ~isBusy
  /\ UNCHANGED <<download, items, slow, toSyncer, toSyncee, syncer, syncee, receiver, headerChan, syncerPP, proofPP>>

-----------------------------------------------------------------------------
(* The syncer.                                                             *)
SyncerStays == UNCHANGED <<download, items, slow, syncee, receiver, headerChan, syncerPP, proofPP>>

(* A request; anything else ends the flow with a protocol error.           *)
TakeRequest ==
  /\ syncer.at = "idle" /\ toSyncer # <<>>
  /\ toSyncer' = Tail(toSyncer)
  /\ IF FromSyncee.type # "request" THEN syncer' = [syncer EXCEPT !.at = "unexpected"] /\ UNCHANGED <<toSyncee, isBusy>>
     ELSE IF download = "trusted"
     THEN IF isBusy THEN syncer' = [syncer EXCEPT !.at = "busy"] /\ UNCHANGED <<toSyncee, isBusy>>
          ELSE /\ isBusy' = TRUE /\ syncer' = [syncer EXCEPT !.at = "trustedData"]
               /\ SendToSyncee(Message("pruningPoints", <<syncerPP>>))
     ELSE /\ syncer' = IF download = "bodies"
                       THEN [syncer EXCEPT !.at = "bodies", !.batch = FromSyncee.items]
                       ELSE [syncer EXCEPT !.at = download]
          /\ UNCHANGED <<toSyncee, isBusy>>
  /\ SyncerStays

(* HandleRequestHeaders: one message of headers at a time, as many as fit  *)
(* with whole merge sets.                                                  *)
SendHeaders ==
  /\ syncer.at = "headers"
  /\ IF syncer.sent = items
     THEN SendToSyncee(Message("done", <<>>)) /\ syncer' = [syncer EXCEPT !.at = "idle"]
     ELSE \E n \in 1 .. LeastOf(ChunkSize, items - syncer.sent) :
            /\ SendToSyncee(Message("item", Items(syncer.sent + 1, syncer.sent + n)))
            /\ syncer' = [syncer EXCEPT !.sent = @ + n, !.at = "waitNext"]
  /\ UNCHANGED <<toSyncer, isBusy>> /\ SyncerStays

(* HandlePruningPointAndItsAnticoneRequests: the list of pruning points is *)
(* sent before the anticone is read; the first block is the pruning point. *)
SendTrustedData ==
  /\ syncer.at = "trustedData"
  /\ SendToSyncee(Message("trustedData", <<syncerPP>>))
  /\ syncer' = [syncer EXCEPT !.at = "trusted"]
  /\ UNCHANGED <<toSyncer, isBusy>> /\ SyncerStays

SendTrustedBlock ==
  /\ syncer.at = "trusted"
  /\ IF syncer.sent = items
     THEN SendToSyncee(Message("done", <<>>)) /\ syncer' = [syncer EXCEPT !.at = "idle"] /\ isBusy' = FALSE
     ELSE /\ SendToSyncee(Message("item", <<syncer.sent + 1>>))
          /\ syncer' = [syncer EXCEPT !.sent = @ + 1,
                          !.at = IF (syncer.sent + 1) % BatchSize = 0 THEN "waitNext" ELSE "trusted"]
          /\ UNCHANGED isBusy
  /\ UNCHANGED toSyncer /\ SyncerStays

(* sendPruningPointUTXOSet: a chunk that is not full is the last one.  It  *)
(* is followed by the end, at once or after the batch it completes; chunks *)
(* counts those before it, so a last chunk that completes a batch is       *)
(* followed by the end and by the syncee's request for the next batch.     *)
SendUTXOs ==
  /\ syncer.at = "utxos"
  /\ LET to == LeastOf(syncer.sent + ChunkSize, items)
         chunk == Message("item", Items(syncer.sent + 1, to))
         finished == to - syncer.sent < ChunkSize
     IN IF syncerPP # proofPP
        THEN SendToSyncee(Message("unexpectedPruningPoint", <<>>)) /\ syncer' = [syncer EXCEPT !.at = "idle"]
        ELSE IF finished /\ syncer.chunks % BatchSize # 0
        THEN /\ toSyncee' = toSyncee \o <<chunk, Message("done", <<>>)>>
             /\ syncer' = [syncer EXCEPT !.sent = to, !.at = "idle"]
        ELSE /\ SendToSyncee(chunk)
             /\ syncer' = [syncer EXCEPT !.sent = to, !.chunks = @ + 1,
                           !.at = IF (syncer.chunks + 1) % BatchSize # 0 THEN "utxos"
                                  ELSE IF finished THEN "waitLast" ELSE "waitNext"]
  /\ UNCHANGED <<toSyncer, isBusy>> /\ SyncerStays

(* The syncee's request for the next batch.                                *)
TakeNext ==
  /\ syncer.at \in {"waitNext", "waitLast"} /\ toSyncer # <<>>
  /\ toSyncer' = Tail(toSyncer)
  /\ IF FromSyncee.type # "next"
     THEN syncer' = [syncer EXCEPT !.at = "unexpected"] /\ isBusy' = FALSE /\ UNCHANGED toSyncee
     ELSE IF syncer.at = "waitLast"
     THEN SendToSyncee(Message("done", <<>>)) /\ syncer' = [syncer EXCEPT !.at = "idle"] /\ UNCHANGED isBusy
     ELSE syncer' = [syncer EXCEPT !.at = download] /\ UNCHANGED <<toSyncee, isBusy>>
  /\ SyncerStays

(* Only the sender of UTXOs waits for the syncee with a timeout.           *)
TimeOutSyncer ==
  /\ slow /\ download = "utxos" /\ syncer.at \in {"waitNext", "waitLast"} /\ toSyncer = <<>>
  /\ syncer' = [syncer EXCEPT !.at = "timedOut"]
  /\ UNCHANGED <<toSyncer, toSyncee, isBusy>> /\ SyncerStays

(* HandleIBDBlockRequests: the blocks that were asked for.                 *)
SendBody ==
  /\ syncer.at = "bodies"
  /\ IF syncer.batch = <<>> THEN syncer' = [syncer EXCEPT !.at = "idle"] /\ UNCHANGED toSyncee
     ELSE /\ SendToSyncee(Message("item", <<Head(syncer.batch)>>))
          /\ syncer' = [syncer EXCEPT !.batch = Tail(@)]
  /\ UNCHANGED <<toSyncer, isBusy>> /\ SyncerStays

-----------------------------------------------------------------------------
(* The syncee.                                                             *)
SynceeStays == UNCHANGED <<download, items, slow, syncer, isBusy, syncerPP, proofPP>>

(* The request that starts the download; the list of missing bodies is     *)
(* known to the syncee, and requested a batch at a time.                   *)
StartDownload ==
  /\ syncee.at = "start"
  /\ IF download = "bodies"
     THEN /\ syncee' = [syncee EXCEPT !.at = "bodies"] /\ UNCHANGED <<toSyncer, receiver>>
     ELSE /\ SendToSyncer(Message("request", <<>>))
          /\ syncee' = [syncee EXCEPT !.at = IF download = "trusted" THEN "pruningPoints" ELSE download]
          /\ receiver' = IF download = "headers" THEN "receive" ELSE "none"
  /\ UNCHANGED <<toSyncee, headerChan>> /\ SynceeStays

(* syncMissingBlockBodies.                                                 *)
RequestBodies ==
  /\ syncee.at = "bodies"
  /\ IF Len(syncee.got) = items THEN syncee' = [syncee EXCEPT !.at = "done"] /\ UNCHANGED toSyncer
     ELSE LET to == LeastOf(Len(syncee.got) + BatchSize, items)
          IN /\ SendToSyncer(Message("request", Items(Len(syncee.got) + 1, to)))
             /\ syncee' = [syncee EXCEPT !.at = "receiveBodies", !.chunks = to]
  /\ UNCHANGED <<toSyncee, receiver, headerChan>> /\ SynceeStays

ReceiveBody ==
  /\ syncee.at = "receiveBodies" /\ toSyncee # <<>>
  /\ toSyncee' = Tail(toSyncee)
  /\ syncee' = IF FromSyncer.type # "item" \/ FromSyncer.items # <<Len(syncee.got) + 1>>
               THEN [syncee EXCEPT !.at = "unexpected"]
               ELSE [syncee EXCEPT !.got = @ \o FromSyncer.items,
                       !.at = IF Len(syncee.got) + 1 = syncee.chunks THEN "bodies" ELSE "receiveBodies"]
  /\ UNCHANGED <<toSyncer, receiver, headerChan>> /\ SynceeStays

(* syncPruningPointsAndPruningPointAnticone: the last of the pruning       *)
(* points and the first block must be the pruning point of the proof.      *)
ReceivePruningPoints ==
  /\ syncee.at = "pruningPoints" /\ toSyncee # <<>>
  /\ toSyncee' = Tail(toSyncee)
  /\ syncee' = [syncee EXCEPT !.at = IF FromSyncer.type # "pruningPoints" THEN "unexpected"
                                     ELSE IF FromSyncer.items # <<proofPP>> THEN "otherPruningPoint"
                                     ELSE "trustedData"]
  /\ UNCHANGED <<toSyncer, receiver, headerChan>> /\ SynceeStays

ReceiveTrustedData ==
  /\ syncee.at = "trustedData" /\ toSyncee # <<>>
  /\ toSyncee' = Tail(toSyncee)
  /\ syncee' = IF FromSyncer.type # "trustedData" THEN [syncee EXCEPT !.at = "unexpected"]
               ELSE [syncee EXCEPT !.at = "trusted", !.batch = FromSyncer.items]
  /\ UNCHANGED <<toSyncer, receiver, headerChan>> /\ SynceeStays

(* The first block must be the pruning point of the proof: batch tells     *)
(* whose data these are.  It is received before the loop that counts from  *)
(* 0: the block of turn i is the i+2nd.                                    *)
ReceiveTrustedBlock ==
  /\ syncee.at = "trusted" /\ toSyncee # <<>>
  /\ toSyncee' = Tail(toSyncee)
  /\ LET first == syncee.got = <<>>
         turn == Len(syncee.got) - 1
     IN IF FromSyncer.type = "done"
        THEN /\ syncee' = [syncee EXCEPT !.at = IF first THEN "unexpected" ELSE "done"]
             /\ UNCHANGED toSyncer
        ELSE IF FromSyncer.type # "item" THEN syncee' = [syncee EXCEPT !.at = "unexpected"] /\ UNCHANGED toSyncer
        ELSE IF first /\ syncee.batch # <<proofPP>>
        THEN syncee' = [syncee EXCEPT !.at = "otherPruningPoint"] /\ UNCHANGED toSyncer
        ELSE /\ syncee' = [syncee EXCEPT !.got = @ \o FromSyncer.items]
             /\ IF ~first /\ (turn + 2) % BatchSize = 0 THEN SendToSyncer(Message("next", <<>>))
                ELSE UNCHANGED toSyncer
  /\ UNCHANGED <<receiver, headerChan>> /\ SynceeStays

(* receiveAndInsertPruningPointUTXOSet.                                    *)
ReceiveUTXOs ==
  /\ syncee.at = "utxos" /\ toSyncee # <<>>
  /\ toSyncee' = Tail(toSyncee)
  /\ IF FromSyncer.type = "item"
     THEN /\ syncee' = [syncee EXCEPT !.got = @ \o FromSyncer.items, !.chunks = @ + 1]
          /\ IF (syncee.chunks + 1) % BatchSize = 0 THEN SendToSyncer(Message("next", <<>>))
             ELSE UNCHANGED toSyncer
     ELSE /\ syncee' = [syncee EXCEPT !.at = IF FromSyncer.type = "done" THEN "done"
                                             ELSE IF FromSyncer.type = "unexpectedPruningPoint" THEN "aborted"
                                             ELSE "unexpected"]
          /\ UNCHANGED toSyncer
  /\ UNCHANGED <<receiver, headerChan>> /\ SynceeStays

(* syncPruningPointFutureHeaders.  The receiver puts a message in the      *)
(* channel and asks for the next one; the flow processes what is in it.    *)
ReceiveHeaders ==
  /\ receiver = "receive" /\ toSyncee # <<>>
  /\ toSyncee' = Tail(toSyncee)
  /\ receiver' = IF FromSyncer.type = "done" THEN "closed"
                 ELSE IF FromSyncer.type = "item" /\ FromSyncer.items # <<>> THEN "put" ELSE "error"
  /\ syncee' = IF FromSyncer.type = "item" THEN [syncee EXCEPT !.batch = FromSyncer.items] ELSE syncee
  /\ UNCHANGED <<toSyncer, headerChan>> /\ SynceeStays

(* Mutant: the next message is asked for before there is room for this one, by
   a goroutine that does not wait for the channel. *)
PutHeadersWithoutRoom ==
  /\ receiver = "put"
  /\ headerChan' = IF Len(headerChan) < HeaderQueue THEN Append(headerChan, syncee.batch) ELSE headerChan
  /\ SendToSyncer(Message("next", <<>>))
  /\ receiver' = "receive"
  /\ UNCHANGED <<toSyncee, syncee>> /\ SynceeStays

PutHeaders ==
  /\ receiver = "put" /\ Len(headerChan) < HeaderQueue
  /\ headerChan' = Append(headerChan, syncee.batch)
  /\ SendToSyncer(Message("next", <<>>))
  /\ receiver' = "receive"
  /\ UNCHANGED <<toSyncee, syncee>> /\ SynceeStays

ProcessHeaders ==
  /\ syncee.at = "headers" /\ headerChan # <<>>
  /\ syncee' = [syncee EXCEPT !.got = @ \o Head(headerChan)]
  /\ headerChan' = Tail(headerChan)
  /\ UNCHANGED <<toSyncer, toSyncee, receiver>> /\ SynceeStays

(* The channel is empty and closed, or the receiver has an error to give.  *)
EndHeaders ==
  /\ syncee.at = "headers"
  /\ \/ receiver = "closed" /\ headerChan = <<>> /\ syncee' = [syncee EXCEPT !.at = "done"] /\ UNCHANGED receiver
     \/ receiver = "error" /\ syncee' = [syncee EXCEPT !.at = "timedOut"] /\ receiver' = "closed"
  /\ UNCHANGED <<toSyncer, toSyncee, headerChan>> /\ SynceeStays

(* DequeueWithTimeout: nothing came in time.                               *)
TimeOutSyncee ==
  /\ slow /\ toSyncee = <<>>
  /\ \/ /\ syncee.at \in {"receiveBodies", "pruningPoints", "trustedData", "trusted", "utxos"}
        /\ syncee' = [syncee EXCEPT !.at = "timedOut"] /\ UNCHANGED receiver
     \/ receiver = "receive" /\ receiver' = "error" /\ UNCHANGED syncee
  /\ UNCHANGED <<toSyncer, toSyncee, headerChan>> /\ SynceeStays

-----------------------------------------------------------------------------
(* The download is over, or the syncer refused it for being busy or gave   *)
(* it up, and closes the connection.                                       *)
TransferEnded ==
  syncee.at \in {"done", "aborted", "unexpected", "otherPruningPoint", "timedOut"} \/ syncer.at \in {"busy", "timedOut"}

TransferStep ==
  \/ TakeRequest \/ SendHeaders \/ SendTrustedData \/ SendTrustedBlock \/ SendUTXOs \/ TakeNext \/ SendBody
  \/ StartDownload \/ RequestBodies \/ ReceiveBody \/ ReceivePruningPoints \/ ReceiveTrustedData
  \/ ReceiveTrustedBlock \/ ReceiveUTXOs \/ ReceiveHeaders \/ PutHeaders \/ ProcessHeaders \/ EndHeaders
TransferNext == TransferStep \/ TimeOutSyncee \/ TimeOutSyncer \/ PruningPointMoves \/ OtherRequest

(* Both nodes go on, and a message that was sent arrives.                  *)
TransferSpec == TransferInit /\ [][TransferNext]_transferVars /\ WF_transferVars(TransferStep)

-----------------------------------------------------------------------------
(* Nothing is lost, doubled or out of place: the syncee has the first items *)
(* in their order, and all of them when it takes the download for done,     *)
(* whatever the sizes of the last chunk and the last batch.                 *)
TransferExact ==
  /\ syncee.got = Items(1, Len(syncee.got))
  /\ syncee.at = "done" => Len(syncee.got) = items

(* The batches keep what is on the way below the capacity of a route: a     *)
(* batch, and the two messages that come before the first block.            *)
BatchesBounded == Len(toSyncee) <= BatchSize + 2 /\ Len(toSyncer) <= 1

(* The last chunk of UTXOs: the first that is not full, or an empty one     *)
(* after it if it begins a batch.                                           *)
LastChunk ==
  LET short == items \div ChunkSize + 1
  IN IF (short - 1) % BatchSize = 0 THEN short + 1 ELSE short

(* The two count alike: neither gets a message it does not expect.  The one *)
(* exception is the request for another batch of UTXOs after a last chunk   *)
(* that completes a batch.  And the syncee refuses what an honest syncer    *)
(* sends only if the pruning point has moved since the proof.               *)
CountsAgree ==
  /\ syncee.at # "unexpected"
  /\ syncer.at = "unexpected" => download = "utxos" /\ LastChunk % BatchSize = 0
  /\ syncee.at = "otherPruningPoint" => syncerPP # proofPP

(* The downloads arrive complete and in order, within the capacity of a    *)
(* route and with counts on which both sides agree.                        *)
TransferCorrect == TransferExact /\ BatchesBounded /\ CountsAgree
=============================================================================
