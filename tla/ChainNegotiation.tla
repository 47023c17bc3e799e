-------------------------- MODULE ChainNegotiation --------------------------
(* The first step of an IBD (negotiateMissingSyncerChainSegment): by asking *)
(* for locators of ever shorter segments of the syncer's headers selected   *)
(* chain, the syncee finds the highest block of that chain that it knows.   *)
(* Meanwhile the syncer's chain grows and reorganises, and the syncee gets  *)
(* blocks from other peers.                                                 *)
EXTENDS HeadersSelectedChain

CONSTANTS
  ChainData,       \* the syncer's blocks: selected parent and blue score
  Root,            \* the pruning point of the syncer
  InitialTip,      \* its headers selected tip when the syncee connects
  SynceeTips,      \* tips of the syncee: it knows their chains
  SynceePruningPoints,
  Learnable,       \* blocks the syncee may get from other peers meanwhile
  Signalling,      \* TRUE: a syncer that signals a change with an empty locator,
                   \* as the syncee expects; FALSE: the syncer of this code
  NoHash,
  MaxChanges,      \* changes of the syncer's chain
  MaxRestarts      \* restarts of the syncee, 32 in the code

VARIABLES
  signalling,
  headersTip,      \* of the syncer
  chainStore,      \* its headers selected chain store
  changes,
  known,           \* the blocks of the syncee
  synceePP,
  negotiation      \* the syncee's flow, and the message it waits for

negotiationVars == <<signalling, headersTip, chainStore, changes, known, synceePP, negotiation>>

ChainsOf(tips) == UNION {ChainOf(ChainData, t) : t \in tips}

NegotiationInit ==
  /\ signalling \in Signalling /\ headersTip = InitialTip /\ changes = 0
  /\ chainStore = StageChain(StageChain(EmptyChainStore, [removed |-> <<>>, added |-> <<Root>>]),
                              CalculateChainPath(ChainData, Root, InitialTip))
  /\ known \in {ChainsOf(tips) : tips \in SynceeTips} /\ synceePP \in SynceePruningPoints
  /\ negotiation = [at |-> "ask", high |-> NoHash, low |-> NoHash, locator |-> <<>>,
                    tip |-> NoHash, zooms |-> 0, initial |-> 0, restarts |-> 0,
                    knew |-> known]

(* AddHeaderTip: a header with more blue work becomes the selected tip.    *)
AddHeaderTip(t) ==
  /\ changes < MaxChanges /\ ChainData[t].blueScore > ChainData[headersTip].blueScore
  /\ headersTip' = t /\ changes' = changes + 1
  /\ chainStore' = StageChain(chainStore, CalculateChainPath(ChainData, headersTip, t))
  /\ UNCHANGED <<signalling, known, synceePP, negotiation>>

(* The syncee gets a block of the syncer from somebody else.               *)
Learn(b) ==
  /\ b \in Learnable \ known /\ ChainData[b].selectedParent \in known
  /\ known' = known \cup {b}
  /\ UNCHANGED <<signalling, headersTip, chainStore, changes, synceePP, negotiation>>

-----------------------------------------------------------------------------
(* HandleRequestIBDChainBlockLocator, on the syncer: the whole chain, or    *)
(* the segment between two blocks of it.  A block that is not in the chain  *)
(* is answered by a banning error, because the test for the error that is   *)
(* to be signalled has its arguments the wrong way round.                   *)
AnswerLocator ==
  /\ negotiation.at = "ask"
  /\ LET full == negotiation.high = NoHash
         inChain == {negotiation.low, negotiation.high} \subseteq DOMAIN chainStore.byHash
         locator == IF full THEN createHeadersSelectedChainBlockLocator(chainStore, Root, headersTip)
                    ELSE IF inChain THEN createHeadersSelectedChainBlockLocator(chainStore, negotiation.low, negotiation.high)
                    ELSE <<>>
     IN negotiation' = IF full \/ inChain \/ signalling
                       THEN [negotiation EXCEPT !.at = "got", !.locator = locator]
                       ELSE [negotiation EXCEPT !.at = "bannedBySyncer"]
  /\ UNCHANGED <<signalling, headersTip, chainStore, changes, known, synceePP>>

(* A locator for the whole chain: the first one, and one after a restart.  *)
ReceiveFullLocator ==
  /\ negotiation.at = "got" /\ negotiation.high = NoHash
  /\ negotiation' = [negotiation EXCEPT !.at = "examine", !.initial = Len(negotiation.locator),
                                        !.tip = negotiation.locator[1]]
  /\ UNCHANGED <<signalling, headersTip, chainStore, changes, known, synceePP>>

(* An empty locator: the chain has changed, and the search starts again.   *)
Restart ==
  /\ negotiation.at = "got" /\ negotiation.high # NoHash /\ negotiation.locator = <<>>
  /\ negotiation' = [negotiation EXCEPT !.zooms = 0, !.restarts = @ + 1, !.high = NoHash, !.low = NoHash,
                       !.at = IF negotiation.restarts + 1 > MaxRestarts THEN "gaveUp" ELSE "ask"]
  /\ UNCHANGED <<signalling, headersTip, chainStore, changes, known, synceePP>>

(* A locator of the segment asked for; two entries are neighbours in the   *)
(* chain, and the search is over.                                          *)
ReceiveZoomedLocator ==
  /\ negotiation.at = "got" /\ negotiation.high # NoHash /\ negotiation.locator # <<>>
  /\ LET zooms == negotiation.zooms + 1
     IN negotiation' = [negotiation EXCEPT !.zooms = zooms,
          !.at = IF ~(Head(negotiation.locator) = negotiation.high /\ Last(negotiation.locator) = negotiation.low)
                 THEN "badBounds"
                 ELSE IF Len(negotiation.locator) = 2 THEN "found"
                 ELSE IF zooms > negotiation.initial * 2 THEN "tooManyZooms"
                 ELSE "examine"]
  /\ UNCHANGED <<signalling, headersTip, chainStore, changes, known, synceePP>>

(* A block counts as known if the syncee's pruning point is in its chain.  *)
IsShared(b) == b \in known /\ IsInSelectedParentChainOf(ChainData, synceePP, b)


(* From the high end of the locator to the first known block: the search   *)
(* goes on between it and the entry above it, if there is such an entry.   *)
Examine ==
  /\ negotiation.at = "examine"
  /\ LET shared == {i \in DOMAIN negotiation.locator : IsShared(negotiation.locator[i])}
         first == CHOOSE i \in shared : \A j \in shared : i <= j
     IN negotiation' =
          IF shared = {} THEN [negotiation EXCEPT !.at = "found", !.low = NoHash]
          ELSE IF first = 1 THEN [negotiation EXCEPT !.at = "found", !.low = negotiation.locator[1]]
          ELSE [negotiation EXCEPT !.at = "ask", !.high = negotiation.locator[first - 1],
                                   !.low = negotiation.locator[first]]
  /\ UNCHANGED <<signalling, headersTip, chainStore, changes, known, synceePP>>

NegotiationStep == AnswerLocator \/ ReceiveFullLocator \/ Restart \/ ReceiveZoomedLocator \/ Examine

NegotiationNext ==
  \/ NegotiationStep
  \/ \E b \in DOMAIN ChainData : AddHeaderTip(b) \/ Learn(b)

NegotiationSpec == NegotiationInit /\ [][NegotiationNext]_negotiationVars /\ WF_negotiationVars(NegotiationStep)

-----------------------------------------------------------------------------
(* The syncer's index is the selected chain of its headers, both ways,     *)
(* whatever the lengths of the chains that replaced each other: nothing of *)
(* an abandoned chain is left where a locator would find it.               *)
ChainIndexExact ==
  LET path == <<Root>> \o SelectedChildIterator(ChainData, headersTip, Root)
  IN /\ chainStore.byIndex = [i \in 0 .. Len(path) - 1 |-> path[i + 1]]
     /\ DOMAIN chainStore.byHash = ToSet(path)
     /\ \A i \in DOMAIN chainStore.byIndex : chainStore.byHash[chainStore.byIndex[i]] = i

(* What is found is the highest block of the syncer's chain that the       *)
(* syncee knows, in the chain of the tip it is going to ask for: what it   *)
(* knew at the start is not downloaded again, and the download starts at a *)
(* block it has.  If nothing is found, the syncee knew nothing of that     *)
(* chain, or its own pruning point is above the syncer's: then all it has  *)
(* may lie between two entries of the first locator.                       *)
HighestKnownFound ==
  negotiation.at = "found" =>
    LET path == {Root} \cup ToSet(SelectedChildIterator(ChainData, negotiation.tip, Root))
        shared == {b \in path : IsInSelectedParentChainOf(ChainData, synceePP, b)}
    IN IF negotiation.low = NoHash THEN shared \cap negotiation.knew = {} \/ Root \notin shared
       ELSE /\ negotiation.low \in shared \cap known
            /\ \A b \in shared \cap negotiation.knew : b \in ChainOf(ChainData, negotiation.low)

(* Two honest nodes never find the other at fault: the locator has the     *)
(* bounds that were asked for, and the zooms stay below twice the length   *)
(* of the first locator, also if a chain changes or is learnt meanwhile.   *)
(* The syncer of this code bans the syncee whose question was overtaken by *)
(* a change of its chain, and then only.                                   *)
HonestSyncerAccepted ==
  /\ negotiation.at \notin {"badBounds", "tooManyZooms"}
  /\ negotiation.at = "bannedBySyncer" => ~signalling /\ changes > 0

NegotiationEnded == negotiation.at \notin {"ask", "got", "examine"}
=============================================================================
