----------------------------- MODULE MCStorage -----------------------------
(* Two parts of the node that survive a crash on what they wrote, checked  *)
(* side by side: a behaviour is one of the pruning or one of the domain    *)
(* with its index, the other part staying in its initial state.            *)
EXTENDS Pruning, Domain

VARIABLE part

allVars == <<part, vars, domainVars>>

InitStorage == part \in {"pruning", "domain"} /\ Init /\ InitDomain /\ (part = "pruning" => env = "quiet")

InPruning == part = "pruning" /\ UNCHANGED <<part, domainVars>>
InDomain == part = "domain" /\ UNCHANGED <<part, vars>>

NextStorage ==
    \/ InPruning /\ Next
    \/ InDomain /\ NextDomain

FairStorage ==
    /\ InitStorage /\ [][NextStorage]_allVars
    /\ WF_allVars(InPruning /\ LockHolder) /\ WF_allVars(InPruning /\ Restart)
    /\ WF_allVars(InDomain /\ Inserter) /\ WF_allVars(InDomain /\ HandleEvent)
    /\ WF_allVars(InDomain /\ IBDFlow) /\ WF_allVars(InDomain /\ Resetting)
    /\ WF_allVars(InDomain /\ Starting)

(* Both parts keep to the shapes of their stores, keys and channels.       *)
StorageTypeOK == TypeOK /\ DomainTypeOK

(* The pruning point a header commits to, its finality point and its merge *)
(* depth root depend on its own past alone, whatever state the node was in *)
(* when the header arrived.                                                *)
DerivedPointsAgreed == HeaderPruningPointsAgreed /\ DepthPointsAgreed

(* The pruning points have no gap, the UTXO set kept for peers is that of  *)
(* the last one, and exactly what may be deleted is.                       *)
PruningComplete == PruningPointsComplete /\ PruningUtxosExact /\ PrunedExactly

(* An update of the pruning point that was started is finished, by the     *)
(* restarted node if need be; and the index catches up with the virtual    *)
(* again and again.                                                        *)
StorageProgresses == UpdateFinished /\ (part = "domain" => IndexCatchesUp)
=============================================================================
