---------------------------- MODULE MCConsensus ----------------------------
(* What the consensus decides about blocks and transactions, in parts      *)
(* checked side by side: the virtual state with its UTXO sets, and the     *)
(* scripts that lock and unlock outputs.  A behaviour is one of one part,  *)
(* the others staying as they began.                                       *)
EXTENDS ConsensusState, MCScript

CONSTANT Parts

VARIABLE part

(* The virtual state.  Block 1 and block 4 hold the same transaction,      *)
(* block 2 a conflicting one, block 3 one that spends its output.          *)
MCTransactions == [b \in Blocks |-> CASE b = 1 -> <<"t1">> [] b = 2 -> <<"t2">>
                                      [] b = 3 -> <<"t3">> [] b = 4 -> <<"t1">> [] OTHER -> <<>>]
MCInputs == [t1 |-> {0}, t2 |-> {0}, t3 |-> {11}]
MCOutputs == [t1 |-> {11}, t2 |-> {12}, t3 |-> {13}]

(* Valid blocks, relayed or synced; and relayed blocks some of which fail  *)
(* verification.                                                           *)
Sync == [badHeaders |-> {}, onlyValidBlocks |-> TRUE, updateVirtualArgs |-> {TRUE, FALSE},
         minable |-> Blocks, chunkSize |-> 2, crashPoints |-> {}, maxCrashes |-> 0]
Relay == [Sync EXCEPT !.badHeaders = {3}, !.onlyValidBlocks = FALSE, !.updateVirtualArgs = {TRUE}]

(* Chunks of one block and a crash at any commit boundary of AddBlock and  *)
(* of the chain part of ResolveVirtual; and a crash anywhere.              *)
Restarted == [Sync EXCEPT !.minable = {0, 1, 2, 3, 4}, !.chunkSize = 1, !.maxCrashes = 1,
                !.crashPoints = ({"add"} \X {"chain", "reverse"}) \cup {<<"resolve", "chain">>}]
Unlucky == [Sync EXCEPT !.maxCrashes = 1, !.crashPoints = {"add", "resolve"} \X {"chain", "reverse", "update"}]

MCPassing == {Sync, Relay, Restarted}
MCUnlucky == {Unlucky}

stateVars == vars
consensusVars == <<part, stateVars, engineVars>>

AnySpend == CHOOSE s \in MCReruns : TRUE

InitConsensus ==
  /\ part \in Parts
  /\ Init /\ (part # "state" => env = Sync)
  /\ IF part = "scripts" THEN InitEngine ELSE InitEngineWith({AnySpend})

InState == part = "state" /\ UNCHANGED <<part, engineVars>>
InScripts == part = "scripts" /\ UNCHANGED <<part, stateVars>>

NextConsensus ==
  \/ InState /\ Next
  \/ InScripts /\ NextEngine

(* Only the virtual state has something that must eventually happen.       *)
SpecConsensus == InitConsensus /\ [][NextConsensus]_consensusVars /\ Fairness

(* The state of each part has its shape.                                   *)
ConsensusTypeOK == TypeOK /\ EngineTypeOK
=============================================================================
