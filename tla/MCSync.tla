------------------------------- MODULE MCSync -------------------------------
(* How a node gets what its peers have, in four parts checked side by      *)
(* side: the relay of announced blocks with its orphans and its IBDs, the  *)
(* negotiation at the start of an IBD, the downloads that follow, and the  *)
(* connections that carry all this, until they end.  A behaviour is one of *)
(* one part, the others staying as they began.                             *)
EXTENDS BlockRelay, ChainNegotiation, IBDTransfer

CONSTANTS
  Conns, Outbound, PeerIds, NoConn, Capacity, Environments,
  Parts, p1, p2, c1, c2

VARIABLES
  part,
  peerEnv, peerConn, p2pConnections, connectedPeers, banned, phase, broadcasts, panicked

PeerPart == INSTANCE PeerConnections WITH conn <- peerConn, peers <- connectedPeers

(* One connection of a node to an honest node, with all the flows; and one *)
(* during a shutdown.                                                      *)
Quiet == [conns |-> {}, honest |-> {}, reliable |-> {}, bannedBefore |-> {}, flowRoutes |-> {"relay"},
          maxBroadcasts |-> 0, stops |-> FALSE]
AllFlows == [Quiet EXCEPT !.conns = {c1}, !.honest = {c1}, !.flowRoutes = {"relay", "addresses", "pong"}]
Stopping == [Quiet EXCEPT !.conns = {c2}, !.honest = {c2}, !.flowRoutes = {"relay", "pong"}, !.stops = TRUE]
LivenessEnvironments == {Quiet, AllFlows, Stopping}

ASSUME PeersAssumption ==
  /\ Outbound \subseteq Conns /\ NoConn \notin Conns /\ Capacity \in Nat \ {0}
  /\ \A e \in Environments: e.reliable \subseteq e.honest /\ e.honest \subseteq e.conns /\ e.conns \subseteq Conns

(* A block 2 above what the node has, two blocks on it, and a block that   *)
(* merges them.                                                            *)
MCParents == 0 :> {} @@ 1 :> {0} @@ 2 :> {1} @@ 3 :> {2} @@ 4 :> {2} @@ 5 :> {3, 4}
Scored(selectedParent, score) == [selectedParent |-> selectedParent, blueScore |-> score]
MCData ==
  0 :> Scored(NoBlock, 0) @@ 1 :> Scored(0, 1) @@ 2 :> Scored(1, 2)
  @@ 3 :> Scored(2, 3) @@ 4 :> Scored(2, 3) @@ 5 :> Scored(4, 5)
MCAnnounced == {<<p1, 3>>, <<p2, 4>>, <<p1, 5>>}
RelayLimits(orphanCount, range, failures) ==
  [maxOrphans |-> orphanCount, orphanResolutionRange |-> range, failures |-> failures]
MCLimits == {RelayLimits(3, 4, 0), RelayLimits(1, 3, 1), RelayLimits(3, 2, 1)}

(* A chain of ten blocks; another one from block 3 with fewer blocks and   *)
(* more work; and one that branches off near the tip.                      *)
MCChainData ==
  [b \in (0 .. 10) \cup (20 .. 24) \cup (30 .. 32) |->
     CASE b = 0 -> Scored(NoHash, 0)
       [] b \in 1 .. 10 -> Scored(b - 1, b)
       [] b = 20 -> Scored(3, 8)
       [] b \in 21 .. 24 -> Scored(b - 1, b - 12)
       [] b = 30 -> Scored(8, 10)
       [] b \in 31 .. 32 -> Scored(b - 1, b - 20)]
MCSynceeTips == {{b} : b \in 0 .. 10} \cup {{5, 21}, {22}, {9, 30}}

relayVars == vars
peerVars ==
  <<peerEnv, peerConn, p2pConnections, connectedPeers, banned, phase, broadcasts, panicked>>
syncVars == <<part, relayVars, negotiationVars, transferVars, peerVars>>

InitSync ==
  /\ part \in Parts
  /\ Init /\ (part # "relay" => limits = RelayLimits(3, 4, 0))
  /\ NegotiationInit /\ (part # "negotiation" => signalling /\ known = {0} /\ synceePP = 0)
  /\ TransferInit /\ (part # "transfer" => download = "headers" /\ items = 1 /\ ~slow)
  /\ PeerPart!InitPeers /\ (part # "peers" <=> peerEnv = Quiet)

InRelay == part = "relay" /\ UNCHANGED <<part, negotiationVars, transferVars, peerVars>>
InNegotiation == part = "negotiation" /\ UNCHANGED <<part, relayVars, transferVars, peerVars>>
InTransfer == part = "transfer" /\ UNCHANGED <<part, relayVars, negotiationVars, peerVars>>
InPeers == part = "peers" /\ UNCHANGED <<part, relayVars, negotiationVars, transferVars>>

NextSync ==
  \/ InRelay /\ Next
  \/ InNegotiation /\ NegotiationNext
  \/ InTransfer /\ TransferNext
  \/ InPeers /\ PeerPart!NextPeers

(* What each part assumes: flows that can go on do; the goroutines of a     *)
(* connection each for itself (Fairness of PeerConnections, of which the   *)
(* other parts have no connection).                                        *)
ProgressSync ==
  \/ InRelay /\ Progress
  \/ InNegotiation /\ NegotiationStep
  \/ InTransfer /\ TransferStep

SpecSync == InitSync /\ [][NextSync]_syncVars
FairSync == SpecSync /\ WF_syncVars(ProgressSync) /\ PeerPart!Fairness


(* Every part comes to its end, again and again if more is announced: the  *)
(* announcements are dealt with, the negotiation has a result, the         *)
(* downloads are over, and a connection or a node that was told to end has *)
(* ended; no flow waits for another one that waits for it.                 *)
SyncEnds ==
  []<>CASE part = "relay" -> Settled
        [] part = "negotiation" -> NegotiationEnded
        [] part = "transfer" -> TransferEnded
        [] part = "peers" -> PeerPart!EndsCompletely
=============================================================================
