------------------------ MODULE BlockRelay_invariant ------------------------
(* The inductive invariant of BlockRelay, for any peers, any DAG of        *)
(* blocks, any announcements and any limits. It says where every flow and  *)
(* every block is, and that the DAG is closed under parents.               *)
EXTENDS BlockRelay, TLAPS

(* The states of the relay flow of a peer and of its IBD flow.             *)
RelayAt ==
  {"read", "unknown", "notOrphan", "request", "waitBlock", "process", "relay", "inserted",
   "orphan", "waitLocator", "addOrphan", "roots", "gone"}
Resting == {"read", "gone"}
Relays ==
  {r \in [at : RelayAt, block : Blocks \cup {NoBlock}, root : BOOLEAN, old : SUBSET Blocks] :
     r.at \notin Resting => r.block \in Blocks}
IBDAt == {"wait", "start", "headers", "missing", "bodies", "inserted"}
IBDs ==
  {d \in [at : IBDAt, block : Blocks \cup {NoBlock}, hashes : Seq(Blocks)] :
     /\ d.at # "wait" => d.block \in Blocks
     /\ d.at = "inserted" => d.hashes # <<>>}
Invs == [block : Blocks, root : BOOLEAN]

TypeInv ==
  /\ body \subseteq Blocks /\ headers \subseteq Blocks \ body /\ orphans \subseteq Blocks
  /\ requested \subseteq Blocks /\ ibdPeer \in Peers \cup {NoPeer} /\ mutex \in Flows \cup {NoFlow}
  /\ queue \in [Peers -> Seq(Invs)]
  /\ relay \in [Peers -> Relays]
  /\ ibd \in [Peers -> IBDs]
  /\ unorphaning \in Seq(Blocks)
  /\ announced \subseteq Announced
  /\ lost \subseteq Blocks /\ relayed \subseteq Blocks /\ direct \subseteq Blocks

(* The flow that holds the mutex has just inserted a block.                *)
HolderInv ==
  \A p \in Peers : /\ mutex = <<p, "relay">> => relay[p].at = "inserted"
                   /\ mutex = <<p, "ibd">> => ibd[p].at = "inserted"

(* The process queue has orphans, each once, and only while the mutex is   *)
(* held.                                                                   *)
QueueInv ==
  /\ \A i \in DOMAIN unorphaning : unorphaning[i] \in orphans
  /\ \A i, j \in DOMAIN unorphaning : i # j => unorphaning[i] # unorphaning[j]
  /\ mutex = NoFlow => unorphaning = <<>>

(* In this order every block comes after its parents that are not known.   *)
ParentsFirst(order, known) ==
  \A i \in DOMAIN order : Parents[order[i]] \subseteq known \cup {order[j] : j \in 1 .. (i - 1)}

(* The DAG is closed under parents, and the bodies an IBD still asks for   *)
(* come after their parents.                                               *)
BodyInv ==
  /\ \A b \in body : Parents[b] \subseteq body
  /\ \A p \in Peers : ibd[p].at \in {"bodies", "inserted"} => ParentsFirst(ibd[p].hashes, body)
  /\ \A p \in Peers : ibd[p].at = "inserted" => ibd[p].hashes[1] \in body

(* A block that a flow has inserted is in the DAG, and one whose missing   *)
(* ancestors are looked up is accounted for.                               *)
PlaceInv ==
  \A p \in Peers : /\ relay[p].at \in {"relay", "inserted"} => relay[p].block \in body
                   /\ relay[p].at = "roots" => relay[p].block \in body \cup orphans \cup lost

(* A block is in hand while it waits in a queue or some flow works on it.  *)
Queued(p, b) == \E i \in DOMAIN queue[p] : queue[p][i].block = b
Handled(p, b) == relay[p].at \notin Resting /\ relay[p].block = b
Synced(p, b) == ibd[p].at # "wait" /\ ibd[p].block = b
InHand(b) == \E p \in Peers : Queued(p, b) \/ Handled(p, b) \/ Synced(p, b)
Placed == body \cup orphans \cup lost
Accounted(b) == b \in Placed \/ InHand(b)

(* Every announced block is accounted for, and so are the parents of an    *)
(* orphan, unless some flow is about to look them up.                      *)
AnnouncedInv == \A pb \in announced : Accounted(pb[2])
OrphanInv ==
  \A o \in orphans : \A x \in Parents[o] :
    Accounted(x) \/ \E p \in Peers : relay[p].at = "roots" /\ relay[p].block = o

(* Until the block a flow inserted is announced, no virtual parent from    *)
(* before it came is above it, and afterwards some announced block is.     *)
RelayedInv ==
  /\ \A p \in Peers : At(p, "process") => relay[p].block \in body \/ \A v \in relay[p].old : relay[p].block \notin PastOfBlock[v]
  /\ \A p \in Peers : At(p, "relay") => \A v \in relay[p].old : relay[p].block \notin PastOfBlock[v]
  /\ InsertedIsRelayed

IInv ==
  /\ TypeInv /\ HolderInv /\ RequestsOwned /\ IBDLatchOwned /\ QueueInv
  /\ BodyInv /\ PlaceInv /\ AnnouncedInv /\ OrphanInv /\ RelayedInv

-----------------------------------------------------------------------------
(* Steps of a flow.                                                        *)

(* What the steps use of the operators, proved in BlockRelay_proofs: an    *)
(* order of a set of blocks has each of them once; the past of a block is  *)
(* the least set that has the block and is closed under parents; what      *)
(* GetOrphanRoots reaches is within every set that has the orphan and the  *)
(* parents of its orphans, and no parent of the orphan is overlooked; and  *)
(* a block of the DAG is in the past of a virtual parent.                  *)
OrdersEnumerate ==
  \A S \in SUBSET Blocks : \A order \in Orders(S) :
    /\ order \in Seq(S) /\ Range(order) = S
    /\ \A i, j \in DOMAIN order : i # j => order[i] # order[j]
PastClosed ==
  \A b \in Blocks : /\ b \in PastOfBlock[b] /\ PastOfBlock[b] \subseteq Blocks
                    /\ \A c \in PastOfBlock[b] : Parents[c] \subseteq PastOfBlock[b]
PastLeast ==
  \A T \in SUBSET Blocks : (\A x \in T : Parents[x] \subseteq T) => \A b \in T : PastOfBlock[b] \subseteq T
RootsComplete ==
  \A o \in Blocks :
    /\ \A T \in SUBSET Blocks : o \in T /\ (\A x \in T \cap orphans : Parents[x] \subseteq T)
                                 => GetOrphanRoots(o) \subseteq T \ (orphans \cup body)
    /\ GetOrphanRoots(o) \subseteq Blocks
    /\ o \in orphans => Parents[o] \subseteq orphans \cup body \cup GetOrphanRoots(o)
VirtualParentsOnTop == \A b \in body : \E v \in virtualParents : b \in PastOfBlock[v]
Facts == OrdersEnumerate /\ PastClosed /\ PastLeast /\ RootsComplete /\ VirtualParentsOnTop
=============================================================================
