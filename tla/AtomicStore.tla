---------------------------- MODULE AtomicStore ----------------------------
(* What the data stores of the consensus promise together: a database of   *)
(* key/value stores changed by staging areas.  An area collects additions  *)
(* and deletions for any number of stores, its owner reads through it, and *)
(* all of it reaches the database at once or not at all.  There is no      *)
(* cache here: a read answers from the area or from the database.  The     *)
(* reads of a process that is going down after a failed commit are not     *)
(* promised anything, what it leaves in the database is.                   *)
EXTENDS Naturals, FiniteSets

CONSTANTS
    Volatile,   \* the stores that keep nothing in the database and may forget
    Diffed,     \* the stores that are staged for with a diff, removals first
    Keys,       \* their keys (block hashes, outpoints)
    Values,     \* what they hold
    None,       \* no value
    Areas       \* the staging areas an operation may have open

VARIABLES
    stores,     \* the data stores there are
    store,      \* store -> key -> value or None
    pending,    \* area -> what is staged: [add: store -> key -> value, del: store -> keys]
    answer,     \* what a read returns in this step, None for not found
    up          \* FALSE from a failed commit until the process is gone

avars == <<stores, store, pending, answer, up>>

Nothing == [add |-> [s \in stores |-> [k \in Keys |-> None]], del |-> [s \in stores |-> {}]]

(* The database once an area is in it: deletions come after additions, but *)
(* the removals of a diff before its additions.                            *)
Applied(p) ==
    [s \in stores |-> [k \in Keys |->
        IF s \in Volatile \/ (k \in p.del[s] /\ (s \in Diffed => p.add[s][k] = None)) THEN None
        ELSE IF p.add[s][k] # None THEN p.add[s][k] ELSE store[s][k]]]

AInit ==
    /\ store = [s \in stores |-> [k \in Keys |-> None]]
    /\ pending = [a \in Areas |-> Nothing]
    /\ answer = None
    /\ up = TRUE

Pending == [add: [stores -> [Keys -> Values \cup {None}]], del: [stores -> SUBSET Keys]]

AStage(a) ==
    /\ pending' \in [Areas -> Pending]
    /\ \A b \in Areas \ {a}: pending'[b] = pending[b]
    /\ answer' = None
    /\ UNCHANGED <<stores, store, up>>

(* A read sees the additions of its own area and not its deletions, but    *)
(* the removals of a diff before anything else.                            *)
ARead(a, s, k) ==
    /\ IF s \in Diffed /\ k \in pending[a].del[s] THEN answer' = None
       ELSE IF pending[a].add[s][k] # None THEN answer' = pending[a].add[s][k]
       ELSE IF s \in Volatile THEN answer' \in Values \cup {None} ELSE answer' = store[s][k]
    /\ UNCHANGED <<stores, store, pending, up>>

ACommit(a) ==
    /\ store' = Applied(pending[a])
    /\ pending' = [pending EXCEPT ![a] = Nothing]
    /\ answer' = None
    /\ UNCHANGED <<stores, up>>

(* An operation that ends without committing drops its areas.              *)
ADiscard == pending' = [a \in Areas |-> Nothing] /\ answer' = None /\ UNCHANGED <<stores, store, up>>

(* A failed commit changes nothing and takes the process down; while it    *)
(* goes down it may still answer anything.                                 *)
AFail == up' = FALSE /\ pending' = [a \in Areas |-> Nothing] /\ answer' = None /\ UNCHANGED <<stores, store>>
ADying == ~up /\ answer' \in Values \cup {None} /\ UNCHANGED <<stores, store, pending, up>>

ARestart == up' = TRUE /\ pending' = [a \in Areas |-> Nothing] /\ answer' = None /\ UNCHANGED <<stores, store>>

ANext ==
    \/ \E a \in Areas: AStage(a) \/ ACommit(a)
    \/ \E a \in Areas, s \in stores, k \in Keys: up /\ ARead(a, s, k)
    \/ ADiscard
    \/ AFail
    \/ ADying
    \/ ARestart

ASpec == AInit /\ [][ANext]_avars
=============================================================================
