--------------------------- MODULE Domain_proofs ---------------------------
(***************************************************************************)
(* Proofs about the exchange of the consensus and the UTXO index, for any  *)
(* length of the virtual, chunk of Reset, capacity of the events channel   *)
(* and number of IBDs and crashes: the active prefix always holds a        *)
(* complete consensus (ExchangeSafe), and the index is a copy for the      *)
(* virtual it names and misses no change (IndexConsistent).                *)
(***************************************************************************)
EXTENDS Domain, FiniteSetTheorems, NaturalsInduction, TLAPS

Virtuals == (1..MaxVirtual) \X {0, 1}
Event == {BlockAdded} \cup {Change(v, w) : v, w \in Virtuals}

(* A finite set of entries, one for each outpoint.                         *)
OneEach(S) == IsFiniteSet(S) /\ \A d, e \in S : d[1] = e[1] => d = e

(* The queued events lead from one virtual to another.                     *)
Leads(queue, v, w) ==
  \E vs \in [0..Len(queue) -> Virtuals] :
    /\ vs[0] = v /\ vs[Len(queue)] = w
    /\ \A i \in 1..Len(queue) :
         \/ queue[i] = BlockAdded /\ vs[i] = vs[i - 1]
         \/ queue[i] = Change(vs[i - 1], vs[i])

-----------------------------------------------------------------------------
(* Sets of index entries.                                                  *)

(* A set with one entry for each outpoint has as many entries as outpoints. *)
LEMMA CountOutpoints ==
  ASSUME NEW S, OneEach(S)
  PROVE  IsFiniteSet(Outpoints(S)) /\ Cardinality(Outpoints(S)) = Cardinality(S)
<1> DEFINE T == Outpoints(S)
           f == [e \in S |-> e[1]]
<1>1. f \in Surjection(S, T)
  BY DEF Outpoints, Surjection
<1>2. f \in Injection(S, T)
  BY <1>1 DEF Outpoints, Surjection, Injection, IsInjective, OneEach
<1>3. IsFiniteSet(S)
  BY DEF OneEach
<1> HIDE DEF f, T
<1>4. IsFiniteSet(T) /\ Cardinality(T) = Cardinality(S)
  BY <1>1, <1>2, <1>3, FS_Surjection, Zenon
<1> QED BY <1>4 DEF T

(* Some of the entries of such a set.                                      *)
LEMMA SubsetOneEach ==
  ASSUME NEW S, OneEach(S), NEW T \in SUBSET S
  PROVE  OneEach(T)
BY FS_Subset DEF OneEach

(* A change set that leads from one set of entries to another.             *)
Moves(event, O, N) == event.toAdd = N \ O /\ event.toRemove = O \ N

(* Update: the index of the old virtual becomes that of the new one, with  *)
(* its supply, though it keeps the old entry of an outpoint that the       *)
(* change set both removes and adds.                                       *)
LEMMA UpdateExact ==
  ASSUME NEW S, NEW O, NEW N, OneEach(S), OneEach(O), OneEach(N),
         Outpoints(S) = Outpoints(O),
         NEW event, Moves(event, O, N),
         NEW T, T = CommitStaged(S, StagedRemove(event), StagedAdd(event))
  PROVE  /\ OneEach(T) /\ Outpoints(T) = Outpoints(N)
         /\ Cardinality(T) = Cardinality(S) + Cardinality(StagedAdd(event))
                               - Cardinality(StagedRemove(event))
<1> USE DEF Moves
<1> DEFINE removed == StagedRemove(event)
           added == StagedAdd(event)
           gone == {e \in S : e[1] \in removed}
<1>1. added \subseteq N /\ removed \subseteq Outpoints(S)
  BY DEF StagedRemove, StagedAdd, Outpoints
<1>2. \A e \in added : e[1] \notin Outpoints(S)
  <2> SUFFICES ASSUME NEW e \in added, e[1] \in Outpoints(O) PROVE FALSE
    OBVIOUS
  <2>1. PICK d \in O : d[1] = e[1]
    BY DEF Outpoints
  <2>2. e \in N /\ e \notin O /\ e[1] \notin Outpoints(O \ N)
    BY DEF StagedAdd
  <2>3. d \in N
    BY <2>1, <2>2 DEF Outpoints
  <2> QED BY <2>1, <2>2, <2>3 DEF OneEach
<1>3. T = (S \ gone) \cup added
  BY <1>2 DEF CommitStaged, Outpoints
<1>4. Outpoints(gone) = removed
  BY <1>1 DEF Outpoints
<1>5. OneEach(gone) /\ OneEach(added) /\ OneEach(S \ gone)
  BY <1>1, SubsetOneEach
<1>6. Outpoints(T) = Outpoints(N)
  <2>1. \A e \in N : e[1] \in Outpoints(T)
    <3> SUFFICES ASSUME NEW e \in N PROVE e[1] \in Outpoints(T)
      OBVIOUS
    <3>1. CASE e \in added
      BY <3>1, <1>3 DEF Outpoints
    <3>2. CASE e \notin added
      <4>1. e[1] \in Outpoints(O) /\ e[1] \notin removed
        BY <3>2 DEF StagedAdd, StagedRemove, Outpoints, OneEach
      <4>2. PICK d \in S : d[1] = e[1]
        BY <4>1 DEF Outpoints
      <4>3. d \in T
        BY <4>1, <4>2, <1>3
      <4> QED BY <4>2, <4>3 DEF Outpoints
    <3> QED BY <3>1, <3>2
  <2>2. \A e \in T : e[1] \in Outpoints(N)
    <3> SUFFICES ASSUME NEW e \in T PROVE e[1] \in Outpoints(N)
      OBVIOUS
    <3>1. CASE e \in added
      BY <3>1, <1>1 DEF Outpoints
    <3>2. CASE e \in S /\ e[1] \notin removed
      <4>1. PICK d \in O : d[1] = e[1]
        BY <3>2 DEF Outpoints
      <4>2. CASE d \in N
        BY <4>1, <4>2 DEF Outpoints
      <4>3. CASE d \notin N
        BY <4>1, <4>3, <3>2 DEF Outpoints, StagedRemove
      <4> QED BY <4>2, <4>3
    <3> QED BY <1>3, <3>1, <3>2
  <2> QED BY <2>1, <2>2 DEF Outpoints
<1>7. OneEach(T)
  <2>1. IsFiniteSet(T)
    <3>1. IsFiniteSet(S \ gone) /\ IsFiniteSet(added)
      BY <1>5 DEF OneEach
    <3> HIDE DEF gone, added
    <3> QED BY <3>1, <1>3, FS_Union, Zenon
  <2>2. \A d, e \in T : d[1] = e[1] => d = e
    <3> HIDE DEF gone, added
    <3>1. \A e \in S \ gone : e[1] \in Outpoints(S)
      BY DEF Outpoints
    <3> QED BY <3>1, <1>2, <1>3, <1>5 DEF OneEach
  <2> QED BY <2>1, <2>2 DEF OneEach
<1>8. Cardinality(T) = Cardinality(S) + Cardinality(added) - Cardinality(removed)
  <2> HIDE DEF gone, added, removed
  <2>1. Cardinality(gone) = Cardinality(removed)
    BY <1>4, <1>5, CountOutpoints
  <2>2. (S \ gone) \cap added = {}
    BY <1>2 DEF Outpoints
  <2>3. IsFiniteSet(S) /\ IsFiniteSet(S \ gone) /\ IsFiniteSet(added) /\ IsFiniteSet(gone)
    BY <1>5 DEF OneEach
  <2>4. Cardinality(T) = Cardinality(S \ gone) + Cardinality(added) - Cardinality({})
    <3>1. Cardinality((S \ gone) \cup added)
            = Cardinality(S \ gone) + Cardinality(added) - Cardinality((S \ gone) \cap added)
      BY <2>3, FS_Union, Zenon
    <3> QED BY <3>1, <1>3, <2>2, SMTT(30)
  <2>5. S \cap gone = gone
    BY DEF gone
  <2>6. Cardinality(S \ gone) = Cardinality(S) - Cardinality(gone)
    <3>1. Cardinality(S \ gone) = Cardinality(S) - Cardinality(S \cap gone)
      BY <2>3, FS_Difference, Zenon
    <3> QED BY <3>1, <2>5
  <2>7. /\ Cardinality(S) \in Nat /\ Cardinality(gone) \in Nat /\ Cardinality(added) \in Nat
        /\ Cardinality(S \ gone) \in Nat /\ Cardinality({}) = 0
    BY <2>3, FS_CardinalityType, FS_EmptySet, Zenon
  <2> QED BY <2>1, <2>4, <2>6, <2>7
<1> QED BY <1>6, <1>7, <1>8

(* The UTXO set of a virtual has one entry for each of its outpoints, and  *)
(* the outpoints are positive numbers.                                     *)
LEMMA UtxosOneEach ==
  ASSUME NEW v \in Virtuals
  PROVE  OneEach(Utxos(v)) /\ Outpoints(Utxos(v)) \subseteq Nat \ {0}
<1> DEFINE live == {j \in 1..v[1] : ~(j % 2 = 0 /\ j + 2 <= v[1])}
           f == [k \in live |-> Entry(k, v[2])]
<1>1. v[1] \in 1..MaxVirtual /\ v[2] \in {0, 1} /\ MaxVirtual \in Nat
  BY DomainAssumption DEF Virtuals
<1>2. live \subseteq 1..MaxVirtual
  BY <1>1
<1>3. IsFiniteSet(live)
  <2>1. IsFiniteSet(1..MaxVirtual)
    BY <1>1, FS_Interval
  <2> HIDE DEF live
  <2> QED BY <1>2, <2>1, FS_Subset, Zenon
<1>4. Utxos(v) = {Entry(k, v[2]) : k \in live}
  BY DEF Utxos
<1> HIDE DEF live
<1>5. IsFiniteSet(Utxos(v))
  <2>1. f \in Surjection(live, Utxos(v))
    BY <1>4 DEF Surjection
  <2> HIDE DEF f
  <2> QED BY <1>3, <2>1, FS_Surjection, Zenon
<1>6. \A k \in live : Entry(k, v[2])[1] = k \/ Entry(k, v[2])[1] = k + MaxVirtual
  <2>1. CASE v[2] = 0
    BY <1>1, <1>2, <2>1 DEF Entry
  <2>2. CASE v[2] = 1
    BY <1>1, <1>2, <2>2 DEF Entry
  <2> QED BY <1>1, <2>1, <2>2
<1>7. \A k, m \in live : Entry(k, v[2])[1] = Entry(m, v[2])[1] => k = m
  BY <1>1, <1>2, <1>6
<1>8. \A d, e \in Utxos(v) : d[1] = e[1] => d = e
  BY <1>4, <1>7, Zenon
<1>9. Outpoints(Utxos(v)) \subseteq Nat \ {0}
  BY <1>1, <1>2, <1>4, <1>6 DEF Outpoints
<1> QED BY <1>5, <1>8, <1>9 DEF OneEach

(* A set of naturals that is not empty has a least element.                *)
LEMMA LeastOf ==
  ASSUME NEW T, T \subseteq Nat, T # {}
  PROVE  \E x \in T : \A y \in T : x <= y
<1> DEFINE R == OpToRel(<, Nat)
<1>1. IsWellFoundedOn(R, Nat)
  BY NatLessThanWellFounded, Zenon
<1>2. \A x, y \in Nat : x < y => <<x, y>> \in R
  BY DEF OpToRel
<1> HIDE DEF R
<1>3. PICK x \in T : \A y \in T : ~ (<<y, x>> \in R)
  BY <1>1, WFMin, Zenon
<1>4. \A y \in T : ~(y < x)
  BY <1>2, <1>3, Zenon
<1> QED BY <1>4

(* A finite one has a greatest.                                            *)
LEMMA MaxOf ==
  ASSUME NEW T, T \subseteq Nat, T # {}, IsFiniteSet(T)
  PROVE  Max(T) \in T /\ \A y \in T : y <= Max(T)
<1> DEFINE Above(x) == {y \in T : y > x}
           Sizes == {Cardinality(Above(x)) : x \in T}
<1>1. \A x \in T : IsFiniteSet(Above(x)) /\ Cardinality(Above(x)) \in Nat
  <2> SUFFICES ASSUME NEW x \in T PROVE IsFiniteSet(Above(x)) /\ Cardinality(Above(x)) \in Nat
    OBVIOUS
  <2>1. Above(x) \in SUBSET T
    OBVIOUS
  <2> HIDE DEF Above
  <2> QED BY <2>1, FS_Subset, FS_CardinalityType
<1>2. Sizes \subseteq Nat /\ Sizes # {}
  BY <1>1, Zenon
<1>3. PICK m \in Sizes : \A n \in Sizes : m <= n
  <2> HIDE DEF Sizes
  <2> QED BY <1>2, LeastOf, Zenon
<1>4. PICK x \in T : m = Cardinality(Above(x))
  OBVIOUS
<1>5. \A y \in T : x >= y
  <2> SUFFICES ASSUME NEW y \in T, ~(x >= y) PROVE FALSE
    OBVIOUS
  <2>0. x \in Nat /\ y \in Nat /\ \A z \in T : z \in Nat
    OBVIOUS
  <2>1. Above(y) \in SUBSET Above(x) /\ y \in Above(x) /\ y \notin Above(y)
    <3>1. \A z \in T : z > y => z > x
      BY <2>0
    <3>2. y > x /\ ~(y > y)
      BY <2>0
    <3> QED BY <3>1, <3>2, Zenon
  <2>2. Cardinality(Above(x)) <= Cardinality(Above(y))
    BY <1>3, <1>4, Zenon
  <2> HIDE DEF Above
  <2>3. Cardinality(Above(y)) <= Cardinality(Above(x))
    BY <1>1, <2>1, FS_Subset
  <2>4. Cardinality(Above(x)) = Cardinality(Above(y))
    BY <1>1, <2>2, <2>3
  <2> QED BY <1>1, <2>1, <2>4, FS_Subset
<1> QED BY <1>5, Zenon DEF Max

(* A chunk of Reset: the copy holds all outpoints up to a bound, which a   *)
(* full chunk moves on and a smaller one lifts.                            *)
LEMMA ChunkExact ==
  ASSUME NEW U, OneEach(U), Outpoints(U) \subseteq Nat \ {0}, reset.from \in Nat,
         NEW S, S = {e \in U : e[1] <= reset.from}
  PROVE  LET chunk == NextChunk(U)
             T == CommitStaged(S, {}, chunk)
         IN  /\ Cardinality(T) = Cardinality(S) + Cardinality(chunk)
             /\ Cardinality(chunk) < Step => T = U
             /\ ~(Cardinality(chunk) < Step) =>
                  /\ Max(Outpoints(chunk)) \in Nat
                  /\ T = {e \in U : e[1] <= Max(Outpoints(chunk))}
<1> DEFINE rest == {e \in U : e[1] > reset.from}
           Below(e) == {d \in rest : d[1] < e[1]}
           chunk == {e \in rest : Cardinality(Below(e)) < Step}
           T == CommitStaged(S, {}, chunk)
<1>1. NextChunk(U) = chunk
  BY DEF NextChunk
<1>2. \A e \in U : e[1] \in Nat
  BY DEF Outpoints
<1>0. \A e \in chunk : e \in U /\ e[1] > reset.from
  OBVIOUS
<1>3. IsFiniteSet(U) /\ OneEach(rest) /\ OneEach(chunk) /\ OneEach(S)
  BY SubsetOneEach, Zenon DEF OneEach
<1>4. Step \in Nat /\ Step > 0
  BY DomainAssumption
<1>5. \A e \in rest : IsFiniteSet(Below(e)) /\ Cardinality(Below(e)) \in Nat
  <2> SUFFICES ASSUME NEW e \in rest PROVE IsFiniteSet(Below(e)) /\ Cardinality(Below(e)) \in Nat
    OBVIOUS
  <2>1. Below(e) \in SUBSET U
    OBVIOUS
  <2> HIDE DEF Below, rest
  <2> QED BY <1>3, <2>1, FS_Subset, FS_CardinalityType
<1>6. T = S \cup chunk
  <2>1. \A e \in S : e[1] \notin Outpoints(chunk)
    <3> HIDE DEF chunk
    <3> QED BY <1>0, <1>2 DEF Outpoints
  <2> HIDE DEF chunk
  <2> QED BY <2>1 DEF CommitStaged
<1>7. S \cap chunk = {}
  BY <1>2
<1>8. IsFiniteSet(S) /\ IsFiniteSet(chunk) /\ Cardinality(S) \in Nat /\ Cardinality(chunk) \in Nat
  <2>1. IsFiniteSet(S) /\ IsFiniteSet(chunk)
    BY <1>3 DEF OneEach
  <2> HIDE DEF chunk
  <2> QED BY <2>1, FS_CardinalityType, Zenon
<1>9. Cardinality(T) = Cardinality(S) + Cardinality(chunk)
  <2> HIDE DEF chunk, T
  <2>1. Cardinality(S \cup chunk) = Cardinality(S) + Cardinality(chunk) - Cardinality(S \cap chunk)
    BY <1>8, FS_Union, Zenon
  <2>2. Cardinality(S \cap chunk) = 0
    BY <1>7, FS_EmptySet, Zenon
  <2> QED BY <1>6, <1>8, <2>1, <2>2
<1>10. \A e \in chunk, d \in rest : d[1] <= e[1] => d \in chunk
  <2> SUFFICES ASSUME NEW e \in chunk, NEW d \in rest, d[1] <= e[1] PROVE d \in chunk
    OBVIOUS
  <2>1. Below(d) \in SUBSET Below(e) /\ e \in rest
    BY <1>2
  <2>2. Cardinality(Below(d)) <= Cardinality(Below(e))
    <3> HIDE DEF Below
    <3> QED BY <1>5, <2>1, FS_Subset
  <2>3. Cardinality(Below(e)) < Step
    OBVIOUS
  <2>4. Cardinality(Below(d)) < Step
    <3> HIDE DEF Below, rest, chunk
    <3> QED BY <1>4, <1>5, <2>1, <2>2, <2>3
  <2> QED BY <2>4
<1>11. ASSUME rest \ chunk # {} PROVE ~(Cardinality(chunk) < Step)
  <2> DEFINE left == Outpoints(rest \ chunk)
  <2>1. left \subseteq Nat /\ left # {}
    BY <1>2, <1>11, Zenon DEF Outpoints
  <2>2. PICK x \in left : \A y \in left : x <= y
    <3> HIDE DEF left
    <3> QED BY <2>1, LeastOf, Zenon
  <2>3. PICK e \in rest \ chunk : e[1] = x
    BY DEF Outpoints
  <2>4. \A d \in rest \ chunk : e[1] <= d[1]
    BY <2>2, <2>3, Zenon DEF Outpoints
  <2>5. Below(e) \in SUBSET chunk
    <3> HIDE DEF chunk
    <3> QED BY <1>2, <2>3, <2>4
  <2>6. Cardinality(Below(e)) <= Cardinality(chunk)
    <3> HIDE DEF Below, chunk
    <3> QED BY <1>8, <2>5, FS_Subset
  <2>7. ~(Cardinality(Below(e)) < Step)
    BY <2>3
  <2> HIDE DEF Below, chunk
  <2> QED BY <1>4, <1>5, <1>8, <2>3, <2>6, <2>7
<1>12. ASSUME Cardinality(chunk) < Step PROVE T = U
  <2>1. rest \subseteq chunk
    BY <1>11, <1>12
  <2> HIDE DEF chunk, T
  <2> QED BY <1>0, <1>2, <1>6, <2>1
<1>13. ASSUME ~(Cardinality(chunk) < Step)
       PROVE  /\ Max(Outpoints(chunk)) \in Nat
              /\ T = {e \in U : e[1] <= Max(Outpoints(chunk))}
  <2> DEFINE out == Outpoints(chunk)
  <2>1. chunk # {}
    <3> HIDE DEF chunk
    <3> QED BY <1>4, <1>13, FS_EmptySet, Zenon
  <2>2. out \subseteq Nat /\ out # {} /\ IsFiniteSet(out)
    <3>1. out \subseteq Nat
      BY <1>2, Zenon DEF Outpoints
    <3>2. out # {} /\ IsFiniteSet(out)
      <4> HIDE DEF chunk
      <4> QED BY <1>3, <2>1, CountOutpoints DEF Outpoints
    <3> QED BY <3>1, <3>2
  <2>3. Max(out) \in out /\ \A y \in out : y <= Max(out)
    <3> HIDE DEF out
    <3> QED BY <2>2, MaxOf, Zenon
  <2>4. PICK m \in chunk : m[1] = Max(out)
    <3> HIDE DEF chunk
    <3> QED BY <2>3, Zenon DEF Outpoints
  <2>5. \A e \in chunk : e[1] <= m[1]
    <3> HIDE DEF chunk
    <3> QED BY <2>3, <2>4 DEF Outpoints
  <2>6. m \in U /\ m[1] > reset.from
    OBVIOUS
  <2>7. T = {e \in U : e[1] <= m[1]}
    <3>1. ASSUME NEW e \in U, e[1] <= m[1] PROVE e \in S \cup chunk
      <4>1. CASE e[1] <= reset.from
        BY <4>1
      <4>2. CASE ~(e[1] <= reset.from)
        <5>1. e \in rest
          BY <1>2, <4>2
        <5> HIDE DEF rest, chunk
        <5> QED BY <1>10, <2>4, <3>1, <5>1
      <4> QED BY <4>1, <4>2
    <3>2. ASSUME NEW e \in S \cup chunk PROVE e \in U /\ e[1] <= m[1]
      <4>1. CASE e \in S
        BY <1>2, <2>6, <4>1
      <4>2. CASE e \in chunk
        BY <2>5, <4>2
      <4> QED BY <3>2, <4>1, <4>2
    <3> HIDE DEF chunk, T
    <3> QED BY <1>6, <3>1, <3>2
  <2> QED BY <1>2, <2>4, <2>6, <2>7
<1> HIDE DEF chunk, T
<1> QED BY <1>1, <1>9, <1>12, <1>13 DEF T

-----------------------------------------------------------------------------
(* The queued events.                                                      *)

(* The empty queue leads nowhere.                                          *)
LEMMA LeadsNowhere ==
  ASSUME NEW v \in Virtuals
  PROVE  Leads(<<>>, v, v)
<1> DEFINE vs == [i \in 0..0 |-> v]
<1>1. vs \in [0..Len(<<>>) -> Virtuals] /\ vs[0] = v /\ vs[Len(<<>>)] = v
  OBVIOUS
<1>2. \A i \in 1..Len(<<>>) : FALSE
  OBVIOUS
<1> HIDE DEF vs
<1> QED BY <1>1, <1>2 DEF Leads

(* ValidateAndInsertBlock queues two events more.                          *)
LEMMA LeadsOn ==
  ASSUME NEW queue \in Seq(Event), NEW v, NEW w \in Virtuals, NEW new \in Virtuals,
         Leads(queue, v, w)
  PROVE  Leads(Append(Append(queue, BlockAdded), Change(w, new)), v, new)
<1> DEFINE n == Len(queue)
           q == Append(Append(queue, BlockAdded), Change(w, new))
<1>1. PICK vs \in [0..n -> Virtuals] :
        /\ vs[0] = v /\ vs[n] = w
        /\ \A i \in 1..n : \/ queue[i] = BlockAdded /\ vs[i] = vs[i - 1]
                           \/ queue[i] = Change(vs[i - 1], vs[i])
  BY DEF Leads
<1> DEFINE ws == [i \in 0..n + 2 |-> IF i <= n THEN vs[i] ELSE IF i = n + 1 THEN w ELSE new]
<1>2. n \in Nat
  OBVIOUS
<1>3. /\ Len(q) = n + 2 /\ q[n + 1] = BlockAdded /\ q[n + 2] = Change(w, new)
      /\ \A i \in 1..n : q[i] = queue[i]
  <2>1. BlockAdded \in Event /\ Change(w, new) \in Event
    BY DEF Event
  <2> HIDE DEF Event
  <2> QED BY <2>1
<1> HIDE DEF n, q
<1>4. ws \in [0..n + 2 -> Virtuals] /\ ws[0] = v /\ ws[n] = w /\ ws[n + 1] = w /\ ws[n + 2] = new
  BY <1>1, <1>2
<1>5. ASSUME NEW i \in 1..n + 2
      PROVE  \/ q[i] = BlockAdded /\ ws[i] = ws[i - 1]
             \/ q[i] = Change(ws[i - 1], ws[i])
  <2>1. CASE i \in 1..n
    BY <1>1, <1>2, <1>3, <2>1
  <2>2. CASE i = n + 1
    <3>1. ws[i] = w /\ ws[i - 1] = w
      BY <1>2, <1>4, <2>2
    <3> QED BY <1>3, <2>2, <3>1
  <2>3. CASE i = n + 2
    <3>1. ws[i] = new /\ ws[i - 1] = w
      BY <1>2, <1>4, <2>3
    <3> QED BY <1>3, <2>3, <3>1
  <2> QED BY <1>2, <2>1, <2>2, <2>3
<1> HIDE DEF ws
<1> QED BY <1>3, <1>4, <1>5, SMTT(30) DEF Leads, q

(* The events handler takes one off.                                       *)
LEMMA LeadsTail ==
  ASSUME NEW queue \in Seq(Event), queue # <<>>, NEW v, NEW w, Leads(queue, v, w)
  PROVE  \/ Head(queue) = BlockAdded /\ Leads(Tail(queue), v, w)
         \/ \E u \in Virtuals : Head(queue) = Change(v, u) /\ Leads(Tail(queue), u, w)
<1> DEFINE n == Len(queue)
           q == Tail(queue)
<1>1. PICK vs \in [0..n -> Virtuals] :
        /\ vs[0] = v /\ vs[n] = w
        /\ \A i \in 1..n : \/ queue[i] = BlockAdded /\ vs[i] = vs[i - 1]
                           \/ queue[i] = Change(vs[i - 1], vs[i])
  BY DEF Leads
<1> DEFINE ws == [i \in 0..n - 1 |-> vs[i + 1]]
<1>2. n \in Nat \ {0} /\ Head(queue) = queue[1]
  <2> HIDE DEF Event
  <2> QED OBVIOUS
<1>3. Len(q) = n - 1 /\ \A i \in 1..n - 1 : q[i] = queue[i + 1]
  <2> HIDE DEF Event
  <2> QED BY <1>2
<1>4. \/ queue[1] = BlockAdded /\ vs[1] = v
      \/ queue[1] = Change(v, vs[1])
  <2>1. 1 \in 1..n /\ 1 - 1 = 0
    BY <1>2
  <2> QED BY <1>1, <2>1
<1> HIDE DEF n, q
<1>5. ws \in [0..n - 1 -> Virtuals] /\ ws[0] = vs[1] /\ ws[n - 1] = w
  BY <1>1, <1>2
<1>6. ASSUME NEW i \in 1..n - 1
      PROVE  \/ q[i] = BlockAdded /\ ws[i] = ws[i - 1]
             \/ q[i] = Change(ws[i - 1], ws[i])
  <2>1. i + 1 \in 1..n /\ (i + 1) - 1 = i /\ i \in 0..n - 1 /\ i - 1 \in 0..n - 1 /\ (i - 1) + 1 = i
    BY <1>2
  <2>2. ws[i] = vs[i + 1] /\ ws[i - 1] = vs[i]
    BY <2>1
  <2>3. \/ queue[i + 1] = BlockAdded /\ vs[i + 1] = vs[i]
        \/ queue[i + 1] = Change(vs[i], vs[i + 1])
    BY <1>1, <2>1
  <2> QED BY <1>3, <2>2, <2>3
<1> HIDE DEF ws
<1>7. Leads(q, vs[1], w)
  BY <1>3, <1>5, <1>6, Zenon DEF Leads
<1>8. vs[1] \in Virtuals
  BY <1>1, <1>2
<1> QED BY <1>2, <1>4, <1>7, <1>8 DEF q

(* Applied to the index of the virtual they start from, the queued events  *)
(* yield the index of the one they lead to.                                *)
LEMMA CaughtUp ==
  ASSUME NEW queue \in Seq(Event), NEW v \in Virtuals, NEW w, Leads(queue, v, w),
         NEW S, OneEach(S), Outpoints(S) = Outpoints(Utxos(v))
  PROVE  Outpoints(Caught(queue, S)) = Outpoints(Utxos(w))
<1> DEFINE n == Len(queue)
           Applied(q, T) == IF q.kind = "block" THEN T
                            ELSE CommitStaged(T, StagedRemove(q), StagedAdd(q))
           From(f) == [i \in 0..n |-> IF i = 0 THEN S ELSE Applied(queue[i], f[i - 1])]
           caught == CHOOSE f : f = From(f)
<1>1. PICK vs \in [0..n -> Virtuals] :
        /\ vs[0] = v /\ vs[n] = w
        /\ \A i \in 1..n : \/ queue[i] = BlockAdded /\ vs[i] = vs[i - 1]
                           \/ queue[i] = Change(vs[i - 1], vs[i])
  BY DEF Leads
<1>2. n \in Nat
  OBVIOUS
<1>3. Caught(queue, S) = caught[n]
  BY DEF Caught
<1> HIDE DEF n
<1>4. \E f : f = From(f)
  <2> DEFINE Upto(m, f) == /\ f[0] = S
                           /\ \A i \in 1..m : f[i] = Applied(queue[i], f[i - 1])
             Done == {m \in 0..n : \E f : Upto(m, f)}
  <2>1. 0 \in Done
    <3>1. Upto(0, [i \in 0..0 |-> S])
      OBVIOUS
    <3> HIDE DEF Upto
    <3> QED BY <1>2, <3>1
  <2>2. \A m \in 0..n : (\A k \in 0..n : k < m => k \in Done) => m \in Done
    <3> SUFFICES ASSUME NEW m \in 0..n, m # 0, \A k \in 0..n : k < m => k \in Done
                 PROVE  m \in Done
      BY <2>1
    <3>1. m - 1 \in Done
      <4>1. m - 1 \in 0..n /\ m - 1 < m
        BY <1>2
      <4> HIDE DEF Done
      <4> QED BY <4>1
    <3>2. PICK f : Upto(m - 1, f)
      BY <3>1
    <3> DEFINE g == [i \in 0..m |-> IF i < m THEN f[i] ELSE Applied(queue[m], f[m - 1])]
    <3> HIDE DEF Applied
    <3>3. g[0] = S
      BY <1>2, <3>2
    <3>4. \A i \in 1..m : g[i] = Applied(queue[i], g[i - 1])
      BY <1>2, <3>2
    <3> QED BY <3>3, <3>4, Zenon
  <2>3. n \in Done
    <3> DEFINE B == {m \in 0..n : m \notin Done}
    <3> SUFFICES ASSUME B # {} PROVE FALSE
      <4>1. n \in 0..n
        BY <1>2
      <4> HIDE DEF Done
      <4> QED BY <4>1
    <3>1. B \subseteq Nat
      BY <1>2
    <3>2. PICK m \in B : \A k \in B : m <= k
      <4> HIDE DEF B
      <4> QED BY <3>1, LeastOf, Zenon
    <3>3. \A k \in 0..n : k < m => k \in Done
      <4> HIDE DEF Done
      <4> QED BY <1>2, <3>2
    <3> HIDE DEF Done
    <3> QED BY <2>2, <3>3
  <2>4. PICK f : Upto(n, f)
    BY <2>3
  <2> DEFINE g == [i \in 0..n |-> f[i]]
  <2>5. g = From(g)
    <3> HIDE DEF Applied
    <3> QED BY <1>2, <2>4
  <2> QED BY <2>5, Zenon
<1>5. caught = From(caught)
  <2> HIDE DEF From
  <2> QED BY <1>4
<1> HIDE DEF caught
<1>6. caught[0] = S /\ \A i \in 1..n : caught[i] = Applied(queue[i], caught[i - 1])
  <2> HIDE DEF Applied
  <2> QED BY <1>2, <1>5
<1> HIDE DEF From
<1> DEFINE Good == {m \in 0..n : OneEach(caught[m]) /\ Outpoints(caught[m]) = Outpoints(Utxos(vs[m]))}
<1>7. 0 \in Good
  BY <1>1, <1>2, <1>6
<1>8. ASSUME NEW m \in 1..n, m - 1 \in Good PROVE m \in Good
  <2>0. m \in 0..n /\ m - 1 \in 0..n /\ vs[m] \in Virtuals /\ vs[m - 1] \in Virtuals
    BY <1>1, <1>2
  <2>1. CASE queue[m] = BlockAdded /\ vs[m] = vs[m - 1]
    <3>1. caught[m] = caught[m - 1]
      BY <1>6, <2>1 DEF BlockAdded
    <3> QED BY <1>8, <2>0, <2>1, <3>1
  <2>2. CASE queue[m] = Change(vs[m - 1], vs[m])
    <3> DEFINE T == caught[m - 1]
               O == Utxos(vs[m - 1])
               N == Utxos(vs[m])
               q == queue[m]
    <3>1. q.kind # "block" /\ Moves(q, O, N)
      BY <2>2, SMTT(30) DEF Change, Moves
    <3>2. caught[m] = CommitStaged(T, StagedRemove(q), StagedAdd(q))
      BY <1>6, <3>1
    <3>3. OneEach(O) /\ OneEach(N) /\ OneEach(T) /\ Outpoints(T) = Outpoints(O)
      BY <1>8, <2>0, UtxosOneEach
    <3> HIDE DEF T, O, N, q
    <3>4. OneEach(caught[m]) /\ Outpoints(caught[m]) = Outpoints(N)
      BY <3>1, <3>2, <3>3, UpdateExact
    <3> QED BY <2>0, <3>2, <3>4 DEF N
  <2> QED BY <1>1, <2>1, <2>2
<1>9. n \in Good
  <2> DEFINE B == {m \in 0..n : m \notin Good}
  <2> SUFFICES ASSUME B # {} PROVE FALSE
    BY <1>2
  <2>1. B \subseteq Nat
    BY <1>2
  <2>2. PICK m \in B : \A k \in B : m <= k
    <3> HIDE DEF B
    <3> QED BY <2>1, LeastOf, Zenon
  <2> HIDE DEF Good
  <2>3. m \in 1..n /\ m - 1 \in Good
    BY <1>2, <1>7, <2>2
  <2> QED BY <1>8, <2>3
<1> QED BY <1>1, <1>3, <1>9

-----------------------------------------------------------------------------
(* Where the keys in the database and the instances in memory are, at each *)
(* step of the exchange, in every environment.                             *)
Pointers ==
  /\ active \in DbPrefixes /\ inserter \in DbPrefixes \cup {Absent}
  /\ inactive \in {Flip(active), Absent}
  /\ process \in {"down", "boot", "boot2", "up", "failed"}
  /\ ibd \in {"off", "create", "download", "commit", "delete", "clear", "point", "override"}
  /\ reset = [step |-> reset.step, virtual |-> reset.virtual, from |-> reset.from]
  /\ reset.step \in {"off", "unmark", "delete", "copy", "mark"}
  /\ process # "up" => ibd = "off" /\ staging = Absent /\ inserter = Absent /\ events = <<>>
  /\ process \in {"down", "boot", "failed"} => current = Absent /\ reset = NoReset
  /\ process = "boot2" => current = active /\ inactive = Absent /\ reset.step # "off"
  /\ process = "up" =>
       /\ current = IF ibd \in {"clear", "point"} THEN Flip(active) ELSE active
       /\ inactive = IF ibd \in {"off", "point", "override"} THEN Absent ELSE Flip(active)
       /\ staging = IF ibd \in {"off", "create", "override"} THEN Absent
                    ELSE IF ibd \in {"clear", "point"} THEN active ELSE Flip(active)
       /\ IF ibd = "override" THEN reset.step # "off" ELSE reset = NoReset

(* The values of the stores and of the channel.                            *)
Shapes ==
  /\ env \in Envs
  /\ content \in [DbPrefixes -> {"empty", "headers", "full", "remains", "mixed"}]
  /\ virtual \in [DbPrefixes -> Virtuals]
  /\ events \in Seq(Event)
  /\ Len(events) <= Capacity

(* The steps of the IBD at which the prefixes are not yet exchanged.       *)
Before == {"off", "create", "download", "commit", "delete"}

(* The prefix that is not active.                                          *)
Idle == Flip(active)

(* What the two prefixes hold.                                             *)
Contents ==
  env # "lateInserts" =>
    /\ \A p \in DbPrefixes : content[p] # "mixed"
    /\ content[active] = "full" \/ (env = "peerMovesOn" /\ content[active] = "headers")
    /\ (process = "up" /\ ibd \in Before) \/ process = "boot2" => content[active] = "full"
    /\ inactive = Absent /\ content[active] = "full" => content[Idle] = "empty"
    /\ ibd = "create" => content[Idle] = "empty"
    /\ ibd = "download" => content[Idle] = "headers"
    /\ ibd = "commit" => content[Idle] = "full" \/ (env = "peerMovesOn" /\ content[Idle] = "headers")
    /\ ibd = "clear" => content[Idle] \in {"full", "empty"}
    /\ ibd \in {"point", "override"} => content[Idle] = "empty"
    /\ inserter # Absent =>
         /\ inserter = IF ibd \in Before THEN active ELSE Idle
         /\ ibd = "commit" => content[Idle] = "headers"
         /\ ibd \notin Before => content[active] = "headers"

(* A copy of the outpoints of a virtual, with the supply.                  *)
CopyOf(v) ==
  /\ OneEach(entries) /\ Outpoints(entries) = Outpoints(Utxos(v))
  /\ supply = Cardinality(entries)

(* Parents, once written, are true of the index; the queue leads from them *)
(* to the virtual; and a Reset, during which there are none, has copied    *)
(* the outpoints up to the last one read.                                  *)
Index ==
  env = "quiet" =>
    /\ parents # Absent => parents \in Virtuals /\ CopyOf(parents)
    /\ ibd \in {"commit", "clear", "point", "override"} => events = <<>> /\ inserter = Absent
    /\ process = "up" /\ reset.step = "off" /\ ibd \notin {"clear", "point"} =>
         parents # Absent /\ Leads(events, parents, virtual[current])
    /\ reset.step \in {"delete", "copy", "mark"} => parents = Absent
    /\ reset.step \in {"copy", "mark"} =>
         /\ reset.virtual = virtual[current]
         /\ supply = Cardinality(entries)
    /\ reset.step = "copy" => reset.from \in Nat /\ entries = {e \in Utxos(reset.virtual) : e[1] <= reset.from}
    /\ reset.step = "mark" => entries = Utxos(reset.virtual)

IInv == Pointers /\ Shapes /\ Contents /\ Index

-----------------------------------------------------------------------------
(* The invariant.  Its first parts hold in every environment.              *)

(* Where the keys and the instances are.                                   *)
LEMMA PointersStep ==
  ASSUME Pointers, NextDomain
  PROVE  Pointers'
<1> USE DomainAssumption
    DEF Pointers, DbPrefixes, Flip, NoReset, bounds, diskVars, flowVars, indexVars
<1>1. CASE TakeConsensus
  BY <1>1 DEF TakeConsensus
<1>2. CASE InsertBlock
  BY <1>2 DEF InsertBlock, Die
<1>3. CASE InsertIntoDeleted
  BY <1>3 DEF InsertIntoDeleted, Die
<1>4. CASE HandleEvent
  BY <1>4 DEF HandleEvent, Update
<1>5. CASE InitStaging
  BY <1>5 DEF InitStaging
<1>6. CASE NewStaging
  BY <1>6 DEF NewStaging
<1>7. CASE Download
  BY <1>7 DEF Download
<1>8. CASE CommitSwap
  BY <1>8 DEF CommitSwap
<1>9. CASE CommitDelete
  BY <1>9 DEF CommitDelete, DeletePrefix
<1>10. CASE CommitPointer
  BY <1>10 DEF CommitPointer, StartReset
<1>11. CASE DeleteStaging
  BY <1>11 DEF DeleteStaging, DeletePrefix
<1>12. CASE ResetStep
  <2>1. CASE reset.step = "mark"
    BY <1>12, <2>1 DEF ResetStep, ResetUnmark, ResetDelete, ResetCopy, ResetMark
  <2>2. CASE reset.step # "mark"
    <3>1. /\ reset' = [step |-> reset'.step, virtual |-> reset'.virtual, from |-> reset'.from]
          /\ reset'.step \in {"delete", "copy", "mark"}
      BY <1>12, <2>2 DEF ResetStep, ResetUnmark, ResetDelete, ResetCopy, ResetMark
    <3>2. reset' # NoReset
      BY <3>1
    <3> QED BY <1>12, <3>1, <3>2 DEF ResetStep, ResetProceeds
  <2> QED BY <2>1, <2>2
<1>13. CASE ResetFails
  BY <1>13 DEF ResetFails, Panic, Die
<1>14. CASE ResetWithoutVirtual
  BY <1>14 DEF ResetWithoutVirtual, Die
<1>15. CASE CrashProcess
  BY <1>15 DEF CrashProcess, Die
<1>16. CASE Start
  BY <1>16 DEF Start
<1>17. CASE StartDelete
  BY <1>17 DEF StartDelete, DeletePrefix
<1>18. CASE StartConsensus
  BY <1>18 DEF StartConsensus, StartReset
<1> QED BY <1>1, <1>2, <1>3, <1>4, <1>5, <1>6, <1>7, <1>8, <1>9, <1>10, <1>11, <1>12, <1>13, <1>14, <1>15, <1>16, <1>17, <1>18, Zenon DEF NextDomain, Inserter, IBDFlow, Resetting, Starting

(* The two stores and the channel keep their shapes.                       *)
LEMMA ShapesStep ==
  ASSUME Pointers, Shapes, NextDomain
  PROVE  Shapes'
<1> USE DEF Shapes, bounds, diskVars
<1>0. <<>> \in Seq(Event) /\ Len(<<>>) <= Capacity
  BY DomainAssumption
<1>1. CASE TakeConsensus
  BY <1>1 DEF TakeConsensus
<1>2. CASE InsertBlock
  <2>1. inserter \in DbPrefixes /\ virtual[inserter] \in Virtuals
    BY <1>2 DEF InsertBlock, Pointers
  <2>2. PICK side \in {0, 1} :
          LET old == virtual[inserter]
              new == <<old[1] + 1, side>>
              sent == Append(events, BlockAdded)
          IN  /\ virtual' = [virtual EXCEPT ![inserter] = new]
              /\ \/ events' = <<>>
                 \/ /\ ~Full(events) /\ ~Full(sent)
                    /\ events' = Append(sent, Change(old, new))
    BY <1>2, Zenon DEF InsertBlock, Die
  <2> DEFINE new == <<virtual[inserter][1] + 1, side>>
             sent == Append(events, BlockAdded)
  <2>3. new \in Virtuals
    BY <1>2, <2>1, DomainAssumption DEF InsertBlock, Virtuals
  <2>4. virtual' \in [DbPrefixes -> Virtuals]
    <3> HIDE DEF new
    <3> QED BY <2>2, <2>3, Zenon DEF new
  <2>5. events' \in Seq(Event) /\ Len(events') <= Capacity
    <3>1. BlockAdded \in Event /\ Change(virtual[inserter], new) \in Event
      BY <2>1, <2>3 DEF Event
    <3>2. CASE events' = <<>>
      BY <3>2, DomainAssumption
    <3>3. CASE ~Full(events) /\ ~Full(sent) /\ events' = Append(sent, Change(virtual[inserter], new))
      <4> HIDE DEF new
      <4>1. Len(sent) = Len(events) + 1 /\ sent \in Seq(Event)
        BY <3>1
      <4> HIDE DEF sent
      <4> QED BY <3>1, <3>3, <4>1, DomainAssumption DEF Full
    <3> QED BY <2>2, <3>2, <3>3
  <2> QED BY <1>2, <2>4, <2>5 DEF InsertBlock
<1>3. CASE InsertIntoDeleted
  BY <1>0, <1>3, Zenon DEF InsertIntoDeleted, Die
<1>4. CASE HandleEvent
  <2>1. events' = Tail(events) /\ events # <<>> /\ UNCHANGED <<env, content, virtual>>
    BY <1>4 DEF HandleEvent
  <2>2. events' \in Seq(Event) /\ Len(events') <= Capacity
    BY <2>1, DomainAssumption
  <2> QED BY <2>1, <2>2
<1>5. CASE InitStaging
  BY <1>5 DEF InitStaging
<1>6. CASE NewStaging
  BY <1>6, Zenon DEF NewStaging
<1>7. CASE Download
  <2>1. staging = Flip(active) /\ staging \in DbPrefixes
    BY <1>7 DEF Download, Pointers, Flip, DbPrefixes
  <2>2. \A n \in virtual[active][1] + 1 .. MaxVirtual : <<n, 0>> \in Virtuals
    BY DomainAssumption DEF Virtuals, Pointers
  <2>3. virtual' \in [DbPrefixes -> Virtuals]
    BY <1>7, <2>1, <2>2 DEF Download
  <2> QED BY <1>7, <2>1, <2>3 DEF Download
<1>8. CASE CommitSwap
  BY <1>8 DEF CommitSwap
<1>9. CASE CommitDelete
  BY <1>9 DEF CommitDelete, DeletePrefix
<1>10. CASE CommitPointer
  BY <1>10 DEF CommitPointer, StartReset
<1>11. CASE DeleteStaging
  BY <1>11 DEF DeleteStaging, DeletePrefix
<1>12. CASE ResetStep
  BY <1>12 DEF ResetStep, ResetProceeds, ResetUnmark, ResetDelete, ResetCopy, ResetMark
<1>13. CASE ResetFails
  BY <1>0, <1>13 DEF ResetFails, Panic, Die
<1>14. CASE ResetWithoutVirtual
  BY <1>0, <1>14 DEF ResetWithoutVirtual, Die
<1>15. CASE CrashProcess
  BY <1>0, <1>15 DEF CrashProcess, Die
<1>16. CASE Start
  BY <1>16 DEF Start
<1>17. CASE StartDelete
  BY <1>17 DEF StartDelete, DeletePrefix
<1>18. CASE StartConsensus
  BY <1>18 DEF StartConsensus, StartReset
<1> QED BY <1>1, <1>2, <1>3, <1>4, <1>5, <1>6, <1>7, <1>8, <1>9, <1>10, <1>11, <1>12, <1>13, <1>14, <1>15, <1>16, <1>17, <1>18, Zenon DEF NextDomain, Inserter, IBDFlow, Resetting, Starting

(* What the prefixes hold.                                                 *)
LEMMA ContentsStep ==
  ASSUME Pointers, Shapes, Contents, NextDomain
  PROVE  Contents'
<1>0. content \in [DbPrefixes -> {"empty", "headers", "full", "remains", "mixed"}]
  BY SMTT(30) DEF Shapes
<1> USE DomainAssumption
    DEF Pointers, Contents, Before, Idle, DbPrefixes, Flip, NoReset, bounds, diskVars, flowVars, indexVars
<1>1. CASE TakeConsensus
  BY <1>1, SMTT(30) DEF TakeConsensus
<1>2. CASE InsertBlock
  BY <1>2, SMTT(30) DEF InsertBlock, Die
<1>3. CASE InsertIntoDeleted
  BY <1>0, <1>3, SMTT(30) DEF InsertIntoDeleted, Die
<1>4. CASE HandleEvent
  BY <1>4 DEF HandleEvent, Update
<1>5. CASE InitStaging
  BY <1>5 DEF InitStaging
<1>6. CASE NewStaging
  BY <1>0, <1>6, SMTT(30) DEF NewStaging
<1>7. CASE Download
  BY <1>0, <1>7 DEF Download
<1>8. CASE CommitSwap
  BY <1>8 DEF CommitSwap
<1>9. CASE CommitDelete
  BY <1>0, <1>9 DEF CommitDelete, DeletePrefix
<1>10. CASE CommitPointer
  BY <1>10, SMTT(30) DEF CommitPointer, StartReset
<1>11. CASE DeleteStaging
  BY <1>0, <1>11 DEF DeleteStaging, DeletePrefix
<1>12. CASE ResetStep
  BY <1>12 DEF ResetStep, ResetProceeds, ResetUnmark, ResetDelete, ResetCopy, ResetMark
<1>13. CASE ResetFails
  BY <1>13, SMTT(30) DEF ResetFails, Panic, Die
<1>14. CASE ResetWithoutVirtual
  BY <1>14 DEF ResetWithoutVirtual, Die
<1>15. CASE CrashProcess
  BY <1>15 DEF CrashProcess, Die
<1>16. CASE Start
  BY <1>16 DEF Start
<1>17. CASE StartDelete
  BY <1>0, <1>17 DEF StartDelete, DeletePrefix
<1>18. CASE StartConsensus
  BY <1>18 DEF StartConsensus, StartReset
<1> QED BY <1>1, <1>2, <1>3, <1>4, <1>5, <1>6, <1>7, <1>8, <1>9, <1>10, <1>11, <1>12, <1>13, <1>14, <1>15, <1>16, <1>17, <1>18, Zenon DEF NextDomain, Inserter, IBDFlow, Resetting, Starting

(* The index.                                                              *)
LEMMA IndexStep ==
  ASSUME IInv, NextDomain, env = "quiet"
  PROVE  Index'
<1>0. Pointers /\ Shapes /\ Contents /\ Index
  BY SMTT(30) DEF IInv
<1>1. CASE TakeConsensus
  BY <1>0, <1>1 DEF Index, TakeConsensus, bounds, diskVars, flowVars, indexVars, CopyOf, NoReset, Pointers
<1>2. CASE InsertBlock
  <2>1. /\ inserter = active /\ current = active /\ active \in DbPrefixes /\ ibd \in Before
        /\ process = "up" /\ reset = NoReset /\ ibd # "commit"
    BY <1>0, <1>2, SMTT(30) DEF InsertBlock, Pointers, Contents, Index, Before
  <2>2. parents # Absent /\ Leads(events, parents, virtual[current])
    BY <1>0, <2>1 DEF Index, Before, NoReset
  <2> DEFINE old == virtual[inserter]
             sent == Append(events, BlockAdded)
  <2>3. PICK side \in {0, 1} :
          /\ virtual' = [virtual EXCEPT ![inserter] = <<old[1] + 1, side>>]
          /\ IF Full(events) \/ Full(sent)
             THEN Die("down") /\ UNCHANGED <<entries, supply, parents>>
             ELSE /\ events' = Append(sent, Change(old, <<old[1] + 1, side>>))
                  /\ inserter' = Absent
                  /\ UNCHANGED <<current, staging, ibd, process, indexVars>>
    BY <1>2, Zenon DEF InsertBlock
  <2> DEFINE new == <<old[1] + 1, side>>
  <2>4. old \in Virtuals /\ new \in Virtuals
    BY <1>0, <1>2, <2>1, DomainAssumption DEF InsertBlock, Shapes, Virtuals
  <2>5. env' = env
    BY <1>2, SMTT(30) DEF InsertBlock, bounds
  <2>6. CASE Full(events) \/ Full(sent)
    BY <1>0, <2>3, <2>5, <2>6, SMTT(30) DEF Index, Die, NoReset, CopyOf
  <2>7. CASE ~(Full(events) \/ Full(sent))
    <3>1. Leads(events', parents, new)
      <4> HIDE DEF new
      <4> QED BY <1>0, <2>1, <2>2, <2>3, <2>4, <2>7, LeadsOn, Zenon DEF Shapes, new
    <3>2. virtual'[current'] = new
      BY <1>0, <2>1, <2>3, <2>7 DEF Shapes
    <3>3. UNCHANGED <<current, ibd, process, entries, supply, parents, reset>>
      BY <2>3, <2>7 DEF indexVars
    <3> HIDE DEF new, old, sent
    <3> QED BY <1>0, <2>1, <2>2, <2>5, <3>1, <3>2, <3>3 DEF Index, CopyOf, NoReset, Before
  <2> QED BY <2>6, <2>7, SMTT(30)
<1>3. CASE InsertIntoDeleted
  BY <1>0, <1>3 DEF Index, InsertIntoDeleted, Die, bounds, diskVars, flowVars, indexVars, CopyOf, NoReset
<1>4. CASE HandleEvent
  <2>1. /\ process = "up" /\ events # <<>> /\ events \in Seq(Event) /\ events' = Tail(events)
        /\ UNCHANGED <<env, ibd, inserter, process, current, virtual>>
    BY <1>0, <1>4 DEF HandleEvent, Shapes, bounds, diskVars, flowVars
  <2>2. ibd \notin {"commit", "clear", "point", "override"} /\ reset = NoReset
    BY <1>0, <2>1 DEF Pointers, Index
  <2>3. parents # Absent /\ Leads(events, parents, virtual[current]) /\ parents \in Virtuals /\ CopyOf(parents)
    BY <1>0, <2>1, <2>2 DEF Index, NoReset
  <2>4. CASE Head(events) = BlockAdded /\ Leads(events', parents, virtual[current])
    <3>1. UNCHANGED indexVars
      BY <1>4, <2>4 DEF HandleEvent, BlockAdded
    <3> QED BY <2>1, <2>2, <2>3, <2>4, <3>1 DEF Index, indexVars, CopyOf, NoReset
  <2>5. ASSUME NEW u \in Virtuals, Head(events) = Change(parents, u), Leads(events', u, virtual[current])
        PROVE  Index'
    <3> DEFINE event == Head(events)
    <3>1. event.kind = "virtual" /\ event.virtual = u /\ Moves(event, Utxos(parents), Utxos(u))
      <4>1. event = [kind |-> "virtual", toAdd |-> Utxos(u) \ Utxos(parents),
                     toRemove |-> Utxos(parents) \ Utxos(u), virtual |-> u]
        BY <2>5, Zenon DEF Change
      <4> HIDE DEF event
      <4> QED BY <4>1 DEF Moves
    <3>2. Update(event)
      BY <1>4, <3>1 DEF HandleEvent
    <3> HIDE DEF event
    <3>3. OneEach(entries') /\ Outpoints(entries') = Outpoints(Utxos(u)) /\ supply' = Cardinality(entries')
      <4>1. OneEach(Utxos(parents)) /\ OneEach(Utxos(u))
        BY <2>3, UtxosOneEach
      <4>2. /\ OneEach(entries) /\ Outpoints(entries) = Outpoints(Utxos(parents))
            /\ supply = Cardinality(entries)
        BY <2>3 DEF CopyOf
      <4>3. entries' = CommitStaged(entries, StagedRemove(event), StagedAdd(event))
        BY <3>2 DEF Update
      <4>4. /\ OneEach(entries') /\ Outpoints(entries') = Outpoints(Utxos(u))
            /\ Cardinality(entries') = Cardinality(entries) + Cardinality(StagedAdd(event))
                                         - Cardinality(StagedRemove(event))
        BY <3>1, <4>1, <4>2, <4>3, UpdateExact
      <4> QED BY <3>2, <4>2, <4>4 DEF Update, NewSupply
    <3>4. parents' = u /\ reset' = reset
      BY <3>1, <3>2, Zenon DEF Update
    <3>5. u # Absent
      BY DomainAssumption DEF Virtuals
    <3> QED BY <2>1, <2>2, <2>5, <3>3, <3>4, <3>5, SMTT(30) DEF Index, CopyOf, NoReset
  <2> QED BY <2>1, <2>3, <2>4, <2>5, LeadsTail
<1>5. CASE InitStaging
  BY <1>0, <1>5 DEF Index, InitStaging, bounds, diskVars, flowVars, indexVars, CopyOf, NoReset, Pointers
<1>6. CASE NewStaging
  BY <1>0, <1>6, SMTT(30) DEF Index, NewStaging, bounds, diskVars, flowVars, indexVars, CopyOf, NoReset, Pointers
<1>7. CASE Download
  <2>1. /\ staging = Flip(active) /\ current = active /\ staging # current /\ process = "up"
        /\ staging \in DbPrefixes /\ current \in DbPrefixes /\ reset = NoReset
    BY <1>0, <1>7 DEF Download, Pointers, Flip, DbPrefixes
  <2>2. virtual'[current] = virtual[current]
    BY <1>0, <1>7, <2>1 DEF Download, Shapes
  <2>3. UNCHANGED <<env, current, inserter, process, events, indexVars>>
    BY <1>7, ZenonT(40) DEF Download, bounds
  <2>4. \/ ibd' = "commit" /\ inserter = Absent /\ events = <<>>
        \/ ibd' = "delete"
    BY <1>7, Zenon DEF Download
  <2> QED BY <1>0, <1>7, <2>1, <2>2, <2>3, <2>4, SMTT(30) DEF Download, Index, CopyOf, NoReset, indexVars
<1>8. CASE CommitSwap
  BY <1>0, <1>8, SMTT(30) DEF Index, CommitSwap, bounds, diskVars, flowVars, indexVars, CopyOf, NoReset, Pointers
<1>9. CASE CommitDelete
  BY <1>0, <1>9 DEF Index, CommitDelete, DeletePrefix, bounds, diskVars, flowVars, indexVars, CopyOf, NoReset, Pointers
<1>10. CASE CommitPointer
  BY <1>0, <1>10, SMTT(30) DEF Index, CommitPointer, StartReset, bounds, diskVars, flowVars, indexVars, CopyOf, NoReset, Pointers
<1>11. CASE DeleteStaging
  BY <1>0, <1>11 DEF Index, DeleteStaging, DeletePrefix, bounds, diskVars, flowVars, indexVars, CopyOf, NoReset, Pointers
<1>12. CASE ResetStep
  <2> DEFINE v == virtual[current]
             U == Utxos(v)
  <2>1. /\ UNCHANGED <<env, virtual, current, inserter, events>> /\ current = active
        /\ events = <<>> /\ inserter = Absent /\ ibd \in {"off", "override"} /\ v \in Virtuals
        /\ reset = [step |-> reset.step, virtual |-> reset.virtual, from |-> reset.from]
        /\ reset'.step # "off" => UNCHANGED <<ibd, process>>
        /\ reset' = NoReset => ibd' = "off" /\ process' = "up"
        /\ reset.step # "off" /\ (process = "up" => ibd = "override")
    BY <1>0, <1>12 DEF ResetStep, ResetProceeds, Pointers, Shapes, Index, bounds, diskVars, NoReset
  <2>2. CASE ResetUnmark
    BY <2>1, <2>2 DEF ResetUnmark, Index
  <2>3. CASE ResetDelete(v)
    <3>1. OneEach(U) /\ Outpoints(U) \subseteq Nat \ {0}
      BY <2>1, UtxosOneEach
    <3>2. {e \in U : e[1] <= 0} = {}
      <4> HIDE DEF U
      <4>1. \A e \in U : e[1] \in Nat \ {0}
        BY <3>1 DEF Outpoints
      <4>2. \A e \in U : ~(e[1] <= 0)
        BY <4>1
      <4> QED BY <4>2
    <3>3. /\ reset.step = "delete" /\ entries' = {} /\ supply' = Cardinality(entries')
          /\ reset'.step = "copy" /\ reset'.virtual = v /\ reset'.from = 0 /\ UNCHANGED parents
      BY <2>3 DEF ResetDelete
    <3>4. parents = Absent
      BY <1>0, <3>3 DEF Index
    <3>5. entries' = {e \in Utxos(virtual'[current']) : e[1] <= 0}
      BY <2>1, <3>2, <3>3
    <3> HIDE DEF U
    <3> QED BY <2>1, <3>3, <3>4, <3>5 DEF Index
  <2>4. CASE ResetCopy(U)
    <3> DEFINE chunk == NextChunk(U)
    <3>1. OneEach(U) /\ Outpoints(U) \subseteq Nat \ {0}
      BY <2>1, UtxosOneEach
    <3>2. /\ reset.step = "copy" /\ reset.virtual = v /\ reset.from \in Nat /\ parents = Absent
          /\ entries = {e \in U : e[1] <= reset.from} /\ supply = Cardinality(entries)
      BY <1>0, <2>4 DEF ResetCopy, Index
    <3>3. /\ entries' = CommitStaged(entries, {}, chunk) /\ supply' = supply + Cardinality(chunk)
          /\ reset' = IF Cardinality(chunk) < Step THEN [reset EXCEPT !.step = "mark"]
                      ELSE [reset EXCEPT !.from = Max(Outpoints(chunk))]
          /\ UNCHANGED parents
      BY <2>4 DEF ResetCopy
    <3>4. /\ Cardinality(entries') = Cardinality(entries) + Cardinality(chunk)
          /\ Cardinality(chunk) < Step => entries' = U
          /\ ~(Cardinality(chunk) < Step) =>
               /\ Max(Outpoints(chunk)) \in Nat
               /\ entries' = {e \in U : e[1] <= Max(Outpoints(chunk))}
      BY <3>1, <3>2, <3>3, ChunkExact
    <3> HIDE DEF chunk
    <3>5. CASE Cardinality(chunk) < Step
      <4>1. reset'.step = "mark" /\ reset'.virtual = v
        BY <2>1, <3>2, <3>3, <3>5
      <4> QED BY <2>1, <3>2, <3>3, <3>4, <3>5, <4>1 DEF Index
    <3>6. CASE ~(Cardinality(chunk) < Step)
      <4>1. reset'.step = "copy" /\ reset'.virtual = v /\ reset'.from = Max(Outpoints(chunk))
        BY <2>1, <3>2, <3>3, <3>6, SMTT(30)
      <4> QED BY <2>1, <3>2, <3>3, <3>4, <3>6, <4>1 DEF Index
    <3> QED BY <3>5, <3>6
  <2>5. CASE ResetMark
    <3>1. /\ reset.step = "mark" /\ reset' = NoReset /\ parents' = v
          /\ entries = Utxos(v) /\ supply = Cardinality(entries) /\ UNCHANGED <<entries, supply>>
      BY <1>0, <2>5 DEF ResetMark, Index
    <3>2. OneEach(Utxos(v)) /\ Leads(<<>>, v, v)
      BY <2>1, UtxosOneEach, LeadsNowhere
    <3>3. v # Absent
      BY <2>1, DomainAssumption DEF Virtuals
    <3> HIDE DEF v
    <3>4. v = virtual'[current']
      BY <2>1, SMTT(30) DEF v
    <3> QED BY <2>1, <3>1, <3>2, <3>3, <3>4, SMTT(30) DEF Index, CopyOf, NoReset
  <2> QED BY <1>12, <2>2, <2>3, <2>4, <2>5, SMTT(30) DEF ResetStep
<1>13. CASE ResetFails
  BY <1>0, <1>13, SMTT(30) DEF Index, ResetFails, Panic, Die, bounds, diskVars, flowVars, indexVars, CopyOf, NoReset, Pointers
<1>14. CASE ResetWithoutVirtual
  BY <1>0, <1>14, SMTT(30) DEF Index, ResetWithoutVirtual, Die, bounds, diskVars, flowVars, indexVars, CopyOf, NoReset, Pointers
<1>15. CASE CrashProcess
  BY <1>0, <1>15, SMTT(30) DEF Index, CrashProcess, Die, bounds, diskVars, flowVars, indexVars, CopyOf, NoReset, Pointers
<1>16. CASE Start
  BY <1>0, <1>16, SMTT(30) DEF Index, Start, bounds, diskVars, flowVars, indexVars, CopyOf, NoReset, Pointers
<1>17. CASE StartDelete
  BY <1>0, <1>17 DEF Index, StartDelete, DeletePrefix, bounds, diskVars, flowVars, indexVars, CopyOf, NoReset, Pointers
<1>18. CASE StartConsensus
  <2>1. /\ env' = env /\ ibd' = "off" /\ events' = <<>> /\ ibd = "off"
        /\ UNCHANGED <<virtual, entries, supply, parents>>
    BY <1>0, <1>18, SMTT(30) DEF StartConsensus, Pointers, bounds, diskVars
  <2>2. CASE process' = "up"
    <3>1. /\ current' = active /\ reset' = reset /\ reset = NoReset /\ parents = virtual[active]
      BY <1>0, <1>18, <2>2 DEF StartConsensus, IsSynced, Pointers
    <3>2. virtual[active] \in Virtuals
      BY <1>0 DEF Pointers, Shapes
    <3>3. virtual[active] # Absent /\ Leads(<<>>, virtual[active], virtual[active])
      BY <3>2, LeadsNowhere, DomainAssumption, SMTT(30) DEF Virtuals
    <3> QED BY <1>0, <2>1, <3>1, <3>3, SMTT(30) DEF Index, CopyOf, NoReset
  <2>3. CASE process' # "up"
    <3>1. reset'.step \in {"off", "unmark"}
      BY <1>0, <1>18, <2>3, SMTT(30) DEF StartConsensus, StartReset, Pointers, NoReset
    <3> QED BY <1>0, <2>1, <2>3, <3>1 DEF Index, CopyOf
  <2> QED BY <2>2, <2>3
<1> QED BY <1>1, <1>2, <1>3, <1>4, <1>5, <1>6, <1>7, <1>8, <1>9, <1>10, <1>11, <1>12, <1>13, <1>14, <1>15, <1>16, <1>17, <1>18, Zenon DEF NextDomain, Inserter, IBDFlow, Resetting, Starting

(* The environment does not change.                                        *)
LEMMA EnvKept ==
  ASSUME NextDomain
  PROVE  env' = env
BY DEF NextDomain, Inserter, IBDFlow, Resetting, Starting, bounds, Panic,
       TakeConsensus, InsertBlock, InsertIntoDeleted, HandleEvent, InitStaging, NewStaging, Download,
       CommitSwap, CommitDelete, CommitPointer, DeleteStaging, ResetStep, ResetFails,
       ResetWithoutVirtual, CrashProcess, Start, StartDelete, StartConsensus

(* The node starts synced.                                                 *)
LEMMA InitIInv ==
  ASSUME InitDomain
  PROVE  IInv
<1>1. Pointers
  BY DEF InitDomain, Pointers, DbPrefixes, NoReset
<1>2. <<1, 0>> \in Virtuals
  <2>0. MaxVirtual \in Nat \ {0}
    BY DomainAssumption, Zenon
  <2>1. 1 \in 1..MaxVirtual
    BY <2>0
  <2> QED BY <2>1 DEF Virtuals
<1>3. Shapes
  <2>1. events \in Seq(Event) /\ Len(events) <= Capacity
    BY DomainAssumption DEF InitDomain
  <2>2. env \in Envs /\ virtual \in [DbPrefixes -> Virtuals]
    BY <1>2 DEF InitDomain
  <2>3. content \in [DbPrefixes -> {"empty", "headers", "full", "remains", "mixed"}]
    BY DEF InitDomain
  <2> QED BY <2>1, <2>2, <2>3 DEF Shapes
<1>4. Contents
  BY DEF InitDomain, Contents, Before, Idle, Flip, DbPrefixes
<1>5. Index
  <2>1. OneEach(Utxos(<<1, 0>>)) /\ Leads(<<>>, <<1, 0>>, <<1, 0>>) /\ <<1, 0>> # Absent
    BY <1>2, UtxosOneEach, LeadsNowhere, DomainAssumption DEF Virtuals
  <2>2. Cardinality(Utxos(<<1, 0>>)) = 1
    <3>1. Utxos(<<1, 0>>) = {Entry(1, 0)}
      <4>1. {j \in 1..1 : ~(j % 2 = 0 /\ j + 2 <= 1)} = {1}
        OBVIOUS
      <4> QED BY <4>1 DEF Utxos
    <3> QED BY <3>1, FS_Singleton
  <2>3. virtual[current] = <<1, 0>>
    BY DEF InitDomain, DbPrefixes
  <2> QED BY <1>2, <2>1, <2>2, <2>3, SMTT(30) DEF InitDomain, Index, CopyOf, NoReset
<1> QED BY <1>1, <1>3, <1>4, <1>5 DEF IInv

(* Every step keeps the invariant.                                         *)
LEMMA IInvStep ==
  ASSUME IInv, [NextDomain]_domainVars
  PROVE  IInv'
<1>1. CASE NextDomain
  <2>1. Pointers' /\ Shapes' /\ Contents'
    BY <1>1, PointersStep, ShapesStep, ContentsStep DEF IInv
  <2>2. Index'
    <3>1. CASE env = "quiet"
      BY <1>1, <3>1, IndexStep, Zenon
    <3>2. CASE env # "quiet"
      BY <1>1, <3>2, EnvKept DEF Index
    <3> QED BY <3>1, <3>2
  <2> QED BY <2>1, <2>2 DEF IInv
<1>2. CASE UNCHANGED domainVars
  <2> USE <1>2 DEF domainVars, indexVars, IInv
  <2>1. Pointers'
    BY SMTT(30) DEF Pointers
  <2>2. Shapes' /\ Contents'
    BY SMTT(30) DEF Shapes, Contents, Idle
  <2>3. Index'
    BY DEF Index, CopyOf
  <2> QED BY <2>1, <2>2, <2>3, SMTT(30)
<1> QED BY <1>1, <1>2

(* The invariant holds throughout.                                         *)
THEOREM DomainInvariance == SpecDomain => []IInv
BY InitIInv, IInvStep, PTL DEF SpecDomain

(* The keys, the data under the prefixes and the events channel keep to    *)
(* their types, in every environment; the channel never holds more than    *)
(* its capacity, and a node that is up has a consensus.                    *)
THEOREM DomainTyped == SpecDomain => []DomainTypeOK
<1>1. IInv => DomainTypeOK
  <2> SUFFICES ASSUME IInv PROVE DomainTypeOK
    OBVIOUS
  <2>1. \A p \in DbPrefixes : virtual[p][1] \in 1..MaxVirtual /\ virtual[p][2] \in {0, 1}
    BY DEF IInv, Shapes, Virtuals
  <2>2. /\ active \in DbPrefixes /\ {inactive, current, staging, inserter} \subseteq DbPrefixes \cup {Absent}
        /\ process \in {"down", "boot", "boot2", "up", "failed"}
        /\ process = "up" => current # Absent
    BY DomainAssumption DEF IInv, Pointers, Flip, DbPrefixes
  <2> QED BY <2>1, <2>2 DEF DomainTypeOK, IInv, Shapes
<1> QED BY <1>1, DomainInvariance, PTL

(* At every step of the exchange, of a download or of the start-up, and    *)
(* whatever crashes came before, the active prefix holds a complete        *)
(* consensus, and a staging consensus starts on an empty prefix.           *)
THEOREM ExchangeAlwaysSafe == SpecDomain => []ExchangeSafe
<1>1. IInv => ExchangeSafe
  BY DEF IInv, Contents, ExchangeSafe
<1> QED BY <1>1, DomainInvariance, PTL

(* The index is a copy for the virtual that it names, and the events       *)
(* queued lead from there to the virtual: nothing is lost by a full        *)
(* channel, a crash at any write or the exchange of the consensus.         *)
THEOREM IndexAlwaysConsistent == SpecDomain => []IndexConsistent
<1>1. IInv => IndexMarkTruthful
  BY DEF IInv, Index, CopyOf, IndexMarkTruthful
<1>2. IInv => NoChangeLost
  <2> SUFFICES ASSUME IInv, env = "quiet", process = "up", reset.step = "off", ibd \notin {"clear", "point"}
               PROVE  Outpoints(Caught(events, entries)) = Outpoints(Utxos(virtual[current]))
    BY DEF NoChangeLost
  <2>1. /\ parents \in Virtuals /\ Leads(events, parents, virtual[current]) /\ events \in Seq(Event)
        /\ OneEach(entries) /\ Outpoints(entries) = Outpoints(Utxos(parents))
    BY DEF IInv, Index, CopyOf, Shapes
  <2> QED BY <2>1, CaughtUp
<1> QED BY <1>1, <1>2, DomainInvariance, PTL DEF IndexConsistent
=============================================================================
