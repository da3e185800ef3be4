------------------------ MODULE ExecutionSlotsProofs ------------------------
(***************************************************************************)
(* Proofs about ExecutionSlots, for every number of executions, activities  *)
(* and every capacity.                                                      *)
(*                                                                          *)
(* Each method changes the activities of one execution, reconciles that     *)
(* execution and pumps the queue.  The lemmas follow that order: what the   *)
(* queue operators keep, what Reconcile restores, what Pump preserves.      *)
(***************************************************************************)
EXTENDS ExecutionSlots, FiniteSetTheorems, SequenceTheorems, TLAPS

\* e has an earlier place in q than f.
Before(q, e, f) == \E i, j \in DOMAIN q : i < j /\ q[i] = e /\ q[j] = f

\* Removing e from a duplicate-free queue removes exactly e, and the others keep
\* their order.
LEMMA DequeueFacts ==
    ASSUME NEW q \in Seq(Executions), NEW e \in Executions, Injective(q)
    PROVE  /\ Dequeue(q, e) \in Seq(Executions)
           /\ Injective(Dequeue(q, e))
           /\ \A f \in Executions : Waits(Dequeue(q, e), f) <=> Waits(q, f) /\ f # e
           /\ \A f, g \in Executions : Before(Dequeue(q, e), f, g) => Before(q, f, g)
<1>1. CASE ~Waits(q, e)
  BY <1>1 DEF Dequeue, Waits
<1>2. CASE Waits(q, e)
  <2> DEFINE k == CHOOSE i \in DOMAIN q : q[i] = e
             r == Dequeue(q, e)
  <2>1. k \in 1..Len(q) /\ q[k] = e
    BY <1>2 DEF Waits
  <2> HIDE DEF k
  <2> DEFINE u == SubSeq(q, 1, k - 1)
             v == SubSeq(q, k + 1, Len(q))
  <2>2. r = u \o v
    BY <1>2 DEF Dequeue, Without, k
  <2>3. /\ u \in Seq(Executions)
        /\ Len(u) = k - 1
        /\ \A i \in 1..(k - 1) : u[i] = q[i]
    BY <2>1
  <2>4. /\ v \in Seq(Executions)
        /\ Len(v) = Len(q) - k
        /\ \A i \in 1..(Len(q) - k) : v[i] = q[i + k]
    BY <2>1
  <2> HIDE DEF u, v, r
  <2>4a. /\ u \o v \in Seq(Executions)
         /\ Len(u \o v) = Len(u) + Len(v)
         /\ \A i \in 1..(Len(u) + Len(v)) :
               (u \o v)[i] = IF i <= Len(u) THEN u[i] ELSE v[i - Len(u)]
    BY <2>3, <2>4, ConcatProperties
  <2>5. /\ r \in Seq(Executions)
        /\ Len(r) = Len(q) - 1
        /\ \A i \in 1..(Len(q) - 1) : r[i] = IF i < k THEN q[i] ELSE q[i + 1]
    <3>0. /\ Len(u) = k - 1
          /\ Len(u) + Len(v) = Len(q) - 1
      BY <2>1, <2>3, <2>4
    <3>1. r \in Seq(Executions) /\ Len(r) = Len(q) - 1
      BY <2>2, <2>4a, <3>0
    <3>2. ASSUME NEW i \in 1..(Len(q) - 1)
          PROVE  r[i] = IF i < k THEN q[i] ELSE q[i + 1]
      <4>1. r[i] = IF i <= k - 1 THEN u[i] ELSE v[i - (k - 1)]
        BY <2>2, <2>4a, <3>0
      <4>2. CASE i < k
        BY <4>1, <4>2, <2>1, <2>3
      <4>3. CASE i >= k
        <5>1. i - (k - 1) \in 1..(Len(q) - k) /\ i - (k - 1) + k = i + 1
          BY <4>3, <2>1
        <5>2. v[i - (k - 1)] = q[i + 1]
          BY <5>1, <2>4
        <5> QED
          BY <4>1, <4>3, <5>2, <2>1
      <4> QED
        BY <4>2, <4>3, <2>1
    <3> QED
      BY <3>1, <3>2
  <2>6. Injective(r)
    <3> SUFFICES ASSUME NEW i \in 1..Len(r), NEW j \in 1..Len(r), r[i] = r[j]
                 PROVE  i = j
      BY <2>5 DEF Injective
    <3> DEFINE At(x) == IF x < k THEN x ELSE x + 1
    <3>1. /\ At(i) \in DOMAIN q /\ r[i] = q[At(i)]
          /\ At(j) \in DOMAIN q /\ r[j] = q[At(j)]
      BY <2>1, <2>5
    <3>2. At(i) = At(j)
      BY <3>1 DEF Injective
    <3> QED
      BY <3>2, <2>1
  <2>7. ASSUME NEW f \in Executions, Waits(r, f)
        PROVE  Waits(q, f) /\ f # e
    <3>1. PICK i \in 1..Len(r) : r[i] = f
      BY <2>5, <2>7 DEF Waits
    <3>2. \/ i < k /\ i \in DOMAIN q /\ q[i] = f
          \/ i >= k /\ i + 1 \in DOMAIN q /\ q[i + 1] = f
      BY <3>1, <2>1, <2>5
    <3> QED
      BY <3>2, <2>1 DEF Waits, Injective
  <2>8. ASSUME NEW f \in Executions, Waits(q, f), f # e
        PROVE  Waits(r, f)
    <3>1. PICK i \in 1..Len(q) : q[i] = f
      BY <2>8 DEF Waits
    <3>2. i # k
      BY <3>1, <2>1, <2>8
    <3>3. \/ i < k /\ i \in DOMAIN r /\ r[i] = f
          \/ i > k /\ i - 1 \in DOMAIN r /\ r[i - 1] = f
      BY <3>1, <3>2, <2>1, <2>5
    <3> QED
      BY <3>3 DEF Waits
  <2>9. ASSUME NEW f \in Executions, NEW g \in Executions, Before(r, f, g)
        PROVE  Before(q, f, g)
    <3>1. PICK i \in 1..Len(r), j \in 1..Len(r) : i < j /\ r[i] = f /\ r[j] = g
      BY <2>5, <2>9 DEF Before
    <3> DEFINE At(x) == IF x < k THEN x ELSE x + 1
    <3>2. /\ At(i) \in DOMAIN q /\ r[i] = q[At(i)]
          /\ At(j) \in DOMAIN q /\ r[j] = q[At(j)]
          /\ At(i) < At(j)
      BY <3>1, <2>1, <2>5
    <3> QED
      BY <3>1, <3>2 DEF Before
  <2> QED
    BY <2>5, <2>6, <2>7, <2>8, <2>9 DEF r
<1> QED
  BY <1>1, <1>2

\* Queueing e adds exactly e, once, and behind all that wait.
LEMMA EnqueueFacts ==
    ASSUME NEW q \in Seq(Executions), NEW e \in Executions, Injective(q)
    PROVE  /\ Enqueue(q, e) \in Seq(Executions)
           /\ Injective(Enqueue(q, e))
           /\ \A f \in Executions : Waits(Enqueue(q, e), f) <=> Waits(q, f) \/ f = e
           /\ \A f, g \in Executions :
                 Before(Enqueue(q, e), f, g) => Before(q, f, g) \/ ~Waits(q, g)
<1>1. CASE Waits(q, e)
  BY <1>1 DEF Enqueue
<1>2. CASE ~Waits(q, e)
  <2>1. Enqueue(q, e) = Append(q, e)
    BY <1>2 DEF Enqueue
  <2>2. /\ Append(q, e) \in Seq(Executions)
        /\ Len(Append(q, e)) = Len(q) + 1
        /\ \A i \in 1..Len(q) : Append(q, e)[i] = q[i]
        /\ Append(q, e)[Len(q) + 1] = e
    OBVIOUS
  <2>3. Injective(Append(q, e))
    BY <1>2, <2>2 DEF Injective, Waits
  <2>4. \A f \in Executions : Waits(Append(q, e), f) <=> Waits(q, f) \/ f = e
    <3> TAKE f \in Executions
    <3>1. Waits(Append(q, e), f) => Waits(q, f) \/ f = e
      BY <2>2 DEF Waits
    <3>2. Waits(q, f) => Waits(Append(q, e), f)
      BY <2>2 DEF Waits
    <3>3. f = e => Waits(Append(q, e), f)
      BY <2>2 DEF Waits
    <3> QED
      BY <3>1, <3>2, <3>3
  <2>5. ASSUME NEW f \in Executions, NEW g \in Executions, Before(Append(q, e), f, g), g # e
        PROVE  Before(q, f, g)
    <3>1. PICK i \in 1..(Len(q) + 1), j \in 1..(Len(q) + 1) :
             i < j /\ Append(q, e)[i] = f /\ Append(q, e)[j] = g
      BY <2>2, <2>5 DEF Before
    <3>2. j # Len(q) + 1
      BY <2>2, <2>5, <3>1
    <3>3. i \in DOMAIN q /\ j \in DOMAIN q /\ q[i] = f /\ q[j] = g
      BY <2>2, <3>1, <3>2
    <3> QED
      BY <3>1, <3>3 DEF Before
  <2> QED
    BY <1>2, <2>1, <2>2, <2>3, <2>4, <2>5
<1> QED
  BY <1>1, <1>2

-----------------------------------------------------------------------------
(* What reconciling one execution restores.                                 *)

\* Coherent but for e, whose activities have just changed.
CoherentBut(s, e) ==
    /\ \A f \in Executions \ {e} :
          /\ f \in s.active <=> InState(s, f, "active")
          /\ f \in s.active => ~InState(s, f, "queued")
          /\ InState(s, f, "queued") <=> Waits(s.queue, f)
    /\ InState(s, e, "active") => e \in s.active /\ ~InState(s, e, "queued")
    /\ Injective(s.queue)
    /\ s.ready \subseteq s.active

LEMMA ReconcileFacts ==
    ASSUME NEW s \in SlotsType, NEW e \in Executions, CoherentBut(s, e)
    PROVE  /\ Reconcile(s, e) \in SlotsType
           /\ IsCoherent(Reconcile(s, e))
           /\ Reconcile(s, e).active \subseteq s.active
           /\ Reconcile(s, e).capacity = s.capacity
           /\ \A f, g \in Executions :
                 Before(Reconcile(s, e).queue, f, g) => Before(s.queue, f, g) \/ ~Waits(s.queue, g)
<1> DEFINE t == Reconcile(s, e)
           d == Dequeue(s.queue, e)
           n == Enqueue(s.queue, e)
<1>0. s.queue \in Seq(Executions) /\ Injective(s.queue)
  BY DEF SlotsType, CoherentBut
<1>1. /\ d \in Seq(Executions) /\ Injective(d)
      /\ \A f \in Executions : Waits(d, f) <=> Waits(s.queue, f) /\ f # e
      /\ \A f, g \in Executions : Before(d, f, g) => Before(s.queue, f, g)
  BY <1>0, DequeueFacts
<1>2. /\ n \in Seq(Executions) /\ Injective(n)
      /\ \A f \in Executions : Waits(n, f) <=> Waits(s.queue, f) \/ f = e
      /\ \A f, g \in Executions : Before(n, f, g) => Before(s.queue, f, g) \/ ~Waits(s.queue, g)
  BY <1>0, EnqueueFacts
<1>3. CASE InState(s, e, "active")
  <2>1. t = [s EXCEPT !.active = @ \cup {e}, !.queue = d]
    BY <1>3 DEF Reconcile
  <2> HIDE DEF t, d, n
  <2>2. t.active = s.active \cup {e} /\ t.queue = d /\ t.state = s.state
        /\ t.ready = s.ready /\ t.capacity = s.capacity
    BY <2>1 DEF SlotsType
  <2>3. t \in SlotsType
    BY <2>1, <1>1 DEF SlotsType
  <2>4. \A f \in Executions : /\ InState(t, f, "active") <=> InState(s, f, "active")
                              /\ InState(t, f, "queued") <=> InState(s, f, "queued")
    BY <2>2 DEF InState
  <2>5. e \in s.active /\ ~InState(s, e, "queued")
    BY <1>3 DEF CoherentBut
  <2>6. ActiveIffRunning(t)
    BY <2>2, <2>4, <2>5, <1>3 DEF ActiveIffRunning, CoherentBut
  <2>7. WaitsIffQueued(t)
    BY <2>2, <2>4, <2>5, <1>1 DEF WaitsIffQueued, CoherentBut
  <2>8. IsCoherent(t)
    BY <2>2, <2>5, <2>6, <2>7, <1>1 DEF IsCoherent, CoherentBut
  <2> QED
    BY <1>1, <2>2, <2>3, <2>5, <2>8 DEF t
<1>4. CASE ~InState(s, e, "active")
  <2> DEFINE q == IF InState(s, e, "queued") THEN n ELSE d
  <2>1. t = [s EXCEPT !.active = @ \ {e}, !.ready = @ \ {e}, !.queue = q]
    BY <1>4 DEF Reconcile
  <2>q. /\ q \in Seq(Executions) /\ Injective(q)
        /\ \A f \in Executions \ {e} : Waits(q, f) <=> Waits(s.queue, f)
        /\ Waits(q, e) <=> InState(s, e, "queued")
        /\ \A f, g \in Executions : Before(q, f, g) => Before(s.queue, f, g) \/ ~Waits(s.queue, g)
    BY <1>1, <1>2
  <2> HIDE DEF t, d, n, q
  <2>2. t.active = s.active \ {e} /\ t.queue = q /\ t.state = s.state
        /\ t.ready = s.ready \ {e} /\ t.capacity = s.capacity
    BY <2>1 DEF SlotsType
  <2>3. t \in SlotsType
    BY <2>1, <2>q DEF SlotsType
  <2>4. \A f \in Executions : /\ InState(t, f, "active") <=> InState(s, f, "active")
                              /\ InState(t, f, "queued") <=> InState(s, f, "queued")
    BY <2>2 DEF InState
  <2>6. ActiveIffRunning(t)
    BY <2>2, <2>4, <1>4 DEF ActiveIffRunning, CoherentBut
  <2>7. WaitsIffQueued(t)
    BY <2>2, <2>4, <2>q DEF WaitsIffQueued, CoherentBut
  <2>8. IsCoherent(t)
    BY <2>2, <2>6, <2>7, <2>q DEF IsCoherent, CoherentBut
  <2> QED
    BY <2>2, <2>3, <2>8, <2>q DEF t
<1> QED
  BY <1>3, <1>4

-----------------------------------------------------------------------------
(* What pumping the queue preserves and establishes.                        *)

\* The first n entries of a duplicate-free queue are n executions.
LEMMA PrefixCardinality ==
    ASSUME NEW q \in Seq(Executions), Injective(q), NEW n \in 0..Len(q)
    PROVE  /\ IsFiniteSet({q[i] : i \in 1..n})
           /\ Cardinality({q[i] : i \in 1..n}) = n
<1> DEFINE S == {q[i] : i \in 1..n}
           f == [i \in 1..n |-> q[i]]
<1>1. f \in Bijection(1..n, S)
  BY DEF Bijection, Injection, Surjection, IsInjective, Injective
<1>2. IsFiniteSet(1..n) /\ Cardinality(1..n) = n
  BY FS_Interval
<1>3. ExistsBijection(1..n, S)
  BY <1>1 DEF ExistsBijection
<1> QED
  BY <1>2, <1>3, FS_Bijection

LEMMA PumpFacts ==
    ASSUME NEW s \in SlotsType, IsCoherent(s)
    PROVE  /\ Pump(s) \in SlotsType
           /\ IsCoherent(Pump(s))
           /\ IsWorkConserving(Pump(s))
           /\ Pump(s).capacity = s.capacity
           /\ s.active \subseteq Pump(s).active
           /\ Pump(s).active # s.active => Cardinality(Pump(s).active) <= s.capacity
           /\ \A f, g \in Executions : Before(Pump(s).queue, f, g) => Before(s.queue, f, g)
           /\ \A f \in Pump(s).active \ s.active, g \in Executions :
                 Waits(Pump(s).queue, g) => Before(s.queue, f, g)
<1> DEFINE t == Pump(s)
           n == Admissible(s)
           q == s.queue
           A == {q[i] : i \in 1..n}
           r == SubSeq(q, n + 1, Len(q))
           st == [e \in Executions |->
                     IF e \in A
                     THEN [a \in Activities |->
                             IF s.state[e][a] = "queued" THEN "active" ELSE s.state[e][a]]
                     ELSE s.state[e]]
<1>1. /\ q \in Seq(Executions) /\ Injective(q)
      /\ s.active \in SUBSET Executions /\ s.capacity \in Nat
  BY DEF SlotsType, IsCoherent
<1>2. IsFiniteSet(s.active) /\ Cardinality(s.active) \in Nat
  BY <1>1, SlotsAssumption, FS_Subset, FS_CardinalityType
<1>3. /\ n \in 0..Len(q)
      /\ n = 0 \/ n <= s.capacity - Cardinality(s.active)
      /\ n < Len(q) => n >= s.capacity - Cardinality(s.active)
  BY <1>1, <1>2 DEF Admissible, Free
<1> HIDE DEF n
<1>4. /\ t = [s EXCEPT !.state = st, !.active = @ \cup A, !.ready = @ \cup A, !.queue = r]
  BY DEF Pump, n
<1>5. A \subseteq Executions /\ \A e \in A : Waits(q, e)
  BY <1>1, <1>3 DEF Waits
<1>6. /\ r \in Seq(Executions)
      /\ Len(r) = Len(q) - n
      /\ \A i \in 1..(Len(q) - n) : r[i] = q[i + n]
  BY <1>1, <1>3
<1>7. IsFiniteSet(A) /\ Cardinality(A) = n
  BY <1>1, <1>3, PrefixCardinality
<1> HIDE DEF A, r, st, t, q
<1>8. A \cap s.active = {}
  BY <1>5 DEF IsCoherent, ActiveIffRunning, WaitsIffQueued, q
<1>9. \A e \in Executions : Waits(r, e) <=> Waits(q, e) /\ e \notin A
  <2> TAKE e \in Executions
  <2>1. ASSUME Waits(r, e) PROVE Waits(q, e) /\ e \notin A
    <3>1. PICK i \in 1..(Len(q) - n) : q[i + n] = e
      BY <2>1, <1>6 DEF Waits
    <3>2. i + n \in DOMAIN q /\ \A j \in 1..n : q[j] # e
      BY <3>1, <1>1, <1>3 DEF Injective
    <3> QED
      BY <3>1, <3>2 DEF Waits, A
  <2>2. ASSUME Waits(q, e), e \notin A PROVE Waits(r, e)
    <3>1. PICK i \in 1..Len(q) : q[i] = e
      BY <2>2, <1>1 DEF Waits
    <3>2. i > n
      BY <3>1, <2>2, <1>3 DEF A
    <3>3. i - n \in DOMAIN r /\ r[i - n] = e
      BY <3>1, <3>2, <1>6, <1>3, <1>1
    <3> QED
      BY <3>3 DEF Waits
  <2> QED
    BY <2>1, <2>2
<1>10. Injective(r)
  <2> SUFFICES ASSUME NEW i \in 1..(Len(q) - n), NEW j \in 1..(Len(q) - n), r[i] = r[j]
               PROVE  i = j
    BY <1>1, <1>3, <1>6 DEF Injective
  <2>1. i + n \in DOMAIN q /\ j + n \in DOMAIN q /\ q[i + n] = q[j + n]
    BY <1>1, <1>3, <1>6
  <2>2. i + n = j + n
    BY <2>1, <1>1 DEF Injective
  <2> QED
    BY <2>2, <1>1, <1>3
<1>11. /\ t.state = st /\ t.active = s.active \cup A /\ t.ready = s.ready \cup A
       /\ t.queue = r /\ t.capacity = s.capacity
  BY <1>4 DEF SlotsType
<1>12. st \in [Executions -> [Activities -> ActivityStates]]
  BY DEF st, SlotsType, ActivityStates
<1>13. t \in SlotsType
  BY <1>4, <1>5, <1>6, <1>12 DEF SlotsType
<1>14. \A e \in Executions :
          /\ e \notin A => t.state[e] = s.state[e]
          /\ e \in A => InState(t, e, "active") /\ ~InState(t, e, "queued")
  <2> TAKE e \in Executions
  <2>1. ASSUME e \in A
        PROVE  InState(t, e, "active") /\ ~InState(t, e, "queued")
    <3>1. PICK a \in Activities : s.state[e][a] = "queued"
      BY <2>1, <1>5 DEF IsCoherent, WaitsIffQueued, InState, q
    <3>2. \A b \in Activities :
             t.state[e][b] = IF s.state[e][b] = "queued" THEN "active" ELSE s.state[e][b]
      BY <2>1, <1>11 DEF st
    <3> QED
      BY <3>1, <3>2 DEF InState
  <2> QED
    BY <2>1, <1>11 DEF st
<1>15. ActiveIffRunning(t)
  BY <1>11, <1>14, <1>5 DEF ActiveIffRunning, IsCoherent, InState
<1>16. WaitsIffQueued(t)
  BY <1>9, <1>11, <1>14 DEF WaitsIffQueued, IsCoherent, InState, q
<1>17. IsCoherent(t)
  BY <1>10, <1>11, <1>15, <1>16 DEF IsCoherent
<1>18. Cardinality(t.active) = Cardinality(s.active) + n
  <2>1. Cardinality(s.active \cap A) = 0
    BY <1>8, FS_EmptySet
  <2>2. Cardinality(s.active \cup A)
          = Cardinality(s.active) + Cardinality(A) - Cardinality(s.active \cap A)
    BY <1>2, <1>7, FS_Union
  <2> QED
    BY <2>1, <2>2, <1>1, <1>2, <1>3, <1>7, <1>11
<1>19. IsWorkConserving(t)
  <2> SUFFICES ASSUME t.queue # << >> PROVE Cardinality(t.active) >= t.capacity
    BY DEF IsWorkConserving
  <2>1. n < Len(q)
    BY <1>6, <1>11, <1>1, <1>3
  <2> QED
    BY <2>1, <1>1, <1>2, <1>3, <1>11, <1>18
<1>20. t.active # s.active => Cardinality(t.active) <= s.capacity
  <2> SUFFICES ASSUME t.active # s.active PROVE Cardinality(t.active) <= s.capacity
    OBVIOUS
  <2>1. n # 0
    BY <1>11 DEF A
  <2> QED
    BY <2>1, <1>1, <1>2, <1>3, <1>18
<1>21. ASSUME NEW f \in Executions, NEW g \in Executions, Before(r, f, g)
       PROVE  Before(q, f, g)
  <2>1. PICK i \in 1..(Len(q) - n), j \in 1..(Len(q) - n) : i < j /\ r[i] = f /\ r[j] = g
    BY <1>1, <1>3, <1>6, <1>21 DEF Before
  <2>2. /\ i + n \in DOMAIN q /\ q[i + n] = f
        /\ j + n \in DOMAIN q /\ q[j + n] = g
        /\ i + n < j + n
    BY <2>1, <1>1, <1>3, <1>6
  <2> QED
    BY <2>2 DEF Before
<1>22. ASSUME NEW f \in A, NEW g \in Executions, Waits(r, g)
       PROVE  Before(q, f, g)
  <2>1. PICK i \in 1..n : q[i] = f
    BY <1>22 DEF A
  <2>2. PICK j \in 1..(Len(q) - n) : r[j] = g
    BY <1>1, <1>3, <1>6, <1>22 DEF Waits
  <2>3. /\ i \in DOMAIN q /\ j + n \in DOMAIN q
        /\ q[j + n] = g /\ i < j + n
    BY <2>1, <2>2, <1>1, <1>3, <1>6
  <2> QED
    BY <2>1, <2>3 DEF Before
<1>23. /\ \A f, g \in Executions : Before(t.queue, f, g) => Before(q, f, g)
       /\ \A f \in t.active \ s.active, g \in Executions : Waits(t.queue, g) => Before(q, f, g)
  BY <1>11, <1>21, <1>22
<1> QED
  BY <1>11, <1>13, <1>17, <1>19, <1>20, <1>23 DEF t, q

-----------------------------------------------------------------------------
(* Every method: change one execution's activities, reconcile it, pump.     *)

\* What FirstComeFirstServed says of a step from s to t.
Served(s, t) ==
    \A e, f \in Executions :
        Ahead(s, e, f) => /\ f \in t.active => ~Waits(t.queue, e)
                          /\ ~Ahead(t, f, e)

\* A queue that is reconciled, then pumped, serves in order: whoever the pump
\* admits before e was before e, or e is a newcomer.
LEMMA ServedInOrder ==
    ASSUME NEW s \in SlotsType, IsCoherent(s), NEW r \in SlotsType, NEW t \in SlotsType,
           r.active \subseteq s.active,
           \A f, g \in Executions :
              Before(r.queue, f, g) => Before(s.queue, f, g) \/ ~Waits(s.queue, g),
           \A f, g \in Executions : Before(t.queue, f, g) => Before(r.queue, f, g),
           \A f \in t.active \ r.active, g \in Executions :
              Waits(t.queue, g) => Before(r.queue, f, g)
    PROVE  Served(s, t)
<1> SUFFICES ASSUME NEW e \in Executions, NEW f \in Executions, Ahead(s, e, f)
             PROVE  (f \in t.active => ~Waits(t.queue, e)) /\ ~Ahead(t, f, e)
  BY DEF Served
<1>1. PICK i \in DOMAIN s.queue, j \in DOMAIN s.queue :
         i < j /\ s.queue[i] = e /\ s.queue[j] = f
  BY DEF Ahead
<1>2. s.queue \in Seq(Executions) /\ Injective(s.queue)
  BY DEF SlotsType, IsCoherent
<1>3. Waits(s.queue, e) /\ Waits(s.queue, f)
  BY <1>1 DEF Waits
<1>4. ~Before(s.queue, f, e)
  <2> SUFFICES ASSUME NEW x \in DOMAIN s.queue, NEW y \in DOMAIN s.queue,
                      x < y, s.queue[x] = f, s.queue[y] = e
               PROVE  FALSE
    BY DEF Before
  <2>1. x = j /\ y = i
    BY <1>1, <1>2 DEF Injective
  <2> QED
    BY <2>1, <1>1, <1>2
<1>5. ~Before(r.queue, f, e)
  BY <1>3, <1>4
<1>6. f \notin r.active
  BY <1>3 DEF IsCoherent, ActiveIffRunning, WaitsIffQueued
<1>7. ~Before(t.queue, f, e)
  BY <1>5
<1>8. ~Ahead(t, f, e)
  BY <1>7 DEF Ahead, Before
<1> QED
  BY <1>5, <1>6, <1>8

\* s with new activity states for e.
Changed(s, e, states) == [s EXCEPT !.state[e] = states]

LEMMA SettleFacts ==
    ASSUME NEW s \in SlotsType, IsCoherent(s), NEW e \in Executions,
           NEW states \in [Activities -> ActivityStates],
           \A a \in Activities : states[a] = "active" => e \in s.active,
           e \in s.active => \A a \in Activities : states[a] # "queued"
    PROVE  LET t == Settle(Changed(s, e, states), e)
           IN  /\ t \in SlotsType
               /\ IsCoherent(t)
               /\ IsWorkConserving(t)
               /\ ~(t.active \subseteq s.active) => Cardinality(t.active) <= t.capacity
               /\ Served(s, t)
<1> DEFINE c == Changed(s, e, states)
           r == Reconcile(c, e)
<1>1. /\ c.state = [s.state EXCEPT ![e] = states] /\ c.active = s.active
      /\ c.queue = s.queue /\ c.ready = s.ready /\ c.capacity = s.capacity
  BY DEF Changed, SlotsType
<1>2. c \in SlotsType
  BY DEF Changed, SlotsType
<1>3. c.state[e] = states /\ \A f \in Executions \ {e} : c.state[f] = s.state[f]
  BY <1>1 DEF SlotsType
<1> HIDE DEF c
<1>4. CoherentBut(c, e)
  <2>1. \A f \in Executions \ {e} :
          /\ f \in c.active <=> InState(c, f, "active")
          /\ f \in c.active => ~InState(c, f, "queued")
          /\ InState(c, f, "queued") <=> Waits(c.queue, f)
    BY <1>1, <1>3 DEF IsCoherent, ActiveIffRunning, WaitsIffQueued, InState
  <2>2. InState(c, e, "active") => e \in c.active /\ ~InState(c, e, "queued")
    BY <1>1, <1>3 DEF InState
  <2> QED
    BY <2>1, <2>2, <1>1 DEF CoherentBut, IsCoherent
<1>5. /\ r \in SlotsType /\ IsCoherent(r) /\ r.active \subseteq s.active
      /\ \A f, g \in Executions :
            Before(r.queue, f, g) => Before(s.queue, f, g) \/ ~Waits(s.queue, g)
  BY <1>1, <1>2, <1>4, ReconcileFacts
<1> HIDE DEF r
<1>6. /\ Pump(r) \in SlotsType
      /\ IsCoherent(Pump(r))
      /\ IsWorkConserving(Pump(r))
      /\ Pump(r).capacity = r.capacity
      /\ Pump(r).active # r.active => Cardinality(Pump(r).active) <= r.capacity
      /\ \A f, g \in Executions : Before(Pump(r).queue, f, g) => Before(r.queue, f, g)
      /\ \A f \in Pump(r).active \ r.active, g \in Executions :
            Waits(Pump(r).queue, g) => Before(r.queue, f, g)
  BY <1>5, PumpFacts
<1>7. Served(s, Pump(r))
  BY <1>5, <1>6, ServedInOrder
<1> QED
  BY <1>5, <1>6, <1>7 DEF Settle, c, r

\* The inductive invariant.
Inv == TypeOK /\ Coherent

InOrder == Served(slots, slots')

LEMMA InitInv == Init => Inv /\ WorkConserving
<1> SUFFICES ASSUME NEW c \in 1..CapacityLimit, slots = EmptySlots(c)
             PROVE  Inv /\ WorkConserving
  BY DEF Init
<1>1. /\ slots.capacity = c /\ slots.active = {} /\ slots.queue = << >> /\ slots.ready = {}
      /\ slots.state = [e \in Executions |-> [a \in Activities |-> "none"]]
  BY DEF EmptySlots
<1>2. TypeOK
  BY DEF TypeOK, SlotsType, EmptySlots, ActivityStates
<1>3. ActiveIffRunning(slots) /\ WaitsIffQueued(slots) /\ Injective(slots.queue)
  BY <1>1 DEF ActiveIffRunning, WaitsIffQueued, Injective, InState, Waits
<1> QED
  BY <1>1, <1>2, <1>3 DEF Inv, Coherent, IsCoherent, WorkConserving, IsWorkConserving

LEMMA NextInv ==
    ASSUME Inv, Next
    PROVE  Inv' /\ InOrder /\ AdmitsWithinCapacity /\ (WorkConserving => WorkConserving')
<1> USE DEF Inv, TypeOK, Coherent, WorkConserving, AdmitsWithinCapacity, InOrder
<1>0. ASSUME NEW e \in Executions, NEW states \in [Activities -> ActivityStates],
             \A a \in Activities : states[a] = "active" => e \in slots.active,
             e \in slots.active => \A a \in Activities : states[a] # "queued",
             slots' = Settle(Changed(slots, e, states), e)
      PROVE  Inv' /\ InOrder /\ AdmitsWithinCapacity /\ WorkConserving'
  BY <1>0, SettleFacts
<1>1. ASSUME NEW e \in Executions, NEW a \in Activities, NEW st \in ActivityStates,
             st = "active" => e \in slots.active,
             st = "queued" => e \notin slots.active,
             slots' = Settle([slots EXCEPT !.state[e][a] = st], e)
      PROVE  Inv' /\ InOrder /\ AdmitsWithinCapacity /\ WorkConserving'
  <2> DEFINE states == [slots.state[e] EXCEPT ![a] = st]
  <2>1. [slots EXCEPT !.state[e][a] = st] = Changed(slots, e, states)
    BY DEF Changed, SlotsType
  <2>2. states \in [Activities -> ActivityStates]
    BY DEF SlotsType
  <2>3. \A b \in Activities : states[b] = "active" => e \in slots.active
    BY <1>1 DEF IsCoherent, ActiveIffRunning, InState, SlotsType
  <2>4. e \in slots.active => \A b \in Activities : states[b] # "queued"
    BY <1>1 DEF IsCoherent, ActiveIffRunning, InState, SlotsType
  <2> QED
    BY <1>0, <1>1, <2>1, <2>2, <2>3, <2>4
<1>2. ASSUME NEW e \in Executions, NEW a \in Activities, Reserve(e, a)
      PROVE  Inv' /\ InOrder /\ AdmitsWithinCapacity /\ WorkConserving'
  BY <1>1, <1>2 DEF Reserve, ReserveIn, Admitted, ActivityStates
<1>3. ASSUME NEW e \in Executions, NEW a \in Activities, Suspend(e, a)
      PROVE  Inv' /\ InOrder /\ AdmitsWithinCapacity /\ WorkConserving'
  BY <1>1, <1>3 DEF Suspend, SuspendIn, ActivityStates
<1>4. ASSUME NEW e \in Executions, NEW a \in Activities, Resume(e, a)
      PROVE  Inv' /\ InOrder /\ AdmitsWithinCapacity /\ WorkConserving'
  BY <1>1, <1>4 DEF Resume, ResumeIn, Admitted, ActivityStates
<1>5. ASSUME NEW e \in Executions, NEW a \in Activities, Release(e, a)
      PROVE  Inv' /\ InOrder /\ AdmitsWithinCapacity /\ WorkConserving'
  BY <1>1, <1>5 DEF Release, ReleaseIn, ActivityStates
<1>6. ASSUME NEW e \in Executions, ReleaseExecution(e)
      PROVE  Inv' /\ InOrder /\ AdmitsWithinCapacity /\ WorkConserving'
  <2> DEFINE states == [a \in Activities |-> "none"]
  <2>1. slots' = Settle(Changed(slots, e, states), e)
    BY <1>6 DEF ReleaseExecution, ReleaseExecutionIn, Changed
  <2>2. states \in [Activities -> ActivityStates]
    BY DEF ActivityStates
  <2> QED
    BY <1>0, <2>1, <2>2
<1>7. ASSUME NEW c \in 0..(CapacityLimit + 1), SetCapacity(c)
      PROVE  Inv' /\ InOrder /\ AdmitsWithinCapacity /\ WorkConserving'
  <2> DEFINE d == [slots EXCEPT !.capacity = c]
  <2>1. slots' = Pump(d) /\ c \in 1..CapacityLimit
    BY <1>7 DEF SetCapacity, SetCapacityIn, WithinLimit
  <2>2. /\ d \in SlotsType
        /\ d.state = slots.state /\ d.active = slots.active
        /\ d.queue = slots.queue /\ d.ready = slots.ready
    BY <2>1 DEF SlotsType
  <2> HIDE DEF d
  <2>3. IsCoherent(d)
    BY <2>2 DEF IsCoherent, ActiveIffRunning, WaitsIffQueued, InState
  <2>4. Served(slots, Pump(d))
    BY <2>2, <2>3, PumpFacts, ServedInOrder
  <2> QED
    BY <2>1, <2>2, <2>3, <2>4, PumpFacts
<1>8. ASSUME TakeReady
      PROVE  Inv' /\ InOrder /\ AdmitsWithinCapacity /\ (WorkConserving => WorkConserving')
  <2>1. slots' = [slots EXCEPT !.ready = {}]
    BY <1>8 DEF TakeReady
  <2>2. /\ slots' \in SlotsType /\ slots'.ready = {}
        /\ slots'.state = slots.state /\ slots'.active = slots.active
        /\ slots'.queue = slots.queue /\ slots'.capacity = slots.capacity
    BY <2>1 DEF SlotsType
  <2>3. IsCoherent(slots')
    BY <2>2 DEF IsCoherent, ActiveIffRunning, WaitsIffQueued, InState
  <2>4. Served(slots, slots')
    BY <2>2, ServedInOrder
  <2> QED
    BY <2>2, <2>3, <2>4 DEF IsWorkConserving
<1> QED
  BY <1>2, <1>3, <1>4, <1>5, <1>6, <1>7, <1>8 DEF Next

-----------------------------------------------------------------------------
(* The theorems.                                                            *)

\* The fields keep their types and the derived collections always agree with
\* the activity states (execution-slots.ts, reconcile and pump).
THEOREM SlotsCoherent == Spec => [](TypeOK /\ Coherent)
<1>1. Init => Inv
  BY InitInv
<1>2. Inv /\ [Next]_slots => Inv'
  <2> SUFFICES ASSUME Inv, [Next]_slots PROVE Inv'
    OBVIOUS
  <2>1. CASE Next
    BY <2>1, NextInv
  <2>2. CASE UNCHANGED slots
    BY <2>2 DEF Inv, TypeOK, Coherent
  <2> QED
    BY <2>1, <2>2
<1> QED
  BY <1>1, <1>2, PTL DEF Spec, Inv

\* No call leaves a slot idle while an execution waits for one.
THEOREM SlotsWorkConserving == Spec => []WorkConserving
<1>1. Init => Inv /\ WorkConserving
  BY InitInv
<1>2. Inv /\ WorkConserving /\ [Next]_slots => Inv' /\ WorkConserving'
  <2> SUFFICES ASSUME Inv, WorkConserving, [Next]_slots PROVE Inv' /\ WorkConserving'
    OBVIOUS
  <2>1. CASE Next
    BY <2>1, NextInv
  <2>2. CASE UNCHANGED slots
    BY <2>2 DEF Inv, TypeOK, Coherent, WorkConserving
  <2> QED
    BY <2>1, <2>2
<1> QED
  BY <1>1, <1>2, PTL DEF Spec

\* No call admits an execution beyond the capacity in force, although a
\* lowered capacity preempts nobody.
THEOREM SlotsNoOverAdmission == Spec => NoOverAdmission
<1>1. Inv /\ [Next]_slots => [AdmitsWithinCapacity]_slots
  BY NextInv
<1>2. Spec => []Inv
  BY SlotsCoherent DEF Inv
<1> QED
  BY <1>1, <1>2, PTL DEF Spec, NoOverAdmission

\* Of two waiting executions the later one never gets a slot while the earlier
\* one still waits, and no call swaps their places (pump admits from the head,
\* Map.set keeps the place of one that waits already).
THEOREM SlotsFirstComeFirstServed == Spec => FirstComeFirstServed
<1> DEFINE Fair == \A e, f \in Executions :
                     Ahead(slots, e, f) =>
                        /\ f \in slots'.active => ~Waits(slots'.queue, e)
                        /\ ~Ahead(slots', f, e)
<1>1. Inv /\ [Next]_slots => [Fair]_slots
  BY NextInv DEF InOrder, Served
<1>2. Spec => []Inv
  BY SlotsCoherent DEF Inv
<1> QED
  BY <1>1, <1>2, PTL DEF Spec, FirstComeFirstServed
=============================================================================
