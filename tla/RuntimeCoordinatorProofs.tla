----------------------- MODULE RuntimeCoordinatorProofs -----------------------
(***************************************************************************)
(* Proofs about RuntimeCoordinator, for any finite sets of runs and owners, *)
(* any sessions, keys, calls and limits, and whatever the port answers.     *)
(*                                                                         *)
(* IInv adds to the properties what they rest on: CallsSound says what the *)
(* coordinator may still assume when a call is answered (a claim's frame is *)
(* untouched, a release's gate is closed and its run holds nothing),       *)
(* ClaimsLast that the port's queue holds one claim per session with no    *)
(* release behind it, Numbered that no two leases or claims share a number, *)
(* so that a permit pins one lease only, and Accounted that a run has its  *)
(* session's reservation exactly while it has a slot.  Capacity, queue and *)
(* physical activity have lemmas of their own; then every operation has    *)
(* one.  What the fold of releaseQueuedOwner keeps is shown by induction   *)
(* over the finite set it folds.                                           *)
(***************************************************************************)
EXTENDS RuntimeCoordinator, FiniteSetTheorems, TLAPS

-----------------------------------------------------------------------------
(* The slots, seen from the coordinator: which runs are known.              *)

\* The cardinality of the slots' module is that of this one.
LEMMA SlotCardinality ==
    /\ \A S : Slots!Cardinality(S) = Cardinality(S)
    /\ \A S \in SUBSET Runs : IsFiniteSet(S) /\ Cardinality(S) \in Nat
<1>1. \A S : Slots!Cardinality(S) = Cardinality(S)
  BY DEF Slots!Cardinality, Cardinality
<1>2. \A S \in SUBSET Runs : IsFiniteSet(S) /\ Cardinality(S) \in Nat
  BY LeaseAssumption, FS_Subset, FS_CardinalityType
<1> QED
  BY <1>1, <1>2

\* A queue of runs stays one when a run leaves or joins it.
LEMMA SlotQueue ==
    ASSUME NEW q \in Seq(Runs), NEW r \in Runs
    PROVE  /\ Slots!Dequeue(q, r) \in Seq(Runs)
           /\ Slots!Enqueue(q, r) \in Seq(Runs)
<1>1. Slots!Enqueue(q, r) \in Seq(Runs)
  BY DEF Slots!Enqueue
<1>2. CASE ~Slots!Waits(q, r)
  BY <1>1, <1>2 DEF Slots!Dequeue
<1>3. CASE Slots!Waits(q, r)
  <2> DEFINE k == CHOOSE i \in DOMAIN q : q[i] = r
  <2>1. k \in 1..Len(q)
    BY <1>3 DEF Slots!Waits
  <2>2. Slots!Dequeue(q, r) = SubSeq(q, 1, k - 1) \o SubSeq(q, k + 1, Len(q))
    BY <1>3 DEF Slots!Dequeue, Slots!Without
  <2> HIDE DEF k
  <2>3. SubSeq(q, 1, k - 1) \in Seq(Runs) /\ SubSeq(q, k + 1, Len(q)) \in Seq(Runs)
    BY <2>1
  <2> QED
    BY <1>1, <2>2, <2>3
<1> QED
  BY <1>2, <1>3

\* A run is known while one of its activities exists.
Known(sl) == Slots!KnownExecutions(sl)

\* Which runs are known depends on the states of the slots alone.
LEMMA KnownByState ==
    ASSUME NEW sl, NEW tl,
           \A r \in Runs : sl.state[r]["execution"] = "none" <=> tl.state[r]["execution"] = "none"
    PROVE  Known(sl) = Known(tl)
BY DEF Known, Slots!KnownExecutions, Slots!Held

\* A run is known while its slot has a state.
LEMMA KnownIff ==
    ASSUME NEW sl, NEW r \in Runs
    PROVE  r \in Known(sl) <=> sl.state[r]["execution"] # "none"
BY DEF Known, Slots!KnownExecutions, Slots!Held

\* Reconciling a run and pumping the queue make no run known or unknown.
LEMMA SettleKeeps ==
    ASSUME NEW sl \in Slots!SlotsType, NEW r \in Runs
    PROVE  /\ Slots!Reconcile(sl, r) \in Slots!SlotsType
           /\ Known(Slots!Reconcile(sl, r)) = Known(sl)
<1> DEFINE t == Slots!Reconcile(sl, r)
<1>1. /\ Slots!Dequeue(sl.queue, r) \in Seq(Runs)
      /\ Slots!Enqueue(sl.queue, r) \in Seq(Runs)
  BY SlotQueue DEF Slots!SlotsType
<1>2. t \in Slots!SlotsType /\ t.state = sl.state
  BY <1>1 DEF Slots!Reconcile, Slots!SlotsType
<1>3. Known(t) = Known(sl)
  BY <1>2, KnownByState
<1> QED
  BY <1>2, <1>3

\* Pumping admits queued runs; it makes none known or unknown.
LEMMA PumpKeeps ==
    ASSUME NEW sl \in Slots!SlotsType
    PROVE  /\ Slots!Pump(sl) \in Slots!SlotsType
           /\ Known(Slots!Pump(sl)) = Known(sl)
<1> DEFINE n == Slots!Admissible(sl)
           admitted == {sl.queue[i] : i \in 1..n}
           t == Slots!Pump(sl)
<1>1. n \in 0..Len(sl.queue)
  <2>1. Slots!Cardinality(sl.active) \in Nat
    BY SlotCardinality DEF Slots!SlotsType
  <2>2. sl.capacity \in Int /\ Len(sl.queue) \in Nat
    BY CoordinatorAssumption DEF Slots!SlotsType
  <2> QED
    BY <2>1, <2>2 DEF Slots!Admissible, Slots!Free
<1>2. admitted \subseteq Runs /\ SubSeq(sl.queue, n + 1, Len(sl.queue)) \in Seq(Runs)
  BY <1>1 DEF Slots!SlotsType
<1> DEFINE st == [e \in Runs |-> IF e \in admitted
                                 THEN [a \in {"execution"} |->
                                         IF sl.state[e][a] = "queued" THEN "active" ELSE sl.state[e][a]]
                                 ELSE sl.state[e]]
           q == SubSeq(sl.queue, n + 1, Len(sl.queue))
<1>3. t = [sl EXCEPT !.state = st, !.active = @ \cup admitted, !.ready = @ \cup admitted, !.queue = q]
  BY DEF Slots!Pump, Slots!SlotsType
<1>4. st \in [Runs -> [{"execution"} -> Slots!ActivityStates]]
  BY DEF Slots!SlotsType, Slots!ActivityStates
<1>5. \A r \in Runs : sl.state[r]["execution"] = "none" <=> st[r]["execution"] = "none"
  OBVIOUS
<1> HIDE DEF n, admitted, t, st, q
<1>6. t \in Slots!SlotsType /\ t.state = st
  BY <1>2, <1>3, <1>4 DEF Slots!SlotsType, q
<1>7. Known(t) = Known(sl)
  BY <1>5, <1>6, KnownByState
<1> QED
  BY <1>6, <1>7 DEF t

\* Taking the hints leaves the runs as they are.
LEMMA NotifiedKeeps ==
    ASSUME NEW sl \in Slots!SlotsType
    PROVE  Notified(sl) \in Slots!SlotsType /\ Known(Notified(sl)) = Known(sl)
<1>1. Notified(sl) \in Slots!SlotsType /\ Notified(sl).state = sl.state
  BY DEF Notified, Slots!SlotsType
<1> QED
  BY <1>1, KnownByState

\* Another capacity makes no run known or unknown.
LEMMA SetCapacityKeeps ==
    ASSUME NEW sl \in Slots!SlotsType, NEW n \in 1..CapacityLimit
    PROVE  /\ Slots!SetCapacityIn(sl, n) \in Slots!SlotsType
           /\ Known(Slots!SetCapacityIn(sl, n)) = Known(sl)
<1> DEFINE u == [sl EXCEPT !.capacity = n]
<1>1. u \in Slots!SlotsType /\ u.state = sl.state
  BY DEF Slots!SlotsType
<1>2. Known(u) = Known(sl)
  BY <1>1, KnownByState
<1> QED
  BY <1>1, <1>2, PumpKeeps DEF Slots!SetCapacityIn

\* What each method of the slots does to the known runs.
LEMMA SlotMethods ==
    ASSUME NEW sl \in Slots!SlotsType, NEW r \in Runs
    PROVE  /\ Slots!ReserveIn(sl, r, "execution") \in Slots!SlotsType
           /\ Known(Slots!ReserveIn(sl, r, "execution")) = Known(sl) \cup {r}
           /\ Slots!ReleaseExecutionIn(sl, r) \in Slots!SlotsType
           /\ Known(Slots!ReleaseExecutionIn(sl, r)) = Known(sl) \ {r}
           /\ r \in Known(sl) =>
                 /\ Slots!SuspendIn(sl, r, "execution") \in Slots!SlotsType
                 /\ Known(Slots!SuspendIn(sl, r, "execution")) = Known(sl)
                 /\ Slots!ResumeIn(sl, r, "execution") \in Slots!SlotsType
                 /\ Known(Slots!ResumeIn(sl, r, "execution")) = Known(sl)
<1>1. ASSUME NEW st \in Slots!ActivityStates
      PROVE  LET t == Slots!Settle([sl EXCEPT !.state[r]["execution"] = st], r)
             IN  /\ t \in Slots!SlotsType
                 /\ Known(t) = IF st = "none" THEN Known(sl) \ {r} ELSE Known(sl) \cup {r}
  <2> DEFINE u == [sl EXCEPT !.state[r]["execution"] = st]
  <2>1. /\ u \in Slots!SlotsType
        /\ \A e \in Runs : u.state[e]["execution"] = IF e = r THEN st ELSE sl.state[e]["execution"]
    BY DEF Slots!SlotsType
  <2> HIDE DEF u
  <2>2. Known(u) = IF st = "none" THEN Known(sl) \ {r} ELSE Known(sl) \cup {r}
    BY <2>1 DEF Known, Slots!KnownExecutions, Slots!Held
  <2>3. /\ Slots!Settle(u, r) \in Slots!SlotsType
        /\ Known(Slots!Settle(u, r)) = Known(u)
    BY <2>1, SettleKeeps, PumpKeeps DEF Slots!Settle
  <2> QED
    BY <2>2, <2>3 DEF u
<1>2. Slots!Admitted(sl, r) \in {"active", "queued"} /\ {"active", "queued", "none", "suspended"} \subseteq Slots!ActivityStates
  BY DEF Slots!Admitted, Slots!ActivityStates
<1>3. r \in Known(sl) <=> sl.state[r]["execution"] # "none"
  BY KnownIff
<1>4. /\ Slots!ReserveIn(sl, r, "execution") \in Slots!SlotsType
      /\ Known(Slots!ReserveIn(sl, r, "execution")) = Known(sl) \cup {r}
  BY <1>1, <1>2, <1>3 DEF Slots!ReserveIn
<1>5. /\ Slots!ReleaseExecutionIn(sl, r) \in Slots!SlotsType
      /\ Known(Slots!ReleaseExecutionIn(sl, r)) = Known(sl) \ {r}
  <2>1. CASE r \notin Known(sl)
    BY <2>1 DEF Slots!ReleaseExecutionIn, Known
  <2>2. CASE r \in Known(sl)
    <3>1. [sl EXCEPT !.state[r] = [a \in {"execution"} |-> "none"]]
             = [sl EXCEPT !.state[r]["execution"] = "none"]
      BY DEF Slots!SlotsType
    <3>2. Slots!ReleaseExecutionIn(sl, r)
             = Slots!Settle([sl EXCEPT !.state[r]["execution"] = "none"], r)
      BY <2>2, <3>1 DEF Slots!ReleaseExecutionIn, Known
    <3> QED
      BY <1>1, <1>2, <3>2
  <2> QED
    BY <2>1, <2>2
<1>7. r \in Known(sl) =>
         /\ Slots!SuspendIn(sl, r, "execution") \in Slots!SlotsType
         /\ Known(Slots!SuspendIn(sl, r, "execution")) = Known(sl)
  BY <1>1, <1>2 DEF Slots!SuspendIn
<1>8. r \in Known(sl) =>
         /\ Slots!ResumeIn(sl, r, "execution") \in Slots!SlotsType
         /\ Known(Slots!ResumeIn(sl, r, "execution")) = Known(sl)
  BY <1>1, <1>2 DEF Slots!ResumeIn
<1> QED
  BY <1>4, <1>5, <1>7, <1>8

-----------------------------------------------------------------------------
(* Reservations and slots.                                                  *)

\* A session's reservation is for a run of the session, and a run has a slot
\* exactly while it holds its session's reservation.
Accounted(c) ==
    /\ c \in Capacities
    /\ \A s \in Sessions : c.reserved[s] # None => SessionOf[c.reserved[s].run] = s
    /\ \A r \in Runs :
          r \in Known(c.slots) <=> /\ c.reserved[SessionOf[r]] # None
                                   /\ c.reserved[SessionOf[r]].run = r

\* A change of the slots that makes no run known or unknown.
LEMMA SlotsMove ==
    ASSUME NEW c, Accounted(c), NEW sl \in Slots!SlotsType, Known(sl) = Known(c.slots)
    PROVE  Accounted([c EXCEPT !.slots = Notified(sl)])
<1> DEFINE d == [c EXCEPT !.slots = Notified(sl)]
<1>1. Notified(sl) \in Slots!SlotsType /\ Known(Notified(sl)) = Known(c.slots)
  BY NotifiedKeeps
<1>2. d \in Capacities /\ d.reserved = c.reserved /\ d.slots = Notified(sl)
  BY <1>1 DEF Accounted, Capacities
<1> QED
  BY <1>1, <1>2 DEF Accounted

\* releaseCapacity drops the reservation and the slot of its run together.
LEMMA WithoutReservationFacts ==
    ASSUME NEW c, Accounted(c), NEW s \in Sessions
    PROVE  /\ Accounted(WithoutReservation(c, s))
           /\ WithoutReservation(c, s).reserved = [c.reserved EXCEPT ![s] = None]
<1> DEFINE d == WithoutReservation(c, s)
           r == c.reserved[s].run
<1>1. CASE c.reserved[s] = None
  <2>1. d = c
    BY <1>1 DEF WithoutReservation
  <2>2. [c.reserved EXCEPT ![s] = None] = c.reserved
    BY <1>1 DEF Accounted, Capacities
  <2> QED
    BY <2>1, <2>2
<1>2. CASE c.reserved[s] # None
  <2>1. c.reserved \in [Sessions -> Reservations \cup {None}] /\ c.slots \in Slots!SlotsType
    BY DEF Accounted, Capacities
  <2>2. r \in Runs /\ SessionOf[r] = s
    BY <1>2, <2>1 DEF Accounted, Reservations
  <2> DEFINE sl == Slots!ReleaseExecutionIn(c.slots, r)
  <2>3. Notified(sl) \in Slots!SlotsType /\ Known(Notified(sl)) = Known(c.slots) \ {r}
    <3>1. sl \in Slots!SlotsType /\ Known(sl) = Known(c.slots) \ {r}
      BY <2>1, <2>2, SlotMethods
    <3> HIDE DEF sl
    <3> QED
      BY <3>1, NotifiedKeeps
  <2>4. d.reserved = [c.reserved EXCEPT ![s] = None] /\ d.slots = Notified(sl)
        /\ d = [reserved |-> [c.reserved EXCEPT ![s] = None], slots |-> Notified(sl)]
    BY <1>2 DEF WithoutReservation
  <2> HIDE DEF sl, d
  <2>5. d \in Capacities
    BY <2>1, <2>3, <2>4 DEF Capacities
  <2>6. ASSUME NEW t \in Sessions, d.reserved[t] # None
        PROVE  SessionOf[d.reserved[t].run] = t
    BY <2>1, <2>4, <2>6 DEF Accounted
  <2>7. ASSUME NEW q \in Runs
        PROVE  q \in Known(d.slots) <=> /\ d.reserved[SessionOf[q]] # None
                                        /\ d.reserved[SessionOf[q]].run = q
    <3>1. SessionOf[q] \in Sessions
      BY LeaseAssumption
    <3>2. q \in Known(d.slots) <=> q \in Known(c.slots) /\ q # r
      BY <2>3, <2>4
    <3>3. CASE SessionOf[q] = s
      <4>1. d.reserved[SessionOf[q]] = None
        BY <2>1, <2>4, <3>3
      <4>2. q \in Known(c.slots) => q = r
        BY <3>3 DEF Accounted
      <4> QED
        BY <3>2, <4>1, <4>2
    <3>4. CASE SessionOf[q] # s
      <4>1. d.reserved[SessionOf[q]] = c.reserved[SessionOf[q]]
        BY <2>1, <2>4, <3>4, <3>1
      <4> QED
        BY <2>2, <3>2, <3>4, <4>1 DEF Accounted
    <3> QED
      BY <3>3, <3>4
  <2> QED
    BY <2>4, <2>5, <2>6, <2>7 DEF Accounted, d
<1> QED
  BY <1>1, <1>2

\* The reservation of a claim replaces the session's, and its run gets a slot.
LEMMA ReservingFacts ==
    ASSUME Accounted(capacity), NEW o \in Owners, NEW r \in Runs
    PROVE  /\ Accounted(Reserving(o, r))
           /\ Reserving(o, r).reserved =
                 [capacity.reserved EXCEPT ![SessionOf[r]] = [run |-> r, owner |-> o]]
<1> DEFINE s    == SessionOf[r]
           mine == [run |-> r, owner |-> o]
           kept == IF capacity.reserved[s] = mine THEN capacity ELSE WithoutReservation(capacity, s)
           sl   == Slots!ReserveIn(kept.slots, r, "execution")
           d    == Reserving(o, r)
<1>1. s \in Sessions /\ mine \in Reservations /\ mine # None
  BY LeaseAssumption, CoordinatorAssumption DEF Reservations
<1>2. /\ Accounted(kept)
      /\ \A t \in Sessions \ {s} : kept.reserved[t] = capacity.reserved[t]
      /\ kept.reserved[s] = None \/ kept.reserved[s] = mine
      /\ kept.reserved \in [Sessions -> Reservations \cup {None}]
      /\ capacity.reserved \in [Sessions -> Reservations \cup {None}]
      /\ kept.slots \in Slots!SlotsType
  <2>1. capacity.reserved \in [Sessions -> Reservations \cup {None}]
    BY DEF Accounted, Capacities
  <2>2. /\ Accounted(kept)
        /\ kept.reserved = capacity.reserved \/ kept.reserved = [capacity.reserved EXCEPT ![s] = None]
        /\ kept.reserved = capacity.reserved => capacity.reserved[s] = mine \/ capacity.reserved[s] = None
    <3>1. /\ Accounted(WithoutReservation(capacity, s))
          /\ WithoutReservation(capacity, s).reserved = [capacity.reserved EXCEPT ![s] = None]
      BY <1>1, WithoutReservationFacts
    <3>2. [capacity.reserved EXCEPT ![s] = None][s] = None
      BY <1>1, <2>1
    <3> QED
      BY <3>1, <3>2
  <2>3. kept \in Capacities
    BY <2>2 DEF Accounted
  <2> HIDE DEF kept
  <2>4. kept.reserved \in [Sessions -> Reservations \cup {None}] /\ kept.slots \in Slots!SlotsType
    BY <2>3 DEF Capacities
  <2> QED
    BY <1>1, <2>1, <2>2, <2>4
<1>3. /\ d = [reserved |-> [kept.reserved EXCEPT ![s] = mine], slots |-> Notified(sl)]
      /\ d.reserved = [kept.reserved EXCEPT ![s] = mine]
      /\ d.slots = Notified(sl)
  BY DEF Reserving
<1> HIDE DEF kept, d
<1>4. Notified(sl) \in Slots!SlotsType /\ Known(Notified(sl)) = Known(kept.slots) \cup {r}
  <2>1. sl \in Slots!SlotsType /\ Known(sl) = Known(kept.slots) \cup {r}
    BY <1>2, SlotMethods
  <2> HIDE DEF sl
  <2> QED
    BY <2>1, NotifiedKeeps
<1> HIDE DEF sl
<1>5. d.reserved = [capacity.reserved EXCEPT ![s] = mine]
  BY <1>1, <1>2, <1>3
<1>6. d \in Capacities
  BY <1>1, <1>2, <1>3, <1>4 DEF Capacities
<1>7. ASSUME NEW t \in Sessions, d.reserved[t] # None
      PROVE  SessionOf[d.reserved[t].run] = t
  <2>1. CASE t = s
    BY <1>2, <1>3, <2>1
  <2>2. CASE t # s
    BY <1>2, <1>3, <1>7, <2>2 DEF Accounted
  <2> QED
    BY <2>1, <2>2
<1>8. ASSUME NEW q \in Runs
      PROVE  q \in Known(d.slots) <=> /\ d.reserved[SessionOf[q]] # None
                                      /\ d.reserved[SessionOf[q]].run = q
  <2>1. SessionOf[q] \in Sessions
    BY LeaseAssumption
  <2>2. q \in Known(d.slots) <=> q \in Known(kept.slots) \/ q = r
    BY <1>3, <1>4
  <2>3. CASE SessionOf[q] = s
    <3>1. d.reserved[SessionOf[q]] = mine
      BY <1>2, <1>3, <2>3, <1>1
    <3>2. q \in Known(kept.slots) => q = r
      BY <1>2, <2>3 DEF Accounted
    <3> QED
      BY <2>2, <3>1, <3>2, <1>1
  <2>4. CASE SessionOf[q] # s
    <3>1. d.reserved[SessionOf[q]] = kept.reserved[SessionOf[q]]
      BY <1>2, <1>3, <2>1, <2>4
    <3> QED
      BY <1>2, <2>2, <2>4, <3>1 DEF Accounted
  <2> QED
    BY <2>3, <2>4
<1> QED
  BY <1>5, <1>6, <1>7, <1>8 DEF Accounted, d

-----------------------------------------------------------------------------
(* Dropping the queued reservations of an owner, one session after another. *)

\* The reservations that releaseQueuedOwner drops.
Hits(o) == {s \in Sessions : /\ capacity.reserved[s] # None
                             /\ capacity.reserved[s].owner = o
                             /\ Queued(s)}

\* An element.
Member(S) == CHOOSE s \in S : TRUE

\* What the fold computes for a set of sessions.
Drops(g, Q, c) ==
    g = [S \in SUBSET Q |->
            IF S = {} THEN c ELSE WithoutReservation(g[S \ {Member(S)}], Member(S))]

\* The recursion of the fold has a solution: it is built up by the number of
\* sessions it is correct for.
LEMMA DropsExists ==
    ASSUME NEW Q, IsFiniteSet(Q), NEW c
    PROVE  \E g : Drops(g, Q, c)
<1> DEFINE Step(g, S) == IF S = {} THEN c ELSE WithoutReservation(g[S \ {Member(S)}], Member(S))
           Upto(g, n) == \A S \in SUBSET Q : Cardinality(S) <= n => g[S] = Step(g, S)
           Bad == {n \in Nat : ~ \E g : g = [S \in SUBSET Q |-> g[S]] /\ Upto(g, n)}
<1>0. \A S \in SUBSET Q : /\ IsFiniteSet(S) /\ Cardinality(S) \in Nat
                          /\ Cardinality(S) = 0 => S = {}
                          /\ S # {} => /\ Member(S) \in S
                                       /\ S \ {Member(S)} \in SUBSET Q
                                       /\ Cardinality(S \ {Member(S)}) = Cardinality(S) - 1
  <2> SUFFICES ASSUME NEW S \in SUBSET Q
               PROVE  /\ IsFiniteSet(S) /\ Cardinality(S) \in Nat
                      /\ Cardinality(S) = 0 => S = {}
                      /\ S # {} => /\ Member(S) \in S
                                   /\ S \ {Member(S)} \in SUBSET Q
                                   /\ Cardinality(S \ {Member(S)}) = Cardinality(S) - 1
    OBVIOUS
  <2>1. IsFiniteSet(S) /\ Cardinality(S) \in Nat
    BY FS_Subset, FS_CardinalityType
  <2>2. Cardinality(S) = 0 => S = {}
    BY <2>1, FS_EmptySet
  <2>3. S # {} => Member(S) \in S
    BY DEF Member
  <2>4. S # {} => Cardinality(S \ {Member(S)}) = Cardinality(S) - 1
    BY <2>1, <2>3, FS_RemoveElement
  <2> QED
    BY <2>1, <2>2, <2>3, <2>4
<1>1. Bad = {}
  <2> SUFFICES ASSUME Bad # {} PROVE FALSE
    OBVIOUS
  <2>1. PICK n \in Bad : \A m \in Bad : ~(<<m, n>> \in OpToRel(<, Nat))
    <3>1. Bad \subseteq Nat
      OBVIOUS
    <3> HIDE DEF Bad
    <3> QED
      BY <3>1, NatLessThanWellFounded, WFMin
  <2>2. n \in Nat /\ \A m \in Bad : ~(m < n)
    BY <2>1 DEF OpToRel
  <2>3. CASE n = 0
    <3> DEFINE g == [S \in SUBSET Q |-> c]
    <3>1. ASSUME NEW S \in SUBSET Q, Cardinality(S) <= n
          PROVE  g[S] = Step(g, S)
      <4>1. S = {}
        <5> HIDE DEF Step, g, Bad
        <5>1. Cardinality(S) \in Nat /\ (Cardinality(S) = 0 => S = {})
          BY <1>0
        <5> QED
          BY <2>3, <3>1, <5>1
      <4> QED
        BY <4>1
    <3>2. g = [S \in SUBSET Q |-> g[S]]
      OBVIOUS
    <3> HIDE DEF g
    <3> QED
      BY <3>1, <3>2
  <2>4. CASE n # 0
    <3>1. n - 1 \in Nat /\ n - 1 \notin Bad
      <4> HIDE DEF Bad
      <4> QED
        BY <2>2, <2>4
    <3>2. PICK h : h = [S \in SUBSET Q |-> h[S]] /\ Upto(h, n - 1)
      BY <3>1
    <3> DEFINE g == [S \in SUBSET Q |-> Step(h, S)]
    <3>3. ASSUME NEW S \in SUBSET Q, Cardinality(S) <= n
          PROVE  g[S] = Step(g, S)
      <4>1. CASE S = {}
        BY <4>1
      <4>2. CASE S # {}
        <5> DEFINE R == S \ {Member(S)}
        <5>1. R \in SUBSET Q /\ Cardinality(R) <= n - 1
          BY <1>0, <2>2, <3>3, <4>2
        <5>2. h[R] = Step(h, R)
          BY <3>2, <5>1
        <5>3. g[R] = h[R]
          BY <5>1, <5>2
        <5>4. g[S] = Step(h, S)
          OBVIOUS
        <5> HIDE DEF g
        <5> QED
          BY <4>2, <5>3, <5>4
      <4> QED
        BY <4>1, <4>2
    <3>4. g = [S \in SUBSET Q |-> g[S]]
      OBVIOUS
    <3> HIDE DEF g
    <3> QED
      BY <3>3, <3>4
  <2> QED
    BY <2>3, <2>4
<1>2. Cardinality(Q) \in Nat /\ \A S \in SUBSET Q : Cardinality(S) <= Cardinality(Q)
  BY FS_Subset, FS_CardinalityType
<1>3. PICK g : g = [S \in SUBSET Q |-> g[S]] /\ Upto(g, Cardinality(Q))
  BY <1>1, <1>2
<1>4. \A S \in SUBSET Q : g[S] = Step(g, S)
  BY <1>2, <1>3
<1>5. g = [S \in SUBSET Q |-> Step(g, S)]
  BY <1>3, <1>4
<1> QED
  BY <1>5 DEF Drops

\* releaseQueuedOwner drops reservations of sessions without claim and lease,
\* and touches no other.
LEMMA WithoutQueuedFacts ==
    ASSUME Accounted(capacity), NEW o \in Owners
    PROVE  /\ Accounted(WithoutQueued(o))
           /\ \A s \in Sessions :
                 WithoutQueued(o).reserved[s] = IF s \in Hits(o) THEN None
                                                ELSE capacity.reserved[s]
<1> DEFINE Q == Hits(o)
           g == CHOOSE g : Drops(g, Q, capacity)
<1>1. WithoutQueued(o) = g[Q]
  BY DEF WithoutQueued, FoldSet, MapThenFoldSet, Hits, Drops, Member
<1>2. IsFiniteSet(Q)
  <2>1. Q \subseteq {SessionOf[r] : r \in Runs}
    BY DEF Hits, Accounted, Capacities, Reservations
  <2>2. IsFiniteSet({SessionOf[r] : r \in Runs})
    <3>1. SessionOf \in [Runs -> Sessions] /\ IsFiniteSet(Runs)
      BY LeaseAssumption
    <3>2. SessionOf \in Surjection(Runs, {SessionOf[r] : r \in Runs})
      BY <3>1 DEF Surjection
    <3> QED
      BY <3>1, <3>2, FS_Surjection
  <2> QED
    BY <2>1, <2>2, FS_Subset
<1>3. Drops(g, Q, capacity)
  BY <1>2, DropsExists
<1> HIDE DEF g
<1> DEFINE Dropped(c, S) ==
              /\ Accounted(c)
              /\ \A s \in Sessions :
                    c.reserved[s] = IF s \in S THEN None ELSE capacity.reserved[s]
           Bad == {S \in FiniteSubsetsOf(Q) : ~Dropped(g[S], S)}
<1>4. Bad = {}
  <2> SUFFICES ASSUME Bad # {} PROVE FALSE
    OBVIOUS
  <2>1. PICK S \in Bad : \A T \in Bad : ~(<<T, S>> \in StrictSubsetOrdering(Q))
    <3>1. Bad \subseteq FiniteSubsetsOf(Q)
      OBVIOUS
    <3> HIDE DEF Bad
    <3> QED
      BY <3>1, FS_StrictSubsetOrderingWellFounded, WFMin
  <2>2. S \in SUBSET Q /\ IsFiniteSet(S)
    BY <2>1 DEF FiniteSubsetsOf
  <2>3. CASE S = {}
    <3>1. g[S] = capacity
      BY <1>3, <2>2, <2>3 DEF Drops
    <3> QED
      BY <2>3, <3>1
  <2>4. CASE S # {}
    <3> DEFINE s == Member(S)
               T == S \ {s}
    <3>1. s \in S /\ s \in Sessions
      BY <2>2, <2>4 DEF Member, Hits
    <3>2. T \in FiniteSubsetsOf(Q)
      BY <2>2, FS_Subset DEF FiniteSubsetsOf
    <3>3. <<T, S>> \in StrictSubsetOrdering(Q)
      BY <2>2, <3>1 DEF StrictSubsetOrdering
    <3>4. Dropped(g[T], T)
      BY <2>1, <3>2, <3>3
    <3>5. g[S] = WithoutReservation(g[T], s)
      BY <1>3, <2>2, <2>4 DEF Drops
    <3> HIDE DEF s
    <3>6. /\ Accounted(g[S])
          /\ g[S].reserved = [g[T].reserved EXCEPT ![s] = None]
      <4> DEFINE c == g[T]
      <4>1. Accounted(c) /\ g[S] = WithoutReservation(c, s)
        BY <3>4, <3>5
      <4> HIDE DEF c
      <4>2. /\ Accounted(WithoutReservation(c, s))
            /\ WithoutReservation(c, s).reserved = [c.reserved EXCEPT ![s] = None]
        BY <3>1, <4>1, WithoutReservationFacts
      <4> QED
        BY <4>1, <4>2 DEF c
    <3>7. g[T].reserved \in [Sessions -> Reservations \cup {None}]
      BY <3>4 DEF Accounted, Capacities
    <3>8. Dropped(g[S], S)
      BY <3>1, <3>4, <3>6, <3>7
    <3> QED
      BY <2>1, <3>8
  <2> QED
    BY <2>3, <2>4
<1>5. Q \in FiniteSubsetsOf(Q)
  BY <1>2 DEF FiniteSubsetsOf
<1>6. Dropped(g[Q], Q)
  BY <1>4, <1>5
<1> QED
  BY <1>1, <1>6

-----------------------------------------------------------------------------
(* The queue of calls: what a step appends and takes from its head.         *)

\* A finite set has an enumeration.
LEMMA ListedType ==
    ASSUME NEW S, IsFiniteSet(S)
    PROVE  Listed(S) \in Seq(S)
<1>1. ExistsBijection(1..Cardinality(S), S)
  BY FS_CardinalityType
<1>1a. PICK f \in Bijection(1..Cardinality(S), S) : TRUE
  BY <1>1 DEF ExistsBijection
<1>2. f \in [1..Cardinality(S) -> S] /\ IsInjective(f)
  BY <1>1a DEF Bijection, Injection
<1>3. Listed(S) \in [1..Cardinality(S) -> S]
  BY <1>2 DEF Listed
<1> QED
  BY <1>3, FS_CardinalityType

\* p is q without its first k calls, and with calls of New behind the others.
Moves(p, q, k, New) ==
    /\ k \in {0, 1} /\ k <= Len(q) /\ Len(q) - k <= Len(p)
    /\ \A i \in 1..(Len(q) - k) : p[i] = q[i + k]
    /\ \A i \in (Len(q) - k + 1)..Len(p) : p[i] \in New

\* What appending to the port's queue and taking its head do to the calls.
LEMMA MovesFacts ==
    ASSUME NEW q \in Seq(Calls), NEW c
    PROVE  /\ Moves(q, q, 0, {})
           /\ Moves(Append(q, c), q, 0, {c}) /\ Len(Append(q, c)) = Len(q) + 1
           /\ q # << >> =>
                 /\ Moves(Tail(q), q, 1, {})
                 /\ Moves(Append(Tail(q), c), q, 1, {c})
                 /\ Len(Append(Tail(q), c)) = Len(q)
                 /\ Tail(q) \in Seq(Calls) /\ Head(q) = q[1] /\ Head(q) \in Calls
                 /\ 1 \in DOMAIN q
<1>1. Moves(q, q, 0, {}) /\ Moves(Append(q, c), q, 0, {c})
  BY DEF Moves
<1>2. ASSUME q # << >>
      PROVE  /\ Tail(q) \in Seq(Calls) /\ Len(Tail(q)) = Len(q) - 1
             /\ \A i \in 1..(Len(q) - 1) : Tail(q)[i] = q[i + 1]
             /\ Len(q) \in Nat /\ Len(q) >= 1
             /\ Head(q) = q[1] /\ Head(q) \in Calls
  BY <1>2
<1>3. ASSUME q # << >> PROVE Moves(Tail(q), q, 1, {})
  BY <1>2, <1>3 DEF Moves
<1>4. ASSUME q # << >>
      PROVE Moves(Append(Tail(q), c), q, 1, {c}) /\ Len(Append(Tail(q), c)) = Len(q)
  <2> DEFINE t == Tail(q)
  <2>1. t \in Seq(Calls) /\ Len(t) = Len(q) - 1 /\ \A i \in 1..(Len(q) - 1) : t[i] = q[i + 1]
    BY <1>2, <1>4
  <2> HIDE DEF t
  <2>2. /\ Len(Append(t, c)) = Len(q) /\ Append(t, c)[Len(q)] = c
        /\ \A i \in 1..(Len(q) - 1) : Append(t, c)[i] = t[i]
    BY <2>1, <1>2, <1>4
  <2>3. Moves(Append(t, c), q, 1, {c})
    BY <1>2, <1>4, <2>1, <2>2 DEF Moves
  <2> QED
    BY <2>2, <2>3 DEF t
<1> QED
  BY <1>1, <1>2, <1>3, <1>4

\* What appending the calls of a set does.
LEMMA ConcatMoves ==
    ASSUME NEW q \in Seq(Calls), NEW S \in SUBSET Calls, IsFiniteSet(S)
    PROVE  /\ q \o Listed(S) \in Seq(Calls)
           /\ Moves(q \o Listed(S), q, 0, S)
<1> DEFINE t == Listed(S)
<1>1. t \in Seq(S)
  BY ListedType
<1> HIDE DEF t
<1>2. /\ t \in Seq(Calls) /\ Len(t) \in Nat
      /\ \A i \in 1..Len(t) : t[i] \in S
  BY <1>1
<1>3. /\ q \o t \in Seq(Calls)
      /\ Len(q \o t) = Len(q) + Len(t)
      /\ \A i \in 1..(Len(q) + Len(t)) : (q \o t)[i] = IF i <= Len(q) THEN q[i] ELSE t[i - Len(q)]
  BY <1>2
<1>4. Moves(q \o t, q, 0, S)
  BY <1>2, <1>3 DEF Moves
<1> QED
  BY <1>3, <1>4 DEF t

-----------------------------------------------------------------------------
(* The inductive invariant.                                                 *)

\* A claim and its revocation are calls of the same frame.
InFlight == {"claim", "unclaim"}

\* A claim in flight is its session's frame.  A release in flight is the
\* release of the session's lease, if the session has one; then the gate is
\* closed and nothing physical of the run is left.
CallSound(c) ==
    /\ c.op \in InFlight =>
          /\ c.lease # None
          /\ claims[Session(c.lease)] # None
          /\ claims[Session(c.lease)].lease = c.lease
    /\ c.op = "release" =>
          /\ c.lease # None
          /\ sessions[Session(c.lease)] # None =>
                /\ c.lease = sessions[Session(c.lease)]
                /\ Session(c.lease) \in blocked
                /\ ~References(tools, resources, c.lease.id)
    /\ c.op = "revoke" => c.by # None

\* Every call at the port is sound.
CallsSound == \A i \in DOMAIN calls : CallSound(calls[i])

\* Nothing of a session is called behind its claim: the release of an earlier
\* lease is answered before the claim is.
ClaimsLast ==
    \A i, j \in DOMAIN calls :
        i < j /\ calls[i].op \in InFlight /\ calls[j].op \in InFlight \cup {"release"}
            => Session(calls[i].lease) # Session(calls[j].lease)

\* A session is claimed only while it has no lease.
Framed ==
    \A s \in Sessions :
        claims[s] # None => sessions[s] = None /\ Session(claims[s].lease) = s

\* The lease of a session, or the one that is being claimed for it.
LeaseOf(s) == IF claims[s] # None THEN claims[s].lease ELSE sessions[s]

\* The leases that sessions have or are about to get are numbered apart.
Numbered ==
    /\ \A s \in Sessions : LeaseOf(s) # None => LeaseOf(s).id <= fence
    /\ \A s, t \in Sessions :
          LeaseOf(s) # None /\ LeaseOf(t) # None /\ LeaseOf(s).id = LeaseOf(t).id => s = t

\* A claim or a lease keeps the reservation it was admitted with.
Admitted ==
    \A s \in Sessions :
        /\ claims[s] # None => Reserved(claims[s].lease)
        /\ sessions[s] # None => Reserved(sessions[s])

\* The inductive invariant.
IInv ==
    /\ TypeOK /\ IsFiniteSet(tools)
    /\ IndexesAgree /\ Framed /\ Numbered
    /\ CallsSound /\ ClaimsLast
    /\ PhysicalWorkPinsLease /\ DeferredReleaseWaits
    /\ Accounted(capacity) /\ Admitted

-----------------------------------------------------------------------------
(* What a step keeps by leaving variables alone.                            *)

\* The leases and claims, and their numbers.
LEMMA LeasesStay ==
    ASSUME IInv, UNCHANGED << sessions, runs, claims, fence >>
    PROVE  IndexesAgree' /\ Framed' /\ Numbered'
BY DEF IInv, IndexesAgree, Framed, Numbered, LeaseOf

\* The capacity and those it is reserved for.
LEMMA CapacityStays ==
    ASSUME IInv, UNCHANGED << sessions, claims, capacity >>
    PROVE  Accounted(capacity') /\ Admitted'
BY DEF IInv, Admitted, Reserved

\* The physical activity and the leases it pins.
LEMMA PhysicalStays ==
    ASSUME IInv, UNCHANGED << runs, pendingReleases, tools, resources >>
    PROVE  IsFiniteSet(tools') /\ PhysicalWorkPinsLease' /\ DeferredReleaseWaits'
BY DEF IInv, PhysicalWorkPinsLease, DeferredReleaseWaits, Registered, Holding, References

\* More gates may close.
LEMMA CallsStay ==
    ASSUME IInv, UNCHANGED << sessions, claims, tools, resources, calls >>,
           blocked \subseteq blocked'
    PROVE  CallsSound' /\ ClaimsLast'
<1>1. \A c : CallSound(c) => CallSound(c)'
  BY DEF CallSound, References, Holding
<1> QED
  BY <1>1 DEF IInv, CallsSound, ClaimsLast

\* The calls behind the first k stay sound.
StaySound(k) ==
    \A i \in DOMAIN calls, c \in Calls :
        k < i /\ calls[i] = c /\ CallSound(c) => CallSound(c)'

\* The new calls are sound, and none follows a claim of its session.
EnterSound(k, New) ==
    \A c \in New :
        /\ CallSound(c)'
        /\ \A i \in DOMAIN calls :
              k < i /\ calls[i].op \in InFlight /\ c.op \in InFlight \cup {"release"} =>
                 Session(calls[i].lease) # Session(c.lease)

\* The calls that stay are as sound as before, the new ones are sound, and no
\* new call follows a claim of its session.
LEMMA CallsMove ==
    ASSUME IInv, NEW k, NEW New, New \subseteq Calls,
           calls' \in Seq(Calls), Moves(calls', calls, k, New),
           StaySound(k), EnterSound(k, New),
           (\E c \in New : c.op \in InFlight) => Len(calls') = Len(calls) - k + 1
    PROVE  CallsSound' /\ ClaimsLast'
<1> DEFINE p == calls'
<1>1. calls \in Seq(Calls) /\ k \in {0, 1} /\ Len(calls) \in Nat /\ Len(p) \in Nat
  BY DEF IInv, TypeOK, Moves
<1>2. ASSUME NEW i \in 1..Len(p)
      PROVE  \/ /\ i <= Len(calls) - k
                /\ i + k \in DOMAIN calls /\ k < i + k /\ p[i] = calls[i + k]
             \/ /\ i > Len(calls) - k
                /\ p[i] \in New
  BY <1>1 DEF Moves
<1>3. ASSUME NEW i \in 1..Len(p)
      PROVE  CallSound(calls[i])'
  <2>1. CASE i <= Len(calls) - k
    <3>1. i + k \in DOMAIN calls /\ k < i + k /\ p[i] = calls[i + k]
      BY <1>1, <1>2, <2>1
    <3>2. calls[i + k] \in Calls /\ CallSound(calls[i + k])
      BY <1>1, <3>1 DEF IInv, CallsSound
    <3>3. \A c \in Calls : CallSound(c) /\ calls[i + k] = c => CallSound(c)'
      BY <3>1 DEF StaySound
    <3> DEFINE d == calls[i + k]
    <3>4. PICK e \in Calls : e = d /\ CallSound(e)
      BY <3>2
    <3>5. CallSound(e)'
      BY <3>3, <3>4
    <3>6. p[i] = e
      BY <3>1, <3>4
    <3> QED
      BY <3>5, <3>6 DEF CallSound
  <2>2. CASE i > Len(calls) - k
    <3>1. p[i] \in New
      BY <1>1, <1>2, <2>2
    <3>2. PICK e \in New : p[i] = e
      BY <3>1
    <3>3. CallSound(e)'
      BY <3>2 DEF EnterSound
    <3> QED
      BY <3>2, <3>3 DEF CallSound
  <2> QED
    BY <1>1, <2>1, <2>2
<1>4. CallsSound'
  BY <1>1, <1>3 DEF CallsSound
<1>5. ClaimsLast'
  <2> SUFFICES ASSUME NEW i \in 1..Len(p), NEW j \in 1..Len(p), i < j,
                      p[i].op \in InFlight, p[j].op \in InFlight \cup {"release"}
               PROVE  Session(p[i].lease) # Session(p[j].lease)
    BY <1>1 DEF ClaimsLast, Session
  <2>1. CASE j <= Len(calls) - k
    <3>1. /\ i + k \in DOMAIN calls /\ p[i] = calls[i + k]
          /\ j + k \in DOMAIN calls /\ p[j] = calls[j + k]
          /\ i + k < j + k
      <4>1. i <= Len(calls) - k /\ i + k < j + k
        BY <1>1, <2>1
      <4>2. i + k \in DOMAIN calls /\ p[i] = calls[i + k]
        BY <1>1, <1>2, <4>1
      <4>3. j + k \in DOMAIN calls /\ p[j] = calls[j + k]
        BY <1>1, <1>2, <2>1
      <4> QED
        BY <4>1, <4>2, <4>3
    <3>2. calls[i + k].op \in InFlight /\ calls[j + k].op \in InFlight \cup {"release"}
      BY <3>1
    <3>3. Session(calls[i + k].lease) # Session(calls[j + k].lease)
      BY <3>1, <3>2 DEF IInv, ClaimsLast
    <3> QED
      BY <3>1, <3>3
  <2>2. CASE i <= Len(calls) - k /\ j > Len(calls) - k
    <3>1. i + k \in DOMAIN calls /\ k < i + k /\ p[i] = calls[i + k] /\ p[j] \in New
      BY <1>1, <1>2, <2>2
    <3> QED
      BY <3>1 DEF EnterSound
  <2>3. CASE i > Len(calls) - k
    <3>1. p[i] \in New
      BY <1>1, <1>2, <2>3
    <3>2. Len(p) = Len(calls) - k + 1
      BY <3>1
    <3> QED
      BY <1>1, <2>3, <3>2
  <2> QED
    BY <1>1, <2>1, <2>2, <2>3
<1> QED
  BY <1>4, <1>5

-----------------------------------------------------------------------------
(* The initial state and the actions that touch no lease.                   *)

\* The Host starts with nothing registered, running or in flight.
LEMMA InitInv == Init => IInv
<1> SUFFICES ASSUME Init PROVE IInv
  OBVIOUS
<1> USE DEF Init
<1>1. /\ capacity \in Capacities
      /\ \A r \in Runs : r \notin Known(capacity.slots)
      /\ \A s \in Sessions : capacity.reserved[s] = None
  <2> DEFINE e == Slots!EmptySlots(CapacityLimit)
  <2>1. e \in Slots!SlotsType /\ e.state = [r \in Runs |-> [a \in {"execution"} |-> "none"]]
    BY CoordinatorAssumption DEF Slots!EmptySlots, Slots!SlotsType, Slots!ActivityStates
  <2> HIDE DEF e
  <2>2. \A r \in Runs : r \notin Known(e)
    BY <2>1, KnownIff
  <2> QED
    BY <2>1, <2>2 DEF Capacities, e
<1>2. TypeOK /\ IsFiniteSet(tools)
  BY <1>1, FS_EmptySet, CoordinatorAssumption DEF TypeOK, Roles
<1>3. Accounted(capacity)
  BY <1>1, LeaseAssumption DEF Accounted
<1>4. IndexesAgree /\ Framed /\ Numbered /\ CallsSound /\ ClaimsLast
  BY DEF IndexesAgree, Framed, Numbered, LeaseOf, CallsSound, ClaimsLast
<1>5. PhysicalWorkPinsLease /\ DeferredReleaseWaits /\ Admitted
  BY DEF PhysicalWorkPinsLease, DeferredReleaseWaits, Holding, Admitted
<1> QED
  BY <1>2, <1>3, <1>4, <1>5 DEF IInv

\* The types that a step keeps which touches only owners and capacity.
LEMMA OwnersMove ==
    ASSUME IInv, UNCHANGED << leasing, faults, physical, port >>,
           role' \in [Owners -> Roles], exited' \subseteq Owners,
           defaultOf' \in [Units -> Owners \cup {None}],
           Accounted(capacity'), Admitted'
    PROVE  IInv'
<1> USE DEF leasing, faults, physical, port
<1>1. TypeOK'
  BY DEF IInv, TypeOK, Accounted
<1> QED
  BY <1>1, LeasesStay, PhysicalStays, CallsStay DEF IInv

\* register, and activate of a recovered old generation.
LEMMA Registering ==
    ASSUME IInv, NEW o \in Owners, Register(o) \/ ActivateDraining(o)
    PROVE  IInv'
<1>1. UNCHANGED << leasing, faults, physical, port, capacity, exited, defaultOf >>
  BY DEF Register, ActivateDraining
<1>2. role' \in [Owners -> Roles]
  BY DEF Register, ActivateDraining, IInv, TypeOK, Roles
<1>3. Accounted(capacity') /\ Admitted'
  BY <1>1, CapacityStays DEF leasing
<1> QED
  BY <1>1, <1>2, <1>3, OwnersMove DEF IInv, TypeOK

\* Dropping reservations that nobody has taken up leaves the others.
LEMMA QueuedDropped ==
    ASSUME IInv, NEW o \in Owners, capacity' = WithoutQueued(o), UNCHANGED << sessions, claims >>
    PROVE  Accounted(capacity') /\ Admitted'
<1>1. /\ Accounted(capacity')
      /\ \A s \in Sessions : capacity'.reserved[s] = IF s \in Hits(o) THEN None
                                                     ELSE capacity.reserved[s]
  BY WithoutQueuedFacts DEF IInv
<1>2. ASSUME NEW s \in Sessions, claims[s] # None
      PROVE  Reserved(claims[s].lease)'
  <2>1. Session(claims[s].lease) = s /\ s \notin Hits(o)
    BY <1>2 DEF IInv, Framed, Hits, Queued
  <2>2. Reserved(claims[s].lease)
    BY <1>2 DEF IInv, Admitted
  <2> QED
    BY <1>1, <2>1, <2>2 DEF Reserved, Session
<1>3. ASSUME NEW s \in Sessions, sessions[s] # None
      PROVE  Reserved(sessions[s])'
  <2>1. Session(sessions[s]) = s /\ s \notin Hits(o)
    BY <1>3 DEF IInv, IndexesAgree, Session, Hits, Queued
  <2>2. Reserved(sessions[s])
    BY <1>3 DEF IInv, Admitted
  <2> QED
    BY <1>1, <2>1, <2>2 DEF Reserved, Session
<1> QED
  BY <1>1, <1>2, <1>3 DEF Admitted

\* activate: the old default drains or is fenced, and loses its queued claims.
LEMMA Activating ==
    ASSUME IInv, NEW o \in Owners, Activate(o)
    PROVE  IInv'
<1> DEFINE unit == UnitOf[GenOf[o]]
           old  == defaultOf[unit]
           drains == old # None /\ role[old] = "default"
<1>1. unit \in Units /\ old \in Owners \cup {None}
  BY LeaseAssumption DEF IInv, TypeOK
<1>2. UNCHANGED << exited, leasing, faults, physical, port >>
  BY DEF Activate
<1>3. role' \in [Owners -> Roles] /\ defaultOf' \in [Units -> Owners \cup {None}]
  BY <1>1 DEF Activate, IInv, TypeOK, Roles
<1>4. Accounted(capacity') /\ Admitted'
  <2>1. CASE drains
    <3>1. old \in Owners /\ capacity' = WithoutQueued(old)
      BY <1>1, <2>1 DEF Activate
    <3> HIDE DEF old
    <3> QED
      BY <1>2, <3>1, QueuedDropped DEF leasing
  <2>2. CASE ~drains
    <3>1. capacity' = capacity
      BY <2>2 DEF Activate
    <3> QED
      BY <1>2, <3>1, CapacityStays DEF leasing
  <2> QED
    BY <2>1, <2>2
<1>5. exited' \subseteq Owners
  BY <1>2 DEF IInv, TypeOK
<1> QED
  BY <1>2, <1>3, <1>4, <1>5, OwnersMove

\* disposeOwner
LEMMA Disposing ==
    ASSUME IInv, NEW o \in Owners, DisposeOwner(o)
    PROVE  IInv'
<1>1. UNCHANGED << leasing, interruptions, stoppedRuns, fencing, pendingReleases, physical,
                   capacity, port >>
  BY DEF DisposeOwner
<1>2. TypeOK'
  <2>1. role' \in [Owners -> Roles] /\ exited' \subseteq Owners /\ revoking' \subseteq Owners
    BY DEF DisposeOwner, IInv, TypeOK, Roles
  <2>2. defaultOf' \in [Units -> Owners \cup {None}]
    BY DEF DisposeOwner, IInv, TypeOK
  <2> QED
    BY <1>1, <2>1, <2>2 DEF IInv, TypeOK, leasing, physical, port
<1> QED
  BY <1>1, <1>2, LeasesStay, CapacityStays, PhysicalStays, CallsStay
     DEF IInv, leasing, physical, port

\* acknowledgeRunStopped
LEMMA Acknowledging ==
    ASSUME IInv, NEW o \in Owners, NEW r \in Runs, AcknowledgeRunStopped(o, r)
    PROVE  IInv'
<1>1. UNCHANGED << registry, leasing, revoking, interruptions, fencing, pendingReleases,
                   physical, capacity, port >> /\ stoppedRuns' = stoppedRuns \cup {r}
  BY DEF AcknowledgeRunStopped
<1>2. TypeOK'
  BY <1>1 DEF IInv, TypeOK, registry, leasing, physical, port
<1> QED
  BY <1>1, <1>2, LeasesStay, CapacityStays, PhysicalStays, CallsStay
     DEF IInv, leasing, physical, port

-----------------------------------------------------------------------------
(* The actions on the capacity.                                             *)

\* The slots move, the reservations and everything else stay.
LEMMA CapacityMoves ==
    ASSUME IInv, UNCHANGED << registry, leasing, faults, physical, port >>,
           Accounted(capacity'), capacity'.reserved = capacity.reserved
    PROVE  IInv'
<1>1. Admitted'
  BY DEF IInv, Admitted, Reserved, leasing
<1> QED
  BY <1>1, OwnersMove DEF IInv, TypeOK, registry

\* A change of the slots that makes no run known or unknown.
LEMMA SlotsMoved ==
    ASSUME IInv, UNCHANGED << registry, leasing, faults, physical, port >>,
           NEW sl \in Slots!SlotsType, Known(sl) = Known(capacity.slots),
           capacity' = [capacity EXCEPT !.slots = Notified(sl)]
    PROVE  IInv'
<1>1. Accounted(capacity')
  BY SlotsMove DEF IInv
<1>2. capacity'.reserved = capacity.reserved
  BY DEF IInv, Accounted, Capacities
<1> QED
  BY <1>1, <1>2, CapacityMoves

\* setExecutionCapacity
LEMMA SettingCapacity ==
    ASSUME IInv, NEW n, SetCapacity(n)
    PROVE  IInv'
<1> DEFINE sl == Slots!SetCapacityIn(capacity.slots, n)
<1>1. /\ n \in 1..CapacityLimit
      /\ capacity' = [capacity EXCEPT !.slots = Notified(sl)]
      /\ UNCHANGED << registry, leasing, faults, physical, port >>
  BY DEF SetCapacity, Slots!WithinLimit
<1>2. capacity.slots \in Slots!SlotsType
  BY DEF IInv, Accounted, Capacities
<1>3. sl \in Slots!SlotsType /\ Known(sl) = Known(capacity.slots)
  BY <1>1, <1>2, SetCapacityKeeps
<1> HIDE DEF sl
<1> QED
  BY <1>1, <1>3, SlotsMoved

\* suspendWaitingExecution and resumeExecutionCapacity.
LEMMA Suspending ==
    ASSUME IInv, NEW lease \in Registered, NEW waiting, Suspend(lease, waiting) \/ Resume(lease)
    PROVE  IInv'
<1> DEFINE r == lease.run
           s == Session(lease)
<1>1. r \in Runs /\ s \in Sessions
  BY LeaseAssumption DEF Registered, IInv, TypeOK, Leases, Session
<1>2. capacity.slots \in Slots!SlotsType
  BY DEF IInv, Accounted, Capacities
<1>3. r \in Known(capacity.slots)
  <2>1. capacity.reserved[SessionOf[r]] # None /\ capacity.reserved[SessionOf[r]].run = r
    BY DEF Suspend, Resume, Reserved, Session
  <2> QED
    BY <1>1, <2>1 DEF IInv, Accounted
<1> HIDE DEF r
<1>4. \/ capacity' = [capacity EXCEPT !.slots = Notified(Slots!SuspendIn(capacity.slots, r, "execution"))]
      \/ capacity' = [capacity EXCEPT !.slots = Notified(Slots!ResumeIn(capacity.slots, r, "execution"))]
  BY DEF Suspend, Resume, r
<1>5. UNCHANGED << registry, leasing, faults, physical, port >>
  BY DEF Suspend, Resume
<1>6. /\ Slots!SuspendIn(capacity.slots, r, "execution") \in Slots!SlotsType
      /\ Known(Slots!SuspendIn(capacity.slots, r, "execution")) = Known(capacity.slots)
      /\ Slots!ResumeIn(capacity.slots, r, "execution") \in Slots!SlotsType
      /\ Known(Slots!ResumeIn(capacity.slots, r, "execution")) = Known(capacity.slots)
  BY <1>1, <1>2, <1>3, SlotMethods
<1> QED
  BY <1>4, <1>5, <1>6, SlotsMoved

\* A reservation is dropped that neither a claim nor a lease stands on.
LEMMA ReservationDropped ==
    ASSUME IInv, NEW s \in Sessions, capacity' = WithoutReservation(capacity, s),
           claims'[s] = None, sessions'[s] = None,
           \A t \in Sessions \ {s} : claims'[t] = claims[t] /\ sessions'[t] = sessions[t]
    PROVE  Accounted(capacity') /\ Admitted'
<1>1. /\ Accounted(capacity')
      /\ capacity'.reserved = [capacity.reserved EXCEPT ![s] = None]
  BY WithoutReservationFacts DEF IInv
<1>2. \A t \in Sessions \ {s} : capacity'.reserved[t] = capacity.reserved[t]
  BY <1>1 DEF IInv, Accounted, Capacities
<1>3. ASSUME NEW t \in Sessions, claims'[t] # None
      PROVE  Reserved(claims[t].lease)'
  <2>1. t # s /\ claims'[t] = claims[t]
    BY <1>3
  <2>2. Session(claims[t].lease) = t
    BY <1>3, <2>1 DEF IInv, Framed
  <2>3. Reserved(claims[t].lease)
    BY <1>3, <2>1 DEF IInv, Admitted
  <2> QED
    BY <1>2, <2>1, <2>2, <2>3 DEF Reserved, Session
<1>4. ASSUME NEW t \in Sessions, sessions'[t] # None
      PROVE  Reserved(sessions[t])'
  <2>1. t # s /\ sessions'[t] = sessions[t]
    BY <1>4
  <2>2. Session(sessions[t]) = t
    BY <1>4, <2>1 DEF IInv, IndexesAgree, Session
  <2>3. Reserved(sessions[t])
    BY <1>4, <2>1 DEF IInv, Admitted
  <2> QED
    BY <1>2, <2>1, <2>2, <2>3 DEF Reserved, Session
<1> QED
  BY <1>1, <1>3, <1>4 DEF Admitted

\* releaseQueuedSession: the session has neither claim nor lease.
LEMMA ReleasingQueued ==
    ASSUME IInv, NEW s \in Sessions, ReleaseQueuedSession(s)
    PROVE  IInv'
<1>1. /\ UNCHANGED << registry, leasing, faults, physical, port >>
      /\ capacity' = WithoutReservation(capacity, s)
      /\ claims[s] = None /\ sessions[s] = None
  BY DEF ReleaseQueuedSession, Queued
<1>2. Accounted(capacity') /\ Admitted'
  BY <1>1, ReservationDropped DEF leasing
<1> QED
  BY <1>1, <1>2, OwnersMove DEF IInv, TypeOK, registry

-----------------------------------------------------------------------------
(* Claims.                                                                  *)

\* claim: the draft gets a number that no lease or claim has.
LEMMA Claiming ==
    ASSUME IInv, NEW o \in Owners, NEW r \in Runs, NEW bindings \in SUBSET Generations,
           NEW captured \in SUBSET Owners, Claim(o, r, bindings, captured)
    PROVE  IInv'
<1> DEFINE s     == SessionOf[r]
           next  == Reserving(o, r)
           drawn == [id |-> fence + 1, run |-> r, owner |-> o,
                     versions |-> bindings, fence |-> fence + 1]
<1>0. fence \in Nat
  BY DEF IInv, TypeOK
<1>0a. PICK draft \in Leases : draft = drawn
  <2>1. drawn \in Leases
    BY <1>0 DEF Leases
  <2> HIDE DEF drawn
  <2> QED
    BY <2>1
<1>0b. PICK call \in Calls : call = ClaimCall("claim", draft)
  BY <1>0a DEF Calls, ClaimCall, Leases
<1> DEFINE frame == [lease |-> draft, captured |-> captured, stage |-> "claim"]
<1>1. /\ UNCHANGED << registry, sessions, runs, blocked, faults, physical >>
      /\ sessions[s] = None /\ claims[s] = None
      /\ capacity' = next
  BY DEF Claim, SessionFree
<1>2. \/ /\ claims' = [claims EXCEPT ![s] = frame]
         /\ fence' = fence + 1
         /\ calls' = Append(calls, call)
      \/ UNCHANGED << claims, port >>
  BY <1>0a, <1>0b DEF Claim
<1>3. s \in Sessions /\ fence \in Nat /\ calls \in Seq(Calls)
  BY LeaseAssumption DEF IInv, TypeOK
<1>4. draft \in Leases /\ Session(draft) = s /\ draft.id = fence + 1 /\ draft.run = r
  BY <1>0a DEF Session
<1>5. frame \in Frames /\ frame # None /\ frame.lease = draft
  BY <1>4, CoordinatorAssumption DEF Frames
<1>6. call \in Calls /\ call.op = "claim" /\ call.lease = draft
  BY <1>0b DEF ClaimCall
<1> HIDE DEF frame, next, s, drawn
<1>7. /\ Accounted(capacity')
      /\ capacity'.reserved = [capacity.reserved EXCEPT ![s] = [run |-> r, owner |-> o]]
  BY <1>1, ReservingFacts DEF IInv, next, s
<1>8. /\ capacity'.reserved[s] # None /\ capacity'.reserved[s].run = r
      /\ \A t \in Sessions \ {s} : capacity'.reserved[t] = capacity.reserved[t]
  <2>1. [run |-> r, owner |-> o] # None
    BY CoordinatorAssumption DEF Reservations
  <2> QED
    BY <1>3, <1>7, <2>1 DEF IInv, Accounted, Capacities
<1>9. \A t \in Sessions : sessions[t] # None => t # s /\ Reserved(sessions[t])'
  <2> SUFFICES ASSUME NEW t \in Sessions, sessions[t] # None
               PROVE  t # s /\ Reserved(sessions[t])'
    OBVIOUS
  <2>1. t # s /\ Session(sessions[t]) = t /\ sessions'[t] = sessions[t]
    BY <1>1 DEF IInv, IndexesAgree, Session
  <2>2. Reserved(sessions[t])
    BY DEF IInv, Admitted
  <2> QED
    BY <1>8, <2>1, <2>2 DEF Reserved, Session
<1>10. \A t \in Sessions : claims[t] # None =>
          t # s /\ capacity'.reserved[Session(claims[t].lease)] # None
                /\ capacity'.reserved[Session(claims[t].lease)].run = claims[t].lease.run
  <2> SUFFICES ASSUME NEW t \in Sessions, claims[t] # None
               PROVE  t # s /\ capacity'.reserved[Session(claims[t].lease)] # None
                            /\ capacity'.reserved[Session(claims[t].lease)].run = claims[t].lease.run
    OBVIOUS
  <2>1. t # s /\ Session(claims[t].lease) = t
    BY <1>1 DEF IInv, Framed
  <2>2. Reserved(claims[t].lease)
    BY DEF IInv, Admitted
  <2> QED
    BY <1>8, <2>1, <2>2 DEF Reserved
<1>11. CASE UNCHANGED << claims, port >>
  <2>1. Admitted'
    BY <1>1, <1>9, <1>10, <1>11 DEF Admitted, Reserved
  <2> QED
    BY <1>1, <1>7, <1>11, <2>1, OwnersMove DEF IInv, TypeOK, leasing, registry
<1>12. CASE /\ claims' = [claims EXCEPT ![s] = frame]
            /\ fence' = fence + 1
            /\ calls' = Append(calls, call)
  <2>0. /\ claims'[s] = frame
        /\ \A t \in Sessions \ {s} : claims'[t] = claims[t]
    BY <1>3, <1>12 DEF IInv, TypeOK
  <2>1. TypeOK'
    <3>1. claims' \in [Sessions -> Frames \cup {None}] /\ fence' \in Nat /\ calls' \in Seq(Calls)
      BY <1>3, <1>5, <1>6, <1>12 DEF IInv, TypeOK
    <3> QED
      BY <1>1, <1>7, <3>1 DEF IInv, TypeOK, Accounted, registry, faults, physical
  <2>2. IndexesAgree'
    BY <1>1 DEF IInv, IndexesAgree
  <2>3. Framed'
    BY <1>1, <1>4, <1>5, <2>0 DEF IInv, Framed, Session
  <2>4. Numbered'
    <3>1. ASSUME NEW t \in Sessions \ {s}
          PROVE  LeaseOf(t)' = LeaseOf(t)
      BY <1>1, <2>0 DEF LeaseOf
    <3>2. LeaseOf(s)' = draft
      BY <1>5, <2>0 DEF LeaseOf
    <3>3. ASSUME NEW t \in Sessions \ {s}, LeaseOf(t) # None
          PROVE  LeaseOf(t).id \in Nat /\ LeaseOf(t).id <= fence
      <4>1. LeaseOf(t) \in Leases
        BY <3>3 DEF LeaseOf, IInv, TypeOK, Frames
      <4> QED
        BY <3>3, <4>1 DEF IInv, Numbered, Leases
    <3>4. fence' = fence + 1 /\ draft.id = fence + 1 /\ fence \in Nat
      BY <1>3, <1>4, <1>12
    <3>5. ASSUME NEW t \in Sessions, LeaseOf(t)' # None
          PROVE  (LeaseOf(t).id <= fence)'
      BY <3>1, <3>2, <3>3, <3>4, <3>5
    <3>6. ASSUME NEW t \in Sessions, NEW u \in Sessions, LeaseOf(t)' # None, LeaseOf(u)' # None,
                 LeaseOf(t)'.id = LeaseOf(u)'.id
          PROVE  t = u
      <4>1. CASE t = s \/ u = s
        BY <3>1, <3>2, <3>3, <3>4, <3>6, <4>1
      <4>2. CASE t # s /\ u # s
        BY <3>1, <3>6, <4>2 DEF IInv, Numbered
      <4> QED
        BY <4>1, <4>2
    <3> QED
      BY <3>5, <3>6 DEF Numbered
  <2>5. CallsSound' /\ ClaimsLast'
    <3>1. /\ Moves(calls', calls, 0, {call}) /\ Len(calls') = Len(calls) - 0 + 1
          /\ calls' \in Seq(Calls)
      BY <1>3, <1>6, <1>12, MovesFacts
    <3>2. ASSUME NEW c \in Calls, CallSound(c)
          PROVE  CallSound(c)'
      <4>1. c.op \in InFlight => /\ c.lease # None /\ Session(c.lease) # s
                                 /\ Session(c.lease) \in Sessions
        BY <1>1, <3>2, LeaseAssumption DEF CallSound, Calls, Leases, Session
      <4>2. c.op \in InFlight => claims'[Session(c.lease)] = claims[Session(c.lease)]
        BY <4>1, <2>0
      <4> QED
        BY <1>1, <3>2, <4>1, <4>2 DEF CallSound, References, Holding, physical, Session
    <3>3. CallSound(call)'
      <4>1. call.op = "claim" /\ draft # None /\ SessionOf[draft.run] = s
        BY <1>4, <1>6, NoneAssumption DEF Session
      <4>2. claims'[s] # None /\ claims'[s].lease = draft
        BY <1>5, <2>0
      <4> QED
        BY <1>6, <4>1, <4>2 DEF CallSound, Session
    <3>4. ASSUME NEW i \in DOMAIN calls, calls[i].op \in InFlight
          PROVE  Session(calls[i].lease) # Session(call.lease)
      BY <1>1, <1>4, <1>6, <3>4 DEF IInv, CallsSound, CallSound
    <3>5. StaySound(0) /\ EnterSound(0, {call}) /\ {call} \subseteq Calls
      BY <1>6, <3>2, <3>3, <3>4 DEF StaySound, EnterSound
    <3> QED
      BY <3>1, <3>5, CallsMove
  <2>6. Admitted'
    BY <1>1, <1>4, <1>5, <1>8, <1>9, <1>10, <2>0 DEF Admitted, Reserved, Session
  <2> QED
    BY <1>1, <1>7, <2>1, <2>2, <2>3, <2>4, <2>5, <2>6, PhysicalStays DEF IInv, faults, physical
<1> QED
  BY <1>2, <1>11, <1>12

\* The claim at the head of the queue: its frame, its session without a lease,
\* and nothing of its session behind it.
LEMMA HeadClaim ==
    ASSUME IInv, calls # << >>, Head(calls).op \in InFlight
    PROVE  LET lease == Head(calls).lease
               s     == Session(lease)
           IN  /\ lease \in Leases /\ s \in Sessions
               /\ claims[s] \in Frames /\ claims[s] # None /\ claims[s].lease = lease
               /\ sessions[s] = None /\ runs[lease.run] = None
               /\ Head(calls) = calls[1] /\ 1 \in DOMAIN calls
               /\ \A i \in DOMAIN calls :
                     1 < i /\ calls[i].op \in InFlight \cup {"release"} =>
                        Session(calls[i].lease) # s
<1> DEFINE h == Head(calls)
<1>1. h = calls[1] /\ 1 \in DOMAIN calls /\ h \in Calls
  BY MovesFacts DEF IInv, TypeOK
<1>2. CallSound(h)
  BY <1>1 DEF IInv, CallsSound
<1>3. h.lease \in Leases /\ Session(h.lease) \in Sessions /\ h.lease.run \in Runs
  BY <1>1, <1>2, LeaseAssumption DEF CallSound, Calls, Leases, Session
<1>4. /\ claims[Session(h.lease)] # None /\ claims[Session(h.lease)] \in Frames
      /\ claims[Session(h.lease)].lease = h.lease
  BY <1>2, <1>3 DEF CallSound, IInv, TypeOK
<1>5. sessions[Session(h.lease)] = None
  BY <1>3, <1>4 DEF IInv, Framed
<1>6. runs[h.lease.run] = None
  BY <1>3, <1>5 DEF IInv, IndexesAgree, Session
<1>7. \A i \in DOMAIN calls :
         1 < i /\ calls[i].op \in InFlight \cup {"release"} =>
            Session(calls[i].lease) # Session(h.lease)
  BY <1>1 DEF IInv, ClaimsLast
<1> QED
  BY <1>1, <1>3, <1>4, <1>5, <1>6, <1>7

\* The calls behind a claim do not see what becomes of its session.
LEMMA BehindClaim ==
    ASSUME IInv, calls # << >>, Head(calls).op \in InFlight,
           NEW s \in Sessions, s = Session(Head(calls).lease),
           UNCHANGED << tools, resources >>, blocked \subseteq blocked',
           \A t \in Sessions \ {s} : claims'[t] = claims[t] /\ sessions'[t] = sessions[t],
           NEW c \in Calls, CallSound(c), NEW i \in DOMAIN calls, 1 < i, calls[i] = c
    PROVE  CallSound(c)'
<1>1. c.op \in InFlight \cup {"release"} =>
         c.lease # None /\ Session(c.lease) # s /\ Session(c.lease) \in Sessions
  BY HeadClaim, LeaseAssumption DEF CallSound, Calls, Leases, Session
<1>2. c.op \in InFlight \cup {"release"} =>
         /\ claims'[Session(c.lease)] = claims[Session(c.lease)]
         /\ sessions'[Session(c.lease)] = sessions[Session(c.lease)]
  BY <1>1
<1> QED
  BY <1>1, <1>2 DEF CallSound, References, Holding, Session

\* A claim is over without a lease: refused, lost or revoked.
LEMMA ClaimEnds ==
    ASSUME IInv, calls # << >>, Head(calls).op \in InFlight,
           NEW s \in Sessions, s = Session(Head(calls).lease),
           claims' = [claims EXCEPT ![s] = None], calls' = Tail(calls),
           UNCHANGED << sessions, runs, registry, faults, physical, fence >>,
           blocked' \in SUBSET Sessions, blocked \subseteq blocked',
           Accounted(capacity'), Admitted'
    PROVE  IInv'
<1>1. claims'[s] = None /\ \A t \in Sessions \ {s} : claims'[t] = claims[t]
  BY DEF IInv, TypeOK
<1>2. calls \in Seq(Calls)
  BY DEF IInv, TypeOK
<1>3. TypeOK'
  <2>1. claims' \in [Sessions -> Frames \cup {None}] /\ calls' \in Seq(Calls)
    BY <1>2 DEF IInv, TypeOK
  <2> QED
    BY <2>1 DEF IInv, TypeOK, Accounted, registry, faults, physical
<1>4. IndexesAgree' /\ Framed'
  BY <1>1 DEF IInv, IndexesAgree, Framed
<1>5. Numbered'
  <2>1. sessions[s] = None
    BY HeadClaim
  <2>2. \A t \in Sessions : LeaseOf(t)' # None => LeaseOf(t)' = LeaseOf(t)
    BY <1>1, <2>1 DEF LeaseOf
  <2> QED
    BY <2>2 DEF IInv, Numbered
<1>6. CallsSound' /\ ClaimsLast'
  <2>1. Moves(calls', calls, 1, {}) /\ calls' \in Seq(Calls)
    BY <1>2, MovesFacts
  <2>2. ASSUME NEW c \in Calls, CallSound(c), NEW i \in DOMAIN calls, 1 < i, calls[i] = c
        PROVE  CallSound(c)'
    BY <1>1, <2>2, BehindClaim DEF physical
  <2>3. StaySound(1) /\ EnterSound(1, {})
    BY <2>2 DEF StaySound, EnterSound
  <2> QED
    BY <2>1, <2>3, CallsMove
<1> QED
  BY <1>3, <1>4, <1>5, <1>6, PhysicalStays DEF IInv, faults, physical

\* A claim that is abandoned leaves its session gated.
LEMMA Abandoning ==
    ASSUME IInv, calls # << >>, Head(calls).op \in InFlight,
           Abandon(Session(Head(calls).lease)), calls' = Tail(calls),
           UNCHANGED << registry, faults, physical, fence >>
    PROVE  IInv'
<1> DEFINE s == Session(Head(calls).lease)
<1>1. s \in Sessions
  BY HeadClaim
<1>2. /\ claims' = [claims EXCEPT ![s] = None] /\ blocked' = blocked \cup {s}
      /\ UNCHANGED << sessions, runs, capacity >>
  BY DEF Abandon
<1> HIDE DEF s
<1>3. claims'[s] = None /\ \A t \in Sessions \ {s} : claims'[t] = claims[t]
  BY <1>1, <1>2 DEF IInv, TypeOK
<1>4. Accounted(capacity') /\ Admitted'
  BY <1>2, <1>3 DEF IInv, Admitted, Reserved
<1>5. blocked' \in SUBSET Sessions /\ blocked \subseteq blocked'
  BY <1>1, <1>2 DEF IInv, TypeOK
<1> QED
  BY <1>1, <1>2, <1>4, <1>5, ClaimEnds DEF s

\* The reply to a claim: the lease enters both indexes, or is revoked, or the
\* claim ends.
LEMMA ReceivingClaim ==
    ASSUME IInv, NEW reply, ClaimReply(reply),
           reply.kind = "lease" => /\ reply.lease \in Leases
                                   /\ reply.lease.id = Head(calls).lease.id
                                   /\ reply.lease.run = Head(calls).lease.run
    PROVE  IInv'
<1>1. calls # << >> /\ Head(calls).op = "claim" /\ Head(calls).op \in InFlight
  BY DEF ClaimReply, Awaits, InFlight
<1>1a. PICK lease \in Leases : lease = Head(calls).lease
  BY <1>1, HeadClaim
<1>1b. PICK s \in Sessions : s = Session(lease)
  BY <1>1, <1>1a, HeadClaim
<1>2. /\ lease \in Leases /\ s \in Sessions
      /\ claims[s] \in Frames /\ claims[s] # None /\ claims[s].lease = lease
      /\ sessions[s] = None /\ runs[lease.run] = None
      /\ Head(calls) = calls[1] /\ 1 \in DOMAIN calls
      /\ \A i \in DOMAIN calls :
            1 < i /\ calls[i].op \in InFlight \cup {"release"} =>
               Session(calls[i].lease) # s
  BY <1>1, <1>1a, <1>1b, HeadClaim
<1>3. UNCHANGED << registry, faults, physical >>
  BY DEF ClaimReply
<1>4. calls \in Seq(Calls) /\ fence \in Nat /\ lease.run \in Runs /\ s = SessionOf[lease.run]
  BY <1>1b, <1>2 DEF IInv, TypeOK, Leases, Session
<1>5. CASE /\ reply.kind = "lease"
           /\ fence' = IF reply.lease.fence > fence THEN reply.lease.fence ELSE fence
           /\ sessions' = [sessions EXCEPT ![s] = reply.lease]
           /\ runs' = [runs EXCEPT ![lease.run] = reply.lease]
           /\ claims' = [claims EXCEPT ![s] = None]
           /\ calls' = Tail(calls)
           /\ UNCHANGED << blocked, capacity >>
  <2> DEFINE given == reply.lease
  <2>1. /\ given \in Leases /\ given.id = lease.id /\ given.run = lease.run /\ given # None
        /\ Session(given) = s
    BY <1>1a, <1>1b, <1>5, NoneAssumption DEF Session
  <2>2. fence' \in Nat /\ fence <= fence'
    BY <1>4, <1>5, <2>1 DEF Leases
  <2>3. /\ sessions'[s] = given /\ claims'[s] = None /\ runs'[lease.run] = given
        /\ \A t \in Sessions \ {s} : claims'[t] = claims[t] /\ sessions'[t] = sessions[t]
        /\ \A q \in Runs \ {lease.run} : runs'[q] = runs[q]
    BY <1>2, <1>4, <1>5 DEF IInv, TypeOK
  <2>4. TypeOK'
    <3>1. /\ claims' \in [Sessions -> Frames \cup {None}]
          /\ sessions' \in [Sessions -> Leases \cup {None}]
          /\ runs' \in [Runs -> Leases \cup {None}]
      BY <1>5, <2>1 DEF IInv, TypeOK
    <3>2. calls' \in Seq(Calls)
      BY <1>1, <1>4, <1>5
    <3> QED
      BY <1>3, <1>5, <2>2, <3>1, <3>2 DEF IInv, TypeOK, registry, faults, physical
  <2> HIDE DEF given
  <2>5. IndexesAgree'
    <3>1. ASSUME NEW q \in Runs, runs'[q] # None
          PROVE  runs'[q].run = q /\ sessions'[SessionOf[q]] = runs'[q]
      <4>1. CASE q = lease.run
        BY <1>4, <2>1, <2>3, <4>1
      <4>2. CASE q # lease.run
        <5>1. runs[q] # None /\ runs'[q] = runs[q]
          BY <2>3, <3>1, <4>2
        <5>2. runs[q].run = q /\ sessions[SessionOf[q]] = runs[q] /\ SessionOf[q] \in Sessions
          BY <5>1, LeaseAssumption DEF IInv, IndexesAgree
        <5>3. SessionOf[q] # s
          BY <1>2, <5>1, <5>2
        <5> QED
          BY <2>3, <5>1, <5>2, <5>3
      <4> QED
        BY <4>1, <4>2
    <3>2. ASSUME NEW t \in Sessions, sessions'[t] # None
          PROVE  SessionOf[sessions'[t].run] = t /\ runs'[sessions'[t].run] = sessions'[t]
      <4>1. CASE t = s
        BY <1>4, <2>1, <2>3, <4>1
      <4>2. CASE t # s
        <5>1. sessions[t] # None /\ sessions'[t] = sessions[t] /\ sessions[t].run \in Runs
          BY <2>3, <3>2, <4>2 DEF IInv, TypeOK, Leases
        <5>2. SessionOf[sessions[t].run] = t /\ runs[sessions[t].run] = sessions[t]
          BY <5>1 DEF IInv, IndexesAgree
        <5>3. sessions[t].run # lease.run
          BY <1>4, <4>2, <5>2
        <5> QED
          BY <2>3, <5>1, <5>2, <5>3
      <4> QED
        BY <4>1, <4>2
    <3> QED
      BY <3>1, <3>2 DEF IndexesAgree
  <2>6. Framed'
    BY <2>3 DEF IInv, Framed
  <2>7. Numbered'
    <3>1. /\ \A t \in Sessions \ {s} : LeaseOf(t)' = LeaseOf(t)
          /\ LeaseOf(s)' = given /\ LeaseOf(s) = lease
      <4>1. /\ claims[s] # None /\ claims[s].lease = lease
        BY <1>2
      <4> QED
        BY <2>3, <4>1 DEF LeaseOf
    <3>2. lease # None /\ lease.id \in Nat /\ fence \in Nat
      BY <1>2, <1>4, NoneAssumption DEF Leases
    <3>3. ASSUME NEW t \in Sessions, LeaseOf(t)' # None
          PROVE  LeaseOf(t) # None /\ LeaseOf(t)'.id = LeaseOf(t).id /\ LeaseOf(t).id \in Nat
      <4>1. LeaseOf(t) # None /\ LeaseOf(t)'.id = LeaseOf(t).id
        <5>1. CASE t = s
          BY <2>1, <3>1, <3>2, <5>1
        <5>2. CASE t # s
          BY <3>1, <3>3, <5>2
        <5> QED
          BY <5>1, <5>2
      <4>2. LeaseOf(t) \in Leases
        BY <4>1 DEF LeaseOf, IInv, TypeOK, Frames
      <4> QED
        BY <4>1, <4>2 DEF Leases
    <3>4. ASSUME NEW t \in Sessions, LeaseOf(t)' # None
          PROVE  LeaseOf(t)'.id <= fence'
      <4>1. LeaseOf(t).id <= fence
        BY <3>3, <3>4 DEF IInv, Numbered
      <4> QED
        BY <2>2, <3>2, <3>3, <3>4, <4>1
    <3>5. ASSUME NEW t \in Sessions, NEW u \in Sessions, LeaseOf(t)' # None, LeaseOf(u)' # None,
                 LeaseOf(t)'.id = LeaseOf(u)'.id
          PROVE  t = u
      BY <3>3, <3>5 DEF IInv, Numbered
    <3> QED
      BY <3>4, <3>5 DEF Numbered
  <2>8. CallsSound' /\ ClaimsLast'
    <3>1. Moves(calls', calls, 1, {}) /\ calls' \in Seq(Calls)
      BY <1>1, <1>4, <1>5, MovesFacts
    <3>2. ASSUME NEW c \in Calls, CallSound(c), NEW i \in DOMAIN calls, 1 < i, calls[i] = c
          PROVE  CallSound(c)'
      BY <1>1, <1>2, <1>3, <1>5, <2>3, <3>2, <1>1a, <1>1b, BehindClaim DEF physical
    <3>3. StaySound(1) /\ EnterSound(1, {})
      BY <3>2 DEF StaySound, EnterSound
    <3> QED
      BY <3>1, <3>3, CallsMove
  <2>9. PhysicalWorkPinsLease' /\ DeferredReleaseWaits' /\ IsFiniteSet(tools')
    <3>1. \A l \in Registered : l \in Registered'
      <4> SUFFICES ASSUME NEW q \in Runs, runs[q] # None
                   PROVE  runs'[q] = runs[q]
        BY DEF Registered
      <4> QED
        BY <1>2, <2>3
    <3>2. \A l \in pendingReleases : runs[l.run] = l => runs'[l.run] = l
      <4> SUFFICES ASSUME NEW l \in pendingReleases, runs[l.run] = l
                   PROVE  runs'[l.run] = l
        OBVIOUS
      <4>1. l # None /\ l.run \in Runs
        BY NoneAssumption DEF IInv, TypeOK, Leases
      <4> QED
        BY <1>2, <2>3, <4>1
    <3> HIDE DEF Registered
    <3> QED
      BY <1>3, <3>1, <3>2 DEF IInv, PhysicalWorkPinsLease, DeferredReleaseWaits, References,
                              Holding, faults, physical
  <2>10. Accounted(capacity') /\ Admitted'
    <3>1. Reserved(lease)
      BY <1>2 DEF IInv, Admitted
    <3>2. capacity'.reserved[s] # None /\ capacity'.reserved[s].run = given.run
      BY <1>4, <1>5, <2>1, <3>1 DEF Reserved, Session
    <3> QED
      BY <1>5, <2>1, <2>3, <3>2 DEF IInv, Admitted, Reserved
  <2> QED
    BY <2>4, <2>5, <2>6, <2>7, <2>8, <2>9, <2>10 DEF IInv
<1>6. CASE /\ reply.kind = "lease"
           /\ fence' = IF reply.lease.fence > fence THEN reply.lease.fence ELSE fence
           /\ claims' = [claims EXCEPT ![s].stage = "revoke"]
           /\ calls' = Append(Tail(calls), ClaimCall("unclaim", lease))
           /\ UNCHANGED << sessions, runs, blocked, capacity >>
  <2>0. PICK call \in Calls : call = ClaimCall("unclaim", lease)
    BY <1>2 DEF Calls, ClaimCall, Leases
  <2>1. call \in Calls /\ call.op = "unclaim" /\ call.lease = lease /\ call.op \in InFlight
    BY <2>0 DEF ClaimCall, InFlight
  <2>2. fence' \in Nat /\ fence <= fence'
    BY <1>4, <1>6 DEF Leases
  <2>3. /\ claims'[s] = [claims[s] EXCEPT !.stage = "revoke"]
        /\ \A t \in Sessions \ {s} : claims'[t] = claims[t]
    BY <1>2, <1>6 DEF IInv, TypeOK
  <2>4. claims'[s] \in Frames /\ claims'[s].lease = lease /\ claims'[s] # None
    BY <1>2, <2>3, CoordinatorAssumption DEF Frames
  <2>5. TypeOK'
    <3>1. Tail(calls) \in Seq(Calls)
      BY <1>1, <1>4
    <3>2. claims' \in [Sessions -> Frames \cup {None}] /\ calls' \in Seq(Calls)
      <4>1. claims' \in [Sessions -> Frames \cup {None}]
        BY <1>2, <1>6, <2>3, <2>4 DEF IInv, TypeOK
      <4>2. calls' \in Seq(Calls)
        BY <1>6, <2>0, <2>1, <3>1
      <4> QED
        BY <4>1, <4>2
    <3> QED
      BY <1>3, <1>6, <2>2, <3>2 DEF IInv, TypeOK, registry, faults, physical
  <2>6. Framed' /\ IndexesAgree'
    BY <1>2, <1>6, <2>3, <2>4 DEF IInv, Framed, IndexesAgree, Session
  <2>7. Numbered'
    <3>1. \A t \in Sessions : LeaseOf(t)' = LeaseOf(t)
      BY <1>2, <1>6, <2>3, <2>4 DEF LeaseOf
    <3>2. ASSUME NEW t \in Sessions, LeaseOf(t) # None
          PROVE  LeaseOf(t).id <= fence'
      <4>1. LeaseOf(t) \in Leases
        BY <3>2 DEF LeaseOf, IInv, TypeOK, Frames
      <4>2. LeaseOf(t).id <= fence
        BY <3>2 DEF IInv, Numbered
      <4> QED
        BY <1>4, <2>2, <4>1, <4>2 DEF Leases
    <3> QED
      BY <3>1, <3>2 DEF IInv, Numbered
  <2>8. CallsSound' /\ ClaimsLast'
    <3>1. /\ Moves(calls', calls, 1, {call}) /\ Len(calls') = Len(calls) - 1 + 1
          /\ calls' \in Seq(Calls)
      <4>1. Moves(calls', calls, 1, {call}) /\ Len(calls') = Len(calls)
        BY <1>1, <1>4, <1>6, <2>0, MovesFacts
      <4>2. calls' \in Seq(Calls)
        BY <2>5 DEF TypeOK
      <4>3. Len(calls) \in Nat
        BY <1>4
      <4> QED
        BY <4>1, <4>2, <4>3
    <3>2. ASSUME NEW c \in Calls, CallSound(c), NEW i \in DOMAIN calls, 1 < i, calls[i] = c
          PROVE  CallSound(c)'
      BY <1>1, <1>2, <1>3, <1>6, <2>3, <3>2, <1>1a, <1>1b, BehindClaim DEF physical
    <3>3. CallSound(call)'
      <4>1. call.op = "unclaim" /\ lease # None /\ SessionOf[lease.run] = s
        BY <1>1b, <1>2, <2>1, NoneAssumption DEF Session
      <4>2. claims'[s] # None /\ claims'[s].lease = lease
        BY <2>4
      <4> QED
        BY <2>1, <4>1, <4>2 DEF CallSound, Session
    <3>4. ASSUME NEW i \in DOMAIN calls, 1 < i, calls[i].op \in InFlight
          PROVE  Session(calls[i].lease) # Session(call.lease)
      BY <1>1b, <1>2, <2>1, <3>4
    <3>5. StaySound(1) /\ EnterSound(1, {call}) /\ {call} \subseteq Calls
      BY <2>1, <3>2, <3>3, <3>4 DEF StaySound, EnterSound
    <3> QED
      BY <3>1, <3>5, CallsMove
  <2>9. Admitted'
    BY <1>2, <1>6, <2>3, <2>4 DEF IInv, Admitted, Reserved
  <2>10. Accounted(capacity')
    BY <1>6 DEF IInv
  <2> QED
    BY <1>3, <1>6, <2>5, <2>6, <2>7, <2>8, <2>9, <2>10, PhysicalStays DEF IInv, faults, physical
<1>7. CASE /\ claims' = [claims EXCEPT ![s] = None]
           /\ capacity' = WithoutReservation(capacity, s)
           /\ calls' = Tail(calls)
           /\ UNCHANGED << sessions, runs, blocked, fence >>
  <2>1. claims'[s] = None /\ \A t \in Sessions \ {s} : claims'[t] = claims[t]
    BY <1>2, <1>7 DEF IInv, TypeOK
  <2>2. Accounted(capacity') /\ Admitted'
    BY <1>2, <1>7, <2>1, ReservationDropped
  <2>3. blocked' \in SUBSET Sessions /\ blocked \subseteq blocked'
    BY <1>7 DEF IInv, TypeOK
  <2> QED
    BY <1>1, <1>2, <1>3, <1>7, <1>1a, <1>1b, <2>2, <2>3, ClaimEnds
<1>8. CASE Abandon(s) /\ calls' = Tail(calls) /\ UNCHANGED fence
  BY <1>1, <1>1a, <1>1b, <1>3, <1>8, Abandoning
<1> QED
  BY <1>1a, <1>1b, <1>5, <1>6, <1>7, <1>8 DEF ClaimReply

\* The reply to the revocation of a claim.
LEMMA ReceivingUnclaim ==
    ASSUME IInv, UnclaimReply
    PROVE  IInv'
<1>1. calls # << >> /\ Head(calls).op \in InFlight
  BY DEF UnclaimReply, Awaits, InFlight
<1> QED
  BY <1>1, Abandoning DEF UnclaimReply

-----------------------------------------------------------------------------
(* Releases, and the end of physical activity.                              *)

\* A registered lease is in both indexes, and its session claims nothing.
LEMMA RegisteredFacts ==
    ASSUME IInv, NEW l \in Registered
    PROVE  /\ l \in Leases /\ l # None /\ l.run \in Runs /\ runs[l.run] = l
           /\ Session(l) \in Sessions /\ sessions[Session(l)] = l /\ claims[Session(l)] = None
<1>1. PICK r \in Runs : l = runs[r] /\ runs[r] # None
  BY DEF Registered
<1>2. l \in Leases /\ l # None /\ l.run = r
  BY <1>1 DEF IInv, TypeOK, IndexesAgree
<1>3. Session(l) \in Sessions /\ sessions[Session(l)] = l
  BY <1>1, <1>2, LeaseAssumption DEF IInv, IndexesAgree, Session
<1>4. claims[Session(l)] = None
  BY <1>2, <1>3 DEF IInv, Framed
<1> QED
  BY <1>1, <1>2, <1>3, <1>4

\* Two leases with one number are one lease.
LEMMA NumbersApart ==
    ASSUME IInv, NEW l \in Registered, NEW m \in Registered, l.id = m.id
    PROVE  l = m
<1>1. /\ LeaseOf(Session(l)) = l /\ LeaseOf(Session(m)) = m
      /\ l # None /\ m # None /\ Session(l) \in Sessions /\ Session(m) \in Sessions
  BY RegisteredFacts DEF LeaseOf
<1>2. Session(l) = Session(m)
  BY <1>1 DEF IInv, Numbered
<1> QED
  BY <1>1, <1>2

\* The leases whose release is deferred are registered, and finitely many.
LEMMA PendingFinite ==
    ASSUME IInv
    PROVE  /\ pendingReleases \subseteq Registered
           /\ \A S \in SUBSET Registered : IsFiniteSet(S)
<1>1. pendingReleases \subseteq Registered
  <2> SUFFICES ASSUME NEW l \in pendingReleases PROVE l \in Registered
    OBVIOUS
  <2>1. l \in Leases /\ l # None /\ l.run \in Runs /\ runs[l.run] = l
    BY NoneAssumption DEF IInv, TypeOK, DeferredReleaseWaits, Leases
  <2> QED
    BY <2>1 DEF Registered
<1>2. IsFiniteSet(Registered)
  <2> DEFINE R == {q \in Runs : runs[q] # None}
             f == [r \in R |-> runs[r]]
  <2>1. IsFiniteSet(R)
    BY LeaseAssumption, FS_Subset
  <2>2. f \in Surjection(R, Registered)
    BY DEF Surjection, Registered
  <2> HIDE DEF R, f
  <2> QED
    BY <2>1, <2>2, FS_Surjection
<1> QED
  BY <1>1, <1>2, FS_Subset

\* The releases of registered leases that hold nothing physical any more, with
\* tools and resources going away in the same step.
LEMMA ReleasesStart ==
    ASSUME IInv, NEW leases \in SUBSET Registered, Releasing(leases),
           UNCHANGED << sessions, runs, claims, fence >>,
           tools' \subseteq tools,
           resources' \in [Keys -> Resources \cup {None}],
           \A k \in Keys : resources'[k] = resources[k] \/ resources'[k] = None,
           \A l \in leases : ~References(tools', resources', l.id)
    PROVE  CallsSound' /\ ClaimsLast' /\ blocked' \subseteq Sessions /\ calls' \in Seq(Calls)
<1> DEFINE New == {ReleaseCall(l) : l \in leases}
<1>1. calls \in Seq(Calls) /\ calls' = calls \o Listed(New)
  BY DEF IInv, TypeOK, Releasing
<1>2. New \subseteq Calls
  BY RegisteredFacts DEF ReleaseCall, Calls
<1>3. IsFiniteSet(New)
  <2> DEFINE f == [l \in leases |-> ReleaseCall(l)]
  <2>1. f \in Surjection(leases, New)
    BY DEF Surjection
  <2>2. IsFiniteSet(leases)
    BY PendingFinite
  <2> HIDE DEF f, New
  <2> QED
    BY <2>1, <2>2, FS_Surjection
<1>4. calls' \in Seq(Calls) /\ Moves(calls', calls, 0, New)
  BY <1>1, <1>2, <1>3, ConcatMoves
<1>5. blocked' = blocked \cup {Session(l) : l \in leases} /\ blocked' \subseteq Sessions
  BY RegisteredFacts DEF Releasing, IInv, TypeOK
<1>6. \A id : References(tools', resources', id) => References(tools, resources, id)
  BY DEF References, Holding
<1>7. StaySound(0)
  <2> SUFFICES ASSUME NEW c \in Calls, CallSound(c) PROVE CallSound(c)'
    BY DEF StaySound
  <2>1. c.op \in InFlight => /\ c.lease # None
                             /\ claims'[Session(c.lease)] # None
                             /\ claims'[Session(c.lease)].lease = c.lease
    BY DEF CallSound
  <2>2. c.op = "release" => /\ c.lease # None
                            /\ sessions'[Session(c.lease)] # None =>
                                 /\ c.lease = sessions'[Session(c.lease)]
                                 /\ Session(c.lease) \in blocked'
                                 /\ ~References(tools', resources', c.lease.id)
    BY <1>5, <1>6 DEF CallSound
  <2>3. c.op = "revoke" => c.by # None
    BY DEF CallSound
  <2> QED
    BY <2>1, <2>2, <2>3 DEF CallSound, Session
<1>8. EnterSound(0, New)
  <2> SUFFICES ASSUME NEW l \in leases, NEW c, c = ReleaseCall(l)
               PROVE  /\ CallSound(c)'
                      /\ \A i \in DOMAIN calls :
                            0 < i /\ calls[i].op \in InFlight /\ c.op \in InFlight \cup {"release"} =>
                               Session(calls[i].lease) # Session(c.lease)
    BY DEF EnterSound
  <2>1. c.op = "release" /\ c.lease = l
    BY DEF ReleaseCall
  <2>2. l # None /\ sessions[Session(l)] = l /\ claims[Session(l)] = None
    BY RegisteredFacts
  <2>3. Session(l) \in blocked' /\ ~References(tools', resources', l.id)
    BY <1>5
  <2>4. CallSound(c)'
    BY <2>1, <2>2, <2>3 DEF CallSound, Session, InFlight
  <2>5. ASSUME NEW i \in DOMAIN calls, calls[i].op \in InFlight
        PROVE  Session(calls[i].lease) # Session(c.lease)
    BY <2>1, <2>2, <2>5 DEF IInv, CallsSound, CallSound
  <2> QED
    BY <2>4, <2>5
<1>9. \A c \in New : c.op \notin InFlight
  BY DEF ReleaseCall, InFlight
<1> HIDE DEF New
<1>10. CallsSound' /\ ClaimsLast'
  BY <1>2, <1>4, <1>7, <1>8, <1>9, CallsMove
<1> QED
  BY <1>4, <1>5, <1>10

\* The end of physical activity: what still waits keeps waiting for something.
LEMMA Settling ==
    ASSUME IInv, NEW rl, NEW ex, NEW ts \in SUBSET tools,
           NEW rs \in [Keys -> Resources \cup {None}],
           \A k \in Keys : rs[k] = resources[k] \/ rs[k] = None,
           SettleReleases(rl, ex, ts, rs),
           UNCHANGED << sessions, runs, claims, fence, revoking, interruptions, stoppedRuns,
                        fencing >>,
           role' \in [Owners -> Roles], exited' \subseteq Owners,
           defaultOf' \in [Units -> Owners \cup {None}],
           Accounted(capacity'), Admitted'
    PROVE  IInv'
<1> DEFINE ready == {l \in pendingReleases : ~References(ts, rs, l.id)}
           start == {l \in ready : AssertedUnder(rl, ex, l)}
<1>1. /\ tools' = ts /\ resources' = rs
      /\ pendingReleases' = pendingReleases \ ready
      /\ Releasing(start)
  BY DEF SettleReleases
<1>2. start \in SUBSET Registered
  BY PendingFinite
<1>3. \A l \in start : ~References(tools', resources', l.id)
  BY <1>1
<1>4. \A l \in pendingReleases' : l \in pendingReleases /\ References(tools', resources', l.id)
  BY <1>1
<1>4a. pendingReleases' \subseteq pendingReleases
  BY <1>1
<1> HIDE DEF ready, start
<1>5. CallsSound' /\ ClaimsLast' /\ blocked' \subseteq Sessions /\ calls' \in Seq(Calls)
  BY <1>1, <1>2, <1>3, ReleasesStart
<1>6. IsFiniteSet(tools') /\ tools' \subseteq Permits /\ Cardinality(tools') <= MaxTools
  <2>1. IsFiniteSet(tools) /\ tools \subseteq Permits /\ Cardinality(tools) <= MaxTools
    BY DEF IInv, TypeOK
  <2>2. /\ IsFiniteSet(ts) /\ Cardinality(ts) <= Cardinality(tools)
        /\ Cardinality(ts) \in Nat /\ Cardinality(tools) \in Nat
    BY <2>1, FS_Subset, FS_CardinalityType
  <2> QED
    BY <1>1, <2>1, <2>2, CoordinatorAssumption
<1>7. TypeOK'
  BY <1>1, <1>4a, <1>5, <1>6 DEF IInv, TypeOK, Accounted
<1>8. PhysicalWorkPinsLease'
  <2>1. Registered' = Registered
    BY DEF Registered
  <2>2. ASSUME NEW t \in tools' PROVE \E l \in Registered : l.id = t.lease
    BY <1>1 DEF IInv, PhysicalWorkPinsLease
  <2>3. ASSUME NEW k \in Keys, resources'[k] # None, resources'[k].lease # 0
        PROVE  \E l \in Registered : l.id = resources'[k].lease
    BY <1>1, <2>3 DEF IInv, PhysicalWorkPinsLease, Holding
  <2> HIDE DEF Registered
  <2> QED
    BY <2>1, <2>2, <2>3 DEF PhysicalWorkPinsLease, Holding
<1>9. DeferredReleaseWaits'
  BY <1>4 DEF IInv, DeferredReleaseWaits
<1> QED
  BY <1>5, <1>6, <1>7, <1>8, <1>9, LeasesStay DEF IInv

\* releaseTool
LEMMA ReleasingTool ==
    ASSUME IInv, NEW t \in tools, ReleaseTool(t)
    PROVE  IInv'
<1>1. /\ SettleReleases(role, exited, tools \ {t}, resources)
      /\ UNCHANGED << registry, sessions, runs, claims, revoking, interruptions, stoppedRuns,
                      fencing, capacity, fence >>
  BY DEF ReleaseTool
<1>2. Accounted(capacity') /\ Admitted'
  BY <1>1, CapacityStays
<1>3. resources \in [Keys -> Resources \cup {None}] /\ tools \ {t} \in SUBSET tools
  BY DEF IInv, TypeOK
<1>4. /\ role' \in [Owners -> Roles] /\ exited' \subseteq Owners
      /\ defaultOf' \in [Units -> Owners \cup {None}]
  BY <1>1 DEF IInv, TypeOK, registry
<1> QED
  BY <1>1, <1>2, <1>3, <1>4, Settling

\* releaseResource
LEMMA ReleasingResource ==
    ASSUME IInv, NEW k \in Keys, ReleaseResource(k)
    PROVE  IInv'
<1> DEFINE rs == [resources EXCEPT ![k] = None]
<1>1. /\ SettleReleases(role, exited, tools, rs)
      /\ UNCHANGED << registry, sessions, runs, claims, revoking, interruptions, stoppedRuns,
                      fencing, capacity, fence >>
  BY DEF ReleaseResource
<1>2. Accounted(capacity') /\ Admitted'
  BY <1>1, CapacityStays
<1>3. /\ rs \in [Keys -> Resources \cup {None}]
      /\ \A j \in Keys : rs[j] = resources[j] \/ rs[j] = None
  BY DEF IInv, TypeOK
<1>4. /\ role' \in [Owners -> Roles] /\ exited' \subseteq Owners
      /\ defaultOf' \in [Units -> Owners \cup {None}]
  BY <1>1 DEF IInv, TypeOK, registry
<1> HIDE DEF rs
<1>5. tools \in SUBSET tools
  OBVIOUS
<1> QED
  BY <1>1, <1>2, <1>3, <1>4, <1>5, Settling

\* ownerExited: the activity of the process ends with it.
LEMMA Exiting ==
    ASSUME IInv, NEW o \in Owners, OwnerExited(o)
    PROVE  IInv'
<1> DEFINE ts == {t \in tools : t.owner # o}
           rs == [k \in Keys |-> IF resources[k] # None /\ resources[k].owner = o
                                 THEN None ELSE resources[k]]
<1>1. /\ exited' = exited \cup {o} /\ role' = [role EXCEPT ![o] = "fenced"]
      /\ capacity' = WithoutQueued(o)
      /\ UNCHANGED << defaultOf, sessions, runs, claims, revoking, interruptions, stoppedRuns,
                      fencing, fence >>
  BY DEF OwnerExited
<1>2. PICK rl, ex : SettleReleases(rl, ex, ts, rs)
  <2>1. SettleReleases(role', exited', ts, rs)
    BY DEF OwnerExited
  <2> QED
    BY <2>1
<1>3. Accounted(capacity') /\ Admitted'
  BY <1>1, QueuedDropped
<1>4. /\ rs \in [Keys -> Resources \cup {None}]
      /\ \A k \in Keys : rs[k] = resources[k] \/ rs[k] = None
      /\ ts \in SUBSET tools
  BY DEF IInv, TypeOK
<1>5. /\ role' \in [Owners -> Roles] /\ exited' \subseteq Owners
      /\ defaultOf' \in [Units -> Owners \cup {None}]
  BY <1>1 DEF IInv, TypeOK, Roles
<1> HIDE DEF ts, rs
<1> QED
  BY <1>1, <1>2, <1>3, <1>4, <1>5, Settling

\* requestRelease: deferred, or written at once with nothing physical left.
LEMMA Requesting ==
    ASSUME IInv, NEW lease \in Registered, RequestRelease(lease)
    PROVE  IInv'
<1>1. /\ UNCHANGED << registry, sessions, runs, claims, revoking, interruptions, stoppedRuns,
                      fencing, physical, capacity, fence >>
      /\ \/ /\ References(tools, resources, lease.id)
            /\ pendingReleases' = pendingReleases \cup {lease}
            /\ UNCHANGED << blocked, calls >>
         \/ /\ ~References(tools, resources, lease.id)
            /\ Releasing({lease})
            /\ UNCHANGED pendingReleases
  BY DEF RequestRelease
<1>2. Accounted(capacity') /\ Admitted' /\ IndexesAgree' /\ Framed' /\ Numbered'
  BY <1>1, CapacityStays, LeasesStay
<1>3. lease \in Leases /\ runs[lease.run] = lease
  BY RegisteredFacts
<1>4. CASE /\ References(tools, resources, lease.id)
           /\ pendingReleases' = pendingReleases \cup {lease}
           /\ UNCHANGED << blocked, calls >>
  <2>1. TypeOK'
    BY <1>1, <1>3, <1>4 DEF IInv, TypeOK, registry, physical
  <2>2. PhysicalWorkPinsLease' /\ IsFiniteSet(tools')
    BY <1>1 DEF IInv, PhysicalWorkPinsLease, Registered, Holding, physical
  <2>3. DeferredReleaseWaits'
    BY <1>1, <1>3, <1>4 DEF IInv, DeferredReleaseWaits, physical
  <2> QED
    BY <1>1, <1>2, <1>4, <2>1, <2>2, <2>3, CallsStay DEF IInv, physical
<1>5. CASE /\ ~References(tools, resources, lease.id)
           /\ Releasing({lease})
           /\ UNCHANGED pendingReleases
  <2>1. CallsSound' /\ ClaimsLast' /\ blocked' \subseteq Sessions /\ calls' \in Seq(Calls)
    <3>1. {lease} \in SUBSET Registered /\ \A l \in {lease} : ~References(tools', resources', l.id)
      BY <1>1, <1>5 DEF physical
    <3>2. resources' \in [Keys -> Resources \cup {None}] /\ tools' = tools /\ resources' = resources
      BY <1>1 DEF IInv, TypeOK, physical
    <3> QED
      BY <1>1, <1>5, <3>1, <3>2, ReleasesStart
  <2>2. TypeOK'
    BY <1>1, <1>5, <2>1 DEF IInv, TypeOK, registry, physical
  <2> QED
    BY <1>1, <1>2, <1>5, <2>1, <2>2, PhysicalStays DEF IInv, physical
<1> QED
  BY <1>1, <1>4, <1>5

-----------------------------------------------------------------------------
(* A lease is dropped: a written release, or a reconciliation.              *)

\* A lease with nothing physical left is taken out of both indexes.
LEMMA LeaseDropped ==
    ASSUME IInv, NEW s \in Sessions, NEW l, l = sessions[s], l # None,
           ~References(tools, resources, l.id),
           runs' = [runs EXCEPT ![l.run] = None],
           sessions' = [sessions EXCEPT ![s] = None],
           UNCHANGED << claims, fence, tools, resources, pendingReleases >>
    PROVE  /\ IndexesAgree' /\ Framed' /\ Numbered'
           /\ PhysicalWorkPinsLease' /\ DeferredReleaseWaits' /\ IsFiniteSet(tools')
<1>1. l \in Leases /\ l.run \in Runs /\ SessionOf[l.run] = s /\ runs[l.run] = l
  BY DEF IInv, TypeOK, IndexesAgree, Leases
<1>2. /\ sessions'[s] = None /\ \A t \in Sessions \ {s} : sessions'[t] = sessions[t]
      /\ runs'[l.run] = None /\ \A q \in Runs \ {l.run} : runs'[q] = runs[q]
  BY <1>1 DEF IInv, TypeOK
<1>3. IndexesAgree'
  <2>1. ASSUME NEW q \in Runs, runs'[q] # None
        PROVE  runs'[q].run = q /\ sessions'[SessionOf[q]] = runs'[q]
    <3>1. q # l.run /\ runs'[q] = runs[q] /\ SessionOf[q] \in Sessions
      BY <1>2, <2>1, LeaseAssumption
    <3>2. runs[q].run = q /\ sessions[SessionOf[q]] = runs[q]
      BY <2>1, <3>1 DEF IInv, IndexesAgree
    <3>3. SessionOf[q] # s
      BY <3>1, <3>2
    <3> QED
      BY <1>2, <3>1, <3>2, <3>3
  <2>2. ASSUME NEW t \in Sessions, sessions'[t] # None
        PROVE  SessionOf[sessions'[t].run] = t /\ runs'[sessions'[t].run] = sessions'[t]
    <3>1. t # s /\ sessions'[t] = sessions[t] /\ sessions[t].run \in Runs
      BY <1>2, <2>2 DEF IInv, TypeOK, Leases
    <3>2. SessionOf[sessions[t].run] = t /\ runs[sessions[t].run] = sessions[t]
      BY <2>2, <3>1 DEF IInv, IndexesAgree
    <3>3. sessions[t].run # l.run
      BY <1>1, <3>1, <3>2
    <3> QED
      BY <1>2, <3>1, <3>2, <3>3
  <2> QED
    BY <2>1, <2>2 DEF IndexesAgree
<1>4. Framed'
  BY <1>2 DEF IInv, Framed
<1>5. Numbered'
  <2>1. \A t \in Sessions : LeaseOf(t)' # None => LeaseOf(t)' = LeaseOf(t)
    BY <1>2 DEF LeaseOf
  <2> QED
    BY <2>1 DEF IInv, Numbered
<1>6. \A m \in Registered : m # l => m \in Registered'
  <2> SUFFICES ASSUME NEW q \in Runs, runs[q] # None, runs[q] # l
               PROVE  runs'[q] = runs[q]
    BY DEF Registered
  <2> QED
    BY <1>1, <1>2
<1>7. PhysicalWorkPinsLease' /\ IsFiniteSet(tools')
  <2> HIDE DEF Registered
  <2>1. ASSUME NEW t \in tools PROVE \E m \in Registered' : m.id = t.lease
    BY <1>6, <2>1 DEF IInv, PhysicalWorkPinsLease, References
  <2>2. ASSUME NEW k \in Holding(resources), resources[k].lease # 0
        PROVE  \E m \in Registered' : m.id = resources[k].lease
    BY <1>6, <2>2 DEF IInv, PhysicalWorkPinsLease, References
  <2>3. Holding(resources') = Holding(resources)
    BY DEF Holding
  <2> QED
    BY <2>1, <2>2, <2>3 DEF IInv, PhysicalWorkPinsLease
<1>8. DeferredReleaseWaits'
  <2> SUFFICES ASSUME NEW m \in pendingReleases
               PROVE  runs'[m.run] = m /\ References(tools, resources, m.id)
    BY DEF DeferredReleaseWaits
  <2>1. runs[m.run] = m /\ References(tools, resources, m.id) /\ m.run \in Runs
    BY DEF IInv, DeferredReleaseWaits, TypeOK, Leases
  <2>2. m.run # l.run
    BY <1>1, <2>1
  <2> QED
    BY <1>2, <2>1, <2>2
<1> QED
  BY <1>3, <1>4, <1>5, <1>7, <1>8

\* The gate of a session without a lease holds no release back.
LEMMA GateOpens ==
    ASSUME NEW s \in Sessions, sessions'[s] = None,
           \A t \in Sessions \ {s} : sessions'[t] = sessions[t],
           UNCHANGED << claims, tools, resources >>, blocked \ {s} \subseteq blocked',
           NEW c \in Calls, CallSound(c)
    PROVE  CallSound(c)'
<1>1. c.lease # None => Session(c.lease) \in Sessions
  BY LeaseAssumption DEF Calls, Leases, Session
<1>2. c.op = "release" /\ sessions'[Session(c.lease)] # None =>
         /\ Session(c.lease) # s /\ Session(c.lease) \in Sessions
         /\ sessions'[Session(c.lease)] = sessions[Session(c.lease)]
  BY <1>1 DEF CallSound
<1> QED
  BY <1>1, <1>2 DEF CallSound, References, Holding, Session

\* The reply to a release drops the lease if it is still registered; no other
\* call relies on the gate it opens.
LEMMA ReceivingRelease ==
    ASSUME IInv, NEW reply, ReleaseReply(reply)
    PROVE  IInv'
<1>1. /\ calls # << >> /\ Head(calls).op = "release" /\ calls' = Tail(calls)
      /\ UNCHANGED << registry, claims, faults, physical, fence >>
  BY DEF ReleaseReply, Awaits
<1>2. /\ calls \in Seq(Calls) /\ Head(calls) \in Calls /\ CallSound(Head(calls))
      /\ calls' \in Seq(Calls) /\ Moves(calls', calls, 1, {})
  BY <1>1, MovesFacts DEF IInv, TypeOK, CallsSound
<1>3. PICK lease \in Leases : lease = Head(calls).lease
  BY <1>1, <1>2 DEF CallSound, Calls
<1>4. PICK s \in Sessions : s = Session(lease)
  BY <1>3, LeaseAssumption DEF Session, Leases
<1>5. lease.run \in Runs /\ SessionOf[lease.run] = s /\ lease # None
  BY <1>3, <1>4, NoneAssumption DEF Session, Leases
<1>6. CASE UNCHANGED << blocked, runs, sessions, capacity >>
  <2>1. TypeOK'
    BY <1>1, <1>2, <1>6 DEF IInv, TypeOK, registry, faults, physical
  <2>2. \A c : CallSound(c) => CallSound(c)'
    BY <1>1, <1>6 DEF CallSound, References, Holding, physical
  <2>3. StaySound(1) /\ EnterSound(1, {})
    BY <2>2 DEF StaySound, EnterSound
  <2>4. CallsSound' /\ ClaimsLast'
    BY <1>2, <2>3, CallsMove
  <2> QED
    BY <1>1, <1>6, <2>1, <2>4, LeasesStay, CapacityStays, PhysicalStays DEF IInv, faults, physical
<1>7. CASE reply.kind = "ok" /\ sessions[s] # None
  <2> blocked' = blocked \ {s}
    BY <1>3, <1>4, <1>7 DEF ReleaseReply
  <2>1. /\ sessions[s] = lease /\ ~References(tools, resources, lease.id)
        /\ claims[s] = None /\ runs[lease.run] = lease
    BY <1>1, <1>2, <1>3, <1>4, <1>5, <1>7 DEF CallSound, IInv, Framed, IndexesAgree
  <2>2. StillRegistered(lease)
    BY <1>5, <2>1 DEF StillRegistered
  <2>3. /\ runs' = [runs EXCEPT ![lease.run] = None]
        /\ sessions' = [sessions EXCEPT ![s] = None]
        /\ capacity' = WithoutReservation(capacity, s)
    BY <1>3, <1>4, <1>7, <2>2 DEF ReleaseReply
  <2>4. sessions'[s] = None /\ \A t \in Sessions \ {s} : sessions'[t] = sessions[t]
    BY <2>3 DEF IInv, TypeOK
  <2>5. Accounted(capacity') /\ Admitted'
    BY <1>1, <2>1, <2>3, <2>4, ReservationDropped
  <2>6. TypeOK'
    <3>1. runs' \in [Runs -> Leases \cup {None}] /\ sessions' \in [Sessions -> Leases \cup {None}]
      BY <2>3 DEF IInv, TypeOK
    <3> QED
      BY <1>1, <1>2, <1>7, <2>5, <3>1 DEF IInv, TypeOK, Accounted, registry, faults, physical
  <2>7. /\ IndexesAgree' /\ Framed' /\ Numbered'
        /\ PhysicalWorkPinsLease' /\ DeferredReleaseWaits' /\ IsFiniteSet(tools')
    BY <1>1, <1>5, <2>1, <2>3, LeaseDropped DEF faults, physical
  <2>8. CallsSound' /\ ClaimsLast'
    <3>1. StaySound(1) /\ EnterSound(1, {})
      BY <1>1, <1>7, <2>4, GateOpens DEF StaySound, EnterSound, physical
    <3> QED
      BY <1>2, <3>1, CallsMove
  <2> QED
    BY <2>5, <2>6, <2>7, <2>8 DEF IInv
<1>8. CASE /\ blocked' = blocked \ {s}
           /\ sessions[s] = None
           /\ UNCHANGED << runs, sessions, capacity >>
  <2>1. TypeOK'
    BY <1>1, <1>2, <1>8 DEF IInv, TypeOK, registry, faults, physical
  <2>2. StaySound(1) /\ EnterSound(1, {})
    BY <1>1, <1>8, GateOpens DEF StaySound, EnterSound, physical
  <2>3. CallsSound' /\ ClaimsLast'
    BY <1>2, <2>2, CallsMove
  <2> QED
    BY <1>1, <1>8, <2>1, <2>3, LeasesStay, CapacityStays, PhysicalStays DEF IInv, faults, physical
<1>9. sessions[s] = None => ~StillRegistered(lease)
  BY <1>5 DEF StillRegistered, IInv, IndexesAgree
<1> QED
  BY <1>3, <1>4, <1>6, <1>7, <1>8, <1>9 DEF ReleaseReply

\* reconciled
LEMMA Reconciling ==
    ASSUME IInv, NEW s \in Sessions, Reconciled(s)
    PROVE  IInv'
<1>1. /\ Reconcilable(s) /\ claims[s] = None
      /\ capacity' = WithoutReservation(capacity, s)
      /\ blocked' = blocked \ {s}
      /\ UNCHANGED << registry, claims, revoking, fencing, pendingReleases, physical, port >>
  BY DEF Reconciled
<1>2. /\ sessions'[s] = None /\ \A t \in Sessions \ {s} : sessions'[t] = sessions[t]
      /\ runs' \in [Runs -> Leases \cup {None}] /\ sessions' \in [Sessions -> Leases \cup {None}]
      /\ interruptions' \in [Runs -> SUBSET Owners] /\ stoppedRuns' \subseteq Runs
  <2>1. CASE sessions[s] = None
    BY <2>1 DEF Reconciled, IInv, TypeOK
  <2>2. CASE sessions[s] # None
    <3>1. /\ runs' = [runs EXCEPT ![sessions[s].run] = None]
          /\ sessions' = [sessions EXCEPT ![s] = None]
          /\ interruptions' = [interruptions EXCEPT ![sessions[s].run] = {}]
          /\ stoppedRuns' = stoppedRuns \ {sessions[s].run}
      BY <2>2 DEF Reconciled
    <3> QED
      BY <3>1 DEF IInv, TypeOK
  <2> QED
    BY <2>1, <2>2
<1>3. Accounted(capacity') /\ Admitted'
  BY <1>1, <1>2, ReservationDropped
<1>4. TypeOK'
  BY <1>1, <1>2, <1>3 DEF IInv, TypeOK, Accounted, registry, physical, port
<1>5. CallsSound' /\ ClaimsLast'
  <2>1. StaySound(0) /\ EnterSound(0, {})
    BY <1>1, <1>2, GateOpens DEF StaySound, EnterSound, physical
  <2>2. calls \in Seq(Calls) /\ calls' = calls
    BY <1>1 DEF IInv, TypeOK, port
  <2>3. Moves(calls', calls, 0, {})
    BY <2>2, MovesFacts
  <2> QED
    BY <2>1, <2>2, <2>3, CallsMove
<1>6. /\ IndexesAgree' /\ Framed' /\ Numbered'
      /\ PhysicalWorkPinsLease' /\ DeferredReleaseWaits' /\ IsFiniteSet(tools')
  <2>1. CASE sessions[s] = None
    <3>1. UNCHANGED << sessions, runs >>
      BY <2>1 DEF Reconciled
    <3> QED
      BY <1>1, <3>1, LeasesStay, PhysicalStays DEF physical, port
  <2>2. CASE sessions[s] # None
    <3>1. PICK l : l = sessions[s]
      OBVIOUS
    <3>2. /\ runs' = [runs EXCEPT ![l.run] = None]
          /\ sessions' = [sessions EXCEPT ![s] = None]
          /\ ~References(tools, resources, l.id)
      BY <1>1, <2>2, <3>1 DEF Reconciled, Reconcilable
    <3> QED
      BY <1>1, <2>2, <3>1, <3>2, LeaseDropped DEF physical, port
  <2> QED
    BY <2>1, <2>2
<1> QED
  BY <1>3, <1>4, <1>5, <1>6 DEF IInv

-----------------------------------------------------------------------------
(* Revocations.                                                             *)

\* The calls after the next revocation has been asked for, or none.
LEMMA NextCall ==
    ASSUME IInv, NEW o \in Owners, NEW rest \in SUBSET Leases, NEW queue,
           NEW k, \/ queue = calls /\ k = 0
                  \/ queue = Tail(calls) /\ k = 1 /\ calls # << >>,
           NextRevocation(o, rest, queue),
           \A c : CallSound(c) => CallSound(c)'
    PROVE  calls' \in Seq(Calls) /\ CallsSound' /\ ClaimsLast'
<1>1. calls \in Seq(Calls) /\ queue \in Seq(Calls)
  BY DEF IInv, TypeOK
<1>2. StaySound(k)
  BY DEF StaySound
<1>3. CASE calls' = queue
  <2>1. Moves(calls', calls, k, {})
    BY <1>1, <1>3, MovesFacts
  <2>2. EnterSound(k, {})
    BY DEF EnterSound
  <2> QED
    BY <1>1, <1>2, <1>3, <2>1, <2>2, CallsMove
<1>4. ASSUME NEW l \in rest, NEW authority, authority = AuthorityFor(o, l),
             calls' = Append(queue, RevokeCall(o, authority,
                                  {m \in rest : AuthorityFor(o, m) = authority}))
      PROVE  calls' \in Seq(Calls) /\ CallsSound' /\ ClaimsLast'
  <2>1. authority \in Owners
    BY <1>4 DEF AuthorityFor, Leases
  <2>2. PICK c \in Calls : c = RevokeCall(o, authority, {m \in rest : AuthorityFor(o, m) = authority})
    BY <2>1 DEF RevokeCall, Calls, Leases
  <2>3. c.op = "revoke" /\ c.by # None
    BY <2>2, NoneAssumption DEF RevokeCall
  <2>4. calls' = Append(queue, c) /\ calls' \in Seq(Calls)
    BY <1>1, <1>4, <2>2
  <2>5. Moves(calls', calls, k, {c})
    BY <1>1, <2>4, MovesFacts
  <2>6. EnterSound(k, {c})
    BY <2>3 DEF EnterSound, CallSound, InFlight
  <2>7. \A d \in {c} : d.op \notin InFlight
    BY <2>3 DEF InFlight
  <2>8. {c} \subseteq Calls
    OBVIOUS
  <2> QED
    BY <1>2, <2>4, <2>5, <2>6, <2>7, <2>8, CallsMove
<1> QED
  BY <1>3, <1>4 DEF NextRevocation

\* revoke: the gates of the affected close and the first revocation is called.
LEMMA Revoking ==
    ASSUME IInv, NEW o \in Owners, Revoke(o)
    PROVE  IInv'
<1> DEFINE affected == Affected(o)
<1>1. /\ role' = [role EXCEPT ![o] = "fenced"]
      /\ capacity' = WithoutQueued(o)
      /\ revoking' = revoking \cup {o}
      /\ pendingReleases' \subseteq pendingReleases
      /\ blocked' = Closing(affected)
      /\ interruptions' = [r \in Runs |-> IF \E l \in affected : l.run = r
                                          THEN interruptions[r] \cup {o}
                                          ELSE interruptions[r]]
      /\ fencing' = [fencing EXCEPT ![o] = affected]
      /\ NextRevocation(o, affected, calls)
      /\ UNCHANGED << exited, defaultOf, sessions, runs, claims, stoppedRuns, physical, fence >>
  BY DEF Revoke
<1>2. affected \subseteq Registered /\ affected \subseteq Leases
  BY RegisteredFacts DEF Affected
<1>3. blocked' \subseteq Sessions /\ blocked \subseteq blocked'
  BY <1>1, <1>2, RegisteredFacts DEF Closing, IInv, TypeOK
<1> HIDE DEF affected
<1>4. Accounted(capacity') /\ Admitted'
  BY <1>1, QueuedDropped
<1>5. \A c : CallSound(c) => CallSound(c)'
  BY <1>1, <1>3 DEF CallSound, References, Holding, physical
<1>6. calls' \in Seq(Calls) /\ CallsSound' /\ ClaimsLast'
  BY <1>1, <1>2, <1>5, NextCall
<1>7. TypeOK'
  <2>1. /\ role' \in [Owners -> Roles]
        /\ interruptions' \in [Runs -> SUBSET Owners]
        /\ fencing' \in [Owners -> SUBSET Leases]
        /\ revoking' \subseteq Owners /\ pendingReleases' \subseteq Leases
    BY <1>1, <1>2 DEF IInv, TypeOK, Roles
  <2> QED
    BY <1>1, <1>3, <1>4, <1>6, <2>1 DEF IInv, TypeOK, Accounted, physical
<1>8. IsFiniteSet(tools') /\ PhysicalWorkPinsLease' /\ DeferredReleaseWaits'
  BY <1>1 DEF IInv, PhysicalWorkPinsLease, DeferredReleaseWaits, Registered, Holding, References,
              physical
<1> QED
  BY <1>1, <1>4, <1>6, <1>7, <1>8, LeasesStay DEF IInv

\* The reply to a revocation calls the next one.
LEMMA ReceivingRevocation ==
    ASSUME IInv, NEW reply, RevokeReply(reply)
    PROVE  IInv'
<1>1. /\ calls # << >> /\ Head(calls).op = "revoke"
      /\ UNCHANGED << registry, leasing, revoking, interruptions, stoppedRuns,
                      pendingReleases, physical, capacity, fence >>
  BY DEF RevokeReply, Awaits
<1>2. /\ calls \in Seq(Calls) /\ Head(calls) \in Calls /\ CallSound(Head(calls))
  BY <1>1, MovesFacts DEF IInv, TypeOK, CallsSound
<1>3. PICK o \in Owners : o = Head(calls).by
  BY <1>1, <1>2 DEF CallSound, Calls
<1> DEFINE rest == {l \in fencing[o] : l.run \notin Head(calls).runs}
<1>4. \/ fencing' = [fencing EXCEPT ![o] = rest] /\ NextRevocation(o, rest, Tail(calls))
      \/ fencing' = [fencing EXCEPT ![o] = {}] /\ calls' = Tail(calls)
  BY <1>3 DEF RevokeReply
<1>5. rest \subseteq Leases
  BY DEF IInv, TypeOK
<1> HIDE DEF rest
<1>6. fencing' \in [Owners -> SUBSET Leases]
  BY <1>4, <1>5 DEF IInv, TypeOK
<1>7. \A c : CallSound(c) => CallSound(c)'
  BY <1>1 DEF CallSound, References, Holding, leasing, physical
<1>8. calls' \in Seq(Calls) /\ CallsSound' /\ ClaimsLast'
  <2>1. NextRevocation(o, rest, Tail(calls)) \/ NextRevocation(o, {}, Tail(calls))
    BY <1>4 DEF NextRevocation
  <2>2. {} \in SUBSET Leases
    OBVIOUS
  <2> QED
    BY <1>1, <1>5, <1>7, <2>1, <2>2, NextCall
<1>9. TypeOK'
  BY <1>1, <1>6, <1>8 DEF IInv, TypeOK, registry, leasing, physical
<1> QED
  BY <1>1, <1>8, <1>9, LeasesStay, CapacityStays, PhysicalStays DEF IInv, leasing, physical

-----------------------------------------------------------------------------
(* New physical activity.                                                   *)

\* Activity is added for one number: none, or that of a lease whose gate is
\* open, so for no lease whose release is being written.
LEMMA PhysicalAdded ==
    ASSUME IInv, NEW id \in Nat,
           id = 0 \/ \E l \in Registered : l.id = id /\ Session(l) \notin blocked,
           UNCHANGED << registry, leasing, faults, capacity, port >>,
           tools' \subseteq Permits, IsFiniteSet(tools'), Cardinality(tools') <= MaxTools,
           resources' \in [Keys -> Resources \cup {None}],
           tools \subseteq tools',
           \A t \in tools' : t \in tools \/ t.lease = id,
           \A k \in Keys : resources[k] # None =>
                              resources'[k] # None /\ resources'[k].lease = resources[k].lease,
           \A k \in Keys : resources'[k] # None =>
                              \/ resources[k] # None /\ resources'[k].lease = resources[k].lease
                              \/ resources'[k].lease = id
    PROVE  IInv'
<1>1. TypeOK'
  BY DEF IInv, TypeOK, registry, leasing, faults, port
<1>2. \A n \in Nat : /\ References(tools, resources, n) => References(tools', resources', n)
                     /\ References(tools', resources', n) /\ n # id => References(tools, resources, n)
  BY DEF References, Holding
<1>3. Registered' = Registered
  BY DEF Registered, leasing
<1>4. PhysicalWorkPinsLease'
  <2>1. ASSUME NEW t \in tools' PROVE \E l \in Registered : l.id = t.lease
    <3>1. CASE t \in tools
      BY <3>1 DEF IInv, PhysicalWorkPinsLease
    <3>2. CASE t \notin tools
      <4>1. t.lease = id /\ id # 0
        BY <3>2 DEF Permits
      <4> QED
        BY <4>1
    <3> QED
      BY <3>1, <3>2
  <2>2. ASSUME NEW k \in Keys, resources'[k] # None, resources'[k].lease # 0
        PROVE  \E l \in Registered : l.id = resources'[k].lease
    BY <2>2 DEF IInv, PhysicalWorkPinsLease, Holding
  <2> HIDE DEF Registered
  <2> QED
    BY <1>3, <2>1, <2>2 DEF PhysicalWorkPinsLease, Holding
<1>5. DeferredReleaseWaits'
  <2> SUFFICES ASSUME NEW m \in pendingReleases
               PROVE  runs[m.run] = m /\ References(tools', resources', m.id)
    BY DEF DeferredReleaseWaits, leasing, faults
  <2>1. runs[m.run] = m /\ References(tools, resources, m.id) /\ m.id \in Nat
    BY DEF IInv, DeferredReleaseWaits, TypeOK, Leases
  <2> QED
    BY <1>2, <2>1
<1>6. CallsSound' /\ ClaimsLast'
  <2>1. ASSUME NEW c \in Calls, CallSound(c) PROVE CallSound(c)'
    <3>1. ASSUME c.op = "release", sessions[Session(c.lease)] # None
          PROVE  ~References(tools', resources', c.lease.id)
      <4>1. /\ c.lease # None /\ c.lease \in Leases /\ c.lease.run \in Runs
            /\ c.lease = sessions[Session(c.lease)] /\ Session(c.lease) \in Sessions
            /\ Session(c.lease) \in blocked /\ ~References(tools, resources, c.lease.id)
        BY <2>1, <3>1, LeaseAssumption DEF CallSound, Calls, Leases, Session
      <4>2. c.lease \in Registered
        BY <4>1 DEF IInv, IndexesAgree, Registered
      <4>3. c.lease.id # id
        <5>1. c.lease.id # 0
          BY <4>1 DEF Leases
        <5>2. \A l \in Registered : l.id = c.lease.id => l = c.lease
          BY <4>2, NumbersApart
        <5> QED
          BY <4>1, <5>1, <5>2
      <4>4. c.lease.id \in Nat
        BY <4>1 DEF Leases
      <4> QED
        BY <1>2, <4>1, <4>3, <4>4
    <3> QED
      BY <2>1, <3>1 DEF CallSound, Session, leasing
  <2>2. StaySound(0) /\ EnterSound(0, {})
    BY <2>1 DEF StaySound, EnterSound
  <2>3. calls \in Seq(Calls) /\ calls' = calls
    BY DEF IInv, TypeOK, port
  <2>4. Moves(calls', calls, 0, {})
    BY <2>3, MovesFacts
  <2> QED
    BY <2>2, <2>3, <2>4, CallsMove
<1> QED
  BY <1>1, <1>4, <1>5, <1>6, LeasesStay, CapacityStays DEF IInv, leasing, port

\* reserveTool
LEMMA ReservingTool ==
    ASSUME IInv, NEW lease \in Registered, NEW call \in CallIds, NEW o \in Owners,
           ReserveTool(lease, call, o)
    PROVE  IInv'
<1> DEFINE permit == [lease |-> lease.id, call |-> call, owner |-> o]
<1>1. /\ Session(lease) \notin blocked
      /\ Cardinality(tools) < MaxTools
      /\ tools' = tools \cup {permit}
      /\ UNCHANGED << registry, leasing, faults, resources, capacity, port >>
  BY DEF ReserveTool, HasCapacity, Asserted, AssertedUnder, ToolRoom
<1>2. lease \in Leases /\ lease.id \in Nat /\ permit \in Permits /\ permit.lease = lease.id
  BY RegisteredFacts DEF Leases, Permits
<1> HIDE DEF permit
<1>3. IsFiniteSet(tools') /\ Cardinality(tools') <= MaxTools
  <2>1. IsFiniteSet(tools) /\ Cardinality(tools) \in Nat
    BY FS_CardinalityType DEF IInv
  <2>2. /\ IsFiniteSet(tools \cup {permit})
        /\ Cardinality(tools \cup {permit}) \in {Cardinality(tools), Cardinality(tools) + 1}
    BY <2>1, FS_AddElement
  <2> QED
    BY <1>1, <2>1, <2>2, CoordinatorAssumption
<1>4. tools' \subseteq Permits /\ resources' \in [Keys -> Resources \cup {None}]
  BY <1>1, <1>2 DEF IInv, TypeOK
<1> QED
  BY <1>1, <1>2, <1>3, <1>4, PhysicalAdded

\* A free key is taken for no lease or for one whose gate is open.
LEMMA Acquiring ==
    ASSUME IInv, NEW k \in Keys, NEW resource \in Resources, Acquire(k, resource),
           \/ resource.lease = 0
           \/ \E l \in Registered : l.id = resource.lease /\ Session(l) \notin blocked
    PROVE  IInv'
<1>1. /\ resources[k] = None
      /\ resources' = [resources EXCEPT ![k] = resource]
      /\ UNCHANGED << registry, leasing, faults, tools, capacity, port >>
  BY DEF Acquire, FreeKeys, Holding
<1>2. resource.lease \in Nat
  BY DEF Resources
<1>3. /\ resources' \in [Keys -> Resources \cup {None}]
      /\ resources'[k] = resource
      /\ \A j \in Keys \ {k} : resources'[j] = resources[j]
  BY <1>1 DEF IInv, TypeOK
<1>4. tools' \subseteq Permits /\ IsFiniteSet(tools') /\ Cardinality(tools') <= MaxTools
  BY <1>1 DEF IInv, TypeOK
<1> QED
  BY <1>1, <1>2, <1>3, <1>4, PhysicalAdded

\* The resources of an execution.
LEMMA Taking ==
    ASSUME IInv, NEW lease \in Registered, NEW k \in Keys,
           \/ \E o \in Owners : \/ AcquireResource(o, k, lease)
                               \/ AcquireControlResource(o, k, lease)
                               \/ RetainSourceResource(o, k, lease)
           \/ RetainHostSourceResource(k, lease)
    PROVE  IInv'
<1>1. Session(lease) \notin blocked
  BY DEF AcquireResource, AcquireControlResource, RetainSourceResource,
         RetainHostSourceResource, CanWrite, HasCapacity, Asserted, AssertedUnder
<1>2. PICK p \in Owners \cup {None} : Acquire(k, Resource(p, lease.id, None))
  BY DEF AcquireResource, AcquireControlResource, RetainSourceResource, RetainHostSourceResource
<1>3. Resource(p, lease.id, None) \in Resources /\ Resource(p, lease.id, None).lease = lease.id
  BY RegisteredFacts DEF Resource, Resources, Leases
<1> QED
  BY <1>1, <1>2, <1>3, Acquiring

\* The resources of no execution.
LEMMA TakingOwn ==
    ASSUME IInv, NEW o \in Owners, NEW k \in Keys,
           \/ AcquireOwnResource(o, k)
           \/ \E s \in Sessions : RetainSessionResource(o, k, s)
    PROVE  IInv'
<1>1. PICK t \in Sessions \cup {None} : Acquire(k, Resource(o, 0, t))
  BY DEF AcquireOwnResource, RetainSessionResource
<1>2. Resource(o, 0, t) \in Resources /\ Resource(o, 0, t).lease = 0
  BY DEF Resource, Resources
<1> QED
  BY <1>1, <1>2, Acquiring

\* bindToolResource
LEMMA Binding ==
    ASSUME IInv, NEW lease \in Registered, NEW o \in Owners, NEW k \in Keys, NEW call \in CallIds,
           BindToolResource(o, k, lease, call)
    PROVE  IInv'
<1>1. /\ resources[k] # None
      /\ resources' = [resources EXCEPT ![k].call = call]
      /\ UNCHANGED << registry, leasing, faults, tools, capacity, port >>
  BY DEF BindToolResource, Holding
<1>2. resources[k] \in Resources
  BY <1>1 DEF IInv, TypeOK
<1>3. resources'[k] = [resources[k] EXCEPT !.call = call]
      /\ \A j \in Keys \ {k} : resources'[j] = resources[j]
  BY <1>1 DEF IInv, TypeOK
<1>4. /\ resources'[k] \in Resources /\ resources'[k].lease = resources[k].lease
      /\ resources'[k] # None
  BY <1>2, <1>3, CoordinatorAssumption DEF Resources
<1>5. resources' \in [Keys -> Resources \cup {None}]
  BY <1>1, <1>3, <1>4 DEF IInv, TypeOK
<1>6. tools' \subseteq Permits /\ IsFiniteSet(tools') /\ Cardinality(tools') <= MaxTools
  BY <1>1 DEF IInv, TypeOK
<1> QED
  BY <1>1, <1>3, <1>4, <1>5, <1>6, PhysicalAdded

-----------------------------------------------------------------------------
(* The invariant of the specification.                                      *)

\* The answers of the persistence port.
LEMMA Answering ==
    ASSUME IInv, Answer
    PROVE  IInv'
<1>1. ASSUME Awaits("claim"), NEW above \in 0..1,
             ClaimReply(Reply("lease", [Head(calls).lease EXCEPT !.fence = @ + above]))
      PROVE  IInv'
  <2>1. calls # << >> /\ Head(calls).op \in InFlight
    BY <1>1 DEF Awaits, InFlight
  <2>2. PICK lease \in Leases : lease = Head(calls).lease
    BY <2>1, HeadClaim
  <2>3. PICK answered : answered = [lease EXCEPT !.fence = @ + above]
    OBVIOUS
  <2>4. answered \in Leases /\ answered.id = lease.id /\ answered.run = lease.run
    BY <1>1, <2>3 DEF Leases
  <2>5. /\ Reply("lease", answered).lease = answered
        /\ ClaimReply(Reply("lease", answered))
    BY <1>1, <2>2, <2>3 DEF Reply
  <2> QED
    BY <2>2, <2>4, <2>5, ReceivingClaim
<1>2. ASSUME NEW kind \in {"null", "refused", "lost"}, ClaimReply(Reply(kind, None))
      PROVE  IInv'
  <2>1. Reply(kind, None).kind # "lease"
    BY <1>2 DEF Reply
  <2> QED
    BY <1>2, <2>1, ReceivingClaim
<1> QED
  BY <1>1, <1>2, ReceivingUnclaim, ReceivingRelease, ReceivingRevocation DEF Answer

\* The operations of an owner.
LEMMA OwnerStepping ==
    ASSUME IInv, NEW o \in Owners, OwnerStep(o)
    PROVE  IInv'
<1>1. Bindings(o) \subseteq SUBSET Generations
  BY DEF Bindings
<1>2. ASSUME NEW r \in Runs, NEW b \in Bindings(o), NEW c \in SUBSET Owners, Claim(o, r, b, c)
      PROVE  IInv'
  <2>1. b \in SUBSET Generations
    BY <1>1
  <2> QED
    BY <1>2, <2>1, Claiming
<1> QED
  BY <1>2, Registering, Activating, Revoking, Exiting, Disposing, Acknowledging DEF OwnerStep

\* The operations of an execution.
LEMMA LeaseStepping ==
    ASSUME IInv, NEW l \in Registered, LeaseStep(l)
    PROVE  IInv'
<1>1. CASE RequestRelease(l)
  BY <1>1, Requesting
<1>2. CASE Resume(l) \/ \E waiting \in SUBSET CallIds : Suspend(l, waiting)
  BY <1>2, Suspending
<1>3. ASSUME NEW o \in Owners, NEW c \in CallIds, ReserveTool(l, c, o)
      PROVE  IInv'
  BY <1>3, ReservingTool
<1>4. ASSUME NEW o \in Owners, NEW k \in Keys, NEW c \in CallIds, BindToolResource(o, k, l, c)
      PROVE  IInv'
  BY <1>4, Binding
<1>5. ASSUME NEW o \in Owners, NEW k \in Keys,
             \/ AcquireResource(o, k, l)
             \/ AcquireControlResource(o, k, l)
             \/ RetainSourceResource(o, k, l)
      PROVE  IInv'
  BY <1>5, Taking
<1>6. ASSUME NEW k \in Keys, RetainHostSourceResource(k, l)
      PROVE  IInv'
  BY <1>6, Taking
<1> QED
  BY <1>1, <1>2, <1>3, <1>4, <1>5, <1>6 DEF LeaseStep

\* The operations on a session.
LEMMA SessionStepping ==
    ASSUME IInv, NEW s \in Sessions, SessionStep(s)
    PROVE  IInv'
BY Reconciling, ReleasingQueued, TakingOwn DEF SessionStep

\* Every step keeps the invariant.
LEMMA StepInv == IInv /\ [Next]_vars => IInv'
<1> SUFFICES ASSUME IInv, [Next]_vars PROVE IInv'
  OBVIOUS
<1>1. CASE \E o \in Owners : OwnerStep(o)
  BY <1>1, OwnerStepping
<1>2. CASE \E l \in Registered : LeaseStep(l)
  BY <1>2, LeaseStepping
<1>3. CASE \E s \in Sessions : SessionStep(s)
  BY <1>3, SessionStepping
<1>4. CASE \E t \in tools : ReleaseTool(t)
  BY <1>4, ReleasingTool
<1>5. CASE \E k \in Keys : ReleaseResource(k) \/ \E o \in Owners : AcquireOwnResource(o, k)
  BY <1>5, ReleasingResource, TakingOwn
<1>6. CASE \E n \in 1..CapacityLimit : SetCapacity(n)
  BY <1>6, SettingCapacity
<1>7. CASE Answer
  BY <1>7, Answering
<1>8. CASE UNCHANGED vars
  <2>1. UNCHANGED << registry, leasing, faults, physical, capacity, port >>
    BY <1>8 DEF vars
  <2>2. UNCHANGED << leasing, faults, physical, port >>
    BY <2>1
  <2>3. Accounted(capacity') /\ Admitted'
    BY <2>1, CapacityStays DEF leasing
  <2>4. /\ role' \in [Owners -> Roles] /\ exited' \subseteq Owners
        /\ defaultOf' \in [Units -> Owners \cup {None}]
    BY <2>1 DEF registry, IInv, TypeOK
  <2> QED
    BY <2>2, <2>3, <2>4, OwnersMove
<1> QED
  BY <1>1, <1>2, <1>3, <1>4, <1>5, <1>6, <1>7, <1>8 DEF Next

\* The inductive invariant, whatever the port answers.
THEOREM CoordinatorInvariance == Spec => []IInv
<1>1. Init => IInv
  BY InitInv
<1>2. IInv /\ [Next]_vars => IInv'
  BY StepInv
<1> QED BY <1>1, <1>2, PTL DEF Spec

\* coordinator.ts: every field keeps its type, and no more permits are handed
\* out than RUNTIME_LIMITS.tools.
THEOREM CoordinatorTyped == Spec => []TypeOK
<1>1. IInv => TypeOK
  BY DEF IInv
<1> QED BY <1>1, CoordinatorInvariance, PTL

\* `runs` and `sessions` of coordinator.ts: for any number of sessions, runs
\* and owners, a session has at most one lease and both indexes hold it.
THEOREM IndexesStayInStep == Spec => []IndexesAgree
<1>1. IInv => IndexesAgree
  BY DEF IInv
<1> QED BY <1>1, CoordinatorInvariance, PTL

\* physicalReferences: no release, reconciliation, fault or exit unregisters a
\* lease while a tool permit or a resource of its run is still there.
THEOREM PhysicalWorkPins == Spec => []PhysicalWorkPinsLease
<1>1. IInv => PhysicalWorkPinsLease
  BY DEF IInv
<1> QED BY <1>1, CoordinatorInvariance, PTL

\* pendingReleases: a deferred release is of a registered lease and still has
\* something to wait for, so the event that ends the wait finds it.
THEOREM DeferredReleases == Spec => []DeferredReleaseWaits
<1>1. IInv => DeferredReleaseWaits
  BY DEF IInv
<1> QED BY <1>1, CoordinatorInvariance, PTL

\* In the inductive invariant a release in flight is gated.
LEMMA ReleaseIsGated == IInv => ReleaseInFlightIsGated
<1> SUFFICES ASSUME IInv, NEW i \in DOMAIN calls,
                    calls[i].op = "release", calls[i].lease \in Registered
             PROVE  Session(calls[i].lease) \in blocked
  BY DEF ReleaseInFlightIsGated
<1>1. PICK l \in Registered : l = calls[i].lease
  OBVIOUS
<1>2. l # None /\ sessions[Session(l)] = l
  BY RegisteredFacts
<1>3. CallSound(calls[i])
  BY DEF IInv, CallsSound
<1> QED
  BY <1>1, <1>2, <1>3 DEF CallSound

\* releaseExecution: while the release of a registered lease is being written,
\* its session's gate is closed, whoever else opens and closes gates.
THEOREM ReleasesAreGated == Spec => []ReleaseInFlightIsGated
<1> QED BY ReleaseIsGated, CoordinatorInvariance, PTL

\* reserve and releaseCapacity: a reservation and the slot of its run come and
\* go together, and a claim or lease keeps the one it was admitted with.
THEOREM CapacityStaysAccounted == Spec => []CapacityAccounted
<1>1. IInv => CapacityAccounted
  BY DEF IInv, Accounted, Admitted, CapacityAccounted, Known
<1> QED BY <1>1, CoordinatorInvariance, PTL

=============================================================================
