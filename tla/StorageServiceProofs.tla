------------------------ MODULE StorageServiceProofs ------------------------
(***************************************************************************)
(* Proofs about StorageService, for any finite set of calls, any number of *)
(* incarnations of the storage process and any limits.                     *)
(*                                                                         *)
(* The inductive invariant is Sound, a predicate on the parts of a state,  *)
(* so that it can be asked of the record in the middle of a handler, before *)
(* its pump.  PumpKeeps, FenceKeeps, RefuseKeeps and InstallKeeps say what *)
(* the port's own operations keep of it; then every handler has one lemma. *)
(* PromiseKept, the refinement of AtomicCalls, follows from the invariant  *)
(* before and after a step.                                                *)
(***************************************************************************)
EXTENDS StorageService, FiniteSetTheorems, SequenceTheorems, TLAPS

\* No call is queued twice.
Distinct(q) == \A i, j \in 1..Len(q) : q[i] = q[j] => i = j

-----------------------------------------------------------------------------
(* Queues.                                                                  *)

\* The calls of a queue are those at its places.
LEMMA QueuedFacts ==
    ASSUME NEW q \in Seq(Calls)
    PROVE  /\ \A i \in 1..Len(q) : q[i] \in ToSet(q)
           /\ \A c \in ToSet(q) : c \in Calls /\ \E i \in 1..Len(q) : q[i] = c
BY DEF ToSet

\* Splicing a call out of a queue without duplicates removes exactly that call.
LEMMA DequeueFacts ==
    ASSUME NEW q \in Seq(Calls), NEW c \in ToSet(q), Distinct(q)
    PROVE  /\ Dequeue(q, c) \in Seq(Calls)
           /\ Distinct(Dequeue(q, c))
           /\ ToSet(Dequeue(q, c)) = ToSet(q) \ {c}
<1> DEFINE k == CHOOSE i \in DOMAIN q : q[i] = c
           r == Dequeue(q, c)
<1>1. k \in 1..Len(q) /\ q[k] = c
  BY DEF ToSet
<1>2. r = SubSeq(q, 1, k - 1) \o SubSeq(q, k + 1, Len(q))
  BY DEF Dequeue, RemoveAt, k
<1> HIDE DEF k, r
<1> DEFINE u == SubSeq(q, 1, k - 1)
           v == SubSeq(q, k + 1, Len(q))
           Place(i) == IF i < k THEN i ELSE i + 1
<1>2a. u \in Seq(Calls) /\ Len(u) = k - 1 /\ \A i \in 1..(k - 1) : u[i] = q[i]
  BY <1>1
<1>2b. v \in Seq(Calls) /\ Len(v) = Len(q) - k /\ \A i \in 1..(Len(q) - k) : v[i] = q[i + k]
  BY <1>1
<1>2c. r = u \o v
  BY <1>2
<1> HIDE DEF u, v
<1>2d. /\ u \o v \in Seq(Calls) /\ Len(u \o v) = Len(u) + Len(v)
       /\ \A i \in 1..(Len(u) + Len(v)) : (u \o v)[i] = IF i <= Len(u) THEN u[i] ELSE v[i - Len(u)]
  BY <1>2a, <1>2b, ConcatProperties
<1>2e. r \in Seq(Calls) /\ Len(r) = Len(q) - 1 /\ Len(u) + Len(v) = Len(q) - 1
  BY <1>1, <1>2a, <1>2b, <1>2c, <1>2d
<1>3. ASSUME NEW i \in 1..(Len(q) - 1)
      PROVE  Place(i) \in 1..Len(q) /\ Place(i) # k /\ r[i] = q[Place(i)]
  <2>1. CASE i < k
    BY <1>1, <1>2a, <1>2c, <1>2d, <1>2e, <2>1
  <2>2. CASE ~(i < k)
    <3>1. r[i] = v[i - (k - 1)]
      BY <1>1, <1>2a, <1>2c, <1>2d, <1>2e, <2>2
    <3>2. i - (k - 1) \in 1..(Len(q) - k) /\ i - (k - 1) + k = i + 1
      BY <1>1, <2>2
    <3>3. v[i - (k - 1)] = q[i - (k - 1) + k]
      BY <1>2b, <3>2
    <3> QED BY <1>1, <2>2, <3>1, <3>2, <3>3
  <2> QED BY <2>1, <2>2
<1>4. Distinct(r)
  <2> SUFFICES ASSUME NEW i \in 1..(Len(q) - 1), NEW j \in 1..(Len(q) - 1), r[i] = r[j]
               PROVE  i = j
    BY <1>2e DEF Distinct
  <2>1. /\ Place(i) \in 1..Len(q) /\ r[i] = q[Place(i)]
        /\ Place(j) \in 1..Len(q) /\ r[j] = q[Place(j)]
    BY <1>3
  <2>2. Place(i) = Place(j)
    BY <2>1 DEF Distinct
  <2> QED BY <1>1, <2>2
<1>5. ASSUME NEW d \in ToSet(r) PROVE d \in ToSet(q) \ {c}
  <2>1. PICK i \in 1..(Len(q) - 1) : r[i] = d
    BY <1>2e, QueuedFacts
  <2>2. Place(i) \in 1..Len(q) /\ q[Place(i)] = d /\ Place(i) # k
    BY <1>3, <2>1
  <2>3. d # c
    BY <1>1, <2>2 DEF Distinct
  <2>4. d \in ToSet(q)
    <3> HIDE DEF Place
    <3> QED BY <2>2, QueuedFacts
  <2> QED BY <2>3, <2>4
<1>6. ASSUME NEW d \in ToSet(q), d # c PROVE d \in ToSet(r)
  <2>1. PICK i \in 1..Len(q) : q[i] = d
    BY QueuedFacts
  <2> DEFINE j == IF i < k THEN i ELSE i - 1
  <2>2. i # k
    BY <1>1, <1>6, <2>1
  <2>3. j \in 1..(Len(q) - 1) /\ Place(j) = i
    BY <1>1, <2>2
  <2>4. r[j] = d
    BY <1>3, <2>1, <2>3
  <2> HIDE DEF j
  <2> QED BY <1>2e, <2>3, <2>4, QueuedFacts
<1> QED
  BY <1>2e, <1>4, <1>5, <1>6 DEF r

\* The head of a queue without duplicates and its rest share no call.
LEMMA SplitFacts ==
    ASSUME NEW q \in Seq(Calls), Distinct(q), NEW n \in 0..Len(q)
    PROVE  /\ SubSeq(q, n + 1, Len(q)) \in Seq(Calls)
           /\ Distinct(SubSeq(q, n + 1, Len(q)))
           /\ ToSet(SubSeq(q, 1, n)) \subseteq ToSet(q)
           /\ ToSet(SubSeq(q, n + 1, Len(q))) = ToSet(q) \ ToSet(SubSeq(q, 1, n))
<1> DEFINE u == SubSeq(q, 1, n)
           v == SubSeq(q, n + 1, Len(q))
<1>1. u \in Seq(Calls) /\ Len(u) = n /\ \A i \in 1..n : u[i] = q[i]
  OBVIOUS
<1>2. v \in Seq(Calls) /\ Len(v) = Len(q) - n /\ \A i \in 1..(Len(q) - n) : v[i] = q[i + n]
  OBVIOUS
<1> HIDE DEF u, v
<1>3. Distinct(v)
  <2> SUFFICES ASSUME NEW i \in 1..(Len(q) - n), NEW j \in 1..(Len(q) - n), v[i] = v[j]
               PROVE  i = j
    BY <1>2 DEF Distinct
  <2>1. i + n \in 1..Len(q) /\ j + n \in 1..Len(q) /\ q[i + n] = q[j + n]
    BY <1>2
  <2>2. i + n = j + n
    BY <2>1 DEF Distinct
  <2> QED BY <2>2
<1>4. ASSUME NEW c \in ToSet(u) PROVE c \in ToSet(q) /\ c \notin ToSet(v)
  <2>1. PICK i \in 1..n : u[i] = c
    BY <1>1, QueuedFacts
  <2>2. i \in 1..Len(q) /\ q[i] = c
    BY <1>1, <2>1
  <2>3. ASSUME c \in ToSet(v) PROVE FALSE
    <3>1. PICK j \in 1..(Len(q) - n) : v[j] = c
      BY <1>2, <2>3, QueuedFacts
    <3>2. j + n \in 1..Len(q) /\ q[j + n] = c
      BY <1>2, <3>1
    <3>3. i = j + n
      BY <2>2, <3>2 DEF Distinct
    <3> QED BY <3>3
  <2> QED BY <2>2, <2>3, QueuedFacts
<1>5. ASSUME NEW c \in ToSet(v) PROVE c \in ToSet(q)
  <2>1. PICK i \in 1..(Len(q) - n) : v[i] = c
    BY <1>2, QueuedFacts
  <2>2. i + n \in 1..Len(q) /\ q[i + n] = c
    BY <1>2, <2>1
  <2> QED BY <2>2, QueuedFacts
<1>6. ASSUME NEW c \in ToSet(q), c \notin ToSet(u) PROVE c \in ToSet(v)
  <2>1. PICK i \in 1..Len(q) : q[i] = c
    BY QueuedFacts
  <2>2. i > n
    <3>1. CASE i \in 1..n
      BY <1>1, <1>6, <2>1, <3>1, QueuedFacts
    <3> QED BY <3>1
  <2>3. i - n \in 1..(Len(q) - n) /\ i - n + n = i
    BY <2>2
  <2>4. v[i - n] = c
    BY <1>2, <2>1, <2>3
  <2> QED BY <1>2, <2>3, <2>4, QueuedFacts
<1> QED
  BY <1>2, <1>3, <1>4, <1>5, <1>6 DEF u, v

\* Admission adds the call at the end of the queue.
LEMMA AppendFacts ==
    ASSUME NEW q \in Seq(Calls), Distinct(q), NEW c \in Calls, c \notin ToSet(q)
    PROVE  /\ Append(q, c) \in Seq(Calls)
           /\ Distinct(Append(q, c))
           /\ ToSet(Append(q, c)) = ToSet(q) \cup {c}
<1> DEFINE r == Append(q, c)
<1>1. /\ r \in Seq(Calls) /\ Len(r) = Len(q) + 1 /\ r[Len(q) + 1] = c
      /\ \A i \in 1..Len(q) : r[i] = q[i]
  BY AppendProperties
<1> HIDE DEF r
<1>2. Distinct(r)
  <2>1. \A i \in 1..Len(q) : q[i] # c
    BY QueuedFacts
  <2> QED BY <1>1, <2>1 DEF Distinct
<1>3. ToSet(r) \subseteq ToSet(q) \cup {c}
  BY <1>1 DEF ToSet
<1>4. ToSet(q) \subseteq ToSet(r)
  BY <1>1 DEF ToSet
<1>5. c \in ToSet(r)
  BY <1>1 DEF ToSet
<1> QED BY <1>1, <1>2, <1>3, <1>4, <1>5 DEF r

-----------------------------------------------------------------------------
(* The operations of the port.                                              *)

\* What a dispatch leaves alone.
SameGate(p, q) ==
    /\ q.phase = p.phase /\ q.writer = p.writer /\ q.acquiring = p.acquiring
    /\ q.lease = p.lease /\ q.sealed = p.sealed /\ q.upkeep = p.upkeep /\ q.moving = p.moving

\* A cached count, and a read that may fill the cache, mean that no write is
\* in flight.
CacheFits(p) ==
    /\ p.count # None \/ p.fresh # {} => ActiveWrites(p) = {}
    /\ p.fresh \subseteq p.inFlight \cap QueueReads

\* No owner is None.
LEMMA NoneFacts == None \notin Owners /\ Owners \subseteq Nat
BY PortAssumption DEF Owners

\* A dispatch adds its calls to those in flight and keeps the cache consistent.
LEMMA DispatchFacts ==
    ASSUME NEW p \in PortType, CacheFits(p), NEW calls \in SUBSET Calls
    PROVE  /\ Dispatch(p, calls) \in PortType
           /\ SameGate(p, Dispatch(p, calls))
           /\ CacheFits(Dispatch(p, calls))
           /\ Dispatch(p, calls).queue = p.queue
           /\ Dispatch(p, calls).inFlight = p.inFlight \cup calls
           /\ Dispatch(p, calls).count \in {p.count, None}
           /\ Dispatch(p, calls).fresh \subseteq p.fresh \cup calls
<1> DEFINE q == [p EXCEPT !.inFlight = @ \cup calls]
<1>1. /\ q \in PortType /\ SameGate(p, q) /\ q.queue = p.queue
      /\ q.inFlight = p.inFlight \cup calls /\ q.count = p.count /\ q.fresh = p.fresh
  BY DEF PortType, SameGate
<1> HIDE DEF q
<1>2. CASE calls \cap Writes # {}
  <2>1. Dispatch(p, calls) = Invalidate(q)
    BY <1>2 DEF Dispatch, q
  <2>2. /\ Invalidate(q) \in PortType /\ SameGate(q, Invalidate(q))
        /\ Invalidate(q).queue = q.queue /\ Invalidate(q).inFlight = q.inFlight
        /\ Invalidate(q).count = None /\ Invalidate(q).fresh = {}
    BY <1>1 DEF Invalidate, PortType, SameGate
  <2> QED BY <1>1, <2>1, <2>2 DEF SameGate, CacheFits
<1>3. CASE calls \cap Writes = {} /\ ActiveWrites(q) = {}
  <2>1. Dispatch(p, calls) = [q EXCEPT !.fresh = @ \cup (calls \cap QueueReads)]
    BY <1>3 DEF Dispatch, q
  <2> QED BY <1>1, <1>3, <2>1 DEF PortType, SameGate, CacheFits, ActiveWrites
<1>4. CASE calls \cap Writes = {} /\ ActiveWrites(q) # {}
  <2>1. Dispatch(p, calls) = q
    BY <1>4 DEF Dispatch, q
  <2> QED BY <1>1, <1>4, <2>1 DEF CacheFits, ActiveWrites
<1> QED BY <1>2, <1>3, <1>4

\* The pump moves calls from the queue into flight, while the port serves.
LEMMA PumpFacts ==
    ASSUME NEW p \in PortType, CacheFits(p), Distinct(p.queue)
    PROVE  /\ Pump(p) \in PortType
           /\ SameGate(p, Pump(p))
           /\ CacheFits(Pump(p))
           /\ Distinct(Pump(p).queue)
           /\ \E sent \in SUBSET Queued(p) :
                /\ Pump(p).inFlight = p.inFlight \cup sent
                /\ Queued(Pump(p)) = Queued(p) \ sent
                /\ sent # {} => p.phase = "serving"
           /\ Pump(p).count \in {p.count, None}
           /\ Pump(p).fresh \subseteq p.fresh \cup Queued(p)
<1> DEFINE n == Pumpable(p)
           rest == SubSeq(p.queue, n + 1, Len(p.queue))
           sent == ToSet(SubSeq(p.queue, 1, n))
           q == [p EXCEPT !.queue = SubSeq(@, n + 1, Len(@))]
<1>1. p.queue \in Seq(Calls) /\ p.inFlight \in SUBSET Calls
  BY DEF PortType
<1>2. n \in 0..Len(p.queue) /\ (n > 0 => p.phase = "serving")
  <2>1. IsFiniteSet(p.inFlight)
    BY <1>1, PortAssumption, FS_Subset
  <2>2. Cardinality(p.inFlight) \in Nat
    BY <2>1, FS_CardinalityType
  <2> QED BY <1>1, <2>2, PortAssumption DEF Pumpable
<1>7. Pump(p) = Dispatch(q, sent)
  BY DEF Pump
<1> HIDE DEF n
<1>3. n = 0 => sent = {}
  BY <1>1 DEF ToSet
<1>4. /\ rest \in Seq(Calls) /\ Distinct(rest)
      /\ sent \subseteq ToSet(p.queue) /\ ToSet(rest) = ToSet(p.queue) \ sent
  BY <1>1, <1>2, SplitFacts
<1>5. sent \in SUBSET Calls
  BY <1>1, <1>4, QueuedFacts
<1>6. /\ q \in PortType /\ SameGate(p, q) /\ q.queue = rest
      /\ q.inFlight = p.inFlight /\ q.count = p.count /\ q.fresh = p.fresh
  <2> HIDE DEF sent
  <2>1. q = [p EXCEPT !.queue = rest]
    OBVIOUS
  <2> HIDE DEF rest, q
  <2> QED BY <1>4, <2>1 DEF PortType, SameGate
<1> HIDE DEF q, sent, rest
<1>9. CacheFits(q)
  BY <1>6 DEF CacheFits, ActiveWrites
<1>8. /\ Pump(p) \in PortType /\ SameGate(q, Pump(p)) /\ CacheFits(Pump(p))
      /\ Pump(p).queue = q.queue /\ Pump(p).inFlight = q.inFlight \cup sent
      /\ Pump(p).count \in {q.count, None} /\ Pump(p).fresh \subseteq q.fresh \cup sent
  BY <1>5, <1>6, <1>7, <1>9, DispatchFacts
<1>10. SameGate(p, Pump(p))
  BY <1>6, <1>8 DEF SameGate
<1>11. Distinct(Pump(p).queue) /\ Queued(Pump(p)) = Queued(p) \ sent
  BY <1>4, <1>6, <1>8 DEF Queued
<1>12. sent \in SUBSET Queued(p) /\ (sent # {} => p.phase = "serving")
  BY <1>2, <1>3, <1>4 DEF Queued
<1>13. /\ Pump(p).inFlight = p.inFlight \cup sent /\ Pump(p).count \in {p.count, None}
       /\ Pump(p).fresh \subseteq p.fresh \cup Queued(p)
  BY <1>6, <1>8, <1>12
<1> QED
  BY <1>8, <1>10, <1>11, <1>12, <1>13

\* A fenced port has an empty queue and cache, and keeps what is in flight.
LEMMA FenceFacts ==
    ASSUME NEW p \in PortType
    PROVE  /\ Fence(p) \in PortType /\ Distinct(Fence(p).queue) /\ Queued(Fence(p)) = {}
           /\ Fence(p).phase = "fenced" /\ Fence(p).moving = FALSE
           /\ Fence(p).writer = p.writer /\ Fence(p).inFlight = p.inFlight
           /\ Fence(p).acquiring = p.acquiring /\ Fence(p).sealed = p.sealed
           /\ Fence(p).count = None /\ Fence(p).fresh = {}
           /\ Fence(p).upkeep = IF p.upkeep = "none" THEN "none" ELSE "stuck"
           /\ Fence(p).lease \in [Calls -> Owners \cup {None}]
           /\ \A c \in Calls :
                Fence(p).lease[c] = IF c \in Queued(p) THEN None ELSE p.lease[c]
<1> DEFINE q == Fence(p)
           lease == [c \in Calls |-> IF c \in Queued(p) THEN None ELSE p.lease[c]]
           upkeep == IF p.upkeep = "none" THEN "none" ELSE "stuck"
<1>1. q = [p EXCEPT !.count = None, !.fresh = {}, !.phase = "fenced", !.queue = << >>,
                    !.moving = FALSE, !.lease = lease, !.upkeep = upkeep]
  BY DEF Fence, Invalidate, PortType
<1>2. /\ lease \in [Calls -> Owners \cup {None}]
      /\ \A c \in Calls : lease[c] = IF c \in Queued(p) THEN None ELSE p.lease[c]
  BY DEF PortType
<1>3. upkeep \in {"none", "stuck"} /\ upkeep = IF p.upkeep = "none" THEN "none" ELSE "stuck"
  OBVIOUS
<1> HIDE DEF lease, upkeep, q
<1>4. /\ q \in PortType /\ q.phase = "fenced" /\ q.moving = FALSE /\ q.queue = << >>
      /\ q.writer = p.writer /\ q.inFlight = p.inFlight /\ q.acquiring = p.acquiring
      /\ q.sealed = p.sealed /\ q.count = None /\ q.fresh = {}
      /\ q.upkeep = upkeep /\ q.lease = lease
  <2>1. << >> \in Seq(Calls)
    OBVIOUS
  <2>2. q = [phase |-> "fenced", writer |-> p.writer, queue |-> << >>, inFlight |-> p.inFlight,
             acquiring |-> p.acquiring, lease |-> lease, sealed |-> p.sealed,
             upkeep |-> upkeep, moving |-> FALSE, count |-> None, fresh |-> {}]
    BY <1>1 DEF PortType
  <2> QED BY <1>2, <1>3, <2>1, <2>2 DEF PortType
<1>5. Distinct(q.queue) /\ Queued(q) = {}
  BY <1>4 DEF Distinct, Queued, ToSet
<1> QED BY <1>2, <1>3, <1>4, <1>5 DEF q

-----------------------------------------------------------------------------
(* The inductive invariant, of a state given by its parts: the port p, at   *)
(* a, answer w, seen s, proc pr, open op, failure f and barred b.           *)

\* An incarnation that was started and is not gone.
Live(pr, o) == pr[o] \notin {"none", "retired"}

\* The calls that ran, and the parity of the writes among them.
RanAt(a)  == {c \in Calls : a[c] \in {"ran", "done"}}
RowsOf(a) == Cardinality(RanAt(a) \cap Writes) % 2

\* The types of the parts.
Typed(p, a, w, s, pr, op, f, b) ==
    /\ p \in PortType
    /\ Distinct(p.queue)
    /\ w \in [Calls -> {"new", "waiting", "ok", "failed", "unknown"}]
    /\ a \in [Calls -> {"none", "queued", "sent", "ran", "done"}]
    /\ s \in [Calls -> {0, 1}]
    /\ pr \in [Owners -> {"none", "ready", "activated", "serving", "faulted", "exited", "retired"}]
    /\ op \subseteq Owners
    /\ f \in [owner : Owners, unknown : BOOLEAN] \cup {None}
    /\ b \in BOOLEAN

\* Where a call is: at the demand gate, granted, in the queue, in flight or
\* answered, and what it holds and was told there.
Stage(p, a, w, c) ==
    /\ c \in p.acquiring => /\ c \notin Queued(p) \cup p.inFlight
                            /\ p.lease[c] = None /\ a[c] = "none"
                            /\ w[c] \in {"waiting", "failed"}
    /\ c \in Queued(p) => /\ c \notin p.inFlight /\ p.lease[c] # None
                          /\ a[c] = "none" /\ w[c] = "waiting"
    /\ c \in p.inFlight => p.lease[c] # None /\ a[c] \in {"queued", "sent", "ran"}
    /\ p.lease[c] # None => c \in p.inFlight \/ (w[c] = "waiting" /\ a[c] = "none")
    /\ a[c] = "queued" => c \in p.inFlight /\ w[c] = "waiting"
    /\ a[c] \in {"sent", "ran"} => w[c] \in {"waiting", "unknown"}
    /\ a[c] = "done" => w[c] \in {"ok", "unknown"}
    /\ w[c] = "new" => a[c] = "none"
    /\ w[c] = "ok" => a[c] = "done"
    /\ w[c] = "failed" => a[c] = "none"

CallStages(p, a, w) == \A c \in Calls : Stage(p, a, w, c)

\* The cache, and every read that may still fill it, agree with the database,
\* and no write is in flight meanwhile.
CacheIsSound(p, a, s) ==
    /\ CacheFits(p)
    /\ p.count # None => p.count = RowsOf(a)
    /\ \A c \in p.fresh : a[c] = "ran" => s[c] = RowsOf(a)

\* What each phase of the port says of its fields, of the writer and of the
\* writer's Worker.
PhaseOfPort(p, a, pr, op) ==
    /\ p.phase = "waiting" => p.writer = None /\ p.inFlight = {}
    /\ p.phase \in {"waiting", "fenced"} => Queued(p) = {} /\ ~p.moving
    /\ p.phase = "fenced" => p.fresh = {}
    /\ p.phase \in {"serving", "handover"} => p.writer # None /\ pr[p.writer] = "serving"
    /\ p.phase = "serving" => /\ p.writer \in op /\ ~p.moving
                              /\ p.upkeep = "none" /\ p.sealed = None
    /\ p.phase = "handover" => p.moving \/ p.upkeep # "none" \/ p.sealed # None
    /\ p.upkeep # "none" => p.phase = IF p.upkeep = "stuck" THEN "fenced" ELSE "handover"
    /\ p.upkeep \in {"suspending", "suspended", "resuming"} => p.inFlight = {}
    /\ p.upkeep = "draining" => p.writer \in op
    /\ p.moving => p.sealed = None /\ p.upkeep = "none" /\ Pinned(p) = {}
    /\ p.sealed # None => /\ Pinned(p) = {} /\ p.phase \in {"handover", "fenced"}
                          /\ p.upkeep = "none" /\ p.sealed = p.writer
    /\ p.sealed # None /\ p.phase = "handover" /\ p.sealed \notin op => RowsOf(a) = 0

\* The incarnations start in order; while two of them live, the gate is
\* closed and no call holds a lease.
ProcsInOrder(p, pr, b) ==
    /\ \A n, o \in Owners : n < o /\ pr[n] = "none" => pr[o] = "none"
    /\ \A n, o \in Owners : n # o /\ Live(pr, n) /\ Live(pr, o) => b /\ Pinned(p) = {}

\* At most one Worker is open, and the calls the port sent have theirs until
\* their process has exited.
WorkersAreOpen(p, a, w, pr, op) ==
    /\ \A o \in op : pr[o] \in {"serving", "faulted"}
    /\ \A n, o \in op : n = o
    /\ \A o \in Owners : pr[o] = "serving" /\ o \notin op => p.writer = o
    /\ \A c \in p.inFlight \cup Queued(p) : p.lease[c] = p.writer
    /\ \A c \in p.inFlight :
          \/ pr[p.lease[c]] = "exited" /\ a[c] # "queued" /\ w[c] # "waiting"
          \/ pr[p.lease[c]] \in {"serving", "faulted"} /\ p.lease[c] \in op

\* A write whose process is dying, or died, without a confirmation keeps the
\* port fenced, and the recorded failure or the dead writer in its place.
WritesAreAccounted(p, a, pr, f) ==
    \A c \in Writes :
        /\ a[c] \in {"sent", "ran"} /\ c \notin p.inFlight =>
              /\ p.phase = "fenced" /\ f # None
              /\ f.unknown \/ f.owner # p.writer
              /\ p.writer # None /\ pr[p.writer] = "retired"
        /\ c \in p.inFlight /\ pr[p.lease[c]] \in {"faulted", "exited"} =>
              /\ p.phase = "fenced" /\ f # None
              /\ f.owner = p.lease[c] /\ f.unknown

Sound(p, a, w, s, pr, op, f, b) ==
    /\ Typed(p, a, w, s, pr, op, f, b)
    /\ CallStages(p, a, w)
    /\ CacheIsSound(p, a, s)
    /\ PhaseOfPort(p, a, pr, op)
    /\ ProcsInOrder(p, pr, b)
    /\ WorkersAreOpen(p, a, w, pr, op)
    /\ WritesAreAccounted(p, a, pr, f)

IInv ==
    /\ Sound(port, at, answer, seen, proc, open, failure, barred)
    /\ stranded \in BOOLEAN
    /\ gate \in {"none", "holding", "vacuum"}

-----------------------------------------------------------------------------
(* What the operations keep.                                                *)

\* The rows are a parity.
LEMMA RowsFacts ==
    ASSUME NEW a
    PROVE  RowsOf(a) \in {0, 1}
<1>1. IsFiniteSet(RanAt(a) \cap Writes)
  BY PortAssumption, FS_Subset
<1> QED BY <1>1, FS_CardinalityType DEF RowsOf

\* They change only when a write has run.
LEMMA RowsStay ==
    ASSUME NEW a, NEW z,
           \A c \in Writes : a[c] \in {"ran", "done"} <=> z[c] \in {"ran", "done"}
    PROVE  RowsOf(z) = RowsOf(a)
<1>1. RanAt(a) \cap Writes = RanAt(z) \cap Writes
  BY DEF RanAt
<1> QED BY <1>1 DEF RowsOf

\* at after the port operation that leads from p to q.
AtAfter(p, q, a) == [c \in Calls |-> IF c \in q.inFlight \ p.inFlight THEN "queued" ELSE a[c]]

\* A sound state whose port pumps stays sound.
LEMMA PumpKeeps ==
    ASSUME NEW p, NEW a, NEW w, NEW s, NEW pr, NEW op, NEW f, NEW b,
           Sound(p, a, w, s, pr, op, f, b)
    PROVE  /\ Sound(Pump(p), AtAfter(p, Pump(p), a), w, s, pr, op, f, b)
           /\ RanAt(AtAfter(p, Pump(p), a)) = RanAt(a)
<1> DEFINE q == Pump(p)
           z == AtAfter(p, q, a)
<1>1. p \in PortType /\ CacheFits(p) /\ Distinct(p.queue)
  BY DEF Sound, Typed, CacheIsSound
<1>2. /\ q \in PortType /\ CacheFits(q) /\ Distinct(q.queue)
      /\ q.count \in {p.count, None} /\ q.fresh \subseteq p.fresh \cup Queued(p)
      /\ q.phase = p.phase /\ q.writer = p.writer /\ q.acquiring = p.acquiring
      /\ q.lease = p.lease /\ q.sealed = p.sealed /\ q.upkeep = p.upkeep /\ q.moving = p.moving
  BY <1>1, PumpFacts DEF SameGate
<1>3. PICK sent \in SUBSET Queued(p) :
        /\ q.inFlight = p.inFlight \cup sent
        /\ Queued(q) = Queued(p) \ sent
        /\ sent # {} => p.phase = "serving"
  BY <1>1, PumpFacts
<1> HIDE DEF q
<1>4. Queued(p) \subseteq Calls
  BY <1>1, QueuedFacts DEF PortType, Queued
<1>5. \A c \in Calls : Stage(p, a, w, c)
  BY DEF Sound, CallStages
<1>6. \A c \in Calls : z[c] = IF c \in sent THEN "queued" ELSE a[c]
  BY <1>3, <1>4, <1>5 DEF AtAfter, Stage
<1>7. Typed(q, z, w, s, pr, op, f, b)
  BY <1>2 DEF Sound, Typed, AtAfter
<1> HIDE DEF z
<1>8. RowsOf(z) = RowsOf(a) /\ RanAt(z) = RanAt(a)
  <2>1. RanAt(z) = RanAt(a)
    BY <1>4, <1>5, <1>6 DEF Stage, RanAt
  <2> QED BY <2>1 DEF RowsOf
<1>9. CallStages(q, z, w)
  <2> SUFFICES ASSUME NEW c \in Calls PROVE Stage(q, z, w, c)
    BY DEF CallStages
  <2>1. CASE c \in sent
    BY <1>2, <1>3, <1>5, <1>6, <2>1 DEF Stage
  <2>2. CASE c \notin sent
    BY <1>2, <1>3, <1>5, <1>6, <2>2 DEF Stage
  <2> QED BY <2>1, <2>2
<1>10. CacheIsSound(q, z, s)
  <2>1. \A c \in Queued(p) : z[c] # "ran"
    BY <1>4, <1>5, <1>6 DEF Stage
  <2>2. p.fresh \subseteq Calls
    BY <1>1 DEF PortType
  <2> QED BY <1>2, <1>4, <1>6, <1>8, <2>1, <2>2 DEF Sound, CacheIsSound
<1>11. PhaseOfPort(q, z, pr, op)
  <2>1. PhaseOfPort(p, a, pr, op)
    BY DEF Sound
  <2>2. p.phase = "fenced" => Queued(p) = {} /\ p.fresh = {}
    BY <2>1 DEF PhaseOfPort
  <2>3. q.phase = "fenced" => q.fresh = {}
    BY <1>2, <2>2
  <2> QED BY <1>2, <1>3, <1>8, <2>1, <2>3 DEF PhaseOfPort, Pinned
<1>12. ProcsInOrder(q, pr, b)
  BY <1>2 DEF Sound, ProcsInOrder, Pinned
<1>13. WorkersAreOpen(q, z, w, pr, op)
  <2>1. WorkersAreOpen(p, a, w, pr, op) /\ PhaseOfPort(p, a, pr, op)
    BY DEF Sound
  <2>2. \A c \in sent : /\ q.lease[c] = q.writer /\ pr[q.lease[c]] = "serving"
                       /\ q.lease[c] \in op
    BY <1>2, <1>3, <2>1 DEF WorkersAreOpen, PhaseOfPort
  <2>3. \A c \in p.inFlight : c \in Calls /\ c \notin Queued(p)
    BY <1>1, <1>5 DEF PortType, Stage
  <2>4. \A c \in p.inFlight : z[c] = a[c] /\ q.lease[c] = p.lease[c]
    BY <1>2, <1>6, <2>3
  <2>5. \A c \in q.inFlight \cup Queued(q) : q.lease[c] = q.writer
    BY <1>2, <1>3, <2>1 DEF WorkersAreOpen
  <2>6. \A o \in Owners : pr[o] = "serving" /\ o \notin op => q.writer = o
    BY <1>2, <2>1 DEF WorkersAreOpen
  <2>7. \A c \in q.inFlight :
          \/ pr[q.lease[c]] = "exited" /\ z[c] # "queued" /\ w[c] # "waiting"
          \/ pr[q.lease[c]] \in {"serving", "faulted"} /\ q.lease[c] \in op
    BY <1>3, <2>1, <2>2, <2>4 DEF WorkersAreOpen
  <2> QED BY <2>1, <2>5, <2>6, <2>7 DEF WorkersAreOpen
<1>14. WritesAreAccounted(q, z, pr, f)
  BY <1>2, <1>3, <1>4, <1>5, <1>6, PortAssumption
     DEF Sound, WorkersAreOpen, WritesAreAccounted, PhaseOfPort, Stage
<1> QED
  BY <1>7, <1>8, <1>9, <1>10, <1>11, <1>12, <1>13, <1>14 DEF Sound, q, z

\* The answers of a fence on behalf of the calls `lost`.
FenceAnswers(p, w, lost) ==
    [c \in Calls |-> IF w[c] # "waiting" THEN w[c]
                     ELSE IF c \in Queued(p) THEN "failed"
                     ELSE IF c \in lost THEN "unknown" ELSE w[c]]

\* Fencing a sound state, on behalf of calls that were sent, keeps it sound.
LEMMA FenceKeeps ==
    ASSUME NEW p, NEW a, NEW w, NEW s, NEW pr, NEW op, NEW f, NEW b, NEW lost,
           Sound(p, a, w, s, pr, op, f, b),
           \A c \in lost \cap Calls : a[c] \in {"sent", "ran"}
    PROVE  Sound(Fence(p), a, FenceAnswers(p, w, lost), s, pr, op, f, b)
<1> DEFINE q == Fence(p)
           x == FenceAnswers(p, w, lost)
<1>1. p \in PortType
  BY DEF Sound, Typed
<1>2. /\ q \in PortType /\ Distinct(q.queue) /\ Queued(q) = {}
      /\ q.phase = "fenced" /\ q.moving = FALSE
      /\ q.writer = p.writer /\ q.inFlight = p.inFlight
      /\ q.acquiring = p.acquiring /\ q.sealed = p.sealed
      /\ q.count = None /\ q.fresh = {}
      /\ q.upkeep = IF p.upkeep = "none" THEN "none" ELSE "stuck"
      /\ \A c \in Calls : q.lease[c] = IF c \in Queued(p) THEN None ELSE p.lease[c]
  BY <1>1, FenceFacts
<1>3. \A c \in Calls : x[c] = IF w[c] # "waiting" THEN w[c]
                              ELSE IF c \in Queued(p) THEN "failed"
                              ELSE IF c \in lost THEN "unknown" ELSE w[c]
  BY DEF FenceAnswers
<1>4. x \in [Calls -> {"new", "waiting", "ok", "failed", "unknown"}]
  BY DEF FenceAnswers, Sound, Typed
<1> HIDE DEF q, x
<1>5. \A c \in Calls : Stage(p, a, w, c)
  BY DEF Sound, CallStages
<1>6. Typed(q, a, x, s, pr, op, f, b)
  BY <1>2, <1>4 DEF Sound, Typed
<1>7. CallStages(q, a, x)
  <2> SUFFICES ASSUME NEW c \in Calls PROVE Stage(q, a, x, c)
    BY DEF CallStages
  <2>1. c \in lost => a[c] \in {"sent", "ran"}
    OBVIOUS
  <2> QED BY <1>2, <1>3, <1>5, <2>1 DEF Stage
<1>8. CacheIsSound(q, a, s)
  BY <1>2 DEF CacheIsSound, CacheFits
<1>9. Pinned(q) \subseteq Pinned(p)
  BY <1>2 DEF Pinned
<1>10. PhaseOfPort(q, a, pr, op)
  BY <1>2, <1>9 DEF Sound, PhaseOfPort
<1>11. ProcsInOrder(q, pr, b)
  BY <1>9 DEF Sound, ProcsInOrder
<1>12. \A c \in p.inFlight : q.lease[c] = p.lease[c] /\ (w[c] # "waiting" => x[c] # "waiting")
  BY <1>1, <1>2, <1>3, <1>5 DEF PortType, Stage
<1>13. WorkersAreOpen(q, a, x, pr, op)
  BY <1>2, <1>12 DEF Sound, WorkersAreOpen
<1>14. WritesAreAccounted(q, a, pr, f)
  BY <1>2, <1>12 DEF Sound, WritesAreAccounted
<1> QED
  BY <1>6, <1>7, <1>8, <1>10, <1>11, <1>13, <1>14 DEF Sound, q, x

\* The record q that settling a call leaves to the pump.
Freed(p, c, v, q) ==
    /\ q.phase = p.phase /\ q.writer = p.writer /\ q.queue = p.queue
    /\ q.acquiring = p.acquiring /\ q.sealed = p.sealed /\ q.upkeep = p.upkeep
    /\ q.moving = p.moving
    /\ q.inFlight = p.inFlight \ {c} /\ q.fresh = p.fresh \ {c}
    /\ q.lease[c] = None /\ \A d \in Calls \ {c} : q.lease[d] = p.lease[d]
    /\ q.count = IF c \in p.fresh /\ ActiveWrites(p) = {} /\ p.phase = "serving"
                 THEN v ELSE p.count

LEMMA SettledFacts ==
    ASSUME NEW p \in PortType, NEW c \in Calls, NEW v \in {0, 1, None}
    PROVE  \E q \in PortType : Settled(p, c, v) = Pump(q) /\ Freed(p, c, v, q)
<1> DEFINE cached == IF c \in p.fresh /\ ActiveWrites(p) = {} /\ p.phase = "serving"
                     THEN [p EXCEPT !.count = v] ELSE p
           freed == [cached EXCEPT !.inFlight = @ \ {c}, !.fresh = @ \ {c}]
           q == Release(freed, c)
<1>1. Settled(p, c, v) = Pump(q)
  BY DEF Settled
<1>2. /\ cached \in PortType
      /\ cached.phase = p.phase /\ cached.writer = p.writer /\ cached.queue = p.queue
      /\ cached.acquiring = p.acquiring /\ cached.sealed = p.sealed /\ cached.upkeep = p.upkeep
      /\ cached.moving = p.moving /\ cached.inFlight = p.inFlight /\ cached.fresh = p.fresh
      /\ cached.lease = p.lease
      /\ cached.count = IF c \in p.fresh /\ ActiveWrites(p) = {} /\ p.phase = "serving"
                        THEN v ELSE p.count
  BY DEF PortType
<1> HIDE DEF cached
<1>3. /\ freed \in PortType
      /\ freed.phase = p.phase /\ freed.writer = p.writer /\ freed.queue = p.queue
      /\ freed.acquiring = p.acquiring /\ freed.sealed = p.sealed /\ freed.upkeep = p.upkeep
      /\ freed.moving = p.moving /\ freed.inFlight = p.inFlight \ {c}
      /\ freed.fresh = p.fresh \ {c} /\ freed.lease = p.lease /\ freed.count = cached.count
  BY <1>2 DEF PortType
<1> HIDE DEF freed
<1>4. /\ q \in PortType
      /\ q.phase = freed.phase /\ q.writer = freed.writer /\ q.queue = freed.queue
      /\ q.acquiring = freed.acquiring /\ q.sealed = freed.sealed /\ q.upkeep = freed.upkeep
      /\ q.moving = freed.moving /\ q.inFlight = freed.inFlight
      /\ q.fresh = freed.fresh /\ q.count = freed.count
      /\ q.lease[c] = None /\ \A d \in Calls \ {c} : q.lease[d] = freed.lease[d]
  BY <1>3 DEF Release, PortType
<1> HIDE DEF q
<1>5. Freed(p, c, v, q)
  BY <1>2, <1>3, <1>4 DEF Freed
<1> QED BY <1>1, <1>4, <1>5

\* The port operations of StorageService, by their successor states.
LEMMA SubmitFacts ==
    ASSUME NEW p, at \in [Calls -> {"none", "queued", "sent", "ran", "done"}], Submit(p)
    PROVE  /\ port' = p
           /\ at' = AtAfter(port, p, at)
           /\ p.inFlight \subseteq port.inFlight => at' = at
BY DEF Submit, Newly, AtAfter

\* A fence moves no call.
LEMMA FenceForFacts ==
    ASSUME IInv, NEW lost, FenceFor(lost)
    PROVE  port' = Fence(port) /\ at' = at /\ answer' = FenceAnswers(port, answer, lost)
<1>1. Fence(port).inFlight = port.inFlight /\ at \in [Calls -> {"none", "queued", "sent", "ran", "done"}]
  BY FenceFacts DEF IInv, Sound, Typed
<1>2. answer' = FenceAnswers(port, answer, lost) /\ Submit(Fence(port))
  BY DEF FenceFor, FenceAnswers
<1> QED BY <1>1, <1>2, SubmitFacts

-----------------------------------------------------------------------------
(* Callers and the demand gate.                                             *)

\* A step that only fences keeps the invariant.
LEMMA FenceStep ==
    ASSUME IInv, NEW lost, FenceFor(lost),
           \A c \in lost \cap Calls : at[c] \in {"sent", "ran"},
           UNCHANGED <<seen, proc, open, failure, barred, gate, stranded>>
    PROVE  IInv'
<1>1. Sound(Fence(port), at, FenceAnswers(port, answer, lost), seen, proc, open, failure, barred)
  BY FenceKeeps DEF IInv
<1> QED BY <1>1, FenceForFacts DEF IInv

\* A call that is refused at the gate, or before it.
LEMMA RefuseKeeps ==
    ASSUME NEW p, NEW a, NEW w, NEW s, NEW pr, NEW op, NEW f, NEW b,
           Sound(p, a, w, s, pr, op, f, b),
           NEW c \in Calls, w[c] = "new" \/ c \in p.acquiring,
           NEW q \in {p, [p EXCEPT !.acquiring = @ \ {c}]}
    PROVE  Sound(q, a, [w EXCEPT ![c] = "failed"], s, pr, op, f, b)
<1> DEFINE x == [w EXCEPT ![c] = "failed"]
<1>1. p \in PortType /\ w \in [Calls -> {"new", "waiting", "ok", "failed", "unknown"}]
  BY DEF Sound, Typed
<1>2. /\ q \in PortType /\ q.phase = p.phase /\ q.writer = p.writer
      /\ q.queue = p.queue /\ q.inFlight = p.inFlight
      /\ q.acquiring \in {p.acquiring, p.acquiring \ {c}}
      /\ q.lease = p.lease /\ q.sealed = p.sealed /\ q.upkeep = p.upkeep
      /\ q.moving = p.moving /\ q.count = p.count /\ q.fresh = p.fresh
  BY <1>1 DEF PortType
<1>3. Queued(q) = Queued(p) /\ Pinned(q) = Pinned(p)
  BY <1>2 DEF Queued, Pinned
<1>4. Typed(q, a, x, s, pr, op, f, b)
  BY <1>2 DEF Sound, Typed
<1>5. CallStages(q, a, x)
  <2> SUFFICES ASSUME NEW d \in Calls PROVE Stage(q, a, x, d)
    BY DEF CallStages
  <2>1. Stage(p, a, w, d)
    BY DEF Sound, CallStages
  <2> QED BY <1>1, <1>2, <1>3, <2>1 DEF Stage
<1>6. CacheIsSound(q, a, s)
  BY <1>2 DEF Sound, CacheIsSound, CacheFits, ActiveWrites
<1>7. PhaseOfPort(q, a, pr, op) /\ ProcsInOrder(q, pr, b)
  BY <1>2, <1>3 DEF Sound, PhaseOfPort, ProcsInOrder
<1>8. WorkersAreOpen(q, a, x, pr, op)
  <2>1. \A d \in p.inFlight : w[d] # "waiting" => x[d] # "waiting"
    BY <1>1 DEF PortType
  <2> QED BY <1>2, <1>3, <2>1 DEF Sound, WorkersAreOpen
<1>9. WritesAreAccounted(q, a, pr, f)
  BY <1>2 DEF Sound, WritesAreAccounted
<1> QED BY <1>4, <1>5, <1>6, <1>7, <1>8, <1>9 DEF Sound

\* A call that is made waits at the gate or is refused at once.
LEMMA CallInv ==
    ASSUME IInv, NEW c \in Calls, Call(c)
    PROVE  IInv'
<1>1. port \in PortType /\ answer \in [Calls -> {"new", "waiting", "ok", "failed", "unknown"}]
  BY DEF IInv, Sound, Typed
<1> DEFINE refused == port.phase = "fenced" \/ Cardinality(port.acquiring) >= AcquireLimit
<1>2. CASE refused
  <2>1. /\ answer[c] = "new" /\ port' = port /\ answer' = [answer EXCEPT ![c] = "failed"]
        /\ UNCHANGED <<at, seen, proc, open, failure, barred, gate, stranded>>
    BY <1>2 DEF Call, Answers
  <2>2. Sound(port, at, [answer EXCEPT ![c] = "failed"], seen, proc, open, failure, barred)
    BY <2>1, RefuseKeeps DEF IInv
  <2> QED BY <2>1, <2>2 DEF IInv
<1>3. CASE ~refused
  <2>1. /\ port' \in PortType /\ port'.phase = port.phase /\ port'.writer = port.writer
        /\ port'.queue = port.queue /\ port'.inFlight = port.inFlight
        /\ port'.acquiring = port.acquiring \cup {c}
        /\ port'.lease = port.lease /\ port'.sealed = port.sealed /\ port'.upkeep = port.upkeep
        /\ port'.moving = port.moving /\ port'.count = port.count /\ port'.fresh = port.fresh
    BY <1>1, <1>3 DEF Call, PortType
  <2>2. Queued(port') = Queued(port) /\ Pinned(port') = Pinned(port)
    BY <2>1 DEF Queued, Pinned
  <2>3. answer[c] = "new" /\ answer' = [answer EXCEPT ![c] = "waiting"]
    BY <1>3 DEF Call, Answers
  <2>4. UNCHANGED <<at, seen, proc, open, failure, barred, gate, stranded>>
    BY DEF Call
  <2>5. Typed(port', at, answer', seen, proc, open, failure, barred)
    BY <2>1, <2>3 DEF IInv, Sound, Typed
  <2>6. CallStages(port', at, answer')
    <3> SUFFICES ASSUME NEW d \in Calls PROVE Stage(port', at, answer', d)
      BY DEF CallStages
    <3>1. Stage(port, at, answer, d)
      BY DEF IInv, Sound, CallStages
    <3> QED BY <1>1, <2>1, <2>2, <2>3, <3>1 DEF Stage
  <2>7. CacheIsSound(port', at, seen)
    BY <2>1 DEF IInv, Sound, CacheIsSound, CacheFits, ActiveWrites
  <2>8. PhaseOfPort(port', at, proc, open) /\ ProcsInOrder(port', proc, barred)
    BY <2>1, <2>2 DEF IInv, Sound, PhaseOfPort, ProcsInOrder
  <2>9. WorkersAreOpen(port', at, answer', proc, open)
    <3>1. c \notin port.inFlight
      BY <2>3 DEF IInv, Sound, CallStages, Stage
    <3>2. \A d \in port.inFlight : answer'[d] = answer[d]
      BY <1>1, <2>3, <3>1 DEF PortType
    <3> QED BY <2>1, <2>2, <3>2 DEF IInv, Sound, WorkersAreOpen
  <2>10. WritesAreAccounted(port', at, proc, failure)
    BY <2>1 DEF IInv, Sound, WritesAreAccounted
  <2> QED BY <2>4, <2>5, <2>6, <2>7, <2>8, <2>9, <2>10 DEF IInv, Sound
<1> QED BY <1>2, <1>3

\* A call that leaves the queue or gives its grant back without having been
\* sent: its lease is released and it has failed.
LEMMA CallReleased ==
    ASSUME IInv, NEW c \in Calls, NEW queue \in Seq(Calls), Distinct(queue),
           ToSet(queue) = Queued(port) \ {c},
           port.lease[c] # None, c \notin port.inFlight,
           port' = Release([port EXCEPT !.queue = queue], c),
           answer' = [answer EXCEPT ![c] = "failed"],
           UNCHANGED <<at, seen, proc, open, failure, barred, gate, stranded>>
    PROVE  IInv'
<1>1. port \in PortType /\ answer \in [Calls -> {"new", "waiting", "ok", "failed", "unknown"}]
  BY DEF IInv, Sound, Typed
<1>2. /\ port' \in PortType /\ port'.phase = port.phase /\ port'.writer = port.writer
      /\ port'.queue = queue /\ port'.inFlight = port.inFlight
      /\ port'.acquiring = port.acquiring
      /\ port'.sealed = port.sealed /\ port'.upkeep = port.upkeep
      /\ port'.moving = port.moving /\ port'.count = port.count /\ port'.fresh = port.fresh
      /\ port'.lease = [port.lease EXCEPT ![c] = None]
  BY <1>1 DEF PortType, Release
<1>4. port'.lease[c] = None /\ \A d \in Calls \ {c} : port'.lease[d] = port.lease[d]
  BY <1>1, <1>2 DEF PortType
<1>3. Queued(port') = Queued(port) \ {c} /\ Pinned(port') = Pinned(port) \ {c}
  BY <1>2, <1>4 DEF Queued, Pinned
<1>5. Typed(port', at, answer', seen, proc, open, failure, barred)
  BY <1>2 DEF IInv, Sound, Typed
<1>6. CallStages(port', at, answer')
  <2> SUFFICES ASSUME NEW d \in Calls PROVE Stage(port', at, answer', d)
    BY DEF CallStages
  <2>1. Stage(port, at, answer, d)
    BY DEF IInv, Sound, CallStages
  <2>2. CASE d = c
    BY <1>1, <1>2, <1>3, <1>4, <2>1, <2>2 DEF Stage
  <2>3. CASE d # c
    BY <1>1, <1>2, <1>3, <1>4, <2>1, <2>3 DEF Stage
  <2> QED BY <2>2, <2>3
<1>7. CacheIsSound(port', at, seen)
  BY <1>2 DEF IInv, Sound, CacheIsSound, CacheFits, ActiveWrites
<1>8. PhaseOfPort(port', at, proc, open) /\ ProcsInOrder(port', proc, barred)
  BY <1>2, <1>3 DEF IInv, Sound, PhaseOfPort, ProcsInOrder
<1>9. \A d \in port.inFlight : answer'[d] = answer[d] /\ port'.lease[d] = port.lease[d]
  BY <1>1, <1>4 DEF PortType
<1>10. WorkersAreOpen(port', at, answer', proc, open)
  <2>1. \A d \in Queued(port') : d \in Queued(port) /\ port'.lease[d] = port.lease[d]
    BY <1>2, <1>3, <1>4, QueuedFacts DEF Queued
  <2> QED BY <1>2, <1>9, <2>1 DEF IInv, Sound, WorkersAreOpen
<1>11. WritesAreAccounted(port', at, proc, failure)
  BY <1>2, <1>9 DEF IInv, Sound, WritesAreAccounted
<1> QED BY <1>5, <1>6, <1>7, <1>8, <1>10, <1>11 DEF IInv, Sound

\* The timer withdraws a queued call with its lease.
LEMMA QueueTimeoutInv ==
    ASSUME IInv, NEW c \in Calls, QueueTimeout(c)
    PROVE  IInv' /\ RanAt(at') = RanAt(at)
<1> DEFINE queue == Dequeue(port.queue, c)
           q == Withdraw(port, c)
<1>1. /\ port \in PortType /\ Distinct(port.queue) /\ c \in ToSet(port.queue)
      /\ at \in [Calls -> {"none", "queued", "sent", "ran", "done"}]
  BY DEF IInv, Sound, Typed, QueueTimeout, Queued
<1>2. queue \in Seq(Calls) /\ Distinct(queue) /\ ToSet(queue) = Queued(port) \ {c}
  BY <1>1, DequeueFacts DEF PortType, Queued
<1>3. port.lease[c] # None /\ c \notin port.inFlight
  BY DEF IInv, Sound, CallStages, Stage, QueueTimeout
<1>4. q = Release([port EXCEPT !.queue = queue], c)
  BY DEF Withdraw
<1>5. q.inFlight = port.inFlight
  <2> HIDE DEF queue, q
  <2> QED BY <1>1, <1>4 DEF Release, PortType
<1>6. port' = q /\ at' = at
  BY <1>1, <1>5, SubmitFacts DEF QueueTimeout
<1>7. /\ answer' = [answer EXCEPT ![c] = "failed"]
      /\ UNCHANGED <<seen, proc, open, failure, barred, gate, stranded>>
  BY DEF QueueTimeout, Answers
<1> HIDE DEF queue, q
<1> QED BY <1>2, <1>3, <1>4, <1>6, <1>7, CallReleased

\* A granted call is queued, and perhaps dispatched, or gives its lease back.
LEMMA AdmitInv ==
    ASSUME IInv, NEW c \in Calls, Admit(c)
    PROVE  IInv' /\ RanAt(at') = RanAt(at)
<1>1. /\ port \in PortType /\ Distinct(port.queue)
      /\ at \in [Calls -> {"none", "queued", "sent", "ran", "done"}]
  BY DEF IInv, Sound, Typed
<1>2. port.lease[c] # None /\ c \notin Queued(port) \cup port.inFlight
  BY DEF Admit
<1>3. CASE Admissible(port, port.lease[c]) /\ ~Full(port)
  <2> DEFINE q == [port EXCEPT !.queue = Append(@, c)]
  <2>1. /\ Append(port.queue, c) \in Seq(Calls) /\ Distinct(Append(port.queue, c))
        /\ ToSet(Append(port.queue, c)) = Queued(port) \cup {c}
    BY <1>1, <1>2, AppendFacts DEF PortType, Queued
  <2>2. /\ q \in PortType /\ q.phase = port.phase /\ q.writer = port.writer
        /\ q.queue = Append(port.queue, c) /\ q.inFlight = port.inFlight
        /\ q.acquiring = port.acquiring /\ q.lease = port.lease
        /\ q.sealed = port.sealed /\ q.upkeep = port.upkeep
        /\ q.moving = port.moving /\ q.count = port.count /\ q.fresh = port.fresh
    BY <1>1, <2>1 DEF PortType
  <2>3. Submit(Pump(q)) /\ UNCHANGED <<answer, seen, proc, open, failure, barred, gate, stranded>>
    BY <1>3 DEF Admit
  <2> HIDE DEF q
  <2>4. Queued(q) = Queued(port) \cup {c} /\ Pinned(q) = Pinned(port)
    BY <2>1, <2>2 DEF Queued, Pinned
  <2>5. port.phase = "serving" /\ port.writer = port.lease[c] /\ port.sealed = None
    BY <1>3 DEF Admissible
  <2>6. Sound(q, at, answer, seen, proc, open, failure, barred)
    <3>1. Typed(q, at, answer, seen, proc, open, failure, barred)
      BY <2>1, <2>2 DEF IInv, Sound, Typed
    <3>2. CallStages(q, at, answer)
      <4> SUFFICES ASSUME NEW d \in Calls PROVE Stage(q, at, answer, d)
        BY DEF CallStages
      <4>1. Stage(port, at, answer, d)
        BY DEF IInv, Sound, CallStages
      <4> QED BY <1>2, <2>2, <2>4, <4>1 DEF Stage
    <3>3. CacheIsSound(q, at, seen)
      BY <2>2 DEF IInv, Sound, CacheIsSound, CacheFits, ActiveWrites
    <3>4. PhaseOfPort(q, at, proc, open) /\ ProcsInOrder(q, proc, barred)
      BY <2>2, <2>4, <2>5 DEF IInv, Sound, PhaseOfPort, ProcsInOrder
    <3>5. WorkersAreOpen(q, at, answer, proc, open)
      BY <2>2, <2>4, <2>5 DEF IInv, Sound, WorkersAreOpen
    <3>6. WritesAreAccounted(q, at, proc, failure)
      BY <2>2 DEF IInv, Sound, WritesAreAccounted
    <3> QED BY <3>1, <3>2, <3>3, <3>4, <3>5, <3>6 DEF Sound
  <2>7. /\ Sound(Pump(q), AtAfter(q, Pump(q), at), answer, seen, proc, open, failure, barred)
        /\ RanAt(AtAfter(q, Pump(q), at)) = RanAt(at)
    BY <2>6, PumpKeeps
  <2>8. port' = Pump(q) /\ at' = AtAfter(q, Pump(q), at)
    BY <1>1, <2>2, <2>3, SubmitFacts DEF AtAfter
  <2> QED BY <2>3, <2>7, <2>8 DEF IInv
<1>4. CASE ~(Admissible(port, port.lease[c]) /\ ~Full(port))
  <2> DEFINE q == Release(port, c)
  <2>1. q = Release([port EXCEPT !.queue = port.queue], c) /\ q.inFlight = port.inFlight
    BY <1>1 DEF PortType, Release
  <2>2. ToSet(port.queue) = Queued(port) \ {c} /\ port.queue \in Seq(Calls)
    BY <1>1, <1>2 DEF Queued, PortType
  <2>3. /\ Submit(q) /\ answer' = [answer EXCEPT ![c] = "failed"]
        /\ UNCHANGED <<seen, proc, open, failure, barred, gate, stranded>>
    BY <1>4 DEF Admit, Answers
  <2>4. port' = q /\ at' = at
    BY <1>1, <2>1, <2>3, SubmitFacts
  <2> HIDE DEF q
  <2> QED BY <1>1, <1>2, <2>1, <2>2, <2>3, <2>4, CallReleased
<1> QED BY <1>3, <1>4

\* The caller gives up at the gate.
LEMMA AcquireTimeoutInv ==
    ASSUME IInv, NEW c \in Calls, AcquireTimeout(c)
    PROVE  IInv'
<1>1. /\ c \in port.acquiring /\ port' = port /\ answer' = [answer EXCEPT ![c] = "failed"]
      /\ UNCHANGED <<at, seen, proc, open, failure, barred, gate, stranded>>
  BY DEF AcquireTimeout, Answers
<1>2. Sound(port, at, [answer EXCEPT ![c] = "failed"], seen, proc, open, failure, barred)
  BY <1>1, RefuseKeeps DEF IInv
<1> QED BY <1>1, <1>2 DEF IInv

\* The gate refuses a call.
LEMMA GateRefusesInv ==
    ASSUME IInv, NEW c \in Calls, GateRefuses(c)
    PROVE  IInv'
<1> DEFINE q == [port EXCEPT !.acquiring = @ \ {c}]
<1>1. /\ c \in port.acquiring /\ port' = q /\ answer' = [answer EXCEPT ![c] = "failed"]
      /\ UNCHANGED <<at, seen, proc, open, failure, barred, gate, stranded>>
  BY DEF GateRefuses, Answers
<1>2. Sound(q, at, [answer EXCEPT ![c] = "failed"], seen, proc, open, failure, barred)
  BY <1>1, RefuseKeeps DEF IInv
<1> HIDE DEF q
<1> QED BY <1>1, <1>2 DEF IInv

\* Installing a serving incarnation at a port without a writer.
LEMMA InstallKeeps ==
    ASSUME NEW p, NEW a, NEW w, NEW s, NEW pr, NEW op, NEW f, NEW b,
           Sound(p, a, w, s, pr, op, f, b),
           NEW o \in Owners, pr[o] = "serving", p.phase = "waiting", p.sealed = None
    PROVE  /\ Sound(Install(p, o), a, w, s, pr, op, f, b)
           /\ Install(p, o).phase = "serving" /\ Install(p, o).writer = o
           /\ Install(p, o).inFlight = p.inFlight /\ Install(p, o).acquiring = p.acquiring
<1> DEFINE q == [Invalidate(p) EXCEPT !.writer = o, !.phase = "serving"]
<1>1. /\ p \in PortType /\ p.inFlight \in SUBSET Calls
      /\ a \in [Calls -> {"none", "queued", "sent", "ran", "done"}]
  BY DEF Sound, Typed, PortType
<1>2. /\ q \in PortType /\ q.phase = "serving" /\ q.writer = o
      /\ q.queue = p.queue /\ q.inFlight = p.inFlight /\ q.acquiring = p.acquiring
      /\ q.lease = p.lease /\ q.sealed = p.sealed /\ q.upkeep = p.upkeep
      /\ q.moving = p.moving /\ q.count = None /\ q.fresh = {}
  BY <1>1 DEF PortType, Invalidate
<1>3. Install(p, o) = Pump(q)
  BY DEF Install
<1> HIDE DEF q
<1>4. Queued(q) = Queued(p) /\ Pinned(q) = Pinned(p)
  BY <1>2 DEF Queued, Pinned
<1>5. Queued(p) = {} /\ p.inFlight = {} /\ p.writer = None /\ p.upkeep = "none" /\ ~p.moving
  BY DEF Sound, PhaseOfPort
<1>6. o \in op /\ o # None
  BY <1>5, NoneFacts DEF Sound, WorkersAreOpen
<1>7. Sound(q, a, w, s, pr, op, f, b)
  <2>1. Typed(q, a, w, s, pr, op, f, b)
    BY <1>2 DEF Sound, Typed
  <2>2. CallStages(q, a, w)
    BY <1>2, <1>4 DEF Sound, CallStages, Stage
  <2>3. CacheIsSound(q, a, s)
    BY <1>2 DEF CacheIsSound, CacheFits
  <2>4. PhaseOfPort(q, a, pr, op) /\ ProcsInOrder(q, pr, b)
    BY <1>2, <1>4, <1>5, <1>6 DEF Sound, PhaseOfPort, ProcsInOrder
  <2>5. WorkersAreOpen(q, a, w, pr, op)
    <3>1. \A n \in Owners : pr[n] = "serving" => n \in op
      BY <1>5, NoneFacts DEF Sound, WorkersAreOpen
    <3> QED BY <1>2, <1>4, <1>5, <3>1 DEF Sound, WorkersAreOpen
  <2>6. WritesAreAccounted(q, a, pr, f)
    BY <1>2, <1>5 DEF Sound, WritesAreAccounted
  <2> QED BY <2>1, <2>2, <2>3, <2>4, <2>5, <2>6 DEF Sound
<1>8. Sound(Pump(q), AtAfter(q, Pump(q), a), w, s, pr, op, f, b)
  BY <1>7, PumpKeeps
<1>9. /\ Pump(q).inFlight = q.inFlight /\ Pump(q).phase = q.phase
      /\ Pump(q).writer = q.writer /\ Pump(q).acquiring = q.acquiring
  BY <1>2, <1>4, <1>5, <1>7, PumpFacts DEF Sound, Typed, CacheIsSound, SameGate
<1>10. AtAfter(q, Pump(q), a) = a
  BY <1>1, <1>9 DEF AtAfter
<1> QED BY <1>2, <1>3, <1>8, <1>9, <1>10

\* The answers of a step that only refuses calls or gives them up.
Refusing ==
    \A c \in Calls : answer'[c] # answer[c] =>
        answer[c] \in {"new", "waiting"} /\ answer'[c] \in {"failed", "unknown"}

LEMMA GateGrantsInv ==
    ASSUME IInv, NEW c \in Calls, NEW o \in Owners, GateGrants(c, o)
    PROVE  IInv' /\ RanAt(at') = RanAt(at) /\ Refusing
<1> DEFINE r == Repaired(port, o)
           p == [r EXCEPT !.acquiring = @ \ {c}]
<1>1. /\ c \in port.acquiring /\ proc[o] = "serving" /\ ~barred /\ port.sealed = None
      /\ UNCHANGED <<seen, proc, open, failure, barred, gate>>
      /\ at \in [Calls -> {"none", "queued", "sent", "ran", "done"}]
  BY DEF GateGrants, Serving, IInv, Sound, Typed
<1>2. /\ Sound(r, at, answer, seen, proc, open, failure, barred)
      /\ r.inFlight = port.inFlight /\ r.acquiring = port.acquiring
  BY <1>1, InstallKeeps DEF Repaired, IInv
<1>3. r \in PortType /\ answer \in [Calls -> {"new", "waiting", "ok", "failed", "unknown"}]
  BY <1>2 DEF Sound, Typed
<1>4. IF p.phase = "serving" /\ p.writer = o
      THEN /\ Submit(IF answer[c] = "waiting" THEN [p EXCEPT !.lease[c] = o] ELSE p)
           /\ UNCHANGED <<answer, stranded>>
      ELSE /\ Submit(Fence(p))
           /\ answer' = [d \in Calls |-> IF d = c \/ d \in Queued(p) THEN "failed" ELSE answer[d]]
           /\ stranded' = TRUE
  BY DEF GateGrants
<1> HIDE DEF r
<1>5. /\ p \in PortType /\ p.phase = r.phase /\ p.writer = r.writer
      /\ p.queue = r.queue /\ p.inFlight = r.inFlight /\ p.acquiring = r.acquiring \ {c}
      /\ p.lease = r.lease /\ p.sealed = r.sealed /\ p.upkeep = r.upkeep
      /\ p.moving = r.moving /\ p.count = r.count /\ p.fresh = r.fresh
  BY <1>3 DEF PortType
<1>6. p = [r EXCEPT !.acquiring = @ \ {c}]
  OBVIOUS
<1> HIDE DEF p
<1>7. Stage(r, at, answer, c)
  BY <1>2 DEF Sound, CallStages
<1>8. /\ r.lease[c] = None /\ at[c] = "none" /\ c \notin Queued(r) /\ c \notin r.inFlight
      /\ answer[c] \in {"waiting", "failed"}
  BY <1>1, <1>2, <1>7 DEF Stage
<1>9. Queued(p) = Queued(r) /\ Pinned(p) = Pinned(r)
  BY <1>5 DEF Queued, Pinned
<1>10. CASE p.phase = "serving" /\ p.writer = o
  <2> DEFINE q == IF answer[c] = "waiting" THEN [p EXCEPT !.lease[c] = o] ELSE p
  <2>1. /\ q \in PortType /\ q.phase = p.phase /\ q.writer = p.writer
        /\ q.queue = p.queue /\ q.inFlight = p.inFlight /\ q.acquiring = p.acquiring
        /\ q.sealed = p.sealed /\ q.upkeep = p.upkeep
        /\ q.moving = p.moving /\ q.count = p.count /\ q.fresh = p.fresh
        /\ \A d \in Calls \ {c} : q.lease[d] = p.lease[d]
        /\ q.lease[c] = IF answer[c] = "waiting" THEN o ELSE None
    BY <1>5, <1>8 DEF PortType
  <2>2. Submit(q) /\ UNCHANGED <<answer, stranded>>
    BY <1>4, <1>10
  <2> HIDE DEF q
  <2>3. Queued(q) = Queued(r)
    BY <1>9, <2>1 DEF Queued
  <2>4. port' = q /\ at' = at
    BY <1>1, <1>2, <1>5, <2>1, <2>2, SubmitFacts
  <2>5. Typed(q, at, answer, seen, proc, open, failure, barred)
    BY <1>2, <1>5, <2>1 DEF Sound, Typed
  <2>6. CallStages(q, at, answer)
    <3> SUFFICES ASSUME NEW d \in Calls PROVE Stage(q, at, answer, d)
      BY DEF CallStages
    <3>1. Stage(r, at, answer, d)
      BY <1>2 DEF Sound, CallStages
    <3>2. CASE d = c
      BY <1>5, <1>8, <2>1, <2>3, <3>1, <3>2 DEF Stage
    <3>3. CASE d # c
      BY <1>5, <2>1, <2>3, <3>1, <3>3 DEF Stage
    <3> QED BY <3>2, <3>3
  <2>7. CacheIsSound(q, at, seen)
    BY <1>2, <1>5, <2>1 DEF Sound, CacheIsSound, CacheFits, ActiveWrites
  <2>8. PhaseOfPort(q, at, proc, open)
    BY <1>2, <1>5, <1>10, <2>1, <2>3 DEF Sound, PhaseOfPort
  <2>9. ProcsInOrder(q, proc, barred)
    BY <1>1, <1>2 DEF Sound, ProcsInOrder
  <2>10. \A d \in r.inFlight \cup Queued(r) : q.lease[d] = r.lease[d]
    <3>1. r.inFlight \subseteq Calls /\ Queued(r) \subseteq Calls
      BY <1>3, QueuedFacts DEF PortType, Queued
    <3> QED BY <1>5, <1>8, <2>1, <3>1
  <2>11. WorkersAreOpen(q, at, answer, proc, open)
    BY <1>2, <1>5, <2>1, <2>3, <2>10 DEF Sound, WorkersAreOpen
  <2>12. WritesAreAccounted(q, at, proc, failure)
    BY <1>2, <1>5, <2>1, <2>10 DEF Sound, WritesAreAccounted
  <2> QED
    BY <1>1, <2>2, <2>4, <2>5, <2>6, <2>7, <2>8, <2>9, <2>11, <2>12 DEF IInv, Sound, Refusing
<1>11. CASE ~(p.phase = "serving" /\ p.writer = o)
  <2> DEFINE w == [answer EXCEPT ![c] = "failed"]
  <2>1. Sound(p, at, w, seen, proc, open, failure, barred)
    BY <1>1, <1>2, <1>6, RefuseKeeps
  <2>2. Sound(Fence(p), at, FenceAnswers(p, w, {}), seen, proc, open, failure, barred)
    BY <2>1, FenceKeeps
  <2>3. FenceAnswers(p, w, {})
          = [d \in Calls |-> IF d = c \/ d \in Queued(p) THEN "failed" ELSE answer[d]]
    <3>1. \A d \in Calls : d \in Queued(r) => answer[d] = "waiting"
      BY <1>2 DEF Sound, CallStages, Stage
    <3> QED BY <1>3, <1>9, <3>1 DEF FenceAnswers
  <2>4. Submit(Fence(p)) /\ answer' = FenceAnswers(p, w, {}) /\ stranded' = TRUE
    BY <1>4, <1>11, <2>3
  <2>5. Fence(p).inFlight = port.inFlight
    BY <1>2, <1>5, FenceFacts
  <2>6. port' = Fence(p) /\ at' = at
    BY <1>1, <2>4, <2>5, SubmitFacts
  <2>7. Refusing
    <3>1. \A d \in Calls : d \in Queued(r) => answer[d] = "waiting"
      BY <1>2 DEF Sound, CallStages, Stage
    <3> QED BY <1>4, <1>8, <1>9, <1>11, <3>1 DEF Refusing
  <2> HIDE DEF w
  <2> QED BY <1>1, <2>2, <2>4, <2>6, <2>7 DEF IInv
<1> QED BY <1>10, <1>11

-----------------------------------------------------------------------------
(* Calls in flight.                                                         *)

\* A dispatched call reaches the process.
LEMMA SentInv ==
    ASSUME IInv, NEW c \in Calls, Sent(c)
    PROVE  IInv'
<1>1. /\ at[c] = "queued" /\ at' = [at EXCEPT ![c] = "sent"]
      /\ UNCHANGED <<port, answer, seen, proc, open, failure, barred, gate, stranded>>
  BY DEF Sent
<1>2. /\ at \in [Calls -> {"none", "queued", "sent", "ran", "done"}]
      /\ \A d \in Calls : Stage(port, at, answer, d)
  BY DEF IInv, Sound, Typed, CallStages
<1>3. \A d \in Calls : at'[d] = IF d = c THEN "sent" ELSE at[d]
  BY <1>1, <1>2
<1>4. c \in port.inFlight
  BY <1>1, <1>2 DEF Stage
<1>5. RowsOf(at') = RowsOf(at)
  <2>1. \A d \in Writes : at[d] \in {"ran", "done"} <=> at'[d] \in {"ran", "done"}
    BY <1>1, <1>3, PortAssumption
  <2> QED BY <2>1, RowsStay
<1>6. Typed(port, at', answer, seen, proc, open, failure, barred)
  BY <1>1 DEF IInv, Sound, Typed
<1>7. CallStages(port, at', answer)
  BY <1>1, <1>2, <1>3 DEF CallStages, Stage
<1>8. CacheIsSound(port, at', seen)
  <2>1. port.fresh \subseteq Calls
    BY DEF IInv, Sound, Typed, PortType
  <2> QED BY <1>3, <1>5, <2>1 DEF IInv, Sound, CacheIsSound
<1>9. PhaseOfPort(port, at', proc, open)
  BY <1>5 DEF IInv, Sound, PhaseOfPort
<1>10. WorkersAreOpen(port, at', answer, proc, open)
  <2>1. port.inFlight \subseteq Calls
    BY DEF IInv, Sound, Typed, PortType
  <2> QED BY <1>3, <2>1 DEF IInv, Sound, WorkersAreOpen
<1>11. WritesAreAccounted(port, at', proc, failure)
  BY <1>3, <1>4, PortAssumption DEF IInv, Sound, WritesAreAccounted
<1> QED BY <1>1, <1>6, <1>7, <1>8, <1>9, <1>10, <1>11 DEF IInv, Sound

\* A write that runs changes the rows only while nothing is cached.
LEMMA RunInv ==
    ASSUME IInv, NEW c \in Calls, Run(c)
    PROVE  IInv'
<1>1. /\ at[c] = "sent" /\ port.lease[c] \in open /\ at' = [at EXCEPT ![c] = "ran"]
      /\ seen' = [seen EXCEPT ![c] = RowsOf(at)]
      /\ UNCHANGED <<port, answer, proc, open, failure, barred, gate, stranded>>
  BY DEF Run, Rows, ran, RowsOf, RanAt
<1>2. /\ at \in [Calls -> {"none", "queued", "sent", "ran", "done"}]
      /\ seen \in [Calls -> {0, 1}] /\ port \in PortType
      /\ \A d \in Calls : Stage(port, at, answer, d)
  BY DEF IInv, Sound, Typed, CallStages
<1>3. /\ \A d \in Calls : at'[d] = IF d = c THEN "ran" ELSE at[d]
      /\ \A d \in Calls : seen'[d] = IF d = c THEN RowsOf(at) ELSE seen[d]
  BY <1>1, <1>2
<1>4. port.lease[c] # None
  BY <1>1, NoneFacts DEF IInv, Sound, Typed
<1>5. c \in port.inFlight
  BY <1>1, <1>2, <1>4 DEF Stage
<1>6. c \notin Writes => RowsOf(at') = RowsOf(at)
  <2> SUFFICES ASSUME c \notin Writes PROVE RowsOf(at') = RowsOf(at)
    OBVIOUS
  <2>1. \A d \in Writes : at[d] \in {"ran", "done"} <=> at'[d] \in {"ran", "done"}
    BY <1>3, PortAssumption
  <2> QED BY <2>1, RowsStay
<1>7. Typed(port, at', answer, seen', proc, open, failure, barred)
  BY <1>1, RowsFacts DEF IInv, Sound, Typed
<1>8. CallStages(port, at', answer)
  BY <1>1, <1>2, <1>3 DEF CallStages, Stage
<1>9. CacheIsSound(port, at', seen')
  <2>1. port.fresh \subseteq Calls
    BY <1>2 DEF PortType
  <2>2. CASE c \in Writes
    <3>1. port.count = None /\ port.fresh = {}
      BY <1>5, <2>2 DEF IInv, Sound, CacheIsSound, CacheFits, ActiveWrites
    <3> QED BY <3>1 DEF IInv, Sound, CacheIsSound
  <2>3. CASE c \notin Writes
    BY <1>3, <1>6, <2>1, <2>3 DEF IInv, Sound, CacheIsSound
  <2> QED BY <2>2, <2>3
<1>10. PhaseOfPort(port, at', proc, open)
  <2>1. port.sealed = None
    BY <1>4 DEF IInv, Sound, PhaseOfPort, Pinned
  <2> QED BY <2>1 DEF IInv, Sound, PhaseOfPort
<1>11. WorkersAreOpen(port, at', answer, proc, open)
  <2>1. port.inFlight \subseteq Calls
    BY <1>2 DEF PortType
  <2> QED BY <1>3, <2>1 DEF IInv, Sound, WorkersAreOpen
<1>12. WritesAreAccounted(port, at', proc, failure)
  BY <1>3, <1>5, PortAssumption DEF IInv, Sound, WritesAreAccounted
<1> QED BY <1>1, <1>7, <1>8, <1>9, <1>10, <1>11, <1>12 DEF IInv, Sound

\* A call whose physical settlement arrives: what it answers and where it
\* ends, and the pump of its slot.
LEMMA SettleKeeps ==
    ASSUME IInv, NEW c \in Calls, c \in port.inFlight,
           NEW v \in {0, 1, None}, NEW end \in {"none", "done"}, NEW w,
           w \in [Calls -> {"new", "waiting", "ok", "failed", "unknown"}],
           \A d \in Calls \ {c} : w[d] = answer[d],
           end = "none" => at[c] = "queued" /\ v = None /\ w[c] = "failed",
           end = "done" => at[c] = "ran" /\ v = seen[c]
                           /\ w[c] = IF answer[c] = "waiting" THEN "ok" ELSE answer[c],
           port' = Settled(port, c, v), answer' = w,
           at' = [d \in Calls |-> IF d \in Newly(Settled(port, c, v)) THEN "queued"
                                  ELSE IF d = c THEN end ELSE at[d]],
           UNCHANGED <<seen, proc, open, failure, barred, gate, stranded>>
    PROVE  IInv' /\ RanAt(at') = RanAt(at)
<1> DEFINE z == [at EXCEPT ![c] = end]
<1>1. /\ port \in PortType /\ port.inFlight \subseteq Calls
      /\ at \in [Calls -> {"none", "queued", "sent", "ran", "done"}]
      /\ seen \in [Calls -> {0, 1}]
      /\ \A d \in Calls : Stage(port, at, answer, d)
  BY DEF IInv, Sound, Typed, CallStages, PortType
<1>2a. PICK q \in PortType : Settled(port, c, v) = Pump(q) /\ Freed(port, c, v, q)
  BY <1>1, SettledFacts
<1>2. /\ Settled(port, c, v) = Pump(q)
      /\ q.phase = port.phase /\ q.writer = port.writer /\ q.queue = port.queue
      /\ q.acquiring = port.acquiring /\ q.sealed = port.sealed /\ q.upkeep = port.upkeep
      /\ q.moving = port.moving
      /\ q.inFlight = port.inFlight \ {c} /\ q.fresh = port.fresh \ {c}
      /\ q.lease[c] = None /\ \A d \in Calls \ {c} : q.lease[d] = port.lease[d]
      /\ q.count = IF c \in port.fresh /\ ActiveWrites(port) = {} /\ port.phase = "serving"
                   THEN v ELSE port.count
  BY <1>2a DEF Freed
<1>3. Queued(q) = Queued(port) /\ Pinned(q) \subseteq Pinned(port)
  BY <1>2 DEF Queued, Pinned
<1>4. \A d \in Calls : z[d] = IF d = c THEN end ELSE at[d]
  BY <1>1
<1>5. z \in [Calls -> {"none", "queued", "sent", "ran", "done"}]
  BY <1>1
<1> HIDE DEF z
<1>6. c \notin Queued(port) /\ c \notin port.acquiring
  BY <1>1 DEF Stage
<1>7. RowsOf(z) = RowsOf(at) /\ RanAt(z) = RanAt(at)
  BY <1>4 DEF RanAt, RowsOf
<1>8. Sound(q, z, w, seen, proc, open, failure, barred)
  <2>1. Typed(q, z, w, seen, proc, open, failure, barred)
    BY <1>2, <1>5 DEF IInv, Sound, Typed
  <2>2. CallStages(q, z, w)
    <3> SUFFICES ASSUME NEW d \in Calls PROVE Stage(q, z, w, d)
      BY DEF CallStages
    <3>1. Stage(port, at, answer, d)
      BY <1>1
    <3>2. CASE d = c
      BY <1>2, <1>3, <1>4, <1>6, <3>1, <3>2 DEF Stage
    <3>3. CASE d # c
      BY <1>2, <1>3, <1>4, <3>1, <3>3 DEF Stage
    <3> QED BY <3>2, <3>3
  <2>3. CacheIsSound(q, z, seen)
    <3>1. CacheIsSound(port, at, seen) /\ port.fresh \subseteq Calls
      BY <1>1 DEF IInv, Sound, PortType
    <3>2. q.count # None => ActiveWrites(port) = {} /\ q.count = RowsOf(at)
      BY <1>2, <3>1 DEF CacheIsSound, CacheFits
    <3>3. ActiveWrites(q) \subseteq ActiveWrites(port)
      BY <1>2 DEF ActiveWrites
    <3>4. CacheFits(q)
      BY <1>2, <3>1, <3>2, <3>3 DEF CacheIsSound, CacheFits
    <3> QED BY <1>2, <1>4, <1>7, <3>1, <3>2, <3>4 DEF CacheIsSound
  <2>4. PhaseOfPort(q, z, proc, open) /\ ProcsInOrder(q, proc, barred)
    BY <1>2, <1>3, <1>7 DEF IInv, Sound, PhaseOfPort, ProcsInOrder
  <2>5. \A d \in q.inFlight : d \in port.inFlight /\ d # c /\ d \in Calls
    BY <1>1, <1>2
  <2>6. \A d \in q.inFlight : q.lease[d] = port.lease[d] /\ z[d] = at[d] /\ w[d] = answer[d]
    BY <1>2, <1>4, <2>5
  <2>7. \A d \in Queued(q) : d \in Queued(port) /\ q.lease[d] = port.lease[d]
    BY <1>1, <1>2, <1>3, <1>6, QueuedFacts DEF PortType, Queued
  <2>8. WorkersAreOpen(q, z, w, proc, open)
    BY <1>2, <2>5, <2>6, <2>7 DEF IInv, Sound, WorkersAreOpen
  <2>9. WritesAreAccounted(q, z, proc, failure)
    <3> SUFFICES ASSUME NEW d \in Writes
                 PROVE  /\ z[d] \in {"sent", "ran"} /\ d \notin q.inFlight =>
                              /\ q.phase = "fenced" /\ failure # None
                              /\ failure.unknown \/ failure.owner # q.writer
                              /\ q.writer # None /\ proc[q.writer] = "retired"
                        /\ d \in q.inFlight /\ proc[q.lease[d]] \in {"faulted", "exited"} =>
                              /\ q.phase = "fenced" /\ failure # None
                              /\ failure.owner = q.lease[d] /\ failure.unknown
      BY DEF WritesAreAccounted
    <3> QED BY <1>2, <1>4, <2>5, <2>6, PortAssumption DEF IInv, Sound, WritesAreAccounted
  <2> QED BY <2>1, <2>2, <2>3, <2>4, <2>8, <2>9 DEF Sound
<1>9. /\ Sound(Pump(q), AtAfter(q, Pump(q), z), w, seen, proc, open, failure, barred)
      /\ RanAt(AtAfter(q, Pump(q), z)) = RanAt(z)
  BY <1>8, PumpKeeps
<1>10. at' = AtAfter(q, Pump(q), z)
  <2>1. c \notin Pump(q).inFlight
    BY <1>2, <1>3, <1>6, <1>8, PumpFacts DEF Sound, Typed, CacheIsSound
  <2>2. q.inFlight = port.inFlight \ {c}
    BY <1>2
  <2> QED BY <1>2, <1>4, <2>1, <2>2 DEF AtAfter, Newly
<1> QED BY <1>2, <1>7, <1>9, <1>10 DEF IInv

\* A call proven not dispatched is settled as failed.
LEMMA NotSentInv ==
    ASSUME IInv, NEW c \in Calls, NotSent(c)
    PROVE  IInv' /\ RanAt(at') = RanAt(at)
<1>1. at[c] = "queued" /\ c \in port.inFlight
  BY DEF NotSent, IInv, Sound, CallStages, Stage
<1> DEFINE w == [answer EXCEPT ![c] = "failed"]
<1>2. answer \in [Calls -> {"new", "waiting", "ok", "failed", "unknown"}]
  BY DEF IInv, Sound, Typed
<1>3. /\ w \in [Calls -> {"new", "waiting", "ok", "failed", "unknown"}]
      /\ w[c] = "failed" /\ \A d \in Calls \ {c} : w[d] = answer[d]
  BY <1>2
<1>4. /\ port' = Settled(port, c, None) /\ answer' = w
      /\ at' = [d \in Calls |-> IF d \in Newly(Settled(port, c, None)) THEN "queued"
                                ELSE IF d = c THEN "none" ELSE at[d]]
      /\ UNCHANGED <<seen, proc, open, failure, barred, gate, stranded>>
  BY DEF NotSent, Answers
<1> HIDE DEF w
<1> QED BY <1>1, <1>3, <1>4, SettleKeeps

\* A reply settles its call and may fill the cache.
LEMMA ReplyArrivesInv ==
    ASSUME IInv, NEW c \in Calls, ReplyArrives(c)
    PROVE  IInv' /\ RanAt(at') = RanAt(at)
<1>1. at[c] = "ran" /\ c \in port.inFlight
  BY DEF ReplyArrives
<1>2. /\ answer \in [Calls -> {"new", "waiting", "ok", "failed", "unknown"}]
      /\ seen[c] \in {0, 1}
  BY DEF IInv, Sound, Typed
<1>3. /\ answer' \in [Calls -> {"new", "waiting", "ok", "failed", "unknown"}]
      /\ answer'[c] = IF answer[c] = "waiting" THEN "ok" ELSE answer[c]
      /\ \A d \in Calls \ {c} : answer'[d] = answer[d]
  BY <1>2 DEF ReplyArrives, Answers
<1>4. /\ port' = Settled(port, c, seen[c])
      /\ at' = [d \in Calls |-> IF d \in Newly(Settled(port, c, seen[c])) THEN "queued"
                                ELSE IF d = c THEN "done" ELSE at[d]]
      /\ UNCHANGED <<seen, proc, open, failure, barred, gate, stranded>>
  BY DEF ReplyArrives
<1> QED BY <1>1, <1>2, <1>3, <1>4, SettleKeeps

\* A call whose result is lost fences the port.
LEMMA ResultLostInv ==
    ASSUME IInv, NEW c \in Calls, ResultLost(c)
    PROVE  IInv'
<1>1. /\ at[c] \in {"sent", "ran"} /\ FenceFor({c})
      /\ UNCHANGED <<seen, proc, open, failure, barred, gate, stranded>>
  BY DEF ResultLost
<1> QED BY <1>1, FenceStep

-----------------------------------------------------------------------------
(* Incarnations.                                                            *)

\* An incarnation may die where none starts.
LEMMA ProcsStay ==
    ASSUME NEW p, NEW pr, NEW b, ProcsInOrder(p, pr, b), NEW q, NEW z,
           Pinned(q) \subseteq Pinned(p),
           \A n \in Owners : /\ z[n] = "none" <=> pr[n] = "none"
                             /\ Live(z, n) => Live(pr, n)
    PROVE  ProcsInOrder(q, z, b)
<1>1. \A n, o \in Owners : n < o /\ z[n] = "none" => z[o] = "none"
  BY NoneFacts DEF ProcsInOrder
<1>2. \A n, o \in Owners : n # o /\ Live(z, n) /\ Live(z, o) => b /\ Pinned(q) = {}
  <2> SUFFICES ASSUME NEW n \in Owners, NEW o \in Owners, n # o, Live(z, n), Live(z, o)
               PROVE  b /\ Pinned(q) = {}
    OBVIOUS
  <2>1. Live(pr, n) /\ Live(pr, o)
    OBVIOUS
  <2> QED BY <2>1 DEF ProcsInOrder
<1> QED BY <1>1, <1>2 DEF ProcsInOrder

\* A fault fences the port and records whether a write was in flight.
LEMMA FaultInv ==
    ASSUME IInv, NEW o \in Owners, Fault(o)
    PROVE  IInv'
<1> DEFINE q == Fence(port)
           w == FenceAnswers(port, answer, {})
           pr == [proc EXCEPT ![o] = "faulted"]
           f == [owner |-> o, unknown |-> Unknown]
<1>1. /\ proc[o] \in {"activated", "serving"} /\ FenceFor({})
      /\ proc' = pr /\ failure' = f /\ barred' = TRUE
      /\ UNCHANGED <<seen, open, gate, stranded>>
  BY DEF Fault, FaultOf
<1>2. port' = q /\ at' = at /\ answer' = w
  BY <1>1, FenceForFacts
<1>3. Sound(q, at, w, seen, proc, open, failure, barred)
  BY FenceKeeps DEF IInv
<1>4. /\ port \in PortType
      /\ proc \in [Owners -> {"none", "ready", "activated", "serving", "faulted", "exited", "retired"}]
  BY DEF IInv, Sound, Typed
<1>5. q.phase = "fenced" /\ q.inFlight = port.inFlight
  BY <1>4, FenceFacts
<1>6. \A n \in Owners : pr[n] = IF n = o THEN "faulted" ELSE proc[n]
  BY <1>4
<1>7. f.owner = o /\ f.unknown = (ActiveWrites(q) # {}) /\ f \in [owner : Owners, unknown : BOOLEAN]
  BY <1>5 DEF Unknown, ActiveWrites
<1>8. pr \in [Owners -> {"none", "ready", "activated", "serving", "faulted", "exited", "retired"}]
  BY <1>4
<1> HIDE DEF q, w, pr, f
<1>9. Typed(q, at, w, seen, pr, open, f, TRUE)
  BY <1>3, <1>7, <1>8 DEF Sound, Typed
<1>10. PhaseOfPort(q, at, pr, open)
  BY <1>3, <1>5 DEF Sound, PhaseOfPort
<1>11. ProcsInOrder(q, pr, TRUE)
  BY <1>1, <1>3, <1>6 DEF Sound, ProcsInOrder, Live
<1>12. q.inFlight \subseteq Calls /\ \A c \in q.inFlight : q.lease[c] \in Owners
  BY <1>3 DEF Sound, Typed, PortType, CallStages, Stage
<1>13. open \subseteq Owners
  BY <1>3 DEF Sound, Typed
<1>14. WorkersAreOpen(q, at, w, pr, open)
  BY <1>1, <1>3, <1>6, <1>12, <1>13 DEF Sound, WorkersAreOpen
<1>15. WritesAreAccounted(q, at, pr, f)
  <2> SUFFICES ASSUME NEW c \in Writes
               PROVE  /\ at[c] \in {"sent", "ran"} /\ c \notin q.inFlight =>
                            /\ q.phase = "fenced" /\ f # None
                            /\ f.unknown \/ f.owner # q.writer
                            /\ q.writer # None /\ pr[q.writer] = "retired"
                      /\ c \in q.inFlight /\ pr[q.lease[c]] \in {"faulted", "exited"} =>
                            /\ q.phase = "fenced" /\ f # None
                            /\ f.owner = q.lease[c] /\ f.unknown
    BY DEF WritesAreAccounted
  <2>1. f # None
    BY <1>7, NoneAssumption
  <2>2. ASSUME at[c] \in {"sent", "ran"}, c \notin q.inFlight
        PROVE  f.owner # q.writer /\ q.writer # None /\ pr[q.writer] = "retired"
    <3>1. q.writer # None /\ proc[q.writer] = "retired" /\ q.writer \in Owners
      BY <1>3, <2>2 DEF Sound, WritesAreAccounted, Typed, PortType
    <3> QED BY <1>1, <1>6, <1>7, <3>1
  <2>3. ASSUME c \in q.inFlight, pr[q.lease[c]] \in {"faulted", "exited"}
        PROVE  f.owner = q.lease[c] /\ f.unknown
    <3>1. q.lease[c] \in Owners /\ q.lease[c] # None
      BY <1>12, <2>3, NoneFacts
    <3>2. Pinned(q) # {}
      BY <2>3, <3>1, PortAssumption DEF Pinned
    <3>3. Live(pr, o) /\ Live(pr, q.lease[c])
      BY <1>6, <2>3 DEF Live
    <3>4. q.lease[c] = o
      BY <1>11, <3>1, <3>2, <3>3 DEF ProcsInOrder
    <3> QED BY <1>7, <2>3, <3>4 DEF ActiveWrites
  <2> QED BY <1>5, <2>1, <2>2, <2>3
<1> QED
  BY <1>1, <1>2, <1>3, <1>9, <1>10, <1>11, <1>14, <1>15 DEF IInv, Sound

\* The closed channel settles what the process was never sent.
LEMMA ExitInv ==
    ASSUME IInv, NEW o \in Owners, Exit(o)
    PROVE  IInv'
<1> DEFINE q == Fence(port)
           w == FenceAnswers(port, answer, Lost(o))
           op == open \ {o}
<1>1. /\ proc[o] = "faulted" /\ proc' = [proc EXCEPT ![o] = "exited"] /\ open' = op
      /\ port' = [q EXCEPT !.inFlight = @ \ Cut(o),
                           !.lease = [c \in Calls |-> IF c \in Cut(o) THEN None ELSE @[c]]]
      /\ at' = [c \in Calls |-> IF c \in Cut(o) THEN "none" ELSE at[c]]
      /\ answer' = [c \in Calls |-> IF answer[c] # "waiting" THEN answer[c]
                                    ELSE IF c \in Cut(o) THEN "failed"
                                    ELSE IF c \in Lost(o) THEN "unknown" ELSE answer[c]]
      /\ UNCHANGED <<seen, failure, barred, gate, stranded>>
  BY DEF Exit
<1>2. /\ port \in PortType /\ port.inFlight \subseteq Calls
      /\ proc \in [Owners -> {"none", "ready", "activated", "serving", "faulted", "exited", "retired"}]
      /\ answer \in [Calls -> {"new", "waiting", "ok", "failed", "unknown"}]
      /\ at \in [Calls -> {"none", "queued", "sent", "ran", "done"}] /\ open \subseteq Owners
      /\ \A c \in Calls : Stage(port, at, answer, c)
  BY DEF IInv, Sound, Typed, CallStages, PortType
<1>3. Queued(port) = {}
  <2> SUFFICES ASSUME NEW c \in Queued(port) PROVE FALSE
    OBVIOUS
  <2>1. c \in Calls /\ port.lease[c] # None
    BY <1>2, QueuedFacts DEF Stage, PortType, Queued
  <2>2. port.phase \in {"serving", "handover"}
    BY <1>2 DEF IInv, Sound, PhaseOfPort, PortType
  <2>3. proc[port.writer] = "serving" /\ port.writer \in Owners
    BY <1>2, <2>2 DEF IInv, Sound, PhaseOfPort, PortType
  <2>4. Live(proc, o) /\ Live(proc, port.writer) /\ o # port.writer
    BY <1>1, <2>3 DEF Live
  <2> QED BY <2>1, <2>3, <2>4 DEF IInv, Sound, ProcsInOrder, Pinned
<1>4. \A c \in Calls : /\ c \in Cut(o) <=> at[c] = "queued" /\ c \in q.inFlight /\ q.lease[c] = o
                       /\ c \in Lost(o) <=> at[c] # "queued" /\ c \in q.inFlight /\ q.lease[c] = o
  <2>1. q.inFlight = port.inFlight /\ \A c \in Calls : q.lease[c] = port.lease[c]
    BY <1>2, <1>3, FenceFacts
  <2> QED BY <2>1 DEF Cut, Lost
<1>5. Sound(q, at, w, seen, proc, open, failure, barred)
  <2>1. q.inFlight = port.inFlight /\ \A c \in Calls : q.lease[c] = port.lease[c]
    BY <1>2, <1>3, FenceFacts
  <2>2. \A c \in Lost(o) \cap Calls : at[c] \in {"sent", "ran"}
    BY <1>2, <1>4, <2>1 DEF Stage
  <2> QED BY <2>2, FenceKeeps DEF IInv
<1>6. /\ q \in PortType /\ q.phase = "fenced" /\ q.count = None /\ q.fresh = {}
      /\ Distinct(q.queue) /\ Queued(q) = {} /\ q.upkeep \in {"none", "stuck"} /\ q.moving = FALSE
  BY <1>2, FenceFacts
<1>7. \A c \in Calls : answer'[c] = IF c \in Cut(o) /\ w[c] = "waiting" THEN "failed" ELSE w[c]
  <2>1. \A c \in Calls : c \in Cut(o) => c \notin Lost(o)
    BY <1>4
  <2> QED BY <1>1, <1>3, <2>1 DEF FenceAnswers
<1>8. answer' \in [Calls -> {"new", "waiting", "ok", "failed", "unknown"}]
  BY <1>1, <1>2
<1> HIDE DEF q, w, op
<1>9. /\ port' \in PortType /\ port'.phase = "fenced" /\ port'.writer = q.writer
      /\ port'.queue = q.queue /\ port'.inFlight = q.inFlight \ Cut(o)
      /\ port'.acquiring = q.acquiring /\ port'.sealed = q.sealed /\ port'.upkeep = q.upkeep
      /\ port'.moving = FALSE /\ port'.count = None /\ port'.fresh = {}
      /\ \A c \in Calls : port'.lease[c] = IF c \in Cut(o) THEN None ELSE q.lease[c]
  BY <1>1, <1>6 DEF PortType
<1>10. Queued(port') = {} /\ Pinned(port') \subseteq Pinned(q)
  BY <1>6, <1>9 DEF Queued, Pinned
<1>11. /\ \A c \in Calls : at'[c] = IF c \in Cut(o) THEN "none" ELSE at[c]
       /\ at' \in [Calls -> {"none", "queued", "sent", "ran", "done"}]
       /\ \A n \in Owners : proc'[n] = IF n = o THEN "exited" ELSE proc[n]
  BY <1>1, <1>2
<1>12. Typed(port', at', answer', seen, proc', op, failure, barred)
  BY <1>1, <1>5, <1>6, <1>8, <1>9, <1>11 DEF Sound, Typed, op
<1>13. CallStages(port', at', answer')
  <2> SUFFICES ASSUME NEW c \in Calls PROVE Stage(port', at', answer', c)
    BY DEF CallStages
  <2>1. Stage(q, at, w, c)
    BY <1>5 DEF Sound, CallStages
  <2>2. CASE c \in Cut(o)
    BY <1>4, <1>7, <1>9, <1>10, <1>11, <2>1, <2>2 DEF Stage
  <2>3. CASE c \notin Cut(o)
    BY <1>6, <1>7, <1>9, <1>10, <1>11, <2>1, <2>3 DEF Stage
  <2> QED BY <2>2, <2>3
<1>14. CacheIsSound(port', at', seen)
  BY <1>9 DEF CacheIsSound, CacheFits
<1>15. PhaseOfPort(port', at', proc', op)
  <2>1. PhaseOfPort(q, at, proc, open)
    BY <1>5 DEF Sound
  <2>2. q.sealed # None => Pinned(port') = {} /\ port'.upkeep = "none" /\ q.sealed = port'.writer
    BY <1>9, <1>10, <2>1 DEF PhaseOfPort
  <2> QED BY <1>6, <1>9, <1>10, <2>2 DEF PhaseOfPort
<1>16. ProcsInOrder(port', proc', barred)
  <2>1. \A n \in Owners : /\ proc'[n] = "none" <=> proc[n] = "none"
                          /\ Live(proc', n) => Live(proc, n)
    BY <1>1, <1>11 DEF Live
  <2>2. ProcsInOrder(q, proc, barred)
    BY <1>5 DEF Sound
  <2> QED BY <1>10, <2>1, <2>2, ProcsStay
<1>17. q.inFlight \subseteq Calls /\ \A c \in q.inFlight : q.lease[c] \in Owners
  BY <1>5 DEF Sound, Typed, PortType, CallStages, Stage
<1>18. WorkersAreOpen(port', at', answer', proc', op)
  <2>1. \A n \in op : proc'[n] \in {"serving", "faulted"}
    BY <1>2, <1>5, <1>11 DEF Sound, WorkersAreOpen, op
  <2>2. \A n \in Owners : proc'[n] = "serving" /\ n \notin op => port'.writer = n
    BY <1>5, <1>9, <1>11 DEF Sound, WorkersAreOpen, op
  <2>3. \A c \in port'.inFlight \cup Queued(port') : port'.lease[c] = port'.writer
    BY <1>5, <1>9, <1>10, <1>17 DEF Sound, WorkersAreOpen
  <2>4. ASSUME NEW c \in port'.inFlight
        PROVE  \/ proc'[port'.lease[c]] = "exited" /\ at'[c] # "queued" /\ answer'[c] # "waiting"
               \/ proc'[port'.lease[c]] \in {"serving", "faulted"} /\ port'.lease[c] \in op
    <3>1. /\ c \in q.inFlight /\ c \in Calls /\ c \notin Cut(o) /\ port'.lease[c] = q.lease[c]
          /\ q.lease[c] \in Owners /\ at'[c] = at[c] /\ answer'[c] = w[c]
      BY <1>7, <1>9, <1>11, <1>17
    <3>2. CASE q.lease[c] = o
      <4>1. at[c] # "queued" /\ c \in Lost(o)
        BY <1>4, <3>1, <3>2
      <4>2. w[c] # "waiting"
        BY <1>3, <3>1, <4>1 DEF w, FenceAnswers
      <4> QED BY <1>11, <3>1, <3>2, <4>1, <4>2
    <3>3. CASE q.lease[c] # o
      BY <1>5, <1>11, <3>1, <3>3 DEF Sound, WorkersAreOpen, op
    <3> QED BY <3>2, <3>3
  <2> QED BY <1>5, <2>1, <2>2, <2>3, <2>4 DEF Sound, WorkersAreOpen, op
<1>19. WritesAreAccounted(port', at', proc', failure)
  <2> SUFFICES ASSUME NEW c \in Writes
               PROVE  /\ at'[c] \in {"sent", "ran"} /\ c \notin port'.inFlight =>
                            /\ port'.phase = "fenced" /\ failure # None
                            /\ failure.unknown \/ failure.owner # port'.writer
                            /\ port'.writer # None /\ proc'[port'.writer] = "retired"
                      /\ c \in port'.inFlight /\ proc'[port'.lease[c]] \in {"faulted", "exited"} =>
                            /\ port'.phase = "fenced" /\ failure # None
                            /\ failure.owner = port'.lease[c] /\ failure.unknown
    BY DEF WritesAreAccounted
  <2>1. c \in Calls
    BY PortAssumption
  <2>2. ASSUME at'[c] \in {"sent", "ran"}, c \notin port'.inFlight
        PROVE  /\ port'.phase = "fenced" /\ failure # None
               /\ failure.unknown \/ failure.owner # port'.writer
               /\ port'.writer # None /\ proc'[port'.writer] = "retired"
    <3>1. at[c] \in {"sent", "ran"} /\ c \notin q.inFlight
      BY <1>9, <1>11, <2>1, <2>2
    <3>2. q.writer # None /\ proc[q.writer] = "retired" /\ q.writer \in Owners
      BY <1>5, <3>1 DEF Sound, WritesAreAccounted, Typed, PortType
    <3> QED BY <1>1, <1>5, <1>9, <1>11, <3>1, <3>2 DEF Sound, WritesAreAccounted
  <2>3. ASSUME c \in port'.inFlight, proc'[port'.lease[c]] \in {"faulted", "exited"}
        PROVE  /\ port'.phase = "fenced" /\ failure # None
               /\ failure.owner = port'.lease[c] /\ failure.unknown
    <3>1. c \in q.inFlight /\ port'.lease[c] = q.lease[c] /\ q.lease[c] \in Owners
      BY <1>9, <1>17, <2>1, <2>3
    <3>2. proc[q.lease[c]] \in {"faulted", "exited"}
      BY <1>1, <1>11, <2>3, <3>1
    <3>3. WritesAreAccounted(q, at, proc, failure)
      BY <1>5 DEF Sound
    <3>4. failure # None /\ failure.owner = q.lease[c] /\ failure.unknown
      BY <3>1, <3>2, <3>3 DEF WritesAreAccounted
    <3> QED BY <1>9, <3>1, <3>4
  <2> QED BY <2>2, <2>3
<1> QED
  BY <1>1, <1>12, <1>13, <1>14, <1>15, <1>16, <1>18, <1>19 DEF IInv, Sound

\* The native join settles what the process will never answer: a write
\* among it is an orphan, and the port stays fenced.
LEMMA RetireInv ==
    ASSUME IInv, NEW o \in Owners, Retire(o)
    PROVE  IInv'
<1>1. /\ proc[o] = "exited" /\ proc' = [proc EXCEPT ![o] = "retired"]
      /\ port' = [port EXCEPT !.inFlight = @ \ Lost(o),
                              !.lease = [c \in Calls |-> IF @[c] = o /\ c \in port.inFlight
                                                         THEN None ELSE @[c]]]
      /\ UNCHANGED <<answer, at, seen, open, failure, barred, gate, stranded>>
  BY DEF Retire
<1>2. /\ port \in PortType /\ port.inFlight \subseteq Calls
      /\ proc \in [Owners -> {"none", "ready", "activated", "serving", "faulted", "exited", "retired"}]
      /\ open \subseteq Owners /\ \A c \in Calls : Stage(port, at, answer, c)
      /\ \A c \in port.inFlight : port.lease[c] \in Owners /\ port.lease[c] = port.writer
  BY DEF IInv, Sound, Typed, CallStages, PortType, Stage, WorkersAreOpen
<1>3. \A c \in Calls : c \in Lost(o) <=> c \in port.inFlight /\ port.lease[c] = o
  BY <1>1, <1>2 DEF Lost, Cut, IInv, Sound, WorkersAreOpen
<1>4. /\ port' \in PortType /\ port'.phase = port.phase /\ port'.writer = port.writer
      /\ port'.queue = port.queue /\ port'.inFlight = port.inFlight \ Lost(o)
      /\ port'.acquiring = port.acquiring /\ port'.sealed = port.sealed
      /\ port'.upkeep = port.upkeep /\ port'.moving = port.moving
      /\ port'.count = port.count /\ port'.fresh = port.fresh
      /\ \A c \in Calls : port'.lease[c] = IF c \in Lost(o) THEN None ELSE port.lease[c]
  BY <1>1, <1>2, <1>3 DEF PortType
<1>5. Queued(port') = Queued(port) /\ Pinned(port') \subseteq Pinned(port)
  BY <1>4 DEF Queued, Pinned
<1>6. \A n \in Owners : proc'[n] = IF n = o THEN "retired" ELSE proc[n]
  BY <1>1, <1>2
<1>7. Typed(port', at, answer, seen, proc', open, failure, barred)
  BY <1>1, <1>4 DEF IInv, Sound, Typed
<1>8. CallStages(port', at, answer)
  <2> SUFFICES ASSUME NEW c \in Calls PROVE Stage(port', at, answer, c)
    BY DEF CallStages
  <2>1. Stage(port, at, answer, c)
    BY <1>2
  <2>2. c \in Lost(o) => at[c] # "queued"
    BY DEF Lost, Cut
  <2> QED BY <1>3, <1>4, <1>5, <2>1, <2>2 DEF Stage
<1>9. \A c \in Lost(o) : c \in Calls /\ port.writer = o /\ port.phase = "fenced" /\ port.fresh = {}
  <2> SUFFICES ASSUME NEW c \in Lost(o)
               PROVE  c \in Calls /\ port.writer = o /\ port.phase = "fenced" /\ port.fresh = {}
    OBVIOUS
  <2>1. c \in port.inFlight /\ port.lease[c] = o
    BY DEF Lost
  <2>2. port.writer = o /\ port.phase = "fenced"
    BY <1>1, <1>2, <2>1 DEF PortType, IInv, Sound, PhaseOfPort
  <2> QED BY <1>2, <2>1, <2>2 DEF IInv, Sound, PhaseOfPort
<1>10. CacheIsSound(port', at, seen)
  BY <1>4, <1>9 DEF IInv, Sound, CacheIsSound, CacheFits, ActiveWrites
<1>11. PhaseOfPort(port', at, proc', open)
  <2>1. port.writer \in Owners => (proc[port.writer] = "serving" => proc'[port.writer] = "serving")
    BY <1>1, <1>6
  <2>2. port.writer # None => port.writer \in Owners
    BY <1>2 DEF PortType
  <2>3. PhaseOfPort(port, at, proc, open)
    BY DEF IInv, Sound
  <2> QED BY <1>4, <1>5, <2>1, <2>2, <2>3 DEF PhaseOfPort
<1>12. ProcsInOrder(port', proc', barred)
  <2>1. \A n \in Owners : /\ proc'[n] = "none" <=> proc[n] = "none"
                          /\ Live(proc', n) => Live(proc, n)
    BY <1>1, <1>6 DEF Live
  <2>2. ProcsInOrder(port, proc, barred)
    BY DEF IInv, Sound
  <2> QED BY <1>5, <2>1, <2>2, ProcsStay
<1>13. \A c \in port'.inFlight : /\ c \in port.inFlight /\ port'.lease[c] = port.lease[c]
                                 /\ port.lease[c] \in Owners /\ port.lease[c] # o
  BY <1>2, <1>3, <1>4
<1>14. WorkersAreOpen(port', at, answer, proc', open)
  <2>1. \A c \in Queued(port') : c \in Queued(port) /\ port'.lease[c] = port.lease[c]
    BY <1>2, <1>3, <1>4, <1>5, QueuedFacts DEF Stage, PortType, Queued
  <2>2. \A n \in open : proc'[n] \in {"serving", "faulted"}
    BY <1>1, <1>2, <1>6 DEF IInv, Sound, WorkersAreOpen
  <2> QED BY <1>4, <1>6, <1>13, <2>1, <2>2 DEF IInv, Sound, WorkersAreOpen
<1>15. WritesAreAccounted(port', at, proc', failure)
  <2> SUFFICES ASSUME NEW c \in Writes
               PROVE  /\ at[c] \in {"sent", "ran"} /\ c \notin port'.inFlight =>
                            /\ port'.phase = "fenced" /\ failure # None
                            /\ failure.unknown \/ failure.owner # port'.writer
                            /\ port'.writer # None /\ proc'[port'.writer] = "retired"
                      /\ c \in port'.inFlight /\ proc'[port'.lease[c]] \in {"faulted", "exited"} =>
                            /\ port'.phase = "fenced" /\ failure # None
                            /\ failure.owner = port'.lease[c] /\ failure.unknown
    BY DEF WritesAreAccounted
  <2>1. CASE c \in Lost(o)
    <3>1. c \in port.inFlight /\ port.lease[c] = o
      BY <2>1 DEF Lost
    <3>2. port.phase = "fenced" /\ failure # None /\ failure.unknown
      BY <1>1, <3>1 DEF IInv, Sound, WritesAreAccounted
    <3>3. port.writer # None /\ proc'[port.writer] = "retired"
      BY <1>6, <1>9, <2>1, NoneFacts
    <3> QED BY <1>4, <2>1, <3>2, <3>3
  <2>2. CASE c \notin Lost(o)
    <3>1. ASSUME at[c] \in {"sent", "ran"}, c \notin port'.inFlight
          PROVE  /\ port'.phase = "fenced" /\ failure # None
                 /\ failure.unknown \/ failure.owner # port'.writer
                 /\ port'.writer # None /\ proc'[port'.writer] = "retired"
      <4>1. c \notin port.inFlight
        BY <1>4, <2>2, <3>1
      <4>2. port.writer \in Owners /\ proc[port.writer] = "retired"
        BY <1>2, <3>1, <4>1 DEF IInv, Sound, WritesAreAccounted, PortType
      <4> QED BY <1>1, <1>4, <1>6, <3>1, <4>1, <4>2 DEF IInv, Sound, WritesAreAccounted
    <3>2. ASSUME c \in port'.inFlight, proc'[port'.lease[c]] \in {"faulted", "exited"}
          PROVE  /\ port'.phase = "fenced" /\ failure # None
                 /\ failure.owner = port'.lease[c] /\ failure.unknown
      <4>1. /\ c \in port.inFlight /\ port'.lease[c] = port.lease[c]
            /\ proc[port.lease[c]] \in {"faulted", "exited"}
        BY <1>6, <1>13, <3>2
      <4> QED BY <1>4, <4>1 DEF IInv, Sound, WritesAreAccounted
    <3> QED BY <3>1, <3>2
  <2> QED BY <2>1, <2>2
<1> QED
  BY <1>1, <1>7, <1>8, <1>10, <1>11, <1>12, <1>14, <1>15 DEF IInv, Sound

\* The state of an incarnation that no Worker, writer or call is bound to.
LEMMA ProcStep ==
    ASSUME IInv, NEW o \in Owners,
           NEW state \in {"ready", "activated"}, proc[o] \in {"none", "ready"},
           proc' = [proc EXCEPT ![o] = state],
           NEW b \in BOOLEAN, barred' = b, ProcsInOrder(port, proc', b),
           UNCHANGED <<port, answer, at, seen, open, failure, gate, stranded>>
    PROVE  IInv'
<1>1. /\ port \in PortType /\ open \subseteq Owners /\ \A c \in Calls : Stage(port, at, answer, c)
      /\ proc \in [Owners -> {"none", "ready", "activated", "serving", "faulted", "exited", "retired"}]
  BY DEF IInv, Sound, Typed, CallStages
<1>2. \A n \in Owners : proc'[n] = IF n = o THEN state ELSE proc[n]
  BY <1>1
<1>3. port.writer # None => port.writer \in Owners
  BY <1>1 DEF PortType
<1>4. \A c \in port.inFlight : port.lease[c] \in Owners
  BY <1>1 DEF PortType, Stage
<1>5. Typed(port, at, answer, seen, proc', open, failure, barred')
  BY <1>1 DEF IInv, Sound, Typed
<1>6. PhaseOfPort(port, at, proc', open)
  BY <1>2, <1>3 DEF IInv, Sound, PhaseOfPort
<1>7. WorkersAreOpen(port, at, answer, proc', open)
  BY <1>1, <1>2, <1>4 DEF IInv, Sound, WorkersAreOpen
<1>8. WritesAreAccounted(port, at, proc', failure)
  <2> SUFFICES ASSUME NEW c \in Writes
               PROVE  /\ at[c] \in {"sent", "ran"} /\ c \notin port.inFlight =>
                            /\ port.phase = "fenced" /\ failure # None
                            /\ failure.unknown \/ failure.owner # port.writer
                            /\ port.writer # None /\ proc'[port.writer] = "retired"
                      /\ c \in port.inFlight /\ proc'[port.lease[c]] \in {"faulted", "exited"} =>
                            /\ port.phase = "fenced" /\ failure # None
                            /\ failure.owner = port.lease[c] /\ failure.unknown
    BY DEF WritesAreAccounted
  <2>1. port.writer # None /\ proc[port.writer] = "retired" => proc'[port.writer] = "retired"
    BY <1>2, <1>3
  <2>2. c \in port.inFlight /\ proc'[port.lease[c]] \in {"faulted", "exited"}
          => proc[port.lease[c]] \in {"faulted", "exited"}
    BY <1>2, <1>4
  <2> QED BY <2>1, <2>2 DEF IInv, Sound, WritesAreAccounted
<1> QED BY <1>5, <1>6, <1>7, <1>8 DEF IInv, Sound

\* Starting an incarnation keeps the order of the incarnations.
LEMMA FreshFacts ==
    ASSUME IInv, NEW o \in Owners, Fresh(o)
    PROVE  /\ proc[o] = "none"
           /\ \A n \in Owners : n > o => proc[n] = "none"
           /\ \A n \in Owners : n < o => proc[n] # "none"
BY NoneFacts DEF Fresh, IInv, Sound, ProcsInOrder, Owners

\* An incarnation starts when all before it are gone.
LEMMA LaunchInv ==
    ASSUME IInv, NEW o \in Owners, Launch(o)
    PROVE  IInv'
<1>1. /\ Fresh(o) /\ \A n \in Owners : n < o => proc[n] = "retired"
      /\ proc' = [proc EXCEPT ![o] = "ready"]
      /\ UNCHANGED <<port, answer, at, seen, open, failure, barred, gate, stranded>>
  BY DEF Launch, Gone, Owners
<1>2. /\ proc \in [Owners -> {"none", "ready", "activated", "serving", "faulted", "exited", "retired"}]
      /\ barred \in BOOLEAN
  BY DEF IInv, Sound, Typed
<1>3. \A n \in Owners : proc'[n] = IF n = o THEN "ready" ELSE proc[n]
  BY <1>1, <1>2
<1>4. /\ proc[o] = "none"
      /\ \A n \in Owners : n > o => proc[n] = "none"
      /\ \A n \in Owners : n < o => proc[n] # "none"
  BY <1>1, FreshFacts
<1>5. ProcsInOrder(port, proc', barred)
  <2>1. ASSUME NEW n \in Owners, NEW m \in Owners, n < m, proc'[n] = "none"
        PROVE  proc'[m] = "none"
    <3>1. n # o /\ proc[n] = "none"
      BY <1>3, <2>1
    <3>2. proc[m] = "none" /\ m # o
      BY <1>4, <2>1, <3>1 DEF IInv, Sound, ProcsInOrder
    <3> QED BY <1>3, <3>2
  <2>2. ASSUME NEW n \in Owners, Live(proc', n) PROVE n = o
    BY <1>1, <1>3, <1>4, <2>2, NoneFacts DEF Live
  <2>3. \A n, m \in Owners : n # m /\ Live(proc', n) /\ Live(proc', m) => barred /\ Pinned(port) = {}
    BY <2>2
  <2> QED BY <2>1, <2>3 DEF ProcsInOrder
<1> QED BY <1>1, <1>2, <1>4, <1>5, ProcStep

\* A reload starts a second incarnation behind a closed gate.
LEMMA ReloadInv ==
    ASSUME IInv, NEW o \in Owners, NEW p \in Owners, Reload(o, p)
    PROVE  IInv'
<1>1. /\ Fresh(o) /\ Pinned(port) = {} /\ barred' = TRUE
      /\ proc' = [proc EXCEPT ![o] = "ready"]
      /\ UNCHANGED <<port, answer, at, seen, open, failure, gate, stranded>>
  BY DEF Reload
<1>2. proc \in [Owners -> {"none", "ready", "activated", "serving", "faulted", "exited", "retired"}]
  BY DEF IInv, Sound, Typed
<1>3. \A n \in Owners : proc'[n] = IF n = o THEN "ready" ELSE proc[n]
  BY <1>1, <1>2
<1>4. /\ proc[o] = "none"
      /\ \A n \in Owners : n > o => proc[n] = "none"
      /\ \A n \in Owners : n < o => proc[n] # "none"
  BY <1>1, FreshFacts
<1>5. ProcsInOrder(port, proc', TRUE)
  <2>1. ASSUME NEW n \in Owners, NEW m \in Owners, n < m, proc'[n] = "none"
        PROVE  proc'[m] = "none"
    <3>1. n # o /\ proc[n] = "none"
      BY <1>3, <2>1
    <3>2. proc[m] = "none" /\ m # o
      BY <1>4, <2>1, <3>1 DEF IInv, Sound, ProcsInOrder
    <3> QED BY <1>3, <3>2
  <2> QED BY <1>1, <2>1 DEF ProcsInOrder
<1> QED BY <1>1, <1>4, <1>5, ProcStep

\* An incarnation is activated.
LEMMA ActivateInv ==
    ASSUME IInv, NEW o \in Owners, Activate(o)
    PROVE  IInv'
<1>1. /\ proc[o] = "ready" /\ proc' = [proc EXCEPT ![o] = "activated"]
      /\ UNCHANGED <<port, answer, at, seen, open, failure, barred, gate, stranded>>
  BY DEF Activate
<1>2. /\ proc \in [Owners -> {"none", "ready", "activated", "serving", "faulted", "exited", "retired"}]
      /\ barred \in BOOLEAN
  BY DEF IInv, Sound, Typed
<1>3. ProcsInOrder(port, proc', barred)
  <2>1. \A n \in Owners : proc'[n] = IF n = o THEN "activated" ELSE proc[n]
    BY <1>1, <1>2
  <2>2. \A n \in Owners : /\ proc'[n] = "none" <=> proc[n] = "none"
                          /\ Live(proc', n) => Live(proc, n)
    BY <1>1, <2>1 DEF Live
  <2>3. ProcsInOrder(port, proc, barred)
    BY DEF IInv, Sound
  <2> QED BY <2>2, <2>3, ProcsStay
<1> QED BY <1>1, <1>2, <1>3, ProcStep

\* One incarnation at a time opens its Worker.
LEMMA OpenWorkerInv ==
    ASSUME IInv, NEW o \in Owners, OpenWorker(o)
    PROVE  IInv'
<1>1. /\ proc[o] = "activated" /\ open = {} /\ open' = {o}
      /\ proc' = [proc EXCEPT ![o] = "serving"]
      /\ UNCHANGED <<port, answer, at, seen, failure, barred, gate, stranded>>
  BY DEF OpenWorker
<1>2. /\ port \in PortType /\ \A c \in Calls : Stage(port, at, answer, c)
      /\ proc \in [Owners -> {"none", "ready", "activated", "serving", "faulted", "exited", "retired"}]
  BY DEF IInv, Sound, Typed, CallStages
<1>3. \A n \in Owners : proc'[n] = IF n = o THEN "serving" ELSE proc[n]
  BY <1>1, <1>2
<1>4. port.writer # None => port.writer \in Owners
  BY <1>2 DEF PortType
<1>5. \A c \in port.inFlight : port.lease[c] \in Owners
  BY <1>2 DEF PortType, Stage
<1>6. Typed(port, at, answer, seen, proc', open', failure, barred)
  BY <1>1 DEF IInv, Sound, Typed
<1>7. PhaseOfPort(port, at, proc', open')
  BY <1>1, <1>3, <1>4 DEF IInv, Sound, PhaseOfPort
<1>8. ProcsInOrder(port, proc', barred)
  <2>1. \A n \in Owners : /\ proc'[n] = "none" <=> proc[n] = "none"
                          /\ Live(proc', n) => Live(proc, n)
    BY <1>1, <1>3 DEF Live
  <2>2. ProcsInOrder(port, proc, barred)
    BY DEF IInv, Sound
  <2> QED BY <2>1, <2>2, ProcsStay
<1>9. WorkersAreOpen(port, at, answer, proc', open')
  BY <1>1, <1>3, <1>5 DEF IInv, Sound, WorkersAreOpen
<1>10. WritesAreAccounted(port, at, proc', failure)
  <2> SUFFICES ASSUME NEW c \in Writes
               PROVE  /\ at[c] \in {"sent", "ran"} /\ c \notin port.inFlight =>
                            /\ port.phase = "fenced" /\ failure # None
                            /\ failure.unknown \/ failure.owner # port.writer
                            /\ port.writer # None /\ proc'[port.writer] = "retired"
                      /\ c \in port.inFlight /\ proc'[port.lease[c]] \in {"faulted", "exited"} =>
                            /\ port.phase = "fenced" /\ failure # None
                            /\ failure.owner = port.lease[c] /\ failure.unknown
    BY DEF WritesAreAccounted
  <2>1. port.writer # None /\ proc[port.writer] = "retired" => proc'[port.writer] = "retired"
    BY <1>1, <1>3, <1>4
  <2>2. c \in port.inFlight /\ proc'[port.lease[c]] \in {"faulted", "exited"}
          => proc[port.lease[c]] \in {"faulted", "exited"}
    BY <1>3, <1>5
  <2> QED BY <2>1, <2>2 DEF IInv, Sound, WritesAreAccounted
<1> QED BY <1>1, <1>6, <1>7, <1>8, <1>9, <1>10 DEF IInv, Sound

\* The gate opens when one incarnation is left.
LEMMA UnbarInv ==
    ASSUME IInv, Unbar
    PROVE  IInv'
<1>1. barred' = FALSE /\ UNCHANGED <<port, answer, at, seen, proc, open, failure, gate, stranded>>
  BY DEF Unbar
<1>2. PICK o \in Owners : \A p \in Owners \ {o} : proc[p] \in {"none", "retired"}
  BY DEF Unbar
<1>3. ProcsInOrder(port, proc, FALSE)
  BY <1>2 DEF IInv, Sound, ProcsInOrder, Live
<1>4. Typed(port, at, answer, seen, proc, open, failure, FALSE)
  BY DEF IInv, Sound, Typed
<1> QED BY <1>1, <1>3, <1>4 DEF IInv, Sound

-----------------------------------------------------------------------------
(* Handover, sleep and maintenance.                                         *)

\* A step that moves the port alone and none of its calls.
SameCalls(p, q) ==
    /\ q.queue = p.queue /\ q.inFlight = p.inFlight /\ q.acquiring = p.acquiring
    /\ q.lease = p.lease /\ q.count = p.count /\ q.fresh = p.fresh

\* Such a step leaves all that concerns calls as it was.
LEMMA SameCallsFacts ==
    ASSUME IInv, NEW q \in PortType, SameCalls(port, q)
    PROVE  /\ Queued(q) = Queued(port) /\ Pinned(q) = Pinned(port)
           /\ CallStages(q, at, answer)
           /\ CacheIsSound(q, at, seen)
           /\ ProcsInOrder(q, proc, barred)
           /\ Submit(q) => port' = q /\ at' = at
<1>1. Queued(q) = Queued(port) /\ Pinned(q) = Pinned(port)
  BY DEF Queued, Pinned, SameCalls
<1>2. CallStages(q, at, answer)
  BY <1>1 DEF IInv, Sound, CallStages, Stage, SameCalls
<1>3. CacheIsSound(q, at, seen)
  BY DEF IInv, Sound, CacheIsSound, CacheFits, ActiveWrites, SameCalls
<1>4. ProcsInOrder(q, proc, barred)
  BY <1>1 DEF IInv, Sound, ProcsInOrder
<1>5. Submit(q) => port' = q /\ at' = at
  <2>1. at \in [Calls -> {"none", "queued", "sent", "ran", "done"}]
    BY DEF IInv, Sound, Typed
  <2> QED BY <2>1, SubmitFacts DEF SameCalls
<1> QED BY <1>1, <1>2, <1>3, <1>4, <1>5

\* Such a step of a port that is not fenced, with the pump that may end it.
LEMMA ControlStep ==
    ASSUME IInv, NEW q \in PortType, SameCalls(port, q), q.writer = port.writer,
           port.phase # "fenced", PhaseOfPort(q, at, proc, open),
           Submit(q) \/ Submit(Pump(q)),
           gate' \in {"none", "holding", "vacuum"},
           UNCHANGED <<answer, seen, proc, open, failure, barred, stranded>>
    PROVE  IInv' /\ RanAt(at') = RanAt(at)
<1>1. /\ Queued(q) = Queued(port) /\ CallStages(q, at, answer) /\ CacheIsSound(q, at, seen)
      /\ ProcsInOrder(q, proc, barred)
  BY SameCallsFacts
<1>2. Typed(q, at, answer, seen, proc, open, failure, barred)
  BY DEF IInv, Sound, Typed, SameCalls
<1>3. WorkersAreOpen(q, at, answer, proc, open)
  BY <1>1 DEF IInv, Sound, WorkersAreOpen, SameCalls
<1>4. WritesAreAccounted(q, at, proc, failure)
  BY DEF IInv, Sound, WritesAreAccounted, SameCalls
<1>5. Sound(q, at, answer, seen, proc, open, failure, barred)
  BY <1>1, <1>2, <1>3, <1>4 DEF Sound
<1>6. CASE Submit(q)
  <2>1. port' = q /\ at' = at
    BY <1>6, SameCallsFacts
  <2> QED BY <1>5, <2>1 DEF IInv
<1>7. CASE Submit(Pump(q))
  <2>1. /\ Sound(Pump(q), AtAfter(q, Pump(q), at), answer, seen, proc, open, failure, barred)
        /\ RanAt(AtAfter(q, Pump(q), at)) = RanAt(at)
    BY <1>5, PumpKeeps
  <2>2. port' = Pump(q) /\ at' = AtAfter(q, Pump(q), at)
    BY <1>2, <1>7, SubmitFacts DEF Typed, AtAfter, SameCalls
  <2> QED BY <2>1, <2>2 DEF IInv
<1> QED BY <1>6, <1>7

\* The calls in flight hold leases.
LEMMA InFlightFacts ==
    ASSUME IInv
    PROVE  /\ port \in PortType
           /\ port.inFlight \subseteq Pinned(port) /\ Queued(port) \subseteq Pinned(port)
           /\ port.writer # None => port.writer \in Owners
           /\ PhaseOfPort(port, at, proc, open)
<1>1. port \in PortType /\ port.inFlight \subseteq Calls /\ \A c \in Calls : Stage(port, at, answer, c)
  BY DEF IInv, Sound, Typed, CallStages, PortType
<1>2. Queued(port) \subseteq Calls
  BY <1>1, QueuedFacts DEF PortType, Queued
<1>3. port.writer # None => port.writer \in Owners
  BY <1>1 DEF PortType
<1> QED BY <1>1, <1>2, <1>3 DEF Stage, Pinned, IInv, Sound

\* A handover starts with no call holding a lease.
LEMMA StartHandoverInv ==
    ASSUME IInv, NEW o \in Owners, StartHandover(o)
    PROVE  IInv' /\ RanAt(at') = RanAt(at)
<1> DEFINE q == BeginHandover(port)
<1>1. /\ proc[o] = "ready" /\ port.phase = "serving" /\ port.writer # o
      /\ CanHandover(port) /\ Submit(q)
      /\ UNCHANGED <<answer, seen, proc, open, failure, barred, gate, stranded>>
  BY DEF StartHandover, Replaces
<1>2. /\ port \in PortType /\ PhaseOfPort(port, at, proc, open)
      /\ port.writer # None => port.writer \in Owners
  BY InFlightFacts
<1>3. /\ q \in PortType /\ SameCalls(port, q) /\ q.phase = "handover" /\ q.moving = TRUE
      /\ q.writer = port.writer /\ q.sealed = port.sealed /\ q.upkeep = port.upkeep
  BY <1>2 DEF BeginHandover, SameCalls, PortType
<1> HIDE DEF q
<1>4. Pinned(port) = {}
  <2>1. port.writer \in Owners /\ Live(proc, port.writer) /\ Live(proc, o)
    BY <1>1, <1>2 DEF PhaseOfPort, Live
  <2> QED BY <1>1, <2>1 DEF IInv, Sound, ProcsInOrder
<1>5. port' = q /\ at' = at /\ Queued(q) = Queued(port) /\ Pinned(q) = Pinned(port)
  BY <1>1, <1>3, SameCallsFacts
<1>6. PhaseOfPort(q, at, proc, open)
  BY <1>1, <1>2, <1>3, <1>4, <1>5 DEF PhaseOfPort, CanHandover
<1>7. gate \in {"none", "holding", "vacuum"}
  BY DEF IInv
<1> QED BY <1>1, <1>3, <1>6, <1>7, ControlStep

\* The writer leaves a port that no call holds: it is retired, its Worker is
\* closed and the port waits for the next one.
LEMMA WriterLeaves ==
    ASSUME IInv, port.phase = "handover", Pinned(port) = {}, port.upkeep = "none",
           NEW q \in PortType, q.phase = "waiting", q.writer = None, q.sealed = None,
           q.upkeep = "none", q.moving = FALSE, q.queue = port.queue,
           q.inFlight = port.inFlight, q.acquiring = port.acquiring, q.lease = port.lease,
           \/ q.count = port.count /\ q.fresh = port.fresh
           \/ q.count \in {0} /\ q.count = RowsOf(at) /\ q.fresh = {},
           Submit(q), proc' = [proc EXCEPT ![port.writer] = "retired"],
           open' = open \ {port.writer},
           UNCHANGED <<answer, seen, failure, barred, gate, stranded>>
    PROVE  IInv' /\ RanAt(at') = RanAt(at)
<1>1. /\ port \in PortType /\ port.inFlight = {} /\ Queued(port) = {}
      /\ port.writer \in Owners /\ proc[port.writer] = "serving"
  BY InFlightFacts DEF PhaseOfPort
<1>2. /\ proc \in [Owners -> {"none", "ready", "activated", "serving", "faulted", "exited", "retired"}]
      /\ at \in [Calls -> {"none", "queued", "sent", "ran", "done"}]
  BY DEF IInv, Sound, Typed
<1>3. \A n \in Owners : proc'[n] = IF n = port.writer THEN "retired" ELSE proc[n]
  BY <1>2
<1>4. port' = q /\ at' = at
  BY <1>2, SubmitFacts
<1>5. Queued(q) = {} /\ Pinned(q) = {}
  BY <1>1 DEF Queued, Pinned
<1>6. Typed(q, at, answer, seen, proc', open', failure, barred)
  BY <1>2 DEF IInv, Sound, Typed
<1>7. CallStages(q, at, answer)
  BY <1>1, <1>5 DEF IInv, Sound, CallStages, Stage
<1>8. CacheIsSound(q, at, seen)
  BY <1>1 DEF IInv, Sound, CacheIsSound, CacheFits, ActiveWrites
<1>9. PhaseOfPort(q, at, proc', open')
  BY <1>1, <1>5 DEF PhaseOfPort
<1>10. ProcsInOrder(q, proc', barred)
  <2>1. \A n \in Owners : /\ proc'[n] = "none" <=> proc[n] = "none"
                          /\ Live(proc', n) => Live(proc, n)
    BY <1>1, <1>3 DEF Live
  <2>2. ProcsInOrder(port, proc, barred) /\ Pinned(q) \subseteq Pinned(port)
    BY <1>5 DEF IInv, Sound
  <2> QED BY <2>1, <2>2, ProcsStay
<1>11. WorkersAreOpen(q, at, answer, proc', open')
  <2>1. open \subseteq Owners /\ WorkersAreOpen(port, at, answer, proc, open)
    BY DEF IInv, Sound, Typed
  <2>2. \A n \in Owners : proc'[n] = "serving" => n \in open'
    BY <1>3, <2>1 DEF WorkersAreOpen
  <2>3. \A n \in open' : proc'[n] \in {"serving", "faulted"}
    BY <1>3, <2>1 DEF WorkersAreOpen
  <2> QED BY <1>1, <1>5, <2>1, <2>2, <2>3 DEF WorkersAreOpen
<1>12. WritesAreAccounted(q, at, proc', failure)
  BY <1>1 DEF IInv, Sound, WritesAreAccounted
<1> QED BY <1>4, <1>6, <1>7, <1>8, <1>9, <1>10, <1>11, <1>12 DEF IInv, Sound

\* A drained handover retires the writer.
LEMMA RetireWriterInv ==
    ASSUME IInv, RetireWriter
    PROVE  IInv' /\ RanAt(at') = RanAt(at)
<1> DEFINE q == EndHandover(port)
<1>1. /\ port.moving /\ Submit(q)
      /\ proc' = [proc EXCEPT ![port.writer] = "retired"] /\ open' = open \ {port.writer}
      /\ UNCHANGED <<answer, seen, failure, barred, gate, stranded>>
  BY DEF RetireWriter
<1>2. port \in PortType /\ PhaseOfPort(port, at, proc, open)
  BY InFlightFacts
<1>3. /\ q \in PortType /\ q.phase = "waiting" /\ q.writer = None /\ q.sealed = port.sealed
      /\ q.upkeep = port.upkeep /\ q.moving = FALSE /\ q.queue = port.queue
      /\ q.inFlight = port.inFlight /\ q.acquiring = port.acquiring /\ q.lease = port.lease
      /\ q.count = port.count /\ q.fresh = port.fresh
  BY <1>2 DEF EndHandover, PortType
<1> HIDE DEF q
<1>4. /\ port.phase = "handover" /\ Pinned(port) = {} /\ port.upkeep = "none"
      /\ port.sealed = None
  BY <1>1, <1>2 DEF PhaseOfPort, PortType
<1> QED BY <1>1, <1>3, <1>4, WriterLeaves

\* A checkpointed writer leaves, and the cache starts from its empty queue.
LEMMA SleepInv ==
    ASSUME IInv, Sleep
    PROVE  IInv' /\ RanAt(at') = RanAt(at)
<1> DEFINE q == Asleep(port)
<1>1. /\ port.sealed # None /\ port.phase = "handover" /\ port.sealed \notin open /\ Submit(q)
      /\ proc' = [proc EXCEPT ![port.sealed] = "retired"]
      /\ UNCHANGED <<answer, seen, open, failure, barred, gate, stranded>>
  BY DEF Sleep
<1>2. port \in PortType /\ PhaseOfPort(port, at, proc, open)
  BY InFlightFacts
<1>3. /\ q \in PortType /\ q.phase = "waiting" /\ q.writer = None /\ q.sealed = None
      /\ q.upkeep = port.upkeep /\ q.moving = port.moving /\ q.queue = port.queue
      /\ q.inFlight = port.inFlight /\ q.acquiring = port.acquiring /\ q.lease = port.lease
      /\ q.count = 0 /\ q.fresh = {}
  BY <1>2 DEF Asleep, Invalidate, PortType
<1> HIDE DEF q
<1>4. /\ Pinned(port) = {} /\ port.upkeep = "none" /\ port.moving = FALSE
      /\ port.sealed = port.writer /\ RowsOf(at) = 0
  BY <1>1, <1>2 DEF PhaseOfPort, PortType
<1>5. open' = open \ {port.writer}
  BY <1>1, <1>4
<1> QED BY <1>1, <1>3, <1>4, <1>5, WriterLeaves

\* Only a failure without an unconfirmed write is reconciled.
LEMMA InstallWriterInv ==
    ASSUME IInv, NEW o \in Owners, InstallWriter(o)
    PROVE  IInv' /\ RanAt(at') = RanAt(at)
<1>1. /\ proc[o] = "serving"
      /\ UNCHANGED <<answer, seen, proc, open, barred, gate, stranded>>
  BY DEF InstallWriter, Serving
<1>2. /\ port \in PortType /\ PhaseOfPort(port, at, proc, open)
      /\ at \in [Calls -> {"none", "queued", "sent", "ran", "done"}]
  BY InFlightFacts DEF IInv, Sound, Typed
<1>3. CASE CanInstall(port) /\ Submit(Install(port, o)) /\ UNCHANGED failure
  <2>1. port.phase = "waiting" /\ port.sealed = None
    BY <1>2, <1>3 DEF CanInstall, PhaseOfPort, PortType
  <2>2. /\ Sound(Install(port, o), at, answer, seen, proc, open, failure, barred)
        /\ Install(port, o).inFlight = port.inFlight
    BY <1>1, <2>1, InstallKeeps DEF IInv
  <2>3. port' = Install(port, o) /\ at' = at
    BY <1>2, <1>3, <2>2, SubmitFacts
  <2> QED BY <1>1, <1>3, <2>2, <2>3 DEF IInv
<1>4. CASE /\ failure # None /\ ~failure.unknown
           /\ proc[failure.owner] \in {"exited", "retired"}
           /\ CanReconcile(port, failure.owner) /\ CanInstall(Reconcile(port))
           /\ Submit(Install(Reconcile(port), o)) /\ failure' = None
  <2> DEFINE q == Reconcile(port)
  <2>1. /\ q \in PortType /\ q.phase = "waiting" /\ q.writer = None /\ q.queue = port.queue
        /\ q.inFlight = port.inFlight /\ q.acquiring = port.acquiring
        /\ q.lease = port.lease /\ q.sealed = port.sealed /\ q.upkeep = port.upkeep
        /\ q.moving = port.moving /\ q.count = port.count /\ q.fresh = port.fresh
    BY <1>2 DEF Reconcile, PortType
  <2>2. /\ port.upkeep = "none" /\ port.phase = "fenced" /\ port.inFlight = {}
        /\ port.writer = failure.owner
    BY <1>4 DEF CanReconcile
  <2>3. q.sealed = None /\ Submit(Install(q, o))
    BY <1>4 DEF CanInstall
  <2> HIDE DEF q
  <2>4. SameCalls(port, q)
    BY <2>1 DEF SameCalls
  <2>5. /\ Queued(q) = Queued(port) /\ Pinned(q) = Pinned(port)
        /\ CallStages(q, at, answer) /\ CacheIsSound(q, at, seen) /\ ProcsInOrder(q, proc, barred)
    BY <2>1, <2>4, SameCallsFacts
  <2>6. Typed(q, at, answer, seen, proc, open, None, barred)
    BY <2>1 DEF IInv, Sound, Typed
  <2>7. PhaseOfPort(q, at, proc, open)
    BY <1>2, <2>1, <2>2, <2>3, <2>5 DEF PhaseOfPort
  <2>8. WorkersAreOpen(q, at, answer, proc, open)
    <3>1. WorkersAreOpen(port, at, answer, proc, open) /\ Queued(port) = {}
      BY <1>2, <2>2 DEF IInv, Sound, PhaseOfPort
    <3>2. \A n \in Owners : proc[n] = "serving" => n \in open
      BY <1>4, <2>2, <3>1 DEF WorkersAreOpen
    <3> QED BY <2>1, <2>2, <2>5, <3>1, <3>2 DEF WorkersAreOpen
  <2>9. WritesAreAccounted(q, at, proc, None)
    <3>1. \A c \in Writes : ~(at[c] \in {"sent", "ran"})
      BY <1>4, <2>2 DEF IInv, Sound, WritesAreAccounted
    <3> QED BY <2>1, <2>2, <3>1 DEF WritesAreAccounted
  <2>10. Sound(q, at, answer, seen, proc, open, None, barred)
    BY <2>5, <2>6, <2>7, <2>8, <2>9 DEF Sound
  <2>11. /\ Sound(Install(q, o), at, answer, seen, proc, open, None, barred)
         /\ Install(q, o).inFlight = port.inFlight
    BY <1>1, <2>1, <2>3, <2>10, InstallKeeps
  <2>12. port' = Install(q, o) /\ at' = at
    BY <1>2, <2>3, <2>11, SubmitFacts
  <2> QED BY <1>1, <1>4, <2>11, <2>12 DEF IInv
<1> QED BY <1>3, <1>4 DEF InstallWriter

\* The idle boundary seals a port that nothing uses.
LEMMA BeginIdleInv ==
    ASSUME IInv, NEW o \in Owners, BeginIdle(o)
    PROVE  IInv' /\ RanAt(at') = RanAt(at)
<1> DEFINE q == Seal(port, o)
<1>1. /\ IsIdle(port, o) /\ Submit(q)
      /\ UNCHANGED <<answer, seen, proc, open, failure, barred, gate, stranded>>
  BY DEF BeginIdle
<1>2. port \in PortType /\ PhaseOfPort(port, at, proc, open) /\ gate \in {"none", "holding", "vacuum"}
  BY InFlightFacts DEF IInv
<1>3. /\ q \in PortType /\ SameCalls(port, q) /\ q.phase = "handover" /\ q.sealed = o
      /\ q.writer = port.writer /\ q.moving = port.moving /\ q.upkeep = port.upkeep
  BY <1>2 DEF Seal, SameCalls, PortType
<1> HIDE DEF q
<1>4. Queued(q) = Queued(port) /\ Pinned(q) = Pinned(port)
  BY <1>3, SameCallsFacts
<1>5. PhaseOfPort(q, at, proc, open)
  BY <1>1, <1>2, <1>3, <1>4 DEF PhaseOfPort, IsIdle
<1> QED BY <1>1, <1>2, <1>3, <1>5, ControlStep DEF IsIdle

\* A refused checkpoint unseals the port.
LEMMA HibernateBusyInv ==
    ASSUME IInv, HibernateBusy
    PROVE  IInv' /\ RanAt(at') = RanAt(at)
<1> DEFINE q == [port EXCEPT !.sealed = None, !.phase = "serving"]
<1>1. /\ port.sealed # None /\ port.phase = "handover" /\ port.sealed \in open
      /\ Submit(Pump(q))
      /\ UNCHANGED <<answer, seen, proc, open, failure, barred, gate, stranded>>
  BY DEF HibernateBusy, Unseal
<1>2. port \in PortType /\ PhaseOfPort(port, at, proc, open) /\ gate \in {"none", "holding", "vacuum"}
  BY InFlightFacts DEF IInv
<1>3. /\ q \in PortType /\ SameCalls(port, q) /\ q.phase = "serving" /\ q.sealed = None
      /\ q.writer = port.writer /\ q.moving = port.moving /\ q.upkeep = port.upkeep
  BY <1>2 DEF SameCalls, PortType
<1> HIDE DEF q
<1>4. Queued(q) = Queued(port) /\ Pinned(q) = Pinned(port)
  BY <1>3, SameCallsFacts
<1>5. PhaseOfPort(q, at, proc, open)
  BY <1>1, <1>2, <1>3, <1>4 DEF PhaseOfPort
<1> QED BY <1>1, <1>2, <1>3, <1>5, ControlStep

\* The steps of maintenance that move the port.
LEMMA UpkeepPortInv ==
    ASSUME IInv, BeginUpkeep \/ SendSuspend \/ Suspended \/ EndUpkeep
    PROVE  IInv' /\ RanAt(at') = RanAt(at)
<1>1. port \in PortType /\ PhaseOfPort(port, at, proc, open) /\ gate \in {"none", "holding", "vacuum"}
  BY InFlightFacts DEF IInv
<1>2. CASE BeginUpkeep
  <2> DEFINE q == BeginMaintenance(port)
  <2>1. /\ CanMaintain(port) /\ Submit(q) /\ gate' = "holding"
        /\ UNCHANGED <<answer, seen, proc, open, failure, barred, stranded>>
    BY <1>2 DEF BeginUpkeep
  <2>2. /\ q \in PortType /\ SameCalls(port, q) /\ q.phase = "handover" /\ q.upkeep = "draining"
        /\ q.writer = port.writer /\ q.moving = port.moving /\ q.sealed = port.sealed
    BY <1>1 DEF BeginMaintenance, SameCalls, PortType
  <2> HIDE DEF q
  <2>3. Queued(q) = Queued(port) /\ Pinned(q) = Pinned(port)
    BY <2>2, SameCallsFacts
  <2>4. PhaseOfPort(q, at, proc, open)
    BY <1>1, <2>1, <2>2, <2>3 DEF PhaseOfPort, CanMaintain
  <2> QED BY <2>1, <2>2, <2>4, ControlStep DEF CanMaintain
<1>3. CASE SendSuspend \/ Suspended \/ EndUpkeep
  <2>1. PICK from \in {"draining", "suspending", "suspended"},
             to \in {"suspending", "suspended", "resuming"} :
          /\ UpkeepStep(from, to)
          /\ from = "draining" => port.inFlight = {}
          /\ at' = at /\ gate' \in {gate, "vacuum"}
          /\ UNCHANGED <<answer, seen, proc, open, failure, barred, stranded>>
    BY <1>3 DEF SendSuspend, Suspended, EndUpkeep, Drained
  <2> DEFINE q == [port EXCEPT !.upkeep = to]
  <2>2. port.upkeep = from /\ port' = q
    BY <2>1 DEF UpkeepStep
  <2>3. /\ q \in PortType /\ SameCalls(port, q) /\ q.phase = port.phase /\ q.upkeep = to
        /\ q.writer = port.writer /\ q.moving = port.moving /\ q.sealed = port.sealed
        /\ q.inFlight = port.inFlight
    BY <1>1 DEF SameCalls, PortType
  <2> HIDE DEF q
  <2>4. Queued(q) = Queued(port) /\ Pinned(q) = Pinned(port)
    BY <2>3, SameCallsFacts
  <2>5. port.phase = "handover" /\ port.inFlight = {} /\ port.sealed = None /\ ~port.moving
    BY <1>1, <2>1, <2>2 DEF PhaseOfPort
  <2>6. PhaseOfPort(q, at, proc, open)
    BY <1>1, <2>3, <2>4, <2>5 DEF PhaseOfPort
  <2>7. Submit(q)
    <3>1. at = [c \in Calls |-> IF c \in Newly(q) THEN "queued" ELSE at[c]]
      BY <2>3 DEF Newly, IInv, Sound, Typed
    <3> QED BY <2>1, <2>2, <3>1 DEF Submit
  <2> QED BY <1>1, <2>1, <2>3, <2>5, <2>6, <2>7, ControlStep
<1> QED BY <1>2, <1>3

\* The end of maintenance lets the port serve again.
LEMMA ResumedInv ==
    ASSUME IInv, Resumed
    PROVE  IInv' /\ RanAt(at') = RanAt(at)
<1> DEFINE q == [port EXCEPT !.upkeep = "none", !.phase = "serving"]
<1>1. /\ port.upkeep = "resuming" /\ port.writer \in open /\ Submit(Pump(q)) /\ gate' = "none"
      /\ UNCHANGED <<answer, seen, proc, open, failure, barred, stranded>>
  BY DEF Resumed, EndMaintenance
<1>2. port \in PortType /\ PhaseOfPort(port, at, proc, open)
  BY InFlightFacts
<1>3. /\ q \in PortType /\ SameCalls(port, q) /\ q.phase = "serving" /\ q.upkeep = "none"
      /\ q.writer = port.writer /\ q.moving = port.moving /\ q.sealed = port.sealed
  BY <1>2 DEF SameCalls, PortType
<1> HIDE DEF q
<1>4. Queued(q) = Queued(port) /\ Pinned(q) = Pinned(port)
  BY <1>3, SameCallsFacts
<1>5. PhaseOfPort(q, at, proc, open) /\ port.phase = "handover"
  BY <1>1, <1>2, <1>3, <1>4 DEF PhaseOfPort
<1> QED BY <1>1, <1>3, <1>5, ControlStep

\* The Worker of the writer is closed or opened while nothing is in flight.
LEMMA WorkerStep ==
    ASSUME IInv, port.inFlight = {}, port.phase = "handover",
           open' = open \ {port.writer} \/ (open = {} /\ open' = {port.writer}),
           PhaseOfPort(port, at, proc, open'),
           UNCHANGED <<port, answer, at, seen, proc, failure, barred, gate, stranded>>
    PROVE  IInv'
<1>1. port.writer \in Owners /\ proc[port.writer] = "serving" /\ open \subseteq Owners
  BY InFlightFacts DEF PhaseOfPort, IInv, Sound, Typed
<1>2. Typed(port, at, answer, seen, proc, open', failure, barred)
  BY <1>1 DEF IInv, Sound, Typed
<1>3. WorkersAreOpen(port, at, answer, proc, open')
  BY <1>1 DEF IInv, Sound, WorkersAreOpen
<1> QED BY <1>2, <1>3 DEF IInv, Sound

\* Hibernation and maintenance close and open the Worker.
LEMMA WorkerInv ==
    ASSUME IInv, Hibernate \/ Suspend \/ Resume
    PROVE  IInv'
<1>1. /\ port \in PortType /\ PhaseOfPort(port, at, proc, open)
      /\ port.inFlight \subseteq Pinned(port)
  BY InFlightFacts
<1>2. CASE Hibernate
  <2>1. /\ port.sealed # None /\ port.phase = "handover" /\ RowsOf(at) = 0
        /\ open' = open \ {port.sealed}
        /\ UNCHANGED <<port, answer, at, seen, proc, failure, barred, gate, stranded>>
    BY <1>2 DEF Hibernate, Rows, ran, RowsOf, RanAt
  <2>2. port.sealed = port.writer /\ port.inFlight = {} /\ port.upkeep = "none"
    BY <1>1, <2>1 DEF PhaseOfPort
  <2>3. PhaseOfPort(port, at, proc, open')
    BY <1>1, <2>1, <2>2 DEF PhaseOfPort
  <2> QED BY <2>1, <2>2, <2>3, WorkerStep
<1>3. CASE Suspend \/ Resume
  <2>1. /\ port.upkeep \in {"suspending", "resuming"}
        /\ open' = open \ {port.writer} \/ (open = {} /\ open' = {port.writer})
        /\ UNCHANGED <<port, answer, at, seen, proc, failure, barred, gate, stranded>>
    BY <1>3 DEF Suspend, Resume
  <2>2. port.phase = "handover" /\ port.inFlight = {} /\ port.sealed = None
    BY <1>1, <2>1 DEF PhaseOfPort
  <2>3. PhaseOfPort(port, at, proc, open')
    BY <1>1, <2>1, <2>2 DEF PhaseOfPort
  <2> QED BY <2>1, <2>2, <2>3, WorkerStep
<1> QED BY <1>2, <1>3

\* A handover, an idle boundary or a maintenance that gives up.
LEMMA GiveUpInv ==
    ASSUME IInv, HandoverTimeout \/ IdleUnknown \/ UpkeepTimeout
    PROVE  IInv'
<1>1. FenceFor({}) /\ UNCHANGED <<seen, proc, open, failure, barred, gate, stranded>>
  BY DEF HandoverTimeout, IdleUnknown, UpkeepTimeout
<1> QED BY <1>1, FenceStep

-----------------------------------------------------------------------------
(* The invariant.                                                           *)

\* The initial state is sound.
LEMMA InitInv ==
    ASSUME Init
    PROVE  IInv
<1>1. /\ port = EmptyPort /\ << >> \in Seq(Calls)
      /\ answer = [c \in Calls |-> "new"] /\ at = [c \in Calls |-> "none"]
      /\ seen = [c \in Calls |-> 0] /\ proc = [o \in Owners |-> "none"]
      /\ open = {} /\ failure = None /\ barred = FALSE /\ gate = "none" /\ stranded = FALSE
  BY DEF Init
<1>2. /\ port \in PortType /\ port.phase = "waiting" /\ port.writer = None /\ port.queue = << >>
      /\ port.inFlight = {} /\ port.acquiring = {} /\ port.lease = [c \in Calls |-> None]
      /\ port.sealed = None /\ port.upkeep = "none" /\ port.moving = FALSE
      /\ port.count = None /\ port.fresh = {}
  BY <1>1 DEF EmptyPort, PortType
<1>3. Distinct(port.queue) /\ Queued(port) = {} /\ Pinned(port) = {}
  BY <1>2 DEF Distinct, Queued, Pinned, ToSet
<1>4. Typed(port, at, answer, seen, proc, open, failure, barred)
  BY <1>1, <1>2, <1>3 DEF Typed
<1>5. CallStages(port, at, answer)
  BY <1>1, <1>2, <1>3 DEF CallStages, Stage
<1>6. CacheIsSound(port, at, seen) /\ PhaseOfPort(port, at, proc, open)
  BY <1>2, <1>3 DEF CacheIsSound, CacheFits, PhaseOfPort
<1>7. ProcsInOrder(port, proc, barred)
  BY <1>1 DEF ProcsInOrder, Live
<1>8. WorkersAreOpen(port, at, answer, proc, open)
  BY <1>1, <1>2, <1>3 DEF WorkersAreOpen
<1>9. WritesAreAccounted(port, at, proc, failure)
  BY <1>1, <1>2, PortAssumption DEF WritesAreAccounted
<1> QED BY <1>1, <1>4, <1>5, <1>6, <1>7, <1>8, <1>9 DEF IInv, Sound

\* Every step keeps the invariant.
LEMMA StepInv ==
    ASSUME IInv, [Next]_vars
    PROVE  IInv'
<1>1. ASSUME NEW c \in Calls, CallStep(c) PROVE IInv'
  BY <1>1, CallInv, AcquireTimeoutInv, GateRefusesInv, GateGrantsInv, AdmitInv, QueueTimeoutInv,
     SentInv, NotSentInv, RunInv, ReplyArrivesInv, ResultLostInv DEF CallStep
<1>2. ASSUME NEW o \in Owners, OwnerStep(o) PROVE IInv'
  BY <1>2, FaultInv, ExitInv, RetireInv, LaunchInv, ReloadInv, StartHandoverInv, ActivateInv,
     OpenWorkerInv, InstallWriterInv, BeginIdleInv DEF OwnerStep
<1>3. CASE UpkeepNext
  BY <1>3, UpkeepPortInv, WorkerInv, ResumedInv, GiveUpInv DEF UpkeepNext
<1>4. CASE RetireWriter \/ HandoverTimeout \/ Unbar \/ HibernateBusy \/ Hibernate \/ Sleep \/ IdleUnknown
  BY <1>4, RetireWriterInv, GiveUpInv, UnbarInv, HibernateBusyInv, WorkerInv, SleepInv
<1>5. CASE UNCHANGED vars
  BY <1>5 DEF vars, IInv
<1> QED BY <1>1, <1>2, <1>3, <1>4, <1>5 DEF Next

\* The inductive invariant holds in every reachable state.
THEOREM Invariance == Spec => []IInv
<1>1. Init => IInv
  BY InitInv
<1>2. IInv /\ [Next]_vars => IInv'
  BY StepInv
<1> QED BY <1>1, <1>2, PTL DEF Spec

\* Every variable of the storage service, the record of the port included,
\* keeps its type.
THEOREM TypeCorrect == Spec => []TypeOK
<1>1. IInv => TypeOK
  BY DEF IInv, Sound, Typed, TypeOK
<1> QED BY <1>1, Invariance, PTL

\* stable-port.ts, cacheQueue: for any number of calls and incarnations, a
\* cached number of queued sessions is the one in the database.
THEOREM CacheCorrect == Spec => []CachedCountIsCurrent
<1>1. Rows = RowsOf(at)
  BY DEF Rows, ran, RowsOf, RanAt
<1>2. IInv => CachedCountIsCurrent
  BY <1>1 DEF IInv, Sound, CacheIsSound, CachedCountIsCurrent
<1> QED BY <1>2, Invariance, PTL

\* demandLeases: exactly the calls that can still touch the database, or
\* whose caller still waits, hold a lease on the storage process.
THEOREM PinsCorrect == Spec => []PinsCoverWork
<1>1. IInv => PinsCoverWork
  BY DEF IInv, Sound, CallStages, Stage, PinsCoverWork
<1> QED BY <1>1, Invariance, PTL

\* No suspension, hibernation or replacement closes the Worker under a call
\* that a living process was sent.
THEOREM WorkersCorrect == Spec => []WorkerOutlivesCalls
<1>1. IInv => WorkerOutlivesCalls
  BY DEF IInv, Sound, WorkersAreOpen, WorkerOutlivesCalls
<1> QED BY <1>1, Invariance, PTL

\* storageFailure: a write that its process died with, unconfirmed, fences
\* the port for good.
THEOREM FenceCorrect == Spec => []UnconfirmedWriteStaysFenced
<1>1. IInv => UnconfirmedWriteStaysFenced
  BY DEF IInv, Sound, WritesAreAccounted, UnconfirmedWriteStaysFenced
<1> QED BY <1>1, Invariance, PTL

-----------------------------------------------------------------------------
(* The promise to the callers.                                              *)

\* ran depends on at alone.
LEMMA RanFacts ==
    /\ ran = RanAt(at) /\ ran' = RanAt(at')
    /\ UNCHANGED at => UNCHANGED ran
BY DEF ran, RanAt

\* A step that runs nothing and refuses or loses calls is one of the promise.
LEMMA RefusingStep ==
    ASSUME IInv', RanAt(at') = RanAt(at), Refusing
    PROVE  Promise!Fail
<1>1. ran' = ran
  BY RanFacts
<1>2. ASSUME NEW c \in Calls, answer'[c] = "failed" PROVE c \notin ran
  <2>1. at'[c] = "none"
    BY <1>2 DEF IInv, Sound, CallStages, Stage
  <2> QED BY <1>1, <2>1 DEF ran
<1> QED BY <1>1, <1>2 DEF Refusing, Promise!Fail

\* A fence runs nothing and answers only callers that wait.
LEMMA FenceRefuses ==
    ASSUME IInv, NEW lost, FenceFor(lost)
    PROVE  RanAt(at') = RanAt(at) /\ Refusing
BY FenceForFacts DEF FenceAnswers, Refusing

\* The steps of a call are steps of the promise.
LEMMA CallPromise ==
    ASSUME IInv, IInv', NEW c \in Calls, CallStep(c)
    PROVE  [Promise!Next]_<<ran, answer>>
<1>1. /\ answer \in [Calls -> {"new", "waiting", "ok", "failed", "unknown"}]
      /\ at \in [Calls -> {"none", "queued", "sent", "ran", "done"}]
      /\ Stage(port, at, answer, c)
  BY DEF IInv, Sound, Typed, CallStages
<1>2. CASE Call(c)
  <2>1. answer[c] = "new" /\ UNCHANGED at
    BY <1>2 DEF Call
  <2>2. CASE answer' = [answer EXCEPT ![c] = "waiting"]
    BY <2>1, <2>2, RanFacts DEF Promise!Next, Promise!Call
  <2>3. CASE answer' = [answer EXCEPT ![c] = "failed"]
    <3>1. Refusing
      BY <1>1, <2>1, <2>3 DEF Refusing
    <3> QED BY <2>1, <3>1, RefusingStep DEF Promise!Next
  <2> QED BY <1>2, <2>2, <2>3 DEF Call, Answers
<1>3. CASE AcquireTimeout(c) \/ GateRefuses(c)
  <2>1. /\ UNCHANGED at /\ answer' = [answer EXCEPT ![c] = "failed"]
        /\ answer[c] \in {"waiting", "failed"}
    BY <1>1, <1>3 DEF AcquireTimeout, GateRefuses, Answers, Stage
  <2>2. Refusing
    BY <1>1, <2>1 DEF Refusing
  <2> QED BY <2>1, <2>2, RefusingStep DEF Promise!Next
<1>4. CASE \E o \in Owners : GateGrants(c, o)
  BY <1>4, GateGrantsInv, RefusingStep DEF Promise!Next
<1>5. CASE Admit(c) \/ QueueTimeout(c) \/ NotSent(c)
  <2>1. RanAt(at') = RanAt(at)
    BY <1>5, AdmitInv, QueueTimeoutInv, NotSentInv
  <2>2. answer' = answer \/ (answer[c] = "waiting" /\ answer' = [answer EXCEPT ![c] = "failed"])
    BY <1>1, <1>5 DEF Admit, QueueTimeout, NotSent, Answers, Stage
  <2>3. Refusing
    BY <1>1, <2>2 DEF Refusing
  <2> QED BY <2>1, <2>3, RefusingStep DEF Promise!Next
<1>6. CASE Sent(c)
  <2>1. RanAt(at') = RanAt(at) /\ answer' = answer
    BY <1>1, <1>6 DEF Sent, RanAt
  <2> QED BY <2>1, RanFacts
<1>7. CASE Run(c)
  <2>1. at[c] = "sent" /\ at' = [at EXCEPT ![c] = "ran"] /\ answer' = answer
    BY <1>7 DEF Run
  <2>2. c \notin ran /\ ran' = ran \cup {c}
    BY <1>1, <2>1 DEF ran
  <2> QED BY <1>1, <2>1, <2>2 DEF Stage, Promise!Next, Promise!Run
<1>8. CASE ReplyArrives(c)
  <2>1. at[c] = "ran" /\ RanAt(at') = RanAt(at)
    BY <1>8, ReplyArrivesInv DEF ReplyArrives
  <2>2. c \in ran /\ ran' = ran
    BY <2>1, RanFacts DEF ran
  <2>3. CASE answer[c] = "waiting" /\ answer' = [answer EXCEPT ![c] = "ok"]
    BY <2>2, <2>3 DEF Promise!Next, Promise!Succeed
  <2>4. CASE answer' = answer
    BY <2>2, <2>4
  <2> QED BY <1>8, <2>3, <2>4 DEF ReplyArrives, Answers
<1>9. CASE ResultLost(c)
  <2>1. RanAt(at') = RanAt(at) /\ Refusing
    BY <1>9, FenceRefuses DEF ResultLost
  <2> QED BY <2>1, RefusingStep DEF Promise!Next
<1> QED BY <1>2, <1>3, <1>4, <1>5, <1>6, <1>7, <1>8, <1>9 DEF CallStep

\* So are those of the incarnations.
LEMMA OwnerPromise ==
    ASSUME IInv, IInv', NEW o \in Owners, OwnerStep(o)
    PROVE  [Promise!Next]_<<ran, answer>>
<1>1. CASE Fault(o)
  <2>1. RanAt(at') = RanAt(at) /\ Refusing
    BY <1>1, FenceRefuses DEF Fault, FaultOf
  <2> QED BY <2>1, RefusingStep DEF Promise!Next
<1>2. CASE Exit(o)
  <2>1. RanAt(at') = RanAt(at)
    BY <1>2 DEF Exit, Cut, RanAt
  <2>2. Refusing
    BY <1>2 DEF Exit, Refusing
  <2> QED BY <2>1, <2>2, RefusingStep DEF Promise!Next
<1>3. CASE \/ Retire(o) \/ Launch(o) \/ Activate(o) \/ OpenWorker(o) \/ \E p \in Owners : Reload(o, p)
  BY <1>3, RanFacts DEF Retire, Launch, Activate, OpenWorker, Reload
<1>4. CASE StartHandover(o) \/ InstallWriter(o) \/ BeginIdle(o)
  <2>1. RanAt(at') = RanAt(at) /\ answer' = answer
    BY <1>4, StartHandoverInv, InstallWriterInv, BeginIdleInv DEF StartHandover, InstallWriter, BeginIdle
  <2> QED BY <2>1, RanFacts
<1> QED BY <1>1, <1>2, <1>3, <1>4 DEF OwnerStep

\* So are those of handover, sleep and maintenance.
LEMMA PortPromise ==
    ASSUME IInv, IInv',
           \/ UpkeepNext
           \/ RetireWriter \/ HandoverTimeout \/ Unbar
           \/ HibernateBusy \/ Hibernate \/ Sleep \/ IdleUnknown
    PROVE  [Promise!Next]_<<ran, answer>>
<1>1. CASE HandoverTimeout \/ IdleUnknown \/ UpkeepTimeout
  <2>1. RanAt(at') = RanAt(at) /\ Refusing
    BY <1>1, FenceRefuses DEF HandoverTimeout, IdleUnknown, UpkeepTimeout
  <2> QED BY <2>1, RefusingStep DEF Promise!Next
<1>2. CASE Unbar \/ Hibernate \/ SendSuspend \/ Suspend \/ Suspended \/ EndUpkeep \/ Resume
  BY <1>2, RanFacts DEF Unbar, Hibernate, SendSuspend, Suspend, Suspended, EndUpkeep, Resume
<1>3. CASE RetireWriter \/ HibernateBusy \/ Sleep \/ BeginUpkeep \/ Resumed
  <2>1. RanAt(at') = RanAt(at)
    BY <1>3, RetireWriterInv, HibernateBusyInv, SleepInv, UpkeepPortInv, ResumedInv
  <2>2. answer' = answer
    BY <1>3 DEF RetireWriter, HibernateBusy, Sleep, BeginUpkeep, Resumed
  <2> QED BY <2>1, <2>2, RanFacts
<1> QED BY <1>1, <1>2, <1>3 DEF UpkeepNext

\* callStoragePhysical, execute and fence: whatever is lost, retried, fenced
\* or replaced, a call runs at most once, "ok" follows its run and a refused
\* call never runs.
THEOREM PromiseKept == Spec => KeepsPromise
<1>1. Init => Promise!Init
  BY DEF Init, Promise!Init, ran
<1>2. IInv /\ IInv' /\ [Next]_vars => [Promise!Next]_<<ran, answer>>
  <2> SUFFICES ASSUME IInv, IInv', [Next]_vars PROVE [Promise!Next]_<<ran, answer>>
    OBVIOUS
  <2>1. CASE UNCHANGED vars
    BY <2>1, RanFacts DEF vars
  <2>2. CASE Next
    BY <2>2, CallPromise, OwnerPromise, PortPromise DEF Next
  <2> QED BY <2>1, <2>2
<1> QED BY <1>1, <1>2, Invariance, PTL DEF Spec, KeepsPromise, Promise!Spec
=============================================================================
