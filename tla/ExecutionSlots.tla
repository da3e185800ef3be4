--------------------------- MODULE ExecutionSlots ---------------------------
(***************************************************************************)
(* packages/runtime/src/execution-slots.ts: the Host's shared capacity.     *)
(* A slot is held by an execution, not by an activity: parallel model and   *)
(* tool activities of one execution share its slot, and an execution whose  *)
(* activities are all suspended gives the slot back and queues again (FIFO) *)
(* when one of them resumes.                                                *)
(*                                                                          *)
(* Every method is first an operator on the record of the object's fields,  *)
(* so that RuntimeCoordinator can call several of them in one handler; the  *)
(* actions of this module apply them one at a time.                         *)
(***************************************************************************)
EXTENDS Integers, FiniteSets, Sequences

CONSTANTS
    Executions,        \* execution identifiers
    Activities,        \* activity identifiers within one execution
    CapacityLimit,     \* EXECUTION_SLOT_LIMITS.executions, the bound of setCapacity
    MaxExecutions,     \* maxExecutions
    MaxActivities,     \* maxActivities
    MaxPerExecution    \* maxPerExecution

ASSUME SlotsAssumption ==
    /\ IsFiniteSet(Executions) /\ Executions # {}
    /\ IsFiniteSet(Activities) /\ Activities # {}
    /\ CapacityLimit \in Nat \ {0}
    /\ MaxExecutions \in 1..CapacityLimit
    /\ MaxActivities \in Nat \ {0}
    /\ MaxPerExecution \in Nat \ {0}

VARIABLE slots

\* An activity that is not in the `activities` maps is "none".
ActivityStates == {"none", "queued", "active", "suspended"}

SlotsType ==
    [capacity : 1..CapacityLimit,
     state    : [Executions -> [Activities -> ActivityStates]],
     active   : SUBSET Executions,
     queue    : Seq(Executions),
     ready    : SUBSET Executions]

EmptySlots(capacity) ==
    [capacity |-> capacity,
     state    |-> [e \in Executions |-> [a \in Activities |-> "none"]],
     active   |-> {},
     queue    |-> << >>,
     ready    |-> {}]

-----------------------------------------------------------------------------
(* The maps, read through the activity states.                              *)

Held(s, e)         == {a \in Activities : s.state[e][a] # "none"}
InState(s, e, st)  == \E a \in Activities : s.state[e][a] = st
KnownExecutions(s) == {e \in Executions : Held(s, e) # {}}
KnownActivities(s) == {p \in Executions \X Activities : s.state[p[1]][p[2]] # "none"}

\* q without its i-th element.
Without(q, i) == SubSeq(q, 1, i - 1) \o SubSeq(q, i + 1, Len(q))

Waits(q, e) == \E i \in DOMAIN q : q[i] = e

\* Map.delete on the insertion-ordered queue: at most one entry per execution.
Dequeue(q, e) ==
    IF Waits(q, e) THEN Without(q, CHOOSE i \in DOMAIN q : q[i] = e) ELSE q

\* Mutants of Enqueue: the last arrival first; a second call loses the place.
EnqueueAtHead(q, e) == IF Waits(q, e) THEN q ELSE << e >> \o q
EnqueueAgain(q, e)  == Append(Dequeue(q, e), e)

\* Map.set on the queue: an execution already waiting keeps its place.
Enqueue(q, e) == IF Waits(q, e) THEN q ELSE Append(q, e)

\* Bring the active set and the queue in line with e's activities.
Reconcile(s, e) ==
    IF InState(s, e, "active")
    THEN [s EXCEPT !.active = @ \cup {e}, !.queue = Dequeue(@, e)]
    ELSE [s EXCEPT !.active = @ \ {e},
                   !.ready  = @ \ {e},
                   !.queue  = IF InState(s, e, "queued") THEN Enqueue(@, e)
                                                         ELSE Dequeue(@, e)]

\* Mutant of Free: the loop condition active.size <= capacity.
FreePlusOne(s) == s.capacity - Cardinality(s.active) + 1

\* How many executions the while loop of pump admits.
Free(s) == s.capacity - Cardinality(s.active)
Admissible(s) ==
    IF Free(s) <= 0 THEN 0
    ELSE IF Free(s) < Len(s.queue) THEN Free(s) ELSE Len(s.queue)

\* Give the free slots to the head of the queue, in order.
Pump(s) ==
    LET n        == Admissible(s)
        admitted == {s.queue[i] : i \in 1..n}
    IN  [s EXCEPT !.state  = [e \in Executions |->
                                 IF e \in admitted
                                 THEN [a \in Activities |->
                                         IF @[e][a] = "queued" THEN "active" ELSE @[e][a]]
                                 ELSE @[e]],
                  !.active = @ \cup admitted,
                  !.ready  = @ \cup admitted,
                  !.queue  = SubSeq(@, n + 1, Len(@))]

\* Mutant of Settle: the freed slot is not handed on.
SettleWithoutPump(s, e) == Reconcile(s, e)

Settle(s, e) == Pump(Reconcile(s, e))

-----------------------------------------------------------------------------
(* The public methods.                                                      *)

HasRoom(s, e) ==
    /\ Cardinality(KnownActivities(s)) < MaxActivities
    /\ Cardinality(Held(s, e)) < MaxPerExecution
    /\ e \in KnownExecutions(s) \/ Cardinality(KnownExecutions(s)) < MaxExecutions

\* Mutant of Admitted: an activity of a running execution queues.
AdmittedQueued(s, e) == "queued"

Admitted(s, e) == IF e \in s.active THEN "active" ELSE "queued"

ReserveIn(s, e, a) ==
    IF s.state[e][a] # "none" THEN s
    ELSE Settle([s EXCEPT !.state[e][a] = Admitted(s, e)], e)

SuspendIn(s, e, a) ==
    IF s.state[e][a] = "suspended" THEN s
    ELSE Settle([s EXCEPT !.state[e][a] = "suspended"], e)

ResumeIn(s, e, a) ==
    IF s.state[e][a] # "suspended" THEN s
    ELSE Settle([s EXCEPT !.state[e][a] = Admitted(s, e)], e)

ReleaseIn(s, e, a) ==
    IF s.state[e][a] = "none" THEN s
    ELSE Settle([s EXCEPT !.state[e][a] = "none"], e)

ReleaseExecutionIn(s, e) ==
    IF e \notin KnownExecutions(s) THEN s
    ELSE Settle([s EXCEPT !.state[e] = [a \in Activities |-> "none"]], e)

SetCapacityIn(s, c) == Pump([s EXCEPT !.capacity = c])

\* The range check of limit().
WithinLimit(c) == c \in 1..CapacityLimit

-----------------------------------------------------------------------------
(* One action per method; a call that throws leaves the object unchanged.   *)

Init == \E c \in 1..CapacityLimit : slots = EmptySlots(c)

Reserve(e, a) ==
    /\ slots.state[e][a] = "none"
    /\ HasRoom(slots, e)
    /\ slots' = ReserveIn(slots, e, a)

Suspend(e, a) ==
    /\ slots.state[e][a] \in {"queued", "active"}
    /\ slots' = SuspendIn(slots, e, a)

Resume(e, a) ==
    /\ slots.state[e][a] = "suspended"
    /\ slots' = ResumeIn(slots, e, a)

Release(e, a) ==
    /\ slots.state[e][a] # "none"
    /\ slots' = ReleaseIn(slots, e, a)

ReleaseExecution(e) ==
    /\ e \in KnownExecutions(slots)
    /\ slots' = ReleaseExecutionIn(slots, e)

SetCapacity(c) ==
    /\ WithinLimit(c)
    /\ c # slots.capacity
    /\ slots' = SetCapacityIn(slots, c)

TakeReady ==
    /\ slots.ready # {}
    /\ slots' = [slots EXCEPT !.ready = {}]

Next ==
    \/ \E e \in Executions, a \in Activities :
          Reserve(e, a) \/ Suspend(e, a) \/ Resume(e, a) \/ Release(e, a)
    \/ \E e \in Executions : ReleaseExecution(e)
    \/ \E c \in 0..(CapacityLimit + 1) : SetCapacity(c)
    \/ TakeReady

Spec == Init /\ [][Next]_slots

\* The callers settle or suspend what they run: an execution that stays in
\* the active set is eventually released.
FairSpec == Spec /\ \A e \in Executions : WF_slots(e \in slots.active /\ ReleaseExecution(e))

-----------------------------------------------------------------------------
(* Properties.                                                              *)

\* Types of the object's fields.
TypeOK == slots \in SlotsType

\* An execution holds a slot exactly while one of its activities is active,
\* and then none of its activities is left behind as "queued".
ActiveIffRunning(s) ==
    \A e \in Executions :
        /\ e \in s.active <=> InState(s, e, "active")
        /\ e \in s.active => ~InState(s, e, "queued")

\* It waits, once, exactly while one of its activities is queued.
WaitsIffQueued(s) == \A e \in Executions : InState(s, e, "queued") <=> Waits(s.queue, e)

Injective(q) == \A i, j \in DOMAIN q : q[i] = q[j] => i = j

IsCoherent(s) ==
    /\ ActiveIffRunning(s)
    /\ WaitsIffQueued(s)
    /\ Injective(s.queue)
    /\ s.ready \subseteq s.active

\* The derived collections (active, queue, ready) never drift from the
\* activity states, whatever sequence of calls moves them.
Coherent == IsCoherent(slots)

IsWorkConserving(s) == s.queue # << >> => Cardinality(s.active) >= s.capacity

\* No call leaves a slot idle while an execution waits for one.
WorkConserving == IsWorkConserving(slots)

AdmitsWithinCapacity ==
    ~(slots'.active \subseteq slots.active) => Cardinality(slots'.active) <= slots'.capacity

\* A lowered capacity preempts nobody, so the active set may exceed it; but no
\* step admits an execution beyond the capacity then in force.
NoOverAdmission == [][AdmitsWithinCapacity]_slots

Ahead(s, e, f) ==
    \E i, j \in DOMAIN s.queue : i < j /\ s.queue[i] = e /\ s.queue[j] = f

\* Admission is first come, first served: of two waiting executions the later
\* one never gets a slot while the earlier one still waits, and no step swaps
\* their places.
FirstComeFirstServed ==
    [][\A e, f \in Executions :
          Ahead(slots, e, f) =>
             /\ f \in slots'.active => ~Waits(slots'.queue, e)
             /\ ~Ahead(slots', f, e)]_slots

\* A waiting execution is eventually admitted or withdrawn, however often
\* others suspend, resume and queue again.
NoStarvation == \A e \in Executions : Waits(slots.queue, e) ~> ~Waits(slots.queue, e)

=============================================================================
