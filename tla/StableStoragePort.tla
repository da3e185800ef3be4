------------------------- MODULE StableStoragePort -------------------------
(***************************************************************************)
(* packages/storage/src/stable-port.ts: the admission port in front of the *)
(* one process that writes the database.  Every method is an operator on   *)
(* the record of the port's fields; StorageService applies them from the   *)
(* handlers of the Host and of the callers.                                *)
(*                                                                         *)
(*   writer     the installed ManagedStorageWriter, by its incarnation     *)
(*   queue      admitted calls that wait for a slot or for the writer      *)
(*   inFlight   dispatched calls whose physical settlement is outstanding  *)
(*   acquiring  calls that wait for the demand gate (pendingDemand)        *)
(*   lease      the demand lease of a call (demandLeases)                  *)
(*   sealed     the owner of the idle boundary (idleBoundary)              *)
(*   upkeep     how far a maintenance operation is; "stuck" is one whose   *)
(*              fenced port keeps `maintenance` set                        *)
(*   moving     a handover is under way (transition)                       *)
(*   count      queuedSessionCount, the cached number of queued sessions   *)
(*   fresh      dispatched queue reads no version bump has overtaken       *)
(***************************************************************************)
EXTENDS Integers, FiniteSets, SequencesExt

CONSTANTS
    Calls,          \* storage calls, each made once
    Writes,         \* the calls of methods outside readOnlyMethods
    QueueReads,     \* the calls of queuedSessions
    MaxOwners,      \* incarnations of the storage process
    InFlightLimit,  \* RUNTIME_LIMITS.inFlight
    QueueLimit,     \* RUNTIME_LIMITS.queued, for admitted calls
    AcquireLimit,   \* RUNTIME_LIMITS.queued, for calls at the demand gate
    None

ASSUME PortAssumption ==
    /\ IsFiniteSet(Calls)
    /\ Writes \subseteq Calls /\ QueueReads \subseteq Calls \ Writes
    /\ MaxOwners \in Nat \ {0}
    /\ InFlightLimit \in Nat \ {0} /\ QueueLimit \in Nat /\ AcquireLimit \in Nat \ {0}
    /\ None \notin 0..MaxOwners

Owners == 1..MaxOwners

PortType ==
    [phase     : {"waiting", "serving", "handover", "fenced"},
     writer    : Owners \cup {None},
     queue     : Seq(Calls),
     inFlight  : SUBSET Calls,
     acquiring : SUBSET Calls,
     lease     : [Calls -> Owners \cup {None}],
     sealed    : Owners \cup {None},
     upkeep    : {"none", "draining", "suspending", "suspended", "resuming", "stuck"},
     moving    : BOOLEAN,
     count     : {0, 1, None},
     fresh     : SUBSET Calls]

EmptyPort ==
    [phase |-> "waiting", writer |-> None, queue |-> << >>, inFlight |-> {},
     acquiring |-> {}, lease |-> [c \in Calls |-> None], sealed |-> None,
     upkeep |-> "none", moving |-> FALSE, count |-> None, fresh |-> {}]

ActiveWrites(p) == p.inFlight \cap Writes
Queued(p)       == ToSet(p.queue)
Pinned(p)       == {c \in Calls : p.lease[c] # None}

\* queueVersion++ and queuedSessionCount = null: no read dispatched before
\* this point may fill the cache.
Invalidate(p) == [p EXCEPT !.count = None, !.fresh = {}]

-----------------------------------------------------------------------------
(* Dispatch.                                                                *)

\* Mutant of Dispatch: a queue read that overlaps a write may fill the cache.
DispatchEager(p, calls) ==
    LET q == [p EXCEPT !.inFlight = @ \cup calls]
    IN  IF calls \cap Writes # {} THEN Invalidate(q)
        ELSE [q EXCEPT !.fresh = @ \cup (calls \cap QueueReads)]

\* execute, of the calls that leave the queue together: a write invalidates
\* before it is sent, a queue read may fill the cache only if no write is in
\* flight.  A write among them overtakes the reads before it and is in flight
\* for those after it, so their order does not matter.
Dispatch(p, calls) ==
    LET q == [p EXCEPT !.inFlight = @ \cup calls]
    IN  IF calls \cap Writes # {} THEN Invalidate(q)
        ELSE IF ActiveWrites(q) = {} THEN [q EXCEPT !.fresh = @ \cup (calls \cap QueueReads)]
        ELSE q

\* How many calls the loop of pump sends.
Pumpable(p) ==
    LET free == InFlightLimit - Cardinality(p.inFlight)
    IN  IF p.phase # "serving" \/ p.writer = None \/ free <= 0 THEN 0
        ELSE IF Len(p.queue) < free THEN Len(p.queue) ELSE free

\* While it serves, the port dispatches the head of the queue.
Pump(p) ==
    LET n == Pumpable(p)
    IN  Dispatch([p EXCEPT !.queue = SubSeq(@, n + 1, Len(@))], ToSet(SubSeq(p.queue, 1, n)))

Full(p) ==
    /\ p.phase # "serving" \/ Cardinality(p.inFlight) >= InFlightLimit
    /\ Len(p.queue) >= QueueLimit

Release(p, c) == [p EXCEPT !.lease[c] = None]

\* queue.splice at the place of the call.
Dequeue(q, c) == RemoveAt(q, CHOOSE i \in DOMAIN q : q[i] = c)

\* Mutant of Withdraw: the timer drops the call but not its lease.
WithdrawPinned(p, c) == [p EXCEPT !.queue = Dequeue(@, c)]

\* The timer of a waiting call.
Withdraw(p, c) == Release([p EXCEPT !.queue = Dequeue(@, c)], c)

\* cacheQueue, and the `finally` of execute: the reply of a queue read whose
\* version is still current is cached; then the slot and the lease are free.
Settled(p, c, answer) ==
    LET cached == IF c \in p.fresh /\ ActiveWrites(p) = {} /\ p.phase = "serving"
                  THEN [p EXCEPT !.count = answer] ELSE p
    IN  Pump(Release([cached EXCEPT !.inFlight = @ \ {c}, !.fresh = @ \ {c}], c))

-----------------------------------------------------------------------------
(* Ownership.                                                               *)

\* The waiting calls are rejected and their leases released.  A handover or
\* maintenance under way finds the port fenced and gives up; only the
\* handover clears its field.
Fence(p) ==
    [Invalidate(p) EXCEPT
        !.phase = "fenced", !.queue = << >>, !.moving = FALSE,
        !.lease = [c \in Calls |-> IF c \in Queued(p) THEN None ELSE @[c]],
        !.upkeep = IF @ = "none" THEN "none" ELSE "stuck"]

CanInstall(p) ==
    p.phase # "fenced" /\ p.writer = None /\ p.inFlight = {} /\ p.sealed = None

Install(p, o) == Pump([Invalidate(p) EXCEPT !.writer = o, !.phase = "serving"])

\* reconcileExited
CanReconcile(p, o) ==
    p.upkeep = "none" /\ p.phase = "fenced" /\ p.inFlight = {} /\ p.writer = o

Reconcile(p) == [p EXCEPT !.writer = None, !.phase = "waiting"]

\* retireWriter: admission stops at once, the writer is retired when the
\* calls in flight have drained.
CanHandover(p)   == p.upkeep = "none" /\ p.sealed = None /\ ~p.moving /\ p.phase # "fenced"
BeginHandover(p) == [p EXCEPT !.phase = "handover", !.moving = TRUE]
EndHandover(p)   == [p EXCEPT !.phase = "waiting", !.writer = None, !.moving = FALSE]

CanMaintain(p) ==
    p.upkeep = "none" /\ ~p.moving /\ p.sealed = None /\ p.phase = "serving" /\ p.writer # None

BeginMaintenance(p) == [p EXCEPT !.upkeep = "draining", !.phase = "handover"]
EndMaintenance(p)   == Pump([p EXCEPT !.upkeep = "none", !.phase = "serving"])

\* beforeIdle: nothing may be admitted, acquired, leased or in flight.
IsIdle(p, o) ==
    /\ p.phase = "serving" /\ p.writer = o /\ p.upkeep = "none" /\ ~p.moving /\ p.sealed = None
    /\ p.queue = << >> /\ p.inFlight = {} /\ p.acquiring = {} /\ Pinned(p) = {}

Seal(p, o) == [p EXCEPT !.sealed = o, !.phase = "handover"]
Unseal(p)  == Pump([p EXCEPT !.sealed = None, !.phase = "serving"])

\* afterIdle, confirmed: the checkpoint verified that nothing is queued.
Asleep(p) ==
    [Invalidate(p) EXCEPT !.writer = None, !.sealed = None, !.phase = "waiting", !.count = 0]
=============================================================================
