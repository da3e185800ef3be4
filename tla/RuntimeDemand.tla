--------------------------- MODULE RuntimeDemand ---------------------------
(***************************************************************************)
(* Which processes are awake, and for whom: RuntimeDemandLifecycle         *)
(* (packages/runtime/src/runtime-demand-lifecycle.ts) under                *)
(* HostRuntimeDemand (apps/host/src/runtime-host-demand.ts), over the      *)
(* serialized units of RuntimeManager (packages/runtime/src/manager.ts)    *)
(* whose processes sleep, crash, recover and are replaced.                 *)
(*                                                                         *)
(* A call acquires the closure of its target in three rounds: a lease of   *)
(* the lifecycle per unit, one hold of the Manager on all of them, and a   *)
(* comparison of the two.  A sleeping unit is started by an attempt of its *)
(* own, which outlives the calls that asked for it.                        *)
(***************************************************************************)
EXTENDS Integers, FiniteSets, SequencesExt

CONSTANTS
    Units,      \* runtime units
    Closure,    \* [Units -> Seq(Units)]: dependencies first, the unit last
    Calls,      \* calls of acquire, each made once
    Target,     \* [Calls -> Units]
    Prepared,   \* units whose beforeIdle takes a checkpoint
    MaxOwners,  \* [Units -> Nat]: incarnations of a unit
    None

ASSUME DemandAssumption ==
    /\ IsFiniteSet(Units) /\ IsFiniteSet(Calls) /\ Units \cap Calls = {}
    /\ Closure \in [Units -> Seq(Units)]
    /\ \A u \in Units : Closure[u] # << >> /\ Last(Closure[u]) = u
    /\ \A u \in Units : \A i \in DOMAIN Closure[u] :
          ToSet(Closure[Closure[u][i]]) \subseteq {Closure[u][j] : j \in 1..i}
    /\ Target \in [Calls -> Units] /\ Prepared \subseteq Units
    /\ MaxOwners \in [Units -> Nat \ {0}] /\ None \notin Nat

Owners   == UNION {1..MaxOwners[u] : u \in Units}
Attempts == Calls \cup Units     \* holdDemand of a call, and of a unit's start

VARIABLES
    life,     \* the lifecycle's unit: phase, owner, fenced
    waiting,  \* calls waiting for a lease on the unit
    lease,    \* [Calls -> [Units -> owner of the lease, or None]]
    call,     \* how far each call is
    att,      \* the Manager's demand attempts
    mgr,      \* the Manager's unit: idle phase, default, reload, serial work
    proc,     \* the incarnations of each unit
    barred,   \* barriers of HostRuntimeDemand
    failed    \* failedStarts: the attempt of a start with an unknown outcome

vars == <<life, waiting, lease, call, att, mgr, proc, barred, failed>>

ClosureOf(a) == Closure[IF a \in Calls THEN Target[a] ELSE a]
Needs(a)     == ToSet(ClosureOf(a))

\* The first unit of the closure, in its order, that is in S.
First(a, S, u) ==
    \E i \in DOMAIN ClosureOf(a) : /\ ClosureOf(a)[i] = u /\ u \in S
                                  /\ \A j \in 1..(i - 1) : ClosureOf(a)[j] \notin S

Leases(u)    == {c \in Calls : lease[c][u] # None}
Pending      == {c \in Calls : call[c] \in {"leasing", "holding", "held"}}
Unresolved   == {c \in Calls : call[c] = "unresolved"}
Failed       == {u \in Units : failed[u].state # "none"}

\* demandHolds
Holds(u)      == {a \in Attempts : u \in Needs(a) /\ att[a].state # "none"}
                 \cup {v \in Units : u \in Needs(v) /\ failed[v].state # "none"}
Default(u)    == mgr[u].current
Serves(u)     == Default(u) # None /\ proc[u][Default(u)] = "serving"
Replacing(u)  == mgr[u].queued \/ mgr[u].candidate # None

\* A retirement receipt: the process was joined and its cleanup is over.
Proven(u, o)  == o # None /\ proc[u][o] \in {"slept", "retired", "collected"}
Fresh(u, o)   == o <= MaxOwners[u] /\ proc[u][o] = "none" /\ \A q \in 1..(o - 1) : proc[u][q] # "none"

-----------------------------------------------------------------------------
(* Calls that end: their leases and the hold of their attempt are released. *)

NoLease   == [u \in Units |-> None]
NoAttempt == [state |-> "none", got |-> NoLease, started |-> {}]

\* Mutant of Refused: a call that fails after its grant keeps its leases.
RefusedLeaky(S) ==
    /\ call' = [c \in Calls |-> IF c \in S THEN "ended" ELSE call[c]]
    /\ lease' = [c \in Calls |-> IF c \in S /\ att[c].state = "none" THEN NoLease ELSE lease[c]]

Refused(S) ==
    /\ call' = [c \in Calls |-> IF c \in S THEN "ended" ELSE call[c]]
    /\ lease' = [c \in Calls |-> IF c \in S THEN NoLease ELSE lease[c]]

\* rejectWaiters
RejectWaiters(u) == Refused(waiting[u]) /\ waiting' = [waiting EXCEPT ![u] = {}]

\* deliver
Deliver(u, o) ==
    /\ lease' = [c \in Calls |-> IF c \in waiting[u] THEN [lease[c] EXCEPT ![u] = o] ELSE lease[c]]
    /\ waiting' = [waiting EXCEPT ![u] = {}]
    /\ UNCHANGED call

\* The fence of unit u blocks it for whatever owner it has.
Blocked(l) == [l EXCEPT !.phase = "blocked", !.fenced = TRUE]

-----------------------------------------------------------------------------
(* HostRuntimeDemand.acquireInternal.                                       *)

Acquire(c) ==
    /\ call[c] = "new"
    /\ call' = [call EXCEPT ![c] = IF Needs(c) \cap barred = {} THEN "leasing" ELSE "ended"]
    /\ UNCHANGED <<life, waiting, lease, att, mgr, proc, barred, failed>>

Unleased(c) == {u \in Needs(c) : lease[c][u] = None}
Awaits(c)   == \E u \in Units : c \in waiting[u]

Begin == [NoAttempt EXCEPT !.state = "running"]

\* lifecycle.acquire for the next unit: a lease at once if it is awake, else
\* a place among the waiters; the first of them starts a sleeping unit.
RequestLease(c) ==
    /\ call[c] = "leasing" /\ ~Awaits(c)
    /\ \E u \in Units :
          /\ First(c, Unleased(c), u)
          /\ IF life[u].phase = "blocked"
             THEN Refused({c}) /\ UNCHANGED <<life, waiting, att>>
             ELSE IF life[u].phase = "awake"
             THEN /\ lease' = [lease EXCEPT ![c][u] = life[u].owner]
                  /\ UNCHANGED <<call, life, waiting, att>>
             ELSE /\ waiting' = [waiting EXCEPT ![u] = @ \cup {c}]
                  /\ IF life[u].phase = "sleeping"
                     THEN /\ life' = [life EXCEPT ![u].phase = "starting", ![u].fenced = FALSE]
                          /\ att' = [att EXCEPT ![u] = Begin]
                     ELSE UNCHANGED <<life, att>>
                  /\ UNCHANGED <<call, lease>>
    /\ UNCHANGED <<mgr, proc, barred, failed>>

\* The captured owner is still the one the lifecycle has.
Valid(c, u) == life[u].phase = "awake" /\ life[u].owner = lease[c][u]

\* All leases are there: recheck them and hold the closure in the Manager.
Hold(c) ==
    /\ call[c] = "leasing" /\ ~Awaits(c) /\ Unleased(c) = {}
    /\ IF \A u \in Needs(c) : Valid(c, u)
       THEN /\ call' = [call EXCEPT ![c] = "holding"]
            /\ att' = [att EXCEPT ![c] = Begin]
            /\ UNCHANGED lease
       ELSE Refused({c}) /\ UNCHANGED att
    /\ UNCHANGED <<life, waiting, mgr, proc, barred, failed>>

Mismatched(c) == {u \in Needs(c) : ~Valid(c, u) \/ lease[c][u] # att[c].got[u]}

\* Mutant of Unbarred: a fault during the hold goes unnoticed.
UnbarredIgnored(c) == TRUE

\* assertUnbarred
Unbarred(c) == Needs(c) \cap barred = {}

\* hold.ready resolved.  A mismatch fences the owner the lease was for, the
\* first one only, as the code throws there.
Grant(c) ==
    /\ call[c] = "holding" /\ att[c].state = "ready"
    /\ IF Unbarred(c) /\ Mismatched(c) = {}
       THEN call' = [call EXCEPT ![c] = "held"] /\ UNCHANGED <<lease, att, life>>
       ELSE /\ Refused({c})
            /\ att' = [att EXCEPT ![c] = NoAttempt]
            /\ life' = [u \in Units |->
                  IF Unbarred(c) /\ First(c, Mismatched(c), u) /\ life[u].owner = lease[c][u]
                  THEN Blocked(life[u]) ELSE life[u]]
    /\ UNCHANGED <<waiting, mgr, proc, barred, failed>>

\* hold.ready rejected: what was started is unknown.  The holds stay and
\* every leased owner is fenced.
Quarantine(c) ==
    /\ call[c] = "holding" /\ att[c].state = "failed"
    /\ LET hit == {u \in Needs(c) : life[u].owner = lease[c][u]}
           out == UNION {waiting[u] : u \in hit}
       IN  /\ life' = [u \in Units |-> IF u \in hit THEN Blocked(life[u]) ELSE life[u]]
           /\ waiting' = [u \in Units |-> IF u \in hit THEN {} ELSE waiting[u]]
           /\ call' = [d \in Calls |-> IF d = c THEN "unresolved"
                                       ELSE IF d \in out THEN "ended" ELSE call[d]]
           /\ lease' = [d \in Calls |-> IF d \in out THEN NoLease ELSE lease[d]]
    /\ UNCHANGED <<att, mgr, proc, barred, failed>>

Release(c) ==
    /\ call[c] = "held"
    /\ call' = [call EXCEPT ![c] = "ended"]
    /\ lease' = [lease EXCEPT ![c] = NoLease]
    /\ att' = [att EXCEPT ![c] = NoAttempt]
    /\ UNCHANGED <<life, waiting, mgr, proc, barred, failed>>

\* The caller's signal: a waiter leaves at once, the others when they check it
\* next; a start they asked for goes on.
Abort(c) ==
    /\ \/ call[c] = "leasing"
       \/ call[c] = "holding" /\ att[c].state = "ready" /\ Unbarred(c) /\ Mismatched(c) = {}
    /\ Refused({c})
    /\ waiting' = [u \in Units |-> waiting[u] \ {c}]
    /\ att' = [att EXCEPT ![c] = NoAttempt]
    /\ UNCHANGED <<life, mgr, proc, barred, failed>>

-----------------------------------------------------------------------------
(* RuntimeManager.holdDemand: each unit of the closure in turn, when its    *)
(* serialized work is over.                                                 *)

Unvisited(a) == {u \in Needs(a) : att[a].got[u] = None}

Turn(a, u) ==
    /\ att[a].state = "running" /\ First(a, Unvisited(a), u)
    /\ mgr[u].work = "none"

\* A serving default is adopted, a sleeping one is woken, anything else
\* fails the attempt.
Visit(a, u) ==
    /\ Turn(a, u)
    /\ IF mgr[u].idle # "unknown" /\ ~Replacing(u) /\ Serves(u)
       THEN att' = [att EXCEPT ![a].got[u] = Default(u),
                               ![a].state = IF Unvisited(a) = {u} THEN "ready" ELSE @]
       ELSE /\ ~(mgr[u].idle = "sleeping" /\ ~Replacing(u) /\ Default(u) = None)
            /\ att' = [att EXCEPT ![a].state = "failed"]
    /\ UNCHANGED <<life, waiting, lease, call, mgr, proc, barred, failed>>

Wake(a, u, o) ==
    /\ Turn(a, u) /\ Fresh(u, o)
    /\ mgr[u].idle = "sleeping" /\ ~Replacing(u) /\ Default(u) = None
    /\ mgr' = [mgr EXCEPT ![u].idle = "waking", ![u].work = "wake", ![u].waker = a]
    /\ proc' = [proc EXCEPT ![u][o] = "preparing"]
    /\ att' = [att EXCEPT ![a].started = @ \cup {<<u, o>>}]
    /\ UNCHANGED <<life, waiting, lease, call, barred, failed>>

Woken(u, o) == mgr[u].work = "wake" /\ proc[u][o] = "preparing"

\* process(): prepared, activated, serving.
WakeServes(u, o) ==
    /\ Woken(u, o)
    /\ LET a == mgr[u].waker
       IN  att' = [att EXCEPT ![a].got[u] = o,
                              ![a].state = IF Unvisited(a) = {u} THEN "ready" ELSE @]
    /\ mgr' = [mgr EXCEPT ![u].idle = "active", ![u].work = "none", ![u].waker = None, ![u].current = o]
    /\ proc' = [proc EXCEPT ![u][o] = "serving"]
    /\ UNCHANGED <<life, waiting, lease, call, barred, failed>>

\* The preparation fails and the candidate is disposed of, or the activation
\* fails: it is the default then, and recovers on its own.
WakeFails(u, o, activated) ==
    /\ Woken(u, o)
    /\ att' = [att EXCEPT ![mgr[u].waker].state = "failed"]
    /\ mgr' = [mgr EXCEPT ![u].idle = "unknown", ![u].work = "none", ![u].waker = None,
                          ![u].current = IF activated THEN o ELSE None]
    /\ proc' = [proc EXCEPT ![u][o] = IF activated THEN "faulted" ELSE "disposed"]
    /\ barred' = IF activated THEN barred \cup {u} ELSE barred
    /\ UNCHANGED <<life, waiting, lease, call, failed>>

\* reconcileDemandHold: every process the attempt started is proven gone.
CanRelease(a) ==
    /\ a.state = "failed"
    /\ \A s \in a.started : proc[s[1]][s[2]] = "disposed" \/ Proven(s[1], s[2])

ReconcileCall(c) ==
    /\ call[c] = "unresolved" /\ CanRelease(att[c])
    /\ Refused({c})
    /\ att' = [att EXCEPT ![c] = NoAttempt]
    /\ UNCHANGED <<life, waiting, mgr, proc, barred, failed>>

-----------------------------------------------------------------------------
(* The end of a start: wake() after ports.start.                            *)

\* A start dispatches its own unit last, when the dependencies are up: it is
\* the one whose outcome is unknown.
StartedOwner(u, a) == CHOOSE o \in Owners : <<u, o>> \in a.started

Starting(u) == life[u].phase = "starting"

StartEnds(u) ==
    /\ Starting(u) /\ att[u].state = "ready"
    /\ att' = [att EXCEPT ![u] = NoAttempt]
    /\ life' = [life EXCEPT ![u].owner = att[u].got[u],
                            ![u].phase = IF life[u].fenced THEN "blocked" ELSE "awake"]
    /\ IF life[u].fenced
       THEN RejectWaiters(u)
       ELSE Deliver(u, att[u].got[u])
    /\ UNCHANGED <<mgr, proc, barred, failed>>

\* Nothing was dispatched: the unit goes back to sleep.
StartNotDispatched(u) ==
    /\ Starting(u) /\ att[u].state = "failed" /\ att[u].started = {}
    /\ att' = [att EXCEPT ![u] = NoAttempt]
    /\ life' = [life EXCEPT ![u].phase = "sleeping"]
    /\ RejectWaiters(u)
    /\ UNCHANGED <<mgr, proc, barred, failed>>

\* failedStarts: the outcome is unknown, the hold of the attempt stays.
StartUnknown(u) ==
    /\ Starting(u) /\ att[u].state = "failed" /\ att[u].started # {}
    /\ failed' = [failed EXCEPT ![u] = att[u]]
    /\ att' = [att EXCEPT ![u] = NoAttempt]
    /\ life' = [life EXCEPT ![u] = [Blocked(@) EXCEPT !.owner = StartedOwner(u, att[u])]]
    /\ RejectWaiters(u)
    /\ UNCHANGED <<mgr, proc, barred>>

ReconcileStart(u) ==
    /\ u \in Failed /\ CanRelease(failed[u])
    /\ failed' = [failed EXCEPT ![u] = NoAttempt]
    /\ barred' = barred \cup {u}
    /\ UNCHANGED <<life, waiting, lease, call, att, mgr, proc>>

-----------------------------------------------------------------------------
(* reconcileRetirements, for one unit.                                      *)

Retirable(u) == life[u].phase # "sleeping" /\ Proven(u, life[u].owner)

\* Mutant of Reopens: any default will do.
ReopensAnyway(u, phase) == mgr[u].idle = "sleeping" \/ Serves(u)

Reopens(u, phase) ==
    /\ phase = "sleeping" /\ u \notin Failed /\ ~Replacing(u)
    /\ mgr[u].idle = "sleeping" \/ Serves(u)

Unbar(u) ==
    /\ Unresolved = {} /\ u \in barred
    /\ Leases(u) = {} /\ waiting[u] = {} /\ life[u].phase \notin {"starting", "quiescing"}
    /\ LET after == IF Retirable(u) THEN "sleeping" ELSE life[u].phase
       IN  /\ Retirable(u) \/ Reopens(u, after)
           /\ life' = IF Retirable(u) THEN [life EXCEPT ![u].phase = after, ![u].owner = None] ELSE life
           /\ barred' = IF Reopens(u, after) THEN barred \ {u} ELSE barred
    /\ UNCHANGED <<waiting, lease, call, att, mgr, proc, failed>>

-----------------------------------------------------------------------------
(* Idle retirement.                                                         *)

\* A unit is only put to sleep while MaxOwners leaves an incarnation to wake.
IdleTimer(u) ==
    /\ \E o \in Owners : Fresh(u, o)
    /\ life[u].phase = "awake" /\ Leases(u) = {} /\ waiting[u] = {}
    /\ life' = [life EXCEPT ![u].phase = "quiescing"]
    /\ UNCHANGED <<waiting, lease, call, att, mgr, proc, barred, failed>>

Quiescing(u) == life[u].phase = "quiescing"

\* performRetirement with "confirmed-physical-exit": calls that arrived
\* meanwhile start the unit again.
Slept(u) ==
    IF waiting[u] = {}
    THEN /\ life' = [life EXCEPT ![u] = [@ EXCEPT !.phase = "sleeping", !.owner = None]]
         /\ UNCHANGED att
    ELSE /\ life' = [life EXCEPT ![u] = [phase |-> "starting", owner |-> None, fenced |-> FALSE]]
         /\ att' = [att EXCEPT ![u] = Begin]

\* Mutant of Stuck: nobody tells the waiters.
StuckSilently(u) == life' = [life EXCEPT ![u] = Blocked(@)] /\ UNCHANGED <<waiting, call, lease>>

\* With "unknown", and with "busy" for a unit that was fenced meanwhile.
Stuck(u) ==
    /\ life' = [life EXCEPT ![u] = Blocked(@)]
    /\ RejectWaiters(u)

Busy(u) ==
    IF life[u].fenced THEN Stuck(u)
    ELSE /\ life' = [life EXCEPT ![u].phase = "awake"]
         /\ Deliver(u, life[u].owner)

\* retire() of the port finds the owner proven gone already.
RetireProven(u) ==
    /\ Quiescing(u) /\ mgr[u].work = "none" /\ Proven(u, life[u].owner)
    /\ Slept(u)
    /\ UNCHANGED <<waiting, lease, call, mgr, proc, barred, failed>>

Idle(u) ==
    /\ mgr[u].idle \in {"active", "retiring"} /\ ~Replacing(u)
    /\ Default(u) = life[u].owner /\ Serves(u)

\* Mutant of MayRetire: the holds are not rechecked.
MayRetireHeld(u) == Idle(u)

MayRetire(u) == Idle(u) /\ Holds(u) = {}

RetireEnter(u) ==
    /\ Quiescing(u) /\ mgr[u].work = "none" /\ ~Proven(u, life[u].owner)
    /\ IF MayRetire(u)
       THEN mgr' = [mgr EXCEPT ![u].work = "preflight"] /\ UNCHANGED <<life, waiting, lease, call>>
       ELSE Busy(u) /\ UNCHANGED mgr
    /\ UNCHANGED <<att, proc, barred, failed>>

\* After idleSnapshot: seal the unit and run beforeIdle.
RetireSeal(u) ==
    /\ mgr[u].work = "preflight"
    /\ IF MayRetire(u)
       THEN /\ mgr' = [mgr EXCEPT ![u].work = "sealed", ![u].idle = "retiring"]
            /\ UNCHANGED <<life, waiting, lease, call>>
       ELSE mgr' = [mgr EXCEPT ![u].work = "none"] /\ Busy(u)
    /\ UNCHANGED <<att, proc, barred, failed>>

\* The checks around the second idleSnapshot; a unit with a checkpoint can no
\* longer stay.
RetireLeave(u) ==
    /\ mgr[u].work = "sealed"
    /\ IF MayRetire(u)
       THEN /\ mgr' = [mgr EXCEPT ![u].work = "leaving"]
            /\ UNCHANGED <<life, waiting, lease, call>>
       ELSE IF u \in Prepared
       THEN mgr' = [mgr EXCEPT ![u].work = "none", ![u].idle = "unknown"] /\ Stuck(u)
       ELSE mgr' = [mgr EXCEPT ![u].work = "none", ![u].idle = "active"] /\ Busy(u)
    /\ UNCHANGED <<att, proc, barred, failed>>

\* The process disposed of itself, exited with 0 and was joined.
RetireExit(u) ==
    /\ mgr[u].work = "leaving" /\ Serves(u)
    /\ proc' = [proc EXCEPT ![u][Default(u)] = "slept"]
    /\ mgr' = [mgr EXCEPT ![u].work = "none", ![u].idle = "sleeping", ![u].current = None]
    /\ Slept(u)
    /\ UNCHANGED <<waiting, lease, call, barred, failed>>

\* A snapshot that is not idle, a checkpoint or a process that answers busy: the
\* unit stays.
RetireRefused(u) ==
    /\ mgr[u].work \in {"preflight", "sealed"} \/ (mgr[u].work = "leaving" /\ u \notin Prepared)
    /\ mgr' = [mgr EXCEPT ![u].work = "none", ![u].idle = "active"]
    /\ Busy(u)
    /\ UNCHANGED <<att, proc, barred, failed>>

\* A checkpoint that is not confirmed, or an exit that is not: the process is
\* left alone for good.
RetireUnknown(u) ==
    /\ mgr[u].work \in {"sealed", "leaving"}
    /\ mgr' = [mgr EXCEPT ![u].work = "none", ![u].idle = "unknown"]
    /\ proc' = IF mgr[u].work = "leaving" THEN [proc EXCEPT ![u][Default(u)] = "lost"] ELSE proc
    /\ Stuck(u)
    /\ UNCHANGED <<att, barred, failed>>

-----------------------------------------------------------------------------
(* Faults and recovery.                                                     *)

\* HostRuntimeDemand.fence
Fence(u, o) ==
    /\ barred' = barred \cup {u}
    /\ IF life[u].owner = o
       THEN life' = [life EXCEPT ![u] = Blocked(@)] /\ RejectWaiters(u)
       ELSE UNCHANGED <<life, waiting, lease, call>>

\* The last incarnation stays up: MaxOwners bounds the crashes.
Fault(u, o) ==
    /\ proc[u][o] \in {"serving", "draining"} /\ o < MaxOwners[u]
    /\ ~(mgr[u].work = "leaving" /\ o = Default(u))
    /\ proc' = [proc EXCEPT ![u][o] = "faulted"]
    /\ Fence(u, o)
    /\ UNCHANGED <<att, mgr, failed>>

\* ManagedProcess.recover, when the exit of the failed process is confirmed: the
\* same generation, a new incarnation.
Respawn(u, o) ==
    /\ Default(u) # None /\ proc[u][Default(u)] = "faulted" /\ Fresh(u, o)
    /\ proc' = [proc EXCEPT ![u][o] = "serving"]
    /\ mgr' = [mgr EXCEPT ![u].current = o]
    /\ UNCHANGED <<life, waiting, lease, call, att, barred, failed>>

\* consumeRetirementReceipt and collect: an incarnation that exited and has a
\* successor, a drained generation that nothing references any more.
Retire(u, o) ==
    /\ mgr[u].work = "none" /\ Default(u) # o /\ proc[u][o] \in {"faulted", "draining"}
    /\ proc' = [proc EXCEPT ![u][o] = IF @ = "draining" THEN "collected" ELSE "retired"]
    /\ UNCHANGED <<life, waiting, lease, call, att, mgr, barred, failed>>

-----------------------------------------------------------------------------
(* Hot reload of one unit: ProcessHostRuntime.reload, beginReload and       *)
(* Manager.reload in one turn.                                              *)

\* beginReload
Settled(u) ==
    /\ Pending = {} /\ Unresolved = {} /\ Failed = {}
    /\ \A v \in ToSet(Closure[u]) :
          /\ v \notin barred
          /\ Leases(v) = {} /\ waiting[v] = {} /\ life[v].phase \notin {"starting", "quiescing"}

\* The unit may already run the artifact: then nothing is queued, but the
\* barrier is committed all the same.
Reload(u, changed) ==
    /\ Settled(u)
    /\ mgr[u].idle # "unknown" /\ Holds(u) = {} /\ ~Replacing(u)
    /\ changed \/ Default(u) # None
    /\ mgr' = [mgr EXCEPT ![u].queued = changed]
    /\ IF life[u].owner # None THEN Fence(u, life[u].owner)
       ELSE barred' = barred \cup {u} /\ UNCHANGED <<life, waiting, lease, call>>
    /\ UNCHANGED <<att, proc, failed>>

Stage(u, o) ==
    /\ mgr[u].queued /\ mgr[u].work = "none" /\ mgr[u].idle # "unknown" /\ Fresh(u, o)
    /\ mgr' = [mgr EXCEPT ![u].queued = FALSE, ![u].candidate = o, ![u].work = "reload",
                          ![u].idle = IF @ = "sleeping" THEN "waking" ELSE @]
    /\ proc' = [proc EXCEPT ![u][o] = "preparing"]
    /\ UNCHANGED <<life, waiting, lease, call, att, barred, failed>>

\* The preparation fails or the reload is cancelled before the switch.
StageFails(u) ==
    /\ mgr[u].candidate # None
    /\ proc' = [proc EXCEPT ![u][mgr[u].candidate] = "disposed"]
    /\ mgr' = [mgr EXCEPT ![u].candidate = None, ![u].work = "none"]
    /\ UNCHANGED <<life, waiting, lease, call, att, barred, failed>>

CancelQueued(u) ==
    /\ mgr[u].queued
    /\ mgr' = [mgr EXCEPT ![u].queued = FALSE]
    /\ UNCHANGED <<life, waiting, lease, call, att, proc, barred, failed>>

\* The generation before is gone by then: its unit was closed until it was.
\* A candidate whose activation fails is the default all the same.
Switch(u, activated) ==
    /\ mgr[u].candidate # None
    /\ LET o == mgr[u].candidate
       IN  /\ proc' = [proc EXCEPT ![u] = [p \in Owners |->
                           IF p = o THEN IF activated THEN "serving" ELSE "faulted"
                           ELSE IF p = Default(u) /\ @[p] = "serving" THEN "draining" ELSE @[p]]]
           /\ mgr' = [mgr EXCEPT ![u].candidate = None, ![u].work = "none", ![u].current = o,
                                 ![u].idle = IF @ = "waking" /\ ~activated THEN @ ELSE "active"]
    /\ barred' = IF activated THEN barred ELSE barred \cup {u}
    /\ UNCHANGED <<life, waiting, lease, call, att, failed>>

-----------------------------------------------------------------------------
\* adoptServing: every unit serves and is awake.
Init ==
    /\ life = [u \in Units |-> [phase |-> "awake", owner |-> 1, fenced |-> FALSE]]
    /\ waiting = [u \in Units |-> {}]
    /\ lease = [c \in Calls |-> NoLease]
    /\ call = [c \in Calls |-> "new"]
    /\ att = [a \in Attempts |-> NoAttempt]
    /\ mgr = [u \in Units |-> [idle |-> "active", current |-> 1, queued |-> FALSE,
                               candidate |-> None, work |-> "none", waker |-> None]]
    /\ proc = [u \in Units |-> [o \in Owners |-> IF o = 1 THEN "serving" ELSE "none"]]
    /\ failed = [u \in Units |-> NoAttempt] /\ barred = {}

CallStep(c) ==
    \/ Acquire(c) \/ RequestLease(c) \/ Hold(c) \/ Grant(c) \/ Quarantine(c)
    \/ Release(c) \/ Abort(c) \/ ReconcileCall(c)

\* What holds the unit's serial queue.
WorkEnds(u) ==
    \/ RetireSeal(u) \/ RetireLeave(u) \/ RetireExit(u) \/ RetireRefused(u) \/ RetireUnknown(u)
    \/ StageFails(u) \/ \E activated \in BOOLEAN : Switch(u, activated)
    \/ \E o \in Owners : WakeServes(u, o) \/ \E activated \in BOOLEAN : WakeFails(u, o, activated)

UnitStep(u) ==
    \/ StartEnds(u) \/ StartNotDispatched(u) \/ StartUnknown(u) \/ ReconcileStart(u)
    \/ Unbar(u) \/ IdleTimer(u) \/ RetireProven(u) \/ RetireEnter(u) \/ WorkEnds(u)
    \/ CancelQueued(u)
    \/ \E changed \in BOOLEAN : Reload(u, changed)
    \/ \E a \in Attempts : Visit(a, u)

OwnerStep(u, o) ==
    \/ Fault(u, o) \/ Respawn(u, o) \/ Retire(u, o) \/ Stage(u, o)
    \/ \E a \in Attempts : Wake(a, u, o)

Next ==
    \/ \E c \in Calls : CallStep(c)
    \/ \E u \in Units : UnitStep(u)
    \/ \E u \in Units, o \in Owners : OwnerStep(u, o)

Spec == Init /\ [][Next]_vars

\* Awaited calls go on, and every start, retirement and reload has a deadline.
\* Nobody has to call, to release, to crash or to be idle.
FairSpec ==
    /\ Spec
    /\ \A c \in Calls : WF_vars(RequestLease(c) \/ Hold(c) \/ Grant(c) \/ Quarantine(c))
    /\ \A u \in Units :
          /\ WF_vars(\/ StartEnds(u) \/ StartNotDispatched(u) \/ StartUnknown(u)
                     \/ \E a \in Attempts : Visit(a, u) \/ \E o \in Owners : Wake(a, u, o))
          /\ WF_vars(WorkEnds(u) \/ RetireProven(u) \/ RetireEnter(u))

\* Once a second the Host reconciles what it has closed, and failed processes
\* exit, recover and are retired.
ReconcilingSpec ==
    /\ FairSpec
    /\ \A c \in Calls : WF_vars(Release(c) \/ ReconcileCall(c))
    /\ \A u \in Units :
          /\ WF_vars(Unbar(u)) /\ WF_vars(ReconcileStart(u))
          /\ WF_vars(CancelQueued(u) \/ \E o \in Owners : Stage(u, o))
          /\ WF_vars(\E o \in Owners : Respawn(u, o)) /\ WF_vars(\E o \in Owners : Retire(u, o))

-----------------------------------------------------------------------------
(* Properties.                                                              *)

LifeType ==
    [phase : {"sleeping", "starting"}, owner : {None}, fenced : BOOLEAN]
    \cup [phase : {"awake", "quiescing"}, owner : Owners, fenced : BOOLEAN]
    \cup [phase : {"blocked"}, owner : Owners, fenced : {TRUE}]

AttemptType == [state : {"none", "running", "ready", "failed"}, got : [Units -> Owners \cup {None}],
                started : SUBSET (Units \X Owners)]

ManagerType ==
    [idle : {"active", "retiring", "sleeping", "waking", "unknown"},
     current : Owners \cup {None}, queued : BOOLEAN,
     candidate : Owners \cup {None}, waker : Attempts \cup {None},
     work : {"none", "preflight", "sealed", "leaving", "wake", "reload"}]

ProcessStates ==
    {"none", "preparing", "serving", "draining", "faulted", "retired", "slept", "collected",
     "disposed", "lost"}

\* The state variables have their types; a unit has an owner exactly when its
\* process may be there.
TypeOK ==
    /\ life \in [Units -> LifeType]
    /\ waiting \in [Units -> SUBSET Calls]
    /\ lease \in [Calls -> [Units -> Owners \cup {None}]]
    /\ call \in [Calls -> {"new", "leasing", "holding", "held", "unresolved", "ended"}]
    /\ att \in [Attempts -> AttemptType] /\ failed \in [Units -> AttemptType]
    /\ mgr \in [Units -> ManagerType] /\ proc \in [Units -> [Owners -> ProcessStates]]
    /\ barred \subseteq Units

\* The incarnations an attempt has visited, a start's dependencies included, may
\* crash, but nobody puts them to sleep, replaces or collects them while the
\* attempt goes on or its call holds them (holdDemand against retireIdle and
\* reload).
HeldOwnersStayUp ==
    \A a \in Attempts, u \in Units :
        att[a].state \in {"running", "ready"} /\ att[a].got[u] # None =>
            proc[u][att[a].got[u]] \notin {"slept", "draining", "collected", "disposed"}

\* A call is answered only with the incarnations that serve as the default of
\* every unit of its closure at that moment, none of them behind a barrier
\* (the three rounds of acquireInternal).
GrantsAreCurrent ==
    [][\A c \in Calls : call'[c] = "held" /\ call[c] # "held" =>
          \A u \in Needs(c) : u \notin barred' /\ lease'[c][u] = mgr'[u].current
                             /\ proc'[u][lease'[c][u]] = "serving"]_vars

\* A unit is open to calls only with the incarnation the Manager serves: a
\* crash, a recovery or a replacement closes it until the old incarnation is
\* proven gone (fence, barriers, reconcileRetirements).
OpenUnitsServe ==
    \A u \in Units : life[u].phase = "awake" /\ u \notin barred =>
        life[u].owner = Default(u) /\ Serves(u)

\* Nothing keeps a process awake that nobody will let go of: a call that has
\* ended, however it ended, has no lease, no place among the waiters and no hold
\* in the Manager, and the hold of a start ends with it (releaseLeases,
\* rejectWaiters, failedStarts).
PinsHaveOwners ==
    /\ \A c \in Calls : call[c] = "ended" => lease[c] = NoLease /\ ~Awaits(c)
    /\ \A a \in Attempts : att[a].state # "none" =>
          IF a \in Calls THEN call[a] \in {"holding", "held", "unresolved"} ELSE Starting(a)

\* Every call is granted or refused.
CallsSettle ==
    \A c \in Calls : call[c] \in {"leasing", "holding"} ~> call[c] \notin {"leasing", "holding"}

\* docs/runtime-recovery.md:17 says that the failure of a preparation keeps the
\* version that serves: a unit whose candidate is gone, and that still serves
\* with the incarnation it had, is opened to calls again.
PreparationFailureKeepsService ==
    \A u \in Units :
        LET Kept == /\ \E o \in Owners : proc[u][o] = "disposed"
                    /\ Serves(u) /\ life[u].owner = Default(u) /\ ~Replacing(u)
        IN  (Kept /\ u \in barred) ~> ~(Kept /\ u \in barred)
=============================================================================
