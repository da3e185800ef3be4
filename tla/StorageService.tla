--------------------------- MODULE StorageService ---------------------------
(***************************************************************************)
(* The storage port with everything that moves it: callers, the demand     *)
(* gate of the Host (acquireStorageDemand, installStorage, fault), the     *)
(* incarnations of the storage process, hot reload, idle retirement and    *)
(* the maintenance of the chat database                                    *)
(* (apps/host/src/process-host-runtime.ts, runtime-host-demand.ts,         *)
(* runtime-maintenance-relay.ts, runtime-storage-process.ts).              *)
(*                                                                         *)
(* A write flips whether the one modelled session is queued, so that a     *)
(* stale cached count shows.                                               *)
(***************************************************************************)
EXTENDS StableStoragePort

VARIABLES
    port,      \* the port
    answer,    \* what each caller got: new, waiting, ok, failed, unknown
    at,        \* a dispatched call: queued in the IPC peer, sent, ran, done
    seen,      \* what a queue read saw when it ran
    proc,      \* the incarnations of the storage process
    open,      \* those with an open storage Worker
    failure,   \* storageFailure: the faulted owner, and whether writes were in flight
    barred,    \* the demand gate refuses `storage` (barriers of HostRuntimeDemand)
    gate,      \* the maintenance relay's writer: none, holding, vacuum
    stranded   \* a demand hold was kept for reconciliation (storageUnknownDemands)

ASSUME NoneAssumption == None \notin [owner : Owners, unknown : BOOLEAN]

vars == <<port, answer, at, seen, proc, open, failure, barred, gate, stranded>>

ran == {c \in Calls : at[c] \in {"ran", "done"}}

\* The queued sessions of the database.
Rows == Cardinality(ran \cap Writes) % 2

-----------------------------------------------------------------------------
(* One port operation: what it dispatches is queued in the IPC peer, what  *)
(* it rejects from its queue has failed.                                   *)

Newly(p) == p.inFlight \ port.inFlight

Submit(p) ==
    /\ port' = p
    /\ at' = [c \in Calls |-> IF c \in Newly(p) THEN "queued" ELSE at[c]]

\* A fence on behalf of the calls `lost`, whose results are unknown.
FenceFor(lost) ==
    /\ Submit(Fence(port))
    /\ answer' = [c \in Calls |-> IF answer[c] # "waiting" THEN answer[c]
                                  ELSE IF c \in Queued(port) THEN "failed"
                                  ELSE IF c \in lost THEN "unknown"
                                  ELSE answer[c]]

Answers(c, value) == answer' = [answer EXCEPT ![c] = value]

-----------------------------------------------------------------------------
(* Callers and the demand gate.                                             *)

\* acquireDemand: a fenced port and a full gate refuse at once.
Call(c) ==
    /\ answer[c] = "new"
    /\ IF port.phase = "fenced" \/ Cardinality(port.acquiring) >= AcquireLimit
       THEN Answers(c, "failed") /\ UNCHANGED port
       ELSE Answers(c, "waiting") /\ port' = [port EXCEPT !.acquiring = @ \cup {c}]
    /\ UNCHANGED <<at, seen, proc, open, failure, barred, gate, stranded>>

\* The admission deadline; the gate may still answer later.
AcquireTimeout(c) ==
    /\ c \in port.acquiring /\ answer[c] = "waiting"
    /\ Answers(c, "failed")
    /\ UNCHANGED <<port, at, seen, proc, open, failure, barred, gate, stranded>>

\* The default owner as the Manager sees it.
Serving(o) == proc[o] = "serving"

\* A barrier, or the signal of the acquire while nothing serves.
GateRefuses(c) ==
    /\ c \in port.acquiring
    /\ barred \/ port.sealed # None \/ ~\E o \in Owners : Serving(o)
    /\ port' = [port EXCEPT !.acquiring = @ \ {c}]
    /\ Answers(c, "failed")
    /\ UNCHANGED <<at, seen, proc, open, failure, barred, gate, stranded>>

\* installStorage when nothing has failed.
Repaired(p, o) ==
    IF p.phase = "waiting" /\ p.writer = None /\ failure = None /\ CanInstall(p)
    THEN Install(p, o) ELSE p

Admissible(p, o) == p.phase = "serving" /\ p.writer = o /\ p.sealed = None

\* acquireStorageDemand: the hold on o is granted; the Host completes the
\* installation if it is missing.  If o still does not serve there, the Host
\* fences the port and keeps the hold.  An expired call gives its lease back.
GateGrants(c, o) ==
    LET p == [Repaired(port, o) EXCEPT !.acquiring = @ \ {c}]
    IN  /\ c \in port.acquiring /\ Serving(o) /\ ~barred
        /\ port.sealed = None
        /\ IF p.phase = "serving" /\ p.writer = o
           THEN /\ Submit(IF answer[c] = "waiting" THEN [p EXCEPT !.lease[c] = o] ELSE p)
                /\ UNCHANGED <<answer, stranded>>
           ELSE /\ Submit(Fence(p))
                /\ answer' = [d \in Calls |-> IF d = c \/ d \in Queued(p) THEN "failed"
                                              ELSE answer[d]]
                /\ stranded' = TRUE
        /\ UNCHANGED <<seen, proc, open, failure, barred, gate>>

\* acquireDemand after the await, and admitReady: the exact owner must still
\* be installed and serving.
Admit(c) ==
    /\ port.lease[c] # None /\ c \notin Queued(port) \cup port.inFlight
    /\ IF Admissible(port, port.lease[c]) /\ ~Full(port)
       THEN Submit(Pump([port EXCEPT !.queue = Append(@, c)])) /\ UNCHANGED answer
       ELSE Submit(Release(port, c)) /\ Answers(c, "failed")
    /\ UNCHANGED <<seen, proc, open, failure, barred, gate, stranded>>

\* Mutant of QueueTimeout: the timer does not fire during a handover.
QueueTimeoutServing(c) ==
    /\ c \in Queued(port) /\ port.phase = "serving"
    /\ Submit(Withdraw(port, c))
    /\ Answers(c, "failed")
    /\ UNCHANGED <<seen, proc, open, failure, barred, gate, stranded>>

\* The timer of a call that waits in the port.
QueueTimeout(c) ==
    /\ c \in Queued(port)
    /\ Submit(Withdraw(port, c))
    /\ Answers(c, "failed")
    /\ UNCHANGED <<seen, proc, open, failure, barred, gate, stranded>>

-----------------------------------------------------------------------------
(* callStoragePhysical and the storage process.                             *)

Sent(c) ==
    /\ at[c] = "queued" /\ proc[port.lease[c]] \in {"serving", "faulted"}
    /\ at' = [at EXCEPT ![c] = "sent"]
    /\ UNCHANGED <<port, answer, seen, proc, open, failure, barred, gate, stranded>>

\* The deadline passes in the IPC peer's queue: proven not dispatched.
NotSent(c) ==
    /\ at[c] = "queued"
    /\ LET p == Settled(port, c, None)
       IN  /\ port' = p
           /\ at' = [d \in Calls |-> IF d \in Newly(p) THEN "queued"
                                     ELSE IF d = c THEN "none" ELSE at[d]]
    /\ Answers(c, "failed")
    /\ UNCHANGED <<seen, proc, open, failure, barred, gate, stranded>>

Run(c) ==
    /\ at[c] = "sent" /\ port.lease[c] \in open
    /\ at' = [at EXCEPT ![c] = "ran"]
    /\ seen' = [seen EXCEPT ![c] = Rows]
    /\ UNCHANGED <<port, answer, proc, open, failure, barred, gate, stranded>>

\* The reply settles the call; one nobody waits for any more fills no cache.
ReplyArrives(c) ==
    /\ at[c] = "ran" /\ c \in port.inFlight
    /\ proc[port.lease[c]] \in {"serving", "faulted"}
    /\ LET p == Settled(port, c, seen[c])
       IN  /\ port' = p
           /\ at' = [d \in Calls |-> IF d \in Newly(p) THEN "queued"
                                     ELSE IF d = c THEN "done" ELSE at[d]]
    /\ IF answer[c] = "waiting" THEN Answers(c, "ok") ELSE UNCHANGED answer
    /\ UNCHANGED <<seen, proc, open, failure, barred, gate, stranded>>

\* The deadline of a call that was sent: its outcome is unknown.
ResultLost(c) ==
    /\ at[c] \in {"sent", "ran"} /\ answer[c] = "waiting"
    /\ FenceFor({c})
    /\ UNCHANGED <<seen, proc, open, failure, barred, gate, stranded>>

\* Mutant of Unknown: writes whose caller already gave up are forgotten.
UnknownToCallers == \E c \in ActiveWrites(port) : answer[c] = "waiting"

Unknown == ActiveWrites(port) # {}

\* fault: the serving incarnation misses its heartbeats or breaks its
\* channel.  It is killed, but until it is gone it may go on working.
FaultOf(o) ==
    /\ proc' = [proc EXCEPT ![o] = "faulted"]
    /\ failure' = [owner |-> o, unknown |-> Unknown]
    /\ barred' = TRUE
    /\ FenceFor({})
    /\ UNCHANGED <<seen, open, gate, stranded>>

\* A process that is being disposed of only exits.  The last incarnation
\* stays: MaxOwners bounds the crashes.
Fault(o) ==
    /\ o < MaxOwners /\ proc[o] \in {"activated", "serving"}
    /\ ~(port.moving /\ port.inFlight = {} /\ port.writer = o)
    /\ FaultOf(o)

\* Mutant of Cut: what the process may have run is taken for not dispatched.
CutAll(o) == {c \in port.inFlight : port.lease[c] = o}

\* peer.close: calls still in the peer's queue are proven not dispatched,
\* the results of the others are unknown.
Cut(o)   == {c \in Calls : port.lease[c] = o /\ at[c] = "queued" /\ c \in port.inFlight}
Lost(o)  == {c \in port.inFlight : port.lease[c] = o} \ Cut(o)

\* The process is gone: its channel closes.
Exit(o) ==
    /\ proc[o] = "faulted"
    /\ proc' = [proc EXCEPT ![o] = "exited"]
    /\ open' = open \ {o}
    /\ port' = [Fence(port) EXCEPT !.inFlight = @ \ Cut(o),
                                   !.lease = [c \in Calls |-> IF c \in Cut(o) THEN None ELSE @[c]]]
    /\ at' = [c \in Calls |-> IF c \in Cut(o) THEN "none" ELSE at[c]]
    /\ answer' = [c \in Calls |-> IF answer[c] # "waiting" THEN answer[c]
                                  ELSE IF c \in Cut(o) THEN "failed"
                                  ELSE IF c \in Lost(o) THEN "unknown" ELSE answer[c]]
    /\ UNCHANGED <<seen, failure, barred, gate, stranded>>

\* onExit and storageOwnerPhysicallyExited: the native join settles what the
\* process will never answer.
Retire(o) ==
    /\ proc[o] = "exited"
    /\ proc' = [proc EXCEPT ![o] = "retired"]
    /\ port' = [port EXCEPT !.inFlight = @ \ Lost(o),
                            !.lease = [c \in Calls |-> IF @[c] = o /\ c \in port.inFlight
                                                       THEN None ELSE @[c]]]
    /\ UNCHANGED <<answer, at, seen, open, failure, barred, gate, stranded>>

-----------------------------------------------------------------------------
(* Incarnations: start, recovery, wake and hot reload.                      *)

Gone(o)  == proc[o] = "retired"
Fresh(o) == proc[o] = "none" /\ \A p \in 1..(o - 1) : proc[p] # "none"

\* The first start, the recovery of a crash, the wake of a sleeping unit; a
\* process lost while it was sealed stays down.
Launch(o) ==
    /\ Fresh(o) /\ \A p \in 1..(o - 1) : Gone(p)
    /\ port.sealed = None
    /\ proc' = [proc EXCEPT ![o] = "ready"]
    /\ UNCHANGED <<port, answer, at, seen, open, failure, barred, gate, stranded>>

\* ProcessHostRuntime.reload: the demand of `storage` must have settled.
Reload(o, p) ==
    /\ Fresh(o) /\ Serving(p) /\ \A q \in 1..(o - 1) \ {p} : Gone(q)
    /\ ~barred /\ ~stranded
    /\ port.acquiring = {} /\ Pinned(port) = {} /\ port.sealed = None
    /\ barred' = TRUE
    /\ proc' = [proc EXCEPT ![o] = "ready"]
    /\ UNCHANGED <<port, answer, at, seen, open, failure, gate, stranded>>

\* onActivating
MayActivate == ~(failure # None /\ failure.unknown) /\ gate = "none"

Replaces(o) == port.phase = "serving" /\ port.writer # o

\* onActivating finds another writer serving and starts the handover.
StartHandover(o) ==
    /\ proc[o] = "ready" /\ MayActivate /\ Replaces(o) /\ CanHandover(port)
    /\ Submit(BeginHandover(port))
    /\ UNCHANGED <<answer, seen, proc, open, failure, barred, gate, stranded>>

\* dispose() of the old process: it has exited.
RetireWriter ==
    /\ port.moving /\ port.inFlight = {}
    /\ proc' = [proc EXCEPT ![port.writer] = "retired"]
    /\ open' = open \ {port.writer}
    /\ Submit(EndHandover(port))
    /\ UNCHANGED <<answer, seen, failure, barred, gate, stranded>>

HandoverTimeout ==
    /\ port.moving
    /\ FenceFor({})
    /\ UNCHANGED <<seen, proc, open, failure, barred, gate, stranded>>

\* coordinator.activate and runtime.activate: the Worker opens the database,
\* for which the process takes the operating system's writer lease.
Activate(o) ==
    /\ proc[o] = "ready" /\ MayActivate /\ ~Replaces(o) /\ ~port.moving
    /\ proc' = [proc EXCEPT ![o] = "activated"]
    /\ UNCHANGED <<port, answer, at, seen, open, failure, barred, gate, stranded>>

OpenWorker(o) ==
    /\ proc[o] = "activated" /\ open = {}
    /\ open' = {o}
    /\ proc' = [proc EXCEPT ![o] = "serving"]
    /\ UNCHANGED <<port, answer, at, seen, failure, barred, gate, stranded>>

\* installStorage from onState.  After a fault the exact old owner must have
\* exited with every call settled; otherwise it throws and nothing changes.
InstallWriter(o) ==
    /\ Serving(o) /\ port.writer # o
    /\ \/ failure = None /\ CanInstall(port) /\ Submit(Install(port, o)) /\ UNCHANGED failure
       \/ /\ failure # None /\ ~failure.unknown /\ proc[failure.owner] \in {"exited", "retired"}
          /\ CanReconcile(port, failure.owner)
          /\ CanInstall(Reconcile(port))
          /\ Submit(Install(Reconcile(port), o))
          /\ failure' = None
    /\ UNCHANGED <<answer, seen, proc, open, barred, gate, stranded>>

\* reconcileRetirements: nothing holds the unit, the replaced owner is proven
\* retired and its successor serves.
Unbar ==
    /\ barred /\ Pinned(port) = {} /\ ~stranded
    /\ \E o \in Owners : Serving(o) /\ \A p \in Owners \ {o} : proc[p] \in {"none", "retired"}
    /\ barred' = FALSE
    /\ UNCHANGED <<port, answer, at, seen, proc, open, failure, gate, stranded>>

-----------------------------------------------------------------------------
(* Idle retirement.                                                         *)

BeginIdle(o) ==
    /\ Serving(o) /\ ~barred /\ ~stranded /\ IsIdle(port, o)
    /\ Submit(Seal(port, o))
    /\ UNCHANGED <<answer, seen, proc, open, failure, barred, gate, stranded>>

\* storage.hibernate: a queued session refuses the checkpoint.
HibernateBusy ==
    /\ port.sealed # None /\ port.phase = "handover" /\ port.sealed \in open
    /\ Rows # 0
    /\ Submit(Unseal(port))
    /\ UNCHANGED <<answer, seen, proc, open, failure, barred, gate, stranded>>

Hibernate ==
    /\ port.sealed # None /\ port.phase = "handover" /\ port.sealed \in open
    /\ Rows = 0
    /\ open' = open \ {port.sealed}
    /\ UNCHANGED <<port, answer, at, seen, proc, failure, barred, gate, stranded>>

\* The process left cleanly: afterIdle with the checkpoint.
Sleep ==
    /\ port.sealed # None /\ port.phase = "handover" /\ port.sealed \notin open
    /\ Serving(port.sealed)
    /\ proc' = [proc EXCEPT ![port.sealed] = "retired"]
    /\ Submit(Asleep(port))
    /\ UNCHANGED <<answer, seen, open, failure, barred, gate, stranded>>

\* A deadline or an unexpected answer: the writer stays sealed for good.
IdleUnknown ==
    /\ port.sealed # None /\ port.phase = "handover"
    /\ FenceFor({})
    /\ UNCHANGED <<seen, proc, open, failure, barred, gate, stranded>>

-----------------------------------------------------------------------------
(* Maintenance of the chat database.                                        *)

\* maintenance.writer.begin
BeginUpkeep ==
    /\ gate = "none" /\ CanMaintain(port)
    /\ gate' = "holding"
    /\ Submit(BeginMaintenance(port))
    /\ UNCHANGED <<answer, seen, proc, open, failure, barred, stranded>>

\* Mutant of Drained: the Worker is suspended under running calls.
DrainedAnyway == port.upkeep = "draining"

Drained == port.upkeep = "draining" /\ port.inFlight = {}

UpkeepStep(from, to) ==
    port.upkeep = from /\ port' = [port EXCEPT !.upkeep = to]

\* The calls have drained: storage.suspend is sent.
SendSuspend ==
    /\ Drained /\ UpkeepStep("draining", "suspending")
    /\ UNCHANGED <<answer, at, seen, proc, open, failure, barred, gate, stranded>>

\* The Worker closes the database and the process gives its lease back.
Suspend ==
    /\ port.upkeep = "suspending" /\ port.writer \in open
    /\ open' = open \ {port.writer}
    /\ UNCHANGED <<port, answer, at, seen, proc, failure, barred, gate, stranded>>

Suspended ==
    /\ port.writer \notin open /\ UpkeepStep("suspending", "suspended")
    /\ gate' = "vacuum"
    /\ UNCHANGED <<answer, at, seen, proc, open, failure, barred, stranded>>

\* maintenance.writer.end with a verified receipt: storage.resume is sent.
EndUpkeep ==
    /\ gate = "vacuum" /\ UpkeepStep("suspended", "resuming")
    /\ UNCHANGED <<answer, at, seen, proc, open, failure, barred, gate, stranded>>

Resume ==
    /\ port.upkeep = "resuming" /\ open = {} /\ Serving(port.writer)
    /\ open' = {port.writer}
    /\ UNCHANGED <<port, answer, at, seen, proc, failure, barred, gate, stranded>>

Resumed ==
    /\ port.upkeep = "resuming" /\ port.writer \in open
    /\ Submit(EndMaintenance(port))
    /\ gate' = "none"
    /\ UNCHANGED <<answer, seen, proc, open, failure, barred, stranded>>

UpkeepTimeout ==
    /\ port.upkeep \in {"draining", "suspending", "resuming"}
    /\ FenceFor({})
    /\ UNCHANGED <<seen, proc, open, failure, barred, gate, stranded>>

-----------------------------------------------------------------------------
Init ==
    /\ port = EmptyPort
    /\ answer = [c \in Calls |-> "new"]
    /\ at = [c \in Calls |-> "none"]
    /\ seen = [c \in Calls |-> 0]
    /\ proc = [o \in Owners |-> "none"]
    /\ open = {} /\ failure = None /\ barred = FALSE /\ gate = "none" /\ stranded = FALSE

CallStep(c) ==
    \/ Call(c) \/ AcquireTimeout(c) \/ GateRefuses(c) \/ Admit(c) \/ QueueTimeout(c)
    \/ Sent(c) \/ NotSent(c) \/ Run(c) \/ ReplyArrives(c) \/ ResultLost(c)
    \/ \E o \in Owners : GateGrants(c, o)

OwnerStep(o) ==
    \/ Fault(o) \/ Exit(o) \/ Retire(o) \/ Launch(o) \/ StartHandover(o)
    \/ Activate(o) \/ OpenWorker(o) \/ InstallWriter(o) \/ BeginIdle(o)
    \/ \E p \in Owners : Reload(o, p)

UpkeepNext ==
    \/ BeginUpkeep \/ SendSuspend \/ Suspend \/ Suspended \/ EndUpkeep \/ Resume
    \/ Resumed \/ UpkeepTimeout

Next ==
    \/ \E c \in Calls : CallStep(c)
    \/ \E o \in Owners : OwnerStep(o)
    \/ RetireWriter \/ HandoverTimeout \/ Unbar
    \/ HibernateBusy \/ Hibernate \/ Sleep \/ IdleUnknown
    \/ UpkeepNext

Spec == Init /\ [][Next]_vars

\* Timers fire and microtasks run; nothing is asked of the processes.
FairSpec ==
    /\ Spec
    /\ \A c \in Calls :
          /\ WF_vars(AcquireTimeout(c)) /\ WF_vars(Admit(c)) /\ WF_vars(QueueTimeout(c))
          /\ WF_vars(NotSent(c)) /\ WF_vars(ResultLost(c))

-----------------------------------------------------------------------------
(* Properties.                                                              *)

TypeOK ==
    /\ port \in PortType
    /\ answer \in [Calls -> {"new", "waiting", "ok", "failed", "unknown"}]
    /\ at \in [Calls -> {"none", "queued", "sent", "ran", "done"}]
    /\ seen \in [Calls -> {0, 1}]
    /\ proc \in [Owners -> {"none", "ready", "activated", "serving", "faulted", "exited", "retired"}]
    /\ open \subseteq Owners
    /\ failure \in [owner : Owners, unknown : BOOLEAN] \cup {None}
    /\ barred \in BOOLEAN /\ stranded \in BOOLEAN
    /\ gate \in {"none", "holding", "vacuum"}

\* Whoever replaces the writer and however calls, replies and fences
\* interleave, the cached number of queued sessions is the one in the
\* database: the idle decision and the scheduler trust it.
CachedCountIsCurrent == port.count # None => port.count = Rows

\* A demand lease covers exactly the calls that can still touch the database:
\* a call that may run holds one, a call that was answered and settled holds
\* none, so neither a busy writer retires nor an idle one stays awake.
PinsCoverWork ==
    \A c \in Calls :
        /\ at[c] \in {"queued", "sent"} /\ c \in port.inFlight => port.lease[c] # None
        /\ port.lease[c] # None => \/ c \in port.inFlight
                                   \/ answer[c] = "waiting"

\* The Worker is never closed, for a vacuum or for sleep, under a call that
\* a living process was sent.
WorkerOutlivesCalls ==
    \A c \in Calls : at[c] = "sent" /\ c \in port.inFlight
        => \/ port.lease[c] \in open
           \/ proc[port.lease[c]] = "exited"

\* Once a writer died with a write it never confirmed, the port stays fenced,
\* whatever restarts, reloads or maintenance follow.
UnconfirmedWriteStaysFenced ==
    (\E c \in Writes : at[c] \in {"sent", "ran"} /\ c \notin port.inFlight)
        => port.phase = "fenced"

\* Every caller is answered, whatever happens to the processes.
CallsAreAnswered == \A c \in Calls : answer[c] = "waiting" ~> answer[c] # "waiting"

Promise == INSTANCE AtomicCalls

\* Retries, fences, replacements and lost answers included, a call runs at
\* most once, "ok" follows its run and a refused call never runs.
KeepsPromise == Promise!Spec

-----------------------------------------------------------------------------
(* Expectations of the repository's texts.                                  *)

\* stable-port.ts:531, of beginMaintenance: "New calls wait within the usual
\* admission bounds."  So none of them ends a maintenance operation.
GrantDuringUpkeep(c) ==
    /\ port.upkeep \in {"draining", "suspending", "suspended", "resuming"}
    /\ c \in port.acquiring /\ c \notin port'.acquiring
NewCallsWait == [][\A c \in Calls : GrantDuringUpkeep(c) => port'.phase # "fenced"]_vars

\* docs/runtime-recovery.md:39: a failure with only reads in flight may be
\* recovered after verification ("纯读取故障允许校验后恢复").
ReadFailureIsRecoverable ==
    failure # None /\ ~failure.unknown /\ port.upkeep = "none" /\ port.sealed = None
        => port.writer = failure.owner
=============================================================================
