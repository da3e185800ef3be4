-------------------------- MODULE ExecutionHandoff --------------------------
(***************************************************************************)
(* Who executes a session, across four parties: the kernels that execute    *)
(* runs (packages/kernel, apps/host/src/runtime-kernel-process.ts), the     *)
(* RuntimeCoordinator, the durable authority of RuntimeState at the far end *)
(* of the storage port, and the Host that watches the processes and         *)
(* reconciles what a fault interrupted                                      *)
(* (apps/host/src/process-host-runtime.ts, packages/runtime/src/process.ts).*)
(*                                                                          *)
(* The port executes the coordinator's calls in their order; the coordinator*)
(* sees a reply in a later step.  A write of a kernel passes the            *)
(* coordinator first and reaches the database in a later step of its own.   *)
(* One reconciliation job runs at a time (`transitions` is a chain of       *)
(* promises); its awaits are the stages of `job`.                           *)
(***************************************************************************)
EXTENDS ExecutionLease, Sequences

CONSTANTS
    CallIds, Keys, CapacityLimit, MaxTools, MaxFence,   \* of RuntimeCoordinator
    BindingsOf,   \* [Runs -> SUBSET Generations], what a run is bound to beside its kernel
    Startup,      \* owners that the Host starts with
    Mortal,       \* owners that may crash or stop answering, a bound
    MaxDrops      \* failures of the port, in calls of the Host or of executors, a bound

VARIABLES
    role, exited, defaultOf, sessions, runs, claims, blocked, revoking,
    interruptions, stoppedRuns, fencing, pendingReleases, tools, resources,
    capacity, fence, calls

Coordinator == INSTANCE RuntimeCoordinator

VARIABLE db

Durable == INSTANCE RuntimeState WITH Drafts <- {}

VARIABLES
    replies,      \* what the port answered to the first calls of `calls`
    drops,        \* such failures so far
    leases,       \* the Host's leases, [Runs -> lease or None]
    pending,      \* pendingClaims: "none", "pending" or "failed"
    interrupted,  \* [Owners -> [runs, exited] or None]
    stopped,      \* runs whose executor is known to have stopped
    handoffs,     \* released leases whose hand-off is in progress
    job,          \* the reconciliation in progress
    process,      \* the processes: "none", "alive", "dead" (tree not joined), "exited"
    fenced,       \* the fence of a faulted owner: "none", "pending", "done", "failed"
    work,         \* the executors, [Runs -> [lease, stage] or None]
    writes        \* writes of executors on their way to the database

\* The units of the execution path: a Kernel and the drivers, each with a
\* generation that serves at startup.  A run is bound to one Kernel and else to
\* drivers; the storage process is the far end of the port.
ASSUME HandoffAssumption ==
    /\ Coordinator!CoordinatorAssumption
    /\ None \notin Durable!Rows
    /\ BindingsOf \in [Runs -> SUBSET {g \in Generations : KindOf[UnitOf[g]] # "kernel"}]
    /\ \A o \in Owners : Kind(o) # "storage"
    /\ \E u \in Units : KindOf[u] = "kernel"
    /\ Startup \subseteq Owners
    /\ \A u \in Units : \E o \in Startup : UnitOf[GenOf[o]] = u
    /\ \A o, e \in Startup : UnitOf[GenOf[o]] = UnitOf[GenOf[e]] => o = e
    /\ MaxDrops \in Nat

coordination ==
    << role, exited, defaultOf, sessions, runs, claims, blocked, revoking, interruptions,
       stoppedRuns, fencing, pendingReleases, tools, resources, capacity, fence, calls >>
storage  == << db, replies, drops >>
ledger   == << leases, pending, interrupted, stopped, handoffs >>
kernels  == << work, writes >>
vars     == << coordination, storage, ledger, job, process, fenced, kernels >>

Stages    == {"running", "writing", "settled", "releasing", "stopping", "failing"}
Works     == [lease : Leases, stage : Stages]
JobStages == {"read", "revoke", "free", "recover", "cleanup", "handoff"}
Jobs      == [run : Runs, stage : JobStages, kernel : Owners, splice : BOOLEAN]
Faults    == [runs : SUBSET Runs, exited : BOOLEAN]

ASSUME NoneStateAssumption == None \notin Works \cup Jobs \cup Faults

-----------------------------------------------------------------------------
(* Queries.                                                                 *)

Stage(r)       == IF work[r] = None THEN "none" ELSE work[r].stage
Executing(r)   == Stage(r) \notin {"none", "releasing"}
Interrupted(r) == \E o \in Owners : interrupted[o] # None /\ r \in interrupted[o].runs
RunsOf(s)      == {r \in Runs : SessionOf[r] = s}

\* Mutant of CanWake: the leases that no execution backs are not looked at.
CanWakeUnbacked(s) == \A r \in RunsOf(s) : ~Interrupted(r)

\* canWake
CanWake(s) ==
    \A r \in RunsOf(s) : ~Interrupted(r) /\ (leases[r] # None => runs[r] # None)

\* A unit's default generation is serving; executionReady asks it of every unit.
ServingDefault(u) ==
    LET o == defaultOf[u]
    IN  o # None /\ role[o] = "default" /\ process[o] = "alive"
ExecutionReady == \A u \in Units : ServingDefault(u)

CurrentKernel == CHOOSE o \in Kernels : role[o] = "default"

Advance(r, stage) == work' = [work EXCEPT ![r].stage = stage]
Leave(r)          == work' = [work EXCEPT ![r] = None]

-----------------------------------------------------------------------------
(* The storage port.                                                        *)

Executed(d, call) ==
    CASE call.op = "claim"               -> Durable!ClaimIn(d, call.lease)
      [] call.op = "release"             -> Durable!ReleaseIn(d, call.lease)
      [] call.op \in {"unclaim", "revoke"} -> Durable!RevokeIn(d, call.authority, call.runs)

Unserved == Len(replies) < Len(calls)

Serve ==
    /\ Unserved
    /\ LET outcome == Executed(db, calls[Len(replies) + 1])
       IN  /\ db' = outcome.db
           /\ replies' = Append(replies, outcome.reply)
    /\ UNCHANGED << coordination, drops, ledger, job, process, fenced, kernels >>

\* The call was never dispatched: no writer in time (STORAGE_HANDOVER_TIMEOUT).
Drop ==
    /\ Unserved
    /\ drops < MaxDrops
    /\ drops' = drops + 1
    /\ replies' = Append(replies, Coordinator!Reply("lost", None))
    /\ UNCHANGED << coordination, db, ledger, job, process, fenced, kernels >>

Answered(op) == replies # << >> /\ Head(calls).op = op
Reply == Head(replies)

-----------------------------------------------------------------------------
(* Kernels.                                                                 *)

\* execution.claim, up to the persistence adapter's await.
KernelClaims(o, r, captured) ==
    /\ process[o] = "alive"
    /\ db.status[r] = "queued"
    /\ ExecutionReady
    /\ CanWake(SessionOf[r])
    /\ Coordinator!Claim(o, r, {GenOf[o]} \cup BindingsOf[r], captured)
    /\ IF calls' = calls THEN UNCHANGED << leases, pending >>
       ELSE /\ leases' = [leases EXCEPT ![r] = calls'[Len(calls')].lease]
            /\ pending' = [pending EXCEPT ![r] = "pending"]
    /\ UNCHANGED << storage, interrupted, stopped, handoffs, job, process, fenced, kernels >>

\* claimFailed: the run waits for the reconciliation of its durable receipt.
ClaimFails(r) ==
    /\ pending' = [pending EXCEPT ![r] = "failed"]
    /\ stopped' = stopped \cup {r}

\* The reply to a claim: the lease starts its executor, unless the kernel has
\* died or lost its authority meanwhile.
ClaimAnswered ==
    /\ Answered("claim")
    /\ LET lease == Head(calls).lease
           r     == lease.run
       IN  /\ Coordinator!ClaimReply(Reply)
           /\ \/ /\ Reply.kind = "lease"
                 /\ leases' = [leases EXCEPT ![r] = Reply.lease]
                 /\ IF runs'[r] = None THEN UNCHANGED << pending, work >>
                    ELSE /\ pending' = [pending EXCEPT ![r] = "none"]
                         /\ work' = IF process[lease.owner] # "alive" THEN work
                                    ELSE [work EXCEPT ![r] =
                                            [lease |-> Reply.lease, stage |-> "running"]]
                 /\ UNCHANGED stopped
              \/ /\ Reply.kind = "null"
                 /\ leases' = [leases EXCEPT ![r] = None]
                 /\ pending' = [pending EXCEPT ![r] = "none"]
                 /\ UNCHANGED << stopped, work >>
              \/ /\ Reply.kind \in {"refused", "lost"}
                 /\ ClaimFails(r)
                 /\ UNCHANGED << leases, work >>
    /\ replies' = Tail(replies)
    /\ UNCHANGED << db, drops, interrupted, handoffs, job, process, fenced, writes >>

UnclaimAnswered ==
    /\ Answered("unclaim")
    /\ Coordinator!UnclaimReply
    /\ ClaimFails(Head(calls).lease.run)
    /\ replies' = Tail(replies)
    /\ UNCHANGED << db, drops, leases, interrupted, handoffs, job, process, fenced, kernels >>

\* A live kernel at a stage of its run.
At(r, stage) == Stage(r) = stage /\ process[work[r].lease.owner] = "alive"

\* The final write of a run, up to the port: kernel.storage asks the
\* coordinator; a refusal aborts the run.
Write(r) ==
    /\ At(r, "running")
    /\ IF Coordinator!CanWrite(work[r].lease.owner, work[r].lease)
       THEN Advance(r, "writing") /\ writes' = writes \cup {work[r].lease}
       ELSE Advance(r, "stopping") /\ UNCHANGED writes
    /\ UNCHANGED << coordination, storage, ledger, job, process, fenced >>

\* The write reaches the database, its kernel alive or not.
WriteArrives(lease) ==
    LET r == lease.run
        outcome == Durable!SettleIn(db, lease)
    IN  /\ lease \in writes
        /\ writes' = writes \ {lease}
        /\ db' = outcome.db
        /\ IF work[r] = [lease |-> lease, stage |-> "writing"]
           THEN Advance(r, IF outcome.reply.kind = "ok" THEN "settled" ELSE "stopping")
           ELSE UNCHANGED work
        /\ UNCHANGED << coordination, replies, drops, ledger, job, process, fenced >>

\* The read for the observers of run.end, after the settlement and outside
\* their catch: a refusal makes executeClaimed throw.  A run that ended without
\* a scope has no such read, and one that was answered leads to the release.
ReadRefused(r) ==
    /\ At(r, "settled")
    /\ ~Coordinator!CanWrite(work[r].lease.owner, work[r].lease)
    /\ Advance(r, "stopping")
    /\ UNCHANGED << coordination, storage, ledger, job, process, fenced, writes >>

\* The port fails the final write or that read for a reason of its own: no
\* demand, no capacity, no writer in time, no answer.  The write is lost or
\* still arrives, with nobody waiting for it.
CallFails(r) ==
    /\ At(r, "writing") \/ At(r, "settled")
    /\ drops < MaxDrops /\ drops' = drops + 1
    /\ writes' \in {writes, writes \ {work[r].lease}}
    /\ Advance(r, "failing")
    /\ UNCHANGED << coordination, db, replies, ledger, job, process, fenced >>

\* kernel.fence: a run that another owner's fault interrupted is aborted.
Abort(r) ==
    /\ At(r, "running")
    /\ \E o \in Owners \ {work[r].lease.owner} :
          interrupted[o] # None /\ r \in interrupted[o].runs
    /\ Advance(r, "stopping")
    /\ UNCHANGED << coordination, storage, ledger, job, process, fenced, writes >>

\* acknowledgeRunStopped accepts the stop.
StopAcceptable(r) ==
    /\ runs[r] # None /\ runs[r].owner = work[r].lease.owner
    /\ interruptions[r] # {}

\* onFatal, now or, of a kernel that may die anyhow, later by Die.
Fatal(o) == process' = [process EXCEPT ![o] = "dead"]
FatalSoon(o) == Fatal(o) \/ (o \in Mortal /\ UNCHANGED process)

\* execution.interrupted, whatever made executeClaimed throw.  A refused
\* acknowledgement is fatal to the kernel, and so is an error of the port, be it
\* acknowledged or not; a loss of authority is not (startDrain).
ReportsStop(r) ==
    LET o == work[r].lease.owner IN
    /\ At(r, "stopping") \/ At(r, "failing")
    /\ IF StopAcceptable(r)
       THEN /\ Coordinator!AcknowledgeRunStopped(o, r)
            /\ stopped' = stopped \cup {r}
            /\ Leave(r)
            /\ IF Stage(r) = "stopping" THEN UNCHANGED process ELSE FatalSoon(o)
       ELSE /\ Fatal(o)
            /\ UNCHANGED << coordination, stopped, work >>
    /\ UNCHANGED << storage, leases, pending, interrupted, handoffs, job, fenced, writes >>

\* execution.release of a settled run.  EXECUTION_OWNER_REVOKED is not fatal:
\* the kernel only stops scheduling the session (startDrain).  A deferred
\* release answers at once.
Release(r) ==
    LET lease == work[r].lease IN
    /\ At(r, "settled")
    /\ IF ~Coordinator!Asserted(lease)
       THEN Leave(r) /\ UNCHANGED coordination
       ELSE /\ Coordinator!RequestRelease(lease)
            /\ IF calls' = calls THEN Leave(r) ELSE Advance(r, "releasing")
    /\ UNCHANGED << storage, ledger, job, process, fenced, writes >>

\* A kernel that waited for the release fails.
FatalTo(lease) ==
    IF /\ work[lease.run] = [lease |-> lease, stage |-> "releasing"]
       /\ process[lease.owner] = "alive"
    THEN [process EXCEPT ![lease.owner] = "dead"] ELSE process

\* The reply to a release.  Without a receipt the gate stays closed; a kernel
\* that waited for the answer fails.
ReleaseAnswered ==
    /\ Answered("release")
    /\ LET lease == Head(calls).lease
           r     == lease.run
       IN  /\ Coordinator!ReleaseReply(Reply)
           /\ work' = IF work[r] = [lease |-> lease, stage |-> "releasing"]
                      THEN [work EXCEPT ![r] = None] ELSE work
           /\ IF Reply.kind = "ok"
              THEN handoffs' = handoffs \cup {lease} /\ UNCHANGED process
              ELSE process' = FatalTo(lease) /\ UNCHANGED handoffs
    /\ replies' = Tail(replies)
    /\ UNCHANGED << db, drops, leases, pending, interrupted, stopped, job, fenced, writes >>

\* handoff needs the projection of the current kernel, and its refresh when the
\* run was another kernel's.
CanHandOff(lease) ==
    \E u \in Units :
        /\ KindOf[u] = "kernel" /\ defaultOf[u] # None
        /\ \/ process[defaultOf[u]] = "alive"
           \/ process[defaultOf[u]] = "dead" /\ defaultOf[u] = lease.owner

\* handoff, called by the release: the Host forgets the lease.
FinishHandoff(lease) ==
    /\ lease \in handoffs
    /\ CanHandOff(lease)
    /\ handoffs' = handoffs \ {lease}
    /\ leases' = [leases EXCEPT ![lease.run] = None]
    /\ UNCHANGED << coordination, storage, pending, interrupted, stopped, job, process,
                    fenced, kernels >>

\* It fails there, or in its replay: a later reconciliation hands the run off.
FailHandoff(lease) ==
    /\ lease \in handoffs
    /\ handoffs' = handoffs \ {lease}
    /\ \/ ~CanHandOff(lease) /\ UNCHANGED drops
       \/ drops < MaxDrops /\ drops' = drops + 1
    /\ UNCHANGED << coordination, db, replies, leases, pending, interrupted, stopped, job,
                    process, fenced, kernels >>

EndHandoff(lease) == FinishHandoff(lease) \/ (~CanHandOff(lease) /\ FailHandoff(lease))

\* Tools of a run, and work for it in an owner it is not bound to (a command).
StartTool(r, call, o) ==
    /\ At(r, "running") /\ process[o] = "alive"
    /\ Coordinator!ReserveTool(work[r].lease, call, o)
    /\ UNCHANGED << storage, ledger, job, process, fenced, kernels >>
StartCommand(r, key, o) ==
    /\ At(r, "running") /\ process[o] = "alive"
    /\ Coordinator!RetainSourceResource(o, key, work[r].lease)
    /\ UNCHANGED << storage, ledger, job, process, fenced, kernels >>
EndTool(t) ==
    /\ process[t.owner] = "alive"
    /\ Coordinator!ReleaseTool(t)
    /\ UNCHANGED << storage, ledger, job, process, fenced, kernels >>
EndCommand(key) ==
    /\ resources[key] # None /\ process[resources[key].owner] = "alive"
    /\ Coordinator!ReleaseResource(key)
    /\ UNCHANGED << storage, ledger, job, process, fenced, kernels >>

\* requestCancel of a queued run.
Cancel(r) ==
    /\ db.status[r] = "queued"
    /\ db' = [db EXCEPT !.status[r] = "settled"]
    /\ UNCHANGED << coordination, replies, drops, ledger, job, process, fenced, kernels >>

-----------------------------------------------------------------------------
(* Processes and their faults.                                              *)

\* prepare: a restart waits for the retirement of the incarnation before it.
Prepare(o) ==
    /\ process[o] = "none"
    /\ \A e \in Owners \ {o} : GenOf[e] = GenOf[o] => process[e] \in {"none", "exited"}
    /\ Coordinator!Register(o)
    /\ process' = [process EXCEPT ![o] = "alive"]
    /\ UNCHANGED << storage, ledger, job, fenced, kernels >>

Activate(o) ==
    /\ process[o] = "alive"
    /\ Coordinator!Activate(o)
    /\ UNCHANGED << storage, ledger, job, process, fenced, kernels >>

Die(o) ==
    /\ process[o] = "alive" /\ role[o] # "candidate"
    /\ o \in Mortal \/ fenced[o] # "none"
    /\ process' = [process EXCEPT ![o] = "dead"]
    /\ UNCHANGED << coordination, storage, ledger, job, fenced, kernels >>

\* The runs whose Host lease is bound to the generation of o, granted or not,
\* and those the coordinator finds.
Concerned(o) ==
    {r \in Runs : leases[r] # None /\ (Kind(o) = "storage" \/ Bound(o, leases[r]))}
        \cup {l.run : l \in Coordinator!Affected(o)}

\* fault: on a missed heartbeat or an exit; again when the fence of a dead
\* owner failed (reconcileRetirement).
Fault(o) ==
    /\ \/ fenced[o] = "none" /\ (process[o] = "dead" \/ (process[o] = "alive" /\ o \in Mortal))
       \/ fenced[o] = "failed" /\ process[o] = "dead"
    /\ role[o] # "candidate"
    /\ interrupted' = [interrupted EXCEPT ![o] = [runs |-> Concerned(o), exited |-> FALSE]]
    /\ Coordinator!Revoke(o)
    /\ fenced' = [fenced EXCEPT ![o] = IF calls' = calls THEN "done" ELSE "pending"]
    /\ UNCHANGED << storage, leases, pending, stopped, handoffs, job, process, kernels >>

RevokeAnswered ==
    /\ Answered("revoke")
    /\ LET o == Head(calls).by IN
       /\ Coordinator!RevokeReply(Reply)
       /\ fenced' = [fenced EXCEPT ![o] = IF Reply.kind # "ok" THEN "failed"
                                          ELSE IF fencing'[o] = {} THEN "done" ELSE @]
    /\ replies' = Tail(replies)
    /\ UNCHANGED << db, drops, ledger, job, process, kernels >>

\* onExit: the process tree is joined and the fence has answered.
Exit(o) ==
    /\ process[o] = "dead"
    /\ fenced[o] = "done"
    /\ Coordinator!OwnerExited(o)
    /\ process' = [process EXCEPT ![o] = "exited"]
    /\ stopped' = stopped \cup {r \in Runs : leases[r] # None /\ leases[r].owner = o}
    /\ interrupted' = [interrupted EXCEPT ![o].exited = TRUE]
    /\ work' = [r \in Runs |-> IF work[r] # None /\ work[r].lease.owner = o THEN None
                                                                           ELSE work[r]]
    /\ UNCHANGED << storage, leases, pending, handoffs, job, fenced, writes >>

-----------------------------------------------------------------------------
(* reconcile.                                                               *)

JobFor(r, stage, splice) ==
    [run |-> r, stage |-> stage, kernel |-> CurrentKernel, splice |-> splice]
Becomes(stage) == job' = [job EXCEPT !.stage = stage]
Ready == job = None /\ ExecutionReady
JobAt(stage) == job # None /\ job.stage = stage

\* The pending claims that failed.
StartClaim(r) ==
    /\ Ready
    /\ pending[r] = "failed" /\ ~Interrupted(r)
    /\ job' = JobFor(r, "read", FALSE)
    /\ UNCHANGED << coordination, storage, ledger, process, fenced, kernels >>

\* The released leases whose hand-off did not finish.
StartHandoff(r) ==
    /\ Ready
    /\ leases[r] # None /\ runs[r] = None /\ pending[r] = "none" /\ ~Interrupted(r)
    /\ job' = JobFor(r, "handoff", FALSE)
    /\ UNCHANGED << coordination, storage, ledger, process, fenced, kernels >>

\* Mutant of Recoverable: a claim that failed is left to the other path.
RecoverableLease(o, r) ==
    /\ interrupted[o] # None /\ interrupted[o].exited
    /\ r \in interrupted[o].runs
    /\ pending[r] = "none"
    /\ r \in stopped

\* An interrupted run that reconcile takes up: its failed owner has exited and
\* its executor has stopped.
Recoverable(o, r) ==
    /\ interrupted[o] # None /\ interrupted[o].exited
    /\ r \in interrupted[o].runs
    /\ pending[r] # "pending"
    /\ r \in stopped

StartInterrupted(o, r) ==
    /\ Ready
    /\ Recoverable(o, r)
    /\ Coordinator!Reconciled(SessionOf[r])
    /\ job' = JobFor(r, IF pending[r] = "failed" THEN "read" ELSE "recover", TRUE)
    /\ UNCHANGED << storage, ledger, process, fenced, kernels >>

\* Mutant of JobRead: an active receipt is not revoked.
JobReadOnly ==
    /\ JobAt("read")
    /\ Becomes("free")
    /\ UNCHANGED << coordination, storage, ledger, process, fenced, kernels >>

\* reconcileClaim: the durable receipt must be the draft's (else the transition
\* fails); an active one is revoked.
JobRead ==
    LET row  == db.rows[job.run]
        mine == leases[job.run] # None /\ row.lease.id = leases[job.run].id
    IN  /\ JobAt("read")
        /\ \/ row = None /\ Becomes("free")
           \/ row # None /\ ~mine /\ job' = None
           \/ row # None /\ mine /\ Becomes(IF row.state = "active" THEN "revoke" ELSE "free")
        /\ UNCHANGED << coordination, storage, ledger, process, fenced, kernels >>

JobRevoke ==
    /\ JobAt("revoke")
    /\ db' = Durable!RevokeIn(db, db.rows[job.run].lease.owner, {job.run}).db
    /\ Becomes("free")
    /\ UNCHANGED << coordination, replies, drops, ledger, process, fenced, kernels >>

Freeable(s) == Coordinator!Reconcilable(s) /\ claims[s] = None

JobFree ==
    LET s == SessionOf[job.run] IN
    /\ JobAt("free")
    /\ \/ Freeable(s) /\ Coordinator!Reconciled(s) /\ Becomes("recover")
       \/ ~Freeable(s) /\ job' = None /\ UNCHANGED coordination
    /\ UNCHANGED << storage, ledger, process, fenced, kernels >>

\* recover, through the kernel that was current when the job began.
JobRecover ==
    LET outcome == Durable!RecoverIn(db, job.run) IN
    /\ JobAt("recover")
    /\ process[job.kernel] = "alive"
    /\ db' = outcome.db
    /\ IF outcome.reply.kind = "ok" THEN Becomes("cleanup") ELSE job' = None
    /\ UNCHANGED << coordination, replies, drops, ledger, process, fenced, kernels >>

HandsOff(r) == leases[r] # None => CanHandOff(leases[r])

\* The transition fails; a later one starts over.
JobFails ==
    /\ job # None
    /\ \/ /\ \/ job.stage = "recover" /\ process[job.kernel] # "alive"
             \/ job.stage = "handoff" /\ ~HandsOff(job.run)
          /\ UNCHANGED drops
       \/ /\ job.stage \in {"read", "revoke", "recover", "handoff"}
          /\ drops < MaxDrops /\ drops' = drops + 1
    /\ job' = None
    /\ UNCHANGED << coordination, db, replies, ledger, process, fenced, kernels >>

JobCleanup ==
    LET r == job.run IN
    /\ JobAt("cleanup")
    /\ leases' = [leases EXCEPT ![r] = None]
    /\ pending' = [pending EXCEPT ![r] = "none"]
    /\ stopped' = stopped \ {r}
    /\ interrupted' = IF ~job.splice THEN interrupted
                      ELSE [o \in Owners |-> IF interrupted[o] = None THEN None
                                             ELSE [interrupted[o] EXCEPT !.runs = @ \ {r}]]
    /\ job' = None
    /\ UNCHANGED << coordination, storage, handoffs, process, fenced, kernels >>

JobHandoff ==
    /\ JobAt("handoff")
    /\ HandsOff(job.run)
    /\ leases' = [leases EXCEPT ![job.run] = None]
    /\ job' = None
    /\ UNCHANGED << coordination, storage, pending, interrupted, stopped, handoffs, process,
                    fenced, kernels >>

\* The bookkeeping of an exited owner whose runs are all reconciled.
Dispose(o) ==
    /\ Ready
    /\ interrupted[o] # None /\ interrupted[o].exited /\ interrupted[o].runs = {}
    /\ Coordinator!DisposeOwner(o)
    /\ interrupted' = [interrupted EXCEPT ![o] = None]
    /\ UNCHANGED << storage, leases, pending, stopped, handoffs, job, process, fenced, kernels >>

-----------------------------------------------------------------------------
\* The Host after its startup: nothing is owned, the startup owners serve.
Init ==
    /\ role = [o \in Owners |-> IF o \in Startup THEN "default" ELSE "new"]
    /\ defaultOf = [u \in Units |->
                       CHOOSE o \in Owners : o \in Startup /\ UnitOf[GenOf[o]] = u]
    /\ exited = {} /\ blocked = {} /\ revoking = {} /\ stoppedRuns = {}
    /\ sessions = [s \in Sessions |-> None]
    /\ runs = [r \in Runs |-> None]
    /\ claims = [s \in Sessions |-> None]
    /\ interruptions = [r \in Runs |-> {}]
    /\ fencing = [o \in Owners |-> {}]
    /\ pendingReleases = {} /\ tools = {}
    /\ resources = [k \in Keys |-> None]
    /\ capacity = [reserved |-> [s \in Sessions |-> None],
                   slots    |-> Coordinator!Slots!EmptySlots(CapacityLimit)]
    /\ fence = 0
    /\ calls = << >>
    /\ db = Durable!EmptyDatabase(1)
    /\ replies = << >> /\ drops = 0
    /\ leases = [r \in Runs |-> None]
    /\ pending = [r \in Runs |-> "none"]
    /\ interrupted = [o \in Owners |-> None]
    /\ stopped = {} /\ handoffs = {} /\ job = None
    /\ process = [o \in Owners |-> IF o \in Startup THEN "alive" ELSE "none"]
    /\ fenced = [o \in Owners |-> "none"]
    /\ work = [r \in Runs |-> None] /\ writes = {}

PortStep == Serve \/ Drop

ReplyStep == ClaimAnswered \/ UnclaimAnswered \/ ReleaseAnswered \/ RevokeAnswered

RunStep(r) ==
    \/ \E o \in Owners, captured \in SUBSET Owners : KernelClaims(o, r, captured)
    \/ Write(r) \/ ReadRefused(r) \/ CallFails(r) \/ Abort(r) \/ ReportsStop(r)
    \/ Release(r) \/ Cancel(r)
    \/ \E o \in Owners : \/ \E call \in CallIds : StartTool(r, call, o)
                         \/ \E key \in Keys : StartCommand(r, key, o)

ActivityEnds == (\E t \in tools : EndTool(t)) \/ (\E key \in Keys : EndCommand(key))

OwnerStep(o) == Prepare(o) \/ Activate(o) \/ Die(o) \/ Fault(o) \/ Exit(o) \/ Dispose(o)

JobStart(r) == StartClaim(r) \/ StartHandoff(r) \/ \E o \in Owners : StartInterrupted(o, r)
JobStep     == JobRead \/ JobRevoke \/ JobFree \/ JobRecover \/ JobCleanup \/ JobHandoff \/ JobFails

Next ==
    \/ PortStep \/ ReplyStep
    \/ \E lease \in writes : WriteArrives(lease)
    \/ \E lease \in handoffs : FinishHandoff(lease) \/ FailHandoff(lease)
    \/ \E r \in Runs : RunStep(r) \/ JobStart(r)
    \/ ActivityEnds
    \/ \E o \in Owners : OwnerStep(o)
    \/ JobStep

\* What an executor, and what the Host for a process, does without being asked.
ExecutorAdvances(r) == Write(r) \/ ReadRefused(r) \/ ReportsStop(r) \/ Release(r)
OwnerAdvances(o) ==
    \/ Prepare(o) \/ Activate(o)
    \/ fenced[o] # "none" /\ Die(o)
    \/ process[o] = "dead" /\ Fault(o)
    \/ Exit(o)

\* The port, the replies and the writes are promises of live processes; a
\* faulted process is killed and its retirement is retried with a backoff; a
\* sweep schedules reconcile every second and each pass looks at every run;
\* a tool call, an executor and a command end (they have deadlines).
Fairness ==
    /\ WF_vars(Serve) /\ WF_vars(ReplyStep)
    /\ WF_vars(\E lease \in writes : WriteArrives(lease))
    /\ WF_vars(\E lease \in handoffs : EndHandoff(lease))
    /\ WF_vars(ActivityEnds) /\ WF_vars(JobStep)
    /\ \A r \in Runs : WF_vars(ExecutorAdvances(r)) /\ SF_vars(JobStart(r))
    /\ \A o \in Owners : WF_vars(OwnerAdvances(o))

Spec     == Init /\ [][Next]_vars
FairSpec == Spec /\ Fairness

-----------------------------------------------------------------------------
(* Properties.                                                              *)

\* Types of the Host's and the kernels' state.
TypeOK ==
    /\ db \in Durable!Databases
    /\ Len(replies) <= Len(calls)
    /\ drops \in 0..MaxDrops
    /\ leases \in [Runs -> Leases \cup {None}]
    /\ pending \in [Runs -> {"none", "pending", "failed"}]
    /\ interrupted \in [Owners -> Faults \cup {None}]
    /\ stopped \subseteq Runs /\ handoffs \subseteq Leases
    /\ job \in Jobs \cup {None}
    /\ process \in [Owners -> {"none", "alive", "dead", "exited"}]
    /\ fenced \in [Owners -> {"none", "pending", "done", "failed"}]
    /\ work \in [Runs -> Works \cup {None}]
    /\ writes \subseteq Leases
    /\ \A r \in Runs : pending[r] # "none" => leases[r] # None

Open(s) == CanWake(s) /\ Coordinator!SessionFree(s)

\* A session that the Host and the coordinator would hand to the next run is
\* really free: no run of it is authorised or running in the database, and no
\* executor is left in any process.
OpenSessionIsFree ==
    \A s \in Sessions : Open(s) =>
        \A r \in RunsOf(s) :
            ~Durable!ActiveRow(db, r) /\ db.status[r] # "running" /\ ~Executing(r)

\* The storage accepts every revocation the coordinator groups by authority.
RevocationsAreAccepted ==
    \A i \in DOMAIN replies :
        calls[i].op \in {"revoke", "unclaim"} => replies[i].kind # "refused"

\* Recovery never meets an authority in force or a live executor.
RecoveryIsClear ==
    JobAt("recover") => ~Durable!ActiveRow(db, job.run) /\ ~Executing(job.run)

\* An executor that lost its authority (aborted, or refused by the coordinator
\* or the database) can report its stop, so that the loss is not fatal to its
\* kernel: the coordinator knows the fault, and nobody reconciled the run
\* meanwhile.  It says nothing of an executor that the port failed ("failing").
LostAuthorityIsAcknowledged == \A r \in Runs : At(r, "stopping") => StopAcceptable(r)

\* The coordinator's own invariants hold with the drivers, successors and
\* durable answers it really has, not only with an open port.
CoordinatorStaysCoherent ==
    /\ Coordinator!IndexesAgree
    /\ Coordinator!PhysicalWorkPinsLease
    /\ Coordinator!DeferredReleaseWaits
    /\ Coordinator!ReleaseInFlightIsGated
    /\ Coordinator!CapacityAccounted

\* All of them at once, for the instance in which the Kernel itself fails.
HandoffIsSafe ==
    /\ OpenSessionIsFree
    /\ RecoveryIsClear
    /\ LostAuthorityIsAcknowledged
    /\ RevocationsAreAccepted
    /\ CoordinatorStaysCoherent

Authority == INSTANCE ExecutionAuthority
               WITH authorised <- {r \in Runs : Durable!ActiveRow(db, r)},
                    executing  <- {r \in Runs : Executing(r)},
                    ended      <- {r \in Runs : db.status[r] = "settled"}

\* The four parties together keep the promise of ExecutionAuthority.
ImplementsAuthority == Authority!Spec

\* A run whose executor has stopped is reconciled.
StoppedRunsAreReconciled == \A r \in Runs : r \in stopped ~> r \notin stopped

\* The session of a run that has settled is handed on.
SettledRunsHandOver == \A r \in Runs : Stage(r) = "settled" ~> Open(SessionOf[r])

\* The same of a run that no fault interrupts meanwhile, whatever it deferred
\* its release for and whichever kernel hands it off.
UninterruptedRunsHandOver ==
    \A r \in Runs : Stage(r) = "settled" ~> Open(SessionOf[r]) \/ Interrupted(r)
=============================================================================
