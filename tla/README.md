# hbar execution authority: models, checks and proofs

hbar is a host for AI agent sessions.  A stable *Host* process keeps the
listeners and the authority; everything else (the Kernel that executes runs, the
Pi driver, the plugins, the Controller, the storage writer) is a process of its
own that may crash, be fenced, sleep or be replaced by a new generation while
sessions keep running.  The hard question of the system is therefore one of
authority: *who executes a session now, who may commit its end, when may the next
one start, and what becomes of a run that was cut off?*  `docs/runtime-recovery.md`
and `docs/backend-autonomy.md` promise one executor per session, no late commit of
a revoked one, recovery only after the executor has really stopped, at most one
continuation of an interrupted run, one storage writer whose lost answers are
never retried blindly, and processes that are awake exactly while somebody needs
them.  This project models the code that keeps these promises, checks it with TLC
and proves its safety, component by component, with TLAPS.

## 1. Inventory

State and operations of the parts that carry the core logic, and what makes each
of them correct.  `PROJECT.json` lists every component, with the reason where one
is not modelled.

| part | source | state | operations | correct when |
|---|---|---|---|---|
| Execution slots | `packages/runtime/src/execution-slots.ts` | activities of executions, queue, active and ready sets, capacity | reserve, suspend, resume, release, releaseExecution, setCapacity, takeReady | derived sets agree; no slot idles; FIFO; a lowered capacity preempts nobody |
| Runtime coordinator | `packages/runtime/src/coordinator.ts`, `coordinator-port.ts` | owners and roles, leases by run and by session, claims in progress, gates, interruptions, deferred releases, tool permits, resource leases, reservations | register, activate, claim, requestRelease, revoke, ownerExited, acknowledgeRunStopped, reconciled, disposeOwner, tools and resources | a lease stays while anything physical of it does; gates close whenever memory and database may differ |
| Durable authority | `packages/storage/src/runtime-state.ts`, `worker-database.ts` | ownership rows, run statuses, journal | claim, assert + write, release, revoke, recover, restore | one authority per session; fences rise; ended authority is final; the journal rebuilds the rows |
| Host composition | `apps/host/src/process-host-runtime.ts` | Host leases, pending claims, interrupted runs, stopped runs, transition chain | canWake, persistence adapter, fault, onExit, reconcile, handoff | a session opens only when free, and does open again |
| Recovery of interrupted runs | `packages/kernel/src/runtime-recovery.ts`, `packages/storage/src/runtime-state.ts`, `packages/kernel/src/run-commands.ts` | recovery records, chains, relations, the session log; pending admissions of a Kernel | plan, hold, queue, cancel; resume, notify, `run.retry` | one continuation per run, within the limits, never after a cancellation, and no accepted request forgotten |
| Storage port | `packages/storage/src/stable-port.ts` | queue, in-flight calls, leases, writer, phase, cached count | call, install, handover, maintenance, seal, fence, reconcile | each call runs at most once, and every caller is answered |
| Storage gate of the Host | `process-host-runtime.ts`, `runtime-maintenance-relay.ts` | storage failure, demand holds, maintenance gate | acquireStorageDemand, installStorage, onActivating, fault, maintenance | the installed writer is the one that serves; an unconfirmed write stays fenced |
| Demand lifecycle | `packages/runtime/src/runtime-demand-lifecycle.ts`, `apps/host/src/runtime-host-demand.ts` | phases and owners of units, leases, waiters, failed starts, barriers | acquire, release, retireIdle, fence, reconcile, beginReload | what is held stays up; what is answered is current; nothing stays pinned |
| Runtime manager | `packages/runtime/src/manager.ts` | generations, candidates, demand attempts, idle phase | holdDemand, retireIdle, wake, reload, recover, collect | nobody is retired while held |
| Kernel | `packages/kernel/src/index.ts`, `apps/host/src/runtime-kernel-process.ts` | active runs, drains | drain, fenceRuns, release, stopped | an aborted executor reports; a settled one releases |
| Managed process | `packages/runtime/src/process.ts` | phase, fence, retirement, backoff | prepare, activate, fault, exited, recover | a successor starts after the retirement of its predecessor |
| Process lease | `packages/runtime/src/process-lease.ts` | PID file | acquire, release | one Host per data directory |
| Notifications, deadlines, wake-ups | `notification-delivery.ts`, `rpc-deadline.ts`, `kernel/src/session-wakeups.ts` | bounded queues and timers | publish, flush, suspend, schedule, transfer | order kept, no lost timer |

**How they interact.**  A Kernel calls `execution.claim` on the coordinator port.
The coordinator reserves a slot, drafts a lease and awaits the Host's persistence
adapter, which remembers the draft and sends it through the storage port to the
database; the reply registers the lease and starts the executor.  The executor's
final write passes the coordinator (`assertCanWrite`), then the port, then the
database's own `assert`.  `execution.release` goes the same way back and ends in
the Host's `handoff`.  When a process misses heartbeats or exits, `fault` records
the runs it touches, revokes their leases in memory at once and in the database
through the port, and asks the other Kernels to abort; `onExit` follows when the
process tree is joined and the fence answered; the sweep's `reconcile` recovers
each interrupted run, opens its session, and tells a Kernel, whose recovery
service plans and queues *one* run that continues it.

Every storage call first acquires the demand of the `storage` unit: the
lifecycle leases each unit of the closure, starting the ones that sleep, the
Manager holds their processes, and the call is sent to the writer that the Host
installed in the port.  Reload, idle retirement and database maintenance move the
port through a handover in which calls wait; a fault fences it, and only the exit
of the exact old writer with every call accounted for lifts that fence.

**What is hard.**  Every await is a point where another actor moves: a claim is
re-checked after its durable write; a write admitted before a revocation arrives
after it; receipts get lost; a release waits for tools; two owners fail for one
run; the hand-off itself is interrupted; the storage worker applies a call whose
Kernel is dead; a process falls asleep while somebody asks for it.
`PROJECT.json` lists these hazards at their lines with the properties that cover
them.

## 2. Modules

| module | models |
|---|---|
| `ExecutionSlots` | `execution-slots.ts`, every method |
| `ExecutionLease` | the identities the other modules share: owners, generations, units, leases (`contracts/src/runtime.ts`) |
| `RuntimeCoordinator` | `coordinator.ts`; instantiates `ExecutionSlots`; the persistence port may answer anything that its contract allows |
| `RuntimeState` | `runtime-state.ts` and the run statuses; each transaction is an operator from a database to a database and a reply, so that the composition can run it at the far end of the port |
| `ExecutionHandoff` | the composition: `RuntimeCoordinator` (`Coordinator`), `RuntimeState` (`Durable`), the Kernels, the processes, and the Host's faults and reconciliation |
| `ExecutionAuthority` | abstract: which runs are authorised, executing, ended.  `ExecutionHandoff` implements it |
| `RuntimeRecovery` | the continuation transactions of `runtime-state.ts`: `Plan`, `Hold`, `Queue`, `Cancel`, with the records, chains, relations and log they write |
| `RecoveryAdmission` | `kernel/src/runtime-recovery.ts` and `run.retry` of several Kernels over these transactions, with lost replies and Kernels that die |
| `ContinuationLineage` | abstract: a run is continued at most once, within limits, unless cancelled; `origin` names the run each lineage began with.  `RecoveryAdmission` implements it |
| `StableStoragePort` | `stable-port.ts`: the port as a record, one operator per method |
| `StorageService` | the port with its callers, the Host's gate, the incarnations of the storage process, reload, idle retirement and maintenance |
| `AtomicCalls` | abstract: a call runs at most once, `ok` follows its run, a refused call never runs.  `StorageService` implements it |
| `RuntimeDemand` | the demand lifecycle and the barriers of the Host over the Manager's units and their processes |
| `ExecutionSlotsProofs`, `RuntimeCoordinatorProofs`, `RuntimeStateProofs`, `ExecutionHandoffProofs`, `RecoveryAdmissionProofs`, `StorageServiceProofs`, `RuntimeDemandProofs` | the theorems about the module of that name |
| `ExecutionHandoffInvariant` | the inductive invariant of the hand-off and the first half of its preservation; `ExecutionHandoffProofs` extends it |
| `MC...` | the instances for TLC; `ExecutionSlots` needs none |

State corresponds to fields by name.  Where a name differs, in the hand-off:
`claims` is `claiming`, `claimVersions` and the local variables of a `claim`
between its await and its reply; `capacity` joins `capacityReservations` and
`executionSlots`; `calls` is the queue of persistence calls still unanswered and
`fencing` the rest of a `revoke` loop; `pending` is `pendingClaims`; `job` is the
local state of the one `reconcile` pass in progress; `work` is the executor of a
run inside its Kernel (`active` and the promise of `drain`), at a stage of
`executeClaimed` and its release; `writes` are writes
the coordinator has admitted and the database has not yet seen; `process` and
`fenced` are the phase and the fence of `ManagedRuntimeProcess`.  In the storage:
`at` is how far a dispatched call is (the IPC peer's queue, sent, run), `seen` the
value a queue read carries back, `gate` the writer state of the maintenance relay,
`barred` the barrier of `HostRuntimeDemand`, `stranded` says that
`storageUnknownDemands` is not empty.  In the demand: `life` is the lifecycle's
unit, `att` the `holdDemand` of a call or of a start, `mgr` the Manager's unit and
its serialized work, `failed` is `failedStarts`.  In the recovery: `table` joins
`runtime_recoveries`, the chains and the `recovery` column of the runs, `logged` is
what replaying the session log gives, `pending` the Kernel's entries, `asks` the
`run.retry` commands under way, `late` the calls in the storage worker whose caller
is gone.

A method without an await is one action.  A method with an await is one action up
to it and one that receives the reply.  `reconcile` is the chain of actions
`StartClaim`/`StartHandoff`/`StartInterrupted`, then `JobRead`, `JobRevoke`,
`JobFree`, `JobRecover`, `JobCleanup` or `JobHandoff`, because everything else may
happen between its awaits; an acquisition of demand is `RequestLease`, the visits
of its attempt and `Grant`; an entry of the recovery service is one `Call` or
`Check` per pass of its loop.

An executor ends in one of three ways.  It settles its run and asks for the release
(`Write`, `WriteArrives`, `Release`).  Or it loses its authority (stage `stopping`): it
is aborted by `kernel.fence` (`Abort`), or the coordinator or the database refuses its
final write (`Write`, `WriteArrives`) or the read for the observers of `run.end`
(`ReadRefused`; the database refuses that read only where the coordinator does too).  Or
the port fails that write or that read for a reason of its own (`CallFails`, stage
`failing`: `STORAGE_DEMAND_TIMEOUT`, `STORAGE_DEMAND_OWNER_CHANGED`, `STORAGE_CAPACITY`,
`STORAGE_HANDOVER_TIMEOUT`, an unknown result); the write is then lost, or arrives with
nobody waiting for it.  In the
last two cases `drain` reports the stop (`ReportsStop`) and throws the error on to
`startDrain`, which takes the Kernel down unless the error says that the authority was
lost.  `acknowledgeRunStopped` refuses a report when no fault of the run is on record
(`EXECUTION_OWNER_MISMATCH`), which is fatal too.  So an executor the port fails is
always fatal to its Kernel, with or without an acknowledgement, and the fault, exit and
reconciliation of that Kernel clean up after it; after an acknowledgement the exit may
be a later step (`FatalSoon`) if the Kernel is one of the `Mortal` ones.

Definitions marked *Mutant of X* are changed forms of X that a plausible bug
would give; they are used by no specification and show that a property would
notice that bug.

## 3. Runs

| run | instance | shows |
|---|---|---|
| `slots` | 3 executions, 2 activities, capacity 1..3, activity limit 5 < 6; fairness of callers | agreement of derived sets, work conservation, no over-admission, FIFO, no starvation (11 823 states) |
| `state` | 2 sessions, 3 runs, 5 drafts of two Hosts with reused fences | one owner per session, release after the end, finality, rising fences, journal rebuilds rows (39 264 states) |
| `coordinator` | 2 sessions, 3 runs, 1 Kernel, 2 slots, 1 tool permit, every kind of resource, port open | index agreement, physical work pins leases, deferred releases, gates, reservations equal slots (258 536 states) |
| `handoff` | 1 session, 2 runs; the driver may fail, the second Kernel is the next generation; one failure of the port: a lost call of the Host, or a rejected write or read of an executor; a command in the driver | refinement of `ExecutionAuthority`, open session is free, recovery is clear, revocations are accepted and so are the reports of executors that lost their authority, the coordinator stays coherent inside the composition (156 467 states) |
| `handoff_live` | Kernel and driver both mortal and both restarted, tools that defer a release, no failure of the port; fairness | the same safety and refinement; stopped runs are reconciled; settled runs hand over unless a fault interrupts them (61 524 states) |
| `storage` | 2 writes, 1 queue read, 3 incarnations, in-flight limit 2, queue limit 1, acquire limit 2; fairness of timers | refinement of `AtomicCalls`; the cached count is current, leases cover exactly the work, no Worker closes under a call, an unconfirmed write stays fenced, every caller is answered (171 466 states) |
| `demand` | a plugin over the storage, one call for each, 3 and 2 incarnations; fairness | holds are honoured, answers are current, open units serve, nothing stays pinned, every call is answered (290 389 states) |
| `recovery` | 1 submitted run and 2 that may continue it, 2 Kernels, requests of 2 users, limits 1 and 2 | refinement of `ContinuationLineage`; a chain names its tail and counts its lineage, the log rebuilds everything, an accepted request is tried (245 286 states up to symmetry) |
| `settled_run_after_dependency_fault`, `call_during_maintenance`, `read_failure_before_install`, `reload_preparation_fails` | smaller instances of hand-off, storage and demand | the findings of section 6 |

The modules that translate code state a type invariant each.  They are proved
(section 4) and are not among the listed properties.

**Bounds.**  *Hand-off*: `MaxFence` bounds the lease counter and so the number of
claims (two per run at least); `Mortal` the owners that may fail on their own (two
overlapping faults, in `handoff_live`, are what `interruptions`, `Concerned` and
the splicing in `reconcile` are written for); `MaxDrops` the failures of the port, which
are lost calls of the Host, failed jobs and hand-offs, and rejected final writes and
reads of executors (`CallFails`), together (one: each retry path is entered, and so is
the death of a Kernel that is not `Mortal`; with two the same paths repeat);
`MaxTools`, `CapacityLimit` the limits of the code, set to values at which they
bite; one session, because sessions share only capacity, fences and owners, which
`coordinator` and `state` check with two.  `Startup` are the owners the Host starts
with: a Host is modelled after its bootstrap.

*Storage*: `MaxOwners` bounds the incarnations: three give a crash or reload of a
successor; the last one does not crash.  Each caller calls once, and the limits are
such that the queue and the gate both overflow.  Writes flip whether the one
session is queued, so that a stale count shows.

*Demand*: `MaxOwners` likewise; one unit that takes a checkpoint before sleeping
and one that does not.

*Recovery*: `MaxBusy` bounds admissions, requests on their way and calls that
nobody waits for, together, at two; `Losable` names the call whose reply may be lost
(`queue`, the one that is not idempotent by itself); `Approvals`, `Completions` and
`Settings` the runs and the combinations of switches that may withhold a
continuation.  The limits 2 and 32 of the code are 1 and 2, so that three runs reach
both.  A request is outstanding at one Kernel at a time.  Kernels and requests are
interchangeable, which the symmetry uses.

Deadlock checking is off where a bounded instance really ends (no incarnation is
left to restart, no run left to queue); it is on for `slots`.

**Fairness.**  `ExecutionHandoff!Fairness`: the port serves calls and replies
arrive (promises of live processes, with deadlines that answer otherwise); an
executor goes on; a hand-off ends; a tool or a command ends (both have
deadlines); the retirement of a failed process and the start of its successor
advance (`terminate`, `reconcileRetirement` and `scheduleRecovery` retry with a
backoff); a pass of `reconcile` goes on; a run that is ready for reconciliation
infinitely often is taken up (strong, because another run's job makes it not
ready meanwhile: the one second sweep schedules a pass whenever none is pending,
and each pass looks at every run).  Nothing forces a crash, a claim, a
cancellation or a lost call.

`ExecutionSlots`: the callers are assumed to release or suspend what runs.

`StorageService!FairSpec`: only timers fire and microtasks run (the deadlines of
the gate, the queue and the IPC peer, and the continuation after a granted demand);
no process is assumed to answer, to recover or to leave.

`RuntimeDemand!FairSpec`: an awaited step of an acquisition goes on, and a start, a
retirement and a reload end, because each has a deadline; nobody has to call,
release, crash, recover or be idle.  `ReconcilingSpec`, used by the finding, adds
the reconciliation the Host performs once a second, releases, and the recovery and
retirement of processes, so that the counterexample is not one of mere inaction.

`RecoveryAdmission` is checked for safety only.

## 4. What is proved

By TLAPS, for every value of the constants that satisfies the assumptions in the
modules: the type invariants, every safety invariant and every action property that
the runs check, and the three refinements of abstract specifications.

* **Slots** (`ExecutionSlotsProofs`): `SlotsCoherent`, `SlotsWorkConserving`,
  `SlotsNoOverAdmission`, `SlotsFirstComeFirstServed`.  The code rebuilds the queue
  and the active set after each call (`reconcile`, `pump`), so the proof goes through
  what these two guarantee for *any* input: lemmas for `Dequeue`, `Enqueue`,
  `Reconcile`, the cardinality of an admitted prefix, `Pump` and `Settle`.  Coherence
  with the types is inductive; work conservation follows from `Settle` alone.  For the
  order of admission each lemma also says what becomes of two places in the queue:
  nobody is ever put before one who waits (`ServedInOrder`).
* **Coordinator** (`RuntimeCoordinatorProofs`): `CoordinatorTyped`,
  `IndexesStayInStep`, `PhysicalWorkPins`, `DeferredReleases`, `ReleasesAreGated`,
  `CapacityStaysAccounted`, whatever the port answers.  None is inductive alone.
  `CallsSound` says what may still be assumed when a call is answered: the frame of a
  claim is untouched, the gate of a release is closed and its run holds nothing.
  `ClaimsLast`: the port's queue has one claim per session and no release behind it.
  `Numbered`: no two leases or claims share a number, without which a permit would
  pin another run's lease too.  `Framed`: a claim under way excludes a lease of its
  session.  `Accounted` and `Admitted`: a run is known to the slots exactly while its
  session is reserved for it.  What the loop of `releaseQueuedOwner`, a fold over a
  set of sessions, keeps is shown by induction over that finite set.
* **Durable authority** (`RuntimeStateProofs`): `StateTyped`, `StateOneOwner`,
  `StateReleasedAfterSettling`, `StateAuthorityIsFinal`, `StateFencesRise`,
  `StateIsRebuilt`.  `OneOwnerPerSession` is not inductive alone: a released row could
  belong to a run that still runs, and nothing would tie a row to the run it is stored
  under.  The invariant is `Tables /\ OneOwnerPerSession /\ ReleasedAfterSettling`,
  where `Tables` says that the rows are typed, that each was written for a draft of its
  own run and differs from it in the fence only, and that the fences have a greatest
  element.  A step changes the tables in one of four ways (`Starts`, `GivesUp`,
  `LoseAuthority`, `Ends`): `ClaimStarts`, `ReleaseGivesUp`, `RevokeLosesAuthority`
  and `OthersEnd` show which transaction does which, and the preservation lemmas use
  the four only.  A new fence is above every earlier one because `Raise` is above
  the greatest.  For the journal the invariant says which event left each row
  (`RowsAreLogged`: the last event of a run is its row's); that the replay, a fold over
  the whole journal, computes just those rows is an induction over its prefixes.
* **Hand-off** (`ExecutionHandoffInvariant`, `ExecutionHandoffProofs`):
  `HandoffTypeOK`, `OpenSessionsAreFree`, `RecoveriesAreClear`,
  `LossIsAlwaysAcknowledged`, `RevocationsAreNeverRefused`,
  `HandoffKeepsCoordinatorCoherent`, `HandoffSafe`, all from `HandoffInvariant`; then
  `HandoffImplementsAuthority`, the refinement of `ExecutionAuthority`.
  `AuthorityOneExecutor` and `AuthorityNoLateCommit` say what that promise is worth: a
  session never has two executors, counting those that have lost their authority and
  not noticed yet, and an executor without authority never sees its run ended.  With
  the refinement they hold of the four parties: `HandoffOneExecutor` and
  `HandoffNoLateCommit`.  The argument is told below.
* **Recovery** (`RecoveryAdmissionProofs`): `AdmissionTyped`, `ChainsAreCurrent`,
  `LogIsComplete`, `RequestsAreKept`, and `LineagesKept`, the refinement of
  `ContinuationLineage`.  The invariant is a predicate `Sound(d)` of a *database*, so
  that the four transactions are dealt with once, whichever Kernel calls them, now or
  after its death.  That the chain counts its lineage is what makes the limits of the
  code, which compares `chain.attempts` and `chain.automatic`, the limits of the
  abstract specification, which counts runs (`Counted`); that it names the lineage's
  last run (`Chained`) is what makes a continuation the only one of its predecessor.
* **Storage** (`StorageServiceProofs`): `TypeCorrect`, `CacheCorrect`, `PinsCorrect`,
  `WorkersCorrect`, `FenceCorrect`, and `PromiseKept`, the refinement of
  `AtomicCalls`.  The invariant `Sound` is a predicate of the parts of a state, so that
  it can be asked of the port in the middle of a handler, before the pump that ends
  every handler.  `PumpKeeps`, `FenceKeeps`, `RefuseKeeps` and `InstallKeeps` say what
  the port's own operations keep; each handler composes them.  `CacheIsSound` covers the
  reads that may still fill the cache, not only the cached number; `WorkersAreOpen` and
  `WritesAreAccounted` say which calls may still reach a Worker, and which failure the
  Host has on record for a write that may have run.
* **Demand** (`RuntimeDemandProofs`): `DemandTyped`, `HeldOwners`, `OpenUnits`,
  `PinsOwned`, `GrantsCurrent`, from `DemandInvariance`.  Lifecycle, Manager and Host
  each keep a part of the truth about a unit, and the invariant is what each may
  assume of the others.  A lease keeps the lifecycle from retiring its unit
  (`LeasesPin`); so what a start depends on is up, and a start dispatches its own unit
  only (`StartsOwnOnly`), for the current owner (`StartsCurrent`).  What an attempt
  has visited counts as one of the unit's holds (`VisitsCount`), so the Manager
  neither lets it sleep nor replaces it (`VisitedUp`).  A unit without a barrier
  serves with the incarnation its owner names (`OpenServes`), because a crash
  and a replacement (`ReplacedBarred`) close it first, and a retirement's last step is
  taken only with the incarnation that serves (`WorkKnown`).  `UnitMoves` and `UnitLives` say what a
  change of one unit has to bring; each action has a lemma that brings it.

**The hand-off's invariant.**  None of the hand-off's properties is inductive: each
speaks of one moment (a session opens, a recovery begins, a report arrives) and rests
on what the other parties have done since the run was claimed.  `IInv` is the
invariant of `RuntimeCoordinatorProofs`, whose lemmas are instantiated and reused
(`C`), with a part for each party:

| part | says |
|---|---|
| `Typed`, `OwnersSound` | role, process, fence and ledger entry of an owner go together; of a generation one incarnation is up |
| `HostSound`, `OneLease` | Host, coordinator and database name the same lease of a run; a run in force has a Host lease; of a session one run has one |
| `FrameSound` | a claim under way captured owners that served; a fault that interrupts its run is a fault of one of them |
| `CallsSound`, `OneRevocation` | what each call in the port, answered or not, says of the rows: a granted claim's row is its answer, a release is of an ended run without an executor, a revocation names an authority the storage accepts |
| `TracesSound` | deferred releases, writes on their way, fences and hand-offs are of leases that were registered once |
| `WorkSound` | an executor has the registered lease of its run; unless a fault concerns the run, its authority is in force and its gate open |
| `FenceSound` | a fault reaches every run it concerns and its fence every authority of them; a lease nobody executes any more has lost its authority |
| `JobSound` | what a reconciliation has established at each of its stages |

Why the parts need each other: an open session is free because a row in force or a
running run has a Host lease (`HostSound`), which keeps the session closed, in the
Host while the lease is not registered (`canWake`) and in the coordinator while it is;
that the Host gives such a lease up only after the authority has ended is what
`FenceSound` and `JobSound` are for.  Recovery is clear
because the stages before it end the authority (`JobSound`) and no executor is left
without a registered lease (`WorkSound`).  `LostAuthorityIsAcknowledged` holds because
only a fault takes an executor's authority, and the coordinator keeps that fault on
record until the report (`WorkSound`); an executor that the port failed (`failing`) is
outside this property, because its report is refused unless a fault happens to concern
its run.  `HandoffSafe` and the refinement do cover such an executor, its Kernel's death
and its late write.  A revocation is accepted because `AuthorityFor` names the owner of the
lease or a dependency it is bound to (`Revocable`).

The coordinator here and the one of `RuntimeCoordinatorProofs` are two instances of
one module, equal definition by definition; the lemmas named `...Same` say so.  (The
prover carries every definition in scope into every step, several times over for
modules that are instantiated.  So `ExecutionSlots` and `RuntimeCoordinator` state the
two sequence operators they need, `Without` and `Listed`, which are `RemoveAt` and
`SetToSeq` of `SequencesExt`, and do without that library.)  Most
parts look only at the past of a run, so that one statement of what a step may do to
it (`Lasts`, `Fades`, `Remembers`) carries them through every action that is not about
that run; `Quiet`, `Serving`, `Withdrawing` and `ClaimConcludes` gather this for the
kinds of steps.  For the refinement, each action is one of the changes of the
abstract state (`GrantPromised` to `ConcludePromised`) or none.

Assumptions of the hand-off (`HandoffAssumption`): a Kernel unit exists, each unit has
one owner that serves at startup, what a run is bound to beside its Kernel are no
Kernels, and no owner is the storage process, which here is the far end of the port.
The code admits runs only while a Kernel and the default of every unit serve
(`executionReady`).

Assumptions of the others: `ExecutionLease`, `RuntimeCoordinator`, `RuntimeState`,
`ExecutionSlots`, `RuntimeRecovery`, `RecoveryAdmission`, `StableStoragePort`,
`StorageService` and `RuntimeDemand` name what they need of the constants: finite sets
where maxima or cardinalities are taken, positive limits, `None` outside the typed
sets, and in `DraftsAssumption` that a draft's identifier is its own (a UUID in the
code).  TLC evaluates them in the runs.  One is about order: `DemandAssumption` has
the closure of a unit list every unit after its dependencies, which the depth-first
closure of `runtime-host-demand.ts:668-687` does.

The induction theorems of the library take an operator as a parameter, which no
installed prover instantiates; the inductions above (over the sessions of an
owner, over the prefixes of a journal) are therefore written out, from a least
counterexample of a well-founded order.

## 5. Only model-checked, or not modelled

Only model-checked: all liveness, because fairness and `ENABLED` are out of the
prover's reach: `NoStarvation`, `StoppedRunsAreReconciled`,
`UninterruptedRunsHandOver`, `CallsAreAnswered`, `CallsSettle`.  The findings of
section 6 are counterexamples TLC gives.

Abstracted everywhere: payloads, configuration, diagnostics; version sets are sets
of generations; times are moments that may come at any point.  In `RuntimeState` a
status is queued, running or settled, and rows of sessions outside the model are
one highest fence.

**Hand-off.**  Not modelled: candidates that fail before their activation, idle
retirement, closing and maintenance of the Host; faults of the storage writer and
the revocations that wait for its successor (`pendingRevocations`): the port is a
FIFO queue here that may drop a call before its dispatch or reject a call of an
executor, and `StorageService` checks the port by itself; the order of a write and a later revocation in the port
(a write may arrive later than the port would bring it, which allows more than the
code does); `relay.hasRun`, wake-ups and the idle hooks.
A claim whose read after the grant fails (`runtime-kernel-process.ts:481`) ends its
Kernel without a report; only a `Mortal` Kernel does so here, by `Die` before its
executor's first step.  `closeRunSteering`, the call before the final write, fails as
that write does.
`RuntimeRecoveryResponsibility.recover` does not repeat a dispatched
`kernel.recover` whose result is unknown; here `JobRecover` may be tried again.

A deferred release whose durable write is lost keeps its session's gate closed
until a restart; the code intends it ("A missing durable receipt keeps the Session
reconciliation gate closed; it is never retried blindly", `coordinator.ts:517`) and
a test pins it (`tests/runtime-coordinator.test.ts:386`), so the liveness run
combines deferral with faults but not with lost calls.

**Recovery.**  Not modelled: a Kernel that closes, receipts of remote nodes,
automatic retries of runs that failed, the 256 entries a Kernel admits, the ids of
the records (there is one record per predecessor), the order in which queued user
input is claimed before continuations, lineages of more than 128 runs in a
cancellation, the paging of `BackendRecoveryDiscovery` (what it finds is a
`Resume`), the accounting that `reconcile` appends.

**Storage.**  Not modelled: closing of Host and port, ports without demand,
adapters that throw before they dispatch, the 1024 entries of the ledger, refused
schemas, errors the domain answers, byte limits, deadlines that the IPC peer
follows past their end.  Demand holds kept for reconciliation are never given back
in the model.

**Demand.**  Not modelled: deferred and dormant drivers, faults of the bootstrap,
acknowledgements, permits and capacities, lifecycle dependencies, background
activity and idle deadlines, reloads of several units as a group with their
rollback, the capacity of two generations, stop and close, the adoption of a clean
exit by `reconcileDemandHold`, starts released without an owner, the check for
`INVALID_OWNER`.  The confirmation of a process's exit is part of `Respawn` or
`Retire`.

**Hazards that no property covers** are listed in `PROJECT.json` with the module
that is planned for each: the PID file of the data directory
(`process-lease.ts:71`), suspended deadlines (`rpc-deadline.ts:33`), the order of
notifications (`notification-delivery.ts:158`) and the Kernel's session queue
(`kernel/src/index.ts:2485`).

## 6. Findings

Each is a disagreement between the code and a text of the repository, shown by a
run of its own.

1. **A run that has settled is never handed over**
   (`process-host-runtime.ts:4586`), against the hand-over after completion that
   `docs/runtime-recovery.md:11` states.  A dependency fails while the final write of
   a run is on its way, or after it, and before the release.  `fault` lists the run as interrupted; its release is
   refused with `EXECUTION_OWNER_REVOKED`; the Kernel treats that as not fatal and
   sends `execution.stopped` only for runs whose execution failed, which this one's
   did not.  (Where the fault comes before the read for the observers of `run.end`,
   line 3306 of the Kernel, the refusal of that read does report the stop; a run that
   ended without a scope has no such read, and one whose read was answered is past
   it.)  Nobody ever adds the run to `stopped`, so `reconcile` skips it and
   `canWake` stays false for its session while the Kernel lives.  A deferred release
   is affected in the same way, because `revoke` drops it.  The same end is reached
   when the *Kernel* fails during the hand-off of an acknowledged release (line
   4942): the hand-off deletes the lease, and `onExit` marks only runs that have
   one.  `UninterruptedRunsHandOver` and `StoppedRunsAreReconciled` show that these
   are the ways in the model in which a session is not handed on.
2. **A call that asks for the storage during maintenance fences the writer**
   (`process-host-runtime.ts:4337`), where `stable-port.ts:531` says that new calls
   wait.  The hold is granted on the default owner, the port is in its handover and
   so does not serve it, and `acquireStorageDemand` takes that for a changed owner.
   `endMaintenance` then refuses the fenced port.
3. **A storage process that fails after its activation and before its installation
   cannot be recovered** (`process-host-runtime.ts:4419`), although
   `docs/runtime-recovery.md:39` promises recovery when only reads were under way:
   it becomes `storageFailure.owner`, and the port refuses to reconcile an owner
   that is not its writer, for every later incarnation.
4. **A reload whose candidate fails in its preparation closes the unit**
   (`runtime-host-demand.ts:459`), where `docs/runtime-recovery.md:17` says that the
   serving version stays.  The barrier of `beginReload` is committed when the
   candidate is queued and is lifted only for an owner that is proven retired; the
   one that serves is not.

Observed while modelling, without a run: a request for a continuation that is sent
again after its run was queued automatically and interrupted can get a second run
if its look-up of the earlier answer came before the queueing and its reading of
the chain after the interruption (`run-commands.ts:214-246`; the model joins the
two reads); a Host that dies between the storage's `recover` and the queueing leaves
an interrupted run that only `run.retry` continues; a plan made while the session is
archived stays `manual_required`; a failed acquisition that is quarantined fences
its healthy dependencies without a barrier (`runtime-host-demand.ts:653-657`); a
wake that fails can leave `idlePhase` at `unknown`.

## 7. Plan

Done: the execution authority, the recovery of interrupted runs, the storage port
with its gate, and the demand lifecycle, each modelled and checked, with its safety
and its refinement proved.  Next, in this order:

1. `ProcessLease`, `RpcDeadline`, `NotificationDelivery`, `SessionWakeups`: small
   state machines with timers and races.
2. `RecoveryResponsibility`: the receipt of `kernel.recover` over reloads of the
   Kernel, between `ExecutionHandoff` and `RecoveryAdmission`.
3. Reload groups of the Manager: staging, activation and rollback of a closure of
   units.
4. The storage port in place of the FIFO queue of `ExecutionHandoff`, with
   `pendingRevocations`.
