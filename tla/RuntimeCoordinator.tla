------------------------- MODULE RuntimeCoordinator -------------------------
(***************************************************************************)
(* packages/runtime/src/coordinator.ts: the stable Host's execution         *)
(* authority.  It decides which incarnation executes which run, keeps a     *)
(* lease registered until every physical activity of the run has ended, and *)
(* closes a session's gate (`blocked`) whenever the durable state may       *)
(* differ from its own.                                                     *)
(*                                                                          *)
(* The synchronous methods are one action each.  A method that awaits the   *)
(* persistence port appends a call to `calls` and continues in the action   *)
(* that receives the reply.  The port answers in the order of the calls     *)
(* (one writer executes them); what it answers is left open here and given  *)
(* by RuntimeState in ExecutionHandoff.                                     *)
(***************************************************************************)
EXTENDS ExecutionLease, Sequences, FiniteSetsExt

CONSTANTS
    CallIds,        \* tool call identifiers
    Keys,           \* resource keys
    CapacityLimit,  \* EXECUTION_SLOT_LIMITS.executions
    MaxTools,       \* RUNTIME_LIMITS.tools
    MaxFence        \* bound of `fence` for the checker

VARIABLES
    role, exited, defaultOf,                      \* owners, defaults
    sessions, runs, claims, blocked,              \* leases and their gate
    revoking, interruptions, stoppedRuns, fencing, pendingReleases,
    tools, resources,                             \* physical activity
    capacity,                                     \* reservations and slots
    fence, calls

registry == << role, exited, defaultOf >>
leasing  == << sessions, runs, claims, blocked >>
faults   == << revoking, interruptions, stoppedRuns, fencing, pendingReleases >>
physical == << tools, resources >>
port     == << fence, calls >>
vars     == << registry, leasing, faults, physical, capacity, port >>

Slots == INSTANCE ExecutionSlots
           WITH Executions <- Runs, Activities <- {"execution"},
                MaxExecutions <- CapacityLimit, MaxActivities <- CapacityLimit,
                MaxPerExecution <- 1, slots <- capacity.slots

Roles  == {"new", "candidate", "default", "draining", "fenced", "forgotten"}
Frames == [lease : Leases, captured : SUBSET Owners, stage : {"claim", "revoke"}]

\* op         the persistence method and the handler that awaits it
\* by         the failed owner of a revocation
\* authority  the owner in whose name the rows are revoked
Calls ==
    [op        : {"claim", "unclaim", "release", "revoke"},
     lease     : Leases \cup {None},
     by        : Owners \cup {None},
     authority : Owners \cup {None},
     runs      : SUBSET Runs]

Permits   == [lease : Nat \ {0}, call : CallIds, owner : Owners]
Resources == [owner : Owners \cup {None}, lease : Nat, call : CallIds \cup {None},
              session : Sessions \cup {None}]

\* A reservation of a session and the slots of the runs.
Reservations == [run : Runs, owner : Owners]
Capacities   == [reserved : [Sessions -> Reservations \cup {None}],
                 slots    : Slots!SlotsType]

ASSUME CoordinatorAssumption ==
    /\ CapacityLimit \in Nat \ {0}
    /\ MaxTools \in Nat
    /\ None \notin Frames \cup Resources \cup Reservations

ClaimCall(op, lease) ==
    [op |-> op, lease |-> lease, by |-> None, authority |-> lease.owner, runs |-> {lease.run}]
ReleaseCall(lease) ==
    [op |-> "release", lease |-> lease, by |-> None, authority |-> None, runs |-> {}]
RevokeCall(o, authority, group) ==
    [op |-> "revoke", lease |-> None, by |-> o, authority |-> authority,
     runs |-> {l.run : l \in group}]

-----------------------------------------------------------------------------
(* Queries.                                                                 *)

Registered == {runs[r] : r \in {q \in Runs : runs[q] # None}}

\* assertExecution, for the roles and exits of `rl` and `ex`.
AssertedUnder(rl, ex, lease) ==
    /\ lease.owner \notin ex
    /\ rl[lease.owner] # "fenced"
    /\ runs[lease.run] = lease
    /\ lease.owner \notin revoking
    /\ Session(lease) \notin blocked
Asserted(lease) == AssertedUnder(role, exited, lease)

Serving(o) == role[o] \in {"default", "draining"} /\ o \notin exited

Finishing(r) == \E l \in pendingReleases : l.run = r

\* assertCanWrite with a lease; without one it is Serving.
CanWrite(o, lease) ==
    Serving(o) /\ Asserted(lease) /\ ~Finishing(lease.run) /\ Bound(o, lease)

Reserved(lease) ==
    LET at == capacity.reserved[Session(lease)] IN at # None /\ at.run = lease.run

\* assertExecutionCapacity
HasCapacity(lease) ==
    /\ Asserted(lease)
    /\ Reserved(lease)
    /\ capacity.slots.state[lease.run]["execution"] = "active"

Holding(rs)  == {k \in Keys : rs[k] # None}
FreeKeys     == Keys \ Holding(resources)

\* physicalReferences
References(ts, rs, id) ==
    \/ \E t \in ts : t.lease = id
    \/ \E k \in Holding(rs) : rs[k].lease = id

\* executionsForOwner
Affected(o) ==
    {l \in Registered :
        \/ Kind(o) = "storage"
        \/ l.owner = o
        \/ \E k \in Holding(resources) : resources[k].owner = o /\ resources[k].lease = l.id
        \/ Bound(o, l)}

-----------------------------------------------------------------------------
(* Capacity.                                                                *)

\* notifyCapacityReady: the hints are taken and sent.
Notified(sl) == [sl EXCEPT !.ready = {}]

\* Mutant of WithoutReservation: the slot stays with the run.
WithoutReservationOnly(c, s) == [c EXCEPT !.reserved[s] = None]

\* releaseCapacity
WithoutReservation(c, s) ==
    IF c.reserved[s] = None THEN c
    ELSE [reserved |-> [c.reserved EXCEPT ![s] = None],
          slots    |-> Notified(Slots!ReleaseExecutionIn(c.slots, c.reserved[s].run))]

\* A reservation that no claim has taken up.
Queued(s) == sessions[s] = None /\ claims[s] = None /\ s \notin blocked

\* releaseQueuedOwner
WithoutQueued(o) ==
    FoldSet(LAMBDA s, c : WithoutReservation(c, s), capacity,
            {s \in Sessions : /\ capacity.reserved[s] # None
                              /\ capacity.reserved[s].owner = o
                              /\ Queued(s)})

SetCapacity(n) ==
    /\ Slots!WithinLimit(n)
    /\ n # capacity.slots.capacity
    /\ capacity' = [capacity EXCEPT !.slots = Notified(Slots!SetCapacityIn(@, n))]
    /\ UNCHANGED << registry, leasing, faults, physical, port >>

ReleaseQueuedSession(s) ==
    /\ Queued(s)
    /\ capacity.reserved[s] # None
    /\ capacity' = WithoutReservation(capacity, s)
    /\ UNCHANGED << registry, leasing, faults, physical, port >>

\* suspendWaitingExecution: only when everything physical that the run still
\* holds belongs to one of the waiting calls.
Suspend(lease, waiting) ==
    /\ Asserted(lease)
    /\ waiting # {}
    /\ ~Finishing(lease.run)
    /\ \A t \in tools : t.lease = lease.id => t.call \in waiting
    /\ \A k \in Holding(resources) :
          resources[k].lease = lease.id =>
              resources[k].owner # None /\ resources[k].call \in waiting
    /\ Reserved(lease)
    /\ capacity.slots.state[lease.run]["execution"] # "suspended"
    /\ capacity' = [capacity EXCEPT !.slots =
                       Notified(Slots!SuspendIn(@, lease.run, "execution"))]
    /\ UNCHANGED << registry, leasing, faults, physical, port >>

\* resumeExecutionCapacity
Resume(lease) ==
    /\ Asserted(lease)
    /\ Reserved(lease)
    /\ capacity.slots.state[lease.run]["execution"] = "suspended"
    /\ capacity' = [capacity EXCEPT !.slots =
                       Notified(Slots!ResumeIn(@, lease.run, "execution"))]
    /\ UNCHANGED << registry, leasing, faults, physical, port >>

-----------------------------------------------------------------------------
(* Owners.                                                                  *)

Register(o) ==
    /\ role[o] = "new"
    /\ role' = [role EXCEPT ![o] = "candidate"]
    /\ UNCHANGED << exited, defaultOf, leasing, faults, physical, capacity, port >>

\* activate: the default it replaces starts to drain.
Activate(o) ==
    LET unit == UnitOf[GenOf[o]]
        old  == defaultOf[unit]
        drains == old # None /\ role[old] = "default"
    IN  /\ role[o] = "candidate"
        /\ role' = [role EXCEPT ![o] = "default",
                                ![IF drains THEN old ELSE o] =
                                    IF drains THEN "draining" ELSE "default"]
        /\ capacity' = IF drains THEN WithoutQueued(old) ELSE capacity
        /\ defaultOf' = [defaultOf EXCEPT ![unit] = o]
        /\ UNCHANGED << exited, leasing, faults, physical, port >>

\* activate(owner, 'draining'): a recovered old generation.
ActivateDraining(o) ==
    /\ role[o] = "candidate"
    /\ role' = [role EXCEPT ![o] = "draining"]
    /\ UNCHANGED << exited, defaultOf, leasing, faults, physical, capacity, port >>

-----------------------------------------------------------------------------
(* Claims.                                                                  *)

\* A generation that a new lease of session s may bind.
Retains(o, s) ==
    \E k \in Holding(resources) : resources[k].owner = o /\ resources[k].session = s
Available(o, s) ==
    /\ o \notin exited
    /\ role[o] = "default" \/ (role[o] = "draining" /\ Retains(o, s))

IsDefaultKernel(o) ==
    /\ Kind(o) = "kernel"
    /\ role[o] = "default"
    /\ defaultOf[UnitOf[GenOf[o]]] = o

\* The reservation step of claim: one per session, for its run and owner.
Reserving(o, r) ==
    LET s    == SessionOf[r]
        mine == [run |-> r, owner |-> o]
        kept == IF capacity.reserved[s] = mine THEN capacity
                                               ELSE WithoutReservation(capacity, s)
    IN  [reserved |-> [kept.reserved EXCEPT ![s] = mine],
         slots    |-> Notified(Slots!ReserveIn(kept.slots, r, "execution"))]

\* Mutant of SessionFree: the lease of another run of the session is not seen.
SessionUnclaimed(s) == s \notin blocked /\ claims[s] = None

\* A session takes one claim at a time, and none while it is gated or leased.
SessionFree(s) == s \notin blocked /\ sessions[s] = None /\ claims[s] = None

\* claim, up to the persistence call.
Claim(o, r, bindings, captured) ==
    LET s     == SessionOf[r]
        next  == Reserving(o, r)
        draft == [id |-> fence + 1, run |-> r, owner |-> o,
                  versions |-> bindings, fence |-> fence + 1]
    IN  /\ IsDefaultKernel(o)
        /\ SessionFree(s)
        /\ GenOf[o] \in bindings
        /\ \A g \in bindings : \E c \in captured : GenOf[c] = g /\ Available(c, s)
        /\ \A c \in captured : GenOf[c] \in bindings /\ Available(c, s)
        /\ \A c, e \in captured : GenOf[c] = GenOf[e] => c = e
        /\ fence < MaxFence
        /\ capacity' = next
        /\ IF next.slots.state[r]["execution"] = "active"
           THEN /\ claims' = [claims EXCEPT ![s] =
                                [lease |-> draft, captured |-> captured, stage |-> "claim"]]
                /\ fence' = fence + 1
                /\ calls' = Append(calls, ClaimCall("claim", draft))
           ELSE UNCHANGED << claims, port >>
        /\ UNCHANGED << registry, sessions, runs, blocked, faults, physical >>

Awaits(op) == calls # << >> /\ Head(calls).op = op

\* The claim is abandoned with the gate closed: its write may have succeeded.
Abandon(s) ==
    /\ claims' = [claims EXCEPT ![s] = None]
    /\ blocked' = blocked \cup {s}
    /\ UNCHANGED << sessions, runs, capacity >>

\* Mutant of StillAuthorised: only the Kernel is checked again after the await.
KernelAuthorised(frame) == IsDefaultKernel(frame.lease.owner)

\* The second look at the owner and at the captured dependencies.
StillAuthorised(frame) ==
    /\ IsDefaultKernel(frame.lease.owner)
    /\ frame.lease.owner \notin exited
    /\ \A c \in frame.captured : c \notin exited /\ role[c] # "fenced"

\* claim, from the reply: granted (with the durable fence), refused or lost.
ClaimReply(reply) ==
    LET lease == Head(calls).lease
        s     == Session(lease)
    IN  /\ Awaits("claim")
        /\ \/ /\ reply.kind = "lease"
              /\ fence' = IF reply.lease.fence > fence THEN reply.lease.fence ELSE fence
              /\ IF StillAuthorised(claims[s])
                 THEN /\ sessions' = [sessions EXCEPT ![s] = reply.lease]
                      /\ runs' = [runs EXCEPT ![lease.run] = reply.lease]
                      /\ claims' = [claims EXCEPT ![s] = None]
                      /\ calls' = Tail(calls)
                 ELSE /\ claims' = [claims EXCEPT ![s].stage = "revoke"]
                      /\ calls' = Append(Tail(calls), ClaimCall("unclaim", lease))
                      /\ UNCHANGED << sessions, runs >>
              /\ UNCHANGED << blocked, capacity >>
           \/ /\ reply.kind = "null"
              /\ claims' = [claims EXCEPT ![s] = None]
              /\ capacity' = WithoutReservation(capacity, s)
              /\ calls' = Tail(calls)
              /\ UNCHANGED << sessions, runs, blocked, fence >>
           \/ /\ reply.kind \in {"refused", "lost"}
              /\ Abandon(s)
              /\ calls' = Tail(calls)
              /\ UNCHANGED fence
        /\ UNCHANGED << registry, faults, physical >>

\* The claim that lost its authority fails, whatever its revocation answers.
UnclaimReply ==
    /\ Awaits("unclaim")
    /\ Abandon(Session(Head(calls).lease))
    /\ calls' = Tail(calls)
    /\ UNCHANGED << registry, faults, physical, fence >>

-----------------------------------------------------------------------------
(* Releases.                                                                *)

\* The elements of a finite set, each once, in some order.
Listed(S) == CHOOSE q \in [1..Cardinality(S) -> S] : IsInjective(q)

\* Mutant of Releasing: the gate stays open while the release is written.
ReleasingOpen(leases) ==
    /\ UNCHANGED blocked
    /\ calls' = calls \o Listed({ReleaseCall(l) : l \in leases})

\* releaseExecution, up to the persistence call, for each of the leases.
Releasing(leases) ==
    /\ blocked' = blocked \cup {Session(l) : l \in leases}
    /\ calls' = calls \o Listed({ReleaseCall(l) : l \in leases})

\* Mutant of RequestRelease: physical activity does not defer the release.
RequestReleaseAnyway(lease) ==
    /\ Asserted(lease)
    /\ ~Finishing(lease.run)
    /\ Releasing({lease})
    /\ UNCHANGED << pendingReleases, registry, sessions, runs, claims, revoking,
                    interruptions, stoppedRuns, fencing, physical, capacity, fence >>

\* requestRelease: deferred while the run still holds something physical.
RequestRelease(lease) ==
    /\ Asserted(lease)
    /\ ~Finishing(lease.run)
    /\ IF References(tools, resources, lease.id)
       THEN /\ pendingReleases' = pendingReleases \cup {lease}
            /\ UNCHANGED << blocked, calls >>
       ELSE /\ Releasing({lease})
            /\ UNCHANGED pendingReleases
    /\ UNCHANGED << registry, sessions, runs, claims, revoking, interruptions, stoppedRuns,
                    fencing, physical, capacity, fence >>

StillRegistered(lease) == runs[lease.run] # None /\ runs[lease.run].id = lease.id

\* releaseExecution, from the reply.  A failed write leaves the gate closed.
ReleaseReply(reply) ==
    LET lease == Head(calls).lease
        s     == Session(lease)
        same  == StillRegistered(lease)
    IN  /\ Awaits("release")
        /\ calls' = Tail(calls)
        /\ IF reply.kind = "ok"
           THEN /\ blocked' = blocked \ {s}
                /\ runs' = IF same THEN [runs EXCEPT ![lease.run] = None] ELSE runs
                /\ sessions' = IF same THEN [sessions EXCEPT ![s] = None] ELSE sessions
                /\ capacity' = IF same THEN WithoutReservation(capacity, s) ELSE capacity
           ELSE UNCHANGED << blocked, runs, sessions, capacity >>
        /\ UNCHANGED << registry, claims, faults, physical, fence >>

\* Mutant of SettleReleases: the end of the activity starts no release.
SettleReleasesLater(rl, ex, ts, rs) ==
    /\ tools' = ts
    /\ resources' = rs
    /\ UNCHANGED << pendingReleases, blocked, calls >>

\* releaseSettled, after `ts` and `rs` took effect: the deferred releases that
\* wait for nothing any more start, unless their authority is gone meanwhile.
SettleReleases(rl, ex, ts, rs) ==
    LET ready == {l \in pendingReleases : ~References(ts, rs, l.id)} IN
    /\ tools' = ts
    /\ resources' = rs
    /\ pendingReleases' = pendingReleases \ ready
    /\ Releasing({l \in ready : AssertedUnder(rl, ex, l)})

-----------------------------------------------------------------------------
(* Faults.                                                                  *)

\* Mutant of AuthorityFor: every row is revoked in the name of the failed owner.
AuthorityOfCause(o, lease) == o

\* The owner in whose name a row is revoked: the failed one if the run is
\* bound to it, else the run's own Kernel with the failed one as the cause.
AuthorityFor(o, lease) == IF lease.owner = o \/ Bound(o, lease) THEN o ELSE lease.owner

\* One durable revocation per authority, each awaited before the next.
NextRevocation(o, rest, queue) ==
    IF rest = {} THEN calls' = queue
    ELSE \E l \in rest :
            LET authority == AuthorityFor(o, l) IN
            calls' = Append(queue,
                        RevokeCall(o, authority, {m \in rest : AuthorityFor(o, m) = authority}))

Closing(affected) == blocked \cup {Session(l) : l \in affected}

\* revoke, up to the first persistence call.
Revoke(o) ==
    LET affected == Affected(o) IN
    /\ role[o] \notin {"new", "forgotten"}
    /\ fencing[o] = {}
    /\ role' = [role EXCEPT ![o] = "fenced"]
    /\ capacity' = WithoutQueued(o)
    /\ revoking' = revoking \cup {o}
    /\ pendingReleases' = {l \in pendingReleases : \A a \in affected : a.run # l.run}
    /\ blocked' = Closing(affected)
    /\ interruptions' = [r \in Runs |-> IF \E l \in affected : l.run = r
                                        THEN interruptions[r] \cup {o}
                                        ELSE interruptions[r]]
    /\ fencing' = [fencing EXCEPT ![o] = affected]
    /\ NextRevocation(o, affected, calls)
    /\ UNCHANGED << exited, defaultOf, sessions, runs, claims, stoppedRuns, physical, fence >>

\* revoke, from the reply to one of its calls.
RevokeReply(reply) ==
    LET call == Head(calls)
        rest == {l \in fencing[call.by] : l.run \notin call.runs}
    IN  /\ Awaits("revoke")
        /\ IF reply.kind = "ok"
           THEN /\ fencing' = [fencing EXCEPT ![call.by] = rest]
                /\ NextRevocation(call.by, rest, Tail(calls))
           ELSE /\ fencing' = [fencing EXCEPT ![call.by] = {}]
                /\ calls' = Tail(calls)
        /\ UNCHANGED << registry, leasing, revoking, interruptions, stoppedRuns,
                        pendingReleases, physical, capacity, fence >>

\* ownerExited: the process tree of o has ended, and its activity with it.
OwnerExited(o) ==
    /\ role[o] \notin {"new", "forgotten"}
    /\ o \notin exited
    /\ exited' = exited \cup {o}
    /\ role' = [role EXCEPT ![o] = "fenced"]
    /\ capacity' = WithoutQueued(o)
    /\ SettleReleases(role', exited',
                      {t \in tools : t.owner # o},
                      [k \in Keys |-> IF resources[k] # None /\ resources[k].owner = o
                                      THEN None ELSE resources[k]])
    /\ UNCHANGED << defaultOf, sessions, runs, claims, revoking, interruptions, stoppedRuns,
                    fencing, fence >>

AcknowledgeRunStopped(o, r) ==
    /\ runs[r] # None /\ runs[r].owner = o
    /\ interruptions[r] # {}
    /\ stoppedRuns' = stoppedRuns \cup {r}
    /\ UNCHANGED << registry, leasing, revoking, interruptions, fencing, pendingReleases,
                    physical, capacity, port >>

Reconcilable(s) ==
    sessions[s] # None =>
        LET l == sessions[s] IN
        /\ l.owner \in exited \/ l.run \in stoppedRuns
        /\ interruptions[l.run] \subseteq exited
        /\ ~References(tools, resources, l.id)

\* reconciled: the interrupted lease is forgotten and the gate opens.
Reconciled(s) ==
    /\ Reconcilable(s)
    /\ claims[s] = None
    /\ IF sessions[s] = None THEN UNCHANGED << sessions, runs, interruptions, stoppedRuns >>
       ELSE LET r == sessions[s].run IN
            /\ runs' = [runs EXCEPT ![r] = None]
            /\ sessions' = [sessions EXCEPT ![s] = None]
            /\ interruptions' = [interruptions EXCEPT ![r] = {}]
            /\ stoppedRuns' = stoppedRuns \ {r}
    /\ capacity' = WithoutReservation(capacity, s)
    /\ blocked' = blocked \ {s}
    /\ UNCHANGED << registry, claims, revoking, fencing, pendingReleases, physical, port >>

\* references(owner) counts nothing.
Unreferenced(o) ==
    /\ \A l \in Registered : ~Bound(o, l)
    /\ \A s \in Sessions : claims[s] # None => ~Bound(o, claims[s].lease)
    /\ \A t \in tools : t.owner # o
    /\ \A k \in Holding(resources) : resources[k].owner # o

DisposeOwner(o) ==
    /\ o \in exited
    /\ Unreferenced(o)
    /\ role' = [role EXCEPT ![o] = "forgotten"]
    /\ exited' = exited \ {o}
    /\ revoking' = revoking \ {o}
    /\ defaultOf' = [u \in Units |-> IF defaultOf[u] = o THEN None ELSE defaultOf[u]]
    /\ UNCHANGED << leasing, interruptions, stoppedRuns, fencing, pendingReleases, physical,
                    capacity, port >>

-----------------------------------------------------------------------------
(* Physical activity.                                                       *)

ToolRoom == Cardinality(tools) < MaxTools

ReserveTool(lease, call, o) ==
    /\ HasCapacity(lease)
    /\ ~Finishing(lease.run)
    /\ Serving(o)
    /\ Bound(o, lease)
    /\ \A t \in tools : ~(t.lease = lease.id /\ t.call = call)
    /\ ToolRoom
    /\ tools' = tools \cup {[lease |-> lease.id, call |-> call, owner |-> o]}
    /\ UNCHANGED << registry, leasing, faults, resources, capacity, port >>

ReleaseTool(t) ==
    /\ t \in tools
    /\ SettleReleases(role, exited, tools \ {t}, resources)
    /\ UNCHANGED << registry, sessions, runs, claims, revoking, interruptions, stoppedRuns,
                    fencing, capacity, fence >>

Acquire(k, resource) ==
    /\ k \in FreeKeys
    /\ resources' = [resources EXCEPT ![k] = resource]
    /\ UNCHANGED << registry, leasing, faults, tools, capacity, port >>

Resource(o, id, s) == [owner |-> o, lease |-> id, call |-> None, session |-> s]

\* acquireResource, with and without an execution.
AcquireResource(o, k, lease) ==
    /\ CanWrite(o, lease) /\ HasCapacity(lease)
    /\ Acquire(k, Resource(o, lease.id, None))
AcquireOwnResource(o, k) ==
    /\ Serving(o)
    /\ Acquire(k, Resource(o, 0, None))

\* acquireControlResource: no execution capacity is asked for.
AcquireControlResource(o, k, lease) ==
    /\ CanWrite(o, lease)
    /\ Acquire(k, Resource(o, lease.id, None))

\* bindToolResource: the owner of the call's permit may park it with the call.
BindToolResource(o, k, lease, call) ==
    /\ CanWrite(o, lease)
    /\ k \in Holding(resources)
    /\ resources[k].owner = o /\ resources[k].lease = lease.id
    /\ resources[k].call = None
    /\ [lease |-> lease.id, call |-> call, owner |-> o] \in tools
    /\ resources' = [resources EXCEPT ![k].call = call]
    /\ UNCHANGED << registry, leasing, faults, tools, capacity, port >>

\* retainSessionResource
RetainSessionResource(o, k, s) ==
    /\ Serving(o)
    /\ Acquire(k, Resource(o, 0, s))

\* retainSourceResource: the executor of a command, on behalf of another run.
RetainSourceResource(o, k, source) ==
    /\ HasCapacity(source) /\ ~Finishing(source.run)
    /\ Serving(o)
    /\ Acquire(k, Resource(o, source.id, None))

\* retainHostSourceResource: the same for work of the stable Host.
RetainHostSourceResource(k, source) ==
    /\ HasCapacity(source) /\ ~Finishing(source.run)
    /\ Acquire(k, Resource(None, source.id, None))

\* releaseResource and releaseHostResource
ReleaseResource(k) ==
    /\ k \in Holding(resources)
    /\ SettleReleases(role, exited, tools, [resources EXCEPT ![k] = None])
    /\ UNCHANGED << registry, sessions, runs, claims, revoking, interruptions, stoppedRuns,
                    fencing, capacity, fence >>

-----------------------------------------------------------------------------
Init ==
    /\ role = [o \in Owners |-> "new"]
    /\ exited = {}
    /\ defaultOf = [u \in Units |-> None]
    /\ sessions = [s \in Sessions |-> None]
    /\ runs = [r \in Runs |-> None]
    /\ claims = [s \in Sessions |-> None]
    /\ blocked = {}
    /\ revoking = {}
    /\ interruptions = [r \in Runs |-> {}]
    /\ stoppedRuns = {}
    /\ fencing = [o \in Owners |-> {}]
    /\ pendingReleases = {}
    /\ tools = {}
    /\ resources = [k \in Keys |-> None]
    /\ capacity = [reserved |-> [s \in Sessions |-> None],
                   slots    |-> Slots!EmptySlots(CapacityLimit)]
    /\ fence = 0
    /\ calls = << >>

\* A run is bound to its Kernel and to at most one generation of other units.
Bindings(o) ==
    {set \in SUBSET Generations :
        /\ GenOf[o] \in set
        /\ \A g, h \in set : UnitOf[g] = UnitOf[h] => g = h
        /\ \A g \in set : KindOf[UnitOf[g]] # "storage"}

Reply(kind, lease) == [kind |-> kind, lease |-> lease]

\* What an open persistence port may answer; the durable fence can be higher.
Answer ==
    \/ /\ Awaits("claim")
       /\ \E above \in 0..1 :
             ClaimReply(Reply("lease", [Head(calls).lease EXCEPT !.fence = @ + above]))
    \/ \E kind \in {"null", "refused", "lost"} : ClaimReply(Reply(kind, None))
    \/ UnclaimReply
    \/ \E kind \in {"ok", "refused", "lost"} :
          ReleaseReply(Reply(kind, None)) \/ RevokeReply(Reply(kind, None))

OwnerStep(o) ==
    \/ Register(o) \/ Activate(o) \/ ActivateDraining(o)
    \/ Revoke(o) \/ OwnerExited(o) \/ DisposeOwner(o)
    \/ \E r \in Runs : AcknowledgeRunStopped(o, r)
    \/ \E r \in Runs, b \in Bindings(o), c \in SUBSET Owners : Claim(o, r, b, c)

LeaseStep(l) ==
    \/ RequestRelease(l)
    \/ \E waiting \in SUBSET CallIds : Suspend(l, waiting)
    \/ Resume(l)
    \/ \E o \in Owners :
          \/ \E c \in CallIds : ReserveTool(l, c, o)
          \/ \E k \in Keys : \/ AcquireResource(o, k, l) \/ AcquireControlResource(o, k, l)
                             \/ RetainSourceResource(o, k, l)
                             \/ \E c \in CallIds : BindToolResource(o, k, l, c)
    \/ \E k \in Keys : RetainHostSourceResource(k, l)

SessionStep(s) ==
    \/ Reconciled(s)
    \/ ReleaseQueuedSession(s)
    \/ \E o \in Owners, k \in Keys : RetainSessionResource(o, k, s)

Next ==
    \/ \E o \in Owners : OwnerStep(o)
    \/ \E l \in Registered : LeaseStep(l)
    \/ \E s \in Sessions : SessionStep(s)
    \/ \E t \in tools : ReleaseTool(t)
    \/ \E k \in Keys : ReleaseResource(k) \/ \E o \in Owners : AcquireOwnResource(o, k)
    \/ \E n \in 1..CapacityLimit : SetCapacity(n)
    \/ Answer

Spec == Init /\ [][Next]_vars

-----------------------------------------------------------------------------
(* Properties.                                                              *)

\* Types of the fields, and the limit of the permits.
TypeOK ==
    /\ role \in [Owners -> Roles]
    /\ exited \subseteq Owners
    /\ defaultOf \in [Units -> Owners \cup {None}]
    /\ sessions \in [Sessions -> Leases \cup {None}]
    /\ runs \in [Runs -> Leases \cup {None}]
    /\ claims \in [Sessions -> Frames \cup {None}]
    /\ blocked \subseteq Sessions
    /\ revoking \subseteq Owners
    /\ interruptions \in [Runs -> SUBSET Owners]
    /\ stoppedRuns \subseteq Runs
    /\ fencing \in [Owners -> SUBSET Leases]
    /\ pendingReleases \subseteq Leases
    /\ tools \subseteq Permits /\ Cardinality(tools) <= MaxTools
    /\ resources \in [Keys -> Resources \cup {None}]
    /\ capacity \in Capacities
    /\ fence \in Nat
    /\ calls \in Seq(Calls)

\* The index by session and the index by run hold the same leases: no run is
\* registered twice or under another session.
IndexesAgree ==
    /\ \A r \in Runs : runs[r] # None =>
          runs[r].run = r /\ sessions[SessionOf[r]] = runs[r]
    /\ \A s \in Sessions : sessions[s] # None =>
          SessionOf[sessions[s].run] = s /\ runs[sessions[s].run] = sessions[s]

\* A tool permit or an execution's resource keeps its lease registered: no
\* release, fault, exit or reconciliation hands a session on while something
\* physical of its run is still there.
PhysicalWorkPinsLease ==
    /\ \A t \in tools : \E l \in Registered : l.id = t.lease
    /\ \A k \in Holding(resources) :
          resources[k].lease # 0 => \E l \in Registered : l.id = resources[k].lease

\* A deferred release belongs to a registered lease and still waits for
\* something: none is forgotten by the event that ended the wait.
DeferredReleaseWaits ==
    \A l \in pendingReleases : runs[l.run] = l /\ References(tools, resources, l.id)

\* A lease whose release is being written accepts nothing more: its session's
\* gate stays closed until the answer, whoever else opens and closes gates.
ReleaseInFlightIsGated ==
    \A i \in DOMAIN calls :
        calls[i].op = "release" /\ calls[i].lease \in Registered =>
            Session(calls[i].lease) \in blocked

\* A reservation and the execution's slot are created and dropped together,
\* and a claim or a lease keeps the reservation it was admitted with.
CapacityAccounted ==
    /\ \A r \in Runs : LET at == capacity.reserved[SessionOf[r]] IN
          (at # None /\ at.run = r) <=> r \in Slots!KnownExecutions(capacity.slots)
    /\ \A s \in Sessions :
          /\ claims[s] # None => Reserved(claims[s].lease)
          /\ sessions[s] # None => Reserved(sessions[s])

=============================================================================
