---------------------- MODULE ExecutionHandoffInvariant ----------------------
(***************************************************************************)
(* The inductive invariant of ExecutionHandoff, and that the steps of the   *)
(* executors, the database, the Host and the owners keep it.                *)
(* ExecutionHandoffProofs has the other steps and the theorems.             *)
(*                                                                          *)
(* The inductive invariant IInv is the coordinator's own, with what each of *)
(* the other parties knows beside it (Sound): the Host of its leases, the   *)
(* port of the calls it has answered, the executors of their leases, the    *)
(* faults of what their fences have reached, a reconciliation of what it    *)
(* has established.  The calls of the coordinator keep its part by the      *)
(* proofs of RuntimeCoordinatorProofs, which are instantiated here.         *)
(*                                                                          *)
(* The parts of Sound look at the past of a run mostly: that its row has    *)
(* been written, that its claim has been answered, that its executor has    *)
(* ended.  So they are kept by every step that takes no row back (Lasts,    *)
(* Fades) and forgets nothing of a run whose claim is answered (Remembers), *)
(* and a handler's own lemma is about the one run or owner it deals with.   *)
(***************************************************************************)
EXTENDS ExecutionHandoff, FiniteSetTheorems, TLAPS

C == INSTANCE RuntimeCoordinatorProofs

-----------------------------------------------------------------------------
(* The coordinator here and in RuntimeCoordinatorProofs are two instances   *)
(* of one module; what one does, the other does.                            *)

\* execution-slots.ts: reconciling a run's place in the queue.
LEMMA ReconcileSame ==
    ASSUME NEW s, NEW r
    PROVE  Coordinator!Slots!Reconcile(s, r) = C!Slots!Reconcile(s, r)
BY Zenon DEF Coordinator!Slots!Reconcile, C!Slots!Reconcile,
       Coordinator!Slots!Dequeue, C!Slots!Dequeue, Coordinator!Slots!Enqueue,
       C!Slots!Enqueue, Coordinator!Slots!Waits, C!Slots!Waits,
       Coordinator!Slots!Without, C!Slots!Without, Coordinator!Slots!InState,
       C!Slots!InState

\* execution-slots.ts: admitting from the queue.
LEMMA PumpSame ==
    ASSUME NEW s
    PROVE  Coordinator!Slots!Pump(s) = C!Slots!Pump(s)
BY Zenon DEF Coordinator!Slots!Pump, C!Slots!Pump, Coordinator!Slots!Admissible,
       C!Slots!Admissible, Coordinator!Slots!Free, C!Slots!Free,
       Coordinator!Slots!Cardinality, C!Slots!Cardinality

\* Both, after a change of an activity.
LEMMA SettleSame ==
    ASSUME NEW s, NEW r
    PROVE  Coordinator!Slots!Settle(s, r) = C!Slots!Settle(s, r)
BY ReconcileSame, PumpSame, Zenon DEF Coordinator!Slots!Settle, C!Slots!Settle

\* The executions that hold an activity.
LEMMA KnownSame ==
    ASSUME NEW s
    PROVE  Coordinator!Slots!KnownExecutions(s) = C!Slots!KnownExecutions(s)
BY Zenon DEF Coordinator!Slots!KnownExecutions, C!Slots!KnownExecutions,
       Coordinator!Slots!Held, C!Slots!Held

\* reserve and releaseExecution of the slots.
LEMMA SlotOpsSame ==
    ASSUME NEW s, NEW r, NEW a
    PROVE  /\ Coordinator!Slots!ReserveIn(s, r, a) = C!Slots!ReserveIn(s, r, a)
           /\ Coordinator!Slots!ReleaseExecutionIn(s, r) = C!Slots!ReleaseExecutionIn(s, r)
BY SettleSame, KnownSame, Zenon DEF Coordinator!Slots!ReserveIn, C!Slots!ReserveIn,
       Coordinator!Slots!Admitted, C!Slots!Admitted,
       Coordinator!Slots!ReleaseExecutionIn, C!Slots!ReleaseExecutionIn

\* releaseCapacity
LEMMA ReservationSame ==
    ASSUME NEW c, NEW s
    PROVE  Coordinator!WithoutReservation(c, s) = C!WithoutReservation(c, s)
BY SlotOpsSame, Zenon DEF Coordinator!WithoutReservation, C!WithoutReservation,
       Coordinator!Notified, C!Notified

\* releaseQueuedOwner
LEMMA QueuedSame ==
    ASSUME NEW o
    PROVE  Coordinator!WithoutQueued(o) = C!WithoutQueued(o)
BY ReservationSame, Zenon DEF Coordinator!WithoutQueued, C!WithoutQueued,
       Coordinator!Queued, C!Queued, Coordinator!FoldSet, C!FoldSet,
       Coordinator!MapThenFoldSet, C!MapThenFoldSet

\* reserveCapacity
LEMMA ReservingSame ==
    ASSUME NEW o, NEW r
    PROVE  Coordinator!Reserving(o, r) = C!Reserving(o, r)
BY SlotOpsSame, ReservationSame, Zenon DEF Coordinator!Reserving, C!Reserving,
       Coordinator!Notified, C!Notified

\* register
LEMMA RegisterSame ==
    ASSUME NEW o
    PROVE  Coordinator!Register(o) => C!Register(o)
BY Zenon DEF Coordinator!Register, C!Register, Coordinator!registry, C!registry,
       Coordinator!leasing, C!leasing, Coordinator!faults, C!faults,
       Coordinator!physical, C!physical, Coordinator!port, C!port

\* activate
LEMMA ActivateSame ==
    ASSUME NEW o
    PROVE  Coordinator!Activate(o) => C!Activate(o)
BY QueuedSame, Zenon DEF Coordinator!Activate, C!Activate, Coordinator!registry,
       C!registry, Coordinator!leasing, C!leasing, Coordinator!faults, C!faults,
       Coordinator!physical, C!physical, Coordinator!port, C!port

\* claim, up to the persistence call.
LEMMA ClaimSame ==
    ASSUME NEW o, NEW r, NEW b, NEW z
    PROVE  Coordinator!Claim(o, r, b, z) => C!Claim(o, r, b, z)
BY ReservingSame, Zenon DEF Coordinator!Claim, C!Claim, Coordinator!IsDefaultKernel,
       C!IsDefaultKernel, Coordinator!Kind, C!Kind, Coordinator!SessionFree,
       C!SessionFree, Coordinator!Available, C!Available, Coordinator!Retains,
       C!Retains, Coordinator!ClaimCall, C!ClaimCall, Coordinator!Holding, C!Holding,
       Coordinator!registry, C!registry, Coordinator!leasing, C!leasing,
       Coordinator!faults, C!faults, Coordinator!physical, C!physical,
       Coordinator!port, C!port

\* claim, from its reply.
LEMMA ClaimReplySame ==
    ASSUME NEW x
    PROVE  Coordinator!ClaimReply(x) => C!ClaimReply(x)
BY ReservationSame, Zenon DEF Coordinator!ClaimReply, C!ClaimReply,
       Coordinator!Awaits, C!Awaits, Coordinator!Session, C!Session,
       Coordinator!StillAuthorised, C!StillAuthorised, Coordinator!IsDefaultKernel,
       C!IsDefaultKernel, Coordinator!Kind, C!Kind, Coordinator!ClaimCall,
       C!ClaimCall, Coordinator!Abandon, C!Abandon, Coordinator!registry, C!registry,
       Coordinator!leasing, C!leasing, Coordinator!faults, C!faults,
       Coordinator!physical, C!physical, Coordinator!port, C!port

\* claim, from the reply to its revocation.
LEMMA UnclaimReplySame ==
    Coordinator!UnclaimReply => C!UnclaimReply
BY Zenon DEF Coordinator!UnclaimReply, C!UnclaimReply, Coordinator!Awaits, C!Awaits,
       Coordinator!Session, C!Session, Coordinator!Abandon, C!Abandon,
       Coordinator!registry, C!registry, Coordinator!leasing, C!leasing,
       Coordinator!faults, C!faults, Coordinator!physical, C!physical,
       Coordinator!port, C!port

\* requestRelease
LEMMA RequestReleaseSame ==
    ASSUME NEW x
    PROVE  Coordinator!RequestRelease(x) => C!RequestRelease(x)
BY Zenon DEF Coordinator!RequestRelease, C!RequestRelease, Coordinator!Finishing,
       C!Finishing, Coordinator!Releasing, C!Releasing, Coordinator!ReleaseCall,
       C!ReleaseCall, Coordinator!Asserted, C!Asserted, Coordinator!AssertedUnder,
       C!AssertedUnder, Coordinator!Session, C!Session, Coordinator!References,
       C!References, Coordinator!Holding, C!Holding, Coordinator!Listed, C!Listed,
       Coordinator!IsInjective, C!IsInjective, Coordinator!Cardinality, C!Cardinality,
       Coordinator!registry, C!registry, Coordinator!leasing, C!leasing,
       Coordinator!faults, C!faults, Coordinator!physical, C!physical,
       Coordinator!port, C!port

\* releaseExecution, from its reply.
LEMMA ReleaseReplySame ==
    ASSUME NEW x
    PROVE  Coordinator!ReleaseReply(x) => C!ReleaseReply(x)
BY ReservationSame, Zenon DEF Coordinator!ReleaseReply, C!ReleaseReply,
       Coordinator!StillRegistered, C!StillRegistered, Coordinator!Session, C!Session,
       Coordinator!Awaits, C!Awaits, Coordinator!registry, C!registry,
       Coordinator!leasing, C!leasing, Coordinator!faults, C!faults,
       Coordinator!physical, C!physical, Coordinator!port, C!port

\* reserveTool
LEMMA ReserveToolSame ==
    ASSUME NEW x, NEW y, NEW o
    PROVE  Coordinator!ReserveTool(x, y, o) => C!ReserveTool(x, y, o)
BY Zenon DEF Coordinator!ReserveTool, C!ReserveTool, Coordinator!HasCapacity,
       C!HasCapacity, Coordinator!Reserved, C!Reserved, Coordinator!Finishing,
       C!Finishing, Coordinator!Serving, C!Serving, Coordinator!Bound, C!Bound,
       Coordinator!ToolRoom, C!ToolRoom, Coordinator!Cardinality, C!Cardinality,
       Coordinator!Asserted, C!Asserted, Coordinator!AssertedUnder, C!AssertedUnder,
       Coordinator!Session, C!Session, Coordinator!registry, C!registry,
       Coordinator!leasing, C!leasing, Coordinator!faults, C!faults,
       Coordinator!physical, C!physical, Coordinator!port, C!port

\* retainSourceResource
LEMMA RetainSame ==
    ASSUME NEW o, NEW k, NEW x
    PROVE  Coordinator!RetainSourceResource(o, k, x) => C!RetainSourceResource(o, k, x)
BY Zenon DEF Coordinator!RetainSourceResource, C!RetainSourceResource,
       Coordinator!HasCapacity, C!HasCapacity, Coordinator!Reserved, C!Reserved,
       Coordinator!Finishing, C!Finishing, Coordinator!Serving, C!Serving,
       Coordinator!Acquire, C!Acquire, Coordinator!FreeKeys, C!FreeKeys,
       Coordinator!Holding, C!Holding, Coordinator!Resource, C!Resource,
       Coordinator!Asserted, C!Asserted, Coordinator!AssertedUnder, C!AssertedUnder,
       Coordinator!Session, C!Session, Coordinator!registry, C!registry,
       Coordinator!leasing, C!leasing, Coordinator!faults, C!faults,
       Coordinator!physical, C!physical, Coordinator!port, C!port

\* releaseTool
LEMMA ReleaseToolSame ==
    ASSUME NEW x
    PROVE  Coordinator!ReleaseTool(x) => C!ReleaseTool(x)
BY Zenon DEF Coordinator!ReleaseTool, C!ReleaseTool, Coordinator!SettleReleases,
       C!SettleReleases, Coordinator!Releasing, C!Releasing, Coordinator!ReleaseCall,
       C!ReleaseCall, Coordinator!AssertedUnder, C!AssertedUnder, Coordinator!Session,
       C!Session, Coordinator!References, C!References, Coordinator!Holding,
       C!Holding, Coordinator!Listed, C!Listed, Coordinator!IsInjective,
       C!IsInjective, Coordinator!Cardinality, C!Cardinality, Coordinator!registry,
       C!registry, Coordinator!leasing, C!leasing, Coordinator!faults, C!faults,
       Coordinator!physical, C!physical, Coordinator!port, C!port

\* releaseResource
LEMMA ReleaseResourceSame ==
    ASSUME NEW k
    PROVE  Coordinator!ReleaseResource(k) => C!ReleaseResource(k)
BY Zenon DEF Coordinator!ReleaseResource, C!ReleaseResource,
       Coordinator!SettleReleases, C!SettleReleases, Coordinator!Releasing,
       C!Releasing, Coordinator!ReleaseCall, C!ReleaseCall, Coordinator!AssertedUnder,
       C!AssertedUnder, Coordinator!Session, C!Session, Coordinator!References,
       C!References, Coordinator!Holding, C!Holding, Coordinator!Listed, C!Listed,
       Coordinator!IsInjective, C!IsInjective, Coordinator!Cardinality, C!Cardinality,
       Coordinator!registry, C!registry, Coordinator!leasing, C!leasing,
       Coordinator!faults, C!faults, Coordinator!physical, C!physical,
       Coordinator!port, C!port

\* revoke, up to the first persistence call.
LEMMA RevokeSame ==
    ASSUME NEW o
    PROVE  Coordinator!Revoke(o) => C!Revoke(o)
BY QueuedSame, Zenon DEF Coordinator!Revoke, C!Revoke, Coordinator!Affected,
       C!Affected, Coordinator!Registered, C!Registered, Coordinator!Kind, C!Kind,
       Coordinator!Bound, C!Bound, Coordinator!Holding, C!Holding,
       Coordinator!Closing, C!Closing, Coordinator!Session, C!Session,
       Coordinator!NextRevocation, C!NextRevocation, Coordinator!AuthorityFor,
       C!AuthorityFor, Coordinator!RevokeCall, C!RevokeCall, Coordinator!registry,
       C!registry, Coordinator!leasing, C!leasing, Coordinator!faults, C!faults,
       Coordinator!physical, C!physical, Coordinator!port, C!port

\* revoke, from a reply.
LEMMA RevokeReplySame ==
    ASSUME NEW x
    PROVE  Coordinator!RevokeReply(x) => C!RevokeReply(x)
BY Zenon DEF Coordinator!RevokeReply, C!RevokeReply, Coordinator!Awaits, C!Awaits,
       Coordinator!NextRevocation, C!NextRevocation, Coordinator!AuthorityFor,
       C!AuthorityFor, Coordinator!Bound, C!Bound, Coordinator!RevokeCall,
       C!RevokeCall, Coordinator!registry, C!registry, Coordinator!leasing, C!leasing,
       Coordinator!faults, C!faults, Coordinator!physical, C!physical,
       Coordinator!port, C!port

\* ownerExited
LEMMA OwnerExitedSame ==
    ASSUME NEW o
    PROVE  Coordinator!OwnerExited(o) => C!OwnerExited(o)
BY QueuedSame, Zenon DEF Coordinator!OwnerExited, C!OwnerExited,
       Coordinator!SettleReleases, C!SettleReleases, Coordinator!Releasing,
       C!Releasing, Coordinator!ReleaseCall, C!ReleaseCall, Coordinator!AssertedUnder,
       C!AssertedUnder, Coordinator!Session, C!Session, Coordinator!References,
       C!References, Coordinator!Holding, C!Holding, Coordinator!Listed, C!Listed,
       Coordinator!IsInjective, C!IsInjective, Coordinator!Cardinality, C!Cardinality,
       Coordinator!registry, C!registry, Coordinator!leasing, C!leasing,
       Coordinator!faults, C!faults, Coordinator!physical, C!physical,
       Coordinator!port, C!port

\* acknowledgeRunStopped
LEMMA AcknowledgeSame ==
    ASSUME NEW o, NEW r
    PROVE  Coordinator!AcknowledgeRunStopped(o, r) => C!AcknowledgeRunStopped(o, r)
BY Zenon DEF Coordinator!AcknowledgeRunStopped, C!AcknowledgeRunStopped,
       Coordinator!registry, C!registry, Coordinator!leasing, C!leasing,
       Coordinator!faults, C!faults, Coordinator!physical, C!physical,
       Coordinator!port, C!port

\* reconciled
LEMMA ReconciledSame ==
    ASSUME NEW s
    PROVE  Coordinator!Reconciled(s) => C!Reconciled(s)
BY ReservationSame, Zenon DEF Coordinator!Reconciled, C!Reconciled,
       Coordinator!Reconcilable, C!Reconcilable, Coordinator!References, C!References,
       Coordinator!Holding, C!Holding, Coordinator!registry, C!registry,
       Coordinator!leasing, C!leasing, Coordinator!faults, C!faults,
       Coordinator!physical, C!physical, Coordinator!port, C!port

\* disposeOwner
LEMMA DisposeSame ==
    ASSUME NEW o
    PROVE  Coordinator!DisposeOwner(o) => C!DisposeOwner(o)
BY Zenon DEF Coordinator!DisposeOwner, C!DisposeOwner, Coordinator!Unreferenced,
       C!Unreferenced, Coordinator!Registered, C!Registered, Coordinator!Bound,
       C!Bound, Coordinator!Holding, C!Holding, Coordinator!registry, C!registry,
       Coordinator!leasing, C!leasing, Coordinator!faults, C!faults,
       Coordinator!physical, C!physical, Coordinator!port, C!port

-----------------------------------------------------------------------------
(* What the proofs about the coordinator need and give.                     *)

\* The assumptions of the proofs about the coordinator are those of the hand-off.
LEMMA CoordinatorAssumed ==
    C!LeaseAssumption /\ C!NoneAssumption /\ C!CoordinatorAssumption
<1>1. \A S : C!IsFiniteSet(S) = IsFiniteSet(S)
  BY Zenon DEF C!IsFiniteSet, IsFiniteSet
<1>2. C!LeaseAssumption
  BY <1>1, LeaseAssumption DEF C!LeaseAssumption
<1>3. C!NoneAssumption
  BY NoneAssumption DEF C!NoneAssumption, C!Leases, Leases
<1>4. C!CoordinatorAssumption
  BY HandoffAssumption, Zenon
  DEF Coordinator!CoordinatorAssumption, C!CoordinatorAssumption, Coordinator!Frames, C!Frames,
      Coordinator!Resources, C!Resources, Coordinator!Reservations, C!Reservations,
      Coordinator!Leases, C!Leases
<1> QED
  BY <1>2, <1>3, <1>4

Frames == [lease : Leases, captured : SUBSET Owners, stage : {"claim", "revoke"}]
Calls  == [op        : {"claim", "unclaim", "release", "revoke"},
           lease     : Leases \cup {None},
           by        : Owners \cup {None},
           authority : Owners \cup {None},
           runs      : SUBSET Runs]

\* The types of the coordinator's leases, gates and calls.
LEMMA CoordinatorTypes ==
    ASSUME C!IInv
    PROVE  /\ role \in [Owners -> C!Roles] /\ exited \subseteq Owners /\ revoking \subseteq Owners
           /\ sessions \in [Sessions -> Leases \cup {None}]
           /\ runs \in [Runs -> Leases \cup {None}]
           /\ claims \in [Sessions -> Frames \cup {None}]
           /\ blocked \subseteq Sessions
           /\ interruptions \in [Runs -> SUBSET Owners] /\ stoppedRuns \subseteq Runs
           /\ fencing \in [Owners -> SUBSET Leases] /\ pendingReleases \subseteq Leases
           /\ fence \in Nat
           /\ calls \in Seq(Calls)
<1>1. C!Leases = Leases
  BY DEF C!Leases, Leases
<1>2. C!Frames = Frames /\ C!Calls = Calls
  BY <1>1 DEF C!Frames, Frames, C!Calls, Calls
<1> QED
  BY <1>1, <1>2 DEF C!IInv, C!TypeOK

\* The coordinator's properties, as the hand-off states them.
LEMMA CoordinatorCoherent ==
    ASSUME C!IInv
    PROVE  CoordinatorStaysCoherent
<1> USE CoordinatorAssumed
<1>1. Coordinator!IndexesAgree
  BY DEF C!IInv, C!IndexesAgree, Coordinator!IndexesAgree
<1>2. Coordinator!PhysicalWorkPinsLease
  BY Zenon
  DEF C!IInv, C!PhysicalWorkPinsLease, Coordinator!PhysicalWorkPinsLease, C!Registered,
      Coordinator!Registered, C!Holding, Coordinator!Holding
<1>3. Coordinator!DeferredReleaseWaits
  BY Zenon
  DEF C!IInv, C!DeferredReleaseWaits, Coordinator!DeferredReleaseWaits, C!References,
      Coordinator!References, C!Holding, Coordinator!Holding
<1>4. Coordinator!ReleaseInFlightIsGated
  BY C!ReleaseIsGated, Zenon
  DEF C!ReleaseInFlightIsGated, Coordinator!ReleaseInFlightIsGated, C!Registered,
      Coordinator!Registered, C!Session, Coordinator!Session
<1>5. Coordinator!CapacityAccounted
  <2>1. C!CapacityAccounted
    BY DEF C!IInv, C!Accounted, C!Admitted, C!CapacityAccounted, C!Known
  <2> QED
    BY <2>1, KnownSame, Zenon
    DEF C!CapacityAccounted, Coordinator!CapacityAccounted, C!Reserved, Coordinator!Reserved,
        C!Session, Coordinator!Session
<1> QED
  BY <1>1, <1>2, <1>3, <1>4, <1>5 DEF CoordinatorStaysCoherent

\* What the coordinator's invariant says of leases, claims and calls.
LEMMA CoordinatorFacts ==
    ASSUME C!IInv
    PROVE  /\ \A r \in Runs : runs[r] # None =>
                 runs[r].run = r /\ sessions[SessionOf[r]] = runs[r]
           /\ \A s \in Sessions : sessions[s] # None =>
                 SessionOf[sessions[s].run] = s /\ runs[sessions[s].run] = sessions[s]
           /\ \A s \in Sessions : claims[s] # None =>
                 sessions[s] = None /\ SessionOf[claims[s].lease.run] = s
           /\ \A l \in pendingReleases : runs[l.run] = l
           /\ \A i \in DOMAIN calls :
                 /\ calls[i].op \in {"claim", "unclaim"} =>
                       LET l == calls[i].lease IN
                       l \in Leases /\ claims[Session(l)] # None /\ claims[Session(l)].lease = l
                 /\ calls[i].op = "release" => calls[i].lease \in Leases
                 /\ calls[i].op = "revoke" => calls[i].by \in Owners
<1>1. ASSUME NEW i \in DOMAIN calls
      PROVE  C!CallSound(calls[i]) /\ calls[i] \in Calls
  BY <1>1, CoordinatorTypes DEF C!IInv, C!CallsSound
<1>2. ASSUME NEW i \in DOMAIN calls, calls[i].op \in {"claim", "unclaim"}
      PROVE  LET l == calls[i].lease IN
             l \in Leases /\ claims[Session(l)] # None /\ claims[Session(l)].lease = l
  BY <1>1, <1>2 DEF C!CallSound, C!InFlight, C!Session, Session, Calls
<1>3. ASSUME NEW i \in DOMAIN calls
      PROVE  /\ calls[i].op = "release" => calls[i].lease \in Leases
             /\ calls[i].op = "revoke" => calls[i].by \in Owners
  BY <1>1, <1>3 DEF C!CallSound, Calls
<1>4. \A l \in pendingReleases : runs[l.run] = l
  BY DEF C!IInv, C!DeferredReleaseWaits
<1>5. /\ \A r \in Runs : runs[r] # None =>
            runs[r].run = r /\ sessions[SessionOf[r]] = runs[r]
      /\ \A s \in Sessions : sessions[s] # None =>
            SessionOf[sessions[s].run] = s /\ runs[sessions[s].run] = sessions[s]
  BY DEF C!IInv, C!IndexesAgree
<1>6. \A s \in Sessions : claims[s] # None =>
         sessions[s] = None /\ SessionOf[claims[s].lease.run] = s
  BY DEF C!IInv, C!Framed, C!Session
<1> QED
  BY <1>2, <1>3, <1>4, <1>5, <1>6

-----------------------------------------------------------------------------
(* The inductive invariant.                                                 *)

Row(r)    == db.rows[r]
Active(r) == Row(r) # None /\ Row(r).state = "active"

Up == {"alive", "dead"}

\* The roles of an owner that has been activated and is not disposed of.
Served == {"default", "draining", "fenced"}

\* Replies of the port; a call that has none is unanswered.
Replies    == [kind : {"ok", "refused", "null", "lease", "lost"}, lease : Leases \cup {None}]
Unanswered == [kind |-> "none", lease |-> None]
AnswerTo(i) == IF i \in DOMAIN replies THEN replies[i] ELSE Unanswered

\* The fences have a greatest one, so the query for it is defined.
FencesHaveMaximum ==
    \E m \in Durable!Fences(db) : \A f \in Durable!Fences(db) : f <= m

\* TypeOK, with the replies instead of the relation between leases and claims.
Typed ==
    /\ db \in Durable!Databases /\ FencesHaveMaximum
    /\ replies \in Seq(Replies) /\ Len(replies) <= Len(calls)
    /\ drops \in 0..MaxDrops
    /\ leases \in [Runs -> Leases \cup {None}]
    /\ pending \in [Runs -> {"none", "pending", "failed"}]
    /\ interrupted \in [Owners -> Faults \cup {None}]
    /\ stopped \subseteq Runs /\ handoffs \subseteq Leases
    /\ job \in Jobs \cup {None}
    /\ process \in [Owners -> {"none", "alive", "dead", "exited"}]
    /\ fenced \in [Owners -> {"none", "pending", "done", "failed"}]
    /\ work \in [Runs -> Works \cup {None}]
    /\ writes \subseteq Leases

\* An owner's role, process, fence and entry in the ledger go together; of a
\* generation at most one incarnation is up, and a unit's default is one of its own.
OwnerSound(o) ==
    /\ role[o] = "new" <=> process[o] = "none"
    /\ role[o] \in {"candidate", "default", "draining"} => process[o] \in Up
    /\ fenced[o] = "none" <=> role[o] \in {"new", "candidate", "default", "draining"}
    /\ interrupted[o] # None <=> role[o] = "fenced"
    /\ interrupted[o] # None => (interrupted[o].exited <=> process[o] = "exited")
    /\ process[o] = "exited" => fenced[o] = "done"
    /\ role[o] = "forgotten" => process[o] = "exited"
    /\ o \in exited => process[o] = "exited" /\ role[o] = "fenced"
    /\ o \in revoking => role[o] = "fenced"
OwnersSound ==
    /\ \A o \in Owners : OwnerSound(o)
    /\ \A u \in Units : defaultOf[u] # None =>
          defaultOf[u] \in Owners /\ UnitOf[GenOf[defaultOf[u]]] = u
    /\ \A o, e \in Owners :
          GenOf[o] = GenOf[e] /\ process[o] \in Up /\ process[e] \in Up => o = e

\* A lease of a run names it, a Kernel and what the run is bound to.
LeaseSound(r, l) ==
    /\ l.run = r
    /\ l.versions = {GenOf[l.owner]} \cup BindingsOf[r]
    /\ Kind(l.owner) = "kernel"

\* The leases of the Host, of the coordinator and of the database agree.
HostSound(r) ==
    /\ Row(r) # None => LeaseSound(r, Row(r).lease) /\ db.status[r] # "queued"
    /\ db.status[r] = "running" => Row(r) # None
    /\ leases[r] # None => LeaseSound(r, leases[r])
    /\ pending[r] # "none" => leases[r] # None /\ runs[r] = None
    /\ pending[r] = "pending" <=>
          claims[SessionOf[r]] # None /\ claims[SessionOf[r]].lease.run = r
    /\ runs[r] # None => leases[r] = runs[r] /\ Row(r) # None /\ Row(r).lease = runs[r]
    /\ Active(r) \/ db.status[r] = "running" => leases[r] # None

\* A claim has captured an owner for each version, in service then; if a fault
\* interrupts the run, it was a fault of one of them.
FrameSound(s) ==
    claims[s] # None =>
        LET l == claims[s].lease IN
        /\ s \notin blocked
        /\ LeaseSound(l.run, l)
        /\ leases[l.run] # None /\ leases[l.run].owner = l.owner
        /\ \A g \in l.versions : \E c \in claims[s].captured :
              GenOf[c] = g /\ role[c] \in Served
        /\ \A c \in claims[s].captured : GenOf[c] \in l.versions
        /\ Interrupted(l.run) => \E c \in claims[s].captured : role[c] = "fenced"

\* While the Host holds a lease of one run of a session, no other run of it has
\* one or is interrupted.
OneLease ==
    \A r, q \in Runs : SessionOf[r] = SessionOf[q] /\ r # q /\ leases[r] # None =>
        leases[q] = None /\ ~Interrupted(q)

\* A lease that was registered once: the run's row is of this lease for good.
Known(l) == Row(l.run) # None /\ Row(l.run).lease = l /\ pending[l.run] = "none"

Idle(r) == work[r] = None \/ work[r].stage = "releasing"

\* The lease of a run that has ended and is being released.
Given(l) == Known(l) /\ db.status[l.run] = "settled" /\ Idle(l.run)

\* An authority still in force may be revoked in the name of o.
Revocable(o, r) ==
    Active(r) => \/ Row(r).lease.owner = o
                 \/ GenOf[o] \in Row(r).lease.versions /\ Kind(o) # "kernel"

\* A run that a fault has found registered: revoked, or with a fault to report.
Revoked(o, r) ==
    /\ Row(r) # None /\ pending[r] = "none"
    /\ runs[r] # None => interruptions[r] # {}
    /\ Revocable(o, r)

SameDraft(a, b) == a.run = b.run /\ a.owner = b.owner /\ a.versions = b.versions /\ a.id = b.id

\* What a call and its answer say of the database.
ClaimSound(c, answer) ==
    LET r == c.lease.run IN
    /\ claims[SessionOf[r]].stage = "claim"
    /\ IF answer.kind = "lease"
       THEN /\ Row(r) # None /\ Row(r) = [lease |-> answer.lease, state |-> "active"]
            /\ SameDraft(answer.lease, c.lease)
       ELSE Row(r) = None
UnclaimSound(c, answer) ==
    LET r == c.lease.run IN
    /\ claims[SessionOf[r]].stage = "revoke"
    /\ c.authority = c.lease.owner /\ c.runs = {r}
    /\ Row(r) # None /\ Row(r).lease.owner = c.lease.owner
    /\ answer.kind # "refused"
ReleaseSound(c, answer) ==
    /\ Given(c.lease)
    /\ answer.kind = "ok" => ~Active(c.lease.run)
RevokeSound(c, answer) ==
    /\ c.authority \in Owners /\ fenced[c.by] = "pending"
    /\ \A r \in c.runs : Revoked(c.authority, r) /\ (answer.kind = "ok" => ~Active(r))
    /\ answer.kind # "refused"
CallSound(c, answer) ==
    /\ c.op = "claim"   => ClaimSound(c, answer)
    /\ c.op = "unclaim" => UnclaimSound(c, answer)
    /\ c.op = "release" => ReleaseSound(c, answer)
    /\ c.op = "revoke"  => RevokeSound(c, answer)
CallsSound == \A i \in DOMAIN calls : CallSound(calls[i], AnswerTo(i))

\* One revocation at a time for each failed owner.
OneRevocation ==
    \A i, j \in DOMAIN calls :
        calls[i].op = "revoke" /\ calls[j].op = "revoke" /\ calls[i].by = calls[j].by => i = j

\* What is remembered of leases that were registered.
TracesSound ==
    /\ \A l \in pendingReleases : Given(l) /\ work[l.run] = None
    /\ \A l \in writes : Known(l)
    /\ \A o \in Owners : \A l \in fencing[o] :
          Known(l) /\ Revoked(Coordinator!AuthorityFor(o, l), l.run)
    /\ \A r \in stoppedRuns : Row(r) # None /\ pending[r] = "none" /\ work[r] = None
    /\ \A l \in handoffs :
          Known(l) /\ db.status[l.run] = "settled" /\ ~Active(l.run) /\ runs[l.run] = None

\* An executor has the registered lease of its run; unless a fault concerns the
\* run, its authority is in force and its gate open.
WorkSound(r) ==
    work[r] # None =>
        /\ work[r].lease.run = r /\ Known(work[r].lease)
        /\ process[work[r].lease.owner] \in Up
        /\ role[work[r].lease.owner] \in Served
        /\ work[r].stage # "releasing" => runs[r] = work[r].lease
        /\ work[r].stage \in {"settled", "releasing"} => db.status[r] = "settled"
        /\ Executing(r) /\ interruptions[r] = {} =>
              work[r].stage # "stopping" /\ Active(r) /\ SessionOf[r] \notin blocked

InterruptedBy(o, r) == interrupted[o] # None /\ r \in interrupted[o].runs
Joined(r) == \E o \in Owners : InterruptedBy(o, r) /\ interrupted[o].exited

\* A fault reaches every run it concerns, and its fence every authority of
\* them; a lease that nobody executes any more has lost its authority.
FenceSound(r) ==
    /\ runs[r] # None => process[runs[r].owner] # "none"
    /\ runs[r] # None /\ fenced[runs[r].owner] # "none" => InterruptedBy(runs[r].owner, r)
    /\ runs[r] # None /\ Interrupted(r) => interruptions[r] # {}
    /\ \A o \in Owners : InterruptedBy(o, r) /\ Active(r) /\ pending[r] = "none" =>
          /\ fenced[o] # "done"
          /\ fenced[o] = "pending" => \E l \in fencing[o] : l.run = r
    /\ leases[r] # None /\ runs[r] = None /\ pending[r] = "none" =>
          ~Active(r) /\ (db.status[r] = "settled" \/ Joined(r))

\* What a reconciliation has established at each of its stages.
JobSound ==
    job # None =>
        LET r == job.run IN
        /\ job.stage \in {"read", "revoke", "free"} => pending[r] = "failed"
        /\ job.stage = "revoke" => Row(r) # None
        /\ job.stage \in {"recover", "cleanup"} =>
              pending[r] = "failed" \/ (pending[r] = "none" /\ Joined(r))
        /\ job.stage \in {"free", "recover", "cleanup", "handoff"} => ~Active(r)
        /\ job.stage \in {"recover", "cleanup", "handoff"} => runs[r] = None
        /\ job.stage = "cleanup" => db.status[r] # "running"
        /\ job.stage = "handoff" => db.status[r] = "settled" /\ pending[r] = "none"

\* What holds beside the coordinator's invariant.
Sound ==
    /\ Typed
    /\ OwnersSound
    /\ \A r \in Runs : HostSound(r)
    /\ \A s \in Sessions : FrameSound(s)
    /\ OneLease
    /\ CallsSound /\ OneRevocation
    /\ TracesSound
    /\ \A r \in Runs : WorkSound(r)
    /\ \A r \in Runs : FenceSound(r)
    /\ JobSound

\* The inductive invariant.
IInv == C!IInv /\ Sound

-----------------------------------------------------------------------------
(* The coordinator's part.                                                  *)

\* The first call and its answer.
LEMMA HeadAnswer ==
    ASSUME IInv, replies # << >>
    PROVE  /\ 1 \in DOMAIN calls /\ 1 \in DOMAIN replies /\ calls # << >>
           /\ Head(calls) = calls[1] /\ Head(calls) \in Calls
           /\ Head(replies) = AnswerTo(1) /\ Head(replies) \in Replies
           /\ CallSound(Head(calls), Head(replies))
<1>1. /\ calls \in Seq(Calls) /\ replies \in Seq(Replies) /\ Len(replies) <= Len(calls)
      /\ CallsSound
  BY CoordinatorTypes DEF IInv, Sound, Typed
<1>2. 1 \in DOMAIN replies /\ Head(replies) = replies[1] /\ Head(replies) \in Replies
  BY <1>1
<1>3. 1 \in DOMAIN calls /\ calls # << >> /\ Head(calls) = calls[1] /\ Head(calls) \in Calls
  BY <1>1, <1>2
<1> QED
  BY <1>1, <1>2, <1>3 DEF CallsSound, AnswerTo

\* The Host starts with nothing registered, running or in flight.
LEMMA CoordinatorInit == Init => C!IInv
<1> SUFFICES ASSUME Init PROVE C!IInv
  OBVIOUS
<1> USE CoordinatorAssumed
<1>1. /\ capacity \in C!Capacities
      /\ \A r \in Runs : r \notin C!Known(capacity.slots)
      /\ \A s \in Sessions : capacity.reserved[s] = None
  <2> DEFINE e == Coordinator!Slots!EmptySlots(CapacityLimit)
  <2>1. /\ e \in C!Slots!SlotsType
        /\ e.state = [r \in Runs |-> [a \in {"execution"} |-> "none"]]
    BY DEF Coordinator!Slots!EmptySlots, C!Slots!SlotsType, C!Slots!ActivityStates,
           C!CoordinatorAssumption
  <2>2. capacity = [reserved |-> [s \in Sessions |-> None], slots |-> e]
    BY DEF Init
  <2> HIDE DEF e
  <2>3. \A r \in Runs : r \notin C!Known(e)
    BY <2>1, C!KnownIff
  <2> QED
    BY <2>1, <2>2, <2>3 DEF C!Capacities
<1>2. C!IsFiniteSet(tools) /\ C!Cardinality(tools) = 0
  <2>1. tools = {}
    BY DEF Init
  <2> QED
    BY <2>1, C!FS_EmptySet
<1>3. defaultOf \in [Units -> Owners \cup {None}]
  BY HandoffAssumption DEF Init
<1>4. C!TypeOK
  BY <1>1, <1>2, <1>3, CoordinatorAssumed DEF Init, C!TypeOK, C!Roles, C!CoordinatorAssumption
<1>5. C!Accounted(capacity)
  BY <1>1, LeaseAssumption DEF C!Accounted
<1>6. C!IndexesAgree /\ C!Framed /\ C!Numbered /\ C!CallsSound /\ C!ClaimsLast
  BY DEF Init, C!IndexesAgree, C!Framed, C!Numbered, C!LeaseOf, C!CallsSound, C!ClaimsLast
<1>7. C!PhysicalWorkPinsLease /\ C!DeferredReleaseWaits /\ C!Admitted
  BY DEF Init, C!PhysicalWorkPinsLease, C!DeferredReleaseWaits, C!Holding, C!Admitted
<1> QED
  BY <1>2, <1>4, <1>5, <1>6, <1>7 DEF C!IInv

\* A step that leaves the coordinator alone.
LEMMA CoordinatorRests ==
    ASSUME C!IInv, UNCHANGED coordination
    PROVE  C!IInv'
<1>1. UNCHANGED C!vars
  BY DEF coordination, C!vars, C!registry, C!leasing, C!faults, C!physical, C!port
<1> QED
  BY <1>1, C!StepInv, CoordinatorAssumed

\* A lease that is asserted is registered.
LEMMA AssertedRegistered ==
    ASSUME NEW l \in Leases, runs[l.run] = l
    PROVE  l \in C!Registered
BY NoneAssumption DEF C!Registered, Leases

\* The coordinator's invariant, with the callers and the answers it has here.
LEMMA CoordinatorStep == IInv /\ [Next]_vars => C!IInv'
<1> SUFFICES ASSUME IInv, [Next]_vars PROVE C!IInv'
  OBVIOUS
<1> USE CoordinatorAssumed
<1>1. C!IInv /\ Typed
  BY DEF IInv, Sound
<1>2. CASE UNCHANGED coordination
  BY <1>1, <1>2, CoordinatorRests
<1>3. CASE ClaimAnswered
  <2>1. C!ClaimReply(Head(replies)) /\ replies # << >> /\ Head(calls).op = "claim"
    BY <1>3, ClaimReplySame DEF ClaimAnswered, Answered, Reply
  <2>2. CallSound(Head(calls), Head(replies)) /\ Head(calls) \in Calls
    BY <2>1, HeadAnswer
  <2>3. ASSUME Head(replies).kind = "lease"
        PROVE  /\ Head(replies).lease \in C!Leases
               /\ Head(replies).lease.id = Head(calls).lease.id
               /\ Head(replies).lease.run = Head(calls).lease.run
    <3> DEFINE r == Head(calls).lease.run
    <3>1. r \in Runs
      BY <2>1, <1>1, HeadAnswer, CoordinatorFacts DEF Leases
    <3>2. /\ db.rows[r] = [lease |-> Head(replies).lease, state |-> "active"]
          /\ SameDraft(Head(replies).lease, Head(calls).lease)
      BY <2>1, <2>2, <2>3 DEF CallSound, ClaimSound, Row
    <3>3. Head(replies).lease \in Leases
      <4>1. db.rows[r] \in Durable!Rows \cup {None}
        BY <1>1, <3>1 DEF Typed, Durable!Databases
      <4>2. db.rows[r] # None /\ db.rows[r].lease = Head(replies).lease
        BY <2>2, <2>1, <2>3, <3>2 DEF CallSound, ClaimSound, Row
      <4> QED
        BY <3>2, <4>1, <4>2 DEF Durable!Rows, Durable!Leases, Leases
    <3> QED
      BY <3>2, <3>3 DEF SameDraft, C!Leases, Leases
  <2> QED
    BY <1>1, <2>1, <2>3, C!ReceivingClaim
<1>4. CASE UnclaimAnswered
  BY <1>1, <1>4, UnclaimReplySame, C!ReceivingUnclaim DEF UnclaimAnswered
<1>5. CASE ReleaseAnswered
  BY <1>1, <1>5, ReleaseReplySame, C!ReceivingRelease DEF ReleaseAnswered
<1>6. CASE RevokeAnswered
  BY <1>1, <1>6, RevokeReplySame, C!ReceivingRevocation DEF RevokeAnswered
<1>7. ASSUME NEW r \in Runs, RunStep(r)
      PROVE  C!IInv'
  <2>1. ASSUME NEW o \in Owners, NEW captured \in SUBSET Owners, KernelClaims(o, r, captured)
        PROVE  C!IInv'
    <3>1. {GenOf[o]} \cup BindingsOf[r] \in SUBSET Generations
      BY HandoffAssumption, LeaseAssumption
    <3>2. C!Claim(o, r, {GenOf[o]} \cup BindingsOf[r], captured)
      BY <2>1, ClaimSame DEF KernelClaims
    <3> QED
      BY <1>1, <3>1, <3>2, C!Claiming
  <2>2. CASE Write(r) \/ ReadRefused(r) \/ CallFails(r) \/ Abort(r) \/ Cancel(r)
    BY <1>2, <2>2 DEF Write, ReadRefused, CallFails, Abort, Cancel
  <2>3. CASE ReportsStop(r)
    <3>1. CASE ~StopAcceptable(r)
      BY <1>2, <2>3, <3>1 DEF ReportsStop
    <3>2. CASE StopAcceptable(r)
      <4> DEFINE o == work[r].lease.owner
      <4>1. C!AcknowledgeRunStopped(o, r)
        BY <2>3, <3>2, AcknowledgeSame DEF ReportsStop
      <4>2. o \in Owners
        BY <1>1, <2>3 DEF ReportsStop, At, Stage, Typed, Works, Leases
      <4> QED
        BY <1>1, <4>1, <4>2, C!Acknowledging
    <3> QED
      BY <3>1, <3>2
  <2>4. CASE Release(r)
    <3> DEFINE l == work[r].lease
    <3>1. CASE ~Coordinator!Asserted(l)
      BY <1>2, <2>4, <3>1 DEF Release
    <3>2. CASE Coordinator!Asserted(l)
      <4>1. C!RequestRelease(l)
        BY <2>4, <3>2, RequestReleaseSame DEF Release
      <4>2. l \in Leases /\ runs[l.run] = l
        BY <1>1, <2>4, <3>2
        DEF Release, At, Stage, Typed, Works, Coordinator!Asserted, Coordinator!AssertedUnder
      <4> QED
        BY <1>1, <4>1, <4>2, AssertedRegistered, C!Requesting
    <3> QED
      BY <3>1, <3>2
  <2>5. ASSUME NEW o \in Owners, NEW call \in CallIds, StartTool(r, call, o)
        PROVE  C!IInv'
    <3> DEFINE l == work[r].lease
    <3>1. C!ReserveTool(l, call, o)
      BY <2>5, ReserveToolSame DEF StartTool
    <3>2. l \in Leases /\ runs[l.run] = l
      BY <1>1, <2>5
      DEF StartTool, At, Stage, Typed, Works, Coordinator!ReserveTool, Coordinator!HasCapacity,
          Coordinator!Asserted, Coordinator!AssertedUnder
    <3> QED
      BY <1>1, <3>1, <3>2, AssertedRegistered, C!ReservingTool
  <2>6. ASSUME NEW o \in Owners, NEW key \in Keys, StartCommand(r, key, o)
        PROVE  C!IInv'
    <3> DEFINE l == work[r].lease
    <3>1. C!RetainSourceResource(o, key, l)
      BY <2>6, RetainSame DEF StartCommand
    <3>2. l \in Leases /\ runs[l.run] = l
      BY <1>1, <2>6
      DEF StartCommand, At, Stage, Typed, Works, Coordinator!RetainSourceResource,
          Coordinator!HasCapacity, Coordinator!Asserted, Coordinator!AssertedUnder
    <3> QED
      BY <1>1, <3>1, <3>2, AssertedRegistered, C!Taking
  <2> QED
    BY <1>7, <2>1, <2>2, <2>3, <2>4, <2>5, <2>6 DEF RunStep
<1>8. ASSUME NEW o \in Owners, OwnerStep(o)
      PROVE  C!IInv'
  <2>1. CASE Prepare(o)
    BY <1>1, <2>1, RegisterSame, C!Registering DEF Prepare
  <2>2. CASE Activate(o)
    BY <1>1, <2>2, ActivateSame, C!Activating DEF Activate
  <2>3. CASE Die(o)
    BY <1>2, <2>3 DEF Die
  <2>4. CASE Fault(o)
    BY <1>1, <2>4, RevokeSame, C!Revoking DEF Fault
  <2>5. CASE Exit(o)
    BY <1>1, <2>5, OwnerExitedSame, C!Exiting DEF Exit
  <2>6. CASE Dispose(o)
    BY <1>1, <2>6, DisposeSame, C!Disposing DEF Dispose
  <2> QED
    BY <1>8, <2>1, <2>2, <2>3, <2>4, <2>5, <2>6 DEF OwnerStep
<1>9. CASE ActivityEnds
  <2>1. ASSUME NEW t \in tools, EndTool(t)
        PROVE  C!IInv'
    BY <1>1, <2>1, ReleaseToolSame, C!ReleasingTool DEF EndTool
  <2>2. ASSUME NEW key \in Keys, EndCommand(key)
        PROVE  C!IInv'
    BY <1>1, <2>2, ReleaseResourceSame, C!ReleasingResource DEF EndCommand
  <2> QED
    BY <1>9, <2>1, <2>2 DEF ActivityEnds
<1>10. ASSUME NEW r \in Runs, JobStart(r)
       PROVE  C!IInv'
  <2>1. CASE StartClaim(r) \/ StartHandoff(r)
    BY <1>2, <2>1 DEF StartClaim, StartHandoff
  <2>2. ASSUME NEW o \in Owners, StartInterrupted(o, r)
        PROVE  C!IInv'
    BY <1>1, <2>2, ReconciledSame, LeaseAssumption, C!Reconciling DEF StartInterrupted
  <2> QED
    BY <1>10, <2>1, <2>2 DEF JobStart
<1>11. CASE JobStep
  <2>1. CASE JobFree
    <3>1. CASE UNCHANGED coordination
      BY <1>2, <3>1
    <3>2. CASE Coordinator!Reconciled(SessionOf[job.run])
      <4>1. SessionOf[job.run] \in Sessions
        BY <1>1, <2>1, LeaseAssumption DEF JobFree, JobAt, Typed, Jobs
      <4> QED
        BY <1>1, <3>2, <4>1, ReconciledSame, C!Reconciling
    <3> QED
      BY <2>1, <3>1, <3>2 DEF JobFree
  <2>2. CASE JobRead \/ JobRevoke \/ JobRecover \/ JobCleanup \/ JobHandoff \/ JobFails
    BY <1>2, <2>2 DEF JobRead, JobRevoke, JobRecover, JobCleanup, JobHandoff, JobFails
  <2> QED
    BY <1>11, <2>1, <2>2 DEF JobStep
<1>12. CASE \/ PortStep
            \/ \E lease \in writes : WriteArrives(lease)
            \/ \E lease \in handoffs : FinishHandoff(lease) \/ FailHandoff(lease)
  BY <1>2, <1>12 DEF PortStep, Serve, Drop, WriteArrives, FinishHandoff, FailHandoff
<1>13. CASE UNCHANGED vars
  BY <1>2, <1>13 DEF vars
<1> QED
  BY <1>3, <1>4, <1>5, <1>6, <1>7, <1>8, <1>9, <1>10, <1>11, <1>12, <1>13 DEF Next, ReplyStep

-----------------------------------------------------------------------------
(* What a step keeps of a run, and what that keeps of the invariant.        *)

\* The row of a run stays, an authority may end and the run may settle; a run
\* that is granted its row is not excluded.
Lasts(r) ==
    Row(r) # None =>
        /\ Row(r)' # None /\ Row(r)'.lease = Row(r).lease
        /\ Active(r)' => Active(r)
        /\ db'.status[r] \in {db.status[r], "settled"}

\* And nothing is granted.
Fades(r) ==
    /\ Lasts(r)
    /\ Row(r) = None => Row(r)' = None
    /\ db'.status[r] \in {db.status[r], "settled"}

\* A run whose claim has been answered: nothing registers it, executes it or
\* opens its interruption again.
Past(r) == Row(r) # None /\ pending[r] = "none"
Remembers(r) ==
    Past(r) =>
        /\ pending'[r] = "none"
        /\ runs'[r] # None => runs[r] # None /\ (interruptions[r] # {} => interruptions'[r] # {})
        /\ work[r] = None => work'[r] = None
        /\ Idle(r) => Idle(r)'

\* A step that leaves the database, and one that leaves the runs alone.
LEMMA DatabaseRests ==
    ASSUME UNCHANGED db, NEW r
    PROVE  Fades(r)
BY DEF Fades, Lasts, Row, Active

\* A step that leaves the runs, their claims, interruptions and executors alone.
LEMMA RunsRest ==
    ASSUME UNCHANGED << runs, interruptions, pending, work >>, NEW r
    PROVE  Remembers(r)
BY DEF Remembers, Past, Idle

\* A registered lease stays its run's.
LEMMA KnownStays ==
    ASSUME NEW l, Lasts(l.run), Remembers(l.run), Known(l)
    PROVE  Known(l)'
BY DEF Known, Lasts, Remembers, Past, Row

\* A run that has ended and is being released stays so.
LEMMA GivenStays ==
    ASSUME NEW l, Lasts(l.run), Remembers(l.run), Given(l)
    PROVE  Given(l)'
<1>1. Known(l)'
  BY KnownStays DEF Given
<1> QED
  BY <1>1 DEF Given, Known, Lasts, Remembers, Past, Row

\* A run that a fault has found stays found, and its authority revocable.
LEMMA RevokedStays ==
    ASSUME NEW o, NEW r, Lasts(r), Remembers(r), Revoked(o, r)
    PROVE  Revoked(o, r)'
<1>1. Revocable(o, r)'
  BY DEF Revoked, Revocable, Lasts, Row, Active
<1> QED
  BY <1>1 DEF Revoked, Lasts, Remembers, Past, Row

\* What else a call needs: the frame and the row of its claim, the fence of its
\* owner.
CallKeeps(c) ==
    LET s == SessionOf[c.lease.run] IN
    /\ c.op = "claim" => Row(c.lease.run)' = Row(c.lease.run)
    /\ c.op \in {"claim", "unclaim"} => claims'[s].stage = claims[s].stage
    /\ c.op = "revoke" => fenced'[c.by] = fenced[c.by]

\* A call keeps what it says while its run's row and claim stay.
LEMMA CallStays ==
    ASSUME \A r \in Runs : Lasts(r) /\ Remembers(r),
           NEW c \in Calls, c.op # "revoke" => c.lease \in Leases,
           NEW answer, CallSound(c, answer), CallKeeps(c)
    PROVE  CallSound(c, answer)'
<1>1. c.op # "revoke" => c.lease.run \in Runs
  BY DEF Leases
<1>2. c.op = "claim" => ClaimSound(c, answer)'
  BY <1>1 DEF CallSound, ClaimSound, CallKeeps, Row, SameDraft
<1>3. c.op = "unclaim" => UnclaimSound(c, answer)'
  BY <1>1 DEF CallSound, UnclaimSound, CallKeeps, Lasts, Row
<1>4. ASSUME c.op = "release" PROVE ReleaseSound(c, answer)'
  <2>1. Given(c.lease)'
    BY <1>1, <1>4, GivenStays DEF CallSound, ReleaseSound
  <2>2. Active(c.lease.run)' => Active(c.lease.run)
    BY <1>1, <1>4 DEF CallSound, ReleaseSound, Given, Known, Lasts
  <2> QED
    BY <1>4, <2>1, <2>2 DEF CallSound, ReleaseSound
<1>5. ASSUME c.op = "revoke" PROVE RevokeSound(c, answer)'
  <2>1. RevokeSound(c, answer)
    BY <1>5 DEF CallSound
  <2>2. ASSUME NEW r \in c.runs
        PROVE  Revoked(c.authority, r)' /\ (answer.kind = "ok" => ~Active(r)')
    <3>1. r \in Runs
      BY <2>2 DEF Calls
    <3>2. Revoked(c.authority, r) /\ (answer.kind = "ok" => ~Active(r))
      BY <2>1, <2>2 DEF RevokeSound
    <3> QED
      BY <3>1, <3>2, RevokedStays DEF Revoked, Lasts
  <2> QED
    BY <1>5, <2>1, <2>2 DEF RevokeSound, CallKeeps
<1> QED
  BY <1>2, <1>3, <1>4, <1>5 DEF CallSound

\* The leases of the calls, and that a claim is pending at the Host.
LEMMA CallFacts ==
    ASSUME IInv, NEW i \in DOMAIN calls
    PROVE  /\ calls[i] \in Calls /\ CallSound(calls[i], AnswerTo(i))
           /\ calls[i].op # "revoke" =>
                 calls[i].lease \in Leases /\ calls[i].lease.run \in Runs
           /\ calls[i].op = "revoke" => calls[i].by \in Owners /\ calls[i].authority \in Owners
           /\ calls[i].op \in {"claim", "unclaim"} =>
                 /\ claims[Session(calls[i].lease)] # None
                 /\ claims[Session(calls[i].lease)].lease = calls[i].lease
                 /\ pending[calls[i].lease.run] = "pending"
<1>1. C!IInv /\ calls[i] \in Calls /\ CallSound(calls[i], AnswerTo(i))
  BY CoordinatorTypes DEF IInv, Sound, CallsSound
<1>2. calls[i].op # "revoke" => calls[i].lease \in Leases /\ calls[i].lease.run \in Runs
  BY <1>1, CoordinatorFacts DEF Calls, Leases
<1>3. calls[i].op = "revoke" => calls[i].by \in Owners /\ calls[i].authority \in Owners
  BY <1>1, CoordinatorFacts DEF CallSound, RevokeSound
<1>4. calls[i].op \in {"claim", "unclaim"} =>
         /\ claims[Session(calls[i].lease)] # None
         /\ claims[Session(calls[i].lease)].lease = calls[i].lease
  BY <1>1, CoordinatorFacts
<1>5. calls[i].op \in {"claim", "unclaim"} => pending[calls[i].lease.run] = "pending"
  BY <1>2, <1>4 DEF IInv, Sound, HostSound, Session
<1> QED
  BY <1>1, <1>2, <1>3, <1>4, <1>5

\* The calls and answers that stay, with their positions.
LEMMA AnswersShift ==
    ASSUME IInv, NEW k, NEW New, C!Moves(calls', calls, k, New), calls' \in Seq(Calls),
           \/ k = 0 /\ UNCHANGED replies
           \/ k = 1 /\ replies # << >> /\ replies' = Tail(replies),
           NEW i \in DOMAIN calls'
    PROVE  \/ /\ i + k \in DOMAIN calls /\ k < i + k
              /\ calls'[i] = calls[i + k] /\ AnswerTo(i)' = AnswerTo(i + k)
           \/ /\ Len(calls) - k < i
              /\ calls'[i] \in New /\ AnswerTo(i)' = Unanswered
<1>1. /\ replies \in Seq(Replies) /\ Len(replies) <= Len(calls) /\ Len(replies) \in Nat
      /\ calls \in Seq(Calls) /\ Len(calls) \in Nat /\ DOMAIN calls = 1..Len(calls)
      /\ DOMAIN replies = 1..Len(replies)
  BY CoordinatorTypes DEF IInv, Sound, Typed
<1>2. i \in 1..Len(calls') /\ Len(calls') \in Nat
  OBVIOUS
<1>3. /\ DOMAIN replies' = 1..(Len(replies) - k)
      /\ \A j \in 1..(Len(replies) - k) : replies'[j] = replies[j + k]
  <2>1. CASE k = 0 /\ UNCHANGED replies
    BY <1>1, <2>1
  <2>2. CASE k = 1 /\ replies # << >> /\ replies' = Tail(replies)
    <3>1. /\ Tail(replies) \in Seq(Replies) /\ Len(Tail(replies)) = Len(replies) - 1
          /\ \A j \in 1..(Len(replies) - 1) : Tail(replies)[j] = replies[j + 1]
      BY <1>1, <2>2
    <3>2. DOMAIN Tail(replies) = 1..(Len(replies) - 1)
      BY <3>1
    <3> QED
      BY <2>2, <3>1, <3>2
  <2> QED
    BY <2>1, <2>2
<1>4. k \in {0, 1} /\ k <= Len(calls) /\ Len(calls) - k <= Len(calls')
  BY DEF C!Moves
<1>5. CASE i \in 1..(Len(calls) - k)
  <2>1. calls'[i] = calls[i + k] /\ i + k \in DOMAIN calls /\ k < i + k
    BY <1>1, <1>4, <1>5 DEF C!Moves
  <2>2. i \in 1..(Len(replies) - k) <=> i + k \in 1..Len(replies)
    BY <1>1, <1>2, <1>4
  <2>3. AnswerTo(i)' = IF i \in DOMAIN replies' THEN replies'[i] ELSE Unanswered
    BY DEF AnswerTo, Unanswered
  <2> QED
    BY <1>1, <1>3, <2>1, <2>2, <2>3 DEF AnswerTo
<1>6. CASE i \in (Len(calls) - k + 1)..Len(calls')
  <2>1. i \notin DOMAIN replies' /\ Len(calls) - k < i
    BY <1>1, <1>3, <1>4, <1>6
  <2> QED
    BY <1>6, <2>1 DEF C!Moves, AnswerTo, Unanswered
<1> QED
  BY <1>1, <1>2, <1>4, <1>5, <1>6

\* The calls stay sound, and those that are added are.
LEMMA CallsFollow ==
    ASSUME IInv, NEW k, NEW New, C!Moves(calls', calls, k, New), calls' \in Seq(Calls),
           \/ k = 0 /\ UNCHANGED replies
           \/ k = 1 /\ replies # << >> /\ replies' = Tail(replies),
           \A r \in Runs : Lasts(r) /\ Remembers(r),
           \A i \in DOMAIN calls, c \in Calls : k < i /\ c = calls[i] => CallKeeps(c),
           \A c \in New : CallSound(c, Unanswered)'
    PROVE  CallsSound'
<1> SUFFICES ASSUME NEW i \in DOMAIN calls' PROVE CallSound(calls[i], AnswerTo(i))'
  BY DEF CallsSound
<1>1. CASE /\ i + k \in DOMAIN calls /\ k < i + k
           /\ calls'[i] = calls[i + k] /\ AnswerTo(i)' = AnswerTo(i + k)
  <2>1. PICK c \in Calls : c = calls[i + k]
    BY <1>1, CallFacts
  <2>2. PICK a : a = AnswerTo(i + k)
    OBVIOUS
  <2>3. CallSound(c, a) /\ CallKeeps(c) /\ (c.op # "revoke" => c.lease \in Leases)
    BY <1>1, <2>1, <2>2, CallFacts
  <2>4. CallSound(c, a)'
    BY <2>3, CallStays
  <2> QED
    BY <1>1, <2>1, <2>2, <2>4
<1>2. CASE calls'[i] \in New /\ AnswerTo(i)' = Unanswered
  <2>1. PICK c \in New : c = calls'[i]
    BY <1>2
  <2> QED
    BY <1>2, <2>1 DEF Unanswered
<1> QED
  BY <1>1, <1>2, AnswersShift

\* An answered call makes room for at most one revocation by the same owner.
LEMMA RevocationsStay ==
    ASSUME IInv, NEW k, NEW New, C!Moves(calls', calls, k, New), calls' \in Seq(Calls),
           \A c \in New : c.op # "revoke"
    PROVE  OneRevocation'
<1>1. calls \in Seq(Calls) /\ Len(calls) \in Nat /\ DOMAIN calls = 1..Len(calls)
  BY CoordinatorTypes DEF IInv, Sound
<1>2. Len(calls') \in Nat /\ DOMAIN calls' = 1..Len(calls')
  OBVIOUS
<1>3. k \in {0, 1} /\ k <= Len(calls) /\ Len(calls) - k <= Len(calls')
  BY DEF C!Moves
<1>4. ASSUME NEW i \in DOMAIN calls', calls'[i].op = "revoke"
      PROVE  i + k \in DOMAIN calls /\ calls'[i] = calls[i + k]
  <2>1. i \in 1..(Len(calls) - k) \/ i \in (Len(calls) - k + 1)..Len(calls')
    BY <1>1, <1>2, <1>3, <1>4
  <2>2. i \notin (Len(calls) - k + 1)..Len(calls')
    BY <1>4 DEF C!Moves
  <2>3. calls'[i] = calls[i + k]
    BY <2>1, <2>2 DEF C!Moves
  <2> QED
    BY <1>1, <1>2, <1>3, <2>1, <2>2, <2>3
<1>5. \A i, j \in DOMAIN calls' : i + k = j + k => i = j
  BY <1>2, <1>3
<1> QED
  BY <1>4, <1>5 DEF IInv, Sound, OneRevocation

\* A revocation that joins the port is the only one of its owner there.
LEMMA RevocationCalled ==
    ASSUME IInv, NEW k, NEW c, C!Moves(calls', calls, k, {c}), calls' \in Seq(Calls),
           Len(calls') = Len(calls) - k + 1,
           \A i \in DOMAIN calls : k < i /\ calls[i].op = "revoke" => calls[i].by # c.by
    PROVE  OneRevocation'
<1>1. calls \in Seq(Calls) /\ Len(calls) \in Nat /\ DOMAIN calls = 1..Len(calls)
  BY CoordinatorTypes DEF IInv, Sound
<1>2. Len(calls') \in Nat /\ DOMAIN calls' = 1..Len(calls')
  OBVIOUS
<1>3. k \in {0, 1} /\ k <= Len(calls) /\ Len(calls) - k <= Len(calls')
  BY DEF C!Moves
<1>4. ASSUME NEW i \in DOMAIN calls'
      PROVE  \/ i + k \in DOMAIN calls /\ k < i + k /\ calls'[i] = calls[i + k]
             \/ i = Len(calls) - k + 1 /\ calls'[i] = c
  <2>1. i \in 1..(Len(calls) - k) \/ i \in (Len(calls) - k + 1)..Len(calls')
    BY <1>1, <1>2, <1>3, <1>4
  <2>2. CASE i \in 1..(Len(calls) - k)
    <3>1. calls'[i] = calls[i + k]
      BY <2>2 DEF C!Moves
    <3> QED
      BY <1>1, <1>3, <2>2, <3>1
  <2>3. CASE i \in (Len(calls) - k + 1)..Len(calls')
    <3>1. calls'[i] = c
      BY <2>3 DEF C!Moves
    <3> QED
      BY <1>1, <1>2, <1>3, <2>3, <3>1
  <2> QED
    BY <2>1, <2>2, <2>3
<1>5. \A i, j \in DOMAIN calls' : i + k = j + k => i = j
  BY <1>2, <1>3
<1> QED
  BY <1>1, <1>2, <1>3, <1>4, <1>5 DEF IInv, Sound, OneRevocation

\* The traces stay, and those that are added are sound.
LEMMA TracesStay ==
    ASSUME IInv, \A r \in Runs : Lasts(r) /\ Remembers(r),
           pendingReleases' \subseteq Leases, writes' \subseteq Leases,
           fencing' \in [Owners -> SUBSET Leases], stoppedRuns' \subseteq Runs,
           handoffs' \subseteq Leases,
           \A l \in pendingReleases' \ pendingReleases : (Given(l) /\ work[l.run] = None)',
           \A l \in writes' \ writes : Known(l)',
           \A o \in Owners : \A l \in fencing'[o] \ fencing[o] :
              (Known(l) /\ Revoked(Coordinator!AuthorityFor(o, l), l.run))',
           \A r \in stoppedRuns' \ stoppedRuns : (Past(r) /\ work[r] = None)',
           \A l \in handoffs' \ handoffs :
              (Known(l) /\ db.status[l.run] = "settled" /\ ~Active(l.run) /\ runs[l.run] = None)'
    PROVE  TracesSound'
<1>1. \A l \in Leases : l.run \in Runs
  BY DEF Leases
<1>2. TracesSound
  BY DEF IInv, Sound
<1>3. ASSUME NEW l \in pendingReleases' PROVE (Given(l) /\ work[l.run] = None)'
  <2>1. l \in Leases /\ l.run \in Runs
    BY <1>1
  <2>2. CASE l \in pendingReleases
    <3>1. Given(l) /\ work[l.run] = None
      BY <1>2, <2>2 DEF TracesSound
    <3>2. Given(l)'
      BY <2>1, <3>1, GivenStays
    <3> QED
      BY <2>1, <3>1, <3>2 DEF Given, Known, Remembers, Past, Row
  <2> QED
    BY <2>2
<1>4. ASSUME NEW l \in writes' PROVE Known(l)'
  <2>1. CASE l \in writes
    BY <1>1, <1>2, <1>4, <2>1, KnownStays DEF TracesSound
  <2> QED
    BY <1>4, <2>1
<1>5. ASSUME NEW o \in Owners, NEW l \in fencing'[o]
      PROVE  (Known(l) /\ Revoked(Coordinator!AuthorityFor(o, l), l.run))'
  <2>1. l \in Leases /\ l.run \in Runs
    BY <1>1
  <2>2. CASE l \in fencing[o]
    <3>1. Known(l) /\ Revoked(Coordinator!AuthorityFor(o, l), l.run)
      BY <1>2, <2>2 DEF TracesSound
    <3>2. Known(l)' /\ Revoked(Coordinator!AuthorityFor(o, l), l.run)'
      BY <2>1, <3>1, KnownStays, RevokedStays
    <3> QED
      BY <3>2
  <2> QED
    BY <2>2
<1>6. ASSUME NEW r \in stoppedRuns' PROVE (Row(r) # None /\ pending[r] = "none" /\ work[r] = None)'
  <2>1. CASE r \in stoppedRuns
    <3>1. r \in Runs /\ Past(r) /\ work[r] = None
      BY <1>2, <2>1, <1>6 DEF TracesSound, Past
    <3> QED
      BY <3>1 DEF Lasts, Remembers, Past, Row
  <2> QED
    BY <1>6, <2>1 DEF Past
<1>7. ASSUME NEW l \in handoffs'
      PROVE  (Known(l) /\ db.status[l.run] = "settled" /\ ~Active(l.run) /\ runs[l.run] = None)'
  <2>1. l \in Leases /\ l.run \in Runs
    BY <1>1
  <2>2. CASE l \in handoffs
    <3>1. Known(l) /\ db.status[l.run] = "settled" /\ ~Active(l.run) /\ runs[l.run] = None
      BY <1>2, <2>2 DEF TracesSound
    <3>2. Known(l)'
      BY <2>1, <3>1, KnownStays
    <3> QED
      BY <2>1, <3>1, <3>2 DEF Known, Lasts, Remembers, Past, Row
  <2> QED
    BY <2>2
<1> QED
  BY <1>3, <1>4, <1>5, <1>6, <1>7 DEF TracesSound

\* An executor that stays as it is, or stops being one.
LEMMA WorkStays ==
    ASSUME NEW r \in Runs, WorkSound(r), Lasts(r), Remembers(r),
           work'[r] # None =>
              /\ work'[r] = work[r]
              /\ process'[work[r].lease.owner] \in Up
              /\ role'[work[r].lease.owner] \in Served
              /\ work[r].stage # "releasing" => runs'[r] = runs[r]
              /\ Executing(r) /\ interruptions'[r] = {} =>
                    /\ interruptions[r] = {} /\ (Active(r) => Active(r)')
                    /\ SessionOf[r] \notin blocked => SessionOf[r] \notin blocked'
    PROVE  WorkSound(r)'
<1> SUFFICES ASSUME work'[r] # None
             PROVE  /\ (work[r].lease.run = r)' /\ Known(work[r].lease)'
                    /\ (process[work[r].lease.owner] \in Up /\ role[work[r].lease.owner] \in Served)'
                    /\ (work[r].stage # "releasing" => runs[r] = work[r].lease)'
                    /\ (work[r].stage \in {"settled", "releasing"} => db.status[r] = "settled")'
                    /\ (Executing(r) /\ interruptions[r] = {} =>
                          work[r].stage # "stopping" /\ Active(r) /\ SessionOf[r] \notin blocked)'
  BY DEF WorkSound
<1>1. work'[r] = work[r] /\ work[r] # None
  OBVIOUS
<1>2. PICK l : l = work[r].lease
  OBVIOUS
<1>3. l.run = r /\ Known(l)
  BY <1>1, <1>2 DEF WorkSound
<1>4. Known(l)'
  BY <1>3, KnownStays
<1>5. Executing(r)' = Executing(r)
  BY <1>1 DEF Executing, Stage
<1>6. Known(work[r].lease)'
  BY <1>1, <1>2, <1>4
<1>7. (work[r].stage \in {"settled", "releasing"} => db.status[r] = "settled")'
  BY <1>1, <1>2, <1>3 DEF WorkSound, Known, Lasts
<1>8. (Executing(r) /\ interruptions[r] = {} =>
          work[r].stage # "stopping" /\ Active(r) /\ SessionOf[r] \notin blocked)'
  BY <1>1, <1>5 DEF WorkSound
<1> QED
  BY <1>1, <1>2, <1>3, <1>6, <1>7, <1>8 DEF WorkSound

\* The leases of a run that stay, and the Host's that is forgotten.
LEMMA HostStays ==
    ASSUME NEW r \in Runs, HostSound(r), Fades(r),
           leases'[r] = leases[r], pending'[r] = pending[r],
           claims'[SessionOf[r]] # None =>
              claims[SessionOf[r]] # None /\ claims'[SessionOf[r]].lease = claims[SessionOf[r]].lease,
           pending[r] = "pending" => claims'[SessionOf[r]] # None,
           runs'[r] \in {runs[r], None}
    PROVE  HostSound(r)'
<1>1. claims'[SessionOf[r]] # None =>
         claims[SessionOf[r]] # None /\ claims'[SessionOf[r]].lease = claims[SessionOf[r]].lease
  OBVIOUS
<1>2. (pending[r] = "pending" <=>
          claims[SessionOf[r]] # None /\ claims[SessionOf[r]].lease.run = r)'
  BY DEF HostSound
<1>3. (Row(r) # None => LeaseSound(r, Row(r).lease) /\ db.status[r] # "queued")'
  BY DEF HostSound, Fades, Lasts, Row, LeaseSound
<1>4. (db.status[r] = "running" => Row(r) # None)'
  BY DEF HostSound, Fades, Lasts, Row
<1>5. (runs[r] # None => leases[r] = runs[r] /\ Row(r) # None /\ Row(r).lease = runs[r])'
  BY DEF HostSound, Fades, Lasts, Row
<1>6. (Active(r) \/ db.status[r] = "running" => leases[r] # None)'
  BY DEF HostSound, Fades, Lasts, Row, Active
<1>7. (leases[r] # None => LeaseSound(r, leases[r]))'
  BY DEF HostSound, LeaseSound
<1>8. (pending[r] # "none" => leases[r] # None /\ runs[r] = None)'
  BY DEF HostSound
<1> QED
  BY <1>2, <1>3, <1>4, <1>5, <1>6, <1>7, <1>8 DEF HostSound

\* The Host gives up the lease of a run whose authority has ended.
LEMMA HostForgets ==
    ASSUME NEW r \in Runs, HostSound(r), UNCHANGED db,
           leases'[r] = None, pending'[r] = "none", pending[r] # "pending",
           runs[r] = None, runs'[r] = None, claims' = claims,
           ~Active(r), db.status[r] # "running"
    PROVE  HostSound(r)'
BY DEF HostSound, Row, Active, LeaseSound

\* A claim keeps its lease and its owners.
LEMMA FrameStays ==
    ASSUME NEW s \in Sessions, FrameSound(s),
           claims'[s] # None =>
              /\ claims[s] # None /\ s \notin blocked'
              /\ claims'[s].lease = claims[s].lease /\ claims'[s].captured = claims[s].captured
              /\ leases'[claims[s].lease.run] = leases[claims[s].lease.run]
              /\ \A c \in claims[s].captured :
                    /\ role[c] \in Served => role'[c] \in Served
                    /\ role[c] = "fenced" => role'[c] = "fenced"
              /\ Interrupted(claims[s].lease.run)' =>
                    \/ Interrupted(claims[s].lease.run)
                    \/ \E c \in claims[s].captured : role'[c] = "fenced"
    PROVE  FrameSound(s)'
<1> SUFFICES ASSUME claims'[s] # None PROVE FrameSound(s)'
  BY DEF FrameSound
<1>1. PICK l : l = claims[s].lease
  OBVIOUS
<1>2. PICK z : z = claims[s].captured
  OBVIOUS
<1>3. /\ LeaseSound(l.run, l)
      /\ leases[l.run] # None /\ leases[l.run].owner = l.owner
      /\ \A g \in l.versions : \E c \in z : GenOf[c] = g /\ role[c] \in Served
      /\ \A c \in z : GenOf[c] \in l.versions
      /\ Interrupted(l.run) => \E c \in z : role[c] = "fenced"
  BY <1>1, <1>2 DEF FrameSound
<1>4. LeaseSound(l.run, l)'
  BY <1>3 DEF LeaseSound
<1>5. claims'[s].lease = l /\ claims'[s].captured = z /\ s \notin blocked'
  BY <1>1, <1>2
<1>6. (leases[l.run] # None /\ leases[l.run].owner = l.owner)'
  BY <1>1, <1>3
<1>7. (Interrupted(l.run) => \E c \in z : role[c] = "fenced")'
  BY <1>1, <1>2, <1>3
<1>8. \A g \in l.versions : \E c \in z : GenOf[c] = g /\ role'[c] \in Served
  BY <1>2, <1>3
<1> QED
  BY <1>3, <1>4, <1>5, <1>6, <1>7, <1>8 DEF FrameSound

\* The Host's leases of a session.
LEMMA OneStays ==
    ASSUME OneLease,
           \A r \in Runs : /\ leases'[r] # None => leases[r] # None
                           /\ Interrupted(r)' => Interrupted(r) \/ leases[r] # None
    PROVE  OneLease'
BY DEF OneLease

\* The fences of a run: those that hold on, and those that are done with it.
LEMMA FenceStays ==
    ASSUME NEW r \in Runs, FenceSound(r), Fades(r),
           runs'[r] = runs[r], pending'[r] = pending[r], leases'[r] \in {leases[r], None},
           interruptions[r] # {} => interruptions'[r] # {},
           runs[r] # None =>
              /\ runs[r].owner \in Owners
              /\ fenced'[runs[r].owner] # "none" => fenced[runs[r].owner] # "none"
              /\ process'[runs[r].owner] = "none" => process[runs[r].owner] = "none",
           \A o \in Owners :
              /\ InterruptedBy(o, r)' = InterruptedBy(o, r)
              /\ interrupted[o] # None => interrupted'[o] # None \/ r \notin interrupted[o].runs
              /\ InterruptedBy(o, r) /\ interrupted[o].exited => interrupted'[o].exited
              /\ InterruptedBy(o, r) /\ Active(r)' /\ pending[r] = "none" =>
                    /\ fenced'[o] = "done" => fenced[o] = "done"
                    /\ fenced'[o] = "pending" =>
                          fenced[o] = "pending" /\ \A l \in fencing[o] : l.run = r => l \in fencing'[o]
    PROVE  FenceSound(r)'
<1>1. (runs[r] # None /\ fenced[runs[r].owner] # "none" => InterruptedBy(runs[r].owner, r))'
  <2> SUFFICES ASSUME runs'[r] # None, fenced'[runs'[r].owner] # "none"
               PROVE  InterruptedBy(runs[r].owner, r)'
    OBVIOUS
  <2>1. InterruptedBy(runs[r].owner, r)
    BY DEF FenceSound
  <2>2. PICK o : o = runs[r].owner
    OBVIOUS
  <2>3. InterruptedBy(o, r)'
    BY <2>1, <2>2 DEF InterruptedBy
  <2> QED
    BY <2>2, <2>3 DEF InterruptedBy
<1>2. Interrupted(r)' => Interrupted(r)
  BY DEF Interrupted, InterruptedBy
<1>3. (runs[r] # None /\ Interrupted(r) => interruptions[r] # {})'
  BY <1>2 DEF FenceSound
<1>4. ASSUME NEW o \in Owners, InterruptedBy(o, r)', Active(r)', pending'[r] = "none"
      PROVE  (/\ fenced[o] # "done"
              /\ fenced[o] = "pending" => \E l \in fencing[o] : l.run = r)'
  <2>1. InterruptedBy(o, r) /\ Active(r) /\ pending[r] = "none"
    BY <1>4 DEF Fades, Lasts, Active, Row
  <2> QED
    BY <1>4, <2>1 DEF FenceSound
<1>5. Joined(r) => Joined(r)'
  BY DEF Joined, InterruptedBy
<1>6. (leases[r] # None /\ runs[r] = None /\ pending[r] = "none" =>
          ~Active(r) /\ (db.status[r] = "settled" \/ Joined(r)))'
  <2> SUFFICES ASSUME leases'[r] # None, runs'[r] = None, pending'[r] = "none"
               PROVE  ~Active(r)' /\ (db'.status[r] = "settled" \/ Joined(r)')
    OBVIOUS
  <2>1. ~Active(r) /\ (db.status[r] = "settled" \/ Joined(r))
    BY DEF FenceSound
  <2> QED
    BY <1>5, <2>1 DEF Fades, Lasts, Active, Row
<1>7. (runs[r] # None => process[runs[r].owner] # "none")'
  BY DEF FenceSound
<1> QED
  BY <1>1, <1>3, <1>4, <1>6, <1>7 DEF FenceSound

\* The reconciliation in progress.
LEMMA JobStays ==
    ASSUME IInv, job' # None => job' = job /\ Fades(job.run)
                                /\ pending'[job.run] = pending[job.run]
                                /\ runs'[job.run] \in {runs[job.run], None}
                                /\ (Joined(job.run) => Joined(job.run)')
    PROVE  JobSound'
<1> SUFFICES ASSUME job' # None PROVE JobSound'
  BY DEF JobSound
<1>1. job' = job /\ job # None /\ JobSound
  BY DEF IInv, Sound
<1>2. PICK r : r = job.run
  OBVIOUS
<1>3. /\ Active(r)' => Active(r)
      /\ Row(r) # None => Row(r)' # None
      /\ db'.status[r] \in {db.status[r], "settled"}
      /\ pending'[r] = pending[r] /\ (runs[r] = None => runs'[r] = None)
      /\ Joined(r) => Joined(r)'
  BY <1>1, <1>2 DEF Fades, Lasts, Active, Row
<1>4. JobSound' <=>
       /\ job.stage \in {"read", "revoke", "free"} => pending'[r] = "failed"
       /\ job.stage = "revoke" => Row(r)' # None
       /\ job.stage \in {"recover", "cleanup"} =>
             pending'[r] = "failed" \/ (pending'[r] = "none" /\ Joined(r)')
       /\ job.stage \in {"free", "recover", "cleanup", "handoff"} => ~Active(r)'
       /\ job.stage \in {"recover", "cleanup", "handoff"} => runs'[r] = None
       /\ job.stage = "cleanup" => db'.status[r] # "running"
       /\ job.stage = "handoff" => db'.status[r] = "settled" /\ pending'[r] = "none"
  BY <1>1, <1>2 DEF JobSound, Joined, InterruptedBy, Active, Row
<1> QED
  BY <1>1, <1>2, <1>3, <1>4 DEF JobSound

-----------------------------------------------------------------------------
(* What the transactions do to the database.                                *)

\* The fields of a lease and of a row.
LEMMA LeaseFields ==
    ASSUME NEW a \in Leases
    PROVE  /\ a.id \in Nat \ {0} /\ a.run \in Runs /\ a.owner \in Owners
           /\ a.versions \in SUBSET Generations /\ a.fence \in Nat \ {0}
           /\ a # None
BY NoneAssumption DEF Leases

\* The fields of a database.
LEMMA DatabaseFields ==
    ASSUME NEW d \in Durable!Databases
    PROVE  /\ d.rows \in [Runs -> Durable!Rows \cup {None}]
           /\ d.status \in [Runs -> {"queued", "running", "settled"}]
           /\ d.archived \in SUBSET Sessions /\ d.floor \in Nat
           /\ d.journal \in Seq(Durable!Events)
           /\ d = [rows |-> d.rows, status |-> d.status, archived |-> d.archived,
                   floor |-> d.floor, journal |-> d.journal]
           /\ \A r \in Runs : d.rows[r] # None =>
                 /\ d.rows[r].lease \in Leases
                 /\ d.rows[r].state \in {"active", "released", "revoked"}
BY DEF Durable!Databases, Durable!Statuses, Durable!Rows, Durable!RowStates, Durable!Leases,
       Leases

\* The states of a row, and the events of a lease.
LEMMA RowStates ==
    ASSUME NEW l \in Leases
    PROVE  /\ "active" \in Durable!RowStates /\ "released" \in Durable!RowStates
           /\ "revoked" \in Durable!RowStates
           /\ [type |-> "claimed", lease |-> l] \in Durable!Events
           /\ [type |-> "released", lease |-> l] \in Durable!Events
           /\ [type |-> "revoked", lease |-> l] \in Durable!Events
BY DEF Durable!RowStates, Durable!Events, Durable!Leases, Leases

\* A row is never null.
LEMMA RowType ==
    ASSUME NEW l \in Leases, NEW state \in Durable!RowStates
    PROVE  [lease |-> l, state |-> state] \in Durable!Rows /\ [lease |-> l, state |-> state] # None
<1>1. [lease |-> l, state |-> state] \in Durable!Rows
  BY DEF Durable!Rows, Durable!RowStates, Durable!Leases, Leases
<1> QED
  BY <1>1, HandoffAssumption

\* A finite set is enumerated.
LEMMA Enumerated ==
    ASSUME NEW S, IsFiniteSet(S)
    PROVE  Durable!SetToSeq(S) \in [1..Cardinality(S) -> S] /\ Cardinality(S) \in Nat
<1>1. Cardinality(S) \in Nat /\ ExistsBijection(1..Cardinality(S), S)
  BY FS_CardinalityType
<1>2. PICK f \in [1..Cardinality(S) -> S] : IsInjective(f)
  BY <1>1 DEF ExistsBijection, Bijection, Injection, IsInjective
<1>3. (CHOOSE q \in [1..Cardinality(S) -> S] : IsInjective(q)) \in [1..Cardinality(S) -> S]
  BY <1>2
<1>4. Durable!SetToSeq(S) = CHOOSE q \in [1..Cardinality(S) -> S] : IsInjective(q)
  BY Zenon DEF Durable!SetToSeq, Durable!Cardinality, Cardinality,
               Durable!IsInjective, IsInjective
<1> QED
  BY <1>1, <1>3, <1>4

\* projectOwnership.
LEMMA ProjectEffect ==
    ASSUME NEW d \in Durable!Databases, NEW l \in Leases,
           NEW state \in Durable!RowStates,
           NEW type, [type |-> type, lease |-> l] \in Durable!Events,
           NEW p, p = Durable!Project(d, l.run, l, state, type)
    PROVE  /\ p \in Durable!Databases
           /\ p.rows[l.run] = [lease |-> l, state |-> state]
           /\ \A q \in Runs \ {l.run} : p.rows[q] = d.rows[q]
           /\ p.status = d.status /\ p.floor = d.floor
<1> DEFINE row == [lease |-> l, state |-> state]
           e   == [type |-> type, lease |-> l]
<1>1. row \in Durable!Rows
  BY RowType
<1>2. e \in Durable!Events
  OBVIOUS
<1>3. p = [d EXCEPT !.rows[l.run] = row, !.journal = Append(d.journal, e)]
  BY DEF Durable!Project
<1> HIDE DEF row, e
<1>4. l.run \in Runs
  BY LeaseFields
<1>5. p = [rows |-> [d.rows EXCEPT ![l.run] = row], status |-> d.status,
           archived |-> d.archived, floor |-> d.floor, journal |-> Append(d.journal, e)]
  BY <1>3 DEF Durable!Databases
<1>6. Append(d.journal, e) \in Seq(Durable!Events)
  BY <1>2, DatabaseFields
<1>7. [d.rows EXCEPT ![l.run] = row] \in [Runs -> Durable!Rows \cup {None}]
  BY <1>1, DatabaseFields
<1>8. p \in Durable!Databases
  BY <1>5, <1>6, <1>7, DatabaseFields DEF Durable!Databases, Durable!Statuses
<1>9. p.rows[l.run] = row /\ \A q \in Runs \ {l.run} : p.rows[q] = d.rows[q]
  BY <1>4, <1>5, DatabaseFields
<1> QED
  BY <1>5, <1>8, <1>9 DEF row

\* Math.max(maximum + 1, draft.fence): the draft, fenced above every row.
LEMMA RaiseFacts ==
    ASSUME Typed, NEW draft \in Leases
    PROVE  LET l == Durable!Raise(db, draft) IN
           /\ l \in Leases /\ SameDraft(l, draft)
           /\ \A f \in Durable!Fences(db) : f \in Nat /\ f < l.fence
<1>1. Durable!Fences(db) \subseteq Nat
  <2>1. db \in Durable!Databases
    BY DEF Typed
  <2>2. db.floor \in Nat /\ \A r \in Runs : db.rows[r] # None => db.rows[r].lease.fence \in Nat
    BY <2>1, DatabaseFields, LeaseFields
  <2> QED
    BY <2>2 DEF Durable!Fences
<1>2. PICK m \in Nat : /\ m = Durable!Max(Durable!Fences(db))
                       /\ \A f \in Durable!Fences(db) : f <= m
  <2>1. \E x \in Durable!Fences(db) : \A y \in Durable!Fences(db) : x >= y
    BY <1>1 DEF Typed, FencesHaveMaximum
  <2>2. /\ Durable!Max(Durable!Fences(db)) \in Durable!Fences(db)
        /\ \A y \in Durable!Fences(db) : Durable!Max(Durable!Fences(db)) >= y
    BY <2>1 DEF Durable!Max
  <2> QED
    BY <1>1, <2>2
<1>3. PICK l : l = Durable!Raise(db, draft)
  OBVIOUS
<1>4. l = IF m + 1 > draft.fence THEN [draft EXCEPT !.fence = m + 1] ELSE draft
  BY <1>2, <1>3 DEF Durable!Raise
<1>5. /\ draft.id \in Nat \ {0} /\ draft.run \in Runs /\ draft.owner \in Owners
      /\ draft.versions \in SUBSET Generations /\ draft.fence \in Nat \ {0}
  BY LeaseFields
<1>6. l \in Leases /\ SameDraft(l, draft) /\ l.fence > m /\ l.fence \in Nat
  <2>1. CASE m + 1 > draft.fence
    <3>1. l = [id |-> draft.id, run |-> draft.run, owner |-> draft.owner,
               versions |-> draft.versions, fence |-> m + 1]
      BY <1>4, <2>1 DEF Leases
    <3> QED
      BY <1>2, <1>5, <3>1 DEF Leases, SameDraft
  <2>2. CASE ~(m + 1 > draft.fence)
    BY <1>2, <1>4, <1>5, <2>2 DEF SameDraft
  <2> QED
    BY <2>1, <2>2
<1>7. \A f \in Durable!Fences(db) : f \in Nat /\ f < l.fence
  BY <1>1, <1>2, <1>6
<1> QED
  BY <1>3, <1>6, <1>7

\* claim of a run without a row: granted, or refused with null.
LEMMA ClaimEffect ==
    ASSUME Typed, NEW draft \in Leases, Row(draft.run) = None,
           NEW x, x = Durable!ClaimIn(db, draft)
    PROVE  \/ x.db = db /\ x.reply = [kind |-> "null", lease |-> None]
           \/ \E l \in Leases :
                 /\ SameDraft(l, draft) /\ x.reply = [kind |-> "lease", lease |-> l]
                 /\ Durable!Claimable(db, draft.run)
                 /\ x.db \in Durable!Databases
                 /\ x.db.rows[draft.run] = [lease |-> l, state |-> "active"]
                 /\ x.db.status[draft.run] = "running"
                 /\ \A q \in Runs \ {draft.run} :
                       x.db.rows[q] = db.rows[q] /\ x.db.status[q] = db.status[q]
                 /\ x.db.floor = db.floor
                 /\ \A f \in Durable!Fences(db) : f \in Nat /\ f < l.fence
<1>1. CASE ~Durable!Claimable(db, draft.run)
  BY <1>1 DEF Durable!ClaimIn, Durable!Null, Row
<1>2. CASE Durable!Claimable(db, draft.run)
  <2>1. PICK l \in Leases : /\ l = Durable!Raise(db, draft) /\ SameDraft(l, draft)
                            /\ \A f \in Durable!Fences(db) : f \in Nat /\ f < l.fence
    BY RaiseFacts
  <2>2. PICK d : d = [db EXCEPT !.status[draft.run] = "running"]
    OBVIOUS
  <2>3. draft.run \in Runs /\ l.run = draft.run /\ db \in Durable!Databases
    BY <2>1, LeaseFields DEF SameDraft, Typed
  <2>4. /\ d \in Durable!Databases /\ d.rows = db.rows /\ d.floor = db.floor
        /\ d.status[draft.run] = "running"
        /\ \A q \in Runs \ {draft.run} : d.status[q] = db.status[q]
    BY <2>2, <2>3 DEF Durable!Databases, Durable!Statuses
  <2>5. PICK p : p = Durable!Project(d, draft.run, l, "active", "claimed")
    OBVIOUS
  <2>6. x = [db |-> p, reply |-> [kind |-> "lease", lease |-> l]]
    BY <1>2, <2>1, <2>2, <2>5 DEF Durable!ClaimIn, Durable!Granted, Row
  <2>7. /\ p \in Durable!Databases /\ p.status = d.status /\ p.floor = d.floor
        /\ p.rows[draft.run] = [lease |-> l, state |-> "active"]
        /\ \A q \in Runs \ {draft.run} : p.rows[q] = d.rows[q]
    <3>1. "active" \in Durable!RowStates /\ [type |-> "claimed", lease |-> l] \in Durable!Events
      BY <2>1, RowStates
    <3>2. p = Durable!Project(d, l.run, l, "active", "claimed")
      BY <2>3, <2>5
    <3> QED
      BY <2>3, <2>4, <3>1, <3>2, ProjectEffect
  <2>8. /\ x.db = p /\ x.reply = [kind |-> "lease", lease |-> l]
        /\ p.status[draft.run] = "running"
        /\ \A q \in Runs \ {draft.run} : p.rows[q] = db.rows[q] /\ p.status[q] = db.status[q]
        /\ p.floor = db.floor
    BY <2>4, <2>6, <2>7
  <2> QED
    BY <1>2, <2>1, <2>7, <2>8
<1> QED
  BY <1>1, <1>2

\* release of the lease of a settled run.
LEMMA ReleaseEffect ==
    ASSUME Typed, NEW l \in Leases, Row(l.run) # None, Row(l.run).lease = l,
           db.status[l.run] = "settled",
           NEW x, x = Durable!ReleaseIn(db, l)
    PROVE  /\ x.reply = [kind |-> "ok", lease |-> None]
           /\ x.db \in Durable!Databases
           /\ x.db.status = db.status /\ x.db.floor = db.floor
           /\ x.db.rows[l.run] = IF Active(l.run) THEN [lease |-> l, state |-> "released"]
                                                 ELSE Row(l.run)
           /\ \A q \in Runs \ {l.run} : x.db.rows[q] = Row(q)
<1>1. Durable!SameLease(db, l) /\ db \in Durable!Databases
  BY DEF Durable!SameLease, Row, Typed
<1>2. CASE ~Active(l.run)
  BY <1>1, <1>2 DEF Durable!ReleaseIn, Durable!Ok, Durable!ActiveRow, Active, Row
<1>3. CASE Active(l.run)
  <2>1. PICK p : p = Durable!Project(db, l.run, l, "released", "released")
    OBVIOUS
  <2>2. x = [db |-> p, reply |-> [kind |-> "ok", lease |-> None]]
    BY <1>1, <1>3, <2>1 DEF Durable!ReleaseIn, Durable!Ok, Durable!ActiveRow, Active, Row
  <2>3. /\ p \in Durable!Databases /\ p.status = db.status /\ p.floor = db.floor
        /\ p.rows[l.run] = [lease |-> l, state |-> "released"]
        /\ \A q \in Runs \ {l.run} : p.rows[q] = db.rows[q]
    <3>1. "released" \in Durable!RowStates /\ [type |-> "released", lease |-> l] \in Durable!Events
      BY RowStates
    <3> QED
      BY <1>1, <2>1, <3>1, ProjectEffect
  <2> QED
    BY <1>3, <2>2, <2>3 DEF Row
<1> QED
  BY <1>2, <1>3

\* revoke of authorities that may all be revoked in the name of o.
LEMMA RevokeEffect ==
    ASSUME Typed, NEW o \in Owners, NEW batch \in SUBSET Runs,
           \A r \in batch : Revocable(o, r),
           NEW x, x = Durable!RevokeIn(db, o, batch)
    PROVE  /\ x.reply = [kind |-> "ok", lease |-> None]
           /\ x.db \in Durable!Databases
           /\ x.db.status = db.status /\ x.db.floor = db.floor
           /\ \A r \in Runs :
                 x.db.rows[r] = IF r \in batch /\ Active(r)
                                THEN [lease |-> Row(r).lease, state |-> "revoked"] ELSE Row(r)
<1> DEFINE active == {r \in batch : Durable!ActiveRow(db, r)}
           order  == Durable!SetToSeq(active)
           rows   == [r \in Runs |-> IF r \in active
                                     THEN [lease |-> db.rows[r].lease, state |-> "revoked"]
                                     ELSE db.rows[r]]
           tail   == [i \in DOMAIN order |->
                        [type |-> "revoked", lease |-> db.rows[order[i]].lease]]
<1>1. db \in Durable!Databases
  BY DEF Typed
<1>2. \A r \in active : r \in Runs /\ db.rows[r] # None /\ db.rows[r].lease \in Leases
  BY <1>1, DatabaseFields DEF Durable!ActiveRow
<1>3. \A r \in active : Durable!MayRevoke(o, db.rows[r].lease)
  <2> SUFFICES ASSUME NEW r \in active PROVE Durable!MayRevoke(o, db.rows[r].lease)
    OBVIOUS
  <2>1. Active(r) /\ r \in batch
    BY DEF Active, Row, Durable!ActiveRow
  <2>2. \/ db.rows[r].lease.owner = o
        \/ GenOf[o] \in db.rows[r].lease.versions /\ Kind(o) # "kernel"
    BY <2>1 DEF Revocable, Row
  <2> QED
    BY <2>2 DEF Durable!MayRevoke, Durable!Dependencies, Kind
<1>4. x = [db |-> [db EXCEPT !.rows = rows, !.journal = db.journal \o tail],
           reply |-> [kind |-> "ok", lease |-> None]]
  <2>1. ~ \E r \in active : ~Durable!MayRevoke(o, db.rows[r].lease)
    BY <1>3
  <2> QED
    BY <1>1, <2>1 DEF Durable!RevokeIn, Durable!Ok, Durable!Databases
<1>5. rows \in [Runs -> Durable!Rows \cup {None}]
  <2>1. ASSUME NEW r \in active PROVE [lease |-> db.rows[r].lease, state |-> "revoked"] \in Durable!Rows
    BY <1>2, <2>1, RowType, RowStates
  <2> QED
    BY <1>1, <2>1, DatabaseFields
<1>6. IsFiniteSet(active)
  BY LeaseAssumption, FS_Subset
<1>7. order \in [1..Cardinality(active) -> active] /\ Cardinality(active) \in Nat
  BY <1>6, Enumerated
<1>8. tail \in Seq(Durable!Events)
  <2>1. DOMAIN order = 1..Cardinality(active)
    BY <1>7
  <2>2. \A i \in DOMAIN order :
           [type |-> "revoked", lease |-> db.rows[order[i]].lease] \in Durable!Events
    BY <1>2, <1>7 DEF Durable!Events, Durable!Leases, Leases
  <2> HIDE DEF order
  <2>3. tail \in [1..Cardinality(active) -> Durable!Events]
    BY <2>1, <2>2
  <2> QED
    BY <1>7, <2>3
<1>9. \A r \in Runs : rows[r] = IF r \in batch /\ Active(r)
                                 THEN [lease |-> Row(r).lease, state |-> "revoked"] ELSE Row(r)
  BY DEF Active, Row, Durable!ActiveRow
<1> HIDE DEF tail, rows
<1>10. db.journal \o tail \in Seq(Durable!Events)
  BY <1>1, <1>8, DatabaseFields
<1>11. PICK z \in [Runs -> Durable!Rows \cup {None}] : z = rows
  BY <1>5
<1>12. PICK j \in Seq(Durable!Events) : j = db.journal \o tail
  BY <1>10
<1>13. x = [db |-> [db EXCEPT !.rows = z, !.journal = j],
            reply |-> [kind |-> "ok", lease |-> None]]
  BY <1>4, <1>11, <1>12
<1>14. \A r \in Runs : z[r] = IF r \in batch /\ Active(r)
                               THEN [lease |-> Row(r).lease, state |-> "revoked"] ELSE Row(r)
  BY <1>9, <1>11
<1>15. PICK e : e = [db EXCEPT !.rows = z, !.journal = j]
  OBVIOUS
<1>16. e \in Durable!Databases /\ e.rows = z /\ e.status = db.status /\ e.floor = db.floor
  BY <1>1, <1>15 DEF Durable!Databases
<1>17. x.db = e /\ x.reply = [kind |-> "ok", lease |-> None]
  BY <1>13, <1>15
<1> QED
  BY <1>14, <1>16, <1>17

\* A run ends.
LEMMA SettledEffect ==
    ASSUME Typed, NEW r \in Runs, NEW d, d = [db EXCEPT !.status[r] = "settled"]
    PROVE  /\ d \in Durable!Databases /\ d.rows = db.rows /\ d.floor = db.floor
           /\ d.status[r] = "settled"
           /\ \A q \in Runs \ {r} : d.status[q] = db.status[q]
BY DEF Typed, Durable!Databases, Durable!Statuses

\* When no row is added and none gets another lease, the fences stay.
LEMMA FencesStay ==
    ASSUME Typed, db' \in Durable!Databases, db'.floor = db.floor,
           \A r \in Runs : /\ db'.rows[r] # None <=> db.rows[r] # None
                           /\ db.rows[r] # None => db'.rows[r].lease = db.rows[r].lease
    PROVE  FencesHaveMaximum'
<1>1. Durable!Fences(db') = Durable!Fences(db)
  <2>1. {db'.rows[r].lease.fence : r \in {q \in Runs : db'.rows[q] # None}} =
           {db.rows[r].lease.fence : r \in {q \in Runs : db.rows[q] # None}}
    OBVIOUS
  <2> QED
    BY <2>1 DEF Durable!Fences
<1> QED
  BY <1>1 DEF Typed, FencesHaveMaximum

\* A fence above the others is the greatest.
LEMMA FencesRaised ==
    ASSUME Typed, NEW l \in Leases, NEW r \in Runs,
           db'.rows[r] = [lease |-> l, state |-> "active"],
           \A q \in Runs \ {r} : db'.rows[q] = db.rows[q],
           db'.floor = db.floor, Row(r) = None,
           \A f \in Durable!Fences(db) : f \in Nat /\ f < l.fence
    PROVE  FencesHaveMaximum'
<1>1. db.rows \in [Runs -> Durable!Rows \cup {None}] /\ l.fence \in Nat
  BY DatabaseFields, LeaseFields DEF Typed
<1>2. [lease |-> l, state |-> "active"] # None
  BY RowType, RowStates
<1>3. Durable!Fences(db') = Durable!Fences(db) \cup {l.fence}
  <2>1. \A q \in Runs : /\ q # r => db'.rows[q] = db.rows[q]
                        /\ q = r => db'.rows[q].lease = l /\ db'.rows[q] # None
    BY <1>1, <1>2
  <2>2. \A f : f \in {db'.rows[q].lease.fence : q \in {p \in Runs : db'.rows[p] # None}} <=>
                  \/ f \in {db.rows[q].lease.fence : q \in {p \in Runs : db.rows[p] # None}}
                  \/ f = l.fence
    BY <2>1 DEF Row
  <2> QED
    BY <2>2 DEF Durable!Fences
<1>4. l.fence \in Durable!Fences(db') /\ \A f \in Durable!Fences(db') : f <= l.fence
  BY <1>1, <1>3
<1> QED
  BY <1>4 DEF FencesHaveMaximum

\* What the three effects mean for the runs.
LEMMA RowsFade ==
    ASSUME Typed,
           \A r \in Runs : db'.status[r] \in {db.status[r], "settled"},
           \A r \in Runs : \/ db'.rows[r] = db.rows[r]
                           \/ Active(r) /\ db'.rows[r] # None /\ db'.rows[r].state # "active"
                              /\ db'.rows[r].lease = db.rows[r].lease
    PROVE  \A r \in Runs : Fades(r)
BY DEF Fades, Lasts, Active, Row

-----------------------------------------------------------------------------
(* Steps that register, interrupt and conclude nothing.                     *)

\* The calls at the port and the answers to them are as they were.
LEMMA CallsRest ==
    ASSUME IInv, UNCHANGED << calls, replies, claims, fenced >>,
           \A r \in Runs : Lasts(r) /\ Remembers(r),
           \A r \in Runs : pending[r] = "pending" => Row(r)' = Row(r)
    PROVE  CallsSound' /\ OneRevocation'
<1>1. calls' \in Seq(Calls) /\ calls \in Seq(C!Calls) /\ C!IInv
  BY DEF IInv, C!IInv, C!TypeOK, Calls, C!Calls, C!Leases, Leases
<1>2. C!Moves(calls', calls, 0, {})
  BY <1>1, C!MovesFacts, CoordinatorAssumed
<1>3. ASSUME NEW i \in DOMAIN calls, NEW c \in Calls, c = calls[i] PROVE CallKeeps(c)
  <2>1. /\ c.op # "revoke" => c.lease.run \in Runs
        /\ c.op \in {"claim", "unclaim"} => pending[c.lease.run] = "pending"
    BY <1>3, CallFacts
  <2> QED
    BY <2>1 DEF CallKeeps
<1>4. CallsSound'
  BY <1>1, <1>2, <1>3, CallsFollow
<1> QED
  BY <1>1, <1>2, <1>4, RevocationsStay

\* Nothing is remembered in addition.
LEMMA TracesRest ==
    ASSUME IInv, \A r \in Runs : Lasts(r) /\ Remembers(r),
           pendingReleases' \subseteq pendingReleases, writes' \subseteq writes,
           UNCHANGED << fencing, stoppedRuns >>, handoffs' \subseteq handoffs
    PROVE  TracesSound'
<1>1. /\ fencing \in [Owners -> SUBSET Leases] /\ pendingReleases \subseteq Leases
      /\ stoppedRuns \subseteq Runs /\ handoffs \subseteq Leases /\ writes \subseteq Leases
  BY CoordinatorTypes DEF IInv, Sound, Typed
<1>2. /\ pendingReleases' \ pendingReleases = {} /\ writes' \ writes = {}
      /\ stoppedRuns' \ stoppedRuns = {} /\ handoffs' \ handoffs = {}
      /\ \A o \in Owners : fencing'[o] \ fencing[o] = {}
  OBVIOUS
<1> QED
  BY <1>1, <1>2, TracesStay

\* The executors are as they were, or gone.
LEMMA WorksRest ==
    ASSUME IInv, \A r \in Runs : Lasts(r) /\ Remembers(r),
           \A r \in Runs : work'[r] \in {work[r], None},
           UNCHANGED << runs, interruptions >>,
           \A r \in Runs : Active(r) /\ Executing(r) => Active(r)' \/ interruptions[r] # {},
           \A r \in Runs : Executing(r) /\ SessionOf[r] \in blocked' =>
              SessionOf[r] \in blocked \/ interruptions[r] # {},
           \A o \in Owners : process[o] \in Up /\ role[o] \in Served =>
              process'[o] \in Up /\ role'[o] \in Served
    PROVE  \A r \in Runs : WorkSound(r)'
<1> SUFFICES ASSUME NEW r \in Runs PROVE WorkSound(r)'
  OBVIOUS
<1>1. WorkSound(r) /\ Lasts(r) /\ Remembers(r) /\ work'[r] \in {work[r], None}
  BY DEF IInv, Sound
<1>2. work[r] # None =>
         process'[work[r].lease.owner] \in Up /\ role'[work[r].lease.owner] \in Served
  BY <1>1 DEF IInv, Sound, Typed, Works, Leases, WorkSound
<1> QED
  BY <1>1, <1>2, WorkStays

\* A process may die and a fault lose runs.
LEMMA OwnersStay ==
    ASSUME OwnersSound, UNCHANGED << role, exited, revoking, fenced, defaultOf >>,
           \A o \in Owners : \/ process'[o] = process[o]
                             \/ process[o] = "alive" /\ process'[o] = "dead",
           \A o \in Owners : /\ interrupted'[o] # None <=> interrupted[o] # None
                             /\ interrupted[o] # None =>
                                   interrupted'[o].exited = interrupted[o].exited
    PROVE  OwnersSound'
<1>1. ASSUME NEW o \in Owners PROVE OwnerSound(o)'
  <2>1. OwnerSound(o)
    BY DEF OwnersSound
  <2>2. /\ process'[o] = "none" <=> process[o] = "none"
        /\ process'[o] = "exited" <=> process[o] = "exited"
        /\ process'[o] \in Up <=> process[o] \in Up
    BY DEF Up
  <2> QED
    BY <2>1, <2>2 DEF OwnerSound
<1>2. \A o \in Owners : process'[o] \in Up => process[o] \in Up
  BY DEF Up
<1> QED
  BY <1>1, <1>2 DEF OwnersSound

\* The leases, claims and faults are as they were.
LEMMA Quiet ==
    ASSUME IInv, Typed', CallsSound', OneRevocation', TracesSound',
           \A r \in Runs : WorkSound(r)',
           \A r \in Runs : Fades(r) \/ (pending[r] = "pending" /\ HostSound(r)'),
           UNCHANGED << runs, claims, interruptions, fencing, role, exited, revoking, defaultOf,
                        leases, pending, interrupted, fenced >>,
           \A s \in Sessions : s \in blocked' => s \in blocked \/ claims[s] = None,
           \A o \in Owners : \/ process'[o] = process[o]
                             \/ process[o] = "alive" /\ process'[o] = "dead",
           job' \in {job, None} \/ JobSound'
    PROVE  Sound'
<1>1. OwnersSound'
  BY OwnersStay DEF IInv, Sound
<1>2. \A r \in Runs : HostSound(r)'
  <2> SUFFICES ASSUME NEW r \in Runs PROVE HostSound(r)'
    OBVIOUS
  <2>1. HostSound(r)
    BY DEF IInv, Sound
  <2> QED
    BY <2>1, HostStays DEF HostSound
<1>3. \A r \in Runs : Interrupted(r)' = Interrupted(r)
  BY DEF Interrupted
<1>4. \A s \in Sessions : FrameSound(s)'
  <2> SUFFICES ASSUME NEW s \in Sessions PROVE FrameSound(s)'
    OBVIOUS
  <2>1. FrameSound(s)
    BY DEF IInv, Sound
  <2>2. claims[s] # None => s \notin blocked'
    BY <2>1 DEF FrameSound
  <2>3. Interrupted(claims[s].lease.run)' = Interrupted(claims[s].lease.run)
    BY DEF Interrupted
  <2> QED
    BY <2>1, <2>2, <2>3, FrameStays
<1>5. OneLease'
  BY <1>3, OneStays DEF IInv, Sound
<1>6. \A r \in Runs : FenceSound(r)'
  <2> SUFFICES ASSUME NEW r \in Runs PROVE FenceSound(r)'
    OBVIOUS
  <2>1. FenceSound(r) /\ runs \in [Runs -> Leases \cup {None}]
    BY CoordinatorTypes DEF IInv, Sound
  <2>2. runs[r] # None => runs[r].owner \in Owners
    BY <2>1, LeaseFields
  <2>3. \A o : InterruptedBy(o, r)' = InterruptedBy(o, r)
    BY DEF InterruptedBy
  <2>4. CASE Fades(r)
    BY <2>1, <2>2, <2>3, <2>4, FenceStays DEF InterruptedBy
  <2>5. CASE pending[r] = "pending"
    <3>1. Interrupted(r)' = Interrupted(r)
      BY <1>3
    <3> QED
      BY <2>1, <2>2, <2>3, <2>5, <3>1 DEF FenceSound
  <2> QED
    BY <2>4, <2>5
<1>7. JobSound'
  <2>1. job # None => job.run \in Runs /\ pending[job.run] # "pending"
    BY DEF IInv, Sound, Typed, Jobs, JobStages, JobSound
  <2>2. \A r : Joined(r)' = Joined(r)
    BY DEF Joined, InterruptedBy
  <2>3. CASE job' \in {job, None}
    BY <2>1, <2>2, <2>3, JobStays
  <2> QED
    BY <2>3
<1> QED
  BY <1>1, <1>2, <1>4, <1>5, <1>6, <1>7 DEF Sound

\* An executor goes on to its next stage.
LEMMA WorkAdvances ==
    ASSUME IInv, NEW r \in Runs, NEW stage, work[r] # None,
           work' = [work EXCEPT ![r].stage = stage],
           \A q \in Runs : Lasts(q) /\ Remembers(q),
           UNCHANGED << runs, interruptions, process, role >>,
           \A q \in Runs \ {r} : Active(q) /\ Executing(q) => Active(q)' \/ interruptions[q] # {},
           \A q \in Runs \ {r} : Executing(q) /\ SessionOf[q] \in blocked' =>
              SessionOf[q] \in blocked \/ interruptions[q] # {},
           stage # "releasing" => work[r].stage # "releasing",
           stage \in {"settled", "releasing"} => db'.status[r] = "settled",
           stage # "releasing" /\ interruptions[r] = {} =>
              stage # "stopping" /\ Active(r)' /\ SessionOf[r] \notin blocked'
    PROVE  \A q \in Runs : WorkSound(q)'
<1> SUFFICES ASSUME NEW q \in Runs PROVE WorkSound(q)'
  OBVIOUS
<1>1. WorkSound(q) /\ Lasts(q) /\ Remembers(q) /\ work \in [Runs -> Works \cup {None}]
  BY DEF IInv, Sound, Typed
<1>2. CASE q # r
  <2>1. work'[q] = work[q]
    BY <1>1, <1>2
  <2>2. work[q] # None =>
           process'[work[q].lease.owner] \in Up /\ role'[work[q].lease.owner] \in Served
    BY <1>1 DEF WorkSound
  <2> QED
    BY <1>1, <1>2, <2>1, <2>2, WorkStays
<1>3. CASE q = r
  <2>1. PICK l : l = work[r].lease
    OBVIOUS
  <2>2. work'[r].lease = l /\ work'[r].stage = stage
    BY <1>1, <2>1 DEF Works
  <2>3. Known(l)'
    BY <1>1, <1>3, <2>1, KnownStays DEF WorkSound
  <2>4. /\ l.run = r /\ process'[l.owner] \in Up /\ role'[l.owner] \in Served
        /\ stage # "releasing" => runs'[r] = l
    BY <1>1, <1>3, <2>1 DEF WorkSound
  <2>5. (Known(work[r].lease))'
    BY <2>2, <2>3
  <2>6. (Executing(r) /\ interruptions[r] = {} =>
            work[r].stage # "stopping" /\ Active(r) /\ SessionOf[r] \notin blocked)'
    BY <2>2 DEF Executing, Stage
  <2> QED
    BY <1>3, <2>2, <2>4, <2>5, <2>6 DEF WorkSound
<1> QED
  BY <1>2, <1>3

\* What an advance or an end of an executor means for its run.
LEMMA WorkRemembers ==
    ASSUME UNCHANGED << runs, interruptions, pending >>, NEW r,
           work'[r] \in {work[r], None} \/ ~Idle(r) \/ (Idle(r)' /\ work[r] # None)
    PROVE  Remembers(r)
BY DEF Remembers, Past, Idle

\* What an executor's record says.
LEMMA WorkFacts ==
    ASSUME IInv, NEW r \in Runs, work[r] # None
    PROVE  LET l == work[r].lease IN
           /\ work[r] \in Works /\ l \in Leases /\ l # None /\ l.run = r /\ l.owner \in Owners
           /\ Known(l) /\ process[l.owner] \in Up /\ role[l.owner] \in Served
           /\ Past(r) /\ Row(r).lease = l
           /\ work[r].stage # "releasing" =>
                 /\ runs[r] = l /\ leases[r] = l /\ LeaseSound(r, l)
                 /\ sessions[SessionOf[r]] = l /\ claims[SessionOf[r]] = None
<1>1. /\ work[r] \in Works /\ WorkSound(r) /\ HostSound(r)
  BY DEF IInv, Sound, Typed
<1>2. work[r].lease \in Leases /\ work[r].lease # None /\ work[r].lease.owner \in Owners
  BY <1>1, LeaseFields DEF Works
<1>3. /\ work[r].lease.run = r /\ Known(work[r].lease)
      /\ process[work[r].lease.owner] \in Up /\ role[work[r].lease.owner] \in Served
      /\ work[r].stage # "releasing" => runs[r] = work[r].lease
  BY <1>1 DEF WorkSound
<1>4. Past(r) /\ Row(r).lease = work[r].lease
  BY <1>3 DEF Known, Past
<1>5. work[r].stage # "releasing" =>
         leases[r] = work[r].lease /\ LeaseSound(r, work[r].lease)
  BY <1>1, <1>2, <1>3 DEF HostSound
<1>6. work[r].stage # "releasing" =>
         sessions[SessionOf[r]] = work[r].lease /\ claims[SessionOf[r]] = None
  BY <1>2, <1>3, CoordinatorFacts, LeaseAssumption DEF IInv
<1> QED
  BY <1>1, <1>2, <1>3, <1>4, <1>5, <1>6

\* A session has at most one registered run.
LEMMA OneRegistered ==
    ASSUME IInv, NEW r \in Runs, NEW q \in Runs, runs[r] # None, runs[q] # None,
           SessionOf[r] = SessionOf[q]
    PROVE  r = q
BY CoordinatorFacts DEF IInv

\* The Host's, the kernels' and the port's variables that a coordinator's
\* action leaves alone.
LEMMA TypedRests ==
    ASSUME IInv, UNCHANGED << storage, ledger, job, process, fenced, kernels >>,
           Len(calls) <= Len(calls')
    PROVE  Typed'
<1>1. Len(calls) \in Nat /\ Len(replies) \in Nat
  BY CoordinatorTypes DEF IInv, Sound, Typed
<1>2. Len(replies') <= Len(calls')
  <2>1. PICK n \in Nat : n = Len(replies)
    BY <1>1
  <2> QED
    BY <1>1 DEF IInv, Sound, Typed, storage
<1> QED
  BY <1>1, <1>2 DEF IInv, Sound, Typed, storage, ledger, kernels, FencesHaveMaximum

\* Steps of the Host, the port or a process that touch none of these.
LEMMA Plain ==
    ASSUME IInv, Typed',
           UNCHANGED << role, exited, defaultOf, sessions, runs, claims, blocked, revoking,
                        interruptions, stoppedRuns, fencing, pendingReleases, fence, calls >>,
           UNCHANGED << db, replies, leases, pending, interrupted, fenced, work, writes >>,
           handoffs' \subseteq handoffs,
           \A o \in Owners : \/ process'[o] = process[o]
                             \/ process[o] = "alive" /\ process'[o] = "dead",
           job' \in {job, None} \/ JobSound'
    PROVE  Sound'
<1>1. \A r \in Runs : Fades(r) /\ Lasts(r) /\ Remembers(r)
  BY DatabaseRests, RunsRest DEF Fades
<1>2. CallsSound' /\ OneRevocation'
  BY <1>1, CallsRest DEF Row
<1>3. TracesSound'
  BY <1>1, TracesRest
<1>4. \A r \in Runs : WorkSound(r)'
  BY <1>1, WorksRest DEF Active, Row, Up
<1> QED
  BY <1>1, <1>2, <1>3, <1>4, Quiet

\* A tool call is the coordinator's business only.
LEMMA StartingTool ==
    ASSUME IInv, C!IInv', NEW r \in Runs, NEW o \in Owners, NEW c \in CallIds, StartTool(r, c, o)
    PROVE  Sound'
<1>1. C!ReserveTool(work[r].lease, c, o)
  BY ReserveToolSame DEF StartTool
<1>2. UNCHANGED << role, exited, defaultOf, sessions, runs, claims, blocked, revoking,
                   interruptions, stoppedRuns, fencing, pendingReleases, fence, calls >>
  BY <1>1 DEF C!ReserveTool, C!registry, C!leasing, C!faults, C!port
<1>3. Typed'
  BY <1>2, TypedRests DEF StartTool
<1> QED
  BY <1>2, <1>3, Plain DEF StartTool, storage, ledger, kernels

\* So is a command.
LEMMA StartingCommand ==
    ASSUME IInv, C!IInv', NEW r \in Runs, NEW o \in Owners, NEW k \in Keys, StartCommand(r, k, o)
    PROVE  Sound'
<1>1. C!RetainSourceResource(o, k, work[r].lease)
  BY RetainSame DEF StartCommand
<1>2. UNCHANGED << role, exited, defaultOf, sessions, runs, claims, blocked, revoking,
                   interruptions, stoppedRuns, fencing, pendingReleases, fence, calls >>
  BY <1>1 DEF C!RetainSourceResource, C!Acquire, C!registry, C!leasing, C!faults, C!port
<1>3. Typed'
  BY <1>2, TypedRests DEF StartCommand
<1> QED
  BY <1>2, <1>3, Plain DEF StartCommand, storage, ledger, kernels

\* A process that dies is still up until its tree is joined.
LEMMA Dying ==
    ASSUME IInv, NEW o \in Owners, Die(o)
    PROVE  Sound'
<1>1. process' = [process EXCEPT ![o] = "dead"] /\ process[o] = "alive"
  BY DEF Die
<1>2. Typed'
  BY <1>1 DEF IInv, Sound, Typed, Die, coordination, storage, ledger, kernels, FencesHaveMaximum
<1>3. \A e \in Owners : \/ process'[e] = process[e]
                        \/ process[e] = "alive" /\ process'[e] = "dead"
  BY <1>1 DEF IInv, Sound, Typed
<1> QED
  BY <1>2, <1>3, Plain DEF Die, coordination, storage, ledger, kernels

\* A hand-off that fails leaves the lease to a later reconciliation.
LEMMA HandoffFailing ==
    ASSUME IInv, NEW l \in handoffs, FailHandoff(l)
    PROVE  Sound'
<1>1. drops' \in 0..MaxDrops
  BY HandoffAssumption DEF FailHandoff, IInv, Sound, Typed
<1>2. handoffs' \subseteq handoffs
  BY DEF FailHandoff
<1>3. Typed'
  BY <1>1, <1>2 DEF IInv, Sound, Typed, FailHandoff, coordination, kernels, FencesHaveMaximum
<1> QED
  BY <1>2, <1>3, Plain DEF FailHandoff, coordination, kernels

\* A transition that fails leaves everything to a later one.
LEMMA JobFailing ==
    ASSUME IInv, JobFails
    PROVE  Sound'
<1>1. drops' \in 0..MaxDrops
  BY HandoffAssumption DEF JobFails, IInv, Sound, Typed
<1>2. Typed'
  BY <1>1 DEF IInv, Sound, Typed, JobFails, coordination, ledger, kernels, FencesHaveMaximum
<1> QED
  BY <1>2, Plain DEF JobFails, coordination, ledger, kernels

-----------------------------------------------------------------------------
(* Steps of the executors.                                                  *)

\* What an advance and an end of an executor do to its record.
LEMMA AdvanceFacts ==
    ASSUME IInv, NEW r \in Runs, work[r] # None,
           NEW stage \in Stages, work' = [work EXCEPT ![r].stage = stage]
    PROVE  /\ work' \in [Runs -> Works \cup {None}] /\ work'[r] # None
           /\ work'[r].lease = work[r].lease /\ work'[r].stage = stage
           /\ \A q \in Runs \ {r} : work'[q] = work[q]
<1>1. work \in [Runs -> Works \cup {None}] /\ work[r] \in Works
  BY DEF IInv, Sound, Typed
<1>2. PICK x : x = [work[r] EXCEPT !.stage = stage]
  OBVIOUS
<1>3. x \in Works /\ x.lease = work[r].lease /\ x.stage = stage
  BY <1>1, <1>2 DEF Works
<1>4. work' = [work EXCEPT ![r] = x]
  BY <1>1, <1>2
<1>5. x # None
  BY <1>3, NoneStateAssumption
<1>6. work'[r] = x /\ \A q \in Runs \ {r} : work'[q] = work[q]
  BY <1>1, <1>4
<1> QED
  BY <1>1, <1>3, <1>4, <1>5, <1>6

\* An executor that ends leaves its run's record empty, and only that.
LEMMA LeaveFacts ==
    ASSUME IInv, NEW r \in Runs, work' = [work EXCEPT ![r] = None]
    PROVE  /\ work' \in [Runs -> Works \cup {None}] /\ work'[r] = None
           /\ \A q \in Runs \ {r} : work'[q] = work[q]
BY DEF IInv, Sound, Typed

\* The stage of a run that has an executor.
LEMMA AtFacts ==
    ASSUME NEW r, NEW stage \in Stages, At(r, stage)
    PROVE  work[r] # None /\ work[r].stage = stage /\ process[work[r].lease.owner] = "alive"
BY DEF At, Stage, Stages

\* Without a fault that concerns it, an executor's owner serves and its
\* authority stands.
LEMMA UninterruptedWork ==
    ASSUME IInv, NEW r \in Runs, work[r] # None, work[r].stage # "releasing",
           interruptions[r] = {}
    PROVE  LET l == work[r].lease IN
           /\ role[l.owner] \in {"default", "draining"} /\ fenced[l.owner] = "none"
           /\ l.owner \notin exited /\ l.owner \notin revoking
           /\ ~Interrupted(r)
           /\ Executing(r) => work[r].stage # "stopping" /\ Active(r) /\ SessionOf[r] \notin blocked
<1>1. PICK l \in Leases : l = work[r].lease
  BY WorkFacts
<1>2. /\ runs[r] = l /\ l # None /\ l.run = r /\ l.owner \in Owners
      /\ role[l.owner] \in Served
  BY <1>1, WorkFacts
<1>3. FenceSound(r) /\ OwnerSound(l.owner) /\ WorkSound(r)
  BY <1>2 DEF IInv, Sound, OwnersSound
<1>4. ~Interrupted(r)
  BY <1>2, <1>3 DEF FenceSound
<1>5. fenced[l.owner] = "none"
  BY <1>2, <1>3, <1>4 DEF FenceSound, InterruptedBy, Interrupted
<1>6. role[l.owner] \in {"default", "draining"}
  BY <1>2, <1>3, <1>5 DEF OwnerSound, Served
<1>7. l.owner \notin exited /\ l.owner \notin revoking
  BY <1>3, <1>6 DEF OwnerSound
<1>8. Executing(r) => work[r].stage # "stopping" /\ Active(r) /\ SessionOf[r] \notin blocked
  BY <1>3 DEF WorkSound
<1> QED
  BY <1>1, <1>4, <1>5, <1>6, <1>7, <1>8

\* A final write and a read are refused only to a run that a fault concerns.
LEMMA WriteAllowed ==
    ASSUME IInv, NEW r \in Runs, work[r] # None, work[r].stage # "releasing",
           interruptions[r] = {}
    PROVE  Coordinator!CanWrite(work[r].lease.owner, work[r].lease)
<1>1. Executing(r)
  BY WorkFacts DEF Works, Stages, Stage, Executing
<1>2. PICK l \in Leases : l = work[r].lease
  BY <1>1, WorkFacts
<1>3. /\ role[l.owner] \in {"default", "draining"} /\ l.owner \notin exited
      /\ l.owner \notin revoking /\ SessionOf[r] \notin blocked
  BY <1>1, <1>2, UninterruptedWork
<1>4. l.run = r /\ runs[r] = l /\ LeaseSound(r, l) /\ l.owner \in Owners
  BY <1>1, <1>2, WorkFacts
<1>5. Coordinator!Asserted(l)
  BY <1>3, <1>4 DEF Coordinator!Asserted, Coordinator!AssertedUnder, Coordinator!Session
<1>6. ~Coordinator!Finishing(r)
  BY <1>1 DEF Coordinator!Finishing, IInv, Sound, TracesSound
<1>7. Coordinator!Bound(l.owner, l)
  BY <1>4 DEF LeaseSound, Coordinator!Bound
<1> QED
  BY <1>2, <1>3, <1>4, <1>5, <1>6, <1>7 DEF Coordinator!CanWrite, Coordinator!Serving

\* An executor that goes on leaves everything else alone.
LEMMA Advancing ==
    ASSUME IInv, NEW r \in Runs, work[r] # None, ~Idle(r),
           NEW stage \in Stages, work' = [work EXCEPT ![r].stage = stage],
           UNCHANGED << coordination, db, replies, ledger, job, process, fenced >>,
           drops' \in 0..MaxDrops, writes' \subseteq writes \cup {work[r].lease},
           stage # "releasing", stage # "settled",
           stage = "stopping" => interruptions[r] # {},
           interruptions[r] = {} => Active(r) /\ SessionOf[r] \notin blocked
    PROVE  Sound'
<1>1. /\ work' \in [Runs -> Works \cup {None}] /\ work'[r] # None
      /\ work'[r].lease = work[r].lease /\ work'[r].stage = stage
      /\ \A q \in Runs \ {r} : work'[q] = work[q]
  BY AdvanceFacts
<1>2. UNCHANGED << role, exited, defaultOf, sessions, runs, claims, blocked, revoking,
                   interruptions, stoppedRuns, fencing, pendingReleases, fence, calls >>
      /\ UNCHANGED << db, replies, leases, pending, interrupted, stopped, handoffs, job,
                      process, fenced >>
  BY DEF coordination, ledger
<1>3. ASSUME NEW q \in Runs PROVE Fades(q) /\ Lasts(q) /\ Remembers(q)
  <2>1. Fades(q) /\ Lasts(q)
    BY <1>2, DatabaseRests DEF Fades
  <2>2. work'[q] \in {work[q], None} \/ ~Idle(q)
    BY <1>1
  <2> QED
    BY <1>2, <2>1, <2>2, WorkRemembers
<1>4. CallsSound' /\ OneRevocation'
  BY <1>2, <1>3, CallsRest DEF Row
<1>5. work[r].lease \in Leases /\ Known(work[r].lease)
  BY WorkFacts
<1>6. writes \subseteq Leases /\ writes' \subseteq Leases
  BY <1>5 DEF IInv, Sound, Typed
<1>7. Typed'
  BY <1>1, <1>2, <1>6 DEF IInv, Sound, Typed, FencesHaveMaximum
<1>8. TracesSound'
  <2>1. /\ fencing \in [Owners -> SUBSET Leases] /\ pendingReleases \subseteq Leases
        /\ stoppedRuns \subseteq Runs /\ handoffs \subseteq Leases
    BY CoordinatorTypes DEF IInv, Sound, Typed
  <2>2. Known(work[r].lease)' => \A l \in writes' \ writes : Known(l)'
    BY <1>1
  <2>3. PICK l \in Leases : l = work[r].lease
    BY <1>5
  <2>4. Known(l)'
    BY <1>2, <1>5, <2>3 DEF Known, Row
  <2>5. \A z \in writes' \ writes : z = l
    BY <2>3
  <2>6. \A z \in writes' \ writes : Known(z)'
    BY <2>4, <2>5
  <2> QED
    BY <1>2, <1>3, <1>6, <2>1, <2>6, TracesStay
<1>9. \A q \in Runs : WorkSound(q)'
  <2>1. work[r].stage # "releasing"
    BY DEF Idle
  <2> QED
    BY <1>2, <1>3, <2>1, WorkAdvances DEF Active, Row
<1> QED
  BY <1>2, <1>3, <1>4, <1>7, <1>8, <1>9, Quiet

\* The final write is admitted by the coordinator, or the run is aborted.
LEMMA Writing ==
    ASSUME IInv, NEW r \in Runs, Write(r)
    PROVE  Sound'
<1>1. work[r] # None /\ work[r].stage = "running" /\ At(r, "running") /\ ~Idle(r) /\ Executing(r)
  BY DEF Write, At, Stage, Idle, Executing
<1>2. interruptions[r] = {} => Active(r) /\ SessionOf[r] \notin blocked
  BY <1>1, UninterruptedWork
<1>3. UNCHANGED << db, replies >> /\ drops' \in 0..MaxDrops
  BY DEF Write, storage, IInv, Sound, Typed
<1>4. CASE Coordinator!CanWrite(work[r].lease.owner, work[r].lease)
  <2>1. "writing" \in Stages /\ work' = [work EXCEPT ![r].stage = "writing"]
    BY <1>4 DEF Write, Advance, Stages
  <2>2. writes' = writes \cup {work[r].lease}
    BY <1>4 DEF Write
  <2> QED
    BY <1>1, <1>2, <1>3, <2>1, <2>2, Advancing DEF Write
<1>5. CASE ~Coordinator!CanWrite(work[r].lease.owner, work[r].lease)
  <2>1. "stopping" \in Stages /\ work' = [work EXCEPT ![r].stage = "stopping"]
    BY <1>5 DEF Write, Advance, Stages
  <2>2. interruptions[r] # {} /\ writes' = writes
    BY <1>1, <1>5, WriteAllowed DEF Write
  <2> QED
    BY <1>1, <1>2, <1>3, <2>1, <2>2, Advancing DEF Write
<1> QED
  BY <1>4, <1>5

\* kernel.fence aborts a run that another owner's fault interrupted.
LEMMA Aborting ==
    ASSUME IInv, NEW r \in Runs, Abort(r)
    PROVE  Sound'
<1>1. work[r] # None /\ work[r].stage = "running" /\ ~Idle(r) /\ runs[r] # None
  <2>1. work[r] # None /\ work[r].stage = "running"
    BY DEF Abort, At, Stage
  <2> QED
    BY <2>1, WorkFacts DEF Idle
<1>2. interruptions[r] # {}
  BY <1>1 DEF Abort, IInv, Sound, FenceSound, Interrupted
<1>3. "stopping" \in Stages /\ work' = [work EXCEPT ![r].stage = "stopping"]
  BY DEF Abort, Advance, Stages
<1>4. UNCHANGED << db, replies >> /\ drops' \in 0..MaxDrops
  BY DEF Abort, storage, IInv, Sound, Typed
<1> QED
  BY <1>1, <1>2, <1>3, <1>4, Advancing DEF Abort

\* The read for the observers of run.end is refused to a run that a fault concerns.
LEMMA ReadRefusing ==
    ASSUME IInv, NEW r \in Runs, ReadRefused(r)
    PROVE  Sound'
<1>1. work[r] # None /\ work[r].stage = "settled" /\ ~Idle(r)
  BY DEF ReadRefused, At, Stage, Idle
<1>2. interruptions[r] # {}
  BY <1>1, WriteAllowed DEF ReadRefused
<1>3. "stopping" \in Stages /\ work' = [work EXCEPT ![r].stage = "stopping"]
  BY DEF ReadRefused, Advance, Stages
<1>4. UNCHANGED << db, replies >> /\ drops' \in 0..MaxDrops
  BY DEF ReadRefused, storage, IInv, Sound, Typed
<1> QED
  BY <1>1, <1>2, <1>3, <1>4, Advancing DEF ReadRefused

\* The port fails a call of the executor: what it had stands, until its kernel ends.
LEMMA CallFailing ==
    ASSUME IInv, NEW r \in Runs, CallFails(r)
    PROVE  Sound'
<1>1. work[r] # None /\ work[r].stage \in {"writing", "settled"} /\ ~Idle(r) /\ Executing(r)
  BY DEF CallFails, At, Stage, Idle, Executing
<1>2. interruptions[r] = {} => Active(r) /\ SessionOf[r] \notin blocked
  BY <1>1, UninterruptedWork
<1>3. "failing" \in Stages /\ work' = [work EXCEPT ![r].stage = "failing"]
  BY DEF CallFails, Advance, Stages
<1>4. drops' \in 0..MaxDrops
  BY HandoffAssumption DEF CallFails, IInv, Sound, Typed
<1>5. writes' \subseteq writes \cup {work[r].lease}
  BY DEF CallFails
<1> QED
  BY <1>1, <1>2, <1>3, <1>4, <1>5, Advancing DEF CallFails

\* The report of a stopped or failed executor: accepted, or fatal to its kernel.
LEMMA ReportingStop ==
    ASSUME IInv, NEW r \in Runs, ReportsStop(r)
    PROVE  Sound'
<1>1. work[r] # None /\ process[work[r].lease.owner] = "alive"
  BY DEF ReportsStop, At, Stage
<1>2. Past(r) /\ work[r].lease.owner \in Owners
  BY <1>1, WorkFacts
<1>3. CASE StopAcceptable(r)
  <2>1. C!AcknowledgeRunStopped(work[r].lease.owner, r)
    BY <1>3, AcknowledgeSame DEF ReportsStop
  <2>2. /\ stoppedRuns' = stoppedRuns \cup {r}
        /\ UNCHANGED << role, exited, defaultOf, sessions, runs, claims, blocked, revoking,
                        interruptions, fencing, pendingReleases, fence, calls >>
    BY <2>1 DEF C!AcknowledgeRunStopped, C!registry, C!leasing, C!physical, C!port
  <2>3. /\ UNCHANGED << db, replies, drops, leases, pending, interrupted, handoffs, job,
                        fenced, writes >>
        /\ stopped' = stopped \cup {r} /\ work' = [work EXCEPT ![r] = None]
        /\ \/ process' = [process EXCEPT ![work[r].lease.owner] = "dead"]
           \/ process' = process
    BY <1>3 DEF ReportsStop, Leave, storage, Fatal, FatalSoon
  <2>4. /\ work' \in [Runs -> Works \cup {None}] /\ work'[r] = None
        /\ \A q \in Runs \ {r} : work'[q] = work[q]
    BY <2>3, LeaveFacts
  <2>5. \A q \in Runs : work'[q] \in {work[q], None}
    BY <2>4
  <2>6. \A q \in Runs : Fades(q) /\ Lasts(q) /\ Remembers(q)
    BY <2>2, <2>3, <2>5, DatabaseRests, WorkRemembers DEF Fades
  <2>7. CallsSound' /\ OneRevocation'
    BY <2>2, <2>3, <2>6, CallsRest DEF Row
  <2>8. Typed'
    <3>1. process' \in [Owners -> {"none", "alive", "dead", "exited"}]
      BY <2>3 DEF IInv, Sound, Typed
    <3> QED
      BY <2>2, <2>3, <2>4, <3>1 DEF IInv, Sound, Typed, FencesHaveMaximum
  <2>9. TracesSound'
    <3>1. /\ fencing \in [Owners -> SUBSET Leases] /\ pendingReleases \subseteq Leases
          /\ stoppedRuns \subseteq Runs /\ handoffs \subseteq Leases /\ writes \subseteq Leases
      BY CoordinatorTypes DEF IInv, Sound, Typed
    <3>2. (Past(r) /\ work[r] = None)'
      BY <1>2, <2>3, <2>4 DEF Past, Row
    <3>3. \A q \in stoppedRuns' \ stoppedRuns : q = r
      BY <2>2
    <3>4. \A q \in stoppedRuns' \ stoppedRuns : (Past(q) /\ work[q] = None)'
      BY <3>2, <3>3
    <3> QED
      BY <2>2, <2>3, <2>6, <3>1, <3>4, TracesStay
  <2>10. \A e \in Owners : \/ process'[e] = process[e]
                           \/ process[e] = "alive" /\ process'[e] = "dead"
    BY <1>1, <2>3 DEF IInv, Sound, Typed
  <2>11. \A q \in Runs : WorkSound(q)'
    <3>1. \A e \in Owners : process[e] \in Up => process'[e] \in Up
      BY <2>10 DEF Up
    <3> QED
      BY <2>2, <2>3, <2>5, <2>6, <3>1, WorksRest DEF Active, Row
  <2> QED
    BY <2>2, <2>3, <2>6, <2>7, <2>8, <2>9, <2>10, <2>11, Quiet
<1>4. CASE ~StopAcceptable(r)
  <2>1. /\ process' = [process EXCEPT ![work[r].lease.owner] = "dead"]
        /\ process[work[r].lease.owner] = "alive"
        /\ UNCHANGED << coordination, storage, ledger, job, fenced, kernels >>
    BY <1>1, <1>4 DEF ReportsStop, Fatal, ledger, kernels
  <2>2. Typed'
    BY <1>2, <2>1 DEF IInv, Sound, Typed, storage, ledger, kernels, coordination, FencesHaveMaximum
  <2>3. \A e \in Owners : \/ process'[e] = process[e]
                          \/ process[e] = "alive" /\ process'[e] = "dead"
    BY <2>1 DEF IInv, Sound, Typed
  <2> QED
    BY <2>1, <2>2, <2>3, Plain DEF coordination, storage, ledger, kernels
<1> QED
  BY <1>3, <1>4

\* The releases that start are of leases that have ended; their gates close.
LEMMA ReleasesCalled ==
    ASSUME IInv, NEW New, New \subseteq Calls, C!Moves(calls', calls, 0, New),
           calls' \in Seq(Calls),
           UNCHANGED << replies, claims, fenced >>,
           \A r \in Runs : Lasts(r) /\ Remembers(r),
           \A r \in Runs : pending[r] = "pending" => Row(r)' = Row(r),
           \A c \in New : c.op = "release" /\ Given(c.lease)'
    PROVE  CallsSound' /\ OneRevocation'
<1>1. ASSUME NEW i \in DOMAIN calls, NEW c \in Calls, c = calls[i] PROVE CallKeeps(c)
  <2>1. /\ c.op # "revoke" => c.lease.run \in Runs
        /\ c.op \in {"claim", "unclaim"} => pending[c.lease.run] = "pending"
    BY <1>1, CallFacts
  <2> QED
    BY <2>1 DEF CallKeeps
<1>2. \A c \in New : CallSound(c, Unanswered)'
  <2> SUFFICES ASSUME NEW c \in New PROVE CallSound(c, Unanswered)'
    OBVIOUS
  <2>1. c.op = "release" /\ Given(c.lease)'
    OBVIOUS
  <2>2. ReleaseSound(c, Unanswered)'
    BY <2>1 DEF ReleaseSound, Unanswered
  <2> QED
    BY <2>1, <2>2 DEF CallSound
<1>3. CallsSound'
  BY <1>1, <1>2, CallsFollow
<1>4. OneRevocation'
  BY RevocationsStay
<1> QED
  BY <1>3, <1>4

\* The call of one release.
LEMMA ReleaseIsCalled ==
    ASSUME IInv, NEW l \in Leases, C!Releasing({l})
    PROVE  /\ blocked' = blocked \cup {SessionOf[l.run]}
           /\ C!ReleaseCall(l) \in Calls
           /\ C!ReleaseCall(l).op = "release" /\ C!ReleaseCall(l).lease = l
           /\ C!Moves(calls', calls, 0, {C!ReleaseCall(l)})
           /\ calls' \in Seq(Calls) /\ Len(calls) <= Len(calls')
<1> USE CoordinatorAssumed
<1>1. calls \in Seq(Calls) /\ Calls = C!Calls
  <2>1. C!Leases = Leases
    BY DEF C!Leases, Leases
  <2> QED
    BY <2>1, CoordinatorTypes DEF IInv, C!Calls, Calls
<1>2. PICK c : c = C!ReleaseCall(l)
  OBVIOUS
<1>3. c \in Calls /\ c.op = "release" /\ c.lease = l
  BY <1>2 DEF C!ReleaseCall, Calls
<1>4. {C!ReleaseCall(k) : k \in {l}} = {c}
  BY <1>2
<1>5. calls' = calls \o C!Listed({c})
  BY <1>4 DEF C!Releasing
<1>6. IsFiniteSet({c}) /\ {c} \in SUBSET C!Calls
  BY <1>1, <1>3, FS_Singleton
<1>7. C!IsFiniteSet({c})
  BY <1>6, Zenon DEF C!IsFiniteSet, IsFiniteSet
<1>8. calls' \in Seq(C!Calls) /\ C!Moves(calls', calls, 0, {c})
  BY <1>1, <1>5, <1>6, <1>7, C!ConcatMoves
<1>9. Len(calls) <= Len(calls')
  <2>1. Len(calls) \in Nat
    BY <1>1
  <2> QED
    BY <1>8, <2>1 DEF C!Moves
<1>10. blocked' = blocked \cup {SessionOf[l.run]}
  BY DEF C!Releasing, C!Session
<1> QED
  BY <1>1, <1>2, <1>3, <1>8, <1>9, <1>10

\* execution.release of a settled run: withdrawn, deferred or called.
LEMMA AskingRelease ==
    ASSUME IInv, C!IInv', NEW r \in Runs, Release(r)
    PROVE  Sound'
<1>1. work[r] # None /\ work[r].stage = "settled" /\ ~Idle(r)
  BY DEF Release, At, Stage, Idle
<1>2. PICK l \in Leases : l = work[r].lease
  BY <1>1, WorkFacts
<1>3. /\ l.run = r /\ Known(l) /\ Past(r) /\ runs[r] = l /\ l # None
      /\ claims[SessionOf[r]] = None /\ db.status[r] = "settled"
  BY <1>1, <1>2, WorkFacts DEF IInv, Sound, WorkSound
<1>4. UNCHANGED << db, replies, drops, leases, pending, interrupted, stopped, handoffs, job,
                   process, fenced, writes >>
  BY DEF Release, storage, ledger
<1>5. CASE ~Coordinator!Asserted(l)
  <2>1. work' = [work EXCEPT ![r] = None] /\ UNCHANGED coordination
    BY <1>2, <1>5 DEF Release, Leave
  <2>2. /\ work' \in [Runs -> Works \cup {None}]
        /\ \A q \in Runs : work'[q] \in {work[q], None}
    BY <2>1, LeaveFacts
  <2>3. \A q \in Runs : Fades(q) /\ Lasts(q) /\ Remembers(q)
    BY <1>4, <2>1, <2>2, DatabaseRests, WorkRemembers DEF Fades, coordination
  <2>4. CallsSound' /\ OneRevocation'
    BY <1>4, <2>1, <2>3, CallsRest DEF Row, coordination
  <2>5. Typed'
    BY <1>4, <2>1, <2>2 DEF IInv, Sound, Typed, FencesHaveMaximum, coordination
  <2>6. TracesSound'
    BY <1>4, <2>1, <2>3, TracesRest DEF coordination
  <2>7. \A q \in Runs : WorkSound(q)'
    BY <1>4, <2>1, <2>2, <2>3, WorksRest DEF Active, Row, coordination
  <2> QED
    BY <1>4, <2>1, <2>3, <2>4, <2>5, <2>6, <2>7, Quiet DEF coordination
<1>6. CASE Coordinator!Asserted(l)
  <2>1. C!RequestRelease(l) /\ calls \in Seq(Calls)
    BY <1>2, <1>6, RequestReleaseSame, CoordinatorTypes DEF Release, IInv
  <2>2. UNCHANGED << role, exited, defaultOf, sessions, runs, claims, revoking, interruptions,
                     stoppedRuns, fencing, fence >>
    BY <2>1 DEF C!RequestRelease, C!registry
  <2>3. /\ work' \in [Runs -> Works \cup {None}]
        /\ work'[r] = None \/ (work'[r] # None /\ work'[r].stage = "releasing")
        /\ \A q \in Runs \ {r} : work'[q] = work[q]
        /\ calls' = calls => work'[r] = None
        /\ \/ work' = [work EXCEPT ![r] = None]
           \/ work' = [work EXCEPT ![r].stage = "releasing"]
    <3>1. CASE calls' = calls
      <4>1. work' = [work EXCEPT ![r] = None]
        BY <1>2, <1>6, <3>1 DEF Release, Leave
      <4> QED
        BY <4>1, LeaveFacts
    <3>2. CASE calls' # calls
      <4>1. work' = [work EXCEPT ![r].stage = "releasing"] /\ "releasing" \in Stages
        BY <1>2, <1>6, <3>2 DEF Release, Advance, Stages
      <4> QED
        BY <1>1, <3>2, <4>1, AdvanceFacts
    <3> QED
      BY <3>1, <3>2
  <2>4. Idle(r)'
    BY <2>3 DEF Idle
  <2>5. ASSUME NEW q \in Runs PROVE Fades(q) /\ Lasts(q) /\ Remembers(q)
    <3>1. Fades(q) /\ Lasts(q)
      BY <1>4, DatabaseRests DEF Fades
    <3>2. work'[q] \in {work[q], None} \/ ~Idle(q)
      BY <1>1, <2>3
    <3> QED
      BY <1>4, <2>2, <3>1, <3>2, WorkRemembers
  <2>6. Given(l)'
    BY <1>3, <1>4, <2>4 DEF Given, Known, Row
  <2>7. /\ \/ pendingReleases' = pendingReleases /\ blocked' = blocked \cup {SessionOf[r]}
           \/ /\ pendingReleases' = pendingReleases \cup {l} /\ work'[r] = None
              /\ UNCHANGED blocked
        /\ CallsSound' /\ OneRevocation' /\ Len(calls) <= Len(calls')
    <3>1. CASE C!References(tools, resources, l.id)
      <4>1. pendingReleases' = pendingReleases \cup {l} /\ UNCHANGED << blocked, calls >>
        BY <2>1, <3>1 DEF C!RequestRelease
      <4>2. CallsSound' /\ OneRevocation'
        BY <1>4, <2>2, <2>5, <4>1, CallsRest DEF Row
      <4>3. Len(calls) \in Nat
        BY <2>1
      <4> QED
        BY <2>3, <4>1, <4>2, <4>3
    <3>2. CASE ~C!References(tools, resources, l.id)
      <4>1. C!Releasing({l}) /\ pendingReleases' = pendingReleases
        BY <2>1, <3>2 DEF C!RequestRelease
      <4>2. PICK c : c = C!ReleaseCall(l)
        OBVIOUS
      <4>3. /\ blocked' = blocked \cup {SessionOf[r]} /\ c \in Calls /\ c.op = "release"
            /\ c.lease = l /\ C!Moves(calls', calls, 0, {c}) /\ calls' \in Seq(Calls)
            /\ Len(calls) <= Len(calls')
        BY <1>3, <4>1, <4>2, ReleaseIsCalled
      <4>4. \A d \in {c} : d.op = "release" /\ Given(d.lease)'
        BY <2>6, <4>3
      <4>5. CallsSound' /\ OneRevocation'
        BY <1>4, <2>2, <2>5, <4>3, <4>4, ReleasesCalled DEF Row
      <4> QED
        BY <4>1, <4>3, <4>5
    <3> QED
      BY <3>1, <3>2
  <2>8. Typed'
    <3>1. PICK n \in Nat : n = Len(replies)
      BY DEF IInv, Sound, Typed
    <3>2. Len(replies) <= Len(calls) /\ Len(calls) \in Nat /\ Len(calls') \in Nat
      BY <2>1, CoordinatorTypes DEF IInv, Sound, Typed, C!IInv, C!TypeOK
    <3>3. Len(replies') <= Len(calls')
      BY <1>4, <2>7, <3>1, <3>2
    <3> QED
      BY <1>4, <2>3, <3>3 DEF IInv, Sound, Typed, FencesHaveMaximum
  <2>9. TracesSound'
    <3>1. /\ fencing \in [Owners -> SUBSET Leases] /\ pendingReleases \subseteq Leases
          /\ stoppedRuns \subseteq Runs /\ handoffs \subseteq Leases /\ writes \subseteq Leases
      BY CoordinatorTypes DEF IInv, Sound, Typed
    <3>2. pendingReleases' \subseteq Leases
      BY <2>7, <3>1
    <3>3. \A z \in pendingReleases' \ pendingReleases : z = l /\ work'[r] = None
      BY <2>7
    <3>4. work'[r] = None => (Given(l) /\ work[l.run] = None)'
      BY <1>3, <2>6
    <3>5. \A z \in pendingReleases' \ pendingReleases : (Given(z) /\ work[z.run] = None)'
      BY <3>3, <3>4
    <3> QED
      BY <1>4, <2>2, <2>5, <3>1, <3>2, <3>5, TracesStay
  <2>10. \A q \in Runs \ {r} : Executing(q) /\ SessionOf[q] \in blocked' => SessionOf[q] \in blocked
    <3> SUFFICES ASSUME NEW q \in Runs \ {r}, Executing(q), SessionOf[q] = SessionOf[r]
                 PROVE  FALSE
      BY <2>7
    <3>1. work[q] # None /\ work[q].stage # "releasing"
      BY DEF Executing, Stage
    <3>2. runs[q] # None
      BY <3>1, WorkFacts
    <3> QED
      BY <1>3, <3>2, OneRegistered
  <2>11. \A q \in Runs : WorkSound(q)'
    <3>1. CASE work' = [work EXCEPT ![r] = None]
      <4> SUFFICES ASSUME NEW q \in Runs PROVE WorkSound(q)'
        OBVIOUS
      <4>1. work'[r] = None /\ (q # r => work'[q] = work[q])
        BY <3>1, LeaveFacts
      <4>2. CASE q = r
        BY <4>1, <4>2 DEF WorkSound
      <4>3. CASE q # r
        <5>1. WorkSound(q) /\ (Active(q) => Active(q)')
          BY <1>4 DEF IInv, Sound, Active, Row
        <5>2. Executing(q) /\ SessionOf[q] \in blocked' => SessionOf[q] \in blocked
          BY <2>10, <4>3
        <5>3. work[q] # None =>
                 process[work[q].lease.owner] \in Up /\ role[work[q].lease.owner] \in Served
          BY <5>1 DEF WorkSound
        <5> QED
          BY <1>4, <2>2, <2>5, <4>1, <4>3, <5>1, <5>2, <5>3, WorkStays
      <4> QED
        BY <4>2, <4>3
    <3>2. CASE work' = [work EXCEPT ![r].stage = "releasing"]
      BY <1>1, <1>3, <1>4, <2>2, <2>5, <2>10, <3>2, WorkAdvances DEF Active, Row
    <3> QED
      BY <2>3, <3>1, <3>2
  <2> QED
    BY <1>3, <1>4, <2>2, <2>5, <2>7, <2>8, <2>9, <2>11, Quiet
<1> QED
  BY <1>5, <1>6

-----------------------------------------------------------------------------
(* Steps of the database, the port and a reconciliation.                    *)

\* A run ends in the database; no row changes.
LEMMA RunSettles ==
    ASSUME Typed, NEW r \in Runs, db' = [db EXCEPT !.status[r] = "settled"]
    PROVE  /\ db' \in Durable!Databases /\ FencesHaveMaximum' /\ db'.status[r] = "settled"
           /\ \A q \in Runs : db'.rows[q] = db.rows[q] /\ Fades(q)
<1>1. PICK d : d = [db EXCEPT !.status[r] = "settled"]
  OBVIOUS
<1>2. /\ d \in Durable!Databases /\ d.rows = db.rows /\ d.floor = db.floor
      /\ d.status[r] = "settled"
      /\ \A q \in Runs \ {r} : d.status[q] = db.status[q]
  BY <1>1, SettledEffect
<1>3. db' = d
  BY <1>1
<1>4. FencesHaveMaximum'
  BY <1>2, <1>3, FencesStay
<1>5. \A q \in Runs : Fades(q)
  <2>1. \A q \in Runs : db'.status[q] \in {db.status[q], "settled"}
    BY <1>2, <1>3
  <2>2. \A q \in Runs : db'.rows[q] = db.rows[q]
    BY <1>2, <1>3
  <2> QED
    BY <2>1, <2>2, RowsFade
<1> QED
  BY <1>2, <1>3, <1>4, <1>5

\* The two transactions that take authority away.
LEMMA RowsRevoked ==
    ASSUME Typed, NEW o \in Owners, NEW batch \in SUBSET Runs,
           \A r \in batch : Revocable(o, r),
           NEW x, x = Durable!RevokeIn(db, o, batch), db' = x.db
    PROVE  /\ x.reply = [kind |-> "ok", lease |-> None]
           /\ db' \in Durable!Databases /\ FencesHaveMaximum'
           /\ \A q \in Runs : Fades(q) /\ (q \in batch => ~Active(q)')
           /\ \A q \in Runs \ batch : Row(q)' = Row(q) /\ Active(q)' = Active(q)
<1>1. /\ x.reply = [kind |-> "ok", lease |-> None]
      /\ db' \in Durable!Databases /\ db'.status = db.status /\ db'.floor = db.floor
      /\ \A q \in Runs :
            x.db.rows[q] = IF q \in batch /\ Active(q)
                           THEN [lease |-> Row(q).lease, state |-> "revoked"] ELSE Row(q)
  BY RevokeEffect
<1>2. ASSUME NEW q \in Runs
      PROVE  \/ db'.rows[q] = db.rows[q] /\ ~(q \in batch /\ Active(q))
             \/ /\ Active(q) /\ db'.rows[q] # None /\ db'.rows[q].state # "active"
                /\ db'.rows[q].lease = db.rows[q].lease /\ q \in batch
  <2>1. CASE q \in batch /\ Active(q)
    <3>1. Row(q) # None /\ Row(q).lease \in Leases
      BY <2>1, DatabaseFields DEF Typed, Row, Active
    <3>2. PICK z : z = [lease |-> Row(q).lease, state |-> "revoked"]
      OBVIOUS
    <3>3. z # None /\ z.lease = Row(q).lease /\ z.state = "revoked"
      BY <3>1, <3>2, RowType, RowStates
    <3>4. db'.rows[q] = z
      BY <1>1, <2>1, <3>2
    <3> QED
      BY <2>1, <3>3, <3>4 DEF Row
  <2>2. CASE ~(q \in batch /\ Active(q))
    <3>1. x.db.rows[q] = Row(q)
      BY <1>1, <2>2
    <3> QED
      BY <2>2, <3>1 DEF Row
  <2> QED
    BY <2>1, <2>2
<1>3. \A q \in Runs : Fades(q)
  BY <1>1, <1>2, RowsFade
<1>4. FencesHaveMaximum'
  <2>1. \A q \in Runs : /\ db'.rows[q] # None <=> db.rows[q] # None
                        /\ db.rows[q] # None => db'.rows[q].lease = db.rows[q].lease
    BY <1>2 DEF Active, Row
  <2> QED
    BY <1>1, <2>1, FencesStay
<1>5. \A q \in Runs : q \in batch => ~Active(q)'
  BY <1>2 DEF Active, Row
<1>6. \A q \in Runs \ batch : Row(q)' = Row(q) /\ Active(q)' = Active(q)
  BY <1>2 DEF Active, Row
<1> QED
  BY <1>1, <1>3, <1>4, <1>5, <1>6

\* A release ends the authority of its run and touches no other row.
LEMMA RowReleased ==
    ASSUME Typed, NEW l \in Leases, Row(l.run) # None, Row(l.run).lease = l,
           db.status[l.run] = "settled",
           NEW x, x = Durable!ReleaseIn(db, l), db' = x.db
    PROVE  /\ x.reply = [kind |-> "ok", lease |-> None]
           /\ db' \in Durable!Databases /\ FencesHaveMaximum'
           /\ \A q \in Runs : Fades(q)
           /\ ~Active(l.run)'
           /\ \A q \in Runs \ {l.run} : Row(q)' = Row(q) /\ Active(q)' = Active(q)
<1>1. /\ x.reply = [kind |-> "ok", lease |-> None]
      /\ db' \in Durable!Databases /\ db'.status = db.status /\ db'.floor = db.floor
      /\ db'.rows[l.run] = IF Active(l.run) THEN [lease |-> l, state |-> "released"]
                                            ELSE Row(l.run)
      /\ \A q \in Runs \ {l.run} : db'.rows[q] = Row(q)
  BY ReleaseEffect
<1>2. PICK z : z = [lease |-> l, state |-> "released"]
  OBVIOUS
<1>3. z # None /\ z.lease = l /\ z.state = "released"
  BY <1>2, RowType, RowStates
<1>4. \/ db'.rows[l.run] = db.rows[l.run] /\ ~Active(l.run)
      \/ Active(l.run) /\ db'.rows[l.run] = z
  BY <1>1, <1>2 DEF Row
<1>5. ASSUME NEW q \in Runs
      PROVE  \/ db'.rows[q] = db.rows[q]
             \/ /\ Active(q) /\ db'.rows[q] # None /\ db'.rows[q].state # "active"
                /\ db'.rows[q].lease = db.rows[q].lease
  <2>1. CASE q = l.run
    BY <1>3, <1>4, <2>1 DEF Row
  <2>2. CASE q # l.run
    BY <1>1, <2>2 DEF Row
  <2> QED
    BY <2>1, <2>2
<1>6. \A q \in Runs : Fades(q)
  BY <1>1, <1>5, RowsFade
<1>7. FencesHaveMaximum'
  <2>1. \A q \in Runs : /\ db'.rows[q] # None <=> db.rows[q] # None
                        /\ db.rows[q] # None => db'.rows[q].lease = db.rows[q].lease
    BY <1>5 DEF Active, Row
  <2> QED
    BY <1>1, <2>1, FencesStay
<1>8. ~Active(l.run)'
  BY <1>3, <1>4 DEF Active, Row
<1>9. \A q \in Runs \ {l.run} : Row(q)' = Row(q) /\ Active(q)' = Active(q)
  BY <1>1 DEF Active, Row
<1> QED
  BY <1>1, <1>6, <1>7, <1>8, <1>9

\* A step of the database that grants nothing and takes authority only from
\* runs that are not executed or that a fault concerns.
LEMMA Withdrawing ==
    ASSUME IInv, db' \in Durable!Databases, FencesHaveMaximum',
           \A r \in Runs : Fades(r),
           \A r \in Runs : pending[r] = "pending" => Row(r)' = Row(r),
           \A r \in Runs : Active(r) /\ Executing(r) => Active(r)' \/ interruptions[r] # {},
           UNCHANGED << coordination, replies, drops, ledger, process, fenced, kernels >>,
           job' \in Jobs \cup {None}, job' \in {job, None} \/ JobSound'
    PROVE  Sound'
<1>1. UNCHANGED << role, exited, defaultOf, sessions, runs, claims, blocked, revoking,
                   interruptions, stoppedRuns, fencing, pendingReleases, fence, calls >>
      /\ UNCHANGED << replies, drops, leases, pending, interrupted, stopped, handoffs,
                      process, fenced, work, writes >>
  BY DEF coordination, ledger, kernels
<1>2. \A r \in Runs : Lasts(r) /\ Remembers(r)
  BY <1>1, RunsRest DEF Fades
<1>3. CallsSound' /\ OneRevocation'
  BY <1>1, <1>2, CallsRest
<1>4. Typed'
  BY <1>1 DEF IInv, Sound, Typed
<1>5. TracesSound'
  BY <1>1, <1>2, TracesRest
<1>6. \A r \in Runs : WorkSound(r)'
  BY <1>1, <1>2, WorksRest
<1> QED
  BY <1>1, <1>3, <1>4, <1>5, <1>6, Quiet

\* A queued run is cancelled.
LEMMA Cancelling ==
    ASSUME IInv, NEW r \in Runs, Cancel(r)
    PROVE  Sound'
<1>1. db' = [db EXCEPT !.status[r] = "settled"] /\ Typed /\ UNCHANGED job
  BY DEF Cancel, IInv, Sound
<1>2. /\ db' \in Durable!Databases /\ FencesHaveMaximum'
      /\ \A q \in Runs : db'.rows[q] = db.rows[q] /\ Fades(q)
  BY <1>1, RunSettles
<1>3. \A q \in Runs : Row(q)' = Row(q) /\ Active(q)' = Active(q)
  BY <1>2 DEF Row, Active
<1>4. job' \in Jobs \cup {None} /\ job' \in {job, None}
  BY <1>1 DEF Typed
<1> QED
  BY <1>2, <1>3, <1>4, Withdrawing DEF Cancel

\* A reconciliation at its next stage.
LEMMA JobAdvances ==
    ASSUME IInv, job # None, NEW stage \in JobStages, Becomes(stage)
    PROVE  job' \in Jobs /\ job' # None /\ job'.run = job.run /\ job'.stage = stage
<1>1. job \in Jobs
  BY DEF IInv, Sound, Typed
<1>2. PICK x : x = [job EXCEPT !.stage = stage]
  OBVIOUS
<1>3. x \in Jobs /\ x.run = job.run /\ x.stage = stage
  BY <1>1, <1>2 DEF Jobs
<1> QED
  BY <1>2, <1>3, NoneStateAssumption DEF Becomes

\* What JobSound asks, of any reconciliation.
JobClaims(r, stage) ==
    /\ stage \in {"read", "revoke", "free"} => pending[r] = "failed"
    /\ stage = "revoke" => Row(r) # None
    /\ stage \in {"recover", "cleanup"} =>
          pending[r] = "failed" \/ (pending[r] = "none" /\ Joined(r))
    /\ stage \in {"free", "recover", "cleanup", "handoff"} => ~Active(r)
    /\ stage \in {"recover", "cleanup", "handoff"} => runs[r] = None
    /\ stage = "cleanup" => db.status[r] # "running"
    /\ stage = "handoff" => db.status[r] = "settled" /\ pending[r] = "none"

\* What a reconciliation has established becomes JobSound.
LEMMA JobIs ==
    ASSUME NEW r, NEW stage, job'.run = r, job'.stage = stage, JobClaims(r, stage)'
    PROVE  JobSound'
BY DEF JobSound, JobClaims, Joined, InterruptedBy, Active, Row

\* And JobSound says it of the reconciliation in progress.
LEMMA JobWas ==
    ASSUME IInv, job # None
    PROVE  job \in Jobs /\ job.run \in Runs /\ JobClaims(job.run, job.stage)
BY DEF IInv, Sound, Typed, Jobs, JobSound, JobClaims

\* reconcileClaim reads the receipt of a failed claim.
LEMMA ReadingJob ==
    ASSUME IInv, JobRead
    PROVE  Sound'
<1>1. /\ job # None /\ job.stage = "read" /\ Typed
      /\ UNCHANGED << coordination, storage, ledger, process, fenced, kernels >>
  BY DEF JobRead, JobAt, IInv, Sound
<1>2. PICK r \in Runs : r = job.run /\ JobClaims(r, "read")
  BY <1>1, JobWas
<1>3. \/ job' = None
      \/ Becomes("free") /\ ~Active(r)
      \/ Becomes("revoke") /\ Row(r) # None
  BY <1>2 DEF JobRead, Active, Row
<1>4. UNCHANGED << db, pending, runs, interrupted >>
  BY <1>1 DEF coordination, storage, ledger
<1>5. "free" \in JobStages /\ "revoke" \in JobStages
  BY DEF JobStages
<1>6. job' \in Jobs \cup {None} /\ (job' \in {job, None} \/ JobSound')
  <2>1. CASE job' = None
    BY <2>1
  <2>2. CASE Becomes("free") /\ ~Active(r)
    <3>1. JobClaims(r, "free")'
      BY <1>2, <1>4, <2>2 DEF JobClaims, Active, Row
    <3> QED
      BY <1>1, <1>2, <1>5, <2>2, <3>1, JobAdvances, JobIs
  <2>3. CASE Becomes("revoke") /\ Row(r) # None
    <3>1. JobClaims(r, "revoke")'
      BY <1>2, <1>4, <2>3 DEF JobClaims, Row
    <3> QED
      BY <1>1, <1>2, <1>5, <2>3, <3>1, JobAdvances, JobIs
  <2> QED
    BY <1>3, <2>1, <2>2, <2>3
<1>7. \A q \in Runs : Fades(q) /\ Row(q)' = Row(q) /\ Active(q)' = Active(q)
  BY <1>4, DatabaseRests DEF Row, Active
<1> QED
  BY <1>1, <1>4, <1>6, <1>7, Withdrawing DEF storage, Typed, FencesHaveMaximum

\* It revokes an authority that the receipt finds in force.
LEMMA RevokingJob ==
    ASSUME IInv, JobRevoke
    PROVE  Sound'
<1>1. /\ job # None /\ job.stage = "revoke" /\ Typed
      /\ UNCHANGED << coordination, replies, drops, ledger, process, fenced, kernels >>
      /\ Becomes("free")
  BY DEF JobRevoke, JobAt, IInv, Sound
<1>2. PICK r \in Runs : r = job.run /\ JobClaims(r, "revoke")
  BY <1>1, JobWas
<1>3. Row(r) # None /\ pending[r] = "failed"
  BY <1>2 DEF JobClaims
<1>4. PICK o \in Owners : o = Row(r).lease.owner
  BY <1>1, <1>3, DatabaseFields, LeaseFields DEF Typed, Row
<1>5. PICK x : x = Durable!RevokeIn(db, o, {r})
  OBVIOUS
<1>6. db' = x.db
  BY <1>2, <1>4, <1>5 DEF JobRevoke, Row
<1>7. Revocable(o, r)
  BY <1>4 DEF Revocable
<1>8. {r} \in SUBSET Runs /\ \A q \in {r} : Revocable(o, q)
  BY <1>7
<1>9. /\ db' \in Durable!Databases /\ FencesHaveMaximum'
      /\ \A q \in Runs : Fades(q) /\ (q \in {r} => ~Active(q)')
      /\ \A q \in Runs \ {r} : Row(q)' = Row(q) /\ Active(q)' = Active(q)
  BY <1>1, <1>5, <1>6, <1>8, RowsRevoked
<1>13. ~Executing(r)
  <2>1. work[r] # None => Past(r)
    BY WorkFacts
  <2> QED
    BY <1>3, <2>1 DEF Past, Executing, Stage
<1>14. ~Active(r)' /\ UNCHANGED << runs, pending >>
  BY <1>1, <1>9 DEF coordination, ledger
<1>15. JobClaims(r, "free")'
  BY <1>3, <1>14 DEF JobClaims
<1>16. job' \in Jobs /\ JobSound'
  <2>1. "free" \in JobStages
    BY DEF JobStages
  <2> QED
    BY <1>1, <1>2, <1>15, <2>1, JobAdvances, JobIs
<1> QED
  BY <1>1, <1>3, <1>9, <1>13, <1>16, Withdrawing

\* Recovery ends a run whose authority has ended before.
LEMMA RecoveringJob ==
    ASSUME IInv, JobRecover
    PROVE  Sound'
<1>1. /\ job # None /\ job.stage = "recover" /\ Typed
      /\ UNCHANGED << coordination, replies, drops, ledger, process, fenced, kernels >>
  BY DEF JobRecover, JobAt, IInv, Sound
<1>2. PICK r \in Runs : r = job.run /\ JobClaims(r, "recover")
  BY <1>1, JobWas
<1>3. ~Active(r) /\ runs[r] = None
  BY <1>2 DEF JobClaims
<1>4. PICK x : x = Durable!RecoverIn(db, r)
  OBVIOUS
<1>5. /\ db' = x.db /\ (IF x.reply.kind = "ok" THEN Becomes("cleanup") ELSE job' = None)
  BY <1>2, <1>4 DEF JobRecover
<1>6. /\ x.reply.kind = "ok"
      /\ \/ db.status[r] = "running" /\ x.db = [db EXCEPT !.status[r] = "settled"]
         \/ db.status[r] # "running" /\ x.db = db
  BY <1>3, <1>4 DEF Durable!RecoverIn, Durable!ActiveRow, Active, Row, Durable!Ok
<1>7. /\ db' \in Durable!Databases /\ FencesHaveMaximum' /\ db'.status[r] # "running"
      /\ \A q \in Runs : Fades(q) /\ Row(q)' = Row(q) /\ Active(q)' = Active(q)
  <2>1. CASE db' = [db EXCEPT !.status[r] = "settled"]
    BY <1>1, <2>1, RunSettles DEF Row, Active
  <2>2. CASE db' = db /\ db.status[r] # "running"
    BY <1>1, <2>2, DatabaseRests DEF Row, Active, Typed, FencesHaveMaximum
  <2> QED
    BY <1>5, <1>6, <2>1, <2>2
<1>8. JobClaims(r, "cleanup")'
  BY <1>1, <1>2, <1>3, <1>7 DEF JobClaims, Joined, InterruptedBy, coordination, ledger
<1>9. job' \in Jobs /\ JobSound'
  <2>1. "cleanup" \in JobStages
    BY DEF JobStages
  <2> QED
    BY <1>1, <1>2, <1>5, <1>6, <1>8, <2>1, JobAdvances, JobIs
<1> QED
  BY <1>1, <1>7, <1>9, Withdrawing

\* The port answers the next of its calls.
LEMMA AnswerComes ==
    ASSUME IInv, Unserved, NEW a \in Replies, replies' = Append(replies, a),
           UNCHANGED << calls, claims, fenced >>,
           \A r \in Runs : Lasts(r) /\ Remembers(r),
           \A i \in DOMAIN calls, c \in Calls :
              i # Len(replies) + 1 /\ c = calls[i] => CallKeeps(c),
           \A c \in Calls : c = calls[Len(replies) + 1] => CallSound(c, a)'
    PROVE  /\ CallsSound' /\ OneRevocation'
           /\ replies' \in Seq(Replies) /\ Len(replies') <= Len(calls')
<1>1. PICK n \in Nat : n = Len(replies)
  BY DEF IInv, Sound, Typed
<1>2. /\ replies \in Seq(Replies) /\ calls \in Seq(Calls) /\ n < Len(calls)
      /\ DOMAIN replies = 1..n /\ DOMAIN calls = 1..Len(calls) /\ Len(calls) \in Nat
  BY <1>1, CoordinatorTypes DEF IInv, Sound, Typed, Unserved
<1>3. /\ replies' \in Seq(Replies) /\ Len(replies') = n + 1 /\ DOMAIN replies' = 1..(n + 1)
      /\ replies'[n + 1] = a /\ \A i \in 1..n : replies'[i] = replies[i]
  BY <1>1, <1>2
<1>4. CallsSound'
  <2> SUFFICES ASSUME NEW i \in DOMAIN calls PROVE CallSound(calls[i], AnswerTo(i))'
    BY DEF CallsSound
  <2>1. PICK c \in Calls : c = calls[i]
    BY <1>2
  <2>2. CASE i = n + 1
    <3>1. CallSound(c, a)'
      BY <1>1, <2>1, <2>2
    <3>2. AnswerTo(i)' = a
      BY <1>2, <1>3, <2>2 DEF AnswerTo
    <3> QED
      BY <2>1, <3>1, <3>2
  <2>3. CASE i # n + 1
    <3>1. PICK b : b = AnswerTo(i)
      OBVIOUS
    <3>2. AnswerTo(i)' = b
      <4>1. i \in DOMAIN replies' <=> i \in DOMAIN replies
        BY <1>2, <1>3, <2>3
      <4>2. i \in DOMAIN replies => replies'[i] = replies[i]
        BY <1>2, <1>3
      <4>3. AnswerTo(i)' = IF i \in DOMAIN replies' THEN replies'[i] ELSE Unanswered
        BY DEF AnswerTo, Unanswered
      <4> QED
        BY <3>1, <4>1, <4>2, <4>3 DEF AnswerTo
    <3>3. CallSound(c, b) /\ CallKeeps(c) /\ (c.op # "revoke" => c.lease \in Leases)
      BY <1>1, <2>1, <2>3, <3>1, CallFacts
    <3>4. CallSound(c, b)'
      BY <3>3, CallStays
    <3> QED
      BY <2>1, <3>2, <3>4
  <2> QED
    BY <2>2, <2>3
<1>5. OneRevocation'
  BY DEF IInv, Sound, OneRevocation
<1> QED
  BY <1>2, <1>3, <1>4, <1>5

\* The call that is served next.
LEMMA NextServed ==
    ASSUME IInv, Unserved
    PROVE  LET n == Len(replies) + 1 IN
           /\ n \in DOMAIN calls /\ calls[n] \in Calls
           /\ CallSound(calls[n], Unanswered)
<1>1. PICK n \in Nat : n = Len(replies)
  BY DEF IInv, Sound, Typed
<1>2. /\ replies \in Seq(Replies) /\ calls \in Seq(Calls) /\ n < Len(calls)
      /\ DOMAIN replies = 1..n /\ DOMAIN calls = 1..Len(calls) /\ Len(calls) \in Nat
  BY <1>1, CoordinatorTypes DEF IInv, Sound, Typed, Unserved
<1>3. n + 1 \in DOMAIN calls /\ n + 1 \notin DOMAIN replies
  BY <1>2
<1>4. calls[n + 1] \in Calls /\ CallSound(calls[n + 1], AnswerTo(n + 1))
  BY <1>3, CallFacts
<1>5. AnswerTo(n + 1) = Unanswered
  BY <1>3 DEF AnswerTo
<1> QED
  BY <1>1, <1>3, <1>4, <1>5

\* A call that is never dispatched.
LEMMA Dropping ==
    ASSUME IInv, Drop
    PROVE  Sound'
<1>1. /\ Unserved /\ drops < MaxDrops /\ drops' = drops + 1
      /\ UNCHANGED << role, exited, defaultOf, sessions, runs, claims, blocked, revoking,
                      interruptions, stoppedRuns, fencing, pendingReleases, fence, calls >>
      /\ UNCHANGED << db, leases, pending, interrupted, stopped, handoffs, job,
                      process, fenced, work, writes >>
  BY DEF Drop, coordination, ledger, kernels
<1>2. PICK a : a = [kind |-> "lost", lease |-> None]
  OBVIOUS
<1>3. a \in Replies /\ a.kind = "lost" /\ replies' = Append(replies, a)
  BY <1>2 DEF Replies, Drop, Coordinator!Reply
<1>4. \A r \in Runs : Fades(r) /\ Lasts(r) /\ Remembers(r)
  BY <1>1, DatabaseRests, RunsRest DEF Fades
<1>5. \A c \in Calls : CallKeeps(c)
  BY <1>1 DEF CallKeeps, Row
<1>6. ASSUME NEW c \in Calls, c = calls[Len(replies) + 1] PROVE CallSound(c, a)'
  <2>1. CallSound(c, Unanswered) /\ (c.op # "revoke" => c.lease \in Leases)
    BY <1>1, <1>6, NextServed, CallFacts
  <2>2. CallSound(c, a)
    BY <1>3, <2>1 DEF CallSound, ClaimSound, UnclaimSound, ReleaseSound, RevokeSound, Unanswered
  <2> QED
    BY <1>4, <1>5, <2>1, <2>2, CallStays
<1>7. CallsSound' /\ OneRevocation' /\ replies' \in Seq(Replies) /\ Len(replies') <= Len(calls')
  BY <1>1, <1>3, <1>4, <1>5, <1>6, AnswerComes
<1>8. drops' \in 0..MaxDrops
  BY <1>1, HandoffAssumption DEF IInv, Sound, Typed
<1>9. Typed'
  BY <1>1, <1>7, <1>8 DEF IInv, Sound, Typed, FencesHaveMaximum
<1>10. TracesSound'
  BY <1>1, <1>4, TracesRest
<1>11. \A r \in Runs : WorkSound(r)'
  BY <1>1, <1>4, WorksRest DEF Active, Row
<1> QED
  BY <1>1, <1>4, <1>7, <1>9, <1>10, <1>11, Quiet

\* The port serves a call, and no other call depends on the row it writes.
LEMMA Serving ==
    ASSUME IInv, Serve, NEW a \in Replies, replies' = Append(replies, a),
           db' \in Durable!Databases, FencesHaveMaximum',
           \A r \in Runs : Lasts(r),
           \A r \in Runs : Fades(r) \/ (pending[r] = "pending" /\ HostSound(r)'),
           \A r \in Runs : Active(r) /\ Executing(r) => Active(r)' \/ interruptions[r] # {},
           \A i \in DOMAIN calls, c \in Calls :
              i # Len(replies) + 1 /\ c = calls[i] /\ c.op = "claim" =>
                 Row(c.lease.run)' = Row(c.lease.run),
           \A c \in Calls : c = calls[Len(replies) + 1] => CallSound(c, a)'
    PROVE  Sound'
<1>1. /\ Unserved
      /\ UNCHANGED << role, exited, defaultOf, sessions, runs, claims, blocked, revoking,
                      interruptions, stoppedRuns, fencing, pendingReleases, fence, calls >>
      /\ UNCHANGED << drops, leases, pending, interrupted, stopped, handoffs, job,
                      process, fenced, work, writes >>
  BY DEF Serve, coordination, ledger, kernels
<1>2. \A r \in Runs : Lasts(r) /\ Remembers(r)
  BY <1>1, RunsRest
<1>3. \A i \in DOMAIN calls, c \in Calls :
         i # Len(replies) + 1 /\ c = calls[i] => CallKeeps(c)
  BY <1>1 DEF CallKeeps
<1>4. CallsSound' /\ OneRevocation' /\ replies' \in Seq(Replies) /\ Len(replies') <= Len(calls')
  BY <1>1, <1>2, <1>3, AnswerComes
<1>5. Typed'
  BY <1>1, <1>4 DEF IInv, Sound, Typed
<1>6. TracesSound'
  BY <1>1, <1>2, TracesRest
<1>7. \A r \in Runs : WorkSound(r)'
  BY <1>1, <1>2, WorksRest
<1> QED
  BY <1>1, <1>4, <1>5, <1>6, <1>7, Quiet

\* Two claims in flight are of different sessions, and their runs are pending.
LEMMA ClaimsApart ==
    ASSUME IInv, NEW i \in DOMAIN calls, NEW j \in DOMAIN calls, i # j,
           calls[i].op \in {"claim", "unclaim"}, calls[j].op \in {"claim", "unclaim"}
    PROVE  SessionOf[calls[i].lease.run] # SessionOf[calls[j].lease.run]
<1>1. i \in Nat /\ j \in Nat
  BY CoordinatorTypes DEF IInv
<1>2. i < j \/ j < i
  BY <1>1
<1> QED
  BY <1>2 DEF IInv, C!IInv, C!ClaimsLast, C!InFlight, C!Session

\* A claim is granted in the database, or refused.
LEMMA ServingClaim ==
    ASSUME IInv, Serve, NEW c \in Calls, c = calls[Len(replies) + 1], c.op = "claim"
    PROVE  Sound'
<1> DEFINE n == Len(replies) + 1
<1>1. /\ Unserved /\ Typed
      /\ UNCHANGED << runs, claims, leases, pending, interrupted >>
  BY DEF Serve, coordination, ledger, IInv, Sound
<1>2. /\ n \in DOMAIN calls /\ CallSound(c, Unanswered)
      /\ c.lease \in Leases /\ c.lease.run \in Runs
      /\ claims[SessionOf[c.lease.run]] # None /\ claims[SessionOf[c.lease.run]].lease = c.lease
      /\ pending[c.lease.run] = "pending"
  BY <1>1, NextServed, CallFacts DEF Session
<1>3. PICK r \in Runs : r = c.lease.run
  BY <1>2
<1>4. Row(r) = None /\ claims[SessionOf[r]].stage = "claim"
  BY <1>2, <1>3 DEF CallSound, ClaimSound, Unanswered
<1>5. PICK x : x = Executed(db, c)
  OBVIOUS
<1>6. db' = x.db /\ replies' = Append(replies, x.reply)
  BY <1>5 DEF Serve
<1>7. x = Durable!ClaimIn(db, c.lease)
  BY <1>5 DEF Executed
<1>8. \A i \in DOMAIN calls, d \in Calls :
         i # n /\ d = calls[i] /\ d.op = "claim" => d.lease.run # r /\ d.lease.run \in Runs
  <2> SUFFICES ASSUME NEW i \in DOMAIN calls, i # n, calls[i].op = "claim"
               PROVE  calls[i].lease.run # r /\ calls[i].lease.run \in Runs
    OBVIOUS
  <2>1. SessionOf[calls[i].lease.run] # SessionOf[r]
    BY <1>2, <1>3, ClaimsApart
  <2> QED
    BY <2>1, CallFacts
<1>9. ~Executing(r) /\ ~Active(r)
  <2>1. work[r] # None => Past(r)
    BY WorkFacts
  <2> QED
    BY <1>2, <1>3, <1>4, <2>1 DEF Past, Executing, Stage, Active
<1>10. CASE x.db = db /\ x.reply = [kind |-> "null", lease |-> None]
  <2>1. PICK a : a = x.reply
    OBVIOUS
  <2>2. a \in Replies /\ a.kind = "null" /\ replies' = Append(replies, a) /\ db' = db
    BY <1>6, <1>10, <2>1 DEF Replies
  <2>3. \A q \in Runs : Fades(q) /\ Lasts(q) /\ Row(q)' = Row(q) /\ Active(q)' = Active(q)
    BY <2>2, DatabaseRests DEF Fades, Row, Active
  <2>4. FencesHaveMaximum' /\ db' \in Durable!Databases
    BY <1>1, <2>2 DEF Typed, FencesHaveMaximum
  <2>5. CallSound(c, a)'
    <3>1. ClaimSound(c, a)'
      BY <1>1, <1>3, <1>4, <2>2 DEF ClaimSound, Row
    <3> QED
      BY <3>1 DEF CallSound
  <2> QED
    BY <1>8, <2>2, <2>3, <2>4, <2>5, Serving
<1>11. ASSUME NEW l \in Leases,
              SameDraft(l, c.lease), x.reply = [kind |-> "lease", lease |-> l],
              x.db \in Durable!Databases,
              x.db.rows[r] = [lease |-> l, state |-> "active"],
              x.db.status[r] = "running",
              \A q \in Runs \ {r} : x.db.rows[q] = db.rows[q] /\ x.db.status[q] = db.status[q],
              x.db.floor = db.floor,
              \A f \in Durable!Fences(db) : f \in Nat /\ f < l.fence
       PROVE  Sound'
  <2>1. PICK a : a = x.reply
    OBVIOUS
  <2>2. a \in Replies /\ a.kind = "lease" /\ a.lease = l /\ replies' = Append(replies, a)
    BY <1>6, <1>11, <2>1 DEF Replies
  <2>3. PICK z : z = [lease |-> l, state |-> "active"]
    OBVIOUS
  <2>4. z # None /\ z.lease = l /\ z.state = "active" /\ Row(r)' = z /\ db'.status[r] = "running"
    BY <1>6, <1>11, <2>3, RowType, RowStates DEF Row
  <2>5. ASSUME NEW q \in Runs, q # r
        PROVE  Fades(q) /\ Lasts(q) /\ Row(q)' = Row(q) /\ Active(q)' = Active(q)
    BY <1>6, <1>11, <2>5 DEF Fades, Lasts, Row, Active
  <2>6. Lasts(r)
    BY <1>4 DEF Lasts
  <2>7. HostSound(r)'
    <3>1. /\ LeaseSound(r, c.lease) /\ leases[r] # None /\ HostSound(r)
          /\ runs[r] = None
      BY <1>2, <1>3, LeaseAssumption DEF IInv, Sound, FrameSound, HostSound
    <3>2. LeaseSound(r, l)
      BY <3>1, <1>11 DEF LeaseSound, SameDraft
    <3>3. LeaseSound(r, l)' /\ (leases[r] # None => LeaseSound(r, leases[r]))'
      BY <1>1, <3>1, <3>2 DEF LeaseSound, HostSound
    <3>4. (Row(r) # None => LeaseSound(r, Row(r).lease) /\ db.status[r] # "queued")'
      BY <2>4, <3>3
    <3> QED
      BY <1>1, <2>4, <3>1, <3>3, <3>4 DEF HostSound
  <2>8. FencesHaveMaximum'
    BY <1>1, <1>4, <1>6, <1>11, FencesRaised
  <2>9. CallSound(c, a)'
    <3>1. ClaimSound(c, a)'
      BY <1>1, <1>3, <1>4, <1>11, <2>2, <2>3, <2>4 DEF ClaimSound
    <3> QED
      BY <3>1 DEF CallSound
  <2>10. \A q \in Runs : Lasts(q) /\ (Fades(q) \/ (pending[q] = "pending" /\ HostSound(q)'))
    BY <1>2, <1>3, <2>5, <2>6, <2>7
  <2>11. \A q \in Runs : Active(q) /\ Executing(q) => Active(q)'
    BY <1>9, <2>5
  <2>12. \A i \in DOMAIN calls, d \in Calls :
           i # Len(replies) + 1 /\ d = calls[i] /\ d.op = "claim" => Row(d.lease.run)' = Row(d.lease.run)
    BY <1>8, <2>5
  <2>13. db' \in Durable!Databases
    BY <1>6, <1>11
  <2> QED
    BY <2>2, <2>8, <2>9, <2>10, <2>11, <2>12, <2>13, Serving
<1>12. PICK draft \in Leases : draft = c.lease /\ draft.run = r /\ Row(draft.run) = None
  BY <1>2, <1>3, <1>4
<1>13. x = Durable!ClaimIn(db, draft)
  BY <1>7, <1>12
<1>14. CASE ~(x.db = db /\ x.reply = [kind |-> "null", lease |-> None])
  <2> HIDE DEF n
  <2>6. Typed /\ Row(draft.run) = None
    BY <1>1, <1>12
  <2>5. \/ x.db = db /\ x.reply = [kind |-> "null", lease |-> None]
        \/ \E l \in Leases :
             /\ SameDraft(l, draft) /\ x.reply = [kind |-> "lease", lease |-> l]
             /\ Durable!Claimable(db, draft.run)
             /\ x.db \in Durable!Databases
             /\ x.db.rows[draft.run] = [lease |-> l, state |-> "active"]
             /\ x.db.status[draft.run] = "running"
             /\ \A q \in Runs \ {draft.run} :
                   x.db.rows[q] = db.rows[q] /\ x.db.status[q] = db.status[q]
             /\ x.db.floor = db.floor
             /\ \A f \in Durable!Fences(db) : f \in Nat /\ f < l.fence
    BY <1>13, <2>6, ClaimEffect, Zenon
  <2>1. PICK l \in Leases :
           /\ SameDraft(l, draft) /\ x.reply = [kind |-> "lease", lease |-> l]
           /\ x.db \in Durable!Databases
           /\ x.db.rows[draft.run] = [lease |-> l, state |-> "active"]
           /\ x.db.status[draft.run] = "running"
           /\ \A q \in Runs \ {draft.run} :
                 x.db.rows[q] = db.rows[q] /\ x.db.status[q] = db.status[q]
           /\ x.db.floor = db.floor
           /\ \A f \in Durable!Fences(db) : f \in Nat /\ f < l.fence
    BY <1>14, <2>5
  <2>2. \A q \in Runs \ {r} : x.db.rows[q] = db.rows[q] /\ x.db.status[q] = db.status[q]
    BY <1>12, <2>1
  <2>3. x.db.rows[r] = [lease |-> l, state |-> "active"] /\ x.db.status[r] = "running"
    BY <1>12, <2>1
  <2>4. SameDraft(l, c.lease)
    BY <1>12, <2>1
  <2> QED
    BY <1>11, <2>1, <2>2, <2>3, <2>4
<1> QED
  BY <1>10, <1>14

\* The other calls end authorities.
LEMMA ServingEnd ==
    ASSUME IInv, Serve, NEW c \in Calls, c = calls[Len(replies) + 1], c.op # "claim"
    PROVE  Sound'
<1> DEFINE n == Len(replies) + 1
<1>1. /\ Unserved /\ Typed
      /\ UNCHANGED << runs, claims, leases, pending, interrupted, interruptions, work, fenced >>
  BY DEF Serve, coordination, ledger, kernels, IInv, Sound
<1>2. n \in DOMAIN calls /\ CallSound(c, Unanswered) /\ (c.op # "revoke" => c.lease \in Leases)
  BY <1>1, NextServed, CallFacts
<1>3. PICK x : x = Executed(db, c)
  OBVIOUS
<1>4. db' = x.db /\ replies' = Append(replies, x.reply)
  BY <1>3 DEF Serve
<1>5. PICK ok : ok = [kind |-> "ok", lease |-> None]
  OBVIOUS
<1>6. ok \in Replies /\ ok.kind = "ok"
  BY <1>5 DEF Replies
<1>7. \A i \in DOMAIN calls, d \in Calls :
         d = calls[i] /\ d.op = "claim" => pending[d.lease.run] = "pending" /\ d.lease.run \in Runs
  BY CallFacts
<1>8. ASSUME NEW B \in SUBSET Runs,
             x.reply = ok, db' \in Durable!Databases, FencesHaveMaximum',
             \A q \in Runs : Fades(q),
             \A q \in Runs \ B : Row(q)' = Row(q) /\ Active(q)' = Active(q),
             \A q \in B : Active(q) /\ Executing(q) => interruptions[q] # {},
             \A i \in DOMAIN calls, d \in Calls :
                i # n /\ d = calls[i] /\ d.op = "claim" => d.lease.run \notin B,
             CallSound(c, ok)'
      PROVE  Sound'
  <2>1. \A q \in Runs : Lasts(q)
    BY <1>8 DEF Fades
  <2>2. \A q \in Runs : Active(q) /\ Executing(q) => Active(q)' \/ interruptions[q] # {}
    BY <1>8
  <2>3. \A i \in DOMAIN calls, d \in Calls :
           i # Len(replies) + 1 /\ d = calls[i] /\ d.op = "claim" => Row(d.lease.run)' = Row(d.lease.run)
    BY <1>7, <1>8
  <2>4. replies' = Append(replies, ok)
    BY <1>4, <1>8
  <2> QED
    BY <1>6, <1>8, <2>1, <2>2, <2>3, <2>4, Serving
<1>9. CASE c.op = "unclaim"
  <2>1. PICK r \in Runs : r = c.lease.run
    BY <1>2, <1>9 DEF Leases
  <2>2. /\ claims[SessionOf[r]].stage = "revoke" /\ pending[r] = "pending"
        /\ c.authority = c.lease.owner /\ c.runs = {r}
        /\ Row(r) # None /\ Row(r).lease.owner = c.lease.owner
    BY <1>1, <1>2, <1>9, <2>1, CallFacts DEF CallSound, UnclaimSound
  <2>3. x = Durable!RevokeIn(db, c.lease.owner, {r})
    BY <1>3, <1>9, <2>2 DEF Executed
  <2>4. c.lease.owner \in Owners /\ \A q \in {r} : Revocable(c.lease.owner, q)
    BY <1>2, <1>9, <2>2, LeaseFields DEF Revocable
  <2>5. /\ x.reply = ok /\ db' \in Durable!Databases /\ FencesHaveMaximum'
        /\ \A q \in Runs : Fades(q)
        /\ \A q \in Runs \ {r} : Row(q)' = Row(q) /\ Active(q)' = Active(q)
    BY <1>1, <1>4, <1>5, <2>3, <2>4, RowsRevoked
  <2>6. ~Executing(r)
    <3>1. work[r] # None => Past(r)
      BY WorkFacts
    <3> QED
      BY <2>2, <3>1 DEF Past, Executing, Stage
  <2>7. \A i \in DOMAIN calls, d \in Calls : i # n /\ d = calls[i] /\ d.op = "claim" => d.lease.run # r
    BY <1>2, <1>9, <2>1, ClaimsApart
  <2>8. CallSound(c, ok)'
    <3>1. Row(r)' # None /\ (Row(r).lease)' = Row(r).lease
      BY <2>2, <2>5 DEF Fades, Lasts, Row
    <3>2. UnclaimSound(c, ok)'
      BY <1>1, <1>6, <2>1, <2>2, <3>1 DEF UnclaimSound
    <3> QED
      BY <1>9, <3>2 DEF CallSound
  <2> QED
    BY <1>8, <2>5, <2>6, <2>7, <2>8
<1>10. CASE c.op = "release"
  <2>1. PICK l \in Leases : l = c.lease
    BY <1>2, <1>10
  <2>2. /\ Given(l) /\ l.run \in Runs
    BY <1>2, <1>10, <2>1, LeaseFields DEF CallSound, ReleaseSound
  <2>3. Row(l.run) # None /\ Row(l.run).lease = l /\ db.status[l.run] = "settled"
    BY <2>2 DEF Given, Known
  <2>4. x = Durable!ReleaseIn(db, l)
    BY <1>3, <1>10, <2>1 DEF Executed
  <2>5. /\ x.reply = ok /\ db' \in Durable!Databases /\ FencesHaveMaximum'
        /\ \A q \in Runs : Fades(q)
        /\ ~Active(l.run)'
        /\ \A q \in Runs \ {l.run} : Row(q)' = Row(q) /\ Active(q)' = Active(q)
    BY <1>1, <1>4, <1>5, <2>3, <2>4, RowReleased
  <2>6. ~Executing(l.run) /\ pending[l.run] # "pending"
    BY <2>2 DEF Given, Known, Idle, Executing, Stage
  <2>7. Given(l)'
    <3>1. Lasts(l.run) /\ Remembers(l.run)
      BY <1>1, <2>2, <2>5, RunsRest DEF Fades
    <3> QED
      BY <2>2, <3>1, GivenStays
  <2>8. CallSound(c, ok)'
    <3>1. ReleaseSound(c, ok)'
      BY <2>1, <2>5, <2>7 DEF ReleaseSound
    <3> QED
      BY <1>10, <3>1 DEF CallSound
  <2>9. {l.run} \in SUBSET Runs
    BY <2>2
  <2> QED
    BY <1>7, <1>8, <2>5, <2>6, <2>8, <2>9
<1>11. CASE c.op = "revoke"
  <2>1. /\ c.authority \in Owners /\ fenced[c.by] = "pending"
        /\ c.runs \in SUBSET Runs
        /\ \A r \in c.runs : Revoked(c.authority, r)
    BY <1>2, <1>11 DEF CallSound, RevokeSound, Calls
  <2>2. x = Durable!RevokeIn(db, c.authority, c.runs)
    BY <1>3, <1>11 DEF Executed
  <2>3. \A r \in c.runs : Revocable(c.authority, r) /\ pending[r] = "none"
                          /\ (runs[r] # None => interruptions[r] # {})
    BY <2>1 DEF Revoked
  <2>4. /\ x.reply = ok /\ db' \in Durable!Databases /\ FencesHaveMaximum'
        /\ \A q \in Runs : Fades(q) /\ (q \in c.runs => ~Active(q)')
        /\ \A q \in Runs \ c.runs : Row(q)' = Row(q) /\ Active(q)' = Active(q)
    BY <1>1, <1>4, <1>5, <2>1, <2>2, <2>3, RowsRevoked
  <2>5. \A q \in c.runs : Executing(q) => interruptions[q] # {}
    <3> SUFFICES ASSUME NEW q \in c.runs, Executing(q) PROVE interruptions[q] # {}
      OBVIOUS
    <3>1. q \in Runs /\ work[q] # None /\ work[q].stage # "releasing"
      BY <2>1 DEF Executing, Stage
    <3>2. runs[q] # None
      BY <3>1, WorkFacts
    <3> QED
      BY <2>3, <3>2
  <2>6. \A r \in c.runs : Revoked(c.authority, r)'
    <3> SUFFICES ASSUME NEW r \in c.runs PROVE Revoked(c.authority, r)'
      OBVIOUS
    <3>1. r \in Runs /\ Lasts(r) /\ Remembers(r) /\ Revoked(c.authority, r)
      BY <1>1, <2>1, <2>4, RunsRest DEF Fades
    <3> QED
      BY <3>1, RevokedStays
  <2>7. CallSound(c, ok)'
    <3>1. \A r \in c.runs : ~Active(r)'
      BY <2>1, <2>4
    <3>2. RevokeSound(c, ok)'
      BY <1>1, <1>6, <2>1, <2>6, <3>1 DEF RevokeSound
    <3> QED
      BY <1>11, <3>2 DEF CallSound
  <2>8. \A i \in DOMAIN calls, d \in Calls : d = calls[i] /\ d.op = "claim" => d.lease.run \notin c.runs
    BY <1>7, <2>3
  <2> QED
    BY <1>8, <2>1, <2>4, <2>5, <2>7, <2>8
<1> QED
  BY <1>9, <1>10, <1>11 DEF Calls

\* The port executes the next call.
LEMMA ServingCall ==
    ASSUME IInv, Serve
    PROVE  Sound'
<1>1. PICK c \in Calls : c = calls[Len(replies) + 1]
  BY NextServed DEF Serve
<1> QED
  BY <1>1, ServingClaim, ServingEnd

\* While the Host starts a reconciliation, a Kernel is current.
LEMMA KernelIsCurrent ==
    ASSUME IInv, ExecutionReady
    PROVE  CurrentKernel \in Owners
<1>1. PICK u \in Units : KindOf[u] = "kernel"
  BY HandoffAssumption
<1>2. PICK o : o = defaultOf[u] /\ o # None /\ role[o] = "default"
  BY DEF ExecutionReady, ServingDefault
<1>3. o \in Owners /\ UnitOf[GenOf[o]] = u
  BY <1>2 DEF IInv, Sound, OwnersSound
<1>4. o \in Kernels /\ role[o] = "default"
  BY <1>1, <1>2, <1>3 DEF Kernels, Kind
<1>5. CurrentKernel \in Kernels
  BY <1>4 DEF CurrentKernel
<1> QED
  BY <1>5 DEF Kernels

\* A reconciliation starts and changes nothing else yet.
LEMMA JobStarts ==
    ASSUME IInv, NEW r \in Runs, NEW stage \in JobStages, NEW splice \in BOOLEAN,
           ExecutionReady, job' = JobFor(r, stage, splice)
    PROVE  /\ job' \in Jobs /\ job' # None
           /\ job'.run = r /\ job'.stage = stage
<1>1. PICK o \in Owners : o = CurrentKernel
  BY KernelIsCurrent
<1>2. PICK x : x = [run |-> r, stage |-> stage, kernel |-> o, splice |-> splice]
  OBVIOUS
<1>3. x \in Jobs /\ x.run = r /\ x.stage = stage
  BY <1>2 DEF Jobs
<1>4. job' = x
  BY <1>1, <1>2 DEF JobFor
<1> QED
  BY <1>3, <1>4, NoneStateAssumption

\* A reconciliation starts: of a failed claim, or of a hand-off that did not finish.
LEMMA StartingJob ==
    ASSUME IInv, NEW r \in Runs, StartClaim(r) \/ StartHandoff(r)
    PROVE  Sound'
<1>1. /\ UNCHANGED << coordination, storage, ledger, process, fenced, kernels >>
      /\ ExecutionReady
  BY DEF StartClaim, StartHandoff, Ready
<1>2. /\ UNCHANGED << role, exited, defaultOf, sessions, runs, claims, blocked, revoking,
                      interruptions, stoppedRuns, fencing, pendingReleases, fence, calls >>
      /\ UNCHANGED << db, replies, drops, leases, pending, interrupted, stopped, handoffs,
                      process, fenced, work, writes >>
  BY <1>1 DEF coordination, storage, ledger, kernels
<1>3. "read" \in JobStages /\ "handoff" \in JobStages /\ FALSE \in BOOLEAN
  BY DEF JobStages
<1>4. job' \in Jobs /\ JobSound'
  <2>1. CASE StartClaim(r)
    <3>1. job' = JobFor(r, "read", FALSE) /\ pending[r] = "failed"
      BY <2>1 DEF StartClaim
    <3>2. JobClaims(r, "read")'
      BY <1>2, <3>1 DEF JobClaims
    <3> QED
      BY <1>1, <1>3, <3>1, <3>2, JobStarts, JobIs
  <2>2. CASE StartHandoff(r)
    <3>1. /\ job' = JobFor(r, "handoff", FALSE)
          /\ leases[r] # None /\ runs[r] = None /\ pending[r] = "none" /\ ~Interrupted(r)
      BY <2>2 DEF StartHandoff
    <3>2. ~Active(r) /\ db.status[r] = "settled"
      BY <3>1 DEF IInv, Sound, FenceSound, Joined, InterruptedBy, Interrupted
    <3>3. JobClaims(r, "handoff")'
      BY <1>2, <3>1, <3>2 DEF JobClaims, Active, Row
    <3> QED
      BY <1>1, <1>3, <3>1, <3>3, JobStarts, JobIs
  <2> QED
    BY <2>1, <2>2
<1>5. Typed'
  BY <1>2, <1>4 DEF IInv, Sound, Typed, FencesHaveMaximum
<1> QED
  BY <1>2, <1>4, <1>5, Plain

\* A final write reaches the database: the run ends, or the write is refused
\* because its authority is gone.
LEMMA WriteArriving ==
    ASSUME IInv, NEW l \in writes, WriteArrives(l)
    PROVE  Sound'
<1>1. Typed /\ l \in Leases /\ Known(l)
  BY DEF IInv, Sound, Typed, TracesSound
<1>2. PICK r \in Runs : r = l.run
  BY <1>1, LeaseFields
<1>3. PICK x : x = Durable!SettleIn(db, l)
  OBVIOUS
<1>4. /\ writes' = writes \ {l} /\ db' = x.db
      /\ IF work[r] = [lease |-> l, stage |-> "writing"]
         THEN Advance(r, IF x.reply.kind = "ok" THEN "settled" ELSE "stopping")
         ELSE UNCHANGED work
      /\ UNCHANGED << role, exited, defaultOf, sessions, runs, claims, blocked, revoking,
                      interruptions, stoppedRuns, fencing, pendingReleases, fence, calls >>
      /\ UNCHANGED << replies, drops, leases, pending, interrupted, stopped, handoffs, job,
                      process, fenced >>
  BY <1>2, <1>3 DEF WriteArrives, coordination, ledger
<1>5. /\ Active(r) => /\ x.reply.kind = "ok" /\ db' = [db EXCEPT !.status[r] = "settled"]
      /\ ~Active(r) => x.reply.kind = "refused" /\ db' = db
  <2>1. Durable!SameLease(db, l) /\ db.rows[l.run].lease.owner = l.owner
    BY <1>1 DEF Durable!SameLease, Known, Row
  <2>2. Durable!ActiveRow(db, l.run) <=> Active(r)
    BY <1>2 DEF Durable!ActiveRow, Active, Row
  <2>3. CASE Active(r)
    BY <1>2, <1>3, <1>4, <2>1, <2>2, <2>3 DEF Durable!SettleIn, Durable!Ok
  <2>4. CASE ~Active(r)
    BY <1>2, <1>3, <1>4, <2>1, <2>2, <2>4 DEF Durable!SettleIn, Durable!Refused
  <2> QED
    BY <2>3, <2>4
<1>6. /\ db' \in Durable!Databases /\ FencesHaveMaximum'
      /\ \A q \in Runs : Fades(q) /\ Row(q)' = Row(q) /\ Active(q)' = Active(q)
      /\ Active(r) => db'.status[r] = "settled"
  <2>1. CASE Active(r)
    BY <1>1, <1>5, <2>1, RunSettles DEF Row, Active
  <2>2. CASE ~Active(r)
    BY <1>1, <1>5, <2>2, DatabaseRests DEF Row, Active, Typed, FencesHaveMaximum
  <2> QED
    BY <2>1, <2>2
<1>7. /\ work' \in [Runs -> Works \cup {None}]
      /\ \A q \in Runs : Remembers(q)
      /\ \A q \in Runs : WorkSound(q)'
  <2>1. CASE work[r] = [lease |-> l, stage |-> "writing"]
    <3>1. PICK stage : stage = IF x.reply.kind = "ok" THEN "settled" ELSE "stopping"
      OBVIOUS
    <3>2. work' = [work EXCEPT ![r].stage = stage] /\ stage \in Stages
      BY <1>4, <2>1, <3>1 DEF Advance, Stages
    <3>3. work[r] # None
      <4>1. [lease |-> l, stage |-> "writing"] \in Works
        BY <1>1 DEF Works, Stages
      <4> QED
        BY <2>1, <4>1, NoneStateAssumption
    <3>4. work[r].stage = "writing" /\ Executing(r) /\ ~Idle(r)
      BY <2>1, <3>3 DEF Executing, Stage, Idle
    <3>5. stage = "settled" => db'.status[r] = "settled"
      BY <1>5, <1>6, <3>1
    <3>6. stage = "stopping" => interruptions[r] # {}
      <4>1. interruptions[r] = {} => Active(r)
        BY <3>3, <3>4 DEF IInv, Sound, WorkSound
      <4> QED
        BY <1>5, <3>1, <4>1
    <3>7. \A q \in Runs : Remembers(q)
      <4> SUFFICES ASSUME NEW q \in Runs PROVE Remembers(q)
        OBVIOUS
      <4>1. work'[q] = work[q] \/ ~Idle(q)
        BY <3>2, <3>3, <3>4, AdvanceFacts
      <4> QED
        BY <1>4, <4>1, WorkRemembers
    <3>8. \A q \in Runs : Lasts(q)
      BY <1>6 DEF Fades
    <3>9. work' \in [Runs -> Works \cup {None}]
      BY <3>2, <3>3, AdvanceFacts
    <3>10. stage \in {"settled", "stopping"}
      BY <3>1
    <3>11. interruptions[r] = {} => Active(r)' /\ SessionOf[r] \notin blocked'
      BY <1>4, <1>6, <3>3, <3>4, UninterruptedWork
    <3> QED
      BY <1>4, <1>6, <3>2, <3>3, <3>4, <3>5, <3>6, <3>7, <3>8, <3>9, <3>10, <3>11, WorkAdvances
  <2>2. CASE UNCHANGED work
    <3>1. \A q \in Runs : Lasts(q) /\ Remembers(q)
      BY <1>4, <1>6, <2>2, RunsRest DEF Fades
    <3>2. \A q \in Runs : WorkSound(q)'
      BY <1>4, <1>6, <2>2, <3>1, WorksRest
    <3> QED
      BY <1>1, <2>2, <3>1, <3>2 DEF Typed
  <2> QED
    BY <1>4, <2>1, <2>2
<1>8. \A q \in Runs : Lasts(q) /\ Remembers(q)
  BY <1>6, <1>7 DEF Fades
<1>9. CallsSound' /\ OneRevocation'
  BY <1>4, <1>6, <1>8, CallsRest
<1>10. Typed'
  BY <1>1, <1>4, <1>6, <1>7 DEF Typed
<1>11. TracesSound'
  BY <1>4, <1>8, TracesRest
<1> QED
  BY <1>4, <1>6, <1>7, <1>9, <1>10, <1>11, Quiet

\* The deferred releases that an end of activity starts are of ended runs,
\* and nothing claims or executes the sessions whose gates they close.
LEMMA ReleasesSettle ==
    ASSUME IInv, NEW rl, NEW ex, NEW ts, NEW rs, C!SettleReleases(rl, ex, ts, rs),
           UNCHANGED << replies, claims, fenced >>,
           \A r \in Runs : Lasts(r) /\ Remembers(r),
           \A r \in Runs : pending[r] = "pending" => Row(r)' = Row(r)
    PROVE  /\ CallsSound' /\ OneRevocation' /\ Len(calls) <= Len(calls')
           /\ pendingReleases' \subseteq pendingReleases
           /\ \A s \in blocked' :
                 \/ s \in blocked
                 \/ claims[s] = None /\ \A q \in Runs : SessionOf[q] = s => ~Executing(q)
<1> USE CoordinatorAssumed
<1> DEFINE ready == {l \in pendingReleases : ~C!References(ts, rs, l.id)}
           R     == {l \in ready : C!AssertedUnder(rl, ex, l)}
           New   == {C!ReleaseCall(l) : l \in R}
<1>1. /\ pendingReleases' = pendingReleases \ ready
      /\ blocked' = blocked \cup {C!Session(l) : l \in R}
      /\ calls' = calls \o C!Listed(New)
  BY DEF C!SettleReleases, C!Releasing
<1>2. /\ calls \in Seq(Calls) /\ Calls = C!Calls /\ Leases = C!Leases
      /\ pendingReleases \subseteq Leases
  <2>1. C!Leases = Leases
    BY DEF C!Leases, Leases
  <2> QED
    BY <2>1, CoordinatorTypes DEF IInv, C!Calls, Calls
<1>3. R \subseteq pendingReleases
  OBVIOUS
<1>4. ASSUME NEW l \in R
      PROVE  /\ l \in Leases /\ l.run \in Runs /\ Given(l) /\ work[l.run] = None
             /\ runs[l.run] = l /\ runs[l.run] # None /\ claims[SessionOf[l.run]] = None
  <2>1. l \in Leases /\ l.run \in Runs /\ l # None
    BY <1>2, <1>3, LeaseFields
  <2>2. Given(l) /\ work[l.run] = None /\ runs[l.run] = l
    BY <1>3, CoordinatorFacts DEF IInv, Sound, TracesSound
  <2>3. claims[SessionOf[l.run]] = None
    BY <2>1, <2>2, CoordinatorFacts, LeaseAssumption DEF IInv
  <2> QED
    BY <2>1, <2>2, <2>3
<1>5. New \subseteq Calls /\ \A c \in New : c.op = "release" /\ c.lease \in R
  BY <1>4 DEF C!ReleaseCall, Calls
<1>6. IsFiniteSet(New)
  <2>1. R \in SUBSET C!Registered
    BY <1>3, C!PendingFinite DEF IInv
  <2>2. C!IsFiniteSet(R)
    BY <2>1, C!PendingFinite DEF IInv
  <2>3. IsFiniteSet(R)
    BY <2>2, Zenon DEF C!IsFiniteSet, IsFiniteSet
  <2> DEFINE f == [l \in R |-> C!ReleaseCall(l)]
  <2>4. f \in Surjection(R, New)
    BY DEF Surjection
  <2> QED
    BY <2>3, <2>4, FS_Surjection
<1> HIDE DEF New, R, ready
<1>7. C!IsFiniteSet(New)
  BY <1>6, Zenon DEF C!IsFiniteSet, IsFiniteSet
<1>8. calls' \in Seq(Calls) /\ C!Moves(calls', calls, 0, New)
  BY <1>1, <1>2, <1>5, <1>7, C!ConcatMoves
<1>9. \A c \in New : c.op = "release" /\ Given(c.lease)'
  <2> SUFFICES ASSUME NEW c \in New PROVE c.op = "release" /\ Given(c.lease)'
    OBVIOUS
  <2>1. PICK l \in R : l = c.lease
    BY <1>5
  <2>2. Given(l)'
    BY <1>4, GivenStays
  <2> QED
    BY <1>5, <2>1, <2>2
<1>10. CallsSound' /\ OneRevocation'
  BY <1>5, <1>8, <1>9, ReleasesCalled
<1>11. Len(calls) <= Len(calls')
  <2>1. Len(calls) \in Nat
    BY <1>2
  <2> QED
    BY <1>8, <2>1 DEF C!Moves
<1>12. ASSUME NEW s \in blocked', s \notin blocked
       PROVE  claims[s] = None /\ \A q \in Runs : SessionOf[q] = s => ~Executing(q)
  <2>1. PICK l \in R : s = SessionOf[l.run]
    BY <1>1, <1>12 DEF C!Session
  <2>2. ASSUME NEW q \in Runs, SessionOf[q] = s PROVE ~Executing(q)
    <3> SUFFICES ASSUME Executing(q) PROVE FALSE
      OBVIOUS
    <3>1. work[q] # None /\ work[q].stage # "releasing"
      BY DEF Executing, Stage
    <3>2. runs[q] # None
      BY <3>1, WorkFacts
    <3>3. q = l.run
      BY <1>4, <2>1, <2>2, <3>2, OneRegistered
    <3> QED
      BY <1>4, <3>1, <3>3
  <2> QED
    BY <1>4, <2>1, <2>2
<1> QED
  BY <1>1, <1>10, <1>11, <1>12 DEF ready

\* A tool call or a command of a run ends.
LEMMA ActivityEnding ==
    ASSUME IInv, C!IInv', (\E t \in tools : EndTool(t)) \/ (\E key \in Keys : EndCommand(key))
    PROVE  Sound'
<1>1. /\ UNCHANGED << storage, ledger, job, process, fenced, kernels >>
      /\ \E ts, rs : C!SettleReleases(role, exited, ts, rs)
      /\ UNCHANGED << role, exited, defaultOf, sessions, runs, claims, revoking, interruptions,
                      stoppedRuns, fencing, fence >>
  <2>1. CASE \E t \in tools : EndTool(t)
    <3>1. PICK t \in tools : EndTool(t)
      BY <2>1
    <3>2. C!ReleaseTool(t)
      BY <3>1, ReleaseToolSame DEF EndTool
    <3> QED
      BY <3>1, <3>2 DEF EndTool, C!ReleaseTool, C!registry
  <2>2. CASE \E key \in Keys : EndCommand(key)
    <3>1. PICK k \in Keys : EndCommand(k)
      BY <2>2
    <3>2. C!ReleaseResource(k)
      BY <3>1, ReleaseResourceSame DEF EndCommand
    <3> QED
      BY <3>1, <3>2 DEF EndCommand, C!ReleaseResource, C!registry
  <2> QED
    BY <2>1, <2>2
<1>2. PICK ts, rs : C!SettleReleases(role, exited, ts, rs)
  BY <1>1
<1>3. UNCHANGED << db, replies, drops, leases, pending, interrupted, stopped, handoffs, job,
                   process, fenced, work, writes >>
  BY <1>1 DEF storage, ledger, kernels
<1>4. \A r \in Runs : Fades(r) /\ Lasts(r) /\ Remembers(r)
  BY <1>1, <1>3, DatabaseRests, RunsRest DEF Fades
<1>5. \A r \in Runs : Row(r)' = Row(r) /\ Active(r)' = Active(r)
  BY <1>3 DEF Row, Active
<1>6. PICK rl, ex : rl = role /\ ex = exited
  OBVIOUS
<1>7. C!SettleReleases(rl, ex, ts, rs)
  BY <1>2, <1>6
<1>8. /\ CallsSound' /\ OneRevocation' /\ Len(calls) <= Len(calls')
      /\ pendingReleases' \subseteq pendingReleases
      /\ \A s \in blocked' :
            \/ s \in blocked
            \/ claims[s] = None /\ \A q \in Runs : SessionOf[q] = s => ~Executing(q)
  BY <1>1, <1>3, <1>4, <1>5, <1>7, ReleasesSettle
<1>9. Typed'
  BY <1>1, <1>8, TypedRests
<1>10. TracesSound'
  BY <1>1, <1>3, <1>4, <1>8, TracesRest
<1>11. \A r \in Runs : WorkSound(r)'
  BY <1>1, <1>3, <1>4, <1>5, <1>8, WorksRest
<1> QED
  BY <1>1, <1>3, <1>4, <1>8, <1>9, <1>10, <1>11, Quiet

-----------------------------------------------------------------------------
(* Steps that forget a lease at the Host.                                   *)

\* A lease that is not registered and has lost its authority is forgotten,
\* and a fault may forget its run.
LEMMA Forgetting ==
    ASSUME IInv, Typed', NEW r \in Runs,
           UNCHANGED << role, exited, defaultOf, sessions, runs, claims, blocked, revoking,
                        interruptions, stoppedRuns, fencing, pendingReleases, fence, calls >>,
           UNCHANGED << db, replies, process, fenced, work, writes >>,
           pending[r] # "pending", runs[r] = None, ~Active(r), db.status[r] # "running",
           leases'[r] = None, pending'[r] = "none",
           \A q \in Runs \ {r} : leases'[q] = leases[q] /\ pending'[q] = pending[q],
           \A o \in Owners : /\ interrupted'[o] # None <=> interrupted[o] # None
                             /\ interrupted[o] # None =>
                                   interrupted'[o].exited = interrupted[o].exited
                             /\ InterruptedBy(o, r)' => InterruptedBy(o, r)
                             /\ \A q \in Runs \ {r} : InterruptedBy(o, q)' = InterruptedBy(o, q),
           handoffs' \subseteq handoffs,
           job' = None \/ (job' = job /\ UNCHANGED << pending, interrupted >>)
    PROVE  Sound'
<1>1. \A q \in Runs : Fades(q) /\ Lasts(q) /\ Row(q)' = Row(q) /\ Active(q)' = Active(q)
  BY DatabaseRests DEF Fades, Row, Active
<1>2. ASSUME NEW q \in Runs PROVE Remembers(q)
  BY DEF Remembers, Past, Idle
<1>3. CallsSound' /\ OneRevocation'
  BY <1>1, <1>2, CallsRest
<1>4. TracesSound'
  BY <1>1, <1>2, TracesRest
<1>5. \A q \in Runs : WorkSound(q)'
  BY <1>1, <1>2, WorksRest
<1>6. OwnersSound'
  BY OwnersStay DEF IInv, Sound
<1>7. ASSUME NEW q \in Runs PROVE HostSound(q)'
  <2>1. HostSound(q) /\ SessionOf[q] \in Sessions
    BY LeaseAssumption DEF IInv, Sound
  <2>2. CASE q = r
    BY <2>1, <2>2, HostForgets
  <2>3. CASE q # r
    <3>1. pending[q] = "pending" => claims[SessionOf[q]] # None
      BY <2>1 DEF HostSound
    <3> QED
      BY <1>1, <2>1, <2>3, <3>1, HostStays
  <2> QED
    BY <2>2, <2>3
<1>8. \A q \in Runs : Interrupted(q)' => Interrupted(q)
  BY DEF Interrupted, InterruptedBy
<1>9. ASSUME NEW s \in Sessions PROVE FrameSound(s)'
  <2>1. FrameSound(s) /\ C!IInv
    BY DEF IInv, Sound
  <2>2. ASSUME claims[s] # None
        PROVE  /\ claims[s].lease.run \in Runs \ {r} /\ s \notin blocked
               /\ Interrupted(claims[s].lease.run)' => Interrupted(claims[s].lease.run)
    <3>1. PICK q : q = claims[s].lease.run
      OBVIOUS
    <3>2. q \in Runs /\ SessionOf[q] = s
      BY <2>1, <2>2, <3>1, CoordinatorTypes, CoordinatorFacts DEF Frames, Leases
    <3>3. pending[q] = "pending"
      BY <2>2, <3>1, <3>2 DEF IInv, Sound, HostSound
    <3>4. Interrupted(claims[s].lease.run)' = Interrupted(q)'
      BY <3>1 DEF Interrupted
    <3> QED
      BY <1>8, <2>1, <2>2, <3>1, <3>2, <3>3, <3>4 DEF FrameSound
  <2> QED
    BY <2>1, <2>2, FrameStays
<1>10. OneLease'
  BY <1>8, OneStays DEF IInv, Sound
<1>11. ASSUME NEW q \in Runs PROVE FenceSound(q)'
  <2>1. FenceSound(q) /\ runs \in [Runs -> Leases \cup {None}]
    BY CoordinatorTypes DEF IInv, Sound
  <2>2. CASE q = r
    BY <1>1, <2>2 DEF FenceSound
  <2>3. CASE q # r
    <3>1. runs[q] # None => runs[q].owner \in Owners
      BY <2>1, LeaseFields
    <3>2. \A o \in Owners : InterruptedBy(o, q) => interrupted[o] # None
      BY DEF InterruptedBy
    <3> QED
      BY <1>1, <2>1, <2>3, <3>1, <3>2, FenceStays
  <2> QED
    BY <2>2, <2>3
<1>12. JobSound'
  <2>1. job # None => job.run \in Runs
    BY DEF IInv, Sound, Typed, Jobs
  <2>2. UNCHANGED interrupted => \A q : Joined(q)' = Joined(q)
    BY DEF Joined, InterruptedBy
  <2> QED
    BY <1>1, <2>1, <2>2, JobStays
<1> QED
  BY <1>3, <1>4, <1>5, <1>6, <1>7, <1>9, <1>10, <1>11, <1>12 DEF Sound

\* handoff: the Host forgets a lease whose run has been released.
LEMMA FinishingHandoff ==
    ASSUME IInv, NEW l \in handoffs, FinishHandoff(l)
    PROVE  Sound'
<1>1. /\ l \in Leases /\ Known(l) /\ db.status[l.run] = "settled" /\ ~Active(l.run)
      /\ runs[l.run] = None
  BY DEF IInv, Sound, Typed, TracesSound
<1>2. PICK r \in Runs : r = l.run
  BY <1>1, LeaseFields
<1>3. pending[r] = "none"
  BY <1>1, <1>2 DEF Known
<1>4. /\ leases' = [leases EXCEPT ![r] = None] /\ handoffs' = handoffs \ {l}
      /\ UNCHANGED << coordination, storage, pending, interrupted, stopped, job, process,
                      fenced, kernels >>
  BY <1>2 DEF FinishHandoff
<1>5. UNCHANGED << role, exited, defaultOf, sessions, runs, claims, blocked, revoking,
                   interruptions, stoppedRuns, fencing, pendingReleases, fence, calls >>
      /\ UNCHANGED << db, replies, drops, work, writes >>
  BY <1>4 DEF coordination, storage, kernels
<1>6. /\ leases' \in [Runs -> Leases \cup {None}] /\ leases'[r] = None
      /\ \A q \in Runs \ {r} : leases'[q] = leases[q]
  BY <1>4 DEF IInv, Sound, Typed
<1>7. Typed'
  BY <1>4, <1>5, <1>6 DEF IInv, Sound, Typed, FencesHaveMaximum
<1>8. \A o, q : InterruptedBy(o, q)' = InterruptedBy(o, q)
  BY <1>4 DEF InterruptedBy
<1> QED
  BY <1>1, <1>2, <1>3, <1>4, <1>5, <1>6, <1>7, <1>8, Forgetting

\* A reconciliation finishes a hand-off.
LEMMA HandingOffJob ==
    ASSUME IInv, JobHandoff
    PROVE  Sound'
<1>1. job # None /\ job.stage = "handoff"
  BY DEF JobHandoff, JobAt
<1>2. PICK r \in Runs : r = job.run /\ JobClaims(r, "handoff")
  BY <1>1, JobWas
<1>3. pending[r] = "none" /\ runs[r] = None /\ ~Active(r) /\ db.status[r] = "settled"
  BY <1>2 DEF JobClaims
<1>4. /\ leases' = [leases EXCEPT ![r] = None] /\ job' = None
      /\ UNCHANGED << coordination, storage, pending, interrupted, stopped, handoffs, process,
                      fenced, kernels >>
  BY <1>2 DEF JobHandoff
<1>5. UNCHANGED << role, exited, defaultOf, sessions, runs, claims, blocked, revoking,
                   interruptions, stoppedRuns, fencing, pendingReleases, fence, calls >>
      /\ UNCHANGED << db, replies, drops, work, writes >>
  BY <1>4 DEF coordination, storage, kernels
<1>6. /\ leases' \in [Runs -> Leases \cup {None}] /\ leases'[r] = None
      /\ \A q \in Runs \ {r} : leases'[q] = leases[q]
  BY <1>4 DEF IInv, Sound, Typed
<1>7. Typed'
  BY <1>4, <1>5, <1>6 DEF IInv, Sound, Typed, FencesHaveMaximum
<1>8. \A o, q : InterruptedBy(o, q)' = InterruptedBy(o, q)
  BY <1>4 DEF InterruptedBy
<1> QED
  BY <1>3, <1>4, <1>5, <1>6, <1>7, <1>8, Forgetting

\* The end of a reconciliation: the lease is forgotten, and so is the run by
\* the faults that interrupted it.
LEMMA CleaningJob ==
    ASSUME IInv, JobCleanup
    PROVE  Sound'
<1>1. job # None /\ job.stage = "cleanup"
  BY DEF JobCleanup, JobAt
<1>2. PICK r \in Runs : r = job.run /\ JobClaims(r, "cleanup")
  BY <1>1, JobWas
<1>3. pending[r] # "pending" /\ runs[r] = None /\ ~Active(r) /\ db.status[r] # "running"
  BY <1>2 DEF JobClaims
<1>4. /\ leases' = [leases EXCEPT ![r] = None] /\ pending' = [pending EXCEPT ![r] = "none"]
      /\ stopped' = stopped \ {r} /\ job' = None
      /\ interrupted' = IF ~job.splice THEN interrupted
                        ELSE [o \in Owners |-> IF interrupted[o] = None THEN None
                                               ELSE [interrupted[o] EXCEPT !.runs = @ \ {r}]]
      /\ UNCHANGED << coordination, storage, handoffs, process, fenced, kernels >>
  BY <1>2 DEF JobCleanup
<1>5. UNCHANGED << role, exited, defaultOf, sessions, runs, claims, blocked, revoking,
                   interruptions, stoppedRuns, fencing, pendingReleases, fence, calls >>
      /\ UNCHANGED << db, replies, drops, work, writes >>
  BY <1>4 DEF coordination, storage, kernels
<1>6. /\ leases' \in [Runs -> Leases \cup {None}] /\ leases'[r] = None
      /\ \A q \in Runs \ {r} : leases'[q] = leases[q]
      /\ pending' \in [Runs -> {"none", "pending", "failed"}] /\ pending'[r] = "none"
      /\ \A q \in Runs \ {r} : pending'[q] = pending[q]
  BY <1>4 DEF IInv, Sound, Typed
<1>7. interrupted \in [Owners -> Faults \cup {None}]
  BY DEF IInv, Sound, Typed
<1>8. ASSUME NEW o \in Owners
      PROVE  /\ interrupted'[o] \in Faults \cup {None}
             /\ interrupted'[o] # None <=> interrupted[o] # None
             /\ interrupted[o] # None =>
                   /\ interrupted'[o].exited = interrupted[o].exited
                   /\ interrupted'[o].runs \in {interrupted[o].runs, interrupted[o].runs \ {r}}
  <2>1. CASE interrupted'[o] = interrupted[o]
    BY <1>7, <2>1
  <2>2. CASE interrupted'[o] = None /\ interrupted[o] = None
    BY <2>2
  <2>3. CASE interrupted[o] # None /\ interrupted'[o] = [interrupted[o] EXCEPT !.runs = @ \ {r}]
    <3>1. PICK f \in Faults : f = interrupted[o]
      BY <1>7, <2>3
    <3>2. PICK g : g = [runs |-> f.runs \ {r}, exited |-> f.exited]
      OBVIOUS
    <3>3. g \in Faults /\ g.runs = f.runs \ {r} /\ g.exited = f.exited
      BY <3>2 DEF Faults
    <3>4. interrupted'[o] = g
      BY <2>3, <3>1, <3>2 DEF Faults
    <3> QED
      BY <2>3, <3>1, <3>3, <3>4, NoneStateAssumption
  <2> QED
    BY <1>4, <2>1, <2>2, <2>3
<1>9. interrupted' \in [Owners -> Faults \cup {None}]
  <2>1. interrupted' = [o \in Owners |-> interrupted'[o]]
    BY <1>4, <1>7
  <2> QED
    BY <1>8, <2>1
<1>10. Typed'
  BY <1>4, <1>5, <1>6, <1>9 DEF IInv, Sound, Typed, FencesHaveMaximum
<1>11. \A o \in Owners : /\ InterruptedBy(o, r)' => InterruptedBy(o, r)
                         /\ \A q \in Runs \ {r} : InterruptedBy(o, q)' = InterruptedBy(o, q)
  BY <1>8 DEF InterruptedBy
<1> QED
  BY <1>3, <1>4, <1>5, <1>6, <1>8, <1>10, <1>11, Forgetting

-----------------------------------------------------------------------------
(* Owners that come, take over and are disposed of.                         *)

\* Owners change their roles; every lease, claim, call and fault stays.
LEMMA OwnersChange ==
    ASSUME IInv, Typed', OwnersSound',
           UNCHANGED << sessions, runs, claims, blocked, interruptions, stoppedRuns, fencing,
                        pendingReleases, fence, calls >>,
           UNCHANGED << db, replies, leases, pending, handoffs, job, fenced, work, writes >>,
           \A o \in Owners : process[o] \in Up /\ role[o] \in Served =>
              process'[o] \in Up /\ role'[o] \in Served,
           \A o \in Owners : process'[o] = "none" => process[o] = "none",
           \A s \in Sessions : claims[s] # None =>
              \A c \in claims[s].captured :
                 /\ role[c] \in Served => role'[c] \in Served
                 /\ role[c] = "fenced" => role'[c] = "fenced",
           \A o \in Owners : \/ interrupted'[o] = interrupted[o]
                             \/ /\ interrupted[o] # None /\ interrupted[o].runs = {}
                                /\ interrupted'[o] = None
    PROVE  Sound'
<1>1. \A q \in Runs : Fades(q) /\ Lasts(q) /\ Row(q)' = Row(q) /\ Active(q)' = Active(q)
  BY DatabaseRests DEF Fades, Row, Active
<1>2. \A q \in Runs : Remembers(q)
  BY RunsRest
<1>3. CallsSound' /\ OneRevocation'
  BY <1>1, <1>2, CallsRest
<1>4. TracesSound'
  BY <1>1, <1>2, TracesRest
<1>5. \A q \in Runs : WorkSound(q)'
  BY <1>1, <1>2, WorksRest
<1>6. ASSUME NEW q \in Runs PROVE HostSound(q)'
  <2>1. HostSound(q) /\ SessionOf[q] \in Sessions
    BY LeaseAssumption DEF IInv, Sound
  <2>2. pending[q] = "pending" => claims[SessionOf[q]] # None
    BY <2>1 DEF HostSound
  <2> QED
    BY <1>1, <2>1, <2>2, HostStays
<1>7. \A o \in Owners : \A q : InterruptedBy(o, q)' = InterruptedBy(o, q)
  BY DEF InterruptedBy
<1>8. \A q : Interrupted(q)' = Interrupted(q)
  BY <1>7 DEF Interrupted, InterruptedBy
<1>9. ASSUME NEW s \in Sessions PROVE FrameSound(s)'
  <2>1. FrameSound(s)
    BY DEF IInv, Sound
  <2>2. PICK q : q = claims[s].lease.run
    OBVIOUS
  <2>3. Interrupted(claims[s].lease.run)' = Interrupted(q)'
    BY <2>2 DEF Interrupted
  <2>4. Interrupted(claims[s].lease.run)' => Interrupted(claims[s].lease.run)
    BY <1>8, <2>2, <2>3
  <2>5. claims[s] # None => s \notin blocked
    BY <2>1 DEF FrameSound
  <2> QED
    BY <2>1, <2>4, <2>5, FrameStays
<1>10. OneLease'
  BY <1>8, OneStays DEF IInv, Sound
<1>11. ASSUME NEW q \in Runs PROVE FenceSound(q)'
  <2>1. FenceSound(q) /\ runs \in [Runs -> Leases \cup {None}]
    BY CoordinatorTypes DEF IInv, Sound
  <2>2. runs[q] # None => runs[q].owner \in Owners
    BY <2>1, LeaseFields
  <2>3. \A o \in Owners :
           /\ interrupted[o] # None => interrupted'[o] # None \/ q \notin interrupted[o].runs
           /\ InterruptedBy(o, q) /\ interrupted[o].exited => interrupted'[o].exited
    BY DEF InterruptedBy
  <2> QED
    BY <1>1, <1>7, <2>1, <2>2, <2>3, FenceStays
<1>12. JobSound'
  <2>1. job # None => job.run \in Runs
    BY DEF IInv, Sound, Typed, Jobs
  <2>2. \A q : Joined(q) => Joined(q)'
    BY <1>7 DEF Joined, InterruptedBy
  <2> QED
    BY <1>1, <2>1, <2>2, JobStays
<1> QED
  BY <1>3, <1>4, <1>5, <1>6, <1>9, <1>10, <1>11, <1>12 DEF Sound

\* A process is started; the incarnations before it have been retired.
LEMMA Preparing ==
    ASSUME IInv, NEW o \in Owners, Prepare(o)
    PROVE  Sound'
<1>1. /\ C!Register(o) /\ process[o] = "none" /\ process' = [process EXCEPT ![o] = "alive"]
      /\ \A e \in Owners \ {o} : GenOf[e] = GenOf[o] => process[e] \in {"none", "exited"}
      /\ UNCHANGED << storage, ledger, job, fenced, kernels >>
  BY RegisterSame DEF Prepare
<1>2. /\ role[o] = "new" /\ role' = [role EXCEPT ![o] = "candidate"]
      /\ UNCHANGED << exited, defaultOf, sessions, runs, claims, blocked, revoking,
                      interruptions, stoppedRuns, fencing, pendingReleases, fence, calls >>
  BY <1>1 DEF C!Register, C!leasing, C!faults, C!port
<1>3. UNCHANGED << db, replies, drops, leases, pending, interrupted, stopped, handoffs, job,
                   fenced, work, writes >>
  BY <1>1 DEF storage, ledger, kernels
<1>4. /\ process'[o] = "alive" /\ role'[o] = "candidate"
      /\ \A e \in Owners \ {o} : process'[e] = process[e] /\ role'[e] = role[e]
      /\ process' \in [Owners -> {"none", "alive", "dead", "exited"}]
  BY <1>1, <1>2, CoordinatorTypes DEF IInv, Sound, Typed
<1>5. Typed'
  BY <1>2, <1>3, <1>4 DEF IInv, Sound, Typed, FencesHaveMaximum
<1>6. OwnersSound /\ OwnerSound(o)
  BY DEF IInv, Sound, OwnersSound
<1>7. OwnersSound'
  <2>1. OwnerSound(o)'
    BY <1>2, <1>3, <1>4, <1>6 DEF OwnerSound, Up
  <2>2. \A e \in Owners \ {o} : OwnerSound(e)'
    BY <1>2, <1>3, <1>4, <1>6 DEF OwnersSound, OwnerSound
  <2>3. \A e \in Owners \ {o} : GenOf[e] = GenOf[o] => process'[e] \notin Up
    BY <1>1, <1>4 DEF Up
  <2> QED
    BY <1>2, <1>4, <1>6, <2>1, <2>2, <2>3 DEF OwnersSound
<1>8. \A e \in Owners : role[e] \in Served \/ role[e] = "fenced" => role'[e] = role[e] /\ e # o
  BY <1>2, <1>4 DEF Served
<1>9. \A s \in Sessions : claims[s] # None => claims[s].captured \subseteq Owners
  BY CoordinatorTypes DEF IInv, Frames
<1> QED
  BY <1>1, <1>2, <1>3, <1>4, <1>5, <1>7, <1>8, <1>9, OwnersChange

\* A candidate becomes its unit's default; the default before it drains.
LEMMA TakingOver ==
    ASSUME IInv, NEW o \in Owners, Activate(o)
    PROVE  Sound'
<1>1. C!Activate(o) /\ UNCHANGED << storage, ledger, job, process, fenced, kernels >>
  BY ActivateSame DEF Activate
<1>2. PICK u \in Units : u = UnitOf[GenOf[o]]
  BY LeaseAssumption
<1>3. PICK old : old = defaultOf[u]
  OBVIOUS
<1>4. PICK e : e = IF old # None /\ role[old] = "default" THEN old ELSE o
  OBVIOUS
<1>5. /\ role[o] = "candidate" /\ defaultOf' = [defaultOf EXCEPT ![u] = o]
      /\ role' = [role EXCEPT ![o] = "default",
                              ![e] = IF old # None /\ role[old] = "default" THEN "draining" ELSE "default"]
      /\ UNCHANGED << exited, sessions, runs, claims, blocked, revoking,
                      interruptions, stoppedRuns, fencing, pendingReleases, fence, calls >>
  BY <1>1, <1>2, <1>3, <1>4 DEF C!Activate, C!leasing, C!faults, C!port
<1>6. UNCHANGED << db, replies, drops, leases, pending, interrupted, stopped, handoffs, job,
                   process, fenced, work, writes >>
  BY <1>1 DEF storage, ledger, kernels
<1>7. OwnersSound /\ role \in [Owners -> C!Roles] /\ e \in Owners
      /\ (e # o => role[e] = "default")
  BY <1>2, <1>3, <1>4, CoordinatorTypes DEF IInv, Sound, OwnersSound
<1>8. /\ role'[o] = "default"
      /\ e # o => role'[e] = "draining"
      /\ \A i \in Owners \ {o, e} : role'[i] = role[i]
  BY <1>4, <1>5, <1>7
<1>9. defaultOf'[u] = o /\ \A w \in Units \ {u} : defaultOf'[w] = defaultOf[w]
  <2>1. defaultOf \in [Units -> Owners \cup {None}]
    BY DEF IInv, C!IInv, C!TypeOK
  <2> QED
    BY <1>5, <2>1
<1>10. Typed'
  <2>1. Len(calls') = Len(calls) /\ Len(replies') <= Len(calls')
    BY <1>5, <1>6 DEF IInv, Sound, Typed
  <2> QED
    BY <1>6, <2>1 DEF IInv, Sound, Typed, FencesHaveMaximum
<1>11. OwnersSound'
  <2>1. OwnerSound(o)'
    BY <1>5, <1>6, <1>7, <1>8 DEF OwnersSound, OwnerSound
  <2>2. e # o => OwnerSound(e)'
    BY <1>5, <1>6, <1>7, <1>8 DEF OwnersSound, OwnerSound
  <2>3. \A i \in Owners \ {o, e} : OwnerSound(i)'
    BY <1>5, <1>6, <1>7, <1>8 DEF OwnersSound, OwnerSound
  <2> QED
    BY <1>2, <1>6, <1>7, <1>9, <2>1, <2>2, <2>3 DEF OwnersSound
<1>12. \A i \in Owners : /\ role[i] \in Served => role'[i] \in Served
                         /\ role[i] = "fenced" => role'[i] = "fenced"
  BY <1>5, <1>7, <1>8 DEF Served
<1>13. \A s \in Sessions : claims[s] # None => claims[s].captured \subseteq Owners
  BY CoordinatorTypes DEF IInv, Frames
<1> QED
  BY <1>5, <1>6, <1>10, <1>11, <1>12, <1>13, OwnersChange

\* An exited owner that nothing is bound to is forgotten.
LEMMA DisposingOwner ==
    ASSUME IInv, NEW o \in Owners, Dispose(o)
    PROVE  Sound'
<1>1. /\ C!DisposeOwner(o)
      /\ interrupted[o] # None /\ interrupted[o].runs = {}
      /\ interrupted' = [interrupted EXCEPT ![o] = None]
      /\ UNCHANGED << storage, leases, pending, stopped, handoffs, job, process, fenced, kernels >>
  BY DisposeSame DEF Dispose
<1>2. /\ o \in exited /\ C!Unreferenced(o)
      /\ role' = [role EXCEPT ![o] = "forgotten"]
      /\ exited' = exited \ {o} /\ revoking' = revoking \ {o}
      /\ defaultOf' = [u \in Units |-> IF defaultOf[u] = o THEN None ELSE defaultOf[u]]
      /\ UNCHANGED << sessions, runs, claims, blocked,
                      interruptions, stoppedRuns, fencing, pendingReleases, fence, calls >>
  BY <1>1 DEF C!DisposeOwner, C!leasing, C!port
<1>3. UNCHANGED << db, replies, drops, leases, pending, stopped, handoffs, job,
                   process, fenced, work, writes >>
  BY <1>1 DEF storage, kernels
<1>4. OwnersSound /\ OwnerSound(o) /\ role \in [Owners -> C!Roles]
  BY CoordinatorTypes DEF IInv, Sound, OwnersSound
<1>5. role[o] = "fenced" /\ process[o] = "exited" /\ fenced[o] = "done"
  BY <1>2, <1>4 DEF OwnerSound
<1>6. /\ role'[o] = "forgotten" /\ \A e \in Owners \ {o} : role'[e] = role[e]
      /\ interrupted' \in [Owners -> Faults \cup {None}] /\ interrupted'[o] = None
      /\ \A e \in Owners \ {o} : interrupted'[e] = interrupted[e]
  BY <1>1, <1>2, <1>4 DEF IInv, Sound, Typed
<1>7. Typed'
  <2>1. Len(calls') = Len(calls) /\ Len(replies') <= Len(calls')
    BY <1>2, <1>3 DEF IInv, Sound, Typed
  <2> QED
    BY <1>3, <1>6, <2>1 DEF IInv, Sound, Typed, FencesHaveMaximum
<1>8. OwnersSound'
  <2>1. OwnerSound(o)'
    BY <1>2, <1>3, <1>5, <1>6 DEF OwnerSound, Served
  <2>2. \A e \in Owners \ {o} : OwnerSound(e)'
    BY <1>2, <1>3, <1>4, <1>6 DEF OwnersSound, OwnerSound
  <2>3. \A u \in Units : defaultOf'[u] # None => defaultOf'[u] = defaultOf[u]
    BY <1>2
  <2> QED
    BY <1>3, <1>4, <2>1, <2>2, <2>3 DEF OwnersSound
<1>9. \A e \in Owners : process[e] \in Up => e # o /\ role'[e] = role[e]
  BY <1>5, <1>6 DEF Up
<1>10. ASSUME NEW s \in Sessions, claims[s] # None, NEW c \in claims[s].captured
       PROVE  role'[c] = role[c]
  <2>1. c \in Owners
    BY <1>10, CoordinatorTypes DEF IInv, Frames
  <2>2. GenOf[c] \in claims[s].lease.versions
    BY <1>10 DEF IInv, Sound, FrameSound
  <2>3. GenOf[o] \notin claims[s].lease.versions
    BY <1>2, <1>10 DEF C!Unreferenced, C!Bound
  <2> QED
    BY <1>6, <2>1, <2>2, <2>3
<1> QED
  BY <1>1, <1>2, <1>3, <1>6, <1>7, <1>8, <1>9, <1>10, OwnersChange

-----------------------------------------------------------------------------
(* Steps that open a session's gate for its reconciliation.                 *)

\* reconciled: the session's lease, if it has one, is of a run that a joined
\* fault has interrupted and that has no authority and no executor left.
LEMMA SessionOpens ==
    ASSUME IInv, NEW s \in Sessions, C!Reconciled(s), Typed', JobSound',
           UNCHANGED << db, replies, leases, pending, interrupted, handoffs, process, fenced,
                        work, writes >>,
           \A r \in Runs : runs[r] # None /\ SessionOf[r] = s => ~Active(r) /\ Joined(r)
    PROVE  Sound'
<1>1. /\ C!Reconcilable(s) /\ blocked' = blocked \ {s}
      /\ IF sessions[s] = None THEN UNCHANGED << sessions, runs, interruptions, stoppedRuns >>
         ELSE LET r == sessions[s].run IN
              /\ runs' = [runs EXCEPT ![r] = None]
              /\ interruptions' = [interruptions EXCEPT ![r] = {}]
              /\ stoppedRuns' = stoppedRuns \ {r}
      /\ UNCHANGED << role, exited, defaultOf, claims, revoking, fencing, pendingReleases,
                      fence, calls >>
  BY DEF C!Reconciled, C!registry, C!port
<1>2. /\ runs \in [Runs -> Leases \cup {None}] /\ interruptions \in [Runs -> SUBSET Owners]
      /\ \A r \in Runs : runs[r] # None =>
            runs[r] \in Leases /\ runs[r].run = r /\ sessions[SessionOf[r]] = runs[r]
      /\ sessions[s] # None =>
            /\ sessions[s] \in Leases /\ sessions[s].run \in Runs
            /\ SessionOf[sessions[s].run] = s /\ runs[sessions[s].run] = sessions[s]
  BY CoordinatorTypes, CoordinatorFacts, LeaseFields DEF IInv
<1>3. ASSUME NEW q \in Runs, SessionOf[q] = s, runs[q] # None
      PROVE  /\ work[q] = None /\ runs'[q] = None /\ ~Active(q) /\ Joined(q)
  <2>1. sessions[s] = runs[q] /\ sessions[s] # None /\ sessions[s].run = q
    BY <1>2, <1>3
  <2>2. runs[q].owner \in exited \/ q \in stoppedRuns
    BY <1>1, <2>1 DEF C!Reconcilable
  <2>3. ASSUME work[q] # None, runs[q].owner \in exited PROVE FALSE
    <3>1. process[work[q].lease.owner] \in Up /\ Row(q).lease = work[q].lease
      BY <2>3, WorkFacts
    <3>2. Row(q).lease = runs[q]
      BY <1>3 DEF IInv, Sound, HostSound
    <3>3. runs[q].owner \in Owners
      BY <1>2, <1>3, LeaseFields
    <3>4. process[runs[q].owner] = "exited"
      BY <2>3, <3>3 DEF IInv, Sound, OwnersSound, OwnerSound
    <3> QED
      BY <3>1, <3>2, <3>4 DEF Up
  <2>4. q \in stoppedRuns => work[q] = None
    BY DEF IInv, Sound, TracesSound
  <2> QED
    BY <1>1, <1>2, <1>3, <2>1, <2>2, <2>3, <2>4
<1>4. ASSUME NEW q \in Runs, ~(SessionOf[q] = s /\ runs[q] # None)
      PROVE  /\ runs'[q] = runs[q] /\ interruptions'[q] = interruptions[q]
             /\ q \in stoppedRuns' <=> q \in stoppedRuns
  BY <1>1, <1>2, <1>4
<1>5. \A q \in Runs : Fades(q) /\ Lasts(q) /\ Row(q)' = Row(q) /\ Active(q)' = Active(q)
  BY DatabaseRests DEF Fades, Row, Active
<1>6. ASSUME NEW q \in Runs PROVE Remembers(q)
  <2>1. Idle(q)' = Idle(q) /\ pending'[q] = pending[q] /\ work'[q] = work[q]
    BY DEF Idle
  <2>2. runs'[q] # None => runs[q] # None /\ interruptions'[q] = interruptions[q]
    BY <1>3, <1>4
  <2> QED
    BY <2>1, <2>2 DEF Remembers, Past
<1>7. CallsSound' /\ OneRevocation'
  BY <1>1, <1>5, <1>6, CallsRest
<1>8. TracesSound'
  <2>1. /\ fencing \in [Owners -> SUBSET Leases] /\ pendingReleases \subseteq Leases
        /\ stoppedRuns \subseteq Runs /\ handoffs \subseteq Leases /\ writes \subseteq Leases
    BY CoordinatorTypes DEF IInv, Sound, Typed
  <2>2. /\ pendingReleases' \ pendingReleases = {} /\ writes' \ writes = {}
        /\ stoppedRuns' \ stoppedRuns = {} /\ handoffs' \ handoffs = {}
        /\ \A o \in Owners : fencing'[o] \ fencing[o] = {}
        /\ stoppedRuns' \subseteq stoppedRuns
    BY <1>1
  <2> QED
    BY <1>1, <1>5, <1>6, <2>1, <2>2, TracesStay
<1>9. ASSUME NEW q \in Runs PROVE WorkSound(q)'
  <2>1. WorkSound(q)
    BY DEF IInv, Sound
  <2>2. CASE SessionOf[q] = s /\ runs[q] # None
    <3>1. work'[q] = None
      BY <1>3, <2>2
    <3> QED
      BY <3>1 DEF WorkSound
  <2>3. CASE ~(SessionOf[q] = s /\ runs[q] # None)
    <3>1. /\ runs'[q] = runs[q] /\ interruptions'[q] = interruptions[q]
      BY <1>4, <2>3
    <3>2. work[q] # None =>
             process[work[q].lease.owner] \in Up /\ role[work[q].lease.owner] \in Served
      BY <2>1 DEF WorkSound
    <3>3. Active(q)' = Active(q) /\ Lasts(q) /\ Remembers(q)
      BY <1>5, <1>6
    <3> QED
      BY <1>1, <2>1, <3>1, <3>2, <3>3, WorkStays
  <2> QED
    BY <2>2, <2>3
<1>10. OwnersSound'
  BY <1>1, OwnersStay DEF IInv, Sound
<1>11. ASSUME NEW q \in Runs PROVE HostSound(q)'
  <2>1. HostSound(q)
    BY DEF IInv, Sound
  <2>2. pending[q] = "pending" => claims[SessionOf[q]] # None
    BY <2>1 DEF HostSound
  <2>3. runs'[q] \in {runs[q], None}
    BY <1>3, <1>4
  <2> QED
    BY <1>1, <1>5, <2>1, <2>2, <2>3, HostStays
<1>12. \A q : Interrupted(q)' = Interrupted(q)
  BY DEF Interrupted
<1>13. ASSUME NEW t \in Sessions PROVE FrameSound(t)'
  <2>1. FrameSound(t)
    BY DEF IInv, Sound
  <2>2. claims[t] # None => t \notin blocked'
    BY <1>1, <2>1 DEF FrameSound
  <2>3. Interrupted(claims[t].lease.run)' = Interrupted(claims[t].lease.run)
    BY <1>1 DEF Interrupted
  <2> QED
    BY <1>1, <2>1, <2>2, <2>3, FrameStays
<1>14. OneLease'
  BY <1>12, OneStays DEF IInv, Sound
<1>15. ASSUME NEW q \in Runs PROVE FenceSound(q)'
  <2>1. FenceSound(q)
    BY DEF IInv, Sound
  <2>2. \A o : InterruptedBy(o, q)' = InterruptedBy(o, q)
    BY DEF InterruptedBy
  <2>3. CASE SessionOf[q] = s /\ runs[q] # None
    <3>1. runs'[q] = None /\ ~Active(q)' /\ Joined(q)'
      <4>1. runs'[q] = None /\ ~Active(q) /\ Joined(q)
        BY <1>3, <2>3
      <4> QED
        BY <1>5, <4>1 DEF Joined, InterruptedBy
    <3> QED
      BY <3>1 DEF FenceSound
  <2>4. CASE ~(SessionOf[q] = s /\ runs[q] # None)
    <3>1. /\ runs'[q] = runs[q] /\ interruptions'[q] = interruptions[q]
      BY <1>4, <2>4
    <3>2. runs[q] # None => runs[q].owner \in Owners
      BY <1>2, LeaseFields
    <3> QED
      BY <1>1, <1>5, <2>1, <2>2, <3>1, <3>2, FenceStays DEF InterruptedBy
  <2> QED
    BY <2>3, <2>4
<1> QED
  BY <1>7, <1>8, <1>9, <1>10, <1>11, <1>13, <1>14, <1>15 DEF Sound

\* The run of a failed claim has no lease registered beside it.
LEMMA ClaimLeavesSession ==
    ASSUME IInv, NEW r \in Runs, pending[r] = "failed", NEW q \in Runs,
           SessionOf[q] = SessionOf[r]
    PROVE  runs[q] = None
<1>1. leases[r] # None /\ runs[r] = None
  BY DEF IInv, Sound, HostSound
<1>2. q # r => leases[q] = None
  BY <1>1 DEF IInv, Sound, OneLease
<1>3. runs[q] # None => leases[q] = runs[q]
  BY DEF IInv, Sound, HostSound
<1> QED
  BY <1>1, <1>2, <1>3

\* A joined fault has taken the authority of a run it interrupted.
LEMMA JoinedIsFenced ==
    ASSUME IInv, NEW o \in Owners, NEW r \in Runs, InterruptedBy(o, r), interrupted[o].exited,
           pending[r] = "none"
    PROVE  ~Active(r) /\ Joined(r)
<1>1. OwnerSound(o) /\ interrupted[o] # None
  BY DEF IInv, Sound, OwnersSound, InterruptedBy
<1>2. fenced[o] = "done"
  BY <1>1 DEF OwnerSound
<1> QED
  BY <1>2 DEF IInv, Sound, FenceSound, Joined

\* The reconciliation of an interrupted run starts.
LEMMA StartingInterrupted ==
    ASSUME IInv, C!IInv', NEW o \in Owners, NEW r \in Runs, StartInterrupted(o, r)
    PROVE  Sound'
<1> DEFINE stage == IF pending[r] = "failed" THEN "read" ELSE "recover"
<1>1. /\ ExecutionReady /\ Recoverable(o, r) /\ C!Reconciled(SessionOf[r])
      /\ job' = JobFor(r, stage, TRUE)
      /\ UNCHANGED << storage, ledger, process, fenced, kernels >>
  BY ReconciledSame, LeaseAssumption DEF StartInterrupted, Ready
<1>2. /\ InterruptedBy(o, r) /\ interrupted[o].exited /\ pending[r] \in {"none", "failed"}
      /\ SessionOf[r] \in Sessions
  BY <1>1, LeaseAssumption DEF Recoverable, InterruptedBy, IInv, Sound, Typed
<1>3. UNCHANGED << db, replies, drops, leases, pending, interrupted, stopped, handoffs,
                   process, fenced, work, writes, calls >>
  BY <1>1 DEF storage, ledger, kernels, C!Reconciled, C!port
<1>4. stage \in JobStages /\ TRUE \in BOOLEAN
  BY DEF JobStages
<1>5. job' \in Jobs /\ job' # None /\ job'.run = r /\ job'.stage = stage
  BY <1>1, <1>4, JobStarts
<1>6. pending[r] = "none" => ~Active(r) /\ Joined(r)
  BY <1>2, JoinedIsFenced
<1>7. ASSUME NEW q \in Runs, runs[q] # None, SessionOf[q] = SessionOf[r]
      PROVE  q = r /\ pending[r] = "none"
  <2>1. leases[q] # None /\ Interrupted(r)
    BY <1>2, <1>7 DEF IInv, Sound, HostSound, Interrupted, InterruptedBy
  <2>2. q = r
    BY <1>7, <2>1 DEF IInv, Sound, OneLease
  <2> QED
    BY <1>2, <1>7, <2>2 DEF IInv, Sound, HostSound
<1>8. \A q \in Runs : runs[q] # None /\ SessionOf[q] = SessionOf[r] => ~Active(q) /\ Joined(q)
  BY <1>6, <1>7
<1>9. Typed'
  <2>1. Len(calls') = Len(calls) /\ Len(replies') <= Len(calls')
    BY <1>3 DEF IInv, Sound, Typed
  <2> QED
    BY <1>3, <1>5, <2>1 DEF IInv, Sound, Typed, FencesHaveMaximum
<1>10. JobSound'
  <2>1. pending[r] = "none" => runs'[r] = None
    <3>1. CASE runs[r] = None
      <4>1. runs'[r] = None
        BY <1>1, <3>1, CoordinatorTypes DEF C!Reconciled, IInv
      <4> QED
        BY <4>1
    <3>2. CASE runs[r] # None
      <4>1. sessions[SessionOf[r]] = runs[r] /\ runs[r].run = r
        BY <3>2, CoordinatorFacts DEF IInv
      <4> QED
        BY <1>1, <3>2, <4>1, CoordinatorTypes DEF C!Reconciled, IInv
    <3> QED
      BY <3>1, <3>2
  <2>2. ~Active(r)' = ~Active(r) /\ Joined(r)' = Joined(r)
    BY <1>3 DEF Active, Row, Joined, InterruptedBy
  <2>3. CASE pending[r] = "failed"
    <3>1. JobClaims(r, "read")'
      BY <1>3, <2>3 DEF JobClaims
    <3> QED
      BY <1>5, <2>3, <3>1, JobIs
  <2>4. CASE pending[r] = "none"
    <3>1. JobClaims(r, "recover")'
      BY <1>3, <1>6, <2>1, <2>2, <2>4 DEF JobClaims
    <3> QED
      BY <1>5, <2>4, <3>1, JobIs
  <2> QED
    BY <1>2, <2>3, <2>4
<1> QED
  BY <1>1, <1>2, <1>3, <1>8, <1>9, <1>10, SessionOpens

\* The session of a failed claim opens, or the transition fails.
LEMMA FreeingJob ==
    ASSUME IInv, C!IInv', JobFree
    PROVE  Sound'
<1>1. /\ job # None /\ job.stage = "free"
      /\ UNCHANGED << storage, ledger, process, fenced, kernels >>
  BY DEF JobFree, JobAt
<1>2. PICK r \in Runs : r = job.run /\ JobClaims(r, "free")
  BY <1>1, JobWas
<1>3. pending[r] = "failed" /\ ~Active(r) /\ SessionOf[r] \in Sessions
  BY <1>2, LeaseAssumption DEF JobClaims
<1>4. UNCHANGED << db, replies, drops, leases, pending, interrupted, stopped, handoffs,
                   process, fenced, work, writes >>
  BY <1>1 DEF storage, ledger, kernels
<1>5. \A q \in Runs : SessionOf[q] = SessionOf[r] => runs[q] = None
  BY <1>3, ClaimLeavesSession
<1>6. CASE job' = None /\ UNCHANGED coordination
  <2>1. Typed'
    BY <1>4, <1>6 DEF IInv, Sound, Typed, FencesHaveMaximum, coordination
  <2> QED
    BY <1>4, <1>6, <2>1, Plain DEF coordination
<1>7. CASE Coordinator!Reconciled(SessionOf[r]) /\ Becomes("recover")
  <2>1. C!Reconciled(SessionOf[r])
    BY <1>3, <1>7, ReconciledSame
  <2>2. job' \in Jobs /\ job' # None /\ job'.run = r /\ job'.stage = "recover"
    BY <1>1, <1>2, <1>7, JobAdvances DEF JobStages
  <2>3. runs'[r] = None /\ UNCHANGED calls
    <3>1. sessions[SessionOf[r]] = None
      BY <1>3, <1>5, CoordinatorTypes, CoordinatorFacts DEF IInv, Leases
    <3> QED
      BY <1>5, <2>1, <3>1 DEF C!Reconciled, C!port
  <2>4. JobClaims(r, "recover")'
    BY <1>3, <1>4, <2>3 DEF JobClaims, Active, Row
  <2>5. JobSound'
    BY <2>2, <2>4, JobIs
  <2>6. Typed'
    <3>1. Len(calls') = Len(calls) /\ Len(replies') <= Len(calls')
      BY <1>4, <2>3 DEF IInv, Sound, Typed
    <3> QED
      BY <1>4, <2>2, <3>1 DEF IInv, Sound, Typed, FencesHaveMaximum
  <2> QED
    BY <1>3, <1>4, <1>5, <2>1, <2>5, <2>6, SessionOpens
<1> QED
  BY <1>2, <1>6, <1>7 DEF JobFree
=============================================================================
