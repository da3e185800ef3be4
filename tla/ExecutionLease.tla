--------------------------- MODULE ExecutionLease ---------------------------
(***************************************************************************)
(* The vocabulary of execution ownership (packages/contracts/src/runtime.ts).*)
(* An owner is one incarnation of a runtime process.  It runs a generation  *)
(* of a unit; a unit that is restarted keeps its generation and gets a new  *)
(* incarnation.  A lease (ExecutionOwnership) names the run, the kernel     *)
(* incarnation that executes it and the generations the run is bound to.    *)
(*                                                                          *)
(* The session of a run never changes, so it is a function of the run.  A   *)
(* generation has one artifact, so a version is its generation.             *)
(***************************************************************************)
EXTENDS Integers, FiniteSets

CONSTANTS
    Sessions,      \* session identifiers
    Runs,          \* run identifiers
    SessionOf,     \* [Runs -> Sessions]
    Owners,        \* runtime incarnations
    Generations,   \* generations of all the units
    Units,         \* unit identifiers
    GenOf,         \* [Owners -> Generations], the generation of an incarnation
    UnitOf,        \* [Generations -> Units]
    KindOf,        \* [Units -> {"kernel", "storage", "driver"}]
    None           \* null

ASSUME LeaseAssumption ==
    /\ IsFiniteSet(Runs) /\ IsFiniteSet(Owners)
    /\ SessionOf \in [Runs -> Sessions]
    /\ GenOf \in [Owners -> Generations]
    /\ UnitOf \in [Generations -> Units]
    /\ KindOf \in [Units -> {"kernel", "storage", "driver"}]

\* A fence is also what tells two leases of one Host apart; across Hosts the
\* identifier does.
Leases ==
    [id       : Nat \ {0},
     run      : Runs,
     owner    : Owners,
     versions : SUBSET Generations,
     fence    : Nat \ {0}]

ASSUME NoneAssumption ==
    None \notin Leases \cup Owners \cup Runs \cup Sessions

Session(lease) == SessionOf[lease.run]
Kind(o)        == KindOf[UnitOf[GenOf[o]]]
Kernels        == {o \in Owners : Kind(o) = "kernel"}

\* versions(...).some(...): the run is bound to the generation o runs.
Bound(o, lease) == GenOf[o] \in lease.versions

\* The driver, plugin and hook versions of a lease.
Dependencies(lease) == {g \in lease.versions : KindOf[UnitOf[g]] # "kernel"}
=============================================================================
