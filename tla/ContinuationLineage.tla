------------------------ MODULE ContinuationLineage ------------------------
(***************************************************************************)
(* What the continuation of interrupted runs promises (docs/                *)
(* runtime-recovery.md), without records, chains, calls or Kernels.  A run  *)
(* that was interrupted is never resumed; one new run continues it, which   *)
(* may be interrupted and continued in turn.  RecoveryAdmission implements  *)
(* this.                                                                    *)
(***************************************************************************)
EXTENDS Integers, FiniteSets

CONSTANTS Runs, Originals, AutomaticLimit, TotalLimit, None

VARIABLES
    life,       \* status of the runs
    from,       \* the run that a run continues
    origin,     \* the first run of its lineage
    automatic,  \* continuations that no user asked for
    stopped,    \* original runs whose lineage a user cancelled
    blocked,    \* runs that may not be continued now
    permitted   \* runs that may be continued now without a user

vars == << life, from, origin, automatic, stopped, blocked, permitted >>

\* The continuations of the lineage of r.
Continuations(r) == {q \in Runs : from[q] # None /\ origin[q] = origin[r]}

Init ==
    /\ life = [r \in Runs |-> IF r \in Originals THEN "queued" ELSE "absent"]
    /\ from = [r \in Runs |-> None]
    /\ origin = [r \in Runs |-> r]
    /\ automatic = {} /\ stopped = {}
    /\ blocked = {}
    /\ permitted = Runs

\* A new run continues p.  Nobody continues p twice, or a lineage that a user has
\* cancelled; users and the system together do it at most TotalLimit times, the
\* system alone AutomaticLimit times.
Continue(p, s) ==
    /\ life[p] = "interrupted" /\ life[s] = "absent"
    /\ \A r \in Runs : from[r] # p
    /\ origin[p] \notin stopped
    /\ p \notin blocked
    /\ Cardinality(Continuations(p)) < TotalLimit
    /\ life' = [life EXCEPT ![s] = "queued"]
    /\ from' = [from EXCEPT ![s] = p]
    /\ origin' = [origin EXCEPT ![s] = origin[p]]
    /\ \/ UNCHANGED automatic
       \/ /\ p \in permitted
          /\ Cardinality(Continuations(p) \cap automatic) < AutomaticLimit
          /\ automatic' = automatic \cup {s}
    /\ permitted' = permitted \cup (IF p \in permitted THEN {s} ELSE {})
    /\ UNCHANGED << stopped, blocked >>

\* A run of a lineage that is cancelled never starts.
Begin(r) ==
    /\ life[r] = "queued" /\ origin[r] \notin stopped
    /\ life' = [life EXCEPT ![r] = "running"]
    /\ UNCHANGED << from, origin, automatic, stopped, blocked, permitted >>

\* The end of a run, or its interruption, perhaps with effects nobody knows.
End(r) ==
    /\ life[r] = "running"
    /\ life' \in {[life EXCEPT ![r] = "settled"], [life EXCEPT ![r] = "interrupted"]}
    /\ blocked' \in {blocked, blocked \cup {r}}
    /\ UNCHANGED << from, origin, automatic, stopped, permitted >>

\* A user cancels the lineage of r, whose queued run ends.
Cancel(r) ==
    /\ stopped' = stopped \cup ({origin[r]} \ {q \in Runs : life[q] \in {"queued", "settled"}})
    /\ life' = [q \in Runs |-> IF life[q] = "queued" /\ origin[q] = origin[r] THEN "settled" ELSE life[q]]
    /\ UNCHANGED << from, origin, automatic, blocked, permitted >>

\* Approvals, the archive and the setting for automatic continuation.
Control ==
    /\ blocked' \in SUBSET Runs /\ permitted' \in SUBSET Runs
    /\ UNCHANGED << life, from, origin, automatic, stopped >>

Next ==
    \/ Control
    \/ \E r \in Runs : Begin(r) \/ End(r) \/ Cancel(r)
    \/ \E p, s \in Runs : Continue(p, s)

Spec == Init /\ [][Next]_vars
=============================================================================
