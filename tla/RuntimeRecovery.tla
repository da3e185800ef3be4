-------------------------- MODULE RuntimeRecovery --------------------------
(***************************************************************************)
(* packages/storage/src/runtime-state.ts, the continuation of interrupted   *)
(* runs: plan, hold, queue, cancel and the journal they leave, for the runs *)
(* of one session.  A transaction is an operator from the database to the   *)
(* database and the record it answers with (None: it throws).  Several      *)
(* Kernels call them in RecoveryAdmission.                                  *)
(***************************************************************************)
EXTENDS Integers, FiniteSets

CONSTANTS
    Runs,            \* identities of runs
    Originals,       \* the runs a user submitted; the others can continue them
    Requests,        \* manual continuations that users ask for
    AuthorOf,        \* actor and input of a request
    AutomaticLimit,  \* 2 in the code
    TotalLimit,      \* 32 in the code
    None

ASSUME RecoveryAssumption ==
    /\ IsFiniteSet(Runs) /\ Originals \subseteq Runs
    /\ None \notin Runs \cup Requests
    /\ AutomaticLimit \in Nat /\ TotalLimit \in Nat

VARIABLE db

Statuses == {"absent", "queued", "running", "interrupted", "settled"}
Reasons  == {"ARCHIVED", "USER_CANCELLED", "APPROVAL_PENDING", "EFFECT_UNKNOWN", "REFUSED",
             "RECOVERY_TOTAL_LIMIT", "RECOVERY_LIMIT", "BACKEND_AUTOMATION_DISABLED"}

Relations == [from : Runs, root : Runs, attempt : Nat, automatic : Nat, manual : Requests \cup {None}]
Chains    == [root : Runs, current : Runs, attempts : Nat, automatic : Nat,
              status : {"pending", "waiting", "manual_required", "running"},
              reason : Reasons \cup {None}]
Records   == [chain : Chains, manual : Requests \cup {None}, run : Runs \cup {None}]

Projections ==
    [records  : [Runs -> Records \cup {None}],
     chains   : [Runs -> Chains \cup {None}],
     relation : [Runs -> Relations \cup {None}]]

ASSUME NoneAssumption == None \notin Relations \cup Chains \cup Records \cup Reasons

\* table      runtime_recovery by predecessor, runtime_recovery_chains by root,
\*            runs.recovery
\* logged     the same tables as a replay of the session log rebuilds them
\* status     runs.status; waiting_approval is "running"
\* owned      runs with an active row of authority
\* unknown    runs whose failure is "result_unknown"
\* cancelled  runs with a run.cancelRequested event
\* asking     runs with a pending approval
\* finished   runs with a run.driverCompleted event
\* archived, unattended  the session, and the setting for automatic continuation
Databases ==
    [table : Projections, logged : Projections, status : [Runs -> Statuses],
     owned : SUBSET Runs, unknown : SUBSET Runs, cancelled : SUBSET Runs,
     asking : SUBSET Runs, finished : SUBSET Runs,
     archived : BOOLEAN, unattended : BOOLEAN]

Nothing == [r \in Runs |-> None]
Unplanned == [records |-> Nothing, chains |-> Nothing, relation |-> Nothing]

InitialDatabase ==
    [table |-> Unplanned, logged |-> Unplanned,
     status |-> [r \in Runs |-> IF r \in Originals THEN "queued" ELSE "absent"],
     owned |-> {}, unknown |-> {}, cancelled |-> {}, asking |-> {}, finished |-> {},
     archived |-> FALSE, unattended |-> TRUE]

Answer(d, record) == [db |-> d, record |-> record]
Refuse(d)         == Answer(d, None)

Record(d, r)   == d.table.records[r]
Relation(d, r) == d.table.relation[r]

-----------------------------------------------------------------------------
(* What a lineage is.                                                       *)

\* The chain of a run is named after the first run of its lineage.
RootOf(d, r) == IF Relation(d, r) = None THEN r ELSE Relation(d, r).root
ChainOf(d, r) == d.table.chains[RootOf(d, r)]

\* Each run of rs with the runs it continues.
WithPredecessors(d, rs) == \A r \in rs : Relation(d, r) # None => Relation(d, r).from \in rs

\* r and the runs it continues, directly or not.  The walk of the code, which is
\* cut off after TotalLimit steps, ends with them: no lineage is longer.
Predecessors(d, r) ==
    {p \in Runs : \A rs \in SUBSET Runs : r \in rs /\ WithPredecessors(d, rs) => p \in rs}

\* driverCompletionCommitted: the receipt of the run or of one it continues.
CompletionCommitted(d, r) == Predecessors(d, r) \cap d.finished # {}

\* reason: what forbids a continuation now, in the order of the code.  Every
\* interrupted run failed as "interrupted" or as "result_unknown".
Reason(d, r) ==
    CASE d.archived         -> "ARCHIVED"
      [] ~d.archived /\ r \in d.cancelled -> "USER_CANCELLED"
      [] ~d.archived /\ r \notin d.cancelled /\ r \in d.asking -> "APPROVAL_PENDING"
      [] ~d.archived /\ r \notin d.cancelled \cup d.asking /\ r \in d.unknown -> "EFFECT_UNKNOWN"
      [] OTHER -> None

-----------------------------------------------------------------------------
(* Projections and the log.                                                 *)

\* projectRecovery, and the row of the run that continues, if it is new.
Project(t, r, record, relation) ==
    [records  |-> [t.records EXCEPT ![r] = record],
     chains   |-> [t.chains EXCEPT ![record.chain.root] = record.chain],
     relation |-> IF record.run = None \/ t.relation[record.run] # None THEN t.relation
                  ELSE [t.relation EXCEPT ![record.run] = relation]]

\* publish: run.recoveryPlanned carries the record that is projected.
Publish(d, r, record) ==
    Answer([d EXCEPT !.table  = Project(@, r, record, None),
                     !.logged = Project(@, r, record, None)], record)

\* Mutant of QueuedEvent: the event leaves the manual request out.
QueuedEventAnonymous(record) == [record EXCEPT !.manual = None]

\* run.recoveryQueued: what the event of queue carries of the record.
QueuedEvent(record) == record

\* restore replays it: the same projections from the event's own fields.
Log(d, r, record, relation) ==
    [d EXCEPT !.logged = Project(@, r, QueuedEvent(record), relation)]

-----------------------------------------------------------------------------
(* Transactions.                                                            *)

PlanStatus(reason) ==
    CASE reason = None -> "pending"
      [] reason \in {"APPROVAL_PENDING", "EFFECT_UNKNOWN"} -> "waiting"
      [] OTHER -> "manual_required"

\* planRecovery: one record per predecessor, whoever asks and however often.
Plan(d, r) ==
    IF Record(d, r) # None THEN Answer(d, Record(d, r))
    ELSE IF r \in d.owned \/ d.status[r] # "interrupted" THEN Refuse(d)
    ELSE LET relation  == Relation(d, r)
             attempts  == IF relation = None THEN 0 ELSE relation.attempt
             automatic == IF relation = None THEN 0 ELSE relation.automatic
             reason    == CASE attempts >= TotalLimit -> "RECOVERY_TOTAL_LIMIT"
                            [] attempts < TotalLimit /\ automatic >= AutomaticLimit -> "RECOVERY_LIMIT"
                            [] OTHER -> Reason(d, r)
         IN  Publish(d, r,
               [chain  |-> [root |-> RootOf(d, r), current |-> r, attempts |-> attempts,
                            automatic |-> automatic, status |-> PlanStatus(reason), reason |-> reason],
                manual |-> None, run |-> None])

\* Only a chain that is out of automatic attempts still takes a manual one.
Closed(record) ==
    record.chain.status = "manual_required" /\ record.chain.reason # "RECOVERY_LIMIT"

\* What hold leaves as it finds it.
Kept(d, r, record, q, code) ==
    \/ record.run # None
    \/ q # None /\ (record.chain.attempts >= TotalLimit \/ Closed(record))
    \/ q = None /\ record.chain.status = "manual_required"
    \/ /\ q = None
       /\ record.chain.reason = code
       /\ record.chain.status = (IF code = None THEN "pending" ELSE "waiting")

Conflicting(record, q) ==
    /\ q # None /\ record.run = None
    /\ record.manual # None /\ AuthorOf[record.manual] # AuthorOf[q]

\* holdRecovery(reason, manual): q is the manual request or None.
Hold(d, r, reason, q) ==
    LET record == Record(d, r)
        code   == IF Reason(d, r) # None THEN Reason(d, r) ELSE reason
    IN  IF record = None \/ Conflicting(record, q) THEN Refuse(d)
        ELSE IF Kept(d, r, record, q, code) THEN Answer(d, record)
        ELSE Publish(d, r, [record EXCEPT !.manual = IF q = None THEN @ ELSE q,
                                          !.chain = [@ EXCEPT
                             !.status = IF code = None THEN "pending" ELSE "waiting",
                             !.reason = code]])

\* reconcileRecovery: whether the accounts of the predecessor may be settled.
Reconcilable(d, r) ==
    /\ Record(d, r) # None /\ Record(d, r).run = None
    /\ d.status[r] = "interrupted" /\ Reason(d, r) = None

\* Mutant of Withheld: what admission looked at before is not looked at again.
WithheldUnchecked(d, r, record) == None

\* Why queue does not continue now: it reads again what admission has read.
Withheld(d, r, record) ==
    IF Reason(d, r) # None THEN Reason(d, r)
    ELSE IF record.manual = None /\ ~d.unattended /\ ~CompletionCommitted(d, r)
    THEN "BACKEND_AUTOMATION_DISABLED"
    ELSE None

Spent(record) ==
    \/ record.manual = None /\ record.chain.automatic >= AutomaticLimit
    \/ record.chain.attempts >= TotalLimit

\* Mutant of Successor: a manual continuation gives the automatic attempts back.
SuccessorReset(record, r) ==
    [from |-> r, root |-> record.chain.root, attempt |-> record.chain.attempts + 1,
     automatic |-> IF record.manual = None THEN record.chain.automatic + 1 ELSE 0,
     manual |-> record.manual]

Successor(record, r) ==
    [from |-> r, root |-> record.chain.root, attempt |-> record.chain.attempts + 1,
     automatic |-> record.chain.automatic + (IF record.manual = None THEN 1 ELSE 0),
     manual |-> record.manual]

\* queueRecovery answers without a new run.
Answered(record) == record.run # None \/ record.chain.status # "pending"

\* queueRecovery: s is the identity that the new run gets.
Queue(d, r, s) ==
    LET record   == Record(d, r)
        relation == Successor(record, r)
        reason   == Withheld(d, r, record)
        queued   == [record EXCEPT !.run = s,
                                   !.chain = [@ EXCEPT !.attempts = relation.attempt,
                                                       !.automatic = relation.automatic,
                                                       !.status = "running", !.current = s]]
    IN  IF record = None THEN Refuse(d)
        ELSE IF Answered(record) THEN Answer(d, record)
        ELSE IF reason # None
        THEN Publish(d, r, [record EXCEPT !.chain = [@ EXCEPT
               !.status = IF reason \in {"APPROVAL_PENDING", "EFFECT_UNKNOWN",
                                         "BACKEND_AUTOMATION_DISABLED"}
                          THEN "waiting" ELSE "manual_required",
               !.reason = reason]])
        ELSE IF Spent(record) THEN Refuse(d)
        ELSE Answer(Log([d EXCEPT !.table  = Project(@, r, queued, relation),
                                  !.status[s] = "queued"], r, queued, relation), queued)

\* cancelRecovery: the run, the first run of its chain and the current one.
CancelTargets(d, r) ==
    {r} \cup (IF ChainOf(d, r) = None THEN {} ELSE {ChainOf(d, r).root, ChainOf(d, r).current})

\* requestCancel of each: a queued run ends, a run that has not ended is marked.
Cancel(d, r) ==
    LET ids == CancelTargets(d, r)
    IN  [d EXCEPT !.status = [q \in Runs |-> IF q \in ids /\ @[q] = "queued" THEN "settled" ELSE @[q]],
                  !.cancelled = @ \cup {q \in ids : d.status[q] \in {"running", "interrupted"}}]

\* recover for one run: its authority must have ended; effects says whether a
\* tool had started whose result nobody knows.
Recover(d, r, effects) ==
    IF d.status[r] # "running" \/ r \in d.owned THEN d
    ELSE [d EXCEPT !.status[r] = "interrupted",
                   !.unknown = IF effects THEN @ \cup {r} ELSE @]

\* The claim of a queued run, which gives it the authority of its session.
Claimable(d, r) ==
    /\ d.status[r] = "queued" /\ ~d.archived /\ d.owned = {}
    /\ \A q \in Runs : d.status[q] # "running"
Claim(d, r) == [d EXCEPT !.status[r] = "running", !.owned = @ \cup {r}]

-----------------------------------------------------------------------------
(* Properties.                                                              *)

\* Types of the tables.
TypeOK == db \in Databases

Lineage(root) == {r \in Runs : Relation(db, r) # None /\ Relation(db, r).root = root}

\* The row of a chain names the run its lineage has reached, and counts every
\* continuation of it and the automatic ones: cancellation, run.retry and the
\* limits look at that row only, never at the lineage.
ChainNamesItsTail ==
    \A root \in Runs : LET chain == db.table.chains[root] IN
        chain # None =>
            /\ chain.current \in Lineage(root) \cup {root}
            /\ \A r \in Lineage(root) : Relation(db, r).from # chain.current
            /\ chain.attempts = Cardinality(Lineage(root))
            /\ chain.automatic = Cardinality({r \in Lineage(root) : Relation(db, r).manual = None})

\* Replaying the session log rebuilds the records, the chains and the relations
\* of the runs as they are, so nothing is planned or queued again after it.
LogRebuildsRecovery == db.logged = db.table
=============================================================================
