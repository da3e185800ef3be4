------------------------- MODULE RecoveryAdmission -------------------------
(***************************************************************************)
(* packages/kernel/src/runtime-recovery.ts (RuntimeRecoveryService): how    *)
(* Kernels continue the interrupted runs of a session.  An entry carries a  *)
(* predecessor through plan, hold, reconciliation, check and queue, one     *)
(* storage call at a time; what happens in between is anybody's step:       *)
(* another Kernel (a hot reload), a user who cancels, archives or asks for  *)
(* the continuation himself (run.retry), the run that was just queued.      *)
(*                                                                          *)
(* The transactions are those of RuntimeRecovery.  A reply may be lost, and *)
(* a Kernel may die, while a call is in the storage worker: it is applied   *)
(* later, or never.                                                         *)
(***************************************************************************)
EXTENDS RuntimeRecovery

CONSTANTS
    Kernels,   \* Kernel processes that serve the session, one after another or at once
    Approvals, Completions, \* bounds: the runs that may ask for an approval, or
                            \* commit the receipt of a driver
    Settings,  \* bound: the combinations of archived and unattended
    Losable,   \* bound: the calls whose reply may be lost
    MaxBusy    \* bound: admissions, requests on their way to one and calls that
               \* nobody waits for, at once

VARIABLES
    pending,   \* the entries of every Kernel, by predecessor
    asks,      \* the commands run.retry under way, by request
    late       \* calls whose caller is gone

vars == << db, pending, asks, late >>

Entries == [stage : {"plan", "hold", "check", "queue", "refuse"},
            pass : Requests \cup {None}, manual : Requests \cup {None}]
Asks    == [at : Kernels, run : Runs, stage : {"asking", "waiting"}]
Calls   == [stage : {"plan", "hold", "queue", "refuse"}, run : Runs, pass : Requests \cup {None}]

ASSUME AdmissionAssumption ==
    /\ None \notin Entries \cup Asks
    /\ Settings \subseteq [archived : BOOLEAN, unattended : BOOLEAN]
    /\ Losable \subseteq {"plan", "hold", "queue", "refuse"}

Init ==
    /\ db = InitialDatabase
    /\ pending = [k \in Kernels |-> Nothing]
    /\ asks = [q \in Requests |-> None]
    /\ late = {}

-----------------------------------------------------------------------------
(* One admission.                                                           *)

\* An entry begins with the request that opened it, or with none.
Entry(q) == [stage |-> "plan", pass |-> q, manual |-> q]

\* A new run has an identity that no run had before.
Fresh(d) == CHOOSE s \in Runs : d.status[s] = "absent"

Execute(d, call) ==
    CASE call.stage = "plan"   -> Plan(d, call.run)
      [] call.stage = "hold"   -> Hold(d, call.run, None, call.pass)
      [] call.stage = "refuse" -> Hold(d, call.run, "REFUSED", call.pass)
      [] call.stage = "queue"  -> Queue(d, call.run, Fresh(d))

CallOf(r, entry) == [stage |-> entry.stage, run |-> r, pass |-> entry.pass]

\* The bound on Runs is not felt.
Supplied(call) == call.stage = "queue" => \E s \in Runs : db.status[s] = "absent"

\* admit: whether the pass ends with the record that a call answered with.
PassEnds(entry, record) ==
    CASE entry.stage = "plan" ->
           \/ record.run # None
           \/ /\ record.chain.status = "manual_required"
              /\ entry.pass = None \/ record.chain.reason # "RECOVERY_LIMIT"
      [] entry.stage = "hold" -> record.chain.status # "pending"
      [] OTHER -> TRUE

\* Mutant of Rechecked: a manual request that joined late is not looked at.
RecheckedNever(entry, record) == FALSE

\* admitPending: a manual request that joined a pass without one is tried once.
Rechecked(entry, record) == record.run = None /\ entry.pass = None /\ entry.manual # None

Waiting(k, r) == {q \in Requests : asks[q] = [at |-> k, run |-> r, stage |-> "waiting"]}

\* The record that the next call of the entry answers all its callers with, or
\* None: the call throws, or the entry goes on after it.
Reply(k, r) ==
    LET entry  == pending[k][r]
        record == Execute(db, CallOf(r, entry)).record
    IN  IF record = None \/ ~PassEnds(entry, record) \/ Rechecked(entry, record) THEN None ELSE record

\* The entry goes away, and its callers get its record or its error.
Settle(k, r) ==
    /\ pending' = [pending EXCEPT ![k][r] = None]
    /\ asks' = [q \in Requests |-> IF q \in Waiting(k, r) THEN None ELSE asks[q]]

\* A storage call of the entry: its transaction and its reply.
Call(k, r) ==
    LET entry  == pending[k][r]
        answer == Execute(db, CallOf(r, entry))
        Goto(next) == pending' = [pending EXCEPT ![k][r] = next] /\ UNCHANGED asks
    IN  /\ entry # None /\ entry.stage # "check"
        /\ Supplied(CallOf(r, entry))
        /\ db' = answer.db
        /\ UNCHANGED late
        /\ CASE answer.record = None \/ Reply(k, r) # None -> Settle(k, r)
             [] answer.record # None /\ ~PassEnds(entry, answer.record) ->
                  Goto([entry EXCEPT !.stage = IF @ = "plan" THEN "hold" ELSE "check"])
             [] OTHER -> Goto(Entry(entry.manual))

\* reconcile and check: the accounts of the predecessor, the archive, the
\* cancellation, and whatever else admission looks at (model, permissions,
\* sandbox, mode, budget, goal), which may refuse or fail.
Check(k, r) ==
    LET entry == pending[k][r]
    IN  /\ entry # None /\ entry.stage = "check"
        /\ \E stage \in {"refuse"} \cup (IF Reconcilable(db, r) THEN {"queue"} ELSE {}) :
             pending' = [pending EXCEPT ![k][r].stage = stage]
        /\ UNCHANGED << db, asks, late >>

\* The storage port fails the call: it may still be applied.
LoseReply(k, r) ==
    /\ pending[k][r] # None /\ pending[k][r].stage \in Losable
    /\ late' = late \cup {CallOf(r, pending[k][r])}
    /\ Settle(k, r)
    /\ UNCHANGED db

ApplyLate(call) ==
    /\ call \in late /\ Supplied(call)
    /\ db' = Execute(db, call).db
    /\ late' = late \ {call}
    /\ UNCHANGED << pending, asks >>

DropLate(call) ==
    /\ call \in late
    /\ late' = late \ {call}
    /\ UNCHANGED << db, pending, asks >>

\* A Kernel dies with its entries; one of its calls may be in the worker.
Crash(k) ==
    /\ pending[k] # Nothing
    /\ pending' = [pending EXCEPT ![k] = Nothing]
    /\ asks' = [q \in Requests |-> IF asks[q] # None /\ asks[q].at = k THEN None ELSE asks[q]]
    /\ \/ UNCHANGED late
       \/ \E r \in Runs :
            /\ pending[k][r] # None /\ pending[k][r].stage \in Losable
                    /\ late' = late \cup {CallOf(r, pending[k][r])}
    /\ UNCHANGED db

-----------------------------------------------------------------------------
(* Who starts an admission.                                                 *)

Room ==
    Cardinality({x \in Kernels \X Runs : pending[x[1]][x[2]] # None})
      + Cardinality({q \in Requests : asks[q] # None /\ asks[q].stage = "asking"})
      + Cardinality(late) < MaxBusy

\* kernel.recover: the Host has fenced the run and its executor has stopped.
Notify(r, effects) ==
    /\ db.status[r] = "running" /\ r \notin db.owned
    /\ db' = Recover(db, r, effects)
    /\ UNCHANGED << pending, asks, late >>

\* resume, of a run that is interrupted: after kernel.recover, or because the
\* discovery found its record waiting for automatic continuation.
Resume(k, r) ==
    /\ db.status[r] = "interrupted"
    /\ pending[k][r] = None /\ Room
    /\ pending' = [pending EXCEPT ![k][r] = Entry(None)]
    /\ UNCHANGED << db, asks, late >>

\* run.retry of r: no continuation has this request yet, and the run to continue
\* is the one that the chain of r names now.
Ask(k, q, r) ==
    /\ asks[q] = None /\ Room
    /\ db.status[r] # "absent"
    /\ \A p \in Runs : Record(db, p) # None /\ Record(db, p).manual = q => Record(db, p).run = None
    /\ asks' = [asks EXCEPT ![q] = [at |-> k, stage |-> "asking",
                                    run |-> IF ChainOf(db, r) = None THEN r ELSE ChainOf(db, r).current]]
    /\ UNCHANGED << db, pending, late >>

\* resumeManual: a new entry, or the entry that exists, unless that has another
\* manual request.  A run that is not interrupted, or whose effects are unknown,
\* is not continued.
Join(q) ==
    LET ask == asks[q]
        entry == pending[ask.at][ask.run]
        Enter(e) ==
            /\ pending' = [pending EXCEPT ![ask.at][ask.run] = e]
            /\ asks' = [asks EXCEPT ![q].stage = "waiting"]
    IN  /\ ask # None /\ ask.stage = "asking"
        /\ \/ /\ db.status[ask.run] = "interrupted" /\ ask.run \notin db.unknown
              /\ \/ entry = None /\ Enter(Entry(q))
                 \/ entry # None /\ entry.manual \in {None, q} /\ Enter([entry EXCEPT !.manual = q])
           \/ /\ \/ db.status[ask.run] # "interrupted" \/ ask.run \in db.unknown
                 \/ entry # None /\ entry.manual \notin {None, q}
              /\ asks' = [asks EXCEPT ![q] = None]
              /\ UNCHANGED pending
        /\ UNCHANGED << db, late >>

-----------------------------------------------------------------------------
(* The other steps of the session, each a transaction.                      *)

Store(d) == db' = d /\ UNCHANGED << pending, asks, late >>

ClaimRun(r) == Claimable(db, r) /\ Store(Claim(db, r))

\* The executor ends its run, or interrupts it when it is told to stop.
EndRun(r) ==
    /\ db.status[r] = "running" /\ r \in db.owned
    /\ \E d \in {[db EXCEPT !.status[r] = "settled"], [db EXCEPT !.status[r] = "interrupted"]} : Store(d)

\* A release needs the end of the run; a revocation does not.
Unown(r) ==
    /\ r \in db.owned
    /\ Store([db EXCEPT !.owned = @ \ {r}])

\* run.driverCompleted, before the run has ended.
Complete(r) ==
    /\ r \in Completions
    /\ db.status[r] = "running" /\ r \in db.owned \ db.finished
    /\ Store([db EXCEPT !.finished = @ \cup {r}])

\* An approval outlives its run (preserveApprovals).
AskApproval(r) ==
    /\ r \in Approvals
    /\ db.status[r] = "running" /\ r \in db.owned \ db.asking
    /\ Store([db EXCEPT !.asking = @ \cup {r}])
DecideApproval(r) ==
    /\ r \in db.asking
    /\ Store([db EXCEPT !.asking = @ \ {r}])

CancelRun(r) ==
    /\ db.status[r] # "absent"
    /\ Store(Cancel(db, r))

Change(setting) == Store([db EXCEPT !.archived = setting.archived, !.unattended = setting.unattended])

Next ==
    \/ \E k \in Kernels, r \in Runs :
         Call(k, r) \/ Check(k, r) \/ LoseReply(k, r) \/ Resume(k, r)
    \/ \E k \in Kernels : Crash(k)
    \/ \E call \in late : ApplyLate(call) \/ DropLate(call)
    \/ \E r \in Runs, effects \in BOOLEAN : Notify(r, effects)
    \/ \E k \in Kernels, q \in Requests, r \in Runs : Ask(k, q, r)
    \/ \E q \in Requests : Join(q)
    \/ \E r \in Runs : ClaimRun(r) \/ EndRun(r) \/ Unown(r) \/ Complete(r) \/ CancelRun(r)
    \/ \E r \in Runs : AskApproval(r) \/ DecideApproval(r)
    \/ \E setting \in Settings : Change(setting)

Spec == Init /\ [][Next]_vars

-----------------------------------------------------------------------------
(* Properties.                                                              *)

\* Entries, commands and calls have their types beside the database.
AdmissionTypeOK ==
    /\ TypeOK
    /\ pending \in [Kernels -> [Runs -> Entries \cup {None}]]
    /\ asks \in [Requests -> Asks \cup {None}]
    /\ late \subseteq Calls

\* A manual continuation that joined an admission already under way is never
\* lost: when its admission ends, the predecessor has a successor, or its record
\* keeps a manual request for whoever resumes it, or it takes none any more.
JoinedRequestsAreTried ==
    \A k \in Kernels, r \in Runs :
        LET record == Reply(k, r)
        IN  Waiting(k, r) # {} /\ pending[k][r].stage # "check" /\ Supplied(CallOf(r, pending[k][r]))
              /\ record # None
            => record.run # None \/ record.manual # None \/ Closed(record)

\* Whatever the Kernels, the users and the storage port do, continuations only
\* extend lineages the way ContinuationLineage allows.
Lineages == INSTANCE ContinuationLineage WITH
    life      <- db.status,
    from      <- [r \in Runs |-> IF Relation(db, r) = None THEN None ELSE Relation(db, r).from],
    origin    <- [r \in Runs |-> RootOf(db, r)],
    automatic <- {r \in Runs : Relation(db, r) # None /\ Relation(db, r).manual = None},
    stopped   <- db.cancelled \cap Originals,
    blocked   <- {r \in Runs : db.archived \/ r \in db.asking \cup db.unknown},
    permitted <- {r \in Runs : db.unattended \/ CompletionCommitted(db, r)}

ImplementsLineage == Lineages!Spec
=============================================================================
