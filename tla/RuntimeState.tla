---------------------------- MODULE RuntimeState ----------------------------
(***************************************************************************)
(* packages/storage/src/runtime-state.ts: the durable execution authority,  *)
(* checked inside the database transaction that starts, releases or revokes *)
(* a run.  A transaction is an operator from the database to the database   *)
(* and the reply, so that ExecutionHandoff can run it at the far end of the *)
(* storage port.                                                            *)
(***************************************************************************)
EXTENDS ExecutionLease, SequencesExt

CONSTANTS
    Drafts,        \* the drafts this Host and its predecessors submit
    MaxFence       \* bound of the fences a run of the checker reaches

ASSUME DraftsAssumption ==
    /\ Drafts \subseteq Leases
    /\ \A a, b \in Drafts : a.id = b.id => a = b
    /\ MaxFence \in Nat \ {0}

VARIABLE db

RowStates == {"active", "released", "revoked"}
Rows      == [lease : Leases, state : RowStates]
Statuses  == {"queued", "running", "settled"}
Events    == [type : {"claimed", "released", "revoked"}, lease : Leases]

ASSUME NoneRowAssumption == None \notin Rows

\* rows     runtime_execution_ownership, at most one row per run
\* status   runs.status; waiting_approval is "running", every end is "settled"
\* archived sessions that are archived
\* floor    the highest fence among the rows of runs outside the model
\* journal  the execution.* events of the session logs, in commit order
Databases ==
    [rows     : [Runs -> Rows \cup {None}],
     status   : [Runs -> Statuses],
     archived : SUBSET Sessions,
     floor    : Nat,
     journal  : Seq(Events)]

EmptyDatabase(floor) ==
    [rows     |-> [r \in Runs |-> None],
     status   |-> [r \in Runs |-> "queued"],
     archived |-> {},
     floor    |-> floor,
     journal  |-> << >>]

Ok(d)           == [db |-> d, reply |-> [kind |-> "ok", lease |-> None]]
Refused(d)      == [db |-> d, reply |-> [kind |-> "refused", lease |-> None]]
Null(d)         == [db |-> d, reply |-> [kind |-> "null", lease |-> None]]
Granted(d, l)   == [db |-> d, reply |-> [kind |-> "lease", lease |-> l]]

-----------------------------------------------------------------------------
ActiveRow(d, r) == d.rows[r] # None /\ d.rows[r].state = "active"

\* Mutant of Project: the row moves, the journal does not follow.
ProjectUnlogged(d, r, lease, state, type) ==
    [d EXCEPT !.rows[r] = [lease |-> lease, state |-> state]]

\* projectOwnership and the journal record of the same transaction.
Project(d, r, lease, state, type) ==
    [d EXCEPT !.rows[r] = [lease |-> lease, state |-> state],
              !.journal = Append(@, [type |-> type, lease |-> lease])]

SameSession(r) == {q \in Runs : SessionOf[q] = SessionOf[r]}

\* Mutant of Claimable: the query for another active row is missing.
ClaimableBesideOwner(d, r) ==
    /\ d.status[r] = "queued"
    /\ SessionOf[r] \notin d.archived
    /\ \A q \in SameSession(r) : d.status[q] # "running"

Claimable(d, r) ==
    /\ d.status[r] = "queued"
    /\ SessionOf[r] \notin d.archived
    /\ \A q \in SameSession(r) : d.status[q] # "running" /\ ~ActiveRow(d, q)

Fences(d)   == {d.floor} \cup {d.rows[r].lease.fence : r \in {q \in Runs : d.rows[q] # None}}

\* Mutant of Raise: the draft's own fence is kept.
RaiseNothing(d, draft) == draft

\* Math.max(maximum + 1, draft.fence)
Raise(d, draft) ==
    LET above == Max(Fences(d)) + 1
    IN  IF above > draft.fence THEN [draft EXCEPT !.fence = above] ELSE draft

\* claim: a replay of the draft gets its own active row back.
ClaimIn(d, draft) ==
    LET r == draft.run IN
    IF d.rows[r] # None
    THEN IF ActiveRow(d, r) /\ d.rows[r].lease.id = draft.id
         THEN IF d.rows[r].lease.owner = draft.owner /\ d.rows[r].lease.versions = draft.versions
              THEN Granted(d, d.rows[r].lease)
              ELSE Refused(d)
         ELSE Null(d)
    ELSE IF ~Claimable(d, r) THEN Null(d)
    ELSE LET lease == Raise(d, draft)
         IN  Granted(Project([d EXCEPT !.status[r] = "running"], r, lease, "active", "claimed"),
                     lease)

SameLease(d, lease) ==
    /\ d.rows[lease.run] # None
    /\ d.rows[lease.run].lease.id = lease.id
    /\ d.rows[lease.run].lease.fence = lease.fence

\* Mutants of ReleaseIn: a revoked row is released after all; a run that has
\* not settled gives up its row.
ReleaseRevoked(d, lease) ==
    IF ~SameLease(d, lease) THEN Refused(d)
    ELSE IF d.status[lease.run] # "settled" THEN Refused(d)
    ELSE Ok(Project(d, lease.run, lease, "released", "released"))
ReleaseUnsettled(d, lease) ==
    IF ~SameLease(d, lease) THEN Refused(d)
    ELSE IF ~ActiveRow(d, lease.run) THEN Ok(d)
    ELSE Ok(Project(d, lease.run, lease, "released", "released"))

ReleaseIn(d, lease) ==
    IF ~SameLease(d, lease) THEN Refused(d)
    ELSE IF ~ActiveRow(d, lease.run) THEN Ok(d)
    ELSE IF d.status[lease.run] # "settled" THEN Refused(d)
    ELSE Ok(Project(d, lease.run, lease, "released", "released"))

\* The failed owner must hold the lease or be one of its dependencies.
MayRevoke(owner, lease) == lease.owner = owner \/ GenOf[owner] \in Dependencies(lease)

\* revoke: every active row of the batch, or none of them.
RevokeIn(d, owner, batch) ==
    LET active == {r \in batch : ActiveRow(d, r)}
        order  == SetToSeq(active)
    IN  IF \E r \in active : ~MayRevoke(owner, d.rows[r].lease) THEN Refused(d)
        ELSE Ok([d EXCEPT
                   !.rows    = [r \in Runs |-> IF r \in active
                                               THEN [lease |-> @[r].lease, state |-> "revoked"]
                                               ELSE @[r]],
                   !.journal = @ \o [i \in DOMAIN order |->
                                       [type |-> "revoked", lease |-> d.rows[order[i]].lease]]])

\* Mutant of SettleIn: the state of the authority is not looked at.
SettleUnderAnyRow(d, lease) ==
    IF SameLease(d, lease) THEN Ok([d EXCEPT !.status[lease.run] = "settled"]) ELSE Refused(d)

\* assert, then setRun to an ended status, in the transaction of the write.
SettleIn(d, lease) ==
    IF /\ SameLease(d, lease)
       /\ d.rows[lease.run].lease.owner = lease.owner
       /\ ActiveRow(d, lease.run)
    THEN Ok([d EXCEPT !.status[lease.run] = "settled"])
    ELSE Refused(d)

\* recover, scoped to one run: the authority must have been revoked first.
RecoverIn(d, r) ==
    IF d.status[r] = "running" /\ ActiveRow(d, r) THEN Refused(d)
    ELSE IF d.status[r] = "running" THEN Ok([d EXCEPT !.status[r] = "settled"])
    ELSE Ok(d)

-----------------------------------------------------------------------------
(* The transactions, one at a time, from any caller.                        *)

\* The leases a caller can hold: what it drafted and what it was granted.
KnownLeases == Drafts \cup {db.rows[r].lease : r \in {q \in Runs : db.rows[q] # None}}

Init == \E floor \in 0..1 : db = EmptyDatabase(floor)

Commit(outcome) == outcome.db # db /\ db' = outcome.db

Claim(draft) ==
    /\ Max(Fences(db)) < MaxFence
    /\ Commit(ClaimIn(db, draft))

Release(lease)       == Commit(ReleaseIn(db, lease))
Revoke(owner, batch) == Commit(RevokeIn(db, owner, batch))
Settle(lease)        == Commit(SettleIn(db, lease))
Recover(r)           == Commit(RecoverIn(db, r))

\* requestCancel of a queued run ends it at once.
Cancel(r) ==
    /\ db.status[r] = "queued"
    /\ db' = [db EXCEPT !.status[r] = "settled"]

Archive(s) ==
    /\ s \notin db.archived
    /\ db' = [db EXCEPT !.archived = @ \cup {s}]

Next ==
    \/ \E draft \in Drafts : Claim(draft)
    \/ \E lease \in KnownLeases : Release(lease) \/ Settle(lease)
    \/ \E owner \in Owners, batch \in SUBSET Runs : Revoke(owner, batch)
    \/ \E r \in Runs : Recover(r) \/ Cancel(r)
    \/ \E s \in Sessions : Archive(s)

Spec == Init /\ [][Next]_db

-----------------------------------------------------------------------------
(* Properties.                                                              *)

\* Types of the tables.
TypeOK == db \in Databases

\* At most one run of a session holds durable authority, and no other run of
\* that session is running meanwhile.
OneOwnerPerSession ==
    \A r, q \in Runs :
        ActiveRow(db, r) /\ SessionOf[q] = SessionOf[r] /\ q # r =>
            ~ActiveRow(db, q) /\ db.status[q] # "running"

\* A released row belongs to a run that has ended.
ReleasedAfterSettling ==
    \A r \in Runs :
        db.rows[r] # None /\ db.rows[r].state = "released" => db.status[r] = "settled"

\* A row keeps its lease for ever, and an authority that was released or
\* revoked stays as it ended: no replayed claim, late release or second
\* revocation moves it again.
AuthorityIsFinal ==
    [][\A r \in Runs : db.rows[r] # None =>
          /\ db'.rows[r] # None
          /\ db'.rows[r].lease = db.rows[r].lease
          /\ db.rows[r].state # "active" => db'.rows[r] = db.rows[r]]_db

\* Every new row carries a fence above all the fences granted before it, also
\* when a restarted Host drafts from a counter that began again.
FencesRise ==
    [][\A r \in Runs :
          db.rows[r] = None /\ db'.rows[r] # None =>
              \A f \in Fences(db) : f < db'.rows[r].lease.fence]_db

\* restore: what one journal event does to the projection.
Restore(rows, event) ==
    [rows EXCEPT ![event.lease.run] =
        [lease |-> event.lease,
         state |-> IF event.type = "claimed" THEN "active" ELSE event.type]]

\* Replaying the session logs rebuilds the ownership table exactly, so a lost
\* projection neither loses nor resurrects an authority.
JournalRebuildsRows ==
    FoldLeft(Restore, [r \in Runs |-> None], db.journal) = db.rows
=============================================================================
