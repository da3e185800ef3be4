------------------------- MODULE RuntimeStateProofs -------------------------
(***************************************************************************)
(* Proofs about RuntimeState, for every set of sessions, finite set of runs *)
(* and set of drafts.                                                       *)
(*                                                                          *)
(* A transaction changes the tables in one of four ways, stated first; most *)
(* invariants and the action properties follow from the four and never look *)
(* at the transactions again.  For the journal, the invariant says which    *)
(* event left each row (Logged); that a replay computes just those rows is  *)
(* shown by induction over the prefixes of the journal (ReplayIsLogged).    *)
(***************************************************************************)
EXTENDS RuntimeState, FiniteSetTheorems, SequenceTheorems, TLAPS

\* A queued run is started and its row written.
Starts(r, lease) ==
    /\ db.rows[r] = None
    /\ Claimable(db, r)
    /\ db'.rows = [db.rows EXCEPT ![r] = [lease |-> lease, state |-> "active"]]
    /\ db'.status = [db.status EXCEPT ![r] = "running"]

\* The row of a settled run is released.
GivesUp(r) ==
    /\ ActiveRow(db, r)
    /\ db.status[r] = "settled"
    /\ db'.rows = [db.rows EXCEPT ![r] = [lease |-> db.rows[r].lease, state |-> "released"]]
    /\ db'.status = db.status

\* A set of active rows is revoked.
LoseAuthority(active) ==
    /\ \A r \in active : ActiveRow(db, r)
    /\ db'.rows = [r \in Runs |-> IF r \in active
                                  THEN [lease |-> db.rows[r].lease, state |-> "revoked"]
                                  ELSE db.rows[r]]
    /\ db'.status = db.status

\* A run ends, or nothing in the two tables changes.
Ends == /\ db'.rows = db.rows
        /\ \/ db'.status = db.status
           \/ \E r \in Runs : db'.status = [db.status EXCEPT ![r] = "settled"]

\* Two leases that differ in their fence only.
SameDraft(a, b) == a.id = b.id /\ a.run = b.run /\ a.owner = b.owner /\ a.versions = b.versions

\* A row was written for a draft; only its fence was chosen by the database.
RowsFromDrafts ==
    \A r \in Runs : db.rows[r] # None =>
        /\ db.rows[r].lease.run = r
        /\ \E draft \in Drafts : SameDraft(db.rows[r].lease, draft)

\* The fences have a greatest element, so the query for it is defined.
FencesHaveMaximum == \E m \in Fences(db) : \A f \in Fences(db) : f <= m

Tables == TypeOK /\ RowsFromDrafts /\ FencesHaveMaximum

-----------------------------------------------------------------------------
\* The fields of a lease.
LEMMA LeaseFields ==
    ASSUME NEW a \in Leases
    PROVE  /\ a.id \in Nat \ {0} /\ a.run \in Runs /\ a.owner \in Owners
           /\ a.versions \in SUBSET Generations /\ a.fence \in Nat \ {0}
           /\ a = [id |-> a.id, run |-> a.run, owner |-> a.owner,
                   versions |-> a.versions, fence |-> a.fence]
BY DEF Leases

\* Leases of one draft differ in their fence only.
LEMMA LeasesEqual ==
    ASSUME NEW a \in Leases, NEW b \in Leases, SameDraft(a, b), a.fence = b.fence
    PROVE  a = b
BY LeaseFields DEF SameDraft

\* The fields of a row.
LEMMA RowFields ==
    ASSUME TypeOK, NEW r \in Runs, db.rows[r] # None
    PROVE  db.rows[r] \in Rows /\ db.rows[r].lease \in Leases /\ db.rows[r].state \in RowStates
BY DEF TypeOK, Databases, Rows

\* Every lease a caller can present is one of the type, and the row of its run
\* holds it exactly when identifier and fence agree.
LEMMA KnownLeaseOfRow ==
    ASSUME Tables, NEW lease \in KnownLeases, SameLease(db, lease)
    PROVE  /\ lease \in Leases
           /\ db.rows[lease.run].lease = lease
<1>1. lease \in Leases
  BY DraftsAssumption, RowFields DEF KnownLeases, Tables
<1> DEFINE row == db.rows[lease.run]
<1>2. row # None /\ row.lease.id = lease.id /\ row.lease.fence = lease.fence
  BY DEF SameLease
<1>3. lease.run \in Runs
  BY <1>1, LeaseFields
<1>4. row.lease \in Leases
  BY <1>2, <1>3, RowFields DEF Tables
<1>5. PICK draft \in Drafts : SameDraft(row.lease, draft)
  BY <1>2, <1>3 DEF Tables, RowsFromDrafts
<1>6. CASE lease \in Drafts
  <2>1. lease = draft
    BY <1>2, <1>5, <1>6, DraftsAssumption DEF SameDraft
  <2> QED
    BY <1>1, <1>2, <1>4, <1>5, <2>1, LeasesEqual
<1>7. CASE \E q \in Runs : db.rows[q] # None /\ lease = db.rows[q].lease
  BY <1>1, <1>2, <1>7 DEF Tables, RowsFromDrafts
<1> QED
  BY <1>1, <1>6, <1>7 DEF KnownLeases

\* Fences are numbers.
LEMMA FencesAreNaturals ==
    ASSUME TypeOK
    PROVE  Fences(db) \subseteq Nat
<1>1. db.floor \in Nat
  BY DEF TypeOK, Databases
<1>2. \A r \in Runs : db.rows[r] # None => db.rows[r].lease.fence \in Nat
  BY RowFields, LeaseFields
<1> QED
  BY <1>1, <1>2 DEF Fences

\* Math.max(maximum + 1, draft.fence): the draft, fenced above every row.
LEMMA RaiseFacts ==
    ASSUME Tables, NEW draft \in Drafts
    PROVE  /\ Raise(db, draft) \in Leases
           /\ SameDraft(Raise(db, draft), draft)
           /\ \A f \in Fences(db) : f < Raise(db, draft).fence
<1> DEFINE m == Max(Fences(db))
<1>1. m \in Fences(db) /\ \A f \in Fences(db) : f <= m
  <2>1. Fences(db) \subseteq Nat
    BY FencesAreNaturals DEF Tables
  <2>2. \E x \in Fences(db) : \A y \in Fences(db) : x >= y
    BY <2>1 DEF Tables, FencesHaveMaximum
  <2> QED
    BY <2>1, <2>2 DEF Max
<1>2. m \in Nat /\ \A f \in Fences(db) : f \in Nat
  BY <1>1, FencesAreNaturals DEF Tables
<1> HIDE DEF m
<1>3. draft \in Leases
  BY DraftsAssumption
<1>4. Raise(db, draft) = IF m + 1 > draft.fence THEN [draft EXCEPT !.fence = m + 1] ELSE draft
  BY DEF Raise, m
<1>5. /\ draft.id \in Nat \ {0} /\ draft.run \in Runs /\ draft.owner \in Owners
      /\ draft.versions \in SUBSET Generations /\ draft.fence \in Nat \ {0}
  BY <1>3, LeaseFields
<1>6. CASE m + 1 > draft.fence
  <2>1. Raise(db, draft) = [id |-> draft.id, run |-> draft.run, owner |-> draft.owner,
                            versions |-> draft.versions, fence |-> m + 1]
    BY <1>3, <1>4, <1>6 DEF Leases
  <2> QED
    BY <1>1, <1>2, <1>5, <2>1 DEF Leases, SameDraft
<1>7. CASE ~(m + 1 > draft.fence)
  BY <1>1, <1>2, <1>3, <1>4, <1>5, <1>7 DEF SameDraft
<1> QED
  BY <1>6, <1>7

-----------------------------------------------------------------------------
(* What the transactions do to the tables.                                  *)

\* claim, when it changes anything.
LEMMA ClaimStarts ==
    ASSUME Tables, NEW draft \in Drafts, Claim(draft)
    PROVE  Starts(draft.run, Raise(db, draft))
<1> DEFINE r == draft.run
<1>1. r \in Runs
  BY DraftsAssumption, LeaseFields
<1>2. db \in Databases
  BY DEF Tables, TypeOK
<1>3. ClaimIn(db, draft).db # db /\ db' = ClaimIn(db, draft).db
  BY DEF Claim, Commit
<1>4. db.rows[r] = None /\ Claimable(db, r)
  BY <1>3 DEF ClaimIn, Granted, Refused, Null
<1>5. db' = Project([db EXCEPT !.status[r] = "running"], r, Raise(db, draft), "active", "claimed")
  BY <1>3, <1>4 DEF ClaimIn, Granted
<1> QED
  BY <1>1, <1>2, <1>4, <1>5 DEF Starts, Project, Databases

\* release, when it changes anything.
LEMMA ReleaseGivesUp ==
    ASSUME Tables, NEW lease \in KnownLeases, Release(lease)
    PROVE  \E r \in Runs : GivesUp(r)
<1> DEFINE r == lease.run
<1>1. ReleaseIn(db, lease).db # db /\ db' = ReleaseIn(db, lease).db
  BY DEF Release, Commit
<1>2. SameLease(db, lease) /\ ActiveRow(db, r) /\ db.status[r] = "settled"
  BY <1>1 DEF ReleaseIn, Refused, Ok
<1>3. db' = Project(db, r, lease, "released", "released")
  BY <1>1, <1>2 DEF ReleaseIn, Ok
<1>4. lease \in Leases /\ db.rows[r].lease = lease
  BY <1>2, KnownLeaseOfRow
<1>5. r \in Runs
  BY <1>4, LeaseFields
<1>6. db \in Databases
  BY DEF Tables, TypeOK
<1>7. db'.rows = [db.rows EXCEPT ![r] = [lease |-> db.rows[r].lease, state |-> "released"]]
  BY <1>3, <1>4, <1>6 DEF Project, Databases
<1>8. db'.status = db.status
  BY <1>3, <1>6 DEF Project, Databases
<1> QED
  BY <1>2, <1>5, <1>7, <1>8 DEF GivesUp

\* revoke, when it changes anything.
LEMMA RevokeLosesAuthority ==
    ASSUME Tables, NEW owner \in Owners, NEW batch \in SUBSET Runs, Revoke(owner, batch)
    PROVE  \E active \in SUBSET Runs : LoseAuthority(active)
<1> DEFINE active == {r \in batch : ActiveRow(db, r)}
<1>1. db \in Databases
  BY DEF Tables, TypeOK
<1>2. RevokeIn(db, owner, batch).db # db /\ db' = RevokeIn(db, owner, batch).db
  BY DEF Revoke, Commit
<1>3. ~ \E r \in active : ~MayRevoke(owner, db.rows[r].lease)
  BY <1>2 DEF RevokeIn, Refused
<1>4. db'.rows = [r \in Runs |-> IF r \in active
                                 THEN [lease |-> db.rows[r].lease, state |-> "revoked"]
                                 ELSE db.rows[r]]
  BY <1>1, <1>2, <1>3 DEF RevokeIn, Ok, Databases
<1>5. db'.status = db.status
  BY <1>1, <1>2, <1>3 DEF RevokeIn, Ok, Databases
<1> QED
  BY <1>4, <1>5 DEF LoseAuthority

\* The other transactions end a run or leave both tables alone.
LEMMA OthersEnd ==
    ASSUME Tables,
           \/ \E lease \in KnownLeases : Settle(lease)
           \/ \E r \in Runs : Recover(r) \/ Cancel(r)
           \/ \E s \in Sessions : Archive(s)
    PROVE  Ends
<1>1. db \in Databases
  BY DEF Tables, TypeOK
<1>2. ASSUME NEW lease \in KnownLeases, Settle(lease)
      PROVE  Ends
  <2>1. db' = [db EXCEPT !.status[lease.run] = "settled"] /\ SameLease(db, lease)
    BY <1>2 DEF Settle, SettleIn, Commit, Ok, Refused
  <2>2. lease.run \in Runs
    BY <2>1, KnownLeaseOfRow, LeaseFields
  <2> QED
    BY <1>1, <2>1, <2>2 DEF Ends, Databases
<1>3. ASSUME NEW r \in Runs, Recover(r) \/ Cancel(r)
      PROVE  Ends
  <2>1. db' = [db EXCEPT !.status[r] = "settled"]
    BY <1>3 DEF Recover, Cancel, RecoverIn, Commit, Ok, Refused
  <2> QED
    BY <1>1, <2>1 DEF Ends, Databases
<1>4. ASSUME NEW s \in Sessions, Archive(s)
      PROVE  Ends
  BY <1>1, <1>4 DEF Ends, Databases, Archive
<1> QED
  BY <1>2, <1>3, <1>4

\* Each step is one of the four effects.
LEMMA StepEffects ==
    ASSUME Tables, [Next]_db
    PROVE  \/ \E draft \in Drafts : Starts(draft.run, Raise(db, draft))
           \/ \E r \in Runs : GivesUp(r)
           \/ \E active \in SUBSET Runs : LoseAuthority(active)
           \/ Ends
<1>1. CASE \E draft \in Drafts : Claim(draft)
  BY <1>1, ClaimStarts
<1>2. CASE \E lease \in KnownLeases : Release(lease)
  BY <1>2, ReleaseGivesUp
<1>3. CASE \E owner \in Owners, batch \in SUBSET Runs : Revoke(owner, batch)
  BY <1>3, RevokeLosesAuthority
<1>4. CASE \/ \E lease \in KnownLeases : Settle(lease)
           \/ \E r \in Runs : Recover(r) \/ Cancel(r)
           \/ \E s \in Sessions : Archive(s)
  BY <1>4, OthersEnd
<1>5. CASE UNCHANGED db
  BY <1>5 DEF Ends
<1> QED
  BY <1>1, <1>2, <1>3, <1>4, <1>5 DEF Next

-----------------------------------------------------------------------------
(* Types.                                                                   *)

\* A finite set is enumerated without repetition.
LEMMA EnumeratedSet ==
    ASSUME NEW S, IsFiniteSet(S)
    PROVE  /\ SetToSeq(S) \in [1..Cardinality(S) -> S] /\ Cardinality(S) \in Nat
           /\ \A i, j \in 1..Cardinality(S) : SetToSeq(S)[i] = SetToSeq(S)[j] => i = j
           /\ \A x \in S : \E i \in 1..Cardinality(S) : SetToSeq(S)[i] = x
<1> DEFINE n == Cardinality(S)
<1>1. n \in Nat /\ ExistsBijection(1..n, S)
  BY FS_CardinalityType
<1>2. PICK f \in [1..n -> S] : IsInjective(f)
  BY <1>1 DEF ExistsBijection, Bijection, Injection, IsInjective
<1>3. SetToSeq(S) \in [1..n -> S] /\ IsInjective(SetToSeq(S))
  BY <1>2 DEF SetToSeq
<1>4. IsFiniteSet(1..n) /\ Cardinality(1..n) = n
  <2> HIDE DEF n
  <2>1. 1 \in Int /\ n \in Int
    BY <1>1
  <2>2. IsFiniteSet(1..n) /\ Cardinality(1..n) = IF 1 > n THEN 0 ELSE n - 1 + 1
    BY <2>1, FS_Interval
  <2> QED
    BY <1>1, <2>2
<1>5. SetToSeq(S) \in Injection(1..n, S)
  BY <1>3 DEF Injection
<1>6. SetToSeq(S) \in Surjection(1..n, S)
  BY <1>4, <1>5, FS_Injection
<1>7. \A i, j \in 1..n : SetToSeq(S)[i] = SetToSeq(S)[j] => i = j
  BY <1>3 DEF IsInjective
<1>8. \A x \in S : \E i \in 1..n : SetToSeq(S)[i] = x
  BY <1>6 DEF Surjection
<1> QED
  BY <1>1, <1>3, <1>7, <1>8

\* projectOwnership keeps the types.
LEMMA ProjectTypes ==
    ASSUME NEW d \in Databases, NEW r \in Runs, NEW lease \in Leases, NEW state \in RowStates,
           NEW type \in {"claimed", "released", "revoked"}
    PROVE  Project(d, r, lease, state, type) \in Databases
<1>1. [lease |-> lease, state |-> state] \in Rows
  BY DEF Rows
<1>2. [type |-> type, lease |-> lease] \in Events
  BY DEF Events
<1> DEFINE row == [lease |-> lease, state |-> state]
           log == Append(d.journal, [type |-> type, lease |-> lease])
           p   == Project(d, r, lease, state, type)
<1>3. p = [rows |-> [d.rows EXCEPT ![r] = row], status |-> d.status,
           archived |-> d.archived, floor |-> d.floor, journal |-> log]
  <2>1. p = [d EXCEPT !.rows[r] = row, !.journal = log]
    BY DEF Project
  <2> HIDE DEF p, row, log
  <2> QED
    BY <2>1 DEF Databases
<1>4. /\ d.rows \in [Runs -> Rows \cup {None}] /\ d.status \in [Runs -> Statuses]
      /\ d.archived \in SUBSET Sessions /\ d.floor \in Nat /\ d.journal \in Seq(Events)
  BY DEF Databases
<1>5. [d.rows EXCEPT ![r] = [lease |-> lease, state |-> state]] \in [Runs -> Rows \cup {None}]
  BY <1>1, <1>4
<1>6. Append(d.journal, [type |-> type, lease |-> lease]) \in Seq(Events)
  BY <1>2, <1>4
<1> QED
  BY <1>3, <1>4, <1>5, <1>6 DEF Databases

\* revoke keeps the types.
LEMMA RevokeTypes ==
    ASSUME Tables, NEW owner \in Owners, NEW batch \in SUBSET Runs, Revoke(owner, batch)
    PROVE  db' \in Databases
<1> DEFINE active == {r \in batch : ActiveRow(db, r)}
           order  == SetToSeq(active)
           rows   == [r \in Runs |-> IF r \in active
                                     THEN [lease |-> db.rows[r].lease, state |-> "revoked"]
                                     ELSE db.rows[r]]
           tail   == [i \in DOMAIN order |->
                        [type |-> "revoked", lease |-> db.rows[order[i]].lease]]
<1>1. db \in Databases
  BY DEF Tables, TypeOK
<1>2. RevokeIn(db, owner, batch).db # db /\ db' = RevokeIn(db, owner, batch).db
  BY DEF Revoke, Commit
<1>3. db' = [rows |-> rows, status |-> db.status, archived |-> db.archived,
             floor |-> db.floor, journal |-> db.journal \o tail]
  BY <1>1, <1>2 DEF RevokeIn, Ok, Refused, Databases
<1>4. \A r \in active : db.rows[r].lease \in Leases
  BY RowFields DEF Tables, ActiveRow
<1>5. rows \in [Runs -> Rows \cup {None}]
  BY <1>1, <1>4 DEF Databases, Rows, RowStates
<1>6. IsFiniteSet(active)
  BY LeaseAssumption, FS_Subset
<1>7. order \in [1..Cardinality(active) -> active] /\ Cardinality(active) \in Nat
  BY <1>6, EnumeratedSet
<1>8. tail \in Seq(Events)
  <2>1. DOMAIN order = 1..Cardinality(active)
    BY <1>7
  <2>2. \A i \in DOMAIN order : [type |-> "revoked", lease |-> db.rows[order[i]].lease] \in Events
    BY <1>4, <1>7 DEF Events
  <2> HIDE DEF order
  <2>3. tail \in [1..Cardinality(active) -> Events]
    BY <2>1, <2>2
  <2> QED
    BY <1>7, <2>3, SeqDef
<1>9. db.journal \in Seq(Events)
  BY <1>1 DEF Databases
<1> HIDE DEF tail, rows
<1>10. db.journal \o tail \in Seq(Events)
  BY <1>8, <1>9
<1> QED
  BY <1>1, <1>3, <1>5, <1>10 DEF Databases

\* Every transaction keeps the types.
LEMMA StepKeepsTypes ==
    ASSUME Tables, [Next]_db
    PROVE  TypeOK'
<1>1. db \in Databases
  BY DEF Tables, TypeOK
<1>2. ASSUME NEW draft \in Drafts, Claim(draft)
      PROVE  db' \in Databases
  <2>1. db.rows[draft.run] = None /\ Claimable(db, draft.run)
    BY <1>2, ClaimStarts DEF Starts
  <2>2. db' = Project([db EXCEPT !.status[draft.run] = "running"], draft.run,
                      Raise(db, draft), "active", "claimed")
    BY <1>2, <2>1 DEF Claim, Commit, ClaimIn, Granted
  <2>3. draft.run \in Runs /\ Raise(db, draft) \in Leases
    BY RaiseFacts, DraftsAssumption, LeaseFields
  <2>4. [db EXCEPT !.status[draft.run] = "running"] \in Databases
    BY <1>1, <2>3 DEF Databases, Statuses
  <2> QED
    BY <2>2, <2>3, <2>4, ProjectTypes DEF RowStates
<1>3. ASSUME NEW lease \in KnownLeases, Release(lease)
      PROVE  db' \in Databases
  <2>1. db' = Project(db, lease.run, lease, "released", "released") /\ SameLease(db, lease)
    BY <1>3 DEF Release, Commit, ReleaseIn, Refused, Ok
  <2>2. lease \in Leases /\ lease.run \in Runs
    BY <2>1, KnownLeaseOfRow, LeaseFields
  <2> QED
    BY <1>1, <2>1, <2>2, ProjectTypes DEF RowStates
<1>4. ASSUME NEW owner \in Owners, NEW batch \in SUBSET Runs, Revoke(owner, batch)
      PROVE  db' \in Databases
  BY <1>4, RevokeTypes
<1>5. ASSUME NEW lease \in KnownLeases, Settle(lease)
      PROVE  db' \in Databases
  <2>1. db' = [db EXCEPT !.status[lease.run] = "settled"] /\ SameLease(db, lease)
    BY <1>5 DEF Settle, SettleIn, Commit, Ok, Refused
  <2>2. lease.run \in Runs
    BY <2>1, KnownLeaseOfRow, LeaseFields
  <2> QED
    BY <1>1, <2>1, <2>2 DEF Databases, Statuses
<1>6. ASSUME NEW r \in Runs, Recover(r) \/ Cancel(r)
      PROVE  db' \in Databases
  <2>1. db' = [db EXCEPT !.status[r] = "settled"]
    BY <1>6 DEF Recover, Cancel, RecoverIn, Commit, Ok, Refused
  <2> QED
    BY <1>1, <2>1 DEF Databases, Statuses
<1>7. ASSUME NEW s \in Sessions, Archive(s)
      PROVE  db' \in Databases
  BY <1>1, <1>7 DEF Archive, Databases
<1>8. CASE UNCHANGED db
  BY <1>1, <1>8 DEF TypeOK
<1> QED
  BY <1>2, <1>3, <1>4, <1>5, <1>6, <1>7, <1>8 DEF Next, TypeOK

-----------------------------------------------------------------------------
(* What a journal says.                                                     *)

\* The row that an event leaves.
Outcome(e) == [lease |-> e.lease, state |-> IF e.type = "claimed" THEN "active" ELSE e.type]

\* Among the first n events of q, the last one about a run left its row, and
\* a run without an event has none.
LoggedUpto(rows, q, n) ==
    \A r \in Runs :
        \/ rows[r] = None /\ \A i \in 1..n : q[i].lease.run # r
        \/ \E i \in 1..n : /\ q[i].lease.run = r /\ rows[r] = Outcome(q[i])
                           /\ \A j \in 1..n : i < j => q[j].lease.run # r

Logged(rows, q) == LoggedUpto(rows, q, Len(q))

\* An event more.
LEMMA EventLogged ==
    ASSUME NEW n \in Nat, NEW q, q[n + 1] \in Events,
           NEW rows \in [Runs -> Rows \cup {None}], LoggedUpto(rows, q, n)
    PROVE  /\ LoggedUpto(Restore(rows, q[n + 1]), q, n + 1)
           /\ Restore(rows, q[n + 1]) \in [Runs -> Rows \cup {None}]
<1>1. PICK e \in Events : e = q[n + 1]
  OBVIOUS
<1>2. e.lease \in Leases /\ e.lease.run \in Runs /\ Outcome(e) \in Rows
  BY DEF Events, Leases, Outcome, Rows, RowStates
<1>3. PICK after : after = Restore(rows, e)
  OBVIOUS
<1>4. /\ after \in [Runs -> Rows \cup {None}]
      /\ after[e.lease.run] = Outcome(e)
      /\ \A r \in Runs : r # e.lease.run => after[r] = rows[r]
  BY <1>2, <1>3 DEF Restore, Outcome
<1>5. LoggedUpto(after, q, n + 1)
  <2> SUFFICES ASSUME NEW r \in Runs
               PROVE  \/ after[r] = None /\ \A i \in 1..(n + 1) : q[i].lease.run # r
                      \/ \E i \in 1..(n + 1) :
                            /\ q[i].lease.run = r /\ after[r] = Outcome(q[i])
                            /\ \A j \in 1..(n + 1) : i < j => q[j].lease.run # r
    BY DEF LoggedUpto
  <2>1. \A i \in 1..(n + 1) : i \in 1..n \/ i = n + 1
    OBVIOUS
  <2>2. CASE r = e.lease.run
    BY <1>1, <1>4, <2>2
  <2>3. CASE r # e.lease.run
    <3>1. after[r] = rows[r] /\ q[n + 1].lease.run # r
      BY <1>1, <1>4, <2>3
    <3>2. CASE rows[r] = None /\ \A i \in 1..n : q[i].lease.run # r
      BY <2>1, <3>1, <3>2
    <3>3. CASE \E i \in 1..n : /\ q[i].lease.run = r /\ rows[r] = Outcome(q[i])
                               /\ \A j \in 1..n : i < j => q[j].lease.run # r
      BY <2>1, <3>1, <3>3
    <3> QED
      BY <3>2, <3>3 DEF LoggedUpto
  <2> QED
    BY <2>2, <2>3
<1> QED
  BY <1>1, <1>3, <1>4, <1>5

\* The journal determines the rows.
LEMMA LoggedOnce ==
    ASSUME NEW n \in Nat, NEW q, NEW a, a = [r \in Runs |-> a[r]], LoggedUpto(a, q, n),
           NEW b, b = [r \in Runs |-> b[r]], LoggedUpto(b, q, n)
    PROVE  a = b
<1>1. ASSUME NEW r \in Runs PROVE a[r] = b[r]
  <2>1. CASE \A i \in 1..n : q[i].lease.run # r
    BY <2>1 DEF LoggedUpto
  <2>2. CASE \E i \in 1..n : q[i].lease.run = r
    <3>1. PICK i \in 1..n : /\ q[i].lease.run = r /\ a[r] = Outcome(q[i])
                            /\ \A j \in 1..n : i < j => q[j].lease.run # r
      BY <2>2 DEF LoggedUpto
    <3>2. PICK k \in 1..n : /\ q[k].lease.run = r /\ b[r] = Outcome(q[k])
                            /\ \A j \in 1..n : k < j => q[j].lease.run # r
      BY <2>2 DEF LoggedUpto
    <3>3. i = k
      BY <3>1, <3>2
    <3> QED
      BY <3>1, <3>2, <3>3
  <2> QED
    BY <2>1, <2>2
<1> QED
  BY <1>1

-----------------------------------------------------------------------------
(* Replaying a journal.                                                     *)

\* What the fold of the events of q computes for a set of places.
Replays(g, q, n) ==
    g = [S \in SUBSET (1..n) |->
            IF S = {} THEN [r \in Runs |-> None]
            ELSE Restore(g[S \ {Max(S)}], q[Max(S)])]

\* A set of places has a last one.
LEMMA LastPlace ==
    ASSUME NEW n \in Nat, NEW S \in SUBSET (1..n), S # {}
    PROVE  Max(S) \in S /\ \A k \in S : k <= Max(S)
<1> DEFINE D == {d \in Nat : n - d \in S}
<1>1. D # {}
  <2>1. PICK k \in S : TRUE
    OBVIOUS
  <2>2. n - k \in Nat /\ n - (n - k) = k
    BY <2>1
  <2> QED
    BY <2>1, <2>2
<1>2. PICK d \in D : \A e \in D : ~(<<e, d>> \in OpToRel(<, Nat))
  <2>1. D \subseteq Nat
    OBVIOUS
  <2> HIDE DEF D
  <2> QED
    BY <1>1, <2>1, NatLessThanWellFounded, WFMin
<1>3. d \in Nat /\ n - d \in S /\ \A e \in D : ~(e < d)
  BY <1>2 DEF OpToRel
<1>4. ASSUME NEW k \in S PROVE k <= n - d
  <2>1. k \in Nat /\ n - k \in Nat /\ n - (n - k) = k
    BY <1>4
  <2>2. n - k \in D
    BY <1>4, <2>1
  <2>3. ~(n - k < d)
    BY <1>3, <2>2
  <2> QED
    BY <1>3, <2>1, <2>3
<1>5. S \subseteq Nat /\ \E x \in S : \A y \in S : x >= y
  BY <1>3, <1>4
<1> QED
  BY <1>5 DEF Max

\* The recursion of the fold has a solution: it is built up by the number of
\* places it is correct for.
LEMMA ReplayExists ==
    ASSUME NEW n \in Nat, NEW q
    PROVE  \E g : Replays(g, q, n)
<1> DEFINE Step(g, S) == IF S = {} THEN [r \in Runs |-> None]
                         ELSE Restore(g[S \ {Max(S)}], q[Max(S)])
           Upto(g, k) == \A S \in SUBSET (1..n) : Cardinality(S) <= k => g[S] = Step(g, S)
           Bad == {k \in Nat : ~ \E g : g = [S \in SUBSET (1..n) |-> g[S]] /\ Upto(g, k)}
<1>a. IsFiniteSet(1..n) /\ Cardinality(1..n) = n
  <2>1. 1 \in Int /\ n \in Int
    OBVIOUS
  <2>2. IsFiniteSet(1..n) /\ Cardinality(1..n) = IF 1 > n THEN 0 ELSE n - 1 + 1
    BY <2>1, FS_Interval
  <2> QED
    BY <2>2
<1>0. ASSUME NEW S \in SUBSET (1..n)
      PROVE  /\ Cardinality(S) \in Nat /\ (Cardinality(S) = 0 => S = {})
             /\ S # {} => /\ S \ {Max(S)} \in SUBSET (1..n)
                          /\ Cardinality(S \ {Max(S)}) = Cardinality(S) - 1
  <2>1. IsFiniteSet(S) /\ Cardinality(S) \in Nat
    BY <1>a, FS_Subset, FS_CardinalityType
  <2>2. Cardinality(S) = 0 => S = {}
    BY <2>1, FS_EmptySet
  <2>3. S # {} => Cardinality(S \ {Max(S)}) = Cardinality(S) - 1
    BY <2>1, LastPlace, FS_RemoveElement
  <2> QED
    BY <2>1, <2>2, <2>3
<1>1. Bad = {}
  <2> SUFFICES ASSUME Bad # {} PROVE FALSE
    OBVIOUS
  <2>1. PICK k \in Bad : \A m \in Bad : ~(<<m, k>> \in OpToRel(<, Nat))
    <3>1. Bad \subseteq Nat
      OBVIOUS
    <3> HIDE DEF Bad
    <3> QED
      BY <3>1, NatLessThanWellFounded, WFMin
  <2>2. k \in Nat /\ \A m \in Bad : ~(m < k)
    BY <2>1 DEF OpToRel
  <2>3. CASE k = 0
    <3> DEFINE g == [S \in SUBSET (1..n) |-> [r \in Runs |-> None]]
    <3>1. ASSUME NEW S \in SUBSET (1..n), Cardinality(S) <= k
          PROVE  g[S] = Step(g, S)
      <4>1. S = {}
        <5> HIDE DEF Step, g, Bad
        <5>1. Cardinality(S) \in Nat /\ (Cardinality(S) = 0 => S = {})
          BY <1>0
        <5> QED
          BY <2>3, <3>1, <5>1
      <4> QED
        BY <4>1
    <3>2. g = [S \in SUBSET (1..n) |-> g[S]]
      OBVIOUS
    <3> HIDE DEF g
    <3> QED
      BY <3>1, <3>2
  <2>4. CASE k # 0
    <3>1. k - 1 \in Nat /\ k - 1 \notin Bad
      <4> HIDE DEF Bad
      <4> QED
        BY <2>2, <2>4
    <3>2. PICK h : h = [S \in SUBSET (1..n) |-> h[S]] /\ Upto(h, k - 1)
      BY <3>1
    <3> DEFINE g == [S \in SUBSET (1..n) |-> Step(h, S)]
    <3>3. ASSUME NEW S \in SUBSET (1..n), Cardinality(S) <= k
          PROVE  g[S] = Step(g, S)
      <4>1. CASE S = {}
        BY <4>1
      <4>2. CASE S # {}
        <5> DEFINE R == S \ {Max(S)}
        <5>1. R \in SUBSET (1..n) /\ Cardinality(R) <= k - 1
          BY <1>0, <2>2, <3>3, <4>2
        <5>2. h[R] = Step(h, R)
          BY <3>2, <5>1
        <5>3. g[R] = h[R]
          BY <5>1, <5>2
        <5>4. g[S] = Step(h, S)
          OBVIOUS
        <5> HIDE DEF g
        <5> QED
          BY <4>2, <5>3, <5>4
      <4> QED
        BY <4>1, <4>2
    <3>4. g = [S \in SUBSET (1..n) |-> g[S]]
      OBVIOUS
    <3> HIDE DEF g
    <3> QED
      BY <3>3, <3>4
  <2> QED
    BY <2>3, <2>4
<1>2. ASSUME NEW S \in SUBSET (1..n)
      PROVE  Cardinality(S) <= n
  BY <1>a, FS_Subset
<1>3. PICK g : g = [S \in SUBSET (1..n) |-> g[S]] /\ Upto(g, n)
  BY <1>1
<1>4. \A S \in SUBSET (1..n) : g[S] = Step(g, S)
  BY <1>2, <1>3
<1>5. g = [S \in SUBSET (1..n) |-> Step(g, S)]
  BY <1>3, <1>4
<1> QED
  BY <1>5 DEF Replays

\* The replay of a journal is what the journal says: by the length of the
\* prefix that is replayed.
LEMMA ReplayIsLogged ==
    ASSUME NEW q \in Seq(Events)
    PROVE  LET rows == FoldLeft(Restore, [r \in Runs |-> None], q)
           IN  rows \in [Runs -> Rows \cup {None}] /\ Logged(rows, q)
<1> DEFINE n == Len(q)
           g == CHOOSE g : Replays(g, q, n)
           Holds(k) == /\ g[1..k] \in [Runs -> Rows \cup {None}]
                       /\ LoggedUpto(g[1..k], q, k)
           Bad == {k \in Nat : k <= n /\ ~Holds(k)}
<1>1. n \in Nat /\ DOMAIN q = 1..n /\ \A i \in 1..n : q[i] \in Events
  OBVIOUS
<1>2. FoldLeft(Restore, [r \in Runs |-> None], q) = g[1..n]
  BY <1>1 DEF FoldLeft, MapThenFoldSet, Replays
<1>3. Replays(g, q, n)
  <2> HIDE DEF n
  <2> QED
    BY <1>1, ReplayExists
<1> HIDE DEF g, n
<1>4. \A S \in SUBSET (1..n) :
         g[S] = IF S = {} THEN [r \in Runs |-> None] ELSE Restore(g[S \ {Max(S)}], q[Max(S)])
  BY <1>3 DEF Replays
<1>5. Holds(0)
  <2>1. 1..0 = {} /\ {} \in SUBSET (1..n)
    OBVIOUS
  <2>2. g[1..0] = [r \in Runs |-> None]
    BY <1>4, <2>1
  <2> QED
    BY <2>2 DEF LoggedUpto
<1>6. ASSUME NEW k \in Nat, k + 1 <= n, Holds(k)
      PROVE  Holds(k + 1)
  <2> DEFINE S == 1..(k + 1)
  <2>1. S \in SUBSET (1..n) /\ S # {} /\ k + 1 \in S /\ S \ {k + 1} = 1..k
    <3>1. \A i \in S : i \in Nat /\ 1 <= i /\ i <= k + 1 /\ i <= n
      BY <1>1, <1>6
    <3>2. \A i : i \in S \ {k + 1} <=> i \in 1..k
      BY <1>6
    <3>3. k + 1 \in S
      BY <1>6
    <3> HIDE DEF S
    <3> QED
      BY <1>1, <3>1, <3>2, <3>3
  <2>2. Max(S) \in S /\ \A j \in S : j <= Max(S)
    BY <1>1, <2>1, LastPlace
  <2>3. Max(S) = k + 1
    BY <2>1, <2>2
  <2>4. g[S] = Restore(g[1..k], q[k + 1])
    <3>1. g[S] = Restore(g[S \ {Max(S)}], q[Max(S)])
      BY <1>4, <2>1
    <3> QED
      BY <2>1, <2>3, <3>1
  <2>5. q[k + 1] \in Events
    BY <1>1, <1>6
  <2> QED
    BY <1>6, <2>4, <2>5, EventLogged
<1>7. Bad = {}
  <2> SUFFICES ASSUME Bad # {} PROVE FALSE
    OBVIOUS
  <2>1. PICK k \in Bad : \A m \in Bad : ~(<<m, k>> \in OpToRel(<, Nat))
    <3>1. Bad \subseteq Nat
      OBVIOUS
    <3> HIDE DEF Bad
    <3> QED
      BY <3>1, NatLessThanWellFounded, WFMin
  <2>2. k \in Nat /\ k <= n /\ ~Holds(k) /\ \A m \in Bad : ~(m < k)
    BY <2>1 DEF OpToRel
  <2>3. k # 0
    BY <1>5, <2>2
  <2>4. k - 1 \in Nat /\ k - 1 \notin Bad /\ k - 1 <= n /\ (k - 1) + 1 = k
    <3> HIDE DEF Bad
    <3> QED
      BY <1>1, <2>2, <2>3
  <2>5. Holds(k - 1)
    BY <2>4
  <2> HIDE DEF Holds, Bad
  <2>6. Holds((k - 1) + 1)
    BY <1>6, <2>2, <2>4, <2>5
  <2> QED
    BY <2>2, <2>4, <2>6
<1>8. Holds(n)
  BY <1>1, <1>7
<1> QED
  BY <1>2, <1>8 DEF Logged, n

-----------------------------------------------------------------------------
(* The journal follows the rows.                                            *)

RowsAreLogged == Logged(db.rows, db.journal)

\* Only the events before a place matter to it.
LEMMA SamePrefix ==
    ASSUME NEW n \in Nat, NEW p, NEW q, \A i \in 1..n : p[i] = q[i],
           NEW rows, LoggedUpto(rows, p, n)
    PROVE  LoggedUpto(rows, q, n)
<1> SUFFICES ASSUME NEW r \in Runs
             PROVE  \/ rows[r] = None /\ \A i \in 1..n : q[i].lease.run # r
                    \/ \E i \in 1..n : /\ q[i].lease.run = r /\ rows[r] = Outcome(q[i])
                                       /\ \A j \in 1..n : i < j => q[j].lease.run # r
  BY DEF LoggedUpto
<1>1. CASE rows[r] = None /\ \A i \in 1..n : p[i].lease.run # r
  BY <1>1
<1>2. CASE \E i \in 1..n : /\ p[i].lease.run = r /\ rows[r] = Outcome(p[i])
                           /\ \A j \in 1..n : i < j => p[j].lease.run # r
  <2>1. PICK i \in 1..n : /\ p[i].lease.run = r /\ rows[r] = Outcome(p[i])
                          /\ \A j \in 1..n : i < j => p[j].lease.run # r
    BY <1>2
  <2> QED
    BY <2>1
<1> QED
  BY <1>1, <1>2 DEF LoggedUpto

\* projectOwnership and its journal record.
LEMMA ProjectIsLogged ==
    ASSUME NEW d \in Databases, Logged(d.rows, d.journal), NEW lease \in Leases,
           NEW state \in RowStates, NEW type \in {"claimed", "released", "revoked"},
           state = IF type = "claimed" THEN "active" ELSE type,
           NEW p, p = Project(d, lease.run, lease, state, type)
    PROVE  Logged(p.rows, p.journal)
<1>1. PICK e \in Events : e = [type |-> type, lease |-> lease]
  BY DEF Events
<1>2. PICK q : q = Append(d.journal, e)
  OBVIOUS
<1>3. PICK n : n = Len(d.journal)
  OBVIOUS
<1>4. d.journal \in Seq(Events) /\ d.rows \in [Runs -> Rows \cup {None}]
  BY DEF Databases
<1>5. /\ n \in Nat /\ Len(q) = n + 1 /\ q[n + 1] = e
      /\ \A i \in 1..n : d.journal[i] = q[i]
  BY <1>2, <1>3, <1>4
<1>6. LoggedUpto(d.rows, q, n)
  BY <1>3, <1>5, SamePrefix DEF Logged
<1>7. LoggedUpto(Restore(d.rows, e), q, n + 1)
  BY <1>4, <1>5, <1>6, EventLogged
<1>8. /\ p.rows = [d.rows EXCEPT ![lease.run] = [lease |-> lease, state |-> state]]
      /\ p.journal = q
  <2>1. p = [d EXCEPT !.rows[lease.run] = [lease |-> lease, state |-> state], !.journal = q]
    BY <1>1, <1>2 DEF Project
  <2> QED
    BY <2>1 DEF Databases
<1>9. Restore(d.rows, e) = [d.rows EXCEPT ![lease.run] = [lease |-> lease, state |-> state]]
  BY <1>1 DEF Restore
<1> QED
  BY <1>5, <1>7, <1>8, <1>9 DEF Logged

\* The m events of tail leave the rows of a set of runs, and others stay.
Batch(rows, after, active, tail, m) ==
    /\ \A i \in 1..m : tail[i].lease.run \in active
    /\ \A r \in active :
          \E i \in 1..m : /\ tail[i].lease.run = r /\ after[r] = Outcome(tail[i])
                         /\ \A j \in 1..m : i < j => tail[j].lease.run # r
    /\ \A r \in Runs \ active : after[r] = rows[r]

\* A batch of revocations and their records, one of each revoked row.
LEMMA BatchIsLogged ==
    ASSUME NEW log \in Seq(Events), NEW rows, Logged(rows, log),
           NEW m \in Nat, NEW tail \in Seq(Events), Len(tail) = m,
           NEW active \in SUBSET Runs, NEW after, Batch(rows, after, active, tail, m)
    PROVE  Logged(after, log \o tail)
<1>1. PICK n : n = Len(log)
  OBVIOUS
<1>2. PICK q : q = log \o tail
  OBVIOUS
<1>3. /\ n \in Nat /\ Len(q) = n + m
      /\ \A i \in 1..n : q[i] = log[i]
      /\ \A i \in 1..m : q[n + i] = tail[i]
  <2>2. /\ Len(q) = n + m
        /\ \A i \in 1..(n + m) : q[i] = IF i <= n THEN log[i] ELSE tail[i - n]
    <3>1. /\ Len(log \o tail) = Len(log) + Len(tail)
          /\ \A i \in 1 .. Len(log) + Len(tail) :
                (log \o tail)[i] = IF i <= Len(log) THEN log[i] ELSE tail[i - Len(log)]
      BY ConcatProperties
    <3> QED
      BY <1>1, <1>2, <3>1
  <2>3. n \in Nat
    BY <1>1
  <2>4. ASSUME NEW i \in 1..m PROVE q[n + i] = tail[i]
    <3>1. n + i \in 1..(n + m) /\ ~(n + i <= n) /\ (n + i) - n = i
      BY <2>3
    <3> QED
      BY <2>2, <3>1
  <2>5. ASSUME NEW i \in 1..n PROVE q[i] = log[i]
    BY <2>2, <2>3
  <2> QED
    BY <2>2, <2>3, <2>4, <2>5
<1>4. \A i \in 1..(n + m) : i \in 1..n \/ (i - n \in 1..m /\ n + (i - n) = i)
  BY <1>3
<1>5. ASSUME NEW r \in Runs
      PROVE  \/ after[r] = None /\ \A i \in 1..(n + m) : q[i].lease.run # r
             \/ \E i \in 1..(n + m) : /\ q[i].lease.run = r /\ after[r] = Outcome(q[i])
                                      /\ \A j \in 1..(n + m) : i < j => q[j].lease.run # r
  <2>1. CASE r \in active
    <3>1. PICK i \in 1..m : /\ tail[i].lease.run = r /\ after[r] = Outcome(tail[i])
                            /\ \A j \in 1..m : i < j => tail[j].lease.run # r
      BY <2>1 DEF Batch
    <3>2. n + i \in 1..(n + m) /\ q[n + i] = tail[i]
      BY <1>3
    <3>3. ASSUME NEW j \in 1..(n + m), n + i < j
          PROVE  q[j].lease.run # r
      <4>1. j - n \in 1..m /\ i < j - n /\ q[j] = tail[j - n]
        BY <1>3, <1>4, <3>3
      <4> QED
        BY <3>1, <4>1
    <3> QED
      BY <3>1, <3>2, <3>3
  <2>2. CASE r \notin active
    <3>1. after[r] = rows[r]
      BY <2>2 DEF Batch
    <3>2. \A i \in 1..(n + m) : i \notin 1..n => q[i].lease.run # r
      <4> SUFFICES ASSUME NEW i \in 1..(n + m), i \notin 1..n
                   PROVE  q[i].lease.run # r
        OBVIOUS
      <4>1. i - n \in 1..m /\ q[i] = tail[i - n]
        BY <1>3, <1>4
      <4> QED
        BY <2>2, <4>1 DEF Batch
    <3>3. \/ rows[r] = None /\ \A i \in 1..n : log[i].lease.run # r
          \/ \E i \in 1..n : /\ log[i].lease.run = r /\ rows[r] = Outcome(log[i])
                             /\ \A j \in 1..n : i < j => log[j].lease.run # r
      BY <1>1 DEF Logged, LoggedUpto
    <3>4. CASE rows[r] = None /\ \A i \in 1..n : log[i].lease.run # r
      BY <1>3, <3>1, <3>2, <3>4
    <3>5. CASE \E i \in 1..n : /\ log[i].lease.run = r /\ rows[r] = Outcome(log[i])
                               /\ \A j \in 1..n : i < j => log[j].lease.run # r
      <4>1. PICK i \in 1..n : /\ log[i].lease.run = r /\ rows[r] = Outcome(log[i])
                              /\ \A j \in 1..n : i < j => log[j].lease.run # r
        BY <3>5
      <4>2. i \in 1..(n + m) /\ q[i] = log[i]
        BY <1>3
      <4>3. \A j \in 1..(n + m) : i < j => q[j].lease.run # r
        BY <1>3, <3>2, <4>1
      <4> QED
        BY <3>1, <4>1, <4>2, <4>3
    <3> QED
      BY <3>3, <3>4, <3>5
  <2> QED
    BY <2>1, <2>2
<1>6. LoggedUpto(after, q, n + m)
  BY <1>5 DEF LoggedUpto
<1> QED
  BY <1>2, <1>3, <1>6 DEF Logged

\* revoke: the rows of the batch and their events change together.
LEMMA RevokeIsLogged ==
    ASSUME Tables, RowsAreLogged, NEW owner \in Owners, NEW batch \in SUBSET Runs,
           Revoke(owner, batch)
    PROVE  RowsAreLogged'
<1> DEFINE active == {r \in batch : ActiveRow(db, r)}
           order  == SetToSeq(active)
           rows   == [r \in Runs |-> IF r \in active
                                     THEN [lease |-> db.rows[r].lease, state |-> "revoked"]
                                     ELSE db.rows[r]]
           tail   == [i \in DOMAIN order |->
                        [type |-> "revoked", lease |-> db.rows[order[i]].lease]]
           m      == Cardinality(active)
<1>1. db \in Databases
  BY DEF Tables, TypeOK
<1>2. RevokeIn(db, owner, batch).db # db /\ db' = RevokeIn(db, owner, batch).db
  BY DEF Revoke, Commit
<1>3. db'.rows = rows /\ db'.journal = db.journal \o tail
  BY <1>1, <1>2 DEF RevokeIn, Ok, Refused, Databases
<1>4. \A r \in active : r \in Runs /\ db.rows[r].lease \in Leases /\ db.rows[r].lease.run = r
  BY RowFields DEF Tables, ActiveRow, RowsFromDrafts
<1>5. IsFiniteSet(active)
  BY LeaseAssumption, FS_Subset
<1>6. /\ order \in [1..m -> active] /\ m \in Nat
      /\ \A i, j \in 1..m : order[i] = order[j] => i = j
      /\ \A r \in active : \E i \in 1..m : order[i] = r
  BY <1>5, EnumeratedSet
<1>7. active \in SUBSET Runs
  BY <1>4
<1> HIDE DEF active
<1>8. DOMAIN order = 1..m
  BY <1>6
<1> HIDE DEF order, m
<1>9. \A i \in 1..m : /\ order[i] \in active
                      /\ tail[i] = [type |-> "revoked", lease |-> db.rows[order[i]].lease]
                      /\ tail[i].lease.run = order[i] /\ tail[i] \in Events
                      /\ tail[i].lease = db.rows[order[i]].lease /\ tail[i].type = "revoked"
  BY <1>4, <1>6, <1>8 DEF Events
<1>10. tail \in [1..m -> Events]
  BY <1>8, <1>9
<1>11. Len(tail) = m
  BY <1>6, <1>10
<1> HIDE DEF tail
<1>12. ASSUME NEW r \in active
       PROVE  \E i \in 1..m : /\ tail[i].lease.run = r /\ rows[r] = Outcome(tail[i])
                              /\ \A j \in 1..m : i < j => tail[j].lease.run # r
  <2>1. PICK i \in 1..m : order[i] = r
    BY <1>6
  <2>2. rows[r] = [lease |-> db.rows[r].lease, state |-> "revoked"]
    BY <1>4
  <2>3. Outcome(tail[i]) = [lease |-> db.rows[r].lease, state |-> "revoked"]
    <3>1. tail[i].lease = db.rows[r].lease /\ tail[i].type = "revoked"
      BY <1>9, <2>1
    <3> QED
      BY <3>1 DEF Outcome
  <2>4. ASSUME NEW j \in 1..m, i < j PROVE tail[j].lease.run # r
    <3>1. tail[j].lease.run = order[j]
      BY <1>9
    <3> QED
      BY <1>6, <2>1, <2>4, <3>1
  <2> QED
    BY <1>9, <2>1, <2>2, <2>3, <2>4
<1>13. \A r \in Runs \ active : rows[r] = db.rows[r]
  OBVIOUS
<1>14. db.journal \in Seq(Events)
  BY <1>1 DEF Databases
<1>15. \A i \in 1..m : tail[i].lease.run \in active
  BY <1>9
<1> HIDE DEF rows
<1>16. Logged(db.rows, db.journal)
  BY DEF RowsAreLogged
<1>17. \A r \in active :
          \E i \in 1..m : /\ tail[i].lease.run = r /\ rows[r] = Outcome(tail[i])
                         /\ \A j \in 1..m : i < j => tail[j].lease.run # r
  BY <1>12
<1>18. Logged(rows, db.journal \o tail)
  <2>1. m \in Nat /\ tail \in Seq(Events)
    BY <1>6, <1>10, SeqDef
  <2>2. Batch(db.rows, rows, active, tail, m)
    BY <1>13, <1>15, <1>17 DEF Batch
  <2> QED
    BY <1>7, <1>11, <1>14, <1>16, <2>1, <2>2, BatchIsLogged
<1> QED
  BY <1>3, <1>18 DEF RowsAreLogged

\* Every transaction records what it does to the rows.
LEMMA StepKeepsLogged ==
    ASSUME Tables, RowsAreLogged, [Next]_db
    PROVE  RowsAreLogged'
<1>1. db \in Databases
  BY DEF Tables, TypeOK
<1>2. ASSUME NEW draft \in Drafts, Claim(draft)
      PROVE  RowsAreLogged'
  <2>1. db.rows[draft.run] = None /\ Claimable(db, draft.run)
    BY <1>2, ClaimStarts DEF Starts
  <2>2. PICK lease \in Leases : lease = Raise(db, draft) /\ lease.run = draft.run
    BY RaiseFacts DEF SameDraft
  <2>3. PICK d : d = [db EXCEPT !.status[draft.run] = "running"]
    OBVIOUS
  <2>4. d \in Databases /\ d.rows = db.rows /\ d.journal = db.journal
    BY <1>1, <2>2, <2>3, LeaseFields DEF Databases, Statuses
  <2>5. db' = Project(d, lease.run, lease, "active", "claimed")
    BY <1>2, <2>1, <2>2, <2>3 DEF Claim, Commit, ClaimIn, Granted
  <2> QED
    BY <2>4, <2>5, ProjectIsLogged DEF RowsAreLogged, RowStates
<1>3. ASSUME NEW lease \in KnownLeases, Release(lease)
      PROVE  RowsAreLogged'
  <2>1. db' = Project(db, lease.run, lease, "released", "released") /\ SameLease(db, lease)
    BY <1>3 DEF Release, Commit, ReleaseIn, Refused, Ok
  <2>2. lease \in Leases
    BY <2>1, KnownLeaseOfRow
  <2> QED
    BY <1>1, <2>1, <2>2, ProjectIsLogged DEF RowsAreLogged, RowStates
<1>4. ASSUME NEW owner \in Owners, NEW batch \in SUBSET Runs, Revoke(owner, batch)
      PROVE  RowsAreLogged'
  BY <1>4, RevokeIsLogged
<1>5. ASSUME \/ \E lease \in KnownLeases : Settle(lease)
             \/ \E r \in Runs : Recover(r) \/ Cancel(r)
             \/ \E s \in Sessions : Archive(s)
             \/ UNCHANGED db
      PROVE  RowsAreLogged'
  <2>1. db'.rows = db.rows /\ db'.journal = db.journal
    BY <1>1, <1>5 DEF Settle, SettleIn, Recover, RecoverIn, Cancel, Archive, Commit, Ok, Refused,
                      Databases
  <2> QED
    BY <2>1 DEF RowsAreLogged
<1> QED
  BY <1>2, <1>3, <1>4, <1>5 DEF Next

-----------------------------------------------------------------------------
(* The inductive invariant.                                                 *)

IInv == Tables /\ OneOwnerPerSession /\ ReleasedAfterSettling /\ RowsAreLogged

\* An empty database.
LEMMA InitEstablishes ==
    ASSUME Init
    PROVE  IInv
<1>1. PICK floor \in 0..1 : db = EmptyDatabase(floor)
  BY DEF Init
<1>2. /\ db.rows = [r \in Runs |-> None] /\ db.status = [r \in Runs |-> "queued"]
      /\ db.archived = {} /\ db.floor = floor /\ db.journal = << >>
  BY <1>1 DEF EmptyDatabase
<1>3. TypeOK
  <2>1. << >> \in Seq(Events) /\ floor \in Nat
    BY <1>1
  <2> QED
    BY <1>1, <2>1 DEF EmptyDatabase, TypeOK, Databases, Statuses
<1>4. Fences(db) = {floor}
  BY <1>2 DEF Fences
<1> QED
  BY <1>1, <1>2, <1>3, <1>4
  DEF IInv, Tables, RowsFromDrafts, FencesHaveMaximum, OneOwnerPerSession, ActiveRow,
      ReleasedAfterSettling, RowsAreLogged, Logged, LoggedUpto

\* What a row becomes: it keeps its lease, unless it is the new one.
LEMMA RowsKeepLeases ==
    ASSUME Tables, [Next]_db, NEW r \in Runs, db.rows[r] # None
    PROVE  /\ db'.rows[r] # None
           /\ db'.rows[r].lease = db.rows[r].lease
           /\ db.rows[r].state # "active" => db'.rows[r] = db.rows[r]
<1>1. db.rows \in [Runs -> Rows \cup {None}] /\ db'.rows \in [Runs -> Rows \cup {None}]
  BY StepKeepsTypes DEF Tables, TypeOK, Databases
<1>2. \A l \in Leases, state \in RowStates : [lease |-> l, state |-> state] # None
  BY NoneRowAssumption DEF Rows
<1>3. db.rows[r].lease \in Leases
  BY RowFields DEF Tables
<1>4. ASSUME NEW draft \in Drafts, Starts(draft.run, Raise(db, draft))
      PROVE  db'.rows[r] = db.rows[r]
  BY <1>1, <1>4, DraftsAssumption, LeaseFields DEF Starts
<1>5. ASSUME NEW q \in Runs, GivesUp(q)
      PROVE  /\ db'.rows[r] # None
             /\ db'.rows[r].lease = db.rows[r].lease
             /\ db.rows[r].state # "active" => db'.rows[r] = db.rows[r]
  BY <1>1, <1>2, <1>3, <1>5 DEF GivesUp, ActiveRow, RowStates
<1>6. ASSUME NEW active \in SUBSET Runs, LoseAuthority(active)
      PROVE  /\ db'.rows[r] # None
             /\ db'.rows[r].lease = db.rows[r].lease
             /\ db.rows[r].state # "active" => db'.rows[r] = db.rows[r]
  BY <1>1, <1>2, <1>3, <1>6 DEF LoseAuthority, ActiveRow, RowStates
<1>7. Ends => db'.rows[r] = db.rows[r]
  BY DEF Ends
<1> QED
  BY <1>4, <1>5, <1>6, <1>7, StepEffects

\* A new row is the raised draft of its run.
LEMMA NewRowIsRaised ==
    ASSUME Tables, [Next]_db, NEW r \in Runs, db.rows[r] = None, db'.rows[r] # None
    PROVE  \E draft \in Drafts :
              /\ draft.run = r
              /\ Starts(r, Raise(db, draft))
              /\ db'.rows[r].lease = Raise(db, draft)
<1>1. db.rows \in [Runs -> Rows \cup {None}]
  BY DEF Tables, TypeOK, Databases
<1>2. \A q \in Runs : ActiveRow(db, q) => q # r
  BY DEF ActiveRow
<1>3. ASSUME NEW draft \in Drafts, Starts(draft.run, Raise(db, draft))
      PROVE  draft.run = r /\ db'.rows[r].lease = Raise(db, draft)
  BY <1>1, <1>3, DraftsAssumption, LeaseFields DEF Starts
<1>4. ~ \E q \in Runs : GivesUp(q)
  BY <1>1, <1>2 DEF GivesUp
<1>5. ~ \E active \in SUBSET Runs : LoseAuthority(active)
  BY <1>1, <1>2 DEF LoseAuthority
<1>6. ~Ends
  BY DEF Ends
<1>7. PICK draft \in Drafts : Starts(draft.run, Raise(db, draft))
  BY <1>4, <1>5, <1>6, StepEffects
<1> QED
  BY <1>3, <1>7

\* The rows outside the model stay.
LEMMA StepKeepsFloor ==
    ASSUME Tables, [Next]_db
    PROVE  db'.floor = db.floor
<1>1. db \in Databases
  BY DEF Tables, TypeOK
<1>2. \A draft \in Drafts : Claim(draft) => db'.floor = db.floor
  BY <1>1 DEF Claim, Commit, ClaimIn, Granted, Null, Refused, Project, Databases
<1>3. \A lease \in KnownLeases : Release(lease) \/ Settle(lease) => db'.floor = db.floor
  BY <1>1 DEF Release, Settle, Commit, ReleaseIn, SettleIn, Refused, Ok, Project, Databases
<1>4. ASSUME NEW owner \in Owners, NEW batch \in SUBSET Runs, Revoke(owner, batch)
      PROVE  db'.floor = db.floor
  <2>1. db' = RevokeIn(db, owner, batch).db
    BY <1>4 DEF Revoke, Commit
  <2>2. \A x, y : [db EXCEPT !.rows = x, !.journal = y].floor = db.floor
    BY <1>1 DEF Databases
  <2> QED
    BY <2>1, <2>2 DEF RevokeIn, Refused, Ok
<1>5. \A r \in Runs : Recover(r) \/ Cancel(r) => db'.floor = db.floor
  BY <1>1 DEF Recover, Cancel, Commit, RecoverIn, Refused, Ok, Databases
<1>6. \A s \in Sessions : Archive(s) => db'.floor = db.floor
  BY <1>1 DEF Archive, Databases
<1> QED
  BY <1>2, <1>3, <1>4, <1>5, <1>6 DEF Next

\* Rows stay those of drafts, and their fences keep a greatest one.
LEMMA StepKeepsTables ==
    ASSUME Tables, [Next]_db
    PROVE  Tables'
<1>1. TypeOK'
  BY StepKeepsTypes
<1>2. RowsFromDrafts'
  <2> SUFFICES ASSUME NEW r \in Runs, db'.rows[r] # None
               PROVE  /\ db'.rows[r].lease.run = r
                      /\ \E draft \in Drafts : SameDraft(db'.rows[r].lease, draft)
    BY DEF RowsFromDrafts
  <2>1. CASE db.rows[r] # None
    BY <2>1, RowsKeepLeases DEF Tables, RowsFromDrafts
  <2>2. CASE db.rows[r] = None
    <3>1. PICK draft \in Drafts : draft.run = r /\ db'.rows[r].lease = Raise(db, draft)
      BY <2>2, NewRowIsRaised
    <3> QED
      BY <3>1, RaiseFacts DEF SameDraft
  <2> QED
    BY <2>1, <2>2
<1>3. FencesHaveMaximum'
  <2> DEFINE Old == {db.rows[r].lease.fence : r \in {q \in Runs : db.rows[q] # None}}
  <2>1. Fences(db)' = {db'.floor} \cup {db'.rows[r].lease.fence : r \in {q \in Runs : db'.rows[q] # None}}
    BY DEF Fences
  <2>2. db'.floor = db.floor
    BY StepKeepsFloor
  <2>3. \A r \in Runs : db.rows[r] # None =>
           db'.rows[r] # None /\ db'.rows[r].lease.fence = db.rows[r].lease.fence
    BY RowsKeepLeases
  <2>4. Fences(db) \subseteq Fences(db)'
    BY <2>1, <2>2, <2>3 DEF Fences
  <2>5. CASE \A r \in Runs : db'.rows[r] # None => db.rows[r] # None
    <3>1. Fences(db)' \subseteq Fences(db)
      BY <2>1, <2>2, <2>3, <2>5 DEF Fences
    <3> QED
      BY <2>4, <3>1 DEF Tables, FencesHaveMaximum
  <2>6. CASE ~ \A r \in Runs : db'.rows[r] # None => db.rows[r] # None
    <3>1. PICK r \in Runs : db.rows[r] = None /\ db'.rows[r] # None
      BY <2>6
    <3>2. PICK draft \in Drafts : Starts(r, Raise(db, draft)) /\ db'.rows[r].lease = Raise(db, draft)
      BY <3>1, NewRowIsRaised
    <3> DEFINE new == Raise(db, draft).fence
    <3>3. \A q \in Runs : q # r => db'.rows[q] = db.rows[q]
      BY <3>2 DEF Starts, Tables, TypeOK, Databases
    <3>4. \A f \in Fences(db)' : f \in Fences(db) \/ f = new
      BY <2>1, <2>2, <3>2, <3>3 DEF Fences
    <3>5. new \in Fences(db)'
      BY <2>1, <3>1, <3>2
    <3>6. new \in Nat /\ \A f \in Fences(db) : f \in Nat /\ f < new
      BY RaiseFacts, LeaseFields, FencesAreNaturals DEF Tables
    <3> HIDE DEF new
    <3>7. \A f \in Fences(db)' : f <= new
      BY <3>4, <3>6
    <3> QED
      BY <3>5, <3>7 DEF FencesHaveMaximum
  <2> QED
    BY <2>5, <2>6
<1> QED
  BY <1>1, <1>2, <1>3 DEF Tables

\* A claim is the only step that gives authority, and it looks for another.
LEMMA StepKeepsOneOwner ==
    ASSUME Tables, OneOwnerPerSession, [Next]_db
    PROVE  OneOwnerPerSession'
<1> SUFFICES ASSUME NEW r \in Runs, NEW q \in Runs, ActiveRow(db, r)',
                    SessionOf[q] = SessionOf[r], q # r
             PROVE  ~ActiveRow(db, q)' /\ db'.status[q] # "running"
  BY DEF OneOwnerPerSession
<1>1. /\ db.rows \in [Runs -> Rows \cup {None}]
      /\ db.status \in [Runs -> Statuses]
  BY DEF Tables, TypeOK, Databases
<1>2. ASSUME NEW draft \in Drafts, Starts(draft.run, Raise(db, draft))
      PROVE  ~ActiveRow(db, q)' /\ db'.status[q] # "running"
  <2> DEFINE n == draft.run
  <2>1. n \in Runs
    BY DraftsAssumption, LeaseFields
  <2>2. \A m \in Runs : SessionOf[m] = SessionOf[n] => db.status[m] # "running" /\ ~ActiveRow(db, m)
    BY <1>2 DEF Starts, Claimable, SameSession
  <2>3. \A m \in Runs : m # n => db'.rows[m] = db.rows[m] /\ db'.status[m] = db.status[m]
    BY <1>1, <1>2, <2>1 DEF Starts
  <2>4. CASE r = n
    BY <2>2, <2>3, <2>4 DEF ActiveRow
  <2>5. CASE r # n
    <3>1. ActiveRow(db, r)
      BY <2>3, <2>5 DEF ActiveRow
    <3>2. q # n
      BY <2>2, <3>1
    <3> QED
      BY <2>3, <3>1, <3>2 DEF OneOwnerPerSession, ActiveRow
  <2> QED
    BY <2>4, <2>5
<1>3. ASSUME NEW m \in Runs, GivesUp(m)
      PROVE  ~ActiveRow(db, q)' /\ db'.status[q] # "running"
  BY <1>1, <1>3 DEF GivesUp, OneOwnerPerSession, ActiveRow
<1>4. ASSUME NEW active \in SUBSET Runs, LoseAuthority(active)
      PROVE  ~ActiveRow(db, q)' /\ db'.status[q] # "running"
  BY <1>1, <1>4 DEF LoseAuthority, OneOwnerPerSession, ActiveRow
<1>5. CASE Ends
  <2>1. db'.rows = db.rows
    BY <1>5 DEF Ends
  <2>2. db'.status[q] = "running" => db.status[q] = "running"
    BY <1>1, <1>5 DEF Ends
  <2> QED
    BY <2>1, <2>2 DEF OneOwnerPerSession, ActiveRow
<1> QED
  BY <1>2, <1>3, <1>4, <1>5, StepEffects

\* No step takes back the end of a run.
LEMMA StepKeepsReleased ==
    ASSUME Tables, ReleasedAfterSettling, [Next]_db
    PROVE  ReleasedAfterSettling'
<1> SUFFICES ASSUME NEW r \in Runs, db'.rows[r] # None, db'.rows[r].state = "released"
             PROVE  db'.status[r] = "settled"
  BY DEF ReleasedAfterSettling
<1>1. /\ db.rows \in [Runs -> Rows \cup {None}]
      /\ db.status \in [Runs -> Statuses]
  BY DEF Tables, TypeOK, Databases
<1>2. ASSUME NEW draft \in Drafts, Starts(draft.run, Raise(db, draft))
      PROVE  db'.status[r] = "settled"
  BY <1>1, <1>2, DraftsAssumption, LeaseFields DEF Starts, ReleasedAfterSettling
<1>3. ASSUME NEW m \in Runs, GivesUp(m)
      PROVE  db'.status[r] = "settled"
  BY <1>1, <1>3 DEF GivesUp, ReleasedAfterSettling
<1>4. ASSUME NEW active \in SUBSET Runs, LoseAuthority(active)
      PROVE  db'.status[r] = "settled"
  BY <1>1, <1>4 DEF LoseAuthority, ReleasedAfterSettling
<1>5. CASE Ends
  BY <1>1, <1>5 DEF Ends, ReleasedAfterSettling
<1> QED
  BY <1>2, <1>3, <1>4, <1>5, StepEffects

-----------------------------------------------------------------------------
\* The inductive invariant.
THEOREM Invariance == Spec => []IInv
<1>1. Init => IInv
  BY InitEstablishes
<1>2. IInv /\ [Next]_db => IInv'
  BY StepKeepsTables, StepKeepsOneOwner, StepKeepsReleased, StepKeepsLogged DEF IInv
<1> QED
  BY <1>1, <1>2, PTL DEF Spec

\* The tables have their types: transactions of runtime-state.ts.
THEOREM StateTyped == Spec => []TypeOK
<1>1. IInv => TypeOK
  BY DEF IInv, Tables
<1> QED
  BY <1>1, Invariance, PTL

\* At most one run of a session holds durable authority and no other runs:
\* the guards of claim against every other transaction.
THEOREM StateOneOwner == Spec => []OneOwnerPerSession
<1>1. IInv => OneOwnerPerSession
  BY DEF IInv
<1> QED
  BY <1>1, Invariance, PTL

\* Only an ended run has given up its row: release checks the run's status.
THEOREM StateReleasedAfterSettling == Spec => []ReleasedAfterSettling
<1>1. IInv => ReleasedAfterSettling
  BY DEF IInv
<1> QED
  BY <1>1, Invariance, PTL

\* restore of runtime-state.ts: replaying the execution.* events of the
\* session logs rebuilds the ownership table row by row.
THEOREM StateIsRebuilt == Spec => []JournalRebuildsRows
<1>1. IInv => JournalRebuildsRows
  <2> SUFFICES ASSUME IInv PROVE JournalRebuildsRows
    OBVIOUS
  <2>1. db.journal \in Seq(Events) /\ db.rows \in [Runs -> Rows \cup {None}]
    BY DEF IInv, Tables, TypeOK, Databases
  <2>2. PICK rows \in [Runs -> Rows \cup {None}] :
           rows = FoldLeft(Restore, [r \in Runs |-> None], db.journal) /\ Logged(rows, db.journal)
    BY <2>1, ReplayIsLogged
  <2>3. rows = db.rows
    <3>1. PICK n \in Nat : n = Len(db.journal)
      BY <2>1
    <3>2. LoggedUpto(rows, db.journal, n) /\ LoggedUpto(db.rows, db.journal, n)
      BY <2>2, <3>1 DEF IInv, RowsAreLogged, Logged
    <3>3. rows = [r \in Runs |-> rows[r]] /\ db.rows = [r \in Runs |-> db.rows[r]]
      BY <2>1
    <3> QED
      BY <3>2, <3>3, LoggedOnce
  <2> QED
    BY <2>2, <2>3 DEF JournalRebuildsRows
<1> QED
  BY <1>1, Invariance, PTL

Final ==
    \A r \in Runs : db.rows[r] # None =>
        /\ db'.rows[r] # None
        /\ db'.rows[r].lease = db.rows[r].lease
        /\ db.rows[r].state # "active" => db'.rows[r] = db.rows[r]

\* Rows keep their leases and ended authority never moves: a replayed claim, a
\* late release and a repeated revocation find nothing to change.
THEOREM StateAuthorityIsFinal == Spec => AuthorityIsFinal
<1>1. IInv /\ [Next]_db => [Final]_db
  BY RowsKeepLeases DEF IInv, Final
<1> QED
  BY <1>1, Invariance, PTL DEF Spec, AuthorityIsFinal, Final

Rising ==
    \A r \in Runs :
        db.rows[r] = None /\ db'.rows[r] # None =>
            \A f \in Fences(db) : f < db'.rows[r].lease.fence

\* A new row is fenced above every row before it, whatever the draft counted.
THEOREM StateFencesRise == Spec => FencesRise
<1>1. IInv /\ [Next]_db => [Rising]_db
  <2> SUFFICES ASSUME IInv, [Next]_db, NEW r \in Runs, db.rows[r] = None, db'.rows[r] # None
               PROVE  \A f \in Fences(db) : f < db'.rows[r].lease.fence
    BY DEF Rising
  <2> QED
    BY NewRowIsRaised, RaiseFacts DEF IInv
<1> QED
  BY <1>1, Invariance, PTL DEF Spec, FencesRise, Rising
=============================================================================
