---------------------- MODULE RecoveryAdmissionProofs ----------------------
(***************************************************************************)
(* Proofs about RecoveryAdmission, for every finite set of runs, all sets   *)
(* of Kernels and requests and any limits: the continuations of a run form  *)
(* one line, whose chain, records and log agree; no manual request is       *)
(* forgotten; and the whole implements ContinuationLineage.                 *)
(*                                                                          *)
(* The invariant is a predicate of a database, Sound(d), so that what a     *)
(* transaction does to it is proved once, whoever calls it and whenever it  *)
(* is applied.  Steps of the session that leave the tables alone only have  *)
(* to say what becomes of the runs.                                         *)
(***************************************************************************)
EXTENDS RecoveryAdmission, FiniteSetTheorems, TLAPS

-----------------------------------------------------------------------------
(* The inductive invariant, of a database d and of the admissions.          *)

Chain(d, root) == d.table.chains[root]

\* Lineage, of any database.
LineageOf(d, root) == {r \in Runs : Relation(d, r) # None /\ Relation(d, r).root = root}

\* A record in which a manual request is not forgotten.
Tried(record) == record.run # None \/ record.manual # None \/ Closed(record)

\* What no table knows of a run that does not exist yet, and which runs begin a
\* lineage.
Known(d) ==
    \A r \in Runs :
        /\ d.status[r] = "absent" =>
              /\ Relation(d, r) = None /\ Record(d, r) = None /\ Chain(d, r) = None
              /\ r \notin d.finished /\ r \notin Originals
        /\ Relation(d, r) # None => r \notin Originals
        /\ Relation(d, r) = None /\ d.status[r] # "absent" => r \in Originals

\* A run continues the run whose record names it, in the same lineage.
Linked(d) ==
    \A r \in Runs : Relation(d, r) # None =>
        LET from == Relation(d, r).from IN
        /\ Record(d, from) # None /\ Record(d, from).run = r
        /\ Relation(d, r).root = RootOf(d, from)
        /\ Relation(d, Relation(d, r).root) = None
        /\ Chain(d, Relation(d, r).root) # None

\* The record of a run that has not been continued is the one that its chain
\* was copied from, and the total limit closes it.
Recorded(d) ==
    \A r \in Runs : Record(d, r) # None =>
        LET record == Record(d, r) IN
        /\ d.status[r] = "interrupted"
        /\ record.chain.root = RootOf(d, r)
        /\ Chain(d, RootOf(d, r)) # None
        /\ record.run # None => Relation(d, record.run) # None /\ Relation(d, record.run).from = r
        /\ record.run = None => /\ record.chain = Chain(d, RootOf(d, r))
                                /\ record.chain.current = r
                                /\ record.chain.attempts >= TotalLimit => Closed(record)

\* A chain names the one run of its lineage that has not been continued.
Chained(d) ==
    \A root \in Runs : Chain(d, root) # None =>
        LET chain == Chain(d, root)
            tail  == Relation(d, chain.current)
        IN
        /\ chain.root = root /\ Relation(d, root) = None
        /\ chain.current \in LineageOf(d, root) \cup {root}
        /\ \A r \in LineageOf(d, root) \cup {root} :
              r # chain.current => Record(d, r) # None /\ Record(d, r).run # None
        /\ Record(d, chain.current) # None => Record(d, chain.current).run = None
        /\ chain.attempts = (IF tail = None THEN 0 ELSE tail.attempt)
        /\ chain.automatic = (IF tail = None THEN 0 ELSE tail.automatic)

\* The counters of a chain count its lineage.
Counted(d) ==
    \A root \in Runs : Chain(d, root) # None =>
        /\ Chain(d, root).attempts = Cardinality(LineageOf(d, root))
        /\ Chain(d, root).automatic =
              Cardinality({r \in LineageOf(d, root) : Relation(d, r).manual = None})

\* A cancellation of the first run of a lineage has reached its latest one.
Stopped(d) ==
    /\ \A r \in d.cancelled : d.status[r] \in {"running", "interrupted", "settled"}
    /\ \A root \in d.cancelled : Chain(d, root) # None =>
          \/ Chain(d, root).current \in d.cancelled
          \/ d.status[Chain(d, root).current] = "settled"

Sound(d) ==
    /\ d \in Databases /\ d.logged = d.table
    /\ Known(d) /\ Linked(d) /\ Recorded(d) /\ Chained(d) /\ Counted(d) /\ Stopped(d)

\* An entry whose pass tries a manual request has put it on record by the time
\* it is checked, and a waiting request has an entry that knows of a request.
Admitting(d, entries, requests) ==
    /\ \A k \in Kernels, r \in Runs :
          LET entry == entries[k][r] IN
          entry # None /\ entry.pass # None /\ entry.stage \in {"check", "queue", "refuse"}
             => Record(d, r) # None /\ Tried(Record(d, r))
    /\ \A q \in Requests :
          requests[q] # None /\ requests[q].stage = "waiting" =>
             LET entry == entries[requests[q].at][requests[q].run]
             IN  entry # None /\ entry.manual # None

IInv ==
    /\ Sound(db) /\ Admitting(db, pending, asks)
    /\ pending \in [Kernels -> [Runs -> Entries \cup {None}]]
    /\ asks \in [Requests -> Asks \cup {None}]
    /\ late \subseteq Calls

-----------------------------------------------------------------------------
(* Tables and their fields.                                                 *)

\* None is not a row, nor a reason.
LEMMA NoneFacts ==
    /\ None \notin Relations /\ None \notin Chains /\ None \notin Records
    /\ None \notin Reasons /\ None \notin Runs /\ None \notin Requests
    /\ None \notin Entries /\ None \notin Asks
  BY RecoveryAssumption, NoneAssumption, AdmissionAssumption

\* The rows of a database.
LEMMA Rows ==
    ASSUME NEW d \in Databases, NEW r \in Runs
    PROVE  /\ Record(d, r) \in Records \cup {None}
           /\ Relation(d, r) \in Relations \cup {None}
           /\ Chain(d, r) \in Chains \cup {None}
           /\ RootOf(d, r) \in Runs
           /\ d.status[r] \in Statuses
<1>1. /\ d.table.records \in [Runs -> Records \cup {None}]
      /\ d.table.relation \in [Runs -> Relations \cup {None}]
      /\ d.table.chains \in [Runs -> Chains \cup {None}]
      /\ d.status \in [Runs -> Statuses]
  BY DEF Databases, Projections
<1>2. Relation(d, r) \in Relations \cup {None}
  BY <1>1 DEF Relation
<1>3. RootOf(d, r) \in Runs
  BY <1>2 DEF RootOf, Relations
<1> QED BY <1>1, <1>2, <1>3 DEF Record, Chain

\* What publish leaves of the tables.
LEMMA Published ==
    ASSUME NEW d \in Databases, d.logged = d.table, NEW r \in Runs,
           NEW record \in Records, record.run = None
    PROVE  LET e == Publish(d, r, record).db IN
           /\ Publish(d, r, record).record = record
           /\ e \in Databases /\ e.logged = e.table
           /\ \A q \in Runs :
                 /\ Record(e, q) = (IF q = r THEN record ELSE Record(d, q))
                 /\ Chain(e, q) = (IF q = record.chain.root THEN record.chain ELSE Chain(d, q))
                 /\ Relation(e, q) = Relation(d, q)
                 /\ RootOf(e, q) = RootOf(d, q)
                 /\ LineageOf(e, q) = LineageOf(d, q)
           /\ e.status = d.status /\ e.cancelled = d.cancelled /\ e.finished = d.finished
           /\ e.asking = d.asking /\ e.unknown = d.unknown /\ e.archived = d.archived
           /\ e.unattended = d.unattended /\ e.owned = d.owned
<1> DEFINE t == Project(d.table, r, record, None)
           e == Publish(d, r, record).db
<1>1. e = [d EXCEPT !.table = t, !.logged = t]
  BY DEF Publish, Answer
<1>2. t = [records  |-> [d.table.records EXCEPT ![r] = record],
           chains   |-> [d.table.chains EXCEPT ![record.chain.root] = record.chain],
           relation |-> d.table.relation]
  BY DEF Project
<1>3. /\ d.table.records \in [Runs -> Records \cup {None}]
      /\ d.table.relation \in [Runs -> Relations \cup {None}]
      /\ d.table.chains \in [Runs -> Chains \cup {None}]
  BY DEF Databases, Projections
<1>4. record.chain \in Chains /\ record.chain.root \in Runs
  BY DEF Records, Chains
<1>5. t \in Projections
  BY <1>2, <1>3, <1>4 DEF Projections
<1>6. /\ e \in Databases /\ e.table = t /\ e.logged = t
      /\ e.status = d.status /\ e.cancelled = d.cancelled /\ e.finished = d.finished
      /\ e.asking = d.asking /\ e.unknown = d.unknown /\ e.archived = d.archived
      /\ e.unattended = d.unattended /\ e.owned = d.owned
  BY <1>1, <1>5 DEF Databases
<1>7. \A q \in Runs :
         /\ Record(e, q) = (IF q = r THEN record ELSE Record(d, q))
         /\ Chain(e, q) = (IF q = record.chain.root THEN record.chain ELSE Chain(d, q))
         /\ Relation(e, q) = Relation(d, q)
  BY <1>2, <1>3, <1>4, <1>6 DEF Record, Chain, Relation
<1>8. Publish(d, r, record).record = record
  BY DEF Publish, Answer
<1> HIDE DEF e, t
<1>9. \A q \in Runs : RootOf(e, q) = RootOf(d, q) /\ LineageOf(e, q) = LineageOf(d, q)
  BY <1>7 DEF RootOf, LineageOf
<1> QED BY <1>6, <1>7, <1>8, <1>9 DEF e

\* A row published for the run that its lineage has reached keeps the
\* invariant.
LEMMA PublishKeeps ==
    ASSUME NEW d, Sound(d), NEW r \in Runs, NEW record \in Records, record.run = None,
           record.chain.root = RootOf(d, r), record.chain.current = r,
           d.status[r] = "interrupted",
           Record(d, r) # None => Record(d, r).run = None,
           record.chain.attempts = (IF Relation(d, r) = None THEN 0 ELSE Relation(d, r).attempt),
           record.chain.automatic = (IF Relation(d, r) = None THEN 0 ELSE Relation(d, r).automatic),
           record.chain.attempts >= TotalLimit => Closed(record)
    PROVE  Sound(Publish(d, r, record).db)
<1> DEFINE e == Publish(d, r, record).db
           root == RootOf(d, r)
<1>1. d \in Databases /\ d.logged = d.table
  BY DEF Sound
<1>2. /\ e \in Databases /\ e.logged = e.table
      /\ e.status = d.status /\ e.cancelled = d.cancelled /\ e.finished = d.finished
      /\ \A q \in Runs : /\ Record(e, q) = (IF q = r THEN record ELSE Record(d, q))
                         /\ Chain(e, q) = (IF q = root THEN record.chain ELSE Chain(d, q))
                         /\ Relation(e, q) = Relation(d, q)
                         /\ RootOf(e, q) = RootOf(d, q)
                         /\ LineageOf(e, q) = LineageOf(d, q)
  BY <1>1, Published
<1>3. root \in Runs /\ record.chain \in Chains /\ record # None /\ record.chain # None
  BY <1>1, Rows, NoneFacts DEF Records
<1> HIDE DEF e, root
<1>4. /\ Relation(d, root) = None /\ RootOf(d, root) = root
      /\ d.status[root] # "absent"
      /\ r = root \/ r \in LineageOf(d, root)
  <2>1. CASE Relation(d, r) = None
    BY <2>1 DEF root, RootOf
  <2>2. CASE Relation(d, r) # None
    <3>1. root = Relation(d, r).root /\ Relation(d, root) = None /\ Chain(d, root) # None
      BY <2>2 DEF root, RootOf, Sound, Linked
    <3> QED BY <2>2, <3>1, <1>3 DEF RootOf, LineageOf, Sound, Known
  <2> QED BY <2>1, <2>2
<1>5. Chain(d, root) # None => Chain(d, root).current = r
  BY <1>3, <1>4 DEF Sound, Chained
<1>6. Chain(d, root) = None => r = root /\ LineageOf(d, root) = {} /\ Record(d, r) = None
  BY <1>3, <1>4 DEF Sound, Linked, LineageOf, Recorded
<1>7. Known(e)
  BY <1>2, <1>3, <1>4 DEF Sound, Known
<1>8. Linked(e)
  <2>1. Linked(d) /\ Recorded(d) /\ d \in Databases
    BY DEF Sound
  <2> SUFFICES ASSUME NEW q \in Runs, Relation(d, q) # None
               PROVE  LET from == Relation(d, q).from IN
                      /\ Record(e, from) # None /\ Record(e, from).run = q
                      /\ Relation(d, q).root = RootOf(d, from)
                      /\ Relation(d, Relation(d, q).root) = None
                      /\ Chain(e, Relation(d, q).root) # None
    <3>1. \A q \in Runs : Relation(d, q) # None => Relation(d, q).from \in Runs /\ Relation(d, q).root \in Runs
      BY <2>1, Rows DEF Relations
    <3> QED BY <3>1, <1>2 DEF Linked
  <2>2. Relation(d, q).from \in Runs /\ Relation(d, q).root \in Runs
    BY <2>1, Rows DEF Relations
  <2>3. Relation(d, q).from # r
    BY <2>1, NoneFacts DEF Linked
  <2> QED BY <1>2, <1>3, <2>1, <2>2, <2>3 DEF Linked
<1>9. Recorded(e)
  <2>1. Recorded(d) /\ Chained(d)
    BY DEF Sound
  <2> SUFFICES ASSUME NEW q \in Runs, Record(e, q) # None
               PROVE  LET row == Record(e, q) IN
                      /\ d.status[q] = "interrupted"
                      /\ row.chain.root = RootOf(d, q)
                      /\ Chain(e, RootOf(d, q)) # None
                      /\ row.run # None => Relation(e, row.run) # None /\ Relation(e, row.run).from = q
                      /\ row.run = None => /\ row.chain = Chain(e, RootOf(d, q))
                                           /\ row.chain.current = q
                                           /\ row.chain.attempts >= TotalLimit => Closed(row)
    BY <1>2 DEF Recorded
  <2>2. RootOf(d, q) \in Runs /\ Record(d, q) \in Records \cup {None}
    BY <1>1, Rows
  <2>3. CASE q = r
    BY <2>2, <2>3, <1>2, <1>3 DEF root
  <2>4. CASE q # r
    <3>1. Record(e, q) = Record(d, q) /\ Record(d, q) # None
      BY <2>4, <1>2
    <3>2. Record(d, q).run # None => Record(d, q).run \in Runs
      BY <2>2, <3>1 DEF Records
    <3>3. Record(d, q).run = None => RootOf(d, q) # root
      BY <2>1, <2>2, <2>4, <3>1, <1>5 DEF Recorded
    <3> QED BY <1>2, <1>3, <2>1, <2>2, <3>1, <3>2, <3>3 DEF Recorded
  <2> QED BY <2>3, <2>4
<1>10. \A q \in Runs : Chain(d, q) # None /\ q # root => r \notin LineageOf(d, q) \cup {q}
  BY <1>4, NoneFacts DEF Sound, Chained, LineageOf, RootOf, root
<1>11. Chained(e)
  <2>1. Chained(d) /\ d \in Databases
    BY DEF Sound
  <2> SUFFICES ASSUME NEW x \in Runs, Chain(e, x) # None
               PROVE  LET chain == Chain(e, x)
                          tail  == Relation(e, chain.current)
                      IN
                      /\ chain.root = x /\ Relation(e, x) = None
                      /\ chain.current \in LineageOf(e, x) \cup {x}
                      /\ \A q \in LineageOf(e, x) \cup {x} :
                            q # chain.current => Record(e, q) # None /\ Record(e, q).run # None
                      /\ Record(e, chain.current) # None => Record(e, chain.current).run = None
                      /\ chain.attempts = (IF tail = None THEN 0 ELSE tail.attempt)
                      /\ chain.automatic = (IF tail = None THEN 0 ELSE tail.automatic)
    BY DEF Chained
  <2>2. LineageOf(d, x) \subseteq Runs
    BY DEF LineageOf
  <2>3. CASE x # root
    <3>1. Chain(e, x) = Chain(d, x) /\ Chain(d, x) # None
      BY <2>3, <1>2
    <3>2. \A q \in LineageOf(d, x) \cup {x} : Record(e, q) = Record(d, q) /\ Relation(e, q) = Relation(d, q)
      BY <2>2, <2>3, <3>1, <1>2, <1>10
    <3>3. LineageOf(e, x) = LineageOf(d, x)
      BY <1>2
    <3>4. Chain(d, x).current \in LineageOf(d, x) \cup {x}
      BY <3>1, <2>1 DEF Chained
    <3> QED BY <3>1, <3>2, <3>3, <3>4, <2>1 DEF Chained
  <2>4. CASE x = root
    <3>1. Chain(e, x) = record.chain
      BY <2>4, <1>2
    <3>2. \A q \in LineageOf(d, root) \cup {root} : q # r => Record(d, q) # None /\ Record(d, q).run # None
      BY <1>3, <1>5, <1>6, <2>1 DEF Chained
    <3>3. \A q \in LineageOf(d, root) \cup {root} : q # r => Record(e, q) = Record(d, q)
      BY <1>2, <1>3, <2>2, <2>4
    <3> QED BY <2>4, <3>1, <3>2, <3>3, <1>2, <1>4 DEF root
  <2> QED BY <2>3, <2>4
<1>12. Counted(e)
  <2>1. Counted(d) /\ Chained(d)
    BY DEF Sound
  <2> SUFFICES ASSUME NEW x \in Runs, Chain(e, x) # None
               PROVE  /\ Chain(e, x).attempts = Cardinality(LineageOf(d, x))
                      /\ Chain(e, x).automatic =
                            Cardinality({q \in LineageOf(d, x) : Relation(d, q).manual = None})
    <3>1. \A x \in Runs : {q \in LineageOf(e, x) : Relation(e, q).manual = None}
                             = {q \in LineageOf(d, x) : Relation(d, q).manual = None}
      BY <1>2 DEF LineageOf
    <3> QED BY <3>1, <1>2 DEF Counted
  <2>2. CASE x # root
    BY <2>1, <2>2, <1>2 DEF Counted
  <2>3. CASE x = root /\ Chain(d, root) # None
    <3>1. /\ Chain(e, x) = record.chain /\ Chain(d, root).current = r
      BY <2>3, <1>2, <1>3, <1>5
    <3>2. /\ Chain(d, root).attempts = (IF Relation(d, r) = None THEN 0 ELSE Relation(d, r).attempt)
          /\ Chain(d, root).automatic = (IF Relation(d, r) = None THEN 0 ELSE Relation(d, r).automatic)
      BY <2>1, <2>3, <1>3, <3>1 DEF Chained
    <3>3. /\ Chain(d, root).attempts = Cardinality(LineageOf(d, root))
          /\ Chain(d, root).automatic =
                Cardinality({q \in LineageOf(d, root) : Relation(d, q).manual = None})
      BY <2>1, <2>3, <1>3 DEF Counted
    <3> QED BY <2>3, <3>1, <3>2, <3>3
  <2>4. CASE x = root /\ Chain(d, root) = None
    <3>1. LineageOf(d, x) = {} /\ Relation(d, r) = None /\ Chain(e, x) = record.chain
      BY <2>4, <1>2, <1>4, <1>6
    <3>2. {q \in LineageOf(d, x) : Relation(d, q).manual = None} = {}
      BY <3>1
    <3>3. Cardinality({}) = 0
      BY FS_EmptySet
    <3> QED BY <3>1, <3>2, <3>3
  <2> QED BY <2>2, <2>3, <2>4
<1>13. Stopped(e)
  <2>1. Stopped(d) /\ d.cancelled \subseteq Runs
    BY <1>1 DEF Sound, Databases
  <2>2. \A x \in d.cancelled : Chain(e, x) # None => \/ Chain(e, x).current \in d.cancelled
                                                   \/ d.status[Chain(e, x).current] = "settled"
    BY <2>1, <1>2, <1>5, <1>6 DEF Stopped
  <2> QED BY <2>1, <2>2, <1>2 DEF Stopped
<1> QED BY <1>2, <1>7, <1>8, <1>9, <1>11, <1>12, <1>13 DEF Sound, e

-----------------------------------------------------------------------------
(* The transactions of a continuation.                                      *)

\* A transaction leaves the runs and their relations alone.
SameRuns(d, e) ==
    /\ e.status = d.status /\ e.cancelled = d.cancelled /\ e.finished = d.finished
    /\ e.asking = d.asking /\ e.unknown = d.unknown
    /\ e.archived = d.archived /\ e.unattended = d.unattended
    /\ \A r \in Runs : Relation(e, r) = Relation(d, r)

\* No record is lost, nor a manual request forgotten in one.
Grows(d, e) ==
    \A r \in Runs : Record(d, r) # None =>
        Record(e, r) # None /\ (Tried(Record(d, r)) => Tried(Record(e, r)))

\* What the invariant says of a record that a call finds.
LEMMA Found ==
    ASSUME NEW d, Sound(d), NEW r \in Runs, Record(d, r) # None, Record(d, r).run = None
    PROVE  LET record == Record(d, r) IN
           /\ record \in Records /\ record.chain \in Chains
           /\ record.chain.root = RootOf(d, r) /\ record.chain.current = r
           /\ d.status[r] = "interrupted"
           /\ record.chain.attempts = (IF Relation(d, r) = None THEN 0 ELSE Relation(d, r).attempt)
           /\ record.chain.automatic = (IF Relation(d, r) = None THEN 0 ELSE Relation(d, r).automatic)
           /\ record.chain.attempts >= TotalLimit => Closed(record)
           /\ Chain(d, RootOf(d, r)) = record.chain /\ RootOf(d, r) \in Runs
<1>1. Record(d, r) \in Records /\ RootOf(d, r) \in Runs
  BY Rows DEF Sound
<1>2. Record(d, r).chain \in Chains
  BY <1>1 DEF Records
<1>3. /\ Record(d, r).chain.root = RootOf(d, r) /\ Record(d, r).chain.current = r
      /\ d.status[r] = "interrupted"
      /\ Record(d, r).chain.attempts >= TotalLimit => Closed(Record(d, r))
      /\ Chain(d, RootOf(d, r)) = Record(d, r).chain
      /\ Chain(d, RootOf(d, r)) # None
  BY DEF Sound, Recorded
<1>4. /\ Record(d, r).chain.attempts = (IF Relation(d, r) = None THEN 0 ELSE Relation(d, r).attempt)
      /\ Record(d, r).chain.automatic = (IF Relation(d, r) = None THEN 0 ELSE Relation(d, r).automatic)
  BY <1>1, <1>3 DEF Sound, Chained
<1> QED BY <1>1, <1>2, <1>3, <1>4

\* planRecovery.
LEMMA PlanKeeps ==
    ASSUME NEW d, Sound(d), NEW r \in Runs
    PROVE  LET answer == Plan(d, r) IN
           /\ Sound(answer.db) /\ SameRuns(d, answer.db) /\ Grows(d, answer.db)
           /\ answer.record # None => answer.record = Record(answer.db, r)
<1>1. d \in Databases /\ d.logged = d.table
  BY DEF Sound
<1>2. CASE Record(d, r) # None
  BY <1>2 DEF Plan, Answer, SameRuns, Grows
<1>3. CASE Record(d, r) = None /\ (r \in d.owned \/ d.status[r] # "interrupted")
  BY <1>3 DEF Plan, Answer, Refuse, SameRuns, Grows
<1>4. CASE Record(d, r) = None /\ r \notin d.owned /\ d.status[r] = "interrupted"
  <2> DEFINE relation  == Relation(d, r)
             attempts  == IF relation = None THEN 0 ELSE relation.attempt
             automatic == IF relation = None THEN 0 ELSE relation.automatic
             reason    == CASE attempts >= TotalLimit -> "RECOVERY_TOTAL_LIMIT"
                            [] attempts < TotalLimit /\ automatic >= AutomaticLimit -> "RECOVERY_LIMIT"
                            [] OTHER -> Reason(d, r)
             chain  == [root |-> RootOf(d, r), current |-> r, attempts |-> attempts,
                        automatic |-> automatic, status |-> PlanStatus(reason), reason |-> reason]
             record == [chain |-> chain, manual |-> None, run |-> None]
  <2>1. relation \in Relations \cup {None} /\ RootOf(d, r) \in Runs
    BY <1>1, Rows
  <2>2. attempts \in Nat /\ automatic \in Nat /\ TotalLimit \in Nat /\ AutomaticLimit \in Nat
    BY <2>1, RecoveryAssumption DEF Relations
  <2>3. Reason(d, r) \in Reasons \cup {None}
    BY DEF Reason, Reasons
  <2>4. reason \in Reasons \cup {None}
    BY <2>2, <2>3 DEF Reasons
  <2>5. PlanStatus(reason) \in {"pending", "waiting", "manual_required"}
    BY DEF PlanStatus
  <2>6. attempts >= TotalLimit => reason = "RECOVERY_TOTAL_LIMIT"
    BY <2>2
  <2>7. reason = "RECOVERY_TOTAL_LIMIT" => PlanStatus(reason) = "manual_required"
    BY NoneFacts DEF PlanStatus, Reasons
  <2>8. Plan(d, r) = Publish(d, r, record)
    BY <1>4 DEF Plan
  <2> HIDE DEF attempts, automatic, reason
  <2>9. record \in Records
    BY <2>1, <2>2, <2>4, <2>5 DEF Records, Chains
  <2>10. attempts >= TotalLimit => Closed(record)
    BY <2>6, <2>7 DEF Closed
  <2>11. Sound(Publish(d, r, record).db)
    <3>1. /\ record.run = None /\ record.chain.root = RootOf(d, r) /\ record.chain.current = r
          /\ record.chain.attempts = attempts /\ record.chain.automatic = automatic
      OBVIOUS
    <3> HIDE DEF record
    <3> QED BY <1>4, <2>9, <2>10, <3>1, PublishKeeps DEF attempts, automatic
  <2>12. record.run = None
    OBVIOUS
  <2> HIDE DEF record
  <2>13. /\ SameRuns(d, Publish(d, r, record).db) /\ Grows(d, Publish(d, r, record).db)
         /\ Publish(d, r, record).record = Record(Publish(d, r, record).db, r)
    BY <1>1, <1>4, <2>9, <2>12, Published DEF SameRuns, Grows
  <2> QED BY <2>8, <2>11, <2>13
<1> QED BY <1>2, <1>3, <1>4

\* Two records of the same place in the same lineage.
SameChain(a, b) ==
    /\ a.chain.root = b.chain.root /\ a.chain.current = b.chain.current
    /\ a.chain.attempts = b.chain.attempts /\ a.chain.automatic = b.chain.automatic

\* A record with another request, status and reason.
Rewritten(a, m, s, c) == [a EXCEPT !.manual = m, !.chain = [@ EXCEPT !.status = s, !.reason = c]]

\* Holding a record keeps its place and its successor.
LEMMA HeldRow ==
    ASSUME NEW a \in Records, NEW m \in Requests \cup {None}, NEW c \in Reasons \cup {None},
           NEW s \in {"pending", "waiting", "manual_required", "running"}
    PROVE  LET b == Rewritten(a, m, s, c)
           IN  b \in Records /\ SameChain(b, a) /\ b.run = a.run /\ b.manual = m
<1> DEFINE chain == [a.chain EXCEPT !.status = s, !.reason = c]
<1>1. a.chain \in Chains
  BY DEF Records
<1>2. chain \in Chains /\ chain.root = a.chain.root /\ chain.current = a.chain.current
      /\ chain.attempts = a.chain.attempts /\ chain.automatic = a.chain.automatic
  BY <1>1 DEF Chains
<1> HIDE DEF chain
<1> DEFINE b == [a EXCEPT !.manual = m, !.chain = chain]
<1>3. b \in Records
  BY <1>2 DEF Records
<1>4. b.chain = chain /\ b.manual = m /\ b.run = a.run
  BY DEF Records
<1> HIDE DEF b
<1>5. b \in Records /\ SameChain(b, a) /\ b.run = a.run /\ b.manual = m
  BY <1>2, <1>3, <1>4 DEF SameChain
<1> QED BY <1>5 DEF b, chain, Rewritten

\* holdRecovery; with a manual request it answers with a record that keeps
\* one, or that needs none any more.
LEMMA HoldKeeps ==
    ASSUME NEW d, Sound(d), NEW r \in Runs, NEW reason \in Reasons \cup {None},
           NEW q \in Requests \cup {None}
    PROVE  LET answer == Hold(d, r, reason, q) IN
           /\ Sound(answer.db) /\ SameRuns(d, answer.db) /\ Grows(d, answer.db)
           /\ answer.record # None => /\ answer.record = Record(answer.db, r)
                                      /\ q # None => Tried(answer.record)
<1> DEFINE record == Record(d, r)
           code   == IF Reason(d, r) # None THEN Reason(d, r) ELSE reason
           held   == [record EXCEPT !.manual = IF q = None THEN @ ELSE q,
                                    !.chain = [@ EXCEPT
                                        !.status = IF code = None THEN "pending" ELSE "waiting",
                                        !.reason = code]]
<1>1. d \in Databases /\ d.logged = d.table
  BY DEF Sound
<1>2. CASE record = None \/ Conflicting(record, q)
  BY <1>2 DEF Hold, Refuse, Answer, SameRuns, Grows
<1>3. CASE record # None /\ ~Conflicting(record, q) /\ Kept(d, r, record, q, code)
  <2>1. Hold(d, r, reason, q) = Answer(d, record)
    BY <1>3 DEF Hold
  <2>2. q # None => Tried(record)
    <3>1. CASE record.run # None
      BY <3>1 DEF Tried
    <3>2. CASE record.run = None
      BY <1>3, <3>2, Found DEF Kept, Tried
    <3> QED BY <3>1, <3>2
  <2> QED BY <1>3, <2>1, <2>2 DEF Answer, SameRuns, Grows
<1>4. CASE record # None /\ ~Conflicting(record, q) /\ ~Kept(d, r, record, q, code)
  <2>1. Hold(d, r, reason, q) = Publish(d, r, held)
    BY <1>4 DEF Hold
  <2>2. record.run = None
    BY <1>4 DEF Kept
  <2>3. /\ record \in Records /\ record.chain \in Chains
        /\ record.chain.root = RootOf(d, r) /\ record.chain.current = r
        /\ d.status[r] = "interrupted"
        /\ record.chain.attempts = (IF Relation(d, r) = None THEN 0 ELSE Relation(d, r).attempt)
        /\ record.chain.automatic = (IF Relation(d, r) = None THEN 0 ELSE Relation(d, r).automatic)
        /\ record.chain.attempts >= TotalLimit => Closed(record)
    BY <1>4, <2>2, Found
  <2>4. code \in Reasons \cup {None}
    BY DEF Reason, Reasons
  <2>5. ~Closed(record)
    BY <1>4 DEF Kept, Closed
  <2> HIDE DEF code
  <2>6. held \in Records /\ SameChain(held, record)
        /\ held.run = record.run /\ held.manual = (IF q = None THEN record.manual ELSE q)
    <3> DEFINE status == IF code = None THEN "pending" ELSE "waiting"
               manual == IF q = None THEN record.manual ELSE q
    <3>1. held = Rewritten(record, manual, status, code)
      BY DEF Rewritten
    <3>2. manual \in Requests \cup {None} /\ status \in {"pending", "waiting", "manual_required", "running"}
      BY <2>3 DEF Records
    <3>3. record \in Records
      BY <2>3
    <3>4. \A m \in Requests \cup {None}, s \in {"pending", "waiting", "manual_required", "running"} :
             LET b == Rewritten(record, m, s, code)
             IN  b \in Records /\ SameChain(b, record) /\ b.run = record.run /\ b.manual = m
      BY <2>4, <3>3, HeldRow
    <3> HIDE DEF manual, status, held, record, code
    <3>5. held \in Records /\ SameChain(held, record) /\ held.run = record.run /\ held.manual = manual
      BY <3>1, <3>2, <3>4
    <3> QED BY <3>5 DEF manual
  <2> HIDE DEF held, record
  <2>7. held \in Records
    BY <2>6
  <2>8. /\ held.run = None /\ held.chain.root = RootOf(d, r) /\ held.chain.current = r
        /\ held.chain.attempts = record.chain.attempts
        /\ held.chain.automatic = record.chain.automatic
        /\ held.manual = (IF q = None THEN record.manual ELSE q)
    BY <2>2, <2>3, <2>6 DEF SameChain
  <2>9. ~(held.chain.attempts >= TotalLimit)
    BY <2>3, <2>5, <2>8
  <2>10. Sound(Publish(d, r, held).db)
    BY <2>2, <2>3, <2>7, <2>8, <2>9, PublishKeeps DEF record
  <2>11. /\ SameRuns(d, Publish(d, r, held).db)
         /\ Publish(d, r, held).record = held
         /\ held = Record(Publish(d, r, held).db, r) /\ held # None
         /\ \A x \in Runs : x # r => Record(Publish(d, r, held).db, x) = Record(d, x)
    BY <1>1, <2>7, <2>8, NoneFacts, Published DEF SameRuns
  <2>12. Tried(record) => Tried(held)
    BY <2>2, <2>5, <2>8 DEF Tried
  <2>13. q # None => Tried(held)
    BY <2>8 DEF Tried
  <2>14. Grows(d, Publish(d, r, held).db)
    BY <2>11, <2>12 DEF Grows, record
  <2> QED BY <2>1, <2>10, <2>11, <2>13, <2>14
<1> QED BY <1>2, <1>3, <1>4

\* A record with another status and reason, for the lemma after it.
Restated(a, s, c) == [a EXCEPT !.chain = [@ EXCEPT !.status = s, !.reason = c]]

\* Withholding a record keeps its place, its request and its successor.
LEMMA RestatedRow ==
    ASSUME NEW a \in Records, NEW c \in Reasons \cup {None},
           NEW s \in {"pending", "waiting", "manual_required", "running"}
    PROVE  LET b == Restated(a, s, c)
           IN  b \in Records /\ SameChain(b, a) /\ b.run = a.run /\ b.manual = a.manual
<1> DEFINE chain == [a.chain EXCEPT !.status = s, !.reason = c]
<1>1. a.chain \in Chains
  BY DEF Records
<1>2. chain \in Chains /\ chain.root = a.chain.root /\ chain.current = a.chain.current
      /\ chain.attempts = a.chain.attempts /\ chain.automatic = a.chain.automatic
  BY <1>1 DEF Chains
<1> HIDE DEF chain
<1> DEFINE b == [a EXCEPT !.chain = chain]
<1>3. b \in Records /\ b.chain = chain /\ b.manual = a.manual /\ b.run = a.run
  BY <1>2 DEF Records
<1> HIDE DEF b
<1>4. b \in Records /\ SameChain(b, a) /\ b.run = a.run /\ b.manual = a.manual
  BY <1>2, <1>3 DEF SameChain
<1> QED BY <1>4 DEF b, chain, Restated

\* queueRecovery queues s to continue r.
Continues(d, e, r, s) ==
    LET record == Record(d, r) IN
    /\ record # None /\ record.run = None /\ record.chain.status = "pending"
    /\ Withheld(d, r, record) = None /\ ~Spent(record)
    /\ e.status = [d.status EXCEPT ![s] = "queued"]
    /\ e.cancelled = d.cancelled /\ e.finished = d.finished
    /\ e.asking = d.asking /\ e.unknown = d.unknown
    /\ e.archived = d.archived /\ e.unattended = d.unattended
    /\ \A q \in Runs : Relation(e, q) = (IF q = s THEN Successor(record, r) ELSE Relation(d, q))

\* The row of the run that is queued, and its record.
Continued(a, r, s) ==
    [a EXCEPT !.run = s,
              !.chain = [@ EXCEPT !.attempts = Successor(a, r).attempt,
                                  !.automatic = Successor(a, r).automatic,
                                  !.status = "running", !.current = s]]

\* The new run continues the one it was queued for, at the next place.
LEMMA QueuedRow ==
    ASSUME NEW a \in Records, NEW r \in Runs, NEW s \in Runs
    PROVE  LET relation == Successor(a, r)
               b == Continued(a, r, s)
           IN  /\ relation \in Relations /\ relation.from = r /\ relation.root = a.chain.root
               /\ relation.attempt = a.chain.attempts + 1 /\ relation.manual = a.manual
               /\ relation.automatic = a.chain.automatic + (IF a.manual = None THEN 1 ELSE 0)
               /\ b \in Records /\ b.run = s /\ b.manual = a.manual
               /\ b.chain.root = a.chain.root /\ b.chain.current = s
               /\ b.chain.attempts = relation.attempt /\ b.chain.automatic = relation.automatic
<1> DEFINE relation == Successor(a, r)
           chain == [a.chain EXCEPT !.attempts = relation.attempt,
                                    !.automatic = relation.automatic,
                                    !.status = "running", !.current = s]
<1>1. a.chain \in Chains /\ a.manual \in Requests \cup {None}
  BY DEF Records
<1>2. /\ relation \in Relations /\ relation.from = r /\ relation.root = a.chain.root
      /\ relation.attempt = a.chain.attempts + 1 /\ relation.manual = a.manual
      /\ relation.automatic = a.chain.automatic + (IF a.manual = None THEN 1 ELSE 0)
  BY <1>1 DEF Chains, Relations, Successor
<1> HIDE DEF relation
<1>3. chain \in Chains /\ chain.root = a.chain.root /\ chain.current = s
      /\ chain.attempts = relation.attempt /\ chain.automatic = relation.automatic
  BY <1>1, <1>2 DEF Chains, Relations
<1> HIDE DEF chain
<1> DEFINE b == [a EXCEPT !.run = s, !.chain = chain]
<1>4. b \in Records /\ b.chain = chain /\ b.manual = a.manual /\ b.run = s
  BY <1>3 DEF Records
<1> HIDE DEF b
<1>5. /\ b \in Records /\ b.run = s /\ b.manual = a.manual
      /\ b.chain.root = a.chain.root /\ b.chain.current = s
      /\ b.chain.attempts = relation.attempt /\ b.chain.automatic = relation.automatic
  BY <1>3, <1>4
<1> QED BY <1>2, <1>5 DEF relation, b, chain, Continued

\* What the event of queue and the rows leave of the tables.
WithQueued(d, r, s, record, relation) ==
    Log([d EXCEPT !.table = Project(@, r, record, relation), !.status[s] = "queued"], r, record, relation)

\* Queueing changes one record, one chain, one relation and one status.
LEMMA QueuedTables ==
    ASSUME NEW d \in Databases, d.logged = d.table, NEW r \in Runs, NEW s \in Runs,
           NEW record \in Records, record.run = s, NEW relation \in Relations,
           Relation(d, s) = None
    PROVE  LET e == WithQueued(d, r, s, record, relation) IN
           /\ e \in Databases /\ e.logged = e.table
           /\ \A q \in Runs :
                 /\ Record(e, q) = (IF q = r THEN record ELSE Record(d, q))
                 /\ Chain(e, q) = (IF q = record.chain.root THEN record.chain ELSE Chain(d, q))
                 /\ Relation(e, q) = (IF q = s THEN relation ELSE Relation(d, q))
           /\ e.status = [d.status EXCEPT ![s] = "queued"]
           /\ e.cancelled = d.cancelled /\ e.finished = d.finished
           /\ e.asking = d.asking /\ e.unknown = d.unknown
           /\ e.archived = d.archived /\ e.unattended = d.unattended
<1> DEFINE t == Project(d.table, r, record, relation)
           c == [d EXCEPT !.table = t, !.status[s] = "queued"]
           e == [c EXCEPT !.logged = t]
<1>1. t = [records  |-> [d.table.records EXCEPT ![r] = record],
           chains   |-> [d.table.chains EXCEPT ![record.chain.root] = record.chain],
           relation |-> [d.table.relation EXCEPT ![s] = relation]]
  BY NoneFacts DEF Project, Relation
<1>2. /\ d.table.records \in [Runs -> Records \cup {None}]
      /\ d.table.relation \in [Runs -> Relations \cup {None}]
      /\ d.table.chains \in [Runs -> Chains \cup {None}]
      /\ d.status \in [Runs -> Statuses]
  BY DEF Databases, Projections
<1>3. record.chain \in Chains /\ record.chain.root \in Runs
  BY DEF Records, Chains
<1>4. t \in Projections
  BY <1>1, <1>2, <1>3 DEF Projections
<1> DEFINE status == [d.status EXCEPT ![s] = "queued"]
<1>5. status \in [Runs -> Statuses]
  BY <1>2 DEF Statuses
<1>6. c = [d EXCEPT !.table = t, !.status = status]
  OBVIOUS
<1> HIDE DEF t, status
<1>7. /\ c \in Databases /\ c.table = t /\ c.status = status /\ c.logged = d.logged
      /\ c.cancelled = d.cancelled /\ c.finished = d.finished
      /\ c.asking = d.asking /\ c.unknown = d.unknown
      /\ c.archived = d.archived /\ c.unattended = d.unattended
  BY <1>4, <1>5, <1>6 DEF Databases
<1> HIDE DEF c
<1>8. /\ e \in Databases /\ e.table = t /\ e.logged = t /\ e.status = c.status
      /\ e.cancelled = c.cancelled /\ e.finished = c.finished
      /\ e.asking = c.asking /\ e.unknown = c.unknown
      /\ e.archived = c.archived /\ e.unattended = c.unattended
  BY <1>4, <1>7 DEF Databases
<1>9. WithQueued(d, r, s, record, relation) = e
  BY <1>7 DEF WithQueued, Log, QueuedEvent, c, t
<1> HIDE DEF e
<1>10. \A q \in Runs :
          /\ Record(e, q) = (IF q = r THEN record ELSE Record(d, q))
          /\ Chain(e, q) = (IF q = record.chain.root THEN record.chain ELSE Chain(d, q))
          /\ Relation(e, q) = (IF q = s THEN relation ELSE Relation(d, q))
  BY <1>1, <1>2, <1>3, <1>8 DEF Record, Chain, Relation
<1> QED BY <1>7, <1>8, <1>9, <1>10 DEF status

\* A record that a new run continues keeps the invariant: its chain moves on to
\* that run.
LEMMA ContinueKeeps ==
    ASSUME NEW d, Sound(d), NEW e \in Databases, e.logged = e.table,
           NEW r \in Runs, NEW s \in Runs, d.status[s] = "absent",
           Continues(d, e, r, s), NEW queued \in Records,
           queued.run = s, queued.chain.root = RootOf(d, r), queued.chain.current = s,
           queued.chain.attempts = Successor(Record(d, r), r).attempt,
           queued.chain.automatic = Successor(Record(d, r), r).automatic,
           \A q \in Runs :
              /\ Record(e, q) = (IF q = r THEN queued ELSE Record(d, q))
              /\ Chain(e, q) = (IF q = RootOf(d, r) THEN queued.chain ELSE Chain(d, q))
    PROVE  Sound(e)
<1> DEFINE root == RootOf(d, r)
           record == Record(d, r)
           relation == Successor(record, r)
<1>1. /\ record \in Records /\ record.chain.root = root /\ record.chain.current = r
      /\ d.status[r] = "interrupted" /\ root \in Runs /\ Chain(d, root) = record.chain
      /\ record.chain \in Chains
  BY Found DEF Continues
<1>2. /\ relation \in Relations /\ relation.from = r /\ relation.root = root
      /\ relation.attempt = record.chain.attempts + 1 /\ relation.manual = record.manual
      /\ relation.automatic = record.chain.automatic + (IF record.manual = None THEN 1 ELSE 0)
  BY <1>1, QueuedRow
<1>3. /\ \A q \in Runs : Relation(e, q) = (IF q = s THEN relation ELSE Relation(d, q))
      /\ \A q \in Runs : e.status[q] = (IF q = s THEN "queued" ELSE d.status[q])
      /\ e.cancelled = d.cancelled /\ e.finished = d.finished
  <2>1. d.status \in [Runs -> Statuses]
    BY DEF Sound, Databases
  <2> QED BY <2>1 DEF Continues
<1>4. record # None /\ record.run = None /\ Reason(d, r) = None
  BY DEF Continues, Withheld
<1> HIDE DEF relation, record, root
<1>5. /\ queued # None /\ queued.chain # None /\ queued.chain \in Chains /\ relation # None
      /\ record.chain # None
  BY <1>1, <1>2, NoneFacts DEF Records
<1>6. /\ Relation(d, s) = None /\ Record(d, s) = None /\ Chain(d, s) = None
      /\ s \notin d.finished /\ s \notin Originals /\ s \notin d.cancelled
      /\ s # r /\ s # root
  <2>1. s \notin d.cancelled
    BY DEF Sound, Stopped
  <2> QED BY <2>1, <1>1, <1>5 DEF Sound, Known
<1>7. /\ \A q \in Runs : Record(e, q) = (IF q = r THEN queued ELSE Record(d, q))
      /\ \A q \in Runs : Chain(e, q) = (IF q = root THEN queued.chain ELSE Chain(d, q))
  BY DEF root
<1>8. /\ \A q \in Runs : q # s => RootOf(e, q) = RootOf(d, q)
      /\ RootOf(e, s) = root
  BY <1>2, <1>3, <1>5 DEF RootOf
<1>9. /\ LineageOf(e, root) = LineageOf(d, root) \cup {s}
      /\ \A q \in Runs : s \notin LineageOf(d, q)
      /\ \A q \in Runs : q # root => LineageOf(e, q) = LineageOf(d, q)
  BY <1>2, <1>3, <1>5, <1>6 DEF LineageOf
<1>10. /\ Relation(d, root) = None
       /\ r \in LineageOf(d, root) \cup {root}
       /\ \A q \in LineageOf(d, root) \cup {root} :
             q # r => Record(d, q) # None /\ Record(d, q).run # None
  BY <1>1, <1>5 DEF Sound, Chained
<1>11. \A q \in Runs : Chain(d, q) # None /\ q # root => r \notin LineageOf(d, q) \cup {q}
  BY <1>1, <1>10, NoneFacts DEF Sound, Chained, LineageOf, RootOf, root
<1>12. Known(e)
  BY <1>3, <1>5, <1>6, <1>7, <1>1 DEF Sound, Known
<1>13. Linked(e)
  <2>1. Linked(d) /\ Known(d) /\ d \in Databases
    BY DEF Sound
  <2> SUFFICES ASSUME NEW q \in Runs, Relation(e, q) # None
               PROVE  LET from == Relation(e, q).from IN
                      /\ Record(e, from) # None /\ Record(e, from).run = q
                      /\ Relation(e, q).root = RootOf(e, from)
                      /\ Relation(e, Relation(e, q).root) = None
                      /\ Chain(e, Relation(e, q).root) # None
    BY DEF Linked
  <2>2. CASE q = s
    BY <2>2, <1>1, <1>2, <1>3, <1>5, <1>6, <1>7, <1>8, <1>10 DEF root
  <2>3. CASE q # s
    <3>1. Relation(e, q) = Relation(d, q) /\ Relation(d, q) # None
      BY <2>3, <1>3
    <3>2. Relation(d, q).from \in Runs /\ Relation(d, q).root \in Runs
      BY <3>1, <2>1, Rows DEF Relations
    <3>3. /\ Relation(d, q).from # s /\ Relation(d, q).from # r /\ Relation(d, q).root # s
      BY <2>1, <3>1, <1>4, <1>6, NoneFacts DEF Linked, record
    <3> QED BY <3>1, <3>2, <3>3, <2>1, <1>3, <1>5, <1>7, <1>8 DEF Linked
  <2> QED BY <2>2, <2>3
<1>14. Recorded(e)
  <2>1. Recorded(d) /\ d \in Databases
    BY DEF Sound
  <2> SUFFICES ASSUME NEW q \in Runs, Record(e, q) # None
               PROVE  LET row == Record(e, q) IN
                      /\ e.status[q] = "interrupted"
                      /\ row.chain.root = RootOf(e, q)
                      /\ Chain(e, RootOf(e, q)) # None
                      /\ row.run # None => Relation(e, row.run) # None /\ Relation(e, row.run).from = q
                      /\ row.run = None => /\ row.chain = Chain(e, RootOf(e, q))
                                           /\ row.chain.current = q
                                           /\ row.chain.attempts >= TotalLimit => Closed(row)
    BY DEF Recorded
  <2>2. CASE q = r
    BY <2>2, <1>1, <1>2, <1>3, <1>5, <1>6, <1>7, <1>8, NoneFacts DEF root
  <2>3. CASE q # r
    <3>1. Record(e, q) = Record(d, q) /\ Record(d, q) # None /\ q # s
      BY <2>3, <1>6, <1>7
    <3>2. RootOf(d, q) \in Runs /\ Record(d, q) \in Records
      BY <3>1, <2>1, Rows
    <3>3. Record(d, q).run # None => Record(d, q).run \in Runs /\ Record(d, q).run # s
      BY <2>1, <3>1, <3>2, <1>6 DEF Records, Recorded
    <3>4. Record(d, q).run = None => RootOf(d, q) # root
      BY <2>1, <2>3, <3>1, <1>1 DEF Recorded
    <3> QED BY <3>1, <3>2, <3>3, <3>4, <2>1, <1>3, <1>5, <1>7, <1>8 DEF Recorded
  <2> QED BY <2>2, <2>3
<1>15. Chained(e)
  <2>1. Chained(d)
    BY DEF Sound
  <2> SUFFICES ASSUME NEW x \in Runs, Chain(e, x) # None
               PROVE  LET chain == Chain(e, x)
                          tail  == Relation(e, chain.current)
                      IN
                      /\ chain.root = x /\ Relation(e, x) = None
                      /\ chain.current \in LineageOf(e, x) \cup {x}
                      /\ \A q \in LineageOf(e, x) \cup {x} :
                            q # chain.current => Record(e, q) # None /\ Record(e, q).run # None
                      /\ Record(e, chain.current) # None => Record(e, chain.current).run = None
                      /\ chain.attempts = (IF tail = None THEN 0 ELSE tail.attempt)
                      /\ chain.automatic = (IF tail = None THEN 0 ELSE tail.automatic)
    BY DEF Chained
  <2>2. LineageOf(d, x) \subseteq Runs
    BY DEF LineageOf
  <2>3. CASE x # root
    <3>1. Chain(e, x) = Chain(d, x) /\ Chain(d, x) # None /\ x # s
      BY <2>3, <1>6, <1>7
    <3>2. \A q \in LineageOf(d, x) \cup {x} :
             Record(e, q) = Record(d, q) /\ Relation(e, q) = Relation(d, q)
      BY <2>2, <2>3, <3>1, <1>3, <1>7, <1>9, <1>11
    <3>3. LineageOf(e, x) = LineageOf(d, x)
      BY <2>3, <1>9
    <3>4. Chain(d, x).current \in LineageOf(d, x) \cup {x}
      BY <3>1, <2>1 DEF Chained
    <3> QED BY <3>1, <3>2, <3>3, <3>4, <2>1 DEF Chained
  <2>4. CASE x = root
    <3>1. Chain(e, x) = queued.chain /\ LineageOf(e, x) = LineageOf(d, x) \cup {s}
      BY <2>4, <1>7, <1>9
    <3>2. \A q \in LineageOf(d, x) \cup {x} : Record(e, q) # None /\ Record(e, q).run # None
      BY <2>2, <2>4, <1>5, <1>7, <1>10, NoneFacts
    <3>3. Relation(e, x) = None /\ Relation(e, s) = relation /\ Record(e, s) = None
      BY <2>4, <1>3, <1>6, <1>7, <1>10
    <3> QED BY <2>4, <3>1, <3>2, <3>3, <1>5 DEF root, relation, record
  <2> QED BY <2>3, <2>4
<1>16. Counted(e)
  <2>1. Counted(d) /\ IsFiniteSet(Runs)
    BY RecoveryAssumption DEF Sound
  <2> DEFINE Automatic(c, x) == {q \in LineageOf(c, x) : Relation(c, q).manual = None}
  <2> SUFFICES ASSUME NEW x \in Runs, Chain(e, x) # None
               PROVE  /\ Chain(e, x).attempts = Cardinality(LineageOf(e, x))
                      /\ Chain(e, x).automatic = Cardinality(Automatic(e, x))
    BY DEF Counted
  <2>2. CASE x # root
    <3>1. Automatic(e, x) = Automatic(d, x) /\ LineageOf(e, x) = LineageOf(d, x)
      BY <2>2, <1>3, <1>9 DEF LineageOf
    <3> QED BY <2>1, <2>2, <3>1, <1>7 DEF Counted
  <2>3. CASE x = root
    <3>1. /\ record.chain.attempts = Cardinality(LineageOf(d, root))
          /\ record.chain.automatic = Cardinality(Automatic(d, root))
      BY <2>1, <1>1, <1>5 DEF Counted
    <3>2. IsFiniteSet(LineageOf(d, root)) /\ IsFiniteSet(Automatic(d, root))
      BY <2>1, FS_Subset DEF LineageOf
    <3>3. Cardinality(LineageOf(e, root)) = Cardinality(LineageOf(d, root)) + 1
      BY <3>2, <1>1, <1>9, FS_AddElement
    <3>4. Automatic(e, root) = Automatic(d, root) \cup (IF record.manual = None THEN {s} ELSE {})
      BY <1>1, <1>2, <1>3, <1>9 DEF LineageOf
    <3>5. Cardinality(Automatic(e, root))
             = Cardinality(Automatic(d, root)) + (IF record.manual = None THEN 1 ELSE 0)
      <4>1. s \notin Automatic(d, root)
        BY <1>1, <1>9
      <4>2. Cardinality(Automatic(d, root)) \in Nat
        BY <3>2, FS_CardinalityType
      <4> HIDE DEF Automatic
      <4>3. CASE record.manual = None
        BY <3>2, <3>4, <4>1, <4>3, FS_AddElement
      <4>4. CASE record.manual # None
        <5>1. Automatic(e, root) = Automatic(d, root)
          BY <3>4, <4>4
        <5> QED BY <4>2, <4>4, <5>1
      <4> QED BY <4>3, <4>4
    <3>6. /\ Chain(e, x).attempts = relation.attempt
          /\ Chain(e, x).automatic = relation.automatic
      BY <2>3, <1>7 DEF relation, record
    <3> QED BY <2>3, <3>1, <3>3, <3>5, <3>6, <1>2
  <2> QED BY <2>2, <2>3
<1>17. Stopped(e)
  <2>1. Stopped(d) /\ Chained(d) /\ d.cancelled \subseteq Runs
    BY DEF Sound, Databases
  <2>2. root \notin d.cancelled
    <3>1. r \notin d.cancelled
      BY <1>4, NoneFacts DEF Reason, Reasons
    <3> QED BY <3>1, <2>1, <1>1, <1>5 DEF Stopped
  <2>3. \A x \in d.cancelled : Chain(d, x) # None => Chain(d, x).current \in Runs \ {s}
    BY <2>1, <1>6, <1>9 DEF Chained, LineageOf
  <2>4. \A x \in d.cancelled : x # s /\ x # root
    BY <2>2, <1>6
  <2> QED BY <2>1, <2>3, <2>4, <1>3, <1>7 DEF Stopped
<1> QED BY <1>12, <1>13, <1>14, <1>15, <1>16, <1>17 DEF Sound

\* queueRecovery.
LEMMA QueueKeeps ==
    ASSUME NEW d, Sound(d), NEW r \in Runs, NEW s \in Runs, d.status[s] = "absent"
    PROVE  LET answer == Queue(d, r, s) IN
           /\ Sound(answer.db) /\ Grows(d, answer.db)
           /\ SameRuns(d, answer.db) \/ Continues(d, answer.db, r, s)
           /\ answer.record # None => answer.record = Record(answer.db, r)
<1> DEFINE record   == Record(d, r)
           relation == Successor(record, r)
           reason   == Withheld(d, r, record)
           queued   == Continued(record, r, s)
           status   == IF reason \in {"APPROVAL_PENDING", "EFFECT_UNKNOWN",
                                      "BACKEND_AUTOMATION_DISABLED"}
                       THEN "waiting" ELSE "manual_required"
<1>1. d \in Databases /\ d.logged = d.table /\ Relation(d, s) = None
  BY DEF Sound, Known
<1>2. CASE record = None
  BY <1>2 DEF Queue, Refuse, Answer, SameRuns, Grows
<1>3. CASE record # None /\ Answered(record)
  BY <1>3 DEF Queue, Refuse, Answer, SameRuns, Grows
<1>4. CASE record # None /\ ~Answered(record) /\ reason # None
  <2> DEFINE row == Restated(record, status, reason)
  <2>1. Queue(d, r, s) = Publish(d, r, row)
    BY <1>4 DEF Queue, Restated
  <2>2. record.run = None /\ record.chain.status = "pending" /\ ~Closed(record)
    BY <1>4 DEF Answered, Closed
  <2>3. /\ record \in Records
        /\ record.chain.root = RootOf(d, r) /\ record.chain.current = r
        /\ d.status[r] = "interrupted"
        /\ record.chain.attempts = (IF Relation(d, r) = None THEN 0 ELSE Relation(d, r).attempt)
        /\ record.chain.automatic = (IF Relation(d, r) = None THEN 0 ELSE Relation(d, r).automatic)
        /\ ~(record.chain.attempts >= TotalLimit)
    BY <1>4, <2>2, Found
  <2>4. reason \in Reasons \cup {None}
    BY DEF Withheld, Reason, Reasons
  <2>5. status \in {"pending", "waiting", "manual_required", "running"}
    OBVIOUS
  <2>6. record \in Records
    BY <2>3
  <2> HIDE DEF status, reason
  <2>7. row \in Records /\ SameChain(row, record) /\ row.run = record.run /\ row.manual = record.manual
    <3>1. \A c \in Reasons \cup {None}, v \in {"pending", "waiting", "manual_required", "running"} :
             LET b == Restated(record, v, c)
             IN  b \in Records /\ SameChain(b, record) /\ b.run = record.run /\ b.manual = record.manual
      BY <2>6, RestatedRow
    <3> QED BY <2>4, <2>5, <3>1
  <2> HIDE DEF row
  <2>8. Sound(Publish(d, r, row).db)
    BY <2>2, <2>3, <2>7, PublishKeeps DEF SameChain
  <2>9. /\ SameRuns(d, Publish(d, r, row).db)
        /\ Publish(d, r, row).record = row
        /\ row = Record(Publish(d, r, row).db, r) /\ row # None
        /\ \A x \in Runs : x # r => Record(Publish(d, r, row).db, x) = Record(d, x)
    BY <1>1, <2>2, <2>7, NoneFacts, Published DEF SameRuns
  <2>10. Tried(record) => Tried(row)
    BY <2>2, <2>7 DEF Tried
  <2>11. Grows(d, Publish(d, r, row).db)
    BY <2>9, <2>10 DEF Grows
  <2> QED BY <2>1, <2>8, <2>9, <2>11
<1>5. CASE record # None /\ ~Answered(record) /\ reason = None /\ Spent(record)
  BY <1>5 DEF Queue, Refuse, Answer, SameRuns, Grows
<1>6. CASE record # None /\ ~Answered(record) /\ reason = None /\ ~Spent(record)
  <2> DEFINE e == WithQueued(d, r, s, queued, relation)
  <2>1. Queue(d, r, s) = Answer(e, queued)
    BY <1>6 DEF Queue, WithQueued, Continued
  <2>2. record \in Records /\ record.run = None /\ record.chain.root = RootOf(d, r)
        /\ record.chain.status = "pending"
    BY <1>6, Found DEF Answered
  <2>3. /\ relation \in Relations
        /\ queued \in Records /\ queued.run = s
        /\ queued.chain.root = RootOf(d, r) /\ queued.chain.current = s
        /\ queued.chain.attempts = relation.attempt /\ queued.chain.automatic = relation.automatic
    BY <2>2, QueuedRow
  <2> HIDE DEF queued, relation
  <2>4. /\ e \in Databases /\ e.logged = e.table
        /\ \A q \in Runs :
              /\ Record(e, q) = (IF q = r THEN queued ELSE Record(d, q))
              /\ Chain(e, q) = (IF q = queued.chain.root THEN queued.chain ELSE Chain(d, q))
              /\ Relation(e, q) = (IF q = s THEN relation ELSE Relation(d, q))
        /\ e.status = [d.status EXCEPT ![s] = "queued"]
        /\ e.cancelled = d.cancelled /\ e.finished = d.finished
        /\ e.asking = d.asking /\ e.unknown = d.unknown
        /\ e.archived = d.archived /\ e.unattended = d.unattended
    BY <1>1, <2>3, QueuedTables
  <2> HIDE DEF e
  <2>5. Continues(d, e, r, s)
    BY <1>6, <2>2, <2>4 DEF Continues, relation
  <2>6. Sound(e)
    BY <2>3, <2>4, <2>5, ContinueKeeps DEF relation
  <2>7. queued # None /\ Tried(queued)
    BY <2>3, NoneFacts DEF Tried
  <2>8. Grows(d, e)
    BY <2>4, <2>7 DEF Grows
  <2> QED BY <2>1, <2>4, <2>5, <2>6, <2>8 DEF Answer
<1> QED BY <1>2, <1>3, <1>4, <1>5, <1>6

-----------------------------------------------------------------------------
(* The other transactions.                                                  *)

\* A step that leaves the tables alone and only moves runs that exist, and
\* whose cancellations reach the latest run of a lineage.
LEMMA QuietKeeps ==
    ASSUME NEW d, Sound(d), NEW e \in Databases, e.table = d.table, e.logged = d.logged,
           \A r \in Runs : e.status[r] = "absent" <=> d.status[r] = "absent",
           \A r \in Runs : d.status[r] = "interrupted" => e.status[r] = "interrupted",
           \A r \in e.finished : e.status[r] # "absent",
           Stopped(e)
    PROVE  Sound(e) /\ Grows(d, e)
<1>1. /\ \A r : /\ Relation(e, r) = Relation(d, r) /\ Record(e, r) = Record(d, r)
                /\ Chain(e, r) = Chain(d, r) /\ RootOf(e, r) = RootOf(d, r)
                /\ LineageOf(e, r) = LineageOf(d, r)
  BY DEF Relation, Record, Chain, RootOf, LineageOf
<1>2. Known(e)
  BY <1>1 DEF Sound, Known
<1>3. Linked(e) /\ Chained(e)
  BY <1>1 DEF Sound, Linked, Chained
<1>4. Recorded(e)
  BY <1>1 DEF Sound, Recorded
<1>5. Counted(e)
  BY <1>1 DEF Sound, Counted
<1>6. Grows(d, e)
  BY <1>1 DEF Grows
<1> QED BY <1>2, <1>3, <1>4, <1>5, <1>6 DEF Sound

\* A step that cancels nothing and moves no run that has ended.
LEMMA MoveKeeps ==
    ASSUME NEW d, Sound(d), NEW e \in Databases, e.table = d.table, e.logged = d.logged,
           e.cancelled = d.cancelled,
           \A r \in Runs : e.status[r] = "absent" <=> d.status[r] = "absent",
           \A r \in Runs : d.status[r] \in {"interrupted", "settled"} => e.status[r] = d.status[r],
           \A r \in Runs : d.status[r] = "running" => e.status[r] \in {"running", "interrupted", "settled"},
           \A r \in e.finished : e.status[r] # "absent"
    PROVE  Sound(e) /\ Grows(d, e)
<1>1. d \in Databases /\ d.cancelled \subseteq Runs /\ Stopped(d) /\ Chained(d)
  BY DEF Sound, Databases
<1>2. \A r : Chain(e, r) = Chain(d, r)
  BY DEF Chain
<1>3. \A r \in Runs : Chain(d, r) # None => Chain(d, r).current \in Runs
  BY <1>1 DEF Chained, LineageOf
<1>4. Stopped(e)
  BY <1>1, <1>2, <1>3 DEF Stopped
<1> QED BY <1>4, QuietKeeps

\* The latest run of a lineage is the only one of it that can be waiting.
LEMMA QueuedIsLast ==
    ASSUME NEW d, Sound(d), NEW r \in Runs, d.status[r] = "queued"
    PROVE  /\ Chain(d, RootOf(d, r)) # None => Chain(d, RootOf(d, r)).current = r
           /\ Chain(d, RootOf(d, r)) = None => RootOf(d, r) = r
           /\ RootOf(d, r) \notin d.cancelled
<1>1. d \in Databases /\ Record(d, r) = None
  BY DEF Sound, Recorded
<1>2. RootOf(d, r) \in Runs
  BY <1>1, Rows
<1>3. r \in LineageOf(d, RootOf(d, r)) \cup {RootOf(d, r)}
  BY DEF RootOf, LineageOf
<1>4. Chain(d, RootOf(d, r)) # None => Chain(d, RootOf(d, r)).current = r
  BY <1>1, <1>2, <1>3 DEF Sound, Chained
<1>5. Chain(d, RootOf(d, r)) = None => RootOf(d, r) = r
  BY DEF Sound, Linked, RootOf
<1>6. RootOf(d, r) \notin d.cancelled
  BY <1>4, <1>5 DEF Sound, Stopped
<1> QED BY <1>4, <1>5, <1>6

\* The runs that cancelRecovery reaches.
LEMMA Targets ==
    ASSUME NEW d, Sound(d), NEW r \in Runs, d.status[r] # "absent"
    PROVE  LET root == RootOf(d, r) IN
           /\ CancelTargets(d, r) \subseteq LineageOf(d, root) \cup {root}
           /\ root \in CancelTargets(d, r)
           /\ \A q \in LineageOf(d, root) \cup {root} :
                 d.status[q] = "queued" => q \in CancelTargets(d, r)
           /\ \A q \in CancelTargets(d, r) : q \in Runs /\ d.status[q] # "absent" /\ RootOf(d, q) = root
           /\ Chain(d, root) # None => Chain(d, root).current \in CancelTargets(d, r)
<1> DEFINE root == RootOf(d, r)
<1>1. d \in Databases /\ root \in Runs /\ ChainOf(d, r) = Chain(d, root)
  BY Rows DEF Sound, ChainOf, Chain
<1>2. r \in LineageOf(d, root) \cup {root}
  BY DEF RootOf, LineageOf
<1>3. Relation(d, root) = None /\ RootOf(d, root) = root
  BY <1>1, Rows DEF RootOf, Sound, Linked
<1>4. Chain(d, root) = None => r = root
  BY DEF RootOf, Sound, Linked
<1>5. Chain(d, root) # None => /\ Chain(d, root).root = root
                               /\ Chain(d, root).current \in LineageOf(d, root) \cup {root}
  BY <1>1 DEF Sound, Chained
<1>6. \A q \in LineageOf(d, root) \cup {root} : RootOf(d, q) = root /\ q \in Runs
  BY <1>1, <1>3 DEF LineageOf, RootOf
<1> HIDE DEF root
<1>7. CancelTargets(d, r) = {r} \cup (IF Chain(d, root) = None THEN {} ELSE {root, Chain(d, root).current})
  BY <1>1, <1>5 DEF CancelTargets
<1>8. \A q \in LineageOf(d, root) \cup {root} : d.status[q] # "absent"
  <2>1. ASSUME NEW q \in LineageOf(d, root) PROVE d.status[q] # "absent"
    BY <2>1 DEF LineageOf, Sound, Known
  <2>2. d.status[root] # "absent"
    BY <1>1, <1>4 DEF Sound, Known
  <2> QED BY <2>1, <2>2
<1>9. \A q \in LineageOf(d, root) \cup {root} : d.status[q] = "queued" => q \in CancelTargets(d, r)
  <2>1. ASSUME NEW q \in LineageOf(d, root) \cup {root}, d.status[q] = "queued"
        PROVE  q \in CancelTargets(d, r)
    <3>1. RootOf(d, q) = root /\ q \in Runs
      BY <1>6
    <3> QED BY <2>1, <3>1, <1>4, <1>7, QueuedIsLast
  <2> QED BY <2>1
<1>10. CancelTargets(d, r) \subseteq LineageOf(d, root) \cup {root} /\ root \in CancelTargets(d, r)
  BY <1>2, <1>4, <1>5, <1>7
<1> QED BY <1>5, <1>6, <1>7, <1>8, <1>9, <1>10 DEF root

\* cancelRecovery.
LEMMA CancelKeeps ==
    ASSUME NEW d, Sound(d), NEW r \in Runs, d.status[r] # "absent"
    PROVE  Sound(Cancel(d, r)) /\ Grows(d, Cancel(d, r))
<1> DEFINE ids == CancelTargets(d, r)
           status == [q \in Runs |-> IF q \in ids /\ d.status[q] = "queued" THEN "settled" ELSE d.status[q]]
           cancelled == d.cancelled \cup {q \in ids : d.status[q] \in {"running", "interrupted"}}
           e == Cancel(d, r)
<1>1. d \in Databases /\ Stopped(d) /\ Chained(d)
  BY DEF Sound
<1>2. d.status \in [Runs -> Statuses] /\ d.cancelled \subseteq Runs /\ d.finished \subseteq Runs
  BY <1>1 DEF Databases
<1>3. ids \subseteq Runs
  BY Targets
<1>4. e = [d EXCEPT !.status = status, !.cancelled = cancelled]
  BY DEF Cancel
<1>5. status \in [Runs -> Statuses]
  BY <1>2 DEF Statuses
<1>6. cancelled \in SUBSET Runs
  BY <1>2, <1>3
<1>7. \A q \in Runs : status[q] = (IF q \in ids /\ d.status[q] = "queued" THEN "settled" ELSE d.status[q])
  OBVIOUS
<1> HIDE DEF ids, status, cancelled, e
<1>8. /\ e \in Databases /\ e.table = d.table /\ e.logged = d.logged /\ e.finished = d.finished
      /\ e.status = status /\ e.cancelled = cancelled
  BY <1>1, <1>4, <1>5, <1>6 DEF Databases
<1>9. \A q \in d.finished : e.status[q] # "absent"
  BY <1>2, <1>7, <1>8 DEF Sound, Known
<1>10. Stopped(e)
  <2>1. \A q \in e.cancelled : e.status[q] \in {"running", "interrupted", "settled"}
    BY <1>1, <1>2, <1>3, <1>7, <1>8 DEF Stopped, cancelled
  <2>2. ASSUME NEW root \in e.cancelled, Chain(e, root) # None
        PROVE  \/ Chain(e, root).current \in e.cancelled
               \/ e.status[Chain(e, root).current] = "settled"
    <3>1. Chain(d, root) # None /\ Chain(e, root) = Chain(d, root) /\ root \in Runs
      BY <2>2, <1>6, <1>8 DEF Chain
    <3>2. Chain(d, root).current \in Runs /\ Relation(d, root) = None
      BY <3>1, <1>1 DEF Chained, LineageOf
    <3>3. CASE root \in d.cancelled
      BY <3>1, <3>2, <3>3, <1>1, <1>7, <1>8 DEF Stopped, cancelled
    <3>4. CASE root \notin d.cancelled
      <4>1. root \in ids
        BY <3>4, <1>8 DEF cancelled
      <4>2. RootOf(d, root) = root
        BY <3>2 DEF RootOf
      <4>3. RootOf(d, r) = root /\ Chain(d, root).current \in ids
        BY <4>1, <4>2, <3>1, Targets DEF ids
      <4>4. d.status[Chain(d, root).current] # "absent"
        BY <4>3, Targets DEF ids
      <4>5. d.status[Chain(d, root).current] \in {"queued", "running", "interrupted", "settled"}
        BY <4>4, <3>2, <1>2 DEF Statuses
      <4> QED BY <4>3, <4>5, <3>1, <3>2, <1>7, <1>8 DEF cancelled
    <3> QED BY <3>3, <3>4
  <2> QED BY <2>1, <2>2 DEF Stopped
<1>11. \A q \in Runs : /\ e.status[q] = "absent" <=> d.status[q] = "absent"
                       /\ d.status[q] = "interrupted" => e.status[q] = "interrupted"
  BY <1>7, <1>8
<1>12. Sound(e) /\ Grows(d, e)
  BY <1>8, <1>9, <1>10, <1>11, QuietKeeps
<1> QED BY <1>12 DEF e

-----------------------------------------------------------------------------
(* Every step keeps the invariant.                                          *)

Typed ==
    /\ pending \in [Kernels -> [Runs -> Entries \cup {None}]]
    /\ asks \in [Requests -> Asks \cup {None}]
    /\ late \subseteq Calls

\* What a call does in the storage worker, whoever waits for it.
LEMMA ExecuteKeeps ==
    ASSUME Sound(db), NEW call \in Calls, Supplied(call)
    PROVE  LET answer == Execute(db, call) IN
           /\ Sound(answer.db) /\ Grows(db, answer.db)
           /\ \/ SameRuns(db, answer.db)
              \/ \E s \in Runs : db.status[s] = "absent" /\ Continues(db, answer.db, call.run, s)
           /\ answer.record # None => answer.record = Record(answer.db, call.run)
           /\ answer.record # None /\ call.stage \in {"hold", "refuse"} /\ call.pass # None
                 => Tried(answer.record)
<1>1. /\ call.run \in Runs /\ call.pass \in Requests \cup {None}
      /\ call.stage \in {"plan", "hold", "queue", "refuse"}
  BY DEF Calls
<1>2. CASE call.stage = "plan"
  <2>1. Execute(db, call) = Plan(db, call.run)
    BY <1>2 DEF Execute
  <2> QED BY <1>1, <1>2, <2>1, PlanKeeps
<1>3. CASE call.stage = "hold"
  <2>1. Execute(db, call) = Hold(db, call.run, None, call.pass)
    BY <1>3 DEF Execute
  <2> QED BY <1>1, <1>3, <2>1, HoldKeeps
<1>4. CASE call.stage = "refuse"
  <2>1. Execute(db, call) = Hold(db, call.run, "REFUSED", call.pass)
    BY <1>4 DEF Execute
  <2>2. "REFUSED" \in Reasons
    BY DEF Reasons
  <2> QED BY <1>1, <1>4, <2>1, <2>2, HoldKeeps
<1>5. CASE call.stage = "queue"
  <2>1. Execute(db, call) = Queue(db, call.run, Fresh(db))
    BY <1>5 DEF Execute
  <2>2. Fresh(db) \in Runs /\ db.status[Fresh(db)] = "absent"
    BY <1>5 DEF Supplied, Fresh
  <2> QED BY <1>1, <1>5, <2>1, <2>2, QueueKeeps
<1> QED BY <1>1, <1>2, <1>3, <1>4, <1>5

\* The admissions depend on the database only by the records it keeps.
LEMMA AdmittingGrows ==
    ASSUME NEW d, NEW e, NEW entries, NEW requests, Admitting(d, entries, requests), Grows(d, e)
    PROVE  Admitting(e, entries, requests)
  BY DEF Admitting, Grows

\* An entry goes away with those who wait for it.
LEMMA SettleKeeps ==
    ASSUME Typed, NEW e, Admitting(e, pending, asks), NEW k \in Kernels, NEW r \in Runs, Settle(k, r)
    PROVE  /\ Admitting(e, pending', asks')
           /\ pending' \in [Kernels -> [Runs -> Entries \cup {None}]]
           /\ asks' \in [Requests -> Asks \cup {None}]
<1>1. \A kk \in Kernels, rr \in Runs :
         pending'[kk][rr] = (IF kk = k /\ rr = r THEN None ELSE pending[kk][rr])
  BY DEF Settle, Typed
<1>2. pending' \in [Kernels -> [Runs -> Entries \cup {None}]]
  BY DEF Settle, Typed
<1>3. asks' \in [Requests -> Asks \cup {None}]
  BY DEF Settle, Typed
<1>4. \A q \in Requests : asks'[q] = (IF q \in Waiting(k, r) THEN None ELSE asks[q])
  BY DEF Settle
<1>5. ASSUME NEW q \in Requests, asks'[q] # None, asks'[q].stage = "waiting"
      PROVE  /\ pending'[asks'[q].at][asks'[q].run] # None
             /\ pending'[asks'[q].at][asks'[q].run].manual # None
  <2>1. asks'[q] = asks[q] /\ q \notin Waiting(k, r) /\ asks[q] # None
    BY <1>4, <1>5
  <2>2. asks[q] \in Asks
    BY <2>1 DEF Typed
  <2>3. asks[q] # [at |-> k, run |-> r, stage |-> "waiting"]
    BY <2>1 DEF Waiting
  <2>4. ~(asks[q].at = k /\ asks[q].run = r)
    BY <2>1, <2>2, <2>3, <1>5 DEF Asks
  <2>5. asks[q].at \in Kernels /\ asks[q].run \in Runs
    BY <2>2 DEF Asks
  <2> QED BY <1>1, <1>5, <2>1, <2>4, <2>5 DEF Admitting
<1> QED BY <1>1, <1>2, <1>3, <1>5 DEF Admitting

\* One entry moves on, and no request waits for an entry without one.
LEMMA GotoKeeps ==
    ASSUME Typed, NEW e, Admitting(e, pending, asks), NEW k \in Kernels, NEW r \in Runs,
           NEW next \in Entries, pending' = [pending EXCEPT ![k][r] = next], UNCHANGED asks,
           pending[k][r] # None => (pending[k][r].manual # None => next.manual # None),
           next.pass # None /\ next.stage \in {"check", "queue", "refuse"}
              => Record(e, r) # None /\ Tried(Record(e, r))
    PROVE  /\ Admitting(e, pending', asks')
           /\ pending' \in [Kernels -> [Runs -> Entries \cup {None}]]
<1>1. \A kk \in Kernels, rr \in Runs :
         pending'[kk][rr] = (IF kk = k /\ rr = r THEN next ELSE pending[kk][rr])
  BY DEF Typed
<1>2. pending' \in [Kernels -> [Runs -> Entries \cup {None}]]
  BY DEF Typed
<1>3. \A q \in Requests : asks[q] # None => asks[q].at \in Kernels /\ asks[q].run \in Runs
  BY DEF Typed, Asks
<1>4. next # None
  BY NoneFacts
<1> QED BY <1>1, <1>2, <1>3, <1>4 DEF Admitting

\* A storage call of an entry, and what its reply does to the entry.
LEMMA CallInv ==
    ASSUME IInv, NEW k \in Kernels, NEW r \in Runs, Call(k, r) PROVE IInv'
<1> DEFINE entry  == pending[k][r]
           call   == CallOf(r, entry)
           answer == Execute(db, call)
<1>1. Sound(db) /\ Admitting(db, pending, asks) /\ Typed
  BY DEF IInv, Typed
<1>2. entry \in Entries /\ entry.stage # "check"
  BY <1>1 DEF Call, Typed
<1>3. call \in Calls /\ call.run = r /\ call.pass = entry.pass /\ call.stage = entry.stage
  BY <1>2 DEF CallOf, Calls, Entries
<1>4. Supplied(call) /\ db' = answer.db /\ late' = late
  BY DEF Call
<1> HIDE DEF call
<1>5. /\ Sound(db') /\ Grows(db, db')
      /\ answer.record # None => answer.record = Record(db', r)
      /\ answer.record # None /\ entry.stage \in {"hold", "refuse"} /\ entry.pass # None
            => Tried(answer.record)
  BY <1>1, <1>3, <1>4, ExecuteKeeps
<1>6. Admitting(db', pending, asks)
  BY <1>1, <1>5, AdmittingGrows
<1>7. CASE Settle(k, r)
  BY <1>1, <1>4, <1>5, <1>6, <1>7, SettleKeeps DEF IInv, Typed
<1>8. CASE ~Settle(k, r)
  <2>1. \/ /\ answer.record # None /\ ~PassEnds(entry, answer.record)
           /\ pending' = [pending EXCEPT ![k][r] = [entry EXCEPT !.stage = IF @ = "plan" THEN "hold" ELSE "check"]]
        \/ pending' = [pending EXCEPT ![k][r] = Entry(entry.manual)]
    BY <1>8 DEF Call, call
  <2>2. UNCHANGED asks
    BY <1>8 DEF Call, call
  <2>3. PICK next \in Entries :
           /\ pending' = [pending EXCEPT ![k][r] = next] /\ next.manual = entry.manual
           /\ \/ next.stage \in {"plan", "hold"}
              \/ /\ next.stage = "check" /\ entry.stage = "hold" /\ next.pass = entry.pass
                 /\ answer.record # None
    <3>1. CASE pending' = [pending EXCEPT ![k][r] = Entry(entry.manual)]
      <4>1. Entry(entry.manual) \in Entries /\ Entry(entry.manual).manual = entry.manual
            /\ Entry(entry.manual).stage = "plan"
        BY <1>2 DEF Entries, Entry
      <4> QED BY <3>1, <4>1
    <3>2. CASE /\ answer.record # None /\ ~PassEnds(entry, answer.record)
               /\ pending' = [pending EXCEPT ![k][r] = [entry EXCEPT !.stage = IF @ = "plan" THEN "hold" ELSE "check"]]
      <4> DEFINE next == [entry EXCEPT !.stage = IF @ = "plan" THEN "hold" ELSE "check"]
      <4>1. entry.stage \in {"plan", "hold"}
        BY <1>2, <3>2 DEF PassEnds, Entries
      <4>2. /\ next \in Entries /\ next.manual = entry.manual /\ next.pass = entry.pass
            /\ next.stage = (IF entry.stage = "plan" THEN "hold" ELSE "check")
        BY <1>2 DEF Entries
      <4> HIDE DEF next
      <4>3. pending' = [pending EXCEPT ![k][r] = next]
        BY <3>2 DEF next
      <4> QED BY <3>2, <4>1, <4>2, <4>3
    <3> QED BY <2>1, <3>1, <3>2
  <2>4. next.pass # None /\ next.stage \in {"check", "queue", "refuse"}
           => Record(db', r) # None /\ Tried(Record(db', r))
    BY <2>3, <1>5
  <2> HIDE DEF answer
  <2>5. /\ Admitting(db', pending', asks')
        /\ pending' \in [Kernels -> [Runs -> Entries \cup {None}]]
    BY <1>1, <1>6, <2>2, <2>3, <2>4, GotoKeeps
  <2> QED BY <1>1, <1>4, <1>5, <2>2, <2>5 DEF IInv, Typed
<1> QED BY <1>7, <1>8

\* The checks between two calls only choose the next one.
LEMMA CheckInv ==
    ASSUME IInv, NEW k \in Kernels, NEW r \in Runs, Check(k, r) PROVE IInv'
<1> DEFINE entry == pending[k][r]
<1>1. Sound(db) /\ Admitting(db, pending, asks) /\ Typed
  BY DEF IInv, Typed
<1>2. entry \in Entries /\ entry.stage = "check" /\ entry # None
  BY <1>1 DEF Check, Typed
<1>3. PICK stage \in {"refuse", "queue"} : pending' = [pending EXCEPT ![k][r].stage = stage]
  BY DEF Check
<1> DEFINE next == [entry EXCEPT !.stage = stage]
<1>4. next \in Entries /\ next.manual = entry.manual /\ next.pass = entry.pass
  BY <1>2 DEF Entries
<1>5. pending' = [pending EXCEPT ![k][r] = next]
  BY <1>3
<1>6. next.pass # None => Record(db, r) # None /\ Tried(Record(db, r))
  BY <1>1, <1>2, <1>4 DEF Admitting
<1>7. UNCHANGED << db, asks, late >>
  BY DEF Check
<1> HIDE DEF next
<1>8. Admitting(db, pending', asks') /\ pending' \in [Kernels -> [Runs -> Entries \cup {None}]]
  BY <1>1, <1>4, <1>5, <1>6, <1>7, GotoKeeps
<1> QED BY <1>1, <1>7, <1>8 DEF IInv, Typed

\* A call whose reply is lost leaves the entry and may be applied later.
LEMMA LoseReplyInv ==
    ASSUME IInv, NEW k \in Kernels, NEW r \in Runs, LoseReply(k, r) PROVE IInv'
<1>1. Sound(db) /\ Admitting(db, pending, asks) /\ Typed
  BY DEF IInv, Typed
<1>2. pending[k][r] \in Entries /\ late' = late \cup {CallOf(r, pending[k][r])}
  BY <1>1 DEF LoseReply, Typed
<1>3. pending[k][r].stage \in Losable
  BY DEF LoseReply
<1>4. pending[k][r].stage # "check"
  BY <1>3, AdmissionAssumption
<1>5. CallOf(r, pending[k][r]) \in Calls
  BY <1>2, <1>4 DEF CallOf, Calls, Entries
<1>6. Settle(k, r) /\ db' = db
  BY DEF LoseReply
<1> QED BY <1>1, <1>2, <1>5, <1>6, SettleKeeps DEF IInv, Typed

\* A call that nobody waits for is applied, or never.
LEMMA LateInv ==
    ASSUME IInv, NEW call \in late, ApplyLate(call) \/ DropLate(call) PROVE IInv'
<1>1. Sound(db) /\ Admitting(db, pending, asks) /\ Typed
  BY DEF IInv, Typed
<1>2. call \in Calls /\ late' = late \ {call} /\ UNCHANGED << pending, asks >>
  BY <1>1 DEF Typed, ApplyLate, DropLate
<1>3. CASE ApplyLate(call)
  <2>1. Sound(db') /\ Grows(db, db')
    BY <1>1, <1>2, <1>3, ExecuteKeeps DEF ApplyLate
  <2>2. Admitting(db', pending, asks)
    BY <1>1, <2>1, AdmittingGrows
  <2> QED BY <1>1, <1>2, <2>1, <2>2 DEF IInv, Typed
<1>4. CASE DropLate(call)
  BY <1>1, <1>2, <1>4 DEF DropLate, IInv, Typed
<1> QED BY <1>3, <1>4

\* A Kernel dies: its entries and those who wait for them are gone.
LEMMA CrashInv ==
    ASSUME IInv, NEW k \in Kernels, Crash(k) PROVE IInv'
<1>1. Sound(db) /\ Admitting(db, pending, asks) /\ Typed
  BY DEF IInv, Typed
<1>2. pending' \in [Kernels -> [Runs -> Entries \cup {None}]]
  BY <1>1 DEF Crash, Typed, Nothing
<1>3. asks' \in [Requests -> Asks \cup {None}]
  BY <1>1 DEF Crash, Typed
<1>4. late' \subseteq Calls
  <2>1. ASSUME NEW r \in Runs, pending[k][r] # None, pending[k][r].stage \in Losable
        PROVE  CallOf(r, pending[k][r]) \in Calls
    <3>1. pending[k][r] \in Entries
      BY <1>1, <2>1 DEF Typed
    <3>2. pending[k][r].stage # "check"
      BY <2>1, AdmissionAssumption
    <3> QED BY <3>1, <3>2 DEF CallOf, Calls, Entries
  <2> QED BY <1>1, <2>1 DEF Crash, Typed
<1>5. \A kk \in Kernels, r \in Runs :
         pending'[kk][r] = (IF kk = k THEN None ELSE pending[kk][r])
  BY <1>1 DEF Crash, Typed, Nothing
<1>6. \A q \in Requests : asks'[q] # None => asks'[q] = asks[q] /\ asks[q].at # k
  BY DEF Crash
<1>7. \A q \in Requests : asks[q] # None => asks[q].at \in Kernels /\ asks[q].run \in Runs
  BY <1>1 DEF Typed, Asks
<1>8. Admitting(db, pending', asks')
  BY <1>1, <1>5, <1>6, <1>7 DEF Admitting
<1>9. db' = db
  BY DEF Crash
<1> QED BY <1>1, <1>2, <1>3, <1>4, <1>8, <1>9 DEF IInv

\* resume opens an entry without a request.
LEMMA ResumeInv ==
    ASSUME IInv, NEW k \in Kernels, NEW r \in Runs, Resume(k, r) PROVE IInv'
<1>1. Sound(db) /\ Admitting(db, pending, asks) /\ Typed
  BY DEF IInv, Typed
<1>2. Entry(None) \in Entries /\ Entry(None).pass = None
  BY DEF Entry, Entries
<1>3. /\ pending' = [pending EXCEPT ![k][r] = Entry(None)] /\ pending[k][r] = None
      /\ UNCHANGED << db, asks, late >>
  BY DEF Resume
<1>4. Admitting(db, pending', asks') /\ pending' \in [Kernels -> [Runs -> Entries \cup {None}]]
  BY <1>1, <1>2, <1>3, GotoKeeps
<1> QED BY <1>1, <1>3, <1>4 DEF IInv, Typed

\* run.retry reads the run to continue from the chain.
LEMMA AskInv ==
    ASSUME IInv, NEW k \in Kernels, NEW q \in Requests, NEW r \in Runs, Ask(k, q, r) PROVE IInv'
<1> DEFINE run == IF ChainOf(db, r) = None THEN r ELSE ChainOf(db, r).current
           ask == [at |-> k, stage |-> "asking", run |-> run]
<1>1. Sound(db) /\ Admitting(db, pending, asks) /\ Typed
  BY DEF IInv, Typed
<1>2. run \in Runs
  <2>1. RootOf(db, r) \in Runs
    BY <1>1, Rows DEF Sound
  <2>2. Chain(db, RootOf(db, r)) \in Chains \cup {None}
    BY <1>1, <2>1, Rows DEF Sound
  <2> QED BY <2>2 DEF ChainOf, Chain, Chains
<1>3. asks' = [asks EXCEPT ![q] = ask] /\ UNCHANGED << db, pending, late >>
  BY DEF Ask
<1> HIDE DEF run
<1>4. ask \in Asks /\ ask.stage = "asking"
  BY <1>2 DEF Asks
<1> HIDE DEF ask
<1>5. asks' \in [Requests -> Asks \cup {None}]
  BY <1>1, <1>3, <1>4 DEF Typed
<1>6. \A p \in Requests : asks'[p] = (IF p = q THEN ask ELSE asks[p])
  BY <1>1, <1>3 DEF Typed
<1>7. Admitting(db, pending, asks')
  BY <1>1, <1>4, <1>6 DEF Admitting
<1> QED BY <1>1, <1>3, <1>5, <1>7 DEF IInv, Typed

\* resumeManual: a request waits for the entry it opens or joins.
LEMMA JoinInv ==
    ASSUME IInv, NEW q \in Requests, Join(q) PROVE IInv'
<1> DEFINE ask == asks[q]
           entry == pending[ask.at][ask.run]
<1>1. Sound(db) /\ Admitting(db, pending, asks) /\ Typed
  BY DEF IInv, Typed
<1>2. /\ ask \in Asks /\ ask.stage = "asking" /\ UNCHANGED << db, late >>
  BY <1>1 DEF Join, Typed
<1>3. ask.at \in Kernels /\ ask.run \in Runs /\ entry \in Entries \cup {None}
  BY <1>1, <1>2 DEF Asks, Typed
<1>4. ASSUME NEW next \in Entries, next.manual = q,
             next.pass # None /\ next.stage \in {"check", "queue", "refuse"}
                => entry # None /\ entry.pass = next.pass /\ entry.stage = next.stage,
             pending' = [pending EXCEPT ![ask.at][ask.run] = next],
             asks' = [asks EXCEPT ![q].stage = "waiting"]
      PROVE  IInv'
  <2> DEFINE waiting == [ask EXCEPT !.stage = "waiting"]
  <2>1. /\ waiting \in Asks /\ waiting.at = ask.at /\ waiting.run = ask.run
        /\ asks' = [asks EXCEPT ![q] = waiting]
    BY <1>2, <1>4 DEF Asks
  <2> HIDE DEF waiting
  <2>2. asks' \in [Requests -> Asks \cup {None}]
    BY <1>1, <2>1 DEF Typed
  <2>3. pending' \in [Kernels -> [Runs -> Entries \cup {None}]]
    BY <1>1, <1>4 DEF Typed
  <2>4. \A k \in Kernels, r \in Runs :
           pending'[k][r] = (IF k = ask.at /\ r = ask.run THEN next ELSE pending[k][r])
    BY <1>1, <1>3, <1>4 DEF Typed
  <2>5. \A p \in Requests : asks'[p] = (IF p = q THEN waiting ELSE asks[p])
    BY <1>1, <2>1 DEF Typed
  <2>6. q # None /\ next # None
    BY NoneFacts
  <2>7. ASSUME NEW k \in Kernels, NEW r \in Runs, pending'[k][r] # None, pending'[k][r].pass # None,
               pending'[k][r].stage \in {"check", "queue", "refuse"}
        PROVE  Record(db, r) # None /\ Tried(Record(db, r))
    BY <1>1, <1>3, <1>4, <2>4, <2>7 DEF Admitting
  <2>8. ASSUME NEW p \in Requests, asks'[p] # None, asks'[p].stage = "waiting"
        PROVE  /\ pending'[asks'[p].at][asks'[p].run] # None
               /\ pending'[asks'[p].at][asks'[p].run].manual # None
    <3>1. asks'[p].at \in Kernels /\ asks'[p].run \in Runs
      BY <2>2, <2>8 DEF Asks
    <3>2. CASE p = q
      BY <3>1, <3>2, <1>4, <2>1, <2>4, <2>5, <2>6
    <3>3. CASE p # q
      <4>1. asks'[p] = asks[p] /\ pending[asks[p].at][asks[p].run] # None
            /\ pending[asks[p].at][asks[p].run].manual # None
        BY <1>1, <2>5, <2>8, <3>3 DEF Admitting
      <4> QED BY <3>1, <4>1, <1>4, <2>4, <2>6
    <3> QED BY <3>2, <3>3
  <2>9. Admitting(db, pending', asks')
    BY <2>7, <2>8 DEF Admitting
  <2> QED BY <1>1, <1>2, <2>2, <2>3, <2>9 DEF IInv, Typed
<1>5. CASE asks' = [asks EXCEPT ![q] = None] /\ UNCHANGED pending
  <2>1. asks' \in [Requests -> Asks \cup {None}]
    BY <1>1, <1>5 DEF Typed
  <2>2. \A p \in Requests : asks'[p] = (IF p = q THEN None ELSE asks[p])
    BY <1>1, <1>5 DEF Typed
  <2>3. Admitting(db, pending, asks')
    BY <1>1, <2>2 DEF Admitting
  <2> QED BY <1>1, <1>2, <1>5, <2>1, <2>3 DEF IInv, Typed
<1>6. CASE /\ pending' = [pending EXCEPT ![ask.at][ask.run] = Entry(q)]
           /\ asks' = [asks EXCEPT ![q].stage = "waiting"]
  <2>1. Entry(q) \in Entries /\ Entry(q).manual = q /\ Entry(q).stage = "plan"
    BY DEF Entry, Entries
  <2> QED BY <1>4, <1>6, <2>1
<1>7. CASE /\ entry # None /\ entry.manual \in {None, q}
           /\ pending' = [pending EXCEPT ![ask.at][ask.run] = [entry EXCEPT !.manual = q]]
           /\ asks' = [asks EXCEPT ![q].stage = "waiting"]
  <2> DEFINE next == [entry EXCEPT !.manual = q]
  <2>1. next \in Entries /\ next.manual = q /\ next.pass = entry.pass /\ next.stage = entry.stage
    BY <1>3, <1>7 DEF Entries
  <2>2. pending' = [pending EXCEPT ![ask.at][ask.run] = next]
    BY <1>7
  <2> HIDE DEF next
  <2> QED BY <1>4, <1>7, <2>1, <2>2
<1> QED BY <1>5, <1>6, <1>7 DEF Join

\* The other steps of the session keep the tables.
LEMMA StoreInv ==
    ASSUME IInv, NEW d, Sound(d), Grows(db, d), Store(d) PROVE IInv'
  BY AdmittingGrows DEF IInv, Store

\* kernel.recover interrupts a run whose authority has ended.
LEMMA NotifyInv ==
    ASSUME IInv, NEW r \in Runs, NEW effects \in BOOLEAN, Notify(r, effects) PROVE IInv'
<1> DEFINE status == [db.status EXCEPT ![r] = "interrupted"]
           unknown == IF effects THEN db.unknown \cup {r} ELSE db.unknown
<1>1. Sound(db) /\ db \in Databases
  BY DEF IInv, Sound
<1>2. /\ db' = [db EXCEPT !.status = status, !.unknown = unknown] /\ db.status[r] = "running"
      /\ Store(db')
  BY DEF Notify, Recover, Store
<1>3. status \in [Runs -> Statuses] /\ unknown \in SUBSET Runs
      /\ \A q \in Runs : status[q] = (IF q = r THEN "interrupted" ELSE db.status[q])
  BY <1>1 DEF Databases, Statuses
<1> HIDE DEF status, unknown
<1>4. /\ db' \in Databases /\ db'.status = status /\ db'.table = db.table /\ db'.logged = db.logged
      /\ db'.cancelled = db.cancelled /\ db'.finished = db.finished
  BY <1>1, <1>2, <1>3 DEF Databases
<1>5. \A q \in db.finished : q \in Runs /\ db.status[q] # "absent"
  BY <1>1 DEF Sound, Known, Databases
<1>6. Sound(db') /\ Grows(db, db')
  BY <1>1, <1>2, <1>3, <1>4, <1>5, MoveKeeps
<1> QED BY <1>2, <1>6, StoreInv

\* A claim starts a run that waits.
LEMMA ClaimRunInv ==
    ASSUME IInv, NEW r \in Runs, ClaimRun(r) PROVE IInv'
<1> DEFINE status == [db.status EXCEPT ![r] = "running"]
           owned == db.owned \cup {r}
<1>1. Sound(db) /\ db \in Databases
  BY DEF IInv, Sound
<1>2. /\ db' = [db EXCEPT !.status = status, !.owned = owned] /\ db.status[r] = "queued"
      /\ Store(db')
  BY DEF ClaimRun, Claim, Claimable, Store
<1>3. status \in [Runs -> Statuses] /\ owned \in SUBSET Runs
      /\ \A q \in Runs : status[q] = (IF q = r THEN "running" ELSE db.status[q])
  BY <1>1 DEF Databases, Statuses
<1> HIDE DEF status, owned
<1>4. /\ db' \in Databases /\ db'.status = status /\ db'.table = db.table /\ db'.logged = db.logged
      /\ db'.cancelled = db.cancelled /\ db'.finished = db.finished
  BY <1>1, <1>2, <1>3 DEF Databases
<1>5. \A q \in db.finished : q \in Runs /\ db.status[q] # "absent"
  BY <1>1 DEF Sound, Known, Databases
<1>6. Sound(db') /\ Grows(db, db')
  BY <1>1, <1>2, <1>3, <1>4, <1>5, MoveKeeps
<1> QED BY <1>2, <1>6, StoreInv

\* An executor ends its run or interrupts it.
LEMMA EndRunInv ==
    ASSUME IInv, NEW r \in Runs, EndRun(r) PROVE IInv'
<1>1. Sound(db) /\ db \in Databases
  BY DEF IInv, Sound
<1>2. PICK s \in {"settled", "interrupted"} : db' = [db EXCEPT !.status[r] = s] /\ Store(db')
  BY DEF EndRun, Store
<1> DEFINE status == [db.status EXCEPT ![r] = s]
<1>3. db' = [db EXCEPT !.status = status] /\ db.status[r] = "running"
  BY <1>2 DEF EndRun
<1>4. status \in [Runs -> Statuses]
      /\ \A q \in Runs : status[q] = (IF q = r THEN s ELSE db.status[q])
  BY <1>1 DEF Databases, Statuses
<1> HIDE DEF status
<1>5. /\ db' \in Databases /\ db'.status = status /\ db'.table = db.table /\ db'.logged = db.logged
      /\ db'.cancelled = db.cancelled /\ db'.finished = db.finished
  BY <1>1, <1>3, <1>4 DEF Databases
<1>6. \A q \in db.finished : q \in Runs /\ db.status[q] # "absent"
  BY <1>1 DEF Sound, Known, Databases
<1>7. Sound(db') /\ Grows(db, db')
  <2>1. \A q \in Runs : db.status[q] = "running" => status[q] \in {"running", "interrupted", "settled"}
    BY <1>2, <1>4
  <2>2. \A q \in Runs : status[q] = "absent" <=> db.status[q] = "absent"
    BY <1>2, <1>3, <1>4
  <2>3. \A q \in Runs : db.status[q] \in {"interrupted", "settled"} => status[q] = db.status[q]
    BY <1>3, <1>4
  <2>4. \A q \in db'.finished : db'.status[q] # "absent"
    BY <1>5, <1>6, <2>2
  <2> QED BY <1>1, <1>5, <2>1, <2>2, <2>3, <2>4, MoveKeeps
<1> QED BY <1>2, <1>7, StoreInv

\* Authority, receipts and approvals are of no account.
LEMMA LightInv ==
    ASSUME IInv, NEW r \in Runs, Unown(r) \/ Complete(r) \/ AskApproval(r) \/ DecideApproval(r)
    PROVE  IInv'
<1>1. Sound(db) /\ db \in Databases
  BY DEF IInv, Sound
<1>2. db.owned \subseteq Runs /\ db.asking \subseteq Runs /\ db.finished \subseteq Runs
  BY <1>1 DEF Databases
<1>3. /\ db' \in Databases /\ db'.status = db.status /\ db'.table = db.table
      /\ db'.logged = db.logged /\ db'.cancelled = db.cancelled
      /\ \A q \in db'.finished : q \in db.finished \/ db.status[q] = "running"
  <2>1. CASE Unown(r)
    <3>1. db' = [db EXCEPT !.owned = db.owned \ {r}] /\ db.owned \ {r} \in SUBSET Runs
      BY <1>2, <2>1 DEF Unown, Store
    <3> QED BY <1>1, <3>1 DEF Databases
  <2>2. CASE Complete(r)
    <3>1. db' = [db EXCEPT !.finished = db.finished \cup {r}] /\ db.finished \cup {r} \in SUBSET Runs
      BY <1>2, <2>2 DEF Complete, Store
    <3>2. db.status[r] = "running"
      BY <2>2 DEF Complete
    <3> QED BY <1>1, <3>1, <3>2 DEF Databases
  <2>3. CASE AskApproval(r)
    <3>1. db' = [db EXCEPT !.asking = db.asking \cup {r}] /\ db.asking \cup {r} \in SUBSET Runs
      BY <1>2, <2>3 DEF AskApproval, Store
    <3> QED BY <1>1, <3>1 DEF Databases
  <2>4. CASE DecideApproval(r)
    <3>1. db' = [db EXCEPT !.asking = db.asking \ {r}] /\ db.asking \ {r} \in SUBSET Runs
      BY <1>2, <2>4 DEF DecideApproval, Store
    <3> QED BY <1>1, <3>1 DEF Databases
  <2> QED BY <2>1, <2>2, <2>3, <2>4
<1>4. Store(db')
  BY DEF Unown, Complete, AskApproval, DecideApproval, Store
<1>5. \A q \in db'.finished : db.status[q] # "absent"
  BY <1>1, <1>2, <1>3 DEF Sound, Known
<1>6. Sound(db') /\ Grows(db, db')
  BY <1>1, <1>3, <1>5, MoveKeeps
<1> QED BY <1>4, <1>6, StoreInv

\* The archive and the setting for automatic continuation change.
LEMMA ChangeInv ==
    ASSUME IInv, NEW setting \in Settings, Change(setting) PROVE IInv'
<1>1. Sound(db) /\ db \in Databases
  BY DEF IInv, Sound
<1>2. setting.archived \in BOOLEAN /\ setting.unattended \in BOOLEAN
  BY AdmissionAssumption
<1>3. db' = [db EXCEPT !.archived = setting.archived, !.unattended = setting.unattended] /\ Store(db')
  BY DEF Change, Store
<1>4. /\ db' \in Databases /\ db'.status = db.status /\ db'.table = db.table
      /\ db'.logged = db.logged /\ db'.cancelled = db.cancelled /\ db'.finished = db.finished
  BY <1>1, <1>2, <1>3 DEF Databases
<1>5. \A q \in db.finished : q \in Runs /\ db.status[q] # "absent"
  BY <1>1 DEF Sound, Known, Databases
<1>6. Sound(db') /\ Grows(db, db')
  BY <1>1, <1>4, <1>5, MoveKeeps
<1> QED BY <1>3, <1>6, StoreInv

\* A cancellation reaches the first and the latest run of a lineage.
LEMMA CancelRunInv ==
    ASSUME IInv, NEW r \in Runs, CancelRun(r) PROVE IInv'
  BY CancelKeeps, StoreInv DEF CancelRun, IInv

\* The invariant holds before anything was planned.
LEMMA InitInv == Init => IInv
<1> SUFFICES ASSUME Init PROVE IInv
  OBVIOUS
<1> DEFINE status == [r \in Runs |-> IF r \in Originals THEN "queued" ELSE "absent"]
<1>1. Unplanned \in Projections
  BY DEF Unplanned, Nothing, Projections
<1>2. status \in [Runs -> Statuses]
  BY DEF Statuses
<1>3. db = [table |-> Unplanned, logged |-> Unplanned, status |-> status,
            owned |-> {}, unknown |-> {}, cancelled |-> {}, asking |-> {}, finished |-> {},
            archived |-> FALSE, unattended |-> TRUE]
  BY DEF Init, InitialDatabase
<1>4. \A r \in Runs : status[r] = (IF r \in Originals THEN "queued" ELSE "absent")
  OBVIOUS
<1> HIDE DEF status
<1>5. /\ db \in Databases /\ db.table = Unplanned /\ db.logged = Unplanned
      /\ db.status = status /\ db.cancelled = {} /\ db.finished = {}
  BY <1>1, <1>2, <1>3 DEF Databases
<1>6. \A r \in Runs : Relation(db, r) = None /\ Record(db, r) = None /\ Chain(db, r) = None
  BY <1>5 DEF Unplanned, Nothing, Relation, Record, Chain
<1>7. Known(db) /\ Linked(db) /\ Recorded(db) /\ Chained(db) /\ Counted(db) /\ Stopped(db)
  BY <1>4, <1>5, <1>6 DEF Known, Linked, Recorded, Chained, Counted, Stopped
<1>8. Admitting(db, pending, asks)
  BY DEF Init, Admitting, Nothing
<1>9. /\ pending \in [Kernels -> [Runs -> Entries \cup {None}]]
      /\ asks \in [Requests -> Asks \cup {None}] /\ late \subseteq Calls
  BY DEF Init, Nothing
<1> QED BY <1>5, <1>7, <1>8, <1>9 DEF IInv, Sound

\* Every step keeps the invariant.
LEMMA StepInv == IInv /\ [Next]_vars => IInv'
<1> SUFFICES ASSUME IInv, [Next]_vars PROVE IInv'
  OBVIOUS
<1>1. CASE \E k \in Kernels, r \in Runs : Call(k, r) \/ Check(k, r) \/ LoseReply(k, r) \/ Resume(k, r)
  BY <1>1, CallInv, CheckInv, LoseReplyInv, ResumeInv
<1>2. CASE \E k \in Kernels : Crash(k)
  BY <1>2, CrashInv
<1>3. CASE \E call \in late : ApplyLate(call) \/ DropLate(call)
  BY <1>3, LateInv
<1>4. CASE \E r \in Runs, effects \in BOOLEAN : Notify(r, effects)
  BY <1>4, NotifyInv
<1>5. CASE \E k \in Kernels, q \in Requests, r \in Runs : Ask(k, q, r)
  BY <1>5, AskInv
<1>6. CASE \E q \in Requests : Join(q)
  BY <1>6, JoinInv
<1>7. CASE \E r \in Runs : ClaimRun(r) \/ EndRun(r) \/ Unown(r) \/ Complete(r) \/ CancelRun(r)
  BY <1>7, ClaimRunInv, EndRunInv, LightInv, CancelRunInv
<1>8. CASE \E r \in Runs : AskApproval(r) \/ DecideApproval(r)
  BY <1>8, LightInv
<1>9. CASE \E setting \in Settings : Change(setting)
  BY <1>9, ChangeInv
<1>10. CASE UNCHANGED vars
  BY <1>10 DEF vars, IInv
<1> QED BY <1>1, <1>2, <1>3, <1>4, <1>5, <1>6, <1>7, <1>8, <1>9, <1>10 DEF Next

-----------------------------------------------------------------------------
(* The theorems.                                                            *)

\* The inductive invariant holds in every reachable state.
THEOREM AdmissionInvariance == Spec => []IInv
<1>1. Init => IInv
  BY InitInv
<1>2. IInv /\ [Next]_vars => IInv'
  BY StepInv
<1> QED BY <1>1, <1>2, PTL DEF Spec

\* The tables, the log, the entries and the calls keep their types.
THEOREM AdmissionTyped == Spec => []AdmissionTypeOK
<1>1. IInv => AdmissionTypeOK
  BY DEF IInv, Sound, AdmissionTypeOK, TypeOK
<1> QED BY <1>1, AdmissionInvariance, PTL

\* runtime_recovery_chains: for any number of runs, Kernels and requests and
\* any limits, the row of a chain names the run its lineage has reached and
\* counts its continuations, all of them and the automatic ones.
THEOREM ChainsAreCurrent == Spec => []ChainNamesItsTail
<1>1. ASSUME IInv PROVE ChainNamesItsTail
  <2>1. \A root : Lineage(root) = LineageOf(db, root)
    BY DEF Lineage, LineageOf
  <2>2. ASSUME NEW root \in Runs, Chain(db, root) # None, NEW r \in LineageOf(db, root)
        PROVE  Relation(db, r).from # Chain(db, root).current
    <3>1. r \in Runs /\ Relation(db, r) # None
      BY DEF LineageOf
    <3>2. Record(db, Relation(db, r).from) # None /\ Record(db, Relation(db, r).from).run = r
      BY <1>1, <3>1 DEF IInv, Sound, Linked
    <3>3. Record(db, Chain(db, root).current) # None => Record(db, Chain(db, root).current).run = None
      BY <1>1, <2>2 DEF IInv, Sound, Chained
    <3> QED BY <3>1, <3>2, <3>3, NoneFacts
  <2>3. ASSUME NEW root \in Runs, Chain(db, root) # None
        PROVE  Chain(db, root).current \in LineageOf(db, root) \cup {root}
    BY <1>1, <2>3 DEF IInv, Sound, Chained
  <2>4. ASSUME NEW root \in Runs, Chain(db, root) # None
        PROVE  /\ Chain(db, root).attempts = Cardinality(LineageOf(db, root))
               /\ Chain(db, root).automatic =
                     Cardinality({r \in LineageOf(db, root) : Relation(db, r).manual = None})
    BY <1>1, <2>4 DEF IInv, Sound, Counted
  <2> QED BY <2>1, <2>2, <2>3, <2>4 DEF ChainNamesItsTail, Chain
<1> QED BY <1>1, AdmissionInvariance, PTL

\* restore: replaying the session log rebuilds the recovery tables.
THEOREM LogIsComplete == Spec => []LogRebuildsRecovery
<1>1. IInv => LogRebuildsRecovery
  BY DEF IInv, Sound, LogRebuildsRecovery
<1> QED BY <1>1, AdmissionInvariance, PTL

\* admitPending: a request that joined an admission under way is tried, or
\* stays on record, or the record takes none any more.
THEOREM RequestsAreKept == Spec => []JoinedRequestsAreTried
<1>1. ASSUME IInv, NEW k \in Kernels, NEW r \in Runs, Waiting(k, r) # {},
             pending[k][r].stage # "check", Supplied(CallOf(r, pending[k][r])), Reply(k, r) # None
      PROVE  Tried(Reply(k, r))
  <2> DEFINE entry  == pending[k][r]
             call   == CallOf(r, entry)
             record == Execute(db, call).record
  <2>1. Sound(db) /\ Admitting(db, pending, asks) /\ Typed
    BY <1>1 DEF IInv, Typed
  <2>2. entry # None /\ entry.manual # None /\ entry \in Entries
    <3>1. PICK q \in Requests : asks[q] = [at |-> k, run |-> r, stage |-> "waiting"]
      BY <1>1 DEF Waiting
    <3>2. asks[q] # None /\ asks[q].stage = "waiting" /\ asks[q].at = k /\ asks[q].run = r
      <4>1. [at |-> k, run |-> r, stage |-> "waiting"] \in Asks
        BY DEF Asks
      <4> QED BY <3>1, <4>1, NoneFacts
    <3>3. entry # None /\ entry.manual # None
      BY <2>1, <3>2 DEF Admitting
    <3> QED BY <2>1, <3>3 DEF Typed
  <2>3. /\ Reply(k, r) = record /\ record # None
        /\ PassEnds(entry, record) /\ ~Rechecked(entry, record)
    BY <1>1 DEF Reply
  <2>4. call \in Calls /\ call.run = r /\ call.pass = entry.pass /\ call.stage = entry.stage
    BY <1>1, <2>2 DEF CallOf, Calls, Entries
  <2>5. Supplied(call)
    BY <1>1
  <2> HIDE DEF call
  <2>6. /\ Grows(db, Execute(db, call).db)
        /\ record = Record(Execute(db, call).db, r)
        /\ entry.stage \in {"hold", "refuse"} /\ entry.pass # None => Tried(record)
    BY <2>1, <2>3, <2>4, <2>5, ExecuteKeeps
  <2>7. record.run # None \/ entry.pass # None
    BY <2>2, <2>3 DEF Rechecked
  <2>8. CASE record.run # None
    BY <2>3, <2>8 DEF Tried
  <2>9. CASE record.run = None /\ entry.stage = "plan"
    BY <2>3, <2>7, <2>9 DEF PassEnds, Tried, Closed
  <2>10. CASE record.run = None /\ entry.stage \in {"hold", "refuse"}
    BY <2>3, <2>6, <2>7, <2>10
  <2>11. CASE record.run = None /\ entry.stage = "queue"
    BY <2>1, <2>2, <2>3, <2>6, <2>7, <2>11 DEF Admitting, Grows
  <2> QED BY <1>1, <2>2, <2>8, <2>9, <2>10, <2>11 DEF Entries
<1>2. IInv => JoinedRequestsAreTried
  BY <1>1 DEF JoinedRequestsAreTried, Tried
<1> QED BY <1>2, AdmissionInvariance, PTL

-----------------------------------------------------------------------------
(* The refinement of ContinuationLineage.                                   *)

\* The variables of ContinuationLineage, of any database.
From(d) == [r \in Runs |-> IF Relation(d, r) = None THEN None ELSE Relation(d, r).from]
Origin(d) == [r \in Runs |-> RootOf(d, r)]
Automatic(d) == {r \in Runs : Relation(d, r) # None /\ Relation(d, r).manual = None}
Blocked(d) == {r \in Runs : d.archived \/ r \in d.asking \cup d.unknown}
Permitted(d) == {r \in Runs : d.unattended \/ CompletionCommitted(d, r)}

\* The mapping sees the tables only through the relations of the runs.
LEMMA SameRelations ==
    ASSUME NEW d, NEW e, \A r \in Runs : Relation(e, r) = Relation(d, r)
    PROVE  /\ From(e) = From(d) /\ Origin(e) = Origin(d) /\ Automatic(e) = Automatic(d)
           /\ \A r \in Runs : Predecessors(e, r) = Predecessors(d, r)
<1>1. \A rs \in SUBSET Runs : WithPredecessors(e, rs) <=> WithPredecessors(d, rs)
  BY DEF WithPredecessors
<1>2. \A r \in Runs : Predecessors(e, r) = Predecessors(d, r)
  BY <1>1 DEF Predecessors
<1> QED BY <1>2 DEF From, Origin, RootOf, Automatic

\* A run that continues p has the predecessors of p; no other run gets one.
LEMMA PredecessorsGrow ==
    ASSUME NEW d, NEW e, NEW p \in Runs, NEW s \in Runs, NEW relation, relation # None,
           relation.from = p, p # s, Relation(d, s) = None,
           \A q \in Runs : Relation(e, q) = (IF q = s THEN relation ELSE Relation(d, q)),
           \A q \in Runs : Relation(d, q) # None => Relation(d, q).from \in Runs \ {s}
    PROVE  /\ Predecessors(e, s) = {s} \cup Predecessors(d, p)
           /\ \A q \in Runs \ {s} : Predecessors(e, q) = Predecessors(d, q)
<1>1. ASSUME NEW rs \in SUBSET Runs, WithPredecessors(e, rs) PROVE WithPredecessors(d, rs)
  BY <1>1 DEF WithPredecessors
<1>2. ASSUME NEW rs \in SUBSET Runs, WithPredecessors(d, rs) PROVE WithPredecessors(e, rs \ {s})
  BY <1>2 DEF WithPredecessors
<1>3. ASSUME NEW rs \in SUBSET Runs, WithPredecessors(d, rs), p \in rs
      PROVE  WithPredecessors(e, rs \cup {s})
  BY <1>3 DEF WithPredecessors
<1>4. ASSUME NEW q \in Runs \ {s} PROVE Predecessors(e, q) = Predecessors(d, q)
  <2>1. ASSUME NEW x \in Predecessors(e, q) PROVE x \in Predecessors(d, q)
    <3>1. ASSUME NEW rs \in SUBSET Runs, q \in rs, WithPredecessors(d, rs) PROVE x \in rs
      <4>1. WithPredecessors(e, rs \ {s}) /\ q \in rs \ {s} /\ rs \ {s} \in SUBSET Runs
        BY <1>2, <3>1
      <4> QED BY <4>1 DEF Predecessors
    <3> QED BY <3>1 DEF Predecessors
  <2>2. ASSUME NEW x \in Predecessors(d, q) PROVE x \in Predecessors(e, q)
    BY <1>1 DEF Predecessors
  <2> QED BY <2>1, <2>2
<1>5. ASSUME NEW x \in Predecessors(e, s) PROVE x \in {s} \cup Predecessors(d, p)
  <2>1. ASSUME NEW rs \in SUBSET Runs, p \in rs, WithPredecessors(d, rs) PROVE x \in rs \cup {s}
    <3>1. WithPredecessors(e, rs \cup {s}) /\ s \in rs \cup {s} /\ rs \cup {s} \in SUBSET Runs
      BY <1>3, <2>1
    <3> QED BY <3>1 DEF Predecessors
  <2> QED BY <2>1 DEF Predecessors
<1>6. ASSUME NEW x \in {s} \cup Predecessors(d, p) PROVE x \in Predecessors(e, s)
  <2>1. ASSUME NEW rs \in SUBSET Runs, s \in rs, WithPredecessors(e, rs) PROVE x \in rs
    <3>1. p \in rs
      BY <2>1 DEF WithPredecessors
    <3> QED BY <1>1, <2>1, <3>1 DEF Predecessors
  <2> QED BY <2>1 DEF Predecessors
<1> QED BY <1>4, <1>5, <1>6

\* A transaction that continues nothing is a stutter of the abstraction.
LEMMA SameRunsView ==
    ASSUME SameRuns(db, db') PROVE UNCHANGED Lineages!vars
<1>1. /\ From(db') = From(db) /\ Origin(db') = Origin(db) /\ Automatic(db') = Automatic(db)
      /\ \A r \in Runs : Predecessors(db', r) = Predecessors(db, r)
  BY SameRelations DEF SameRuns
<1>2. Permitted(db') = Permitted(db) /\ Blocked(db') = Blocked(db)
  BY <1>1 DEF SameRuns, Permitted, Blocked, CompletionCommitted
<1>3. db'.status = db.status /\ db'.cancelled = db.cancelled
  BY DEF SameRuns
<1> QED BY <1>1, <1>2, <1>3 DEF Lineages!vars, From, Origin, Automatic, Permitted, Blocked

\* Approvals, receipts and settings are a step of Control.
LEMMA ControlView ==
    ASSUME db'.table = db.table, db'.status = db.status, db'.cancelled = db.cancelled
    PROVE  Lineages!Control
<1>1. /\ From(db') = From(db) /\ Origin(db') = Origin(db) /\ Automatic(db') = Automatic(db)
  BY SameRelations DEF Relation
<1>2. Permitted(db') \in SUBSET Runs /\ Blocked(db') \in SUBSET Runs
  BY DEF Permitted, Blocked
<1> QED BY <1>1, <1>2 DEF Lineages!Control, From, Origin, Automatic, Permitted, Blocked

\* queueRecovery is a step of Continue.
LEMMA ContinueView ==
    ASSUME Sound(db), db' \in Databases, NEW p \in Runs, NEW s \in Runs, db.status[s] = "absent",
           Continues(db, db', p, s)
    PROVE  Lineages!Continue(p, s)
<1> DEFINE record == Record(db, p)
           relation == Successor(record, p)
           root == RootOf(db, p)
<1>1. /\ record \in Records /\ record.chain.root = root /\ record.chain.current = p
      /\ db.status[p] = "interrupted" /\ root \in Runs /\ Chain(db, root) = record.chain
      /\ record.chain \in Chains
  BY Found DEF Continues
<1>2. /\ relation \in Relations /\ relation.from = p /\ relation.root = root
      /\ relation.manual = record.manual
  BY <1>1, QueuedRow
<1>3. /\ \A q \in Runs : Relation(db', q) = (IF q = s THEN relation ELSE Relation(db, q))
      /\ db'.status = [db.status EXCEPT ![s] = "queued"]
      /\ db'.cancelled = db.cancelled /\ db'.finished = db.finished
      /\ db'.asking = db.asking /\ db'.unknown = db.unknown
      /\ db'.archived = db.archived /\ db'.unattended = db.unattended
  BY DEF Continues
<1>4. record # None /\ record.run = None /\ ~Spent(record) /\ Withheld(db, p, record) = None
  BY DEF Continues
<1>5. /\ Reason(db, p) = None
      /\ record.manual = None => db.unattended \/ CompletionCommitted(db, p)
  BY <1>4, NoneFacts DEF Withheld, Reasons
<1> HIDE DEF relation, record, root
<1>6. relation # None /\ record.chain # None
  <2>1. relation # None
    BY <1>2, NoneFacts
  <2>2. record.chain # None
    BY <1>1, NoneFacts
  <2> QED BY <2>1, <2>2
<1>7. ~db.archived /\ p \notin db.cancelled /\ p \notin db.asking /\ p \notin db.unknown
  BY <1>5, NoneFacts DEF Reason, Reasons
<1>8. Relation(db, s) = None /\ Record(db, s) = None /\ s \notin db.finished /\ s # p
  BY <1>1 DEF Sound, Known
<1>9. \A q \in Runs : Relation(db, q) # None =>
         /\ Relation(db, q).from \in Runs \ {s} /\ Relation(db, q).from # p
  <2>1. ASSUME NEW q \in Runs, Relation(db, q) # None
        PROVE  Relation(db, q).from \in Runs \ {s} /\ Relation(db, q).from # p
    <3>1. Relation(db, q).from \in Runs
      BY <2>1, Rows DEF Sound, Relations
    <3>2. Record(db, Relation(db, q).from) # None /\ Record(db, Relation(db, q).from).run = q
      BY <2>1 DEF Sound, Linked
    <3> QED BY <3>1, <3>2, <1>4, <1>8, NoneFacts DEF record
  <2> QED BY <2>1
<1>10. \A q \in Runs : From(db)[q] # p
  BY <1>9, NoneFacts DEF From
<1>11. Origin(db)[p] = root /\ root \notin db.cancelled
  <2>1. Chain(db, root).current = p /\ Chain(db, root) # None
    BY <1>1, <1>6
  <2>2. root \notin db.cancelled
    BY <2>1, <1>1, <1>7 DEF Sound, Stopped
  <2> QED BY <2>2 DEF Origin, root
<1>12. p \notin Blocked(db)
  BY <1>7 DEF Blocked
<1>13. From(db') = [From(db) EXCEPT ![s] = p]
  BY <1>2, <1>3, <1>6 DEF From
<1>14. Origin(db') = [Origin(db) EXCEPT ![s] = Origin(db)[p]]
  BY <1>2, <1>3, <1>6, <1>11 DEF Origin, RootOf
<1>15. Automatic(db') = Automatic(db) \cup (IF record.manual = None THEN {s} ELSE {})
  BY <1>2, <1>3, <1>6, <1>8 DEF Automatic
<1>16. Blocked(db') = Blocked(db)
  BY <1>3 DEF Blocked
<1>17. Permitted(db') = Permitted(db) \cup (IF p \in Permitted(db) THEN {s} ELSE {})
  <2>1. /\ Predecessors(db', s) = {s} \cup Predecessors(db, p)
        /\ \A q \in Runs \ {s} : Predecessors(db', q) = Predecessors(db, q)
    <3>1. \A q \in Runs : Relation(db, q) # None => Relation(db, q).from \in Runs \ {s}
      BY <1>9
    <3>2. relation.from = p /\ p # s
      BY <1>2, <1>8
    <3>3. \A q \in Runs : Relation(db', q) = (IF q = s THEN relation ELSE Relation(db, q))
      BY <1>3
    <3> QED BY <1>6, <1>8, <3>1, <3>2, <3>3, PredecessorsGrow
  <2>2. Predecessors(db, s) \subseteq {s}
    <3>1. WithPredecessors(db, {s})
      BY <1>8 DEF WithPredecessors
    <3> QED BY <3>1 DEF Predecessors
  <2>3. CompletionCommitted(db', s) <=> CompletionCommitted(db, p)
    BY <2>1, <1>3, <1>8 DEF CompletionCommitted
  <2>4. ~CompletionCommitted(db, s)
    BY <2>2, <1>8 DEF CompletionCommitted
  <2>5. \A q \in Runs \ {s} : CompletionCommitted(db', q) <=> CompletionCommitted(db, q)
    BY <2>1, <1>3 DEF CompletionCommitted
  <2> HIDE DEF CompletionCommitted
  <2> QED BY <2>3, <2>4, <2>5, <1>3 DEF Permitted
<1>18. /\ record.chain.attempts = Cardinality(LineageOf(db, root))
       /\ record.chain.automatic = Cardinality({q \in LineageOf(db, root) : Relation(db, q).manual = None})
       /\ record.chain.attempts < TotalLimit
       /\ record.manual = None => record.chain.automatic < AutomaticLimit
  <2>1. /\ record.chain.attempts = Cardinality(LineageOf(db, root))
        /\ record.chain.automatic = Cardinality({q \in LineageOf(db, root) : Relation(db, q).manual = None})
    BY <1>1, <1>6 DEF Sound, Counted
  <2>2. record.chain.attempts \in Nat /\ record.chain.automatic \in Nat
    BY <1>1 DEF Chains
  <2> QED BY <2>1, <2>2, <1>4, RecoveryAssumption DEF Spent
<1>19. LineageOf(db, root) = {q \in Runs : From(db)[q] # None /\ Origin(db)[q] = Origin(db)[p]}
  <2>1. \A q \in Runs : From(db)[q] # None <=> Relation(db, q) # None
    BY <1>9, NoneFacts DEF From
  <2>2. Relation(db, root) = None
    BY <1>1, <1>6 DEF Sound, Chained
  <2> QED BY <2>1, <2>2, <1>11 DEF LineageOf, Origin, RootOf
<1>20. {q \in LineageOf(db, root) : Relation(db, q).manual = None}
          = {q \in Runs : From(db)[q] # None /\ Origin(db)[q] = Origin(db)[p]} \cap Automatic(db)
  BY <1>19 DEF Automatic, LineageOf
<1>21. \/ Automatic(db') = Automatic(db)
       \/ /\ p \in Permitted(db)
          /\ Cardinality({q \in Runs : From(db)[q] # None /\ Origin(db)[q] = Origin(db)[p]} \cap Automatic(db))
                < AutomaticLimit
          /\ Automatic(db') = Automatic(db) \cup {s}
  <2>1. CASE record.manual = None
    <3>1. p \in Permitted(db)
      BY <1>5, <2>1 DEF Permitted
    <3>2. Automatic(db') = Automatic(db) \cup {s}
      BY <1>15, <2>1
    <3>3. Cardinality({q \in Runs : From(db)[q] # None /\ Origin(db)[q] = Origin(db)[p]} \cap Automatic(db))
             = record.chain.automatic
      BY <1>18, <1>20
    <3>4. record.chain.automatic < AutomaticLimit
      BY <1>18, <2>1
    <3> QED BY <3>1, <3>2, <3>3, <3>4
  <2>2. CASE record.manual # None
    BY <1>15, <2>2
  <2> QED BY <2>1, <2>2
<1>22. Cardinality({q \in Runs : From(db)[q] # None /\ Origin(db)[q] = Origin(db)[p]}) < TotalLimit
  BY <1>18, <1>19
<1>23. Origin(db)[p] \notin db.cancelled \cap Originals
  BY <1>11
<1>24. db.status[p] = "interrupted" /\ db.status[s] = "absent"
  BY <1>1
<1>25. db'.cancelled \cap Originals = db.cancelled \cap Originals
  BY <1>3
<1>26. db'.status = [db.status EXCEPT ![s] = "queued"]
  BY <1>3
<1>27. /\ Lineages!Continuations(p) = {q \in Runs : From(db)[q] # None /\ Origin(db)[q] = Origin(db)[p]}
       /\ \A S : Lineages!Cardinality(S) = Cardinality(S)
  BY DEF Lineages!Continuations, From, Origin, Lineages!Cardinality, Cardinality
<1> QED BY <1>10, <1>12, <1>13, <1>14, <1>16, <1>17, <1>21, <1>22, <1>23, <1>24, <1>25, <1>26, <1>27
        DEF Lineages!Continue, From, Origin, Automatic, Permitted, Blocked

\* claim is a step of Begin.
LEMMA BeginView ==
    ASSUME Sound(db), NEW r \in Runs, ClaimRun(r) PROVE Lineages!Begin(r)
<1>1. db \in Databases
  BY DEF Sound
<1>2. /\ db' = [db EXCEPT !.status[r] = "running", !.owned = @ \cup {r}] /\ db.status[r] = "queued"
  BY DEF ClaimRun, Claim, Claimable, Store
<1>3. /\ db'.status = [db.status EXCEPT ![r] = "running"]
      /\ db'.table = db.table /\ db'.cancelled = db.cancelled /\ db'.finished = db.finished
      /\ db'.asking = db.asking /\ db'.unknown = db.unknown
      /\ db'.archived = db.archived /\ db'.unattended = db.unattended
  BY <1>1, <1>2 DEF Databases
<1>4. /\ From(db') = From(db) /\ Origin(db') = Origin(db) /\ Automatic(db') = Automatic(db)
      /\ \A q \in Runs : Predecessors(db', q) = Predecessors(db, q)
  BY <1>3, SameRelations DEF Relation
<1>5. Permitted(db') = Permitted(db) /\ Blocked(db') = Blocked(db)
  BY <1>3, <1>4 DEF Permitted, Blocked, CompletionCommitted
<1>6. Origin(db)[r] \notin db.cancelled \cap Originals
  BY <1>2, QueuedIsLast DEF Origin
<1> QED BY <1>2, <1>3, <1>4, <1>5, <1>6 DEF Lineages!Begin, From, Origin, Automatic, Permitted, Blocked

\* The end of a run, or its interruption by the executor or by recover, is a
\* step of End.
LEMMA EndView ==
    ASSUME Sound(db), NEW r \in Runs, NEW effects \in BOOLEAN, EndRun(r) \/ Notify(r, effects)
    PROVE  Lineages!End(r)
<1>1. db \in Databases /\ db.status[r] = "running"
  BY DEF Sound, EndRun, Notify
<1>2. /\ \/ db'.status = [db.status EXCEPT ![r] = "settled"]
         \/ db'.status = [db.status EXCEPT ![r] = "interrupted"]
      /\ db'.table = db.table /\ db'.cancelled = db.cancelled /\ db'.finished = db.finished
      /\ db'.asking = db.asking /\ db'.unknown \in {db.unknown, db.unknown \cup {r}}
      /\ db'.archived = db.archived /\ db'.unattended = db.unattended
  <2>1. CASE EndRun(r)
    BY <1>1, <2>1 DEF EndRun, Store, Databases
  <2>2. CASE Notify(r, effects)
    <3> DEFINE unknown == IF effects THEN db.unknown \cup {r} ELSE db.unknown
    <3>1. db' = [db EXCEPT !.status[r] = "interrupted", !.unknown = unknown]
      BY <1>1, <2>2 DEF Notify, Recover
    <3>2. unknown \in {db.unknown, db.unknown \cup {r}}
      OBVIOUS
    <3> HIDE DEF unknown
    <3> QED BY <1>1, <3>1, <3>2 DEF Databases
  <2> QED BY <2>1, <2>2
<1>3. /\ From(db') = From(db) /\ Origin(db') = Origin(db) /\ Automatic(db') = Automatic(db)
      /\ \A q \in Runs : Predecessors(db', q) = Predecessors(db, q)
  BY <1>2, SameRelations DEF Relation
<1>4. Permitted(db') = Permitted(db)
  BY <1>2, <1>3 DEF Permitted, CompletionCommitted
<1>5. Blocked(db') \in {Blocked(db), Blocked(db) \cup {r}}
  BY <1>2 DEF Blocked
<1> QED BY <1>1, <1>2, <1>3, <1>4, <1>5 DEF Lineages!End, From, Origin, Automatic, Permitted, Blocked

\* cancelRecovery is a step of Cancel: the runs it reaches are the first and
\* the latest one of the lineage, and no other waits.
LEMMA CancelView ==
    ASSUME Sound(db), NEW r \in Runs, CancelRun(r) PROVE Lineages!Cancel(r)
<1> DEFINE ids == CancelTargets(db, r)
           root == RootOf(db, r)
           status == [q \in Runs |-> IF q \in ids /\ db.status[q] = "queued" THEN "settled" ELSE db.status[q]]
           cancelled == db.cancelled \cup {q \in ids : db.status[q] \in {"running", "interrupted"}}
<1>1. db \in Databases /\ db.status[r] # "absent" /\ root \in Runs
  BY Rows DEF Sound, CancelRun
<1>2. db' = [db EXCEPT !.status = status, !.cancelled = cancelled]
  BY DEF CancelRun, Cancel, Store
<1> HIDE DEF status, cancelled
<1>3. /\ db'.status = status /\ db'.cancelled = cancelled
      /\ db'.table = db.table /\ db'.finished = db.finished
      /\ db'.asking = db.asking /\ db'.unknown = db.unknown
      /\ db'.archived = db.archived /\ db'.unattended = db.unattended
  BY <1>1, <1>2 DEF Databases
<1>4. /\ From(db') = From(db) /\ Origin(db') = Origin(db) /\ Automatic(db') = Automatic(db)
      /\ \A q \in Runs : Predecessors(db', q) = Predecessors(db, q)
  BY <1>3, SameRelations DEF Relation
<1>5. Permitted(db') = Permitted(db) /\ Blocked(db') = Blocked(db)
  BY <1>3, <1>4 DEF Permitted, Blocked, CompletionCommitted
<1>6. /\ ids \subseteq LineageOf(db, root) \cup {root} /\ root \in ids
      /\ \A q \in LineageOf(db, root) \cup {root} : db.status[q] = "queued" => q \in ids
      /\ \A q \in ids : q \in Runs /\ db.status[q] # "absent" /\ RootOf(db, q) = root
  BY <1>1, Targets
<1>7. \A q \in Runs : Origin(db)[q] = RootOf(db, q)
  BY DEF Origin
<1> HIDE DEF ids
<1>8. \A q \in Runs : RootOf(db, q) = root => q \in LineageOf(db, root) \cup {root}
  BY DEF LineageOf, RootOf
<1>9. status = [q \in Runs |-> IF db.status[q] = "queued" /\ Origin(db)[q] = Origin(db)[r]
                               THEN "settled" ELSE db.status[q]]
  <2>1. \A q \in Runs : q \in ids /\ db.status[q] = "queued"
           <=> db.status[q] = "queued" /\ Origin(db)[q] = Origin(db)[r]
    BY <1>6, <1>7, <1>8
  <2> QED BY <2>1 DEF status
<1>10. cancelled \cap Originals
          = (db.cancelled \cap Originals)
               \cup ({Origin(db)[r]} \ {q \in Runs : db.status[q] \in {"queued", "settled"}})
  <2>1. root \in Originals
    <3>1. Relation(db, root) = None
      BY <1>1 DEF Sound, Linked, RootOf
    <3> QED BY <1>1, <1>6, <3>1 DEF Sound, Known
  <2>2. \A q \in ids : q \in Originals => q = root
    BY <1>6 DEF LineageOf, Sound, Known
  <2>3. db.status[root] \in Statuses /\ db.status[root] # "absent"
    BY <1>1, <1>6, Rows
  <2>4. db.status[root] \in {"running", "interrupted"} <=> db.status[root] \notin {"queued", "settled"}
    BY <2>3 DEF Statuses
  <2> QED BY <1>1, <1>6, <1>7, <2>1, <2>2, <2>4 DEF cancelled
<1> QED BY <1>3, <1>4, <1>5, <1>9, <1>10
        DEF Lineages!Cancel, From, Origin, Automatic, Permitted, Blocked

\* runtime-recovery.ts and runtime-state.ts implement ContinuationLineage:
\* whatever the Kernels, the users and the storage port do, one run continues
\* an interrupted one, within both limits and never after a cancellation.
THEOREM LineagesKept == Spec => ImplementsLineage
<1>1. Init => Lineages!Init
  <2> SUFFICES ASSUME Init PROVE Lineages!Init
    OBVIOUS
  <2>1. /\ db.status = [r \in Runs |-> IF r \in Originals THEN "queued" ELSE "absent"]
        /\ db.table = Unplanned /\ db.cancelled = {} /\ db.asking = {} /\ db.unknown = {}
        /\ db.archived = FALSE /\ db.unattended = TRUE
    BY DEF Init, InitialDatabase
  <2>2. \A r \in Runs : Relation(db, r) = None
    BY <2>1 DEF Unplanned, Nothing, Relation
  <2>3. /\ From(db) = [r \in Runs |-> None] /\ Origin(db) = [r \in Runs |-> r]
        /\ Automatic(db) = {} /\ Blocked(db) = {} /\ Permitted(db) = Runs
    BY <2>1, <2>2 DEF From, Origin, RootOf, Automatic, Blocked, Permitted
  <2> QED BY <2>1, <2>3 DEF Lineages!Init, From, Origin, Automatic, Permitted, Blocked
<1>2. IInv /\ IInv' /\ [Next]_vars => [Lineages!Next]_(Lineages!vars)
  <2> SUFFICES ASSUME IInv, IInv', [Next]_vars PROVE [Lineages!Next]_(Lineages!vars)
    OBVIOUS
  <2>1. Sound(db) /\ db' \in Databases /\ Typed
    BY DEF IInv, Sound, Typed
  <2>2. ASSUME NEW call \in Calls, Supplied(call), db' = Execute(db, call).db
        PROVE  [Lineages!Next]_(Lineages!vars)
    <3>1. CASE SameRuns(db, db')
      BY <3>1, SameRunsView
    <3>2. CASE \E s \in Runs : db.status[s] = "absent" /\ Continues(db, db', call.run, s)
      <4>1. call.run \in Runs
        BY DEF Calls
      <4>2. \E p, s \in Runs : Lineages!Continue(p, s)
        BY <2>1, <3>2, <4>1, ContinueView
      <4> QED BY <4>2 DEF Lineages!Next
    <3> QED BY <2>1, <2>2, <3>1, <3>2, ExecuteKeeps
  <2>3. CASE UNCHANGED db
    <3>1. SameRuns(db, db')
      BY <2>3 DEF SameRuns
    <3> QED BY <3>1, SameRunsView
  <2>4. ASSUME NEW k \in Kernels, NEW r \in Runs, Call(k, r) PROVE [Lineages!Next]_(Lineages!vars)
    <3>1. CallOf(r, pending[k][r]) \in Calls
      BY <2>1, <2>4 DEF Call, CallOf, Calls, Entries, Typed
    <3> QED BY <2>2, <2>4, <3>1 DEF Call
  <2>5. ASSUME NEW call \in late, ApplyLate(call) PROVE [Lineages!Next]_(Lineages!vars)
    BY <2>1, <2>2, <2>5 DEF ApplyLate, Typed
  <2>6. ASSUME NEW r \in Runs, NEW effects \in BOOLEAN,
               ClaimRun(r) \/ EndRun(r) \/ Notify(r, effects) \/ CancelRun(r)
        PROVE  [Lineages!Next]_(Lineages!vars)
    BY <2>1, <2>6, BeginView, EndView, CancelView DEF Lineages!Next
  <2>7. ASSUME NEW r \in Runs, Unown(r) PROVE [Lineages!Next]_(Lineages!vars)
    <3>1. SameRuns(db, db')
      BY <2>1, <2>7 DEF Unown, Store, SameRuns, Relation, Sound, Databases
    <3> QED BY <3>1, SameRunsView
  <2>8. ASSUME NEW r \in Runs, Complete(r) \/ AskApproval(r) \/ DecideApproval(r)
        PROVE  [Lineages!Next]_(Lineages!vars)
    <3>1. db'.table = db.table /\ db'.status = db.status /\ db'.cancelled = db.cancelled
      BY <2>1, <2>8 DEF Complete, AskApproval, DecideApproval, Store, Sound, Databases
    <3> QED BY <3>1, ControlView DEF Lineages!Next
  <2>9. ASSUME NEW setting \in Settings, Change(setting) PROVE [Lineages!Next]_(Lineages!vars)
    <3>1. db'.table = db.table /\ db'.status = db.status /\ db'.cancelled = db.cancelled
      BY <2>1, <2>9 DEF Change, Store, Sound, Databases
    <3> QED BY <3>1, ControlView DEF Lineages!Next
  <2>10. CASE UNCHANGED vars
    BY <2>3, <2>10 DEF vars
  <2>11. ASSUME NEW k \in Kernels, NEW r \in Runs, Check(k, r) \/ LoseReply(k, r) \/ Resume(k, r)
         PROVE  [Lineages!Next]_(Lineages!vars)
    BY <2>3, <2>11 DEF Check, LoseReply, Resume
  <2>12. ASSUME NEW k \in Kernels, Crash(k) PROVE [Lineages!Next]_(Lineages!vars)
    BY <2>3, <2>12 DEF Crash
  <2>13. ASSUME NEW k \in Kernels, NEW q \in Requests, NEW r \in Runs, Ask(k, q, r)
         PROVE  [Lineages!Next]_(Lineages!vars)
    BY <2>3, <2>13 DEF Ask
  <2>14. ASSUME NEW q \in Requests, Join(q) PROVE [Lineages!Next]_(Lineages!vars)
    BY <2>3, <2>14 DEF Join
  <2>15. ASSUME NEW call \in late, DropLate(call) PROVE [Lineages!Next]_(Lineages!vars)
    BY <2>3, <2>15 DEF DropLate
  <2> QED BY <2>4, <2>5, <2>6, <2>7, <2>8, <2>9, <2>10, <2>11, <2>12, <2>13, <2>14, <2>15 DEF Next
<1> QED BY <1>1, <1>2, AdmissionInvariance, PTL DEF Spec, ImplementsLineage, Lineages!Spec
=============================================================================
