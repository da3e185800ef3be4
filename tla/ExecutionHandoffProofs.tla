----------------------- MODULE ExecutionHandoffProofs -----------------------
(***************************************************************************)
(* Theorems about ExecutionHandoff: its invariants and its refinement of    *)
(* ExecutionAuthority, for every set of sessions, runs, owners, generations *)
(* and units, and every bound.                                              *)
(*                                                                          *)
(* ExecutionHandoffInvariant has the inductive invariant IInv and the steps *)
(* of the executors, the database, the Host and the owners; here are the    *)
(* steps that take an answer of the port, the claims and the faults, the    *)
(* theorems, and the map of each step to one of ExecutionAuthority.         *)
(***************************************************************************)
EXTENDS ExecutionHandoffInvariant

-----------------------------------------------------------------------------
(* Steps that take an answer of the port.                                   *)

\* The first call and its answer are taken, and a call may be added.
LEMMA AnswerTaken ==
    ASSUME IInv, replies # << >>, replies' = Tail(replies)
    PROVE  /\ C!Moves(Tail(calls), calls, 1, {}) /\ Tail(calls) \in Seq(Calls)
           /\ replies' \in Seq(Replies)
           /\ Len(replies') <= Len(Tail(calls))
           /\ \A c \in Calls : /\ C!Moves(Append(Tail(calls), c), calls, 1, {c})
                               /\ Append(Tail(calls), c) \in Seq(Calls)
                               /\ Len(Append(Tail(calls), c)) = Len(calls)
                               /\ Len(replies') <= Len(Append(Tail(calls), c))
<1> USE CoordinatorAssumed
<1>1. /\ calls \in Seq(Calls) /\ replies \in Seq(Replies) /\ Len(replies) <= Len(calls)
      /\ calls # << >>
  BY CoordinatorTypes, HeadAnswer DEF IInv, Sound, Typed
<1>2. calls \in Seq(C!Calls)
  BY DEF IInv, C!IInv, C!TypeOK
<1>3. PICK n \in Nat, m \in Nat : n = Len(replies) /\ m = Len(calls)
  BY <1>1
<1>4. n >= 1 /\ n <= m
  BY <1>1, <1>3
<1>5. /\ Tail(replies) \in Seq(Replies) /\ Len(Tail(replies)) = n - 1
      /\ Tail(calls) \in Seq(Calls) /\ Len(Tail(calls)) = m - 1
  BY <1>1, <1>3
<1>6. C!Moves(Tail(calls), calls, 1, {})
  BY <1>1, <1>2, C!MovesFacts
<1>7. ASSUME NEW c \in Calls
      PROVE  /\ C!Moves(Append(Tail(calls), c), calls, 1, {c})
             /\ Append(Tail(calls), c) \in Seq(Calls)
             /\ Len(Append(Tail(calls), c)) = Len(calls)
  BY <1>1, <1>2, <1>5, C!MovesFacts
<1> QED
  BY <1>3, <1>4, <1>5, <1>6, <1>7

\* What the rest of the calls keep when the first was a release or a revocation.
LEMMA OthersKeep ==
    ASSUME IInv, UNCHANGED << db, claims >>,
           \A i \in DOMAIN calls : 1 < i /\ calls[i].op = "revoke" =>
              fenced'[calls[i].by] = fenced[calls[i].by]
    PROVE  \A i \in DOMAIN calls, c \in Calls : 1 < i /\ c = calls[i] => CallKeeps(c)
BY DEF CallKeeps, Row

\* A release is answered: the lease is forgotten and the gate opens, or the
\* gate stays closed and the kernel that waited fails.
LEMMA ReleaseAnswering ==
    ASSUME IInv, C!IInv', ReleaseAnswered
    PROVE  Sound'
<1> USE CoordinatorAssumed
<1>1. PICK c \in Calls, a \in Replies :
         c = Head(calls) /\ a = Head(replies) /\ CallSound(c, a)
  BY HeadAnswer DEF ReleaseAnswered, Answered
<1>2. /\ replies # << >> /\ c.op = "release" /\ C!ReleaseReply(a)
      /\ replies' = Tail(replies)
      /\ UNCHANGED << db, drops, leases, pending, interrupted, stopped, job, fenced, writes >>
  BY <1>1, ReleaseReplySame DEF ReleaseAnswered, Answered, Reply
<1>3. PICK l \in Leases : l = c.lease /\ Given(l) /\ (a.kind = "ok" => ~Active(l.run))
  <2>1. c.lease \in Leases
    BY <1>1, <1>2, HeadAnswer, CoordinatorFacts DEF IInv
  <2> QED
    BY <1>1, <1>2, <2>1 DEF CallSound, ReleaseSound
<1>4. PICK r \in Runs : r = l.run
  BY LeaseFields
<1>5. /\ Row(r) # None /\ Row(r).lease = l /\ pending[r] = "none" /\ db.status[r] = "settled"
      /\ Idle(r) /\ SessionOf[r] \in Sessions
  BY <1>3, <1>4, LeaseAssumption DEF Given, Known
<1>6. /\ calls' = Tail(calls)
      /\ IF a.kind = "ok"
         THEN /\ blocked' = blocked \ {SessionOf[r]}
              /\ runs' = IF C!StillRegistered(l) THEN [runs EXCEPT ![r] = None] ELSE runs
         ELSE UNCHANGED << blocked, runs, sessions >>
      /\ UNCHANGED << role, exited, defaultOf, claims, revoking, interruptions, stoppedRuns,
                      fencing, pendingReleases, fence >>
  BY <1>1, <1>2, <1>3, <1>4 DEF C!ReleaseReply, C!registry, C!faults, C!Session
<1>7. /\ work' = IF work[r] = [lease |-> l, stage |-> "releasing"]
                 THEN [work EXCEPT ![r] = None] ELSE work
      /\ IF a.kind = "ok" THEN handoffs' = handoffs \cup {l} /\ UNCHANGED process
                          ELSE process' = FatalTo(l) /\ UNCHANGED handoffs
  BY <1>1, <1>3, <1>4 DEF ReleaseAnswered, Reply
<1>8. /\ work' \in [Runs -> Works \cup {None}] /\ work'[r] = None
      /\ \A q \in Runs \ {r} : work'[q] = work[q]
  <2>1. CASE work[r] = None
    <3>1. [lease |-> l, stage |-> "releasing"] \in Works
      BY DEF Works, Stages
    <3>2. work' = work
      BY <1>7, <2>1, <3>1, NoneStateAssumption
    <3> QED
      BY <2>1, <3>2 DEF IInv, Sound, Typed
  <2>2. CASE work[r] # None
    <3>1. work[r] \in Works /\ work[r].lease = l /\ work[r].stage = "releasing"
      BY <1>5, <2>2, WorkFacts DEF Idle
    <3>2. work[r] = [lease |-> l, stage |-> "releasing"]
      BY <3>1 DEF Works
    <3>3. work' = [work EXCEPT ![r] = None]
      BY <1>7, <3>2
    <3> QED
      BY <3>3, LeaveFacts
  <2> QED
    BY <2>1, <2>2
<1>9. \A q \in Runs : Fades(q) /\ Lasts(q) /\ Row(q)' = Row(q) /\ Active(q)' = Active(q)
  BY <1>2, DatabaseRests DEF Fades, Row, Active
<1>10. \A q \in Runs : runs'[q] = runs[q] \/ (q = r /\ runs'[q] = None)
  BY <1>6, CoordinatorTypes DEF IInv
<1>11. ASSUME NEW q \in Runs PROVE Remembers(q)
  <2>1. Idle(q) => Idle(q)'
    BY <1>8 DEF Idle
  <2> QED
    BY <1>2, <1>6, <1>8, <1>10, <2>1 DEF Remembers, Past
<1>12. /\ CallsSound' /\ OneRevocation' /\ replies' \in Seq(Replies)
       /\ Len(replies') <= Len(calls')
  <2>1. /\ C!Moves(calls', calls, 1, {}) /\ calls' \in Seq(Calls)
        /\ replies' \in Seq(Replies) /\ Len(replies') <= Len(calls')
    BY <1>2, <1>6, AnswerTaken
  <2>2. \A i \in DOMAIN calls, d \in Calls : 1 < i /\ d = calls[i] => CallKeeps(d)
    BY <1>2, <1>6, OthersKeep
  <2>3. CallsSound'
    BY <1>2, <1>9, <1>11, <2>1, <2>2, CallsFollow
  <2> QED
    BY <2>1, <2>3, RevocationsStay
<1>13. \A e \in Owners : process'[e] = process[e] \/ (process[e] = "alive" /\ process'[e] = "dead")
  BY <1>7 DEF FatalTo, IInv, Sound, Typed
<1>14. Typed'
  <2>1. process' \in [Owners -> {"none", "alive", "dead", "exited"}]
    BY <1>7 DEF FatalTo, IInv, Sound, Typed
  <2>2. handoffs' \subseteq Leases
    BY <1>7 DEF IInv, Sound, Typed
  <2> QED
    BY <1>2, <1>8, <1>12, <2>1, <2>2 DEF IInv, Sound, Typed, FencesHaveMaximum
<1>15. a.kind = "ok" => runs'[r] = None
  <2>1. runs[r] # None => runs[r] = l
    BY <1>5 DEF IInv, Sound, HostSound
  <2>2. runs[r] = l => C!StillRegistered(l)
    BY <1>4, LeaseFields DEF C!StillRegistered
  <2> QED
    BY <1>6, <2>1, <2>2, CoordinatorTypes DEF IInv
<1>16. TracesSound'
  <2>1. /\ fencing \in [Owners -> SUBSET Leases] /\ pendingReleases \subseteq Leases
        /\ stoppedRuns \subseteq Runs /\ handoffs \subseteq Leases /\ writes \subseteq Leases
    BY CoordinatorTypes DEF IInv, Sound, Typed
  <2>2. handoffs' # handoffs =>
           (Known(l) /\ db.status[r] = "settled" /\ ~Active(r) /\ runs[r] = None)'
    <3> SUFFICES ASSUME a.kind = "ok"
                 PROVE  (Known(l) /\ db.status[r] = "settled" /\ ~Active(r) /\ runs[r] = None)'
      BY <1>7
    <3>1. Known(l)'
      BY <1>3, <1>4, <1>9, <1>11, GivenStays DEF Given
    <3> QED
      BY <1>2, <1>3, <1>4, <1>5, <1>9, <1>15, <3>1
  <2>3. \A z \in handoffs' \ handoffs : z = l
    BY <1>7
  <2>4. \A z \in handoffs' \ handoffs :
           (Known(z) /\ db.status[z.run] = "settled" /\ ~Active(z.run) /\ runs[z.run] = None)'
    BY <1>4, <2>2, <2>3
  <2>5. handoffs' \subseteq Leases
    BY <1>7, <2>1
  <2> QED
    BY <1>2, <1>6, <1>9, <1>11, <2>1, <2>4, <2>5, TracesStay
<1>17. ASSUME NEW q \in Runs PROVE WorkSound(q)'
  <2>1. CASE q = r
    BY <1>8, <2>1 DEF WorkSound
  <2>2. CASE q # r
    <3>1. WorkSound(q) /\ Lasts(q) /\ Remembers(q) /\ work'[q] = work[q] /\ runs'[q] = runs[q]
      BY <1>8, <1>9, <1>10, <1>11, <2>2 DEF IInv, Sound
    <3>2. work[q] # None => work[q].lease.owner \in Owners
      BY WorkFacts
    <3>3. work[q] # None =>
             process'[work[q].lease.owner] \in Up /\ role'[work[q].lease.owner] \in Served
      BY <1>6, <1>13, <3>1, <3>2 DEF WorkSound, Up
    <3>4. SessionOf[q] \notin blocked => SessionOf[q] \notin blocked'
      BY <1>6
    <3> QED
      BY <1>6, <1>9, <3>1, <3>3, <3>4, WorkStays
  <2> QED
    BY <2>1, <2>2
<1>18. CASE a.kind # "ok"
  <2>1. UNCHANGED << runs, blocked, handoffs >>
    BY <1>6, <1>7, <1>18
  <2> QED
    BY <1>2, <1>6, <1>9, <1>12, <1>13, <1>14, <1>16, <1>17, <2>1, Quiet
<1>19. CASE a.kind = "ok"
  <2>1. /\ blocked' = blocked \ {SessionOf[r]} /\ UNCHANGED process /\ ~Active(r) /\ runs'[r] = None
        /\ \A q \in Runs \ {r} : runs'[q] = runs[q]
    BY <1>3, <1>4, <1>6, <1>7, <1>10, <1>15, <1>19
  <2>2. OwnersSound'
    BY <1>2, <1>6, <2>1, OwnersStay DEF IInv, Sound
  <2>3. ASSUME NEW q \in Runs PROVE HostSound(q)'
    <3>1. HostSound(q)
      BY DEF IInv, Sound
    <3>2. pending[q] = "pending" => claims[SessionOf[q]] # None
      BY <3>1 DEF HostSound
    <3> QED
      BY <1>2, <1>6, <1>9, <1>10, <3>1, <3>2, HostStays
  <2>4. \A q : Interrupted(q)' = Interrupted(q)
    BY <1>2 DEF Interrupted
  <2>5. ASSUME NEW s \in Sessions PROVE FrameSound(s)'
    <3>1. FrameSound(s)
      BY DEF IInv, Sound
    <3>2. claims[s] # None => s \notin blocked'
      BY <2>1, <3>1 DEF FrameSound
    <3>3. Interrupted(claims[s].lease.run)' = Interrupted(claims[s].lease.run)
      BY <1>2, <1>6 DEF Interrupted
    <3> QED
      BY <1>2, <1>6, <3>1, <3>2, <3>3, FrameStays
  <2>6. OneLease'
    BY <1>2, <2>4, OneStays DEF IInv, Sound
  <2>7. ASSUME NEW q \in Runs PROVE FenceSound(q)'
    <3>1. FenceSound(q)
      BY DEF IInv, Sound
    <3>2. \A o : InterruptedBy(o, q)' = InterruptedBy(o, q)
      BY <1>2 DEF InterruptedBy
    <3>3. CASE q = r
      <4>1. runs'[r] = None /\ ~Active(r)' /\ db'.status[r] = "settled"
        BY <1>2, <1>5, <1>9, <2>1
      <4> QED
        BY <3>3, <4>1 DEF FenceSound
    <3>4. CASE q # r
      <4>1. runs[q] # None => runs[q].owner \in Owners
        BY CoordinatorTypes, LeaseFields DEF IInv
      <4> QED
        BY <1>2, <1>6, <1>9, <2>1, <3>1, <3>2, <3>4, <4>1, FenceStays DEF InterruptedBy
    <3> QED
      BY <3>3, <3>4
  <2>8. JobSound'
    <3>1. job # None => job.run \in Runs
      BY DEF IInv, Sound, Typed, Jobs
    <3>2. \A q : Joined(q)' = Joined(q)
      BY <1>2 DEF Joined, InterruptedBy
    <3> QED
      BY <1>2, <1>9, <1>10, <3>1, <3>2, JobStays
  <2> QED
    BY <1>12, <1>14, <1>16, <1>17, <2>2, <2>3, <2>5, <2>6, <2>7, <2>8 DEF Sound
<1> QED
  BY <1>18, <1>19

-----------------------------------------------------------------------------
(* Steps that take the answer to a claim, or to its revocation.             *)

\* The call of a claim, its run and the frame that waits for it.
LEMMA ClaimAnswers ==
    ASSUME IInv, replies # << >>, NEW c \in Calls, c = Head(calls),
           c.op \in {"claim", "unclaim"}, NEW r \in Runs, r = c.lease.run
    PROVE  /\ c.lease \in Leases /\ SessionOf[r] \in Sessions
           /\ pending[r] = "pending" /\ leases[r] # None /\ runs[r] = None /\ work[r] = None
           /\ claims[SessionOf[r]] # None /\ claims[SessionOf[r]] \in Frames
           /\ claims[SessionOf[r]].lease = c.lease /\ SessionOf[r] \notin blocked
           /\ job # None => job.run # r
           /\ \A i \in DOMAIN calls : 1 < i /\ calls[i].op \in {"claim", "unclaim"} =>
                 SessionOf[calls[i].lease.run] # SessionOf[r]
<1>1. 1 \in DOMAIN calls /\ c = calls[1]
  BY HeadAnswer
<1>2. /\ c.lease \in Leases /\ SessionOf[r] \in Sessions
      /\ claims[SessionOf[r]] # None /\ claims[SessionOf[r]].lease = c.lease
      /\ pending[r] = "pending"
  BY <1>1, CallFacts, LeaseAssumption DEF Session
<1>3. leases[r] # None /\ runs[r] = None
  BY <1>2 DEF IInv, Sound, HostSound
<1>4. work[r] = None
  BY <1>2, WorkFacts DEF Past
<1>5. claims[SessionOf[r]] \in Frames /\ SessionOf[r] \notin blocked
  BY <1>2, CoordinatorTypes DEF IInv, Sound, FrameSound
<1>6. job # None => job.run # r
  <2>1. job # None => job.stage \in JobStages /\ JobClaims(job.run, job.stage)
    BY JobWas DEF Jobs
  <2> QED
    BY <1>2, <2>1 DEF JobClaims, JobStages
<1>7. ASSUME NEW i \in DOMAIN calls, 1 < i, calls[i].op \in {"claim", "unclaim"}
      PROVE  SessionOf[calls[i].lease.run] # SessionOf[r]
  BY <1>1, <1>7, ClaimsApart
<1> QED
  BY <1>2, <1>3, <1>4, <1>5, <1>6, <1>7

\* A claim goes on or ends; the other runs and sessions stay as they are.
LEMMA ClaimConcludes ==
    ASSUME IInv, Typed', replies # << >>, NEW c \in Calls, c = Head(calls),
           c.op \in {"claim", "unclaim"}, NEW r \in Runs, r = c.lease.run,
           NEW New, C!Moves(calls', calls, 1, New), calls' \in Seq(Calls),
           replies' = Tail(replies),
           \A d \in New : d.op # "revoke" /\ CallSound(d, Unanswered)',
           UNCHANGED << role, exited, defaultOf, revoking, interruptions, stoppedRuns, fencing,
                        pendingReleases, db, interrupted, handoffs, job, process, fenced, writes >>,
           \A q \in Runs \ {r} : /\ leases'[q] = leases[q] /\ pending'[q] = pending[q]
                                 /\ work'[q] = work[q] /\ runs'[q] = runs[q],
           \A e \in Sessions \ {SessionOf[r]} : claims'[e] = claims[e],
           claims'[SessionOf[r]] # None => claims'[SessionOf[r]].lease = c.lease,
           \A e \in Sessions : e \in blocked' => e \in blocked \/ e = SessionOf[r],
           HostSound(r)', WorkSound(r)', FrameSound(SessionOf[r])', FenceSound(r)'
    PROVE  Sound'
<1>1. PICK s \in Sessions : s = SessionOf[r]
  BY LeaseAssumption
<1>2. /\ pending[r] = "pending" /\ leases[r] # None
      /\ claims[s] # None /\ claims[s].lease = c.lease
      /\ job # None => job.run # r
      /\ \A i \in DOMAIN calls : 1 < i /\ calls[i].op \in {"claim", "unclaim"} =>
            SessionOf[calls[i].lease.run] # s
  BY <1>1, ClaimAnswers
<1>3. \A q \in Runs : Fades(q) /\ Lasts(q) /\ Row(q)' = Row(q) /\ Active(q)' = Active(q)
  BY DatabaseRests DEF Fades, Row, Active
<1>4. ASSUME NEW q \in Runs PROVE Remembers(q)
  <2>1. CASE q = r
    BY <1>2, <2>1 DEF Remembers, Past
  <2>2. CASE q # r
    <3>1. Idle(q) => Idle(q)'
      BY <2>2 DEF Idle
    <3> QED
      BY <2>2, <3>1 DEF Remembers, Past
  <2> QED
    BY <2>1, <2>2
<1>5. CallsSound' /\ OneRevocation'
  <2>1. ASSUME NEW i \in DOMAIN calls, NEW d \in Calls, 1 < i, d = calls[i]
        PROVE  CallKeeps(d)
    <3>1. d.op \in {"claim", "unclaim"} => d.lease.run \in Runs /\ SessionOf[d.lease.run] # s
      BY <1>2, <2>1, CallFacts
    <3>2. d.op \in {"claim", "unclaim"} => claims'[SessionOf[d.lease.run]] = claims[SessionOf[d.lease.run]]
      BY <1>1, <3>1, LeaseAssumption
    <3> QED
      BY <3>2 DEF CallKeeps, Row
  <2>2. CallsSound'
    BY <1>3, <1>4, <2>1, CallsFollow
  <2> QED
    BY <2>2, RevocationsStay
<1>6. TracesSound'
  <2>1. /\ fencing \in [Owners -> SUBSET Leases] /\ pendingReleases \subseteq Leases
        /\ stoppedRuns \subseteq Runs /\ handoffs \subseteq Leases /\ writes \subseteq Leases
    BY CoordinatorTypes DEF IInv, Sound, Typed
  <2> QED
    BY <1>3, <1>4, <2>1, TracesStay
<1>7. ASSUME NEW q \in Runs PROVE WorkSound(q)'
  <2>1. CASE q = r
    BY <2>1
  <2>2. CASE q # r
    <3>1. WorkSound(q) /\ Lasts(q) /\ Remembers(q) /\ work'[q] = work[q] /\ runs'[q] = runs[q]
      BY <1>3, <1>4, <2>2 DEF IInv, Sound
    <3>2. SessionOf[q] \in Sessions
      BY LeaseAssumption
    <3>3. Executing(q) => claims[SessionOf[q]] = None
      BY WorkFacts DEF Executing, Stage
    <3>4. Executing(q) /\ SessionOf[q] \notin blocked => SessionOf[q] \notin blocked'
      BY <1>1, <1>2, <3>2, <3>3
    <3>5. work[q] # None =>
             process'[work[q].lease.owner] \in Up /\ role'[work[q].lease.owner] \in Served
      BY <3>1 DEF WorkSound
    <3> QED
      BY <1>3, <3>1, <3>4, <3>5, WorkStays
  <2> QED
    BY <2>1, <2>2
<1>8. OwnersSound'
  BY OwnersStay DEF IInv, Sound
<1>9. ASSUME NEW q \in Runs PROVE HostSound(q)'
  <2>1. CASE q = r
    BY <2>1
  <2>2. CASE q # r
    <3>1. HostSound(q) /\ SessionOf[q] \in Sessions
      BY LeaseAssumption DEF IInv, Sound
    <3>2. CASE SessionOf[q] = s
      <4>1. pending[q] # "pending"
        BY <1>2, <2>2, <3>1, <3>2 DEF HostSound
      <4> QED
        BY <1>1, <1>2, <1>3, <2>2, <3>1, <3>2, <4>1, HostStays
    <3>3. CASE SessionOf[q] # s
      <4>1. claims'[SessionOf[q]] = claims[SessionOf[q]]
        BY <1>1, <3>1, <3>3
      <4>2. pending[q] = "pending" => claims[SessionOf[q]] # None
        BY <3>1 DEF HostSound
      <4> QED
        BY <1>3, <2>2, <3>1, <4>1, <4>2, HostStays
    <3> QED
      BY <3>2, <3>3
  <2> QED
    BY <2>1, <2>2
<1>10. \A q : Interrupted(q)' = Interrupted(q)
  BY DEF Interrupted
<1>11. ASSUME NEW e \in Sessions PROVE FrameSound(e)'
  <2>1. CASE e = s
    BY <1>1, <2>1
  <2>2. CASE e # s
    <3>1. FrameSound(e) /\ C!IInv /\ claims'[e] = claims[e]
      BY <1>1, <2>2 DEF IInv, Sound
    <3>2. ASSUME claims[e] # None
          PROVE  claims[e].lease.run \in Runs \ {r} /\ e \notin blocked'
      <4>1. claims[e].lease.run \in Runs /\ SessionOf[claims[e].lease.run] = e
        BY <3>1, <3>2, CoordinatorTypes, CoordinatorFacts DEF Frames, Leases
      <4> QED
        BY <1>1, <2>2, <3>1, <3>2, <4>1 DEF FrameSound
    <3>3. Interrupted(claims[e].lease.run)' = Interrupted(claims[e].lease.run)
      BY <3>1 DEF Interrupted
    <3> QED
      BY <3>1, <3>2, <3>3, FrameStays
  <2> QED
    BY <2>1, <2>2
<1>12. OneLease'
  BY <1>2, <1>10, OneStays DEF IInv, Sound
<1>13. ASSUME NEW q \in Runs PROVE FenceSound(q)'
  <2>1. CASE q = r
    BY <2>1
  <2>2. CASE q # r
    <3>1. FenceSound(q)
      BY DEF IInv, Sound
    <3>2. \A o : InterruptedBy(o, q)' = InterruptedBy(o, q)
      BY DEF InterruptedBy
    <3>3. runs[q] # None => runs[q].owner \in Owners
      BY CoordinatorTypes, LeaseFields DEF IInv
    <3> QED
      BY <1>3, <2>2, <3>1, <3>2, <3>3, FenceStays DEF InterruptedBy
  <2> QED
    BY <2>1, <2>2
<1>14. JobSound'
  <2>1. job # None => job.run \in Runs
    BY DEF IInv, Sound, Typed, Jobs
  <2>2. \A q : Joined(q)' = Joined(q)
    BY DEF Joined, InterruptedBy
  <2> QED
    BY <1>2, <1>3, <2>1, <2>2, JobStays
<1> QED
  BY <1>5, <1>6, <1>7, <1>8, <1>9, <1>11, <1>12, <1>13, <1>14 DEF Sound

\* The claim is abandoned: the gate closes and the run waits for the
\* reconciliation of its receipt.
LEMMA ClaimFailing ==
    ASSUME IInv, replies # << >>, NEW c \in Calls, c = Head(calls),
           c.op \in {"claim", "unclaim"},
           C!Abandon(C!Session(c.lease)), calls' = Tail(calls), replies' = Tail(replies),
           ClaimFails(c.lease.run),
           UNCHANGED << role, exited, defaultOf, revoking, interruptions, stoppedRuns, fencing,
                        pendingReleases, db, drops, leases, interrupted, handoffs, job, process,
                        fenced, work, writes >>
    PROVE  Sound'
<1>1. c.lease.run \in Runs
  <2>1. 1 \in DOMAIN calls /\ c = calls[1]
    BY HeadAnswer
  <2> QED
    BY <2>1, CallFacts
<1>2. PICK r \in Runs : r = c.lease.run
  BY <1>1
<1>3. PICK s \in Sessions : s = SessionOf[r]
  BY LeaseAssumption
<1>4. pending[r] = "pending" /\ leases[r] # None /\ runs[r] = None /\ work[r] = None
  BY <1>2, ClaimAnswers
<1>5. /\ claims' = [claims EXCEPT ![s] = None] /\ blocked' = blocked \cup {s}
      /\ UNCHANGED << sessions, runs >>
      /\ pending' = [pending EXCEPT ![r] = "failed"] /\ stopped' = stopped \cup {r}
  BY <1>2, <1>3 DEF C!Abandon, C!Session, ClaimFails
<1>6. /\ claims'[s] = None /\ \A e \in Sessions \ {s} : claims'[e] = claims[e]
      /\ pending' \in [Runs -> {"none", "pending", "failed"}] /\ pending'[r] = "failed"
      /\ \A q \in Runs \ {r} : pending'[q] = pending[q]
  BY <1>5, CoordinatorTypes DEF IInv, Sound, Typed
<1>7. /\ C!Moves(calls', calls, 1, {}) /\ calls' \in Seq(Calls)
      /\ replies' \in Seq(Replies) /\ Len(replies') <= Len(calls')
  BY AnswerTaken
<1>8. Typed'
  BY <1>5, <1>6, <1>7 DEF IInv, Sound, Typed, FencesHaveMaximum
<1>9. HostSound(r)'
  <2>1. HostSound(r)
    BY DEF IInv, Sound
  <2>2. \A l : LeaseSound(r, l)' = LeaseSound(r, l)
    BY DEF LeaseSound
  <2>3. Row(r)' = Row(r) /\ Active(r)' = Active(r)
    BY DEF Row, Active
  <2> QED
    BY <1>3, <1>4, <1>5, <1>6, <2>1, <2>2, <2>3 DEF HostSound
<1>10. WorkSound(r)' /\ FrameSound(s)'
  BY <1>4, <1>6 DEF WorkSound, FrameSound
<1>11. FenceSound(r)'
  BY <1>4, <1>5, <1>6 DEF FenceSound
<1>12. \A e \in Sessions : e \in blocked' => e \in blocked \/ e = SessionOf[r]
  BY <1>3, <1>5
<1>13. PICK New : New = {} /\ C!Moves(calls', calls, 1, New)
                 /\ \A d \in New : d.op # "revoke" /\ CallSound(d, Unanswered)'
  BY <1>7
<1>14. \A q \in Runs \ {r} : /\ leases'[q] = leases[q] /\ pending'[q] = pending[q]
                             /\ work'[q] = work[q] /\ runs'[q] = runs[q]
  BY <1>5, <1>6
<1>15. /\ \A e \in Sessions \ {SessionOf[r]} : claims'[e] = claims[e]
       /\ claims'[SessionOf[r]] = None /\ FrameSound(SessionOf[r])'
  BY <1>3, <1>6, <1>10
<1>16. UNCHANGED << role, exited, defaultOf, revoking, interruptions, stoppedRuns, fencing,
                    pendingReleases, db, interrupted, handoffs, job, process, fenced, writes >>
  OBVIOUS
<1>17. claims'[SessionOf[r]] # None => claims'[SessionOf[r]].lease = c.lease
  BY <1>15
<1>18. HostSound(r)' /\ WorkSound(r)' /\ FrameSound(SessionOf[r])' /\ FenceSound(r)'
  BY <1>9, <1>10, <1>11, <1>15
<1> QED
  BY <1>2, <1>7, <1>8, <1>12, <1>13, <1>14, <1>15, <1>16, <1>17, <1>18, ClaimConcludes

\* The answer to the revocation of a claim: the Host has to reconcile it.
LEMMA UnclaimAnswering ==
    ASSUME IInv, UnclaimAnswered
    PROVE  Sound'
<1>1. PICK c \in Calls : c = Head(calls)
  BY HeadAnswer DEF UnclaimAnswered, Answered
<1>2. replies # << >> /\ c.op = "unclaim" /\ C!UnclaimReply
  BY <1>1, UnclaimReplySame DEF UnclaimAnswered, Answered
<1>3. /\ C!Abandon(C!Session(c.lease)) /\ calls' = Tail(calls)
      /\ UNCHANGED << role, exited, defaultOf, revoking, interruptions, stoppedRuns, fencing,
                      pendingReleases >>
  BY <1>1, <1>2 DEF C!UnclaimReply, C!registry, C!faults
<1>4. /\ ClaimFails(c.lease.run) /\ replies' = Tail(replies)
      /\ UNCHANGED << db, drops, leases, interrupted, handoffs, job, process, fenced, work, writes >>
  BY <1>1 DEF UnclaimAnswered, kernels
<1>5. c.op \in {"claim", "unclaim"}
  BY <1>2
<1> QED
  BY <1>1, <1>2, <1>3, <1>4, <1>5, ClaimFailing

\* What a step that takes the answer to a claim leaves alone.
LEMMA ClaimAnswerRests ==
    ASSUME IInv, ClaimAnswered
    PROVE  \E c \in Calls, a \in Replies :
              /\ c = Head(calls) /\ a = Head(replies) /\ replies # << >>
              /\ c.op = "claim" /\ ClaimSound(c, a) /\ C!ClaimReply(a) /\ Reply = a
              /\ replies' = Tail(replies)
              /\ UNCHANGED << role, exited, defaultOf, revoking, interruptions, stoppedRuns,
                              fencing, pendingReleases, db, drops, interrupted, handoffs, job,
                              process, fenced, writes >>
<1>1. PICK c \in Calls, a \in Replies :
         c = Head(calls) /\ a = Head(replies) /\ CallSound(c, a)
  BY HeadAnswer DEF ClaimAnswered, Answered
<1>2. /\ replies # << >> /\ c.op = "claim" /\ C!ClaimReply(a)
      /\ replies' = Tail(replies)
      /\ UNCHANGED << db, drops, interrupted, handoffs, job, process, fenced, writes >>
  BY <1>1, ClaimReplySame DEF ClaimAnswered, Answered, Reply
<1>3. UNCHANGED << role, exited, defaultOf, revoking, interruptions, stoppedRuns,
                   fencing, pendingReleases >>
  BY <1>2 DEF C!ClaimReply, C!registry, C!faults
<1>4. ClaimSound(c, a)
  BY <1>1, <1>2 DEF CallSound
<1> QED
  BY <1>1, <1>2, <1>3, <1>4 DEF Reply

\* The claim was refused with null: nothing was granted, the session is free.
LEMMA ClaimEmpty ==
    ASSUME IInv, ClaimAnswered, Reply.kind = "null"
    PROVE  Sound'
<1>1. PICK c \in Calls, a \in Replies :
         /\ c = Head(calls) /\ a = Head(replies) /\ replies # << >>
         /\ c.op = "claim" /\ ClaimSound(c, a) /\ C!ClaimReply(a) /\ Reply = a
         /\ replies' = Tail(replies)
         /\ UNCHANGED << role, exited, defaultOf, revoking, interruptions, stoppedRuns,
                         fencing, pendingReleases, db, drops, interrupted, handoffs, job,
                         process, fenced, writes >>
  BY ClaimAnswerRests
<1>2. a.kind = "null" /\ c.op \in {"claim", "unclaim"}
  BY <1>1
<1>3. PICK r \in Runs : r = c.lease.run
  <2>1. 1 \in DOMAIN calls /\ c = calls[1]
    BY <1>1, HeadAnswer
  <2> QED
    BY <1>2, <2>1, CallFacts
<1>4. PICK s \in Sessions : s = SessionOf[r]
  BY LeaseAssumption
<1>5. /\ pending[r] = "pending" /\ leases[r] # None /\ runs[r] = None /\ work[r] = None
      /\ s \notin blocked
  BY <1>1, <1>2, <1>3, <1>4, ClaimAnswers
<1>6. Row(r) = None
  BY <1>1, <1>2, <1>3 DEF ClaimSound
<1>7. /\ claims' = [claims EXCEPT ![s] = None] /\ calls' = Tail(calls)
      /\ UNCHANGED << sessions, runs, blocked >>
  BY <1>1, <1>2, <1>3, <1>4 DEF C!ClaimReply, C!Session
<1>8. /\ leases' = [leases EXCEPT ![r] = None] /\ pending' = [pending EXCEPT ![r] = "none"]
      /\ UNCHANGED << stopped, work >>
  BY <1>1, <1>2, <1>3 DEF ClaimAnswered
<1>9. /\ claims'[s] = None /\ \A e \in Sessions \ {s} : claims'[e] = claims[e]
      /\ pending' \in [Runs -> {"none", "pending", "failed"}] /\ pending'[r] = "none"
      /\ leases' \in [Runs -> Leases \cup {None}] /\ leases'[r] = None
      /\ \A q \in Runs \ {r} : pending'[q] = pending[q] /\ leases'[q] = leases[q]
  BY <1>7, <1>8, CoordinatorTypes DEF IInv, Sound, Typed
<1>10. PICK New : New = {} /\ C!Moves(calls', calls, 1, New)
                 /\ \A d \in New : d.op # "revoke" /\ CallSound(d, Unanswered)'
  <2>1. C!Moves(calls', calls, 1, {})
    BY <1>1, <1>7, AnswerTaken
  <2> QED
    BY <2>1
<1>11. calls' \in Seq(Calls) /\ replies' \in Seq(Replies) /\ Len(replies') <= Len(calls')
  BY <1>1, <1>7, AnswerTaken
<1>12. Typed'
  BY <1>1, <1>8, <1>9, <1>11 DEF IInv, Sound, Typed, FencesHaveMaximum
<1>13. Row(r)' = None /\ ~Active(r)' /\ db'.status[r] # "running"
  BY <1>1, <1>6 DEF Row, Active, IInv, Sound, HostSound
<1>14. HostSound(r)'
  BY <1>4, <1>5, <1>7, <1>9, <1>13 DEF HostSound
<1>15. WorkSound(r)' /\ FrameSound(s)'
  BY <1>5, <1>8, <1>9 DEF WorkSound, FrameSound
<1>16. FenceSound(r)'
  BY <1>5, <1>7, <1>9, <1>13 DEF FenceSound
<1>17. \A q \in Runs \ {r} : /\ leases'[q] = leases[q] /\ pending'[q] = pending[q]
                             /\ work'[q] = work[q] /\ runs'[q] = runs[q]
  BY <1>7, <1>8, <1>9
<1>18. /\ \A e \in Sessions \ {SessionOf[r]} : claims'[e] = claims[e]
       /\ claims'[SessionOf[r]] # None => claims'[SessionOf[r]].lease = c.lease
       /\ FrameSound(SessionOf[r])'
       /\ \A e \in Sessions : e \in blocked' => e \in blocked \/ e = SessionOf[r]
  BY <1>4, <1>7, <1>9, <1>15
<1> QED
  BY <1>1, <1>2, <1>3, <1>10, <1>11, <1>12, <1>14, <1>15, <1>16, <1>17, <1>18, ClaimConcludes

\* The lease that the database granted.
LEMMA GrantedLease ==
    ASSUME IInv, NEW c \in Calls, NEW a \in Replies, ClaimSound(c, a), a.kind = "lease",
           c.lease \in Leases, NEW r \in Runs, r = c.lease.run
    PROVE  /\ a.lease \in Leases /\ SameDraft(a.lease, c.lease) /\ a.lease.run = r
           /\ Row(r) # None /\ Row(r).lease = a.lease /\ Active(r) /\ LeaseSound(r, a.lease)
<1>1. Row(r) # None /\ Row(r) = [lease |-> a.lease, state |-> "active"] /\ SameDraft(a.lease, c.lease)
  BY DEF ClaimSound
<1>2. PICK z : z = Row(r)
  OBVIOUS
<1>3. z # None /\ z.lease = a.lease /\ z.state = "active"
  BY <1>1, <1>2
<1>4. db \in Durable!Databases /\ HostSound(r)
  BY DEF IInv, Sound, Typed
<1>5. z.lease \in Leases
  BY <1>2, <1>3, <1>4, DatabaseFields DEF Row
<1> QED
  BY <1>1, <1>2, <1>3, <1>4, <1>5 DEF SameDraft, HostSound, Active

\* The lease is registered and, unless its kernel has died, executed.
LEMMA ClaimGranted ==
    ASSUME IInv, ClaimAnswered, Reply.kind = "lease",
           C!StillAuthorised(claims[SessionOf[Head(calls).lease.run]])
    PROVE  Sound'
<1>1. PICK c \in Calls, a \in Replies :
         /\ c = Head(calls) /\ a = Head(replies) /\ replies # << >>
         /\ c.op = "claim" /\ ClaimSound(c, a) /\ C!ClaimReply(a) /\ Reply = a
         /\ replies' = Tail(replies)
         /\ UNCHANGED << role, exited, defaultOf, revoking, interruptions, stoppedRuns,
                         fencing, pendingReleases, db, drops, interrupted, handoffs, job,
                         process, fenced, writes >>
  BY ClaimAnswerRests
<1>2. a.kind = "lease" /\ c.op \in {"claim", "unclaim"}
  BY <1>1
<1>3. PICK r \in Runs : r = c.lease.run
  <2>1. 1 \in DOMAIN calls /\ c = calls[1]
    BY <1>1, HeadAnswer
  <2> QED
    BY <1>2, <2>1, CallFacts
<1>4. PICK s \in Sessions : s = SessionOf[r]
  BY LeaseAssumption
<1>5. /\ pending[r] = "pending" /\ leases[r] # None /\ runs[r] = None /\ work[r] = None
      /\ s \notin blocked /\ c.lease \in Leases
      /\ claims[s] # None /\ claims[s].lease = c.lease
  BY <1>1, <1>2, <1>3, <1>4, ClaimAnswers
<1>6. PICK g \in Leases :
         /\ g = a.lease /\ SameDraft(g, c.lease) /\ g.run = r
         /\ Row(r) # None /\ Row(r).lease = g /\ Active(r) /\ LeaseSound(r, g)
  BY <1>1, <1>2, <1>3, <1>5, GrantedLease
<1>7. g # None /\ g.owner \in Owners /\ g.owner = c.lease.owner
  BY <1>6, LeaseFields DEF SameDraft
<1>8. /\ role[g.owner] = "default"
      /\ \A x \in claims[s].captured : role[x] # "fenced"
  BY <1>1, <1>3, <1>4, <1>5, <1>7 DEF C!StillAuthorised, C!IsDefaultKernel
<1>9. ~Interrupted(r)
  BY <1>3, <1>4, <1>5, <1>8 DEF IInv, Sound, FrameSound
<1>10. /\ process[g.owner] \in Up /\ process[g.owner] # "none" /\ fenced[g.owner] = "none"
  BY <1>7, <1>8 DEF IInv, Sound, OwnersSound, OwnerSound, Up
<1>11. /\ claims' = [claims EXCEPT ![s] = None] /\ calls' = Tail(calls)
       /\ runs' = [runs EXCEPT ![r] = g] /\ UNCHANGED blocked
  BY <1>1, <1>2, <1>3, <1>4, <1>6 DEF C!ClaimReply, C!Session
<1>12. /\ claims'[s] = None /\ \A e \in Sessions \ {s} : claims'[e] = claims[e]
       /\ runs'[r] = g /\ \A q \in Runs \ {r} : runs'[q] = runs[q]
  BY <1>11, CoordinatorTypes DEF IInv
<1>13. /\ leases' = [leases EXCEPT ![r] = g] /\ pending' = [pending EXCEPT ![r] = "none"]
       /\ work' = IF process[c.lease.owner] # "alive" THEN work
                  ELSE [work EXCEPT ![r] = [lease |-> g, stage |-> "running"]]
       /\ UNCHANGED stopped
  BY <1>1, <1>2, <1>3, <1>6, <1>7, <1>12 DEF ClaimAnswered
<1>14. PICK w : w = [lease |-> g, stage |-> "running"]
  OBVIOUS
<1>15. w \in Works /\ w # None /\ w.lease = g /\ w.stage = "running"
  <2>1. w \in Works
    BY <1>14 DEF Works, Stages
  <2> QED
    BY <1>14, <2>1, NoneStateAssumption
<1>16. /\ work' \in [Runs -> Works \cup {None}] /\ work'[r] \in {None, w}
       /\ \A q \in Runs \ {r} : work'[q] = work[q]
  BY <1>5, <1>13, <1>14, <1>15 DEF IInv, Sound, Typed
<1>17. /\ pending' \in [Runs -> {"none", "pending", "failed"}] /\ pending'[r] = "none"
       /\ leases' \in [Runs -> Leases \cup {None}] /\ leases'[r] = g
       /\ \A q \in Runs \ {r} : pending'[q] = pending[q] /\ leases'[q] = leases[q]
  BY <1>13 DEF IInv, Sound, Typed
<1>18. PICK New : New = {} /\ C!Moves(calls', calls, 1, New)
                 /\ \A d \in New : d.op # "revoke" /\ CallSound(d, Unanswered)'
  <2>1. C!Moves(calls', calls, 1, {})
    BY <1>1, <1>11, AnswerTaken
  <2> QED
    BY <2>1
<1>19. calls' \in Seq(Calls) /\ replies' \in Seq(Replies) /\ Len(replies') <= Len(calls')
  BY <1>1, <1>11, AnswerTaken
<1>20. Typed'
  BY <1>1, <1>13, <1>16, <1>17, <1>19 DEF IInv, Sound, Typed, FencesHaveMaximum
<1>21. /\ Row(r)' = Row(r) /\ Active(r)' = Active(r) /\ db'.status[r] = db.status[r]
       /\ LeaseSound(r, g)'
  BY <1>1, <1>6 DEF Row, Active, LeaseSound
<1>22. HostSound(r)'
  <2>1. db.status[r] # "queued"
    BY <1>6 DEF IInv, Sound, HostSound
  <2> QED
    BY <1>4, <1>6, <1>7, <1>12, <1>17, <1>21, <2>1 DEF HostSound
<1>23. WorkSound(r)'
  <2>1. CASE work'[r] = None
    BY <2>1 DEF WorkSound
  <2>2. CASE work'[r] = w
    <3>1. Known(g)'
      BY <1>6, <1>17, <1>21 DEF Known
    <3>2. process'[g.owner] \in Up /\ role'[g.owner] \in Served
      BY <1>1, <1>8, <1>10 DEF Served
    <3>3. s \notin blocked' /\ Active(r)'
      BY <1>5, <1>6, <1>11, <1>21
    <3> QED
      BY <1>4, <1>6, <1>12, <1>15, <2>2, <3>1, <3>2, <3>3 DEF WorkSound
  <2> QED
    BY <1>16, <2>1, <2>2
<1>24. FrameSound(s)'
  BY <1>12 DEF FrameSound
<1>25. FenceSound(r)'
  <2>1. \A o \in Owners : ~InterruptedBy(o, r)'
    BY <1>1, <1>9 DEF Interrupted, InterruptedBy
  <2>2. ~Interrupted(r)'
    BY <1>1, <1>9 DEF Interrupted
  <2>3. process'[g.owner] # "none" /\ fenced'[g.owner] = "none"
    BY <1>1, <1>10
  <2> QED
    BY <1>7, <1>12, <2>1, <2>2, <2>3 DEF FenceSound
<1>26. \A q \in Runs \ {r} : /\ leases'[q] = leases[q] /\ pending'[q] = pending[q]
                             /\ work'[q] = work[q] /\ runs'[q] = runs[q]
  BY <1>12, <1>16, <1>17
<1>27. /\ \A e \in Sessions \ {SessionOf[r]} : claims'[e] = claims[e]
       /\ claims'[SessionOf[r]] # None => claims'[SessionOf[r]].lease = c.lease
       /\ FrameSound(SessionOf[r])'
       /\ \A e \in Sessions : e \in blocked' => e \in blocked \/ e = SessionOf[r]
  BY <1>4, <1>11, <1>12, <1>24
<1> QED
  BY <1>1, <1>2, <1>3, <1>18, <1>19, <1>20, <1>22, <1>23, <1>25, <1>26, <1>27, ClaimConcludes

\* The authority is gone meanwhile: the lease is revoked before anything uses it.
LEMMA ClaimOverruled ==
    ASSUME IInv, ClaimAnswered, Reply.kind = "lease",
           ~C!StillAuthorised(claims[SessionOf[Head(calls).lease.run]])
    PROVE  Sound'
<1> USE CoordinatorAssumed
<1>1. PICK c \in Calls, a \in Replies :
         /\ c = Head(calls) /\ a = Head(replies) /\ replies # << >>
         /\ c.op = "claim" /\ ClaimSound(c, a) /\ C!ClaimReply(a) /\ Reply = a
         /\ replies' = Tail(replies)
         /\ UNCHANGED << role, exited, defaultOf, revoking, interruptions, stoppedRuns,
                         fencing, pendingReleases, db, drops, interrupted, handoffs, job,
                         process, fenced, writes >>
  BY ClaimAnswerRests
<1>2. a.kind = "lease" /\ c.op \in {"claim", "unclaim"}
  BY <1>1
<1>3. PICK r \in Runs : r = c.lease.run
  <2>1. 1 \in DOMAIN calls /\ c = calls[1]
    BY <1>1, HeadAnswer
  <2> QED
    BY <1>2, <2>1, CallFacts
<1>4. PICK s \in Sessions : s = SessionOf[r]
  BY LeaseAssumption
<1>5. /\ pending[r] = "pending" /\ leases[r] # None /\ runs[r] = None /\ work[r] = None
      /\ s \notin blocked /\ c.lease \in Leases
      /\ claims[s] # None /\ claims[s].lease = c.lease /\ claims[s] \in Frames
  BY <1>1, <1>2, <1>3, <1>4, ClaimAnswers
<1>6. PICK g \in Leases :
         /\ g = a.lease /\ SameDraft(g, c.lease) /\ g.run = r
         /\ Row(r) # None /\ Row(r).lease = g /\ Active(r) /\ LeaseSound(r, g)
  BY <1>1, <1>2, <1>3, <1>5, GrantedLease
<1>7. g # None /\ g.owner \in Owners /\ g.owner = c.lease.owner
  BY <1>6, LeaseFields DEF SameDraft
<1>8. PICK d : d = C!ClaimCall("unclaim", c.lease)
  OBVIOUS
<1>9. /\ d \in Calls /\ d.op = "unclaim" /\ d.lease = c.lease
      /\ d.authority = c.lease.owner /\ d.runs = {r}
  BY <1>3, <1>5, <1>7, <1>8 DEF C!ClaimCall, Calls
<1>10. /\ claims' = [claims EXCEPT ![s].stage = "revoke"] /\ calls' = Append(Tail(calls), d)
       /\ UNCHANGED << runs, blocked >>
  BY <1>1, <1>2, <1>3, <1>4, <1>8 DEF C!ClaimReply, C!Session
<1>11. PICK f \in Frames : f = claims[s]
  BY <1>5
<1>12. PICK h : h = [lease |-> f.lease, captured |-> f.captured, stage |-> "revoke"]
  OBVIOUS
<1>13. h # None /\ h.lease = f.lease /\ h.captured = f.captured /\ h.stage = "revoke"
  <2>1. h \in C!Frames
    BY <1>12 DEF Frames, C!Frames, C!Leases, Leases
  <2> QED
    BY <1>12, <2>1 DEF C!CoordinatorAssumption
<1>14. claims'[s] = h /\ \A e \in Sessions \ {s} : claims'[e] = claims[e]
  <2>1. [f EXCEPT !.stage = "revoke"] = h
    BY <1>12 DEF Frames
  <2> QED
    BY <1>10, <1>11, <2>1, CoordinatorTypes DEF IInv
<1>15. /\ leases' = [leases EXCEPT ![r] = g] /\ UNCHANGED << pending, work, stopped >>
  BY <1>1, <1>2, <1>3, <1>5, <1>6, <1>10 DEF ClaimAnswered
<1>16. /\ leases' \in [Runs -> Leases \cup {None}] /\ leases'[r] = g
       /\ \A q \in Runs \ {r} : leases'[q] = leases[q]
  BY <1>15 DEF IInv, Sound, Typed
<1>17. /\ C!Moves(calls', calls, 1, {d}) /\ calls' \in Seq(Calls)
       /\ replies' \in Seq(Replies) /\ Len(replies') <= Len(calls')
  BY <1>1, <1>9, <1>10, AnswerTaken
<1>18. Typed'
  BY <1>1, <1>15, <1>16, <1>17 DEF IInv, Sound, Typed, FencesHaveMaximum
<1>19. /\ Row(r)' = Row(r) /\ Active(r)' = Active(r) /\ db'.status[r] = db.status[r]
       /\ \A l : LeaseSound(r, l)' = LeaseSound(r, l)
  BY <1>1 DEF Row, Active, LeaseSound
<1>20. CallSound(d, Unanswered)'
  <2>1. UnclaimSound(d, Unanswered)'
    BY <1>3, <1>4, <1>6, <1>7, <1>9, <1>13, <1>14, <1>19 DEF UnclaimSound, Unanswered
  <2> QED
    BY <1>9, <2>1 DEF CallSound
<1>21. HostSound(r)'
  <2>1. HostSound(r)
    BY DEF IInv, Sound
  <2>2. runs'[r] = None /\ pending'[r] = "pending" /\ claims'[SessionOf[r]] # None
        /\ claims'[SessionOf[r]].lease.run = r
    BY <1>3, <1>4, <1>5, <1>10, <1>11, <1>13, <1>14, <1>15
  <2> QED
    BY <1>6, <1>7, <1>16, <1>19, <2>1, <2>2 DEF HostSound
<1>22. WorkSound(r)'
  BY <1>5, <1>15 DEF WorkSound
<1>23. FrameSound(s)'
  <2>1. FrameSound(s)
    BY DEF IInv, Sound
  <2>2. /\ s \notin blocked' /\ claims'[s].lease = c.lease
        /\ claims'[s].captured = claims[s].captured
        /\ leases'[r] # None /\ leases'[r].owner = c.lease.owner
    BY <1>5, <1>7, <1>10, <1>11, <1>13, <1>14, <1>16
  <2>3. Interrupted(r)' = Interrupted(r) /\ LeaseSound(r, c.lease)' = LeaseSound(r, c.lease)
    BY <1>1 DEF Interrupted, LeaseSound
  <2> QED
    BY <1>1, <1>3, <1>5, <2>1, <2>2, <2>3 DEF FrameSound
<1>24. FenceSound(r)'
  BY <1>5, <1>10, <1>15 DEF FenceSound
<1>25. \A q \in Runs \ {r} : /\ leases'[q] = leases[q] /\ pending'[q] = pending[q]
                             /\ work'[q] = work[q] /\ runs'[q] = runs[q]
  BY <1>10, <1>15, <1>16
<1>26. /\ \A e \in Sessions \ {SessionOf[r]} : claims'[e] = claims[e]
       /\ claims'[SessionOf[r]] # None => claims'[SessionOf[r]].lease = c.lease
       /\ FrameSound(SessionOf[r])'
       /\ \A e \in Sessions : e \in blocked' => e \in blocked \/ e = SessionOf[r]
  BY <1>4, <1>5, <1>10, <1>11, <1>13, <1>14, <1>23
<1>27. PICK New : New = {d} /\ C!Moves(calls', calls, 1, New)
                 /\ \A x \in New : x.op # "revoke" /\ CallSound(x, Unanswered)'
  BY <1>9, <1>17, <1>20
<1> QED
  BY <1>1, <1>2, <1>3, <1>17, <1>18, <1>21, <1>22, <1>24, <1>25, <1>26, <1>27, ClaimConcludes

\* Every answer to a claim.
LEMMA ClaimAnswering ==
    ASSUME IInv, ClaimAnswered
    PROVE  Sound'
<1>1. PICK c \in Calls, a \in Replies :
         /\ c = Head(calls) /\ a = Head(replies) /\ replies # << >>
         /\ c.op = "claim" /\ ClaimSound(c, a) /\ C!ClaimReply(a) /\ Reply = a
         /\ replies' = Tail(replies)
         /\ UNCHANGED << role, exited, defaultOf, revoking, interruptions, stoppedRuns,
                         fencing, pendingReleases, db, drops, interrupted, handoffs, job,
                         process, fenced, writes >>
  BY ClaimAnswerRests
<1>2. ASSUME a.kind \in {"refused", "lost"} PROVE Sound'
  <2>1. C!Abandon(C!Session(c.lease)) /\ calls' = Tail(calls)
    BY <1>1, <1>2 DEF C!ClaimReply
  <2>2. ClaimFails(c.lease.run) /\ UNCHANGED << leases, work >>
    BY <1>1, <1>2 DEF ClaimAnswered
  <2>3. c.op \in {"claim", "unclaim"}
    BY <1>1
  <2> QED
    BY <1>1, <2>1, <2>2, <2>3, ClaimFailing
<1>3. a.kind \in {"refused", "lost"} \/ a.kind = "null" \/ a.kind = "lease"
  BY <1>1 DEF C!ClaimReply
<1> QED
  BY <1>1, <1>2, <1>3, ClaimEmpty, ClaimGranted, ClaimOverruled

-----------------------------------------------------------------------------
(* Steps of a revocation.                                                   *)

\* The authority that a revocation names is the same in both instances.
LEMMA AuthoritySame ==
    ASSUME NEW o, NEW l
    PROVE  C!AuthorityFor(o, l) = Coordinator!AuthorityFor(o, l)
BY DEF C!AuthorityFor, Coordinator!AuthorityFor, C!Bound, Coordinator!Bound

\* A call that revokes some of the leases, in the name of their authority.
RevokesOf(o, rest, c) ==
    /\ c.op = "revoke" /\ c.by = o /\ c.authority \in Owners
    /\ \A r \in c.runs : \E m \in rest :
          m.run = r /\ Coordinator!AuthorityFor(o, m) = c.authority

\* The next call of a revocation groups leases by the authority it names.
LEMMA NextRevoked ==
    ASSUME NEW o \in Owners, NEW rest \in SUBSET Leases, NEW queue,
           C!NextRevocation(o, rest, queue)
    PROVE  \/ rest = {} /\ calls' = queue
           \/ rest # {} /\ \E c \in Calls : calls' = Append(queue, c) /\ RevokesOf(o, rest, c)
<1>1. ASSUME rest # {} PROVE \E c \in Calls : calls' = Append(queue, c) /\ RevokesOf(o, rest, c)
  <2>1. PICK l \in rest :
           calls' = Append(queue,
                       C!RevokeCall(o, C!AuthorityFor(o, l),
                          {m \in rest : C!AuthorityFor(o, m) = C!AuthorityFor(o, l)}))
    BY <1>1 DEF C!NextRevocation
  <2>2. PICK x : x = C!AuthorityFor(o, l)
    OBVIOUS
  <2>3. x \in Owners
    BY <2>2, LeaseFields DEF C!AuthorityFor
  <2>4. PICK g : g = {m \in rest : C!AuthorityFor(o, m) = x}
    OBVIOUS
  <2>5. PICK c : c = C!RevokeCall(o, x, g)
    OBVIOUS
  <2>6. /\ c.op = "revoke" /\ c.by = o /\ c.authority = x /\ c.runs = {m.run : m \in g}
        /\ calls' = Append(queue, c)
    BY <2>1, <2>2, <2>4, <2>5 DEF C!RevokeCall
  <2>7. {m.run : m \in g} \subseteq Runs
    BY <2>4, LeaseFields
  <2>8. c \in Calls
    BY <2>3, <2>5, <2>7 DEF C!RevokeCall, Calls
  <2>9. \A r \in c.runs : \E m \in rest : m.run = r /\ Coordinator!AuthorityFor(o, m) = x
    BY <2>4, <2>6, AuthoritySame
  <2> QED
    BY <2>3, <2>6, <2>8, <2>9 DEF RevokesOf
<1>2. rest = {} => calls' = queue
  BY DEF C!NextRevocation
<1> QED
  BY <1>1, <1>2

\* A revocation is answered: the next one is called, the fence is done, or it
\* has failed and is retried with the owner's next fault.
LEMMA RevokeAnswering ==
    ASSUME IInv, RevokeAnswered
    PROVE  Sound'
<1>1. PICK c \in Calls, a \in Replies :
         c = Head(calls) /\ a = Head(replies) /\ CallSound(c, a) /\ calls # << >> /\ c = calls[1]
  BY HeadAnswer DEF RevokeAnswered, Answered
<1>2. /\ replies # << >> /\ c.op = "revoke" /\ C!RevokeReply(a)
      /\ replies' = Tail(replies)
      /\ UNCHANGED << db, drops, leases, pending, interrupted, stopped, handoffs, job, process,
                      work, writes >>
  BY <1>1, RevokeReplySame DEF RevokeAnswered, Answered, Reply, ledger, kernels
<1>3. PICK o \in Owners : o = c.by
  BY <1>1, <1>2, HeadAnswer, CoordinatorFacts DEF IInv
<1>4. /\ fenced[o] = "pending"
      /\ a.kind = "ok" => \A r \in c.runs : ~Active(r)
  BY <1>1, <1>2, <1>3 DEF CallSound, RevokeSound
<1>5. PICK rest : rest = {l \in fencing[o] : l.run \notin c.runs}
  OBVIOUS
<1>6. /\ IF a.kind = "ok"
         THEN /\ fencing' = [fencing EXCEPT ![o] = rest]
              /\ C!NextRevocation(o, rest, Tail(calls))
         ELSE /\ fencing' = [fencing EXCEPT ![o] = {}]
              /\ calls' = Tail(calls)
      /\ UNCHANGED << role, exited, defaultOf, sessions, runs, claims, blocked, revoking,
                      interruptions, stoppedRuns, pendingReleases, fence >>
  BY <1>1, <1>2, <1>3, <1>5 DEF C!RevokeReply, C!registry, C!leasing
<1>7. fenced' = [fenced EXCEPT ![o] = IF a.kind # "ok" THEN "failed"
                                      ELSE IF fencing'[o] = {} THEN "done" ELSE @]
  BY <1>1, <1>3 DEF RevokeAnswered, Reply
<1>8. /\ fencing \in [Owners -> SUBSET Leases] /\ pendingReleases \subseteq Leases
      /\ stoppedRuns \subseteq Runs /\ handoffs \subseteq Leases /\ writes \subseteq Leases
  BY CoordinatorTypes DEF IInv, Sound, Typed
<1>9. /\ fencing' \in [Owners -> SUBSET Leases] /\ rest \in SUBSET Leases
      /\ fencing'[o] = IF a.kind = "ok" THEN rest ELSE {}
      /\ \A e \in Owners \ {o} : fencing'[e] = fencing[e]
  BY <1>5, <1>6, <1>8
<1>10. /\ fenced' \in [Owners -> {"none", "pending", "done", "failed"}]
       /\ fenced'[o] = IF a.kind # "ok" THEN "failed" ELSE IF rest = {} THEN "done" ELSE "pending"
       /\ \A e \in Owners \ {o} : fenced'[e] = fenced[e]
  BY <1>4, <1>7, <1>9 DEF IInv, Sound, Typed
<1>11. \A q \in Runs : Fades(q) /\ Lasts(q) /\ Row(q)' = Row(q) /\ Active(q)' = Active(q)
  BY <1>2, DatabaseRests DEF Fades, Row, Active
<1>12. \A q \in Runs : Remembers(q)
  BY <1>2, <1>6, RunsRest
<1>13. ASSUME NEW i \in DOMAIN calls, 1 < i, calls[i].op = "revoke"
       PROVE  calls[i].by \in Owners \ {o}
  <2>1. 1 \in DOMAIN calls /\ calls[i].by \in Owners /\ i # 1
    BY <1>1, <1>2, <1>13, HeadAnswer, CallFacts
  <2> QED
    BY <1>1, <1>2, <1>3, <1>13, <2>1 DEF IInv, Sound, OneRevocation
<1>14. ASSUME NEW i \in DOMAIN calls, NEW d \in Calls, 1 < i, d = calls[i]
       PROVE  CallKeeps(d)
  <2>1. d.op = "revoke" => fenced'[d.by] = fenced[d.by]
    BY <1>10, <1>13, <1>14
  <2> QED
    BY <1>2, <1>6, <2>1 DEF CallKeeps, Row
<1>15. ASSUME calls' = Tail(calls) PROVE CallsSound' /\ OneRevocation'
  <2>1. /\ C!Moves(calls', calls, 1, {}) /\ calls' \in Seq(Calls)
        /\ replies' \in Seq(Replies) /\ Len(replies') <= Len(calls')
    BY <1>2, <1>15, AnswerTaken
  <2>2. CallsSound'
    BY <1>2, <1>11, <1>12, <1>14, <2>1, CallsFollow
  <2>3. OneRevocation'
    BY <2>1, RevocationsStay
  <2> QED
    BY <2>1, <2>2, <2>3
<1>16. ASSUME a.kind = "ok", rest # {}, NEW d \in Calls, calls' = Append(Tail(calls), d),
              RevokesOf(o, rest, d)
       PROVE  CallsSound' /\ OneRevocation'
  <2> USE DEF RevokesOf
  <2>1. /\ C!Moves(calls', calls, 1, {d}) /\ calls' \in Seq(Calls) /\ Len(calls') = Len(calls)
    BY <1>2, <1>16, AnswerTaken
  <2>2. CallSound(d, Unanswered)'
    <3>1. ASSUME NEW r \in d.runs PROVE Revoked(d.authority, r)'
      <4>1. PICK m \in rest : m.run = r /\ Coordinator!AuthorityFor(o, m) = d.authority
        BY <1>16
      <4>2. r \in Runs /\ Revoked(d.authority, r)
        BY <1>5, <1>9, <4>1, LeaseFields DEF IInv, Sound, TracesSound
      <4> QED
        BY <1>11, <1>12, <4>2, RevokedStays
    <3>2. RevokeSound(d, Unanswered)'
      BY <1>10, <1>16, <3>1 DEF RevokeSound, Unanswered
    <3> QED
      BY <1>16, <3>2 DEF CallSound
  <2>3. \A x \in {d} : CallSound(x, Unanswered)'
    BY <2>2
  <2>4. CallsSound'
    BY <1>2, <1>11, <1>12, <1>14, <2>1, <2>3, CallsFollow
  <2>5. \A i \in DOMAIN calls : 1 < i /\ calls[i].op = "revoke" => calls[i].by # d.by
    BY <1>13, <1>16
  <2>6. Len(calls') = Len(calls) - 1 + 1
    <3>1. Len(calls) \in Nat
      BY CoordinatorTypes DEF IInv
    <3> QED
      BY <2>1, <3>1
  <2>7. OneRevocation'
    BY <2>1, <2>5, <2>6, RevocationCalled
  <2> QED
    BY <2>4, <2>7
<1>17. \/ calls' = Tail(calls)
       \/ /\ a.kind = "ok" /\ rest # {}
          /\ \E d \in Calls : calls' = Append(Tail(calls), d) /\ RevokesOf(o, rest, d)
  <2>1. CASE a.kind # "ok"
    BY <1>6, <2>1
  <2>2. CASE a.kind = "ok"
    <3>1. C!NextRevocation(o, rest, Tail(calls))
      BY <1>6, <2>2
    <3> QED
      BY <1>9, <2>2, <3>1, NextRevoked
  <2> QED
    BY <2>1, <2>2
<1>18. /\ CallsSound' /\ OneRevocation'
       /\ replies' \in Seq(Replies) /\ Len(replies') <= Len(calls')
  <2>1. CallsSound' /\ OneRevocation'
    BY <1>15, <1>16, <1>17
  <2>2. replies' \in Seq(Replies) /\ Len(replies') <= Len(calls')
    BY <1>2, <1>17, AnswerTaken
  <2> QED
    BY <2>1, <2>2
<1>19. Typed'
  BY <1>2, <1>10, <1>18 DEF IInv, Sound, Typed, FencesHaveMaximum
<1>20. TracesSound'
  <2>1. \A e \in Owners : fencing'[e] \subseteq fencing[e]
    BY <1>5, <1>8, <1>9
  <2>2. \A e \in Owners : \A l \in fencing'[e] \ fencing[e] :
           (Known(l) /\ Revoked(Coordinator!AuthorityFor(e, l), l.run))'
    BY <2>1
  <2> QED
    BY <1>2, <1>6, <1>8, <1>9, <1>11, <1>12, <2>2, TracesStay
<1>21. \A q \in Runs : WorkSound(q)'
  BY <1>2, <1>6, <1>11, <1>12, WorksRest
<1>22. OwnersSound'
  <2>1. ASSUME NEW e \in Owners PROVE OwnerSound(e)'
    <3>1. OwnerSound(e)
      BY DEF IInv, Sound, OwnersSound
    <3>2. CASE e = o
      <4>1. fenced[e] = "pending" /\ fenced'[e] # "none"
        BY <1>4, <1>10, <3>2
      <4> QED
        BY <1>2, <1>6, <3>1, <4>1 DEF OwnerSound
    <3>3. CASE e # o
      BY <1>2, <1>6, <1>10, <3>1, <3>3 DEF OwnerSound
    <3> QED
      BY <3>2, <3>3
  <2> QED
    BY <1>2, <1>6, <2>1 DEF IInv, Sound, OwnersSound
<1>23. ASSUME NEW q \in Runs PROVE HostSound(q)'
  <2>1. HostSound(q)
    BY DEF IInv, Sound
  <2>2. pending[q] = "pending" => claims[SessionOf[q]] # None
    BY <2>1 DEF HostSound
  <2> QED
    BY <1>2, <1>6, <1>11, <2>1, <2>2, HostStays
<1>24. \A q : Interrupted(q)' = Interrupted(q)
  BY <1>2 DEF Interrupted
<1>25. ASSUME NEW s \in Sessions PROVE FrameSound(s)'
  <2>1. FrameSound(s)
    BY DEF IInv, Sound
  <2>2. claims[s] # None => s \notin blocked'
    BY <1>6, <2>1 DEF FrameSound
  <2>3. Interrupted(claims[s].lease.run)' = Interrupted(claims[s].lease.run)
    BY <1>2, <1>6 DEF Interrupted
  <2> QED
    BY <1>2, <1>6, <2>1, <2>2, <2>3, FrameStays
<1>26. OneLease'
  BY <1>2, <1>24, OneStays DEF IInv, Sound
<1>27. ASSUME NEW q \in Runs PROVE FenceSound(q)'
  <2>1. FenceSound(q)
    BY DEF IInv, Sound
  <2>2. \A e : InterruptedBy(e, q)' = InterruptedBy(e, q)
    BY <1>2 DEF InterruptedBy
  <2>3. runs[q] # None => runs[q].owner \in Owners
    BY CoordinatorTypes, LeaseFields DEF IInv
  <2>4. runs[q] # None =>
           /\ fenced'[runs[q].owner] # "none" => fenced[runs[q].owner] # "none"
           /\ process'[runs[q].owner] = "none" => process[runs[q].owner] = "none"
    BY <1>2, <1>4, <1>10, <2>3
  <2>5. ASSUME NEW e \in Owners, InterruptedBy(e, q), Active(q)', pending[q] = "none"
        PROVE  /\ fenced'[e] = "done" => fenced[e] = "done"
               /\ fenced'[e] = "pending" =>
                     fenced[e] = "pending" /\ \A l \in fencing[e] : l.run = q => l \in fencing'[e]
    <3>1. Active(q)
      BY <1>11, <2>5
    <3>2. CASE e # o
      BY <1>9, <1>10, <3>2
    <3>3. CASE e = o
      <4>1. PICK l \in fencing[o] : l.run = q
        BY <1>4, <2>1, <2>5, <3>1, <3>3 DEF FenceSound
      <4>2. a.kind = "ok" => q \notin c.runs
        BY <1>4, <3>1
      <4>3. a.kind = "ok" => \A m \in fencing[o] : m.run = q => m \in rest
        BY <1>5, <4>2
      <4> QED
        BY <1>4, <1>9, <1>10, <3>3, <4>1, <4>3
    <3> QED
      BY <3>2, <3>3
  <2> QED
    BY <1>2, <1>6, <1>11, <2>1, <2>2, <2>3, <2>4, <2>5, FenceStays DEF InterruptedBy
<1>28. JobSound'
  <2>1. job # None => job.run \in Runs
    BY DEF IInv, Sound, Typed, Jobs
  <2>2. \A q : Joined(q)' = Joined(q)
    BY <1>2 DEF Joined, InterruptedBy
  <2> QED
    BY <1>2, <1>6, <1>11, <2>1, <2>2, JobStays
<1> QED
  BY <1>18, <1>19, <1>20, <1>21, <1>22, <1>23, <1>25, <1>26, <1>27, <1>28 DEF Sound

-----------------------------------------------------------------------------
(* A kernel claims a run.                                                   *)

\* canWake, and the session is free at the coordinator: nothing is left of it.
LEMMA SessionIdle ==
    ASSUME IInv, NEW s \in Sessions, CanWake(s), C!SessionFree(s)
    PROVE  /\ s \notin blocked /\ claims[s] = None
           /\ \A q \in Runs : SessionOf[q] = s =>
                 /\ runs[q] = None /\ leases[q] = None /\ pending[q] = "none" /\ ~Interrupted(q)
                 /\ ~Active(q) /\ db.status[q] # "running" /\ ~Executing(q)
<1>1. s \notin blocked /\ sessions[s] = None /\ claims[s] = None
  BY DEF C!SessionFree
<1> SUFFICES ASSUME NEW q \in Runs, SessionOf[q] = s
             PROVE  /\ runs[q] = None /\ leases[q] = None /\ pending[q] = "none" /\ ~Interrupted(q)
                    /\ ~Active(q) /\ db.status[q] # "running" /\ ~Executing(q)
  BY <1>1
<1>2. runs[q] = None
  BY <1>1, CoordinatorFacts DEF IInv
<1>3. leases[q] = None /\ ~Interrupted(q)
  BY <1>2 DEF CanWake, RunsOf
<1>4. pending[q] = "none" /\ ~Active(q) /\ db.status[q] # "running"
  BY <1>3 DEF IInv, Sound, HostSound
<1>5. ~Executing(q)
  <2>1. work[q] # None /\ work[q].stage # "releasing" => runs[q] # None
    BY WorkFacts
  <2> QED
    BY <1>2, <2>1 DEF Executing, Stage
<1> QED
  BY <1>2, <1>3, <1>4, <1>5

\* The claim waits for a slot: the queue of the slots is all that changes.
LEMMA ClaimQueued ==
    ASSUME IInv, C!IInv', NEW o \in Owners, NEW r \in Runs, NEW captured \in SUBSET Owners,
           KernelClaims(o, r, captured), calls' = calls
    PROVE  Sound'
<1>1. C!Claim(o, r, {GenOf[o]} \cup BindingsOf[r], captured)
  BY ClaimSame DEF KernelClaims
<1>2. UNCHANGED << role, exited, defaultOf, sessions, runs, blocked, revoking, interruptions,
                   stoppedRuns, fencing, pendingReleases >>
  BY <1>1 DEF C!Claim, C!registry, C!faults
<1>3. calls \in Seq(Calls)
  BY CoordinatorTypes DEF IInv
<1>4. UNCHANGED << claims, fence >>
  <2>1. \A c : Append(calls, c) # calls
    BY <1>3
  <2> QED
    BY <1>1, <2>1 DEF C!Claim, C!port
<1>5. /\ UNCHANGED << leases, pending >>
      /\ UNCHANGED << storage, interrupted, stopped, handoffs, job, process, fenced, kernels >>
  BY DEF KernelClaims
<1>6. UNCHANGED << db, replies, drops, work, writes >>
  BY <1>5 DEF storage, kernels
<1>7. Typed'
  BY <1>5, <1>6 DEF IInv, Sound, Typed, FencesHaveMaximum
<1> QED
  BY <1>2, <1>4, <1>5, <1>6, <1>7, Plain

\* The claim is called: the session is claimed for a run whose database row
\* does not exist yet.
LEMMA ClaimCalled ==
    ASSUME IInv, C!IInv', NEW o \in Owners, NEW r \in Runs, NEW captured \in SUBSET Owners,
           KernelClaims(o, r, captured), calls' # calls
    PROVE  Sound'
<1> USE CoordinatorAssumed
<1>1. PICK s \in Sessions : s = SessionOf[r]
  BY LeaseAssumption
<1>2. PICK b : b = {GenOf[o]} \cup BindingsOf[r]
  OBVIOUS
<1>3. /\ C!Claim(o, r, b, captured) /\ db.status[r] = "queued" /\ CanWake(s)
      /\ UNCHANGED << storage, interrupted, stopped, handoffs, job, process, fenced, kernels >>
      /\ leases' = [leases EXCEPT ![r] = calls'[Len(calls')].lease]
      /\ pending' = [pending EXCEPT ![r] = "pending"]
  BY <1>1, <1>2, ClaimSame DEF KernelClaims
<1>4. UNCHANGED << role, exited, defaultOf, sessions, runs, blocked, revoking, interruptions,
                   stoppedRuns, fencing, pendingReleases >>
  BY <1>3 DEF C!Claim, C!registry, C!faults
<1>5. UNCHANGED << db, replies, drops, work, writes >>
  BY <1>3 DEF storage, kernels
<1>6. PICK d : d = [id |-> fence + 1, run |-> r, owner |-> o, versions |-> b, fence |-> fence + 1]
  OBVIOUS
<1>7. PICK f : f = [lease |-> d, captured |-> captured, stage |-> "claim"]
  OBVIOUS
<1>8. PICK c : c = C!ClaimCall("claim", d)
  OBVIOUS
<1>9. /\ claims' = [claims EXCEPT ![s] = f] /\ calls' = Append(calls, c)
  BY <1>1, <1>3, <1>6, <1>7, <1>8 DEF C!Claim, C!port
<1>10. /\ Kind(o) = "kernel" /\ C!SessionFree(s)
       /\ \A g \in b : \E e \in captured : GenOf[e] = g /\ role[e] \in Served
       /\ \A e \in captured : GenOf[e] \in b
  <2>1. Kind(o) = "kernel"
    BY <1>3 DEF C!Claim, C!IsDefaultKernel, Kind, C!Kind
  <2> QED
    BY <1>1, <1>3, <2>1 DEF C!Claim, C!Available, Served
<1>11. /\ d \in Leases /\ d.run = r /\ d.owner = o /\ LeaseSound(r, d) /\ d # None
  <2>1. b \in SUBSET Generations /\ fence + 1 \in Nat \ {0}
    BY <1>2, LeaseAssumption, HandoffAssumption, CoordinatorTypes DEF IInv
  <2>2. d \in Leases /\ d.run = r /\ d.owner = o /\ d.versions = b
    BY <1>6, <2>1 DEF Leases
  <2> QED
    BY <1>2, <1>10, <2>2, LeaseFields DEF LeaseSound
<1>12. f # None /\ f.lease = d /\ f.captured = captured /\ f.stage = "claim"
  <2>1. f \in C!Frames
    BY <1>7, <1>11 DEF C!Frames, C!Leases, Leases
  <2> QED
    BY <1>7, <2>1 DEF C!CoordinatorAssumption
<1>13. c \in Calls /\ c.op = "claim" /\ c.lease = d
  BY <1>8, <1>11 DEF C!ClaimCall, Calls
<1>14. /\ s \notin blocked /\ claims[s] = None
       /\ \A q \in Runs : SessionOf[q] = s =>
             /\ runs[q] = None /\ leases[q] = None /\ pending[q] = "none" /\ ~Interrupted(q)
             /\ ~Active(q) /\ db.status[q] # "running" /\ ~Executing(q)
  BY <1>3, <1>10, SessionIdle
<1>15. /\ claims'[s] = f /\ \A e \in Sessions \ {s} : claims'[e] = claims[e]
  BY <1>9, CoordinatorTypes DEF IInv
<1>16. /\ calls \in Seq(Calls) /\ calls' \in Seq(Calls) /\ C!Moves(calls', calls, 0, {c})
       /\ Len(calls') = Len(calls) + 1 /\ calls'[Len(calls')] = c
  <2>1. calls \in Seq(C!Calls)
    BY DEF IInv, C!IInv, C!TypeOK
  <2>2. calls \in Seq(Calls)
    BY CoordinatorTypes DEF IInv
  <2>3. C!Moves(calls', calls, 0, {c})
    BY <1>9, <2>1, C!MovesFacts
  <2> QED
    BY <1>9, <1>13, <2>2, <2>3
<1>17. /\ leases' \in [Runs -> Leases \cup {None}] /\ leases'[r] = d
       /\ \A q \in Runs \ {r} : leases'[q] = leases[q]
       /\ pending' \in [Runs -> {"none", "pending", "failed"}] /\ pending'[r] = "pending"
       /\ \A q \in Runs \ {r} : pending'[q] = pending[q]
  BY <1>3, <1>11, <1>13, <1>16 DEF IInv, Sound, Typed
<1>18. Len(replies') <= Len(calls')
  BY <1>5, <1>16 DEF IInv, Sound, Typed
<1>19. Typed'
  BY <1>3, <1>5, <1>17, <1>18 DEF IInv, Sound, Typed, FencesHaveMaximum
<1>20. \A q \in Runs : Fades(q) /\ Lasts(q) /\ Row(q)' = Row(q) /\ Active(q)' = Active(q)
  BY <1>5, DatabaseRests DEF Fades, Row, Active
<1>21. Row(r) = None
  BY <1>3 DEF IInv, Sound, HostSound
<1>22. ASSUME NEW q \in Runs PROVE Remembers(q)
  <2>1. CASE q = r
    BY <1>21, <2>1 DEF Remembers, Past
  <2>2. CASE q # r
    <3>1. Idle(q) => Idle(q)'
      BY <1>5 DEF Idle
    <3> QED
      BY <1>4, <1>5, <1>17, <2>2, <3>1 DEF Remembers, Past
  <2> QED
    BY <2>1, <2>2
<1>23. CallsSound' /\ OneRevocation'
  <2>1. ASSUME NEW i \in DOMAIN calls, NEW x \in Calls, x = calls[i]
        PROVE  CallKeeps(x)
    <3>1. x.op \in {"claim", "unclaim"} =>
             x.lease.run \in Runs /\ claims[SessionOf[x.lease.run]] # None
      BY <2>1, CallFacts DEF Session
    <3>2. x.op \in {"claim", "unclaim"} => claims'[SessionOf[x.lease.run]] = claims[SessionOf[x.lease.run]]
      BY <1>14, <1>15, <3>1, LeaseAssumption
    <3> QED
      BY <1>3, <1>5, <3>2 DEF CallKeeps, Row
  <2>2. CallSound(c, Unanswered)'
    <3>1. ClaimSound(c, Unanswered)'
      BY <1>1, <1>11, <1>12, <1>13, <1>15, <1>20, <1>21 DEF ClaimSound, Unanswered
    <3> QED
      BY <1>13, <3>1 DEF CallSound
  <2>3. PICK New : New = {c} /\ C!Moves(calls', calls, 0, New)
                   /\ \A x \in New : x.op # "revoke" /\ CallSound(x, Unanswered)'
    BY <1>13, <1>16, <2>2
  <2>4. CallsSound'
    BY <1>5, <1>16, <1>20, <1>22, <2>1, <2>3, CallsFollow
  <2> QED
    BY <1>16, <2>3, <2>4, RevocationsStay
<1>24. TracesSound'
  <2>1. /\ fencing \in [Owners -> SUBSET Leases] /\ pendingReleases \subseteq Leases
        /\ stoppedRuns \subseteq Runs /\ handoffs \subseteq Leases /\ writes \subseteq Leases
    BY CoordinatorTypes DEF IInv, Sound, Typed
  <2> QED
    BY <1>3, <1>4, <1>5, <1>20, <1>22, <2>1, TracesStay
<1>25. \A q \in Runs : WorkSound(q)'
  BY <1>3, <1>4, <1>5, <1>20, <1>22, WorksRest
<1>26. OwnersSound'
  BY <1>3, <1>4, OwnersStay DEF IInv, Sound
<1>27. ASSUME NEW q \in Runs PROVE HostSound(q)'
  <2>1. HostSound(q) /\ SessionOf[q] \in Sessions
    BY LeaseAssumption DEF IInv, Sound
  <2>2. CASE q = r
    <3>1. \A l : LeaseSound(r, l)' = LeaseSound(r, l)
      BY DEF LeaseSound
    <3> QED
      BY <1>1, <1>4, <1>5, <1>11, <1>12, <1>14, <1>15, <1>17, <1>20, <1>21, <2>1, <2>2, <3>1
         DEF HostSound
  <2>3. CASE q # r /\ SessionOf[q] = s
    <3>1. \A l : LeaseSound(q, l)' = LeaseSound(q, l)
      BY DEF LeaseSound
    <3>2. /\ leases'[q] = None /\ pending'[q] = "none" /\ runs'[q] = None
          /\ claims'[SessionOf[q]].lease.run # q
      BY <1>4, <1>11, <1>12, <1>14, <1>15, <1>17, <2>3
    <3>3. Row(q)' = Row(q) /\ Active(q)' = Active(q) /\ db'.status[q] = db.status[q]
      BY <1>5, <1>20
    <3> QED
      BY <1>14, <2>1, <2>3, <3>1, <3>2, <3>3 DEF HostSound
  <2>4. CASE q # r /\ SessionOf[q] # s
    <3>1. claims'[SessionOf[q]] = claims[SessionOf[q]]
      BY <1>15, <2>1, <2>4
    <3>2. pending[q] = "pending" => claims[SessionOf[q]] # None
      BY <2>1 DEF HostSound
    <3> QED
      BY <1>4, <1>17, <1>20, <2>1, <2>4, <3>1, <3>2, HostStays
  <2> QED
    BY <2>2, <2>3, <2>4
<1>28. \A q : Interrupted(q)' = Interrupted(q)
  BY <1>3 DEF Interrupted
<1>29. ASSUME NEW e \in Sessions PROVE FrameSound(e)'
  <2>1. CASE e = s
    <3>1. LeaseSound(r, d)' = LeaseSound(r, d) /\ ~Interrupted(r)'
      BY <1>1, <1>14, <1>28 DEF LeaseSound
    <3>2. d.versions = b
      BY <1>2, <1>11 DEF LeaseSound
    <3> QED
      BY <1>4, <1>10, <1>11, <1>12, <1>14, <1>15, <1>17, <2>1, <3>1, <3>2 DEF FrameSound
  <2>2. CASE e # s
    <3>1. FrameSound(e) /\ C!IInv /\ claims'[e] = claims[e]
      BY <1>15, <2>2 DEF IInv, Sound
    <3>2. ASSUME claims[e] # None
          PROVE  claims[e].lease.run \in Runs \ {r} /\ e \notin blocked'
      <4>1. claims[e].lease.run \in Runs /\ SessionOf[claims[e].lease.run] = e
        BY <3>1, <3>2, CoordinatorTypes, CoordinatorFacts DEF Frames, Leases
      <4> QED
        BY <1>1, <1>4, <2>2, <3>1, <3>2, <4>1 DEF FrameSound
    <3>3. Interrupted(claims[e].lease.run)' = Interrupted(claims[e].lease.run)
      BY <1>3, <3>1 DEF Interrupted
    <3> QED
      BY <1>4, <1>17, <3>1, <3>2, <3>3, FrameStays
  <2> QED
    BY <2>1, <2>2
<1>30. OneLease'
  <2> SUFFICES ASSUME NEW x \in Runs, NEW q \in Runs, SessionOf[x] = SessionOf[q], x # q,
                      leases'[x] # None
               PROVE  leases'[q] = None /\ ~Interrupted(q)'
    BY DEF OneLease
  <2>1. CASE x = r
    BY <1>1, <1>14, <1>17, <1>28, <2>1
  <2>2. CASE x # r
    <3>1. leases[x] # None /\ q # r
      BY <1>1, <1>14, <1>17, <2>2
    <3> QED
      BY <1>17, <1>28, <3>1 DEF IInv, Sound, OneLease
  <2> QED
    BY <2>1, <2>2
<1>31. ASSUME NEW q \in Runs PROVE FenceSound(q)'
  <2>1. \A e : InterruptedBy(e, q)' = InterruptedBy(e, q)
    BY <1>3 DEF InterruptedBy
  <2>2. CASE q = r
    <3>1. \A e \in Owners : ~InterruptedBy(e, q)'
      BY <1>1, <1>14, <2>1, <2>2 DEF Interrupted, InterruptedBy
    <3> QED
      BY <1>1, <1>4, <1>14, <1>17, <2>2, <3>1 DEF FenceSound
  <2>3. CASE q # r
    <3>1. FenceSound(q)
      BY DEF IInv, Sound
    <3>2. runs[q] # None => runs[q].owner \in Owners
      BY CoordinatorTypes, LeaseFields DEF IInv
    <3> QED
      BY <1>3, <1>4, <1>17, <1>20, <2>1, <2>3, <3>1, <3>2, FenceStays DEF InterruptedBy
  <2> QED
    BY <2>2, <2>3
<1>32. JobSound'
  <2>1. ASSUME job # None
        PROVE  job.run \in Runs \ {r}
    <3>1. job.run \in Runs /\ job.stage \in JobStages /\ JobClaims(job.run, job.stage)
      BY <2>1, JobWas DEF Jobs
    <3>2. Joined(job.run) => Interrupted(job.run)
      BY DEF Joined, InterruptedBy, Interrupted
    <3>3. pending[r] = "none" /\ ~Interrupted(r)
      BY <1>1, <1>14
    <3> QED
      BY <1>3, <3>1, <3>2, <3>3 DEF JobClaims, JobStages
  <2>2. \A q : Joined(q)' = Joined(q)
    BY <1>3 DEF Joined, InterruptedBy
  <2> QED
    BY <1>3, <1>4, <1>17, <1>20, <2>1, <2>2, JobStays
<1> QED
  BY <1>19, <1>23, <1>24, <1>25, <1>26, <1>27, <1>29, <1>30, <1>31, <1>32 DEF Sound

\* A Kernel's claim, queued or sent.
LEMMA ClaimMade ==
    ASSUME IInv, C!IInv', NEW o \in Owners, NEW r \in Runs, NEW captured \in SUBSET Owners,
           KernelClaims(o, r, captured)
    PROVE  Sound'
BY ClaimQueued, ClaimCalled

-----------------------------------------------------------------------------
(* Faults and exits.                                                        *)

\* The leases a fault concerns are the same in both instances.
LEMMA AffectedSame ==
    ASSUME NEW o
    PROVE  Coordinator!Affected(o) = C!Affected(o)
BY Zenon DEF Coordinator!Affected, C!Affected, Coordinator!Registered, C!Registered,
       Coordinator!Kind, C!Kind, Coordinator!Bound, C!Bound, Coordinator!Holding, C!Holding

\* What a fault affects is registered, and the Host's lease of it is the same.
LEMMA AffectedFacts ==
    ASSUME IInv, NEW o \in Owners
    PROVE  /\ C!Affected(o) \in SUBSET Leases
           /\ \A l \in C!Affected(o) : l.run \in Runs /\ runs[l.run] = l /\ l # None /\ Known(l)
           /\ \A r \in Runs : runs[r] # None =>
                 /\ runs[r].owner = o => runs[r] \in C!Affected(o)
                 /\ r \in Concerned(o) <=> runs[r] \in C!Affected(o)
           /\ \A r \in Runs : r \in Concerned(o) =>
                 /\ leases[r] # None
                 /\ runs[r] = None => Bound(o, leases[r])
           /\ Concerned(o) \subseteq Runs
<1> USE CoordinatorAssumed
<1>1. C!Affected(o) \subseteq C!Registered
  BY DEF C!Affected
<1>2. \A l \in C!Registered : l.run \in Runs /\ l \in Leases /\ l # None /\ runs[l.run] = l
  <2> SUFFICES ASSUME NEW l \in C!Registered
               PROVE  l.run \in Runs /\ l \in Leases /\ l # None /\ runs[l.run] = l
    OBVIOUS
  <2>1. PICK r \in Runs : l = runs[r] /\ runs[r] # None
    BY DEF C!Registered
  <2> QED
    BY <2>1, CoordinatorTypes, CoordinatorFacts DEF IInv
<1>3. \A r \in Runs : runs[r] # None =>
         /\ leases[r] = runs[r] /\ Row(r) # None /\ Row(r).lease = runs[r] /\ pending[r] = "none"
         /\ runs[r] \in C!Registered /\ runs[r] \in Leases
         /\ LeaseSound(r, runs[r])
  <2> SUFFICES ASSUME NEW r \in Runs, runs[r] # None
               PROVE  /\ leases[r] = runs[r] /\ Row(r) # None /\ Row(r).lease = runs[r]
                      /\ pending[r] = "none"
                      /\ runs[r] \in C!Registered /\ runs[r] \in Leases
                      /\ LeaseSound(r, runs[r])
    OBVIOUS
  <2>1. HostSound(r) /\ pending[r] \in {"none", "pending", "failed"}
    BY DEF IInv, Sound, Typed
  <2>2. runs[r] \in C!Registered /\ runs[r] \in Leases
    BY CoordinatorTypes DEF IInv, C!Registered
  <2> QED
    BY <2>1, <2>2 DEF HostSound
<1>4. \A l \in C!Affected(o) : Known(l)
  <2> SUFFICES ASSUME NEW l \in C!Affected(o) PROVE Known(l)
    OBVIOUS
  <2>1. l.run \in Runs /\ runs[l.run] = l /\ l # None
    BY <1>1, <1>2
  <2> QED
    BY <1>3, <2>1 DEF Known
<1>5. Kind(o) # "storage"
  BY HandoffAssumption
<1>6. Concerned(o) = {r \in Runs : leases[r] # None /\ Bound(o, leases[r])}
                        \cup {l.run : l \in C!Affected(o)}
  BY <1>5, AffectedSame DEF Concerned
<1>7. \A l \in C!Registered : l.owner = o \/ C!Bound(o, l) => l \in C!Affected(o)
  BY DEF C!Affected
<1>8. \A l : C!Bound(o, l) = Bound(o, l)
  BY DEF C!Bound, Bound
<1>9. \A r \in Runs : runs[r] # None =>
         /\ runs[r].owner = o => runs[r] \in C!Affected(o)
         /\ r \in Concerned(o) <=> runs[r] \in C!Affected(o)
  <2> SUFFICES ASSUME NEW r \in Runs, runs[r] # None
               PROVE  /\ runs[r].owner = o => runs[r] \in C!Affected(o)
                      /\ r \in Concerned(o) <=> runs[r] \in C!Affected(o)
    OBVIOUS
  <2>1. leases[r] = runs[r] /\ runs[r] \in C!Registered /\ runs[r].run = r
    BY <1>3 DEF LeaseSound
  <2>2. r \in Concerned(o) => runs[r] \in C!Affected(o)
    <3> SUFFICES ASSUME r \in Concerned(o) PROVE runs[r] \in C!Affected(o)
      OBVIOUS
    <3>1. CASE Bound(o, leases[r])
      BY <1>7, <1>8, <2>1, <3>1
    <3>2. CASE \E l \in C!Affected(o) : r = l.run
      BY <1>1, <1>2, <3>2
    <3> QED
      BY <1>6, <3>1, <3>2
  <2>3. runs[r] \in C!Affected(o) => r \in Concerned(o)
    BY <1>6, <2>1
  <2> QED
    BY <1>7, <2>1, <2>2, <2>3
<1>10. \A r \in Runs : r \in Concerned(o) =>
          leases[r] # None /\ (runs[r] = None => Bound(o, leases[r]))
  <2> SUFFICES ASSUME NEW r \in Runs, r \in Concerned(o)
               PROVE  leases[r] # None /\ (runs[r] = None => Bound(o, leases[r]))
    OBVIOUS
  <2>1. CASE leases[r] # None /\ Bound(o, leases[r])
    BY <2>1
  <2>2. CASE \E l \in C!Affected(o) : r = l.run
    BY <1>1, <1>2, <1>3, <2>2
  <2> QED
    BY <1>6, <2>1, <2>2
<1> QED
  BY <1>1, <1>2, <1>4, <1>6, <1>9, <1>10

\* An authority may be revoked in the name the coordinator gives: its own
\* owner's, or that of a driver it is bound to.  The incarnation before the
\* failed one has lost its authorities when the failed one was started.
LEMMA AffectedRevocable ==
    ASSUME IInv, NEW o \in Owners, process[o] \in Up, NEW l \in C!Affected(o)
    PROVE  Revocable(Coordinator!AuthorityFor(o, l), l.run)
<1>1. PICK r \in Runs : /\ r = l.run /\ runs[r] = l /\ l # None /\ l \in Leases
                        /\ Row(r).lease = l /\ pending[r] = "none"
  BY AffectedFacts DEF Known
<1>2. l.owner \in Owners /\ LeaseSound(r, l) /\ FenceSound(r)
  BY <1>1, LeaseFields DEF IInv, Sound, HostSound
<1>3. CASE l.owner = o \/ ~Bound(o, l)
  <2>1. Coordinator!AuthorityFor(o, l) = l.owner
    BY <1>3 DEF Coordinator!AuthorityFor, Coordinator!Bound, Bound
  <2> QED
    BY <1>1, <2>1 DEF Revocable
<1>4. CASE l.owner # o /\ Bound(o, l)
  <2>1. Coordinator!AuthorityFor(o, l) = o
    BY <1>4 DEF Coordinator!AuthorityFor, Coordinator!Bound, Bound
  <2>2. GenOf[o] \in Row(r).lease.versions
    BY <1>1, <1>4 DEF Bound
  <2>3. ASSUME Kind(o) = "kernel" PROVE ~Active(r)
    <3>1. GenOf[o] = GenOf[l.owner]
      <4>1. GenOf[o] \notin BindingsOf[r]
        BY <2>3, HandoffAssumption DEF Kind
      <4> QED
        BY <1>2, <1>4, <4>1 DEF LeaseSound, Bound
    <3>2. process[l.owner] \notin Up /\ process[l.owner] # "none"
      BY <1>1, <1>2, <1>4, <3>1 DEF IInv, Sound, OwnersSound, FenceSound
    <3>3. process[l.owner] = "exited"
      BY <1>2, <3>2 DEF IInv, Sound, Typed, Up
    <3>4. fenced[l.owner] = "done"
      BY <1>2, <3>3 DEF IInv, Sound, OwnersSound, OwnerSound
    <3>5. InterruptedBy(l.owner, r)
      BY <1>1, <1>2, <3>4 DEF FenceSound
    <3> QED
      BY <1>1, <1>2, <3>4, <3>5 DEF FenceSound
  <2> QED
    BY <1>1, <2>1, <2>2, <2>3 DEF Revocable
<1> QED
  BY <1>3, <1>4

\* A fault: the owner is fenced, the gates of its runs close and the first
\* revocation is called.
LEMMA Faulting ==
    ASSUME IInv, C!IInv', NEW o \in Owners, Fault(o)
    PROVE  Sound'
<1>1. PICK A \in SUBSET Leases : A = C!Affected(o)
  BY AffectedFacts
<1>2. /\ fenced[o] \in {"none", "failed"} /\ process[o] \in Up
      /\ interrupted' = [interrupted EXCEPT ![o] = [runs |-> Concerned(o), exited |-> FALSE]]
      /\ C!Revoke(o)
      /\ fenced' = [fenced EXCEPT ![o] = IF calls' = calls THEN "done" ELSE "pending"]
      /\ UNCHANGED << db, replies, drops, leases, pending, stopped, handoffs, job, process,
                      work, writes >>
  BY RevokeSame DEF Fault, Up, storage, kernels
<1>3. /\ role[o] \notin {"new", "forgotten"}
      /\ role' = [role EXCEPT ![o] = "fenced"]
      /\ revoking' = revoking \cup {o}
      /\ pendingReleases' \subseteq pendingReleases
      /\ blocked' = blocked \cup {SessionOf[l.run] : l \in A}
      /\ interruptions' = [r \in Runs |-> IF \E l \in A : l.run = r
                                          THEN interruptions[r] \cup {o} ELSE interruptions[r]]
      /\ fencing' = [fencing EXCEPT ![o] = A]
      /\ C!NextRevocation(o, A, calls)
      /\ UNCHANGED << exited, defaultOf, sessions, runs, claims, stoppedRuns, fence >>
  BY <1>1, <1>2 DEF C!Revoke, C!Closing, C!Session
<1>4. /\ \A l \in A : l.run \in Runs /\ runs[l.run] = l /\ l # None /\ Known(l)
      /\ \A r \in Runs : runs[r] # None =>
            /\ runs[r].owner = o => runs[r] \in A
            /\ r \in Concerned(o) <=> runs[r] \in A
      /\ \A r \in Runs : r \in Concerned(o) =>
            leases[r] # None /\ (runs[r] = None => Bound(o, leases[r]))
      /\ Concerned(o) \subseteq Runs
  BY <1>1, AffectedFacts
<1>5. PICK x : x = [runs |-> Concerned(o), exited |-> FALSE]
  OBVIOUS
<1>6. x \in Faults /\ x # None /\ x.runs = Concerned(o) /\ x.exited = FALSE
  <2>1. x \in Faults
    BY <1>4, <1>5 DEF Faults
  <2> QED
    BY <1>5, <2>1, NoneStateAssumption
<1>7. /\ interrupted' \in [Owners -> Faults \cup {None}] /\ interrupted'[o] = x
      /\ \A e \in Owners \ {o} : interrupted'[e] = interrupted[e]
  BY <1>2, <1>5, <1>6 DEF IInv, Sound, Typed
<1>8. /\ fencing \in [Owners -> SUBSET Leases] /\ pendingReleases \subseteq Leases
      /\ stoppedRuns \subseteq Runs /\ handoffs \subseteq Leases /\ writes \subseteq Leases
      /\ interruptions \in [Runs -> SUBSET Owners] /\ role \in [Owners -> C!Roles]
  BY CoordinatorTypes DEF IInv, Sound, Typed
<1>9. /\ fencing' \in [Owners -> SUBSET Leases] /\ fencing'[o] = A
      /\ \A e \in Owners \ {o} : fencing'[e] = fencing[e]
      /\ role'[o] = "fenced" /\ \A e \in Owners \ {o} : role'[e] = role[e]
      /\ \A r \in Runs : /\ interruptions[r] \subseteq interruptions'[r]
                         /\ (\E l \in A : l.run = r) => o \in interruptions'[r]
  BY <1>3, <1>8
<1>10. \A r \in Runs : /\ runs[r] # None => runs[r].run = r
                       /\ runs[r] \in A => interruptions'[r] # {}
  BY <1>4, <1>9, CoordinatorFacts DEF IInv
<1>11. \A q \in Runs : Fades(q) /\ Lasts(q) /\ Row(q)' = Row(q) /\ Active(q)' = Active(q)
  BY <1>2, DatabaseRests DEF Fades, Row, Active
<1>12. ASSUME NEW q \in Runs PROVE Remembers(q)
  <2>1. Idle(q) => Idle(q)'
    BY <1>2 DEF Idle
  <2>2. interruptions[q] # {} => interruptions'[q] # {}
    BY <1>9
  <2> QED
    BY <1>2, <1>3, <2>1, <2>2 DEF Remembers, Past
<1>13. ASSUME NEW i \in DOMAIN calls, calls[i].op = "revoke"
       PROVE  calls[i].by \in Owners \ {o}
  BY <1>2, <1>13, CallFacts DEF CallSound, RevokeSound
<1>14. ASSUME NEW l \in A
       PROVE  (Known(l) /\ Revoked(Coordinator!AuthorityFor(o, l), l.run))'
  <2>1. PICK r \in Runs : r = l.run /\ runs[r] = l /\ l # None /\ Known(l)
    BY <1>4
  <2>2. Known(l)'
    BY <1>11, <1>12, <2>1, KnownStays
  <2>3. PICK a : a = Coordinator!AuthorityFor(o, l)
    OBVIOUS
  <2>4. Revocable(a, r)
    BY <1>1, <1>2, <2>1, <2>3, AffectedRevocable
  <2>5. Revocable(a, r)'
    BY <1>11, <2>4 DEF Revocable
  <2>6. interruptions'[r] # {}
    BY <1>10, <2>1
  <2>7. Row(r)' # None /\ pending'[r] = "none"
    BY <2>1, <2>2 DEF Known
  <2>8. Revoked(a, r)'
    BY <2>5, <2>6, <2>7 DEF Revoked
  <2> QED
    BY <2>1, <2>2, <2>3, <2>8
<1>15. /\ calls \in Seq(Calls) /\ calls \in Seq(C!Calls) /\ Len(calls) \in Nat
       /\ Len(replies) \in Nat /\ Len(replies) <= Len(calls)
  BY CoordinatorTypes DEF IInv, Sound, Typed, C!IInv, C!TypeOK
<1>16. \/ A = {} /\ calls' = calls
       \/ A # {} /\ \E d \in Calls : calls' = Append(calls, d) /\ RevokesOf(o, A, d)
  BY <1>3, NextRevoked
<1>17. /\ fenced' \in [Owners -> {"none", "pending", "done", "failed"}]
       /\ fenced'[o] = IF A = {} THEN "done" ELSE "pending"
       /\ \A e \in Owners \ {o} : fenced'[e] = fenced[e]
  <2>1. \A d : Append(calls, d) # calls
    BY <1>15
  <2>2. calls' = calls <=> A = {}
    BY <1>16, <2>1
  <2> QED
    BY <1>2, <2>2 DEF IInv, Sound, Typed
<1>18. ASSUME NEW i \in DOMAIN calls, NEW d \in Calls, d = calls[i]
       PROVE  CallKeeps(d)
  <2>1. d.op = "revoke" => fenced'[d.by] = fenced[d.by]
    BY <1>13, <1>17, <1>18
  <2> QED
    BY <1>2, <1>3, <2>1 DEF CallKeeps, Row
<1>19. ASSUME calls' = calls
       PROVE  /\ CallsSound' /\ OneRevocation'
              /\ calls' \in Seq(Calls) /\ Len(calls) <= Len(calls')
  <2>1. PICK New : New = {} /\ C!Moves(calls', calls, 0, New)
                   /\ \A d \in New : d.op # "revoke" /\ CallSound(d, Unanswered)'
    <3> USE CoordinatorAssumed
    <3>1. C!Moves(calls, calls, 0, {})
      BY <1>15, C!MovesFacts
    <3> QED
      BY <1>19, <3>1
  <2>2. calls' \in Seq(Calls)
    BY <1>15, <1>19
  <2>3. CallsSound'
    BY <1>2, <1>11, <1>12, <1>18, <2>1, <2>2, CallsFollow
  <2>4. OneRevocation'
    BY <2>1, <2>2, RevocationsStay
  <2> QED
    BY <1>15, <1>19, <2>2, <2>3, <2>4
<1>20. ASSUME A # {}, NEW d \in Calls, calls' = Append(calls, d), RevokesOf(o, A, d)
       PROVE  /\ CallsSound' /\ OneRevocation'
              /\ calls' \in Seq(Calls) /\ Len(calls) <= Len(calls')
  <2> USE DEF RevokesOf
  <2>1. /\ C!Moves(calls', calls, 0, {d}) /\ calls' \in Seq(Calls)
        /\ Len(calls') = Len(calls) - 0 + 1
    <3> USE CoordinatorAssumed
    <3>1. C!Moves(Append(calls, d), calls, 0, {d})
      BY <1>15, C!MovesFacts
    <3> QED
      BY <1>15, <1>20, <3>1
  <2>2. CallSound(d, Unanswered)'
    <3>1. ASSUME NEW r \in d.runs PROVE Revoked(d.authority, r)'
      <4>1. PICK m \in A : m.run = r /\ Coordinator!AuthorityFor(o, m) = d.authority
        BY <1>20
      <4> QED
        BY <1>14, <4>1
    <3>2. RevokeSound(d, Unanswered)'
      BY <1>17, <1>20, <3>1 DEF RevokeSound, Unanswered
    <3> QED
      BY <1>20, <3>2 DEF CallSound
  <2>3. \A z \in {d} : CallSound(z, Unanswered)'
    BY <2>2
  <2>4. CallsSound'
    BY <1>2, <1>11, <1>12, <1>18, <2>1, <2>3, CallsFollow
  <2>5. \A i \in DOMAIN calls : 0 < i /\ calls[i].op = "revoke" => calls[i].by # d.by
    BY <1>13, <1>20
  <2>6. OneRevocation'
    BY <2>1, <2>5, RevocationCalled
  <2> QED
    BY <1>15, <2>1, <2>4, <2>6
<1>21. /\ CallsSound' /\ OneRevocation'
       /\ calls' \in Seq(Calls) /\ Len(calls) <= Len(calls')
  BY <1>16, <1>19, <1>20
<1>22. Typed'
  <2>1. Len(replies') <= Len(calls')
    <3>1. Len(calls') \in Nat
      BY <1>21
    <3> QED
      BY <1>2, <1>15, <1>21, <3>1
  <2> QED
    BY <1>2, <1>7, <1>17, <2>1 DEF IInv, Sound, Typed, FencesHaveMaximum
<1>23. TracesSound'
  <2>1. \A e \in Owners : \A l \in fencing'[e] \ fencing[e] :
           (Known(l) /\ Revoked(Coordinator!AuthorityFor(e, l), l.run))'
    <3> SUFFICES ASSUME NEW e \in Owners, NEW l \in fencing'[e] \ fencing[e]
                 PROVE  (Known(l) /\ Revoked(Coordinator!AuthorityFor(e, l), l.run))'
      OBVIOUS
    <3>1. e = o /\ l \in A
      BY <1>9
    <3> QED
      BY <1>14, <3>1
  <2>2. pendingReleases' \subseteq Leases
    BY <1>3, <1>8
  <2> QED
    BY <1>2, <1>3, <1>8, <1>9, <1>11, <1>12, <2>1, <2>2, TracesStay
<1>24. ASSUME NEW q \in Runs PROVE WorkSound(q)'
  <2>1. WorkSound(q) /\ Lasts(q) /\ Remembers(q)
    BY <1>11, <1>12 DEF IInv, Sound
  <2>2. work[q] # None => work[q].lease.owner \in Owners
    BY WorkFacts
  <2>3. work[q] # None =>
           process'[work[q].lease.owner] \in Up /\ role'[work[q].lease.owner] \in Served
    BY <1>2, <1>9, <2>1, <2>2 DEF WorkSound, Served
  <2>4. ASSUME Executing(q), interruptions'[q] = {}
        PROVE  /\ interruptions[q] = {} /\ (Active(q) => Active(q)')
               /\ SessionOf[q] \notin blocked => SessionOf[q] \notin blocked'
    <3>1. runs[q] # None
      BY <2>4, WorkFacts DEF Executing, Stage
    <3>2. \A l \in A : SessionOf[l.run] # SessionOf[q]
      <4> SUFFICES ASSUME NEW l \in A, SessionOf[l.run] = SessionOf[q] PROVE FALSE
        OBVIOUS
      <4>1. l.run = q
        BY <1>4, <3>1, OneRegistered
      <4> QED
        BY <1>9, <2>4, <4>1
    <3> QED
      BY <1>3, <1>9, <1>11, <2>4, <3>2
  <2> QED
    BY <1>2, <1>3, <2>1, <2>3, <2>4, WorkStays
<1>25. OwnersSound'
  <2>1. ASSUME NEW e \in Owners PROVE OwnerSound(e)'
    <3>1. OwnerSound(e)
      BY DEF IInv, Sound, OwnersSound
    <3>2. CASE e = o
      <4>1. process[e] \in Up /\ e \notin exited /\ process'[e] = process[e] /\ role'[e] = "fenced"
        BY <1>2, <1>9, <3>1, <3>2 DEF OwnerSound, Up
      <4>2. interrupted'[e] # None /\ interrupted'[e].exited = FALSE /\ fenced'[e] \in {"done", "pending"}
        BY <1>6, <1>7, <1>17, <3>2
      <4> QED
        BY <1>3, <4>1, <4>2 DEF OwnerSound, Up
    <3>3. CASE e # o
      BY <1>2, <1>3, <1>7, <1>9, <1>17, <3>1, <3>3 DEF OwnerSound
    <3> QED
      BY <3>2, <3>3
  <2> QED
    BY <1>2, <1>3, <2>1 DEF IInv, Sound, OwnersSound
<1>26. ASSUME NEW q \in Runs PROVE HostSound(q)'
  <2>1. HostSound(q)
    BY DEF IInv, Sound
  <2>2. pending[q] = "pending" => claims[SessionOf[q]] # None
    BY <2>1 DEF HostSound
  <2> QED
    BY <1>2, <1>3, <1>11, <2>1, <2>2, HostStays
<1>27. /\ \A q : InterruptedBy(o, q)' <=> q \in Concerned(o)
       /\ \A e \in Owners \ {o} : \A q : InterruptedBy(e, q)' <=> InterruptedBy(e, q)
  BY <1>6, <1>7 DEF InterruptedBy
<1>28. \A q : /\ Interrupted(q) <=> \E e \in Owners : InterruptedBy(e, q)
              /\ Interrupted(q)' <=> \E e \in Owners : InterruptedBy(e, q)'
  BY DEF Interrupted, InterruptedBy
<1>29. \A q : Interrupted(q)' => Interrupted(q) \/ q \in Concerned(o)
  BY <1>27, <1>28
<1>30. ASSUME NEW s \in Sessions PROVE FrameSound(s)'
  <2>1. FrameSound(s) /\ C!IInv
    BY DEF IInv, Sound
  <2>2. ASSUME claims[s] # None
        PROVE  /\ s \notin blocked'
               /\ \A c \in claims[s].captured :
                    /\ role[c] \in Served => role'[c] \in Served
                    /\ role[c] = "fenced" => role'[c] = "fenced"
               /\ Interrupted(claims[s].lease.run)' =>
                    \/ Interrupted(claims[s].lease.run)
                    \/ \E c \in claims[s].captured : role'[c] = "fenced"
    <3>1. PICK f \in Frames : f = claims[s]
      BY <2>1, <2>2, CoordinatorTypes
    <3>2. f.captured \subseteq Owners /\ f.lease \in Leases
      BY <3>1 DEF Frames
    <3>3. PICK q \in Runs : q = f.lease.run
      BY <3>2, LeaseFields
    <3>4. SessionOf[q] = s /\ runs[q] = None
      <4>1. SessionOf[q] = s /\ sessions[s] = None
        BY <2>1, <2>2, <3>1, <3>3, CoordinatorFacts
      <4> QED
        BY <2>1, <4>1, CoordinatorFacts
    <3>5. s \notin blocked'
      <4>1. s \notin blocked /\ sessions[s] = None
        BY <2>1, <2>2, CoordinatorFacts DEF FrameSound
      <4>2. \A l \in A : sessions[SessionOf[l.run]] = l /\ l # None
        BY <1>4, <2>1, CoordinatorFacts
      <4> QED
        BY <1>3, <4>1, <4>2
    <3>6. \A c \in f.captured :
             /\ role[c] \in Served => role'[c] \in Served
             /\ role[c] = "fenced" => role'[c] = "fenced"
      BY <1>9, <3>2 DEF Served
    <3>7. ASSUME q \in Concerned(o) PROVE \E c \in f.captured : role'[c] = "fenced"
      <4>1. leases[q] # None /\ Bound(o, leases[q]) /\ LeaseSound(q, leases[q])
        BY <1>4, <3>4, <3>7 DEF IInv, Sound, HostSound
      <4>2. leases[q].owner = f.lease.owner /\ LeaseSound(q, f.lease)
        BY <2>1, <2>2, <3>1, <3>3 DEF FrameSound
      <4>3. GenOf[o] \in f.lease.versions
        BY <4>1, <4>2 DEF LeaseSound, Bound
      <4>4. PICK c \in f.captured : GenOf[c] = GenOf[o] /\ role[c] \in Served
        BY <2>1, <2>2, <3>1, <4>3 DEF FrameSound
      <4>5. CASE role[c] = "fenced"
        BY <3>6, <4>5
      <4>6. CASE role[c] # "fenced"
        <5>1. process[c] \in Up
          BY <3>2, <4>4, <4>6 DEF Served, IInv, Sound, OwnersSound, OwnerSound
        <5>2. c = o
          BY <1>2, <3>2, <4>4, <5>1 DEF IInv, Sound, OwnersSound
        <5> QED
          BY <1>9, <5>2
      <4> QED
        BY <4>5, <4>6
    <3>8. Interrupted(claims[s].lease.run)' = Interrupted(q)'
      BY <1>3, <3>1, <3>3 DEF Interrupted
    <3> QED
      BY <1>29, <3>1, <3>3, <3>5, <3>6, <3>7, <3>8
  <2> QED
    BY <1>2, <1>3, <2>1, <2>2, FrameStays
<1>31. OneLease'
  BY <1>2, <1>4, <1>29, OneStays DEF IInv, Sound
<1>32. \A q : Joined(q) => Joined(q)'
  <2> SUFFICES ASSUME NEW q, NEW e \in Owners, InterruptedBy(e, q), interrupted[e].exited
               PROVE  Joined(q)'
    BY DEF Joined
  <2>1. process[e] = "exited"
    BY DEF InterruptedBy, IInv, Sound, OwnersSound, OwnerSound
  <2>2. e # o
    BY <1>2, <2>1 DEF Up
  <2> QED
    BY <1>7, <1>27, <2>2 DEF Joined
<1>33. ASSUME NEW q \in Runs PROVE FenceSound(q)'
  <2>1. FenceSound(q)
    BY DEF IInv, Sound
  <2>2. runs[q] # None => runs[q].owner \in Owners
    BY CoordinatorTypes, LeaseFields DEF IInv
  <2>3. (runs[q] # None => process[runs[q].owner] # "none")'
    BY <1>2, <1>3, <2>1 DEF FenceSound
  <2>4. (runs[q] # None /\ fenced[runs[q].owner] # "none" => InterruptedBy(runs[q].owner, q))'
    <3> SUFFICES ASSUME runs[q] # None, fenced'[runs[q].owner] # "none"
                 PROVE  InterruptedBy(runs[q].owner, q)'
      BY <1>3 DEF InterruptedBy
    <3>1. PICK e \in Owners : e = runs[q].owner
      BY <2>2
    <3>2. ASSUME e = o PROVE InterruptedBy(e, q)'
      <4>1. q \in Concerned(o)
        BY <1>4, <3>1, <3>2
      <4> QED
        BY <1>27, <3>2, <4>1
    <3>3. ASSUME e # o PROVE InterruptedBy(e, q)'
      <4>1. fenced[e] # "none"
        BY <1>17, <3>1, <3>3
      <4>2. InterruptedBy(e, q)
        BY <2>1, <3>1, <4>1 DEF FenceSound
      <4> QED
        BY <1>27, <3>3, <4>2
    <3>4. InterruptedBy(e, q)'
      BY <3>2, <3>3
    <3> QED
      BY <1>3, <3>1, <3>4 DEF InterruptedBy
  <2>5. (runs[q] # None /\ Interrupted(q) => interruptions[q] # {})'
    <3> SUFFICES ASSUME runs[q] # None, Interrupted(q)'
                 PROVE  interruptions'[q] # {}
      BY <1>3
    <3>1. CASE Interrupted(q)
      BY <1>9, <2>1, <3>1 DEF FenceSound
    <3>2. CASE q \in Concerned(o)
      BY <1>4, <1>10, <3>2
    <3> QED
      BY <1>29, <3>1, <3>2
  <2>6. ASSUME NEW e \in Owners, InterruptedBy(e, q)', Active(q)', pending'[q] = "none"
        PROVE  /\ fenced'[e] # "done"
               /\ fenced'[e] = "pending" => \E l \in fencing'[e] : l.run = q
    <3>1. Active(q) /\ pending[q] = "none"
      BY <1>2, <1>11, <2>6
    <3>2. CASE e # o
      <4>1. InterruptedBy(e, q)
        BY <1>27, <2>6, <3>2
      <4> QED
        BY <1>9, <1>17, <2>1, <3>1, <3>2, <4>1 DEF FenceSound
    <3>3. CASE e = o
      <4>1. q \in Concerned(o) /\ leases[q] # None
        <5>1. InterruptedBy(e, q)' => q \in Concerned(o)
          BY <1>27, <3>3
        <5>2. InterruptedBy(e, q)'
          BY <2>6
        <5>3. q \in Concerned(o)
          BY <5>1, <5>2
        <5> QED
          BY <1>4, <5>3
      <4>2. runs[q] # None
        BY <2>1, <3>1, <4>1 DEF FenceSound
      <4>3. runs[q] \in A /\ runs[q].run = q
        BY <1>4, <1>10, <4>1, <4>2
      <4> QED
        BY <1>9, <1>17, <3>3, <4>3
    <3> QED
      BY <3>2, <3>3
  <2>7. (leases[q] # None /\ runs[q] = None /\ pending[q] = "none" =>
            ~Active(q) /\ (db.status[q] = "settled" \/ Joined(q)))'
    BY <1>2, <1>3, <1>11, <1>32, <2>1 DEF FenceSound
  <2> QED
    BY <2>3, <2>4, <2>5, <2>6, <2>7 DEF FenceSound
<1>34. JobSound'
  <2>1. job # None => job.run \in Runs
    BY DEF IInv, Sound, Typed, Jobs
  <2> QED
    BY <1>2, <1>3, <1>11, <1>32, <2>1, JobStays
<1> QED
  BY <1>21, <1>22, <1>23, <1>24, <1>25, <1>26, <1>30, <1>31, <1>33, <1>34 DEF Sound

\* A failed process has exited: its executors are gone, its physical work has
\* ended, and what waited for the end of it is released.
LEMMA Exiting ==
    ASSUME IInv, C!IInv', NEW o \in Owners, Exit(o)
    PROVE  Sound'
<1>1. /\ process[o] = "dead" /\ fenced[o] = "done" /\ C!OwnerExited(o)
      /\ process' = [process EXCEPT ![o] = "exited"]
      /\ stopped' = stopped \cup {r \in Runs : leases[r] # None /\ leases[r].owner = o}
      /\ interrupted' = [interrupted EXCEPT ![o].exited = TRUE]
      /\ work' = [r \in Runs |-> IF work[r] # None /\ work[r].lease.owner = o THEN None
                                                                             ELSE work[r]]
      /\ UNCHANGED << db, replies, drops, leases, pending, handoffs, job, fenced, writes >>
  BY OwnerExitedSame DEF Exit, storage
<1>2. /\ role[o] \notin {"new", "forgotten"} /\ o \notin exited
      /\ exited' = exited \cup {o} /\ role' = [role EXCEPT ![o] = "fenced"]
      /\ \E ts, rs : C!SettleReleases(role', exited', ts, rs)
      /\ UNCHANGED << defaultOf, sessions, runs, claims, revoking, interruptions, stoppedRuns,
                      fencing, fence >>
  BY <1>1 DEF C!OwnerExited
<1>3. OwnerSound(o) /\ role \in [Owners -> C!Roles]
  BY CoordinatorTypes DEF IInv, Sound, OwnersSound
<1>4. role[o] = "fenced" /\ interrupted[o] # None
  <2>1. role[o] \in C!Roles
    BY <1>3
  <2> QED
    BY <1>1, <1>2, <1>3, <2>1 DEF OwnerSound, C!Roles
<1>5. role' = role
  BY <1>2, <1>3, <1>4
<1>6. PICK f \in Faults : f = interrupted[o]
  BY <1>4 DEF IInv, Sound, Typed
<1>7. PICK g : g = [runs |-> f.runs, exited |-> TRUE]
  OBVIOUS
<1>8. g \in Faults /\ g # None /\ g.runs = f.runs /\ g.exited = TRUE
  <2>1. g \in Faults
    BY <1>7 DEF Faults
  <2> QED
    BY <1>7, <2>1, NoneStateAssumption
<1>9. interrupted' = [interrupted EXCEPT ![o] = g]
  <2>1. [f EXCEPT !.exited = TRUE] = g
    <3>1. PICK h : h = [f EXCEPT !.exited = TRUE]
      OBVIOUS
    <3>2. h \in Faults /\ h.runs = f.runs /\ h.exited = TRUE
      BY <3>1 DEF Faults
    <3> QED
      BY <1>7, <3>1, <3>2 DEF Faults
  <2>2. interrupted' = [interrupted EXCEPT ![o] = [f EXCEPT !.exited = TRUE]]
    BY <1>1, <1>6
  <2> QED
    BY <2>1, <2>2
<1>10. /\ interrupted' \in [Owners -> Faults \cup {None}] /\ interrupted'[o] = g
       /\ \A e \in Owners \ {o} : interrupted'[e] = interrupted[e]
  BY <1>8, <1>9 DEF IInv, Sound, Typed
<1>11. \A e \in Owners : /\ interrupted'[e] # None <=> interrupted[e] # None
                         /\ interrupted[e] # None =>
                               /\ interrupted'[e].runs = interrupted[e].runs
                               /\ interrupted[e].exited => interrupted'[e].exited
  <2> SUFFICES ASSUME NEW e \in Owners
               PROVE  /\ interrupted'[e] # None <=> interrupted[e] # None
                      /\ interrupted[e] # None =>
                            /\ interrupted'[e].runs = interrupted[e].runs
                            /\ interrupted[e].exited => interrupted'[e].exited
    OBVIOUS
  <2>1. CASE e = o
    BY <1>4, <1>6, <1>8, <1>10, <2>1
  <2>2. CASE e # o
    BY <1>10, <2>2
  <2> QED
    BY <2>1, <2>2
<1>12. \A e \in Owners : \A q : /\ InterruptedBy(e, q)' <=> InterruptedBy(e, q)
                                /\ InterruptedBy(e, q) /\ interrupted[e].exited =>
                                      InterruptedBy(e, q)' /\ interrupted'[e].exited
  BY <1>11 DEF InterruptedBy
<1>13. \A q : /\ Interrupted(q)' <=> Interrupted(q)
              /\ Joined(q) => Joined(q)'
  BY <1>12 DEF Interrupted, InterruptedBy, Joined
<1>14. \A q \in Runs : Fades(q) /\ Lasts(q) /\ Row(q)' = Row(q) /\ Active(q)' = Active(q)
  BY <1>1, DatabaseRests DEF Fades, Row, Active
<1>15. /\ work' \in [Runs -> Works \cup {None}]
       /\ \A q \in Runs : /\ work'[q] \in {work[q], None}
                          /\ work'[q] # None => work[q].lease.owner # o
  BY <1>1 DEF IInv, Sound, Typed
<1>16. \A q \in Runs : Remembers(q)
  BY <1>1, <1>2, <1>15, WorkRemembers
<1>17. PICK rl, ex, ts, rs : C!SettleReleases(rl, ex, ts, rs)
  BY <1>2
<1>18. /\ CallsSound' /\ OneRevocation' /\ Len(calls) <= Len(calls')
       /\ pendingReleases' \subseteq pendingReleases
       /\ \A s \in blocked' :
             \/ s \in blocked
             \/ claims[s] = None /\ \A q \in Runs : SessionOf[q] = s => ~Executing(q)
  BY <1>1, <1>2, <1>14, <1>16, <1>17, ReleasesSettle
<1>19. /\ process' \in [Owners -> {"none", "alive", "dead", "exited"}]
       /\ process'[o] = "exited" /\ \A e \in Owners \ {o} : process'[e] = process[e]
  BY <1>1 DEF IInv, Sound, Typed
<1>20. Typed'
  <2>1. Len(replies') <= Len(calls')
    <3>1. Len(calls) \in Nat /\ Len(replies) \in Nat /\ Len(replies) <= Len(calls)
      BY CoordinatorTypes DEF IInv, Sound, Typed
    <3>2. calls' \in Seq(C!Calls)
      BY DEF C!IInv, C!TypeOK
    <3>3. Len(calls') \in Nat
      BY <3>2
    <3> QED
      BY <1>1, <1>18, <3>1, <3>3
  <2>2. stopped' \subseteq Runs
    BY <1>1 DEF IInv, Sound, Typed
  <2> QED
    BY <1>1, <1>10, <1>15, <1>19, <2>1, <2>2 DEF IInv, Sound, Typed, FencesHaveMaximum
<1>21. TracesSound'
  BY <1>1, <1>2, <1>14, <1>16, <1>18, TracesRest
<1>22. ASSUME NEW q \in Runs PROVE WorkSound(q)'
  <2>1. WorkSound(q) /\ Lasts(q) /\ Remembers(q)
    BY <1>14, <1>16 DEF IInv, Sound
  <2>2. work[q] # None => work[q].lease.owner \in Owners
    BY WorkFacts
  <2>3. work'[q] # None =>
           /\ work'[q] = work[q] /\ work[q] # None
           /\ process'[work[q].lease.owner] \in Up /\ role'[work[q].lease.owner] \in Served
    <3> SUFFICES ASSUME work'[q] # None
                 PROVE  /\ work'[q] = work[q] /\ work[q] # None
                        /\ process'[work[q].lease.owner] \in Up
                        /\ role'[work[q].lease.owner] \in Served
      OBVIOUS
    <3>1. work'[q] = work[q] /\ work[q] # None /\ work[q].lease.owner # o
      BY <1>15
    <3> QED
      BY <1>5, <1>19, <2>1, <2>2, <3>1 DEF WorkSound
  <2>4. Executing(q) /\ SessionOf[q] \notin blocked => SessionOf[q] \notin blocked'
    BY <1>18
  <2> QED
    BY <1>2, <1>14, <2>1, <2>3, <2>4, WorkStays
<1>23. OwnersSound'
  <2>1. ASSUME NEW e \in Owners PROVE OwnerSound(e)'
    <3>1. OwnerSound(e)
      BY DEF IInv, Sound, OwnersSound
    <3>2. CASE e = o
      <4>1. process'[e] = "exited" /\ role'[e] = "fenced" /\ fenced'[e] = "done"
        BY <1>1, <1>4, <1>5, <1>19, <3>2
      <4>2. interrupted'[e] # None /\ interrupted'[e].exited = TRUE
        BY <1>8, <1>10, <3>2
      <4> QED
        BY <4>1, <4>2 DEF OwnerSound
    <3>3. CASE e # o
      BY <1>1, <1>2, <1>5, <1>10, <1>19, <3>1, <3>3 DEF OwnerSound
    <3> QED
      BY <3>2, <3>3
  <2>2. \A e \in Owners : process'[e] \in Up => process[e] \in Up
    BY <1>19 DEF Up
  <2> QED
    BY <1>2, <2>1, <2>2 DEF IInv, Sound, OwnersSound
<1>24. ASSUME NEW q \in Runs PROVE HostSound(q)'
  <2>1. HostSound(q)
    BY DEF IInv, Sound
  <2>2. pending[q] = "pending" => claims[SessionOf[q]] # None
    BY <2>1 DEF HostSound
  <2> QED
    BY <1>1, <1>2, <1>14, <2>1, <2>2, HostStays
<1>25. ASSUME NEW s \in Sessions PROVE FrameSound(s)'
  <2>1. FrameSound(s)
    BY DEF IInv, Sound
  <2>2. claims[s] # None => s \notin blocked'
    BY <1>18, <2>1 DEF FrameSound
  <2>3. Interrupted(claims[s].lease.run)' <=> Interrupted(claims[s].lease.run)
    <3>1. PICK q : q = claims[s].lease.run
      OBVIOUS
    <3>2. Interrupted(q)' <=> Interrupted(q)
      BY <1>13
    <3> QED
      BY <1>2, <3>1, <3>2 DEF Interrupted
  <2> QED
    BY <1>1, <1>2, <1>5, <2>1, <2>2, <2>3, FrameStays
<1>26. OneLease'
  BY <1>1, <1>13, OneStays DEF IInv, Sound
<1>27. ASSUME NEW q \in Runs PROVE FenceSound(q)'
  <2>1. FenceSound(q)
    BY DEF IInv, Sound
  <2>2. runs[q] # None =>
           /\ runs[q].owner \in Owners
           /\ process'[runs[q].owner] = "none" => process[runs[q].owner] = "none"
    <3> SUFFICES ASSUME runs[q] # None
                 PROVE  /\ runs[q].owner \in Owners
                        /\ process'[runs[q].owner] = "none" => process[runs[q].owner] = "none"
      OBVIOUS
    <3>1. runs[q].owner \in Owners
      BY CoordinatorTypes, LeaseFields DEF IInv
    <3> QED
      BY <1>19, <3>1
  <2>3. \A e \in Owners :
           /\ InterruptedBy(e, q)' = InterruptedBy(e, q)
           /\ interrupted[e] # None => interrupted'[e] # None
           /\ InterruptedBy(e, q) /\ interrupted[e].exited => interrupted'[e].exited
    BY <1>11, <1>12 DEF InterruptedBy
  <2> QED
    BY <1>1, <1>2, <1>14, <2>1, <2>2, <2>3, FenceStays
<1>28. JobSound'
  <2>1. job # None => job.run \in Runs
    BY DEF IInv, Sound, Typed, Jobs
  <2> QED
    BY <1>1, <1>2, <1>13, <1>14, <2>1, JobStays
<1> QED
  BY <1>18, <1>20, <1>21, <1>22, <1>23, <1>24, <1>25, <1>26, <1>27, <1>28 DEF Sound

-----------------------------------------------------------------------------
(* The invariant of the specification.                                      *)

\* Nothing is owned at the startup.
LEMMA InitSound == Init => Sound
<1> SUFFICES ASSUME Init PROVE Sound
  OBVIOUS
<1>1. /\ db = Durable!EmptyDatabase(1) /\ calls = << >> /\ replies = << >> /\ job = None
      /\ \A r \in Runs : /\ leases[r] = None /\ pending[r] = "none" /\ work[r] = None
                         /\ runs[r] = None /\ interruptions[r] = {}
      /\ \A s \in Sessions : claims[s] = None
      /\ \A o \in Owners : /\ interrupted[o] = None /\ fenced[o] = "none" /\ fencing[o] = {}
                           /\ role[o] = IF o \in Startup THEN "default" ELSE "new"
                           /\ process[o] = IF o \in Startup THEN "alive" ELSE "none"
      /\ exited = {} /\ revoking = {} /\ pendingReleases = {} /\ stoppedRuns = {}
      /\ writes = {} /\ handoffs = {}
  BY DEF Init
<1>2. /\ db \in Durable!Databases /\ db.floor = 1
      /\ db.rows = [r \in Runs |-> None] /\ db.status = [r \in Runs |-> "queued"]
  <2>1. 1 \in Nat
    OBVIOUS
  <2> QED
    BY <1>1, <2>1
    DEF Durable!EmptyDatabase, Durable!Databases, Durable!Statuses
<1>3. \A r \in Runs : Row(r) = None /\ ~Active(r) /\ db.status[r] = "queued" /\ ~Executing(r)
  BY <1>1, <1>2 DEF Row, Active, Executing, Stage
<1>4. FencesHaveMaximum
  <2>1. {db.rows[r].lease.fence : r \in {q \in Runs : db.rows[q] # None}} = {}
    BY <1>3 DEF Row
  <2>2. Durable!Fences(db) = {1}
    BY <1>2, <2>1 DEF Durable!Fences
  <2> QED
    BY <2>2 DEF FencesHaveMaximum
<1>5. Typed
  <2>1. replies \in Seq(Replies) /\ Len(replies) <= Len(calls)
    BY <1>1
  <2>2. 0 \in 0..MaxDrops
    BY HandoffAssumption
  <2> QED
    BY <1>2, <1>4, <2>1, <2>2 DEF Init, Typed
<1>6. OwnersSound
  <2>1. ASSUME NEW o \in Owners PROVE OwnerSound(o)
    BY <1>1 DEF OwnerSound, Up
  <2>2. ASSUME NEW u \in Units, defaultOf[u] # None
        PROVE  defaultOf[u] \in Owners /\ UnitOf[GenOf[defaultOf[u]]] = u
    <3>1. \E o \in Owners : o \in Startup /\ UnitOf[GenOf[o]] = u
      BY HandoffAssumption
    <3>2. defaultOf[u] = CHOOSE o \in Owners : o \in Startup /\ UnitOf[GenOf[o]] = u
      BY DEF Init
    <3> QED
      BY <3>1, <3>2
  <2>3. ASSUME NEW o \in Owners, NEW e \in Owners,
               GenOf[o] = GenOf[e], process[o] \in Up, process[e] \in Up
        PROVE  o = e
    BY <1>1, <2>3, HandoffAssumption DEF Up
  <2> QED
    BY <2>1, <2>2, <2>3 DEF OwnersSound
<1>7. ASSUME NEW r \in Runs
      PROVE  HostSound(r) /\ WorkSound(r) /\ FenceSound(r)
  <2>1. SessionOf[r] \in Sessions
    BY LeaseAssumption
  <2>2. \A o \in Owners : ~InterruptedBy(o, r)
    BY <1>1 DEF InterruptedBy
  <2>3. HostSound(r)
    BY <1>1, <1>3, <2>1 DEF HostSound
  <2>4. WorkSound(r)
    BY <1>1 DEF WorkSound
  <2>5. FenceSound(r)
    BY <1>1, <2>2 DEF FenceSound
  <2> QED
    BY <2>3, <2>4, <2>5
<1>8. ASSUME NEW s \in Sessions PROVE FrameSound(s)
  BY <1>1 DEF FrameSound
<1>9. OneLease /\ CallsSound /\ OneRevocation /\ TracesSound /\ JobSound
  BY <1>1 DEF OneLease, CallsSound, OneRevocation, TracesSound, JobSound
<1> QED
  BY <1>5, <1>6, <1>7, <1>8, <1>9 DEF Sound

\* Nothing happens.
LEMMA Stuttering ==
    ASSUME IInv, UNCHANGED vars
    PROVE  Sound'
<1>1. /\ UNCHANGED << role, exited, defaultOf, sessions, runs, claims, blocked, revoking,
                      interruptions, stoppedRuns, fencing, pendingReleases, fence, calls >>
      /\ UNCHANGED << db, replies, drops, leases, pending, interrupted, stopped, handoffs, job,
                      process, fenced, work, writes >>
  BY DEF vars, coordination, storage, ledger, kernels
<1>2. Typed'
  BY <1>1 DEF IInv, Sound, Typed, FencesHaveMaximum
<1> QED
  BY <1>1, <1>2, Plain

\* Every step of the four parties keeps the invariant.
LEMMA StepInv == IInv /\ [Next]_vars => IInv'
<1> SUFFICES ASSUME IInv, [Next]_vars PROVE IInv'
  OBVIOUS
<1>1. C!IInv'
  BY CoordinatorStep
<1>2. CASE PortStep
  <2>1. Sound'
    BY <1>2, ServingCall, Dropping DEF PortStep
  <2> QED
    BY <1>1, <2>1 DEF IInv
<1>3. CASE ReplyStep
  <2>1. Sound'
    BY <1>1, <1>3, ClaimAnswering, UnclaimAnswering, ReleaseAnswering, RevokeAnswering
    DEF ReplyStep
  <2> QED
    BY <1>1, <2>1 DEF IInv
<1>4. ASSUME NEW l \in writes, WriteArrives(l) PROVE Sound'
  BY <1>4, WriteArriving
<1>5. ASSUME NEW l \in handoffs, FinishHandoff(l) \/ FailHandoff(l) PROVE Sound'
  BY <1>5, FinishingHandoff, HandoffFailing
<1>6. ASSUME NEW r \in Runs, RunStep(r) PROVE Sound'
  <2>1. ASSUME NEW o \in Owners, NEW captured \in SUBSET Owners, KernelClaims(o, r, captured)
        PROVE  Sound'
    BY <1>1, <2>1, ClaimMade
  <2>2. CASE Write(r)
    BY <2>2, Writing
  <2>3. CASE Abort(r)
    BY <2>3, Aborting
  <2>4. CASE ReportsStop(r)
    BY <2>4, ReportingStop
  <2>5. CASE Release(r)
    BY <1>1, <2>5, AskingRelease
  <2>6. CASE Cancel(r)
    BY <2>6, Cancelling
  <2>7. CASE ReadRefused(r)
    BY <2>7, ReadRefusing
  <2>8. CASE CallFails(r)
    BY <2>8, CallFailing
  <2>9. ASSUME NEW o \in Owners, NEW c \in CallIds, StartTool(r, c, o) PROVE Sound'
    BY <1>1, <2>9, StartingTool
  <2>10. ASSUME NEW o \in Owners, NEW k \in Keys, StartCommand(r, k, o) PROVE Sound'
    BY <1>1, <2>10, StartingCommand
  <2> QED
    BY <1>6, <2>1, <2>2, <2>3, <2>4, <2>5, <2>6, <2>7, <2>8, <2>9, <2>10 DEF RunStep
<1>7. ASSUME NEW r \in Runs, JobStart(r) PROVE Sound'
  <2>1. CASE StartClaim(r) \/ StartHandoff(r)
    BY <2>1, StartingJob
  <2>2. ASSUME NEW o \in Owners, StartInterrupted(o, r) PROVE Sound'
    BY <1>1, <2>2, StartingInterrupted
  <2> QED
    BY <1>7, <2>1, <2>2 DEF JobStart
<1>8. CASE ActivityEnds
  BY <1>1, <1>8, ActivityEnding DEF ActivityEnds, IInv
<1>9. ASSUME NEW o \in Owners, OwnerStep(o) PROVE Sound'
  <2>1. CASE Prepare(o)
    BY <2>1, Preparing
  <2>2. CASE Activate(o)
    BY <2>2, TakingOver
  <2>3. CASE Die(o)
    BY <2>3, Dying
  <2>4. CASE Fault(o)
    BY <1>1, <2>4, Faulting
  <2>5. CASE Exit(o)
    BY <1>1, <2>5, Exiting
  <2>6. CASE Dispose(o)
    BY <2>6, DisposingOwner
  <2> QED
    BY <1>9, <2>1, <2>2, <2>3, <2>4, <2>5, <2>6 DEF OwnerStep
<1>10. CASE JobStep
  <2>1. Sound'
    BY <1>1, <1>10, ReadingJob, RevokingJob, FreeingJob, RecoveringJob, CleaningJob,
       HandingOffJob, JobFailing DEF JobStep
  <2> QED
    BY <1>1, <2>1 DEF IInv
<1>11. CASE UNCHANGED vars
  BY <1>1, <1>11, Stuttering DEF IInv
<1> QED
  BY <1>1, <1>2, <1>3, <1>4, <1>5, <1>6, <1>7, <1>8, <1>9, <1>10, <1>11 DEF Next, IInv

\* The inductive invariant holds in every reachable state.
THEOREM HandoffInvariant == Spec => []IInv
<1>1. Init => IInv
  BY CoordinatorInit, InitSound DEF IInv
<1> QED
  BY <1>1, StepInv, PTL DEF Spec

-----------------------------------------------------------------------------
(* What the runs check, for every value of the constants.                   *)

\* TypeOK: the Host's and the kernels' state keeps its types, and a pending
\* claim has the lease it waits for.
THEOREM HandoffTypeOK == Spec => []TypeOK
<1>1. IInv => TypeOK
  <2> SUFFICES ASSUME IInv PROVE TypeOK
    OBVIOUS
  <2>1. \A r \in Runs : pending[r] # "none" => leases[r] # None
    BY DEF IInv, Sound, HostSound
  <2> QED
    BY <2>1 DEF IInv, Sound, Typed, TypeOK
<1> QED
  BY <1>1, HandoffInvariant, PTL

\* The coordinator's indexes, pins, deferred releases, gates and capacity hold
\* with the callers and the durable answers it really has.
THEOREM HandoffKeepsCoordinatorCoherent == Spec => []CoordinatorStaysCoherent
<1>1. IInv => CoordinatorStaysCoherent
  BY CoordinatorCoherent DEF IInv
<1> QED
  BY <1>1, HandoffInvariant, PTL

\* OpenSessionIsFree follows: an open session has no Host lease (SessionIdle).
LEMMA OpenIsFree == IInv => OpenSessionIsFree
<1> SUFFICES ASSUME IInv, NEW s \in Sessions, Open(s), NEW r \in RunsOf(s)
             PROVE  ~Durable!ActiveRow(db, r) /\ db.status[r] # "running" /\ ~Executing(r)
  BY DEF OpenSessionIsFree
<1>1. CanWake(s) /\ C!SessionFree(s)
  BY DEF Open, Coordinator!SessionFree, C!SessionFree
<1>2. r \in Runs /\ SessionOf[r] = s
  BY DEF RunsOf
<1>3. ~Active(r) /\ db.status[r] # "running" /\ ~Executing(r)
  BY <1>1, <1>2, SessionIdle
<1> QED
  BY <1>3 DEF Active, Row, Durable!ActiveRow

\* OpenSessionIsFree: a session that would be given to the next run has no
\* authority in force, no running run and no executor.
THEOREM OpenSessionsAreFree == Spec => []OpenSessionIsFree
BY OpenIsFree, HandoffInvariant, PTL

\* RecoveryIsClear follows: a run at this stage is not registered, so nobody executes it.
LEMMA RecoveryMeetsNobody == IInv => RecoveryIsClear
<1> SUFFICES ASSUME IInv, JobAt("recover")
             PROVE  ~Durable!ActiveRow(db, job.run) /\ ~Executing(job.run)
  BY DEF RecoveryIsClear
<1>1. job # None /\ job.stage = "recover"
  BY DEF JobAt
<1>2. PICK r \in Runs : r = job.run
  BY <1>1 DEF IInv, Sound, Typed, Jobs
<1>3. ~Active(r) /\ runs[r] = None
  BY <1>1, <1>2 DEF IInv, Sound, JobSound
<1>4. ~Executing(r)
  <2>1. work[r] # None /\ work[r].stage # "releasing" => runs[r] # None
    BY WorkFacts
  <2> QED
    BY <1>3, <2>1 DEF Executing, Stage
<1> QED
  BY <1>2, <1>3, <1>4 DEF Active, Row, Durable!ActiveRow

\* RecoveryIsClear: recovery never meets an authority in force or an executor.
THEOREM RecoveriesAreClear == Spec => []RecoveryIsClear
BY RecoveryMeetsNobody, HandoffInvariant, PTL

\* LostAuthorityIsAcknowledged follows: an executor loses its authority only to a
\* fault that is still on record.
LEMMA LossAcknowledged == IInv => LostAuthorityIsAcknowledged
<1> SUFFICES ASSUME IInv, NEW r \in Runs, At(r, "stopping") PROVE StopAcceptable(r)
  BY DEF LostAuthorityIsAcknowledged
<1>1. work[r] # None /\ work[r].stage = "stopping" /\ Executing(r)
  BY DEF At, Stage, Executing
<1>2. WorkSound(r) /\ runs[r] = work[r].lease /\ runs[r] # None
  BY <1>1, WorkFacts DEF IInv, Sound
<1> QED
  BY <1>1, <1>2 DEF WorkSound, StopAcceptable

\* LostAuthorityIsAcknowledged: an executor that was aborted, or whose write or
\* read the coordinator or the database refused, can report its stop.  Nothing
\* is said of one that the port failed: its report may be refused (ReportsStop).
THEOREM LossIsAlwaysAcknowledged == Spec => []LostAuthorityIsAcknowledged
BY LossAcknowledged, HandoffInvariant, PTL

\* RevocationsAreAccepted follows from what is known of each call and its answer.
LEMMA RevocationsAccepted == IInv => RevocationsAreAccepted
<1> SUFFICES ASSUME IInv, NEW i \in DOMAIN replies, calls[i].op \in {"revoke", "unclaim"}
             PROVE  replies[i].kind # "refused"
  BY DEF RevocationsAreAccepted
<1>1. i \in DOMAIN calls
  <2>1. /\ calls \in Seq(Calls) /\ replies \in Seq(Replies) /\ Len(replies) <= Len(calls)
    BY CoordinatorTypes DEF IInv, Sound, Typed
  <2>2. /\ DOMAIN calls = 1..Len(calls) /\ DOMAIN replies = 1..Len(replies)
        /\ Len(calls) \in Nat /\ Len(replies) \in Nat
    BY <2>1
  <2> QED
    BY <2>1, <2>2
<1>2. CallSound(calls[i], AnswerTo(i)) /\ AnswerTo(i) = replies[i]
  BY <1>1, CallFacts DEF AnswerTo
<1> QED
  BY <1>2 DEF CallSound, RevokeSound, UnclaimSound

\* RevocationsAreAccepted: the storage refuses no revocation of the coordinator.
THEOREM RevocationsAreNeverRefused == Spec => []RevocationsAreAccepted
BY RevocationsAccepted, HandoffInvariant, PTL

\* HandoffIsSafe: all of them at once.
THEOREM HandoffSafe == Spec => []HandoffIsSafe
<1>1. IInv => HandoffIsSafe
  BY OpenIsFree, RecoveryMeetsNobody, LossAcknowledged, RevocationsAccepted, CoordinatorCoherent
  DEF HandoffIsSafe, IInv
<1> QED
  BY <1>1, HandoffInvariant, PTL

-----------------------------------------------------------------------------
(* The promise of ExecutionAuthority, step by step.                         *)

Authorised == {r \in Runs : Durable!ActiveRow(db, r)}
Executors  == {r \in Runs : Executing(r)}
Ended      == {r \in Runs : db.status[r] = "settled"}

\* The run r is the same in the abstract state.
Unmoved(r) ==
    /\ Active(r)' <=> Active(r)
    /\ Executing(r)' <=> Executing(r)
    /\ db'.status[r] = "settled" <=> db.status[r] = "settled"

\* A step of ExecutionAuthority, or none.
Promised == Authority!Next \/ UNCHANGED Authority!vars

\* The abstract state after a step, set by set.
LEMMA AuthorisedAfter ==
    ASSUME NEW S \in SUBSET Runs, \A q \in Runs : Active(q)' <=> q \in S
    PROVE  Authorised' = S
BY DEF Authorised, Active, Row, Durable!ActiveRow

\* Those that are executed.
LEMMA ExecutorsAfter ==
    ASSUME NEW S \in SUBSET Runs, \A q \in Runs : Executing(q)' <=> q \in S
    PROVE  Executors' = S
BY DEF Executors

\* Those that have ended.
LEMMA EndedAfter ==
    ASSUME NEW S \in SUBSET Runs, \A q \in Runs : db'.status[q] = "settled" <=> q \in S
    PROVE  Ended' = S
BY DEF Ended

\* The three sets, run by run.
LEMMA AbstractState ==
    /\ Authorised \in SUBSET Runs /\ Executors \in SUBSET Runs /\ Ended \in SUBSET Runs
    /\ \A q \in Runs : /\ Active(q) <=> q \in Authorised
                       /\ Executing(q) <=> q \in Executors
                       /\ db.status[q] = "settled" <=> q \in Ended
BY DEF Authorised, Executors, Ended, Active, Row, Durable!ActiveRow

\* No abstract step: every run is as before.
LEMMA NothingPromised ==
    ASSUME \A q \in Runs : Unmoved(q)
    PROVE  Promised
<1>1. PICK A \in SUBSET Runs, E \in SUBSET Runs, D \in SUBSET Runs :
         A = Authorised /\ E = Executors /\ D = Ended
  BY AbstractState
<1>2. Authorised' = A /\ Executors' = E /\ Ended' = D
  BY <1>1, AbstractState, AuthorisedAfter, ExecutorsAfter, EndedAfter DEF Unmoved
<1>3. UNCHANGED << Authorised, Executors, Ended >>
  BY <1>1, <1>2
<1> QED
  BY <1>3 DEF Promised, Authority!vars, Authorised, Executors, Ended

\* Grant: a queued run gets the authority of a vacant session.
LEMMA GrantPromised ==
    ASSUME NEW r \in Runs, db.status[r] # "settled", db'.status[r] # "settled",
           \A q \in Runs : SessionOf[q] = SessionOf[r] => ~Active(q) /\ ~Executing(q),
           Active(r)', ~Executing(r)', \A q \in Runs \ {r} : Unmoved(q)
    PROVE  Promised
<1>1. PICK A \in SUBSET Runs, E \in SUBSET Runs, D \in SUBSET Runs :
         A = Authorised /\ E = Executors /\ D = Ended
  BY AbstractState
<1>2. Authorised' = A \cup {r}
  <2>1. \A q \in Runs : Active(q)' <=> q \in A \cup {r}
    <3> SUFFICES ASSUME NEW q \in Runs PROVE Active(q)' <=> q \in A \cup {r}
      OBVIOUS
    <3>1. CASE q = r
      BY <3>1
    <3>2. CASE q # r
      BY <1>1, <3>2, AbstractState DEF Unmoved
    <3> QED
      BY <3>1, <3>2
  <2>2. A \cup {r} \in SUBSET Runs
    OBVIOUS
  <2> QED
    BY <2>1, <2>2, AuthorisedAfter
<1>3. Executors' = E /\ Ended' = D
  <2>1. ~Executing(r) /\ r \notin E /\ r \notin D
    BY <1>1, AbstractState
  <2>2. \A q \in Runs : Executing(q)' <=> q \in E
    BY <1>1, <2>1, AbstractState DEF Unmoved
  <2>3. \A q \in Runs : db'.status[q] = "settled" <=> q \in D
    BY <1>1, <2>1, AbstractState DEF Unmoved
  <2> QED
    BY <2>2, <2>3, ExecutorsAfter, EndedAfter
<1>4. r \notin Ended /\ {q \in Runs : SessionOf[q] = SessionOf[r]} \cap (Authorised \cup Executors) = {}
  BY AbstractState
<1>5. Authority!Vacant(r)
  BY <1>4 DEF Authority!Vacant, Authority!SameSession, Authorised, Executors
<1>6. /\ Authorised' = Authorised \cup {r} /\ UNCHANGED << Executors, Ended >>
  BY <1>1, <1>2, <1>3
<1>7. Authority!Grant(r)
  BY <1>4, <1>5, <1>6 DEF Authority!Grant, Authorised, Executors, Ended
<1> QED
  BY <1>7 DEF Promised, Authority!Next

\* Start: a run with authority gets its executor.
LEMMA StartPromised ==
    ASSUME NEW r \in Runs, Active(r), Active(r)', Executing(r)',
           db'.status[r] = "settled" <=> db.status[r] = "settled",
           \A q \in Runs \ {r} : Unmoved(q)
    PROVE  Promised
<1>1. PICK A \in SUBSET Runs, E \in SUBSET Runs, D \in SUBSET Runs :
         A = Authorised /\ E = Executors /\ D = Ended
  BY AbstractState
<1>2. Executors' = E \cup {r}
  <2>1. \A q \in Runs : Executing(q)' <=> q \in E \cup {r}
    <3> SUFFICES ASSUME NEW q \in Runs PROVE Executing(q)' <=> q \in E \cup {r}
      OBVIOUS
    <3>1. CASE q = r
      BY <3>1
    <3>2. CASE q # r
      BY <1>1, <3>2, AbstractState DEF Unmoved
    <3> QED
      BY <3>1, <3>2
  <2>2. E \cup {r} \in SUBSET Runs
    OBVIOUS
  <2> QED
    BY <2>1, <2>2, ExecutorsAfter
<1>3. Authorised' = A /\ Ended' = D
  BY <1>1, AbstractState, AuthorisedAfter, EndedAfter DEF Unmoved
<1>4. r \in Authorised /\ Executors' = Executors \cup {r} /\ UNCHANGED << Authorised, Ended >>
  BY <1>1, <1>2, <1>3, AbstractState
<1>5. Authority!Start(r)
  BY <1>4 DEF Authority!Start, Authorised, Executors, Ended
<1> QED
  BY <1>5 DEF Promised, Authority!Next

\* Finish: a run with authority ends, with its executor or before it.
LEMMA FinishPromised ==
    ASSUME NEW r \in Runs, Active(r), Active(r)', db'.status[r] = "settled",
           Executing(r)' => Executing(r),
           \A q \in Runs \ {r} : Unmoved(q)
    PROVE  Promised
<1>1. PICK A \in SUBSET Runs, E \in SUBSET Runs, D \in SUBSET Runs :
         A = Authorised /\ E = Executors /\ D = Ended
  BY AbstractState
<1>2. Authorised' = A /\ Ended' = D \cup {r}
  <2>1. \A q \in Runs : Active(q)' <=> q \in A
    BY <1>1, AbstractState DEF Unmoved
  <2>2. Authorised' = A
    BY <2>1, AuthorisedAfter
  <2>3. Ended' = D \cup {r}
    <3>1. \A q \in Runs : db'.status[q] = "settled" <=> q \in D \cup {r}
      <4> SUFFICES ASSUME NEW q \in Runs PROVE db'.status[q] = "settled" <=> q \in D \cup {r}
        OBVIOUS
      <4>1. CASE q = r
        BY <4>1
      <4>2. CASE q # r
        BY <1>1, <4>2, AbstractState DEF Unmoved
      <4> QED
        BY <4>1, <4>2
    <3>2. D \cup {r} \in SUBSET Runs
      OBVIOUS
    <3> QED
      BY <3>1, <3>2, EndedAfter
  <2> QED
    BY <2>2, <2>3
<1>3. Executors' \in {E, E \ {r}}
  <2>1. CASE Executing(r)'
    BY <1>1, <2>1, AbstractState, ExecutorsAfter DEF Unmoved
  <2>2. CASE ~Executing(r)'
    <3>1. Executors' = E \ {r}
      <4>1. \A q \in Runs : Executing(q)' <=> q \in E \ {r}
        <5> SUFFICES ASSUME NEW q \in Runs PROVE Executing(q)' <=> q \in E \ {r}
          OBVIOUS
        <5>1. CASE q = r
          BY <5>1, <2>2
        <5>2. CASE q # r
          BY <1>1, <5>2, AbstractState DEF Unmoved
        <5> QED
          BY <5>1, <5>2
      <4>2. E \ {r} \in SUBSET Runs
        OBVIOUS
      <4> QED
        BY <4>1, <4>2, ExecutorsAfter
    <3> QED
      BY <3>1
  <2> QED
    BY <2>1, <2>2
<1>4. /\ r \in Authorised /\ Ended' = Ended \cup {r} /\ UNCHANGED Authorised
      /\ Executors' \in {Executors, Executors \ {r}}
  BY <1>1, <1>2, <1>3, AbstractState
<1>5. Authority!Finish(r)
  BY <1>4 DEF Authority!Finish, Authorised, Executors, Ended
<1> QED
  BY <1>5 DEF Promised, Authority!Next

\* Withdraw: authorities end.
LEMMA WithdrawPromised ==
    ASSUME \A q \in Runs : /\ Active(q)' => Active(q)
                           /\ Executing(q)' <=> Executing(q)
                           /\ db'.status[q] = "settled" <=> db.status[q] = "settled"
    PROVE  Promised
<1>1. PICK A \in SUBSET Runs, E \in SUBSET Runs, D \in SUBSET Runs :
         A = Authorised /\ E = Executors /\ D = Ended
  BY AbstractState
<1>2. PICK S \in SUBSET Runs : \A q \in Runs : Active(q)' <=> q \in S
  <2>1. \E S \in SUBSET Runs : \A q \in Runs : q \in S <=> Active(q)'
    <3> WITNESS {q \in Runs : Active(q)'} \in SUBSET Runs
    <3> QED
      OBVIOUS
  <2> QED
    BY <2>1
<1>3. Authorised' = S /\ S \subseteq A
  BY <1>1, <1>2, AbstractState, AuthorisedAfter
<1>4. Executors' = E /\ Ended' = D
  BY <1>1, AbstractState, ExecutorsAfter, EndedAfter
<1>5. /\ A \ S \subseteq Authorised /\ Authorised' = Authorised \ (A \ S)
      /\ UNCHANGED << Executors, Ended >>
  BY <1>1, <1>3, <1>4
<1>6. Authority!Withdraw(A \ S)
  BY <1>5 DEF Authority!Withdraw, Authorised, Executors, Ended
<1>7. A \ S \in SUBSET Runs
  OBVIOUS
<1> QED
  BY <1>6, <1>7 DEF Promised, Authority!Next

\* Stop: executors end.
LEMMA StopPromised ==
    ASSUME \A q \in Runs : /\ Active(q)' <=> Active(q)
                           /\ Executing(q)' => Executing(q)
                           /\ db'.status[q] = "settled" <=> db.status[q] = "settled"
    PROVE  Promised
<1>1. PICK A \in SUBSET Runs, E \in SUBSET Runs, D \in SUBSET Runs :
         A = Authorised /\ E = Executors /\ D = Ended
  BY AbstractState
<1>2. PICK S \in SUBSET Runs : \A q \in Runs : Executing(q)' <=> q \in S
  <2>1. \E S \in SUBSET Runs : \A q \in Runs : q \in S <=> Executing(q)'
    <3> WITNESS {q \in Runs : Executing(q)'} \in SUBSET Runs
    <3> QED
      OBVIOUS
  <2> QED
    BY <2>1
<1>3. Executors' = S /\ S \subseteq E
  BY <1>1, <1>2, AbstractState, ExecutorsAfter
<1>4. Authorised' = A /\ Ended' = D
  BY <1>1, AbstractState, AuthorisedAfter, EndedAfter
<1>5. /\ E \ S \subseteq Executors /\ Executors' = Executors \ (E \ S)
      /\ UNCHANGED << Authorised, Ended >>
  BY <1>1, <1>3, <1>4
<1>6. Authority!Stop(E \ S)
  BY <1>5 DEF Authority!Stop, Authorised, Executors, Ended
<1>7. E \ S \in SUBSET Runs
  OBVIOUS
<1> QED
  BY <1>6, <1>7 DEF Promised, Authority!Next

\* Conclude: a run that nobody owns or executes is ended.
LEMMA ConcludePromised ==
    ASSUME NEW r \in Runs, ~Active(r), ~Executing(r), ~Active(r)', ~Executing(r)',
           db'.status[r] = "settled", \A q \in Runs \ {r} : Unmoved(q)
    PROVE  Promised
<1>1. PICK A \in SUBSET Runs, E \in SUBSET Runs, D \in SUBSET Runs :
         A = Authorised /\ E = Executors /\ D = Ended
  BY AbstractState
<1>2. Authorised' = A /\ Executors' = E
  BY <1>1, AbstractState, AuthorisedAfter, ExecutorsAfter DEF Unmoved
<1>3. Ended' = D \cup {r}
  <2>1. \A q \in Runs : db'.status[q] = "settled" <=> q \in D \cup {r}
    <3> SUFFICES ASSUME NEW q \in Runs PROVE db'.status[q] = "settled" <=> q \in D \cup {r}
      OBVIOUS
    <3>1. CASE q = r
      BY <3>1
    <3>2. CASE q # r
      BY <1>1, <3>2, AbstractState DEF Unmoved
    <3> QED
      BY <3>1, <3>2
  <2>2. D \cup {r} \in SUBSET Runs
    OBVIOUS
  <2> QED
    BY <2>1, <2>2, EndedAfter
<1>4. /\ r \notin Authorised \cup Executors /\ Ended' = Ended \cup {r}
      /\ UNCHANGED << Authorised, Executors >>
  BY <1>1, <1>2, <1>3, AbstractState
<1>5. Authority!Conclude(r)
  BY <1>4 DEF Authority!Conclude, Authorised, Executors, Ended
<1> QED
  BY <1>5 DEF Promised, Authority!Next

-----------------------------------------------------------------------------
(* Each step of the four parties is a step of the promise, or none.         *)

\* A step that neither the database nor an executor takes.
LEMMA PromiseRests ==
    ASSUME UNCHANGED << db, work >>
    PROVE  Promised
<1>1. \A q \in Runs : Unmoved(q)
  BY DEF Unmoved, Active, Row, Executing, Stage
<1> QED
  BY <1>1, NothingPromised

\* Executors stop, or go on without a new one.
LEMMA WorkPromised ==
    ASSUME UNCHANGED db, \A q \in Runs : Executing(q)' => Executing(q)
    PROVE  Promised
<1>1. \A q \in Runs : /\ Active(q)' <=> Active(q)
                      /\ db'.status[q] = "settled" <=> db.status[q] = "settled"
  BY DEF Active, Row
<1> QED
  BY <1>1, StopPromised

\* A run ends in the database.
LEMMA RunEnds ==
    ASSUME IInv, NEW r \in Runs, db' = [db EXCEPT !.status[r] = "settled"]
    PROVE  /\ db'.status[r] = "settled"
           /\ \A q \in Runs : Active(q)' <=> Active(q)
           /\ \A q \in Runs \ {r} : db'.status[q] = db.status[q]
<1>1. PICK d : d = [db EXCEPT !.status[r] = "settled"]
  OBVIOUS
<1>2. /\ d.rows = db.rows /\ d.status[r] = "settled"
      /\ \A q \in Runs \ {r} : d.status[q] = db.status[q]
  BY <1>1, SettledEffect DEF IInv, Sound
<1>3. db' = d
  BY <1>1
<1>4. db'.rows = db.rows
  BY <1>2, <1>3
<1> QED
  BY <1>2, <1>3, <1>4 DEF Active, Row

\* Nobody executes a run that is not registered.
LEMMA UnregisteredIdle ==
    ASSUME IInv, NEW r \in Runs, runs[r] = None
    PROVE  ~Executing(r)
<1>1. work[r] # None => work[r].stage = "releasing"
  BY WorkFacts
<1> QED
  BY <1>1 DEF Executing, Stage

\* An executor's own steps start no other.
LEMMA ExecutorStepPromised ==
    ASSUME IInv, NEW r \in Runs,
           \/ Write(r) \/ ReadRefused(r) \/ CallFails(r)
           \/ Abort(r) \/ ReportsStop(r) \/ Release(r)
    PROVE  Promised
<1>1. UNCHANGED db
  BY DEF Write, ReadRefused, CallFails, Abort, ReportsStop, Release, storage
<1>2. work \in [Runs -> Works \cup {None}]
  BY DEF IInv, Sound, Typed
<1>3. \/ UNCHANGED work
      \/ Executing(r) /\ \E stage : work' = [work EXCEPT ![r].stage = stage]
      \/ work' = [work EXCEPT ![r].stage = "releasing"]
      \/ work' = [work EXCEPT ![r] = None]
  BY DEF Write, ReadRefused, CallFails, Abort, ReportsStop, Release, Advance, Leave, At, Executing
<1>4. work[r] # None
  BY DEF Write, ReadRefused, CallFails, Abort, ReportsStop, Release, At, Stage
<1>5. \A q \in Runs \ {r} : work'[q] = work[q]
  BY <1>2, <1>3
<1>6. Executing(r)' => Executing(r)
  <2>1. CASE work' = [work EXCEPT ![r].stage = "releasing"]
    <3>1. "releasing" \in Stages
      BY DEF Stages
    <3>2. work'[r].stage = "releasing"
      BY <1>4, <2>1, <3>1, AdvanceFacts
    <3> QED
      BY <3>2 DEF Executing, Stage
  <2>2. CASE work' = [work EXCEPT ![r] = None]
    BY <1>2, <2>2 DEF Executing, Stage
  <2>3. CASE UNCHANGED work
    BY <2>3 DEF Executing, Stage
  <2> QED
    BY <1>3, <2>1, <2>2, <2>3
<1>7. \A q \in Runs : Executing(q)' => Executing(q)
  BY <1>5, <1>6 DEF Executing, Stage
<1> QED
  BY <1>1, <1>7, WorkPromised

\* The answer to a release and the exit of a process end executors.
LEMMA ReleaseAnswerPromised ==
    ASSUME IInv, ReleaseAnswered
    PROVE  Promised
<1>1. PICK r : r = Head(calls).lease.run
  OBVIOUS
<1>2. UNCHANGED db /\ (UNCHANGED work \/ work' = [work EXCEPT ![r] = None])
  BY <1>1 DEF ReleaseAnswered
<1>3. work \in [Runs -> Works \cup {None}]
  BY DEF IInv, Sound, Typed
<1>4. \A q \in Runs : work'[q] \in {work[q], None}
  BY <1>2, <1>3
<1>5. \A q \in Runs : Executing(q)' => Executing(q)
  BY <1>4 DEF Executing, Stage
<1> QED
  BY <1>2, <1>5, WorkPromised

\* The exit of a process ends its executors.
LEMMA ExitPromised ==
    ASSUME IInv, NEW o \in Owners, Exit(o)
    PROVE  Promised
<1>1. UNCHANGED db /\ \A q \in Runs : work'[q] \in {work[q], None}
  BY DEF Exit, storage
<1>2. \A q \in Runs : Executing(q)' => Executing(q)
  BY <1>1 DEF Executing, Stage
<1> QED
  BY <1>1, <1>2, WorkPromised

\* A granted lease starts the executor of its run while its row is active.
LEMMA ClaimAnswerPromised ==
    ASSUME IInv, ClaimAnswered
    PROVE  Promised
<1>1. PICK c \in Calls, a \in Replies :
         c = Head(calls) /\ replies # << >> /\ c.op = "claim" /\ ClaimSound(c, a) /\ Reply = a
  BY ClaimAnswerRests
<1>2. PICK r \in Runs : r = c.lease.run /\ c.lease \in Leases
  <2>1. 1 \in DOMAIN calls /\ c = calls[1]
    BY <1>1, HeadAnswer
  <2> QED
    BY <1>1, <2>1, CallFacts
<1>3. UNCHANGED db
  BY DEF ClaimAnswered
<1>4. \/ UNCHANGED work
      \/ /\ a.kind = "lease"
         /\ work' = [work EXCEPT ![r] = [lease |-> a.lease, stage |-> "running"]]
  BY <1>1, <1>2 DEF ClaimAnswered
<1>5. CASE UNCHANGED work
  BY <1>3, <1>5, PromiseRests
<1>6. CASE /\ a.kind = "lease"
           /\ work' = [work EXCEPT ![r] = [lease |-> a.lease, stage |-> "running"]]
  <2>1. a.lease \in Leases /\ Active(r)
    BY <1>1, <1>2, <1>6, GrantedLease
  <2>2. PICK w : w = [lease |-> a.lease, stage |-> "running"]
    OBVIOUS
  <2>3. w \in Works /\ w.stage = "running"
    BY <2>1, <2>2 DEF Works, Stages
  <2>4. w # None
    BY <2>3, NoneStateAssumption
  <2>5. work'[r] = w /\ \A q \in Runs \ {r} : work'[q] = work[q]
    BY <1>6, <2>2 DEF IInv, Sound, Typed
  <2>6. Executing(r)'
    BY <2>3, <2>4, <2>5 DEF Executing, Stage
  <2>7. Active(r)' /\ (db'.status[r] = "settled" <=> db.status[r] = "settled")
    BY <1>3, <2>1 DEF Active, Row
  <2>8. \A q \in Runs \ {r} : Unmoved(q)
    BY <1>3, <2>5 DEF Unmoved, Active, Row, Executing, Stage
  <2> QED
    BY <2>1, <2>6, <2>7, <2>8, StartPromised
<1> QED
  BY <1>4, <1>5, <1>6

\* A final write ends its run if its authority is in force, and else only stops
\* the executor.
LEMMA WritePromised ==
    ASSUME IInv, NEW l \in writes, WriteArrives(l)
    PROVE  Promised
<1>1. l \in Leases /\ Known(l)
  BY DEF IInv, Sound, Typed, TracesSound
<1>2. PICK r \in Runs : r = l.run
  BY <1>1, LeaseFields
<1>3. PICK x : x = Durable!SettleIn(db, l)
  OBVIOUS
<1>4. /\ db' = x.db
      /\ \/ UNCHANGED work
         \/ /\ work[r] = [lease |-> l, stage |-> "writing"]
            /\ \E stage \in Stages : work' = [work EXCEPT ![r].stage = stage]
  BY <1>2, <1>3 DEF WriteArrives, Advance, Stages
<1>5. /\ \A q \in Runs \ {r} : work'[q] = work[q]
      /\ Executing(r)' => Executing(r)
  <2>1. CASE UNCHANGED work
    BY <2>1 DEF Executing, Stage
  <2>2. ASSUME NEW stage \in Stages, work' = [work EXCEPT ![r].stage = stage],
               work[r] = [lease |-> l, stage |-> "writing"]
        PROVE  /\ \A q \in Runs \ {r} : work'[q] = work[q]
               /\ Executing(r)
    <3>1. [lease |-> l, stage |-> "writing"] \in Works
      BY <1>1 DEF Works, Stages
    <3>2. work[r] # None
      BY <2>2, <3>1, NoneStateAssumption
    <3>3. \A q \in Runs \ {r} : work'[q] = work[q]
      BY <2>2, <3>2, AdvanceFacts
    <3> QED
      BY <2>2, <3>2, <3>3 DEF Executing, Stage
  <2> QED
    BY <1>4, <2>1, <2>2
<1>6. CASE Active(r)
  <2>1. db' = [db EXCEPT !.status[r] = "settled"]
    BY <1>1, <1>2, <1>3, <1>4, <1>6
    DEF Known, Durable!SettleIn, Durable!SameLease, Durable!ActiveRow, Durable!Ok, Active, Row
  <2>2. /\ db'.status[r] = "settled" /\ Active(r)'
        /\ \A q \in Runs : Active(q)' <=> Active(q)
        /\ \A q \in Runs \ {r} : db'.status[q] = db.status[q]
    BY <1>6, <2>1, RunEnds
  <2>3. \A q \in Runs \ {r} : Unmoved(q)
    BY <1>5, <2>2 DEF Unmoved, Executing, Stage
  <2> QED
    BY <1>5, <1>6, <2>2, <2>3, FinishPromised
<1>7. CASE ~Active(r)
  <2>1. ~Durable!ActiveRow(db, l.run)
    BY <1>2, <1>7 DEF Durable!ActiveRow, Active, Row
  <2>2. UNCHANGED db
    BY <1>3, <1>4, <2>1 DEF Durable!SettleIn, Durable!Refused
  <2>3. \A q \in Runs : Executing(q)' => Executing(q)
    BY <1>5 DEF Executing, Stage
  <2> QED
    BY <2>2, <2>3, WorkPromised
<1> QED
  BY <1>6, <1>7

\* A queued run that is cancelled has no authority and no executor.
LEMMA CancelPromised ==
    ASSUME IInv, NEW r \in Runs, Cancel(r)
    PROVE  Promised
<1>1. db' = [db EXCEPT !.status[r] = "settled"] /\ db.status[r] = "queued" /\ UNCHANGED work
  BY DEF Cancel, kernels
<1>2. Row(r) = None
  BY <1>1 DEF IInv, Sound, HostSound
<1>3. ~Active(r) /\ ~Executing(r)
  <2>1. work[r] = None
    BY <1>2, WorkFacts DEF Known, Past
  <2> QED
    BY <1>2, <2>1 DEF Active, Executing, Stage
<1>4. /\ db'.status[r] = "settled" /\ \A q \in Runs : Active(q)' <=> Active(q)
      /\ \A q \in Runs \ {r} : db'.status[q] = db.status[q]
  BY <1>1, RunEnds
<1>5. \A q \in Runs \ {r} : Unmoved(q)
  BY <1>1, <1>4 DEF Unmoved, Executing, Stage
<1>6. ~Active(r)' /\ ~Executing(r)'
  BY <1>1, <1>3, <1>4 DEF Executing, Stage
<1> QED
  BY <1>3, <1>4, <1>5, <1>6, ConcludePromised

\* Recovery ends a run that nobody owns or executes.
LEMMA RecoverPromised ==
    ASSUME IInv, JobRecover
    PROVE  Promised
<1>1. job # None /\ job.stage = "recover" /\ UNCHANGED work
  BY DEF JobRecover, JobAt, kernels
<1>2. PICK r \in Runs : r = job.run /\ JobClaims(r, "recover")
  BY <1>1, JobWas
<1>3. ~Active(r) /\ ~Executing(r)
  BY <1>2, UnregisteredIdle DEF JobClaims
<1>4. \/ UNCHANGED db
      \/ db' = [db EXCEPT !.status[r] = "settled"]
  <2>1. db' = Durable!RecoverIn(db, r).db
    BY <1>2 DEF JobRecover
  <2> QED
    BY <2>1 DEF Durable!RecoverIn, Durable!Ok, Durable!Refused
<1>5. CASE UNCHANGED db
  BY <1>1, <1>5, PromiseRests
<1>6. CASE db' = [db EXCEPT !.status[r] = "settled"]
  <2>1. /\ db'.status[r] = "settled" /\ \A q \in Runs : Active(q)' <=> Active(q)
        /\ \A q \in Runs \ {r} : db'.status[q] = db.status[q]
    BY <1>6, RunEnds
  <2>2. \A q \in Runs \ {r} : Unmoved(q)
    BY <1>1, <2>1 DEF Unmoved, Executing, Stage
  <2>3. ~Active(r)' /\ ~Executing(r)'
    BY <1>1, <1>3, <2>1 DEF Executing, Stage
  <2> QED
    BY <1>3, <2>1, <2>2, <2>3, ConcludePromised
<1> QED
  BY <1>4, <1>5, <1>6

\* A revocation in the database withdraws the authorities of its batch.
LEMMA AuthoritiesWithdrawn ==
    ASSUME IInv, NEW o \in Owners, NEW batch \in SUBSET Runs,
           \A r \in batch : Revocable(o, r),
           NEW x, x = Durable!RevokeIn(db, o, batch), db' = x.db, UNCHANGED work
    PROVE  Promised
<1>1. Typed
  BY DEF IInv, Sound
<1>2. /\ db'.status = db.status
      /\ \A q \in Runs : db'.rows[q] = IF q \in batch /\ Active(q)
                                       THEN [lease |-> Row(q).lease, state |-> "revoked"]
                                       ELSE Row(q)
  BY <1>1, RevokeEffect
<1>3. ASSUME NEW q \in Runs, Active(q)' PROVE Active(q)
  <2>1. CASE q \in batch /\ Active(q)
    BY <2>1
  <2>2. CASE ~(q \in batch /\ Active(q))
    BY <1>2, <1>3, <2>2 DEF Active, Row
  <2> QED
    BY <2>1, <2>2
<1>4. \A q \in Runs : /\ Active(q)' => Active(q)
                      /\ Executing(q)' <=> Executing(q)
                      /\ db'.status[q] = "settled" <=> db.status[q] = "settled"
  BY <1>2, <1>3 DEF Executing, Stage
<1> QED
  BY <1>4, WithdrawPromised

\* A reconciled claim loses its authority.
LEMMA RevokePromised ==
    ASSUME IInv, JobRevoke
    PROVE  Promised
<1>1. /\ job # None /\ job.stage = "revoke" /\ Typed /\ UNCHANGED work
  BY DEF JobRevoke, JobAt, IInv, Sound, kernels
<1>2. PICK r \in Runs : r = job.run /\ JobClaims(r, "revoke")
  BY <1>1, JobWas
<1>3. Row(r) # None
  BY <1>2 DEF JobClaims
<1>4. PICK o \in Owners : o = Row(r).lease.owner
  BY <1>1, <1>3, DatabaseFields, LeaseFields DEF Typed, Row
<1>5. PICK x : x = Durable!RevokeIn(db, o, {r})
  OBVIOUS
<1>6. db' = x.db
  BY <1>2, <1>4, <1>5 DEF JobRevoke, Row
<1>7. {r} \in SUBSET Runs /\ \A q \in {r} : Revocable(o, q)
  BY <1>4 DEF Revocable
<1> QED
  BY <1>1, <1>5, <1>6, <1>7, AuthoritiesWithdrawn

\* A claim that is granted finds a session that nothing owns or executes in.
LEMMA ClaimPromised ==
    ASSUME IInv, Serve, NEW c \in Calls, c = calls[Len(replies) + 1], c.op = "claim"
    PROVE  Promised
<1>1. Typed /\ UNCHANGED << work, claims >>
  BY DEF Serve, kernels, coordination, IInv, Sound
<1>2. /\ Len(replies) + 1 \in DOMAIN calls /\ CallSound(c, Unanswered)
      /\ c.lease \in Leases /\ c.lease.run \in Runs
      /\ claims[SessionOf[c.lease.run]] # None
  BY NextServed, CallFacts DEF Serve, Session
<1>3. PICK draft \in Leases : draft = c.lease
  BY <1>2
<1>4. PICK r \in Runs : r = draft.run
  BY <1>2, <1>3
<1>5. Row(draft.run) = None
  BY <1>2, <1>3 DEF CallSound, ClaimSound, Unanswered
<1>6. PICK x : x = Durable!ClaimIn(db, draft)
  OBVIOUS
<1>7. db' = x.db
  BY <1>3, <1>6 DEF Serve, Executed
<1>8. \/ x.db = db
      \/ \E l \in Leases :
           /\ Durable!Claimable(db, draft.run)
           /\ x.db.rows[draft.run] = [lease |-> l, state |-> "active"]
           /\ x.db.status[draft.run] = "running"
           /\ \A q \in Runs \ {draft.run} :
                 x.db.rows[q] = db.rows[q] /\ x.db.status[q] = db.status[q]
  <2>1. Typed
    BY <1>1
  <2> QED
    BY <1>5, <1>6, <2>1, ClaimEffect, ZenonT(60)
<1>9. CASE x.db = db
  BY <1>1, <1>7, <1>9, PromiseRests
<1>10. ASSUME NEW l \in Leases,
              Durable!Claimable(db, r),
              db'.rows[r] = [lease |-> l, state |-> "active"],
              db'.status[r] = "running",
              \A q \in Runs \ {r} : db'.rows[q] = db.rows[q] /\ db'.status[q] = db.status[q]
       PROVE  Promised
  <2>1. db.status[r] # "settled" /\ db'.status[r] # "settled"
    BY <1>10 DEF Durable!Claimable
  <2>2. \A q \in Runs : SessionOf[q] = SessionOf[r] => ~Active(q)
    BY <1>10 DEF Durable!Claimable, Durable!SameSession, Durable!ActiveRow, Active, Row
  <2>3. \A q \in Runs : SessionOf[q] = SessionOf[r] => ~Executing(q)
    <3> SUFFICES ASSUME NEW q \in Runs, SessionOf[q] = SessionOf[r] PROVE ~Executing(q)
      OBVIOUS
    <3>1. claims[SessionOf[q]] # None
      BY <1>2, <1>3, <1>4
    <3>2. work[q] # None => work[q].stage = "releasing"
      BY <3>1, WorkFacts
    <3> QED
      BY <3>2 DEF Executing, Stage
  <2>4. PICK z : z = [lease |-> l, state |-> "active"]
    OBVIOUS
  <2>5. z # None /\ z.state = "active"
    BY <2>4, RowType, RowStates
  <2>6. Active(r)'
    BY <1>10, <2>4, <2>5 DEF Active, Row
  <2>7. ~Executing(r)'
    BY <1>1, <2>3 DEF Executing, Stage
  <2>8. \A q \in Runs \ {r} : Unmoved(q)
    BY <1>1, <1>10 DEF Unmoved, Active, Row, Executing, Stage
  <2> QED
    BY <2>1, <2>2, <2>3, <2>6, <2>7, <2>8, GrantPromised
<1> QED
  BY <1>4, <1>7, <1>8, <1>9, <1>10

\* The other calls withdraw authorities.
LEMMA EndPromised ==
    ASSUME IInv, Serve, NEW c \in Calls, c = calls[Len(replies) + 1], c.op # "claim"
    PROVE  Promised
<1>1. Typed /\ UNCHANGED work
  BY DEF Serve, kernels, IInv, Sound
<1>2. /\ Len(replies) + 1 \in DOMAIN calls /\ CallSound(c, Unanswered)
      /\ c.op # "revoke" => c.lease \in Leases
  BY NextServed, CallFacts DEF Serve
<1>3. PICK x : x = Executed(db, c)
  OBVIOUS
<1>4. db' = x.db
  BY <1>3 DEF Serve
<1>5. CASE c.op = "unclaim"
  <2>1. PICK r \in Runs : r = c.lease.run
    BY <1>2, <1>5, LeaseFields
  <2>2. c.authority = c.lease.owner /\ c.runs = {r} /\ Row(r).lease.owner = c.lease.owner
    BY <1>2, <1>5, <2>1 DEF CallSound, UnclaimSound
  <2>3. x = Durable!RevokeIn(db, c.lease.owner, {r})
    BY <1>3, <1>5, <2>2 DEF Executed
  <2>4. c.lease.owner \in Owners /\ \A q \in {r} : Revocable(c.lease.owner, q)
    BY <1>2, <1>5, <2>2, LeaseFields DEF Revocable
  <2> QED
    BY <1>1, <1>4, <2>3, <2>4, AuthoritiesWithdrawn
<1>6. CASE c.op = "revoke"
  <2>1. /\ c.authority \in Owners /\ c.runs \in SUBSET Runs
        /\ \A r \in c.runs : Revocable(c.authority, r)
    BY <1>2, <1>6 DEF CallSound, RevokeSound, Revoked, Calls
  <2>2. x = Durable!RevokeIn(db, c.authority, c.runs)
    BY <1>3, <1>6 DEF Executed
  <2> QED
    BY <1>1, <1>4, <2>1, <2>2, AuthoritiesWithdrawn
<1>7. CASE c.op = "release"
  <2>1. PICK l \in Leases : l = c.lease
    BY <1>2, <1>7
  <2>2. Row(l.run) # None /\ Row(l.run).lease = l /\ db.status[l.run] = "settled" /\ l.run \in Runs
    BY <1>2, <1>7, <2>1, LeaseFields DEF CallSound, ReleaseSound, Given, Known
  <2>3. x = Durable!ReleaseIn(db, l)
    BY <1>3, <1>7, <2>1 DEF Executed
  <2>4. /\ db'.status = db.status
        /\ \A q \in Runs \ {l.run} : db'.rows[q] = Row(q)
    BY <1>1, <1>4, <2>2, <2>3, ReleaseEffect
  <2>5. ~Active(l.run)'
    BY <1>1, <1>4, <2>2, <2>3, RowReleased
  <2>6. \A q \in Runs : /\ Active(q)' => Active(q)
                        /\ Executing(q)' <=> Executing(q)
                        /\ db'.status[q] = "settled" <=> db.status[q] = "settled"
    <3> SUFFICES ASSUME NEW q \in Runs
                 PROVE  /\ Active(q)' => Active(q)
                        /\ Executing(q)' <=> Executing(q)
                        /\ db'.status[q] = "settled" <=> db.status[q] = "settled"
      OBVIOUS
    <3>1. CASE q = l.run
      BY <1>1, <2>4, <2>5, <3>1 DEF Executing, Stage
    <3>2. CASE q # l.run
      BY <1>1, <2>4, <3>2 DEF Active, Row, Executing, Stage
    <3> QED
      BY <3>1, <3>2
  <2> QED
    BY <2>6, WithdrawPromised
<1> QED
  BY <1>5, <1>6, <1>7 DEF Calls

\* Every step.
LEMMA StepPromised == IInv /\ [Next]_vars => Promised
<1> SUFFICES ASSUME IInv, [Next]_vars PROVE Promised
  OBVIOUS
<1>1. CASE PortStep
  <2>1. CASE Serve
    <3>1. PICK c \in Calls : c = calls[Len(replies) + 1]
      BY <2>1, NextServed DEF Serve
    <3> QED
      BY <2>1, <3>1, ClaimPromised, EndPromised
  <2>2. CASE Drop
    BY <2>2, PromiseRests DEF Drop, kernels
  <2> QED
    BY <1>1, <2>1, <2>2 DEF PortStep
<1>2. CASE ReplyStep
  <2>1. CASE UnclaimAnswered
    BY <2>1, PromiseRests DEF UnclaimAnswered, kernels
  <2>2. CASE RevokeAnswered
    BY <2>2, PromiseRests DEF RevokeAnswered, kernels
  <2> QED
    BY <1>2, <2>1, <2>2, ClaimAnswerPromised, ReleaseAnswerPromised DEF ReplyStep
<1>3. ASSUME NEW l \in writes, WriteArrives(l) PROVE Promised
  BY <1>3, WritePromised
<1>4. ASSUME NEW l \in handoffs, FinishHandoff(l) \/ FailHandoff(l) PROVE Promised
  <2>1. UNCHANGED << db, work >>
    BY <1>4 DEF FinishHandoff, FailHandoff, storage, kernels
  <2> QED
    BY <2>1, PromiseRests
<1>5. ASSUME NEW r \in Runs, RunStep(r) PROVE Promised
  <2>1. ASSUME NEW o \in Owners, NEW captured \in SUBSET Owners, KernelClaims(o, r, captured)
        PROVE  Promised
    BY <2>1, PromiseRests DEF KernelClaims, storage, kernels
  <2>2. ASSUME NEW o \in Owners, NEW c \in CallIds, StartTool(r, c, o) PROVE Promised
    BY <2>2, PromiseRests DEF StartTool, storage, kernels
  <2>3. ASSUME NEW o \in Owners, NEW k \in Keys, StartCommand(r, k, o) PROVE Promised
    BY <2>3, PromiseRests DEF StartCommand, storage, kernels
  <2> QED
    BY <1>5, <2>1, <2>2, <2>3, ExecutorStepPromised, CancelPromised DEF RunStep
<1>6. ASSUME NEW r \in Runs, JobStart(r) PROVE Promised
  <2>1. UNCHANGED << db, work >>
    BY <1>6 DEF JobStart, StartClaim, StartHandoff, StartInterrupted, storage, kernels
  <2> QED
    BY <2>1, PromiseRests
<1>7. CASE ActivityEnds
  <2>1. UNCHANGED << db, work >>
    BY <1>7 DEF ActivityEnds, EndTool, EndCommand, storage, kernels
  <2> QED
    BY <2>1, PromiseRests
<1>8. ASSUME NEW o \in Owners, OwnerStep(o) PROVE Promised
  <2>1. CASE Exit(o)
    BY <2>1, ExitPromised
  <2>2. CASE Prepare(o) \/ Activate(o) \/ Die(o) \/ Fault(o) \/ Dispose(o)
    <3>1. UNCHANGED << db, work >>
      BY <2>2 DEF Prepare, Activate, Die, Fault, Dispose, storage, kernels
    <3> QED
      BY <3>1, PromiseRests
  <2> QED
    BY <1>8, <2>1, <2>2 DEF OwnerStep
<1>9. CASE JobStep
  <2>1. CASE JobRead \/ JobFree \/ JobCleanup \/ JobHandoff \/ JobFails
    <3>1. UNCHANGED << db, work >>
      BY <2>1 DEF JobRead, JobFree, JobCleanup, JobHandoff, JobFails, storage, kernels
    <3> QED
      BY <3>1, PromiseRests
  <2> QED
    BY <1>9, <2>1, RevokePromised, RecoverPromised DEF JobStep
<1>10. CASE UNCHANGED vars
  BY <1>10, PromiseRests DEF vars, storage, kernels
<1> QED
  BY <1>1, <1>2, <1>3, <1>4, <1>5, <1>6, <1>7, <1>8, <1>9, <1>10 DEF Next

\* At the start nothing is owned, executed or ended.
LEMMA PromiseInit == Init => Authority!Init
<1> SUFFICES ASSUME Init PROVE Authority!Init
  OBVIOUS
<1>1. /\ \A r \in Runs : db.rows[r] = None /\ db.status[r] = "queued"
      /\ \A r \in Runs : work[r] = None
  BY DEF Init, Durable!EmptyDatabase
<1>2. \A r \in Runs : ~Durable!ActiveRow(db, r) /\ ~Executing(r) /\ db.status[r] # "settled"
  BY <1>1 DEF Durable!ActiveRow, Executing, Stage
<1> QED
  BY <1>2 DEF Authority!Init

\* The Kernels, the coordinator, the storage and the Host together keep the
\* promise of ExecutionAuthority: a run gets its session only when nothing of it
\* is authorised or executing, only an authorised run starts or ends itself, and
\* another ends it only when nothing owns or executes it.
THEOREM HandoffImplementsAuthority == Spec => ImplementsAuthority
<1>1. IInv /\ [Next]_vars => [Authority!Next]_Authority!vars
  BY StepPromised DEF Promised
<1> QED
  BY <1>1, PromiseInit, HandoffInvariant, PTL DEF Spec, ImplementsAuthority, Authority!Spec

-----------------------------------------------------------------------------
(* What ExecutionAuthority promises, and so what the four parties do.       *)

\* The runs that are authorised or executed after an abstract step.
LEMMA HoldersAfter ==
    ASSUME Promised
    PROVE  \/ (Authorised \cup Executors)' \subseteq Authorised \cup Executors
           \/ \E r \in Runs :
                 /\ \A q \in Authorised \cup Executors : SessionOf[q] # SessionOf[r]
                 /\ (Authorised \cup Executors)' \subseteq Authorised \cup Executors \cup {r}
<1>1. CASE UNCHANGED Authority!vars
  <2>1. Authorised' = Authorised /\ Executors' = Executors
    BY <1>1 DEF Authority!vars, Authorised, Executors
  <2> QED
    BY <2>1
<1>2. ASSUME NEW r \in Runs, Authority!Grant(r)
      PROVE  /\ \A q \in Authorised \cup Executors : SessionOf[q] # SessionOf[r]
             /\ (Authorised \cup Executors)' \subseteq Authorised \cup Executors \cup {r}
  <2>1. /\ Authorised' = Authorised \cup {r} /\ Executors' = Executors
        /\ Authority!SameSession(r) \cap (Authorised \cup Executors) = {}
    BY <1>2 DEF Authority!Grant, Authority!Vacant, Authorised, Executors
  <2>2. Authority!SameSession(r) = {q \in Runs : SessionOf[q] = SessionOf[r]}
    BY DEF Authority!SameSession
  <2> QED
    BY <2>1, <2>2, AbstractState
<1>3. ASSUME NEW r \in Runs, Authority!Start(r) \/ Authority!Finish(r) \/ Authority!Conclude(r)
      PROVE  (Authorised \cup Executors)' \subseteq Authorised \cup Executors
  <2>1. Authorised' = Authorised /\ Executors' \subseteq Authorised \cup Executors
    <3>1. CASE Authority!Start(r)
      BY <3>1 DEF Authority!Start, Authorised, Executors
    <3>2. CASE Authority!Finish(r)
      BY <3>2 DEF Authority!Finish, Authorised, Executors
    <3>3. CASE Authority!Conclude(r)
      BY <3>3 DEF Authority!Conclude, Authorised, Executors
    <3> QED
      BY <1>3, <3>1, <3>2, <3>3
  <2> QED
    BY <2>1
<1>4. ASSUME NEW rs \in SUBSET Runs, Authority!Withdraw(rs) \/ Authority!Stop(rs)
      PROVE  (Authorised \cup Executors)' \subseteq Authorised \cup Executors
  <2>1. Authorised' \subseteq Authorised /\ Executors' \subseteq Executors
    BY <1>4 DEF Authority!Withdraw, Authority!Stop, Authorised, Executors
  <2> QED
    BY <2>1
<1> QED
  BY <1>1, <1>2, <1>3, <1>4 DEF Promised, Authority!Next

\* OneExecutor is inductive: only Grant adds a run, to a session without one.
LEMMA OneExecutorKept ==
    ASSUME Promised, Authority!OneExecutor
    PROVE  Authority!OneExecutor'
<1>1. \A r, q \in Authorised \cup Executors : SessionOf[r] = SessionOf[q] => r = q
  BY DEF Authority!OneExecutor, Authorised, Executors
<1>2. \A r, q \in (Authorised \cup Executors)' : SessionOf[r] = SessionOf[q] => r = q
  BY <1>1, HoldersAfter
<1> QED
  BY <1>2 DEF Authority!OneExecutor, Authorised, Executors

\* Of the runs that are authorised or executing, with or without authority, no
\* two share a session.
THEOREM AuthorityOneExecutor == Authority!Spec => []Authority!OneExecutor
<1>1. Authority!Init => Authority!OneExecutor
  BY DEF Authority!Init, Authority!OneExecutor
<1>2. Authority!OneExecutor /\ [Authority!Next]_Authority!vars => Authority!OneExecutor'
  BY OneExecutorKept DEF Promised
<1> QED
  BY <1>1, <1>2, PTL DEF Authority!Spec

\* No run is ended while a process executes it without authority.
LEMMA NoneEndsLate ==
    ASSUME Promised, NEW r \in Executors \ Authorised, r \in Ended'
    PROVE  r \in Ended
<1>1. CASE UNCHANGED Authority!vars
  BY <1>1 DEF Authority!vars, Ended
<1>2. ASSUME NEW q \in Runs, Authority!Grant(q) \/ Authority!Start(q) PROVE r \in Ended
  <2>1. Ended' = Ended
    BY <1>2 DEF Authority!Grant, Authority!Start, Ended
  <2> QED
    BY <2>1
<1>3. ASSUME NEW q \in Runs, Authority!Finish(q) PROVE r \in Ended
  <2>1. q \in Authorised /\ Ended' = Ended \cup {q}
    BY <1>3 DEF Authority!Finish, Authorised, Ended
  <2> QED
    BY <2>1
<1>4. ASSUME NEW q \in Runs, Authority!Conclude(q) PROVE r \in Ended
  <2>1. q \notin Executors /\ Ended' = Ended \cup {q}
    BY <1>4 DEF Authority!Conclude, Executors, Ended
  <2> QED
    BY <2>1
<1>5. ASSUME NEW rs \in SUBSET Runs, Authority!Withdraw(rs) \/ Authority!Stop(rs)
      PROVE  r \in Ended
  <2>1. Ended' = Ended
    BY <1>5 DEF Authority!Withdraw, Authority!Stop, Ended
  <2> QED
    BY <2>1
<1> QED
  BY <1>1, <1>2, <1>3, <1>4, <1>5 DEF Promised, Authority!Next

\* No executor without authority ends its run, and no run is ended behind its
\* executor's back.
THEOREM AuthorityNoLateCommit == Authority!Spec => Authority!NoLateCommit
<1> DEFINE Kept == \A r \in Executors \ Authorised : r \in Ended' => r \in Ended
<1>1. [Authority!Next]_Authority!vars => [Kept]_Authority!vars
  BY NoneEndsLate DEF Promised
<1>2. Authority!Spec => [][Kept]_Authority!vars
  BY <1>1, PTL DEF Authority!Spec
<1> QED
  BY <1>2, PTL DEF Authority!NoLateCommit, Authorised, Executors, Ended

\* OneExecutor, of the four parties: of the runs that are authorised in the
\* database or executed in some process, no two share a session.
THEOREM HandoffOneExecutor == Spec => []Authority!OneExecutor
BY HandoffImplementsAuthority, AuthorityOneExecutor, PTL DEF ImplementsAuthority

\* NoLateCommit, of the four parties: no run reaches its final status while an
\* executor without authority is left in some process.
THEOREM HandoffNoLateCommit == Spec => Authority!NoLateCommit
BY HandoffImplementsAuthority, AuthorityNoLateCommit, PTL DEF ImplementsAuthority
=============================================================================
