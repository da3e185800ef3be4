------------------------ MODULE RuntimeDemandProofs ------------------------
(***************************************************************************)
(* Proofs about RuntimeDemand, for any finite set of units whose closures  *)
(* list dependencies first, and any number of calls and incarnations.      *)
(*                                                                         *)
(* The lifecycle, the Manager and the Host each keep a part of the truth   *)
(* about a unit.  IInv says what each may assume of the others: a lease    *)
(* keeps the lifecycle from retiring the unit (LeasesPin), so what a start *)
(* depends on is up and a start dispatches its own unit only               *)
(* (StartsOwnOnly); an attempt that has visited a unit is one of its holds *)
(* (VisitsCount), so the Manager neither lets it sleep nor replaces it     *)
(* (VisitedUp); and a unit without a barrier serves with the incarnation   *)
(* its owner names (OpenServes), as a crash, a replacement and an unknown  *)
(* outcome leave one behind.  The calls, the Manager and the lifecycle     *)
(* have lemmas of their own (CallsSound, ManagerSound, LifeSound) that say *)
(* what a change of one call or one unit must bring; then every action has *)
(* a lemma.                                                                *)
(***************************************************************************)
EXTENDS RuntimeDemand, TLAPS

-----------------------------------------------------------------------------
(* Constants.                                                               *)

\* An incarnation is a positive number, and no number is None.
LEMMA OwnerFacts ==
    /\ None \notin Owners /\ Owners \subseteq Nat
    /\ \A u \in Units : 1 \in Owners
BY DemandAssumption DEF Owners

\* A unit is no call, and the closure of an attempt is a sequence of units; that
\* of a unit's start holds the unit.
LEMMA ClosureFacts ==
    ASSUME NEW a \in Attempts
    PROVE  /\ ClosureOf(a) \in Seq(Units)
           /\ Needs(a) \subseteq Units
           /\ a \in Calls <=> a \notin Units
           /\ a \in Units => a \in Needs(a)
<1>1. a \in Calls <=> a \notin Units
  BY DemandAssumption DEF Attempts
<1>2. ClosureOf(a) \in Seq(Units)
  BY <1>1, DemandAssumption DEF ClosureOf, Attempts
<1>3. Needs(a) \subseteq Units
  BY <1>2 DEF Needs, ToSet
<1>4. ASSUME a \in Units PROVE a \in Needs(a)
  <2>1. ClosureOf(a) = Closure[a] /\ Closure[a] # << >> /\ Closure[a][Len(Closure[a])] = a
    BY <1>1, <1>4, DemandAssumption DEF ClosureOf, Last
  <2> QED BY <1>2, <2>1 DEF Needs, ToSet
<1> QED BY <1>1, <1>2, <1>3, <1>4

\* There is one first unit at most, and what it depends on comes before it.
LEMMA FirstFacts ==
    ASSUME NEW a \in Attempts, NEW S, NEW u, First(a, S, u)
    PROVE  /\ u \in S /\ u \in Needs(a)
           /\ \A v : First(a, S, v) => v = u
           /\ \A v \in Needs(u) : v = u \/ (v \in Needs(a) /\ v \notin S)
<1> DEFINE s == ClosureOf(a)
<1>1. s \in Seq(Units)
  BY ClosureFacts
<1>2. PICK i \in DOMAIN s : s[i] = u /\ u \in S /\ \A j \in 1..(i - 1) : s[j] \notin S
  BY DEF First
<1>3. i \in 1..Len(s) /\ u \in Units /\ u \in Needs(a)
  BY <1>1, <1>2 DEF Needs, ToSet
<1>4. ASSUME NEW v, First(a, S, v) PROVE v = u
  <2>1. PICK k \in DOMAIN s : s[k] = v /\ v \in S /\ \A j \in 1..(k - 1) : s[j] \notin S
    BY <1>4 DEF First
  <2>2. k \in 1..Len(s)
    BY <1>1, <2>1
  <2> HIDE DEF s
  <2>3. ~(k < i) /\ ~(i < k)
    BY <1>2, <1>3, <2>1, <2>2
  <2> QED BY <1>2, <1>3, <2>1, <2>2, <2>3
<1>5. ASSUME NEW v \in Needs(u), v # u PROVE v \in Needs(a) /\ v \notin S
  <2>1. PICK w \in Units : s = Closure[w]
    BY DemandAssumption DEF ClosureOf, Attempts
  <2>2. Needs(u) = ToSet(Closure[Closure[w][i]])
    BY <1>2, <1>3, <2>1, DemandAssumption DEF Needs, ClosureOf
  <2>3. Needs(u) \subseteq {Closure[w][j] : j \in 1..i}
    BY <1>2, <2>1, <2>2, DemandAssumption
  <2>4. PICK j \in 1..i : v = s[j]
    BY <2>1, <2>3
  <2>5. j \in 1..(i - 1) /\ j \in DOMAIN s
    BY <1>1, <1>2, <1>3, <1>5, <2>4
  <2> QED BY <1>2, <2>4, <2>5 DEF Needs, ToSet
<1> QED BY <1>2, <1>3, <1>4, <1>5

\* What the lifecycle knows of a unit, as one record type: a unit has an owner
\* exactly when its process may be there, and a blocked one is fenced.
Lives == [phase : {"sleeping", "starting", "awake", "quiescing", "blocked"},
          owner : Owners \cup {None}, fenced : BOOLEAN]

Sensible(l) ==
    /\ l \in Lives
    /\ (l.phase \in {"sleeping", "starting"}) <=> (l.owner = None)
    /\ l.phase = "blocked" => l.fenced

\* LifeType is the same, said field by field.
LEMMA LifeFacts ==
    ASSUME NEW l
    PROVE  l \in LifeType <=> Sensible(l)
<1>1. ASSUME l \in LifeType PROVE Sensible(l)
  <2>1. CASE l \in [phase : {"sleeping", "starting"}, owner : {None}, fenced : BOOLEAN]
    BY <2>1 DEF Sensible, Lives
  <2>2. CASE l \in [phase : {"awake", "quiescing"}, owner : Owners, fenced : BOOLEAN]
    BY <2>2, OwnerFacts DEF Sensible, Lives
  <2>3. CASE l \in [phase : {"blocked"}, owner : Owners, fenced : {TRUE}]
    BY <2>3, OwnerFacts DEF Sensible, Lives
  <2> QED BY <1>1, <2>1, <2>2, <2>3 DEF LifeType
<1>2. ASSUME Sensible(l) PROVE l \in LifeType
  <2>1. l \in Lives
    BY <1>2 DEF Sensible
  <2>2. CASE l.phase \in {"sleeping", "starting"}
    <3>1. l.owner = None
      BY <1>2, <2>2 DEF Sensible
    <3>2. l \in [phase : {"sleeping", "starting"}, owner : {None}, fenced : BOOLEAN]
      BY <2>1, <2>2, <3>1 DEF Lives
    <3> QED BY <3>2 DEF LifeType
  <2>3. CASE l.phase \in {"awake", "quiescing"}
    <3>1. l.owner \in Owners
      BY <1>2, <2>1, <2>3 DEF Sensible, Lives
    <3>2. l \in [phase : {"awake", "quiescing"}, owner : Owners, fenced : BOOLEAN]
      BY <2>1, <2>3, <3>1 DEF Lives
    <3> QED BY <3>2 DEF LifeType
  <2>4. CASE l.phase = "blocked"
    <3>1. l.owner \in Owners /\ l.fenced = TRUE
      BY <1>2, <2>1, <2>4 DEF Sensible, Lives
    <3>2. l \in [phase : {"blocked"}, owner : Owners, fenced : {TRUE}]
      BY <2>1, <2>4, <3>1 DEF Lives
    <3> QED BY <3>2 DEF LifeType
  <2> QED BY <2>1, <2>2, <2>3, <2>4 DEF Lives
<1> QED BY <1>1, <1>2

-----------------------------------------------------------------------------
(* The invariant: its parts are about the calls, about the Manager with its    *)
(* attempts, about the lifecycle, and about what ties these together.        *)

HasHold == {"holding", "held", "unresolved"}

\* A call waits for the first unit it has no lease of, and for that one only.
WaitersAsk ==
    \A u \in Units : \A c \in waiting[u] : call[c] = "leasing" /\ First(c, Unleased(c), u)

\* A lease is that of a call that goes on.
LeasesOwned ==
    \A c \in Calls, u \in Units : lease[c][u] # None => call[c] = "leasing" \/ call[c] \in HasHold

\* A call that holds its closure in the Manager has all its leases.
HoldersLeased == \A c \in Calls : call[c] \in HasHold => Unleased(c) = {}

CallsSound ==
    /\ call \in [Calls -> {"new", "leasing", "holding", "held", "unresolved", "ended"}]
    /\ waiting \in [Units -> SUBSET Calls]
    /\ lease \in [Calls -> [Units -> Owners \cup {None}]]
    /\ WaitersAsk /\ LeasesOwned /\ HoldersLeased

Going(a)  == att[a].state \in {"running", "ready"}
Did(a, u) == att[a].got[u] # None \/ \E o \in Owners : <<u, o>> \in att[a].started

\* A unit that an attempt has visited is one of its holds: it is not asleep and
\* will not be.
VisitsCount ==
    \A a \in Attempts, u \in Units : att[a].state # "none" /\ Did(a, u) =>
        u \in Needs(a) /\ mgr[u].idle # "sleeping" /\ mgr[u].work # "leaving"

\* What an attempt has visited is up or was up when it crashed, and is not being
\* replaced.
VisitedUp ==
    \A a \in Attempts, u \in Units : Going(a) /\ att[a].got[u] # None =>
        proc[u][att[a].got[u]] \in {"serving", "faulted", "retired"} /\ ~Replacing(u)

\* A wake belongs to an attempt that waits for it.
WakesGoOn ==
    \A u \in Units : mgr[u].work = "wake" =>
        /\ mgr[u].waker \in Attempts
        /\ att[mgr[u].waker].state = "running"
        /\ First(mgr[u].waker, Unvisited(mgr[u].waker), u)
        /\ Default(u) = None /\ ~Replacing(u)

ReadyVisited == \A a \in Attempts : att[a].state = "ready" => Unvisited(a) = {}

\* A start dispatches its own unit only: what it depends on is leased to the call
\* that began it, and held since.
StartsOwnOnly ==
    \A u \in Units : att[u].state # "none" =>
        /\ \A s \in att[u].started : s[1] = u
        /\ \A v \in Needs(u) : v # u => mgr[v].idle # "sleeping" /\ mgr[v].work # "leaving"

\* What a start found is the default and serves, but for a barrier.
StartsCurrent ==
    \A u \in Units : Going(u) /\ att[u].got[u] # None /\ u \notin barred =>
        att[u].got[u] = Default(u) /\ Serves(u)

\* A unit is closed while it is being replaced.
ReplacedBarred ==
    \A u \in Units : Replacing(u) => u \in barred /\ (mgr[u].candidate # None => mgr[u].work = "reload")

\* A unit that sleeps has no default.
SleepersGone == \A u \in Units : mgr[u].idle = "sleeping" => Default(u) = None

ManagerSound ==
    /\ att \in [Attempts -> AttemptType] /\ failed \in [Units -> AttemptType]
    /\ mgr \in [Units -> ManagerType] /\ proc \in [Units -> [Owners -> ProcessStates]]
    /\ barred \subseteq Units
    /\ VisitsCount /\ VisitedUp /\ WakesGoOn /\ ReadyVisited /\ StartsOwnOnly /\ StartsCurrent
    /\ ReplacedBarred /\ SleepersGone

\* The Manager lets a unit sleep only when the lifecycle does.
AsleepUnits == \A u \in Units : mgr[u].idle = "sleeping" => life[u].phase \in {"sleeping", "starting"}

\* OpenUnitsServe, and the same of units about to retire.
OpenServes ==
    \A u \in Units : life[u].phase \in {"awake", "quiescing"} /\ u \notin barred =>
        life[u].owner = Default(u) /\ Serves(u)

\* The unit is about to retire, or its process has crashed meanwhile.
MayStillRetire(u) ==
    \/ life[u].phase = "quiescing" /\ proc[u][life[u].owner] = "serving"
    \/ life[u].phase = "blocked" /\ proc[u][life[u].owner] = "faulted"

\* The Manager retires the incarnation that the lifecycle wants retired, and the
\* last step is taken only with the one that serves.
WorkKnown ==
    \A u \in Units :
        /\ mgr[u].work \in {"preflight", "sealed"} => MayStillRetire(u)
        /\ mgr[u].work = "leaving" =>
              /\ life[u].phase = "quiescing" /\ life[u].owner = Default(u)
              /\ Serves(u) /\ ~Replacing(u)

LifeSound ==
    /\ life \in [Units -> LifeType]
    /\ AsleepUnits /\ OpenServes /\ WorkKnown

\* A lease keeps its unit from falling asleep.
LeasesPin ==
    \A c \in Calls, u \in Units : lease[c][u] # None => life[u].phase \in {"awake", "blocked"}

\* An attempt is that of a call that has its leases, or of a start; the hold of a
\* call that was answered is ready.
AttemptsOwned ==
    /\ \A a \in Attempts : att[a].state # "none" => IF a \in Calls THEN call[a] \in HasHold ELSE Starting(a)
    /\ \A c \in Calls : call[c] = "held" => att[c].state = "ready"

IInv == CallsSound /\ ManagerSound /\ LifeSound /\ LeasesPin /\ AttemptsOwned

-----------------------------------------------------------------------------
(* Calls.                                                                   *)

\* What a call still has to lease depends on its leases only.
LEMMA UnleasedFacts ==
    ASSUME NEW c \in Calls, lease'[c] = lease[c]
    PROVE  Unleased(c)' = Unleased(c)
BY DEF Unleased

\* Calls end, others keep what they have.
LEMMA LeaveKeeps ==
    ASSUME CallsSound, NEW S \in SUBSET Calls,
           call' \in [Calls -> {"new", "leasing", "holding", "held", "unresolved", "ended"}],
           \A d \in S : call'[d] = "ended",
           \A d \in Calls \ S : call'[d] = call[d] \/ (call[d] \in HasHold /\ call'[d] \in HasHold),
           lease' = [d \in Calls |-> IF d \in S THEN NoLease ELSE lease[d]],
           waiting' \in [Units -> SUBSET Calls],
           \A u \in Units : waiting'[u] \subseteq waiting[u] \ S
    PROVE  CallsSound'
<1>1. \A d \in Calls : lease'[d] = IF d \in S THEN NoLease ELSE lease[d]
  OBVIOUS
<1>2. lease' \in [Calls -> [Units -> Owners \cup {None}]]
  BY DEF CallsSound, NoLease
<1>3. WaitersAsk'
  <2> SUFFICES ASSUME NEW u \in Units, NEW c \in waiting'[u]
               PROVE  call'[c] = "leasing" /\ First(c, Unleased(c)', u)
    BY DEF WaitersAsk
  <2>1. c \in Calls /\ c \in waiting[u] /\ c \notin S
    BY DEF CallsSound
  <2>2. call[c] = "leasing" /\ First(c, Unleased(c), u)
    BY <2>1 DEF CallsSound, WaitersAsk
  <2>3. Unleased(c)' = Unleased(c)
    BY <1>1, <2>1, UnleasedFacts
  <2> QED BY <2>1, <2>2, <2>3 DEF HasHold
<1>4. LeasesOwned'
  BY <1>1 DEF LeasesOwned, CallsSound, NoLease, HasHold
<1>5. HoldersLeased'
  <2> SUFFICES ASSUME NEW c \in Calls, call'[c] \in HasHold
               PROVE  Unleased(c)' = {}
    BY DEF HoldersLeased
  <2>1. c \notin S /\ call[c] \in HasHold
    BY DEF HasHold
  <2> QED BY <1>1, <2>1, UnleasedFacts DEF CallsSound, HoldersLeased
<1> QED BY <1>2, <1>3, <1>4, <1>5 DEF CallsSound

\* A call that waits for nothing ends.
LEMMA RefusedKeeps ==
    ASSUME CallsSound, NEW c \in Calls, Refused({c}),
           waiting' \in [Units -> SUBSET Calls],
           \A u \in Units : waiting'[u] = waiting[u] \ {c}
    PROVE  /\ CallsSound'
           /\ call' = [call EXCEPT ![c] = "ended"]
           /\ \A d \in Calls, v \in Units : lease'[d][v] # None => d # c /\ lease'[d][v] = lease[d][v]
<1>1. /\ call' = [d \in Calls |-> IF d = c THEN "ended" ELSE call[d]]
      /\ lease' = [d \in Calls |-> IF d \in {c} THEN NoLease ELSE lease[d]]
  BY DEF Refused
<1>2. call' = [call EXCEPT ![c] = "ended"]
  BY <1>1 DEF CallsSound
<1>3. call' \in [Calls -> {"new", "leasing", "holding", "held", "unresolved", "ended"}]
  BY <1>1 DEF CallsSound
<1>4. CallsSound'
  BY <1>1, <1>3, LeaveKeeps
<1>5. \A d \in Calls, v \in Units : lease'[d][v] # None => d # c /\ lease'[d][v] = lease[d][v]
  BY <1>1 DEF NoLease
<1> QED BY <1>2, <1>4, <1>5

\* The waiters of a unit end, and wait for nothing else.
LEMMA RejectKeeps ==
    ASSUME CallsSound, NEW u \in Units, RejectWaiters(u)
    PROVE  /\ CallsSound'
           /\ \A d \in Calls : call[d] \in HasHold \/ call'[d] \in HasHold => call'[d] = call[d]
           /\ \A d \in Calls, v \in Units : lease'[d][v] # None => lease'[d][v] = lease[d][v]
<1> DEFINE S == waiting[u]
<1>1. /\ call' = [d \in Calls |-> IF d \in S THEN "ended" ELSE call[d]]
      /\ lease' = [d \in Calls |-> IF d \in S THEN NoLease ELSE lease[d]]
      /\ waiting' = [waiting EXCEPT ![u] = {}]
  BY DEF Refused, RejectWaiters
<1>2. S \in SUBSET Calls /\ waiting' \in [Units -> SUBSET Calls]
  BY <1>1 DEF CallsSound
<1>3. \A v \in Units : waiting'[v] \subseteq waiting[v] \ S
  <2> SUFFICES ASSUME NEW v \in Units, NEW c \in waiting[v], v # u PROVE c \notin S
    BY <1>1 DEF CallsSound
  <2>1. c \in Calls /\ c \in Attempts
    BY DEF CallsSound, Attempts
  <2>2. First(c, Unleased(c), v) /\ (c \in S => First(c, Unleased(c), u))
    BY DEF CallsSound, WaitersAsk
  <2> QED BY <2>1, <2>2, FirstFacts
<1>4. \A d \in S : call[d] = "leasing"
  BY DEF CallsSound, WaitersAsk
<1> HIDE DEF S
<1>5. call' \in [Calls -> {"new", "leasing", "holding", "held", "unresolved", "ended"}]
  BY <1>1 DEF CallsSound
<1>6. CallsSound'
  BY <1>1, <1>2, <1>3, <1>5, LeaveKeeps
<1>7. \A d \in Calls : call[d] \in HasHold \/ call'[d] \in HasHold => call'[d] = call[d]
  BY <1>1, <1>4 DEF HasHold
<1>8. \A d \in Calls, v \in Units : lease'[d][v] # None => lease'[d][v] = lease[d][v]
  BY <1>1 DEF NoLease
<1> QED BY <1>6, <1>7, <1>8

\* Waiters that get their lease go on to the next unit.
LEMMA DeliverKeeps ==
    ASSUME CallsSound, NEW u \in Units, NEW o \in Owners, Deliver(u, o)
    PROVE  /\ CallsSound'
           /\ call' = call
           /\ \A d \in Calls, v \in Units : v # u => lease'[d][v] = lease[d][v]
<1>1. /\ \A d \in Calls : lease'[d] = IF d \in waiting[u] THEN [lease[d] EXCEPT ![u] = o] ELSE lease[d]
      /\ waiting' = [waiting EXCEPT ![u] = {}] /\ call' = call
  BY DEF Deliver
<1>2. lease' \in [Calls -> [Units -> Owners \cup {None}]]
  BY DEF Deliver, CallsSound
<1>3. \A d \in Calls, v \in Units : v # u => lease'[d][v] = lease[d][v]
  BY <1>1 DEF CallsSound
<1>4. \A d \in waiting[u] : call[d] = "leasing"
  BY DEF CallsSound, WaitersAsk
<1>5. WaitersAsk'
  <2> SUFFICES ASSUME NEW v \in Units, NEW c \in waiting'[v]
               PROVE  call'[c] = "leasing" /\ First(c, Unleased(c)', v)
    BY DEF WaitersAsk
  <2>1. c \in Calls /\ c \in Attempts /\ c \in waiting[v] /\ v # u
    BY <1>1 DEF CallsSound, Attempts
  <2>2. call[c] = "leasing" /\ First(c, Unleased(c), v) /\ (c \in waiting[u] => First(c, Unleased(c), u))
    BY <2>1 DEF CallsSound, WaitersAsk
  <2>3. c \notin waiting[u]
    BY <2>1, <2>2, FirstFacts
  <2>4. Unleased(c)' = Unleased(c)
    BY <1>1, <2>1, <2>3, UnleasedFacts
  <2> QED BY <1>1, <2>2, <2>4
<1>6. LeasesOwned'
  BY <1>1, <1>4 DEF LeasesOwned, CallsSound
<1>7. HoldersLeased'
  <2> SUFFICES ASSUME NEW c \in Calls, call'[c] \in HasHold
               PROVE  Unleased(c)' = {}
    BY DEF HoldersLeased
  <2>1. lease'[c] = lease[c]
    BY <1>1, <1>4 DEF HasHold
  <2> QED BY <1>1, <2>1, UnleasedFacts DEF CallsSound, HoldersLeased
<1>8. waiting' \in [Units -> SUBSET Calls] /\ call' \in [Calls -> {"new", "leasing", "holding", "held", "unresolved", "ended"}]
  BY <1>1 DEF CallsSound
<1> QED BY <1>1, <1>2, <1>3, <1>5, <1>6, <1>7, <1>8 DEF CallsSound

\* A call asks for the next lease.
LEMMA RequestKeeps ==
    ASSUME CallsSound, NEW c \in Calls, call[c] = "leasing", ~Awaits(c),
           NEW u \in Units, First(c, Unleased(c), u), call' = call,
           \/ /\ \E o \in Owners : lease' = [lease EXCEPT ![c][u] = o]
              /\ waiting' = waiting
           \/ waiting' = [waiting EXCEPT ![u] = @ \cup {c}] /\ lease' = lease
    PROVE  CallsSound'
<1>1. CASE waiting' = [waiting EXCEPT ![u] = @ \cup {c}] /\ lease' = lease
  <2>1. /\ \A v \in Units : waiting'[v] = IF v = u THEN waiting[u] \cup {c} ELSE waiting[v]
        /\ waiting' \in [Units -> SUBSET Calls]
    BY <1>1 DEF CallsSound
  <2>2. \A d \in Calls : Unleased(d)' = Unleased(d)
    BY <1>1 DEF Unleased
  <2>3. WaitersAsk'
    <3> SUFFICES ASSUME NEW v \in Units, NEW d \in waiting'[v]
                 PROVE  call'[d] = "leasing" /\ First(d, Unleased(d)', v)
      BY DEF WaitersAsk
    <3>1. d \in Calls /\ (d \in waiting[v] \/ (v = u /\ d = c))
      BY <2>1 DEF CallsSound
    <3> QED BY <2>2, <3>1 DEF CallsSound, WaitersAsk
  <2>4. LeasesOwned' /\ HoldersLeased'
    BY <1>1, <2>2 DEF CallsSound, LeasesOwned, HoldersLeased
  <2> QED BY <1>1, <2>1, <2>3, <2>4 DEF CallsSound
<1>2. CASE (\E o \in Owners : lease' = [lease EXCEPT ![c][u] = o]) /\ waiting' = waiting
  <2>1. PICK o \in Owners : lease' = [lease EXCEPT ![c][u] = o]
    BY <1>2
  <2>2. /\ lease' \in [Calls -> [Units -> Owners \cup {None}]]
        /\ \A d \in Calls : d # c => lease'[d] = lease[d]
    BY <2>1 DEF CallsSound
  <2>3. WaitersAsk'
    <3> SUFFICES ASSUME NEW v \in Units, NEW d \in waiting'[v]
                 PROVE  call'[d] = "leasing" /\ First(d, Unleased(d)', v)
      BY DEF WaitersAsk
    <3>1. d \in Calls /\ d # c
      BY <1>2 DEF CallsSound, Awaits
    <3>2. Unleased(d)' = Unleased(d)
      BY <2>2, <3>1, UnleasedFacts
    <3> QED BY <1>2, <3>1, <3>2 DEF CallsSound, WaitersAsk
  <2>4. LeasesOwned'
    BY <2>1, <2>2 DEF CallsSound, LeasesOwned
  <2>5. HoldersLeased'
    <3> SUFFICES ASSUME NEW d \in Calls, call'[d] \in HasHold PROVE Unleased(d)' = {}
      BY DEF HoldersLeased
    <3>1. d # c
      BY DEF HasHold
    <3> QED BY <2>2, <3>1, UnleasedFacts DEF CallsSound, HoldersLeased
  <2> QED BY <1>2, <2>2, <2>3, <2>4, <2>5 DEF CallsSound
<1> QED BY <1>1, <1>2

\* A call that waits for nothing goes on; what it has to have for its next phase is
\* there.
LEMMA CallKeeps ==
    ASSUME CallsSound, NEW c \in Calls, ~Awaits(c), NEW p \in {"leasing", "holding", "held", "ended"},
           call' = [call EXCEPT ![c] = p], lease' = lease, waiting' = waiting,
           p = "ended" => call[c] = "new",
           p \in HasHold => Unleased(c) = {}
    PROVE  /\ CallsSound'
           /\ \A d \in Calls : call'[d] = IF d = c THEN p ELSE call[d]
<1>1. /\ \A d \in Calls : call'[d] = IF d = c THEN p ELSE call[d]
      /\ call' \in [Calls -> {"new", "leasing", "holding", "held", "unresolved", "ended"}]
  BY DEF CallsSound
<1>2. \A d \in Calls : Unleased(d)' = Unleased(d)
  BY DEF Unleased
<1>3. WaitersAsk'
  <2> SUFFICES ASSUME NEW v \in Units, NEW d \in waiting'[v]
               PROVE  call'[d] = "leasing" /\ First(d, Unleased(d)', v)
    BY DEF WaitersAsk
  <2>1. d \in Calls /\ d # c
    BY DEF CallsSound, Awaits
  <2> QED BY <1>1, <1>2, <2>1 DEF CallsSound, WaitersAsk
<1>4. LeasesOwned'
  BY <1>1 DEF CallsSound, LeasesOwned, HasHold
<1>5. HoldersLeased'
  BY <1>1, <1>2 DEF CallsSound, HoldersLeased
<1> QED BY <1>1, <1>3, <1>4, <1>5 DEF CallsSound

\* Steps of others leave the calls as they are.
LEMMA SameCalls ==
    ASSUME CallsSound, UNCHANGED <<call, waiting, lease>>
    PROVE  CallsSound'
<1>1. \A d \in Calls : Unleased(d)' = Unleased(d)
  BY DEF Unleased
<1> QED BY <1>1 DEF CallsSound, WaitersAsk, LeasesOwned, HoldersLeased

-----------------------------------------------------------------------------
(* The Manager.                                                             *)

\* An attempt that is over, and one that has not visited a unit yet.
LEMMA AttemptFacts ==
    /\ NoAttempt \in AttemptType /\ Begin \in AttemptType
    /\ NoAttempt.state = "none" /\ Begin.state = "running"
    /\ Begin.started = {} /\ \A u \in Units : Begin.got[u] = None
<1>1. NoAttempt \in AttemptType /\ NoAttempt.state = "none"
  BY DEF NoAttempt, NoLease, AttemptType
<1>2. Begin = [state |-> "running", got |-> NoLease, started |-> {}]
  BY DEF Begin, NoAttempt
<1> QED BY <1>1, <1>2 DEF NoLease, AttemptType

\* Attempts end and begin, while none of them wakes a unit.
LEMMA ResetKeeps ==
    ASSUME ManagerSound, UNCHANGED <<mgr, proc, barred>>,
           att' \in [Attempts -> AttemptType], failed' \in [Units -> AttemptType],
           \A a \in Attempts : att'[a] # att[a] =>
               att'[a] \in {NoAttempt, Begin} /\ att[a].state # "running",
           \A u \in Units : att'[u] # att[u] => att'[u] = NoAttempt \/
               \A v \in Needs(u) : v # u => mgr[v].idle # "sleeping" /\ mgr[v].work # "leaving"
    PROVE  ManagerSound'
<1>1. \A a \in Attempts : \/ att'[a] = att[a]
                          \/ att'[a].state = "none"
                          \/ /\ att'[a].state = "running" /\ att'[a].started = {}
                             /\ \A u \in Units : att'[a].got[u] = None
  BY AttemptFacts
<1>2. VisitsCount'
  <2> SUFFICES ASSUME NEW a \in Attempts, NEW u \in Units, att'[a].state # "none", Did(a, u)'
               PROVE  att'[a] = att[a]
    BY DEF ManagerSound, VisitsCount, Did
  <2> QED BY <1>1 DEF Did
<1>3. VisitedUp'
  BY <1>1 DEF ManagerSound, VisitedUp, Going, Replacing
<1>4. WakesGoOn'
  <2> SUFFICES ASSUME NEW u \in Units, mgr[u].work = "wake"
               PROVE  /\ mgr[u].waker \in Attempts
                      /\ att'[mgr[u].waker].state = "running"
                      /\ First(mgr[u].waker, Unvisited(mgr[u].waker)', u)
                      /\ mgr[u].current = None /\ ~Replacing(u)
    BY DEF WakesGoOn, Default, Replacing, Unvisited
  <2>1. /\ mgr[u].waker \in Attempts /\ att[mgr[u].waker].state = "running"
        /\ First(mgr[u].waker, Unvisited(mgr[u].waker), u)
        /\ mgr[u].current = None /\ ~Replacing(u)
    BY DEF ManagerSound, WakesGoOn, Default
  <2>2. att'[mgr[u].waker] = att[mgr[u].waker]
    BY <2>1
  <2>3. Unvisited(mgr[u].waker)' = Unvisited(mgr[u].waker)
    BY <2>2 DEF Unvisited
  <2> QED BY <2>1, <2>2, <2>3
<1>5. ReadyVisited'
  BY <1>1 DEF ManagerSound, ReadyVisited, Unvisited
<1>6. StartsOwnOnly'
  <2> SUFFICES ASSUME NEW u \in Units, att'[u].state # "none"
               PROVE  /\ \A s \in att'[u].started : s[1] = u
                      /\ \A v \in Needs(u) : v # u => mgr[v].idle # "sleeping" /\ mgr[v].work # "leaving"
    BY DEF StartsOwnOnly
  <2>1. CASE att'[u] = att[u]
    BY <2>1 DEF ManagerSound, StartsOwnOnly
  <2>2. CASE att'[u] # att[u]
    <3>1. att'[u] = Begin
      BY <2>2, AttemptFacts DEF Attempts
    <3>2. att'[u] # NoAttempt
      BY AttemptFacts
    <3> QED BY <2>2, <3>1, <3>2, AttemptFacts
  <2> QED BY <2>1, <2>2
<1>7. StartsCurrent'
  BY <1>1 DEF ManagerSound, StartsCurrent, Going, Default, Serves, Attempts
<1>8. ReplacedBarred' /\ SleepersGone'
  BY DEF ManagerSound, ReplacedBarred, Replacing, SleepersGone, Default
<1> QED BY <1>2, <1>3, <1>4, <1>5, <1>6, <1>7, <1>8 DEF ManagerSound

\* Steps of the calls and of the lifecycle leave the Manager as it is.
LEMMA SameManager ==
    ASSUME ManagerSound, UNCHANGED <<att, mgr, proc, barred>>, failed' \in [Units -> AttemptType]
    PROVE  ManagerSound'
BY ResetKeeps DEF ManagerSound

\* A retirement moves on, or is given up.
LEMMA RetiringKeeps ==
    ASSUME ManagerSound, NEW u \in Units, UNCHANGED <<att, failed, proc, barred>>,
           mgr[u].work \in {"none", "preflight", "sealed", "leaving"},
           NEW i \in {"active", "retiring", "unknown", "sleeping"}, i = "sleeping" => mgr[u].idle = "sleeping",
           NEW w \in {"none", "preflight", "sealed", "leaving"},
           w = "leaving" => Holds(u) = {},
           mgr' = [mgr EXCEPT ![u].work = w, ![u].idle = i]
    PROVE  ManagerSound'
<1>1. /\ mgr' \in [Units -> ManagerType]
      /\ \A v \in Units : v # u => mgr'[v] = mgr[v]
      /\ mgr'[u].work = w /\ mgr'[u].idle = i
      /\ mgr'[u].queued = mgr[u].queued /\ mgr'[u].candidate = mgr[u].candidate
      /\ mgr'[u].current = mgr[u].current
  BY DEF ManagerSound, ManagerType
<1>2. \A v \in Units : Default(v)' = Default(v) /\ Serves(v)' = Serves(v) /\ Replacing(v)' = Replacing(v)
  BY <1>1 DEF Default, Serves, Replacing
<1>3. ASSUME w = "leaving", NEW a \in Attempts, att[a].state # "none" PROVE u \notin Needs(a)
  BY <1>3 DEF Holds
<1>4. VisitsCount'
  <2> SUFFICES ASSUME NEW a \in Attempts, NEW v \in Units, att[a].state # "none", Did(a, v)
               PROVE  v \in Needs(a) /\ mgr'[v].idle # "sleeping" /\ mgr'[v].work # "leaving"
    BY DEF VisitsCount, Did
  <2>1. v \in Needs(a) /\ mgr[v].idle # "sleeping" /\ mgr[v].work # "leaving"
    BY DEF ManagerSound, VisitsCount
  <2> QED BY <1>1, <1>3, <2>1
<1>5. VisitedUp'
  BY <1>2 DEF ManagerSound, VisitedUp, Going
<1>6. WakesGoOn'
  <2> SUFFICES ASSUME NEW v \in Units, mgr'[v].work = "wake"
               PROVE  /\ mgr'[v].waker \in Attempts
                      /\ att[mgr'[v].waker].state = "running"
                      /\ First(mgr'[v].waker, {x \in Needs(mgr'[v].waker) : att[mgr'[v].waker].got[x] = None}, v)
                      /\ Default(v)' = None /\ ~Replacing(v)'
    BY DEF WakesGoOn, Unvisited
  <2>1. mgr'[v] = mgr[v]
    BY <1>1
  <2> QED BY <1>2, <2>1 DEF ManagerSound, WakesGoOn, Unvisited
<1>7. ReadyVisited'
  BY DEF ManagerSound, ReadyVisited, Unvisited
<1>8. StartsOwnOnly'
  <2> SUFFICES ASSUME NEW x \in Units, att[x].state # "none"
               PROVE  /\ \A s \in att[x].started : s[1] = x
                      /\ \A v \in Needs(x) : v # x => mgr'[v].idle # "sleeping" /\ mgr'[v].work # "leaving"
    BY DEF StartsOwnOnly
  <2>1. x \in Attempts /\ Needs(x) \subseteq Units
    BY ClosureFacts DEF Attempts
  <2>2. /\ \A s \in att[x].started : s[1] = x
        /\ \A v \in Needs(x) : v # x => mgr[v].idle # "sleeping" /\ mgr[v].work # "leaving"
    BY DEF ManagerSound, StartsOwnOnly
  <2> QED BY <1>1, <1>3, <2>1, <2>2
<1>9. StartsCurrent'
  BY <1>2 DEF ManagerSound, StartsCurrent, Going
<1>10. ReplacedBarred' /\ SleepersGone'
  BY <1>1, <1>2 DEF ManagerSound, ReplacedBarred, SleepersGone
<1> QED BY <1>1, <1>4, <1>5, <1>6, <1>7, <1>8, <1>9, <1>10 DEF ManagerSound

-----------------------------------------------------------------------------
(* The lifecycle.                                                           *)

\* What a fence does to a unit that has an owner.
LEMMA BlockedFacts ==
    ASSUME NEW l \in LifeType
    PROVE  /\ l \in Lives
           /\ l.owner = None <=> l.phase \in {"sleeping", "starting"}
           /\ l.owner # None => /\ Blocked(l) \in LifeType
                                /\ Blocked(l).phase = "blocked" /\ Blocked(l).owner = l.owner
<1>1. Sensible(l)
  BY LifeFacts
<1>2. l \in Lives /\ (l.owner = None <=> l.phase \in {"sleeping", "starting"})
  BY <1>1 DEF Sensible
<1>3. ASSUME l.owner # None
      PROVE  Blocked(l) \in LifeType /\ Blocked(l).phase = "blocked" /\ Blocked(l).owner = l.owner
  <2>1. /\ Blocked(l) \in Lives /\ Blocked(l).phase = "blocked"
        /\ Blocked(l).owner = l.owner /\ Blocked(l).fenced = TRUE
    BY <1>2 DEF Blocked, Lives
  <2>2. Sensible(Blocked(l))
    BY <1>3, <2>1 DEF Sensible
  <2> QED BY <2>1, <2>2, LifeFacts
<1> QED BY <1>2, <1>3

\* A unit changes under the same Manager.
LEMMA LifeKeeps ==
    ASSUME LifeSound, UNCHANGED <<mgr, proc, barred>>, life' \in [Units -> LifeType],
           \A u \in Units : life'[u] # life[u] =>
               /\ mgr[u].idle = "sleeping" => life'[u].phase \in {"sleeping", "starting"}
               /\ life'[u].phase \in {"awake", "quiescing"} /\ u \notin barred =>
                     life'[u].owner = Default(u) /\ Serves(u)
               /\ mgr[u].work \notin {"preflight", "sealed", "leaving"}
    PROVE  LifeSound'
<1>1. AsleepUnits'
  BY DEF LifeSound, AsleepUnits
<1>2. OpenServes'
  BY DEF LifeSound, OpenServes, Default, Serves
<1>3. WorkKnown'
  BY DEF LifeSound, WorkKnown, MayStillRetire, Default, Serves, Replacing
<1> QED BY <1>1, <1>2, <1>3 DEF LifeSound

\* Some units are blocked.
LEMMA BlockKeeps ==
    ASSUME LifeSound, UNCHANGED <<mgr, proc>>, barred \subseteq barred', NEW B \in SUBSET Units,
           \A u \in B : life[u].owner # None /\ life[u].phase # "quiescing",
           life' = [u \in Units |-> IF u \in B THEN Blocked(life[u]) ELSE life[u]]
    PROVE  /\ LifeSound'
           /\ \A u \in Units : /\ life'[u].phase = "starting" <=> life[u].phase = "starting"
                               /\ life[u].phase \in {"awake", "blocked"} => life'[u].phase \in {"awake", "blocked"}
<1>1. \A u \in Units : \/ life'[u] = life[u]
                       \/ /\ u \in B /\ life'[u] \in LifeType /\ life'[u].phase = "blocked"
                          /\ life'[u].owner = life[u].owner
                          /\ life[u].phase \notin {"sleeping", "starting", "quiescing"}
  BY BlockedFacts DEF LifeSound
<1>2. life' \in [Units -> LifeType]
  BY <1>1 DEF LifeSound
<1>3. AsleepUnits'
  BY <1>1 DEF LifeSound, AsleepUnits
<1>4. OpenServes'
  BY <1>1 DEF LifeSound, OpenServes, Default, Serves
<1>5. WorkKnown'
  BY <1>1 DEF LifeSound, WorkKnown, MayStillRetire, Default, Serves, Replacing
<1>6. \A u \in Units : /\ life'[u].phase = "starting" <=> life[u].phase = "starting"
                       /\ life[u].phase \in {"awake", "blocked"} => life'[u].phase \in {"awake", "blocked"}
  BY <1>1
<1> QED BY <1>2, <1>3, <1>4, <1>5, <1>6 DEF LifeSound

\* The lifecycle and what it relies on stay as they are.
LEMMA SameLife ==
    ASSUME LifeSound, UNCHANGED <<life, mgr, proc, barred>>
    PROVE  LifeSound'
BY LifeKeeps DEF LifeSound

-----------------------------------------------------------------------------
(* Calls step by step.                                                      *)

\* A call begins, or ends at a barrier.
LEMMA AcquireKeeps ==
    ASSUME IInv, NEW c \in Calls, Acquire(c)
    PROVE  IInv'
<1>1. call[c] = "new" /\ UNCHANGED <<life, waiting, lease, att, mgr, proc, barred, failed>>
  BY DEF Acquire
<1>0. PICK p \in {"leasing", "ended"} : call' = [call EXCEPT ![c] = p]
  BY DEF Acquire
<1>2. ~Awaits(c)
  BY <1>1 DEF IInv, CallsSound, WaitersAsk, Awaits
<1>3. CallsSound' /\ \A d \in Calls : call'[d] = IF d = c THEN p ELSE call[d]
  <2>1. p \in {"leasing", "holding", "held", "ended"} /\ p \notin HasHold
    BY DEF HasHold
  <2>2. lease' = lease /\ waiting' = waiting /\ CallsSound
    BY <1>1 DEF IInv
  <2> QED BY <1>1, <1>0, <1>2, <2>1, <2>2, CallKeeps
<1>4. ManagerSound' /\ LifeSound'
  BY <1>1, SameManager, SameLife DEF IInv, ManagerSound
<1>5. LeasesPin'
  BY <1>1 DEF IInv, LeasesPin
<1>6. AttemptsOwned'
  BY <1>1, <1>3 DEF IInv, AttemptsOwned, Starting, HasHold
<1> QED BY <1>3, <1>4, <1>5, <1>6 DEF IInv

\* A call that asks in vain.
LEMMA GiveUpKeeps ==
    ASSUME IInv, NEW c \in Calls, call[c] = "leasing", ~Awaits(c), Refused({c}),
           UNCHANGED <<life, waiting, att, mgr, proc, barred, failed>>
    PROVE  IInv'
<1>1. /\ CallsSound' /\ call' = [call EXCEPT ![c] = "ended"]
      /\ \A d \in Calls, v \in Units : lease'[d][v] # None => d # c /\ lease'[d][v] = lease[d][v]
  BY RefusedKeeps DEF IInv, Awaits, CallsSound
<1>2. ManagerSound' /\ LifeSound'
  BY SameManager, SameLife DEF IInv, ManagerSound
<1>3. LeasesPin'
  BY <1>1 DEF IInv, LeasesPin
<1>4. AttemptsOwned'
  BY <1>1 DEF IInv, AttemptsOwned, Starting, HasHold, CallsSound
<1> QED BY <1>1, <1>2, <1>3, <1>4 DEF IInv

\* When a call asks for a unit, the units that this one depends on are leased.
LEMMA DependenciesUp ==
    ASSUME IInv, NEW c \in Calls, NEW u \in Units, First(c, Unleased(c), u)
    PROVE  \A v \in Needs(u) : v # u => mgr[v].idle # "sleeping" /\ mgr[v].work # "leaving"
<1> SUFFICES ASSUME NEW v \in Needs(u), v # u
             PROVE  mgr[v].idle # "sleeping" /\ mgr[v].work # "leaving"
  OBVIOUS
<1>1. v \in Needs(c) /\ v \notin Unleased(c) /\ v \in Units
  BY FirstFacts, ClosureFacts DEF Attempts
<1>2. life[v].phase \in {"awake", "blocked"}
  BY <1>1 DEF Unleased, IInv, LeasesPin
<1> QED BY <1>1, <1>2 DEF IInv, LifeSound, AsleepUnits, WorkKnown, MayStillRetire

\* A unit starts when nobody leases it and no attempt of its own is left.
LEMMA BeginKeeps ==
    ASSUME IInv, NEW u \in Units, NEW c \in Calls, First(c, Unleased(c), u),
           life[u].phase \in {"sleeping", "quiescing"},
           mgr[u].work \notin {"preflight", "sealed", "leaving"},
           life' \in [Units -> LifeType], \A v \in Units : v # u => life'[v] = life[v],
           life'[u].phase = "starting", att' = [att EXCEPT ![u] = Begin],
           UNCHANGED <<lease, call, mgr, proc, barred, failed>>, CallsSound'
    PROVE  IInv'
<1>1. u \in Attempts /\ u \notin Calls
  BY ClosureFacts DEF Attempts
<1>2. /\ \A a \in Attempts : att'[a] = IF a = u THEN Begin ELSE att[a]
      /\ att' \in [Attempts -> AttemptType]
  BY <1>1, AttemptFacts DEF IInv, ManagerSound
<1>3. att[u].state = "none"
  BY <1>1 DEF IInv, AttemptsOwned, Starting
<1>4. ManagerSound'
  <2>1. \A v \in Units : att'[v] # att[v] => v = u
    BY <1>2 DEF Attempts
  <2>2. \A v \in Needs(u) : v # u => mgr[v].idle # "sleeping" /\ mgr[v].work # "leaving"
    BY DependenciesUp
  <2> QED BY <1>2, <1>3, <2>1, <2>2, ResetKeeps DEF IInv, ManagerSound
<1>5. LifeSound'
  BY LifeKeeps DEF IInv
<1>6. LeasesPin'
  BY DEF IInv, LeasesPin
<1>7. AttemptsOwned'
  <2>1. \A v \in Units : Starting(v) => Starting(v)'
    BY DEF Starting
  <2>2. Starting(u)'
    BY DEF Starting
  <2> QED BY <1>1, <1>2, <2>1, <2>2 DEF IInv, AttemptsOwned, Attempts
<1> QED BY <1>4, <1>5, <1>6, <1>7 DEF IInv

\* A call gets its next lease, waits for it, wakes the unit, or ends.
LEMMA RequestLeaseKeeps ==
    ASSUME IInv, NEW c \in Calls, RequestLease(c)
    PROVE  IInv'
<1>1. /\ call[c] = "leasing" /\ ~Awaits(c)
      /\ UNCHANGED <<mgr, proc, barred, failed>>
  BY DEF RequestLease
<1>2. PICK u \in Units :
          /\ First(c, Unleased(c), u)
          /\ \/ /\ life[u].phase = "blocked"
                /\ Refused({c}) /\ UNCHANGED <<life, waiting, att>>
             \/ /\ life[u].phase = "awake"
                /\ lease' = [lease EXCEPT ![c][u] = life[u].owner]
                /\ UNCHANGED <<call, life, waiting, att>>
             \/ /\ life[u].phase = "sleeping"
                /\ waiting' = [waiting EXCEPT ![u] = @ \cup {c}]
                /\ life' = [life EXCEPT ![u].phase = "starting", ![u].fenced = FALSE]
                /\ att' = [att EXCEPT ![u] = Begin]
                /\ UNCHANGED <<call, lease>>
             \/ /\ waiting' = [waiting EXCEPT ![u] = @ \cup {c}]
                /\ UNCHANGED <<call, lease, life, att>>
  BY DEF RequestLease
<1>3. CASE life[u].phase = "blocked" /\ Refused({c}) /\ UNCHANGED <<life, waiting, att>>
  BY <1>1, <1>3, GiveUpKeeps
<1>4. CASE /\ life[u].phase = "awake"
           /\ lease' = [lease EXCEPT ![c][u] = life[u].owner]
           /\ UNCHANGED <<call, life, waiting, att>>
  <2>1. life[u].owner \in Owners
    BY <1>4, BlockedFacts DEF IInv, LifeSound, Lives
  <2>2. CallsSound'
    BY <1>1, <1>2, <1>4, <2>1, RequestKeeps DEF IInv
  <2>3. ManagerSound' /\ LifeSound'
    BY <1>1, <1>4, SameManager, SameLife DEF IInv, ManagerSound
  <2>4. LeasesPin'
    BY <1>4 DEF IInv, LeasesPin, CallsSound
  <2>5. AttemptsOwned'
    BY <1>4 DEF IInv, AttemptsOwned, Starting
  <2> QED BY <2>2, <2>3, <2>4, <2>5 DEF IInv
<1>5. CASE /\ life[u].phase = "sleeping"
           /\ waiting' = [waiting EXCEPT ![u] = @ \cup {c}]
           /\ life' = [life EXCEPT ![u].phase = "starting", ![u].fenced = FALSE]
           /\ att' = [att EXCEPT ![u] = Begin]
           /\ UNCHANGED <<call, lease>>
  <2>1. CallsSound'
    BY <1>1, <1>2, <1>5, RequestKeeps DEF IInv
  <2>2. life[u] \in Lives /\ life[u].owner = None
    BY <1>5, BlockedFacts DEF IInv, LifeSound
  <2>3. life' = [life EXCEPT ![u] = [life[u] EXCEPT !.phase = "starting", !.fenced = FALSE]]
    BY <1>5
  <2>4. /\ [life[u] EXCEPT !.phase = "starting", !.fenced = FALSE] \in Lives
        /\ [life[u] EXCEPT !.phase = "starting", !.fenced = FALSE].phase = "starting"
        /\ [life[u] EXCEPT !.phase = "starting", !.fenced = FALSE].owner = None
    BY <2>2 DEF Lives
  <2>5. [life[u] EXCEPT !.phase = "starting", !.fenced = FALSE] \in LifeType
    BY <2>4, LifeFacts DEF Sensible
  <2>6. /\ life' \in [Units -> LifeType] /\ \A v \in Units : v # u => life'[v] = life[v]
        /\ life'[u].phase = "starting"
    BY <2>3, <2>4, <2>5 DEF IInv, LifeSound
  <2>7. mgr[u].work \notin {"preflight", "sealed", "leaving"}
    BY <1>5 DEF IInv, LifeSound, WorkKnown, MayStillRetire
  <2> QED BY <1>1, <1>2, <1>5, <2>1, <2>6, <2>7, BeginKeeps
<1>6. CASE /\ waiting' = [waiting EXCEPT ![u] = @ \cup {c}]
           /\ UNCHANGED <<call, lease, life, att>>
  <2>1. CallsSound'
    BY <1>1, <1>2, <1>6, RequestKeeps DEF IInv
  <2>2. ManagerSound' /\ LifeSound'
    BY <1>1, <1>6, SameManager, SameLife DEF IInv, ManagerSound
  <2>3. LeasesPin' /\ AttemptsOwned'
    BY <1>6 DEF IInv, LeasesPin, AttemptsOwned, Starting
  <2> QED BY <2>1, <2>2, <2>3 DEF IInv
<1> QED BY <1>2, <1>3, <1>4, <1>5, <1>6

\* A call with all its leases holds its closure, or ends.
LEMMA HoldKeeps ==
    ASSUME IInv, NEW c \in Calls, Hold(c)
    PROVE  IInv'
<1>1. /\ call[c] = "leasing" /\ ~Awaits(c) /\ Unleased(c) = {} /\ c \in Attempts
      /\ UNCHANGED <<life, waiting, mgr, proc, barred, failed>>
  BY DEF Hold, Attempts
<1>2. att[c].state = "none"
  BY <1>1 DEF IInv, AttemptsOwned, HasHold
<1>3. CASE call' = [call EXCEPT ![c] = "holding"] /\ att' = [att EXCEPT ![c] = Begin] /\ UNCHANGED lease
  <2>1. CallsSound' /\ \A d \in Calls : call'[d] = IF d = c THEN "holding" ELSE call[d]
    BY <1>1, <1>3, CallKeeps DEF IInv
  <2>2. /\ \A a \in Attempts : att'[a] = IF a = c THEN Begin ELSE att[a]
        /\ att' \in [Attempts -> AttemptType]
    BY <1>3, AttemptFacts DEF IInv, ManagerSound
  <2>3. ManagerSound'
    <3>1. \A u \in Units : u \in Attempts /\ u # c
      BY <1>1, ClosureFacts DEF Attempts
    <3> QED BY <1>1, <1>2, <2>2, <3>1, ResetKeeps DEF IInv, ManagerSound
  <2>4. LifeSound'
    BY <1>1, SameLife DEF IInv
  <2>5. LeasesPin'
    BY <1>1, <1>3 DEF IInv, LeasesPin
  <2>6. AttemptsOwned'
    BY <1>1, <2>1, <2>2 DEF IInv, AttemptsOwned, Starting, HasHold, Attempts
  <2> QED BY <2>1, <2>3, <2>4, <2>5, <2>6 DEF IInv
<1>4. CASE Refused({c}) /\ UNCHANGED att
  BY <1>1, <1>4, GiveUpKeeps
<1> QED BY <1>3, <1>4 DEF Hold

\* A call that holds its closure lets go of it.
LEMMA LetGoKeeps ==
    ASSUME IInv, NEW c \in Calls, att[c].state # "running",
           Refused({c}), att' = [att EXCEPT ![c] = NoAttempt],
           UNCHANGED <<mgr, proc, barred, failed>>,
           waiting' \in [Units -> SUBSET Calls], \A u \in Units : waiting'[u] = waiting[u] \ {c},
           LifeSound',
           \A u \in Units : /\ life'[u].phase = "starting" <=> life[u].phase = "starting"
                            /\ life[u].phase \in {"awake", "blocked"} => life'[u].phase \in {"awake", "blocked"}
    PROVE  IInv'
<1>1. /\ CallsSound' /\ call' = [call EXCEPT ![c] = "ended"]
      /\ \A d \in Calls, v \in Units : lease'[d][v] # None => d # c /\ lease'[d][v] = lease[d][v]
  BY RefusedKeeps DEF IInv
<1>2. /\ \A a \in Attempts : att'[a] = IF a = c THEN NoAttempt ELSE att[a]
      /\ att' \in [Attempts -> AttemptType] /\ c \in Attempts
  BY AttemptFacts DEF IInv, ManagerSound, Attempts
<1>3. ManagerSound'
  <2>1. \A u \in Units : u \in Attempts /\ u # c
    BY <1>2, ClosureFacts DEF Attempts
  <2> QED BY <1>2, <2>1, ResetKeeps DEF IInv, ManagerSound
<1>4. LeasesPin'
  BY <1>1 DEF IInv, LeasesPin
<1>5. AttemptsOwned'
  BY <1>1, <1>2, AttemptFacts DEF IInv, AttemptsOwned, Starting, HasHold, CallsSound, Attempts
<1> QED BY <1>1, <1>3, <1>4, <1>5 DEF IInv

\* A call is answered, or ends and fences the first unit that does not match.
LEMMA GrantKeeps ==
    ASSUME IInv, NEW c \in Calls, Grant(c)
    PROVE  IInv'
<1>1. /\ call[c] = "holding" /\ att[c].state = "ready" /\ c \in Attempts
      /\ UNCHANGED <<waiting, mgr, proc, barred, failed>>
  BY DEF Grant, Attempts
<1>2. ~Awaits(c) /\ Unleased(c) = {}
  BY <1>1 DEF IInv, CallsSound, WaitersAsk, HoldersLeased, HasHold, Awaits
<1>3. CASE call' = [call EXCEPT ![c] = "held"] /\ UNCHANGED <<lease, att, life>>
  <2>1. CallsSound' /\ \A d \in Calls : call'[d] = IF d = c THEN "held" ELSE call[d]
    BY <1>1, <1>2, <1>3, CallKeeps DEF IInv
  <2>2. ManagerSound' /\ LifeSound'
    BY <1>1, <1>3, SameManager, SameLife DEF IInv, ManagerSound
  <2>3. LeasesPin'
    BY <1>3 DEF IInv, LeasesPin
  <2>4. AttemptsOwned'
    BY <1>1, <1>3, <2>1 DEF IInv, AttemptsOwned, Starting, HasHold
  <2> QED BY <2>1, <2>2, <2>3, <2>4 DEF IInv
<1>4. CASE /\ Refused({c}) /\ att' = [att EXCEPT ![c] = NoAttempt]
           /\ life' = [u \in Units |->
                  IF Unbarred(c) /\ First(c, Mismatched(c), u) /\ life[u].owner = lease[c][u]
                  THEN Blocked(life[u]) ELSE life[u]]
  <2> DEFINE B == {u \in Units : Unbarred(c) /\ First(c, Mismatched(c), u) /\ life[u].owner = lease[c][u]}
  <2>1. life' = [u \in Units |-> IF u \in B THEN Blocked(life[u]) ELSE life[u]]
    BY <1>4
  <2>2. \A u \in B : life[u].owner # None /\ life[u].phase # "quiescing"
    <3> SUFFICES ASSUME NEW u \in B PROVE life[u].owner # None /\ life[u].phase # "quiescing"
      OBVIOUS
    <3>1. u \in Units /\ u \in Needs(c) /\ life[u].owner = lease[c][u]
      BY <1>1, FirstFacts
    <3>2. lease[c][u] # None
      BY <1>2, <3>1 DEF Unleased
    <3>3. life[u].phase \in {"awake", "blocked"}
      BY <3>1, <3>2 DEF IInv, LeasesPin
    <3> QED BY <3>1, <3>2, <3>3 DEF IInv, LifeSound, WorkKnown
  <2>3. PICK C \in SUBSET Units : C = B
    OBVIOUS
  <2> HIDE DEF B
  <2>4. /\ LifeSound'
        /\ \A u \in Units : /\ life'[u].phase = "starting" <=> life[u].phase = "starting"
                            /\ life[u].phase \in {"awake", "blocked"} => life'[u].phase \in {"awake", "blocked"}
    BY <1>1, <2>1, <2>2, <2>3, BlockKeeps DEF IInv
  <2>5. waiting' \in [Units -> SUBSET Calls] /\ \A u \in Units : waiting'[u] = waiting[u] \ {c}
    BY <1>1, <1>2 DEF IInv, CallsSound, Awaits
  <2> QED BY <1>1, <1>2, <1>4, <2>4, <2>5, LetGoKeeps
<1> QED BY <1>3, <1>4 DEF Grant

\* A call that was answered lets go.
LEMMA ReleaseKeeps ==
    ASSUME IInv, NEW c \in Calls, Release(c)
    PROVE  IInv'
<1>1. /\ call[c] = "held" /\ att' = [att EXCEPT ![c] = NoAttempt]
      /\ call' = [call EXCEPT ![c] = "ended"] /\ lease' = [lease EXCEPT ![c] = NoLease]
      /\ UNCHANGED <<life, waiting, mgr, proc, barred, failed>>
  BY DEF Release
<1>2. ~Awaits(c) /\ att[c].state = "ready"
  BY <1>1 DEF IInv, CallsSound, AttemptsOwned, WaitersAsk, Awaits
<1>3. Refused({c})
  BY <1>1 DEF Refused, IInv, CallsSound
<1>4. waiting' \in [Units -> SUBSET Calls] /\ \A u \in Units : waiting'[u] = waiting[u] \ {c}
  BY <1>1, <1>2 DEF IInv, CallsSound, Awaits
<1>5. LifeSound'
  BY <1>1, SameLife DEF IInv
<1> QED BY <1>1, <1>2, <1>3, <1>4, <1>5, LetGoKeeps

\* A call whose attempt failed lets go when what it started is gone.
LEMMA ReconcileCallKeeps ==
    ASSUME IInv, NEW c \in Calls, ReconcileCall(c)
    PROVE  IInv'
<1>1. /\ call[c] = "unresolved" /\ att[c].state = "failed"
      /\ Refused({c}) /\ att' = [att EXCEPT ![c] = NoAttempt]
      /\ UNCHANGED <<life, waiting, mgr, proc, barred, failed>>
  BY DEF ReconcileCall, CanRelease
<1>2. ~Awaits(c)
  BY <1>1 DEF IInv, CallsSound, WaitersAsk, Awaits
<1>3. waiting' \in [Units -> SUBSET Calls] /\ \A u \in Units : waiting'[u] = waiting[u] \ {c}
  BY <1>1, <1>2 DEF IInv, CallsSound, Awaits
<1>4. LifeSound'
  BY <1>1, SameLife DEF IInv
<1> QED BY <1>1, <1>2, <1>3, <1>4, LetGoKeeps

\* The caller gives up.
LEMMA AbortKeeps ==
    ASSUME IInv, NEW c \in Calls, Abort(c)
    PROVE  IInv'
<1>1. /\ call[c] = "leasing" \/ (call[c] = "holding" /\ att[c].state = "ready")
      /\ Refused({c}) /\ att' = [att EXCEPT ![c] = NoAttempt]
      /\ waiting' = [u \in Units |-> waiting[u] \ {c}]
      /\ UNCHANGED <<life, mgr, proc, barred, failed>>
  BY DEF Abort
<1>2. att[c].state # "running"
  BY <1>1 DEF IInv, AttemptsOwned, HasHold, Attempts
<1>3. waiting' \in [Units -> SUBSET Calls] /\ \A u \in Units : waiting'[u] = waiting[u] \ {c}
  BY <1>1 DEF IInv, CallsSound
<1>4. LifeSound'
  BY <1>1, SameLife DEF IInv
<1> QED BY <1>1, <1>2, <1>3, <1>4, LetGoKeeps

\* The attempt of a call failed: the units it leases are closed, their waiters end.
LEMMA QuarantineKeeps ==
    ASSUME IInv, NEW c \in Calls, Quarantine(c)
    PROVE  IInv'
<1> DEFINE hit == {u \in Needs(c) : life[u].owner = lease[c][u]}
           out == UNION {waiting[u] : u \in hit}
<1>1. /\ call[c] = "holding" /\ att[c].state = "failed" /\ c \in Attempts
      /\ life' = [u \in Units |-> IF u \in hit THEN Blocked(life[u]) ELSE life[u]]
      /\ waiting' = [u \in Units |-> IF u \in hit THEN {} ELSE waiting[u]]
      /\ call' = [d \in Calls |-> IF d = c THEN "unresolved" ELSE IF d \in out THEN "ended" ELSE call[d]]
      /\ lease' = [d \in Calls |-> IF d \in out THEN NoLease ELSE lease[d]]
      /\ UNCHANGED <<att, mgr, proc, barred, failed>>
  BY DEF Quarantine, Attempts
<1>2. hit \subseteq Units /\ hit \subseteq Needs(c) /\ \A u \in hit : life[u].owner = lease[c][u]
  BY <1>1, ClosureFacts
<1>3. \A u \in hit : life[u].owner # None /\ life[u].phase # "quiescing"
  <2> SUFFICES ASSUME NEW u \in hit PROVE life[u].owner # None /\ life[u].phase # "quiescing"
    OBVIOUS
  <2>1. lease[c][u] # None
    BY <1>1 DEF Unleased, IInv, CallsSound, HoldersLeased, HasHold
  <2>2. life[u].phase \in {"awake", "blocked"}
    BY <1>2, <2>1 DEF IInv, LeasesPin
  <2> QED BY <1>2, <2>1, <2>2 DEF IInv, LifeSound, WorkKnown
<1> HIDE DEF hit
<1>4. \A d \in out : d \in Calls /\ call[d] = "leasing" /\ d # c /\ \A v \in Units \ hit : d \notin waiting[v]
  <2> SUFFICES ASSUME NEW u \in hit, NEW d \in waiting[u]
               PROVE  d \in Calls /\ call[d] = "leasing" /\ d # c /\ \A v \in Units \ hit : d \notin waiting[v]
    OBVIOUS
  <2>1. d \in Calls /\ d \in Attempts
    BY <1>2 DEF IInv, CallsSound, Attempts
  <2>2. call[d] = "leasing" /\ First(d, Unleased(d), u)
    BY <1>2 DEF IInv, CallsSound, WaitersAsk
  <2>3. ASSUME NEW v \in Units \ hit, d \in waiting[v] PROVE FALSE
    <3>1. First(d, Unleased(d), v)
      BY <2>3 DEF IInv, CallsSound, WaitersAsk
    <3> QED BY <2>1, <2>2, <3>1, FirstFacts
  <2> QED BY <1>1, <2>1, <2>2, <2>3
<1> HIDE DEF out
<1>5. PICK C \in SUBSET Units : C = hit
  BY <1>2
<1>6. PICK S \in SUBSET Calls : S = out
  BY <1>4
<1>7. CallsSound'
  <2>1. call' \in [Calls -> {"new", "leasing", "holding", "held", "unresolved", "ended"}]
    BY <1>1 DEF IInv, CallsSound
  <2>2. /\ \A d \in S : call'[d] = "ended"
        /\ \A d \in Calls \ S : call'[d] = call[d] \/ (call[d] \in HasHold /\ call'[d] \in HasHold)
    BY <1>1, <1>4, <1>6 DEF HasHold
  <2>3. waiting' \in [Units -> SUBSET Calls] /\ \A u \in Units : waiting'[u] \subseteq waiting[u] \ S
    BY <1>1, <1>4, <1>6 DEF IInv, CallsSound
  <2>4. lease' = [d \in Calls |-> IF d \in S THEN NoLease ELSE lease[d]]
    BY <1>1, <1>6
  <2> QED BY <2>1, <2>2, <2>3, <2>4, LeaveKeeps DEF IInv
<1>8. /\ LifeSound'
      /\ \A u \in Units : /\ life'[u].phase = "starting" <=> life[u].phase = "starting"
                          /\ life[u].phase \in {"awake", "blocked"} => life'[u].phase \in {"awake", "blocked"}
  BY <1>1, <1>3, <1>5, BlockKeeps DEF IInv
<1>9. ManagerSound'
  BY <1>1, SameManager DEF IInv, ManagerSound
<1>10. LeasesPin'
  BY <1>1, <1>8 DEF IInv, LeasesPin, NoLease
<1>11. AttemptsOwned'
  BY <1>1, <1>4, <1>8 DEF IInv, AttemptsOwned, Starting, HasHold, Attempts
<1> QED BY <1>7, <1>8, <1>9, <1>10, <1>11 DEF IInv

-----------------------------------------------------------------------------
(* Attempts step by step.                                                   *)

\* The owners of attempts change only with their state.
LEMMA AttemptsStay ==
    ASSUME AttemptsOwned, UNCHANGED call,
           \A u \in Units : life'[u].phase = "starting" <=> life[u].phase = "starting",
           \A a \in Attempts : att'[a] = att[a] \/ att[a].state = "running"
    PROVE  AttemptsOwned'
<1>1. \A u \in Units : Starting(u)' <=> Starting(u)
  BY DEF Starting
<1>2. \A c \in Calls : c \in Attempts
  BY DEF Attempts
<1>3. \A a \in Attempts : a \in Calls \/ a \in Units
  BY DEF Attempts
<1> QED BY <1>1, <1>2, <1>3 DEF AttemptsOwned

\* The Manager changes one unit, and the lifecycle does not notice.
LEMMA ManagerMoves ==
    ASSUME LifeSound, NEW u \in Units, UNCHANGED life, barred \subseteq barred',
           \A v \in Units : v # u => mgr'[v] = mgr[v] /\ proc'[v] = proc[v],
           mgr'[u].idle = "sleeping" => mgr[u].idle = "sleeping",
           life[u].phase \in {"awake", "quiescing"} /\ u \notin barred' =>
               life[u].owner = Default(u)' /\ Serves(u)',
           mgr'[u].work \in {"preflight", "sealed"} => MayStillRetire(u)',
           mgr'[u].work # "leaving"
    PROVE  LifeSound'
<1>1. \A v \in Units : v # u => Default(v)' = Default(v) /\ Serves(v)' = Serves(v) /\ Replacing(v)' = Replacing(v)
  BY DEF Default, Serves, Replacing
<1>2. AsleepUnits'
  BY DEF LifeSound, AsleepUnits
<1>3. OpenServes'
  BY <1>1 DEF LifeSound, OpenServes
<1>4. WorkKnown'
  BY <1>1 DEF LifeSound, WorkKnown, MayStillRetire
<1> QED BY <1>2, <1>3, <1>4 DEF LifeSound

\* An attempt that visits a unit wakes no other.
LEMMA VisitorWakesNone ==
    ASSUME ManagerSound, NEW a \in Attempts, NEW u \in Units, First(a, Unvisited(a), u)
    PROVE  \A v \in Units : mgr[v].work = "wake" /\ mgr[v].waker = a => v = u
<1> SUFFICES ASSUME NEW v \in Units, mgr[v].work = "wake", mgr[v].waker = a
             PROVE  v = u
  OBVIOUS
<1>1. First(a, Unvisited(a), v)
  BY DEF ManagerSound, WakesGoOn
<1> QED BY <1>1, FirstFacts

\* The next wakes belong to other attempts.
LEMMA OtherWakes ==
    ASSUME ManagerSound, NEW a \in Attempts, NEW u \in Units, First(a, Unvisited(a), u),
           \A b \in Attempts : b # a => att'[b] = att[b],
           \A v \in Units : v # u => mgr'[v] = mgr[v],
           NEW v \in Units, v # u, mgr[v].work = "wake"
    PROVE  /\ mgr'[v].waker \in Attempts
           /\ att'[mgr'[v].waker].state = "running"
           /\ First(mgr'[v].waker, {x \in Needs(mgr'[v].waker) : att'[mgr'[v].waker].got[x] = None}, v)
           /\ Default(v)' = None /\ ~Replacing(v)'
<1>1. /\ mgr[v].waker \in Attempts /\ att[mgr[v].waker].state = "running"
      /\ First(mgr[v].waker, {x \in Needs(mgr[v].waker) : att[mgr[v].waker].got[x] = None}, v)
      /\ Default(v) = None /\ ~Replacing(v)
  BY DEF ManagerSound, WakesGoOn, Unvisited
<1>2. mgr[v].waker # a
  BY VisitorWakesNone
<1>3. mgr'[v] = mgr[v] /\ att'[mgr[v].waker] = att[mgr[v].waker]
  BY <1>1, <1>2
<1> QED BY <1>1, <1>3 DEF Default, Replacing

\* An attempt fails: what it has visited and started stays known.
LEMMA FailFacts ==
    ASSUME IInv, NEW a \in Attempts, att[a].state = "running", att' = [att EXCEPT ![a].state = "failed"]
    PROVE  /\ att' \in [Attempts -> AttemptType]
           /\ \A b \in Attempts : /\ b # a => att'[b] = att[b]
                                  /\ att'[b].got = att[b].got /\ att'[b].started = att[b].started
                                  /\ att[b].state # "none" <=> att'[b].state # "none"
                                  /\ att'[b].state \in {"running", "ready"} => b # a
           /\ ReadyVisited'
<1> DEFINE g == [att[a] EXCEPT !.state = "failed"]
<1>1. att[a] \in AttemptType /\ att' = [att EXCEPT ![a] = g]
  BY DEF IInv, ManagerSound
<1>2. g \in AttemptType /\ g.state = "failed" /\ g.got = att[a].got /\ g.started = att[a].started
  BY <1>1 DEF AttemptType
<1> HIDE DEF g
<1>3. \A b \in Attempts : att'[b] = IF b = a THEN g ELSE att[b]
  BY <1>1 DEF IInv, ManagerSound
<1>4. att' \in [Attempts -> AttemptType]
  BY <1>1, <1>2 DEF IInv, ManagerSound
<1>5. \A b \in Attempts : /\ b # a => att'[b] = att[b]
                          /\ att'[b].got = att[b].got /\ att'[b].started = att[b].started
                          /\ att[b].state # "none" <=> att'[b].state # "none"
                          /\ att'[b].state \in {"running", "ready"} => b # a
  BY <1>2, <1>3
<1>6. ReadyVisited'
  BY <1>5 DEF IInv, ManagerSound, ReadyVisited, Unvisited
<1> QED BY <1>4, <1>5, <1>6

\* An attempt gets a unit that serves: it is ready with the last one.
LEMMA GetFacts ==
    ASSUME IInv, NEW a \in Attempts, NEW u \in Units, NEW o \in Owners,
           att[a].state = "running", u \in Needs(a), att[a].got[u] = None,
           att' = [att EXCEPT ![a].got[u] = o, ![a].state = IF Unvisited(a) = {u} THEN "ready" ELSE @]
    PROVE  /\ att' \in [Attempts -> AttemptType]
           /\ \A b \in Attempts : b # a => att'[b] = att[b]
           /\ att'[a].started = att[a].started /\ att'[a].state \in {"running", "ready"}
           /\ att'[a].got[u] = o /\ \A v \in Units : v # u => att'[a].got[v] = att[a].got[v]
           /\ ReadyVisited'
<1> DEFINE s == IF Unvisited(a) = {u} THEN "ready" ELSE "running"
           g == [att[a] EXCEPT !.got[u] = o, !.state = s]
<1>1. att[a] \in AttemptType /\ att' = [att EXCEPT ![a] = g]
  BY DEF IInv, ManagerSound
<1>2. s \in {"ready", "running"} /\ (s = "ready" => Unvisited(a) = {u})
  OBVIOUS
<1> HIDE DEF s
<1>3. g.state = s /\ g.started = att[a].started /\ g.got = [att[a].got EXCEPT ![u] = o]
  BY <1>1 DEF AttemptType
<1>4. g \in AttemptType /\ g.got[u] = o /\ \A v \in Units : v # u => g.got[v] = att[a].got[v]
  <2>1. att[a].got \in [Units -> Owners \cup {None}]
    BY <1>1 DEF AttemptType
  <2>2. [att[a].got EXCEPT ![u] = o] \in [Units -> Owners \cup {None}]
    BY <2>1
  <2>3. g = [att[a] EXCEPT !.got = [att[a].got EXCEPT ![u] = o], !.state = s]
    OBVIOUS
  <2>4. g \in AttemptType
    BY <1>1, <1>2, <2>2, <2>3 DEF AttemptType
  <2> QED BY <1>3, <2>1, <2>4
<1> HIDE DEF g
<1>5. att'[a] = g /\ \A b \in Attempts : b # a => att'[b] = att[b]
  BY <1>1 DEF IInv, ManagerSound
<1>6. att' \in [Attempts -> AttemptType]
  BY <1>1, <1>4 DEF IInv, ManagerSound
<1>7. ReadyVisited'
  <2> SUFFICES ASSUME NEW b \in Attempts, att'[b].state = "ready", NEW v \in Needs(b)
               PROVE  att'[b].got[v] # None
    BY DEF ReadyVisited, Unvisited
  <2>1. v \in Units /\ o # None
    BY ClosureFacts, OwnerFacts
  <2>2. CASE b = a
    <3>1. Unvisited(a) = {u}
      BY <1>2, <1>3, <1>5, <2>2
    <3>2. v = u \/ att[a].got[v] # None
      BY <2>2, <3>1 DEF Unvisited
    <3> QED BY <1>4, <1>5, <2>1, <2>2, <3>2
  <2>3. CASE b # a
    BY <1>5, <2>3 DEF IInv, ManagerSound, ReadyVisited, Unvisited
  <2> QED BY <2>2, <2>3
<1> QED BY <1>2, <1>3, <1>4, <1>5, <1>6, <1>7

\* An attempt adopts the default of its next unit, or fails there.
LEMMA VisitKeeps ==
    ASSUME IInv, NEW a \in Attempts, NEW u \in Units, Visit(a, u)
    PROVE  IInv'
<1>1. /\ att[a].state = "running" /\ First(a, Unvisited(a), u) /\ mgr[u].work = "none"
      /\ UNCHANGED <<life, waiting, lease, call, mgr, proc, barred, failed>>
  BY DEF Visit, Turn
<1>2. u \in Needs(a) /\ att[a].got[u] = None /\ att[a] \in AttemptType
  BY <1>1, FirstFacts DEF Unvisited, IInv, ManagerSound
<1>3. CallsSound' /\ LifeSound'
  BY <1>1, SameCalls, SameLife DEF IInv
<1>4. LeasesPin'
  BY <1>1 DEF IInv, LeasesPin
<1>5. ASSUME \A b \in Attempts : b # a => att'[b] = att[b]
      PROVE  WakesGoOn' /\ AttemptsOwned' /\ ReplacedBarred' /\ SleepersGone'
  <2>1. WakesGoOn'
    <3> SUFFICES ASSUME NEW v \in Units, mgr'[v].work = "wake"
                 PROVE  /\ mgr'[v].waker \in Attempts
                        /\ att'[mgr'[v].waker].state = "running"
                        /\ First(mgr'[v].waker, {x \in Needs(mgr'[v].waker) : att'[mgr'[v].waker].got[x] = None}, v)
                        /\ Default(v)' = None /\ ~Replacing(v)'
      BY DEF WakesGoOn, Unvisited
    <3>1. v # u /\ mgr[v].work = "wake"
      BY <1>1
    <3> QED BY <1>1, <1>5, <3>1, OtherWakes DEF IInv
  <2>2. AttemptsOwned'
    BY <1>1, <1>5, AttemptsStay DEF IInv
  <2>3. ReplacedBarred' /\ SleepersGone'
    BY <1>1 DEF IInv, ManagerSound, ReplacedBarred, SleepersGone, Replacing, Default
  <2> QED BY <2>1, <2>2, <2>3
<1>6. CASE att' = [att EXCEPT ![a].state = "failed"]
  <2>1. /\ att' \in [Attempts -> AttemptType]
        /\ \A b \in Attempts : /\ b # a => att'[b] = att[b]
                               /\ att'[b].got = att[b].got /\ att'[b].started = att[b].started
                               /\ att[b].state # "none" <=> att'[b].state # "none"
                               /\ att'[b].state \in {"running", "ready"} => b # a
        /\ ReadyVisited'
    BY <1>1, <1>6, FailFacts
  <2>2. VisitsCount'
    BY <1>1, <2>1 DEF IInv, ManagerSound, VisitsCount, Did
  <2>3. VisitedUp'
    BY <1>1, <2>1 DEF IInv, ManagerSound, VisitedUp, Going, Replacing
  <2>4. StartsOwnOnly'
    BY <1>1, <2>1 DEF IInv, ManagerSound, StartsOwnOnly, Attempts
  <2>5. StartsCurrent'
    BY <1>1, <2>1 DEF IInv, ManagerSound, StartsCurrent, Going, Default, Serves, Attempts
  <2> QED BY <1>1, <1>3, <1>4, <1>5, <2>1, <2>2, <2>3, <2>4, <2>5 DEF IInv, ManagerSound
<1>7. CASE /\ ~Replacing(u) /\ Serves(u)
           /\ att' = [att EXCEPT ![a].got[u] = Default(u),
                                 ![a].state = IF Unvisited(a) = {u} THEN "ready" ELSE @]
  <2>1. Default(u) \in Owners /\ proc[u][Default(u)] = "serving" /\ mgr[u].idle # "sleeping"
    BY <1>7 DEF IInv, ManagerSound, ManagerType, Serves, Default, SleepersGone
  <2>2. PICK o \in Owners : o = Default(u)
    BY <2>1
  <2>3. /\ att' \in [Attempts -> AttemptType]
        /\ \A b \in Attempts : b # a => att'[b] = att[b]
        /\ att'[a].started = att[a].started /\ att'[a].state \in {"running", "ready"}
        /\ att'[a].got[u] = o /\ \A v \in Units : v # u => att'[a].got[v] = att[a].got[v]
        /\ ReadyVisited'
    <3>1. att' = [att EXCEPT ![a].got[u] = o, ![a].state = IF Unvisited(a) = {u} THEN "ready" ELSE @]
      BY <1>7, <2>2
    <3> QED BY <1>1, <1>2, <3>1, GetFacts
  <2>4. VisitsCount'
    <3> SUFFICES ASSUME NEW b \in Attempts, NEW v \in Units, att'[b].state # "none", Did(b, v)'
                 PROVE  v \in Needs(b) /\ mgr[v].idle # "sleeping" /\ mgr[v].work # "leaving"
      BY <1>1 DEF VisitsCount
    <3>1. (b = a /\ v = u) \/ (att[b].state # "none" /\ Did(b, v))
      <4>1. CASE b = a
        BY <1>1, <2>3, <4>1 DEF Did
      <4>2. CASE b # a
        BY <2>3, <4>2 DEF Did
      <4> QED BY <4>1, <4>2
    <3> QED BY <1>1, <1>2, <2>1, <3>1 DEF IInv, ManagerSound, VisitsCount
  <2>5. VisitedUp'
    <3> SUFFICES ASSUME NEW b \in Attempts, NEW v \in Units, Going(b)', att'[b].got[v] # None
                 PROVE  proc[v][att'[b].got[v]] \in {"serving", "faulted", "retired"} /\ ~Replacing(v)
      BY <1>1 DEF VisitedUp, Replacing
    <3>1. CASE b = a /\ v = u
      <4>1. att'[b].got[v] = Default(u)
        BY <2>2, <2>3, <3>1
      <4> QED BY <1>7, <2>1, <3>1, <4>1
    <3>2. CASE b = a /\ v # u
      BY <1>1, <2>3, <3>2 DEF IInv, ManagerSound, VisitedUp, Going
    <3>3. CASE b # a
      BY <2>3, <3>3 DEF IInv, ManagerSound, VisitedUp, Going
    <3> QED BY <3>1, <3>2, <3>3
  <2>6. StartsOwnOnly'
    BY <1>1, <2>3 DEF IInv, ManagerSound, StartsOwnOnly, Attempts
  <2>7. StartsCurrent'
    <3> SUFFICES ASSUME NEW x \in Units, Going(x)', att'[x].got[x] # None, x \notin barred
                 PROVE  att'[x].got[x] = Default(x) /\ Serves(x)
      BY <1>1 DEF StartsCurrent, Default, Serves
    <3>1. x \in Attempts
      BY DEF Attempts
    <3>2. CASE x = a /\ x = u
      <4>1. att'[x].got[x] = Default(u)
        BY <2>2, <2>3, <3>2
      <4> QED BY <1>7, <3>2, <4>1
    <3>3. CASE x = a /\ x # u
      BY <1>1, <2>3, <3>3 DEF IInv, ManagerSound, StartsCurrent, Going
    <3>4. CASE x # a
      BY <2>3, <3>1, <3>4 DEF IInv, ManagerSound, StartsCurrent, Going
    <3> QED BY <3>2, <3>3, <3>4
  <2> QED BY <1>1, <1>3, <1>4, <1>5, <2>3, <2>4, <2>5, <2>6, <2>7 DEF IInv, ManagerSound
<1> QED BY <1>6, <1>7 DEF Visit

\* What the Manager knows of a unit, field by field.
LEMMA ManagerFacts ==
    ASSUME NEW m \in ManagerType
    PROVE  /\ m.idle \in {"active", "retiring", "sleeping", "waking", "unknown"}
           /\ m.current \in Owners \cup {None} /\ m.queued \in BOOLEAN
           /\ m.candidate \in Owners \cup {None} /\ m.waker \in Attempts \cup {None}
           /\ m.work \in {"none", "preflight", "sealed", "leaving", "wake", "reload"}
BY DEF ManagerType

\* An attempt wakes its next unit.
LEMMA WakeKeeps ==
    ASSUME IInv, NEW a \in Attempts, NEW u \in Units, NEW o \in Owners, Wake(a, u, o)
    PROVE  IInv'
<1>1. /\ att[a].state = "running" /\ First(a, Unvisited(a), u) /\ mgr[u].work = "none"
      /\ proc[u][o] = "none" /\ mgr[u].idle = "sleeping" /\ ~Replacing(u) /\ Default(u) = None
      /\ mgr' = [mgr EXCEPT ![u].idle = "waking", ![u].work = "wake", ![u].waker = a]
      /\ proc' = [proc EXCEPT ![u][o] = "preparing"]
      /\ att' = [att EXCEPT ![a].started = @ \cup {<<u, o>>}]
      /\ UNCHANGED <<life, waiting, lease, call, barred, failed>>
  BY DEF Wake, Turn, Fresh
<1>2. u \in Needs(a) /\ att[a].got[u] = None /\ att[a] \in AttemptType /\ mgr[u] \in ManagerType
  BY <1>1, FirstFacts DEF Unvisited, IInv, ManagerSound
<1>3. /\ mgr' \in [Units -> ManagerType]
      /\ \A v \in Units : v # u => mgr'[v] = mgr[v]
      /\ mgr'[u].idle = "waking" /\ mgr'[u].work = "wake" /\ mgr'[u].waker = a
      /\ mgr'[u].queued = mgr[u].queued /\ mgr'[u].candidate = mgr[u].candidate
      /\ mgr'[u].current = mgr[u].current
  BY <1>1, <1>2 DEF IInv, ManagerSound, ManagerType
<1>4. /\ proc' \in [Units -> [Owners -> ProcessStates]]
      /\ \A v \in Units : v # u => proc'[v] = proc[v]
      /\ \A p \in Owners : p # o => proc'[u][p] = proc[u][p]
  BY <1>1 DEF IInv, ManagerSound, ProcessStates
<1>5. /\ att' \in [Attempts -> AttemptType]
      /\ \A b \in Attempts : b # a => att'[b] = att[b]
      /\ att'[a].state = "running" /\ att'[a].got = att[a].got
      /\ att'[a].started = att[a].started \cup {<<u, o>>}
  <2> DEFINE g == [att[a] EXCEPT !.started = @ \cup {<<u, o>>}]
  <2>1. att' = [att EXCEPT ![a] = g]
    BY <1>1
  <2>2. /\ g \in AttemptType /\ g.state = "running" /\ g.got = att[a].got
        /\ g.started = att[a].started \cup {<<u, o>>}
    BY <1>1, <1>2 DEF AttemptType
  <2> HIDE DEF g
  <2> QED BY <2>1, <2>2 DEF IInv, ManagerSound
<1>6. \A v \in Units : Default(v)' = Default(v) /\ Replacing(v)' = Replacing(v) /\ (v # u => Serves(v)' = Serves(v))
  BY <1>3, <1>4 DEF Default, Replacing, Serves
<1>7. VisitsCount'
  <2> SUFFICES ASSUME NEW b \in Attempts, NEW v \in Units, att'[b].state # "none", Did(b, v)'
               PROVE  v \in Needs(b) /\ mgr'[v].idle # "sleeping" /\ mgr'[v].work # "leaving"
    BY DEF VisitsCount
  <2>1. (b = a /\ v = u) \/ (att[b].state # "none" /\ Did(b, v))
    <3>1. CASE b = a
      BY <1>1, <1>5, <3>1 DEF Did
    <3>2. CASE b # a
      BY <1>5, <3>2 DEF Did
    <3> QED BY <3>1, <3>2
  <2> QED BY <1>2, <1>3, <2>1 DEF IInv, ManagerSound, VisitsCount
<1>8. VisitedUp'
  <2> SUFFICES ASSUME NEW b \in Attempts, NEW v \in Units, Going(b)', att'[b].got[v] # None
               PROVE  proc'[v][att'[b].got[v]] \in {"serving", "faulted", "retired"} /\ ~Replacing(v)'
    BY DEF VisitedUp
  <2>1. Going(b) /\ att'[b].got[v] = att[b].got[v]
    BY <1>1, <1>5 DEF Going
  <2>2. proc[v][att[b].got[v]] \in {"serving", "faulted", "retired"} /\ ~Replacing(v)
    BY <2>1 DEF IInv, ManagerSound, VisitedUp
  <2>3. att[b].got[v] \in Owners
    BY <2>1 DEF IInv, ManagerSound, AttemptType
  <2> QED BY <1>1, <1>4, <1>6, <2>1, <2>2, <2>3
<1>9. WakesGoOn'
  <2> SUFFICES ASSUME NEW v \in Units, mgr'[v].work = "wake"
               PROVE  /\ mgr'[v].waker \in Attempts
                      /\ att'[mgr'[v].waker].state = "running"
                      /\ First(mgr'[v].waker, {x \in Needs(mgr'[v].waker) : att'[mgr'[v].waker].got[x] = None}, v)
                      /\ Default(v)' = None /\ ~Replacing(v)'
    BY DEF WakesGoOn, Unvisited
  <2>1. CASE v # u
    <3>1. mgr[v].work = "wake" /\ ManagerSound /\ \A x \in Units : x # u => mgr'[x] = mgr[x]
      BY <1>3, <2>1 DEF IInv
    <3>2. First(a, Unvisited(a), u) /\ \A b \in Attempts : b # a => att'[b] = att[b]
      BY <1>1, <1>5
    <3> QED BY <2>1, <3>1, <3>2, OtherWakes
  <2>2. CASE v = u
    <3>1. {x \in Needs(a) : att'[a].got[x] = None} = Unvisited(a)
      BY <1>5 DEF Unvisited
    <3> QED BY <1>1, <1>3, <1>5, <1>6, <2>2, <3>1
  <2> QED BY <2>1, <2>2
<1>10. ReadyVisited'
  BY <1>5 DEF IInv, ManagerSound, ReadyVisited, Unvisited
<1>11. StartsOwnOnly'
  <2> SUFFICES ASSUME NEW x \in Units, att'[x].state # "none"
               PROVE  /\ \A s \in att'[x].started : s[1] = x
                      /\ \A v \in Needs(x) : v # x => mgr'[v].idle # "sleeping" /\ mgr'[v].work # "leaving"
    BY DEF StartsOwnOnly
  <2>1. x \in Attempts /\ Needs(x) \subseteq Units /\ att[x].state # "none"
    BY <1>1, <1>5, ClosureFacts DEF Attempts
  <2>2. /\ \A s \in att[x].started : s[1] = x
        /\ \A v \in Needs(x) : v # x => mgr[v].idle # "sleeping" /\ mgr[v].work # "leaving"
    BY <2>1 DEF IInv, ManagerSound, StartsOwnOnly
  <2>3. x = a => u = a
    BY <1>1, <1>2, <2>2
  <2>4. \A s \in att'[x].started : s[1] = x
    BY <1>5, <2>1, <2>2, <2>3
  <2> QED BY <1>3, <2>1, <2>2, <2>4
<1>12. StartsCurrent'
  <2> SUFFICES ASSUME NEW x \in Units, Going(x)', att'[x].got[x] # None, x \notin barred
               PROVE  att'[x].got[x] = Default(x)' /\ Serves(x)'
    BY <1>1 DEF StartsCurrent
  <2>1. x \in Attempts
    BY DEF Attempts
  <2>2. Going(x) /\ att[x].got[x] = att'[x].got[x]
    BY <1>1, <1>5, <2>1 DEF Going
  <2>3. att[x].got[x] = Default(x) /\ Serves(x)
    BY <2>2 DEF IInv, ManagerSound, StartsCurrent
  <2> QED BY <1>1, <1>6, <2>2, <2>3 DEF Serves
<1>13. ReplacedBarred' /\ SleepersGone'
  BY <1>1, <1>3, <1>6 DEF IInv, ManagerSound, ReplacedBarred, SleepersGone, Replacing
<1>14. ManagerSound'
  BY <1>1, <1>3, <1>4, <1>5, <1>7, <1>8, <1>9, <1>10, <1>11, <1>12, <1>13 DEF IInv, ManagerSound
<1>15. LifeSound'
  <2>1. life[u].phase \in {"awake", "quiescing"} => u \in barred
    BY <1>1 DEF IInv, LifeSound, OpenServes, Serves
  <2> QED BY <1>1, <1>3, <1>4, <2>1, ManagerMoves DEF IInv
<1>16. AttemptsOwned'
  BY <1>1, <1>5, AttemptsStay DEF IInv
<1>17. CallsSound' /\ LeasesPin'
  BY <1>1, SameCalls DEF IInv, LeasesPin
<1> QED BY <1>14, <1>15, <1>16, <1>17 DEF IInv

\* What a wake in progress is.
LEMMA WokenFacts ==
    ASSUME IInv, NEW u \in Units, mgr[u].work = "wake"
    PROVE  /\ mgr[u].waker \in Attempts
           /\ \A a \in Attempts : a = mgr[u].waker =>
                 /\ att[a].state = "running" /\ First(a, Unvisited(a), u)
                 /\ u \in Needs(a) /\ att[a].got[u] = None
           /\ Default(u) = None /\ ~Replacing(u)
           /\ life[u].phase \in {"awake", "quiescing"} => u \in barred
           /\ \A b \in Attempts : b \in Units /\ b = u /\ Going(b) /\ att[b].got[u] # None => u \in barred
<1>1. /\ mgr[u].waker \in Attempts
      /\ att[mgr[u].waker].state = "running" /\ First(mgr[u].waker, Unvisited(mgr[u].waker), u)
      /\ Default(u) = None /\ ~Replacing(u)
  BY DEF IInv, ManagerSound, WakesGoOn
<1>2. PICK a \in Attempts : a = mgr[u].waker
  BY <1>1
<1>3. att[a].state = "running" /\ First(a, Unvisited(a), u)
  BY <1>1, <1>2
<1>4. u \in Needs(a) /\ att[a].got[u] = None
  BY <1>3, FirstFacts DEF Unvisited
<1>5. life[u].phase \in {"awake", "quiescing"} => u \in barred
  BY <1>1 DEF IInv, LifeSound, OpenServes, Serves
<1>6. Going(u) /\ att[u].got[u] # None => u \in barred
  BY <1>1 DEF IInv, ManagerSound, StartsCurrent, Serves
<1> QED BY <1>1, <1>2, <1>3, <1>4, <1>5, <1>6

\* The unit that was woken serves, and the attempt has it.
LEMMA WakeServesKeeps ==
    ASSUME IInv, NEW u \in Units, NEW o \in Owners, WakeServes(u, o)
    PROVE  IInv'
<1>1. /\ mgr[u].work = "wake" /\ proc[u][o] = "preparing"
      /\ mgr' = [mgr EXCEPT ![u].idle = "active", ![u].work = "none", ![u].waker = None, ![u].current = o]
      /\ proc' = [proc EXCEPT ![u][o] = "serving"]
      /\ UNCHANGED <<life, waiting, lease, call, barred, failed>>
  BY DEF WakeServes, Woken
<1>2. PICK a \in Attempts : a = mgr[u].waker
  BY <1>1, WokenFacts
<1>3. /\ att[a].state = "running" /\ First(a, Unvisited(a), u)
      /\ u \in Needs(a) /\ att[a].got[u] = None
      /\ Default(u) = None /\ ~Replacing(u)
      /\ life[u].phase \in {"awake", "quiescing"} => u \in barred
      /\ Going(u) /\ att[u].got[u] # None => u \in barred
  BY <1>1, <1>2, WokenFacts DEF Attempts
<1>4. att' = [att EXCEPT ![a].got[u] = o, ![a].state = IF Unvisited(a) = {u} THEN "ready" ELSE @]
  BY <1>2 DEF WakeServes
<1>5. /\ att' \in [Attempts -> AttemptType]
      /\ \A b \in Attempts : b # a => att'[b] = att[b]
      /\ att'[a].started = att[a].started /\ att'[a].state \in {"running", "ready"}
      /\ att'[a].got[u] = o /\ \A v \in Units : v # u => att'[a].got[v] = att[a].got[v]
      /\ ReadyVisited'
  BY <1>3, <1>4, GetFacts
<1>6. mgr[u] \in ManagerType
  BY DEF IInv, ManagerSound
<1>7. /\ mgr' \in [Units -> ManagerType]
      /\ \A v \in Units : v # u => mgr'[v] = mgr[v]
      /\ mgr'[u].idle = "active" /\ mgr'[u].work = "none" /\ mgr'[u].current = o
      /\ mgr'[u].queued = mgr[u].queued /\ mgr'[u].candidate = mgr[u].candidate
  BY <1>1, <1>6 DEF IInv, ManagerSound, ManagerType
<1>8. /\ proc' \in [Units -> [Owners -> ProcessStates]]
      /\ \A v \in Units : v # u => proc'[v] = proc[v]
      /\ proc'[u][o] = "serving" /\ \A p \in Owners : p # o => proc'[u][p] = proc[u][p]
  BY <1>1 DEF IInv, ManagerSound, ProcessStates
<1>9. /\ \A v \in Units : Replacing(v)' = Replacing(v) /\ (v # u => Default(v)' = Default(v) /\ Serves(v)' = Serves(v))
      /\ Default(u)' = o /\ Serves(u)'
  BY <1>7, <1>8, OwnerFacts DEF Default, Replacing, Serves
<1>10. VisitsCount'
  <2> SUFFICES ASSUME NEW b \in Attempts, NEW v \in Units, att'[b].state # "none", Did(b, v)'
               PROVE  v \in Needs(b) /\ mgr'[v].idle # "sleeping" /\ mgr'[v].work # "leaving"
    BY DEF VisitsCount
  <2>1. (b = a /\ v = u) \/ (att[b].state # "none" /\ Did(b, v))
    <3>1. CASE b = a
      BY <1>3, <1>5, <3>1 DEF Did
    <3>2. CASE b # a
      BY <1>5, <3>2 DEF Did
    <3> QED BY <3>1, <3>2
  <2> QED BY <1>3, <1>7, <2>1 DEF IInv, ManagerSound, VisitsCount
<1>11. VisitedUp'
  <2> SUFFICES ASSUME NEW b \in Attempts, NEW v \in Units, Going(b)', att'[b].got[v] # None
               PROVE  proc'[v][att'[b].got[v]] \in {"serving", "faulted", "retired"} /\ ~Replacing(v)'
    BY DEF VisitedUp
  <2>1. CASE b = a /\ v = u
    BY <1>3, <1>5, <1>8, <1>9, <2>1
  <2>2. CASE ~(b = a /\ v = u)
    <3>1. Going(b) /\ att'[b].got[v] = att[b].got[v]
      BY <1>3, <1>5, <2>2 DEF Going
    <3>2. proc[v][att[b].got[v]] \in {"serving", "faulted", "retired"} /\ ~Replacing(v)
      BY <3>1 DEF IInv, ManagerSound, VisitedUp
    <3>3. att[b].got[v] \in Owners
      BY <3>1 DEF IInv, ManagerSound, AttemptType
    <3> QED BY <1>1, <1>8, <1>9, <3>1, <3>2, <3>3
  <2> QED BY <2>1, <2>2
<1>12. WakesGoOn'
  <2> SUFFICES ASSUME NEW v \in Units, mgr'[v].work = "wake"
               PROVE  /\ mgr'[v].waker \in Attempts
                      /\ att'[mgr'[v].waker].state = "running"
                      /\ First(mgr'[v].waker, {x \in Needs(mgr'[v].waker) : att'[mgr'[v].waker].got[x] = None}, v)
                      /\ Default(v)' = None /\ ~Replacing(v)'
    BY DEF WakesGoOn, Unvisited
  <2>1. v # u
    BY <1>7
  <2>2. mgr[v].work = "wake" /\ ManagerSound /\ \A x \in Units : x # u => mgr'[x] = mgr[x]
    BY <1>7, <2>1 DEF IInv
  <2>3. First(a, Unvisited(a), u) /\ \A b \in Attempts : b # a => att'[b] = att[b]
    BY <1>3, <1>5
  <2> QED BY <2>1, <2>2, <2>3, OtherWakes
<1>13. StartsOwnOnly'
  <2> SUFFICES ASSUME NEW x \in Units, att'[x].state # "none"
               PROVE  /\ \A s \in att'[x].started : s[1] = x
                      /\ \A v \in Needs(x) : v # x => mgr'[v].idle # "sleeping" /\ mgr'[v].work # "leaving"
    BY DEF StartsOwnOnly
  <2>1. x \in Attempts /\ Needs(x) \subseteq Units /\ att[x].state # "none" /\ att'[x].started = att[x].started
    BY <1>3, <1>5, ClosureFacts DEF Attempts
  <2>2. /\ \A s \in att[x].started : s[1] = x
        /\ \A v \in Needs(x) : v # x => mgr[v].idle # "sleeping" /\ mgr[v].work # "leaving"
    BY <2>1 DEF IInv, ManagerSound, StartsOwnOnly
  <2> QED BY <1>7, <2>1, <2>2
<1>14. StartsCurrent'
  <2> SUFFICES ASSUME NEW x \in Units, Going(x)', att'[x].got[x] # None, x \notin barred
               PROVE  att'[x].got[x] = Default(x)' /\ Serves(x)'
    BY <1>1 DEF StartsCurrent
  <2>1. x \in Attempts
    BY DEF Attempts
  <2>2. CASE x = a /\ x = u
    BY <1>5, <1>9, <2>2
  <2>3. CASE ~(x = a /\ x = u)
    <3>1. Going(x) /\ att[x].got[x] = att'[x].got[x]
      BY <1>3, <1>5, <2>1, <2>3 DEF Going
    <3>2. x # u
      BY <1>3, <3>1
    <3>3. att[x].got[x] = Default(x) /\ Serves(x)
      BY <3>1 DEF IInv, ManagerSound, StartsCurrent
    <3> QED BY <1>9, <3>1, <3>2, <3>3
  <2> QED BY <2>2, <2>3
<1>15. ReplacedBarred' /\ SleepersGone'
  BY <1>1, <1>3, <1>7, <1>9 DEF IInv, ManagerSound, ReplacedBarred, SleepersGone
<1>16. ManagerSound'
  BY <1>1, <1>5, <1>7, <1>8, <1>10, <1>11, <1>12, <1>13, <1>14, <1>15 DEF IInv, ManagerSound
<1>17. LifeSound'
  BY <1>1, <1>3, <1>7, <1>8, ManagerMoves DEF IInv
<1>18. AttemptsOwned'
  BY <1>1, <1>3, <1>5, AttemptsStay DEF IInv
<1>19. CallsSound' /\ LeasesPin'
  BY <1>1, SameCalls DEF IInv, LeasesPin
<1> QED BY <1>16, <1>17, <1>18, <1>19 DEF IInv

\* The wake fails, and the attempt with it.
LEMMA WakeFailsKeeps ==
    ASSUME IInv, NEW u \in Units, NEW o \in Owners, NEW activated \in BOOLEAN, WakeFails(u, o, activated)
    PROVE  IInv'
<1>1. /\ mgr[u].work = "wake" /\ proc[u][o] = "preparing"
      /\ UNCHANGED <<life, waiting, lease, call, failed>>
  BY DEF WakeFails, Woken
<1>0. /\ \E p \in {"faulted", "disposed"} : proc' = [proc EXCEPT ![u][o] = p]
      /\ \E d \in Owners \cup {None} :
            mgr' = [mgr EXCEPT ![u].idle = "unknown", ![u].work = "none", ![u].waker = None, ![u].current = d]
      /\ barred \subseteq barred' /\ barred' \subseteq Units
  BY DEF WakeFails, IInv, ManagerSound
<1>2. PICK a \in Attempts : a = mgr[u].waker
  BY <1>1, WokenFacts
<1>3. /\ att[a].state = "running" /\ First(a, Unvisited(a), u)
      /\ Default(u) = None /\ ~Replacing(u)
      /\ life[u].phase \in {"awake", "quiescing"} => u \in barred
      /\ Going(u) /\ att[u].got[u] # None => u \in barred
  BY <1>1, <1>2, WokenFacts DEF Attempts
<1>4. att' = [att EXCEPT ![a].state = "failed"]
  BY <1>2 DEF WakeFails
<1>5. /\ att' \in [Attempts -> AttemptType]
      /\ \A b \in Attempts : /\ b # a => att'[b] = att[b]
                             /\ att'[b].got = att[b].got /\ att'[b].started = att[b].started
                             /\ att[b].state # "none" <=> att'[b].state # "none"
                             /\ att'[b].state \in {"running", "ready"} => b # a
      /\ ReadyVisited'
  BY <1>3, <1>4, FailFacts
<1>6. mgr[u] \in ManagerType
  BY DEF IInv, ManagerSound
<1>7. /\ mgr' \in [Units -> ManagerType]
      /\ \A v \in Units : v # u => mgr'[v] = mgr[v]
      /\ mgr'[u].idle = "unknown" /\ mgr'[u].work = "none"
      /\ mgr'[u].queued = mgr[u].queued /\ mgr'[u].candidate = mgr[u].candidate
  <2>1. PICK d \in Owners \cup {None} :
            mgr' = [mgr EXCEPT ![u].idle = "unknown", ![u].work = "none", ![u].waker = None, ![u].current = d]
    BY <1>0
  <2> QED BY <1>6, <2>1 DEF IInv, ManagerSound, ManagerType
<1>8. /\ proc' \in [Units -> [Owners -> ProcessStates]]
      /\ \A v \in Units : v # u => proc'[v] = proc[v]
      /\ \A p \in Owners : p # o => proc'[u][p] = proc[u][p]
  BY <1>0 DEF IInv, ManagerSound, ProcessStates
<1>9. \A v \in Units : Replacing(v)' = Replacing(v) /\ (v # u => Default(v)' = Default(v) /\ Serves(v)' = Serves(v))
  BY <1>7, <1>8 DEF Default, Replacing, Serves
<1>10. VisitsCount'
  <2> SUFFICES ASSUME NEW b \in Attempts, NEW v \in Units, att'[b].state # "none", Did(b, v)'
               PROVE  v \in Needs(b) /\ mgr'[v].idle # "sleeping" /\ mgr'[v].work # "leaving"
    BY DEF VisitsCount
  <2>1. att[b].state # "none" /\ Did(b, v)
    BY <1>5 DEF Did
  <2> QED BY <1>7, <2>1 DEF IInv, ManagerSound, VisitsCount
<1>11. VisitedUp'
  <2> SUFFICES ASSUME NEW b \in Attempts, NEW v \in Units, Going(b)', att'[b].got[v] # None
               PROVE  proc'[v][att'[b].got[v]] \in {"serving", "faulted", "retired"} /\ ~Replacing(v)'
    BY DEF VisitedUp
  <2>1. Going(b) /\ att'[b].got[v] = att[b].got[v]
    BY <1>5 DEF Going
  <2>2. proc[v][att[b].got[v]] \in {"serving", "faulted", "retired"} /\ ~Replacing(v)
    BY <2>1 DEF IInv, ManagerSound, VisitedUp
  <2>3. att[b].got[v] \in Owners
    BY <2>1 DEF IInv, ManagerSound, AttemptType
  <2> QED BY <1>1, <1>8, <1>9, <2>1, <2>2, <2>3
<1>12. WakesGoOn'
  <2> SUFFICES ASSUME NEW v \in Units, mgr'[v].work = "wake"
               PROVE  /\ mgr'[v].waker \in Attempts
                      /\ att'[mgr'[v].waker].state = "running"
                      /\ First(mgr'[v].waker, {x \in Needs(mgr'[v].waker) : att'[mgr'[v].waker].got[x] = None}, v)
                      /\ Default(v)' = None /\ ~Replacing(v)'
    BY DEF WakesGoOn, Unvisited
  <2>1. v # u
    BY <1>7
  <2>2. mgr[v].work = "wake" /\ ManagerSound /\ \A x \in Units : x # u => mgr'[x] = mgr[x]
    BY <1>7, <2>1 DEF IInv
  <2>3. First(a, Unvisited(a), u) /\ \A b \in Attempts : b # a => att'[b] = att[b]
    BY <1>3, <1>5
  <2> QED BY <2>1, <2>2, <2>3, OtherWakes
<1>13. StartsOwnOnly'
  <2> SUFFICES ASSUME NEW x \in Units, att'[x].state # "none"
               PROVE  /\ \A s \in att'[x].started : s[1] = x
                      /\ \A v \in Needs(x) : v # x => mgr'[v].idle # "sleeping" /\ mgr'[v].work # "leaving"
    BY DEF StartsOwnOnly
  <2>1. x \in Attempts /\ Needs(x) \subseteq Units /\ att[x].state # "none" /\ att'[x].started = att[x].started
    BY <1>5, ClosureFacts DEF Attempts
  <2>2. /\ \A s \in att[x].started : s[1] = x
        /\ \A v \in Needs(x) : v # x => mgr[v].idle # "sleeping" /\ mgr[v].work # "leaving"
    BY <2>1 DEF IInv, ManagerSound, StartsOwnOnly
  <2> QED BY <1>7, <2>1, <2>2
<1>14. StartsCurrent'
  <2> SUFFICES ASSUME NEW x \in Units, Going(x)', att'[x].got[x] # None, x \notin barred'
               PROVE  att'[x].got[x] = Default(x)' /\ Serves(x)'
    BY DEF StartsCurrent
  <2>1. x \in Attempts /\ x \notin barred
    BY <1>0 DEF Attempts
  <2>2. Going(x) /\ att[x].got[x] = att'[x].got[x]
    BY <1>5, <2>1 DEF Going
  <2>3. x # u
    BY <1>3, <2>1, <2>2
  <2>4. att[x].got[x] = Default(x) /\ Serves(x)
    BY <2>1, <2>2 DEF IInv, ManagerSound, StartsCurrent
  <2> QED BY <1>9, <2>2, <2>3, <2>4
<1>15. ReplacedBarred' /\ SleepersGone'
  BY <1>0, <1>3, <1>7, <1>9 DEF IInv, ManagerSound, ReplacedBarred, SleepersGone
<1>16. ManagerSound'
  BY <1>0, <1>1, <1>5, <1>7, <1>8, <1>10, <1>11, <1>12, <1>13, <1>14, <1>15 DEF IInv, ManagerSound
<1>17. LifeSound'
  BY <1>0, <1>1, <1>3, <1>7, <1>8, ManagerMoves DEF IInv
<1>18. AttemptsOwned'
  BY <1>1, <1>3, <1>5, AttemptsStay DEF IInv
<1>19. CallsSound' /\ LeasesPin'
  BY <1>1, SameCalls DEF IInv, LeasesPin
<1> QED BY <1>16, <1>17, <1>18, <1>19 DEF IInv

-----------------------------------------------------------------------------
(* The Manager changes one unit.                                            *)

Visited(u)   == \E a \in Attempts : att[a].state # "none" /\ Did(a, u)
Depended(u)  == \E x \in Units : att[x].state # "none" /\ x # u /\ u \in Needs(x)
GoneTo(u)    == \E a \in Attempts : Going(a) /\ att[a].got[u] # None

\* What is to be shown of the unit that changes, while the attempts stay; its own
\* start may begin.
LEMMA UnitMoves ==
    ASSUME ManagerSound, NEW u \in Units, failed' \in [Units -> AttemptType],
           \/ UNCHANGED att
           \/ /\ att' = [att EXCEPT ![u] = Begin] /\ att[u].state = "none"
              /\ \A v \in Needs(u) : v # u => mgr[v].idle # "sleeping" /\ mgr[v].work # "leaving",
           mgr' \in [Units -> ManagerType], proc' \in [Units -> [Owners -> ProcessStates]],
           barred' \subseteq Units,
           \A v \in Units : v # u => mgr'[v] = mgr[v] /\ proc'[v] = proc[v] /\ (v \in barred <=> v \in barred'),
           Visited(u) \/ Depended(u) => mgr'[u].idle # "sleeping" /\ mgr'[u].work # "leaving",
           \A o \in Owners : GoneTo(u) /\ proc[u][o] \in {"serving", "faulted", "retired"} =>
               proc'[u][o] \in {"serving", "faulted", "retired"} /\ ~Replacing(u)',
           mgr'[u].work = "wake" => mgr'[u] = mgr[u],
           att[u].state # "none" /\ GoneTo(u) /\ u \notin barred' =>
               u \notin barred /\ (Serves(u) => Default(u)' = Default(u) /\ Serves(u)'),
           Replacing(u)' => u \in barred' /\ (mgr'[u].candidate # None => mgr'[u].work = "reload"),
           mgr'[u].idle = "sleeping" => Default(u)' = None
    PROVE  ManagerSound'
<1>0. /\ att' \in [Attempts -> AttemptType] /\ u \in Attempts
      /\ \A a \in Attempts : \/ att'[a] = att[a]
                             \/ /\ a = u /\ att'[a].state = "running" /\ att'[a].started = {}
                                /\ \A v \in Units : att'[a].got[v] = None
                                /\ att[a].state = "none"
                                /\ \A v \in Needs(u) : v # u => mgr[v].idle # "sleeping" /\ mgr[v].work # "leaving"
  BY AttemptFacts DEF ManagerSound, Attempts
<1>1. \A v \in Units : v # u => Default(v)' = Default(v) /\ Serves(v)' = Serves(v) /\ Replacing(v)' = Replacing(v)
  BY DEF Default, Serves, Replacing
<1>2. VisitsCount'
  <2> SUFFICES ASSUME NEW a \in Attempts, NEW v \in Units, att[a].state # "none", Did(a, v)
               PROVE  v \in Needs(a) /\ mgr'[v].idle # "sleeping" /\ mgr'[v].work # "leaving"
    <3>1. \A a \in Attempts, v \in Units : att'[a].state # "none" /\ Did(a, v)' => att[a].state # "none" /\ Did(a, v)
      BY <1>0 DEF Did
    <3> QED BY <3>1 DEF VisitsCount
  <2>1. v \in Needs(a) /\ mgr[v].idle # "sleeping" /\ mgr[v].work # "leaving"
    BY DEF ManagerSound, VisitsCount
  <2>2. v = u => Visited(u)
    BY DEF Visited
  <2> QED BY <2>1, <2>2
<1>3. VisitedUp'
  <2> SUFFICES ASSUME NEW a \in Attempts, NEW v \in Units, Going(a), att[a].got[v] # None
               PROVE  proc'[v][att[a].got[v]] \in {"serving", "faulted", "retired"} /\ ~Replacing(v)'
    BY <1>0 DEF VisitedUp, Going
  <2>1. proc[v][att[a].got[v]] \in {"serving", "faulted", "retired"} /\ ~Replacing(v)
    BY DEF ManagerSound, VisitedUp
  <2>2. att[a].got[v] \in Owners
    BY DEF ManagerSound, AttemptType
  <2>3. v = u => GoneTo(u)
    BY DEF GoneTo
  <2> QED BY <1>1, <2>1, <2>2, <2>3
<1>4. WakesGoOn'
  <2> SUFFICES ASSUME NEW v \in Units, mgr'[v].work = "wake"
               PROVE  /\ mgr'[v].waker \in Attempts
                      /\ att'[mgr'[v].waker].state = "running"
                      /\ First(mgr'[v].waker, {x \in Needs(mgr'[v].waker) : att'[mgr'[v].waker].got[x] = None}, v)
                      /\ Default(v)' = None /\ ~Replacing(v)'
    BY DEF WakesGoOn, Unvisited
  <2>1. mgr'[v] = mgr[v]
    OBVIOUS
  <2>2. Default(v)' = Default(v) /\ Replacing(v)' = Replacing(v)
    BY <2>1 DEF Default, Replacing
  <2>3. mgr[v].waker \in Attempts /\ att[mgr[v].waker].state = "running"
    BY <2>1 DEF ManagerSound, WakesGoOn
  <2>4. att'[mgr[v].waker] = att[mgr[v].waker]
    BY <1>0, <2>3
  <2>5. /\ First(mgr[v].waker, {x \in Needs(mgr[v].waker) : att[mgr[v].waker].got[x] = None}, v)
        /\ Default(v) = None /\ ~Replacing(v)
    BY <2>1 DEF ManagerSound, WakesGoOn, Unvisited
  <2> QED BY <2>1, <2>2, <2>3, <2>4, <2>5
<1>5. ReadyVisited'
  BY <1>0 DEF ManagerSound, ReadyVisited, Unvisited
<1>6. StartsOwnOnly'
  <2>5. ASSUME NEW v \in Needs(u), v # u, mgr[v].idle # "sleeping", mgr[v].work # "leaving"
        PROVE  mgr'[v].idle # "sleeping" /\ mgr'[v].work # "leaving"
    BY <1>0, <2>5, ClosureFacts
  <2> SUFFICES ASSUME NEW x \in Units, att[x].state # "none"
               PROVE  /\ \A s \in att[x].started : s[1] = x
                      /\ \A v \in Needs(x) : v # x => mgr'[v].idle # "sleeping" /\ mgr'[v].work # "leaving"
    BY <1>0, <2>5 DEF StartsOwnOnly, Attempts
  <2>1. Needs(x) \subseteq Units
    BY ClosureFacts DEF Attempts
  <2>2. /\ \A s \in att[x].started : s[1] = x
        /\ \A v \in Needs(x) : v # x => mgr[v].idle # "sleeping" /\ mgr[v].work # "leaving"
    BY DEF ManagerSound, StartsOwnOnly
  <2>3. u \in Needs(x) /\ u # x => Depended(u)
    BY DEF Depended
  <2> QED BY <2>1, <2>2, <2>3
<1>7. StartsCurrent'
  <2> SUFFICES ASSUME NEW x \in Units, Going(x), att[x].got[x] # None, x \notin barred'
               PROVE  att[x].got[x] = Default(x)' /\ Serves(x)'
    BY <1>0 DEF StartsCurrent, Going, Attempts
  <2>1. x = u => GoneTo(u) /\ att[u].state # "none"
    BY DEF GoneTo, Going, Attempts
  <2>2. x \notin barred
    BY <2>1
  <2>3. att[x].got[x] = Default(x) /\ Serves(x)
    BY <2>2 DEF ManagerSound, StartsCurrent
  <2> QED BY <1>1, <2>1, <2>3
<1>8. ReplacedBarred' /\ SleepersGone'
  BY <1>1 DEF ManagerSound, ReplacedBarred, SleepersGone
<1> QED BY <1>0, <1>2, <1>3, <1>4, <1>5, <1>6, <1>7, <1>8 DEF ManagerSound

\* The same for the lifecycle.
LEMMA UnitLives ==
    ASSUME LifeSound, NEW u \in Units,
           \A v \in Units : v # u => /\ life'[v] = life[v] /\ mgr'[v] = mgr[v] /\ proc'[v] = proc[v]
                                     /\ v \in barred <=> v \in barred',
           life' \in [Units -> LifeType],
           mgr'[u].idle = "sleeping" => life'[u].phase \in {"sleeping", "starting"},
           life'[u].phase \in {"awake", "quiescing"} /\ u \notin barred' =>
               life'[u].owner = Default(u)' /\ Serves(u)',
           mgr'[u].work \in {"preflight", "sealed"} => MayStillRetire(u)',
           mgr'[u].work = "leaving" =>
               life'[u].phase = "quiescing" /\ life'[u].owner = Default(u)' /\ Serves(u)' /\ ~Replacing(u)'
    PROVE  LifeSound'
<1>1. \A v \in Units : v # u => Default(v)' = Default(v) /\ Serves(v)' = Serves(v) /\ Replacing(v)' = Replacing(v)
  BY DEF Default, Serves, Replacing
<1>2. AsleepUnits'
  BY DEF LifeSound, AsleepUnits
<1>3. OpenServes'
  BY <1>1 DEF LifeSound, OpenServes
<1>4. WorkKnown'
  BY <1>1 DEF LifeSound, WorkKnown, MayStillRetire
<1> QED BY <1>2, <1>3, <1>4 DEF LifeSound

\* Nobody has visited a unit, or depends on it, that leaves, or that has no holds.
LEMMA LeavingUnvisited ==
    ASSUME ManagerSound, NEW u \in Units, mgr[u].work = "leaving" \/ Holds(u) = {}
    PROVE  ~Visited(u) /\ ~Depended(u) /\ ~GoneTo(u)
<1>1. ASSUME NEW a \in Attempts, att[a].state # "none", Did(a, u) PROVE FALSE
  BY <1>1 DEF ManagerSound, VisitsCount, Holds
<1>2. ASSUME NEW x \in Units, att[x].state # "none", x # u, u \in Needs(x) PROVE FALSE
  BY <1>2 DEF ManagerSound, StartsOwnOnly, Holds, Attempts
<1>3. ~Visited(u) /\ ~Depended(u)
  BY <1>1, <1>2 DEF Visited, Depended
<1>4. GoneTo(u) => Visited(u)
  BY DEF GoneTo, Visited, Going, Did
<1> QED BY <1>3, <1>4

-----------------------------------------------------------------------------
(* The lifecycle changes one unit.                                          *)

\* The calls of a unit that is closed or opened: its waiters are refused, or get
\* their lease.
LEMMA ClosesKeeps ==
    ASSUME IInv, NEW u \in Units, life[u].owner # None,
           life' = [life EXCEPT ![u] = Blocked(@)], RejectWaiters(u), UNCHANGED att
    PROVE  /\ CallsSound' /\ LeasesPin' /\ AttemptsOwned'
           /\ life' \in [Units -> LifeType] /\ \A v \in Units : v # u => life'[v] = life[v]
           /\ life'[u].phase = "blocked" /\ life'[u].owner = life[u].owner
<1>1. /\ CallsSound'
      /\ \A d \in Calls : call[d] \in HasHold \/ call'[d] \in HasHold => call'[d] = call[d]
      /\ \A d \in Calls, v \in Units : lease'[d][v] # None => lease'[d][v] = lease[d][v]
  BY RejectKeeps DEF IInv
<1>2. /\ life[u] \in LifeType /\ Blocked(life[u]) \in LifeType /\ Blocked(life[u]).phase = "blocked"
      /\ Blocked(life[u]).owner = life[u].owner /\ life[u].phase \notin {"sleeping", "starting"}
  BY BlockedFacts DEF IInv, LifeSound
<1>3. /\ life' \in [Units -> LifeType] /\ \A v \in Units : v # u => life'[v] = life[v]
      /\ life'[u].phase = "blocked" /\ life'[u].owner = life[u].owner
  BY <1>2 DEF IInv, LifeSound
<1>4. LeasesPin'
  BY <1>1, <1>3 DEF IInv, LeasesPin
<1>5. \A v \in Units : Starting(v)' <=> Starting(v)
  BY <1>2, <1>3 DEF Starting
<1>6. AttemptsOwned'
  <2>1. ASSUME NEW a \in Attempts, att[a].state # "none"
        PROVE  IF a \in Calls THEN call'[a] \in HasHold ELSE Starting(a)'
    BY <1>1, <1>5, <2>1 DEF IInv, AttemptsOwned, Attempts
  <2>2. ASSUME NEW c \in Calls, call'[c] = "held" PROVE att[c].state = "ready"
    BY <1>1, <2>2 DEF IInv, AttemptsOwned, HasHold
  <2> QED BY <2>1, <2>2 DEF AttemptsOwned
<1> QED BY <1>1, <1>3, <1>4, <1>6

\* A unit that was about to retire is open again, and its waiters get their lease.
LEMMA OpensKeeps ==
    ASSUME IInv, NEW u \in Units, life[u].owner # None, life[u].phase = "quiescing",
           life' = [life EXCEPT ![u].phase = "awake"], Deliver(u, life[u].owner), UNCHANGED att
    PROVE  /\ CallsSound' /\ LeasesPin' /\ AttemptsOwned'
           /\ life' \in [Units -> LifeType] /\ \A v \in Units : v # u => life'[v] = life[v]
           /\ life'[u].phase = "awake" /\ life'[u].owner = life[u].owner
<1>1. life[u] \in LifeType /\ life[u] \in Lives /\ life[u].owner \in Owners
  BY BlockedFacts DEF IInv, LifeSound, Lives
<1>2. PICK o \in Owners : o = life[u].owner
  BY <1>1
<1>3. CallsSound' /\ call' = call /\ \A d \in Calls, v \in Units : v # u => lease'[d][v] = lease[d][v]
  <2>1. Deliver(u, o)
    BY <1>2
  <2> QED BY <2>1, DeliverKeeps DEF IInv
<1>4. /\ life' \in [Units -> LifeType] /\ \A v \in Units : v # u => life'[v] = life[v]
      /\ life'[u].phase = "awake" /\ life'[u].owner = life[u].owner
  <2> DEFINE g == [life[u] EXCEPT !.phase = "awake"]
  <2>1. life' = [life EXCEPT ![u] = g]
    OBVIOUS
  <2>2. g \in Lives /\ g.phase = "awake" /\ g.owner = life[u].owner
    BY <1>1 DEF Lives
  <2> HIDE DEF g
  <2>3. g \in LifeType
    BY <1>1, <2>2, LifeFacts, OwnerFacts DEF Sensible
  <2> QED BY <2>1, <2>2, <2>3 DEF IInv, LifeSound
<1>5. LeasesPin'
  BY <1>3, <1>4 DEF IInv, LeasesPin
<1>6. \A v \in Units : Starting(v)' <=> Starting(v)
  BY <1>4 DEF Starting
<1>7. AttemptsOwned'
  BY <1>3, <1>6 DEF IInv, AttemptsOwned, Attempts
<1> QED BY <1>3, <1>4, <1>5, <1>7

\* A retirement is over, and the unit stays.
LEMMA BusyFacts ==
    ASSUME IInv, NEW u \in Units, life[u].phase \in {"quiescing", "blocked"}, Busy(u), UNCHANGED att
    PROVE  /\ CallsSound' /\ LeasesPin' /\ AttemptsOwned'
           /\ life' \in [Units -> LifeType] /\ \A v \in Units : v # u => life'[v] = life[v]
           /\ life'[u].phase \in {"awake", "blocked"} /\ life'[u].owner = life[u].owner
           /\ life'[u].phase = "awake" => life[u].phase = "quiescing"
<1>1. life[u] \in LifeType /\ life[u].owner # None
  BY BlockedFacts DEF IInv, LifeSound
<1>2. CASE life[u].fenced
  BY <1>1, <1>2, ClosesKeeps DEF Busy, Stuck
<1>3. CASE ~life[u].fenced
  <2>1. life[u].phase = "quiescing"
    BY <1>1, <1>3, LifeFacts DEF Sensible
  <2> QED BY <1>1, <1>3, <2>1, OpensKeeps DEF Busy
<1> QED BY <1>2, <1>3

\* The retirement that ends is that of the process the unit has.
LEMMA RetirementStays ==
    ASSUME IInv, NEW u \in Units, UNCHANGED <<att, failed, proc, barred>>,
           life[u].phase \in {"quiescing", "blocked"}, Busy(u),
           mgr[u].work \in {"none", "preflight", "sealed", "leaving"},
           NEW i \in {"active", "retiring", "unknown", "sleeping"},
           i = "sleeping" => mgr[u].idle = "sleeping" /\ life[u].phase = "sleeping",
           mgr' = [mgr EXCEPT ![u].work = "none", ![u].idle = i]
    PROVE  IInv'
<1>1. /\ CallsSound' /\ LeasesPin' /\ AttemptsOwned'
      /\ life' \in [Units -> LifeType] /\ \A v \in Units : v # u => life'[v] = life[v]
      /\ life'[u].phase \in {"awake", "blocked"} /\ life'[u].owner = life[u].owner
      /\ life'[u].phase = "awake" => life[u].phase = "quiescing"
  BY BusyFacts
<1>2. ManagerSound'
  BY RetiringKeeps DEF IInv
<1>3. mgr[u] \in ManagerType
  BY DEF IInv, ManagerSound
<1>4. /\ \A v \in Units : v # u => mgr'[v] = mgr[v]
      /\ mgr'[u].work = "none" /\ mgr'[u].idle = i /\ mgr'[u].current = mgr[u].current
  BY <1>3 DEF IInv, ManagerSound, ManagerType
<1>5. Default(u)' = Default(u) /\ Serves(u)' = Serves(u)
  BY <1>4 DEF Default, Serves
<1>6. LifeSound'
  BY <1>1, <1>4, <1>5, UnitLives DEF IInv, LifeSound, OpenServes
<1> QED BY <1>1, <1>2, <1>6 DEF IInv

\* A retirement begins, unless the unit is needed.
LEMMA RetireEnterKeeps ==
    ASSUME IInv, NEW u \in Units, RetireEnter(u)
    PROVE  IInv'
<1>1. /\ life[u].phase = "quiescing" /\ mgr[u].work = "none" /\ UNCHANGED <<att, proc, barred, failed>>
      /\ mgr[u] \in ManagerType
  BY DEF RetireEnter, Quiescing, IInv, ManagerSound
<1>2. mgr[u].idle # "sleeping"
  BY <1>1 DEF IInv, LifeSound, AsleepUnits
<1>3. CASE MayRetire(u) /\ mgr' = [mgr EXCEPT ![u].work = "preflight"] /\ UNCHANGED <<life, waiting, lease, call>>
  <2>1. ~Visited(u) /\ ~Depended(u) /\ ~GoneTo(u)
    BY <1>3, LeavingUnvisited DEF MayRetire, IInv
  <2>2. /\ mgr' \in [Units -> ManagerType] /\ \A v \in Units : v # u => mgr'[v] = mgr[v]
        /\ mgr'[u].work = "preflight" /\ mgr'[u].idle = mgr[u].idle /\ mgr'[u].current = mgr[u].current
        /\ mgr'[u].queued = mgr[u].queued /\ mgr'[u].candidate = mgr[u].candidate
    BY <1>1, <1>3 DEF IInv, ManagerSound, ManagerType
  <2>3. Default(u)' = Default(u) /\ Serves(u)' = Serves(u) /\ Replacing(u)' = Replacing(u)
    BY <1>1, <2>2 DEF Default, Serves, Replacing
  <2>4. ~Replacing(u) /\ proc[u][life[u].owner] = "serving"
    BY <1>3 DEF MayRetire, Idle, Serves
  <2>5. ManagerSound'
    BY <1>1, <1>2, <2>1, <2>2, <2>3, <2>4, UnitMoves DEF IInv, ManagerSound
  <2>6. LifeSound'
    BY <1>1, <1>2, <1>3, <2>2, <2>3, <2>4, UnitLives DEF IInv, LifeSound, OpenServes, MayStillRetire
  <2>7. CallsSound' /\ LeasesPin' /\ AttemptsOwned'
    BY <1>1, <1>3, SameCalls DEF IInv, LeasesPin, AttemptsOwned, Starting
  <2> QED BY <2>5, <2>6, <2>7 DEF IInv
<1>4. CASE Busy(u) /\ UNCHANGED mgr
  <2>1. /\ CallsSound' /\ LeasesPin' /\ AttemptsOwned'
        /\ life' \in [Units -> LifeType] /\ \A v \in Units : v # u => life'[v] = life[v]
        /\ life'[u].phase \in {"awake", "blocked"} /\ life'[u].owner = life[u].owner
    BY <1>1, <1>4, BusyFacts
  <2>2. ManagerSound'
    BY <1>1, <1>4, SameManager DEF IInv, ManagerSound
  <2>3. Default(u)' = Default(u) /\ Serves(u)' = Serves(u)
    BY <1>1, <1>4 DEF Default, Serves
  <2>4. LifeSound'
    BY <1>1, <1>2, <1>4, <2>1, <2>3, UnitLives DEF IInv, LifeSound, OpenServes
  <2> QED BY <2>1, <2>2, <2>4 DEF IInv
<1> QED BY <1>3, <1>4 DEF RetireEnter

\* The unit is sealed, unless it is needed.
LEMMA RetireSealKeeps ==
    ASSUME IInv, NEW u \in Units, RetireSeal(u)
    PROVE  IInv'
<1>1. /\ mgr[u].work = "preflight" /\ UNCHANGED <<att, proc, barred, failed>>
      /\ mgr[u] \in ManagerType /\ MayStillRetire(u) /\ life[u].phase \in {"quiescing", "blocked"}
  BY DEF RetireSeal, IInv, ManagerSound, LifeSound, WorkKnown, MayStillRetire
<1>2. mgr[u].idle # "sleeping"
  BY <1>1 DEF IInv, LifeSound, AsleepUnits
<1>3. CASE /\ mgr' = [mgr EXCEPT ![u].work = "sealed", ![u].idle = "retiring"]
           /\ UNCHANGED <<life, waiting, lease, call>>
  <2>1. /\ \A v \in Units : v # u => mgr'[v] = mgr[v]
        /\ mgr'[u].work = "sealed" /\ mgr'[u].idle = "retiring" /\ mgr'[u].current = mgr[u].current
    BY <1>1, <1>3 DEF IInv, ManagerSound, ManagerType
  <2>2. ManagerSound'
    BY <1>1, <1>3, RetiringKeeps DEF IInv
  <2>3. Default(u)' = Default(u) /\ Serves(u)' = Serves(u)
    BY <1>1, <2>1 DEF Default, Serves
  <2>4. LifeSound'
    BY <1>1, <1>3, <2>1, <2>3, UnitLives DEF IInv, LifeSound, OpenServes, MayStillRetire
  <2>5. CallsSound' /\ LeasesPin' /\ AttemptsOwned'
    BY <1>1, <1>3, SameCalls DEF IInv, LeasesPin, AttemptsOwned, Starting
  <2> QED BY <2>2, <2>4, <2>5 DEF IInv
<1>4. CASE mgr' = [mgr EXCEPT ![u].work = "none"] /\ Busy(u)
  <2>1. /\ CallsSound' /\ LeasesPin' /\ AttemptsOwned'
        /\ life' \in [Units -> LifeType] /\ \A v \in Units : v # u => life'[v] = life[v]
        /\ life'[u].phase \in {"awake", "blocked"} /\ life'[u].owner = life[u].owner
        /\ life'[u].phase = "awake" => life[u].phase = "quiescing"
    BY <1>1, <1>4, BusyFacts
  <2>2. /\ mgr' \in [Units -> ManagerType] /\ \A v \in Units : v # u => mgr'[v] = mgr[v]
        /\ mgr'[u].work = "none" /\ mgr'[u].idle = mgr[u].idle /\ mgr'[u].current = mgr[u].current
        /\ mgr'[u].queued = mgr[u].queued /\ mgr'[u].candidate = mgr[u].candidate
    BY <1>1, <1>4 DEF IInv, ManagerSound, ManagerType
  <2>3. Default(u)' = Default(u) /\ Serves(u)' = Serves(u) /\ Replacing(u)' = Replacing(u)
    BY <1>1, <2>2 DEF Default, Serves, Replacing
  <2>4. ManagerSound'
    <3>1. Replacing(u)' => u \in barred' /\ (mgr'[u].candidate # None => mgr'[u].work = "reload")
      BY <1>1, <2>2, <2>3 DEF IInv, ManagerSound, ReplacedBarred
    <3>2. GoneTo(u) => ~Replacing(u)
      BY DEF IInv, ManagerSound, VisitedUp, GoneTo
    <3>3. \A o \in Owners : GoneTo(u) /\ proc[u][o] \in {"serving", "faulted", "retired"} =>
               proc'[u][o] \in {"serving", "faulted", "retired"} /\ ~Replacing(u)'
      BY <1>1, <2>3, <3>2
    <3> QED BY <1>1, <1>2, <2>2, <2>3, <3>1, <3>3, UnitMoves DEF IInv, ManagerSound
  <2>5. LifeSound'
    BY <1>1, <1>2, <2>1, <2>2, <2>3, UnitLives DEF IInv, LifeSound, OpenServes
  <2> QED BY <2>1, <2>4, <2>5 DEF IInv
<1> QED BY <1>3, <1>4 DEF RetireSeal

\* A retirement that ends with a unit that nobody may use.
LEMMA StuckKeeps ==
    ASSUME IInv, NEW u \in Units, UNCHANGED <<att, failed, proc, barred>>,
           mgr[u].work \in {"preflight", "sealed", "leaving"}, Stuck(u),
           mgr' = [mgr EXCEPT ![u].work = "none", ![u].idle = "unknown"]
    PROVE  IInv'
<1>1. life[u].owner # None
  BY BlockedFacts DEF IInv, LifeSound, WorkKnown, MayStillRetire
<1>2. /\ CallsSound' /\ LeasesPin' /\ AttemptsOwned'
      /\ life' \in [Units -> LifeType] /\ \A v \in Units : v # u => life'[v] = life[v]
      /\ life'[u].phase = "blocked"
  BY <1>1, ClosesKeeps DEF Stuck
<1>3. ManagerSound'
  BY RetiringKeeps DEF IInv
<1>4. /\ \A v \in Units : v # u => mgr'[v] = mgr[v]
      /\ mgr'[u].work = "none" /\ mgr'[u].idle = "unknown"
  BY DEF IInv, ManagerSound, ManagerType
<1>5. LifeSound'
  BY <1>2, <1>4, UnitLives DEF IInv
<1> QED BY <1>2, <1>3, <1>5 DEF IInv

\* The unit leaves, unless it is needed.
LEMMA RetireLeaveKeeps ==
    ASSUME IInv, NEW u \in Units, RetireLeave(u)
    PROVE  IInv'
<1>1. /\ mgr[u].work = "sealed" /\ UNCHANGED <<att, proc, barred, failed>>
      /\ mgr[u] \in ManagerType /\ MayStillRetire(u) /\ life[u].phase \in {"quiescing", "blocked"}
  BY DEF RetireLeave, IInv, ManagerSound, LifeSound, WorkKnown, MayStillRetire
<1>2. CASE /\ MayRetire(u) /\ mgr' = [mgr EXCEPT ![u].work = "leaving"]
           /\ UNCHANGED <<life, waiting, lease, call>>
  <2>1. /\ \A v \in Units : v # u => mgr'[v] = mgr[v]
        /\ mgr'[u].work = "leaving" /\ mgr'[u].idle = mgr[u].idle /\ mgr'[u].current = mgr[u].current
        /\ mgr'[u].queued = mgr[u].queued /\ mgr'[u].candidate = mgr[u].candidate
    BY <1>1, <1>2 DEF IInv, ManagerSound, ManagerType
  <2>2. mgr' = [mgr EXCEPT ![u].work = "leaving", ![u].idle = mgr[u].idle]
    BY <1>1, <1>2 DEF IInv, ManagerSound, ManagerType
  <2>3. PICK i \in {"active", "retiring", "unknown", "sleeping"} : i = mgr[u].idle /\ i # "sleeping"
    BY <1>2 DEF MayRetire, Idle
  <2>4. mgr' = [mgr EXCEPT ![u].work = "leaving", ![u].idle = i]
    BY <2>2, <2>3
  <2>5. ManagerSound'
    BY <1>1, <1>2, <2>3, <2>4, RetiringKeeps DEF IInv, MayRetire
  <2>6. Default(u)' = Default(u) /\ Serves(u)' = Serves(u) /\ Replacing(u)' = Replacing(u)
    BY <1>1, <2>1 DEF Default, Serves, Replacing
  <2>7. ~Replacing(u) /\ Serves(u) /\ life[u].owner = Default(u)
    BY <1>2 DEF MayRetire, Idle
  <2>8. life[u].phase = "quiescing"
    BY <1>1, <2>7 DEF MayStillRetire, Serves
  <2>9. LifeSound'
    BY <1>1, <1>2, <2>1, <2>3, <2>6, <2>7, <2>8, UnitLives DEF IInv, LifeSound, OpenServes
  <2>10. CallsSound' /\ LeasesPin' /\ AttemptsOwned'
    BY <1>1, <1>2, SameCalls DEF IInv, LeasesPin, AttemptsOwned, Starting
  <2> QED BY <2>5, <2>9, <2>10 DEF IInv
<1>3. CASE mgr' = [mgr EXCEPT ![u].work = "none", ![u].idle = "unknown"] /\ Stuck(u)
  BY <1>1, <1>3, StuckKeeps
<1>4. CASE mgr' = [mgr EXCEPT ![u].work = "none", ![u].idle = "active"] /\ Busy(u)
  BY <1>1, <1>4, RetirementStays
<1> QED BY <1>2, <1>3, <1>4 DEF RetireLeave

\* The process is not idle and stays.
LEMMA RetireRefusedKeeps ==
    ASSUME IInv, NEW u \in Units, RetireRefused(u)
    PROVE  IInv'
<1>1. /\ mgr[u].work \in {"preflight", "sealed", "leaving"} /\ UNCHANGED <<att, proc, barred, failed>>
      /\ mgr' = [mgr EXCEPT ![u].work = "none", ![u].idle = "active"] /\ Busy(u)
  BY DEF RetireRefused
<1>2. life[u].phase \in {"quiescing", "blocked"}
  BY <1>1 DEF IInv, LifeSound, WorkKnown, MayStillRetire
<1> QED BY <1>1, <1>2, RetirementStays

\* Nobody knows what became of the process.
LEMMA RetireUnknownKeeps ==
    ASSUME IInv, NEW u \in Units, RetireUnknown(u)
    PROVE  IInv'
<1>1. /\ mgr[u].work \in {"sealed", "leaving"} /\ UNCHANGED <<att, barred, failed>>
      /\ mgr' = [mgr EXCEPT ![u].work = "none", ![u].idle = "unknown"] /\ Stuck(u)
      /\ mgr[u] \in ManagerType
  BY DEF RetireUnknown, IInv, ManagerSound
<1>2. life[u].phase \in {"quiescing", "blocked"}
  BY <1>1 DEF IInv, LifeSound, WorkKnown, MayStillRetire
<1>3. CASE mgr[u].work = "sealed" /\ UNCHANGED proc
  BY <1>1, <1>2, <1>3, StuckKeeps
<1>4. CASE mgr[u].work = "leaving" /\ proc' = [proc EXCEPT ![u][Default(u)] = "lost"]
  <2>1. /\ CallsSound' /\ LeasesPin' /\ AttemptsOwned'
        /\ life' \in [Units -> LifeType] /\ \A v \in Units : v # u => life'[v] = life[v]
        /\ life'[u].phase = "blocked"
    <3>1. life[u].owner # None
      BY <1>2, BlockedFacts DEF IInv, LifeSound
    <3> QED BY <1>1, <3>1, ClosesKeeps DEF Stuck
  <2>2. /\ mgr' \in [Units -> ManagerType] /\ \A v \in Units : v # u => mgr'[v] = mgr[v]
        /\ mgr'[u].work = "none" /\ mgr'[u].idle = "unknown" /\ mgr'[u].current = mgr[u].current
        /\ mgr'[u].queued = mgr[u].queued /\ mgr'[u].candidate = mgr[u].candidate
    BY <1>1 DEF IInv, ManagerSound, ManagerType
  <2>3. PICK o \in Owners : o = Default(u)
    BY <1>1, <1>4 DEF IInv, LifeSound, WorkKnown, Serves, ManagerType, Default
  <2>4. proc' = [proc EXCEPT ![u][o] = "lost"]
    BY <1>4, <2>3
  <2>5. /\ proc' \in [Units -> [Owners -> ProcessStates]] /\ \A v \in Units : v # u => proc'[v] = proc[v]
    BY <2>4 DEF IInv, ManagerSound, ProcessStates
  <2>6. ~Visited(u) /\ ~Depended(u) /\ ~GoneTo(u)
    BY <1>4, LeavingUnvisited DEF IInv
  <2>7. ~Replacing(u)'
    BY <1>4, <2>2 DEF IInv, LifeSound, WorkKnown, Replacing
  <2>8. ManagerSound'
    BY <1>1, <2>2, <2>5, <2>6, <2>7, UnitMoves DEF IInv, ManagerSound
  <2>9. LifeSound'
    BY <1>1, <2>1, <2>2, <2>5, UnitLives DEF IInv
  <2> QED BY <2>1, <2>8, <2>9 DEF IInv
<1> QED BY <1>1, <1>3, <1>4 DEF RetireUnknown

\* A unit that fell asleep: its process is gone.
LEMMA SleepsKeeps ==
    ASSUME IInv, NEW u \in Units, life[u].phase = "quiescing",
           life' = [life EXCEPT ![u] = [@ EXCEPT !.phase = "sleeping", !.owner = None]],
           UNCHANGED <<waiting, lease, call, att>>
    PROVE  /\ CallsSound' /\ LeasesPin' /\ AttemptsOwned'
           /\ life' \in [Units -> LifeType] /\ \A v \in Units : v # u => life'[v] = life[v]
           /\ life'[u].phase = "sleeping"
<1>1. life[u] \in LifeType /\ life[u] \in Lives
  BY BlockedFacts DEF IInv, LifeSound
<1>2. /\ life' \in [Units -> LifeType] /\ \A v \in Units : v # u => life'[v] = life[v]
      /\ life'[u].phase = "sleeping"
  <2> DEFINE g == [life[u] EXCEPT !.phase = "sleeping", !.owner = None]
  <2>1. life' = [life EXCEPT ![u] = g]
    OBVIOUS
  <2>2. g \in Lives /\ g.phase = "sleeping" /\ g.owner = None
    BY <1>1 DEF Lives
  <2> HIDE DEF g
  <2>3. g \in LifeType
    BY <2>2, LifeFacts DEF Sensible
  <2> QED BY <2>1, <2>2, <2>3 DEF IInv, LifeSound
<1>3. LeasesPin'
  BY <1>2 DEF IInv, LeasesPin
<1>4. \A v \in Units : Starting(v)' <=> Starting(v)
  BY <1>2 DEF Starting
<1>5. AttemptsOwned'
  BY <1>4 DEF IInv, AttemptsOwned, Attempts
<1>6. CallsSound'
  BY SameCalls DEF IInv
<1> QED BY <1>2, <1>3, <1>5, <1>6

\* A unit whose process is gone starts again at once for the calls that came
\* meanwhile.
LEMMA StartsAgain ==
    ASSUME IInv, NEW u \in Units, life[u].phase = "quiescing", waiting[u] # {},
           life' = [life EXCEPT ![u] = [phase |-> "starting", owner |-> None, fenced |-> FALSE]],
           att' = [att EXCEPT ![u] = Begin], UNCHANGED <<waiting, lease, call>>
    PROVE  /\ CallsSound' /\ LeasesPin' /\ AttemptsOwned'
           /\ life' \in [Units -> LifeType] /\ \A v \in Units : v # u => life'[v] = life[v]
           /\ life'[u].phase = "starting" /\ att[u].state = "none"
           /\ \A v \in Needs(u) : v # u => mgr[v].idle # "sleeping" /\ mgr[v].work # "leaving"
<1>1. /\ life' \in [Units -> LifeType] /\ \A v \in Units : v # u => life'[v] = life[v]
      /\ life'[u].phase = "starting"
  BY DEF IInv, LifeSound, LifeType
<1>2. u \in Attempts /\ u \notin Calls /\ att[u].state = "none"
  BY ClosureFacts DEF IInv, AttemptsOwned, Starting, Attempts
<1>3. PICK c \in Calls : First(c, Unleased(c), u)
  BY DEF IInv, CallsSound, WaitersAsk
<1>4. \A v \in Needs(u) : v # u => mgr[v].idle # "sleeping" /\ mgr[v].work # "leaving"
  BY <1>3, DependenciesUp
<1>5. LeasesPin'
  BY <1>1 DEF IInv, LeasesPin
<1>6. AttemptsOwned'
  <2>1. \A v \in Units : Starting(v) => Starting(v)'
    BY <1>1 DEF Starting
  <2>2. Starting(u)'
    BY <1>1 DEF Starting
  <2>3. \A a \in Attempts : a # u => att'[a] = att[a]
    BY DEF IInv, ManagerSound
  <2> QED BY <1>2, <2>1, <2>2, <2>3 DEF IInv, AttemptsOwned, Attempts
<1>7. CallsSound'
  BY SameCalls DEF IInv
<1> QED BY <1>1, <1>2, <1>4, <1>5, <1>6, <1>7

\* The process was gone already.
LEMMA RetireProvenKeeps ==
    ASSUME IInv, NEW u \in Units, RetireProven(u)
    PROVE  IInv'
<1>1. /\ life[u].phase = "quiescing" /\ mgr[u].work = "none" /\ Slept(u)
      /\ UNCHANGED <<waiting, lease, call, mgr, proc, barred, failed>>
  BY DEF RetireProven, Quiescing
<1>2. /\ CallsSound' /\ LeasesPin' /\ AttemptsOwned'
      /\ life' \in [Units -> LifeType] /\ \A v \in Units : v # u => life'[v] = life[v]
      /\ life'[u].phase \in {"sleeping", "starting"}
      /\ \/ UNCHANGED att
         \/ /\ att' = [att EXCEPT ![u] = Begin] /\ att[u].state = "none"
            /\ \A v \in Needs(u) : v # u => mgr[v].idle # "sleeping" /\ mgr[v].work # "leaving"
  <2>1. CASE waiting[u] = {}
    BY <1>1, <2>1, SleepsKeeps DEF Slept
  <2>2. CASE waiting[u] # {}
    BY <1>1, <2>2, StartsAgain DEF Slept
  <2> QED BY <2>1, <2>2
<1>3. Default(u)' = Default(u) /\ Serves(u)' = Serves(u) /\ Replacing(u)' = Replacing(u)
  BY <1>1 DEF Default, Serves, Replacing
<1>4. ManagerSound'
  <2>1. Visited(u) \/ Depended(u) => mgr[u].idle # "sleeping"
    BY ClosureFacts DEF Visited, Depended, IInv, ManagerSound, VisitsCount, StartsOwnOnly, Attempts
  <2>2. GoneTo(u) => ~Replacing(u)
    BY DEF IInv, ManagerSound, VisitedUp, GoneTo
  <2>3. Replacing(u) => u \in barred /\ (mgr[u].candidate # None => mgr[u].work = "reload")
    BY DEF IInv, ManagerSound, ReplacedBarred
  <2>4. mgr[u].idle = "sleeping" => Default(u) = None
    BY DEF IInv, ManagerSound, SleepersGone
  <2> QED BY <1>1, <1>2, <1>3, <2>1, <2>2, <2>3, <2>4, UnitMoves DEF IInv, ManagerSound
<1>5. LifeSound'
  BY <1>1, <1>2, UnitLives DEF IInv, LifeSound
<1> QED BY <1>2, <1>4, <1>5 DEF IInv

\* The process exits, and nobody has visited it or depends on it.
LEMMA RetireExitKeeps ==
    ASSUME IInv, NEW u \in Units, RetireExit(u)
    PROVE  IInv'
<1>1. /\ mgr[u].work = "leaving" /\ Serves(u) /\ Slept(u)
      /\ proc' = [proc EXCEPT ![u][Default(u)] = "slept"]
      /\ mgr' = [mgr EXCEPT ![u].work = "none", ![u].idle = "sleeping", ![u].current = None]
      /\ UNCHANGED <<waiting, lease, call, barred, failed>>
      /\ mgr[u] \in ManagerType
  BY DEF RetireExit, IInv, ManagerSound
<1>2. life[u].phase = "quiescing" /\ ~Replacing(u)
  BY <1>1 DEF IInv, LifeSound, WorkKnown
<1>3. /\ CallsSound' /\ LeasesPin' /\ AttemptsOwned'
      /\ life' \in [Units -> LifeType] /\ \A v \in Units : v # u => life'[v] = life[v]
      /\ life'[u].phase \in {"sleeping", "starting"}
      /\ \/ UNCHANGED att
         \/ /\ att' = [att EXCEPT ![u] = Begin] /\ att[u].state = "none"
            /\ \A v \in Needs(u) : v # u => mgr[v].idle # "sleeping" /\ mgr[v].work # "leaving"
  <2>1. CASE waiting[u] = {}
    BY <1>1, <1>2, <2>1, SleepsKeeps DEF Slept
  <2>2. CASE waiting[u] # {}
    BY <1>1, <1>2, <2>2, StartsAgain DEF Slept
  <2> QED BY <2>1, <2>2
<1>4. PICK o \in Owners : o = Default(u)
  BY <1>1 DEF Serves, ManagerType, Default
<1>5. proc' = [proc EXCEPT ![u][o] = "slept"]
  BY <1>1, <1>4
<1>6. /\ proc' \in [Units -> [Owners -> ProcessStates]] /\ \A v \in Units : v # u => proc'[v] = proc[v]
  BY <1>5 DEF IInv, ManagerSound, ProcessStates
<1>7. /\ mgr' \in [Units -> ManagerType] /\ \A v \in Units : v # u => mgr'[v] = mgr[v]
      /\ mgr'[u].work = "none" /\ mgr'[u].idle = "sleeping" /\ mgr'[u].current = None
      /\ mgr'[u].queued = mgr[u].queued /\ mgr'[u].candidate = mgr[u].candidate
  BY <1>1 DEF IInv, ManagerSound, ManagerType
<1>8. ~Visited(u) /\ ~Depended(u) /\ ~GoneTo(u)
  BY <1>1, LeavingUnvisited DEF IInv
<1>9. ~Replacing(u)' /\ Default(u)' = None
  BY <1>2, <1>7 DEF Replacing, Default
<1>10. ManagerSound'
  BY <1>1, <1>3, <1>6, <1>7, <1>8, <1>9, UnitMoves DEF IInv, ManagerSound
<1>11. LifeSound'
  BY <1>1, <1>3, <1>6, <1>7, UnitLives DEF IInv
<1> QED BY <1>3, <1>10, <1>11 DEF IInv

\* A unit without leases is about to retire.
LEMMA IdleTimerKeeps ==
    ASSUME IInv, NEW u \in Units, IdleTimer(u)
    PROVE  IInv'
<1>1. /\ life[u].phase = "awake" /\ Leases(u) = {} /\ life' = [life EXCEPT ![u].phase = "quiescing"]
      /\ UNCHANGED <<waiting, lease, call, att, mgr, proc, barred, failed>>
  BY DEF IdleTimer
<1>2. life[u] \in LifeType /\ life[u] \in Lives /\ life[u].owner # None
  BY <1>1, BlockedFacts DEF IInv, LifeSound
<1>3. /\ life' \in [Units -> LifeType] /\ \A v \in Units : v # u => life'[v] = life[v]
      /\ life'[u].phase = "quiescing" /\ life'[u].owner = life[u].owner
  <2> DEFINE g == [life[u] EXCEPT !.phase = "quiescing"]
  <2>1. life' = [life EXCEPT ![u] = g]
    BY <1>1
  <2>2. g \in Lives /\ g.phase = "quiescing" /\ g.owner = life[u].owner
    BY <1>2 DEF Lives
  <2> HIDE DEF g
  <2>3. g \in LifeType
    BY <1>2, <2>2, LifeFacts DEF Sensible
  <2> QED BY <2>1, <2>2, <2>3 DEF IInv, LifeSound
<1>4. mgr[u].work \notin {"preflight", "sealed", "leaving"} /\ mgr[u].idle # "sleeping"
  BY <1>1 DEF IInv, LifeSound, WorkKnown, MayStillRetire, AsleepUnits
<1>5. LifeSound'
  BY <1>1, <1>3, <1>4, LifeKeeps DEF IInv, LifeSound, OpenServes
<1>6. ManagerSound' /\ CallsSound'
  BY <1>1, SameManager, SameCalls DEF IInv, ManagerSound
<1>7. LeasesPin'
  BY <1>1, <1>3 DEF IInv, LeasesPin, Leases
<1>8. AttemptsOwned'
  <2>1. \A v \in Units : Starting(v)' <=> Starting(v)
    BY <1>1, <1>3 DEF Starting
  <2> QED BY <1>1, <2>1 DEF IInv, AttemptsOwned, Attempts
<1> QED BY <1>5, <1>6, <1>7, <1>8 DEF IInv

-----------------------------------------------------------------------------
(* Starts and barriers.                                                     *)

\* The start of a unit is over, whatever came of it.
LEMMA StartOver ==
    ASSUME IInv, NEW u \in Units, life[u].phase = "starting", att[u].state # "running",
           att' = [att EXCEPT ![u] = NoAttempt], UNCHANGED <<mgr, proc, barred>>,
           failed' \in [Units -> AttemptType],
           life' \in [Units -> LifeType], \A v \in Units : v # u => life'[v] = life[v],
           life'[u].phase \in {"sleeping", "awake", "blocked"},
           mgr[u].idle = "sleeping" => life'[u].phase = "sleeping",
           life'[u].phase = "awake" /\ u \notin barred => life'[u].owner = Default(u) /\ Serves(u),
           CallsSound',
           \A d \in Calls : call[d] \in HasHold \/ call'[d] \in HasHold => call'[d] = call[d],
           \A d \in Calls, v \in Units : v # u /\ lease'[d][v] # None => lease'[d][v] = lease[d][v],
           \A d \in Calls : lease'[d][u] # None => lease[d][u] # None \/ life'[u].phase = "awake"
    PROVE  IInv'
<1>1. u \in Attempts /\ u \notin Calls
  BY ClosureFacts DEF Attempts
<1>2. /\ \A a \in Attempts : att'[a] = IF a = u THEN NoAttempt ELSE att[a]
      /\ att' \in [Attempts -> AttemptType]
  BY <1>1, AttemptFacts DEF IInv, ManagerSound
<1>3. ManagerSound'
  <2>1. \A v \in Units : att'[v] # att[v] => att'[v] = NoAttempt
    BY <1>2 DEF Attempts
  <2> QED BY <1>2, <2>1, ResetKeeps DEF IInv, ManagerSound
<1>4. LifeSound'
  <2>1. mgr[u].work \notin {"preflight", "sealed", "leaving"}
    BY DEF IInv, LifeSound, WorkKnown, MayStillRetire
  <2> QED BY <2>1, LifeKeeps DEF IInv
<1>5. LeasesPin'
  BY DEF IInv, LeasesPin
<1>6. AttemptsOwned'
  <2>1. \A v \in Units : v # u => (Starting(v)' <=> Starting(v))
    BY DEF Starting
  <2>2. ASSUME NEW a \in Attempts, att'[a].state # "none"
        PROVE  IF a \in Calls THEN call'[a] \in HasHold ELSE Starting(a)'
    <3>1. a # u /\ att[a].state # "none"
      BY <1>2, <2>2, AttemptFacts
    <3> QED BY <2>1, <3>1 DEF IInv, AttemptsOwned, Attempts
  <2>3. ASSUME NEW c \in Calls, call'[c] = "held" PROVE att'[c].state = "ready"
    <3>1. c \in Attempts /\ c # u /\ call[c] = "held"
      BY <1>1, <2>3 DEF HasHold, Attempts
    <3> QED BY <1>2, <3>1 DEF IInv, AttemptsOwned
  <2> QED BY <2>2, <2>3 DEF AttemptsOwned
<1> QED BY <1>3, <1>4, <1>5, <1>6 DEF IInv

\* A unit is up, and open unless it was fenced meanwhile.
LEMMA StartEndsKeeps ==
    ASSUME IInv, NEW u \in Units, StartEnds(u)
    PROVE  IInv'
<1>1. /\ life[u].phase = "starting" /\ att[u].state = "ready" /\ att' = [att EXCEPT ![u] = NoAttempt]
      /\ UNCHANGED <<mgr, proc, barred, failed>>
      /\ u \in Attempts /\ u \in Needs(u) /\ att[u] \in AttemptType
  BY ClosureFacts DEF StartEnds, Starting, Attempts, IInv, ManagerSound
<1>2. att[u].got[u] # None
  BY <1>1 DEF IInv, ManagerSound, ReadyVisited, Unvisited
<1>3. PICK o \in Owners : o = att[u].got[u]
  BY <1>1, <1>2 DEF AttemptType
<1>4. mgr[u].idle # "sleeping"
  BY <1>1, <1>2 DEF IInv, ManagerSound, VisitsCount, Did
<1>5. u \notin barred => o = Default(u) /\ Serves(u)
  BY <1>1, <1>2, <1>3 DEF IInv, ManagerSound, StartsCurrent, Going
<1>6. PICK p \in {"awake", "blocked"} : p = IF life[u].fenced THEN "blocked" ELSE "awake"
  OBVIOUS
<1>7. /\ life' \in [Units -> LifeType] /\ \A v \in Units : v # u => life'[v] = life[v]
      /\ life'[u].phase = p /\ life'[u].owner = o
  <2> DEFINE g == [life[u] EXCEPT !.owner = o, !.phase = p]
  <2>1. life' = [life EXCEPT ![u] = g]
    BY <1>3, <1>6 DEF StartEnds
  <2>2. life[u] \in Lives
    BY BlockedFacts DEF IInv, LifeSound
  <2>3. g \in Lives /\ g.phase = p /\ g.owner = o /\ g.fenced = life[u].fenced
    BY <2>2 DEF Lives
  <2> HIDE DEF g
  <2>4. g \in LifeType
    BY <1>6, <2>3, OwnerFacts, LifeFacts DEF Sensible
  <2> QED BY <2>1, <2>3, <2>4 DEF IInv, LifeSound
<1>8. CASE life[u].fenced
  <2>1. RejectWaiters(u) /\ p = "blocked"
    BY <1>6, <1>8 DEF StartEnds
  <2>2. /\ CallsSound'
        /\ \A d \in Calls : call[d] \in HasHold \/ call'[d] \in HasHold => call'[d] = call[d]
        /\ \A d \in Calls, v \in Units : lease'[d][v] # None => lease'[d][v] = lease[d][v]
    BY <2>1, RejectKeeps DEF IInv
  <2> QED BY <1>1, <1>4, <1>7, <2>1, <2>2, StartOver DEF IInv, ManagerSound
<1>9. CASE ~life[u].fenced
  <2>1. Deliver(u, o) /\ p = "awake"
    BY <1>3, <1>6, <1>9 DEF StartEnds
  <2>2. /\ CallsSound' /\ call' = call
        /\ \A d \in Calls, v \in Units : v # u => lease'[d][v] = lease[d][v]
    BY <2>1, DeliverKeeps DEF IInv
  <2> QED BY <1>1, <1>4, <1>5, <1>7, <2>1, <2>2, StartOver DEF IInv, ManagerSound
<1> QED BY <1>8, <1>9

\* Nothing was started: the unit sleeps again.
LEMMA StartNotDispatchedKeeps ==
    ASSUME IInv, NEW u \in Units, StartNotDispatched(u)
    PROVE  IInv'
<1>1. /\ life[u].phase = "starting" /\ att[u].state = "failed" /\ att' = [att EXCEPT ![u] = NoAttempt]
      /\ UNCHANGED <<mgr, proc, barred, failed>> /\ RejectWaiters(u)
  BY DEF StartNotDispatched, Starting
<1>2. /\ life' \in [Units -> LifeType] /\ \A v \in Units : v # u => life'[v] = life[v]
      /\ life'[u].phase = "sleeping"
  <2> DEFINE g == [life[u] EXCEPT !.phase = "sleeping"]
  <2>1. life' = [life EXCEPT ![u] = g]
    BY DEF StartNotDispatched
  <2>2. life[u] \in Lives /\ life[u].owner = None
    BY <1>1, BlockedFacts DEF IInv, LifeSound
  <2>3. g \in Lives /\ g.phase = "sleeping" /\ g.owner = None
    BY <2>2 DEF Lives
  <2> HIDE DEF g
  <2>4. g \in LifeType
    BY <2>3, LifeFacts DEF Sensible
  <2> QED BY <2>1, <2>3, <2>4 DEF IInv, LifeSound
<1>3. /\ CallsSound'
      /\ \A d \in Calls : call[d] \in HasHold \/ call'[d] \in HasHold => call'[d] = call[d]
      /\ \A d \in Calls, v \in Units : lease'[d][v] # None => lease'[d][v] = lease[d][v]
  BY <1>1, RejectKeeps DEF IInv
<1> QED BY <1>1, <1>2, <1>3, StartOver DEF IInv, ManagerSound

\* Something was started: the unit is closed, the hold of the attempt stays.
LEMMA StartUnknownKeeps ==
    ASSUME IInv, NEW u \in Units, StartUnknown(u)
    PROVE  IInv'
<1>1. /\ life[u].phase = "starting" /\ att[u].state = "failed" /\ att[u].started # {}
      /\ failed' = [failed EXCEPT ![u] = att[u]] /\ att' = [att EXCEPT ![u] = NoAttempt]
      /\ UNCHANGED <<mgr, proc, barred>> /\ RejectWaiters(u)
      /\ u \in Attempts /\ att[u] \in AttemptType
  BY DEF StartUnknown, Starting, Attempts, IInv, ManagerSound
<1>2. \E o \in Owners : <<u, o>> \in att[u].started
  <2>1. PICK s \in att[u].started : s[1] = u
    BY <1>1 DEF IInv, ManagerSound, StartsOwnOnly
  <2>2. s \in Units \X Owners
    BY <1>1 DEF AttemptType
  <2> QED BY <2>1, <2>2
<1>3. PICK o \in Owners : o = StartedOwner(u, att[u])
  BY <1>2 DEF StartedOwner
<1>4. mgr[u].idle # "sleeping"
  BY <1>1, <1>2 DEF IInv, ManagerSound, VisitsCount, Did
<1>5. /\ life' \in [Units -> LifeType] /\ \A v \in Units : v # u => life'[v] = life[v]
      /\ life'[u].phase = "blocked"
  <2> DEFINE g == [Blocked(life[u]) EXCEPT !.owner = o]
  <2>1. life' = [life EXCEPT ![u] = g]
    BY <1>3 DEF StartUnknown
  <2>2. life[u] \in Lives
    BY BlockedFacts DEF IInv, LifeSound
  <2>3. g \in Lives /\ g.phase = "blocked" /\ g.owner = o /\ g.fenced = TRUE
    BY <2>2 DEF Blocked, Lives
  <2> HIDE DEF g
  <2>4. g \in LifeType
    BY <2>3, OwnerFacts, LifeFacts DEF Sensible
  <2> QED BY <2>1, <2>3, <2>4 DEF IInv, LifeSound
<1>6. /\ CallsSound'
      /\ \A d \in Calls : call[d] \in HasHold \/ call'[d] \in HasHold => call'[d] = call[d]
      /\ \A d \in Calls, v \in Units : lease'[d][v] # None => lease'[d][v] = lease[d][v]
  BY <1>1, RejectKeeps DEF IInv
<1>7. failed' \in [Units -> AttemptType]
  BY <1>1 DEF IInv, ManagerSound
<1> QED BY <1>1, <1>4, <1>5, <1>6, <1>7, StartOver DEF IInv

\* A barrier comes or goes.
LEMMA BarrierKeeps ==
    ASSUME IInv, NEW u \in Units, failed' \in [Units -> AttemptType], UNCHANGED <<att, mgr, proc>>,
           \/ barred' = barred \cup {u}
           \/ barred' = barred \ {u} /\ att[u].state = "none" /\ ~Replacing(u)
    PROVE  ManagerSound'
<1>1. Default(u)' = Default(u) /\ Serves(u)' = Serves(u) /\ Replacing(u)' = Replacing(u)
  BY DEF Default, Serves, Replacing
<1>2. Visited(u) \/ Depended(u) => mgr[u].idle # "sleeping" /\ mgr[u].work # "leaving"
  BY ClosureFacts DEF Visited, Depended, IInv, ManagerSound, VisitsCount, StartsOwnOnly, Attempts
<1>3. GoneTo(u) => ~Replacing(u)
  BY DEF IInv, ManagerSound, VisitedUp, GoneTo
<1>4. Replacing(u) => u \in barred /\ (mgr[u].candidate # None => mgr[u].work = "reload")
  BY DEF IInv, ManagerSound, ReplacedBarred
<1>5. mgr[u].idle = "sleeping" => Default(u) = None
  BY DEF IInv, ManagerSound, SleepersGone
<1> QED BY <1>1, <1>2, <1>3, <1>4, <1>5, UnitMoves DEF IInv, ManagerSound

\* What a start left behind is gone: its hold ends behind a barrier.
LEMMA ReconcileStartKeeps ==
    ASSUME IInv, NEW u \in Units, ReconcileStart(u)
    PROVE  IInv'
<1>1. /\ failed' = [failed EXCEPT ![u] = NoAttempt] /\ barred' = barred \cup {u}
      /\ UNCHANGED <<life, waiting, lease, call, att, mgr, proc>>
  BY DEF ReconcileStart
<1>2. ManagerSound'
  BY <1>1, AttemptFacts, BarrierKeeps DEF IInv, ManagerSound
<1>3. LifeSound'
  <2>1. Default(u)' = Default(u) /\ Serves(u)' = Serves(u) /\ Replacing(u)' = Replacing(u)
    BY <1>1 DEF Default, Serves, Replacing
  <2> QED BY <1>1, <2>1, UnitLives DEF IInv, LifeSound, AsleepUnits, OpenServes, WorkKnown, MayStillRetire
<1>4. CallsSound' /\ LeasesPin' /\ AttemptsOwned'
  BY <1>1, SameCalls DEF IInv, LeasesPin, AttemptsOwned, Starting
<1> QED BY <1>2, <1>3, <1>4 DEF IInv

\* A unit whose process is gone sleeps, and opens when nothing replaces it.
LEMMA UnbarKeeps ==
    ASSUME IInv, NEW u \in Units, Unbar(u)
    PROVE  IInv'
<1>1. /\ Leases(u) = {} /\ life[u].phase \notin {"starting", "quiescing"}
      /\ UNCHANGED <<waiting, lease, call, att, mgr, proc, failed>>
  BY DEF Unbar
<1>2. /\ \/ Retirable(u) /\ life' = [life EXCEPT ![u].phase = "sleeping", ![u].owner = None]
         \/ life[u].phase = "sleeping" /\ life' = life
      /\ barred' = barred \/ (barred' = barred \ {u} /\ ~Replacing(u))
  BY DEF Unbar, Reopens
<1>3. /\ life' \in [Units -> LifeType] /\ \A v \in Units : v # u => life'[v] = life[v]
      /\ life'[u].phase = "sleeping"
  <2>1. CASE life[u].phase = "sleeping" /\ life' = life
    BY <2>1 DEF IInv, LifeSound
  <2>2. CASE life' = [life EXCEPT ![u].phase = "sleeping", ![u].owner = None]
    <3> DEFINE g == [life[u] EXCEPT !.phase = "sleeping", !.owner = None]
    <3>1. life' = [life EXCEPT ![u] = g]
      BY <2>2
    <3>2. life[u] \in Lives
      BY BlockedFacts DEF IInv, LifeSound
    <3>3. g \in Lives /\ g.phase = "sleeping" /\ g.owner = None
      BY <3>2 DEF Lives
    <3> HIDE DEF g
    <3>4. g \in LifeType
      BY <3>3, LifeFacts DEF Sensible
    <3> QED BY <3>1, <3>3, <3>4 DEF IInv, LifeSound
  <2> QED BY <1>2, <2>1, <2>2
<1>4. mgr[u].work \notin {"preflight", "sealed", "leaving"}
  BY <1>1, <1>2 DEF IInv, LifeSound, WorkKnown, MayStillRetire, Retirable, Proven
<1>5. att[u].state = "none"
  BY <1>1, ClosureFacts DEF IInv, AttemptsOwned, Starting, Attempts
<1>6. ManagerSound'
  <2>1. CASE barred' = barred
    BY <1>1, <2>1, SameManager DEF IInv, ManagerSound
  <2>2. CASE barred' = barred \ {u} /\ ~Replacing(u)
    BY <1>1, <1>5, <2>2, BarrierKeeps DEF IInv, ManagerSound
  <2> QED BY <1>2, <2>1, <2>2
<1>7. LifeSound'
  BY <1>1, <1>2, <1>3, <1>4, UnitLives DEF IInv
<1>8. CallsSound'
  BY <1>1, SameCalls DEF IInv
<1>9. LeasesPin'
  BY <1>1, <1>3 DEF IInv, LeasesPin, Leases
<1>10. AttemptsOwned'
  <2>1. \A v \in Units : Starting(v)' <=> Starting(v)
    BY <1>1, <1>3 DEF Starting
  <2> QED BY <1>1, <2>1 DEF IInv, AttemptsOwned, Attempts
<1> QED BY <1>6, <1>7, <1>8, <1>9, <1>10 DEF IInv

-----------------------------------------------------------------------------
(* Faults, recovery and replacement.                                        *)

\* A fence closes the unit for the incarnation that is fenced.
LEMMA FenceFacts ==
    ASSUME IInv, NEW u \in Units, NEW o \in Owners, Fence(u, o), UNCHANGED att
    PROVE  /\ CallsSound' /\ LeasesPin' /\ AttemptsOwned'
           /\ barred' = barred \cup {u}
           /\ life' \in [Units -> LifeType] /\ \A v \in Units : v # u => life'[v] = life[v]
           /\ life'[u].owner = life[u].owner
           /\ life[u].owner = o => life'[u].phase = "blocked"
           /\ life[u].owner # o => life' = life
<1>1. CASE life[u].owner = o
  <2>1. life[u].owner # None
    BY <1>1, OwnerFacts
  <2> QED BY <1>1, <2>1, ClosesKeeps DEF Fence
<1>2. CASE life[u].owner # o
  <2>1. UNCHANGED <<life, waiting, lease, call>>
    BY <1>2 DEF Fence
  <2>2. CallsSound' /\ LeasesPin' /\ AttemptsOwned'
    BY <2>1, SameCalls DEF IInv, LeasesPin, AttemptsOwned, Starting
  <2> QED BY <1>2, <2>1, <2>2 DEF Fence, IInv, LifeSound
<1> QED BY <1>1, <1>2

\* One incarnation changes.
LEMMA ProcessFacts ==
    ASSUME IInv, NEW u \in Units, NEW o \in Owners, NEW p \in ProcessStates,
           proc' = [proc EXCEPT ![u][o] = p]
    PROVE  /\ proc' \in [Units -> [Owners -> ProcessStates]]
           /\ \A v \in Units : v # u => proc'[v] = proc[v]
           /\ proc'[u][o] = p /\ \A q \in Owners : q # o => proc'[u][q] = proc[u][q]
BY DEF IInv, ManagerSound

\* What the parts of the invariant say of one unit.
LEMMA UnitFacts ==
    ASSUME IInv, NEW u \in Units
    PROVE  /\ mgr[u] \in ManagerType /\ life[u] \in LifeType
           /\ Visited(u) \/ Depended(u) => mgr[u].idle # "sleeping" /\ mgr[u].work # "leaving"
           /\ GoneTo(u) => ~Replacing(u)
           /\ mgr[u].work = "wake" => Default(u) = None /\ ~Replacing(u)
           /\ Replacing(u) => u \in barred /\ (mgr[u].candidate # None => mgr[u].work = "reload")
           /\ mgr[u].idle = "sleeping" => Default(u) = None /\ life[u].phase \in {"sleeping", "starting"}
           /\ life[u].phase \in {"awake", "quiescing"} /\ u \notin barred =>
                 life[u].owner = Default(u) /\ Serves(u)
           /\ mgr[u].work \in {"preflight", "sealed"} => MayStillRetire(u)
           /\ mgr[u].work = "leaving" =>
                 life[u].phase = "quiescing" /\ life[u].owner = Default(u) /\ Serves(u) /\ ~Replacing(u)
<1>1. mgr[u] \in ManagerType /\ life[u] \in LifeType
  BY DEF IInv, ManagerSound, LifeSound
<1>2. Visited(u) \/ Depended(u) => mgr[u].idle # "sleeping" /\ mgr[u].work # "leaving"
  BY ClosureFacts DEF Visited, Depended, IInv, ManagerSound, VisitsCount, StartsOwnOnly, Attempts
<1>3. GoneTo(u) => ~Replacing(u)
  BY DEF IInv, ManagerSound, VisitedUp, GoneTo
<1>4. mgr[u].work = "wake" => Default(u) = None /\ ~Replacing(u)
  BY DEF IInv, ManagerSound, WakesGoOn
<1>5. /\ Replacing(u) => u \in barred /\ (mgr[u].candidate # None => mgr[u].work = "reload")
      /\ mgr[u].idle = "sleeping" => Default(u) = None /\ life[u].phase \in {"sleeping", "starting"}
  BY DEF IInv, ManagerSound, ReplacedBarred, SleepersGone, LifeSound, AsleepUnits
<1>6. /\ life[u].phase \in {"awake", "quiescing"} /\ u \notin barred => life[u].owner = Default(u) /\ Serves(u)
      /\ mgr[u].work \in {"preflight", "sealed"} => MayStillRetire(u)
      /\ mgr[u].work = "leaving" =>
            life[u].phase = "quiescing" /\ life[u].owner = Default(u) /\ Serves(u) /\ ~Replacing(u)
  BY DEF IInv, LifeSound, OpenServes, WorkKnown
<1> QED BY <1>1, <1>2, <1>3, <1>4, <1>5, <1>6

\* A process crashes.
LEMMA FaultKeeps ==
    ASSUME IInv, NEW u \in Units, NEW o \in Owners, Fault(u, o)
    PROVE  IInv'
<1>1. /\ proc[u][o] \in {"serving", "draining"} /\ ~(mgr[u].work = "leaving" /\ o = Default(u))
      /\ proc' = [proc EXCEPT ![u][o] = "faulted"] /\ Fence(u, o) /\ UNCHANGED <<att, mgr, failed>>
  BY DEF Fault
<1>2. /\ CallsSound' /\ LeasesPin' /\ AttemptsOwned'
      /\ barred' = barred \cup {u}
      /\ life' \in [Units -> LifeType] /\ \A v \in Units : v # u => life'[v] = life[v]
      /\ life'[u].owner = life[u].owner
      /\ life[u].owner = o => life'[u].phase = "blocked"
      /\ life[u].owner # o => life' = life
  BY <1>1, FenceFacts
<1>3. /\ proc' \in [Units -> [Owners -> ProcessStates]]
      /\ \A v \in Units : v # u => proc'[v] = proc[v]
      /\ proc'[u][o] = "faulted" /\ \A q \in Owners : q # o => proc'[u][q] = proc[u][q]
  BY <1>1, ProcessFacts DEF ProcessStates
<1>4. Default(u)' = Default(u) /\ Replacing(u)' = Replacing(u) /\ Default(u) \in Owners \cup {None}
  BY <1>1, UnitFacts, ManagerFacts DEF Default, Replacing
<1>5. ManagerSound'
  BY <1>1, <1>2, <1>3, <1>4, UnitFacts, UnitMoves DEF IInv, ManagerSound
<1>6. mgr[u].idle = "sleeping" => life'[u].phase \in {"sleeping", "starting"}
  <2>1. mgr[u].idle = "sleeping" => life[u].owner = None
    BY UnitFacts, BlockedFacts
  <2> QED BY <1>2, <2>1, OwnerFacts, UnitFacts
<1>7. mgr[u].work \in {"preflight", "sealed"} => MayStillRetire(u)'
  <2>1. life[u].owner \in Owners \cup {None} /\ (life[u].phase = "quiescing" => life[u].owner # None)
    BY UnitFacts, BlockedFacts DEF Lives
  <2> QED BY <1>1, <1>2, <1>3, <2>1, UnitFacts, BlockedFacts DEF MayStillRetire, Lives
<1>8. mgr[u].work = "leaving" =>
          life'[u].phase = "quiescing" /\ life'[u].owner = Default(u)' /\ Serves(u)' /\ ~Replacing(u)'
  BY <1>1, <1>2, <1>3, <1>4, UnitFacts DEF Serves
<1>9. LifeSound'
  BY <1>1, <1>2, <1>3, <1>6, <1>7, <1>8, UnitLives DEF IInv
<1> QED BY <1>2, <1>5, <1>9 DEF IInv

\* A crashed process recovers as a new incarnation.
LEMMA RespawnKeeps ==
    ASSUME IInv, NEW u \in Units, NEW o \in Owners, Respawn(u, o)
    PROVE  IInv'
<1>1. /\ Default(u) # None /\ proc[u][Default(u)] = "faulted" /\ proc[u][o] = "none"
      /\ proc' = [proc EXCEPT ![u][o] = "serving"] /\ mgr' = [mgr EXCEPT ![u].current = o]
      /\ UNCHANGED <<life, waiting, lease, call, att, barred, failed>>
  BY DEF Respawn, Fresh
<1>2. /\ proc' \in [Units -> [Owners -> ProcessStates]]
      /\ \A v \in Units : v # u => proc'[v] = proc[v]
      /\ proc'[u][o] = "serving" /\ \A q \in Owners : q # o => proc'[u][q] = proc[u][q]
  BY <1>1, ProcessFacts DEF ProcessStates
<1>3. /\ mgr' \in [Units -> ManagerType] /\ \A v \in Units : v # u => mgr'[v] = mgr[v]
      /\ mgr'[u].work = mgr[u].work /\ mgr'[u].idle = mgr[u].idle /\ mgr'[u].current = o
      /\ mgr'[u].queued = mgr[u].queued /\ mgr'[u].candidate = mgr[u].candidate
  BY <1>1, UnitFacts DEF IInv, ManagerSound, ManagerType
<1>4. Replacing(u)' = Replacing(u) /\ ~Serves(u)
  BY <1>1, <1>3 DEF Replacing, Serves
<1>5. mgr[u].idle # "sleeping" /\ mgr[u].work \notin {"leaving", "wake"}
  BY <1>1, <1>4, UnitFacts
<1>7. ManagerSound'
  BY <1>1, <1>2, <1>3, <1>4, <1>5, UnitFacts, UnitMoves DEF IInv, ManagerSound
<1>8. mgr[u].work \in {"preflight", "sealed"} => MayStillRetire(u)'
  <2>1. life[u].owner \in Owners \cup {None} /\ (life[u].phase \in {"quiescing", "blocked"} => life[u].owner # None)
    BY UnitFacts, BlockedFacts DEF Lives
  <2> QED BY <1>1, <1>2, <2>1, UnitFacts DEF MayStillRetire
<1>9. LifeSound'
  BY <1>1, <1>2, <1>3, <1>4, <1>5, <1>8, UnitFacts, UnitLives DEF IInv, LifeSound
<1>10. CallsSound' /\ LeasesPin' /\ AttemptsOwned'
  BY <1>1, SameCalls DEF IInv, LeasesPin, AttemptsOwned, Starting
<1> QED BY <1>7, <1>9, <1>10 DEF IInv

\* An incarnation that nobody uses is gone.
LEMMA RetireKeeps ==
    ASSUME IInv, NEW u \in Units, NEW o \in Owners, Retire(u, o)
    PROVE  IInv'
<1>1. /\ mgr[u].work = "none" /\ Default(u) # o /\ proc[u][o] \in {"faulted", "draining"}
      /\ proc' = [proc EXCEPT ![u][o] = IF @ = "draining" THEN "collected" ELSE "retired"]
      /\ UNCHANGED <<life, waiting, lease, call, att, mgr, barred, failed>>
  BY DEF Retire
<1>0. PICK p \in {"collected", "retired"} : p = IF proc[u][o] = "draining" THEN "collected" ELSE "retired"
  OBVIOUS
<1>2. /\ proc' \in [Units -> [Owners -> ProcessStates]]
      /\ \A v \in Units : v # u => proc'[v] = proc[v]
      /\ proc'[u][o] = p /\ \A q \in Owners : q # o => proc'[u][q] = proc[u][q]
  <2>1. p \in ProcessStates /\ proc' = [proc EXCEPT ![u][o] = p]
    BY <1>0, <1>1 DEF ProcessStates
  <2> QED BY <2>1, ProcessFacts
<1>3. /\ Default(u)' = Default(u) /\ Replacing(u)' = Replacing(u) /\ Default(u) \in Owners \cup {None}
      /\ Serves(u) => Serves(u)'
  BY <1>1, <1>2, UnitFacts, ManagerFacts DEF Default, Replacing, Serves
<1>4. \A q \in Owners : proc[u][q] \in {"serving", "faulted", "retired"} =>
          proc'[u][q] \in {"serving", "faulted", "retired"}
  BY <1>0, <1>2
<1>5. ManagerSound'
  BY <1>1, <1>2, <1>3, <1>4, UnitFacts, UnitMoves DEF IInv, ManagerSound
<1>6. LifeSound'
  BY <1>1, <1>2, <1>3, UnitFacts, UnitLives DEF IInv, LifeSound
<1>7. CallsSound' /\ LeasesPin' /\ AttemptsOwned'
  BY <1>1, SameCalls DEF IInv, LeasesPin, AttemptsOwned, Starting
<1> QED BY <1>5, <1>6, <1>7 DEF IInv

\* A reload is queued behind a barrier; nobody holds the unit.
LEMMA ReloadKeeps ==
    ASSUME IInv, NEW u \in Units, NEW changed \in BOOLEAN, Reload(u, changed)
    PROVE  IInv'
<1>1. /\ Settled(u) /\ Holds(u) = {} /\ ~Replacing(u)
      /\ mgr' = [mgr EXCEPT ![u].queued = changed] /\ UNCHANGED <<att, proc, failed>>
  BY DEF Reload
<1>2. life[u].phase # "quiescing"
  <2>1. u \in ToSet(Closure[u])
    BY ClosureFacts DEF Needs, ClosureOf, Attempts
  <2> QED BY <1>1, <2>1 DEF Settled
<1>3. /\ CallsSound' /\ LeasesPin' /\ AttemptsOwned'
      /\ barred' = barred \cup {u}
      /\ life' \in [Units -> LifeType] /\ \A v \in Units : v # u => life'[v] = life[v]
      /\ life'[u].owner = life[u].owner
      /\ life'[u].phase = "blocked" \/ life' = life
      /\ life[u].phase \in {"sleeping", "starting"} => life' = life
  <2>1. CASE life[u].owner # None
    <3>1. PICK o \in Owners : o = life[u].owner
      BY <2>1, UnitFacts, BlockedFacts DEF Lives
    <3>2. Fence(u, o)
      BY <2>1, <3>1 DEF Reload
    <3>3. life[u].phase \notin {"sleeping", "starting"}
      BY <2>1, UnitFacts, BlockedFacts
    <3> QED BY <1>1, <3>1, <3>2, <3>3, FenceFacts
  <2>2. CASE life[u].owner = None
    <3>1. barred' = barred \cup {u} /\ UNCHANGED <<life, waiting, lease, call>>
      BY <2>2 DEF Reload
    <3>2. CallsSound' /\ LeasesPin' /\ AttemptsOwned'
      BY <1>1, <3>1, SameCalls DEF IInv, LeasesPin, AttemptsOwned, Starting
    <3> QED BY <3>1, <3>2 DEF IInv, LifeSound
  <2> QED BY <2>1, <2>2
<1>4. /\ mgr' \in [Units -> ManagerType] /\ \A v \in Units : v # u => mgr'[v] = mgr[v]
      /\ mgr'[u].work = mgr[u].work /\ mgr'[u].idle = mgr[u].idle /\ mgr'[u].current = mgr[u].current
      /\ mgr'[u].candidate = mgr[u].candidate
  BY <1>1, UnitFacts DEF IInv, ManagerSound, ManagerType
<1>5. ~Visited(u) /\ ~Depended(u) /\ ~GoneTo(u)
  BY <1>1, LeavingUnvisited DEF IInv
<1>6. mgr[u].work # "wake" /\ mgr[u].candidate = None
  <2>1. mgr[u].work = "wake" => mgr[u].waker \in Holds(u)
    <3> SUFFICES ASSUME mgr[u].work = "wake" PROVE mgr[u].waker \in Holds(u)
      OBVIOUS
    <3>1. PICK a \in Attempts : a = mgr[u].waker
      BY WokenFacts
    <3>2. att[a].state = "running" /\ u \in Needs(a)
      BY <3>1, WokenFacts
    <3> QED BY <3>1, <3>2 DEF Holds
  <2> QED BY <1>1, <2>1 DEF Replacing
<1>7. Default(u)' = Default(u) /\ mgr[u].work # "leaving"
  BY <1>2, <1>4, UnitFacts DEF Default
<1>8. ManagerSound'
  BY <1>1, <1>3, <1>4, <1>5, <1>6, <1>7, UnitFacts, UnitMoves DEF IInv, ManagerSound
<1>9. mgr[u].work \in {"preflight", "sealed"} => MayStillRetire(u)'
  BY <1>1, <1>2, <1>3, UnitFacts DEF MayStillRetire
<1>10. LifeSound'
  BY <1>1, <1>3, <1>4, <1>7, <1>9, UnitFacts, UnitLives DEF IInv
<1> QED BY <1>3, <1>8, <1>10 DEF IInv

\* The candidate of a reload is prepared.
LEMMA StageKeeps ==
    ASSUME IInv, NEW u \in Units, NEW o \in Owners, Stage(u, o)
    PROVE  IInv'
<1>1. /\ mgr[u].queued /\ mgr[u].work = "none" /\ mgr[u].idle # "unknown" /\ proc[u][o] = "none"
      /\ mgr' = [mgr EXCEPT ![u].queued = FALSE, ![u].candidate = o, ![u].work = "reload",
                            ![u].idle = IF @ = "sleeping" THEN "waking" ELSE @]
      /\ proc' = [proc EXCEPT ![u][o] = "preparing"]
      /\ UNCHANGED <<life, waiting, lease, call, att, barred, failed>>
  BY DEF Stage, Fresh
<1>2. Replacing(u) /\ u \in barred /\ ~GoneTo(u)
  BY <1>1, UnitFacts DEF Replacing
<1>3. /\ proc' \in [Units -> [Owners -> ProcessStates]]
      /\ \A v \in Units : v # u => proc'[v] = proc[v]
  BY <1>1, ProcessFacts DEF ProcessStates
<1>4. PICK i \in {"active", "retiring", "waking"} : i = IF mgr[u].idle = "sleeping" THEN "waking" ELSE mgr[u].idle
  BY <1>1, UnitFacts, ManagerFacts
<1>5. /\ mgr' \in [Units -> ManagerType] /\ \A v \in Units : v # u => mgr'[v] = mgr[v]
      /\ mgr'[u].work = "reload" /\ mgr'[u].idle = i
  <2> DEFINE g == [mgr[u] EXCEPT !.queued = FALSE, !.candidate = o, !.work = "reload", !.idle = i]
  <2>1. mgr' = [mgr EXCEPT ![u] = g]
    BY <1>1, <1>4
  <2>2. g \in ManagerType /\ g.work = "reload" /\ g.idle = i
    BY UnitFacts DEF ManagerType
  <2> HIDE DEF g
  <2> QED BY <2>1, <2>2 DEF IInv, ManagerSound
<1>6. ManagerSound'
  BY <1>1, <1>2, <1>3, <1>5, UnitMoves DEF IInv, ManagerSound
<1>7. LifeSound'
  BY <1>1, <1>2, <1>3, <1>5, UnitLives DEF IInv, LifeSound
<1>8. CallsSound' /\ LeasesPin' /\ AttemptsOwned'
  BY <1>1, SameCalls DEF IInv, LeasesPin, AttemptsOwned, Starting
<1> QED BY <1>6, <1>7, <1>8 DEF IInv

\* The candidate is given up.
LEMMA StageFailsKeeps ==
    ASSUME IInv, NEW u \in Units, StageFails(u)
    PROVE  IInv'
<1>1. /\ mgr[u].candidate # None
      /\ proc' = [proc EXCEPT ![u][mgr[u].candidate] = "disposed"]
      /\ mgr' = [mgr EXCEPT ![u].candidate = None, ![u].work = "none"]
      /\ UNCHANGED <<life, waiting, lease, call, att, barred, failed>>
  BY DEF StageFails
<1>2. u \in barred /\ ~GoneTo(u)
  BY <1>1, UnitFacts DEF Replacing
<1>3. PICK o \in Owners : o = mgr[u].candidate
  BY <1>1, UnitFacts, ManagerFacts
<1>4. /\ proc' \in [Units -> [Owners -> ProcessStates]]
      /\ \A v \in Units : v # u => proc'[v] = proc[v]
  <2>1. proc' = [proc EXCEPT ![u][o] = "disposed"]
    BY <1>1, <1>3
  <2> QED BY <2>1, ProcessFacts DEF ProcessStates
<1>5. /\ mgr' \in [Units -> ManagerType] /\ \A v \in Units : v # u => mgr'[v] = mgr[v]
      /\ mgr'[u].work = "none" /\ mgr'[u].idle = mgr[u].idle /\ mgr'[u].candidate = None
      /\ mgr'[u].current = mgr[u].current
  BY <1>1, UnitFacts DEF IInv, ManagerSound, ManagerType
<1>6. Default(u)' = Default(u)
  BY <1>5 DEF Default
<1>7. ManagerSound'
  BY <1>1, <1>2, <1>4, <1>5, <1>6, UnitFacts, UnitMoves DEF IInv, ManagerSound
<1>8. LifeSound'
  BY <1>1, <1>2, <1>4, <1>5, UnitFacts, UnitLives DEF IInv, LifeSound
<1>9. CallsSound' /\ LeasesPin' /\ AttemptsOwned'
  BY <1>1, SameCalls DEF IInv, LeasesPin, AttemptsOwned, Starting
<1> QED BY <1>7, <1>8, <1>9 DEF IInv

\* The reload is cancelled before it was staged.
LEMMA CancelQueuedKeeps ==
    ASSUME IInv, NEW u \in Units, CancelQueued(u)
    PROVE  IInv'
<1>1. /\ mgr[u].queued /\ mgr' = [mgr EXCEPT ![u].queued = FALSE]
      /\ UNCHANGED <<life, waiting, lease, call, att, proc, barred, failed>>
  BY DEF CancelQueued
<1>2. Replacing(u) /\ u \in barred /\ ~GoneTo(u) /\ mgr[u].work \notin {"wake", "leaving"}
  BY <1>1, UnitFacts DEF Replacing
<1>3. /\ mgr' \in [Units -> ManagerType] /\ \A v \in Units : v # u => mgr'[v] = mgr[v]
      /\ mgr'[u].work = mgr[u].work /\ mgr'[u].idle = mgr[u].idle
      /\ mgr'[u].candidate = mgr[u].candidate /\ mgr'[u].current = mgr[u].current
  BY <1>1, UnitFacts DEF IInv, ManagerSound, ManagerType
<1>4. Default(u)' = Default(u)
  BY <1>3 DEF Default
<1>5. ManagerSound'
  BY <1>1, <1>2, <1>3, <1>4, UnitFacts, UnitMoves DEF IInv, ManagerSound
<1>6. mgr[u].work \in {"preflight", "sealed"} => MayStillRetire(u)'
  BY <1>1, UnitFacts DEF MayStillRetire
<1>7. LifeSound'
  BY <1>1, <1>2, <1>3, <1>6, UnitFacts, UnitLives DEF IInv, LifeSound
<1>8. CallsSound' /\ LeasesPin' /\ AttemptsOwned'
  BY <1>1, SameCalls DEF IInv, LeasesPin, AttemptsOwned, Starting
<1> QED BY <1>5, <1>7, <1>8 DEF IInv

\* The candidate takes over.
LEMMA SwitchKeeps ==
    ASSUME IInv, NEW u \in Units, NEW activated \in BOOLEAN, Switch(u, activated)
    PROVE  IInv'
<1>1. /\ mgr[u].candidate # None
      /\ barred' = barred \/ barred' = barred \cup {u}
      /\ UNCHANGED <<life, waiting, lease, call, att, failed>>
  BY DEF Switch
<1>2. u \in barred /\ u \in barred' /\ barred' \subseteq Units /\ ~GoneTo(u)
  BY <1>1, UnitFacts DEF Replacing, IInv, ManagerSound
<1>3. PICK o \in Owners : o = mgr[u].candidate
  BY <1>1, UnitFacts, ManagerFacts
<1>4. /\ proc' \in [Units -> [Owners -> ProcessStates]]
      /\ \A v \in Units : v # u => proc'[v] = proc[v]
  <2>1. proc' = [proc EXCEPT ![u] = [p \in Owners |->
                           IF p = o THEN IF activated THEN "serving" ELSE "faulted"
                           ELSE IF p = Default(u) /\ proc[u][p] = "serving" THEN "draining" ELSE proc[u][p]]]
    BY <1>3 DEF Switch
  <2>2. [p \in Owners |-> IF p = o THEN IF activated THEN "serving" ELSE "faulted"
                          ELSE IF p = Default(u) /\ proc[u][p] = "serving" THEN "draining" ELSE proc[u][p]]
            \in [Owners -> ProcessStates]
    BY DEF IInv, ManagerSound, ProcessStates
  <2> QED BY <2>1, <2>2 DEF IInv, ManagerSound
<1>5. PICK i \in {"active", "waking"} : i = IF mgr[u].idle = "waking" /\ ~activated THEN mgr[u].idle ELSE "active"
  OBVIOUS
<1>6. /\ mgr' \in [Units -> ManagerType] /\ \A v \in Units : v # u => mgr'[v] = mgr[v]
      /\ mgr'[u].work = "none" /\ mgr'[u].idle = i /\ mgr'[u].candidate = None
  <2> DEFINE g == [mgr[u] EXCEPT !.candidate = None, !.work = "none", !.current = o, !.idle = i]
  <2>1. mgr' = [mgr EXCEPT ![u] = g]
    BY <1>3, <1>5 DEF Switch
  <2>2. g \in ManagerType /\ g.work = "none" /\ g.idle = i /\ g.candidate = None
    BY UnitFacts DEF ManagerType
  <2> HIDE DEF g
  <2> QED BY <2>1, <2>2 DEF IInv, ManagerSound
<1>7. ManagerSound'
  BY <1>1, <1>2, <1>4, <1>6, UnitMoves DEF IInv, ManagerSound
<1>8. LifeSound'
  BY <1>1, <1>2, <1>4, <1>6, UnitLives DEF IInv, LifeSound
<1>9. CallsSound' /\ LeasesPin' /\ AttemptsOwned'
  BY <1>1, SameCalls DEF IInv, LeasesPin, AttemptsOwned, Starting
<1> QED BY <1>7, <1>8, <1>9 DEF IInv

-----------------------------------------------------------------------------
(* The theorems.                                                            *)

\* Every unit serves and is awake, and nobody has asked for it yet.
LEMMA InitHolds == Init => IInv
<1> SUFFICES ASSUME Init PROVE IInv
  OBVIOUS
<1> USE DEF Init
<1>1. CallsSound
  BY OwnerFacts DEF CallsSound, WaitersAsk, LeasesOwned, HoldersLeased, HasHold, NoLease
<1>2. /\ \A a \in Attempts : att[a] = NoAttempt /\ att[a].state = "none"
      /\ \A u \in Units : /\ mgr[u].idle = "active" /\ mgr[u].work = "none" /\ mgr[u].current = 1
                          /\ mgr[u].queued = FALSE /\ mgr[u].candidate = None
                          /\ 1 \in Owners /\ proc[u][1] = "serving"
                          /\ life[u].phase = "awake" /\ life[u].owner = 1
  BY AttemptFacts, OwnerFacts
<1>3. /\ att \in [Attempts -> AttemptType] /\ failed \in [Units -> AttemptType]
      /\ proc \in [Units -> [Owners -> ProcessStates]] /\ barred \subseteq Units
  BY AttemptFacts DEF ProcessStates
<1>4. mgr \in [Units -> ManagerType]
  BY OwnerFacts DEF ManagerType
<1>5. life \in [Units -> LifeType]
  BY OwnerFacts DEF LifeType
<1>6. \A u \in Units : u \in Attempts /\ ~Replacing(u) /\ Default(u) = 1 /\ Serves(u)
  BY <1>2, OwnerFacts DEF Replacing, Default, Serves, Attempts
<1>7. VisitsCount /\ VisitedUp /\ WakesGoOn /\ ReadyVisited
  BY <1>2 DEF VisitsCount, VisitedUp, WakesGoOn, ReadyVisited, Going
<1>8. StartsOwnOnly /\ StartsCurrent
  BY <1>2, <1>6 DEF StartsOwnOnly, StartsCurrent, Going
<1>9. ReplacedBarred /\ SleepersGone
  BY <1>2, <1>6 DEF ReplacedBarred, SleepersGone
<1>10. ManagerSound
  BY <1>3, <1>4, <1>7, <1>8, <1>9 DEF ManagerSound
<1>11. LifeSound
  BY <1>2, <1>5, <1>6 DEF LifeSound, AsleepUnits, OpenServes, WorkKnown
<1>12. LeasesPin /\ AttemptsOwned
  BY <1>2 DEF LeasesPin, AttemptsOwned, NoLease
<1> QED BY <1>1, <1>10, <1>11, <1>12 DEF IInv

\* Nothing changes.
LEMMA StutterHolds ==
    ASSUME IInv, UNCHANGED vars
    PROVE  IInv'
<1>1. UNCHANGED <<life, waiting, lease, call, att, mgr, proc, barred, failed>>
  BY DEF vars
<1>2. CallsSound' /\ ManagerSound' /\ LifeSound'
  BY <1>1, SameCalls, SameManager, SameLife DEF IInv, ManagerSound
<1>3. LeasesPin' /\ AttemptsOwned'
  BY <1>1 DEF IInv, LeasesPin, AttemptsOwned, Starting
<1> QED BY <1>2, <1>3 DEF IInv

\* Every step keeps the invariant.
LEMMA StepHolds == IInv /\ [Next]_vars => IInv'
<1> SUFFICES ASSUME IInv, [Next]_vars PROVE IInv'
  OBVIOUS
<1>1. ASSUME NEW c \in Calls, CallStep(c) PROVE IInv'
  BY <1>1, AcquireKeeps, RequestLeaseKeeps, HoldKeeps, GrantKeeps, QuarantineKeeps, ReleaseKeeps,
     AbortKeeps, ReconcileCallKeeps DEF CallStep
<1>2. ASSUME NEW u \in Units, WorkEnds(u) PROVE IInv'
  BY <1>2, RetireSealKeeps, RetireLeaveKeeps, RetireExitKeeps, RetireRefusedKeeps, RetireUnknownKeeps,
     StageFailsKeeps, SwitchKeeps, WakeServesKeeps, WakeFailsKeeps DEF WorkEnds
<1>3. ASSUME NEW u \in Units, UnitStep(u) PROVE IInv'
  BY <1>2, <1>3, StartEndsKeeps, StartNotDispatchedKeeps, StartUnknownKeeps, ReconcileStartKeeps,
     UnbarKeeps, IdleTimerKeeps, RetireProvenKeeps, RetireEnterKeeps, CancelQueuedKeeps, ReloadKeeps,
     VisitKeeps DEF UnitStep
<1>4. ASSUME NEW u \in Units, NEW o \in Owners, OwnerStep(u, o) PROVE IInv'
  BY <1>4, FaultKeeps, RespawnKeeps, RetireKeeps, StageKeeps, WakeKeeps DEF OwnerStep
<1>5. CASE UNCHANGED vars
  BY <1>5, StutterHolds
<1> QED BY <1>1, <1>3, <1>4, <1>5 DEF Next

\* IInv holds in every reachable state: whatever calls, retirements, crashes and
\* reloads come together, the lifecycle, the Manager and the Host agree on which
\* incarnation a unit has and on who keeps it awake.
THEOREM DemandInvariance == Spec => []IInv
BY InitHolds, StepHolds, PTL DEF Spec

\* The state variables keep their types, for every closure and every number of
\* calls and incarnations.
THEOREM DemandTyped == Spec => []TypeOK
<1>1. IInv => TypeOK
  BY DEF IInv, CallsSound, ManagerSound, LifeSound, TypeOK
<1> QED BY <1>1, DemandInvariance, PTL

\* What an attempt has visited stays up, or crashes, but is never put to sleep,
\* replaced or collected under it (RuntimeManager.holdDemand).
THEOREM HeldOwners == Spec => []HeldOwnersStayUp
<1>1. IInv => HeldOwnersStayUp
  BY DEF IInv, ManagerSound, VisitedUp, Going, HeldOwnersStayUp
<1> QED BY <1>1, DemandInvariance, PTL

\* A unit open to calls serves with the incarnation its leases name (fence and
\* the barriers of HostRuntimeDemand).
THEOREM OpenUnits == Spec => []OpenUnitsServe
<1>1. IInv => OpenUnitsServe
  BY DEF IInv, LifeSound, OpenServes, OpenUnitsServe
<1> QED BY <1>1, DemandInvariance, PTL

\* No lease, no place among the waiters and no hold outlives the call or the start
\* it belongs to (releaseLeases, rejectWaiters, failedStarts).
THEOREM PinsOwned == Spec => []PinsHaveOwners
<1>1. IInv => PinsHaveOwners
  <2> SUFFICES ASSUME IInv PROVE PinsHaveOwners
    OBVIOUS
  <2>1. ASSUME NEW c \in Calls, call[c] = "ended" PROVE lease[c] = NoLease /\ ~Awaits(c)
    <3>1. \A u \in Units : lease[c][u] = None
      BY <2>1 DEF IInv, CallsSound, LeasesOwned, HasHold
    <3>2. lease[c] \in [Units -> Owners \cup {None}]
      BY DEF IInv, CallsSound
    <3>3. lease[c] = NoLease
      BY <3>1, <3>2 DEF NoLease
    <3>4. ~Awaits(c)
      BY <2>1 DEF IInv, CallsSound, WaitersAsk, Awaits
    <3> QED BY <3>3, <3>4
  <2>2. \A a \in Attempts : att[a].state # "none" =>
          IF a \in Calls THEN call[a] \in {"holding", "held", "unresolved"} ELSE Starting(a)
    BY DEF IInv, AttemptsOwned, HasHold
  <2> QED BY <2>1, <2>2 DEF PinsHaveOwners
<1> QED BY <1>1, DemandInvariance, PTL

\* Calls that end, or go on waiting, are not answered.
Unanswered == \A d \in Calls : call'[d] = "held" => call[d] = "held"

\* A refusal is no answer.
LEMMA RefusalsUnanswered ==
    ASSUME NEW S, Refused(S)
    PROVE  Unanswered
BY DEF Refused, Unanswered

\* Nor is what a retirement or a fence tells the waiters.
LEMMA ClosingUnanswered ==
    ASSUME NEW u \in Units, Busy(u) \/ Stuck(u) \/ \E o \in Owners : Fence(u, o)
    PROVE  Unanswered
<1>1. RejectWaiters(u) \/ UNCHANGED call
  BY DEF Busy, Stuck, Fence, Deliver
<1> QED BY <1>1, RefusalsUnanswered DEF RejectWaiters, Unanswered

\* Only Grant answers a call.
LEMMA GrantAnswers ==
    ASSUME IInv, [Next]_vars
    PROVE  Unanswered \/ \E c \in Calls : Grant(c)
<1>1. ASSUME UNCHANGED call PROVE Unanswered
  BY <1>1 DEF Unanswered
<1>2. ASSUME NEW c \in Calls, CallStep(c), ~Grant(c) PROVE Unanswered
  <2>1. CASE Acquire(c) \/ Hold(c) \/ Quarantine(c) \/ Release(c) \/ RequestLease(c)
    <3>1. CASE Refused({c})
      BY <3>1, RefusalsUnanswered
    <3>2. CASE ~Refused({c})
      <4>1. CASE Acquire(c) \/ Hold(c) \/ Release(c)
        BY <3>2, <4>1 DEF Acquire, Hold, Release, Unanswered, IInv, CallsSound
      <4>2. CASE Quarantine(c)
        <5>1. \A d \in Calls : call'[d] \in {"unresolved", "ended"} \/ call'[d] = call[d]
          BY <4>2 DEF Quarantine
        <5> QED BY <5>1 DEF Unanswered
      <4>3. CASE RequestLease(c)
        BY <3>2, <4>3, <1>1 DEF RequestLease
      <4> QED BY <2>1, <4>1, <4>2, <4>3
    <3> QED BY <3>1, <3>2
  <2>2. CASE Abort(c) \/ ReconcileCall(c)
    BY <2>2, RefusalsUnanswered DEF Abort, ReconcileCall
  <2> QED BY <1>2, <2>1, <2>2 DEF CallStep
<1>3. ASSUME NEW u \in Units, WorkEnds(u) PROVE Unanswered
  BY <1>1, <1>3, ClosingUnanswered DEF WorkEnds, RetireSeal, RetireLeave, RetireExit, RetireRefused,
     RetireUnknown, StageFails, Switch, WakeServes, WakeFails
<1>4. ASSUME NEW u \in Units, UnitStep(u) PROVE Unanswered
  <2>1. CASE StartEnds(u) \/ StartNotDispatched(u) \/ StartUnknown(u)
    <3>1. RejectWaiters(u) \/ UNCHANGED call
      BY <2>1 DEF StartEnds, StartNotDispatched, StartUnknown, Deliver
    <3> QED BY <1>1, <3>1, RefusalsUnanswered DEF RejectWaiters
  <2>2. CASE \E changed \in BOOLEAN : Reload(u, changed)
    <3>1. (life[u].owner # None /\ Fence(u, life[u].owner)) \/ UNCHANGED call
      BY <2>2 DEF Reload
    <3>2. life[u].owner # None => life[u].owner \in Owners
      BY UnitFacts, BlockedFacts DEF Lives
    <3> QED BY <1>1, <3>1, <3>2, ClosingUnanswered
  <2>3. CASE RetireEnter(u)
    BY <1>1, <2>3, ClosingUnanswered DEF RetireEnter
  <2>4. CASE \/ ReconcileStart(u) \/ Unbar(u) \/ IdleTimer(u) \/ RetireProven(u) \/ CancelQueued(u)
             \/ \E a \in Attempts : Visit(a, u)
    BY <1>1, <2>4 DEF ReconcileStart, Unbar, IdleTimer, RetireProven, CancelQueued, Visit
  <2> QED BY <1>3, <1>4, <2>1, <2>2, <2>3, <2>4 DEF UnitStep
<1>5. ASSUME NEW u \in Units, NEW o \in Owners, OwnerStep(u, o) PROVE Unanswered
  BY <1>1, <1>5, ClosingUnanswered DEF OwnerStep, Fault, Respawn, Retire, Stage, Wake
<1>6. CASE UNCHANGED vars
  BY <1>1, <1>6 DEF vars
<1> QED BY <1>2, <1>4, <1>5, <1>6 DEF Next

\* A call is answered only with incarnations that serve as the default of every
\* unit of its closure at that moment, none of them behind a barrier: what the
\* three rounds of acquireInternal found is still true.
THEOREM GrantsCurrent == Spec => GrantsAreCurrent
<1>1. ASSUME IInv, [Next]_vars, NEW c \in Calls, call'[c] = "held", call[c] # "held", NEW u \in Needs(c)
      PROVE  u \notin barred' /\ lease'[c][u] = mgr'[u].current /\ proc'[u][lease'[c][u]] = "serving"
  <2>1. PICK d \in Calls : Grant(d)
    BY <1>1, GrantAnswers DEF Unanswered
  <2>2. ~Refused({d})
    BY <1>1, RefusalsUnanswered DEF Unanswered
  <2>3. /\ Unbarred(d) /\ Mismatched(d) = {} /\ call' = [call EXCEPT ![d] = "held"]
        /\ UNCHANGED <<lease, life, mgr, proc, barred>>
    BY <2>1, <2>2 DEF Grant
  <2>4. c = d
    BY <1>1, <2>3
  <2>5. u \in Units /\ u \notin barred /\ life[u].phase = "awake" /\ life[u].owner = lease[c][u]
    BY <1>1, <2>3, <2>4, ClosureFacts DEF Unbarred, Mismatched, Valid, Attempts
  <2>6. life[u].owner = mgr[u].current /\ proc[u][mgr[u].current] = "serving"
    BY <1>1, <2>5 DEF IInv, LifeSound, OpenServes, Serves, Default
  <2> QED BY <2>3, <2>5, <2>6
<1>2. IInv /\ [Next]_vars => [\A c \in Calls : call'[c] = "held" /\ call[c] # "held" =>
          \A u \in Needs(c) : u \notin barred' /\ lease'[c][u] = mgr'[u].current
                             /\ proc'[u][lease'[c][u]] = "serving"]_vars
  BY <1>1
<1> QED BY <1>2, DemandInvariance, PTL DEF Spec, GrantsAreCurrent

=============================================================================
