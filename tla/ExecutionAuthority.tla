------------------------- MODULE ExecutionAuthority -------------------------
(***************************************************************************)
(* What the execution hand-off promises, without leases, gates, calls or    *)
(* processes (docs/runtime-recovery.md: one executor per session, no late   *)
(* commit after the authority is withdrawn, recovery only after the         *)
(* executor has really stopped).  ExecutionHandoff implements it.           *)
(***************************************************************************)
CONSTANTS Runs, SessionOf

VARIABLES
    authorised,  \* runs whose durable authority is in force
    executing,   \* runs that something still executes
    ended        \* runs that have reached a final status

vars == << authorised, executing, ended >>

SameSession(r) == {q \in Runs : SessionOf[q] = SessionOf[r]}

Init == authorised = {} /\ executing = {} /\ ended = {}

Vacant(r) == SameSession(r) \cap (authorised \cup executing) = {}

\* A queued run gets the session when nothing owns or executes in it.
Grant(r) ==
    /\ r \notin ended
    /\ Vacant(r)
    /\ authorised' = authorised \cup {r}
    /\ UNCHANGED << executing, ended >>

Start(r) ==
    /\ r \in authorised
    /\ executing' = executing \cup {r}
    /\ UNCHANGED << authorised, ended >>

\* The executor commits the end of its own run while it has the authority; it
\* may be gone before the commit arrives.
Finish(r) ==
    /\ r \in authorised
    /\ ended' = ended \cup {r}
    /\ executing' \in {executing, executing \ {r}}
    /\ UNCHANGED authorised

\* The authority of some runs ends: a release or a revocation.  The executors
\* may not have noticed.
Withdraw(rs) ==
    /\ rs \subseteq authorised
    /\ authorised' = authorised \ rs
    /\ UNCHANGED << executing, ended >>

\* Executors stop: one at a time, or all those of a process that exits.
Stop(rs) ==
    /\ rs \subseteq executing
    /\ executing' = executing \ rs
    /\ UNCHANGED << authorised, ended >>

\* A run that nobody owns or executes is ended for its executor (recovery), or
\* before it had one (a cancelled queued run).
Conclude(r) ==
    /\ r \notin authorised \cup executing
    /\ ended' = ended \cup {r}
    /\ UNCHANGED << authorised, executing >>

Next ==
    \/ \E r \in Runs : Grant(r) \/ Start(r) \/ Finish(r) \/ Conclude(r)
    \/ \E rs \in SUBSET Runs : Withdraw(rs) \/ Stop(rs)

Spec == Init /\ [][Next]_vars

-----------------------------------------------------------------------------
TypeOK == authorised \subseteq Runs /\ executing \subseteq Runs /\ ended \subseteq Runs

\* A session has one executor: of the runs that are authorised or executing,
\* with or without authority, no two share a session.
OneExecutor ==
    \A r, q \in authorised \cup executing : SessionOf[r] = SessionOf[q] => r = q

\* An executor whose authority is gone cannot end its run, and nobody ends the
\* run behind its back.
NoLateCommit ==
    [][\A r \in executing \ authorised : r \in ended' => r \in ended]_vars
=============================================================================
