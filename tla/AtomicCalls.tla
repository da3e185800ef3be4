---------------------------- MODULE AtomicCalls ----------------------------
(***************************************************************************)
(* What the storage port promises a caller, whatever process serves it: a  *)
(* call runs at most once, "ok" is answered only after it ran, and a call  *)
(* that was refused has not run and never will.  "unknown" promises        *)
(* nothing, and nothing runs for a caller that has not called.             *)
(***************************************************************************)
CONSTANTS Calls

VARIABLES ran, answer

Init == ran = {} /\ answer = [c \in Calls |-> "new"]

Call(c) == answer[c] = "new" /\ answer' = [answer EXCEPT ![c] = "waiting"] /\ UNCHANGED ran

\* A call that is lost to its caller may still run.
Run(c) == answer[c] \in {"waiting", "unknown"} /\ c \notin ran /\ ran' = ran \cup {c}
          /\ UNCHANGED answer

Succeed(c) == answer[c] = "waiting" /\ c \in ran /\ answer' = [answer EXCEPT ![c] = "ok"]
              /\ UNCHANGED ran

\* Several calls may be refused or lost in one step.
Fail ==
    /\ \A c \in Calls : answer'[c] # answer[c] =>
          /\ answer[c] \in {"new", "waiting"}
          /\ answer'[c] \in {"failed", "unknown"}
          /\ answer'[c] = "failed" => c \notin ran
    /\ UNCHANGED ran

Next == Fail \/ \E c \in Calls : Call(c) \/ Run(c) \/ Succeed(c)

Spec == Init /\ [][Next]_<<ran, answer>>
=============================================================================
