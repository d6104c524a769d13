-------------------------- MODULE CompletionPromise --------------------------
(***************************************************************************)
(* What the transactions on the rows of one job promise together: each of  *)
(* them looks like a single step, and the step that commits the last DONE  *)
(* also moves the job on.  Completion implements this.                     *)
(***************************************************************************)
CONSTANT Tasks

VARIABLES
  job,         \* jobs.status, from the parse on
  task,        \* tasks.status
  overwritten  \* tasks whose DONE a stale handler has overwritten

vars == <<job, task, overwritten>>

Init ==
  /\ job = "PROCESSING"
  /\ task = [t \in Tasks |-> "PENDING"]
  /\ overwritten = {}

Set(t, status) ==
  /\ task' = [task EXCEPT ![t] = status]
  /\ overwritten' = IF task[t] = "DONE" /\ status # "DONE" THEN overwritten \cup {t}
                    ELSE overwritten

Claim(t) == task[t] \in {"PENDING", "IN_PROGRESS"} /\ Set(t, "IN_PROGRESS") /\ UNCHANGED job

GiveBack(t) == Set(t, "PENDING") /\ UNCHANGED job

Unfinished(t) == {u \in Tasks \ {t} : task[u] # "DONE"}

\* The last chunk flips the job.  A chunk reset under the running transaction may
\* have been counted as finished.
Finish(t) ==
  /\ task' = [task EXCEPT ![t] = "DONE"]
  /\ overwritten' = overwritten \ {t}
  /\ \/ Unfinished(t) \subseteq overwritten /\ job = "PROCESSING" /\ job' = "STITCHING"
     \/ (Unfinished(t) = {} => job # "PROCESSING") /\ UNCHANGED job

Fail(t) ==
  /\ Set(t, "FAILED")
  /\ job' = IF job = "COMPLETED" THEN job ELSE "FAILED"

Sweep(S) ==
  /\ \A t \in S : task[t] = "IN_PROGRESS"
  /\ task' = [t \in Tasks |-> IF t \in S THEN "PENDING" ELSE task[t]]
  /\ UNCHANGED <<job, overwritten>>

Deliver == job # "PROCESSING" /\ job' = "COMPLETED" /\ UNCHANGED <<task, overwritten>>

Next ==
  \/ \E t \in Tasks : Claim(t) \/ GiveBack(t) \/ Finish(t) \/ Fail(t)
  \/ \E S \in SUBSET Tasks : Sweep(S)
  \/ Deliver

Spec == Init /\ [][Next]_vars

=============================================================================
