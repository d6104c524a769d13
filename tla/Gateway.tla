------------------------------- MODULE Gateway -------------------------------
(***************************************************************************)
(* gateway/app.py as the pipeline sees it: POST /jobs stores the manuscript *)
(* and commits the job row and its jobs.parse event in one transaction.    *)
(***************************************************************************)
EXTENDS PipelineState

Submit(j) ==
  /\ job[j] = "ABSENT"
  /\ job' = [job EXCEPT ![j] = "PENDING"]
  /\ outbox' = BagAdd(outbox, Event("parse", j))
  /\ UNCHANGED <<task, lease, relayVars, queue, dlq, handlerVars, final, ghosts,
                 bounds>>

=============================================================================
