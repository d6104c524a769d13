----------------------------- MODULE LeaseReaper ----------------------------
(***************************************************************************)
(* worker/main.py, lease_reaper: every worker sweeps for expired leases    *)
(* and for jobs whose completion flip was missed.  Each sweep is one       *)
(* transaction over the rows its first statement locks.                    *)
(***************************************************************************)
EXTENDS PipelineState

\* A worker is still between the claim of t and the end of its work.
AtWork(t) == \E w \in Workers : pc[w] = "work" /\ msg[w].of = t

\* now() passes locked_until.  The claim is never renewed (the heartbeat thread
\* renews the semaphore slot only), so this can happen under a working claimant:
\* the wait for the semaphore alone may take 120 s, a lease lasts 30 to 60 s.
LeaseExpires(t) ==
  /\ lease[t] = "live"
  /\ AtWork(t) => early < MaxEarly
  /\ early' = IF AtWork(t) THEN early + 1 ELSE early
  /\ lease' = [lease EXCEPT ![t] = "expired"]
  /\ UNCHANGED <<job, task, outbox, relayVars, queue, dlq, handlerVars, final, ghosts,
                 faults>>

Expired == {t \in Tasks : task[t] = "IN_PROGRESS" /\ lease[t] = "expired"}

\* Variant: before the fix of DESIGN.md 9.4 the row was reset and no event sent.
ReapLeasesSilent ==
  /\ \E w \in Workers : Up(w)
  /\ Expired # {}
  /\ task' = [t \in Tasks |-> IF t \in Expired THEN "PENDING" ELSE task[t]]
  /\ lease' = [t \in Tasks |-> IF t \in Expired THEN "none" ELSE lease[t]]
  /\ UNCHANGED <<job, outbox, relayVars, queue, dlq, handlerVars, final, ghosts, bounds>>

\* Reset every expired task and emit a fresh jobs.tts event, attempt 0, for it.
ReapLeases ==
  /\ \E w \in Workers : Up(w)
  /\ Expired # {}
  /\ task' = [t \in Tasks |-> IF t \in Expired THEN "PENDING" ELSE task[t]]
  /\ lease' = [t \in Tasks |-> IF t \in Expired THEN "none" ELSE lease[t]]
  /\ outbox' = outbox (+) SetToBag({Event("tts", t) : t \in Expired})
  /\ UNCHANGED <<job, relayVars, queue, dlq, handlerVars, final, ghosts, bounds>>

\* Variant: the reconciler runs only in the rounds that reclaimed a task.
StuckIfReaped == {j \in Jobs : /\ Expired # {}
                               /\ job[j] = "PROCESSING"
                               /\ TasksOf(j) # {}
                               /\ \A t \in TasksOf(j) : task[t] = "DONE"}

\* The SELECT of the reconciler: PROCESSING, at least one task, no task not DONE.
Stuck == {j \in Jobs : /\ job[j] = "PROCESSING"
                       /\ TasksOf(j) # {}
                       /\ \A t \in TasksOf(j) : task[t] = "DONE"}

\* The reconciler: flip every stuck job and queue its stitch event.
ReconcileJobs ==
  /\ \E w \in Workers : Up(w)
  /\ Stuck # {}
  /\ job' = [j \in Jobs |-> IF j \in Stuck THEN "STITCHING" ELSE job[j]]
  /\ outbox' = outbox (+) SetToBag({Event("stitch", j) : j \in Stuck})
  /\ UNCHANGED <<task, lease, relayVars, queue, dlq, handlerVars, final, ghosts, bounds>>

=============================================================================
