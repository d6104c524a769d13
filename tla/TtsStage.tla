------------------------------ MODULE TtsStage ------------------------------
(***************************************************************************)
(* worker/stages/tts.py, handle: claim a task, synthesise its audio under  *)
(* the semaphore and the cache, mark it DONE and, when it was the last one *)
(* of its job, flip the job to STITCHING and queue jobs.stitch.            *)
(*                                                                         *)
(* Label "work" stands for the time between the claim and the end of the   *)
(* synthesis: what happens there (semaphore, cache, vendor call) ends in   *)
(* success, TtsFinish, or in failure or semaphore timeout, TtsRelease.     *)
(***************************************************************************)
EXTENDS PipelineState

\* Variant: the claim takes an IN_PROGRESS task whatever its lease.
ClaimableAnyLease(t) == task[t] \in {"PENDING", "IN_PROGRESS"}

\* The WHERE clause of the atomic claim.
Claimable(t) ==
  \/ task[t] = "PENDING"
  \/ task[t] = "IN_PROGRESS" /\ lease[t] = "expired"

\* Delivery and the claim.  A task that cannot be claimed is acked away.
TtsReceive(w) ==
  /\ \E m \in BagToSet(queue) :
       /\ Deliver(w, m, "tts", IF Claimable(m.of) THEN "work" ELSE "ack")
       /\ IF Claimable(m.of)
          THEN /\ task' = [task EXCEPT ![m.of] = "IN_PROGRESS"]
               /\ lease' = [lease EXCEPT ![m.of] = "live"]
          ELSE UNCHANGED <<task, lease>>
  /\ UNCHANGED <<job, outbox, relayVars, dlq, final, ghosts, bounds>>

\* Variant: the count is taken before the UPDATE, so that t itself is counted.
RemainingBefore(t) == {u \in TasksOf(JobOf[t]) : task[u] # "DONE"}

\* Variant: only the chunks nobody has begun are waited for.
RemainingPending(t) == {u \in TasksOf(JobOf[t]) \ {t} : task[u] = "PENDING"}

\* SELECT count(*) ... status != 'DONE', after the UPDATE of t in the same
\* transaction.
Remaining(t) == {u \in TasksOf(JobOf[t]) \ {t} : task[u] # "DONE"}

\* The completion transaction, serialised per job by SELECT ... FOR UPDATE.
\* The UPDATE of the task names no status: it overwrites whatever is there.
TtsFinish(w) ==
  LET t == msg[w].of
      j == JobOf[t]
      flipped == Remaining(t) = {} /\ job[j] = "PROCESSING"
  IN
  /\ pc[w] = "work"
  /\ task' = [task EXCEPT ![t] = "DONE"]
  /\ lease' = [lease EXCEPT ![t] = "none"]
  /\ IF flipped
     THEN /\ job' = [job EXCEPT ![j] = "STITCHING"]
          /\ outbox' = BagAdd(outbox, Event("stitch", j))
     ELSE UNCHANGED <<job, outbox>>
  /\ Goto(w, "ack")
  /\ UNCHANGED <<relayVars, queue, dlq, msg, acked, chunks, final, ghosts, bounds>>

\* Semaphore timeout or any exception of the synthesis: the claim is given
\* back, again without looking at the status, and the message is retried.
TtsRelease(w) ==
  LET t == msg[w].of IN
  /\ pc[w] = "work"
  /\ task' = [task EXCEPT ![t] = "PENDING"]
  /\ lease' = [lease EXCEPT ![t] = "none"]
  /\ overwritten' = overwritten \cup {u \in {t} : task[u] = "DONE"}
  /\ Goto(w, "retry")
  /\ UNCHANGED <<job, outbox, relayVars, queue, dlq, msg, acked, chunks, final, lost,
                 bounds>>

=============================================================================
