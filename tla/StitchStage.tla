----------------------------- MODULE StitchStage ----------------------------
(***************************************************************************)
(* worker/stages/stitch.py, handle: fetch the audio of the DONE tasks,     *)
(* concatenate it, upload the drama, mark the job COMPLETED.               *)
(***************************************************************************)
EXTENDS PipelineState

\* Delivery and the idempotency guard: only a STITCHING job is stitched.
StitchReceive(w) ==
  /\ \E m \in BagToSet(queue) :
       Deliver(w, m, "stitch", IF job[m.of] = "STITCHING" THEN "fetch" ELSE "ack")
  /\ UNCHANGED <<tables, outbox, relayVars, dlq, final, ghosts, bounds>>

\* SELECT ... WHERE status = 'DONE', in a transaction of its own.  With no row
\* the handler raises (RetryAck).
StitchFetch(w) ==
  LET done == {t \in TasksOf(msg[w].of) : task[t] = "DONE"} IN
  /\ pc[w] = "fetch"
  /\ done # {}
  /\ chunks' = [chunks EXCEPT ![w] = done]
  /\ Goto(w, "upload")
  /\ UNCHANGED <<tables, outbox, relayVars, queue, dlq, msg, acked, final, ghosts,
                 bounds>>

\* put_object of the concatenation: the object is replaced whole.
StitchUpload(w) ==
  /\ pc[w] = "upload"
  /\ final' = [final EXCEPT ![msg[w].of] = chunks[w]]
  /\ Goto(w, "complete")
  /\ UNCHANGED <<tables, outbox, relayVars, queue, dlq, msg, acked, chunks, ghosts,
                 bounds>>

\* UPDATE jobs SET status='COMPLETED' WHERE id=...: whatever the status is.
StitchComplete(w) ==
  /\ pc[w] = "complete"
  /\ job' = [job EXCEPT ![msg[w].of] = "COMPLETED"]
  /\ Commit(w)
  /\ UNCHANGED <<task, lease, outbox, relayVars, queue, dlq, msg, acked, chunks, final,
                 ghosts, early>>

=============================================================================
