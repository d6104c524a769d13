------------------------------ MODULE RetryDlq ------------------------------
(***************************************************************************)
(* _retry_or_dlq and _send_to_dlq, which parse.py and tts.py each define   *)
(* and stitch.py defines merged into one.  The handler acks the delivery   *)
(* FIRST and republishes or dead-letters it afterwards.                    *)
(***************************************************************************)
EXTENDS PipelineState

\* The labels from which a handler can give up on the delivery: the except
\* clauses of parse and stitch, the simulated 500 of parse, and tts once it
\* has released its claim ("retry").  parse's poison branch sends to the DLQ
\* inside the try block: what fails after the copy went there, the transaction
\* or, once it has committed, its reply and the ack, is retried.
MayFail(w) ==
  \/ pc[w] \in {"retry", "parsing", "fetch", "upload", "complete"}
  \/ pc[w] \in {"dlqMark", "dlqAck"} /\ ~acked[w]

\* Variant: the attempt is compared before it is incremented.
RetryAckOffByOne(w) ==
  /\ MayFail(w)
  /\ acked' = [acked EXCEPT ![w] = TRUE]
  /\ Goto(w, IF msg[w].attempt > MaxRetries THEN "dlq" ELSE "republish")
  /\ UNCHANGED <<tables, outbox, relayVars, queue, dlq, msg, chunks, final,
                 ghosts, bounds>>

\* basic_ack of the original, then the choice between a retry and the DLQ.
RetryAck(w) ==
  /\ MayFail(w)
  /\ acked' = [acked EXCEPT ![w] = TRUE]
  /\ Goto(w, IF msg[w].attempt + 1 > MaxRetries THEN "dlq" ELSE "republish")
  /\ UNCHANGED <<tables, outbox, relayVars, queue, dlq, msg, chunks, final,
                 ghosts, bounds>>

\* Publish to <stage>.retry.<delay>ms with the next attempt number.  The queue's
\* TTL dead-letters it back to the main queue: here it is deliverable at any
\* later time.
Republish(w) ==
  /\ pc[w] = "republish"
  /\ queue' = BagAdd(queue, [msg[w] EXCEPT !.attempt = @ + 1])
  /\ Return(w)
  /\ UNCHANGED <<tables, outbox, relayVars, dlq, final, ghosts, bounds>>

\* Variant: the failure is recorded and nothing is parked.
DlqPublishNothing(w) ==
  /\ pc[w] = "dlq"
  /\ Goto(w, "dlqMark")
  /\ UNCHANGED <<tables, outbox, relayVars, queue, dlq, msg, acked, chunks, final,
                 ghosts, bounds>>

\* basic_publish to <stage>.dlq.
DlqPublish(w) ==
  /\ pc[w] = "dlq"
  /\ dlq' = dlq \cup {msg[w]}
  /\ Goto(w, "dlqMark")
  /\ UNCHANGED <<tables, outbox, relayVars, queue, msg, acked, chunks, final,
                 ghosts, bounds>>

\* Variant: the UPDATE of the job without its "status != 'COMPLETED'".
DlqMarkAny(w) ==
  LET m == msg[w] IN
  /\ pc[w] = "dlqMark"
  /\ job' = [job EXCEPT ![JobOfMsg(m)] = "FAILED"]
  /\ IF m.stage = "stitch"
     THEN Return(w)
     ELSE Goto(w, "dlqAck") /\ UNCHANGED <<msg, acked, chunks>>
  /\ UNCHANGED <<task, lease, outbox, relayVars, queue, dlq, final, ghosts, bounds>>

\* Variant: before the fix of DESIGN.md 9.6 no status was written.
DlqMarkNothing(w) ==
  /\ pc[w] = "dlqMark"
  /\ IF msg[w].stage = "stitch"
     THEN Return(w)
     ELSE Goto(w, "dlqAck") /\ UNCHANGED <<msg, acked, chunks>>
  /\ UNCHANGED <<tables, outbox, relayVars, queue, dlq, final, ghosts, bounds>>

\* The transaction that makes the failure visible: the task (tts) and the job,
\* unless the job has completed.  stitch.py returns here; the others ack again.
DlqMark(w) ==
  LET m == msg[w]
      j == JobOfMsg(m)
  IN
  /\ pc[w] = "dlqMark"
  /\ IF m.stage = "tts"
     THEN /\ task' = [task EXCEPT ![m.of] = "FAILED"]
          /\ lease' = [lease EXCEPT ![m.of] = "none"]
          /\ overwritten' = overwritten \cup {t \in {m.of} : task[t] = "DONE"}
     ELSE UNCHANGED <<task, lease, overwritten>>
  /\ job' = [job EXCEPT ![j] = IF @ = "COMPLETED" THEN @ ELSE "FAILED"]
  /\ IF m.stage = "stitch"
     THEN Return(w)
     ELSE Goto(w, "dlqAck") /\ UNCHANGED <<msg, acked, chunks>>
  /\ UNCHANGED <<outbox, relayVars, queue, dlq, final, lost, bounds>>

\* The basic_ack that ends _send_to_dlq, on the poison path.
DlqAck(w) ==
  /\ pc[w] = "dlqAck"
  /\ ~acked[w]
  /\ Return(w)
  /\ UNCHANGED <<tables, outbox, relayVars, queue, dlq, final, ghosts, bounds>>

=============================================================================
