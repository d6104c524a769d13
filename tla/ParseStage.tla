----------------------------- MODULE ParseStage -----------------------------
(***************************************************************************)
(* worker/stages/parse.py, handle: consume jobs.parse, split the           *)
(* manuscript, insert one task and one jobs.tts event per segment.         *)
(***************************************************************************)
EXTENDS PipelineState

\* Delivery and the idempotency guard: a job past PENDING is acked and skipped.
ParseReceive(w) ==
  /\ \E m \in BagToSet(queue) :
       Deliver(w, m, "parse", IF job[m.of] = "PENDING" THEN "parsing" ELSE "ack")
  /\ UNCHANGED <<tables, outbox, relayVars, dlq, final, ghosts, bounds>>

\* The poison branch and the branch without segments: straight to the DLQ.
ParseReject(w) ==
  /\ pc[w] = "parsing"
  /\ msg[w].of \in Unparseable
  /\ Goto(w, "dlq")
  /\ UNCHANGED <<tables, outbox, relayVars, queue, dlq, msg, acked, chunks, final,
                 ghosts, bounds>>

\* One transaction: claim the job, insert its tasks and their events; or find
\* that another handler has claimed it.
ParseClaim(w) ==
  LET j == msg[w].of IN
  /\ pc[w] = "parsing"
  /\ j \notin Unparseable
  /\ \/ /\ job[j] = "PENDING"
        /\ job' = [job EXCEPT ![j] = "PROCESSING"]
        /\ task' = [t \in Tasks |-> IF t \in TasksOf(j) THEN "PENDING" ELSE task[t]]
        /\ outbox' = outbox (+) SetToBag({Event("tts", t) : t \in TasksOf(j)})
        /\ Commit(w)
     \/ /\ job[j] # "PENDING"
        /\ Goto(w, "ack")
        /\ UNCHANGED <<job, task, outbox, faults>>
  /\ UNCHANGED <<lease, relayVars, queue, dlq, msg, acked, chunks, final,
                 ghosts, early>>

=============================================================================
