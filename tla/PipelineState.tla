---------------------------- MODULE PipelineState ----------------------------
(***************************************************************************)
(* The state shared by every process of the audio-drama pipeline: the      *)
(* Postgres tables (db/schema.sql), the RabbitMQ queues                    *)
(* (worker/topology.py), the final objects in MinIO, and where the         *)
(* consumer thread of each worker process stands in its handler.           *)
(*                                                                         *)
(* A handler is cut at its calls to Postgres, RabbitMQ and MinIO: one      *)
(* action is one such call with the local computation around it, and a     *)
(* database transaction is one action.                                     *)
(***************************************************************************)
EXTENDS Naturals, FiniteSets, Bags, BagsExt

CONSTANTS
  Workers,      \* worker processes (docker-compose.yml: 5 replicas)
  Jobs,         \* manuscripts that clients may submit
  Tasks,        \* the TTS tasks: one per chunk of a manuscript
  JobOf,        \* the job each task belongs to (tasks.job_id)
  Unparseable,  \* jobs whose text holds POISON_TOKEN or yields no segment
  Wedged,       \* jobs an earlier release left PROCESSING with all tasks DONE
  MaxRetries,   \* config.MAX_RETRIES
  RelayLimit,   \* the LIMIT of the relay's SELECT (50 in the code)
  MaxFaults,    \* bound: process crashes and relay errors in a behaviour
  MaxEarly,     \* bound: leases that run out under a worker still at work
  NoMsg         \* "no delivery in hand"

TasksOf(j) == {t \in Tasks : JobOf[t] = j}

Attempts == 0 .. MaxRetries

\* The bodies of the events: what they name and the attempt they carry.
Message == [stage : {"parse", "stitch"}, of : Jobs,  attempt : Attempts]
           \cup
           [stage : {"tts"},             of : Tasks, attempt : Attempts]

ASSUME PipelineAssumption ==
  /\ JobOf \in [Tasks -> Jobs]
  /\ Unparseable \subseteq Jobs
  /\ Wedged \subseteq Jobs \ Unparseable
  /\ \A j \in Jobs \ Unparseable : TasksOf(j) # {}
  /\ MaxRetries \in Nat
  /\ RelayLimit \in Nat \ {0}
  /\ MaxFaults \in Nat
  /\ MaxEarly \in Nat
  /\ NoMsg \notin Message

VARIABLES
  job,          \* jobs.status; "ABSENT" before the INSERT
  task,         \* tasks.status; "ABSENT" before the INSERT
  lease,        \* tasks.locked_until, compared with now()
  outbox,       \* bag of outbox rows with published_at NULL that no relay locks
  locked,       \* locked[w]: rows the relay of w has locked but not published
  sent,         \* sent[w]: rows it has published in the open transaction
  queue,        \* bag of messages in the main and the retry queues
  dlq,          \* messages in the dead-letter queues
  pc,           \* where the consumer thread of w stands
  msg,          \* msg[w]: the delivery in hand
  acked,        \* acked[w]: basic_ack was already sent for it
  chunks,       \* chunks[w]: the tasks whose audio the stitch handler fetched
  final,        \* final[j]: the chunks in audio/final/<j>/output.mp3
  lost,         \* ghost: messages whose handler died between ack and republish
  overwritten,  \* ghost: tasks whose DONE was overwritten by a stale handler
  faults,       \* counts towards MaxFaults
  early         \* counts towards MaxEarly

tables     == <<job, task, lease>>
relayVars  == <<locked, sent>>
handlerVars == <<pc, msg, acked, chunks>>
ghosts     == <<lost, overwritten>>
bounds     == <<faults, early>>
vars == <<tables, outbox, relayVars, queue, dlq, handlerVars, final,
          ghosts, bounds>>

JobStatus  == {"ABSENT", "PENDING", "PROCESSING", "STITCHING", "COMPLETED", "FAILED"}
TaskStatus == {"ABSENT", "PENDING", "IN_PROGRESS", "DONE", "FAILED"}
Label == {"idle", "down", "ack", "retry", "republish", "dlq", "dlqMark", "dlqAck",
          "parsing", "work", "fetch", "upload", "complete"}

Event(stage, x) == [stage |-> stage, of |-> x, attempt |-> 0]
JobOfMsg(m) == IF m.stage = "tts" THEN JobOf[m.of] ELSE m.of

Up(w) == pc[w] # "down"

-----------------------------------------------------------------------------
(***************************************************************************)
(* What the handlers have in common.                                       *)
(***************************************************************************)

Goto(w, label) == pc' = [pc EXCEPT ![w] = label]

\* RabbitMQ hands the consumer of w a message of the stage and keeps it until
\* the ack; the handler's first database call decides the next label.
Deliver(w, m, stage, label) ==
  /\ pc[w] = "idle"
  /\ m.stage = stage
  /\ queue' = BagRemove(queue, m)
  /\ msg' = [msg EXCEPT ![w] = m]
  /\ Goto(w, label)
  /\ UNCHANGED <<acked, chunks>>

\* The handler returns and pika waits for the next delivery.
Return(w) ==
  /\ Goto(w, "idle")
  /\ msg' = [msg EXCEPT ![w] = NoMsg]
  /\ acked' = [acked EXCEPT ![w] = FALSE]
  /\ chunks' = [chunks EXCEPT ![w] = {}]

\* A commit that succeeds.  When the connection breaks under it, a fault, the
\* handler sees an exception although Postgres has committed.
Commit(w) ==
  \/ Goto(w, "ack") /\ UNCHANGED faults
  \/ faults < MaxFaults /\ faults' = faults + 1 /\ Goto(w, "retry")

\* The closing basic_ack of a handler that has nothing left to do.
Ack(w) ==
  /\ pc[w] = "ack"
  /\ Return(w)
  /\ UNCHANGED <<tables, outbox, relayVars, queue, dlq, final, ghosts, bounds>>

-----------------------------------------------------------------------------
InitJob(j) == IF j \in Wedged THEN "PROCESSING" ELSE "ABSENT"

Init ==
  /\ job = [j \in Jobs |-> InitJob(j)]
  /\ task = [t \in Tasks |-> IF JobOf[t] \in Wedged THEN "DONE" ELSE "ABSENT"]
  /\ lease = [t \in Tasks |-> "none"]
  /\ outbox = EmptyBag
  /\ locked = [w \in Workers |-> EmptyBag]
  /\ sent = [w \in Workers |-> EmptyBag]
  /\ queue = EmptyBag
  /\ dlq = {}
  /\ pc = [w \in Workers |-> "idle"]
  /\ msg = [w \in Workers |-> NoMsg]
  /\ acked = [w \in Workers |-> FALSE]
  /\ chunks = [w \in Workers |-> {}]
  /\ final = [j \in Jobs |-> {}]
  /\ lost = {}
  /\ overwritten = {}
  /\ faults = 0
  /\ early = 0

=============================================================================
