--------------------------- MODULE PipelineInvariant --------------------------
(***************************************************************************)
(* The inductive invariant of Pipeline, in named parts.                    *)
(***************************************************************************)
EXTENDS Pipeline

\* A consumer thread without a delivery holds nothing, and the labels of a
\* stage are reached with a message of that stage only.
HandlerOK ==
  \A w \in Workers :
    /\ pc[w] \in {"idle", "down"} <=> msg[w] = NoMsg
    /\ pc[w] = "parsing" => msg[w].stage = "parse"
    /\ pc[w] = "work" => msg[w].stage = "tts"
    /\ pc[w] \in {"fetch", "upload", "complete"} => msg[w].stage = "stitch"
    /\ acked[w] => pc[w] \in {"republish", "dlq", "dlqMark", "dlqAck"}
    /\ pc[w] = "republish" => acked[w] /\ msg[w].attempt < MaxRetries

TypeInv == TypeOK /\ HandlerOK

Published  == UNION {BagToSet(sent[w]) : w \in Workers}
Deliveries == {msg[w] : w \in {v \in Workers : msg[v] # NoMsg}}

\* Every message there is, a copy already published by an open relay
\* transaction and one whose handling is over included.
Everywhere == BagToSet(outbox) \cup BagToSet(queue) \cup RelayRows \cup Published
                \cup Deliveries

\* What the existence of a message says of the status of its job.
Justified(m) ==
  /\ m.stage = "parse" => job[m.of] # "ABSENT"
  /\ m.stage = "tts" => job[JobOf[m.of]] \notin {"ABSENT", "PENDING"}
  /\ m.stage = "stitch" => job[m.of] \in {"STITCHING", "COMPLETED", "FAILED"}

MessagesJustified == \A m \in Everywhere : Justified(m)

\* Before the parse transaction a job has no tasks.
NoTasksYet ==
  \A t \in Tasks : job[JobOf[t]] \in {"ABSENT", "PENDING"} => task[t] = "ABSENT"

\* Once a stitch has been asked for, every chunk is DONE or was so.
Assembled(j) == \A t \in TasksOf(j) : task[t] = "DONE" \/ t \in overwritten

\* The audio c misses only chunks whose DONE was overwritten.
Excused(j, c) == TasksOf(j) \ c \subseteq overwritten

\* The status, or a message in flight, that asks for the stitch.
AskedIsAssembled ==
  /\ \A j \in Jobs : job[j] \in {"STITCHING", "COMPLETED"} => Assembled(j)
  /\ \A m \in Everywhere : m.stage = "stitch" => Assembled(m.of)

\* What a handler has fetched, and what has been uploaded.
AudioIsExcused ==
  /\ \A w \in Workers : pc[w] = "upload" =>
       Excused(msg[w].of, chunks[w]) /\ chunks[w] # {}
  /\ \A j \in Jobs : final[j] # {} => Excused(j, final[j])

\* The object is there before the job is COMPLETED, and not before STITCHING.
AudioIsThere ==
  /\ \A w \in Workers : pc[w] = "complete" => final[msg[w].of] # {}
  /\ \A j \in Jobs : job[j] = "COMPLETED" => final[j] # {}
  /\ \A j \in Jobs : final[j] # {} => job[j] \in {"STITCHING", "COMPLETED", "FAILED"}

StitchInv == AskedIsAssembled /\ AudioIsExcused /\ AudioIsThere

\* While leases outlive the work, a task at work is claimed, unless another
\* handler has dead-lettered it in the meantime, and nobody else works on it.
WorkInv ==
  early = 0 =>
    /\ \A w \in Workers : pc[w] = "work" =>
         \/ task[msg[w].of] = "IN_PROGRESS" /\ lease[msg[w].of] = "live"
         \/ task[msg[w].of] = "FAILED"
    /\ TaskMutex

\* Without faults a lease is given back by whoever took it: none is left to run out.
LeaseHeld ==
  faults = 0 /\ early = 0 =>
    \A t \in Tasks : lease[t] # "expired" /\ (lease[t] = "live" => AtWork(t))

\* The dead letter is published before the failure is recorded.
ParkedFirst ==
  /\ \A w \in Workers : pc[w] = "dlqMark" => msg[w] \in dlq
  /\ FailedIsParked

IInv == /\ TypeInv
        /\ MessagesJustified
        /\ NoTasksYet
        /\ StitchInv
        /\ WorkInv
        /\ LeaseHeld
        /\ NoDuplicateWithoutFault
        /\ NoWedge
        /\ OnlyAckedCrashStrands
        /\ ParkedFirst
=============================================================================
