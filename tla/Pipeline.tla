------------------------------- MODULE Pipeline ------------------------------
(***************************************************************************)
(* The whole pipeline: the gateway, and Workers processes that each run    *)
(* one consumer thread, an outbox relay and a lease reaper over the shared *)
(* tables and queues, and that may die and be restarted at any step.       *)
(***************************************************************************)
EXTENDS Gateway, ParseStage, TtsStage, StitchStage, RetryDlq, OutboxRelay, LeaseReaper

(***************************************************************************)
(* Death and restart of a worker process.                                  *)
(***************************************************************************)

\* What the death of w leaves behind: an unacked delivery returns to its queue,
\* Postgres rolls back the open transaction of the relay, the claim of a task
\* stays until its lease runs out.  A delivery that was acked but not yet
\* republished or marked FAILED is gone.
Die(w) ==
  /\ Up(w)
  /\ pc' = [pc EXCEPT ![w] = "down"]
  /\ msg' = [msg EXCEPT ![w] = NoMsg]
  /\ acked' = [acked EXCEPT ![w] = FALSE]
  /\ chunks' = [chunks EXCEPT ![w] = {}]
  /\ queue' = IF msg[w] = NoMsg \/ acked[w] THEN queue ELSE BagAdd(queue, msg[w])
  /\ lost' = IF acked[w] /\ pc[w] # "dlqAck" THEN lost \cup {msg[w]} ELSE lost
  /\ Rollback(w)
  /\ UNCHANGED <<tables, dlq, final, overwritten, early>>

\* docker kill, an exception that leaves the handler, a lost broker connection.
Crash(w) ==
  /\ faults < MaxFaults
  /\ faults' = faults + 1
  /\ Die(w)

\* _send_to_dlq acks again what _retry_or_dlq has acked already.  The broker
\* answers PRECONDITION_FAILED and closes the channel, start_consuming raises
\* and the process ends: no fault is needed for this death.  It counts as one
\* only when it rolls back the relay of w, which bounds the duplicates that a
\* long series of such deaths would pile up.
DoubleAck(w) ==
  /\ pc[w] = "dlqAck"
  /\ acked[w]
  /\ RelayIdle(w) \/ faults < MaxFaults
  /\ faults' = IF RelayIdle(w) THEN faults ELSE faults + 1
  /\ Die(w)

\* restart: on-failure (docker-compose.yml).
Restart(w) ==
  /\ pc[w] = "down"
  /\ Goto(w, "idle")
  /\ UNCHANGED <<tables, outbox, relayVars, queue, dlq, msg, acked, chunks, final,
                 ghosts, bounds>>

-----------------------------------------------------------------------------
Consume(w) == ParseReceive(w) \/ TtsReceive(w) \/ StitchReceive(w)

Handle(w) ==
  \/ ParseReject(w) \/ ParseClaim(w)
  \/ TtsFinish(w) \/ TtsRelease(w)
  \/ StitchFetch(w) \/ StitchUpload(w) \/ StitchComplete(w)
  \/ RetryAck(w) \/ Republish(w)
  \/ DlqPublish(w) \/ DlqMark(w) \/ DlqAck(w) \/ DoubleAck(w)
  \/ Ack(w)

Relay(w) == RelaySelect(w) \/ RelayPublish(w) \/ RelayCommit(w)

Next ==
  \/ \E j \in Jobs : Submit(j)
  \/ \E w \in Workers :
       \/ Consume(w)
       \/ Handle(w)
       \/ Relay(w)
       \/ RelayError(w)
       \/ Crash(w)
       \/ Restart(w)
  \/ \E t \in Tasks : LeaseExpires(t)
  \/ ReapLeases
  \/ ReconcileJobs

Spec == Init /\ [][Next]_vars

(***************************************************************************)
(* Fairness.  pika calls the handler of a consumer whose queue is not      *)
(* empty, a handler that runs goes on, relay and reaper loop for ever with *)
(* sleeps of 1 s and REAPER_INTERVAL_SECS, docker restarts a dead worker,  *)
(* and a lease nobody renews runs out.  Nothing is assumed of clients,     *)
(* faults, or of the outcome of a synthesis.                               *)
(***************************************************************************)
Fairness ==
  /\ \A w \in Workers :
       /\ WF_vars(Consume(w))
       /\ WF_vars(Handle(w))
       /\ WF_vars(Relay(w))
       /\ WF_vars(Restart(w))
  /\ \A t \in Tasks : WF_vars(~AtWork(t) /\ LeaseExpires(t))
  /\ WF_vars(ReapLeases)
  /\ WF_vars(ReconcileJobs)

LiveSpec == Spec /\ Fairness

-----------------------------------------------------------------------------
(***************************************************************************)
(* Properties.                                                             *)
(***************************************************************************)

MessageBag(b) == IsABag(b) /\ BagToSet(b) \subseteq Message

\* Every variable keeps its type; in particular no message carries an attempt
\* above MAX_RETRIES, and the counters stay within their bounds.
TypeOK ==
  /\ job \in [Jobs -> JobStatus]
  /\ task \in [Tasks -> TaskStatus]
  /\ lease \in [Tasks -> {"none", "live", "expired"}]
  /\ MessageBag(outbox)
  /\ MessageBag(queue)
  /\ DOMAIN locked = Workers /\ DOMAIN sent = Workers
  /\ \A w \in Workers : MessageBag(locked[w]) /\ MessageBag(sent[w])
  /\ dlq \subseteq Message
  /\ pc \in [Workers -> Label]
  /\ msg \in [Workers -> Message \cup {NoMsg}]
  /\ acked \in [Workers -> BOOLEAN]
  /\ chunks \in [Workers -> SUBSET Tasks]
  /\ final \in [Jobs -> SUBSET Tasks]
  /\ lost \subseteq Message
  /\ overwritten \subseteq Tasks
  /\ faults \in 0 .. MaxFaults
  /\ early \in 0 .. MaxEarly

\* A handler that will still act on its delivery, or return it on a crash.
Busy(w) == pc[w] \notin {"idle", "down", "ack", "dlqAck"}

RelayRows == UNION {BagToSet(locked[w]) : w \in Workers}
InHand    == {msg[w] : w \in {v \in Workers : Busy(v)}}

\* The messages that are still going to be handled.
InFlight == BagToSet(outbox) \cup BagToSet(queue) \cup RelayRows \cup InHand

Carried(stage, x, S) == \E m \in S : m.stage = stage /\ m.of = x

\* The work items a job waits for: without a message for one of them nothing
\* in the system moves the job on.
Awaits(j, stage, x) ==
  \/ job[j] = "PENDING" /\ stage = "parse" /\ x = j
  \/ job[j] = "PROCESSING" /\ stage = "tts" /\ x \in TasksOf(j) /\ task[x] = "PENDING"
  \/ job[j] = "STITCHING" /\ stage = "stitch" /\ x = j

\* Outbox, redelivery, lease and reaper together: whatever a job waits for is
\* under way, except when a handler died after it had acked the delivery and
\* before it republished it (parse.py:154, tts.py:239, stitch.py:166).
OnlyAckedCrashStrands ==
  \A j \in Jobs, stage \in {"parse", "tts", "stitch"}, x \in Jobs \cup Tasks :
    Awaits(j, stage, x) => Carried(stage, x, InFlight \cup lost)

\* DESIGN.md: "Ack only after the effect is durably committed" and "Death
\* between any step -> message unacked -> RabbitMQ redelivers".
NeverStranded ==
  \A j \in Jobs, stage \in {"parse", "tts", "stitch"}, x \in Jobs \cup Tasks :
    Awaits(j, stage, x) => Carried(stage, x, InFlight)

\* The completion check flips a job no later than its last chunk is DONE: only
\* the jobs of an earlier release wait for the reconciler.
NoWedge ==
  \A j \in Jobs \ Wedged :
    job[j] = "PROCESSING" => \E t \in TasksOf(j) : task[t] # "DONE"

\* A delivered drama lacks only chunks whose DONE a stale handler overwrote.
IncompleteOnlyIfOverwritten ==
  \A j \in Jobs :
    job[j] = "COMPLETED" => TasksOf(j) \ final[j] \subseteq overwritten

\* DESIGN.md: the stitch waits until all chunks are DONE; a lost lease costs
\* wasted work, not corruption.
CompletedIsWhole ==
  \A j \in Jobs : job[j] = "COMPLETED" => final[j] = TasksOf(j)

\* A job the client sees FAILED has its message parked in a dead-letter queue.
FailedIsParked ==
  \A j \in Jobs : job[j] = "FAILED" => \E m \in dlq : JobOfMsg(m) = j

\* As long as no lease runs out under its holder, the claim admits one worker
\* per task, whatever is redelivered, republished or reclaimed.
TaskMutex ==
  early = 0 =>
    \A v, w \in Workers :
      pc[v] = "work" /\ pc[w] = "work" /\ msg[v].of = msg[w].of => v = w

\* Where a copy of a message can be, and the bag of those that are there.
Spots == {<<"outbox">>, <<"queue">>} \cup ({"relay", "hand"} \X Workers)
At(p) == CASE p[1] = "outbox" -> outbox
           [] p[1] = "queue"  -> queue
           [] p[1] = "relay"  -> locked[p[2]]
           [] p[1] = "hand"   -> SetToBag({msg[p[2]]} \ {NoMsg})

\* Messages about one work item, whichever attempt they carry.
SameItem(m, n) == m.stage = n.stage /\ m.of = n.of

\* FOR UPDATE SKIP LOCKED partitions the outbox among the relays, and a retry
\* replaces its original: as long as no process has died and no relay
\* transaction was rolled back, there is never a second copy of a message.
NoDuplicateWithoutFault ==
  faults = 0 /\ early = 0 =>
    \A p, q \in Spots : \A m \in BagToSet(At(p)), n \in BagToSet(At(q)) :
      SameItem(m, n) => p = q /\ m = n /\ At(p)[m] = 1

\* A job the client sees FAILED stays so: DESIGN.md calls it "a real terminal
\* state" and pollers stop there.
FailedIsFinal ==
  [][\A j \in Jobs : job[j] = "FAILED" => job'[j] = "FAILED"]_vars

\* The statuses the client polls follow JobLifecycle.
Lifecycle == INSTANCE JobLifecycle WITH
               Legacy <- Wedged,
               status <- job,
               audio  <- {j \in Jobs : final[j] # {}}

ImplementsLifecycle == Lifecycle!Spec

\* Every submitted job ends COMPLETED or FAILED, unless its message was lost in
\* the ack-before-republish window.
EveryJobEnds ==
  \A j \in Jobs : job[j] # "ABSENT" ~> job[j] \in {"COMPLETED", "FAILED"} \/ lost # {}

=============================================================================
