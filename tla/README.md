# Audio-drama pipeline: TLA+ models, model checking, proofs

The repository turns a manuscript into an audio drama. A gateway accepts it, worker
processes parse it into chunks, synthesise each chunk and stitch the result; Postgres holds
the truth, RabbitMQ the work, Redis a semaphore and a cache, MinIO the objects. This directory
holds TLA+ modules of that system, TLC configurations for small instances, and theorems that
TLAPS checks for all values of the constants.

Paths below are relative to the repository's root.

## 1. Inventory

| Component | Source | State it keeps | Operations |
|---|---|---|---|
| Gateway | `gateway/app.py` | job row, outbox row, manuscript object | `POST /jobs`, `GET /jobs/{id}` |
| Parse stage | `worker/stages/parse.py` | job PENDING → PROCESSING, task rows, outbox rows | `handle` |
| TTS stage | `worker/stages/tts.py` | task status and lease, job PROCESSING → STITCHING, chunk objects | `handle` |
| Stitch stage | `worker/stages/stitch.py` | final object, job → COMPLETED | `handle` |
| Retry / DLQ | `_retry_or_dlq`, `_send_to_dlq` in each stage | retry queues, DLQs, FAILED | ack, republish, park, mark |
| Outbox relay | `worker/main.py:47` | `outbox.published_at`, row locks | select, publish, commit, rollback |
| Reaper, reconciler | `worker/main.py:113` | expired tasks, stuck jobs, outbox rows | two sweeps |
| Worker process | `worker/main.py:223`, `docker-compose.yml` | one consumer thread, a relay and a reaper thread | start, die, restart |
| Topology | `worker/topology.py` | exchanges, main, retry and dead-letter queues | `declare_topology` |
| Semaphore | `worker/locks.py:61-136` | Redis ZSET of holders with ages | acquire, heartbeat, release |
| Content cache | `worker/locks.py:141-182` | cache entry and lock with TTL per hash | get, set, lock, unlock, wait |
| TTS service | `tts-service/app.py` | model files | `POST /synthesise` |
| Pure functions | `_parse_segments`, `_stitch_chunks` | none | text → segments, chunks → WAV |

**How they interact.** Stages never call each other. A stage commits its result together with
outbox rows; a relay (any worker's) publishes them; RabbitMQ delivers to any worker and
redelivers what was not acked when the process dies. The tables are shared by all processes;
a task is claimed by a conditional UPDATE that sets a lease; the reaper resets expired
leases and emits the event again.

**What is hard.** Several workers interleave at every call to Postgres, RabbitMQ or MinIO;
processes die at any step; the relay sends an event again after a rollback; a
lease may run out under a worker that is alive; the failure path acks *before* it republishes;
three handlers write statuses without looking at them; the dead-letter path acks twice, which
makes the broker close the channel and so ends the process. Transactions lock the rows of one job
in opposite orders; Redis locks run out, or are deleted by others, under their holders; relays publish,
without confirms, before the queues exist; voice models are downloaded in place by several
threads.

**What makes it correct**, component by component:

| Component | Properties |
|---|---|
| Whole pipeline | every submitted job ends COMPLETED or FAILED (`EveryJobEnds`); what a job waits for is always under way (`OnlyAckedCrashStrands`) |
| TTS stage | one worker per task (`TaskMutex`); the last finisher flips the job (`NoWedge`) |
| Stitch stage | the drama holds every chunk (`IncompleteOnlyIfOverwritten`, `CompletedIsWhole`) |
| Retry / DLQ | attempts bounded (`TypeOK`); a FAILED job has a parked message (`FailedIsParked`) |
| Completion transaction | looks atomic (`ImplementsPromise`), flips the job (`NeverWedged`), ends (`TransactionsEnd`) |
| Relay | an event is published, and once unless something failed (`NoDuplicateWithoutFault`) |
| Gateway | one job per idempotency key (`OneJobPerKey`); the manuscript precedes its message (`ManuscriptFirst`) |
| Topology | an accepted job is parsed or FAILED (`AcceptedGoesOn`); exactly how its event or message can be lost (`LostOnlyInTheGaps`) |
| Semaphore | at most three vendor calls (`CallsCapped`); slots come back (`SlotsReturn`) |
| Content cache | keys name the right audio (`OutputReadable`); how many synthesise one text (`StampedeBounded`, `NeverPaidTwice`); waiters get on (`WaitersReleased`) |
| TTS service | broken downloads heal (`CutModelHeals`) |
| Pure functions | the lines become the right segments (`SegmentsFaithful`); each segment is heard in its place and voice (`DramaFaithful`, `GapsBetween`) |
| Status API | statuses move as a client may rely on (`JobLifecycle`, `FailedIsFinal`); one answer does not contradict itself (`AnswerConsistent`) |

## 2. Modules

| Module | Models | Content |
|---|---|---|
| `PipelineState` | tables, queues, control state of each worker | constants, variables, `Init`, what handlers share (`Deliver`, `Return`, `Commit`, `Ack`) |
| `Gateway` | `submit_job` | `Submit` |
| `ParseStage` | `parse.py` `handle` | `ParseReceive`, `ParseReject`, `ParseClaim` |
| `TtsStage` | `tts.py` `handle` | `TtsReceive`, `TtsFinish`, `TtsRelease` |
| `StitchStage` | `stitch.py` `handle` | `StitchReceive`, `StitchFetch`, `StitchUpload`, `StitchComplete` |
| `RetryDlq` | the failure paths of the three stages | `RetryAck`, `Republish`, `DlqPublish`, `DlqMark`, `DlqAck` |
| `OutboxRelay` | `outbox_relay` | `RelaySelect`, `RelayPublish`, `RelayCommit`, `RelayError` |
| `LeaseReaper` | `lease_reaper`, passing of time | `LeaseExpires`, `ReapLeases`, `ReconcileJobs` |
| `Pipeline` | composition, death and restart | `Crash`, `DoubleAck`, `Restart`, `Next`, `Fairness`, properties |
| `JobLifecycle` | abstract specification | what polling `GET /jobs/{id}` shows |
| `PipelineInvariant` | – | the inductive invariant, in named parts |
| `Semaphore` | `locks.py` semaphore as `tts.py` uses it | `SemCount`, `SemTry`, `SemHeartbeat`, `SemRelease`, `SemTimeout`, ... |
| `Completion` | the transactions on the rows of one job, statement by statement | `LockJob`, `UpdateTask`, `Count`, `Commit`, `MarkTask`, `MarkJob`, `SweepRow`, `GetJob`, `Deadlock`, ... |
| `CompletionPromise` | abstract specification | the same transactions as single steps |
| `SynthesisCache` | content cache and stampede lock as `tts.py` uses them | `LockAcquire`, `Recheck`, `PutObject`, `CacheSet`, `LockRelease`, `CacheWait`, `LockExpires`, ... |
| `Intake` | `POST /jobs` call by call, relay and `declare_topology` at boot, the parse handler call by call, retry tiers | `Lookup`, `Insert`, `RelayPublish`, `RelayError`, `Declare`, `Receive`, `Claim`, `RetryAck`, `Republish`, `DlqMark`, `Restart`, ... |
| `Segments` | `_parse_segments` | operators |
| `WavAssembly` | `_stitch_chunks` | operators |
| `VoiceModels` | `_ensure_model` and `startup` of the TTS service | `Missing`, `OpenModel`, `ModelFetched`, `OpenConfig`, `Fetched`, `DownloadFails`, `ServiceDies`, ... |
| `Drama` | the content from manuscript to audio; composes the three above with the cache | `Parse`, `CacheHit`, `Ask`, `Speak`, `Mute`, `GiveUp`, `Stitch` |
| `MCPipeline`, `MCSemaphore`, `MCCompletion`, `MCSynthesisCache`, `MCIntake`, `MCDrama` | – | instances for TLC |
| `PipelineProofs`, `LifecycleProofs` | – | theorems about `Pipeline` |
| `SegmentsProofs` | – | lemmas about `_parse_segments` and the helpers it shares with the assembly |
| `DramaProofs` | – | theorems about `Drama`, with what `VoiceModels` and `WavAssembly` contribute |
| `SemaphoreProofs`, `CompletionProofs`, `SynthesisCacheProofs`, `IntakeProofs` | – | theorems about the module each is named after |

How they fit together: `Pipeline` is the whole system with each transaction and each inside of a
handler taken as one step; `Completion`, `Semaphore`, `SynthesisCache`, `Intake` and `Drama` each open one
of these steps. `Completion` shows why a transaction may be taken as one step; `Intake` and
`SynthesisCache` show what is excepted when a publish is taken to arrive and a synthesis to end.

### State of `Pipeline`

| Variable | Code |
|---|---|
| `job`, `task` | `jobs.status`, `tasks.status`; `ABSENT` before the INSERT |
| `lease` | `tasks.locked_until` against `now()`: `none`, `live`, `expired` |
| `outbox` | rows with `published_at IS NULL` that no relay has locked |
| `locked[w]`, `sent[w]` | rows locked by the relay of `w`, not yet / already published in its open transaction |
| `queue` | messages in the main and the retry queues, prefetched ones included |
| `dlq` | messages in the three dead-letter queues |
| `pc[w]`, `msg[w]`, `acked[w]`, `chunks[w]` | where the consumer thread is, its delivery, whether that was acked, what stitch fetched |
| `final[j]` | which chunks `audio/final/<j>/output.mp3` was made of |
| `lost`, `overwritten` | history: messages that died between ack and republish; tasks whose DONE was overwritten |
| `faults`, `early` | count against the bounds `MaxFaults`, `MaxEarly` |

### State of the other modules

| Module | Variables | Code |
|---|---|---|
| `Completion` | `job`, `task`, `expired` | committed `jobs.status`, `tasks.status`, leases that have passed |
| | `pc`, `on`, `last` | the statement a handler is at, its task, the result of its count |
| | `todo`, `held` | rows the sweep's UPDATE has still to lock, rows it has reset |
| | `stitching`, `seen` | a stitch handler past its guard; the status a GET has read |
| `SynthesisCache` | `entry`, `lock` | `tts:cache:<hash>`, `tts:lock:<hash>`. Who set a lock is known to the model only |
| | `stored`, `output` | chunk objects in MinIO, `output_key` of the tasks |
| | `pc`, `on`, `key` | the handler, its task, its local `output_key` |
| `Intake` | `job`, `stored`, `outbox`, `queue` | jobs, manuscripts, unpublished events, messages |
| | `post`, `answer` | where a request stands, what the client got |
| | `broker`, `declared` | what exists in RabbitMQ, how far each worker has declared |
| | `channel`, `row`, `fate` | the relay's channel, the row in its transaction, what became of the message |
| | `at`, `hand` | where the parse handler of a worker stands, the message it handles |
| | `unrouted`, `broken`, `acked` | history: events and messages that were lost, and how |
| `VoiceModels` | `file` | content of `/models`: absent, cut, whole, or the thread writing it |
| | `at`, `voice`, `ahead` | threads of the service; entries of `VOICE_REGISTRY` that `startup()` has still to look at |
| | `overlapped` | history: voices that two threads have been fetching at a time |
| `Drama` | `text`, `segments`, `audio`, `cache`, `final` | manuscript, task rows, chunk objects, cache, drama |
| | `chunk` | the task whose worker waits for the answer to a request |

### Granularity and abstractions

* A handler is cut at its calls to Postgres, RabbitMQ and MinIO. A transaction is one action:
  each of them locks the rows it decides on (conditional UPDATE, `FOR UPDATE`) before it does.
* Delivery and the handler's first database call are one action, because nothing is kept
  from before that call.
* A fault under a commit may hide its success from the handler (`Commit`). In tts the
  commits are outside any `try`: the exception leaves the handler and the process ends,
  which `Crash` covers.
* Label `work` stands for semaphore, cache and vendor call. They end in success
  (`TtsFinish`) or in failure or timeout (`TtsRelease`), at any time. `Semaphore` is the inside
  of this label as far as the slots go, `SynthesisCache` as far as cache and vendor call go; both
  leave out messages and jobs, so any unfinished task may
  be claimed. In `Semaphore` a score of the sorted set is `fresh` or `stale` (older than
  `LEASE_SECONDS`), a crash includes the restart, and each heartbeat thread is cut between
  its `wait()` and its `ZADD`.
* `Completion` has one job. Rows are locked from the statement that touches them to the end of the
  transaction, and statements see what is committed when they start (READ COMMITTED). A
  transaction of a single UPDATE waits for its row and is one step: it holds nothing while it
  waits, so it blocks nobody. Two parts are left out: the messages (any claimable task
  may be claimed) and the reconciler, whose SELECT finds nothing in a state that
  satisfies `NeverWedged`.
* In `SynthesisCache` a key is the task whose object it names. Which of the stored objects
  are read later is `OutputReadable`'s question; vendor call and upload are one step each.
* In `Intake` one stage stands for the three, because only the first event can be published before
  the topology exists. Copies of a message count once, a relay takes one row at a time, and a job
  is named after the POST that made it. A worker's relay and its main thread die together. The parse
  handler is cut where `RetryDlq` cuts it: the ack, then the republish or the FAILED mark, with a
  death possible in between. A publish to the DLQ is one step with the mark, as the job counts and not the
  parked message (`FailedIsParked` asks for that one). Manuscripts that no retry can save, and their way to
  the DLQ, are in `Pipeline`.
* `RetryDlq` and `OutboxRelay` take every publish to arrive; what becomes of those that do not is `Intake`'s
  question for the first events and the republished ones. A DLQ publish that is lost is in neither.
* In `VoiceModels` a download is cut at the check (`app.py:54`), at each truncating `open` (67) and at each last write:
  between check and `open` lies the GET, which may take two minutes. The startup thread goes through the registry
  entry by entry, so it looks at a voice as often as there are speakers with it, in any order.
* In `Drama` a line is a label, words, both or nothing, without white space at its ends; names of
  speakers are upper case, as `SPEAKER_RE` demands, so the service's `upper()` changes nothing.
  Piper speaks when both files of the voice are whole and fails otherwise. A thread of the
  service goes on when its worker has given up. The header is one element of a sequence, its
  length fields are left out.
* The poison branch of tts (`tts.py:55-58`) cannot be reached: parse rejects the whole
  manuscript when the token is anywhere in it.
* A retry queue delays a message by its TTL; in the model the message is deliverable
  at any later moment, which includes every delay.
* Outbox rows have no age: when there are more than `RelayLimit`, any `RelayLimit` of them
  may be the oldest.
* Messages prefetched by a consumer stay in `queue`. When a process dies they are
  requeued, which changes nothing; before that another worker may take them in the model,
  which is one of the orders the broker could have chosen.
* After a second ack the broker closes the channel. The process could in principle still
  handle a prefetched delivery before it notices; its ack would fail, as if it had
  crashed just before.
* `DoubleAck` is not a fault and happens without bound, except when it also rolls back a
  relay batch: then it counts towards `MaxFaults`, to bound the duplicates.
* `Wedged` are the jobs DESIGN.md 9.2 reports, left by a release without the job-row lock.

## 3. What the runs check

All runs say `CHECK_DEADLOCK FALSE`: the system rests once every job has ended. The first seven
use `MCPipeline` with two workers.

| Run | Instance | Checks | Shows |
|---|---|---|---|
| `Redelivery` | 1 drama, 2 chunks, 1 retry, 1 fault, batches of 2 | `TypeOK`, `OnlyAckedCrashStrands`, `NoWedge`, `TaskMutex`, `NoDuplicateWithoutFault` | redelivery, relay rollback, lost commit replies and retries strand a job only by a death between ack and republish; they never run a task twice at once or skip the flip |
| `LeaseLoss` | 1 drama, 2 chunks, no retry, 1 fault, 1 early expiry, batches of 1 | `IncompleteOnlyIfOverwritten`, `ImplementsLifecycle` | with leases lost under their holders, what can go wrong with a delivered drama is exactly the overwriting of a DONE; statuses follow `JobLifecycle` |
| `PoisonLegacy` | a poison job and a wedged job, 1 fault | `FailedIsParked`, `OnlyAckedCrashStrands`, `EveryJobEnds` | the DLQ path with its double ack, the reconciler |
| `Liveness` | 1 drama, 1 chunk, 1 retry, 1 fault | `EveryJobEnds` | the drama ends under fairness |
| `Stranded` | 1 chunk, 1 fault | `NeverStranded` – violated | a death between ack and republish loses the message |
| `Incomplete` | 2 chunks, 1 early expiry, no fault | `CompletedIsWhole` – violated | a stale `status='PENDING'` removes a finished chunk from the drama |
| `Reopened` | 1 chunk, 1 early expiry, no fault | `FailedIsFinal` – violated | a FAILED job becomes COMPLETED |
| `Semaphore` | 2 tasks, 1 slot, 1 crash, 1 lost lease, 1 late heartbeat | `CallsCapped`, `SlotsReturn` | the cap holds, and slots of dead holders or of late heartbeats come back |
| `Completion` | 2 chunks, 2 handlers, 1 sweep, 1 crash, 1 early expiry | `NeverWedged`, `AnswerConsistent`, `ImplementsPromise`, `TransactionsEnd` | the transactions look atomic, and circles of waiting are broken up |
| `Cache` | 3 workers, 2 tasks of one text, 1 fault, 1 late TTL | `OutputReadable`, `StampedeBounded`, `NeverPaidTwice`, `WaitersReleased` | a lock that runs out costs one more synthesis and nothing else |
| `Intake` | a POST and its retry with one key, 2 workers at first boot, 1 retry tier, 2 retries, 1 fault | `OneJobPerKey`, `ManuscriptFirst`, `LostOnlyInTheGaps`, `AcceptedGoesOn` | one job per key; which accepted jobs never get on, also when a handler dies between any two of its steps |
| `Drama` | all 258 non-empty manuscripts of up to 3 lines from 6 (and the empty one), 2 voices, 2 requests, 3 faults | `SegmentsFaithful`, `CutModelHeals`, `DramaFaithful`, `GapsBetween` | a labelled line is a segment of its own speaker, unless it stands behind a bare label, and is heard even then; every segment is heard in its place and its speaker's voice; which broken downloads heal |

**The violated ones.**
`Stranded`: DESIGN.md §4 says "Ack only after the effect is durably committed" and "Death
between any step → message unacked → RabbitMQ redelivers"; `parse.py:154`, `tts.py:239` and
`stitch.py:166` ack first. For tts the reaper cannot help: the claim was already given
back, no lease is left to expire.
`Incomplete`: DESIGN.md §9 accepts that the write of a stale worker is unconditional because
it is "wasted work, not corruption". That is so for DONE; the failure path writes PENDING
(`tts.py:88`, `tts.py:154`) or FAILED (`tts.py:274`) just as unconditionally. If the new owner has
finished and the job is STITCHING, the stitch takes only the DONE rows and the drama lacks the
chunk. A lease lasts 30 to 60 s, the wait for the semaphore alone up to 120 s.
`Reopened`: the job is marked FAILED when a chunk is dead-lettered; a stitch
handler past its guard then writes COMPLETED (`stitch.py:75` has no condition). Pollers stop at
FAILED, DESIGN.md calls it "a real terminal state".

**What the passing ones except.** The conditions and exceptions in the properties are what the code
leaves open, and each is needed:

* `LostOnlyInTheGaps`: `schema.sql:49` says the outbox "Eliminates 'DB committed but broker
  publish lost' gap". It does so up to three cases. The relay thread starts before the main thread declares
  the topology; on a first boot an event may be published to an exchange without the binding (or without
  the exchange) and still be stamped (`unrouted`). `basic_publish` has no confirms: a message written into a
  connection that is breaking is stamped too (`broken`). And a handler that fails acks first: if it dies, or its
  connection breaks, before the republish (`parse.py:154` to `165`) or the FAILED mark (`180` to `193`), the message is gone
  (`acked`); this is the loss `Stranded` shows. A job lost in one of these ways stays PENDING for ever.
  That there is no fourth needs `min(attempt, len(BACKOFF_SECS) - 1)`, since `MAX_RETRIES` is set apart from
  the tiers, and that no handler works before its own process has declared every tier.
* `OneJobPerKey` speaks of answers that name a job. Of two concurrent POSTs with one key the second
  gets an error 500 and not, as DESIGN.md:174 has it, the existing job; a retry gets it.
* `StampedeBounded` and `NeverPaidTwice` count TTLs that ran out under a live synthesis (`late`): the TTL
  is 10 s unless the simulation is slower, a vendor call may take 60 s. `locks.py:46` accepts
  the duplicate and promises "never corruption"; that is `OutputReadable`, without exception.
* `AnswerConsistent` excepts chunks a stale handler has overwritten, as in `Incomplete`.
* `TransactionsEnd` relies on Postgres: handlers of one job do block each other in circles: of two, the
  finisher and the dead-letter mark of one task, and of three, with a sweep between them, after a lost
  lease. The circle of two needs no fault in `Completion`, which leaves messages out and lets any task be claimed; in the
  whole system two deliveries of one task must be under way for it. A handler that is aborted dies with its
  process. Two sweeps that lock the same rows in opposite orders are outside this run, which has one.
* `NoWedge` and `EveryJobEnds` take the completion transaction as one step: they would notice a wrong count, but
  two finishers statement by statement are `NeverWedged`'s matter.
* In `Cache` both tasks have one text, so the run shows of `OutputReadable` that the object is there; that it
  is of the task's own hash, when there are several, is shown by the theorem.
* `CutModelHeals`: a download cut by an error or a death is noticed only when the *other* file is
  missing. The config comes second, so a cut model is downloaded again; a cut config is taken
  as present, on a volume that outlives the process, and the voice stays mute for
  good. So may a model that two requests were fetching at a time. A request that has only looked counts as one of
  them (`overlapped` is set at the second `exists()`): after its GET it truncates the file, though the other may have
  completed the voice meanwhile, and if it then breaks off, a cut model stands beside a whole config.
* `SegmentsFaithful` is exact for manuscripts without bare labels. The `\s*` of `SPEAKER_RE` (`parse.py:26`) also
  matches line ends, so a bare label takes the next line that is not blank, whatever it is, as its text: "ALICE:" before
  "BOB: yes" makes one task, in which ALICE says "BOB: yes", and none for BOB, although DESIGN.md:17 makes the TTS unit the
  speaker line. The property confines that to the line behind a bare label: every other labelled line is a
  segment of its own speaker, and that one at least is spoken by somebody. `DramaFaithful` speaks of the voices of
  segments, not of lines.

Not a run, because it only depends on timing: `tests/test_pipeline.py:142` expects at most three
tasks IN_PROGRESS, but a task is claimed (`tts.py:61`) before its worker waits for a slot (`tts.py:83`). What
is capped is the number of vendor calls.

**Why these bounds are enough to be interesting.** Two workers are what every race here needs
(the holder and the one who takes over, two finishers, two relays); two chunks are needed for a
count that can be wrong and for a drama that can be incomplete; one retry distinguishes a
retried message from one that is dead-lettered; batches of one next to batches of two make a
relay leave rows behind; one fault plus one early expiry reach every violated property, and
the faults multiply: a single crash rolls back a relay, requeues a delivery and leaves a claim.
The proofs of section 5 remove the bounds for every invariant and both refinements.

In `Semaphore` one slot and two workers race for the last free slot, the case the script is
there for; the theorem covers more slots and workers. In `Completion` two handlers and a sweep make
every circle of transactions there is on two chunks. In `Cache` the third worker is the one that gets in
when a holder has lost its lock and deletes its successor's. In `Intake` one tier and two
retries make the index exceed the tiers; one fault is enough to lose an answer, a
connection or a process, at each of its steps; a second one (0.6 million states) shows nothing new. In `Drama` three lines are enough for a bare label, a blank line behind it and the line it
takes, and for a chunk missing at either end or in the middle; three faults for two broken
downloads and a death.

**Bounds in the guards:** `MaxFaults` (crashes, relay errors, lost commit replies, and whatever else a run calls a fault), `MaxEarly`
(leases that run out under a worker at work) and `MaxLate` (in `Semaphore` slots that age out, in
`SynthesisCache` locks that run out, under a worker at work). They bound a behaviour, not the state; the
proved theorems hold for all their values.

## 4. Fairness

In `Pipeline`, `LiveSpec` assumes weak fairness of: taking a delivery (pika calls the handler of an idle
consumer), going on inside a handler (as one action: which branch is taken, success or failure,
is not assumed), each relay (a loop with a sleep of 1 s), restart (`restart: on-failure`), the
passing of a lease whose holder is not at work (it is not renewed), and the two sweeps of
the reaper (a loop with a sleep; errors are caught). Nothing is assumed of clients, of faults,
or of the result of a synthesis: a chunk that always fails ends in the DLQ and its job FAILED.
No assumption prevents a worker from dying after each dead-lettering.

In `Semaphore` only that a `ZADD` under way arrives and that time passes is assumed; nothing
is assumed of the workers.

In `Completion` Postgres is assumed to queue the waiters of a row lock, so that a statement whose
lock becomes free again and again gets it (strong fairness), to break up circles of waiting
transactions, and a sweep that has its rows to commit. Nothing is assumed of claims, stitches and readers.

In `SynthesisCache` a handler goes on (its calls have timeouts and `cache_wait` is bounded), and the lock
of a dead process expires. The deadline of 120 s is not assumed to come: waiters get on without it.

In `Intake` each relay goes on (a loop with sleeps that reconnects on errors) and so does each main thread, which
declares, takes deliveries and goes on inside a handler (as one action: whether it succeeds is not assumed). Nothing is assumed of clients. `Drama` states no liveness.

The conclusion of `EveryJobEnds` excepts behaviours with `lost # {}`: a death between ack and
republish really strands the job (`Stranded`).

## 5. What is proved

TLAPS checks, for all values of the constants that satisfy the assumption of the module
(`PipelineAssumption`, `SemaphoreAssumption`, `CompletionAssumption`, `CacheAssumption`, `IntakeAssumption`,
`VoiceAssumption`, `DramaAssumption`):

| Theorem | Module | States |
|---|---|---|
| `TypeCorrect` | `PipelineProofs` | `Spec => []TypeOK` |
| `OnlyAckedCrashStrandsCorrect` | `PipelineProofs` | `Spec => []OnlyAckedCrashStrands` |
| `NoWedgeCorrect` | `LifecycleProofs` | `Spec => []NoWedge` |
| `IncompleteOnlyIfOverwrittenCorrect` | `LifecycleProofs` | `Spec => []IncompleteOnlyIfOverwritten` |
| `TaskMutexCorrect` | `LifecycleProofs` | `Spec => []TaskMutex` |
| `FailedIsParkedCorrect` | `LifecycleProofs` | `Spec => []FailedIsParked` |
| `NoDuplicateCorrect` | `LifecycleProofs` | `Spec => []NoDuplicateWithoutFault` |
| `LifecycleImplemented` | `LifecycleProofs` | `Spec => ImplementsLifecycle` |
| `InvariantIsInductive` | `LifecycleProofs` | the conjunction of the parts below is inductive |
| `SemaphoreTypeCorrect` | `SemaphoreProofs` | `Spec => []TypeOK` of `Semaphore` |
| `CallsCappedCorrect` | `SemaphoreProofs` | `Spec => []CallsCapped` of `Semaphore` |
| `TypeCorrect`, `Invariant` | `CompletionProofs` | type invariant and inductive invariant of `Completion` |
| `NeverWedgedAlways` | `CompletionProofs` | `Spec => []NeverWedged` |
| `AnswerConsistentAlways` | `CompletionProofs` | `Spec => []AnswerConsistent` |
| `Refinement` | `CompletionProofs` | `Spec => ImplementsPromise` |
| `TypeCorrect` | `SynthesisCacheProofs` | type invariant of `SynthesisCache` |
| `OutputReadableAlways` | `SynthesisCacheProofs` | `Spec => []OutputReadable` |
| `StampedeBoundedAlways` | `SynthesisCacheProofs` | `Spec => []StampedeBounded` |
| `NeverPaidTwiceAlways` | `SynthesisCacheProofs` | `Spec => []NeverPaidTwice` |
| `TypeCorrect` | `IntakeProofs` | type invariant of `Intake` |
| `OneJobPerKeyAlways` | `IntakeProofs` | `Spec => []OneJobPerKey` |
| `ManuscriptFirstAlways` | `IntakeProofs` | `Spec => []ManuscriptFirst` |
| `LostOnlyAlways` | `IntakeProofs` | `Spec => []LostOnlyInTheGaps` |
| `CutModelHealsAlways` | `DramaProofs` | `Spec => []CutModelHeals` |
| `AudioFaithfulAlways` | `DramaProofs` | `Spec => []AudioFaithful`: each task's audio is its own text in its own speaker's voice |
| `SegmentsFaithfulAlways` | `DramaProofs` | `Spec => []SegmentsFaithful`, for manuscripts of any length |
| `DramaFaithfulAlways` | `DramaProofs` | `Spec => []DramaFaithful`, for any number of chunks |
| `GapsBetweenAlways` | `DramaProofs` | `Spec => []GapsBetween` |

The assumptions say that constants are sets, numbers and functions of the kind meant and that markers
such as `NoMsg` or `Silence` are not values; TLC evaluates them in the runs. `DramaAssumption` in
particular says that manuscripts are sequences and that nothing spoken is the silence between chunks, nor the
header: by that the properties tell gaps and speech apart.

**The argument for `Pipeline`.** None of the properties is inductive by itself; `PipelineInvariant` strengthens
them in named parts.

1. `TypeInv` = `TypeOK` and `HandlerOK`. That no attempt exceeds `MaxRetries` needs to know
   that a handler at `republish` has just compared it; that needs the labels to fit the stage
   of the message in hand. Lemmas on bags (what adding and removing does to the domain)
   carry the steps on `outbox`, `queue`, `locked`, `sent`.
2. *Flow.* For every action a lemma says where the messages go: which are new, which are
   no longer going to be handled (`Flow(new, gone)` in `PipelineProofs`). Every later proof uses
   these lemmas instead of the actions.
3. `MessagesJustified`: a message that exists, anywhere, tells something of its job's status (a
   tts message only exists when the job has been parsed, a stitch message only when it was
   flipped). With `NoTasksYet` this makes stale deliveries harmless, and `OnlyAckedCrashStrands`
   inductive: a message leaves the flow only in a step after which its job no longer waits for it.
4. `StatusStep` and `TaskStep` (`LifecycleProofs`) summarise what one step may do to a job and to a
   task. `NoWedge` follows: a task becomes DONE only in `TtsFinish`, which flips the job when it
   was the last.
5. The delivery parts say, from the flip to the completed drama, that each chunk is DONE
   or overwritten, then fetched, then in the audio. Their conjunction at COMPLETED is
   `IncompleteOnlyIfOverwritten`.
6. `TaskMutex` rests on: a worker at `work` holds a live lease on an IN_PROGRESS task unless a
   lease ran out early.
7. `FailedIsParked` rests on: a handler at `dlqMark` has its message in the DLQ.
8. `LifecycleImplemented` maps `status` to `job` and `audio` to the jobs with an object; each
   step is a step of `JobLifecycle` or leaves both unchanged. It needs the delivery parts
   (an uploader has something to upload) and `MessagesJustified` (an upload happens only from
   STITCHING on).
9. `NoDuplicateWithoutFault`: outbox, queue, every relay's locked rows and every worker's hand are *spots*,
   and without faults two messages of one work item are the same copy in the same spot. A step
   moves a copy from one spot to another (`RelaySelect`, `RelayPublish`, a delivery, a republish), ends one, or
   creates an event. A new event finds no copy of its item because of `MessagesJustified` and
   `NoTasksYet`: before the step that creates it, the job's status forbids its item everywhere (the reconciler's too: it
   finds the job PROCESSING, and a stitch message needs STITCHING). The reaper has nothing to emit again, as
   `LeaseHeld` says: without faults a live lease has its holder at work, and none is left to run out.

**`Semaphore`.** Undisturbed, claims are exclusive and every worker at its call
owns a fresh slot of its own task. Tasks inject the workers into the taken slots, so there are
no more calls than slots, and the script adds one only below the cap. The number of slots
itself is *not* bounded by the cap: a heartbeat that arrives after the release adds one.

**`Completion`.** A lock has one holder (`JobExclusive`, `RowExclusive`), and a row the sweep holds is
IN_PROGRESS and expired (`HeldClaims`). `Counted`: a transaction that has found all other chunks DONE is still right
about them when it commits, or the chunk has been overwritten meanwhile; the lock on the job row makes
sure that no other finisher commits in between. With this `NeverWedged` is inductive, and so are
`Assembled` (from the flip on, every chunk is DONE or overwritten, from which `AnswerConsistent` follows) and
`Stitched`. Each committing step is then one step of `CompletionPromise`, the others change nothing it sees.

**`SynthesisCache`.** `KeysRight`: every key, in Redis, in a local variable or at a task, names a stored
object of its hash. `StampedeBounded` is not inductive: the release of a foreign lock may let in one
more without a TTL running out at that moment. What is inductive is the number of *strays*, those inside who are
not the lock's owner: a TTL that runs out makes a stray of its holder, a foreign release swaps one stray for
another, nothing else adds one. For `NeverPaidTwice`: while there are no strays the holder is alone, so the
entry it found empty stays empty.

**`Intake`.** `KeysKept`: an answered or inserted job is alone with its key. `StoredFirst`: a request past its
upload, an event and a message, in a queue or in a handler's hand (`Carried`), all imply the manuscript, because every
message comes from another one of its job or from the outbox (`MessagesFrom`). For the loss: what a worker has declared
exists, and a worker at a handler has declared all tiers (`Declared`), so no republish is dropped; a handler about to ack
has a job that is PROCESSING or FAILED (`AckKnown`), and jobs do not come back from there (`JobsStay`); the
ghost of a relay tells where its message is (`FateKnown`); only accepted jobs have rows and messages (`Accepted`). Then a job
once reached by its event stays so (`ReachedKept`): no handler lets go of one that waits, unless it dies after
its ack (`CarriedKept`).

**`Drama`.** For the models: a file that is being written has its writer (`WritersKnown`), and a voice that two
threads never fetched at a time, from the check of each on, has one thread at it at most, finds it between its steps as
it has left it, and has a whole model before anyone touches its config (`Orderly`). For the audio: what is found under a hash was spoken for that speaker and text
(`CacheFaithful`), and a thread somebody waits for has the voice of the speaker it was asked for (`AskedRight`).
For the content (`ContentInv`): the task rows are the segments of some manuscript (`TextInv`), and a drama is what
`StitchChunks` makes of the audio of the tasks that were kept (`FinalInv`); both follow from `AudioFaithful`.
The rest is about what the two pure functions compute, for every input:

* `SegmentsProofs`. `Matches` is a recursive function over positions. It first has to be shown to exist, and
  then to find, from any line on, the labelled lines behind it: exactly those, if no label is bare; all of
  them among others, if some are, because a bare label that swallows a labelled line still has it heard; and as
  their own segments those that stand behind no bare label (`OwnSegment`). The
  paragraphs, put together again, are the lines that are not blank.
* `DramaProofs`. Of n chunks the gaps stand behind the first g, because the indices ascend and the guard of the code
  compares the *index* with the *number* of chunks. So chunk k stands at 2k while k <= g, and
  at k + g + 1 behind (`Place`; the header is at 1), the gaps between, and the frames read in order are the chunks (`Assembled`,
  `AssembledFaithful`). If no chunk is missing, g is n - 1.

No induction theorem of the library can be used, since those take an operator as a parameter. Instead each induction
is over the *set* of the numbers for which the claim holds: a set of numbers that is not empty has a
least element (`Least`, from the library's theorem that < on Nat is well-founded), so a set that
contains 0 and all successors is Nat (`Induct`), and `Backwards` goes from the last line to the first.

**Only model-checked:** the liveness properties `EveryJobEnds`, `SlotsReturn`, `TransactionsEnd`,
`WaitersReleased` and `AcceptedGoesOn` (liveness under fairness is outside the prover's reach). The three
properties of the runs that expect a violation are false, and there is nothing to prove. All other properties of
the runs, the invariants and the two refinements, are theorems.

## 6. What is not modelled

| Part | Why |
|---|---|
| Tests, demo, Dockerfiles, compose file | they drive or start the system; read as evidence for the model |
| `gateway/store.py`, `worker/store.py`, `db.py`, `config.py` | wrappers and settings without logic of their own; `db.conn()`'s rollback on an exception is part of every handler |
| `GET /health`, `sem_current_count`, `_notify` | change and decide nothing |
| Failures of Redis, Postgres, RabbitMQ or MinIO that lose data | the code does not handle them: the volumes are taken to be durable. That a call fails is modelled as the failure of its caller |
| Character classes of `SPEAKER_RE`, white space within lines, fields of the WAV header | wording and layout; no property is about them |
| A WAV header longer than 44 bytes, a drama above 4 GB | the code takes 44 bytes as given (`stitch.py:103`), and so do we; `struct.pack` would raise, which is a failure of the handler as any other |
| Prefetch order, message priorities, queue length | any order of delivery is allowed in the model |

## 7. Running

    tlc -workers 2 -config Redelivery.cfg MCPipeline
    tlc -workers 2 -config Completion.cfg MCCompletion
    tlapm PipelineProofs.tla

The module of a run is in `PROJECT.json`. `Redelivery`, `LeaseLoss`, `Liveness` and `Drama` explore 0.4 to 1.5 million states, `Completion`,
`Cache` and `Intake` 0.07 to 0.2 million, each in about a minute; each proof module is checked in one to a few minutes.

Operators named as variants (`RetryAckOffByOne`, `ReapLeasesSilent`, `LockNothing`, `AcquireAlways`, ...)
are forms of the operator that follows them with a plausible bug, several of them the bugs
DESIGN.md §9 reports as fixed. They are not used by the specification; substituted for the
operator, each makes the property that `PROJECT.json` pairs it with fail.
