-------------------------------- MODULE Intake -------------------------------
(***************************************************************************)
(* A manuscript on its way in: POST /jobs (gateway/app.py) with its        *)
(* idempotency key, the first event, and the RabbitMQ topology that the    *)
(* workers declare (worker/topology.py) while their relays already run     *)
(* (worker/main.py:223), and the delivery until its job is parsed.         *)
(* Pipeline takes the queues as given, a POST as one step and every        *)
(* publish as arriving.                                                    *)
(*                                                                         *)
(* One stage stands for the three: only the event of the first can be      *)
(* there before the topology is.  A job has the name of the POST that      *)
(* made it (the code draws a UUID); PROCESSING stands for every status     *)
(* after it but FAILED.  Manuscripts that no retry can save are Pipeline's.*)
(***************************************************************************)
EXTENDS Naturals, Sequences, FiniteSetsExt

CONSTANTS
  Posts,        \* requests POST /jobs; a client that retries sends another one
  Keys,         \* idempotency keys
  KeyOf,        \* the Idempotency-Key of each
  Workers,      \* worker processes
  RetryQueues,  \* the names of the retry queues, one per config.BACKOFF_SECS
  MaxRetries,   \* config.MAX_RETRIES
  MaxFaults,    \* bound: processes that die, connections that break
  None          \* no job, no answer yet

ASSUME IntakeAssumption ==
  /\ KeyOf \in [Posts -> Keys]
  /\ RetryQueues \in Seq(STRING) /\ Len(RetryQueues) > 0
  /\ MaxRetries \in Nat /\ MaxFaults \in Nat
  /\ None \notin Posts /\ "error" \notin Posts

VARIABLES
  job,        \* jobs.status; "ABSENT" before the INSERT
  stored,     \* the manuscripts in MinIO
  outbox,     \* jobs whose event has published_at NULL
  post,       \* where the handler of the request stands
  answer,     \* the job it has answered with, or "error"
  broker,     \* what is declared in RabbitMQ
  declared,   \* declared[w]: how much of it the main thread of w has declared
  channel,    \* channel[w]: of the relay; "closed" by the broker, not yet noticed
  row,        \* row[w]: the outbox row in the relay's open transaction
  fate,       \* ghost: fate[w]: what has become of its message
  at,         \* at[w]: where the parse handler of w stands
  hand,       \* hand[w]: the message it handles
  queue,      \* messages in the main and the retry queues; copies count once
  unrouted,   \* ghost: events marked published that nothing was bound to receive
  broken,     \* ghost: events marked published that went into a broken connection
  acked,      \* ghost: jobs with a message that died between its ack and what follows
  faults      \* counts towards MaxFaults

gateway == <<stored, post, answer>>
relay   == <<channel, row, fate>>
handler == <<at, hand>>
ghosts  == <<unrouted, broken, acked>>
vars == <<job, gateway, outbox, broker, declared, relay, handler, queue, ghosts, faults>>

\* The order of declare_topology.
Topology ==
  <<"exchange", "dlx", "queue", "binding", "dlq", "dlq binding">> \o RetryQueues

Init ==
  /\ job = [p \in Posts |-> "ABSENT"]
  /\ stored = {} /\ outbox = {} /\ queue = {}
  /\ post = [p \in Posts |-> "lookup"]
  /\ answer = [p \in Posts |-> None]
  /\ broker = {}
  /\ declared = [w \in Workers |-> 0]
  /\ channel = [w \in Workers |-> "open"]
  /\ row = [w \in Workers |-> None]
  /\ fate = [w \in Workers |-> "none"]
  /\ at = [w \in Workers |-> "idle"]
  /\ hand = [w \in Workers |-> None]
  /\ unrouted = {} /\ broken = {} /\ acked = {}
  /\ faults = 0

-----------------------------------------------------------------------------
(***************************************************************************)
(* POST /jobs.                                                             *)
(***************************************************************************)

Rows(key) == {p \in Posts : job[p] # "ABSENT" /\ KeyOf[p] = key}

Goto(p, label) == post' = [post EXCEPT ![p] = label]
Answer(p, a) == Goto(p, "end") /\ answer' = [answer EXCEPT ![p] = a]

\* SELECT id, status ... WHERE idempotency_key = ...
Lookup(p) ==
  /\ post[p] = "lookup"
  /\ IF Rows(KeyOf[p]) # {}
     THEN \E q \in Rows(KeyOf[p]) : Answer(p, q)
     ELSE Goto(p, "put") /\ UNCHANGED answer
  /\ UNCHANGED <<job, stored, outbox, broker, declared, relay, handler, queue, ghosts, faults>>

\* Variant: the upload is left to the time after the answer.
PutNothing(p) ==
  /\ post[p] = "put"
  /\ Goto(p, "insert")
  /\ UNCHANGED <<job, stored, answer, outbox, broker, declared, relay, handler, queue, ghosts, faults>>

PutManuscript(p) ==
  /\ post[p] = "put"
  /\ stored' = stored \cup {p}
  /\ Goto(p, "insert")
  /\ UNCHANGED <<job, answer, outbox, broker, declared, relay, handler, queue, ghosts, faults>>

Accept(p) ==
  /\ job' = [job EXCEPT ![p] = "PENDING"]
  /\ outbox' = outbox \cup {p}

\* Variant: idempotency_key without UNIQUE.
InsertAnyway(p) ==
  /\ post[p] = "insert"
  /\ Accept(p) /\ Answer(p, p)
  /\ UNCHANGED <<stored, broker, declared, relay, handler, queue, ghosts, faults>>

\* The two INSERTs and the commit.  A concurrent POST may have taken the key: the
\* UniqueViolation is not handled, the client gets a 500.
Insert(p) ==
  /\ post[p] = "insert"
  /\ IF Rows(KeyOf[p]) = {}
     THEN Accept(p) /\ Answer(p, p)
     ELSE Answer(p, "error") /\ UNCHANGED <<job, outbox>>
  /\ UNCHANGED <<stored, broker, declared, relay, handler, queue, ghosts, faults>>

\* The commit goes through, the answer is lost with the gateway or the connection.
AnswerLost(p) ==
  /\ post[p] = "insert" /\ Rows(KeyOf[p]) = {}
  /\ faults < MaxFaults /\ faults' = faults + 1
  /\ Accept(p) /\ Answer(p, "error")
  /\ UNCHANGED <<stored, broker, declared, relay, handler, queue, ghosts>>

\* The gateway dies before the commit, or the upload fails.
PostFails(p) ==
  /\ post[p] \in {"put", "insert"}
  /\ faults < MaxFaults /\ faults' = faults + 1
  /\ Answer(p, "error")
  /\ UNCHANGED <<job, stored, outbox, broker, declared, relay, handler, queue, ghosts>>

-----------------------------------------------------------------------------
(***************************************************************************)
(* The relay of w, one row at a time.                                      *)
(***************************************************************************)

Message(p, attempt) == [of |-> p, attempt |-> attempt]

Unlocked == outbox \ {row[w] : w \in Workers}

Publish(w, p, f) == row' = [row EXCEPT ![w] = p] /\ fate' = [fate EXCEPT ![w] = f]

\* The row is locked and basic_publish has returned.  Without the exchange the
\* broker closes the channel, without the binding it drops the message: neither is
\* an error of the call, there are no publisher confirms.
RelayPublish(w) ==
  /\ row[w] = None /\ channel[w] = "open"
  /\ \E p \in Unlocked :
       IF "binding" \in broker
       THEN Publish(w, p, "queued") /\ queue' = queue \cup {Message(p, 0)}
       ELSE Publish(w, p, "unrouted") /\ UNCHANGED queue
  /\ channel' = [channel EXCEPT ![w] = IF "exchange" \in broker THEN @ ELSE "closed"]
  /\ UNCHANGED <<job, gateway, outbox, broker, declared, handler, ghosts, faults>>

\* The same on a connection that is about to break.
RelayPublishBroken(w) ==
  /\ row[w] = None /\ channel[w] = "open"
  /\ faults < MaxFaults /\ faults' = faults + 1
  /\ \E p \in Unlocked : Publish(w, p, "broken")
  /\ channel' = [channel EXCEPT ![w] = "closed"]
  /\ UNCHANGED <<job, gateway, outbox, broker, declared, handler, queue, ghosts>>

\* published_at is committed, also when the channel is closed and nobody has noticed.
RelayCommit(w) ==
  /\ row[w] # None
  /\ outbox' = outbox \ {row[w]}
  /\ unrouted' = unrouted \cup {p \in {row[w]} : fate[w] = "unrouted"}
  /\ broken' = broken \cup {p \in {row[w]} : fate[w] = "broken"}
  /\ Publish(w, None, "none")
  /\ UNCHANGED <<job, gateway, broker, declared, channel, handler, queue, acked, faults>>

\* Variant: the except clause goes on with the channel it has.
ErrorNoReconnect(w) ==
  /\ channel[w] = "closed"
  /\ Publish(w, None, "none")
  /\ UNCHANGED <<job, gateway, outbox, broker, declared, channel, handler, queue, ghosts, faults>>

\* The closed channel shows: at this call or at the next publish.  Rollback, and a
\* new connection.
RelayError(w) ==
  /\ channel[w] = "closed"
  /\ Publish(w, None, "none")
  /\ channel' = [channel EXCEPT ![w] = "open"]
  /\ UNCHANGED <<job, gateway, outbox, broker, declared, handler, queue, ghosts, faults>>

-----------------------------------------------------------------------------
(***************************************************************************)
(* The main thread of w: declare_topology, then the consumers.             *)
(***************************************************************************)

\* exchange_declare, queue_declare and queue_bind change nothing the second time.
Declare(w) ==
  /\ declared[w] < Len(Topology)
  /\ declared' = [declared EXCEPT ![w] = @ + 1]
  /\ broker' = broker \cup {Topology[declared[w] + 1]}
  /\ UNCHANGED <<job, gateway, outbox, relay, handler, queue, ghosts, faults>>

Consuming(w) == declared[w] = Len(Topology)

\* Where a handler has a message; before "republish" and "dlq" it has been acked.
Busy == {"parsing", "ack", "failed", "republish", "dlq"}

Handles(w, label, m) == at' = [at EXCEPT ![w] = label] /\ hand' = [hand EXCEPT ![w] = m]
Step(w, label) == Handles(w, label, hand[w])
Return(w) == Handles(w, "idle", None)

\* Delivery and the guard: a job past PENDING is acked and skipped.
Receive(w) ==
  /\ Consuming(w) /\ at[w] = "idle"
  /\ \E m \in queue :
       /\ queue' = queue \ {m}
       /\ Handles(w, IF job[m.of] = "PENDING" THEN "parsing" ELSE "ack", m)
  /\ UNCHANGED <<job, gateway, outbox, broker, declared, relay, ghosts, faults>>

\* get_object, then the transaction that claims the job, or finds it claimed.
Claim(w) ==
  LET p == hand[w].of IN
  /\ at[w] = "parsing" /\ p \in stored
  /\ job' = [job EXCEPT ![p] = IF @ = "PENDING" THEN "PROCESSING" ELSE @]
  /\ Step(w, "ack")
  /\ UNCHANGED <<gateway, outbox, broker, declared, relay, queue, ghosts, faults>>

\* It commits and the reply is lost: the except clause gets a job that has moved on.
ClaimLost(w) ==
  LET p == hand[w].of IN
  /\ at[w] = "parsing" /\ p \in stored /\ job[p] = "PENDING"
  /\ faults < MaxFaults /\ faults' = faults + 1
  /\ job' = [job EXCEPT ![p] = "PROCESSING"]
  /\ Step(w, "failed")
  /\ UNCHANGED <<gateway, outbox, broker, declared, relay, queue, ghosts>>

Ack(w) ==
  /\ at[w] = "ack"
  /\ Return(w)
  /\ UNCHANGED <<job, gateway, outbox, broker, declared, relay, queue, ghosts, faults>>

\* The simulated failure or an exception, then basic_ack of the original.
RetryAck(w) ==
  /\ at[w] \in {"parsing", "failed"}
  /\ Step(w, IF hand[w].attempt + 1 > MaxRetries THEN "dlq" ELSE "republish")
  /\ UNCHANGED <<job, gateway, outbox, broker, declared, relay, queue, ghosts, faults>>

\* Variant: one retry queue per attempt is taken for granted.
TierUnchecked(attempt) == {i \in DOMAIN RetryQueues : i = attempt + 1}

\* The index min(attempt, len(BACKOFF_SECS) - 1), from 1 here.
Tier(attempt) == {Min({attempt + 1, Len(RetryQueues)})}

\* To the retry queue of its attempt, through the default exchange, which drops it
\* when there is no such queue, and from there back to the main queue.
Republish(w) ==
  LET m == hand[w] IN
  /\ at[w] = "republish"
  /\ queue' = queue \cup {Message(m.of, m.attempt + 1) :
                            i \in {k \in Tier(m.attempt) : RetryQueues[k] \in broker}}
  /\ Return(w)
  /\ UNCHANGED <<job, gateway, outbox, broker, declared, relay, ghosts, faults>>

\* Publish to the DLQ, and FAILED unless the job has completed meanwhile.
DlqMark(w) ==
  LET p == hand[w].of IN
  /\ at[w] = "dlq"
  /\ \E status \in {"FAILED", job[p]} \ {"PENDING"} : job' = [job EXCEPT ![p] = status]
  /\ Handles(w, "dlqAck", None)
  /\ UNCHANGED <<gateway, outbox, broker, declared, relay, queue, ghosts, faults>>

\* The process ends, its relay transaction is rolled back, and it starts again.
Dies(w) ==
  /\ declared' = [declared EXCEPT ![w] = 0]
  /\ Publish(w, None, "none")
  /\ channel' = [channel EXCEPT ![w] = "open"]
  /\ Return(w)

\* The delivery has been acked before: the broker closes the channel.
DoubleAck(w) ==
  /\ at[w] = "dlqAck"
  /\ Dies(w)
  /\ UNCHANGED <<job, gateway, outbox, broker, queue, ghosts, faults>>

\* At any point: an unacked delivery goes back to its queue, an acked one is gone.
\* A republish into a connection that is about to break comes to the same.
Restart(w) ==
  /\ faults < MaxFaults /\ faults' = faults + 1
  /\ queue' = queue \cup {m \in {hand[w]} : at[w] \in {"parsing", "ack", "failed"}}
  /\ acked' = acked \cup {m.of : m \in {n \in {hand[w]} : at[w] \in {"republish", "dlq"}}}
  /\ Dies(w)
  /\ UNCHANGED <<job, gateway, outbox, broker, unrouted, broken>>

HandlerStep(w) ==
  Claim(w) \/ ClaimLost(w) \/ Ack(w) \/ RetryAck(w) \/ Republish(w) \/ DlqMark(w) \/ DoubleAck(w)

-----------------------------------------------------------------------------
Next ==
  \/ \E p \in Posts :
       Lookup(p) \/ PutManuscript(p) \/ Insert(p) \/ AnswerLost(p) \/ PostFails(p)
  \/ \E w \in Workers :
       \/ RelayPublish(w) \/ RelayPublishBroken(w) \/ RelayCommit(w) \/ RelayError(w)
       \/ Declare(w) \/ Receive(w) \/ HandlerStep(w) \/ Restart(w)

Spec == Init /\ [][Next]_vars

\* The relay and the main thread of each worker go on.
Fairness ==
  \A w \in Workers :
    /\ WF_vars(RelayPublish(w) \/ RelayCommit(w)) /\ WF_vars(RelayError(w))
    /\ WF_vars(Declare(w)) /\ WF_vars(Receive(w)) /\ WF_vars(HandlerStep(w))

LiveSpec == Spec /\ Fairness

-----------------------------------------------------------------------------
Messages == [of : Posts, attempt : 0 .. MaxRetries]

TypeOK ==
  /\ job \in [Posts -> {"ABSENT", "PENDING", "PROCESSING", "FAILED"}]
  /\ stored \subseteq Posts /\ outbox \subseteq Posts
  /\ post \in [Posts -> {"lookup", "put", "insert", "end"}]
  /\ answer \in [Posts -> Posts \cup {None, "error"}]
  /\ broker \subseteq {Topology[i] : i \in 1 .. Len(Topology)}
  /\ declared \in [Workers -> 0 .. Len(Topology)]
  /\ channel \in [Workers -> {"open", "closed"}]
  /\ row \in [Workers -> Posts \cup {None}]
  /\ fate \in [Workers -> {"none", "queued", "unrouted", "broken"}]
  /\ at \in [Workers -> {"idle", "dlqAck"} \cup Busy]
  /\ hand \in [Workers -> Messages \cup {None}]
  /\ \A w \in Workers : at[w] \in Busy => hand[w] \in Messages
  /\ \A w \in Workers : at[w] = "republish" => hand[w].attempt < MaxRetries
  /\ queue \subseteq Messages
  /\ unrouted \subseteq Posts /\ broken \subseteq Posts /\ acked \subseteq Posts
  /\ faults \in 0 .. MaxFaults

\* A client that is answered with a job has the only job of its key, whether or not
\* the POST that made it was ever answered, and in whatever order the POSTs with that
\* key look, upload and insert.
OneJobPerKey == \A p \in Posts : answer[p] \in Posts => Rows(KeyOf[p]) = {answer[p]}

InHand == {hand[w] : w \in {v \in Workers : at[v] \in Busy}}

\* A message of a job never comes before its manuscript, although the object store
\* takes no part in the transaction.
ManuscriptFirst == \A m \in queue \cup InHand : m.of \in stored

\* A job that waits for its parse has its event in the outbox, or a message in a queue
\* or with a handler, unless one was lost: published before the first worker had
\* declared the topology, or into a broken connection (a committed published_at is no
\* proof of arrival), or acked by a handler that died before it went on with it.
LostOnlyInTheGaps ==
  \A p \in Posts :
    job[p] = "PENDING" =>
      \/ p \in outbox \cup unrouted \cup broken \cup acked
      \/ \E m \in queue \cup InHand : m.of = p

\* With these exceptions every accepted job is parsed or FAILED, although the relays
\* start before the queues exist, and lose their channels for it, and whatever the
\* handlers do with its message before they die or give up.
AcceptedGoesOn ==
  \A p \in Posts :
    job[p] = "PENDING" ~>
      job[p] # "PENDING" \/ p \in unrouted \cup broken \cup acked

=============================================================================
