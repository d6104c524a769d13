----------------------------- MODULE IntakeProofs ----------------------------
(***************************************************************************)
(* The intake of jobs, for any numbers of POSTs, keys, workers, retry      *)
(* queues and faults: one job per idempotency key, no event before its     *)
(* manuscript, and no event lost but in the gaps the code leaves open.     *)
(***************************************************************************)
EXTENDS Intake, SequenceTheorems, TLAPS

Labels == {"idle", "dlqAck"} \cup Busy

HandlerTypes ==
  /\ at \in [Workers -> Labels]
  /\ hand \in [Workers -> Messages \cup {None}]
  /\ \A w \in Workers : at[w] \in Busy => hand[w] \in Messages
  /\ \A w \in Workers : at[w] = "republish" => hand[w].attempt < MaxRetries

\* Every other variable.
GatewayTypes ==
  /\ post \in [Posts -> {"lookup", "put", "insert", "end"}]
  /\ answer \in [Posts -> Posts \cup {None, "error"}]

RestTypes ==
  /\ GatewayTypes
  /\ job \in [Posts -> {"ABSENT", "PENDING", "PROCESSING", "FAILED"}]
  /\ stored \subseteq Posts /\ outbox \subseteq Posts
  /\ broker \subseteq {Topology[i] : i \in 1 .. Len(Topology)}
  /\ declared \in [Workers -> 0 .. Len(Topology)]
  /\ channel \in [Workers -> {"open", "closed"}]
  /\ row \in [Workers -> Posts \cup {None}]
  /\ fate \in [Workers -> {"none", "queued", "unrouted", "broken"}]
  /\ queue \subseteq Messages
  /\ unrouted \subseteq Posts /\ broken \subseteq Posts /\ acked \subseteq Posts
  /\ faults \in 0 .. MaxFaults

LEMMA TypeParts ==
  /\ TypeOK <=> RestTypes /\ HandlerTypes
  /\ RestTypes' /\ HandlerTypes' => TypeOK'
  BY DEF TypeOK, RestTypes, GatewayTypes, HandlerTypes, Labels

Names ==
  STRING \cup {"exchange", "dlx", "queue", "binding", "dlq", "dlq binding"}

LEMMA SeqOfMore == ASSUME NEW S, NEW T, S \subseteq T, NEW s \in Seq(S) PROVE s \in Seq(T)
  OBVIOUS

LEMMA TopologyLength ==
  /\ Topology \in Seq(Names) /\ Len(Topology) = 6 + Len(RetryQueues)
  /\ \A k \in DOMAIN RetryQueues : Topology[6 + k] = RetryQueues[k]
  /\ Topology[4] = "binding"
  <1> DEFINE first == <<"exchange", "dlx", "queue", "binding", "dlq", "dlq binding">>
  <1>1. first \in Seq(Names)
    BY DEF Names
  <1>2. Len(first) = 6 /\ first[4] = "binding"
    OBVIOUS
  <1>3. RetryQueues \in Seq(Names) /\ Len(RetryQueues) \in Nat
    <2>1. STRING \subseteq Names
      BY DEF Names
    <2> HIDE DEF Names
    <2>2. RetryQueues \in Seq(STRING)
      BY IntakeAssumption
    <2>3. RetryQueues \in Seq(Names)
      BY <2>1, <2>2, SeqOfMore
    <2>4. Len(RetryQueues) \in Nat
      BY <2>2
    <2> QED BY <2>3, <2>4
  <1>4. Topology = first \o RetryQueues
    BY DEF Topology
  <1> HIDE DEF first, Names
  <1>5. /\ Topology \in Seq(Names)
        /\ Len(Topology) = 6 + Len(RetryQueues)
        /\ \A i \in 1 .. 6 + Len(RetryQueues) :
             Topology[i] = IF i <= 6 THEN first[i] ELSE RetryQueues[i - 6]
    <2>1. /\ first \o RetryQueues \in Seq(Names)
          /\ Len(first \o RetryQueues) = Len(first) + Len(RetryQueues)
          /\ \A i \in 1 .. Len(first) + Len(RetryQueues) : (first \o RetryQueues)[i] =
               IF i <= Len(first) THEN first[i] ELSE RetryQueues[i - Len(first)]
      BY <1>1, <1>3, ConcatProperties
    <2> QED BY <1>2, <1>4, <2>1
  <1>6. ASSUME NEW k \in DOMAIN RetryQueues PROVE Topology[6 + k] = RetryQueues[k]
    <2>1. k \in 1 .. Len(RetryQueues)
      BY <1>3
    <2> QED BY <1>3, <1>5, <2>1
  <1>7. Topology[4] = "binding"
    BY <1>2, <1>3, <1>5
  <1> QED BY <1>5, <1>6, <1>7

LEMMA TypeInit == Init => TypeOK
  <1> SUFFICES ASSUME Init PROVE RestTypes /\ HandlerTypes
    BY TypeParts
  <1>1. HandlerTypes
    BY DEF Init, HandlerTypes, Labels, Busy
  <1>2. RestTypes
    BY IntakeAssumption, TopologyLength DEF Init, RestTypes, GatewayTypes
  <1> QED BY <1>1, <1>2

\* The steps of a POST.
PostStep(p) == Lookup(p) \/ PutManuscript(p) \/ Insert(p) \/ AnswerLost(p) \/ PostFails(p)

\* Those of a relay.
RelayStep(w) == RelayPublish(w) \/ RelayPublishBroken(w) \/ RelayCommit(w) \/ RelayError(w)

LEMMA AnswerTypes ==
  ASSUME GatewayTypes, NEW p \in Posts
  PROVE  /\ \A a \in Posts \cup {None, "error"} : Answer(p, a) => GatewayTypes'
         /\ \A label \in {"put", "insert"} : Goto(p, label) /\ UNCHANGED answer => GatewayTypes'
  BY DEF GatewayTypes, Answer, Goto

LEMMA AcceptTypes ==
  ASSUME RestTypes, NEW p \in Posts, Accept(p)
  PROVE  /\ outbox' \subseteq Posts
         /\ job' \in [Posts -> {"ABSENT", "PENDING", "PROCESSING", "FAILED"}]
  BY DEF RestTypes, Accept

LEMMA PostTypes == ASSUME TypeOK, NEW p \in Posts, PostStep(p) PROVE TypeOK'
  <1> SUFFICES RestTypes' /\ HandlerTypes'
    BY TypeParts
  <1>1. RestTypes /\ HandlerTypes /\ GatewayTypes
    BY TypeParts DEF RestTypes
  <1>2. HandlerTypes'
    <2>1. UNCHANGED handler
      BY DEF PostStep, Lookup, PutManuscript, Insert, AnswerLost, PostFails
    <2> QED BY <1>1, <2>1 DEF handler, HandlerTypes
  <1>3. UNCHANGED <<broker, declared, channel, row, fate, queue, unrouted, broken, acked>>
    BY DEF PostStep, Lookup, PutManuscript, Insert, AnswerLost, PostFails, relay, ghosts
  <1>4. GatewayTypes'
    BY <1>1, AnswerTypes DEF PostStep, Lookup, PutManuscript, Insert, AnswerLost, PostFails, Rows
  <1>5. faults' \in 0 .. MaxFaults
    BY <1>1, IntakeAssumption
       DEF PostStep, Lookup, PutManuscript, Insert, AnswerLost, PostFails, RestTypes
  <1>6. /\ stored' \subseteq Posts /\ outbox' \subseteq Posts
        /\ job' \in [Posts -> {"ABSENT", "PENDING", "PROCESSING", "FAILED"}]
    <2>1. CASE Accept(p) /\ UNCHANGED stored
      BY <1>1, <2>1, AcceptTypes DEF RestTypes
    <2>2. CASE UNCHANGED <<job, outbox>> /\ stored' \subseteq stored \cup {p}
      BY <1>1, <2>2 DEF RestTypes
    <2> QED BY <2>1, <2>2 DEF PostStep, Lookup, PutManuscript, Insert, AnswerLost, PostFails
  <1> QED BY <1>1, <1>2, <1>3, <1>4, <1>5, <1>6 DEF RestTypes

LEMMA MessageParts ==
  /\ \A m \in Messages : m.of \in Posts /\ m.attempt \in 0 .. MaxRetries
  /\ \A p \in Posts, a \in 0 .. MaxRetries : Message(p, a) \in Messages /\ Message(p, a).of = p
  BY DEF Messages, Message

LEMMA PublishTypes ==
  ASSUME RestTypes, NEW w \in Workers, NEW p \in Posts \cup {None},
         NEW f \in {"none", "queued", "unrouted", "broken"}, Publish(w, p, f)
  PROVE  /\ row' \in [Workers -> Posts \cup {None}]
         /\ fate' \in [Workers -> {"none", "queued", "unrouted", "broken"}]
  BY DEF RestTypes, Publish

LEMMA RelayTypes == ASSUME TypeOK, NEW w \in Workers, RelayStep(w) PROVE TypeOK'
  <1> SUFFICES RestTypes' /\ HandlerTypes'
    BY TypeParts
  <1>1. RestTypes /\ HandlerTypes
    BY TypeParts
  <1>2. HandlerTypes'
    <2>1. UNCHANGED handler
      BY DEF RelayStep, RelayPublish, RelayPublishBroken, RelayCommit, RelayError
    <2> QED BY <1>1, <2>1 DEF handler, HandlerTypes
  <1>3. /\ UNCHANGED <<job, stored, declared, broker, acked>>
        /\ GatewayTypes'
    BY <1>1 DEF RelayStep, RelayPublish, RelayPublishBroken, RelayCommit, RelayError, gateway, ghosts,
       RestTypes, GatewayTypes
  <1>4. /\ row' \in [Workers -> Posts \cup {None}]
        /\ fate' \in [Workers -> {"none", "queued", "unrouted", "broken"}]
    <2>1. PICK p \in Posts \cup {None}, f \in {"none", "queued", "unrouted", "broken"} : Publish(w, p, f)
      BY <1>1 DEF RelayStep, RelayPublish, RelayPublishBroken, RelayCommit, RelayError, Unlocked, RestTypes
    <2> QED BY <1>1, <2>1, PublishTypes
  <1>5. queue' \subseteq Messages
    <2>1. CASE UNCHANGED queue
      BY <1>1, <2>1 DEF RestTypes
    <2>2. CASE RelayPublish(w)
      <3>1. PICK p \in Posts : queue' \subseteq queue \cup {Message(p, 0)}
        BY <1>1, <2>2 DEF RelayPublish, Unlocked, RestTypes
      <3>2. Message(p, 0) \in Messages
        BY IntakeAssumption, MessageParts
      <3> QED BY <1>1, <3>1, <3>2 DEF RestTypes
    <2> QED BY <2>1, <2>2 DEF RelayStep, RelayPublishBroken, RelayCommit, RelayError
  <1>6. channel' \in [Workers -> {"open", "closed"}]
    BY <1>1 DEF RelayStep, RelayPublish, RelayPublishBroken, RelayCommit, RelayError, RestTypes
  <1>7. outbox' \subseteq Posts /\ unrouted' \subseteq Posts /\ broken' \subseteq Posts
    <2>1. CASE UNCHANGED <<outbox, unrouted, broken>>
      BY <1>1, <2>1 DEF RestTypes
    <2>2. CASE RelayCommit(w)
      BY <1>1, <2>2 DEF RelayCommit, RestTypes
    <2> QED BY <2>1, <2>2 DEF RelayStep, RelayPublish, RelayPublishBroken, RelayError, ghosts
  <1>8. faults' \in 0 .. MaxFaults
    BY <1>1, IntakeAssumption DEF RelayStep, RelayPublish, RelayPublishBroken, RelayCommit, RelayError, RestTypes
  <1> QED BY <1>1, <1>2, <1>3, <1>4, <1>5, <1>6, <1>7, <1>8 DEF RestTypes

\* A handler moves on with a message, or without one.
LEMMA HandlesOn ==
  ASSUME TypeOK, NEW w \in Workers, NEW label \in Labels, NEW m \in Messages \cup {None},
         label \in Busy => m \in Messages, label = "republish" => m.attempt < MaxRetries,
         Handles(w, label, m)
  PROVE  /\ HandlerTypes'
         /\ at'[w] = label /\ hand'[w] = m
         /\ \A v \in Workers \ {w} : at'[v] = at[v] /\ hand'[v] = hand[v]
  <1>1. /\ at' = [at EXCEPT ![w] = label] /\ hand' = [hand EXCEPT ![w] = m]
        /\ at \in [Workers -> Labels] /\ hand \in [Workers -> Messages \cup {None}]
        /\ \A v \in Workers : at[v] \in Busy => hand[v] \in Messages
        /\ \A v \in Workers : at[v] = "republish" => hand[v].attempt < MaxRetries
    BY DEF Handles, TypeOK, Labels
  <1> QED BY <1>1 DEF HandlerTypes

LEMMA ReturnOn ==
  ASSUME TypeOK, NEW w \in Workers, Return(w)
  PROVE  /\ HandlerTypes' /\ at'[w] = "idle"
         /\ \A v \in Workers \ {w} : at'[v] = at[v] /\ hand'[v] = hand[v]
  <1>1. "idle" \in Labels /\ "idle" \notin Busy
    BY DEF Labels, Busy
  <1> QED BY <1>1, HandlesOn DEF Return

LEMMA StepOn ==
  ASSUME TypeOK, NEW w \in Workers, NEW label \in Busy, at[w] \in Busy, Step(w, label),
         label = "republish" => hand[w].attempt < MaxRetries
  PROVE  /\ HandlerTypes' /\ at'[w] = label /\ hand'[w] = hand[w] /\ hand[w] \in Messages
         /\ \A v \in Workers \ {w} : at'[v] = at[v] /\ hand'[v] = hand[v]
  <1>1. label \in Labels /\ hand[w] \in Messages
    BY DEF Labels, TypeOK
  <1> QED BY <1>1, HandlesOn DEF Step

LEMMA ReceiveOn ==
  ASSUME TypeOK, NEW w \in Workers, Receive(w)
  PROVE  \E m \in queue :
           /\ m \in Messages
           /\ queue' = queue \ {m}
           /\ at[w] = "idle" /\ at'[w] = IF job[m.of] = "PENDING" THEN "parsing" ELSE "ack"
           /\ hand'[w] = m
           /\ HandlerTypes'
           /\ \A v \in Workers \ {w} : at'[v] = at[v] /\ hand'[v] = hand[v]
  <1>1. PICK m \in queue :
          queue' = queue \ {m} /\ Handles(w, IF job[m.of] = "PENDING" THEN "parsing" ELSE "ack", m)
    BY DEF Receive
  <1>2. m \in Messages
    BY DEF TypeOK
  <1>3. \A label \in {"parsing", "ack"} : label \in Labels
    BY DEF Labels, Busy
  <1>4. CASE job[m.of] = "PENDING"
    BY <1>1, <1>2, <1>3, <1>4, HandlesOn DEF Receive
  <1>5. CASE job[m.of] # "PENDING"
    BY <1>1, <1>2, <1>3, <1>5, HandlesOn DEF Receive
  <1> QED BY <1>4, <1>5

\* The steps that keep the message in hand.
LEMMA KeepsOn ==
  ASSUME TypeOK, NEW w \in Workers, Claim(w) \/ ClaimLost(w) \/ RetryAck(w)
  PROVE  /\ HandlerTypes' /\ at[w] \in Busy \ {"ack"} /\ at'[w] \in Busy
         /\ at'[w] = "ack" => Claim(w)
         /\ hand'[w] = hand[w] /\ hand[w] \in Messages
         /\ \A v \in Workers \ {w} : at'[v] = at[v] /\ hand'[v] = hand[v]
  <1>1. PICK label \in {"ack", "failed", "republish", "dlq"} :
          /\ Step(w, label) /\ at[w] \in {"parsing", "failed"}
          /\ label = "ack" => Claim(w)
          /\ label = "republish" => ~(hand[w].attempt + 1 > MaxRetries)
    BY DEF Claim, ClaimLost, RetryAck
  <1>2. label \in Busy /\ at[w] \in Busy \ {"ack"}
    BY <1>1 DEF Busy
  <1>3. label = "republish" => hand[w].attempt < MaxRetries
    BY <1>1, <1>2, MessageParts, IntakeAssumption DEF TypeOK
  <1> QED BY <1>1, <1>2, <1>3, StepOn

LEMMA DlqMarkOn ==
  ASSUME TypeOK, NEW w \in Workers, DlqMark(w)
  PROVE  /\ HandlerTypes' /\ at'[w] = "dlqAck" /\ hand[w] \in Messages
         /\ \A v \in Workers \ {w} : at'[v] = at[v] /\ hand'[v] = hand[v]
  <1>1. "dlqAck" \in Labels /\ "dlqAck" \notin Busy /\ "dlq" \in Busy
    BY DEF Labels, Busy
  <1>2. hand[w] \in Messages
    BY <1>1 DEF DlqMark, TypeOK
  <1> QED BY <1>1, <1>2, HandlesOn DEF DlqMark

LEMMA DiesTypes ==
  ASSUME TypeOK, NEW w \in Workers, Dies(w)
  PROVE  /\ declared' \in [Workers -> 0 .. Len(Topology)]
         /\ channel' \in [Workers -> {"open", "closed"}]
         /\ row' \in [Workers -> Posts \cup {None}]
         /\ fate' \in [Workers -> {"none", "queued", "unrouted", "broken"}]
         /\ HandlerTypes'
  <1>1. HandlerTypes'
    BY ReturnOn DEF Dies
  <1>2. Len(Topology) \in Nat
    BY TopologyLength
  <1> QED BY <1>1, <1>2 DEF Dies, Publish, TypeOK

LEMMA RepublishTypes ==
  ASSUME TypeOK, NEW w \in Workers, Republish(w) PROVE queue' \subseteq Messages
  <1> DEFINE m == hand[w]
  <1>1. at[w] = "republish" /\ m \in Messages /\ queue \subseteq Messages /\ m.attempt < MaxRetries
    BY DEF Republish, TypeOK, Busy
  <1>2. queue' \subseteq queue \cup {Message(m.of, m.attempt + 1)}
    BY DEF Republish
  <1>3. m.of \in Posts /\ m.attempt + 1 \in 0 .. MaxRetries
    BY <1>1, MessageParts, IntakeAssumption
  <1> HIDE DEF m
  <1> QED BY <1>1, <1>2, <1>3, MessageParts

LEMMA WorkerTypes ==
  ASSUME TypeOK, NEW w \in Workers, Declare(w) \/ Receive(w) \/ HandlerStep(w) \/ Restart(w)
  PROVE  TypeOK'
  <1> SUFFICES RestTypes' /\ HandlerTypes'
    BY TypeParts
  <1>1. RestTypes /\ HandlerTypes
    BY TypeParts
  <1> USE DEF gateway, relay, ghosts, GatewayTypes
  <1>2. CASE Declare(w)
    <2>1. HandlerTypes'
      BY <1>1, <1>2 DEF Declare, handler, HandlerTypes
    <2>2. RestTypes'
      BY <1>1, <1>2, TopologyLength DEF Declare, RestTypes
    <2> QED BY <2>1, <2>2
  <1>3. CASE Receive(w)
    <2>1. HandlerTypes' /\ queue' \subseteq Messages
      BY <1>3, ReceiveOn DEF TypeOK
    <2> QED BY <1>1, <1>3, <2>1 DEF Receive, RestTypes
  <1>4. CASE Claim(w) \/ ClaimLost(w)
    <2>1. HandlerTypes'
      BY <1>4, KeepsOn
    <2>2. job' \in [Posts -> {"ABSENT", "PENDING", "PROCESSING", "FAILED"}]
      BY <1>1, <1>4 DEF Claim, ClaimLost, RestTypes
    <2>3. faults' \in 0 .. MaxFaults
      BY <1>1, <1>4, IntakeAssumption DEF Claim, ClaimLost, RestTypes
    <2> QED BY <1>1, <1>4, <2>1, <2>2, <2>3 DEF Claim, ClaimLost, RestTypes
  <1>5. CASE RetryAck(w)
    <2>1. HandlerTypes'
      BY <1>5, KeepsOn
    <2> QED BY <1>1, <1>5, <2>1 DEF RetryAck, RestTypes
  <1>6. CASE Ack(w)
    <2>1. HandlerTypes'
      BY <1>6, ReturnOn DEF Ack
    <2> QED BY <1>1, <1>6, <2>1 DEF Ack, RestTypes
  <1>7. CASE Republish(w)
    <2>1. HandlerTypes' /\ queue' \subseteq Messages
      BY <1>7, ReturnOn, RepublishTypes DEF Republish
    <2> QED BY <1>1, <1>7, <2>1 DEF Republish, RestTypes
  <1>8. CASE DlqMark(w)
    <2>1. HandlerTypes'
      BY <1>8, DlqMarkOn
    <2>2. job' \in [Posts -> {"ABSENT", "PENDING", "PROCESSING", "FAILED"}]
      <3>1. hand[w].of \in Posts
        BY <1>8, DlqMarkOn, MessageParts
      <3>2. PICK status \in {"FAILED", job[hand[w].of]} : job' = [job EXCEPT ![hand[w].of] = status]
        BY <1>8 DEF DlqMark
      <3> QED BY <1>1, <3>1, <3>2 DEF RestTypes
    <2> QED BY <1>1, <1>8, <2>1, <2>2 DEF DlqMark, RestTypes
  <1>9. CASE DoubleAck(w)
    BY <1>1, <1>9, DiesTypes DEF DoubleAck, RestTypes
  <1>10. CASE Restart(w)
    <2>1. hand[w] \in Messages \/ at[w] \notin Busy
      BY DEF TypeOK
    <2>2. queue' \subseteq Messages /\ acked' \subseteq Posts
      BY <1>1, <1>10, <2>1, MessageParts DEF Restart, RestTypes, Busy
    <2>3. faults' \in 0 .. MaxFaults
      BY <1>1, <1>10, IntakeAssumption DEF Restart, RestTypes
    <2> QED BY <1>1, <1>10, <2>2, <2>3, DiesTypes DEF Restart, RestTypes
  <1> QED BY <1>2, <1>3, <1>4, <1>5, <1>6, <1>7, <1>8, <1>9, <1>10 DEF HandlerStep

LEMMA TypeStep == ASSUME TypeOK, [Next]_vars PROVE TypeOK'
  <1>1. CASE UNCHANGED vars
    BY <1>1 DEF vars, gateway, relay, handler, ghosts, TypeOK
  <1> QED BY <1>1, PostTypes, RelayTypes, WorkerTypes DEF Next, PostStep, RelayStep

\* The variables of Intake keep their types.
THEOREM TypeCorrect == Spec => []TypeOK
  BY TypeInit, TypeStep, PTL DEF Spec

-----------------------------------------------------------------------------
(***************************************************************************)
(* Where messages come from, and what they say of their jobs.              *)
(***************************************************************************)

\* The job has a message, in a queue or with a handler.
Carried(p) == \E m \in queue \cup InHand : m.of = p

Past(p) == job[p] \in {"PROCESSING", "FAILED"}

Accepted ==
  /\ \A p \in outbox : job[p] # "ABSENT"
  /\ \A p \in Posts : Carried(p) => job[p] # "ABSENT"

\* What is about to be acked is done with.
AckKnown == \A w \in Workers : at[w] = "ack" => Past(hand[w].of)

LEMMA CarriedIs ==
  /\ \A p : Carried(p) <=> \/ \E m \in queue : m.of = p
                           \/ \E w \in Workers : at[w] \in Busy /\ hand[w].of = p
  /\ \A p : Carried(p)' <=> \/ \E m \in queue' : m.of = p
                            \/ \E w \in Workers : at'[w] \in Busy /\ hand'[w].of = p
  BY DEF Carried, InHand

\* One handler moves, and all it passes on it had or found.
LEMMA FromHand ==
  ASSUME NEW w \in Workers,
         \A v \in Workers \ {w} : at'[v] = at[v] /\ hand'[v] = hand[v],
         at'[w] \in Busy => Carried(hand'[w].of), \A m \in queue' : Carried(m.of),
         NEW p, Carried(p)'
  PROVE  Carried(p)
  BY CarriedIs

LEMMA InHandCarried == ASSUME NEW w \in Workers, at[w] \in Busy PROVE Carried(hand[w].of)
  BY CarriedIs

LEMMA QueueCarried == ASSUME NEW m \in queue PROVE Carried(m.of)
  BY CarriedIs

LEMMA WorkerMessages ==
  ASSUME TypeOK, NEW w \in Workers, Receive(w) \/ HandlerStep(w) \/ Restart(w), NEW p, Carried(p)'
  PROVE  Carried(p)
  <1>1. "idle" \notin Busy /\ "dlqAck" \notin Busy /\ {"parsing", "ack", "failed", "republish"} \subseteq Busy
    BY DEF Busy
  <1>2. CASE Receive(w)
    BY <1>2, ReceiveOn, QueueCarried, FromHand
  <1>3. CASE Claim(w) \/ ClaimLost(w) \/ RetryAck(w)
    <2>1. UNCHANGED queue
      BY <1>3 DEF Claim, ClaimLost, RetryAck
    <2> QED BY <1>3, <2>1, KeepsOn, InHandCarried, QueueCarried, FromHand
  <1>4. CASE Ack(w) \/ DoubleAck(w)
    <2>1. Return(w) /\ UNCHANGED queue
      BY <1>4 DEF Ack, DoubleAck, Dies
    <2> QED BY <1>1, <2>1, ReturnOn, QueueCarried, FromHand
  <1>5. CASE DlqMark(w)
    <2>1. UNCHANGED queue
      BY <1>5 DEF DlqMark
    <2> QED BY <1>1, <1>5, <2>1, DlqMarkOn, QueueCarried, FromHand
  <1>6. CASE Republish(w)
    <2>1. Return(w) /\ Carried(hand[w].of)
      BY <1>1, <1>6, InHandCarried DEF Republish
    <2>2. ASSUME NEW m \in queue' PROVE Carried(m.of)
      <3>1. m \in queue \/ m = Message(hand[w].of, hand[w].attempt + 1)
        BY <1>6 DEF Republish
      <3> QED BY <2>1, <3>1, QueueCarried DEF Message
    <2> QED BY <1>1, <2>1, <2>2, ReturnOn, FromHand
  <1>7. CASE Restart(w)
    <2>1. Return(w)
      BY <1>7 DEF Restart, Dies
    <2>2. ASSUME NEW m \in queue' PROVE Carried(m.of)
      <3>1. m \in queue \/ (m = hand[w] /\ at[w] \in {"parsing", "ack", "failed"})
        BY <1>7 DEF Restart
      <3> QED BY <1>1, <3>1, QueueCarried, InHandCarried
    <2> QED BY <1>1, <2>1, <2>2, ReturnOn, FromHand
  <1> QED BY <1>2, <1>3, <1>4, <1>5, <1>6, <1>7 DEF HandlerStep

\* Every message comes from another one of its job or from the outbox.
LEMMA MessagesFrom ==
  ASSUME TypeOK, [Next]_vars, NEW p, Carried(p)' PROVE Carried(p) \/ p \in outbox
  <1>1. CASE UNCHANGED <<at, hand, queue>>
    BY <1>1, CarriedIs
  <1>2. ASSUME NEW w \in Workers, RelayPublish(w) PROVE Carried(p) \/ p \in outbox
    <2>1. UNCHANGED <<at, hand>>
      BY <1>2 DEF RelayPublish, handler
    <2>2. PICK q \in outbox : queue' \subseteq queue \cup {Message(q, 0)}
      BY <1>2 DEF RelayPublish, Unlocked
    <2>3. Message(q, 0).of = q
      BY DEF Message
    <2> QED BY <2>1, <2>2, <2>3, CarriedIs
  <1>3. ASSUME \/ \E q \in Posts : PostStep(q)
               \/ \E w \in Workers : RelayPublishBroken(w) \/ RelayCommit(w) \/ RelayError(w) \/ Declare(w)
               \/ UNCHANGED vars
        PROVE  UNCHANGED <<at, hand, queue>>
    BY <1>3 DEF PostStep, Lookup, PutManuscript, Insert, AnswerLost, PostFails, RelayPublishBroken,
       RelayCommit, RelayError, Declare, vars, handler
  <1> QED BY <1>1, <1>2, <1>3, WorkerMessages DEF Next, PostStep

\* Only a POST makes a job, and none goes away or back.
LEMMA JobsStay ==
  ASSUME TypeOK, Accepted, [Next]_vars
  PROVE  \/ \E p \in Posts : PostStep(p)
         \/ /\ UNCHANGED <<stored, post, answer>> /\ outbox' \subseteq outbox
            /\ \A p \in Posts : job'[p] = "ABSENT" <=> job[p] = "ABSENT"
            /\ \A p \in Posts : Past(p) => Past(p)'
  <1> DEFINE Stay == /\ UNCHANGED <<stored, post, answer>> /\ outbox' \subseteq outbox
                     /\ \A p \in Posts : job'[p] = "ABSENT" <=> job[p] = "ABSENT"
                     /\ \A p \in Posts : Past(p) => Past(p)'
  <1>1. job \in [Posts -> {"ABSENT", "PENDING", "PROCESSING", "FAILED"}]
    BY DEF TypeOK
  <1>2. ASSUME NEW w \in Workers, Claim(w) \/ ClaimLost(w) PROVE Stay
    <2>1. UNCHANGED <<stored, post, answer, outbox>>
      BY <1>2 DEF Claim, ClaimLost, gateway
    <2>2. job' = [job EXCEPT ![hand[w].of] = IF @ = "PENDING" THEN "PROCESSING" ELSE @]
      BY <1>2 DEF Claim, ClaimLost
    <2> QED BY <1>1, <2>1, <2>2 DEF Past
  <1>3. ASSUME NEW w \in Workers, DlqMark(w) PROVE Stay
    <2>1. UNCHANGED <<stored, post, answer, outbox>>
      BY <1>3 DEF DlqMark, gateway
    <2>2. PICK status \in {"FAILED", job[hand[w].of]} \ {"PENDING"} :
            job' = [job EXCEPT ![hand[w].of] = status]
      BY <1>3 DEF DlqMark
    <2>3. hand[w].of \in Posts
      BY <1>3, DlqMarkOn, MessageParts
    <2>4. job[hand[w].of] # "ABSENT"
      BY <1>3, <2>3, InHandCarried DEF DlqMark, Busy, Accepted
    <2>5. status \in {"PROCESSING", "FAILED"}
      BY <1>1, <2>2, <2>3, <2>4
    <2> QED BY <1>1, <2>1, <2>2, <2>3, <2>4, <2>5 DEF Past
  <1>4. ASSUME UNCHANGED <<stored, post, answer, job>>, outbox' \subseteq outbox PROVE Stay
    BY <1>4 DEF Past
  <1>5. ASSUME \/ \E w \in Workers :
                    \/ RelayStep(w) \/ Declare(w) \/ Receive(w) \/ RetryAck(w) \/ Ack(w)
                    \/ Republish(w) \/ DoubleAck(w) \/ Restart(w)
               \/ UNCHANGED vars
        PROVE  UNCHANGED <<stored, post, answer, job>> /\ outbox' \subseteq outbox
    BY <1>5 DEF RelayStep, RelayPublish, RelayPublishBroken, RelayCommit, RelayError, Declare, Receive,
       RetryAck, Ack, Republish, DoubleAck, Restart, vars, gateway
  <1> HIDE DEF Stay
  <1>6. Stay \/ \E p \in Posts : PostStep(p)
    BY <1>2, <1>3, <1>4, <1>5 DEF Next, PostStep, RelayStep, HandlerStep
  <1> QED BY <1>6 DEF Stay

\* A POST touches the job of its own, and no message.
LEMMA PostAccepts ==
  ASSUME TypeOK, NEW p \in Posts, PostStep(p)
  PROVE  /\ UNCHANGED <<at, hand, queue, unrouted, broken, acked>>
         /\ \/ UNCHANGED <<job, outbox>>
            \/ /\ job[p] = "ABSENT"
               /\ job' = [job EXCEPT ![p] = "PENDING"] /\ outbox' = outbox \cup {p}
  BY DEF PostStep, Lookup, PutManuscript, Insert, AnswerLost, PostFails, Accept, Rows, handler, ghosts

LEMMA AcceptedStep == ASSUME TypeOK, Accepted, [Next]_vars PROVE Accepted'
  <1>1. ASSUME NEW p \in Posts, PostStep(p) PROVE Accepted'
    <2>1. \A q \in Posts : Carried(q)' <=> Carried(q)
      BY <1>1, PostAccepts, CarriedIs
    <2>2. \A q \in Posts : job[q] # "ABSENT" => job'[q] # "ABSENT"
      BY <1>1, PostAccepts DEF TypeOK
    <2>3. \A q \in outbox' : q \in Posts /\ (q \in outbox \/ job'[q] # "ABSENT")
      BY <1>1, PostAccepts DEF TypeOK
    <2> QED BY <2>1, <2>2, <2>3 DEF Accepted
  <1>2. CASE outbox' \subseteq outbox /\ \A p \in Posts : job'[p] = "ABSENT" <=> job[p] = "ABSENT"
    <2>1. \A p \in Posts : Carried(p)' => job[p] # "ABSENT"
      BY MessagesFrom DEF Accepted
    <2> QED BY <1>2, <2>1 DEF Accepted, TypeOK
  <1> QED BY <1>1, <1>2, JobsStay

LEMMA AcceptedInit == Init => Accepted /\ AckKnown
  BY CarriedIs DEF Init, Accepted, AckKnown, Busy

LEMMA AckStep == ASSUME TypeOK, Accepted, AckKnown, [Next]_vars PROVE AckKnown'
  <1> DEFINE past == {"PROCESSING", "FAILED"}
  <1>0. job \in [Posts -> {"ABSENT", "PENDING", "PROCESSING", "FAILED"}]
    BY DEF TypeOK
  <1>1. ASSUME NEW p \in Posts, job[p] \in past PROVE job'[p] \in past
    <2>1. ASSUME NEW q \in Posts, PostStep(q) PROVE job'[p] \in past
      <3>1. job' = job \/ (job' = [job EXCEPT ![q] = "PENDING"] /\ job[q] = "ABSENT")
        BY <2>1, PostAccepts
      <3> QED BY <1>0, <1>1, <3>1
    <2> QED BY <1>1, <2>1, JobsStay DEF Past
  <1>2. \A w \in Workers : at[w] \in Busy => hand[w].of \in Posts
    BY MessageParts DEF TypeOK
  <1> SUFFICES ASSUME NEW w \in Workers, at'[w] = "ack" PROVE job'[hand'[w].of] \in past
    BY DEF AckKnown, Past
  <1>3. CASE at[w] = "ack" /\ hand'[w] = hand[w]
    <2>1. hand[w].of \in Posts /\ job[hand[w].of] \in past
      BY <1>2, <1>3 DEF AckKnown, Busy, Past
    <2> QED BY <1>1, <1>3, <2>1
  <1>4. CASE Receive(w)
    <2>1. PICK m \in queue : /\ m \in Messages /\ hand'[w] = m
                             /\ at'[w] = IF job[m.of] = "PENDING" THEN "parsing" ELSE "ack"
      BY <1>4, ReceiveOn
    <2>2. m.of \in Posts /\ job[m.of] # "PENDING" /\ job[m.of] # "ABSENT"
      BY <2>1, MessageParts, QueueCarried DEF Accepted
    <2>3. job[m.of] \in past
      BY <1>0, <2>2
    <2> QED BY <1>1, <2>1, <2>2, <2>3
  <1>5. CASE Claim(w)
    <2>1. hand'[w] = hand[w] /\ hand[w].of \in Posts /\ job[hand[w].of] # "ABSENT"
      BY <1>2, <1>5, KeepsOn, InHandCarried DEF Accepted
    <2>2. job' = [job EXCEPT ![hand[w].of] = IF @ = "PENDING" THEN "PROCESSING" ELSE @]
      BY <1>5 DEF Claim
    <2> QED BY <1>0, <2>1, <2>2
  <1>6. ASSUME ~Receive(w), ~Claim(w) PROVE at[w] = "ack" /\ hand'[w] = hand[w]
    <2>1. ASSUME UNCHANGED <<at, hand>> PROVE at[w] = "ack" /\ hand'[w] = hand[w]
      BY <2>1
    <2>2. ASSUME \/ \E p \in Posts : PostStep(p)
                 \/ \E v \in Workers : RelayStep(v) \/ Declare(v)
                 \/ UNCHANGED vars
          PROVE  UNCHANGED <<at, hand>>
      BY <2>2 DEF PostStep, Lookup, PutManuscript, Insert, AnswerLost, PostFails, RelayStep,
         RelayPublish, RelayPublishBroken, RelayCommit, RelayError, Declare, vars, handler
    <2>3. ASSUME NEW v \in Workers, Receive(v) \/ HandlerStep(v) \/ Restart(v)
          PROVE  at[w] = "ack" /\ hand'[w] = hand[w]
      <3>1. Ack(v) \/ DoubleAck(v) \/ Republish(v) \/ Restart(v) => Return(v)
        BY DEF Ack, DoubleAck, Republish, Restart, Dies
      <3>2. v # w
        BY <1>6, <2>3, <3>1, ReturnOn, KeepsOn, DlqMarkOn DEF HandlerStep
      <3>3. at'[w] = at[w] /\ hand'[w] = hand[w]
        BY <2>3, <3>1, <3>2, ReceiveOn, ReturnOn, KeepsOn, DlqMarkOn DEF HandlerStep
      <3> QED BY <3>3
    <2> QED BY <2>1, <2>2, <2>3 DEF Next, PostStep, RelayStep
  <1> QED BY <1>3, <1>4, <1>5, <1>6

-----------------------------------------------------------------------------
(***************************************************************************)
(* The idempotency key.                                                    *)
(***************************************************************************)

\* Jobs keep to their keys, and an answer names a job of its key.
KeysKept ==
  /\ \A p, q \in Posts :
       job[p] # "ABSENT" /\ job[q] # "ABSENT" /\ KeyOf[p] = KeyOf[q] => p = q
  /\ \A p \in Posts : answer[p] \in Posts => answer[p] \in Rows(KeyOf[p])

LEMMA KeysInit == Init => KeysKept
  BY IntakeAssumption DEF Init, KeysKept

LEMMA KeysStep == ASSUME TypeOK, Accepted, KeysKept, [Next]_vars PROVE KeysKept'
  <1> USE DEF KeysKept, Rows, Goto, Answer, Accept
  <1>0. /\ job \in [Posts -> {"ABSENT", "PENDING", "PROCESSING", "FAILED"}]
        /\ answer \in [Posts -> Posts \cup {None, "error"}]
        /\ None \notin Posts /\ "error" \notin Posts
    BY IntakeAssumption DEF TypeOK
  <1>1. ASSUME NEW p \in Posts, Lookup(p) PROVE KeysKept'
    BY <1>0, <1>1 DEF Lookup
  <1>2. ASSUME NEW p \in Posts, PutManuscript(p) PROVE KeysKept'
    BY <1>0, <1>2 DEF PutManuscript
  <1>3. ASSUME NEW p \in Posts, Insert(p) PROVE KeysKept'
    BY <1>0, <1>3 DEF Insert
  <1>4. ASSUME NEW p \in Posts, AnswerLost(p) PROVE KeysKept'
    BY <1>0, <1>4 DEF AnswerLost
  <1>5. ASSUME NEW p \in Posts, PostFails(p) PROVE KeysKept'
    BY <1>0, <1>5 DEF PostFails
  <1>6. ASSUME UNCHANGED answer,
               \A p \in Posts : job'[p] = "ABSENT" <=> job[p] = "ABSENT"
        PROVE  KeysKept'
    BY <1>6
  <1> HIDE DEF KeysKept
  <1> QED BY <1>1, <1>2, <1>3, <1>4, <1>5, <1>6, JobsStay DEF PostStep

\* A client that is answered with a job has the only job of its key.
THEOREM OneJobPerKeyAlways == Spec => []OneJobPerKey
  <1>1. TypeOK /\ KeysKept => OneJobPerKey
    BY IntakeAssumption DEF KeysKept, OneJobPerKey, Rows, TypeOK
  <1> QED BY <1>1, KeysInit, KeysStep, AcceptedInit, AcceptedStep, TypeCorrect, PTL DEF Spec

-----------------------------------------------------------------------------
(***************************************************************************)
(* The manuscript.                                                         *)
(***************************************************************************)

\* What is about to be accepted, accepted, or has a message has its manuscript stored.
StoredFirst ==
  /\ \A p \in Posts : post[p] = "insert" => p \in stored
  /\ outbox \subseteq stored
  /\ \A p \in Posts : Carried(p) => p \in stored

LEMMA StoredInit == Init => StoredFirst
  BY CarriedIs DEF Init, StoredFirst, Busy

LEMMA StoredStep == ASSUME TypeOK, Accepted, StoredFirst, [Next]_vars PROVE StoredFirst'
  <1>1. ASSUME NEW p \in Posts, PostStep(p) PROVE StoredFirst'
    <2>1. /\ stored \subseteq stored'
          /\ outbox' \subseteq stored'
          /\ \A q \in Posts : post'[q] = "insert" => q \in stored'
      <3> USE DEF TypeOK, StoredFirst, Goto, Answer, Accept, gateway
      <3>1. CASE Lookup(p)
        BY <3>1 DEF Lookup
      <3>2. CASE PutManuscript(p)
        BY <3>2 DEF PutManuscript
      <3>3. CASE Insert(p) \/ AnswerLost(p)
        BY <3>3 DEF Insert, AnswerLost
      <3>4. CASE PostFails(p)
        BY <3>4 DEF PostFails
      <3> QED BY <1>1, <3>1, <3>2, <3>3, <3>4 DEF PostStep
    <2>2. \A q \in Posts : Carried(q)' <=> Carried(q)
      BY <1>1, PostAccepts, CarriedIs
    <2> QED BY <2>1, <2>2 DEF StoredFirst
  <1>2. CASE UNCHANGED <<stored, post>> /\ outbox' \subseteq outbox
    <2>1. \A p \in Posts : Carried(p)' => p \in stored
      BY MessagesFrom DEF StoredFirst
    <2> QED BY <1>2, <2>1 DEF StoredFirst
  <1> QED BY <1>1, <1>2, JobsStay

\* No message of a job comes before its manuscript.
THEOREM ManuscriptFirstAlways == Spec => []ManuscriptFirst
  <1>1. TypeOK /\ StoredFirst => ManuscriptFirst
    <2> SUFFICES ASSUME TypeOK, StoredFirst, NEW m \in queue \cup InHand PROVE m.of \in stored
      BY DEF ManuscriptFirst
    <2>1. m \in Messages
      BY DEF TypeOK, InHand
    <2>2. m.of \in Posts /\ Carried(m.of)
      BY <2>1, MessageParts DEF Carried
    <2> QED BY <2>2 DEF StoredFirst
  <1> QED BY <1>1, StoredInit, StoredStep, AcceptedInit, AcceptedStep, TypeCorrect, PTL DEF Spec

-----------------------------------------------------------------------------
(***************************************************************************)
(* Events and messages that get lost.                                      *)
(***************************************************************************)

\* Accepted, and parsed, FAILED, on its way to either, or lost with a handler.
Reached(p) == Past(p) \/ (job[p] = "PENDING" /\ (Carried(p) \/ p \in acked))

\* What the main thread of a worker has declared is there, and all of it while one of
\* its handlers is at work.
Declared ==
  /\ \A w \in Workers : \A i \in 1 .. declared[w] : Topology[i] \in broker
  /\ \A w \in Workers : at[w] # "idle" => Consuming(w)

\* An event in the transaction of a relay has the fate the ghost says.
FateKnown ==
  \A w \in Workers, p \in Posts : row[w] = p =>
    /\ fate[w] \in {"queued", "unrouted", "broken"}
    /\ fate[w] = "queued" => Reached(p)

LossInv == Declared /\ FateKnown /\ Accepted /\ AckKnown /\ LostOnlyInTheGaps

LEMMA TierInRange ==
  ASSUME NEW a \in Nat PROVE \E k \in DOMAIN RetryQueues : Tier(a) = {k}
  <1> DEFINE S == {a + 1, Len(RetryQueues)}
  <1>1. Len(RetryQueues) \in Nat \ {0} /\ DOMAIN RetryQueues = 1 .. Len(RetryQueues)
    BY IntakeAssumption
  <1>2. \E x \in S : \A y \in S : x <= y
    BY <1>1
  <1>3. Min(S) \in S /\ Min(S) <= Len(RetryQueues)
    BY <1>2 DEF Min
  <1>4. Min(S) \in DOMAIN RetryQueues
    BY <1>1, <1>3
  <1> QED BY <1>4 DEF Tier

\* A republish arrives: the queue it goes to has been declared.
LEMMA RepublishArrives ==
  ASSUME TypeOK, Declared, NEW w \in Workers, Republish(w)
  PROVE  queue' = queue \cup {Message(hand[w].of, hand[w].attempt + 1)}
  <1> DEFINE m == hand[w]
  <1>1. at[w] = "republish" /\ m \in Messages
    BY DEF Republish, TypeOK, Busy
  <1>2. m.attempt \in Nat
    BY <1>1, MessageParts, IntakeAssumption
  <1> HIDE DEF m
  <1>3. PICK k \in DOMAIN RetryQueues : Tier(m.attempt) = {k}
    BY <1>2, TierInRange
  <1>4. declared[w] = Len(Topology)
    BY <1>1 DEF Declared, Consuming
  <1>5. k \in Nat /\ 6 + k \in 1 .. Len(Topology)
    BY IntakeAssumption, TopologyLength
  <1>6. RetryQueues[k] \in broker
    BY <1>4, <1>5, TopologyLength DEF Declared
  <1>7. {Message(m.of, m.attempt + 1) : i \in {j \in Tier(m.attempt) : RetryQueues[j] \in broker}}
          = {Message(m.of, m.attempt + 1)}
    BY <1>3, <1>6
  <1> QED BY <1>7 DEF Republish, m

\* One handler moves, and the queues keep theirs.
LEMMA OutOfHand ==
  ASSUME NEW w \in Workers,
         \A v \in Workers \ {w} : at'[v] = at[v] /\ hand'[v] = hand[v],
         NEW p, Carried(p), \A m \in queue : m.of = p => Carried(p)'
  PROVE  Carried(p)' \/ (at[w] \in Busy /\ hand[w].of = p)
  BY CarriedIs

LEMMA StillQueued == ASSUME NEW m \in queue' PROVE Carried(m.of)'
  BY CarriedIs

\* No handler lets go of a job that waits, but when it dies after its ack.
LEMMA CarriedKept ==
  ASSUME TypeOK, Accepted, AckKnown, Declared, NEW p \in Posts, Carried(p),
         NEW w \in Workers, Receive(w) \/ HandlerStep(w) \/ Restart(w)
  PROVE  Carried(p)' \/ p \in acked' \/ Past(p) \/ Past(p)'
  <1>1. "idle" \notin Busy /\ "dlqAck" \notin Busy /\ {"parsing", "ack", "failed"} \subseteq Busy
    BY DEF Busy
  <1>2. ASSUME queue \subseteq queue' PROVE \A m \in queue : m.of = p => Carried(p)'
    BY <1>2, StillQueued
  <1>3. CASE Receive(w)
    <2>1. PICK m \in queue :
            /\ queue' = queue \ {m} /\ at[w] = "idle" /\ at'[w] \in Busy /\ hand'[w] = m
            /\ \A v \in Workers \ {w} : at'[v] = at[v] /\ hand'[v] = hand[v]
      BY <1>1, <1>3, ReceiveOn
    <2>2. Carried(m.of)'
      BY <2>1, CarriedIs
    <2>3. \A n \in queue : n.of = p => Carried(p)'
      BY <2>1, <2>2, StillQueued
    <2> QED BY <1>1, <2>1, <2>3, OutOfHand
  <1>4. CASE Claim(w) \/ ClaimLost(w) \/ RetryAck(w)
    <2>1. UNCHANGED queue
      BY <1>4 DEF Claim, ClaimLost, RetryAck
    <2>2. /\ at'[w] \in Busy /\ hand'[w] = hand[w]
          /\ \A v \in Workers \ {w} : at'[v] = at[v] /\ hand'[v] = hand[v]
      BY <1>4, KeepsOn
    <2>3. Carried(hand[w].of)'
      BY <2>2, CarriedIs
    <2> QED BY <1>2, <2>1, <2>2, <2>3, OutOfHand
  <1>5. CASE Ack(w)
    <2>1. Return(w) /\ UNCHANGED queue /\ at[w] = "ack"
      BY <1>5 DEF Ack
    <2>2. Past(hand[w].of)
      BY <2>1 DEF AckKnown
    <2> QED BY <1>2, <2>1, <2>2, ReturnOn, OutOfHand
  <1>6. CASE Republish(w)
    <2>1. Return(w) /\ queue' = queue \cup {Message(hand[w].of, hand[w].attempt + 1)}
      BY <1>6, RepublishArrives DEF Republish
    <2>2. ASSUME hand[w].of = p PROVE Carried(p)'
      <3>1. Message(p, hand[w].attempt + 1) \in queue'
        BY <2>1, <2>2
      <3>2. Message(p, hand[w].attempt + 1).of = p
        BY DEF Message
      <3> QED BY <3>1, <3>2, CarriedIs
    <2> QED BY <1>2, <2>1, <2>2, ReturnOn, OutOfHand
  <1>7. CASE DlqMark(w)
    <2>1. UNCHANGED queue /\ at[w] = "dlq"
      BY <1>7 DEF DlqMark
    <2>2. ASSUME hand[w].of = p PROVE Past(p)'
      <3>1. PICK status \in {"FAILED", job[p]} \ {"PENDING"} : job' = [job EXCEPT ![p] = status]
        BY <1>7, <2>2 DEF DlqMark
      <3>2. job[p] # "ABSENT"
        BY DEF Accepted
      <3> QED BY <3>1, <3>2 DEF Past, TypeOK
    <2> QED BY <1>2, <1>7, <2>1, <2>2, DlqMarkOn, OutOfHand
  <1>8. CASE DoubleAck(w)
    <2>1. Return(w) /\ UNCHANGED queue /\ at[w] = "dlqAck"
      BY <1>8 DEF DoubleAck, Dies
    <2> QED BY <1>1, <1>2, <2>1, ReturnOn, OutOfHand
  <1>9. CASE Restart(w)
    <2>1. Return(w) /\ queue \subseteq queue'
      BY <1>9 DEF Restart, Dies
    <2>2. ASSUME at[w] \in Busy, hand[w].of = p PROVE Carried(p)' \/ p \in acked'
      <3>1. CASE at[w] \in {"parsing", "ack", "failed"}
        <4>1. hand[w] \in queue'
          BY <1>9, <3>1 DEF Restart
        <4> QED BY <2>2, <4>1, StillQueued
      <3>2. CASE at[w] \in {"republish", "dlq"}
        BY <1>9, <2>2, <3>2 DEF Restart
      <3> QED BY <2>2, <3>1, <3>2 DEF Busy
    <2> QED BY <1>2, <2>1, <2>2, ReturnOn, OutOfHand
  <1> QED BY <1>3, <1>4, <1>5, <1>6, <1>7, <1>8, <1>9 DEF HandlerStep

LEMMA AckedStays == ASSUME [Next]_vars PROVE acked \subseteq acked'
  BY DEF Next, Lookup, PutManuscript, Insert, AnswerLost, PostFails, RelayPublish, RelayPublishBroken,
     RelayCommit, RelayError, Declare, Receive, HandlerStep, Claim, ClaimLost, Ack, RetryAck,
     Republish, DlqMark, DoubleAck, Restart, vars, ghosts

LEMMA ReachedKept ==
  ASSUME TypeOK, Accepted, AckKnown, Declared, [Next]_vars, NEW p \in Posts, Reached(p)
  PROVE  Reached(p)'
  <1>0. job \in [Posts -> {"ABSENT", "PENDING", "PROCESSING", "FAILED"}]
    BY DEF TypeOK
  <1>1. ASSUME NEW q \in Posts, PostStep(q) PROVE Reached(p)'
    <2>1. job'[p] = job[p]
      BY <1>0, <1>1, PostAccepts DEF Reached, Past
    <2>2. (Carried(p)' <=> Carried(p)) /\ acked' = acked
      BY <1>1, PostAccepts, CarriedIs
    <2> QED BY <2>1, <2>2 DEF Reached, Past
  <1>2. CASE ~ \E q \in Posts : PostStep(q)
    <2>1. (Past(p) => Past(p)') /\ (job'[p] = "ABSENT" <=> job[p] = "ABSENT")
      BY <1>2, JobsStay
    <2>2. Past(p)' \/ job'[p] = "PENDING"
      <3>1. job'[p] \in {"ABSENT", "PENDING", "PROCESSING", "FAILED"}
        BY TypeStep DEF TypeOK
      <3> QED BY <2>1, <3>1 DEF Reached, Past
    <2>3. ASSUME Carried(p) PROVE Carried(p)' \/ p \in acked' \/ Past(p) \/ Past(p)'
      <3>1. CASE UNCHANGED <<at, hand>> /\ queue \subseteq queue'
        BY <2>3, <3>1, CarriedIs
      <3>2. ASSUME (\E w \in Workers : RelayStep(w) \/ Declare(w)) \/ UNCHANGED vars
            PROVE  UNCHANGED <<at, hand>> /\ queue \subseteq queue'
        BY <3>2 DEF RelayStep, RelayPublish, RelayPublishBroken, RelayCommit, RelayError, Declare,
           vars, handler
      <3> QED BY <1>2, <2>3, <3>1, <3>2, CarriedKept DEF Next, PostStep, RelayStep
    <2> QED BY <2>1, <2>2, <2>3, AckedStays DEF Reached
  <1> QED BY <1>1, <1>2

LEMMA DeclaredStep == ASSUME TypeOK, Declared, [Next]_vars PROVE Declared'
  <1>0. declared \in [Workers -> 0 .. Len(Topology)] /\ Len(Topology) \in Nat
    BY TopologyLength DEF TypeOK
  <1>1. ASSUME NEW w \in Workers, Declare(w) PROVE Declared'
    BY <1>0, <1>1 DEF Declare, Declared, Consuming, handler
  <1>2. ASSUME NEW w \in Workers, DoubleAck(w) \/ Restart(w) PROVE Declared'
    <2>1. /\ declared' = [declared EXCEPT ![w] = 0] /\ UNCHANGED broker
          /\ Return(w)
      BY <1>2 DEF DoubleAck, Restart, Dies
    <2> QED BY <1>0, <2>1, ReturnOn DEF Declared, Consuming
  <1>3. ASSUME NEW w \in Workers, Receive(w) \/ (HandlerStep(w) /\ ~DoubleAck(w)) PROVE Declared'
    <2>1. UNCHANGED <<broker, declared>>
      BY <1>3 DEF Receive, HandlerStep, Claim, ClaimLost, Ack, RetryAck, Republish, DlqMark
    <2>2. Consuming(w) \/ Return(w)
      <3>1. at[w] = "idle" => Consuming(w) \/ Return(w)
        BY <1>3 DEF Receive, HandlerStep, Claim, ClaimLost, Ack, RetryAck, Republish, DlqMark
      <3> QED BY <3>1 DEF Declared
    <2>3. \A v \in Workers \ {w} : at'[v] = at[v]
      BY <1>3, ReceiveOn, KeepsOn, ReturnOn, DlqMarkOn DEF HandlerStep, Ack, Republish
    <2> QED BY <2>1, <2>2, <2>3, ReturnOn DEF Declared, Consuming
  <1>4. ASSUME \/ \E p \in Posts : PostStep(p)
               \/ \E w \in Workers : RelayStep(w)
               \/ UNCHANGED vars
        PROVE  Declared'
    <2>1. UNCHANGED <<broker, declared, at>>
      BY <1>4 DEF PostStep, Lookup, PutManuscript, Insert, AnswerLost, PostFails, RelayStep,
         RelayPublish, RelayPublishBroken, RelayCommit, RelayError, vars, handler
    <2> QED BY <2>1 DEF Declared, Consuming
  <1> QED BY <1>1, <1>2, <1>3, <1>4 DEF Next, PostStep, RelayStep

LEMMA FateStep ==
  ASSUME TypeOK, Declared, FateKnown, Accepted, AckKnown, [Next]_vars PROVE FateKnown'
  <1> SUFFICES ASSUME NEW w \in Workers, NEW p \in Posts, row'[w] = p
               PROVE  /\ fate'[w] \in {"queued", "unrouted", "broken"}
                      /\ fate'[w] = "queued" => Reached(p)'
    BY DEF FateKnown
  <1>0. /\ row \in [Workers -> Posts \cup {None}] /\ outbox \subseteq Posts
        /\ fate \in [Workers -> {"none", "queued", "unrouted", "broken"}]
        /\ None \notin Posts
        /\ job \in [Posts -> {"ABSENT", "PENDING", "PROCESSING", "FAILED"}]
    BY IntakeAssumption DEF TypeOK
  <1>1. CASE row'[w] = row[w] /\ fate'[w] = fate[w]
    BY <1>1, ReachedKept DEF FateKnown
  <1>2. CASE RelayPublish(w)
    <2>1. PICK q \in Unlocked :
            \/ Publish(w, q, "queued") /\ queue' = queue \cup {Message(q, 0)}
            \/ Publish(w, q, "unrouted")
      BY <1>2 DEF RelayPublish
    <2>2. q = p
      BY <1>0, <2>1 DEF Publish
    <2>3. job[p] # "ABSENT" /\ job' = job
      BY <1>2, <2>2 DEF RelayPublish, Accepted, Unlocked
    <2>4. ASSUME queue' = queue \cup {Message(p, 0)} PROVE Reached(p)'
      <3>1. Message(p, 0).of = p
        BY DEF Message
      <3>2. Carried(p)'
        BY <2>4, <3>1, CarriedIs
      <3> QED BY <1>0, <2>3, <3>2 DEF Reached, Past
    <2> QED BY <1>0, <2>1, <2>2, <2>4 DEF Publish
  <1>3. CASE RelayPublishBroken(w)
    BY <1>0, <1>3 DEF RelayPublishBroken, Publish
  <1>4. ASSUME NEW v \in Workers, RelayStep(v), ~RelayPublish(w), ~RelayPublishBroken(w)
        PROVE  row'[w] = row[w] /\ fate'[w] = fate[w]
    <2>1. PICK q \in Posts \cup {None}, f \in {"none", "queued", "unrouted", "broken"} :
            Publish(v, q, f)
      BY <1>0, <1>4 DEF RelayStep, RelayPublish, RelayPublishBroken, RelayCommit, RelayError, Unlocked
    <2>2. v # w
      <3>1. ASSUME v = w PROVE row'[w] = None
        BY <1>0, <1>4, <3>1 DEF RelayStep, RelayCommit, RelayError, Publish
      <3> QED BY <1>0, <3>1
    <2> QED BY <1>0, <2>1, <2>2 DEF Publish
  <1>5. ASSUME NEW v \in Workers, DoubleAck(v) \/ Restart(v)
        PROVE  row'[w] = row[w] /\ fate'[w] = fate[w]
    <2>1. Publish(v, None, "none")
      BY <1>5 DEF DoubleAck, Restart, Dies
    <2> QED BY <1>0, <2>1 DEF Publish
  <1>6. ASSUME \/ \E q \in Posts : PostStep(q)
               \/ \E v \in Workers : Declare(v) \/ Receive(v) \/ (HandlerStep(v) /\ ~DoubleAck(v))
               \/ UNCHANGED vars
        PROVE  row'[w] = row[w] /\ fate'[w] = fate[w]
    BY <1>6 DEF PostStep, Lookup, PutManuscript, Insert, AnswerLost, PostFails, Declare, Receive,
       HandlerStep, Claim, ClaimLost, Ack, RetryAck, Republish, DlqMark, vars, relay
  <1> QED BY <1>1, <1>2, <1>3, <1>4, <1>5, <1>6 DEF Next, PostStep, RelayStep

LEMMA LostStep == ASSUME TypeOK, LossInv, [Next]_vars PROVE LostOnlyInTheGaps'
  <1> SUFFICES ASSUME NEW p \in Posts, job'[p] = "PENDING", ~Reached(p)'
               PROVE  p \in outbox' \cup unrouted' \cup broken'
    BY DEF LostOnlyInTheGaps, Reached, Past, Carried
  <1>0. job \in [Posts -> {"ABSENT", "PENDING", "PROCESSING", "FAILED"}]
    BY DEF TypeOK
  <1>1. ~Reached(p)
    BY ReachedKept DEF LossInv
  <1>2. ASSUME NEW q \in Posts, PostStep(q) PROVE p \in outbox' \cup unrouted' \cup broken'
    <2>1. CASE job'[p] = job[p]
      BY <1>1, <1>2, <2>1, PostAccepts DEF LossInv, LostOnlyInTheGaps, Reached, Carried
    <2>2. CASE job'[p] # job[p]
      BY <1>0, <1>2, <2>2, PostAccepts
    <2> QED BY <2>1, <2>2
  <1>3. CASE ~ \E q \in Posts : PostStep(q)
    <2>1. job[p] = "PENDING"
      BY <1>0, <1>3, JobsStay DEF LossInv, Past
    <2>2. p \in outbox \cup unrouted \cup broken
      BY <1>1, <2>1 DEF LossInv, LostOnlyInTheGaps, Reached, Carried
    <2>3. ASSUME NEW w \in Workers, RelayCommit(w) PROVE p \in outbox' \cup unrouted' \cup broken'
      <3>1. CASE row[w] = p
        BY <1>1, <2>3, <3>1 DEF RelayCommit, LossInv, FateKnown
      <3>2. CASE row[w] # p
        BY <2>2, <2>3, <3>2 DEF RelayCommit
      <3> QED BY <3>1, <3>2
    <2>4. ASSUME ~ \E w \in Workers : RelayCommit(w)
          PROVE  UNCHANGED <<outbox, unrouted, broken>>
      BY <1>3, <2>4 DEF Next, PostStep, RelayPublish, RelayPublishBroken, RelayError, Declare,
         Receive, HandlerStep, Claim, ClaimLost, Ack, RetryAck, Republish, DlqMark, DoubleAck,
         Restart, vars, ghosts
    <2> QED BY <2>2, <2>3, <2>4
  <1> QED BY <1>2, <1>3

LEMMA LossInit == Init => LossInv
  <1>1. Init => Declared /\ FateKnown /\ LostOnlyInTheGaps
    BY IntakeAssumption DEF Init, Declared, FateKnown, LostOnlyInTheGaps
  <1> QED BY <1>1, AcceptedInit DEF LossInv

\* A job that waits for its parse has its event in the outbox, or a message in a queue
\* or with a handler, unless the event was published before the topology or into a
\* broken connection, or a handler died between its ack and what follows it.
THEOREM LostOnlyAlways == Spec => []LostOnlyInTheGaps
  <1>1. LossInv => LostOnlyInTheGaps
    BY DEF LossInv
  <1>2. TypeOK /\ LossInv /\ [Next]_vars => LossInv'
    BY DeclaredStep, FateStep, AcceptedStep, AckStep, LostStep DEF LossInv
  <1> QED BY <1>1, <1>2, LossInit, TypeCorrect, PTL DEF Spec

=============================================================================
