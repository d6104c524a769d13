--------------------------- MODULE PipelineProofs ---------------------------
(***************************************************************************)
(* Proofs about Pipeline, for every value of its constants: every variable *)
(* keeps its type; where the messages go in each action (Flow); that a     *)
(* message whose work is still waited for is dropped nowhere but between   *)
(* an early ack and what replaces the delivery; and how the statuses of    *)
(* jobs and tasks move.                                                    *)
(***************************************************************************)
EXTENDS PipelineInvariant, TLAPS

-----------------------------------------------------------------------------
(***************************************************************************)
(* Bags of messages.                                                       *)
(***************************************************************************)

\* BagAdd adds to the messages of a bag just the one given.
LEMMA AddDomain == ASSUME NEW B, NEW x PROVE BagToSet(BagAdd(B, x)) = BagToSet(B) \cup {x}
  BY DEF BagAdd, BagToSet

\* BagRemove takes away no other message.
LEMMA RemoveDomain ==
  ASSUME NEW B, NEW x
  PROVE  /\ BagToSet(BagRemove(B, x)) \subseteq BagToSet(B)
         /\ BagToSet(B) \subseteq BagToSet(BagRemove(B, x)) \cup {x}
  BY DEF BagRemove, BagToSet

LEMMA UnionDomain ==
  ASSUME NEW B, NEW C PROVE BagToSet(B (+) C) = BagToSet(B) \cup BagToSet(C)
  BY DEF (+), BagToSet

LEMMA DifferenceDomain ==
  ASSUME NEW B, IsABag(B), NEW C
  PROVE  /\ BagToSet(B (-) C) \subseteq BagToSet(B)
         /\ BagToSet(B) \subseteq BagToSet(B (-) C) \cup BagToSet(C)
  BY DEF (-), BagToSet, IsABag

LEMMA SetDomain == ASSUME NEW S PROVE BagToSet(SetToBag(S)) = S
  BY DEF SetToBag, BagToSet

LEMMA EmptyDomain == BagToSet(EmptyBag) = {}
  BY DEF EmptyBag, SetToBag, BagToSet

LEMMA EmptyMessageBag == MessageBag(EmptyBag)
  BY DEF MessageBag, EmptyBag, SetToBag, BagToSet, IsABag

LEMMA AddMessageBag ==
  ASSUME NEW B, MessageBag(B), NEW m \in Message PROVE MessageBag(BagAdd(B, m))
  <1>1. IsABag(BagAdd(B, m))
    BY DEF MessageBag, BagAdd, IsABag
  <1> QED BY <1>1, AddDomain DEF MessageBag

LEMMA RemoveMessageBag ==
  ASSUME NEW B, MessageBag(B), NEW m PROVE MessageBag(BagRemove(B, m))
  <1>1. IsABag(BagRemove(B, m))
    BY DEF MessageBag, BagRemove, IsABag
  <1> QED BY <1>1, RemoveDomain DEF MessageBag

LEMMA UnionMessageBag ==
  ASSUME NEW B, MessageBag(B), NEW C, MessageBag(C) PROVE MessageBag(B (+) C)
  <1>1. IsABag(B (+) C)
    BY DEF MessageBag, (+), IsABag
  <1> QED BY <1>1, UnionDomain DEF MessageBag

LEMMA DifferenceMessageBag ==
  ASSUME NEW B, MessageBag(B), NEW C, MessageBag(C) PROVE MessageBag(B (-) C)
  <1>1. IsABag(B (-) C)
    BY DEF MessageBag, (-), IsABag
  <1> QED BY <1>1, DifferenceDomain DEF MessageBag

LEMMA SetMessageBag ==
  ASSUME NEW S \in SUBSET Message PROVE MessageBag(SetToBag(S))
  BY DEF MessageBag, SetToBag, BagToSet, IsABag

-----------------------------------------------------------------------------
(***************************************************************************)
(* Type correctness.                                                       *)
(***************************************************************************)

LEMMA MessageFacts ==
  /\ NoMsg \notin Message
  /\ \A j \in Jobs : Event("parse", j) \in Message /\ Event("stitch", j) \in Message
  /\ \A t \in Tasks : Event("tts", t) \in Message /\ JobOf[t] \in Jobs
  /\ \A m \in Message : /\ m.stage \in {"parse", "tts", "stitch"}
                        /\ m.stage = "tts" => m.of \in Tasks
                        /\ m.stage # "tts" => m.of \in Jobs
                        /\ JobOfMsg(m) \in Jobs
                        /\ m.attempt \in Attempts
  /\ \A m \in Message : m.attempt < MaxRetries =>
       [m EXCEPT !.attempt = @ + 1] \in Message
  BY PipelineAssumption DEF Message, Event, JobOfMsg, Attempts

LEMMA TypeInit == Init => TypeInv
  BY PipelineAssumption, EmptyMessageBag, MessageFacts
  DEF Init, TypeInv, TypeOK, HandlerOK, InitJob, JobStatus, TaskStatus, Label

LEMMA TypeSubmit == ASSUME TypeInv, NEW j \in Jobs, Submit(j) PROVE TypeInv'
  BY MessageFacts, AddMessageBag
  DEF TypeInv, TypeOK, HandlerOK, Submit, JobStatus,
      relayVars, handlerVars, ghosts, bounds

LEMMA TypeParse ==
  ASSUME TypeInv, NEW w \in Workers,
         ParseReceive(w) \/ ParseReject(w) \/ ParseClaim(w)
  PROVE  TypeInv'
  <1>1. CASE ParseReceive(w)
    BY <1>1, MessageFacts, RemoveMessageBag
    DEF TypeInv, TypeOK, HandlerOK, ParseReceive, Deliver, Goto, Label, MessageBag,
        tables, relayVars, handlerVars, ghosts, bounds
  <1>2. CASE ParseReject(w)
    BY <1>2, MessageFacts
    DEF TypeInv, TypeOK, HandlerOK, ParseReject, Goto, Label,
        tables, relayVars, handlerVars, ghosts, bounds
  <1>3. CASE ParseClaim(w)
    <2> DEFINE events == {Event("tts", t) : t \in TasksOf(msg[w].of)}
    <2>1. msg[w] \in Message
      BY <1>3 DEF TypeInv, TypeOK, HandlerOK, ParseClaim
    <2>2. events \in SUBSET Message
      BY MessageFacts DEF TasksOf
    <2>3. MessageBag(outbox')
      BY <1>3, <2>2, UnionMessageBag, SetMessageBag DEF TypeInv, TypeOK, ParseClaim
    <2> QED
      BY <1>3, <2>1, <2>3, PipelineAssumption
      DEF TypeInv, TypeOK, HandlerOK, ParseClaim, Goto, Commit, Label, JobStatus, TaskStatus,
          relayVars, ghosts
  <1> QED BY <1>1, <1>2, <1>3

LEMMA TypeTts ==
  ASSUME TypeInv, NEW w \in Workers,
         TtsReceive(w) \/ TtsFinish(w) \/ TtsRelease(w)
  PROVE  TypeInv'
  <1>1. CASE TtsReceive(w)
    <2>1. PICK m \in BagToSet(queue) :
            /\ Deliver(w, m, "tts", IF Claimable(m.of) THEN "work" ELSE "ack")
            /\ IF Claimable(m.of)
               THEN /\ task' = [task EXCEPT ![m.of] = "IN_PROGRESS"]
                    /\ lease' = [lease EXCEPT ![m.of] = "live"]
               ELSE UNCHANGED <<task, lease>>
      BY <1>1 DEF TtsReceive
    <2>2. m \in Message
      BY DEF TypeInv, TypeOK, MessageBag
    <2>3. MessageBag(queue')
      BY <2>1, RemoveMessageBag DEF Deliver, TypeInv, TypeOK
    <2>4. task' \in [Tasks -> TaskStatus] /\ lease' \in [Tasks -> {"none", "live", "expired"}]
      BY <2>1 DEF TypeInv, TypeOK, TaskStatus
    <2>5. /\ pc' \in [Workers -> Label]
          /\ msg' \in [Workers -> Message \cup {NoMsg}]
          /\ UNCHANGED <<acked, chunks>>
      BY <2>1, <2>2 DEF Deliver, Goto, TypeInv, TypeOK, Label
    <2>6. HandlerOK'
      BY <2>1, <2>2, MessageFacts DEF Deliver, Goto, TypeInv, TypeOK, HandlerOK
    <2> QED
      BY <1>1, <2>3, <2>4, <2>5, <2>6 DEF TtsReceive, TypeInv, TypeOK, relayVars, ghosts, bounds
  <1>2. CASE TtsFinish(w)
    <2>1. msg[w] \in Message /\ msg[w].of \in Tasks /\ JobOf[msg[w].of] \in Jobs
      BY <1>2, MessageFacts DEF TtsFinish, TypeInv, TypeOK, HandlerOK
    <2>2. \/ outbox' = BagAdd(outbox, Event("stitch", JobOf[msg[w].of]))
          \/ UNCHANGED outbox
      BY <1>2 DEF TtsFinish
    <2>3. MessageBag(outbox) /\ Event("stitch", JobOf[msg[w].of]) \in Message
      BY <2>1, MessageFacts DEF TypeInv, TypeOK
    <2>4. MessageBag(outbox')
      BY <2>2, <2>3, AddMessageBag
    <2>5. job' \in [Jobs -> JobStatus]
      BY <1>2, <2>1 DEF TtsFinish, TypeInv, TypeOK, JobStatus
    <2>6. task' \in [Tasks -> TaskStatus] /\ lease' \in [Tasks -> {"none", "live", "expired"}]
      BY <1>2, <2>1 DEF TtsFinish, TypeInv, TypeOK, TaskStatus
    <2>7. HandlerOK' /\ pc' \in [Workers -> Label]
      BY <1>2, <2>1, MessageFacts DEF TtsFinish, Goto, TypeInv, TypeOK, HandlerOK, Label
    <2> QED
      BY <1>2, <2>4, <2>6, <2>7, <2>5 DEF TtsFinish, TypeInv, TypeOK, relayVars, ghosts, bounds
  <1>3. CASE TtsRelease(w)
    <2>1. msg[w] \in Message /\ msg[w].of \in Tasks
      BY <1>3, MessageFacts DEF TtsRelease, TypeInv, TypeOK, HandlerOK
    <2>2. task' \in [Tasks -> TaskStatus] /\ lease' \in [Tasks -> {"none", "live", "expired"}]
      BY <1>3, <2>1 DEF TtsRelease, TypeInv, TypeOK, TaskStatus
    <2>3. overwritten' \subseteq Tasks
      BY <1>3, <2>1 DEF TtsRelease, TypeInv, TypeOK
    <2>4. /\ pc[w] = "work" /\ pc' = [pc EXCEPT ![w] = "retry"]
          /\ UNCHANGED <<msg, acked, chunks>>
      BY <1>3 DEF TtsRelease, Goto
    <2>5. pc' \in [Workers -> Label]
      BY <2>4 DEF TypeInv, TypeOK, Label
    <2>6. HandlerOK'
      BY <2>1, <2>4, MessageFacts DEF TypeInv, TypeOK, HandlerOK
    <2> QED
      BY <1>3, <2>2, <2>4, <2>5, <2>6, <2>3 DEF TtsRelease, TypeInv, TypeOK, relayVars, bounds
  <1> QED BY <1>1, <1>2, <1>3

LEMMA TypeStitch ==
  ASSUME TypeInv, NEW w \in Workers,
         StitchReceive(w) \/ StitchFetch(w) \/ StitchUpload(w) \/ StitchComplete(w)
  PROVE  TypeInv'
  <1>1. CASE StitchReceive(w)
    BY <1>1, MessageFacts, RemoveMessageBag
    DEF TypeInv, TypeOK, HandlerOK, StitchReceive, Deliver, Goto, Label, MessageBag,
        tables, relayVars, ghosts, bounds
  <1>2. CASE StitchFetch(w)
    BY <1>2, MessageFacts
    DEF TypeInv, TypeOK, HandlerOK, StitchFetch, Goto, Label, TasksOf,
        tables, relayVars, ghosts, bounds
  <1>3. CASE StitchUpload(w)
    BY <1>3, MessageFacts
    DEF TypeInv, TypeOK, HandlerOK, StitchUpload, Goto, Label,
        tables, relayVars, ghosts, bounds
  <1>4. CASE StitchComplete(w)
    <2>1. msg[w] \in Message /\ msg[w].of \in Jobs /\ ~acked[w]
      BY <1>4, MessageFacts DEF StitchComplete, TypeInv, TypeOK, HandlerOK
    <2>2. job' \in [Jobs -> JobStatus]
      BY <1>4, <2>1 DEF StitchComplete, TypeInv, TypeOK, JobStatus
    <2>3. /\ pc' = [pc EXCEPT ![w] = "ack"] \/ pc' = [pc EXCEPT ![w] = "retry"]
          /\ UNCHANGED <<msg, acked, chunks>>
      BY <1>4 DEF StitchComplete, Commit, Goto
    <2>4. pc' \in [Workers -> Label]
      BY <2>3 DEF TypeInv, TypeOK, Label
    <2>5. HandlerOK'
      BY <2>1, <2>3, MessageFacts DEF TypeInv, TypeOK, HandlerOK
    <2>6. faults' \in 0 .. MaxFaults
      BY <1>4, PipelineAssumption DEF StitchComplete, Commit, TypeInv, TypeOK
    <2> QED
      BY <1>4, <2>2, <2>3, <2>4, <2>5, <2>6
      DEF StitchComplete, TypeInv, TypeOK, relayVars, ghosts
  <1> QED BY <1>1, <1>2, <1>3, <1>4

LEMMA ReturnOK ==
  ASSUME TypeInv, NEW w \in Workers, Return(w)
  PROVE  /\ pc' \in [Workers -> Label]
         /\ msg' \in [Workers -> Message \cup {NoMsg}]
         /\ acked' \in [Workers -> BOOLEAN]
         /\ chunks' \in [Workers -> SUBSET Tasks]
         /\ HandlerOK'
  <1>1. /\ pc' \in [Workers -> Label]
        /\ msg' \in [Workers -> Message \cup {NoMsg}]
        /\ acked' \in [Workers -> BOOLEAN]
        /\ chunks' \in [Workers -> SUBSET Tasks]
    BY DEF Return, Goto, TypeInv, TypeOK, Label
  <1>2. HandlerOK'
    BY DEF Return, Goto, TypeInv, TypeOK, HandlerOK
  <1> QED BY <1>1, <1>2

LEMMA TypeRetryDlq ==
  ASSUME TypeInv, NEW w \in Workers,
         RetryAck(w) \/ Republish(w) \/ DlqPublish(w) \/ DlqMark(w) \/ DlqAck(w) \/ Ack(w)
  PROVE  TypeInv'
  <1>1. CASE RetryAck(w)
    BY <1>1, MessageFacts, PipelineAssumption
    DEF TypeInv, TypeOK, HandlerOK, RetryAck, MayFail, Goto, Label, Attempts,
        tables, relayVars, ghosts, bounds
  <1>2. CASE Republish(w)
    <2>1. [msg[w] EXCEPT !.attempt = @ + 1] \in Message
      BY <1>2, MessageFacts DEF TypeInv, TypeOK, HandlerOK, Republish
    <2>2. MessageBag(queue')
      BY <1>2, <2>1, AddMessageBag DEF TypeInv, TypeOK, Republish
    <2> QED
      BY <1>2, <2>2
      DEF TypeInv, TypeOK, HandlerOK, Republish, Return, Goto, Label,
          tables, relayVars, ghosts, bounds
  <1>3. CASE DlqPublish(w)
    BY <1>3, MessageFacts
    DEF TypeInv, TypeOK, HandlerOK, DlqPublish, Goto, Label,
        tables, relayVars, ghosts, bounds
  <1>4. CASE DlqMark(w)
    <2>1. /\ msg[w] \in Message /\ JobOfMsg(msg[w]) \in Jobs
          /\ msg[w].stage = "tts" => msg[w].of \in Tasks
      BY <1>4, MessageFacts, SMTT(30) DEF DlqMark, TypeInv, TypeOK, HandlerOK
    <2>2. job' \in [Jobs -> JobStatus]
      BY <1>4, <2>1 DEF DlqMark, TypeInv, TypeOK, JobStatus
    <2>3. /\ task' \in [Tasks -> TaskStatus] /\ lease' \in [Tasks -> {"none", "live", "expired"}]
          /\ overwritten' \subseteq Tasks
      BY <1>4, <2>1 DEF DlqMark, TypeInv, TypeOK, TaskStatus
    <2>4. CASE msg[w].stage = "stitch"
      BY <1>4, <2>2, <2>3, <2>4, ReturnOK DEF DlqMark, TypeInv, TypeOK, relayVars, bounds
    <2>5. CASE msg[w].stage # "stitch"
      <3>1. pc' = [pc EXCEPT ![w] = "dlqAck"] /\ UNCHANGED <<msg, acked, chunks>>
        BY <1>4, <2>5 DEF DlqMark, Goto
      <3>2. pc' \in [Workers -> Label]
        BY <3>1 DEF TypeInv, TypeOK, Label
      <3>3. HandlerOK'
        BY <1>4, <2>1, <3>1, MessageFacts DEF DlqMark, TypeInv, TypeOK, HandlerOK
      <3> QED
        BY <1>4, <2>2, <2>3, <3>1, <3>2, <3>3 DEF DlqMark, TypeInv, TypeOK, relayVars, bounds
    <2> QED BY <2>4, <2>5
  <1>5. CASE DlqAck(w) \/ Ack(w)
    BY <1>5, ReturnOK
    DEF TypeInv, TypeOK, DlqAck, Ack, tables, relayVars, ghosts, bounds
  <1> QED BY <1>1, <1>2, <1>3, <1>4, <1>5

LEMMA BatchMessageBag ==
  ASSUME MessageBag(outbox), NEW batch \in Batches
  PROVE  MessageBag(batch)
  BY PipelineAssumption DEF Batches, MessageBag, IsABag, BagToSet, \sqsubseteq

LEMMA RollbackMessageBags ==
  ASSUME TypeOK, NEW w \in Workers, Rollback(w)
  PROVE  /\ MessageBag(outbox')
         /\ DOMAIN locked' = Workers /\ DOMAIN sent' = Workers
         /\ \A v \in Workers : MessageBag(locked'[v]) /\ MessageBag(sent'[v])
  BY UnionMessageBag, EmptyMessageBag DEF TypeOK, Rollback

LEMMA TypeRelay ==
  ASSUME TypeInv, NEW w \in Workers,
         RelaySelect(w) \/ RelayPublish(w) \/ RelayCommit(w) \/ RelayError(w)
  PROVE  TypeInv'
  <1>1. CASE RelaySelect(w)
    <2>1. PICK batch \in Batches : /\ locked' = [locked EXCEPT ![w] = batch]
                                   /\ outbox' = outbox (-) batch
      BY <1>1 DEF RelaySelect
    <2>2. MessageBag(outbox') /\ MessageBag(batch)
      BY <2>1, BatchMessageBag, DifferenceMessageBag DEF TypeInv, TypeOK
    <2> QED
      BY <1>1, <2>1, <2>2
      DEF TypeInv, TypeOK, HandlerOK, RelaySelect, tables, handlerVars, ghosts, bounds
  <1>2. CASE RelayPublish(w)
    BY <1>2, AddMessageBag, RemoveMessageBag
    DEF TypeInv, TypeOK, HandlerOK, RelayPublish, MessageBag,
        tables, handlerVars, ghosts, bounds
  <1>3. CASE RelayCommit(w)
    BY <1>3, EmptyMessageBag
    DEF TypeInv, TypeOK, HandlerOK, RelayCommit, tables, handlerVars, ghosts, bounds
  <1>4. CASE RelayError(w)
    BY <1>4, RollbackMessageBags, PipelineAssumption
    DEF TypeInv, TypeOK, HandlerOK, RelayError, tables, handlerVars, ghosts
  <1> QED BY <1>1, <1>2, <1>3, <1>4

LEMMA TypeDie ==
  ASSUME TypeInv, NEW w \in Workers, Die(w), faults' \in 0 .. MaxFaults
  PROVE  TypeInv'
  <1>1. MessageBag(queue')
    BY AddMessageBag DEF Die, TypeInv, TypeOK
  <1>2. lost' \subseteq Message
    BY DEF Die, TypeInv, TypeOK, HandlerOK
  <1> QED
    BY <1>1, <1>2, RollbackMessageBags
    DEF Die, TypeInv, TypeOK, HandlerOK, Label, tables

LEMMA TypeProcess ==
  ASSUME TypeInv, NEW w \in Workers, Crash(w) \/ DoubleAck(w) \/ Restart(w)
  PROVE  TypeInv'
  <1>1. CASE Crash(w)
    BY <1>1, TypeDie, PipelineAssumption DEF Crash, TypeInv, TypeOK
  <1>2. CASE DoubleAck(w)
    BY <1>2, TypeDie, PipelineAssumption DEF DoubleAck, TypeInv, TypeOK
  <1>3. CASE Restart(w)
    BY <1>3
    DEF TypeInv, TypeOK, HandlerOK, Restart, Goto, Label,
        tables, relayVars, ghosts, bounds
  <1> QED BY <1>1, <1>2, <1>3

LEMMA TypeLease ==
  ASSUME TypeInv,
         (\E t \in Tasks : LeaseExpires(t)) \/ ReapLeases \/ ReconcileJobs
  PROVE  TypeInv'
  <1>1. CASE \E t \in Tasks : LeaseExpires(t)
    BY <1>1, PipelineAssumption
    DEF TypeInv, TypeOK, HandlerOK, LeaseExpires, relayVars, handlerVars, ghosts
  <1>2. CASE ReapLeases
    <2>1. {Event("tts", t) : t \in Expired} \in SUBSET Message
      BY MessageFacts DEF Expired
    <2>2. MessageBag(outbox')
      BY <1>2, <2>1, UnionMessageBag, SetMessageBag DEF TypeInv, TypeOK, ReapLeases
    <2> QED
      BY <1>2, <2>2
      DEF TypeInv, TypeOK, HandlerOK, ReapLeases, TaskStatus,
          relayVars, handlerVars, ghosts, bounds
  <1>3. CASE ReconcileJobs
    <2>1. {Event("stitch", j) : j \in Stuck} \in SUBSET Message
      BY MessageFacts DEF Stuck
    <2>2. MessageBag(outbox')
      BY <1>3, <2>1, UnionMessageBag, SetMessageBag DEF TypeInv, TypeOK, ReconcileJobs
    <2> QED
      BY <1>3, <2>2
      DEF TypeInv, TypeOK, HandlerOK, ReconcileJobs, JobStatus,
          relayVars, handlerVars, ghosts, bounds
  <1> QED BY <1>1, <1>2, <1>3

LEMMA TypeStutter == ASSUME TypeInv, UNCHANGED vars PROVE TypeInv'
  BY DEF TypeInv, TypeOK, HandlerOK, vars, tables, relayVars, handlerVars, ghosts, bounds

LEMMA TypeStep == TypeInv /\ [Next]_vars => TypeInv'
  <1> SUFFICES ASSUME TypeInv, [Next]_vars PROVE TypeInv'
    OBVIOUS
  <1>1. CASE \E j \in Jobs : Submit(j)
    BY <1>1, TypeSubmit
  <1>2. ASSUME NEW w \in Workers, Consume(w) \/ Handle(w) PROVE TypeInv'
    BY <1>2, TypeParse, TypeTts, TypeStitch, TypeRetryDlq, TypeProcess DEF Consume, Handle
  <1>3. ASSUME NEW w \in Workers, Relay(w) \/ RelayError(w) \/ Crash(w) \/ Restart(w)
        PROVE  TypeInv'
    BY <1>3, TypeRelay, TypeProcess DEF Relay
  <1>4. CASE (\E t \in Tasks : LeaseExpires(t)) \/ ReapLeases \/ ReconcileJobs
    BY <1>4, TypeLease
  <1>5. CASE UNCHANGED vars
    BY <1>5, TypeStutter
  <1> QED BY <1>1, <1>2, <1>3, <1>4, <1>5 DEF Next

\* Every variable keeps its type in every behaviour; in particular no message
\* is retried beyond MAX_RETRIES.
THEOREM TypeCorrect == Spec => []TypeOK
  <1>1. Spec => []TypeInv
    BY TypeInit, TypeStep, PTL DEF Spec
  <1>2. TypeInv => TypeOK
    BY DEF TypeInv
  <1> QED BY <1>1, <1>2, PTL

-----------------------------------------------------------------------------
(***************************************************************************)
(* Where the messages go.                                                  *)
(***************************************************************************)

Accounted == InFlight \cup lost

\* In this step only the messages "new" come into being, all of them under way,
\* and only the messages "gone" stop being accounted for.
Flow(new, gone) ==
  /\ Everywhere' \subseteq Everywhere \cup new
  /\ new \subseteq Accounted'
  /\ Accounted \subseteq Accounted' \cup gone

Retried(m) == [m EXCEPT !.attempt = @ + 1]

\* The places where a message can be, in this state and in the next.
LEMMA Places ==
  /\ \A m : m \in Everywhere <=>
       \/ m \in BagToSet(outbox) \/ m \in BagToSet(queue)
       \/ \E v \in Workers : m \in BagToSet(locked[v]) \/ m \in BagToSet(sent[v])
       \/ \E v \in Workers : msg[v] # NoMsg /\ m = msg[v]
  /\ \A m : m \in Accounted <=>
       \/ m \in BagToSet(outbox) \/ m \in BagToSet(queue) \/ m \in lost
       \/ \E v \in Workers : m \in BagToSet(locked[v])
       \/ \E v \in Workers : /\ pc[v] \notin {"idle", "down", "ack", "dlqAck"}
                             /\ m = msg[v]
  <1>1. \A m : m \in RelayRows <=> \E v \in Workers : m \in BagToSet(locked[v])
    BY DEF RelayRows
  <1>2. \A m : m \in Published <=> \E v \in Workers : m \in BagToSet(sent[v])
    BY DEF Published
  <1>3. \A m : m \in Deliveries <=> \E v \in Workers : msg[v] # NoMsg /\ m = msg[v]
    BY DEF Deliveries
  <1>4. \A m : m \in InHand <=>
          \E v \in Workers : /\ pc[v] \notin {"idle", "down", "ack", "dlqAck"}
                             /\ m = msg[v]
    BY DEF InHand, Busy
  <1> QED BY <1>1, <1>2, <1>3, <1>4 DEF Everywhere, Accounted, InFlight

LEMMA PlacesNext ==
  /\ \A m : m \in Everywhere' <=>
       \/ m \in BagToSet(outbox') \/ m \in BagToSet(queue')
       \/ \E v \in Workers : m \in BagToSet(locked'[v]) \/ m \in BagToSet(sent'[v])
       \/ \E v \in Workers : msg'[v] # NoMsg /\ m = msg'[v]
  /\ \A m : m \in Accounted' <=>
       \/ m \in BagToSet(outbox') \/ m \in BagToSet(queue') \/ m \in lost'
       \/ \E v \in Workers : m \in BagToSet(locked'[v])
       \/ \E v \in Workers : /\ pc'[v] \notin {"idle", "down", "ack", "dlqAck"}
                             /\ m = msg'[v]
  <1>1. \A m : m \in RelayRows' <=> \E v \in Workers : m \in BagToSet(locked'[v])
    BY DEF RelayRows
  <1>2. \A m : m \in Published' <=> \E v \in Workers : m \in BagToSet(sent'[v])
    BY DEF Published
  <1>3. \A m : m \in Deliveries' <=> \E v \in Workers : msg'[v] # NoMsg /\ m = msg'[v]
    BY DEF Deliveries
  <1>4. \A m : m \in InHand' <=>
          \E v \in Workers : /\ pc'[v] \notin {"idle", "down", "ack", "dlqAck"}
                             /\ m = msg'[v]
    BY DEF InHand, Busy
  <1> QED BY <1>1, <1>2, <1>3, <1>4 DEF Everywhere, Accounted, InFlight

LEMMA FlowGoto ==
  ASSUME TypeInv, NEW w \in Workers, NEW label, Goto(w, label), Busy(w),
         UNCHANGED <<outbox, queue, relayVars, msg, lost>>
  PROVE  /\ Flow({}, {msg[w]})
         /\ label \notin {"idle", "down", "ack", "dlqAck"} => Flow({}, {})
  BY Places, PlacesNext DEF Goto, TypeInv, TypeOK, Flow, Busy, relayVars

LEMMA FlowDeliver ==
  ASSUME TypeInv, NEW w \in Workers, NEW m \in BagToSet(queue), NEW stage, NEW label,
         Deliver(w, m, stage, label),
         UNCHANGED <<outbox, relayVars, lost>>
  PROVE  /\ Flow({}, {m})
         /\ label \notin {"idle", "down", "ack", "dlqAck"} => Flow({}, {})
  <1>1. /\ BagToSet(queue') \subseteq BagToSet(queue)
        /\ BagToSet(queue) \subseteq BagToSet(queue') \cup {m}
    BY RemoveDomain DEF Deliver
  <1>2. /\ msg' = [msg EXCEPT ![w] = m] /\ pc' = [pc EXCEPT ![w] = label]
        /\ pc[w] = "idle" /\ msg[w] = NoMsg /\ m # NoMsg
    BY MessageFacts DEF Deliver, Goto, TypeInv, TypeOK, HandlerOK, MessageBag
  <1>3. Everywhere' \subseteq Everywhere
    BY <1>1, <1>2, Places, PlacesNext DEF TypeInv, TypeOK, relayVars
  <1>4. Accounted \subseteq Accounted' \cup {m}
    BY <1>1, <1>2, Places, PlacesNext DEF TypeInv, TypeOK, relayVars
  <1>5. ASSUME label \notin {"idle", "down", "ack", "dlqAck"} PROVE m \in Accounted'
    BY <1>2, <1>5, PlacesNext DEF TypeInv, TypeOK
  <1> QED BY <1>3, <1>4, <1>5 DEF Flow

LEMMA FlowReturn ==
  ASSUME TypeInv, NEW w \in Workers, Return(w),
         UNCHANGED <<outbox, queue, relayVars, lost>>
  PROVE  /\ Flow({}, {msg[w]})
         /\ ~Busy(w) => Flow({}, {})
  BY Places, PlacesNext DEF Return, Goto, TypeInv, TypeOK, Flow, Busy, relayVars

LEMMA FlowStill ==
  ASSUME UNCHANGED <<queue, relayVars, handlerVars, lost>>,
         NEW new, BagToSet(outbox') = BagToSet(outbox) \cup new
  PROVE  Flow(new, {})
  BY Places, PlacesNext DEF Flow, relayVars, handlerVars

-----------------------------------------------------------------------------
(***************************************************************************)
(* Where the messages go, action by action.                                *)
(***************************************************************************)

LEMMA FlowSubmit ==
  ASSUME TypeInv, NEW j \in Jobs, Submit(j) PROVE Flow({Event("parse", j)}, {})
  BY AddDomain, FlowStill DEF Submit, relayVars, handlerVars, ghosts

LEMMA FlowReceive ==
  ASSUME TypeInv, NEW w \in Workers, NEW m \in BagToSet(queue), NEW stage, NEW label,
         Deliver(w, m, stage, label), UNCHANGED <<outbox, relayVars, lost>>
  PROVE  /\ m \in Message /\ m \in Everywhere /\ m.stage = stage
         /\ Flow({}, {m})
         /\ label \notin {"idle", "down", "ack", "dlqAck"} => Flow({}, {})
  BY FlowDeliver, Places DEF Deliver, TypeInv, TypeOK, MessageBag

\* The steps inside a handler that keep the delivery in hand.
LEMMA FlowHandler ==
  ASSUME TypeInv, NEW w \in Workers,
         \/ ParseReject(w) \/ TtsRelease(w) \/ StitchFetch(w) \/ StitchUpload(w)
         \/ RetryAck(w) \/ DlqPublish(w)
  PROVE  Flow({}, {})
  <1> DEFINE Inside(label) ==
        /\ Goto(w, label) /\ label \notin {"idle", "down", "ack", "dlqAck"} /\ Busy(w)
        /\ UNCHANGED <<outbox, queue, relayVars, msg, lost>>
  <1>1. ASSUME NEW label, Inside(label) PROVE Flow({}, {})
    BY <1>1, FlowGoto
  <1>2. CASE ParseReject(w)
    BY <1>1, <1>2 DEF ParseReject, Busy, ghosts
  <1>3. CASE TtsRelease(w)
    BY <1>1, <1>3 DEF TtsRelease, Busy
  <1>4. CASE StitchFetch(w)
    BY <1>1, <1>4 DEF StitchFetch, Busy, ghosts
  <1>5. CASE StitchUpload(w)
    BY <1>1, <1>5 DEF StitchUpload, Busy, ghosts
  <1>6. CASE RetryAck(w)
    <2>1. UNCHANGED <<outbox, queue, relayVars, msg, lost>>
      BY <1>6 DEF RetryAck, ghosts
    <2>2. Goto(w, "dlq") \/ Goto(w, "republish")
      BY <1>6 DEF RetryAck
    <2>3. CASE Busy(w)
      BY <1>1, <2>1, <2>2, <2>3
    <2>4. CASE ~Busy(w)
      <3>1. pc[w] = "dlqAck" /\ msg[w] # NoMsg
        BY <1>6, <2>4 DEF RetryAck, MayFail, Busy, TypeInv, HandlerOK
      <3> QED
        BY <2>1, <2>2, <3>1, Places, PlacesNext
        DEF Goto, Flow, TypeInv, TypeOK, relayVars
    <2> QED BY <2>3, <2>4
  <1>7. CASE DlqPublish(w)
    BY <1>1, <1>7 DEF DlqPublish, Busy, ghosts
  <1> QED BY <1>2, <1>3, <1>4, <1>5, <1>6, <1>7

\* A step of the handler to label that commits events to the outbox.
LEMMA FlowCommit ==
  ASSUME TypeInv, NEW w \in Workers, Goto(w, "ack") \/ Goto(w, "retry"), Busy(w),
         NEW new, BagToSet(outbox') = BagToSet(outbox) \cup new,
         UNCHANGED <<queue, relayVars, msg, lost>>
  PROVE  Flow(new, {msg[w]})
  BY Places, PlacesNext DEF Goto, TypeInv, TypeOK, Flow, Busy, relayVars

LEMMA FlowParseClaim ==
  ASSUME TypeInv, NEW w \in Workers, ParseClaim(w)
  PROVE  LET j == msg[w].of IN
         \/ job[j] = "PENDING" /\ Flow({Event("tts", t) : t \in TasksOf(j)}, {msg[w]})
         \/ job[j] # "PENDING" /\ Flow({}, {msg[w]})
  <1>1. Busy(w) /\ UNCHANGED <<queue, relayVars, msg, lost>>
    BY DEF ParseClaim, Busy, ghosts
  <1>2. CASE job[msg[w].of] = "PENDING"
    <2>1. Goto(w, "ack") \/ Goto(w, "retry")
      BY <1>2 DEF ParseClaim, Commit
    <2>2. BagToSet(outbox') =
            BagToSet(outbox) \cup {Event("tts", t) : t \in TasksOf(msg[w].of)}
      BY <1>2, UnionDomain, SetDomain DEF ParseClaim
    <2> QED BY <1>1, <1>2, <2>1, <2>2, FlowCommit
  <1>3. CASE job[msg[w].of] # "PENDING"
    BY <1>1, <1>3, FlowGoto DEF ParseClaim, relayVars
  <1> QED BY <1>2, <1>3

LEMMA FlowTtsFinish ==
  ASSUME TypeInv, NEW w \in Workers, TtsFinish(w)
  PROVE  LET j == JobOf[msg[w].of] IN
         \/ /\ Remaining(msg[w].of) = {} /\ job[j] = "PROCESSING"
            /\ Flow({Event("stitch", j)}, {msg[w]})
         \/ ~(Remaining(msg[w].of) = {} /\ job[j] = "PROCESSING") /\ Flow({}, {msg[w]})
  <1> DEFINE flipped == Remaining(msg[w].of) = {} /\ job[JobOf[msg[w].of]] = "PROCESSING"
  <1>1. Busy(w) /\ Goto(w, "ack") /\ UNCHANGED <<queue, relayVars, msg, lost>>
    BY DEF TtsFinish, Busy, ghosts
  <1>2. CASE flipped
    <2>1. BagToSet(outbox') = BagToSet(outbox) \cup {Event("stitch", JobOf[msg[w].of])}
      BY <1>2, AddDomain DEF TtsFinish
    <2> QED BY <1>1, <1>2, <2>1, FlowCommit
  <1>3. CASE ~flipped
    BY <1>1, <1>3, FlowGoto DEF TtsFinish
  <1> QED BY <1>2, <1>3

LEMMA FlowStitchComplete ==
  ASSUME TypeInv, NEW w \in Workers, StitchComplete(w) PROVE Flow({}, {msg[w]})
  <1>1. Busy(w) /\ UNCHANGED <<outbox, queue, relayVars, msg, lost>>
    BY DEF StitchComplete, Busy, ghosts
  <1>2. Goto(w, "ack") \/ Goto(w, "retry")
    BY DEF StitchComplete, Commit
  <1> QED BY <1>1, <1>2, FlowGoto

LEMMA FlowRepublish ==
  ASSUME TypeInv, NEW w \in Workers, Republish(w)
  PROVE  Flow({Retried(msg[w])}, {msg[w]})
  <1>1. BagToSet(queue') = BagToSet(queue) \cup {Retried(msg[w])}
    BY AddDomain DEF Republish, Retried
  <1>2. /\ UNCHANGED <<outbox, relayVars, lost>>
        /\ pc' = [pc EXCEPT ![w] = "idle"] /\ msg' = [msg EXCEPT ![w] = NoMsg]
    BY DEF Republish, Return, Goto, ghosts
  <1> QED BY <1>1, <1>2, Places, PlacesNext DEF TypeInv, TypeOK, Flow, relayVars

LEMMA FlowDlqMark ==
  ASSUME TypeInv, NEW w \in Workers, DlqMark(w) PROVE Flow({}, {msg[w]})
  <1>1. Busy(w) /\ UNCHANGED <<outbox, queue, relayVars, lost>>
    BY DEF DlqMark, Busy
  <1>2. CASE msg[w].stage = "stitch"
    BY <1>1, <1>2, FlowReturn DEF DlqMark
  <1>3. CASE msg[w].stage # "stitch"
    BY <1>1, <1>3, FlowGoto DEF DlqMark
  <1> QED BY <1>2, <1>3

LEMMA FlowAck ==
  ASSUME TypeInv, NEW w \in Workers, DlqAck(w) \/ Ack(w) PROVE Flow({}, {})
  BY FlowReturn DEF DlqAck, Ack, Busy, ghosts

LEMMA FlowRollback ==
  ASSUME TypeInv, NEW w \in Workers, Rollback(w)
  PROVE  /\ BagToSet(outbox') = BagToSet(outbox) \cup BagToSet(locked[w]) \cup BagToSet(sent[w])
         /\ locked' = [locked EXCEPT ![w] = EmptyBag]
         /\ sent' = [sent EXCEPT ![w] = EmptyBag]
  BY UnionDomain DEF Rollback

LEMMA FlowRelay ==
  ASSUME TypeInv, NEW w \in Workers,
         RelaySelect(w) \/ RelayPublish(w) \/ RelayCommit(w) \/ RelayError(w)
  PROVE  Flow({}, {})
  <1> USE DEF TypeInv, TypeOK
  <1>1. CASE RelaySelect(w)
    <2>1. PICK batch \in Batches : /\ locked' = [locked EXCEPT ![w] = batch]
                                   /\ outbox' = outbox (-) batch
      BY <1>1 DEF RelaySelect
    <2>2. /\ BagToSet(outbox') \subseteq BagToSet(outbox)
          /\ BagToSet(outbox) \subseteq BagToSet(outbox') \cup BagToSet(batch)
      BY <2>1, DifferenceDomain DEF MessageBag
    <2>3. BagToSet(batch) \subseteq BagToSet(outbox)
      BY DEF Batches, BagToSet, \sqsubseteq
    <2>4. locked[w] = EmptyBag /\ UNCHANGED <<sent, queue, pc, msg, lost>>
      BY <1>1 DEF RelaySelect, RelayIdle, handlerVars, ghosts
    <2> QED BY <2>1, <2>2, <2>3, <2>4, EmptyDomain, Places, PlacesNext DEF Flow
  <1>2. CASE RelayPublish(w)
    <2>1. PICK m \in BagToSet(locked[w]) :
            /\ locked' = [locked EXCEPT ![w] = BagRemove(@, m)]
            /\ sent' = [sent EXCEPT ![w] = BagAdd(@, m)]
            /\ queue' = BagAdd(queue, m)
      BY <1>2 DEF RelayPublish
    <2>2. /\ BagToSet(locked'[w]) \subseteq BagToSet(locked[w])
          /\ BagToSet(locked[w]) \subseteq BagToSet(locked'[w]) \cup {m}
          /\ BagToSet(sent'[w]) = BagToSet(sent[w]) \cup {m}
          /\ BagToSet(queue') = BagToSet(queue) \cup {m}
      BY <2>1, AddDomain, RemoveDomain
    <2>3. UNCHANGED <<outbox, pc, msg, lost>>
      BY <1>2 DEF RelayPublish, handlerVars, ghosts
    <2>4. \A v \in Workers : v # w => locked'[v] = locked[v] /\ sent'[v] = sent[v]
      BY <2>1
    <2> QED BY <2>2, <2>3, <2>4, Places, PlacesNext DEF Flow
  <1>3. CASE RelayCommit(w)
    BY <1>3, EmptyDomain, Places, PlacesNext
    DEF RelayCommit, Flow, handlerVars, ghosts
  <1>4. CASE RelayError(w)
    BY <1>4, FlowRollback, EmptyDomain, Places, PlacesNext
    DEF RelayError, Flow, handlerVars, ghosts
  <1> QED BY <1>1, <1>2, <1>3, <1>4

LEMMA FlowDie ==
  ASSUME TypeInv, NEW w \in Workers, Die(w) PROVE Flow({}, {})
  <1>1. CASE msg[w] = NoMsg \/ acked[w]
    <2>1. BagToSet(queue') = BagToSet(queue)
      BY <1>1 DEF Die
    <2>2. \/ msg[w] \in lost' /\ lost' = lost \cup {msg[w]}
          \/ lost' = lost /\ ~Busy(w)
      BY <1>1 DEF Die, TypeInv, TypeOK, HandlerOK, Busy
    <2> QED
      BY <2>1, <2>2, FlowRollback, EmptyDomain, Places, PlacesNext
      DEF Die, Flow, TypeInv, TypeOK, Busy
  <1>2. CASE msg[w] # NoMsg /\ ~acked[w]
    <2>1. BagToSet(queue') = BagToSet(queue) \cup {msg[w]} /\ lost' = lost
      BY <1>2, AddDomain DEF Die
    <2> QED
      BY <1>2, <2>1, FlowRollback, EmptyDomain, Places, PlacesNext
      DEF Die, Flow, TypeInv, TypeOK
  <1> QED BY <1>1, <1>2

LEMMA FlowRestart ==
  ASSUME TypeInv, NEW w \in Workers, Restart(w) PROVE Flow({}, {})
  BY Places, PlacesNext DEF Restart, Goto, Flow, TypeInv, TypeOK, relayVars, ghosts

LEMMA FlowLease ==
  ASSUME TypeInv
  PROVE  /\ \A t \in Tasks : LeaseExpires(t) => Flow({}, {})
         /\ ReapLeases => Flow({Event("tts", t) : t \in Expired}, {})
         /\ ReconcileJobs => Flow({Event("stitch", j) : j \in Stuck}, {})
  <1>1. ASSUME NEW t \in Tasks, LeaseExpires(t) PROVE Flow({}, {})
    BY <1>1, FlowStill DEF LeaseExpires, relayVars, handlerVars, ghosts
  <1>2. ASSUME ReapLeases PROVE Flow({Event("tts", t) : t \in Expired}, {})
    <2>1. BagToSet(outbox') = BagToSet(outbox) \cup {Event("tts", t) : t \in Expired}
      BY <1>2, UnionDomain, SetDomain DEF ReapLeases
    <2> QED BY <1>2, <2>1, FlowStill DEF ReapLeases, relayVars, handlerVars, ghosts
  <1>3. ASSUME ReconcileJobs PROVE Flow({Event("stitch", j) : j \in Stuck}, {})
    <2>1. BagToSet(outbox') = BagToSet(outbox) \cup {Event("stitch", j) : j \in Stuck}
      BY <1>3, UnionDomain, SetDomain DEF ReconcileJobs
    <2> QED BY <1>3, <2>1, FlowStill DEF ReconcileJobs, relayVars, handlerVars, ghosts
  <1> QED BY <1>1, <1>2, <1>3

\* The steps that create no message.
QuietStep ==
  \/ \E w \in Workers :
       \/ ParseReceive(w) \/ TtsReceive(w) \/ StitchReceive(w)
       \/ ParseReject(w) \/ TtsRelease(w) \/ StitchFetch(w) \/ StitchUpload(w)
       \/ RetryAck(w) \/ DlqPublish(w) \/ StitchComplete(w) \/ DlqMark(w)
       \/ DlqAck(w) \/ Ack(w) \/ DoubleAck(w) \/ Crash(w) \/ Restart(w)
       \/ Relay(w) \/ RelayError(w)
  \/ \E t \in Tasks : LeaseExpires(t)
  \/ UNCHANGED vars

LEMMA StepCases ==
  ASSUME [Next]_vars
  PROVE  \/ \E j \in Jobs : Submit(j)
         \/ \E w \in Workers : ParseClaim(w) \/ TtsFinish(w) \/ Republish(w)
         \/ ReapLeases \/ ReconcileJobs
         \/ QuietStep
  BY DEF Next, Consume, Handle, QuietStep

LEMMA FlowQuiet == ASSUME TypeInv, QuietStep PROVE \E gone : Flow({}, gone)
  <1>1. ASSUME NEW w \in Workers, ParseReceive(w) \/ TtsReceive(w) \/ StitchReceive(w)
        PROVE  \E gone : Flow({}, gone)
    BY <1>1, FlowReceive DEF ParseReceive, TtsReceive, StitchReceive, ghosts
  <1>2. ASSUME NEW w \in Workers,
               \/ ParseReject(w) \/ TtsRelease(w) \/ StitchFetch(w) \/ StitchUpload(w)
               \/ RetryAck(w) \/ DlqPublish(w) \/ StitchComplete(w) \/ DlqMark(w)
               \/ DlqAck(w) \/ Ack(w) \/ DoubleAck(w) \/ Crash(w) \/ Restart(w)
               \/ Relay(w) \/ RelayError(w)
        PROVE  \E gone : Flow({}, gone)
    BY <1>2, FlowHandler, FlowStitchComplete, FlowDlqMark, FlowAck, FlowDie,
       FlowRestart, FlowRelay DEF DoubleAck, Crash, Relay
  <1>3. CASE \E t \in Tasks : LeaseExpires(t)
    BY <1>3, FlowLease
  <1>4. CASE UNCHANGED vars
    <2>1. BagToSet(outbox') = BagToSet(outbox) \cup {}
      BY <1>4 DEF vars
    <2> QED BY <1>4, <2>1, FlowStill DEF vars, relayVars, handlerVars, ghosts
  <1> QED BY <1>1, <1>2, <1>3, <1>4 DEF QuietStep

-----------------------------------------------------------------------------
(***************************************************************************)
(* Nothing a job waits for is dropped.                                     *)
(***************************************************************************)

AwaitsNext(j, stage, x) ==
  \/ job'[j] = "PENDING" /\ stage = "parse" /\ x = j
  \/ job'[j] = "PROCESSING" /\ stage = "tts" /\ x \in TasksOf(j) /\ task'[x] = "PENDING"
  \/ job'[j] = "STITCHING" /\ stage = "stitch" /\ x = j

\* What is waited for after the step was so before it and is not about a message
\* that is gone, or is about a new message.
Handed(new, gone) ==
  \A j \in Jobs, stage \in {"parse", "tts", "stitch"}, x \in Jobs \cup Tasks :
    AwaitsNext(j, stage, x) =>
      \/ Awaits(j, stage, x) /\ \A m \in gone : ~(m.stage = stage /\ m.of = x)
      \/ \E m \in new : m.stage = stage /\ m.of = x

LEMMA CarriedByFlow ==
  ASSUME OnlyAckedCrashStrands, NEW new, NEW gone, Flow(new, gone), Handed(new, gone)
  PROVE  OnlyAckedCrashStrands'
  <1> SUFFICES ASSUME NEW j \in Jobs, NEW stage \in {"parse", "tts", "stitch"},
                      NEW x \in Jobs \cup Tasks, AwaitsNext(j, stage, x)
               PROVE  \E m \in Accounted' : m.stage = stage /\ m.of = x
    BY DEF OnlyAckedCrashStrands, Carried, Accounted, Awaits, AwaitsNext, TasksOf
  <1>1. CASE \E m \in new : m.stage = stage /\ m.of = x
    BY <1>1 DEF Flow
  <1>2. CASE Awaits(j, stage, x) /\ \A m \in gone : ~(m.stage = stage /\ m.of = x)
    <2>1. PICK m \in Accounted : m.stage = stage /\ m.of = x
      BY <1>2 DEF OnlyAckedCrashStrands, Carried, Accounted
    <2> QED BY <1>2, <2>1 DEF Flow
  <1> QED BY <1>1, <1>2 DEF Handed

LEMMA EventFields ==
  \A stage, x : Event(stage, x).stage = stage /\ Event(stage, x).of = x
  BY DEF Event

\* The steps that drop no message and change no status.
LEMMA CarriedUntouched ==
  ASSUME OnlyAckedCrashStrands, Flow({}, {}), UNCHANGED <<job, task>>
  PROVE  OnlyAckedCrashStrands'
  <1>1. Handed({}, {})
    BY DEF Handed, Awaits, AwaitsNext
  <1> QED BY <1>1, CarriedByFlow

\* A delivery that the handler begins to work on stays under way.
LEMMA FlowTake ==
  ASSUME TypeInv, NEW w \in Workers, NEW m \in BagToSet(queue), NEW stage,
         NEW label \in {"parsing", "work", "fetch"},
         Deliver(w, m, stage, label), UNCHANGED <<outbox, relayVars, lost>>
  PROVE  Flow({}, {})
  <1>1. label \notin {"idle", "down", "ack", "dlqAck"}
    OBVIOUS
  <1> QED BY <1>1, FlowReceive

LEMMA CarriedReceive ==
  ASSUME TypeInv, OnlyAckedCrashStrands, NEW w \in Workers,
         ParseReceive(w) \/ TtsReceive(w) \/ StitchReceive(w)
  PROVE  OnlyAckedCrashStrands'
  <1>1. CASE ParseReceive(w)
    <2>1. PICK m \in BagToSet(queue) :
            Deliver(w, m, "parse", IF job[m.of] = "PENDING" THEN "parsing" ELSE "ack")
      BY <1>1 DEF ParseReceive
    <2>2. UNCHANGED <<outbox, relayVars, lost, job, task>>
      BY <1>1 DEF ParseReceive, tables, ghosts
    <2>3. CASE job[m.of] = "PENDING"
      <3>1. Deliver(w, m, "parse", "parsing")
        BY <2>1, <2>3
      <3>2. Flow({}, {})
        BY <2>2, <3>1, FlowTake
      <3> QED BY <2>2, <3>2, CarriedUntouched
    <2>4. CASE job[m.of] # "PENDING"
      <3>1. Deliver(w, m, "parse", "ack")
        BY <2>1, <2>4
      <3>2. Flow({}, {m}) /\ m.stage = "parse"
        BY <2>2, <3>1, FlowReceive
      <3>3. Handed({}, {m})
        BY <2>2, <2>4, <3>2 DEF Handed, Awaits, AwaitsNext
      <3> QED BY <3>2, <3>3, CarriedByFlow
    <2> QED BY <2>3, <2>4
  <1>2. CASE TtsReceive(w)
    <2>1. PICK m \in BagToSet(queue) :
            /\ Deliver(w, m, "tts", IF Claimable(m.of) THEN "work" ELSE "ack")
            /\ IF Claimable(m.of)
               THEN task' = [task EXCEPT ![m.of] = "IN_PROGRESS"]
               ELSE UNCHANGED task
      BY <1>2 DEF TtsReceive
    <2>2. UNCHANGED <<outbox, relayVars, lost, job>>
      BY <1>2 DEF TtsReceive, ghosts
    <2>3. CASE Claimable(m.of)
      <3>1. Deliver(w, m, "tts", "work") /\ task' = [task EXCEPT ![m.of] = "IN_PROGRESS"]
        BY <2>1, <2>3
      <3>2. Flow({}, {})
        BY <2>2, <3>1, FlowTake
      <3>3. Handed({}, {})
        BY <2>2, <3>1 DEF Handed, Awaits, AwaitsNext, TasksOf, TypeInv, TypeOK
      <3> QED BY <3>2, <3>3, CarriedByFlow
    <2>4. CASE ~Claimable(m.of)
      <3>1. Deliver(w, m, "tts", "ack") /\ UNCHANGED task
        BY <2>1, <2>4
      <3>2. Flow({}, {m}) /\ m.stage = "tts"
        BY <2>2, <3>1, FlowReceive
      <3>3. Handed({}, {m})
        BY <2>2, <2>4, <3>1, <3>2 DEF Handed, Awaits, AwaitsNext, Claimable
      <3> QED BY <3>2, <3>3, CarriedByFlow
    <2> QED BY <2>3, <2>4
  <1>3. CASE StitchReceive(w)
    <2>1. PICK m \in BagToSet(queue) :
            Deliver(w, m, "stitch", IF job[m.of] = "STITCHING" THEN "fetch" ELSE "ack")
      BY <1>3 DEF StitchReceive
    <2>2. UNCHANGED <<outbox, relayVars, lost, job, task>>
      BY <1>3 DEF StitchReceive, tables, ghosts
    <2>3. CASE job[m.of] = "STITCHING"
      <3>1. Deliver(w, m, "stitch", "fetch")
        BY <2>1, <2>3
      <3>2. Flow({}, {})
        BY <2>2, <3>1, FlowTake
      <3> QED BY <2>2, <3>2, CarriedUntouched
    <2>4. CASE job[m.of] # "STITCHING"
      <3>1. Deliver(w, m, "stitch", "ack")
        BY <2>1, <2>4
      <3>2. Flow({}, {m}) /\ m.stage = "stitch"
        BY <2>2, <3>1, FlowReceive
      <3>3. Handed({}, {m})
        BY <2>2, <2>4, <3>2 DEF Handed, Awaits, AwaitsNext
      <3> QED BY <3>2, <3>3, CarriedByFlow
    <2> QED BY <2>3, <2>4
  <1> QED BY <1>1, <1>2, <1>3

LEMMA CarriedParseClaim ==
  ASSUME TypeInv, OnlyAckedCrashStrands, NEW w \in Workers, ParseClaim(w)
  PROVE  OnlyAckedCrashStrands'
  <1> DEFINE j == msg[w].of
             events == {Event("tts", t) : t \in TasksOf(j)}
  <1>1. j \in Jobs /\ msg[w].stage = "parse"
    BY MessageFacts DEF ParseClaim, TypeInv, TypeOK, HandlerOK
  <1>2. CASE job[j] = "PENDING"
    <2>1. Flow(events, {msg[w]})
      BY <1>2, FlowParseClaim
    <2>2. /\ job' = [job EXCEPT ![j] = "PROCESSING"]
          /\ task' = [t \in Tasks |-> IF t \in TasksOf(j) THEN "PENDING" ELSE task[t]]
      BY <1>2 DEF ParseClaim
    <2>3. ASSUME NEW t \in TasksOf(j) PROVE \E m \in events : m.stage = "tts" /\ m.of = t
      <3>1. Event("tts", t) \in events
        OBVIOUS
      <3> QED BY <3>1, EventFields
    <2>4. Handed(events, {msg[w]})
      <3> SUFFICES ASSUME NEW i \in Jobs, NEW stage \in {"parse", "tts", "stitch"},
                          NEW x \in Jobs \cup Tasks, AwaitsNext(i, stage, x)
                   PROVE  \/ /\ Awaits(i, stage, x)
                             /\ ~(msg[w].stage = stage /\ msg[w].of = x)
                          \/ \E m \in events : m.stage = stage /\ m.of = x
        BY DEF Handed
      <3>1. CASE i = j
        BY <1>1, <2>2, <2>3, <3>1 DEF AwaitsNext, TypeInv, TypeOK
      <3>2. CASE i # j
        BY <1>1, <2>2, <3>2 DEF Awaits, AwaitsNext, TasksOf, TypeInv, TypeOK
      <3> QED BY <3>1, <3>2
    <2> QED BY <2>1, <2>4, CarriedByFlow
  <1>3. CASE job[j] # "PENDING"
    <2>1. Flow({}, {msg[w]})
      BY <1>3, FlowParseClaim
    <2>2. UNCHANGED <<job, task>>
      BY <1>3 DEF ParseClaim
    <2>3. Handed({}, {msg[w]})
      BY <1>1, <1>3, <2>2 DEF Handed, Awaits, AwaitsNext
    <2> QED BY <2>1, <2>3, CarriedByFlow
  <1> QED BY <1>2, <1>3

LEMMA CarriedTts ==
  ASSUME TypeInv, OnlyAckedCrashStrands, NEW w \in Workers, TtsFinish(w) \/ TtsRelease(w)
  PROVE  OnlyAckedCrashStrands'
  <1> DEFINE t == msg[w].of
             j == JobOf[t]
  <1>1. msg[w].stage = "tts" /\ t \in Tasks /\ j \in Jobs
    BY MessageFacts, ZenonT(40) DEF TtsFinish, TtsRelease, TypeInv, TypeOK, HandlerOK
  <1>2. CASE TtsFinish(w)
    <2>1. task' = [task EXCEPT ![t] = "DONE"]
      BY <1>2 DEF TtsFinish
    <2>2. CASE Remaining(t) = {} /\ job[j] = "PROCESSING"
      <3>1. Flow({Event("stitch", j)}, {msg[w]})
        BY <1>2, <2>2, FlowTtsFinish
      <3>2. job' = [job EXCEPT ![j] = "STITCHING"]
        BY <1>2, <2>2 DEF TtsFinish
      <3>3. Handed({Event("stitch", j)}, {msg[w]})
        BY <1>1, <2>1, <3>2
        DEF Handed, Awaits, AwaitsNext, Event, TasksOf, TypeInv, TypeOK
      <3> QED BY <3>1, <3>3, CarriedByFlow
    <2>3. CASE ~(Remaining(t) = {} /\ job[j] = "PROCESSING")
      <3>1. Flow({}, {msg[w]})
        BY <1>2, <2>3, FlowTtsFinish
      <3>2. UNCHANGED job
        BY <1>2, <2>3 DEF TtsFinish
      <3>3. Handed({}, {msg[w]})
        BY <1>1, <2>1, <3>2 DEF Handed, Awaits, AwaitsNext, TasksOf, TypeInv, TypeOK
      <3> QED BY <3>1, <3>3, CarriedByFlow
    <2> QED BY <2>2, <2>3
  <1>3. CASE TtsRelease(w)
    <2>1. /\ task' = [task EXCEPT ![t] = "PENDING"]
          /\ UNCHANGED <<job, msg>>
          /\ pc' = [pc EXCEPT ![w] = "retry"]
      BY <1>3 DEF TtsRelease, Goto
    <2>2. msg[w] \in Accounted'
      BY <2>1, PlacesNext DEF TypeInv, TypeOK
    <2>3. Flow({msg[w]}, {})
      BY <1>3, <2>2, FlowHandler DEF Flow
    <2>4. Handed({msg[w]}, {})
      BY <1>1, <2>1 DEF Handed, Awaits, AwaitsNext, TypeInv, TypeOK
    <2> QED BY <2>3, <2>4, CarriedByFlow
  <1> QED BY <1>2, <1>3

LEMMA CarriedGivingUp ==
  ASSUME TypeInv, OnlyAckedCrashStrands, NEW w \in Workers,
         StitchComplete(w) \/ Republish(w) \/ DlqMark(w)
  PROVE  OnlyAckedCrashStrands'
  <1>1. CASE StitchComplete(w)
    <2>1. msg[w].stage = "stitch" /\ msg[w].of \in Jobs
      BY <1>1, MessageFacts DEF StitchComplete, TypeInv, TypeOK, HandlerOK
    <2>2. job' = [job EXCEPT ![msg[w].of] = "COMPLETED"] /\ UNCHANGED task
      BY <1>1 DEF StitchComplete
    <2>3. Handed({}, {msg[w]})
      BY <2>1, <2>2 DEF Handed, Awaits, AwaitsNext, TypeInv, TypeOK
    <2> QED BY <1>1, <2>3, FlowStitchComplete, CarriedByFlow
  <1>2. CASE Republish(w)
    <2>1. msg[w] \in Message /\ UNCHANGED <<job, task>>
      BY <1>2 DEF Republish, TypeInv, TypeOK, HandlerOK, tables
    <2>2. Retried(msg[w]).stage = msg[w].stage /\ Retried(msg[w]).of = msg[w].of
      BY <2>1 DEF Retried, Message
    <2>3. Handed({Retried(msg[w])}, {msg[w]})
      BY <2>1, <2>2 DEF Handed, Awaits, AwaitsNext
    <2> QED BY <1>2, <2>3, FlowRepublish, CarriedByFlow
  <1>3. CASE DlqMark(w)
    <2> DEFINE j == JobOfMsg(msg[w])
    <2>1. msg[w] \in Message /\ j \in Jobs
      BY <1>3, MessageFacts DEF DlqMark, TypeInv, TypeOK, HandlerOK
    <2>2. job' = [job EXCEPT ![j] = IF @ = "COMPLETED" THEN @ ELSE "FAILED"]
      BY <1>3 DEF DlqMark
    <2>3. job'[j] \in {"COMPLETED", "FAILED"} /\ \A i \in Jobs : i # j => job'[i] = job[i]
      BY <2>1, <2>2 DEF TypeInv, TypeOK
    <2>4. \A t \in Tasks : task'[t] = task[t] \/ task'[t] = "FAILED"
      BY <1>3 DEF DlqMark, TypeInv, TypeOK
    <2>5. Handed({}, {msg[w]})
      <3> SUFFICES ASSUME NEW i \in Jobs, NEW stage \in {"parse", "tts", "stitch"},
                          NEW x \in Jobs \cup Tasks, AwaitsNext(i, stage, x)
                   PROVE  Awaits(i, stage, x) /\ ~(msg[w].stage = stage /\ msg[w].of = x)
        BY DEF Handed
      <3>1. i # j
        BY <2>3 DEF AwaitsNext
      <3>2. Awaits(i, stage, x)
        BY <2>3, <2>4, <3>1 DEF Awaits, AwaitsNext, TasksOf
      <3>3. ~(msg[w].stage = stage /\ msg[w].of = x)
        BY <3>1, <3>2 DEF Awaits, TasksOf, JobOfMsg
      <3> QED BY <3>2, <3>3
    <2> QED BY <1>3, <2>5, FlowDlqMark, CarriedByFlow
  <1> QED BY <1>1, <1>2, <1>3

LEMMA CarriedSweeps ==
  ASSUME TypeInv, OnlyAckedCrashStrands, ReapLeases \/ ReconcileJobs
  PROVE  OnlyAckedCrashStrands'
  <1>1. CASE ReapLeases
    <2> DEFINE events == {Event("tts", t) : t \in Expired}
    <2>1. Flow(events, {})
      BY <1>1, FlowLease
    <2>2. /\ task' = [t \in Tasks |-> IF t \in Expired THEN "PENDING" ELSE task[t]]
          /\ UNCHANGED job
      BY <1>1 DEF ReapLeases
    <2>3. ASSUME NEW t \in Expired PROVE \E m \in events : m.stage = "tts" /\ m.of = t
      <3>1. Event("tts", t) \in events
        OBVIOUS
      <3> QED BY <3>1, EventFields
    <2>4. Handed(events, {})
      BY <2>2, <2>3 DEF Handed, Awaits, AwaitsNext, TasksOf
    <2> QED BY <2>1, <2>4, CarriedByFlow
  <1>2. CASE ReconcileJobs
    <2> DEFINE events == {Event("stitch", j) : j \in Stuck}
    <2>1. Flow(events, {})
      BY <1>2, FlowLease
    <2>2. /\ job' = [j \in Jobs |-> IF j \in Stuck THEN "STITCHING" ELSE job[j]]
          /\ UNCHANGED task
      BY <1>2 DEF ReconcileJobs
    <2>3. ASSUME NEW j \in Stuck PROVE \E m \in events : m.stage = "stitch" /\ m.of = j
      <3>1. Event("stitch", j) \in events
        OBVIOUS
      <3> QED BY <3>1, EventFields
    <2>4. Handed(events, {})
      BY <2>2, <2>3 DEF Handed, Awaits, AwaitsNext
    <2> QED BY <2>1, <2>4, CarriedByFlow
  <1> QED BY <1>1, <1>2

LEMMA CarriedSubmit ==
  ASSUME TypeInv, OnlyAckedCrashStrands, NEW j \in Jobs, Submit(j)
  PROVE  OnlyAckedCrashStrands'
  <1>1. job' = [job EXCEPT ![j] = "PENDING"] /\ UNCHANGED task
    BY DEF Submit
  <1>2. Handed({Event("parse", j)}, {})
    BY <1>1 DEF Handed, Awaits, AwaitsNext, Event, TypeInv, TypeOK
  <1> QED BY <1>2, FlowSubmit, CarriedByFlow

LEMMA CarriedStep ==
  ASSUME TypeInv, OnlyAckedCrashStrands, [Next]_vars PROVE OnlyAckedCrashStrands'
  <1>1. ASSUME NEW w \in Workers,
               \/ ParseReject(w) \/ StitchFetch(w) \/ StitchUpload(w)
               \/ RetryAck(w) \/ DlqPublish(w) \/ DlqAck(w) \/ Ack(w)
               \/ DoubleAck(w) \/ Crash(w) \/ Restart(w) \/ Relay(w) \/ RelayError(w)
        PROVE  OnlyAckedCrashStrands'
    <2>1. Flow({}, {})
      BY <1>1, FlowHandler, FlowAck, FlowDie, FlowRestart, FlowRelay
      DEF DoubleAck, Crash, Relay
    <2>2. UNCHANGED <<job, task>>
      BY <1>1 DEF ParseReject, StitchFetch, StitchUpload, RetryAck, DlqPublish, DlqAck, Ack,
                  DoubleAck, Crash, Die, Restart, Relay, RelaySelect, RelayPublish,
                  RelayCommit, RelayError, tables
    <2> QED BY <2>1, <2>2, CarriedUntouched
  <1>2. CASE \E t \in Tasks : LeaseExpires(t)
    BY <1>2, FlowLease, CarriedUntouched DEF LeaseExpires
  <1>3. CASE UNCHANGED vars
    <2>1. BagToSet(outbox') = BagToSet(outbox) \cup {}
      BY <1>3 DEF vars
    <2>2. Flow({}, {})
      BY <1>3, <2>1, FlowStill DEF vars, relayVars, handlerVars, ghosts
    <2> QED BY <1>3, <2>2, CarriedUntouched DEF vars, tables
  <1> QED BY <1>1, <1>2, <1>3, CarriedSubmit, CarriedReceive, CarriedParseClaim, CarriedTts,
             CarriedGivingUp, CarriedSweeps
          DEF Next, Consume, Handle

\* parse.py:154, tts.py:239, stitch.py:166: for any number of workers, jobs, tasks,
\* retries, crashes and lost leases, the only place where a work item that a job
\* waits for can get lost is between the early ack and what replaces it.
THEOREM OnlyAckedCrashStrandsCorrect == Spec => []OnlyAckedCrashStrands
  <1>1. Init => OnlyAckedCrashStrands
    BY PipelineAssumption DEF Init, InitJob, OnlyAckedCrashStrands, Awaits, TasksOf
  <1>2. TypeInv /\ OnlyAckedCrashStrands /\ [Next]_vars => OnlyAckedCrashStrands'
    BY CarriedStep
  <1> QED BY <1>1, <1>2, TypeInit, TypeStep, PTL DEF Spec

-----------------------------------------------------------------------------
(***************************************************************************)
(* How the status of a job moves.                                          *)
(***************************************************************************)

Forward(a, b) ==
  \/ a = b
  \/ a = "ABSENT"     /\ b = "PENDING"
  \/ a = "PENDING"    /\ b \in {"PROCESSING", "FAILED"}
  \/ a = "PROCESSING" /\ b \in {"STITCHING", "FAILED"}
  \/ a = "STITCHING"  /\ b \in {"COMPLETED", "FAILED"}
  \/ a = "FAILED"     /\ b = "COMPLETED"

StatusStep == \A j \in Jobs : Forward(job[j], job'[j])

LEMMA EverywhereTyped == ASSUME TypeInv PROVE Everywhere \subseteq Message
  BY Places DEF TypeInv, TypeOK, MessageBag

LEMMA InHandJustified ==
  ASSUME TypeInv, MessagesJustified, NEW w \in Workers, msg[w] # NoMsg
  PROVE  Justified(msg[w]) /\ msg[w] \in Message /\ msg[w] \in Everywhere
  BY Places DEF TypeInv, TypeOK, MessagesJustified

\* The actions that write no job row.
LEMMA JobUntouched ==
  ASSUME NEW w \in Workers,
         \/ ParseReceive(w) \/ ParseReject(w) \/ TtsReceive(w) \/ TtsRelease(w)
         \/ StitchReceive(w) \/ StitchFetch(w) \/ StitchUpload(w)
         \/ RetryAck(w) \/ Republish(w) \/ DlqPublish(w) \/ DlqAck(w) \/ Ack(w)
         \/ DoubleAck(w) \/ Crash(w) \/ Restart(w)
         \/ RelaySelect(w) \/ RelayPublish(w) \/ RelayCommit(w) \/ RelayError(w)
  PROVE  job' = job
  BY DEF ParseReceive, ParseReject, TtsReceive, TtsRelease, StitchReceive, StitchFetch,
         StitchUpload, RetryAck, Republish, DlqPublish, DlqAck, Ack, DoubleAck, Crash, Die,
         Restart, RelaySelect, RelayPublish, RelayCommit, RelayError, tables

LEMMA StatusMoves ==
  ASSUME TypeInv, MessagesJustified, [Next]_vars PROVE StatusStep
  <1> USE DEF StatusStep, Forward
  <1>1. CASE \E j \in Jobs : Submit(j)
    BY <1>1 DEF Submit, TypeInv, TypeOK
  <1>2. ASSUME NEW w \in Workers, ParseClaim(w) PROVE StatusStep
    BY <1>2 DEF ParseClaim, TypeInv, TypeOK
  <1>3. ASSUME NEW w \in Workers, TtsFinish(w) PROVE StatusStep
    BY <1>3 DEF TtsFinish, TypeInv, TypeOK
  <1>4. ASSUME NEW w \in Workers, StitchComplete(w) PROVE StatusStep
    <2>1. job[msg[w].of] \in {"STITCHING", "COMPLETED", "FAILED"}
      BY <1>4, InHandJustified DEF StitchComplete, TypeInv, HandlerOK, Justified
    <2> QED BY <1>4, <2>1 DEF StitchComplete, TypeInv, TypeOK
  <1>5. ASSUME NEW w \in Workers, DlqMark(w) PROVE StatusStep
    <2>1. msg[w] \in Message /\ job[JobOfMsg(msg[w])] # "ABSENT"
      BY <1>5, InHandJustified, MessageFacts
      DEF DlqMark, TypeInv, HandlerOK, Justified, JobOfMsg
    <2>2. job' = [job EXCEPT ![JobOfMsg(msg[w])] = IF @ = "COMPLETED" THEN @ ELSE "FAILED"]
      BY <1>5 DEF DlqMark
    <2> QED BY <2>1, <2>2, MessageFacts DEF TypeInv, TypeOK, JobStatus
  <1>6. CASE ReapLeases \/ \E t \in Tasks : LeaseExpires(t)
    BY <1>6 DEF ReapLeases, LeaseExpires
  <1>7. CASE ReconcileJobs
    BY <1>7 DEF ReconcileJobs, Stuck, TypeInv, TypeOK
  <1>8. CASE UNCHANGED vars
    BY <1>8 DEF vars, tables
  <1> QED BY <1>1, <1>2, <1>3, <1>4, <1>5, <1>6, <1>7, <1>8, JobUntouched
          DEF Next, Consume, Handle, Relay

\* The messages of S match the statuses of the next state.
JustifiedNext(S) ==
  \A m \in S :
    /\ m.stage = "parse" => job'[m.of] # "ABSENT"
    /\ m.stage = "tts" => job'[JobOf[m.of]] \notin {"ABSENT", "PENDING"}
    /\ m.stage = "stitch" => job'[m.of] \in {"STITCHING", "COMPLETED", "FAILED"}

LEMMA JustifiedByFlow ==
  ASSUME TypeInv, TypeInv', MessagesJustified, StatusStep, NEW new, NEW gone, Flow(new, gone),
         JustifiedNext(new)
  PROVE  MessagesJustified'
  <1> SUFFICES ASSUME NEW m \in Everywhere' PROVE Justified(m)'
    BY DEF MessagesJustified
  <1>1. CASE m \in new
    BY <1>1 DEF JustifiedNext, Justified
  <1>2. CASE m \in Everywhere
    <2>1. m \in Message /\ Justified(m)
      BY <1>2, EverywhereTyped DEF MessagesJustified
    <2> QED BY <2>1, MessageFacts DEF Justified, JobOfMsg, StatusStep, Forward
  <1> QED BY <1>1, <1>2 DEF Flow

-----------------------------------------------------------------------------
(***************************************************************************)
(* How the status of a task moves.                                         *)
(***************************************************************************)

\* The task is untouched, or created with its job, or reclaimed by the reaper,
\* or written by a handler of its job; a DONE that is overwritten is recorded.
TaskMove(t) ==
  \/ task'[t] = task[t]
  \/ /\ job[JobOf[t]] = "PENDING" /\ job'[JobOf[t]] = "PROCESSING"
     /\ task'[t] = "PENDING"
  \/ t \in Expired /\ task'[t] = "PENDING"
  \/ /\ job[JobOf[t]] \notin {"ABSENT", "PENDING"}
     /\ task[t] = "DONE" => t \in overwritten'

TaskStep == overwritten \subseteq overwritten' /\ \A t \in Tasks : TaskMove(t)

LEMMA TaskUntouched ==
  ASSUME NEW w \in Workers,
         \/ ParseReceive(w) \/ ParseReject(w)
         \/ StitchReceive(w) \/ StitchFetch(w) \/ StitchUpload(w) \/ StitchComplete(w)
         \/ RetryAck(w) \/ Republish(w) \/ DlqPublish(w) \/ DlqAck(w) \/ Ack(w)
         \/ DoubleAck(w) \/ Crash(w) \/ Restart(w)
         \/ RelaySelect(w) \/ RelayPublish(w) \/ RelayCommit(w) \/ RelayError(w)
  PROVE  task' = task /\ overwritten' = overwritten
  BY DEF ParseReceive, ParseReject, StitchReceive, StitchFetch, StitchUpload,
         StitchComplete, RetryAck, Republish, DlqPublish, DlqAck, Ack, DoubleAck, Crash, Die,
         Restart, RelaySelect, RelayPublish, RelayCommit, RelayError, tables, ghosts

LEMMA TaskMoves ==
  ASSUME TypeInv, MessagesJustified, [Next]_vars PROVE TaskStep
  <1> USE DEF TaskStep, TaskMove
  <1>1. CASE \E j \in Jobs : Submit(j)
    BY <1>1 DEF Submit, ghosts
  <1>2. ASSUME NEW w \in Workers, ParseClaim(w) PROVE TaskStep
    <2>1. msg[w].of \in Jobs
      BY <1>2, MessageFacts DEF ParseClaim, TypeInv, TypeOK, HandlerOK
    <2> QED BY <1>2, <2>1 DEF ParseClaim, TasksOf, ghosts, TypeInv, TypeOK
  <1>3. ASSUME NEW w \in Workers, TtsReceive(w) PROVE TaskStep
    <2>1. PICK m \in BagToSet(queue) :
            /\ Deliver(w, m, "tts", IF Claimable(m.of) THEN "work" ELSE "ack")
            /\ IF Claimable(m.of)
               THEN task' = [task EXCEPT ![m.of] = "IN_PROGRESS"]
               ELSE UNCHANGED task
      BY <1>3 DEF TtsReceive
    <2>2. m.stage = "tts" /\ Justified(m)
      BY <2>1, Places DEF Deliver, MessagesJustified
    <2>3. UNCHANGED <<job, overwritten>>
      BY <1>3 DEF TtsReceive, ghosts
    <2> QED BY <2>1, <2>2, <2>3 DEF Claimable, Justified, TypeInv, TypeOK
  <1>4. ASSUME NEW w \in Workers, TtsFinish(w) \/ TtsRelease(w) PROVE TaskStep
    <2>1. msg[w].stage = "tts" /\ Justified(msg[w])
      BY <1>4, InHandJustified DEF TtsFinish, TtsRelease, TypeInv, HandlerOK
    <2> QED BY <1>4, <2>1 DEF TtsFinish, TtsRelease, Justified, TypeInv, TypeOK, ghosts
  <1>5. ASSUME NEW w \in Workers, DlqMark(w) PROVE TaskStep
    <2>1. CASE msg[w].stage = "tts"
      <3>1. Justified(msg[w])
        BY <1>5, InHandJustified DEF DlqMark, TypeInv, HandlerOK
      <3> QED BY <1>5, <2>1, <3>1 DEF DlqMark, Justified, TypeInv, TypeOK
    <2>2. CASE msg[w].stage # "tts"
      BY <1>5, <2>2 DEF DlqMark
    <2> QED BY <2>1, <2>2
  <1>6. CASE ReapLeases
    BY <1>6 DEF ReapLeases, ghosts
  <1>7. CASE ReconcileJobs \/ (\E t \in Tasks : LeaseExpires(t)) \/ UNCHANGED vars
    BY <1>7 DEF ReconcileJobs, LeaseExpires, ghosts, vars, tables
  <1> QED BY <1>1, <1>2, <1>3, <1>4, <1>5, <1>6, <1>7, TaskUntouched
          DEF Next, Consume, Handle, Relay

-----------------------------------------------------------------------------
(***************************************************************************)
(* Messages match the status of their jobs.                                *)
(***************************************************************************)

LEMMA NoTasksYetStep ==
  ASSUME TypeInv, MessagesJustified, NoTasksYet, [Next]_vars PROVE NoTasksYet'
  BY StatusMoves, TaskMoves, PipelineAssumption
  DEF NoTasksYet, StatusStep, Forward, TaskStep, TaskMove, Expired

LEMMA JustifiedStep ==
  ASSUME TypeInv, TypeInv', MessagesJustified, NoTasksYet, [Next]_vars
  PROVE  MessagesJustified'
  <1>1. StatusStep
    BY StatusMoves
  <1>2. ASSUME NEW j \in Jobs, Submit(j) PROVE MessagesJustified'
    <2>1. JustifiedNext({Event("parse", j)})
      BY <1>2 DEF Submit, JustifiedNext, Event, TypeInv, TypeOK
    <2> QED BY <1>1, <1>2, <2>1, FlowSubmit, JustifiedByFlow
  <1>3. ASSUME NEW w \in Workers, ParseClaim(w) PROVE MessagesJustified'
    <2>1. CASE job[msg[w].of] = "PENDING"
      <3>1. msg[w].of \in Jobs
        BY <1>3, MessageFacts DEF ParseClaim, TypeInv, TypeOK, HandlerOK
      <3>2. JustifiedNext({Event("tts", t) : t \in TasksOf(msg[w].of)})
        BY <1>3, <2>1, <3>1 DEF ParseClaim, JustifiedNext, Event, TasksOf, TypeInv, TypeOK
      <3>3. Flow({Event("tts", t) : t \in TasksOf(msg[w].of)}, {msg[w]})
        BY <1>3, <2>1, FlowParseClaim
      <3> QED BY <1>1, <3>2, <3>3, JustifiedByFlow
    <2>2. CASE job[msg[w].of] # "PENDING"
      <3>1. Flow({}, {msg[w]})
        BY <1>3, <2>2, FlowParseClaim
      <3> QED BY <1>1, <3>1, JustifiedByFlow DEF JustifiedNext
    <2> QED BY <2>1, <2>2
  <1>4. ASSUME NEW w \in Workers, TtsFinish(w) PROVE MessagesJustified'
    <2> DEFINE j == JobOf[msg[w].of]
    <2>1. CASE Remaining(msg[w].of) = {} /\ job[j] = "PROCESSING"
      <3>1. j \in Jobs
        BY <1>4, MessageFacts DEF TtsFinish, TypeInv, TypeOK, HandlerOK
      <3>2. JustifiedNext({Event("stitch", j)})
        BY <1>4, <2>1, <3>1 DEF TtsFinish, JustifiedNext, Event, TypeInv, TypeOK
      <3>3. Flow({Event("stitch", j)}, {msg[w]})
        BY <1>4, <2>1, FlowTtsFinish
      <3> QED BY <1>1, <3>2, <3>3, JustifiedByFlow
    <2>2. CASE ~(Remaining(msg[w].of) = {} /\ job[j] = "PROCESSING")
      <3>1. Flow({}, {msg[w]})
        BY <1>4, <2>2, FlowTtsFinish
      <3> QED BY <1>1, <3>1, JustifiedByFlow DEF JustifiedNext
    <2> QED BY <2>1, <2>2
  <1>5. ASSUME NEW w \in Workers, Republish(w) PROVE MessagesJustified'
    <2>1. Justified(msg[w]) /\ msg[w] \in Message /\ job' = job
      BY <1>5, InHandJustified DEF Republish, TypeInv, HandlerOK, tables
    <2>2. Retried(msg[w]).stage = msg[w].stage /\ Retried(msg[w]).of = msg[w].of
      BY <2>1 DEF Retried, Message
    <2>3. JustifiedNext({Retried(msg[w])})
      BY <2>1, <2>2 DEF Justified, JustifiedNext
    <2> QED BY <1>1, <1>5, <2>3, FlowRepublish, JustifiedByFlow
  <1>6. CASE ReapLeases
    <2>1. JustifiedNext({Event("tts", t) : t \in Expired})
      BY <1>6, PipelineAssumption
      DEF ReapLeases, JustifiedNext, Event, Expired, NoTasksYet, TypeInv, TypeOK
    <2> QED BY <1>1, <1>6, <2>1, FlowLease, JustifiedByFlow
  <1>7. CASE ReconcileJobs
    <2>1. JustifiedNext({Event("stitch", j) : j \in Stuck})
      BY <1>7 DEF ReconcileJobs, JustifiedNext, Event, Stuck, TypeInv, TypeOK
    <2> QED BY <1>1, <1>7, <2>1, FlowLease, JustifiedByFlow
  <1>8. CASE QuietStep
    <2>1. PICK gone : Flow({}, gone)
      BY <1>8, FlowQuiet
    <2>2. JustifiedNext({})
      BY DEF JustifiedNext
    <2> QED BY <1>1, <2>1, <2>2, JustifiedByFlow
  <1> QED BY <1>2, <1>3, <1>4, <1>5, <1>6, <1>7, <1>8, StepCases

LEMMA EverywhereInit == Init => Everywhere = {}
  BY EmptyDomain DEF Init, Everywhere, RelayRows, Published, Deliveries

Statuses == TypeInv /\ MessagesJustified /\ NoTasksYet

LEMMA StatusesInit == Init => Statuses
  BY TypeInit, EverywhereInit, PipelineAssumption
  DEF Statuses, MessagesJustified, NoTasksYet, Init, InitJob

LEMMA StatusesStep == Statuses /\ [Next]_vars => Statuses'
  BY TypeStep, JustifiedStep, NoTasksYetStep DEF Statuses

\* How a handler gets to a label: it stays there with its delivery, or comes there
\* by the action named.
LabelMove(w) ==
  /\ pc'[w] = "work" => (pc[w] = "work" /\ msg'[w] = msg[w]) \/ TtsReceive(w)
  /\ pc'[w] = "upload" =>
       \/ pc[w] = "upload" /\ msg'[w] = msg[w] /\ chunks'[w] = chunks[w]
       \/ StitchFetch(w)
  /\ pc'[w] = "complete" => (pc[w] = "complete" /\ msg'[w] = msg[w]) \/ StitchUpload(w)
  /\ pc'[w] = "dlqMark" => (pc[w] = "dlqMark" /\ msg'[w] = msg[w]) \/ DlqPublish(w)

LEMMA LabelMoves == ASSUME TypeInv, [Next]_vars, NEW w \in Workers PROVE LabelMove(w)
  <1> USE DEF LabelMove, TypeInv, TypeOK
  <1>1. ASSUME NEW v \in Workers, Consume(v) PROVE LabelMove(w)
    BY <1>1 DEF Consume, ParseReceive, TtsReceive, StitchReceive, Deliver, Goto
  <1>2. ASSUME NEW v \in Workers,
               ParseReject(v) \/ ParseClaim(v) \/ TtsFinish(v) \/ TtsRelease(v)
        PROVE  LabelMove(w)
    BY <1>2 DEF ParseReject, ParseClaim, TtsFinish, TtsRelease, Goto, Commit
  <1>3. ASSUME NEW v \in Workers, StitchFetch(v) \/ StitchUpload(v) \/ StitchComplete(v)
        PROVE  LabelMove(w)
    BY <1>3 DEF StitchFetch, StitchUpload, StitchComplete, Goto, Commit
  <1>4. ASSUME NEW v \in Workers,
               \/ RetryAck(v) \/ Republish(v) \/ DlqPublish(v) \/ DlqMark(v)
               \/ DlqAck(v) \/ Ack(v)
        PROVE  LabelMove(w)
    BY <1>4 DEF RetryAck, Republish, DlqPublish, DlqMark, DlqAck, Ack, Goto, Return
  <1>5. ASSUME NEW v \in Workers, DoubleAck(v) \/ Crash(v) \/ Restart(v) PROVE LabelMove(w)
    BY <1>5 DEF DoubleAck, Crash, Die, Restart, Goto
  <1>6. ASSUME NEW v \in Workers, Relay(v) \/ RelayError(v) PROVE LabelMove(w)
    BY <1>6 DEF Relay, RelaySelect, RelayPublish, RelayCommit, RelayError, handlerVars
  <1>7. CASE \/ \E j \in Jobs : Submit(j)
             \/ \E t \in Tasks : LeaseExpires(t)
             \/ ReapLeases \/ ReconcileJobs \/ UNCHANGED vars
    BY <1>7 DEF Submit, LeaseExpires, ReapLeases, ReconcileJobs, vars, handlerVars
  <1> QED BY <1>1, <1>2, <1>3, <1>4, <1>5, <1>6, <1>7 DEF Next, Handle

=============================================================================
