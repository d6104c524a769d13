-------------------------- MODULE LifecycleProofs ---------------------------
(***************************************************************************)
(* No job is left PROCESSING with all its chunks DONE; what a COMPLETED    *)
(* job delivers; a claim is exclusive while no lease runs out under its    *)
(* holder; a failure has its dead letter; Pipeline implements JobLifecycle;*)
(* without faults no work item has two messages; and the whole invariant of*)
(* Pipeline is inductive.                                                  *)
(***************************************************************************)
EXTENDS PipelineProofs

-----------------------------------------------------------------------------
(***************************************************************************)
(* The completion check misses no last chunk.                              *)
(***************************************************************************)

\* Only the completion transaction makes a task DONE, only the parse transaction
\* makes a job PROCESSING.
DoneKept    == \A t \in Tasks : task'[t] = "DONE" => task[t] = "DONE"
StartedKept == \A j \in Jobs : job'[j] = "PROCESSING" => job[j] = "PROCESSING"

LEMMA NoWedgeKept ==
  ASSUME NoWedge, DoneKept, StartedKept PROVE NoWedge'
  BY DEF NoWedge, DoneKept, StartedKept, TasksOf

LEMMA NoWedgeParseClaim ==
  ASSUME TypeInv, NoWedge, NEW w \in Workers, ParseClaim(w) PROVE NoWedge'
  <1>1. msg[w].of \in Jobs \ Unparseable
    BY MessageFacts DEF ParseClaim, TypeInv, TypeOK, HandlerOK
  <1>2. CASE job[msg[w].of] = "PENDING"
    <2>1. /\ job' = [job EXCEPT ![msg[w].of] = "PROCESSING"]
          /\ task' = [t \in Tasks |-> IF t \in TasksOf(msg[w].of) THEN "PENDING" ELSE task[t]]
      BY <1>2 DEF ParseClaim
    <2>2. TasksOf(msg[w].of) # {}
      BY <1>1, PipelineAssumption
    <2> QED BY <1>1, <2>1, <2>2 DEF NoWedge, TasksOf, TypeInv, TypeOK
  <1>3. CASE job[msg[w].of] # "PENDING"
    BY <1>3 DEF ParseClaim, NoWedge
  <1> QED BY <1>2, <1>3

LEMMA NoWedgeTtsFinish ==
  ASSUME TypeInv, NoWedge, NEW w \in Workers, TtsFinish(w) PROVE NoWedge'
  <1> DEFINE t == msg[w].of
             j == JobOf[t]
  <1>1. t \in Tasks /\ j \in Jobs
    BY MessageFacts DEF TtsFinish, TypeInv, TypeOK, HandlerOK
  <1>2. task' = [task EXCEPT ![t] = "DONE"]
    BY DEF TtsFinish
  <1>3. CASE Remaining(t) = {} /\ job[j] = "PROCESSING"
    <2>1. job' = [job EXCEPT ![j] = "STITCHING"]
      BY <1>3 DEF TtsFinish
    <2> QED BY <1>1, <1>2, <2>1 DEF NoWedge, TasksOf, TypeInv, TypeOK
  <1>4. CASE ~(Remaining(t) = {} /\ job[j] = "PROCESSING")
    <2>1. job' = job
      BY <1>4 DEF TtsFinish
    <2>2. job[j] = "PROCESSING" => \E u \in TasksOf(j) : u # t /\ task[u] # "DONE"
      BY <1>4 DEF Remaining
    <2> QED BY <1>1, <1>2, <2>1, <2>2 DEF NoWedge, TasksOf, TypeInv, TypeOK
  <1> QED BY <1>3, <1>4

LEMMA NoWedgeStep ==
  ASSUME TypeInv, NoWedge, [Next]_vars PROVE NoWedge'
  <1>1. ASSUME NEW w \in Workers, Handle(w), ~ParseClaim(w), ~TtsFinish(w)
        PROVE  DoneKept /\ StartedKept
    <2>1. CASE TtsRelease(w)
      BY <2>1 DEF TtsRelease, DoneKept, StartedKept, TypeInv, TypeOK
    <2>2. CASE StitchComplete(w)
      BY <2>2 DEF StitchComplete, DoneKept, StartedKept, TypeInv, TypeOK
    <2>3. CASE DlqMark(w)
      BY <2>3 DEF DlqMark, DoneKept, StartedKept, TypeInv, TypeOK
    <2> QED BY <1>1, <2>1, <2>2, <2>3, JobUntouched, TaskUntouched
            DEF Handle, DoneKept, StartedKept
  <1>2. ASSUME NEW w \in Workers,
               Consume(w) \/ Relay(w) \/ RelayError(w) \/ Crash(w) \/ Restart(w)
        PROVE  DoneKept /\ StartedKept
    <2>1. CASE TtsReceive(w)
      BY <2>1 DEF TtsReceive, Claimable, DoneKept, StartedKept, TypeInv, TypeOK
    <2> QED BY <1>2, <2>1, JobUntouched, TaskUntouched
            DEF Consume, Relay, DoneKept, StartedKept
  <1>3. CASE \/ \E j \in Jobs : Submit(j)
             \/ \E t \in Tasks : LeaseExpires(t)
             \/ ReapLeases \/ ReconcileJobs \/ UNCHANGED vars
    <2>1. DoneKept /\ StartedKept
      BY <1>3 DEF Submit, LeaseExpires, ReapLeases, ReconcileJobs, vars, tables,
                  DoneKept, StartedKept, TypeInv, TypeOK
    <2> QED BY <2>1, NoWedgeKept
  <1> QED BY <1>1, <1>2, <1>3, NoWedgeKept, NoWedgeParseClaim, NoWedgeTtsFinish DEF Next

\* tts.py:173-201: whatever the order in which the handlers of a job commit, the
\* last chunk to become DONE takes the job out of PROCESSING.
THEOREM NoWedgeCorrect == Spec => []NoWedge
  <1>1. Init => NoWedge
    BY DEF Init, InitJob, NoWedge
  <1>2. TypeInv /\ NoWedge /\ [Next]_vars => NoWedge'
    BY NoWedgeStep
  <1> QED BY <1>1, <1>2, TypeInit, TypeStep, PTL DEF Spec


-----------------------------------------------------------------------------
(***************************************************************************)
(* What is delivered.                                                      *)
(***************************************************************************)

\* A chunk that was DONE is so, or is recorded.
AssembledNext(j) == \A t \in TasksOf(j) : task'[t] = "DONE" \/ t \in overwritten'

LEMMA AssembledKept ==
  ASSUME Statuses, [Next]_vars, NEW j \in Jobs, Assembled(j) PROVE AssembledNext(j)
  BY TaskMoves
  DEF Assembled, AssembledNext, Statuses, NoTasksYet, TaskStep, TaskMove, Expired, TasksOf

\* The two places where a stitch is asked for.
LEMMA AssembledFinish ==
  ASSUME Statuses, NEW w \in Workers, TtsFinish(w), Remaining(msg[w].of) = {}
  PROVE  AssembledNext(JobOf[msg[w].of])
  <1>1. task' = [task EXCEPT ![msg[w].of] = "DONE"]
    BY DEF TtsFinish
  <1> QED BY <1>1 DEF AssembledNext, Remaining, TasksOf, Statuses, TypeInv, TypeOK

LEMMA AssembledReconcile ==
  ASSUME Statuses, ReconcileJobs, NEW j \in Stuck PROVE AssembledNext(j)
  BY DEF ReconcileJobs, AssembledNext, Stuck

LEMMA StatusAssembled ==
  ASSUME Statuses, AskedIsAssembled, [Next]_vars,
         NEW j \in Jobs, job'[j] \in {"STITCHING", "COMPLETED"}
  PROVE  AssembledNext(j)
  <1>1. CASE job[j] \in {"STITCHING", "COMPLETED"}
    BY <1>1, AssembledKept DEF AskedIsAssembled
  <1>2. CASE job[j] \notin {"STITCHING", "COMPLETED"}
    <2>1. ASSUME NEW w \in Workers, TtsFinish(w) PROVE AssembledNext(j)
      <3>1. Remaining(msg[w].of) = {} /\ j = JobOf[msg[w].of]
        BY <1>2, <2>1 DEF TtsFinish, Statuses, TypeInv, TypeOK
      <3> QED BY <2>1, <3>1, AssembledFinish
    <2>2. CASE ReconcileJobs
      <3>1. j \in Stuck
        BY <1>2, <2>2 DEF ReconcileJobs
      <3> QED BY <2>2, <3>1, AssembledReconcile
    <2>3. ASSUME NEW w \in Workers, StitchComplete(w) PROVE AssembledNext(j)
      <3>1. j = msg[w].of /\ msg[w].stage = "stitch" /\ msg[w] # NoMsg
        BY <1>2, <2>3 DEF StitchComplete, Statuses, TypeInv, TypeOK, HandlerOK
      <3>2. Assembled(j)
        BY <3>1, InHandJustified DEF Statuses, AskedIsAssembled
      <3> QED BY <3>2, AssembledKept
    <2>4. CASE \/ \E i \in Jobs : Submit(i)
               \/ \E w \in Workers : ParseClaim(w) \/ DlqMark(w)
               \/ ReapLeases \/ \E t \in Tasks : LeaseExpires(t)
               \/ UNCHANGED vars
      BY <1>2, <2>4, ZenonT(40) DEF Submit, ParseClaim, DlqMark, ReapLeases, LeaseExpires, vars, tables,
                        Statuses, TypeInv, TypeOK
    <2> QED BY <1>2, <2>1, <2>2, <2>3, <2>4, JobUntouched DEF Next, Consume, Handle, Relay
  <1> QED BY <1>1, <1>2

LEMMA MessageAssembled ==
  ASSUME Statuses, AskedIsAssembled, [Next]_vars,
         NEW m \in Everywhere', m.stage = "stitch"
  PROVE  AssembledNext(m.of)
  <1>1. ASSUME m \in Everywhere PROVE AssembledNext(m.of)
    <2>1. m.of \in Jobs /\ Assembled(m.of)
      BY <1>1, EverywhereTyped, MessageFacts DEF Statuses, AskedIsAssembled
    <2> QED BY <2>1, AssembledKept
  <1>2. TypeInv
    BY DEF Statuses
  <1>3. ASSUME NEW j \in Jobs, Submit(j) PROVE AssembledNext(m.of)
    <2>1. Flow({Event("parse", j)}, {})
      BY <1>2, <1>3, FlowSubmit
    <2> QED BY <1>1, <2>1, EventFields DEF Flow
  <1>4. ASSUME NEW w \in Workers, ParseClaim(w) PROVE AssembledNext(m.of)
    <2>1. \/ Flow({Event("tts", t) : t \in TasksOf(msg[w].of)}, {msg[w]})
          \/ Flow({}, {msg[w]})
      BY <1>2, <1>4, FlowParseClaim
    <2> QED BY <1>1, <2>1, EventFields DEF Flow
  <1>5. ASSUME NEW w \in Workers, TtsFinish(w) PROVE AssembledNext(m.of)
    <2>1. CASE Remaining(msg[w].of) = {} /\ job[JobOf[msg[w].of]] = "PROCESSING"
      <3>1. Flow({Event("stitch", JobOf[msg[w].of])}, {msg[w]})
        BY <1>2, <1>5, <2>1, FlowTtsFinish
      <3>2. AssembledNext(JobOf[msg[w].of])
        BY <1>5, <2>1, AssembledFinish
      <3> QED BY <1>1, <3>1, <3>2, EventFields DEF Flow
    <2>2. CASE ~(Remaining(msg[w].of) = {} /\ job[JobOf[msg[w].of]] = "PROCESSING")
      <3>1. Flow({}, {msg[w]})
        BY <1>2, <1>5, <2>2, FlowTtsFinish
      <3> QED BY <1>1, <3>1 DEF Flow
    <2> QED BY <2>1, <2>2
  <1>6. ASSUME NEW w \in Workers, Republish(w) PROVE AssembledNext(m.of)
    <2>1. msg[w] \in Message /\ msg[w] \in Everywhere
      BY <1>2, <1>6, InHandJustified DEF Republish, Statuses, TypeInv, HandlerOK
    <2>2. Retried(msg[w]).stage = msg[w].stage /\ Retried(msg[w]).of = msg[w].of
      BY <2>1 DEF Retried, Message
    <2>3. m = Retried(msg[w]) => AssembledNext(m.of)
      <3> SUFFICES ASSUME m = Retried(msg[w]) PROVE AssembledNext(m.of)
        OBVIOUS
      <3>1. msg[w].of \in Jobs /\ Assembled(msg[w].of)
        BY <2>1, <2>2, MessageFacts DEF AskedIsAssembled
      <3> QED BY <2>2, <3>1, AssembledKept
    <2> QED BY <1>1, <1>2, <1>6, <2>3, FlowRepublish DEF Flow
  <1>7. CASE ReapLeases
    <2>1. Flow({Event("tts", t) : t \in Expired}, {})
      BY <1>2, <1>7, FlowLease
    <2> QED BY <1>1, <2>1, EventFields DEF Flow
  <1>8. CASE ReconcileJobs
    <2>1. Flow({Event("stitch", j) : j \in Stuck}, {})
      BY <1>2, <1>8, FlowLease
    <2>2. m \in Everywhere \/ \E j \in Stuck : m = Event("stitch", j)
      BY <2>1 DEF Flow
    <2> QED BY <1>1, <1>8, <2>2, AssembledReconcile, EventFields
  <1>9. CASE QuietStep
    BY <1>1, <1>2, <1>9, FlowQuiet DEF Flow
  <1> QED BY <1>3, <1>4, <1>5, <1>6, <1>7, <1>8, <1>9, StepCases

LEMMA AskedStep ==
  ASSUME Statuses, AskedIsAssembled, [Next]_vars PROVE AskedIsAssembled'
  <1>1. \A j \in Jobs : job'[j] \in {"STITCHING", "COMPLETED"} => AssembledNext(j)
    BY StatusAssembled
  <1>2. \A m \in Everywhere' : m.stage = "stitch" => AssembledNext(m.of)
    BY MessageAssembled
  <1> QED BY <1>1, <1>2 DEF AskedIsAssembled, Assembled, AssembledNext

\* The audio in hand and the audio uploaded: written by the stitch handler only.
LEMMA FinalMoves ==
  ASSUME [Next]_vars
  PROVE  \/ final' = final
         \/ \E w \in Workers : /\ StitchUpload(w)
                               /\ final' = [final EXCEPT ![msg[w].of] = chunks[w]]
  BY ZenonT(40) DEF Next, Submit, Consume, Handle, Relay, ParseReceive, ParseReject, ParseClaim,
         TtsReceive, TtsFinish, TtsRelease, StitchReceive, StitchFetch, StitchUpload,
         StitchComplete, RetryAck, Republish, DlqPublish, DlqMark, DlqAck, DoubleAck, Ack,
         RelaySelect, RelayPublish, RelayCommit, RelayError, Crash, Die, Restart,
         LeaseExpires, ReapLeases, ReconcileJobs, vars

LEMMA AudioStep ==
  ASSUME Statuses, AskedIsAssembled, AudioIsExcused, [Next]_vars PROVE AudioIsExcused'
  <1>1. TypeInv /\ overwritten \subseteq overwritten'
    BY TaskMoves DEF Statuses, TaskStep
  <1>2. ASSUME NEW w \in Workers, pc'[w] = "upload"
        PROVE  TasksOf(msg'[w].of) \ chunks'[w] \subseteq overwritten' /\ chunks'[w] # {}
    <2>1. CASE pc[w] = "upload" /\ msg'[w] = msg[w] /\ chunks'[w] = chunks[w]
      BY <1>1, <2>1 DEF AudioIsExcused, Excused
    <2>2. CASE StitchFetch(w)
      <3>1. msg[w].of \in Jobs /\ Assembled(msg[w].of)
        <4>1. msg[w].stage = "stitch" /\ msg[w] # NoMsg
          BY <1>1, <2>2 DEF StitchFetch, TypeInv, HandlerOK
        <4> QED BY <1>1, <4>1, InHandJustified, MessageFacts DEF Statuses, AskedIsAssembled
      <3>2. /\ chunks'[w] = {t \in TasksOf(msg[w].of) : task[t] = "DONE"} /\ chunks'[w] # {}
            /\ msg' = msg
        BY <1>1, <2>2 DEF StitchFetch, TypeInv, TypeOK
      <3> QED BY <1>1, <3>1, <3>2 DEF Assembled
    <2> QED BY <1>1, <1>2, <2>1, <2>2, LabelMoves DEF LabelMove
  <1>3. ASSUME NEW j \in Jobs, final'[j] # {}
        PROVE  TasksOf(j) \ final'[j] \subseteq overwritten'
    <2>1. CASE final' = final
      BY <1>1, <1>3, <2>1 DEF AudioIsExcused, Excused
    <2>2. ASSUME NEW w \in Workers, StitchUpload(w),
                 final' = [final EXCEPT ![msg[w].of] = chunks[w]]
          PROVE  TasksOf(j) \ final'[j] \subseteq overwritten'
      <3>1. Excused(msg[w].of, chunks[w])
        BY <2>2 DEF StitchUpload, AudioIsExcused
      <3>2. CASE j = msg[w].of
        BY <1>1, <2>2, <3>1, <3>2 DEF Excused, TypeInv, TypeOK
      <3>3. CASE j # msg[w].of
        BY <1>1, <1>3, <2>2, <3>3 DEF AudioIsExcused, Excused, TypeInv, TypeOK
      <3> QED BY <3>2, <3>3
    <2> QED BY <2>1, <2>2, FinalMoves
  <1> QED BY <1>2, <1>3 DEF AudioIsExcused, Excused

LEMMA ThereStep ==
  ASSUME Statuses, AudioIsExcused, AudioIsThere, [Next]_vars PROVE AudioIsThere'
  <1>1. TypeInv /\ StatusStep
    BY StatusMoves DEF Statuses
  <1>2. \A j \in Jobs : final[j] # {} => final'[j] # {}
    BY <1>1, FinalMoves DEF StitchUpload, AudioIsExcused, TypeInv, TypeOK
  <1>3. ASSUME NEW w \in Workers, pc'[w] = "complete" PROVE final'[msg'[w].of] # {}
    <2>1. CASE pc[w] = "complete" /\ msg'[w] = msg[w]
      <3>1. msg[w].of \in Jobs
        BY <1>1, <2>1, MessageFacts DEF TypeInv, TypeOK, HandlerOK
      <3> QED BY <1>2, <2>1, <3>1 DEF AudioIsThere
    <2>2. CASE StitchUpload(w)
      <3>1. msg[w].of \in Jobs
        BY <1>1, <2>2, MessageFacts DEF StitchUpload, TypeInv, TypeOK, HandlerOK
      <3> QED BY <1>1, <2>2, <3>1 DEF StitchUpload, AudioIsExcused, TypeInv, TypeOK
    <2> QED BY <1>1, <1>3, <2>1, <2>2, LabelMoves DEF LabelMove
  <1>4. ASSUME NEW j \in Jobs, job'[j] = "COMPLETED" PROVE final'[j] # {}
    <2>1. CASE job[j] = "COMPLETED"
      BY <1>2, <2>1 DEF AudioIsThere
    <2>2. ASSUME NEW w \in Workers, StitchComplete(w), j = msg[w].of PROVE final'[j] # {}
      BY <1>2, <2>2 DEF StitchComplete, AudioIsThere
    <2>3. job[j] = "COMPLETED" \/ \E w \in Workers : StitchComplete(w) /\ j = msg[w].of
      <3>1. CASE \E w \in Workers : StitchComplete(w)
        BY <1>1, <1>4, <3>1 DEF StitchComplete, TypeInv, TypeOK
      <3>2. ASSUME \/ \E i \in Jobs : Submit(i)
                   \/ \E w \in Workers : ParseClaim(w) \/ TtsFinish(w)
            PROVE  job[j] = "COMPLETED"
        <4>1. ASSUME NEW i \in Jobs, Submit(i) PROVE job[j] = "COMPLETED"
          BY <1>1, <1>4, <4>1 DEF Submit, TypeInv, TypeOK
        <4>2. ASSUME NEW w \in Workers, ParseClaim(w) PROVE job[j] = "COMPLETED"
          BY <1>1, <1>4, <4>2 DEF ParseClaim, TypeInv, TypeOK
        <4>3. ASSUME NEW w \in Workers, TtsFinish(w) PROVE job[j] = "COMPLETED"
          BY <1>1, <1>4, <4>3 DEF TtsFinish, TypeInv, TypeOK
        <4> QED BY <3>2, <4>1, <4>2, <4>3
      <3>3. ASSUME NEW w \in Workers, DlqMark(w) PROVE job[j] = "COMPLETED"
        BY <1>1, <1>4, <3>3 DEF DlqMark, TypeInv, TypeOK
      <3>4. CASE ReapLeases \/ (\E t \in Tasks : LeaseExpires(t)) \/ UNCHANGED vars
        BY <1>4, <3>4 DEF ReapLeases, LeaseExpires, vars, tables
      <3>5. CASE ReconcileJobs
        BY <1>4, <3>5 DEF ReconcileJobs
      <3> QED BY <1>4, <3>1, <3>2, <3>3, <3>4, <3>5, JobUntouched DEF Next, Consume, Handle, Relay
    <2> QED BY <2>1, <2>2, <2>3
  <1>5. ASSUME NEW j \in Jobs, final'[j] # {}
        PROVE  job'[j] \in {"STITCHING", "COMPLETED", "FAILED"}
    <2>1. CASE final[j] # {}
      BY <1>1, <2>1 DEF AudioIsThere, StatusStep, Forward
    <2>2. CASE final[j] = {}
      <3>1. PICK w \in Workers : StitchUpload(w) /\ j = msg[w].of
        BY <1>1, <1>5, <2>2, FinalMoves DEF TypeInv, TypeOK
      <3>2. msg[w].stage = "stitch" /\ msg[w] # NoMsg
        BY <1>1, <3>1 DEF StitchUpload, TypeInv, HandlerOK
      <3>3. job[j] \in {"STITCHING", "COMPLETED", "FAILED"}
        BY <3>1, <3>2, InHandJustified DEF Statuses, Justified
      <3> QED BY <1>1, <3>3 DEF StatusStep, Forward
    <2> QED BY <2>1, <2>2
  <1> QED BY <1>3, <1>4, <1>5 DEF AudioIsThere

LEMMA StitchInvCorrect == Spec => [](Statuses /\ StitchInv)
  <1>1. Init => StitchInv
    BY EverywhereInit
    DEF Init, InitJob, StitchInv, AskedIsAssembled, AudioIsExcused, AudioIsThere
  <1>2. Statuses /\ StitchInv /\ [Next]_vars => StitchInv'
    BY AskedStep, AudioStep, ThereStep DEF StitchInv
  <1> QED BY <1>1, <1>2, StatusesInit, StatusesStep, PTL DEF Spec

\* stitch.py:49-78 with tts.py:148-157 and 260-281: whatever is redelivered, retried,
\* reaped or crashed, a COMPLETED drama lacks no chunk but one whose DONE was
\* overwritten by a handler that had lost its lease.
THEOREM IncompleteOnlyIfOverwrittenCorrect == Spec => []IncompleteOnlyIfOverwritten
  <1>1. StitchInv => IncompleteOnlyIfOverwritten
    BY DEF StitchInv, AudioIsExcused, AudioIsThere, Excused, IncompleteOnlyIfOverwritten
  <1> QED BY <1>1, StitchInvCorrect, PTL

-----------------------------------------------------------------------------
(***************************************************************************)
(* The claim of a TTS task is exclusive as long as no lease runs out under *)
(* its holder.                                                             *)
(***************************************************************************)

AtWorkOn(w, t) == pc[w] = "work" /\ msg[w].of = t

\* What the claim of a task at work looks like after the step.
HeldNext(t) ==
  \/ task'[t] = "IN_PROGRESS" /\ lease'[t] = "live"
  \/ task'[t] = "FAILED"

\* No claim is handed out in this step, and those at work keep theirs.
WorkStill ==
  \A w \in Workers : pc'[w] = "work" =>
    pc[w] = "work" /\ msg'[w] = msg[w] /\ HeldNext(msg[w].of)

LEMMA WorkKept ==
  ASSUME WorkInv, early = 0, WorkStill PROVE WorkInv'
  BY DEF WorkInv, TaskMutex, WorkStill, HeldNext

LEMMA WorkFacts ==
  ASSUME TypeInv, WorkInv, early = 0
  PROVE  /\ \A w \in Workers : pc[w] = "work" =>
              /\ msg[w].of \in Tasks
              /\ \/ task[msg[w].of] = "IN_PROGRESS" /\ lease[msg[w].of] = "live"
                 \/ task[msg[w].of] = "FAILED"
         /\ \A v, w \in Workers :
              pc[v] = "work" /\ pc[w] = "work" /\ msg[v].of = msg[w].of => v = w
  <1>1. \A w \in Workers : pc[w] = "work" => msg[w] \in Message /\ msg[w].stage = "tts"
    BY DEF TypeInv, TypeOK, HandlerOK
  <1>2. \A w \in Workers : pc[w] = "work" => msg[w].of \in Tasks
    BY <1>1, MessageFacts
  <1> QED BY <1>2 DEF WorkInv, TaskMutex

\* A task that somebody works on cannot be claimed.
LEMMA WorkReceive ==
  ASSUME TypeInv, WorkInv, early = 0, NEW v \in Workers, TtsReceive(v) PROVE WorkInv'
  <1>1. PICK m \in BagToSet(queue) :
          /\ Deliver(v, m, "tts", IF Claimable(m.of) THEN "work" ELSE "ack")
          /\ IF Claimable(m.of)
             THEN /\ task' = [task EXCEPT ![m.of] = "IN_PROGRESS"]
                  /\ lease' = [lease EXCEPT ![m.of] = "live"]
             ELSE UNCHANGED <<task, lease>>
    BY DEF TtsReceive
  <1>2. m.of \in Tasks /\ pc[v] = "idle"
    BY <1>1, MessageFacts DEF Deliver, TypeInv, TypeOK, MessageBag
  <1>3. CASE Claimable(m.of)
    <2>1. /\ pc' = [pc EXCEPT ![v] = "work"] /\ msg' = [msg EXCEPT ![v] = m]
          /\ task' = [task EXCEPT ![m.of] = "IN_PROGRESS"]
          /\ lease' = [lease EXCEPT ![m.of] = "live"]
      BY <1>1, <1>3 DEF Deliver, Goto
    <2>2. \A w \in Workers : pc[w] = "work" => msg[w].of # m.of
      BY <1>3, WorkFacts DEF Claimable
    <2>3. \A w \in Workers : pc'[w] = "work" =>
            IF w = v THEN msg'[w].of = m.of
            ELSE pc[w] = "work" /\ msg'[w] = msg[w] /\ msg[w].of # m.of
      BY <2>1, <2>2 DEF TypeInv, TypeOK
    <2>4. \A w \in Workers : pc'[w] = "work" => HeldNext(msg'[w].of)
      BY <1>2, <2>1, <2>3, WorkFacts DEF HeldNext, TypeInv, TypeOK
    <2>5. \A u, w \in Workers :
            pc'[u] = "work" /\ pc'[w] = "work" /\ msg'[u].of = msg'[w].of => u = w
      BY <2>3, WorkFacts
    <2> QED BY <2>4, <2>5 DEF WorkInv, TaskMutex, HeldNext
  <1>4. CASE ~Claimable(m.of)
    <2>1. /\ pc' = [pc EXCEPT ![v] = "ack"] /\ msg' = [msg EXCEPT ![v] = m]
          /\ UNCHANGED <<task, lease>>
      BY <1>1, <1>4 DEF Deliver, Goto
    <2>2. WorkStill
      BY <1>2, <2>1, WorkFacts DEF WorkStill, HeldNext, TypeInv, TypeOK
    <2> QED BY <2>2, WorkKept
  <1> QED BY <1>3, <1>4

\* A holder that finishes or gives up writes the row of no other holder.
LEMMA WorkEnd ==
  ASSUME TypeInv, WorkInv, early = 0, NEW v \in Workers, TtsFinish(v) \/ TtsRelease(v)
  PROVE  WorkInv'
  <1>1. /\ pc[v] = "work" /\ UNCHANGED msg
        /\ pc' = [pc EXCEPT ![v] = "ack"] \/ pc' = [pc EXCEPT ![v] = "retry"]
        /\ \A t \in Tasks : t # msg[v].of => task'[t] = task[t] /\ lease'[t] = lease[t]
    BY DEF TtsFinish, TtsRelease, Goto, TypeInv, TypeOK
  <1>2. \A w \in Workers : pc'[w] = "work" => w # v /\ pc[w] = "work"
    BY <1>1 DEF TypeInv, TypeOK
  <1>3. WorkStill
    BY <1>1, <1>2, WorkFacts DEF WorkStill, HeldNext
  <1> QED BY <1>3, WorkKept

LEMMA WorkStep ==
  ASSUME Statuses, WorkInv, [Next]_vars PROVE WorkInv'
  <1>1. TypeInv /\ TypeInv'
    BY TypeStep DEF Statuses
  <1> SUFFICES ASSUME early' = 0 PROVE WorkInv'
    BY DEF WorkInv
  <1>2. early = 0
    <2>1. CASE \E t \in Tasks : LeaseExpires(t)
      BY <1>1, <2>1 DEF LeaseExpires, TypeInv, TypeOK
    <2>2. CASE ~ \E t \in Tasks : LeaseExpires(t)
      BY <2>2, ZenonT(40) DEF Next, Submit, Consume, Handle, Relay, ParseReceive, ParseReject,
         ParseClaim, Commit, TtsReceive, TtsFinish, TtsRelease, StitchReceive, StitchFetch,
         StitchUpload, StitchComplete, RetryAck, Republish, DlqPublish, DlqMark, DlqAck,
         DoubleAck, Ack, RelaySelect, RelayPublish, RelayCommit, RelayError, Crash, Die,
         Restart, ReapLeases, ReconcileJobs, vars, bounds
    <2> QED BY <2>1, <2>2
  <1>3. CASE \E v \in Workers : TtsReceive(v)
    BY <1>1, <1>2, <1>3, WorkReceive
  <1>4. CASE \E v \in Workers : TtsFinish(v) \/ TtsRelease(v)
    BY <1>1, <1>2, <1>4, WorkEnd
  <1>5. CASE ~ \E v \in Workers : TtsReceive(v) \/ TtsFinish(v) \/ TtsRelease(v)
    <2>1. \A w \in Workers : pc'[w] = "work" => pc[w] = "work" /\ msg'[w] = msg[w]
      BY <1>1, <1>5, LabelMoves DEF LabelMove
    <2>2. ASSUME NEW w \in Workers, pc'[w] = "work" PROVE HeldNext(msg[w].of)
      <3> DEFINE t == msg[w].of
      <3>1. /\ pc[w] = "work" /\ t \in Tasks
            /\ (task[t] = "IN_PROGRESS" /\ lease[t] = "live") \/ task[t] = "FAILED"
        BY <1>1, <1>2, <2>1, <2>2, WorkFacts
      <3>2. ASSUME NEW v \in Workers, ParseClaim(v) PROVE HeldNext(t)
        BY <1>1, <3>1, <3>2
        DEF ParseClaim, TasksOf, HeldNext, Statuses, NoTasksYet, TypeInv, TypeOK
      <3>3. ASSUME NEW v \in Workers, DlqMark(v) PROVE HeldNext(t)
        BY <1>1, <3>1, <3>3 DEF DlqMark, HeldNext, TypeInv, TypeOK
      <3>4. ASSUME NEW u \in Tasks, LeaseExpires(u) PROVE HeldNext(t)
        <4>1. u # t
          BY <1>1, <1>2, <3>1, <3>4 DEF LeaseExpires, AtWork, TypeInv, TypeOK
        <4> QED BY <1>1, <3>1, <3>4, <4>1 DEF LeaseExpires, HeldNext, TypeInv, TypeOK
      <3>5. CASE ReapLeases
        BY <3>1, <3>5 DEF ReapLeases, Expired, HeldNext
      <3>6. ASSUME task' = task, lease' = lease PROVE HeldNext(t)
        BY <3>1, <3>6 DEF HeldNext
      <3>7. CASE ReconcileJobs \/ (\E j \in Jobs : Submit(j)) \/ UNCHANGED vars
        BY <3>6, <3>7 DEF ReconcileJobs, Submit, vars, tables
      <3>8. ASSUME NEW v \in Workers,
                   \/ ParseReceive(v) \/ ParseReject(v)
                   \/ StitchReceive(v) \/ StitchFetch(v) \/ StitchUpload(v)
                   \/ StitchComplete(v) \/ RetryAck(v) \/ Republish(v) \/ DlqPublish(v)
                   \/ DlqAck(v) \/ Ack(v) \/ DoubleAck(v) \/ Crash(v) \/ Restart(v)
                   \/ Relay(v) \/ RelayError(v)
            PROVE  HeldNext(t)
        <4>1. task' = task /\ lease' = lease
          BY <3>8 DEF ParseReceive, ParseReject, StitchReceive, StitchFetch, StitchUpload,
             StitchComplete, RetryAck, Republish, DlqPublish, DlqAck, Ack, DoubleAck, Crash,
             Die, Restart, Relay, RelaySelect, RelayPublish, RelayCommit, RelayError, tables
        <4> QED BY <3>6, <4>1
      <3> QED BY <1>5, <3>2, <3>3, <3>4, <3>5, <3>7, <3>8 DEF Next, Consume, Handle
    <2> QED BY <1>2, <2>1, <2>2, WorkKept DEF WorkStill
  <1> QED BY <1>3, <1>4, <1>5

\* tts.py:61-79: for any number of workers and tasks, and through every redelivery,
\* retry and reclaim, two workers never synthesise the same chunk before a lease has
\* run out under a worker that was still at work.
THEOREM TaskMutexCorrect == Spec => []TaskMutex
  <1>1. Init => WorkInv
    BY DEF Init, WorkInv, TaskMutex
  <1>2. Statuses /\ WorkInv /\ [Next]_vars => WorkInv'
    BY WorkStep
  <1>3. WorkInv => TaskMutex
    BY DEF WorkInv, TaskMutex
  <1> QED BY <1>1, <1>2, <1>3, StatusesInit, StatusesStep, PTL DEF Spec

-----------------------------------------------------------------------------
(***************************************************************************)
(* A failure has its dead letter, and the lifecycle.                       *)
(***************************************************************************)

\* The only writer of FAILED.
LEMMA FailedMoves ==
  ASSUME TypeInv, [Next]_vars, NEW j \in Jobs, job'[j] = "FAILED", job[j] # "FAILED"
  PROVE  \E w \in Workers : DlqMark(w) /\ j = JobOfMsg(msg[w])
  <1> USE DEF TypeInv, TypeOK
  <1>1. ASSUME NEW w \in Workers, DlqMark(w) PROVE j = JobOfMsg(msg[w])
    <2>1. job' = [job EXCEPT ![JobOfMsg(msg[w])] = IF @ = "COMPLETED" THEN @ ELSE "FAILED"]
      BY <1>1 DEF DlqMark
    <2> QED BY <2>1
  <1>2. ASSUME NEW i \in Jobs, Submit(i) PROVE FALSE
    BY <1>2 DEF Submit
  <1>3. ASSUME NEW w \in Workers, ParseClaim(w) PROVE FALSE
    BY <1>3 DEF ParseClaim
  <1>4. ASSUME NEW w \in Workers, TtsFinish(w) PROVE FALSE
    BY <1>4 DEF TtsFinish
  <1>5. ASSUME NEW w \in Workers, StitchComplete(w) PROVE FALSE
    BY <1>5 DEF StitchComplete
  <1>6. CASE ReconcileJobs
    BY <1>6 DEF ReconcileJobs
  <1>7. CASE ReapLeases \/ (\E t \in Tasks : LeaseExpires(t)) \/ UNCHANGED vars
    BY <1>7 DEF ReapLeases, LeaseExpires, vars, tables
  <1> QED BY <1>1, <1>2, <1>3, <1>4, <1>5, <1>6, <1>7, JobUntouched
          DEF Next, Consume, Handle, Relay

LEMMA DlqGrows == ASSUME [Next]_vars PROVE dlq \subseteq dlq'
  BY ZenonT(40) DEF Next, Submit, Consume, Handle, Relay, ParseReceive, ParseReject, ParseClaim,
         TtsReceive, TtsFinish, TtsRelease, StitchReceive, StitchFetch, StitchUpload,
         StitchComplete, RetryAck, Republish, DlqPublish, DlqMark, DlqAck, DoubleAck, Ack,
         RelaySelect, RelayPublish, RelayCommit, RelayError, Crash, Die, Restart,
         LeaseExpires, ReapLeases, ReconcileJobs, vars

LEMMA ParkedStep ==
  ASSUME TypeInv, ParkedFirst, [Next]_vars PROVE ParkedFirst'
  <1>1. ASSUME NEW w \in Workers, pc'[w] = "dlqMark" PROVE msg'[w] \in dlq'
    <2>1. CASE pc[w] = "dlqMark" /\ msg'[w] = msg[w]
      BY <2>1, DlqGrows DEF ParkedFirst
    <2>2. CASE DlqPublish(w)
      BY <2>2 DEF DlqPublish
    <2> QED BY <1>1, <2>1, <2>2, LabelMoves DEF LabelMove
  <1>2. ASSUME NEW j \in Jobs, job'[j] = "FAILED" PROVE \E m \in dlq' : JobOfMsg(m) = j
    <2>1. CASE job[j] = "FAILED"
      BY <2>1, DlqGrows DEF ParkedFirst, FailedIsParked
    <2>2. CASE job[j] # "FAILED"
      <3>1. PICK w \in Workers : DlqMark(w) /\ j = JobOfMsg(msg[w])
        BY <1>2, <2>2, FailedMoves
      <3>2. msg[w] \in dlq
        BY <3>1 DEF DlqMark, ParkedFirst
      <3> QED BY <3>1, <3>2, DlqGrows
    <2> QED BY <2>1, <2>2
  <1> QED BY <1>1, <1>2 DEF ParkedFirst, FailedIsParked, JobOfMsg

\* parse.py:177-195, tts.py:260-281, stitch.py:169-186: no client ever reads FAILED for
\* a job whose message an operator cannot find in a dead-letter queue.
THEOREM FailedIsParkedCorrect == Spec => []FailedIsParked
  <1>1. Init => ParkedFirst
    BY DEF Init, InitJob, ParkedFirst, FailedIsParked
  <1>2. TypeInv /\ ParkedFirst /\ [Next]_vars => ParkedFirst'
    BY ParkedStep
  <1>3. ParkedFirst => FailedIsParked
    BY DEF ParkedFirst
  <1> QED BY <1>1, <1>2, <1>3, TypeInit, TypeStep, PTL DEF Spec

-----------------------------------------------------------------------------
(***************************************************************************)
(* The refinement.                                                         *)
(***************************************************************************)

audio == {j \in Jobs : final[j] # {}}

\* A step of Lifecycle, or a stutter.
LifecycleStep == Lifecycle!Next \/ (job' = job /\ audio' = audio)

LEMMA AudioUntouched ==
  ASSUME [Next]_vars, ~ \E w \in Workers : StitchUpload(w) PROVE audio' = audio
  BY FinalMoves DEF audio

LEMMA RefineMove ==
  ASSUME TypeInv, NEW j \in Jobs, audio' = audio, NEW s \in JobStatus,
         job' = [job EXCEPT ![j] = s],
         \/ job[j] = "ABSENT" /\ s = "PENDING"
         \/ job[j] = "PENDING" /\ s = "PROCESSING"
         \/ job[j] = "PROCESSING" /\ s = "STITCHING"
         \/ job[j] \in {"PENDING", "PROCESSING", "STITCHING"} /\ s = "FAILED"
         \/ job[j] \in {"STITCHING", "FAILED"} /\ s = "COMPLETED" /\ j \in audio
  PROVE  LifecycleStep
  <1>1. job' = [i \in Jobs |-> IF i \in {j} THEN s ELSE job[i]]
    BY DEF TypeInv, TypeOK
  <1>2. CASE job[j] = "ABSENT" /\ s = "PENDING"
    <2>1. Lifecycle!Accept(j)
      BY <1>1, <1>2 DEF Lifecycle!Accept, Lifecycle!Move, audio
    <2> QED BY <2>1 DEF LifecycleStep, Lifecycle!Next
  <1>3. CASE job[j] = "PENDING" /\ s = "PROCESSING"
    <2>1. Lifecycle!Start(j)
      BY <1>1, <1>3 DEF Lifecycle!Start, Lifecycle!Move, audio
    <2> QED BY <2>1 DEF LifecycleStep, Lifecycle!Next
  <1>4. CASE job[j] = "PROCESSING" /\ s = "STITCHING"
    <2>1. Lifecycle!Assemble({j})
      BY <1>1, <1>4 DEF Lifecycle!Assemble, Lifecycle!Move, audio
    <2> QED BY <2>1 DEF LifecycleStep, Lifecycle!Next
  <1>5. CASE job[j] \in {"PENDING", "PROCESSING", "STITCHING"} /\ s = "FAILED"
    <2>1. Lifecycle!Fail(j)
      BY <1>1, <1>5 DEF Lifecycle!Fail, Lifecycle!Move, audio
    <2> QED BY <2>1 DEF LifecycleStep, Lifecycle!Next
  <1>6. CASE job[j] \in {"STITCHING", "FAILED"} /\ s = "COMPLETED" /\ j \in audio
    <2>1. Lifecycle!Complete(j)
      BY <1>1, <1>6 DEF Lifecycle!Complete, Lifecycle!Move, audio
    <2> QED BY <2>1 DEF LifecycleStep, Lifecycle!Next
  <1> QED BY <1>2, <1>3, <1>4, <1>5, <1>6

LEMMA RefineStep ==
  ASSUME Statuses, StitchInv, [Next]_vars PROVE LifecycleStep
  <1>1. TypeInv /\ TypeInv'
    BY TypeStep DEF Statuses
  <1> USE DEF TypeInv, TypeOK
  <1>2. ASSUME NEW j \in Jobs, Submit(j) PROVE LifecycleStep
    <2>1. audio' = audio
      BY <1>2 DEF Submit, audio
    <2> QED BY <1>1, <1>2, <2>1, RefineMove DEF Submit, JobStatus
  <1>3. ASSUME NEW w \in Workers, ParseClaim(w) PROVE LifecycleStep
    <2>1. msg[w] \in Message /\ msg[w].stage = "parse"
      BY <1>1, <1>3 DEF ParseClaim, HandlerOK
    <2>2. audio' = audio /\ msg[w].of \in Jobs
      BY <1>3, <2>1, MessageFacts DEF ParseClaim, audio
    <2>3. CASE job[msg[w].of] = "PENDING"
      <3>1. job' = [job EXCEPT ![msg[w].of] = "PROCESSING"]
        BY <1>3, <2>3 DEF ParseClaim
      <3> QED BY <1>1, <2>2, <2>3, <3>1, RefineMove DEF JobStatus
    <2>4. CASE job[msg[w].of] # "PENDING"
      BY <1>3, <2>2, <2>4 DEF ParseClaim, LifecycleStep
    <2> QED BY <2>3, <2>4
  <1>4. ASSUME NEW w \in Workers, TtsFinish(w) PROVE LifecycleStep
    <2> DEFINE j == JobOf[msg[w].of]
    <2>1. msg[w] \in Message /\ msg[w].stage = "tts"
      BY <1>1, <1>4 DEF TtsFinish, HandlerOK
    <2>2. audio' = audio /\ j \in Jobs
      BY <1>4, <2>1, MessageFacts DEF TtsFinish, audio
    <2>3. CASE Remaining(msg[w].of) = {} /\ job[j] = "PROCESSING"
      <3>1. job' = [job EXCEPT ![j] = "STITCHING"]
        BY <1>4, <2>3 DEF TtsFinish
      <3> QED BY <1>1, <2>2, <2>3, <3>1, RefineMove DEF JobStatus
    <2>4. CASE ~(Remaining(msg[w].of) = {} /\ job[j] = "PROCESSING")
      BY <1>4, <2>2, <2>4 DEF TtsFinish, LifecycleStep
    <2> QED BY <2>3, <2>4
  <1>5. ASSUME NEW w \in Workers, StitchUpload(w) PROVE LifecycleStep
    <2>1. msg[w] \in Message /\ msg[w].stage = "stitch"
      BY <1>1, <1>5 DEF StitchUpload, HandlerOK
    <2> PICK j \in Jobs : j = msg[w].of
      BY <2>1, MessageFacts
    <2>2. /\ msg[w].stage = "stitch" /\ msg[w] # NoMsg
          /\ final' = [final EXCEPT ![j] = chunks[w]] /\ chunks[w] # {} /\ UNCHANGED job
      BY <1>1, <1>5, <2>1, MessageFacts
      DEF StitchUpload, StitchInv, AudioIsExcused, tables
    <2>3. job[j] \in {"STITCHING", "FAILED", "COMPLETED"}
      BY <1>1, <2>2, InHandJustified DEF Statuses, Justified
    <2>4. audio' = audio \cup {j}
      BY <1>1, <2>2 DEF audio
    <2>5. Lifecycle!Publish(j)
      BY <2>2, <2>3, <2>4 DEF Lifecycle!Publish, audio
    <2> QED BY <2>2, <2>5 DEF LifecycleStep, Lifecycle!Next
  <1>6. ASSUME NEW w \in Workers, StitchComplete(w) PROVE LifecycleStep
    <2> DEFINE j == msg[w].of
    <2>1. /\ msg[w].stage = "stitch" /\ msg[w] # NoMsg /\ j \in Jobs /\ audio' = audio
          /\ job' = [job EXCEPT ![j] = "COMPLETED"]
      BY <1>1, <1>6, MessageFacts DEF StitchComplete, HandlerOK, audio
    <2>2. job[j] \in {"STITCHING", "FAILED", "COMPLETED"}
      BY <1>1, <2>1, InHandJustified DEF Statuses, Justified
    <2>3. j \in audio
      BY <1>6, <2>1 DEF StitchComplete, StitchInv, AudioIsThere, audio
    <2>4. CASE job[j] = "COMPLETED"
      BY <1>1, <2>1, <2>4 DEF LifecycleStep
    <2>5. CASE job[j] # "COMPLETED"
      BY <1>1, <2>1, <2>2, <2>3, <2>5, RefineMove DEF JobStatus
    <2> QED BY <2>4, <2>5
  <1>7. ASSUME NEW w \in Workers, DlqMark(w) PROVE LifecycleStep
    <2>1. msg[w] \in Message
      BY <1>1, <1>7 DEF DlqMark, HandlerOK
    <2> PICK j \in Jobs : j = JobOfMsg(msg[w])
      BY <2>1, MessageFacts
    <2>2. job[j] # "ABSENT" /\ audio' = audio
      BY <1>1, <1>7, <2>1, InHandJustified, MessageFacts
      DEF DlqMark, Statuses, Justified, JobOfMsg, audio
    <2>3. job' = [job EXCEPT ![j] = IF @ = "COMPLETED" THEN @ ELSE "FAILED"]
      BY <1>7 DEF DlqMark
    <2>4. CASE job[j] \in {"COMPLETED", "FAILED"}
      BY <1>1, <2>2, <2>3, <2>4 DEF LifecycleStep
    <2>5. CASE job[j] \notin {"COMPLETED", "FAILED"}
      <3>1. job' = [job EXCEPT ![j] = "FAILED"]
        BY <1>1, <2>2, <2>3, <2>5
      <3>2. job[j] \in {"PENDING", "PROCESSING", "STITCHING"} /\ "FAILED" \in JobStatus
        BY <1>1, <2>2, <2>5 DEF JobStatus
      <3> HIDE DEF TypeInv, TypeOK
      <3> QED BY <1>1, <2>2, <3>1, <3>2, RefineMove
    <2> QED BY <2>4, <2>5
  <1>8. CASE ReconcileJobs
    <2>1. Lifecycle!Assemble(Stuck)
      BY <1>8 DEF ReconcileJobs, Stuck, Lifecycle!Assemble, Lifecycle!Move
    <2> QED BY <2>1 DEF LifecycleStep, Lifecycle!Next, Stuck
  <1>9. CASE ReapLeases \/ (\E t \in Tasks : LeaseExpires(t)) \/ UNCHANGED vars
    BY <1>9 DEF ReapLeases, LeaseExpires, vars, tables, LifecycleStep, audio
  <1>10. ASSUME job' = job, ~ \E w \in Workers : StitchUpload(w) PROVE LifecycleStep
    BY <1>10, AudioUntouched DEF LifecycleStep
  <1> QED BY <1>2, <1>3, <1>4, <1>5, <1>6, <1>7, <1>8, <1>9, <1>10, JobUntouched
          DEF Next, Consume, Handle, Relay

\* gateway/app.py:91-129: the statuses and audio links that GET /jobs/{id} shows follow
\* JobLifecycle, whatever the workers, the broker and the reaper do behind it.
THEOREM LifecycleImplemented == Spec => ImplementsLifecycle
  <1>1. Init => Lifecycle!Init
    BY DEF Init, InitJob, Lifecycle!Init
  <1>2. Statuses /\ StitchInv /\ [Next]_vars => [Lifecycle!Next]_(Lifecycle!vars)
    BY RefineStep DEF LifecycleStep, Lifecycle!vars, audio
  <1> QED BY <1>1, <1>2, StitchInvCorrect, PTL DEF Spec, ImplementsLifecycle, Lifecycle!Spec

-----------------------------------------------------------------------------
(***************************************************************************)
(* Without faults there is one copy of a message.                          *)
(***************************************************************************)

OneCopy ==
  \A p, q \in Spots : \A m \in BagToSet(At(p)), n \in BagToSet(At(q)) :
    SameItem(m, n) => p = q /\ m = n /\ At(p)[m] = 1

HandOf(w) == SetToBag({msg[w]} \ {NoMsg})

LEMMA SpotCases ==
  ASSUME NEW p \in Spots
  PROVE  \/ p = <<"outbox">> /\ At(p) = outbox /\ At(p)' = outbox'
         \/ p = <<"queue">> /\ At(p) = queue /\ At(p)' = queue'
         \/ \E w \in Workers : /\ p = <<"relay", w>> /\ At(p) = locked[w]
                               /\ At(p)' = locked'[w]
         \/ \E w \in Workers : /\ p = <<"hand", w>> /\ At(p) = HandOf(w)
                               /\ At(p)' = HandOf(w)'
  <1>1. CASE p = <<"outbox">>
    BY <1>1 DEF At
  <1>2. CASE p = <<"queue">>
    BY <1>2 DEF At
  <1>3. CASE \E w \in Workers : p = <<"relay", w>>
    BY <1>3 DEF At
  <1>4. CASE \E w \in Workers : p = <<"hand", w>>
    <2>1. PICK w \in Workers : p = <<"hand", w>>
      BY <1>4
    <2>2. p[1] = "hand" /\ p[2] = w
      BY <2>1
    <2>3. At(p) = HandOf(w) /\ At(p)' = HandOf(w)'
      BY <2>2 DEF At, HandOf
    <2> QED BY <2>1, <2>3
  <1> QED BY <1>1, <1>2, <1>3, <1>4 DEF Spots

LEMMA SpotValues ==
  /\ <<"outbox">> \in Spots /\ <<"queue">> \in Spots
  /\ At(<<"outbox">>) = outbox /\ At(<<"queue">>) = queue
  /\ \A w \in Workers : /\ <<"relay", w>> \in Spots /\ At(<<"relay", w>>) = locked[w]
                        /\ <<"hand", w>> \in Spots /\ At(<<"hand", w>>) = HandOf(w)
  BY DEF Spots, At, HandOf

\* A hand holds its delivery and nothing else.
LEMMA HandDomain ==
  ASSUME NEW w PROVE BagToSet(HandOf(w)) = {msg[w]} \ {NoMsg}
  BY SetDomain DEF HandOf

LEMMA CopiesTyped ==
  ASSUME TypeInv, NEW p \in Spots, NEW m \in BagToSet(At(p))
  PROVE  m \in Message /\ m \in Everywhere /\ At(p)[m] \in Nat
  <1>1. ASSUME NEW w \in Workers, p = <<"hand", w>>, At(p) = HandOf(w)
        PROVE  m \in Message /\ m \in Everywhere /\ At(p)[m] \in Nat
    <2>1. m = msg[w] /\ msg[w] # NoMsg
      BY <1>1, HandDomain
    <2>2. At(p)[m] = 1
      BY <1>1, <2>1 DEF HandOf, SetToBag
    <2> QED BY <2>1, <2>2, Places DEF TypeInv, TypeOK
  <1>2. ASSUME MessageBag(At(p)) PROVE m \in Message /\ At(p)[m] \in Nat
    BY <1>2 DEF MessageBag, IsABag, BagToSet
  <1>3. ASSUME \/ At(p) = outbox \/ At(p) = queue
               \/ \E w \in Workers : At(p) = locked[w]
        PROVE  m \in Message /\ m \in Everywhere /\ At(p)[m] \in Nat
    BY <1>2, <1>3, Places DEF TypeInv, TypeOK
  <1> QED BY <1>1, <1>3, SpotCases

Kept(p, x) == x \in BagToSet(At(p)) /\ At(p)'[x] = At(p)[x]

\* What a step has to be like to leave one copy of each message: whatever is
\* somewhere after it was there before, the same number of times, or has arrived at
\* the one place b; and no item that has arrived is anywhere else.
Settles(b, arrivals) ==
  /\ \A x, y \in arrivals : SameItem(x, y) => x = y
  /\ \A p \in Spots : \A x \in BagToSet(At(p)') :
       \/ Kept(p, x) /\ \A y \in arrivals : ~SameItem(x, y)
       \/ p = b /\ x \in arrivals /\ At(p)'[x] = 1

LEMMA CopiesSettle ==
  ASSUME OneCopy, NEW b, NEW arrivals, Settles(b, arrivals) PROVE OneCopy'
  <1> SUFFICES ASSUME NEW p \in Spots, NEW q \in Spots,
                      NEW m \in BagToSet(At(p)'), NEW n \in BagToSet(At(q)'), SameItem(m, n)
               PROVE  p = q /\ m = n /\ At(p)'[m] = 1
    BY DEF OneCopy, Spots, SameItem
  <1>1. SameItem(n, m)
    BY DEF SameItem
  <1>2. CASE Kept(p, m) /\ Kept(q, n)
    BY <1>2 DEF OneCopy, Kept
  <1> QED BY <1>1, <1>2 DEF Settles

LEMMA AddCount ==
  ASSUME NEW B, NEW x
  PROVE  /\ \A y \in BagToSet(B) : y # x => BagAdd(B, x)[y] = B[y]
         /\ x \notin BagToSet(B) => BagAdd(B, x)[x] = 1
  BY DEF BagAdd, BagToSet

LEMMA RemoveCount ==
  ASSUME NEW B, NEW x
  PROVE  /\ \A y \in BagToSet(BagRemove(B, x)) : y # x => BagRemove(B, x)[y] = B[y]
         /\ x \in BagToSet(B) /\ B[x] = 1 => x \notin BagToSet(BagRemove(B, x))
  BY DEF BagRemove, BagToSet

LEMMA UnionCount ==
  ASSUME NEW B, IsABag(B), NEW S, S \cap BagToSet(B) = {}
  PROVE  /\ \A y \in BagToSet(B) : (B (+) SetToBag(S))[y] = B[y]
         /\ \A y \in S : (B (+) SetToBag(S))[y] = 1
  BY DEF (+), SetToBag, BagToSet, IsABag

\* A batch taken from a bag in which everything is there once.
LEMMA BatchCount ==
  ASSUME NEW B, IsABag(B), \A x \in BagToSet(B) : B[x] = 1,
         NEW C, IsABag(C), C = B \/ C \sqsubseteq B
  PROVE  /\ BagToSet(C) \subseteq BagToSet(B)
         /\ \A x \in BagToSet(C) : C[x] = 1
         /\ BagToSet(B (-) C) = BagToSet(B) \ BagToSet(C)
         /\ \A x \in BagToSet(B (-) C) : (B (-) C)[x] = B[x]
  BY DEF (-), \sqsubseteq, IsABag, BagToSet

\* New events, of items no message is about yet, enter the outbox.
LEMMA CopiesEmit ==
  ASSUME TypeInv, OneCopy, NEW events \in SUBSET Message,
         \A x, y \in events : SameItem(x, y) => x = y,
         \A m \in Everywhere, x \in events : ~SameItem(m, x),
         \/ outbox' = outbox (+) SetToBag(events)
         \/ \E e : events = {e} /\ outbox' = BagAdd(outbox, e),
         UNCHANGED <<queue, locked, msg>>
  PROVE  OneCopy'
  <1>1. ASSUME NEW x \in events PROVE x \notin BagToSet(outbox)
    BY <1>1, SpotValues, CopiesTyped DEF SameItem
  <1>2. /\ BagToSet(outbox') = BagToSet(outbox) \cup events
        /\ \A x \in BagToSet(outbox) : outbox'[x] = outbox[x]
        /\ \A x \in events : outbox'[x] = 1
    <2>1. CASE outbox' = outbox (+) SetToBag(events)
      BY <1>1, <2>1, UnionDomain, SetDomain, UnionCount
         DEF TypeInv, TypeOK, MessageBag
    <2>2. CASE \E e : events = {e} /\ outbox' = BagAdd(outbox, e)
      BY <1>1, <2>2, AddDomain, AddCount
    <2> QED BY <2>1, <2>2
  <1>3. ASSUME NEW p \in Spots, p # <<"outbox">> PROVE At(p)' = At(p)
    BY <1>3, SpotCases DEF HandOf
  <1>4. ASSUME NEW p \in Spots, NEW x \in BagToSet(At(p)')
        PROVE  \/ Kept(p, x) /\ \A y \in events : ~SameItem(x, y)
               \/ p = <<"outbox">> /\ x \in events /\ At(p)'[x] = 1
    <2>1. CASE x \in BagToSet(At(p)) /\ At(p)'[x] = At(p)[x]
      BY <2>1, CopiesTyped DEF Kept
    <2>2. CASE p # <<"outbox">>
      BY <1>3, <2>1, <2>2
    <2>3. CASE p = <<"outbox">>
      BY <1>2, <2>1, <2>3 DEF At
    <2> QED BY <2>2, <2>3
  <1>5. Settles(<<"outbox">>, events)
    BY <1>4 DEF Settles
  <1> QED BY <1>5, CopiesSettle

\* A message moves from one place to another, perhaps with another attempt.
LEMMA CopiesMove ==
  ASSUME TypeInv, OneCopy, NEW a \in Spots, NEW b \in Spots, a # b,
         NEW m \in BagToSet(At(a)), NEW n, SameItem(m, n),
         \A p \in Spots \ {a, b} : At(p)' = At(p),
         BagToSet(At(a)') \subseteq BagToSet(At(a)) \ {m},
         \A x \in BagToSet(At(a)') : At(a)'[x] = At(a)[x],
         BagToSet(At(b)') = BagToSet(At(b)) \cup {n},
         \A x \in BagToSet(At(b)) : x # n => At(b)'[x] = At(b)[x],
         n \notin BagToSet(At(b)) => At(b)'[n] = 1
  PROVE  OneCopy'
  <1>1. ASSUME NEW p \in Spots, NEW x \in BagToSet(At(p)), SameItem(x, n)
        PROVE  p = a /\ x = m
    BY <1>1 DEF OneCopy, SameItem
  <1>2. n \notin BagToSet(At(b))
    BY <1>1 DEF SameItem
  <1>3. ASSUME NEW p \in Spots, NEW x \in BagToSet(At(p)')
        PROVE  \/ Kept(p, x) /\ \A y \in {n} : ~SameItem(x, y)
               \/ p = b /\ x \in {n} /\ At(p)'[x] = 1
    <2>1. CASE p = a
      BY <1>1, <1>3, <2>1 DEF Kept
    <2>2. CASE p = b
      BY <1>1, <1>2, <1>3, <2>2 DEF Kept
    <2>3. CASE p # a /\ p # b
      BY <1>1, <1>3, <2>3 DEF Kept
    <2> QED BY <2>1, <2>2, <2>3
  <1>4. Settles(b, {n})
    BY <1>3 DEF Settles
  <1> QED BY <1>4, CopiesSettle

\* Nothing comes to any place.
LEMMA CopiesVanish ==
  ASSUME OneCopy,
         \A p \in Spots : \A x \in BagToSet(At(p)') : Kept(p, x)
  PROVE  OneCopy'
  <1>1. Settles(<<"queue">>, {})
    BY DEF Settles
  <1> QED BY <1>1, CopiesSettle

\* A step that gives no place anything new: a delivery stays in hand or is gone.
LEMMA OneCopyStay ==
  ASSUME TypeInv, OneCopy, UNCHANGED <<outbox, queue>>,
         \A v \in Workers : locked'[v] = locked[v] /\ msg'[v] \in {msg[v], NoMsg}
  PROVE  OneCopy'
  <1>1. ASSUME NEW p \in Spots, NEW x \in BagToSet(At(p)') PROVE Kept(p, x)
    <2>1. CASE \E w \in Workers : p = <<"hand", w>> /\ At(p) = HandOf(w) /\ At(p)' = HandOf(w)'
      <3>1. PICK w \in Workers : At(p) = HandOf(w) /\ At(p)' = HandOf(w)'
        BY <2>1
      <3>2. CASE msg'[w] = msg[w]
        BY <1>1, <3>1, <3>2 DEF HandOf, Kept
      <3>3. CASE msg'[w] = NoMsg
        <4>1. BagToSet(HandOf(w)') = {}
          BY <3>3 DEF HandOf, SetToBag, BagToSet
        <4> QED BY <1>1, <3>1, <4>1
      <3> QED BY <3>2, <3>3
    <2>2. CASE At(p)' = At(p)
      BY <1>1, <2>2 DEF Kept
    <2> QED BY <2>1, <2>2, SpotCases
  <1> QED BY <1>1, CopiesVanish

LEMMA OneCopyDeliver ==
  ASSUME TypeInv, OneCopy, NEW w \in Workers, NEW m \in BagToSet(queue), NEW stage, NEW label,
         Deliver(w, m, stage, label), UNCHANGED <<outbox, locked>>
  PROVE  OneCopy'
  <1> DEFINE a == <<"queue">>
             b == <<"hand", w>>
  <1>1. /\ queue' = BagRemove(queue, m) /\ msg' = [msg EXCEPT ![w] = m]
        /\ msg[w] = NoMsg /\ m \in Message /\ m # NoMsg
    BY MessageFacts DEF Deliver, TypeInv, TypeOK, HandlerOK, MessageBag
  <1>2. queue[m] = 1
    BY SpotValues DEF OneCopy, SameItem
  <1>3. HandOf(w) = EmptyBag /\ HandOf(w)' = SetToBag({m})
    BY <1>1 DEF HandOf, EmptyBag, TypeInv, TypeOK
  <1>4. BagToSet(HandOf(w)) = {} /\ BagToSet(HandOf(w)') = {m} /\ HandOf(w)'[m] = 1
    BY <1>3 DEF EmptyBag, SetToBag, BagToSet
  <1>5. \A p \in Spots \ {a, b} : At(p)' = At(p)
    <2> SUFFICES ASSUME NEW p \in Spots \ {a, b} PROVE At(p)' = At(p)
      OBVIOUS
    <2> QED BY <1>1, SpotCases DEF HandOf, TypeInv, TypeOK
  <1>6. At(a)' = queue' /\ At(b)' = HandOf(w)'
    BY DEF At, HandOf
  <1>7. /\ BagToSet(At(a)') \subseteq BagToSet(At(a)) \ {m}
        /\ \A x \in BagToSet(At(a)') : At(a)'[x] = At(a)[x]
    BY <1>1, <1>2, <1>6, RemoveDomain, RemoveCount, SpotValues
  <1>8. /\ BagToSet(At(b)') = BagToSet(At(b)) \cup {m}
        /\ \A x \in BagToSet(At(b)) : x # m => At(b)'[x] = At(b)[x]
        /\ m \notin BagToSet(At(b)) => At(b)'[m] = 1
    BY <1>4, <1>6, SpotValues
  <1>9. a \in Spots /\ b \in Spots /\ a # b /\ m \in BagToSet(At(a)) /\ SameItem(m, m)
    BY SpotValues DEF SameItem
  <1> QED BY <1>5, <1>7, <1>8, <1>9, CopiesMove

LEMMA OneCopyRepublish ==
  ASSUME TypeInv, OneCopy, NEW w \in Workers, Republish(w) PROVE OneCopy'
  <1> DEFINE a == <<"hand", w>>
             b == <<"queue">>
             m == msg[w]
             n == Retried(msg[w])
  <1>1. /\ queue' = BagAdd(queue, n) /\ msg' = [msg EXCEPT ![w] = NoMsg]
        /\ m # NoMsg /\ m \in Message /\ UNCHANGED <<outbox, locked>>
    BY DEF Republish, Return, Retried, TypeInv, TypeOK, HandlerOK, relayVars
  <1>2. SameItem(m, n)
    BY <1>1 DEF SameItem, Retried, Message
  <1>3. /\ BagToSet(HandOf(w)) = {m}
        /\ BagToSet(HandOf(w)') = {}
    BY <1>1 DEF HandOf, SetToBag, BagToSet, TypeInv, TypeOK
  <1>4. \A p \in Spots \ {a, b} : At(p)' = At(p)
    <2> SUFFICES ASSUME NEW p \in Spots \ {a, b} PROVE At(p)' = At(p)
      OBVIOUS
    <2> QED BY <1>1, SpotCases DEF HandOf, TypeInv, TypeOK
  <1>5. At(a)' = HandOf(w)' /\ At(b)' = queue'
    BY DEF At, HandOf
  <1>6. /\ BagToSet(At(a)') \subseteq BagToSet(At(a)) \ {m}
        /\ \A x \in BagToSet(At(a)') : At(a)'[x] = At(a)[x]
    BY <1>3, <1>5
  <1>7. /\ BagToSet(At(b)') = BagToSet(At(b)) \cup {n}
        /\ \A x \in BagToSet(At(b)) : x # n => At(b)'[x] = At(b)[x]
        /\ n \notin BagToSet(At(b)) => At(b)'[n] = 1
    BY <1>1, <1>5, AddDomain, AddCount, SpotValues
  <1>8. a \in Spots /\ b \in Spots /\ a # b /\ m \in BagToSet(At(a))
    BY <1>3, SpotValues
  <1> QED BY <1>2, <1>4, <1>6, <1>7, <1>8, CopiesMove

LEMMA OneCopySelect ==
  ASSUME TypeInv, OneCopy, NEW w \in Workers, RelaySelect(w) PROVE OneCopy'
  <1>1. PICK batch \in Batches : /\ locked' = [locked EXCEPT ![w] = batch]
                                 /\ outbox' = outbox (-) batch
    BY DEF RelaySelect
  <1>2. UNCHANGED <<queue, msg>> /\ BagToSet(locked[w]) = {}
    BY EmptyDomain DEF RelaySelect, RelayIdle, handlerVars
  <1>3. \A x \in BagToSet(outbox) : outbox[x] = 1
    BY SpotValues DEF OneCopy, SameItem
  <1>4. IsABag(outbox) /\ IsABag(batch) /\ (batch = outbox \/ batch \sqsubseteq outbox)
    BY BatchMessageBag DEF Batches, TypeInv, TypeOK, MessageBag
  <1>5. /\ BagToSet(batch) \subseteq BagToSet(outbox)
        /\ \A x \in BagToSet(batch) : batch[x] = 1
        /\ BagToSet(outbox') = BagToSet(outbox) \ BagToSet(batch)
        /\ \A x \in BagToSet(outbox') : outbox'[x] = outbox[x]
    BY <1>1, <1>3, <1>4, BatchCount
  <1>6. ASSUME NEW p \in Spots, p # <<"outbox">>, p # <<"relay", w>> PROVE At(p)' = At(p)
    BY <1>1, <1>2, <1>6, SpotCases DEF HandOf, TypeInv, TypeOK
  <1>7. At(<<"outbox">>)' = outbox' /\ At(<<"relay", w>>)' = batch
    BY <1>1 DEF At, TypeInv, TypeOK
  <1>8. \A x, y \in BagToSet(batch) : SameItem(x, y) => x = y
    BY <1>5, SpotValues DEF OneCopy
  <1>9. ASSUME NEW p \in Spots, NEW x \in BagToSet(At(p)), NEW y \in BagToSet(batch),
               SameItem(x, y)
        PROVE  p = <<"outbox">> /\ x \in BagToSet(batch)
    BY <1>5, <1>9, SpotValues DEF OneCopy
  <1>10. ASSUME NEW p \in Spots, NEW x \in BagToSet(At(p)')
         PROVE  \/ Kept(p, x) /\ \A y \in BagToSet(batch) : ~SameItem(x, y)
                \/ p = <<"relay", w>> /\ x \in BagToSet(batch) /\ At(p)'[x] = 1
    <2>1. CASE p = <<"relay", w>>
      BY <1>5, <1>7, <2>1
    <2>2. CASE p = <<"outbox">>
      BY <1>5, <1>7, <1>9, <2>2, SpotValues DEF Kept
    <2>3. CASE p # <<"outbox">> /\ p # <<"relay", w>>
      BY <1>6, <1>9, <2>3 DEF Kept
    <2> QED BY <2>1, <2>2, <2>3
  <1>11. Settles(<<"relay", w>>, BagToSet(batch))
    BY <1>8, <1>10 DEF Settles
  <1> QED BY <1>11, CopiesSettle

LEMMA OneCopyPublish ==
  ASSUME TypeInv, OneCopy, NEW w \in Workers, RelayPublish(w) PROVE OneCopy'
  <1>1. PICK m \in BagToSet(locked[w]) : /\ locked' = [locked EXCEPT ![w] = BagRemove(@, m)]
                                         /\ queue' = BagAdd(queue, m)
    BY DEF RelayPublish
  <1> DEFINE a == <<"relay", w>>
             b == <<"queue">>
  <1>2. UNCHANGED <<outbox, msg>>
    BY DEF RelayPublish, handlerVars
  <1>3. \A p \in Spots \ {a, b} : At(p)' = At(p)
    <2> SUFFICES ASSUME NEW p \in Spots \ {a, b} PROVE At(p)' = At(p)
      OBVIOUS
    <2> QED BY <1>1, <1>2, SpotCases DEF HandOf, TypeInv, TypeOK
  <1>4. At(a)' = BagRemove(locked[w], m) /\ At(b)' = queue'
    BY <1>1 DEF At, TypeInv, TypeOK
  <1>5. locked[w][m] = 1
    <2>1. a \in Spots /\ At(a) = locked[w]
      BY SpotValues
    <2> HIDE DEF a
    <2> QED BY <2>1 DEF OneCopy, SameItem
  <1>6. /\ BagToSet(At(a)') \subseteq BagToSet(At(a)) \ {m}
        /\ \A x \in BagToSet(At(a)') : At(a)'[x] = At(a)[x]
    <2>1. At(a) = locked[w]
      BY SpotValues
    <2>2. /\ BagToSet(BagRemove(locked[w], m)) \subseteq BagToSet(locked[w]) \ {m}
          /\ \A x \in BagToSet(BagRemove(locked[w], m)) : BagRemove(locked[w], m)[x] = locked[w][x]
      BY <1>5, RemoveDomain, RemoveCount
    <2> HIDE DEF a
    <2> QED BY <1>4, <2>1, <2>2
  <1>7. /\ BagToSet(At(b)') = BagToSet(At(b)) \cup {m}
        /\ \A x \in BagToSet(At(b)) : x # m => At(b)'[x] = At(b)[x]
        /\ m \notin BagToSet(At(b)) => At(b)'[m] = 1
    BY <1>1, <1>4, AddDomain, AddCount, SpotValues
  <1>8. a \in Spots /\ b \in Spots /\ a # b /\ m \in BagToSet(At(a)) /\ SameItem(m, m)
    BY SpotValues DEF SameItem
  <1> QED BY <1>3, <1>6, <1>7, <1>8, CopiesMove

\* The actions that move nothing from place to place: at most a delivery leaves the
\* hand of the one handler that is done with it.
LEMMA OneCopyHandler ==
  ASSUME TypeInv, OneCopy, NEW w \in Workers,
         \/ ParseReject(w) \/ TtsRelease(w) \/ StitchFetch(w) \/ StitchUpload(w)
         \/ StitchComplete(w) \/ RetryAck(w) \/ DlqPublish(w) \/ DlqMark(w)
         \/ DlqAck(w) \/ Ack(w) \/ Restart(w) \/ RelayCommit(w)
  PROVE  OneCopy'
  <1>1. /\ UNCHANGED <<outbox, queue, locked>>
        /\ msg' = msg \/ msg' = [msg EXCEPT ![w] = NoMsg]
    BY DEF ParseReject, TtsRelease, StitchFetch, StitchUpload, StitchComplete, RetryAck,
           DlqPublish, DlqMark, DlqAck, Ack, Restart, RelayCommit, Return, relayVars,
           handlerVars
  <1>2. \A v \in Workers : msg'[v] \in {msg[v], NoMsg}
    BY <1>1 DEF TypeInv, TypeOK
  <1> QED BY <1>1, <1>2, OneCopyStay

LEMMA OneCopyReceive ==
  ASSUME TypeInv, OneCopy, NEW w \in Workers,
         ParseReceive(w) \/ TtsReceive(w) \/ StitchReceive(w)
  PROVE  OneCopy'
  <1>1. UNCHANGED <<outbox, locked>>
    BY DEF ParseReceive, TtsReceive, StitchReceive, relayVars
  <1>2. \E m \in BagToSet(queue) : \E stage, label : Deliver(w, m, stage, label)
    BY DEF ParseReceive, TtsReceive, StitchReceive
  <1> QED BY <1>1, <1>2, OneCopyDeliver

LEMMA EmptyUnion == ASSUME NEW B, IsABag(B) PROVE B (+) EmptyBag = B
  BY DEF (+), EmptyBag, SetToBag, IsABag

\* The second ack kills the process, but nothing comes back: the delivery has been
\* acked and the relay had locked no row.
LEMMA OneCopyDoubleAck ==
  ASSUME TypeInv, OneCopy, NEW w \in Workers, DoubleAck(w), RelayIdle(w)
  PROVE  OneCopy'
  <1>1. outbox' = outbox
    BY EmptyUnion DEF DoubleAck, Die, Rollback, RelayIdle, TypeInv, TypeOK, MessageBag
  <1>2. queue' = queue /\ msg' = [msg EXCEPT ![w] = NoMsg]
    BY DEF DoubleAck, Die
  <1>3. \A v \in Workers : locked'[v] = locked[v] /\ msg'[v] \in {msg[v], NoMsg}
    BY <1>2 DEF DoubleAck, Die, Rollback, RelayIdle, TypeInv, TypeOK
  <1> QED BY <1>1, <1>2, <1>3, OneCopyStay

LEMMA OneCopySubmit ==
  ASSUME Statuses, OneCopy, NEW j \in Jobs, Submit(j) PROVE OneCopy'
  <1> DEFINE events == {Event("parse", j)}
  <1>1. events \in SUBSET Message
    BY PipelineAssumption DEF Event, Message, Attempts
  <1>2. \A m \in Everywhere, x \in events : ~SameItem(m, x)
    BY EventFields DEF Submit, Statuses, MessagesJustified, Justified, SameItem
  <1>3. /\ \E e : events = {e} /\ outbox' = BagAdd(outbox, e)
        /\ UNCHANGED <<queue, locked, msg>>
    BY DEF Submit, relayVars, handlerVars
  <1> QED BY <1>1, <1>2, <1>3, CopiesEmit DEF Statuses

LEMMA OneCopyParseClaim ==
  ASSUME Statuses, OneCopy, NEW w \in Workers, ParseClaim(w) PROVE OneCopy'
  <1> DEFINE j == msg[w].of
             events == {Event("tts", t) : t \in TasksOf(j)}
  <1>1. UNCHANGED <<queue, locked, msg>>
    BY DEF ParseClaim, relayVars
  <1>2. CASE job[j] = "PENDING"
    <2>1. events \in SUBSET Message
      BY PipelineAssumption DEF Event, Message, Attempts, TasksOf
    <2>2. \A x, y \in events : SameItem(x, y) => x = y
      BY EventFields DEF SameItem
    <2>3. \A m \in Everywhere, x \in events : ~SameItem(m, x)
      BY <1>2, EventFields DEF TasksOf, Statuses, MessagesJustified, Justified, SameItem
    <2>4. outbox' = outbox (+) SetToBag(events)
      BY <1>2 DEF ParseClaim
    <2> HIDE DEF events
    <2> QED BY <1>1, <2>1, <2>2, <2>3, <2>4, CopiesEmit DEF Statuses
  <1>3. CASE job[j] # "PENDING"
    <2>1. outbox' = outbox
      BY <1>3 DEF ParseClaim
    <2> QED BY <1>1, <2>1, OneCopyStay DEF Statuses
  <1> QED BY <1>2, <1>3

LEMMA OneCopyTtsFinish ==
  ASSUME Statuses, OneCopy, NEW w \in Workers, TtsFinish(w) PROVE OneCopy'
  <1> DEFINE j == JobOf[msg[w].of]
             events == {Event("stitch", j)}
  <1>1. UNCHANGED <<queue, locked, msg>>
    BY DEF TtsFinish, relayVars
  <1>2. CASE Remaining(msg[w].of) = {} /\ job[j] = "PROCESSING"
    <2>1. j \in Jobs
      BY MessageFacts DEF TtsFinish, Statuses, TypeInv, TypeOK, HandlerOK
    <2>2. events \in SUBSET Message
      BY <2>1, PipelineAssumption DEF Event, Message, Attempts
    <2>3. \A m \in Everywhere, x \in events : ~SameItem(m, x)
      BY <1>2, EventFields DEF Statuses, MessagesJustified, Justified, SameItem
    <2>4. \E e : events = {e} /\ outbox' = BagAdd(outbox, e)
      BY <1>2 DEF TtsFinish
    <2> QED BY <1>1, <2>2, <2>3, <2>4, CopiesEmit DEF Statuses
  <1>3. CASE ~(Remaining(msg[w].of) = {} /\ job[j] = "PROCESSING")
    <2>1. outbox' = outbox
      BY <1>3 DEF TtsFinish
    <2> QED BY <1>1, <2>1, OneCopyStay DEF Statuses
  <1> QED BY <1>2, <1>3

LEMMA OneCopyReconcile ==
  ASSUME Statuses, OneCopy, ReconcileJobs PROVE OneCopy'
  <1> DEFINE events == {Event("stitch", j) : j \in Stuck}
  <1>1. events \in SUBSET Message
    BY PipelineAssumption DEF Event, Message, Attempts, Stuck
  <1>2. \A x, y \in events : SameItem(x, y) => x = y
    BY EventFields DEF SameItem
  <1>3. \A m \in Everywhere, x \in events : ~SameItem(m, x)
    BY EventFields DEF Stuck, Statuses, MessagesJustified, Justified, SameItem
  <1>4. outbox' = outbox (+) SetToBag(events) /\ UNCHANGED <<queue, locked, msg>>
    BY DEF ReconcileJobs, relayVars, handlerVars
  <1> HIDE DEF events
  <1> QED BY <1>1, <1>2, <1>3, <1>4, CopiesEmit DEF Statuses

\* Without faults no counter moves, and a lease runs out under no worker.
LEMMA CountersGrow ==
  ASSUME TypeInv, [Next]_vars, faults' = 0, early' = 0
  PROVE  /\ faults = 0 /\ early = 0
         /\ ~ \E w \in Workers : Crash(w) \/ RelayError(w) \/ (DoubleAck(w) /\ ~RelayIdle(w))
         /\ ~ \E t \in Tasks : LeaseExpires(t) /\ AtWork(t)
  <1> USE DEF TypeInv, TypeOK
  <1>1. ~ \E w \in Workers : Crash(w) \/ RelayError(w) \/ (DoubleAck(w) /\ ~RelayIdle(w))
    BY DEF Crash, RelayError, DoubleAck
  <1>2. ~ \E t \in Tasks : LeaseExpires(t) /\ AtWork(t)
    BY DEF LeaseExpires
  <1>3. faults = 0 /\ early = 0
    <2>1. CASE \E t \in Tasks : LeaseExpires(t)
      BY <2>1, <1>2 DEF LeaseExpires
    <2>2. ASSUME NEW w \in Workers, DoubleAck(w) PROVE faults = 0 /\ early = 0
      BY <1>1, <2>2 DEF DoubleAck, Die
    <2>3. ASSUME NEW w \in Workers, ParseClaim(w) \/ StitchComplete(w)
          PROVE  faults = 0 /\ early = 0
      BY <2>3 DEF ParseClaim, StitchComplete, Commit
    <2>4. ASSUME NEW w \in Workers,
                 \/ ParseReceive(w) \/ ParseReject(w) \/ TtsReceive(w) \/ TtsFinish(w)
                 \/ TtsRelease(w) \/ StitchReceive(w) \/ StitchFetch(w) \/ StitchUpload(w)
                 \/ RetryAck(w) \/ Republish(w) \/ DlqPublish(w) \/ DlqMark(w) \/ DlqAck(w)
                 \/ Ack(w) \/ Restart(w) \/ Relay(w)
          PROVE  faults = 0 /\ early = 0
      BY <2>4 DEF ParseReceive, ParseReject, TtsReceive, TtsFinish, TtsRelease,
         StitchReceive, StitchFetch, StitchUpload, RetryAck, Republish, DlqPublish, DlqMark,
         DlqAck, Ack, Restart, Relay, RelaySelect, RelayPublish, RelayCommit, bounds
    <2>5. CASE ReapLeases \/ ReconcileJobs \/ (\E j \in Jobs : Submit(j)) \/ UNCHANGED vars
      BY <2>5 DEF ReapLeases, ReconcileJobs, Submit, vars, bounds
    <2> QED BY <1>1, <2>1, <2>2, <2>3, <2>4, <2>5 DEF Next, Consume, Handle
  <1> QED BY <1>1, <1>2, <1>3

\* How a handler leaves "work".
LEMMA WorkLeft ==
  ASSUME TypeInv, [Next]_vars, NEW w \in Workers, pc[w] = "work"
  PROVE  \/ pc'[w] = "work" /\ msg'[w] = msg[w]
         \/ TtsFinish(w) \/ TtsRelease(w) \/ Crash(w)
  <1> USE DEF TypeInv, TypeOK
  <1>1. ASSUME NEW v \in Workers, Consume(v) PROVE pc'[w] = "work" /\ msg'[w] = msg[w]
    BY <1>1 DEF Consume, ParseReceive, TtsReceive, StitchReceive, Deliver, Goto
  <1>2. ASSUME NEW v \in Workers, ParseReject(v) \/ ParseClaim(v)
        PROVE  pc'[w] = "work" /\ msg'[w] = msg[w]
    BY <1>2 DEF ParseReject, ParseClaim, Goto, Commit
  <1>3. ASSUME NEW v \in Workers, StitchFetch(v) \/ StitchUpload(v) \/ StitchComplete(v)
        PROVE  pc'[w] = "work" /\ msg'[w] = msg[w]
    BY <1>3 DEF StitchFetch, StitchUpload, StitchComplete, Goto, Commit
  <1>4. ASSUME NEW v \in Workers,
               \/ RetryAck(v) \/ Republish(v) \/ DlqPublish(v) \/ DlqMark(v)
               \/ DlqAck(v) \/ Ack(v)
        PROVE  pc'[w] = "work" /\ msg'[w] = msg[w]
    BY <1>4 DEF RetryAck, MayFail, Republish, DlqPublish, DlqMark, DlqAck, Ack, Goto, Return
  <1>5. ASSUME NEW v \in Workers,
               DoubleAck(v) \/ Restart(v) \/ (v # w /\ (Crash(v) \/ TtsFinish(v) \/ TtsRelease(v)))
        PROVE  pc'[w] = "work" /\ msg'[w] = msg[w]
    BY <1>5 DEF DoubleAck, Crash, Die, Restart, TtsFinish, TtsRelease, Goto
  <1>6. ASSUME NEW v \in Workers, Relay(v) \/ RelayError(v)
        PROVE  pc'[w] = "work" /\ msg'[w] = msg[w]
    BY <1>6 DEF Relay, RelaySelect, RelayPublish, RelayCommit, RelayError, handlerVars
  <1>7. CASE \/ \E j \in Jobs : Submit(j)
             \/ \E t \in Tasks : LeaseExpires(t)
             \/ ReapLeases \/ ReconcileJobs \/ UNCHANGED vars
    BY <1>7 DEF Submit, LeaseExpires, ReapLeases, ReconcileJobs, vars, handlerVars
  <1> QED BY <1>1, <1>2, <1>3, <1>4, <1>5, <1>6, <1>7 DEF Next, Handle

\* How a lease moves.
LEMMA LeaseMoves ==
  ASSUME TypeInv, [Next]_vars, NEW t \in Tasks
  PROVE  \/ lease'[t] = lease[t] /\ ~ \E w \in Workers :
              (TtsFinish(w) \/ TtsRelease(w)) /\ msg[w].of = t
         \/ lease'[t] = "none"
         \/ lease'[t] = "live" /\ AtWork(t)'
         \/ LeaseExpires(t)
  <1> USE DEF TypeInv, TypeOK
  <1>1. ASSUME NEW v \in Workers, TtsReceive(v)
        PROVE  lease'[t] = lease[t] \/ (lease'[t] = "live" /\ AtWork(t)')
    <2>1. PICK m \in BagToSet(queue) :
            /\ Deliver(v, m, "tts", IF Claimable(m.of) THEN "work" ELSE "ack")
            /\ IF Claimable(m.of)
               THEN lease' = [lease EXCEPT ![m.of] = "live"]
               ELSE UNCHANGED lease
      BY <1>1 DEF TtsReceive
    <2>2. CASE Claimable(m.of) /\ m.of = t
      <3>1. pc'[v] = "work" /\ msg'[v].of = t
        BY <2>1, <2>2 DEF Deliver, Goto
      <3> QED BY <2>1, <2>2, <3>1 DEF AtWork
    <2> QED BY <2>1, <2>2
  <1>2. ASSUME NEW v \in Workers, TtsFinish(v) \/ TtsRelease(v)
        PROVE  IF msg[v].of = t THEN lease'[t] = "none" ELSE lease'[t] = lease[t]
    BY <1>2 DEF TtsFinish, TtsRelease
  <1>3. ASSUME NEW v \in Workers, DlqMark(v) PROVE lease'[t] \in {lease[t], "none"}
    BY <1>3 DEF DlqMark
  <1>4. ASSUME NEW u \in Tasks, LeaseExpires(u) PROVE LeaseExpires(t) \/ lease'[t] = lease[t]
    BY <1>4 DEF LeaseExpires
  <1>5. ASSUME ReapLeases PROVE lease'[t] \in {lease[t], "none"}
    BY <1>5 DEF ReapLeases
  <1>6. ASSUME ReconcileJobs \/ (\E j \in Jobs : Submit(j)) \/ UNCHANGED vars
        PROVE  lease' = lease
    BY <1>6 DEF ReconcileJobs, Submit, vars, tables
  <1>7. ASSUME NEW v \in Workers,
               \/ ParseReceive(v) \/ ParseReject(v) \/ ParseClaim(v)
               \/ StitchReceive(v) \/ StitchFetch(v) \/ StitchUpload(v)
               \/ StitchComplete(v) \/ RetryAck(v) \/ Republish(v) \/ DlqPublish(v)
               \/ DlqAck(v) \/ Ack(v) \/ DoubleAck(v) \/ Crash(v) \/ Restart(v)
               \/ Relay(v) \/ RelayError(v)
        PROVE  lease' = lease
    BY <1>7 DEF ParseReceive, ParseReject, ParseClaim, StitchReceive, StitchFetch,
       StitchUpload, StitchComplete, RetryAck, Republish, DlqPublish, DlqAck, Ack, DoubleAck,
       Crash, Die, Restart, Relay, RelaySelect, RelayPublish, RelayCommit, RelayError, tables
  <1>8. CASE \E w \in Workers : (TtsFinish(w) \/ TtsRelease(w)) /\ msg[w].of = t
    BY <1>2, <1>8
  <1> QED BY <1>1, <1>2, <1>3, <1>4, <1>5, <1>6, <1>7, <1>8 DEF Next, Consume, Handle

LEMMA LeaseHeldStep ==
  ASSUME TypeInv, LeaseHeld, [Next]_vars PROVE LeaseHeld'
  <1> SUFFICES ASSUME faults' = 0, early' = 0, NEW t \in Tasks
               PROVE  lease'[t] # "expired" /\ (lease'[t] = "live" => AtWork(t)')
    BY DEF LeaseHeld
  <1>1. /\ faults = 0 /\ early = 0 /\ ~ \E w \in Workers : Crash(w)
        /\ ~(LeaseExpires(t) /\ AtWork(t))
    BY CountersGrow
  <1>2. lease[t] # "expired" /\ (lease[t] = "live" => AtWork(t))
    BY <1>1 DEF LeaseHeld
  <1>3. ~LeaseExpires(t)
    BY <1>1, <1>2 DEF LeaseExpires
  <1>4. ASSUME lease'[t] = lease[t], lease[t] = "live",
               ~ \E w \in Workers : (TtsFinish(w) \/ TtsRelease(w)) /\ msg[w].of = t
        PROVE  AtWork(t)'
    <2>1. PICK w \in Workers : pc[w] = "work" /\ msg[w].of = t
      BY <1>2, <1>4 DEF AtWork
    <2>2. pc'[w] = "work" /\ msg'[w] = msg[w]
      BY <1>1, <1>4, <2>1, WorkLeft
    <2> QED BY <2>1, <2>2 DEF AtWork
  <1> QED BY <1>2, <1>3, <1>4, LeaseMoves

LEMMA OneCopyStep ==
  ASSUME Statuses, LeaseHeld, NoDuplicateWithoutFault, [Next]_vars
  PROVE  NoDuplicateWithoutFault'
  <1> SUFFICES ASSUME faults' = 0, early' = 0 PROVE OneCopy'
    BY DEF NoDuplicateWithoutFault, OneCopy
  <1>1. TypeInv
    BY DEF Statuses
  <1>2. /\ faults = 0 /\ early = 0
        /\ ~ \E w \in Workers : Crash(w) \/ RelayError(w) \/ (DoubleAck(w) /\ ~RelayIdle(w))
    BY <1>1, CountersGrow
  <1>3. OneCopy
    BY <1>2 DEF NoDuplicateWithoutFault, OneCopy
  <1>4. ~ReapLeases
    BY <1>2 DEF LeaseHeld, ReapLeases, Expired
  <1>5. CASE UNCHANGED <<outbox, queue, locked, msg>>
    BY <1>1, <1>3, <1>5, OneCopyStay
  <1>6. CASE UNCHANGED vars \/ \E t \in Tasks : LeaseExpires(t)
    BY <1>5, <1>6 DEF vars, LeaseExpires, relayVars, handlerVars
  <1>7. ASSUME NEW w \in Workers, Consume(w) \/ Handle(w) \/ Relay(w) \/ Restart(w)
        PROVE  OneCopy'
    BY <1>1, <1>2, <1>3, <1>7, OneCopyHandler, OneCopyReceive, OneCopyDoubleAck,
       OneCopyParseClaim, OneCopyTtsFinish, OneCopyRepublish, OneCopySelect, OneCopyPublish
    DEF Consume, Handle, Relay
  <1> QED BY <1>2, <1>3, <1>4, <1>6, <1>7, OneCopySubmit, OneCopyReconcile DEF Next

LEMMA NoDuplicateInit == Init => LeaseHeld /\ NoDuplicateWithoutFault
  <1> SUFFICES ASSUME Init PROVE LeaseHeld /\ NoDuplicateWithoutFault
    OBVIOUS
  <1>1. ASSUME NEW p \in Spots PROVE BagToSet(At(p)) = {}
    BY SpotCases, EmptyDomain, HandDomain DEF Init
  <1> QED BY <1>1 DEF Init, LeaseHeld, NoDuplicateWithoutFault

\* main.py:64-94, tts.py:208-240: whatever the number of workers and relays, as long as
\* none of them dies, no relay transaction is rolled back and no lease runs out under
\* its holder, no work item ever has two messages, nor one message two copies.
THEOREM NoDuplicateCorrect == Spec => []NoDuplicateWithoutFault
  <1>1. Statuses /\ LeaseHeld /\ NoDuplicateWithoutFault /\ [Next]_vars
          => LeaseHeld' /\ NoDuplicateWithoutFault'
    BY LeaseHeldStep, OneCopyStep DEF Statuses
  <1> QED BY <1>1, NoDuplicateInit, StatusesInit, StatusesStep, PTL DEF Spec

-----------------------------------------------------------------------------
\* The conjunction of all the invariants holds at first and is kept by every step:
\* Pipeline needs no other fact to keep its promises.
THEOREM InvariantIsInductive ==
  /\ Init => IInv
  /\ IInv /\ [Next]_vars => IInv'
  <1>1. Init => IInv
    BY StatusesInit, EverywhereInit, NoDuplicateInit, PipelineAssumption
    DEF IInv, Statuses, Init, InitJob, StitchInv, AskedIsAssembled, AudioIsExcused,
        AudioIsThere, WorkInv, TaskMutex, NoWedge, OnlyAckedCrashStrands, Awaits, TasksOf,
        ParkedFirst, FailedIsParked
  <1>2. IInv /\ [Next]_vars => IInv'
    BY StatusesStep, AskedStep, AudioStep, ThereStep, WorkStep, NoWedgeStep, CarriedStep,
       ParkedStep, LeaseHeldStep, OneCopyStep
    DEF IInv, Statuses, StitchInv
  <1> QED BY <1>1, <1>2

=============================================================================
