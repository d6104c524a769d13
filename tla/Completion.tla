------------------------------ MODULE Completion -----------------------------
(***************************************************************************)
(* The transactions that meet on the rows of one job, statement by         *)
(* statement under READ COMMITTED: the completion of a chunk               *)
(* (worker/stages/tts.py:173), the mark of a dead-lettered chunk           *)
(* (tts.py:273), the lease sweep of worker/main.py, and the statements     *)
(* around them.  Pipeline takes each of these transactions as one step.    *)
(*                                                                         *)
(* job and task hold what is committed.  A row is locked by whoever has    *)
(* updated it, or selected it FOR UPDATE, and has not ended its            *)
(* transaction: the labels tell.  A transaction of one UPDATE waits while  *)
(* its row is locked and is one step.  Which deliveries exist is the       *)
(* matter of Pipeline: here a claimable task may be claimed any time.      *)
(***************************************************************************)
EXTENDS Naturals, SequencesExt

CONSTANTS
  Workers,    \* consumer threads
  Reapers,    \* reaper threads
  Tasks,      \* the TTS tasks of the job
  MaxFaults,  \* bound: processes that die
  MaxEarly,   \* bound: leases that run out under a worker still at its task
  NoTask      \* a worker without a task

ASSUME CompletionAssumption ==
  /\ MaxFaults \in Nat /\ MaxEarly \in Nat
  /\ NoTask \notin Tasks
  /\ Workers \cap Reapers = {}
  /\ IsFiniteSet(Tasks) /\ Tasks # {}

VARIABLES
  job,          \* jobs.status
  task,         \* tasks.status
  expired,      \* tasks whose locked_until has passed
  overwritten,  \* ghost: tasks whose DONE a stale handler has overwritten
  pc,           \* where the handler of w stands
  on,           \* on[w]: the task of its delivery
  last,         \* last[w]: it has counted no other unfinished chunk
  todo,         \* todo[r]: rows the running UPDATE of the sweep has yet to visit
  held,         \* held[r]: rows it has reset
  stitching,    \* the stitch handler is past its guard
  seen,         \* the status a GET has read, before it reads the tasks
  faults, early \* count towards the bounds

handler == <<pc, on, last>>
sweep   == <<todo, held>>
others  == <<stitching, seen>>
bounds  == <<faults, early>>
vars == <<job, task, expired, overwritten, handler, sweep, others, bounds>>

Init ==
  /\ job = "PROCESSING"
  /\ task = [t \in Tasks |-> "PENDING"]
  /\ expired = {} /\ overwritten = {}
  /\ pc = [w \in Workers |-> "idle"]
  /\ on = [w \in Workers |-> NoTask]
  /\ last = [w \in Workers |-> FALSE]
  /\ todo = [r \in Reapers |-> <<>>]
  /\ held = [r \in Reapers |-> {}]
  /\ stitching = FALSE
  /\ seen = "none"
  /\ faults = 0 /\ early = 0

-----------------------------------------------------------------------------
(***************************************************************************)
(* Row locks.                                                              *)
(***************************************************************************)

JobHolders == {w \in Workers : pc[w] \in {"update", "count", "commit"}}

RowHolders(t) ==
  {w \in Workers : on[w] = t /\ pc[w] \in {"count", "commit", "markJob"}}
  \cup {r \in Reapers : t \in held[r]}

JobFree == JobHolders = {}
RowFree(t) == RowHolders(t) = {}

\* The transactions x waits for with a lock in hand.  One that waits with nothing
\* in hand blocks nobody.
Blockers(x) ==
  IF x \in Workers
  THEN IF pc[x] = "update" THEN RowHolders(on[x])
       ELSE IF pc[x] = "markJob" THEN JobHolders ELSE {}
  ELSE IF todo[x] # <<>> THEN RowHolders(Head(todo[x])) \ {x} ELSE {}

\* x and others wait for one another in a circle.
OnCycle(x) ==
  \E C \in SUBSET (Workers \cup Reapers) :
    x \in C /\ UNION {Blockers(y) : y \in C} = C

-----------------------------------------------------------------------------
Goto(w, label) == pc' = [pc EXCEPT ![w] = label] /\ UNCHANGED <<on, last>>

Rest(w) ==
  /\ pc' = [pc EXCEPT ![w] = "idle"]
  /\ on' = [on EXCEPT ![w] = NoTask]
  /\ last' = [last EXCEPT ![w] = FALSE]

\* What a write of status to the row of t makes of the ghost and the lease.
Write(t, status) ==
  /\ task' = [task EXCEPT ![t] = status]
  /\ expired' = expired \ {t}
  /\ overwritten' = IF status = "DONE" THEN overwritten \ {t}
                    ELSE overwritten \cup {u \in {t} : task[u] = "DONE"}

\* The atomic claim.
Claim(w, t) ==
  /\ pc[w] = "idle"
  /\ RowFree(t)
  /\ task[t] = "PENDING" \/ (task[t] = "IN_PROGRESS" /\ t \in expired)
  /\ Write(t, "IN_PROGRESS")
  /\ pc' = [pc EXCEPT ![w] = "work"]
  /\ on' = [on EXCEPT ![w] = t]
  /\ UNCHANGED <<job, last, sweep, others, bounds>>

\* Variant: the completion transaction of an earlier release, without the lock.
LockNothing(w) ==
  /\ pc[w] = "work"
  /\ Goto(w, "update")
  /\ UNCHANGED <<job, task, expired, overwritten, sweep, others, bounds>>

\* The synthesis has succeeded: SELECT 1 FROM jobs ... FOR UPDATE.
LockJob(w) ==
  /\ pc[w] = "work"
  /\ JobFree
  /\ Goto(w, "update")
  /\ UNCHANGED <<job, task, expired, overwritten, sweep, others, bounds>>

\* UPDATE tasks SET status='DONE' ..., whatever the status is.
UpdateTask(w) ==
  /\ pc[w] = "update"
  /\ RowFree(on[w])
  /\ Goto(w, "count")
  /\ UNCHANGED <<job, task, expired, overwritten, sweep, others, bounds>>

\* Variant: chunks that are in progress are not waited for.
CountPending(w) ==
  /\ pc[w] = "count"
  /\ last' = [last EXCEPT ![w] = \A u \in Tasks \ {on[w]} : task[u] # "PENDING"]
  /\ pc' = [pc EXCEPT ![w] = "commit"]
  /\ UNCHANGED <<job, task, expired, overwritten, on, sweep, others, bounds>>

\* SELECT count(*): the statement sees what is committed, and its own UPDATE.
Count(w) ==
  /\ pc[w] = "count"
  /\ last' = [last EXCEPT ![w] = \A u \in Tasks \ {on[w]} : task[u] = "DONE"]
  /\ pc' = [pc EXCEPT ![w] = "commit"]
  /\ UNCHANGED <<job, task, expired, overwritten, on, sweep, others, bounds>>

\* Variant: the flip forgets its condition on the status.
FlipAny(w) == last[w]

\* UPDATE jobs SET status='STITCHING' ... AND status='PROCESSING' finds its row.
Flips(w) == last[w] /\ job = "PROCESSING"

Commit(w) ==
  /\ pc[w] = "commit"
  /\ Write(on[w], "DONE")
  /\ job' = IF Flips(w) THEN "STITCHING" ELSE job
  /\ Rest(w)
  /\ UNCHANGED <<sweep, others, bounds>>

\* The synthesis or the wait for a slot has failed: UPDATE tasks SET
\* status='PENDING'.  The delivery is retried, or its retries are exhausted.
Release(w) ==
  /\ pc[w] = "work"
  /\ RowFree(on[w])
  /\ Write(on[w], "PENDING")
  /\ Rest(w) \/ Goto(w, "markTask")
  /\ UNCHANGED <<job, sweep, others, bounds>>

\* _send_to_dlq: the row of the task first ...
MarkTask(w) ==
  /\ pc[w] = "markTask"
  /\ RowFree(on[w])
  /\ Goto(w, "markJob")
  /\ UNCHANGED <<job, task, expired, overwritten, sweep, others, bounds>>

\* ... then the row of the job, and the commit.
MarkJob(w) ==
  /\ pc[w] = "markJob"
  /\ JobFree
  /\ Write(on[w], "FAILED")
  /\ job' = IF job = "COMPLETED" THEN job ELSE "FAILED"
  /\ Rest(w)
  /\ UNCHANGED <<sweep, others, bounds>>

-----------------------------------------------------------------------------
\* The UPDATE of the sweep finds the expired leases; it visits them in some order ...
SweepStart(r) ==
  LET found == {t \in expired : task[t] = "IN_PROGRESS"} IN
  /\ todo[r] = <<>> /\ held[r] = {} /\ found # {}
  /\ \E s \in SetToSeqs(found) : todo' = [todo EXCEPT ![r] = s]
  /\ UNCHANGED <<job, task, expired, overwritten, handler, held, others, bounds>>

\* ... waits for each row and looks at it again once it has the lock.
SweepRow(r) ==
  LET t == Head(todo[r]) IN
  /\ todo[r] # <<>>
  /\ RowHolders(t) \subseteq {r}
  /\ todo' = [todo EXCEPT ![r] = Tail(@)]
  /\ held' = [held EXCEPT ![r] = @ \cup {u \in expired \cap {t} : task[u] = "IN_PROGRESS"}]
  /\ UNCHANGED <<job, task, expired, overwritten, handler, others, bounds>>

\* Variant: a sweep that has reset a row leaves its transaction open.
SweepKeeps(r) ==
  /\ todo[r] = <<>> /\ held[r] # {}
  /\ UNCHANGED vars

SweepCommit(r) ==
  /\ todo[r] = <<>> /\ held[r] # {}
  /\ task' = [t \in Tasks |-> IF t \in held[r] THEN "PENDING" ELSE task[t]]
  /\ expired' = expired \ held[r]
  /\ held' = [held EXCEPT ![r] = {}]
  /\ UNCHANGED <<job, overwritten, handler, todo, others, bounds>>

\* The stitch handler reads STITCHING, and completes the job some time later.
StitchGuard ==
  /\ job = "STITCHING"
  /\ stitching' = TRUE
  /\ UNCHANGED <<job, task, expired, overwritten, handler, sweep, seen, bounds>>

StitchComplete ==
  /\ stitching /\ JobFree
  /\ job' = "COMPLETED"
  /\ stitching' = FALSE
  /\ UNCHANGED <<task, expired, overwritten, handler, sweep, seen, bounds>>

\* GET /jobs/{id} reads the job row, then, with a new snapshot, its tasks.
GetJob ==
  /\ seen = "none"
  /\ seen' = job
  /\ UNCHANGED <<job, task, expired, overwritten, handler, sweep, stitching, bounds>>

GetTasks ==
  /\ seen # "none"
  /\ seen' = "none"
  /\ UNCHANGED <<job, task, expired, overwritten, handler, sweep, stitching, bounds>>

-----------------------------------------------------------------------------
Claimant(t) == \E w \in Workers : on[w] = t

LeaseExpires(t) ==
  /\ task[t] = "IN_PROGRESS" /\ t \notin expired
  /\ Claimant(t) => early < MaxEarly
  /\ early' = IF Claimant(t) THEN early + 1 ELSE early
  /\ expired' = expired \cup {t}
  /\ UNCHANGED <<job, task, overwritten, handler, sweep, others, faults>>

\* The process dies; Postgres rolls its transaction back.
Crash(w) ==
  /\ pc[w] # "idle"
  /\ faults < MaxFaults
  /\ faults' = faults + 1
  /\ Rest(w)
  /\ UNCHANGED <<job, task, expired, overwritten, sweep, others, early>>

\* Postgres aborts one of a circle of waiting transactions.  The exception ends
\* the handler's process; the sweep catches it and rolls back.
Deadlock(x) ==
  /\ OnCycle(x)
  /\ IF x \in Workers
     THEN Rest(x) /\ UNCHANGED sweep
     ELSE /\ todo' = [todo EXCEPT ![x] = <<>>]
          /\ held' = [held EXCEPT ![x] = {}]
          /\ UNCHANGED handler
  /\ UNCHANGED <<job, task, expired, overwritten, others, bounds>>

Statement(w) == UpdateTask(w) \/ Count(w) \/ Commit(w) \/ MarkJob(w)

Next ==
  \/ \E w \in Workers :
       \/ \E t \in Tasks : Claim(w, t)
       \/ LockJob(w) \/ Release(w) \/ MarkTask(w) \/ Statement(w)
       \/ Crash(w)
  \/ \E r \in Reapers : SweepStart(r) \/ SweepRow(r) \/ SweepCommit(r)
  \/ \E x \in Workers \cup Reapers : Deadlock(x)
  \/ \E t \in Tasks : LeaseExpires(t)
  \/ StitchGuard \/ StitchComplete \/ GetJob \/ GetTasks

Spec == Init /\ [][Next]_vars

\* Postgres queues the waiters of a row, so that one whose lock becomes free again
\* and again gets it, and looks for circles.
Fairness ==
  /\ \A w \in Workers : SF_vars(Statement(w))
  /\ \A r \in Reapers : SF_vars(SweepRow(r)) /\ WF_vars(SweepCommit(r))
  /\ \A x \in Workers \cup Reapers : WF_vars(Deadlock(x))

LiveSpec == Spec /\ Fairness

-----------------------------------------------------------------------------
TypeOK ==
  /\ job \in {"PROCESSING", "STITCHING", "COMPLETED", "FAILED"}
  /\ task \in [Tasks -> {"PENDING", "IN_PROGRESS", "DONE", "FAILED"}]
  /\ expired \subseteq Tasks /\ overwritten \subseteq Tasks
  /\ pc \in [Workers -> {"idle", "work", "update", "count", "commit",
                         "markTask", "markJob"}]
  /\ on \in [Workers -> Tasks \cup {NoTask}]
  /\ \A w \in Workers : pc[w] = "idle" <=> on[w] = NoTask
  /\ last \in [Workers -> BOOLEAN]
  /\ todo \in [Reapers -> Seq(Tasks)]
  /\ held \in [Reapers -> SUBSET Tasks]
  /\ stitching \in BOOLEAN
  /\ seen \in {"none", "PROCESSING", "STITCHING", "COMPLETED", "FAILED"}
  /\ faults \in 0 .. MaxFaults
  /\ early \in 0 .. MaxEarly

\* No interleaving of the statements leaves the job PROCESSING with all chunks DONE:
\* what DESIGN.md 9.2 reports of the release without the job-row lock.
NeverWedged == job = "PROCESSING" => \E t \in Tasks : task[t] # "DONE"

\* A GET that has read STITCHING or COMPLETED goes on to list every task as DONE,
\* although the two statements see different snapshots; only a chunk whose DONE a
\* stale handler has overwritten may show otherwise.
AnswerConsistent ==
  seen \in {"STITCHING", "COMPLETED"} => \A t \in Tasks : task[t] = "DONE" \/ t \in overwritten

\* The transactions look atomic, and the completion check counts right.
Promise == INSTANCE CompletionPromise
ImplementsPromise == Promise!Spec

\* Every transaction with a lock in hand ends, although _send_to_dlq takes its locks
\* in the opposite order and the sweep in any order.
TransactionsEnd ==
  /\ \A w \in Workers :
       pc[w] \in {"update", "count", "commit", "markJob"} ~> pc[w] = "idle"
  /\ \A r \in Reapers : held[r] # {} ~> held[r] = {}

=============================================================================
