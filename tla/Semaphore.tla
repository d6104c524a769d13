------------------------------ MODULE Semaphore -----------------------------
(***************************************************************************)
(* worker/locks.py, sem_acquire, sem_heartbeat and sem_release, as tts.py  *)
(* uses them: the Redis sorted set that caps the vendor calls of all       *)
(* workers.  This is the inside of the label "work" of TtsStage, between   *)
(* the claim of a task and the transaction that ends it.                   *)
(*                                                                         *)
(* The scores are times; what the trim tells apart is whether a score is   *)
(* older than LEASE_SECONDS.  Which tasks have a message to be claimed for *)
(* is the matter of Pipeline: here a PENDING task may be claimed any time. *)
(***************************************************************************)
EXTENDS Naturals, FiniteSets

CONSTANTS
  Workers,    \* worker processes
  Tasks,      \* TTS tasks; the task id is also the holder id of the slot
  MaxSlots,   \* config.TTS_MAX_CONCURRENCY
  MaxFaults,  \* bound: worker crashes
  MaxEarly,   \* bound: leases lost by a worker still at its task
  MaxLate,    \* bound: slots that age out under a worker still at work
  NoTask      \* a worker without a task

ASSUME SemaphoreAssumption ==
  /\ IsFiniteSet(Workers)
  /\ IsFiniteSet(Tasks)
  /\ MaxSlots \in Nat \ {0}
  /\ MaxFaults \in Nat /\ MaxEarly \in Nat /\ MaxLate \in Nat
  /\ NoTask \notin Tasks

VARIABLES
  task,     \* tasks.status
  slot,     \* member of the sorted set, and whether its score is too old
  pc,       \* where the handler of w stands
  on,       \* on[w]: the task it has claimed
  beating,  \* beating[w]: ZADDs of its heartbeat threads that are under way
  faults, early, late  \* count towards the bounds

vars == <<task, slot, pc, on, beating, faults, early, late>>
bounds == <<faults, early, late>>

Slots == {t \in Tasks : slot[t] # "none"}
Stale == {t \in Tasks : slot[t] = "stale"}

Goto(w, label) == pc' = [pc EXCEPT ![w] = label]

Init ==
  /\ task = [t \in Tasks |-> "PENDING"]
  /\ slot = [t \in Tasks |-> "none"]
  /\ pc = [w \in Workers |-> "idle"]
  /\ on = [w \in Workers |-> NoTask]
  /\ beating = [w \in Workers |-> {}]
  /\ faults = 0 /\ early = 0 /\ late = 0

\* The atomic claim; the wait for a slot comes after it.
Claim(w, t) ==
  /\ pc[w] = "idle"
  /\ task[t] = "PENDING"
  /\ task' = [task EXCEPT ![t] = "IN_PROGRESS"]
  /\ on' = [on EXCEPT ![w] = t]
  /\ Goto(w, "enter")
  /\ UNCHANGED <<slot, beating, bounds>>

\* The handler ends: the task gets its status, whatever it has meanwhile.
Leave(w, status) ==
  /\ task' = [task EXCEPT ![on[w]] = status]
  /\ on' = [on EXCEPT ![w] = NoTask]
  /\ Goto(w, "idle")
  /\ UNCHANGED <<slot, beating, bounds>>

\* The pipeline of ZREMRANGEBYSCORE and ZCARD at the head of the loop; a full
\* semaphore is polled again after 0.5 s.
SemCount(w) ==
  /\ pc[w] = "enter"
  /\ slot' = [t \in Tasks |-> IF t \in Stale THEN "none" ELSE slot[t]]
  /\ IF Cardinality(Slots \ Stale) < MaxSlots THEN Goto(w, "try") ELSE UNCHANGED pc
  /\ UNCHANGED <<task, on, beating, bounds>>

\* Variant: the count of the pipeline is trusted, without the script.
SemTryUnchecked(w) ==
  /\ pc[w] = "try"
  /\ slot' = [slot EXCEPT ![on[w]] = "fresh"]
  /\ Goto(w, "work")
  /\ UNCHANGED <<task, on, beating, bounds>>

\* The Lua script counts again and adds the holder in one step.  It trims with
\* the time its caller read before the pipeline, so it finds nothing more.
SemTry(w) ==
  /\ pc[w] = "try"
  /\ IF Cardinality(Slots) < MaxSlots
     THEN slot' = [slot EXCEPT ![on[w]] = "fresh"] /\ Goto(w, "work")
     ELSE Goto(w, "enter") /\ UNCHANGED slot
  /\ UNCHANGED <<task, on, beating, bounds>>

\* The deadline of 120 s passes: the claim is given back.
SemTimeout(w) ==
  /\ pc[w] = "enter"
  /\ Leave(w, "PENDING")

\* The heartbeat thread comes out of stop_hb.wait() with the flag not set ...
HeartbeatWakes(w) ==
  /\ pc[w] = "work"
  /\ beating' = [beating EXCEPT ![w] = @ \cup {on[w]}]
  /\ UNCHANGED <<task, slot, pc, on, bounds>>

\* Variant: the thread never looks at stop_hb.
HeartbeatForever(w, t) ==
  /\ t \in beating[w]
  /\ slot' = [slot EXCEPT ![t] = "fresh"]
  /\ UNCHANGED <<task, pc, on, beating, bounds>>

\* ... and its ZADD arrives, also when the handler has meanwhile released the
\* slot: nobody joins the thread.
SemHeartbeat(w, t) ==
  /\ t \in beating[w]
  /\ slot' = [slot EXCEPT ![t] = "fresh"]
  /\ beating' = [beating EXCEPT ![w] = @ \ {t}]
  /\ UNCHANGED <<task, pc, on, bounds>>

\* The synthesis has ended, well or badly: stop_hb.set().
StopHeartbeat(w) ==
  /\ pc[w] = "work"
  /\ Goto(w, "stop")
  /\ UNCHANGED <<task, slot, on, beating, bounds>>

SemRelease(w) ==
  /\ pc[w] = "stop"
  /\ slot' = [slot EXCEPT ![on[w]] = "none"]
  /\ Goto(w, "finish")
  /\ UNCHANGED <<task, on, beating, bounds>>

\* The completion transaction, or the except clause that gives the claim back.
Finish(w) ==
  /\ pc[w] = "finish"
  /\ \E status \in {"DONE", "PENDING"} : Leave(w, status)

Claimant(t) == \E w \in Workers : on[w] = t
Working(t)  == \E w \in Workers : pc[w] = "work" /\ on[w] = t

\* The lease of a claimed task has run out: the reaper resets it.
LeaseLost(t) ==
  /\ task[t] = "IN_PROGRESS"
  /\ Claimant(t) => early < MaxEarly
  /\ early' = IF Claimant(t) THEN early + 1 ELSE early
  /\ task' = [task EXCEPT ![t] = "PENDING"]
  /\ UNCHANGED <<slot, pc, on, beating, faults, late>>

\* LEASE_SECONDS pass since the last ZADD of the holder.  A heartbeat comes every
\* third of that: under a worker at work this takes a stalled thread or network.
AgeOut(t) ==
  /\ slot[t] = "fresh"
  /\ Working(t) => late < MaxLate
  /\ late' = IF Working(t) THEN late + 1 ELSE late
  /\ slot' = [slot EXCEPT ![t] = "stale"]
  /\ UNCHANGED <<task, pc, on, beating, faults, early>>

\* The process dies and is restarted; its slot and its claim stay behind.
Crash(w) ==
  /\ faults < MaxFaults
  /\ faults' = faults + 1
  /\ Goto(w, "idle")
  /\ on' = [on EXCEPT ![w] = NoTask]
  /\ beating' = [beating EXCEPT ![w] = {}]
  /\ UNCHANGED <<task, slot, early, late>>

-----------------------------------------------------------------------------
Next ==
  \/ \E w \in Workers :
       \/ \E t \in Tasks : Claim(w, t) \/ SemHeartbeat(w, t)
       \/ SemCount(w) \/ SemTry(w) \/ SemTimeout(w)
       \/ HeartbeatWakes(w) \/ StopHeartbeat(w)
       \/ SemRelease(w) \/ Finish(w)
       \/ Crash(w)
  \/ \E t \in Tasks : LeaseLost(t) \/ AgeOut(t)

Spec == Init /\ [][Next]_vars

\* A heartbeat under way arrives, and time passes.
Fairness ==
  /\ \A w \in Workers, t \in Tasks : WF_vars(SemHeartbeat(w, t))
  /\ \A t \in Tasks : WF_vars(~Working(t) /\ AgeOut(t))

LiveSpec == Spec /\ Fairness

-----------------------------------------------------------------------------
TypeOK ==
  /\ task \in [Tasks -> {"PENDING", "IN_PROGRESS", "DONE"}]
  /\ slot \in [Tasks -> {"none", "fresh", "stale"}]
  /\ pc \in [Workers -> {"idle", "enter", "try", "work", "stop", "finish"}]
  /\ on \in [Workers -> Tasks \cup {NoTask}]
  /\ \A w \in Workers : pc[w] = "idle" <=> on[w] = NoTask
  /\ beating \in [Workers -> SUBSET Tasks]
  /\ faults \in 0 .. MaxFaults
  /\ early \in 0 .. MaxEarly
  /\ late \in 0 .. MaxLate

Calls == {w \in Workers : pc[w] = "work"}

\* At most TTS_MAX_CONCURRENCY workers are at their vendor call, whatever crashes
\* and whichever heartbeat arrives after the release, unless a lease was lost
\* under its claimant (both then hold the one slot of the task) or a heartbeat was
\* late by two thirds of a lease.
CallsCapped == early = 0 /\ late = 0 => Cardinality(Calls) <= MaxSlots

\* A slot nobody works under any more ages out for good: crashes and heartbeats
\* that arrive after the release do not use up the semaphore.
SlotsReturn ==
  \A t \in Tasks : <>[](~Working(t)) => <>[](slot[t] # "fresh")

=============================================================================
