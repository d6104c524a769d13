---------------------------- MODULE SynthesisCache ---------------------------
(***************************************************************************)
(* The content cache of worker/locks.py and the loop of tts.py around it:  *)
(* a Redis entry per content hash that names an audio object, and a Redis  *)
(* lock with a TTL that is to let one worker at a time synthesise a text.  *)
(* This is, with Semaphore, the inside of the label "work" of TtsStage.    *)
(*                                                                         *)
(* The vendor call and the upload are one step each; both may fail.  The   *)
(* object of a task is named after the task, so that a key is a task.      *)
(***************************************************************************)
EXTENDS Naturals, FiniteSets

CONSTANTS
  Workers,    \* worker processes
  Tasks,      \* TTS tasks
  Hashes,     \* content hashes: speaker and text
  HashOf,     \* tasks.input_hash
  MaxFaults,  \* bound: crashes, failed calls and uploads
  MaxLate,    \* bound: TTLs that run out under the synthesis they protect
  NoTask,     \* no task, and no key
  Free, Dead  \* a lock that nobody has, that a dead process has left

ASSUME CacheAssumption ==
  /\ IsFiniteSet(Workers)
  /\ HashOf \in [Tasks -> Hashes]
  /\ MaxFaults \in Nat /\ MaxLate \in Nat
  /\ NoTask \notin Tasks
  /\ Free \notin Workers /\ Dead \notin Workers /\ Free # Dead

VARIABLES
  entry,   \* tts:cache:<hash>
  lock,    \* tts:lock:<hash>; who set it is not in Redis
  stored,  \* the chunk objects in MinIO
  output,  \* output_key of the tasks whose synthesis has succeeded
  pc,      \* where the handler of w stands
  on,      \* on[w]: its task
  key,     \* key[w]: output_key, its local variable
  faults, late  \* count towards the bounds

redis == <<entry, lock>>
local == <<pc, on, key>>
bounds == <<faults, late>>
vars == <<entry, lock, stored, output, local, bounds>>

Init ==
  /\ entry = [h \in Hashes |-> NoTask]
  /\ lock = [h \in Hashes |-> Free]
  /\ stored = {}
  /\ output = [t \in Tasks |-> NoTask]
  /\ pc = [w \in Workers |-> "idle"]
  /\ on = [w \in Workers |-> NoTask]
  /\ key = [w \in Workers |-> NoTask]
  /\ faults = 0 /\ late = 0

Hash(w) == HashOf[on[w]]

Goto(w, label) == pc' = [pc EXCEPT ![w] = label]

\* cache_get into output_key, and on to where a hit or a miss leads.
Get(w, hit, miss) ==
  /\ key' = [key EXCEPT ![w] = entry[Hash(w)]]
  /\ Goto(w, IF entry[Hash(w)] # NoTask THEN hit ELSE miss)
  /\ UNCHANGED on

\* The workers that hold, or believe to hold, the lock of h.
Inside(h) ==
  {w \in Workers : pc[w] \in {"recheck", "call", "put", "set", "unlock"} /\ HashOf[on[w]] = h}

\* A worker has claimed t and got a slot.  After a lost lease two of them have t.
Begin(w, t) ==
  /\ pc[w] = "idle" /\ output[t] = NoTask
  /\ on' = [on EXCEPT ![w] = t]
  /\ Goto(w, "get")
  /\ UNCHANGED <<redis, stored, output, key, bounds>>

CacheGet(w) ==
  /\ pc[w] = "get"
  /\ Get(w, "done", "try")
  /\ UNCHANGED <<redis, stored, output, bounds>>

\* Variant: SET without NX.
AcquireAlways(w) ==
  /\ pc[w] = "try"
  /\ lock' = [lock EXCEPT ![Hash(w)] = w] /\ Goto(w, "recheck")
  /\ UNCHANGED <<entry, stored, output, on, key, bounds>>

\* cache_lock_acquire: SET NX EX.
LockAcquire(w) ==
  /\ pc[w] = "try"
  /\ IF lock[Hash(w)] = Free
     THEN lock' = [lock EXCEPT ![Hash(w)] = w] /\ Goto(w, "recheck")
     ELSE Goto(w, "wait") /\ UNCHANGED lock
  /\ UNCHANGED <<entry, stored, output, on, key, bounds>>

\* Variant: the first look at the cache is enough.
NoRecheck(w) ==
  /\ pc[w] = "recheck"
  /\ Goto(w, "call")
  /\ UNCHANGED <<redis, stored, output, on, key, bounds>>

\* The second look, with the lock in hand.
Recheck(w) ==
  /\ pc[w] = "recheck"
  /\ Get(w, "unlock", "call")
  /\ UNCHANGED <<redis, stored, output, bounds>>

\* The vendor answers.
Call(w) ==
  /\ pc[w] = "call"
  /\ Goto(w, "put")
  /\ UNCHANGED <<redis, stored, output, on, key, bounds>>

\* Variant: the key is handed on before the upload, which may never happen.
PutLater(w) ==
  /\ pc[w] = "put"
  /\ key' = [key EXCEPT ![w] = on[w]]
  /\ Goto(w, "set")
  /\ UNCHANGED <<redis, stored, output, on, bounds>>

PutObject(w) ==
  /\ pc[w] = "put"
  /\ stored' = stored \cup {on[w]}
  /\ key' = [key EXCEPT ![w] = on[w]]
  /\ Goto(w, "set")
  /\ UNCHANGED <<redis, output, on, bounds>>

CacheSet(w) ==
  /\ pc[w] = "set"
  /\ entry' = [entry EXCEPT ![Hash(w)] = key[w]]
  /\ Goto(w, "unlock")
  /\ UNCHANGED <<lock, stored, output, on, key, bounds>>

\* An exception of the call or the upload, to the finally clause.
SynthesisFails(w) ==
  /\ pc[w] \in {"call", "put"}
  /\ faults < MaxFaults /\ faults' = faults + 1
  /\ Goto(w, "unlock")
  /\ UNCHANGED <<redis, stored, output, on, key, late>>

\* cache_lock_release: DELETE, whoever holds the lock by now.
LockRelease(w) ==
  /\ pc[w] = "unlock"
  /\ lock' = [lock EXCEPT ![Hash(w)] = Free]
  /\ Goto(w, "done")
  /\ UNCHANGED <<entry, stored, output, on, key, bounds>>

\* cache_wait: the entry has appeared, or the wait of TTL + 2 s is over.
CacheWait(w) ==
  /\ pc[w] = "wait"
  /\ Get(w, "done", "try")
  /\ UNCHANGED <<redis, stored, output, bounds>>

\* The deadline of 120 s has passed: output_key is still empty.
Deadline(w) ==
  /\ pc[w] = "try"
  /\ Goto(w, "done")
  /\ UNCHANGED <<redis, stored, output, on, key, bounds>>

Rest(w) ==
  /\ Goto(w, "idle")
  /\ on' = [on EXCEPT ![w] = NoTask]
  /\ key' = [key EXCEPT ![w] = NoTask]

\* The task is completed with output_key, or given back without one.
Finish(w) ==
  /\ pc[w] = "done"
  /\ output' = IF key[w] = NoTask THEN output ELSE [output EXCEPT ![on[w]] = key[w]]
  /\ Rest(w)
  /\ UNCHANGED <<redis, stored, bounds>>

\* The process dies and is restarted.  Its lock stays.
Crash(w) ==
  /\ pc[w] # "idle"
  /\ faults < MaxFaults /\ faults' = faults + 1
  /\ lock' = [h \in Hashes |-> IF lock[h] = w THEN Dead ELSE lock[h]]
  /\ Rest(w)
  /\ UNCHANGED <<entry, stored, output, late>>

\* Variant: a lock without TTL.
NeverExpires(h) ==
  /\ lock[h] = Dead
  /\ UNCHANGED vars

\* CACHE_LOCK_TTL has passed since the lock was set.  A call may take 60 s, the
\* TTL is 10 s unless the simulated synthesis is longer.
LockExpires(h) ==
  /\ lock[h] # Free
  /\ lock[h] # Dead => late < MaxLate
  /\ late' = IF lock[h] = Dead THEN late ELSE late + 1
  /\ lock' = [lock EXCEPT ![h] = Free]
  /\ UNCHANGED <<entry, stored, output, local, faults>>

-----------------------------------------------------------------------------
Step(w) ==
  \/ CacheGet(w) \/ LockAcquire(w) \/ Recheck(w) \/ Call(w) \/ PutObject(w)
  \/ CacheSet(w) \/ LockRelease(w) \/ CacheWait(w) \/ Finish(w)

Next ==
  \/ \E w \in Workers :
       \/ \E t \in Tasks : Begin(w, t)
       \/ Step(w) \/ SynthesisFails(w) \/ Deadline(w) \/ Crash(w)
  \/ \E h \in Hashes : LockExpires(h)

Spec == Init /\ [][Next]_vars

\* A handler goes on, and the lock of a dead process expires.
Fairness ==
  /\ \A w \in Workers : WF_vars(Step(w))
  /\ \A h \in Hashes : WF_vars(lock[h] = Dead /\ LockExpires(h))

LiveSpec == Spec /\ Fairness

-----------------------------------------------------------------------------
TypeOK ==
  /\ entry \in [Hashes -> Tasks \cup {NoTask}]
  /\ lock \in [Hashes -> Workers \cup {Free, Dead}]
  /\ stored \subseteq Tasks
  /\ output \in [Tasks -> Tasks \cup {NoTask}]
  /\ pc \in [Workers -> {"idle", "get", "try", "recheck", "call", "put", "set",
                         "unlock", "wait", "done"}]
  /\ on \in [Workers -> Tasks \cup {NoTask}]
  /\ \A w \in Workers : pc[w] = "idle" <=> on[w] = NoTask
  /\ key \in [Workers -> Tasks \cup {NoTask}]
  /\ faults \in 0 .. MaxFaults
  /\ late \in 0 .. MaxLate

\* Whatever crashes or expires, the key a task is completed with names an object
\* that exists and holds the audio of the task's own speaker and text ("never
\* corruption", locks.py:47).
OutputReadable ==
  \A t \in Tasks :
    output[t] # NoTask => output[t] \in stored /\ HashOf[output[t]] = HashOf[t]

\* Each TTL that runs out under a synthesis, and the foreign DELETE that may follow,
\* let at most one more worker in at a time, however often the lock changes hands.
StampedeBounded == \A h \in Hashes : Cardinality(Inside(h)) <= 1 + late

\* While no TTL has run out under a synthesis, a text that is cached is never sent
\* to the vendor again.
NeverPaidTwice ==
  late = 0 => \A w \in Workers : pc[w] \in {"call", "put"} => entry[Hash(w)] = NoTask

\* Every worker gets to an end, its crashed or failing peers notwithstanding, without
\* the help of the deadline of 120 s: DESIGN.md 9.5.
WaitersReleased == \A w \in Workers : pc[w] # "idle" ~> pc[w] = "idle"

=============================================================================
