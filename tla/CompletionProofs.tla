--------------------------- MODULE CompletionProofs --------------------------
(***************************************************************************)
(* The transactions on the rows of one job look atomic for any number of   *)
(* workers, reapers and tasks, whatever crashes, is aborted or loses its   *)
(* lease: Completion implements CompletionPromise, the last chunk flips    *)
(* the job, and the answers of GET are consistent.                         *)
(***************************************************************************)
EXTENDS Completion, FiniteSetTheorems, TLAPS

-----------------------------------------------------------------------------
(***************************************************************************)
(* Types.                                                                  *)
(***************************************************************************)

LEMMA Nil == <<>> \in Seq(Tasks)
  OBVIOUS

LEMMA TypeInit == Init => TypeOK
  <1> SUFFICES ASSUME Init PROVE TypeOK
    OBVIOUS
  <1>1. todo \in [Reapers -> Seq(Tasks)]
    BY Nil DEF Init
  <1>2. faults \in 0 .. MaxFaults /\ early \in 0 .. MaxEarly
    BY CompletionAssumption DEF Init
  <1> QED BY <1>1, <1>2 DEF Init, TypeOK

\* What a handler at work is about.
LEMMA OnTask ==
  ASSUME TypeOK, NEW w \in Workers, pc[w] # "idle" PROVE on[w] \in Tasks
  BY DEF TypeOK

LEMMA SequencesOfASet ==
  ASSUME NEW S \in SUBSET Tasks, NEW s \in SetToSeqs(S) PROVE s \in Seq(Tasks)
  <1>1. Cardinality(S) \in Nat
    BY CompletionAssumption, FS_Subset, FS_CardinalityType
  <1>2. s \in [1 .. Cardinality(S) -> S]
    BY DEF SetToSeqs
  <1> QED BY <1>1, <1>2

LEMMA HandlerTypes ==
  ASSUME TypeOK, NEW w \in Workers,
         \/ \E t \in Tasks : Claim(w, t)
         \/ LockJob(w) \/ Release(w) \/ MarkTask(w) \/ Statement(w)
  PROVE  TypeOK'
  <1> USE DEF TypeOK, handler, sweep, others, bounds
  <1>1. ASSUME NEW t \in Tasks, Claim(w, t) PROVE TypeOK'
    BY <1>1, CompletionAssumption DEF Claim, Write
  <1>2. CASE LockJob(w)
    BY <1>2 DEF LockJob, Goto
  <1>3. CASE Release(w)
    BY <1>3, OnTask DEF Release, Write, Rest, Goto
  <1>4. CASE MarkTask(w)
    BY <1>4 DEF MarkTask, Goto
  <1>5. CASE UpdateTask(w)
    BY <1>5 DEF UpdateTask, Goto
  <1>6. CASE Count(w)
    BY <1>6 DEF Count
  <1>7. CASE Commit(w)
    BY <1>7, OnTask DEF Commit, Write, Rest
  <1>8. CASE MarkJob(w)
    BY <1>8, OnTask DEF MarkJob, Write, Rest
  <1> QED BY <1>1, <1>2, <1>3, <1>4, <1>5, <1>6, <1>7, <1>8 DEF Statement

LEMMA SweepTypes ==
  ASSUME TypeOK, NEW r \in Reapers, SweepStart(r) \/ SweepRow(r) \/ SweepCommit(r)
  PROVE  TypeOK'
  <1> USE DEF TypeOK, handler, sweep, others, bounds
  <1>1. CASE SweepStart(r)
    <2> DEFINE found == {t \in expired : task[t] = "IN_PROGRESS"}
    <2>1. PICK s \in SetToSeqs(found) : todo' = [todo EXCEPT ![r] = s]
      BY <1>1 DEF SweepStart
    <2>2. found \in SUBSET Tasks
      OBVIOUS
    <2>3. s \in Seq(Tasks)
      BY <2>1, <2>2, SequencesOfASet
    <2> HIDE DEF found
    <2> QED BY <1>1, <2>1, <2>3 DEF SweepStart
  <1>2. CASE SweepRow(r)
    BY <1>2 DEF SweepRow
  <1>3. CASE SweepCommit(r)
    BY <1>3 DEF SweepCommit
  <1> QED BY <1>1, <1>2, <1>3

LEMMA OtherTypes ==
  ASSUME TypeOK,
         \/ \E w \in Workers : Crash(w)
         \/ \E x \in Workers \cup Reapers : Deadlock(x)
         \/ \E t \in Tasks : LeaseExpires(t)
         \/ StitchGuard \/ StitchComplete \/ GetJob \/ GetTasks
         \/ UNCHANGED vars
  PROVE  TypeOK'
  <1> USE DEF TypeOK, handler, sweep, others, bounds
  <1>1. ASSUME NEW w \in Workers, Crash(w) PROVE TypeOK'
    BY <1>1, CompletionAssumption DEF Crash, Rest
  <1>2. ASSUME NEW x \in Workers \cup Reapers, Deadlock(x) PROVE TypeOK'
    <2>1. CASE x \in Workers
      BY <1>2, <2>1 DEF Deadlock, Rest
    <2>2. CASE x \notin Workers
      <3>1. /\ todo' = [todo EXCEPT ![x] = <<>>]
            /\ held' = [held EXCEPT ![x] = {}]
            /\ UNCHANGED <<job, task, expired, overwritten, handler, others, bounds>>
        BY <1>2, <2>2 DEF Deadlock
      <3>2. todo' \in [Reapers -> Seq(Tasks)]
        BY <3>1, Nil
      <3>3. held' \in [Reapers -> SUBSET Tasks]
        BY <3>1
      <3> QED BY <3>1, <3>2, <3>3
    <2> QED BY <2>1, <2>2
  <1>3. ASSUME NEW t \in Tasks, LeaseExpires(t) PROVE TypeOK'
    BY <1>3, CompletionAssumption DEF LeaseExpires
  <1>4. CASE StitchGuard \/ StitchComplete \/ GetJob \/ GetTasks
    BY <1>4 DEF StitchGuard, StitchComplete, GetJob, GetTasks
  <1>5. CASE UNCHANGED vars
    BY <1>5 DEF vars
  <1> QED BY <1>1, <1>2, <1>3, <1>4, <1>5

LEMMA TypeStep == ASSUME TypeOK, [Next]_vars PROVE TypeOK'
  BY HandlerTypes, SweepTypes, OtherTypes DEF Next

\* The variables of Completion keep their types.
THEOREM TypeCorrect == Spec => []TypeOK
  BY TypeInit, TypeStep, PTL DEF Spec

-----------------------------------------------------------------------------
(***************************************************************************)
(* The invariant.                                                          *)
(***************************************************************************)

\* A row is locked by one transaction.
JobExclusive == \A v, w \in JobHolders : v = w

RowExclusive == \A t \in Tasks : \A x, y \in RowHolders(t) : x = y

\* What the sweep has reset is a claim that had expired.
HeldClaims == \A r \in Reapers : \A t \in held[r] : task[t] = "IN_PROGRESS"

\* Every chunk is DONE, or its DONE has been overwritten.
Finished(u) == task[u] = "DONE" \/ u \in overwritten

\* What a finisher has counted still holds when it commits, since it holds the job row.
Counted ==
  \A w \in Workers :
    pc[w] = "commit" =>
      IF last[w] THEN \A u \in Tasks \ {on[w]} : Finished(u)
                 ELSE \E u \in Tasks \ {on[w]} : task[u] # "DONE"

\* Who goes by STITCHING or COMPLETED finds the chunks finished.
Assembled ==
  job \in {"STITCHING", "COMPLETED"} \/ seen \in {"STITCHING", "COMPLETED"} \/ stitching =>
    \A u \in Tasks : Finished(u)

Stitched == stitching => job # "PROCESSING"

IInv ==
  /\ TypeOK
  /\ JobExclusive /\ RowExclusive /\ HeldClaims
  /\ Counted /\ NeverWedged /\ Assembled /\ Stitched

LEMMA InvInit == Init => IInv
  <1> SUFFICES ASSUME Init PROVE IInv
    OBVIOUS
  <1>1. TypeOK
    BY TypeInit
  <1>2. JobExclusive /\ RowExclusive /\ HeldClaims
    BY DEF Init, JobExclusive, RowExclusive, HeldClaims, JobHolders, RowHolders
  <1>3. Counted /\ NeverWedged /\ Assembled /\ Stitched
    BY CompletionAssumption DEF Init, Counted, NeverWedged, Assembled, Stitched
  <1> QED BY <1>1, <1>2, <1>3 DEF IInv

-----------------------------------------------------------------------------
(***************************************************************************)
(* Locks.                                                                  *)
(***************************************************************************)

\* One that is not there yet gets the lock of the job row when nobody has it.
LEMMA JobHoldersStep ==
  ASSUME TypeOK, Next, NEW v \in JobHolders'
  PROVE  v \in JobHolders \/ (JobHolders = {} /\ \A u \in JobHolders' : u = v)
  <1> USE DEF TypeOK, JobHolders, handler
  <1>1. ASSUME NEW w \in Workers,
               \/ \E t \in Tasks : Claim(w, t)
               \/ Release(w) \/ MarkTask(w) \/ Statement(w) \/ Crash(w)
        PROVE  v \in JobHolders
    BY <1>1 DEF Claim, Release, MarkTask, Statement, UpdateTask, Count, Commit, MarkJob,
                Crash, Rest, Goto
  <1>2. ASSUME NEW w \in Workers, LockJob(w)
        PROVE  JobHolders = {} /\ \A u \in JobHolders' : u = v
    BY <1>2 DEF LockJob, JobFree, Goto
  <1>3. ASSUME NEW x \in Workers \cup Reapers, Deadlock(x) PROVE v \in JobHolders
    BY <1>3 DEF Deadlock, Rest
  <1>4. ASSUME \/ \E r \in Reapers : SweepStart(r) \/ SweepRow(r) \/ SweepCommit(r)
               \/ \E t \in Tasks : LeaseExpires(t)
               \/ StitchGuard \/ StitchComplete \/ GetJob \/ GetTasks
        PROVE  v \in JobHolders
    BY <1>4 DEF SweepStart, SweepRow, SweepCommit, LeaseExpires, StitchGuard,
                StitchComplete, GetJob, GetTasks
  <1> QED BY <1>1, <1>2, <1>3, <1>4 DEF Next

LEMMA JobExclusiveStep == ASSUME TypeOK, JobExclusive, Next PROVE JobExclusive'
  BY JobHoldersStep DEF JobExclusive

\* The same of the row of a task.
LEMMA RowHoldersStep ==
  ASSUME TypeOK, Next, NEW t \in Tasks
  PROVE  \/ RowHolders(t)' \subseteq RowHolders(t)
         \/ \E x : RowHolders(t)' \subseteq {x}
  <1> USE DEF TypeOK, RowHolders, handler, sweep
  <1>1. ASSUME NEW w \in Workers,
               \/ \E u \in Tasks : Claim(w, u)
               \/ LockJob(w) \/ Release(w) \/ Count(w) \/ Commit(w) \/ MarkJob(w) \/ Crash(w)
        PROVE  RowHolders(t)' \subseteq RowHolders(t)
    BY <1>1 DEF Claim, LockJob, Release, Count, Commit, MarkJob, Crash, Rest, Goto
  <1>2. ASSUME NEW w \in Workers, MarkTask(w) \/ UpdateTask(w)
        PROVE  \/ RowHolders(t)' \subseteq RowHolders(t)
               \/ RowHolders(t)' \subseteq {w}
    BY <1>2 DEF MarkTask, UpdateTask, RowFree, Goto
  <1>3. ASSUME NEW r \in Reapers, SweepRow(r)
        PROVE  \/ RowHolders(t)' \subseteq RowHolders(t)
               \/ RowHolders(t)' \subseteq {r}
    <2>1. CASE t = Head(todo[r])
      BY <1>3, <2>1 DEF SweepRow
    <2>2. CASE t # Head(todo[r])
      BY <1>3, <2>2 DEF SweepRow
    <2> QED BY <2>1, <2>2
  <1>4. ASSUME NEW r \in Reapers, SweepStart(r) \/ SweepCommit(r)
        PROVE  RowHolders(t)' \subseteq RowHolders(t)
    BY <1>4 DEF SweepStart, SweepCommit
  <1>5. ASSUME NEW x \in Workers \cup Reapers, Deadlock(x)
        PROVE  RowHolders(t)' \subseteq RowHolders(t)
    <2>1. CASE x \in Workers
      BY <1>5, <2>1 DEF Deadlock, Rest
    <2>2. CASE x \notin Workers
      BY <1>5, <2>2 DEF Deadlock
    <2> QED BY <2>1, <2>2
  <1>6. ASSUME \/ \E u \in Tasks : LeaseExpires(u)
               \/ StitchGuard \/ StitchComplete \/ GetJob \/ GetTasks
        PROVE  RowHolders(t)' \subseteq RowHolders(t)
    BY <1>6 DEF LeaseExpires, StitchGuard, StitchComplete, GetJob, GetTasks
  <1> HIDE DEF RowHolders
  <1> QED BY <1>1, <1>2, <1>3, <1>4, <1>5, <1>6 DEF Next, Statement

LEMMA RowExclusiveStep == ASSUME TypeOK, RowExclusive, Next PROVE RowExclusive'
  BY RowHoldersStep DEF RowExclusive

\* A sweep that has reset a row holds it alone.
LEMMA HeldAlone ==
  ASSUME RowExclusive, NEW r \in Reapers, NEW t \in held[r], t \in Tasks
  PROVE  RowHolders(t) = {r}
  BY DEF RowExclusive, RowHolders

LEMMA HeldClaimsStep ==
  ASSUME TypeOK, RowExclusive, HeldClaims, Next PROVE HeldClaims'
  <1> SUFFICES ASSUME NEW r \in Reapers, NEW t \in held'[r] PROVE task'[t] = "IN_PROGRESS"
    BY DEF HeldClaims
  <1> USE DEF TypeOK, handler, sweep
  <1>1. CASE \E q \in Reapers : SweepRow(q)
    BY <1>1 DEF SweepRow, HeldClaims
  <1>2. CASE ~ \E q \in Reapers : SweepRow(q)
    <2>1. t \in held[r]
      BY <1>2 DEF Next, Statement, Claim, LockJob, Release, MarkTask, UpdateTask, Count,
                  Commit, MarkJob, Crash, Deadlock, SweepStart, SweepCommit, LeaseExpires,
                  StitchGuard, StitchComplete, GetJob, GetTasks
    <2>2. task[t] = "IN_PROGRESS" /\ t \in Tasks /\ RowHolders(t) = {r} /\ r \notin Workers
      BY <2>1, HeldAlone, CompletionAssumption DEF HeldClaims
    <2>3. ASSUME NEW w \in Workers, NEW u \in Tasks, Claim(w, u) PROVE task'[t] = task[t]
      BY <2>2, <2>3 DEF Claim, Write, RowFree
    <2>4. ASSUME NEW w \in Workers, Release(w) PROVE task'[t] = task[t]
      BY <2>2, <2>4 DEF Release, Write, RowFree
    <2>5. ASSUME NEW w \in Workers, Commit(w) \/ MarkJob(w) PROVE task'[t] = task[t]
      <3>1. w \in RowHolders(on[w])
        BY <2>5 DEF Commit, MarkJob, RowHolders
      <3>2. on[w] # t
        BY <2>2, <3>1
      <3> QED BY <2>5, <3>2 DEF Commit, MarkJob, Write
    <2>6. ASSUME NEW q \in Reapers, SweepCommit(q) PROVE task'[t] = task[t]
      <3>1. q # r
        BY <2>6 DEF SweepCommit
      <3>2. t \notin held[q]
        BY <2>2, <3>1 DEF RowHolders
      <3> QED BY <2>2, <2>6, <3>2 DEF SweepCommit
    <2>7. CASE UNCHANGED task
      BY <2>2, <2>7
    <2>8. UNCHANGED task \/ (\E w \in Workers : (\E u \in Tasks : Claim(w, u)) \/ Release(w)
            \/ Commit(w) \/ MarkJob(w)) \/ \E q \in Reapers : SweepCommit(q)
      BY <1>2 DEF Next, Statement, LockJob, MarkTask, UpdateTask, Count, Crash, Deadlock,
                  SweepStart, LeaseExpires, StitchGuard, StitchComplete, GetJob, GetTasks
    <2> QED BY <2>2, <2>3, <2>4, <2>5, <2>6, <2>7, <2>8
  <1> QED BY <1>1, <1>2

-----------------------------------------------------------------------------
(***************************************************************************)
(* What a step does to the rows.                                           *)
(***************************************************************************)

\* A transaction that writes one row of a task and leaves the job alone, or marks it.
WritesBelow(w, t) ==
  /\ \E status \in {"IN_PROGRESS", "PENDING", "FAILED"} : Write(t, status)
  /\ job' \in {job, "FAILED"} /\ (job = "COMPLETED" => job' = job)
  /\ UNCHANGED others

LEMMA RowStep ==
  ASSUME TypeOK, Next
  PROVE  \/ \E w \in Workers : Commit(w)
         \/ \E w \in Workers, t \in Tasks : WritesBelow(w, t)
         \/ \E r \in Reapers : SweepCommit(r)
         \/ StitchGuard \/ StitchComplete \/ GetJob \/ GetTasks
         \/ UNCHANGED <<job, task, overwritten, others>>
  <1>1. ASSUME NEW w \in Workers, NEW t \in Tasks, Claim(w, t) PROVE WritesBelow(w, t)
    BY <1>1 DEF Claim, WritesBelow
  <1>2. ASSUME NEW w \in Workers, Release(w) \/ MarkJob(w)
        PROVE  WritesBelow(w, on[w]) /\ on[w] \in Tasks
    BY <1>2, OnTask DEF Release, MarkJob, WritesBelow
  <1>3. ASSUME \/ \E w \in Workers : LockJob(w) \/ MarkTask(w) \/ UpdateTask(w) \/ Count(w)
                                   \/ Crash(w)
               \/ \E r \in Reapers : SweepStart(r) \/ SweepRow(r)
               \/ \E x \in Workers \cup Reapers : Deadlock(x)
               \/ \E t \in Tasks : LeaseExpires(t)
        PROVE  UNCHANGED <<job, task, overwritten, others>>
    BY <1>3 DEF LockJob, MarkTask, UpdateTask, Count, Crash, SweepStart, SweepRow, Deadlock,
                LeaseExpires, others
  <1> QED BY <1>1, <1>2, <1>3 DEF Next, Statement

\* What is finished stays so, or is recorded.
LEMMA FinishedKept ==
  ASSUME TypeOK, HeldClaims, Next, NEW u \in Tasks, Finished(u) PROVE Finished(u)'
  <1> USE DEF TypeOK, Finished
  <1>1. ASSUME NEW w \in Workers, Commit(w) PROVE Finished(u)'
    BY <1>1 DEF Commit, Write
  <1>2. ASSUME NEW w \in Workers, NEW t \in Tasks, WritesBelow(w, t) PROVE Finished(u)'
    BY <1>2 DEF WritesBelow, Write
  <1>3. ASSUME NEW r \in Reapers, SweepCommit(r) PROVE Finished(u)'
    BY <1>3 DEF SweepCommit, HeldClaims
  <1>4. CASE StitchGuard \/ StitchComplete \/ GetJob \/ GetTasks
    BY <1>4 DEF StitchGuard, StitchComplete, GetJob, GetTasks
  <1> HIDE DEF TypeOK
  <1> QED BY <1>1, <1>2, <1>3, <1>4, RowStep

\* Only a completion makes a task DONE.
LEMMA OpenKept ==
  ASSUME TypeOK, Next, NEW u \in Tasks, task[u] # "DONE",
         \A w \in Workers : Commit(w) => on[w] # u
  PROVE  task'[u] # "DONE"
  <1> USE DEF TypeOK
  <1>1. ASSUME NEW w \in Workers, Commit(w) PROVE task'[u] # "DONE"
    BY <1>1 DEF Commit, Write
  <1>2. ASSUME NEW w \in Workers, NEW t \in Tasks, WritesBelow(w, t) PROVE task'[u] # "DONE"
    BY <1>2 DEF WritesBelow, Write
  <1>3. ASSUME NEW r \in Reapers, SweepCommit(r) PROVE task'[u] # "DONE"
    BY <1>3 DEF SweepCommit
  <1>4. CASE StitchGuard \/ StitchComplete \/ GetJob \/ GetTasks
    BY <1>4 DEF StitchGuard, StitchComplete, GetJob, GetTasks
  <1> HIDE DEF TypeOK
  <1> QED BY <1>1, <1>2, <1>3, <1>4, RowStep

\* One at its commit has just counted, or has been there with nobody else's commit
\* between.
LEMMA CommitNext ==
  ASSUME TypeOK, JobExclusive, Next, NEW w \in Workers, pc'[w] = "commit"
  PROVE  \/ Count(w)
         \/ /\ pc[w] = "commit" /\ on'[w] = on[w] /\ last'[w] = last[w]
            /\ \A v \in Workers : ~Commit(v)
  <1> USE DEF TypeOK, handler
  <1>1. ASSUME NEW v \in Workers, Commit(v) PROVE FALSE
    <2>1. pc[v] = "commit" /\ pc'[v] = "idle" /\ pc[w] = "commit"
      BY <1>1 DEF Commit, Rest
    <2>2. v = w
      BY <2>1 DEF JobExclusive, JobHolders
    <2> QED BY <2>1, <2>2
  <1>2. ASSUME NEW v \in Workers,
               \/ \E t \in Tasks : Claim(v, t)
               \/ LockJob(v) \/ Release(v) \/ MarkTask(v) \/ UpdateTask(v) \/ MarkJob(v) \/ Crash(v)
        PROVE  pc[w] = "commit" /\ on'[w] = on[w] /\ last'[w] = last[w]
    BY <1>2 DEF Claim, LockJob, Release, MarkTask, UpdateTask, MarkJob, Crash, Rest, Goto
  <1>3. ASSUME NEW v \in Workers, Count(v)
        PROVE  Count(w) \/ (pc[w] = "commit" /\ on'[w] = on[w] /\ last'[w] = last[w])
    BY <1>3 DEF Count
  <1>4. ASSUME NEW x \in Workers \cup Reapers, Deadlock(x)
        PROVE  pc[w] = "commit" /\ on'[w] = on[w] /\ last'[w] = last[w]
    BY <1>4 DEF Deadlock, Rest
  <1>5. ASSUME \/ \E r \in Reapers : SweepStart(r) \/ SweepRow(r) \/ SweepCommit(r)
               \/ \E t \in Tasks : LeaseExpires(t)
               \/ StitchGuard \/ StitchComplete \/ GetJob \/ GetTasks
        PROVE  pc[w] = "commit" /\ on'[w] = on[w] /\ last'[w] = last[w]
    BY <1>5 DEF SweepStart, SweepRow, SweepCommit, LeaseExpires, StitchGuard, StitchComplete,
                GetJob, GetTasks
  <1> HIDE DEF TypeOK
  <1> QED BY <1>1, <1>2, <1>3, <1>4, <1>5 DEF Next, Statement

-----------------------------------------------------------------------------
(***************************************************************************)
(* The completion check.                                                   *)
(***************************************************************************)

LEMMA CountedStep ==
  ASSUME TypeOK, JobExclusive, HeldClaims, Counted, Next PROVE Counted'
  <1> SUFFICES ASSUME NEW w \in Workers, pc'[w] = "commit"
               PROVE  IF last'[w] THEN \A u \in Tasks \ {on'[w]} : Finished(u)'
                                  ELSE \E u \in Tasks \ {on'[w]} : task'[u] # "DONE"
    BY DEF Counted
  <1>1. CASE Count(w)
    BY <1>1 DEF Count, TypeOK, Finished
  <1>2. CASE /\ pc[w] = "commit" /\ on'[w] = on[w] /\ last'[w] = last[w]
             /\ \A v \in Workers : ~Commit(v)
    <2>1. CASE last[w]
      BY <1>2, <2>1, FinishedKept DEF Counted
    <2>2. CASE ~last[w]
      BY <1>2, <2>2, OpenKept DEF Counted
    <2> QED BY <2>1, <2>2
  <1> QED BY <1>1, <1>2, CommitNext

LEMMA NeverWedgedStep ==
  ASSUME TypeOK, Counted, NeverWedged, Next PROVE NeverWedged'
  <1> SUFFICES ASSUME job' = "PROCESSING" PROVE \E t \in Tasks : task'[t] # "DONE"
    BY DEF NeverWedged
  <1>1. ASSUME NEW w \in Workers, Commit(w) PROVE \E t \in Tasks : task'[t] # "DONE"
    <2>1. pc[w] = "commit" /\ ~last[w] /\ on[w] \in Tasks
      BY <1>1, OnTask DEF Commit, Flips, TypeOK
    <2>2. PICK u \in Tasks \ {on[w]} : task[u] # "DONE"
      BY <2>1 DEF Counted
    <2>3. task'[u] = task[u]
      BY <1>1, <2>1, <2>2 DEF Commit, Write, TypeOK
    <2> QED BY <2>2, <2>3
  <1>2. CASE \A w \in Workers : ~Commit(w)
    <2>1. job = "PROCESSING"
      BY <1>2, RowStep DEF WritesBelow, SweepCommit, StitchGuard, StitchComplete, GetJob, GetTasks
    <2> QED BY <1>2, <2>1, OpenKept DEF NeverWedged
  <1> QED BY <1>1, <1>2

LEMMA AssembledStep ==
  ASSUME TypeOK, HeldClaims, Counted, Assembled, Next PROVE Assembled'
  <1> DEFINE Out == job \in {"STITCHING", "COMPLETED"} \/ seen \in {"STITCHING", "COMPLETED"} \/ stitching
  <1>1. ASSUME NEW w \in Workers, Commit(w), Flips(w), NEW u \in Tasks PROVE Finished(u)'
    <2>1. pc[w] = "commit" /\ last[w]
      BY <1>1 DEF Commit, Flips
    <2>2. CASE u = on[w]
      BY <1>1, <2>2 DEF Commit, Write, Finished, TypeOK
    <2>3. CASE u # on[w]
      BY <2>1, <2>3, FinishedKept DEF Counted
    <2> QED BY <2>2, <2>3
  <1>2. CASE Out' /\ ~Out
    <2>1. \E w \in Workers : Commit(w) /\ Flips(w)
      BY <1>2, RowStep DEF Commit, WritesBelow, SweepCommit, StitchGuard, StitchComplete, GetJob,
                           GetTasks, others
    <2> QED BY <1>1, <2>1 DEF Assembled
  <1>3. CASE Out
    BY <1>3, FinishedKept DEF Assembled
  <1>4. CASE ~Out'
    BY <1>4 DEF Assembled
  <1> QED BY <1>2, <1>3, <1>4

LEMMA StitchedStep == ASSUME Stitched, TypeOK, Next PROVE Stitched'
  BY RowStep DEF Stitched, Commit, Flips, WritesBelow, SweepCommit, StitchGuard, StitchComplete,
                 GetJob, GetTasks, others

LEMMA InvStutter == ASSUME IInv, UNCHANGED vars PROVE IInv'
  <1>1. TypeOK'
    BY TypeStep DEF IInv
  <1>2. JobExclusive' /\ RowExclusive' /\ HeldClaims'
    BY DEF IInv, vars, handler, sweep, JobExclusive, RowExclusive, HeldClaims, JobHolders, RowHolders
  <1>3. Counted' /\ NeverWedged' /\ Assembled' /\ Stitched'
    BY DEF IInv, vars, handler, others, Counted, NeverWedged, Assembled, Stitched, Finished
  <1> QED BY <1>1, <1>2, <1>3 DEF IInv

LEMMA InvStep == ASSUME IInv, [Next]_vars PROVE IInv'
  BY TypeStep, JobExclusiveStep, RowExclusiveStep, HeldClaimsStep, CountedStep, NeverWedgedStep,
     AssembledStep, StitchedStep, InvStutter
  DEF IInv

\* What the locks of the transactions protect, for any numbers of workers, reapers and
\* tasks.
THEOREM Invariant == Spec => []IInv
  BY InvInit, InvStep, PTL DEF Spec

\* No interleaving leaves the job PROCESSING with all chunks DONE.
THEOREM NeverWedgedAlways == Spec => []NeverWedged
  <1>1. IInv => NeverWedged
    BY DEF IInv
  <1> QED BY <1>1, Invariant, PTL

\* A GET that has read STITCHING or COMPLETED lists finished chunks.
THEOREM AnswerConsistentAlways == Spec => []AnswerConsistent
  <1>1. IInv => AnswerConsistent
    BY DEF IInv, Assembled, AnswerConsistent, Finished
  <1> QED BY <1>1, Invariant, PTL

-----------------------------------------------------------------------------
(***************************************************************************)
(* Refinement.                                                             *)
(***************************************************************************)

LEMMA PromisedWrite ==
  ASSUME TypeOK, NEW t \in Tasks, NEW status \in {"IN_PROGRESS", "PENDING", "FAILED"},
         Write(t, status)
  PROVE  Promise!Set(t, status)
  BY DEF Write, Promise!Set, TypeOK

LEMMA PromisedFinish ==
  ASSUME IInv, NEW w \in Workers, Commit(w) PROVE Promise!Finish(on[w])
  <1>1. pc[w] = "commit" /\ on[w] \in Tasks
    BY OnTask DEF Commit, IInv, TypeOK
  <1>2. task' = [task EXCEPT ![on[w]] = "DONE"] /\ overwritten' = overwritten \ {on[w]}
    BY DEF Commit, Write
  <1>3. CASE Flips(w)
    <2>1. job = "PROCESSING" /\ job' = "STITCHING"
      BY <1>3 DEF Commit, Flips
    <2>2. Promise!Unfinished(on[w]) \subseteq overwritten
      BY <1>1, <1>3 DEF IInv, Counted, Finished, Flips, Promise!Unfinished
    <2> QED BY <1>2, <2>1, <2>2 DEF Promise!Finish
  <1>4. CASE ~Flips(w)
    <2>1. job' = job
      BY <1>4 DEF Commit
    <2>2. Promise!Unfinished(on[w]) = {} => job # "PROCESSING"
      BY <1>1, <1>4 DEF IInv, Counted, Flips, Promise!Unfinished
    <2> QED BY <1>2, <2>1, <2>2 DEF Promise!Finish
  <1> QED BY <1>3, <1>4

LEMMA PromisedStep == ASSUME IInv, [Next]_vars PROVE [Promise!Next]_(Promise!vars)
  <1> DEFINE Still == UNCHANGED <<job, task, overwritten>>
  <1> USE DEF Promise!Next, Promise!vars
  <1>0. TypeOK
    BY DEF IInv
  <1>1. ASSUME NEW w \in Workers, NEW t \in Tasks, Claim(w, t) PROVE Promise!Claim(t)
    BY <1>0, <1>1, PromisedWrite DEF Claim, Promise!Claim
  <1>2. ASSUME NEW w \in Workers, Release(w) PROVE \E t \in Tasks : Promise!GiveBack(t)
    BY <1>0, <1>2, PromisedWrite, OnTask DEF Release, Promise!GiveBack
  <1>3. ASSUME NEW w \in Workers, Commit(w) PROVE \E t \in Tasks : Promise!Finish(t)
    BY <1>0, <1>3, PromisedFinish, OnTask DEF Commit
  <1>4. ASSUME NEW w \in Workers, MarkJob(w) PROVE \E t \in Tasks : Promise!Fail(t)
    BY <1>0, <1>4, PromisedWrite, OnTask DEF MarkJob, Promise!Fail
  <1>5. ASSUME NEW r \in Reapers, SweepCommit(r) PROVE \E S \in SUBSET Tasks : Promise!Sweep(S)
    <2>1. held[r] \in SUBSET Tasks
      BY <1>0 DEF TypeOK
    <2>2. Promise!Sweep(held[r])
      BY <1>5 DEF SweepCommit, IInv, HeldClaims, Promise!Sweep
    <2> QED BY <2>1, <2>2
  <1>6. ASSUME StitchComplete PROVE Promise!Deliver
    BY <1>6 DEF StitchComplete, IInv, Stitched, Promise!Deliver
  <1>7. ASSUME \/ \E w \in Workers : LockJob(w) \/ MarkTask(w) \/ UpdateTask(w) \/ Count(w)
                                   \/ Crash(w)
               \/ \E r \in Reapers : SweepStart(r) \/ SweepRow(r)
               \/ \E x \in Workers \cup Reapers : Deadlock(x)
               \/ \E t \in Tasks : LeaseExpires(t)
               \/ StitchGuard \/ GetJob \/ GetTasks
               \/ UNCHANGED vars
        PROVE  Still
    BY <1>7 DEF LockJob, MarkTask, UpdateTask, Count, Crash, SweepStart, SweepRow, Deadlock,
                LeaseExpires, StitchGuard, GetJob, GetTasks, vars
  <1> QED BY <1>1, <1>2, <1>3, <1>4, <1>5, <1>6, <1>7 DEF Next, Statement

\* The statements of the transactions, in any interleaving the row locks allow, look
\* like the single steps of CompletionPromise.
THEOREM Refinement == Spec => ImplementsPromise
  <1>1. Init => Promise!Init
    BY DEF Init, Promise!Init
  <1> QED BY <1>1, PromisedStep, Invariant, PTL DEF Spec, ImplementsPromise, Promise!Spec

=============================================================================
