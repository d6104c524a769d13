--------------------------- MODULE SemaphoreProofs --------------------------
(***************************************************************************)
(* The cap on the vendor calls, for any number of workers, tasks and slots.*)
(***************************************************************************)
EXTENDS Semaphore, FiniteSetTheorems, TLAPS

\* No two workers have claimed one task, and a claimed task is IN_PROGRESS.
ClaimsExclusive ==
  /\ \A v, w \in Workers : on[v] = on[w] /\ on[v] # NoTask => v = w
  /\ \A w \in Workers : on[w] # NoTask => task[on[w]] = "IN_PROGRESS"

\* A worker at its call has its slot, and the slot is not about to be trimmed.
SlotsHeld == \A w \in Workers : pc[w] = "work" => slot[on[w]] = "fresh"

Undisturbed == early = 0 /\ late = 0

CapInv ==
  Undisturbed => ClaimsExclusive /\ SlotsHeld /\ Cardinality(Calls) <= MaxSlots

-----------------------------------------------------------------------------
LEMMA SemTypeInit == Init => TypeOK
  BY SemaphoreAssumption DEF Init, TypeOK

LEMMA SemTypeStep == TypeOK /\ [Next]_vars => TypeOK'
  <1> SUFFICES ASSUME TypeOK, [Next]_vars PROVE TypeOK'
    OBVIOUS
  <1> USE SemaphoreAssumption DEF TypeOK, Goto, bounds
  <1>1. ASSUME NEW w \in Workers, NEW t \in Tasks, Claim(w, t) PROVE TypeOK'
    BY <1>1 DEF Claim
  <1>2. ASSUME NEW w \in Workers, NEW t \in Tasks, SemHeartbeat(w, t) PROVE TypeOK'
    BY <1>2 DEF SemHeartbeat
  <1>3. ASSUME NEW w \in Workers, SemCount(w) PROVE TypeOK'
    <2>1. slot' \in [Tasks -> {"none", "fresh", "stale"}]
      BY <1>3 DEF SemCount
    <2>2. pc' = pc \/ pc' = [pc EXCEPT ![w] = "try"]
      BY <1>3 DEF SemCount
    <2> QED BY <1>3, <2>1, <2>2 DEF SemCount
  <1>4. ASSUME NEW w \in Workers, SemTry(w) PROVE TypeOK'
    BY <1>4 DEF SemTry
  <1>5. ASSUME NEW w \in Workers, SemTimeout(w) \/ Finish(w) PROVE TypeOK'
    BY <1>5 DEF SemTimeout, Finish, Leave
  <1>6. ASSUME NEW w \in Workers,
               HeartbeatWakes(w) \/ StopHeartbeat(w) \/ SemRelease(w)
        PROVE  TypeOK'
    BY <1>6 DEF HeartbeatWakes, StopHeartbeat, SemRelease
  <1>7. ASSUME NEW w \in Workers, Crash(w) PROVE TypeOK'
    BY <1>7 DEF Crash
  <1>8. ASSUME NEW t \in Tasks, LeaseLost(t) \/ AgeOut(t) PROVE TypeOK'
    BY <1>8 DEF LeaseLost, AgeOut
  <1>9. CASE UNCHANGED vars
    BY <1>9 DEF vars
  <1> QED BY <1>1, <1>2, <1>3, <1>4, <1>5, <1>6, <1>7, <1>8, <1>9 DEF Next

\* Every state of Semaphore is well typed.
THEOREM SemaphoreTypeCorrect == Spec => []TypeOK
  BY SemTypeInit, SemTypeStep, PTL DEF Spec

-----------------------------------------------------------------------------
(***************************************************************************)
(* Counting.                                                               *)
(***************************************************************************)

\* The workers at their calls are no more than the slots that are taken.
LEMMA CallsHoldSlots ==
  ASSUME TypeOK, ClaimsExclusive, SlotsHeld
  PROVE  Cardinality(Calls) <= Cardinality(Slots)
  <1> DEFINE f == [w \in Calls |-> on[w]]
  <1>1. IsFiniteSet(Slots)
    BY SemaphoreAssumption, FS_Subset DEF Slots
  <1>2. \A w \in Calls : w \in Workers /\ on[w] \in Slots
    BY SemaphoreAssumption DEF Calls, Slots, SlotsHeld, TypeOK
  <1>3. \A v, w \in Calls : on[v] = on[w] => v = w
    BY SemaphoreAssumption DEF Calls, ClaimsExclusive, TypeOK
  <1>4. f \in Injection(Calls, Slots)
    BY <1>2, <1>3 DEF Injection, IsInjective
  <1> QED BY <1>1, <1>4, FS_Injection

\* A step after which no more workers are at their calls keeps the cap.
LEMMA CapKept ==
  ASSUME TypeOK, Cardinality(Calls) <= MaxSlots, Calls' \subseteq Calls
  PROVE  Cardinality(Calls') <= MaxSlots
  <1>1. IsFiniteSet(Calls)
    BY SemaphoreAssumption, FS_Subset DEF Calls
  <1> QED
    BY <1>1, FS_Subset, FS_CardinalityType, SemaphoreAssumption

\* The script admits a worker only while a slot is free.
LEMMA CapTry ==
  ASSUME TypeOK, ClaimsExclusive, SlotsHeld, Cardinality(Calls) <= MaxSlots,
         NEW w \in Workers, SemTry(w)
  PROVE  Cardinality(Calls') <= MaxSlots
  <1>1. IsFiniteSet(Calls) /\ IsFiniteSet(Slots)
    BY SemaphoreAssumption, FS_Subset DEF Calls, Slots
  <1>2. Cardinality(Calls) \in Nat /\ Cardinality(Slots) \in Nat
    BY <1>1, FS_CardinalityType
  <1>3. CASE Cardinality(Slots) < MaxSlots
    <2>1. Calls' = Calls \cup {w}
      BY <1>3 DEF SemTry, Goto, Calls, TypeOK
    <2>2. Cardinality(Calls) <= Cardinality(Slots)
      BY CallsHoldSlots
    <2>3. w \notin Calls
      BY DEF SemTry, Calls
    <2>4. Cardinality(Calls \cup {w}) = Cardinality(Calls) + 1
      BY <1>1, <2>3, FS_AddElement
    <2>5. Cardinality(Calls') = Cardinality(Calls) + 1
      BY <2>1, <2>4, Zenon
    <2> QED BY <1>2, <1>3, <2>2, <2>5, SemaphoreAssumption
  <1>4. CASE ~(Cardinality(Slots) < MaxSlots)
    <2>1. Calls' \subseteq Calls
      BY <1>4 DEF SemTry, Goto, Calls, TypeOK
    <2> QED BY <2>1, CapKept
  <1> QED BY <1>3, <1>4

-----------------------------------------------------------------------------
LEMMA CapInit == Init => CapInv
  <1> SUFFICES ASSUME Init PROVE ClaimsExclusive /\ SlotsHeld /\ Cardinality(Calls) <= MaxSlots
    BY DEF CapInv
  <1>1. Calls = {}
    BY DEF Init, Calls
  <1>2. Cardinality(Calls) = 0
    BY <1>1, FS_EmptySet
  <1> QED BY <1>2, SemaphoreAssumption DEF Init, ClaimsExclusive, SlotsHeld

\* One step, as long as no lease is lost and no heartbeat is late.
LEMMA CapStep == TypeOK /\ CapInv /\ [Next]_vars => CapInv'
  <1> SUFFICES ASSUME TypeOK, CapInv, [Next]_vars, Undisturbed'
               PROVE  /\ ClaimsExclusive' /\ SlotsHeld'
                      /\ Cardinality(Calls') <= MaxSlots
    BY DEF CapInv
  <1> USE SemaphoreAssumption DEF TypeOK, Goto, bounds, ClaimsExclusive, SlotsHeld
  <1>1. CASE ~Undisturbed
    BY <1>1 DEF Undisturbed, Next, vars, Claim, SemHeartbeat, SemCount, SemTry, SemTimeout,
                HeartbeatWakes, StopHeartbeat, SemRelease, Finish, Leave, Crash, LeaseLost,
                AgeOut
  <1>2. CASE Undisturbed
    <2> ClaimsExclusive /\ SlotsHeld /\ Cardinality(Calls) <= MaxSlots
      BY <1>2 DEF CapInv
    <2> HIDE DEF ClaimsExclusive, SlotsHeld
    <2>0. ASSUME ClaimsExclusive', SlotsHeld', Calls' \subseteq Calls
          PROVE  /\ ClaimsExclusive' /\ SlotsHeld'
                 /\ Cardinality(Calls') <= MaxSlots
      BY <2>0, CapKept
    <2> USE DEF ClaimsExclusive, SlotsHeld, Calls
    <2>1. ASSUME NEW w \in Workers, NEW t \in Tasks, Claim(w, t)
          PROVE  ClaimsExclusive' /\ SlotsHeld' /\ Calls' \subseteq Calls
      BY <2>1 DEF Claim
    <2>2. ASSUME NEW w \in Workers, NEW t \in Tasks, SemHeartbeat(w, t)
          PROVE  ClaimsExclusive' /\ SlotsHeld' /\ Calls' \subseteq Calls
      BY <2>2 DEF SemHeartbeat
    <2>3. ASSUME NEW w \in Workers, SemCount(w)
          PROVE  ClaimsExclusive' /\ SlotsHeld' /\ Calls' \subseteq Calls
      <3>1. pc' = pc \/ pc' = [pc EXCEPT ![w] = "try"]
        BY <2>3 DEF SemCount
      <3>2. \A t \in Tasks : slot[t] = "fresh" => slot'[t] = "fresh"
        BY <2>3 DEF SemCount, Stale
      <3> QED BY <2>3, <3>1, <3>2 DEF SemCount
    <2>4. ASSUME NEW w \in Workers, SemTry(w)
          PROVE  ClaimsExclusive' /\ SlotsHeld' /\ Cardinality(Calls') <= MaxSlots
      <3>1. ClaimsExclusive' /\ SlotsHeld'
        BY <2>4 DEF SemTry
      <3> QED BY <2>4, <3>1, CapTry
    <2>5. ASSUME NEW w \in Workers, SemTimeout(w) \/ Finish(w)
          PROVE  ClaimsExclusive' /\ SlotsHeld' /\ Calls' \subseteq Calls
      BY <2>5 DEF SemTimeout, Finish, Leave
    <2>6. ASSUME NEW w \in Workers,
                 HeartbeatWakes(w) \/ StopHeartbeat(w) \/ SemRelease(w)
          PROVE  ClaimsExclusive' /\ SlotsHeld' /\ Calls' \subseteq Calls
      BY <2>6 DEF HeartbeatWakes, StopHeartbeat, SemRelease
    <2>7. ASSUME NEW w \in Workers, Crash(w)
          PROVE  ClaimsExclusive' /\ SlotsHeld' /\ Calls' \subseteq Calls
      BY <2>7 DEF Crash
    <2>8. ASSUME NEW t \in Tasks, LeaseLost(t) \/ AgeOut(t)
          PROVE  ClaimsExclusive' /\ SlotsHeld' /\ Calls' \subseteq Calls
      BY <1>2, <2>8 DEF LeaseLost, AgeOut, Claimant, Working, Undisturbed
    <2>9. CASE UNCHANGED vars
      BY <2>9 DEF vars
    <2> HIDE DEF ClaimsExclusive, SlotsHeld, Calls
    <2> QED
      BY <2>0, <2>1, <2>2, <2>3, <2>4, <2>5, <2>6, <2>7, <2>8, <2>9 DEF Next
  <1> QED BY <1>1, <1>2

\* As long as no lease is lost under its claimant and no heartbeat is late, at
\* most MaxSlots workers are at their vendor call.
THEOREM CallsCappedCorrect == Spec => []CallsCapped
  <1>1. CapInv => CallsCapped
    BY DEF CapInv, CallsCapped, Undisturbed
  <1> QED BY <1>1, CapInit, CapStep, SemaphoreTypeCorrect, PTL DEF Spec
=============================================================================
