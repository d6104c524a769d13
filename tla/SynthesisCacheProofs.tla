------------------------- MODULE SynthesisCacheProofs ------------------------
(***************************************************************************)
(* The content cache and its stampede lock, for any numbers of workers,    *)
(* tasks, crashes and TTLs that run out: the audio behind a completed task *)
(* exists and is its own, and each TTL that runs out lets at most one more *)
(* worker in.                                                              *)
(***************************************************************************)
EXTENDS SynthesisCache, FiniteSetTheorems, TLAPS

LEMMA TypeInit == Init => TypeOK
  BY CacheAssumption DEF Init, TypeOK

LEMMA TypeStep == ASSUME TypeOK, [Next]_vars PROVE TypeOK'
  <1> USE CacheAssumption DEF TypeOK, redis, local, bounds, Goto, Get, Hash, Rest
  <1>1. ASSUME NEW w \in Workers, NEW t \in Tasks, Begin(w, t) PROVE TypeOK'
    BY <1>1 DEF Begin
  <1>2. ASSUME NEW w \in Workers, CacheGet(w) \/ Recheck(w) \/ CacheWait(w) PROVE TypeOK'
    BY <1>2 DEF CacheGet, Recheck, CacheWait
  <1>3. ASSUME NEW w \in Workers, LockAcquire(w) \/ LockRelease(w) PROVE TypeOK'
    BY <1>3 DEF LockAcquire, LockRelease
  <1>4. ASSUME NEW w \in Workers, Call(w) \/ SynthesisFails(w) \/ Deadline(w) PROVE TypeOK'
    BY <1>4 DEF Call, SynthesisFails, Deadline
  <1>5. ASSUME NEW w \in Workers, PutObject(w) \/ CacheSet(w) PROVE TypeOK'
    BY <1>5 DEF PutObject, CacheSet
  <1>6. ASSUME NEW w \in Workers, Finish(w) PROVE TypeOK'
    BY <1>6 DEF Finish
  <1>7. ASSUME NEW w \in Workers, Crash(w) PROVE TypeOK'
    BY <1>7 DEF Crash
  <1>8. ASSUME NEW h \in Hashes, LockExpires(h) PROVE TypeOK'
    BY <1>8 DEF LockExpires
  <1>9. CASE UNCHANGED vars
    BY <1>9 DEF vars
  <1> HIDE DEF TypeOK
  <1> QED BY <1>1, <1>2, <1>3, <1>4, <1>5, <1>6, <1>7, <1>8, <1>9 DEF Next, Step

\* The variables of SynthesisCache keep their types.
THEOREM TypeCorrect == Spec => []TypeOK
  BY TypeInit, TypeStep, PTL DEF Spec

-----------------------------------------------------------------------------
(***************************************************************************)
(* Every key on its way names an object that is there and has the text.    *)
(***************************************************************************)

Names(k, h) == k # NoTask => k \in stored /\ HashOf[k] = h

KeysRight ==
  /\ \A h \in Hashes : Names(entry[h], h)
  /\ \A w \in Workers :
       IF pc[w] = "idle" THEN key[w] = NoTask ELSE Names(key[w], HashOf[on[w]])
  /\ \A t \in Tasks : Names(output[t], HashOf[t])

LEMMA KeysInit == Init => KeysRight
  BY DEF Init, KeysRight, Names

LEMMA KeysStep == ASSUME TypeOK, KeysRight, [Next]_vars PROVE KeysRight'
  <1> USE CacheAssumption DEF TypeOK, KeysRight, Names, redis, local, bounds, Goto, Get, Hash, Rest
  <1>1. ASSUME NEW w \in Workers, NEW t \in Tasks, Begin(w, t) PROVE KeysRight'
    BY <1>1 DEF Begin
  <1>2. ASSUME NEW w \in Workers, CacheGet(w) \/ Recheck(w) \/ CacheWait(w) PROVE KeysRight'
    BY <1>2 DEF CacheGet, Recheck, CacheWait
  <1>3. ASSUME NEW w \in Workers, LockAcquire(w) \/ LockRelease(w) PROVE KeysRight'
    BY <1>3 DEF LockAcquire, LockRelease
  <1>4. ASSUME NEW w \in Workers, Call(w) \/ SynthesisFails(w) \/ Deadline(w) PROVE KeysRight'
    BY <1>4 DEF Call, SynthesisFails, Deadline
  <1>5. ASSUME NEW w \in Workers, PutObject(w) PROVE KeysRight'
    BY <1>5 DEF PutObject
  <1>6. ASSUME NEW w \in Workers, CacheSet(w) PROVE KeysRight'
    BY <1>6 DEF CacheSet
  <1>7. ASSUME NEW w \in Workers, Finish(w) PROVE KeysRight'
    BY <1>7 DEF Finish
  <1>8. ASSUME NEW w \in Workers, Crash(w) PROVE KeysRight'
    BY <1>8 DEF Crash
  <1>9. ASSUME NEW h \in Hashes, LockExpires(h) PROVE KeysRight'
    BY <1>9 DEF LockExpires
  <1>10. CASE UNCHANGED vars
    BY <1>10 DEF vars
  <1> HIDE DEF TypeOK, KeysRight
  <1> QED BY <1>1, <1>2, <1>3, <1>4, <1>5, <1>6, <1>7, <1>8, <1>9, <1>10 DEF Next, Step

\* Whatever crashes or expires, a task is completed with the audio of its own speaker
\* and text, and the object is there.
THEOREM OutputReadableAlways == Spec => []OutputReadable
  <1>1. KeysRight => OutputReadable
    BY DEF KeysRight, Names, OutputReadable
  <1> QED BY <1>1, KeysInit, KeysStep, TypeCorrect, PTL DEF Spec

-----------------------------------------------------------------------------
(***************************************************************************)
(* The lock.                                                               *)
(***************************************************************************)

\* Those inside without the lock, or with a lock that is another's by now.
Strays(h) == Inside(h) \ {lock[h]}

LockInv == \A h \in Hashes : Cardinality(Strays(h)) <= late

LEMMA InsideFinite ==
  ASSUME NEW S \in SUBSET Workers PROVE IsFiniteSet(S) /\ Cardinality(S) \in Nat
  BY CacheAssumption, FS_Subset, FS_CardinalityType

LEMMA CardOfSubset ==
  ASSUME NEW S \in SUBSET Workers, NEW R \in SUBSET S PROVE Cardinality(R) <= Cardinality(S)
  BY InsideFinite, FS_Subset

LEMMA CardWithout ==
  ASSUME NEW S \in SUBSET Workers, NEW x
  PROVE  Cardinality(S \ {x}) = IF x \in S THEN Cardinality(S) - 1 ELSE Cardinality(S)
  BY InsideFinite, FS_RemoveElement

\* A step under which nobody comes in, and no lock changes, for h.
LEMMA StraysLess ==
  ASSUME TypeOK, LockInv, TypeOK', NEW h \in Hashes, Strays(h)' \subseteq Strays(h), late <= late'
  PROVE  Cardinality(Strays(h)') <= late'
  <1>1. Strays(h) \in SUBSET Workers
    BY DEF Strays, Inside
  <1>2. Cardinality(Strays(h)') <= Cardinality(Strays(h))
    BY <1>1, CardOfSubset
  <1>3. Cardinality(Strays(h)) \in Nat /\ Cardinality(Strays(h)') \in Nat
    BY <1>1, InsideFinite
  <1>4. late \in Nat /\ late' \in Nat
    BY CacheAssumption DEF TypeOK
  <1> QED BY <1>2, <1>3, <1>4 DEF LockInv

\* One has left, and who is a stray may have changed hands.
LEMMA StraysSwap ==
  ASSUME TypeOK, LockInv, NEW h \in Hashes, NEW w \in Inside(h)
  PROVE  Cardinality(Inside(h) \ {w}) <= late
  <1>1. Inside(h) \in SUBSET Workers
    BY DEF Inside
  <1>2. Cardinality(Inside(h)) - 1 <= Cardinality(Strays(h))
    BY <1>1, CardWithout, InsideFinite DEF Strays
  <1>3. Cardinality(Inside(h) \ {w}) = Cardinality(Inside(h)) - 1
    BY <1>1, CardWithout
  <1>4. Cardinality(Strays(h)) <= late
    BY DEF LockInv
  <1>5. Cardinality(Inside(h)) \in Nat /\ Cardinality(Strays(h)) \in Nat /\ late \in Nat
    BY <1>1, InsideFinite, CacheAssumption DEF Strays, TypeOK
  <1> QED BY <1>2, <1>3, <1>4, <1>5

LEMMA LockInit == Init => LockInv
  <1> SUFFICES ASSUME Init, NEW h \in Hashes PROVE Cardinality(Strays(h)) <= late
    BY DEF LockInv
  <1>1. Strays(h) = {} /\ late = 0
    BY DEF Init, Strays, Inside
  <1> QED BY <1>1, FS_EmptySet

LEMMA LockStep == ASSUME TypeOK, LockInv, [Next]_vars PROVE LockInv'
  <1> SUFFICES ASSUME NEW h \in Hashes PROVE Cardinality(Strays(h)') <= late'
    BY DEF LockInv
  <1>0. TypeOK' /\ late \in Nat
    BY TypeStep, CacheAssumption DEF TypeOK
  <1> USE DEF redis, local, bounds, Goto, Get, Hash, Rest
  <1>1. ASSUME NEW w \in Workers,
               \/ \E t \in Tasks : Begin(w, t)
               \/ CacheGet(w) \/ Recheck(w) \/ CacheWait(w) \/ Call(w) \/ SynthesisFails(w)
               \/ Deadline(w) \/ PutObject(w) \/ CacheSet(w) \/ Finish(w)
        PROVE  Strays(h)' \subseteq Strays(h) /\ late' = late
    BY <1>1 DEF Begin, CacheGet, Recheck, CacheWait, Call, SynthesisFails, Deadline, PutObject,
                CacheSet, Finish, Strays, Inside, TypeOK
  <1>2. ASSUME NEW w \in Workers, LockAcquire(w)
        PROVE  Strays(h)' \subseteq Strays(h) /\ late' = late
    BY <1>2, CacheAssumption DEF LockAcquire, Strays, Inside, TypeOK
  <1>3. ASSUME NEW w \in Workers, LockRelease(w) PROVE Cardinality(Strays(h)') <= late'
    <2>1. CASE Hash(w) = h
      <3>1. w \in Inside(h)
        BY <1>3, <2>1 DEF LockRelease, Inside
      <3>2. Strays(h)' = Inside(h) \ {w} /\ late' = late
        BY <1>3, <2>1, CacheAssumption DEF LockRelease, Strays, Inside, TypeOK
      <3> QED BY <3>1, <3>2, StraysSwap
    <2>2. CASE Hash(w) # h
      <3>1. Strays(h)' \subseteq Strays(h) /\ late' = late
        BY <1>3, <2>2 DEF LockRelease, Strays, Inside, TypeOK
      <3> QED BY <1>0, <3>1, StraysLess
    <2> QED BY <2>1, <2>2
  <1>4. ASSUME NEW w \in Workers, Crash(w)
        PROVE  Strays(h)' \subseteq Strays(h) /\ late' = late
    BY <1>4 DEF Crash, Strays, Inside, TypeOK
  <1>5. ASSUME NEW g \in Hashes, LockExpires(g) PROVE Cardinality(Strays(h)') <= late'
    <2>1. CASE g = h /\ lock[h] # Dead
      <3>1. Strays(h)' = Inside(h) /\ late' = late + 1
        BY <1>5, <2>1, CacheAssumption DEF LockExpires, Strays, Inside, TypeOK
      <3>2. Inside(h) \in SUBSET Workers
        BY DEF Inside
      <3>3. Cardinality(Inside(h)) <= Cardinality(Strays(h)) + 1
        BY <3>2, CardWithout, InsideFinite DEF Strays
      <3>4. Cardinality(Strays(h)) <= late
        BY DEF LockInv
      <3>5. Cardinality(Inside(h)) \in Nat /\ Cardinality(Strays(h)) \in Nat
        BY <3>2, InsideFinite DEF Strays
      <3> QED BY <1>0, <3>1, <3>3, <3>4, <3>5
    <2>2. CASE g # h \/ lock[h] = Dead
      <3>1. Strays(h)' \subseteq Strays(h) /\ late <= late'
        BY <1>0, <1>5, <2>2, CacheAssumption DEF LockExpires, Strays, Inside, TypeOK
      <3> QED BY <1>0, <3>1, StraysLess
    <2> QED BY <2>1, <2>2
  <1>6. ASSUME UNCHANGED vars PROVE Strays(h)' \subseteq Strays(h) /\ late' = late
    BY <1>6 DEF vars, Strays, Inside
  <1>7. ASSUME Strays(h)' \subseteq Strays(h), late' = late PROVE Cardinality(Strays(h)') <= late'
    BY <1>0, <1>7, StraysLess
  <1> QED BY <1>1, <1>2, <1>3, <1>4, <1>5, <1>6, <1>7 DEF Next, Step

\* Each TTL that runs out under a synthesis lets at most one more worker in, however
\* often a DELETE of the wrong lock follows.
THEOREM StampedeBoundedAlways == Spec => []StampedeBounded
  <1>1. TypeOK /\ LockInv => StampedeBounded
    <2> SUFFICES ASSUME TypeOK, LockInv, NEW h \in Hashes PROVE Cardinality(Inside(h)) <= 1 + late
      BY DEF StampedeBounded
    <2>1. Inside(h) \in SUBSET Workers
      BY DEF Inside
    <2>2. Cardinality(Inside(h)) <= Cardinality(Strays(h)) + 1
      BY <2>1, CardWithout, InsideFinite DEF Strays
    <2>3. Cardinality(Strays(h)) <= late /\ late \in Nat
      BY CacheAssumption DEF LockInv, TypeOK
    <2>4. Cardinality(Inside(h)) \in Nat /\ Cardinality(Strays(h)) \in Nat
      BY <2>1, InsideFinite DEF Strays
    <2> QED BY <2>2, <2>3, <2>4
  <1> QED BY <1>1, LockInit, LockStep, TypeCorrect, PTL DEF Spec

-----------------------------------------------------------------------------
(***************************************************************************)
(* The vendor is paid once.                                                *)
(***************************************************************************)

\* As long as no TTL has run out under a synthesis, the one inside has the lock.
LEMMA Alone ==
  ASSUME TypeOK, LockInv, late = 0, NEW h \in Hashes, NEW v \in Inside(h), NEW w \in Inside(h)
  PROVE  v = w
  <1>1. Strays(h) \in SUBSET Workers
    BY DEF Strays, Inside
  <1>2. Cardinality(Strays(h)) <= 0 /\ Cardinality(Strays(h)) \in Nat
    BY <1>1, InsideFinite DEF LockInv
  <1>3. Strays(h) = {}
    BY <1>1, <1>2, InsideFinite, FS_EmptySet
  <1> QED BY <1>3 DEF Strays

LEMMA PaidStep == ASSUME TypeOK, LockInv, NeverPaidTwice, [Next]_vars PROVE NeverPaidTwice'
  <1> SUFFICES ASSUME late' = 0, NEW w \in Workers, pc'[w] \in {"call", "put"}
               PROVE  entry'[HashOf[on'[w]]] = NoTask
    BY DEF NeverPaidTwice, Hash
  <1> USE DEF TypeOK, redis, local, bounds, Goto, Get, Hash, Rest
  <1>0. late = 0
    BY CacheAssumption DEF Next, Step, Begin, CacheGet, LockAcquire, Recheck, Call, PutObject,
       CacheSet, SynthesisFails, LockRelease, CacheWait, Deadline, Finish, Crash, LockExpires, vars
  <1>1. ASSUME NEW v \in Workers, CacheSet(v) PROVE entry'[HashOf[on'[w]]] = NoTask
    <2>1. v # w /\ pc[w] \in {"call", "put"} /\ on'[w] = on[w]
      BY <1>1 DEF CacheSet
    <2>2. HashOf[on[v]] \in Hashes
      BY <1>1, CacheAssumption DEF CacheSet
    <2>3. HashOf[on[w]] # HashOf[on[v]]
      BY <1>0, <1>1, <2>1, <2>2, Alone DEF CacheSet, Inside
    <2>4. entry[HashOf[on[w]]] = NoTask
      BY <1>0, <2>1 DEF NeverPaidTwice
    <2> QED BY <1>1, <2>1, <2>3, <2>4 DEF CacheSet
  <1>2. ASSUME NEW v \in Workers, Recheck(v) PROVE entry'[HashOf[on'[w]]] = NoTask
    BY <1>0, <1>2 DEF Recheck, NeverPaidTwice
  <1>3. ASSUME \/ \E v \in Workers :
                    \/ \E t \in Tasks : Begin(v, t)
                    \/ CacheGet(v) \/ LockAcquire(v) \/ Call(v) \/ PutObject(v)
                    \/ LockRelease(v) \/ CacheWait(v) \/ Finish(v)
                    \/ SynthesisFails(v) \/ Deadline(v) \/ Crash(v)
               \/ \E h \in Hashes : LockExpires(h)
               \/ UNCHANGED vars
        PROVE  pc[w] \in {"call", "put"} /\ on'[w] = on[w] /\ entry' = entry
    BY <1>3 DEF Begin, CacheGet, LockAcquire, Call, PutObject, LockRelease, CacheWait, Finish,
                SynthesisFails, Deadline, Crash, LockExpires, vars
  <1>4. CASE pc[w] \in {"call", "put"} /\ on'[w] = on[w] /\ entry' = entry
    BY <1>0, <1>4 DEF NeverPaidTwice
  <1> QED BY <1>1, <1>2, <1>3, <1>4 DEF Next, Step

\* Without such a TTL no text that is cached is sent to the vendor again.
THEOREM NeverPaidTwiceAlways == Spec => []NeverPaidTwice
  <1>1. Init => NeverPaidTwice
    BY DEF Init, NeverPaidTwice
  <1> QED BY <1>1, PaidStep, LockInit, LockStep, TypeCorrect, PTL DEF Spec

=============================================================================
