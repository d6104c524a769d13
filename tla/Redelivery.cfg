\* One drama of two chunks, two workers, one crash or relay error.
CONSTANTS
  w1 = w1
  w2 = w2
  drama = drama
  legacy = legacy
  poison = poison
  t1 = t1
  t2 = t2
  NoMsg = NoMsg
  Workers = {w1, w2}
  Jobs = {drama}
  Tasks = {t1, t2}
  JobOf <- TwoChunks
  Unparseable = {}
  Wedged = {}
  MaxRetries = 1
  RelayLimit = 2
  MaxFaults = 1
  MaxEarly = 0
SPECIFICATION Spec
SYMMETRY Symmetry
INVARIANTS
  TypeOK
  OnlyAckedCrashStrands
  NoWedge
  TaskMutex
  NoDuplicateWithoutFault
\* Nothing is left to do once every job has ended.
CHECK_DEADLOCK FALSE
