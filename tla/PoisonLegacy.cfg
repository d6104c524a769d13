\* A poison pill and a job wedged by an earlier release, no retry, one fault.
CONSTANTS
  w1 = w1
  w2 = w2
  drama = drama
  legacy = legacy
  poison = poison
  t1 = t1
  t2 = t2
  NoMsg = NoMsg
  Workers = {w1, w2}
  Jobs = {poison, legacy}
  Tasks = {t1}
  JobOf <- LegacyChunk
  Unparseable = {poison}
  Wedged = {legacy}
  MaxRetries = 0
  RelayLimit = 1
  MaxFaults = 1
  MaxEarly = 0
SPECIFICATION LiveSpec
INVARIANTS
  FailedIsParked
  OnlyAckedCrashStrands
\* Nothing is left to do once every job has ended.
CHECK_DEADLOCK FALSE
PROPERTY EveryJobEnds
