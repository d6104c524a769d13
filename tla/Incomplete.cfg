\* Two chunks, one lease that runs out under its holder.
CONSTANTS
  w1 = w1
  w2 = w2
  drama = drama
  legacy = legacy
  poison = poison
  t1 = t1
  t2 = t2
  NoMsg = NoMsg
  Workers = {w1, w2}
  Jobs = {drama}
  Tasks = {t1, t2}
  JobOf <- TwoChunks
  Unparseable = {}
  Wedged = {}
  MaxRetries = 1
  RelayLimit = 2
  MaxFaults = 0
  MaxEarly = 1
SPECIFICATION Spec
INVARIANT CompletedIsWhole
\* Nothing is left to do once every job has ended.
CHECK_DEADLOCK FALSE
