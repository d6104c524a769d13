\* One drama of two chunks, two workers, one crash and one
\* lease that runs out under its holder.
CONSTANTS
  w1 = w1
  w2 = w2
  drama = drama
  legacy = legacy
  poison = poison
  t1 = t1
  t2 = t2
  NoMsg = NoMsg
  Workers = {w1, w2}
  Jobs = {drama}
  Tasks = {t1, t2}
  JobOf <- TwoChunks
  Unparseable = {}
  Wedged = {}
  MaxRetries = 0
  RelayLimit = 1
  MaxFaults = 1
  MaxEarly = 1
SPECIFICATION Spec
SYMMETRY Symmetry
INVARIANT IncompleteOnlyIfOverwritten
PROPERTY ImplementsLifecycle
\* Nothing is left to do once every job has ended.
CHECK_DEADLOCK FALSE
