\* One chunk, one crash between the ack and the republish.
CONSTANTS
  w1 = w1
  w2 = w2
  drama = drama
  legacy = legacy
  poison = poison
  t1 = t1
  t2 = t2
  NoMsg = NoMsg
  Workers = {w1, w2}
  Jobs = {drama}
  Tasks = {t1}
  JobOf <- OneChunk
  Unparseable = {}
  Wedged = {}
  MaxRetries = 1
  RelayLimit = 2
  MaxFaults = 1
  MaxEarly = 0
SPECIFICATION Spec
INVARIANT NeverStranded
\* Nothing is left to do once every job has ended.
CHECK_DEADLOCK FALSE
