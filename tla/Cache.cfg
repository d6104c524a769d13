\* Three workers, two tasks of one text; a crash or a failed call, a TTL that runs
\* out under the synthesis.
CONSTANTS
  w1 = w1
  w2 = w2
  w3 = w3
  t1 = t1
  t2 = t2
  h1 = h1
  NoTask = NoTask
  Free = Free
  Dead = Dead
  Workers = {w1, w2, w3}
  Tasks = {t1, t2}
  Hashes = {h1}
  HashOf <- Twins
  MaxFaults = 1
  MaxLate = 1
SPECIFICATION LiveSpec
INVARIANT OutputReadable
INVARIANT StampedeBounded
INVARIANT NeverPaidTwice
PROPERTY WaitersReleased
\* Nothing is left to do once every task has its output.
CHECK_DEADLOCK FALSE
