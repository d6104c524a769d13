\* Two chunks of one drama, two handlers and a sweep; a crash, a lost lease.
CONSTANTS
  w1 = w1
  w2 = w2
  r1 = r1
  r2 = r2
  t1 = t1
  t2 = t2
  NoTask = NoTask
  Workers = {w1, w2}
  Reapers = {r1}
  Tasks = {t1, t2}
  MaxFaults = 1
  MaxEarly = 1
SPECIFICATION LiveSpec
INVARIANT NeverWedged
INVARIANT AnswerConsistent
PROPERTY ImplementsPromise
PROPERTY TransactionsEnd
\* Nothing is left to do once the job has ended.
CHECK_DEADLOCK FALSE
