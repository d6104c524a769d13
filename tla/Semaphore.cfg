\* Two workers, two tasks, one slot under fairness; a crash, a lost lease, a late
\* heartbeat.
CONSTANTS
  w1 = w1
  w2 = w2
  t1 = t1
  t2 = t2
  NoTask = NoTask
  Workers = {w1, w2}
  Tasks = {t1, t2}
  MaxSlots = 1
  MaxFaults = 1
  MaxEarly = 1
  MaxLate = 1
SPECIFICATION LiveSpec
INVARIANT CallsCapped
PROPERTY SlotsReturn
\* Nothing is left to do once every task is DONE and no slot is left.
CHECK_DEADLOCK FALSE
