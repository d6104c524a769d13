\* A POST and its retry, two workers on their first boot, one fault.
CONSTANTS
  p1 = p1
  p2 = p2
  w1 = w1
  w2 = w2
  k1 = k1
  None = None
  Posts = {p1, p2}
  Keys = {k1}
  KeyOf <- Retried
  Workers = {w1, w2}
  RetryQueues <- OneTier
  MaxRetries = 2
  MaxFaults = 1
SPECIFICATION LiveSpec
INVARIANT OneJobPerKey
INVARIANT ManuscriptFirst
INVARIANT LostOnlyInTheGaps
PROPERTY AcceptedGoesOn
\* Nothing is left to do once every job is parsed or FAILED.
CHECK_DEADLOCK FALSE
