SPECIFICATION FairSpec
CONSTANTS
  Situations = {s1}
  Workers = {w1, w2}
  Callers = {c1, c2}
  Operators = {o1}
  Nobody = Nobody
  NoSituation = NoSituation
  MaxAttempts = 2
  HighWater = 1
  QueueMode = FALSE
  MaxJobs = 3
  MaxCrashes = 1
  MaxDbErrors = 1
CHECK_DEADLOCK FALSE
INVARIANTS  AttemptsBounded
PROPERTIES  EveryJobSettles
