SPECIFICATION FairIntake
CONSTANTS
  Situations = {s1}
  Workers = {w1}
  Callers = {c1}
  Operators = {o1}
  Nobody = Nobody
  NoSituation = NoSituation
  MaxAttempts = 2
  HighWater = 1
  QueueMode = FALSE
  MaxJobs = 3
  MaxCrashes = 1
  MaxDbErrors = 1
  Detections = {d1, d2, d3}
  NoDetection = NoDetection
  MaxAlerts = 3
  RetriesOverlap = FALSE
CHECK_DEADLOCK FALSE
INVARIANTS NothingForgotten  
PROPERTIES RecordsOnlyGrow 
