SPECIFICATION FairSpec
CONSTANTS
  MaxAttempts = 3
  Honoured = TRUE
  MaxRollbacks = 2
  MaxCrashes = 1
CHECK_DEADLOCK FALSE
INVARIANTS DoneIsObserved CarriedOutOnce LiftedStaysLifted
PROPERTIES EveryDispatchAnswered
