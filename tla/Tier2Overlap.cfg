SPECIFICATION FairSpec
CONSTANTS
  block = block
  isolate = isolate
  reset = reset
  wipe = wipe
  Actions <- AllActions
  Permitted <- PermittedActions
  Reversible <- ReversibleActions
  Unattended <- UnattendedActions
  Proposals <- PairProposal
  Corrections <- OneCorrection
  Analysts = {a1}
  Analysers = {x1}
  Mergers = {m1}
  Overlapping <- AnyOverlap
  MaxBase = 2
  MaxCrashes = 1
CHECK_DEADLOCK FALSE
INVARIANTS DoneIsEarned
PROPERTIES ApprovedSettles
