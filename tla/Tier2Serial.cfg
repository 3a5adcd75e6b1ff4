SPECIFICATION Spec
CONSTANTS
  block = block
  isolate = isolate
  reset = reset
  wipe = wipe
  Actions <- AllActions
  Permitted <- PermittedActions
  Reversible <- ReversibleActions
  Unattended <- UnattendedActions
  Proposals <- MixedProposals
  Corrections <- TwoCorrections
  Analysts = {a1, a2}
  Analysers = {x1}
  Mergers = {m1}
  Overlapping <- RollbacksOverlap
  MaxBase = 0
  MaxCrashes = 1
CHECK_DEADLOCK FALSE
INVARIANTS OneExecution SendsWhatWasApproved AutopilotWithinPolicy UndoesOnlyWhatRan
PROPERTIES FollowsLifecycle
