SPECIFICATION Spec
CONSTANTS
  block = block
  isolate = isolate
  reset = reset
  wipe = wipe
  Actions <- AllActions
  Permitted <- PermittedActions
  Reversible <- ReversibleActions
  Unattended <- UnattendedActions
  Proposals <- OneProposal
  Corrections <- NoCorrections
  Analysts = {a1, a2}
  Analysers = {x1}
  Mergers = {}
  Overlapping <- ApprovalsOverlap
  MaxBase = 0
  MaxCrashes = 0
CHECK_DEADLOCK FALSE
INVARIANTS OneExecution
