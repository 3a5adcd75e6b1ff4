SPECIFICATION Spec
CONSTANTS
  s1 = s1
  s2 = s2
  s3 = s3
  workstation = workstation
  controller = controller
  account = account
  service = service
  Targets <- SomeTargets
  Parses <- SomeParses
  Protected = {}
  Builtin <- SomeBuiltin
  Overrides <- NoOverrides
  AllowDestructive = FALSE
  MaxAutopilotRisk = "HIGH_WRITE"
  Situations = {s1, s2, s3}
  Verdicts = {"CONTAIN", "MONITOR"}
  Executable = {"CONTAIN"}
  Features <- Drifting
  Plans <- JustOrdinary
  SiteFiles <- JustBuiltin
  RequirePrecedent = TRUE
  MinPrecedents = 1
  Similarity = 70
  StalenessDays = 0
  CandidatePool = 4
  Take = 4
  FeedbackDays = 0
  Reports = {"REOPENED"}
  MaxPasses = 1
  MaxLabels = 1
  MaxDay = 1
SYMMETRY Ends
CHECK_DEADLOCK FALSE
INVARIANTS PeopleAgreed
