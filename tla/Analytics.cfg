SPECIFICATION Spec
CONSTANTS
  u1 = u1
  u2 = u2
  DATASETS <- SomeDatasets
  ListFields = {"entity"}
  TextFields <- SomeText
  Contains <- OneInAnother
  MAX_HEAD = 2
  DefaultHead = 1
  Span <- SomeSpans
  Users = {u1}
  Role <- SomeRoles
  Searches = {"s1", "s2"}
  Dashboards = {"d1", "d2"}
  Reports = {"p1"}
  Rules = {"r1", "r2"}
  Queries <- SomeQueries
  Presets = {0}
  Thresholds = {1}
  Schedules = {1}
  Rows <- SomeRows
  Jobs = {"j1"}
  MaxWrites = 2
  Begun <- SomeContent
  BegunPanels <- SomePanels
  MaxTime = 2
  MaxRestarts = 1
CHECK_DEADLOCK FALSE
PROPERTIES CancelledStays EveryRuleIsWeighed 
