SPECIFICATION Spec
CONSTANTS
  ann = ann
  bob = bob
  eve = eve
  Operators = {ann, bob, eve}
  FirstAccounts <- TwoAdmins
  Sessions = {1, 2, 3}
  Captchas = {c1}
  Challenges = {1, 2}
  Policies <- SomePolicies
  Threshold = 2
  Requests = {r1, r2}
  Uses = {"call", "logout", "password", "role", "disable", "enable", "unlock", "reset", "create", "policy"}
  AdminsOverlap = FALSE
  MaxRequests = 4
  MaxTicks = 1
SYMMETRY Symmetry
CHECK_DEADLOCK FALSE
INVARIANTS EndRecordedOnce AdminRemains
PROPERTIES OpensWithinCap
