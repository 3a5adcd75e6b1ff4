SPECIFICATION Spec
CONSTANTS
  Cases = {1, 2}
  Worked = {1}
  Owners = {"ann"}
  Severities = {"HIGH", "LOW"}
  MaxTier = 1
  Requests = {r1}
  worker = worker
  Kinds <- KindsAll
  Overlapping <- EditsOverlapPushes
  Provider = "file"
  Stamped = FALSE
  OutsideEdits <- SomeEdits
  Refused = {}
  Batch = 1
  MaxRequests = 3
  MaxOutside = 1
  MaxFaults = 1
CHECK_DEADLOCK FALSE
INVARIANTS  EchoesDropped 
PROPERTIES FollowsWhitelist EveryCaseIsPushed
