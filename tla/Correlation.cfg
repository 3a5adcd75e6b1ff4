SPECIFICATION Spec
CONSTANTS
    Detections = {d1, d2, d3, d4}
    Entities = {e1, e2}
    NoSituation = NoSituation
    CORRELATION_WINDOW_MINUTES = 1
    SITUATION_MAX_MEMBERS = 3
    MaxTime = 2
    MaxIntakes = 1
    MaxProposals = 1
    MaxFailures = 1
SYMMETRY Names
CHECK_DEADLOCK FALSE
INVARIANTS
    NothingStrays
    MembersAreTied
    SituationsAreIntrusions
    NoLongSilence
PROPERTIES
    MergedIsHistory
    TogetherForever
