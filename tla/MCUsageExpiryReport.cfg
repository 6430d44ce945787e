SPECIFICATION Spec
CONSTANTS
    Orgs = {"acme"}
    BudgetIds = {"b1"}
    Keys = {"k1", "k2"}
    Dims <- MCDims
    Times <- ShortTimes
    SafeMax = 9
    BudgetDefs <- ShortWindowDefs
    Requests <- LongRequests
    TransitionRequests <- LongTransitions
    MaxReconciliations = 0
    MaxRetentions = 0
    None = None
INVARIANT
    ReportedExpiryIsRecorded
