SPECIFICATION ServiceSpec
VIEW MCView
CONSTANTS
    Orgs = {"acme"}
    BudgetIds = {"b1", "b2"}
    Keys = {"k1", "k2"}
    Dims <- MCDims
    Times <- MCTimes
    SafeMax = 2
    BudgetDefs <- MCBudgetDefs
    Requests <- MCRequests
    TransitionRequests <- MCTransitionRequests
    MaxReconciliations = 3
    MaxRetentions = 1
    None = None
    ReadinessOrg = "acme"
    Config <- MCConfig
    Healths <- MCHealths
    Records <- MCRecords
    MaxRecords = 1
    MaxBytes = 1
    MaxAge = 1
INVARIANTS
    RetentionHistoryClosed
PROPERTIES
    ReadyIsTrue
    UnreadyOnlyWhenIdle
