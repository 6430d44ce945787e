SPECIFICATION Spec
CONSTANTS
    Orgs = {"acme", "globex"}
    BudgetIds = {"b1"}
    Keys = {"k1", "k2"}
    Dims <- MCDims
    Times <- MCTimes
    SafeMax = 3
    BudgetDefs <- MCBudgetDefs
    Requests <- MCRequests
    TransitionRequests <- MCTransitionRequests
    MaxReconciliations = 1
    MaxRetentions = 1
    None = None
VIEW MCView
INVARIANTS
    Representable
    NoInternalError
PROPERTIES
    TenantIsolation
