SPECIFICATION Spec
CONSTANTS
    Orgs = {"acme"}
    BudgetIds = {"b1"}
    Keys = {"k1", "k2", "k3"}
    Dims <- MCDims
    Times <- MCTimes
    SafeMax = 9
    BudgetDefs <- MCBudgetDefs
    Requests <- MCRequests
    TransitionRequests <- MCTransitionRequests
    MaxReconciliations = 0
    MaxRetentions = 0
    None = None
VIEW ledgerVars
INVARIANTS
    TypeOK
    Conservation
    HardLimit
    RowsAgree
    ChargedInItsWindow
    KeyChargesOnce
PROPERTIES
    HistoryOnlyGrows
    ImplementsQuota
