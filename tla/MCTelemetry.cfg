SPECIFICATION Pipeline
CONSTANTS
    None = None
    Threads = {"t1", "t2"}
    Tenants = {"acme", "globex"}
    AttributeKeys = {"model"}
    Values = {"small", "medium", "large"}
    Operations <- MCOperations
    Maximum = 1
    Records <- MCRecords
    Times = {0, 2}
    MaxRecords = 2
    MaxBytes = 5
    MaxAge = 1
INVARIANTS
    WithinLimits
    NoSilentAuditLoss
    CardinalityBounded
    DropsAreOwn
PROPERTIES
    SaturationIsReal
    AuditKept
    AppendEnds
