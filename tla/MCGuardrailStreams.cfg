SPECIFICATION Spec
CONSTANTS
    None = None
    Orgs = {"acme"}
    ProfileIds = {"stream"}
    Digests = {"d1", "d2", "d3"}
    Profiles <- MCProfiles
    Calls = {c1, c2, c3}
    Operations = {"evaluate", "create", "push", "finish"}
    Times = {0, 1, 2}
    Outcomes = {"ALLOW", "DENY"}
    MaxStreams = 1
    MaxOpen = 1
    IdleTtl = 1
    ClearMayFail = FALSE
SYMMETRY MCSymmetry
INVARIANTS
    TypeOK
    SequenceExact
    NothingAfterTheEnd
PROPERTIES
    EvaluatedUnderActive
    IdleNotEvaluated
