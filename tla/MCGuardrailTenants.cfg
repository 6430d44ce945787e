SPECIFICATION Spec
CONSTANTS
    None = None
    Orgs = {"acme", "globex"}
    ProfileIds = {"stream"}
    Digests = {"d1"}
    Profiles <- MCTenantProfiles
    Calls = {c1, c2, c3}
    Operations = {"evaluate", "create", "push"}
    Times = {0, 1}
    Outcomes = {"ALLOW", "DENY"}
    MaxStreams = 3
    MaxOpen = 1
    IdleTtl = 1
    ClearMayFail = TRUE
INVARIANTS
    OpenCapacity
PROPERTIES
    HandlersEnd
    CapacityRefusalIsReal
