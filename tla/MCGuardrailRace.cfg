SPECIFICATION Spec
CONSTANTS
    None = None
    Orgs = {"acme"}
    ProfileIds = {"stream"}
    Digests = {"d1", "d2"}
    Profiles <- MCStreaming
    Calls = {c1, c2, c3}
    Operations = {"create", "push", "finish"}
    Times = {0, 1, 2}
    Outcomes = {"ALLOW", "DENY"}
    MaxStreams = 1
    MaxOpen = 1
    IdleTtl = 1
    ClearMayFail = FALSE
INVARIANTS
    OpenOnActiveProfile
