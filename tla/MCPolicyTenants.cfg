SPECIFICATION Spec
CONSTANTS
    None = None
    Orgs = {"acme", "globex"}
    Digests = {"d1"}
    Artifacts <- MCTenantArtifacts
    Tokens <- MCTenantTokens
    Requests <- MCRead
    Calls = {c1, c2}
    Times = {0, 1}
    MaxTtl = 1
    CacheTtl = 1
    CacheSize = 2
    TrackerSize = 2
    OpaRefusals = {"OPA_UNAVAILABLE"}
INVARIANTS
    AllowGrounded
PROPERTIES
    DecideEnds
