SPECIFICATION Spec
CONSTANTS
    None = None
    Orgs = {"acme"}
    Digests = {"d1", "d2"}
    Artifacts <- MCArtifacts
    Tokens <- MCOneToken
    Requests <- MCRequests
    Calls = {c1, c2}
    Times = {0, 1, 2}
    MaxTtl = 2
    CacheTtl = 1
    CacheSize = 1
    TrackerSize = 1
    OpaRefusals = {"OPA_UNAVAILABLE"}
SYMMETRY MCSymmetry
INVARIANTS
    TypeOK
    NoDecisionUnderRevoked
    CacheSound
    AllowGrounded
    ClientWithinPolicy
