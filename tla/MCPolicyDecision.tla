------------------------- MODULE MCPolicyDecision -------------------------
(***************************************************************************)
(* One tenant with three artifacts: the first version, its successor, and a*)
(* renewal of the first version's content (same digest) as version 2.      *)
(***************************************************************************)
EXTENDS PolicyDecision, TLC

MCArtifact(o, digest, version, expires, supersedes) ==
    [org |-> o, digest |-> digest, version |-> version, effective |-> 0,
     expires |-> expires, supersedes |-> supersedes]

MCArtifacts ==
    {MCArtifact("acme", "d1", 1, 2, None), MCArtifact("acme", "d2", 2, 3, "d1"),
     MCArtifact("acme", "d1", 2, 3, "d1")}

\* Two tenants with the same policy content, two subjects of one of them, and one
\* token identity claimed by both.
MCTenantArtifacts ==
    {MCArtifact("acme", "d1", 1, 2, None), MCArtifact("globex", "d1", 1, 1, None)}

MCTenantTokens ==
    {[jti |-> "j1", org |-> "acme", subject |-> "alice"],
     [jti |-> "j1", org |-> "acme", subject |-> "bob"],
     [jti |-> "j2", org |-> "acme", subject |-> "bob"],
     [jti |-> "j3", org |-> "globex", subject |-> "alice"]}

MCRequest(action, mutation, canonical) ==
    [action |-> action, mutation |-> mutation, canonical |-> canonical]

MCRequests == {MCRequest("read", FALSE, TRUE), MCRequest("write", TRUE, TRUE),
               MCRequest("odd", FALSE, FALSE)}

MCOneToken == {[jti |-> "j1", org |-> "acme", subject |-> "alice"]}

MCRead == {MCRequest("read", FALSE, TRUE)}

MCSymmetry == Permutations(Calls)
=============================================================================
