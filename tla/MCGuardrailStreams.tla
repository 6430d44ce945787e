------------------------- MODULE MCGuardrailStreams -------------------------
(***************************************************************************)
(* A streaming profile of one tenant, its successor, a unary profile that  *)
(* may come in its place, and the calls that use them.                     *)
(***************************************************************************)
EXTENDS GuardrailStreams, TLC

MCProfile(o, id, stage, digest, version, expires, supersedes) ==
    [org |-> o, id |-> id, stage |-> stage, digest |-> digest, version |-> version,
     effective |-> 0, expires |-> expires, supersedes |-> supersedes]

MCStreaming ==
    {MCProfile("acme", "stream", "STREAMING", "d1", 10, 2, None),
     MCProfile("acme", "stream", "STREAMING", "d2", 11, 3, "d1")}

MCProfiles ==
    MCStreaming \cup {MCProfile("acme", "stream", "OUTPUT", "d3", 10, 2, None)}

\* Two tenants with the same profile content (the digest does not cover the
\* tenant), one of whose artifacts expires before the other's.
MCTenantProfiles ==
    {MCProfile("acme", "stream", "STREAMING", "d1", 10, 1, None),
     MCProfile("globex", "stream", "STREAMING", "d1", 10, 2, None)}

MCSymmetry == Permutations(Calls)
=============================================================================
