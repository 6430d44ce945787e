--------------------------- MODULE PolicyDecision ---------------------------
(***************************************************************************)
(* The policy decision service of common/: the tenant policy pointers of   *)
(* PolicyManager (active, last known good, revoked digests), the bounded   *)
(* decision cache, the token identity tracker, the decide handler, the     *)
(* decision/audit/outbox store and the client that acts on an answer.      *)
(*                                                                         *)
(* Each lock of the code protects one method, so decide is a sequence of   *)
(* steps between which other calls, rotations and revocations run: read    *)
(* the active policy, look in the cache, ask OPA, fill the cache, record.  *)
(* A trust change replaces the pointers and clears the cache while it holds*)
(* the manager's lock; whoever reads the pointers needs that lock, so the  *)
(* two are one step.  Token verification touches only the tracker and is   *)
(* one step with the read of the active policy that follows it.            *)
(*                                                                         *)
(* Instants are whole seconds (require_now) and callers bring them in any  *)
(* order.  A decision id is a fresh uuid, so a call stands for its id.     *)
(***************************************************************************)
EXTENDS FiniteSets, Lru

CONSTANTS
    Orgs,       \* organizations
    Digests,    \* policy digests
    Artifacts,  \* signed policy artifacts that may be offered for activation
    Tokens,     \* bearer tokens: identity digest, organization and subject
    Requests,   \* decision requests
    Calls,      \* calls of decide, one each
    Times,      \* the instants callers may bring
    MaxTtl,     \* the longest life OPA may give an ALLOW, in seconds
    CacheTtl,   \* maximum_ttl_seconds of the cache
    CacheSize,  \* maximum_entries of the cache
    TrackerSize,\* maximum_entries of the tracker
    OpaRefusals,\* reasons OPA denies with, or the OPA client gives up with
    None

Artifact ==
    [org: Orgs, digest: Digests, version: Nat \ {0}, effective: Nat,
     expires: Nat, supersedes: Digests \cup {None}]

Token == [jti: STRING, org: Orgs, subject: STRING]

\* A request is canonical when it can be digested; canonical_json may refuse it.
Request == [action: STRING, mutation: BOOLEAN, canonical: BOOLEAN]

\* What decide answers, and the row it leaves in the store.
Answer ==
    [org: Orgs, request: Requests, digest: Digests, allowed: BOOLEAN,
     reason: {"ALLOW", "CACHE_FAILURE"} \cup OpaRefusals, evaluated: Times, expires: Nat]

Row == [decision: Answer, hit: BOOLEAN]

ASSUME ArtifactsAssumption == Artifacts \subseteq Artifact
ASSUME TokensAssumption == Tokens \subseteq Token
ASSUME RequestsAssumption == Requests \subseteq Request
ASSUME TimesAssumption == Times \subseteq Nat
ASSUME MaxTtlAssumption == MaxTtl \in Nat
ASSUME CacheTtlAssumption == CacheTtl \in Nat \ {0}
ASSUME CacheSizeAssumption == CacheSize \in Nat \ {0}
ASSUME TrackerSizeAssumption == TrackerSize \in Nat \ {0}
ASSUME NoneAssumption == None \notin Artifacts /\ None \notin Digests /\ None \notin Row

VARIABLES
    policies,   \* org -> [active, last_known_good, revoked]
    cache,      \* cached ALLOWs, least recently used first
    tracker,    \* token identity bindings, least recently used first
    calls,      \* call -> what its thread knows and what it answered
    store,      \* call -> the decision, audit and outbox rows, or None
    revocations \* history: the digests ever revoked for an organization

vars == <<policies, cache, tracker, calls, store, revocations>>

(***************************************************************************)
(* PolicyManager.  on_trust_change is cache.clear.                         *)
(***************************************************************************)
SetPolicy(o, active, lkg, revoked) ==
    /\ policies' = [policies EXCEPT ![o] =
                       [active |-> active, last_known_good |-> lkg, revoked |-> revoked]]
    /\ cache' = <<>>
    /\ UNCHANGED <<tracker, calls, store>>

ActiveAt(p, now) == p.effective <= now /\ now < p.expires

\* activate: verify_policy_artifact accepts only an artifact in force; then it
\* must be the first version or the direct successor of the active policy.
MayActivate(p) ==
    LET previous == policies[p.org] IN
    /\ p.digest \notin previous.revoked
    /\ IF previous.active = None
       THEN p.version = 1 /\ p.supersedes = None
       ELSE /\ p.version = previous.active.version + 1
            /\ p.supersedes = previous.active.digest

Activate(p, now) ==
    /\ ActiveAt(p, now)
    /\ MayActivate(p)
    /\ SetPolicy(p.org, p, policies[p.org].active, policies[p.org].revoked)
    /\ UNCHANGED revocations

UnlessRevoked(p, digest) == IF p # None /\ p.digest = digest THEN None ELSE p

\* Faulty variant: the new digest replaces those revoked before.
Revoke_Overwrites(o, digest) ==
    LET state == policies[o] IN
    /\ SetPolicy(o, UnlessRevoked(state.active, digest),
                 UnlessRevoked(state.last_known_good, digest), {digest})
    /\ revocations' = [revocations EXCEPT ![o] = @ \cup {digest}]

Revoke(o, digest) ==
    LET state == policies[o] IN
    /\ SetPolicy(o, UnlessRevoked(state.active, digest),
                 UnlessRevoked(state.last_known_good, digest),
                 state.revoked \cup {digest})
    /\ revocations' = [revocations EXCEPT ![o] = @ \cup {digest}]

Rollback(o, now) ==
    LET candidate == policies[o].last_known_good IN
    /\ candidate # None
    /\ candidate.digest \notin policies[o].revoked
    /\ ActiveAt(candidate, now)
    /\ SetPolicy(o, candidate, None, policies[o].revoked)
    /\ UNCHANGED revocations

\* active: the reason it is refused, or NONE.
ActiveRefusal(o, now) ==
    LET policy == policies[o].active IN
    IF policy = None THEN "POLICY_UNAVAILABLE"
    ELSE IF policy.digest \in policies[o].revoked THEN "POLICY_REVOKED"
    ELSE IF now < policy.effective THEN "POLICY_NOT_YET_EFFECTIVE"
    ELSE IF now >= policy.expires THEN "POLICY_EXPIRED"
    ELSE "NONE"

CacheAfterActive(o, now) ==
    IF ActiveRefusal(o, now) = "POLICY_EXPIRED" THEN <<>> ELSE cache

\* The readiness probe reads the active policy, and so may clear the cache.
Ready(o, now) ==
    /\ cache' = CacheAfterActive(o, now)
    /\ UNCHANGED <<policies, tracker, calls, store, revocations>>

(***************************************************************************)
(* decide.                                                                 *)
(***************************************************************************)
NewCall ==
    [pc |-> "idle", request |-> None, token |-> None, now |-> None,
     policy |-> None, outcome |-> None, hit |-> FALSE, response |-> None,
     revoked_before |-> {}, accepted_at |-> None]

\* Faulty variant: tenants share cache entries.
CacheKey_NoTenant(call) ==
    <<None, call.token.subject, call.request, call.policy.digest>>

CacheKey(call) ==
    <<call.token.org, call.token.subject, call.request, call.policy.digest>>

Deny(reason) ==
    [allowed |-> FALSE, reason |-> reason, ttl |-> 0, grant |-> None]

\* What OPA said ALLOW to, when and for how long.
Grant(call, ttl) ==
    [org |-> call.token.org, subject |-> call.token.subject,
     request |-> call.request, digest |-> call.policy.digest,
     at |-> call.now, ttl |-> ttl]

Refused(c, call, reason) ==
    calls' = [calls EXCEPT ![c] =
                 [call EXCEPT !.pc = "refused", !.response = reason]]

\* The tracker knows the token identity as another subject's.
TokenConflict(token) ==
    Lookup(tracker, token.jti, None) \notin {None, <<token.org, token.subject>>}

\* IdentityVerifier.verify binds the token identity, or finds it bound to
\* another subject; then the active policy of the token's organization.  A
\* request that cannot be digested is caught as a cache failure, but what follows
\* uses the digest: the call raises and records nothing.
Begin(c, token, request, now) ==
    LET identity == <<token.org, token.subject>>
        refusal == IF ActiveRefusal(token.org, now) # "NONE"
                   THEN ActiveRefusal(token.org, now)
                   ELSE IF request.canonical THEN "NONE" ELSE "RAISED"
        call == [NewCall EXCEPT !.request = request, !.token = token, !.now = now,
                                !.revoked_before = revocations[token.org]]
    IN  /\ calls[c].pc = "idle"
        /\ UNCHANGED <<policies, store, revocations>>
        /\ \/ /\ TokenConflict(token)
              /\ Refused(c, call, "TOKEN_IDENTITY_CONFLICT")
              /\ UNCHANGED <<cache, tracker>>
           \/ /\ ~TokenConflict(token)
              /\ tracker' = PutBounded(tracker, token.jti, identity, TrackerSize)
              /\ cache' = CacheAfterActive(token.org, now)
              /\ IF refusal # "NONE" THEN Refused(c, call, refusal)
                 ELSE calls' = [calls EXCEPT ![c] =
                         [call EXCEPT !.pc = IF request.mutation THEN "evaluate" ELSE "lookup",
                                      !.policy = policies[token.org].active]]

Least(m, n) == IF m < n THEN m ELSE n
Greatest(m, n) == IF m < n THEN n ELSE m

CacheHit(call, value) ==
    [call EXCEPT !.pc = "record", !.hit = TRUE,
        !.outcome = [allowed |-> TRUE, reason |-> "ALLOW",
                     ttl |-> Greatest(0, value.expires - call.now),
                     grant |-> value.grant]]

\* Faulty variant: an entry lives until it is overwritten.
Alive_Forever(value, now) == value # None

Alive(value, now) == value # None /\ now < value.expires

\* cache.get drops an entry found expired and touches one found alive.
LookUp(c) ==
    LET call == calls[c]
        key == CacheKey(call)
        value == Lookup(cache, key, None)
        alive == Alive(value, call.now)
    IN  /\ call.pc = "lookup"
        /\ cache' = IF value = None THEN cache
                    ELSE IF alive THEN PutBounded(cache, key, value, CacheSize)
                    ELSE Others(cache, key)
        /\ calls' = [calls EXCEPT ![c] =
                        IF alive THEN CacheHit(call, value)
                        ELSE [call EXCEPT !.pc = "evaluate"]]
        /\ UNCHANGED <<policies, tracker, store, revocations>>

\* OPA allows for ttl seconds; an ALLOW of a read goes on to the cache.
EvaluateAllow(c, ttl) ==
    LET call == calls[c] IN
    /\ call.pc = "evaluate"
    /\ calls' = [calls EXCEPT ![c] =
          [call EXCEPT !.pc = IF call.request.mutation THEN "record" ELSE "fill",
                       !.outcome = [allowed |-> TRUE, reason |-> "ALLOW",
                                    ttl |-> ttl, grant |-> Grant(call, ttl)]]]
    /\ UNCHANGED <<policies, cache, tracker, store, revocations>>

\* Faulty variant: start again until OPA allows.
EvaluateDeny_TriesAgain(c, reason) ==
    /\ calls[c].pc = "evaluate"
    /\ calls' = [calls EXCEPT ![c].pc = "lookup"]
    /\ UNCHANGED <<policies, cache, tracker, store, revocations>>

\* OPA denies, or cannot be asked, or its answer is not well formed.
EvaluateDeny(c, reason) ==
    /\ calls[c].pc = "evaluate"
    /\ calls' = [calls EXCEPT ![c].pc = "record", ![c].outcome = Deny(reason)]
    /\ UNCHANGED <<policies, cache, tracker, store, revocations>>

\* cache.put, which keeps nothing that lives 0 seconds or too long.
Fill(c) ==
    LET call == calls[c]
        ttl == call.outcome.ttl
        value == [expires |-> call.now + ttl, grant |-> call.outcome.grant]
    IN  /\ call.pc = "fill"
        /\ cache' = IF ttl \in 1..CacheTtl
                    THEN PutBounded(cache, CacheKey(call), value, CacheSize)
                    ELSE cache
        /\ calls' = [calls EXCEPT ![c].pc = "record"]
        /\ UNCHANGED <<policies, tracker, store, revocations>>

\* Faulty variant: the exception is swallowed.
CacheFails_Swallowed(c) ==
    /\ calls[c].pc \in {"lookup", "evaluate", "fill"}
    /\ calls' = [calls EXCEPT ![c].pc = "record"]
    /\ UNCHANGED <<policies, cache, tracker, store, revocations>>

\* Any other exception of the cache or of the OPA client, once the request has
\* been digested, denies.
CacheFails(c) ==
    /\ calls[c].pc \in {"lookup", "evaluate", "fill"}
    /\ calls' = [calls EXCEPT ![c].pc = "record",
                              ![c].outcome = Deny("CACHE_FAILURE")]
    /\ UNCHANGED <<policies, cache, tracker, store, revocations>>

\* Faulty variant: the answer lives as long as OPA said, whatever the policy.
Response_TtlOnly(call) ==
    [org |-> call.token.org, request |-> call.request,
     digest |-> call.policy.digest, allowed |-> call.outcome.allowed,
     reason |-> call.outcome.reason, evaluated |-> call.now,
     expires |-> call.now + Greatest(1, call.outcome.ttl)]

\* _response.
Response(call) ==
    [org |-> call.token.org, request |-> call.request,
     digest |-> call.policy.digest, allowed |-> call.outcome.allowed,
     reason |-> call.outcome.reason, evaluated |-> call.now,
     expires |-> Least(call.policy.expires, call.now + Greatest(1, call.outcome.ttl))]

\* AtomicMemoryStore.record: the three rows appear together, or the caller is
\* told AUDIT_COMMIT_FAILED and gets no decision.
Record(c) ==
    LET call == calls[c] IN
    /\ call.pc = "record"
    /\ store' = [store EXCEPT ![c] =
                    [decision |-> Response(call), hit |-> call.hit]]
    /\ calls' = [calls EXCEPT ![c].pc = "answered", ![c].response = Response(call)]
    /\ UNCHANGED <<policies, cache, tracker, revocations>>

RecordFails(c) ==
    /\ calls[c].pc = "record"
    /\ Refused(c, calls[c], "AUDIT_COMMIT_FAILED")
    /\ UNCHANGED <<policies, cache, tracker, store, revocations>>

(***************************************************************************)
(* PolicyClient.authorize: the client's own instant is read before the call*)
(* is sent.  It acts only on an ALLOW for its organization, its request and*)
(* the policy it may have pinned, in force at that instant.                *)
(***************************************************************************)
ClientAccepts(response, o, request, pin, now) ==
    /\ response.org = o
    /\ response.request = request
    /\ pin \in {None, response.digest}
    /\ response.allowed
    /\ response.evaluated <= now
    /\ now < response.expires

\* A refusal changes nothing, at the client or at the service.
Authorize(c, o, pin, now) ==
    /\ calls[c].pc = "answered"
    /\ ClientAccepts(calls[c].response, o, calls[c].request, pin, now)
    /\ calls' = [calls EXCEPT ![c].pc = "accepted", ![c].accepted_at = now]
    /\ UNCHANGED <<policies, cache, tracker, store, revocations>>

-----------------------------------------------------------------------------
Init ==
    /\ policies = [o \in Orgs |-> [active |-> None, last_known_good |-> None,
                                   revoked |-> {}]]
    /\ cache = <<>>
    /\ tracker = <<>>
    /\ calls = [c \in Calls |-> NewCall]
    /\ store = [c \in Calls |-> None]
    /\ revocations = [o \in Orgs |-> {}]

Evaluate(c) == \/ \E ttl \in 0..MaxTtl : EvaluateAllow(c, ttl)
               \/ \E reason \in OpaRefusals : EvaluateDeny(c, reason)

Step(c) == \/ LookUp(c) \/ Evaluate(c) \/ Fill(c) \/ CacheFails(c)
           \/ Record(c) \/ RecordFails(c)

Next ==
    \/ \E p \in Artifacts, now \in Times : Activate(p, now)
    \/ \E o \in Orgs, digest \in Digests : Revoke(o, digest)
    \/ \E o \in Orgs, now \in Times : Rollback(o, now) \/ Ready(o, now)
    \/ \E c \in Calls, token \in Tokens, request \in Requests, now \in Times :
          Begin(c, token, request, now)
    \/ \E c \in Calls : Step(c)
    \/ \E c \in Calls, o \in Orgs, pin \in Digests \cup {None}, now \in Times :
          Authorize(c, o, pin, now)

\* A started call runs on: OPA's transport has a timeout and no lock is held
\* across a step.  Nothing makes a client call, or an operator act.
Spec == Init /\ [][Next]_vars /\ \A c \in Calls : WF_vars(Step(c))
-----------------------------------------------------------------------------
Grants == [org: Orgs, subject: STRING, request: Requests, digest: Digests,
           at: Times, ttl: 0..MaxTtl]

Outcome == [allowed: BOOLEAN, reason: {"ALLOW", "CACHE_FAILURE"} \cup OpaRefusals,
            ttl: Nat, grant: Grants \cup {None}]

Pending == {"lookup", "evaluate", "fill", "record"}

\* Pointers hold artifacts of their own organization, and a call that runs has a
\* policy and, from the cache's fill on, an outcome; rows hold whole answers.
TypeOK ==
    /\ store \in [Calls -> Row \cup {None}]
    /\ \A o \in Orgs :
          /\ {policies[o].active, policies[o].last_known_good}
                \subseteq {p \in Artifacts : p.org = o} \cup {None}
          /\ policies[o].revoked \subseteq Digests
    /\ \A c \in Calls :
          LET call == calls[c] IN
          /\ call.pc \in Pending \cup {"idle", "refused", "answered", "accepted"}
          /\ call.pc \in Pending \cup {"answered", "accepted"} =>
                call.policy \in Artifacts /\ call.policy.org = call.token.org
          /\ call.pc \in {"fill", "record", "answered", "accepted"} =>
                call.outcome \in Outcome

\* Revocation holds for every later call: one that begins after a digest was
\* revoked for its organization never decides under it, through whatever
\* activations and rollbacks followed.
NoDecisionUnderRevoked ==
    \A c \in Calls :
        calls[c].policy # None => calls[c].policy.digest \notin calls[c].revoked_before

Granted(grant) == <<grant.org, grant.subject, grant.request, grant.digest>>

\* The cache stays within its bound, holds one entry a key, and each entry is
\* what OPA granted to that very tenant, subject, request and policy, for no
\* longer; mutations are never in it.  (That the policy is still the active one
\* is not claimed: see CacheOfActivePolicy.)
CacheSound ==
    /\ Len(cache) <= CacheSize
    /\ \A i, j \in 1..Len(cache) : cache[i].key = cache[j].key => i = j
    /\ \A i \in 1..Len(cache) :
          LET entry == cache[i] IN
          /\ entry.key = Granted(entry.value.grant)
          /\ entry.value.expires = entry.value.grant.at + entry.value.grant.ttl
          /\ entry.value.grant.ttl <= CacheTtl
          /\ ~entry.value.grant.request.mutation

\* Every ALLOW on record goes back to an ALLOW of OPA for the same tenant,
\* subject, request and policy digest, expires with it at the latest (with the
\* one second _response gives to a ttl of 0), and for a mutation it is the
\* call's own evaluation.
AllowGrounded ==
    \A c \in Calls :
        store[c] # None /\ store[c].decision.allowed =>
            LET grant == calls[c].outcome.grant IN
            /\ Granted(grant) = <<calls[c].token.org, calls[c].token.subject,
                                  calls[c].request, calls[c].policy.digest>>
            /\ store[c].decision.expires <= grant.at + Greatest(1, grant.ttl)
            /\ store[c].decision.evaluated < store[c].decision.expires
            /\ calls[c].request.mutation => grant.at = calls[c].now /\ ~store[c].hit

\* A client acts only on a recorded ALLOW, at an instant between the effective
\* and the expiry date of the policy behind it.  (A revocation after the answer
\* does not reach a client that already has it.)
ClientWithinPolicy ==
    \A c \in Calls :
        calls[c].pc = "accepted" =>
            /\ store[c] # None
            /\ store[c].decision = calls[c].response
            /\ ActiveAt(calls[c].policy, calls[c].accepted_at)

\* Every call of decide that passed its checks answers.
DecideEnds ==
    \A c \in Calls : calls[c].pc \in Pending ~> calls[c].pc \notin Pending

\* test_decision.py: "policy rotation clears cache": after a trust change the
\* cache holds decisions of the active policy only.
CacheOfActivePolicy ==
    \A i \in 1..Len(cache) :
        LET o == cache[i].key[1] IN
        policies[o].active # None /\ policies[o].active.digest = cache[i].key[4]
=============================================================================
