------------------------ MODULE PolicyDecisionProofs ------------------------
(***************************************************************************)
(* The safety of the policy decision service, for every set of tenants,    *)
(* artifacts, tokens, requests and calls and every bound of the cache.     *)
(*                                                                         *)
(* DecisionInv is inductive.  What CacheSound, AllowGrounded and           *)
(* ClientWithinPolicy say of the cache, of the rows and of the client is   *)
(* not: an ALLOW travels from OPA's answer through a call's outcome, the   *)
(* cache, another call's outcome, its response and its row to the client,  *)
(* and each stage is as good as the one before.  SoundCall says what a call*)
(* must know at each of its steps, CacheKept what a cached entry is.       *)
(***************************************************************************)
EXTENDS PolicyDecision, LruProofs

(***************************************************************************)
(* The inductive invariant.                                                *)
(***************************************************************************)
Pointers ==
    [active: Artifacts \cup {None}, last_known_good: Artifacts \cup {None},
     revoked: SUBSET Digests]

PoliciesKept ==
    /\ policies \in [Orgs -> Pointers]
    /\ \A o \in Orgs :
          /\ policies[o].active # None => policies[o].active.org = o
          /\ policies[o].last_known_good # None => policies[o].last_known_good.org = o

\* What was ever revoked is still revoked.
RevokedKept ==
    /\ revocations \in [Orgs -> SUBSET Digests]
    /\ \A o \in Orgs : revocations[o] \subseteq policies[o].revoked

Serving == Pending \cup {"answered", "accepted"}
Decided == {"fill", "record", "answered", "accepted"}

Refusals ==
    {"TOKEN_IDENTITY_CONFLICT", "POLICY_UNAVAILABLE", "POLICY_REVOKED",
     "POLICY_NOT_YET_EFFECTIVE", "POLICY_EXPIRED", "AUDIT_COMMIT_FAILED",
     "RAISED"}

CallRecord ==
    [pc: Serving \cup {"idle", "refused"}, request: Requests \cup {None},
     token: Tokens \cup {None}, now: Times \cup {None},
     policy: Artifacts \cup {None}, outcome: Outcome \cup {None}, hit: BOOLEAN,
     response: Answer \cup Refusals \cup {None}, revoked_before: SUBSET Digests,
     accepted_at: Times \cup {None}]

\* A call that passed its checks serves one tenant under one policy of that
\* tenant, in force at the call's instant.
Admitted(call) ==
    /\ call.request \in Requests
    /\ call.token \in Tokens
    /\ call.now \in Times
    /\ call.policy \in Artifacts
    /\ call.policy.org = call.token.org
    /\ ActiveAt(call.policy, call.now)

\* An allowing outcome is what OPA granted to this very tenant, subject, request
\* and policy, and does not outlive it.
Grounded(call) ==
    LET outcome == call.outcome
        grant == outcome.grant
    IN  /\ grant \in Grants
        /\ Granted(grant) = CacheKey(call)
        /\ call.now + Greatest(1, outcome.ttl) <= grant.at + Greatest(1, grant.ttl)
        /\ call.request.mutation => grant.at = call.now /\ ~call.hit

\* What the cache is filled with is what OPA has just granted, for a read.
Fresh(call) ==
    /\ call.outcome.allowed
    /\ call.outcome.grant.at = call.now
    /\ call.outcome.grant.ttl = call.outcome.ttl
    /\ ~call.request.mutation

SoundCall(call) ==
    /\ call.pc \in Serving => Admitted(call)
    /\ call.policy # None => call.policy.digest \notin call.revoked_before
    /\ call.pc = "idle" => call = NewCall
    /\ call.pc = "lookup" => ~call.request.mutation
    /\ call.pc \in {"lookup", "evaluate"} => ~call.hit
    /\ call.pc \in Decided => call.outcome \in Outcome
    /\ call.pc \in Decided /\ call.outcome.allowed => Grounded(call)
    /\ call.pc = "fill" => Fresh(call)
    /\ call.pc \in {"answered", "accepted"} => call.response = Response(call)
    /\ call.pc = "accepted" =>
          call.accepted_at \in Times /\ ActiveAt(call.policy, call.accepted_at)

SoundCalls == {call \in CallRecord : SoundCall(call)}

CallsKept == calls \in [Calls -> SoundCalls]

\* An entry is one grant to a read, under the grant's own key, for the grant's
\* own life, which is no longer than the cache keeps anything.
CacheEntry(grant) ==
    [key |-> Granted(grant),
     value |-> [expires |-> grant.at + grant.ttl, grant |-> grant]]

CacheEntries ==
    {CacheEntry(grant) : grant \in {g \in Grants : g.ttl <= CacheTtl /\ ~g.request.mutation}}

CacheKept ==
    /\ cache \in Seq(CacheEntries)
    /\ Unique(cache)
    /\ Len(cache) <= CacheSize

\* The rows of a call are there exactly if it has answered, and are its answer.
RowOf(call) ==
    IF call.pc \in {"answered", "accepted"}
    THEN [decision |-> call.response, hit |-> call.hit]
    ELSE None

StoreKept == store = [c \in Calls |-> RowOf(calls[c])]

DecisionInv ==
    /\ PoliciesKept
    /\ RevokedKept
    /\ CallsKept
    /\ CacheKept
    /\ StoreKept

-----------------------------------------------------------------------------
(***************************************************************************)
(* The constants.                                                          *)
(***************************************************************************)
\* The fields of an artifact the handlers read.
LEMMA ArtifactFields ==
    \A p \in Artifacts : /\ p.org \in Orgs /\ p.digest \in Digests
                         /\ p.effective \in Nat /\ p.expires \in Nat
  BY ArtifactsAssumption DEF Artifact

\* The fields of a token the handlers read.
LEMMA TokenFields == \A token \in Tokens : token.org \in Orgs /\ token.subject \in STRING
  BY TokensAssumption DEF Token

\* A request is a mutation or it is not.
LEMMA RequestFields == \A request \in Requests : request.mutation \in BOOLEAN
  BY RequestsAssumption DEF Request

\* The fields of a grant, as numbers and as a request.
LEMMA GrantFields ==
    \A grant \in Grants : /\ grant.at \in Nat /\ grant.ttl \in Nat
                          /\ grant.request \in Requests
<1> SUFFICES ASSUME NEW grant \in Grants
             PROVE  grant.at \in Nat /\ grant.ttl \in Nat /\ grant.request \in Requests
  OBVIOUS
<1>1. grant.at \in Times /\ grant.ttl \in 0..MaxTtl /\ grant.request \in Requests
  BY DEF Grants
<1>2. grant.at \in Nat
  BY <1>1, TimesAssumption
<1>3. \A n \in 0..MaxTtl : n \in Nat
  OBVIOUS
<1> QED  BY <1>1, <1>2, <1>3

\* The fields of an outcome.
LEMMA OutcomeFields ==
    \A outcome \in Outcome :
        /\ outcome.allowed \in BOOLEAN /\ outcome.ttl \in Nat
        /\ outcome.reason \in {"ALLOW", "CACHE_FAILURE"} \cup OpaRefusals
  BY DEF Outcome

(***************************************************************************)
(* One call moves.                                                         *)
(***************************************************************************)
\* A step of one call leaves every call sound if it leaves that one sound, and
\* the rows as they should be if it writes that call's row or needs none.
LEMMA CallMoves ==
    ASSUME CallsKept, StoreKept, NEW c \in Calls, NEW new \in SoundCalls,
           calls' = [calls EXCEPT ![c] = new],
           store' = [store EXCEPT ![c] = RowOf(new)]
    PROVE  CallsKept' /\ StoreKept'
<1>1. CallsKept'
  BY DEF CallsKept
<1>2. \A d \in Calls : calls'[d] = IF d = c THEN new ELSE calls[d]
  BY DEF CallsKept
<1>3. store' = [d \in Calls |-> IF d = c THEN RowOf(new) ELSE RowOf(calls[d])]
  BY DEF StoreKept
<1>4. \A d \in Calls : RowOf(calls'[d]) = IF d = c THEN RowOf(new) ELSE RowOf(calls[d])
  BY <1>2
<1>5. StoreKept'
  BY <1>3, <1>4 DEF StoreKept
<1> QED  BY <1>1, <1>5

\* A step that answers nothing and takes back no answer leaves the rows alone.
LEMMA CallMovesUnrecorded ==
    ASSUME CallsKept, StoreKept, NEW c \in Calls, NEW new \in SoundCalls,
           calls' = [calls EXCEPT ![c] = new], store' = store,
           RowOf(new) = RowOf(calls[c])
    PROVE  CallsKept' /\ StoreKept'
<1>1. store = [store EXCEPT ![c] = RowOf(new)]
  BY DEF StoreKept
<1> QED  BY <1>1, CallMoves

\* A call is sound and has the fields of a call.
LEMMA SoundFields ==
    ASSUME CallsKept, NEW c \in Calls
    PROVE  calls[c] \in CallRecord /\ SoundCall(calls[c])
  BY DEF CallsKept, SoundCalls

\* Whoever reads nothing but the calls and the rows sees the same when neither
\* changes.
LEMMA CallsStay ==
    ASSUME CallsKept, StoreKept, calls' = calls, store' = store
    PROVE  CallsKept' /\ StoreKept'
  BY DEF CallsKept, StoreKept

(***************************************************************************)
(* The cache.                                                              *)
(***************************************************************************)
\* A cache that was cleared is sound.
LEMMA ClearedCache ==
    ASSUME cache' = <<>>
    PROVE  CacheKept'
  BY CacheSizeAssumption DEF CacheKept, Unique

\* An unchanged cache stays sound.
LEMMA CacheStays ==
    ASSUME CacheKept, cache' = cache
    PROVE  CacheKept'
  BY DEF CacheKept

\* active drops every entry or none.
LEMMA ActiveKeepsCache ==
    ASSUME CacheKept, NEW o, NEW now, cache' = CacheAfterActive(o, now)
    PROVE  CacheKept'
<1>1. cache' = <<>> \/ cache' = cache
  BY DEF CacheAfterActive
<1> QED  BY <1>1, ClearedCache, CacheStays

\* Dropping an entry keeps the cache sound.
LEMMA DropKeepsCache ==
    ASSUME CacheKept, NEW key, cache' = Others(cache, key)
    PROVE  CacheKept'
<1>1. /\ Others(cache, key) \in Seq(CacheEntries) /\ Unique(Others(cache, key))
      /\ Len(Others(cache, key)) <= Len(cache)
  BY OthersItems DEF CacheKept
<1>2. Len(cache) \in Nat /\ Len(cache) <= CacheSize /\ Len(Others(cache, key)) \in Nat
  BY <1>1, LenProperties DEF CacheKept
<1> QED  BY <1>1, <1>2, CacheSizeAssumption DEF CacheKept

\* Storing or touching an entry keeps the cache sound.
LEMMA PutKeepsCache ==
    ASSUME CacheKept, NEW key, NEW value, [key |-> key, value |-> value] \in CacheEntries,
           cache' = PutBounded(cache, key, value, CacheSize)
    PROVE  CacheKept'
<1> DEFINE put == PutBounded(cache, key, value, CacheSize)
<1>1. put \in Seq(CacheEntries) /\ Unique(put) /\ Len(put) <= CacheSize
  BY PutItems, CacheSizeAssumption DEF CacheKept
<1> QED  BY <1>1 DEF CacheKept

\* What is found in the cache is an entry of it, under the key looked up.
LEMMA FoundInCache ==
    ASSUME CacheKept, NEW key, Lookup(cache, key, None) # None
    PROVE  \E grant \in Grants :
              /\ grant.ttl <= CacheTtl /\ ~grant.request.mutation
              /\ Granted(grant) = key
              /\ Lookup(cache, key, None) = [expires |-> grant.at + grant.ttl, grant |-> grant]
              /\ [key |-> key, value |-> Lookup(cache, key, None)] \in CacheEntries
<1>1. Holds(cache, key)
  BY DEF Lookup
<1>2. PICK i \in 1..Len(cache) : i = Position(cache, key) /\ cache[i].key = key
  BY <1>1, PositionOf
<1>3. cache[i] \in CacheEntries
  BY <1>2, ElementOfSeq DEF CacheKept
<1>4. PICK grant \in Grants : /\ grant.ttl <= CacheTtl /\ ~grant.request.mutation
                              /\ cache[i] = CacheEntry(grant)
  BY <1>3 DEF CacheEntries
<1>5. Lookup(cache, key, None) = cache[i].value
  BY <1>1, <1>2 DEF Lookup
<1>6. /\ cache[i].key = Granted(grant)
      /\ cache[i].value = [expires |-> grant.at + grant.ttl, grant |-> grant]
  BY <1>4 DEF CacheEntry
<1>7. [key |-> key, value |-> cache[i].value] = cache[i]
  BY <1>2, <1>4, <1>6 DEF CacheEntry
<1> QED  BY <1>2, <1>3, <1>4, <1>5, <1>6, <1>7

(***************************************************************************)
(* PolicyManager's steps.                                                  *)
(***************************************************************************)
\* The initial state: nobody has a policy, nobody calls.
LEMMA DecisionInit == Init => DecisionInv
<1> SUFFICES ASSUME Init
             PROVE  DecisionInv
  OBVIOUS
<1>1. PoliciesKept /\ RevokedKept
  BY DEF Init, PoliciesKept, RevokedKept, Pointers
<1>2. CacheKept
  BY CacheSizeAssumption DEF Init, CacheKept, Unique
<1>3. NewCall \in CallRecord
  BY DEF NewCall, CallRecord, Serving, Pending
<1>4. SoundCall(NewCall)
  BY DEF SoundCall, NewCall, Serving, Pending, Decided
<1>5. CallsKept
  BY <1>3, <1>4 DEF Init, CallsKept, SoundCalls
<1>6. RowOf(NewCall) = None
  BY DEF RowOf, NewCall
<1>7. StoreKept
  BY <1>6 DEF Init, StoreKept
<1> QED  BY <1>1, <1>2, <1>5, <1>7 DEF DecisionInv

\* Replacing a tenant's pointers, with the cache cleared and no digest forgotten.
LEMMA SetPolicyKeeps ==
    ASSUME DecisionInv, NEW o \in Orgs,
           NEW active \in Artifacts \cup {None}, NEW lkg \in Artifacts \cup {None},
           active # None => active.org = o, lkg # None => lkg.org = o,
           NEW revoked \in SUBSET Digests, NEW gone \in SUBSET revoked,
           SetPolicy(o, active, lkg, revoked),
           revocations' = [revocations EXCEPT ![o] = gone]
    PROVE  DecisionInv'
<1> DEFINE pointers == [active |-> active, last_known_good |-> lkg, revoked |-> revoked]
<1>1. pointers \in Pointers
  BY DEF Pointers
<1>2. pointers.active = active /\ pointers.last_known_good = lkg /\ pointers.revoked = revoked
  OBVIOUS
<1>3. policies' = [policies EXCEPT ![o] = pointers]
  BY DEF SetPolicy
<1> HIDE DEF pointers
<1>4. policies \in [Orgs -> Pointers]
  BY DEF DecisionInv, PoliciesKept
<1>5. policies' \in [Orgs -> Pointers]
  BY <1>1, <1>3, <1>4
<1>6. \A u \in Orgs : policies'[u] = IF u = o THEN pointers ELSE policies[u]
  BY <1>3, <1>4
<1>7. PoliciesKept'
  BY <1>2, <1>5, <1>6 DEF DecisionInv, PoliciesKept
<1>8. /\ revocations' \in [Orgs -> SUBSET Digests]
      /\ \A u \in Orgs : revocations'[u] = IF u = o THEN gone ELSE revocations[u]
  BY DEF DecisionInv, RevokedKept
<1>9. RevokedKept'
  BY <1>2, <1>6, <1>8 DEF DecisionInv, RevokedKept
<1>10. CacheKept'
  BY ClearedCache DEF SetPolicy
<1>11. CallsKept' /\ StoreKept'
  BY CallsStay DEF SetPolicy, DecisionInv
<1> QED  BY <1>7, <1>9, <1>10, <1>11 DEF DecisionInv

\* The pointers of a tenant, as the handlers read them.
LEMMA PointerFields ==
    ASSUME DecisionInv, NEW o \in Orgs
    PROVE  /\ policies[o].active \in Artifacts \cup {None}
           /\ policies[o].last_known_good \in Artifacts \cup {None}
           /\ policies[o].revoked \in SUBSET Digests
           /\ revocations[o] \in SUBSET policies[o].revoked
           /\ policies[o].active # None => policies[o].active.org = o
           /\ policies[o].last_known_good # None => policies[o].last_known_good.org = o
  BY DEF DecisionInv, PoliciesKept, RevokedKept, Pointers

\* The history of revocations that nobody writes.
LEMMA SameRevocations ==
    ASSUME DecisionInv, NEW o \in Orgs, revocations' = revocations
    PROVE  revocations' = [revocations EXCEPT ![o] = revocations[o]]
  BY DEF DecisionInv, RevokedKept

\* activate makes the active policy the last known good one.
LEMMA ActivateKeeps ==
    ASSUME DecisionInv, NEW p \in Artifacts, NEW now \in Times, Activate(p, now)
    PROVE  DecisionInv'
<1>1. p.org \in Orgs
  BY ArtifactFields
<1>2. SetPolicy(p.org, p, policies[p.org].active, policies[p.org].revoked)
  BY DEF Activate
<1>3. revocations' = [revocations EXCEPT ![p.org] = revocations[p.org]]
  BY <1>1, SameRevocations DEF Activate
<1>4. PICK lkg \in Artifacts \cup {None} :
         lkg = policies[p.org].active /\ (lkg # None => lkg.org = p.org)
  BY <1>1, PointerFields
<1>5. PICK revoked \in SUBSET Digests : revoked = policies[p.org].revoked
  BY <1>1, PointerFields
<1>6. PICK gone \in SUBSET revoked : gone = revocations[p.org]
  BY <1>1, <1>5, PointerFields
<1>7. /\ SetPolicy(p.org, p, lkg, revoked)
      /\ revocations' = [revocations EXCEPT ![p.org] = gone]
  BY <1>2, <1>3, <1>4, <1>5, <1>6
<1> QED  BY <1>1, <1>4, <1>7, SetPolicyKeeps

\* revoke takes the digest out of both pointers.
LEMMA RevokeKeeps ==
    ASSUME DecisionInv, NEW o \in Orgs, NEW digest \in Digests, Revoke(o, digest)
    PROVE  DecisionInv'
<1>1. PICK active \in Artifacts \cup {None} :
         /\ active = UnlessRevoked(policies[o].active, digest)
         /\ active # None => active.org = o
  BY PointerFields DEF UnlessRevoked
<1>2. PICK lkg \in Artifacts \cup {None} :
         /\ lkg = UnlessRevoked(policies[o].last_known_good, digest)
         /\ lkg # None => lkg.org = o
  BY PointerFields DEF UnlessRevoked
<1>3. PICK revoked \in SUBSET Digests : revoked = policies[o].revoked \cup {digest}
  BY PointerFields
<1>4. PICK gone \in SUBSET revoked : gone = revocations[o] \cup {digest}
  BY <1>3, PointerFields
<1>5. SetPolicy(o, active, lkg, revoked)
  BY <1>1, <1>2, <1>3 DEF Revoke
<1>6. revocations' = [revocations EXCEPT ![o] = gone]
  BY <1>4 DEF Revoke
<1> QED  BY <1>1, <1>2, <1>5, <1>6, SetPolicyKeeps

\* rollback takes up the last known good policy again.
LEMMA RollbackKeeps ==
    ASSUME DecisionInv, NEW o \in Orgs, NEW now \in Times, Rollback(o, now)
    PROVE  DecisionInv'
<1>1. SetPolicy(o, policies[o].last_known_good, None, policies[o].revoked)
  BY DEF Rollback
<1>2. revocations' = [revocations EXCEPT ![o] = revocations[o]]
  BY SameRevocations DEF Rollback
<1>3. PICK active \in Artifacts \cup {None} :
         active = policies[o].last_known_good /\ (active # None => active.org = o)
  BY PointerFields
<1>4. PICK revoked \in SUBSET Digests : revoked = policies[o].revoked
  BY PointerFields
<1>5. PICK gone \in SUBSET revoked : gone = revocations[o]
  BY <1>4, PointerFields
<1>6. /\ SetPolicy(o, active, None, revoked)
      /\ revocations' = [revocations EXCEPT ![o] = gone]
  BY <1>1, <1>2, <1>3, <1>4, <1>5
<1> QED  BY <1>3, <1>6, SetPolicyKeeps

\* The pointers that nobody writes.
LEMMA PoliciesStay ==
    ASSUME PoliciesKept, RevokedKept, policies' = policies, revocations' = revocations
    PROVE  PoliciesKept' /\ RevokedKept'
  BY DEF PoliciesKept, RevokedKept

\* The readiness probe may clear the cache.
LEMMA ReadyKeeps ==
    ASSUME DecisionInv, NEW o \in Orgs, NEW now \in Times, Ready(o, now)
    PROVE  DecisionInv'
<1>1. CacheKept'
  BY ActiveKeepsCache DEF Ready, DecisionInv
<1>2. CallsKept' /\ StoreKept'
  BY CallsStay DEF Ready, DecisionInv
<1>3. PoliciesKept' /\ RevokedKept'
  BY PoliciesStay DEF Ready, DecisionInv
<1> QED  BY <1>1, <1>2, <1>3 DEF DecisionInv

(***************************************************************************)
(* decide's steps.                                                         *)
(***************************************************************************)
\* A call that is refused keeps what it knows and has no rows.
LEMMA RefusedKeeps ==
    ASSUME CallsKept, StoreKept, NEW c \in Calls, NEW call \in CallRecord,
           call.policy # None => call.policy.digest \notin call.revoked_before,
           NEW reason \in Refusals, Refused(c, call, reason),
           RowOf(calls[c]) = None, store' = store
    PROVE  CallsKept' /\ StoreKept'
<1>1. PICK new : new = [call EXCEPT !.pc = "refused", !.response = reason]
  OBVIOUS
<1>2. /\ new \in CallRecord /\ new.pc = "refused"
      /\ new.policy = call.policy /\ new.revoked_before = call.revoked_before
  BY <1>1 DEF CallRecord
<1>3. SoundCall(new)
  BY <1>2 DEF SoundCall, Serving, Pending, Decided
<1>4. new \in SoundCalls
  BY <1>2, <1>3 DEF SoundCalls
<1>5. RowOf(new) = None
  BY <1>2 DEF RowOf
<1>6. calls' = [calls EXCEPT ![c] = new]
  BY <1>1 DEF Refused
<1> QED  BY <1>4, <1>5, <1>6, CallMovesUnrecorded

\* What is refused before it has a policy is refused with a known reason, and
\* the active policy is otherwise in force and not revoked.
LEMMA ActiveOrRefused ==
    ASSUME DecisionInv, NEW o \in Orgs, NEW now \in Times
    PROVE  \/ ActiveRefusal(o, now) \in Refusals /\ ActiveRefusal(o, now) # "NONE"
           \/ /\ ActiveRefusal(o, now) = "NONE"
              /\ policies[o].active \in Artifacts
              /\ policies[o].active.org = o
              /\ policies[o].active.digest \notin policies[o].revoked
              /\ ActiveAt(policies[o].active, now)
<1>1. PICK policy \in Artifacts \cup {None} :
         policy = policies[o].active /\ (policy # None => policy.org = o)
  BY PointerFields
<1>2. now \in Nat
  BY TimesAssumption
<1>3. CASE policy = None \/ policy.digest \in policies[o].revoked
  BY <1>1, <1>3 DEF ActiveRefusal, Refusals
<1>4. CASE policy # None /\ policy.digest \notin policies[o].revoked
  <2>1. policy \in Artifacts /\ policy.effective \in Nat /\ policy.expires \in Nat
    BY <1>1, <1>4, ArtifactFields
  <2>2. CASE now < policy.effective \/ now >= policy.expires
    BY <1>1, <1>4, <2>2 DEF ActiveRefusal, Refusals
  <2>3. CASE ~(now < policy.effective) /\ ~(now >= policy.expires)
    <3>1. ActiveRefusal(o, now) = "NONE"
      BY <1>1, <1>4, <2>3 DEF ActiveRefusal
    <3>2. ActiveAt(policy, now)
      BY <1>2, <2>1, <2>3 DEF ActiveAt
    <3> QED  BY <1>1, <1>4, <2>1, <3>1, <3>2
  <2> QED  BY <2>2, <2>3
<1> QED  BY <1>3, <1>4

\* A call begins: it is refused, or it is admitted under the active policy of
\* its token's organization.
LEMMA BeginKeeps ==
    ASSUME DecisionInv, NEW c \in Calls, NEW token \in Tokens,
           NEW request \in Requests, NEW now \in Times, Begin(c, token, request, now)
    PROVE  DecisionInv'
<1>1. PICK o \in Orgs : o = token.org
  BY TokenFields
<1>2. PICK call : call = [NewCall EXCEPT !.request = request, !.token = token, !.now = now,
                                         !.revoked_before = revocations[o]]
  OBVIOUS
<1>3. revocations[o] \in SUBSET Digests
  BY DEF DecisionInv, RevokedKept
<1>4. /\ call \in CallRecord
      /\ call.request = request /\ call.token = token /\ call.now = now
      /\ call.revoked_before = revocations[o] /\ call.policy = None /\ ~call.hit
  BY <1>2, <1>3 DEF NewCall, CallRecord
<1> HIDE <1>2
<1>5. calls[c].pc = "idle" /\ RowOf(calls[c]) = None
  BY DEF Begin, RowOf
<1>6. PoliciesKept' /\ RevokedKept'
  BY PoliciesStay DEF Begin, DecisionInv
<1>7. store' = store
  BY DEF Begin
<1>8. cache' = cache \/ cache' = CacheAfterActive(o, now)
  BY <1>1 DEF Begin
<1>9. CacheKept'
  BY <1>8, CacheStays, ActiveKeepsCache DEF DecisionInv
<1>10. \/ \E reason \in Refusals : Refused(c, call, reason)
       \/ /\ ActiveRefusal(o, now) = "NONE"
          /\ calls' = [calls EXCEPT ![c] =
                [call EXCEPT !.pc = IF request.mutation THEN "evaluate" ELSE "lookup",
                             !.policy = policies[o].active]]
  <2> DEFINE refusal == IF ActiveRefusal(o, now) # "NONE" THEN ActiveRefusal(o, now)
                        ELSE IF request.canonical THEN "NONE" ELSE "RAISED"
  <2>1. \/ Refused(c, call, "TOKEN_IDENTITY_CONFLICT")
        \/ IF refusal # "NONE" THEN Refused(c, call, refusal)
           ELSE calls' = [calls EXCEPT ![c] =
                   [call EXCEPT !.pc = IF request.mutation THEN "evaluate" ELSE "lookup",
                                !.policy = policies[o].active]]
    BY <1>1, <1>2 DEF Begin
  <2>2. {"TOKEN_IDENTITY_CONFLICT", "RAISED"} \subseteq Refusals
    BY DEF Refusals
  <2>3. CASE refusal = "NONE"
    <3>1. ActiveRefusal(o, now) = "NONE"
      BY <2>3
    <3> HIDE DEF refusal
    <3> QED  BY <2>1, <2>2, <2>3, <3>1
  <2>4. CASE refusal # "NONE"
    <3>1. refusal \in Refusals
      BY <2>2, <2>4, ActiveOrRefused
    <3> HIDE DEF refusal
    <3> QED  BY <2>1, <2>2, <2>4, <3>1
  <2> QED  BY <2>3, <2>4
<1>11. CASE \E reason \in Refusals : Refused(c, call, reason)
  <2>1. CallsKept' /\ StoreKept'
    BY <1>4, <1>5, <1>7, <1>11, RefusedKeeps DEF DecisionInv
  <2> QED  BY <1>6, <1>9, <2>1 DEF DecisionInv
<1>12. CASE /\ ActiveRefusal(o, now) = "NONE"
            /\ calls' = [calls EXCEPT ![c] =
                  [call EXCEPT !.pc = IF request.mutation THEN "evaluate" ELSE "lookup",
                               !.policy = policies[o].active]]
  <2>1. PICK policy \in Artifacts :
           /\ policy = policies[o].active /\ policy.org = o /\ ActiveAt(policy, now)
           /\ policy.digest \notin revocations[o]
    BY <1>12, ActiveOrRefused, PointerFields
  <2>2. PICK pc \in {"evaluate", "lookup"} :
           pc = (IF request.mutation THEN "evaluate" ELSE "lookup")
    OBVIOUS
  <2>3. PICK new : new = [call EXCEPT !.pc = pc, !.policy = policy]
    OBVIOUS
  <2>4. calls' = [calls EXCEPT ![c] = new]
    BY <1>12, <2>1, <2>2, <2>3
  <2>5. /\ new \in CallRecord
        /\ new.pc = pc /\ new.policy = policy
        /\ new.request = request /\ new.token = token /\ new.now = now
        /\ new.revoked_before = revocations[o] /\ ~new.hit
    BY <1>4, <2>3 DEF CallRecord, Serving, Pending
  <2>6. Admitted(new)
    BY <1>1, <2>1, <2>5 DEF Admitted
  <2>7. new.pc = "lookup" => ~new.request.mutation
    BY <2>2, <2>5
  <2>8. SoundCall(new)
    BY <2>1, <2>2, <2>5, <2>6, <2>7 DEF SoundCall, Serving, Pending, Decided
  <2>9. new \in SoundCalls
    BY <2>5, <2>8 DEF SoundCalls
  <2>10. RowOf(new) = None
    BY <2>2, <2>5 DEF RowOf
  <2>11. CallsKept' /\ StoreKept'
    BY <1>5, <1>7, <2>4, <2>9, <2>10, CallMovesUnrecorded DEF DecisionInv
  <2> QED  BY <1>6, <1>9, <2>11 DEF DecisionInv
<1> QED  BY <1>10, <1>11, <1>12

\* What a call that is being served knows, field by field.
LEMMA ServingFields ==
    ASSUME CallsKept, NEW c \in Calls, calls[c].pc \in Serving
    PROVE  /\ calls[c].request \in Requests /\ calls[c].request.mutation \in BOOLEAN
           /\ calls[c].token \in Tokens
           /\ calls[c].token.org \in Orgs /\ calls[c].token.subject \in STRING
           /\ calls[c].now \in Times /\ calls[c].now \in Nat
           /\ calls[c].policy \in Artifacts /\ calls[c].policy.digest \in Digests
           /\ calls[c].policy.effective \in Nat /\ calls[c].policy.expires \in Nat
           /\ calls[c].policy.effective <= calls[c].now
           /\ calls[c].now < calls[c].policy.expires
<1>1. Admitted(calls[c])
  BY SoundFields DEF SoundCall
<1>2. calls[c].now \in Nat
  BY <1>1, TimesAssumption DEF Admitted
<1> QED  BY <1>1, <1>2, ArtifactFields, TokenFields, RequestFields DEF Admitted, ActiveAt

\* A call that goes on, with the same request, token, instant and policy.
GoesOn(call, new) ==
    /\ new \in CallRecord
    /\ new.request = call.request /\ new.token = call.token /\ new.now = call.now
    /\ new.policy = call.policy /\ new.revoked_before = call.revoked_before

\* It is still admitted, under the same policy and the same cache key.
LEMMA GoesOnAdmitted ==
    ASSUME CallsKept, NEW c \in Calls, calls[c].pc \in Serving,
           NEW new, GoesOn(calls[c], new)
    PROVE  /\ Admitted(new)
           /\ new.policy # None => new.policy.digest \notin new.revoked_before
           /\ CacheKey(new) = CacheKey(calls[c])
<1>1. SoundCall(calls[c])
  BY SoundFields
<1> QED  BY <1>1 DEF GoesOn, Admitted, SoundCall, CacheKey

\* A grant of OPA to a call being served is one the cache may keep.
LEMMA GrantOf ==
    ASSUME CallsKept, NEW c \in Calls, calls[c].pc \in Serving, NEW ttl \in 0..MaxTtl
    PROVE  /\ Grant(calls[c], ttl) \in Grants
           /\ Granted(Grant(calls[c], ttl)) = CacheKey(calls[c])
           /\ Grant(calls[c], ttl).at = calls[c].now
           /\ Grant(calls[c], ttl).ttl = ttl
           /\ Grant(calls[c], ttl).request = calls[c].request
<1>1. Grant(calls[c], ttl) \in Grants
  BY ServingFields DEF Grant, Grants
<1> QED  BY <1>1 DEF Grant, Granted, CacheKey

\* OPA allows: the outcome is its grant.
LEMMA EvaluateAllowKeeps ==
    ASSUME DecisionInv, NEW c \in Calls, NEW ttl \in 0..MaxTtl, EvaluateAllow(c, ttl)
    PROVE  DecisionInv'
<1>1. CallsKept /\ StoreKept /\ calls[c] \in CallRecord /\ SoundCall(calls[c])
  BY SoundFields DEF DecisionInv
<1>2. calls[c].pc = "evaluate" /\ calls[c].pc \in Serving
  BY DEF EvaluateAllow, Serving, Pending
<1>3. PICK grant \in Grants : /\ grant = Grant(calls[c], ttl)
                              /\ Granted(grant) = CacheKey(calls[c])
                              /\ grant.at = calls[c].now /\ grant.ttl = ttl
  BY <1>1, <1>2, GrantOf
<1>4. ttl \in Nat
  BY MaxTtlAssumption
<1>5. PICK outcome : /\ outcome \in Outcome
                     /\ outcome = [allowed |-> TRUE, reason |-> "ALLOW",
                                   ttl |-> ttl, grant |-> grant]
                     /\ outcome.allowed /\ outcome.ttl = ttl /\ outcome.grant = grant
  <2>1. PICK outcome : outcome = [allowed |-> TRUE, reason |-> "ALLOW",
                                  ttl |-> ttl, grant |-> grant]
    OBVIOUS
  <2>2. outcome \in Outcome
    BY <1>4, <2>1 DEF Outcome
  <2> QED  BY <2>1, <2>2
<1>6. PICK pc \in {"record", "fill"} :
         pc = (IF calls[c].request.mutation THEN "record" ELSE "fill")
  OBVIOUS
<1>7. PICK new : new = [calls[c] EXCEPT !.pc = pc, !.outcome = outcome]
  OBVIOUS
<1>8. calls' = [calls EXCEPT ![c] = new]
  BY <1>3, <1>5, <1>6, <1>7 DEF EvaluateAllow
<1>9. /\ GoesOn(calls[c], new)
      /\ new.pc = pc /\ new.outcome = outcome /\ new.hit = calls[c].hit
  <2>1. outcome \in Outcome /\ pc \in Serving
    BY <1>5, <1>6 DEF Serving, Pending
  <2> QED  BY <1>1, <1>7, <2>1 DEF GoesOn, CallRecord
<1>10. /\ Admitted(new) /\ CacheKey(new) = CacheKey(calls[c])
       /\ new.policy # None => new.policy.digest \notin new.revoked_before
  BY <1>1, <1>2, <1>9, GoesOnAdmitted
<1>11. ~calls[c].hit
  BY <1>1, <1>2 DEF SoundCall
<1>12. calls[c].now + Greatest(1, ttl) <= grant.at + Greatest(1, grant.ttl)
  BY <1>1, <1>2, <1>3, <1>4, ServingFields DEF Greatest
<1>13. Grounded(new)
  BY <1>3, <1>5, <1>9, <1>10, <1>11, <1>12 DEF Grounded, GoesOn
<1>14. new.pc = "fill" => Fresh(new)
  BY <1>3, <1>5, <1>6, <1>9 DEF Fresh, GoesOn
<1>15. new \in SoundCalls
  BY <1>5, <1>6, <1>9, <1>10, <1>13, <1>14
     DEF SoundCalls, SoundCall, GoesOn, Serving, Pending, Decided
<1>16. RowOf(new) = RowOf(calls[c])
  BY <1>2, <1>6, <1>9 DEF RowOf
<1>17. CallsKept' /\ StoreKept'
  BY <1>1, <1>8, <1>15, <1>16, CallMovesUnrecorded DEF EvaluateAllow
<1>18. CacheKept' /\ PoliciesKept' /\ RevokedKept'
  BY CacheStays, PoliciesStay DEF EvaluateAllow, DecisionInv
<1> QED  BY <1>17, <1>18 DEF DecisionInv

\* A refusal of OPA, of the cache or of the OPA client is an outcome that allows
\* nothing.
LEMMA DenyKeeps ==
    ASSUME CallsKept, StoreKept, NEW c \in Calls,
           calls[c].pc \in {"lookup", "evaluate", "fill"},
           NEW reason \in {"ALLOW", "CACHE_FAILURE"} \cup OpaRefusals,
           calls' = [calls EXCEPT ![c].pc = "record", ![c].outcome = Deny(reason)],
           store' = store
    PROVE  CallsKept' /\ StoreKept'
<1>1. calls[c] \in CallRecord /\ calls[c].pc \in Serving
  BY SoundFields DEF Serving, Pending
<1>2. PICK outcome : outcome = Deny(reason)
  OBVIOUS
<1>3. outcome \in Outcome /\ ~outcome.allowed
  BY <1>2 DEF Deny, Outcome
<1>4. PICK new : new = [calls[c] EXCEPT !.pc = "record", !.outcome = outcome]
  OBVIOUS
<1>5. calls' = [calls EXCEPT ![c] = new]
  BY <1>1, <1>2, <1>4
<1>6. GoesOn(calls[c], new) /\ new.pc = "record" /\ new.outcome = outcome
  BY <1>1, <1>3, <1>4 DEF GoesOn, CallRecord, Serving, Pending
<1>7. /\ Admitted(new)
      /\ new.policy # None => new.policy.digest \notin new.revoked_before
  BY <1>1, <1>6, GoesOnAdmitted
<1>8. new \in SoundCalls
  BY <1>3, <1>6, <1>7 DEF SoundCalls, SoundCall, GoesOn, Serving, Pending, Decided
<1>9. RowOf(new) = RowOf(calls[c])
  BY <1>6 DEF RowOf
<1> QED  BY <1>5, <1>8, <1>9, CallMovesUnrecorded

\* OPA denies, or cannot be asked.
LEMMA EvaluateDenyKeeps ==
    ASSUME DecisionInv, NEW c \in Calls, NEW reason \in OpaRefusals, EvaluateDeny(c, reason)
    PROVE  DecisionInv'
<1>1. CallsKept' /\ StoreKept'
  BY DenyKeeps DEF EvaluateDeny, DecisionInv
<1>2. CacheKept' /\ PoliciesKept' /\ RevokedKept'
  BY CacheStays, PoliciesStay DEF EvaluateDeny, DecisionInv
<1> QED  BY <1>1, <1>2 DEF DecisionInv

\* An exception of the cache or of the OPA client denies.
LEMMA CacheFailsKeeps ==
    ASSUME DecisionInv, NEW c \in Calls, CacheFails(c)
    PROVE  DecisionInv'
<1>1. CallsKept' /\ StoreKept'
  BY DenyKeeps DEF CacheFails, DecisionInv
<1>2. CacheKept' /\ PoliciesKept' /\ RevokedKept'
  BY CacheStays, PoliciesStay DEF CacheFails, DecisionInv
<1> QED  BY <1>1, <1>2 DEF DecisionInv

\* A lookup that finds nothing alive goes on to OPA.
LEMMA MissKeeps ==
    ASSUME CallsKept, StoreKept, NEW c \in Calls, calls[c].pc = "lookup",
           calls' = [calls EXCEPT ![c] = [calls[c] EXCEPT !.pc = "evaluate"]],
           store' = store
    PROVE  CallsKept' /\ StoreKept'
<1>1. /\ calls[c] \in CallRecord /\ SoundCall(calls[c]) /\ calls[c].pc \in Serving
  BY SoundFields DEF Serving, Pending
<1>2. PICK new : new = [calls[c] EXCEPT !.pc = "evaluate"]
  OBVIOUS
<1>3. GoesOn(calls[c], new) /\ new.pc = "evaluate" /\ new.hit = calls[c].hit
  BY <1>1, <1>2 DEF GoesOn, CallRecord, Serving, Pending
<1>4. /\ Admitted(new) /\ ~new.hit
      /\ new.policy # None => new.policy.digest \notin new.revoked_before
  BY <1>1, <1>3, GoesOnAdmitted DEF SoundCall
<1>5. new \in SoundCalls
  BY <1>3, <1>4 DEF SoundCalls, SoundCall, GoesOn, Serving, Pending, Decided
<1>6. RowOf(new) = RowOf(calls[c])
  BY <1>3 DEF RowOf
<1>7. calls' = [calls EXCEPT ![c] = new]
  BY <1>2
<1> QED  BY <1>5, <1>6, <1>7, CallMovesUnrecorded

\* A hit's outcome is the grant that was cached, for what is left of its life.
LEMMA HitKeeps ==
    ASSUME CallsKept, StoreKept, NEW c \in Calls, calls[c].pc = "lookup",
           NEW value, NEW grant \in Grants, ~grant.request.mutation,
           Granted(grant) = CacheKey(calls[c]),
           value.expires = grant.at + grant.ttl, value.grant = grant,
           calls[c].now < value.expires,
           calls' = [calls EXCEPT ![c] = CacheHit(calls[c], value)],
           store' = store
    PROVE  CallsKept' /\ StoreKept'
<1>1. /\ calls[c] \in CallRecord /\ SoundCall(calls[c]) /\ calls[c].pc \in Serving
      /\ calls[c].now \in Nat
  BY SoundFields, ServingFields DEF Serving, Pending
<1>2. grant.at \in Nat /\ grant.ttl \in Nat
  BY GrantFields
<1>3. PICK ttl \in Nat : ttl = Greatest(0, value.expires - calls[c].now)
  BY <1>1, <1>2 DEF Greatest
<1>4. ttl >= 1 /\ calls[c].now + ttl = grant.at + grant.ttl
  BY <1>1, <1>2, <1>3 DEF Greatest
<1>5. PICK outcome : outcome = [allowed |-> TRUE, reason |-> "ALLOW",
                                ttl |-> ttl, grant |-> grant]
  OBVIOUS
<1>6. /\ outcome \in Outcome
      /\ outcome.allowed /\ outcome.ttl = ttl /\ outcome.grant = grant
  BY <1>5 DEF Outcome
<1>7. PICK new : new = [calls[c] EXCEPT !.pc = "record", !.hit = TRUE, !.outcome = outcome]
  OBVIOUS
<1>8. calls' = [calls EXCEPT ![c] = new]
  BY <1>3, <1>5, <1>7 DEF CacheHit
<1>9. outcome \in Outcome
  BY <1>6
<1>10. GoesOn(calls[c], new) /\ new.pc = "record" /\ new.outcome = outcome
  BY <1>1, <1>7, <1>9 DEF GoesOn, CallRecord, Serving, Pending
<1>11. /\ Admitted(new) /\ CacheKey(new) = CacheKey(calls[c])
       /\ new.policy # None => new.policy.digest \notin new.revoked_before
  BY <1>1, <1>10, GoesOnAdmitted
<1>12. ~new.request.mutation
  BY <1>1, <1>10 DEF SoundCall, GoesOn
<1>13. new.now + Greatest(1, ttl) <= grant.at + Greatest(1, grant.ttl)
  BY <1>1, <1>2, <1>4, <1>10 DEF Greatest, GoesOn
<1>14. Grounded(new)
  BY <1>6, <1>10, <1>11, <1>12, <1>13 DEF Grounded
<1>15. new \in SoundCalls
  BY <1>6, <1>10, <1>11, <1>14 DEF SoundCalls, SoundCall, GoesOn, Serving, Pending, Decided
<1>16. RowOf(new) = RowOf(calls[c])
  BY <1>10 DEF RowOf
<1> QED  BY <1>8, <1>15, <1>16, CallMovesUnrecorded

\* cache.get drops what it finds expired and touches what it finds alive.
LEMMA LookUpKeeps ==
    ASSUME DecisionInv, NEW c \in Calls, LookUp(c)
    PROVE  DecisionInv'
<1>1. CallsKept /\ StoreKept /\ CacheKept /\ calls[c].pc = "lookup" /\ store' = store
  BY DEF DecisionInv, LookUp
<1>2. PICK key : key = CacheKey(calls[c])
  OBVIOUS
<1>3. PICK value : value = Lookup(cache, key, None)
  OBVIOUS
<1>4. /\ cache' = IF value = None THEN cache
                  ELSE IF Alive(value, calls[c].now)
                       THEN PutBounded(cache, key, value, CacheSize)
                       ELSE Others(cache, key)
      /\ calls' = [calls EXCEPT ![c] =
                      IF Alive(value, calls[c].now) THEN CacheHit(calls[c], value)
                      ELSE [calls[c] EXCEPT !.pc = "evaluate"]]
  BY <1>2, <1>3 DEF LookUp
<1>5. PoliciesKept' /\ RevokedKept'
  BY PoliciesStay DEF LookUp, DecisionInv
<1>6. CASE ~Alive(value, calls[c].now)
  <2>1. CallsKept' /\ StoreKept'
    BY <1>1, <1>4, <1>6, MissKeeps
  <2>2. cache' = cache \/ cache' = Others(cache, key)
    BY <1>4, <1>6
  <2>3. CacheKept'
    BY <1>1, <2>2, CacheStays, DropKeepsCache
  <2> QED  BY <1>5, <2>1, <2>3 DEF DecisionInv
<1>7. CASE Alive(value, calls[c].now)
  <2>1. value # None /\ calls[c].now < value.expires
    BY <1>7 DEF Alive
  <2>2. PICK grant \in Grants :
           /\ grant.ttl <= CacheTtl /\ ~grant.request.mutation
           /\ Granted(grant) = key
           /\ value = [expires |-> grant.at + grant.ttl, grant |-> grant]
           /\ [key |-> key, value |-> value] \in CacheEntries
    BY <1>1, <1>3, <2>1, FoundInCache
  <2>3. value.expires = grant.at + grant.ttl /\ value.grant = grant
    BY <2>2
  <2>4. CallsKept' /\ StoreKept'
    BY <1>1, <1>2, <1>4, <1>7, <2>1, <2>2, <2>3, HitKeeps
  <2>5. CacheKept'
    BY <1>1, <1>4, <1>7, <2>1, <2>2, PutKeepsCache
  <2> QED  BY <1>5, <2>4, <2>5 DEF DecisionInv
<1> QED  BY <1>6, <1>7

\* cache.put stores OPA's grant under its own key, or nothing.
LEMMA FillKeeps ==
    ASSUME DecisionInv, NEW c \in Calls, Fill(c)
    PROVE  DecisionInv'
<1>1. /\ CallsKept /\ StoreKept /\ CacheKept
      /\ calls[c] \in CallRecord /\ SoundCall(calls[c])
  BY SoundFields DEF DecisionInv
<1>2. calls[c].pc = "fill" /\ calls[c].pc \in Serving /\ calls[c].pc \in Decided
  BY DEF Fill, Serving, Pending, Decided
<1>3. PICK outcome \in Outcome : outcome = calls[c].outcome
  BY <1>1, <1>2 DEF SoundCall
<1>4. Fresh(calls[c]) /\ Grounded(calls[c])
  BY <1>1, <1>2 DEF SoundCall, Fresh
<1>5. PICK grant \in Grants : /\ grant = outcome.grant
                              /\ Granted(grant) = CacheKey(calls[c])
                              /\ grant.at = calls[c].now /\ grant.ttl = outcome.ttl
  BY <1>3, <1>4 DEF Fresh, Grounded
<1>6. ~grant.request.mutation
  <2>1. grant.request = calls[c].request
    BY <1>5 DEF Granted, CacheKey
  <2> QED  BY <1>4, <2>1 DEF Fresh
<1>7. CacheKept'
  <2>1. CASE outcome.ttl \in 1..CacheTtl
    <3>1. PICK value : value = [expires |-> grant.at + grant.ttl, grant |-> grant]
      OBVIOUS
    <3>2. cache' = PutBounded(cache, CacheKey(calls[c]), value, CacheSize)
      BY <1>3, <1>5, <2>1, <3>1 DEF Fill
    <3>3. grant.ttl <= CacheTtl
      BY <1>5, <2>1, CacheTtlAssumption
    <3>4. [key |-> CacheKey(calls[c]), value |-> value] = CacheEntry(grant)
      BY <1>5, <3>1 DEF CacheEntry
    <3>5. [key |-> CacheKey(calls[c]), value |-> value] \in CacheEntries
      BY <1>6, <3>3, <3>4 DEF CacheEntries
    <3> QED  BY <1>1, <3>2, <3>5, PutKeepsCache
  <2>2. CASE outcome.ttl \notin 1..CacheTtl
    BY <1>1, <1>3, <2>2, CacheStays DEF Fill
  <2> QED  BY <2>1, <2>2
<1>8. PICK new : new = [calls[c] EXCEPT !.pc = "record"]
  OBVIOUS
<1>9. /\ GoesOn(calls[c], new) /\ new.pc = "record"
      /\ new.outcome = outcome /\ new.hit = calls[c].hit
  BY <1>1, <1>3, <1>8 DEF GoesOn, CallRecord, Serving, Pending
<1>10. /\ Admitted(new) /\ CacheKey(new) = CacheKey(calls[c])
       /\ new.policy # None => new.policy.digest \notin new.revoked_before
  BY <1>1, <1>2, <1>9, GoesOnAdmitted
<1>11. Grounded(new)
  BY <1>3, <1>4, <1>9, <1>10 DEF Grounded, GoesOn
<1>12. new \in SoundCalls
  BY <1>3, <1>9, <1>10, <1>11 DEF SoundCalls, SoundCall, GoesOn, Serving, Pending, Decided
<1>13. RowOf(new) = RowOf(calls[c])
  BY <1>2, <1>9 DEF RowOf
<1>14. calls' = [calls EXCEPT ![c] = new]
  BY <1>8 DEF Fill
<1>15. CallsKept' /\ StoreKept'
  BY <1>1, <1>12, <1>13, <1>14, CallMovesUnrecorded DEF Fill
<1>16. PoliciesKept' /\ RevokedKept'
  BY PoliciesStay DEF Fill, DecisionInv
<1> QED  BY <1>7, <1>15, <1>16 DEF DecisionInv

\* The answer to a call that has an outcome, field by field.
LEMMA ResponseFields ==
    ASSUME CallsKept, NEW c \in Calls, calls[c].pc \in Serving,
           calls[c].outcome \in Outcome
    PROVE  /\ Response(calls[c]) \in Answer
           /\ Response(calls[c]).allowed = calls[c].outcome.allowed
           /\ Response(calls[c]).evaluated = calls[c].now
           /\ Response(calls[c]).expires \in Nat
           /\ Response(calls[c]).expires <= calls[c].policy.expires
           /\ Response(calls[c]).expires <= calls[c].now + Greatest(1, calls[c].outcome.ttl)
           /\ calls[c].now < Response(calls[c]).expires
<1>1. calls[c].outcome.ttl \in Nat
  BY OutcomeFields
<1>2. PICK expires \in Nat :
         /\ expires = Least(calls[c].policy.expires,
                            calls[c].now + Greatest(1, calls[c].outcome.ttl))
         /\ expires <= calls[c].policy.expires
         /\ expires <= calls[c].now + Greatest(1, calls[c].outcome.ttl)
         /\ calls[c].now < expires
  BY <1>1, ServingFields DEF Least, Greatest
<1>3. PICK answer : answer = Response(calls[c])
  OBVIOUS
<1>4. /\ answer.expires = expires /\ answer.evaluated = calls[c].now
      /\ answer.allowed = calls[c].outcome.allowed
  BY <1>2, <1>3 DEF Response
<1>5. answer \in Answer
  BY <1>2, <1>3, ServingFields, OutcomeFields DEF Response, Answer
<1> QED  BY <1>2, <1>3, <1>4, <1>5

\* Calls that agree on what an answer is made of get the same answer.
LEMMA SameResponse ==
    ASSUME NEW call, NEW new, GoesOn(call, new), new.outcome = call.outcome
    PROVE  Response(new) = Response(call)
  BY DEF GoesOn, Response

\* The three rows appear together with the answer.
LEMMA RecordKeeps ==
    ASSUME DecisionInv, NEW c \in Calls, Record(c)
    PROVE  DecisionInv'
<1>1. CallsKept /\ StoreKept /\ calls[c] \in CallRecord /\ SoundCall(calls[c])
  BY SoundFields DEF DecisionInv
<1>2. calls[c].pc = "record" /\ calls[c].pc \in Serving /\ calls[c].pc \in Decided
  BY DEF Record, Serving, Pending, Decided
<1>3. /\ calls[c].outcome \in Outcome
      /\ calls[c].outcome.allowed => Grounded(calls[c])
  BY <1>1, <1>2 DEF SoundCall
<1>4. PICK answer \in Answer : answer = Response(calls[c])
  BY <1>1, <1>2, <1>3, ResponseFields
<1>5. PICK new : new = [calls[c] EXCEPT !.pc = "answered", !.response = answer]
  OBVIOUS
<1>6. /\ GoesOn(calls[c], new) /\ new.pc = "answered" /\ new.response = answer
      /\ new.outcome = calls[c].outcome /\ new.hit = calls[c].hit
  BY <1>1, <1>5 DEF GoesOn, CallRecord, Serving, Pending
<1>7. /\ Admitted(new) /\ CacheKey(new) = CacheKey(calls[c])
      /\ new.policy # None => new.policy.digest \notin new.revoked_before
  BY <1>1, <1>2, <1>6, GoesOnAdmitted
<1>8. new.outcome.allowed => Grounded(new)
  BY <1>3, <1>6, <1>7 DEF Grounded, GoesOn
<1>9. new.response = Response(new)
  BY <1>4, <1>6, SameResponse
<1>10. new \in SoundCalls
  BY <1>3, <1>6, <1>7, <1>8, <1>9
     DEF SoundCalls, SoundCall, GoesOn, Serving, Pending, Decided
<1>11. calls' = [calls EXCEPT ![c] = new]
  BY <1>4, <1>5 DEF Record
<1>12. RowOf(new) = [decision |-> Response(calls[c]), hit |-> calls[c].hit]
  BY <1>4, <1>6 DEF RowOf
<1>13. store' = [store EXCEPT ![c] = RowOf(new)]
  BY <1>12 DEF Record
<1>14. CallsKept' /\ StoreKept'
  BY <1>1, <1>10, <1>11, <1>13, CallMoves
<1>15. CacheKept' /\ PoliciesKept' /\ RevokedKept'
  BY CacheStays, PoliciesStay DEF Record, DecisionInv
<1> QED  BY <1>14, <1>15 DEF DecisionInv

\* A transaction that fails leaves no rows and gives no decision.
LEMMA RecordFailsKeeps ==
    ASSUME DecisionInv, NEW c \in Calls, RecordFails(c)
    PROVE  DecisionInv'
<1>1. CallsKept /\ StoreKept /\ calls[c] \in CallRecord /\ SoundCall(calls[c])
  BY SoundFields DEF DecisionInv
<1>2. calls[c].policy # None => calls[c].policy.digest \notin calls[c].revoked_before
  BY <1>1 DEF SoundCall
<1>3. RowOf(calls[c]) = None /\ "AUDIT_COMMIT_FAILED" \in Refusals
  BY DEF RecordFails, RowOf, Refusals
<1>4. CallsKept' /\ StoreKept'
  BY <1>1, <1>2, <1>3, RefusedKeeps DEF RecordFails
<1>5. CacheKept' /\ PoliciesKept' /\ RevokedKept'
  BY CacheStays, PoliciesStay DEF RecordFails, DecisionInv
<1> QED  BY <1>4, <1>5 DEF DecisionInv

\* A client that acts on an answer does so while the policy is in force: the
\* answer does not outlive it.
LEMMA AuthorizeKeeps ==
    ASSUME DecisionInv, NEW c \in Calls, NEW o \in Orgs,
           NEW pin \in Digests \cup {None}, NEW now \in Times, Authorize(c, o, pin, now)
    PROVE  DecisionInv'
<1>1. CallsKept /\ StoreKept /\ calls[c] \in CallRecord /\ SoundCall(calls[c])
  BY SoundFields DEF DecisionInv
<1>2. calls[c].pc = "answered" /\ calls[c].pc \in Serving /\ calls[c].pc \in Decided
  BY DEF Authorize, Serving, Pending, Decided
<1>3. /\ calls[c].outcome \in Outcome
      /\ calls[c].outcome.allowed => Grounded(calls[c])
      /\ calls[c].response = Response(calls[c])
  BY <1>1, <1>2 DEF SoundCall
<1>4. ActiveAt(calls[c].policy, now)
  <2>1. /\ Response(calls[c]).evaluated <= now
        /\ now < Response(calls[c]).expires
    BY <1>3 DEF Authorize, ClientAccepts
  <2>2. now \in Nat
    BY TimesAssumption
  <2> QED  BY <1>1, <1>2, <1>3, <2>1, <2>2, ResponseFields, ServingFields DEF ActiveAt
<1>5. PICK new : new = [calls[c] EXCEPT !.pc = "accepted", !.accepted_at = now]
  OBVIOUS
<1>6. /\ GoesOn(calls[c], new) /\ new.pc = "accepted" /\ new.accepted_at = now
      /\ new.response = calls[c].response
      /\ new.outcome = calls[c].outcome /\ new.hit = calls[c].hit
  BY <1>1, <1>5 DEF GoesOn, CallRecord, Serving, Pending
<1>7. /\ Admitted(new) /\ CacheKey(new) = CacheKey(calls[c])
      /\ new.policy # None => new.policy.digest \notin new.revoked_before
  BY <1>1, <1>2, <1>6, GoesOnAdmitted
<1>8. new.outcome.allowed => Grounded(new)
  BY <1>3, <1>6, <1>7 DEF Grounded, GoesOn
<1>9. new.response = Response(new)
  BY <1>3, <1>6, SameResponse
<1>10. ActiveAt(new.policy, new.accepted_at)
  BY <1>4, <1>6 DEF GoesOn
<1>11. new \in SoundCalls
  BY <1>3, <1>6, <1>7, <1>8, <1>9, <1>10
     DEF SoundCalls, SoundCall, GoesOn, Serving, Pending, Decided
<1>12. calls' = [calls EXCEPT ![c] = new]
  BY <1>5 DEF Authorize
<1>13. RowOf(new) = RowOf(calls[c])
  BY <1>2, <1>6 DEF RowOf
<1>14. CallsKept' /\ StoreKept'
  BY <1>1, <1>11, <1>12, <1>13, CallMovesUnrecorded DEF Authorize
<1>15. CacheKept' /\ PoliciesKept' /\ RevokedKept'
  BY CacheStays, PoliciesStay DEF Authorize, DecisionInv
<1> QED  BY <1>14, <1>15 DEF DecisionInv

-----------------------------------------------------------------------------
\* No step breaks the invariant.
LEMMA DecisionStep == DecisionInv /\ [Next]_vars => DecisionInv'
<1> SUFFICES ASSUME DecisionInv, [Next]_vars
             PROVE  DecisionInv'
  OBVIOUS
<1>1. CASE UNCHANGED vars
  BY <1>1, CallsStay, CacheStays, PoliciesStay DEF vars, DecisionInv
<1>2. ASSUME NEW p \in Artifacts, NEW now \in Times, Activate(p, now)
      PROVE  DecisionInv'
  BY <1>2, ActivateKeeps
<1>3. ASSUME NEW o \in Orgs, NEW digest \in Digests, Revoke(o, digest)
      PROVE  DecisionInv'
  BY <1>3, RevokeKeeps
<1>4. ASSUME NEW o \in Orgs, NEW now \in Times, Rollback(o, now) \/ Ready(o, now)
      PROVE  DecisionInv'
  BY <1>4, RollbackKeeps, ReadyKeeps
<1>5. ASSUME NEW c \in Calls, NEW token \in Tokens, NEW request \in Requests,
             NEW now \in Times, Begin(c, token, request, now)
      PROVE  DecisionInv'
  BY <1>5, BeginKeeps
<1>6. ASSUME NEW c \in Calls, Step(c)
      PROVE  DecisionInv'
  <2>1. ASSUME NEW ttl \in 0..MaxTtl, EvaluateAllow(c, ttl)
        PROVE  DecisionInv'
    BY <2>1, EvaluateAllowKeeps
  <2>2. ASSUME NEW reason \in OpaRefusals, EvaluateDeny(c, reason)
        PROVE  DecisionInv'
    BY <2>2, EvaluateDenyKeeps
  <2> QED  BY <1>6, <2>1, <2>2, LookUpKeeps, FillKeeps, CacheFailsKeeps, RecordKeeps,
              RecordFailsKeeps DEF Step, Evaluate
<1>7. ASSUME NEW c \in Calls, NEW o \in Orgs, NEW pin \in Digests \cup {None},
             NEW now \in Times, Authorize(c, o, pin, now)
      PROVE  DecisionInv'
  BY <1>7, AuthorizeKeeps
<1> QED  BY <1>1, <1>2, <1>3, <1>4, <1>5, <1>6, <1>7 DEF Next

\* The invariant holds throughout.
LEMMA DecisionAlways == Spec => []DecisionInv
  BY DecisionInit, DecisionStep, PTL DEF Spec

\* A row is there exactly if its call has answered, and is its answer.
LEMMA RowFields ==
    ASSUME DecisionInv, NEW c \in Calls
    PROVE  /\ store[c] \in Row \cup {None}
           /\ store[c] # None <=> calls[c].pc \in {"answered", "accepted"}
           /\ calls[c].pc \in {"answered", "accepted"} =>
                 /\ store[c].decision = calls[c].response
                 /\ store[c].hit = calls[c].hit
                 /\ calls[c].response = Response(calls[c])
<1>1. /\ CallsKept /\ calls[c] \in CallRecord /\ SoundCall(calls[c])
      /\ store[c] = RowOf(calls[c])
  BY SoundFields DEF DecisionInv, StoreKept
<1>2. CASE calls[c].pc \notin {"answered", "accepted"}
  BY <1>1, <1>2 DEF RowOf
<1>3. CASE calls[c].pc \in {"answered", "accepted"}
  <2>1. /\ calls[c].pc \in Serving /\ calls[c].outcome \in Outcome
        /\ calls[c].response = Response(calls[c])
    BY <1>1, <1>3 DEF Serving, Decided, SoundCall
  <2>2. Response(calls[c]) \in Answer /\ calls[c].hit \in BOOLEAN
    BY <1>1, <2>1, ResponseFields DEF CallRecord
  <2>3. PICK row : row = [decision |-> calls[c].response, hit |-> calls[c].hit]
    OBVIOUS
  <2>4. row \in Row
    BY <2>1, <2>2, <2>3 DEF Row
  <2>5. row.decision = calls[c].response /\ row.hit = calls[c].hit
    BY <2>3
  <2>6. store[c] = row
    BY <1>1, <1>3, <2>3 DEF RowOf
  <2> QED  BY <1>3, <2>1, <2>4, <2>5, <2>6, NoneAssumption
<1> QED  BY <1>2, <1>3

-----------------------------------------------------------------------------
\* Pointers hold artifacts of their own organization, a call that runs has a
\* policy of its tenant and, once decided, an outcome, and a row is a whole answer.
THEOREM TypeCorrectness == Spec => []TypeOK
<1>1. DecisionInv => TypeOK
  <2> SUFFICES ASSUME DecisionInv
               PROVE  TypeOK
    OBVIOUS
  <2>1. ASSUME NEW o \in Orgs
        PROVE  /\ {policies[o].active, policies[o].last_known_good}
                     \subseteq {p \in Artifacts : p.org = o} \cup {None}
               /\ policies[o].revoked \subseteq Digests
    <3> DEFINE own == {p \in Artifacts : p.org = o} \cup {None}
    <3>1. policies[o].active \in own
      BY PointerFields
    <3>2. policies[o].last_known_good \in own
      BY PointerFields
    <3>3. policies[o].revoked \subseteq Digests
      BY PointerFields
    <3> QED  BY <3>1, <3>2, <3>3
  <2>2. ASSUME NEW c \in Calls
        PROVE  /\ calls[c].pc \in Pending \cup {"idle", "refused", "answered", "accepted"}
               /\ calls[c].pc \in Pending \cup {"answered", "accepted"} =>
                     /\ calls[c].policy \in Artifacts
                     /\ calls[c].policy.org = calls[c].token.org
               /\ calls[c].pc \in {"fill", "record", "answered", "accepted"} =>
                     calls[c].outcome \in Outcome
    <3>1. calls[c] \in CallRecord /\ SoundCall(calls[c])
      BY SoundFields DEF DecisionInv
    <3>2. calls[c].pc \in Serving \cup {"idle", "refused"}
      BY <3>1 DEF CallRecord
    <3> QED  BY <3>1, <3>2 DEF SoundCall, Admitted, Serving, Decided
  <2>3. store \in [Calls -> Row \cup {None}]
    <3>1. store = [c \in Calls |-> RowOf(calls[c])]
      BY DEF DecisionInv, StoreKept
    <3> QED  BY <3>1, RowFields
  <2> QED  BY <2>1, <2>2, <2>3 DEF TypeOK
<1> QED  BY <1>1, DecisionAlways, PTL

\* A call that begins after a digest was revoked for its organization never
\* decides under it, through whatever activations and rollbacks followed.
THEOREM RevocationHolds == Spec => []NoDecisionUnderRevoked
<1>1. DecisionInv => NoDecisionUnderRevoked
  BY SoundFields DEF DecisionInv, SoundCall, NoDecisionUnderRevoked
<1> QED  BY <1>1, DecisionAlways, PTL

\* Every cached entry is what OPA granted to that tenant, subject, request and
\* policy, for a read and for no longer, and the cache keeps its bound.
THEOREM CacheStaysSound == Spec => []CacheSound
<1>1. DecisionInv => CacheSound
  <2> SUFFICES ASSUME DecisionInv
               PROVE  CacheSound
    OBVIOUS
  <2>1. cache \in Seq(CacheEntries) /\ Unique(cache) /\ Len(cache) <= CacheSize
    BY DEF DecisionInv, CacheKept
  <2>2. ASSUME NEW i \in 1..Len(cache)
        PROVE  /\ cache[i].key = Granted(cache[i].value.grant)
               /\ cache[i].value.expires = cache[i].value.grant.at + cache[i].value.grant.ttl
               /\ cache[i].value.grant.ttl <= CacheTtl
               /\ ~cache[i].value.grant.request.mutation
    <3>1. cache[i] \in CacheEntries
      BY <2>1, ElementOfSeq
    <3>2. PICK grant \in Grants : /\ grant.ttl <= CacheTtl /\ ~grant.request.mutation
                                  /\ cache[i] = CacheEntry(grant)
      BY <3>1 DEF CacheEntries
    <3>3. /\ cache[i].key = Granted(grant)
          /\ cache[i].value.expires = grant.at + grant.ttl
          /\ cache[i].value.grant = grant
      BY <3>2 DEF CacheEntry
    <3> QED  BY <3>2, <3>3
  <2> QED  BY <2>1, <2>2 DEF CacheSound, Unique
<1> QED  BY <1>1, DecisionAlways, PTL

\* Every ALLOW on record goes back to an ALLOW of OPA for the same tenant,
\* subject, request and policy, and expires with it at the latest.
THEOREM AllowsAreGrounded == Spec => []AllowGrounded
<1>1. DecisionInv => AllowGrounded
  <2> SUFFICES ASSUME DecisionInv, NEW c \in Calls,
                      store[c] # None, store[c].decision.allowed
               PROVE  LET grant == calls[c].outcome.grant IN
                      /\ Granted(grant) = <<calls[c].token.org, calls[c].token.subject,
                                            calls[c].request, calls[c].policy.digest>>
                      /\ store[c].decision.expires <= grant.at + Greatest(1, grant.ttl)
                      /\ store[c].decision.evaluated < store[c].decision.expires
                      /\ calls[c].request.mutation =>
                            grant.at = calls[c].now /\ ~store[c].hit
    BY DEF AllowGrounded
  <2>1. /\ calls[c].pc \in {"answered", "accepted"}
        /\ store[c].decision = Response(calls[c]) /\ store[c].hit = calls[c].hit
    BY RowFields
  <2>2. CallsKept /\ SoundCall(calls[c])
    BY SoundFields DEF DecisionInv
  <2>3. /\ calls[c].pc \in Serving /\ calls[c].outcome \in Outcome
        /\ calls[c].outcome.allowed => Grounded(calls[c])
    BY <2>1, <2>2 DEF SoundCall, Serving, Decided
  <2>4. PICK expires \in Nat :
           /\ expires = store[c].decision.expires
           /\ expires <= calls[c].now + Greatest(1, calls[c].outcome.ttl)
           /\ calls[c].now < expires
    BY <2>1, <2>2, <2>3, ResponseFields
  <2>5. Grounded(calls[c]) /\ store[c].decision.evaluated = calls[c].now
    BY <2>1, <2>2, <2>3, ResponseFields
  <2>6. PICK grant \in Grants : grant = calls[c].outcome.grant
    BY <2>5 DEF Grounded
  <2>7. expires <= grant.at + Greatest(1, grant.ttl)
    <3>1. calls[c].now \in Nat /\ calls[c].outcome.ttl \in Nat
      BY <2>2, <2>3, ServingFields, OutcomeFields
    <3>2. calls[c].now + Greatest(1, calls[c].outcome.ttl) <= grant.at + Greatest(1, grant.ttl)
      BY <2>5, <2>6 DEF Grounded
    <3> QED  BY <2>4, <3>1, <3>2, GrantFields DEF Greatest
  <2> QED  BY <2>1, <2>4, <2>5, <2>6, <2>7 DEF Grounded, CacheKey
<1> QED  BY <1>1, DecisionAlways, PTL

\* A client acts only on a recorded ALLOW, at an instant at which the policy
\* behind it is in force.
THEOREM ClientKeepsToPolicy == Spec => []ClientWithinPolicy
<1>1. DecisionInv => ClientWithinPolicy
  <2> SUFFICES ASSUME DecisionInv, NEW c \in Calls, calls[c].pc = "accepted"
               PROVE  /\ store[c] # None
                      /\ store[c].decision = calls[c].response
                      /\ ActiveAt(calls[c].policy, calls[c].accepted_at)
    BY DEF ClientWithinPolicy
  <2>1. SoundCall(calls[c])
    BY SoundFields DEF DecisionInv
  <2> QED  BY <2>1, RowFields DEF SoundCall
<1> QED  BY <1>1, DecisionAlways, PTL
=============================================================================
