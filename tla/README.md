# Verification of the trust plane

TLA+ models of the run-time services under `src/src/planeon_trust/`, TLC runs
that check them on small instances, and TLAPS proofs of their safety for every
value of the constants. Paths below are relative to `src/src/planeon_trust/` unless they
start with `src/`. `PROJECT.json` maps every definition to the lines it models
and lists the runs, the hazards, the findings and the theorems.

## 1. The system

Three services, each a Python process behind an ASGI adapter. The service
objects are written for several threads (each component has its lock); the
adapters call them from the coroutines of one event loop. All state is in
memory; every write of a store is all or nothing. They share the identity
verifier (bearer token -> organization and subject).

| Component | State | Operations |
|---|---|---|
| Usage ledger, `usage/ledger.py` | `LedgerState`: budgets, reservations, transitions, usage entries, counters per (org, budget, window), idempotency table, audit and outbox rows, findings, last clock, reconciliation marks | `add_budget`, `reserve`, `commit`, `release`, `evaluate`, `list_usage`, `list_budgets`, `reconcile`, `retention_due`, `reconciliation_current` |
| Usage service, `usage/service.py`, and its start, `src/services/usage-ledger/app.py` | dependency health given at start | configures and reconciles the budgets; authenticates, checks fields, calls the ledger; SLO and dependency reports; readiness |
| Telemetry, `usage/telemetry.py` | bounded record buffer, byte count, saturation flag; per-tenant sets of attribute values (`CardinalityGuard`) | `append`, `admit` |
| Policy manager, `common/policy.py` | per tenant: active policy, last known good, revoked digests | `activate`, `active`, `revoke`, `rollback`; calls a trust-change hook |
| Decision cache, `common/cache.py` | LRU of cached ALLOWs | `get`, `put`, `clear` (the trust-change hook) |
| Identity, `common/identity.py` | LRU of token identity -> (org, subject) | `verify`, `bind` |
| Decision service, OPA client, store, client, `common/decision.py`, `opa.py`, `storage.py`, `client.py` | decision, audit and outbox rows | `decide`, `ready`; `evaluate`; `record`; `authorize` |
| Guardrail profiles, `guardrails/profiles.py` | per (tenant, profile): active, last known good, revoked | as the policy manager; the hook is the registry's `expire_profile` |
| Stream registry, `guardrails/streaming.py` | sessions with state, next sequence number, last use, buffered content | `create`, `push`, `finish`, `profile_for`, `expire_profile`, sweep |
| Guardrail service and store, `guardrails/service.py`, `storage.py` | decision, audit, evidence and outbox rows | `evaluate`, `create_stream`, `push_stream`, `finish_stream` |
| HTTP adapters, `common/asgi.py`, `guardrails/asgi.py`, `usage/asgi.py` | one coroutine per request | routes, checks before the body, body parts, service call, status, answer |

What is hard in it:

- *Concurrency.* The ledger and the buffer hold one lock for a whole operation.
  `decide` and the guardrail handlers take several locks one after the other,
  so policies and profiles change between their steps. The cardinality guard
  has no lock at all. Requests overtake each other while their bodies arrive.
- *Time.* The caller's instant is read before any lock is taken, so operations
  may arrive with instants out of order. Windows, reservation lifetimes, cache
  entries, policies and idle streams all end at instants.
- *Failure.* The store's commit can fail at the end of any operation; callers
  retry; OPA can be late, absent or malformed; clearing a stream can raise in
  the middle of a sweep.
- *Limits.* Counters at `SAFE_INTEGER_MAX`, a full cache or tracker, a buffer
  full of audit records, the last open-stream slot of a tenant.

What makes each part correct: the ledger never overspends a HARD budget, its
counters agree with its rows, a key charges once, tenants do not touch each
other; the buffer never loses an audit record silently; an ALLOW goes back to
an evaluation by OPA for the same tenant, subject, request and policy and does
not outlive it; nothing is decided under a policy revoked before; a stream is
evaluated in sequence, once, and only under the profile active at that moment;
a READY is true, and what a caller is told over HTTP is what happened.

## 2. Modules

`UsageLedger` - one action per operation. Every operation works on a copy of
the state and replaces the state in `_commit`; an exception and a replay drop
the copy, so an operation is one step. `Opening` is `_advance_clock` with
`_expire_due`; `...Outcome` operators give the first check that decides, in the
order of the code; `...Refused` actions leave the ledger alone (with a failed
commit among them), the others replace it. Reservation and transition ids are
digests of whole requests, so a request stands for its id. Sums are
cardinalities of sets of units, which keeps them provable. `reply` is the
answer to the caller. Audit rows of denials are a set (their repetition does
not matter to any property); the audit and outbox rows, which the code always
writes together, are one sequence per reservation. `updated_at` of a counter is
left out: nothing reads it but reports.

`Quota` - what the ledger promises, without counters, clocks, idempotency keys
or logs: grants that are given once under a cap per window, then spent for at
most what was given, or returned. A step belongs to one organization. `UsageQuota`
is the refinement mapping; it reads the ledger's rows, never its counters, so
that ImplementsQuota says something about the counters the code decides with.
Its proof is the third part of `UsageLedgerProofs`.

`UsageService` - the usage-ledger process, composed of `UsageLedger` (extended)
and `TelemetryBuffer` (instantiated). `create_app` adds and reconciles the
configured budgets one by one, at one instant, and may fail (a budget whose
epoch lies ahead, a failed commit). Then routes run at the current instant,
other threads append telemetry, and `ready`, `dependencies` and `slos` report.
A `slos` refused by the ledger is `ListBudgets`' refusal, among the handlers.
The ledger's read and the buffer's read of a report are one step: no route runs
between them on the event loop, and `audit_saturated` only ever rises.

`TelemetryBuffer` - `append` with one step per turn of its eviction loop.
`pending` is the record whose append holds the lock. `offered` is history.
Expiry and eviction keep some positions of the sequence: `Picked(s, S)` has the
elements of s at the positions S, in their order, and is defined by counting
(`Place`, `PositionAt`) so that facts about it can be proved. A LOW
record may evict a NORMAL one: `_drop_candidate` does not look at the record
that arrives; the model shows it and no property forbids it.

`Telemetry` - the pipeline in front of it: threads pass an operation through
`ContentFreeTelemetry.admit` and its `CardinalityGuard`, attribute by attribute,
with the guard's test and its add in separate steps, and append the record.
What the guard drops makes the record smaller. Attribute sanitizing is external
(`planeon_harness`).

`Lru` - the bounded OrderedDict of `common/cache.py` and `common/identity.py`,
as the sequence of its items, oldest first, one item a key.

`Identity` - `IdentityVerifier.verify`, check by check in the order of the
code, and `TokenIdentityTracker.bind`. A token is a record of its claims; that
it decodes and that its signature verifies are fields. `owner` and `since` are
history.

`HttpAdapter` - the three `__call__` coroutines, await by await, over `Identity`:
early refusals, body parts and their limit, disconnects, the service call at the
instant read just before it, the two sends. What an admitted operation does is
the other modules' matter; here it may end in any of `OperationOutcomes`, or
raise what the adapter does not catch, which sends nothing. Header
parsing is its verdict (token or none, JSON or not). A part of the body that
arrives before the coroutine waits for it makes no difference until it does, so
clients act only then. The events of an ASGI server are external.

`PolicyDecision` - policy manager, cache, tracker, `decide`, store and client in
one module, because the interesting behaviour is between them. `decide` is the
sequence verify+active, cache lookup, OPA, cache fill, record. Verification and
the read of the active policy are one step: verification touches only the
tracker, which the policy manager never reads, so a change of policy between
them is the same as one before both. A trust change (pointers replaced, cache
cleared under the manager's lock) is one step: whoever reads the pointers needs
that lock; a cache access that falls between the two writes is equivalent to
one before the change. Signature and bundle verification appear as the set of
artifacts that can be accepted. A request is `canonical` when it can be digested;
one that cannot be is caught as a cache failure, after which the call raises
(`request_digest` is unbound at `common/decision.py:146`) and records nothing.
`grant` and `revocations` are history. This
module lets calls interleave as threads may: the adapter of this repository
calls `decide` without an await, which gives a subset of these behaviours.

`GuardrailStreams` - profile manager, stream registry, handlers and store. A
push is profile_for, active, push, record, with everything else in between. The
admitted identity is an input (the verifier is `Identity`). The
SDK is external: an evaluation gives any outcome or raises. Where
`ClearMayFail`, clearing a stream may raise; then the streams before it have
been expired and the rest has not, and a profile change has already replaced
its pointers. What it raises in `_active` is caught by push and finish and
escapes from evaluate and create. Content is its length; every chunk has length 1.

`MCUsageLedger`, `MCUsageTenants`, `MCUsageService`, `MCTelemetry`,
`MCPolicyDecision`, `MCGuardrailStreams`, `MCHttpAdapter` - constants for TLC.
The modules whose names end in `Proofs` - section 5.

Operators named `X_Something` directly before `X` and marked "Faulty variant"
are plausible bugs in the code behind `X`. No specification uses them. Put in
the place of `X`, each makes TLC report a property listed for it under
"mutants": this shows that the property would catch the bug.

## 3. Runs

| Run | Instance | Checks |
|---|---|---|
| usage_ledger | 1 tenant, HARD budget of 3 units, 2 windows over 5 instants, 3 keys, 4 reserve and 6 transition requests | TypeOK, Conservation, HardLimit, RowsAgree, ChargedInItsWindow, KeyChargesOnce, HistoryOnlyGrows, ImplementsQuota |
| usage_tenants | 2 tenants, 2 dimensions, SafeMax 3, advisory, suspended and redefined budgets, 6 requests, another tenant's reservation, a finding of each kind | Representable, NoInternalError, TenantIsolation |
| usage_service | 1 tenant, 2 budgets (one starts at instant 1), windows of 2 instants, lifetimes past the window's end, 4 instants, a buffer of 1 record, 2 kinds of dependency health | RetentionHistoryClosed, ReadyIsTrue, UnreadyOnlyWhenIdle |
| telemetry | 2 threads, 2 tenants, 3 values of one key with room for 1, a buffer of 2 records and 5 bytes, 7 operations of every priority | WithinLimits, NoSilentAuditLoss, SaturationIsReal, CardinalityBounded, DropsAreOwn, AuditKept, AppendEnds |
| policy_decision | 1 tenant, 3 artifacts (one renews the first digest), 2 calls, a read, a mutation and a request that cannot be digested, 3 instants, cache of 1 | TypeOK, NoDecisionUnderRevoked, CacheSound, AllowGrounded, ClientWithinPolicy |
| policy_tenants | 2 tenants with one policy content, 4 tokens: two subjects of one tenant, one identity claimed by both | AllowGrounded, DecideEnds |
| guardrail_streams | 1 tenant, a streaming profile, its successor and a unary one, 3 calls, 1 stream, 3 instants | TypeOK, SequenceExact, NothingAfterTheEnd, EvaluatedUnderActive, IdleNotEvaluated |
| guardrail_tenants | 2 tenants with one streaming profile content, one artifact expiring first, 3 calls, 3 streams, 2 instants, clearing may fail (also between two open streams of one sweep) | OpenCapacity, CapacityRefusalIsReal, HandlersEnd |
| http | 2 connections to one of the three applications, a tracker of 2 identities and 3 identities (one claimed by two subjects), bodies of up to 2 parts and 3 bytes against a limit of 2, service calls that may raise, 2 instants | AnsweredAsServed, IdentityChangesHands, InstantsInOrder, RequestEnds |

The bounds are the smallest at which the cases happen. Two reservations that
together exceed a budget of 3, a key used twice with different contents, a
window boundary between two instants, a lifetime cut by the window's end, an
instant behind the last one and a commit at the instant of expiry are all in
`usage_ledger`. A cache of one entry evicts on the second key. Two calls and
one trust change are enough for every two-party race in `decide`; three calls
are enough for create, push and a racing push or finish. Two threads are enough
to pass the cardinality limit of 1; three identities make a tracker of two
forget. `usage_service` crosses one rollover of each budget's window, with a
probe before and after. `MaxReconciliations`, `MaxRetentions`, `MaxStreams` and
the finite sets of requests, calls and instants are the only bounds that are not
the code's own. Calls are symmetric where a run says so; runs with liveness use
no symmetry. Three runs have a VIEW that leaves out what was last answered
(`reply`, the buffer's `answer`), and `usage_tenants` also what was found, of
which actions read only how many findings there are. Action properties look at
`reply` in its primed form, and TLC evaluates them on every step it generates;
NoInternalError, an invariant about `reply`, is part of its run's view. No run turns the deadlock check off.

What the newer properties show, and what they do not:

- UnreadyOnlyWhenIdle is the exact extent of a limitation. After a window's end
  the healthy process stays unready until the readiness organization reserves in
  every new window; `reconciliation_current` wants a mark of the current window
  and no route reconciles. A deployment that routes by the readiness probe
  (`src/deploy/helm/usage-ledger/templates/deployment.yaml:50`) sends no such
  request to an unready pod.
- CardinalityBounded: the unlocked guard may pass `maximum_values_per_key`, by
  at most the number of threads less one.
- InstantsInOrder assumes that nobody sets the wall clock back.
- RequestEnds says nothing of a client that stays connected and sends no more:
  the adapters have no time limit of their own.

Fairness: weak fairness of the steps of an append, of a call, or of a coroutine
that has begun. A thread inside the buffer's loop waits for nobody; the event
loop resumes every coroutine whose await is over; the steps of
`decide` and of the handlers hold no lock between them, OPA's transport has a
timeout, and the commit either returns or raises. Nothing is assumed of
clients, operators or clocks.

## 4. Disagreements met

Three runs state what a test of the repository says and find it violated.

- `usage_expiry_report` (`usage/ledger.py:438`): a commit refused with
  RESERVATION_EXPIRED, or a reserve replayed as EXPIRED, discards the expiry it
  reports. Capacity stays reserved and nothing is audited until a later
  operation of that tenant is persisted. The test name says that expiry
  "releases reserved capacity and is audited". HardLimit is not affected: the
  error is on the safe side.
- `policy_cache` (`common/decision.py:131`): an answer obtained before a trust
  change is put into the cache after the change cleared it. The entry is keyed
  by the old digest, so a later call uses it only if that digest is active
  again within the entry's lifetime; AllowGrounded and NoDecisionUnderRevoked
  hold nevertheless.
- `guardrail_race` (`guardrails/service.py:89`): a stream created from a
  profile read before a profile change is open under the superseded profile. It
  is never evaluated (EvaluatedUnderActive holds) but holds a slot.

Also met, without a run: two reconciliations of an unchanged window produce
findings with one `finding_id` (`usage/ledger.py:327`), which the primary key
in `src/migrations/usage/001_usage.sql:107` would reject; no code writes that
table. Some exceptions no adapter catches, so the request gets no answer from the
coroutine: `decide` on a request that cannot be digested
(`common/decision.py:146`), a failed clear under `_active` in evaluate and create
(`guardrails/service.py:73,87`), and an SDK error in a push or finish
(`guardrails/service.py:111,146`). Idle streams are swept only by other calls, never by a timer: their
content stays in memory until then, but never costs a slot
(CapacityRefusalIsReal). After AUDIT_COMMIT_FAILED a stream has advanced
(`guardrails/service.py:121`), so the chunk cannot be sent again. A budget whose
epoch lies ahead makes `GET /health/ready` raise instead of answering
(`usage/asgi.py:37`, outside the `try`); `create_app` refuses to start with such a
budget, so this needs one added later or a clock set back.

## 5. Proofs

Every safety property and every action property of a passing run, the refinement
included, is also a theorem: it holds for all sets of tenants, requests, records,
threads, calls, connections and instants, and for all limits, under the
assumptions of the modules. One proof module stands beside each component.

| Module | About | Theorems | Inductive invariant |
|---|---|---|---|
| UsageLedgerProofs, part I | the counters | TypeCorrectness, CountersConserved, HardBudgetsHold, CountersRepresentable | `Inv` |
| part II | the rows | OneStory, OneChargePerKey, ChargedInTime, RetentionIsFinal, NeverInternalError, HistoryGrows, TenantsIsolated | `HistoryInv` |
| part III | the refinement | LedgerImplementsQuota | `HistoryInv` |
| UsageServiceProofs | `ServiceSpec` | ServiceInvariant, RetentionStaysFinal, ReadyAnswersAreTrue, UnreadyAnswersAreIdle | `ServiceInv` |
| TelemetryBufferProofs | the buffer alone | BufferInvariant, AuditRecordsStay | `BufferInv` |
| TelemetryProofs | `Pipeline` | PipelineInvariant, LimitsHold, AuditLossReported, AlarmsAreReal, GuardBounded, DropsAreTheirOwn, AuditSurvives | `PipelineInv` |
| LruProofs | lemmas on the bounded OrderedDict | | |
| PolicyDecisionProofs | `decide` and the client | TypeCorrectness, RevocationHolds, CacheStaysSound, AllowsAreGrounded, ClientKeepsToPolicy | `DecisionInv` |
| GuardrailStreamsProofs | streams | TypeCorrectness, CapacityHolds, EachChunkOnce, EndIsFinal, IdleStreamsEnd, RefusalsAreReal, ActiveProfileEvaluates | `GuardrailInv` |
| HttpAdapterProofs | `Http` | AnswersAreTrue, IdentitiesAreKept, InstantsAreOrdered | `HttpInv` |

What the invariants add to the properties, and why the properties need it:

- `Inv`. None of TypeOK, Conservation, HardLimit and Representable is inductive
  alone. A commit subtracts a reservation's amount from a counter, which stays
  non-negative only because the counter is the sum of the live reservations;
  the sums are well defined only because the rows are tied to each other
  (RowsTied: every reservation has a configured budget and an idempotency row,
  every usage entry a committed reservation of its own organization, and the
  entries are finite); and a commit keeps HardLimit and Representable because it
  moves at most what it releases.
- `HistoryInv` adds what the tables say of each other: every idempotency row is
  backed by a request that was applied (else a replay finds nothing to answer);
  a reservation lies in the window of its creation and ends with it at the
  latest, an entry lies within the life of its reservation (so a commit is
  charged in time); a retention cutoff lies behind the window of the
  organization's clock (so later usage cannot fall before it); `_mark_reconciled`
  has never found a difference (which follows from Conservation and closes the
  error path of `reconcile`).
- LedgerImplementsQuota takes each action to a step of `Quota` or a stutter. What
  Quota calls carried in a window is a sum over rows; Conservation makes it
  the counter on which `reserve` decides. An operation that first expires what
  is due and then reserves is one step of both.
- `ServiceInv` joins the ledger's and the buffer's invariants with Marked: every
  reservation lies in a window marked MATCH. `reserve` marks its window, and
  nothing unmarks one. Without it UnreadyOnlyWhenIdle, which is about the
  moment of a probe, has no reason. The ledger's steps are those of
  `UsageLedger`, taken by `create_app` and the handlers at the wall clock's
  instant; their lemmas are used again, not repeated.
- `BufferInv` knows the turn of the eviction loop: a pending record fits into an
  empty buffer, and its offer is remembered before it is known what becomes of
  it (PendingKept); no record is larger than the buffer (RecordsFit).
- `PipelineInv`: the guard has no lock, so CardinalityBounded says nothing of the
  values that threads have tested and not yet added. What is inductive is the
  bound on the content of a bucket together with the threads about to add a new
  value to it.
- `DecisionInv`: an ALLOW travels from OPA's answer through an outcome, the cache,
  another call's outcome, a response and a row to the client. SoundCall says what
  a call must know at each of its steps, CacheKept what an entry is, StoreKept
  that the rows are the answers.
- `GuardrailInv`: what a handler read before another lock (the profile and tenant
  of its stream) stays the stream's own (StreamsNamed), and a stream still open
  has evaluated no end (OpenUnended). ActiveProfileEvaluates also needs
  VerifiedActive: as long as its stream is open, the profile a push verified is
  still the active one, because what changes the profile closes the stream.
- `HttpInv`: IdentityChangesHands speaks of the last use of an identity, which is
  long past when it changes hands. TrackerKept says what holds in between: an
  identity in the tracker is its owner's and those behind it were bound since; a
  forgotten one has seen as many others as the tracker holds. SoundConn says which
  status and sends may follow from how the service call ended. In ClockKept the
  last instant brought to a service never passes the clock.

The proof modules declare no assumptions: all are those of the component modules,
evaluated by every run. Assumptions, beyond that constants have their types and instants are naturals:

- definitions and requests of the ledger are well formed (what
  `BudgetDefinition.__post_init__` and `normalize_dimensions` enforce);
  organizations, requests, calls, threads and tokens are finite where something
  is counted; limits that the code checks to be positive are positive;
- `BufferAssumption`: records are what `append` admits (`usage/telemetry.py:132`);
- `ClockAssumption`: the instant at which the service starts is one of Times;
- `None` is none of the values it stands beside (None in Python equals nothing
  else); `NoResultAssumption` is that of the result of a request;
- ActiveProfileEvaluates holds where clearing a stream never raises
  (`~ClearMayFail` is in its statement). Where it may raise, a profile can have
  changed and a stream of the old one be left open; `guardrail_tenants` runs with
  it, and all other theorems about streams hold with and without it.

Only model-checked: the liveness properties AppendEnds, DecideEnds, HandlersEnd
and RequestEnds, since fairness and ENABLED are beyond the prover; and the three
violations, which are single behaviours. `Lru` and `TelemetryBuffer` are written
with positions in place of SelectSeq, whose definition is recursive and about
which nothing can be proved by induction here.

## 6. Not modelled

JSON and header parsing, canonical encoding, cryptography and token decoding,
detectors and the guardrail SDK, the field checks of configuration files,
observability module contracts, build backend, CI, deployment, and the database
schemas (nothing in `src/` runs against them). They have no state of their own,
run once at start, or are external. The guardrail service's `create_app` only
activates profiles before it serves, which `Activate` covers at any time.
Overflow of the sums in `_recomputed` and in the `_budget_state` of a replayed
or admitted reserve is not a branch of the model: these sums are Conservation's and Representable's, which are proved
within the limit; `list_budgets` has the branch, and NoInternalError shows it
is never taken.

## 7. Plan

Done: the inventory; the ledger with its abstract specification; the usage
process with start-up and readiness; the telemetry pipeline; policy decisions;
guardrail streams; identity and the HTTP adapters; and a theorem for each safety
and action property that a passing run checks. What is left, in this order:

1. an abstract decision point (grants by OPA, answers that rest on one, digests
   barred for good) and the proof that `PolicyDecision` implements it, which would
   put RevocationHolds and AllowsAreGrounded into one statement;
2. the order of the audit records in the service: AuditKept is proved of the
   buffer and the pipeline; `ServiceSpec` inherits it, but no theorem says so;
3. the identity tracker inside `PolicyDecision`, where bindings are checked but
   IdentityChangesHands is not stated.

An abstract stream (a sequence with an end) implemented by `GuardrailStreams`
would say no more than SequenceExact and NothingAfterTheEnd together, so it is
not planned.
