---------------------------- MODULE UsageLedger ----------------------------
(***************************************************************************)
(* The tenant-scoped usage ledger of usage/ledger.py: budgets with fixed   *)
(* windows, reservations against them, their terminal transitions (commit, *)
(* release, expiry), the usage entries, the per-window counters kept       *)
(* incrementally beside them, the idempotency table, and the audit and     *)
(* outbox rows.                                                            *)
(*                                                                         *)
(* Every operation of the code runs under one lock on a COPY of the state  *)
(* and replaces the state by the copy only in _commit: an exception, and a *)
(* replayed answer, throw the copy away.  One operation is one action here.*)
(* What is concurrent is the instant `now`: a caller reads its clock before*)
(* it takes the lock, so operations reach the ledger with instants in any  *)
(* order.                                                                  *)
(*                                                                         *)
(* A reservation id and a transition id are digests of the whole request,  *)
(* so a request stands for its id.  Absent in a Python dict is outside     *)
(* DOMAIN here, except for counters, where _aggregate makes absent zero.   *)
(***************************************************************************)
EXTENDS Integers, FiniteSets, Sequences

CONSTANTS
    Orgs,               \* organizations (tenants)
    BudgetIds,          \* budget names
    Dims,               \* usage dimensions (modelTokens, toolCalls, ...)
    Keys,               \* caller idempotency keys
    Times,              \* the instants callers may bring
    SafeMax,            \* SAFE_INTEGER_MAX
    BudgetDefs,         \* budget definitions that may be configured
    Requests,           \* reserve requests that may be sent
    TransitionRequests, \* commit and release requests that may be sent
    MaxReconciliations, \* bound on the reconciliation findings
    MaxRetentions,      \* bound on the retention findings
    None                \* "no reservation" in a reply

Amounts == [Dims -> 0..SafeMax]

Zero == [d \in Dims |-> 0]

BudgetDefinition ==
    [org: Orgs, budget: BudgetIds, digest: STRING, scope: STRING,
     limits: Amounts, enforcement: {"HARD", "ADVISORY"}, epoch: Nat,
     seconds: Nat \ {0}, warning: 1..9999, ttl: Nat \ {0},
     retention: Nat \ {0}, enabled: BOOLEAN]

ReserveRequest ==
    [org: Orgs, budget: BudgetIds, digest: STRING, scope: STRING,
     key: Keys, requested: Amounts, ttl: Int]

TransitionRequest ==
    [org: Orgs, reservation: Requests, target: {"COMMITTED", "RELEASED"},
     key: Keys, observed: Amounts, reason: STRING]

ASSUME OrgsAssumption == IsFiniteSet(Orgs)
ASSUME TimesAssumption == Times \subseteq Nat
ASSUME SafeMaxAssumption == SafeMax \in Nat
ASSUME BudgetDefsAssumption == BudgetDefs \subseteq BudgetDefinition
ASSUME RequestsAssumption ==
    Requests \subseteq ReserveRequest /\ IsFiniteSet(Requests)
ASSUME TransitionRequestsAssumption ==
    TransitionRequests \subseteq TransitionRequest
ASSUME NoneAssumption == None \notin Requests
ASSUME BoundsAssumption == MaxReconciliations \in Nat /\ MaxRetentions \in Nat

VARIABLES
    budgets,        \* (org, budget id) -> definition
    reservations,   \* request -> state, window, creation and expiry instants
    transitions,    \* request -> its rows of the transition log
    usage_entries,  \* the usage rows
    committed,      \* (org, budget id, window) -> committed counters
    reserved,       \* (org, budget id, window) -> reserved counters
    idempotency,    \* (org, operation, key) -> the request first seen
    denials,        \* audit rows of denied reserve requests
    outbox,         \* request -> its rows of the audit log and the outbox
    reconciliation_findings,
    retention_findings,
    last_clock,     \* org -> greatest persisted instant, Never at first
    reconciled,     \* (org, budget id, window) -> status of the last check
    reply           \* what the last operation answered

ledgerVars == <<budgets, reservations, transitions, usage_entries, committed,
                reserved, idempotency, denials, outbox,
                reconciliation_findings, retention_findings, last_clock,
                reconciled>>
vars == <<ledgerVars, reply>>

Never == -1

(***************************************************************************)
(* Windows.  window_at of a budget at an instant not before its epoch.     *)
(***************************************************************************)
window_at(b, now) == (now - b.epoch) \div b.seconds

WindowStart(b, w) == b.epoch + w * b.seconds

WindowEnd(b, w) == WindowStart(b, w) + b.seconds

Windows == {window_at(x[1], x[2]) :
               x \in {y \in BudgetDefs \X Times : y[2] >= y[1].epoch}}

AggregateKeys == Orgs \X BudgetIds \X Windows

(***************************************************************************)
(* Sums.  The sum of f over a finite set S, counted as pairs of an element *)
(* and one of its units.                                                   *)
(***************************************************************************)
Units(S, f) == {u \in S \X (1..SafeMax) : u[2] <= f[u[1]]}

Total(S, f) == Cardinality(Units(S, f))

RequestedOf(d) == [r \in Requests |-> r.requested[d]]

ReservationKey(r) == <<r.org, r.budget, reservations[r].window>>

EntryKey(e) == <<e.request.org, e.request.reservation.budget, e.window>>

Live(k) == {r \in DOMAIN reservations :
               ReservationKey(r) = k /\ reservations[r].state = "RESERVED"}

Entries(k) == {e \in usage_entries : EntryKey(e) = k}

ObservedOf(d) == [e \in usage_entries |-> e.request.observed[d]]

(***************************************************************************)
(* _recomputed: the counters as the rows say they should be, and           *)
(* _mark_reconciled's comparison of them with the counters kept.           *)
(***************************************************************************)
recomputed(k) ==
    [committed |-> [d \in Dims |-> Total(Entries(k), ObservedOf(d))],
     reserved  |-> [d \in Dims |-> Total(Live(k), RequestedOf(d))]]

aggregate(k) == [committed |-> committed[k], reserved |-> reserved[k]]

Status(k) == IF recomputed(k) = aggregate(k) THEN "MATCH" ELSE "MISMATCH"

\* Faulty variant: an operation leaves the marks to reconcile.
mark_reconciled_Nothing(touched) == reconciled' = reconciled

mark_reconciled(touched) ==
    reconciled' = [k \in AggregateKeys |->
                      IF k \in touched THEN Status(k)' ELSE reconciled[k]]

(***************************************************************************)
(* _expire_due: the candidate state once every due reservation of the      *)
(* organization has been expired.  The code expires them one by one; the   *)
(* rows of one reservation and the counters of one window do not depend on *)
(* the order, and the counters go negative on the way iff they end so.     *)
(***************************************************************************)
\* Faulty variant: a reservation already ended expires again.
Due_AnyState(o, now) == {r \in DOMAIN reservations :
                            r.org = o /\ reservations[r].expires <= now}

Due(o, now) == {r \in DOMAIN reservations :
                   /\ r.org = o
                   /\ reservations[r].state = "RESERVED"
                   /\ reservations[r].expires <= now}

DueKeys(o, now) == {ReservationKey(r) : r \in Due(o, now)}

ExpiryRow(r, now) ==
    [request |-> [org |-> r.org, reservation |-> r, target |-> "EXPIRED",
                  key |-> "system-expiry", observed |-> Zero,
                  reason |-> "RESERVATION_EXPIRED"],
     at |-> now]

ExpiredReservations(o, now) ==
    [r \in DOMAIN reservations |->
        IF r \in Due(o, now)
        THEN [reservations[r] EXCEPT !.state = "EXPIRED"]
        ELSE reservations[r]]

\* Faulty variant: expiry does not give the reserved capacity back.
ExpiredReserved_Kept(o, now) == reserved

ExpiredReserved(o, now) ==
    [k \in AggregateKeys |-> [d \in Dims |->
        reserved[k][d]
          - Total({r \in Due(o, now) : ReservationKey(r) = k}, RequestedOf(d))]]

ExpiredTransitions(o, now) ==
    [r \in Requests |-> IF r \in Due(o, now)
                        THEN Append(transitions[r], ExpiryRow(r, now))
                        ELSE transitions[r]]

\* Faulty variant: expiry is not announced.
ExpiredOutbox_Silent(o, now) == outbox

ExpiredOutbox(o, now) ==
    [r \in Requests |-> IF r \in Due(o, now)
                        THEN Append(outbox[r], "usage.expired.v1")
                        ELSE outbox[r]]

\* subtract_dimensions raises COUNTER_UNDERFLOW instead of going negative,
\* and the dict lookup of a reservation's budget raises KeyError.
ExpiryError(o, now) ==
    IF \E r \in Due(o, now) : <<o, r.budget>> \notin DOMAIN budgets
    THEN "KEY_ERROR"
    ELSE IF \E k \in DueKeys(o, now), d \in Dims : ExpiredReserved(o, now)[k][d] < 0
    THEN "COUNTER_UNDERFLOW"
    ELSE "NONE"

\* Faulty variant: the caller's instant is taken as it comes.
Opening_AnyInstant(o, now) == ExpiryError(o, now)

\* _advance_clock, then _expire_due: how every writing operation begins.
Opening(o, now) == IF now < last_clock[o] THEN "CLOCK_REGRESSION"
                   ELSE ExpiryError(o, now)

(***************************************************************************)
(* _commit replaces the state, or fails and leaves it alone.               *)
(***************************************************************************)
Answer(o, op, code, id) ==
    reply' = [org |-> o, op |-> op, code |-> code, id |-> id]

Refuse(o, op, code, id) == Answer(o, op, code, id) /\ UNCHANGED ledgerVars

\* Faulty variant: one clock for all tenants.
AdvanceClock_Shared(o, now) == last_clock' = [p \in Orgs |-> now]

AdvanceClock(o, now) == last_clock' = [last_clock EXCEPT ![o] = now]

\* Faulty variant: the row is not written, so a retried key is not recognised.
Remembered_Forgotten(row, request) == idempotency

\* The idempotency table with the row of a request that is being applied.
Remembered(row, request) ==
    [x \in DOMAIN idempotency \cup {row} |->
        IF x = row THEN request ELSE idempotency[x]]

\* The candidate that only carries the clock and the expiries.
PersistExpiries(o, now) ==
    /\ AdvanceClock(o, now)
    /\ reservations' = ExpiredReservations(o, now)
    /\ reserved' = ExpiredReserved(o, now)
    /\ transitions' = ExpiredTransitions(o, now)
    /\ outbox' = ExpiredOutbox(o, now)
    /\ UNCHANGED <<budgets, usage_entries, committed, idempotency>>

-----------------------------------------------------------------------------
(***************************************************************************)
(* add_budget.                                                             *)
(***************************************************************************)
AddBudget(b) ==
    LET key == <<b.org, b.budget>> IN
    \/ /\ key \in DOMAIN budgets
       /\ Refuse(b.org, "add_budget",
                 IF budgets[key] = b THEN "UNCHANGED" ELSE "BUDGET_CONFLICT", None)
    \/ /\ key \notin DOMAIN budgets
       /\ Refuse(b.org, "add_budget", "STORE_COMMIT_FAILED", None)
    \/ /\ key \notin DOMAIN budgets
       /\ budgets' = [x \in DOMAIN budgets \cup {key} |->
                         IF x = key THEN b ELSE budgets[x]]
       /\ Answer(b.org, "add_budget", "ADDED", None)
       /\ UNCHANGED <<reservations, transitions, usage_entries, committed,
                      reserved, idempotency, denials, outbox,
                      reconciliation_findings, retention_findings, last_clock,
                      reconciled>>

\* _budget: why a request does not name the budget as it is configured.
BudgetRefusal(q) ==
    LET b == budgets[<<q.org, q.budget>>] IN
    IF <<q.org, q.budget>> \notin DOMAIN budgets THEN "BUDGET_NOT_FOUND"
    ELSE IF b.digest # q.digest THEN "BUDGET_DIGEST_MISMATCH"
    ELSE IF b.scope # q.scope THEN "BUDGET_SCOPE_MISMATCH"
    ELSE "NONE"

\* Faulty variant: only what is already committed counts against the budget.
Projected_IgnoresReserved(q, now) ==
    LET b == budgets[<<q.org, q.budget>>]
    IN [d \in Dims |-> committed[<<q.org, q.budget, window_at(b, now)>>][d]
                         + q.requested[d]]

\* committed + reserved + requested, on the candidate after expiry.
Projected(q, now) ==
    LET b == budgets[<<q.org, q.budget>>]
        k == <<q.org, q.budget, window_at(b, now)>>
    IN [d \in Dims |-> committed[k][d] + ExpiredReserved(q.org, now)[k][d]
                         + q.requested[d]]

\* Faulty variant: no width check.
Overflows_Unchecked(amounts) == FALSE

Overflows(amounts) == \E d \in Dims : amounts[d] > SafeMax

\* Faulty variant: one unit too many passes.
Exceeds_ByMore(amounts, limits) == \E d \in Dims : amounts[d] > limits[d] + 1

Exceeds(amounts, limits) == \E d \in Dims : amounts[d] > limits[d]

(***************************************************************************)
(* reserve.  ReserveOutcome is the first check that decides.               *)
(***************************************************************************)
ReserveOutcome(q, now) ==
    LET b   == budgets[<<q.org, q.budget>>]
        row == <<q.org, "RESERVE", q.key>>
    IN  IF Opening(q.org, now) # "NONE" THEN Opening(q.org, now)
        ELSE IF row \in DOMAIN idempotency
        THEN IF idempotency[row] # q THEN "IDEMPOTENCY_CONFLICT"
             ELSE IF q \notin DOMAIN reservations \/ <<q.org, q.budget>> \notin DOMAIN budgets
             THEN "KEY_ERROR"
             ELSE "REPLAY"
        ELSE IF BudgetRefusal(q) # "NONE" THEN BudgetRefusal(q)
        ELSE IF ~b.enabled THEN "BUDGET_SUSPENDED"
        ELSE IF q.ttl \notin 1..b.ttl THEN "RESERVATION_TTL_INVALID"
        ELSE IF now < b.epoch THEN "WINDOW_NOT_STARTED"
        ELSE IF Overflows(Projected(q, now)) THEN "DIMENSION_OVERFLOW"
        ELSE IF Exceeds(Projected(q, now), b.limits) /\ b.enforcement = "HARD"
        THEN "BUDGET_EXCEEDED"
        ELSE "ADMIT"

AuditedDenials == {"BUDGET_SUSPENDED", "BUDGET_EXCEEDED"}

\* An exception, or a replay: the answer shows the candidate's reservation,
\* expired or not, but the candidate itself is dropped.
ReserveRefused(q, now) ==
    LET outcome == ReserveOutcome(q, now) IN
    \/ /\ outcome \notin AuditedDenials \cup {"ADMIT", "REPLAY"}
       /\ Refuse(q.org, "reserve", outcome, None)
    \/ /\ outcome = "REPLAY"
       /\ Refuse(q.org, "reserve", ExpiredReservations(q.org, now)[q].state, q)
    \/ /\ outcome \in AuditedDenials \cup {"ADMIT"}
       /\ Refuse(q.org, "reserve", "STORE_COMMIT_FAILED", None)

\* A suspended or exhausted budget: the denial is audited and persisted, with
\* the clock and the expiries.
ReserveDenied(q, now) ==
    /\ ReserveOutcome(q, now) \in AuditedDenials
    /\ denials' = denials \cup
                     {[request |-> q, reason |-> ReserveOutcome(q, now)]}
    /\ PersistExpiries(q.org, now)
    /\ mark_reconciled(DueKeys(q.org, now))
    /\ Answer(q.org, "reserve", ReserveOutcome(q, now), None)
    /\ UNCHANGED <<reconciliation_findings, retention_findings>>

\* Faulty variants: the reservation outlives its window; the window is kept by
\* its start instant.
NewReservation_FullTtl(q, now) ==
    [state |-> "RESERVED", window |-> window_at(budgets[<<q.org, q.budget>>], now),
     created |-> now, expires |-> now + q.ttl]

NewReservation_ByStart(q, now) ==
    LET b == budgets[<<q.org, q.budget>>]
        w == window_at(b, now)
    IN  [state |-> "RESERVED", window |-> WindowStart(b, w), created |-> now,
         expires |-> IF now + q.ttl < WindowEnd(b, w)
                     THEN now + q.ttl ELSE WindowEnd(b, w)]

NewReservation(q, now) ==
    LET b == budgets[<<q.org, q.budget>>]
        w == window_at(b, now)
    IN  [state |-> "RESERVED", window |-> w, created |-> now,
         expires |-> IF now + q.ttl < WindowEnd(b, w)
                     THEN now + q.ttl ELSE WindowEnd(b, w)]

ReserveAdmitted(q, now) ==
    LET b == budgets[<<q.org, q.budget>>]
        k == <<q.org, q.budget, window_at(b, now)>>
    IN  /\ ReserveOutcome(q, now) = "ADMIT"
        /\ reservations' = [r \in DOMAIN reservations \cup {q} |->
                               IF r = q THEN NewReservation(q, now)
                               ELSE ExpiredReservations(q.org, now)[r]]
        /\ idempotency' = Remembered(<<q.org, "RESERVE", q.key>>, q)
        /\ reserved' = [ExpiredReserved(q.org, now) EXCEPT
                           ![k] = [d \in Dims |-> @[d] + q.requested[d]]]
        /\ transitions' = ExpiredTransitions(q.org, now)
        /\ outbox' = [ExpiredOutbox(q.org, now) EXCEPT
                         ![q] = Append(@, "usage.reserved.v1")]
        /\ AdvanceClock(q.org, now)
        /\ UNCHANGED <<budgets, usage_entries, committed>>
        /\ mark_reconciled(DueKeys(q.org, now) \cup {k})
        /\ Answer(q.org, "reserve", "RESERVED", q)
        /\ UNCHANGED <<denials, reconciliation_findings, retention_findings>>

(***************************************************************************)
(* commit and release: _transition with target COMMITTED or RELEASED.      *)
(***************************************************************************)
TransitionOutcome(t, now) ==
    LET r   == t.reservation
        row == <<t.org, t.target, t.key>>
        k   == ReservationKey(r)
    IN  IF Opening(t.org, now) # "NONE" THEN Opening(t.org, now)
        ELSE IF row \in DOMAIN idempotency
        THEN IF idempotency[row] # t THEN "IDEMPOTENCY_CONFLICT"
             ELSE IF \E i \in DOMAIN transitions[r] : transitions[r][i].request = t
             THEN "REPLAY" ELSE "STOP_ITERATION"
        ELSE IF r \notin DOMAIN reservations \/ r.org # t.org
        THEN "RESERVATION_NOT_FOUND"
        ELSE IF ExpiredReservations(t.org, now)[r].state = "EXPIRED"
        THEN "RESERVATION_EXPIRED"
        ELSE IF reservations[r].state # "RESERVED" THEN "RESERVATION_TERMINAL"
        ELSE IF t.target = "COMMITTED" /\ Exceeds(t.observed, r.requested)
        THEN "COMMIT_EXCEEDS_RESERVATION"
        ELSE IF <<t.org, r.budget>> \notin DOMAIN budgets THEN "KEY_ERROR"
        ELSE IF /\ t.target = "COMMITTED"
                /\ Overflows([d \in Dims |-> committed[k][d] + t.observed[d]])
        THEN "DIMENSION_OVERFLOW"
        ELSE IF \E d \in Dims : ExpiredReserved(t.org, now)[k][d] < r.requested[d]
        THEN "COUNTER_UNDERFLOW"
        ELSE "APPLY"

TransitionRefused(t, now) ==
    LET outcome == TransitionOutcome(t, now) IN
    \/ /\ outcome \notin {"APPLY", "REPLAY"}
       /\ Refuse(t.org, t.target, outcome,
                 IF outcome = "RESERVATION_EXPIRED" THEN t.reservation ELSE None)
    \/ /\ outcome = "REPLAY"
       /\ Refuse(t.org, t.target, t.target, t.reservation)
    \/ /\ outcome = "APPLY"
       /\ Refuse(t.org, t.target, "STORE_COMMIT_FAILED", None)

TransitionApplied(t, now) ==
    LET r == t.reservation
        k == ReservationKey(r)
    IN  /\ TransitionOutcome(t, now) = "APPLY"
        /\ reservations' = [ExpiredReservations(t.org, now) EXCEPT
                               ![r].state = t.target]
        /\ transitions' = [ExpiredTransitions(t.org, now) EXCEPT
                              ![r] = Append(@, [request |-> t, at |-> now])]
        /\ idempotency' = Remembered(<<t.org, t.target, t.key>>, t)
        /\ reserved' = [ExpiredReserved(t.org, now) EXCEPT
                           ![k] = [d \in Dims |-> @[d] - r.requested[d]]]
        /\ \/ /\ t.target = "COMMITTED"
              /\ committed' = [committed EXCEPT
                                  ![k] = [d \in Dims |-> @[d] + t.observed[d]]]
              /\ usage_entries' = usage_entries \cup
                     {[request |-> t, window |-> reservations[r].window, at |-> now]}
              /\ outbox' = [ExpiredOutbox(t.org, now) EXCEPT
                               ![r] = Append(@, "usage.committed.v1")]
           \/ /\ t.target = "RELEASED"
              /\ outbox' = [ExpiredOutbox(t.org, now) EXCEPT
                               ![r] = Append(@, "usage.released.v1")]
              /\ UNCHANGED <<committed, usage_entries>>
        /\ AdvanceClock(t.org, now)
        /\ mark_reconciled(DueKeys(t.org, now) \cup {k})
        /\ Answer(t.org, t.target, t.target, r)
        /\ UNCHANGED <<budgets, denials, reconciliation_findings, retention_findings>>

(***************************************************************************)
(* evaluate: what a reserve would meet.  It persists the clock and the     *)
(* expiries when they changed anything, and then also marks the window.    *)
(***************************************************************************)
BudgetState(b, w) ==
    LET k == <<b.org, b.budget, w>>
        total == [d \in Dims |-> committed[k][d] + reserved[k][d]]
    IN  IF ~b.enabled THEN "SUSPENDED"
        ELSE IF \E v \in Windows : v < w /\ reconciled[<<b.org, b.budget, v>>] = "MISMATCH"
        THEN "RESET_PENDING"
        ELSE IF \E d \in Dims : b.limits[d] > 0 /\ total[d] >= b.limits[d]
        THEN "EXHAUSTED"
        ELSE IF \E d \in Dims : b.limits[d] > 0
                                  /\ total[d] * 10000 >= b.limits[d] * b.warning
        THEN "WARNING"
        ELSE "AVAILABLE"

EvaluateOutcome(q, now) ==
    LET b == budgets[<<q.org, q.budget>>] IN
    IF Opening(q.org, now) # "NONE" THEN Opening(q.org, now)
    ELSE IF BudgetRefusal(q) # "NONE" THEN BudgetRefusal(q)
    ELSE IF now < b.epoch THEN "WINDOW_NOT_STARTED"
    ELSE IF Overflows(Projected(q, now)) THEN "DIMENSION_OVERFLOW"
    ELSE "EVALUATED"

CandidateDiffers(o, now) == last_clock[o] # now \/ Due(o, now) # {}

EvaluateRefused(q, now) ==
    \/ /\ EvaluateOutcome(q, now) # "EVALUATED"
       /\ Refuse(q.org, "evaluate", EvaluateOutcome(q, now), None)
    \/ /\ EvaluateOutcome(q, now) = "EVALUATED"
       /\ CandidateDiffers(q.org, now)
       /\ Refuse(q.org, "evaluate", "STORE_COMMIT_FAILED", None)

Evaluated(q, now) ==
    LET b == budgets[<<q.org, q.budget>>]
        w == window_at(b, now)
    IN  /\ EvaluateOutcome(q, now) = "EVALUATED"
        /\ \/ /\ ~CandidateDiffers(q.org, now)
              /\ UNCHANGED ledgerVars
           \/ /\ CandidateDiffers(q.org, now)
              /\ PersistExpiries(q.org, now)
              /\ mark_reconciled(DueKeys(q.org, now) \cup {<<q.org, q.budget, w>>})
              /\ UNCHANGED <<denials, reconciliation_findings, retention_findings>>
        /\ Answer(q.org, "evaluate", BudgetState(b, w)', None)

(***************************************************************************)
(* list_usage and list_budgets read the state as it is.                    *)
(***************************************************************************)
ListUsage(o, now) ==
    Refuse(o, "list_usage",
           IF now < last_clock[o] THEN "CLOCK_REGRESSION" ELSE "LISTED", None)

\* The state of an enabled budget needs the sum of both its counters.
StateOverflows(b, w) ==
    LET k == <<b.org, b.budget, w>>
    IN  b.enabled /\ Overflows([d \in Dims |-> committed[k][d] + reserved[k][d]])

ListBudgets(o, now) ==
    LET mine == {budgets[x] : x \in {y \in DOMAIN budgets : y[1] = o}} IN
    Refuse(o, "list_budgets",
           IF now < last_clock[o] THEN "CLOCK_REGRESSION"
           ELSE IF \E b \in mine : now < b.epoch THEN "WINDOW_NOT_STARTED"
           ELSE IF \E b \in mine : StateOverflows(b, window_at(b, now))
           THEN "DIMENSION_OVERFLOW"
           ELSE "LISTED", None)

(***************************************************************************)
(* reconcile: compare the counters of the current window with the rows,    *)
(* record the finding, repair nothing.                                     *)
(***************************************************************************)
ReconcileOutcome(o, id, now) ==
    IF Opening(o, now) # "NONE" THEN Opening(o, now)
    ELSE IF <<o, id>> \notin DOMAIN budgets THEN "BUDGET_NOT_FOUND"
    ELSE IF now < budgets[<<o, id>>].epoch THEN "WINDOW_NOT_STARTED"
    ELSE "RECONCILED"

ReconcileRefused(o, id, now) ==
    Refuse(o, "reconcile",
           IF ReconcileOutcome(o, id, now) = "RECONCILED" THEN "STORE_COMMIT_FAILED"
           ELSE ReconcileOutcome(o, id, now), None)

Reconcile(o, id, now) ==
    LET w == window_at(budgets[<<o, id>>], now)
        k == <<o, id, w>>
    IN  /\ Len(reconciliation_findings) < MaxReconciliations
        /\ ReconcileOutcome(o, id, now) = "RECONCILED"
        /\ PersistExpiries(o, now)
        /\ mark_reconciled(DueKeys(o, now) \cup {k})
        /\ reconciliation_findings' =
               Append(reconciliation_findings,
                      [key |-> k, expected |-> recomputed(k)',
                       observed |-> aggregate(k)', status |-> Status(k)'])
        /\ Answer(o, "reconcile", Status(k)', None)
        /\ UNCHANGED <<denials, retention_findings>>

(***************************************************************************)
(* retention_due: a finding about the usage old enough to be retired.  It  *)
(* advances the clock but expires nothing, and deletes nothing.            *)
(***************************************************************************)
RetentionOutcome(o, id, now) ==
    IF now < last_clock[o] THEN "CLOCK_REGRESSION"
    ELSE IF <<o, id>> \notin DOMAIN budgets THEN "BUDGET_NOT_FOUND"
    ELSE IF now < budgets[<<o, id>>].epoch THEN "WINDOW_NOT_STARTED"
    ELSE "RECORDED"

RetentionRefused(o, id, now) ==
    Refuse(o, "retention_due",
           IF RetentionOutcome(o, id, now) = "RECORDED" THEN "STORE_COMMIT_FAILED"
           ELSE RetentionOutcome(o, id, now), None)

RetentionDue(o, id, now) ==
    LET b == budgets[<<o, id>>]
        cutoff == window_at(b, now) - b.retention
        history == {e \in usage_entries : /\ e.request.org = o
                                          /\ e.request.reservation.budget = id
                                          /\ e.window <= cutoff}
        status == IF history # {} THEN "RETENTION_DUE" ELSE "NOT_DUE"
    IN  /\ Len(retention_findings) < MaxRetentions
        /\ RetentionOutcome(o, id, now) = "RECORDED"
        /\ retention_findings' =
               Append(retention_findings,
                      [org |-> o, budget |-> id, cutoff |-> cutoff,
                       history |-> history, status |-> status])
        /\ AdvanceClock(o, now)
        /\ Answer(o, "retention_due", status, None)
        /\ UNCHANGED <<budgets, reservations, transitions, usage_entries,
                       committed, reserved, idempotency, denials, outbox,
                       reconciliation_findings, reconciled>>

\* reconciliation_current: is the current window of every budget of the
\* organization marked MATCH?  It stops at the first budget that decides, in the
\* order the budgets were added, so more than one answer may be possible.
reconciliation_current(o, now) ==
    LET mine == {x \in DOMAIN budgets : x[1] = o}
        unstarted == \E x \in mine : now < budgets[x].epoch
        stale == \E x \in mine :
                    /\ now >= budgets[x].epoch
                    /\ reconciled[<<o, x[2], window_at(budgets[x], now)>>] # "MATCH"
    IN  {answer \in {"WINDOW_NOT_STARTED", "STALE", "CURRENT"} :
            \/ answer = "WINDOW_NOT_STARTED" /\ unstarted
            \/ answer = "STALE" /\ stale
            \/ answer = "CURRENT" /\ ~unstarted /\ ~stale}

ReconciliationCurrent(o, now) ==
    \E answer \in reconciliation_current(o, now) :
        Refuse(o, "reconciliation_current", answer, None)

-----------------------------------------------------------------------------
Init ==
    /\ budgets = [x \in {} |-> None]
    /\ reservations = [r \in {} |-> None]
    /\ transitions = [r \in Requests |-> <<>>]
    /\ usage_entries = {}
    /\ committed = [k \in AggregateKeys |-> Zero]
    /\ reserved = [k \in AggregateKeys |-> Zero]
    /\ idempotency = [x \in {} |-> None]
    /\ denials = {}
    /\ outbox = [r \in Requests |-> <<>>]
    /\ reconciliation_findings = <<>>
    /\ retention_findings = <<>>
    /\ last_clock = [o \in Orgs |-> Never]
    /\ reconciled = [k \in AggregateKeys |-> "NONE"]
    /\ reply = [org |-> None, op |-> "start", code |-> "STARTED", id |-> None]

\* What the service's routes call.
Handlers(now) ==
    \/ \E q \in Requests :
          \/ ReserveRefused(q, now)
          \/ ReserveDenied(q, now)
          \/ ReserveAdmitted(q, now)
          \/ EvaluateRefused(q, now)
          \/ Evaluated(q, now)
    \/ \E t \in TransitionRequests :
          \/ TransitionRefused(t, now)
          \/ TransitionApplied(t, now)
    \/ \E o \in Orgs : ListUsage(o, now) \/ ListBudgets(o, now)

\* What no route calls: findings, asked for by whoever holds the ledger.
Maintenance(now) ==
    \E o \in Orgs, id \in BudgetIds :
        \/ ReconcileRefused(o, id, now)
        \/ Reconcile(o, id, now)
        \/ RetentionRefused(o, id, now)
        \/ RetentionDue(o, id, now)

Next ==
    \/ \E b \in BudgetDefs : AddBudget(b)
    \/ \E now \in Times : Handlers(now) \/ Maintenance(now)
    \/ \E o \in Orgs, now \in Times : ReconciliationCurrent(o, now)

Spec == Init /\ [][Next]_vars
-----------------------------------------------------------------------------
(***************************************************************************)
(* Properties.                                                             *)
(***************************************************************************)
Terminal == {"COMMITTED", "RELEASED", "EXPIRED"}

ReservationRecord ==
    [state: Terminal \cup {"RESERVED"}, window: Windows, created: Times, expires: Int]

TransitionRow ==
    [request: TransitionRequests \cup {ExpiryRow(r, 0).request : r \in Requests},
     at: Times]

UsageEntry == [request: TransitionRequests, window: Windows, at: Times]

EventTypes == {"usage.reserved.v1", "usage.committed.v1", "usage.released.v1",
               "usage.expired.v1"}

EventOf(state) ==
    CASE state = "RESERVED"  -> "usage.reserved.v1"
      [] state = "COMMITTED" -> "usage.committed.v1"
      [] state = "RELEASED"  -> "usage.released.v1"
      [] state = "EXPIRED"   -> "usage.expired.v1"

Counters == [Dims -> Nat]

RowsTypeOK ==
    /\ DOMAIN budgets \subseteq Orgs \X BudgetIds
    /\ budgets \in [DOMAIN budgets -> BudgetDefs]
    /\ DOMAIN reservations \subseteq Requests
    /\ reservations \in [DOMAIN reservations -> ReservationRecord]
    /\ transitions \in [Requests -> Seq(TransitionRow)]
    /\ usage_entries \subseteq UsageEntry
    /\ DOMAIN idempotency \subseteq Orgs \X {"RESERVE", "COMMITTED", "RELEASED"} \X Keys
    /\ idempotency \in [DOMAIN idempotency -> Requests \cup TransitionRequests]
    /\ outbox \in [Requests -> Seq(EventTypes)]
    /\ last_clock \in [Orgs -> Times \cup {Never}]

CountersTypeOK ==
    /\ committed \in [AggregateKeys -> Counters]
    /\ reserved \in [AggregateKeys -> Counters]

\* Every table of LedgerState holds rows of its own kind; in particular no
\* counter of an Aggregate is ever negative.
TypeOK ==
    /\ RowsTypeOK
    /\ CountersTypeOK
    /\ denials \subseteq [request: Requests, reason: AuditedDenials]
    /\ reconciled \in [AggregateKeys -> {"NONE", "MATCH", "MISMATCH"}]
    /\ reply.id \in Requests \cup {None}

\* The counters _transition, reserve and _expire_due keep incrementally are,
\* after every operation, the sums of the rows they stand for: reserved of the
\* reservations still RESERVED, committed of the usage entries.
Conservation ==
    \A k \in AggregateKeys, d \in Dims :
        /\ reserved[k][d] = Total(Live(k), RequestedOf(d))
        /\ committed[k][d] = Total(Entries(k), ObservedOf(d))

\* A HARD budget is never overspent in any window, whatever the order in which
\* reserves, commits, releases and expiries reach the ledger.
HardLimit ==
    \A k \in AggregateKeys :
        LET b == budgets[<<k[1], k[2]>>] IN
        (<<k[1], k[2]>> \in DOMAIN budgets /\ b.enforcement = "HARD") =>
            \A d \in Dims : committed[k][d] + reserved[k][d] <= b.limits[d]

\* What reserve admitted stays representable: no counter sum, of an advisory
\* budget either, passes SAFE_INTEGER_MAX afterwards, so _budget_state and
\* list_budgets cannot raise DIMENSION_OVERFLOW.
Representable ==
    \A k \in AggregateKeys, d \in Dims : committed[k][d] + reserved[k][d] <= SafeMax

\* The errors that would mean a broken ledger are never answered: a counter
\* underflow, a dangling reservation, budget or transition id, an overflow when
\* committing what was reserved or listing it, a failed reconciliation.
NoInternalError ==
    /\ reply.code \notin {"KEY_ERROR", "STOP_ITERATION", "COUNTER_UNDERFLOW",
                          "MISMATCH", "RESET_PENDING"}
    /\ reply.op \in {"COMMITTED", "list_budgets"} => reply.code # "DIMENSION_OVERFLOW"

\* The rows of a reservation tell one story: at most one terminal transition,
\* of the reservation's own state, exactly one event for each step in order,
\* and a usage entry iff it was committed (the UNIQUE constraints of
\* migrations/usage/001_usage.sql on reservation_transition and usage_entry).
RowsAgree ==
    \A r \in Requests :
        LET entries == {e \in usage_entries : e.request.reservation = r} IN
        IF r \notin DOMAIN reservations
        THEN transitions[r] = <<>> /\ outbox[r] = <<>> /\ entries = {}
        ELSE LET s == reservations[r].state IN
             IF s = "RESERVED"
             THEN /\ transitions[r] = <<>>
                  /\ outbox[r] = <<EventOf("RESERVED")>>
                  /\ entries = {}
             ELSE /\ Len(transitions[r]) = 1
                  /\ transitions[r][1].request.target = s
                  /\ outbox[r] = <<EventOf("RESERVED"), EventOf(s)>>
                  /\ entries = IF s = "COMMITTED"
                               THEN {[request |-> transitions[r][1].request,
                                      window |-> reservations[r].window,
                                      at |-> transitions[r][1].at]}
                               ELSE {}

\* Usage is charged to the window it happened in: a usage entry is recorded
\* while its reservation is alive, which ends with its window at the latest.
ChargedInItsWindow ==
    \A e \in usage_entries :
        LET r == e.request.reservation
            b == budgets[<<r.org, r.budget>>]
        IN  /\ reservations[r].created <= e.at
            /\ e.at < reservations[r].expires
            /\ window_at(b, e.at) = e.window

\* A key charges once: every reservation and every caller's transition is the
\* one its idempotency row names, so two requests with one key are never both
\* applied (UNIQUE (organization_id, idempotency_key_digest) in the schema).
KeyChargesOnce ==
    /\ \A r \in DOMAIN reservations :
          /\ <<r.org, "RESERVE", r.key>> \in DOMAIN idempotency
          /\ idempotency[<<r.org, "RESERVE", r.key>>] = r
    /\ \A r \in Requests : \A i \in DOMAIN transitions[r] :
          LET t == transitions[r][i].request IN
          t.target # "EXPIRED" =>
              /\ <<t.org, t.target, t.key>> \in DOMAIN idempotency
              /\ idempotency[<<t.org, t.target, t.key>>] = t

\* What organization o owns in the ledger.
TenantView(o) ==
    <<[x \in {y \in DOMAIN budgets : y[1] = o} |-> budgets[x]],
      [r \in {q \in DOMAIN reservations : q.org = o} |-> reservations[r]],
      [r \in {q \in Requests : q.org = o} |-> <<transitions[r], outbox[r]>>],
      {e \in usage_entries : e.request.org = o},
      {x \in denials : x.request.org = o},
      [k \in {x \in AggregateKeys : x[1] = o} |->
          <<committed[k], reserved[k], reconciled[k]>>],
      [x \in {y \in DOMAIN idempotency : y[1] = o} |-> idempotency[x]],
      last_clock[o]>>

\* Tenant isolation: an operation, with the expiries it triggers, changes only
\* what the organization it was called for owns.
TenantIsolation ==
    [][\A o \in Orgs : reply'.org # o => TenantView(o)' = TenantView(o)]_vars

\* History only grows: a terminal reservation never changes, no log row is
\* rewritten, no idempotency row is rebound, no organization's clock goes back.
HistoryOnlyGrows ==
    [][/\ \A r \in DOMAIN reservations :
             /\ r \in DOMAIN reservations'
             /\ reservations[r].state \in Terminal => reservations'[r] = reservations[r]
       /\ \A r \in Requests :
             /\ Len(transitions'[r]) >= Len(transitions[r])
             /\ SubSeq(transitions'[r], 1, Len(transitions[r])) = transitions[r]
       /\ usage_entries \subseteq usage_entries'
       /\ \A x \in DOMAIN idempotency :
             x \in DOMAIN idempotency' /\ idempotency'[x] = idempotency[x]
       /\ \A o \in Orgs : last_clock'[o] >= last_clock[o]]_vars

\* A retention finding stays true: no usage is ever recorded in a window at or
\* before the cutoff of a finding already made, although retention_due expires
\* no reservation.
RetentionHistoryClosed ==
    \A i \in DOMAIN retention_findings :
        LET f == retention_findings[i] IN
        f.history = {e \in usage_entries : /\ e.request.org = f.org
                                           /\ e.request.reservation.budget = f.budget
                                           /\ e.window <= f.cutoff}

\* An expiry the ledger has reported is in its books: the state is EXPIRED and
\* the reserved capacity released (what test_retention.py calls "expiry releases
\* reserved capacity and is audited").
ReportedExpiryIsRecorded ==
    reply.code \in {"EXPIRED", "RESERVATION_EXPIRED"} =>
        reservations[reply.id].state = "EXPIRED"
=============================================================================
