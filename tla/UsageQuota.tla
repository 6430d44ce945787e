----------------------------- MODULE UsageQuota -----------------------------
(***************************************************************************)
(* The usage ledger implements Quota.  A configured budget is an open      *)
(* account: its cap is the limit of a HARD budget and SAFE_INTEGER_MAX for *)
(* an advisory one.  A reservation is a grant; it counts what it requested *)
(* while RESERVED, what its usage entry observed once COMMITTED, nothing   *)
(* once RELEASED or EXPIRED.  The mapping reads the rows only: counters,   *)
(* idempotency rows, logs and clocks have no counterpart in Quota.         *)
(***************************************************************************)
EXTENDS UsageLedger

InState(states) == {r \in DOMAIN reservations : reservations[r].state \in states}

CapOf(b) == IF b.enforcement = "HARD" THEN b.limits ELSE [d \in Dims |-> SafeMax]

PlaceOf(r) == IF r \in DOMAIN reservations THEN ReservationKey(r) ELSE None

EntryOf(r) == CHOOSE e \in usage_entries : e.request.reservation = r

ChargeOf(r) ==
    IF r \in InState({"RESERVED"}) THEN r.requested
    ELSE IF r \in InState({"COMMITTED"}) THEN EntryOf(r).request.observed
    ELSE Zero

Quota == INSTANCE Quota WITH
    Owners <- Orgs, Accounts <- BudgetIds, Spans <- Windows, Measures <- Dims,
    Grants <- Requests, Most <- SafeMax, Nobody <- None,
    caps <- [x \in DOMAIN budgets |-> CapOf(budgets[x])],
    held <- InState({"RESERVED"}),
    spent <- InState({"COMMITTED"}),
    returned <- InState({"RELEASED", "EXPIRED"}),
    place <- [r \in Requests |-> PlaceOf(r)],
    charge <- [r \in Requests |-> ChargeOf(r)]

\* The ledger keeps the promise of Quota: however reserves, retries, commits,
\* releases and expiries interleave, every reservation is given once, within the
\* cap of its window, is then spent for no more than it was given or returned,
\* and a step never touches another organization's reservations.
ImplementsQuota == Quota!Quotas
=============================================================================
