--------------------------- MODULE MCUsageService ---------------------------
(***************************************************************************)
(* The readiness organization has two budgets, one of which starts only at *)
(* instant 1, with windows of two instants and reservations that would     *)
(* outlive them; the telemetry buffer holds one record.  No action reads   *)
(* what was last answered, so states that differ only in that are one      *)
(* state to TLC (VIEW).                                                    *)
(***************************************************************************)
EXTENDS UsageService

MCDims == {"modelTokens"}

Tokens(n) == [d \in MCDims |-> n]

MCBudget(id, epoch) ==
    [org |-> "acme", budget |-> id, digest |-> "d1", scope |-> "s1",
     limits |-> Tokens(1), enforcement |-> "HARD", epoch |-> epoch, seconds |-> 2,
     warning |-> 5000, ttl |-> 4, retention |-> 1, enabled |-> TRUE]

MCConfig == <<MCBudget("b1", 0), MCBudget("b2", 1)>>

MCBudgetDefs == {MCConfig[i] : i \in DOMAIN MCConfig}

MCRequest(id, key) ==
    [org |-> "acme", budget |-> id, digest |-> "d1", scope |-> "s1",
     key |-> key, requested |-> Tokens(1), ttl |-> 4]

MCRequests == {MCRequest("b1", "k1"), MCRequest("b2", "k2")}

MCTransitionRequests ==
    {[org |-> "acme", reservation |-> MCRequest("b1", "k1"), target |-> "COMMITTED",
      key |-> "k1", observed |-> Tokens(1), reason |-> "USAGE_COMMITTED"]}

MCTimes == 0..3

Healthy == [durable_store_ready |-> TRUE, collector_contract_valid |-> TRUE,
            collector_ready |-> TRUE, backend_ready |-> TRUE]

MCView == <<ledgerVars, clock, phase, todo, health, records, bytes, audit_saturated,
            pending, offered>>

MCHealths == {Healthy, [Healthy EXCEPT !.durable_store_ready = FALSE]}

MCRecords ==
    {[id |-> id, priority |-> "AUDIT", audit_required |-> TRUE, size |-> 1,
      recorded_at |-> 0] : id \in {"first", "second"}}
=============================================================================
