--------------------------- MODULE MCUsageTenants ---------------------------
(***************************************************************************)
(* Two organizations with equal budget names, and every way a request can  *)
(* be refused: a suspended budget, a redefinition, a stale digest, a       *)
(* lifetime out of range, an instant before the epoch, an advisory budget  *)
(* near SafeMax, another tenant's reservation.  States that differ only in *)
(* what was last answered, or found, are one state to TLC (VIEW): actions  *)
(* read of both only how many findings there are, and the one invariant    *)
(* that reads the answer is part of the view.                              *)
(***************************************************************************)
EXTENDS UsageLedger

MCDims == {"modelTokens", "toolCalls"}

Usage(tokens, calls) ==
    [d \in MCDims |-> IF d = "modelTokens" THEN tokens ELSE calls]

Budget(org, enforcement, enabled, epoch) ==
    [org |-> org, budget |-> "b1", digest |-> "d1", scope |-> "s1",
     limits |-> Usage(2, 0), enforcement |-> enforcement, epoch |-> epoch,
     seconds |-> 2, warning |-> 5000, ttl |-> 1, retention |-> 1,
     enabled |-> enabled]

MCBudgetDefs ==
    {Budget("acme", "ADVISORY", TRUE, 1), Budget("globex", "HARD", TRUE, 0),
     Budget("globex", "HARD", FALSE, 0)}

Request(org, key, amounts, ttl) ==
    [org |-> org, budget |-> "b1", digest |-> "d1", scope |-> "s1",
     key |-> key, requested |-> amounts, ttl |-> ttl]

Acme == Request("acme", "k1", Usage(2, 0), 1)
Globex == Request("globex", "k1", Usage(1, 0), 1)

MCRequests ==
    {Acme, Request("acme", "k2", Usage(2, 0), 1), Globex,
     Request("globex", "k2", Usage(0, 1), 1),
     Request("globex", "k2", Usage(1, 0), 2), [Globex EXCEPT !.digest = "stale"]}

Commit(org, r, amounts) ==
    [org |-> org, reservation |-> r, target |-> "COMMITTED", key |-> "k1",
     observed |-> amounts, reason |-> "USAGE_COMMITTED"]

MCTransitionRequests ==
    {Commit("acme", Acme, Usage(2, 0)), Commit("globex", Globex, Usage(1, 0)),
     Commit("globex", Acme, Usage(1, 0))}

MCTimes == 0..2

MCView ==
    <<budgets, reservations, transitions, usage_entries, committed, reserved,
      idempotency, denials, outbox, last_clock, reconciled,
      Len(reconciliation_findings), Len(retention_findings), NoInternalError>>
=============================================================================
