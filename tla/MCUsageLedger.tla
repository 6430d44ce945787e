--------------------------- MODULE MCUsageLedger ---------------------------
(***************************************************************************)
(* One organization, one HARD budget over two windows of three instants,   *)
(* three idempotency keys: reserves, commits, releases and expiries race   *)
(* for the last units of the budget, with callers' instants in any order.  *)
(* No action reads reply and no property of the run names it beyond its    *)
(* type, so states that differ only in reply are one state to TLC (VIEW).  *)
(***************************************************************************)
EXTENDS UsageQuota

MCDims == {"modelTokens"}

Tokens(n) == [d \in MCDims |-> n]

MCBudgetDefs ==
    {[org |-> "acme", budget |-> "b1", digest |-> "d1", scope |-> "s1",
      limits |-> Tokens(3), enforcement |-> "HARD", epoch |-> 0, seconds |-> 3,
      warning |-> 5000, ttl |-> 2, retention |-> 1, enabled |-> TRUE]}

Request(key, tokens, ttl) ==
    [org |-> "acme", budget |-> "b1", digest |-> "d1", scope |-> "s1",
     key |-> key, requested |-> Tokens(tokens), ttl |-> ttl]

MCRequests == {Request("k1", 2, 2), Request("k2", 1, 1), Request("k2", 2, 2),
               Request("k3", 1, 2)}

Commit(r, key, tokens) ==
    [org |-> "acme", reservation |-> r, target |-> "COMMITTED", key |-> key,
     observed |-> Tokens(tokens), reason |-> "USAGE_COMMITTED"]

Release(r, key) ==
    [org |-> "acme", reservation |-> r, target |-> "RELEASED", key |-> key,
     observed |-> Tokens(0), reason |-> "CALLER_CANCELLED"]

MCTransitionRequests ==
    {Commit(Request("k1", 2, 2), "k1", 1), Commit(Request("k1", 2, 2), "k2", 2),
     Commit(Request("k2", 2, 2), "k1", 2), Commit(Request("k2", 1, 1), "k2", 2),
     Release(Request("k1", 2, 2), "k1"), Release(Request("k2", 1, 1), "k1")}

MCTimes == 0..4

(***************************************************************************)
(* A smaller instance for what is answered about expired reservations:     *)
(* windows of two instants, lifetimes that would reach past their end.     *)
(***************************************************************************)
ShortWindowDefs ==
    {[org |-> "acme", budget |-> "b1", digest |-> "d1", scope |-> "s1",
      limits |-> Tokens(1), enforcement |-> "HARD", epoch |-> 0, seconds |-> 2,
      warning |-> 5000, ttl |-> 4, retention |-> 1, enabled |-> TRUE]}

ShortTimes == 0..3

LongRequests == {Request("k1", 1, 4), Request("k2", 1, 4)}

LongTransitions ==
    {Commit(Request("k1", 1, 4), "k1", 1), Commit(Request("k2", 1, 4), "k2", 1)}
=============================================================================
