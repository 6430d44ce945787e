------------------------------- MODULE Quota -------------------------------
(***************************************************************************)
(* What the usage ledger promises, without counters, clocks, idempotency   *)
(* keys or logs.  An organization opens accounts with a cap.  A grant is   *)
(* given once, against one window of one of its owner's accounts, and only *)
(* if the window still carries no more than the cap; it is then spent for  *)
(* at most what it was given, or returned.  Spent and returned grants stay *)
(* as they are.                                                            *)
(*                                                                         *)
(* One step belongs to one organization: it may return any of the grants   *)
(* that organization holds (they lapse) and give or spend at most one.     *)
(***************************************************************************)
EXTENDS Naturals, FiniteSets

CONSTANTS
    Owners,     \* organizations
    Accounts,   \* account names of an organization
    Spans,      \* windows
    Measures,   \* dimensions
    Grants,     \* what may be asked for: records with org, budget, requested
    Most,       \* no cap is greater
    Nobody      \* the place of a grant never given

VARIABLES
    caps,       \* (owner, account) -> cap, once opened
    held,       \* grants given and neither spent nor returned
    spent,      \* grants spent
    returned,   \* grants returned
    place,      \* grant -> the (owner, account, window) it counts against
    charge      \* grant -> what it counts there

quotaVars == <<caps, held, spent, returned, place, charge>>

Nothing == [u \in Measures |-> 0]

\* What a window of an account carries of one unit, unit by unit.
Carried(p, u) ==
    Cardinality({x \in Grants \X (1..Most) :
                    place[x[1]] = p /\ x[2] <= charge[x[1]][u]})

WithinCap(p) == \A u \in Measures : Carried(p, u) <= caps[<<p[1], p[2]>>][u]

Start ==
    /\ caps = [a \in {} |-> Nothing]
    /\ held = {} /\ spent = {} /\ returned = {}
    /\ place = [g \in Grants |-> Nobody]
    /\ charge = [g \in Grants |-> Nothing]

\* An account is opened once; its cap is never changed.
Open(a) ==
    /\ a \notin DOMAIN caps
    /\ DOMAIN caps' = DOMAIN caps \cup {a}
    /\ \A b \in DOMAIN caps : caps'[b] = caps[b]
    /\ \A u \in Measures : caps'[a][u] \in 0..Most
    /\ UNCHANGED <<held, spent, returned, place, charge>>

Of(o) == {g \in Grants : g.org = o}

\* Only the grants of `touched` count differently after the step.
OthersKeep(touched) ==
    \A g \in Grants \ touched : place'[g] = place[g] /\ charge'[g] = charge[g]

Lapsed(S) ==
    /\ returned' = returned \cup S
    /\ \A g \in S : place'[g] = place[g] /\ charge'[g] = Nothing

Lapse(o) ==
    \E S \in SUBSET (held \cap Of(o)) :
        /\ held' = held \ S
        /\ Lapsed(S)
        /\ OthersKeep(S)
        /\ UNCHANGED <<caps, spent>>

Give(g) ==
    \E S \in SUBSET (held \cap Of(g.org)) :
        /\ g \notin held \cup spent \cup returned
        /\ <<g.org, g.budget>> \in DOMAIN caps
        /\ held' = (held \ S) \cup {g}
        /\ Lapsed(S)
        /\ place'[g] \in {g.org} \X {g.budget} \X Spans
        /\ charge'[g] = g.requested
        /\ OthersKeep(S \cup {g})
        /\ UNCHANGED <<caps, spent>>
        /\ WithinCap(place[g])'

Spend(g) ==
    \E S \in SUBSET ((held \cap Of(g.org)) \ {g}) :
        /\ g \in held
        /\ held' = held \ (S \cup {g})
        /\ spent' = spent \cup {g}
        /\ Lapsed(S)
        /\ place'[g] = place[g]
        /\ \A u \in Measures : charge'[g][u] <= g.requested[u]
        /\ OthersKeep(S \cup {g})
        /\ UNCHANGED caps

Step ==
    \/ \E a \in Owners \X Accounts : Open(a)
    \/ \E o \in Owners : Lapse(o)
    \/ \E g \in Grants : Give(g) \/ Spend(g)

Quotas == Start /\ [][Step]_quotaVars
=============================================================================
