------------------------- MODULE UsageLedgerProofs -------------------------
(***************************************************************************)
(* The usage ledger, for every set of organizations, budgets, requests and *)
(* instants, in three parts.                                               *)
(*                                                                         *)
(* I.   The counters equal the sums of the rows, and so stay within the    *)
(*      limits of HARD budgets and SAFE_INTEGER_MAX.                       *)
(* II.  What the rows say of each other: the logs agree, a key charges     *)
(*      once, usage is charged to the window it happened in, retention     *)
(*      findings stay true, no internal error is answered, a step touches  *)
(*      one tenant and history only grows.                                 *)
(* III. The ledger implements Quota.                                       *)
(***************************************************************************)
EXTENDS UsageQuota, FiniteSetTheorems, SequenceTheorems, TLAPS

-----------------------------------------------------------------------------
(***************************************************************************)
(* I.  The counters.                                                       *)
(***************************************************************************)

(***************************************************************************)
(* Sums.  Total counts units, so facts about it are facts about finite     *)
(* cardinalities.                                                          *)
(***************************************************************************)

\* A sum over a finite set (the loops of _recomputed) is a natural number.
LEMMA TotalNat ==
    ASSUME NEW S, IsFiniteSet(S), NEW f
    PROVE  IsFiniteSet(Units(S, f)) /\ Total(S, f) \in Nat
<1>1. IsFiniteSet(1..SafeMax)
  BY FS_Interval, SafeMaxAssumption
<1>2. IsFiniteSet(S \X (1..SafeMax))
  BY <1>1, FS_Product
<1>3. Units(S, f) \in SUBSET (S \X (1..SafeMax))
  BY DEF Units
<1>4. IsFiniteSet(Units(S, f))
  BY <1>2, <1>3, FS_Subset
<1> QED
  BY <1>4, FS_CardinalityType DEF Total

\* Leaving out a part of the rows takes their sum away.
LEMMA TotalDifference ==
    ASSUME NEW S, IsFiniteSet(S), NEW T, T \subseteq S, NEW f
    PROVE  Total(S \ T, f) = Total(S, f) - Total(T, f)
<1>1. IsFiniteSet(T)
  BY FS_Subset
<1>2. Units(S \ T, f) = Units(S, f) \ Units(T, f)
  BY DEF Units
<1>3. Units(S, f) \cap Units(T, f) = Units(T, f)
  BY DEF Units
<1>4. Cardinality(Units(S, f) \ Units(T, f))
        = Cardinality(Units(S, f)) - Cardinality(Units(S, f) \cap Units(T, f))
  BY TotalNat, FS_Difference
<1> QED
  BY <1>2, <1>3, <1>4 DEF Total

\* The sum over one row is its amount.
LEMMA TotalSingleton ==
    ASSUME NEW x, NEW f, f[x] \in 0..SafeMax
    PROVE  Total({x}, f) = f[x]
<1>0. PICK n \in 0..SafeMax : n = f[x]
  OBVIOUS
<1>1. Units({x}, f) = {x} \X (1..n)
  BY <1>0, SafeMaxAssumption DEF Units
<1>2. IsFiniteSet(1..n) /\ Cardinality(1..n) = n
  <2>1. n \in Int /\ 1 \in Int /\ n >= 0
    BY SafeMaxAssumption
  <2>2. IsFiniteSet(1..n) /\ Cardinality(1..n) = IF 1 > n THEN 0 ELSE n - 1 + 1
    BY <2>1, FS_Interval
  <2> QED
    BY <2>1, <2>2
<1>3. IsFiniteSet({x}) /\ Cardinality({x}) = 1
  BY FS_Singleton
<1>4. Cardinality({x} \X (1..n)) = 1 * n
  BY <1>2, <1>3, FS_Product
<1>5. 1 * n = n
  BY SafeMaxAssumption
<1> QED
  BY <1>0, <1>1, <1>4, <1>5 DEF Total

\* One row more adds its amount.
LEMMA TotalAdd ==
    ASSUME NEW S, IsFiniteSet(S), NEW x, x \notin S, NEW f, f[x] \in 0..SafeMax
    PROVE  Total(S \cup {x}, f) = Total(S, f) + f[x]
<1>1. IsFiniteSet(S \cup {x})
  BY FS_AddElement
<1>2. Total((S \cup {x}) \ {x}, f) = Total(S \cup {x}, f) - Total({x}, f)
  BY <1>1, TotalDifference
<1>3. (S \cup {x}) \ {x} = S
  OBVIOUS
<1>4. Total(S \cup {x}, f) \in Nat /\ Total(S, f) \in Nat
  BY <1>1, TotalNat
<1>5. Total({x}, f) = f[x]
  BY TotalSingleton
<1>6. PICK n \in 0..SafeMax : n = f[x]
  OBVIOUS
<1>7. Total(S, f) = Total(S \cup {x}, f) - n
  BY <1>2, <1>3, <1>5, <1>6
<1>8. Total(S \cup {x}, f) = Total(S, f) + n
  BY <1>4, <1>7, SafeMaxAssumption
<1> QED
  BY <1>6, <1>8

\* One row less takes its amount away.
LEMMA TotalRemove ==
    ASSUME NEW S, IsFiniteSet(S), NEW x, x \in S, NEW f, f[x] \in 0..SafeMax
    PROVE  Total(S \ {x}, f) = Total(S, f) - f[x]
<1>1. {x} \subseteq S
  OBVIOUS
<1>2. Total(S \ {x}, f) = Total(S, f) - Total({x}, f)
  BY <1>1, TotalDifference
<1>3. Total({x}, f) = f[x]
  BY TotalSingleton
<1> QED
  BY <1>2, <1>3

\* No rows, no sum.
LEMMA TotalEmpty ==
    ASSUME NEW f
    PROVE  Total({}, f) = 0
<1>1. Units({}, f) = {}
  BY DEF Units
<1> QED
  BY <1>1, FS_EmptySet DEF Total

\* Only the amounts of the rows summed matter.
LEMMA TotalCongruence ==
    ASSUME NEW S, NEW f, NEW g, \A x \in S : f[x] = g[x]
    PROVE  Total(S, f) = Total(S, g)
<1>1. Units(S, f) = Units(S, g)
  BY DEF Units
<1> QED
  BY <1>1 DEF Total

-----------------------------------------------------------------------------
(***************************************************************************)
(* The inductive invariant.  The counters equal the sums of the rows only  *)
(* if every row is tied to the others: a reservation has its budget and    *)
(* its idempotency row (so an admitted request is new), and a usage entry  *)
(* belongs to a committed reservation of the same organization (so a       *)
(* commit adds a new entry).                                               *)
(***************************************************************************)
RowsTied ==
    /\ \A x \in DOMAIN budgets : budgets[x].org = x[1] /\ budgets[x].budget = x[2]
    /\ \A r \in DOMAIN reservations :
          /\ <<r.org, r.budget>> \in DOMAIN budgets
          /\ <<r.org, "RESERVE", r.key>> \in DOMAIN idempotency
    /\ \A e \in usage_entries :
          /\ e.request.reservation \in DOMAIN reservations
          /\ reservations[e.request.reservation].state = "COMMITTED"
          /\ e.request.org = e.request.reservation.org
    /\ IsFiniteSet(usage_entries)

Rows == RowsTypeOK /\ RowsTied

Inv == /\ TypeOK
       /\ RowsTied
       /\ Conservation
       /\ HardLimit
       /\ Representable

\* An amount a request asks for is within the safe integers (what
\* normalize_dimensions lets through).
LEMMA RequestedAmount ==
    ASSUME NEW r \in Requests, NEW d \in Dims
    PROVE  RequestedOf(d)[r] = r.requested[d] /\ r.requested[d] \in 0..SafeMax
BY RequestsAssumption DEF RequestedOf, ReserveRequest, Amounts

\* window_at yields one of the windows of the model.
LEMMA WindowAtType ==
    ASSUME NEW b \in BudgetDefs, NEW now \in Times, now >= b.epoch
    PROVE  window_at(b, now) \in Windows
<1>1. <<b, now>> \in {y \in BudgetDefs \X Times : y[2] >= y[1].epoch}
  OBVIOUS
<1> QED
  BY <1>1 DEF Windows

\* The live reservations of a window are finitely many.
LEMMA LiveFinite ==
    ASSUME RowsTypeOK, NEW k
    PROVE  IsFiniteSet(Live(k)) /\ Live(k) \subseteq Requests
<1>1. Live(k) \in SUBSET Requests
  BY DEF Live, RowsTypeOK
<1> QED
  BY <1>1, RequestsAssumption, FS_Subset

\* After _expire_due the reserved counters are the sums over the reservations
\* that are still live.
LEMMA ExpiredReservedSum ==
    ASSUME RowsTypeOK, CountersTypeOK, Conservation,
           NEW o, NEW now, NEW k \in AggregateKeys, NEW d \in Dims
    PROVE  /\ ExpiredReserved(o, now)[k][d] = Total(Live(k) \ Due(o, now), RequestedOf(d))
           /\ ExpiredReserved(o, now)[k][d] \in Nat
           /\ ExpiredReserved(o, now)[k][d] <= reserved[k][d]
<1> DEFINE due == {r \in Due(o, now) : ReservationKey(r) = k}
<1>1. due \subseteq Live(k) /\ Live(k) \ due = Live(k) \ Due(o, now)
  BY DEF Due, Live
<1>2. IsFiniteSet(Live(k)) /\ IsFiniteSet(due) /\ IsFiniteSet(Live(k) \ due)
  BY <1>1, LiveFinite, FS_Subset
<1>3. Total(Live(k) \ due, RequestedOf(d))
        = Total(Live(k), RequestedOf(d)) - Total(due, RequestedOf(d))
  BY <1>1, <1>2, TotalDifference
<1>4. ExpiredReserved(o, now)[k][d] = reserved[k][d] - Total(due, RequestedOf(d))
  BY DEF ExpiredReserved
<1>5. reserved[k][d] = Total(Live(k), RequestedOf(d))
  BY DEF Conservation
<1>6. /\ Total(Live(k) \ due, RequestedOf(d)) \in Nat
      /\ Total(due, RequestedOf(d)) \in Nat
      /\ Total(Live(k), RequestedOf(d)) \in Nat
  BY <1>2, TotalNat
<1> DEFINE all == Total(Live(k), RequestedOf(d))
           gone == Total(due, RequestedOf(d))
<1>7. ExpiredReserved(o, now)[k][d] = all - gone /\ reserved[k][d] = all
  BY <1>4, <1>5
<1>8. Total(Live(k) \ Due(o, now), RequestedOf(d)) = all - gone
  BY <1>1, <1>3
<1>9. all - gone \in Nat /\ all \in Nat /\ gone \in Nat
  BY <1>3, <1>6
<1> HIDE DEF due, all, gone
<1>10. all - gone <= all
  BY <1>9
<1> QED
  BY <1>7, <1>8, <1>9, <1>10

\* The candidate _expire_due builds has the types of the ledger, and expiry
\* changes nothing of a reservation but its state.
LEMMA CandidateTypes ==
    ASSUME RowsTypeOK, NEW o, NEW now \in Times
    PROVE  /\ ExpiredReservations(o, now) \in [DOMAIN reservations -> ReservationRecord]
           /\ ExpiredTransitions(o, now) \in [Requests -> Seq(TransitionRow)]
           /\ ExpiredOutbox(o, now) \in [Requests -> Seq(EventTypes)]
           /\ \A r \in DOMAIN reservations :
                 /\ ExpiredReservations(o, now)[r].window = reservations[r].window
                 /\ ExpiredReservations(o, now)[r].state
                      = IF r \in Due(o, now) THEN "EXPIRED" ELSE reservations[r].state
<1>1. \A r \in DOMAIN reservations : reservations[r] \in ReservationRecord
  BY DEF RowsTypeOK
<1>2. \A r \in DOMAIN reservations :
         [reservations[r] EXCEPT !.state = "EXPIRED"] \in ReservationRecord
  BY <1>1 DEF ReservationRecord, Terminal
<1>3. ExpiredReservations(o, now) \in [DOMAIN reservations -> ReservationRecord]
  BY <1>1, <1>2 DEF ExpiredReservations
<1>4. \A r \in DOMAIN reservations :
         /\ ExpiredReservations(o, now)[r].window = reservations[r].window
         /\ ExpiredReservations(o, now)[r].state
               = IF r \in Due(o, now) THEN "EXPIRED" ELSE reservations[r].state
  BY <1>1 DEF ExpiredReservations, ReservationRecord
<1>5. \A r \in Requests : ExpiryRow(r, now) \in TransitionRow
  <2> SUFFICES ASSUME NEW r \in Requests
               PROVE  ExpiryRow(r, now) \in TransitionRow
    OBVIOUS
  <2>1. ExpiryRow(r, now) = [request |-> ExpiryRow(r, 0).request, at |-> now]
    BY DEF ExpiryRow
  <2> QED
    BY <2>1 DEF TransitionRow
<1>6. ExpiredTransitions(o, now) \in [Requests -> Seq(TransitionRow)]
  <2>1. \A r \in Requests : transitions[r] \in Seq(TransitionRow)
    BY DEF RowsTypeOK
  <2>2. \A r \in Requests : Append(transitions[r], ExpiryRow(r, now)) \in Seq(TransitionRow)
    BY <2>1, <1>5
  <2> QED
    BY <2>1, <2>2 DEF ExpiredTransitions
<1>7. ExpiredOutbox(o, now) \in [Requests -> Seq(EventTypes)]
  <2>1. \A r \in Requests : outbox[r] \in Seq(EventTypes)
    BY DEF RowsTypeOK
  <2>2. \A r \in Requests : Append(outbox[r], "usage.expired.v1") \in Seq(EventTypes)
    BY <2>1 DEF EventTypes
  <2> QED
    BY <2>1, <2>2 DEF ExpiredOutbox
<1> QED
  BY <1>3, <1>4, <1>6, <1>7

\* The reserved counters of the candidate are natural numbers.
LEMMA CandidateCounters ==
    ASSUME RowsTypeOK, CountersTypeOK, Conservation, NEW o, NEW now
    PROVE  ExpiredReserved(o, now) \in [AggregateKeys -> Counters]
<1>1. \A k \in AggregateKeys, d \in Dims : ExpiredReserved(o, now)[k][d] \in Nat
  BY ExpiredReservedSum
<1> QED
  BY <1>1 DEF ExpiredReserved, Counters

\* The committed sums depend on the usage entries alone.
LEMMA CommittedUnchanged ==
    ASSUME Conservation, UNCHANGED <<usage_entries, committed>>,
           NEW k \in AggregateKeys, NEW d \in Dims
    PROVE  committed'[k][d] = Total(Entries(k)', ObservedOf(d)')
<1>1. Entries(k)' = Entries(k) /\ ObservedOf(d)' = ObservedOf(d)
  BY DEF Entries, ObservedOf, EntryKey
<1> QED
  BY <1>1 DEF Conservation

\* Persisting the clock and the expiries (a denial, an evaluation, a
\* reconciliation) keeps the invariant.
LEMMA PersistExpiriesStep ==
    ASSUME Inv, NEW o \in Orgs, NEW now \in Times, PersistExpiries(o, now)
    PROVE  /\ RowsTypeOK' /\ CountersTypeOK' /\ RowsTied'
           /\ Conservation' /\ HardLimit' /\ Representable'
<1> USE DEF PersistExpiries
<1>0. RowsTypeOK /\ CountersTypeOK /\ RowsTied /\ Conservation
  BY DEF Inv, TypeOK
<1>1. RowsTypeOK'
  <2>1. last_clock' \in [Orgs -> Times \cup {Never}]
    BY <1>0 DEF RowsTypeOK, AdvanceClock
  <2>2. DOMAIN reservations' = DOMAIN reservations
    BY DEF ExpiredReservations
  <2> QED
    BY <1>0, <2>1, <2>2, CandidateTypes DEF RowsTypeOK
<1>2. CountersTypeOK'
  BY <1>0, CandidateCounters DEF CountersTypeOK
<1>3. RowsTied'
  <2>1. DOMAIN reservations' = DOMAIN reservations
    BY DEF ExpiredReservations
  <2>2. \A r \in DOMAIN reservations :
           reservations[r].state = "COMMITTED" => reservations'[r].state = "COMMITTED"
    BY <1>0, CandidateTypes DEF Due
  <2> QED
    BY <1>0, <2>1, <2>2 DEF RowsTied
<1>4. ASSUME NEW k \in AggregateKeys
      PROVE  Live(k)' = Live(k) \ Due(o, now)
  <2>1. DOMAIN reservations' = DOMAIN reservations
    BY DEF ExpiredReservations
  <2>2. \A r \in DOMAIN reservations : ReservationKey(r)' = ReservationKey(r)
    BY <1>0, CandidateTypes DEF ReservationKey
  <2> QED
    BY <1>0, <2>1, <2>2, CandidateTypes DEF Live
<1>5. Conservation'
  <2> SUFFICES ASSUME NEW k \in AggregateKeys, NEW d \in Dims
               PROVE  /\ reserved'[k][d] = Total(Live(k)', RequestedOf(d))
                      /\ committed'[k][d] = Total(Entries(k)', ObservedOf(d)')
    BY DEF Conservation, RequestedOf
  <2>1. reserved'[k][d] = Total(Live(k)', RequestedOf(d))
    BY <1>0, <1>4, ExpiredReservedSum
  <2> QED
    BY <1>0, <2>1, CommittedUnchanged
<1>6. ASSUME NEW k \in AggregateKeys, NEW d \in Dims
      PROVE  /\ committed'[k][d] = committed[k][d] /\ committed[k][d] \in Nat
             /\ reserved'[k][d] \in Nat /\ reserved[k][d] \in Nat
             /\ reserved'[k][d] <= reserved[k][d]
  BY <1>0, <1>2, ExpiredReservedSum DEF CountersTypeOK, Counters
<1>7. HardLimit'
  <2> SUFFICES ASSUME NEW k \in AggregateKeys, NEW d \in Dims,
                      <<k[1], k[2]>> \in DOMAIN budgets,
                      budgets[<<k[1], k[2]>>].enforcement = "HARD"
               PROVE  committed'[k][d] + reserved'[k][d]
                        <= budgets[<<k[1], k[2]>>].limits[d]
    BY DEF HardLimit
  <2>1. committed[k][d] + reserved[k][d] <= budgets[<<k[1], k[2]>>].limits[d]
    BY DEF Inv, HardLimit
  <2>2. budgets[<<k[1], k[2]>>].limits[d] \in Int
    BY <1>0, BudgetDefsAssumption, SafeMaxAssumption
    DEF RowsTypeOK, BudgetDefinition, Amounts
  <2> QED
    BY <1>6, <2>1, <2>2
<1>8. Representable'
  BY <1>6, SafeMaxAssumption DEF Inv, Representable
<1> QED
  BY <1>1, <1>2, <1>3, <1>5, <1>7, <1>8

\* A budget that is added (add_budget) meets no charge: its windows are empty.
LEMMA AddBudgetStep ==
    ASSUME Inv, NEW b \in BudgetDefs, <<b.org, b.budget>> \notin DOMAIN budgets,
           budgets' = [x \in DOMAIN budgets \cup {<<b.org, b.budget>>} |->
                          IF x = <<b.org, b.budget>> THEN b ELSE budgets[x]],
           UNCHANGED <<reservations, transitions, usage_entries, committed,
                       reserved, idempotency, outbox, last_clock>>
    PROVE  /\ RowsTypeOK' /\ CountersTypeOK' /\ RowsTied'
           /\ Conservation' /\ HardLimit' /\ Representable'
<1> DEFINE key == <<b.org, b.budget>>
<1>0. RowsTypeOK /\ CountersTypeOK /\ RowsTied /\ Conservation
  BY DEF Inv, TypeOK
<1>1. b.org \in Orgs /\ b.budget \in BudgetIds /\ b.limits \in Amounts
  BY BudgetDefsAssumption DEF BudgetDefinition
<1>2. RowsTypeOK'
  BY <1>0, <1>1 DEF RowsTypeOK
<1>3. CountersTypeOK'
  BY <1>0 DEF CountersTypeOK
<1>4. RowsTied'
  BY <1>0 DEF RowsTied
<1>5. Conservation'
  <2>1. \A k \in AggregateKeys, d \in Dims : Live(k)' = Live(k) /\ Entries(k)' = Entries(k)
                                             /\ ObservedOf(d)' = ObservedOf(d)
    BY DEF Live, ReservationKey, Entries, EntryKey, ObservedOf
  <2> QED
    BY <1>0, <2>1 DEF Conservation, RequestedOf
<1>6. ASSUME NEW k \in AggregateKeys, NEW d \in Dims, <<k[1], k[2]>> = key
      PROVE  committed[k][d] = 0 /\ reserved[k][d] = 0
  <2>1. Live(k) = {}
    <3> SUFFICES ASSUME NEW r \in Live(k) PROVE FALSE
      OBVIOUS
    <3>1. k = <<r.org, r.budget, reservations[r].window>> /\ r \in DOMAIN reservations
      BY DEF Live, ReservationKey
    <3>2. <<k[1], k[2]>> = <<r.org, r.budget>>
      BY <3>1
    <3> QED
      BY <1>0, <1>6, <3>1, <3>2 DEF RowsTied
  <2>2. Entries(k) = {}
    <3> SUFFICES ASSUME NEW e \in Entries(k) PROVE FALSE
      OBVIOUS
    <3>1. /\ e \in usage_entries
          /\ k = <<e.request.org, e.request.reservation.budget, e.window>>
      BY DEF Entries, EntryKey
    <3>2. <<k[1], k[2]>> = <<e.request.org, e.request.reservation.budget>>
      BY <3>1
    <3> QED
      BY <1>0, <1>6, <3>1, <3>2 DEF RowsTied
  <2> QED
    BY <1>0, <2>1, <2>2, TotalEmpty DEF Conservation
<1>7. HardLimit'
  <2> SUFFICES ASSUME NEW k \in AggregateKeys, NEW d \in Dims,
                      <<k[1], k[2]>> \in DOMAIN budgets',
                      budgets'[<<k[1], k[2]>>].enforcement = "HARD"
               PROVE  committed[k][d] + reserved[k][d]
                        <= budgets'[<<k[1], k[2]>>].limits[d]
    BY DEF HardLimit
  <2>1. CASE <<k[1], k[2]>> = key
    <3>1. committed[k][d] + reserved[k][d] = 0
      BY <1>6, <2>1
    <3>2. b.limits[d] \in 0..SafeMax
      BY <1>1 DEF Amounts
    <3>3. budgets'[<<k[1], k[2]>>] = b
      BY <2>1
    <3> QED
      BY <3>1, <3>2, <3>3, SafeMaxAssumption
  <2>2. CASE <<k[1], k[2]>> # key
    BY <2>2 DEF Inv, HardLimit
  <2> QED
    BY <2>1, <2>2
<1>8. Representable'
  BY DEF Inv, Representable
<1> QED
  BY <1>2, <1>3, <1>4, <1>5, <1>7, <1>8

\* What the checks of reserve have established when it admits a request.
LEMMA AdmitFacts ==
    ASSUME NEW q, NEW now, ReserveOutcome(q, now) = "ADMIT"
    PROVE  /\ <<q.org, "RESERVE", q.key>> \notin DOMAIN idempotency
           /\ <<q.org, q.budget>> \in DOMAIN budgets
           /\ ~(now < budgets[<<q.org, q.budget>>].epoch)
           /\ ~Overflows(Projected(q, now))
           /\ budgets[<<q.org, q.budget>>].enforcement = "HARD" =>
                 ~Exceeds(Projected(q, now), budgets[<<q.org, q.budget>>].limits)
BY DEF ReserveOutcome, BudgetRefusal, Opening, ExpiryError

\* The record reserve writes is well typed.
LEMMA NewReservationType ==
    ASSUME RowsTypeOK, NEW q \in Requests, NEW now \in Times,
           <<q.org, q.budget>> \in DOMAIN budgets,
           ~(now < budgets[<<q.org, q.budget>>].epoch)
    PROVE  /\ NewReservation(q, now) \in ReservationRecord
           /\ NewReservation(q, now).state = "RESERVED"
           /\ NewReservation(q, now).window = window_at(budgets[<<q.org, q.budget>>], now)
           /\ <<q.org, q.budget, window_at(budgets[<<q.org, q.budget>>], now)>> \in AggregateKeys
<1> DEFINE b == budgets[<<q.org, q.budget>>]
           w == window_at(b, now)
<1>1. b \in BudgetDefs
  BY DEF RowsTypeOK
<1>2. b.epoch \in Nat /\ b.seconds \in Nat \ {0}
  BY <1>1, BudgetDefsAssumption DEF BudgetDefinition
<1>3. now \in Nat /\ now >= b.epoch
  BY <1>2, TimesAssumption
<1>4. w \in Windows
  BY <1>1, <1>3, WindowAtType
<1>5. w \in Int
  BY <1>2, <1>3 DEF window_at
<1>6. WindowEnd(b, w) \in Int
  <2> HIDE DEF b, w
  <2> QED
    BY <1>2, <1>5 DEF WindowEnd, WindowStart
<1>7. q.ttl \in Int /\ q.org \in Orgs /\ q.budget \in BudgetIds
  BY RequestsAssumption DEF ReserveRequest
<1>8. NewReservation(q, now)
        = [state |-> "RESERVED", window |-> w, created |-> now,
           expires |-> IF now + q.ttl < WindowEnd(b, w)
                       THEN now + q.ttl ELSE WindowEnd(b, w)]
  BY DEF NewReservation
<1>9. <<q.org, q.budget, w>> \in AggregateKeys
  BY <1>4, <1>7 DEF AggregateKeys
<1> HIDE DEF b, w
<1>10. NewReservation(q, now) \in ReservationRecord
  BY <1>3, <1>4, <1>6, <1>7, <1>8 DEF ReservationRecord
<1> QED
  BY <1>8, <1>9, <1>10 DEF b, w

\* reserve, when it admits a request, keeps the invariant.
LEMMA ReserveAdmittedStep ==
    ASSUME Inv, NEW q \in Requests, NEW now \in Times, ReserveAdmitted(q, now)
    PROVE  /\ RowsTypeOK' /\ CountersTypeOK' /\ RowsTied'
           /\ Conservation' /\ HardLimit' /\ Representable'
<1> DEFINE b == budgets[<<q.org, q.budget>>]
           k0 == <<q.org, q.budget, window_at(b, now)>>
           row == <<q.org, "RESERVE", q.key>>
<1>0. RowsTypeOK /\ CountersTypeOK /\ RowsTied /\ Conservation
  BY DEF Inv, TypeOK
<1>1. /\ ReserveOutcome(q, now) = "ADMIT"
      /\ row \notin DOMAIN idempotency
      /\ <<q.org, q.budget>> \in DOMAIN budgets
      /\ ~(now < b.epoch)
      /\ ~Overflows(Projected(q, now))
      /\ b.enforcement = "HARD" => ~Exceeds(Projected(q, now), b.limits)
  <2>1. ReserveOutcome(q, now) = "ADMIT"
    BY DEF ReserveAdmitted
  <2> QED
    BY <2>1, AdmitFacts
<1>2. q \notin DOMAIN reservations
  BY <1>0, <1>1 DEF RowsTied
<1>3. q.org \in Orgs /\ q.budget \in BudgetIds /\ q.key \in Keys
  BY RequestsAssumption DEF ReserveRequest
<1>4. /\ NewReservation(q, now) \in ReservationRecord
      /\ NewReservation(q, now).state = "RESERVED"
      /\ NewReservation(q, now).window = window_at(b, now)
      /\ k0 \in AggregateKeys
  BY <1>0, <1>1, NewReservationType
<1>5. /\ reservations' = [r \in DOMAIN reservations \cup {q} |->
                             IF r = q THEN NewReservation(q, now)
                             ELSE ExpiredReservations(q.org, now)[r]]
      /\ idempotency' = [x \in DOMAIN idempotency \cup {row} |->
                            IF x = row THEN q ELSE idempotency[x]]
      /\ reserved' = [ExpiredReserved(q.org, now) EXCEPT
                         ![k0] = [d \in Dims |-> @[d] + q.requested[d]]]
      /\ transitions' = ExpiredTransitions(q.org, now)
      /\ outbox' = [ExpiredOutbox(q.org, now) EXCEPT
                       ![q] = Append(@, "usage.reserved.v1")]
      /\ last_clock' = [last_clock EXCEPT ![q.org] = now]
      /\ UNCHANGED <<budgets, usage_entries, committed>>
  BY DEF ReserveAdmitted, AdvanceClock, Remembered
<1> HIDE DEF b, k0, row
<1>6. RowsTypeOK'
  <2>1. reservations' \in [DOMAIN reservations \cup {q} -> ReservationRecord]
    BY <1>0, <1>4, <1>5, CandidateTypes
  <2>2. idempotency' \in [DOMAIN idempotency \cup {row} -> Requests \cup TransitionRequests]
    BY <1>0, <1>5 DEF RowsTypeOK
  <2>3. row \in Orgs \X {"RESERVE", "COMMITTED", "RELEASED"} \X Keys
    BY <1>3 DEF row
  <2>4. outbox' \in [Requests -> Seq(EventTypes)]
    <3>1. ExpiredOutbox(q.org, now) \in [Requests -> Seq(EventTypes)]
      BY <1>0, CandidateTypes
    <3>2. Append(ExpiredOutbox(q.org, now)[q], "usage.reserved.v1") \in Seq(EventTypes)
      BY <3>1 DEF EventTypes
    <3> QED
      BY <1>5, <3>1, <3>2
  <2>5. transitions' \in [Requests -> Seq(TransitionRow)]
    BY <1>0, <1>5, CandidateTypes
  <2>6. last_clock' \in [Orgs -> Times \cup {Never}]
    BY <1>0, <1>3, <1>5 DEF RowsTypeOK
  <2> QED
    BY <1>0, <1>5, <2>1, <2>2, <2>3, <2>4, <2>5, <2>6 DEF RowsTypeOK
<1>7. RowsTied'
  <2>1. \A r \in DOMAIN reservations :
           reservations[r].state = "COMMITTED" => reservations'[r].state = "COMMITTED"
    <3>1. \A r \in DOMAIN reservations : reservations'[r] = ExpiredReservations(q.org, now)[r]
      BY <1>2, <1>5
    <3>2. \A r \in Due(q.org, now) : reservations[r].state = "RESERVED"
      BY DEF Due
    <3> QED
      BY <1>0, <3>1, <3>2, CandidateTypes
  <2>2. \A r \in DOMAIN reservations' : r \in DOMAIN reservations \/ r = q
    BY <1>5
  <2>3. DOMAIN reservations \subseteq DOMAIN reservations'
    BY <1>5
  <2>4. row \in DOMAIN idempotency' /\ DOMAIN idempotency \subseteq DOMAIN idempotency'
    BY <1>5
  <2> QED
    BY <1>0, <1>1, <1>5, <2>1, <2>2, <2>3, <2>4 DEF RowsTied, row
<1>8. ASSUME NEW k \in AggregateKeys
      PROVE  Live(k)' = IF k = k0 THEN (Live(k) \ Due(q.org, now)) \cup {q}
                        ELSE Live(k) \ Due(q.org, now)
  <2>1. \A r \in DOMAIN reservations :
           /\ ReservationKey(r)' = ReservationKey(r)
           /\ reservations'[r].state
                 = IF r \in Due(q.org, now) THEN "EXPIRED" ELSE reservations[r].state
    BY <1>0, <1>2, <1>5, CandidateTypes DEF ReservationKey
  <2>2. ReservationKey(q)' = k0 /\ reservations'[q].state = "RESERVED"
    BY <1>4, <1>5 DEF ReservationKey, k0
  <2>3. DOMAIN reservations' = DOMAIN reservations \cup {q}
    BY <1>5
  <2> QED
    BY <2>1, <2>2, <2>3 DEF Live
<1>9. ASSUME NEW k \in AggregateKeys, NEW d \in Dims
      PROVE  /\ ExpiredReserved(q.org, now)[k][d] \in Nat
             /\ q.requested[d] \in 0..SafeMax
             /\ reserved'[k][d] = IF k = k0
                                  THEN ExpiredReserved(q.org, now)[k][d] + q.requested[d]
                                  ELSE ExpiredReserved(q.org, now)[k][d]
  <2>1. ExpiredReserved(q.org, now) \in [AggregateKeys -> Counters]
    BY <1>0, CandidateCounters
  <2>2. reserved'[k] = IF k = k0
                       THEN [e \in Dims |-> ExpiredReserved(q.org, now)[k][e] + q.requested[e]]
                       ELSE ExpiredReserved(q.org, now)[k]
    BY <1>4, <1>5, <2>1
  <2> QED
    BY <2>1, <2>2, RequestedAmount DEF Counters
<1>10. CountersTypeOK'
  <2>1. ExpiredReserved(q.org, now) \in [AggregateKeys -> Counters]
    BY <1>0, CandidateCounters
  <2>2. [d \in Dims |-> ExpiredReserved(q.org, now)[k0][d] + q.requested[d]] \in Counters
    BY <1>4, <1>9, SafeMaxAssumption DEF Counters
  <2> QED
    BY <1>0, <1>5, <2>1, <2>2 DEF CountersTypeOK
<1>11. Conservation'
  <2> SUFFICES ASSUME NEW k \in AggregateKeys, NEW d \in Dims
               PROVE  /\ reserved'[k][d] = Total(Live(k)', RequestedOf(d))
                      /\ committed'[k][d] = Total(Entries(k)', ObservedOf(d)')
    BY DEF Conservation, RequestedOf
  <2>1. IsFiniteSet(Live(k) \ Due(q.org, now)) /\ q \notin Live(k) \ Due(q.org, now)
    BY <1>0, <1>2, LiveFinite, FS_Subset DEF Live
  <2>2. ExpiredReserved(q.org, now)[k][d] = Total(Live(k) \ Due(q.org, now), RequestedOf(d))
    BY <1>0, ExpiredReservedSum
  <2>3. Total((Live(k) \ Due(q.org, now)) \cup {q}, RequestedOf(d))
          = Total(Live(k) \ Due(q.org, now), RequestedOf(d)) + q.requested[d]
    <3>1. RequestedOf(d)[q] = q.requested[d] /\ RequestedOf(d)[q] \in 0..SafeMax
      BY RequestedAmount
    <3>2. Total((Live(k) \ Due(q.org, now)) \cup {q}, RequestedOf(d))
            = Total(Live(k) \ Due(q.org, now), RequestedOf(d)) + RequestedOf(d)[q]
      BY <2>1, <3>1, TotalAdd
    <3> QED
      BY <3>1, <3>2
  <2>4. reserved'[k][d] = Total(Live(k)', RequestedOf(d))
    BY <1>8, <1>9, <2>2, <2>3
  <2> QED
    BY <1>0, <1>5, <2>4, CommittedUnchanged
<1>12. ASSUME NEW k \in AggregateKeys, NEW d \in Dims
       PROVE  /\ committed'[k][d] = committed[k][d] /\ committed[k][d] \in Nat
              /\ reserved'[k][d] \in Nat /\ reserved[k][d] \in Nat
              /\ k # k0 => reserved'[k][d] <= reserved[k][d]
              /\ k = k0 => committed[k][d] + reserved'[k][d] = Projected(q, now)[d]
  <2>1. committed'[k][d] = committed[k][d] /\ committed[k][d] \in Nat
        /\ reserved'[k][d] \in Nat /\ reserved[k][d] \in Nat
    BY <1>0, <1>5, <1>10 DEF CountersTypeOK, Counters
  <2>2. k # k0 => reserved'[k][d] <= reserved[k][d]
    <3>1. ExpiredReserved(q.org, now)[k][d] <= reserved[k][d]
      BY <1>0, ExpiredReservedSum
    <3> QED
      BY <1>9, <3>1
  <2>3. Projected(q, now)[d] = committed[k0][d] + ExpiredReserved(q.org, now)[k0][d]
                                 + q.requested[d]
    BY DEF Projected, b, k0
  <2>4. k = k0 => committed[k][d] + reserved'[k][d] = Projected(q, now)[d]
    BY <1>9, <2>1, <2>3, SafeMaxAssumption
  <2> QED
    BY <2>1, <2>2, <2>4
<1>13. HardLimit'
  <2> SUFFICES ASSUME NEW k \in AggregateKeys, NEW d \in Dims,
                      <<k[1], k[2]>> \in DOMAIN budgets,
                      budgets[<<k[1], k[2]>>].enforcement = "HARD"
               PROVE  committed'[k][d] + reserved'[k][d]
                        <= budgets[<<k[1], k[2]>>].limits[d]
    BY <1>5 DEF HardLimit
  <2>2. budgets[<<k[1], k[2]>>].limits[d] \in Int
    BY <1>0, BudgetDefsAssumption, SafeMaxAssumption
    DEF RowsTypeOK, BudgetDefinition, Amounts
  <2>3. CASE k = k0
    <3>1. budgets[<<k[1], k[2]>>] = b
      BY <2>3 DEF b, k0
    <3>2. ~(Projected(q, now)[d] > b.limits[d])
      BY <1>1, <3>1 DEF Exceeds
    <3> QED
      BY <1>12, <2>2, <2>3, <3>1, <3>2
  <2>4. CASE k # k0
    <3>1. committed[k][d] + reserved[k][d] <= budgets[<<k[1], k[2]>>].limits[d]
      BY DEF Inv, HardLimit
    <3> QED
      BY <1>12, <2>2, <2>4, <3>1
  <2> QED
    BY <2>3, <2>4
<1>14. Representable'
  <2> SUFFICES ASSUME NEW k \in AggregateKeys, NEW d \in Dims
               PROVE  committed'[k][d] + reserved'[k][d] <= SafeMax
    BY DEF Representable
  <2>1. CASE k = k0
    <3>1. ~(Projected(q, now)[d] > SafeMax)
      BY <1>1 DEF Overflows
    <3> QED
      BY <1>12, <2>1, <3>1, SafeMaxAssumption
  <2>2. CASE k # k0
    <3>1. committed[k][d] + reserved[k][d] <= SafeMax
      BY DEF Inv, Representable
    <3> QED
      BY <1>12, <2>2, <3>1, SafeMaxAssumption
  <2> QED
    BY <2>1, <2>2
<1> QED
  BY <1>6, <1>7, <1>10, <1>11, <1>13, <1>14

\* What the checks of _transition have established when it applies a request.
LEMMA ApplyFacts ==
    ASSUME NEW t, NEW now, TransitionOutcome(t, now) = "APPLY"
    PROVE  /\ t.reservation \in DOMAIN reservations
           /\ t.reservation.org = t.org
           /\ ExpiredReservations(t.org, now)[t.reservation].state # "EXPIRED"
           /\ reservations[t.reservation].state = "RESERVED"
           /\ t.target = "COMMITTED" => ~Exceeds(t.observed, t.reservation.requested)
BY DEF TransitionOutcome, Opening, ExpiryError

\* One usage entry more adds what it observed to the sum of its window, and to
\* no other sum.
LEMMA EntryAdded ==
    ASSUME Rows, Conservation, NEW e0, e0 \notin usage_entries,
           usage_entries' = usage_entries \cup {e0},
           NEW k \in AggregateKeys, NEW d \in Dims,
           e0.request.observed[d] \in 0..SafeMax
    PROVE  Total(Entries(k)', ObservedOf(d)')
             = IF EntryKey(e0) = k THEN committed[k][d] + e0.request.observed[d]
               ELSE committed[k][d]
<1>1. Entries(k) \in SUBSET usage_entries /\ e0 \notin Entries(k)
  BY DEF Entries
<1>2. IsFiniteSet(Entries(k))
  BY <1>1, FS_Subset DEF Rows, RowsTied
<1>3. \A e \in Entries(k) : ObservedOf(d)'[e] = ObservedOf(d)[e]
  BY <1>1 DEF ObservedOf
<1>4. ObservedOf(d)'[e0] = e0.request.observed[d]
  BY DEF ObservedOf
<1>5. Total(Entries(k), ObservedOf(d)') = committed[k][d]
  BY <1>3, TotalCongruence DEF Conservation
<1>6. CASE EntryKey(e0) = k
  <2>1. Entries(k)' = Entries(k) \cup {e0}
    BY <1>6 DEF Entries, EntryKey
  <2>2. ObservedOf(d)'[e0] \in 0..SafeMax
    BY <1>4
  <2>3. Total(Entries(k) \cup {e0}, ObservedOf(d)')
          = Total(Entries(k), ObservedOf(d)') + ObservedOf(d)'[e0]
    BY <1>1, <1>2, <2>2, TotalAdd
  <2> QED
    BY <1>4, <1>5, <1>6, <2>1, <2>3
<1>7. CASE EntryKey(e0) # k
  <2>1. Entries(k)' = Entries(k)
    BY <1>7 DEF Entries, EntryKey
  <2> QED
    BY <1>5, <1>7, <2>1
<1> QED
  BY <1>6, <1>7

\* commit and release, when they apply, keep the invariant: a commit moves no
\* more from reserved to committed than it takes out of reserved.
LEMMA TransitionAppliedStep ==
    ASSUME Inv, NEW t \in TransitionRequests, NEW now \in Times, TransitionApplied(t, now)
    PROVE  /\ RowsTypeOK' /\ CountersTypeOK' /\ RowsTied'
           /\ Conservation' /\ HardLimit' /\ Representable'
<1> DEFINE r == t.reservation
           k0 == ReservationKey(r)
           row == <<t.org, t.target, t.key>>
           e0 == [request |-> t, window |-> reservations[r].window, at |-> now]
           o == t.org
<1>0. RowsTypeOK /\ CountersTypeOK /\ RowsTied /\ Conservation
  BY DEF Inv, TypeOK
<1>1. /\ r \in DOMAIN reservations /\ r.org = o
      /\ ExpiredReservations(o, now)[r].state # "EXPIRED"
      /\ reservations[r].state = "RESERVED"
      /\ t.target = "COMMITTED" => ~Exceeds(t.observed, r.requested)
  <2>1. TransitionOutcome(t, now) = "APPLY"
    BY DEF TransitionApplied
  <2> QED
    BY <2>1, ApplyFacts
<1>2. /\ t.org \in Orgs /\ t.key \in Keys /\ t.target \in {"COMMITTED", "RELEASED"}
      /\ t.observed \in Amounts /\ r \in Requests
      /\ r.org \in Orgs /\ r.budget \in BudgetIds
  BY TransitionRequestsAssumption, RequestsAssumption DEF TransitionRequest, ReserveRequest
<1>3. reservations[r] \in ReservationRecord /\ reservations[r].window \in Windows
  BY <1>0, <1>1 DEF RowsTypeOK, ReservationRecord
<1>4. k0 \in AggregateKeys /\ k0 = <<r.org, r.budget, reservations[r].window>>
  BY <1>2, <1>3 DEF ReservationKey, AggregateKeys
<1>5. /\ reservations' = [ExpiredReservations(o, now) EXCEPT ![r].state = t.target]
      /\ transitions' = [ExpiredTransitions(o, now) EXCEPT
                            ![r] = Append(@, [request |-> t, at |-> now])]
      /\ idempotency' = [x \in DOMAIN idempotency \cup {row} |->
                            IF x = row THEN t ELSE idempotency[x]]
      /\ reserved' = [ExpiredReserved(o, now) EXCEPT
                         ![k0] = [d \in Dims |-> @[d] - r.requested[d]]]
      /\ last_clock' = [last_clock EXCEPT ![o] = now]
      /\ budgets' = budgets
  BY DEF TransitionApplied, AdvanceClock, Remembered
<1>6. \/ /\ t.target = "COMMITTED"
         /\ committed' = [committed EXCEPT ![k0] = [d \in Dims |-> @[d] + t.observed[d]]]
         /\ usage_entries' = usage_entries \cup {e0}
         /\ outbox' = [ExpiredOutbox(o, now) EXCEPT ![r] = Append(@, "usage.committed.v1")]
      \/ /\ t.target = "RELEASED"
         /\ outbox' = [ExpiredOutbox(o, now) EXCEPT ![r] = Append(@, "usage.released.v1")]
         /\ UNCHANGED <<committed, usage_entries>>
  BY DEF TransitionApplied
<1>7. r \notin Due(o, now)
  BY <1>0, <1>1, CandidateTypes
<1>8. e0 \notin usage_entries /\ e0 \in UsageEntry
  <2>1. e0.request.reservation = r
    OBVIOUS
  <2> QED
    BY <1>0, <1>1, <1>3, <2>1 DEF RowsTied, UsageEntry
<1>9. e0.request = t /\ EntryKey(e0) = k0
  BY <1>1, <1>4 DEF EntryKey
<1> HIDE DEF k0, row, e0, o, r
<1>10. /\ ExpiredReservations(o, now) \in [DOMAIN reservations -> ReservationRecord]
       /\ DOMAIN reservations' = DOMAIN reservations
       /\ \A x \in DOMAIN reservations :
             /\ reservations'[x] \in ReservationRecord
             /\ reservations'[x].window = reservations[x].window
             /\ reservations'[x].state
                  = IF x = r THEN t.target
                    ELSE IF x \in Due(o, now) THEN "EXPIRED" ELSE reservations[x].state
  <2>1. ExpiredReservations(o, now) \in [DOMAIN reservations -> ReservationRecord]
    BY <1>0, CandidateTypes
  <2>2. \A x \in DOMAIN reservations :
           reservations'[x] = IF x = r THEN [ExpiredReservations(o, now)[x] EXCEPT !.state = t.target]
                              ELSE ExpiredReservations(o, now)[x]
    BY <1>5, <2>1
  <2>3. \A x \in DOMAIN reservations : ExpiredReservations(o, now)[x] \in ReservationRecord
    BY <2>1
  <2>4. \A x \in DOMAIN reservations :
           /\ reservations'[x] \in ReservationRecord
           /\ reservations'[x].window = ExpiredReservations(o, now)[x].window
           /\ reservations'[x].state = IF x = r THEN t.target
                                       ELSE ExpiredReservations(o, now)[x].state
    BY <1>2, <2>2, <2>3 DEF ReservationRecord, Terminal
  <2>5. DOMAIN reservations' = DOMAIN reservations
    BY <1>5, <2>1
  <2> QED
    BY <1>0, <2>1, <2>4, <2>5, CandidateTypes
<1>11. RowsTypeOK'
  <2>1. reservations' \in [DOMAIN reservations -> ReservationRecord]
    <3>1. reservations' = [x \in DOMAIN reservations |-> reservations'[x]]
      BY <1>5, <1>10
    <3> QED
      BY <1>10, <3>1
  <2>2. idempotency' \in [DOMAIN idempotency \cup {row} -> Requests \cup TransitionRequests]
    BY <1>0, <1>5 DEF RowsTypeOK
  <2>3. row \in Orgs \X {"RESERVE", "COMMITTED", "RELEASED"} \X Keys
    BY <1>2 DEF row
  <2>4. outbox' \in [Requests -> Seq(EventTypes)]
    <3>1. ExpiredOutbox(o, now) \in [Requests -> Seq(EventTypes)]
      BY <1>0, CandidateTypes
    <3>2. /\ Append(ExpiredOutbox(o, now)[r], "usage.committed.v1") \in Seq(EventTypes)
          /\ Append(ExpiredOutbox(o, now)[r], "usage.released.v1") \in Seq(EventTypes)
      BY <1>2, <3>1 DEF EventTypes
    <3> QED
      BY <1>6, <3>1, <3>2
  <2>5. transitions' \in [Requests -> Seq(TransitionRow)]
    <3>1. ExpiredTransitions(o, now) \in [Requests -> Seq(TransitionRow)]
      BY <1>0, CandidateTypes
    <3>2. [request |-> t, at |-> now] \in TransitionRow
      BY DEF TransitionRow
    <3>3. Append(ExpiredTransitions(o, now)[r], [request |-> t, at |-> now])
             \in Seq(TransitionRow)
      BY <1>2, <3>1, <3>2
    <3> QED
      BY <1>5, <3>1, <3>3
  <2>6. last_clock' \in [Orgs -> Times \cup {Never}]
    BY <1>0, <1>2, <1>5 DEF RowsTypeOK
  <2>7. usage_entries' \subseteq UsageEntry
    BY <1>0, <1>6, <1>8 DEF RowsTypeOK
  <2> QED
    BY <1>0, <1>5, <1>10, <2>1, <2>2, <2>3, <2>4, <2>5, <2>6, <2>7 DEF RowsTypeOK
<1>12. RowsTied'
  <2>1. \A x \in DOMAIN reservations :
           reservations[x].state = "COMMITTED" => reservations'[x].state = "COMMITTED"
    <3>1. \A x \in Due(o, now) : reservations[x].state = "RESERVED"
      BY DEF Due
    <3> QED
      BY <1>1, <1>10, <3>1
  <2>2. \A e \in usage_entries' : e \in usage_entries \/ (e = e0 /\ t.target = "COMMITTED")
    BY <1>6
  <2>3. /\ e0.request.reservation = r /\ r \in DOMAIN reservations
        /\ e0.request.org = r.org /\ reservations'[r].state = t.target
    BY <1>1, <1>9, <1>10 DEF r, o
  <2>4. IsFiniteSet(usage_entries')
    BY <1>0, <1>6, FS_AddElement DEF RowsTied
  <2>5. DOMAIN idempotency \subseteq DOMAIN idempotency'
    BY <1>5
  <2>6. \A e \in usage_entries' :
           /\ e.request.reservation \in DOMAIN reservations'
           /\ reservations'[e.request.reservation].state = "COMMITTED"
           /\ e.request.org = e.request.reservation.org
    BY <1>0, <1>10, <2>1, <2>2, <2>3 DEF RowsTied
  <2> QED
    BY <1>0, <1>5, <1>10, <2>4, <2>5, <2>6 DEF RowsTied
<1>13. ASSUME NEW k \in AggregateKeys
       PROVE  Live(k)' = IF k = k0 THEN (Live(k) \ Due(o, now)) \ {r}
                         ELSE Live(k) \ Due(o, now)
  <2>1. \A x \in DOMAIN reservations : ReservationKey(x)' = ReservationKey(x)
    BY <1>10 DEF ReservationKey
  <2>2. t.target # "RESERVED"
    BY <1>2
  <2>3. \A x : x \in Live(k)' <=> x \in Live(k) /\ x \notin Due(o, now) /\ x # r
    BY <1>10, <2>1, <2>2 DEF Live
  <2>4. k # k0 => r \notin Live(k)
    BY DEF Live, k0
  <2> QED
    BY <2>3, <2>4
<1>14. r \in Live(k0) \ Due(o, now)
  BY <1>1, <1>7 DEF Live, k0, r, o
<1>15. ASSUME NEW d \in Dims
       PROVE  /\ r.requested[d] \in 0..SafeMax /\ RequestedOf(d)[r] = r.requested[d]
              /\ t.observed[d] \in 0..SafeMax
              /\ t.target = "COMMITTED" => ~(t.observed[d] > r.requested[d])
  BY <1>1, <1>2, RequestedAmount DEF Amounts, Exceeds
<1>16. ASSUME NEW k \in AggregateKeys, NEW d \in Dims
       PROVE  /\ ExpiredReserved(o, now)[k][d] \in Nat
              /\ reserved'[k][d] = IF k = k0
                                   THEN ExpiredReserved(o, now)[k][d] - r.requested[d]
                                   ELSE ExpiredReserved(o, now)[k][d]
              /\ reserved'[k][d] = Total(Live(k)', RequestedOf(d))
              /\ reserved'[k][d] \in Nat
  <2>1. ExpiredReserved(o, now) \in [AggregateKeys -> Counters]
    BY <1>0, CandidateCounters
  <2>2. reserved'[k] = IF k = k0
                       THEN [e \in Dims |-> ExpiredReserved(o, now)[k][e] - r.requested[e]]
                       ELSE ExpiredReserved(o, now)[k]
    BY <1>4, <1>5, <2>1
  <2>3. reserved'[k][d] = IF k = k0
                          THEN ExpiredReserved(o, now)[k][d] - r.requested[d]
                          ELSE ExpiredReserved(o, now)[k][d]
    BY <2>2
  <2>4. ExpiredReserved(o, now)[k][d] = Total(Live(k) \ Due(o, now), RequestedOf(d))
    BY <1>0, ExpiredReservedSum
  <2>5. IsFiniteSet(Live(k) \ Due(o, now)) /\ IsFiniteSet((Live(k) \ Due(o, now)) \ {r})
    BY <1>0, LiveFinite, FS_Subset
  <2>6. k = k0 => Total((Live(k) \ Due(o, now)) \ {r}, RequestedOf(d))
                    = Total(Live(k) \ Due(o, now), RequestedOf(d)) - RequestedOf(d)[r]
    BY <1>14, <1>15, <2>5, TotalRemove
  <2>7. reserved'[k][d] = Total(Live(k)', RequestedOf(d))
    BY <1>13, <1>15, <2>3, <2>4, <2>6
  <2>8. Total(Live(k)', RequestedOf(d)) \in Nat
    BY <1>13, <2>5, TotalNat
  <2> QED
    BY <1>0, <2>3, <2>7, <2>8, ExpiredReservedSum
<1>17. ASSUME NEW k \in AggregateKeys, NEW d \in Dims
       PROVE  /\ committed'[k][d] = Total(Entries(k)', ObservedOf(d)')
              /\ committed'[k][d]
                   = IF k = k0 /\ t.target = "COMMITTED"
                     THEN committed[k][d] + t.observed[d] ELSE committed[k][d]
  <2>1. CASE t.target = "COMMITTED"
    <3>1. Total(Entries(k)', ObservedOf(d)')
            = IF k0 = k THEN committed[k][d] + t.observed[d] ELSE committed[k][d]
      BY <1>0, <1>6, <1>8, <1>9, <1>15, <2>1, EntryAdded DEF Rows
    <3>2. committed'[k] = IF k = k0 THEN [e \in Dims |-> committed[k][e] + t.observed[e]]
                          ELSE committed[k]
      BY <1>0, <1>4, <1>6, <2>1 DEF CountersTypeOK
    <3> QED
      BY <2>1, <3>1, <3>2
  <2>2. CASE t.target = "RELEASED"
    BY <1>0, <1>6, <2>2, CommittedUnchanged
  <2> QED
    BY <1>2, <2>1, <2>2
<1>18. Conservation'
  BY <1>16, <1>17 DEF Conservation, RequestedOf
<1>19. ASSUME NEW k \in AggregateKeys, NEW d \in Dims
       PROVE  committed[k][d] \in Nat /\ reserved[k][d] \in Nat
  BY <1>0 DEF CountersTypeOK, Counters
<1>20. CountersTypeOK'
  <2>1. \A k \in AggregateKeys, d \in Dims : reserved'[k][d] \in Nat /\ committed'[k][d] \in Nat
    BY <1>15, <1>16, <1>17, <1>19, SafeMaxAssumption
  <2>2. reserved' \in [AggregateKeys -> [Dims -> Int]]
    <3>1. ExpiredReserved(o, now) \in [AggregateKeys -> Counters]
      BY <1>0, CandidateCounters
    <3>2. [d \in Dims |-> ExpiredReserved(o, now)[k0][d] - r.requested[d]] \in [Dims -> Int]
      BY <1>4, <1>15, <1>16, SafeMaxAssumption
    <3>3. ExpiredReserved(o, now) \in [AggregateKeys -> [Dims -> Int]]
      BY <3>1 DEF Counters
    <3> QED
      BY <1>5, <3>2, <3>3
  <2>3. committed' \in [AggregateKeys -> [Dims -> Int]]
    <3>1. committed \in [AggregateKeys -> [Dims -> Int]]
      BY <1>0 DEF CountersTypeOK, Counters
    <3>2. [d \in Dims |-> committed[k0][d] + t.observed[d]] \in [Dims -> Int]
      BY <1>4, <1>15, <1>19, SafeMaxAssumption
    <3> QED
      BY <1>6, <3>1, <3>2
  <2> QED
    BY <2>1, <2>2, <2>3 DEF CountersTypeOK, Counters
<1>21. ASSUME NEW k \in AggregateKeys, NEW d \in Dims
       PROVE  committed'[k][d] + reserved'[k][d] <= committed[k][d] + reserved[k][d]
  <2>1. ExpiredReserved(o, now)[k][d] <= reserved[k][d]
    BY <1>0, ExpiredReservedSum
  <2> QED
    BY <1>15, <1>16, <1>17, <1>19, <2>1, SafeMaxAssumption
<1>22. HardLimit'
  <2> SUFFICES ASSUME NEW k \in AggregateKeys, NEW d \in Dims,
                      <<k[1], k[2]>> \in DOMAIN budgets,
                      budgets[<<k[1], k[2]>>].enforcement = "HARD"
               PROVE  committed'[k][d] + reserved'[k][d]
                        <= budgets[<<k[1], k[2]>>].limits[d]
    BY <1>5 DEF HardLimit
  <2>1. committed[k][d] + reserved[k][d] <= budgets[<<k[1], k[2]>>].limits[d]
    BY DEF Inv, HardLimit
  <2>2. budgets[<<k[1], k[2]>>].limits[d] \in Int
    BY <1>0, BudgetDefsAssumption, SafeMaxAssumption
    DEF RowsTypeOK, BudgetDefinition, Amounts
  <2>3. committed'[k][d] \in Nat /\ reserved'[k][d] \in Nat
    BY <1>20 DEF CountersTypeOK, Counters
  <2> QED
    BY <1>19, <1>21, <2>1, <2>2, <2>3
<1>23. Representable'
  <2> SUFFICES ASSUME NEW k \in AggregateKeys, NEW d \in Dims
               PROVE  committed'[k][d] + reserved'[k][d] <= SafeMax
    BY DEF Representable
  <2>1. committed[k][d] + reserved[k][d] <= SafeMax
    BY DEF Inv, Representable
  <2>2. committed'[k][d] \in Nat /\ reserved'[k][d] \in Nat
    BY <1>20 DEF CountersTypeOK, Counters
  <2> QED
    BY <1>19, <1>21, <2>1, <2>2, SafeMaxAssumption
<1> QED
  BY <1>11, <1>12, <1>18, <1>20, <1>22, <1>23

-----------------------------------------------------------------------------
\* An empty ledger satisfies the invariant.
LEMMA InitInv == Init => Inv
<1> SUFFICES ASSUME Init PROVE Inv
  OBVIOUS
<1> USE DEF Init
<1>1. Zero \in Counters
  BY DEF Zero, Counters
<1>2. RowsTypeOK
  BY DEF RowsTypeOK, Never
<1>3. CountersTypeOK
  BY <1>1 DEF CountersTypeOK
<1>4. TypeOK
  BY <1>2, <1>3 DEF TypeOK
<1>5. RowsTied
  BY FS_EmptySet DEF RowsTied
<1>6. \A k \in AggregateKeys, d \in Dims : committed[k][d] = 0 /\ reserved[k][d] = 0
  BY DEF Zero
<1>7. Conservation
  <2>1. \A k \in AggregateKeys : Live(k) = {} /\ Entries(k) = {}
    BY DEF Live, Entries
  <2> QED
    BY <1>6, <2>1, TotalEmpty DEF Conservation
<1>8. HardLimit
  BY DEF HardLimit
<1>9. Representable
  BY <1>6, SafeMaxAssumption DEF Representable
<1> QED
  BY <1>4, <1>5, <1>7, <1>8, <1>9 DEF Inv

\* Anything that leaves the tables alone (an exception, a replay, a read)
\* keeps them sound.
LEMMA UnchangedStep ==
    ASSUME Inv, UNCHANGED <<budgets, reservations, transitions, usage_entries,
                            committed, reserved, idempotency, outbox>>,
           last_clock' \in [Orgs -> Times \cup {Never}]
    PROVE  /\ RowsTypeOK' /\ CountersTypeOK' /\ RowsTied'
           /\ Conservation' /\ HardLimit' /\ Representable'
<1>1. RowsTypeOK' /\ CountersTypeOK' /\ RowsTied'
  BY DEF Inv, TypeOK, RowsTypeOK, CountersTypeOK, RowsTied
<1>2. Conservation'
  <2>1. \A k \in AggregateKeys, d \in Dims : Live(k)' = Live(k) /\ Entries(k)' = Entries(k)
                                             /\ ObservedOf(d)' = ObservedOf(d)
    BY DEF Live, ReservationKey, Entries, EntryKey, ObservedOf
  <2> QED
    BY <2>1 DEF Inv, Conservation, RequestedOf
<1>3. HardLimit' /\ Representable'
  BY DEF Inv, HardLimit, Representable
<1> QED
  BY <1>1, <1>2, <1>3

\* _mark_reconciled writes a status.
LEMMA MarkType ==
    ASSUME TypeOK, NEW touched, mark_reconciled(touched)
    PROVE  reconciled' \in [AggregateKeys -> {"NONE", "MATCH", "MISMATCH"}]
BY DEF mark_reconciled, Status, TypeOK

\* Every operation of the ledger keeps the invariant.
LEMMA NextInv == Inv /\ [Next]_vars => Inv'
<1> DEFINE Core == /\ RowsTypeOK /\ CountersTypeOK /\ RowsTied
                   /\ Conservation /\ HardLimit /\ Representable
           Rest == /\ denials \subseteq [request: Requests, reason: AuditedDenials]
                   /\ reconciled \in [AggregateKeys -> {"NONE", "MATCH", "MISMATCH"}]
                   /\ reply.id \in Requests \cup {None}
<1>0. Inv <=> Core /\ Rest
  BY DEF Inv, TypeOK
<1>00. Inv' <=> Core' /\ Rest'
  BY DEF Inv, TypeOK
<1> SUFFICES ASSUME Inv, [Next]_vars
             PROVE  Core' /\ Rest'
  BY <1>00
<1>01. TypeOK /\ Rest /\ last_clock \in [Orgs -> Times \cup {Never}]
  BY DEF Inv, TypeOK, RowsTypeOK
<1>1. ASSUME UNCHANGED ledgerVars, reply'.id \in Requests \cup {None}
      PROVE  Core' /\ Rest'
  <2>1. Core'
    BY <1>1, <1>01, UnchangedStep DEF ledgerVars
  <2>2. Rest'
    BY <1>1, <1>01 DEF ledgerVars
  <2> QED
    BY <2>1, <2>2
<1>2. CASE UNCHANGED vars
  BY <1>1, <1>2, <1>01 DEF vars
<1>3. ASSUME NEW b \in BudgetDefs, AddBudget(b)
      PROVE  Core' /\ Rest'
  <2>1. CASE <<b.org, b.budget>> \in DOMAIN budgets
    BY <1>1, <1>3, <2>1 DEF AddBudget, Refuse, Answer
  <2>2. CASE <<b.org, b.budget>> \notin DOMAIN budgets
    <3>0. CASE Refuse(b.org, "add_budget", "STORE_COMMIT_FAILED", None)
      BY <1>1, <3>0 DEF Refuse, Answer
    <3>1. CASE ~Refuse(b.org, "add_budget", "STORE_COMMIT_FAILED", None)
      <4>1. Core'
        BY <1>3, <2>2, <3>1, AddBudgetStep DEF AddBudget
      <4>2. Rest'
        BY <1>3, <2>2, <3>1, <1>01 DEF AddBudget, Answer
      <4> QED
        BY <4>1, <4>2
    <3> QED
      BY <3>0, <3>1
  <2> QED
    BY <2>1, <2>2
<1>4. ASSUME NEW q \in Requests, NEW now \in Times, ReserveRefused(q, now)
      PROVE  Core' /\ Rest'
  <2>1. UNCHANGED ledgerVars /\ reply'.id \in Requests \cup {None}
    BY <1>4 DEF ReserveRefused, Refuse, Answer
  <2> QED
    BY <1>1, <2>1
<1>5. ASSUME NEW q \in Requests, NEW now \in Times, ReserveDenied(q, now)
      PROVE  Core' /\ Rest'
  <2>1. q.org \in Orgs
    BY RequestsAssumption DEF ReserveRequest
  <2>2. Core'
    BY <1>5, <2>1, PersistExpiriesStep DEF ReserveDenied
  <2>3. reconciled' \in [AggregateKeys -> {"NONE", "MATCH", "MISMATCH"}]
    BY <1>5, <1>01, MarkType DEF ReserveDenied
  <2>4. Rest'
    BY <1>5, <1>01, <2>3 DEF ReserveDenied, Answer
  <2> QED
    BY <2>2, <2>4
<1>6. ASSUME NEW q \in Requests, NEW now \in Times, ReserveAdmitted(q, now)
      PROVE  Core' /\ Rest'
  <2>1. Core'
    BY <1>6, ReserveAdmittedStep
  <2>2. \E touched : mark_reconciled(touched)
    BY <1>6 DEF ReserveAdmitted
  <2>3. reconciled' \in [AggregateKeys -> {"NONE", "MATCH", "MISMATCH"}]
    BY <2>2, <1>01, MarkType
  <2>4. Rest'
    BY <1>6, <1>01, <2>3 DEF ReserveAdmitted, Answer
  <2> QED
    BY <2>1, <2>4
<1>7. ASSUME NEW q \in Requests, NEW now \in Times, EvaluateRefused(q, now)
      PROVE  Core' /\ Rest'
  BY <1>1, <1>7 DEF EvaluateRefused, Refuse, Answer
<1>8. ASSUME NEW q \in Requests, NEW now \in Times, Evaluated(q, now)
      PROVE  Core' /\ Rest'
  <2>1. reply'.id \in Requests \cup {None}
    BY <1>8 DEF Evaluated, Answer
  <2>2. CASE UNCHANGED ledgerVars
    BY <1>1, <2>1, <2>2
  <2>3. CASE ~UNCHANGED ledgerVars
    <3>1. /\ PersistExpiries(q.org, now)
          /\ \E touched : mark_reconciled(touched)
          /\ denials' = denials
      BY <1>8, <2>3 DEF Evaluated
    <3>2. q.org \in Orgs
      BY RequestsAssumption DEF ReserveRequest
    <3>3. Core'
      BY <3>1, <3>2, PersistExpiriesStep
    <3>4. reconciled' \in [AggregateKeys -> {"NONE", "MATCH", "MISMATCH"}]
      BY <3>1, <1>01, MarkType
    <3> QED
      BY <1>01, <2>1, <3>1, <3>3, <3>4
  <2> QED
    BY <2>2, <2>3
<1>9. ASSUME NEW t \in TransitionRequests, NEW now \in Times, TransitionRefused(t, now)
      PROVE  Core' /\ Rest'
  <2>1. t.reservation \in Requests
    BY TransitionRequestsAssumption DEF TransitionRequest
  <2>2. UNCHANGED ledgerVars /\ reply'.id \in Requests \cup {None}
    BY <1>9, <2>1 DEF TransitionRefused, Refuse, Answer
  <2> QED
    BY <1>1, <2>2
<1>10. ASSUME NEW t \in TransitionRequests, NEW now \in Times, TransitionApplied(t, now)
       PROVE  Core' /\ Rest'
  <2>1. Core'
    BY <1>10, TransitionAppliedStep
  <2>2. \E touched : mark_reconciled(touched)
    BY <1>10 DEF TransitionApplied
  <2>3. reconciled' \in [AggregateKeys -> {"NONE", "MATCH", "MISMATCH"}]
    BY <2>2, <1>01, MarkType
  <2>4. t.reservation \in Requests
    BY TransitionRequestsAssumption DEF TransitionRequest
  <2>5. denials' = denials /\ reply'.id = t.reservation
    BY <1>10 DEF TransitionApplied, Answer
  <2> QED
    BY <1>01, <2>1, <2>3, <2>4, <2>5
<1>11. ASSUME NEW o \in Orgs, NEW now \in Times,
              \/ ListUsage(o, now)
              \/ ListBudgets(o, now)
              \/ ReconciliationCurrent(o, now)
       PROVE  Core' /\ Rest'
  BY <1>1, <1>11 DEF ListUsage, ListBudgets, ReconciliationCurrent, Refuse, Answer
<1>12. ASSUME NEW o \in Orgs, NEW id \in BudgetIds, NEW now \in Times,
              ReconcileRefused(o, id, now) \/ RetentionRefused(o, id, now)
       PROVE  Core' /\ Rest'
  BY <1>1, <1>12 DEF ReconcileRefused, RetentionRefused, Refuse, Answer
<1>13. ASSUME NEW o \in Orgs, NEW id \in BudgetIds, NEW now \in Times,
              Reconcile(o, id, now)
       PROVE  Core' /\ Rest'
  <2>1. Core'
    BY <1>13, PersistExpiriesStep DEF Reconcile
  <2>2. \E touched : mark_reconciled(touched)
    BY <1>13 DEF Reconcile
  <2>3. reconciled' \in [AggregateKeys -> {"NONE", "MATCH", "MISMATCH"}]
    BY <2>2, <1>01, MarkType
  <2>4. denials' = denials /\ reply'.id = None
    BY <1>13 DEF Reconcile, Answer
  <2> QED
    BY <1>01, <2>1, <2>3, <2>4
<1>14. ASSUME NEW o \in Orgs, NEW id \in BudgetIds, NEW now \in Times,
              RetentionDue(o, id, now)
       PROVE  Core' /\ Rest'
  <2>1. last_clock' \in [Orgs -> Times \cup {Never}]
    BY <1>14, <1>01 DEF RetentionDue, AdvanceClock
  <2>2. Core'
    BY <1>14, <2>1, UnchangedStep DEF RetentionDue
  <2>3. denials' = denials /\ reconciled' = reconciled /\ reply'.id = None
    BY <1>14 DEF RetentionDue, Answer
  <2> QED
    BY <1>01, <2>2, <2>3
<1> QED
  BY <1>2, <1>3, <1>4, <1>5, <1>6, <1>7, <1>8, <1>9, <1>10, <1>11, <1>12, <1>13,
     <1>14 DEF Next, Handlers, Maintenance

\* The invariant holds throughout.
LEMMA Invariance == Spec => []Inv
BY InitInv, NextInv, PTL DEF Spec

\* Every table keeps its type; in particular the Aggregate counters that
\* subtract_dimensions decreases never become negative.
THEOREM TypeCorrectness == Spec => []TypeOK
<1>1. Inv => TypeOK
  BY DEF Inv
<1> QED
  BY <1>1, Invariance, PTL

\* The incrementally kept Aggregate counters always equal the sums _recomputed
\* derives from the reservations and the usage entries, so reserve, commit,
\* release and expiry never lose or double a unit.
THEOREM CountersConserved == Spec => []Conservation
<1>1. Inv => Conservation
  BY DEF Inv
<1> QED
  BY <1>1, Invariance, PTL

\* reserve's admission check is enough: in every window of a HARD budget,
\* committed plus reserved stays within the limits after any sequence of
\* operations of any callers.
THEOREM HardBudgetsHold == Spec => []HardLimit
<1>1. Inv => HardLimit
  BY DEF Inv
<1> QED
  BY <1>1, Invariance, PTL

\* reserve's overflow check is enough: no later sum of the counters of a
\* window, advisory budgets included, exceeds SAFE_INTEGER_MAX.
THEOREM CountersRepresentable == Spec => []Representable
<1>1. Inv => Representable
  BY DEF Inv
<1> QED
  BY <1>1, Invariance, PTL

-----------------------------------------------------------------------------
(***************************************************************************)
(* II.  The rows.                                                          *)
(***************************************************************************)

(***************************************************************************)
(* The inductive invariant.                                                *)
(***************************************************************************)

\* Every idempotency row is bound to a request that was applied: a replay finds
\* what it needs to answer.
IdempotencyBacked ==
    \A x \in DOMAIN idempotency :
        LET q == idempotency[x] IN
        IF x[2] = "RESERVE"
        THEN q \in DOMAIN reservations
        ELSE /\ q \in TransitionRequests
             /\ \E i \in DOMAIN transitions[q.reservation] :
                   transitions[q.reservation][i].request = q

\* A reservation lies in the window of its creation, ends with it at the latest
\* and was made no later than its organization's clock.
ReservationTimed(r) ==
    LET b == budgets[<<r.org, r.budget>>]
        s == reservations[r]
    IN  /\ b.epoch <= s.created
        /\ s.window = window_at(b, s.created)
        /\ s.expires <= WindowEnd(b, s.window)
        /\ s.created <= last_clock[r.org]

\* A usage entry is made in the life of its reservation, for its window.
EntryTimed(e) ==
    LET s == reservations[e.request.reservation]
    IN  e.window = s.window /\ s.created <= e.at /\ e.at < s.expires

ReservationsTimed == \A r \in DOMAIN reservations : ReservationTimed(r)

EntriesTimed == \A e \in usage_entries : EntryTimed(e)

RetentionFinding ==
    [org: Orgs, budget: BudgetIds, cutoff: Int, history: SUBSET UsageEntry,
     status: {"RETENTION_DUE", "NOT_DUE"}]

\* The cutoff of a retention finding lies before the window of the
\* organization's clock.
FindingPast(f) ==
    LET b == budgets[<<f.org, f.budget>>]
    IN  /\ <<f.org, f.budget>> \in DOMAIN budgets
        /\ b.epoch <= last_clock[f.org]
        /\ f.cutoff < window_at(b, last_clock[f.org])

FindingsPast ==
    /\ retention_findings \in Seq(RetentionFinding)
    /\ \A i \in DOMAIN retention_findings : FindingPast(retention_findings[i])

\* _mark_reconciled has never found a difference.
NoMismatch == \A k \in AggregateKeys : reconciled[k] # "MISMATCH"

\* What the tables say of each other.
Story == /\ RowsAgree /\ KeyChargesOnce /\ IdempotencyBacked
         /\ ReservationsTimed /\ EntriesTimed
         /\ FindingsPast /\ RetentionHistoryClosed

HistoryInv == Inv /\ Story /\ NoMismatch /\ NoInternalError

-----------------------------------------------------------------------------
(***************************************************************************)
(* Windows.                                                                *)
(***************************************************************************)

\* The quotient window_at takes is bounded by the instant.
LEMMA QuotientBounds ==
    ASSUME NEW a \in Nat, NEW s \in Nat \ {0}
    PROVE  a \div s \in Nat /\ (a \div s) * s <= a /\ a < (a \div s) * s + s
OBVIOUS

\* More windows are longer.
LEMMA ProductMonotone ==
    ASSUME NEW m \in Int, NEW n \in Int, m <= n, NEW s \in Nat
    PROVE  m * s <= n * s
OBVIOUS

\* The window an instant lies in is the one window_at yields.
LEMMA QuotientUnique ==
    ASSUME NEW a \in Nat, NEW s \in Nat \ {0}, NEW w \in Int,
           w * s <= a, a < w * s + s
    PROVE  a \div s = w
<1> DEFINE q == a \div s
<1>1. q \in Nat /\ q * s <= a /\ a < q * s + s
  BY QuotientBounds
<1> HIDE DEF q
<1>2. ASSUME q < w PROVE FALSE
  <2>1. (q + 1) * s <= w * s
    BY <1>1, <1>2, ProductMonotone
  <2>2. (q + 1) * s = q * s + s
    BY <1>1
  <2> QED
    BY <1>1, <2>1, <2>2
<1>3. ASSUME w < q PROVE FALSE
  <2>1. (w + 1) * s <= q * s
    BY <1>1, <1>3, ProductMonotone
  <2>2. (w + 1) * s = w * s + s
    OBVIOUS
  <2> QED
    BY <1>1, <2>1, <2>2
<1> QED
  BY <1>1, <1>2, <1>3 DEF q

\* Later instants lie in no earlier window.
LEMMA QuotientMonotone ==
    ASSUME NEW a \in Nat, NEW b \in Nat, a <= b, NEW s \in Nat \ {0}
    PROVE  a \div s <= b \div s
OBVIOUS

\* window_at, of instants not before the epoch: its windows are numbered from 0,
\* contain their instants and follow each other.
LEMMA WindowAtBounds ==
    ASSUME NEW b \in BudgetDefs, NEW now \in Nat, b.epoch <= now
    PROVE  /\ window_at(b, now) \in Nat
           /\ WindowStart(b, window_at(b, now)) <= now
           /\ now < WindowEnd(b, window_at(b, now))
<1>1. b.epoch \in Nat /\ b.seconds \in Nat \ {0}
  BY BudgetDefsAssumption DEF BudgetDefinition
<1>2. now - b.epoch \in Nat
  BY <1>1
<1> DEFINE e == b.epoch
           s == b.seconds
           a == now - b.epoch
           q == a \div s
<1>3. q \in Nat /\ q * s <= a /\ a < q * s + s
  BY <1>1, <1>2, QuotientBounds
<1>4. window_at(b, now) = q
  BY DEF window_at
<1>5. WindowStart(b, q) = e + q * s /\ WindowEnd(b, q) = e + q * s + s
  BY DEF WindowEnd, WindowStart
<1>6. a = now - e /\ e \in Nat /\ s \in Nat
  BY <1>1
<1> HIDE DEF a, q, e, s
<1>7. e + q * s <= now /\ now < e + q * s + s
  BY <1>3, <1>6
<1> QED
  BY <1>3, <1>4, <1>5, <1>7

\* A later instant lies in no earlier window of a budget.
LEMMA WindowAtMonotone ==
    ASSUME NEW b \in BudgetDefs, NEW m \in Nat, NEW n \in Nat, b.epoch <= m, m <= n
    PROVE  window_at(b, m) <= window_at(b, n)
<1>1. b.epoch \in Nat /\ b.seconds \in Nat \ {0}
  BY BudgetDefsAssumption DEF BudgetDefinition
<1>2. m - b.epoch \in Nat /\ n - b.epoch \in Nat /\ m - b.epoch <= n - b.epoch
  BY <1>1
<1> QED
  BY <1>1, <1>2, QuotientMonotone DEF window_at

\* Between the creation of a reservation and the end of its window, every
\* instant lies in that window.
LEMMA WindowAtBetween ==
    ASSUME NEW b \in BudgetDefs, NEW m \in Nat, NEW n \in Nat, b.epoch <= m, m <= n,
           n < WindowEnd(b, window_at(b, m))
    PROVE  window_at(b, n) = window_at(b, m)
<1>1. b.epoch \in Nat /\ b.seconds \in Nat \ {0}
  BY BudgetDefsAssumption DEF BudgetDefinition
<1> DEFINE w == window_at(b, m)
           e == b.epoch
           s == b.seconds
<1>2. w \in Nat /\ e + w * s <= m /\ n < e + w * s + s
  BY WindowAtBounds DEF WindowStart, WindowEnd
<1>3. e \in Nat /\ s \in Nat \ {0}
  BY <1>1
<1> HIDE DEF w, e, s
<1>4. n - e \in Nat /\ w * s <= n - e /\ n - e < w * s + s
  BY <1>2, <1>3
<1>5. (n - e) \div s = w
  BY <1>2, <1>3, <1>4, QuotientUnique
<1> QED
  BY <1>5 DEF window_at, w, e, s

-----------------------------------------------------------------------------
(***************************************************************************)
(* The rows _expire_due writes.                                            *)
(***************************************************************************)

\* Two log rows, appended one after the other.
LEMMA AppendSecond ==
    ASSUME NEW x, NEW y
    PROVE  Append(<<x>>, y) = <<x, y>>
<1> DEFINE S == {x, y}
<1>1. <<x>> \in Seq(S) /\ <<x, y>> \in Seq(S) /\ y \in S
  OBVIOUS
<1>2. /\ Append(<<x>>, y) \in Seq(S) /\ Len(Append(<<x>>, y)) = Len(<<x, y>>)
      /\ Append(<<x>>, y)[1] = x /\ Append(<<x>>, y)[2] = y
  BY <1>1
<1>3. \A i \in 1..Len(<<x, y>>) : Append(<<x>>, y)[i] = <<x, y>>[i]
  BY <1>2
<1> QED
  BY <1>1, <1>2, <1>3, SeqEqual

\* The first log row.
LEMMA AppendFirst ==
    ASSUME NEW x
    PROVE  Append(<<>>, x) = <<x>> /\ Len(<<x>>) = 1 /\ <<x>>[1] = x
<1>1. x \in {x}
  OBVIOUS
<1> QED
  BY <1>1

EntriesOf(r) == {e \in usage_entries : e.request.reservation = r}

\* RowsAgree, one request at a time.
Agrees(r) ==
    /\ r \notin DOMAIN reservations =>
          transitions[r] = <<>> /\ outbox[r] = <<>> /\ EntriesOf(r) = {}
    /\ r \in DOMAIN reservations /\ reservations[r].state = "RESERVED" =>
          /\ transitions[r] = <<>>
          /\ outbox[r] = <<"usage.reserved.v1">>
          /\ EntriesOf(r) = {}
    /\ r \in DOMAIN reservations /\ reservations[r].state # "RESERVED" =>
          /\ Len(transitions[r]) = 1
          /\ transitions[r][1].request.target = reservations[r].state
          /\ outbox[r] = <<"usage.reserved.v1", EventOf(reservations[r].state)>>
          /\ EntriesOf(r) = IF reservations[r].state = "COMMITTED"
                            THEN {[request |-> transitions[r][1].request,
                                   window |-> reservations[r].window,
                                   at |-> transitions[r][1].at]}
                            ELSE {}

\* The event of each state a reservation may be in.
LEMMA Events ==
    /\ EventOf("RESERVED") = "usage.reserved.v1"
    /\ EventOf("COMMITTED") = "usage.committed.v1"
    /\ EventOf("RELEASED") = "usage.released.v1"
    /\ EventOf("EXPIRED") = "usage.expired.v1"
BY DEF EventOf

\* RowsAgree is a fact about each request on its own.
LEMMA AgreesEach == RowsAgree <=> \A r \in Requests : Agrees(r)
BY Events DEF RowsAgree, Agrees, EntriesOf

\* The same after a step.
LEMMA AgreesEachNext == RowsAgree' <=> \A r \in Requests : Agrees(r)'
BY Events DEF RowsAgree, Agrees, EntriesOf

\* _expire_due writes the one terminal transition of each reservation it expires
\* and announces it once; it leaves the rows of the others alone.
LEMMA ExpiryStory ==
    ASSUME RowsAgree, NEW o, NEW now, NEW r \in Requests
    PROVE  /\ r \in Due(o, now) =>
                 /\ ExpiredTransitions(o, now)[r] = <<ExpiryRow(r, now)>>
                 /\ ExpiredOutbox(o, now)[r] = <<"usage.reserved.v1", "usage.expired.v1">>
                 /\ EntriesOf(r) = {}
                 /\ transitions[r] = <<>>
           /\ r \notin Due(o, now) =>
                 /\ ExpiredTransitions(o, now)[r] = transitions[r]
                 /\ ExpiredOutbox(o, now)[r] = outbox[r]
<1>1. Agrees(r)
  BY AgreesEach
<1>2. CASE r \in Due(o, now)
  <2>1. r \in DOMAIN reservations /\ reservations[r].state = "RESERVED"
    BY <1>2 DEF Due
  <2>2. /\ transitions[r] = <<>>
        /\ outbox[r] = <<"usage.reserved.v1">>
        /\ EntriesOf(r) = {}
    BY <1>1, <2>1 DEF Agrees
  <2>3. ExpiredTransitions(o, now)[r] = <<ExpiryRow(r, now)>>
    BY <1>2, <2>2, AppendFirst DEF ExpiredTransitions
  <2>4. ExpiredOutbox(o, now)[r] = <<"usage.reserved.v1", "usage.expired.v1">>
    BY <1>2, <2>2, AppendSecond DEF ExpiredOutbox
  <2> QED
    BY <1>2, <2>2, <2>3, <2>4
<1>3. CASE r \notin Due(o, now)
  BY <1>3 DEF ExpiredTransitions, ExpiredOutbox
<1> QED
  BY <1>2, <1>3

\* Expiry adds no caller's transition, and no second row to a log that has one.
LEMMA ExpiryRowsOnly ==
    ASSUME RowsAgree, NEW o, NEW now, NEW r \in Requests
    PROVE  /\ \A i \in DOMAIN ExpiredTransitions(o, now)[r] :
                 ExpiredTransitions(o, now)[r][i].request.target # "EXPIRED" =>
                     ExpiredTransitions(o, now)[r] = transitions[r]
           /\ DOMAIN transitions[r] # {} => ExpiredTransitions(o, now)[r] = transitions[r]
<1>1. CASE r \in Due(o, now)
  <2>1. ExpiredTransitions(o, now)[r] = <<ExpiryRow(r, now)>> /\ transitions[r] = <<>>
    BY <1>1, ExpiryStory
  <2>2. \A i \in DOMAIN <<ExpiryRow(r, now)>> :
           <<ExpiryRow(r, now)>>[i].request.target = "EXPIRED"
    BY DEF ExpiryRow
  <2> QED
    BY <2>1, <2>2
<1>2. CASE r \notin Due(o, now)
  BY <1>2, ExpiryStory
<1> QED
  BY <1>1, <1>2

\* What expiry leaves of a reservation.
LEMMA ExpiredReservation ==
    ASSUME RowsTypeOK, NEW o, NEW now, NEW r \in DOMAIN reservations
    PROVE  LET s == ExpiredReservations(o, now)[r] IN
           /\ s.state = IF r \in Due(o, now) THEN "EXPIRED" ELSE reservations[r].state
           /\ s.window = reservations[r].window
           /\ s.created = reservations[r].created
           /\ s.expires = reservations[r].expires
           /\ r \notin Due(o, now) => s = reservations[r]
<1>1. reservations[r] \in ReservationRecord
  BY DEF RowsTypeOK
<1> QED
  BY <1>1 DEF ExpiredReservations, ReservationRecord

\* A reservation that expiry touches, or leaves, keeps its story straight.
LEMMA ExpiryAgrees ==
    ASSUME RowsTypeOK, RowsAgree, NEW o, NEW now, NEW r \in Requests,
           r \in DOMAIN reservations' <=> r \in DOMAIN reservations,
           r \in DOMAIN reservations => reservations'[r] = ExpiredReservations(o, now)[r],
           transitions'[r] = ExpiredTransitions(o, now)[r],
           outbox'[r] = ExpiredOutbox(o, now)[r],
           EntriesOf(r)' = EntriesOf(r)
    PROVE  Agrees(r)'
<1>1. Agrees(r)
  BY AgreesEach
<1>2. CASE r \in Due(o, now)
  <2>1. r \in DOMAIN reservations
    BY <1>2 DEF Due
  <2>2. reservations'[r].state = "EXPIRED"
    BY <1>2, <2>1, ExpiredReservation
  <2>3. transitions'[r] = <<ExpiryRow(r, now)>>
    BY <1>2, ExpiryStory
  <2>4. Len(transitions'[r]) = 1 /\ transitions'[r][1].request.target = "EXPIRED"
    BY <2>3, AppendFirst DEF ExpiryRow
  <2>5. outbox'[r] = <<"usage.reserved.v1", EventOf("EXPIRED")>> /\ EntriesOf(r)' = {}
    BY <1>2, ExpiryStory, Events
  <2> QED
    BY <2>1, <2>2, <2>4, <2>5 DEF Agrees
<1>3. CASE r \notin Due(o, now)
  <2>1. transitions'[r] = transitions[r] /\ outbox'[r] = outbox[r]
    BY <1>3, ExpiryStory
  <2>2. r \in DOMAIN reservations => reservations'[r] = reservations[r]
    BY <1>3, ExpiredReservation
  <2> QED
    BY <1>1, <2>1, <2>2 DEF Agrees
<1> QED
  BY <1>2, <1>3

-----------------------------------------------------------------------------
(***************************************************************************)
(* Every operation that persists anything keeps the story straight.        *)
(***************************************************************************)

\* _advance_clock lets an operation through only at an instant not before the
\* organization's clock.
LEMMA OpenedInOrder ==
    ASSUME NEW o, NEW now, Opening(o, now) = "NONE"
    PROVE  ~(now < last_clock[o])
BY DEF Opening

\* Whatever reserve persists, it has passed its opening.
LEMMA ReserveOpened ==
    ASSUME NEW q, NEW now, ReserveOutcome(q, now) \in AuditedDenials \cup {"ADMIT"}
    PROVE  Opening(q.org, now) = "NONE"
BY DEF ReserveOutcome, AuditedDenials, Opening, ExpiryError

\* So has evaluate.
LEMMA EvaluateOpened ==
    ASSUME NEW q, NEW now, EvaluateOutcome(q, now) = "EVALUATED"
    PROVE  Opening(q.org, now) = "NONE"
BY DEF EvaluateOutcome, Opening, ExpiryError

\* So has reconcile, and its budget's window has begun.
LEMMA ReconcileOpened ==
    ASSUME NEW o, NEW id, NEW now, ReconcileOutcome(o, id, now) = "RECONCILED"
    PROVE  /\ Opening(o, now) = "NONE"
           /\ <<o, id>> \in DOMAIN budgets
           /\ ~(now < budgets[<<o, id>>].epoch)
BY DEF ReconcileOutcome, Opening, ExpiryError

\* What _transition has established when it applies a request, about its row in
\* the idempotency table and about the clock.
LEMMA ApplyOpened ==
    ASSUME NEW t, NEW now, TransitionOutcome(t, now) = "APPLY"
    PROVE  /\ Opening(t.org, now) = "NONE"
           /\ <<t.org, t.target, t.key>> \notin DOMAIN idempotency
BY DEF TransitionOutcome, Opening, ExpiryError

\* What retention_due has established when it records a finding.
LEMMA RetentionOpened ==
    ASSUME NEW o, NEW id, NEW now, RetentionOutcome(o, id, now) = "RECORDED"
    PROVE  /\ ~(now < last_clock[o])
           /\ <<o, id>> \in DOMAIN budgets
           /\ ~(now < budgets[<<o, id>>].epoch)
BY DEF RetentionOutcome

\* What last_clock may hold is a number.
LEMMA InstantInt ==
    ASSUME NEW x \in Times \cup {Never}
    PROVE  x \in Int
<1>1. Never \in Int
  BY DEF Never
<1> QED
  BY <1>1, TimesAssumption

\* An organization's clock is an instant, or before all of them.
LEMMA ClockInt ==
    ASSUME RowsTypeOK, NEW o \in Orgs
    PROVE  last_clock[o] \in Int
<1>1. last_clock[o] \in Times \cup {Never}
  BY DEF RowsTypeOK
<1> QED
  BY <1>1, InstantInt

\* No clock goes back when an organization's clock advances.
LEMMA ClockForward ==
    ASSUME RowsTypeOK, NEW o \in Orgs, NEW now \in Times, ~(now < last_clock[o]),
           AdvanceClock(o, now)
    PROVE  \A p \in Orgs : last_clock[p] <= last_clock'[p]
<1> SUFFICES ASSUME NEW p \in Orgs
             PROVE  last_clock[p] <= last_clock'[p]
  OBVIOUS
<1>1. last_clock[p] \in Int /\ last_clock[o] \in Int /\ now \in Int
  BY ClockInt, TimesAssumption
<1>2. last_clock'[p] = IF p = o THEN now ELSE last_clock[p]
  BY DEF AdvanceClock, RowsTypeOK
<1> QED
  BY <1>1, <1>2

\* Neither the passing of time nor a new budget touches a finding's cutoff.
LEMMA FindingsKept ==
    ASSUME RowsTypeOK, RowsTypeOK', FindingsPast,
           \A x \in DOMAIN budgets : x \in DOMAIN budgets' /\ budgets'[x] = budgets[x],
           \A p \in Orgs : last_clock[p] <= last_clock'[p],
           NEW f \in RetentionFinding, FindingPast(f)
    PROVE  FindingPast(f)'
<1> DEFINE b == budgets[<<f.org, f.budget>>]
           m == last_clock[f.org]
           n == last_clock'[f.org]
<1>1. f.org \in Orgs /\ f.cutoff \in Int
  BY DEF RetentionFinding
<1>2. /\ <<f.org, f.budget>> \in DOMAIN budgets /\ b.epoch <= m
      /\ f.cutoff < window_at(b, m)
  BY DEF FindingPast
<1>3. b \in BudgetDefs /\ budgets'[<<f.org, f.budget>>] = b
  BY <1>2 DEF RowsTypeOK
<1>4. b.epoch \in Nat
  BY <1>3, BudgetDefsAssumption DEF BudgetDefinition
<1>5. m \in Int /\ n \in Int
  <2>1. last_clock'[f.org] \in Times \cup {Never}
    BY <1>1 DEF RowsTypeOK
  <2> QED
    BY <1>1, <2>1, ClockInt, InstantInt
<1>6. m \in Nat /\ n \in Nat /\ m <= n /\ b.epoch <= n
  BY <1>1, <1>2, <1>4, <1>5
<1>7. window_at(b, m) <= window_at(b, n) /\ window_at(b, m) \in Nat /\ window_at(b, n) \in Nat
  BY <1>2, <1>3, <1>6, WindowAtMonotone, WindowAtBounds
<1>8. f.cutoff < window_at(b, n)
  BY <1>1, <1>2, <1>7
<1>9. FindingPast(f)' <=>
        /\ <<f.org, f.budget>> \in DOMAIN budgets'
        /\ budgets'[<<f.org, f.budget>>].epoch <= n
        /\ f.cutoff < window_at(budgets'[<<f.org, f.budget>>], n)
  BY DEF FindingPast, window_at
<1> QED
  BY <1>2, <1>3, <1>6, <1>8, <1>9

\* A reservation that keeps its window and instants stays well timed.
LEMMA TimedKept ==
    ASSUME RowsTypeOK, RowsTied, RowsTypeOK', ReservationsTimed,
           \A x \in DOMAIN budgets : x \in DOMAIN budgets' /\ budgets'[x] = budgets[x],
           \A p \in Orgs : last_clock[p] <= last_clock'[p],
           NEW r \in DOMAIN reservations,
           reservations'[r].window = reservations[r].window,
           reservations'[r].created = reservations[r].created,
           reservations'[r].expires = reservations[r].expires
    PROVE  ReservationTimed(r)'
<1> DEFINE b == budgets[<<r.org, r.budget>>]
           s == reservations[r]
<1>1. r \in Requests /\ r.org \in Orgs
  BY RequestsAssumption DEF RowsTypeOK, ReserveRequest
<1>2. /\ b.epoch <= s.created
      /\ s.window = window_at(b, s.created)
      /\ s.expires <= WindowEnd(b, s.window)
      /\ s.created <= last_clock[r.org]
  BY DEF ReservationsTimed, ReservationTimed
<1>3. budgets'[<<r.org, r.budget>>] = b
  BY DEF RowsTied
<1>4. s.created \in Int /\ last_clock[r.org] \in Int /\ last_clock'[r.org] \in Int
  <2>1. last_clock'[r.org] \in Times \cup {Never}
    BY <1>1 DEF RowsTypeOK
  <2>2. s.created \in Times
    BY DEF RowsTypeOK, ReservationRecord
  <2> QED
    BY <1>1, <2>1, <2>2, ClockInt, InstantInt
<1>5. s.created <= last_clock'[r.org]
  BY <1>1, <1>2, <1>4
<1>6. ReservationTimed(r)' <=>
        /\ budgets'[<<r.org, r.budget>>].epoch <= reservations'[r].created
        /\ reservations'[r].window = window_at(budgets'[<<r.org, r.budget>>], reservations'[r].created)
        /\ reservations'[r].expires <= WindowEnd(budgets'[<<r.org, r.budget>>], reservations'[r].window)
        /\ reservations'[r].created <= last_clock'[r.org]
  BY DEF ReservationTimed, window_at, WindowEnd, WindowStart
<1> QED
  BY <1>2, <1>3, <1>5, <1>6

\* Persisting the clock and the expiries (a denial, an evaluation, a
\* reconciliation).
LEMMA PersistExpiriesStory ==
    ASSUME Inv, Inv', Story, NEW o \in Orgs, NEW now \in Times, ~(now < last_clock[o]),
           PersistExpiries(o, now), retention_findings' = retention_findings
    PROVE  Story'
<1>0. RowsTypeOK /\ RowsTied /\ RowsTypeOK' /\ RowsTied'
  BY DEF Inv, TypeOK
<1>01. /\ RowsAgree /\ KeyChargesOnce /\ IdempotencyBacked /\ ReservationsTimed
       /\ EntriesTimed /\ FindingsPast /\ RetentionHistoryClosed
  BY DEF Story
<1>1. /\ reservations' = ExpiredReservations(o, now)
      /\ DOMAIN reservations' = DOMAIN reservations
      /\ transitions' = ExpiredTransitions(o, now)
      /\ outbox' = ExpiredOutbox(o, now)
      /\ UNCHANGED <<budgets, usage_entries, idempotency>>
  BY DEF PersistExpiries, ExpiredReservations
<1>2. RowsAgree'
  <2> SUFFICES ASSUME NEW r \in Requests PROVE Agrees(r)'
    BY AgreesEachNext
  <2>1. EntriesOf(r)' = EntriesOf(r)
    BY <1>1 DEF EntriesOf
  <2> QED
    BY <1>0, <1>01, <1>1, <2>1, ExpiryAgrees
<1>3. ASSUME NEW r \in Requests, NEW i \in DOMAIN transitions'[r],
             transitions'[r][i].request.target # "EXPIRED"
      PROVE  transitions'[r] = transitions[r]
  BY <1>01, <1>1, <1>3, ExpiryRowsOnly
<1>4. KeyChargesOnce'
  BY <1>01, <1>1, <1>3 DEF KeyChargesOnce
<1>5. IdempotencyBacked'
  <2>1. \A r \in Requests : DOMAIN transitions[r] # {} => transitions'[r] = transitions[r]
    BY <1>01, <1>1, ExpiryRowsOnly
  <2>2. \A t \in TransitionRequests : t.reservation \in Requests
    BY TransitionRequestsAssumption DEF TransitionRequest
  <2> QED
    BY <1>01, <1>1, <2>1, <2>2 DEF IdempotencyBacked
<1>6. \A p \in Orgs : last_clock[p] <= last_clock'[p]
  BY <1>0, ClockForward DEF PersistExpiries
<1>7. \A r \in DOMAIN reservations :
         /\ reservations'[r].window = reservations[r].window
         /\ reservations'[r].created = reservations[r].created
         /\ reservations'[r].expires = reservations[r].expires
  BY <1>0, <1>1, ExpiredReservation
<1>8. ReservationsTimed'
  BY <1>0, <1>01, <1>1, <1>6, <1>7, TimedKept DEF ReservationsTimed
<1>9. EntriesTimed'
  BY <1>0, <1>01, <1>1, <1>7 DEF EntriesTimed, EntryTimed, RowsTied
<1>10. FindingsPast'
  <2>1. \A i \in DOMAIN retention_findings : retention_findings[i] \in RetentionFinding
    BY <1>01 DEF FindingsPast
  <2>2. \A i \in DOMAIN retention_findings : FindingPast(retention_findings[i])'
    BY <1>0, <1>01, <1>1, <1>6, <2>1, FindingsKept DEF FindingsPast
  <2> QED
    BY <1>01, <2>2 DEF FindingsPast, FindingPast
<1>11. RetentionHistoryClosed'
  BY <1>01, <1>1 DEF RetentionHistoryClosed
<1> QED
  BY <1>2, <1>4, <1>5, <1>8, <1>9, <1>10, <1>11 DEF Story

\* add_budget changes the budget of no reservation and of no finding.
LEMMA AddBudgetStory ==
    ASSUME Inv, Inv', Story,
           \A x \in DOMAIN budgets : x \in DOMAIN budgets' /\ budgets'[x] = budgets[x],
           UNCHANGED <<reservations, transitions, usage_entries, idempotency, outbox,
                       retention_findings, last_clock>>
    PROVE  Story'
<1>0. RowsTypeOK /\ RowsTied /\ RowsTypeOK' /\ RowsTied'
  BY DEF Inv, TypeOK
<1>01. /\ RowsAgree /\ KeyChargesOnce /\ IdempotencyBacked /\ ReservationsTimed
       /\ EntriesTimed /\ FindingsPast /\ RetentionHistoryClosed
  BY DEF Story
<1>1. \A p \in Orgs : last_clock[p] <= last_clock'[p]
  BY <1>0, ClockInt
<1>2. RowsAgree' /\ KeyChargesOnce' /\ IdempotencyBacked'
  BY <1>01 DEF RowsAgree, KeyChargesOnce, IdempotencyBacked
<1>3. ReservationsTimed'
  BY <1>0, <1>01, <1>1, TimedKept DEF ReservationsTimed
<1>4. EntriesTimed' /\ RetentionHistoryClosed'
  BY <1>01 DEF EntriesTimed, EntryTimed, RetentionHistoryClosed
<1>5. FindingsPast'
  <2>1. \A i \in DOMAIN retention_findings : retention_findings[i] \in RetentionFinding
    BY <1>01 DEF FindingsPast
  <2>2. \A i \in DOMAIN retention_findings : FindingPast(retention_findings[i])'
    BY <1>0, <1>01, <1>1, <2>1, FindingsKept DEF FindingsPast
  <2> QED
    BY <1>01, <2>2 DEF FindingsPast, FindingPast
<1> QED
  BY <1>2, <1>3, <1>4, <1>5 DEF Story

\* reserve, when it admits a request: the request was in no table before.
LEMMA ReserveAdmittedStory ==
    ASSUME Inv, Inv', Story, NEW q \in Requests, NEW now \in Times, ReserveAdmitted(q, now)
    PROVE  Story'
<1> DEFINE b == budgets[<<q.org, q.budget>>]
           row == <<q.org, "RESERVE", q.key>>
           o == q.org
<1>0. RowsTypeOK /\ RowsTied /\ RowsTypeOK' /\ RowsTied'
  BY DEF Inv, TypeOK
<1>01. /\ RowsAgree /\ KeyChargesOnce /\ IdempotencyBacked /\ ReservationsTimed
       /\ EntriesTimed /\ FindingsPast /\ RetentionHistoryClosed
  BY DEF Story
<1>1. ReserveOutcome(q, now) = "ADMIT"
  BY DEF ReserveAdmitted
<1>2. /\ row \notin DOMAIN idempotency
      /\ <<q.org, q.budget>> \in DOMAIN budgets
      /\ ~(now < b.epoch)
      /\ ~(now < last_clock[o])
  BY <1>1, AdmitFacts, ReserveOpened, OpenedInOrder
<1>3. q \notin DOMAIN reservations /\ q.org \in Orgs
  BY <1>0, <1>2, RequestsAssumption DEF RowsTied, ReserveRequest
<1>4. /\ reservations' = [r \in DOMAIN reservations \cup {q} |->
                             IF r = q THEN NewReservation(q, now)
                             ELSE ExpiredReservations(o, now)[r]]
      /\ idempotency' = [x \in DOMAIN idempotency \cup {row} |->
                            IF x = row THEN q ELSE idempotency[x]]
      /\ transitions' = ExpiredTransitions(o, now)
      /\ outbox' = [ExpiredOutbox(o, now) EXCEPT ![q] = Append(@, "usage.reserved.v1")]
      /\ AdvanceClock(o, now)
      /\ UNCHANGED <<budgets, usage_entries, retention_findings>>
  BY DEF ReserveAdmitted, Remembered
<1>5. /\ NewReservation(q, now).state = "RESERVED"
      /\ NewReservation(q, now).window = window_at(b, now)
      /\ NewReservation(q, now).created = now
      /\ NewReservation(q, now).expires = IF now + q.ttl < WindowEnd(b, window_at(b, now))
                                          THEN now + q.ttl
                                          ELSE WindowEnd(b, window_at(b, now))
  BY DEF NewReservation
<1> HIDE DEF row, o
<1>6. RowsAgree'
  <2> SUFFICES ASSUME NEW r \in Requests PROVE Agrees(r)'
    BY AgreesEachNext
  <2>1. EntriesOf(r)' = EntriesOf(r)
    BY <1>4 DEF EntriesOf
  <2>2. CASE r = q
    <3>1. Agrees(r)
      BY <1>01, AgreesEach
    <3>2. transitions[r] = <<>> /\ outbox[r] = <<>> /\ EntriesOf(r) = {}
      BY <1>3, <2>2, <3>1 DEF Agrees
    <3>3. r \notin Due(o, now)
      BY <1>3, <2>2 DEF Due
    <3>4. transitions'[r] = <<>> /\ ExpiredOutbox(o, now)[r] = <<>>
      BY <1>01, <1>4, <3>2, <3>3, ExpiryStory
    <3>5. outbox'[r] = <<"usage.reserved.v1">>
      <4>1. outbox'[r] = Append(ExpiredOutbox(o, now)[r], "usage.reserved.v1")
        BY <1>4, <2>2 DEF ExpiredOutbox
      <4> QED
        BY <3>4, <4>1, AppendFirst
    <3>6. r \in DOMAIN reservations' /\ reservations'[r].state = "RESERVED"
      BY <1>4, <1>5, <2>2
    <3> QED
      BY <2>1, <3>2, <3>4, <3>5, <3>6 DEF Agrees
  <2>3. CASE r # q
    <3>1. r \in DOMAIN reservations' <=> r \in DOMAIN reservations
      BY <1>4, <2>3
    <3>2. r \in DOMAIN reservations => reservations'[r] = ExpiredReservations(o, now)[r]
      BY <1>4, <2>3
    <3>3. outbox'[r] = ExpiredOutbox(o, now)[r]
      BY <1>4, <2>3 DEF ExpiredOutbox
    <3>4. transitions'[r] = ExpiredTransitions(o, now)[r]
      BY <1>4
    <3> QED
      BY <1>0, <1>01, <2>1, <3>1, <3>2, <3>3, <3>4, ExpiryAgrees
  <2> QED
    BY <2>2, <2>3
<1>7. \A x \in DOMAIN idempotency : x \in DOMAIN idempotency' /\ idempotency'[x] = idempotency[x]
  BY <1>2, <1>4
<1>8. row \in DOMAIN idempotency' /\ idempotency'[row] = q
  BY <1>4
<1>9. ASSUME NEW r \in Requests, NEW i \in DOMAIN transitions'[r],
             transitions'[r][i].request.target # "EXPIRED"
      PROVE  transitions'[r] = transitions[r]
  BY <1>01, <1>4, <1>9, ExpiryRowsOnly
<1>10. KeyChargesOnce'
  <2>1. \A r \in DOMAIN reservations' : r \in DOMAIN reservations \/ r = q
    BY <1>4
  <2> QED
    BY <1>01, <1>7, <1>8, <1>9, <2>1 DEF KeyChargesOnce, row
<1>11. IdempotencyBacked'
  <2>1. \A r \in Requests : DOMAIN transitions[r] # {} => transitions'[r] = transitions[r]
    BY <1>01, <1>4, ExpiryRowsOnly
  <2>2. \A t \in TransitionRequests : t.reservation \in Requests
    BY TransitionRequestsAssumption DEF TransitionRequest
  <2>3. \A x \in DOMAIN idempotency' : x \in DOMAIN idempotency \/ x = row
    BY <1>4
  <2>4. row[2] = "RESERVE" /\ q \in DOMAIN reservations'
        /\ DOMAIN reservations \subseteq DOMAIN reservations'
    BY <1>4 DEF row
  <2> QED
    BY <1>01, <1>7, <1>8, <2>1, <2>2, <2>3, <2>4 DEF IdempotencyBacked
<1>12. \A p \in Orgs : last_clock[p] <= last_clock'[p]
  BY <1>0, <1>2, <1>3, <1>4, ClockForward DEF o
<1>13. \A r \in DOMAIN reservations :
          /\ reservations'[r].window = reservations[r].window
          /\ reservations'[r].created = reservations[r].created
          /\ reservations'[r].expires = reservations[r].expires
  <2>1. \A r \in DOMAIN reservations : reservations'[r] = ExpiredReservations(o, now)[r]
    BY <1>3, <1>4
  <2> QED
    BY <1>0, <2>1, ExpiredReservation
<1>14. ReservationTimed(q)'
  <2>1. b \in BudgetDefs
    BY <1>0, <1>2 DEF RowsTypeOK
  <2>2. b.epoch \in Nat /\ b.seconds \in Nat /\ now \in Nat
    BY <2>1, BudgetDefsAssumption, TimesAssumption DEF BudgetDefinition
  <2>3. b.epoch <= now
    BY <1>2, <2>2
  <2>4. WindowEnd(b, window_at(b, now)) \in Int
    <3>1. window_at(b, now) \in Nat
      BY <2>1, <2>2, <2>3, WindowAtBounds
    <3> HIDE DEF b
    <3> QED
      BY <2>2, <3>1 DEF WindowEnd, WindowStart
  <2>5. q.ttl \in Int
    BY RequestsAssumption DEF ReserveRequest
  <2>6. reservations'[q] = NewReservation(q, now) /\ budgets'[<<q.org, q.budget>>] = b
    BY <1>4
  <2>7. last_clock'[q.org] = now
    BY <1>0, <1>3, <1>4 DEF AdvanceClock, RowsTypeOK, o
  <2>8. reservations'[q].expires <= WindowEnd(b, window_at(b, now))
    BY <1>5, <2>2, <2>4, <2>5, <2>6
  <2>9. ReservationTimed(q)' <=>
          /\ budgets'[<<q.org, q.budget>>].epoch <= reservations'[q].created
          /\ reservations'[q].window
               = window_at(budgets'[<<q.org, q.budget>>], reservations'[q].created)
          /\ reservations'[q].expires
               <= WindowEnd(budgets'[<<q.org, q.budget>>], reservations'[q].window)
          /\ reservations'[q].created <= last_clock'[q.org]
    BY DEF ReservationTimed, window_at, WindowEnd, WindowStart
  <2> HIDE DEF b
  <2> QED
    BY <1>5, <2>2, <2>3, <2>6, <2>7, <2>8, <2>9
<1>15. ReservationsTimed'
  <2>1. \A r \in DOMAIN reservations' : r \in DOMAIN reservations \/ r = q
    BY <1>4
  <2>2. \A r \in DOMAIN reservations : ReservationTimed(r)'
    BY <1>0, <1>01, <1>4, <1>12, <1>13, TimedKept
  <2> QED
    BY <1>14, <2>1, <2>2 DEF ReservationsTimed
<1>16. EntriesTimed'
  BY <1>0, <1>01, <1>4, <1>13 DEF EntriesTimed, EntryTimed, RowsTied
<1>17. FindingsPast'
  <2>1. \A i \in DOMAIN retention_findings : retention_findings[i] \in RetentionFinding
    BY <1>01 DEF FindingsPast
  <2>2. \A i \in DOMAIN retention_findings : FindingPast(retention_findings[i])'
    BY <1>0, <1>01, <1>4, <1>12, <2>1, FindingsKept DEF FindingsPast
  <2> QED
    BY <1>01, <1>4, <2>2 DEF FindingsPast, FindingPast
<1>18. RetentionHistoryClosed'
  BY <1>01, <1>4 DEF RetentionHistoryClosed
<1> QED
  BY <1>6, <1>10, <1>11, <1>15, <1>16, <1>17, <1>18 DEF Story

\* commit and release, when they apply: the reservation was live, so this is its
\* only terminal transition and, for a commit, its only usage entry, made before
\* the end of its window.
LEMMA TransitionAppliedStory ==
    ASSUME Inv, Inv', Story, NEW t \in TransitionRequests, NEW now \in Times,
           TransitionApplied(t, now)
    PROVE  Story'
<1> DEFINE r == t.reservation
           o == t.org
           row == <<t.org, t.target, t.key>>
           log == [request |-> t, at |-> now]
           e0 == [request |-> t, window |-> reservations[r].window, at |-> now]
<1>0. RowsTypeOK /\ RowsTied /\ RowsTypeOK' /\ RowsTied'
  BY DEF Inv, TypeOK
<1>01. /\ RowsAgree /\ KeyChargesOnce /\ IdempotencyBacked /\ ReservationsTimed
       /\ EntriesTimed /\ FindingsPast /\ RetentionHistoryClosed
  BY DEF Story
<1>1. TransitionOutcome(t, now) = "APPLY"
  BY DEF TransitionApplied
<1>2. /\ row \notin DOMAIN idempotency
      /\ ~(now < last_clock[o])
      /\ r \in DOMAIN reservations /\ r.org = o
      /\ ExpiredReservations(o, now)[r].state # "EXPIRED"
      /\ reservations[r].state = "RESERVED"
  BY <1>1, ApplyFacts, ApplyOpened, OpenedInOrder
<1>3. o \in Orgs /\ r \in Requests /\ t.target \in {"COMMITTED", "RELEASED"}
  BY TransitionRequestsAssumption DEF TransitionRequest
<1>4. /\ reservations' = [ExpiredReservations(o, now) EXCEPT ![r].state = t.target]
      /\ transitions' = [ExpiredTransitions(o, now) EXCEPT ![r] = Append(@, log)]
      /\ idempotency' = [x \in DOMAIN idempotency \cup {row} |->
                            IF x = row THEN t ELSE idempotency[x]]
      /\ AdvanceClock(o, now)
      /\ UNCHANGED <<budgets, retention_findings>>
  BY DEF TransitionApplied, Remembered
<1>5. \/ /\ t.target = "COMMITTED"
         /\ usage_entries' = usage_entries \cup {e0}
         /\ outbox' = [ExpiredOutbox(o, now) EXCEPT ![r] = Append(@, "usage.committed.v1")]
      \/ /\ t.target = "RELEASED"
         /\ outbox' = [ExpiredOutbox(o, now) EXCEPT ![r] = Append(@, "usage.released.v1")]
         /\ UNCHANGED usage_entries
  BY DEF TransitionApplied
<1>6. r \notin Due(o, now)
  BY <1>0, <1>2, ExpiredReservation
<1>7. /\ e0.request.reservation = r /\ e0.request = t /\ e0.at = now
      /\ e0.window = reservations[r].window
      /\ log.request = t /\ log.at = now
  OBVIOUS
<1>8. /\ transitions[r] = <<>> /\ outbox[r] = <<"usage.reserved.v1">> /\ EntriesOf(r) = {}
      /\ ExpiredTransitions(o, now)[r] = <<>>
      /\ ExpiredOutbox(o, now)[r] = <<"usage.reserved.v1">>
  <2>1. Agrees(r)
    BY <1>01, <1>3, AgreesEach
  <2>2. transitions[r] = <<>> /\ outbox[r] = <<"usage.reserved.v1">> /\ EntriesOf(r) = {}
    BY <1>2, <2>1 DEF Agrees
  <2> QED
    BY <1>01, <1>3, <1>6, <2>2, ExpiryStory
<1> HIDE DEF row, e0, log, o, r
<1>9. /\ DOMAIN reservations' = DOMAIN reservations
      /\ \A x \in DOMAIN reservations :
            /\ reservations'[x].window = reservations[x].window
            /\ reservations'[x].created = reservations[x].created
            /\ reservations'[x].expires = reservations[x].expires
            /\ x # r => reservations'[x] = ExpiredReservations(o, now)[x]
      /\ reservations'[r].state = t.target
  <2>1. DOMAIN ExpiredReservations(o, now) = DOMAIN reservations
    BY DEF ExpiredReservations
  <2>2. DOMAIN reservations' = DOMAIN reservations
    BY <1>4, <2>1
  <2>3. \A x \in DOMAIN reservations : ExpiredReservations(o, now)[x] \in ReservationRecord
    BY <1>0, CandidateTypes
  <2>4. \A x \in DOMAIN reservations :
           reservations'[x] = IF x = r THEN [ExpiredReservations(o, now)[x] EXCEPT !.state = t.target]
                              ELSE ExpiredReservations(o, now)[x]
    BY <1>4, <2>1
  <2>5. \A x \in DOMAIN reservations :
           /\ reservations'[x].window = ExpiredReservations(o, now)[x].window
           /\ reservations'[x].created = ExpiredReservations(o, now)[x].created
           /\ reservations'[x].expires = ExpiredReservations(o, now)[x].expires
    BY <2>3, <2>4 DEF ReservationRecord
  <2>6. reservations'[r].state = t.target
    BY <1>2, <2>3, <2>4 DEF ReservationRecord
  <2> QED
    BY <1>0, <2>2, <2>4, <2>5, <2>6, ExpiredReservation
<1>10. /\ transitions'[r] = <<log>>
       /\ outbox'[r] = <<"usage.reserved.v1", EventOf(t.target)>>
       /\ \A x \in Requests \ {r} : /\ transitions'[x] = ExpiredTransitions(o, now)[x]
                                    /\ outbox'[x] = ExpiredOutbox(o, now)[x]
  <2>1. transitions'[r] = Append(ExpiredTransitions(o, now)[r], log)
    BY <1>3, <1>4 DEF ExpiredTransitions
  <2>2. \/ t.target = "COMMITTED" /\ outbox'[r] = Append(ExpiredOutbox(o, now)[r], "usage.committed.v1")
        \/ t.target = "RELEASED" /\ outbox'[r] = Append(ExpiredOutbox(o, now)[r], "usage.released.v1")
    BY <1>3, <1>5 DEF ExpiredOutbox
  <2>3. \A x \in Requests \ {r} : /\ transitions'[x] = ExpiredTransitions(o, now)[x]
                                  /\ outbox'[x] = ExpiredOutbox(o, now)[x]
    BY <1>4, <1>5 DEF ExpiredTransitions, ExpiredOutbox
  <2>4. transitions'[r] = <<log>>
    BY <1>8, <2>1, AppendFirst
  <2>5. outbox'[r] = <<"usage.reserved.v1", EventOf(t.target)>>
    BY <1>8, <2>2, AppendSecond, Events
  <2> QED
    BY <2>3, <2>4, <2>5
<1>11. /\ EntriesOf(r)' = IF t.target = "COMMITTED" THEN {e0} ELSE {}
       /\ \A x \in Requests \ {r} : EntriesOf(x)' = EntriesOf(x)
  BY <1>5, <1>7, <1>8 DEF EntriesOf
<1>12. RowsAgree'
  <2> SUFFICES ASSUME NEW x \in Requests PROVE Agrees(x)'
    BY AgreesEachNext
  <2>1. CASE x = r
    <3>1. Len(transitions'[r]) = 1 /\ transitions'[r][1] = log
      BY <1>10, AppendFirst
    <3>2. /\ r \in DOMAIN reservations' /\ reservations'[r].state = t.target
          /\ t.target # "RESERVED"
      BY <1>2, <1>3, <1>9
    <3>3. e0 = [request |-> log.request, window |-> reservations'[r].window, at |-> log.at]
      BY <1>2, <1>7, <1>9 DEF e0
    <3>4. EntriesOf(r)' = IF t.target = "COMMITTED"
                          THEN {[request |-> log.request, window |-> reservations'[r].window,
                                 at |-> log.at]}
                          ELSE {}
      BY <1>11, <3>3
    <3> QED
      BY <1>7, <1>10, <2>1, <3>1, <3>2, <3>4 DEF Agrees
  <2>2. CASE x # r
    <3>1. /\ x \in DOMAIN reservations' <=> x \in DOMAIN reservations
          /\ x \in DOMAIN reservations => reservations'[x] = ExpiredReservations(o, now)[x]
      BY <1>9, <2>2
    <3>2. /\ transitions'[x] = ExpiredTransitions(o, now)[x]
          /\ outbox'[x] = ExpiredOutbox(o, now)[x]
          /\ EntriesOf(x)' = EntriesOf(x)
      BY <1>10, <1>11, <2>2
    <3> QED
      BY <1>0, <1>01, <3>1, <3>2, ExpiryAgrees
  <2> QED
    BY <2>1, <2>2
<1>13. \A x \in DOMAIN idempotency : x \in DOMAIN idempotency' /\ idempotency'[x] = idempotency[x]
  BY <1>2, <1>4
<1>14. row \in DOMAIN idempotency' /\ idempotency'[row] = t
  BY <1>4
<1>15. KeyChargesOnce'
  <2>1. \A x \in DOMAIN reservations' :
           /\ <<x.org, "RESERVE", x.key>> \in DOMAIN idempotency'
           /\ idempotency'[<<x.org, "RESERVE", x.key>>] = x
    BY <1>01, <1>9, <1>13 DEF KeyChargesOnce
  <2>2. ASSUME NEW x \in Requests, NEW i \in DOMAIN transitions'[x],
               transitions'[x][i].request.target # "EXPIRED"
        PROVE  LET u == transitions'[x][i].request IN
               /\ <<u.org, u.target, u.key>> \in DOMAIN idempotency'
               /\ idempotency'[<<u.org, u.target, u.key>>] = u
    <3>1. CASE x = r
      <4>1. i = 1 /\ transitions'[r][1] = log
        BY <1>10, <2>2, <3>1
      <4> QED
        BY <1>7, <1>14, <3>1, <4>1 DEF row
    <3>2. CASE x # r
      <4>1. transitions'[x] = transitions[x]
        BY <1>01, <1>10, <2>2, <3>2, ExpiryRowsOnly
      <4> QED
        BY <1>01, <1>13, <2>2, <4>1 DEF KeyChargesOnce
    <3> QED
      BY <3>1, <3>2
  <2> QED
    BY <2>1, <2>2 DEF KeyChargesOnce
<1>16. IdempotencyBacked'
  <2>1. \A x \in Requests : DOMAIN transitions[x] # {} => transitions'[x] = transitions[x]
    <3>1. DOMAIN transitions[r] = {}
      BY <1>8
    <3> QED
      BY <1>01, <1>10, <3>1, ExpiryRowsOnly
  <2>2. \A u \in TransitionRequests : u.reservation \in Requests
    BY TransitionRequestsAssumption DEF TransitionRequest
  <2>3. \A x \in DOMAIN idempotency' : x \in DOMAIN idempotency \/ x = row
    BY <1>4
  <2>4. row[2] # "RESERVE" /\ 1 \in DOMAIN transitions'[r] /\ transitions'[r][1].request = t
    BY <1>3, <1>7, <1>10 DEF row
  <2> SUFFICES ASSUME NEW x \in DOMAIN idempotency'
               PROVE  LET q == idempotency'[x] IN
                      IF x[2] = "RESERVE"
                      THEN q \in DOMAIN reservations'
                      ELSE /\ q \in TransitionRequests
                           /\ \E i \in DOMAIN transitions'[q.reservation] :
                                 transitions'[q.reservation][i].request = q
    BY DEF IdempotencyBacked
  <2>5. CASE x = row
    BY <1>14, <2>4, <2>5 DEF r
  <2>6. CASE x # row
    <3>1. x \in DOMAIN idempotency /\ idempotency'[x] = idempotency[x]
      BY <1>13, <2>3, <2>6
    <3>2. LET q == idempotency[x] IN
          IF x[2] = "RESERVE"
          THEN q \in DOMAIN reservations
          ELSE /\ q \in TransitionRequests
               /\ \E i \in DOMAIN transitions[q.reservation] :
                     transitions[q.reservation][i].request = q
      BY <1>01, <3>1 DEF IdempotencyBacked
    <3>3. CASE x[2] = "RESERVE"
      BY <1>9, <3>1, <3>2, <3>3
    <3>4. CASE x[2] # "RESERVE"
      BY <2>1, <2>2, <3>1, <3>2, <3>4
    <3> QED
      BY <3>3, <3>4
  <2> QED
    BY <2>5, <2>6
<1>17. \A p \in Orgs : last_clock[p] <= last_clock'[p]
  BY <1>0, <1>2, <1>3, <1>4, ClockForward
<1>18. ReservationsTimed'
  BY <1>0, <1>01, <1>4, <1>9, <1>17, TimedKept DEF ReservationsTimed
<1> DEFINE b == budgets[<<r.org, r.budget>>]
           s == reservations[r]
<1>19. /\ b \in BudgetDefs /\ s.created \in Nat /\ s.expires \in Int /\ now \in Nat
       /\ b.epoch \in Nat /\ WindowEnd(b, s.window) \in Int
       /\ b.epoch <= s.created /\ s.created <= now /\ now < s.expires
       /\ s.window = window_at(b, s.created)
       /\ s.expires <= WindowEnd(b, s.window)
  <2>1. /\ b.epoch <= s.created
        /\ s.window = window_at(b, s.created)
        /\ s.expires <= WindowEnd(b, s.window)
        /\ s.created <= last_clock[r.org]
    BY <1>01, <1>2 DEF ReservationsTimed, ReservationTimed
  <2>2. s.created \in Times /\ s.expires \in Int
    BY <1>0, <1>2 DEF RowsTypeOK, ReservationRecord
  <2>3. b \in BudgetDefs
    BY <1>0, <1>2 DEF RowsTypeOK, RowsTied
  <2>4. b.epoch \in Nat /\ b.seconds \in Nat
    BY <2>3, BudgetDefsAssumption DEF BudgetDefinition
  <2>5. s.created \in Nat /\ now \in Nat /\ last_clock[o] \in Int
    BY <1>0, <1>3, <2>2, TimesAssumption, ClockInt
  <2>6. s.window \in Nat
    BY <2>1, <2>3, <2>5, WindowAtBounds
  <2>7. WindowEnd(b, s.window) \in Int
    <3> HIDE DEF b, s
    <3> QED
      BY <2>4, <2>6 DEF WindowEnd, WindowStart
  <2>8. ~(s.expires <= now)
    BY <1>2, <1>6 DEF Due
  <2>9. s.created <= now /\ now < s.expires
    BY <1>2, <2>1, <2>2, <2>5, <2>8
  <2> QED
    BY <2>1, <2>2, <2>3, <2>4, <2>5, <2>7, <2>9
<1>20. \A e \in usage_entries' : e \in usage_entries \/ e = e0
  BY <1>5
<1>21. EntriesTimed'
  <2>1. \A e \in {e0} : EntryTimed(e)'
    BY <1>2, <1>7, <1>9, <1>19 DEF EntryTimed
  <2>2. \A e \in usage_entries : EntryTimed(e)'
    BY <1>0, <1>01, <1>9 DEF EntriesTimed, EntryTimed, RowsTied
  <2> QED
    BY <1>20, <2>1, <2>2 DEF EntriesTimed
<1>22. FindingsPast'
  <2>1. \A i \in DOMAIN retention_findings : retention_findings[i] \in RetentionFinding
    BY <1>01 DEF FindingsPast
  <2>2. \A i \in DOMAIN retention_findings : FindingPast(retention_findings[i])'
    BY <1>0, <1>01, <1>4, <1>17, <2>1, FindingsKept DEF FindingsPast
  <2> QED
    BY <1>01, <1>4, <2>2 DEF FindingsPast, FindingPast
<1>23. window_at(b, now) = s.window
  <2>1. now < WindowEnd(b, window_at(b, s.created))
    BY <1>19
  <2> QED
    BY <1>19, <2>1, WindowAtBetween
<1>24. RetentionHistoryClosed'
  <2> SUFFICES ASSUME NEW i \in DOMAIN retention_findings
               PROVE  LET f == retention_findings[i] IN
                      f.history = {e \in usage_entries' :
                                      /\ e.request.org = f.org
                                      /\ e.request.reservation.budget = f.budget
                                      /\ e.window <= f.cutoff}
    BY <1>4 DEF RetentionHistoryClosed
  <2> DEFINE f == retention_findings[i]
  <2>1. f.history = {e \in usage_entries : /\ e.request.org = f.org
                                           /\ e.request.reservation.budget = f.budget
                                           /\ e.window <= f.cutoff}
    BY <1>01 DEF RetentionHistoryClosed
  <2>2. ~(/\ e0.request.org = f.org
          /\ e0.request.reservation.budget = f.budget
          /\ e0.window <= f.cutoff)
    <3> SUFFICES ASSUME e0.request.org = f.org, e0.request.reservation.budget = f.budget
                 PROVE  ~(e0.window <= f.cutoff)
      OBVIOUS
    <3>1. f \in RetentionFinding /\ FindingPast(f)
      BY <1>01 DEF FindingsPast
    <3>2. f.org = o /\ f.budget = r.budget /\ f.cutoff \in Int
      BY <1>7, <3>1 DEF o, r, RetentionFinding
    <3>3. b.epoch <= last_clock[o] /\ f.cutoff < window_at(b, last_clock[o])
      BY <1>2, <3>1, <3>2 DEF FindingPast
    <3>4. last_clock[o] \in Nat /\ last_clock[o] <= now
      BY <1>0, <1>2, <1>3, <1>19, <3>3, ClockInt
    <3>5. /\ window_at(b, last_clock[o]) <= window_at(b, now)
          /\ window_at(b, last_clock[o]) \in Nat /\ window_at(b, now) \in Nat
      BY <1>19, <3>3, <3>4, WindowAtMonotone, WindowAtBounds
    <3>6. f.cutoff < window_at(b, now)
      BY <3>2, <3>3, <3>5
    <3> QED
      BY <1>7, <1>23, <3>2, <3>5, <3>6
  <2> HIDE DEF f
  <2> QED
    BY <1>5, <2>1, <2>2 DEF f
<1> QED
  BY <1>12, <1>15, <1>16, <1>18, <1>21, <1>22, <1>24 DEF Story

\* retention_due: its cutoff lies before the window of the instant that becomes
\* the organization's clock.
LEMMA RetentionDueStory ==
    ASSUME Inv, Inv', Story, NEW o \in Orgs, NEW id \in BudgetIds, NEW now \in Times,
           RetentionDue(o, id, now)
    PROVE  Story'
<1> DEFINE b == budgets[<<o, id>>]
           cutoff == window_at(b, now) - b.retention
           history == {e \in usage_entries : /\ e.request.org = o
                                             /\ e.request.reservation.budget = id
                                             /\ e.window <= cutoff}
           status == IF history # {} THEN "RETENTION_DUE" ELSE "NOT_DUE"
           f0 == [org |-> o, budget |-> id, cutoff |-> cutoff, history |-> history,
                  status |-> status]
<1>0. RowsTypeOK /\ RowsTied /\ RowsTypeOK' /\ RowsTied'
  BY DEF Inv, TypeOK
<1>01. /\ RowsAgree /\ KeyChargesOnce /\ IdempotencyBacked /\ ReservationsTimed
       /\ EntriesTimed /\ FindingsPast /\ RetentionHistoryClosed
  BY DEF Story
<1>1. /\ RetentionOutcome(o, id, now) = "RECORDED"
      /\ retention_findings' = Append(retention_findings, f0)
      /\ AdvanceClock(o, now)
      /\ UNCHANGED <<budgets, reservations, transitions, usage_entries, idempotency, outbox>>
  BY DEF RetentionDue
<1>2. ~(now < last_clock[o]) /\ <<o, id>> \in DOMAIN budgets /\ ~(now < b.epoch)
  BY <1>1, RetentionOpened
<1>3. \A p \in Orgs : last_clock[p] <= last_clock'[p]
  BY <1>0, <1>1, <1>2, ClockForward
<1>4. RowsAgree' /\ KeyChargesOnce' /\ IdempotencyBacked'
  BY <1>01, <1>1 DEF RowsAgree, KeyChargesOnce, IdempotencyBacked
<1>5. ReservationsTimed'
  BY <1>0, <1>01, <1>1, <1>3, TimedKept DEF ReservationsTimed
<1>6. EntriesTimed'
  BY <1>01, <1>1 DEF EntriesTimed, EntryTimed
<1>7. /\ b \in BudgetDefs /\ b.epoch \in Nat /\ b.retention \in Nat \ {0} /\ now \in Nat
  BY <1>0, <1>2, BudgetDefsAssumption, TimesAssumption DEF RowsTypeOK, BudgetDefinition
<1>8. b.epoch <= now /\ window_at(b, now) \in Nat
  BY <1>2, <1>7, WindowAtBounds
<1>9. cutoff \in Int /\ cutoff < window_at(b, now)
  BY <1>7, <1>8
<1>10. f0 \in RetentionFinding
  <2>1. history \subseteq UsageEntry
    BY <1>0 DEF RowsTypeOK
  <2> HIDE DEF history, cutoff
  <2> QED
    BY <1>9, <2>1 DEF RetentionFinding
<1>11. /\ f0.org = o /\ f0.budget = id /\ f0.cutoff = cutoff /\ f0.history = history
  OBVIOUS
<1> HIDE DEF f0
<1>12. /\ retention_findings \in Seq(RetentionFinding)
       /\ retention_findings' \in Seq(RetentionFinding)
       /\ \A i \in DOMAIN retention_findings' :
             \/ i \in DOMAIN retention_findings /\ retention_findings'[i] = retention_findings[i]
             \/ retention_findings'[i] = f0
  <2>1. retention_findings \in Seq(RetentionFinding)
    BY <1>01 DEF FindingsPast
  <2> QED
    BY <1>1, <1>10, <2>1
<1>13. \A f \in {f0} : FindingPast(f)'
  <2>1. last_clock'[o] = now
    BY <1>0, <1>1 DEF AdvanceClock, RowsTypeOK
  <2>2. budgets'[<<o, id>>] = b
    BY <1>1
  <2> SUFFICES ASSUME NEW f, f = f0
               PROVE  /\ <<f.org, f.budget>> \in DOMAIN budgets'
                      /\ budgets'[<<f.org, f.budget>>].epoch <= last_clock'[f.org]
                      /\ f.cutoff < window_at(budgets'[<<f.org, f.budget>>], last_clock'[f.org])
    BY DEF FindingPast, window_at
  <2> HIDE DEF cutoff, b
  <2> QED
    BY <1>1, <1>2, <1>8, <1>9, <1>11, <2>1, <2>2
<1>14. \A i \in DOMAIN retention_findings : FindingPast(retention_findings[i])
                                            /\ retention_findings[i] \in RetentionFinding
  BY <1>01 DEF FindingsPast
<1>15. FindingsPast'
  <2>1. \A f \in RetentionFinding : FindingPast(f) => FindingPast(f)'
    BY <1>0, <1>01, <1>1, <1>3, FindingsKept
  <2>2. ASSUME NEW i \in DOMAIN retention_findings'
        PROVE  FindingPast(retention_findings[i])'
    <3> DEFINE f == retention_findings'[i]
    <3>1. f = f0 \/ (f \in RetentionFinding /\ FindingPast(f))
      BY <1>12, <1>14, <2>2
    <3>2. \A g : g = f => FindingPast(g)'
      BY <1>13, <2>1, <3>1
    <3> QED
      BY <3>2 DEF FindingPast
  <2> QED
    BY <1>12, <2>2 DEF FindingsPast
<1>16. RetentionHistoryClosed'
  <2> SUFFICES ASSUME NEW i \in DOMAIN retention_findings'
               PROVE  LET f == retention_findings'[i] IN
                      f.history = {e \in usage_entries : /\ e.request.org = f.org
                                                         /\ e.request.reservation.budget = f.budget
                                                         /\ e.window <= f.cutoff}
    BY <1>1 DEF RetentionHistoryClosed
  <2>1. CASE retention_findings'[i] = f0
    BY <1>11, <2>1
  <2>2. CASE i \in DOMAIN retention_findings /\ retention_findings'[i] = retention_findings[i]
    BY <1>01, <2>2 DEF RetentionHistoryClosed
  <2> QED
    BY <1>12, <2>1, <2>2
<1> QED
  BY <1>4, <1>5, <1>6, <1>15, <1>16 DEF Story

-----------------------------------------------------------------------------
(***************************************************************************)
(* No internal error.                                                      *)
(***************************************************************************)

\* When the counters are the sums of the rows, _mark_reconciled finds a MATCH.
LEMMA StatusMatch ==
    ASSUME CountersTypeOK', Conservation', NEW k \in AggregateKeys
    PROVE  Status(k)' = "MATCH"
<1>1. committed'[k] \in Counters /\ reserved'[k] \in Counters
  BY DEF CountersTypeOK
<1>2. committed'[k] = [d \in Dims |-> committed'[k][d]]
      /\ reserved'[k] = [d \in Dims |-> reserved'[k][d]]
  BY <1>1 DEF Counters
<1>3. committed'[k] = [d \in Dims |-> Total(Entries(k)', ObservedOf(d)')]
  BY <1>2 DEF Conservation
<1>4. reserved'[k] = [d \in Dims |-> Total(Live(k)', RequestedOf(d))]
  BY <1>2 DEF Conservation, RequestedOf
<1>5. recomputed(k)' = aggregate(k)'
  BY <1>3, <1>4 DEF recomputed, aggregate, RequestedOf
<1> QED
  BY <1>5 DEF Status

\* So no mark of a mismatch is ever written.
LEMMA MarksMatch ==
    ASSUME Inv', NoMismatch, NEW touched, mark_reconciled(touched)
    PROVE  NoMismatch'
<1>1. \A k \in AggregateKeys : Status(k)' = "MATCH"
  BY StatusMatch DEF Inv, TypeOK
<1> QED
  BY <1>1 DEF mark_reconciled, NoMismatch

\* The window of a reservation is one the counters are kept for.
LEMMA ReservationKeyType ==
    ASSUME RowsTypeOK, NEW r \in DOMAIN reservations
    PROVE  ReservationKey(r) \in AggregateKeys
<1>1. r.org \in Orgs /\ r.budget \in BudgetIds
  BY RequestsAssumption DEF RowsTypeOK, ReserveRequest
<1>2. reservations[r].window \in Windows
  BY DEF RowsTypeOK, ReservationRecord
<1> QED
  BY <1>1, <1>2 DEF ReservationKey, AggregateKeys

\* _expire_due never fails: the budget of a due reservation is there and its
\* counters hold what is given back.
LEMMA OpeningClean ==
    ASSUME Inv, NEW o, NEW now
    PROVE  Opening(o, now) \in {"NONE", "CLOCK_REGRESSION"}
<1>0. RowsTypeOK /\ CountersTypeOK /\ RowsTied /\ Conservation
  BY DEF Inv, TypeOK
<1>1. \A r \in Due(o, now) : <<o, r.budget>> \in DOMAIN budgets
  BY <1>0 DEF RowsTied, Due
<1>2. ASSUME NEW k \in DueKeys(o, now), NEW d \in Dims
      PROVE  ~(ExpiredReserved(o, now)[k][d] < 0)
  <2>1. k \in AggregateKeys
    BY <1>0, ReservationKeyType DEF DueKeys, Due
  <2>2. ExpiredReserved(o, now)[k][d] \in Nat
    BY <1>0, <2>1, ExpiredReservedSum
  <2> QED
    BY <2>2
<1>3. ExpiryError(o, now) = "NONE"
  BY <1>1, <1>2 DEF ExpiryError
<1> QED
  BY <1>3 DEF Opening

\* reserve and evaluate answer no error of the ledger's own: a replayed key
\* finds its reservation and its budget.
LEMMA ReserveClean ==
    ASSUME Inv, Story, NEW q \in Requests, NEW now
    PROVE  /\ ReserveOutcome(q, now) \in
                 {"CLOCK_REGRESSION", "IDEMPOTENCY_CONFLICT", "REPLAY", "BUDGET_NOT_FOUND",
                  "BUDGET_DIGEST_MISMATCH", "BUDGET_SCOPE_MISMATCH", "BUDGET_SUSPENDED",
                  "RESERVATION_TTL_INVALID", "WINDOW_NOT_STARTED", "DIMENSION_OVERFLOW",
                  "BUDGET_EXCEEDED", "ADMIT"}
           /\ EvaluateOutcome(q, now) \in
                 {"CLOCK_REGRESSION", "BUDGET_NOT_FOUND", "BUDGET_DIGEST_MISMATCH",
                  "BUDGET_SCOPE_MISMATCH", "WINDOW_NOT_STARTED", "DIMENSION_OVERFLOW",
                  "EVALUATED"}
           /\ ReserveOutcome(q, now) = "REPLAY" => q \in DOMAIN reservations
<1> DEFINE row == <<q.org, "RESERVE", q.key>>
<1>1. Opening(q.org, now) \in {"NONE", "CLOCK_REGRESSION"}
  BY OpeningClean
<1>2. ASSUME row \in DOMAIN idempotency, idempotency[row] = q
      PROVE  q \in DOMAIN reservations /\ <<q.org, q.budget>> \in DOMAIN budgets
  <2>1. row[2] = "RESERVE"
    OBVIOUS
  <2>2. q \in DOMAIN reservations
    BY <1>2, <2>1 DEF Story, IdempotencyBacked
  <2> QED
    BY <2>2 DEF Inv, RowsTied
<1>3. BudgetRefusal(q) \in {"NONE", "BUDGET_NOT_FOUND", "BUDGET_DIGEST_MISMATCH",
                            "BUDGET_SCOPE_MISMATCH"}
  BY DEF BudgetRefusal
<1>4. EvaluateOutcome(q, now) \in
                 {"CLOCK_REGRESSION", "BUDGET_NOT_FOUND", "BUDGET_DIGEST_MISMATCH",
                  "BUDGET_SCOPE_MISMATCH", "WINDOW_NOT_STARTED", "DIMENSION_OVERFLOW",
                  "EVALUATED"}
  BY <1>1, <1>3 DEF EvaluateOutcome
<1>5. ReserveOutcome(q, now) = "REPLAY" => q \in DOMAIN reservations
  BY <1>1, <1>3 DEF ReserveOutcome
<1>6. CASE Opening(q.org, now) # "NONE" \/ row \in DOMAIN idempotency
  <2>1. ReserveOutcome(q, now) \in {"CLOCK_REGRESSION", "IDEMPOTENCY_CONFLICT", "REPLAY"}
    BY <1>1, <1>2, <1>6 DEF ReserveOutcome
  <2> QED
    BY <1>4, <1>5, <2>1
<1>7. CASE ~(Opening(q.org, now) # "NONE" \/ row \in DOMAIN idempotency)
  <2>1. ReserveOutcome(q, now) \in
                 {"BUDGET_NOT_FOUND",
                  "BUDGET_DIGEST_MISMATCH", "BUDGET_SCOPE_MISMATCH", "BUDGET_SUSPENDED",
                  "RESERVATION_TTL_INVALID", "WINDOW_NOT_STARTED", "DIMENSION_OVERFLOW",
                  "BUDGET_EXCEEDED", "ADMIT"}
    BY <1>3, <1>7 DEF ReserveOutcome
  <2> QED
    BY <1>4, <1>5, <2>1
<1> QED
  BY <1>6, <1>7

\* A live reservation's amounts are in the counters of its window, with room for
\* what a commit may observe.
LEMMA LiveCharged ==
    ASSUME Inv, NEW o, NEW now, NEW r \in DOMAIN reservations,
           reservations[r].state = "RESERVED", r \notin Due(o, now), NEW d \in Dims
    PROVE  /\ ExpiredReserved(o, now)[ReservationKey(r)][d] >= r.requested[d]
           /\ committed[ReservationKey(r)][d] + r.requested[d] <= SafeMax
           /\ committed[ReservationKey(r)][d] \in Nat
<1> DEFINE k == ReservationKey(r)
           S == Live(k) \ Due(o, now)
           f == RequestedOf(d)
<1>0. RowsTypeOK /\ CountersTypeOK /\ Conservation /\ Representable
  BY DEF Inv, TypeOK
<1>1. k \in AggregateKeys /\ r \in Requests
  BY <1>0, ReservationKeyType DEF RowsTypeOK
<1>2. r \in S
  BY DEF Live
<1>3. IsFiniteSet(S) /\ IsFiniteSet(S \ {r})
  BY <1>0, LiveFinite, FS_Subset
<1>4. f[r] = r.requested[d] /\ f[r] \in 0..SafeMax
  BY <1>1, RequestedAmount
<1>5. Total(S \ {r}, f) = Total(S, f) - f[r]
  BY <1>2, <1>3, <1>4, TotalRemove
<1>6. Total(S \ {r}, f) \in Nat /\ Total(S, f) \in Nat
  BY <1>3, TotalNat
<1>7. /\ ExpiredReserved(o, now)[k][d] = Total(S, f)
      /\ ExpiredReserved(o, now)[k][d] <= reserved[k][d]
  BY <1>0, <1>1, ExpiredReservedSum
<1>8. /\ committed[k][d] \in Nat /\ reserved[k][d] \in Nat
      /\ committed[k][d] + reserved[k][d] <= SafeMax
  BY <1>0, <1>1 DEF CountersTypeOK, Counters, Representable
<1> DEFINE n == Total(S, f)
           m == Total(S \ {r}, f)
           x == r.requested[d]
           e == ExpiredReserved(o, now)[k][d]
           c == committed[k][d]
           v == reserved[k][d]
<1>9. /\ n \in Nat /\ m \in Nat /\ x \in 0..SafeMax /\ m = n - x
      /\ e = n /\ e <= v /\ c \in Nat /\ v \in Nat /\ c + v <= SafeMax
  BY <1>4, <1>5, <1>6, <1>7, <1>8
<1> HIDE DEF n, m, x, e, c, v
<1>10. e >= x /\ c + x <= SafeMax /\ c \in Nat
  BY <1>9, SafeMaxAssumption
<1> QED
  BY <1>10 DEF e, x, c

\* Neither do commit and release: a replayed key finds its transition, and what
\* was reserved can be committed.
LEMMA TransitionClean ==
    ASSUME Inv, Story, NEW t \in TransitionRequests, NEW now
    PROVE  TransitionOutcome(t, now) \in
               {"CLOCK_REGRESSION", "IDEMPOTENCY_CONFLICT", "REPLAY",
                "RESERVATION_NOT_FOUND", "RESERVATION_EXPIRED", "RESERVATION_TERMINAL",
                "COMMIT_EXCEEDS_RESERVATION", "APPLY"}
<1> DEFINE r == t.reservation
           row == <<t.org, t.target, t.key>>
           k == ReservationKey(r)
<1>0. RowsTypeOK /\ RowsTied
  BY DEF Inv, TypeOK
<1>1. Opening(t.org, now) \in {"NONE", "CLOCK_REGRESSION"}
  BY OpeningClean
<1>2. /\ t.org \in Orgs /\ t.target \in {"COMMITTED", "RELEASED"}
      /\ t.observed \in Amounts
  BY TransitionRequestsAssumption DEF TransitionRequest
<1>3. ASSUME row \in DOMAIN idempotency, idempotency[row] = t
      PROVE  \E i \in DOMAIN transitions[r] : transitions[r][i].request = t
  <2>1. row[2] # "RESERVE"
    BY <1>2
  <2> QED
    BY <1>3, <2>1 DEF Story, IdempotencyBacked
<1>4. CASE Opening(t.org, now) # "NONE" \/ row \in DOMAIN idempotency
  BY <1>1, <1>3, <1>4 DEF TransitionOutcome
<1>5. CASE /\ ~(Opening(t.org, now) # "NONE" \/ row \in DOMAIN idempotency)
           /\ \/ r \notin DOMAIN reservations
              \/ r.org # t.org
              \/ ExpiredReservations(t.org, now)[r].state = "EXPIRED"
              \/ reservations[r].state # "RESERVED"
              \/ t.target = "COMMITTED" /\ Exceeds(t.observed, r.requested)
  BY <1>5 DEF TransitionOutcome
<1>6. CASE /\ ~(Opening(t.org, now) # "NONE" \/ row \in DOMAIN idempotency)
           /\ r \in DOMAIN reservations
           /\ r.org = t.org
           /\ ExpiredReservations(t.org, now)[r].state # "EXPIRED"
           /\ reservations[r].state = "RESERVED"
           /\ ~(t.target = "COMMITTED" /\ Exceeds(t.observed, r.requested))
  <2>1. <<t.org, r.budget>> \in DOMAIN budgets
    BY <1>0, <1>6 DEF RowsTied
  <2>2. r \notin Due(t.org, now)
    BY <1>0, <1>6, ExpiredReservation
  <2>3. ASSUME NEW d \in Dims
        PROVE  /\ ~(ExpiredReserved(t.org, now)[k][d] < r.requested[d])
               /\ t.target = "COMMITTED" => ~(committed[k][d] + t.observed[d] > SafeMax)
    <3>1. /\ ExpiredReserved(t.org, now)[k][d] >= r.requested[d]
          /\ committed[k][d] + r.requested[d] <= SafeMax
          /\ committed[k][d] \in Nat
      BY <1>6, <2>2, LiveCharged
    <3>2. r.requested[d] \in 0..SafeMax /\ t.observed[d] \in 0..SafeMax
      BY <1>0, <1>2, <1>6, RequestedAmount DEF RowsTypeOK, Amounts
    <3>3. ExpiredReserved(t.org, now)[k][d] \in Int
      <4>1. k \in AggregateKeys
        BY <1>0, <1>6, ReservationKeyType
      <4>2. ExpiredReserved(t.org, now)[k][d] \in Nat
        BY <4>1, ExpiredReservedSum DEF Inv, TypeOK
      <4> QED
        BY <4>2
    <3>4. t.target = "COMMITTED" => ~(t.observed[d] > r.requested[d])
      BY <1>6 DEF Exceeds
    <3> QED
      BY <3>1, <3>2, <3>3, <3>4, SafeMaxAssumption
  <2>4. t.target = "COMMITTED" =>
            ~Overflows([d \in Dims |-> committed[k][d] + t.observed[d]])
    BY <2>3 DEF Overflows
  <2>5. TransitionOutcome(t, now) = "APPLY"
    BY <1>6, <2>1, <2>3, <2>4 DEF TransitionOutcome
  <2> QED
    BY <2>5
<1> QED
  BY <1>4, <1>5, <1>6

\* list_budgets meets no overflow: what reserve admitted stays representable.
LEMMA ListClean ==
    ASSUME Inv, NEW x \in DOMAIN budgets, NEW now \in Times, ~(now < budgets[x].epoch)
    PROVE  ~StateOverflows(budgets[x], window_at(budgets[x], now))
<1> DEFINE b == budgets[x]
           k == <<b.org, b.budget, window_at(b, now)>>
<1>0. RowsTypeOK /\ Representable /\ CountersTypeOK
  BY DEF Inv, TypeOK
<1>1. b \in BudgetDefs
  BY <1>0 DEF RowsTypeOK
<1>2. b.org \in Orgs /\ b.budget \in BudgetIds /\ b.epoch \in Nat
  BY <1>1, BudgetDefsAssumption DEF BudgetDefinition
<1>3. now >= b.epoch
  BY <1>2, TimesAssumption
<1>4. k \in AggregateKeys
  BY <1>1, <1>2, <1>3, WindowAtType DEF AggregateKeys
<1>5. \A d \in Dims : ~(committed[k][d] + reserved[k][d] > SafeMax)
  <2> TAKE d \in Dims
  <2>1. /\ committed[k][d] \in Nat /\ reserved[k][d] \in Nat
        /\ committed[k][d] + reserved[k][d] <= SafeMax
    BY <1>0, <1>4 DEF CountersTypeOK, Counters, Representable
  <2> QED
    BY <2>1, SafeMaxAssumption
<1> QED
  BY <1>5 DEF StateOverflows, Overflows

\* _budget_state never waits for a reset: no window is marked MISMATCH.
LEMMA BudgetStateClean ==
    ASSUME NoMismatch', NEW x, budgets'[x] \in BudgetDefs, NEW now
    PROVE  BudgetState(budgets[x], window_at(budgets[x], now))'
             \in {"SUSPENDED", "EXHAUSTED", "WARNING", "AVAILABLE"}
<1> DEFINE b == budgets'[x]
<1>1. b.org \in Orgs /\ b.budget \in BudgetIds
  BY BudgetDefsAssumption DEF BudgetDefinition
<1>2. \A v \in Windows : reconciled'[<<b.org, b.budget, v>>] # "MISMATCH"
  BY <1>1 DEF NoMismatch, AggregateKeys
<1> DEFINE w == (now - b.epoch) \div b.seconds
           pending == \E v \in Windows :
                         v < w /\ reconciled'[<<b.org, b.budget, v>>] = "MISMATCH"
           total == [d \in Dims |-> committed'[<<b.org, b.budget, w>>][d]
                                      + reserved'[<<b.org, b.budget, w>>][d]]
           full == \E d \in Dims : b.limits[d] > 0 /\ total[d] >= b.limits[d]
           close == \E d \in Dims : b.limits[d] > 0
                                      /\ total[d] * 10000 >= b.limits[d] * b.warning
<1>3. BudgetState(budgets[x], window_at(budgets[x], now))'
        = IF ~b.enabled THEN "SUSPENDED"
          ELSE IF pending THEN "RESET_PENDING"
          ELSE IF full THEN "EXHAUSTED"
          ELSE IF close THEN "WARNING"
          ELSE "AVAILABLE"
  BY Zenon DEF BudgetState, window_at
<1>4. ~pending
  BY <1>2
<1> HIDE DEF pending, full, close
<1> QED
  BY <1>3, <1>4

-----------------------------------------------------------------------------
\* An empty ledger tells an empty story.
LEMMA InitHistory == Init => HistoryInv
<1> SUFFICES ASSUME Init PROVE HistoryInv
  OBVIOUS
<1> USE DEF Init
<1>1. Inv
  BY InitInv
<1>2. RowsAgree /\ KeyChargesOnce /\ IdempotencyBacked
  BY DEF RowsAgree, KeyChargesOnce, IdempotencyBacked
<1>3. ReservationsTimed /\ EntriesTimed /\ FindingsPast /\ RetentionHistoryClosed
  BY DEF ReservationsTimed, EntriesTimed, FindingsPast, RetentionHistoryClosed
<1>4. NoMismatch /\ NoInternalError
  BY DEF NoMismatch, NoInternalError
<1> QED
  BY <1>1, <1>2, <1>3, <1>4 DEF HistoryInv, Story

\* A step that leaves the tables of LedgerState alone (a refusal, a replay, a
\* report) leaves their story alone.
LEMMA UntouchedStory ==
    ASSUME Inv, Inv', Story, NoMismatch, UNCHANGED ledgerVars
    PROVE  Story' /\ NoMismatch'
<1>1. NoMismatch'
  BY DEF NoMismatch, ledgerVars
<1>2. \A x \in DOMAIN budgets : x \in DOMAIN budgets' /\ budgets'[x] = budgets[x]
  BY DEF ledgerVars
<1>3. Story'
  BY <1>2, AddBudgetStory DEF ledgerVars
<1> QED
  BY <1>1, <1>3

\* Every operation of the ledger keeps the story straight, and answers no
\* internal error, whatever was last answered.
LEMMA NextStory ==
    ASSUME Inv, Story, NoMismatch, [Next]_vars
    PROVE  Inv' /\ Story' /\ NoMismatch' /\ (NoInternalError' \/ UNCHANGED vars)
<1>0. Inv /\ Story /\ NoMismatch /\ Inv'
  BY NextInv
<1> SUFFICES Story' /\ NoMismatch' /\ (NoInternalError' \/ UNCHANGED vars)
  BY <1>0
<1>01. RowsTypeOK /\ RowsTypeOK' /\ RowsTied
  BY <1>0 DEF Inv, TypeOK
<1>1. ASSUME UNCHANGED ledgerVars
      PROVE  Story' /\ NoMismatch'
  BY <1>0, <1>1, UntouchedStory
<1>2. CASE UNCHANGED vars
  BY <1>0, <1>1, <1>2 DEF vars
<1>3. ASSUME NEW b \in BudgetDefs, AddBudget(b)
      PROVE  Story' /\ NoMismatch' /\ NoInternalError'
  <2>1. NoInternalError'
    BY <1>3 DEF AddBudget, Refuse, Answer, NoInternalError
  <2>2. CASE UNCHANGED ledgerVars
    BY <1>1, <2>1, <2>2
  <2>3. CASE ~UNCHANGED ledgerVars
    <3>1. /\ \A x \in DOMAIN budgets : x \in DOMAIN budgets' /\ budgets'[x] = budgets[x]
          /\ UNCHANGED <<reservations, transitions, usage_entries, idempotency, outbox,
                         retention_findings, last_clock, reconciled>>
      BY <1>3, <2>3 DEF AddBudget, Refuse
    <3>2. Story'
      BY <1>0, <3>1, AddBudgetStory
    <3>3. NoMismatch'
      BY <1>0, <3>1 DEF NoMismatch
    <3> QED
      BY <2>1, <3>2, <3>3
  <2> QED
    BY <2>2, <2>3
<1>4. ASSUME NEW q \in Requests, NEW now \in Times, ReserveRefused(q, now)
      PROVE  Story' /\ NoMismatch' /\ NoInternalError'
  <2>1. UNCHANGED ledgerVars
    BY <1>4 DEF ReserveRefused, Refuse
  <2>2. reply'.op = "reserve"
    BY <1>4 DEF ReserveRefused, Refuse, Answer
  <2>3. reply'.code \notin {"KEY_ERROR", "STOP_ITERATION", "COUNTER_UNDERFLOW",
                            "MISMATCH", "RESET_PENDING"}
    <3>1. CASE ReserveOutcome(q, now) = "REPLAY"
      <4>1. reply'.code = ExpiredReservations(q.org, now)[q].state
        BY <1>4, <3>1 DEF ReserveRefused, Refuse, Answer, AuditedDenials
      <4>2. q \in DOMAIN reservations
        BY <1>0, <3>1, ReserveClean
      <4>3. ExpiredReservations(q.org, now)[q] \in ReservationRecord
        BY <1>01, <4>2, CandidateTypes
      <4> QED
        BY <4>1, <4>3 DEF ReservationRecord, Terminal
    <3>2. CASE ReserveOutcome(q, now) # "REPLAY"
      <4>1. reply'.code \in {ReserveOutcome(q, now), "STORE_COMMIT_FAILED"}
        BY <1>4, <3>2 DEF ReserveRefused, Refuse, Answer
      <4> QED
        BY <1>0, <4>1, ReserveClean
    <3> QED
      BY <3>1, <3>2
  <2> QED
    BY <1>1, <2>1, <2>2, <2>3 DEF NoInternalError
<1>5. ASSUME NEW q \in Requests, NEW now \in Times, ReserveDenied(q, now)
      PROVE  Story' /\ NoMismatch' /\ NoInternalError'
  <2>1. q.org \in Orgs /\ ~(now < last_clock[q.org])
    BY <1>5, RequestsAssumption, ReserveOpened, OpenedInOrder
    DEF ReserveDenied, ReserveRequest
  <2>2. Story'
    BY <1>0, <1>5, <2>1, PersistExpiriesStory DEF ReserveDenied
  <2>3. NoMismatch'
    BY <1>0, <1>5, MarksMatch DEF ReserveDenied
  <2>4. NoInternalError'
    BY <1>5 DEF ReserveDenied, AuditedDenials, Answer, NoInternalError
  <2> QED
    BY <2>2, <2>3, <2>4
<1>6. ASSUME NEW q \in Requests, NEW now \in Times, ReserveAdmitted(q, now)
      PROVE  Story' /\ NoMismatch' /\ NoInternalError'
  <2>1. Story'
    BY <1>0, <1>6, ReserveAdmittedStory
  <2>2. \E touched : mark_reconciled(touched)
    BY <1>6 DEF ReserveAdmitted
  <2>3. NoMismatch'
    BY <1>0, <2>2, MarksMatch
  <2>4. NoInternalError'
    BY <1>6 DEF ReserveAdmitted, Answer, NoInternalError
  <2> QED
    BY <2>1, <2>3, <2>4
<1>7. ASSUME NEW q \in Requests, NEW now \in Times, EvaluateRefused(q, now)
      PROVE  Story' /\ NoMismatch' /\ NoInternalError'
  <2>1. UNCHANGED ledgerVars /\ reply'.op = "evaluate"
    BY <1>7 DEF EvaluateRefused, Refuse, Answer
  <2>2. reply'.code \in {EvaluateOutcome(q, now), "STORE_COMMIT_FAILED"}
    BY <1>7 DEF EvaluateRefused, Refuse, Answer
  <2>3. reply'.code \notin {"KEY_ERROR", "STOP_ITERATION", "COUNTER_UNDERFLOW",
                            "MISMATCH", "RESET_PENDING"}
    BY <1>0, <2>2, ReserveClean
  <2> QED
    BY <1>1, <2>1, <2>3 DEF NoInternalError
<1>8. ASSUME NEW q \in Requests, NEW now \in Times, Evaluated(q, now)
      PROVE  Story' /\ NoMismatch' /\ NoInternalError'
  <2> DEFINE x == <<q.org, q.budget>>
  <2>1. Story' /\ NoMismatch'
    <3>1. CASE UNCHANGED ledgerVars
      BY <1>1, <3>1
    <3>2. CASE ~UNCHANGED ledgerVars
      <4>1. /\ PersistExpiries(q.org, now)
            /\ \E touched : mark_reconciled(touched)
            /\ retention_findings' = retention_findings
        BY <1>8, <3>2 DEF Evaluated
      <4>2. q.org \in Orgs /\ ~(now < last_clock[q.org])
        BY <1>8, RequestsAssumption, EvaluateOpened, OpenedInOrder
        DEF Evaluated, ReserveRequest
      <4> QED
        BY <1>0, <4>1, <4>2, PersistExpiriesStory, MarksMatch
    <3> QED
      BY <3>1, <3>2
  <2>2. budgets' = budgets /\ x \in DOMAIN budgets
    <3>1. EvaluateOutcome(q, now) = "EVALUATED" /\ budgets' = budgets
      BY <1>8 DEF Evaluated, PersistExpiries, ledgerVars
    <3>2. BudgetRefusal(q) = "NONE"
      BY <3>1 DEF EvaluateOutcome, BudgetRefusal, Opening, ExpiryError
    <3> QED
      BY <3>1, <3>2 DEF BudgetRefusal
  <2>3. budgets'[x] \in BudgetDefs
    BY <1>01, <2>2 DEF RowsTypeOK
  <2>4. /\ reply'.op = "evaluate"
        /\ reply'.code = BudgetState(budgets[x], window_at(budgets[x], now))'
    BY <1>8 DEF Evaluated, Answer
  <2>5. reply'.code \in {"SUSPENDED", "EXHAUSTED", "WARNING", "AVAILABLE"}
    BY <2>1, <2>3, <2>4, BudgetStateClean
  <2> QED
    BY <2>1, <2>4, <2>5 DEF NoInternalError
<1>9. ASSUME NEW t \in TransitionRequests, NEW now \in Times, TransitionRefused(t, now)
      PROVE  Story' /\ NoMismatch' /\ NoInternalError'
  <2>1. UNCHANGED ledgerVars
    BY <1>9 DEF TransitionRefused, Refuse
  <2>2. reply'.code \in {TransitionOutcome(t, now), t.target, "STORE_COMMIT_FAILED"}
    BY <1>9 DEF TransitionRefused, Refuse, Answer
  <2>3. t.target \in {"COMMITTED", "RELEASED"}
    BY TransitionRequestsAssumption DEF TransitionRequest
  <2>4. reply'.code \notin {"KEY_ERROR", "STOP_ITERATION", "COUNTER_UNDERFLOW",
                            "MISMATCH", "RESET_PENDING", "DIMENSION_OVERFLOW"}
    BY <1>0, <2>2, <2>3, TransitionClean
  <2> QED
    BY <1>1, <2>1, <2>4 DEF NoInternalError
<1>10. ASSUME NEW t \in TransitionRequests, NEW now \in Times, TransitionApplied(t, now)
       PROVE  Story' /\ NoMismatch' /\ NoInternalError'
  <2>1. Story'
    BY <1>0, <1>10, TransitionAppliedStory
  <2>2. \E touched : mark_reconciled(touched)
    BY <1>10 DEF TransitionApplied
  <2>3. NoMismatch'
    BY <1>0, <2>2, MarksMatch
  <2>4. t.target \in {"COMMITTED", "RELEASED"}
    BY TransitionRequestsAssumption DEF TransitionRequest
  <2>5. reply'.code = t.target
    BY <1>10 DEF TransitionApplied, Answer
  <2> QED
    BY <2>1, <2>3, <2>4, <2>5 DEF NoInternalError
<1>11. ASSUME NEW o \in Orgs, NEW now \in Times,
              ListUsage(o, now) \/ ReconciliationCurrent(o, now)
       PROVE  Story' /\ NoMismatch' /\ NoInternalError'
  <2>1. UNCHANGED ledgerVars
    BY <1>11 DEF ListUsage, ReconciliationCurrent, Refuse
  <2>2. /\ reply'.op \in {"list_usage", "reconciliation_current"}
        /\ reply'.code \in {"CLOCK_REGRESSION", "LISTED", "WINDOW_NOT_STARTED", "STALE",
                            "CURRENT"}
    BY <1>11 DEF ListUsage, ReconciliationCurrent, reconciliation_current, Refuse, Answer
  <2> QED
    BY <1>1, <2>1, <2>2 DEF NoInternalError
<1>12. ASSUME NEW o \in Orgs, NEW now \in Times, ListBudgets(o, now)
       PROVE  Story' /\ NoMismatch' /\ NoInternalError'
  <2> DEFINE mine == {budgets[x] : x \in {y \in DOMAIN budgets : y[1] = o}}
  <2>1. UNCHANGED ledgerVars
    BY <1>12 DEF ListBudgets, Refuse
  <2>2. (\E b \in mine : now < b.epoch)
        \/ ~\E b \in mine : StateOverflows(b, window_at(b, now))
    BY <1>0, ListClean
  <2>3. reply'.code \in {"CLOCK_REGRESSION", "WINDOW_NOT_STARTED", "LISTED"}
    BY <1>12, <2>2 DEF ListBudgets, Refuse, Answer
  <2> QED
    BY <1>1, <2>1, <2>3 DEF NoInternalError
<1>13. ASSUME NEW o \in Orgs, NEW id \in BudgetIds, NEW now \in Times,
              ReconcileRefused(o, id, now) \/ RetentionRefused(o, id, now)
       PROVE  Story' /\ NoMismatch' /\ NoInternalError'
  <2>1. UNCHANGED ledgerVars
    BY <1>13 DEF ReconcileRefused, RetentionRefused, Refuse
  <2>2. Opening(o, now) \in {"NONE", "CLOCK_REGRESSION"}
    BY <1>0, OpeningClean
  <2>3. reply'.code \in {"CLOCK_REGRESSION", "BUDGET_NOT_FOUND", "WINDOW_NOT_STARTED",
                         "STORE_COMMIT_FAILED"}
    BY <1>13, <2>2 DEF ReconcileRefused, RetentionRefused, ReconcileOutcome,
                       RetentionOutcome, Refuse, Answer
  <2> QED
    BY <1>1, <2>1, <2>3 DEF NoInternalError
<1>14. ASSUME NEW o \in Orgs, NEW id \in BudgetIds, NEW now \in Times,
              Reconcile(o, id, now)
       PROVE  Story' /\ NoMismatch' /\ NoInternalError'
  <2>1. /\ ~(now < last_clock[o]) /\ <<o, id>> \in DOMAIN budgets
        /\ ~(now < budgets[<<o, id>>].epoch)
    BY <1>14, ReconcileOpened, OpenedInOrder DEF Reconcile
  <2>2. Story'
    BY <1>0, <1>14, <2>1, PersistExpiriesStory DEF Reconcile
  <2>3. \E touched : mark_reconciled(touched)
    BY <1>14 DEF Reconcile
  <2>4. NoMismatch'
    BY <1>0, <2>3, MarksMatch
  <2>5. PICK k : k = <<o, id, window_at(budgets[<<o, id>>], now)>>
    OBVIOUS
  <2>6. budgets' = budgets
    BY <1>14 DEF Reconcile, PersistExpiries
  <2>7. reply'.code = Status(k)' /\ reply'.op = "reconcile"
    BY <1>14, <2>5, <2>6 DEF Reconcile, Answer
  <2>8. k \in AggregateKeys
    <3>1. budgets[<<o, id>>] \in BudgetDefs
      BY <1>01, <2>1 DEF RowsTypeOK
    <3>2. budgets[<<o, id>>].epoch \in Nat
      BY <3>1, BudgetDefsAssumption DEF BudgetDefinition
    <3>3. now >= budgets[<<o, id>>].epoch
      BY <2>1, <3>2, TimesAssumption
    <3> QED
      BY <2>5, <3>1, <3>3, WindowAtType DEF AggregateKeys
  <2>9. reply'.code = "MATCH"
    BY <1>0, <2>7, <2>8, StatusMatch DEF Inv, TypeOK
  <2> QED
    BY <2>2, <2>4, <2>7, <2>9 DEF NoInternalError
<1>15. ASSUME NEW o \in Orgs, NEW id \in BudgetIds, NEW now \in Times,
              RetentionDue(o, id, now)
       PROVE  Story' /\ NoMismatch' /\ NoInternalError'
  <2>1. Story'
    BY <1>0, <1>15, RetentionDueStory
  <2>2. NoMismatch'
    BY <1>0, <1>15 DEF RetentionDue, NoMismatch
  <2>3. reply'.code \in {"RETENTION_DUE", "NOT_DUE"}
    BY <1>15 DEF RetentionDue, Answer
  <2> QED
    BY <2>1, <2>2, <2>3 DEF NoInternalError
<1> QED
  BY <1>2, <1>3, <1>4, <1>5, <1>6, <1>7, <1>8, <1>9, <1>10, <1>11, <1>12, <1>13,
     <1>14, <1>15 DEF Next, Handlers, Maintenance

\* So the invariant is kept.
LEMMA NextHistory == HistoryInv /\ [Next]_vars => HistoryInv'
<1> SUFFICES ASSUME HistoryInv, [Next]_vars
             PROVE  HistoryInv'
  OBVIOUS
<1>1. Inv /\ Story /\ NoMismatch /\ NoInternalError
  BY DEF HistoryInv
<1>2. Inv' /\ Story' /\ NoMismatch' /\ (NoInternalError' \/ UNCHANGED vars)
  BY <1>1, NextStory
<1>3. NoInternalError'
  BY <1>1, <1>2 DEF vars, NoInternalError
<1> QED
  BY <1>2, <1>3 DEF HistoryInv

\* The story holds throughout.
LEMMA HistoryInvariance == Spec => []HistoryInv
BY InitHistory, NextHistory, PTL DEF Spec

\* The transition log, the outbox and the usage entries of every reservation
\* always tell one story, whatever interleaving of callers' commits and
\* releases and of the expiries other operations trigger.
THEOREM OneStory == Spec => []RowsAgree
<1>1. HistoryInv => RowsAgree
  BY DEF HistoryInv, Story
<1> QED
  BY <1>1, HistoryInvariance, PTL

\* Two different requests with one idempotency key are never both applied, and
\* no request is applied twice.
THEOREM OneChargePerKey == Spec => []KeyChargesOnce
<1>1. HistoryInv => KeyChargesOnce
  BY DEF HistoryInv, Story
<1> QED
  BY <1>1, HistoryInvariance, PTL

\* A retention finding is never overtaken by late usage.
THEOREM RetentionIsFinal == Spec => []RetentionHistoryClosed
<1>1. HistoryInv => RetentionHistoryClosed
  BY DEF HistoryInv, Story
<1> QED
  BY <1>1, HistoryInvariance, PTL

\* The ledger never answers with an error of its own making: no lookup dangles,
\* no counter underflows, no reconciliation mismatches, and what was reserved
\* can be committed and listed.
THEOREM NeverInternalError == Spec => []NoInternalError
<1>1. HistoryInv => NoInternalError
  BY DEF HistoryInv
<1> QED
  BY <1>1, HistoryInvariance, PTL

\* A commit is charged to the window its instant lies in, because a reservation
\* never outlives its window and _transition expires it first.
THEOREM ChargedInTime == Spec => []ChargedInItsWindow
<1>1. HistoryInv => ChargedInItsWindow
  <2> SUFFICES ASSUME HistoryInv, NEW e \in usage_entries
               PROVE  LET r == e.request.reservation
                          b == budgets[<<r.org, r.budget>>]
                      IN  /\ reservations[r].created <= e.at
                          /\ e.at < reservations[r].expires
                          /\ window_at(b, e.at) = e.window
    BY DEF ChargedInItsWindow
  <2> DEFINE r == e.request.reservation
             b == budgets[<<r.org, r.budget>>]
             s == reservations[r]
  <2>0. RowsTypeOK /\ RowsTied
    BY DEF HistoryInv, Inv, TypeOK
  <2>1. r \in DOMAIN reservations /\ <<r.org, r.budget>> \in DOMAIN budgets
    BY <2>0 DEF RowsTied
  <2>2. b \in BudgetDefs
    BY <2>0, <2>1 DEF RowsTypeOK
  <2>3. /\ b.epoch <= s.created /\ s.window = window_at(b, s.created)
        /\ s.expires <= WindowEnd(b, s.window)
    BY <2>1 DEF HistoryInv, Story, ReservationsTimed, ReservationTimed
  <2>4. e.window = s.window /\ s.created <= e.at /\ e.at < s.expires
    BY DEF HistoryInv, Story, EntriesTimed, EntryTimed
  <2>5. s.created \in Nat /\ e.at \in Nat /\ s.expires \in Int
    BY <2>0, <2>1, TimesAssumption DEF RowsTypeOK, ReservationRecord, UsageEntry
  <2>6. window_at(b, e.at) = s.window
    <3>1. b.epoch \in Nat /\ b.seconds \in Nat \ {0}
      BY <2>2, BudgetDefsAssumption DEF BudgetDefinition
    <3>2. s.window \in Nat
      BY <2>2, <2>3, <2>5, WindowAtBounds
    <3>3. WindowEnd(b, s.window) \in Int
      BY <3>1, <3>2 DEF WindowEnd, WindowStart
    <3>4. e.at < WindowEnd(b, window_at(b, s.created))
      BY <2>3, <2>4, <2>5, <3>3
    <3> QED
      BY <2>2, <2>3, <2>4, <2>5, <3>4, WindowAtBetween
  <2> QED
    BY <2>4, <2>6
<1> QED
  BY <1>1, HistoryInvariance, PTL

-----------------------------------------------------------------------------
(***************************************************************************)
(* What a step may never do.                                               *)
(***************************************************************************)

\* A row appended to a log leaves the rows before it alone.
LEMMA LogGrows ==
    ASSUME NEW s \in Seq(TransitionRow), NEW t \in Seq(TransitionRow),
           t = s \/ \E x \in TransitionRow : t = Append(s, x)
    PROVE  Len(t) >= Len(s) /\ SubSeq(t, 1, Len(s)) = s
<1>1. CASE t = s
  <2>1. Len(s) \in Nat /\ SubSeq(s, 1, Len(s)) = s
    BY SubSeqFull
  <2> QED
    BY <1>1, <2>1
<1>2. CASE \E x \in TransitionRow : t = Append(s, x)
  <2>1. PICK x \in TransitionRow : t = Append(s, x)
    BY <1>2
  <2>2. Len(s) \in Nat /\ Len(t) = Len(s) + 1
    BY <2>1
  <2>3. SubSeq(t, 1, Len(s)) = s
    <3>1. SubSeq(t, 1, Len(s)) \in Seq(TransitionRow) /\ Len(SubSeq(t, 1, Len(s))) = Len(s)
      BY <2>2
    <3>2. \A i \in 1..Len(s) : SubSeq(t, 1, Len(s))[i] = s[i]
      BY <2>1, <2>2
    <3> QED
      BY <3>1, <3>2, SeqEqual
  <2> QED
    BY <2>2, <2>3
<1> QED
  BY <1>1, <1>2

\* What history may do in a step.
Grows ==
    /\ \A r \in DOMAIN reservations :
          /\ r \in DOMAIN reservations'
          /\ reservations[r].state \in Terminal => reservations'[r] = reservations[r]
    /\ \A r \in Requests :
          /\ Len(transitions'[r]) >= Len(transitions[r])
          /\ SubSeq(transitions'[r], 1, Len(transitions[r])) = transitions[r]
    /\ usage_entries \subseteq usage_entries'
    /\ \A x \in DOMAIN idempotency :
          x \in DOMAIN idempotency' /\ idempotency'[x] = idempotency[x]
    /\ \A o \in Orgs : last_clock'[o] >= last_clock[o]

\* History grows when every log has at most one row more, only live reservations
\* change and no clock goes back.
LEMMA GrowsWhen ==
    ASSUME RowsTypeOK, RowsTypeOK',
           \A r \in DOMAIN reservations :
              /\ r \in DOMAIN reservations'
              /\ reservations[r].state \in Terminal => reservations'[r] = reservations[r],
           \A r \in Requests :
              \/ transitions'[r] = transitions[r]
              \/ \E x \in TransitionRow : transitions'[r] = Append(transitions[r], x),
           usage_entries \subseteq usage_entries',
           \A x \in DOMAIN idempotency :
              x \in DOMAIN idempotency' /\ idempotency'[x] = idempotency[x],
           \A o \in Orgs : last_clock[o] <= last_clock'[o]
    PROVE  Grows
<1>1. ASSUME NEW r \in Requests
      PROVE  /\ Len(transitions'[r]) >= Len(transitions[r])
             /\ SubSeq(transitions'[r], 1, Len(transitions[r])) = transitions[r]
  <2>1. transitions[r] \in Seq(TransitionRow) /\ transitions'[r] \in Seq(TransitionRow)
    BY DEF RowsTypeOK
  <2> QED
    BY <2>1, LogGrows
<1>2. ASSUME NEW o \in Orgs
      PROVE  last_clock'[o] >= last_clock[o]
  <2>1. last_clock[o] \in Times \cup {Never} /\ last_clock'[o] \in Times \cup {Never}
    BY DEF RowsTypeOK
  <2>2. last_clock[o] \in Int /\ last_clock'[o] \in Int
    BY <2>1, InstantInt
  <2> QED
    BY <2>2
<1> QED
  BY <1>1, <1>2 DEF Grows

\* The candidate _expire_due builds appends at most one row to each log and
\* changes only live reservations.
LEMMA ExpiryGrows ==
    ASSUME RowsTypeOK, NEW o, NEW now \in Times
    PROVE  /\ \A r \in DOMAIN reservations :
                 reservations[r].state \in Terminal =>
                     ExpiredReservations(o, now)[r] = reservations[r]
           /\ \A r \in Requests :
                 \/ ExpiredTransitions(o, now)[r] = transitions[r]
                 \/ \E x \in TransitionRow :
                       ExpiredTransitions(o, now)[r] = Append(transitions[r], x)
<1>1. \A r \in Due(o, now) : reservations[r].state \notin Terminal
  BY DEF Due, Terminal
<1>2. \A r \in Requests : ExpiryRow(r, now) \in TransitionRow
  <2> TAKE r \in Requests
  <2>1. ExpiryRow(r, now) = [request |-> ExpiryRow(r, 0).request, at |-> now]
    BY DEF ExpiryRow
  <2> QED
    BY <2>1 DEF TransitionRow
<1>3. \A r \in DOMAIN reservations : reservations[r].state \in Terminal =>
                     ExpiredReservations(o, now)[r] = reservations[r]
  BY <1>1, ExpiredReservation
<1> QED
  BY <1>2, <1>3 DEF ExpiredTransitions

\* So persisting the expiries lets history grow.
LEMMA PersistExpiriesGrows ==
    ASSUME RowsTypeOK, RowsTypeOK', NEW o \in Orgs, NEW now \in Times,
           ~(now < last_clock[o]), PersistExpiries(o, now)
    PROVE  Grows
<1>1. \A p \in Orgs : last_clock[p] <= last_clock'[p]
  BY ClockForward DEF PersistExpiries
<1>2. /\ DOMAIN reservations' = DOMAIN reservations
      /\ reservations' = ExpiredReservations(o, now)
      /\ transitions' = ExpiredTransitions(o, now)
      /\ UNCHANGED <<usage_entries, idempotency>>
  BY DEF PersistExpiries, ExpiredReservations
<1> QED
  BY <1>1, <1>2, ExpiryGrows, GrowsWhen

\* No operation rewrites history.
LEMMA NextGrows == HistoryInv /\ HistoryInv' /\ [Next]_vars => (Grows \/ UNCHANGED vars)
<1> SUFFICES ASSUME HistoryInv, HistoryInv', Next
             PROVE  Grows
  OBVIOUS
<1>0. RowsTypeOK /\ RowsTypeOK' /\ RowsTied
  BY DEF HistoryInv, Inv, TypeOK
<1>1. ASSUME UNCHANGED <<reservations, transitions, usage_entries, idempotency, last_clock>>
      PROVE  Grows
  <2>1. \A o \in Orgs : last_clock[o] <= last_clock'[o]
    BY <1>0, <1>1, ClockInt
  <2> QED
    BY <1>0, <1>1, <2>1, GrowsWhen
<1>2. ASSUME UNCHANGED ledgerVars
      PROVE  Grows
  BY <1>1, <1>2 DEF ledgerVars
<1>3. ASSUME NEW b \in BudgetDefs, AddBudget(b)
      PROVE  Grows
  BY <1>1, <1>3 DEF AddBudget, Refuse, ledgerVars
<1>4. ASSUME NEW q \in Requests, NEW now \in Times,
             ReserveRefused(q, now) \/ EvaluateRefused(q, now)
      PROVE  Grows
  BY <1>2, <1>4 DEF ReserveRefused, EvaluateRefused, Refuse
<1>5. ASSUME NEW q \in Requests, NEW now \in Times, ReserveDenied(q, now)
      PROVE  Grows
  <2>1. q.org \in Orgs /\ ~(now < last_clock[q.org])
    BY <1>5, RequestsAssumption, ReserveOpened, OpenedInOrder
    DEF ReserveDenied, ReserveRequest
  <2> QED
    BY <1>0, <1>5, <2>1, PersistExpiriesGrows DEF ReserveDenied
<1>6. ASSUME NEW q \in Requests, NEW now \in Times, ReserveAdmitted(q, now)
      PROVE  Grows
  <2>1. q.org \in Orgs /\ ~(now < last_clock[q.org])
    BY <1>6, RequestsAssumption, ReserveOpened, OpenedInOrder
    DEF ReserveAdmitted, ReserveRequest
  <2>2. q \notin DOMAIN reservations
    BY <1>0, <1>6, AdmitFacts DEF ReserveAdmitted, RowsTied
  <2>3. /\ \A r \in DOMAIN reservations :
              /\ r \in DOMAIN reservations'
              /\ reservations'[r] = ExpiredReservations(q.org, now)[r]
        /\ transitions' = ExpiredTransitions(q.org, now)
        /\ usage_entries' = usage_entries
    BY <1>6, <2>2 DEF ReserveAdmitted
  <2>4. \A x \in DOMAIN idempotency :
           x \in DOMAIN idempotency' /\ idempotency'[x] = idempotency[x]
    BY <1>6, AdmitFacts DEF ReserveAdmitted, Remembered
  <2>5. \A p \in Orgs : last_clock[p] <= last_clock'[p]
    BY <1>0, <1>6, <2>1, ClockForward DEF ReserveAdmitted
  <2> QED
    BY <1>0, <2>3, <2>4, <2>5, ExpiryGrows, GrowsWhen
<1>7. ASSUME NEW q \in Requests, NEW now \in Times, Evaluated(q, now)
      PROVE  Grows
  <2>1. CASE UNCHANGED ledgerVars
    BY <1>2, <2>1
  <2>2. CASE ~UNCHANGED ledgerVars
    <3>1. PersistExpiries(q.org, now) /\ EvaluateOutcome(q, now) = "EVALUATED"
      BY <1>7, <2>2 DEF Evaluated
    <3>2. q.org \in Orgs /\ ~(now < last_clock[q.org])
      BY <3>1, RequestsAssumption, EvaluateOpened, OpenedInOrder DEF ReserveRequest
    <3> QED
      BY <1>0, <3>1, <3>2, PersistExpiriesGrows
  <2> QED
    BY <2>1, <2>2
<1>8. ASSUME NEW t \in TransitionRequests, NEW now \in Times, TransitionRefused(t, now)
      PROVE  Grows
  BY <1>2, <1>8 DEF TransitionRefused, Refuse
<1>9. ASSUME NEW t \in TransitionRequests, NEW now \in Times, TransitionApplied(t, now)
      PROVE  Grows
  <2> DEFINE r == t.reservation
             o == t.org
             log == [request |-> t, at |-> now]
  <2>0. TransitionOutcome(t, now) = "APPLY"
    BY <1>9 DEF TransitionApplied
  <2>1. /\ <<t.org, t.target, t.key>> \notin DOMAIN idempotency
        /\ ~(now < last_clock[o])
        /\ r \in DOMAIN reservations
        /\ ExpiredReservations(o, now)[r].state # "EXPIRED"
        /\ reservations[r].state = "RESERVED"
    BY <2>0, ApplyFacts, ApplyOpened, OpenedInOrder
  <2>2. o \in Orgs /\ r \in Requests
    BY TransitionRequestsAssumption DEF TransitionRequest
  <2>3. r \notin Due(o, now)
    BY <1>0, <2>1, ExpiredReservation
  <2>4. log \in TransitionRow
    BY DEF TransitionRow
  <2>5. \A x \in DOMAIN reservations :
           /\ x \in DOMAIN reservations'
           /\ reservations[x].state \in Terminal => reservations'[x] = reservations[x]
    <3>1. /\ DOMAIN reservations' = DOMAIN reservations
          /\ \A x \in DOMAIN reservations :
                x # r => reservations'[x] = ExpiredReservations(o, now)[x]
      BY <1>9 DEF TransitionApplied, ExpiredReservations
    <3>2. reservations[r].state \notin Terminal
      BY <2>1 DEF Terminal
    <3> QED
      BY <1>0, <3>1, <3>2, ExpiryGrows
  <2>6. \A x \in Requests :
           \/ transitions'[x] = transitions[x]
           \/ \E y \in TransitionRow : transitions'[x] = Append(transitions[x], y)
    <3>1. \A x \in Requests :
             transitions'[x] = IF x = r THEN Append(ExpiredTransitions(o, now)[x], log)
                               ELSE ExpiredTransitions(o, now)[x]
      BY <1>9 DEF TransitionApplied, ExpiredTransitions
    <3>2. ExpiredTransitions(o, now)[r] = transitions[r]
      BY <2>2, <2>3 DEF ExpiredTransitions
    <3>3. transitions'[r] = Append(transitions[r], log)
      BY <2>2, <3>1, <3>2
    <3>4. \A x \in Requests : x # r => transitions'[x] = ExpiredTransitions(o, now)[x]
      BY <3>1
    <3> HIDE DEF log, r
    <3> QED
      BY <1>0, <2>4, <3>3, <3>4, ExpiryGrows
  <2>7. usage_entries \subseteq usage_entries'
    BY <1>9 DEF TransitionApplied
  <2>8. \A x \in DOMAIN idempotency :
           x \in DOMAIN idempotency' /\ idempotency'[x] = idempotency[x]
    BY <1>9, <2>1 DEF TransitionApplied, Remembered
  <2>9. \A p \in Orgs : last_clock[p] <= last_clock'[p]
    BY <1>0, <1>9, <2>1, <2>2, ClockForward DEF TransitionApplied
  <2> QED
    BY <1>0, <2>5, <2>6, <2>7, <2>8, <2>9, GrowsWhen
<1>10. ASSUME NEW o \in Orgs, NEW now \in Times,
              \/ ListUsage(o, now)
              \/ ListBudgets(o, now)
              \/ ReconciliationCurrent(o, now)
       PROVE  Grows
  BY <1>2, <1>10 DEF ListUsage, ListBudgets, ReconciliationCurrent, Refuse
<1>11. ASSUME NEW o \in Orgs, NEW id \in BudgetIds, NEW now \in Times,
              ReconcileRefused(o, id, now) \/ RetentionRefused(o, id, now)
       PROVE  Grows
  BY <1>2, <1>11 DEF ReconcileRefused, RetentionRefused, Refuse
<1>12. ASSUME NEW o \in Orgs, NEW id \in BudgetIds, NEW now \in Times,
              Reconcile(o, id, now)
       PROVE  Grows
  <2>1. ~(now < last_clock[o])
    BY <1>12, ReconcileOpened, OpenedInOrder DEF Reconcile
  <2> QED
    BY <1>0, <1>12, <2>1, PersistExpiriesGrows DEF Reconcile
<1>13. ASSUME NEW o \in Orgs, NEW id \in BudgetIds, NEW now \in Times,
              RetentionDue(o, id, now)
       PROVE  Grows
  <2>1. ~(now < last_clock[o])
    BY <1>13, RetentionOpened DEF RetentionDue
  <2>2. \A p \in Orgs : last_clock[p] <= last_clock'[p]
    BY <1>0, <1>13, <2>1, ClockForward DEF RetentionDue
  <2>3. UNCHANGED <<reservations, transitions, usage_entries, idempotency>>
    BY <1>13 DEF RetentionDue
  <2> QED
    BY <1>0, <2>2, <2>3, GrowsWhen
<1> QED
  BY <1>3, <1>4, <1>5, <1>6, <1>7, <1>8, <1>9, <1>10, <1>11, <1>12, <1>13
  DEF Next, Handlers, Maintenance

\* No step of any caller, with the expiries it triggers, rewrites a terminal
\* reservation, a log row, a usage entry or an idempotency row, or moves an
\* organization's clock back.
THEOREM HistoryGrows == Spec => HistoryOnlyGrows
<1>1. HistoryInv /\ HistoryInv' /\ [Next]_vars => [Grows]_vars
  BY NextGrows
<1> QED
  BY <1>1, HistoryInvariance, PTL DEF Spec, HistoryOnlyGrows, Grows

\* The expiries of one organization leave the reservations and logs of the
\* others alone.
LEMMA RowsElsewhere ==
    ASSUME RowsTypeOK, NEW p, NEW now, NEW r \in Requests, r.org # p
    PROVE  /\ r \in DOMAIN reservations =>
                 ExpiredReservations(p, now)[r] = reservations[r]
           /\ ExpiredTransitions(p, now)[r] = transitions[r]
           /\ ExpiredOutbox(p, now)[r] = outbox[r]
<1>1. r \notin Due(p, now)
  BY DEF Due
<1> QED
  BY <1>1, ExpiredReservation DEF ExpiredTransitions, ExpiredOutbox

\* They leave the counters of the others alone.
LEMMA CountersElsewhere ==
    ASSUME CountersTypeOK, NEW p, NEW now, NEW k \in AggregateKeys, k[1] # p
    PROVE  ExpiredReserved(p, now)[k] = reserved[k] /\ k \notin DueKeys(p, now)
<1>1. {r \in Due(p, now) : ReservationKey(r) = k} = {}
  BY DEF Due, ReservationKey
<1>2. ExpiredReserved(p, now)[k] = [d \in Dims |-> reserved[k][d] - 0]
  BY <1>1, TotalEmpty DEF ExpiredReserved
<1>3. reserved[k] \in [Dims -> Nat]
  BY DEF CountersTypeOK, Counters
<1>4. \A d \in Dims : reserved[k][d] - 0 = reserved[k][d]
  BY <1>3
<1>5. reserved[k] = [d \in Dims |-> reserved[k][d]]
  BY <1>3
<1>6. k \notin DueKeys(p, now)
  BY DEF DueKeys, Due, ReservationKey
<1> QED
  BY <1>2, <1>4, <1>5, <1>6

\* What a step leaves alone of an organization, row by row.
Untouched(o) ==
    /\ {x \in DOMAIN budgets' : x[1] = o} = {x \in DOMAIN budgets : x[1] = o}
    /\ \A x \in DOMAIN budgets : x[1] = o => budgets'[x] = budgets[x]
    /\ {r \in DOMAIN reservations' : r.org = o} = {r \in DOMAIN reservations : r.org = o}
    /\ \A r \in DOMAIN reservations : r.org = o => reservations'[r] = reservations[r]
    /\ \A r \in Requests :
          r.org = o => transitions'[r] = transitions[r] /\ outbox'[r] = outbox[r]
    /\ {e \in usage_entries' : e.request.org = o} = {e \in usage_entries : e.request.org = o}
    /\ {x \in denials' : x.request.org = o} = {x \in denials : x.request.org = o}
    /\ \A k \in AggregateKeys :
          k[1] = o => /\ committed'[k] = committed[k] /\ reserved'[k] = reserved[k]
                      /\ reconciled'[k] = reconciled[k]
    /\ {x \in DOMAIN idempotency' : x[1] = o} = {x \in DOMAIN idempotency : x[1] = o}
    /\ \A x \in DOMAIN idempotency : x[1] = o => idempotency'[x] = idempotency[x]
    /\ last_clock'[o] = last_clock[o]

\* What is left alone row by row is left alone.
LEMMA ViewKept ==
    ASSUME NEW o, Untouched(o)
    PROVE  TenantView(o)' = TenantView(o)
<1> USE DEF Untouched
<1>1. [x \in {y \in DOMAIN budgets' : y[1] = o} |-> budgets'[x]]
        = [x \in {y \in DOMAIN budgets : y[1] = o} |-> budgets[x]]
  <2>1. {y \in DOMAIN budgets' : y[1] = o} = {y \in DOMAIN budgets : y[1] = o}
    OBVIOUS
  <2> QED
    BY <2>1
<1>2. [r \in {q \in DOMAIN reservations' : q.org = o} |-> reservations'[r]]
        = [r \in {q \in DOMAIN reservations : q.org = o} |-> reservations[r]]
  <2>1. {q \in DOMAIN reservations' : q.org = o} = {q \in DOMAIN reservations : q.org = o}
    OBVIOUS
  <2> QED
    BY <2>1
<1>3. [r \in {q \in Requests : q.org = o} |-> <<transitions'[r], outbox'[r]>>]
        = [r \in {q \in Requests : q.org = o} |-> <<transitions[r], outbox[r]>>]
  OBVIOUS
<1>4. /\ {e \in usage_entries' : e.request.org = o} = {e \in usage_entries : e.request.org = o}
      /\ {x \in denials' : x.request.org = o} = {x \in denials : x.request.org = o}
  OBVIOUS
<1>5. [k \in {x \in AggregateKeys : x[1] = o} |-> <<committed'[k], reserved'[k], reconciled'[k]>>]
        = [k \in {x \in AggregateKeys : x[1] = o} |-> <<committed[k], reserved[k], reconciled[k]>>]
  OBVIOUS
<1>6. [x \in {y \in DOMAIN idempotency' : y[1] = o} |-> idempotency'[x]]
        = [x \in {y \in DOMAIN idempotency : y[1] = o} |-> idempotency[x]]
  <2>1. {y \in DOMAIN idempotency' : y[1] = o} = {y \in DOMAIN idempotency : y[1] = o}
    OBVIOUS
  <2> QED
    BY <2>1
<1>7. last_clock'[o] = last_clock[o]
  OBVIOUS
<1> QED
  BY <1>1, <1>2, <1>3, <1>4, <1>5, <1>6, <1>7, Zenon DEF TenantView

\* _mark_reconciled writes only the windows it is given.
LEMMA MarksElsewhere ==
    ASSUME NEW touched, mark_reconciled(touched), NEW k \in AggregateKeys, k \notin touched
    PROVE  reconciled'[k] = reconciled[k]
<1>1. reconciled' = [x \in AggregateKeys |->
                        IF x \in touched THEN Status(x)' ELSE reconciled[x]]
  BY DEF mark_reconciled
<1>2. reconciled'[k] = IF k \in touched THEN Status(k)' ELSE reconciled[k]
  BY <1>1, Zenon
<1> QED
  BY <1>2

\* Every organization has its own clock.
LEMMA ClockElsewhere ==
    ASSUME Inv, NEW p, NEW now, NEW o \in Orgs, o # p, AdvanceClock(p, now)
    PROVE  last_clock'[o] = last_clock[o]
<1>1. DOMAIN last_clock = Orgs
  BY DEF Inv, TypeOK, RowsTypeOK
<1> QED
  BY <1>1 DEF AdvanceClock

\* Persisting the expiries of one organization leaves the others alone, when the
\* marks and the denials written are its own too.
LEMMA PersistExpiriesUntouched ==
    ASSUME Inv, NEW p \in Orgs, NEW now, NEW o \in Orgs, o # p, PersistExpiries(p, now),
           NEW touched, \A k \in touched : k[1] # o,
           mark_reconciled(DueKeys(p, now) \cup touched),
           {x \in denials' : x.request.org = o} = {x \in denials : x.request.org = o}
    PROVE  Untouched(o)
<1>0. /\ DOMAIN reservations' = DOMAIN reservations
      /\ reservations' = ExpiredReservations(p, now)
      /\ reserved' = ExpiredReserved(p, now)
      /\ transitions' = ExpiredTransitions(p, now)
      /\ outbox' = ExpiredOutbox(p, now)
      /\ AdvanceClock(p, now)
      /\ UNCHANGED <<budgets, usage_entries, committed, idempotency>>
  BY DEF PersistExpiries, ExpiredReservations
<1>01. RowsTypeOK /\ CountersTypeOK /\ DOMAIN reservations \subseteq Requests
  BY DEF Inv, TypeOK, RowsTypeOK
<1>1. /\ \A r \in DOMAIN reservations : r.org = o => reservations'[r] = reservations[r]
      /\ \A r \in Requests :
            r.org = o => transitions'[r] = transitions[r] /\ outbox'[r] = outbox[r]
  BY <1>0, <1>01, RowsElsewhere
<1>2. \A k \in AggregateKeys :
         k[1] = o => reserved'[k] = reserved[k] /\ reconciled'[k] = reconciled[k]
  <2> SUFFICES ASSUME NEW k \in AggregateKeys, k[1] = o
               PROVE  reserved'[k] = reserved[k] /\ reconciled'[k] = reconciled[k]
    OBVIOUS
  <2>1. reserved'[k] = reserved[k] /\ k \notin DueKeys(p, now) \cup touched
    BY <1>0, <1>01, CountersElsewhere
  <2> QED
    BY <2>1, MarksElsewhere
<1>3. last_clock'[o] = last_clock[o]
  BY <1>0, ClockElsewhere
<1> QED
  BY <1>0, <1>1, <1>2, <1>3 DEF Untouched

\* No operation touches an organization other than the one it is called for.
LEMMA NextUntouched ==
    ASSUME Inv, Next, NEW o \in Orgs, reply'.org # o
    PROVE  Untouched(o)
<1>0. /\ RowsTypeOK /\ CountersTypeOK /\ RowsTied
      /\ DOMAIN reservations \subseteq Requests
  BY DEF Inv, TypeOK, RowsTypeOK
<1>1. ASSUME UNCHANGED ledgerVars
      PROVE  Untouched(o)
  BY <1>1 DEF ledgerVars, Untouched
<1>2. ASSUME NEW b \in BudgetDefs, AddBudget(b)
      PROVE  Untouched(o)
  <2>1. CASE UNCHANGED ledgerVars
    BY <1>1, <2>1
  <2>2. CASE ~UNCHANGED ledgerVars
    <3> DEFINE key == <<b.org, b.budget>>
    <3>1. /\ key \notin DOMAIN budgets
          /\ budgets' = [x \in DOMAIN budgets \cup {key} |->
                            IF x = key THEN b ELSE budgets[x]]
          /\ reply'.org = b.org
          /\ UNCHANGED <<reservations, transitions, usage_entries, committed, reserved,
                         idempotency, denials, outbox, last_clock, reconciled>>
      BY <1>2, <2>2 DEF AddBudget, Refuse, Answer
    <3>2. key[1] # o
      BY <3>1
    <3>3. /\ {x \in DOMAIN budgets' : x[1] = o} = {x \in DOMAIN budgets : x[1] = o}
          /\ \A x \in DOMAIN budgets : x[1] = o => budgets'[x] = budgets[x]
      <4> HIDE DEF key
      <4> QED
        BY <3>1, <3>2
    <3> QED
      BY <3>1, <3>3 DEF Untouched
  <2> QED
    BY <2>1, <2>2
<1>3. ASSUME NEW q \in Requests, NEW now \in Times,
             ReserveRefused(q, now) \/ EvaluateRefused(q, now)
      PROVE  Untouched(o)
  BY <1>1, <1>3 DEF ReserveRefused, EvaluateRefused, Refuse
<1>4. ASSUME NEW q \in Requests, NEW now \in Times, ReserveDenied(q, now)
      PROVE  Untouched(o)
  <2>1. q.org \in Orgs /\ q.org # o
    BY <1>4, RequestsAssumption DEF ReserveDenied, ReserveRequest, Answer
  <2>2. {x \in denials' : x.request.org = o} = {x \in denials : x.request.org = o}
    <3> DEFINE x0 == [request |-> q, reason |-> ReserveOutcome(q, now)]
    <3>1. denials' = denials \cup {x0} /\ x0.request.org # o
      BY <1>4, <2>1 DEF ReserveDenied
    <3> HIDE DEF x0
    <3> QED
      BY <3>1
  <2>3. PICK none : none = {}
    OBVIOUS
  <2>4. PersistExpiries(q.org, now) /\ mark_reconciled(DueKeys(q.org, now) \cup none)
    <3>1. DueKeys(q.org, now) \cup none = DueKeys(q.org, now)
      BY <2>3
    <3> QED
      BY <1>4, <3>1 DEF ReserveDenied
  <2>5. \A k \in none : k[1] # o
    BY <2>3
  <2> QED
    BY <2>1, <2>2, <2>4, <2>5, PersistExpiriesUntouched
<1>5. ASSUME NEW q \in Requests, NEW now \in Times, ReserveAdmitted(q, now)
      PROVE  Untouched(o)
  <2> DEFINE k0 == <<q.org, q.budget, window_at(budgets[<<q.org, q.budget>>], now)>>
             row == <<q.org, "RESERVE", q.key>>
  <2>1. q.org \in Orgs /\ q.org # o /\ k0[1] # o /\ row[1] # o
    BY <1>5, RequestsAssumption DEF ReserveAdmitted, ReserveRequest, Answer
  <2>2. /\ reservations' = [r \in DOMAIN reservations \cup {q} |->
                               IF r = q THEN NewReservation(q, now)
                               ELSE ExpiredReservations(q.org, now)[r]]
        /\ idempotency' = [x \in DOMAIN idempotency \cup {row} |->
                              IF x = row THEN q ELSE idempotency[x]]
        /\ reserved' = [ExpiredReserved(q.org, now) EXCEPT
                           ![k0] = [d \in Dims |-> @[d] + q.requested[d]]]
        /\ transitions' = ExpiredTransitions(q.org, now)
        /\ outbox' = [ExpiredOutbox(q.org, now) EXCEPT
                         ![q] = Append(@, "usage.reserved.v1")]
        /\ AdvanceClock(q.org, now)
        /\ mark_reconciled(DueKeys(q.org, now) \cup {k0})
        /\ UNCHANGED <<budgets, usage_entries, committed, denials>>
    BY <1>5 DEF ReserveAdmitted, Remembered
  <2> HIDE DEF k0, row
  <2>3. /\ {r \in DOMAIN reservations' : r.org = o} = {r \in DOMAIN reservations : r.org = o}
        /\ \A r \in DOMAIN reservations : r.org = o => reservations'[r] = reservations[r]
    <3>1. DOMAIN reservations' = DOMAIN reservations \cup {q}
      BY <2>2
    <3>2. \A r \in DOMAIN reservations :
             r # q => reservations'[r] = ExpiredReservations(q.org, now)[r]
      BY <2>2
    <3> QED
      BY <1>0, <2>1, <3>1, <3>2, RowsElsewhere
  <2>4. \A r \in Requests :
           r.org = o => transitions'[r] = transitions[r] /\ outbox'[r] = outbox[r]
    <3>1. \A r \in Requests : r # q => outbox'[r] = ExpiredOutbox(q.org, now)[r]
      BY <2>2 DEF ExpiredOutbox
    <3> QED
      BY <1>0, <2>1, <2>2, <3>1, RowsElsewhere
  <2>5. \A k \in AggregateKeys :
           k[1] = o => reserved'[k] = reserved[k] /\ reconciled'[k] = reconciled[k]
    <3> SUFFICES ASSUME NEW k \in AggregateKeys, k[1] = o
                 PROVE  reserved'[k] = reserved[k] /\ reconciled'[k] = reconciled[k]
      OBVIOUS
    <3>1. /\ ExpiredReserved(q.org, now)[k] = reserved[k]
          /\ k \notin DueKeys(q.org, now) \cup {k0}
      BY <1>0, <2>1, CountersElsewhere
    <3>2. reserved'[k] = ExpiredReserved(q.org, now)[k]
      BY <2>2, <3>1 DEF ExpiredReserved
    <3> QED
      BY <2>2, <3>1, <3>2, MarksElsewhere
  <2>6. /\ {x \in DOMAIN idempotency' : x[1] = o} = {x \in DOMAIN idempotency : x[1] = o}
        /\ \A x \in DOMAIN idempotency : x[1] = o => idempotency'[x] = idempotency[x]
    BY <2>1, <2>2
  <2>7. last_clock'[o] = last_clock[o]
    BY <2>1, <2>2, ClockElsewhere
  <2> QED
    BY <2>2, <2>3, <2>4, <2>5, <2>6, <2>7 DEF Untouched
<1>6. ASSUME NEW q \in Requests, NEW now \in Times, Evaluated(q, now)
      PROVE  Untouched(o)
  <2>1. CASE UNCHANGED ledgerVars
    BY <1>1, <2>1
  <2>2. CASE ~UNCHANGED ledgerVars
    <3> DEFINE k0 == <<q.org, q.budget, window_at(budgets[<<q.org, q.budget>>], now)>>
    <3>1. /\ PersistExpiries(q.org, now)
          /\ mark_reconciled(DueKeys(q.org, now) \cup {k0})
          /\ denials' = denials
          /\ reply'.org = q.org
      BY <1>6, <2>2 DEF Evaluated, Answer
    <3>2. q.org \in Orgs /\ q.org # o /\ \A k \in {k0} : k[1] # o
      BY <3>1, RequestsAssumption DEF ReserveRequest
    <3> HIDE DEF k0
    <3> QED
      BY <3>1, <3>2, PersistExpiriesUntouched
  <2> QED
    BY <2>1, <2>2
<1>7. ASSUME NEW t \in TransitionRequests, NEW now \in Times, TransitionRefused(t, now)
      PROVE  Untouched(o)
  BY <1>1, <1>7 DEF TransitionRefused, Refuse
<1>8. ASSUME NEW t \in TransitionRequests, NEW now \in Times, TransitionApplied(t, now)
      PROVE  Untouched(o)
  <2> DEFINE r == t.reservation
             k0 == ReservationKey(r)
             row == <<t.org, t.target, t.key>>
             log == [request |-> t, at |-> now]
             e0 == [request |-> t, window |-> reservations[r].window, at |-> now]
  <2>0. /\ t.org \in Orgs /\ r \in Requests
        /\ t.target \in {"COMMITTED", "RELEASED"}
    BY TransitionRequestsAssumption DEF TransitionRequest
  <2>1. /\ t.org # o /\ r.org = t.org /\ row[1] # o /\ e0.request.org # o
        /\ r \in DOMAIN reservations
    <3>1. reply'.org = t.org /\ TransitionOutcome(t, now) = "APPLY"
      BY <1>8 DEF TransitionApplied, Answer
    <3>2. r.org = t.org /\ r \in DOMAIN reservations
      BY <3>1, ApplyFacts
    <3> QED
      BY <3>1, <3>2
  <2>2. k0[1] # o
    BY <2>1 DEF ReservationKey
  <2>3. /\ reservations' = [ExpiredReservations(t.org, now) EXCEPT ![r].state = t.target]
        /\ transitions' = [ExpiredTransitions(t.org, now) EXCEPT ![r] = Append(@, log)]
        /\ idempotency' = [x \in DOMAIN idempotency \cup {row} |->
                              IF x = row THEN t ELSE idempotency[x]]
        /\ reserved' = [ExpiredReserved(t.org, now) EXCEPT
                           ![k0] = [d \in Dims |-> @[d] - r.requested[d]]]
        /\ AdvanceClock(t.org, now)
        /\ mark_reconciled(DueKeys(t.org, now) \cup {k0})
        /\ UNCHANGED <<budgets, denials>>
    BY <1>8 DEF TransitionApplied, Remembered
  <2>4. /\ usage_entries' = usage_entries \/ usage_entries' = usage_entries \cup {e0}
        /\ \A x \in Requests : x # r => outbox'[x] = ExpiredOutbox(t.org, now)[x]
        /\ \A k \in AggregateKeys : k # k0 => committed'[k] = committed[k]
    <3>1. DOMAIN committed = AggregateKeys
      BY <1>0 DEF CountersTypeOK
    <3>2. \/ /\ committed' = [committed EXCEPT
                                 ![k0] = [d \in Dims |-> @[d] + t.observed[d]]]
             /\ usage_entries' = usage_entries \cup {e0}
             /\ outbox' = [ExpiredOutbox(t.org, now) EXCEPT
                              ![r] = Append(@, "usage.committed.v1")]
          \/ /\ outbox' = [ExpiredOutbox(t.org, now) EXCEPT
                              ![r] = Append(@, "usage.released.v1")]
             /\ UNCHANGED <<committed, usage_entries>>
      BY <1>8 DEF TransitionApplied
    <3> HIDE DEF k0, r, e0
    <3> QED
      BY <3>1, <3>2 DEF ExpiredOutbox
  <2> HIDE DEF r, k0, row, log, e0
  <2>5. /\ {x \in DOMAIN reservations' : x.org = o} = {x \in DOMAIN reservations : x.org = o}
        /\ \A x \in DOMAIN reservations : x.org = o => reservations'[x] = reservations[x]
    <3>1. /\ DOMAIN reservations' = DOMAIN reservations
          /\ \A x \in DOMAIN reservations :
                x # r => reservations'[x] = ExpiredReservations(t.org, now)[x]
      BY <2>3 DEF ExpiredReservations
    <3> QED
      BY <1>0, <2>1, <3>1, RowsElsewhere
  <2>6. \A x \in Requests :
           x.org = o => transitions'[x] = transitions[x] /\ outbox'[x] = outbox[x]
    <3>1. \A x \in Requests : x # r => transitions'[x] = ExpiredTransitions(t.org, now)[x]
      BY <2>3 DEF ExpiredTransitions
    <3> QED
      BY <1>0, <2>1, <2>4, <3>1, RowsElsewhere
  <2>7. \A k \in AggregateKeys :
           k[1] = o => /\ committed'[k] = committed[k] /\ reserved'[k] = reserved[k]
                       /\ reconciled'[k] = reconciled[k]
    <3> SUFFICES ASSUME NEW k \in AggregateKeys, k[1] = o
                 PROVE  /\ committed'[k] = committed[k] /\ reserved'[k] = reserved[k]
                        /\ reconciled'[k] = reconciled[k]
      OBVIOUS
    <3>1. /\ ExpiredReserved(t.org, now)[k] = reserved[k]
          /\ k \notin DueKeys(t.org, now) \cup {k0}
      BY <1>0, <2>1, <2>2, CountersElsewhere
    <3>2. reserved'[k] = ExpiredReserved(t.org, now)[k]
      BY <2>3, <3>1 DEF ExpiredReserved
    <3> QED
      BY <2>3, <2>4, <3>1, <3>2, MarksElsewhere
  <2>8. /\ {x \in DOMAIN idempotency' : x[1] = o} = {x \in DOMAIN idempotency : x[1] = o}
        /\ \A x \in DOMAIN idempotency : x[1] = o => idempotency'[x] = idempotency[x]
    BY <2>1, <2>3
  <2>9. {e \in usage_entries' : e.request.org = o} = {e \in usage_entries : e.request.org = o}
    BY <2>1, <2>4
  <2>10. last_clock'[o] = last_clock[o]
    BY <2>1, <2>3, ClockElsewhere
  <2> QED
    BY <2>3, <2>5, <2>6, <2>7, <2>8, <2>9, <2>10 DEF Untouched
<1>9. ASSUME NEW p \in Orgs, NEW now \in Times,
             \/ ListUsage(p, now)
             \/ ListBudgets(p, now)
             \/ ReconciliationCurrent(p, now)
      PROVE  Untouched(o)
  BY <1>1, <1>9 DEF ListUsage, ListBudgets, ReconciliationCurrent, Refuse
<1>10. ASSUME NEW p \in Orgs, NEW id \in BudgetIds, NEW now \in Times,
              ReconcileRefused(p, id, now) \/ RetentionRefused(p, id, now)
       PROVE  Untouched(o)
  BY <1>1, <1>10 DEF ReconcileRefused, RetentionRefused, Refuse
<1>11. ASSUME NEW p \in Orgs, NEW id \in BudgetIds, NEW now \in Times,
              Reconcile(p, id, now)
       PROVE  Untouched(o)
  <2> DEFINE k0 == <<p, id, window_at(budgets[<<p, id>>], now)>>
  <2>1. /\ PersistExpiries(p, now)
        /\ mark_reconciled(DueKeys(p, now) \cup {k0})
        /\ denials' = denials
        /\ reply'.org = p
    BY <1>11 DEF Reconcile, Answer
  <2>2. p # o /\ \A k \in {k0} : k[1] # o
    BY <2>1
  <2> HIDE DEF k0
  <2> QED
    BY <2>1, <2>2, PersistExpiriesUntouched
<1>12. ASSUME NEW p \in Orgs, NEW id \in BudgetIds, NEW now \in Times,
              RetentionDue(p, id, now)
       PROVE  Untouched(o)
  <2>1. /\ AdvanceClock(p, now) /\ p # o
        /\ UNCHANGED <<budgets, reservations, transitions, usage_entries, committed,
                       reserved, idempotency, denials, outbox, reconciled>>
    BY <1>12 DEF RetentionDue, Answer
  <2>2. last_clock'[o] = last_clock[o]
    BY <2>1, ClockElsewhere
  <2> QED
    BY <2>1, <2>2 DEF Untouched
<1> QED
  BY <1>2, <1>3, <1>4, <1>5, <1>6, <1>7, <1>8, <1>9, <1>10, <1>11, <1>12
  DEF Next, Handlers, Maintenance

\* An operation called for one organization, with all the expiries it triggers,
\* changes no budget, reservation, log, usage entry, denial, counter, mark,
\* idempotency row or clock of another.
THEOREM TenantsIsolated == Spec => TenantIsolation
<1>1. ASSUME Inv, [Next]_vars
      PROVE  [\A o \in Orgs : reply'.org # o => TenantView(o)' = TenantView(o)]_vars
  BY <1>1, NextUntouched, ViewKept
<1>2. Inv /\ [Next]_vars
        => [\A o \in Orgs : reply'.org # o => TenantView(o)' = TenantView(o)]_vars
  BY <1>1
<1> QED
  BY <1>2, Invariance, PTL DEF Spec, TenantIsolation

-----------------------------------------------------------------------------
(***************************************************************************)
(* III.  The ledger implements Quota.                                      *)
(***************************************************************************)

(***************************************************************************)
(* The state functions Quota's variables stand for.                        *)
(***************************************************************************)
Caps == [x \in DOMAIN budgets |-> CapOf(budgets[x])]

Places == [r \in Requests |-> PlaceOf(r)]

Charges == [r \in Requests |-> ChargeOf(r)]

\* The usage entry of a committed reservation is the one its transition row
\* names, so what the reservation counts can be read from the log.
LEMMA EntryOfCommitted ==
    ASSUME RowsAgree, NEW r \in Requests, r \in InState({"COMMITTED"})
    PROVE  EntryOf(r) \in usage_entries /\ EntryOf(r).request = transitions[r][1].request
           /\ EntryOf(r).request.reservation = r
           /\ EntryOf(r).window = reservations[r].window
<1> DEFINE e0 == [request |-> transitions[r][1].request,
                  window |-> reservations[r].window, at |-> transitions[r][1].at]
<1>1. r \in DOMAIN reservations /\ reservations[r].state = "COMMITTED"
  BY DEF InState
<1>2. {e \in usage_entries : e.request.reservation = r} = {e0}
  BY <1>1 DEF RowsAgree
<1>3. e0 \in usage_entries /\ e0.request.reservation = r
  BY <1>2
<1>4. \A e \in usage_entries : e.request.reservation = r => e = e0
  BY <1>2
<1>5. EntryOf(r) = e0
  <2> HIDE DEF e0
  <2> QED
    BY <1>3, <1>4 DEF EntryOf
<1> QED
  BY <1>3, <1>5

\* What a reservation counts, read from its state and its log.
Counts(r) ==
    IF r \in InState({"RESERVED"}) THEN r.requested
    ELSE IF r \in InState({"COMMITTED"}) THEN transitions[r][1].request.observed
    ELSE Zero

\* That is what the refinement mapping charges.
LEMMA ChargeCounts == RowsAgree => \A r \in Requests : ChargeOf(r) = Counts(r)
BY EntryOfCommitted DEF ChargeOf, Counts

\* So it is after a step.
LEMMA ChargeCountsNext == RowsAgree' => \A r \in Requests : ChargeOf(r)' = Counts(r)'
<1>1. RowsAgree' => (\A r \in Requests : ChargeOf(r) = Counts(r))'
  BY ChargeCounts, PTL
<1> QED
  BY <1>1

-----------------------------------------------------------------------------
(***************************************************************************)
(* What a window carries.                                                  *)
(***************************************************************************)

\* A unit a window carries is a unit of a live reservation or of a usage entry.
LEMMA CarriedUnit ==
    ASSUME HistoryInv, NEW k \in AggregateKeys, NEW d \in Dims,
           NEW r \in Requests, NEW n \in 1..SafeMax,
           PlaceOf(r) = k, n <= ChargeOf(r)[d]
    PROVE  \/ <<r, n>> \in Units(Live(k), RequestedOf(d))
           \/ \E u \in Units(Entries(k), ObservedOf(d)) :
                 <<r, n>> = <<u[1].request.reservation, u[2]>>
<1>0. RowsAgree /\ RowsTied /\ RowsTypeOK
  BY DEF HistoryInv, Story, Inv, TypeOK
<1>1. ChargeOf(r) = Counts(r)
  BY <1>0, ChargeCounts
<1>2. CASE r \in InState({"RESERVED"})
  <2>1. r \in DOMAIN reservations /\ reservations[r].state = "RESERVED"
    BY <1>2 DEF InState
  <2>2. r \in Live(k)
    BY <2>1 DEF PlaceOf, Live
  <2>3. n <= RequestedOf(d)[r]
    BY <1>1, <1>2, RequestedAmount DEF Counts
  <2> QED
    BY <2>2, <2>3 DEF Units
<1>3. CASE r \in InState({"COMMITTED"})
  <2> DEFINE e == EntryOf(r)
  <2>0. r \in DOMAIN reservations /\ reservations[r].state = "COMMITTED"
    BY <1>3 DEF InState
  <2>1. /\ e \in usage_entries /\ e.request = transitions[r][1].request
        /\ e.request.reservation = r /\ e.window = reservations[r].window
    BY <1>0, <1>3, EntryOfCommitted
  <2>2. e.request.org = r.org
    BY <1>0, <2>1 DEF RowsTied
  <2>3. EntryKey(e) = ReservationKey(r)
    BY <2>1, <2>2 DEF EntryKey, ReservationKey
  <2>4. e \in Entries(k)
    BY <2>0, <2>1, <2>3 DEF Entries, PlaceOf
  <2>5. ~(r \in InState({"RESERVED"}))
    BY <2>0 DEF InState
  <2>6. n <= e.request.observed[d]
    BY <1>1, <1>3, <2>1, <2>5 DEF Counts
  <2>7. <<e, n>> \in Units(Entries(k), ObservedOf(d))
    BY <2>1, <2>4, <2>6 DEF Units, ObservedOf
  <2> HIDE DEF e
  <2> QED
    BY <2>1, <2>7
<1>4. CASE ~(r \in InState({"RESERVED"})) /\ ~(r \in InState({"COMMITTED"}))
  <2>1. ChargeOf(r)[d] = 0
    BY <1>1, <1>4 DEF Counts, Zero
  <2> QED
    BY <2>1, SafeMaxAssumption
<1> QED
  BY <1>2, <1>3, <1>4

\* A window carries no more than its counters say.
LEMMA CarriedCounted ==
    HistoryInv => \A k \in AggregateKeys, d \in Dims :
                     Quota!Carried(k, d) <= committed[k][d] + reserved[k][d]
<1> SUFFICES ASSUME HistoryInv, NEW k \in AggregateKeys, NEW d \in Dims
             PROVE  Quota!Carried(k, d) <= committed[k][d] + reserved[k][d]
  OBVIOUS
<1> DEFINE X == {x \in Requests \X (1..SafeMax) :
                    Places[x[1]] = k /\ x[2] <= Charges[x[1]][d]}
           A == Units(Live(k), RequestedOf(d))
           E == Units(Entries(k), ObservedOf(d))
           f == [u \in E |-> <<u[1].request.reservation, u[2]>>]
           B == {f[u] : u \in E}
<1>0. RowsTypeOK /\ RowsTied /\ Conservation /\ CountersTypeOK
  BY DEF HistoryInv, Inv, TypeOK
<1>1. Quota!Carried(k, d) = Cardinality(X)
  BY DEF Quota!Carried, Quota!Cardinality, Cardinality, Places, Charges
<1>2. IsFiniteSet(A) /\ Cardinality(A) = reserved[k][d]
  <2>1. IsFiniteSet(Live(k))
    BY <1>0, LiveFinite
  <2> QED
    BY <1>0, <2>1, TotalNat DEF Conservation, Total
<1>3. IsFiniteSet(E) /\ Cardinality(E) = committed[k][d]
  <2>1. Entries(k) \in SUBSET usage_entries /\ IsFiniteSet(usage_entries)
    BY <1>0 DEF Entries, RowsTied
  <2>2. IsFiniteSet(Entries(k))
    BY <2>1, FS_Subset
  <2> QED
    BY <1>0, <2>2, TotalNat DEF Conservation, Total
<1>4. X \subseteq A \cup B
  <2> SUFFICES ASSUME NEW x \in X
               PROVE  x \in A \cup B
    OBVIOUS
  <2>1. PICK r \in Requests, n \in 1..SafeMax : x = <<r, n>>
    OBVIOUS
  <2>2. PlaceOf(r) = k /\ n <= ChargeOf(r)[d]
    BY <2>1 DEF Places, Charges
  <2>3. \/ <<r, n>> \in A
        \/ \E u \in E : <<r, n>> = <<u[1].request.reservation, u[2]>>
    BY <2>2, CarriedUnit
  <2> HIDE DEF A, E
  <2> QED
    BY <2>1, <2>3
<1>5. IsFiniteSet(B) /\ Cardinality(B) <= committed[k][d]
  <2>1. f \in Surjection(E, B)
    BY DEF Surjection
  <2> HIDE DEF f, B, E
  <2> QED
    BY <1>3, <2>1, FS_Surjection
<1> HIDE DEF X, A, B, E, f
<1>6. /\ IsFiniteSet(A \cup B)
      /\ Cardinality(A \cup B) = Cardinality(A) + Cardinality(B) - Cardinality(A \cap B)
  BY <1>2, <1>5, FS_Union
<1>7. IsFiniteSet(A \cap B)
  BY <1>2, FS_Intersection
<1>8. Cardinality(X) <= Cardinality(A \cup B) /\ IsFiniteSet(X)
  BY <1>4, <1>6, FS_Subset
<1>9. /\ Cardinality(X) \in Nat /\ Cardinality(A \cup B) \in Nat
      /\ Cardinality(A \cap B) \in Nat /\ Cardinality(A) \in Nat /\ Cardinality(B) \in Nat
  BY <1>2, <1>5, <1>6, <1>7, <1>8, FS_CardinalityType
<1>10. committed[k][d] \in Nat /\ reserved[k][d] \in Nat
  BY <1>0 DEF CountersTypeOK, Counters
<1> QED
  BY <1>1, <1>2, <1>5, <1>6, <1>8, <1>9, <1>10

\* So it is after a step.
LEMMA CarriedCountedNext ==
    HistoryInv' => (\A k \in AggregateKeys, d \in Dims :
                       Quota!Carried(k, d) <= committed[k][d] + reserved[k][d])'
BY CarriedCounted, PTL

-----------------------------------------------------------------------------
(***************************************************************************)
(* Steps.                                                                  *)
(***************************************************************************)

\* A reservation whose row and log stay as they are counts as before.
LEMMA RowKept ==
    ASSUME RowsAgree, RowsAgree', NEW r \in Requests,
           r \in DOMAIN reservations' <=> r \in DOMAIN reservations,
           r \in DOMAIN reservations =>
              /\ reservations'[r].window = reservations[r].window
              /\ reservations'[r].state = reservations[r].state
              /\ transitions'[r] = transitions[r]
    PROVE  PlaceOf(r)' = PlaceOf(r) /\ ChargeOf(r)' = ChargeOf(r)
<1>1. ChargeOf(r) = Counts(r) /\ ChargeOf(r)' = Counts(r)'
  BY ChargeCounts, ChargeCountsNext
<1>2. Counts(r)' = Counts(r)
  BY DEF Counts, InState, Zero
<1>3. PlaceOf(r)' = PlaceOf(r)
  BY DEF PlaceOf, ReservationKey
<1> QED
  BY <1>1, <1>2, <1>3

\* A reservation that ends without a commit counts nothing, where it was.
LEMMA RowReturned ==
    ASSUME RowsAgree', NEW r \in Requests,
           r \in DOMAIN reservations, r \in DOMAIN reservations',
           reservations'[r].window = reservations[r].window,
           reservations'[r].state \in {"RELEASED", "EXPIRED"}
    PROVE  PlaceOf(r)' = PlaceOf(r) /\ ChargeOf(r)' = Zero
<1>1. ChargeOf(r)' = Counts(r)'
  BY ChargeCountsNext
<1>2. Counts(r)' = Zero
  BY DEF Counts, InState, Zero
<1>3. PlaceOf(r)' = PlaceOf(r)
  BY DEF PlaceOf, ReservationKey
<1> QED
  BY <1>1, <1>2, <1>3

\* How a step may end reservations without a commit: what _expire_due and
\* release do to the reservations, and all that matters of it here.
Ends(S) ==
    /\ DOMAIN reservations' = DOMAIN reservations
    /\ \A r \in DOMAIN reservations : reservations'[r].window = reservations[r].window
    /\ \A r \in S : reservations'[r].state \in {"RELEASED", "EXPIRED"}
    /\ \A r \in DOMAIN reservations \ S :
          reservations'[r].state = reservations[r].state /\ transitions'[r] = transitions[r]

\* Ending reservations of one organization is a Lapse of its grants.
LEMMA LapseStep ==
    ASSUME HistoryInv, HistoryInv', NEW o, NEW S, S \subseteq InState({"RESERVED"}),
           \A g \in S : g.org = o, budgets' = budgets, Ends(S)
    PROVE  Quota!Lapse(o)
<1>0. /\ RowsAgree /\ RowsAgree' /\ DOMAIN reservations \subseteq Requests
      /\ S \subseteq DOMAIN reservations /\ \A r \in S : reservations[r].state = "RESERVED"
  BY DEF HistoryInv, Story, Inv, TypeOK, RowsTypeOK, InState
<1>1. S \in SUBSET (InState({"RESERVED"}) \cap {g \in Requests : g.org = o})
  BY <1>0
<1>2. /\ InState({"RESERVED"})' = InState({"RESERVED"}) \ S
      /\ InState({"COMMITTED"})' = InState({"COMMITTED"})
      /\ InState({"RELEASED", "EXPIRED"})' = InState({"RELEASED", "EXPIRED"}) \cup S
  BY <1>0 DEF Ends, InState
<1>3. \A r \in S : Places'[r] = Places[r] /\ Charges'[r] = Zero
  BY <1>0, RowReturned DEF Ends, Places, Charges
<1>4. \A r \in Requests \ S : Places'[r] = Places[r] /\ Charges'[r] = Charges[r]
  BY <1>0, RowKept DEF Ends, Places, Charges
<1>5. Caps' = Caps
  BY DEF Caps, CapOf
<1>6. Quota!Nothing = Zero
  BY DEF Quota!Nothing, Zero
<1> QED
  BY <1>1, <1>2, <1>3, <1>4, <1>5, <1>6
  DEF Quota!Lapse, Quota!Lapsed, Quota!OthersKeep, Quota!Of, Caps, Places, Charges

\* What _expire_due does, as an Ends.
LEMMA ExpiryEnds ==
    ASSUME RowsTypeOK, NEW o, NEW now, NEW r \in DOMAIN reservations
    PROVE  LET s == ExpiredReservations(o, now)[r] IN
           /\ s.window = reservations[r].window
           /\ r \in Due(o, now) => s.state = "EXPIRED"
           /\ r \notin Due(o, now) => /\ s.state = reservations[r].state
                                      /\ ExpiredTransitions(o, now)[r] = transitions[r]
<1>1. r \in Requests
  BY DEF RowsTypeOK
<1> QED
  BY <1>1, ExpiredReservation DEF ExpiredTransitions

\* The due reservations are live ones of the organization.
LEMMA DueHeld ==
    ASSUME NEW o, NEW now
    PROVE  Due(o, now) \subseteq InState({"RESERVED"}) /\ \A g \in Due(o, now) : g.org = o
BY DEF Due, InState

\* Persisting the expiries is a Lapse.
LEMMA PersistExpiriesLapse ==
    ASSUME HistoryInv, HistoryInv', NEW o, NEW now, PersistExpiries(o, now)
    PROVE  Quota!Lapse(o)
<1>0. RowsTypeOK
  BY DEF HistoryInv, Inv, TypeOK
<1>1. /\ DOMAIN reservations' = DOMAIN reservations
      /\ reservations' = ExpiredReservations(o, now)
      /\ transitions' = ExpiredTransitions(o, now)
      /\ budgets' = budgets
  BY DEF PersistExpiries, ExpiredReservations
<1>2. Due(o, now) \subseteq DOMAIN reservations
  BY DEF Due
<1>3. Ends(Due(o, now))
  BY <1>0, <1>1, <1>2, ExpiryEnds DEF Ends
<1>4. PICK S : S = Due(o, now)
  OBVIOUS
<1>5. S \subseteq InState({"RESERVED"}) /\ (\A g \in S : g.org = o) /\ Ends(S)
  BY <1>3, <1>4, DueHeld
<1> QED
  BY <1>1, <1>5, LapseStep

\* After every step each window of a configured budget is within its cap: the
\* limit of a HARD budget, SAFE_INTEGER_MAX of an advisory one.
LEMMA WithinCapNext ==
    ASSUME HistoryInv', NEW k \in AggregateKeys, <<k[1], k[2]>> \in DOMAIN budgets',
           NEW d \in Dims
    PROVE  Quota!Carried(k, d)' <= Caps'[<<k[1], k[2]>>][d]
<1> DEFINE b == budgets'[<<k[1], k[2]>>]
<1>0. /\ RowsTypeOK' /\ CountersTypeOK' /\ HardLimit' /\ Representable'
  BY DEF HistoryInv, Inv, TypeOK
<1>1. Quota!Carried(k, d)' <= committed'[k][d] + reserved'[k][d]
  BY CarriedCountedNext
<1>2. committed'[k][d] \in Nat /\ reserved'[k][d] \in Nat
  BY <1>0 DEF CountersTypeOK, Counters
<1>3. b \in BudgetDefs
  BY <1>0 DEF RowsTypeOK
<1>4. b.limits[d] \in 0..SafeMax
  BY <1>3, BudgetDefsAssumption DEF BudgetDefinition, Amounts
<1>5. Caps'[<<k[1], k[2]>>][d] = IF b.enforcement = "HARD" THEN b.limits[d] ELSE SafeMax
  BY DEF Caps, CapOf
<1>6. committed'[k][d] + reserved'[k][d] <= SafeMax
  BY <1>0 DEF Representable
<1>7. b.enforcement = "HARD" => committed'[k][d] + reserved'[k][d] <= b.limits[d]
  BY <1>0 DEF HardLimit
<1>8. Quota!Carried(k, d)' \in Nat
  <2>0. IsFiniteSet(1..SafeMax)
    BY SafeMaxAssumption, FS_Interval
  <2>1. IsFiniteSet(Requests \X (1..SafeMax))
    BY <2>0, RequestsAssumption, FS_Product
  <2>2. PICK X \in SUBSET (Requests \X (1..SafeMax)) : Quota!Carried(k, d)' = Cardinality(X)
    <3> DEFINE X == {x \in Requests \X (1..SafeMax) :
                        Places'[x[1]] = k /\ x[2] <= Charges'[x[1]][d]}
    <3>1. Quota!Carried(k, d)' = Cardinality(X)
      BY DEF Quota!Carried, Quota!Cardinality, Cardinality, Places, Charges
    <3> QED
      BY <3>1
  <2> QED
    BY <2>1, <2>2, FS_Subset, FS_CardinalityType
<1> DEFINE c == Quota!Carried(k, d)'
<1> HIDE DEF b, c
<1> QED
  BY <1>1, <1>2, <1>4, <1>5, <1>6, <1>7, <1>8, SafeMaxAssumption DEF c

\* An admitted reserve, with its expiries, is a Give.
LEMMA ReserveAdmittedGive ==
    ASSUME HistoryInv, HistoryInv', NEW q \in Requests, NEW now \in Times,
           ReserveAdmitted(q, now)
    PROVE  Quota!Give(q)
<1> DEFINE o == q.org
           x == <<q.org, q.budget>>
           w == window_at(budgets[x], now)
<1>0. /\ RowsAgree /\ RowsAgree' /\ DOMAIN reservations \subseteq Requests
      /\ RowsTypeOK /\ RowsTied
  BY DEF HistoryInv, Story, Inv, TypeOK, RowsTypeOK
<1>1. PICK S : S = Due(o, now)
  OBVIOUS
<1>01. PICK k : k = <<q.org, q.budget, w>>
  OBVIOUS
<1>2. /\ S \subseteq InState({"RESERVED"}) /\ (\A g \in S : g.org = o)
      /\ S \subseteq DOMAIN reservations
  BY <1>1, DueHeld DEF InState
<1>3. /\ <<q.org, "RESERVE", q.key>> \notin DOMAIN idempotency
      /\ x \in DOMAIN budgets
      /\ ~(now < budgets[x].epoch)
  BY AdmitFacts DEF ReserveAdmitted
<1>4. q \notin DOMAIN reservations
  BY <1>0, <1>3 DEF RowsTied
<1>5. /\ NewReservation(q, now).state = "RESERVED" /\ NewReservation(q, now).window = w
      /\ k \in AggregateKeys
  BY <1>0, <1>01, <1>3, NewReservationType
<1>6. /\ DOMAIN reservations' = DOMAIN reservations \cup {q}
      /\ reservations'[q] = NewReservation(q, now)
      /\ \A r \in DOMAIN reservations : reservations'[r] = ExpiredReservations(o, now)[r]
      /\ transitions' = ExpiredTransitions(o, now)
      /\ budgets' = budgets
  BY <1>4 DEF ReserveAdmitted
<1>7. \A r \in DOMAIN reservations :
         /\ reservations'[r].window = reservations[r].window
         /\ r \in S => reservations'[r].state = "EXPIRED"
         /\ r \notin S => /\ reservations'[r].state = reservations[r].state
                          /\ transitions'[r] = transitions[r]
  BY <1>0, <1>1, <1>6, ExpiryEnds
<1>8. q \notin InState({"RESERVED"}) \cup InState({"COMMITTED"})
                 \cup InState({"RELEASED", "EXPIRED"})
  BY <1>4 DEF InState
<1>9. /\ InState({"RESERVED"})' = (InState({"RESERVED"}) \ S) \cup {q}
      /\ InState({"COMMITTED"})' = InState({"COMMITTED"})
      /\ InState({"RELEASED", "EXPIRED"})' = InState({"RELEASED", "EXPIRED"}) \cup S
  <2>1. \A r \in S : reservations[r].state = "RESERVED"
    BY <1>2 DEF InState
  <2>2. reservations'[q].state = "RESERVED"
    BY <1>5, <1>6
  <2> QED
    BY <1>2, <1>4, <1>6, <1>7, <2>1, <2>2 DEF InState
<1>10. \A r \in S : Places'[r] = Places[r] /\ Charges'[r] = Zero
  BY <1>0, <1>2, <1>6, <1>7, RowReturned DEF Places, Charges
<1>11. \A r \in Requests \ (S \cup {q}) : Places'[r] = Places[r] /\ Charges'[r] = Charges[r]
  BY <1>0, <1>6, <1>7, RowKept DEF Places, Charges
<1>12. Places'[q] = k /\ Charges'[q] = q.requested
  <2>1. PlaceOf(q)' = k
    BY <1>01, <1>5, <1>6 DEF PlaceOf, ReservationKey
  <2>2. ChargeOf(q)' = q.requested
    BY <1>9 DEF ChargeOf
  <2> QED
    BY <2>1, <2>2 DEF Places, Charges
<1>13. Caps' = Caps /\ x \in DOMAIN Caps
  BY <1>3, <1>6 DEF Caps, CapOf
<1>14. \A d \in Dims : Quota!Carried(k, d)' <= Caps'[x][d]
  <2>1. <<k[1], k[2]>> = x
    BY <1>01
  <2>2. <<k[1], k[2]>> \in DOMAIN budgets'
    BY <1>3, <1>6, <2>1
  <2> QED
    BY <1>5, <2>1, <2>2, WithinCapNext
<1>15. w \in Windows /\ k \in {q.org} \X {q.budget} \X Windows
  BY <1>01, <1>5 DEF AggregateKeys
<1>16. Quota!Nothing = Zero
  BY DEF Quota!Nothing, Zero
<1>17. Quota!WithinCap(Places[q])'
  <2>1. \A d \in Dims : Quota!Carried(Places[q], d)' <= Caps'[x][d]
    <3>1. \A d \in Dims : Quota!Carried(Places[q], d)' = Quota!Carried(k, d)'
      BY <1>12 DEF Quota!Carried, Places
    <3> QED
      BY <1>14, <3>1
  <2>2. <<Places'[q][1], Places'[q][2]>> = x
    BY <1>01, <1>12
  <2> QED
    BY <2>1, <2>2 DEF Quota!WithinCap, Caps
<1>18. S \in SUBSET (InState({"RESERVED"}) \cap {g \in Requests : g.org = q.org})
  BY <1>0, <1>2
<1> HIDE DEF o, x, w
<1> QED
  BY <1>8, <1>9, <1>10, <1>11, <1>12, <1>13, <1>15, <1>16, <1>17, <1>18
  DEF Quota!Give, Quota!Lapsed, Quota!OthersKeep, Quota!Of, Caps, Places, Charges, x

\* What _transition does to the reservations and logs, its own and those it
\* expires on the way.
LEMMA AppliedRows ==
    ASSUME HistoryInv, NEW t \in TransitionRequests, NEW now \in Times,
           TransitionApplied(t, now)
    PROVE  LET r == t.reservation
               S == Due(t.org, now)
           IN  /\ r \in InState({"RESERVED"}) \ S /\ r.org = t.org
               /\ DOMAIN reservations' = DOMAIN reservations
               /\ budgets' = budgets
               /\ \A x \in DOMAIN reservations :
                     /\ reservations'[x].window = reservations[x].window
                     /\ x \in S => reservations'[x].state = "EXPIRED"
                     /\ x = r => reservations'[x].state = t.target
                     /\ x \notin S \cup {r} =>
                           /\ reservations'[x].state = reservations[x].state
                           /\ transitions'[x] = transitions[x]
               /\ transitions'[r] = <<[request |-> t, at |-> now]>>
<1> DEFINE r == t.reservation
           o == t.org
           S == Due(o, now)
           log == [request |-> t, at |-> now]
<1>0. RowsTypeOK /\ RowsAgree
  BY DEF HistoryInv, Inv, TypeOK, Story
<1>1. TransitionOutcome(t, now) = "APPLY"
  BY DEF TransitionApplied
<1>2. /\ r \in DOMAIN reservations /\ r.org = o
      /\ ExpiredReservations(o, now)[r].state # "EXPIRED"
      /\ reservations[r].state = "RESERVED"
  BY <1>1, ApplyFacts
<1>3. r \in Requests /\ r \notin S
  BY <1>0, <1>2, ExpiredReservation DEF RowsTypeOK
<1>4. /\ reservations' = [ExpiredReservations(o, now) EXCEPT ![r].state = t.target]
      /\ transitions' = [ExpiredTransitions(o, now) EXCEPT ![r] = Append(@, log)]
      /\ budgets' = budgets
  BY DEF TransitionApplied
<1>5. /\ DOMAIN reservations' = DOMAIN reservations
      /\ \A x \in DOMAIN reservations :
            x # r => reservations'[x] = ExpiredReservations(o, now)[x]
      /\ reservations'[r] = [ExpiredReservations(o, now)[r] EXCEPT !.state = t.target]
  BY <1>2, <1>4 DEF ExpiredReservations
<1>6. reservations'[r].window = reservations[r].window /\ reservations'[r].state = t.target
  <2>1. ExpiredReservations(o, now)[r] = reservations[r]
    BY <1>0, <1>2, <1>3, ExpiredReservation
  <2>2. reservations[r] \in ReservationRecord
    BY <1>0, <1>2 DEF RowsTypeOK
  <2> QED
    BY <1>5, <2>1, <2>2 DEF ReservationRecord
<1>7. transitions'[r] = Append(ExpiredTransitions(o, now)[r], log)
      /\ \A x \in Requests : x # r => transitions'[x] = ExpiredTransitions(o, now)[x]
  BY <1>3, <1>4 DEF ExpiredTransitions
<1>8. transitions'[r] = <<log>>
  <2>1. ExpiredTransitions(o, now)[r] = transitions[r]
    BY <1>3 DEF ExpiredTransitions
  <2>2. transitions[r] = <<>>
    BY <1>0, <1>2, <1>3 DEF RowsAgree
  <2> HIDE DEF log
  <2> QED
    BY <1>7, <2>1, <2>2, AppendFirst
<1>9. ASSUME NEW x \in DOMAIN reservations
      PROVE  /\ reservations'[x].window = reservations[x].window
             /\ x \in S => reservations'[x].state = "EXPIRED"
             /\ x = r => reservations'[x].state = t.target
             /\ x \notin S \cup {r} =>
                   /\ reservations'[x].state = reservations[x].state
                   /\ transitions'[x] = transitions[x]
  <2>1. CASE x = r
    BY <1>3, <1>6, <2>1
  <2>2. CASE x # r
    <3>1. /\ reservations'[x] = ExpiredReservations(o, now)[x]
          /\ transitions'[x] = ExpiredTransitions(o, now)[x]
      BY <1>0, <1>5, <1>7, <2>2 DEF RowsTypeOK
    <3> QED
      BY <1>0, <2>2, <3>1, ExpiryEnds
  <2> QED
    BY <2>1, <2>2
<1>10. r \in InState({"RESERVED"})
  BY <1>2 DEF InState
<1> HIDE DEF S
<1> QED
  BY <1>2, <1>3, <1>4, <1>5, <1>8, <1>9, <1>10 DEF S

\* A release, with its expiries, is a Lapse; a commit is a Spend of no more than
\* was given.
LEMMA TransitionAppliedQuota ==
    ASSUME HistoryInv, HistoryInv', NEW t \in TransitionRequests, NEW now \in Times,
           TransitionApplied(t, now)
    PROVE  Quota!Lapse(t.org) \/ Quota!Spend(t.reservation)
<1>01. PICK r : r = t.reservation
  OBVIOUS
<1>02. PICK S : S = Due(t.org, now)
  OBVIOUS
<1>0. /\ RowsAgree /\ RowsAgree' /\ DOMAIN reservations \subseteq Requests
      /\ RowsTypeOK
  BY DEF HistoryInv, Story, Inv, TypeOK, RowsTypeOK
<1>1. /\ r \in InState({"RESERVED"}) \ S /\ r.org = t.org
      /\ DOMAIN reservations' = DOMAIN reservations
      /\ budgets' = budgets
      /\ \A x \in DOMAIN reservations :
            /\ reservations'[x].window = reservations[x].window
            /\ x \in S => reservations'[x].state = "EXPIRED"
            /\ x = r => reservations'[x].state = t.target
            /\ x \notin S \cup {r} =>
                  /\ reservations'[x].state = reservations[x].state
                  /\ transitions'[x] = transitions[x]
      /\ transitions'[r] = <<[request |-> t, at |-> now]>>
  BY <1>01, <1>02, AppliedRows
<1>2. /\ S \subseteq InState({"RESERVED"}) /\ (\A g \in S : g.org = t.org)
      /\ S \subseteq DOMAIN reservations
  BY <1>02, DueHeld DEF InState
<1>3. r \in DOMAIN reservations /\ r \notin S /\ r \in Requests
  BY <1>0, <1>1 DEF InState
<1>4. t.target \in {"COMMITTED", "RELEASED"} /\ t.observed \in Amounts
  BY TransitionRequestsAssumption DEF TransitionRequest
<1>5. CASE t.target = "RELEASED"
  <2>1. PICK U : U = S \cup {r}
    OBVIOUS
  <2>2. Ends(U)
    BY <1>1, <1>2, <1>3, <1>5, <2>1 DEF Ends
  <2>3. U \subseteq InState({"RESERVED"}) /\ (\A g \in U : g.org = t.org)
    BY <1>1, <1>2, <2>1
  <2> QED
    BY <1>1, <2>2, <2>3, LapseStep
<1>6. CASE t.target = "COMMITTED"
  <2>1. /\ InState({"RESERVED"})' = InState({"RESERVED"}) \ (S \cup {r})
        /\ InState({"COMMITTED"})' = InState({"COMMITTED"}) \cup {r}
        /\ InState({"RELEASED", "EXPIRED"})' = InState({"RELEASED", "EXPIRED"}) \cup S
    <3>1. \A x \in S \cup {r} : reservations[x].state = "RESERVED"
      BY <1>1, <1>2 DEF InState
    <3> QED
      BY <1>1, <1>2, <1>3, <1>6, <3>1 DEF InState
  <2>2. \A x \in S : Places'[x] = Places[x] /\ Charges'[x] = Zero
    BY <1>0, <1>1, <1>2, RowReturned DEF Places, Charges
  <2>3. \A x \in Requests \ (S \cup {r}) : Places'[x] = Places[x] /\ Charges'[x] = Charges[x]
    BY <1>0, <1>1, RowKept DEF Places, Charges
  <2>4. Places'[r] = Places[r] /\ Charges'[r] = t.observed
    <3>1. PlaceOf(r)' = PlaceOf(r)
      BY <1>1, <1>3 DEF PlaceOf, ReservationKey
    <3>2. ChargeOf(r)' = Counts(r)'
      BY <1>0, <1>3, ChargeCountsNext
    <3>3. transitions'[r][1].request = t
      BY <1>1
    <3>4. r \in InState({"COMMITTED"})' /\ r \notin InState({"RESERVED"})'
      BY <2>1
    <3>5. Counts(r)' = t.observed
      BY <3>3, <3>4 DEF Counts
    <3> QED
      BY <1>3, <3>1, <3>2, <3>5 DEF Places, Charges
  <2>5. Caps' = Caps
    BY <1>1 DEF Caps, CapOf
  <2>6. \A d \in Dims : t.observed[d] <= r.requested[d]
    <3>1. ~Exceeds(t.observed, t.reservation.requested)
      BY <1>6, ApplyFacts DEF TransitionApplied
    <3>2. \A d \in Dims : t.observed[d] \in Int /\ r.requested[d] \in Int
      BY <1>3, <1>4, RequestedAmount, SafeMaxAssumption DEF Amounts
    <3> QED
      BY <1>01, <3>1, <3>2 DEF Exceeds
  <2>7. S \in SUBSET ((InState({"RESERVED"}) \cap {g \in Requests : g.org = r.org}) \ {r})
    BY <1>0, <1>1, <1>2, <1>3
  <2>8. Quota!Nothing = Zero
    BY DEF Quota!Nothing, Zero
  <2>9. \A d \in Dims : Charges'[r][d] <= r.requested[d]
    BY <2>4, <2>6
  <2>10. Quota!Spend(r)
    BY <1>1, <2>1, <2>2, <2>3, <2>4, <2>5, <2>7, <2>8, <2>9
    DEF Quota!Spend, Quota!Lapsed, Quota!OthersKeep, Quota!Of, Caps, Places, Charges
  <2> QED
    BY <1>01, <2>10
<1> QED
  BY <1>4, <1>5, <1>6

\* Configuring a budget opens an account, once.
LEMMA AddBudgetOpen ==
    ASSUME NEW b \in BudgetDefs, AddBudget(b), ~UNCHANGED ledgerVars
    PROVE  Quota!Open(<<b.org, b.budget>>)
<1>0. PICK a : a = <<b.org, b.budget>>
  OBVIOUS
<1>1. /\ a \notin DOMAIN budgets
      /\ budgets' = [x \in DOMAIN budgets \cup {a} |-> IF x = a THEN b ELSE budgets[x]]
      /\ UNCHANGED <<reservations, usage_entries>>
  BY <1>0 DEF AddBudget, Refuse
<1>2. /\ DOMAIN Caps = DOMAIN budgets /\ DOMAIN Caps' = DOMAIN budgets \cup {a}
      /\ \A x \in DOMAIN Caps : Caps'[x] = Caps[x]
      /\ Caps'[a] = CapOf(b)
  BY <1>1 DEF Caps
<1>3. \A d \in Dims : Caps'[a][d] \in 0..SafeMax
  <2>1. \A d \in Dims : b.limits[d] \in 0..SafeMax
    BY BudgetDefsAssumption DEF BudgetDefinition, Amounts
  <2> QED
    BY <1>2, <2>1, SafeMaxAssumption DEF CapOf
<1>4. /\ UNCHANGED <<InState({"RESERVED"}), InState({"COMMITTED"}),
                     InState({"RELEASED", "EXPIRED"})>>
      /\ Places' = Places /\ Charges' = Charges
  BY <1>1 DEF InState, Places, PlaceOf, ReservationKey, Charges, ChargeOf, EntryOf
<1> QED
  BY <1>0, <1>1, <1>2, <1>3, <1>4 DEF Quota!Open, Caps, Places, Charges

\* A step that leaves budgets, reservations and usage entries alone leaves Quota
\* alone.
LEMMA QuotaStutter ==
    ASSUME UNCHANGED <<budgets, reservations, usage_entries>>
    PROVE  UNCHANGED Quota!quotaVars
<1>1. /\ UNCHANGED <<InState({"RESERVED"}), InState({"COMMITTED"}),
                     InState({"RELEASED", "EXPIRED"})>>
      /\ Caps' = Caps /\ Places' = Places /\ Charges' = Charges
  BY DEF InState, Caps, CapOf, Places, PlaceOf, ReservationKey, Charges, ChargeOf, EntryOf
<1> QED
  BY <1>1 DEF Quota!quotaVars, Caps, Places, Charges

\* An empty ledger is a fresh Quota.
LEMMA InitStart == Init => Quota!Start
<1> SUFFICES ASSUME Init PROVE Quota!Start
  OBVIOUS
<1>1. /\ InState({"RESERVED"}) = {} /\ InState({"COMMITTED"}) = {}
      /\ InState({"RELEASED", "EXPIRED"}) = {}
      /\ \A r \in Requests : PlaceOf(r) = None /\ ChargeOf(r) = Zero
      /\ DOMAIN budgets = {}
  BY DEF Init, InState, PlaceOf, ChargeOf
<1>2. Quota!Nothing = Zero
  BY DEF Quota!Nothing, Zero
<1> QED
  BY <1>1, <1>2 DEF Quota!Start

\* Every step of the ledger is a step of Quota or leaves it alone.
LEMMA NextStep ==
    HistoryInv /\ HistoryInv' /\ [Next]_vars => [Quota!Step]_(Quota!quotaVars)
<1> SUFFICES ASSUME HistoryInv, HistoryInv', [Next]_vars
             PROVE  Quota!Step \/ UNCHANGED Quota!quotaVars
  OBVIOUS
<1>1. ASSUME UNCHANGED ledgerVars
      PROVE  UNCHANGED Quota!quotaVars
  BY <1>1, QuotaStutter DEF ledgerVars
<1>2. ASSUME NEW o \in Orgs, Quota!Lapse(o)
      PROVE  Quota!Step
  BY <1>2 DEF Quota!Step
<1>3. CASE UNCHANGED vars
  BY <1>1, <1>3 DEF vars
<1>4. ASSUME NEW b \in BudgetDefs, AddBudget(b)
      PROVE  Quota!Step \/ UNCHANGED Quota!quotaVars
  <2>1. <<b.org, b.budget>> \in Orgs \X BudgetIds
    BY BudgetDefsAssumption DEF BudgetDefinition
  <2>2. CASE UNCHANGED ledgerVars
    BY <1>1, <2>2
  <2>3. CASE ~UNCHANGED ledgerVars
    BY <1>4, <2>1, <2>3, AddBudgetOpen DEF Quota!Step
  <2> QED
    BY <2>2, <2>3
<1>5. ASSUME NEW q \in Requests, NEW now \in Times,
             ReserveRefused(q, now) \/ EvaluateRefused(q, now)
      PROVE  UNCHANGED Quota!quotaVars
  BY <1>1, <1>5 DEF ReserveRefused, EvaluateRefused, Refuse
<1>6. ASSUME NEW q \in Requests, NEW now \in Times, PersistExpiries(q.org, now)
      PROVE  Quota!Step
  <2>1. q.org \in Orgs
    BY RequestsAssumption DEF ReserveRequest
  <2> QED
    BY <1>2, <1>6, <2>1, PersistExpiriesLapse
<1>7. ASSUME NEW q \in Requests, NEW now \in Times, ReserveDenied(q, now)
      PROVE  Quota!Step
  BY <1>6, <1>7 DEF ReserveDenied
<1>8. ASSUME NEW q \in Requests, NEW now \in Times, ReserveAdmitted(q, now)
      PROVE  Quota!Step
  BY <1>8, ReserveAdmittedGive DEF Quota!Step
<1>9. ASSUME NEW q \in Requests, NEW now \in Times, Evaluated(q, now)
      PROVE  Quota!Step \/ UNCHANGED Quota!quotaVars
  BY <1>1, <1>6, <1>9 DEF Evaluated
<1>10. ASSUME NEW t \in TransitionRequests, NEW now \in Times, TransitionRefused(t, now)
       PROVE  UNCHANGED Quota!quotaVars
  BY <1>1, <1>10 DEF TransitionRefused, Refuse
<1>11. ASSUME NEW t \in TransitionRequests, NEW now \in Times, TransitionApplied(t, now)
       PROVE  Quota!Step
  <2>1. t.org \in Orgs /\ t.reservation \in Requests
    BY TransitionRequestsAssumption DEF TransitionRequest
  <2>2. Quota!Lapse(t.org) \/ Quota!Spend(t.reservation)
    BY <1>11, TransitionAppliedQuota
  <2> QED
    BY <2>1, <2>2 DEF Quota!Step
<1>12. ASSUME NEW o \in Orgs, NEW now \in Times,
              \/ ListUsage(o, now)
              \/ ListBudgets(o, now)
              \/ ReconciliationCurrent(o, now)
       PROVE  UNCHANGED Quota!quotaVars
  BY <1>1, <1>12 DEF ListUsage, ListBudgets, ReconciliationCurrent, Refuse
<1>13. ASSUME NEW o \in Orgs, NEW id \in BudgetIds, NEW now \in Times,
              ReconcileRefused(o, id, now) \/ RetentionRefused(o, id, now)
       PROVE  UNCHANGED Quota!quotaVars
  BY <1>1, <1>13 DEF ReconcileRefused, RetentionRefused, Refuse
<1>14. ASSUME NEW o \in Orgs, NEW id \in BudgetIds, NEW now \in Times,
              Reconcile(o, id, now)
       PROVE  Quota!Step
  <2>1. PersistExpiries(o, now)
    BY <1>14 DEF Reconcile
  <2> QED
    BY <1>2, <2>1, PersistExpiriesLapse
<1>15. ASSUME NEW o \in Orgs, NEW id \in BudgetIds, NEW now \in Times,
              RetentionDue(o, id, now)
       PROVE  UNCHANGED Quota!quotaVars
  BY <1>15, QuotaStutter DEF RetentionDue
<1> QED
  BY <1>3, <1>4, <1>5, <1>7, <1>8, <1>9, <1>10, <1>11, <1>12, <1>13, <1>14, <1>15
  DEF Next, Handlers, Maintenance

\* The ledger implements Quota: whatever callers, clocks and retries do, each of
\* its steps is one that Quota allows.
THEOREM LedgerImplementsQuota == Spec => ImplementsQuota
BY InitStart, NextStep, HistoryInvariance, PTL DEF Spec, ImplementsQuota, Quota!Quotas
=============================================================================
