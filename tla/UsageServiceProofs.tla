------------------------- MODULE UsageServiceProofs -------------------------
(***************************************************************************)
(* The usage-ledger process, for every configuration, every set of tenants *)
(* and requests and every telemetry.  Its reports read a mark an earlier   *)
(* operation left and a flag of the buffer; what makes them true is that   *)
(* the ledger keeps its invariant in the hands of create_app and of the    *)
(* service, that the buffer keeps its own beside it, and that no           *)
(* reservation is ever in a window that is not marked MATCH.               *)
(***************************************************************************)
EXTENDS UsageService, UsageLedgerProofs

\* The buffer with its proofs.
Kept == INSTANCE TelemetryBufferProofs

(***************************************************************************)
(* The inductive invariant.                                                *)
(***************************************************************************)
\* Reserving in a window marks it, and the counters match the rows ever after.
Marked == \A r \in DOMAIN reservations : reconciled[ReservationKey(r)] = "MATCH"

LedgerKept == Inv /\ Story /\ NoMismatch /\ Marked

ServiceInv == LedgerKept /\ Kept!BufferInv /\ clock \in Times

-----------------------------------------------------------------------------
(***************************************************************************)
(* The buffer of the service is the buffer that is proved about.           *)
(***************************************************************************)
\* Its records, kept or evicted, are the same.
LEMMA SamePicked == \A s, S : Buffer!Picked(s, S) = Kept!Picked(s, S)
BY DEF Buffer!Picked, Kept!Picked, Buffer!PositionAt, Kept!PositionAt,
       Buffer!Place, Kept!Place, Buffer!Cardinality, Kept!Cardinality

\* _expire_nonaudit keeps the same records.
LEMMA SameRetained == \A now : Buffer!Retained(now) = Kept!Retained(now)
<1>1. Buffer!Audits(records) = Kept!Audits(records)
  BY DEF Buffer!Audits, Kept!Audits
<1>2. \A now : Buffer!Recent(records, now) = Kept!Recent(records, now)
  BY DEF Buffer!Recent, Kept!Recent
<1> QED
  BY <1>1, <1>2, SamePicked DEF Buffer!Retained, Kept!Retained

\* Sizes are the same.
LEMMA SameSize == \A s : Buffer!SizeOf(s) = Kept!SizeOf(s)
BY DEF Buffer!SizeOf, Kept!SizeOf, Buffer!Cardinality, Kept!Cardinality

\* _drop_candidate names the same record.
LEMMA SameCandidates == Buffer!DropCandidates = Kept!DropCandidates
<1>1. \A p : Buffer!Droppable(p) = Kept!Droppable(p)
  BY DEF Buffer!Droppable, Kept!Droppable
<1>2. \A S : Buffer!First(S) = Kept!First(S)
  BY DEF Buffer!First, Kept!First
<1> QED
  BY <1>1, <1>2 DEF Buffer!DropCandidates, Kept!DropCandidates

\* append takes the same steps.
LEMMA SameNext == Buffer!Next => Kept!Next
<1> SUFFICES ASSUME Buffer!Next PROVE Kept!Next
  OBVIOUS
<1>1. Buffer!Fits <=> Kept!Fits
  BY DEF Buffer!Fits, Kept!Fits
<1>2. ASSUME NEW r \in Records, Buffer!AppendOversize(r)
      PROVE  Kept!AppendOversize(r)
  BY <1>2 DEF Buffer!AppendOversize, Kept!AppendOversize, Buffer!Offer, Kept!Offer
<1>3. ASSUME NEW r \in Records, NEW now \in Times, Buffer!Append_Expire(r, now)
      PROVE  Kept!Append_Expire(r, now)
  BY <1>3, SameRetained, SameSize
  DEF Buffer!Append_Expire, Kept!Append_Expire, Buffer!Offer, Kept!Offer
<1>4. ASSUME Buffer!Append_Evict
      PROVE  Kept!Append_Evict
  <2>1. \A s, i : Buffer!Without(s, i) = Kept!Without(s, i)
    BY SamePicked DEF Buffer!Without, Kept!Without
  <2> QED
    BY <1>1, <1>4, <2>1, SameCandidates DEF Buffer!Append_Evict, Kept!Append_Evict
<1>5. ASSUME Buffer!Append_NoRoom
      PROVE  Kept!Append_NoRoom
  BY <1>1, <1>5, SameCandidates DEF Buffer!Append_NoRoom, Kept!Append_NoRoom
<1>6. ASSUME Buffer!Append_Store
      PROVE  Kept!Append_Store
  BY <1>1, <1>6 DEF Buffer!Append_Store, Kept!Append_Store
<1> QED
  BY <1>2, <1>3, <1>4, <1>5, <1>6 DEF Buffer!Next, Kept!Next, Buffer!Finish, Kept!Finish

\* The service's buffer keeps the invariant of the buffer.
LEMMA BufferKept ==
    ASSUME Kept!BufferInv, Buffer!Next \/ UNCHANGED bufferVars
    PROVE  Kept!BufferInv'
<1>1. [Kept!Next]_(Kept!vars)
  BY SameNext DEF bufferVars, Kept!vars
<1>2. Records \subseteq Kept!TelemetryRecord /\ \A r \in Records : Kept!Admitted(r)
  BY BufferAssumption
  DEF Kept!TelemetryRecord, Kept!Admitted, Buffer!TelemetryRecord, Buffer!Admitted
<1> QED
  BY <1>1, <1>2, BufferAssumption, TimesAssumption, Kept!BufferKeeps

\* It starts empty.
LEMMA BufferEmpty == Buffer!Init => Kept!BufferInv
<1>1. Buffer!Init => Kept!Init
  BY DEF Buffer!Init, Kept!Init
<1>2. Records \subseteq Kept!TelemetryRecord /\ \A r \in Records : Kept!Admitted(r)
  BY BufferAssumption
  DEF Kept!TelemetryRecord, Kept!Admitted, Buffer!TelemetryRecord, Buffer!Admitted
<1> QED
  BY <1>1, <1>2, BufferAssumption, TimesAssumption, Kept!BufferStarts

-----------------------------------------------------------------------------
(***************************************************************************)
(* The marks.                                                              *)
(***************************************************************************)
\* _mark_reconciled finds the counters and the rows equal, so every reservation
\* stays in a marked window if the new one's window is among those it marks.
LEMMA MarkingKeeps ==
    ASSUME Inv, Inv', Marked, NEW touched, mark_reconciled(touched),
           \A r \in DOMAIN reservations' :
              \/ /\ r \in DOMAIN reservations
                 /\ reservations'[r].window = reservations[r].window
              \/ ReservationKey(r)' \in touched
    PROVE  Marked'
<1>1. \A k \in AggregateKeys : Status(k)' = "MATCH"
  BY StatusMatch DEF Inv, TypeOK
<1> SUFFICES ASSUME NEW r \in DOMAIN reservations'
             PROVE  reconciled'[ReservationKey(r)'] = "MATCH"
  BY DEF Marked
<1>2. ReservationKey(r)' \in AggregateKeys
  <2>1. r.org \in Orgs /\ r.budget \in BudgetIds /\ reservations'[r].window \in Windows
    BY RequestsAssumption
    DEF Inv, TypeOK, RowsTypeOK, ReservationRecord, ReserveRequest
  <2> QED
    BY <2>1 DEF ReservationKey, AggregateKeys
<1>3. PICK k \in AggregateKeys : k = ReservationKey(r)'
  BY <1>2
<1>4. reconciled'[k] = IF k \in touched THEN Status(k)' ELSE reconciled[k]
  BY DEF mark_reconciled
<1>5. CASE k \in touched
  BY <1>1, <1>3, <1>4, <1>5
<1>6. CASE k \notin touched
  <2>1. r \in DOMAIN reservations /\ k = ReservationKey(r)
    BY <1>3, <1>6 DEF ReservationKey
  <2>2. reconciled[k] = "MATCH"
    BY <2>1 DEF Marked
  <2> QED
    BY <1>3, <1>4, <1>6, <2>2
<1> QED
  BY <1>5, <1>6

\* A step that touches neither marks nor reservations keeps them.
LEMMA UntouchedMarks ==
    ASSUME Marked, UNCHANGED <<reservations, reconciled>>
    PROVE  Marked'
BY DEF Marked, ReservationKey

\* The expiries leave every reservation in its window.
LEMMA ExpiryWindows ==
    ASSUME Inv, NEW o, NEW now, NEW r \in DOMAIN reservations
    PROVE  ExpiredReservations(o, now)[r].window = reservations[r].window
<1>1. RowsTypeOK
  BY DEF Inv, TypeOK
<1> QED
  BY <1>1, ExpiredReservation

\* Every operation of the ledger keeps reservations in marked windows.
LEMMA NextMarked ==
    ASSUME Inv, Inv', Marked, [Next]_vars
    PROVE  Marked'
<1>0. RowsTypeOK /\ RowsTied
  BY DEF Inv, TypeOK
<1>1. ASSUME UNCHANGED ledgerVars
      PROVE  Marked'
  BY <1>1, UntouchedMarks DEF ledgerVars
<1>2. ASSUME NEW o, NEW now, NEW touched, PersistExpiries(o, now), mark_reconciled(touched)
      PROVE  Marked'
  <2>1. \A r \in DOMAIN reservations' :
           r \in DOMAIN reservations /\ reservations'[r].window = reservations[r].window
    BY <1>2, ExpiryWindows DEF PersistExpiries, ExpiredReservations
  <2> QED
    BY <1>2, <2>1, MarkingKeeps
<1>3. ASSUME NEW b \in BudgetDefs, AddBudget(b)
      PROVE  Marked'
  BY <1>3, UntouchedMarks DEF AddBudget, Refuse, ledgerVars
<1>4. ASSUME NEW q \in Requests, NEW now \in Times, ReserveAdmitted(q, now)
      PROVE  Marked'
  <2>1. PICK k : k = <<q.org, q.budget, window_at(budgets[<<q.org, q.budget>>], now)>>
    OBVIOUS
  <2>2. mark_reconciled(DueKeys(q.org, now) \cup {k})
    BY <1>4, <2>1 DEF ReserveAdmitted
  <2>3. /\ DOMAIN reservations' = DOMAIN reservations \cup {q}
        /\ reservations'[q] = NewReservation(q, now)
        /\ \A r \in DOMAIN reservations \ {q} :
              reservations'[r] = ExpiredReservations(q.org, now)[r]
    BY <1>4 DEF ReserveAdmitted
  <2>4. ReservationKey(q)' = k
    BY <2>1, <2>3 DEF ReservationKey, NewReservation
  <2>5. \A r \in DOMAIN reservations' :
           \/ /\ r \in DOMAIN reservations
              /\ reservations'[r].window = reservations[r].window
           \/ ReservationKey(r)' \in DueKeys(q.org, now) \cup {k}
    BY <2>3, <2>4, ExpiryWindows
  <2> QED
    BY <2>2, <2>5, MarkingKeeps
<1>5. ASSUME NEW t \in TransitionRequests, NEW now \in Times, TransitionApplied(t, now)
      PROVE  Marked'
  <2>1. PICK k : k = ReservationKey(t.reservation)
    OBVIOUS
  <2>2. mark_reconciled(DueKeys(t.org, now) \cup {k})
    BY <1>5, <2>1 DEF TransitionApplied
  <2>3. reservations' = [ExpiredReservations(t.org, now) EXCEPT
                            ![t.reservation].state = t.target]
    BY <1>5 DEF TransitionApplied
  <2>4. DOMAIN reservations' = DOMAIN reservations
    BY <2>3 DEF ExpiredReservations
  <2>5. ASSUME NEW r \in DOMAIN reservations
        PROVE  reservations'[r].window = reservations[r].window
    <3>1. ExpiredReservations(t.org, now)[r].window = reservations[r].window
      BY ExpiryWindows
    <3>2. ExpiredReservations(t.org, now)[r] \in ReservationRecord
      BY <1>0, CandidateTypes
    <3>3. PICK s \in ReservationRecord : s = ExpiredReservations(t.org, now)[r]
      BY <3>2
    <3>4. reservations'[r] = IF r = t.reservation THEN [s EXCEPT !.state = t.target] ELSE s
      BY <2>3, <3>3 DEF ExpiredReservations
    <3>5. [s EXCEPT !.state = t.target].window = s.window
      BY DEF ReservationRecord
    <3> QED
      BY <3>1, <3>3, <3>4, <3>5
  <2> QED
    BY <2>2, <2>4, <2>5, MarkingKeeps
<1>6. ASSUME NEW q \in Requests, NEW now \in Times,
             \/ ReserveRefused(q, now) \/ ReserveDenied(q, now)
             \/ EvaluateRefused(q, now) \/ Evaluated(q, now)
      PROVE  Marked'
  BY <1>1, <1>2, <1>6 DEF ReserveRefused, ReserveDenied, EvaluateRefused, Evaluated, Refuse
<1>7. ASSUME NEW t \in TransitionRequests, NEW now \in Times, TransitionRefused(t, now)
      PROVE  Marked'
  BY <1>1, <1>7 DEF TransitionRefused, Refuse
<1>8. ASSUME NEW o \in Orgs, NEW now \in Times,
             ListUsage(o, now) \/ ListBudgets(o, now) \/ ReconciliationCurrent(o, now)
      PROVE  Marked'
  BY <1>1, <1>8 DEF ListUsage, ListBudgets, ReconciliationCurrent, Refuse
<1>9. ASSUME NEW o \in Orgs, NEW id \in BudgetIds, NEW now \in Times,
             ReconcileRefused(o, id, now) \/ RetentionRefused(o, id, now)
      PROVE  Marked'
  BY <1>1, <1>9 DEF ReconcileRefused, RetentionRefused, Refuse
<1>10. ASSUME NEW o \in Orgs, NEW id \in BudgetIds, NEW now \in Times, Reconcile(o, id, now)
       PROVE  Marked'
  BY <1>2, <1>10 DEF Reconcile
<1>11. ASSUME NEW o \in Orgs, NEW id \in BudgetIds, NEW now \in Times,
              RetentionDue(o, id, now)
       PROVE  Marked'
  BY <1>11, UntouchedMarks DEF RetentionDue
<1>12. CASE UNCHANGED vars
  BY <1>1, <1>12 DEF vars
<1> QED
  BY <1>3, <1>4, <1>5, <1>6, <1>7, <1>8, <1>9, <1>10, <1>11, <1>12
  DEF Next, Handlers, Maintenance

-----------------------------------------------------------------------------
(***************************************************************************)
(* The steps of the process.                                               *)
(***************************************************************************)
\* An operation of the ledger, whoever calls it.
LEMMA OperationKeeps ==
    ASSUME LedgerKept, [Next]_vars
    PROVE  LedgerKept'
<1>1. Inv /\ Story /\ NoMismatch /\ Marked
  BY DEF LedgerKept
<1>2. Inv' /\ Story' /\ NoMismatch'
  BY <1>1, NextStory
<1>3. Marked'
  BY <1>1, <1>2, NextMarked
<1> QED
  BY <1>2, <1>3 DEF LedgerKept

\* A report answers, and changes nothing.
LEMMA ReportKeeps ==
    ASSUME LedgerKept, UNCHANGED ledgerVars, reply'.id = None
    PROVE  LedgerKept'
<1>1. Inv /\ Story /\ NoMismatch /\ Marked
  BY DEF LedgerKept
<1>2. UNCHANGED <<budgets, reservations, transitions, usage_entries, committed,
                  reserved, idempotency, outbox, denials, reconciled, last_clock>>
  BY DEF ledgerVars
<1>3. last_clock' \in [Orgs -> Times \cup {Never}]
  BY <1>1, <1>2 DEF Inv, TypeOK, RowsTypeOK
<1>4. /\ RowsTypeOK' /\ CountersTypeOK' /\ RowsTied'
      /\ Conservation' /\ HardLimit' /\ Representable'
  BY <1>1, <1>2, <1>3, UnchangedStep
<1>5. TypeOK'
  BY <1>1, <1>2, <1>4 DEF Inv, TypeOK
<1>6. Inv'
  BY <1>4, <1>5 DEF Inv
<1>7. Story' /\ NoMismatch'
  BY <1>1, <1>6, UntouchedStory
<1>8. Marked'
  BY <1>1, <1>2, UntouchedMarks
<1> QED
  BY <1>6, <1>7, <1>8 DEF LedgerKept

\* What the process does to its ledger is an operation of it, or a report.
LEMMA ServiceOperates ==
    ASSUME [ServiceNext]_serviceVars
    PROVE  [Next]_vars \/ (UNCHANGED ledgerVars /\ reply'.id = None)
<1>1. ASSUME StartBudget
      PROVE  Next
  BY <1>1 DEF StartBudget, Next
<1>2. ASSUME StartReconcile
      PROVE  Next
  <2>1. PICK b \in BudgetDefs, now \in Times :
            Reconcile(b.org, b.budget, now) \/ ReconcileRefused(b.org, b.budget, now)
    BY <1>2 DEF StartReconcile
  <2>2. b.org \in Orgs /\ b.budget \in BudgetIds
    BY BudgetDefsAssumption DEF BudgetDefinition
  <2>3. Maintenance(now)
    BY <2>1, <2>2 DEF Maintenance
  <2> QED
    BY <2>3 DEF Next
<1>3. ASSUME Serve
      PROVE  Next
  BY <1>3 DEF Serve, Next
<1>4. ASSUME NEW o, NEW op, NEW code, Report(o, op, code)
      PROVE  UNCHANGED ledgerVars /\ reply'.id = None
  BY <1>4 DEF Report, Refuse, Answer
<1>5. ASSUME Ready \/ \E o \in Orgs : Dependencies(o) \/ Slos(o)
      PROVE  UNCHANGED ledgerVars /\ reply'.id = None
  BY <1>4, <1>5 DEF Ready, Dependencies, Slos
<1>6. ASSUME Exited \/ Telemetry \/ Tick \/ UNCHANGED serviceVars
      PROVE  UNCHANGED vars
  BY <1>6 DEF Exited, Telemetry, Tick, serviceVars
<1> QED
  BY <1>1, <1>2, <1>3, <1>5, <1>6 DEF ServiceNext

\* What it does to the buffer is an append or nothing.
LEMMA ServiceAppends ==
    ASSUME [ServiceNext]_serviceVars
    PROVE  Buffer!Next \/ UNCHANGED bufferVars
<1>1. ASSUME NEW o, NEW op, NEW code, Report(o, op, code)
      PROVE  UNCHANGED bufferVars
  BY <1>1 DEF Report
<1>2. ASSUME Ready \/ \E o \in Orgs : Dependencies(o) \/ Slos(o)
      PROVE  UNCHANGED bufferVars
  BY <1>1, <1>2 DEF Ready, Dependencies, Slos
<1> QED
  BY <1>2 DEF ServiceNext, StartBudget, StartReconcile, Exited, Serve, Telemetry, Tick,
              serviceVars

\* Its clock shows the instants there are.
LEMMA ServiceTicks ==
    ASSUME clock \in Times, [ServiceNext]_serviceVars
    PROVE  clock' \in Times
<1>1. ASSUME NEW o, NEW op, NEW code, Report(o, op, code)
      PROVE  UNCHANGED clock
  BY <1>1 DEF Report
<1>2. ASSUME Ready \/ \E o \in Orgs : Dependencies(o) \/ Slos(o)
      PROVE  UNCHANGED clock
  BY <1>1, <1>2 DEF Ready, Dependencies, Slos
<1> QED
  BY <1>2 DEF ServiceNext, StartBudget, StartReconcile, Exited, Serve, Telemetry, Tick,
              serviceVars

\* Every step of the process keeps its invariant.
LEMMA ServiceKeeps == ServiceInv /\ [ServiceNext]_serviceVars => ServiceInv'
<1> SUFFICES ASSUME ServiceInv, [ServiceNext]_serviceVars
             PROVE  ServiceInv'
  OBVIOUS
<1>1. LedgerKept'
  BY ServiceOperates, OperationKeeps, ReportKeeps DEF ServiceInv
<1>2. Kept!BufferInv'
  BY ServiceAppends, BufferKept DEF ServiceInv
<1>3. clock' \in Times
  BY ServiceTicks DEF ServiceInv
<1> QED
  BY <1>1, <1>2, <1>3 DEF ServiceInv

\* It starts with an empty ledger and an empty buffer.
LEMMA ServiceStarts == ServiceInit => ServiceInv
<1> SUFFICES ASSUME ServiceInit PROVE ServiceInv
  OBVIOUS
<1>1. HistoryInv
  BY InitHistory DEF ServiceInit
<1>2. Marked
  BY DEF ServiceInit, Init, Marked
<1>3. Kept!BufferInv
  BY BufferEmpty DEF ServiceInit
<1>4. clock \in Times
  BY ClockAssumption DEF ServiceInit
<1> QED
  BY <1>1, <1>2, <1>3, <1>4 DEF ServiceInv, LedgerKept, HistoryInv

\* The inductive invariant of the process, from create_app on: the ledger, its
\* marks and the telemetry buffer keep theirs side by side.
THEOREM ServiceInvariant == ServiceSpec => []ServiceInv
BY ServiceStarts, ServiceKeeps, PTL DEF ServiceSpec

\* Retention findings stay true in the running service.
THEOREM RetentionStaysFinal == ServiceSpec => []RetentionHistoryClosed
<1>1. ServiceInv => RetentionHistoryClosed
  BY DEF ServiceInv, LedgerKept, Story
<1> QED
  BY <1>1, ServiceInvariant, PTL

-----------------------------------------------------------------------------
(***************************************************************************)
(* The readiness report.                                                   *)
(***************************************************************************)
\* What a READY or NOT_READY answer says of the state it was given in.
LEMMA ReadyAnswer ==
    ASSUME ServiceInv, Ready
    PROVE  /\ pending = None
           /\ \E currency \in reconciliation_current(ReadinessOrg, clock) :
                 reply'.code = StatusOf(currency)
BY DEF Ready, Report, Refuse, Answer

\* The current window of a started budget of the readiness organization is one
\* the ledger counts.
LEMMA CurrentCounted ==
    ASSUME ServiceInv, NEW x \in DOMAIN budgets, clock >= budgets[x].epoch
    PROVE  /\ CurrentKey(budgets[x]) \in AggregateKeys
           /\ CurrentKey(budgets[x]) = <<x[1], x[2], window_at(budgets[x], clock)>>
<1>1. RowsTypeOK /\ RowsTied /\ clock \in Times
  BY DEF ServiceInv, LedgerKept, Inv, TypeOK
<1>2. budgets[x] \in BudgetDefs /\ budgets[x].org = x[1] /\ budgets[x].budget = x[2]
  BY <1>1 DEF RowsTypeOK, RowsTied
<1>3. x \in Orgs \X BudgetIds
  BY <1>1 DEF RowsTypeOK
<1>4. window_at(budgets[x], clock) \in Windows
  BY <1>1, <1>2, WindowAtType
<1> QED
  BY <1>2, <1>3, <1>4 DEF CurrentKey, AggregateKeys

\* The counters of a window equal the sums over the rows.
LEMMA CountersMatch ==
    ASSUME ServiceInv, NEW k \in AggregateKeys
    PROVE  recomputed(k) = aggregate(k)
<1>1. CountersTypeOK /\ Conservation
  BY DEF ServiceInv, LedgerKept, Inv, TypeOK
<1>2. committed[k] \in Counters /\ reserved[k] \in Counters
  BY <1>1 DEF CountersTypeOK
<1>3. /\ committed[k] = [d \in Dims |-> committed[k][d]]
      /\ reserved[k] = [d \in Dims |-> reserved[k][d]]
  BY <1>2 DEF Counters
<1>4. committed[k] = [d \in Dims |-> Total(Entries(k), ObservedOf(d))]
  BY <1>1, <1>3 DEF Conservation
<1>5. reserved[k] = [d \in Dims |-> Total(Live(k), RequestedOf(d))]
  BY <1>1, <1>3 DEF Conservation
<1> QED
  BY <1>4, <1>5 DEF recomputed, aggregate

\* A READY answer is true when it is given.
LEMMA ReadyStep ==
    ASSUME ServiceInv, Ready, reply'.code = "READY"
    PROVE  /\ health.durable_store_ready /\ health.collector_contract_valid
           /\ \A b \in ReadinessBudgets : recomputed(CurrentKey(b)) = aggregate(CurrentKey(b))
           /\ \A r \in offered : Buffer!Buffered(r)
<1>1. PICK currency \in reconciliation_current(ReadinessOrg, clock) :
          StatusOf(currency) = "READY"
  BY ReadyAnswer
<1>2. /\ currency = "CURRENT" /\ ~audit_saturated
      /\ health.durable_store_ready /\ health.collector_contract_valid
  BY <1>1 DEF StatusOf, status
<1>3. \A x \in DOMAIN budgets : x[1] = ReadinessOrg => ~(clock < budgets[x].epoch)
  BY <1>1, <1>2 DEF reconciliation_current
<1>4. ASSUME NEW x \in DOMAIN budgets, x[1] = ReadinessOrg
      PROVE  recomputed(CurrentKey(budgets[x])) = aggregate(CurrentKey(budgets[x]))
  <2>1. RowsTypeOK /\ clock \in Times
    BY DEF ServiceInv, LedgerKept, Inv, TypeOK
  <2>2. budgets[x].epoch \in Nat /\ clock \in Nat
    BY <2>1, BudgetDefsAssumption, TimesAssumption DEF RowsTypeOK, BudgetDefinition
  <2>3. clock >= budgets[x].epoch
    BY <1>3, <1>4, <2>2
  <2> QED
    BY <2>3, CurrentCounted, CountersMatch
<1>5. ASSUME NEW r \in offered
      PROVE  Buffer!Buffered(r)
  <2>1. Kept!NoSilentAuditLoss /\ Kept!TypeOK
    BY DEF ServiceInv, Kept!BufferInv
  <2>2. r \in Records
    BY <2>1 DEF Kept!TypeOK
  <2>3. pending # r
    BY <2>2, ReadyAnswer, BufferAssumption
  <2>4. Kept!Buffered(r)
    BY <1>2, <2>1, <2>3 DEF Kept!NoSilentAuditLoss
  <2> QED
    BY <2>4 DEF Buffer!Buffered, Kept!Buffered
<1> QED
  BY <1>2, <1>4, <1>5 DEF ReadinessBudgets

\* GET /health/ready answers READY only when it is true: the counters of every
\* budget's current window equal the sums over the rows, every audit record ever
\* given to the buffer is in it, and the durable store is ready.
THEOREM ReadyAnswersAreTrue == ServiceSpec => ReadyIsTrue
<1>1. ServiceInv =>
         [Ready /\ reply'.code = "READY" =>
             /\ health.durable_store_ready /\ health.collector_contract_valid
             /\ \A b \in ReadinessBudgets :
                   recomputed(CurrentKey(b)) = aggregate(CurrentKey(b))
             /\ \A r \in offered : Buffer!Buffered(r)]_serviceVars
  BY ReadyStep
<1> QED
  BY <1>1, ServiceInvariant, PTL DEF ReadyIsTrue

\* A healthy service that is unready has a budget without a reservation in its
\* current window.
LEMMA UnreadyStep ==
    ASSUME ServiceInv, Ready, reply'.code = "NOT_READY",
           health.durable_store_ready, health.collector_contract_valid, ~audit_saturated
    PROVE  \E b \in ReadinessBudgets :
              \A r \in DOMAIN reservations : ReservationKey(r) # CurrentKey(b)
<1>1. PICK currency \in reconciliation_current(ReadinessOrg, clock) :
          StatusOf(currency) = "NOT_READY"
  BY ReadyAnswer
<1>2. currency = "STALE"
  BY <1>1 DEF StatusOf, status, reconciliation_current
<1>3. PICK x \in DOMAIN budgets :
          /\ x[1] = ReadinessOrg
          /\ clock >= budgets[x].epoch
          /\ reconciled[<<ReadinessOrg, x[2], window_at(budgets[x], clock)>>] # "MATCH"
  BY <1>1, <1>2 DEF reconciliation_current
<1>4. reconciled[CurrentKey(budgets[x])] # "MATCH"
  BY <1>3, CurrentCounted
<1>5. \A r \in DOMAIN reservations : ReservationKey(r) # CurrentKey(budgets[x])
  BY <1>4 DEF ServiceInv, LedgerKept, Marked
<1> QED
  BY <1>3, <1>5 DEF ReadinessBudgets

\* GET /health/ready of a healthy process answers NOT_READY only where a window
\* of the readiness organization has had no reservation yet.
THEOREM UnreadyAnswersAreIdle == ServiceSpec => UnreadyOnlyWhenIdle
<1>1. ServiceInv =>
         [/\ Ready /\ reply'.code = "NOT_READY"
          /\ health.durable_store_ready /\ health.collector_contract_valid
          /\ ~audit_saturated
          => \E b \in ReadinessBudgets :
                \A r \in DOMAIN reservations : ReservationKey(r) # CurrentKey(b)]_serviceVars
  BY UnreadyStep
<1> QED
  BY <1>1, ServiceInvariant, PTL DEF UnreadyOnlyWhenIdle
=============================================================================
