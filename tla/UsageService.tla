---------------------------- MODULE UsageService ----------------------------
(***************************************************************************)
(* The usage-ledger process: create_app (src/services/usage-ledger/app.py) *)
(* configures the budgets and reconciles each once; UsageService then      *)
(* serves the ledger's routes and three reports: readiness, dependencies   *)
(* and SLOs.  The reports join the ledger's reconciliation marks, the      *)
(* dependency health the process was given and the saturation of the       *)
(* telemetry buffer, which other threads fill.                             *)
(*                                                                         *)
(* The HTTP adapter reads the clock and calls the service without giving   *)
(* up the event loop in between, so the routes run at the current instant. *)
(* Authentication and field checks come before the ledger and change       *)
(* nothing here.                                                           *)
(***************************************************************************)
EXTENDS UsageLedger

CONSTANTS
    ReadinessOrg,   \* readiness_organization_id
    Config,         \* the budgets of the configuration file, in order
    Healths,        \* the DependencyHealth the process may be given
    Records, MaxRecords, MaxBytes, MaxAge   \* of the telemetry buffer

DependencyHealth ==
    [durable_store_ready: BOOLEAN, collector_contract_valid: BOOLEAN,
     collector_ready: BOOLEAN, backend_ready: BOOLEAN]

ASSUME ReadinessOrgAssumption == ReadinessOrg \in Orgs
\* load_usage_config: at least one budget, no id twice.
ASSUME ConfigAssumption ==
    /\ Config \in Seq(BudgetDefs) /\ Config # <<>>
    /\ \A i, j \in DOMAIN Config :
          <<Config[i].org, Config[i].budget>> = <<Config[j].org, Config[j].budget>> => i = j
ASSUME HealthsAssumption == Healths \subseteq DependencyHealth

VARIABLES
    clock,      \* the wall clock
    phase,      \* where create_app is, then "serving", or "failed"
    todo,       \* the configured budgets not yet started
    health,     \* DependencyHealth, frozen
    records, bytes, audit_saturated, pending, answer, offered

bufferVars == <<records, bytes, audit_saturated, pending, answer, offered>>
serviceVars == <<vars, clock, phase, todo, health, bufferVars>>

Buffer == INSTANCE TelemetryBuffer

\* What the buffer asks of its constants.
ASSUME BufferAssumption ==
    /\ Records \subseteq Buffer!TelemetryRecord /\ None \notin Records
    /\ \A r \in Records : Buffer!Admitted(r)
    /\ MaxRecords \in Nat \ {0} /\ MaxBytes \in Nat \ {0} /\ MaxAge \in Nat \ {0}
\* The wall clock starts at an instant there is.
ASSUME ClockAssumption == 0 \in Times

(***************************************************************************)
(* create_app: one instant for the whole start; an exception ends it.      *)
(***************************************************************************)
StartBudget ==
    /\ phase = "starting"
    /\ \E b \in BudgetDefs : b = Head(todo) /\ AddBudget(b)
    /\ phase' = IF reply'.code = "ADDED" THEN "reconciling" ELSE "failed"
    /\ UNCHANGED <<clock, todo, health, bufferVars>>

StartReconcile ==
    /\ phase = "reconciling"
    /\ \E b \in BudgetDefs, now \in Times :
          /\ b = Head(todo)
          /\ now = clock
          /\ \/ /\ Reconcile(b.org, b.budget, now)
                /\ todo' = Tail(todo)
                /\ phase' = IF Tail(todo) = <<>> THEN "serving" ELSE "starting"
             \/ /\ ReconcileRefused(b.org, b.budget, now)
                /\ phase' = "failed"
                /\ UNCHANGED todo
    /\ UNCHANGED <<clock, health, bufferVars>>

\* The process has exited.
Exited == phase = "failed" /\ UNCHANGED serviceVars

(***************************************************************************)
(* Serving.                                                                *)
(***************************************************************************)
Serve ==
    /\ phase = "serving"
    /\ \E now \in Times : now = clock /\ (Handlers(now) \/ Maintenance(now))
    /\ UNCHANGED <<clock, phase, todo, health, bufferVars>>

\* Faulty variant: a full buffer only degrades the service.
status_IgnoresBuffer(currency) ==
    IF health.durable_store_ready /\ health.collector_contract_valid
       /\ currency = "CURRENT"
    THEN "READY" ELSE "NOT_READY"

\* DependencyHealth.to_dict
status(currency) ==
    IF /\ health.durable_store_ready
       /\ health.collector_contract_valid
       /\ currency = "CURRENT"
       /\ ~audit_saturated
    THEN "READY" ELSE "NOT_READY"

degraded == ~health.collector_ready \/ ~health.backend_ready \/ audit_saturated

\* A report is a read of the ledger, then of the buffer, which waits for the
\* append that holds the buffer's lock; the ledger's marks of an instant that is
\* past only change with its counters, so both reads are one step here.
Report(o, op, code) ==
    /\ phase = "serving"
    /\ pending = None
    /\ Refuse(o, op, code, None)
    /\ UNCHANGED <<clock, phase, todo, health, bufferVars>>

\* WINDOW_NOT_STARTED is raised out of the report.
StatusOf(currency) ==
    IF currency = "WINDOW_NOT_STARTED" THEN currency ELSE status(currency)

\* ready, for the organization the process was told to report on.
Ready ==
    \E currency \in reconciliation_current(ReadinessOrg, clock) :
        Report(ReadinessOrg, "ready", StatusOf(currency))

Dependencies(o) ==
    \E currency \in reconciliation_current(o, clock) :
        Report(o, "dependencies", <<StatusOf(currency), degraded>>)

\* slos: a HARD budget waiting for its reset degrades the protection.
Slos(o) ==
    LET mine == {budgets[x] : x \in {y \in DOMAIN budgets : y[1] = o}}
        pendingReset == \E b \in mine : /\ b.enforcement = "HARD"
                                        /\ BudgetState(b, window_at(b, clock)) = "RESET_PENDING"
    IN  /\ \A b \in mine : clock >= b.epoch
        /\ clock >= last_clock[o]
        /\ Report(o, "slos", IF pendingReset THEN "RESET_PENDING" ELSE "ACTIVE")

(***************************************************************************)
(* Other threads append telemetry; time passes.                            *)
(***************************************************************************)
Telemetry ==
    /\ phase = "serving"
    /\ Buffer!Next
    /\ UNCHANGED <<vars, clock, phase, todo, health>>

Tick ==
    /\ clock + 1 \in Times
    /\ phase \in {"starting", "serving"}
    /\ phase = "starting" => todo = Config
    /\ clock' = clock + 1
    /\ UNCHANGED <<vars, phase, todo, health, bufferVars>>

ServiceInit ==
    /\ Init
    /\ Buffer!Init
    /\ clock = 0
    /\ phase = "starting"
    /\ todo = Config
    /\ health \in Healths

ServiceNext ==
    \/ StartBudget \/ StartReconcile \/ Exited
    \/ Serve
    \/ Ready
    \/ \E o \in Orgs : Dependencies(o) \/ Slos(o)
    \/ Telemetry
    \/ Tick

ServiceSpec == ServiceInit /\ [][ServiceNext]_serviceVars
-----------------------------------------------------------------------------
ReadinessBudgets == {budgets[x] : x \in {y \in DOMAIN budgets : y[1] = ReadinessOrg}}

CurrentKey(b) == <<b.org, b.budget, window_at(b, clock)>>

\* A READY answer of GET /health/ready is true when it is given, although it
\* rests on a mark some earlier operation left and on a flag: the counters of
\* the current window of every budget equal the sums over the rows now, every
\* audit record ever given to the buffer is in it, and the store is ready.
ReadyIsTrue ==
    [][Ready /\ reply'.code = "READY" =>
          /\ health.durable_store_ready /\ health.collector_contract_valid
          /\ \A b \in ReadinessBudgets : recomputed(CurrentKey(b)) = aggregate(CurrentKey(b))
          /\ \A r \in offered : Buffer!Buffered(r)]_serviceVars

\* A healthy process is unready only where a window of the readiness
\* organization has had no business yet: never once every budget has a
\* reservation in its current window, whatever else happened since the start.
\* (Until then it stays unready: after each rollover reconciliation_current has
\* no mark of the new window, and no route reconciles.)
UnreadyOnlyWhenIdle ==
    [][/\ Ready /\ reply'.code = "NOT_READY"
       /\ health.durable_store_ready /\ health.collector_contract_valid
       /\ ~audit_saturated
       => \E b \in ReadinessBudgets :
             \A r \in DOMAIN reservations : ReservationKey(r) # CurrentKey(b)]_serviceVars
=============================================================================
