----------------------------- MODULE Telemetry -----------------------------
(***************************************************************************)
(* The telemetry pipeline of usage/telemetry.py: threads of the process    *)
(* pass operations through ContentFreeTelemetry.admit, which drops         *)
(* attribute values beyond the cardinality limit of their tenant and key,  *)
(* and append the record it builds to the buffer (TelemetryBuffer).        *)
(*                                                                         *)
(* CardinalityGuard has no lock.  Its test reads the bucket in one step    *)
(* (CPython >= 3.12, which pyproject.toml demands, changes threads only at *)
(* calls and loop turns) and adds the value in a later one.                *)
(* sanitize_attributes and context_attributes belong to the external       *)
(* planeon_harness: an operation's attributes are what they leave.         *)
(***************************************************************************)
EXTENDS TelemetryBuffer

CONSTANTS
    Threads,
    Tenants,            \* organizations
    AttributeKeys,
    Values,             \* attribute values
    Operations,         \* what the instrumented code reports
    Maximum             \* maximum_values_per_key

Operation ==
    [id: STRING, org: Tenants \cup {None}, attributes: Seq(AttributeKeys \X Values),
     priority: STRING, audit_required: BOOLEAN, width: Nat \ {0}, at: Nat]

\* The record of an operation with n attributes left; each adds to its size.
RecordOf(op, n) ==
    [id |-> op.id, priority |-> op.priority, audit_required |-> op.audit_required,
     size |-> op.width + n, recorded_at |-> op.at]

\* admit's first checks.
Refusal(op) ==
    IF op.org = None THEN "TELEMETRY_TENANT_REQUIRED"
    ELSE IF op.priority \notin {"LOW", "NORMAL", "AUDIT"} \/ ~Admitted(op)
    THEN "TELEMETRY_PRIORITY_INVALID"
    ELSE "NONE"

ASSUME ThreadsAssumption == IsFiniteSet(Threads) /\ Threads # {}
ASSUME MaximumAssumption == Maximum \in Nat \ {0}
ASSUME OperationsAssumption ==
    /\ Operations \subseteq Operation
    /\ \A op \in Operations : Refusal(op) = "NONE" =>
          \A n \in 0..Len(op.attributes) : RecordOf(op, n) \in Records

VARIABLES
    values,     \* CardinalityGuard._values, absent is empty
    thread,     \* what each thread is doing
    seen,       \* history: the values each tenant has sent for each key
    dropped     \* history: the buckets that have refused a value

guardVars == <<values, seen, dropped>>
pipelineVars == <<vars, guardVars, thread>>

Buckets == Tenants \X AttributeKeys

Idle == [pc |-> "idle", op |-> None, todo |-> <<>>, accepted |-> 0]

\* Faulty variant: the buckets of all tenants are one.
Bucket_Shared(op, key) == <<CHOOSE o \in Tenants : TRUE, key>>

Bucket(op, key) == <<op.org, key>>

-----------------------------------------------------------------------------
AdmitRefused(t, op) ==
    /\ thread[t].pc = "idle"
    /\ Refusal(op) # "NONE"
    /\ UNCHANGED pipelineVars

Admit(t, op) ==
    /\ thread[t].pc = "idle"
    /\ Refusal(op) = "NONE"
    /\ thread' = [thread EXCEPT ![t] = [pc |-> "read", op |-> op,
                                        todo |-> op.attributes, accepted |-> 0]]
    /\ UNCHANGED <<vars, guardVars>>

\* Faulty variant: one value more than the limit.
Room_OneMore(bucket) == Cardinality(values[bucket]) <= Maximum

Room(bucket) == Cardinality(values[bucket]) < Maximum

\* CardinalityGuard.admit: the test on the next attribute, in sorted order.
Guard_Read(t) ==
    LET me == thread[t]
        bucket == Bucket(me.op, Head(me.todo)[1])
        value == Head(me.todo)[2]
    IN  /\ me.pc = "read" /\ me.todo # <<>>
        /\ seen' = [seen EXCEPT ![<<me.op.org, Head(me.todo)[1]>>] = @ \cup {value}]
        /\ \/ /\ value \in values[bucket] \/ Room(bucket)
              /\ thread' = [thread EXCEPT ![t].pc = "add"]
              /\ UNCHANGED dropped
           \/ /\ value \notin values[bucket] /\ ~Room(bucket)
              /\ thread' = [thread EXCEPT ![t].todo = Tail(@)]
              /\ dropped' = dropped \cup {<<me.op.org, Head(me.todo)[1]>>}
    /\ UNCHANGED <<vars, values>>

Guard_Add(t) ==
    LET me == thread[t] IN
    /\ me.pc = "add"
    /\ values' = [values EXCEPT ![Bucket(me.op, Head(me.todo)[1])] =
                     @ \cup {Head(me.todo)[2]}]
    /\ thread' = [thread EXCEPT ![t].pc = "read", ![t].todo = Tail(@),
                                ![t].accepted = @ + 1]
    /\ UNCHANGED <<vars, seen, dropped>>

\* The record is built and given to the buffer, at any later instant.
Append_Call(t) ==
    LET record == RecordOf(thread[t].op, thread[t].accepted) IN
    /\ thread[t].pc = "read" /\ thread[t].todo = <<>>
    /\ \/ /\ AppendOversize(record)
          /\ thread' = [thread EXCEPT ![t] = Idle]
       \/ /\ \E now \in Times : Append_Expire(record, now)
          /\ thread' = [thread EXCEPT ![t].pc = "append"]
    /\ UNCHANGED guardVars

\* A turn of the loop, by the thread that holds the buffer's lock.
Append_Turn(t) ==
    /\ thread[t].pc = "append"
    /\ Finish
    /\ thread' = IF pending' = None THEN [thread EXCEPT ![t] = Idle] ELSE thread
    /\ UNCHANGED guardVars

PipelineInit ==
    /\ Init
    /\ values = [b \in Buckets |-> {}]
    /\ thread = [t \in Threads |-> Idle]
    /\ seen = [b \in Buckets |-> {}]
    /\ dropped = {}

PipelineNext ==
    \E t \in Threads :
        \/ \E op \in Operations : AdmitRefused(t, op) \/ Admit(t, op)
        \/ Guard_Read(t)
        \/ Guard_Add(t)
        \/ Append_Call(t)
        \/ Append_Turn(t)

\* A thread inside append runs on: the loop waits for nobody.
Pipeline ==
    /\ PipelineInit /\ [][PipelineNext]_pipelineVars
    /\ \A t \in Threads : WF_pipelineVars(Append_Turn(t))
-----------------------------------------------------------------------------
\* The unlocked guard passes its limit by less than the number of threads: each
\* of the others adds at most one value it tested before the bucket was full.
CardinalityBounded ==
    \A b \in Buckets : Cardinality(values[b]) <= Maximum + Cardinality(Threads) - 1

\* A tenant loses an attribute value only by its own variety: whatever other
\* tenants and threads send, no value is dropped from a bucket for which the
\* tenant itself has sent no more than maximum_values_per_key values.
DropsAreOwn == \A b \in dropped : Cardinality(seen[b]) > Maximum
=============================================================================
