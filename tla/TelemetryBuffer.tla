-------------------------- MODULE TelemetryBuffer --------------------------
(***************************************************************************)
(* The bounded local telemetry buffer of usage/telemetry.py.  append first *)
(* refuses what can never fit, then, under the buffer's lock, expires old  *)
(* records, evicts records one at a time until the new one fits, and       *)
(* stores it.  Records an audit needs are neither expired nor evicted; when*)
(* they leave no room, an audit record that arrives is lost and the buffer *)
(* is saturated for good, which fails the service's readiness.             *)
(*                                                                         *)
(* The lock is held from the expiry to the answer.  `pending` is the record*)
(* whose append holds it, so that each turn of the eviction loop is a step.*)
(***************************************************************************)
EXTENDS Integers, FiniteSets, Sequences

CONSTANTS
    Records,        \* the telemetry records callers may append
    Times,          \* the instants callers may bring
    MaxRecords,     \* maximum_records
    MaxBytes,       \* maximum_bytes
    MaxAge,         \* maximum_age_seconds
    None            \* "no append in progress"

TelemetryRecord ==
    [id: STRING, priority: {"LOW", "NORMAL", "AUDIT"}, audit_required: BOOLEAN,
     size: Nat \ {0}, recorded_at: Nat]

\* What ContentFreeTelemetry.admit lets through.
Admitted(r) == (r.priority = "AUDIT") = r.audit_required

ASSUME RecordsAssumption ==
    Records \subseteq TelemetryRecord /\ \A r \in Records : Admitted(r)
ASSUME TimesAssumption == Times \subseteq Nat
ASSUME MaxRecordsAssumption == MaxRecords \in Nat \ {0}
ASSUME MaxBytesAssumption == MaxBytes \in Nat \ {0}
ASSUME MaxAgeAssumption == MaxAge \in Nat \ {0}
ASSUME NoneAssumption == None \notin Records

VARIABLES
    records,         \* _records, oldest first
    bytes,           \* _bytes, the size kept incrementally
    audit_saturated, \* _audit_saturated
    pending,         \* the record being appended, or None
    answer,          \* what the last finished append answered
    offered          \* history: every audit record ever given to append

vars == <<records, bytes, audit_saturated, pending, answer, offered>>

Offer(r) ==
    offered' = IF r.audit_required THEN offered \cup {r} ELSE offered

\* append of a record larger than the whole buffer: nothing is expired.
AppendOversize(r) ==
    /\ pending = None
    /\ r.size > MaxBytes
    /\ audit_saturated' = (audit_saturated \/ r.audit_required)
    /\ answer' = IF r.audit_required THEN "SATURATED" ELSE "DROPPED"
    /\ Offer(r)
    /\ UNCHANGED <<records, bytes, pending>>

\* The place of position i among the positions in S, and the position at place n.
Place(S, i) == Cardinality({j \in S : j <= i})

PositionAt(S, n) == CHOOSE i \in S : Place(S, i) = n

\* The elements of s at the positions in S, in their order.
Picked(s, S) == [n \in 1..Cardinality(S) |-> s[PositionAt(S, n)]]

Audits(s) == {i \in 1..Len(s) : s[i].audit_required}

Recent(s, now) == {i \in 1..Len(s) : s[i].recorded_at >= now - MaxAge}

\* Faulty variant: the age limit takes audit records too.
Retained_ByAgeOnly(now) == Picked(records, Recent(records, now))

\* _expire_nonaudit keeps these and counts their bytes afresh.
Retained(now) == Picked(records, Audits(records) \cup Recent(records, now))

\* The size of a sequence of records, counted byte by byte.
SizeOf(s) == Cardinality({u \in (1..Len(s)) \X (1..MaxBytes) : u[2] <= s[u[1]].size})

Append_Expire(r, now) ==
    /\ pending = None
    /\ r.size <= MaxBytes
    /\ records' = Retained(now)
    /\ bytes' = SizeOf(Retained(now))
    /\ pending' = r
    /\ Offer(r)
    /\ UNCHANGED <<audit_saturated, answer>>

Fits == Len(records) + 1 <= MaxRecords /\ bytes + pending.size <= MaxBytes

\* _drop_candidate: the first LOW record, else the first NORMAL one.
Droppable(p) == {i \in 1..Len(records) :
                    ~records[i].audit_required /\ records[i].priority = p}

First(S) == CHOOSE i \in S : \A j \in S : i <= j

\* Faulty variant: NORMAL records are never evicted.
DropCandidates_LowOnly ==
    IF Droppable("LOW") # {} THEN {First(Droppable("LOW"))} ELSE {}

DropCandidates == IF Droppable("LOW") # {} THEN {First(Droppable("LOW"))}
                  ELSE IF Droppable("NORMAL") # {} THEN {First(Droppable("NORMAL"))}
                  ELSE {}

\* Faulty variant: the record is counted out but stays in the buffer.
Without_Nothing(s, i) == s

Without(s, i) == Picked(s, (1..Len(s)) \ {i})

Append_Evict ==
    /\ pending # None
    /\ ~Fits
    /\ \E i \in DropCandidates :
          /\ records' = Without(records, i)
          /\ bytes' = bytes - records[i].size
    /\ UNCHANGED <<audit_saturated, pending, answer, offered>>

\* Faulty variants: the loss of an audit record is not remembered; the append
\* waits for room instead of answering.
Append_NoRoom_Unreported ==
    /\ pending # None
    /\ ~Fits
    /\ DropCandidates = {}
    /\ answer' = IF pending.audit_required THEN "SATURATED" ELSE "DROPPED"
    /\ pending' = None
    /\ UNCHANGED <<records, bytes, audit_saturated, offered>>

Append_NoRoom_Waits ==
    /\ pending # None
    /\ ~Fits
    /\ DropCandidates = {}
    /\ audit_saturated' = (audit_saturated \/ pending.audit_required)
    /\ UNCHANGED <<records, bytes, pending, answer, offered>>

\* Only audit records are left and the new one does not fit beside them.
Append_NoRoom ==
    /\ pending # None
    /\ ~Fits
    /\ DropCandidates = {}
    /\ audit_saturated' = (audit_saturated \/ pending.audit_required)
    /\ answer' = IF pending.audit_required THEN "SATURATED" ELSE "DROPPED"
    /\ pending' = None
    /\ UNCHANGED <<records, bytes, offered>>

Append_Store ==
    /\ pending # None
    /\ Fits
    /\ records' = Append(records, pending)
    /\ bytes' = bytes + pending.size
    /\ answer' = "BUFFERED"
    /\ pending' = None
    /\ UNCHANGED <<audit_saturated, offered>>

Init ==
    /\ records = <<>>
    /\ bytes = 0
    /\ audit_saturated = FALSE
    /\ pending = None
    /\ answer = "NONE"
    /\ offered = {}

Finish == Append_Evict \/ Append_NoRoom \/ Append_Store

Next ==
    \/ \E r \in Records : AppendOversize(r)
    \/ \E r \in Records, now \in Times : Append_Expire(r, now)
    \/ Finish

\* A thread inside append runs on: the loop waits for nobody.
Spec == Init /\ [][Next]_vars /\ WF_vars(Finish)
-----------------------------------------------------------------------------
\* The buffer holds the records it was given, never a placeholder, and its byte
\* count never goes below zero.
TypeOK ==
    /\ records \in Seq(Records)
    /\ bytes \in Nat
    /\ audit_saturated \in BOOLEAN
    /\ pending \in Records \cup {None}
    /\ answer \in {"NONE", "BUFFERED", "DROPPED", "SATURATED"}
    /\ offered \subseteq Records

\* The limits of BoundedTelemetryBuffer hold through every turn of the loop, and
\* the byte count that append adjusts is the size of the records really kept.
WithinLimits ==
    /\ Len(records) <= MaxRecords
    /\ bytes <= MaxBytes
    /\ bytes = SizeOf(records)

Buffered(r) == \E i \in 1..Len(records) : records[i] = r

\* Losing an audit record is never silent: each one ever given to append is in
\* the buffer, on its way into it, or the buffer reports saturation.
NoSilentAuditLoss ==
    \A r \in offered : Buffered(r) \/ pending = r \/ audit_saturated

AuditRecords == Picked(records, Audits(records))

NoRoomBesideAudits(r) ==
    \/ Len(AuditRecords) + 1 > MaxRecords
    \/ SizeOf(AuditRecords) + r.size > MaxBytes

\* An audit record is refused in this step, and had to be.
AuditRefused ==
    /\ answer' = "SATURATED"
    /\ \/ \E r \in offered' \ offered : r.size > MaxBytes
       \/ pending # None /\ pending.audit_required /\ NoRoomBesideAudits(pending)

\* Saturation is never a false alarm about room that LOW or NORMAL records hold:
\* it is raised only by the audit record that is refused there and then, which is
\* larger than the buffer or does not fit beside the audit records alone.
SaturationIsReal == [][~audit_saturated /\ audit_saturated' => AuditRefused]_vars

\* An audit record once buffered stays, and audit records keep their order,
\* whatever the age limit and the evictions do; saturation is for good.
AuditKept ==
    [][/\ Len(AuditRecords') >= Len(AuditRecords)
       /\ SubSeq(AuditRecords', 1, Len(AuditRecords)) = AuditRecords
       /\ audit_saturated => audit_saturated']_vars

\* Every append answers: the eviction loop ends.
AppendEnds == (pending # None) ~> (pending = None)
=============================================================================
