-------------------------- MODULE TelemetryProofs --------------------------
(***************************************************************************)
(* The telemetry pipeline: for every number of threads, tenants and        *)
(* operations.  The buffer keeps its invariant, because the pipeline gives *)
(* it only the records it accepts.  The unlocked guard passes its limit    *)
(* only by values that were tested before: what a bucket holds, together   *)
(* with the new values that threads are about to add to it, is what is     *)
(* bounded.                                                                *)
(***************************************************************************)
EXTENDS Telemetry, TelemetryBufferProofs

(***************************************************************************)
(* The inductive invariant.                                                *)
(***************************************************************************)
BucketOf(t) == <<thread[t].op.org, Head(thread[t].todo)[1]>>

ValueOf(t) == Head(thread[t].todo)[2]

\* The threads that are about to add a value the bucket does not have.
Adding(b) ==
    {t \in Threads : /\ thread[t].pc = "add"
                     /\ BucketOf(t) = b
                     /\ ValueOf(t) \notin values[b]}

Work ==
    [pc: {"idle", "read", "add", "append"}, op: Operations \cup {None},
     todo: Seq(AttributeKeys \X Values), accepted: Nat]

\* A thread works on an admitted operation, and has accepted no more than the
\* attributes it has passed.
AtWork(me) ==
    /\ me \in Work
    /\ me.pc \in {"read", "add"} =>
          /\ me.op \in Operations /\ Refusal(me.op) = "NONE"
          /\ me.accepted + Len(me.todo) <= Len(me.op.attributes)
    /\ me.pc = "add" => me.todo # <<>>

ThreadsKept ==
    /\ thread = [t \in Threads |-> thread[t]]
    /\ \A t \in Threads : AtWork(thread[t])

\* What is in a bucket, or about to be added to it, was sent for it.
GuardKept ==
    /\ values = [b \in Buckets |-> values[b]]
    /\ seen = [b \in Buckets |-> seen[b]]
    /\ \A b \in Buckets :
          /\ values[b] \subseteq seen[b]
          /\ IsFiniteSet(seen[b])
          /\ Cardinality(values[b]) + Cardinality(Adding(b))
                <= Maximum + Cardinality(Threads) - 1
    /\ \A t \in Threads : thread[t].pc = "add" => ValueOf(t) \in seen[BucketOf(t)]
    /\ dropped \subseteq Buckets
    /\ DropsAreOwn

PipelineInv ==
    /\ BufferInv
    /\ ThreadsKept
    /\ GuardKept

-----------------------------------------------------------------------------
(***************************************************************************)
(* Threads and what they carry.                                            *)
(***************************************************************************)
\* An operation that is admitted has a tenant and a sequence of attributes, and
\* becomes a record whatever the guard leaves of them.
LEMMA AdmittedOperation ==
    ASSUME NEW op \in Operations, Refusal(op) = "NONE"
    PROVE  /\ op.org \in Tenants
           /\ op.attributes \in Seq(AttributeKeys \X Values)
           /\ \A n \in 0..Len(op.attributes) : RecordOf(op, n) \in Records
<1>1. op \in Operation /\ \A n \in 0..Len(op.attributes) : RecordOf(op, n) \in Records
  BY OperationsAssumption
<1>2. op.org \in Tenants \cup {None} /\ op.attributes \in Seq(AttributeKeys \X Values)
  BY <1>1 DEF Operation
<1>3. op.org # None
  BY DEF Refusal
<1> QED  BY <1>1, <1>2, <1>3

\* The next attribute of a thread names a bucket.
LEMMA NextAttribute ==
    ASSUME NEW t \in Threads, AtWork(thread[t]), thread[t].pc \in {"read", "add"},
           thread[t].todo # <<>>
    PROVE  /\ BucketOf(t) \in Buckets
           /\ Tail(thread[t].todo) \in Seq(AttributeKeys \X Values)
           /\ Len(thread[t].todo) = Len(Tail(thread[t].todo)) + 1
           /\ Len(Tail(thread[t].todo)) \in Nat
<1>1. thread[t].op.org \in Tenants
  BY AdmittedOperation DEF AtWork
<1>2. thread[t].todo \in Seq(AttributeKeys \X Values)
  BY DEF AtWork, Work
<1>3. PICK todo \in Seq(AttributeKeys \X Values) : todo = thread[t].todo
  BY <1>2
<1>4. Head(todo) \in AttributeKeys \X Values
  BY <1>3, HeadTailProperties
<1>5. Tail(todo) \in Seq(AttributeKeys \X Values) /\ Len(Tail(todo)) = Len(todo) - 1
  BY <1>3, HeadTailProperties
<1>6. Len(todo) \in Nat /\ Len(Tail(todo)) \in Nat
  BY <1>5, LenProperties
<1> QED  BY <1>1, <1>3, <1>4, <1>5, <1>6 DEF BucketOf, Buckets

\* A step of one thread leaves the others at their work.
LEMMA ThreadMoves ==
    ASSUME ThreadsKept, NEW t \in Threads, NEW me, AtWork(me),
           thread' = [thread EXCEPT ![t] = me]
    PROVE  /\ ThreadsKept'
           /\ thread'[t] = me
           /\ \A u \in Threads \ {t} : thread'[u] = thread[u]
<1>1. thread' = [u \in Threads |-> IF u = t THEN me ELSE thread[u]]
  BY DEF ThreadsKept
<1>2. thread' = [u \in Threads |-> thread'[u]]
  BY <1>1
<1>3. \A u \in Threads : thread'[u] = IF u = t THEN me ELSE thread[u]
  BY <1>1
<1>4. \A u \in Threads : AtWork(thread'[u])
  BY <1>3 DEF ThreadsKept
<1> QED  BY <1>2, <1>3, <1>4 DEF ThreadsKept, AtWork

\* A thread that has nothing to do.
LEMMA IdleAtWork == AtWork(Idle)
<1>1. <<>> \in Seq(AttributeKeys \X Values)
  OBVIOUS
<1> QED  BY <1>1 DEF AtWork, Idle, Work

(***************************************************************************)
(* The guard.                                                              *)
(***************************************************************************)
\* The sizes of the guard's sets are numbers.
LEMMA GuardSizes ==
    ASSUME GuardKept, NEW b \in Buckets
    PROVE  /\ IsFiniteSet(values[b]) /\ Cardinality(values[b]) \in Nat
           /\ IsFiniteSet(Adding(b)) /\ Cardinality(Adding(b)) \in Nat
           /\ Cardinality(Adding(b)) <= Cardinality(Threads)
           /\ Cardinality(Threads) \in Nat /\ Cardinality(Threads) >= 1
           /\ Maximum \in Nat
<1>1. IsFiniteSet(seen[b]) /\ values[b] \subseteq seen[b]
  BY DEF GuardKept
<1>2. IsFiniteSet(values[b]) /\ Cardinality(values[b]) \in Nat
  BY <1>1, FS_Subset, FS_CardinalityType
<1>3. IsFiniteSet(Threads) /\ Cardinality(Threads) \in Nat
  BY ThreadsAssumption, FS_CardinalityType
<1>4. Cardinality(Threads) # 0
  BY ThreadsAssumption, FS_EmptySet
<1>5. Adding(b) \subseteq Threads
  BY DEF Adding
<1>6. IsFiniteSet(Adding(b)) /\ Cardinality(Adding(b)) <= Cardinality(Threads)
  BY <1>3, <1>5, FS_Subset
<1>7. Cardinality(Adding(b)) \in Nat
  BY <1>6, FS_CardinalityType
<1> QED  BY <1>2, <1>3, <1>4, <1>6, <1>7, MaximumAssumption

\* A thread whose place in the loop is not between test and addition, neither
\* before nor after its step, concerns no bucket.
LEMMA QuietGuard ==
    ASSUME GuardKept, UNCHANGED guardVars, NEW t \in Threads,
           thread[t].pc # "add", thread'[t].pc # "add",
           \A u \in Threads \ {t} : thread'[u] = thread[u]
    PROVE  GuardKept'
<1>1. values' = values /\ seen' = seen /\ dropped' = dropped
  BY DEF guardVars
<1>2. ASSUME NEW u \in Threads, thread'[u].pc = "add" \/ thread[u].pc = "add"
      PROVE  /\ thread[u].pc = "add" /\ thread'[u].pc = "add"
             /\ BucketOf(u)' = BucketOf(u) /\ ValueOf(u)' = ValueOf(u)
  BY <1>2 DEF BucketOf, ValueOf
<1>3. \A b \in Buckets : Adding(b)' = Adding(b)
  BY <1>1, <1>2 DEF Adding
<1>4. \A u \in Threads : thread'[u].pc = "add" => ValueOf(u)' \in seen'[BucketOf(u)']
  BY <1>1, <1>2 DEF GuardKept
<1>5. DropsAreOwn'
  BY <1>1 DEF GuardKept, DropsAreOwn
<1> QED  BY <1>1, <1>3, <1>4, <1>5 DEF GuardKept

\* A value that is sent for a bucket takes nothing away from what was sent.
LEMMA SeenGrows ==
    ASSUME GuardKept, NEW b \in Buckets, NEW v,
           seen' = [seen EXCEPT ![b] = @ \cup {v}]
    PROVE  /\ seen' = [x \in Buckets |-> seen'[x]]
           /\ v \in seen'[b]
           /\ \A x \in Buckets :
                 /\ seen[x] \subseteq seen'[x]
                 /\ IsFiniteSet(seen'[x])
                 /\ Cardinality(seen[x]) \in Nat
                 /\ Cardinality(seen'[x]) \in Nat
                 /\ Cardinality(seen[x]) <= Cardinality(seen'[x])
<1>1. seen = [x \in Buckets |-> seen[x]] /\ \A x \in Buckets : IsFiniteSet(seen[x])
  BY DEF GuardKept
<1>2. seen' = [x \in Buckets |-> IF x = b THEN seen[x] \cup {v} ELSE seen[x]]
  BY <1>1
<1>3. \A x \in Buckets : seen'[x] = IF x = b THEN seen[x] \cup {v} ELSE seen[x]
  BY <1>2
<1>4. seen' = [x \in Buckets |-> seen'[x]]
  BY <1>2
<1>5. ASSUME NEW x \in Buckets
      PROVE  /\ seen[x] \subseteq seen'[x] /\ IsFiniteSet(seen'[x])
             /\ Cardinality(seen[x]) \in Nat /\ Cardinality(seen'[x]) \in Nat
             /\ Cardinality(seen[x]) <= Cardinality(seen'[x])
  <2>1. IsFiniteSet(seen[x] \cup {v})
    BY <1>1, FS_AddElement
  <2>2. seen[x] \subseteq seen'[x] /\ IsFiniteSet(seen'[x])
    BY <1>1, <1>3, <2>1
  <2> QED  BY <1>1, <2>2, FS_Subset, FS_CardinalityType
<1> QED  BY <1>3, <1>4, <1>5

\* The test, when the value is known or there is room for it.
LEMMA AdmittedValue ==
    ASSUME GuardKept, NEW t \in Threads, thread[t].pc = "read",
           NEW b \in Buckets, b = BucketOf(t), NEW v, v = ValueOf(t),
           v \in values[b] \/ Cardinality(values[b]) < Maximum,
           seen' = [seen EXCEPT ![b] = @ \cup {v}],
           values' = values, dropped' = dropped,
           thread'[t].pc = "add", BucketOf(t)' = b, ValueOf(t)' = v,
           \A u \in Threads \ {t} : thread'[u] = thread[u]
    PROVE  GuardKept'
<1>1. /\ seen' = [x \in Buckets |-> seen'[x]]
      /\ v \in seen'[b]
      /\ \A x \in Buckets :
            /\ seen[x] \subseteq seen'[x]
            /\ IsFiniteSet(seen'[x])
            /\ Cardinality(seen[x]) \in Nat
            /\ Cardinality(seen'[x]) \in Nat
            /\ Cardinality(seen[x]) <= Cardinality(seen'[x])
  BY SeenGrows
<1>2. \A u \in Threads \ {t} : BucketOf(u)' = BucketOf(u) /\ ValueOf(u)' = ValueOf(u)
  BY DEF BucketOf, ValueOf
<1>3. \A x \in Buckets \ {b} : Adding(x)' = Adding(x)
  BY <1>2 DEF Adding
<1>4. v \in values[b] => Adding(b)' = Adding(b)
  BY <1>2 DEF Adding
<1>5. Adding(b)' \subseteq Threads
  BY DEF Adding
<1>6. Cardinality(Adding(b)') <= Cardinality(Threads) /\ Cardinality(Adding(b)') \in Nat
  BY <1>5, ThreadsAssumption, FS_Subset, FS_CardinalityType
<1>7. Cardinality(values[b]) + Cardinality(Adding(b)')
         <= Maximum + Cardinality(Threads) - 1
  BY <1>4, <1>6, GuardSizes DEF GuardKept
<1>8. \A u \in Threads : thread'[u].pc = "add" => ValueOf(u)' \in seen'[BucketOf(u)']
  <2> SUFFICES ASSUME NEW u \in Threads \ {t}, thread'[u].pc = "add"
               PROVE  ValueOf(u)' \in seen'[BucketOf(u)']
    BY <1>1
  <2>1. ValueOf(u) \in seen[BucketOf(u)]
    BY DEF GuardKept
  <2>2. CASE BucketOf(u) \in Buckets
    BY <1>1, <1>2, <2>1, <2>2
  <2>3. CASE BucketOf(u) \notin Buckets
    BY <1>2, <2>1, <2>3
  <2> QED  BY <2>2, <2>3
<1>9. DropsAreOwn'
  <2> SUFFICES ASSUME NEW x \in dropped
               PROVE  Cardinality(seen'[x]) > Maximum
    BY DEF DropsAreOwn
  <2>1. Cardinality(seen[x]) > Maximum /\ x \in Buckets
    BY DEF GuardKept, DropsAreOwn
  <2> QED  BY <1>1, <2>1, MaximumAssumption
<1>10. \A x \in Buckets :
          /\ values'[x] \subseteq seen'[x]
          /\ Cardinality(values'[x]) + Cardinality(Adding(x)')
                <= Maximum + Cardinality(Threads) - 1
  BY <1>1, <1>3, <1>7 DEF GuardKept
<1> QED  BY <1>1, <1>8, <1>9, <1>10 DEF GuardKept

\* The test, when the bucket is full: a value is refused only to a bucket for
\* which more values were sent than it may hold.
LEMMA RefusedValue ==
    ASSUME GuardKept, NEW t \in Threads, thread[t].pc = "read",
           NEW b \in Buckets, NEW v,
           v \notin values[b], ~(Cardinality(values[b]) < Maximum),
           seen' = [seen EXCEPT ![b] = @ \cup {v}],
           values' = values, dropped' = dropped \cup {b},
           thread'[t].pc = "read",
           \A u \in Threads \ {t} : thread'[u] = thread[u]
    PROVE  GuardKept'
<1>1. /\ seen' = [x \in Buckets |-> seen'[x]]
      /\ v \in seen'[b]
      /\ \A x \in Buckets :
            /\ seen[x] \subseteq seen'[x]
            /\ IsFiniteSet(seen'[x])
            /\ Cardinality(seen[x]) \in Nat
            /\ Cardinality(seen'[x]) \in Nat
            /\ Cardinality(seen[x]) <= Cardinality(seen'[x])
  BY SeenGrows
<1>2. \A u \in Threads \ {t} : BucketOf(u)' = BucketOf(u) /\ ValueOf(u)' = ValueOf(u)
  BY DEF BucketOf, ValueOf
<1>3. \A x \in Buckets : Adding(x)' = Adding(x)
  BY <1>2 DEF Adding
<1>4. \A u \in Threads : thread'[u].pc = "add" => ValueOf(u)' \in seen'[BucketOf(u)']
  <2> SUFFICES ASSUME NEW u \in Threads \ {t}, thread'[u].pc = "add"
               PROVE  ValueOf(u)' \in seen'[BucketOf(u)']
    OBVIOUS
  <2>1. ValueOf(u) \in seen[BucketOf(u)]
    BY DEF GuardKept
  <2>2. CASE BucketOf(u) \in Buckets
    BY <1>1, <1>2, <2>1, <2>2
  <2>3. CASE BucketOf(u) \notin Buckets
    <3>1. seen = [x \in Buckets |-> seen[x]]
      BY DEF GuardKept
    <3>2. seen'[BucketOf(u)] = seen[BucketOf(u)]
      BY <2>3, <3>1
    <3> QED  BY <1>2, <2>1, <3>2
  <2> QED  BY <2>2, <2>3
<1>5. Cardinality(seen'[b]) > Maximum
  <2>1. values[b] \cup {v} \subseteq seen'[b]
    BY <1>1 DEF GuardKept
  <2>2. IsFiniteSet(values[b]) /\ Cardinality(values[b]) \in Nat
    BY GuardSizes
  <2>3. Cardinality(values[b] \cup {v}) = Cardinality(values[b]) + 1
    BY <2>2, FS_AddElement
  <2>4. Cardinality(values[b] \cup {v}) <= Cardinality(seen'[b])
    BY <1>1, <2>1, FS_Subset
  <2>5. PICK held \in Nat, sent \in Nat :
            held = Cardinality(values[b]) /\ sent = Cardinality(seen'[b])
    BY <1>1, <2>2
  <2>6. ~(held < Maximum) /\ held + 1 <= sent
    BY <2>3, <2>4, <2>5
  <2>7. sent > Maximum
    BY <2>5, <2>6, MaximumAssumption
  <2> QED  BY <2>5, <2>7
<1>6. DropsAreOwn'
  <2> SUFFICES ASSUME NEW x \in dropped
               PROVE  Cardinality(seen'[x]) > Maximum
    BY <1>5 DEF DropsAreOwn
  <2>1. Cardinality(seen[x]) > Maximum /\ x \in Buckets
    BY DEF GuardKept, DropsAreOwn
  <2>2. /\ Cardinality(seen[x]) \in Nat /\ Cardinality(seen'[x]) \in Nat
        /\ Cardinality(seen[x]) <= Cardinality(seen'[x])
    BY <1>1, <2>1
  <2>3. PICK before \in Nat, after \in Nat :
            before = Cardinality(seen[x]) /\ after = Cardinality(seen'[x])
    BY <2>2
  <2> QED  BY <2>1, <2>2, <2>3, MaximumAssumption
<1>7. \A x \in Buckets :
         /\ values'[x] \subseteq seen'[x]
         /\ Cardinality(values'[x]) + Cardinality(Adding(x)')
               <= Maximum + Cardinality(Threads) - 1
  BY <1>1, <1>3 DEF GuardKept
<1>8. values' = [x \in Buckets |-> values'[x]] /\ dropped' \subseteq Buckets
  BY DEF GuardKept
<1> QED  BY <1>1, <1>4, <1>6, <1>7, <1>8 DEF GuardKept

\* The addition: what the bucket gains, the threads about to add to it lose.
LEMMA AddedValue ==
    ASSUME GuardKept, NEW t \in Threads, thread[t].pc = "add",
           NEW b \in Buckets, b = BucketOf(t), NEW v, v = ValueOf(t),
           values' = [values EXCEPT ![b] = @ \cup {v}],
           seen' = seen, dropped' = dropped,
           thread'[t].pc = "read",
           \A u \in Threads \ {t} : thread'[u] = thread[u]
    PROVE  GuardKept'
<1>1. values = [x \in Buckets |-> values[x]]
  BY DEF GuardKept
<1>2. values' = [x \in Buckets |-> IF x = b THEN values[x] \cup {v} ELSE values[x]]
  BY <1>1
<1>3. \A x \in Buckets : values'[x] = IF x = b THEN values[x] \cup {v} ELSE values[x]
  BY <1>2
<1>4. values' = [x \in Buckets |-> values'[x]]
  BY <1>2
<1>5. \A u \in Threads \ {t} : BucketOf(u)' = BucketOf(u) /\ ValueOf(u)' = ValueOf(u)
  BY DEF BucketOf, ValueOf
<1>6. \A x \in Buckets \ {b} : Adding(x)' = Adding(x)
  BY <1>3, <1>5 DEF Adding
<1>7. Adding(b)' \subseteq Adding(b) \ {t}
  BY <1>3, <1>5 DEF Adding
<1>8. v \in values[b] => values'[b] = values[b]
  BY <1>3
<1>9. v \notin values[b] => t \in Adding(b)
  BY DEF Adding
<1>10. /\ IsFiniteSet(values[b]) /\ Cardinality(values[b]) \in Nat
       /\ IsFiniteSet(Adding(b)) /\ Cardinality(Adding(b)) \in Nat
       /\ Cardinality(Threads) \in Nat /\ Maximum \in Nat
  BY GuardSizes
<1>11. IsFiniteSet(Adding(b) \ {t})
  BY <1>10, FS_RemoveElement
<1>12. /\ Cardinality(Adding(b)') \in Nat /\ Cardinality(Adding(b) \ {t}) \in Nat
       /\ Cardinality(Adding(b)') <= Cardinality(Adding(b) \ {t})
  BY <1>7, <1>11, FS_Subset, FS_CardinalityType
<1>13. Cardinality(values[b]) + Cardinality(Adding(b)) <= Maximum + Cardinality(Threads) - 1
  BY DEF GuardKept
<1>14. Cardinality(values'[b]) + Cardinality(Adding(b)') <= Maximum + Cardinality(Threads) - 1
  <2>1. CASE v \in values[b]
    <3>1. Cardinality(Adding(b) \ {t}) <= Cardinality(Adding(b))
      BY <1>10, FS_Subset
    <3> QED  BY <1>8, <1>10, <1>12, <1>13, <2>1, <3>1
  <2>2. CASE v \notin values[b]
    <3>1. Cardinality(Adding(b) \ {t}) = Cardinality(Adding(b)) - 1
      BY <1>9, <1>10, <2>2, FS_RemoveElement
    <3>2. Cardinality(values'[b]) = Cardinality(values[b]) + 1
      <4>1. values'[b] = values[b] \cup {v}
        BY <1>3
      <4>2. Cardinality(values[b] \cup {v}) = Cardinality(values[b]) + 1
        BY <1>10, <2>2, FS_AddElement
      <4> QED  BY <4>1, <4>2
    <3> QED  BY <1>10, <1>12, <1>13, <3>1, <3>2
  <2> QED  BY <2>1, <2>2
<1>15. \A u \in Threads : thread'[u].pc = "add" => ValueOf(u)' \in seen'[BucketOf(u)']
  BY <1>5 DEF GuardKept
<1>16. values'[b] \subseteq seen'[b]
  BY <1>3 DEF GuardKept
<1>17. \A x \in Buckets :
          /\ values'[x] \subseteq seen'[x]
          /\ Cardinality(values'[x]) + Cardinality(Adding(x)')
                <= Maximum + Cardinality(Threads) - 1
  BY <1>3, <1>6, <1>14, <1>16 DEF GuardKept
<1>18. DropsAreOwn'
  BY DEF GuardKept, DropsAreOwn
<1> QED  BY <1>4, <1>15, <1>17, <1>18 DEF GuardKept

-----------------------------------------------------------------------------
(***************************************************************************)
(* The steps of the pipeline.  Each keeps the threads and the guard, and   *)
(* is a step of the buffer or leaves the buffer alone.                     *)
(***************************************************************************)
\* A step in which no thread moves, which leaves the guard alone.
LEMMA NobodyMoves ==
    ASSUME PipelineInv, UNCHANGED <<guardVars, thread>>
    PROVE  ThreadsKept' /\ GuardKept'
<1>1. values' = values /\ seen' = seen /\ dropped' = dropped /\ thread' = thread
  BY DEF guardVars
<1>2. ThreadsKept'
  BY <1>1 DEF PipelineInv, ThreadsKept, AtWork
<1>3. \A u \in Threads : BucketOf(u)' = BucketOf(u) /\ ValueOf(u)' = ValueOf(u)
  BY <1>1 DEF BucketOf, ValueOf
<1>4. \A b \in Buckets : Adding(b)' = Adding(b)
  BY <1>1, <1>3 DEF Adding
<1>5. DropsAreOwn'
  BY <1>1 DEF PipelineInv, GuardKept, DropsAreOwn
<1> QED  BY <1>1, <1>2, <1>3, <1>4, <1>5 DEF PipelineInv, GuardKept

\* admit lets an operation in.
LEMMA AdmitKeeps ==
    ASSUME PipelineInv, NEW t \in Threads, NEW op \in Operations, Admit(t, op)
    PROVE  ThreadsKept' /\ GuardKept' /\ UNCHANGED vars
<1>1. op.attributes \in Seq(AttributeKeys \X Values) /\ Refusal(op) = "NONE"
  BY AdmittedOperation DEF Admit
<1>2. PICK me : me = [pc |-> "read", op |-> op, todo |-> op.attributes, accepted |-> 0]
  OBVIOUS
<1>3. /\ me \in Work
      /\ me.pc = "read" /\ me.op = op /\ me.todo = op.attributes /\ me.accepted = 0
  BY <1>1, <1>2 DEF Work
<1>4. Len(op.attributes) \in Nat
  BY <1>1, LenProperties
<1>5. AtWork(me)
  BY <1>1, <1>3, <1>4 DEF AtWork
<1>6. thread' = [thread EXCEPT ![t] = me] /\ UNCHANGED guardVars /\ thread[t].pc = "idle"
  BY <1>2 DEF Admit
<1>7. /\ ThreadsKept' /\ thread'[t] = me
      /\ \A u \in Threads \ {t} : thread'[u] = thread[u]
  BY <1>5, <1>6, ThreadMoves DEF PipelineInv
<1>8. GuardKept'
  BY <1>3, <1>6, <1>7, QuietGuard DEF PipelineInv
<1> QED  BY <1>7, <1>8 DEF Admit

\* The guard's test of the next attribute.
LEMMA GuardReadKeeps ==
    ASSUME PipelineInv, NEW t \in Threads, Guard_Read(t)
    PROVE  ThreadsKept' /\ GuardKept' /\ UNCHANGED vars
<1>1. thread[t].pc = "read" /\ thread[t].todo # <<>> /\ AtWork(thread[t])
  BY DEF Guard_Read, PipelineInv, ThreadsKept
<1>2. /\ BucketOf(t) \in Buckets
      /\ Tail(thread[t].todo) \in Seq(AttributeKeys \X Values)
      /\ Len(thread[t].todo) = Len(Tail(thread[t].todo)) + 1
      /\ Len(Tail(thread[t].todo)) \in Nat
  BY <1>1, NextAttribute
<1>3. PICK b, v : b \in Buckets /\ b = BucketOf(t) /\ v = ValueOf(t)
  BY <1>2
<1>4. seen' = [seen EXCEPT ![b] = @ \cup {v}] /\ values' = values /\ UNCHANGED vars
  BY <1>3 DEF Guard_Read, BucketOf, ValueOf
<1>5. CASE /\ v \in values[b] \/ Room(b)
           /\ thread' = [thread EXCEPT ![t].pc = "add"]
           /\ dropped' = dropped
  <2>1. PICK me : me = [thread[t] EXCEPT !.pc = "add"]
    OBVIOUS
  <2>2. /\ me \in Work /\ me.pc = "add" /\ me.op = thread[t].op
        /\ me.todo = thread[t].todo /\ me.accepted = thread[t].accepted
    BY <1>1, <2>1 DEF AtWork, Work
  <2>3. AtWork(me)
    BY <1>1, <2>2 DEF AtWork
  <2>4. thread' = [thread EXCEPT ![t] = me]
    BY <1>5, <2>1
  <2>5. /\ ThreadsKept' /\ thread'[t] = me
        /\ \A u \in Threads \ {t} : thread'[u] = thread[u]
    BY <2>3, <2>4, ThreadMoves DEF PipelineInv
  <2>6. BucketOf(t)' = b /\ ValueOf(t)' = v /\ thread'[t].pc = "add"
    BY <1>3, <2>2, <2>5 DEF BucketOf, ValueOf
  <2>7. GuardKept'
    BY <1>1, <1>3, <1>4, <1>5, <2>5, <2>6, AdmittedValue DEF PipelineInv, Room
  <2> QED  BY <1>4, <2>5, <2>7
<1>6. CASE /\ v \notin values[b] /\ ~Room(b)
           /\ thread' = [thread EXCEPT ![t].todo = Tail(@)]
           /\ dropped' = dropped \cup {b}
  <2>1. PICK me : me = [thread[t] EXCEPT !.todo = Tail(@)]
    OBVIOUS
  <2>2. /\ me \in Work /\ me.pc = "read" /\ me.op = thread[t].op
        /\ me.todo = Tail(thread[t].todo) /\ me.accepted = thread[t].accepted
    BY <1>1, <1>2, <2>1 DEF AtWork, Work
  <2>3. thread[t].accepted \in Nat
    BY <1>1 DEF AtWork, Work
  <2>4. thread[t].op \in Operations /\ Refusal(thread[t].op) = "NONE"
    BY <1>1 DEF AtWork
  <2>5. Len(thread[t].op.attributes) \in Nat
    BY <2>4, AdmittedOperation, LenProperties
  <2>6. thread[t].accepted + Len(Tail(thread[t].todo)) <= Len(thread[t].op.attributes)
    BY <1>1, <1>2, <2>3, <2>5 DEF AtWork
  <2>7. AtWork(me)
    BY <2>2, <2>4, <2>6 DEF AtWork
  <2>8. thread' = [thread EXCEPT ![t] = me]
    BY <1>6, <2>1
  <2>9. /\ ThreadsKept' /\ thread'[t] = me
        /\ \A u \in Threads \ {t} : thread'[u] = thread[u]
    BY <2>7, <2>8, ThreadMoves DEF PipelineInv
  <2>10. GuardKept'
    BY <1>1, <1>3, <1>4, <1>6, <2>2, <2>9, RefusedValue DEF PipelineInv, Room
  <2> QED  BY <1>4, <2>9, <2>10
<1> QED  BY <1>3, <1>5, <1>6 DEF Guard_Read, Bucket, BucketOf, ValueOf

\* The guard's addition of the attribute it has tested.
LEMMA GuardAddKeeps ==
    ASSUME PipelineInv, NEW t \in Threads, Guard_Add(t)
    PROVE  ThreadsKept' /\ GuardKept' /\ UNCHANGED vars
<1>1. thread[t].pc = "add" /\ AtWork(thread[t]) /\ thread[t].todo # <<>>
  BY DEF Guard_Add, PipelineInv, ThreadsKept, AtWork
<1>2. /\ BucketOf(t) \in Buckets
      /\ Tail(thread[t].todo) \in Seq(AttributeKeys \X Values)
      /\ Len(thread[t].todo) = Len(Tail(thread[t].todo)) + 1
      /\ Len(Tail(thread[t].todo)) \in Nat
  BY <1>1, NextAttribute
<1>3. PICK b, v : b \in Buckets /\ b = BucketOf(t) /\ v = ValueOf(t)
  BY <1>2
<1>4. /\ values' = [values EXCEPT ![b] = @ \cup {v}]
      /\ seen' = seen /\ dropped' = dropped /\ UNCHANGED vars
  BY <1>3 DEF Guard_Add, Bucket, BucketOf, ValueOf
<1>5. PICK me : me = [thread[t] EXCEPT !.pc = "read", !.todo = Tail(@), !.accepted = @ + 1]
  OBVIOUS
<1>6. thread[t].accepted \in Nat /\ thread[t].accepted + 1 \in Nat
  BY <1>1 DEF AtWork, Work
<1>7. /\ me \in Work /\ me.pc = "read" /\ me.op = thread[t].op
      /\ me.todo = Tail(thread[t].todo) /\ me.accepted = thread[t].accepted + 1
  BY <1>1, <1>2, <1>5, <1>6 DEF AtWork, Work
<1>8. thread[t].op \in Operations /\ Refusal(thread[t].op) = "NONE"
  BY <1>1 DEF AtWork
<1>9. Len(thread[t].op.attributes) \in Nat
  BY <1>8, AdmittedOperation, LenProperties
<1>10. thread[t].accepted + 1 + Len(Tail(thread[t].todo)) <= Len(thread[t].op.attributes)
  BY <1>1, <1>2, <1>6, <1>9 DEF AtWork
<1>11. AtWork(me)
  BY <1>7, <1>8, <1>10 DEF AtWork
<1>12. thread' = [thread EXCEPT ![t] = me]
  BY <1>5 DEF Guard_Add
<1>13. /\ ThreadsKept' /\ thread'[t] = me
       /\ \A u \in Threads \ {t} : thread'[u] = thread[u]
  BY <1>11, <1>12, ThreadMoves DEF PipelineInv
<1>14. GuardKept'
  BY <1>1, <1>3, <1>4, <1>7, <1>13, AddedValue DEF PipelineInv
<1> QED  BY <1>4, <1>13, <1>14

\* The record that is built is one the buffer accepts.
LEMMA RecordIsBuilt ==
    ASSUME PipelineInv, NEW t \in Threads, thread[t].pc = "read", thread[t].todo = <<>>
    PROVE  RecordOf(thread[t].op, thread[t].accepted) \in Records
<1>1. /\ thread[t].op \in Operations /\ Refusal(thread[t].op) = "NONE"
      /\ thread[t].accepted \in Nat
      /\ thread[t].accepted + Len(thread[t].todo) <= Len(thread[t].op.attributes)
  BY DEF PipelineInv, ThreadsKept, AtWork, Work
<1>2. Len(thread[t].op.attributes) \in Nat
  BY <1>1, AdmittedOperation, LenProperties
<1>3. Len(thread[t].todo) = 0
  OBVIOUS
<1>4. thread[t].accepted \in 0..Len(thread[t].op.attributes)
  BY <1>1, <1>2, <1>3
<1> QED  BY <1>1, <1>4, AdmittedOperation

\* A thread calls append.
LEMMA AppendCallKeeps ==
    ASSUME PipelineInv, NEW t \in Threads, Append_Call(t)
    PROVE  ThreadsKept' /\ GuardKept' /\ Next
<1>1. /\ thread[t].pc = "read" /\ thread[t].todo = <<>>
      /\ UNCHANGED guardVars /\ AtWork(thread[t])
  BY DEF Append_Call, PipelineInv, ThreadsKept
<1>2. PICK record \in Records : record = RecordOf(thread[t].op, thread[t].accepted)
  BY <1>1, RecordIsBuilt
<1>3. CASE AppendOversize(record) /\ thread' = [thread EXCEPT ![t] = Idle]
  <2>1. /\ ThreadsKept' /\ thread'[t] = Idle
        /\ \A u \in Threads \ {t} : thread'[u] = thread[u]
    BY <1>3, IdleAtWork, ThreadMoves DEF PipelineInv
  <2>2. thread'[t].pc = "idle"
    BY <2>1 DEF Idle
  <2>3. GuardKept'
    BY <1>1, <2>1, <2>2, QuietGuard DEF PipelineInv
  <2> QED  BY <1>3, <2>1, <2>3 DEF Next
<1>4. CASE /\ \E now \in Times : Append_Expire(record, now)
           /\ thread' = [thread EXCEPT ![t].pc = "append"]
  <2>1. PICK me : me = [thread[t] EXCEPT !.pc = "append"]
    OBVIOUS
  <2>2. me \in Work /\ me.pc = "append"
    BY <1>1, <2>1 DEF AtWork, Work
  <2>3. AtWork(me)
    BY <2>2 DEF AtWork
  <2>4. thread' = [thread EXCEPT ![t] = me]
    BY <1>4, <2>1
  <2>5. /\ ThreadsKept' /\ thread'[t] = me
        /\ \A u \in Threads \ {t} : thread'[u] = thread[u]
    BY <2>3, <2>4, ThreadMoves DEF PipelineInv
  <2>6. GuardKept'
    BY <1>1, <2>2, <2>5, QuietGuard DEF PipelineInv
  <2> QED  BY <1>4, <2>5, <2>6 DEF Next
<1> QED  BY <1>2, <1>3, <1>4 DEF Append_Call

\* A thread takes a turn of append's loop.
LEMMA AppendTurnKeeps ==
    ASSUME PipelineInv, NEW t \in Threads, Append_Turn(t)
    PROVE  ThreadsKept' /\ GuardKept' /\ Next
<1>1. thread[t].pc = "append" /\ Finish /\ UNCHANGED guardVars
  BY DEF Append_Turn
<1>2. CASE thread' = [thread EXCEPT ![t] = Idle]
  <2>1. /\ ThreadsKept' /\ thread'[t] = Idle
        /\ \A u \in Threads \ {t} : thread'[u] = thread[u]
    BY <1>2, IdleAtWork, ThreadMoves DEF PipelineInv
  <2>2. thread'[t].pc = "idle"
    BY <2>1 DEF Idle
  <2>3. GuardKept'
    BY <1>1, <2>1, <2>2, QuietGuard DEF PipelineInv
  <2> QED  BY <1>1, <2>1, <2>3 DEF Next
<1>3. CASE thread' = thread
  <2>1. ThreadsKept' /\ GuardKept'
    BY <1>1, <1>3, NobodyMoves
  <2> QED  BY <1>1, <2>1 DEF Next
<1> QED  BY <1>2, <1>3 DEF Append_Turn

\* Every step of the pipeline keeps its invariant, and is a step of the buffer or
\* leaves the buffer alone.
LEMMA PipelineKeeps ==
    ASSUME PipelineInv, [PipelineNext]_pipelineVars
    PROVE  PipelineInv' /\ [Next]_vars
<1>1. ThreadsKept' /\ GuardKept' /\ [Next]_vars
  <2>1. CASE \E t \in Threads, op \in Operations : AdmitRefused(t, op)
    <3>1. UNCHANGED <<guardVars, thread>> /\ UNCHANGED vars
      BY <2>1 DEF AdmitRefused, pipelineVars
    <3> QED  BY <3>1, NobodyMoves
  <2>2. CASE \E t \in Threads, op \in Operations : Admit(t, op)
    BY <2>2, AdmitKeeps
  <2>3. CASE \E t \in Threads : Guard_Read(t)
    BY <2>3, GuardReadKeeps
  <2>4. CASE \E t \in Threads : Guard_Add(t)
    BY <2>4, GuardAddKeeps
  <2>5. CASE \E t \in Threads : Append_Call(t)
    BY <2>5, AppendCallKeeps
  <2>6. CASE \E t \in Threads : Append_Turn(t)
    BY <2>6, AppendTurnKeeps
  <2>7. CASE UNCHANGED pipelineVars
    <3>1. UNCHANGED <<guardVars, thread>> /\ UNCHANGED vars
      BY <2>7 DEF pipelineVars
    <3> QED  BY <3>1, NobodyMoves
  <2> QED  BY <2>1, <2>2, <2>3, <2>4, <2>5, <2>6, <2>7 DEF PipelineNext
<1>2. BufferInv'
  BY <1>1, BufferKeeps DEF PipelineInv
<1> QED  BY <1>1, <1>2 DEF PipelineInv

\* The process starts with empty buckets and idle threads.
LEMMA PipelineStarts == PipelineInit => PipelineInv
<1> SUFFICES ASSUME PipelineInit PROVE PipelineInv
  OBVIOUS
<1>1. BufferInv
  BY BufferStarts DEF PipelineInit
<1>2. /\ thread = [t \in Threads |-> thread[t]]
      /\ \A t \in Threads : thread[t] = Idle
  BY DEF PipelineInit
<1>3. ThreadsKept
  BY <1>2, IdleAtWork DEF ThreadsKept
<1>4. \A t \in Threads : thread[t].pc # "add"
  BY <1>2 DEF Idle
<1>5. /\ values = [b \in Buckets |-> values[b]] /\ seen = [b \in Buckets |-> seen[b]]
      /\ \A b \in Buckets : values[b] = {} /\ seen[b] = {}
      /\ dropped = {}
  BY DEF PipelineInit
<1>6. \A b \in Buckets : Adding(b) = {}
  BY <1>4 DEF Adding
<1>7. IsFiniteSet({}) /\ Cardinality({}) = 0
  BY FS_EmptySet
<1>8. Cardinality(Threads) \in Nat /\ Cardinality(Threads) # 0
  BY ThreadsAssumption, FS_EmptySet, FS_CardinalityType
<1>9. 0 + 0 <= Maximum + Cardinality(Threads) - 1
  BY <1>8, MaximumAssumption
<1>10. \A b \in Buckets :
          /\ values[b] \subseteq seen[b] /\ IsFiniteSet(seen[b])
          /\ Cardinality(values[b]) + Cardinality(Adding(b))
                <= Maximum + Cardinality(Threads) - 1
  BY <1>5, <1>6, <1>7, <1>9
<1>11. GuardKept
  BY <1>4, <1>5, <1>10 DEF GuardKept, DropsAreOwn
<1> QED  BY <1>1, <1>3, <1>11 DEF PipelineInv

\* What a bucket holds is within the bound that GuardKept sets for it and for
\* the values on their way into it.
LEMMA BucketsBounded == PipelineInv => CardinalityBounded
<1> SUFFICES ASSUME PipelineInv, NEW b \in Buckets
             PROVE  Cardinality(values[b]) <= Maximum + Cardinality(Threads) - 1
  BY DEF CardinalityBounded
<1>1. /\ Cardinality(values[b]) \in Nat /\ Cardinality(Adding(b)) \in Nat
      /\ Cardinality(Threads) \in Nat /\ Maximum \in Nat
  BY GuardSizes DEF PipelineInv
<1>2. Cardinality(values[b]) + Cardinality(Adding(b)) <= Maximum + Cardinality(Threads) - 1
  BY DEF PipelineInv, GuardKept
<1> QED  BY <1>1, <1>2

-----------------------------------------------------------------------------
\* The inductive invariant of the whole pipeline: ContentFreeTelemetry.admit, its
\* guard and BoundedTelemetryBuffer.append, called by any number of threads.
THEOREM PipelineInvariant == Pipeline => []PipelineInv
<1>1. PipelineInit => PipelineInv
  BY PipelineStarts
<1>2. PipelineInv /\ [PipelineNext]_pipelineVars => PipelineInv'
  BY PipelineKeeps
<1> QED  BY <1>1, <1>2, PTL DEF Pipeline

\* The buffer stays within maximum_records and maximum_bytes through every turn
\* of append's loop, and _bytes is the size of the records it really holds.
THEOREM LimitsHold == Pipeline => []WithinLimits
<1>1. PipelineInv => WithinLimits
  BY DEF PipelineInv, BufferInv
<1> QED  BY <1>1, PipelineInvariant, PTL

\* append never loses an audit record without audit_saturated telling of it.
THEOREM AuditLossReported == Pipeline => []NoSilentAuditLoss
<1>1. PipelineInv => NoSilentAuditLoss
  BY DEF PipelineInv, BufferInv
<1> QED  BY <1>1, PipelineInvariant, PTL

\* audit_saturated is set only by the step that refuses an audit record, one that
\* is larger than the buffer or does not fit beside the audit records alone.
THEOREM AlarmsAreReal == Pipeline => SaturationIsReal
<1>1. PipelineInv /\ [PipelineNext]_pipelineVars =>
         [~audit_saturated /\ audit_saturated' => AuditRefused]_vars
  BY PipelineKeeps, BufferKeeps DEF PipelineInv, BufferStep
<1> QED  BY <1>1, PipelineInvariant, PTL DEF Pipeline, SaturationIsReal

\* CardinalityGuard has no lock, and still its buckets pass maximum_values_per_key
\* by less than the number of threads.
THEOREM GuardBounded == Pipeline => []CardinalityBounded
<1>1. PipelineInv => CardinalityBounded
  BY BucketsBounded
<1> QED  BY <1>1, PipelineInvariant, PTL

\* CardinalityGuard.admit drops a value only from a bucket for which the tenant
\* itself has sent more values than maximum_values_per_key.
THEOREM DropsAreTheirOwn == Pipeline => []DropsAreOwn
<1>1. PipelineInv => DropsAreOwn
  BY DEF PipelineInv, GuardKept
<1> QED  BY <1>1, PipelineInvariant, PTL

\* Whatever the threads append, the audit records that are buffered stay, in
\* their order, and saturation is for good.
THEOREM AuditSurvives == Pipeline => AuditKept
<1>1. PipelineInv /\ [PipelineNext]_pipelineVars =>
         [/\ Len(AuditRecords') >= Len(AuditRecords)
          /\ SubSeq(AuditRecords', 1, Len(AuditRecords)) = AuditRecords
          /\ audit_saturated => audit_saturated']_vars
  BY PipelineKeeps, BufferKeeps, StepKeepsAudit DEF PipelineInv
<1> QED  BY <1>1, PipelineInvariant, PTL DEF Pipeline, AuditKept
=============================================================================
