----------------------- MODULE TelemetryBufferProofs -----------------------
(***************************************************************************)
(* The safety of the telemetry buffer, for every set of records and of     *)
(* instants and for all limits.                                            *)
(*                                                                         *)
(* Expiry and eviction keep some positions of the buffer.  The first part  *)
(* says what Picked does: it keeps the elements at these positions and     *)
(* their order, and its size is that of what it keeps.  From this follows  *)
(* that neither touches the sequence of audit records, which is what the   *)
(* invariants about audit records rest on.                                 *)
(***************************************************************************)
EXTENDS TelemetryBuffer, FiniteSetTheorems, SequenceTheorems, TLAPS

(***************************************************************************)
(* The inductive invariant.                                                *)
(***************************************************************************)
\* Only a record that can fit is on its way into the buffer, and its offer is
\* remembered before it is known what becomes of it.
PendingKept ==
    pending # None =>
        /\ pending.size <= MaxBytes
        /\ pending.audit_required => pending \in offered

\* No record is larger than the buffer: SizeOf counts all of its bytes.
RecordsFit == \A i \in 1..Len(records) : records[i].size <= MaxBytes

\* Offers of other records are not kept.
OffersAudit == \A r \in offered : r.audit_required

BufferInv ==
    /\ TypeOK
    /\ OffersAudit
    /\ PendingKept
    /\ RecordsFit
    /\ WithinLimits
    /\ NoSilentAuditLoss

-----------------------------------------------------------------------------
(***************************************************************************)
(* Positions.                                                              *)
(***************************************************************************)
\* The positions before a larger one are fewer than those before it.
LEMMA PlaceOf ==
    ASSUME NEW N \in Nat, NEW S \in SUBSET (1..N)
    PROVE  /\ IsFiniteSet(S) /\ Cardinality(S) \in Nat /\ Cardinality(S) <= N
           /\ \A i \in S : Place(S, i) \in 1..Cardinality(S)
           /\ \A i, k \in S : i < k => Place(S, i) < Place(S, k)
<1>1. IsFiniteSet(1..N) /\ Cardinality(1..N) = N
  BY FS_Interval
<1>2. IsFiniteSet(S) /\ Cardinality(S) \in Nat /\ Cardinality(S) <= N
  BY <1>1, FS_Subset, FS_CardinalityType
<1>3. ASSUME NEW i \in S
      PROVE  /\ IsFiniteSet({j \in S : j <= i})
             /\ Place(S, i) \in Nat
             /\ Place(S, i) \in 1..Cardinality(S)
  <2>1. PICK below : below = {j \in S : j <= i}
    OBVIOUS
  <2>2. below \subseteq S /\ i \in below
    BY <2>1
  <2>3. IsFiniteSet(below) /\ Cardinality(below) <= Cardinality(S) /\ Cardinality(below) \in Nat
    BY <1>2, <2>2, FS_Subset, FS_CardinalityType
  <2>4. Cardinality(below) # 0
    BY <2>2, <2>3, FS_EmptySet
  <2> QED  BY <1>2, <2>1, <2>3, <2>4 DEF Place
<1>4. ASSUME NEW i \in S, NEW k \in S, i < k
      PROVE  Place(S, i) < Place(S, k)
  <2>1. PICK below : below = {j \in S : j <= i}
    OBVIOUS
  <2>2. PICK above : above = {j \in S : j <= k}
    OBVIOUS
  <2>3. below \subseteq above /\ k \in above /\ k \notin below
    <3>1. \A j \in S : j \in Nat
      OBVIOUS
    <3>2. \A j \in S : j <= i => j <= k
      BY <1>4, <3>1
    <3>3. k <= k /\ ~(k <= i)
      BY <1>4, <3>1
    <3> QED  BY <2>1, <2>2, <3>2, <3>3
  <2>4. IsFiniteSet(above)
    BY <1>3, <2>2
  <2>5. /\ Cardinality(below) <= Cardinality(above)
        /\ Cardinality(below) # Cardinality(above)
        /\ Cardinality(below) \in Nat /\ Cardinality(above) \in Nat
    BY <2>3, <2>4, FS_Subset, FS_CardinalityType
  <2> QED  BY <2>1, <2>2, <2>5 DEF Place
<1> QED  BY <1>2, <1>3, <1>4

\* There is one position at each place.
LEMMA PositionAtPlace ==
    ASSUME NEW N \in Nat, NEW S \in SUBSET (1..N), NEW n \in 1..Cardinality(S)
    PROVE  PositionAt(S, n) \in S /\ Place(S, PositionAt(S, n)) = n
<1>1. /\ IsFiniteSet(S) /\ Cardinality(S) \in Nat
      /\ \A i \in S : Place(S, i) \in 1..Cardinality(S)
      /\ \A i, k \in S : i < k => Place(S, i) < Place(S, k)
  BY PlaceOf
<1>2. IsFiniteSet(1..Cardinality(S)) /\ Cardinality(1..Cardinality(S)) = Cardinality(S)
  BY <1>1, FS_Interval
<1>3. PICK place : place = [i \in S |-> Place(S, i)]
  OBVIOUS
<1>4. place \in [S -> 1..Cardinality(S)] /\ \A i \in S : place[i] = Place(S, i)
  BY <1>1, <1>3
<1>5. \A i, k \in S : place[i] = place[k] => i = k
  <2> SUFFICES ASSUME NEW i \in S, NEW k \in S, place[i] = place[k], i # k
               PROVE  FALSE
    OBVIOUS
  <2>1. i < k \/ k < i
    OBVIOUS
  <2> QED  BY <1>1, <1>4, <2>1
<1>6. place \in Injection(S, 1..Cardinality(S))
  BY <1>4, <1>5 DEF Injection, IsInjective
<1>7. place \in Surjection(S, 1..Cardinality(S))
  BY <1>2, <1>6, FS_Injection
<1>8. \E i \in S : Place(S, i) = n
  BY <1>4, <1>7 DEF Surjection
<1> QED  BY <1>8 DEF PositionAt

\* A position is the one at its place.
LEMMA PlaceHolds ==
    ASSUME NEW N \in Nat, NEW S \in SUBSET (1..N), NEW i \in S, NEW n \in 1..Cardinality(S),
           Place(S, i) = n
    PROVE  PositionAt(S, n) = i
<1>1. PICK k \in S : k = PositionAt(S, n) /\ Place(S, k) = n
  BY PositionAtPlace
<1>2. /\ Cardinality(S) \in Nat
      /\ \A j, l \in S : j < l => Place(S, j) < Place(S, l)
      /\ \A j \in S : Place(S, j) \in 1..Cardinality(S)
  BY PlaceOf
<1>3. ~(i < k) /\ ~(k < i)
  BY <1>1, <1>2
<1> QED  BY <1>1, <1>3

\* Places are in the order of positions.
LEMMA PositionsOrdered ==
    ASSUME NEW N \in Nat, NEW S \in SUBSET (1..N),
           NEW m \in 1..Cardinality(S), NEW n \in 1..Cardinality(S)
    PROVE  m < n <=> PositionAt(S, m) < PositionAt(S, n)
<1>1. PICK i \in S : i = PositionAt(S, m) /\ Place(S, i) = m
  BY PositionAtPlace
<1>2. PICK k \in S : k = PositionAt(S, n) /\ Place(S, k) = n
  BY PositionAtPlace
<1>3. /\ Cardinality(S) \in Nat
      /\ \A j, l \in S : j < l => Place(S, j) < Place(S, l)
  BY PlaceOf
<1>4. i \in Nat /\ k \in Nat /\ m \in Nat /\ n \in Nat
  OBVIOUS
<1> QED  BY <1>1, <1>2, <1>3, <1>4

\* An order-preserving map between two sets of positions preserves places.
LEMMA PlacesCarryOver ==
    ASSUME NEW N \in Nat, NEW S \in SUBSET (1..N), NEW M \in Nat, NEW T \in SUBSET (1..M),
           NEW f \in Surjection(S, T), \A i, k \in S : i < k => f[i] < f[k]
    PROVE  /\ Cardinality(S) = Cardinality(T)
           /\ \A n \in 1..Cardinality(T) : f[PositionAt(S, n)] = PositionAt(T, n)
<1>0. (\A i \in S : i \in Nat) /\ (\A t \in T : t \in Nat)
  OBVIOUS
<1>1. IsFiniteSet(S) /\ IsFiniteSet(T) /\ Cardinality(S) \in Nat /\ Cardinality(T) \in Nat
  BY PlaceOf
<1>2. f \in [S -> T] /\ \A t \in T : \E i \in S : f[i] = t
  BY DEF Surjection
<1>3. \A i, k \in S : i <= k <=> f[i] <= f[k]
  <2> SUFFICES ASSUME NEW i \in S, NEW k \in S
               PROVE  i <= k <=> f[i] <= f[k]
    OBVIOUS
  <2>1. f[i] \in Nat /\ f[k] \in Nat /\ i \in Nat /\ k \in Nat
    BY <1>0, <1>2
  <2> QED  BY <2>1
<1>4. \A i, k \in S : f[i] = f[k] => i = k
  <2> SUFFICES ASSUME NEW i \in S, NEW k \in S, f[i] = f[k]
               PROVE  i = k
    OBVIOUS
  <2>1. f[i] \in Nat /\ i \in Nat /\ k \in Nat
    BY <1>0, <1>2
  <2> QED  BY <1>3, <2>1
<1>5. Cardinality(S) = Cardinality(T)
  <2>1. f \in Injection(S, T)
    BY <1>2, <1>4 DEF Injection, IsInjective
  <2> QED  BY <1>1, <2>1, FS_Surjection
<1>6. ASSUME NEW i \in S
      PROVE  Place(S, i) = Place(T, f[i])
  <2>1. PICK A : A = {j \in S : j <= i}
    OBVIOUS
  <2>2. PICK B : B = {j \in T : j <= f[i]}
    OBVIOUS
  <2>3. PICK g : g = [j \in A |-> f[j]]
    OBVIOUS
  <2>4. g \in [A -> B] /\ \A j \in A : g[j] = f[j]
    BY <1>2, <1>3, <2>1, <2>2, <2>3
  <2>5. \A t \in B : \E j \in A : g[j] = t
    BY <1>2, <1>3, <2>1, <2>2, <2>4
  <2>6. \A j, l \in A : g[j] = g[l] => j = l
    BY <1>4, <2>1, <2>4
  <2>7. g \in Surjection(A, B) /\ g \in Injection(A, B)
    BY <2>4, <2>5, <2>6 DEF Surjection, Injection, IsInjective
  <2>8. IsFiniteSet(A)
    BY <1>1, <2>1, FS_Subset
  <2>9. Cardinality(A) = Cardinality(B)
    BY <2>7, <2>8, FS_Surjection
  <2> QED  BY <2>1, <2>2, <2>9 DEF Place
<1>7. ASSUME NEW n \in 1..Cardinality(T)
      PROVE  f[PositionAt(S, n)] = PositionAt(T, n)
  <2>1. PICK i \in S : i = PositionAt(S, n) /\ Place(S, i) = n
    BY <1>5, PositionAtPlace
  <2>2. Place(T, f[i]) = n /\ f[i] \in T
    BY <1>2, <1>6, <2>1
  <2> QED  BY <2>1, <2>2, PlaceHolds
<1> QED  BY <1>5, <1>7

(***************************************************************************)
(* What is picked out of a sequence.                                       *)
(***************************************************************************)
\* The elements at the positions in S, and their order.
LEMMA PickedItems ==
    ASSUME NEW R, NEW s \in Seq(R), NEW S \in SUBSET (1..Len(s))
    PROVE  /\ Picked(s, S) \in Seq(R)
           /\ Len(Picked(s, S)) = Cardinality(S)
           /\ Len(Picked(s, S)) <= Len(s)
           /\ \A n \in 1..Cardinality(S) :
                 PositionAt(S, n) \in S /\ Picked(s, S)[n] = s[PositionAt(S, n)]
           /\ \A i \in S : \E n \in 1..Cardinality(S) : Picked(s, S)[n] = s[i]
<1>1. PICK N \in Nat : N = Len(s)
  BY LenProperties
<1>2. S \subseteq 1..N
  BY <1>1
<1>3. /\ Cardinality(S) \in Nat /\ Cardinality(S) <= N
      /\ \A i \in S : Place(S, i) \in 1..Cardinality(S)
  BY <1>2, PlaceOf
<1>4. \A n \in 1..Cardinality(S) : PositionAt(S, n) \in S
  BY <1>2, PositionAtPlace
<1>5. \A i \in 1..N : s[i] \in R
  BY <1>1, ElementOfSeq
<1>6. PICK size \in Nat : size = Cardinality(S)
  BY <1>3
<1>7. PICK picked : picked = [n \in 1..size |-> s[PositionAt(S, n)]]
  OBVIOUS
<1>8. picked \in [1..size -> R]
  BY <1>2, <1>4, <1>5, <1>6, <1>7
<1>9. picked \in Seq(R) /\ Len(picked) = size
  BY <1>8, SeqDef, LenProperties
<1>10. Picked(s, S) = picked
  BY <1>6, <1>7 DEF Picked
<1>11. \A n \in 1..size : picked[n] = s[PositionAt(S, n)]
  BY <1>7
<1>12. ASSUME NEW i \in S
       PROVE  \E n \in 1..size : picked[n] = s[i]
  <2>1. PICK n \in 1..size : n = Place(S, i)
    BY <1>3, <1>6
  <2>2. PositionAt(S, n) = i
    BY <1>2, <1>6, <2>1, PlaceHolds
  <2> QED  BY <1>11, <2>2
<1> QED  BY <1>1, <1>3, <1>4, <1>6, <1>9, <1>10, <1>11, <1>12

\* Everything is picked from all positions.
LEMMA PickedAll ==
    ASSUME NEW R, NEW s \in Seq(R)
    PROVE  Picked(s, 1..Len(s)) = s
<1>1. PICK N \in Nat : N = Len(s)
  BY LenProperties
<1>2. Cardinality(1..N) = N
  BY FS_Interval
<1>3. PICK S \in SUBSET (1..N) : S = 1..N
  OBVIOUS
<1>4. ASSUME NEW n \in 1..N
      PROVE  PositionAt(S, n) = n
  <2>1. PICK m \in Nat : m = n /\ m >= 1
    OBVIOUS
  <2>2. Cardinality(1..m) = m
    BY <2>1, FS_Interval
  <2>3. {j \in S : j <= n} = 1..m
    BY <1>3, <2>1
  <2>4. Place(S, n) = n
    BY <2>1, <2>2, <2>3 DEF Place
  <2>5. n \in S /\ n \in 1..Cardinality(S)
    BY <1>2, <1>3
  <2> QED  BY <2>4, <2>5, PlaceHolds
<1>5. PICK picked : picked = Picked(s, S)
  OBVIOUS
<1>6. /\ picked \in Seq(R) /\ Len(picked) = Cardinality(S)
      /\ \A n \in 1..Cardinality(S) : picked[n] = s[PositionAt(S, n)]
  BY <1>1, <1>5, PickedItems
<1>7. picked = s
  BY <1>1, <1>2, <1>3, <1>4, <1>6, SeqEqual
<1> QED  BY <1>1, <1>3, <1>5, <1>7

\* Among what is picked, the audit records are all those of the sequence, in
\* their order, if the positions picked include theirs.
LEMMA PickedAudits ==
    ASSUME NEW s \in Seq(Records), NEW S \in SUBSET (1..Len(s)), Audits(s) \subseteq S,
           NEW t, t = Picked(s, S)
    PROVE  Picked(t, Audits(t)) = Picked(s, Audits(s))
<1>1. PICK N \in Nat : N = Len(s)
  BY LenProperties
<1>2. PICK size \in Nat : size = Cardinality(S)
  BY <1>1, PlaceOf
<1>3. /\ t \in Seq(Records) /\ Len(t) = size
      /\ \A n \in 1..size : PositionAt(S, n) \in S /\ t[n] = s[PositionAt(S, n)]
  BY <1>2, PickedItems
<1>4. PICK A : A = Audits(t)
  OBVIOUS
<1>5. PICK B : B = Audits(s)
  OBVIOUS
<1>6. A \in SUBSET (1..size) /\ B \in SUBSET (1..N) /\ B \subseteq S /\ S \in SUBSET (1..N)
  BY <1>1, <1>3, <1>4, <1>5 DEF Audits
<1>7. PICK f : f = [n \in A |-> PositionAt(S, n)]
  OBVIOUS
<1>8. f \in [A -> B] /\ \A n \in A : f[n] = PositionAt(S, n)
  BY <1>3, <1>4, <1>5, <1>6, <1>7 DEF Audits
<1>9. \A i \in B : \E n \in A : f[n] = i
  <2> SUFFICES ASSUME NEW i \in B
               PROVE  \E n \in A : f[n] = i
    OBVIOUS
  <2>1. PICK n \in 1..size : n = Place(S, i)
    BY <1>1, <1>2, <1>6, PlaceOf
  <2>2. PositionAt(S, n) = i
    BY <1>1, <1>2, <1>6, <2>1, PlaceHolds
  <2>3. n \in A
    BY <1>3, <1>4, <1>5, <2>2 DEF Audits
  <2> QED  BY <1>8, <2>2, <2>3
<1>10. \A m, n \in A : m < n => f[m] < f[n]
  <2> SUFFICES ASSUME NEW m \in A, NEW n \in A, m < n
               PROVE  f[m] < f[n]
    OBVIOUS
  <2>1. m \in 1..Cardinality(S) /\ n \in 1..Cardinality(S)
    BY <1>2, <1>6
  <2>2. PositionAt(S, m) < PositionAt(S, n)
    BY <1>6, <2>1, PositionsOrdered
  <2> QED  BY <1>8, <2>2
<1>11. f \in Surjection(A, B)
  BY <1>8, <1>9 DEF Surjection
<1>12. /\ Cardinality(A) = Cardinality(B)
       /\ \A n \in 1..Cardinality(B) : f[PositionAt(A, n)] = PositionAt(B, n)
  BY <1>6, <1>10, <1>11, PlacesCarryOver
<1>13. \A n \in 1..Cardinality(A) : PositionAt(A, n) \in A
  BY <1>6, PositionAtPlace
<1>14. \A n \in 1..Cardinality(A) : t[PositionAt(A, n)] = s[PositionAt(B, n)]
  BY <1>3, <1>6, <1>8, <1>12, <1>13
<1> QED  BY <1>4, <1>5, <1>12, <1>14 DEF Picked

\* The audit records after one more record.
LEMMA AppendedAudits ==
    ASSUME NEW s \in Seq(Records), NEW r \in Records,
           NEW t, t = Append(s, r)
    PROVE  /\ Len(Picked(s, Audits(s))) <= Len(Picked(t, Audits(t)))
           /\ \A n \in 1..Len(Picked(s, Audits(s))) :
                 Picked(t, Audits(t))[n] = Picked(s, Audits(s))[n]
<1>1. PICK N \in Nat : N = Len(s)
  BY LenProperties
<1>2. t \in Seq(Records) /\ Len(t) = N + 1 /\ \A i \in 1..N : t[i] = s[i]
  BY <1>1, AppendProperties
<1>3. PICK A : A = Audits(s)
  OBVIOUS
<1>4. PICK B : B = Audits(t)
  OBVIOUS
<1>5. A \in SUBSET (1..N) /\ B \in SUBSET (1..(N + 1)) /\ A \subseteq B
      /\ \A j \in B : j \in A \/ j = N + 1
  BY <1>1, <1>2, <1>3, <1>4 DEF Audits
<1>6. /\ IsFiniteSet(A) /\ Cardinality(A) \in Nat /\ IsFiniteSet(B) /\ Cardinality(B) \in Nat
  <2>1. N + 1 \in Nat
    OBVIOUS
  <2> QED  BY <1>5, <2>1, PlaceOf
<1>7. Cardinality(A) <= Cardinality(B)
  BY <1>5, <1>6, FS_Subset
<1>8. ASSUME NEW n \in 1..Cardinality(A)
      PROVE  PositionAt(B, n) = PositionAt(A, n) /\ PositionAt(A, n) \in A
  <2>1. PICK i \in A : i = PositionAt(A, n) /\ Place(A, i) = n
    BY <1>5, PositionAtPlace
  <2>2. {j \in B : j <= i} = {j \in A : j <= i}
    <3>1. i \in 1..N
      BY <1>5
    <3>2. ~(N + 1 <= i)
      BY <3>1
    <3> QED  BY <1>5, <3>2
  <2>3. Place(B, i) = n
    BY <2>1, <2>2 DEF Place
  <2>4. i \in B /\ n \in 1..Cardinality(B)
    BY <1>5, <1>6, <1>7
  <2>5. PositionAt(B, n) = i
    <3>1. N + 1 \in Nat
      OBVIOUS
    <3> QED  BY <1>5, <2>3, <2>4, <3>1, PlaceHolds
  <2> QED  BY <2>1, <2>5
<1>9. /\ Len(Picked(s, A)) = Cardinality(A)
      /\ \A n \in 1..Cardinality(A) : Picked(s, A)[n] = s[PositionAt(A, n)]
  BY <1>1, <1>5, PickedItems
<1>10. /\ Len(Picked(t, B)) = Cardinality(B)
       /\ \A n \in 1..Cardinality(B) : Picked(t, B)[n] = t[PositionAt(B, n)]
  <2>1. B \in SUBSET (1..Len(t))
    BY <1>2, <1>5
  <2> QED  BY <1>2, <2>1, PickedItems
<1>11. ASSUME NEW n \in 1..Cardinality(A)
       PROVE  Picked(t, B)[n] = Picked(s, A)[n]
  <2>1. n \in 1..Cardinality(B)
    BY <1>6, <1>7
  <2>2. Picked(t, B)[n] = t[PositionAt(A, n)]
    BY <1>8, <1>10, <2>1
  <2>3. PositionAt(A, n) \in 1..N
    BY <1>5, <1>8
  <2> QED  BY <1>2, <1>9, <2>2, <2>3
<1> QED  BY <1>3, <1>4, <1>7, <1>9, <1>10, <1>11

(***************************************************************************)
(* Sizes.                                                                  *)
(***************************************************************************)
\* The bytes of the records at the positions in S, one by one.
Units(s, S) == {u \in S \X (1..MaxBytes) : u[2] <= s[u[1]].size}

\* SizeOf counts them all.
LEMMA SizeIsUnits ==
    ASSUME NEW s
    PROVE  SizeOf(s) = Cardinality(Units(s, 1..Len(s)))
  BY DEF SizeOf, Units

\* They are finitely many, and more positions have no fewer.
LEMMA UnitsFinite ==
    ASSUME NEW s, NEW N \in Nat, NEW T \in SUBSET (1..N), NEW S \in SUBSET T
    PROVE  /\ IsFiniteSet(Units(s, T)) /\ Cardinality(Units(s, T)) \in Nat
           /\ IsFiniteSet(Units(s, S)) /\ Cardinality(Units(s, S)) \in Nat
           /\ Cardinality(Units(s, S)) <= Cardinality(Units(s, T))
<1>1. IsFiniteSet(T)
  BY PlaceOf
<1>2. IsFiniteSet(1..MaxBytes)
  BY FS_Interval, MaxBytesAssumption
<1>3. IsFiniteSet(T \X (1..MaxBytes))
  BY <1>1, <1>2, FS_Product
<1>4. Units(s, T) \subseteq T \X (1..MaxBytes) /\ Units(s, S) \subseteq Units(s, T)
  BY DEF Units
<1>5. IsFiniteSet(Units(s, T))
  BY <1>3, <1>4, FS_Subset
<1>6. IsFiniteSet(Units(s, S)) /\ Cardinality(Units(s, S)) <= Cardinality(Units(s, T))
  BY <1>4, <1>5, FS_Subset
<1> QED  BY <1>5, <1>6, FS_CardinalityType

\* What is picked is as large as the records at the positions picked.
LEMMA PickedSize ==
    ASSUME NEW s \in Seq(Records), NEW S \in SUBSET (1..Len(s)), NEW t, t = Picked(s, S)
    PROVE  SizeOf(t) = Cardinality(Units(s, S))
<1>1. PICK N \in Nat : N = Len(s)
  BY LenProperties
<1>2. S \in SUBSET (1..N)
  BY <1>1
<1>3. PICK size \in Nat : size = Cardinality(S)
  BY <1>2, PlaceOf
<1>4. /\ Len(t) = size
      /\ \A n \in 1..size : PositionAt(S, n) \in S /\ t[n] = s[PositionAt(S, n)]
  BY <1>3, PickedItems
<1>5. PICK A : A = Units(t, 1..size)
  OBVIOUS
<1>6. PICK B : B = Units(s, S)
  OBVIOUS
<1>7. PICK g : g = [u \in A |-> <<PositionAt(S, u[1]), u[2]>>]
  OBVIOUS
<1>8. ASSUME NEW u \in A
      PROVE  g[u] \in B
  <2>1. PICK n \in 1..size, k \in 1..MaxBytes : u = <<n, k>> /\ k <= t[n].size
    BY <1>5 DEF Units
  <2>2. g[u] = <<PositionAt(S, n), k>>
    BY <1>7, <2>1
  <2>3. PositionAt(S, n) \in S /\ k <= s[PositionAt(S, n)].size
    BY <1>4, <2>1
  <2> QED  BY <1>6, <2>2, <2>3 DEF Units
<1>9. ASSUME NEW v \in B
      PROVE  \E u \in A : g[u] = v
  <2>0. v \in S \X (1..MaxBytes) /\ v[2] <= s[v[1]].size
    BY <1>6 DEF Units
  <2>1. PICK i \in S, k \in 1..MaxBytes : v = <<i, k>> /\ k <= s[i].size
    <3>1. v[1] \in S /\ v[2] \in 1..MaxBytes /\ v = <<v[1], v[2]>>
      BY <2>0
    <3> QED  BY <2>0, <3>1
  <2>2. PICK n \in 1..size : n = Place(S, i)
    BY <1>2, <1>3, PlaceOf
  <2>3. PositionAt(S, n) = i
    BY <1>2, <1>3, <2>2, PlaceHolds
  <2>4. PICK u : u = <<n, k>>
    OBVIOUS
  <2>5. u \in A
    BY <1>4, <1>5, <2>1, <2>3, <2>4 DEF Units
  <2>6. g[u] = v
    BY <1>7, <2>1, <2>3, <2>4, <2>5
  <2> QED  BY <2>5, <2>6
<1>10. ASSUME NEW u \in A, NEW w \in A, g[u] = g[w]
       PROVE  u = w
  <2>1. PICK n \in 1..size, k \in 1..MaxBytes : u = <<n, k>>
    BY <1>5 DEF Units
  <2>2. PICK m \in 1..size, l \in 1..MaxBytes : w = <<m, l>>
    BY <1>5 DEF Units
  <2>3. PositionAt(S, n) = PositionAt(S, m) /\ k = l
    BY <1>7, <1>10, <2>1, <2>2
  <2>4. Place(S, PositionAt(S, n)) = n /\ Place(S, PositionAt(S, m)) = m
    BY <1>2, <1>3, PositionAtPlace
  <2> QED  BY <2>1, <2>2, <2>3, <2>4
<1>11. g \in [A -> B]
  BY <1>7, <1>8
<1>12. g \in Surjection(A, B) /\ g \in Injection(A, B)
  BY <1>9, <1>10, <1>11 DEF Surjection, Injection, IsInjective
<1>13. IsFiniteSet(A)
  <2>1. 1..size \in SUBSET (1..size)
    OBVIOUS
  <2> QED  BY <1>5, <2>1, UnitsFinite
<1>14. Cardinality(A) = Cardinality(B)
  BY <1>12, <1>13, FS_Surjection
<1> QED  BY <1>4, <1>5, <1>6, <1>14, SizeIsUnits

\* The numbers from one.
LEMMA IntervalSize ==
    ASSUME NEW n \in Nat
    PROVE  IsFiniteSet(1..n) /\ Cardinality(1..n) = n
  BY FS_Interval

\* Taking a record out takes its size off.
LEMMA SizeWithoutOne ==
    ASSUME NEW s, NEW N \in Nat, NEW i \in 1..N, s[i].size \in Nat, s[i].size <= MaxBytes
    PROVE  Cardinality(Units(s, 1..N)) = Cardinality(Units(s, (1..N) \ {i})) + s[i].size
<1>1. PICK size \in Nat : size = s[i].size
  OBVIOUS
<1>2. PICK mine : mine = Units(s, {i})
  OBVIOUS
<1>3. PICK others : others = Units(s, (1..N) \ {i})
  OBVIOUS
<1>4. PICK all : all = Units(s, 1..N)
  OBVIOUS
<1>5. all = others \cup mine /\ others \cap mine = {}
  BY <1>2, <1>3, <1>4 DEF Units
<1>6. IsFiniteSet(others) /\ IsFiniteSet(mine) /\ Cardinality(others) \in Nat
  <2>1. 1..N \in SUBSET (1..N) /\ (1..N) \ {i} \in SUBSET (1..N) /\ {i} \in SUBSET (1..N)
    OBVIOUS
  <2> QED  BY <1>2, <1>3, <2>1, UnitsFinite
<1>7. Cardinality(mine) = size
  <2>1. PICK f : f = [k \in 1..size |-> <<i, k>>]
    OBVIOUS
  <2>2. \A k \in 1..size : k \in 1..MaxBytes
    BY <1>1, MaxBytesAssumption
  <2>3. \A k \in 1..size : <<i, k>> \in mine
    BY <1>1, <1>2, <2>2 DEF Units
  <2>4. \A u \in mine : \E k \in 1..size : u = <<i, k>>
    BY <1>1, <1>2, MaxBytesAssumption DEF Units
  <2>5. f \in Surjection(1..size, mine) /\ f \in Injection(1..size, mine)
    BY <2>1, <2>3, <2>4 DEF Surjection, Injection, IsInjective
  <2>6. IsFiniteSet(1..size) /\ Cardinality(1..size) = size
    BY IntervalSize
  <2> QED  BY <2>5, <2>6, FS_Surjection
<1>8. Cardinality(others \cap mine) = 0
  BY <1>5, FS_EmptySet
<1>9. Cardinality(others \cup mine) = Cardinality(others) + size
  <2>1. Cardinality(others \cup mine) = Cardinality(others) + size - 0
    BY <1>6, <1>7, <1>8, FS_Union
  <2> QED  BY <1>6, <2>1
<1> QED  BY <1>1, <1>3, <1>4, <1>5, <1>6, <1>9

\* Appending one adds its size.
LEMMA AppendedSize ==
    ASSUME NEW s \in Seq(Records), NEW r \in Records, r.size <= MaxBytes,
           NEW t, t = Append(s, r)
    PROVE  SizeOf(t) = SizeOf(s) + r.size
<1>1. PICK N \in Nat : N = Len(s)
  BY LenProperties
<1>2. /\ t \in Seq(Records) /\ Len(t) = N + 1 /\ t[N + 1] = r
      /\ \A i \in 1..N : t[i] = s[i]
  BY <1>1, AppendProperties
<1>3. r.size \in Nat
  BY RecordsAssumption DEF TelemetryRecord
<1>4. Cardinality(Units(t, 1..(N + 1)))
         = Cardinality(Units(t, (1..(N + 1)) \ {N + 1})) + r.size
  <2>1. PICK M \in Nat : M = N + 1
    OBVIOUS
  <2>2. PICK i \in 1..M : i = N + 1
    BY <2>1
  <2>3. t[i].size = r.size /\ t[i].size \in Nat /\ t[i].size <= MaxBytes
    BY <1>2, <1>3, <2>2
  <2>4. Cardinality(Units(t, 1..M)) = Cardinality(Units(t, (1..M) \ {i})) + t[i].size
    BY <2>3, SizeWithoutOne
  <2> QED  BY <2>1, <2>2, <2>3, <2>4
<1>5. (1..(N + 1)) \ {N + 1} = 1..N
  OBVIOUS
<1>6. Units(t, 1..N) = Units(s, 1..N)
  BY <1>2 DEF Units
<1> QED  BY <1>1, <1>2, <1>4, <1>5, <1>6, SizeIsUnits

-----------------------------------------------------------------------------
(***************************************************************************)
(* The steps.                                                              *)
(***************************************************************************)
\* The audit records of the buffer stay, in their order, before later ones.
AuditsKept ==
    /\ Len(AuditRecords) <= Len(AuditRecords')
    /\ \A n \in 1..Len(AuditRecords) : AuditRecords'[n] = AuditRecords[n]

\* What every step does besides keeping the invariant.
BufferStep ==
    /\ AuditsKept
    /\ audit_saturated => audit_saturated'
    /\ ~audit_saturated /\ audit_saturated' => AuditRefused

\* The audit records are a sequence with a length.
LEMMA AuditRecordsType ==
    ASSUME records \in Seq(Records)
    PROVE  /\ AuditRecords \in Seq(Records)
           /\ Len(AuditRecords) \in Nat
<1>1. Audits(records) \in SUBSET (1..Len(records))
  BY DEF Audits
<1>2. AuditRecords \in Seq(Records)
  BY <1>1, PickedItems DEF AuditRecords
<1> QED  BY <1>2, LenProperties

\* A step that does not touch the buffer keeps its audit records.
LEMMA UntouchedKeeps ==
    ASSUME records \in Seq(Records), records' = records
    PROVE  AuditRecords' = AuditRecords /\ AuditsKept
<1>1. AuditRecords' = AuditRecords
  BY DEF AuditRecords
<1> QED  BY <1>1, AuditRecordsType DEF AuditsKept

\* So does one that leaves audit records only, or all but one other record.
LEMMA PickedKeeps ==
    ASSUME BufferInv, NEW S \in SUBSET (1..Len(records)), Audits(records) \subseteq S,
           records' = Picked(records, S)
    PROVE  /\ records' \in Seq(Records)
           /\ Len(records') <= MaxRecords
           /\ RecordsFit'
           /\ SizeOf(records') \in Nat
           /\ SizeOf(records') <= SizeOf(records)
           /\ \A r \in offered : Buffered(r) => Buffered(r)'
           /\ AuditsKept
<1>1. records \in Seq(Records)
  BY DEF BufferInv, TypeOK
<1>2. PICK N \in Nat : N = Len(records)
  BY <1>1, LenProperties
<1>3. /\ records' \in Seq(Records) /\ Len(records') = Cardinality(S)
      /\ Len(records') <= N
      /\ \A n \in 1..Cardinality(S) :
            PositionAt(S, n) \in S /\ records'[n] = records[PositionAt(S, n)]
      /\ \A i \in S : \E n \in 1..Cardinality(S) : records'[n] = records[i]
  BY <1>1, <1>2, PickedItems
<1>4. Len(records') \in Nat /\ N <= MaxRecords
  BY <1>2, <1>3, LenProperties DEF BufferInv, WithinLimits
<1>5. RecordsFit'
  BY <1>3 DEF RecordsFit, BufferInv
<1>6. SizeOf(records') \in Nat /\ SizeOf(records') <= SizeOf(records)
  <2>1. S \in SUBSET (1..N) /\ 1..N \in SUBSET (1..N)
    BY <1>2
  <2>2. SizeOf(records') = Cardinality(Units(records, S))
    BY <1>1, PickedSize
  <2>3. SizeOf(records) = Cardinality(Units(records, 1..N))
    BY <1>2, SizeIsUnits
  <2> QED  BY <2>1, <2>2, <2>3, UnitsFinite
<1>7. ASSUME NEW r \in offered, Buffered(r)
      PROVE  Buffered(r)'
  <2>1. PICK i \in 1..Len(records) : records[i] = r
    BY <1>7 DEF Buffered
  <2>2. i \in Audits(records)
    BY <2>1 DEF Audits, BufferInv, OffersAudit
  <2>3. PICK n \in 1..Len(records') : records'[n] = r
    BY <1>3, <2>1, <2>2
  <2> QED  BY <2>3 DEF Buffered
<1>8. AuditRecords' = AuditRecords
  BY <1>1, PickedAudits DEF AuditRecords
<1>9. AuditsKept
  BY <1>1, <1>8, AuditRecordsType DEF AuditsKept
<1> QED  BY <1>2, <1>3, <1>4, <1>5, <1>6, <1>7, <1>9, MaxRecordsAssumption

\* Storing a record puts it behind the audit records that were there.
LEMMA StoredKeeps ==
    ASSUME records \in Seq(Records), NEW r \in Records, records' = Append(records, r)
    PROVE  AuditsKept
<1>1. /\ Len(AuditRecords) <= Len(AuditRecords')
      /\ \A n \in 1..Len(AuditRecords) : AuditRecords'[n] = AuditRecords[n]
  BY AppendedAudits DEF AuditRecords
<1> QED  BY <1>1 DEF AuditsKept

\* The first of some positions is one of them.
LEMMA FirstIsOne ==
    ASSUME NEW N \in Nat, NEW S \in SUBSET (1..N), S # {}
    PROVE  First(S) \in S
<1>1. PICK size \in Nat : size = Cardinality(S)
  BY PlaceOf
<1>2. 1 \in 1..size
  <2>1. PICK i \in S : TRUE
    OBVIOUS
  <2>2. Place(S, i) \in 1..size
    BY <1>1, PlaceOf
  <2> QED  BY <2>2
<1>3. PICK i \in S : i = PositionAt(S, 1)
  BY <1>1, <1>2, PositionAtPlace
<1>4. ASSUME NEW j \in S
      PROVE  i <= j
  <2>1. PICK p \in 1..size : p = Place(S, j)
    BY <1>1, PlaceOf
  <2>2. PositionAt(S, p) = j
    BY <1>1, <2>1, PlaceHolds
  <2>3. CASE p = 1
    BY <1>3, <2>2, <2>3
  <2>4. CASE p # 1
    <3>1. 1 < p
      BY <2>4
    <3>2. i < j
      BY <1>1, <1>2, <1>3, <2>2, <3>1, PositionsOrdered
    <3> QED  BY <3>2
  <2> QED  BY <2>3, <2>4
<1> QED  BY <1>4 DEF First

\* A record that may be evicted is in the buffer and no audit needs it.
LEMMA CandidateIsDroppable ==
    ASSUME records \in Seq(Records), NEW i \in DropCandidates
    PROVE  i \in 1..Len(records) /\ ~records[i].audit_required
<1>1. PICK N \in Nat : N = Len(records)
  BY LenProperties
<1>2. /\ Droppable("LOW") \in SUBSET (1..N) /\ Droppable("NORMAL") \in SUBSET (1..N)
      /\ \A j \in Droppable("LOW") \cup Droppable("NORMAL") : ~records[j].audit_required
  BY <1>1 DEF Droppable
<1>3. CASE Droppable("LOW") # {}
  BY <1>1, <1>2, <1>3, FirstIsOne DEF DropCandidates
<1>4. CASE Droppable("LOW") = {} /\ Droppable("NORMAL") # {}
  BY <1>1, <1>2, <1>4, FirstIsOne DEF DropCandidates
<1> QED  BY <1>3, <1>4 DEF DropCandidates

\* When nothing may be evicted, the buffer holds audit records only.
LEMMA NoneDroppable ==
    ASSUME records \in Seq(Records), DropCandidates = {}
    PROVE  AuditRecords = records
<1>1. Droppable("LOW") = {} /\ Droppable("NORMAL") = {}
  BY DEF DropCandidates
<1>2. ASSUME NEW i \in 1..Len(records)
      PROVE  records[i].audit_required
  <2>1. records[i] \in Records
    BY ElementOfSeq
  <2>2. /\ records[i].priority \in {"LOW", "NORMAL", "AUDIT"}
        /\ records[i].priority = "AUDIT" => records[i].audit_required
    BY <2>1, RecordsAssumption DEF TelemetryRecord, Admitted
  <2> QED  BY <1>1, <2>2 DEF Droppable
<1>3. Audits(records) = 1..Len(records)
  BY <1>2 DEF Audits
<1> QED  BY <1>3, PickedAll DEF AuditRecords

\* What an offer adds to the history.
LEMMA OfferKeeps ==
    ASSUME BufferInv, NEW r \in Records, Offer(r)
    PROVE  /\ offered' \subseteq Records /\ OffersAudit' /\ offered \subseteq offered'
           /\ r.audit_required => r \in offered'
           /\ \A q \in offered' : q \in offered \/ (q = r /\ r.audit_required)
  BY DEF Offer, BufferInv, TypeOK, OffersAudit

\* A record that can never fit: an audit record is lost, and that is reported.
LEMMA OversizeKeeps ==
    ASSUME BufferInv, NEW r \in Records, AppendOversize(r)
    PROVE  BufferInv' /\ BufferStep
<1>1. /\ pending = None /\ r.size > MaxBytes
      /\ audit_saturated' = (audit_saturated \/ r.audit_required)
      /\ answer' = IF r.audit_required THEN "SATURATED" ELSE "DROPPED"
      /\ Offer(r)
      /\ records' = records /\ bytes' = bytes /\ pending' = pending
  BY DEF AppendOversize
<1>2. /\ offered' \subseteq Records /\ OffersAudit' /\ offered \subseteq offered'
      /\ r.audit_required => r \in offered'
      /\ \A q \in offered' : q \in offered \/ (q = r /\ r.audit_required)
  BY <1>1, OfferKeeps
<1>3. records \in Seq(Records) /\ r.size \in Nat /\ r.audit_required \in BOOLEAN
  BY RecordsAssumption DEF BufferInv, TypeOK, TelemetryRecord
<1>4. AuditsKept
  BY <1>1, <1>3, UntouchedKeeps
<1>5. ~audit_saturated /\ audit_saturated' => AuditRefused
  <2> SUFFICES ASSUME ~audit_saturated, audit_saturated'
               PROVE  AuditRefused
    OBVIOUS
  <2>1. r \in offered'
    BY <1>1, <1>2
  <2>2. ~Buffered(r)
    BY <1>1, <1>3, MaxBytesAssumption DEF BufferInv, RecordsFit, Buffered
  <2>3. pending # r
    BY <1>1, NoneAssumption
  <2>4. r \notin offered
    BY <2>2, <2>3 DEF BufferInv, NoSilentAuditLoss
  <2> QED  BY <1>1, <2>1, <2>4 DEF AuditRefused
<1>6. TypeOK'
  <2>1. audit_saturated' \in BOOLEAN
    BY <1>1, <1>3 DEF BufferInv, TypeOK
  <2> QED  BY <1>1, <1>2, <2>1 DEF BufferInv, TypeOK
<1>7. NoSilentAuditLoss'
  BY <1>1, <1>2 DEF BufferInv, NoSilentAuditLoss, Buffered
<1>8. PendingKept' /\ RecordsFit' /\ WithinLimits'
  BY <1>1 DEF BufferInv, PendingKept, RecordsFit, WithinLimits
<1> QED  BY <1>1, <1>2, <1>4, <1>5, <1>6, <1>7, <1>8 DEF BufferInv, BufferStep

\* Expiry keeps all audit records, and counts the bytes afresh.
LEMMA ExpireKeeps ==
    ASSUME BufferInv, NEW r \in Records, NEW now, Append_Expire(r, now)
    PROVE  BufferInv' /\ BufferStep
<1>1. PICK S : S = Audits(records) \cup Recent(records, now)
  OBVIOUS
<1>2. S \in SUBSET (1..Len(records)) /\ Audits(records) \subseteq S
  BY <1>1 DEF Audits, Recent
<1>3. /\ pending = None /\ r.size <= MaxBytes
      /\ records' = Picked(records, S) /\ bytes' = SizeOf(records')
      /\ pending' = r
      /\ Offer(r)
      /\ audit_saturated' = audit_saturated /\ answer' = answer
  BY <1>1 DEF Append_Expire, Retained
<1>4. /\ records' \in Seq(Records) /\ Len(records') <= MaxRecords /\ RecordsFit'
      /\ SizeOf(records') \in Nat /\ SizeOf(records') <= SizeOf(records)
      /\ \A q \in offered : Buffered(q) => Buffered(q)'
      /\ AuditsKept
  BY <1>2, <1>3, PickedKeeps
<1>5. /\ offered' \subseteq Records /\ OffersAudit' /\ offered \subseteq offered'
      /\ r.audit_required => r \in offered'
      /\ \A q \in offered' : q \in offered \/ (q = r /\ r.audit_required)
  BY <1>3, OfferKeeps
<1>6. TypeOK'
  BY <1>3, <1>4, <1>5 DEF BufferInv, TypeOK
<1>7. WithinLimits'
  <2>1. SizeOf(records) <= MaxBytes /\ SizeOf(records) \in Nat
    BY DEF BufferInv, WithinLimits, TypeOK
  <2> QED  BY <1>3, <1>4, <2>1, MaxBytesAssumption DEF WithinLimits
<1>8. NoSilentAuditLoss'
  <2> SUFFICES ASSUME NEW q \in offered'
               PROVE  Buffered(q)' \/ pending' = q \/ audit_saturated'
    BY DEF NoSilentAuditLoss
  <2>1. CASE q \in offered
    <3>1. q # None
      BY <2>1, NoneAssumption DEF BufferInv, TypeOK
    <3>2. Buffered(q) \/ audit_saturated
      BY <1>3, <2>1, <3>1 DEF BufferInv, NoSilentAuditLoss
    <3> QED  BY <1>3, <1>4, <2>1, <3>2
  <2>2. CASE q = r
    BY <1>3, <2>2
  <2> QED  BY <1>5, <2>1, <2>2
<1>9. PendingKept'
  BY <1>3, <1>5 DEF PendingKept
<1> QED  BY <1>3, <1>4, <1>5, <1>6, <1>7, <1>8, <1>9 DEF BufferInv, BufferStep

\* An eviction takes a record that no audit needs, and its size off the count.
LEMMA EvictKeeps ==
    ASSUME BufferInv, Append_Evict
    PROVE  BufferInv' /\ BufferStep
<1>1. records \in Seq(Records) /\ bytes \in Nat /\ bytes = SizeOf(records)
  BY DEF BufferInv, TypeOK, WithinLimits
<1>2. PICK i \in DropCandidates : /\ records' = Without(records, i)
                                  /\ bytes' = bytes - records[i].size
  BY DEF Append_Evict
<1>3. i \in 1..Len(records) /\ ~records[i].audit_required
  BY <1>1, CandidateIsDroppable
<1>4. PICK S : S = (1..Len(records)) \ {i}
  OBVIOUS
<1>5. S \in SUBSET (1..Len(records)) /\ Audits(records) \subseteq S
  BY <1>3, <1>4 DEF Audits
<1>6. records' = Picked(records, S)
  BY <1>2, <1>4 DEF Without
<1>7. UNCHANGED <<audit_saturated, pending, answer, offered>>
  BY DEF Append_Evict
<1>8. /\ records' \in Seq(Records) /\ Len(records') <= MaxRecords /\ RecordsFit'
      /\ SizeOf(records') \in Nat /\ SizeOf(records') <= SizeOf(records)
      /\ \A q \in offered : Buffered(q) => Buffered(q)'
      /\ AuditsKept
  BY <1>5, <1>6, PickedKeeps
<1>9. bytes' = SizeOf(records')
  <2>1. PICK N \in Nat : N = Len(records)
    BY <1>1, LenProperties
  <2>2. records[i] \in Records
    BY <1>1, <1>3, ElementOfSeq
  <2>3. records[i].size \in Nat /\ records[i].size <= MaxBytes
    BY <1>3, <2>2, RecordsAssumption DEF BufferInv, RecordsFit, TelemetryRecord
  <2>4. Cardinality(Units(records, 1..N)) = Cardinality(Units(records, S)) + records[i].size
    BY <1>3, <1>4, <2>1, <2>3, SizeWithoutOne
  <2>5. SizeOf(records') = Cardinality(Units(records, S))
    BY <1>1, <1>5, <1>6, PickedSize
  <2>6. bytes = SizeOf(records') + records[i].size
    BY <1>1, <2>1, <2>4, <2>5, SizeIsUnits
  <2> QED  BY <1>2, <1>8, <2>3, <2>6
<1>10. WithinLimits'
  BY <1>1, <1>8, <1>9, MaxBytesAssumption DEF BufferInv, WithinLimits
<1>11. TypeOK'
  BY <1>7, <1>8, <1>9 DEF BufferInv, TypeOK
<1>12. NoSilentAuditLoss' /\ PendingKept' /\ OffersAudit'
  BY <1>7, <1>8 DEF BufferInv, NoSilentAuditLoss, PendingKept, OffersAudit
<1> QED  BY <1>7, <1>8, <1>10, <1>11, <1>12 DEF BufferInv, BufferStep

\* No room beside the audit records: the loss of an audit record is reported.
LEMMA NoRoomKeeps ==
    ASSUME BufferInv, Append_NoRoom
    PROVE  BufferInv' /\ BufferStep
<1>1. /\ pending # None /\ ~Fits /\ DropCandidates = {}
      /\ audit_saturated' = (audit_saturated \/ pending.audit_required)
      /\ answer' = IF pending.audit_required THEN "SATURATED" ELSE "DROPPED"
      /\ pending' = None
      /\ records' = records /\ bytes' = bytes /\ offered' = offered
  BY DEF Append_NoRoom
<1>2. PICK r \in Records : r = pending
  BY <1>1 DEF BufferInv, TypeOK
<1>3. records \in Seq(Records) /\ r.size \in Nat /\ r.audit_required \in BOOLEAN
  BY RecordsAssumption DEF BufferInv, TypeOK, TelemetryRecord
<1>4. AuditRecords' = AuditRecords /\ AuditsKept
  BY <1>1, <1>3, UntouchedKeeps
<1>5. AuditRecords = records
  BY <1>1, <1>3, NoneDroppable
<1>6. Len(AuditRecords) + 1 > MaxRecords \/ SizeOf(AuditRecords) + r.size > MaxBytes
  <2>1. /\ Len(records) \in Nat /\ bytes = SizeOf(records) /\ bytes \in Nat
    BY <1>3, LenProperties DEF BufferInv, WithinLimits, TypeOK
  <2>2. ~(Len(records) + 1 <= MaxRecords) \/ ~(bytes + r.size <= MaxBytes)
    BY <1>1, <1>2 DEF Fits
  <2> QED
    BY <1>3, <1>5, <2>1, <2>2, MaxRecordsAssumption, MaxBytesAssumption
<1>7. ~audit_saturated /\ audit_saturated' => AuditRefused
  BY <1>1, <1>2, <1>6 DEF AuditRefused, NoRoomBesideAudits
<1>8. TypeOK'
  <2>1. audit_saturated' \in BOOLEAN
    BY <1>1, <1>2, <1>3 DEF BufferInv, TypeOK
  <2> QED  BY <1>1, <2>1 DEF BufferInv, TypeOK
<1>9. NoSilentAuditLoss'
  <2> SUFFICES ASSUME NEW q \in offered
               PROVE  Buffered(q)' \/ audit_saturated'
    BY <1>1 DEF NoSilentAuditLoss
  <2>1. CASE Buffered(q)
    BY <1>1, <2>1 DEF Buffered
  <2>2. CASE pending = q
    BY <1>1, <2>2 DEF BufferInv, OffersAudit
  <2>3. CASE audit_saturated
    BY <1>1, <2>3
  <2> QED  BY <2>1, <2>2, <2>3 DEF BufferInv, NoSilentAuditLoss
<1>10. PendingKept' /\ OffersAudit' /\ RecordsFit' /\ WithinLimits'
  BY <1>1 DEF BufferInv, PendingKept, OffersAudit, RecordsFit, WithinLimits
<1> QED  BY <1>1, <1>4, <1>7, <1>8, <1>9, <1>10 DEF BufferInv, BufferStep

\* The record fits and is stored.
LEMMA StoreKeeps ==
    ASSUME BufferInv, Append_Store
    PROVE  BufferInv' /\ BufferStep
<1>1. /\ pending # None /\ Fits
      /\ records' = Append(records, pending)
      /\ bytes' = bytes + pending.size
      /\ answer' = "BUFFERED" /\ pending' = None
      /\ audit_saturated' = audit_saturated /\ offered' = offered
  BY DEF Append_Store
<1>2. PICK r \in Records : r = pending
  BY <1>1 DEF BufferInv, TypeOK
<1>3. /\ records \in Seq(Records) /\ r.size \in Nat /\ r.size <= MaxBytes
      /\ bytes \in Nat /\ bytes = SizeOf(records)
  BY <1>1, <1>2, RecordsAssumption
  DEF BufferInv, TypeOK, TelemetryRecord, PendingKept, WithinLimits
<1>4. PICK N \in Nat : N = Len(records)
  BY <1>3, LenProperties
<1>5. /\ records' \in Seq(Records) /\ Len(records') = N + 1 /\ records'[N + 1] = r
      /\ \A i \in 1..N : records'[i] = records[i]
  BY <1>1, <1>2, <1>3, <1>4, AppendProperties
<1>6. AuditsKept
  BY <1>1, <1>2, <1>3, StoredKeeps
<1>7. WithinLimits'
  <2>1. N + 1 <= MaxRecords /\ bytes + r.size <= MaxBytes
    BY <1>1, <1>2, <1>4 DEF Fits
  <2>2. SizeOf(records') = SizeOf(records) + r.size
    BY <1>1, <1>2, <1>3, AppendedSize
  <2> QED  BY <1>1, <1>2, <1>3, <1>5, <2>1, <2>2 DEF WithinLimits
<1>8. TypeOK'
  BY <1>1, <1>2, <1>3, <1>5 DEF BufferInv, TypeOK
<1>9. RecordsFit'
  <2> SUFFICES ASSUME NEW i \in 1..(N + 1)
               PROVE  records'[i].size <= MaxBytes
    BY <1>5 DEF RecordsFit
  <2>1. i \in 1..N \/ i = N + 1
    OBVIOUS
  <2> QED  BY <1>3, <1>4, <1>5, <2>1 DEF BufferInv, RecordsFit
<1>10. NoSilentAuditLoss'
  <2> SUFFICES ASSUME NEW q \in offered
               PROVE  Buffered(q)' \/ audit_saturated'
    BY <1>1 DEF NoSilentAuditLoss
  <2>1. CASE Buffered(q)
    BY <1>4, <1>5, <2>1 DEF Buffered
  <2>2. CASE pending = q
    <3>1. N + 1 \in 1..Len(records') /\ records'[N + 1] = q
      BY <1>2, <1>5, <2>2
    <3> QED  BY <3>1 DEF Buffered
  <2>3. CASE audit_saturated
    BY <1>1, <2>3
  <2> QED  BY <2>1, <2>2, <2>3 DEF BufferInv, NoSilentAuditLoss
<1>11. PendingKept' /\ OffersAudit'
  BY <1>1 DEF BufferInv, PendingKept, OffersAudit
<1> QED  BY <1>1, <1>6, <1>7, <1>8, <1>9, <1>10, <1>11 DEF BufferInv, BufferStep

\* Every step of the buffer keeps the invariant and the audit records.
LEMMA BufferKeeps ==
    ASSUME BufferInv, [Next]_vars
    PROVE  BufferInv' /\ BufferStep
<1>1. CASE UNCHANGED vars
  <2>1. /\ records' = records /\ bytes' = bytes /\ audit_saturated' = audit_saturated
        /\ pending' = pending /\ answer' = answer /\ offered' = offered
    BY <1>1 DEF vars
  <2>2. records \in Seq(Records) /\ records' \in Seq(Records)
    BY <2>1 DEF BufferInv, TypeOK
  <2>3. AuditsKept
    BY <2>1, <2>2, UntouchedKeeps
  <2> QED
    BY <2>1, <2>3 DEF BufferInv, BufferStep, TypeOK, OffersAudit, PendingKept,
       RecordsFit, WithinLimits, NoSilentAuditLoss, Buffered
<1> QED
  BY <1>1, OversizeKeeps, ExpireKeeps, EvictKeeps, NoRoomKeeps, StoreKeeps DEF Next, Finish

\* The process starts with an empty buffer.
LEMMA BufferStarts ==
    ASSUME Init
    PROVE  BufferInv
<1>1. /\ records = <<>> /\ bytes = 0 /\ audit_saturated = FALSE /\ pending = None
      /\ answer = "NONE" /\ offered = {}
  BY DEF Init
<1>2. records \in Seq(Records) /\ Len(records) = 0
  BY <1>1
<1>3. SizeOf(records) = 0
  <2>1. Units(records, 1..Len(records)) = {}
    BY <1>2 DEF Units
  <2> QED  BY <2>1, SizeIsUnits, FS_EmptySet
<1>4. TypeOK
  BY <1>1, <1>2 DEF TypeOK
<1>5. WithinLimits
  BY <1>1, <1>2, <1>3, MaxRecordsAssumption, MaxBytesAssumption DEF WithinLimits
<1>6. OffersAudit /\ PendingKept /\ NoSilentAuditLoss
  BY <1>1 DEF OffersAudit, PendingKept, NoSilentAuditLoss
<1>7. RecordsFit
  BY <1>2 DEF RecordsFit
<1> QED
  BY <1>4, <1>5, <1>6, <1>7 DEF BufferInv

\* A sequence is the front of one that begins with its elements.
LEMMA FrontOf ==
    ASSUME NEW R, NEW s \in Seq(R), NEW t \in Seq(R), Len(s) <= Len(t),
           \A n \in 1..Len(s) : t[n] = s[n]
    PROVE  SubSeq(t, 1, Len(s)) = s
<1>1. PICK N \in Nat : N = Len(s)
  BY LenProperties
<1>2. PICK front : front = SubSeq(t, 1, N)
  OBVIOUS
<1>3. \A i \in 1..N : t[i] \in R
  BY <1>1, ElementOfSeq
<1>4. front \in Seq(R) /\ Len(front) = N /\ \A i \in 1..N : front[i] = t[i]
  BY <1>2, <1>3, SubSeqProperties
<1>5. front = s
  BY <1>1, <1>4, SeqEqual
<1> QED  BY <1>1, <1>2, <1>5

\* What a step leaves of the audit records is what AuditKept demands.
LEMMA StepKeepsAudit ==
    ASSUME BufferInv, BufferInv', BufferStep
    PROVE  /\ Len(AuditRecords') >= Len(AuditRecords)
           /\ SubSeq(AuditRecords', 1, Len(AuditRecords)) = AuditRecords
           /\ audit_saturated => audit_saturated'
<1>1. records \in Seq(Records) /\ records' \in Seq(Records)
  BY DEF BufferInv, TypeOK
<1>2. AuditRecords \in Seq(Records) /\ Len(AuditRecords) \in Nat
  BY <1>1, AuditRecordsType
<1>3. AuditRecords' \in Seq(Records) /\ Len(AuditRecords') \in Nat
  <2>1. Audits(records') \in SUBSET (1..Len(records'))
    BY DEF Audits
  <2>2. AuditRecords' \in Seq(Records)
    BY <1>1, <2>1, PickedItems DEF AuditRecords
  <2> QED  BY <2>2, LenProperties
<1> QED  BY <1>2, <1>3, FrontOf DEF BufferStep, AuditsKept

-----------------------------------------------------------------------------
(***************************************************************************)
(* The theorems, for a buffer that is used directly.                       *)
(***************************************************************************)
\* The limits of the buffer hold in every turn of the eviction loop, and no audit
\* record is lost silently.
THEOREM BufferInvariant == Spec => []BufferInv
<1>1. Init => BufferInv
  BY BufferStarts
<1>2. BufferInv /\ [Next]_vars => BufferInv'
  BY BufferKeeps
<1> QED  BY <1>1, <1>2, PTL DEF Spec

\* Audit records stay in the buffer, in their order; saturation is for good.
THEOREM AuditRecordsStay == Spec => AuditKept
<1>1. BufferInv /\ [Next]_vars =>
         [/\ Len(AuditRecords') >= Len(AuditRecords)
          /\ SubSeq(AuditRecords', 1, Len(AuditRecords)) = AuditRecords
          /\ audit_saturated => audit_saturated']_vars
  BY BufferKeeps, StepKeepsAudit
<1> QED  BY <1>1, BufferInvariant, PTL DEF Spec, AuditKept
=============================================================================
