----------------------------- MODULE LruProofs -----------------------------
(***************************************************************************)
(* What assigning, forgetting and bounding do to an OrderedDict, for every *)
(* sequence of items with one item a key.                                  *)
(***************************************************************************)
EXTENDS Lru, SequenceTheorems, TLAPS

\* No two items have the same key.
Unique(items) ==
    \A i, j \in 1..Len(items) : items[i].key = items[j].key => i = j

\* After place j of rest there is nothing but what was after place i of items.
Behind(rest, j, items, i) ==
    \A k \in (j + 1)..Len(rest) : \E l \in (i + 1)..Len(items) : rest[k] = items[l]

\* rest is what is left of items without the first `gone`.
Without(rest, items, gone) ==
    /\ gone + Len(rest) = Len(items)
    /\ \A i \in 1..Len(rest) : gone + i \in 1..Len(items) /\ rest[i] = items[gone + i]

\* A key that is held is held at its position.
LEMMA PositionOf ==
    ASSUME NEW items, NEW key, Holds(items, key)
    PROVE  /\ Position(items, key) \in 1..Len(items)
           /\ items[Position(items, key)].key = key
  BY DEF Holds, Position

\* Removing the item at p leaves the others, in their order.
LEMMA Removed ==
    ASSUME NEW S, NEW items \in Seq(S), NEW p \in 1..Len(items)
    PROVE  /\ DropAt(items, p) \in Seq(S)
           /\ Len(DropAt(items, p)) = Len(items) - 1
           /\ \A i \in 1..(Len(items) - 1) :
                 DropAt(items, p)[i] = items[IF i < p THEN i ELSE i + 1]
<1> DEFINE front == SubSeq(items, 1, p - 1)
           back == SubSeq(items, p + 1, Len(items))
           rest == front \o back
<1>1. Len(items) \in Nat /\ p \in Int /\ p >= 1 /\ p <= Len(items)
  BY LenProperties
<1>2. \A i \in 1..Len(items) : items[i] \in S
  BY ElementOfSeq
<1>3. /\ front \in Seq(S) /\ Len(front) = p - 1
      /\ \A i \in 1..(p - 1) : front[i] = items[i]
  BY <1>1, <1>2, SubSeqProperties
<1>4. /\ back \in Seq(S) /\ Len(back) = Len(items) - p
      /\ \A i \in 1..(Len(items) - p) : back[i] = items[p + i]
  BY <1>1, <1>2, SubSeqProperties
<1> HIDE DEF front, back
<1>5. /\ rest \in Seq(S) /\ Len(rest) = Len(front) + Len(back)
      /\ \A i \in 1..(Len(front) + Len(back)) :
            rest[i] = IF i <= Len(front) THEN front[i] ELSE back[i - Len(front)]
  BY <1>3, <1>4, ConcatProperties
<1> HIDE DEF rest
<1>6. Len(front) + Len(back) = Len(items) - 1
  BY <1>1, <1>3, <1>4
<1>7. ASSUME NEW i \in 1..(Len(items) - 1)
      PROVE  rest[i] = items[IF i < p THEN i ELSE i + 1]
  <2>0. rest[i] = IF i <= p - 1 THEN front[i] ELSE back[i - (p - 1)]
    BY <1>3, <1>5, <1>6
  <2>1. CASE i < p
    BY <1>1, <1>3, <2>0, <2>1
  <2>2. CASE ~(i < p)
    <3>1. i - (p - 1) \in 1..(Len(items) - p) /\ p + (i - (p - 1)) = i + 1
      BY <1>1, <2>2
    <3>2. rest[i] = back[i - (p - 1)]
      BY <1>1, <2>0, <2>2
    <3> QED  BY <1>4, <2>2, <3>1, <3>2
  <2> QED  BY <2>1, <2>2
<1>8. DropAt(items, p) = rest
  BY DEF DropAt, rest, front, back
<1> QED  BY <1>5, <1>6, <1>7, <1>8

\* pop(key, None): the items but the one with the key.
LEMMA OthersItems ==
    ASSUME NEW S, NEW items \in Seq(S), Unique(items), NEW key
    PROVE  /\ Others(items, key) \in Seq(S)
           /\ Len(Others(items, key)) <= Len(items)
           /\ Unique(Others(items, key))
           /\ \A i \in 1..Len(Others(items, key)) :
                 /\ Others(items, key)[i].key # key
                 /\ \E j \in 1..Len(items) : Others(items, key)[i] = items[j]
<1>1. Len(items) \in Nat
  BY LenProperties
<1>2. CASE ~Holds(items, key)
  BY <1>1, <1>2 DEF Others, Holds
<1>3. CASE Holds(items, key)
  <2>1. PICK p \in 1..Len(items) : p = Position(items, key) /\ items[p].key = key
    BY <1>3, PositionOf
  <2>2. PICK rest \in Seq(S) : rest = Others(items, key)
    BY <1>3, <2>1, Removed DEF Others
  <2>3. /\ Len(rest) = Len(items) - 1
        /\ \A i \in 1..(Len(items) - 1) : rest[i] = items[IF i < p THEN i ELSE i + 1]
    BY <1>3, <2>1, <2>2, Removed DEF Others
  <2>4. ASSUME NEW i \in 1..Len(rest)
        PROVE  rest[i].key # key /\ \E j \in 1..Len(items) : rest[i] = items[j]
    <3>1. PICK j \in 1..Len(items) : j # p /\ rest[i] = items[j]
      BY <1>1, <2>3
    <3> QED  BY <2>1, <3>1 DEF Unique
  <2>5. Unique(rest)
    <3> SUFFICES ASSUME NEW i \in 1..Len(rest), NEW j \in 1..Len(rest),
                        rest[i].key = rest[j].key
                 PROVE  i = j
      BY DEF Unique
    <3> DEFINE at(n) == IF n < p THEN n ELSE n + 1
    <3>1. at(i) \in 1..Len(items) /\ at(j) \in 1..Len(items)
      BY <1>1, <2>3
    <3>2. rest[i] = items[at(i)] /\ rest[j] = items[at(j)]
      BY <2>3
    <3>3. at(i) = at(j)
      BY <3>1, <3>2 DEF Unique
    <3> QED  BY <1>1, <2>3, <3>3
  <2>6. Len(rest) <= Len(items)
    BY <1>1, <2>3
  <2> QED  BY <2>2, <2>4, <2>5, <2>6
<1> QED  BY <1>2, <1>3

\* popitem(last=False) while over the bound: the oldest items go.
LEMMA YoungestAt ==
    ASSUME NEW S, NEW items \in Seq(S), NEW bound \in Nat \ {0}, Len(items) > bound
    PROVE  /\ Youngest(items, bound) \in Seq(S)
           /\ Len(Youngest(items, bound)) = bound
           /\ \E gone \in Nat : Without(Youngest(items, bound), items, gone)
<1>1. Len(items) \in Nat
  BY LenProperties
<1>2. PICK gone \in Nat : bound + gone = Len(items) /\ gone >= 1
  BY <1>1
<1>3. PICK rest : rest = SubSeq(items, gone + 1, Len(items))
  OBVIOUS
<1>4. Youngest(items, bound) = rest
  BY <1>1, <1>2, <1>3 DEF Youngest
<1>5. \A i \in 1..Len(items) : items[i] \in S
  BY ElementOfSeq
<1>6. /\ rest \in Seq(S)
      /\ Len(rest) = IF gone + 1 <= Len(items) THEN Len(items) - (gone + 1) + 1 ELSE 0
      /\ \A i \in 1..(Len(items) - (gone + 1) + 1) : rest[i] = items[gone + 1 + i - 1]
  BY <1>1, <1>2, <1>3, <1>5, SubSeqProperties
<1>7. gone + 1 <= Len(items) /\ Len(items) - (gone + 1) + 1 = bound
  <2>1. PICK length \in Nat : length = Len(items)
    BY <1>1
  <2>2. length = bound + gone
    BY <1>2, <2>1
  <2>3. gone + 1 <= length /\ length - (gone + 1) + 1 = bound
    BY <2>2
  <2> QED  BY <2>1, <2>3
<1>8. Len(rest) = bound
  BY <1>6, <1>7
<1>9. ASSUME NEW i \in 1..bound
      PROVE  gone + i \in 1..Len(items) /\ rest[i] = items[gone + i]
  <2>1. gone + i \in 1..Len(items) /\ gone + 1 + i - 1 = gone + i
    BY <1>1, <1>2
  <2> QED  BY <1>6, <1>7, <2>1
<1>10. Without(rest, items, gone)
  BY <1>1, <1>2, <1>8, <1>9 DEF Without
<1> QED  BY <1>4, <1>6, <1>8, <1>10

\* What is left is what was there, one item a key.
LEMMA YoungestItems ==
    ASSUME NEW S, NEW items \in Seq(S), Unique(items), NEW bound \in Nat \ {0}
    PROVE  /\ Youngest(items, bound) \in Seq(S)
           /\ Len(Youngest(items, bound)) <= bound
           /\ Unique(Youngest(items, bound))
           /\ \A i \in 1..Len(Youngest(items, bound)) :
                 \E j \in 1..Len(items) : Youngest(items, bound)[i] = items[j]
<1>1. Len(items) \in Nat
  BY LenProperties
<1>2. CASE ~(Len(items) > bound)
  BY <1>1, <1>2 DEF Youngest
<1>3. CASE Len(items) > bound
  <2>1. PICK rest \in Seq(S) : rest = Youngest(items, bound)
    BY <1>3, YoungestAt
  <2>2. Len(rest) = bound /\ \E gone \in Nat : Without(rest, items, gone)
    BY <1>3, <2>1, YoungestAt
  <2>3. PICK gone \in Nat : Without(rest, items, gone)
    BY <2>2
  <2>4. \A i \in 1..bound : gone + i \in 1..Len(items) /\ rest[i] = items[gone + i]
    BY <2>2, <2>3 DEF Without
  <2>5. Unique(rest)
    <3> SUFFICES ASSUME NEW i \in 1..bound, NEW j \in 1..bound, rest[i].key = rest[j].key
                 PROVE  i = j
      BY <2>2 DEF Unique
    <3>1. gone + i = gone + j
      BY <2>4 DEF Unique
    <3> QED  BY <3>1
  <2> QED  BY <2>1, <2>2, <2>4, <2>5
<1> QED  BY <1>2, <1>3

\* An item stays, with none but younger ones behind it, or enough younger ones
\* are there to fill the bound without it.
LEMMA YoungestOrder ==
    ASSUME NEW S, NEW items \in Seq(S), NEW bound \in Nat \ {0}, NEW i \in 1..Len(items)
    PROVE  LET rest == Youngest(items, bound) IN
           \/ \E j \in 1..Len(rest) : rest[j] = items[i] /\ Behind(rest, j, items, i)
           \/ Len(rest) = bound /\ Behind(rest, 0, items, i)
<1>1. Len(items) \in Nat
  BY LenProperties
<1>2. CASE ~(Len(items) > bound)
  <2>1. Youngest(items, bound) = items
    BY <1>1, <1>2 DEF Youngest
  <2> QED  BY <1>1, <2>1 DEF Behind
<1>3. CASE Len(items) > bound
  <2>1. PICK rest \in Seq(S) : rest = Youngest(items, bound)
    BY <1>3, YoungestAt
  <2>2. Len(rest) = bound /\ \E gone \in Nat : Without(rest, items, gone)
    BY <1>3, <2>1, YoungestAt
  <2>3. PICK gone \in Nat : Without(rest, items, gone)
    BY <2>2
  <2>4. /\ Len(rest) = bound /\ bound + gone = Len(items)
        /\ \A k \in 1..bound : gone + k \in 1..Len(items) /\ rest[k] = items[gone + k]
    BY <2>2, <2>3 DEF Without
  <2>5. CASE i <= gone
    <3>1. ASSUME NEW k \in 1..Len(rest)
          PROVE  \E l \in (i + 1)..Len(items) : rest[k] = items[l]
      BY <1>1, <2>4, <2>5
    <3> QED  BY <2>1, <2>4, <3>1 DEF Behind
  <2>6. CASE ~(i <= gone)
    <3>1. PICK j \in 1..bound : gone + j = i
      BY <1>1, <2>4, <2>6
    <3>2. rest[j] = items[i]
      BY <2>4, <3>1
    <3>3. ASSUME NEW k \in (j + 1)..Len(rest)
          PROVE  \E l \in (i + 1)..Len(items) : rest[k] = items[l]
      <4>1. k \in 1..bound /\ gone + k \in (i + 1)..Len(items)
        BY <1>1, <2>4, <3>1
      <4> QED  BY <2>4, <4>1
    <3> QED  BY <2>1, <2>4, <3>2, <3>3 DEF Behind
  <2> QED  BY <2>5, <2>6
<1> QED  BY <1>2, <1>3

\* pop(key, None) keeps the order of the others.
LEMMA OthersOrder ==
    ASSUME NEW S, NEW items \in Seq(S), Unique(items), NEW key,
           NEW i \in 1..Len(items), items[i].key # key
    PROVE  LET rest == Others(items, key) IN
           \E j \in 1..Len(rest) : rest[j] = items[i] /\ Behind(rest, j, items, i)
<1>1. Len(items) \in Nat
  BY LenProperties
<1>2. CASE ~Holds(items, key)
  BY <1>1, <1>2 DEF Others, Behind
<1>3. CASE Holds(items, key)
  <2>1. PICK p \in 1..Len(items) : p = Position(items, key) /\ items[p].key = key
    BY <1>3, PositionOf
  <2>2. PICK rest \in Seq(S) : rest = Others(items, key)
    BY <1>3, <2>1, Removed DEF Others
  <2>3. /\ Len(rest) = Len(items) - 1
        /\ \A k \in 1..(Len(items) - 1) : rest[k] = items[IF k < p THEN k ELSE k + 1]
    BY <1>3, <2>1, <2>2, Removed DEF Others
  <2>4. i # p
    BY <2>1
  <2>5. PICK j \in 1..(Len(items) - 1) : i = IF j < p THEN j ELSE j + 1
    <3>1. CASE i < p
      BY <1>1, <3>1
    <3>2. CASE i > p
      <4>1. i - 1 \in 1..(Len(items) - 1) /\ ~(i - 1 < p) /\ i - 1 + 1 = i
        BY <1>1, <3>2
      <4> QED  BY <4>1
    <3> QED  BY <1>1, <2>4, <3>1, <3>2
  <2>6. j \in 1..Len(rest) /\ rest[j] = items[i]
    BY <2>3, <2>5
  <2>7. ASSUME NEW k \in (j + 1)..Len(rest)
        PROVE  \E l \in (i + 1)..Len(items) : rest[k] = items[l]
    <3>1. k \in 1..(Len(items) - 1)
      BY <1>1, <2>3, <2>5
    <3>2. (IF k < p THEN k ELSE k + 1) \in (i + 1)..Len(items)
      BY <1>1, <2>5, <3>1
    <3> QED  BY <2>3, <3>1, <3>2
  <2> QED  BY <2>2, <2>6, <2>7 DEF Behind
<1> QED  BY <1>2, <1>3

\* Assigning keeps one item a key and the bound, and brings in nothing but the
\* assignment.
LEMMA PutItems ==
    ASSUME NEW S, NEW items \in Seq(S), Unique(items), NEW key, NEW value,
           [key |-> key, value |-> value] \in S, NEW bound \in Nat \ {0}
    PROVE  LET put == PutBounded(items, key, value, bound) IN
           /\ put \in Seq(S)
           /\ Len(put) <= bound
           /\ Unique(put)
           /\ \A i \in 1..Len(put) :
                 \/ put[i] = [key |-> key, value |-> value]
                 \/ \E j \in 1..Len(items) : put[i] = items[j]
<1> DEFINE others == Others(items, key)
           item == [key |-> key, value |-> value]
           longer == Append(others, item)
           put == PutBounded(items, key, value, bound)
<1>1. /\ others \in Seq(S) /\ Unique(others)
      /\ \A i \in 1..Len(others) :
            others[i].key # key /\ \E j \in 1..Len(items) : others[i] = items[j]
  BY OthersItems
<1>2. item.key = key /\ item \in S
  OBVIOUS
<1> HIDE DEF others, item
<1>3. /\ longer \in Seq(S) /\ Len(longer) = Len(others) + 1
      /\ \A i \in 1..Len(others) : longer[i] = others[i]
      /\ longer[Len(others) + 1] = item
      /\ Len(others) \in Nat
  BY <1>1, <1>2, AppendProperties, LenProperties
<1> HIDE DEF longer
<1>4. Unique(longer)
  <2> SUFFICES ASSUME NEW i \in 1..Len(longer), NEW j \in 1..Len(longer),
                      longer[i].key = longer[j].key
               PROVE  i = j
    BY DEF Unique
  <2>1. CASE i = Len(others) + 1 \/ j = Len(others) + 1
    <3>1. \A n \in 1..Len(others) : longer[n].key # key
      BY <1>1, <1>3
    <3>2. longer[Len(others) + 1].key = key
      BY <1>2, <1>3
    <3>3. \A n \in 1..Len(longer) : n \in 1..Len(others) \/ n = Len(others) + 1
      BY <1>3
    <3> QED  BY <2>1, <3>1, <3>2, <3>3
  <2>2. CASE i # Len(others) + 1 /\ j # Len(others) + 1
    <3>1. i \in 1..Len(others) /\ j \in 1..Len(others)
      BY <1>3, <2>2
    <3> QED  BY <1>1, <1>3, <3>1 DEF Unique
  <2> QED  BY <2>1, <2>2
<1>5. put = Youngest(longer, bound)
  BY DEF PutBounded, longer, others, item
<1>6. /\ put \in Seq(S) /\ Len(put) <= bound /\ Unique(put)
      /\ \A i \in 1..Len(put) : \E j \in 1..Len(longer) : put[i] = longer[j]
  BY <1>3, <1>4, <1>5, YoungestItems
<1> HIDE DEF put
<1>7. ASSUME NEW i \in 1..Len(put)
      PROVE  put[i] = item \/ \E j \in 1..Len(items) : put[i] = items[j]
  <2>1. PICK j \in 1..Len(longer) : put[i] = longer[j]
    BY <1>6
  <2>2. CASE j = Len(others) + 1
    BY <1>3, <2>1, <2>2
  <2>3. CASE j \in 1..Len(others)
    BY <1>1, <1>3, <2>1, <2>3
  <2> QED  BY <1>3, <2>2, <2>3
<1> QED  BY <1>6, <1>7 DEF put, item

\* The item assigned is the youngest.  Another one stays, with none but the
\* assignment and younger ones behind it, or enough of these are there to fill
\* the bound without it.
LEMMA PutOrder ==
    ASSUME NEW S, NEW items \in Seq(S), Unique(items), NEW key, NEW value,
           [key |-> key, value |-> value] \in S, NEW bound \in Nat \ {0}
    PROVE  LET put == PutBounded(items, key, value, bound)
               item == [key |-> key, value |-> value]
           IN  /\ Len(put) >= 1 /\ put[Len(put)] = item
               /\ \A i \in 1..Len(items) : items[i].key # key =>
                     \/ \E j \in 1..Len(put) :
                           /\ put[j] = items[i]
                           /\ Behind(put, j, Append(items, item), i)
                     \/ Len(put) = bound /\ Behind(put, 0, Append(items, item), i)
<1> DEFINE others == Others(items, key)
           item == [key |-> key, value |-> value]
           longer == Append(others, item)
           all == Append(items, item)
           put == PutBounded(items, key, value, bound)
<1>1. others \in Seq(S) /\ item \in S /\ Len(items) \in Nat
  BY OthersItems, LenProperties
<1>2. \A i \in 1..Len(items) : items[i].key # key =>
         \E j \in 1..Len(others) : others[j] = items[i] /\ Behind(others, j, items, i)
  BY OthersOrder
<1> HIDE DEF others, item
<1>3. /\ longer \in Seq(S) /\ Len(longer) = Len(others) + 1
      /\ \A i \in 1..Len(others) : longer[i] = others[i]
      /\ longer[Len(others) + 1] = item
      /\ Len(others) \in Nat
  BY <1>1, AppendProperties, LenProperties
<1>4. /\ Len(all) = Len(items) + 1
      /\ \A i \in 1..Len(items) : all[i] = items[i]
      /\ all[Len(items) + 1] = item
  BY <1>1, AppendProperties, LenProperties
<1>5. put = Youngest(longer, bound)
  BY DEF PutBounded, others, item
<1> HIDE DEF longer, all, put
<1>6. Len(put) >= 1 /\ put[Len(put)] = item
  <2>1. CASE ~(Len(longer) > bound)
    BY <1>3, <1>5, <2>1 DEF Youngest
  <2>2. CASE Len(longer) > bound
    <3>0. /\ Len(put) = bound /\ \E gone \in Nat : Without(put, longer, gone)
      BY <1>3, <1>5, <2>2, YoungestAt
    <3>1. PICK gone \in Nat : Without(put, longer, gone)
      BY <3>0
    <3>2. bound \in 1..bound /\ gone + bound = Len(others) + 1
      BY <1>3, <3>0, <3>1 DEF Without
    <3> QED  BY <1>3, <3>0, <3>1, <3>2 DEF Without
  <2> QED  BY <2>1, <2>2
<1>7. ASSUME NEW i \in 1..Len(items), items[i].key # key
      PROVE  \/ \E j \in 1..Len(put) : put[j] = items[i] /\ Behind(put, j, all, i)
             \/ Len(put) = bound /\ Behind(put, 0, all, i)
  <2>1. PICK n \in 1..Len(others) : others[n] = items[i] /\ Behind(others, n, items, i)
    BY <1>2, <1>7
  <2>2. n \in 1..Len(longer) /\ longer[n] = items[i]
    BY <1>3, <2>1
  <2>3. ASSUME NEW k \in (n + 1)..Len(longer)
        PROVE  \E l \in (i + 1)..Len(all) : longer[k] = all[l]
    <3>1. CASE k = Len(others) + 1
      <4>1. Len(items) + 1 \in (i + 1)..Len(all)
        BY <1>1, <1>4
      <4> QED  BY <1>3, <1>4, <3>1, <4>1
    <3>2. CASE k # Len(others) + 1
      <4>1. k \in (n + 1)..Len(others) /\ k \in 1..Len(others)
        BY <1>3, <3>2
      <4>2. PICK l \in (i + 1)..Len(items) : others[k] = items[l]
        BY <2>1, <4>1 DEF Behind
      <4>3. l \in (i + 1)..Len(all) /\ l \in 1..Len(items)
        BY <1>1, <1>4
      <4> QED  BY <1>3, <1>4, <4>1, <4>2, <4>3
    <3> QED  BY <3>1, <3>2
  <2>4. ASSUME NEW j \in Nat, Behind(put, j, longer, n)
        PROVE  Behind(put, j, all, i)
    BY <2>3, <2>4 DEF Behind
  <2>5. \/ \E j \in 1..Len(put) : put[j] = longer[n] /\ Behind(put, j, longer, n)
        \/ Len(put) = bound /\ Behind(put, 0, longer, n)
    BY <1>3, <1>5, <2>2, YoungestOrder
  <2> QED  BY <2>2, <2>4, <2>5
<1> QED  BY <1>6, <1>7 DEF put, item, all
=============================================================================
