-------------------------------- MODULE Lru --------------------------------
(***************************************************************************)
(* OrderedDict as DecisionCache and TokenIdentityTracker use it: items with*)
(* a key and a value, least recently used first.                           *)
(***************************************************************************)
EXTENDS Integers, Sequences

Holds(items, key) == \E i \in 1..Len(items) : items[i].key = key

Position(items, key) == CHOOSE i \in 1..Len(items) : items[i].key = key

DropAt(items, p) == SubSeq(items, 1, p - 1) \o SubSeq(items, p + 1, Len(items))

\* pop(key, None); no two items have the same key.
Others(items, key) ==
    IF Holds(items, key) THEN DropAt(items, Position(items, key)) ELSE items

Lookup(items, key, absent) ==
    IF Holds(items, key) THEN items[Position(items, key)].value ELSE absent

Youngest(items, bound) ==
    IF Len(items) > bound THEN SubSeq(items, Len(items) - bound + 1, Len(items)) ELSE items

\* Faulty variants: one entry too many is kept; a key that is put again stays
\* where it was.
PutBounded_OneMore(items, key, value, bound) ==
    Youngest(Append(Others(items, key), [key |-> key, value |-> value]), bound + 1)

PutBounded_InPlace(items, key, value, bound) ==
    IF Holds(items, key)
    THEN [i \in 1..Len(items) |->
             IF items[i].key = key THEN [key |-> key, value |-> value] ELSE items[i]]
    ELSE Youngest(Append(items, [key |-> key, value |-> value]), bound)

\* Assign, move_to_end, then popitem(last=False) while over the bound.
PutBounded(items, key, value, bound) ==
    Youngest(Append(Others(items, key), [key |-> key, value |-> value]), bound)
=============================================================================
