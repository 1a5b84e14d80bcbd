----------------------------- MODULE Partition ------------------------------
(***************************************************************************)
(* A partition of the time series cache (tscache/partition.go): a slice of *)
(* items sorted by timestamp and an index from timestamps to positions.    *)
(* Each method holds the partition's lock from start to end, so each is an *)
(* operator on the value of the partition.  Positions start at 1.          *)
(***************************************************************************)
EXTENDS Integers, SequencesExt

\* ts is TimeSeriesItem.Timestamp, exp its Expiration (0: never).
Point(t, v, e) == [ts |-> t, val |-> v, exp |-> e]

Alive(item, now) == item.exp = 0 \/ now <= item.exp

newPartition == [Items |-> <<>>, ItemsMap |-> <<>>]

\* sort.Search: the first position whose item is at or after t, or one past
\* the end.  Timestamps are integers: "after t" is "at or after t + 1".
Search(items, t) ==
  CHOOSE i \in 1..(Len(items) + 1) :
    /\ \A j \in 1..(i - 1) : items[j].ts < t
    /\ i <= Len(items) => items[i].ts >= t

\* Mutated form: the positions of the items after the new one stay as they were.
InsertWithoutShift(p, item) ==
  IF item.ts \in DOMAIN p.ItemsMap
  THEN [p EXCEPT !.Items[p.ItemsMap[item.ts]] = item]
  ELSE LET idx == Search(p.Items, item.ts)
       IN [Items |-> InsertAt(p.Items, idx, item),
           ItemsMap |-> [t \in DOMAIN p.ItemsMap \union {item.ts} |->
                           IF t = item.ts THEN idx ELSE p.ItemsMap[t]]]

insert(p, item) ==
  IF item.ts \in DOMAIN p.ItemsMap
  THEN [p EXCEPT !.Items[p.ItemsMap[item.ts]] = item]
  ELSE LET idx == Search(p.Items, item.ts)
           items == InsertAt(p.Items, idx, item)
           moved == {i \in DOMAIN items : i >= idx}
       IN [Items |-> items,
           ItemsMap |-> [t \in DOMAIN p.ItemsMap \union {items[i].ts : i \in moved} |->
                           IF \E i \in moved : items[i].ts = t
                           THEN CHOOSE i \in moved : items[i].ts = t
                           ELSE p.ItemsMap[t]]]

\* The loop that copies the items in kept to a new slice.
Copied(items, kept) ==
  LET upTo[n \in 0..Len(items)] ==
        IF n = 0 THEN <<>>
        ELSE IF items[n] \in kept THEN Append(upTo[n - 1], items[n]) ELSE upTo[n - 1]
  IN upTo[Len(items)]

LiveItems(p, now) == {x \in ToSet(p.Items) : Alive(x, now)}

\* The slice and index that cleanup and DeleteRange rebuild from the items in kept.
Keeping(p, kept) ==
  LET items == Copied(p.Items, kept)
  IN [Items |-> items,
      ItemsMap |-> [t \in {items[i].ts : i \in DOMAIN items} |->
                      CHOOSE i \in DOMAIN items : items[i].ts = t]]

\* partition.cleanup drops the expired items.
pruned(p, now) == Keeping(p, LiveItems(p, now))

\* get: the item at exactly t, as a set with at most one member.
get(p, t, now) ==
  {p.Items[i] : i \in {j \in {p.ItemsMap[x] : x \in DOMAIN p.ItemsMap \intersect {t}} :
                         Alive(p.Items[j], now)}}

\* Mutated form: the distance to the earlier neighbour has the wrong sign.
getNearestEarlier(p, t) ==
  LET n == Len(p.Items)
      idx == Search(p.Items, t)
  IN IF n = 0 THEN {}
     ELSE IF idx = n + 1 THEN {p.Items[n]}
     ELSE IF idx = 1 THEN {p.Items[1]}
     ELSE IF p.Items[idx - 1].ts - t < p.Items[idx].ts - t
          THEN {p.Items[idx - 1]} ELSE {p.Items[idx]}

\* getNearest looks at the neighbours of t; it does not ask for expiry.
getNearest(p, t) ==
  LET n == Len(p.Items)
      idx == Search(p.Items, t)
  IN IF n = 0 THEN {}
     ELSE IF idx = n + 1 THEN {p.Items[n]}
     ELSE IF idx = 1 THEN {p.Items[1]}
     ELSE IF t - p.Items[idx - 1].ts < p.Items[idx].ts - t
          THEN {p.Items[idx - 1]} ELSE {p.Items[idx]}

\* Mutated form: the end of the range is exclusive.
getRangeOpen(p, lo, hi, now) ==
  LET first == Search(p.Items, lo)
      last == Search(p.Items, hi)
  IN Copied(SubSeq(p.Items, first, last - 1), LiveItems(p, now))

getRange(p, lo, hi, now) ==
  LET first == Search(p.Items, lo)
      last == Search(p.Items, hi + 1)
  IN Copied(SubSeq(p.Items, first, last - 1), LiveItems(p, now))

-----------------------------------------------------------------------------
(* What the methods rely on and keep: strictly ascending timestamps, and an *)
(* index that holds exactly them, each at its position (insert, cleanup and *)
(* the copy of their loop in DeleteRange maintain the two by hand).         *)
WellFormed(p) ==
  /\ \A i, j \in DOMAIN p.Items : i < j => p.Items[i].ts < p.Items[j].ts
  /\ DOMAIN p.ItemsMap = {p.Items[i].ts : i \in DOMAIN p.Items}
  /\ \A i \in DOMAIN p.Items : p.ItemsMap[p.Items[i].ts] = i
=============================================================================
