-------------------------- MODULE Iterator_proofs ---------------------------
(***************************************************************************)
(* The iterator over a cache that changes under it: what it skips and what *)
(* it repeats, for any timestamps and any order of calls.  Both follow     *)
(* from where a position can be after a step of the cache: not before the  *)
(* item it was at when nothing was removed, not after when nothing was     *)
(* inserted.                                                               *)
(***************************************************************************)
EXTENDS Iterator, TimeSeries_proofs

\* The items of the partition that starts at s, none when it is not there.
ItemsAt(ps, s) == IF s \in DOMAIN ps THEN ps[s].Items ELSE <<>>

(* The items of a partition, as the sequence and as the sets of the model.  *)
LEMMA ItemsAre ==
  ASSUME NEW ps, AllSound(ps), NEW s \in Starts
  PROVE  LET items == ItemsAt(ps, s) IN
         /\ Len(items) \in Nat
         /\ \A i \in 1..Len(items) : items[i] \in Of(s) /\ items[i].ts \in Int
         /\ \A i, j \in 1..Len(items) : i < j => items[i].ts < items[j].ts
         /\ Points(ps, s) = {items[i] : i \in 1..Len(items)}
         /\ TimesIn(ps, s) = {items[i].ts : i \in 1..Len(items)}
<1> DEFINE items == ItemsAt(ps, s)
<1>1. items \in Seq(Of(s)) /\ \A i, j \in DOMAIN items : i < j => items[i].ts < items[j].ts
  <2>1. CASE s \in DOMAIN ps
    BY <2>1 DEF AllSound, Sound, WellFormed, ItemsAt
  <2>2. CASE s \notin DOMAIN ps
    BY <2>2 DEF ItemsAt
  <2> QED
    BY <2>1, <2>2
<1>2. Points(ps, s) = ToSet(items)
  BY DEF Points, ToSet, ItemsAt
<1> HIDE DEF items
<1>3. Len(items) \in Nat /\ DOMAIN items = 1..Len(items)
  BY <1>1, LenProperties
<1>4. \A i \in 1..Len(items) : items[i] \in Of(s)
  BY <1>1, ElementOfSeq
<1>5. \A i \in 1..Len(items) : items[i].ts \in Int
  BY <1>4, HeldItems
<1>6. Points(ps, s) = {items[i] : i \in 1..Len(items)}
  BY <1>2, <1>3 DEF ToSet
<1>7. TimesIn(ps, s) = {items[i].ts : i \in 1..Len(items)}
  BY <1>6 DEF TimesIn
<1> QED
  BY <1>1, <1>3, <1>4, <1>5, <1>6, <1>7 DEF items

(* Where all the timestamps of a are in b too, none comes earlier in b.     *)
LEMMA NoEarlier ==
  ASSUME NEW m \in Nat, NEW n \in Nat, NEW a, NEW b,
         \A i \in 1..m : a[i].ts \in Int,
         \A j \in 1..n : b[j].ts \in Int,
         \A i, j \in 1..m : i < j => a[i].ts < a[j].ts,
         \A i, j \in 1..n : i < j => b[i].ts < b[j].ts,
         {a[i].ts : i \in 1..m} \subseteq {b[j].ts : j \in 1..n}
  PROVE  \A i \in 1..m, j \in 1..n : a[i].ts = b[j].ts => i <= j
<1> DEFINE T == {i \in 1..m : \A j \in 1..n : a[i].ts = b[j].ts => i <= j}
<1>1. CASE m = 0
  BY <1>1
<1>2. CASE m > 0
  <2>1. 1 \in T
    BY <1>2
  <2>2. ASSUME NEW i \in (1 + 1)..m, i - 1 \in T PROVE i \in T
    <3>1. i \in 1..m /\ i - 1 \in 1..m /\ i - 1 < i
      OBVIOUS
    <3>2. SUFFICES ASSUME NEW j \in 1..n, a[i].ts = b[j].ts PROVE i <= j
      BY <3>1
    <3>3. PICK k \in 1..n : a[i - 1].ts = b[k].ts
      BY <3>1
    <3>4. i - 1 <= k
      BY <2>2, <3>3
    <3>5. b[k].ts < b[j].ts /\ b[k].ts \in Int /\ b[j].ts \in Int
      BY <3>1, <3>2, <3>3
    <3>6. k < j
      BY <3>5
    <3> QED
      BY <3>4, <3>6
  <2> HIDE DEF T
  <2>3. m \in Int /\ 1 \in Int
    OBVIOUS
  <2>4. \A i \in 1..m : i \in T
    BY <2>1, <2>2, <2>3, EachTurn
  <2> QED
    BY <2>4 DEF T
<1> QED
  BY <1>1, <1>2

(* A partition that only gains points moves none of them to an earlier       *)
(* position.                                                                *)
LEMMA PositionsGrow ==
  ASSUME NEW ps, AllSound(ps), NEW qs, AllSound(qs), NEW s \in Starts,
         TimesIn(ps, s) \subseteq TimesIn(qs, s)
  PROVE  LET a == ItemsAt(ps, s)
             b == ItemsAt(qs, s)
         IN \A i \in 1..Len(a), j \in 1..Len(b) : a[i].ts = b[j].ts => i <= j
<1> DEFINE a == ItemsAt(ps, s)
           b == ItemsAt(qs, s)
           m == Len(a)
           n == Len(b)
<1>1. /\ m \in Nat
      /\ \A i \in 1..m : a[i].ts \in Int
      /\ \A i, j \in 1..m : i < j => a[i].ts < a[j].ts
      /\ TimesIn(ps, s) = {a[i].ts : i \in 1..m}
  BY ItemsAre
<1>2. /\ n \in Nat
      /\ \A j \in 1..n : b[j].ts \in Int
      /\ \A i, j \in 1..n : i < j => b[i].ts < b[j].ts
      /\ TimesIn(qs, s) = {b[j].ts : j \in 1..n}
  BY ItemsAre
<1>3. {a[i].ts : i \in 1..m} \subseteq {b[j].ts : j \in 1..n}
  BY <1>1, <1>2
<1> HIDE DEF a, b, m, n
<1>4. \A i \in 1..m, j \in 1..n : a[i].ts = b[j].ts => i <= j
  BY <1>1, <1>2, <1>3, NoEarlier
<1> QED
  BY <1>4 DEF a, b, m, n

-----------------------------------------------------------------------------
\* What stands for a point that should be returned.
Accounted(x) == x.ts \in returned \/ StartOf(x.ts) \in shrunk

\* A point that was there all the time is ahead of the position, or accounted for.
Kept(x) ==
  /\ x.ts \in Times /\ x \in Points(partitions, StartOf(x.ts))
  /\ InRange(x, it.lo, it.hi)
  /\ \E k \in 1..Len(it.partitions) :
       /\ it.partitions[k] = StartOf(x.ts)
       /\ k < it.currPartIdx => Accounted(x)
       /\ k = it.currPartIdx =>
            LET items == ItemsAt(partitions, StartOf(x.ts)) IN
            \A j \in 1..Len(items) : items[j] = x /\ j < it.currItemIdx => Accounted(x)

\* A timestamp that was returned is behind the position.
Past(t) ==
  /\ t \in Times
  /\ \E k \in 1..Len(it.partitions) :
       /\ it.partitions[k] = StartOf(t) /\ k <= it.currPartIdx
       /\ k = it.currPartIdx /\ StartOf(t) \notin grown =>
            LET items == ItemsAt(partitions, StartOf(t)) IN
            \A j \in 1..Len(items) : j >= it.currItemIdx => t < items[j].ts

IteratorOK ==
  /\ it = [partitions |-> it.partitions, currPartIdx |-> it.currPartIdx,
           currItemIdx |-> it.currItemIdx, lo |-> it.lo, hi |-> it.hi]
  /\ it.partitions \in Seq(Starts)
  /\ \A i, j \in 1..Len(it.partitions) : i < j => it.partitions[i] < it.partitions[j]
  /\ it.currPartIdx \in Nat \ {0} /\ it.currItemIdx \in Nat \ {0}
  /\ it.lo \in Times /\ it.hi \in Times

ItInv ==
  /\ Inv
  /\ it # None => /\ IteratorOK
                  /\ \A x \in stable : Kept(x)
                  /\ \A t \in returned : Past(t)

(* The partition of a point in range is one the iterator is made over       *)
(* (iterator.go:27).                                                        *)
LEMMA StartInRange ==
  ASSUME NEW t \in Times, NEW lo \in Times, NEW hi \in Times, lo <= t, t <= hi
  PROVE  StartOf(t) + PartitionSize >= lo /\ StartOf(t) <= hi
<1>1. StartOf(t) \in Nat /\ StartOf(t) <= t /\ t < StartOf(t) + PartitionSize
  BY StartTimes
<1> QED
  BY <1>1, TimeSeriesAssumption

(* A new iterator, or one that is reset, has everything ahead.              *)
LEMMA AtTheBeginning ==
  ASSUME Inv, NEW list \in Seq(Starts), NEW from \in SUBSET ToSet(list),
         NEW lo \in Times, NEW hi \in Times,
         \A i, j \in 1..Len(list) : i < j => list[i] < list[j],
         it' = [partitions |-> list, currPartIdx |-> 1, currItemIdx |-> 1, lo |-> lo, hi |-> hi],
         UNCHANGED vars,
         returned' = {},
         stable' \subseteq {x \in UNION {Points(partitions, s) : s \in from} : InRange(x, lo, hi)}
  PROVE  ItInv'
<1>1. Inv'
  BY InvStep
<1>2. /\ it'.partitions = list /\ it'.currPartIdx = 1 /\ it'.currItemIdx = 1
      /\ it'.lo = lo /\ it'.hi = hi
      /\ partitions' = partitions /\ now' = now
  BY DEF vars
<1>3. IteratorOK'
  BY <1>2 DEF IteratorOK
<1>4. ASSUME NEW x \in stable' PROVE Kept(x)'
  <2>1. PICK s \in from : x \in Points(partitions, s) /\ InRange(x, lo, hi)
    OBVIOUS
  <2>2. DOMAIN list = 1..Len(list) /\ \A k \in 1..Len(list) : list[k] \in Starts
    BY LenProperties, ElementOfSeq
  <2>3. PICK k \in 1..Len(list) : list[k] = s
    BY <2>2 DEF ToSet
  <2>4. s \in Starts
    BY <2>2, <2>3
  <2>5. x \in Of(s)
    BY <2>1, <2>4, ItemsAre, SMTT(30) DEF Inv
  <2>6. x.ts \in Times /\ StartOf(x.ts) = s
    BY <2>4, <2>5, HeldItems
  <2>7. InRange(x, it.lo, it.hi)'
    BY <1>2, <2>1 DEF InRange
  <2>8. x \in Points(partitions, StartOf(x.ts))'
    BY <1>2, <2>1, <2>6
  <2>9. /\ k \in 1..Len(it'.partitions) /\ it'.partitions[k] = StartOf(x.ts)
        /\ ~ (k < it'.currPartIdx) /\ \A j \in Nat \ {0} : ~ (j < it'.currItemIdx)
    BY <1>2, <2>3, <2>6
  <2> QED
    BY <2>6, <2>7, <2>8, <2>9 DEF Kept
<1> QED
  BY <1>1, <1>3, <1>4 DEF ItInv

(* A new iterator is over the partitions that may have a point in range.    *)
LEMMA NewIteratorInv ==
  ASSUME ItInv, NEW lo \in Times, NEW hi \in Times, NewIterator(lo, hi)
  PROVE  ItInv'
<1> DEFINE S == {s \in Mapped : s + PartitionSize >= lo /\ s <= hi}
<1>1. Inv /\ UNCHANGED vars
  BY DEF ItInv, NewIterator, IteratorOver
<1>2. Mapped \subseteq Starts /\ Starts \subseteq Nat /\ hi \in Nat
  BY <1>1, StartTimes, TimeSeriesAssumption DEF Inv, AllSound, Mapped, Starts
<1>3. Cardinality(S) \in Nat
  <2>1. S \in SUBSET Nat /\ \A s \in S : s <= hi
    BY <1>2
  <2> HIDE DEF S
  <2>2. IsFiniteSet(S)
    BY <1>2, <2>1, FS_BoundedSetOfNaturals
  <2> QED
    BY <2>2, FS_CardinalityType
<1>4. PICK list \in Sorted(S) : IteratorOver(list, lo, hi)
  BY DEF NewIterator
<1>5. /\ list \in [1..Cardinality(S) -> S] /\ ToSet(list) = S
      /\ \A i, j \in 1..Cardinality(S) : i < j => list[i] < list[j]
  BY DEF Sorted
<1>6. list \in Seq(Starts) /\ Len(list) = Cardinality(S)
  <2>1. list \in [1..Cardinality(S) -> Starts]
    BY <1>2, <1>5
  <2> HIDE DEF S
  <2> QED
    BY <1>3, <2>1
<1>7. ASSUME NEW s \in Mapped, NEW x \in Points(partitions, s), InRange(x, lo, hi)
      PROVE  s \in S
  <2>1. x \in Of(s) /\ s \in Starts
    BY <1>1, <1>2, ItemsAre DEF Inv
  <2>2. x.ts \in Times /\ StartOf(x.ts) = s
    BY <2>1, HeldItems
  <2> QED
    BY <1>7, <2>2, StartInRange DEF InRange
<1>9. /\ it' = [partitions |-> list, currPartIdx |-> 1, currItemIdx |-> 1, lo |-> lo, hi |-> hi]
      /\ returned' = {}
      /\ stable' = {x \in UNION {Points(partitions, s) : s \in Mapped} : InRange(x, lo, hi)}
  BY <1>4 DEF IteratorOver, Observe
<1> HIDE DEF S
<1>10. stable' \subseteq {x \in UNION {Points(partitions, s) : s \in S} : InRange(x, lo, hi)}
  BY <1>7, <1>9
<1>11. S \in SUBSET ToSet(list)
  BY <1>5
<1> QED
  BY <1>1, <1>5, <1>6, <1>9, <1>10, <1>11, AtTheBeginning

(* After Reset everything in its partitions is ahead again.                 *)
LEMMA ResetInv == ItInv /\ ResetIterator => ItInv'
<1> SUFFICES ASSUME ItInv, ResetIterator PROVE ItInv'
  OBVIOUS
<1> DEFINE list == it.partitions
<1>1. Inv /\ IteratorOK /\ UNCHANGED vars
  BY DEF ItInv, ResetIterator
<1>2. /\ list \in Seq(Starts) /\ it.lo \in Times /\ it.hi \in Times
      /\ \A i, j \in 1..Len(list) : i < j => list[i] < list[j]
  BY <1>1 DEF IteratorOK
<1>3. it' = [partitions |-> list, currPartIdx |-> 1, currItemIdx |-> 1, lo |-> it.lo, hi |-> it.hi]
  BY <1>1 DEF IteratorOK, ResetIterator
<1>4. /\ returned' = {}
      /\ stable' = {x \in UNION {Points(partitions, s) : s \in ToSet(list)} : InRange(x, it.lo, it.hi)}
  BY DEF ResetIterator, Observe
<1> QED
  BY <1>1, <1>2, <1>3, <1>4, AtTheBeginning

(* The iterator is at a partition it was made over.                         *)
LEMMA AtAPartition ==
  ASSUME ItInv, it # None, ~AtEnd
  PROVE  LET list == it.partitions
             s == list[it.currPartIdx]
         IN /\ IteratorOK /\ Len(list) \in Nat
            /\ it.currPartIdx \in 1..Len(list) /\ s \in Starts
            /\ Current = ItemsAt(partitions, s)
            /\ \A k \in 1..Len(list) : list[k] = s => k = it.currPartIdx
<1> DEFINE list == it.partitions
<1>1. /\ IteratorOK /\ list \in Seq(Starts) /\ it.currPartIdx \in Nat \ {0}
      /\ \A i, j \in 1..Len(list) : i < j => list[i] < list[j]
  BY DEF ItInv, IteratorOK
<1>2. Len(list) \in Nat /\ \A k \in 1..Len(list) : list[k] \in Starts
  BY <1>1, LenProperties, ElementOfSeq
<1>3. it.currPartIdx \in 1..Len(list)
  BY <1>1, <1>2 DEF AtEnd
<1>4. Starts \subseteq Int
  BY StartTimes DEF Starts
<1>5. \A k \in 1..Len(list) : list[k] = list[it.currPartIdx] => k = it.currPartIdx
  <2> SUFFICES ASSUME NEW k \in 1..Len(list), list[k] = list[it.currPartIdx],
                      k # it.currPartIdx
               PROVE  FALSE
    OBVIOUS
  <2> DEFINE cur == it.currPartIdx
  <2>1. list[k] \in Int /\ list[cur] \in Int
    BY <1>2, <1>3, <1>4
  <2>2. ~ (list[k] < list[cur]) /\ ~ (list[cur] < list[k])
    BY <2>1
  <2>3. k < cur \/ cur < k
    BY <1>2, <1>3
  <2> QED
    BY <1>1, <1>3, <2>2, <2>3
<1>6. Current = ItemsAt(partitions, list[it.currPartIdx])
  BY DEF Current, ItemsAt, Mapped
<1> QED
  BY <1>1, <1>2, <1>3, <1>5, <1>6

(* A partition is left when all its positions have been passed.             *)
LEMMA NextPartitionInv == ItInv /\ NextPartition => ItInv'
<1> SUFFICES ASSUME ItInv, NextPartition PROVE ItInv'
  OBVIOUS
<1> DEFINE list == it.partitions
           cur == it.currPartIdx
           s == list[cur]
<1>1. it # None /\ ~AtEnd /\ Inv
  BY DEF NextPartition, ItInv
<1>2. /\ IteratorOK /\ Len(list) \in Nat /\ cur \in 1..Len(list) /\ s \in Starts
      /\ Current = ItemsAt(partitions, s)
  BY <1>1, AtAPartition
<1>3. it = [partitions |-> list, currPartIdx |-> cur, currItemIdx |-> it.currItemIdx,
            lo |-> it.lo, hi |-> it.hi]
  BY <1>2 DEF IteratorOK
<1>4. /\ it'.partitions = list /\ it'.currPartIdx = cur + 1 /\ it'.currItemIdx = 1
      /\ it'.lo = it.lo /\ it'.hi = it.hi
      /\ it' = [partitions |-> list, currPartIdx |-> cur + 1, currItemIdx |-> 1,
                lo |-> it.lo, hi |-> it.hi]
  BY <1>3 DEF NextPartition
<1>5. /\ UNCHANGED vars /\ returned' = returned /\ stable' = stable
      /\ grown' = grown /\ shrunk' = shrunk
      /\ partitions' = partitions /\ now' = now
  BY DEF NextPartition, vars
<1>6. IteratorOK'
  BY <1>2, <1>4 DEF IteratorOK
<1>7. /\ it.currItemIdx \in Nat /\ Len(ItemsAt(partitions, s)) \in Nat
      /\ it.currItemIdx > Len(ItemsAt(partitions, s))
  BY <1>1, <1>2, ItemsAre DEF NextPartition, Exhausted, IteratorOK, Inv
<1>8. ASSUME NEW x \in stable PROVE Kept(x)'
  <2>1. Kept(x)
    BY <1>1 DEF ItInv
  <2>2. PICK k \in 1..Len(list) :
          /\ list[k] = StartOf(x.ts)
          /\ k < cur => Accounted(x)
          /\ k = cur => LET items == ItemsAt(partitions, StartOf(x.ts)) IN
               \A j \in 1..Len(items) : items[j] = x /\ j < it.currItemIdx => Accounted(x)
    BY <2>1 DEF Kept
  <2>3. k = cur => Accounted(x)
    <3> SUFFICES ASSUME k = cur PROVE Accounted(x)
      OBVIOUS
    <3>1. PICK j \in 1..Len(ItemsAt(partitions, s)) : ItemsAt(partitions, s)[j] = x
      BY <1>1, <1>2, <2>1, <2>2, ItemsAre, SMTT(30) DEF Kept, Inv
    <3>2. j < it.currItemIdx
      BY <1>7
    <3> QED
      BY <2>2, <3>1, <3>2
  <2>4. Accounted(x)' <=> Accounted(x)
    BY <1>5 DEF Accounted
  <2>5. k < cur + 1 => Accounted(x)
    BY <1>2, <2>2, <2>3
  <2>6. \A j \in Nat \ {0} : ~ (j < 1)
    OBVIOUS
  <2>7. InRange(x, it.lo, it.hi)'
    BY <1>4, <1>5, <2>1 DEF Kept, InRange
  <2> HIDE DEF cur, list
  <2> QED
    BY <1>4, <1>5, <2>1, <2>2, <2>4, <2>5, <2>6, <2>7 DEF Kept, list
<1>9. ASSUME NEW t \in returned PROVE Past(t)'
  <2>1. Past(t)
    BY <1>1 DEF ItInv
  <2>2. PICK k \in 1..Len(list) : list[k] = StartOf(t) /\ k <= cur
    BY <2>1 DEF Past
  <2>3. k <= cur + 1 /\ k # cur + 1
    BY <1>2, <2>2
  <2> QED
    BY <1>4, <2>1, <2>2, <2>3 DEF Past
<1> QED
  BY <1>1, <1>5, <1>6, <1>8, <1>9, InvStep DEF ItInv

(* An item that is passed is returned if it should be, and is behind then.  *)
LEMMA NextItemInv == ItInv /\ NextItem => ItInv'
<1> SUFFICES ASSUME ItInv, NextItem PROVE ItInv'
  OBVIOUS
<1> DEFINE list == it.partitions
           cur == it.currPartIdx
           s == list[cur]
           c == it.currItemIdx
           items == ItemsAt(partitions, s)
           y == items[c]
<1>1. it # None /\ ~AtEnd /\ Inv
  BY DEF NextItem, ItInv
<1>2. /\ IteratorOK /\ Len(list) \in Nat /\ cur \in 1..Len(list) /\ s \in Starts
      /\ Current = items
  BY <1>1, AtAPartition
<1>3. it = [partitions |-> list, currPartIdx |-> cur, currItemIdx |-> c,
            lo |-> it.lo, hi |-> it.hi]
  BY <1>2 DEF IteratorOK
<1>4. /\ it'.partitions = list /\ it'.currPartIdx = cur /\ it'.currItemIdx = c + 1
      /\ it'.lo = it.lo /\ it'.hi = it.hi
      /\ it' = [partitions |-> list, currPartIdx |-> cur, currItemIdx |-> c + 1,
                lo |-> it.lo, hi |-> it.hi]
  BY <1>3 DEF NextItem
<1>5. /\ UNCHANGED vars /\ stable' = stable /\ grown' = grown /\ shrunk' = shrunk
      /\ partitions' = partitions /\ now' = now
  BY DEF NextItem, vars
<1>6. /\ Len(items) \in Nat
      /\ \A i \in 1..Len(items) : items[i] \in Of(s) /\ items[i].ts \in Int
      /\ \A i, j \in 1..Len(items) : i < j => items[i].ts < items[j].ts
  BY <1>1, <1>2, ItemsAre DEF Inv
<1>7. c \in 1..Len(items) /\ c \in Nat \ {0} /\ c + 1 \in Nat \ {0}
  BY <1>2, <1>6 DEF NextItem, Exhausted, IteratorOK
<1>8. IteratorOK'
  BY <1>2, <1>4, <1>7 DEF IteratorOK
<1>9. returned' = IF InRange(y, it.lo, it.hi) THEN returned \union {y.ts} ELSE returned
  BY <1>2 DEF NextItem
<1> HIDE DEF list, cur, s, c, items, y
<1>10. ASSUME NEW x \in stable PROVE Kept(x)'
  <2>1. Kept(x)
    BY <1>1 DEF ItInv
  <2>2. PICK k \in 1..Len(list) :
          /\ list[k] = StartOf(x.ts)
          /\ k < cur => Accounted(x)
          /\ k = cur => LET its == ItemsAt(partitions, StartOf(x.ts)) IN
               \A j \in 1..Len(its) : its[j] = x /\ j < c => Accounted(x)
    BY <2>1 DEF Kept, list, cur, c
  <2>3. Accounted(x) => Accounted(x)'
    BY <1>5, <1>9 DEF Accounted
  <2>4. InRange(x, it.lo, it.hi)'
    BY <1>4, <1>5, <2>1 DEF Kept, InRange
  <2>5. ASSUME k = cur, NEW j \in 1..Len(items), items[j] = x, j < c + 1
        PROVE  Accounted(x)'
    <3>1. ItemsAt(partitions, StartOf(x.ts)) = items
      BY <2>2, <2>5 DEF s, items
    <3>2. CASE j < c
      BY <2>2, <2>3, <2>5, <3>1, <3>2
    <3>3. CASE j = c
      <4>1. x = y /\ InRange(y, it.lo, it.hi)
        BY <2>1, <2>5, <3>3 DEF y, Kept
      <4> QED
        BY <1>9, <4>1 DEF Accounted
    <3> QED
      BY <1>7, <2>5, <3>2, <3>3
  <2>6. k = cur => ItemsAt(partitions, StartOf(x.ts)) = items
    BY <2>2 DEF s, items
  <2> QED
    BY <1>4, <1>5, <2>1, <2>2, <2>3, <2>4, <2>5, <2>6 DEF Kept
<1>11. ASSUME NEW t \in returned' PROVE Past(t)'
  <2>1. CASE t \in returned
    <3>1. Past(t)
      BY <1>1, <2>1 DEF ItInv
    <3>2. PICK k \in 1..Len(list) :
            /\ list[k] = StartOf(t) /\ k <= cur
            /\ k = cur /\ StartOf(t) \notin grown =>
                 LET its == ItemsAt(partitions, StartOf(t)) IN
                 \A j \in 1..Len(its) : j >= c => t < its[j].ts
      BY <3>1 DEF Past, list, cur, c
    <3>3. \A j \in Nat : j >= c + 1 => j >= c
      BY <1>7
    <3> QED
      BY <1>4, <1>5, <3>1, <3>2, <3>3 DEF Past
  <2>2. CASE t = y.ts
    <3>1. t \in Times /\ StartOf(t) = s
      BY <1>2, <1>6, <1>7, <2>2, HeldItems DEF y
    <3>2. \A j \in 1..Len(items) : j >= c + 1 => t < items[j].ts
      BY <1>6, <1>7, <2>2 DEF y
    <3>3. cur \in 1..Len(list) /\ list[cur] = StartOf(t) /\ cur <= cur
      BY <1>2, <3>1 DEF s
    <3>4. ItemsAt(partitions, StartOf(t)) = items
      BY <3>1 DEF items
    <3> QED
      BY <1>4, <1>5, <3>1, <3>2, <3>3, <3>4 DEF Past
  <2> QED
    BY <1>9, <2>1, <2>2
<1> QED
  BY <1>1, <1>5, <1>8, <1>10, <1>11, InvStep DEF ItInv

(* The rest of the cache moves the position only over what was removed, and *)
(* brings up again only what was inserted.                                  *)
LEMMA CacheStepInv == ItInv /\ CacheStep => ItInv'
<1> SUFFICES ASSUME ItInv, CacheStep PROVE ItInv'
  OBVIOUS
<1>1. Inv /\ Inv' /\ it' = it /\ returned' = returned
  BY InvStep DEF ItInv, CacheStep
<1>2. CASE it = None
  BY <1>1, <1>2 DEF ItInv
<1>3. CASE it # None
  <2> DEFINE list == it.partitions
             cur == it.currPartIdx
             c == it.currItemIdx
  <2>1. /\ stable' = {x \in stable : x \in Points(partitions', StartOf(x.ts)) /\ Alive(x, now')}
        /\ grown' = grown \union
             {s \in Starts : ~(TimesIn(partitions', s) \subseteq TimesIn(partitions, s))}
        /\ shrunk' = shrunk \union
             {s \in Starts : ~(TimesIn(partitions, s) \subseteq TimesIn(partitions', s))}
    BY <1>3 DEF CacheStep
  <2>2. IteratorOK /\ IteratorOK' /\ c \in Nat
    BY <1>1, <1>3 DEF ItInv, IteratorOK
  <2>3. \A s \in Starts :
          LET a == ItemsAt(partitions, s)
              b == ItemsAt(partitions', s)
          IN /\ Len(a) \in Nat /\ Len(b) \in Nat
             /\ TimesIn(partitions, s) = {a[i].ts : i \in 1..Len(a)}
             /\ TimesIn(partitions', s) = {b[i].ts : i \in 1..Len(b)}
             /\ Points(partitions, s) = {a[i] : i \in 1..Len(a)}
             /\ TimesIn(partitions, s) \subseteq TimesIn(partitions', s) =>
                  \A i \in 1..Len(a), j \in 1..Len(b) : a[i].ts = b[j].ts => i <= j
             /\ TimesIn(partitions', s) \subseteq TimesIn(partitions, s) =>
                  \A j \in 1..Len(b), i \in 1..Len(a) : b[j].ts = a[i].ts => j <= i
    <3> TAKE s \in Starts
    <3> DEFINE a == ItemsAt(partitions, s)
               b == ItemsAt(partitions', s)
    <3>1. AllSound(partitions) /\ AllSound(partitions')
      BY <1>1 DEF Inv
    <3>2. /\ Len(a) \in Nat /\ TimesIn(partitions, s) = {a[i].ts : i \in 1..Len(a)}
          /\ Points(partitions, s) = {a[i] : i \in 1..Len(a)}
      BY <3>1, ItemsAre
    <3>3. Len(b) \in Nat /\ TimesIn(partitions', s) = {b[i].ts : i \in 1..Len(b)}
      BY <3>1, ItemsAre
    <3>4. TimesIn(partitions, s) \subseteq TimesIn(partitions', s) =>
            \A i \in 1..Len(a), j \in 1..Len(b) : a[i].ts = b[j].ts => i <= j
      BY <3>1, PositionsGrow
    <3>5. TimesIn(partitions', s) \subseteq TimesIn(partitions, s) =>
            \A j \in 1..Len(b), i \in 1..Len(a) : b[j].ts = a[i].ts => j <= i
      BY <3>1, PositionsGrow
    <3> HIDE DEF a, b
    <3> QED
      BY <3>2, <3>3, <3>4, <3>5 DEF a, b
  <2>4. ASSUME NEW x \in stable' PROVE Kept(x)'
    <3>1. Kept(x) /\ x \in Points(partitions', StartOf(x.ts)) /\ Alive(x, now')
      BY <1>3, <2>1 DEF ItInv
    <3>2. PICK k \in 1..Len(list) :
            /\ list[k] = StartOf(x.ts)
            /\ k < cur => Accounted(x)
            /\ k = cur => LET items == ItemsAt(partitions, StartOf(x.ts)) IN
                 \A j \in 1..Len(items) : items[j] = x /\ j < c => Accounted(x)
      BY <3>1 DEF Kept
    <3>3. Accounted(x) => Accounted(x)'
      BY <1>1, <2>1 DEF Accounted
    <3>4. StartOf(x.ts) \in Starts
      BY <3>1, StartTimes DEF Kept
    <3> DEFINE s == StartOf(x.ts)
               a == ItemsAt(partitions, s)
               b == ItemsAt(partitions', s)
    <3>5. ASSUME k = cur, NEW j \in 1..Len(b), b[j] = x, j < c PROVE Accounted(x)'
      <4>1. CASE s \in shrunk'
        BY <4>1 DEF Accounted
      <4>2. CASE s \notin shrunk'
        <5>1. TimesIn(partitions, s) \subseteq TimesIn(partitions', s)
          BY <2>1, <3>4, <4>2
        <5>2. PICK i \in 1..Len(a) : a[i] = x
          BY <2>3, <3>1, <3>4 DEF Kept
        <5>3. i <= j
          <6> HIDE DEF s
          <6> QED
            BY <2>3, <3>4, <3>5, <5>1, <5>2 DEF s
        <5>4. i < c /\ i \in Nat /\ j \in Nat
          BY <2>2, <3>5, <5>3
        <5> QED
          BY <3>2, <3>3, <3>5, <5>2, <5>4
      <4> QED
        BY <4>1, <4>2
    <3>6. InRange(x, it.lo, it.hi)'
      BY <1>1, <3>1 DEF Kept, InRange
    <3> QED
      BY <1>1, <3>1, <3>2, <3>3, <3>5, <3>6 DEF Kept
  <2>5. ASSUME NEW t \in returned' PROVE Past(t)'
    <3>1. Past(t)
      BY <1>1, <1>3 DEF ItInv
    <3>2. PICK k \in 1..Len(list) :
            /\ list[k] = StartOf(t) /\ k <= cur
            /\ k = cur /\ StartOf(t) \notin grown =>
                 LET items == ItemsAt(partitions, StartOf(t)) IN
                 \A j \in 1..Len(items) : j >= c => t < items[j].ts
      BY <3>1 DEF Past
    <3>3. StartOf(t) \in Starts
      BY <3>1, StartTimes DEF Past
    <3> DEFINE s == StartOf(t)
               a == ItemsAt(partitions, s)
               b == ItemsAt(partitions', s)
    <3>4. ASSUME k = cur, s \notin grown', NEW j \in 1..Len(b), j >= c PROVE t < b[j].ts
      <4>1. TimesIn(partitions', s) \subseteq TimesIn(partitions, s) /\ s \notin grown
        BY <2>1, <3>3, <3>4
      <4>2. PICK i \in 1..Len(a) : b[j].ts = a[i].ts
        <5>1. /\ TimesIn(partitions, s) = {a[i].ts : i \in 1..Len(a)}
              /\ TimesIn(partitions', s) = {b[i].ts : i \in 1..Len(b)}
          BY <2>3, <3>3
        <5>2. b[j].ts \in TimesIn(partitions', s)
          BY <3>4, <5>1
        <5>3. b[j].ts \in TimesIn(partitions, s)
          BY <4>1, <5>2
        <5> QED
          BY <5>1, <5>3
      <4>3. j <= i
        BY <2>3, <3>3, <4>1, <4>2
      <4>4. i >= c
        BY <2>2, <3>4, <4>3
      <4> QED
        BY <3>2, <3>4, <4>1, <4>2, <4>4
    <3> QED
      BY <1>1, <3>1, <3>2, <3>4 DEF Past
  <2> QED
    BY <1>1, <2>2, <2>4, <2>5 DEF ItInv
<1> QED
  BY <1>2, <1>3

(* The invariant holds in every reachable state.                            *)
LEMMA ItInvariance == ItSpec => []ItInv
<1>1. ItInit => ItInv
  BY InitInv DEF ItInit, ItInv
<1>2. ItInv /\ [ItNext]_allVars => ItInv'
  <2> SUFFICES ASSUME ItInv, [ItNext]_allVars PROVE ItInv'
    OBVIOUS
  <2>1. CASE UNCHANGED allVars
    <3>1. UNCHANGED <<it, returned, stable, grown, shrunk, partitions, now, vars>>
      BY <2>1 DEF allVars, itVars, vars
    <3>2. Inv'
      BY <3>1, InvStep DEF ItInv
    <3>3. IteratorOK' = IteratorOK
      BY <3>1 DEF IteratorOK
    <3>4. \A x : Kept(x) => Kept(x)'
      BY <3>1 DEF Kept, Accounted, InRange
    <3>5. \A t : Past(t) => Past(t)'
      BY <3>1 DEF Past
    <3> QED
      BY <3>1, <3>2, <3>3, <3>4, <3>5 DEF ItInv
  <2> QED
    BY <2>1, NewIteratorInv, NextPartitionInv, NextItemInv, ResetInv, CacheStepInv DEF ItNext
<1> QED
  BY <1>1, <1>2, PTL DEF ItSpec

(* For any timestamps and any steps of the cache: an iteration that runs to *)
(* its end skips a point only if its partition lost one (iterator.go:63-71).*)
THEOREM SkipsNeedRemovals == ItSpec => []SkipsOnlyAfterRemoval
<1>1. ItInv => SkipsOnlyAfterRemoval
  <2> SUFFICES ASSUME ItInv, AtEnd, NEW x \in stable PROVE Accounted(x)
    BY DEF SkipsOnlyAfterRemoval, Accounted
  <2>1. Kept(x) /\ IteratorOK
    BY DEF ItInv, AtEnd
  <2>2. PICK k \in 1..Len(it.partitions) : k < it.currPartIdx => Accounted(x)
    BY <2>1 DEF Kept
  <2>3. Len(it.partitions) \in Nat /\ it.currPartIdx \in Nat
    BY <2>1, LenProperties DEF IteratorOK
  <2> QED
    BY <2>2, <2>3 DEF AtEnd
<1> QED
  BY <1>1, ItInvariance, PTL

(* For any of them: a timestamp is returned again, or after a later one,    *)
(* only if its partition gained a point (iterator.go:65-71).                *)
THEOREM RepeatsNeedInsertions == ItSpec => RepeatsOnlyAfterInsertion
<1>1. ItInv =>
        [NextItem => LET x == Current[it.currItemIdx] IN
           InRange(x, it.lo, it.hi) =>
             \/ \A t \in returned : t < x.ts
             \/ StartOf(x.ts) \in grown]_allVars
  <2> SUFFICES ASSUME ItInv, NextItem, NEW t \in returned,
                      StartOf(Current[it.currItemIdx].ts) \notin grown
               PROVE  t < Current[it.currItemIdx].ts
    OBVIOUS
  <2> DEFINE list == it.partitions
             cur == it.currPartIdx
             s == list[cur]
             c == it.currItemIdx
             items == ItemsAt(partitions, s)
             x == items[c]
  <2>1. it # None /\ ~AtEnd /\ Inv /\ Past(t)
    BY DEF NextItem, ItInv
  <2>2. /\ IteratorOK /\ Len(list) \in Nat /\ cur \in 1..Len(list) /\ s \in Starts
        /\ Current = items
    BY <2>1, AtAPartition
  <2>3. /\ Len(items) \in Nat
        /\ \A i \in 1..Len(items) : items[i] \in Of(s) /\ items[i].ts \in Int
    BY <2>1, <2>2, ItemsAre DEF Inv
  <2>4. c \in 1..Len(items) /\ c >= c
    BY <2>2, <2>3 DEF NextItem, Exhausted, IteratorOK
  <2>5. x.ts \in Times /\ StartOf(x.ts) = s
    BY <2>2, <2>3, <2>4, HeldItems
  <2>6. PICK k \in 1..Len(list) :
          /\ list[k] = StartOf(t) /\ k <= cur
          /\ k = cur /\ StartOf(t) \notin grown =>
               LET its == ItemsAt(partitions, StartOf(t)) IN
               \A j \in 1..Len(its) : j >= c => t < its[j].ts
    BY <2>1 DEF Past
  <2>7. CASE k = cur
    <3>1. StartOf(t) = s /\ s \notin grown
      BY <2>2, <2>5, <2>6, <2>7
    <3>2. t < x.ts
      BY <2>4, <2>6, <2>7, <3>1
    <3> QED
      BY <2>2, <3>2
  <2>8. CASE k # cur
    <3>1. k < cur
      BY <2>2, <2>6, <2>8
    <3>2. StartOf(t) < StartOf(x.ts)
      BY <2>2, <2>5, <2>6, <3>1 DEF IteratorOK
    <3>3. t \in Times
      BY <2>1 DEF Past
    <3>4. /\ t \in Int /\ x.ts \in Int
          /\ StartOf(t) \in Int /\ StartOf(x.ts) \in Int
      BY <2>5, <3>3, StartTimes
    <3>5. ~ (x.ts <= t)
      BY <2>5, <3>2, <3>3, <3>4, StartsAscend
    <3>6. t < x.ts
      BY <3>4, <3>5
    <3> QED
      BY <2>2, <3>6
  <2> QED
    BY <2>7, <2>8
<1> QED
  BY <1>1, ItInvariance, PTL DEF RepeatsOnlyAfterInsertion
=============================================================================
