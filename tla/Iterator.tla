------------------------------ MODULE Iterator ------------------------------
(***************************************************************************)
(* The iterator of tscache/iterator.go over a cache that changes under it. *)
(* Next keeps no lock between two calls, nor between the partitions of one *)
(* call: a step is one turn of its loop.  It remembers a position, not the *)
(* item it is at.                                                          *)
(***************************************************************************)
EXTENDS TimeSeries

CONSTANT None  \* no iterator

VARIABLES
  it,        \* the iterator, None before NewIterator
  returned,  \* observer: timestamps returned since NewIterator or Reset
  stable,    \* observer: points in range that were mapped all that time
  grown,     \* observer: partitions that gained a point in that time
  shrunk     \* observer: partitions that lost a point in that time

itVars == <<it, returned, stable, grown, shrunk>>
allVars == <<vars, itVars>>

Points(ps, s) == IF s \in DOMAIN ps THEN ToSet(ps[s].Items) ELSE {}
TimesIn(ps, s) == {x.ts : x \in Points(ps, s)}

InRange(x, lo, hi) == lo <= x.ts /\ x.ts <= hi /\ Alive(x, now)

ItInit ==
  /\ Init
  /\ it = None
  /\ returned = {} /\ stable = {} /\ grown = {} /\ shrunk = {}

-----------------------------------------------------------------------------
\* The observers start over, with the points of the partitions in from.
Observe(lo, hi, from) ==
  /\ returned' = {} /\ grown' = {} /\ shrunk' = {}
  /\ stable' = {x \in UNION {Points(partitions, s) : s \in from} : InRange(x, lo, hi)}

\* sort.Slice over the start times in S.
Sorted(S) ==
  {list \in [1..Cardinality(S) -> S] :
     ToSet(list) = S /\ \A i, j \in DOMAIN list : i < j => list[i] < list[j]}

\* An iterator over list, at its first position, and the observers.
IteratorOver(list, lo, hi) ==
  /\ it' = [partitions |-> list, currPartIdx |-> 1, currItemIdx |-> 1, lo |-> lo, hi |-> hi]
  /\ Observe(lo, hi, Mapped)
  /\ UNCHANGED vars

\* Mutated form: a partition that begins before the range is left out.
NewIteratorInside(lo, hi) ==
  /\ it = None
  /\ \E list \in Sorted({s \in Mapped : s >= lo /\ s <= hi}) : IteratorOver(list, lo, hi)

\* Mutated form: the start times stay in the order the map gave them.
NewIteratorUnsorted(lo, hi) ==
  /\ it = None
  /\ \E list \in Sorted({s \in Mapped : s + PartitionSize >= lo /\ s <= hi}) :
       IteratorOver(Reverse(list), lo, hi)

NewIterator(lo, hi) ==
  /\ it = None
  /\ \E list \in Sorted({s \in Mapped : s + PartitionSize >= lo /\ s <= hi}) :
       IteratorOver(list, lo, hi)

\* The items of the partition it is at, none when it is not mapped.
Current == LET s == it.partitions[it.currPartIdx]
           IN IF s \in Mapped THEN partitions[s].Items ELSE <<>>
AtEnd == it # None /\ it.currPartIdx > Len(it.partitions)
Exhausted == it.currItemIdx > Len(Current)

\* The partition is gone, or has no item at this position.
NextPartition ==
  /\ it # None /\ ~AtEnd /\ Exhausted
  /\ it' = [it EXCEPT !.currPartIdx = @ + 1, !.currItemIdx = 1]
  /\ UNCHANGED <<vars, returned, stable, grown, shrunk>>

\* An item is passed, and returned if it is live and in range.
NextItem ==
  /\ it # None /\ ~AtEnd /\ ~Exhausted
  /\ LET x == Current[it.currItemIdx] IN
       returned' = IF InRange(x, it.lo, it.hi) THEN returned \union {x.ts} ELSE returned
  /\ it' = [it EXCEPT !.currItemIdx = @ + 1]
  /\ UNCHANGED <<vars, stable, grown, shrunk>>

\* Reset keeps the partitions that were mapped when the iterator was made.
ResetIterator ==
  /\ it # None
  /\ it' = [it EXCEPT !.currPartIdx = 1, !.currItemIdx = 1]
  /\ Observe(it.lo, it.hi, ToSet(it.partitions))
  /\ UNCHANGED vars

\* The rest of the cache moves.
CacheStep ==
  /\ Next
  /\ UNCHANGED <<it, returned>>
  /\ IF it = None THEN UNCHANGED <<stable, grown, shrunk>> ELSE
     /\ stable' = {x \in stable : /\ x \in Points(partitions', StartOf(x.ts))
                                  /\ Alive(x, now')}
     /\ grown' = grown \union
          {s \in Starts : ~(TimesIn(partitions', s) \subseteq TimesIn(partitions, s))}
     /\ shrunk' = shrunk \union
          {s \in Starts : ~(TimesIn(partitions, s) \subseteq TimesIn(partitions', s))}

ItNext ==
  \/ \E lo, hi \in Times : lo <= hi /\ NewIterator(lo, hi)
  \/ NextPartition \/ NextItem \/ ResetIterator \/ CacheStep

ItSpec == ItInit /\ [][ItNext]_allVars

-----------------------------------------------------------------------------
(* An iteration that runs to its end returns every point in range that was  *)
(* there all the time, unless its partition lost a point meanwhile: only a  *)
(* removal can make the position jump over a point (iterator.go:63-71).     *)
SkipsOnlyAfterRemoval ==
  AtEnd => \A x \in stable : x.ts \in returned \/ StartOf(x.ts) \in shrunk

(* Timestamps are returned in ascending order, each once, unless the        *)
(* partition gained a point meanwhile: only an insertion before the         *)
(* position can bring a point, or an earlier one, up again.                 *)
RepeatsOnlyAfterInsertion ==
  [][NextItem => LET x == Current[it.currItemIdx] IN
       InRange(x, it.lo, it.hi) =>
         \/ \A t \in returned : t < x.ts
         \/ StartOf(x.ts) \in grown]_allVars
=============================================================================
