--------------------------- MODULE TimeSeriesStore ---------------------------
(***************************************************************************)
(* What the time series cache promises its callers, without partitions:    *)
(* one memory of points and a copy of it that is written now and then.     *)
(* TimeSeries implements it.                                               *)
(***************************************************************************)
EXTENDS Naturals

CONSTANTS
  Times,   \* timestamps
  Values,
  TTLs     \* ttl arguments of Set, 0 for none

VARIABLES
  found,   \* the live points a lookup finds, one per timestamp at most
  kept,    \* the live points the files hold
  clock

vars == <<found, kept, clock>>

At(points, ts) == {x \in points : x.ts \in ts}

StoreInit == found = {} /\ kept = {} /\ clock = 1

\* Of each timestamp the files keep what they held or what is found there.
Saves ==
  \A t \in Times : \/ At(kept', {t}) = At(kept, {t})
                  \/ At(kept', {t}) = At(found', {t})

StoreSet(t, v, ttl) ==
  /\ found' = At(found, Times \ {t}) \union
       {[ts |-> t, val |-> v, exp |-> IF ttl > 0 THEN clock + ttl ELSE 0]}
  /\ Saves
  /\ UNCHANGED clock

\* Where nothing is found any more, the saved points may be found again.
StoreMaintain ==
  /\ found \subseteq found'
  /\ found' \ found \subseteq At(kept, Times \ {x.ts : x \in found})
  /\ Saves
  /\ UNCHANGED clock

\* What was found in the range no longer is, unless it is what the files hold.
StoreDelete(lo, hi) ==
  /\ At(found', Times \ (lo..hi)) = At(found, Times \ (lo..hi))
  /\ At(found', lo..hi) \subseteq kept
  /\ Saves
  /\ UNCHANGED clock

StoreCrash == found' = kept /\ UNCHANGED <<kept, clock>>

StoreTick ==
  /\ clock' = clock + 1
  /\ found' = {x \in found : x.exp = 0 \/ x.exp >= clock'}
  /\ kept' = {x \in kept : x.exp = 0 \/ x.exp >= clock'}

StoreNext ==
  \/ \E t \in Times, v \in Values, ttl \in TTLs : StoreSet(t, v, ttl)
  \/ \E lo, hi \in Times : lo <= hi /\ StoreDelete(lo, hi)
  \/ StoreMaintain \/ StoreCrash \/ StoreTick

StoreSpec == StoreInit /\ [][StoreNext]_vars
=============================================================================
