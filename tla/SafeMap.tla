------------------------------ MODULE SafeMap -------------------------------
(***************************************************************************)
(* The map of safemap/safemap.go under its RWMutex.  Methods that only     *)
(* lock, look or write, and unlock are a step each, after the wait for the *)
(* lock; Range, and with it Filter, Map and Reduce, calls back while it    *)
(* holds the read lock, and a callback may call methods of the same map.   *)
(* As sync.RWMutex has it, a writer that waits keeps new readers out.      *)
(***************************************************************************)
EXTENDS FiniteSets, Functions

CONSTANTS
  MapThreads,   \* goroutines that use the map
  Keys,
  MapValues,
  Absent        \* the value of a key that is not in the map

ASSUME SafeMapAssumption == Absent \notin MapValues

VARIABLES
  items,     \* m.items
  readers,   \* threads that hold the read lock in a Range
  mapPc,     \* where each thread is
  copy       \* what is left of the copy a Range goes through, until it returns

mapVars == <<items, readers, mapPc, copy>>

NoCopy == [k \in {} |-> Absent]
Contents == [Keys -> MapValues \union {Absent}]

MapTypeOK ==
  /\ items \in Contents
  /\ readers \subseteq MapThreads
  /\ mapPc \in [MapThreads -> {"idle", "lock", "writer", "rlock", "range", "nested"}]
  /\ copy \in [MapThreads -> UNION {[ks -> MapValues] : ks \in SUBSET Keys}]

NewSafeMap ==
  /\ items = [k \in Keys |-> Absent]
  /\ readers = {}
  /\ mapPc = [t \in MapThreads |-> "idle"]
  /\ copy = [t \in MapThreads |-> NoCopy]

-----------------------------------------------------------------------------
MapGoto(t, from, to) == mapPc[t] = from /\ mapPc' = [mapPc EXCEPT ![t] = to]

\* RLock returns while no writer has announced itself.
ReaderEnters == \A t \in MapThreads : mapPc[t] # "writer"

CallWrite(t) == MapGoto(t, "idle", "lock") /\ UNCHANGED <<items, readers, copy>>

\* Lock, first half: one writer at a time, which from now on keeps readers out.
AnnounceWriter(t) ==
  /\ ReaderEnters
  /\ MapGoto(t, "lock", "writer")
  /\ UNCHANGED <<items, readers, copy>>

Set(k, v) == items' = [items EXCEPT ![k] = v]
GetOrSet(k, v) == items' = [items EXCEPT ![k] = IF @ = Absent THEN v ELSE @]
Delete(k) == items' = [items EXCEPT ![k] = Absent]
SetMap(n) == items' = n

\* ... second half, when the readers have left: the change, and Unlock.  A
\* writer that is called back is one of the readers, and stays here.
WriteAndUnlock(t) ==
  /\ readers = {}
  /\ MapGoto(t, "writer", "idle")
  /\ \/ \E k \in Keys : \/ \E v \in MapValues : Set(k, v) \/ GetOrSet(k, v)
                        \/ Delete(k)
     \/ \E n \in Contents : SetMap(n)
  /\ UNCHANGED <<readers, copy>>

CallRange(t) == MapGoto(t, "idle", "rlock") /\ UNCHANGED <<items, readers, copy>>

\* Mutated form: the lock is given back when the copy is made.
RangeCopiesAndUnlocks(t) ==
  /\ ReaderEnters
  /\ MapGoto(t, "rlock", "range")
  /\ copy' = [copy EXCEPT ![t] = Restrict(items, {k \in Keys : items[k] # Absent})]
  /\ UNCHANGED <<items, readers>>

\* Range takes the read lock, copies the map, and keeps the lock.
RangeCopies(t) ==
  /\ ReaderEnters
  /\ MapGoto(t, "rlock", "range")
  /\ readers' = readers \union {t}
  /\ copy' = [copy EXCEPT ![t] = Restrict(items, {k \in Keys : items[k] # Absent})]
  /\ UNCHANGED items

\* A callback that returns true, for any of the keys left.
RangeCallback(t) ==
  /\ mapPc[t] = "range"
  /\ \E k \in DOMAIN copy[t] : copy' = [copy EXCEPT ![t] = Restrict(@, DOMAIN @ \ {k})]
  /\ UNCHANGED <<items, readers, mapPc>>

\* A callback that calls Get, or another method that reads, waits for a second
\* read lock...
CallbackCallsGet(t) ==
  /\ DOMAIN copy[t] # {}
  /\ MapGoto(t, "range", "nested")
  /\ UNCHANGED <<items, readers, copy>>

\* ... obtains it, reads, gives it back, and returns true.
NestedGetReturns(t) ==
  /\ ReaderEnters
  /\ MapGoto(t, "nested", "range")
  /\ \E k \in DOMAIN copy[t] : copy' = [copy EXCEPT ![t] = Restrict(@, DOMAIN @ \ {k})]
  /\ UNCHANGED <<items, readers>>

\* A callback that calls Set, GetOrSet, Delete or SetMap waits for the lock.
CallbackCallsWrite(t) ==
  /\ DOMAIN copy[t] # {}
  /\ MapGoto(t, "range", "lock")
  /\ UNCHANGED <<items, readers, copy>>

\* Mutated form: leaving the loop early leaves the lock behind.
RangeReturnsLocked(t) ==
  /\ MapGoto(t, "range", "idle")
  /\ readers' = IF DOMAIN copy[t] = {} THEN readers \ {t} ELSE readers
  /\ copy' = [copy EXCEPT ![t] = NoCopy]
  /\ UNCHANGED items

\* The copy is exhausted, or a callback returns false or panics: the deferred
\* RUnlock runs.
RangeReturns(t) ==
  /\ MapGoto(t, "range", "idle")
  /\ readers' = readers \ {t}
  /\ copy' = [copy EXCEPT ![t] = NoCopy]
  /\ UNCHANGED items

MapNext ==
  \E t \in MapThreads :
    \/ CallWrite(t) \/ AnnounceWriter(t) \/ WriteAndUnlock(t)
    \/ CallRange(t) \/ RangeCopies(t) \/ RangeCallback(t) \/ RangeReturns(t)
    \/ CallbackCallsGet(t) \/ NestedGetReturns(t) \/ CallbackCallsWrite(t)

LockObtained(t) == AnnounceWriter(t) \/ RangeCopies(t)

\* The thread goes on until its call returns.
CallGoesOn(t) ==
  \/ WriteAndUnlock(t) \/ RangeCallback(t) \/ NestedGetReturns(t)
  \/ DOMAIN copy[t] = {} /\ RangeReturns(t)

(* Threads that can run do, callbacks return, and a lock that is free again *)
(* and again is obtained: Go's mutexes do not starve a waiter.              *)
MapFairness ==
  \A t \in MapThreads : SF_mapVars(LockObtained(t)) /\ WF_mapVars(CallGoesOn(t))

MapSpec == NewSafeMap /\ [][MapNext]_mapVars /\ MapFairness

-----------------------------------------------------------------------------
(* What a callback of Range, Filter, Map or Reduce is still to be given is  *)
(* what the map holds: "the map is locked during iteration" (safemap.go:168) *)
(* whatever the callbacks call and however long writers wait.               *)
CallbacksSeeTheMap ==
  \A t \in MapThreads : \A k \in DOMAIN copy[t] : copy[t][k] = items[k]

(* The two ways to lock up, both by a callback that uses the map it is      *)
(* called for (safemap.go:170-182).  One that reads it queues behind a      *)
(* writer that waits for the Range to end...                                *)
GetBehindWriter ==
  \E r, w \in MapThreads : mapPc[r] = "nested" /\ mapPc[w] = "writer"

(* ... and one that writes to it waits, in any case, for the read lock of   *)
(* its own Range, and from then on keeps everybody else out.                *)
WriteInCallback ==
  \E t \in MapThreads : mapPc[t] \in {"lock", "writer"} /\ DOMAIN copy[t] # {}

(* Without them every call returns, however iterations end, and while other *)
(* callbacks read the map.                                                  *)
MapCallsReturn ==
  \A t \in MapThreads :
    mapPc[t] # "idle" ~> (mapPc[t] = "idle" \/ GetBehindWriter \/ WriteInCallback)
=============================================================================
