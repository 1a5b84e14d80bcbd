--------------------------- MODULE KVCache_proofs ---------------------------
(***************************************************************************)
(* What a cache that flushes at once has acknowledged is in its file, and  *)
(* memory and bucket agree, for any goroutines, keys, values and ttls.     *)
(***************************************************************************)
EXTENDS KVCache, TLAPS

PC(t) == go[t].pc
Op(t) == go[t].op

HoldsMu(t) == PC(t) \in {"nats", "flush"} \/ (PC(t) = "write" /\ Op(t) # "flush")
HoldsFileMu(t) == PC(t) \in {"rlock", "write"}

\* What each call may be at, and what it carries there.
CallInv(t) ==
  /\ PC(t) = "idle" <=> Op(t) = "none"
  /\ Op(t) \in {"set", "edit", "touch"} =>
       PC(t) \in {"lock", "nats", "flush", "write"} /\ go[t].item # None
  /\ Op(t) = "adopt" => /\ PC(t) \in {"bucket", "lock", "nats", "flush"}
                        /\ PC(t) # "bucket" => go[t].item # None
  /\ Op(t) = "del" => PC(t) \in {"lock", "nats", "flush"}
  /\ Op(t) = "sweep" => PC(t) \in {"lock", "flush", "write"}
  /\ Op(t) = "flush" => PC(t) \in {"file", "rlock", "write"}
  /\ Op(t) \in {"set", "edit", "touch", "adopt", "del"} => go[t].key # None

\* Who holds the locks; a flush that writes has mu for reading.
LockInv ==
  \A t \in Threads :
    /\ CallInv(t)
    /\ mu = t <=> HoldsMu(t)
    /\ fileMu = t <=> HoldsFileMu(t)
    /\ PC(t) = "write" /\ Op(t) = "flush" => mu = None
    /\ ~up => PC(t) = "idle"

\* What is acknowledged is in memory, so that every flush writes it again.
FileInv ==
  \A k \in Keys : acked[k] # None =>
    /\ up => items[k] = acked[k]
    /\ file # Torn => file[k] = acked[k]

\* Memory and bucket differ only for the key whose put is on its way, and that
\* put brings what memory holds.
BucketInv ==
  /\ \A t \in Threads : PC(t) = "nats" => items[go[t].key] = go[t].item
  /\ UseNATS /\ up =>
       \A k \in Keys \ diverged : items[k] # None /\ kv[k] # None =>
         \/ items[k] = kv[k]
         \/ \E t \in Threads : PC(t) = "nats" /\ go[t].key = k

Inv == TypeOK /\ LockInv /\ FileInv /\ BucketInv

-----------------------------------------------------------------------------
(* The item that a Set or an Edit brings lasts for a ttl or forever.        *)
LEMMA NewItems ==
  ASSUME NEW v \in Values, NEW ttl \in TTLs \union {0}
  PROVE  NewItem(v, ttl) \in Item
BY KVCacheAssumption DEF NewItem, Item, Lefts, Forever

(* Time takes no item away and makes none.                                  *)
LEMMA AgedItems ==
  ASSUME NEW item \in Item \union {None}
  PROVE  /\ Aged(item) \in Item \union {None}
         /\ Aged(item) = None <=> item = None
<1>1. CASE item = None
  BY <1>1 DEF Aged
<1>2. CASE item # None /\ item.left > 0
  <2>1. PICK ttl \in TTLs : item.left \in 0..ttl
    BY <1>2 DEF Item, Lefts, Forever
  <2>2. item.left - 1 \in 0..ttl
    BY <1>2, <2>1, KVCacheAssumption
  <2>3. item.left - 1 \in Lefts
    BY <2>1, <2>2 DEF Lefts
  <2> QED
    BY <1>2, <2>3, NoneIsNoItem DEF Aged, Item
<1>3. CASE item # None /\ ~(item.left > 0)
  BY <1>3 DEF Aged
<1> QED
  BY <1>1, <1>2, <1>3

(* An item that expired before it was refreshed gets the default ttl.       *)
LEMMA RefreshedItems ==
  ASSUME NEW item \in Item
  PROVE  Refreshed(item) \in Item
BY KVCacheAssumption DEF Refreshed, Item, Lefts

(* What a call writes for its key is an item, and none only for a Del.      *)
LEMMA WrittenItems ==
  ASSUME TypeOK, LockInv, NEW t \in Threads, PC(t) = "lock", Op(t) # "sweep",
         Op(t) = "edit" => items[go[t].key] # None
  PROVE  /\ go[t].key \in Keys
         /\ Written(t) \in Item \union {None}
         /\ Op(t) # "del" => Written(t) # None
         /\ Op(t) = "del" \/ Op(t) \in {"set", "edit", "touch", "adopt"}
<1> USE DEF TypeOK, Call, LockInv, CallInv, PC, Op
<1>1. Op(t) \in {"set", "edit", "touch", "adopt", "del"} /\ go[t].key \in Keys
  OBVIOUS
<1>2. CASE Op(t) = "edit"
  BY <1>1, <1>2, NoneIsNoItem DEF Written, Contents, Item
<1>3. CASE Op(t) # "edit" /\ Op(t) # "del"
  BY <1>1, <1>3, RefreshedItems, NoneIsNoItem DEF Written
<1>4. CASE Op(t) = "del"
  BY <1>1, <1>4 DEF Written
<1> QED
  BY <1>1, <1>2, <1>3, <1>4

(* A call that goes on to its next step stays the same call.                *)
LEMMA ContinuedCalls ==
  ASSUME TypeOK, NEW t \in Threads, NEW pc \in {"nats", "flush"},
         NEW item \in Item \union {None}, Continue(t, pc, item)
  PROVE  /\ go' \in [Threads -> Call]
         /\ go'[t].pc = pc /\ go'[t].item = item
         /\ go'[t].op = go[t].op /\ go'[t].key = go[t].key
         /\ \A u \in Threads \ {t} : go'[u] = go[u]
<1>1. go \in [Threads -> Call]
  BY DEF TypeOK
<1>2. go' = [go EXCEPT ![t] = [go[t] EXCEPT !.pc = pc, !.item = item]]
  BY DEF Continue
<1>3. go[t] \in Call
  BY <1>1
<1>4. [go[t] EXCEPT !.pc = pc, !.item = item] \in Call
  BY <1>3 DEF Call
<1> QED
  BY <1>1, <1>2, <1>3, <1>4 DEF Call

-----------------------------------------------------------------------------
(* The two maps, the file and the calls stay well formed under each step of *)
(* Set, Get, Edit, Del, the sweep and a flush, their failures, a crash, and *)
(* the clock.                                                               *)
LEMMA TypesStep ==
  TypeOK /\ LockInv /\ [Next]_vars => TypeOK'
<1> SUFFICES ASSUME TypeOK, LockInv,
                    [Next]_vars
             PROVE  TypeOK'
  OBVIOUS
<1> USE DEF TypeOK, Call, obs, LockInv, CallInv, HoldsMu, HoldsFileMu, PC,
            Op, Contents, Empty
<1> USE KVCacheAssumption
<1>1. ASSUME NEW t \in Callers, NEW k \in Keys, NEW v \in Values, NEW ttl \in TTLs,
              Set(t, k, v, ttl) PROVE TypeOK'
  BY <1>1, NewItems, NoneIsNoItem DEF Set, Begin, Call
<1>2. ASSUME NEW t \in Callers, NEW k \in Keys, NEW v \in Values,
              Edit(t, k, v) PROVE TypeOK'
  BY <1>2, NewItems, NoneIsNoItem DEF Edit, Begin, Idle
<1>3. ASSUME NEW t \in Callers, NEW k \in Keys, Del(t, k) PROVE TypeOK'
  BY <1>3 DEF Del, Begin
<1>4. ASSUME NEW t \in Callers, NEW k \in Keys, GetHit(t, k) PROVE TypeOK'
  BY <1>4 DEF GetHit, Begin, Live
<1>5. ASSUME NEW t \in Callers, NEW k \in Keys, GetMiss(t, k) PROVE TypeOK'
  BY <1>5 DEF GetMiss, Begin
<1>6. ASSUME Sweep PROVE TypeOK'
  BY <1>6 DEF Sweep, Begin
<1>7. ASSUME NEW t \in Threads, FlushCall(t) PROVE TypeOK'
  BY <1>7 DEF FlushCall, Begin
<1>8. ASSUME NEW t \in Threads, GetFromNATS(t) PROVE TypeOK'
  <2>1. CallInv(t) /\ PC(t) = "bucket" /\ Op(t) = "adopt" /\ go[t].key \in Keys
    BY <1>8 DEF GetFromNATS
  <2>2. CASE Live(kv[go[t].key])
    <3>1. kv[go[t].key] \in Item
      BY <2>1, <2>2 DEF Live
    <3> DEFINE next == [go[t] EXCEPT !.pc = "lock", !.item = kv[go[t].key]]
    <3>2. go[t] \in Call
      OBVIOUS
    <3>3. next \in Call
      BY <3>1, <3>2
    <3>4. go' = [go EXCEPT ![t] = next]
      BY <1>8, <2>2 DEF GetFromNATS
    <3>5. go' \in [Threads -> Call]
      <4> HIDE DEF next, Call
      <4> QED
        BY <3>3, <3>4
    <3> QED
      BY <1>8, <3>5 DEF GetFromNATS
  <2>3. CASE ~Live(kv[go[t].key])
    BY <1>8, <2>3 DEF GetFromNATS, Idle
  <2> QED
    BY <2>2, <2>3
<1>9. ASSUME NEW t \in Threads, WriteKey(t) PROVE TypeOK'
  <2>1. go[t].key \in Keys /\ Written(t) \in Item \union {None}
    BY <1>9, WrittenItems DEF WriteKey
  <2>2. items' \in Contents /\ acked' \in Contents /\ diverged' \in SUBSET Keys
    BY <1>9, <2>1 DEF WriteKey
  <2> QED
    BY <1>9, <2>1, <2>2, ContinuedCalls, SMTT(30), ZenonT(30)
    DEF WriteKey, Continue
<1>10. ASSUME NEW t \in Threads, EditMissing(t) PROVE TypeOK'
  BY <1>10 DEF EditMissing, Return, Idle, CanLock
<1>11. ASSUME NEW t \in Threads, SweepExpired(t) PROVE TypeOK'
  <2>1. items' \in Contents /\ acked' \in Contents
    BY <1>11 DEF SweepExpired
  <2> QED
    BY <1>11, <2>1, ContinuedCalls DEF SweepExpired, Continue
<1>12. ASSUME NEW t \in Threads, Sync(t) PROVE TypeOK'
  <2>1. kv' \in Contents /\ diverged' \in SUBSET Keys
    BY <1>12 DEF Sync
  <2> QED
    BY <1>12, <2>1, ContinuedCalls DEF Sync, Continue
<1>13. ASSUME NEW t \in Threads, SyncFails(t) PROVE TypeOK'
  <2>1. go[t].key \in Keys /\ kv' \in Contents /\ diverged' \in SUBSET Keys
    BY <1>13 DEF SyncFails
  <2>2. CASE Op(t) = "touch"
    <3>1. Continue(t, "flush", go[t].item) /\ go[t].item \in Item \union {None}
      BY <1>13, <2>2 DEF SyncFails
    <3>2. go' \in [Threads -> Call]
      BY <3>1, ContinuedCalls
    <3> QED
      BY <1>13, <2>1, <2>2, <3>1, <3>2 DEF SyncFails, Continue
  <2>3. CASE Op(t) # "touch"
    BY <1>13, <2>1, <2>3 DEF SyncFails, Return, Idle
  <2> QED
    BY <2>2, <2>3
<1>14. ASSUME NEW t \in Threads, NoFlush(t) PROVE TypeOK'
  BY <1>14 DEF NoFlush, Return, Idle, Flushes
<1>15. ASSUME NEW t \in Threads, FlushLocked(t) PROVE TypeOK'
  BY <1>15 DEF FlushLocked, Flushes
<1>16. ASSUME NEW t \in Threads, LockFile(t) PROVE TypeOK'
  BY <1>16 DEF LockFile
<1>17. ASSUME NEW t \in Threads, RLockMu(t) PROVE TypeOK'
  BY <1>17 DEF RLockMu
<1>18. ASSUME NEW t \in Threads, OpenFails(t) PROVE TypeOK'
  BY <1>18 DEF OpenFails, Return, Idle, Flushes
<1>19. ASSUME NEW t \in Threads, WriteFile(t) PROVE TypeOK'
  BY <1>19 DEF WriteFile, Return, Idle
<1>20. ASSUME NEW t \in Threads, WriteFails(t) PROVE TypeOK'
  BY <1>20 DEF WriteFails, Return, Idle
<1>21. ASSUME Crash PROVE TypeOK'
  BY <1>21 DEF Crash, Idle
<1>22. ASSUME New PROVE TypeOK'
  BY <1>22 DEF New
<1>23. ASSUME OperatorRemovesFile PROVE TypeOK'
  BY <1>23 DEF OperatorRemovesFile
<1>24. ASSUME Tick PROVE TypeOK'
  BY <1>24, AgedItems DEF Tick, AllAged
<1>25. ASSUME NEW k \in Keys, BucketExpires(k) PROVE TypeOK'
  BY <1>25 DEF BucketExpires
<1>26. CASE UNCHANGED vars
  BY <1>26 DEF vars
<1> QED
  BY <1>1, <1>2, <1>3, <1>4, <1>5, <1>6, <1>7, <1>8, <1>9, <1>10, <1>11, <1>12, <1>13,
     <1>14, <1>15, <1>16, <1>17, <1>18, <1>19, <1>20, <1>21, <1>22, <1>23, <1>24, <1>25, <1>26
  DEF Next, LockStep, FileLockStep, FreeStep, Fault

(* mu is held from the write of a key to the return of its call, fileMu     *)
(* from the truncation of the file to the return, on every error too.       *)
LEMMA LockStepInv ==
  TypeOK /\ LockInv /\ [Next]_vars => LockInv'
<1> SUFFICES ASSUME TypeOK, LockInv,
                    [Next]_vars
             PROVE  LockInv'
  OBVIOUS
<1> USE DEF TypeOK, Call, obs, LockInv, CallInv, HoldsMu, HoldsFileMu, PC, Op
<1> USE KVCacheAssumption
<1>1. ASSUME NEW t \in Callers, NEW k \in Keys, NEW v \in Values, NEW ttl \in TTLs,
              Set(t, k, v, ttl) PROVE LockInv'
  BY <1>1, NewItems, NoneIsNoItem DEF Set, Begin, Call
<1>2. ASSUME NEW t \in Callers, NEW k \in Keys, NEW v \in Values,
              Edit(t, k, v) PROVE LockInv'
  BY <1>2, NewItems, NoneIsNoItem DEF Edit, Begin, Idle
<1>3. ASSUME NEW t \in Callers, NEW k \in Keys, Del(t, k) PROVE LockInv'
  BY <1>3 DEF Del, Begin
<1>4. ASSUME NEW t \in Callers, NEW k \in Keys, GetHit(t, k) PROVE LockInv'
  BY <1>4 DEF GetHit, Begin, Live
<1>5. ASSUME NEW t \in Callers, NEW k \in Keys, GetMiss(t, k) PROVE LockInv'
  BY <1>5 DEF GetMiss, Begin
<1>6. ASSUME Sweep PROVE LockInv'
  BY <1>6 DEF Sweep, Begin
<1>7. ASSUME NEW t \in Threads, FlushCall(t) PROVE LockInv'
  BY <1>7 DEF FlushCall, Begin
<1>8. ASSUME NEW t \in Threads, GetFromNATS(t) PROVE LockInv'
  BY <1>8 DEF GetFromNATS, Idle, Live
<1>9. ASSUME NEW t \in Threads, WriteKey(t) PROVE LockInv'
  BY <1>9, WrittenItems DEF WriteKey, Continue, CanLock
<1>10. ASSUME NEW t \in Threads, EditMissing(t) PROVE LockInv'
  BY <1>10 DEF EditMissing, Return, Idle, CanLock
<1>11. ASSUME NEW t \in Threads, SweepExpired(t) PROVE LockInv'
  BY <1>11 DEF SweepExpired, Continue, CanLock
<1>12. ASSUME NEW t \in Threads, Sync(t) PROVE LockInv'
  BY <1>12 DEF Sync, Continue
<1>13. ASSUME NEW t \in Threads, SyncFails(t) PROVE LockInv'
  <2>1. CASE Op(t) = "touch"
    <3>1. Continue(t, "flush", go[t].item) /\ go[t].item \in Item \union {None}
      BY <1>13, <2>1 DEF SyncFails
    <3>2. /\ go'[t].pc = "flush" /\ go'[t].item = go[t].item
          /\ go'[t].op = go[t].op /\ go'[t].key = go[t].key
          /\ \A u \in Threads \ {t} : go'[u] = go[u]
      BY <3>1, ContinuedCalls
    <3> QED
      BY <1>13, <2>1, <3>1, <3>2 DEF SyncFails, Continue
  <2>2. CASE Op(t) # "touch"
    BY <1>13, <2>2 DEF SyncFails, Return, Idle
  <2> QED
    BY <2>1, <2>2
<1>14. ASSUME NEW t \in Threads, NoFlush(t) PROVE LockInv'
  BY <1>14 DEF NoFlush, Return, Idle, Flushes
<1>15. ASSUME NEW t \in Threads, FlushLocked(t) PROVE LockInv'
  BY <1>15 DEF FlushLocked, Flushes
<1>16. ASSUME NEW t \in Threads, LockFile(t) PROVE LockInv'
  BY <1>16 DEF LockFile
<1>17. ASSUME NEW t \in Threads, RLockMu(t) PROVE LockInv'
  BY <1>17 DEF RLockMu
<1>18. ASSUME NEW t \in Threads, OpenFails(t) PROVE LockInv'
  BY <1>18 DEF OpenFails, Return, Idle, Flushes
<1>19. ASSUME NEW t \in Threads, WriteFile(t) PROVE LockInv'
  BY <1>19 DEF WriteFile, Return, Idle
<1>20. ASSUME NEW t \in Threads, WriteFails(t) PROVE LockInv'
  BY <1>20 DEF WriteFails, Return, Idle
<1>21. ASSUME Crash PROVE LockInv'
  BY <1>21 DEF Crash, Idle
<1>22. ASSUME New PROVE LockInv'
  BY <1>22 DEF New
<1>23. ASSUME OperatorRemovesFile PROVE LockInv'
  BY <1>23 DEF OperatorRemovesFile
<1>24. ASSUME Tick PROVE LockInv'
  BY <1>24, AgedItems DEF Tick, AllAged
<1>25. ASSUME NEW k \in Keys, BucketExpires(k) PROVE LockInv'
  BY <1>25 DEF BucketExpires
<1>26. CASE UNCHANGED vars
  BY <1>26 DEF vars
<1> QED
  BY <1>1, <1>2, <1>3, <1>4, <1>5, <1>6, <1>7, <1>8, <1>9, <1>10, <1>11, <1>12, <1>13,
     <1>14, <1>15, <1>16, <1>17, <1>18, <1>19, <1>20, <1>21, <1>22, <1>23, <1>24, <1>25, <1>26
  DEF Next, LockStep, FileLockStep, FreeStep, Fault

(* An item that was acknowledged stays in memory until its key is written,  *)
(* so that each flush, whoever makes it, writes it to the file again.       *)
LEMMA FileStep ==
  TypeOK /\ LockInv /\ FileInv /\ [Next]_vars => FileInv'
<1> SUFFICES ASSUME TypeOK, LockInv, FileInv,
                    [Next]_vars
             PROVE  FileInv'
  OBVIOUS
<1> USE DEF TypeOK, Call, obs, LockInv, CallInv, HoldsMu, HoldsFileMu, PC,
            Op, FileInv, Contents, Empty
<1> USE KVCacheAssumption
<1>1. ASSUME NEW t \in Callers, NEW k \in Keys, NEW v \in Values, NEW ttl \in TTLs,
              Set(t, k, v, ttl) PROVE FileInv'
  BY <1>1, NewItems, NoneIsNoItem DEF Set, Begin, Call
<1>2. ASSUME NEW t \in Callers, NEW k \in Keys, NEW v \in Values,
              Edit(t, k, v) PROVE FileInv'
  BY <1>2, NewItems, NoneIsNoItem DEF Edit, Begin, Idle
<1>3. ASSUME NEW t \in Callers, NEW k \in Keys, Del(t, k) PROVE FileInv'
  BY <1>3 DEF Del, Begin
<1>4. ASSUME NEW t \in Callers, NEW k \in Keys, GetHit(t, k) PROVE FileInv'
  BY <1>4 DEF GetHit, Begin, Live
<1>5. ASSUME NEW t \in Callers, NEW k \in Keys, GetMiss(t, k) PROVE FileInv'
  BY <1>5 DEF GetMiss, Begin
<1>6. ASSUME Sweep PROVE FileInv'
  BY <1>6 DEF Sweep, Begin
<1>7. ASSUME NEW t \in Threads, FlushCall(t) PROVE FileInv'
  BY <1>7 DEF FlushCall, Begin
<1>8. ASSUME NEW t \in Threads, GetFromNATS(t) PROVE FileInv'
  BY <1>8 DEF GetFromNATS, Idle, Live
<1>9. ASSUME NEW t \in Threads, WriteKey(t) PROVE FileInv'
  BY <1>9, WrittenItems DEF WriteKey, Continue, CanLock
<1>10. ASSUME NEW t \in Threads, EditMissing(t) PROVE FileInv'
  BY <1>10 DEF EditMissing, Return, Idle, CanLock
<1>11. ASSUME NEW t \in Threads, SweepExpired(t) PROVE FileInv'
  BY <1>11 DEF SweepExpired, Continue, CanLock
<1>12. ASSUME NEW t \in Threads, Sync(t) PROVE FileInv'
  BY <1>12 DEF Sync, Continue
<1>13. ASSUME NEW t \in Threads, SyncFails(t) PROVE FileInv'
  BY <1>13 DEF SyncFails, Continue, Return, Idle
<1>14. ASSUME NEW t \in Threads, NoFlush(t) PROVE FileInv'
  BY <1>14 DEF NoFlush, Return, Idle, Flushes
<1>15. ASSUME NEW t \in Threads, FlushLocked(t) PROVE FileInv'
  BY <1>15 DEF FlushLocked, Flushes
<1>16. ASSUME NEW t \in Threads, LockFile(t) PROVE FileInv'
  BY <1>16 DEF LockFile
<1>17. ASSUME NEW t \in Threads, RLockMu(t) PROVE FileInv'
  BY <1>17 DEF RLockMu
<1>18. ASSUME NEW t \in Threads, OpenFails(t) PROVE FileInv'
  BY <1>18 DEF OpenFails, Return, Idle, Flushes
<1>19. ASSUME NEW t \in Threads, WriteFile(t) PROVE FileInv'
  BY <1>19 DEF WriteFile, Return, Idle
<1>20. ASSUME NEW t \in Threads, WriteFails(t) PROVE FileInv'
  BY <1>20 DEF WriteFails, Return, Idle
<1>21. ASSUME Crash PROVE FileInv'
  BY <1>21 DEF Crash, Idle
<1>22. ASSUME New PROVE FileInv'
  BY <1>22 DEF New
<1>23. ASSUME OperatorRemovesFile PROVE FileInv'
  BY <1>23 DEF OperatorRemovesFile
<1>24. ASSUME Tick PROVE FileInv'
  BY <1>24, AgedItems DEF Tick, AllAged
<1>25. ASSUME NEW k \in Keys, BucketExpires(k) PROVE FileInv'
  BY <1>25 DEF BucketExpires
<1>26. CASE UNCHANGED vars
  BY <1>26 DEF vars
<1> QED
  BY <1>1, <1>2, <1>3, <1>4, <1>5, <1>6, <1>7, <1>8, <1>9, <1>10, <1>11, <1>12, <1>13,
     <1>14, <1>15, <1>16, <1>17, <1>18, <1>19, <1>20, <1>21, <1>22, <1>23, <1>24, <1>25, <1>26
  DEF Next, LockStep, FileLockStep, FreeStep, Fault

(* Under mu, what memory and bucket hold for a key differ only while the    *)
(* put of its last write is on its way, and afterwards if it failed.        *)
LEMMA BucketStep ==
  TypeOK /\ LockInv /\ BucketInv /\ [Next]_vars => BucketInv'
<1> SUFFICES ASSUME TypeOK, LockInv, BucketInv,
                    [Next]_vars
             PROVE  BucketInv'
  OBVIOUS
<1> USE DEF TypeOK, Call, obs, LockInv, CallInv, HoldsMu, HoldsFileMu, PC,
            Op, BucketInv, Contents, Empty
<1> USE KVCacheAssumption
<1>1. ASSUME NEW t \in Callers, NEW k \in Keys, NEW v \in Values, NEW ttl \in TTLs,
              Set(t, k, v, ttl) PROVE BucketInv'
  BY <1>1, NewItems, NoneIsNoItem DEF Set, Begin, Call
<1>2. ASSUME NEW t \in Callers, NEW k \in Keys, NEW v \in Values,
              Edit(t, k, v) PROVE BucketInv'
  BY <1>2, NewItems, NoneIsNoItem DEF Edit, Begin, Idle
<1>3. ASSUME NEW t \in Callers, NEW k \in Keys, Del(t, k) PROVE BucketInv'
  BY <1>3 DEF Del, Begin
<1>4. ASSUME NEW t \in Callers, NEW k \in Keys, GetHit(t, k) PROVE BucketInv'
  BY <1>4 DEF GetHit, Begin, Live
<1>5. ASSUME NEW t \in Callers, NEW k \in Keys, GetMiss(t, k) PROVE BucketInv'
  BY <1>5 DEF GetMiss, Begin
<1>6. ASSUME Sweep PROVE BucketInv'
  BY <1>6 DEF Sweep, Begin
<1>7. ASSUME NEW t \in Threads, FlushCall(t) PROVE BucketInv'
  BY <1>7 DEF FlushCall, Begin
<1>8. ASSUME NEW t \in Threads, GetFromNATS(t) PROVE BucketInv'
  BY <1>8 DEF GetFromNATS, Idle, Live
<1>9. ASSUME NEW t \in Threads, WriteKey(t) PROVE BucketInv'
  <2>1. /\ go[t].key \in Keys /\ items' = [items EXCEPT ![go[t].key] = Written(t)]
        /\ UNCHANGED <<kv, up>>
        /\ \A u \in Threads : PC(u) # "nats"
    BY <1>9, WrittenItems DEF WriteKey, CanLock
  <2>2. CASE Syncs(t)
    <3>1. go' = [go EXCEPT ![t] = [@ EXCEPT !.pc = "nats", !.item = Written(t)]]
      BY <1>9, <2>2 DEF WriteKey, Continue
    <3>2. diverged \subseteq diverged'
      BY <1>9 DEF WriteKey
    <3> QED
      BY <2>1, <3>1, <3>2
  <2>3. CASE ~Syncs(t)
    <3>1. go' = [go EXCEPT ![t] = [@ EXCEPT !.pc = "flush", !.item = Written(t)]]
      BY <1>9, <2>3 DEF WriteKey, Continue
    <3>2. UseNATS => Op(t) = "adopt" /\ Written(t) = go[t].item
      BY <1>9, <2>3 DEF Syncs, Written
    <3>3. UseNATS =>
            diverged' = IF kv[go[t].key] # go[t].item
                        THEN diverged \union {go[t].key} ELSE diverged
      BY <1>9, <3>2 DEF WriteKey
    <3> QED
      BY <2>1, <3>1, <3>2, <3>3
  <2> QED
    BY <2>2, <2>3
<1>10. ASSUME NEW t \in Threads, EditMissing(t) PROVE BucketInv'
  BY <1>10 DEF EditMissing, Return, Idle, CanLock
<1>11. ASSUME NEW t \in Threads, SweepExpired(t) PROVE BucketInv'
  BY <1>11 DEF SweepExpired, Continue, CanLock
<1>12. ASSUME NEW t \in Threads, Sync(t) PROVE BucketInv'
  BY <1>12 DEF Sync, Continue
<1>13. ASSUME NEW t \in Threads, SyncFails(t) PROVE BucketInv'
  <2>1. /\ PC(t) = "nats" /\ go[t].key \in Keys
        /\ UNCHANGED <<items, up>> /\ diverged' = diverged \union {go[t].key}
        /\ \A k \in Keys \ {go[t].key} : kv'[k] = kv[k]
    BY <1>13 DEF SyncFails
  <2>2. \A u \in Threads : PC(u) = "nats" => u = t
    BY <2>1
  <2>3. \A u \in Threads : go'[u].pc # "nats"
    <3>1. CASE Op(t) = "touch"
      <4>1. Continue(t, "flush", go[t].item) /\ go[t].item \in Item \union {None}
        BY <1>13, <3>1 DEF SyncFails
      <4>2. go'[t].pc = "flush" /\ \A u \in Threads \ {t} : go'[u] = go[u]
        BY <4>1, ContinuedCalls
      <4> QED
        BY <2>2, <4>2
    <3>2. CASE Op(t) # "touch"
      BY <1>13, <2>2, <3>2 DEF SyncFails, Return, Idle
    <3> QED
      BY <3>1, <3>2
  <2> QED
    BY <2>1, <2>2, <2>3
<1>14. ASSUME NEW t \in Threads, NoFlush(t) PROVE BucketInv'
  BY <1>14 DEF NoFlush, Return, Idle, Flushes
<1>15. ASSUME NEW t \in Threads, FlushLocked(t) PROVE BucketInv'
  BY <1>15 DEF FlushLocked, Flushes
<1>16. ASSUME NEW t \in Threads, LockFile(t) PROVE BucketInv'
  BY <1>16 DEF LockFile
<1>17. ASSUME NEW t \in Threads, RLockMu(t) PROVE BucketInv'
  BY <1>17 DEF RLockMu
<1>18. ASSUME NEW t \in Threads, OpenFails(t) PROVE BucketInv'
  BY <1>18 DEF OpenFails, Return, Idle, Flushes
<1>19. ASSUME NEW t \in Threads, WriteFile(t) PROVE BucketInv'
  BY <1>19 DEF WriteFile, Return, Idle
<1>20. ASSUME NEW t \in Threads, WriteFails(t) PROVE BucketInv'
  BY <1>20 DEF WriteFails, Return, Idle
<1>21. ASSUME Crash PROVE BucketInv'
  BY <1>21 DEF Crash, Idle
<1>22. ASSUME New PROVE BucketInv'
  BY <1>22 DEF New
<1>23. ASSUME OperatorRemovesFile PROVE BucketInv'
  BY <1>23 DEF OperatorRemovesFile
<1>24. ASSUME Tick PROVE BucketInv'
  BY <1>24, AgedItems DEF Tick, AllAged
<1>25. ASSUME NEW k \in Keys, BucketExpires(k) PROVE BucketInv'
  BY <1>25 DEF BucketExpires
<1>26. CASE UNCHANGED vars
  BY <1>26 DEF vars
<1> QED
  BY <1>1, <1>2, <1>3, <1>4, <1>5, <1>6, <1>7, <1>8, <1>9, <1>10, <1>11, <1>12, <1>13,
     <1>14, <1>15, <1>16, <1>17, <1>18, <1>19, <1>20, <1>21, <1>22, <1>23, <1>24, <1>25, <1>26
  DEF Next, LockStep, FileLockStep, FreeStep, Fault

(* Each part of the invariant holds at first and is kept by every step.     *)
LEMMA Invariance == Init /\ [][Next]_vars => []Inv
<1>1. Init => Inv
  BY KVCacheAssumption
  DEF Init, Inv, TypeOK, Call, Contents, Empty, Idle, LockInv, CallInv, HoldsMu, HoldsFileMu,
      PC, Op, FileInv, BucketInv
<1>2. Inv /\ [Next]_vars => Inv'
  BY TypesStep, LockStepInv, FileStep, BucketStep DEF Inv
<1> QED
  BY <1>1, <1>2, PTL

(* The cache stays well formed in every behaviour, for any goroutines,      *)
(* keys, values and ttls.                                                   *)
THEOREM KVCacheTypes == Spec => []TypeOK
<1>1. Inv => TypeOK
  BY DEF Inv
<1> QED
  BY <1>1, Invariance, PTL DEF Spec

(* In a cache that flushes at once a Set or Edit that returned no error is  *)
(* in the file until its key is written again, unless a crash or an error   *)
(* tore the file (cache.go:134-258).                                        *)
THEOREM AcknowledgedItemsAreInFile == Spec => []AckedIsInFile
<1>1. Inv => AckedIsInFile
  BY DEF Inv, FileInv, AckedIsInFile
<1> QED
  BY <1>1, Invariance, PTL DEF Spec

(* When no writer has mu, memory and bucket hold the same item for a key    *)
(* that both hold, unless a put failed or came late (cache.go:187-348).     *)
THEOREM MemoryAndBucketAgree == Spec => []MemoryAgreesWithBucket
<1>1. Inv => MemoryAgreesWithBucket
  <2> SUFFICES ASSUME Inv, mu = None, UseNATS, up
               PROVE  \A k \in Keys \ diverged :
                        items[k] # None /\ kv[k] # None => items[k] = kv[k]
    BY DEF MemoryAgreesWithBucket
  <2>1. \A t \in Threads : PC(t) # "nats"
    BY KVCacheAssumption DEF Inv, LockInv, HoldsMu
  <2> QED
    BY <2>1 DEF Inv, BucketInv
<1> QED
  BY <1>1, Invariance, PTL DEF Spec

(* A flush that waits for mu with fileMu held, beside a call that flushes   *)
(* at once with mu held, is the only way for all calls in progress to wait, *)
(* for any goroutines, and takes FlushImmediately (cache.go:139-258).       *)
THEOREM NoOtherLockUp == Spec => []OnlyTheCycleLocksUp
<1>1. ASSUME Inv, ~immediate PROVE NoLockCycle
  BY <1>1 DEF NoLockCycle, Flushes
<1>2. ASSUME Inv, NoLockCycle, NEW t \in Threads, PC(t) # "idle"
      PROVE  \E u \in Threads : PC(u) # "idle" /\ ~Waits(u)
  <2>1. /\ LockInv /\ \A u \in Threads : u # None /\ go[u] \in Call
        /\ mu \in Threads \union {None} /\ fileMu \in Threads \union {None}
    BY <1>2, KVCacheAssumption DEF Inv, TypeOK
  <2> SUFFICES ASSUME \A u \in Threads : PC(u) # "idle" => Waits(u) PROVE FALSE
    OBVIOUS
  <2>2. ASSUME NEW u \in Threads, fileMu = u PROVE FALSE
    <3>1. PC(u) = "rlock" /\ mu # None
      BY <2>1, <2>2 DEF LockInv, HoldsFileMu, Waits, PC
    <3>2. PC(mu) = "flush" /\ Flushes(Op(mu))
      BY <2>1, <2>2, <3>1 DEF LockInv, HoldsMu, HoldsFileMu, Waits, PC, Op
    <3> QED
      BY <1>2, <2>1, <2>2, <3>1, <3>2 DEF NoLockCycle, PC, Op
  <2>3. fileMu = None /\ \A u \in Threads : ~HoldsFileMu(u)
    BY <2>1, <2>2 DEF LockInv
  <2>4. \A u \in Threads : PC(u) \in {"idle", "lock"}
    BY <2>1, <2>3 DEF HoldsFileMu, Waits, PC
  <2>5. mu = None
    BY <2>1, <2>4 DEF LockInv, HoldsMu
  <2> QED
    BY <1>2, <2>1, <2>4, <2>5 DEF Waits, CanLock, PC
<1>3. Inv => OnlyTheCycleLocksUp
  BY <1>1, <1>2 DEF OnlyTheCycleLocksUp, PC
<1> QED
  BY <1>3, Invariance, PTL DEF Spec
=============================================================================
