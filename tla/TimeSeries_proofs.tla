-------------------------- MODULE TimeSeries_proofs --------------------------
(***************************************************************************)
(* The time series cache (TimeSeries, Partition): its partitions stay well *)
(* formed, GetRange and GetNearest return what they should, and seen from  *)
(* its callers it is TimeSeriesStore.  Loops are recursive functions here; *)
(* that one has a value for every turn is shown by the least turn at which *)
(* it would not (LeastNumber).                                             *)
(***************************************************************************)
EXTENDS TimeSeries, Loops, SequenceTheorems, FiniteSetTheorems, TLAPS

Ascending(items) == \A i, j \in DOMAIN items : i < j => items[i].ts < items[j].ts

\* What a partition is: items of S in ascending order, and their index.
Sound(p, S) ==
  /\ p = [Items |-> p.Items, ItemsMap |-> p.ItemsMap]
  /\ p.Items \in Seq(S)
  /\ WellFormed(p)

(* Search finds where t belongs among items in ascending order.             *)
LEMMA SearchFinds ==
  ASSUME NEW S, \A x \in S : x.ts \in Int, NEW items \in Seq(S), Ascending(items), NEW t \in Int
  PROVE  /\ Search(items, t) \in 1..(Len(items) + 1)
         /\ \A j \in 1..Len(items) : items[j].ts < t <=> j < Search(items, t)
<1> DEFINE T == {i \in 1..(Len(items) + 1) : i = Len(items) + 1 \/ items[i].ts >= t}
<1>1. Len(items) \in Nat /\ DOMAIN items = 1..Len(items)
  BY LenProperties
<1>2. \A i \in 1..Len(items) : items[i].ts \in Int
  BY <1>1, ElementOfSeq
<1>3. PICK i \in T : \A j \in T : i <= j
  <2>1. T \in SUBSET Nat /\ Len(items) + 1 \in T
    BY <1>1
  <2> QED
    BY <2>1, LeastNumber
<1>4. /\ i \in 1..(Len(items) + 1)
      /\ \A j \in 1..(i - 1) : items[j].ts < t
      /\ i <= Len(items) => items[i].ts >= t
  BY <1>1, <1>2, <1>3
<1>5. /\ Search(items, t) \in 1..(Len(items) + 1)
      /\ \A j \in 1..(Search(items, t) - 1) : items[j].ts < t
      /\ Search(items, t) <= Len(items) => items[Search(items, t)].ts >= t
  BY <1>4 DEF Search
<1> QED
  BY <1>1, <1>2, <1>5 DEF Ascending

(* The loop that copies a slice has a value for each number of its turns.   *)
LEMMA LoopEnds ==
  ASSUME NEW S, NEW items \in Seq(S), NEW kept
  PROVE  \E f : /\ f[0] = <<>>
                /\ \A n \in 1..Len(items) :
                     f[n] = IF items[n] \in kept THEN Append(f[n - 1], items[n]) ELSE f[n - 1]
                /\ Copied(items, kept) = f[Len(items)]
<1> DEFINE N == Len(items)
           Body(f, n) == IF n = 0 THEN <<>>
                         ELSE IF items[n] \in kept THEN Append(f[n - 1], items[n]) ELSE f[n - 1]
           Upto(n) == \E f : f = [m \in 0..n |-> Body(f, m)]
<1>1. N \in Nat
  BY LenProperties
<1>2. Upto(0)
  <2>1. [m \in 0..0 |-> <<>>] = [m \in 0..0 |-> Body([k \in 0..0 |-> <<>>], m)]
    OBVIOUS
  <2> QED
    BY <2>1
<1>3. ASSUME NEW n \in 1..N, Upto(n - 1) PROVE Upto(n)
  <2>1. PICK f : f = [m \in 0..(n - 1) |-> Body(f, m)]
    BY <1>3
  <2> DEFINE g == [m \in 0..n |-> IF m < n THEN f[m] ELSE Body(f, n)]
  <2>2. ASSUME NEW m \in 0..n PROVE g[m] = Body(g, m)
    <3>1. m # 0 => m - 1 \in 0..(n - 1) /\ m - 1 \in 0..n
      BY <1>1
    <3>2. m # 0 => g[m - 1] = f[m - 1]
      BY <1>1, <3>1
    <3>3. Body(g, m) = Body(f, m)
      BY <3>2
    <3>4. g[m] = Body(f, m)
      <4> HIDE DEF Body
      <4> QED
        BY <1>1, <2>1
    <3> QED
      BY <3>3, <3>4
  <2>3. g = [m \in 0..n |-> Body(g, m)]
    <3> HIDE DEF Body
    <3> QED
      BY <2>2
  <2> QED
    BY <2>3
<1>4. Upto(N)
  <2>1. SUFFICES ASSUME ~ Upto(N) PROVE FALSE
    OBVIOUS
  <2> DEFINE T == {n \in 0..N : ~ Upto(n)}
  <2> HIDE DEF Upto
  <2>2. PICK n \in T : \A m \in T : n <= m
    <3>1. T \in SUBSET Nat /\ T # {}
      BY <1>1, <2>1
    <3> QED
      BY <3>1, LeastNumber
  <2>3. n # 0 /\ n \in 1..N
    BY <1>1, <1>2, <2>2
  <2>4. n - 1 \in 0..N /\ ~ (n <= n - 1)
    BY <1>1, <2>3
  <2>5. Upto(n - 1)
    BY <2>2, <2>4
  <2> QED
    BY <1>3, <2>2, <2>3, <2>5
<1> DEFINE upTo == CHOOSE f : f = [n \in 0..N |-> Body(f, n)]
<1>5. upTo = [n \in 0..N |-> Body(upTo, n)]
  BY <1>4
<1>6. Copied(items, kept) = upTo[N]
  BY DEF Copied
<1> HIDE DEF upTo
<1>7. \A n \in 0..N : upTo[n] = Body(upTo, n)
  BY <1>5
<1> QED
  BY <1>1, <1>6, <1>7

(* A sequence grows by an item that belongs after all that it has.          *)
LEMMA AppendLast ==
  ASSUME NEW S, NEW items \in Seq(S), NEW x \in S
  PROVE  /\ Append(items, x) \in Seq(S)
         /\ ToSet(Append(items, x)) = ToSet(items) \union {x}
         /\ Ascending(items) /\ (\A y \in ToSet(items) : y.ts < x.ts) =>
              Ascending(Append(items, x))
<1> DEFINE c == Append(items, x)
<1>1. /\ Len(items) \in Nat /\ DOMAIN items = 1..Len(items)
      /\ c \in Seq(S) /\ DOMAIN c = 1..(Len(items) + 1)
      /\ \A i \in 1..Len(items) : c[i] = items[i]
      /\ c[Len(items) + 1] = x
  BY LenProperties, AppendProperties
<1> HIDE DEF c
<1>2. ToSet(c) = ToSet(items) \union {x}
  BY <1>1 DEF ToSet
<1>3. ASSUME Ascending(items), \A y \in ToSet(items) : y.ts < x.ts,
             NEW i \in DOMAIN c, NEW j \in DOMAIN c, i < j
      PROVE  c[i].ts < c[j].ts
  <2>1. CASE j \in DOMAIN items
    BY <1>1, <1>3, <2>1 DEF Ascending
  <2>2. CASE j = Len(items) + 1
    <3>1. i \in DOMAIN items
      BY <1>1, <1>3, <2>2
    <3> QED
      BY <1>1, <1>3, <2>2, <3>1 DEF ToSet
  <2> QED
    BY <1>1, <2>1, <2>2
<1> QED
  BY <1>1, <1>2, <1>3 DEF Ascending, c

(* The loop copies the items in kept, and no others, in their order.        *)
LEMMA CopiedItems ==
  ASSUME NEW S, NEW items \in Seq(S), NEW kept
  PROVE  /\ Copied(items, kept) \in Seq(S)
         /\ ToSet(Copied(items, kept)) = ToSet(items) \intersect kept
         /\ Ascending(items) => Ascending(Copied(items, kept))
<1> DEFINE N == Len(items)
           First(n) == {items[i] : i \in 1..n}
           Good(c, n) == /\ c \in Seq(S)
                         /\ ToSet(c) = First(n) \intersect kept
                         /\ Ascending(items) => Ascending(c)
<1>1. N \in Nat /\ DOMAIN items = 1..N /\ \A i \in 1..N : items[i] \in S
  BY LenProperties, ElementOfSeq
<1>2. PICK f : /\ f[0] = <<>>
               /\ \A n \in 1..N :
                    f[n] = IF items[n] \in kept THEN Append(f[n - 1], items[n]) ELSE f[n - 1]
               /\ Copied(items, kept) = f[N]
  BY LoopEnds
<1>3. Good(f[0], 0)
  <2>1. <<>> \in Seq(S) /\ ToSet(<<>>) = {} /\ Ascending(<<>>)
    BY EmptySeq DEF ToSet, Ascending
  <2> QED
    BY <1>2, <2>1
<1>4. ASSUME NEW n \in 1..N, Good(f[n - 1], n - 1) PROVE Good(f[n], n)
  <2>1. First(n) = First(n - 1) \union {items[n]}
    BY <1>1
  <2>2. CASE items[n] \notin kept
    BY <1>2, <1>4, <2>1, <2>2
  <2>3. CASE items[n] \in kept
    <3>1. f[n] = Append(f[n - 1], items[n]) /\ items[n] \in S
      BY <1>1, <1>2, <2>3
    <3>2. ASSUME Ascending(items), NEW y \in ToSet(f[n - 1]) PROVE y.ts < items[n].ts
      <4>1. PICK i \in 1..(n - 1) : y = items[i]
        BY <1>4, <3>2
      <4>2. i \in 1..N /\ i < n
        BY <1>1
      <4> QED
        BY <1>1, <3>2, <4>1, <4>2 DEF Ascending
    <3> QED
      BY <1>4, <2>1, <2>3, <3>1, <3>2, AppendLast
  <2> QED
    BY <2>2, <2>3
<1>5. Good(f[N], N)
  <2>1. SUFFICES ASSUME ~ Good(f[N], N) PROVE FALSE
    OBVIOUS
  <2> DEFINE T == {n \in 0..N : ~ Good(f[n], n)}
  <2> HIDE DEF Good
  <2>2. PICK n \in T : \A m \in T : n <= m
    <3>1. T \in SUBSET Nat /\ T # {}
      BY <1>1, <2>1
    <3> QED
      BY <3>1, LeastNumber
  <2>3. n # 0 /\ n \in 1..N
    BY <1>1, <1>3, <2>2
  <2>4. n - 1 \in 0..N /\ ~ (n <= n - 1)
    BY <1>1, <2>3
  <2>5. Good(f[n - 1], n - 1)
    BY <2>2, <2>4
  <2> QED
    BY <1>4, <2>2, <2>3, <2>5
<1>6. First(N) = ToSet(items)
  BY <1>1 DEF ToSet
<1> QED
  BY <1>2, <1>5, <1>6

-----------------------------------------------------------------------------
\* The methods of a partition.

(* In ascending order no two items have one timestamp.                      *)
LEMMA OneItemPerTime ==
  ASSUME NEW S, \A x \in S : x.ts \in Int, NEW items \in Seq(S), Ascending(items),
         NEW i \in DOMAIN items, NEW j \in DOMAIN items, items[i].ts = items[j].ts
  PROVE  i = j
<1>1. DOMAIN items \subseteq Int /\ items[i].ts \in Int /\ items[j].ts \in Int
  BY LenProperties, ElementOfSeq
<1> QED
  BY <1>1 DEF Ascending

(* What cleanup and DeleteRange rebuild is a partition with the items that  *)
(* they keep (partition.go:148-160, cache.go:345-362).                      *)
LEMMA KeepingSound ==
  ASSUME NEW S, \A x \in S : x.ts \in Int, NEW p, Sound(p, S), NEW kept
  PROVE  /\ Sound(Keeping(p, kept), S)
         /\ ToSet(Keeping(p, kept).Items) = ToSet(p.Items) \intersect kept
<1> DEFINE items == Copied(p.Items, kept)
           index == [t \in {items[i].ts : i \in DOMAIN items} |->
                       CHOOSE i \in DOMAIN items : items[i].ts = t]
<1>1. Keeping(p, kept) = [Items |-> items, ItemsMap |-> index]
  BY DEF Keeping
<1>2. /\ items \in Seq(S) /\ Ascending(items)
      /\ ToSet(items) = ToSet(p.Items) \intersect kept
  BY CopiedItems DEF Sound, WellFormed, Ascending
<1>3. ASSUME NEW i \in DOMAIN items PROVE index[items[i].ts] = i
  <2> DEFINE j == CHOOSE j \in DOMAIN items : items[j].ts = items[i].ts
  <2>1. index[items[i].ts] = j
    OBVIOUS
  <2>2. j \in DOMAIN items /\ items[j].ts = items[i].ts
    OBVIOUS
  <2> HIDE DEF j, items, index
  <2>3. j = i
    BY <1>2, <1>3, <2>2, OneItemPerTime
  <2> QED
    BY <2>1, <2>3
<1>4. DOMAIN index = {items[i].ts : i \in DOMAIN items}
  OBVIOUS
<1> HIDE DEF items, index
<1>5. WellFormed([Items |-> items, ItemsMap |-> index])
  BY <1>2, <1>3, <1>4 DEF WellFormed, Ascending
<1> QED
  BY <1>1, <1>2, <1>5 DEF Sound

(* InsertAt puts an item at a position and moves the ones behind it.        *)
LEMMA Inserted ==
  ASSUME NEW S, NEW items \in Seq(S), NEW x \in S, NEW k \in 1..(Len(items) + 1)
  PROVE  /\ InsertAt(items, k, x) \in Seq(S)
         /\ Len(InsertAt(items, k, x)) = Len(items) + 1
         /\ \A i \in 1..(Len(items) + 1) :
              InsertAt(items, k, x)[i] = IF i < k THEN items[i]
                                         ELSE IF i = k THEN x ELSE items[i - 1]
<1> DEFINE n == Len(items)
           front == SubSeq(items, 1, k - 1)
           back == SubSeq(items, k, n)
<1>1. n \in Nat /\ k \in Nat
  BY LenProperties
<1>2. front \in Seq(S) /\ Len(front) = k - 1 /\ \A i \in 1..(k - 1) : front[i] = items[i]
  BY <1>1, SubSeqProperties, ElementOfSeq
<1>3. /\ back \in Seq(S) /\ Len(back) = n + 1 - k
      /\ \A i \in 1..(n + 1 - k) : back[i] = items[k + i - 1]
  BY <1>1, SubSeqProperties, ElementOfSeq
<1>4. <<x>> \in Seq(S) /\ Len(<<x>>) = 1 /\ <<x>>[1] = x
  OBVIOUS
<1>5. InsertAt(items, k, x) = front \o <<x>> \o back
  BY DEF InsertAt
<1> HIDE DEF front, back
<1>6. /\ front \o <<x>> \in Seq(S) /\ Len(front \o <<x>>) = k
      /\ \A i \in 1..k : (front \o <<x>>)[i] = IF i < k THEN items[i] ELSE x
  BY <1>1, <1>2, <1>4, ConcatProperties
<1> DEFINE c == (front \o <<x>>) \o back
<1>7. /\ c \in Seq(S) /\ Len(c) = n + 1
      /\ \A i \in 1..(n + 1) : c[i] = IF i <= k THEN (front \o <<x>>)[i] ELSE back[i - k]
  BY <1>1, <1>3, <1>6, ConcatProperties
<1> HIDE DEF c
<1>8. ASSUME NEW i \in 1..(n + 1)
      PROVE  c[i] = IF i < k THEN items[i] ELSE IF i = k THEN x ELSE items[i - 1]
  <2>1. CASE i <= k
    BY <1>1, <1>6, <1>7, <2>1
  <2>2. CASE i > k
    <3>1. i - k \in 1..(n + 1 - k) /\ k + (i - k) - 1 = i - 1
      BY <1>1, <2>2
    <3> QED
      BY <1>1, <1>3, <1>7, <2>2, <3>1, SMTT(30)
  <2> QED
    BY <1>1, <2>1, <2>2
<1> QED
  BY <1>5, <1>7, <1>8 DEF c

(* insert keeps a partition sound; of the timestamp it has the new item     *)
(* only, and of the others what it had (partition.go:36-60).                *)
LEMMA InsertSound ==
  ASSUME NEW S, \A x \in S : x.ts \in Int, NEW p, Sound(p, S), NEW item \in S
  PROVE  /\ Sound(insert(p, item), S)
         /\ ToSet(insert(p, item).Items) =
              {x \in ToSet(p.Items) : x.ts # item.ts} \union {item}
<1> DEFINE items == p.Items
           n == Len(items)
<1>1. /\ items \in Seq(S) /\ n \in Nat /\ DOMAIN items = 1..n /\ Ascending(items)
      /\ \A i \in 1..n : items[i] \in S /\ items[i].ts \in Int
      /\ DOMAIN p.ItemsMap = {items[i].ts : i \in 1..n}
      /\ \A i \in 1..n : p.ItemsMap[items[i].ts] = i
      /\ item.ts \in Int
  BY LenProperties, ElementOfSeq DEF Sound, WellFormed, Ascending
<1>2. CASE item.ts \in DOMAIN p.ItemsMap
  <2>1. PICK k \in 1..n : items[k].ts = item.ts
    BY <1>1, <1>2
  <2> DEFINE new == [items EXCEPT ![k] = item]
  <2>2. p.ItemsMap[item.ts] = k
    BY <1>1, <2>1
  <2>3. insert(p, item) = [Items |-> new, ItemsMap |-> p.ItemsMap]
    <3>1. insert(p, item) = [p EXCEPT !.Items[k] = item]
      BY <1>2, <2>2 DEF insert
    <3> QED
      BY <3>1 DEF Sound
  <2>4. /\ new \in Seq(S) /\ DOMAIN new = 1..n
        /\ \A i \in 1..n : new[i] = IF i = k THEN item ELSE items[i]
    BY <1>1, ExceptSeq
  <2> HIDE DEF new
  <2>5. \A i \in 1..n : new[i].ts = items[i].ts
    BY <2>1, <2>4
  <2>6. WellFormed([Items |-> new, ItemsMap |-> p.ItemsMap])
    <3>1. Ascending(new)
      BY <1>1, <2>4, <2>5 DEF Ascending
    <3>2. {new[i].ts : i \in 1..n} = {items[i].ts : i \in 1..n}
      BY <2>5
    <3>3. \A i \in 1..n : p.ItemsMap[new[i].ts] = i
      BY <1>1, <2>5
    <3>4. DOMAIN p.ItemsMap = {new[i].ts : i \in DOMAIN new}
      BY <1>1, <2>4, <3>2
    <3>5. \A i \in DOMAIN new : p.ItemsMap[new[i].ts] = i
      BY <2>4, <3>3
    <3> QED
      BY <3>1, <3>4, <3>5 DEF WellFormed, Ascending
  <2>7. ToSet(new) = {x \in ToSet(items) : x.ts # item.ts} \union {item}
    <3>1. \A i \in 1..n : items[i].ts = item.ts => i = k
      BY <1>1, <2>1, OneItemPerTime
    <3>2. ToSet(new) = {new[i] : i \in 1..n} /\ ToSet(items) = {items[i] : i \in 1..n}
      BY <1>1, <2>4 DEF ToSet
    <3>3. new[k] = item /\ \A i \in 1..n : items[i].ts # item.ts => new[i] = items[i]
      BY <2>1, <2>4
    <3>4. \A i \in 1..n : new[i] = item \/ (new[i] = items[i] /\ items[i].ts # item.ts)
      BY <2>4, <3>1
    <3> HIDE DEF items
    <3> QED
      BY <2>1, <3>2, <3>3, <3>4
  <2> QED
    BY <2>3, <2>4, <2>6, <2>7 DEF Sound
<1>3. CASE item.ts \notin DOMAIN p.ItemsMap
  <2> DEFINE k == Search(items, item.ts)
             new == InsertAt(items, k, item)
             moved == {i \in DOMAIN new : i >= k}
             index == [t \in DOMAIN p.ItemsMap \union {new[i].ts : i \in moved} |->
                         IF \E i \in moved : new[i].ts = t
                         THEN CHOOSE i \in moved : new[i].ts = t
                         ELSE p.ItemsMap[t]]
  <2>1. insert(p, item) = [Items |-> new, ItemsMap |-> index]
    BY <1>3 DEF insert
  <2>2. /\ k \in 1..(n + 1)
        /\ \A j \in 1..n : items[j].ts < item.ts <=> j < k
    BY <1>1, SearchFinds
  <2>3. /\ new \in Seq(S) /\ DOMAIN new = 1..(n + 1)
        /\ \A i \in 1..(n + 1) : new[i] = IF i < k THEN items[i]
                                          ELSE IF i = k THEN item ELSE items[i - 1]
    <3>1. /\ new \in Seq(S) /\ Len(new) = n + 1
          /\ \A i \in 1..(n + 1) : new[i] = IF i < k THEN items[i]
                                            ELSE IF i = k THEN item ELSE items[i - 1]
      <4>1. items \in Seq(S) /\ k \in 1..(n + 1)
        BY <1>1, <2>2
      <4> HIDE DEF items, k
      <4> QED
        BY <4>1, Inserted
    <3> HIDE DEF new, k
    <3>2. DOMAIN new = 1..(n + 1)
      BY <3>1, LenProperties
    <3> QED
      BY <3>1, <3>2
  <2>4. \A i \in 1..n : items[i].ts # item.ts
    BY <1>1, <1>3
  <2> HIDE DEF new, k
  <2>11. k \in Nat /\ \A i \in 1..(n + 1) : new[i] \in S /\ new[i].ts \in Int
    BY <1>1, <2>2, <2>3, ElementOfSeq
  <2>5. Ascending(new)
    <3> SUFFICES ASSUME NEW i \in 1..(n + 1), NEW j \in 1..(n + 1), i < j
                 PROVE  new[i].ts < new[j].ts
      BY <2>3 DEF Ascending
    <3>1. CASE j < k
      <4>1. i \in 1..n /\ j \in 1..n /\ new[i] = items[i] /\ new[j] = items[j]
        BY <1>1, <2>2, <2>3, <2>11, <3>1
      <4> QED
        BY <1>1, <4>1 DEF Ascending
    <3>2. CASE j = k
      <4>1. i \in 1..n /\ i < k /\ new[i] = items[i] /\ new[j] = item
        BY <1>1, <2>2, <2>3, <2>11, <3>2
      <4> QED
        BY <2>2, <4>1
    <3>3. CASE j > k
      <4>1. j - 1 \in 1..n /\ items[j - 1].ts > item.ts
        BY <1>1, <2>2, <2>4, <3>3
      <4>2. CASE i < k
        <5>1. i \in 1..n /\ i < j - 1 
          BY <1>1, <2>2, <3>3, <4>2
        <5>2. new[i] = items[i] /\ new[j] = items[j - 1]
          BY <1>1, <2>3, <2>11, <3>3, <4>2
        <5> QED
          BY <1>1, <4>1, <5>1, <5>2 DEF Ascending
      <4>3. CASE i = k
        BY <1>1, <2>2, <2>3, <3>3, <4>1, <4>3
      <4>4. CASE i > k
        <5>1. i - 1 \in 1..n /\ i - 1 < j - 1
          BY <1>1, <2>2, <4>4
        <5>2. new[i] = items[i - 1] /\ new[j] = items[j - 1]
          BY <1>1, <2>3, <2>11, <3>3, <4>4
        <5> QED
          BY <1>1, <4>1, <5>1, <5>2 DEF Ascending
      <4> QED
        BY <1>1, <2>2, <4>2, <4>3, <4>4
    <3> QED
      BY <1>1, <2>2, <3>1, <3>2, <3>3
  <2>6. ToSet(new) = ToSet(items) \union {item}
    <3>1. ASSUME NEW i \in 1..n PROVE \E j \in 1..(n + 1) : new[j] = items[i]
      <4>1. CASE i < k
        <5>1. i \in 1..(n + 1) /\ new[i] = items[i]
          BY <1>1, <2>3, <4>1
        <5> QED
          BY <5>1
      <4>2. CASE i >= k
        <5>1. i + 1 \in 1..(n + 1) /\ ~ (i + 1 < k) /\ i + 1 # k /\ (i + 1) - 1 = i
          BY <1>1, <2>2, <4>2
        <5> QED
          BY <2>3, <5>1
      <4> QED
        BY <1>1, <2>2, <4>1, <4>2
    <3>2. ASSUME NEW i \in 1..(n + 1), i # k PROVE \E j \in 1..n : new[i] = items[j]
      <4>1. CASE i < k
        BY <1>1, <2>2, <2>3, <4>1
      <4>2. CASE i > k
        <5>1. i - 1 \in 1..n
          BY <1>1, <2>2, <4>2
        <5> QED
          BY <1>1, <2>2, <2>3, <4>2, <5>1
      <4> QED
        BY <1>1, <2>2, <3>2, <4>1, <4>2
    <3>3. new[k] = item /\ k \in 1..(n + 1)
      BY <1>1, <2>2, <2>3
    <3>4. ToSet(new) = {new[i] : i \in 1..(n + 1)} /\ ToSet(items) = {items[i] : i \in 1..n}
      BY <1>1, <2>3 DEF ToSet
    <3>5. ToSet(items) \union {item} \subseteq ToSet(new)
      BY <3>1, <3>3, <3>4
    <3>6. ToSet(new) \subseteq ToSet(items) \union {item}
      BY <3>2, <3>3, <3>4
    <3> QED
      BY <3>5, <3>6
  <2>7. ASSUME NEW i \in 1..(n + 1) PROVE new[i].ts \in DOMAIN index /\ index[new[i].ts] = i
    <3>1. moved = {j \in 1..(n + 1) : j >= k}
      BY <2>3
    <3>2. \A j \in 1..(n + 1) : new[j].ts = new[i].ts => j = i
      BY <1>1, <2>3, <2>5, OneItemPerTime
    <3>3. CASE i >= k
      <4>1. i \in moved
        BY <1>1, <2>2, <3>1, <3>3
      <4>2. (CHOOSE j \in moved : new[j].ts = new[i].ts) = i
        BY <3>1, <3>2, <4>1
      <4> QED
        BY <4>1, <4>2
    <3>4. CASE i < k
      <4>1. i \in 1..n /\ new[i] = items[i] /\ i \notin moved
        BY <1>1, <2>2, <2>3, <3>1, <3>4
      <4>2. ~ \E j \in moved : new[j].ts = new[i].ts
        BY <3>1, <3>2, <4>1
      <4>3. new[i].ts \in DOMAIN p.ItemsMap /\ p.ItemsMap[new[i].ts] = i
        BY <1>1, <4>1
      <4> QED
        BY <4>2, <4>3
    <3> QED
      BY <1>1, <2>2, <3>3, <3>4
  <2>8. DOMAIN index = {new[i].ts : i \in 1..(n + 1)}
    <3>1. ToSet(new) = {new[i] : i \in 1..(n + 1)} /\ ToSet(items) = {items[i] : i \in 1..n}
      BY <1>1, <2>3 DEF ToSet
    <3>2. DOMAIN index = DOMAIN p.ItemsMap \union {new[i].ts : i \in moved}
      OBVIOUS
    <3>3. ASSUME NEW t \in DOMAIN p.ItemsMap PROVE \E i \in 1..(n + 1) : t = new[i].ts
      <4>1. PICK i \in 1..n : t = items[i].ts
        BY <1>1
      <4> QED
        BY <2>6, <3>1, <4>1
    <3>4. moved \subseteq 1..(n + 1)
      BY <2>3
    <3> HIDE DEF index, moved
    <3> QED
      BY <2>7, <3>2, <3>3, <3>4
  <2> HIDE DEF index
  <2>9. WellFormed([Items |-> new, ItemsMap |-> index])
    BY <2>3, <2>5, <2>7, <2>8 DEF WellFormed, Ascending
  <2>10. \A x \in ToSet(items) : x.ts # item.ts
    BY <1>1, <2>4 DEF ToSet
  <2> QED
    BY <2>1, <2>3, <2>6, <2>9, <2>10 DEF Sound
<1> QED
  BY <1>2, <1>3

(* A new partition is sound and empty.                                      *)
LEMMA NewSound ==
  ASSUME NEW S
  PROVE  Sound(newPartition, S) /\ ToSet(newPartition.Items) = {}
BY EmptySeq DEF Sound, newPartition, WellFormed, ToSet

(* get finds the live item at exactly t (partition.go:62-74).               *)
LEMMA GetFinds ==
  ASSUME NEW S, NEW p, Sound(p, S), NEW t, NEW time
  PROVE  get(p, t, time) = {x \in ToSet(p.Items) : x.ts = t /\ Alive(x, time)}
<1>1. /\ DOMAIN p.ItemsMap = {p.Items[i].ts : i \in DOMAIN p.Items}
      /\ \A i \in DOMAIN p.Items : p.ItemsMap[p.Items[i].ts] = i
  BY DEF Sound, WellFormed
<1>2. {p.ItemsMap[x] : x \in DOMAIN p.ItemsMap \intersect {t}} =
        {i \in DOMAIN p.Items : p.Items[i].ts = t}
  BY <1>1
<1> QED
  BY <1>2 DEF get, ToSet

(* getRange copies the live items in the closed range, in their order       *)
(* (partition.go:107-133).                                                  *)
LEMMA RangeFinds ==
  ASSUME NEW S, \A x \in S : x.ts \in Int, NEW p, Sound(p, S),
         NEW lo \in Int, NEW hi \in Int, lo <= hi, NEW time
  PROVE  /\ getRange(p, lo, hi, time) \in Seq(S) /\ Ascending(getRange(p, lo, hi, time))
         /\ ToSet(getRange(p, lo, hi, time)) =
              {x \in ToSet(p.Items) : lo <= x.ts /\ x.ts <= hi /\ Alive(x, time)}
<1> DEFINE items == p.Items
           n == Len(items)
           first == Search(items, lo)
           last == Search(items, hi + 1)
           inside == SubSeq(items, first, last - 1)
<1>1. /\ items \in Seq(S) /\ n \in Nat /\ DOMAIN items = 1..n /\ Ascending(items)
      /\ \A i \in 1..n : items[i] \in S /\ items[i].ts \in Int
  BY LenProperties, ElementOfSeq DEF Sound, WellFormed, Ascending
<1>2. first \in 1..(n + 1) /\ last \in 1..(n + 1)
  <2>1. hi + 1 \in Int
    OBVIOUS
  <2> HIDE DEF items
  <2> QED
    BY <1>1, <2>1, SearchFinds
<1>3. \A i \in 1..n : lo <= items[i].ts /\ items[i].ts <= hi <=> first <= i /\ i < last
  <2> HIDE DEF items
  <2>1. \A i \in 1..n : items[i].ts < lo <=> i < first
    BY <1>1, SearchFinds
  <2>2. \A i \in 1..n : items[i].ts < hi + 1 <=> i < last
    <3>1. hi + 1 \in Int
      OBVIOUS
    <3> QED
      BY <1>1, <3>1, SearchFinds
  <2> HIDE DEF first, last
  <2> QED
    BY <1>1, <1>2, <2>1, <2>2
<1>4. getRange(p, lo, hi, time) = Copied(inside, LiveItems(p, time))
  BY DEF getRange
<1> HIDE DEF first, last
<1>5. /\ inside \in Seq(S)
      /\ Len(inside) = IF first <= last - 1 THEN last - first ELSE 0
      /\ \A i \in 1..(last - first) : inside[i] = items[first + i - 1]
  BY <1>1, <1>2, SubSeqProperties
<1> HIDE DEF inside
<1>6. DOMAIN inside = 1..(last - first)
  BY <1>2, <1>5, LenProperties
<1>7. \A i \in DOMAIN inside : first + i - 1 \in 1..n /\ inside[i] = items[first + i - 1]
  BY <1>1, <1>2, <1>5, <1>6
<1>8. Ascending(inside)
  <2> SUFFICES ASSUME NEW i \in DOMAIN inside, NEW j \in DOMAIN inside, i < j
               PROVE  inside[i].ts < inside[j].ts
    BY DEF Ascending
  <2>1. first + i - 1 < first + j - 1
    BY <1>2, <1>6
  <2> QED
    BY <1>1, <1>7, <2>1 DEF Ascending
<1>9. ToSet(inside) = {x \in ToSet(items) : lo <= x.ts /\ x.ts <= hi}
  <2>1. ASSUME NEW i \in 1..n, first <= i, i < last PROVE items[i] \in ToSet(inside)
    <3>1. i - first + 1 \in DOMAIN inside /\ first + (i - first + 1) - 1 = i
      BY <1>1, <1>2, <1>6, <2>1
    <3> QED
      BY <1>7, <3>1 DEF ToSet
  <2>2. ASSUME NEW i \in DOMAIN inside
        PROVE  \E j \in 1..n : first <= j /\ j < last /\ inside[i] = items[j]
    <3>1. first <= first + i - 1 /\ first + i - 1 < last
      BY <1>2, <1>6
    <3> QED
      BY <1>7, <3>1
  <2>3. ToSet(items) = {items[i] : i \in 1..n}
    BY <1>1 DEF ToSet
  <2>4. ToSet(inside) = {inside[i] : i \in DOMAIN inside}
    BY DEF ToSet
  <2> QED
    BY <1>3, <2>1, <2>2, <2>3, <2>4
<1>10. LiveItems(p, time) = {x \in ToSet(items) : Alive(x, time)}
  BY DEF LiveItems
<1>11. ToSet(inside) \intersect LiveItems(p, time) =
         {x \in ToSet(items) : lo <= x.ts /\ x.ts <= hi /\ Alive(x, time)}
  BY <1>9, <1>10
<1> QED
  BY <1>4, <1>5, <1>8, <1>11, CopiedItems

(* getNearest finds the items that none is nearer than (partition.go:77-105).  *)
LEMMA NearestFinds ==
  ASSUME NEW S, \A x \in S : x.ts \in Int, NEW p, Sound(p, S), NEW t \in Int
  PROVE  getNearest(p, t) =
           {x \in ToSet(p.Items) : \A y \in ToSet(p.Items) : y # x =>
              \/ Distance(x, t) < Distance(y, t)
              \/ Distance(x, t) = Distance(y, t) /\ x.ts > y.ts}
<1> DEFINE items == p.Items
           n == Len(items)
           k == Search(items, t)
           Nearer(x, y) == \/ Distance(x, t) < Distance(y, t)
                           \/ Distance(x, t) = Distance(y, t) /\ x.ts > y.ts
           Nearest == {x \in ToSet(items) : \A y \in ToSet(items) : y # x => Nearer(x, y)}
<1>1. /\ items \in Seq(S) /\ n \in Nat /\ DOMAIN items = 1..n /\ Ascending(items)
      /\ \A i \in 1..n : items[i] \in S /\ items[i].ts \in Int
      /\ ToSet(items) = {items[i] : i \in 1..n}
  BY LenProperties, ElementOfSeq DEF Sound, WellFormed, Ascending, ToSet
<1>2. /\ k \in 1..(n + 1)
      /\ \A j \in 1..n : items[j].ts < t <=> j < k
  BY <1>1, SearchFinds
<1>3. getNearest(p, t) =
        IF n = 0 THEN {} ELSE IF k = n + 1 THEN {items[n]} ELSE IF k = 1 THEN {items[1]}
        ELSE IF t - items[k - 1].ts < items[k].ts - t THEN {items[k - 1]} ELSE {items[k]}
  BY DEF getNearest
<1> SUFFICES getNearest(p, t) = Nearest
  OBVIOUS
<1> HIDE DEF items, k
\* One item that is nearer than all others is all of Nearest.
<1>4. ASSUME NEW i \in 1..n, \A j \in 1..n : j # i => Nearer(items[i], items[j])
      PROVE  Nearest = {items[i]}
  <2>1. items[i] \in Nearest
    BY <1>1, <1>4
  <2>2. ASSUME NEW j \in 1..n, j # i PROVE items[j] \notin Nearest
    <3>1. Distance(items[i], t) \in Int /\ Distance(items[j], t) \in Int
      BY <1>1 DEF Distance
    <3>2. items[i] # items[j]
      BY <1>1, <2>2 DEF Ascending
    <3>3. ~ Nearer(items[j], items[i])
      BY <1>1, <1>4, <2>2, <3>1
    <3> QED
      BY <1>1, <3>2, <3>3
  <2> QED
    BY <1>1, <2>1, <2>2, SMTT(30), ZenonT(30)
<1>5. ASSUME NEW i \in 1..n
      PROVE  Distance(items[i], t) = IF i < k THEN t - items[i].ts ELSE items[i].ts - t
  BY <1>1, <1>2, <1>5 DEF Distance
<1>6. \A i, j \in 1..n : i < j => items[i].ts < items[j].ts
  BY <1>1 DEF Ascending
<1>7. \A i \in 1..n : items[i].ts \in Int
  BY <1>1
<1>8. ASSUME NEW i \in 1..n, NEW j \in 1..n, j # i,
             \/ j < i /\ i < k
             \/ i < j /\ i >= k
             \/ j < k /\ k <= i /\ items[i].ts - t <= t - items[j].ts
             \/ i < k /\ k <= j /\ t - items[i].ts < items[j].ts - t
      PROVE  Nearer(items[i], items[j])
  <2>1. k \in Nat /\ n \in Nat
    BY <1>1, <1>2
  <2>2. \/ j < i /\ i < k /\ items[j].ts < items[i].ts /\ items[i].ts < t
        \/ i < j /\ i >= k /\ items[i].ts < items[j].ts /\ items[i].ts >= t
        \/ j < k /\ k <= i /\ items[j].ts < t /\ items[i].ts >= t
        \/ i < k /\ k <= j /\ items[i].ts < t /\ items[j].ts >= t
    BY <1>2, <1>6, <1>7, <1>8, <2>1
  <2> QED
    BY <1>5, <1>7, <1>8, <2>1, <2>2, SMTT(30), ZenonT(30)
<1> HIDE DEF Nearest
<1>9. ASSUME NEW i \in 1..n, \A j \in 1..n : j # i => Nearer(items[i], items[j]),
             getNearest(p, t) = {items[i]}
      PROVE  getNearest(p, t) = Nearest
  BY <1>4, <1>9
<1> HIDE DEF Nearer
<1>10. CASE n = 0
  <2>1. Nearest = {} /\ getNearest(p, t) = {}
    BY <1>1, <1>3, <1>10 DEF Nearest
  <2> QED
    BY <2>1
<1>11. CASE n > 0 /\ k = n + 1
  <2>1. n \in 1..n /\ \A j \in 1..n : j # n => j < n /\ n < k
    <3>1. n \in Nat /\ n > 0 /\ k = n + 1
      BY <1>1, <1>11
    <3> HIDE DEF n
    <3> QED
      BY <3>1
  <2>2. getNearest(p, t) = {items[n]}
    BY <1>1, <1>3, <1>11
  <2>3. \A j \in 1..n : j # n => Nearer(items[n], items[j])
    BY <1>8, <2>1
  <2> HIDE DEF n
  <2> QED
    BY <1>9, <2>1, <2>2, <2>3
<1>12. CASE n > 0 /\ k = 1
  <2>1. 1 \in 1..n /\ \A j \in 1..n : j # 1 => 1 < j /\ 1 >= k
    BY <1>1, <1>12
  <2>2. getNearest(p, t) = {items[1]}
    BY <1>1, <1>3, <1>12
  <2> QED
    BY <1>8, <1>9, <2>1, <2>2
<1>13. CASE 1 < k /\ k <= n /\ t - items[k - 1].ts < items[k].ts - t
  <2>1. k - 1 \in 1..n /\ k \in 1..n /\ getNearest(p, t) = {items[k - 1]}
    BY <1>1, <1>2, <1>3, <1>13
  <2>2. ASSUME NEW j \in 1..n, j > k - 1 PROVE t - items[k - 1].ts < items[j].ts - t
    <3>1. j = k \/ items[k].ts < items[j].ts
      BY <1>1, <1>2, <1>6, <2>1, <2>2
    <3> QED
      BY <1>7, <1>13, <2>1, <3>1, SMTT(30)
  <2>3. \A j \in 1..n : j # k - 1 => Nearer(items[k - 1], items[j])
    BY <1>1, <1>2, <1>8, <2>1, <2>2
  <2> QED
    BY <1>9, <2>1, <2>3
<1>14. CASE 1 < k /\ k <= n /\ ~ (t - items[k - 1].ts < items[k].ts - t)
  <2>1. k - 1 \in 1..n /\ k \in 1..n /\ getNearest(p, t) = {items[k]}
    BY <1>1, <1>2, <1>3, <1>14
  <2>2. ASSUME NEW j \in 1..n, j < k PROVE items[k].ts - t <= t - items[j].ts
    <3>1. j = k - 1 \/ items[j].ts < items[k - 1].ts
      BY <1>1, <1>2, <1>6, <2>1, <2>2
    <3> QED
      BY <1>7, <1>14, <2>1, <3>1, SMTT(30), ZenonT(30)
  <2>3. \A j \in 1..n : j # k => Nearer(items[k], items[j])
    BY <1>1, <1>2, <1>8, <2>1, <2>2
  <2> QED
    BY <1>9, <2>1, <2>3
<1> QED
  BY <1>1, <1>2, <1>10, <1>11, <1>12, <1>13, <1>14

-----------------------------------------------------------------------------
\* The invariant: partitions and files are sound and at their start times.

\* What the partition that starts at s may hold.
Of(s) == {x \in Stored : StartOf(x.ts) = s}

AllSound(ps) == DOMAIN ps \subseteq Starts /\ \A s \in DOMAIN ps : Sound(ps[s], Of(s))

Inv ==
  /\ config \in Configurations /\ now \in 1..MaxTime
  /\ AllSound(partitions) /\ AllSound(disk)

(* A partition starts at or before its timestamps, which end before the     *)
(* next one starts.                                                         *)
LEMMA StartTimes ==
  ASSUME NEW t \in Times
  PROVE  /\ t \in Nat /\ StartOf(t) \in Starts /\ StartOf(t) \in Nat
         /\ StartOf(t) <= t /\ t < StartOf(t) + PartitionSize
<1>1. t \in Nat /\ PartitionSize \in Nat \ {0}
  BY TimeSeriesAssumption
<1>2. t % PartitionSize \in 0..(PartitionSize - 1)
  BY <1>1
<1> QED
  BY <1>1, <1>2 DEF StartOf, Starts

(* Later timestamps are in the same or in later partitions.                 *)
LEMMA StartsAscend ==
  ASSUME NEW t \in Times, NEW u \in Times, t <= u
  PROVE  StartOf(t) <= StartOf(u)
<1>1. t \in Nat /\ u \in Nat /\ PartitionSize \in Nat \ {0}
  BY TimeSeriesAssumption
<1> QED
  BY <1>1, SMTT(30) DEF StartOf

(* What a partition may hold.                                               *)
LEMMA HeldItems ==
  ASSUME NEW s \in Starts, NEW x \in Of(s)
  PROVE  /\ x.ts \in Times /\ x.ts \in Int /\ x.exp \in Nat /\ StartOf(x.ts) = s
         /\ s \in Nat /\ s <= x.ts /\ x.ts < s + PartitionSize
<1>1. x \in Stored /\ StartOf(x.ts) = s
  BY DEF Of
<1>2. x.ts \in Times /\ x.exp \in Nat
  BY <1>1, TimeSeriesAssumption DEF Stored
<1> QED
  BY <1>1, <1>2, StartTimes

(* Replacing some partitions by sound ones keeps all sound.                 *)
LEMMA WithSound ==
  ASSUME NEW old, AllSound(old), NEW starts \in SUBSET Starts, NEW ps,
         \A s \in starts : Sound(ps[s], Of(s))
  PROVE  AllSound(With(old, ps, starts))
BY DEF AllSound, With

(* getPartition returns a sound partition.                                  *)
LEMMA PartitionFound ==
  ASSUME Inv, NEW s \in Starts
  PROVE  Sound(getPartition(s), Of(s))
BY NewSound DEF Inv, AllSound, getPartition, Mapped

(* No partition and no file is there at first.                              *)
LEMMA InitInv == Init => Inv
<1>1. DOMAIN <<>> = {}
  OBVIOUS
<1> QED
  BY <1>1, TimeSeriesAssumption DEF Init, Inv, AllSound

(* A Set leaves a sound partition with the new item of its timestamp.       *)
LEMMA SetPartition ==
  ASSUME Inv, NEW t \in Times, NEW v \in Values, NEW ttl \in TTLs
  PROVE  LET item == Point(t, v, IF ttl > 0 THEN now + ttl ELSE 0)
             p == insert(getPartition(StartOf(t)), item)
         IN /\ item \in Of(StartOf(t))
            /\ Sound(p, Of(StartOf(t)))
            /\ ToSet(p.Items) = {x \in ToSet(getPartition(StartOf(t)).Items) : x.ts # t} \union {item}
<1> DEFINE item == Point(t, v, IF ttl > 0 THEN now + ttl ELSE 0)
           s == StartOf(t)
<1>1. ttl \in Nat /\ now \in 1..MaxTime
  BY TimeSeriesAssumption DEF Inv
<1>2. item \in Of(s) /\ item.ts = t
  BY <1>1 DEF Of, Stored, Point
<1>3. s \in Starts /\ \A x \in Of(s) : x.ts \in Int
  BY StartTimes, HeldItems
<1>4. Sound(getPartition(s), Of(s))
  BY <1>3, PartitionFound
<1> HIDE DEF item, s
<1>5. /\ Sound(insert(getPartition(s), item), Of(s))
      /\ ToSet(insert(getPartition(s), item).Items) =
           {x \in ToSet(getPartition(s).Items) : x.ts # item.ts} \union {item}
  BY <1>2, <1>3, <1>4, InsertSound
<1> QED
  BY <1>2, <1>5 DEF item, s

(* Every step keeps the invariant.                                          *)
LEMMA InvStep == Inv /\ [Next]_vars => Inv'
<1> SUFFICES ASSUME Inv, [Next]_vars PROVE Inv'
  OBVIOUS
<1> USE DEF Mapped
<1>0. /\ config \in Configurations /\ now \in 1..MaxTime
      /\ AllSound(partitions) /\ AllSound(disk)
      /\ DOMAIN partitions \subseteq Starts
      /\ \A s \in Starts : \A x \in Of(s) : x.ts \in Int
  BY HeldItems DEF Inv, AllSound
<1>1. ASSUME NEW t \in Times, NEW v \in Values, NEW ttl \in TTLs, Set(t, v, ttl) PROVE Inv'
  <2> DEFINE p == insert(getPartition(StartOf(t)), Point(t, v, IF ttl > 0 THEN now + ttl ELSE 0))
             s == StartOf(t)
  <2>1. s \in Starts /\ Sound(p, Of(s))
    BY SetPartition, StartTimes
  <2>2. /\ partitions' = With(partitions, [r \in {s} |-> p], {s})
        /\ disk' = disk \/ disk' = With(disk, partitions', {s})
        /\ UNCHANGED <<config, now>>
    BY <1>1 DEF Set, Saved
  <2> HIDE DEF p, s
  <2>3. AllSound(partitions')
    BY <1>0, <2>1, <2>2, WithSound
  <2>4. Sound(partitions'[s], Of(s))
    BY <2>1, <2>2 DEF With
  <2>5. AllSound(disk')
    BY <1>0, <2>1, <2>2, <2>4, WithSound
  <2> QED
    BY <1>0, <2>2, <2>3, <2>5 DEF Inv
<1>2. ASSUME NEW t \in Times, GetExact(t) PROVE Inv'
  <2> DEFINE p == getPartition(StartOf(t))
             s == StartOf(t)
  <2>1. s \in Starts /\ Sound(p, Of(s))
    BY PartitionFound, StartTimes
  <2>2. partitions' = With(partitions, [r \in {s} |-> p], {s}) /\ UNCHANGED <<config, disk, now>>
    BY <1>2 DEF GetExact
  <2> HIDE DEF p, s
  <2>3. AllSound(partitions')
    BY <1>0, <2>1, <2>2, WithSound
  <2> QED
    BY <1>0, <2>2, <2>3 DEF Inv
<1>3. ASSUME NEW lo \in Times, NEW hi \in Times, DeleteRange(lo, hi) PROVE Inv'
  <2> DEFINE hit == {s \in Mapped : StartOf(lo) <= s /\ s <= StartOf(hi)}
             whole == {s \in hit : lo <= s /\ s + PartitionSize <= hi}
             part == hit \ whole
             rest == [s \in part |-> Keeping(partitions[s],
                        {x \in ToSet(partitions[s].Items) : x.ts < lo \/ x.ts > hi})]
  <2>1. /\ partitions' = With(Restrict(partitions, Mapped \ whole), rest, part)
        /\ disk' = With(disk, rest, part)
        /\ UNCHANGED <<config, now>>
    BY <1>3 DEF DeleteRange, Saved
  <2>2. part \in SUBSET Starts /\ \A s \in part : Sound(rest[s], Of(s))
    BY <1>0, KeepingSound DEF AllSound
  <2> HIDE DEF rest, part
  <2>3. AllSound(Restrict(partitions, Mapped \ whole))
    BY <1>0 DEF AllSound, Restrict
  <2>4. AllSound(partitions') /\ AllSound(disk')
    BY <1>0, <2>1, <2>2, <2>3, WithSound
  <2> QED
    BY <1>0, <2>1, <2>4 DEF Inv
<1>4. ASSUME cleanup PROVE Inv'
  <2> DEFINE p == [s \in Mapped |-> pruned(partitions[s], now)]
             kept == {s \in Mapped : p[s].Items # <<>>}
             old == IF config.MaxPartitions > 0 /\ Cardinality(kept) > config.MaxPartitions
                    THEN {s \in kept : \A r \in kept : s <= r} ELSE {}
  <2>1. /\ partitions' = Restrict(p, kept \ old) /\ disk' = With(disk, p, old)
        /\ UNCHANGED <<config, now>>
    BY <1>4 DEF cleanup, Saved
  <2>2. DOMAIN p = Mapped /\ \A s \in Mapped : Sound(p[s], Of(s))
    BY <1>0, KeepingSound DEF AllSound, pruned
  <2>3. old \subseteq Mapped
    OBVIOUS
  <2> HIDE DEF p, old
  <2>4. AllSound(partitions')
    BY <1>0, <2>1, <2>2 DEF AllSound, Restrict
  <2>5. AllSound(disk')
    BY <1>0, <2>1, <2>2, <2>3, WithSound
  <2> QED
    BY <1>0, <2>1, <2>4, <2>5 DEF Inv
<1>5. AllSound(Saved(partitions, Mapped))
  BY <1>0, WithSound DEF AllSound, Saved
<1>6. CASE flush \/ Clear \/ Restart
  <2>1. DOMAIN <<>> = {}
    OBVIOUS
  <2> QED
    BY <1>0, <1>5, <1>6, <2>1 DEF flush, Clear, Restart, Inv, AllSound
<1>7. CASE Crash
  BY <1>0, <1>7 DEF Crash, Inv
<1>8. CASE Tick
  BY <1>0, <1>8, TimeSeriesAssumption DEF Tick, Inv
<1>9. CASE UNCHANGED vars
  BY <1>0, <1>9 DEF vars, Inv
<1> QED
  BY <1>1, <1>2, <1>3, <1>4, <1>6, <1>7, <1>8, <1>9 DEF Next

(* The invariant holds in every reachable state.                            *)
LEMMA Invariance == Spec => []Inv
BY InitInv, InvStep, PTL DEF Spec

(* For any timestamps, values, ttls and configurations: a partition holds   *)
(* what was set at its timestamps (cache.go:131-160).                       *)
THEOREM SeriesTypes == Spec => []TypeOK
<1>1. ASSUME NEW s \in Starts, NEW p, Sound(p, Of(s)) PROVE ToSet(p.Items) \subseteq Of(s)
  BY <1>1, LenProperties, ElementOfSeq DEF Sound, ToSet
<1>2. Inv => TypeOK
  BY <1>1 DEF Inv, AllSound, TypeOK, Of
<1> QED
  BY <1>2, Invariance, PTL

(* For any of them: slice and index of each partition agree, in memory and  *)
(* in the files (partition.go, cache.go:345-362).                           *)
THEOREM PartitionsStayWellFormed == Spec => []PartitionsWellFormed
<1>1. Inv => PartitionsWellFormed
  BY DEF Inv, AllSound, Sound, PartitionsWellFormed
<1> QED
  BY <1>1, Invariance, PTL

(* For any of them: GetNearest finds what no other point of the partition   *)
(* is nearer than, and the later of two at the same distance                *)
(* (partition.go:77-105).                                                   *)
THEOREM NearestIsFound == Spec => []NearestIsNearest
<1>1. ASSUME Inv, NEW t \in Times
      PROVE  getNearest(getPartition(StartOf(t)), t) =
               {x \in ToSet(getPartition(StartOf(t)).Items) :
                  \A y \in ToSet(getPartition(StartOf(t)).Items) : y # x =>
                    \/ Distance(x, t) < Distance(y, t)
                    \/ Distance(x, t) = Distance(y, t) /\ x.ts > y.ts}
  <2>1. StartOf(t) \in Starts /\ t \in Int
    BY StartTimes
  <2>2. Sound(getPartition(StartOf(t)), Of(StartOf(t)))
    BY <1>1, <2>1, PartitionFound
  <2>3. \A x \in Of(StartOf(t)) : x.ts \in Int
    BY <2>1, HeldItems
  <2> QED
    BY <2>1, <2>2, <2>3, NearestFinds
<1>2. Inv => NearestIsNearest
  BY <1>1 DEF NearestIsNearest
<1> QED
  BY <1>2, Invariance, PTL

-----------------------------------------------------------------------------
\* GetRange.

(* The loop over the partitions has a value for each start it comes to.     *)
LEMMA RangeLoopEnds ==
  ASSUME NEW lo \in Times, NEW hi \in Times, lo <= hi
  PROVE  \E f : /\ f[StartOf(lo)] = <<>>
                /\ \A t \in (StartOf(lo) + 1)..(StartOf(hi) + 1) :
                     f[t] = IF t - 1 \in Mapped
                            THEN f[t - 1] \o getRange(partitions[t - 1], lo, hi, now)
                            ELSE f[t - 1]
                /\ GetRange(lo, hi) = f[StartOf(hi) + 1]
<1> DEFINE a == StartOf(lo)
           b == StartOf(hi) + 1
           Body(f, t) == IF t = a THEN <<>>
                         ELSE IF t - 1 \in Mapped
                              THEN f[t - 1] \o getRange(partitions[t - 1], lo, hi, now)
                              ELSE f[t - 1]
           Upto(n) == \E f : f = [t \in a..n |-> Body(f, t)]
<1>1. a \in Nat /\ b \in Nat /\ a < b
  BY StartTimes, StartsAscend
<1>2. GetRange(lo, hi) = (CHOOSE f : f = [t \in a..b |-> Body(f, t)])[b]
  BY DEF GetRange
<1> HIDE DEF a, b
<1>3. Upto(a)
  <2>1. [t \in a..a |-> <<>>] = [t \in a..a |-> Body([k \in a..a |-> <<>>], t)]
    BY <1>1
  <2> QED
    BY <2>1
<1>4. ASSUME NEW n \in (a + 1)..b, Upto(n - 1) PROVE Upto(n)
  <2>1. PICK f : f = [t \in a..(n - 1) |-> Body(f, t)]
    BY <1>4
  <2> DEFINE g == [t \in a..n |-> IF t < n THEN f[t] ELSE Body(f, n)]
  <2>2. ASSUME NEW t \in a..n PROVE g[t] = Body(g, t)
    <3>1. t # a => t - 1 \in a..(n - 1) /\ t - 1 \in a..n
      BY <1>1
    <3>2. t # a => g[t - 1] = f[t - 1]
      BY <1>1, <3>1
    <3>3. Body(g, t) = Body(f, t)
      BY <3>2
    <3>4. g[t] = Body(f, t)
      <4> HIDE DEF Body
      <4> QED
        BY <1>1, <2>1
    <3> QED
      BY <3>3, <3>4
  <2>3. g = [t \in a..n |-> Body(g, t)]
    <3> HIDE DEF Body
    <3> QED
      BY <2>2
  <2> QED
    BY <2>3
<1>5. Upto(b)
  <2>1. SUFFICES ASSUME ~ Upto(b) PROVE FALSE
    OBVIOUS
  <2> DEFINE T == {n \in a..b : ~ Upto(n)}
  <2> HIDE DEF Upto
  <2>2. PICK n \in T : \A m \in T : n <= m
    <3>1. T \in SUBSET Nat /\ T # {}
      BY <1>1, <2>1
    <3> QED
      BY <3>1, LeastNumber
  <2>3. n # a /\ n \in (a + 1)..b
    BY <1>1, <1>3, <2>2
  <2>4. n - 1 \in a..b /\ ~ (n <= n - 1)
    BY <1>1, <2>3
  <2>5. Upto(n - 1)
    BY <2>2, <2>4
  <2> QED
    BY <1>4, <2>2, <2>3, <2>5
<1> DEFINE before == CHOOSE f : f = [t \in a..b |-> Body(f, t)]
<1>6. before = [t \in a..b |-> Body(before, t)]
  BY <1>5
<1> HIDE DEF before
<1>7. \A t \in a..b : before[t] = Body(before, t)
  BY <1>6
<1>8. GetRange(lo, hi) = before[b]
  BY <1>2 DEF before
<1>9. /\ before[a] = <<>>
      /\ \A t \in (a + 1)..b :
           before[t] = IF t - 1 \in Mapped
                       THEN before[t - 1] \o getRange(partitions[t - 1], lo, hi, now)
                       ELSE before[t - 1]
  BY <1>1, <1>7
<1> QED
  BY <1>8, <1>9 DEF a, b

(* Two ascending sequences make one when all of the second is later.        *)
LEMMA Joined ==
  ASSUME NEW S, NEW c \in Seq(S), NEW d \in Seq(S), Ascending(c), Ascending(d),
         \A x \in ToSet(c), y \in ToSet(d) : x.ts < y.ts
  PROVE  c \o d \in Seq(S) /\ ToSet(c \o d) = ToSet(c) \union ToSet(d) /\ Ascending(c \o d)
<1> DEFINE n == Len(c)
           m == Len(d)
           e == c \o d
<1>1. /\ n \in Nat /\ m \in Nat /\ DOMAIN c = 1..n /\ DOMAIN d = 1..m
      /\ e \in Seq(S) /\ DOMAIN e = 1..(n + m)
      /\ \A i \in 1..(n + m) : e[i] = IF i <= n THEN c[i] ELSE d[i - n]
  BY LenProperties, ConcatProperties
<1> HIDE DEF n, m, e
<1>2. \A i \in 1..n : i \in 1..(n + m) /\ e[i] = c[i]
  BY <1>1
<1>3. \A i \in 1..m : i + n \in 1..(n + m) /\ e[i + n] = d[i]
  BY <1>1
<1>4. \A i \in 1..(n + m) : i \in 1..n \/ i - n \in 1..m
  BY <1>1
<1>5. ToSet(e) = ToSet(c) \union ToSet(d)
  <2>1. /\ ToSet(e) = {e[i] : i \in 1..(n + m)}
        /\ ToSet(c) = {c[i] : i \in 1..n} /\ ToSet(d) = {d[i] : i \in 1..m}
    BY <1>1 DEF ToSet
  <2>2. \A i \in 1..(n + m) :
          (i \in 1..n /\ e[i] = c[i]) \/ (i - n \in 1..m /\ e[i] = d[i - n])
    BY <1>1, <1>4
  <2> QED
    BY <1>2, <1>3, <2>1, <2>2
<1>6. ASSUME NEW i \in 1..(n + m), NEW j \in 1..(n + m), i < j PROVE e[i].ts < e[j].ts
  <2>1. CASE j <= n
    BY <1>1, <1>6, <2>1 DEF Ascending
  <2>2. CASE i <= n /\ n < j
    <3>1. i \in 1..n /\ j - n \in 1..m /\ e[i] = c[i] /\ e[j] = d[j - n]
      BY <1>1, <2>2
    <3> QED
      BY <1>1, <3>1 DEF ToSet
  <2>3. CASE n < i
    <3>1. i - n \in 1..m /\ j - n \in 1..m /\ i - n < j - n /\ e[i] = d[i - n] /\ e[j] = d[j - n]
      BY <1>1, <1>6, <2>3
    <3> QED
      BY <1>1, <3>1 DEF Ascending
  <2> QED
    BY <1>1, <1>6, <2>1, <2>2, <2>3
<1> QED
  BY <1>1, <1>5, <1>6 DEF Ascending, e

(* At each start the loop has what the range holds of the partitions before *)
(* it (cache.go:284-289).                                                   *)
LEMMA RangeCollects ==
  ASSUME Inv, NEW lo \in Times, NEW hi \in Times, lo <= hi
  PROVE  /\ ToSet(GetRange(lo, hi)) =
              {x \in UNION {ToSet(partitions[s].Items) : s \in Mapped} :
                 lo <= x.ts /\ x.ts <= hi /\ Alive(x, now)}
         /\ Ascending(GetRange(lo, hi))
<1> DEFINE a == StartOf(lo)
           b == StartOf(hi) + 1
           Hit(x) == lo <= x.ts /\ x.ts <= hi /\ Alive(x, now)
           Points == {x \in UNION {ToSet(partitions[s].Items) : s \in Mapped} : Hit(x)}
           Good(c, t) == /\ c \in Seq(Stored)
                         /\ ToSet(c) = {x \in Points : StartOf(x.ts) < t}
                         /\ Ascending(c)
<1>1. /\ a \in Nat /\ b \in Nat /\ a < b /\ lo \in Int /\ hi \in Int
  BY StartTimes, StartsAscend
<1>2. PICK f : /\ f[a] = <<>>
               /\ \A t \in (a + 1)..b :
                    f[t] = IF t - 1 \in Mapped
                           THEN f[t - 1] \o getRange(partitions[t - 1], lo, hi, now)
                           ELSE f[t - 1]
               /\ GetRange(lo, hi) = f[b]
  BY RangeLoopEnds
<1>3. ASSUME NEW s \in Mapped
      PROVE  /\ s \in Starts /\ Sound(partitions[s], Of(s))
             /\ ToSet(partitions[s].Items) \subseteq Of(s)
  <2>1. s \in Starts /\ Sound(partitions[s], Of(s))
    BY DEF Inv, AllSound, Mapped
  <2> QED
    BY <2>1, LenProperties, ElementOfSeq DEF Sound, ToSet
<1>4. ASSUME NEW x \in Points
      PROVE  /\ x \in Stored /\ x.ts \in Times /\ x.ts \in Nat /\ StartOf(x.ts) \in Nat
             /\ a <= StartOf(x.ts) /\ StartOf(x.ts) < b
             /\ StartOf(x.ts) \in Mapped /\ x \in ToSet(partitions[StartOf(x.ts)].Items)
  <2>1. PICK s \in Mapped : x \in ToSet(partitions[s].Items)
    OBVIOUS
  <2>2. x \in Of(s) /\ x \in Stored /\ StartOf(x.ts) = s /\ x.ts \in Times
    BY <1>3, <2>1, HeldItems DEF Of
  <2>3. lo <= x.ts /\ x.ts <= hi
    OBVIOUS
  <2>4. StartOf(lo) <= StartOf(x.ts) /\ StartOf(x.ts) <= StartOf(hi)
    BY <2>2, <2>3, StartsAscend
  <2>5. x.ts \in Nat /\ StartOf(x.ts) \in Nat /\ StartOf(hi) \in Nat
    BY <2>2, StartTimes
  <2>6. a <= StartOf(x.ts) /\ StartOf(x.ts) < b
    BY <2>4, <2>5
  <2> QED
    BY <2>1, <2>2, <2>5, <2>6
<1>5. Good(f[a], a)
  <2>1. <<>> \in Seq(Stored) /\ ToSet(<<>>) = {} /\ Ascending(<<>>)
    BY EmptySeq DEF ToSet, Ascending
  <2>2. \A x \in Points : ~ (StartOf(x.ts) < a)
    <3> HIDE DEF a, b, Points
    <3> QED
      BY <1>1, <1>4
  <2> HIDE DEF a, b, Points
  <2> QED
    BY <1>2, <2>1, <2>2
<1>6. ASSUME NEW t \in (a + 1)..b, Good(f[t - 1], t - 1) PROVE Good(f[t], t)
  <2> DEFINE New == {x \in Points : StartOf(x.ts) = t - 1}
  <2>1. {x \in Points : StartOf(x.ts) < t} = {x \in Points : StartOf(x.ts) < t - 1} \union New
    <3> HIDE DEF a, b, Points
    <3> QED
      BY <1>1, <1>4
  <2>2. CASE t - 1 \notin Mapped
    <3>1. New = {}
      <4> HIDE DEF a, b, Points
      <4> QED
        BY <1>4, <2>2
    <3>2. f[t] = f[t - 1]
      BY <1>2, <2>2
    <3> HIDE DEF New, Points
    <3> QED
      BY <1>6, <2>1, <3>1, <3>2
  <2>3. CASE t - 1 \in Mapped
    <3> DEFINE r == getRange(partitions[t - 1], lo, hi, now)
    <3>1. f[t] = f[t - 1] \o r
      BY <1>2, <2>3
    <3>2. /\ r \in Seq(Of(t - 1)) /\ Ascending(r)
          /\ ToSet(r) = {x \in ToSet(partitions[t - 1].Items) : Hit(x)}
      <4>1. t - 1 \in Starts /\ Sound(partitions[t - 1], Of(t - 1))
        BY <1>3, <2>3
      <4>2. \A x \in Of(t - 1) : x.ts \in Int
        BY <4>1, HeldItems
      <4> DEFINE p == partitions[t - 1]
                 S == Of(t - 1)
      <4> HIDE DEF a, b, Points, p, S
      <4>3. Sound(p, S) /\ (\A x \in S : x.ts \in Int) /\ lo \in Int /\ hi \in Int /\ lo <= hi
        BY <1>1, <4>1, <4>2 DEF p, S
      <4>4. /\ getRange(p, lo, hi, now) \in Seq(S) /\ Ascending(getRange(p, lo, hi, now))
            /\ ToSet(getRange(p, lo, hi, now)) =
                 {x \in ToSet(p.Items) : lo <= x.ts /\ x.ts <= hi /\ Alive(x, now)}
        BY <4>3, RangeFinds
      <4> QED
        BY <4>4 DEF p, S
    <3>3. ToSet(r) = New
      <4>1. \A x \in ToSet(partitions[t - 1].Items) : StartOf(x.ts) = t - 1
        BY <1>3, <2>3 DEF Of
      <4>2. \A x \in New : x \in ToSet(partitions[t - 1].Items)
        <5> HIDE DEF a, b, Points
        <5> QED
          BY <1>4
      <4>3. \A x \in ToSet(partitions[t - 1].Items) : Hit(x) => x \in Points
        BY <2>3
      <4>4. \A x \in New : Hit(x)
        OBVIOUS
      <4> HIDE DEF Points, Hit, r
      <4> QED
        BY <3>2, <4>1, <4>2, <4>3, <4>4
    <3>4. r \in Seq(Stored)
      <4>1. Of(t - 1) \subseteq Stored
        BY DEF Of
      <4> HIDE DEF r
      <4> QED
        BY <3>2, <4>1
    <3>5. ASSUME NEW x \in ToSet(f[t - 1]), NEW y \in ToSet(r) PROVE x.ts < y.ts
      <4> HIDE DEF Points, r, a, b
      <4>1. x \in Points /\ y \in Points /\ StartOf(x.ts) < t - 1 /\ StartOf(y.ts) = t - 1
        BY <1>6, <3>3
      <4>2. /\ x.ts \in Times /\ y.ts \in Times /\ x.ts \in Nat /\ y.ts \in Nat
            /\ StartOf(x.ts) \in Nat /\ StartOf(y.ts) \in Nat
        BY <1>4, <4>1
      <4>3. y.ts <= x.ts => StartOf(y.ts) <= StartOf(x.ts)
        BY <4>2, StartsAscend
      <4> QED
        BY <4>1, <4>2, <4>3
    <3> HIDE DEF New, Points, r
    <3>6. /\ f[t - 1] \o r \in Seq(Stored) /\ Ascending(f[t - 1] \o r)
          /\ ToSet(f[t - 1] \o r) = ToSet(f[t - 1]) \union ToSet(r)
      BY <1>6, <3>2, <3>4, <3>5, Joined
    <3> QED
      BY <1>6, <2>1, <3>1, <3>3, <3>6
  <2> QED
    BY <2>2, <2>3
<1>7. Good(f[b], b)
  <2>1. SUFFICES ASSUME ~ Good(f[b], b) PROVE FALSE
    OBVIOUS
  <2> DEFINE T == {t \in a..b : ~ Good(f[t], t)}
  <2> HIDE DEF Good, a, b
  <2>2. PICK t \in T : \A u \in T : t <= u
    <3>1. T \in SUBSET Nat /\ T # {}
      BY <1>1, <2>1
    <3> QED
      BY <3>1, LeastNumber
  <2>3. t # a /\ t \in (a + 1)..b
    BY <1>1, <1>5, <2>2
  <2>4. t - 1 \in a..b /\ ~ (t <= t - 1)
    BY <1>1, <2>3
  <2>5. Good(f[t - 1], t - 1)
    BY <2>2, <2>4
  <2> QED
    BY <1>6, <2>2, <2>3, <2>5
<1>8. {x \in Points : StartOf(x.ts) < b} = Points
  <2> HIDE DEF a, b, Points
  <2> QED
    BY <1>4
<1> QED
  BY <1>2, <1>7, <1>8

-----------------------------------------------------------------------------
\* The cache implements the store.  What callers find and what the files hold
\* is compared partition by partition, of each the live points.

\* getPartition on any map and files.
From(ps, files, s) ==
  IF s \in DOMAIN ps THEN ps[s] ELSE IF s \in DOMAIN files THEN files[s] ELSE newPartition

Found(ps, files, time) == UNION {get(From(ps, files, StartOf(t)), t, time) : t \in Times}

FoundAt(s) == LiveItems(From(partitions, disk, s), now)
DurableAt(s) == LiveItems(From(disk, disk, s), now)

(* A point is found if the partition of its timestamp has it.               *)
LEMMA PointsFound ==
  ASSUME NEW ps, NEW files, NEW time, AllSound(ps), AllSound(files)
  PROVE  /\ \A s \in Starts : LiveItems(From(ps, files, s), time) \subseteq Of(s)
         /\ \A x : x \in Found(ps, files, time) <=>
              x.ts \in Times /\ x \in LiveItems(From(ps, files, StartOf(x.ts)), time)
<1>1. ASSUME NEW s \in Starts
      PROVE  Sound(From(ps, files, s), Of(s)) /\ LiveItems(From(ps, files, s), time) \subseteq Of(s)
  <2>1. Sound(From(ps, files, s), Of(s))
    BY NewSound DEF From, AllSound
  <2>2. ToSet(From(ps, files, s).Items) \subseteq Of(s)
    BY <2>1, LenProperties, ElementOfSeq DEF Sound, ToSet
  <2> QED
    BY <2>1, <2>2 DEF LiveItems
<1>2. ASSUME NEW t \in Times
      PROVE  get(From(ps, files, StartOf(t)), t, time) =
               {x \in LiveItems(From(ps, files, StartOf(t)), time) : x.ts = t}
  <2>1. Sound(From(ps, files, StartOf(t)), Of(StartOf(t)))
    BY <1>1, StartTimes
  <2> QED
    BY <2>1, GetFinds DEF LiveItems
<1> QED
  BY <1>1, <1>2 DEF Found

(* The two memories of the store, before a step.                            *)
LEMMA StorePoints ==
  ASSUME Inv
  PROVE  /\ \A s \in Starts : FoundAt(s) \subseteq Of(s) /\ DurableAt(s) \subseteq Of(s)
         /\ \A x : x \in Visible <=> x.ts \in Times /\ x \in FoundAt(StartOf(x.ts))
         /\ \A x : x \in Durable <=> x.ts \in Times /\ x \in DurableAt(StartOf(x.ts))
<1>1. \A s : getPartition(s) = From(partitions, disk, s) /\ OnDisk(s) = From(disk, disk, s)
  BY DEF getPartition, OnDisk, From, Mapped
<1>2. Visible = Found(partitions, disk, now) /\ Durable = Found(disk, disk, now)
  BY <1>1 DEF Visible, Durable, Found
<1>3. AllSound(partitions) /\ AllSound(disk)
  BY DEF Inv
<1> QED
  BY <1>2, <1>3, PointsFound DEF FoundAt, DurableAt

(* For any timestamps, values, ttls and configurations: of the points of    *)
(* the range that GetExact finds, GetRange returns those whose partition is *)
(* in memory, each once and in ascending order (cache.go:268-292,           *)
(* partition.go:107-126).                                                   *)
THEOREM RangesAreExact == Spec => []RangeIsExact
<1>1. ASSUME Inv, NEW x
      PROVE  x \in Visible /\ StartOf(x.ts) \in Mapped <=>
               Alive(x, now) /\ x \in UNION {ToSet(partitions[s].Items) : s \in Mapped}
  <2>1. \A s \in Mapped : /\ s \in Starts /\ From(partitions, disk, s) = partitions[s]
                         /\ ToSet(partitions[s].Items) \subseteq Of(s)
    BY <1>1, LenProperties, ElementOfSeq DEF Inv, AllSound, Sound, ToSet, Mapped, From
  <2>2. \A s \in Mapped : FoundAt(s) = {y \in ToSet(partitions[s].Items) : Alive(y, now)}
    BY <2>1 DEF FoundAt, LiveItems
  <2>3. \A s \in Mapped : x \in ToSet(partitions[s].Items) => x.ts \in Times /\ StartOf(x.ts) = s
    BY <2>1 DEF Of, Stored
  <2>4. x \in Visible <=> x.ts \in Times /\ x \in FoundAt(StartOf(x.ts))
    BY <1>1, StorePoints
  <2> HIDE DEF Visible
  <2> QED
    BY <2>2, <2>3, <2>4
<1>2. Inv => RangeIsExact
  <2> SUFFICES ASSUME Inv, NEW lo \in Times, NEW hi \in Times, lo <= hi
               PROVE  /\ ToSet(GetRange(lo, hi)) =
                           {x \in Visible : lo <= x.ts /\ x.ts <= hi /\ StartOf(x.ts) \in Mapped}
                      /\ Ascending(GetRange(lo, hi))
    BY DEF RangeIsExact, Ascending
  <2>1. /\ Ascending(GetRange(lo, hi))
        /\ ToSet(GetRange(lo, hi)) =
             {x \in UNION {ToSet(partitions[s].Items) : s \in Mapped} :
                lo <= x.ts /\ x.ts <= hi /\ Alive(x, now)}
    BY RangeCollects
  <2> QED
    BY <1>1, <2>1
<1> QED
  BY <1>2, Invariance, PTL

(* And after it.                                                            *)
LEMMA StorePointsAfter ==
  ASSUME Inv'
  PROVE  /\ \A s \in Starts : FoundAt(s)' \subseteq Of(s) /\ DurableAt(s)' \subseteq Of(s)
         /\ \A x : x \in Visible' <=> x.ts \in Times /\ x \in FoundAt(StartOf(x.ts))'
         /\ \A x : x \in Durable' <=> x.ts \in Times /\ x \in DurableAt(StartOf(x.ts))'
<1>1. \A s : getPartition(s)' = From(partitions', disk', s) /\ OnDisk(s)' = From(disk', disk', s)
  BY DEF getPartition, OnDisk, From, Mapped
<1>2. Visible' = Found(partitions', disk', now') /\ Durable' = Found(disk', disk', now')
  BY <1>1 DEF Visible, Durable, Found
<1>3. AllSound(partitions') /\ AllSound(disk')
  BY DEF Inv
<1>4. \A s : /\ FoundAt(s)' = LiveItems(From(partitions', disk', s), now')
             /\ DurableAt(s)' = LiveItems(From(disk', disk', s), now')
  BY DEF FoundAt, DurableAt
<1> QED
  BY <1>2, <1>3, <1>4, PointsFound

(* A step saves if each file holds what it did or what is found there.      *)
LEMMA StepSaves ==
  ASSUME Inv, Inv',
         \A s \in Starts : DurableAt(s)' = DurableAt(s) \/ DurableAt(s)' = FoundAt(s)'
  PROVE  Store!Saves
<1>1. ASSUME NEW t \in Times
      PROVE  \/ Store!At(Durable', {t}) = Store!At(Durable, {t})
             \/ Store!At(Durable', {t}) = Store!At(Visible', {t})
  <2>1. StartOf(t) \in Starts
    BY StartTimes
  <2> QED
    BY <2>1, StorePoints, StorePointsAfter DEF Store!At
<1> QED
  BY <1>1 DEF Store!Saves

(* Maintenance: at each start what was found is found, or nothing was and   *)
(* the file's points are.                                                   *)
LEMMA StepMaintains ==
  ASSUME Inv, Inv', UNCHANGED now,
         \A s \in Starts : DurableAt(s)' = DurableAt(s) \/ DurableAt(s)' = FoundAt(s)',
         \A s \in Starts : \/ FoundAt(s)' = FoundAt(s)
                           \/ FoundAt(s) = {} /\ FoundAt(s)' = DurableAt(s)
  PROVE  Store!StoreMaintain
<1>1. Store!Saves
  BY StepSaves
<1>2. \A t \in Times : StartOf(t) \in Starts
  BY StartTimes
<1>3. Visible \subseteq Visible'
  BY <1>2, StorePoints, StorePointsAfter
<1>4. ASSUME NEW x \in Visible' \ Visible
      PROVE  x \in Store!At(Durable, Times \ {y.ts : y \in Visible})
  <2>1. x.ts \in Times /\ x \in FoundAt(StartOf(x.ts))' /\ x \notin FoundAt(StartOf(x.ts))
    BY <1>4, StorePoints, StorePointsAfter
  <2>2. FoundAt(StartOf(x.ts)) = {} /\ x \in DurableAt(StartOf(x.ts))
    BY <1>2, <2>1
  <2>3. x \in Durable
    BY <2>1, <2>2, StorePoints
  <2>4. \A y \in Visible : y.ts # x.ts
    BY <2>2, StorePoints
  <2> QED
    BY <2>1, <2>3, <2>4 DEF Store!At
<1> QED
  BY <1>1, <1>3, <1>4 DEF Store!StoreMaintain

(* A Set is one of the store.                                               *)
LEMMA SetImplements ==
  ASSUME Inv, Inv', NEW t \in Times, NEW v \in Values, NEW ttl \in TTLs, Set(t, v, ttl)
  PROVE  Store!StoreSet(t, v, ttl)
<1> SUFFICES ASSUME NEW item, item = Point(t, v, IF ttl > 0 THEN now + ttl ELSE 0)
             PROVE  Store!StoreSet(t, v, ttl)
  OBVIOUS
<1> DEFINE s0 == StartOf(t)
           p == insert(getPartition(s0), item)
<1>1. /\ s0 \in Starts /\ item \in Of(s0) /\ item.ts = t
      /\ ToSet(p.Items) = {x \in ToSet(getPartition(s0).Items) : x.ts # t} \union {item}
      /\ item = [ts |-> t, val |-> v, exp |-> IF ttl > 0 THEN now + ttl ELSE 0]
  BY SetPartition, StartTimes DEF Point
<1>2. Alive(item, now)
  BY <1>1, TimeSeriesAssumption DEF Alive, Inv
<1>3. /\ partitions' = With(partitions, [r \in {s0} |-> p], {s0})
      /\ disk' = disk \/ disk' = With(disk, partitions', {s0})
      /\ UNCHANGED <<config, now>>
  BY DEF Set, Saved
<1>4. getPartition(s0) = From(partitions, disk, s0)
  BY DEF getPartition, From, Mapped
<1> HIDE DEF s0, p
<1>5. FoundAt(s0)' = {x \in FoundAt(s0) : x.ts # t} \union {item}
  <2>1. From(partitions', disk', s0) = p
    BY <1>3 DEF From, With
  <2> QED
    BY <1>1, <1>2, <1>3, <1>4, <2>1 DEF FoundAt, LiveItems
<1>6. ASSUME NEW s \in Starts, s # s0 PROVE FoundAt(s)' = FoundAt(s)
  <2>1. From(partitions', disk', s) = From(partitions, disk, s)
    BY <1>3, <1>6 DEF From, With
  <2> QED
    BY <1>3, <2>1 DEF FoundAt
<1>7. ASSUME NEW s \in Starts
      PROVE  DurableAt(s)' = DurableAt(s) \/ DurableAt(s)' = FoundAt(s)'
  <2>1. \/ From(disk', disk', s) = From(disk, disk, s)
        \/ From(disk', disk', s) = From(partitions', disk', s)
    BY <1>3 DEF From, With
  <2> QED
    BY <1>3, <2>1 DEF FoundAt, DurableAt
<1>8. Store!Saves
  BY <1>7, StepSaves
<1>9. Visible' = Store!At(Visible, Times \ {t}) \union {item}
  <2>1. ASSUME NEW x \in Visible' PROVE x = item \/ x \in Store!At(Visible, Times \ {t})
    <3>1. x.ts \in Times /\ StartOf(x.ts) \in Starts /\ x \in FoundAt(StartOf(x.ts))'
      BY StorePointsAfter, StartTimes
    <3>2. x = item \/ (x \in FoundAt(StartOf(x.ts)) /\ x.ts # t)
      <4>1. CASE StartOf(x.ts) = s0
        BY <1>5, <3>1, <4>1
      <4>2. CASE StartOf(x.ts) # s0
        <5>1. FoundAt(StartOf(x.ts))' = FoundAt(StartOf(x.ts))
          BY <1>6, <3>1, <4>2
        <5>2. x.ts # t
          BY <4>2 DEF s0
        <5> QED
          BY <3>1, <5>1, <5>2
      <4> QED
        BY <4>1, <4>2
    <3> QED
      BY <3>1, <3>2, StorePoints DEF Store!At
  <2>2. ASSUME NEW x \in Store!At(Visible, Times \ {t}) PROVE x \in Visible'
    <3>1. x.ts \in Times /\ StartOf(x.ts) \in Starts /\ x \in FoundAt(StartOf(x.ts)) /\ x.ts # t
      BY StorePoints, StartTimes DEF Store!At
    <3>2. x \in FoundAt(StartOf(x.ts))'
      BY <1>5, <1>6, <3>1
    <3> QED
      BY <3>1, <3>2, StorePointsAfter
  <2>3. item \in Visible'
    <3>1. item \in FoundAt(StartOf(item.ts))'
      BY <1>1, <1>5 DEF s0
    <3> QED
      BY <1>1, <3>1, StorePointsAfter
  <2> QED
    BY <2>1, <2>2, <2>3
<1> QED
  BY <1>1, <1>3, <1>8, <1>9 DEF Store!StoreSet

(* GetExact changes nothing that a caller sees.                             *)
LEMMA GetImplements ==
  ASSUME Inv, Inv', NEW t \in Times, GetExact(t)
  PROVE  UNCHANGED <<Visible, Durable, now>>
<1>1. /\ StartOf(t) \notin DOMAIN partitions
      /\ partitions' = With(partitions, [r \in {StartOf(t)} |-> getPartition(StartOf(t))],
                            {StartOf(t)})
      /\ UNCHANGED <<disk, now>>
  BY DEF GetExact, Mapped
<1>2. ASSUME NEW s PROVE FoundAt(s)' = FoundAt(s) /\ DurableAt(s)' = DurableAt(s)
  <2>1. From(partitions', disk', s) = From(partitions, disk, s)
    BY <1>1 DEF From, With, getPartition, Mapped
  <2> QED
    BY <1>1, <2>1 DEF FoundAt, DurableAt
<1>3. \A x : (x \in Visible' <=> x \in Visible) /\ (x \in Durable' <=> x \in Durable)
  BY <1>2, StorePoints, StorePointsAfter
<1> QED
  BY <1>1, <1>3

(* A range deletion is one of the store.                                    *)
LEMMA DeleteImplements ==
  ASSUME Inv, Inv', NEW lo \in Times, NEW hi \in Times, lo <= hi, DeleteRange(lo, hi)
  PROVE  Store!StoreDelete(lo, hi)
<1> DEFINE hit == {s \in Mapped : StartOf(lo) <= s /\ s <= StartOf(hi)}
           whole == {s \in hit : lo <= s /\ s + PartitionSize <= hi}
           part == hit \ whole
           Outside(s) == {x \in ToSet(partitions[s].Items) : x.ts < lo \/ x.ts > hi}
           rest == [s \in part |-> Keeping(partitions[s], Outside(s))]
<1>1. /\ partitions' = With(Restrict(partitions, Mapped \ whole), rest, part)
      /\ disk' = With(disk, rest, part)
      /\ UNCHANGED now
  BY DEF DeleteRange, Saved
<1>2. /\ lo \in Nat /\ hi \in Nat /\ PartitionSize \in Nat
      /\ \A t \in Times : t \in Nat /\ StartOf(t) \in Starts
      /\ Starts \subseteq Nat
  BY StartTimes, TimeSeriesAssumption DEF Starts
<1>3. ASSUME NEW s \in part
      PROVE  FoundAt(s)' = {x \in FoundAt(s) : x.ts < lo \/ x.ts > hi} /\ DurableAt(s)' = FoundAt(s)'
  <2>1. s \in DOMAIN partitions /\ s \in Starts
    BY DEF Inv, AllSound, Mapped
  <2>2. ToSet(rest[s].Items) = Outside(s)
    <3>1. Sound(partitions[s], Of(s)) /\ \A x \in Of(s) : x.ts \in Int
      BY <2>1, HeldItems DEF Inv, AllSound
    <3>2. ToSet(Keeping(partitions[s], Outside(s)).Items) =
            ToSet(partitions[s].Items) \intersect Outside(s)
      BY <3>1, KeepingSound
    <3> QED
      BY <3>2
  <2>3. From(partitions', disk', s) = rest[s] /\ From(disk', disk', s) = rest[s]
    BY <1>1 DEF From, With
  <2>4. From(partitions, disk, s) = partitions[s]
    BY <2>1 DEF From
  <2> QED
    BY <1>1, <2>2, <2>3, <2>4 DEF FoundAt, DurableAt, LiveItems
<1>4. ASSUME NEW s \in whole
      PROVE  FoundAt(s)' = DurableAt(s) /\ DurableAt(s)' = DurableAt(s)
  <2>1. s \notin DOMAIN partitions' /\ s \notin part
    BY <1>1 DEF With, Restrict
  <2>2. From(partitions', disk', s) = From(disk, disk, s) /\ From(disk', disk', s) = From(disk, disk, s)
    BY <1>1, <2>1 DEF From, With
  <2> QED
    BY <1>1, <2>2 DEF FoundAt, DurableAt
<1>5. ASSUME NEW s \in Starts, s \notin hit
      PROVE  /\ FoundAt(s)' = FoundAt(s) /\ DurableAt(s)' = DurableAt(s)
             /\ s \notin Mapped => FoundAt(s) = DurableAt(s)
  <2>1. /\ s \in DOMAIN partitions' <=> s \in DOMAIN partitions
        /\ s \in DOMAIN partitions => partitions'[s] = partitions[s]
        /\ s \in DOMAIN disk' <=> s \in DOMAIN disk
        /\ s \in DOMAIN disk => disk'[s] = disk[s]
    BY <1>1, <1>5 DEF With, Restrict, Mapped
  <2>2. /\ From(partitions', disk', s) = From(partitions, disk, s)
        /\ From(disk', disk', s) = From(disk, disk, s)
        /\ s \notin Mapped => From(partitions, disk, s) = From(disk, disk, s)
    BY <2>1 DEF From, Mapped
  <2> QED
    BY <1>1, <2>2 DEF FoundAt, DurableAt
<1>6. ASSUME NEW s \in whole, NEW x \in Of(s) PROVE lo <= x.ts /\ x.ts <= hi
  <2>1. s \in Starts
    BY DEF Inv, AllSound, Mapped
  <2> QED
    BY <1>2, <2>1, HeldItems
<1>7. ASSUME NEW s \in Mapped \ hit, NEW x \in Of(s) PROVE x.ts < lo \/ x.ts > hi
  <2>1. s \in Starts /\ s \in Nat
    BY <1>2 DEF Inv, AllSound, Mapped
  <2>2. x.ts \in Times /\ StartOf(x.ts) = s
    BY <2>1, HeldItems
  <2>3. /\ lo <= x.ts => StartOf(lo) <= s
        /\ x.ts <= hi => s <= StartOf(hi)
    BY <2>2, StartsAscend
  <2>4. ~ (StartOf(lo) <= s /\ s <= StartOf(hi))
    OBVIOUS
  <2>5. x.ts \in Nat
    BY <1>2, <2>2
  <2> HIDE DEF hit
  <2> QED
    BY <1>2, <2>3, <2>4, <2>5
<1> HIDE DEF whole, part, rest
<1>8. \A s \in Starts : s \in part \/ s \in whole \/ s \notin hit
  BY DEF part
<1> HIDE DEF hit
<1>9. Store!Saves
  <2>1. \A s \in Starts : DurableAt(s)' = DurableAt(s) \/ DurableAt(s)' = FoundAt(s)'
    BY <1>3, <1>4, <1>5, <1>8
  <2> QED
    BY <2>1, StepSaves
<1>10. ASSUME NEW s \in Starts, NEW x \in Of(s)
       PROVE  /\ x.ts \notin lo..hi => (x \in FoundAt(s)' <=> x \in FoundAt(s))
              /\ x.ts \in lo..hi /\ x \in FoundAt(s)' => x \in DurableAt(s)
  <2>1. x.ts \in Nat
    BY <1>2, HeldItems
  <2>2. CASE s \in part
    BY <1>2, <1>3, <2>1, <2>2
  <2>3. CASE s \in whole
    BY <1>2, <1>4, <1>6, <2>1, <2>3
  <2>4. CASE s \notin hit
    BY <1>2, <1>5, <1>7, <2>1, <2>4
  <2> QED
    BY <1>8, <2>2, <2>3, <2>4
<1>11. ASSUME NEW x PROVE x \in Store!At(Visible', Times \ (lo..hi)) <=> x \in Store!At(Visible, Times \ (lo..hi))
  BY <1>2, <1>10, StorePoints, StorePointsAfter DEF Store!At
<1>12. ASSUME NEW x \in Store!At(Visible', lo..hi) PROVE x \in Durable
  BY <1>2, <1>10, StorePoints, StorePointsAfter DEF Store!At
<1> QED
  BY <1>1, <1>9, <1>11, <1>12 DEF Store!StoreDelete

(* Maintenance, Clear and a clean restart lose no live point.               *)
LEMMA MaintenanceImplements ==
  ASSUME Inv, Inv', cleanup \/ flush \/ Clear \/ Restart
  PROVE  Store!StoreMaintain
<1>1. CASE cleanup
  <2> DEFINE p == [s \in Mapped |-> pruned(partitions[s], now)]
             kept == {s \in Mapped : p[s].Items # <<>>}
             old == IF config.MaxPartitions > 0 /\ Cardinality(kept) > config.MaxPartitions
                    THEN {s \in kept : \A r \in kept : s <= r} ELSE {}
  <2>1. /\ partitions' = Restrict(p, kept \ old) /\ disk' = With(disk, p, old)
        /\ UNCHANGED now
    BY <1>1 DEF cleanup, Saved
  <2>2. ASSUME NEW s \in Mapped
        PROVE  /\ LiveItems(p[s], now) = FoundAt(s)
               /\ p[s].Items = <<>> => FoundAt(s) = {}
    <3>1. s \in DOMAIN partitions /\ s \in Starts
      BY DEF Inv, AllSound, Mapped
    <3>2. Sound(partitions[s], Of(s)) /\ \A x \in Of(s) : x.ts \in Int
      BY <3>1, HeldItems DEF Inv, AllSound
    <3>3. ToSet(p[s].Items) = ToSet(partitions[s].Items) \intersect LiveItems(partitions[s], now)
      BY <3>2, KeepingSound DEF pruned
    <3>4. FoundAt(s) = LiveItems(partitions[s], now)
      BY <3>1 DEF FoundAt, From
    <3>5. LiveItems(p[s], now) = FoundAt(s)
      BY <3>3, <3>4 DEF LiveItems
    <3>6. p[s].Items = <<>> => LiveItems(p[s], now) = {}
      BY DEF LiveItems, ToSet
    <3> QED
      BY <3>5, <3>6
  <2>3. old \subseteq kept /\ kept \subseteq Mapped /\ \A s \in Mapped \ kept : p[s].Items = <<>>
    OBVIOUS
  <2>4. DOMAIN p = Mapped
    OBVIOUS
  <2> HIDE DEF p, kept, old
  <2>5. ASSUME NEW s \in old PROVE FoundAt(s)' = FoundAt(s) /\ DurableAt(s)' = FoundAt(s)'
    <3>1. From(partitions', disk', s) = p[s] /\ From(disk', disk', s) = p[s]
      BY <2>1 DEF From, With, Restrict
    <3> QED
      BY <2>1, <2>2, <2>3, <3>1 DEF FoundAt, DurableAt
  <2>6. ASSUME NEW s, s \notin old
        PROVE  /\ DurableAt(s)' = DurableAt(s)
               /\ \/ FoundAt(s)' = FoundAt(s)
                  \/ FoundAt(s) = {} /\ FoundAt(s)' = DurableAt(s)
    <3>1. From(disk', disk', s) = From(disk, disk, s)
      BY <2>1, <2>6 DEF From, With
    <3>2. CASE s \in kept
      <4>1. From(partitions', disk', s) = p[s]
        BY <2>1, <2>3, <2>4, <2>6, <3>2 DEF From, Restrict
      <4> QED
        BY <2>1, <2>2, <2>3, <3>1, <3>2, <4>1 DEF FoundAt, DurableAt
    <3>3. CASE s \notin kept
      <4>1. From(partitions', disk', s) = From(disk', disk', s)
        BY <2>1, <3>3 DEF From, Restrict
      <4>2. s \notin Mapped => From(partitions, disk, s) = From(disk, disk, s)
        BY DEF From, Mapped
      <4> QED
        BY <2>1, <2>2, <2>3, <3>1, <3>3, <4>1, <4>2 DEF FoundAt, DurableAt
    <3> QED
      BY <3>2, <3>3
  <2> QED
    BY <2>1, <2>5, <2>6, StepMaintains
<1>2. CASE flush \/ Clear \/ Restart
  <2>1. /\ disk' = With(disk, partitions, DOMAIN partitions)
        /\ partitions' = partitions \/ partitions' = <<>> \/ partitions' = disk'
        /\ UNCHANGED now
    BY <1>2 DEF flush, Clear, Restart, Saved, Mapped
  <2>2. DOMAIN <<>> = {}
    OBVIOUS
  <2>3. ASSUME NEW s
        PROVE  /\ FoundAt(s)' = FoundAt(s)
               /\ DurableAt(s)' = DurableAt(s) \/ DurableAt(s)' = FoundAt(s)'
    <3>1. /\ From(partitions', disk', s) = From(partitions, disk, s)
          /\ From(disk', disk', s) = From(partitions, disk, s)
      BY <2>1, <2>2 DEF From, With
    <3> QED
      BY <2>1, <3>1 DEF FoundAt, DurableAt
  <2> QED
    BY <2>1, <2>3, StepMaintains
<1> QED
  BY <1>1, <1>2

(* After a crash the files are what there is.                               *)
LEMMA CrashImplements ==
  ASSUME Inv, Inv', Crash
  PROVE  Store!StoreCrash
<1>1. partitions' = disk /\ disk' = disk /\ now' = now
  BY DEF Crash
<1>2. \A s : FoundAt(s)' = DurableAt(s) /\ DurableAt(s)' = DurableAt(s)
  BY <1>1 DEF FoundAt, DurableAt
<1>3. \A x : (x \in Visible' <=> x \in Durable) /\ (x \in Durable' <=> x \in Durable)
  BY <1>2, StorePoints, StorePointsAfter
<1> QED
  BY <1>1, <1>3 DEF Store!StoreCrash

(* Time takes what expires from memory and from the files alike.            *)
LEMMA TickImplements ==
  ASSUME Inv, Inv', Tick
  PROVE  Store!StoreTick
<1>1. partitions' = partitions /\ disk' = disk /\ now' = now + 1 /\ now \in Nat
  BY DEF Tick, Inv
<1>2. ASSUME NEW s \in Starts
      PROVE  /\ FoundAt(s)' = {x \in FoundAt(s) : Alive(x, now')}
             /\ DurableAt(s)' = {x \in DurableAt(s) : Alive(x, now')}
  <2>1. \A p, x : x \in LiveItems(p, now') /\ x \in Of(s) => x \in LiveItems(p, now)
    <3>1. \A x \in Of(s) : x.exp \in Nat
      BY HeldItems
    <3> QED
      BY <1>1, <3>1 DEF LiveItems, Alive
  <2>2. FoundAt(s)' \subseteq Of(s) /\ DurableAt(s)' \subseteq Of(s)
    BY StorePointsAfter
  <2>3. /\ From(partitions', disk', s) = From(partitions, disk, s)
        /\ From(disk', disk', s) = From(disk, disk, s)
    BY <1>1
  <2> QED
    BY <2>1, <2>2, <2>3 DEF FoundAt, DurableAt, LiveItems
<1>3. \A t \in Times : StartOf(t) \in Starts
  BY StartTimes
<1>4. \A x : /\ x \in Visible' <=> x \in Visible /\ Alive(x, now')
             /\ x \in Durable' <=> x \in Durable /\ Alive(x, now')
  BY <1>2, <1>3, StorePoints, StorePointsAfter
<1>5. ASSUME NEW x \in Visible \union Durable
      PROVE  Alive(x, now') <=> x.exp = 0 \/ x.exp >= now'
  <2>1. x.exp \in Nat
    BY <1>3, HeldItems, StorePoints
  <2> QED
    BY <1>1, <2>1 DEF Alive
<1> QED
  BY <1>1, <1>4, <1>5 DEF Store!StoreTick

(* For any timestamps, values, ttls and configurations, the cache is the    *)
(* store that its callers rely on (cache.go).                               *)
THEOREM CacheIsStore == Spec => ImplementsStore
<1>1. Init => Store!StoreInit
  <2>1. SUFFICES ASSUME Init PROVE Store!StoreInit
    OBVIOUS
  <2>2. Inv
    BY <2>1, InitInv
  <2>3. DOMAIN <<>> = {} /\ ToSet(newPartition.Items) = {}
    BY DEF newPartition, ToSet
  <2>4. \A s : FoundAt(s) = {} /\ DurableAt(s) = {}
    BY <2>1, <2>3 DEF Init, FoundAt, DurableAt, From, LiveItems
  <2>5. Visible = {} /\ Durable = {}
    BY <2>2, <2>4, StorePoints
  <2> QED
    BY <2>1, <2>5 DEF Init, Store!StoreInit
<1> DEFINE Promises ==
             /\ \A t \in Times, v \in Values, ttl \in TTLs :
                  Set(t, v, ttl) => Store!StoreSet(t, v, ttl)
             /\ \A lo, hi \in Times :
                  lo <= hi /\ DeleteRange(lo, hi) => Store!StoreDelete(lo, hi)
             /\ cleanup \/ flush \/ Clear \/ Restart => Store!StoreMaintain
             /\ Crash => Store!StoreCrash
<1>2. Inv /\ Inv' => Promises
  BY SetImplements, DeleteImplements, MaintenanceImplements, CrashImplements
<1>3. Inv /\ Inv' /\ [Next]_vars => [Store!StoreNext]_(Store!vars)
  <2> SUFFICES ASSUME Inv, Inv', [Next]_vars PROVE [Store!StoreNext]_(Store!vars)
    OBVIOUS
  <2> HIDE DEF Promises
  <2>1. CASE UNCHANGED vars
    <3>1. \A s : FoundAt(s)' = FoundAt(s) /\ DurableAt(s)' = DurableAt(s)
      BY <2>1 DEF vars, FoundAt, DurableAt
    <3>2. Visible' = Visible /\ Durable' = Durable /\ now' = now
      BY <2>1, <3>1, StorePoints, StorePointsAfter DEF vars
    <3> QED
      BY <3>2 DEF Store!vars
  <2>2. ASSUME NEW t \in Times, GetExact(t) PROVE UNCHANGED Store!vars
    BY <2>2, GetImplements DEF Store!vars
  <2>3. CASE Tick
    BY <2>3, TickImplements DEF Store!StoreNext
  <2>4. ASSUME NEW t \in Times, NEW v \in Values, NEW ttl \in TTLs, Set(t, v, ttl)
        PROVE  Store!StoreNext
    BY <2>4, SetImplements DEF Store!StoreNext
  <2>5. ASSUME NEW lo \in Times, NEW hi \in Times, lo <= hi, DeleteRange(lo, hi)
        PROVE  Store!StoreNext
    BY <2>5, DeleteImplements DEF Store!StoreNext
  <2>6. CASE cleanup \/ flush \/ Clear \/ Restart \/ Crash
    BY <2>6, MaintenanceImplements, CrashImplements DEF Store!StoreNext
  <2> QED
    BY <2>1, <2>2, <2>3, <2>4, <2>5, <2>6 DEF Next
<1>4. Spec => Store!StoreSpec
  BY <1>1, <1>3, Invariance, PTL DEF Spec, Store!StoreSpec
<1>5. Spec => [][Promises]_vars
  BY <1>2, Invariance, PTL DEF Spec
<1>6. [][Promises]_vars => CallsDoWhatTheyPromise
  BY DEF CallsDoWhatTheyPromise
<1> QED
  BY <1>4, <1>5, <1>6 DEF ImplementsStore
=============================================================================
