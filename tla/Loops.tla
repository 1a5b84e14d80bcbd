------------------------------- MODULE Loops --------------------------------
(***************************************************************************)
(* Loops that count: an invariant of each turn holds of all of them, and a *)
(* recursive function that computes one turn from the turn before exists.  *)
(* The library's induction theorems take operators, which the provers do   *)
(* not instantiate; these take sets and functions.                         *)
(***************************************************************************)
EXTENDS Integers, FiniteSetTheorems, TLAPS

(* Some natural numbers have a least one.                                   *)
LEMMA LeastNumber ==
  ASSUME NEW T \in SUBSET Nat, T # {}
  PROVE  \E n \in T : \A m \in T : n <= m
<1>1. PICK k \in T : TRUE
  OBVIOUS
<1> DEFINE S == {x \in T : x <= k}
           Below(x) == {y \in S : y <= x}
           F == {Below(x) : x \in S}
<1>2. IsFiniteSet(S)
  BY FS_BoundedSetOfNaturals
<1>3. IsWellFoundedOn(StrictSubsetOrdering(S), FiniteSubsetsOf(S))
  BY <1>2, FS_StrictSubsetOrderingWellFounded
<1>4. F \subseteq FiniteSubsetsOf(S) /\ F # {}
  <2>1. \A x \in S : Below(x) \in SUBSET S
    OBVIOUS
  <2>2. k \in S
    BY <1>1
  <2>3. F \subseteq SUBSET S /\ F # {}
    BY <2>1, <2>2
  <2> HIDE DEF F
  <2> QED
    BY <1>2, <2>3, FS_Subset DEF FiniteSubsetsOf
<1>5. PICK B \in F : \A C \in F : <<C, B>> \notin StrictSubsetOrdering(S)
  BY <1>3, <1>4, WFMin
<1>6. PICK n \in S : B = Below(n)
  BY <1>5
<1>7. ASSUME NEW m \in S, m < n PROVE FALSE
  <2>1. m \in Nat /\ n \in Nat /\ S \subseteq Nat
    OBVIOUS
  <2>2. Below(m) \subseteq Below(n) /\ n \in Below(n) /\ n \notin Below(m)
    BY <1>7, <2>1
  <2>3. Below(m) \in F /\ Below(m) \subseteq S /\ Below(n) \subseteq S
    OBVIOUS
  <2> QED
    BY <1>5, <1>6, <2>2, <2>3 DEF StrictSubsetOrdering
<1> QED
  BY <1>1, <1>6, <1>7

(* What holds at the first turn and is kept by each turn holds at all.      *)
LEMMA EachTurn ==
  ASSUME NEW a \in Int, NEW b \in Int, NEW T,
         a \in T,
         \A n \in (a + 1)..b : n - 1 \in T => n \in T
  PROVE  \A n \in a..b : n \in T
<1>1. SUFFICES ASSUME NEW x \in a..b, x \notin T PROVE FALSE
  OBVIOUS
<1> DEFINE D == {d \in 0..(b - a) : a + d \notin T}
<1>2. D \in SUBSET Nat /\ x - a \in D
  BY <1>1
<1>3. PICK d \in D : \A e \in D : d <= e
  BY <1>2, LeastNumber
<1>4. d \in 0..(b - a) /\ a + d \notin T /\ d # 0
  BY <1>3
<1>5. d - 1 \in 0..(b - a) /\ ~ (d <= d - 1) /\ a + (d - 1) = (a + d) - 1 /\ a + d \in (a + 1)..b
  BY <1>4
<1>6. d - 1 \notin D
  BY <1>3, <1>5
<1>7. (a + d) - 1 \in T
  BY <1>5, <1>6
<1> QED
  BY <1>4, <1>5, <1>7

\* One turn of a loop of N turns on values of T, and what the loop computes
\* from the value c.
Turns(N, T) == [1..N -> [T -> T]]
IsLoop(f, N, c, turn) == f[0] = c /\ \A n \in 1..N : f[n] = turn[n][f[n - 1]]

(* A loop has a value at each turn.                                         *)
LEMMA LoopHasValues ==
  ASSUME NEW N \in Nat, NEW T, NEW c \in T, NEW turn \in Turns(N, T)
  PROVE  \E f \in [0..N -> T] : IsLoop(f, N, c, turn)
<1> USE DEF Turns, IsLoop
<1> DEFINE Upto(n) == \E f \in [0..n -> T] : IsLoop(f, n, c, turn)
           U == {n \in 0..N : Upto(n)}
<1>1. Upto(0)
  <2> DEFINE f == [m \in 0..0 |-> c]
  <2>1. f \in [0..0 -> T] /\ f[0] = c /\ \A m \in 1..0 : f[m] = turn[m][f[m - 1]]
    OBVIOUS
  <2> QED
    BY <2>1
<1>2. ASSUME NEW n \in 1..N, Upto(n - 1) PROVE Upto(n)
  <2>1. PICK f \in [0..(n - 1) -> T] :
               f[0] = c /\ \A m \in 1..(n - 1) : f[m] = turn[m][f[m - 1]]
    BY <1>2
  <2> DEFINE g == [m \in 0..n |-> IF m < n THEN f[m] ELSE turn[n][f[n - 1]]]
  <2>2. f[n - 1] \in T /\ turn[n][f[n - 1]] \in T
    BY <2>1
  <2>3. \A m \in 0..n : m < n => m \in 0..(n - 1) /\ f[m] \in T /\ g[m] = f[m]
    BY <2>1
  <2>4. g \in [0..n -> T] /\ g[n] = turn[n][f[n - 1]] /\ g[0] = c /\ g[n - 1] = f[n - 1]
    BY <2>1, <2>2, <2>3
  <2>5. ASSUME NEW m \in 1..n PROVE g[m] = turn[m][g[m - 1]]
    <3>1. CASE m = n
      BY <2>4, <3>1
    <3>2. CASE m < n
      <4>1. m \in 1..(n - 1) /\ m - 1 \in 0..n /\ m - 1 < n /\ m \in 0..n
        BY <3>2
      <4> HIDE DEF g
      <4> QED
        BY <2>1, <2>3, <3>2, <4>1
    <3> QED
      BY <3>1, <3>2
  <2> HIDE DEF g
  <2> QED
    BY <2>4, <2>5
<1>3. \A n \in 0..N : n \in U
  <2>1. 0 \in U
    BY <1>1
  <2>2. \A n \in (0 + 1)..N : n - 1 \in U => n \in U
    <3> HIDE DEF Upto
    <3> QED
      BY <1>2
  <2>3. 0 \in Int /\ N \in Int
    OBVIOUS
  <2> HIDE DEF U
  <2> QED
    BY <2>1, <2>2, <2>3, EachTurn
<1>4. Upto(N)
  <2> HIDE DEF Upto
  <2> QED
    BY <1>3
<1> QED
  BY <1>4
=============================================================================
