------------------------------- MODULE Extrema -------------------------------
(* Least and greatest elements of sets of naturals, which the proofs need of  *)
(* SQL's MIN and MAX, and the induction that a least element makes possible.  *)
EXTENDS Integers, FiniteSetsExt, WellFoundedInduction, FiniteSetTheorems, TLAPS

\* A nonempty set of naturals has a least element, and Min names it.  The
\* ordering comes from strict inclusion of the intervals 0..x.
LEMMA MinIsLeast ==
  ASSUME NEW S \in SUBSET Nat, S # {}
  PROVE  Min(S) \in S /\ \A x \in S : Min(S) <= x
<1> DEFINE T == {0..x : x \in S}
           R == StrictSubsetOrdering(Nat)
<1>1. T \subseteq FiniteSubsetsOf(Nat) /\ T # {}
  <2>1. ASSUME NEW x \in S PROVE 0..x \in FiniteSubsetsOf(Nat)
    BY FS_Interval DEF FiniteSubsetsOf
  <2>2. QED
    BY <2>1
<1>2. PICK X \in T : \A Y \in T : ~(<<Y, X>> \in R)
  <2> HIDE DEF T, R
  <2>1. IsWellFoundedOn(R, FiniteSubsetsOf(Nat))
    BY FS_StrictSubsetOrderingWellFounded DEF R
  <2>2. QED
    BY <1>1, <2>1, WFMin
<1>3. PICK m \in S : X = 0..m
  OBVIOUS
<1>4. ASSUME NEW y \in S PROVE m =< y
  <2> SUFFICES ASSUME y < m PROVE FALSE
    OBVIOUS
  <2>1. 0..y \subseteq 0..m /\ 0..y # 0..m
    <3>1. m \in 0..m /\ m \notin 0..y
      OBVIOUS
    <3>2. QED
      BY <3>1
  <2>2. <<0..y, 0..m>> \in R
    BY <2>1 DEF StrictSubsetOrdering
  <2>3. QED
    BY <1>2, <1>3, <2>2
<1>5. QED
  BY <1>4 DEF Min

\* A nonempty set of naturals with an upper bound has a greatest element.
LEMMA MaxIsGreatest ==
  ASSUME NEW n \in Nat, NEW S \in SUBSET (0..n), S # {}
  PROVE  Max(S) \in S /\ \A x \in S : x <= Max(S)
<1> DEFINE R == {d \in 0..n : n - d \in S}
<1>1. R \in SUBSET Nat /\ R # {}
  <2>1. PICK x \in S : TRUE
    OBVIOUS
  <2>2. n - x \in 0..n /\ n - (n - x) = x
    OBVIOUS
  <2>3. n - x \in R
    BY <2>2
  <2>4. R \subseteq 0..n
    OBVIOUS
  <2>5. \A d \in R : d \in Nat
    BY <2>4
  <2> HIDE DEF R
  <2>6. QED
    BY <2>3, <2>5
<1>2. Min(R) \in R /\ \A y \in R : Min(R) <= y
  <2> HIDE DEF R
  <2>1. QED
    BY <1>1, MinIsLeast
<1>3. n - Min(R) \in S
  BY <1>2
<1>4. ASSUME NEW x \in S PROVE x <= n - Min(R)
  <2>1. n - x \in 0..n /\ n - (n - x) = x
    OBVIOUS
  <2>2. Min(R) <= n - x /\ Min(R) \in 0..n
    BY <1>2, <2>1
  <2>3. QED
    BY <2>2
<1>5. \E m \in S : \A x \in S : m >= x
  <2>1. Min(R) \in 0..n
    BY <1>2
  <2>2. \A x \in S : n - Min(R) >= x
    BY <1>4, <2>1
  <2>3. QED
    BY <1>3, <2>2
<1>6. QED
  BY <1>5 DEF Max

-----------------------------------------------------------------------------
(* Induction, by least counterexample, and what it is needed for.             *)

\* A set of naturals that 0 is in, and with each number its successor, is all.
LEMMA AllNaturals ==
  ASSUME NEW S, 0 \in S, \A n \in Nat : n \in S => n + 1 \in S
  PROVE  Nat \subseteq S
<1> DEFINE T == Nat \ S
           m == Min(T)
<1>1. CASE T = {}
  BY <1>1
<1>2. CASE T # {}
  <2>1. T \in SUBSET Nat
    OBVIOUS
  <2> HIDE DEF T
  <2>2. m \in T /\ \A x \in T : m <= x
    BY <1>2, <2>1, MinIsLeast
  <2> HIDE DEF m
  <2>3. m \in Nat /\ m \notin S /\ m # 0
    BY <2>2 DEF T
  <2>4. m - 1 \in Nat /\ m - 1 \notin T
    BY <2>2, <2>3, <2>1
  <2>5. m - 1 \in S
    BY <2>4 DEF T
  <2>6. (m - 1) + 1 \in S
    BY <2>4, <2>5
  <2>7. QED
    BY <2>3, <2>6
<1>3. QED
  BY <1>1, <1>2

\* The running sums of a sequence of naturals exist, and they rise.
LEMMA SumsRise ==
  ASSUME NEW N \in Nat, NEW g \in [1..N -> Nat], NEW s,
         s = CHOOSE f : f = [n \in 0..N |-> IF n = 0 THEN 0 ELSE f[n - 1] + g[n]]
  PROVE  /\ s \in [0..N -> Nat]
         /\ s[0] = 0
         /\ \A n \in 1..N : s[n] = s[n - 1] + g[n]
         /\ \A a, b \in 0..N : a <= b => s[a] <= s[b]
<1> DEFINE IsSum(f, k) == f = [n \in 0..k |-> IF n = 0 THEN 0 ELSE f[n - 1] + g[n]]
           S == {k \in Nat : k <= N => \E f : IsSum(f, k)}
<1>1. 0 \in S
  <2>1. IsSum([n \in 0..0 |-> 0], 0)
    OBVIOUS
  <2>2. QED
    BY <2>1
<1>2. ASSUME NEW k \in Nat, k \in S PROVE k + 1 \in S
  <2> SUFFICES ASSUME k + 1 <= N PROVE \E f : IsSum(f, k + 1)
    OBVIOUS
  <2>1. PICK f : IsSum(f, k)
    BY <1>2
  <2> DEFINE h == [n \in 0..(k + 1) |-> IF n = k + 1 THEN f[k] + g[k + 1] ELSE f[n]]
  <2>2. \A n \in 0..k : h[n] = f[n] /\ n \in 0..(k + 1)
    OBVIOUS
  <2>3. ASSUME NEW n \in 0..(k + 1)
        PROVE  h[n] = IF n = 0 THEN 0 ELSE h[n - 1] + g[n]
    <3>1. CASE n = k + 1
      <4>1. h[n] = f[k] + g[k + 1] /\ n # 0 /\ n - 1 = k /\ k \in 0..k
        BY <3>1
      <4>2. QED
        BY <2>2, <4>1, <3>1
    <3>2. CASE n \in 0..k
      <4>1. f[n] = IF n = 0 THEN 0 ELSE f[n - 1] + g[n]
        BY <2>1, <3>2
      <4>2. n # 0 => n - 1 \in 0..k
        BY <3>2
      <4>3. QED
        BY <2>2, <3>2, <4>1, <4>2
    <3>3. QED
      BY <3>1, <3>2
  <2>4. h = [n \in 0..(k + 1) |-> h[n]]
    OBVIOUS
  <2> HIDE DEF h
  <2>5. IsSum(h, k + 1)
    BY <2>3, <2>4
  <2>6. QED
    BY <2>5
<1>3. \E f : IsSum(f, N)
  <2> HIDE DEF S
  <2>1. Nat \subseteq S
    BY <1>1, <1>2, AllNaturals
  <2>2. N \in S
    BY <2>1
  <2>3. QED
    BY <2>2 DEF S
<1>4. IsSum(s, N)
  BY <1>3, Zenon
<1>5. /\ DOMAIN s = 0..N /\ s[0] = 0
      /\ \A n \in 1..N : s[n] = s[n - 1] + g[n]
  <2>1. \A n \in 0..N : s[n] = IF n = 0 THEN 0 ELSE s[n - 1] + g[n]
    BY <1>4
  <2>2. DOMAIN s = 0..N
    BY <1>4
  <2> HIDE DEF IsSum
  <2>3. s[0] = 0
    BY <2>1
  <2>4. ASSUME NEW n \in 1..N PROVE s[n] = s[n - 1] + g[n]
    <3>1. n \in 0..N /\ n # 0
      OBVIOUS
    <3>2. QED
      BY <2>1, <3>1
  <2>5. QED
    BY <2>2, <2>3, <2>4
<1>9. s = [n \in 0..N |-> s[n]]
  BY <1>4
<1> HIDE DEF IsSum
<1>6. \A n \in 0..N : s[n] \in Nat
  <2> DEFINE T == {n \in Nat : n <= N => s[n] \in Nat}
  <2>1. 0 \in T
    BY <1>5
  <2>2. ASSUME NEW n \in Nat, n \in T PROVE n + 1 \in T
    <3> SUFFICES ASSUME n + 1 <= N PROVE s[n + 1] \in Nat
      OBVIOUS
    <3>0. n + 1 \in 1..N /\ (n + 1) - 1 = n
      OBVIOUS
    <3>1. s[n + 1] = s[n] + g[n + 1] /\ g[n + 1] \in Nat
      BY <1>5, <3>0
    <3>2. s[n] \in Nat
      BY <2>2
    <3>3. QED
      BY <3>1, <3>2
  <2> HIDE DEF T
  <2>3. Nat \subseteq T
    BY <2>1, <2>2, AllNaturals
  <2>4. QED
    BY <2>3 DEF T
<1>7. \A a, b \in 0..N : a <= b => s[a] <= s[b]
  <2> DEFINE T == {n \in Nat : n <= N => \A a \in 0..n : s[a] <= s[n]}
  <2>1. 0 \in T
    BY <1>6
  <2>2. ASSUME NEW n \in Nat, n \in T PROVE n + 1 \in T
    <3> SUFFICES ASSUME n + 1 <= N, NEW a \in 0..(n + 1) PROVE s[a] <= s[n + 1]
      OBVIOUS
    <3>0. n + 1 \in 1..N /\ (n + 1) - 1 = n
      OBVIOUS
    <3>1. s[n + 1] = s[n] + g[n + 1] /\ g[n + 1] \in Nat
      BY <1>5, <3>0
    <3>2. s[n] \in Nat /\ s[a] \in Nat /\ s[n + 1] \in Nat
      BY <1>6
    <3>3. a # n + 1 => s[a] <= s[n]
      BY <2>2
    <3>4. QED
      BY <3>1, <3>2, <3>3
  <2> HIDE DEF T
  <2>3. Nat \subseteq T
    BY <2>1, <2>2, AllNaturals
  <2>4. QED
    BY <2>3 DEF T
<1>8. QED
  BY <1>5, <1>6, <1>7, <1>9

\* Functions that change alike over an interval, and what follows of its ends.
Alike(s, q, m, N) ==
  /\ \A n \in m..N : s[n] \in Nat /\ q[n] \in Nat
  /\ \A n \in (m + 1)..N : s[n] - s[n - 1] = q[n] - q[n - 1]

LEMMA RiseAlike ==
  ASSUME NEW m \in Nat, NEW N \in Nat, m <= N, NEW s, NEW q, Alike(s, q, m, N)
  PROVE  s[N] - s[m] = q[N] - q[m]
<1> USE DEF Alike
<1> DEFINE S == {n \in Nat : n \in m..N => s[n] - s[m] = q[n] - q[m]}
<1>1. \A n \in 0..m : n \in S
  OBVIOUS
<1>2. ASSUME NEW n \in Nat, n \in S PROVE n + 1 \in S
  <2> SUFFICES ASSUME n + 1 \in m..N PROVE s[n + 1] - s[m] = q[n + 1] - q[m]
    OBVIOUS
  <2>1. CASE n + 1 = m
    BY <2>1
  <2>2. CASE n + 1 # m
    <3>1. n \in m..N /\ n + 1 \in (m + 1)..N /\ (n + 1) - 1 = n /\ m \in m..N
      BY <2>2
    <3>2. s[n] - s[m] = q[n] - q[m] /\ s[n + 1] - s[n] = q[n + 1] - q[n]
      BY <1>2, <3>1
    <3>3. /\ s[n] \in Nat /\ q[n] \in Nat /\ s[n + 1] \in Nat /\ q[n + 1] \in Nat
          /\ s[m] \in Nat /\ q[m] \in Nat
      BY <3>1
    <3>4. QED
      BY <3>2, <3>3
  <2>3. QED
    BY <2>1, <2>2
<1>3. 0 \in S /\ N \in m..N
  BY <1>1
<1> HIDE DEF S
<1>4. N \in S
  BY <1>2, <1>3, AllNaturals
<1>5. QED
  BY <1>3, <1>4 DEF S

\* What a recursion over 0..N computes, each value from the one before.
Iteration(N, V, base, g) ==
  {f \in [0..N -> V] : f[0] = base /\ \A n \in 1..N : f[n] = g[n][f[n - 1]]}

\* It exists.
LEMMA Iterates ==
  ASSUME NEW N \in Nat, NEW V, NEW base \in V, NEW g \in [1..N -> [V -> V]]
  PROVE  Iteration(N, V, base, g) # {}
<1> DEFINE Is(f, k) == /\ f \in [0..k -> V] /\ f[0] = base
                       /\ \A n \in 1..k : f[n] = g[n][f[n - 1]]
           S == {k \in Nat : k <= N => \E f : Is(f, k)}
<1>1. 0 \in S
  <2>1. Is([n \in 0..0 |-> base], 0)
    OBVIOUS
  <2>2. QED
    BY <2>1
<1>2. ASSUME NEW k \in Nat, k \in S PROVE k + 1 \in S
  <2> SUFFICES ASSUME k + 1 <= N PROVE \E f : Is(f, k + 1)
    OBVIOUS
  <2>1. PICK f : Is(f, k)
    BY <1>2
  <2> DEFINE h == [n \in 0..(k + 1) |-> IF n = k + 1 THEN g[k + 1][f[k]] ELSE f[n]]
  <2>2. k + 1 \in 1..N /\ k \in 0..k /\ f[k] \in V
    BY <2>1
  <2>3. g[k + 1][f[k]] \in V
    BY <2>2
  <2>4. h \in [0..(k + 1) -> V]
    BY <2>1, <2>3
  <2>5. h[0] = base /\ h[k + 1] = g[k + 1][f[k]] /\ \A n \in 0..k : h[n] = f[n]
    BY <2>1
  <2> HIDE DEF h
  <2>6. ASSUME NEW n \in 1..(k + 1) PROVE h[n] = g[n][h[n - 1]]
    <3>1. CASE n = k + 1
      <4>1. n - 1 = k
        BY <3>1
      <4>2. QED
        BY <2>2, <2>5, <3>1, <4>1
    <3>2. CASE n \in 1..k
      <4>1. n \in 0..k /\ n - 1 \in 0..k
        BY <3>2
      <4>2. QED
        BY <2>1, <2>5, <3>2, <4>1
    <3>3. QED
      BY <3>1, <3>2
  <2>7. QED
    BY <2>4, <2>5, <2>6
<1>3. QED
  <2> HIDE DEF S
  <2>1. Nat \subseteq S
    BY <1>1, <1>2, AllNaturals
  <2>2. N \in S
    BY <2>1
  <2>3. PICK f : Is(f, N)
    BY <2>2 DEF S
  <2>4. f \in Iteration(N, V, base, g)
    BY <2>3 DEF Iteration
  <2>5. QED
    BY <2>4
=============================================================================
