--------------------------- MODULE TotalTheorems ---------------------------
(***************************************************************************)
(* Facts about Total, the running sum of module Domain.  The library's     *)
(* induction theorems are stated for an operator; induction is used here   *)
(* in its set form, for which the least-element theorem WFMin is enough.   *)
(***************************************************************************)
EXTENDS Domain, WellFoundedInduction, TLAPS

(***************************************************************************)
(* A set of naturals that contains 0 and is closed under successor is Nat. *)
(***************************************************************************)
LEMMA SetInduction ==
  ASSUME NEW T \in SUBSET Nat, 0 \in T, \A n \in T : n + 1 \in T
  PROVE  T = Nat
<1>1. SUFFICES ASSUME T # Nat PROVE FALSE
  OBVIOUS
<1> DEFINE U == Nat \ T
           R == OpToRel(<, Nat)
<1>2. U # {} /\ U \subseteq Nat
  BY <1>1
<1>3. \E x \in U : \A y \in U : ~(<<y, x>> \in R)
  <2> HIDE DEF U, R
  <2>1. IsWellFoundedOn(R, Nat)
    BY NatLessThanWellFounded DEF R
  <2>2. QED
    BY <2>1, <1>2, WFMin
<1>4. PICK x \in U : \A y \in U : ~(<<y, x>> \in R)
  BY <1>3
<1>5. x \in Nat /\ x # 0
  BY <1>4
<1>6. x - 1 \in Nat /\ x - 1 < x /\ (x - 1) + 1 = x
  BY <1>5
<1>7. <<x - 1, x>> \in R
  BY <1>5, <1>6 DEF OpToRel
<1>8. x - 1 \in T
  BY <1>4, <1>6, <1>7
<1>9. QED
  BY <1>4, <1>6, <1>8

(***************************************************************************)
(* The running sums of f up to n, as a function.                           *)
(***************************************************************************)
RunningSums(p, f, n) ==
  /\ p \in [0..n -> Int]
  /\ p[0] = 0
  /\ \A i \in 1..n : p[i] = p[i - 1] + f[i]

LEMMA RunningSumsExist ==
  ASSUME NEW N \in Nat, NEW f, \A i \in 1..N : f[i] \in Int
  PROVE  \E p : RunningSums(p, f, N)
<1> DEFINE T == {n \in Nat : n <= N => \E p : RunningSums(p, f, n)}
<1>1. 0 \in T
  <2>1. RunningSums([i \in 0..0 |-> 0], f, 0)
    BY DEF RunningSums
  <2>2. QED
    BY <2>1
<1>2. ASSUME NEW n \in T PROVE n + 1 \in T
  <2>1. SUFFICES ASSUME n + 1 <= N PROVE \E q : RunningSums(q, f, n + 1)
    BY <1>2
  <2>2. PICK p : RunningSums(p, f, n)
    BY <2>1, <1>2
  <2> DEFINE q == [i \in 0..(n + 1) |->
                     IF i = n + 1 THEN p[n] + f[n + 1] ELSE p[i]]
  <2>3. RunningSums(q, f, n + 1)
    BY <2>1, <2>2, <1>2 DEF RunningSums
  <2>4. QED
    BY <2>3
<1>3. T = Nat
  <2> HIDE DEF T
  <2>1. T \in SUBSET Nat
    BY DEF T
  <2>2. QED
    BY <2>1, <1>1, <1>2, SetInduction
<1>4. N \in T
  BY <1>3
<1>5. QED
  BY <1>4

LEMMA RunningSumsUnique ==
  ASSUME NEW N \in Nat, NEW f, NEW p, NEW q,
         RunningSums(p, f, N), RunningSums(q, f, N)
  PROVE  \A n \in 0..N : p[n] = q[n]
<1> DEFINE T == {n \in Nat : n <= N => p[n] = q[n]}
<1>1. 0 \in T
  BY DEF RunningSums
<1>2. ASSUME NEW n \in T PROVE n + 1 \in T
  <2>1. SUFFICES ASSUME n + 1 <= N PROVE p[n + 1] = q[n + 1]
    BY <1>2
  <2>2. QED
    BY <2>1, <1>2 DEF RunningSums
<1>3. T = Nat
  <2> HIDE DEF T
  <2>1. T \in SUBSET Nat
    BY DEF T
  <2>2. QED
    BY <2>1, <1>1, <1>2, SetInduction
<1>4. QED
  BY <1>3

(***************************************************************************)
(* The recursive definition of Total has the value of the running sums.    *)
(***************************************************************************)
LEMMA TotalIsRunningSum ==
  ASSUME NEW N \in Nat, NEW f, \A i \in 1..N : f[i] \in Int,
         NEW q, RunningSums(q, f, N)
  PROVE  Total(f, N) = q[N]
<1> DEFINE P(p) == p = [i \in 0..N |-> IF i = 0 THEN 0 ELSE p[i - 1] + f[i]]
           r == CHOOSE p : P(p)
<1>1. P(q)
  BY DEF RunningSums
<1>2. P(r)
  BY <1>1
<1>3. RunningSums(r, f, N)
  <2> HIDE DEF r
  <2> DEFINE T == {n \in Nat : n <= N => r[n] \in Int}
  <2>1. 0 \in T
    BY <1>2
  <2>2. ASSUME NEW n \in T PROVE n + 1 \in T
    BY <1>2, <2>2
  <2>3. T = Nat
    <3> HIDE DEF T
    <3>1. T \in SUBSET Nat
      BY DEF T
    <3>2. QED
      BY <3>1, <2>1, <2>2, SetInduction
  <2>4. \A i \in 0..N : r[i] \in Int
    BY <2>3
  <2>5. r \in [0..N -> Int]
    BY <2>4, <1>2
  <2>6. r[0] = 0 /\ \A i \in 1..N : r[i] = r[i - 1] + f[i]
    BY <1>2
  <2>7. QED
    BY <2>5, <2>6 DEF RunningSums
<1>4. Total(f, N) = r[N]
  BY DEF Total
<1>5. QED
  BY <1>3, <1>4, RunningSumsUnique

LEMMA TotalZero ==
  ASSUME NEW f
  PROVE  Total(f, 0) = 0
<1>1. \A i \in 1..0 : f[i] \in Int
  OBVIOUS
<1>2. PICK p : RunningSums(p, f, 0)
  BY <1>1, RunningSumsExist
<1>3. Total(f, 0) = p[0]
  BY <1>1, <1>2, TotalIsRunningSum
<1>4. QED
  BY <1>2, <1>3 DEF RunningSums

(***************************************************************************)
(* One more iteration of the loop adds one more summand.                   *)
(***************************************************************************)
LEMMA TotalStep ==
  ASSUME NEW n \in Nat, NEW f, \A i \in 1..(n + 1) : f[i] \in Int
  PROVE  /\ Total(f, n) \in Int
         /\ Total(f, n + 1) = Total(f, n) + f[n + 1]
<1>1. PICK p : RunningSums(p, f, n + 1)
  BY RunningSumsExist
<1> DEFINE q == [i \in 0..n |-> p[i]]
<1>2. RunningSums(q, f, n)
  BY <1>1 DEF RunningSums
<1>3. Total(f, n + 1) = p[n + 1]
  BY <1>1, TotalIsRunningSum
<1>4. Total(f, n) = q[n]
  <2> HIDE DEF q
  <2>1. QED
    BY <1>2, TotalIsRunningSum
<1>5. QED
  BY <1>1, <1>3, <1>4 DEF RunningSums

LEMMA TotalInt ==
  ASSUME NEW n \in Nat, NEW f, \A i \in 1..n : f[i] \in Int
  PROVE  Total(f, n) \in Int
<1>1. PICK p : RunningSums(p, f, n)
  BY RunningSumsExist
<1>2. Total(f, n) = p[n]
  BY <1>1, TotalIsRunningSum
<1>3. QED
  BY <1>1, <1>2 DEF RunningSums

(***************************************************************************)
(* A sum is monotone in its summands; in particular equal summands give    *)
(* equal sums and non-negative ones a non-negative sum.                    *)
(***************************************************************************)
LEMMA TotalMonotone ==
  ASSUME NEW N \in Nat, NEW f, NEW g,
         \A i \in 1..N : f[i] \in Int /\ g[i] \in Int /\ f[i] <= g[i]
  PROVE  Total(f, N) <= Total(g, N)
<1> DEFINE T == {n \in Nat : n <= N => Total(f, n) <= Total(g, n)}
<1>1. 0 \in T
  BY TotalZero
<1>2. ASSUME NEW n \in T PROVE n + 1 \in T
  <2>1. SUFFICES ASSUME n + 1 <= N PROVE Total(f, n + 1) <= Total(g, n + 1)
    BY <1>2
  <2>2. /\ Total(f, n) \in Int /\ Total(g, n) \in Int
        /\ Total(f, n + 1) = Total(f, n) + f[n + 1]
        /\ Total(g, n + 1) = Total(g, n) + g[n + 1]
    BY <2>1, <1>2, TotalStep
  <2>3. f[n + 1] \in Int /\ g[n + 1] \in Int /\ f[n + 1] <= g[n + 1]
    BY <2>1, <1>2
  <2>4. Total(f, n) <= Total(g, n)
    BY <2>1, <1>2
  <2>5. QED
    BY <2>2, <2>3, <2>4
<1>3. T = Nat
  <2> HIDE DEF T
  <2>1. T \in SUBSET Nat
    BY DEF T
  <2>2. QED
    BY <2>1, <1>1, <1>2, SetInduction
<1>4. N \in T
  BY <1>3
<1>5. QED
  BY <1>4

LEMMA TotalNat ==
  ASSUME NEW N \in Nat, NEW f, \A i \in 1..N : f[i] \in Nat
  PROVE  Total(f, N) \in Nat
<1> DEFINE T == {n \in Nat : n <= N => Total(f, n) \in Nat}
<1>1. 0 \in T
  BY TotalZero
<1>2. ASSUME NEW n \in T PROVE n + 1 \in T
  <2>1. SUFFICES ASSUME n + 1 <= N PROVE Total(f, n + 1) \in Nat
    BY <1>2
  <2>2. Total(f, n + 1) = Total(f, n) + f[n + 1]
    BY <2>1, <1>2, TotalStep
  <2>3. Total(f, n) \in Nat /\ f[n + 1] \in Nat
    BY <2>1, <1>2
  <2>4. QED
    BY <2>2, <2>3
<1>3. T = Nat
  <2> HIDE DEF T
  <2>1. T \in SUBSET Nat
    BY DEF T
  <2>2. QED
    BY <2>1, <1>1, <1>2, SetInduction
<1>4. N \in T
  BY <1>3
<1>5. QED
  BY <1>4

LEMMA TotalEqual ==
  ASSUME NEW N \in Nat, NEW f, NEW g,
         \A i \in 1..N : f[i] \in Int /\ g[i] = f[i]
  PROVE  Total(f, N) = Total(g, N)
<1>1. Total(f, N) <= Total(g, N) /\ Total(g, N) <= Total(f, N)
  BY TotalMonotone
<1>2. Total(f, N) \in Int /\ Total(g, N) \in Int
  BY TotalInt
<1>3. QED
  BY <1>1, <1>2

(***************************************************************************)
(* Changing one summand changes the sum by the difference.                 *)
(***************************************************************************)
LEMMA TotalUpdate ==
  ASSUME NEW N \in Nat, NEW f, NEW g, NEW k \in 1..N,
         \A i \in 1..N : f[i] \in Int /\ g[i] \in Int,
         \A i \in 1..N : i # k => g[i] = f[i]
  PROVE  Total(g, N) = Total(f, N) + (g[k] - f[k])
<1> DEFINE d(n) == IF n < k THEN 0 ELSE g[k] - f[k]
           T == {n \in Nat : n <= N => Total(g, n) = Total(f, n) + d(n)}
<1>1. 0 \in T
  BY TotalZero
<1>2. ASSUME NEW n \in T PROVE n + 1 \in T
  <2>1. SUFFICES ASSUME n + 1 <= N
                 PROVE  Total(g, n + 1) = Total(f, n + 1) + d(n + 1)
    BY <1>2
  <2>2. /\ Total(f, n) \in Int /\ Total(g, n) \in Int
        /\ Total(f, n + 1) = Total(f, n) + f[n + 1]
        /\ Total(g, n + 1) = Total(g, n) + g[n + 1]
    BY <2>1, <1>2, TotalStep
  <2>3. Total(g, n) = Total(f, n) + d(n)
    BY <2>1, <1>2
  <2>4. /\ f[n + 1] \in Int /\ g[n + 1] \in Int
        /\ f[k] \in Int /\ g[k] \in Int
        /\ n + 1 # k => g[n + 1] = f[n + 1]
    BY <2>1, <1>2
  <2>5. CASE n + 1 < k
    BY <2>2, <2>3, <2>4, <2>5, <1>2
  <2>6. CASE n + 1 = k
    BY <2>2, <2>3, <2>4, <2>6, <1>2
  <2>7. CASE n + 1 > k
    BY <2>2, <2>3, <2>4, <2>7, <1>2
  <2>8. QED
    BY <2>5, <2>6, <2>7, <1>2
<1>3. T = Nat
  <2> HIDE DEF T
  <2>1. T \in SUBSET Nat
    BY DEF T
  <2>2. QED
    BY <2>1, <1>1, <1>2, SetInduction
<1>4. N \in T
  BY <1>3
<1>5. QED
  BY <1>4

\* A sum of nothing.
LEMMA TotalOfZeros ==
  ASSUME NEW N \in Nat, NEW f, \A i \in 1..N : f[i] = 0
  PROVE  Total(f, N) = 0
<1> DEFINE T == {n \in Nat : n <= N => Total(f, n) = 0}
<1>1. 0 \in T
  BY TotalZero
<1>2. ASSUME NEW n \in T PROVE n + 1 \in T
  <2>1. SUFFICES ASSUME n + 1 <= N PROVE Total(f, n + 1) = 0
    BY <1>2
  <2>2. Total(f, n + 1) = Total(f, n) + f[n + 1]
    <3>1. \A i \in 1..(n + 1) : f[i] \in Int
      BY <2>1, <1>2
    <3>2. QED
      BY <3>1, <1>2, TotalStep
  <2>3. Total(f, n) = 0 /\ f[n + 1] = 0
    BY <2>1, <1>2
  <2>4. QED
    BY <2>2, <2>3
<1>3. T = Nat
  <2> HIDE DEF T
  <2>1. T \in SUBSET Nat
    BY DEF T
  <2>2. QED
    BY <2>1, <1>1, <1>2, SetInduction
<1>4. N \in T
  BY <1>3
<1>5. QED
  BY <1>4

\* The sum of sums.
LEMMA TotalSum ==
  ASSUME NEW N \in Nat, NEW f, NEW g, NEW h,
         \A i \in 1..N : f[i] \in Int /\ g[i] \in Int /\ h[i] = f[i] + g[i]
  PROVE  Total(h, N) = Total(f, N) + Total(g, N)
<1> DEFINE T == {n \in Nat : n <= N => Total(h, n) = Total(f, n) + Total(g, n)}
<1>1. 0 \in T
  BY TotalZero
<1>2. ASSUME NEW n \in T PROVE n + 1 \in T
  <2>1. SUFFICES ASSUME n + 1 <= N
                 PROVE  Total(h, n + 1) = Total(f, n + 1) + Total(g, n + 1)
    BY <1>2
  <2>2. \A i \in 1..(n + 1) : f[i] \in Int /\ g[i] \in Int /\ h[i] \in Int
    BY <2>1, <1>2
  <2>3. /\ Total(f, n) \in Int /\ Total(g, n) \in Int
        /\ Total(f, n + 1) = Total(f, n) + f[n + 1]
        /\ Total(g, n + 1) = Total(g, n) + g[n + 1]
        /\ Total(h, n + 1) = Total(h, n) + h[n + 1]
    BY <2>2, <1>2, TotalStep
  <2>4. /\ h[n + 1] = f[n + 1] + g[n + 1]
        /\ f[n + 1] \in Int /\ g[n + 1] \in Int
        /\ Total(h, n) = Total(f, n) + Total(g, n)
    BY <2>1, <1>2
  <2>5. QED
    BY <2>3, <2>4
<1>3. T = Nat
  <2> HIDE DEF T
  <2>1. T \in SUBSET Nat
    BY DEF T
  <2>2. QED
    BY <2>1, <1>1, <1>2, SetInduction
<1>4. N \in T
  BY <1>3
<1>5. QED
  BY <1>4

\* A common factor.
LEMMA TotalScale ==
  ASSUME NEW N \in Nat, NEW f, NEW g, NEW c \in Int,
         \A i \in 1..N : f[i] \in Int /\ g[i] = c * f[i]
  PROVE  Total(g, N) = c * Total(f, N)
<1> DEFINE T == {n \in Nat : n <= N => Total(g, n) = c * Total(f, n)}
<1>1. 0 \in T
  BY TotalZero
<1>2. ASSUME NEW n \in T PROVE n + 1 \in T
  <2>1. SUFFICES ASSUME n + 1 <= N PROVE Total(g, n + 1) = c * Total(f, n + 1)
    BY <1>2
  <2>2. \A i \in 1..(n + 1) : f[i] \in Int /\ g[i] \in Int
    BY <2>1, <1>2
  <2>3. /\ Total(f, n) \in Int
        /\ Total(f, n + 1) = Total(f, n) + f[n + 1]
        /\ Total(g, n + 1) = Total(g, n) + g[n + 1]
    BY <2>2, <1>2, TotalStep
  <2>4. /\ g[n + 1] = c * f[n + 1] /\ f[n + 1] \in Int
        /\ Total(g, n) = c * Total(f, n)
    BY <2>1, <1>2
  <2>5. c * (Total(f, n) + f[n + 1]) = c * Total(f, n) + c * f[n + 1]
    BY <2>3, <2>4
  <2>6. QED
    BY <2>3, <2>4, <2>5
<1>3. T = Nat
  <2> HIDE DEF T
  <2>1. T \in SUBSET Nat
    BY DEF T
  <2>2. QED
    BY <2>1, <1>1, <1>2, SetInduction
<1>4. N \in T
  BY <1>3
<1>5. QED
  BY <1>4

(***************************************************************************)
(* A longer sum of naturals is no smaller.                                 *)
(***************************************************************************)
LEMMA TotalPrefix ==
  ASSUME NEW N \in Nat, NEW f, \A i \in 1..N : f[i] \in Nat,
         NEW a \in 0..N, NEW b \in 0..N, a <= b
  PROVE  Total(f, a) <= Total(f, b)
<1> DEFINE T == {d \in Nat : a + d <= N => Total(f, a) <= Total(f, a + d)}
<1>0. Total(f, a) \in Int
  BY TotalInt
<1>1. 0 \in T
  BY <1>0
<1>2. ASSUME NEW d \in T PROVE d + 1 \in T
  <2>1. SUFFICES ASSUME a + (d + 1) <= N
                 PROVE  Total(f, a) <= Total(f, a + (d + 1))
    BY <1>2
  <2>2. d \in Nat /\ a + d \in Nat /\ (a + d) + 1 = a + (d + 1) /\ a + d <= N
    BY <1>2, <2>1
  <2>3. \A i \in 1..((a + d) + 1) : f[i] \in Int
    BY <2>1, <2>2
  <2>4. /\ Total(f, a + d) \in Int
        /\ Total(f, (a + d) + 1) = Total(f, a + d) + f[(a + d) + 1]
    BY <2>2, <2>3, TotalStep
  <2>5. f[(a + d) + 1] \in Nat
    BY <2>1, <2>2
  <2>6. QED
    BY <1>0, <1>2, <2>2, <2>4, <2>5
<1>3. T = Nat
  <2> HIDE DEF T
  <2>1. T \in SUBSET Nat
    BY DEF T
  <2>2. QED
    BY <2>1, <1>1, <1>2, SetInduction
<1>4. b - a \in Nat /\ a + (b - a) = b /\ b <= N
  OBVIOUS
<1>5. b - a \in T
  BY <1>3, <1>4
<1>6. QED
  BY <1>4, <1>5
=============================================================================
