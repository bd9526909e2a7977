--------------------------- MODULE ClearingProofs ---------------------------
(***************************************************************************)
(* The correctness of clearing for every vector of submitted orders and    *)
(* every width of a word.  First, what the auction and the allocation      *)
(* compute, for every batch of well-formed orders: any number of orders,   *)
(* any prices and quantities.  Then ClearingIInv, which carries through    *)
(* the actions what Batch::create established about the batch and what     *)
(* execute_batch computed from it, and the theorems.                       *)
(***************************************************************************)
EXTENDS Clearing, TotalTheorems, FiniteSetTheorems

\* An order Batch::create lets through.
WellFormedOrder(o) ==
  /\ o.side \in Sides /\ o.price \in Price /\ o.qty \in Price
  /\ o.id \in Nat /\ o.seq \in Nat

WellFormedBatch(b) ==
  /\ b \in Seq({b[i] : i \in 1..Len(b)})
  /\ Len(b) \in Nat
  /\ \A i \in 1..Len(b) : WellFormedOrder(b[i])

----------------------------------------------------------------------------
(***************************************************************************)
(* The curves                                                              *)
(***************************************************************************)
\* The two curves without the width of a word.
SupplyOf(b, i, p) ==
  IF b[i].side = "Sell" /\ b[i].price <= p THEN b[i].qty ELSE 0
DemandOf(b, i, p) ==
  IF b[i].side = "Buy" /\ b[i].price >= p THEN b[i].qty ELSE 0
SupplyAt(b, p) == Total([i \in 1..Len(b) |-> SupplyOf(b, i, p)], Len(b))
DemandAt(b, p) == Total([i \in 1..Len(b) |-> DemandOf(b, i, p)], Len(b))

LEMMA CurvesByOrder ==
  ASSUME NEW b, NEW p
  PROVE  /\ SupplyFromOrders(b, p) = IF SupplyAt(b, p) > MaxRaw THEN Err
                                     ELSE SupplyAt(b, p)
         /\ DemandFromOrders(b, p) = IF DemandAt(b, p) > MaxRaw THEN Err
                                     ELSE DemandAt(b, p)
  BY DEF SupplyFromOrders, DemandFromOrders, SupplyAt, DemandAt, SupplyOf,
         DemandOf, CheckedTotal, QtyWhere

LEMMA CurveSummands ==
  ASSUME NEW b, WellFormedBatch(b), NEW p, NEW i \in 1..Len(b)
  PROVE  SupplyOf(b, i, p) \in Nat /\ DemandOf(b, i, p) \in Nat
  BY WordWidth DEF WellFormedBatch, WellFormedOrder, SupplyOf, DemandOf, Price

LEMMA CurvesNat ==
  ASSUME NEW b, WellFormedBatch(b), NEW p
  PROVE  SupplyAt(b, p) \in Nat /\ DemandAt(b, p) \in Nat
<1> DEFINE s == [i \in 1..Len(b) |-> SupplyOf(b, i, p)]
           d == [i \in 1..Len(b) |-> DemandOf(b, i, p)]
<1>1. \A i \in 1..Len(b) : s[i] \in Nat /\ d[i] \in Nat
  BY CurveSummands
<1>2. Total(s, Len(b)) \in Nat /\ Total(d, Len(b)) \in Nat
  <2> HIDE DEF s, d
  <2>1. QED
    BY <1>1, TotalNat DEF WellFormedBatch
<1>3. QED
  BY <1>2 DEF SupplyAt, DemandAt

\* Supply rises with the price and demand falls.
LEMMA CurvesMonotone ==
  ASSUME NEW b, WellFormedBatch(b), NEW p \in Int, NEW q \in Int, p <= q
  PROVE  SupplyAt(b, p) <= SupplyAt(b, q) /\ DemandAt(b, q) <= DemandAt(b, p)
<1> DEFINE s(x) == [i \in 1..Len(b) |-> SupplyOf(b, i, x)]
           d(x) == [i \in 1..Len(b) |-> DemandOf(b, i, x)]
<1>1. ASSUME NEW i \in 1..Len(b)
      PROVE  /\ s(p)[i] \in Int /\ s(q)[i] \in Int /\ s(p)[i] <= s(q)[i]
             /\ d(p)[i] \in Int /\ d(q)[i] \in Int /\ d(q)[i] <= d(p)[i]
  <2>1. /\ SupplyOf(b, i, p) \in Nat /\ SupplyOf(b, i, q) \in Nat
        /\ DemandOf(b, i, p) \in Nat /\ DemandOf(b, i, q) \in Nat
    BY CurveSummands
  <2>2. b[i].price \in Nat /\ b[i].qty \in Nat
    BY WordWidth DEF WellFormedBatch, WellFormedOrder, Price
  <2>3. SupplyOf(b, i, p) <= SupplyOf(b, i, q)
    BY <2>1, <2>2 DEF SupplyOf
  <2>4. DemandOf(b, i, q) <= DemandOf(b, i, p)
    BY <2>1, <2>2 DEF DemandOf
  <2>5. QED
    BY <2>1, <2>3, <2>4
<1>2. Len(b) \in Nat
  BY DEF WellFormedBatch
<1>3. Total(s(p), Len(b)) <= Total(s(q), Len(b))
  <2> HIDE DEF s
  <2>1. QED
    BY <1>1, <1>2, TotalMonotone
<1>4. Total(d(q), Len(b)) <= Total(d(p), Len(b))
  <2> HIDE DEF d
  <2>1. QED
    BY <1>1, <1>2, TotalMonotone
<1>5. QED
  BY <1>3, <1>4 DEF SupplyAt, DemandAt

\* One more price: the orders that quote it join.
LEMMA CurveSteps ==
  ASSUME NEW b, WellFormedBatch(b), NEW p \in Int
  PROVE  /\ SupplyAt(b, p + 1) = SupplyAt(b, p) + BucketAt(b, "Sell", p + 1)
         /\ DemandAt(b, p) = DemandAt(b, p + 1) + BucketAt(b, "Buy", p)
         /\ BucketAt(b, "Sell", p) \in Nat /\ BucketAt(b, "Buy", p) \in Nat
<1> DEFINE s(x) == [i \in 1..Len(b) |-> SupplyOf(b, i, x)]
           d(x) == [i \in 1..Len(b) |-> DemandOf(b, i, x)]
           at(side, x) == [i \in 1..Len(b) |->
                             IF b[i].side = side /\ b[i].price = x
                             THEN b[i].qty ELSE 0]
<1>1. ASSUME NEW i \in 1..Len(b)
      PROVE  /\ s(p)[i] \in Int /\ at("Sell", p + 1)[i] \in Int
             /\ s(p + 1)[i] = s(p)[i] + at("Sell", p + 1)[i]
             /\ d(p + 1)[i] \in Int /\ at("Buy", p)[i] \in Nat
             /\ d(p)[i] = d(p + 1)[i] + at("Buy", p)[i]
             /\ at("Sell", p)[i] \in Nat
  <2>1. /\ b[i].price \in Nat /\ b[i].qty \in Nat
        /\ b[i].side = "Buy" \/ b[i].side = "Sell"
    BY WordWidth DEF WellFormedBatch, WellFormedOrder, Price, Sides
  <2>2. SupplyOf(b, i, p + 1)
          = SupplyOf(b, i, p)
              + (IF b[i].side = "Sell" /\ b[i].price = p + 1 THEN b[i].qty ELSE 0)
    BY <2>1 DEF SupplyOf
  <2>3. DemandOf(b, i, p)
          = DemandOf(b, i, p + 1)
              + (IF b[i].side = "Buy" /\ b[i].price = p THEN b[i].qty ELSE 0)
    BY <2>1 DEF DemandOf
  <2>4. SupplyOf(b, i, p) \in Nat /\ DemandOf(b, i, p + 1) \in Nat
    BY CurveSummands
  <2>5. QED
    BY <2>1, <2>2, <2>3, <2>4
<1>2. Len(b) \in Nat
  BY DEF WellFormedBatch
<1>3. \A side, x : BucketAt(b, side, x) = Total(at(side, x), Len(b))
  BY DEF BucketAt, QtyWhere
<1>4. \A x : SupplyAt(b, x) = Total(s(x), Len(b)) /\ DemandAt(b, x) = Total(d(x), Len(b))
  BY DEF SupplyAt, DemandAt
<1> HIDE DEF s, d, at
<1>5. Total(s(p + 1), Len(b)) = Total(s(p), Len(b)) + Total(at("Sell", p + 1), Len(b))
  BY <1>1, <1>2, TotalSum
<1>6. Total(d(p), Len(b)) = Total(d(p + 1), Len(b)) + Total(at("Buy", p), Len(b))
  <2>1. \A i \in 1..Len(b) :
          /\ d(p + 1)[i] \in Int /\ at("Buy", p)[i] \in Int
          /\ d(p)[i] = d(p + 1)[i] + at("Buy", p)[i]
    BY <1>1
  <2>2. QED
    BY <2>1, <1>2, TotalSum
<1>7. Total(at("Sell", p), Len(b)) \in Nat /\ Total(at("Buy", p), Len(b)) \in Nat
  BY <1>1, <1>2, TotalNat
<1>8. QED
  BY <1>3, <1>4, <1>5, <1>6, <1>7

\* Beyond the prices there are, nobody is willing.
LEMMA CurveEnds ==
  ASSUME NEW b, WellFormedBatch(b)
  PROVE  SupplyAt(b, 0) = 0 /\ DemandAt(b, MaxRaw + 1) = 0
<1> DEFINE s == [i \in 1..Len(b) |-> SupplyOf(b, i, 0)]
           d == [i \in 1..Len(b) |-> DemandOf(b, i, MaxRaw + 1)]
<1>1. \A i \in 1..Len(b) : b[i].price \in 1..MaxRaw
  BY DEF WellFormedBatch, WellFormedOrder, Price
<1>2. \A i \in 1..Len(b) : s[i] = 0 /\ d[i] = 0
  BY <1>1, WordWidth DEF SupplyOf, DemandOf
<1>3. Total(s, Len(b)) = 0 /\ Total(d, Len(b)) = 0
  <2> HIDE DEF s, d
  <2>1. QED
    BY <1>2, TotalOfZeros DEF WellFormedBatch
<1>4. QED
  BY <1>3 DEF SupplyAt, DemandAt

\* The upward pass over the buckets is the supply curve.
LEMMA RunningSupplyIsSupply ==
  ASSUME NEW b, WellFormedBatch(b), NEW p \in 0..MaxRaw
  PROVE  RunningSupply(b, p) = SupplyAt(b, p)
<1> DEFINE f == [q \in 1..MaxRaw |-> BucketAt(b, "Sell", q)]
           T == {n \in Nat : n <= MaxRaw => Total(f, n) = SupplyAt(b, n)}
<1>0. MaxRaw \in Nat
  BY WordWidth
<1>1. \A q \in 1..MaxRaw : f[q] = BucketAt(b, "Sell", q) /\ f[q] \in Int
  BY <1>0, CurveSteps
<1>2. RunningSupply(b, p) = Total(f, p)
  BY DEF RunningSupply
<1> HIDE DEF f
<1>3. 0 \in T
  BY TotalZero, CurveEnds
<1>4. ASSUME NEW n \in T PROVE n + 1 \in T
  <2>1. SUFFICES ASSUME n + 1 <= MaxRaw
                 PROVE  Total(f, n + 1) = SupplyAt(b, n + 1)
    BY <1>4
  <2>2. Total(f, n + 1) = Total(f, n) + f[n + 1]
    <3>1. \A i \in 1..(n + 1) : f[i] \in Int
      BY <2>1, <1>0, <1>1, <1>4
    <3>2. QED
      BY <3>1, <1>4, TotalStep
  <2>3. Total(f, n) = SupplyAt(b, n) /\ f[n + 1] = BucketAt(b, "Sell", n + 1)
    BY <2>1, <1>0, <1>1, <1>4
  <2>4. SupplyAt(b, n + 1) = SupplyAt(b, n) + BucketAt(b, "Sell", n + 1)
    BY <1>4, CurveSteps
  <2>5. QED
    BY <2>2, <2>3, <2>4
<1>5. T = Nat
  <2> HIDE DEF T
  <2>1. T \in SUBSET Nat
    BY DEF T
  <2>2. QED
    BY <2>1, <1>3, <1>4, SetInduction
<1>6. p \in T
  BY <1>0, <1>5
<1>7. QED
  BY <1>0, <1>2, <1>6

\* The downward pass over the buckets is the demand curve.
LEMMA RunningDemandIsDemand ==
  ASSUME NEW b, WellFormedBatch(b), NEW p \in 1..(MaxRaw + 1)
  PROVE  RunningDemand(b, p) = DemandAt(b, p)
<1> DEFINE f == [k \in 1..MaxRaw |-> BucketAt(b, "Buy", MaxRaw + 1 - k)]
           T == {n \in Nat : n <= MaxRaw => Total(f, n) = DemandAt(b, MaxRaw + 1 - n)}
<1>0. MaxRaw \in Nat
  BY WordWidth
<1>1. \A k \in 1..MaxRaw : f[k] = BucketAt(b, "Buy", MaxRaw + 1 - k) /\ f[k] \in Int
  <2>1. \A x \in Int : BucketAt(b, "Buy", x) \in Nat
    BY CurveSteps
  <2>2. QED
    BY <1>0, <2>1
<1>2. RunningDemand(b, p) = Total(f, MaxRaw + 1 - p)
  BY DEF RunningDemand
<1> HIDE DEF f
<1>3. 0 \in T
  <2>1. MaxRaw + 1 - 0 = MaxRaw + 1
    BY <1>0
  <2>2. QED
    BY <2>1, TotalZero, CurveEnds
<1>4. ASSUME NEW n \in T PROVE n + 1 \in T
  <2>1. SUFFICES ASSUME n + 1 <= MaxRaw
                 PROVE  Total(f, n + 1) = DemandAt(b, MaxRaw + 1 - (n + 1))
    BY <1>4
  <2> DEFINE q == MaxRaw + 1 - (n + 1)
  <2>2. Total(f, n + 1) = Total(f, n) + f[n + 1]
    <3>1. \A i \in 1..(n + 1) : f[i] \in Int
      BY <2>1, <1>0, <1>1, <1>4
    <3>2. QED
      BY <3>1, <1>4, TotalStep
  <2>3. q \in Int /\ q + 1 = MaxRaw + 1 - n
    BY <1>0, <1>4
  <2>4. Total(f, n) = DemandAt(b, q + 1) /\ f[n + 1] = BucketAt(b, "Buy", q)
    BY <2>1, <2>3, <1>0, <1>1, <1>4
  <2> HIDE DEF q
  <2>5. DemandAt(b, q) = DemandAt(b, q + 1) + BucketAt(b, "Buy", q)
    BY <2>3, CurveSteps
  <2>6. QED
    BY <2>2, <2>4, <2>5 DEF q
<1>5. T = Nat
  <2> HIDE DEF T
  <2>1. T \in SUBSET Nat
    BY DEF T
  <2>2. QED
    BY <2>1, <1>3, <1>4, SetInduction
<1>6. MaxRaw + 1 - p \in T /\ MaxRaw + 1 - p <= MaxRaw /\ MaxRaw + 1 - (MaxRaw + 1 - p) = p
  BY <1>0, <1>5
<1>7. QED
  BY <1>2, <1>6

\* The two passes overflow exactly when a curve does at its far end.
LEMMA OverflowAtTheEnds ==
  ASSUME NEW b, WellFormedBatch(b)
  PROVE  CurvesOverflow(b)
           <=> SupplyAt(b, MaxRaw) > MaxRaw \/ DemandAt(b, 1) > MaxRaw
<1>1. MaxRaw \in 0..MaxRaw /\ 1 \in 1..(MaxRaw + 1)
  BY WordWidth
<1>2. QED
  BY <1>1, RunningSupplyIsSupply, RunningDemandIsDemand DEF CurvesOverflow

\* Where they do not, each fits a word everywhere.
LEMMA CurvesFit ==
  ASSUME NEW b, WellFormedBatch(b), ~CurvesOverflow(b), NEW p \in Price
  PROVE  /\ SupplyAt(b, p) \in Qty /\ DemandAt(b, p) \in Qty
         /\ SupplyFromOrders(b, p) = SupplyAt(b, p)
         /\ DemandFromOrders(b, p) = DemandAt(b, p)
         /\ RunningSupply(b, p) = SupplyAt(b, p)
         /\ RunningDemand(b, p) = DemandAt(b, p)
         /\ ExecutableVolume(b, p) = Smaller(DemandAt(b, p), SupplyAt(b, p))
<1>1. MaxRaw \in Nat /\ p \in Nat /\ p >= 1 /\ p <= MaxRaw
  BY WordWidth DEF Price
<1>2. ~(SupplyAt(b, MaxRaw) > MaxRaw) /\ ~(DemandAt(b, 1) > MaxRaw)
  BY OverflowAtTheEnds
<1>3. /\ SupplyAt(b, p) \in Nat /\ SupplyAt(b, MaxRaw) \in Nat
      /\ DemandAt(b, p) \in Nat /\ DemandAt(b, 1) \in Nat
  BY CurvesNat
<1>4. SupplyAt(b, p) <= SupplyAt(b, MaxRaw) /\ DemandAt(b, p) <= DemandAt(b, 1)
  BY <1>1, CurvesMonotone
<1>5. SupplyAt(b, p) \in Qty /\ DemandAt(b, p) \in Qty
  BY <1>1, <1>2, <1>3, <1>4 DEF Qty
<1>6. RunningSupply(b, p) = SupplyAt(b, p) /\ RunningDemand(b, p) = DemandAt(b, p)
  BY <1>1, RunningSupplyIsSupply, RunningDemandIsDemand
<1>7. /\ SupplyFromOrders(b, p) = SupplyAt(b, p)
      /\ DemandFromOrders(b, p) = DemandAt(b, p)
  BY <1>1, <1>5, CurvesByOrder DEF Qty
<1>8. QED
  BY <1>5, <1>6, <1>7 DEF ExecutableVolume

----------------------------------------------------------------------------
(***************************************************************************)
(* The clearing price                                                      *)
(***************************************************************************)
\* A set of numbers that is bounded and not empty has a largest and a smallest.
LEMMA Greatest ==
  ASSUME NEW N \in Nat, NEW S \in SUBSET (0..N), S # {}
  PROVE  /\ \E m \in S : \A x \in S : x <= m
         /\ \E m \in S : \A x \in S : m <= x
<1> DEFINE T == {n \in Nat : \A U \in SUBSET (0..n) : U # {} =>
                    /\ \E m \in U : \A x \in U : x <= m
                    /\ \E m \in U : \A x \in U : m <= x}
<1>1. 0 \in T
  <2>1. ASSUME NEW U \in SUBSET (0..0), U # {}
        PROVE  /\ \E m \in U : \A x \in U : x <= m
               /\ \E m \in U : \A x \in U : m <= x
    <3>1. \A x \in U : x = 0
      BY <2>1
    <3>2. PICK y \in U : TRUE
      BY <2>1
    <3>3. \A x \in U : x <= y /\ y <= x
      BY <3>1, <3>2
    <3>4. QED
      BY <3>2, <3>3
  <2>2. QED
    BY <2>1
<1>2. ASSUME NEW n \in T PROVE n + 1 \in T
  <2>1. ASSUME NEW U \in SUBSET (0..(n + 1)), U # {}
        PROVE  /\ \E m \in U : \A x \in U : x <= m
               /\ \E m \in U : \A x \in U : m <= x
    <3> DEFINE W == U \ {n + 1}
    <3>0. n \in Nat /\ W \in SUBSET (0..n) /\ \A x \in U : x \in Nat /\ x <= n + 1
      BY <1>2
    <3>1. CASE W = {}
      <4>1. \A x \in U : x = n + 1
        BY <3>1
      <4>2. QED
        BY <2>1, <3>0, <4>1
    <3>2. CASE W # {}
      <4>1. /\ \E m \in W : \A x \in W : x <= m
            /\ \E m \in W : \A x \in W : m <= x
        BY <3>0, <3>2, <1>2
      <4>2. \E m \in U : \A x \in U : m <= x
        <5>1. PICK m \in W : \A x \in W : m <= x
          BY <4>1
        <5>2. m \in U /\ m <= n + 1 /\ \A x \in U : x = n + 1 \/ x \in W
          BY <3>0
        <5>3. QED
          BY <5>1, <5>2
      <4>3. \E m \in U : \A x \in U : x <= m
        <5>1. CASE n + 1 \in U
          BY <3>0, <5>1
        <5>2. CASE n + 1 \notin U
          <6>1. W = U
            BY <5>2
          <6>2. QED
            BY <4>1, <6>1
        <5>3. QED
          BY <5>1, <5>2
      <4>4. QED
        BY <4>2, <4>3
    <3>3. QED
      BY <3>1, <3>2
  <2>2. n + 1 \in Nat
    BY <1>2
  <2>3. QED
    BY <2>1, <2>2
<1>3. T = Nat
  <2> HIDE DEF T
  <2>1. T \in SUBSET Nat
    BY DEF T
  <2>2. QED
    BY <2>1, <1>1, <1>2, SetInduction
<1>4. N \in T
  BY <1>3
<1>5. QED
  BY <1>4

LEMMA CandidatesArePrices ==
  ASSUME NEW b, WellFormedBatch(b)
  PROVE  CandidatePrices(b) \subseteq Price
  BY DEF CandidatePrices, WellFormedBatch, WellFormedOrder

\* The volume of a price is reached at a candidate: supply last rose at one.
LEMMA CandidatesSuffice ==
  ASSUME NEW b, WellFormedBatch(b), NEW p \in Price,
         DemandAt(b, p) > 0, SupplyAt(b, p) > 0
  PROVE  \E c \in CandidatePrices(b) :
           SupplyAt(b, c) = SupplyAt(b, p) /\ DemandAt(b, p) <= DemandAt(b, c)
<1> DEFINE S == {b[i].price : i \in {j \in 1..Len(b) :
                                        b[j].side = "Sell" /\ b[j].price <= p}}
<1>1. p \in Nat /\ Len(b) \in Nat /\ \A i \in 1..Len(b) : b[i].price \in Nat
  BY WordWidth DEF WellFormedBatch, WellFormedOrder, Price
<1>2. S \in SUBSET (0..p)
  BY <1>1
<1>3. S # {}
  <2>1. SUFFICES ASSUME S = {} PROVE FALSE
    OBVIOUS
  <2> DEFINE s == [i \in 1..Len(b) |-> SupplyOf(b, i, p)]
  <2>2. \A i \in 1..Len(b) : s[i] = 0
    BY <2>1 DEF SupplyOf
  <2>3. Total(s, Len(b)) = 0
    <3> HIDE DEF s
    <3>1. QED
      BY <1>1, <2>2, TotalOfZeros
  <2>4. QED
    BY <2>3 DEF SupplyAt
<1>4. PICK c \in S : \A x \in S : x <= c
  <2> HIDE DEF S
  <2>1. QED
    BY <1>1, <1>2, <1>3, Greatest
<1>5. c \in CandidatePrices(b) /\ c \in Nat /\ c <= p
  BY <1>1, <1>2 DEF CandidatePrices
<1>6. SupplyAt(b, c) = SupplyAt(b, p)
  <2> DEFINE s == [i \in 1..Len(b) |-> SupplyOf(b, i, c)]
             t == [i \in 1..Len(b) |-> SupplyOf(b, i, p)]
  <2>1. ASSUME NEW i \in 1..Len(b) PROVE s[i] \in Int /\ t[i] = s[i]
    <3>1. b[i].side = "Sell" => (b[i].price <= c <=> b[i].price <= p)
      BY <1>1, <1>4, <1>5
    <3>2. SupplyOf(b, i, c) = SupplyOf(b, i, p)
      BY <3>1 DEF SupplyOf
    <3>3. SupplyOf(b, i, c) \in Nat
      BY CurveSummands
    <3>4. QED
      BY <3>2, <3>3
  <2>2. Total(s, Len(b)) = Total(t, Len(b))
    <3> HIDE DEF s, t
    <3>1. QED
      BY <1>1, <2>1, TotalEqual
  <2>3. QED
    BY <2>2 DEF SupplyAt
<1>7. DemandAt(b, p) <= DemandAt(b, c)
  BY <1>1, <1>5, CurvesMonotone
<1>8. QED
  BY <1>5, <1>6, <1>7

\* The best of the candidates, and who reaches it.
LEMMA MaxVolumeIsMax ==
  ASSUME NEW b, WellFormedBatch(b), ~CurvesOverflow(b)
  PROVE  /\ MaxVolume(b) \in Qty
         /\ \A c \in CandidatePrices(b) : ExecutableVolume(b, c) <= MaxVolume(b)
         /\ MaxVolume(b) > 0 =>
              \E c \in CandidatePrices(b) : ExecutableVolume(b, c) = MaxVolume(b)
<1> DEFINE volumes == {ExecutableVolume(b, c) : c \in CandidatePrices(b)}
<1>1. MaxRaw \in Nat
  BY WordWidth
<1>2. volumes \in SUBSET (0..MaxRaw)
  <2>1. ASSUME NEW c \in CandidatePrices(b)
        PROVE  ExecutableVolume(b, c) \in 0..MaxRaw
    <3>1. c \in Price
      BY CandidatesArePrices
    <3>2. /\ SupplyAt(b, c) \in Qty /\ DemandAt(b, c) \in Qty
          /\ ExecutableVolume(b, c) = Smaller(DemandAt(b, c), SupplyAt(b, c))
      BY <3>1, CurvesFit
    <3>3. QED
      BY <1>1, <3>2 DEF Qty, Smaller
  <2>2. QED
    BY <2>1
<1>3. CASE b = << >>
  <2>1. MaxVolume(b) = 0
    BY <1>3 DEF MaxVolume
  <2>2. CandidatePrices(b) = {}
    BY <1>3 DEF CandidatePrices
  <2>3. QED
    BY <1>1, <2>1, <2>2 DEF Qty
<1>4. CASE b # << >>
  <2>1. MaxVolume(b) = CHOOSE v \in volumes : \A w \in volumes : w <= v
    BY <1>4 DEF MaxVolume
  <2>2. CASE volumes = {}
    <3>1. CandidatePrices(b) = {}
      BY <2>2
    <3>2. Len(b) = 0
      <4>1. Len(b) > 0 => b[1].price \in CandidatePrices(b)
        BY DEF CandidatePrices, WellFormedBatch
      <4>2. Len(b) \in Nat
        BY DEF WellFormedBatch
      <4>3. QED
        BY <3>1, <4>1, <4>2
    <3>3. \E S : b \in Seq(S)
      BY DEF WellFormedBatch
    <3>4. QED
      BY <1>4, <3>2, <3>3
  <2>3. CASE volumes # {}
    <3> DEFINE top == CHOOSE v \in volumes : \A w \in volumes : w <= v
    <3>1. \E v \in volumes : \A w \in volumes : w <= v
      <4> HIDE DEF volumes
      <4>1. QED
        BY <1>1, <1>2, <2>3, Greatest
    <3>2. top \in volumes /\ \A w \in volumes : w <= top
      <4> HIDE DEF volumes
      <4>1. QED
        BY <3>1
    <3>3. MaxVolume(b) = top
      BY <2>1
    <3> HIDE DEF top
    <3>4. QED
      BY <1>2, <3>2, <3>3 DEF Qty
  <2>4. QED
    BY <2>2, <2>3
<1>5. QED
  BY <1>3, <1>4

\* No price executes more than the candidates do.
LEMMA MaxVolumeEverywhere ==
  ASSUME NEW b, WellFormedBatch(b), ~CurvesOverflow(b), NEW p \in Price
  PROVE  Smaller(DemandAt(b, p), SupplyAt(b, p)) <= MaxVolume(b)
<1>1. /\ SupplyAt(b, p) \in Nat /\ DemandAt(b, p) \in Nat /\ MaxVolume(b) \in Nat
  BY CurvesNat, MaxVolumeIsMax, WordWidth DEF Qty
<1>2. CASE DemandAt(b, p) = 0 \/ SupplyAt(b, p) = 0
  BY <1>1, <1>2 DEF Smaller
<1>3. CASE DemandAt(b, p) > 0 /\ SupplyAt(b, p) > 0
  <2>1. PICK c \in CandidatePrices(b) :
          SupplyAt(b, c) = SupplyAt(b, p) /\ DemandAt(b, p) <= DemandAt(b, c)
    BY <1>3, CandidatesSuffice
  <2>2. c \in Price
    BY CandidatesArePrices
  <2>3. Smaller(DemandAt(b, c), SupplyAt(b, c)) <= MaxVolume(b)
    BY <2>2, CurvesFit, MaxVolumeIsMax
  <2>4. DemandAt(b, c) \in Nat
    BY CurvesNat
  <2>5. QED
    BY <1>1, <2>1, <2>3, <2>4 DEF Smaller
<1>4. QED
  BY <1>1, <1>2, <1>3

\* determine_clearing_outcome: the midpoint lies between two maximisers, where
\* neither curve is below the volume of both.
LEMMA OutcomeMaximises ==
  ASSUME NEW b, WellFormedBatch(b), ~CurvesOverflow(b)
  PROVE  LET out == DetermineClearingOutcome(b)
             v == out.executable_volume
             p == out.clearing_price
         IN  /\ out.ok /\ v = MaxVolume(b) /\ v \in Qty
             /\ v = 0 => p = NoPrice
             /\ v > 0 => /\ p \in Price
                         /\ Smaller(DemandAt(b, p), SupplyAt(b, p)) = v
<1> DEFINE v == MaxVolume(b)
           M == MaximizingPrices(b, v)
           p == ResolveClearingPriceTie(v, M)
<1>1. DetermineClearingOutcome(b) = Outcome(TRUE, p, v)
  BY DEF DetermineClearingOutcome
<1>2. v \in Qty /\ v \in Nat /\ MaxRaw \in Nat
  BY MaxVolumeIsMax, WordWidth DEF Qty
<1>3. CASE v = 0
  BY <1>1, <1>2, <1>3 DEF Outcome, ResolveClearingPriceTie
<1>4. CASE v > 0
  <2> DEFINE lo == CHOOSE x \in M : \A y \in M : x <= y
             hi == CHOOSE x \in M : \A y \in M : y <= x
  <2>1. M # {} /\ M \in SUBSET (0..MaxRaw) /\ M \subseteq Price
    <3>1. M # {}
      BY <1>4, MaxVolumeIsMax DEF MaximizingPrices
    <3>2. M \subseteq Price
      BY CandidatesArePrices DEF MaximizingPrices
    <3>3. QED
      BY <1>2, <3>1, <3>2 DEF Price
  <2>2. /\ \E x \in M : \A y \in M : y <= x
        /\ \E x \in M : \A y \in M : x <= y
    <3> HIDE DEF M
    <3>1. QED
      BY <1>2, <2>1, Greatest
  <2>3. lo \in M /\ hi \in M /\ lo <= hi
    <3> HIDE DEF M
    <3>1. QED
      BY <2>2
  <2>4. p = lo + ((hi - lo) \div 2)
    BY <1>4, <2>1 DEF ResolveClearingPriceTie
  <2>5. lo \in Price /\ hi \in Price
    BY <2>1, <2>3
  <2>6. /\ Smaller(DemandAt(b, lo), SupplyAt(b, lo)) = v
        /\ Smaller(DemandAt(b, hi), SupplyAt(b, hi)) = v
    BY <2>3, <2>5, CurvesFit DEF MaximizingPrices
  <2> HIDE DEF lo, hi, M, p
  <2>7. p \in Price /\ lo <= p /\ p <= hi
    BY <1>2, <2>3, <2>4, <2>5 DEF Price
  <2>8. /\ SupplyAt(b, lo) <= SupplyAt(b, p) /\ DemandAt(b, hi) <= DemandAt(b, p)
    BY <1>2, <2>5, <2>7, CurvesMonotone DEF Price
  <2>9. /\ SupplyAt(b, lo) \in Nat /\ SupplyAt(b, p) \in Nat
        /\ DemandAt(b, hi) \in Nat /\ DemandAt(b, p) \in Nat
        /\ DemandAt(b, lo) \in Nat /\ SupplyAt(b, hi) \in Nat
    BY CurvesNat
  <2>10. Smaller(DemandAt(b, p), SupplyAt(b, p)) <= v
    BY <2>7, MaxVolumeEverywhere
  <2>11. Smaller(DemandAt(b, p), SupplyAt(b, p)) = v
    BY <1>2, <2>6, <2>8, <2>9, <2>10 DEF Smaller
  <2>12. QED
    BY <1>1, <1>2, <1>4, <2>7, <2>11 DEF Outcome
<1>5. QED
  BY <1>2, <1>3, <1>4

----------------------------------------------------------------------------
(***************************************************************************)
(* Sums and counts                                                         *)
(***************************************************************************)
\* A sum over some of the indices is the sum over a listing of them.
LEMMA TotalReindex ==
  ASSUME NEW n \in Nat, NEW m \in Nat, NEW s, NEW g,
         \A k \in 1..m : s[k] \in 1..n,
         \A j, k \in 1..m : j # k => s[j] # s[k],
         \A i \in 1..n : g[i] \in Int
  PROVE  Total([i \in 1..n |-> IF \E k \in 1..m : s[k] = i THEN g[i] ELSE 0], n)
           = Total([k \in 1..m |-> g[s[k]]], m)
<1> DEFINE F(x) == [i \in 1..n |-> IF \E k \in 1..x : s[k] = i THEN g[i] ELSE 0]
           h == [k \in 1..m |-> g[s[k]]]
           T == {x \in Nat : x <= m => Total(F(x), n) = Total(h, x)}
<1>1. 0 \in T
  <2>1. \A i \in 1..n : F(0)[i] = 0
    OBVIOUS
  <2>2. Total(F(0), n) = 0
    <3> HIDE DEF F
    <3>1. QED
      BY <2>1, TotalOfZeros
  <2>3. Total(h, 0) = 0
    BY TotalZero
  <2>4. QED
    BY <2>2, <2>3
<1>2. ASSUME NEW x \in T PROVE x + 1 \in T
  <2>1. SUFFICES ASSUME x + 1 <= m PROVE Total(F(x + 1), n) = Total(h, x + 1)
    BY <1>2
  <2>2. x \in Nat /\ x + 1 \in 1..m /\ s[x + 1] \in 1..n
    BY <2>1, <1>2
  <2>3. \A i \in 1..n : F(x)[i] \in Int /\ F(x + 1)[i] \in Int
    OBVIOUS
  <2>4. \A i \in 1..n : i # s[x + 1] => F(x + 1)[i] = F(x)[i]
    <3>1. ASSUME NEW i \in 1..n, i # s[x + 1]
          PROVE  (\E k \in 1..(x + 1) : s[k] = i) <=> (\E k \in 1..x : s[k] = i)
      BY <2>2, <3>1
    <3>2. QED
      BY <3>1
  <2>5. F(x)[s[x + 1]] = 0 /\ F(x + 1)[s[x + 1]] = g[s[x + 1]]
    BY <2>1, <2>2
  <2>6. Total(F(x + 1), n) = Total(F(x), n) + (g[s[x + 1]] - 0)
    <3> DEFINE old == F(x)
               new == F(x + 1)
               k == s[x + 1]
    <3>1. \A i \in 1..n : old[i] \in Int /\ new[i] \in Int
      BY <2>3
    <3>2. \A i \in 1..n : i # k => new[i] = old[i]
      BY <2>4
    <3>3. k \in 1..n
      BY <2>2
    <3>4. old[k] = 0 /\ new[k] = g[k]
      BY <2>5
    <3> HIDE DEF F, old, new, k, T, h
    <3>5. Total(new, n) = Total(old, n) + (new[k] - old[k])
      BY <3>1, <3>2, <3>3, TotalUpdate
    <3>6. QED
      BY <3>4, <3>5 DEF old, new, k
  <2>7. Total(h, x + 1) = Total(h, x) + g[s[x + 1]] /\ Total(h, x) \in Int
    <3>1. \A k \in 1..(x + 1) : h[k] \in Int
      BY <2>1, <2>2
    <3>2. h[x + 1] = g[s[x + 1]]
      BY <2>2
    <3> HIDE DEF h
    <3>3. QED
      BY <2>2, <3>1, <3>2, TotalStep
  <2>8. Total(F(x), n) = Total(h, x)
    BY <2>1, <1>2
  <2>9. g[s[x + 1]] \in Int
    BY <2>2
  <2> HIDE DEF F, h
  <2>10. QED
    BY <2>6, <2>7, <2>8, <2>9
<1>3. T = Nat
  <2> HIDE DEF T
  <2>1. T \in SUBSET Nat
    BY DEF T
  <2>2. QED
    BY <2>1, <1>1, <1>2, SetInduction
<1>4. m \in T
  BY <1>3
<1>5. QED
  BY <1>4

\* Counting as a sum.
LEMMA TotalCounts ==
  ASSUME NEW n \in Nat, NEW S \in SUBSET (1..n)
  PROVE  Total([i \in 1..n |-> IF i \in S THEN 1 ELSE 0], n) = Cardinality(S)
<1> DEFINE f == [i \in 1..n |-> IF i \in S THEN 1 ELSE 0]
           U(x) == S \cap (1..x)
           T == {x \in Nat : x <= n =>
                   IsFiniteSet(U(x)) /\ Total(f, x) = Cardinality(U(x))}
<1>1. 0 \in T
  <2>1. U(0) = {}
    OBVIOUS
  <2>2. QED
    BY <2>1, TotalZero, FS_EmptySet
<1>2. ASSUME NEW x \in T PROVE x + 1 \in T
  <2>1. SUFFICES ASSUME x + 1 <= n
                 PROVE  IsFiniteSet(U(x + 1)) /\ Total(f, x + 1) = Cardinality(U(x + 1))
    BY <1>2
  <2>2. x \in Nat /\ x + 1 \in 1..n
    BY <2>1, <1>2
  <2>3. IsFiniteSet(U(x)) /\ Total(f, x) = Cardinality(U(x))
    BY <2>1, <1>2
  <2>4. \A i \in 1..(x + 1) : f[i] \in Int
    BY <2>2
  <2>5. Total(f, x) \in Int /\ Total(f, x + 1) = Total(f, x) + f[x + 1]
    <3> HIDE DEF f
    <3>1. QED
      BY <2>2, <2>4, TotalStep
  <2>6. CASE x + 1 \in S
    <3>1. U(x + 1) = U(x) \cup {x + 1} /\ x + 1 \notin U(x)
      BY <2>2, <2>6
    <3>2. f[x + 1] = 1
      BY <2>2, <2>6
    <3> HIDE DEF f, U
    <3>3. QED
      BY <2>3, <2>5, <3>1, <3>2, FS_AddElement
  <2>7. CASE x + 1 \notin S
    <3>1. U(x + 1) = U(x)
      BY <2>2, <2>7
    <3>2. f[x + 1] = 0
      BY <2>2, <2>7
    <3> HIDE DEF f, U
    <3>3. QED
      BY <2>3, <2>5, <3>1, <3>2
  <2>8. QED
    BY <2>6, <2>7
<1>3. T = Nat
  <2> HIDE DEF T
  <2>1. T \in SUBSET Nat
    BY DEF T
  <2>2. QED
    BY <2>1, <1>1, <1>2, SetInduction
<1>4. U(n) = S
  OBVIOUS
<1>5. Total(f, n) = Cardinality(U(n))
  <2>1. n \in T
    BY <1>3
  <2> HIDE DEF U, f
  <2>2. QED
    BY <2>1
<1> HIDE DEF U
<1>6. QED
  BY <1>4, <1>5

LEMMA ItmSortsAre ==
  ASSUME NEW b, NEW S, NEW s \in ItmSorts(b, S)
  PROVE  /\ s \in [1..Cardinality(S) -> S]
         /\ \A j, k \in 1..Cardinality(S) : j # k => s[j] # s[k]
         /\ \A m, n \in 1..Cardinality(S) : m < n => ~ItmAhead(b, s[n], s[m])
  BY DEF ItmSorts, StdSorts, Injection, IsInjective

\* The sort lists every member.
LEMMA ItmSortsCover ==
  ASSUME NEW b, NEW S, IsFiniteSet(S), NEW s \in ItmSorts(b, S)
  PROVE  Cardinality(S) \in Nat /\ \A i \in S : \E k \in 1..Cardinality(S) : s[k] = i
<1>1. s \in Injection(1..Cardinality(S), S)
  BY DEF ItmSorts, StdSorts
<1>2. Cardinality(S) \in Nat
  BY FS_CardinalityType
<1>3. Cardinality(1..Cardinality(S)) = Cardinality(S)
  BY <1>2, FS_Interval
<1>4. s \in Surjection(1..Cardinality(S), S)
  BY <1>1, <1>3, FS_Injection
<1>5. QED
  BY <1>2, <1>4 DEF Surjection

(***************************************************************************)
(* The ranks of a strict total order on a finite set, as a set of pairs:   *)
(* what is ahead has a smaller rank, and exactly m members have one below  *)
(* m.                                                                      *)
(***************************************************************************)
RankIn(R, S, i) == Cardinality({j \in S : <<j, i>> \in R})

IsStrictOrder(R, S) ==
  /\ \A i \in S : <<i, i>> \notin R
  /\ \A i, j \in S : i # j => <<i, j>> \in R \/ <<j, i>> \in R
  /\ \A i, j, k \in S : <<i, j>> \in R /\ <<j, k>> \in R => <<i, k>> \in R

LEMMA RanksRise ==
  ASSUME NEW S, IsFiniteSet(S), NEW R, IsStrictOrder(R, S),
         NEW i \in S, NEW j \in S, <<i, j>> \in R
  PROVE  RankIn(R, S, i) < RankIn(R, S, j)
<1> DEFINE B(x) == {k \in S : <<k, x>> \in R}
<1>1. B(i) \in SUBSET S /\ B(j) \in SUBSET S
  OBVIOUS
<1>2. B(i) \cup {i} \in SUBSET B(j)
  BY DEF IsStrictOrder
<1>3. i \notin B(i)
  BY DEF IsStrictOrder
<1>4. IsFiniteSet(B(i)) /\ IsFiniteSet(B(j))
  <2> HIDE DEF B
  <2>1. QED
    BY <1>1, FS_Subset
<1>5. Cardinality(B(i) \cup {i}) <= Cardinality(B(j))
  <2> HIDE DEF B
  <2>1. QED
    BY <1>2, <1>4, FS_Subset
<1>6. Cardinality(B(i) \cup {i}) = Cardinality(B(i)) + 1
  <2> HIDE DEF B
  <2>1. QED
    BY <1>3, <1>4, FS_AddElement
<1>7. Cardinality(B(i)) \in Nat /\ Cardinality(B(j)) \in Nat
  <2> HIDE DEF B
  <2>1. QED
    BY <1>4, FS_CardinalityType
<1>8. Cardinality(B(i)) < Cardinality(B(j))
  <2> HIDE DEF B
  <2>1. QED
    BY <1>5, <1>6, <1>7
<1>9. QED
  BY <1>8 DEF RankIn

LEMMA RanksCount ==
  ASSUME NEW S, IsFiniteSet(S), NEW R, IsStrictOrder(R, S),
         NEW m \in Nat, m <= Cardinality(S)
  PROVE  Cardinality({i \in S : RankIn(R, S, i) < m}) = m
<1> DEFINE n == Cardinality(S)
           r == [i \in S |-> RankIn(R, S, i)]
           K == {i \in S : RankIn(R, S, i) < m}
           h == [i \in K |-> RankIn(R, S, i)]
<1>1. n \in Nat
  BY FS_CardinalityType
<1>2. ASSUME NEW i \in S PROVE RankIn(R, S, i) \in 0..(n - 1)
  <2> DEFINE B == {k \in S : <<k, i>> \in R}
  <2>1. B \in SUBSET S /\ B # S
    BY DEF IsStrictOrder
  <2>2. IsFiniteSet(B) /\ Cardinality(B) <= n /\ Cardinality(B) # n
    <3> HIDE DEF B
    <3>1. QED
      BY <2>1, FS_Subset
  <2>3. Cardinality(B) \in Nat
    <3> HIDE DEF B
    <3>1. QED
      BY <2>2, FS_CardinalityType
  <2>4. Cardinality(B) \in 0..(n - 1)
    <3> HIDE DEF B, n
    <3>1. QED
      BY <1>1, <2>2, <2>3
  <2>5. QED
    BY <2>4 DEF RankIn
<1>3. ASSUME NEW i \in S, NEW j \in S, i # j PROVE RankIn(R, S, i) # RankIn(R, S, j)
  <2>1. <<i, j>> \in R \/ <<j, i>> \in R
    BY <1>3 DEF IsStrictOrder
  <2>2. RankIn(R, S, i) < RankIn(R, S, j) \/ RankIn(R, S, j) < RankIn(R, S, i)
    BY <2>1, RanksRise
  <2>3. RankIn(R, S, i) \in Int /\ RankIn(R, S, j) \in Int
    BY <1>1, <1>2
  <2>4. QED
    BY <2>2, <2>3
<1>4. r \in Injection(S, 0..(n - 1))
  <2>1. r \in [S -> 0..(n - 1)]
    BY <1>2
  <2>2. \A i, j \in S : r[i] = r[j] => i = j
    BY <1>3
  <2> HIDE DEF r, n
  <2>3. DOMAIN r = S
    BY <2>1
  <2>4. QED
    BY <2>1, <2>2, <2>3 DEF Injection, IsInjective
<1>5. IsFiniteSet(0..(n - 1)) /\ Cardinality(0..(n - 1)) = n
  <2>1. 0 \in Int /\ n - 1 \in Int
    BY <1>1
  <2> HIDE DEF n
  <2>2. QED
    BY <1>1, <2>1, FS_Interval
<1>6. r \in Surjection(S, 0..(n - 1))
  <2> HIDE DEF r
  <2>1. Cardinality(S) = Cardinality(0..(n - 1)) 
    BY <1>5
  <2>2. QED
    BY <1>4, <1>5, <2>1, FS_Injection
<1>7. \A x \in 0..(n - 1) : \E i \in S : RankIn(R, S, i) = x
  BY <1>6 DEF Surjection
<1>8. h \in Surjection(K, 0..(m - 1)) /\ h \in Injection(K, 0..(m - 1))
  <2>1. \A i \in K : h[i] \in 0..(m - 1)
    BY <1>1, <1>2
  <2>2. \A x \in 0..(m - 1) : \E i \in K : h[i] = x
    <3>1. ASSUME NEW x \in 0..(m - 1) PROVE \E i \in K : h[i] = x
      <4>1. x \in 0..(n - 1) /\ x < m
        BY <1>1
      <4>2. PICK i \in S : RankIn(R, S, i) = x
        BY <1>7, <4>1
      <4>3. i \in K /\ h[i] = x
        BY <4>1, <4>2
      <4>4. QED
        BY <4>3
    <3>2. QED
      BY <3>1
  <2>3. \A i, j \in K : h[i] = h[j] => i = j
    BY <1>3
  <2>4. h \in [K -> 0..(m - 1)] /\ DOMAIN h = K
    BY <2>1
  <2> HIDE DEF h, K
  <2>5. QED
    BY <2>2, <2>3, <2>4 DEF Surjection, Injection, IsInjective
<1>9. IsFiniteSet(K)
  <2>1. K \in SUBSET S
    OBVIOUS
  <2> HIDE DEF K
  <2>2. QED
    BY <2>1, FS_Subset
<1>10. Cardinality(0..(m - 1)) = Cardinality(K)
  <2> HIDE DEF h, K
  <2>1. QED
    BY <1>8, <1>9, FS_Surjection
<1>11. Cardinality(0..(m - 1)) = m
  <2>1. m - 1 \in Int /\ 0 \in Int
    OBVIOUS
  <2>2. QED
    BY <2>1, FS_Interval
<1>12. QED
  BY <1>10, <1>11

----------------------------------------------------------------------------
(***************************************************************************)
(* The largest-remainder split                                             *)
(***************************************************************************)
LEMMA Euclid ==
  ASSUME NEW x \in Nat, NEW d \in Nat, d > 0
  PROVE  /\ x \div d \in Nat /\ x % d \in Nat /\ x % d < d
         /\ x = (x \div d) * d + (x % d)
<1>1. x \div d \in Nat /\ x % d \in Nat /\ x % d < d
  OBVIOUS
<1>2. x = (x \div d) * d + (x % d)
  BY Z3
<1>3. QED
  BY <1>1, <1>2

\* Products of naturals grow with their factors.
LEMMA ProductsGrow ==
  ASSUME NEW x \in Nat, NEW y \in Nat, NEW c \in Nat
  PROVE  /\ c * x \in Nat
         /\ x <= y => c * x <= c * y
         /\ x < y /\ c > 0 => c * x < c * y
  OBVIOUS

\* The orders of S add up to at least any of them.
LEMMA QtyOfNat ==
  ASSUME NEW b, WellFormedBatch(b), NEW S
  PROVE  QtyOf(b, S) \in Nat
<1> DEFINE f == [i \in 1..Len(b) |-> IF i \in S THEN b[i].qty ELSE 0]
<1>1. \A i \in 1..Len(b) : f[i] \in Nat
  BY WordWidth DEF WellFormedBatch, WellFormedOrder, Price
<1>2. Len(b) \in Nat
  BY DEF WellFormedBatch
<1>3. Total(f, Len(b)) \in Nat
  <2> HIDE DEF f
  <2>1. QED
    BY <1>1, <1>2, TotalNat
<1>4. QED
  BY <1>3 DEF QtyOf

\* The parts of ProRataFill: the floor and the remainder of a quota, the units
\* the floors leave over, and the order in which those are handed out.
FloorOf(b, S, v, i) == (b[i].qty * v) \div QtyOf(b, S)
RestOf(b, S, v) == [i \in S |-> (b[i].qty * v) % QtyOf(b, S)]
SurplusOf(b, S, v) ==
  v - Total([i \in 1..Len(b) |-> IF i \in S THEN FloorOf(b, S, v, i) ELSE 0], Len(b))
AheadIn(b, S, v) ==
  {p \in S \X S : RemainderAhead(b, RestOf(b, S, v), p[1], p[2])}
ExtraOf(b, S, v, i) ==
  IF RankIn(AheadIn(b, S, v), S, i) < SurplusOf(b, S, v) THEN 1 ELSE 0

DistinctIds(b) == \A i, j \in 1..Len(b) : i # j => b[i].id # b[j].id

LEMMA ProRataFillParts ==
  ASSUME NEW b, NEW S, NEW v
  PROVE  ProRataFill(b, S, v)
           = [i \in S |-> Smaller(FloorOf(b, S, v, i) + ExtraOf(b, S, v, i), b[i].qty)]
<1> DEFINE all == QtyOf(b, S)
           base == [i \in S |-> (b[i].qty * v) \div all]
           rem == [i \in S |-> (b[i].qty * v) % all]
           surplus == v - Total([i \in 1..Len(b) |->
                                   IF i \in S THEN base[i] ELSE 0], Len(b))
           rank(i) == Cardinality({j \in S : RemainderAhead(b, rem, j, i)})
           extra(i) == IF rank(i) < surplus THEN 1 ELSE 0
<1>1. ProRataFill(b, S, v) = [i \in S |-> Smaller(base[i] + extra(i), b[i].qty)]
  BY DEF ProRataFill
<1>2. rem = RestOf(b, S, v)
  BY DEF RestOf
<1>3. \A i \in S : base[i] = FloorOf(b, S, v, i)
  BY DEF FloorOf
<1>4. surplus = SurplusOf(b, S, v)
  <2>1. [i \in 1..Len(b) |-> IF i \in S THEN base[i] ELSE 0]
          = [i \in 1..Len(b) |-> IF i \in S THEN FloorOf(b, S, v, i) ELSE 0]
    <3> HIDE DEF base
    <3>1. QED
      BY <1>3
  <2>2. QED
    BY <2>1 DEF SurplusOf
<1>5. ASSUME NEW i \in S PROVE rank(i) = RankIn(AheadIn(b, S, v), S, i)
  <2> HIDE DEF rem
  <2>1. {j \in S : RemainderAhead(b, rem, j, i)}
          = {j \in S : <<j, i>> \in AheadIn(b, S, v)}
    BY <1>2 DEF AheadIn
  <2>2. QED
    BY <2>1 DEF RankIn
<1>6. \A i \in S : extra(i) = ExtraOf(b, S, v, i)
  <2> HIDE DEF rank, surplus
  <2>1. QED
    BY <1>4, <1>5 DEF ExtraOf
<1> HIDE DEF base, extra
<1>7. QED
  BY <1>1, <1>3, <1>6

LEMMA Quotas ==
  ASSUME NEW b, WellFormedBatch(b), NEW S \in SUBSET (1..Len(b)), NEW v \in Nat,
         v < QtyOf(b, S), NEW i \in S
  PROVE  /\ b[i].qty \in Nat /\ b[i].qty > 0 /\ QtyOf(b, S) \in Nat
         /\ FloorOf(b, S, v, i) \in Nat
         /\ RestOf(b, S, v)[i] \in Nat /\ RestOf(b, S, v)[i] < QtyOf(b, S)
         /\ b[i].qty * v = FloorOf(b, S, v, i) * QtyOf(b, S) + RestOf(b, S, v)[i]
         /\ FloorOf(b, S, v, i) + 1 <= b[i].qty
<1> DEFINE A == QtyOf(b, S)
           q == b[i].qty
           f == FloorOf(b, S, v, i)
           r == RestOf(b, S, v)[i]
<1>1. A \in Nat /\ A > 0
  BY QtyOfNat
<1>2. q \in Nat /\ q > 0
  BY WordWidth DEF WellFormedBatch, WellFormedOrder, Price
<1>3. q * v \in Nat
  BY <1>2
<1>4. f = (q * v) \div A /\ r = (q * v) % A
  BY DEF FloorOf, RestOf
<1> HIDE DEF A, q, f, r
<1>5. f \in Nat /\ r \in Nat /\ r < A /\ q * v = f * A + r
  BY <1>1, <1>3, <1>4, Euclid
<1>6. f + 1 <= q
  <2>1. SUFFICES ASSUME q <= f PROVE FALSE
    BY <1>2, <1>5
  <2>2. v < A
    BY DEF A
  <2>3. q * v < q * A
    BY <1>1, <1>2, <2>2, ProductsGrow
  <2>4. A * q <= A * f
    BY <1>1, <1>2, <1>5, <2>1, ProductsGrow
  <2>5. f * A \in Nat /\ q * A \in Nat /\ q * A = A * q /\ f * A = A * f
    BY <1>1, <1>2, <1>5
  <2>6. QED
    BY <1>3, <1>5, <2>3, <2>4, <2>5
<1>7. QED
  BY <1>1, <1>2, <1>5, <1>6 DEF A, q, f, r

\* The comparator of the largest-remainder sort orders any two orders.
LEMMA RemaindersAreOrdered ==
  ASSUME NEW b, WellFormedBatch(b), DistinctIds(b), NEW S \in SUBSET (1..Len(b)),
         NEW v \in Nat, v < QtyOf(b, S)
  PROVE  IsStrictOrder(AheadIn(b, S, v), S)
<1> DEFINE r == RestOf(b, S, v)
<1>1. ASSUME NEW i \in S PROVE r[i] \in Nat /\ b[i].seq \in Nat /\ b[i].id \in Nat
  BY Quotas DEF WellFormedBatch, WellFormedOrder
<1>2. \A i, j \in S : i # j => b[i].id # b[j].id
  BY DEF DistinctIds
<1> HIDE DEF r
<1>3. ASSUME NEW i \in S, NEW j \in S
      PROVE  <<i, j>> \in AheadIn(b, S, v) <=> RemainderAhead(b, r, i, j)
  <2>1. <<i, j>> \in S \X S
    OBVIOUS
  <2>2. QED
    BY <2>1 DEF AheadIn, r
<1>4. \A i \in S : ~RemainderAhead(b, r, i, i)
  BY <1>1 DEF RemainderAhead
<1>5. \A i, j \in S : i # j => RemainderAhead(b, r, i, j) \/ RemainderAhead(b, r, j, i)
  BY <1>1, <1>2 DEF RemainderAhead
<1>6. ASSUME NEW i \in S, NEW j \in S, NEW k \in S,
             RemainderAhead(b, r, i, j), RemainderAhead(b, r, j, k)
      PROVE  RemainderAhead(b, r, i, k)
  <2>1. r[i] \in Nat /\ r[j] \in Nat /\ r[k] \in Nat
    BY <1>1
  <2>2. b[i].seq \in Nat /\ b[j].seq \in Nat /\ b[k].seq \in Nat
    BY <1>1
  <2>3. b[i].id \in Nat /\ b[j].id \in Nat /\ b[k].id \in Nat
    BY <1>1
  <2>4. r[i] >= r[j] /\ r[j] >= r[k]
    BY <1>6, <2>1 DEF RemainderAhead
  <2>5. CASE r[i] > r[k]
    BY <2>1, <2>5 DEF RemainderAhead
  <2>6. CASE r[i] = r[j] /\ r[j] = r[k]
    <3>1. ASSUME NEW x \in S, NEW y \in S, r[x] = r[y]
          PROVE  RemainderAhead(b, r, x, y)
                   <=> IF b[x].seq # b[y].seq THEN b[x].seq < b[y].seq
                                              ELSE b[x].id < b[y].id
      BY <3>1 DEF RemainderAhead
    <3>2. /\ IF b[i].seq # b[j].seq THEN b[i].seq < b[j].seq ELSE b[i].id < b[j].id
          /\ IF b[j].seq # b[k].seq THEN b[j].seq < b[k].seq ELSE b[j].id < b[k].id
      BY <1>6, <2>6, <3>1
    <3> DEFINE si == b[i].seq
               sj == b[j].seq
               sk == b[k].seq
               di == b[i].id
               dj == b[j].id
               dk == b[k].id
    <3>3. IF si # sk THEN si < sk ELSE di < dk
      <4>1. /\ IF si # sj THEN si < sj ELSE di < dj
            /\ IF sj # sk THEN sj < sk ELSE dj < dk
        BY <3>2
      <4>2. /\ si \in Nat /\ sj \in Nat /\ sk \in Nat
            /\ di \in Nat /\ dj \in Nat /\ dk \in Nat
        BY <2>2, <2>3
      <4> HIDE DEF si, sj, sk, di, dj, dk
      <4>3. QED
        BY <4>1, <4>2
    <3>4. r[i] = r[k]
      BY <2>6
    <3>5. QED
      BY <3>1, <3>3, <3>4
  <2>7. QED
    BY <2>1, <2>4, <2>5, <2>6
<1>7. QED
  BY <1>3, <1>4, <1>5, <1>6 DEF IsStrictOrder

\* A whole multiple of the total is handed out in remainders: the surplus is
\* not negative and is at most the number of remainders that are not zero.
LEMMA SurplusBounds ==
  ASSUME NEW b, WellFormedBatch(b), NEW S \in SUBSET (1..Len(b)), NEW v \in Nat,
         v < QtyOf(b, S)
  PROVE  /\ SurplusOf(b, S, v) \in Nat
         /\ SurplusOf(b, S, v) <= Cardinality({i \in S : RestOf(b, S, v)[i] > 0})
<1> DEFINE n == Len(b)
           A == QtyOf(b, S)
           F == [i \in 1..n |-> IF i \in S THEN FloorOf(b, S, v, i) ELSE 0]
           D == [i \in 1..n |-> IF i \in S THEN RestOf(b, S, v)[i] ELSE 0]
           Q == [i \in 1..n |-> IF i \in S THEN b[i].qty ELSE 0]
           G == [i \in 1..n |-> v * Q[i]]
           AF == [i \in 1..n |-> A * F[i]]
           U == {i \in S : RestOf(b, S, v)[i] > 0}
           P == [i \in 1..n |-> IF i \in U THEN 1 ELSE 0]
           AP == [i \in 1..n |-> A * P[i]]
           m == SurplusOf(b, S, v)
<1>1. n \in Nat /\ A \in Nat /\ A > 0
  BY QtyOfNat DEF WellFormedBatch
<1>2. \A i \in 1..n : F[i] \in Nat /\ D[i] \in Nat /\ Q[i] \in Nat
  <2>1. ASSUME NEW i \in S PROVE F[i] \in Nat /\ D[i] \in Nat /\ Q[i] \in Nat
    BY Quotas
  <2>2. QED
    BY <2>1
<1>3. \A i \in 1..n : G[i] = AF[i] + D[i]
  <2>1. ASSUME NEW i \in S PROVE G[i] = AF[i] + D[i]
    <3> DEFINE f == FloorOf(b, S, v, i)
               q == b[i].qty
               d == RestOf(b, S, v)[i]
    <3>1. q * v = f * A + d /\ f \in Nat /\ q \in Nat
      BY Quotas
    <3>2. G[i] = v * q /\ AF[i] = A * f /\ D[i] = d
      OBVIOUS
    <3> HIDE DEF f, q, d, A, G, AF, D
    <3>3. v * q = q * v /\ A * f = f * A
      BY <1>1, <3>1
    <3>4. QED
      BY <3>1, <3>2, <3>3
  <2>2. ASSUME NEW i \in 1..n, i \notin S PROVE G[i] = AF[i] + D[i]
    <3>1. G[i] = v * 0 /\ AF[i] = A * 0 /\ D[i] = 0
      BY <2>2
    <3> HIDE DEF A, G, AF, D
    <3>2. QED
      BY <1>1, <3>1
  <2>3. QED
    BY <2>1, <2>2
<1>4. \A i \in 1..n : D[i] \in Int /\ AP[i] \in Int /\ D[i] <= AP[i]
  <2>1. ASSUME NEW i \in U PROVE D[i] <= AP[i] /\ AP[i] \in Int
    <3>1. RestOf(b, S, v)[i] < A /\ P[i] = 1
      BY Quotas
    <3>2. QED
      BY <1>1, <1>2, <3>1
  <2>2. ASSUME NEW i \in 1..n, i \notin U PROVE D[i] <= AP[i] /\ AP[i] \in Int
    <3>1. AP[i] = 0
      <4>1. AP[i] = A * 0
        BY <2>2
      <4> HIDE DEF A, AP
      <4>2. QED
        BY <1>1, <4>1
    <3>2. D[i] \in Nat /\ ~(D[i] > 0)
      BY <1>2, <2>2
    <3>3. QED
      BY <3>1, <3>2
  <2>3. \A i \in 1..n : D[i] \in Nat
    BY <1>2
  <2> HIDE DEF D, AP, U
  <2>4. QED
    BY <2>1, <2>2, <2>3
<1>5. /\ Total(Q, n) = A /\ m = v - Total(F, n)
  BY DEF QtyOf, SurplusOf
<1>6. Total(P, n) = Cardinality(U) /\ Total(P, n) \in Nat
  <2>1. U \in SUBSET (1..n)
    OBVIOUS
  <2>2. Total(P, n) = Cardinality(U)
    <3> HIDE DEF U, n
    <3>1. QED
      BY <1>1, <2>1, TotalCounts
  <2>3. \A i \in 1..n : P[i] \in Nat
    OBVIOUS
  <2> HIDE DEF P, n, U
  <2>4. QED
    BY <1>1, <2>2, <2>3, TotalNat
<1>7. Total(G, n) = v * Total(Q, n)
  <2>1. \A i \in 1..n : Q[i] \in Int /\ G[i] = v * Q[i]
    BY <1>2
  <2> HIDE DEF G, Q, n
  <2>2. QED
    BY <1>1, <2>1, TotalScale
<1>8. Total(AF, n) = A * Total(F, n) /\ Total(F, n) \in Nat
  <2>1. \A i \in 1..n : F[i] \in Nat /\ F[i] \in Int /\ AF[i] = A * F[i]
    BY <1>2
  <2> HIDE DEF AF, F, n, A
  <2>2. QED
    BY <1>1, <2>1, TotalScale, TotalNat
<1>9. Total(AP, n) = A * Total(P, n)
  <2>0. \A i \in 1..n : P[i] \in Int
    OBVIOUS
  <2>1. \A i \in 1..n : P[i] \in Int /\ AP[i] = A * P[i]
    <3> HIDE DEF P, A
    <3>1. QED
      BY <2>0
  <2> HIDE DEF AP, P, n, A
  <2>2. QED
    BY <1>1, <2>1, TotalScale, SMTT(30)
<1>10. Total(G, n) = Total(AF, n) + Total(D, n) /\ Total(D, n) \in Nat
  <2>1. \A i \in 1..n : AF[i] \in Int /\ D[i] \in Int /\ G[i] = AF[i] + D[i]
    BY <1>1, <1>2, <1>3
  <2>2. \A i \in 1..n : D[i] \in Nat
    BY <1>2
  <2> HIDE DEF AF, D, G, n
  <2>3. QED
    BY <1>1, <2>1, <2>2, TotalSum, TotalNat
<1>11. Total(D, n) <= Total(AP, n)
  <2> HIDE DEF D, AP, n
  <2>1. QED
    BY <1>1, <1>4, TotalMonotone
<1> DEFINE t == Total(F, n)
           c == Cardinality(U)
           d == Total(D, n)
<1>12. /\ v * A = A * t + d /\ d <= A * c /\ m = v - t
       /\ t \in Nat /\ c \in Nat /\ d \in Nat
  BY <1>5, <1>6, <1>7, <1>8, <1>9, <1>10, <1>11
<1>13. m \in Nat /\ m <= c
  <2> HIDE DEF A, t, c, d, m
  <2>1. m \in Int /\ A * m = d
    <3>1. A * (v - t) = A * v - A * t /\ A * v = v * A
      BY <1>1, <1>12
    <3>2. A * t \in Int /\ v * A \in Int
      BY <1>1, <1>12
    <3>3. QED
      BY <1>12, <3>1, <3>2
  <2>2. m >= 0
    <3>1. SUFFICES ASSUME m <= -1 PROVE FALSE
      BY <2>1
    <3>2. -m \in Nat /\ A * (-m) >= A * 1 /\ A * (-m) = -(A * m)
      BY <1>1, <2>1, <3>1, ProductsGrow
    <3>3. QED
      BY <1>1, <1>12, <2>1, <3>2
  <2>3. m <= c
    <3>1. SUFFICES ASSUME c < m PROVE FALSE
      BY <1>12, <2>1
    <3>2. A * c < A * m
      BY <1>1, <1>12, <2>1, <2>2, <3>1, ProductsGrow
    <3>3. A * c \in Nat
      BY <1>1, <1>12
    <3>4. QED
      BY <1>12, <2>1, <3>2, <3>3
  <2>4. QED
    BY <2>1, <2>2, <2>3
<1>14. QED
  BY <1>13

\* The clamp to the order's quantity has no effect.
LEMMA ProRataFillIs ==
  ASSUME NEW b, WellFormedBatch(b), NEW S \in SUBSET (1..Len(b)), NEW v \in Nat,
         v < QtyOf(b, S), NEW i \in S
  PROVE  /\ ProRataFill(b, S, v)[i] = FloorOf(b, S, v, i) + ExtraOf(b, S, v, i)
         /\ ProRataFill(b, S, v)[i] \in Nat
         /\ ProRataFill(b, S, v)[i] <= b[i].qty
<1>1. ProRataFill(b, S, v)[i]
        = Smaller(FloorOf(b, S, v, i) + ExtraOf(b, S, v, i), b[i].qty)
  BY ProRataFillParts
<1>2. FloorOf(b, S, v, i) \in Nat /\ FloorOf(b, S, v, i) + 1 <= b[i].qty /\ b[i].qty \in Nat
  BY Quotas
<1>3. ExtraOf(b, S, v, i) \in {0, 1}
  BY DEF ExtraOf
<1>4. QED
  BY <1>1, <1>2, <1>3 DEF Smaller

\* Floors and surplus units make up the volume exactly.
LEMMA ProRataMeetsVolume ==
  ASSUME NEW b, WellFormedBatch(b), DistinctIds(b), NEW S \in SUBSET (1..Len(b)),
         NEW v \in Nat, v < QtyOf(b, S)
  PROVE  Total([i \in 1..Len(b) |-> IF i \in S THEN ProRataFill(b, S, v)[i] ELSE 0],
               Len(b)) = v
<1> DEFINE n == Len(b)
           m == SurplusOf(b, S, v)
           R == AheadIn(b, S, v)
           K == {i \in S : RankIn(R, S, i) < m}
           F == [i \in 1..n |-> IF i \in S THEN FloorOf(b, S, v, i) ELSE 0]
           X == [i \in 1..n |-> IF i \in K THEN 1 ELSE 0]
           H == [i \in 1..n |-> IF i \in S THEN ProRataFill(b, S, v)[i] ELSE 0]
           U == {i \in S : RestOf(b, S, v)[i] > 0}
<1>1. n \in Nat
  BY DEF WellFormedBatch
<1>2. IsFiniteSet(S)
  <2>1. IsFiniteSet(1..n)
    BY <1>1, FS_Interval
  <2>2. QED
    BY <2>1, FS_Subset
<1>3. m \in Nat /\ m <= Cardinality(S)
  <2>1. m \in Nat /\ m <= Cardinality(U)
    BY SurplusBounds
  <2>2. U \in SUBSET S
    OBVIOUS
  <2> HIDE DEF U, m
  <2>3. IsFiniteSet(U) /\ Cardinality(U) <= Cardinality(S)
    BY <1>2, <2>2, FS_Subset
  <2>4. Cardinality(U) \in Nat /\ Cardinality(S) \in Nat
    BY <1>2, <2>3, FS_CardinalityType
  <2>5. QED
    BY <2>1, <2>3, <2>4
<1>4. Cardinality(K) = m
  <2>1. IsStrictOrder(R, S)
    BY RemaindersAreOrdered
  <2> HIDE DEF R, m
  <2>2. QED
    BY <1>2, <1>3, <2>1, RanksCount
<1>5. Total(X, n) = m
  <2>1. K \in SUBSET (1..n)
    OBVIOUS
  <2> HIDE DEF K, n
  <2>2. Total(X, n) = Cardinality(K)
    BY <1>1, <2>1, TotalCounts
  <2>3. QED
    BY <1>4, <2>2
<1>6. \A i \in 1..n : F[i] \in Int /\ X[i] \in Int /\ H[i] = F[i] + X[i]
  <2>1. ASSUME NEW i \in S PROVE F[i] \in Int /\ H[i] = F[i] + X[i]
    <3>1. /\ ProRataFill(b, S, v)[i] = FloorOf(b, S, v, i) + ExtraOf(b, S, v, i)
          /\ FloorOf(b, S, v, i) \in Nat
      BY ProRataFillIs, Quotas
    <3>2. X[i] = ExtraOf(b, S, v, i)
      BY DEF ExtraOf
    <3>3. F[i] = FloorOf(b, S, v, i) /\ H[i] = ProRataFill(b, S, v)[i]
      OBVIOUS
    <3> HIDE DEF F, X, H
    <3>4. QED
      BY <3>1, <3>2, <3>3
  <2>2. ASSUME NEW i \in 1..n, i \notin S PROVE F[i] \in Int /\ H[i] = F[i] + X[i]
    <3>1. F[i] = 0 /\ X[i] = 0 /\ H[i] = 0
      BY <2>2
    <3>2. QED
      BY <3>1
  <2>3. \A i \in 1..n : X[i] \in Int
    OBVIOUS
  <2> HIDE DEF F, X, H
  <2>4. QED
    BY <2>1, <2>2, <2>3
<1>7. Total(H, n) = Total(F, n) + Total(X, n) /\ Total(F, n) \in Int
  <2> HIDE DEF F, X, H, n
  <2>1. \A i \in 1..n : F[i] \in Int
    BY <1>6
  <2>2. QED
    BY <1>1, <1>6, <2>1, TotalSum, TotalInt
<1>8. m = v - Total(F, n)
  BY DEF SurplusOf
<1>9. Total(H, n) = v
  <2> HIDE DEF F, X, H, n, m
  <2>1. QED
    BY <1>5, <1>7, <1>8
<1>10. QED
  BY <1>9

\* Every order gets its quota rounded down or up: a surplus unit never goes to
\* an order without a remainder, because those with one are ahead of it.
LEMMA ProRataRoundsQuota ==
  ASSUME NEW b, WellFormedBatch(b), NEW S \in SUBSET (1..Len(b)), NEW v \in Nat,
         v < QtyOf(b, S), NEW i \in S
  PROVE  ProRataFill(b, S, v)[i] * QtyOf(b, S) - b[i].qty * v
           \in (1 - QtyOf(b, S))..(QtyOf(b, S) - 1)
<1> DEFINE A == QtyOf(b, S)
           f == FloorOf(b, S, v, i)
           r == RestOf(b, S, v)[i]
           e == ExtraOf(b, S, v, i)
           q == b[i].qty
           U == {j \in S : RestOf(b, S, v)[j] > 0}
           B == {j \in S : <<j, i>> \in AheadIn(b, S, v)}
<1>1. /\ A \in Nat /\ v < A /\ f \in Nat /\ r \in Nat /\ r < A /\ q \in Nat
      /\ q * v = f * A + r
  BY Quotas
<1>2. ProRataFill(b, S, v)[i] = f + e
  BY ProRataFillIs
<1>3. e = 0 \/ e = 1
  BY DEF ExtraOf
<1>4. ASSUME e = 1 PROVE r > 0
  <2>1. SUFFICES ASSUME r = 0 PROVE FALSE
    BY <1>1
  <2>2. RankIn(AheadIn(b, S, v), S, i) < SurplusOf(b, S, v)
    BY <1>4 DEF ExtraOf
  <2>3. SurplusOf(b, S, v) \in Nat /\ SurplusOf(b, S, v) <= Cardinality(U)
    BY SurplusBounds
  <2>4. U \in SUBSET B
    <3>1. ASSUME NEW j \in U PROVE <<j, i>> \in AheadIn(b, S, v)
      <4>1. <<j, i>> \in S \X S
        OBVIOUS
      <4>2. RestOf(b, S, v)[j] > RestOf(b, S, v)[i] /\ RestOf(b, S, v)[j] # RestOf(b, S, v)[i]
        BY <2>1
      <4>3. RemainderAhead(b, RestOf(b, S, v), j, i)
        BY <4>2 DEF RemainderAhead
      <4>4. QED
        BY <4>1, <4>3 DEF AheadIn
    <3>2. QED
      BY <3>1
  <2>5. IsFiniteSet(B)
    <3>1. Len(b) \in Nat
      BY DEF WellFormedBatch
    <3>2. IsFiniteSet(1..Len(b))
      BY <3>1, FS_Interval
    <3>3. B \in SUBSET (1..Len(b))
      OBVIOUS
    <3> HIDE DEF B
    <3>4. QED
      BY <3>2, <3>3, FS_Subset
  <2>6. RankIn(AheadIn(b, S, v), S, i) = Cardinality(B)
    BY DEF RankIn
  <2> HIDE DEF U, B
  <2>7. IsFiniteSet(U) /\ Cardinality(U) <= Cardinality(B)
    BY <2>4, <2>5, FS_Subset
  <2>8. Cardinality(U) \in Nat /\ Cardinality(B) \in Nat
    BY <2>5, <2>7, FS_CardinalityType
  <2>9. QED
    BY <2>2, <2>3, <2>6, <2>7, <2>8
<1> HIDE DEF A, f, r, e, q
<1>5. (f + e) * A = f * A + e * A /\ f * A \in Nat
  BY <1>1, <1>3
<1>6. CASE e = 0
  <2>1. e * A = 0
    BY <1>1, <1>6
  <2>2. (f + e) * A - q * v = -r
    BY <1>1, <1>5, <2>1
  <2>3. -r \in (1 - A)..(A - 1)
    BY <1>1
  <2>4. QED
    BY <1>2, <2>2, <2>3 DEF A, q
<1>7. CASE e = 1
  <2>1. e * A = A /\ r > 0
    BY <1>1, <1>4, <1>7
  <2>2. (f + e) * A - q * v = A - r
    BY <1>1, <1>5, <2>1
  <2>3. A - r \in (1 - A)..(A - 1)
    BY <1>1, <2>1
  <2>4. QED
    BY <1>2, <2>2, <2>3 DEF A, q
<1>8. QED
  BY <1>3, <1>6, <1>7

\* A larger order, or an earlier one of the same size, gets no less.
LEMMA ProRataKeepsOrder ==
  ASSUME NEW b, WellFormedBatch(b), DistinctIds(b), NEW S \in SUBSET (1..Len(b)),
         NEW v \in Nat, v > 0, v < QtyOf(b, S), NEW i \in S, NEW j \in S,
         \/ b[i].qty > b[j].qty
         \/ b[i].qty = b[j].qty /\ b[i].seq < b[j].seq
  PROVE  ProRataFill(b, S, v)[i] >= ProRataFill(b, S, v)[j]
<1> DEFINE A == QtyOf(b, S)
           qi == b[i].qty
           qj == b[j].qty
           fi == FloorOf(b, S, v, i)
           fj == FloorOf(b, S, v, j)
           ri == RestOf(b, S, v)[i]
           rj == RestOf(b, S, v)[j]
           ei == ExtraOf(b, S, v, i)
           ej == ExtraOf(b, S, v, j)
<1>1. /\ A \in Nat /\ fi \in Nat /\ ri \in Nat /\ ri < A /\ qi \in Nat
      /\ qi * v = fi * A + ri
  BY Quotas
<1>2. /\ fj \in Nat /\ rj \in Nat /\ rj < A /\ qj \in Nat
      /\ qj * v = fj * A + rj
  BY Quotas
<1>3. ProRataFill(b, S, v)[i] = fi + ei /\ ProRataFill(b, S, v)[j] = fj + ej
  BY ProRataFillIs
<1>4. ei \in {0, 1} /\ ej \in {0, 1}
  BY DEF ExtraOf
<1>5. b[i].seq \in Nat /\ b[j].seq \in Nat
  BY DEF WellFormedBatch, WellFormedOrder
<1>6. qi > qj \/ (qi = qj /\ b[i].seq < b[j].seq)
  OBVIOUS
<1> HIDE DEF A, qi, qj, fi, fj, ri, rj, ei, ej
<1>7. /\ qj * v \in Nat /\ qi * v \in Nat /\ qj * v <= qi * v
      /\ qj < qi => qj * v < qi * v
  <2>1. /\ v * qj <= v * qi
        /\ qj < qi => v * qj < v * qi
        /\ v * qi \in Nat /\ v * qj \in Nat
    BY <1>1, <1>2, <1>6, ProductsGrow
  <2>2. v * qi = qi * v /\ v * qj = qj * v
    BY <1>1, <1>2
  <2>3. QED
    BY <2>1, <2>2
<1>8. fj <= fi
  <2>1. SUFFICES ASSUME fi + 1 <= fj PROVE FALSE
    BY <1>1, <1>2
  <2>2. A * (fi + 1) <= A * fj
    BY <1>1, <1>2, <2>1, ProductsGrow
  <2>3. /\ A * (fi + 1) = fi * A + A /\ A * fj = fj * A
        /\ fi * A \in Nat /\ fj * A \in Nat
    BY <1>1, <1>2
  <2>4. QED
    BY <1>1, <1>2, <1>7, <2>2, <2>3
<1>9. CASE fj < fi
  BY <1>1, <1>2, <1>3, <1>4, <1>9
<1>10. CASE fj = fi
  <2>1. rj <= ri /\ (qj < qi => rj < ri) /\ (qj = qi => rj = ri)
    <3>1. fi * A \in Nat
      BY <1>1
    <3>2. QED
      BY <1>1, <1>2, <1>7, <1>10, <3>1
  <2>2. ri > rj \/ (ri = rj /\ b[i].seq < b[j].seq)
    BY <1>1, <1>2, <1>6, <2>1
  <2>3. RemainderAhead(b, RestOf(b, S, v), i, j)
    <3>1. CASE ri > rj
      BY <1>1, <1>2, <3>1 DEF RemainderAhead, ri, rj
    <3>2. CASE ri = rj /\ b[i].seq < b[j].seq
      BY <1>1, <1>2, <1>5, <3>2 DEF RemainderAhead, ri, rj
    <3>3. QED
      BY <2>2, <3>1, <3>2
  <2>4. <<i, j>> \in AheadIn(b, S, v)
    <3>1. <<i, j>> \in S \X S
      OBVIOUS
    <3>2. QED
      BY <2>3, <3>1 DEF AheadIn
  <2>5. IsFiniteSet(S)
    <3>1. IsFiniteSet(1..Len(b))
      BY FS_Interval DEF WellFormedBatch
    <3>2. QED
      BY <3>1, FS_Subset
  <2>6. RankIn(AheadIn(b, S, v), S, i) < RankIn(AheadIn(b, S, v), S, j)
    BY <2>4, <2>5, RemaindersAreOrdered, RanksRise
  <2>7. ASSUME NEW x PROVE RankIn(AheadIn(b, S, v), S, x) \in Nat
    <3> DEFINE B == {k \in S : <<k, x>> \in AheadIn(b, S, v)}
    <3>1. B \in SUBSET S
      OBVIOUS
    <3>2. Cardinality(B) \in Nat
      <4> HIDE DEF B
      <4>1. QED
        BY <2>5, <3>1, FS_Subset, FS_CardinalityType
    <3>3. QED
      BY <3>2 DEF RankIn
  <2>8. SurplusOf(b, S, v) \in Nat
    BY SurplusBounds
  <2>9. ej = 1 => ei = 1
    BY <2>6, <2>7, <2>8 DEF ExtraOf, ei, ej
  <2>10. QED
    BY <1>1, <1>2, <1>3, <1>4, <1>10, <2>9
<1>11. QED
  BY <1>1, <1>2, <1>8, <1>9, <1>10

----------------------------------------------------------------------------
(***************************************************************************)
(* The greedy pass                                                         *)
(***************************************************************************)
\* What the sorted orders before the k-th take.
TakenBy(b, s, k) == Total([m \in 1..Len(s) |-> b[s[m]].qty], k)

\* The sequence a sort leaves: a listing of the set.
IsListing(s, S, n) ==
  /\ Len(s) \in Nat /\ S \in SUBSET (1..n)
  /\ \A k \in 1..Len(s) : s[k] \in S
  /\ \A j, k \in 1..Len(s) : j # k => s[j] # s[k]
  /\ \A i \in S : \E k \in 1..Len(s) : s[k] = i

LEMMA SortsAreListings ==
  ASSUME NEW b, WellFormedBatch(b), NEW S \in SUBSET (1..Len(b)),
         NEW s \in ItmSorts(b, S)
  PROVE  /\ IsListing(s, S, Len(b))
         /\ \A j, k \in 1..Len(s) : j < k => ~ItmAhead(b, s[k], s[j])
<1>1. Len(b) \in Nat
  BY DEF WellFormedBatch
<1>2. IsFiniteSet(1..Len(b))
  BY <1>1, FS_Interval
<1>3. IsFiniteSet(S)
  BY <1>2, FS_Subset
<1>4. Cardinality(S) \in Nat /\ \A i \in S : \E k \in 1..Cardinality(S) : s[k] = i
  BY <1>3, ItmSortsCover
<1>5. /\ s \in [1..Cardinality(S) -> S]
      /\ \A j, k \in 1..Cardinality(S) : j # k => s[j] # s[k]
      /\ \A m, n \in 1..Cardinality(S) : m < n => ~ItmAhead(b, s[n], s[m])
  BY ItmSortsAre
<1>6. Len(s) = Cardinality(S)
  BY <1>4, <1>5
<1>7. \A k \in 1..Len(s) : s[k] \in S
  BY <1>5, <1>6
<1>8. QED
  BY <1>4, <1>5, <1>6, <1>7 DEF IsListing

\* The k-th sorted order takes what the earlier ones leave of the target.
LEMMA GreedyFillAt ==
  ASSUME NEW b, NEW S, NEW n, NEW s, IsListing(s, S, n), NEW t, NEW k \in 1..Len(s)
  PROVE  ItmGreedyFill(b, s, t)[s[k]]
           = Smaller(b[s[k]].qty, SaturatingSub(t, TakenBy(b, s, k - 1)))
<1> DEFINE D == {s[m] : m \in 1..Len(s)}
           place == [i \in D |-> CHOOSE m \in 1..Len(s) : s[m] = i]
           taken(x) == Total([m \in 1..Len(s) |-> b[s[m]].qty], x)
<1>1. s[k] \in D
  OBVIOUS
<1>2. place[s[k]] = k
  <2>1. \A m \in 1..Len(s) : s[m] = s[k] => m = k
    BY DEF IsListing
  <2>2. (CHOOSE m \in 1..Len(s) : s[m] = s[k]) = k
    BY <2>1
  <2>3. QED
    BY <1>1, <2>2
<1>3. ItmGreedyFill(b, s, t)
        = [i \in DOMAIN place |-> Smaller(b[i].qty, SaturatingSub(t, taken(place[i] - 1)))]
  BY DEF ItmGreedyFill
<1>4. DOMAIN place = D
  OBVIOUS
<1>5. \A x : taken(x) = TakenBy(b, s, x)
  BY DEF TakenBy
<1> HIDE DEF place, taken, D
<1>6. QED
  BY <1>1, <1>2, <1>3, <1>4, <1>5

LEMMA TakenSteps ==
  ASSUME NEW b, WellFormedBatch(b), NEW S, NEW s, IsListing(s, S, Len(b))
  PROVE  /\ \A k \in 0..Len(s) : TakenBy(b, s, k) \in Nat
         /\ \A k \in 1..Len(s) :
              TakenBy(b, s, k) = TakenBy(b, s, k - 1) + b[s[k]].qty
         /\ \A j, k \in 0..Len(s) : j <= k => TakenBy(b, s, j) <= TakenBy(b, s, k)
         /\ TakenBy(b, s, 0) = 0
         /\ \A k \in 1..Len(s) : b[s[k]].qty \in Nat
<1> DEFINE f == [m \in 1..Len(s) |-> b[s[m]].qty]
<1>1. Len(s) \in Nat
  BY DEF IsListing
<1>2. \A k \in 1..Len(s) : b[s[k]].qty \in Nat /\ f[k] = b[s[k]].qty
  <2>1. ASSUME NEW k \in 1..Len(s) PROVE b[s[k]].qty \in Nat
    <3>1. s[k] \in 1..Len(b)
      BY DEF IsListing
    <3>2. QED
      BY <3>1, WordWidth DEF WellFormedBatch, WellFormedOrder, Price
  <2>2. QED
    BY <2>1
<1>3. \A k : TakenBy(b, s, k) = Total(f, k)
  BY DEF TakenBy
<1> HIDE DEF f
<1>4. ASSUME NEW k \in 0..Len(s) PROVE Total(f, k) \in Nat
  <2>1. k \in Nat /\ \A i \in 1..k : f[i] \in Nat
    BY <1>1, <1>2
  <2>2. QED
    BY <2>1, TotalNat
<1>5. ASSUME NEW k \in 1..Len(s) PROVE Total(f, k) = Total(f, k - 1) + f[k]
  <2>1. k - 1 \in Nat /\ (k - 1) + 1 = k /\ \A i \in 1..((k - 1) + 1) : f[i] \in Int
    BY <1>1, <1>2
  <2>2. Total(f, (k - 1) + 1) = Total(f, k - 1) + f[(k - 1) + 1]
    BY <2>1, TotalStep
  <2>3. QED
    BY <2>1, <2>2
<1>6. ASSUME NEW j \in 0..Len(s), NEW k \in 0..Len(s), j <= k
      PROVE  Total(f, j) <= Total(f, k)
  BY <1>1, <1>2, <1>6, TotalPrefix
<1>7. Total(f, 0) = 0
  BY TotalZero
<1>8. QED
  BY <1>2, <1>3, <1>4, <1>5, <1>6, <1>7

\* A sum over a set is the sum over a listing of it.
LEMMA ListingTotal ==
  ASSUME NEW n \in Nat, NEW S, NEW s, IsListing(s, S, n), NEW f,
         \A i \in S : f[i] \in Int
  PROVE  Total([i \in 1..n |-> IF i \in S THEN f[i] ELSE 0], n)
           = Total([k \in 1..Len(s) |-> f[s[k]]], Len(s))
<1> DEFINE m == Len(s)
           g == [i \in 1..n |-> IF i \in S THEN f[i] ELSE 0]
<1>1. m \in Nat
  BY DEF IsListing
<1>2. \A i \in 1..n : g[i] \in Int
  OBVIOUS
<1>3. \A k \in 1..m : s[k] \in 1..n
  BY DEF IsListing
<1>4. \A j, k \in 1..m : j # k => s[j] # s[k]
  BY DEF IsListing
<1>5. [i \in 1..n |-> IF \E k \in 1..m : s[k] = i THEN g[i] ELSE 0] = g
  <2>1. \A i \in 1..n : (\E k \in 1..m : s[k] = i) <=> i \in S
    BY DEF IsListing
  <2>2. QED
    BY <2>1
<1>6. [k \in 1..m |-> g[s[k]]] = [k \in 1..m |-> f[s[k]]]
  <2>1. ASSUME NEW k \in 1..m PROVE g[s[k]] = f[s[k]]
    <3>1. s[k] \in S /\ s[k] \in 1..n
      BY DEF IsListing
    <3>2. QED
      BY <3>1
  <2> HIDE DEF g, m
  <2>2. QED
    BY <2>1
<1>7. Total([i \in 1..n |-> IF \E k \in 1..m : s[k] = i THEN g[i] ELSE 0], n)
        = Total([k \in 1..m |-> g[s[k]]], m)
  <2> HIDE DEF g, m
  <2>1. QED
    BY <1>1, <1>2, <1>3, <1>4, TotalReindex, ZenonT(40)
<1>8. QED
  BY <1>5, <1>6, <1>7

LEMMA TakenByAll ==
  ASSUME NEW b, WellFormedBatch(b), NEW S, NEW s, IsListing(s, S, Len(b))
  PROVE  TakenBy(b, s, Len(s)) = QtyOf(b, S)
<1> DEFINE n == Len(b)
           f == [i \in 1..n |-> b[i].qty]
<1>1. n \in Nat /\ S \in SUBSET (1..n)
  BY DEF WellFormedBatch, IsListing
<1>2. \A i \in S : f[i] \in Int
  BY <1>1, WordWidth DEF WellFormedBatch, WellFormedOrder, Price
<1>3. Total([i \in 1..n |-> IF i \in S THEN f[i] ELSE 0], n)
        = Total([k \in 1..Len(s) |-> f[s[k]]], Len(s))
  <2> HIDE DEF f
  <2>1. n \in Nat
    BY <1>1
  <2> HIDE DEF n
  <2>2. IsListing(s, S, n)
    BY DEF n
  <2>3. QED
    BY <1>2, <2>1, <2>2, ListingTotal
<1>4. [i \in 1..n |-> IF i \in S THEN f[i] ELSE 0]
        = [i \in 1..n |-> IF i \in S THEN b[i].qty ELSE 0]
  OBVIOUS
<1>5. [k \in 1..Len(s) |-> f[s[k]]] = [k \in 1..Len(s) |-> b[s[k]].qty]
  BY DEF IsListing
<1>6. QED
  BY <1>3, <1>4, <1>5 DEF TakenBy, QtyOf

\* The first k sorted orders take the target or all they ask for.
LEMMA GreedyPrefix ==
  ASSUME NEW b, WellFormedBatch(b), NEW S, NEW s, IsListing(s, S, Len(b)),
         NEW t \in Nat
  PROVE  /\ \A k \in 1..Len(s) : ItmGreedyFill(b, s, t)[s[k]] \in Nat
         /\ Total([k \in 1..Len(s) |-> ItmGreedyFill(b, s, t)[s[k]]], Len(s))
              = Smaller(t, TakenBy(b, s, Len(s)))
<1> DEFINE m == Len(s)
           T(k) == TakenBy(b, s, k)
           q(k) == b[s[k]].qty
           h == [k \in 1..m |-> ItmGreedyFill(b, s, t)[s[k]]]
           W == {k \in Nat : k <= m => Total(h, k) = Smaller(t, T(k))}
<1>1. m \in Nat
  BY DEF IsListing
<1>2. /\ \A k \in 0..m : T(k) \in Nat
      /\ \A k \in 1..m : T(k) = T(k - 1) + q(k) /\ q(k) \in Nat
      /\ T(0) = 0
  BY TakenSteps
<1>3. \A k \in 1..m : h[k] = Smaller(q(k), SaturatingSub(t, T(k - 1)))
  BY GreedyFillAt
<1> HIDE DEF h, T, q
<1>4. ASSUME NEW k \in 1..m PROVE h[k] \in Nat
  <2>1. k - 1 \in 0..m
    BY <1>1
  <2>2. q(k) \in Nat /\ T(k - 1) \in Nat
    BY <1>2, <2>1
  <2>3. QED
    BY <1>3, <2>2 DEF Smaller, SaturatingSub
<1>5. 0 \in W
  BY <1>2, TotalZero DEF Smaller
<1>6. ASSUME NEW k \in W PROVE k + 1 \in W
  <2>1. SUFFICES ASSUME k + 1 <= m PROVE Total(h, k + 1) = Smaller(t, T(k + 1))
    BY <1>6
  <2>2. k \in Nat /\ k + 1 \in 1..m /\ (k + 1) - 1 = k /\ k \in 0..m /\ k + 1 \in 0..m
    BY <1>1, <1>6, <2>1
  <2>3. Total(h, k + 1) = Total(h, k) + h[k + 1]
    <3>1. \A i \in 1..(k + 1) : h[i] \in Int
      BY <1>1, <1>4, <2>2
    <3>2. QED
      BY <2>2, <3>1, TotalStep
  <2>4. Total(h, k) = Smaller(t, T(k))
    BY <1>6, <2>1, <2>2
  <2>5. h[k + 1] = Smaller(q(k + 1), SaturatingSub(t, T(k)))
    BY <1>3, <2>2
  <2>6. T(k + 1) = T(k) + q(k + 1) /\ q(k + 1) \in Nat /\ T(k) \in Nat
    BY <1>2, <2>2
  <2>7. QED
    BY <2>3, <2>4, <2>5, <2>6 DEF Smaller, SaturatingSub
<1>7. W = Nat
  <2> HIDE DEF W
  <2>1. W \in SUBSET Nat
    BY DEF W
  <2>2. QED
    BY <2>1, <1>5, <1>6, SetInduction
<1>8. Total(h, m) = Smaller(t, T(m))
  <2>1. m \in W
    BY <1>1, <1>7
  <2>2. QED
    BY <1>1, <2>1
<1>9. \A k \in 1..m : ItmGreedyFill(b, s, t)[s[k]] \in Nat
  BY <1>4 DEF h
<1>10. QED
  BY <1>8, <1>9 DEF h, T

LEMMA GreedyMeetsTarget ==
  ASSUME NEW b, WellFormedBatch(b), NEW S, NEW s, IsListing(s, S, Len(b)),
         NEW t \in Nat, t <= QtyOf(b, S)
  PROVE  /\ \A i \in S : ItmGreedyFill(b, s, t)[i] \in Nat
         /\ Total([i \in 1..Len(b) |-> IF i \in S THEN ItmGreedyFill(b, s, t)[i] ELSE 0],
                  Len(b)) = t
<1> DEFINE n == Len(b)
           fill == ItmGreedyFill(b, s, t)
<1>1. n \in Nat
  BY DEF WellFormedBatch
<1>2. \A k \in 1..Len(s) : fill[s[k]] \in Nat
  BY GreedyPrefix
<1>3. \A i \in S : fill[i] \in Nat
  <2> HIDE DEF fill
  <2>1. QED
    BY <1>2 DEF IsListing
<1>4. Total([i \in 1..n |-> IF i \in S THEN fill[i] ELSE 0], n)
        = Total([k \in 1..Len(s) |-> fill[s[k]]], Len(s))
  <2> HIDE DEF fill
  <2>1. \A i \in S : fill[i] \in Int
    BY <1>3
  <2>2. QED
    BY <1>1, <2>1, ListingTotal
<1>5. Total([k \in 1..Len(s) |-> fill[s[k]]], Len(s)) = Smaller(t, QtyOf(b, S))
  BY GreedyPrefix, TakenByAll
<1>6. Smaller(t, QtyOf(b, S)) = t
  BY QtyOfNat DEF Smaller
<1>7. QED
  BY <1>3, <1>4, <1>5, <1>6

----------------------------------------------------------------------------
(***************************************************************************)
(* One side                                                                *)
(***************************************************************************)
Itm(b, p, side) == Classified(b, p, side, "InTheMoney")
Atm(b, p, side) == Classified(b, p, side, "AtTheMoney")

\* classify_order sorts by how the limit compares with the clearing price.
LEMMA Classes ==
  ASSUME NEW b, WellFormedBatch(b), NEW p \in Price, NEW i \in 1..Len(b)
  PROVE  /\ i \in Itm(b, p, "Buy") <=> b[i].side = "Buy" /\ b[i].price > p
         /\ i \in Itm(b, p, "Sell") <=> b[i].side = "Sell" /\ b[i].price < p
         /\ \A side : i \in Atm(b, p, side) <=> b[i].side = side /\ b[i].price = p
         /\ \A side : i \in Itm(b, p, side) => b[i].side = side /\ i \notin Atm(b, p, side)
         /\ b[i].price \in Nat /\ p \in Nat /\ b[i].side \in Sides
         /\ b[i].qty \in Nat /\ b[i].qty > 0
<1>1. b[i].price \in Nat /\ p \in Nat /\ b[i].side \in Sides
  BY WordWidth DEF WellFormedBatch, WellFormedOrder, Price
<1>2. b[i].qty \in Nat /\ b[i].qty > 0
  BY WordWidth DEF WellFormedBatch, WellFormedOrder, Price
<1>3. i \in Itm(b, p, "Buy") <=> b[i].side = "Buy" /\ b[i].price > p
  BY <1>1 DEF Itm, Classified, ClassifyOrder
<1>4. i \in Itm(b, p, "Sell") <=> b[i].side = "Sell" /\ b[i].price < p
  BY <1>1 DEF Itm, Classified, ClassifyOrder
<1>5. \A side : i \in Atm(b, p, side) <=> b[i].side = side /\ b[i].price = p
  BY <1>1 DEF Atm, Classified, ClassifyOrder
<1>6. \A side : i \in Itm(b, p, side) => b[i].side = side /\ i \notin Atm(b, p, side)
  BY <1>1 DEF Itm, Atm, Classified, ClassifyOrder
<1>7. QED
  BY <1>1, <1>2, <1>3, <1>4, <1>5, <1>6

LEMMA ClassesAreIndices ==
  ASSUME NEW b, NEW p, NEW side
  PROVE  Itm(b, p, side) \in SUBSET (1..Len(b)) /\ Atm(b, p, side) \in SUBSET (1..Len(b))
  BY DEF Itm, Atm, Classified

\* The curve of a side at the clearing price is what its orders inside and at
\* the money ask for.
CurveAt(b, side, p) == IF side = "Buy" THEN DemandAt(b, p) ELSE SupplyAt(b, p)

LEMMA CurveByClass ==
  ASSUME NEW b, WellFormedBatch(b), NEW p \in Price, NEW side \in Sides
  PROVE  CurveAt(b, side, p) = QtyOf(b, Itm(b, p, side)) + QtyOf(b, Atm(b, p, side))
<1> DEFINE n == Len(b)
           C(i) == IF side = "Buy" THEN DemandOf(b, i, p) ELSE SupplyOf(b, i, p)
           c == [i \in 1..n |-> C(i)]
           f == [i \in 1..n |-> IF i \in Itm(b, p, side) THEN b[i].qty ELSE 0]
           g == [i \in 1..n |-> IF i \in Atm(b, p, side) THEN b[i].qty ELSE 0]
<1>1. n \in Nat
  BY DEF WellFormedBatch
<1>2. CurveAt(b, side, p) = Total(c, n)
  <2>1. CASE side = "Buy"
    <3>1. c = [i \in 1..n |-> DemandOf(b, i, p)]
      BY <2>1
    <3> HIDE DEF c
    <3>2. QED
      BY <2>1, <3>1 DEF CurveAt, DemandAt
  <2>2. CASE side # "Buy"
    <3>1. c = [i \in 1..n |-> SupplyOf(b, i, p)]
      BY <2>2
    <3> HIDE DEF c
    <3>2. QED
      BY <2>2, <3>1 DEF CurveAt, SupplyAt
  <2>3. QED
    BY <2>1, <2>2
<1>3. ASSUME NEW i \in 1..n
      PROVE  f[i] \in Int /\ g[i] \in Int /\ c[i] = f[i] + g[i]
  <2>1. /\ i \in Itm(b, p, "Buy") <=> b[i].side = "Buy" /\ b[i].price > p
        /\ i \in Itm(b, p, "Sell") <=> b[i].side = "Sell" /\ b[i].price < p
        /\ i \in Atm(b, p, side) <=> b[i].side = side /\ b[i].price = p
        /\ b[i].price \in Nat /\ p \in Nat /\ b[i].qty \in Nat
    BY Classes
  <2>2. side = "Buy" \/ side = "Sell"
    BY DEF Sides
  <2>3. f[i] \in Int /\ g[i] \in Int
    BY <2>1
  <2>4. C(i) = (IF i \in Itm(b, p, side) THEN b[i].qty ELSE 0)
                 + (IF i \in Atm(b, p, side) THEN b[i].qty ELSE 0)
    <3>1. CASE side = "Buy"
      BY <2>1, <3>1 DEF DemandOf
    <3>2. CASE side = "Sell"
      BY <2>1, <3>2 DEF SupplyOf
    <3>3. QED
      BY <2>2, <3>1, <3>2
  <2>5. QED
    BY <2>3, <2>4
<1>4. QtyOf(b, Itm(b, p, side)) = Total(f, n) /\ QtyOf(b, Atm(b, p, side)) = Total(g, n)
  BY DEF QtyOf
<1>5. Total(c, n) = Total(f, n) + Total(g, n)
  <2> HIDE DEF c, f, g, n
  <2>1. QED
    BY <1>1, <1>3, TotalSum
<1>6. QED
  BY <1>2, <1>4, <1>5

\* allocate_side, by the three ways it ends: the orders inside the money use
\* the volume up; they and the orders at the money are filled whole; the
\* orders at the money share what is left.
LEMMA AllocateSideIs ==
  ASSUME NEW b, WellFormedBatch(b), NEW p, NEW side, NEW s, NEW v \in Nat
  PROVE  LET a == AllocateSide(b, p, v, side, s)
             itm == Itm(b, p, side)
             atm == Atm(b, p, side)
             left == v - QtyOf(b, itm)
         IN  \A i \in 1..Len(b) :
               /\ i \notin itm /\ i \notin atm => a[i] = 0
               /\ v <= QtyOf(b, itm) =>
                    /\ i \in itm => a[i] = ItmGreedyFill(b, s, v)[i]
                    /\ i \notin itm => a[i] = 0
               /\ v > QtyOf(b, itm) =>
                    /\ i \in itm => a[i] = b[i].qty
                    /\ i \notin itm /\ i \in atm =>
                         a[i] = IF left >= QtyOf(b, atm) THEN b[i].qty
                                ELSE ProRataFill(b, atm, left)[i]
<1> DEFINE itm == Itm(b, p, side)
           atm == Atm(b, p, side)
           q == QtyOf(b, itm)
           r == SaturatingSub(v, q)
           big == ItmGreedyFill(b, s, v)
           share == ProRataFill(b, atm, r)
           a == AllocateSide(b, p, v, side, s)
<1>1. q \in Nat
  BY QtyOfNat
<1>2. a = [i \in 1..Len(b) |->
             IF i \in itm
             THEN IF v <= q THEN big[i] ELSE b[i].qty
             ELSE IF i \in atm /\ r > 0
             THEN IF r >= QtyOf(b, atm) THEN b[i].qty ELSE share[i]
             ELSE 0]
  BY DEF AllocateSide, Itm, Atm
<1>3. /\ v <= q => r = 0
      /\ v > q => r = v - q /\ r > 0 /\ ~(v <= q)
  <2> HIDE DEF q
  <2>1. QED
    BY <1>1 DEF SaturatingSub
<1>4. v > q => share = ProRataFill(b, atm, v - q)
  <2> HIDE DEF q, atm
  <2>1. QED
    BY <1>3
<1> HIDE DEF itm, atm, q, r, big, share, a
<1>5. ASSUME NEW i \in 1..Len(b)
      PROVE  /\ i \notin itm /\ i \notin atm => a[i] = 0
             /\ v <= q =>
                  /\ i \in itm => a[i] = big[i]
                  /\ i \notin itm => a[i] = 0
             /\ v > q =>
                  /\ i \in itm => a[i] = b[i].qty
                  /\ i \notin itm /\ i \in atm =>
                       a[i] = IF v - q >= QtyOf(b, atm) THEN b[i].qty
                              ELSE ProRataFill(b, atm, v - q)[i]
  <2>1. a[i] = IF i \in itm
               THEN IF v <= q THEN big[i] ELSE b[i].qty
               ELSE IF i \in atm /\ r > 0
               THEN IF r >= QtyOf(b, atm) THEN b[i].qty ELSE share[i]
               ELSE 0
    BY <1>2
  <2>2. CASE v <= q
    BY <1>1, <1>3, <2>1, <2>2
  <2>3. CASE v > q
    BY <1>1, <1>3, <1>4, <2>1, <2>3
  <2>4. QED
    BY <1>1, <2>2, <2>3
<1>6. QED
  BY <1>5 DEF itm, atm, q, big, a

\* What allocate_batch gives allocate_side: the volume is no more than the
\* side's curve, and the sort is a sort of its orders inside the money.
SideInputs(b, p, side, s, v) ==
  /\ WellFormedBatch(b) /\ DistinctIds(b) /\ p \in Price /\ side \in Sides
  /\ v \in Nat /\ v <= CurveAt(b, side, p)
  /\ s \in ItmSorts(b, Itm(b, p, side))

LEMMA SideQuantities ==
  ASSUME NEW b, NEW p, NEW side, NEW s, NEW v, SideInputs(b, p, side, s, v)
  PROVE  /\ QtyOf(b, Itm(b, p, side)) \in Nat /\ QtyOf(b, Atm(b, p, side)) \in Nat
         /\ v <= QtyOf(b, Itm(b, p, side)) + QtyOf(b, Atm(b, p, side))
         /\ IsListing(s, Itm(b, p, side), Len(b))
         /\ \A j, k \in 1..Len(s) : j < k => ~ItmAhead(b, s[k], s[j])
         /\ Len(b) \in Nat
  BY QtyOfNat, CurveByClass, SortsAreListings, ClassesAreIndices
     DEF SideInputs, WellFormedBatch

\* Nobody gets more than they asked for.
LEMMA SideBounds ==
  ASSUME NEW b, NEW p, NEW side, NEW s, NEW v, SideInputs(b, p, side, s, v),
         NEW i \in 1..Len(b)
  PROVE  /\ AllocateSide(b, p, v, side, s)[i] \in Nat
         /\ AllocateSide(b, p, v, side, s)[i] <= b[i].qty
<1> DEFINE a == AllocateSide(b, p, v, side, s)
           itm == Itm(b, p, side)
           atm == Atm(b, p, side)
           q == QtyOf(b, itm)
           left == v - q
<1>1. /\ WellFormedBatch(b) /\ DistinctIds(b) /\ v \in Nat /\ p \in Price
      /\ atm \in SUBSET (1..Len(b)) /\ q \in Nat /\ QtyOf(b, atm) \in Nat
      /\ IsListing(s, itm, Len(b))
  BY SideQuantities, ClassesAreIndices DEF SideInputs
<1>2. b[i].qty \in Nat
  BY <1>1, Classes
<1>3. /\ i \notin itm /\ i \notin atm => a[i] = 0
      /\ v <= q =>
           /\ i \in itm => a[i] = ItmGreedyFill(b, s, v)[i]
           /\ i \notin itm => a[i] = 0
      /\ v > q =>
           /\ i \in itm => a[i] = b[i].qty
           /\ i \notin itm /\ i \in atm =>
                a[i] = IF left >= QtyOf(b, atm) THEN b[i].qty
                       ELSE ProRataFill(b, atm, left)[i]
  BY <1>1, AllocateSideIs
<1> HIDE DEF a, itm, atm, q, left
<1>4. CASE v <= q /\ i \in itm
  <2>1. PICK k \in 1..Len(s) : s[k] = i
    BY <1>1, <1>4 DEF IsListing
  <2>2. a[i] = Smaller(b[i].qty, SaturatingSub(v, TakenBy(b, s, k - 1)))
    BY <1>1, <1>3, <1>4, <2>1, GreedyFillAt
  <2>3. TakenBy(b, s, k - 1) \in Nat
    <3>1. Len(s) \in Nat
      BY <1>1 DEF IsListing
    <3>2. k - 1 \in 0..Len(s)
      BY <3>1
    <3>3. QED
      BY <1>1, <3>2, TakenSteps
  <2>4. QED
    BY <1>1, <1>2, <2>2, <2>3 DEF Smaller, SaturatingSub, a
<1>5. CASE v > q /\ i \notin itm /\ i \in atm
  <2>1. left \in Nat
    BY <1>1, <1>5 DEF left
  <2>2. CASE left >= QtyOf(b, atm)
    BY <1>2, <1>3, <1>5, <2>2 DEF a
  <2>3. CASE left < QtyOf(b, atm)
    <3>1. a[i] = ProRataFill(b, atm, left)[i]
      BY <1>1, <1>3, <1>5, <2>1, <2>3
    <3>2. QED
      BY <1>1, <1>5, <2>1, <2>3, <3>1, ProRataFillIs DEF a
  <2>4. QED
    BY <1>1, <2>1, <2>2, <2>3
<1>6. CASE ~(v <= q /\ i \in itm) /\ ~(v > q /\ i \notin itm /\ i \in atm)
  BY <1>1, <1>2, <1>3, <1>6 DEF a
<1>7. QED
  BY <1>4, <1>5, <1>6

\* A side is allocated the volume, no unit more or less.
LEMMA SideMeetsVolume ==
  ASSUME NEW b, NEW p, NEW side, NEW s, NEW v, SideInputs(b, p, side, s, v)
  PROVE  Total([i \in 1..Len(b) |-> IF b[i].side = side
                                    THEN AllocateSide(b, p, v, side, s)[i] ELSE 0],
               Len(b)) = v
<1> DEFINE n == Len(b)
           a == AllocateSide(b, p, v, side, s)
           itm == Itm(b, p, side)
           atm == Atm(b, p, side)
           q == QtyOf(b, itm)
           r == QtyOf(b, atm)
           left == v - q
           h == [i \in 1..n |-> IF b[i].side = side THEN a[i] ELSE 0]
           big == [i \in 1..n |-> IF i \in itm THEN ItmGreedyFill(b, s, v)[i] ELSE 0]
           F == [i \in 1..n |-> IF i \in itm THEN b[i].qty ELSE 0]
           G == [i \in 1..n |-> IF i \in atm THEN b[i].qty ELSE 0]
           H == [i \in 1..n |-> IF i \in atm THEN ProRataFill(b, atm, left)[i] ELSE 0]
<1>1. /\ WellFormedBatch(b) /\ DistinctIds(b) /\ v \in Nat /\ p \in Price
      /\ atm \in SUBSET (1..n) /\ q \in Nat /\ r \in Nat
      /\ IsListing(s, itm, n) /\ v <= q + r /\ n \in Nat
  BY SideQuantities, ClassesAreIndices DEF SideInputs
<1>2. ASSUME NEW i \in 1..n
      PROVE  /\ i \notin itm /\ i \notin atm => a[i] = 0
             /\ v <= q =>
                  /\ i \in itm => a[i] = ItmGreedyFill(b, s, v)[i]
                  /\ i \notin itm => a[i] = 0
             /\ v > q =>
                  /\ i \in itm => a[i] = b[i].qty
                  /\ i \notin itm /\ i \in atm =>
                       a[i] = IF left >= r THEN b[i].qty
                              ELSE ProRataFill(b, atm, left)[i]
  BY <1>1, AllocateSideIs
<1>3. \A i \in 1..n : /\ i \in itm => b[i].side = side /\ i \notin atm
                      /\ i \in atm => b[i].side = side
                      /\ b[i].qty \in Nat
  BY <1>1, Classes
<1>4. \A i \in 1..n : a[i] \in Nat
  BY SideBounds
<1>5. Total(F, n) = q /\ Total(G, n) = r
  BY DEF QtyOf
<1>6. \A i \in 1..n : F[i] \in Int /\ G[i] \in Int
  <2> HIDE DEF itm, atm
  <2>1. QED
    BY <1>3
<1>7. CASE v <= q
  <2>1. Total(big, n) = v
    <3> HIDE DEF itm
    <3>1. QED
      BY <1>1, <1>7, GreedyMeetsTarget DEF q
  <2>2. h = big
    <3> HIDE DEF a, itm, q, atm, r, left
    <3>1. ASSUME NEW i \in 1..n PROVE h[i] = big[i]
      BY <1>2, <1>3, <1>7
    <3>2. QED
      BY <3>1
  <2>3. QED
    BY <2>1, <2>2
<1>8. CASE v > q /\ left >= r
  <2>1. left = r
    <3> HIDE DEF q, r
    <3>1. QED
      BY <1>1, <1>8
  <2>2. ASSUME NEW i \in 1..n PROVE h[i] = F[i] + G[i]
    <3> HIDE DEF a, itm, q, atm, r, left
    <3>1. b[i].qty \in Nat
      BY <1>3
    <3>2. QED
      BY <1>2, <1>3, <1>8, <3>1
  <2>3. Total(h, n) = Total(F, n) + Total(G, n)
    <3> HIDE DEF h, F, G, n
    <3>1. QED
      BY <1>1, <1>6, <2>2, TotalSum
  <2>4. Total(h, n) = v
    <3> HIDE DEF h, F, G, q, r
    <3>1. QED
      BY <1>1, <1>5, <2>1, <2>3
  <2>5. QED
    BY <2>4
<1>9. CASE v > q /\ left < r
  <2>1. left \in Nat /\ ~(left >= r)
    <3> HIDE DEF q, r
    <3>1. QED
      BY <1>1, <1>9
  <2>2. Total(H, n) = left
    <3> HIDE DEF atm, left
    <3>1. QED
      BY <1>1, <1>9, <2>1, ProRataMeetsVolume DEF r
  <2>3. \A i \in 1..n : H[i] \in Int
    <3>1. ASSUME NEW i \in atm PROVE ProRataFill(b, atm, left)[i] \in Nat
      <4> HIDE DEF atm, left
      <4>1. QED
        BY <1>1, <1>9, <2>1, ProRataFillIs DEF r
    <3> HIDE DEF atm, left
    <3>2. QED
      BY <3>1
  <2>4. ASSUME NEW i \in 1..n PROVE h[i] = F[i] + H[i]
    <3> HIDE DEF a, itm, q, atm, r, left
    <3>1. b[i].qty \in Nat /\ H[i] \in Int
      BY <1>3, <2>3
    <3>2. CASE i \in itm
      BY <1>2, <1>3, <1>9, <3>1, <3>2
    <3>3. CASE i \notin itm /\ i \in atm
      <4>1. h[i] = ProRataFill(b, atm, left)[i] /\ F[i] = 0
        BY <1>2, <1>3, <1>9, <2>1, <3>3
      <4>2. H[i] = ProRataFill(b, atm, left)[i]
        BY <3>3
      <4>3. QED
        BY <3>1, <4>1, <4>2
    <3>4. CASE i \notin itm /\ i \notin atm
      BY <1>2, <3>4
    <3>5. QED
      BY <3>2, <3>3, <3>4
  <2>5. Total(h, n) = Total(F, n) + Total(H, n)
    <3> HIDE DEF h, F, H, n
    <3>1. \A i \in 1..n : F[i] \in Int /\ H[i] \in Int /\ h[i] = F[i] + H[i]
      BY <1>6, <2>3, <2>4
    <3>2. QED
      BY <1>1, <3>1, TotalSum
  <2>6. Total(h, n) = v
    <3> HIDE DEF h, F, H, q, r
    <3>1. QED
      BY <1>1, <1>5, <2>2, <2>5
  <2>7. QED
    BY <2>6
<1>10. QED
  <2>1. v <= q \/ (v > q /\ left >= r) \/ (v > q /\ left < r)
    <3> HIDE DEF q, r
    <3>1. QED
      BY <1>1
  <2>2. QED
    BY <1>7, <1>8, <1>9, <2>1

\* A better limit of the same side.
BetterPrice(b, i, j) ==
  \/ b[i].side = "Buy" /\ b[i].price > b[j].price
  \/ b[i].side = "Sell" /\ b[i].price < b[j].price

\* Whoever is ahead of a filled order, in price or inside the money in time,
\* is filled whole.
LEMMA SidePriority ==
  ASSUME NEW b, NEW p, NEW side, NEW s, NEW v, SideInputs(b, p, side, s, v),
         NEW i \in 1..Len(b), NEW j \in 1..Len(b),
         b[i].side = side, b[j].side = side,
         AllocateSide(b, p, v, side, s)[j] > 0,
         \/ BetterPrice(b, i, j)
         \/ b[i].price = b[j].price /\ b[i].price # p /\ b[i].seq < b[j].seq
  PROVE  AllocateSide(b, p, v, side, s)[i] = b[i].qty
<1> DEFINE a == AllocateSide(b, p, v, side, s)
           itm == Itm(b, p, side)
           atm == Atm(b, p, side)
           q == QtyOf(b, itm)
           T(k) == TakenBy(b, s, k)
<1>1. /\ WellFormedBatch(b) /\ v \in Nat /\ p \in Price /\ q \in Nat
      /\ IsListing(s, itm, Len(b)) /\ (side = "Buy" \/ side = "Sell")
  BY SideQuantities DEF SideInputs, Sides
<1>2. \A x \in 1..Len(b) :
        /\ x \notin itm /\ x \notin atm => a[x] = 0
        /\ v <= q => /\ x \in itm => a[x] = ItmGreedyFill(b, s, v)[x]
                     /\ x \notin itm => a[x] = 0
        /\ v > q => (x \in itm => a[x] = b[x].qty)
  BY <1>1, AllocateSideIs
<1>3. /\ b[i].seq \in Nat /\ b[j].seq \in Nat
      /\ b[i].price \in Nat /\ b[j].price \in Nat /\ p \in Nat
      /\ b[i].qty \in Nat /\ b[j].qty \in Nat
  BY <1>1, Classes DEF WellFormedBatch, WellFormedOrder
<1>4. j \in itm \/ j \in atm
  BY <1>2
<1>5. i \in itm
  <2>1. /\ i \in Itm(b, p, "Buy") <=> b[i].side = "Buy" /\ b[i].price > p
        /\ i \in Itm(b, p, "Sell") <=> b[i].side = "Sell" /\ b[i].price < p
    BY <1>1, Classes
  <2>2. /\ j \in Itm(b, p, "Buy") <=> b[j].side = "Buy" /\ b[j].price > p
        /\ j \in Itm(b, p, "Sell") <=> b[j].side = "Sell" /\ b[j].price < p
        /\ j \in Atm(b, p, side) <=> b[j].side = side /\ b[j].price = p
    BY <1>1, Classes
  <2>3. CASE side = "Buy"
    BY <1>3, <1>4, <2>1, <2>2, <2>3 DEF BetterPrice
  <2>4. CASE side = "Sell"
    BY <1>3, <1>4, <2>1, <2>2, <2>4 DEF BetterPrice
  <2>5. QED
    BY <1>1, <2>3, <2>4
<1>6. CASE v > q
  BY <1>2, <1>5, <1>6
<1>7. CASE v <= q
  <2>1. j \in itm /\ a[j] = ItmGreedyFill(b, s, v)[j] /\ a[i] = ItmGreedyFill(b, s, v)[i]
    BY <1>2, <1>5, <1>7
  <2>2. PICK k \in 1..Len(s) : s[k] = i
    BY <1>1, <1>5 DEF IsListing
  <2>3. PICK m \in 1..Len(s) : s[m] = j
    BY <1>1, <2>1 DEF IsListing
  <2>4. Len(s) \in Nat /\ k \in Nat /\ m \in Nat
    BY <1>1 DEF IsListing
  <2>5. ItmAhead(b, i, j)
    BY <1>1, <1>3, SMTT(20) DEF ItmAhead, BetterPrice
  <2>6. k < m
    <3>1. SUFFICES ASSUME m <= k PROVE FALSE
      BY <2>4
    <3>2. CASE m < k
      BY <2>2, <2>3, <2>5, <3>2, SideQuantities
    <3>3. CASE m = k
      BY <1>3, <2>2, <2>3, <3>3 DEF BetterPrice
    <3>4. QED
      BY <2>4, <3>1, <3>2, <3>3
  <2>7. /\ a[i] = Smaller(b[i].qty, SaturatingSub(v, T(k - 1)))
        /\ a[j] = Smaller(b[j].qty, SaturatingSub(v, T(m - 1)))
    BY <1>1, <2>1, <2>2, <2>3, GreedyFillAt, SMTT(20)
  <2>8. k \in 0..Len(s) /\ m - 1 \in 0..Len(s) /\ k - 1 \in 0..Len(s) /\ k <= m - 1
    BY <2>4, <2>6
  <2>9. /\ T(k) = T(k - 1) + b[i].qty /\ T(k) <= T(m - 1)
        /\ T(k) \in Nat /\ T(m - 1) \in Nat /\ T(k - 1) \in Nat
    <3>1. /\ \A x \in 0..Len(s) : T(x) \in Nat
          /\ \A x \in 1..Len(s) : T(x) = T(x - 1) + b[s[x]].qty
          /\ \A x, y \in 0..Len(s) : x <= y => T(x) <= T(y)
      BY <1>1, TakenSteps
    <3> HIDE DEF T
    <3>2. T(k) = T(k - 1) + b[i].qty
      BY <2>2, <3>1
    <3>3. QED
      BY <2>8, <3>1, <3>2
  <2> DEFINE before == T(k - 1)
             after == T(k)
             late == T(m - 1)
             qi == b[i].qty
             qj == b[j].qty
             ai == a[i]
             aj == a[j]
  <2>10. aj > 0
    OBVIOUS
  <2> HIDE DEF before, after, late, qi, qj, ai, aj
  <2>11. /\ ai = Smaller(qi, SaturatingSub(v, before))
         /\ aj = Smaller(qj, SaturatingSub(v, late))
         /\ after = before + qi /\ after <= late
         /\ after \in Nat /\ before \in Nat /\ late \in Nat
         /\ qi \in Nat /\ qj \in Nat
    BY <1>3, <2>7, <2>9 DEF before, after, late, qi, qj, ai, aj
  <2>12. late < v
    BY <1>1, <2>10, <2>11, SMTT(30) DEF Smaller, SaturatingSub
  <2>13. ai = qi
    BY <1>1, <2>11, <2>12 DEF Smaller, SaturatingSub
  <2>14. QED
    BY <2>13 DEF ai, qi
<1>8. QED
  BY <1>1, <1>6, <1>7

\* At the money: quotas rounded down or up, size and time respected.
LEMMA SideFairness ==
  ASSUME NEW b, NEW p, NEW side, NEW s, NEW v, SideInputs(b, p, side, s, v),
         NEW got, NEW i \in Atm(b, p, side),
         got = Total([x \in 1..Len(b) |-> IF x \in Atm(b, p, side)
                                          THEN AllocateSide(b, p, v, side, s)[x]
                                          ELSE 0], Len(b))
  PROVE  LET a == AllocateSide(b, p, v, side, s)
             all == QtyOf(b, Atm(b, p, side))
         IN  /\ a[i] * all - b[i].qty * got \in (1 - all)..(all - 1)
             /\ \A j \in Atm(b, p, side) :
                  \/ b[i].qty > b[j].qty
                  \/ b[i].qty = b[j].qty /\ b[i].seq < b[j].seq
                  => a[i] >= a[j]
<1> DEFINE n == Len(b)
           a == AllocateSide(b, p, v, side, s)
           itm == Itm(b, p, side)
           atm == Atm(b, p, side)
           q == QtyOf(b, itm)
           all == QtyOf(b, atm)
           left == v - q
           w == [x \in 1..n |-> IF x \in atm THEN a[x] ELSE 0]
<1>1. /\ WellFormedBatch(b) /\ DistinctIds(b) /\ v \in Nat /\ p \in Price
      /\ atm \in SUBSET (1..n) /\ q \in Nat /\ all \in Nat /\ n \in Nat
      /\ v <= q + all
  BY SideQuantities, ClassesAreIndices DEF SideInputs
<1>2. \A x \in atm : x \in 1..n /\ x \notin itm /\ b[x].qty \in Nat /\ b[x].qty > 0
  BY <1>1, Classes
<1>3. \A x \in atm : /\ v <= q => a[x] = 0
                     /\ v > q => a[x] = IF left >= all THEN b[x].qty
                                        ELSE ProRataFill(b, atm, left)[x]
  BY <1>1, <1>2, AllocateSideIs
<1>4. got = Total(w, n)
  OBVIOUS
<1>5. all >= 1
  <2> DEFINE f == [x \in 1..n |-> IF x \in atm THEN b[x].qty ELSE 0]
             g == [x \in 1..n |-> IF x = i THEN b[x].qty ELSE 0]
             z == [x \in 1..n |-> 0]
  <2>1. /\ \A x \in 1..n : g[x] \in Int /\ f[x] \in Int /\ g[x] <= f[x]
        /\ \A x \in 1..n : z[x] \in Int
        /\ \A x \in 1..n : x # i => g[x] = z[x]
        /\ \A x \in 1..n : z[x] = 0
        /\ g[i] = b[i].qty /\ i \in 1..n
    BY <1>2
  <2> HIDE DEF f, g, z, n
  <2>2. Total(g, n) <= Total(f, n)
    <3>1. \A x \in 1..n : g[x] \in Int /\ f[x] \in Int /\ g[x] <= f[x]
      BY <2>1
    <3>2. n \in Nat
      BY <1>1
    <3>3. QED
      BY ONLY <3>1, <3>2, TotalMonotone
  <2>3. \A x \in 1..n : z[x] \in Int /\ g[x] \in Int
    BY <2>1
  <2>4. \A x \in 1..n : x # i => g[x] = z[x]
    BY <2>1
  <2>5. i \in 1..n
    BY <2>1
  <2>6. Total(g, n) = Total(z, n) + (g[i] - z[i])
    <3>1. n \in Nat
      BY <1>1
    <3>2. QED
      BY ONLY <3>1, <2>3, <2>4, <2>5, TotalUpdate
  <2>7. Total(z, n) = 0 /\ z[i] = 0
    BY <1>1, <2>1, TotalOfZeros
  <2>8. Total(f, n) = all
    BY DEF QtyOf, f, n
  <2>9. b[i].qty \in Nat /\ b[i].qty > 0
    BY <1>2
  <2>10. QED
    BY <1>1, <2>1, <2>2, <2>6, <2>7, <2>8, <2>9
<1> HIDE DEF a, itm, atm, q, all
<1>6. ASSUME NEW qty \in Nat PROVE qty * all - qty * all = 0 /\ 0 * all - qty * 0 = 0
  BY <1>1
<1>7. CASE v <= q
  <2>1. \A x \in atm : a[x] = 0
    BY <1>3, <1>7
  <2>2. got = 0
    <3>1. \A x \in 1..n : w[x] = 0
      BY <2>1
    <3> HIDE DEF w, n
    <3>2. QED
      BY <1>1, <1>4, <3>1, TotalOfZeros
  <2>3. a[i] * all - b[i].qty * got = 0
    BY <1>2, <1>6, <2>1, <2>2 DEF atm
  <2>4. 0 \in (1 - all)..(all - 1)
    BY <1>1, <1>5
  <2>5. QED
    BY <2>1, <2>3, <2>4 DEF a, all, atm
<1>8. CASE v > q /\ left >= all
  <2>1. \A x \in atm : a[x] = b[x].qty
    BY <1>3, <1>8
  <2>2. got = all
    <3>1. w = [x \in 1..n |-> IF x \in atm THEN b[x].qty ELSE 0]
      BY <2>1
    <3>2. QED
      BY <1>4, <3>1 DEF all, QtyOf
  <2>3. a[i] * all - b[i].qty * got = 0
    BY <1>2, <1>6, <2>1, <2>2 DEF atm
  <2>4. 0 \in (1 - all)..(all - 1)
    BY <1>1, <1>5
  <2>5. \A j \in atm : \/ b[i].qty > b[j].qty
                       \/ b[i].qty = b[j].qty /\ b[i].seq < b[j].seq
                       => a[i] >= a[j]
    BY <1>2, <2>1 DEF atm
  <2>6. QED
    BY <2>3, <2>4, <2>5 DEF a, all, atm
<1>9. CASE v > q /\ left < all
  <2>1. left \in Nat /\ left > 0 /\ ~(left >= all)
    BY <1>1, <1>9
  <2>2. \A x \in atm : a[x] = ProRataFill(b, atm, left)[x]
    BY <1>3, <1>9, <2>1
  <2> HIDE DEF left
  <2>3. got = left
    <3>1. w = [x \in 1..n |-> IF x \in atm THEN ProRataFill(b, atm, left)[x] ELSE 0]
      BY <2>2
    <3>2. QED
      BY <1>1, <1>4, <1>9, <2>1, <3>1, ProRataMeetsVolume DEF all
  <2>4. a[i] * all - b[i].qty * got \in (1 - all)..(all - 1)
    BY <1>1, <1>9, <2>1, <2>2, <2>3, ProRataRoundsQuota DEF all, atm
  <2>5. ASSUME NEW j \in atm,
               \/ b[i].qty > b[j].qty
               \/ b[i].qty = b[j].qty /\ b[i].seq < b[j].seq
        PROVE  a[i] >= a[j]
    <3>1. i \in atm
      BY DEF atm
    <3>2. ProRataFill(b, atm, left)[i] >= ProRataFill(b, atm, left)[j]
      BY <1>1, <1>9, <2>1, <2>5, <3>1, ProRataKeepsOrder DEF all
    <3>3. QED
      BY <2>2, <3>1, <3>2
  <2>6. QED
    BY <2>4, <2>5 DEF a, all, atm
<1>10. QED
  <2>1. v <= q \/ (v > q /\ left >= all) \/ (v > q /\ left < all)
    BY <1>1
  <2>2. QED
    BY <1>7, <1>8, <1>9, <2>1

----------------------------------------------------------------------------
(***************************************************************************)
(* The inductive invariant of clearing.                                    *)
(***************************************************************************)
Submitted == UNION {Arrivals[k] : k \in 1..MaxOrders}

\* Batch::create lets only well-formed orders of its instrument through.
BatchIsWellFormed ==
  stage \in {"batched", "executed"} =>
    /\ WellFormedBatch(batch)
    /\ \A i \in Orders : batch[i].instrument = inst

\* The result is what execute_batch computes from the batch.
ResultIsTheExecution ==
  stage = "executed" =>
    /\ ~CurvesOverflow(batch)
    /\ sorted \in SortOutcomes(batch, DetermineClearingOutcome(batch))
    /\ result = ExecutionOf(batch, inst, DetermineClearingOutcome(batch), sorted)

ClearingIInv ==
  /\ intake \in Seq(Submitted)
  /\ BatchIsCanonical
  /\ BatchIsWellFormed
  /\ ResultIsTheExecution

----------------------------------------------------------------------------
(***************************************************************************)
(* Batch::create                                                           *)
(***************************************************************************)
\* BatchError reports "ok" only if no order has an error of its own.
LEMMA NoOrderError ==
  ASSUME NEW v, Len(v) \in Nat, NEW x, BatchError(v, x) = "ok",
         NEW i \in 1..Len(v)
  PROVE  OrderError(v, i, x) = "ok"
<1> DEFINE bad == {j \in 1..Len(v) : OrderError(v, j, x) # "ok"}
<1>1. SUFFICES ASSUME OrderError(v, i, x) # "ok" PROVE FALSE
  OBVIOUS
<1>2. bad \in SUBSET (0..Len(v)) /\ bad # {} /\ Len(v) \in Nat
  BY <1>1
<1>3. \E m \in bad : \A j \in bad : m <= j
  <2> HIDE DEF bad
  <2>1. QED
    BY <1>2, Greatest
<1>4. (CHOOSE m \in bad : \A j \in bad : m <= j) \in bad
  <2> HIDE DEF bad
  <2>1. QED
    BY <1>3
<1>5. BatchError(v, x) = OrderError(v, CHOOSE m \in bad : \A j \in bad : m <= j, x)
  BY <1>2 DEF BatchError
<1>6. QED
  BY <1>4, <1>5

LEMMA AcceptedOrders ==
  ASSUME NEW v \in Seq(Submitted), NEW x, BatchError(v, x) = "ok"
  PROVE  /\ \A i \in 1..Len(v) : WellFormedOrder(v[i]) /\ v[i].instrument = x
         /\ \A i, j \in 1..Len(v) : i # j => v[i].id # v[j].id
<1>1. \A i \in 1..Len(v) : OrderError(v, i, x) = "ok"
  <2>1. Len(v) \in Nat
    OBVIOUS
  <2>2. QED
    BY <2>1, NoOrderError
<1>2. ASSUME NEW i \in 1..Len(v) PROVE WellFormedOrder(v[i]) /\ v[i].instrument = x
  <2>1. v[i] \in Submitted
    OBVIOUS
  <2>2. /\ v[i].id \in Nat /\ v[i].seq \in Nat
        /\ v[i].price \in Qty /\ v[i].qty \in Qty
    BY <2>1, ArrivalTypes DEF Submitted
  <2>3. /\ v[i].side \in Sides /\ v[i].price # 0 /\ v[i].qty # 0
        /\ v[i].instrument = x
    BY <1>1 DEF OrderError
  <2>4. QED
    BY <2>2, <2>3, WordWidth DEF WellFormedOrder, Price, Qty
<1>3. ASSUME NEW i \in 1..Len(v), NEW j \in 1..Len(v), j < i PROVE v[i].id # v[j].id
  <2>1. j \in 1..(i - 1)
    BY <1>3
  <2>2. QED
    BY <1>1, <2>1 DEF OrderError
<1>4. ASSUME NEW i \in 1..Len(v), NEW j \in 1..Len(v), i # j PROVE v[i].id # v[j].id
  <2>1. i < j \/ j < i
    BY <1>4
  <2>2. QED
    BY <1>3, <2>1
<1>5. QED
  BY <1>2, <1>4

\* The constructor's sort of an accepted vector is a listing of it.
LEMMA SortedOrders ==
  ASSUME NEW v \in Seq(Submitted), NEW x, BatchError(v, x) = "ok",
         NEW b \in CanonicalOrders(v)
  PROVE  /\ b \in [1..Len(v) -> Range(v)] /\ b \in Seq(Range(v)) /\ Len(b) = Len(v)
         /\ Range(b) = Range(v)
         /\ \A i, j \in 1..Len(b) : i # j => b[i] # b[j]
         /\ \A i, j \in 1..Len(b) : i < j => ~CanonicalBefore(b[j], b[i])
<1> DEFINE n == Len(v)
           S == Range(v)
<1>1. /\ b \in Injection(1..Cardinality(S), S)
      /\ \A i, j \in DOMAIN b : i < j => ~CanonicalBefore(b[j], b[i])
  <2>1. /\ b \in Injection(1..Cardinality(S), S)
        /\ \A i, j \in DOMAIN b :
             i < j => <<b[j], b[i]>> \notin {p \in S \X S : CanonicalBefore(p[1], p[2])}
    BY DEF CanonicalOrders, StdSorts
  <2>2. \A i \in DOMAIN b : b[i] \in S
    BY <2>1 DEF Injection
  <2>3. ASSUME NEW i \in DOMAIN b, NEW j \in DOMAIN b, i < j
        PROVE  ~CanonicalBefore(b[j], b[i])
    <3>1. <<b[j], b[i]>> \in S \X S
      BY <2>2, <2>3
    <3>2. QED
      BY <2>1, <2>3, <3>1
  <2>4. QED
    BY <2>1, <2>3
<1>2. n \in Nat /\ DOMAIN v = 1..n /\ \A i \in 1..n : v[i] \in S
  BY DEF Range
<1>3. v \in Injection(1..n, S) /\ v \in Surjection(1..n, S)
  <2>1. \A i, j \in 1..n : v[i] = v[j] => i = j
    BY AcceptedOrders
  <2>2. v \in [1..n -> S]
    BY <1>2
  <2>3. \A y \in S : \E i \in 1..n : v[i] = y
    BY <1>2 DEF Range
  <2>4. QED
    BY <2>1, <2>2, <2>3 DEF Injection, IsInjective, Surjection
<1>4. IsFiniteSet(S) /\ Cardinality(S) = n
  <2>1. IsFiniteSet(1..n) /\ Cardinality(1..n) = n
    BY <1>2, FS_Interval, SMTT(30)
  <2> HIDE DEF n, S
  <2>2. QED
    BY <1>3, <2>1, FS_Surjection
<1>5. b \in Injection(1..n, S)
  BY <1>1, <1>4
<1>6. b \in Surjection(1..n, S)
  <2>1. IsFiniteSet(1..n) /\ Cardinality(1..n) = n
    BY <1>2, FS_Interval
  <2> HIDE DEF n, S
  <2>2. QED
    BY <1>4, <1>5, <2>1, FS_Injection
<1>7. b \in [1..n -> S] /\ b \in Seq(S) /\ Len(b) = n /\ DOMAIN b = 1..n
  BY <1>2, <1>5 DEF Injection
<1>8. Range(b) = S
  BY <1>6, <1>7 DEF Range, Surjection
<1>9. QED
  BY <1>1, <1>5, <1>7, <1>8 DEF Injection, IsInjective

\* Batch::create leaves a well-formed batch in canonical order.
LEMMA CreateBatchSound ==
  ASSUME intake \in Seq(Submitted), CreateBatch
  PROVE  BatchIsCanonical' /\ BatchIsWellFormed'
<1>1. /\ BatchError(intake, inst) = "ok" /\ batch' \in CanonicalOrders(intake)
      /\ stage' = "batched" /\ intake' = intake
  BY DEF CreateBatch
<1>2. /\ batch' \in Seq(Range(intake)) /\ Len(batch') = Len(intake)
      /\ Len(batch') \in Nat
      /\ Range(batch') = Range(intake)
      /\ \A i, j \in 1..Len(batch') : i # j => batch'[i] # batch'[j]
      /\ \A i, j \in 1..Len(batch') : i < j => ~CanonicalBefore(batch'[j], batch'[i])
  BY <1>1, SortedOrders
<1>3. ASSUME NEW i \in 1..Len(batch')
      PROVE  \E k \in 1..Len(intake) : batch'[i] = intake[k]
  <2>1. batch'[i] \in Range(intake) /\ DOMAIN intake = 1..Len(intake)
    BY <1>2
  <2>2. QED
    BY <2>1 DEF Range
<1>4. \A i \in 1..Len(batch') : WellFormedOrder(batch'[i]) /\ batch'[i].instrument = inst
  BY <1>1, <1>3, AcceptedOrders
<1>5. ASSUME NEW i \in 1..Len(batch'), NEW j \in 1..Len(batch'), i # j
      PROVE  batch'[i].id # batch'[j].id
  <2>1. PICK k \in 1..Len(intake) : batch'[i] = intake[k]
    BY <1>3
  <2>2. PICK m \in 1..Len(intake) : batch'[j] = intake[m]
    BY <1>3
  <2>3. k # m
    BY <1>2, <1>5, <2>1, <2>2
  <2>4. QED
    BY <1>1, <2>1, <2>2, <2>3, AcceptedOrders
<1>6. ASSUME NEW i \in 1..Len(batch'), NEW j \in 1..Len(batch'), i < j
      PROVE  /\ batch'[i].id # batch'[j].id
             /\ \/ batch'[i].seq < batch'[j].seq
                \/ /\ batch'[i].seq = batch'[j].seq
                   /\ batch'[i].id < batch'[j].id
  <2>1. batch'[i].id # batch'[j].id
    BY <1>5, <1>6
  <2>2. ~CanonicalBefore(batch'[j], batch'[i])
    BY <1>2, <1>6
  <2>3. /\ batch'[i].id \in Nat /\ batch'[j].id \in Nat
        /\ batch'[i].seq \in Nat /\ batch'[j].seq \in Nat
    BY <1>4 DEF WellFormedOrder
  <2>4. QED
    BY <2>1, <2>2, <2>3 DEF CanonicalBefore
<1>7. BatchIsCanonical'
  BY <1>1, <1>2, <1>6 DEF BatchIsCanonical, Orders
<1>8. batch' \in Seq({batch'[i] : i \in 1..Len(batch')})
  BY <1>2
<1>9. BatchIsWellFormed'
  <2>1. inst' = inst
    BY DEF CreateBatch
  <2>2. QED
    BY <1>2, <1>4, <1>8, <2>1 DEF BatchIsWellFormed, WellFormedBatch, Orders
<1>10. QED
  BY <1>7, <1>9

----------------------------------------------------------------------------
(***************************************************************************)
(* The inductive invariant                                                 *)
(***************************************************************************)
LEMMA ClearingInitInv == ClearingInit => ClearingIInv
  BY DEF ClearingInit, ClearingIInv, BatchIsCanonical, BatchIsWellFormed,
         ResultIsTheExecution

LEMMA ClearingNextInv == ClearingIInv /\ [ClearingNext]_clearingVars => ClearingIInv'
<1> SUFFICES ASSUME ClearingIInv, [ClearingNext]_clearingVars PROVE ClearingIInv'
  OBVIOUS
<1> USE DEF ClearingIInv
<1>1. CASE Receive
  <2>1. /\ stage = "intake" /\ Len(intake) < MaxOrders /\ stage' = stage
        /\ batch' = batch /\ Len(intake) \in Nat
    BY <1>1 DEF Receive
  <2>2. PICK o \in Arrivals[Len(intake) + 1] : intake' = Append(intake, o)
    BY <1>1 DEF Receive
  <2>3. o \in Submitted
    BY <2>1, <2>2, ArrivalTypes DEF Submitted
  <2>4. intake' \in Seq(Submitted)
    BY <2>2, <2>3
  <2>5. QED
    BY <2>1, <2>4 DEF BatchIsCanonical, BatchIsWellFormed, ResultIsTheExecution
<1>2. CASE CreateBatch
  <2>1. stage' = "batched" /\ intake' = intake
    BY <1>2 DEF CreateBatch
  <2>2. QED
    BY <1>2, <2>1, CreateBatchSound DEF ResultIsTheExecution
<1>3. CASE RejectBatch
  BY <1>3 DEF RejectBatch, BatchIsCanonical, BatchIsWellFormed, ResultIsTheExecution
<1>4. CASE ExecuteBatch
  <2>1. /\ stage = "batched" /\ stage' = "executed"
        /\ intake' = intake /\ batch' = batch /\ inst' = inst
        /\ DetermineClearingOutcome(batch).ok
        /\ sorted' \in SortOutcomes(batch, DetermineClearingOutcome(batch))
        /\ result' = ExecutionOf(batch, inst, DetermineClearingOutcome(batch), sorted')
    BY <1>4 DEF ExecuteBatch
  <2>2. ~CurvesOverflow(batch)
    BY <2>1 DEF DetermineClearingOutcome, Outcome
  <2>3. ResultIsTheExecution'
    BY <2>1, <2>2 DEF ResultIsTheExecution
  <2>4. QED
    BY <2>1, <2>3 DEF BatchIsCanonical, BatchIsWellFormed, Orders
<1>5. CASE ClearingFails
  BY <1>5 DEF ClearingFails, BatchIsCanonical, BatchIsWellFormed, ResultIsTheExecution
<1>6. CASE UNCHANGED clearingVars
  BY <1>6 DEF clearingVars, BatchIsCanonical, BatchIsWellFormed,
              ResultIsTheExecution, Orders
<1>7. QED
  BY <1>1, <1>2, <1>3, <1>4, <1>5, <1>6 DEF ClearingNext

LEMMA ClearingInvariant == ClearingSpec => []ClearingIInv
  BY ClearingInitInv, ClearingNextInv, PTL DEF ClearingSpec

----------------------------------------------------------------------------
(***************************************************************************)
(* What an executed batch allocates                                        *)
(***************************************************************************)
\* What execute_batch computes from an accepted batch, whoever calls it.
VolumeOf(r) == r.outcome.executable_volume
PriceOf(r) == r.outcome.clearing_price

Executes(b, x, s, r) ==
  /\ WellFormedBatch(b) /\ DistinctIds(b) /\ ~CurvesOverflow(b)
  /\ s \in SortOutcomes(b, DetermineClearingOutcome(b))
  /\ r = ExecutionOf(b, x, DetermineClearingOutcome(b), s)

LEMMA ResultExecutes ==
  ASSUME ClearingIInv, stage = "executed"
  PROVE  Executes(batch, inst, sorted, result)
<1>1. /\ WellFormedBatch(batch) /\ ~CurvesOverflow(batch) /\ BatchIsCanonical
      /\ sorted \in SortOutcomes(batch, DetermineClearingOutcome(batch))
      /\ result = ExecutionOf(batch, inst, DetermineClearingOutcome(batch), sorted)
  BY DEF ClearingIInv, BatchIsWellFormed, ResultIsTheExecution
<1>2. \A i, j \in 1..Len(batch) : i < j => batch[i].id # batch[j].id
  BY <1>1 DEF BatchIsCanonical, Orders
<1>3. ASSUME NEW i \in 1..Len(batch), NEW j \in 1..Len(batch), i # j
      PROVE  batch[i].id # batch[j].id
  <2>1. i < j \/ j < i
    BY <1>3
  <2>2. QED
    BY <1>2, <2>1
<1>4. DistinctIds(batch)
  BY <1>3 DEF DistinctIds
<1>5. QED
  BY <1>1, <1>4 DEF Executes

LEMMA ExecutionOutcome ==
  ASSUME NEW B, NEW X, NEW S, NEW R, Executes(B, X, S, R)
  PROVE  /\ WellFormedBatch(B) /\ DistinctIds(B)
         /\ VolumeOf(R) \in Nat /\ VolumeOf(R) <= MaxRaw
         /\ VolumeOf(R) = 0 <=> PriceOf(R) = NoPrice
         /\ VolumeOf(R) > 0 =>
              /\ PriceOf(R) \in Price
              /\ \A side \in Sides : VolumeOf(R) <= CurveAt(B, side, PriceOf(R))
         /\ R.outcome = DetermineClearingOutcome(B)
         /\ R.alloc = AllocateBatch(B, R.outcome, S)
         /\ S \in SortOutcomes(B, R.outcome)
         /\ R.fills = GenerateCanonicalFills(B, X, R.outcome, R.alloc)
<1> DEFINE out == DetermineClearingOutcome(B)
           v == out.executable_volume
           p == out.clearing_price
<1>1. /\ WellFormedBatch(B) /\ DistinctIds(B) /\ ~CurvesOverflow(B)
      /\ S \in SortOutcomes(B, out)
      /\ R = ExecutionOf(B, X, out, S)
  BY DEF Executes
<1>2. /\ R.outcome = out
      /\ R.alloc = AllocateBatch(B, out, S)
      /\ R.fills = GenerateCanonicalFills(B, X, out, R.alloc)
  BY <1>1 DEF ExecutionOf
<1>3. VolumeOf(R) = v /\ PriceOf(R) = p
  BY <1>2 DEF VolumeOf, PriceOf
<1>4. /\ v \in Nat /\ v <= MaxRaw
      /\ v = 0 => p = NoPrice
      /\ v > 0 => /\ p \in Price
                  /\ Smaller(DemandAt(B, p), SupplyAt(B, p)) = v
  BY <1>1, OutcomeMaximises, WordWidth DEF Qty
<1> HIDE DEF out, v, p
<1>5. v > 0 => p # NoPrice
  BY <1>4, WordWidth DEF Price, NoPrice
<1>6. v > 0 => \A side \in Sides : v <= CurveAt(B, side, p)
  <2>1. DemandAt(B, p) \in Nat /\ SupplyAt(B, p) \in Nat
    BY <1>1, CurvesNat
  <2>2. QED
    BY <1>4, <2>1 DEF CurveAt, Smaller
<1>8. v = 0 <=> p = NoPrice
  BY <1>4, <1>5
<1>9. /\ VolumeOf(R) \in Nat /\ VolumeOf(R) <= MaxRaw
      /\ VolumeOf(R) = 0 <=> PriceOf(R) = NoPrice
      /\ VolumeOf(R) > 0 =>
           /\ PriceOf(R) \in Price
           /\ \A side \in Sides : VolumeOf(R) <= CurveAt(B, side, PriceOf(R))
  BY <1>3, <1>4, <1>6, <1>8
<1>10. /\ R.outcome = out
       /\ R.alloc = AllocateBatch(B, R.outcome, S)
       /\ S \in SortOutcomes(B, R.outcome)
       /\ R.fills = GenerateCanonicalFills(B, X, R.outcome, R.alloc)
  BY <1>1, <1>2
<1>11. QED
  BY <1>1, <1>9, <1>10 DEF out

LEMMA ExecutedOutcome ==
  ASSUME ClearingIInv, stage = "executed"
  PROVE  /\ WellFormedBatch(batch) /\ DistinctIds(batch)
         /\ Volume \in Nat /\ Volume <= MaxRaw
         /\ Volume = 0 <=> ClearingPrice = NoPrice
         /\ Volume > 0 =>
              /\ ClearingPrice \in Price
              /\ \A side \in Sides : Volume <= CurveAt(batch, side, ClearingPrice)
         /\ result.outcome = DetermineClearingOutcome(batch)
         /\ result.alloc = AllocateBatch(batch, result.outcome, sorted)
         /\ sorted \in SortOutcomes(batch, result.outcome)
         /\ result.fills = GenerateCanonicalFills(batch, inst, result.outcome, result.alloc)
<1>1. Executes(batch, inst, sorted, result)
  BY ResultExecutes
<1>2. QED
  BY <1>1, ExecutionOutcome DEF Volume, VolumeOf, ClearingPrice, PriceOf, Orders
\* allocate_side is called with what its correctness needs, and its result is
\* the allocation of the side.
LEMMA ExecutionSides ==
  ASSUME NEW B, NEW X, NEW S, NEW R, Executes(B, X, S, R), VolumeOf(R) > 0, NEW side \in Sides
  PROVE  /\ SideInputs(B, PriceOf(R), side, S[side], VolumeOf(R))
         /\ \A i \in 1..Len(B) : B[i].side = side =>
              R.alloc[i] = AllocateSide(B, PriceOf(R), VolumeOf(R), side,
                                             S[side])[i]
<1>1. /\ WellFormedBatch(B) /\ DistinctIds(B)
      /\ VolumeOf(R) \in Nat /\ PriceOf(R) # NoPrice /\ VolumeOf(R) # 0
      /\ PriceOf(R) \in Price /\ VolumeOf(R) <= CurveAt(B, side, PriceOf(R))
      /\ R.alloc = AllocateBatch(B, R.outcome, S)
      /\ S \in SortOutcomes(B, R.outcome)
  BY ExecutionOutcome
<1>2. side = "Buy" \/ side = "Sell"
  BY DEF Sides
<1>3. S \in [Buy : ItmSorts(B, Itm(B, PriceOf(R), "Buy")),
                  Sell : ItmSorts(B, Itm(B, PriceOf(R), "Sell"))]
  BY <1>1 DEF SortOutcomes, Itm, PriceOf
<1>4. S[side] \in ItmSorts(B, Itm(B, PriceOf(R), side))
  BY <1>2, <1>3
<1>5. ASSUME NEW i \in 1..Len(B), B[i].side = side
      PROVE  R.alloc[i] = AllocateSide(B, PriceOf(R), VolumeOf(R), side,
                                            S[side])[i]
  <2> DEFINE half(x) == AllocateSide(B, PriceOf(R), VolumeOf(R), x, S[x])
  <2>1. R.alloc = [k \in 1..Len(B) |-> IF B[k].side = "Buy"
                                               THEN half("Buy")[k]
                                               ELSE half("Sell")[k]]
    BY <1>1 DEF AllocateBatch, PriceOf, VolumeOf
  <2> HIDE DEF half
  <2>2. R.alloc[i] = half(side)[i]
    BY <1>2, <1>5, <2>1
  <2>3. QED
    BY <2>2 DEF half
<1>6. QED
  BY <1>1, <1>4, <1>5 DEF SideInputs

LEMMA ExecutedSides ==
  ASSUME ClearingIInv, stage = "executed", Volume > 0, NEW side \in Sides
  PROVE  /\ SideInputs(batch, ClearingPrice, side, sorted[side], Volume)
         /\ \A i \in Orders : batch[i].side = side =>
              result.alloc[i] = AllocateSide(batch, ClearingPrice, Volume, side,
                                             sorted[side])[i]
<1>1. Executes(batch, inst, sorted, result)
  BY ResultExecutes
<1>2. QED
  BY <1>1, ExecutionSides DEF Volume, VolumeOf, ClearingPrice, PriceOf, Orders
LEMMA ExecutionVolume ==
  ASSUME NEW B, NEW X, NEW S, NEW R, Executes(B, X, S, R), NEW side \in Sides
  PROVE  AllocatedTo(B, R.alloc, side) = VolumeOf(R)
<1> DEFINE n == Len(B)
           a == AllocateSide(B, PriceOf(R), VolumeOf(R), side, S[side])
           f == [i \in 1..n |-> IF B[i].side = side THEN R.alloc[i] ELSE 0]
           g == [i \in 1..n |-> IF B[i].side = side THEN a[i] ELSE 0]
<1>2. /\ VolumeOf(R) \in Nat /\ n \in Nat /\ (VolumeOf(R) = 0 => PriceOf(R) = NoPrice)
      /\ R.alloc = AllocateBatch(B, R.outcome, S)
  BY ExecutionOutcome DEF WellFormedBatch
<1>3. AllocatedTo(B, R.alloc, side) = Total(f, n)
  BY DEF AllocatedTo
<1>4. CASE VolumeOf(R) = 0
  <2>1. \A i \in 1..n : R.alloc[i] = 0
    BY <1>2, <1>4 DEF AllocateBatch, VolumeOf
  <2>2. \A i \in 1..n : f[i] = 0
    BY <2>1
  <2>3. Total(f, n) = 0
    <3> HIDE DEF f, n
    <3>1. QED
      BY <1>2, <2>2, TotalOfZeros
  <2>4. QED
    BY <1>3, <1>4, <2>3
<1>5. CASE VolumeOf(R) > 0
  <2>1. SideInputs(B, PriceOf(R), side, S[side], VolumeOf(R))
    BY <1>5, ExecutionSides
  <2>2. \A i \in 1..n : B[i].side = side => R.alloc[i] = a[i]
    BY <1>5, ExecutionSides
  <2>3. f = g
    <3> HIDE DEF a
    <3>1. QED
      BY <2>2
  <2>4. Total(g, n) = VolumeOf(R)
    BY <2>1, SideMeetsVolume
  <2>5. QED
    BY <1>3, <2>3, <2>4
<1>6. QED
  BY <1>2, <1>4, <1>5

LEMMA AllocationHolds ==
  ASSUME ClearingIInv
  PROVE  AllocationMeetsVolume
<1>1. SUFFICES ASSUME stage = "executed", NEW side \in Sides
               PROVE  AllocatedTo(batch, result.alloc, side) = Volume
  BY DEF AllocationMeetsVolume
<1>2. QED
  BY <1>1, ResultExecutes, ExecutionVolume DEF Volume, VolumeOf
----------------------------------------------------------------------------
(***************************************************************************)
(* The fills                                                               *)
(***************************************************************************)
\* The counter of generate_canonical_fills.
LEMMA FillIdSteps ==
  ASSUME NEW b, Len(b) \in Nat, NEW a
  PROVE  /\ \A i \in 0..Len(b) : FillId(b, a, i) \in Nat
         /\ FillId(b, a, 0) = 0
         /\ \A i \in 1..Len(b) :
              FillId(b, a, i) = FillId(b, a, i - 1) + (IF a[i] > 0 THEN 1 ELSE 0)
         /\ \A i, j \in 0..Len(b) : i <= j => FillId(b, a, i) <= FillId(b, a, j)
<1> DEFINE n == Len(b)
           f == [k \in 1..n |-> IF a[k] > 0 THEN 1 ELSE 0]
<1>1. \A i : FillId(b, a, i) = Total(f, i)
  BY DEF FillId
<1>2. \A i \in 1..n : f[i] \in Nat /\ f[i] = IF a[i] > 0 THEN 1 ELSE 0
  OBVIOUS
<1> HIDE DEF f, n
<1>3. n \in Nat
  BY DEF n
<1>4. ASSUME NEW i \in 0..n PROVE Total(f, i) \in Nat
  <2>1. i \in Nat /\ \A k \in 1..i : f[k] \in Nat
    BY <1>2, <1>3
  <2>2. QED
    BY <2>1, TotalNat
<1>5. ASSUME NEW i \in 1..n PROVE Total(f, i) = Total(f, i - 1) + f[i]
  <2>1. i - 1 \in Nat /\ (i - 1) + 1 = i /\ \A k \in 1..((i - 1) + 1) : f[k] \in Int
    BY <1>2, <1>3
  <2>2. Total(f, (i - 1) + 1) = Total(f, i - 1) + f[(i - 1) + 1]
    BY <2>1, TotalStep
  <2>3. QED
    BY <2>1, <2>2
<1>6. ASSUME NEW i \in 0..n, NEW j \in 0..n, i <= j PROVE Total(f, i) <= Total(f, j)
  <2>1. \A k \in 1..n : f[k] \in Nat
    BY <1>2
  <2>2. QED
    BY <1>3, <1>6, <2>1, TotalPrefix
<1>7. Total(f, 0) = 0
  BY TotalZero
<1>8. QED
  BY <1>1, <1>2, <1>4, <1>5, <1>6, <1>7 DEF n

\* Every number up to the last is the number of a fill, of one order each.
LEMMA FilledOrderIs ==
  ASSUME NEW b, Len(b) \in Nat, NEW a, NEW k \in 1..FillId(b, a, Len(b))
  PROVE  /\ FilledOrder(b, a, k) \in 1..Len(b) /\ a[FilledOrder(b, a, k)] > 0
         /\ FillId(b, a, FilledOrder(b, a, k)) = k
<1> DEFINE n == Len(b)
           c(i) == FillId(b, a, i)
           S == {i \in 0..n : c(i) >= k}
<1>1. /\ \A i \in 0..n : c(i) \in Nat
      /\ c(0) = 0
      /\ \A i \in 1..n : c(i) = c(i - 1) + (IF a[i] > 0 THEN 1 ELSE 0)
  BY FillIdSteps
<1>2. n \in S /\ S \in SUBSET (0..n) /\ n \in Nat /\ k \in Nat /\ k >= 1
  <2>1. n \in 0..n
    OBVIOUS
  <2>2. c(n) \in Nat
    BY <1>1, <2>1
  <2>3. QED
    BY <2>1, <2>2
<1>3. PICK i \in S : \A j \in S : i <= j
  <2> HIDE DEF S, n
  <2>1. QED
    BY <1>2, Greatest
<1>4. i \in 1..n /\ i - 1 \in 0..n /\ i - 1 \notin S
  BY <1>1, <1>2, <1>3
<1>5. a[i] > 0 /\ c(i) = k
  <2>1. c(i) \in Nat /\ c(i - 1) \in Nat /\ c(i) >= k /\ ~(c(i - 1) >= k)
    BY <1>1, <1>3, <1>4
  <2>2. c(i) = c(i - 1) + (IF a[i] > 0 THEN 1 ELSE 0)
    BY <1>1, <1>4
  <2> HIDE DEF c
  <2>3. QED
    BY <1>2, <2>1, <2>2
<1>6. \E x \in 1..Len(b) : a[x] > 0 /\ FillId(b, a, x) = k
  BY <1>4, <1>5
<1>7. QED
  BY <1>6 DEF FilledOrder

\* The fills are numbered in batch order, and no allocation is passed over.
LEMMA FillsListTheFilled ==
  ASSUME NEW b, Len(b) \in Nat, NEW a
  PROVE  LET m == FillId(b, a, Len(b))
             w == [k \in 1..m |-> FilledOrder(b, a, k)]
         IN  /\ m \in Nat /\ Len(w) = m
             /\ \A j, k \in 1..m : j < k => w[j] < w[k]
             /\ IsListing(w, {i \in 1..Len(b) : a[i] > 0}, Len(b))
<1> DEFINE n == Len(b)
           c(i) == FillId(b, a, i)
           m == c(n)
           w == [k \in 1..m |-> FilledOrder(b, a, k)]
           S == {i \in 1..n : a[i] > 0}
<1>1. /\ \A i \in 0..n : c(i) \in Nat
      /\ \A i \in 1..n : c(i) = c(i - 1) + (IF a[i] > 0 THEN 1 ELSE 0)
      /\ \A i, j \in 0..n : i <= j => c(i) <= c(j)
  BY FillIdSteps
<1>2. \A k \in 1..m : w[k] \in 1..n /\ a[w[k]] > 0 /\ c(w[k]) = k
  BY FilledOrderIs
<1>3. m \in Nat /\ n \in Nat
  <2>1. n \in 0..n
    OBVIOUS
  <2>2. QED
    BY <1>1, <2>1
<1>4. Len(w) = m
  <2> HIDE DEF m
  <2>1. QED
    BY <1>3
<1> HIDE DEF c, w, m, n
<1>5. ASSUME NEW j \in 1..m, NEW k \in 1..m, j < k PROVE w[j] < w[k]
  <2>1. w[j] \in 0..n /\ w[k] \in 0..n /\ c(w[j]) = j /\ c(w[k]) = k
    BY <1>2, <1>3
  <2>2. SUFFICES ASSUME w[k] <= w[j] PROVE FALSE
    BY <1>3, <2>1
  <2>3. c(w[k]) <= c(w[j])
    BY <1>1, <2>1, <2>2
  <2>4. QED
    BY <1>3, <1>5, <2>1, <2>3
<1>6. ASSUME NEW i \in S PROVE \E k \in 1..m : w[k] = i
  <2>1. i \in 1..n /\ a[i] > 0 /\ i \in 0..n /\ i - 1 \in 0..n /\ n \in 0..n /\ i <= n
    BY <1>3
  <2>2. c(i) = c(i - 1) + 1 /\ c(i - 1) \in Nat /\ c(i) \in Nat /\ c(i) <= m
    BY <1>1, <2>1 DEF m
  <2>3. c(i) \in 1..m
    BY <1>3, <2>2
  <2> DEFINE x == w[c(i)]
  <2>4. x \in 1..n /\ a[x] > 0 /\ c(x) = c(i)
    BY <1>2, <2>3
  <2> HIDE DEF x
  <2>5. x \in 0..n /\ x - 1 \in 0..n
    BY <1>3, <2>4
  <2>6. c(x) = c(x - 1) + 1 /\ c(x - 1) \in Nat
    BY <1>1, <2>4, <2>5
  <2>7. ~(x <= i - 1)
    BY <1>1, <2>1, <2>2, <2>4, <2>5
  <2>8. ~(i <= x - 1)
    BY <1>1, <2>1, <2>2, <2>4, <2>5, <2>6
  <2>9. x = i
    BY <1>3, <2>1, <2>4, <2>7, <2>8
  <2>10. QED
    BY <2>3, <2>9 DEF x
<1>7. IsListing(w, S, n)
  <2>1. \A k \in 1..Len(w) : w[k] \in S
    BY <1>2, <1>4
  <2>2. ASSUME NEW j \in 1..Len(w), NEW k \in 1..Len(w), j # k PROVE w[j] # w[k]
    <3>1. j \in 1..m /\ k \in 1..m /\ (j < k \/ k < j)
      BY <1>3, <1>4, <2>2
    <3>2. w[j] < w[k] \/ w[k] < w[j]
      BY <1>5, <3>1
    <3>3. w[j] \in Int /\ w[k] \in Int
      BY <1>2, <1>3, <3>1
    <3>4. QED
      BY <3>2, <3>3
  <2>3. S \in SUBSET (1..n)
    OBVIOUS
  <2> HIDE DEF S
  <2>4. QED
    BY <1>3, <1>4, <1>6, <2>1, <2>2, <2>3 DEF IsListing
<1>8. QED
  BY <1>3, <1>4, <1>5, <1>7 DEF c, m, n, w

\* Money::from_price_qty does not fail on words.
LEMMA ConsiderationFits ==
  ASSUME NEW p \in Price, NEW q \in Qty
  PROVE  FromPriceQty(p, q) = p * q
<1> DEFINE d == MaxMoney \div p
<1>1. p \in Nat /\ p > 0 /\ p <= MaxRaw /\ q \in Nat /\ q <= MaxRaw
      /\ MaxRaw \in Nat /\ MaxMoney \in Nat /\ MaxMoney >= MaxRaw * MaxRaw
  BY WordWidth, MoneyWidth DEF Price, Qty
<1>2. /\ d \in Nat /\ MaxMoney % p \in Nat /\ MaxMoney % p < p
      /\ MaxMoney = d * p + (MaxMoney % p)
  BY <1>1, Euclid
<1>3. p * q <= MaxMoney
  <2>1. p * q <= p * MaxRaw /\ MaxRaw * p <= MaxRaw * MaxRaw
    BY <1>1, ProductsGrow
  <2>2. p * MaxRaw = MaxRaw * p /\ p * q \in Nat /\ p * MaxRaw \in Nat /\ MaxRaw * MaxRaw \in Nat
    BY <1>1
  <2>3. QED
    BY <1>1, <2>1, <2>2
<1> HIDE DEF d
<1>4. ~(q > d)
  <2>1. SUFFICES ASSUME d + 1 <= q PROVE FALSE
    BY <1>1, <1>2
  <2>2. p * (d + 1) <= p * q
    BY <1>1, <1>2, <2>1, ProductsGrow
  <2>3. p * (d + 1) = d * p + p /\ d * p \in Nat /\ p * q \in Nat
    BY <1>1, <1>2
  <2>4. QED
    BY <1>1, <1>2, <1>3, <2>2, <2>3
<1>5. QED
  BY <1>4 DEF FromPriceQty, d

\* An order with an allocation is inside or at the money, and gets at most its
\* quantity.
LEMMA ExecutionQualifies ==
  ASSUME NEW B, NEW X, NEW S, NEW R, Executes(B, X, S, R), VolumeOf(R) > 0, NEW i \in 1..Len(B)
  PROVE  /\ R.alloc[i] \in Nat /\ R.alloc[i] <= B[i].qty
         /\ B[i].qty \in Qty /\ B[i].side \in Sides
         /\ R.alloc[i] > 0 =>
              IF B[i].side = "Buy" THEN PriceOf(R) <= B[i].price
                                       ELSE PriceOf(R) >= B[i].price
<1> DEFINE side == B[i].side
           s == S[side]
           a == AllocateSide(B, PriceOf(R), VolumeOf(R), side, s)
<1>1. /\ WellFormedBatch(B) /\ PriceOf(R) \in Price /\ VolumeOf(R) \in Nat
      /\ i \in 1..Len(B)
  BY ExecutionOutcome
<1>2. B[i].side \in Sides /\ B[i].qty \in Qty /\ (side = "Buy" \/ side = "Sell")
  BY <1>1, WordWidth DEF WellFormedBatch, WellFormedOrder, Price, Qty, Sides
<1>3. SideInputs(B, PriceOf(R), side, s, VolumeOf(R)) /\ R.alloc[i] = a[i]
  BY <1>2, ExecutionSides
<1>4. a[i] \in Nat /\ a[i] <= B[i].qty
  BY <1>1, <1>3, SideBounds
<1>5. /\ i \notin Itm(B, PriceOf(R), side) /\ i \notin Atm(B, PriceOf(R), side)
         => a[i] = 0
  BY <1>1, AllocateSideIs
<1>6. /\ i \in Itm(B, PriceOf(R), "Buy") =>
           B[i].side = "Buy" /\ B[i].price > PriceOf(R)
      /\ i \in Itm(B, PriceOf(R), "Sell") =>
           B[i].side = "Sell" /\ B[i].price < PriceOf(R)
      /\ i \in Atm(B, PriceOf(R), side) => B[i].price = PriceOf(R)
      /\ B[i].price \in Nat /\ PriceOf(R) \in Nat
  BY <1>1, Classes
<1>7. ASSUME a[i] > 0
      PROVE  IF side = "Buy" THEN PriceOf(R) <= B[i].price
                             ELSE PriceOf(R) >= B[i].price
  <2>1. i \in Itm(B, PriceOf(R), side) \/ i \in Atm(B, PriceOf(R), side)
    <3> HIDE DEF a
    <3>1. QED
      BY <1>5, <1>7
  <2>2. CASE side = "Buy"
    BY <1>6, <2>1, <2>2
  <2>3. CASE side = "Sell"
    BY <1>6, <2>1, <2>3
  <2>4. QED
    BY <1>2, <2>2, <2>3
<1> HIDE DEF a
<1>8. QED
  BY <1>2, <1>3, <1>4, <1>7

LEMMA FilledOrdersQualify ==
  ASSUME ClearingIInv, stage = "executed", Volume > 0, NEW i \in Orders
  PROVE  /\ result.alloc[i] \in Nat /\ result.alloc[i] <= batch[i].qty
         /\ batch[i].qty \in Qty /\ batch[i].side \in Sides
         /\ result.alloc[i] > 0 =>
              IF batch[i].side = "Buy" THEN ClearingPrice <= batch[i].price
                                       ELSE ClearingPrice >= batch[i].price
<1>1. Executes(batch, inst, sorted, result)
  BY ResultExecutes
<1>2. QED
  BY <1>1, ExecutionQualifies DEF Volume, VolumeOf, ClearingPrice, PriceOf, Orders
\* What the fills of one side add up to.
LEMMA FillsPayVolume ==
  ASSUME ClearingIInv, stage = "executed", Volume > 0, NEW side \in Sides,
         AllocatedTo(batch, result.alloc, side) = Volume
  PROVE  Total([k \in 1..Len(result.fills) |->
                  IF result.fills[k].side = side
                  THEN result.fills[k].consideration ELSE 0], Len(result.fills))
           = ClearingPrice * Volume
<1> DEFINE n == Len(batch)
           a == result.alloc
           m == FillId(batch, a, n)
           w == [k \in 1..m |-> FilledOrder(batch, a, k)]
           S == {i \in 1..n : a[i] > 0}
           f == [i \in 1..n |-> IF batch[i].side = side THEN ClearingPrice * a[i] ELSE 0]
           g == [i \in 1..n |-> IF batch[i].side = side THEN a[i] ELSE 0]
           pays == [k \in 1..m |-> IF result.fills[k].side = side
                                   THEN result.fills[k].consideration ELSE 0]
<1>1. /\ WellFormedBatch(batch) /\ ClearingPrice \in Price /\ ClearingPrice # NoPrice
      /\ Volume \in Nat /\ Volume # 0 /\ n \in Nat
      /\ result.fills = GenerateCanonicalFills(batch, inst, result.outcome, a)
  BY ExecutedOutcome DEF WellFormedBatch
<1>2. ClearingPrice \in Nat
  BY <1>1, WordWidth DEF Price
<1>3. m \in Nat /\ Len(w) = m /\ IsListing(w, S, n)
  BY <1>1, FillsListTheFilled
<1>4. \A i \in 1..n : a[i] \in Nat /\ a[i] <= batch[i].qty /\ batch[i].qty \in Qty
  BY FilledOrdersQualify DEF Orders
<1>5. result.fills = [k \in 1..m |->
                        FillCreate(k - 1, batch[FilledOrder(batch, a, k)], inst,
                                   ClearingPrice, a[FilledOrder(batch, a, k)])]
  BY <1>1 DEF GenerateCanonicalFills, ClearingPrice, Volume
<1>6. Len(result.fills) = m
  <2> HIDE DEF m
  <2>1. QED
    BY <1>3, <1>5
<1>7. ASSUME NEW k \in 1..m PROVE pays[k] = f[w[k]]
  <2>1. w[k] = FilledOrder(batch, a, k) /\ w[k] \in 1..n
    BY <1>3 DEF IsListing
  <2>2. /\ result.fills[k].side = batch[w[k]].side
        /\ result.fills[k].consideration = FromPriceQty(ClearingPrice, a[w[k]])
    BY <1>5, <2>1 DEF FillCreate
  <2>3. a[w[k]] \in Qty
    <3> HIDE DEF a, w
    <3>1. QED
      BY <1>4, <2>1, WordWidth DEF Qty
  <2>4. FromPriceQty(ClearingPrice, a[w[k]]) = ClearingPrice * a[w[k]]
    BY <1>1, <2>3, ConsiderationFits
  <2>5. QED
    BY <2>1, <2>2, <2>4
<1>8. \A i \in 1..n : f[i] \in Int /\ g[i] \in Int /\ f[i] = ClearingPrice * g[i]
  <2> HIDE DEF a
  <2>1. ASSUME NEW i \in 1..n
        PROVE  f[i] \in Int /\ g[i] \in Int /\ f[i] = ClearingPrice * g[i]
    <3>1. a[i] \in Nat /\ ClearingPrice * a[i] \in Nat /\ ClearingPrice * 0 = 0
      BY <1>2, <1>4
    <3>2. CASE batch[i].side = side
      BY <3>1, <3>2
    <3>3. CASE batch[i].side # side
      BY <3>1, <3>3
    <3>4. QED
      BY <3>2, <3>3
  <2>2. QED
    BY <2>1
<1>9. [k \in 1..Len(w) |-> f[w[k]]] = pays
  <2> HIDE DEF f, w
  <2>1. QED
    BY <1>3, <1>7
<1>10. [i \in 1..n |-> IF i \in S THEN f[i] ELSE 0] = f
  <2>1. ASSUME NEW i \in 1..n, i \notin S PROVE f[i] = 0
    <3>1. a[i] = 0
      <4> HIDE DEF a
      <4>1. QED
        BY <1>4, <2>1
    <3>2. QED
      BY <1>2, <3>1
  <2>2. ASSUME NEW i \in 1..n PROVE (IF i \in S THEN f[i] ELSE 0) = f[i]
    BY <2>1
  <2> HIDE DEF S
  <2>3. QED
    BY <2>2
<1>11. Total(g, n) = Volume
  BY DEF AllocatedTo
<1> HIDE DEF n, a, m, w, S, f, g, pays
<1>12. Total(f, n) = ClearingPrice * Total(g, n)
  <2>1. \A i \in 1..n : g[i] \in Int /\ f[i] = ClearingPrice * g[i]
    BY <1>8
  <2>2. QED
    BY <1>1, <1>2, <2>1, TotalScale
<1>13. Total([i \in 1..n |-> IF i \in S THEN f[i] ELSE 0], n)
         = Total([k \in 1..Len(w) |-> f[w[k]]], Len(w))
  <2>1. \A i \in S : f[i] \in Int
    BY <1>8 DEF S
  <2>2. QED
    BY <1>1, <1>3, <2>1, ListingTotal
<1>14. Total(pays, m) = ClearingPrice * Volume
  BY <1>3, <1>9, <1>10, <1>11, <1>12, <1>13
<1>15. QED
  BY <1>6, <1>14 DEF pays

----------------------------------------------------------------------------
(***************************************************************************)
(* The theorems                                                            *)
(***************************************************************************)
\* Batch::create (engine/batch.cpp) turns any vector it accepts into the one
\* listing of its orders by sequence number and id, without repeated ids.
THEOREM CanonicalBatch == ClearingSpec => []BatchIsCanonical
<1>1. ClearingIInv => BatchIsCanonical
  BY DEF ClearingIInv
<1>2. QED
  BY <1>1, ClearingInvariant, PTL

LEMMA CurvesHold == ClearingIInv => CurvesAgree
<1>1. SUFFICES ASSUME WellFormedBatch(batch)
               PROVE  IF CurvesOverflow(batch)
                      THEN Err \in {DemandFromOrders(batch, 1),
                                    SupplyFromOrders(batch, MaxRaw)}
                      ELSE \A p \in Price :
                             /\ RunningDemand(batch, p) = DemandFromOrders(batch, p)
                             /\ RunningSupply(batch, p) = SupplyFromOrders(batch, p)
  BY DEF ClearingIInv, BatchIsWellFormed, CurvesAgree
<1>2. CASE CurvesOverflow(batch)
  <2>1. SupplyAt(batch, MaxRaw) > MaxRaw \/ DemandAt(batch, 1) > MaxRaw
    BY <1>1, <1>2, OverflowAtTheEnds
  <2>2. QED
    BY <1>2, <2>1, CurvesByOrder
<1>3. CASE ~CurvesOverflow(batch)
  BY <1>1, <1>3, CurvesFit
<1>4. QED
  BY <1>2, <1>3

\* compute_volume_maximizers_from_orders (engine/auction.cpp): the bucketed
\* running sums are the curves defined order by order at every price, and an
\* overflow of one computation is an overflow of the other.
THEOREM RunningSumsAreTheCurves == ClearingSpec => []CurvesAgree
  BY CurvesHold, ClearingInvariant, PTL

LEMMA MaximumHolds == ClearingIInv => ClearsMaximumVolume
<1> DEFINE out == DetermineClearingOutcome(batch)
           at(p) == Smaller(DemandFromOrders(batch, p), SupplyFromOrders(batch, p))
<1>1. SUFFICES ASSUME WellFormedBatch(batch), ~CurvesOverflow(batch),
                      result = ExecutionOf(batch, inst, out, sorted)
               PROVE  /\ \A p \in Price : at(p) <= Volume
                      /\ IF Volume > 0 THEN /\ ClearingPrice \in Price
                                            /\ at(ClearingPrice) = Volume
                                       ELSE ClearingPrice = NoPrice
  BY DEF ClearingIInv, BatchIsWellFormed, ResultIsTheExecution, ClearsMaximumVolume
<1>2. Volume = out.executable_volume /\ ClearingPrice = out.clearing_price
  BY <1>1 DEF Volume, ClearingPrice, ExecutionOf
<1>3. /\ out.executable_volume = MaxVolume(batch) /\ out.executable_volume \in Nat
      /\ out.executable_volume = 0 => out.clearing_price = NoPrice
      /\ out.executable_volume > 0 =>
           /\ out.clearing_price \in Price
           /\ Smaller(DemandAt(batch, out.clearing_price),
                      SupplyAt(batch, out.clearing_price)) = out.executable_volume
  BY <1>1, OutcomeMaximises, WordWidth DEF Qty
<1> HIDE DEF out
<1>4. \A p \in Price : at(p) = Smaller(DemandAt(batch, p), SupplyAt(batch, p))
  BY <1>1, CurvesFit
<1>5. \A p \in Price : at(p) <= Volume
  BY <1>1, <1>2, <1>3, <1>4, MaxVolumeEverywhere
<1>6. CASE Volume > 0
  BY <1>2, <1>3, <1>4, <1>5, <1>6
<1>7. CASE ~(Volume > 0)
  BY <1>2, <1>3, <1>5, <1>7
<1>8. QED
  BY <1>6, <1>7

\* determine_clearing_outcome (engine/auction.cpp): the volume is the largest
\* any price executes, and the price chosen executes it, midpoint or not.
THEOREM VolumeIsMaximal == ClearingSpec => []ClearsMaximumVolume
  BY MaximumHolds, ClearingInvariant, PTL

\* allocate_batch (engine/allocation.cpp): both sides receive exactly the
\* executable volume, by whichever of its three ways allocate_side ends.
THEOREM AllocationIsExact == ClearingSpec => []AllocationMeetsVolume
<1>1. ClearingIInv => AllocationMeetsVolume
  BY AllocationHolds
<1>2. QED
  BY <1>1, ClearingInvariant, PTL

LEMMA PriorityHolds == ClearingIInv => PriceTimePriority
<1>1. SUFFICES ASSUME ClearingIInv, stage = "executed", ClearingPrice # NoPrice,
                      NEW i \in Orders, NEW j \in Orders,
                      batch[i].side = batch[j].side, result.alloc[j] > 0,
                      \/ batch[i].side = "Buy" /\ batch[i].price > batch[j].price
                      \/ batch[i].side = "Sell" /\ batch[i].price < batch[j].price
                      \/ /\ batch[i].price = batch[j].price
                         /\ batch[i].price # ClearingPrice
                         /\ batch[i].seq < batch[j].seq
               PROVE  result.alloc[i] = batch[i].qty
  BY DEF PriceTimePriority, Crossed
<1> DEFINE side == batch[i].side
           a == AllocateSide(batch, ClearingPrice, Volume, side, sorted[side])
<1>2. WellFormedBatch(batch) /\ Volume > 0 /\ side \in Sides
  BY <1>1, ExecutedOutcome DEF WellFormedBatch, WellFormedOrder, Orders
<1>3. /\ SideInputs(batch, ClearingPrice, side, sorted[side], Volume)
      /\ result.alloc[i] = a[i] /\ result.alloc[j] = a[j]
  BY <1>1, <1>2, ExecutedSides
<1>4. BetterPrice(batch, i, j) \/ (/\ batch[i].price = batch[j].price
                                   /\ batch[i].price # ClearingPrice
                                   /\ batch[i].seq < batch[j].seq)
  BY <1>1 DEF BetterPrice
<1>5. a[i] = batch[i].qty
  <2>1. batch[j].side = side /\ a[j] > 0 /\ i \in 1..Len(batch) /\ j \in 1..Len(batch)
    BY <1>1, <1>3 DEF Orders
  <2>2. QED
    BY <1>3, <1>4, <2>1, SidePriority
<1>6. QED
  BY <1>3, <1>5

\* allocate_side (engine/allocation.cpp): an order is filled only when every
\* better-priced order of its side, and inside the money every earlier one of
\* its price, is filled whole, whatever std::sort does with ties.
THEOREM PriorityIsKept == ClearingSpec => []PriceTimePriority
  BY PriorityHolds, ClearingInvariant, PTL

LEMMA FairnessHolds == ClearingIInv => ProRataIsFair
<1>1. SUFFICES ASSUME ClearingIInv, stage = "executed", ClearingPrice # NoPrice,
                      NEW side \in Sides
               PROVE  LET atm == Classified(batch, ClearingPrice, side, "AtTheMoney")
                          all == QtyOf(batch, atm)
                          got == Total([i \in Orders |-> IF i \in atm
                                                         THEN result.alloc[i]
                                                         ELSE 0], Len(batch))
                      IN  \A i \in atm :
                            /\ result.alloc[i] * all - batch[i].qty * got
                                 \in (1 - all)..(all - 1)
                            /\ \A j \in atm :
                                 \/ batch[i].qty > batch[j].qty
                                 \/ /\ batch[i].qty = batch[j].qty
                                    /\ batch[i].seq < batch[j].seq
                                 => result.alloc[i] >= result.alloc[j]
  BY DEF ProRataIsFair, Crossed
<1> DEFINE atm == Atm(batch, ClearingPrice, side)
           all == QtyOf(batch, atm)
           a == AllocateSide(batch, ClearingPrice, Volume, side, sorted[side])
           got == Total([i \in Orders |-> IF i \in atm THEN result.alloc[i] ELSE 0],
                        Len(batch))
           ref == Total([i \in 1..Len(batch) |-> IF i \in atm THEN a[i] ELSE 0],
                        Len(batch))
<1>2. WellFormedBatch(batch) /\ Volume > 0 /\ ClearingPrice \in Price
  BY <1>1, ExecutedOutcome
<1>3. SideInputs(batch, ClearingPrice, side, sorted[side], Volume)
  BY <1>1, <1>2, ExecutedSides
<1>4. \A i \in atm : i \in Orders /\ batch[i].side = side
  BY DEF Atm, Classified, Orders
<1>5. \A i \in atm : result.alloc[i] = a[i]
  BY <1>1, <1>2, <1>4, ExecutedSides
<1>6. got = ref
  <2> HIDE DEF atm, a
  <2>1. [i \in Orders |-> IF i \in atm THEN result.alloc[i] ELSE 0]
          = [i \in 1..Len(batch) |-> IF i \in atm THEN a[i] ELSE 0]
    BY <1>5 DEF Orders
  <2>2. QED
    BY <2>1
<1>7. \A i \in atm :
        /\ a[i] * all - batch[i].qty * ref \in (1 - all)..(all - 1)
        /\ \A j \in atm :
             \/ batch[i].qty > batch[j].qty
             \/ batch[i].qty = batch[j].qty /\ batch[i].seq < batch[j].seq
             => a[i] >= a[j]
  BY <1>3, SideFairness
<1> HIDE DEF a, got, ref, all
<1>8. \A i \in atm :
        /\ result.alloc[i] * all - batch[i].qty * got \in (1 - all)..(all - 1)
        /\ \A j \in atm :
             \/ batch[i].qty > batch[j].qty
             \/ batch[i].qty = batch[j].qty /\ batch[i].seq < batch[j].seq
             => result.alloc[i] >= result.alloc[j]
  <2> HIDE DEF atm
  <2>1. QED
    BY <1>5, <1>6, <1>7
<1>9. QED
  BY <1>8 DEF got, all, Atm

\* allocate_side at the clearing price (engine/allocation.cpp): the
\* largest-remainder split gives everyone the quota rounded down or up and
\* respects size and time.
THEOREM SharesAreFair == ClearingSpec => []ProRataIsFair
  BY FairnessHolds, ClearingInvariant, PTL

LEMMA FillsHold == ClearingIInv => FillsAreSound
<1> SUFFICES ASSUME ClearingIInv, stage = "executed"
             PROVE  FillsAreSound
  BY DEF FillsAreSound
<1> DEFINE fills == result.fills
           paid(side) == Total([k \in 1..Len(fills) |->
                                  IF fills[k].side = side
                                  THEN fills[k].consideration ELSE 0], Len(fills))
           Sound(k) == \E i \in Orders :
             /\ fills[k].order_id = batch[i].id
             /\ fills[k].fill_qty \in 1..batch[i].qty
             /\ IF batch[i].side = "Buy"
                THEN fills[k].execution_price <= batch[i].price
                ELSE fills[k].execution_price >= batch[i].price
             /\ \A m \in 1..(k - 1) : \E j \in 1..(i - 1) :
                  fills[m].order_id = batch[j].id /\ fills[m].fill_id < fills[k].fill_id
<1>1. /\ WellFormedBatch(batch) /\ Volume \in Nat /\ Len(batch) \in Nat
      /\ Volume = 0 <=> ClearingPrice = NoPrice
      /\ fills = GenerateCanonicalFills(batch, inst, result.outcome, result.alloc)
  BY ExecutedOutcome DEF WellFormedBatch
<1>2. CASE Volume = 0
  <2>1. fills = << >> /\ Len(fills) = 0
    BY <1>1, <1>2 DEF GenerateCanonicalFills, Volume
  <2>2. \A side : paid(side) = 0
    <3> HIDE DEF fills
    <3>1. QED
      BY <2>1, TotalZero
  <2>3. ClearingPrice * Volume = 0
    BY <1>1, <1>2 DEF NoPrice
  <2>4. \A k \in 1..Len(fills) : Sound(k)
    BY <2>1
  <2> HIDE DEF paid, Sound
  <2>5. paid("Buy") = paid("Sell") /\ paid("Buy") = ClearingPrice * Volume
    BY <2>2, <2>3
  <2>6. QED
    BY <2>4, <2>5 DEF FillsAreSound, paid, Sound
<1>3. CASE Volume > 0
  <2> DEFINE n == Len(batch)
             a == result.alloc
             last == FillId(batch, a, n)
             w == [k \in 1..last |-> FilledOrder(batch, a, k)]
  <2>1. fills = [k \in 1..last |-> FillCreate(k - 1, batch[FilledOrder(batch, a, k)],
                                             inst, ClearingPrice,
                                             a[FilledOrder(batch, a, k)])]
    BY <1>1, <1>3 DEF GenerateCanonicalFills, ClearingPrice, Volume
  <2>2. /\ last \in Nat /\ Len(w) = last
        /\ \A j, k \in 1..last : j < k => w[j] < w[k]
        /\ IsListing(w, {i \in 1..n : a[i] > 0}, n)
    BY <1>1, FillsListTheFilled
  <2>3. Len(fills) = last
    <3> HIDE DEF last
    <3>1. QED
      BY <2>1, <2>2
  <2>4. \A k \in 1..last : w[k] \in 1..n /\ a[w[k]] > 0
    BY <2>2 DEF IsListing
  <2>5. \A k \in 1..last : /\ fills[k].order_id = batch[w[k]].id
                           /\ fills[k].fill_qty = a[w[k]]
                           /\ fills[k].execution_price = ClearingPrice
                           /\ fills[k].fill_id = k - 1
    BY <2>1 DEF FillCreate
  <2>6. \A side \in Sides : paid(side) = ClearingPrice * Volume
    <3>1. ASSUME NEW side \in Sides PROVE AllocatedTo(batch, a, side) = Volume
      BY AllocationHolds DEF AllocationMeetsVolume
    <3>2. QED
      BY <1>3, <3>1, FillsPayVolume
  <2>7. paid("Buy") = paid("Sell") /\ paid("Buy") = ClearingPrice * Volume
    <3> HIDE DEF paid
    <3>1. QED
      BY <2>6 DEF Sides
  <2> HIDE DEF fills, w, last, a
  <2>8. ASSUME NEW k \in 1..last PROVE Sound(k)
    <3> DEFINE i == w[k]
    <3>1. i \in Orders /\ a[i] > 0 /\ i \in 1..n
      BY <2>4 DEF Orders
    <3> HIDE DEF i
    <3>2. /\ a[i] \in Nat /\ a[i] <= batch[i].qty /\ batch[i].qty \in Qty
          /\ IF batch[i].side = "Buy" THEN ClearingPrice <= batch[i].price
                                      ELSE ClearingPrice >= batch[i].price
      BY <1>3, <3>1, FilledOrdersQualify DEF a
    <3>3. fills[k].fill_qty \in 1..batch[i].qty
      BY <2>5, <3>1, <3>2, WordWidth DEF Qty, i
    <3>4. ASSUME NEW m \in 1..(k - 1)
          PROVE  \E j \in 1..(i - 1) :
                   fills[m].order_id = batch[j].id /\ fills[m].fill_id < fills[k].fill_id
      <4>1. m \in 1..last /\ m < k
        BY <2>2
      <4>2. w[m] < w[k] /\ w[m] \in 1..n /\ w[k] \in 1..n
        BY <2>2, <2>4, <4>1
      <4>3. w[m] \in 1..(i - 1)
        BY <1>1, <4>2 DEF i
      <4>4. fills[m].order_id = batch[w[m]].id /\ fills[m].fill_id < fills[k].fill_id
        BY <2>2, <2>5, <4>1
      <4>5. QED
        BY <4>3, <4>4
    <3>5. /\ fills[k].order_id = batch[i].id
          /\ fills[k].execution_price = ClearingPrice
      BY <2>5 DEF i
    <3>6. QED
      BY <3>1, <3>2, <3>3, <3>4, <3>5
  <2> HIDE DEF paid, Sound
  <2>9. QED
    BY <2>3, <2>7, <2>8 DEF FillsAreSound, paid, Sound, fills
<1>4. QED
  BY <1>1, <1>2, <1>3

\* generate_canonical_fills (engine/fill.cpp): the fills are within quantity
\* and limit, numbered in batch order, and the two sides' money is equal.
THEOREM FillsBalance == ClearingSpec => []FillsAreSound
  BY FillsHold, ClearingInvariant, PTL

----------------------------------------------------------------------------
(***************************************************************************)
(* The fills of an executed batch, one for each order that got something.  *)
(***************************************************************************)
LEMMA ExecutionFillAt ==
  ASSUME NEW B, NEW X, NEW S, NEW R, Executes(B, X, S, R), VolumeOf(R) > 0
  PROVE  /\ Len(R.fills) = FillId(B, R.alloc, Len(B))
         /\ \A k \in 1..Len(R.fills) :
              LET i == FilledOrder(B, R.alloc, k)
              IN  /\ i \in 1..Len(B) /\ R.alloc[i] > 0
                  /\ R.fills[k] = FillCreate(k - 1, B[i], X, PriceOf(R), R.alloc[i])
<1> DEFINE n == Len(B)
           a == R.alloc
           m == FillId(B, a, n)
           F(k) == FillCreate(k - 1, B[FilledOrder(B, a, k)], X,
                              PriceOf(R), a[FilledOrder(B, a, k)])
<1>1. /\ PriceOf(R) # NoPrice /\ VolumeOf(R) # 0 /\ n \in Nat
      /\ R.fills = GenerateCanonicalFills(B, X, R.outcome, a)
  <2>1. /\ WellFormedBatch(B) /\ VolumeOf(R) \in Nat
        /\ VolumeOf(R) = 0 <=> PriceOf(R) = NoPrice
        /\ R.fills = GenerateCanonicalFills(B, X, R.outcome, R.alloc)
    BY ExecutionOutcome
  <2>2. QED
    BY <2>1 DEF WellFormedBatch
<1>2. m \in Nat
  BY <1>1, FillsListTheFilled
<1>3. R.fills = [k \in 1..m |-> F(k)]
  BY <1>1 DEF GenerateCanonicalFills, PriceOf, VolumeOf
<1>4. \A k \in 1..m : FilledOrder(B, a, k) \in 1..Len(B) /\ a[FilledOrder(B, a, k)] > 0
  BY <1>1, FilledOrderIs
<1> HIDE DEF m, F
<1>5. Len(R.fills) = m /\ \A k \in 1..m : R.fills[k] = F(k)
  BY <1>2, <1>3
<1>6. QED
  BY <1>4, <1>5 DEF F, m

LEMMA FillAt ==
  ASSUME ClearingIInv, stage = "executed", Volume > 0
  PROVE  /\ Len(result.fills) = FillId(batch, result.alloc, Len(batch))
         /\ \A k \in 1..Len(result.fills) :
              LET i == FilledOrder(batch, result.alloc, k)
              IN  /\ i \in Orders /\ result.alloc[i] > 0
                  /\ result.fills[k] = FillCreate(k - 1, batch[i], inst, ClearingPrice,
                                                  result.alloc[i])
<1>1. Executes(batch, inst, sorted, result)
  BY ResultExecutes
<1>2. QED
  BY <1>1, ExecutionFillAt DEF Volume, VolumeOf, ClearingPrice, PriceOf, Orders
\* A sum over the fills is a sum over the orders.
LEMMA FillsTotal ==
  ASSUME ClearingIInv, stage = "executed", Volume > 0, NEW e, NEW g,
         \A k \in 1..Len(result.fills) : e[k] = g[FilledOrder(batch, result.alloc, k)],
         \A i \in 1..Len(batch) : g[i] \in Int /\ (result.alloc[i] = 0 => g[i] = 0)
  PROVE  Total(e, Len(result.fills)) = Total(g, Len(batch))
<1> DEFINE n == Len(batch)
           a == result.alloc
           m == FillId(batch, a, n)
           w == [k \in 1..m |-> FilledOrder(batch, a, k)]
           S == {i \in 1..n : a[i] > 0}
           gS == [i \in 1..n |-> IF i \in S THEN g[i] ELSE 0]
           gw == [k \in 1..Len(w) |-> g[w[k]]]
<1>1. n \in Nat
  BY ExecutedOutcome DEF WellFormedBatch
<1>2. m \in Nat /\ Len(w) = m /\ IsListing(w, S, n)
  BY <1>1, FillsListTheFilled
<1>3. Len(result.fills) = m
  BY FillAt
<1>4. \A i \in 1..n : a[i] \in Nat
  BY FilledOrdersQualify DEF Orders
<1>5. \A i \in 1..n : g[i] \in Int /\ gS[i] = g[i]
  <2> HIDE DEF a
  <2>1. ASSUME NEW i \in 1..n, i \notin S PROVE g[i] = 0
    <3>1. a[i] = 0
      BY <1>4, <2>1
    <3>2. QED
      BY <3>1 DEF a
  <2>2. QED
    BY <2>1
<1>6. \A k \in 1..m : e[k] \in Int /\ gw[k] = e[k]
  <2>1. ASSUME NEW k \in 1..m PROVE w[k] \in 1..n /\ gw[k] = g[w[k]] /\ e[k] = g[w[k]]
    <3>1. w[k] = FilledOrder(batch, a, k)
      OBVIOUS
    <3>2. w[k] \in 1..n
      BY <1>2 DEF IsListing
    <3>3. e[k] = g[w[k]]
      BY <1>3, <3>1
    <3> HIDE DEF w
    <3>4. QED
      BY <1>2, <3>2, <3>3
  <2> HIDE DEF w, gw, m
  <2>2. QED
    BY <2>1
<1>7. \A i \in S : g[i] \in Int
  OBVIOUS
<1> HIDE DEF n, m, w, S, a
<1>8. Total(gS, n) = Total(gw, Len(w))
  BY <1>1, <1>2, <1>7, ListingTotal
<1> HIDE DEF gS, gw
<1>9. Total(gS, n) = Total(g, n)
  BY <1>1, <1>5, TotalEqual
<1>10. Total(gw, m) = Total(e, m)
  BY <1>2, <1>6, TotalEqual
<1>11. QED
  BY <1>2, <1>3, <1>8, <1>9, <1>10 DEF n

\* The quantities of the fills of a side add up to the volume.
LEMMA FillsMoveVolume ==
  ASSUME ClearingIInv, stage = "executed", Volume > 0, NEW side \in Sides
  PROVE  Total([k \in 1..Len(result.fills) |->
                  IF result.fills[k].side = side
                  THEN result.fills[k].fill_qty ELSE 0], Len(result.fills)) = Volume
<1> DEFINE n == Len(batch)
           a == result.alloc
           g == [i \in 1..n |-> IF batch[i].side = side THEN a[i] ELSE 0]
           lots == [k \in 1..Len(result.fills) |->
                      IF result.fills[k].side = side
                      THEN result.fills[k].fill_qty ELSE 0]
<1>1. \A i \in 1..n : a[i] \in Nat
  BY FilledOrdersQualify DEF Orders
<1>2. \A i \in 1..n : g[i] \in Int /\ (a[i] = 0 => g[i] = 0)
  <2> HIDE DEF a
  <2>1. QED
    BY <1>1
<1>3. ASSUME NEW k \in 1..Len(result.fills)
      PROVE  lots[k] = g[FilledOrder(batch, a, k)]
  <2>1. PICK i : i = FilledOrder(batch, a, k)
    OBVIOUS
  <2>2. /\ i \in 1..n
        /\ result.fills[k] = FillCreate(k - 1, batch[i], inst, ClearingPrice, a[i])
    BY <2>1, FillAt DEF Orders
  <2>3. result.fills[k].side = batch[i].side /\ result.fills[k].fill_qty = a[i]
    BY <2>2 DEF FillCreate
  <2>4. lots[k] = g[i]
    BY <2>2, <2>3
  <2>5. QED
    BY <2>1, <2>4
<1>4. Total(g, n) = Volume
  BY AllocationHolds DEF AllocationMeetsVolume, AllocatedTo
<1> HIDE DEF lots, g
<1>5. Total(lots, Len(result.fills)) = Total(g, n)
  BY <1>2, <1>3, FillsTotal
<1>6. QED
  BY <1>4, <1>5 DEF lots

\* The fills of the engine: none without a price, and otherwise one per filled
\* order of the batch, at the price, within its limit and its quantity.
LEMMA ExecutionFills ==
  ASSUME NEW B, NEW X, NEW S, NEW R, Executes(B, X, S, R)
  PROVE  /\ Len(R.fills) \in Nat
         /\ VolumeOf(R) = 0 => R.fills = << >>
         /\ \A k \in 1..Len(R.fills) : \E i \in 1..Len(B) :
              /\ R.alloc[i] > 0 /\ VolumeOf(R) > 0
              /\ R.fills[k] = FillCreate(k - 1, B[i], X, PriceOf(R),
                                              R.alloc[i])
<1>1. /\ VolumeOf(R) \in Nat /\ Len(B) \in Nat
      /\ (VolumeOf(R) = 0 <=> PriceOf(R) = NoPrice)
      /\ R.fills = GenerateCanonicalFills(B, X, R.outcome, R.alloc)
  BY ExecutionOutcome DEF WellFormedBatch
<1>2. CASE VolumeOf(R) = 0
  <2>1. R.fills = << >>
    BY <1>1, <1>2 DEF GenerateCanonicalFills, VolumeOf
  <2>2. QED
    BY <1>2, <2>1
<1>3. CASE VolumeOf(R) > 0
  <2>1. Len(R.fills) \in Nat
    BY <1>1, <1>3, ExecutionFillAt, FillsListTheFilled
  <2>2. ASSUME NEW k \in 1..Len(R.fills)
        PROVE  \E i \in 1..Len(B) :
                 /\ R.alloc[i] > 0 /\ VolumeOf(R) > 0
                 /\ R.fills[k] = FillCreate(k - 1, B[i], X, PriceOf(R),
                                                 R.alloc[i])
    BY <1>3, ExecutionFillAt
  <2>3. QED
    BY <1>3, <2>1, <2>2
<1>4. QED
  BY <1>1, <1>2, <1>3

LEMMA EngineFills ==
  ASSUME ClearingIInv, stage = "executed"
  PROVE  /\ Len(result.fills) \in Nat
         /\ Volume = 0 => result.fills = << >>
         /\ \A k \in 1..Len(result.fills) : \E i \in Orders :
              /\ result.alloc[i] > 0 /\ Volume > 0
              /\ result.fills[k] = FillCreate(k - 1, batch[i], inst, ClearingPrice,
                                              result.alloc[i])
<1>1. Executes(batch, inst, sorted, result)
  BY ResultExecutes
<1>2. /\ Len(result.fills) \in Nat
      /\ VolumeOf(result) = 0 => result.fills = << >>
      /\ \A k \in 1..Len(result.fills) : \E i \in 1..Len(batch) :
           /\ result.alloc[i] > 0 /\ VolumeOf(result) > 0
           /\ result.fills[k] = FillCreate(k - 1, batch[i], inst, PriceOf(result),
                                           result.alloc[i])
  BY <1>1, ExecutionFills
<1>3. Volume = VolumeOf(result) /\ ClearingPrice = PriceOf(result) /\ Orders = 1..Len(batch)
  BY DEF Volume, VolumeOf, ClearingPrice, PriceOf, Orders
<1>4. QED
  BY <1>2, <1>3
=============================================================================
