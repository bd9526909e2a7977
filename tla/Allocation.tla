----------------------------- MODULE Allocation -----------------------------
(***************************************************************************)
(* Who gets filled (engine/partition.hpp, engine/allocation.cpp).  On each *)
(* side the orders better than the clearing price come first, in           *)
(* price-then-sequence order; what is left of the volume is shared pro     *)
(* rata among the orders at the clearing price, by largest remainder.      *)
(*                                                                         *)
(* An allocation is a function from the index of an order in the canonical *)
(* batch to the quantity it receives.                                      *)
(***************************************************************************)
EXTENDS Auction, Sorting

\* classify_order.
ClassifyOrder(o, clearing) ==
  IF o.price = clearing THEN "AtTheMoney"
  ELSE IF (o.side = "Buy") = (o.price > clearing) THEN "InTheMoney"
  ELSE "OutOfTheMoney"

Classified(orders, clearing, side, class) ==
  {i \in 1..Len(orders) : /\ orders[i].side = side
                          /\ ClassifyOrder(orders[i], clearing) = class}

QtyOf(orders, S) ==
  Total([i \in 1..Len(orders) |-> IF i \in S THEN orders[i].qty ELSE 0],
        Len(orders))

\* Variant: the comparator of the buy side used for both sides.
BuySideAhead(orders, i, j) ==
  IF orders[i].price # orders[j].price THEN orders[i].price > orders[j].price
  ELSE orders[i].seq < orders[j].seq

(***************************************************************************)
(* The comparator of the in-the-money sort.  It looks at price and         *)
(* sequence number only; two orders with the same price and sequence       *)
(* number compare equivalent, and std::sort may leave them in any order.   *)
(***************************************************************************)
ItmAhead(orders, i, j) ==
  LET a == orders[i]
      b == orders[j]
  IN  IF a.price # b.price
      THEN (a.side = "Buy") = (a.price > b.price)
      ELSE a.seq < b.seq

ItmSorts(orders, S) ==
  StdSorts(S, {p \in S \X S : ItmAhead(orders, p[1], p[2])})

\* Variant: remainders in ascending order.
SmallestRemainderAhead(orders, rem, i, j) ==
  IF rem[i] # rem[j] THEN rem[i] < rem[j] ELSE orders[i].seq < orders[j].seq

\* The comparator of the largest-remainder sort: a total order.
RemainderAhead(orders, rem, i, j) ==
  IF rem[i] # rem[j] THEN rem[i] > rem[j]
  ELSE IF orders[i].seq # orders[j].seq THEN orders[i].seq < orders[j].seq
  ELSE orders[i].id < orders[j].id

\* The greedy loop over the sorted in-the-money orders.
ItmGreedyFill(orders, sorted, target) ==
  LET place == [i \in {sorted[k] : k \in 1..Len(sorted)} |->
                  CHOOSE k \in 1..Len(sorted) : sorted[k] = i]
      taken(k) == Total([m \in 1..Len(sorted) |-> orders[sorted[m]].qty], k)
  IN  [i \in DOMAIN place |->
         Smaller(orders[i].qty, SaturatingSub(target, taken(place[i] - 1)))]

\* Variant: the floors only, without the surplus units.
FloorFill(orders, S, v) ==
  [i \in S |-> (orders[i].qty * v) \div QtyOf(orders, S)]

\* The largest-remainder split of volume v among the orders of S, whose
\* total exceeds v.
ProRataFill(orders, S, v) ==
  LET all     == QtyOf(orders, S)
      base    == [i \in S |-> (orders[i].qty * v) \div all]
      rem     == [i \in S |-> (orders[i].qty * v) % all]
      surplus == v - Total([i \in 1..Len(orders) |->
                              IF i \in S THEN base[i] ELSE 0], Len(orders))
      rank(i) == Cardinality({j \in S : RemainderAhead(orders, rem, j, i)})
      extra(i) == IF rank(i) < surplus THEN 1 ELSE 0
  IN  [i \in S |-> Smaller(base[i] + extra(i), orders[i].qty)]

(***************************************************************************)
(* allocate_side, given the sequence the in-the-money sort returned.  Its  *)
(* checked sums cannot fail on a batch whose curves did not overflow, and  *)
(* it is called on no other.                                               *)
(***************************************************************************)
AllocateSide(orders, clearing, target, side, sorted) ==
  LET itm  == Classified(orders, clearing, side, "InTheMoney")
      atm  == Classified(orders, clearing, side, "AtTheMoney")
      qItm == QtyOf(orders, itm)
      vRem == SaturatingSub(target, qItm)
      itmFill == ItmGreedyFill(orders, sorted, target)
      atmFill == ProRataFill(orders, atm, vRem)
  IN  [i \in 1..Len(orders) |->
         IF i \in itm
         THEN IF target <= qItm THEN itmFill[i] ELSE orders[i].qty
         ELSE IF i \in atm /\ vRem > 0
         THEN IF vRem >= QtyOf(orders, atm) THEN orders[i].qty ELSE atmFill[i]
         ELSE 0]

\* What the two sorts of allocate_batch may return on this outcome.
SortOutcomes(orders, outcome) ==
  LET sorts(side) == ItmSorts(orders, Classified(orders, outcome.clearing_price,
                                                 side, "InTheMoney"))
  IN  IF outcome.clearing_price = NoPrice THEN [Buy : {<< >>}, Sell : {<< >>}]
      ELSE [Buy : sorts("Buy"), Sell : sorts("Sell")]

\* allocate_batch: the per-order quantities, in canonical order.
AllocateBatch(orders, outcome, sorted) ==
  LET side(s) == AllocateSide(orders, outcome.clearing_price,
                              outcome.executable_volume, s, sorted[s])
      buys  == side("Buy")
      sells == side("Sell")
  IN  IF outcome.clearing_price = NoPrice \/ outcome.executable_volume = 0
      THEN [i \in 1..Len(orders) |-> 0]
      ELSE [i \in 1..Len(orders) |->
              IF orders[i].side = "Buy" THEN buys[i] ELSE sells[i]]

\* The quantity the allocation gives to one side (buy_sum, sell_sum).
AllocatedTo(orders, alloc, side) ==
  Total([i \in 1..Len(orders) |->
           IF orders[i].side = side THEN alloc[i] ELSE 0], Len(orders))
=============================================================================
