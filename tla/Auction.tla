------------------------------- MODULE Auction -------------------------------
(***************************************************************************)
(* The uniform-price call auction (engine/auction.cpp): supply and demand  *)
(* curves of a batch, the prices that maximise executable volume, and the  *)
(* midpoint tie rule.  A batch is a sequence of order records              *)
(*                                                                         *)
(*   [id, account, instrument, side, price, qty, seq]                      *)
(*                                                                         *)
(* in canonical order; nothing here depends on that order.                 *)
(***************************************************************************)
EXTENDS Domain

\* The quantity of order i if the predicate holds of it, as a summand.
QtyWhere(orders, P(_)) ==
  [i \in 1..Len(orders) |-> IF P(orders[i]) THEN orders[i].qty ELSE 0]

\* demand_from_orders: what the buyers would take at the price.
DemandFromOrders(orders, price) ==
  LET willing(o) == o.side = "Buy" /\ o.price >= price
  IN  CheckedTotal(QtyWhere(orders, willing), Len(orders), MaxRaw)

\* supply_from_orders: what the sellers would give at the price.
SupplyFromOrders(orders, price) ==
  LET willing(o) == o.side = "Sell" /\ o.price <= price
  IN  CheckedTotal(QtyWhere(orders, willing), Len(orders), MaxRaw)

CandidatePrices(orders) == {orders[i].price : i \in 1..Len(orders)}

(***************************************************************************)
(* compute_volume_maximizers_from_orders does not evaluate the curves one  *)
(* candidate at a time: it buckets the quantities by price, then takes one *)
(* running sum upwards for supply and one downwards for demand.  Buckets   *)
(* of prices that no order names are empty, so running over all prices is  *)
(* the same as running over the sorted candidates.                         *)
(***************************************************************************)
BucketAt(orders, side, price) ==
  LET here(o) == o.side = side /\ o.price = price
  IN  Total(QtyWhere(orders, here), Len(orders))

RunningSupply(orders, price) ==
  Total([p \in 1..MaxRaw |-> BucketAt(orders, "Sell", p)], price)

\* Variant: the downward pass stops one bucket early.
RunningDemandAbove(orders, price) ==
  Total([k \in 1..MaxRaw |-> BucketAt(orders, "Buy", MaxRaw + 1 - k)],
        MaxRaw - price)

RunningDemand(orders, price) ==
  Total([k \in 1..MaxRaw |-> BucketAt(orders, "Buy", MaxRaw + 1 - k)],
        MaxRaw + 1 - price)

\* Some bucket or running sum of the two passes exceeds Qty: the last running
\* sum of each pass is the total of its side.
CurvesOverflow(orders) ==
  \/ RunningSupply(orders, MaxRaw) > MaxRaw
  \/ RunningDemand(orders, 1) > MaxRaw

ExecutableVolume(orders, price) ==
  Smaller(RunningDemand(orders, price), RunningSupply(orders, price))

MaxVolume(orders) ==
  LET volumes == {ExecutableVolume(orders, c) : c \in CandidatePrices(orders)}
  IN  IF orders = << >> THEN 0
      ELSE CHOOSE v \in volumes : \A w \in volumes : w <= v

MaximizingPrices(orders, volume) ==
  {c \in CandidatePrices(orders) : ExecutableVolume(orders, c) = volume}

\* Variant: the midpoint with the halving applied to one end only.
TieHalvesHighEnd(volume, maximizers) ==
  IF volume = 0 \/ maximizers = {} THEN NoPrice
  ELSE LET lo == CHOOSE p \in maximizers : \A q \in maximizers : p <= q
           hi == CHOOSE p \in maximizers : \A q \in maximizers : q <= p
       IN  lo + hi \div 2

\* resolve_clearing_price_tie: the floor of the midpoint of the outermost
\* maximisers; it need not be a candidate itself.
ResolveClearingPriceTie(volume, maximizers) ==
  IF volume = 0 \/ maximizers = {} THEN NoPrice
  ELSE LET lo == CHOOSE p \in maximizers : \A q \in maximizers : p <= q
           hi == CHOOSE p \in maximizers : \A q \in maximizers : q <= p
       IN  lo + ((hi - lo) \div 2)

Outcome(ok, price, volume) ==
  [ok |-> ok, clearing_price |-> price, executable_volume |-> volume]

\* determine_clearing_outcome.
DetermineClearingOutcome(orders) ==
  LET volume == MaxVolume(orders)
  IN  IF CurvesOverflow(orders) THEN Outcome(FALSE, NoPrice, 0)
      ELSE Outcome(TRUE,
                   ResolveClearingPriceTie(volume,
                                           MaximizingPrices(orders, volume)),
                   volume)
=============================================================================
