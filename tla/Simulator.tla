----------------------------- MODULE Simulator -----------------------------
(***************************************************************************)
(* The two sources of synthetic sessions: independent random orders        *)
(* (simulator/generator.cpp) and a population of market makers and noise   *)
(* traders (simulator/population.cpp, simulator/agent.cpp).                *)
(*                                                                         *)
(* Both build batches with the constructor that trusts its orders, so what *)
(* Batch::create would have checked is theirs to get right.  A draw is a   *)
(* nondeterministic choice from the range it is made in; salts, and the    *)
(* cutoffs, which only count the batches, are left out.                    *)
(***************************************************************************)
EXTENDS Domain, Sorting

CONSTANTS
  FlowConfigs,        \* SyntheticFlowConfigs
  PopulationConfigs   \* PopulationSimulationConfigs

ASSUME FlowConfigsOK ==
  FlowConfigs \subseteq
    [kind : {"flow"}, num_accounts : Nat, num_batches : Nat,
     min_orders : Nat, max_orders : Nat, mid : Price, spread : Qty,
     min_qty : Qty, max_qty : Qty, buy_permille : Nat]

ASSUME PopulationConfigsOK ==
  PopulationConfigs \subseteq
    [kind : {"population"}, mid : Price, num_batches : Nat, taker_orders : Nat,
     makers : Seq([account : Nat, half_spread : Qty, qty : Qty]),
     traders : Seq([account : Nat, buy_permille : Nat, max_aggression : Qty,
                    min_qty : Qty, max_qty : Qty])]

NoConfig == [kind |-> "none"]

VARIABLES
  config,         \* what is being simulated, or NoConfig
  genesis,        \* the accounts of genesis_ledger, all funded alike
  next_order_id,  \* global_order_id, MarketEnvironment::next_order_id
  order_count,    \* how many orders the batch under way will have, or NoBatch
  batch_orders,   \* the orders of the batch under way
  generated       \* the bundles of the session so far

simulatorVars ==
  <<config, genesis, next_order_id, order_count, batch_orders, generated>>

NoBatch == -1

----------------------------------------------------------------------------
\* An unsigned sum: it wraps.
Unsigned(n) == n % (MaxRaw + 1)

\* gen_range_u64: any value of the range.  The span of the whole range wraps
\* to zero and the remainder by it traps, so that draw has no outcome.
GenRange(min, max) ==
  IF min >= max THEN {min}
  ELSE IF Unsigned(max - min + 1) = 0 THEN {}
  ELSE min..max

\* gen_bool_permille, as the side it selects.
DrawnSides(permille) ==
  {side \in Sides : IF side = "Buy" THEN permille > 0 ELSE permille < 1000}

\* Variant: what goes below zero wraps.
FlowPriceUnclamped(mid, delta, side) ==
  LET half == delta \div 2
      raw == IF side = "Buy"
             THEN Unsigned(mid + half - (delta % 3))
             ELSE Unsigned(mid - half + (delta % 3))
  IN  IF raw = 0 THEN 1 ELSE raw

\* Variant: without the last clamp.
FlowPriceZero(mid, delta, side) ==
  LET half == delta \div 2
  IN  IF side = "Buy" THEN SaturatingSub(Unsigned(mid + half), delta % 3)
      ELSE Unsigned(SaturatingSub(mid, half) + (delta % 3))

\* The limit of an independent order: half the draw towards the other side,
\* back by its remainder by three, clamped at zero on the way down and then to
\* one.
FlowPrice(mid, delta, side) ==
  LET half == delta \div 2
      raw == IF side = "Buy"
             THEN SaturatingSub(Unsigned(mid + half), delta % 3)
             ELSE Unsigned(SaturatingSub(mid, half) + (delta % 3))
  IN  IF raw = 0 THEN 1 ELSE raw

\* Below the mid by a number of ticks, or the lowest price there is.
Beneath(mid, ticks) == IF mid > ticks THEN mid - ticks ELSE 1

\* SyntheticMarketMaker::generate_orders: a bid and an ask around the mid.
Quotes(maker, mid, id) ==
  << [id |-> id, account |-> maker.account, side |-> "Buy",
      price |-> Beneath(mid, maker.half_spread), qty |-> maker.qty, seq |-> 0],
     [id |-> id + 1, account |-> maker.account, side |-> "Sell",
      price |-> Unsigned(mid + maker.half_spread), qty |-> maker.qty, seq |-> 1] >>

\* The bid or the ask of the n-th market maker, when the batch's ids go on from
\* id.
QuoteAt(c, n, which, id) == Quotes(c.makers[n], c.mid, id + 2 * (n - 1))[which]

\* SyntheticNoiseTrader::generate_order: the orders its draws may make.
NoiseOrders(trader, mid, id) ==
  {[id |-> id, account |-> trader.account, side |-> side,
    price |-> IF side = "Buy" THEN Unsigned(mid + ticks) ELSE Beneath(mid, ticks),
    qty |-> qty, seq |-> 0] :
     side \in DrawnSides(trader.buy_permille),
     ticks \in GenRange(0, trader.max_aggression),
     qty \in GenRange(trader.min_qty, trader.max_qty)}

\* The accounts of generate_session: there are always two.
FlowAccounts(c) == 1..(IF c.num_accounts < 2 THEN 2 ELSE c.num_accounts)

PopulationAccounts(c) ==
  {c.makers[i].account : i \in 1..Len(c.makers)}
    \union {c.traders[i].account : i \in 1..Len(c.traders)}

\* A population's orders sorted by id and numbered.
Numbered(orders) ==
  LET S == Range(orders)
  IN  {[i \in 1..Len(orders) |-> [by_id[i] EXCEPT !.seq = i - 1]] :
         by_id \in StdSorts(S, {p \in S \X S : p[1].id < p[2].id})}

\* The batch constructor's sort.
AsBatch(orders) ==
  LET S == Range(orders)
      before(a, b) == a.seq < b.seq \/ (a.seq = b.seq /\ a.id < b.id)
  IN  StdSorts(S, {p \in S \X S : before(p[1], p[2])})

----------------------------------------------------------------------------
SimulatorInit ==
  /\ config = NoConfig
  /\ genesis = {}
  /\ next_order_id = 1
  /\ order_count = NoBatch
  /\ batch_orders = << >>
  /\ generated = << >>

\* A call of generate_session or simulate_session: the genesis ledger.
StartSession ==
  /\ config = NoConfig
  /\ config' \in FlowConfigs \union PopulationConfigs
  /\ genesis' = IF config'.kind = "flow" THEN FlowAccounts(config')
                ELSE PopulationAccounts(config')
  /\ next_order_id' = 1
  /\ order_count' = NoBatch
  /\ batch_orders' = << >>
  /\ generated' = << >>

BatchDue ==
  /\ config # NoConfig
  /\ order_count = NoBatch
  /\ Len(generated) < config.num_batches

\* The next batch of independent orders: how many it will have.
OpenFlowBatch ==
  /\ BatchDue
  /\ config.kind = "flow"
  /\ order_count' \in GenRange(config.min_orders, config.max_orders)
  /\ UNCHANGED <<config, genesis, next_order_id, batch_orders, generated>>

\* One independent order.
DrawOrder ==
  /\ order_count > Len(batch_orders)
  /\ config.kind = "flow"
  /\ \E account \in GenRange(1, Cardinality(genesis)),
        side \in DrawnSides(config.buy_permille),
        delta \in GenRange(0, config.spread),
        qty \in GenRange(config.min_qty, config.max_qty) :
       batch_orders' = Append(batch_orders,
         [id |-> next_order_id, account |-> account, side |-> side,
          price |-> FlowPrice(config.mid, delta, side), qty |-> qty,
          seq |-> Len(batch_orders)])
  /\ next_order_id' = next_order_id + 1
  /\ UNCHANGED <<config, genesis, order_count, generated>>

\* The next batch of a population: every market maker quotes, then the takers
\* come, when there are noise traders at all.
OpenPopulationBatch ==
  /\ BatchDue
  /\ config.kind = "population"
  /\ LET m == Len(config.makers)
     IN  /\ batch_orders' =
              [i \in 1..(2 * m) |->
                 QuoteAt(config, (i + 1) \div 2, 2 - (i % 2), next_order_id)]
         /\ next_order_id' = next_order_id + 2 * m
         /\ order_count' = 2 * m
              + (IF config.traders = << >> THEN 0 ELSE config.taker_orders)
  /\ UNCHANGED <<config, genesis, generated>>

\* One taker: a noise trader drawn from the population.
DrawTaker ==
  /\ order_count > Len(batch_orders)
  /\ config.kind = "population"
  /\ \E n \in GenRange(0, Len(config.traders) - 1) :
       \E o \in NoiseOrders(config.traders[n + 1], config.mid, next_order_id) :
         batch_orders' = Append(batch_orders, o)
  /\ next_order_id' = next_order_id + 1
  /\ UNCHANGED <<config, genesis, order_count, generated>>

\* The batch and its preimages join the session.  A population's orders are
\* sorted by id and numbered first.
CloseBatch ==
  /\ order_count = Len(batch_orders)
  /\ \E numbered \in IF config.kind = "flow" THEN {batch_orders}
                      ELSE Numbered(batch_orders) :
       \E sorted \in AsBatch(numbered) :
         generated' = Append(generated,
           [id |-> Len(generated) + 1, orders |-> sorted, preimages |-> numbered])
  /\ order_count' = NoBatch
  /\ batch_orders' = << >>
  /\ UNCHANGED <<config, genesis, next_order_id>>

SimulatorNext ==
  \/ StartSession
  \/ OpenFlowBatch
  \/ DrawOrder
  \/ OpenPopulationBatch
  \/ DrawTaker
  \/ CloseBatch

\* The call has returned.
SessionComplete ==
  /\ config # NoConfig
  /\ order_count = NoBatch
  /\ Len(generated) = config.num_batches

----------------------------------------------------------------------------
(***************************************************************************)
(* Properties                                                              *)
(***************************************************************************)
\* The most ticks an order may be priced away from the mid.
Reach(c) ==
  IF c.kind = "flow" THEN {c.spread}
  ELSE {c.makers[i].half_spread : i \in 1..Len(c.makers)}
         \union {c.traders[i].max_aggression : i \in 1..Len(c.traders)}

\* No price above the mid leaves the word.
PricesFit == \A ticks \in Reach(config) : config.mid + ticks <= MaxRaw

\* However wide the spread is for its mid, a synthetic order is priced within
\* the spread of the mid, and at one or more: what goes below zero is clamped
\* and does not come back as an enormous price.  Upwards nothing is clamped, so
\* this is only said when no price leaves the word.
PricesStayNearTheMid ==
  config # NoConfig /\ PricesFit =>
    \A b \in 1..Len(generated) : \A i \in 1..Len(generated[b].orders) :
      LET price == generated[b].orders[i].price
      IN  /\ price >= 1
          /\ \E ticks \in Reach(config) :
               price \in (config.mid - ticks)..(config.mid + ticks) \union {1}
=============================================================================
