------------------------------ MODULE Clearing ------------------------------
(***************************************************************************)
(* From submitted orders to canonical fills: Batch::create                 *)
(* (engine/batch.cpp), then the pure part of execute_batch                 *)
(* (engine/transition.cpp): determine_clearing_outcome, allocate_batch and *)
(* generate_canonical_fills (engine/fill.cpp).                             *)
(*                                                                         *)
(* Orders arrive one at a time in any order and with any contents; the     *)
(* batch is created from what has arrived and executed once.               *)
(***************************************************************************)
EXTENDS Allocation

CONSTANTS
  MaxOrders,     \* bound: orders submitted to one batch
  Arrivals       \* Arrivals[k]: the orders the k-th submission ranges over

\* Ids and sequence numbers are unsigned, prices and quantities are words.  A
\* submitted price or quantity may be zero, and a side out of range.
ASSUME ArrivalTypes ==
  /\ MaxOrders \in Nat
  /\ \A k \in 1..MaxOrders : \A o \in Arrivals[k] :
       o.id \in Nat /\ o.seq \in Nat /\ o.price \in Qty /\ o.qty \in Qty

VARIABLES
  stage,     \* "intake", "batched", "executed" or "rejected"
  intake,    \* the vector of orders handed to Batch::create
  batch,     \* Batch::orders_, in canonical order
  inst,      \* Batch::instrument_
  sorted,    \* what the in-the-money sorts of this build return
  result,    \* outcome, allocation and fills
  error      \* why the batch was rejected, or "ok"

clearingVars == <<stage, intake, batch, inst, sorted, result, error>>

NoResult == [outcome |-> Outcome(TRUE, NoPrice, 0), alloc |-> << >>,
             fills |-> << >>]

----------------------------------------------------------------------------
(***************************************************************************)
(* Batch::create validates the orders one by one and reports the first     *)
(* check that fails; it does not look at sequence numbers.                 *)
(***************************************************************************)
OrderError(orders, i, instrument) ==
  LET o == orders[i]
  IN  IF o.instrument # instrument THEN "InstrumentMismatch"
      ELSE IF o.side \notin Sides THEN "InvalidSide"
      ELSE IF o.price = 0 THEN "ZeroPrice"
      ELSE IF o.qty = 0 THEN "ZeroQty"
      ELSE IF \E j \in 1..(i - 1) : orders[j].id = o.id THEN "DuplicateOrderId"
      ELSE "ok"

BatchError(orders, instrument) ==
  LET bad == {i \in 1..Len(orders) : OrderError(orders, i, instrument) # "ok"}
  IN  IF bad = {} THEN "ok"
      ELSE OrderError(orders, CHOOSE i \in bad : \A j \in bad : i <= j,
                      instrument)

\* Variant: sorted by id alone.
IdBefore(a, b) == a.id < b.id

\* The constructor's sort key.
CanonicalBefore(a, b) ==
  IF a.seq # b.seq THEN a.seq < b.seq ELSE a.id < b.id

CanonicalOrders(orders) ==
  LET S == Range(orders)
  IN  StdSorts(S, {p \in S \X S : CanonicalBefore(p[1], p[2])})

\* Variant: the account is left at a default.
FillForFirstAccount(fill_id, o, instrument, price, qty) ==
  [fill_id |-> fill_id, order_id |-> o.id, account |-> 1,
   instrument |-> instrument, side |-> o.side, execution_price |-> price,
   fill_qty |-> qty, consideration |-> FromPriceQty(price, qty)]

\* Fill::create.
FillCreate(fill_id, o, instrument, price, qty) ==
  [fill_id |-> fill_id, order_id |-> o.id, account |-> o.account,
   instrument |-> instrument, side |-> o.side, execution_price |-> price,
   fill_qty |-> qty, consideration |-> FromPriceQty(price, qty)]

\* fill_id after the loop of generate_canonical_fills has passed i orders.
FillId(orders, alloc, i) ==
  Total([k \in 1..Len(orders) |-> IF alloc[k] > 0 THEN 1 ELSE 0], i)

\* The order that the k-th fill pushed is for.
FilledOrder(orders, alloc, k) ==
  CHOOSE i \in 1..Len(orders) : alloc[i] > 0 /\ FillId(orders, alloc, i) = k

\* Variant: each order executes at its own limit.
FillsAtLimit(orders, instrument, outcome, alloc) ==
  [k \in 1..FillId(orders, alloc, Len(orders)) |->
     LET i == FilledOrder(orders, alloc, k)
     IN  FillCreate(k - 1, orders[i], instrument, orders[i].price, alloc[i])]

\* generate_canonical_fills: one fill per non-zero allocation, in batch order.
GenerateCanonicalFills(orders, instrument, outcome, alloc) ==
  IF outcome.clearing_price = NoPrice \/ outcome.executable_volume = 0
  THEN << >>
  ELSE [k \in 1..FillId(orders, alloc, Len(orders)) |->
          LET i == FilledOrder(orders, alloc, k)
          IN  FillCreate(k - 1, orders[i], instrument, outcome.clearing_price,
                         alloc[i])]

\* The value execute_batch computes before it touches the ledger.
ExecutionOf(orders, instrument, outcome, sorts) ==
  LET alloc == AllocateBatch(orders, outcome, sorts)
  IN  [outcome |-> outcome, alloc |-> alloc,
       fills |-> GenerateCanonicalFills(orders, instrument, outcome, alloc)]

----------------------------------------------------------------------------
ClearingInit ==
  /\ stage = "intake"
  /\ intake = << >>
  /\ batch = << >>
  /\ inst \in Instruments
  /\ sorted = [Buy |-> << >>, Sell |-> << >>]
  /\ result = NoResult
  /\ error = "ok"

\* A participant's order joins the vector for the next batch.
Receive ==
  /\ stage = "intake"
  /\ Len(intake) < MaxOrders
  /\ \E o \in Arrivals[Len(intake) + 1] : intake' = Append(intake, o)
  /\ UNCHANGED <<stage, batch, inst, sorted, result, error>>

\* Batch::create succeeds and sorts the orders canonically.
CreateBatch ==
  /\ stage = "intake"
  /\ BatchError(intake, inst) = "ok"
  /\ batch' \in CanonicalOrders(intake)
  /\ stage' = "batched"
  /\ UNCHANGED <<intake, inst, sorted, result, error>>

\* Batch::create refuses the whole vector.
RejectBatch ==
  /\ stage = "intake"
  /\ BatchError(intake, inst) # "ok"
  /\ error' = BatchError(intake, inst)
  /\ stage' = "rejected"
  /\ UNCHANGED <<intake, batch, inst, sorted, result>>

\* execute_batch up to the fills.
ExecuteBatch ==
  /\ stage = "batched"
  /\ LET outcome == DetermineClearingOutcome(batch)
     IN  /\ outcome.ok
         /\ sorted' \in SortOutcomes(batch, outcome)
         /\ result' = ExecutionOf(batch, inst, outcome, sorted')
  /\ stage' = "executed"
  /\ UNCHANGED <<intake, batch, inst, error>>

\* determine_clearing_outcome fails: a running sum overflows.
ClearingFails ==
  /\ stage = "batched"
  /\ CurvesOverflow(batch)
  /\ error' = "ArithmeticOverflow"
  /\ stage' = "rejected"
  /\ UNCHANGED <<intake, batch, inst, sorted, result>>

ClearingNext ==
  \/ Receive
  \/ CreateBatch
  \/ RejectBatch
  \/ ExecuteBatch
  \/ ClearingFails

ClearingSpec == ClearingInit /\ [][ClearingNext]_clearingVars

----------------------------------------------------------------------------
(***************************************************************************)
(* Properties                                                              *)
(***************************************************************************)
Orders == 1..Len(batch)
ClearingPrice == result.outcome.clearing_price
Volume == result.outcome.executable_volume
Crossed == stage = "executed" /\ ClearingPrice # NoPrice

\* Batch::create accepts a vector only as the batch that lists the same orders
\* by (sequence, id), each id once: the order in which they arrived is gone.
BatchIsCanonical ==
  stage \in {"batched", "executed"} =>
    /\ Range(batch) = Range(intake) /\ Len(batch) = Len(intake)
    /\ \A i, j \in Orders :
         i < j => /\ batch[i].id # batch[j].id
                  /\ \/ batch[i].seq < batch[j].seq
                     \/ batch[i].seq = batch[j].seq /\ batch[i].id < batch[j].id

\* compute_volume_maximizers_from_orders: the bucketed running sums are the
\* curves of demand_from_orders and supply_from_orders at every price, and they
\* overflow exactly when those do.
CurvesAgree ==
  stage = "batched" =>
    IF CurvesOverflow(batch)
    THEN Err \in {DemandFromOrders(batch, 1), SupplyFromOrders(batch, MaxRaw)}
    ELSE \A p \in Price : /\ RunningDemand(batch, p) = DemandFromOrders(batch, p)
                          /\ RunningSupply(batch, p) = SupplyFromOrders(batch, p)

\* determine_clearing_outcome: no price, candidate or not, executes more than
\* the volume chosen, and the price chosen executes exactly that volume, even
\* when it is a midpoint that no order quotes.
ClearsMaximumVolume ==
  stage = "executed" =>
    LET at(p) == Smaller(DemandFromOrders(batch, p), SupplyFromOrders(batch, p))
    IN  /\ \A p \in Price : at(p) <= Volume
        /\ IF Volume > 0 THEN ClearingPrice \in Price /\ at(ClearingPrice) = Volume
                         ELSE ClearingPrice = NoPrice

\* allocate_batch hands out exactly the executable volume on each side: the
\* greedy pass, the floors, the surplus units and the clamp lose nothing.
AllocationMeetsVolume ==
  stage = "executed" =>
    \A side \in Sides : AllocatedTo(batch, result.alloc, side) = Volume

\* allocate_side: nobody is filled while a better-priced order of the same side
\* is short, nor, inside the money, while an earlier order of the same price is.
PriceTimePriority ==
  Crossed =>
    \A i, j \in Orders :
      /\ batch[i].side = batch[j].side
      /\ result.alloc[j] > 0
      /\ \/ batch[i].side = "Buy" /\ batch[i].price > batch[j].price
         \/ batch[i].side = "Sell" /\ batch[i].price < batch[j].price
         \/ /\ batch[i].price = batch[j].price
            /\ batch[i].price # ClearingPrice
            /\ batch[i].seq < batch[j].seq
      => result.alloc[i] = batch[i].qty

\* allocate_side at the clearing price: every order gets its exact pro-rata
\* quota rounded down or up, a larger order never gets less than a smaller
\* one, and of two equal orders the earlier never gets less.
ProRataIsFair ==
  Crossed =>
    \A side \in Sides :
      LET atm == Classified(batch, ClearingPrice, side, "AtTheMoney")
          all == QtyOf(batch, atm)
          got == Total([i \in Orders |-> IF i \in atm THEN result.alloc[i] ELSE 0],
                       Len(batch))
      IN  \A i \in atm :
            /\ result.alloc[i] * all - batch[i].qty * got \in (1 - all)..(all - 1)
            /\ \A j \in atm :
                 \/ batch[i].qty > batch[j].qty
                 \/ /\ batch[i].qty = batch[j].qty
                    /\ batch[i].seq < batch[j].seq
                 => result.alloc[i] >= result.alloc[j]

\* generate_canonical_fills: each filled order has one fill, within its
\* quantity and its limit, numbered in batch order; and what the buyers pay is
\* what the sellers receive.
FillsAreSound ==
  stage = "executed" =>
    LET fills == result.fills
        paid(side) == Total([k \in 1..Len(fills) |->
                               IF fills[k].side = side
                               THEN fills[k].consideration ELSE 0], Len(fills))
    IN  /\ paid("Buy") = paid("Sell")
        /\ paid("Buy") = ClearingPrice * Volume
        /\ \A k \in 1..Len(fills) : \E i \in Orders :
             /\ fills[k].order_id = batch[i].id
             /\ fills[k].fill_qty \in 1..batch[i].qty
             /\ IF batch[i].side = "Buy"
                THEN fills[k].execution_price <= batch[i].price
                ELSE fills[k].execution_price >= batch[i].price
             /\ \A m \in 1..(k - 1) : \E j \in 1..(i - 1) :
                  fills[m].order_id = batch[j].id /\ fills[m].fill_id < fills[k].fill_id
=============================================================================
