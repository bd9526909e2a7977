------------------------------ MODULE MCIntake ------------------------------
(***************************************************************************)
(* Batches of up to three orders whose ids repeat, whose sequence numbers  *)
(* collide or disagree with the ids, and of which some are malformed in    *)
(* each of the ways Batch::create looks for.                               *)
(***************************************************************************)
EXTENDS Clearing

CONSTANTS Prices, Quantities

WellFormedOrders ==
  [id : 1..MaxOrders, account : {1}, instrument : Instruments, side : Sides,
   price : Prices, qty : Quantities, seq : {1, 2}]

Sound(id) == [id |-> id, account |-> 1, instrument |-> CHOOSE i \in Instruments : TRUE,
              side |-> "Buy", price |-> 1, qty |-> 1, seq |-> 1]

Malformed ==
  {[Sound(2) EXCEPT !.instrument = 0], [Sound(2) EXCEPT !.side = "Other"],
   [Sound(2) EXCEPT !.price = 0], [Sound(2) EXCEPT !.qty = 0]}

MCArrivals == [k \in 1..MaxOrders |-> WellFormedOrders \cup Malformed]

(***************************************************************************)
(* What the documents say of the sort keys.                                *)
(***************************************************************************)

\* docs/ARCHITECTURE.md: "Sorting keys are total orders, never unstable
\* implementation details."  The allocation of an accepted batch is the same
\* whatever order std::sort leaves equivalent in-the-money orders in.
AllocationIsDetermined ==
  Crossed =>
    \A s \in SortOutcomes(batch, result.outcome) :
      AllocateBatch(batch, result.outcome, s) = result.alloc
=============================================================================
