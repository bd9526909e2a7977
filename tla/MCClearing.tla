----------------------------- MODULE MCClearing -----------------------------
(***************************************************************************)
(* Clearing of batches of up to four orders, numbered and sequenced in     *)
(* order of arrival, at prices with a gap so that a midpoint need not be   *)
(* quoted.  The second order may be one that Batch::create refuses.        *)
(***************************************************************************)
EXTENDS Clearing

CONSTANTS Prices, Quantities

Orderly(k) ==
  [id : {k}, account : {1}, instrument : Instruments, side : Sides,
   price : Prices, qty : Quantities, seq : {k}]

Sound == [id |-> 2, account |-> 1, instrument |-> 1, side |-> "Sell", price |-> 1,
          qty |-> 1, seq |-> 2]

Malformed ==
  {[Sound EXCEPT !.instrument = 0], [Sound EXCEPT !.side = "Other"],
   [Sound EXCEPT !.price = 0], [Sound EXCEPT !.qty = 0], [Sound EXCEPT !.id = 1]}

MCArrivals ==
  [k \in 1..MaxOrders |-> IF k = 2 THEN Orderly(k) \cup Malformed ELSE Orderly(k)]
=============================================================================
