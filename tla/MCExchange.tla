----------------------------- MODULE MCExchange -----------------------------
(***************************************************************************)
(* Two batches in a row over two accounts and two instruments.  The cash   *)
(* and the inventory run out, so that batches that clear fail to settle;   *)
(* one ledger lacks an account and one holds more cash than fits a total.  *)
(***************************************************************************)
EXTENDS Exchange

CONSTANTS Prices, Quantities

\* The k-th order is the k-th in sequence.  The third is always a unit of
\* instrument 1, so that both instruments and three-order batches occur.
MCArrivals ==
  [k \in 1..MaxOrders |->
     [id : {k}, account : Account, instrument : IF k < 3 THEN Instruments ELSE {1},
      side : Sides, price : Prices, qty : IF k < 3 THEN Quantities ELSE {1},
      seq : {k}]]

MCLedgers ==
  {[accounts |-> Account, blinded |-> Account, cash |-> <<3, 2>>,
    inv |-> [i \in Instruments |-> IF i = 1 THEN <<1, 2>> ELSE <<1, 0>>]],
   [accounts |-> {1}, blinded |-> {1}, cash |-> <<4, 0>>,
    inv |-> [i \in Instruments |-> <<3, 0>>]],
   [accounts |-> Account, blinded |-> {1}, cash |-> <<MaxMoney, 2>>,
    inv |-> [i \in Instruments |-> <<0, 2>>]]}
=============================================================================
