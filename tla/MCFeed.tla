------------------------------- MODULE MCFeed -------------------------------
(***************************************************************************)
(* Up to three submissions at any time of a short clock, in any order, cut *)
(* into intervals of any small length from any early start; the sessions   *)
(* of a few configurations, at the low and the high end of a short word.   *)
(***************************************************************************)
EXTENDS Feed

CONSTANT MaxSubmissions

MCSubmissions ==
  UNION {{[i \in 1..n |-> [arrival |-> f[i], order |-> [id |-> i, seq |-> 5]]] :
          f \in [1..n -> 0..MaxTime]} : n \in 0..MaxSubmissions}

MCLimits == {NoLimit, 1, 2}

Flow(accounts, batches, orders, mid, spread, qty, permille) ==
  [kind |-> "flow", num_accounts |-> accounts, num_batches |-> batches,
   min_orders |-> orders[1], max_orders |-> orders[2], mid |-> mid,
   spread |-> spread, min_qty |-> qty[1], max_qty |-> qty[2],
   buy_permille |-> permille]

\* Few contents: what the sweep reads are ids and positions.
MCSwept ==
  {Flow(1, 2, <<1, 2>>, 3, 0, <<1, 1>>, 1000), Flow(3, 1, <<0, 3>>, 3, 0, <<1, 1>>, 0)}

\* Every spread around a low, a middle and a high mid, the trapping one too.
MCFlows ==
  MCSwept
    \union {Flow(2, 2, <<1, 1>>, mid, spread, <<1, 2>>, 500) :
              mid \in {1, 3, MaxRaw}, spread \in {0, 2, 6, MaxRaw}}
    \union {Flow(2, 1, <<2, 0>>, 2, 3, <<0, 1>>, 500)}

Maker(account, half_spread) ==
  [account |-> account, half_spread |-> half_spread, qty |-> 2]

Trader(account, aggression) ==
  [account |-> account, buy_permille |-> 500, max_aggression |-> aggression,
   min_qty |-> 1, max_qty |-> 2]

\* No, one or two makers and traders; an account may be both.
MCPopulations ==
  {[kind |-> "population", mid |-> mid, makers |-> makers, traders |-> traders,
    num_batches |-> 2, taker_orders |-> 1] :
     mid \in {1, 3, MaxRaw},
     makers \in {<< >>, <<Maker(1, 2)>>, <<Maker(1, 4), Maker(3, 0)>>},
     traders \in {<< >>, <<Trader(1, 3)>>, <<Trader(2, 0), Trader(4, 5)>>}}
=============================================================================
