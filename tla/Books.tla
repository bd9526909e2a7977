------------------------------- MODULE Books -------------------------------
(***************************************************************************)
(* Resting orders and the quotes they give (marketdata/book.hpp).  A book  *)
(* is a function from the reference numbers in use to orders.              *)
(***************************************************************************)
EXTENDS Domain

CONSTANT NumRefs    \* order reference numbers range over 1..NumRefs

ASSUME RefRange == NumRefs \in Nat

Ref == 1..NumRefs
BookOrder == [side : Sides, price : Price, shares : Price]

\* The quantity that rests on a side at a price.
Resting(os, side, price) ==
  Total([r \in Ref |->
           IF r \in DOMAIN os /\ os[r].side = side /\ os[r].price = price
           THEN os[r].shares ELSE 0], NumRefs)

PricesOf(os, side) == {os[r].price : r \in {x \in DOMAIN os : os[x].side = side}}

Highest(S) == IF S = {} THEN NoPrice ELSE CHOOSE p \in S : \A q \in S : q <= p
Lowest(S)  == IF S = {} THEN NoPrice ELSE CHOOSE p \in S : \A q \in S : p <= q

\* The midpoint of two prices, rounded down, whichever of them is larger.
Midpoint(bid, ask) ==
  IF NoPrice \in {bid, ask} THEN NoPrice
  ELSE LET low  == IF bid < ask THEN bid ELSE ask
           high == IF bid < ask THEN ask ELSE bid
       IN  low + (high - low) \div 2

QuoteOf(bids, asks) ==
  LET bid == Highest(bids)
      ask == Lowest(asks)
  IN  [bid |-> bid, ask |-> ask, mid |-> Midpoint(bid, ask)]

Without(f, x) == [y \in DOMAIN f \ {x} |-> f[y]]
With(f, x, v) == [y \in DOMAIN f \cup {x} |-> IF y = x THEN v ELSE f[y]]

EmptyBook == [r \in {} |-> 0]
=============================================================================
