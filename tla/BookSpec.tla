------------------------------ MODULE BookSpec ------------------------------
(***************************************************************************)
(* What an order book promises: it is its resting orders.  A quote is the  *)
(* best price of each side among them and the midpoint of the two, and a   *)
(* change is refused when the quantity resting at a price would not fit.   *)
(* There is no second index that could disagree.                           *)
(***************************************************************************)
EXTENDS Books

VARIABLES
  orders,    \* the resting orders, by reference number
  quote      \* the last quote published

BookInit == orders = EmptyBook /\ quote = QuoteOf({}, {})

Publish == quote' = QuoteOf(PricesOf(orders', "Buy"), PricesOf(orders', "Sell"))

Rests(ref, order) ==
  /\ ref \in Ref
  /\ order \in BookOrder
  /\ ref \notin DOMAIN orders
  /\ orders' = With(orders, ref, order)
  /\ Resting(orders, order.side, order.price) + order.shares <= MaxRaw
  /\ Publish

Shrinks(ref, shares) ==
  /\ ref \in DOMAIN orders
  /\ shares \in 1..orders[ref].shares
  /\ orders' = IF shares = orders[ref].shares THEN Without(orders, ref)
               ELSE [orders EXCEPT ![ref].shares = @ - shares]
  /\ Publish

\* The order leaves and its replacement, of the same side, rests in one step.
Moves(ref, new, price, shares) ==
  /\ ref \in DOMAIN orders
  /\ LET order == [side |-> orders[ref].side, price |-> price, shares |-> shares]
         left  == Without(orders, ref)
     IN  /\ new \in Ref \ DOMAIN left
         /\ order \in BookOrder
         /\ orders' = With(left, new, order)
         /\ Resting(left, order.side, price) + shares <= MaxRaw
  /\ Publish

BookNext ==
  \/ \E ref \in Ref, order \in BookOrder : Rests(ref, order)
  \/ \E ref \in Ref, shares \in Price : Shrinks(ref, shares)
  \/ \E ref, new \in Ref, price, shares \in Price : Moves(ref, new, price, shares)

Book == BookInit /\ [][BookNext]_<<orders, quote>>
=============================================================================
