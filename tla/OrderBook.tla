----------------------------- MODULE OrderBook -----------------------------
(***************************************************************************)
(* The Level-3 order book and what one message does to it                  *)
(* (marketdata/book.cpp, marketdata/bridge.hpp, ItchReplayEngine::step).   *)
(* The book keeps two indexes, the resting orders by reference number and  *)
(* the aggregate quantity by price on each side; every message updates     *)
(* both or neither.  After a message that is applied the engine records a  *)
(* quote.  Which messages arrive is the business of Replay.                *)
(***************************************************************************)
EXTENDS Books

CONSTANT Timestamps   \* message timestamps; nothing makes them increase

VARIABLES
  orders,      \* orders_by_ref_
  levels,      \* bids_by_price_ and asks_by_price_, by side
  clock,       \* last_timestamp_nanos_
  quote,       \* the prices of the last entry of bbo_history_
  quoted_at    \* its timestamp

bookVars == <<orders, levels, clock, quote, quoted_at>>

\* The raw values a message may carry: any word, zero included.
Word == 0..MaxRaw

\* levels.find(p) on an index that may lack the price.
LevelAt(side, price) ==
  IF price \in DOMAIN levels[side] THEN levels[side][price] ELSE 0

\* Variant: the best ask taken from the far end of its index.
FarAskQuote(ls) ==
  LET bid == Highest(DOMAIN ls.Buy)
      ask == Highest(DOMAIN ls.Sell)
  IN  [bid |-> bid, ask |-> ask, mid |-> Midpoint(bid, ask)]

\* best_bid, best_ask and mid_price read the price indexes, not the orders.
BestQuote(ls) == QuoteOf(DOMAIN ls.Buy, DOMAIN ls.Sell)

OrderBookInit ==
  /\ orders = EmptyBook
  /\ levels = [s \in Sides |-> [p \in {} |-> 0]]
  /\ clock = 0
  /\ quote = BestQuote(levels)
  /\ quoted_at = 0

\* Variant: the quote is taken before the message takes effect.
AppliedEarly(timestamp) ==
  /\ clock' = timestamp
  /\ quote' = BestQuote(levels)
  /\ quoted_at' = timestamp

\* apply_message sets the clock first; step then records the quote.
Applied(timestamp) ==
  /\ clock' = timestamp
  /\ quote' = BestQuote(levels')
  /\ quoted_at' = timestamp

----------------------------------------------------------------------------
CanAdd(ref, side, price, shares) ==
  /\ side \in Sides
  /\ price # 0
  /\ shares # 0
  /\ ref \notin DOMAIN orders
  /\ CheckedAdd(LevelAt(side, price), shares, MaxRaw) # Err

\* add_order.
AddOrder(ref, side, price, shares) ==
  /\ CanAdd(ref, side, price, shares)
  /\ orders' = With(orders, ref,
                         [side |-> side, price |-> price, shares |-> shares])
  /\ levels' = [levels EXCEPT ![side] =
                  With(@, price, LevelAt(side, price) + shares)]

CanExecute(ref, shares) ==
  /\ ref \in DOMAIN orders
  /\ shares # 0
  /\ shares <= orders[ref].shares

\* Variant: a level that has become empty stays.
ExecuteKeepsLevel(ref, shares) ==
  /\ CanExecute(ref, shares)
  /\ LET o    == orders[ref]
         left == SaturatingSub(LevelAt(o.side, o.price), shares)
     IN  /\ orders' = IF shares = o.shares THEN Without(orders, ref)
                      ELSE [orders EXCEPT ![ref].shares = SaturatingSub(@, shares)]
         /\ levels' = [levels EXCEPT ![o.side] = With(@, o.price, left)]

\* execute_order, which executions, cancels and deletes come down to.  Only
\* the branch that removes the order looks for an empty level.
ExecuteOrder(ref, shares) ==
  /\ CanExecute(ref, shares)
  /\ LET o    == orders[ref]
         left == SaturatingSub(LevelAt(o.side, o.price), shares)
     IN  IF shares = o.shares
         THEN /\ orders' = Without(orders, ref)
              /\ levels' = [levels EXCEPT ![o.side] =
                              IF left = 0 THEN Without(@, o.price)
                                          ELSE With(@, o.price, left)]
         ELSE /\ orders' = [orders EXCEPT ![ref].shares = SaturatingSub(@, shares)]
              /\ levels' = [levels EXCEPT ![o.side] = With(@, o.price, left)]

\* delete_order.
DeleteOrder(ref) ==
  /\ ref \in DOMAIN orders
  /\ ExecuteOrder(ref, orders[ref].shares)

\* What replace_order computes before it changes anything: the old level
\* without the order, and the level the replacement joins.
OldRemaining(ref) ==
  CheckedSub(LevelAt(orders[ref].side, orders[ref].price), orders[ref].shares)

\* Variant: a replacement at the same price joins the level the old order
\* still counts in.
NewBaseAsFound(ref, price) == LevelAt(orders[ref].side, price)

NewBase(ref, price) ==
  IF price = orders[ref].price THEN OldRemaining(ref)
                               ELSE LevelAt(orders[ref].side, price)

\* The two indexes agree on the order: what replace_order reports as "Order
\* book index inconsistency", or as an underflow, when they do not.
Indexed(ref) ==
  /\ orders[ref].price \in DOMAIN levels[orders[ref].side]
  /\ OldRemaining(ref) # Err

CanReplace(ref, new, shares, price) ==
  /\ ref \in DOMAIN orders
  /\ new # ref => new \notin DOMAIN orders
  /\ price # 0
  /\ shares # 0
  /\ Indexed(ref)
  /\ CheckedAdd(NewBase(ref, price), shares, MaxRaw) # Err

\* replace_order: both indexes change after every check has passed.
ReplaceOrder(ref, new, shares, price) ==
  /\ CanReplace(ref, new, shares, price)
  /\ LET o == orders[ref]
         old == OldRemaining(ref)
         vacated == IF price = o.price THEN levels[o.side]
                    ELSE IF old = 0 THEN Without(levels[o.side], o.price)
                    ELSE With(levels[o.side], o.price, old)
     IN  /\ orders' = With(Without(orders, ref), new,
                        [side |-> o.side, price |-> price, shares |-> shares])
         /\ levels' = [levels EXCEPT ![o.side] =
                         With(vacated, price, NewBase(ref, price) + shares)]

----------------------------------------------------------------------------
(***************************************************************************)
(* ItchReplayEngine::step, by message type.  What a message says beyond    *)
(* its type and its side is any word.                                      *)
(***************************************************************************)
StepAdd(side) == \E ref \in Ref, price, shares \in Word, t \in Timestamps :
  AddOrder(ref, side, price, shares) /\ Applied(t)

\* OrderExecuted, OrderExecutedWithPrice and OrderCancel.
StepExecute == \E ref \in Ref, shares \in Word, t \in Timestamps :
  ExecuteOrder(ref, shares) /\ Applied(t)

StepDelete == \E ref \in Ref, t \in Timestamps : DeleteOrder(ref) /\ Applied(t)

StepReplace == \E ref, new \in Ref, shares, price \in Word, t \in Timestamps :
  ReplaceOrder(ref, new, shares, price) /\ Applied(t)

\* SystemEvent and StockDirectory.
StepAdministrative == \E t \in Timestamps :
  UNCHANGED <<orders, levels>> /\ Applied(t)

\* A message of the type can be one the book refuses.
RefusesAdd(side) == \E ref \in Ref, price, shares \in Word :
  ~CanAdd(ref, side, price, shares)
RefusesExecute == \E ref \in Ref, shares \in Word : ~CanExecute(ref, shares)
RefusesReplace == \E ref, new \in Ref, shares, price \in Word :
  ~CanReplace(ref, new, shares, price)

\* A message that is refused: an error is returned and no quote is recorded,
\* but apply_message has set the clock.
Refused ==
  /\ clock' \in Timestamps
  /\ UNCHANGED <<orders, levels, quote, quoted_at>>

\* current_reference_price_snapshot: the midpoint, stamped with the clock.
ReferencePriceSnapshot ==
  [price |-> BestQuote(levels).mid, timestamp |-> clock]

----------------------------------------------------------------------------
(***************************************************************************)
(* Properties                                                              *)
(***************************************************************************)
OrderBookTypeOK ==
  /\ DOMAIN orders \subseteq Ref
  /\ \A r \in DOMAIN orders : orders[r] \in BookOrder
  /\ DOMAIN levels = Sides
  /\ \A s \in Sides :
       /\ DOMAIN levels[s] \subseteq Price
       /\ \A p \in DOMAIN levels[s] : levels[s][p] \in Price
  /\ clock \in Timestamps \cup {0}

\* The two indexes agree after any sequence of adds, partial executions,
\* deletes and replaces: the aggregate at a price is the sum of what rests
\* there, and a price with nothing resting has no level.  The inconsistency
\* that replace_order looks for never arises.
LevelsMatchOrders ==
  \A s \in Sides, p \in Price :
    /\ LevelAt(s, p) = Resting(orders, s, p)
    /\ p \in DOMAIN levels[s] <=> Resting(orders, s, p) > 0

Promised == INSTANCE BookSpec

\* The book with its two indexes is a book of resting orders: quotes computed
\* from the price index are the best prices among the orders, what rests at a
\* price never exceeds its width, and a message that is refused changes neither
\* orders nor quote.
RefinesBookSpec == Promised!Book

\* The reference price handed to the auction is the midpoint of the resting
\* orders as they are now, also after messages that were refused.
SnapshotIsCurrent ==
  ReferencePriceSnapshot.price =
    Midpoint(Highest(PricesOf(orders, "Buy")),
                  Lowest(PricesOf(orders, "Sell")))
=============================================================================
