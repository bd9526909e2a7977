---------------------------- MODULE InputProofs ----------------------------
(***************************************************************************)
(* What comes into the venue: the order book a replay keeps, and the       *)
(* sources of batches.                                                     *)
(*                                                                         *)
(* The order book under any sequence of replay calls, for every number of  *)
(* references, word width, set of frames and buffer length: the aggregate  *)
(* at a price is the sum of what rests there.  That the book keeps it so,  *)
(* message by message, rests on how Resting changes when one order comes,  *)
(* goes or shrinks; all else follows from the agreement of the two         *)
(* indexes.                                                                *)
(*                                                                         *)
(* The sources, for every configuration, stream, clock and limit: where    *)
(* partition_stream cuts the sorted stream, and what every order the       *)
(* simulators make is like.                                                *)
(***************************************************************************)
EXTENDS Replay, Feed, TotalTheorems, FiniteSetTheorems

----------------------------------------------------------------------------
(***************************************************************************)
(* What rests at a price                                                   *)
(***************************************************************************)
\* A book as the invariant knows it.
IsBook(os) ==
  /\ os = [r \in DOMAIN os |-> os[r]]
  /\ DOMAIN os \subseteq Ref
  /\ \A r \in DOMAIN os : os[r] \in BookOrder

\* What one reference contributes to a level.
Part(os, r, side, price) ==
  IF r \in DOMAIN os /\ os[r].side = side /\ os[r].price = price
  THEN os[r].shares ELSE 0

LEMMA PartNat ==
  ASSUME NEW os, IsBook(os), NEW side, NEW price, NEW r
  PROVE  Part(os, r, side, price) \in Nat
  BY WordWidth DEF IsBook, Part, BookOrder, Price

LEMMA RestingIsTotal ==
  ASSUME NEW os, NEW side, NEW price
  PROVE  Resting(os, side, price)
           = Total([r \in Ref |-> Part(os, r, side, price)], NumRefs)
  BY DEF Resting, Part

LEMMA RestingNat ==
  ASSUME NEW os, IsBook(os), NEW side, NEW price
  PROVE  Resting(os, side, price) \in Nat
<1> DEFINE f == [r \in Ref |-> Part(os, r, side, price)]
<1>1. \A r \in 1..NumRefs : f[r] \in Nat
  BY PartNat DEF Ref
<1>2. Total(f, NumRefs) \in Nat
  <2> HIDE DEF f
  <2>1. QED
    BY <1>1, RefRange, TotalNat
<1>3. QED
  BY <1>2, RestingIsTotal

\* Two books that differ at one reference.
LEMMA RestingUpdate ==
  ASSUME NEW os, IsBook(os), NEW new, IsBook(new), NEW ref \in Ref,
         NEW side, NEW price,
         \A r \in Ref \ {ref} : Part(new, r, side, price) = Part(os, r, side, price)
  PROVE  Resting(new, side, price)
           = Resting(os, side, price)
               + (Part(new, ref, side, price) - Part(os, ref, side, price))
<1> DEFINE f == [r \in Ref |-> Part(os, r, side, price)]
           g == [r \in Ref |-> Part(new, r, side, price)]
<1>1. \A r \in 1..NumRefs : f[r] \in Int /\ g[r] \in Int
  BY PartNat DEF Ref
<1>2. \A r \in 1..NumRefs : r # ref => g[r] = f[r]
  BY DEF Ref
<1>3. Total(g, NumRefs) = Total(f, NumRefs) + (g[ref] - f[ref])
  <2> HIDE DEF f, g
  <2>1. QED
    BY <1>1, <1>2, RefRange, TotalUpdate DEF Ref
<1>4. QED
  BY <1>3, RestingIsTotal

\* No order is larger than its level.
LEMMA PartOfResting ==
  ASSUME NEW os, IsBook(os), NEW ref \in Ref, NEW side, NEW price
  PROVE  Part(os, ref, side, price) <= Resting(os, side, price)
<1> DEFINE rest == Without(os, ref)
<1>1. IsBook(rest)
  BY DEF IsBook, Without
<1>2. Part(rest, ref, side, price) = 0
  BY DEF Part, Without
<1>3. \A r \in Ref \ {ref} : Part(os, r, side, price) = Part(rest, r, side, price)
  BY DEF Part, Without
<1>4. Resting(os, side, price)
        = Resting(rest, side, price) + (Part(os, ref, side, price) - 0)
  <2> HIDE DEF rest
  <2>1. QED
    BY <1>1, <1>2, <1>3, RestingUpdate
<1>5. Resting(rest, side, price) \in Nat
  <2> HIDE DEF rest
  <2>1. QED
    BY <1>1, RestingNat
<1>6. QED
  BY <1>4, <1>5, PartNat

\* Something rests at a price exactly when an order quotes it.
LEMMA RestingPositive ==
  ASSUME NEW os, IsBook(os), NEW side, NEW price
  PROVE  Resting(os, side, price) > 0 <=> price \in PricesOf(os, side)
<1>1. ASSUME price \in PricesOf(os, side)
      PROVE  Resting(os, side, price) > 0
  <2>1. PICK r \in DOMAIN os : os[r].side = side /\ os[r].price = price
    BY <1>1 DEF PricesOf
  <2>2. Part(os, r, side, price) > 0 /\ r \in Ref
    BY <2>1, WordWidth DEF Part, IsBook, BookOrder, Price
  <2>3. QED
    BY <2>2, PartOfResting, PartNat, RestingNat
<1>2. ASSUME price \notin PricesOf(os, side)
      PROVE  Resting(os, side, price) = 0
  <2> DEFINE f == [r \in Ref |-> Part(os, r, side, price)]
             z == [r \in Ref |-> 0]
  <2>1. \A r \in 1..NumRefs : f[r] = 0
    BY <1>2 DEF PricesOf, Part, Ref
  <2>2. Total(f, NumRefs) = 0
    <3> HIDE DEF f
    <3>1. QED
      BY <2>1, RefRange, TotalOfZeros
  <2>3. QED
    BY <2>2, RestingIsTotal
<1>3. QED
  BY <1>1, <1>2

\* An order comes under a reference that is not in use.
LEMMA RestingWith ==
  ASSUME NEW os, IsBook(os), NEW ref \in Ref, ref \notin DOMAIN os,
         NEW order \in BookOrder, NEW side, NEW price
  PROVE  /\ IsBook(With(os, ref, order))
         /\ Resting(With(os, ref, order), side, price)
              = Resting(os, side, price)
                  + (IF order.side = side /\ order.price = price
                     THEN order.shares ELSE 0)
<1> DEFINE new == With(os, ref, order)
<1>1. IsBook(new)
  BY DEF IsBook, With
<1>2. Part(os, ref, side, price) = 0
  BY DEF Part
<1>3. Part(new, ref, side, price)
        = IF order.side = side /\ order.price = price THEN order.shares ELSE 0
  BY DEF Part, With
<1>4. \A r \in Ref \ {ref} : Part(new, r, side, price) = Part(os, r, side, price)
  BY DEF Part, With
<1>5. Resting(new, side, price)
        = Resting(os, side, price)
            + (Part(new, ref, side, price) - Part(os, ref, side, price))
  <2> HIDE DEF new
  <2>1. QED
    BY <1>1, <1>4, RestingUpdate
<1>6. Part(new, ref, side, price) \in Nat
  <2> HIDE DEF new
  <2>1. QED
    BY <1>1, PartNat
<1>7. QED
  BY <1>1, <1>2, <1>3, <1>5, <1>6

\* An order goes.
LEMMA RestingWithout ==
  ASSUME NEW os, IsBook(os), NEW ref \in DOMAIN os, NEW side, NEW price
  PROVE  /\ IsBook(Without(os, ref))
         /\ Resting(Without(os, ref), side, price)
              = Resting(os, side, price) - Part(os, ref, side, price)
<1> DEFINE new == Without(os, ref)
<1>1. IsBook(new) /\ ref \in Ref
  BY DEF IsBook, Without
<1>2. Part(new, ref, side, price) = 0
  BY DEF Part, Without
<1>3. \A r \in Ref \ {ref} : Part(new, r, side, price) = Part(os, r, side, price)
  BY DEF Part, Without
<1>4. Resting(new, side, price)
        = Resting(os, side, price)
            + (Part(new, ref, side, price) - Part(os, ref, side, price))
  <2> HIDE DEF new
  <2>1. QED
    BY <1>1, <1>3, RestingUpdate
<1>5. Part(os, ref, side, price) \in Nat /\ Resting(os, side, price) \in Nat
  BY PartNat, RestingNat
<1>6. QED
  BY <1>1, <1>2, <1>4, <1>5

\* An order shrinks.
LEMMA RestingShrunk ==
  ASSUME NEW os, IsBook(os), NEW ref \in DOMAIN os, NEW left \in Price,
         NEW side, NEW price
  PROVE  LET new == [os EXCEPT ![ref].shares = left]
         IN  /\ IsBook(new)
             /\ Resting(new, side, price)
                  = Resting(os, side, price)
                      - (IF os[ref].side = side /\ os[ref].price = price
                         THEN os[ref].shares - left ELSE 0)
<1> DEFINE new == [os EXCEPT ![ref].shares = left]
<1>1. /\ DOMAIN new = DOMAIN os
      /\ new[ref] = [os[ref] EXCEPT !.shares = left]
      /\ \A r \in DOMAIN os \ {ref} : new[r] = os[r]
      /\ new = [r \in DOMAIN new |-> new[r]]
      /\ os[ref] \in BookOrder /\ ref \in Ref
  BY DEF IsBook
<1>2. /\ new[ref].side = os[ref].side /\ new[ref].price = os[ref].price
      /\ new[ref].shares = left /\ new[ref] \in BookOrder
      /\ os[ref].shares \in Price
  <2> HIDE DEF new
  <2>1. QED
    BY <1>1 DEF BookOrder
<1>3. IsBook(new)
  <2> HIDE DEF new
  <2>1. QED
    BY <1>1, <1>2 DEF IsBook
<1>4. Resting(new, side, price)
        = Resting(os, side, price)
            + (Part(new, ref, side, price) - Part(os, ref, side, price))
  <2> HIDE DEF new
  <2>1. \A r \in Ref \ {ref} :
          Part(new, r, side, price) = Part(os, r, side, price)
    BY <1>1 DEF Part
  <2>2. QED
    BY <1>1, <1>3, <2>1, RestingUpdate
<1>5. /\ Part(os, ref, side, price)
           = IF os[ref].side = side /\ os[ref].price = price
             THEN os[ref].shares ELSE 0
      /\ Part(new, ref, side, price)
           = IF os[ref].side = side /\ os[ref].price = price
             THEN left ELSE 0
  <2> HIDE DEF new
  <2>1. QED
    BY <1>1, <1>2 DEF Part
<1>6. left \in Nat /\ os[ref].shares \in Nat /\ Resting(os, side, price) \in Nat
  BY <1>2, WordWidth, RestingNat DEF Price
<1>7. QED
  <2> HIDE DEF new
  <2>1. Resting(new, side, price)
          = Resting(os, side, price)
              - (IF os[ref].side = side /\ os[ref].price = price
                 THEN os[ref].shares - left ELSE 0)
    BY <1>4, <1>5, <1>6
  <2>2. QED
    BY <1>3, <2>1 DEF new

----------------------------------------------------------------------------
(***************************************************************************)
(* The index of prices                                                     *)
(***************************************************************************)
\* The index is the one the orders determine, and every level fits a word.
Matches(os, ls) ==
  /\ DOMAIN ls = Sides
  /\ \A s \in Sides :
       /\ DOMAIN ls[s] = {p \in Price : Resting(os, s, p) > 0}
       /\ \A p \in DOMAIN ls[s] :
            ls[s][p] = Resting(os, s, p) /\ ls[s][p] \in Price

\* The book changes at one price, and the index there with it.
LEMMA LevelChange ==
  ASSUME NEW os, IsBook(os), NEW ls, Matches(os, ls), NEW new, IsBook(new),
         NEW side \in Sides, NEW price \in Price, NEW left,
         left = Resting(new, side, price), left <= MaxRaw,
         \A s \in Sides, p \in Price : s # side \/ p # price =>
            Resting(new, s, p) = Resting(os, s, p)
  PROVE  Matches(new, [ls EXCEPT ![side] =
                         IF left = 0 THEN Without(@, price)
                                     ELSE With(@, price, left)])
<1> DEFINE at == IF left = 0 THEN Without(ls[side], price)
                             ELSE With(ls[side], price, left)
           lv == [ls EXCEPT ![side] = at]
<1>1. left \in Nat
  BY RestingNat
<1>2. DOMAIN lv = Sides /\ lv[side] = at /\ \A s \in Sides \ {side} : lv[s] = ls[s]
  BY DEF Matches
<1>3. ASSUME NEW s \in Sides, s # side
      PROVE  /\ DOMAIN lv[s] = {p \in Price : Resting(new, s, p) > 0}
             /\ \A p \in DOMAIN lv[s] :
                  lv[s][p] = Resting(new, s, p) /\ lv[s][p] \in Price
  <2> HIDE DEF lv
  <2>1. \A p \in Price : Resting(new, s, p) = Resting(os, s, p)
    BY <1>3
  <2>2. QED
    BY <1>2, <1>3, <2>1 DEF Matches
<1>4. /\ DOMAIN at = {p \in Price : Resting(new, side, p) > 0}
      /\ \A p \in DOMAIN at :
           at[p] = Resting(new, side, p) /\ at[p] \in Price
  <2>1. \A p \in Price \ {price} : Resting(new, side, p) = Resting(os, side, p)
    OBVIOUS
  <2>2. /\ DOMAIN ls[side] = {p \in Price : Resting(os, side, p) > 0}
        /\ \A p \in DOMAIN ls[side] :
             ls[side][p] = Resting(os, side, p) /\ ls[side][p] \in Price
    BY DEF Matches
  <2>3. CASE left = 0
    <3>1. at = Without(ls[side], price)
      BY <2>3
    <3>2. DOMAIN at = DOMAIN ls[side] \ {price}
      BY <3>1 DEF Without
    <3>3. \A p \in DOMAIN at : at[p] = ls[side][p]
      BY <3>1 DEF Without
    <3> HIDE DEF at
    <3>4. \A p \in Price : Resting(new, side, p) > 0
             <=> p # price /\ Resting(os, side, p) > 0
      <4>1. \A p \in Price : Resting(new, side, p) \in Nat /\ Resting(os, side, p) \in Nat
        BY RestingNat
      <4>2. Resting(new, side, price) = 0
        BY <2>3
      <4>3. QED
        BY <2>1, <4>1, <4>2
    <3>5. DOMAIN at = {p \in Price : Resting(new, side, p) > 0}
      BY <2>2, <3>2, <3>4
    <3>6. \A p \in DOMAIN at : at[p] = Resting(new, side, p) /\ at[p] \in Price
      BY <2>1, <2>2, <3>2, <3>3
    <3>7. QED
      BY <3>5, <3>6
  <2>4. CASE left > 0
    <3>1. left \in Price
      BY <1>1, <2>4, WordWidth DEF Price
    <3>2. at = With(ls[side], price, left)
      BY <2>4
    <3>3. DOMAIN at = DOMAIN ls[side] \cup {price}
      BY <3>2 DEF With
    <3>4. at[price] = left /\ \A p \in DOMAIN ls[side] \ {price} : at[p] = ls[side][p]
      BY <3>2 DEF With
    <3> HIDE DEF at
    <3>5. QED
      BY <2>1, <2>2, <2>4, <3>1, <3>3, <3>4
  <2>5. QED
    BY <1>1, <2>3, <2>4
<1>5. \A s \in Sides :
        /\ DOMAIN lv[s] = {p \in Price : Resting(new, s, p) > 0}
        /\ \A p \in DOMAIN lv[s] :
             lv[s][p] = Resting(new, s, p) /\ lv[s][p] \in Price
  <2> HIDE DEF lv, at
  <2>1. QED
    BY <1>2, <1>3, <1>4
<1>6. Matches(new, lv)
  <2> HIDE DEF lv, at
  <2>1. QED
    BY <1>2, <1>5 DEF Matches
<1>7. QED
  BY <1>6

\* The prices of the index are the prices of the orders.
LEMMA IndexPrices ==
  ASSUME NEW os, IsBook(os), NEW ls, Matches(os, ls), NEW s \in Sides
  PROVE  DOMAIN ls[s] = PricesOf(os, s)
<1>1. PricesOf(os, s) \subseteq Price
  BY DEF IsBook, PricesOf, BookOrder
<1>2. \A p \in Price : Resting(os, s, p) > 0 <=> p \in PricesOf(os, s)
  BY RestingPositive
<1>3. QED
  BY <1>1, <1>2 DEF Matches

\* The level that is looked up, 0 where there is none, is what rests.
LEMMA LevelIsResting ==
  ASSUME IsBook(orders), Matches(orders, levels), NEW s \in Sides, NEW p \in Price
  PROVE  LevelAt(s, p) = Resting(orders, s, p) /\ LevelAt(s, p) \in 0..MaxRaw
<1>1. Resting(orders, s, p) \in Nat
  BY RestingNat
<1>2. CASE p \in DOMAIN levels[s]
  BY <1>2, WordWidth DEF LevelAt, Matches, Price
<1>3. CASE p \notin DOMAIN levels[s]
  BY <1>1, <1>3, WordWidth DEF LevelAt, Matches
<1>4. QED
  BY <1>2, <1>3

----------------------------------------------------------------------------
(***************************************************************************)
(* What one message does to both indexes                                   *)
(***************************************************************************)
Consistent == IsBook(orders) /\ Matches(orders, levels)

\* The quote of the step is the quote of the orders it leaves.
Published ==
  quote' = QuoteOf(PricesOf(orders', "Buy"), PricesOf(orders', "Sell"))

LEMMA AppliedPublishes ==
  ASSUME Consistent', NEW t, Applied(t)
  PROVE  Published
<1>1. \A s \in Sides : DOMAIN (levels'[s]) = PricesOf(orders', s)
  BY IndexPrices DEF Consistent
<1>2. quote' = QuoteOf(DOMAIN (levels'["Buy"]), DOMAIN (levels'["Sell"]))
  BY DEF Applied, BestQuote
<1>3. QED
  BY <1>1, <1>2 DEF Sides, Published

\* The operators BookSpec is written with are the ones of the book.
LEMMA SameBooks ==
  /\ Promised!Ref = Ref /\ Promised!BookOrder = BookOrder /\ Promised!Price = Price
  /\ \A os, side, price : Promised!Resting(os, side, price) = Resting(os, side, price)
  /\ \A f, x : Promised!Without(f, x) = Without(f, x)
  /\ \A f, x, v : Promised!With(f, x, v) = With(f, x, v)
  /\ \A bids, asks : Promised!QuoteOf(bids, asks) = QuoteOf(bids, asks)
  /\ Promised!Publish <=> Published
<1>1. /\ Promised!Ref = Ref /\ Promised!BookOrder = BookOrder
      /\ Promised!Price = Price
  BY DEF Promised!Ref, Promised!BookOrder, Promised!Price, Promised!Sides,
         Ref, BookOrder, Price, Sides
<1>2. \A os, side, price : Promised!Resting(os, side, price) = Resting(os, side, price)
  BY DEF Promised!Resting, Promised!Total, Promised!Ref, Resting, Total, Ref
<1>3. /\ \A f, x : Promised!Without(f, x) = Without(f, x)
      /\ \A f, x, v : Promised!With(f, x, v) = With(f, x, v)
  BY DEF Promised!Without, Promised!With, Without, With
<1>4. /\ \A S : Promised!Highest(S) = Highest(S)
      /\ \A S : Promised!Lowest(S) = Lowest(S)
  BY DEF Promised!Highest, Promised!Lowest, Promised!NoPrice, Highest, Lowest, NoPrice
<1>5. \A bid, ask : Promised!Midpoint(bid, ask) = Midpoint(bid, ask)
  BY DEF Promised!Midpoint, Promised!NoPrice, Midpoint, NoPrice
<1>6. \A bids, asks : Promised!QuoteOf(bids, asks) = QuoteOf(bids, asks)
  BY <1>4, <1>5 DEF Promised!QuoteOf, QuoteOf
<1>7. \A os, side : Promised!PricesOf(os, side) = PricesOf(os, side)
  BY DEF Promised!PricesOf, PricesOf
<1>8. Promised!Publish <=> Published
  BY <1>6, <1>7 DEF Promised!Publish, Published
<1>9. QED
  BY <1>1, <1>2, <1>3, <1>6, <1>8

LEMMA AddKeeps ==
  ASSUME Consistent, NEW ref \in Ref, NEW side \in Sides,
         NEW price \in Word, NEW shares \in Word,
         AddOrder(ref, side, price, shares)
  PROVE  /\ Consistent'
         /\ Published => \E order \in BookOrder : Promised!Rests(ref, order)
<1> DEFINE order == [side |-> side, price |-> price, shares |-> shares]
           old == LevelAt(side, price)
<1>1. price \in Price /\ shares \in Price /\ ref \notin DOMAIN orders
  BY WordWidth DEF AddOrder, CanAdd, Word, Price
<1>2. order \in BookOrder /\ order.side = side /\ order.price = price
      /\ order.shares = shares
  BY <1>1 DEF BookOrder
<1>3. old = Resting(orders, side, price) /\ old \in 0..MaxRaw
  BY <1>1, LevelIsResting DEF Consistent
<1>4. old + shares <= MaxRaw /\ shares \in Nat /\ shares > 0
  <2>1. CheckedAdd(old, shares, MaxRaw) # Err
    BY DEF AddOrder, CanAdd
  <2>2. QED
    BY <1>1, <1>3, <2>1, WordWidth DEF CheckedAdd, Price
<1>5. orders' = With(orders, ref, order)
  BY DEF AddOrder
<1>6. levels' = [levels EXCEPT ![side] = With(@, price, old + shares)]
  BY DEF AddOrder
<1>7. /\ IsBook(orders')
      /\ \A s \in Sides, p \in Price :
           Resting(orders', s, p)
             = Resting(orders, s, p)
                 + (IF side = s /\ price = p THEN shares ELSE 0)
  <2> HIDE DEF order
  <2>1. QED
    BY <1>1, <1>2, <1>5, RestingWith DEF Consistent
<1>8. \A s \in Sides, p \in Price : Resting(orders, s, p) \in Nat
  BY RestingNat DEF Consistent
<1>9. Resting(orders', side, price) = old + shares
  BY <1>1, <1>3, <1>7
<1>10. Matches(orders', levels')
  <2> DEFINE left == old + shares
  <2>1. left = Resting(orders', side, price) /\ left <= MaxRaw /\ left # 0
    BY <1>3, <1>4, <1>9
  <2>2. \A s \in Sides, p \in Price : s # side \/ p # price =>
          Resting(orders', s, p) = Resting(orders, s, p)
    BY <1>7, <1>8
  <2>3. levels' = [levels EXCEPT ![side] = With(@, price, left)]
    BY <1>6
  <2> HIDE DEF left
  <2>4. levels' = [levels EXCEPT ![side] =
                     IF left = 0 THEN Without(@, price) ELSE With(@, price, left)]
    BY <2>1, <2>3
  <2>5. QED
    BY <1>1, <1>7, <2>1, <2>2, <2>4, LevelChange DEF Consistent
<1>11. Consistent'
  BY <1>7, <1>10 DEF Consistent
<1>12. Published => Promised!Rests(ref, order)
  <2> HIDE DEF order
  <2>1. SUFFICES ASSUME Published PROVE Promised!Rests(ref, order)
    OBVIOUS
  <2>2. Resting(orders, order.side, order.price) + order.shares <= MaxRaw
    BY <1>2, <1>3, <1>4
  <2>3. QED
    BY <1>1, <1>2, <1>5, <2>1, <2>2, SameBooks DEF Promised!Rests
<1>13. QED
  BY <1>2, <1>11, <1>12

\* The level of an order that is in the book.
LEMMA OrderLevel ==
  ASSUME Consistent, NEW ref \in DOMAIN orders
  PROVE  LET o == orders[ref]
         IN  /\ o \in BookOrder /\ o.side \in Sides
             /\ o.price \in Price /\ o.shares \in Price
             /\ o.price \in DOMAIN levels[o.side]
             /\ LevelAt(o.side, o.price) = Resting(orders, o.side, o.price)
             /\ LevelAt(o.side, o.price) \in 0..MaxRaw
             /\ o.shares <= LevelAt(o.side, o.price)
<1> DEFINE o == orders[ref]
<1>1. /\ o \in BookOrder /\ o.side \in Sides /\ o.price \in Price
      /\ o.shares \in Price /\ ref \in Ref
  BY DEF Consistent, IsBook, BookOrder
<1>2. Part(orders, ref, o.side, o.price) = o.shares
  BY DEF Part
<1>3. o.shares <= Resting(orders, o.side, o.price)
  BY <1>1, <1>2, PartOfResting DEF Consistent
<1>4. LevelAt(o.side, o.price) = Resting(orders, o.side, o.price)
      /\ LevelAt(o.side, o.price) \in 0..MaxRaw
  BY <1>1, LevelIsResting DEF Consistent
<1>5. Resting(orders, o.side, o.price) > 0
  BY <1>1, <1>3, <1>4, WordWidth DEF Price
<1>6. o.price \in DOMAIN levels[o.side]
  BY <1>1, <1>5 DEF Consistent, Matches
<1>7. QED
  BY <1>1, <1>3, <1>4, <1>6

LEMMA ExecuteKeeps ==
  ASSUME Consistent, NEW ref, NEW shares \in Word, ExecuteOrder(ref, shares)
  PROVE  /\ Consistent'
         /\ Published => Promised!Shrinks(ref, shares)
<1> DEFINE o == orders[ref]
           level == LevelAt(o.side, o.price)
           left == level - shares
<1>1. ref \in DOMAIN orders /\ shares \in Price /\ shares <= o.shares
  BY WordWidth DEF ExecuteOrder, CanExecute, Word, Price
<1>2. /\ o \in BookOrder /\ o.side \in Sides /\ o.price \in Price
      /\ o.shares \in Price /\ level = Resting(orders, o.side, o.price)
      /\ level \in 0..MaxRaw /\ o.shares <= level
  BY <1>1, OrderLevel
<1>3. /\ SaturatingSub(level, shares) = left /\ left \in 0..MaxRaw
      /\ SaturatingSub(o.shares, shares) = o.shares - shares
  BY <1>1, <1>2, WordWidth DEF SaturatingSub, Price
<1>4. \A s \in Sides, p \in Price : Resting(orders, s, p) \in Nat
  BY RestingNat DEF Consistent
<1>5. CASE shares = o.shares
  <2>1. /\ orders' = Without(orders, ref)
        /\ levels' = [levels EXCEPT ![o.side] =
                        IF left = 0 THEN Without(@, o.price)
                                    ELSE With(@, o.price, left)]
    BY <1>3, <1>5 DEF ExecuteOrder
  <2>2. /\ IsBook(orders')
        /\ \A s \in Sides, p \in Price :
             Resting(orders', s, p) = Resting(orders, s, p) - Part(orders, ref, s, p)
    BY <1>1, <2>1, RestingWithout DEF Consistent
  <2>3. /\ Part(orders, ref, o.side, o.price) = shares
        /\ \A s \in Sides, p \in Price : s # o.side \/ p # o.price =>
             Part(orders, ref, s, p) = 0
    BY <1>1, <1>5 DEF Part
  <2>4. /\ left = Resting(orders', o.side, o.price)
        /\ \A s \in Sides, p \in Price : s # o.side \/ p # o.price =>
             Resting(orders', s, p) = Resting(orders, s, p)
    BY <1>2, <1>4, <2>2, <2>3
  <2>5. Matches(orders', levels')
    <3> HIDE DEF left, o
    <3>1. left <= MaxRaw
      BY <1>3
    <3>2. Matches(orders', [levels EXCEPT ![o.side] =
                              IF left = 0 THEN Without(@, o.price)
                                          ELSE With(@, o.price, left)])
      BY <1>2, <2>2, <2>4, <3>1, LevelChange DEF Consistent
    <3>3. QED
      BY <2>1, <3>2
  <2>6. Published => Promised!Shrinks(ref, shares)
    <3>1. shares \in 1..o.shares
      BY <1>1, <1>2 DEF Price
    <3>2. QED
      BY <1>1, <1>5, <2>1, <3>1, SameBooks DEF Promised!Shrinks
  <2>7. QED
    BY <2>2, <2>5, <2>6 DEF Consistent
<1>6. CASE shares # o.shares
  <2> DEFINE kept == o.shares - shares
  <2>0. kept \in Price /\ left # 0
    BY <1>1, <1>2, <1>6, WordWidth DEF Price
  <2>1. /\ orders' = [orders EXCEPT ![ref].shares = kept]
        /\ levels' = [levels EXCEPT ![o.side] = With(@, o.price, left)]
    BY <1>3, <1>6 DEF ExecuteOrder
  <2>2. /\ IsBook(orders')
        /\ \A s \in Sides, p \in Price :
             Resting(orders', s, p)
               = Resting(orders, s, p)
                   - (IF o.side = s /\ o.price = p THEN o.shares - kept ELSE 0)
    <3> DEFINE new == [orders EXCEPT ![ref].shares = kept]
    <3>1. orders' = new
      BY <2>1
    <3>2. ASSUME NEW s, NEW p
          PROVE  /\ IsBook(new)
                 /\ Resting(new, s, p)
                      = Resting(orders, s, p)
                          - (IF o.side = s /\ o.price = p
                             THEN o.shares - kept ELSE 0)
      <4> HIDE DEF kept
      <4>1. QED
        BY <1>1, <2>0, RestingShrunk DEF Consistent
    <3> HIDE DEF new, o, kept
    <3>3. QED
      BY <3>1, <3>2
  <2>3. o.shares - kept = shares
    BY <1>1, <1>2, WordWidth DEF Price
  <2>4. /\ left = Resting(orders', o.side, o.price)
        /\ \A s \in Sides, p \in Price : s # o.side \/ p # o.price =>
             Resting(orders', s, p) = Resting(orders, s, p)
    BY <1>2, <1>4, <2>2, <2>3
  <2>5. Matches(orders', levels')
    <3> HIDE DEF left, o
    <3>1. left <= MaxRaw
      BY <1>3
    <3>2. levels' = [levels EXCEPT ![o.side] =
                       IF left = 0 THEN Without(@, o.price)
                                   ELSE With(@, o.price, left)]
      BY <2>0, <2>1
    <3>3. Matches(orders, levels) /\ IsBook(orders)
      BY DEF Consistent
    <3>4. IsBook(orders')
      BY <2>2
    <3>5. Matches(orders', [levels EXCEPT ![o.side] =
                              IF left = 0 THEN Without(@, o.price)
                                          ELSE With(@, o.price, left)])
      BY <1>2, <3>1, <3>3, <3>4, <2>4, LevelChange
    <3>6. QED
      BY <3>2, <3>5
  <2>6. Published => Promised!Shrinks(ref, shares)
    <3>1. shares \in 1..o.shares
      BY <1>1, <1>2 DEF Price
    <3>2. QED
      BY <1>1, <1>6, <2>1, <3>1, SameBooks DEF Promised!Shrinks
  <2>7. QED
    BY <2>2, <2>5, <2>6 DEF Consistent
<1>7. QED
  BY <1>5, <1>6

\* delete_order executes all of the order.
LEMMA DeleteKeeps ==
  ASSUME Consistent, NEW ref, DeleteOrder(ref)
  PROVE  /\ Consistent'
         /\ Published => Promised!Shrinks(ref, orders[ref].shares)
<1>1. ref \in DOMAIN orders /\ ExecuteOrder(ref, orders[ref].shares)
  BY DEF DeleteOrder
<1>2. orders[ref].shares \in Word
  BY <1>1, OrderLevel DEF Word, Price
<1>3. QED
  BY <1>1, <1>2, ExecuteKeeps

\* What replace_order computes ahead is what rests once the order has left.
LEMMA ReplaceLooksAhead ==
  ASSUME Consistent, NEW ref \in DOMAIN orders, NEW price \in Price
  PROVE  LET o == orders[ref]
             rest == Without(orders, ref)
         IN  /\ OldRemaining(ref) = Resting(rest, o.side, o.price)
             /\ NewBase(ref, price) = Resting(rest, o.side, price)
             /\ OldRemaining(ref) \in 0..MaxRaw
             /\ NewBase(ref, price) \in 0..MaxRaw
<1> DEFINE o == orders[ref]
           rest == Without(orders, ref)
           level == LevelAt(o.side, o.price)
<1>1. /\ o.side \in Sides /\ o.price \in Price /\ o.shares \in Price
      /\ level = Resting(orders, o.side, o.price)
      /\ level \in 0..MaxRaw /\ o.shares <= level
  BY OrderLevel
<1>2. OldRemaining(ref) = level - o.shares /\ OldRemaining(ref) \in 0..MaxRaw
  BY <1>1, WordWidth DEF OldRemaining, CheckedSub, Price
<1>3. /\ Part(orders, ref, o.side, o.price) = o.shares
      /\ price # o.price => Part(orders, ref, o.side, price) = 0
  BY DEF Part
<1>4. \A p : Resting(rest, o.side, p)
               = Resting(orders, o.side, p) - Part(orders, ref, o.side, p)
  BY RestingWithout DEF Consistent
<1>5. OldRemaining(ref) = Resting(rest, o.side, o.price)
  <2> HIDE DEF rest
  <2>1. QED
    BY <1>1, <1>2, <1>3, <1>4
<1>6. CASE price = o.price
  BY <1>2, <1>5, <1>6 DEF NewBase
<1>7. CASE price # o.price
  <2>1. /\ LevelAt(o.side, price) = Resting(orders, o.side, price)
        /\ LevelAt(o.side, price) \in 0..MaxRaw
    BY <1>1, LevelIsResting DEF Consistent
  <2>2. Resting(rest, o.side, price) = Resting(orders, o.side, price)
    <3> HIDE DEF rest
    <3>1. QED
      BY <1>3, <1>4, <1>7, <2>1
  <2>3. QED
    BY <1>2, <1>5, <1>7, <2>1, <2>2 DEF NewBase
<1>8. QED
  BY <1>6, <1>7

LEMMA ReplaceKeeps ==
  ASSUME Consistent, NEW ref \in Ref, NEW new \in Ref,
         NEW shares \in Word, NEW price \in Word,
         ReplaceOrder(ref, new, shares, price)
  PROVE  /\ Consistent'
         /\ Published => Promised!Moves(ref, new, price, shares)
         /\ price \in Price /\ shares \in Price
<1> DEFINE o == orders[ref]
           rest == Without(orders, ref)
           order == [side |-> o.side, price |-> price, shares |-> shares]
           old == OldRemaining(ref)
           base == NewBase(ref, price)
           total == base + shares
<1>1. /\ ref \in DOMAIN orders /\ price \in Price /\ shares \in Price
      /\ new # ref => new \notin DOMAIN orders
  BY WordWidth DEF ReplaceOrder, CanReplace, Word, Price
<1>2. /\ o.side \in Sides /\ o.price \in Price /\ o.shares \in Price
  BY <1>1, OrderLevel
<1>3. /\ old = Resting(rest, o.side, o.price) /\ old \in 0..MaxRaw
      /\ base = Resting(rest, o.side, price) /\ base \in 0..MaxRaw
  BY <1>1, ReplaceLooksAhead
<1>4. total <= MaxRaw /\ total # 0
  <2>1. CheckedAdd(base, shares, MaxRaw) # Err
    BY DEF ReplaceOrder, CanReplace
  <2> HIDE DEF base
  <2>2. QED
    BY <1>1, <1>3, <2>1, WordWidth DEF CheckedAdd, Price
<1>5. /\ new \notin DOMAIN rest /\ IsBook(rest)
      /\ order \in BookOrder /\ order.side = o.side
      /\ order.price = price /\ order.shares = shares
  <2>1. IsBook(rest)
    BY <1>1, RestingWithout DEF Consistent
  <2>2. QED
    BY <1>1, <1>2, <2>1 DEF Without, BookOrder
<1>6. orders' = With(rest, new, order)
  BY DEF ReplaceOrder
<1>7. /\ IsBook(orders')
      /\ \A s \in Sides, p \in Price :
           Resting(orders', s, p)
             = Resting(rest, s, p) + (IF o.side = s /\ price = p THEN shares ELSE 0)
  <2> HIDE DEF rest, order, o
  <2>1. QED
    BY <1>5, <1>6, RestingWith
<1>8. \A s \in Sides, p \in Price :
        /\ Resting(orders, s, p) \in Nat /\ Resting(rest, s, p) \in Nat
        /\ s # o.side \/ p # o.price =>
             Resting(rest, s, p) = Resting(orders, s, p)
  <2>1. ASSUME NEW s \in Sides, NEW p \in Price
        PROVE  Resting(orders, s, p) \in Nat /\ Resting(rest, s, p) \in Nat
    <3> HIDE DEF rest
    <3>1. QED
      BY <1>5, RestingNat DEF Consistent
  <2>2. ASSUME NEW s \in Sides, NEW p \in Price, s # o.side \/ p # o.price
        PROVE  Resting(rest, s, p) = Resting(orders, s, p)
    <3>1. Part(orders, ref, s, p) = 0
      BY <2>2 DEF Part
    <3>2. Resting(rest, s, p) = Resting(orders, s, p) - Part(orders, ref, s, p)
      BY <1>1, RestingWithout DEF Consistent
    <3> HIDE DEF rest
    <3>3. QED
      BY <2>1, <3>1, <3>2
  <2> HIDE DEF rest, o
  <2>3. QED
    BY <2>1, <2>2
<1>9. /\ total = Resting(orders', o.side, price)
      /\ \A s \in Sides, p \in Price : s # o.side \/ p # price =>
           Resting(orders', s, p) = Resting(rest, s, p)
  <2> HIDE DEF rest, o, base
  <2>1. QED
    BY <1>1, <1>2, <1>3, <1>7, <1>8
<1>10. Matches(orders', levels')
  <2>1. CASE price = o.price
    <3>1. levels' = [levels EXCEPT ![o.side] = With(@, price, total)]
      BY <2>1 DEF ReplaceOrder
    <3>2. \A s \in Sides, p \in Price : s # o.side \/ p # price =>
            Resting(orders', s, p) = Resting(orders, s, p)
      <4> HIDE DEF rest, o
      <4>1. QED
        BY <1>8, <1>9, <2>1
    <3> HIDE DEF rest, o, total
    <3>3. Matches(orders', [levels EXCEPT ![o.side] =
                              IF total = 0 THEN Without(@, price)
                                           ELSE With(@, price, total)])
      BY <1>1, <1>2, <1>4, <1>7, <1>9, <3>2, LevelChange DEF Consistent
    <3>4. QED
      BY <1>4, <3>1, <3>3
  <2>2. CASE price # o.price
    <3> DEFINE lv == [levels EXCEPT ![o.side] =
                        IF old = 0 THEN Without(@, o.price)
                                   ELSE With(@, o.price, old)]
    <3>1. Matches(rest, lv)
      <4> HIDE DEF rest, o, old
      <4>1. old <= MaxRaw
        BY <1>3
      <4>2. QED
        BY <1>2, <1>3, <1>5, <1>8, <4>1, LevelChange DEF Consistent
    <3>2. Matches(orders', [lv EXCEPT ![o.side] =
                              IF total = 0 THEN Without(@, price)
                                           ELSE With(@, price, total)])
      <4> HIDE DEF rest, o, total, lv
      <4>1. QED
        BY <1>1, <1>2, <1>4, <1>5, <1>7, <1>9, <3>1, LevelChange
    <3>3. levels' = [levels EXCEPT ![o.side] =
                       With(IF old = 0 THEN Without(levels[o.side], o.price)
                                       ELSE With(levels[o.side], o.price, old),
                            price, total)]
      BY <2>2 DEF ReplaceOrder
    <3>4. levels' = [lv EXCEPT ![o.side] = With(@, price, total)]
      <4>1. DOMAIN levels = Sides
        BY DEF Consistent, Matches
      <4> DEFINE at == IF old = 0 THEN Without(levels[o.side], o.price)
                                  ELSE With(levels[o.side], o.price, old)
      <4>2. lv = [levels EXCEPT ![o.side] = at]
        OBVIOUS
      <4>3. levels' = [levels EXCEPT ![o.side] = With(at, price, total)]
        BY <3>3
      <4> HIDE DEF at, lv, o, total
      <4>4. lv[o.side] = at
        BY <1>2, <4>1, <4>2
      <4>5. QED
        BY <1>2, <4>1, <4>2, <4>3, <4>4
    <3> HIDE DEF lv, o, total
    <3>5. QED
      BY <1>4, <3>2, <3>4
  <2>3. QED
    BY <2>1, <2>2
<1>11. Published => Promised!Moves(ref, new, price, shares)
  <2>1. SUFFICES ASSUME Published PROVE Promised!Moves(ref, new, price, shares)
    OBVIOUS
  <2>2. Resting(rest, order.side, price) + shares <= MaxRaw
    BY <1>3, <1>4
  <2>3. new \in Ref \ DOMAIN rest
    BY <1>5
  <2>4. QED
    BY <1>1, <1>5, <1>6, <2>1, <2>2, <2>3, SameBooks DEF Promised!Moves
<1>12. QED
  BY <1>1, <1>7, <1>10, <1>11 DEF Consistent

----------------------------------------------------------------------------
(***************************************************************************)
(* The engine                                                              *)
(***************************************************************************)
(***************************************************************************)
(* The inductive invariant.  The properties the runs check are not         *)
(* inductive alone: that a level never underflows or vanishes under an     *)
(* order rests on the orders being well-formed, and a message that leaves  *)
(* the book alone is a stutter of BookSpec only if the last quote is still *)
(* the quote of the orders.                                                *)
(***************************************************************************)
ReplayIInv ==
  /\ Consistent
  /\ clock \in Timestamps \cup {0}
  /\ quote = QuoteOf(PricesOf(orders, "Buy"), PricesOf(orders, "Sell"))
  /\ frame = NoFrame \/ frame \in Frames
  /\ call = "idle" => frame = NoFrame
  /\ frame # NoFrame /\ call = "messages"
       => ParseMessage(frame) \in {"ok", "InvalidSide"}

\* The invariant covers what the runs check.
LEMMA IInvSuffices ==
  ASSUME ReplayIInv
  PROVE  OrderBookTypeOK /\ LevelsMatchOrders /\ SnapshotIsCurrent
<1>1. OrderBookTypeOK
  BY DEF ReplayIInv, Consistent, OrderBookTypeOK, IsBook, Matches
<1>2. LevelsMatchOrders
  <2>1. ASSUME NEW s \in Sides, NEW p \in Price
        PROVE  /\ LevelAt(s, p) = Resting(orders, s, p)
               /\ p \in DOMAIN levels[s] <=> Resting(orders, s, p) > 0
    BY LevelIsResting DEF ReplayIInv, Consistent, Matches
  <2>2. QED
    BY <2>1 DEF LevelsMatchOrders
<1>3. SnapshotIsCurrent
  <2>1. \A s \in Sides : DOMAIN levels[s] = PricesOf(orders, s)
    BY IndexPrices DEF ReplayIInv, Consistent
  <2>2. DOMAIN levels.Buy = PricesOf(orders, "Buy")
        /\ DOMAIN levels.Sell = PricesOf(orders, "Sell")
    BY <2>1 DEF Sides
  <2>3. QED
    BY <2>2 DEF SnapshotIsCurrent, ReferencePriceSnapshot, BestQuote, QuoteOf
<1>4. QED
  BY <1>1, <1>2, <1>3

LEMMA ReplayInitOK ==
  ASSUME ReplayInit
  PROVE  ReplayIInv /\ Promised!BookInit
<1>1. /\ orders = EmptyBook /\ levels = [s \in Sides |-> [p \in {} |-> 0]]
      /\ clock = 0 /\ quote = BestQuote(levels) /\ frame = NoFrame
  BY DEF ReplayInit, OrderBookInit
<1>2. IsBook(orders)
  BY <1>1 DEF IsBook, EmptyBook
<1>3. \A s : PricesOf(orders, s) = {}
  BY <1>1 DEF PricesOf, EmptyBook
<1>4. \A s, p : ~(Resting(orders, s, p) > 0)
  BY <1>2, <1>3, RestingPositive
<1>5. Matches(orders, levels)
  <2>1. DOMAIN levels = Sides /\ \A s \in Sides : DOMAIN levels[s] = {}
    BY <1>1
  <2>2. QED
    BY <1>4, <2>1 DEF Matches
<1>6. quote = QuoteOf({}, {})
  BY <1>1 DEF BestQuote, Sides
<1>7. Promised!BookInit
  BY <1>1, <1>6, SameBooks
    DEF Promised!BookInit, Promised!EmptyBook, EmptyBook
<1>8. QED
  BY <1>1, <1>2, <1>3, <1>5, <1>6, <1>7 DEF ReplayIInv, Consistent

\* A message that is applied: both indexes change together, and the step is
\* one of the abstract book or leaves its orders and its quote alone.
LEMMA ApplyKeeps ==
  ASSUME ReplayIInv, ApplyMessage
  PROVE  Consistent' /\ Published /\ clock' \in Timestamps
         /\ [Promised!BookNext]_<<orders, quote>>
<1>1. CASE StepAdd(MessageSide(frame))
  <2>1. PICK ref \in Ref, price \in Word, shares \in Word, t \in Timestamps :
          AddOrder(ref, MessageSide(frame), price, shares) /\ Applied(t)
    BY <1>1 DEF StepAdd
  <2>2. MessageSide(frame) \in Sides
    BY <2>1 DEF AddOrder, CanAdd
  <2>3. /\ Consistent'
        /\ Published => \E order \in BookOrder : Promised!Rests(ref, order)
    BY <2>1, <2>2, AddKeeps DEF ReplayIInv
  <2>4. Published /\ clock' \in Timestamps
    BY <2>1, <2>3, AppliedPublishes DEF Applied
  <2>5. QED
    BY <2>3, <2>4, SameBooks DEF Promised!BookNext
<1>2. CASE StepExecute
  <2>1. PICK ref \in Ref, shares \in Word, t \in Timestamps :
          ExecuteOrder(ref, shares) /\ Applied(t)
    BY <1>2 DEF StepExecute
  <2>2. Consistent' /\ (Published => Promised!Shrinks(ref, shares))
    BY <2>1, ExecuteKeeps DEF ReplayIInv
  <2>3. Published /\ clock' \in Timestamps
    BY <2>1, <2>2, AppliedPublishes DEF Applied
  <2>4. shares \in Price
    BY <2>1, WordWidth DEF ExecuteOrder, CanExecute, Word, Price
  <2>5. QED
    BY <2>2, <2>3, <2>4, SameBooks DEF Promised!BookNext
<1>3. CASE StepDelete
  <2>1. PICK ref \in Ref, t \in Timestamps : DeleteOrder(ref) /\ Applied(t)
    BY <1>3 DEF StepDelete
  <2>2. Consistent' /\ (Published => Promised!Shrinks(ref, orders[ref].shares))
    BY <2>1, DeleteKeeps DEF ReplayIInv
  <2>3. Published /\ clock' \in Timestamps
    BY <2>1, <2>2, AppliedPublishes DEF Applied
  <2>4. orders[ref].shares \in Price
    BY <2>1, OrderLevel DEF DeleteOrder, ReplayIInv
  <2>5. QED
    BY <2>2, <2>3, <2>4, SameBooks DEF Promised!BookNext
<1>4. CASE StepReplace
  <2>1. PICK ref \in Ref, new \in Ref, shares \in Word, price \in Word,
             t \in Timestamps :
          ReplaceOrder(ref, new, shares, price) /\ Applied(t)
    BY <1>4 DEF StepReplace
  <2>2. /\ Consistent' /\ (Published => Promised!Moves(ref, new, price, shares))
        /\ price \in Price /\ shares \in Price
    BY <2>1, ReplaceKeeps DEF ReplayIInv
  <2>3. Published /\ clock' \in Timestamps
    BY <2>1, <2>2, AppliedPublishes DEF Applied
  <2>4. QED
    BY <2>2, <2>3, SameBooks DEF Promised!BookNext
<1>5. CASE StepAdministrative
  <2>1. PICK t \in Timestamps : UNCHANGED <<orders, levels>> /\ Applied(t)
    BY <1>5 DEF StepAdministrative
  <2>2. Consistent'
    BY <2>1 DEF ReplayIInv, Consistent
  <2>3. Published /\ clock' \in Timestamps
    BY <2>1, <2>2, AppliedPublishes DEF Applied
  <2>4. quote' = quote
    BY <2>1, <2>3 DEF Published, ReplayIInv
  <2>5. QED
    BY <2>1, <2>2, <2>3, <2>4
<1>6. QED
  BY <1>1, <1>2, <1>3, <1>4, <1>5 DEF ApplyMessage

LEMMA ReplayStep ==
  ASSUME ReplayIInv, [ReplayNext]_replayVars
  PROVE  ReplayIInv' /\ [Promised!BookNext]_<<orders, quote>>
<1>1. CASE ApplyMessage
  <2>1. Consistent' /\ Published /\ clock' \in Timestamps
        /\ [Promised!BookNext]_<<orders, quote>>
    BY <1>1, ApplyKeeps
  <2>2. frame' = NoFrame
    BY <1>1 DEF ApplyMessage, Advance
  <2>3. QED
    BY <2>1, <2>2 DEF ReplayIInv, Published
<1>2. CASE RefuseMessage
  <2>1. /\ UNCHANGED <<orders, levels, quote>> /\ clock' \in Timestamps
        /\ frame' = NoFrame
    BY <1>2 DEF RefuseMessage, Refused, Return
  <2>2. QED
    BY <2>1 DEF ReplayIInv, Consistent
<1>3. CASE StartReplay
  <2>1. UNCHANGED <<orders, levels, clock, quote, frame>> /\ call = "idle"
    BY <1>3 DEF StartReplay, bookVars
  <2>2. QED
    BY <2>1 DEF ReplayIInv, Consistent
<1>4. CASE FetchFrame
  <2>1. /\ UNCHANGED <<orders, levels, clock, quote, call>>
        /\ frame' \in Frames /\ call # "idle"
        /\ call = "messages" => ParseMessage(frame') \in {"ok", "InvalidSide"}
    BY <1>4 DEF FetchFrame, bookVars
  <2>2. QED
    BY <2>1 DEF ReplayIInv, Consistent
<1>5. CASE EndOfInput \/ RefuseFrame
  <2>1. UNCHANGED <<orders, levels, clock, quote>> /\ frame' = NoFrame
    BY <1>5 DEF EndOfInput, RefuseFrame, Return, bookVars
  <2>2. QED
    BY <2>1 DEF ReplayIInv, Consistent
<1>6. CASE UNCHANGED replayVars
  <2>1. UNCHANGED <<orders, levels, clock, quote, frame, call>>
    BY <1>6 DEF replayVars, bookVars
  <2>2. QED
    BY <2>1 DEF ReplayIInv, Consistent
<1>7. QED
  BY <1>1, <1>2, <1>3, <1>4, <1>5, <1>6 DEF ReplayNext, ReplayLoop

----------------------------------------------------------------------------
(***************************************************************************)
(* What a message does is what its type announces                          *)
(***************************************************************************)
On(os, side) == {r \in DOMAIN os : os[r].side = side}

LEMMA OnFinite ==
  ASSUME NEW os, IsBook(os), NEW side
  PROVE  IsFiniteSet(On(os, side)) /\ Cardinality(On(os, side)) \in Nat
<1>1. IsFiniteSet(Ref)
  BY RefRange, FS_Interval DEF Ref
<1>2. On(os, side) \in SUBSET Ref
  BY DEF On, IsBook
<1>3. QED
  BY <1>1, <1>2, FS_Subset, FS_CardinalityType

\* The replacement takes the place of the order among those of its side.
LEMMA ReplaceKeepsCounts ==
  ASSUME Consistent, NEW ref \in Ref, NEW new \in Ref, NEW shares, NEW price,
         ReplaceOrder(ref, new, shares, price), NEW side
  PROVE  Cardinality(On(orders', side)) = Cardinality(On(orders, side))
<1> DEFINE o == orders[ref]
           rest == Without(orders, ref)
           order == [side |-> o.side, price |-> price, shares |-> shares]
           S == On(orders, side)
<1>1. ref \in DOMAIN orders /\ (new # ref => new \notin DOMAIN orders)
  BY DEF ReplaceOrder, CanReplace
<1>2. orders' = With(rest, new, order) /\ order.side = o.side
  BY DEF ReplaceOrder
<1>3. /\ DOMAIN orders' = (DOMAIN orders \ {ref}) \cup {new}
      /\ orders'[new].side = o.side
      /\ \A r \in DOMAIN orders \ {ref} : orders'[r] = orders[r]
  BY <1>1, <1>2 DEF With, Without
<1>4. IsFiniteSet(S) /\ Cardinality(S) \in Nat
  BY OnFinite DEF Consistent
<1>5. CASE o.side = side
  <2>1. On(orders', side) = (S \ {ref}) \cup {new}
    BY <1>1, <1>3, <1>5 DEF On
  <2>2. ref \in S /\ new \notin S \ {ref}
    BY <1>1, <1>5 DEF On
  <2> HIDE DEF S
  <2>3. IsFiniteSet(S \ {ref}) /\ Cardinality(S \ {ref}) = Cardinality(S) - 1
    BY <1>4, <2>2, FS_RemoveElement
  <2>4. Cardinality((S \ {ref}) \cup {new}) = Cardinality(S \ {ref}) + 1
    BY <2>2, <2>3, FS_AddElement
  <2>5. Cardinality((S \ {ref}) \cup {new}) = Cardinality(S)
    BY <1>4, <2>3, <2>4
  <2>6. QED
    BY <2>1, <2>5 DEF S
<1>6. CASE o.side # side
  <2>1. On(orders', side) = S
    BY <1>1, <1>3, <1>6 DEF On
  <2>2. QED
    BY <2>1
<1>7. QED
  BY <1>5, <1>6

LEMMA AppliedIsAnnounced ==
  ASSUME ReplayIInv, ApplyMessage, orders' # orders,
         call = "stream" => ParseMessage(frame) = "ok"
  PROVE  Announced(frame)
<1>1. CASE IsAdd(frame) /\ StepAdd(MessageSide(frame))
  <2>1. PICK ref \in Ref, price \in Word, shares \in Word, t \in Timestamps :
          AddOrder(ref, MessageSide(frame), price, shares)
    BY <1>1 DEF StepAdd
  <2> DEFINE order == [side |-> MessageSide(frame), price |-> price,
                       shares |-> shares]
  <2>2. /\ ref \notin DOMAIN orders /\ orders' = With(orders, ref, order)
        /\ order.side = MessageSide(frame)
    BY <2>1 DEF AddOrder, CanAdd
  <2>3. MessageSide(frame) = frame.side
    <3>1. CASE call = "stream"
      <4>1. frame.side \in Sides
        BY <1>1, <3>1 DEF ParseMessage
      <4>2. QED
        BY <4>1 DEF MessageSide, Sides
    <3>2. CASE call # "stream"
      BY <3>2 DEF MessageSide
    <3>3. QED
      BY <3>1, <3>2
  <2>4. /\ ref \in DOMAIN orders' \ DOMAIN orders
        /\ orders'[ref].side = frame.side
    BY <2>2, <2>3 DEF With
  <2>5. Without(orders', ref) = orders
    <3>1. orders = [r \in DOMAIN orders |-> orders[r]]
      BY DEF ReplayIInv, Consistent, IsBook
    <3>2. /\ DOMAIN orders' \ {ref} = DOMAIN orders
          /\ \A r \in DOMAIN orders : orders'[r] = orders[r]
      BY <2>2 DEF With
    <3>3. QED
      BY <3>1, <3>2 DEF Without
  <2>6. IsAdd(frame) /\ frame.tag \notin {"E", "C", "X", "D", "U"}
    BY <1>1 DEF IsAdd
  <2>7. \E r \in DOMAIN orders' \ DOMAIN orders :
          Without(orders', r) = orders /\ orders'[r].side = frame.side
    BY <2>4, <2>5
  <2>8. QED
    BY <2>6, <2>7 DEF Announced
<1>2. CASE \/ frame.tag \in {"E", "C", "X"} /\ StepExecute
           \/ frame.tag = "D" /\ StepDelete
  <2>1. PICK ref \in Ref, shares \in Word : ExecuteOrder(ref, shares)
    <3>1. ASSUME NEW ref, DeleteOrder(ref)
          PROVE  orders[ref].shares \in Word
      BY <3>1, OrderLevel DEF DeleteOrder, ReplayIInv, Word, Price
    <3>2. QED
      BY <1>2, <3>1 DEF StepExecute, StepDelete, DeleteOrder
  <2>2. ref \in DOMAIN orders /\ orders[ref].shares \in Nat /\ shares \in Nat
    <3>1. ref \in DOMAIN orders
      BY <2>1 DEF ExecuteOrder, CanExecute
    <3>2. orders[ref].shares \in Price
      BY <3>1, OrderLevel DEF ReplayIInv
    <3>3. QED
      BY <2>1, <3>1, <3>2, WordWidth DEF Word, Price
  <2>3. /\ DOMAIN orders' \subseteq DOMAIN orders
        /\ \A r \in DOMAIN orders' : orders'[r].shares <= orders[r].shares
    <3>1. \A r \in DOMAIN orders : orders[r].shares \in Nat
      <4>1. \A r \in DOMAIN orders : orders[r].shares \in Price
        BY OrderLevel DEF ReplayIInv
      <4>2. QED
        BY <4>1, WordWidth DEF Price
    <3>2. CASE shares = orders[ref].shares
      <4>1. orders' = Without(orders, ref)
        BY <2>1, <3>2 DEF ExecuteOrder
      <4>2. QED
        BY <3>1, <4>1 DEF Without
    <3>3. CASE shares # orders[ref].shares
      <4> DEFINE left == SaturatingSub(orders[ref].shares, shares)
      <4>1. orders' = [orders EXCEPT ![ref].shares = left]
        BY <2>1, <3>3 DEF ExecuteOrder
      <4>2. left <= orders[ref].shares
        BY <2>2 DEF SaturatingSub
      <4>3. orders[ref] \in BookOrder
        BY <2>2 DEF ReplayIInv, Consistent, IsBook
      <4> HIDE DEF left
      <4>4. /\ DOMAIN orders' = DOMAIN orders
            /\ orders'[ref].shares = left
            /\ \A r \in DOMAIN orders \ {ref} : orders'[r] = orders[r]
        BY <2>2, <4>1, <4>3 DEF BookOrder
      <4>5. QED
        BY <3>1, <4>2, <4>4
    <3>4. QED
      BY <3>2, <3>3
  <2>4. ~IsAdd(frame) /\ frame.tag \in {"E", "C", "X", "D"}
    BY <1>2 DEF IsAdd
  <2>5. QED
    BY <2>3, <2>4 DEF Announced
<1>3. CASE frame.tag = "U" /\ StepReplace
  <2>1. PICK ref \in Ref, new \in Ref, shares \in Word, price \in Word :
          ReplaceOrder(ref, new, shares, price)
    BY <1>3 DEF StepReplace
  <2>2. \A side \in Sides :
          Cardinality(On(orders', side)) = Cardinality(On(orders, side))
    BY <2>1, ReplaceKeepsCounts DEF ReplayIInv
  <2>3. ~IsAdd(frame) /\ frame.tag \notin {"E", "C", "X", "D"}
    BY <1>3 DEF IsAdd
  <2>4. QED
    BY <1>3, <2>2, <2>3 DEF Announced, On
<1>4. CASE frame.tag \in {"S", "R"} /\ StepAdministrative
  BY <1>4 DEF StepAdministrative
<1>5. \/ IsAdd(frame) /\ StepAdd(MessageSide(frame))
      \/ frame.tag \in {"E", "C", "X"} /\ StepExecute
      \/ frame.tag = "D" /\ StepDelete
      \/ frame.tag = "U" /\ StepReplace
      \/ frame.tag \in {"S", "R"} /\ StepAdministrative
  BY DEF ApplyMessage
<1>6. QED
  BY <1>1, <1>2, <1>3, <1>4, <1>5

LEMMA AcceptedIsWhole ==
  ASSUME NEW f \in Frames, ParseMessage(f) = "ok"
  PROVE  Whole(f)
<1>1. f.length \in Nat /\ f.size \in Nat
  BY FrameLengths
<1>2. /\ ~(f.size < 2 + f.length) /\ f.tag \in DOMAIN PayloadLength
      /\ f.length = PayloadLength[f.tag] /\ (IsAdd(f) => f.side \in Sides)
  <2>1. ~(f.size < 3 \/ f.size < 2 + f.length \/ f.length = 0)
    BY DEF ParseMessage
  <2>2. f.tag \in DOMAIN PayloadLength /\ f.length = PayloadLength[f.tag]
    BY <2>1 DEF ParseMessage
  <2>3. IsAdd(f) => f.side \in Sides
    BY <2>1, <2>2 DEF ParseMessage
  <2>4. QED
    BY <2>1, <2>2, <2>3
<1>3. QED
  BY <1>1, <1>2 DEF Whole

\* A step that moves the book applies or refuses a message that was accepted.
LEMMA EffectOfAFrame ==
  ASSUME ReplayIInv, [ReplayNext]_replayVars, bookVars' # bookVars
  PROVE  /\ call = "stream" => Whole(frame)
         /\ orders' # orders => Announced(frame)
<1>1. ApplyMessage \/ RefuseMessage
  BY DEF ReplayNext, ReplayLoop, StartReplay, FetchFrame, EndOfInput,
         RefuseFrame, replayVars
<1>2. frame # NoFrame /\ (call = "stream" => ParseMessage(frame) = "ok")
  BY <1>1 DEF ApplyMessage, RefuseMessage, Accepted
<1>3. frame \in Frames
  BY <1>2 DEF ReplayIInv
<1>4. call = "stream" => Whole(frame)
  BY <1>2, <1>3, AcceptedIsWhole
<1>5. orders' # orders => ApplyMessage
  BY <1>1 DEF RefuseMessage, Refused
<1>6. QED
  BY <1>2, <1>4, <1>5, AppliedIsAnnounced

----------------------------------------------------------------------------
(***************************************************************************)
(* The theorems                                                            *)
(***************************************************************************)
LEMMA ReplayInvariance == ReplaySpec => []ReplayIInv
<1>1. ReplayInit => ReplayIInv
  BY ReplayInitOK
<1>2. ReplayIInv /\ [ReplayNext]_replayVars => ReplayIInv'
  BY ReplayStep
<1>3. QED
  BY <1>1, <1>2, PTL DEF ReplaySpec

(***************************************************************************)
(* book.cpp and bridge.hpp: references, orders, levels and the clock stay  *)
(* in range whatever messages arrive, in whatever order, over any number   *)
(* of calls; in particular no level of the price index is ever zero.       *)
(***************************************************************************)
THEOREM BookTypeCorrectness == ReplaySpec => []OrderBookTypeOK
<1>1. ReplayIInv => OrderBookTypeOK
  BY IInvSuffices
<1>2. QED
  BY <1>1, ReplayInvariance, PTL

(***************************************************************************)
(* add_order, execute_order, delete_order and replace_order keep           *)
(* bids_by_price_ and asks_by_price_ equal to the sums over orders_by_ref_ *)
(* and remove every level that has become empty.                           *)
(***************************************************************************)
THEOREM IndexesAgree == ReplaySpec => []LevelsMatchOrders
<1>1. ReplayIInv => LevelsMatchOrders
  BY IInvSuffices
<1>2. QED
  BY <1>1, ReplayInvariance, PTL

(***************************************************************************)
(* current_reference_price_snapshot reads the price index; its answer is   *)
(* the midpoint of the orders that rest, at every moment of a replay.      *)
(***************************************************************************)
THEOREM SnapshotCorrectness == ReplaySpec => []SnapshotIsCurrent
<1>1. ReplayIInv => SnapshotIsCurrent
  BY IInvSuffices
<1>2. QED
  BY <1>1, ReplayInvariance, PTL

(***************************************************************************)
(* The engine with its two indexes implements the book of module BookSpec, *)
(* which has only the orders: each applied message is one of its steps,    *)
(* with the quote bbo_history_ records, and all else stutters.             *)
(***************************************************************************)
THEOREM BookRefinement == ReplaySpec => RefinesBookSpec
<1>1. ReplayInit => Promised!BookInit
  BY ReplayInitOK
<1>2. ReplayIInv /\ [ReplayNext]_replayVars => [Promised!BookNext]_<<orders, quote>>
  BY ReplayStep
<1>3. QED
  BY <1>1, <1>2, ReplayInvariance, PTL DEF ReplaySpec, RefinesBookSpec, Promised!Book

(***************************************************************************)
(* replay_stream: only a whole frame of a known type with a valid side     *)
(* reaches the book, and the change of the orders is of the kind its type  *)
(* announces, also on an engine that has replayed other input before.      *)
(***************************************************************************)
THEOREM WholeMessages == ReplaySpec => OnlyWholeMessagesTakeEffect
<1>1. ReplayIInv /\ [ReplayNext]_replayVars
        => [bookVars' # bookVars =>
              /\ call = "stream" => Whole(frame)
              /\ orders' # orders => Announced(frame)]_replayVars
  BY EffectOfAFrame
<1>2. QED
  BY <1>1, ReplayInvariance, PTL DEF ReplaySpec, OnlyWholeMessagesTakeEffect

----------------------------------------------------------------------------
(***************************************************************************)
(* The loop cannot go round for ever.                                      *)
(***************************************************************************)
\* A frame is fetched and then used up; the return is the last step.
ReplayTurnsLeft ==
  IF call = "idle" THEN 0
  ELSE 2 * (MaxFrames - consumed) + (IF frame = NoFrame THEN 2 ELSE 1)

CursorInBuffer ==
  /\ consumed \in 0..MaxFrames
  /\ frame # NoFrame => consumed < MaxFrames
  /\ call = "idle" => frame = NoFrame

LEMMA CursorInitially == ReplayInit => CursorInBuffer
  BY FramesBounded DEF ReplayInit, CursorInBuffer

LEMMA CursorStep ==
  ASSUME CursorInBuffer, ReplayNext
  PROVE  CursorInBuffer' /\ (call # "idle" => ReplayTurnsLeft' < ReplayTurnsLeft)
<1> USE FramesBounded DEF CursorInBuffer, ReplayTurnsLeft
<1>1. CASE StartReplay
  BY <1>1 DEF StartReplay
<1>2. CASE FetchFrame
  <2>1. /\ call # "idle" /\ call' = call /\ consumed' = consumed
        /\ frame = NoFrame /\ consumed < MaxFrames
    BY <1>2 DEF FetchFrame
  <2>2. frame' # NoFrame
    BY <1>2 DEF FetchFrame
  <2>3. QED
    BY <2>1, <2>2
<1>3. CASE EndOfInput
  BY <1>3 DEF EndOfInput, Return
<1>4. CASE RefuseFrame
  BY <1>4 DEF RefuseFrame, Return
<1>5. CASE ApplyMessage
  BY <1>5 DEF ApplyMessage, Advance
<1>6. CASE RefuseMessage
  BY <1>6 DEF RefuseMessage, Return
<1>7. QED
  BY <1>1, <1>2, <1>3, <1>4, <1>5, <1>6 DEF ReplayNext, ReplayLoop

\* replay_stream and replay_messages (marketdata/replay.cpp): every turn of the
\* loop lowers a natural number, for any buffer and whatever the book says of a
\* message, so no call goes round for ever.  With the fairness of ReplaySpec
\* this is why EveryReplayReturns holds.
THEOREM ReplayWindsDown ==
  ReplaySpec => /\ [](ReplayTurnsLeft \in Nat /\ (ReplayTurnsLeft = 0 <=> call = "idle"))
                /\ [][call # "idle" => ReplayTurnsLeft' < ReplayTurnsLeft]_replayVars
<1>1. CursorInBuffer /\ [ReplayNext]_replayVars
        => CursorInBuffer' /\ [call # "idle" => ReplayTurnsLeft' < ReplayTurnsLeft]_replayVars
  <2>1. CASE ReplayNext
    BY <2>1, CursorStep
  <2>2. CASE UNCHANGED replayVars
    BY <2>2 DEF replayVars, CursorInBuffer
  <2>3. QED
    BY <2>1, <2>2
<1>2. CursorInBuffer
        => ReplayTurnsLeft \in Nat /\ (ReplayTurnsLeft = 0 <=> call = "idle")
  BY FramesBounded DEF CursorInBuffer, ReplayTurnsLeft
<1>3. QED
  BY <1>1, <1>2, CursorInitially, PTL DEF ReplaySpec

----------------------------------------------------------------------------
(***************************************************************************)
(* What a sort leaves of elements that all differ.                         *)
(***************************************************************************)
LEMMA NumbersUpTo ==
  ASSUME NEW n \in Nat
  PROVE  IsFiniteSet(1..n) /\ Cardinality(1..n) = n
<1>1. 1 \in Int /\ n \in Int
  OBVIOUS
<1>2. IsFiniteSet(1..n) /\ Cardinality(1..n) = IF 1 > n THEN 0 ELSE n - 1 + 1
  BY <1>1, FS_Interval, Zenon
<1>3. (IF 1 > n THEN 0 ELSE n - 1 + 1) = n
  OBVIOUS
<1>4. QED
  BY <1>2, <1>3

LEMMA InjectionsList ==
  ASSUME NEW v, Len(v) \in Nat, v = [i \in 1..Len(v) |-> v[i]],
         \A i, j \in 1..Len(v) : i # j => v[i] # v[j],
         NEW s, s \in Injection(1..Cardinality(Range(v)), Range(v))
  PROVE  /\ Len(s) = Len(v) /\ s = [i \in 1..Len(v) |-> s[i]]
         /\ \A i \in 1..Len(v) : \E j \in 1..Len(v) : s[i] = v[j]
         /\ \A i, j \in 1..Len(v) : i # j => s[i] # s[j]
<1>0. PICK n \in Nat : n = Len(v)
  OBVIOUS
<1> DEFINE S == Range(v)
<1>1. DOMAIN v = 1..n /\ \A i \in 1..n : v[i] \in S
  BY <1>0 DEF Range
<1>2. \A y \in S : \E i \in 1..n : v[i] = y
  BY <1>1 DEF Range
<1> HIDE DEF S
<1>3. v \in [1..n -> S]
  BY <1>1
<1>4. v \in Injection(1..n, S) /\ v \in Surjection(1..n, S)
  <2>1. \A i, j \in 1..n : v[i] = v[j] => i = j
    BY <1>0
  <2>2. v \in Injection(1..n, S)
    BY <1>3, <2>1 DEF Injection, IsInjective
  <2>3. v \in Surjection(1..n, S)
    BY <1>2, <1>3 DEF Surjection
  <2>4. QED
    BY <2>2, <2>3
<1>5. IsFiniteSet(1..n) /\ Cardinality(1..n) = n
  <2>1. n \in Nat
    BY <1>0
  <2>2. QED
    BY <2>1, NumbersUpTo, Zenon
<1>6. IsFiniteSet(S) /\ Cardinality(S) = n
  BY <1>4, <1>5, FS_Surjection
<1>7. s \in Injection(1..n, S)
  BY <1>6 DEF S
<1>8. s \in [1..n -> S] /\ \A i, j \in 1..n : i # j => s[i] # s[j]
  BY <1>7 DEF Injection, IsInjective
<1>9. s \in Seq(S) /\ Len(s) = n
  BY <1>8
<1>10. \A i \in 1..n : \E j \in 1..n : s[i] = v[j]
  BY <1>2, <1>8
<1>11. QED
  BY <1>0, <1>8, <1>9, <1>10

----------------------------------------------------------------------------
(***************************************************************************)
(* Words and intervals of time.                                            *)
(***************************************************************************)
LEMMA Fits ==
  ASSUME NEW t \in Nat, t <= MaxTime
  PROVE  Wrap(t) = t
<1>1. MaxTime \in Nat /\ t < MaxTime + 1
  BY TimeWidth
<1>2. QED
  BY <1>1 DEF Wrap

LEMMA WrapIsWord ==
  ASSUME NEW t \in Nat
  PROVE  Wrap(t) \in 0..MaxTime
<1>1. MaxTime \in Nat /\ MaxTime + 1 > 0
  BY TimeWidth
<1>2. QED
  BY <1>1 DEF Wrap

LEMMA Multiples ==
  ASSUME NEW w \in Nat, NEW j \in Nat, NEW h \in Nat, j <= h
  PROVE  j * w <= h * w /\ j * w \in Nat /\ h * w \in Nat
<1>1. PICK d \in Nat : h = j + d
  <2>1. h - j \in Nat /\ h = j + (h - j)
    OBVIOUS
  <2>2. QED
    BY <2>1
<1>2. h * w = j * w + d * w
  BY <1>1
<1>3. d * w \in Nat /\ j * w \in Nat
  OBVIOUS
<1>4. PICK x \in Nat, y \in Nat : x = j * w /\ y = d * w
  BY <1>3
<1>5. QED
  BY <1>2, <1>4

LEMMA Quotient ==
  ASSUME NEW x \in Nat, NEW w \in Nat, w > 0
  PROVE  /\ x \div w \in Nat /\ x < (x \div w + 1) * w
         /\ x \div w + 1 <= (x \div w + 1) * w
<1>1. PICK q, r : q = x \div w /\ r = x % w
  OBVIOUS
<1>2. q \in Nat /\ r \in Nat /\ r < w
  BY <1>1
<1>3. x = q * w + r
  BY <1>1
<1>4. (q + 1) * w = q * w + w
  BY <1>2
<1>5. q * 1 <= q * w
  BY <1>2, w >= 1, Multiples
<1>6. PICK z \in Nat : z = q * w
  BY <1>2
<1>7. QED
  BY <1>1, <1>2, <1>3, <1>4, <1>5, <1>6

LEMMA LeastElement ==
  ASSUME NEW U, U \subseteq Nat, U # {}
  PROVE  \E x \in U : \A y \in U : x <= y
<1> DEFINE R == OpToRel(<, Nat)
<1>1. PICK x \in U : \A y \in U : ~(<<y, x>> \in R)
  <2> HIDE DEF R
  <2>1. IsWellFoundedOn(R, Nat)
    BY NatLessThanWellFounded DEF R
  <2>2. QED
    BY <2>1, WFMin
<1>2. ASSUME NEW y \in U PROVE x <= y
  <2>1. x \in Nat /\ y \in Nat
    OBVIOUS
  <2>2. ~(y < x)
    BY <1>1, <2>1 DEF OpToRel
  <2>3. QED
    BY <2>1, <2>2
<1>3. QED
  BY <1>2

----------------------------------------------------------------------------
(***************************************************************************)
(* A sorted stream, and how much of it an interval takes.                  *)
(***************************************************************************)
Submission == [arrival : 0..MaxTime, order : [id : Nat, seq : Nat]]

StreamIs(s) ==
  /\ Len(s) \in Nat /\ s = [n \in 1..Len(s) |-> s[n]]
  /\ \A n \in 1..Len(s) : s[n] \in Submission
  /\ \A m, n \in 1..Len(s) : m < n => s[m].arrival <= s[n].arrival
  /\ \A m, n \in 1..Len(s) : m # n => s[m].order.id # s[n].order.id

\* OrderInputStream's constructor, on submissions with ids of their own.
LEMMA StreamIsSorted ==
  ASSUME NEW v \in Seq(Submission),
         \A i, j \in 1..Len(v) : i # j => v[i].order.id # v[j].order.id,
         NEW s \in OrderInputStream(v)
  PROVE  StreamIs(s) /\ Len(s) = Len(v)
<1>1. s \in Injection(1..Cardinality(Range(v)), Range(v))
  BY DEF OrderInputStream, StdSorts
<1>2. PICK z \in Nat : z = Len(v)
  OBVIOUS
<1>3. \A i \in 1..z : v[i] \in Submission
  BY <1>2
<1>4. /\ Len(s) = z /\ s = [i \in 1..z |-> s[i]]
      /\ \A i \in 1..z : \E j \in 1..z : s[i] = v[j]
      /\ \A i, j \in 1..z : i # j => s[i] # s[j]
  <2>1. Len(v) \in Nat /\ v = [i \in 1..Len(v) |-> v[i]]
    OBVIOUS
  <2>2. \A i, j \in 1..Len(v) : i # j => v[i] # v[j]
    OBVIOUS
  <2>3. /\ Len(s) = Len(v) /\ s = [i \in 1..Len(v) |-> s[i]]
        /\ \A i \in 1..Len(v) : \E j \in 1..Len(v) : s[i] = v[j]
        /\ \A i, j \in 1..Len(v) : i # j => s[i] # s[j]
    BY <1>1, <2>1, <2>2, InjectionsList
  <2>4. QED
    BY <1>2, <2>3
<1>5. \A i \in 1..z : s[i] \in Submission
  BY <1>3, <1>4
<1>6. ASSUME NEW m \in 1..z, NEW n \in 1..z, m < n
      PROVE  s[m].arrival <= s[n].arrival
  <2>1. ~ArrivedBefore(s[n], s[m])
    <3>1. DOMAIN s = 1..z
      BY <1>4
    <3>2. \A i, j \in DOMAIN s : i < j => ~ArrivedBefore(s[j], s[i])
      <4>1. /\ s \in Injection(1..Cardinality(Range(v)), Range(v))
            /\ \A i, j \in DOMAIN s :
                 i < j => <<s[j], s[i]>> \notin
                            {p \in Range(v) \X Range(v) : ArrivedBefore(p[1], p[2])}
        BY DEF OrderInputStream, StdSorts
      <4>2. \A i \in DOMAIN s : s[i] \in Range(v)
        BY <4>1 DEF Injection
      <4>3. ASSUME NEW i \in DOMAIN s, NEW j \in DOMAIN s, i < j
            PROVE  ~ArrivedBefore(s[j], s[i])
        <5>1. <<s[j], s[i]>> \in Range(v) \X Range(v)
          BY <4>2, <4>3
        <5>2. QED
          BY <4>1, <4>3, <5>1
      <4>4. QED
        BY <4>1, <4>3
    <3>3. QED
      BY <1>6, <3>1, <3>2
  <2>2. s[m].arrival \in Nat /\ s[n].arrival \in Nat
    BY <1>5, TimeWidth DEF Submission
  <2>3. QED
    BY <2>1, <2>2 DEF ArrivedBefore
<1>7. ASSUME NEW m \in 1..z, NEW n \in 1..z, m # n
      PROVE  s[m].order.id # s[n].order.id
  <2>0. \A i \in 1..z : \E j \in 1..z : s[i] = v[j]
    BY <1>4
  <2>1. PICK i \in 1..z, j \in 1..z : s[m] = v[i] /\ s[n] = v[j]
    BY <2>0
  <2>2. i # j
    <3>1. s[m] # s[n]
      BY <1>4, <1>7
    <3>2. QED
      BY <2>1, <3>1
  <2>3. \A h, l \in 1..z : h # l => v[h].order.id # v[l].order.id
    BY <1>2
  <2>4. QED
    BY <2>1, <2>2, <2>3
<1>8. QED
  BY <1>2, <1>4, <1>5, <1>6, <1>7 DEF StreamIs

LEMMA TakenIs ==
  ASSUME StreamIs(stream), NEW from \in 0..Len(stream), NEW cutoff \in Nat
  PROVE  LET n == TakenBefore(from, cutoff)
         IN  /\ n \in 0..(Len(stream) - from)
             /\ \A i \in (from + 1)..(from + n) : stream[i].arrival < cutoff
             /\ \A i \in (from + n + 1)..Len(stream) : stream[i].arrival >= cutoff
<1>1. PICK z, s : z = Len(stream) /\ s = stream
  OBVIOUS
<1>2. /\ z \in Nat /\ from \in Nat /\ from <= z
      /\ \A n \in 1..z : s[n].arrival \in Nat
      /\ \A m, n \in 1..z : m < n => s[m].arrival <= s[n].arrival
  BY <1>1, TimeWidth DEF StreamIs, Submission
<1> DEFINE late == {n \in Nat : from + n < z /\ s[from + n + 1].arrival >= cutoff}
           taken(n) == /\ \A i \in 1..n : s[from + i].arrival < cutoff
                       /\ from + n < z => s[from + n + 1].arrival >= cutoff
<1>3. \E n \in 0..(z - from) : taken(n)
  <2>1. CASE late = {}
    <3>1. z - from \in Nat /\ z - from \in 0..(z - from)
      BY <1>2
    <3>2. ASSUME NEW i \in 1..(z - from) PROVE s[from + i].arrival < cutoff
      <4>1. i - 1 \in Nat /\ from + (i - 1) < z /\ from + (i - 1) + 1 = from + i
            /\ from + i \in 1..z
        BY <1>2
      <4>2. ~(s[from + (i - 1) + 1].arrival >= cutoff)
        BY <2>1, <4>1
      <4>3. QED
        BY <1>2, <4>1, <4>2
    <3>3. ~(from + (z - from) < z)
      BY <1>2
    <3>4. QED
      BY <3>1, <3>2, <3>3
  <2>2. CASE late # {}
    <3>1. PICK n \in late : \A m \in late : n <= m
      <4> HIDE DEF late
      <4>1. late \subseteq Nat
        BY DEF late
      <4>2. QED
        BY <2>2, <4>1, LeastElement
    <3>2. n \in Nat /\ from + n < z /\ s[from + n + 1].arrival >= cutoff
      BY <3>1
    <3>3. ASSUME NEW i \in 1..n PROVE s[from + i].arrival < cutoff
      <4>1. i - 1 \in Nat /\ from + (i - 1) < z /\ from + (i - 1) + 1 = from + i
            /\ from + i \in 1..z /\ ~(n <= i - 1)
        BY <1>2, <3>2
      <4>2. i - 1 \notin late
        BY <3>1, <4>1
      <4>3. ~(s[from + (i - 1) + 1].arrival >= cutoff)
        BY <4>1, <4>2
      <4>4. QED
        BY <1>2, <4>1, <4>3
    <3>4. n \in 0..(z - from)
      BY <1>2, <3>2
    <3>5. QED
      BY <3>2, <3>3, <3>4
  <2>3. QED
    BY <2>1, <2>2
<1>4. PICK n : n = TakenBefore(from, cutoff)
  OBVIOUS
<1> HIDE DEF late
<1>5. n \in 0..(z - from) /\ taken(n)
  <2>1. n = CHOOSE m \in 0..(z - from) : taken(m)
    BY <1>1, <1>4 DEF TakenBefore
  <2> HIDE DEF taken
  <2>2. QED
    BY <1>3, <2>1
<1>6. ASSUME NEW i \in (from + 1)..(from + n) PROVE s[i].arrival < cutoff
  <2>1. i - from \in 1..n /\ from + (i - from) = i
    BY <1>2, <1>5
  <2>2. QED
    BY <1>5, <2>1
<1>7. ASSUME NEW i \in (from + n + 1)..z PROVE s[i].arrival >= cutoff
  <2>1. n \in Nat /\ from + n < z /\ from + n + 1 \in 1..z /\ i \in 1..z
    BY <1>2, <1>5
  <2>2. PICK h : h = from + n + 1
    OBVIOUS
  <2>3. s[h].arrival >= cutoff /\ h \in 1..z /\ h <= i
    BY <1>5, <2>1, <2>2
  <2>4. s[h].arrival \in Nat /\ s[i].arrival \in Nat
    BY <1>2, <2>1, <2>3
  <2>5. s[h].arrival <= s[i].arrival
    BY <1>2, <2>1, <2>3, <2>4
  <2>6. QED
    BY <2>3, <2>4, <2>5
<1>8. QED
  BY <1>1, <1>4, <1>5, <1>6, <1>7

----------------------------------------------------------------------------
(***************************************************************************)
(* The cutoffs of a partition.                                             *)
(***************************************************************************)
ClockOK ==
  /\ StreamIs(stream)
  /\ session_start \in 0..MaxTime /\ interval \in 0..MaxTime
  /\ max_batches \in Nat \union {NoLimit}

LEMMA ClockNat ==
  ASSUME ClockOK
  PROVE  /\ session_start \in Nat /\ interval \in Nat /\ Len(stream) \in Nat
         /\ \A n \in 1..Len(stream) : stream[n].arrival \in Nat
  BY TimeWidth DEF ClockOK, StreamIs, Submission

LEMMA EdgesRise ==
  ASSUME ClockOK, NEW j \in Nat, NEW h \in Nat, j <= h
  PROVE  /\ session_start + j * interval \in Nat
         /\ session_start + h * interval \in Nat
         /\ session_start + j * interval <= session_start + h * interval
<1>1. PICK s, w : s = session_start /\ w = interval
  OBVIOUS
<1>2. s \in Nat /\ w \in Nat
  BY <1>1, ClockNat
<1>3. PICK x, y : x = j * w /\ y = h * w
  OBVIOUS
<1>4. x \in Nat /\ y \in Nat /\ x <= y
  BY <1>2, <1>3, Multiples
<1>5. s + x \in Nat /\ s + y \in Nat /\ s + x <= s + y
  BY <1>2, <1>4
<1>6. QED
  BY <1>1, <1>3, <1>5

LEMMA NumBatchesNat ==
  ASSUME ClockOK
  PROVE  /\ NumBatches \in Nat
         /\ stream = << >> \/ interval = 0 => NumBatches = 0
<1>1. CASE stream = << >> \/ interval = 0
  BY <1>1 DEF NumBatches
<1>2. CASE stream # << >> /\ interval # 0
  <2> DEFINE last == stream[Len(stream)].arrival
             span == IF last > session_start THEN last - session_start ELSE 0
             counted == Wrap(span \div interval + 1)
  <2>1. NumBatches = IF max_batches # NoLimit /\ max_batches < counted
                     THEN max_batches ELSE counted
    BY <1>2 DEF NumBatches
  <2>2. Len(stream) \in 1..Len(stream)
    BY <1>2, ClockNat DEF ClockOK, StreamIs
  <2>3. last \in Nat /\ session_start \in Nat /\ interval \in Nat /\ interval > 0
    BY <1>2, <2>2, ClockNat
  <2>4. span \in Nat
    BY <2>3
  <2>5. span \div interval \in Nat
    <3> HIDE DEF span
    <3>1. QED
      BY <2>3, <2>4, Quotient
  <2>6. counted \in 0..MaxTime
    <3> HIDE DEF span
    <3>1. span \div interval + 1 \in Nat
      BY <2>5
    <3>2. QED
      BY <3>1, WrapIsWord
  <2>7. QED
    <3> HIDE DEF counted
    <3>1. QED
      BY <1>2, <2>1, <2>6, TimeWidth DEF ClockOK
<1>3. QED
  BY <1>1, <1>2

\* When the cutoff after the last arrival fits, none of them wraps.
LEMMA CutoffsAre ==
  ASSUME ClockOK, CutoffsFit, stream # << >>, interval # 0
  PROVE  \E h \in Nat :
           /\ h > 0 /\ NumBatches <= h
           /\ max_batches = NoLimit => NumBatches = h
           /\ \A j \in 0..h : Cutoff(j) = session_start + j * interval
           /\ \A n \in 1..Len(stream) :
                stream[n].arrival < session_start + h * interval
<1> DEFINE last == stream[Len(stream)].arrival
           span == IF last > session_start THEN last - session_start ELSE 0
           h == span \div interval + 1
<1>1. Len(stream) \in 1..Len(stream)
  BY ClockNat DEF ClockOK, StreamIs
<1>2. last \in Nat /\ session_start \in Nat /\ interval \in Nat /\ interval > 0
  BY <1>1, ClockNat
<1>3. span \in Nat /\ last <= session_start + span
  BY <1>2
<1>4. h \in Nat /\ h > 0 /\ span < h * interval /\ h <= h * interval
  <2> HIDE DEF span
  <2>1. PICK x, w : x = span /\ w = interval
    OBVIOUS
  <2>2. /\ x \div w \in Nat /\ x < (x \div w + 1) * w
        /\ x \div w + 1 <= (x \div w + 1) * w
    BY <1>2, <1>3, <2>1, Quotient
  <2>3. QED
    BY <2>1, <2>2
<1>5. session_start + h * interval <= MaxTime
  BY <1>2 DEF CutoffsFit
<1>6. NumBatches = IF max_batches # NoLimit /\ max_batches < Wrap(h)
                   THEN max_batches ELSE Wrap(h)
  BY DEF NumBatches
<1> HIDE DEF span, h
<1>7. PICK g, y : g = h /\ y = h * interval
  OBVIOUS
<1>8. y \in Nat /\ g \in Nat /\ g <= y /\ session_start + y <= MaxTime
      /\ span < y /\ MaxTime \in Nat
  BY <1>2, <1>3, <1>4, <1>5, <1>7, TimeWidth
<1>9. Wrap(h) = h
  <2>1. g <= MaxTime
    BY <1>2, <1>8
  <2>2. QED
    BY <1>7, <1>8, <2>1, Fits
<1>10. ASSUME NEW j \in 0..h PROVE Cutoff(j) = session_start + j * interval
  <2>1. j \in Nat /\ h \in Nat /\ j <= h
    BY <1>4
  <2>2. PICK x : x = session_start + j * interval
    OBVIOUS
  <2>3. x \in Nat /\ x <= session_start + y
    BY <1>7, <2>1, <2>2, EdgesRise
  <2>4. x <= MaxTime
    BY <1>2, <1>8, <2>3
  <2>5. Wrap(x) = x
    BY <2>3, <2>4, Fits
  <2>6. QED
    BY <2>2, <2>5 DEF Cutoff
<1>11. ASSUME NEW n \in 1..Len(stream)
       PROVE  stream[n].arrival < session_start + h * interval
  <2>1. stream[n].arrival \in Nat
    BY ClockNat
  <2>2. stream[n].arrival <= last
    <3>1. CASE n = Len(stream)
      BY <1>2, <3>1
    <3>2. CASE n # Len(stream)
      <4>1. n < Len(stream)
        BY <1>1, <3>2, ClockNat
      <4>2. QED
        BY <1>1, <4>1 DEF ClockOK, StreamIs
    <3>3. QED
      BY <3>1, <3>2
  <2>3. PICK t, l, s : t = stream[n].arrival /\ l = last /\ s = session_start
    OBVIOUS
  <2>4. t \in Nat /\ l \in Nat /\ s \in Nat /\ t <= l /\ l <= s + span
    BY <1>2, <1>3, <2>1, <2>2, <2>3
  <2>5. t < s + y
    BY <1>3, <1>8, <2>4
  <2>6. QED
    BY <1>7, <2>3, <2>5
<1>12. NumBatches <= h /\ (max_batches = NoLimit => NumBatches = h)
  BY <1>4, <1>6, <1>9 DEF ClockOK
<1>13. QED
  BY <1>4, <1>10, <1>11, <1>12

----------------------------------------------------------------------------
(***************************************************************************)
(* What has been placed: where each bundle's orders lie in the stream.     *)
(***************************************************************************)
Leaf == [id : Nat, seq : Nat]

AnyBundle ==
  [id : Nat, cutoff : 0..MaxTime, orders : Seq(Leaf), preimages : Seq(Leaf)]

Holds(bundle, s, lo, hi) ==
  /\ Len(bundle.orders) = hi - lo
  /\ bundle.preimages = bundle.orders
  /\ \A i \in 1..(hi - lo) :
       bundle.orders[i].id = s[lo + i].order.id /\ bundle.orders[i].seq = i - 1

\* Bundle b holds what comes after c[b - 1] in the stream and up to c[b].
Cuts(c) ==
  /\ c \in [0..Len(bundles) -> Nat]
  /\ c[0] = 0 /\ c[Len(bundles)] = submission_idx
  /\ \A a, b \in 0..Len(bundles) : a < b => c[a] < c[b]
  /\ \A n \in 1..submission_idx :
       \E b \in 1..Len(bundles) : n \in (c[b - 1] + 1)..c[b]
  /\ \A b \in 1..Len(bundles) :
       /\ bundles[b].id \in 1..(batch_k - 1)
       /\ Holds(bundles[b], stream, c[b - 1], c[b])

InTime(c) ==
  \A b \in 1..Len(bundles) : \A n \in (c[b - 1] + 1)..c[b] :
    InInterval(stream[n].arrival, bundles[b].id)

RestIsLate ==
  \A n \in (submission_idx + 1)..Len(stream) :
    stream[n].arrival >= session_start + (batch_k - 1) * interval

InPieces == \E c : Cuts(c) /\ (CutoffsFit => InTime(c))

PartitionIInv ==
  /\ ClockOK
  /\ submission_idx \in 0..Len(stream)
  /\ batch_k \in Nat /\ finished \in BOOLEAN
  /\ bundles \in Seq(AnyBundle)
  /\ batch_k = 0 => finished /\ stream = << >> /\ bundles = << >>
  /\ batch_k > 1 => batch_k - 1 <= NumBatches
  /\ finished /\ batch_k > 0 => batch_k > NumBatches
  /\ CutoffsFit /\ batch_k > 1 => RestIsLate
  /\ InPieces

LEMMA PartitionInitially ==
  ASSUME PartitionInit
  PROVE  PartitionIInv
<1> USE DEF PartitionInit
<1>1. Len(stream) = 0 /\ Len(bundles) = 0
  OBVIOUS
<1>2. StreamIs(stream)
  BY <1>1 DEF StreamIs
<1>3. ClockOK
  BY <1>2, TimeWidth DEF ClockOK
<1>4. Cuts([b \in 0..0 |-> 0])
  BY <1>1 DEF Cuts
<1>5. InTime([b \in 0..0 |-> 0])
  BY <1>1 DEF InTime
<1>6. bundles \in Seq(AnyBundle)
  OBVIOUS
<1>7. InPieces
  BY <1>4, <1>5 DEF InPieces
<1>8. QED
  BY <1>1, <1>3, <1>6, <1>7 DEF PartitionIInv

LEMMA CallKeeps ==
  ASSUME NEW v \in Seq(Submission),
         \A i, j \in 1..Len(v) : i # j => v[i].order.id # v[j].order.id,
         CallPartition(v),
         session_start' \in 0..MaxTime, interval' \in 0..MaxTime,
         max_batches' \in Nat \union {NoLimit}
  PROVE  PartitionIInv'
<1> USE DEF CallPartition
<1>1. PICK s : s = stream'
  OBVIOUS
<1>2. StreamIs(s)
  <2>1. s \in OrderInputStream(v)
    BY <1>1
  <2>2. QED
    BY <2>1, StreamIsSorted
<1>3. ClockOK'
  BY <1>1, <1>2 DEF ClockOK
<1>4. Len(bundles') = 0 /\ bundles' \in Seq(AnyBundle)
  OBVIOUS
<1>5. Cuts([b \in 0..0 |-> 0])'
  BY <1>4 DEF Cuts
<1>6. InTime([b \in 0..0 |-> 0])'
  BY <1>4 DEF InTime
<1>7. submission_idx' \in 0..Len(stream')
  BY <1>1, <1>2 DEF StreamIs
<1>8. InPieces'
  BY <1>5, <1>6 DEF InPieces
<1>9. batch_k' = 1 /\ ~finished' /\ finished' \in BOOLEAN
  OBVIOUS
<1> HIDE DEF CallPartition
<1>10. QED
  BY <1>3, <1>4, <1>7, <1>8, <1>9 DEF PartitionIInv

LEMMA BundleIs ==
  ASSUME NEW s, StreamIs(s), s = stream, NEW lo \in Nat, NEW n \in Nat,
         lo + n <= Len(s), NEW j \in Nat, ClockOK
  PROVE  Bundle(j, lo, n) \in AnyBundle /\ Holds(Bundle(j, lo, n), s, lo, lo + n)
         /\ Bundle(j, lo, n).id = j
<1> DEFINE leaves == [i \in 1..n |-> [s[lo + i].order EXCEPT !.seq = i - 1]]
<1>1. Bundle(j, lo, n)
        = [id |-> j, cutoff |-> Cutoff(j), orders |-> leaves, preimages |-> leaves]
  BY DEF Bundle
<1>2. Cutoff(j) \in 0..MaxTime
  <2>1. session_start + j * interval \in Nat
    BY EdgesRise
  <2>2. PICK x : x = session_start + j * interval
    OBVIOUS
  <2>3. QED
    BY <2>1, <2>2, WrapIsWord DEF Cutoff
<1>3. ASSUME NEW i \in 1..n
      PROVE  /\ leaves[i] \in Leaf
             /\ leaves[i].id = s[lo + i].order.id /\ leaves[i].seq = i - 1
  <2>1. lo + i \in 1..Len(s) /\ i - 1 \in Nat
    BY DEF StreamIs
  <2>2. s[lo + i].order \in Leaf
    BY <2>1 DEF StreamIs, Submission, Leaf
  <2>3. QED
    BY <2>1, <2>2 DEF Leaf
<1>4. leaves \in Seq(Leaf) /\ Len(leaves) = n
  BY <1>3
<1>5. lo + n - lo = n
  OBVIOUS
<1> HIDE DEF leaves
<1>6. PICK x : x = Bundle(j, lo, n)
  OBVIOUS
<1>7. /\ x = [id |-> j, cutoff |-> Cutoff(j), orders |-> leaves, preimages |-> leaves]
      /\ x.id = j /\ x.orders = leaves /\ x.preimages = leaves
  BY <1>1, <1>6
<1>8. x \in AnyBundle
  BY <1>2, <1>4, <1>7 DEF AnyBundle
<1>9. Holds(x, s, lo, lo + n)
  BY <1>3, <1>4, <1>5, <1>7 DEF Holds
<1>10. QED
  BY <1>6, <1>7, <1>8, <1>9

\* One more piece.
LEMMA CutsGrow ==
  ASSUME ClockOK, submission_idx \in 0..Len(stream), bundles \in Seq(AnyBundle),
         batch_k \in Nat, batch_k >= 1, NEW c, Cuts(c),
         NEW n \in Nat, n > 0, NEW x, x = Bundle(batch_k, submission_idx, n),
         x \in AnyBundle, x.id = batch_k,
         Holds(x, stream, submission_idx, submission_idx + n),
         stream' = stream, bundles' = Append(bundles, x),
         submission_idx' = submission_idx + n, batch_k' = batch_k + 1,
         NEW d, d = [b \in 0..(Len(bundles) + 1) |->
                       IF b = Len(bundles) + 1 THEN submission_idx + n ELSE c[b]]
  PROVE  Cuts(d)'
<1>1. PICK z, i, k : z = Len(bundles) /\ i = submission_idx /\ k = batch_k
  OBVIOUS
<1>2. z \in Nat /\ i \in Nat /\ k \in Nat /\ k >= 1
  BY <1>1, ClockNat
<1>3. /\ Len(bundles') = z + 1 /\ bundles'[z + 1] = x
      /\ \A b \in 1..z : bundles'[b] = bundles[b]
  BY <1>1
<1>4. /\ c \in [0..z -> Nat] /\ c[0] = 0 /\ c[z] = i
      /\ \A a, b \in 0..z : a < b => c[a] < c[b]
      /\ \A m \in 1..i : \E b \in 1..z : m \in (c[b - 1] + 1)..c[b]
  BY <1>1 DEF Cuts
<1>5. /\ d = [b \in 0..(z + 1) |-> IF b = z + 1 THEN i + n ELSE c[b]]
  BY <1>1
<1>6. /\ d \in [0..(z + 1) -> Nat] /\ d[0] = 0 /\ d[z + 1] = i + n
      /\ \A b \in 0..z : d[b] = c[b]
  <2>1. z + 1 \in 0..(z + 1) /\ i + n \in Nat /\ 0 \in 0..z /\ z + 1 # 0
    BY <1>2
  <2>2. \A b \in 0..z : b \in 0..(z + 1) /\ b # z + 1 /\ c[b] \in Nat
    BY <1>2, <1>4
  <2>3. d[z + 1] = i + n /\ \A b \in 0..z : d[b] = c[b]
    BY <1>5, <2>1, <2>2
  <2>4. \A b \in 0..(z + 1) : b = z + 1 \/ b \in 0..z
    BY <1>2
  <2>5. d \in [0..(z + 1) -> Nat]
    BY <1>5, <2>1, <2>2, <2>4
  <2>6. QED
    BY <1>4, <2>1, <2>3, <2>5
<1>7. ASSUME NEW a \in 0..(z + 1), NEW b \in 0..(z + 1), a < b
      PROVE  d[a] < d[b]
  <2>1. CASE b = z + 1
    <3>1. a \in 0..z
      BY <1>2, <1>7, <2>1
    <3>2. c[a] <= i
      <4>1. a = z \/ a < z
        BY <1>2, <3>1
      <4>2. z \in 0..z /\ c[a] \in Nat
        BY <1>2, <1>4, <3>1
      <4>3. QED
        BY <1>2, <1>4, <3>1, <4>1, <4>2
    <3>3. QED
      BY <1>2, <1>4, <1>6, <2>1, <3>1, <3>2
  <2>2. CASE b # z + 1
    <3>1. a \in 0..z /\ b \in 0..z
      BY <1>2, <1>7, <2>2
    <3>2. c[a] < c[b]
      BY <1>4, <1>7, <3>1
    <3>3. QED
      BY <1>6, <3>1, <3>2
  <2>3. QED
    BY <2>1, <2>2
<1>8. ASSUME NEW m \in 1..(i + n)
      PROVE  \E b \in 1..(z + 1) : m \in (d[b - 1] + 1)..d[b]
  <2>1. CASE m <= i
    <3>1. m \in 1..i
      BY <1>2, <2>1
    <3>2. PICK b \in 1..z : m \in (c[b - 1] + 1)..c[b]
      BY <1>4, <3>1
    <3>3. b \in 0..z /\ b - 1 \in 0..z /\ b \in 1..(z + 1)
      BY <1>2
    <3>4. QED
      BY <1>6, <3>2, <3>3
  <2>2. CASE ~(m <= i)
    <3>1. z + 1 \in 1..(z + 1) /\ (z + 1) - 1 = z /\ z \in 0..z
      BY <1>2
    <3>2. d[(z + 1) - 1] = i /\ d[z + 1] = i + n
      BY <1>4, <1>6, <3>1
    <3>3. m \in (i + 1)..(i + n)
      BY <1>2, <2>2
    <3>4. QED
      BY <3>1, <3>2, <3>3
  <2>3. QED
    BY <2>1, <2>2
<1>9. ASSUME NEW b \in 1..(z + 1)
      PROVE  bundles'[b].id \in 1..k /\ Holds(bundles'[b], stream, d[b - 1], d[b])
  <2>1. CASE b = z + 1
    <3>1. d[b - 1] = i /\ d[b] = i + n
      BY <1>2, <1>4, <1>6, <2>1
    <3>2. QED
      BY <1>1, <1>2, <1>3, <2>1, <3>1
  <2>2. CASE b # z + 1
    <3>1. b \in 1..z /\ b \in 0..z /\ b - 1 \in 0..z
      BY <1>2, <2>2
    <3>2. bundles[b].id \in 1..(k - 1) /\ Holds(bundles[b], stream, c[b - 1], c[b])
      BY <1>1, <3>1 DEF Cuts
    <3>3. QED
      BY <1>2, <1>3, <1>6, <3>1, <3>2, SMTT(30)
  <2>3. QED
    BY <2>1, <2>2
<1>10. batch_k' - 1 = k /\ submission_idx' = i + n
  BY <1>1, <1>2
<1>11. QED
  BY <1>3, <1>6, <1>7, <1>8, <1>9, <1>10 DEF Cuts

LEMMA CloseKeeps ==
  ASSUME PartitionIInv, CloseInterval
  PROVE  PartitionIInv'
<1>1. PICK k, i, n : /\ k = batch_k /\ i = submission_idx
                     /\ n = TakenBefore(submission_idx, Cutoff(batch_k))
  OBVIOUS
<1>2. /\ k <= NumBatches /\ ~finished
      /\ submission_idx' = i + n /\ batch_k' = k + 1
      /\ bundles' = IF n = 0 THEN bundles ELSE Append(bundles, Bundle(k, i, n))
      /\ stream' = stream /\ session_start' = session_start /\ interval' = interval
      /\ max_batches' = max_batches /\ finished' = finished
  BY <1>1 DEF CloseInterval
<1>3. /\ ClockOK /\ i \in 0..Len(stream) /\ k \in Nat /\ finished \in BOOLEAN
      /\ bundles \in Seq(AnyBundle) /\ k # 0
  BY <1>1, <1>2 DEF PartitionIInv
<1>4. NumBatches \in Nat /\ stream # << >> /\ interval # 0 /\ k >= 1
  <2>1. NumBatches \in Nat /\ (stream = << >> \/ interval = 0 => NumBatches = 0)
    BY <1>3, NumBatchesNat
  <2>2. QED
    BY <1>2, <1>3, <2>1
<1>5. StreamIs(stream) /\ Len(stream) \in Nat /\ i \in Nat /\ i <= Len(stream)
  BY <1>3, ClockNat DEF ClockOK
<1>6. Cutoff(k) \in Nat
  <2>1. session_start + k * interval \in Nat
    BY <1>3, EdgesRise, SMTT(30)
  <2>2. PICK x : x = session_start + k * interval
    OBVIOUS
  <2>3. QED
    BY <2>1, <2>2, WrapIsWord, TimeWidth DEF Cutoff
<1>7. /\ n \in 0..(Len(stream) - i)
      /\ \A m \in (i + 1)..(i + n) : stream[m].arrival < Cutoff(k)
      /\ \A m \in (i + n + 1)..Len(stream) : stream[m].arrival >= Cutoff(k)
  <2>1. PICK t : t = Cutoff(k)
    OBVIOUS
  <2>2. t \in Nat
    BY <1>6, <2>1
  <2>3. n = TakenBefore(i, t)
    BY <1>1, <2>1
  <2>4. QED
    BY <1>3, <1>5, <2>1, <2>2, <2>3, TakenIs
<1>8. n \in Nat /\ i + n \in 0..Len(stream) /\ i + n <= Len(stream)
  BY <1>5, <1>7
<1>9. CutoffsFit => Cutoff(k) = session_start + k * interval
  <2>1. SUFFICES ASSUME CutoffsFit PROVE Cutoff(k) = session_start + k * interval
    OBVIOUS
  <2>2. PICK h \in Nat : /\ NumBatches <= h
                         /\ \A j \in 0..h : Cutoff(j) = session_start + j * interval
    BY <1>3, <1>4, <2>1, CutoffsAre
  <2>3. k \in 0..h
    BY <1>2, <1>3, <1>4, <2>2
  <2>4. QED
    BY <2>2, <2>3
<1>10. Bundle(k, i, n) \in AnyBundle /\ Holds(Bundle(k, i, n), stream, i, i + n)
       /\ Bundle(k, i, n).id = k
  <2>1. PICK s : s = stream
    OBVIOUS
  <2>2. StreamIs(s) /\ i + n <= Len(s)
    BY <1>5, <1>8, <2>1
  <2>3. QED
    BY <1>3, <1>5, <1>8, <2>1, <2>2, BundleIs
<1>11. PICK c : Cuts(c) /\ (CutoffsFit => InTime(c))
  BY DEF PartitionIInv, InPieces
<1>12. ClockOK' /\ NumBatches' = NumBatches /\ CutoffsFit' = CutoffsFit
  BY <1>2, <1>3 DEF ClockOK, NumBatches, CutoffsFit
<1>13. CutoffsFit => RestIsLate'
  BY <1>1, <1>2, <1>3, <1>7, <1>9 DEF RestIsLate
<1>14. InPieces' /\ bundles' \in Seq(AnyBundle)
  <2>1. CASE n = 0
    <3>1. i + n = i /\ k - 1 + 1 = k
      BY <1>3, <1>5, <2>1
    <3>2. bundles' = bundles /\ submission_idx' = submission_idx
      BY <1>1, <1>2, <2>1, <3>1
    <3>3. Cuts(c)'
      <4>1. \A b \in 1..Len(bundles) : bundles[b].id \in 1..(k - 1)
        BY <1>1, <1>11 DEF Cuts
      <4>2. batch_k' - 1 = k
        BY <1>2, <1>3
      <4>3. \A b \in 1..Len(bundles) : bundles[b].id \in 1..(batch_k' - 1)
        BY <1>3, <4>1, <4>2
      <4>4. QED
        BY <1>2, <1>11, <3>2, <4>3 DEF Cuts
    <3>4. CutoffsFit => InTime(c)'
      BY <1>2, <1>11, <3>2 DEF InTime, InInterval
    <3>5. QED
      BY <1>3, <1>12, <3>2, <3>3, <3>4 DEF InPieces
  <2>2. CASE n # 0
    <3>0. PICK d : d = [b \in 0..(Len(bundles) + 1) |->
                          IF b = Len(bundles) + 1 THEN submission_idx + n ELSE c[b]]
      OBVIOUS
    <3>1. PICK x, z : x = Bundle(k, i, n) /\ z = Len(bundles)
      OBVIOUS
    <3>2. bundles' = Append(bundles, x) /\ n > 0 /\ z \in Nat
      BY <1>2, <1>3, <1>8, <2>2, <3>1
    <3>3. Cuts(d)'
      <4>1. /\ x = Bundle(batch_k, submission_idx, n)
            /\ x \in AnyBundle /\ x.id = batch_k
            /\ Holds(x, stream, submission_idx, submission_idx + n)
        BY <1>1, <1>10, <3>1
      <4>2. /\ submission_idx \in 0..Len(stream) /\ batch_k \in Nat /\ batch_k >= 1
            /\ submission_idx' = submission_idx + n /\ batch_k' = batch_k + 1
        BY <1>1, <1>2, <1>3, <1>4
      <4>3. QED
        BY <1>2, <1>3, <1>8, <1>11, <3>0, <3>2, <4>1, <4>2, CutsGrow
    <3>4. CutoffsFit => InTime(d)'
      <4>1. SUFFICES ASSUME CutoffsFit,
                            NEW b \in 1..(z + 1), NEW m \in (d[b - 1] + 1)..d[b]
                     PROVE  InInterval(stream[m].arrival, bundles'[b].id)
        <5>1. Len(bundles') = z + 1
          BY <1>3, <3>1, <3>2
        <5>2. QED
          BY <1>2, <5>1 DEF InTime, InInterval
      <4>2. c \in [0..z -> Nat] /\ c[z] = i
        BY <1>1, <1>11, <3>1 DEF Cuts
      <4>3. CASE b = z + 1
        <5>1. bundles'[b].id = k
          BY <1>3, <1>10, <3>1, <3>2, <4>3
        <5>2. b - 1 \in 0..z /\ b - 1 = z /\ b \in 0..(z + 1) /\ z # z + 1
              /\ z \in 0..(z + 1)
          BY <3>2, <4>3
        <5>3. d[b] = i + n /\ d[b - 1] = i
          BY <1>1, <3>0, <3>1, <4>2, <4>3, <5>2
        <5>4. m \in (i + 1)..(i + n) /\ m \in (i + 1)..Len(stream)
          BY <1>5, <1>8, <5>3
        <5>5. stream[m].arrival < session_start + k * interval
          BY <1>7, <1>9, <4>1, <5>4
        <5>6. k > 1 => stream[m].arrival >= session_start + (k - 1) * interval
          BY <1>1, <4>1, <5>4 DEF PartitionIInv, RestIsLate
        <5>7. QED
          BY <5>1, <5>5, <5>6 DEF InInterval
      <4>4. CASE b # z + 1
        <5>1. b \in 1..z /\ b \in 0..(z + 1) /\ b - 1 \in 0..(z + 1) /\ b - 1 # z + 1
          BY <3>2, <4>4
        <5>2. bundles'[b] = bundles[b]
          BY <1>3, <3>1, <3>2, <5>1
        <5>3. d[b] = c[b] /\ d[b - 1] = c[b - 1]
          BY <3>0, <3>1, <4>4, <5>1
        <5>4. QED
          BY <1>11, <3>1, <4>1, <5>1, <5>2, <5>3 DEF InTime
      <4>5. QED
        BY <4>3, <4>4
    <3>5. InPieces'
      BY <1>12, <3>3, <3>4 DEF InPieces
    <3>6. bundles' \in Seq(AnyBundle)
      BY <1>3, <1>10, <3>1, <3>2
    <3>7. QED
      BY <3>5, <3>6
  <2>3. QED
    BY <2>1, <2>2
<1>15. batch_k' - 1 = k /\ batch_k' \in Nat /\ batch_k' # 0
  BY <1>2, <1>3
<1>16. QED
  BY <1>2, <1>3, <1>4, <1>8, <1>12, <1>13, <1>14, <1>15 DEF PartitionIInv

LEMMA ReturnKeeps ==
  ASSUME PartitionIInv, ReturnBatches
  PROVE  PartitionIInv'
<1> USE DEF ReturnBatches
<1>1. ClockOK' = ClockOK /\ NumBatches' = NumBatches /\ CutoffsFit' = CutoffsFit
      /\ RestIsLate' = RestIsLate
  BY DEF ClockOK, NumBatches, CutoffsFit, RestIsLate
<1>2. InPieces'
  <2>1. PICK c : Cuts(c) /\ (CutoffsFit => InTime(c))
    BY DEF PartitionIInv, InPieces
  <2>2. Cuts(c)' /\ (CutoffsFit => InTime(c)')
    BY <2>1 DEF Cuts, InTime, InInterval
  <2>3. QED
    BY <1>1, <2>2 DEF InPieces
<1>3. batch_k > NumBatches /\ batch_k' = batch_k /\ finished' /\ finished' \in BOOLEAN
  OBVIOUS
<1>4. UNCHANGED <<stream, submission_idx, bundles>> /\ ~finished
  OBVIOUS
<1> HIDE DEF ReturnBatches
<1>5. QED
  BY <1>1, <1>2, <1>3, <1>4 DEF PartitionIInv

----------------------------------------------------------------------------
LEMMA IntervalsFollow ==
  ASSUME ClockOK, NEW t \in Nat, NEW j \in Nat, NEW h \in Nat, 1 <= j, j < h,
         InInterval(t, j)
  PROVE  ~InInterval(t, h)
<1>1. j <= h - 1 /\ h - 1 \in Nat /\ h > 1
  OBVIOUS
<1>2. /\ session_start + j * interval \in Nat
      /\ session_start + (h - 1) * interval \in Nat
      /\ session_start + j * interval <= session_start + (h - 1) * interval
  BY <1>1, EdgesRise
<1>3. PICK x, y : x = session_start + j * interval
                  /\ y = session_start + (h - 1) * interval
  OBVIOUS
<1>4. t < x
  BY <1>3 DEF InInterval
<1>5. ~(t >= y)
  BY <1>2, <1>3, <1>4
<1>6. QED
  BY <1>1, <1>3, <1>5 DEF InInterval

LEMMA IntervalsApart ==
  ASSUME ClockOK, NEW t \in Nat, NEW j \in Nat, NEW h \in Nat, 1 <= j, 1 <= h,
         InInterval(t, j), InInterval(t, h)
  PROVE  j = h
<1>1. j < h \/ h < j \/ j = h
  OBVIOUS
<1>2. QED
  BY <1>1, IntervalsFollow

\* The submission an order of a bundle came from.
LEMMA ComesFrom ==
  ASSUME PartitionIInv, NEW c, Cuts(c), NEW b \in 1..Len(bundles),
         NEW i \in 1..Len(bundles[b].orders)
  PROVE  /\ c[b - 1] \in Nat /\ c[b] \in Nat
         /\ c[b - 1] + i \in (c[b - 1] + 1)..c[b]
         /\ c[b - 1] + i \in 1..Len(stream)
         /\ bundles[b].orders[i].id = stream[c[b - 1] + i].order.id
<1>1. PICK z, l, s : z = Len(bundles) /\ l = Len(stream) /\ s = submission_idx
  OBVIOUS
<1>2. z \in Nat /\ l \in Nat /\ s \in Nat /\ s <= l
  BY <1>1, ClockNat DEF PartitionIInv
<1>3. b \in 0..z /\ b - 1 \in 0..z /\ z \in 0..z /\ (b = z \/ b < z)
  BY <1>1, <1>2
<1>4. c[b - 1] \in Nat /\ c[b] \in Nat /\ c[z] = s /\ c[b] <= s
  <2>1. /\ c \in [0..z -> Nat] /\ c[z] = s
        /\ \A g, h \in 0..z : g < h => c[g] < c[h]
    BY <1>1 DEF Cuts
  <2>2. c[b - 1] \in Nat /\ c[b] \in Nat /\ (b = z \/ c[b] < c[z])
    BY <1>3, <2>1
  <2>3. QED
    BY <1>2, <2>1, <2>2
<1>5. Holds(bundles[b], stream, c[b - 1], c[b])
  BY DEF Cuts
<1>6. i \in 1..(c[b] - c[b - 1])
  BY <1>5 DEF Holds
<1>7. i \in Nat /\ i >= 1 /\ c[b - 1] + i <= c[b]
  BY <1>4, <1>6
<1>8. PICK lo, hi : lo = c[b - 1] /\ hi = c[b]
  OBVIOUS
<1>9. lo + i \in (lo + 1)..hi /\ lo + i \in 1..l
  BY <1>2, <1>4, <1>7, <1>8
<1>10. bundles[b].orders[i].id = stream[lo + i].order.id
  BY <1>5, <1>6, <1>8 DEF Holds
<1>11. QED
  BY <1>1, <1>4, <1>8, <1>9, <1>10

LEMMA PlacedFromInvariant ==
  ASSUME PartitionIInv
  PROVE  PlacedInTheirInterval
<1>1. SUFFICES ASSUME CutoffsFit
      PROVE  /\ \A b \in 1..Len(bundles) : \A i \in 1..Len(bundles[b].orders) :
                  InInterval(Arrival(bundles[b].orders[i]), bundles[b].id)
             /\ \A j \in 1..(batch_k - 1) :
                  (\A b \in 1..Len(bundles) : bundles[b].id # j) =>
                    \A n \in 1..Len(stream) : ~InInterval(stream[n].arrival, j)
  BY DEF PlacedInTheirInterval
<1>2. PICK c : Cuts(c) /\ InTime(c)
  BY <1>1 DEF PartitionIInv, InPieces
<1>3. ClockOK /\ batch_k \in Nat /\ submission_idx \in 0..Len(stream)
  BY DEF PartitionIInv
<1>4. ASSUME NEW b \in 1..Len(bundles), NEW i \in 1..Len(bundles[b].orders)
      PROVE  InInterval(Arrival(bundles[b].orders[i]), bundles[b].id)
  <2>1. PICK m : m = c[b - 1] + i
    OBVIOUS
  <2>2. /\ m \in (c[b - 1] + 1)..c[b] /\ m \in 1..Len(stream)
        /\ bundles[b].orders[i].id = stream[m].order.id
    BY <1>2, <2>1, ComesFrom
  <2>3. InInterval(stream[m].arrival, bundles[b].id)
    BY <1>2, <2>2 DEF InTime
  <2>4. \A p, q \in 1..Len(stream) : p # q => stream[p].order.id # stream[q].order.id
    BY <1>3 DEF ClockOK, StreamIs
  <2>5. m = CHOOSE n \in 1..Len(stream) : stream[n].order.id = bundles[b].orders[i].id
    BY <2>2, <2>4
  <2>6. Arrival(bundles[b].orders[i]) = stream[m].arrival
    BY <2>5 DEF Arrival
  <2>7. QED
    BY <2>3, <2>6
<1>5. ASSUME NEW j \in 1..(batch_k - 1),
             \A b \in 1..Len(bundles) : bundles[b].id # j,
             NEW n \in 1..Len(stream)
      PROVE  ~InInterval(stream[n].arrival, j)
  <2>1. j \in Nat /\ 1 <= j /\ batch_k > 1 /\ batch_k - 1 \in Nat /\ j <= batch_k - 1
    BY <1>3
  <2>2. PICK t : t = stream[n].arrival
    OBVIOUS
  <2>3. t \in Nat
    BY <1>3, <2>2, ClockNat
  <2>4. CASE n <= submission_idx
    <3>1. n \in 1..submission_idx
      BY <1>3, <2>4, ClockNat
    <3>2. PICK b \in 1..Len(bundles) : n \in (c[b - 1] + 1)..c[b]
      BY <1>2, <3>1 DEF Cuts
    <3>3. PICK h : h = bundles[b].id
      OBVIOUS
    <3>4. h \in Nat /\ 1 <= h /\ h # j
      BY <1>2, <1>3, <1>5, <3>3 DEF Cuts
    <3>5. InInterval(t, h)
      BY <1>2, <2>2, <3>2, <3>3 DEF InTime
    <3>6. ~InInterval(t, j)
      BY <1>3, <2>1, <2>3, <3>4, <3>5, IntervalsApart
    <3>7. QED
      BY <2>2, <3>6
  <2>5. CASE ~(n <= submission_idx)
    <3>1. n \in (submission_idx + 1)..Len(stream)
      BY <1>3, <2>5, ClockNat
    <3>2. t >= session_start + (batch_k - 1) * interval
      BY <1>1, <2>1, <2>2, <3>1 DEF PartitionIInv, RestIsLate
    <3>3. PICK k : k = batch_k - 1
      OBVIOUS
    <3>4. PICK x, y : x = session_start + j * interval
                      /\ y = session_start + k * interval
      OBVIOUS
    <3>5. x \in Nat /\ y \in Nat /\ x <= y
      BY <1>3, <2>1, <3>3, <3>4, EdgesRise
    <3>6. t >= y
      BY <3>2, <3>3, <3>4
    <3>7. ~(t < x)
      BY <2>3, <3>5, <3>6
    <3>8. QED
      BY <2>2, <3>4, <3>7 DEF InInterval
  <2>6. QED
    BY <2>4, <2>5
<1>6. QED
  BY <1>4, <1>5

LEMMA NothingLeftFromInvariant ==
  ASSUME PartitionIInv
  PROVE  NothingLeftOut
<1>1. SUFFICES ASSUME finished, CutoffsFit, max_batches = NoLimit, interval > 0,
                      NEW n \in 1..Len(stream)
      PROVE  1 = Cardinality({p \in (1..Len(bundles)) \X (1..Len(stream)) :
                         /\ p[2] <= Len(bundles[p[1]].orders)
                         /\ bundles[p[1]].orders[p[2]].id = stream[n].order.id})
  BY DEF NothingLeftOut
<1> DEFINE P == {p \in (1..Len(bundles)) \X (1..Len(stream)) :
                   /\ p[2] <= Len(bundles[p[1]].orders)
                   /\ bundles[p[1]].orders[p[2]].id = stream[n].order.id}
<1>2. ClockOK /\ batch_k \in Nat /\ submission_idx \in 0..Len(stream)
  BY DEF PartitionIInv
<1>3. Len(stream) \in Nat /\ stream # << >> /\ interval # 0
  BY <1>1, <1>2, ClockNat
<1>4. batch_k > NumBatches /\ batch_k > 0
  BY <1>1, <1>2, <1>3 DEF PartitionIInv
<1>5. PICK h \in Nat :
        /\ h > 0 /\ NumBatches = h
        /\ stream[n].arrival < session_start + h * interval
  BY <1>1, <1>2, <1>3, CutoffsAre
<1>6. n \in 1..submission_idx
  <2>1. SUFFICES ASSUME n \notin 1..submission_idx PROVE FALSE
    OBVIOUS
  <2>2. n \in (submission_idx + 1)..Len(stream)
    BY <1>2, <1>3, <2>1
  <2>3. batch_k > 1 /\ batch_k - 1 \in Nat /\ h <= batch_k - 1
    BY <1>2, <1>4, <1>5
  <2>4. stream[n].arrival >= session_start + (batch_k - 1) * interval
    BY <1>1, <2>2, <2>3 DEF PartitionIInv, RestIsLate
  <2>5. PICK k : k = batch_k - 1
    OBVIOUS
  <2>6. PICK t, x, y : /\ t = stream[n].arrival
                       /\ x = session_start + h * interval
                       /\ y = session_start + k * interval
    OBVIOUS
  <2>7. x \in Nat /\ y \in Nat /\ x <= y
    BY <1>2, <2>3, <2>5, <2>6, EdgesRise
  <2>8. t \in Nat
    BY <1>2, <2>6, ClockNat
  <2>9. t < x /\ t >= y
    BY <1>5, <2>4, <2>5, <2>6
  <2>10. QED
    BY <2>7, <2>8, <2>9
<1>7. PICK c : Cuts(c)
  BY DEF PartitionIInv, InPieces
<1>8. PICK b \in 1..Len(bundles) : n \in (c[b - 1] + 1)..c[b]
  BY <1>6, <1>7 DEF Cuts
<1>9. Len(bundles) \in Nat
  BY DEF PartitionIInv
<1>10. \A a \in 0..Len(bundles) : c[a] \in Nat
  BY <1>7 DEF Cuts
<1>11. b - 1 \in 0..Len(bundles) /\ b \in 0..Len(bundles)
  BY <1>9
<1>12. PICK i : i = n - c[b - 1]
  OBVIOUS
<1>13. c[b - 1] \in Nat /\ c[b] \in Nat
  BY <1>10, <1>11
<1>14. i \in 1..(c[b] - c[b - 1]) /\ c[b - 1] + i = n /\ i \in 1..Len(stream)
  BY <1>3, <1>8, <1>12, <1>13, SMTT(30)
<1>15. Holds(bundles[b], stream, c[b - 1], c[b])
  BY <1>7 DEF Cuts
<1>16. i <= Len(bundles[b].orders) /\ bundles[b].orders[i].id = stream[n].order.id
  BY <1>13, <1>14, <1>15 DEF Holds
<1>17. <<b, i>> \in P
  BY <1>14, <1>16
<1>18. ASSUME NEW p \in P PROVE p = <<b, i>>
  <2>1. PICK a \in 1..Len(bundles), m \in 1..Len(stream) :
          /\ p = <<a, m>> /\ m <= Len(bundles[a].orders)
          /\ bundles[a].orders[m].id = stream[n].order.id
    OBVIOUS
  <2>2. Len(bundles[a].orders) \in Nat
    <3>1. bundles[a] \in AnyBundle
      BY DEF PartitionIInv
    <3>2. bundles[a].orders \in Seq(Leaf)
      BY <3>1 DEF AnyBundle
    <3>3. QED
      BY <3>2
  <2>3. m \in 1..Len(bundles[a].orders)
    BY <1>3, <2>1, <2>2
  <2>4. PICK l : l = c[a - 1] + m
    OBVIOUS
  <2>5. /\ c[a - 1] \in Nat /\ c[a] \in Nat
        /\ l \in (c[a - 1] + 1)..c[a] /\ l \in 1..Len(stream)
        /\ bundles[a].orders[m].id = stream[l].order.id
    BY <1>7, <2>3, <2>4, ComesFrom
  <2>6. l = n
    <3>1. \A g, o \in 1..Len(stream) : g # o => stream[g].order.id # stream[o].order.id
      BY <1>2 DEF ClockOK, StreamIs
    <3>2. QED
      BY <2>1, <2>5, <3>1
  <2>7. a = b
    <3>1. \A g, o \in 0..Len(bundles) : g < o => c[g] < c[o]
      BY <1>7 DEF Cuts
    <3>2. a - 1 \in 0..Len(bundles) /\ a \in 0..Len(bundles)
      BY <1>9
    <3>3. CASE a < b
      <4>1. a = b - 1 \/ a < b - 1
        BY <1>9, <3>3
      <4>2. c[a] <= c[b - 1]
        <5>1. c[a] \in Nat /\ c[b - 1] \in Nat
          BY <1>10, <1>11, <3>2
        <5>2. a < b - 1 => c[a] < c[b - 1]
          BY <1>11, <3>1, <3>2
        <5>3. QED
          BY <4>1, <5>1, <5>2
      <4>3. QED
        BY <1>8, <1>13, <2>5, <2>6, <4>2
    <3>4. CASE b < a
      <4>1. b = a - 1 \/ b < a - 1
        BY <1>9, <3>4
      <4>2. c[b] <= c[a - 1]
        <5>1. c[b] \in Nat /\ c[a - 1] \in Nat
          BY <1>10, <1>11, <3>2
        <5>2. b < a - 1 => c[b] < c[a - 1]
          BY <1>11, <3>1, <3>2
        <5>3. QED
          BY <4>1, <5>1, <5>2
      <4>3. QED
        BY <1>8, <1>13, <2>5, <2>6, <4>2
    <3>5. QED
      BY <1>9, <3>3, <3>4
  <2>8. m = i
    BY <1>12, <1>13, <2>1, <2>4, <2>6, <2>7
  <2>9. QED
    BY <2>1, <2>7, <2>8
<1>19. P = {<<b, i>>}
  <2> HIDE DEF P
  <2>1. QED
    BY <1>17, <1>18
<1>20. Cardinality({<<b, i>>}) = 1
  BY FS_Singleton
<1>21. QED
  BY <1>19, <1>20

----------------------------------------------------------------------------
(***************************************************************************)
(* Draws and prices.                                                       *)
(***************************************************************************)
LEMMA GenRangeIs ==
  ASSUME NEW min \in Int, NEW max \in Int, NEW x \in GenRange(min, max)
  PROVE  x \in Int /\ x >= min /\ (min <= max => x <= max)
<1>1. CASE min >= max
  BY <1>1 DEF GenRange
<1>2. CASE ~(min >= max)
  <2>1. x \in min..max
    BY <1>2 DEF GenRange
  <2>2. QED
    BY <1>2, <2>1
<1>3. QED
  BY <1>1, <1>2

LEMMA UnsignedIs ==
  ASSUME NEW n \in Nat
  PROVE  Unsigned(n) \in Nat /\ (n <= MaxRaw => Unsigned(n) = n)
<1>1. MaxRaw \in Nat /\ MaxRaw + 1 > 0
  BY WordWidth
<1>2. n % (MaxRaw + 1) \in Nat
  BY <1>1
<1>3. n <= MaxRaw => n % (MaxRaw + 1) = n
  BY <1>1
<1>4. QED
  BY <1>2, <1>3 DEF Unsigned

\* Within the given number of ticks of the mid, and a price.
Within(price, mid, ticks) ==
  price >= 1 /\ price \in (mid - ticks)..(mid + ticks) \union {1}

LEMMA FlowPriceIs ==
  ASSUME NEW mid \in Price, NEW spread \in Nat, NEW delta \in Nat, delta <= spread,
         NEW side
  PROVE  /\ FlowPrice(mid, delta, side) \in Nat /\ FlowPrice(mid, delta, side) >= 1
         /\ mid + spread <= MaxRaw =>
              Within(FlowPrice(mid, delta, side), mid, spread)
<1>1. PICK half, r : half = delta \div 2 /\ r = delta % 3
  OBVIOUS
<1>2. half \in Nat /\ r \in Nat /\ half <= delta /\ r <= delta
  BY <1>1
<1>3. mid \in Nat /\ mid >= 1 /\ MaxRaw \in Nat
  BY WordWidth DEF Price
<1>4. mid + half \in Nat /\ SaturatingSub(mid, half) + r \in Nat
  BY <1>2, <1>3 DEF SaturatingSub
<1>5. PICK u, w : u = Unsigned(mid + half) /\ w = Unsigned(SaturatingSub(mid, half) + r)
  OBVIOUS
<1>6. /\ u \in Nat /\ (mid + half <= MaxRaw => u = mid + half)
      /\ w \in Nat
      /\ SaturatingSub(mid, half) + r <= MaxRaw => w = SaturatingSub(mid, half) + r
  <2>1. PICK x, y : x = mid + half /\ y = SaturatingSub(mid, half) + r
    OBVIOUS
  <2>2. QED
    BY <1>4, <1>5, <2>1, UnsignedIs
<1>7. PICK raw : raw = IF side = "Buy" THEN SaturatingSub(u, r) ELSE w
  OBVIOUS
<1>8. FlowPrice(mid, delta, side) = IF raw = 0 THEN 1 ELSE raw
  BY <1>1, <1>5, <1>7 DEF FlowPrice
<1>9. raw \in Nat
  BY <1>2, <1>6, <1>7 DEF SaturatingSub
<1>10. ASSUME mid + spread <= MaxRaw
       PROVE  raw >= mid - spread /\ raw <= mid + spread
  <2>1. CASE side = "Buy"
    <3>1. u = mid + half
      BY <1>2, <1>3, <1>6, <1>10
    <3>2. raw = SaturatingSub(mid + half, r)
      BY <1>7, <2>1, <3>1
    <3>3. QED
      BY <1>2, <1>3, <3>2 DEF SaturatingSub
  <2>2. CASE side # "Buy"
    <3>1. SaturatingSub(mid, half) + r <= mid + spread
          /\ SaturatingSub(mid, half) + r >= mid - spread
      BY <1>2, <1>3 DEF SaturatingSub
    <3>2. PICK y : y = SaturatingSub(mid, half) + r
      OBVIOUS
    <3>3. y \in Nat /\ y <= MaxRaw
      BY <1>3, <1>4, <1>10, <3>1, <3>2
    <3>4. raw = y
      BY <1>6, <1>7, <2>2, <3>2, <3>3
    <3>5. QED
      BY <3>1, <3>2, <3>4
  <2>3. QED
    BY <2>1, <2>2
<1>11. QED
  <2>1. FlowPrice(mid, delta, side) \in Nat /\ FlowPrice(mid, delta, side) >= 1
    BY <1>8, <1>9
  <2>2. ASSUME mid + spread <= MaxRaw
        PROVE  FlowPrice(mid, delta, side) \in (mid - spread)..(mid + spread) \union {1}
    <3>1. mid - spread \in Int /\ mid + spread \in Int
      BY <1>3
    <3>2. raw \in (mid - spread)..(mid + spread)
      BY <1>9, <1>10, <2>2, <3>1
    <3>3. QED
      BY <1>8, <3>2
  <2>3. QED
    BY <2>1, <2>2 DEF Within

\* The two sides of a quote or of a taker.
LEMMA SidesWithin ==
  ASSUME NEW mid \in Price, NEW ticks \in Nat, NEW reach \in Nat, ticks <= reach
  PROVE  /\ Beneath(mid, ticks) \in Nat /\ Within(Beneath(mid, ticks), mid, reach)
         /\ Unsigned(mid + ticks) \in Nat
         /\ mid + reach <= MaxRaw => Within(Unsigned(mid + ticks), mid, reach)
<1>1. mid \in Nat /\ mid >= 1 /\ MaxRaw \in Nat
  BY WordWidth DEF Price
<1>2. Beneath(mid, ticks) \in Nat /\ Within(Beneath(mid, ticks), mid, reach)
  <2>1. CASE mid > ticks
    <3>1. Beneath(mid, ticks) = mid - ticks
      BY <2>1 DEF Beneath
    <3>2. QED
      BY <1>1, <2>1, <3>1 DEF Within
  <2>2. CASE ~(mid > ticks)
    BY <2>2 DEF Beneath, Within
  <2>3. QED
    BY <2>1, <2>2
<1>3. PICK x : x = mid + ticks
  OBVIOUS
<1>4. x \in Nat
  BY <1>1, <1>3
<1>5. Unsigned(x) \in Nat /\ (x <= MaxRaw => Unsigned(x) = x)
  BY <1>4, UnsignedIs
<1>6. ASSUME mid + reach <= MaxRaw PROVE Within(Unsigned(x), mid, reach)
  <2>1. Unsigned(x) = mid + ticks
    BY <1>1, <1>3, <1>5, <1>6
  <2>2. QED
    BY <1>1, <2>1 DEF Within
<1>7. QED
  BY <1>2, <1>3, <1>5, <1>6

----------------------------------------------------------------------------
(***************************************************************************)
(* The batches of a session, one after the other.                          *)
(***************************************************************************)
SyntheticOrder ==
  [id : Nat, account : Nat, side : Sides, price : Nat, qty : Nat, seq : Nat]

Generated ==
  [id : Nat, orders : Seq(SyntheticOrder), preimages : Seq(SyntheticOrder)]

Joined(g) ==
  LET upto[b \in 0..Len(g)] ==
        IF b = 0 THEN << >> ELSE upto[b - 1] \o g[b].orders
  IN  upto[Len(g)]

Joining(p, g, n) ==
  /\ p \in [0..n -> Seq(SyntheticOrder)]
  /\ p[0] = << >>
  /\ \A b \in 1..n : p[b] = p[b - 1] \o g[b].orders

LEMMA JoiningExists ==
  ASSUME NEW N \in Nat, NEW g, \A b \in 1..N : g[b].orders \in Seq(SyntheticOrder)
  PROVE  \E p : Joining(p, g, N)
<1> DEFINE T == {n \in Nat : n <= N => \E p : Joining(p, g, n)}
<1>1. 0 \in T
  <2>1. Joining([b \in 0..0 |-> << >>], g, 0)
    BY DEF Joining
  <2>2. QED
    BY <2>1
<1>2. ASSUME NEW n \in T PROVE n + 1 \in T
  <2>1. SUFFICES ASSUME n + 1 <= N PROVE \E q : Joining(q, g, n + 1)
    BY <1>2
  <2>2. PICK p : Joining(p, g, n)
    BY <2>1, <1>2
  <2> DEFINE q == [b \in 0..(n + 1) |->
                     IF b = n + 1 THEN p[n] \o g[n + 1].orders ELSE p[b]]
  <2>3. n \in Nat
    OBVIOUS
  <2>4. /\ p \in [0..n -> Seq(SyntheticOrder)] /\ p[0] = << >>
        /\ \A b \in 1..n : p[b] = p[b - 1] \o g[b].orders
    BY <2>2 DEF Joining
  <2>5. p[n] \o g[n + 1].orders \in Seq(SyntheticOrder)
    <3>1. n + 1 \in 1..N /\ n \in 0..n
      BY <2>1, <2>3
    <3>2. p[n] \in Seq(SyntheticOrder) /\ g[n + 1].orders \in Seq(SyntheticOrder)
      BY <2>4, <3>1
    <3>3. QED
      BY <3>2
  <2>6. q \in [0..(n + 1) -> Seq(SyntheticOrder)]
    <3>1. \A b \in 0..(n + 1) : b = n + 1 \/ b \in 0..n
      BY <2>3
    <3>2. QED
      BY <2>4, <2>5, <3>1
  <2>7. q[0] = << >>
    BY <2>3, <2>4
  <2>8. ASSUME NEW b \in 1..(n + 1) PROVE q[b] = q[b - 1] \o g[b].orders
    <3>1. b - 1 \in 0..n /\ b - 1 \in 0..(n + 1) /\ b - 1 # n + 1 /\ b \in 0..(n + 1)
      BY <2>3
    <3>2. q[b - 1] = p[b - 1]
      BY <3>1
    <3>3. CASE b = n + 1
      <4>1. b - 1 = n
        BY <2>3, <3>3
      <4>2. q[b] = p[n] \o g[n + 1].orders
        BY <3>1, <3>3
      <4>3. QED
        BY <3>2, <3>3, <4>1, <4>2
    <3>4. CASE b # n + 1
      <4>1. b \in 1..n
        BY <2>3, <3>4
      <4>2. q[b] = p[b]
        BY <3>1, <3>4
      <4>3. QED
        BY <2>4, <3>2, <4>1, <4>2
    <3>5. QED
      BY <3>3, <3>4
  <2>9. QED
    <3> HIDE DEF q
    <3>1. QED
      BY <2>6, <2>7, <2>8 DEF Joining
<1>3. T = Nat
  <2> HIDE DEF T
  <2>1. T \in SUBSET Nat
    BY DEF T
  <2>2. QED
    BY <2>1, <1>1, <1>2, SetInduction
<1>4. N \in T
  BY <1>3
<1>5. QED
  BY <1>4

LEMMA JoiningIs ==
  ASSUME NEW g, Len(g) \in Nat, NEW q, Joining(q, g, Len(g))
  PROVE  Joined(g) = q[Len(g)]
<1>0. PICK N \in Nat : N = Len(g)
  OBVIOUS
<1> DEFINE P(p) == p = [b \in 0..N |->
                          IF b = 0 THEN << >> ELSE p[b - 1] \o g[b].orders]
           r == CHOOSE p : P(p)
<1>1. P(q)
  BY <1>0 DEF Joining
<1>2. P(r)
  BY <1>1
<1>3. \A n \in 0..N : r[n] = q[n]
  <2> HIDE DEF r
  <2> DEFINE T == {n \in Nat : n <= N => r[n] = q[n]}
  <2>1. 0 \in T
    BY <1>0, <1>1, <1>2
  <2>2. ASSUME NEW n \in T PROVE n + 1 \in T
    <3>1. SUFFICES ASSUME n + 1 <= N PROVE r[n + 1] = q[n + 1]
      BY <2>2
    <3>2. n \in Nat /\ n + 1 \in 0..N /\ n + 1 # 0 /\ (n + 1) - 1 = n /\ n <= N
      BY <3>1
    <3>3. r[n] = q[n]
      BY <2>2, <3>2
    <3>4. /\ r[n + 1] = r[(n + 1) - 1] \o g[n + 1].orders
          /\ q[n + 1] = q[(n + 1) - 1] \o g[n + 1].orders
      BY <1>1, <1>2, <3>2
    <3>5. QED
      BY <3>2, <3>3, <3>4
  <2>3. T = Nat
    <3> HIDE DEF T
    <3>1. T \in SUBSET Nat
      BY DEF T
    <3>2. QED
      BY <3>1, <2>1, <2>2, SetInduction
  <2>4. QED
    BY <2>3
<1>4. Joined(g) = r[N]
  BY <1>0 DEF Joined
<1>5. N \in 0..N
  OBVIOUS
<1>6. QED
  <2> HIDE DEF r
  <2>1. QED
    BY <1>0, <1>3, <1>4, <1>5

LEMMA JoinedAppend ==
  ASSUME NEW g \in Seq(Generated), NEW x \in Generated
  PROVE  /\ Joined(g) \in Seq(SyntheticOrder)
         /\ Joined(Append(g, x)) = Joined(g) \o x.orders
<1>1. PICK z \in Nat : z = Len(g)
  OBVIOUS
<1>2. PICK h : h = Append(g, x)
  OBVIOUS
<1>3. Len(h) = z + 1 /\ h[z + 1] = x /\ \A b \in 1..z : h[b] = g[b]
  BY <1>1, <1>2
<1>4. ASSUME NEW b \in 1..(z + 1) PROVE h[b].orders \in Seq(SyntheticOrder)
  <2>1. h[b] \in Generated
    BY <1>1, <1>3
  <2>2. QED
    BY <2>1 DEF Generated
<1>5. PICK q : Joining(q, h, z + 1)
  <2>1. z + 1 \in Nat
    OBVIOUS
  <2>2. QED
    BY <1>4, <2>1, JoiningExists
<1>6. Joined(h) = q[z + 1]
  <2>1. Len(h) \in Nat /\ Joining(q, h, Len(h))
    BY <1>3, <1>5
  <2>2. QED
    BY <1>3, <2>1, JoiningIs
<1>7. q \in [0..(z + 1) -> Seq(SyntheticOrder)] /\ q[0] = << >>
      /\ \A b \in 1..(z + 1) : q[b] = q[b - 1] \o h[b].orders
  BY <1>5 DEF Joining
<1>8. PICK p : p = [b \in 0..z |-> q[b]]
  OBVIOUS
<1>9. Joining(p, g, z)
  <2>1. \A b \in 0..z : b \in 0..(z + 1) /\ p[b] = q[b]
    BY <1>8
  <2>2. p \in [0..z -> Seq(SyntheticOrder)] /\ p[0] = << >>
    BY <1>7, <1>8, <2>1
  <2>3. ASSUME NEW b \in 1..z PROVE p[b] = p[b - 1] \o g[b].orders
    <3>1. b \in 1..(z + 1) /\ b \in 0..z /\ b - 1 \in 0..z
      OBVIOUS
    <3>2. q[b] = q[b - 1] \o h[b].orders
      BY <1>7, <3>1
    <3>3. QED
      BY <1>3, <2>1, <3>1, <3>2
  <2>4. QED
    BY <2>2, <2>3 DEF Joining
<1>10. Joined(g) = q[z]
  <2>1. Len(g) \in Nat /\ Joining(p, g, Len(g))
    BY <1>1, <1>9
  <2>2. Joined(g) = p[Len(g)]
    BY <2>1, JoiningIs
  <2>3. QED
    BY <1>1, <1>8, <2>2
<1>11. q[z + 1] = q[(z + 1) - 1] \o h[z + 1].orders /\ (z + 1) - 1 = z
  <2>1. z + 1 \in 1..(z + 1) /\ (z + 1) - 1 = z
    OBVIOUS
  <2>2. QED
    BY <1>7, <2>1
<1>12. q[z] \in Seq(SyntheticOrder)
  <2>1. z \in 0..(z + 1)
    OBVIOUS
  <2>2. QED
    BY <1>7, <2>1
<1>13. QED
  BY <1>2, <1>3, <1>6, <1>10, <1>11, <1>12

LEMMA NothingJoined ==
  Joined(<< >>) = << >>
<1>1. PICK g : g = << >>
  OBVIOUS
<1>2. Len(g) \in Nat /\ Len(g) = 0
  BY <1>1
<1>3. Joining([b \in 0..0 |-> << >>], g, Len(g))
  BY <1>2 DEF Joining
<1>4. PICK q : q = [b \in 0..0 |-> << >>]
  OBVIOUS
<1>5. Joined(g) = q[Len(g)]
  BY <1>2, <1>3, <1>4, JoiningIs
<1>6. QED
  BY <1>1, <1>2, <1>4, <1>5

----------------------------------------------------------------------------
(***************************************************************************)
(* Sorting what is numbered already.                                       *)
(***************************************************************************)
LEMMA RisingIsIdentity ==
  ASSUME NEW n \in Nat, NEW f, \A i \in 1..n : f[i] \in 1..n,
         \A i, j \in 1..n : i < j => f[i] < f[j]
  PROVE  \A i \in 1..n : f[i] = i
<1> DEFINE T == {i \in Nat : i \in 1..n => i <= f[i]}
           U == {d \in Nat : d < n => f[n - d] <= n - d}
<1>1. \A i \in Nat : i \in T
  <2>1. 0 \in T
    OBVIOUS
  <2>2. ASSUME NEW i \in T PROVE i + 1 \in T
    <3>1. SUFFICES ASSUME i + 1 \in 1..n PROVE i + 1 <= f[i + 1]
      OBVIOUS
    <3>2. CASE i = 0
      BY <3>1, <3>2
    <3>3. CASE i # 0
      <4>1. i \in 1..n /\ i <= f[i]
        BY <3>1, <3>3
      <4>2. f[i] < f[i + 1] /\ f[i] \in Nat /\ f[i + 1] \in Nat
        BY <3>1, <4>1
      <4>3. QED
        BY <4>1, <4>2
    <3>4. QED
      BY <3>2, <3>3
  <2>3. T \in SUBSET Nat
    OBVIOUS
  <2> HIDE DEF T
  <2>4. QED
    BY <2>1, <2>2, <2>3, SetInduction
<1>2. \A d \in Nat : d \in U
  <2>1. 0 \in U
    OBVIOUS
  <2>2. ASSUME NEW d \in U PROVE d + 1 \in U
    <3>1. SUFFICES ASSUME d + 1 < n PROVE f[n - (d + 1)] <= n - (d + 1)
      OBVIOUS
    <3>2. PICK i : i = n - (d + 1)
      OBVIOUS
    <3>3. i \in 1..n /\ i + 1 \in 1..n /\ n - d = i + 1 /\ d < n
      BY <3>1, <3>2
    <3>4. f[i + 1] <= i + 1
      BY <3>3
    <3>5. f[i] < f[i + 1] /\ f[i] \in Nat /\ f[i + 1] \in Nat
      BY <3>3
    <3>6. QED
      BY <3>2, <3>3, <3>4, <3>5
  <2>3. U \in SUBSET Nat
    OBVIOUS
  <2> HIDE DEF U
  <2>4. QED
    BY <2>1, <2>2, <2>3, SetInduction
<1>3. ASSUME NEW i \in 1..n PROVE f[i] = i
  <2>1. i <= f[i]
    BY <1>1
  <2>2. n - i \in U /\ n - i < n /\ n - (n - i) = i
    <3>1. n - i \in Nat /\ n - i < n /\ n - (n - i) = i
      OBVIOUS
    <3> HIDE DEF U
    <3>2. QED
      BY <1>2, <3>1
  <2>3. f[i] <= i
    BY <2>2
  <2>4. f[i] \in Nat
    OBVIOUS
  <2>5. QED
    BY <2>1, <2>3, <2>4
<1>4. QED
  BY <1>3

\* Orders with their positions for sequence numbers are a batch as they are.
LEMMA BatchAsIs ==
  ASSUME NEW v \in Seq(SyntheticOrder), \A i \in 1..Len(v) : v[i].seq = i - 1,
         NEW s \in AsBatch(v)
  PROVE  s = v
<1>1. /\ s \in Injection(1..Cardinality(Range(v)), Range(v))
      /\ \A m, n \in DOMAIN s :
           m < n => ~(\/ s[n].seq < s[m].seq
                      \/ (s[n].seq = s[m].seq /\ s[n].id < s[m].id))
  <2>1. /\ s \in Injection(1..Cardinality(Range(v)), Range(v))
        /\ \A i, j \in DOMAIN s :
             i < j => <<s[j], s[i]>> \notin
                        {p \in Range(v) \X Range(v) :
                           \/ p[1].seq < p[2].seq
                           \/ (p[1].seq = p[2].seq /\ p[1].id < p[2].id)}
    BY DEF AsBatch, StdSorts
  <2>2. \A i \in DOMAIN s : s[i] \in Range(v)
    BY <2>1 DEF Injection
  <2>3. ASSUME NEW i \in DOMAIN s, NEW j \in DOMAIN s, i < j
        PROVE  ~(\/ s[j].seq < s[i].seq
                \/ (s[j].seq = s[i].seq /\ s[j].id < s[i].id))
    <3>1. <<s[j], s[i]>> \in Range(v) \X Range(v)
      BY <2>2, <2>3
    <3>2. QED
      BY <2>1, <2>3, <3>1
  <2>4. QED
    BY <2>1, <2>3
<1>2. PICK z \in Nat : z = Len(v)
  OBVIOUS
<1>3. Len(v) \in Nat /\ v = [i \in 1..Len(v) |-> v[i]]
  OBVIOUS
<1>4. \A i, j \in 1..Len(v) : i # j => v[i] # v[j]
  <2>1. \A i \in 1..z : v[i].seq = i - 1
    BY <1>2
  <2>2. \A i, j \in 1..z : i # j => v[i].seq # v[j].seq
    BY <2>1
  <2>3. QED
    BY <1>2, <2>2
<1>5. /\ Len(s) = Len(v) /\ s = [i \in 1..Len(v) |-> s[i]]
      /\ \A i \in 1..Len(v) : \E j \in 1..Len(v) : s[i] = v[j]
      /\ \A i, j \in 1..Len(v) : i # j => s[i] # s[j]
  BY <1>1, <1>3, <1>4, InjectionsList
<1>6. PICK f : f = [i \in 1..z |-> s[i].seq + 1]
  OBVIOUS
<1>7. ASSUME NEW i \in 1..z
      PROVE  f[i] \in 1..z /\ s[i] = v[f[i]] /\ s[i].seq = f[i] - 1 /\ f[i] \in Nat
  <2>1. PICK j \in 1..z : s[i] = v[j]
    BY <1>2, <1>5
  <2>2. s[i].seq = j - 1
    BY <1>2, <2>1
  <2>3. f[i] = j
    BY <1>6, <2>2
  <2>4. QED
    BY <2>1, <2>2, <2>3
<1>8. ASSUME NEW i \in 1..z, NEW j \in 1..z, i < j
      PROVE  f[i] < f[j]
  <2>1. DOMAIN s = 1..z
    BY <1>2, <1>5
  <2>2. ~(s[j].seq < s[i].seq)
    BY <1>1, <1>8, <2>1
  <2>3. s[i] # s[j]
    BY <1>2, <1>5, <1>8
  <2>4. f[i] # f[j]
    BY <1>7, <2>3
  <2>5. PICK x, y : x = f[i] /\ y = f[j]
    OBVIOUS
  <2>6. /\ x \in Nat /\ y \in Nat /\ x # y
        /\ s[i].seq = x - 1 /\ s[j].seq = y - 1
    BY <1>7, <2>4, <2>5
  <2>7. x < y
    BY <2>2, <2>6
  <2>8. QED
    BY <2>5, <2>7
<1>9. \A i \in 1..z : f[i] = i
  <2>1. \A i \in 1..z : f[i] \in 1..z
    BY <1>7
  <2>2. \A i, j \in 1..z : i < j => f[i] < f[j]
    BY <1>8
  <2>3. z \in Nat
    OBVIOUS
  <2>4. QED
    BY <2>1, <2>2, <2>3, RisingIsIdentity, Zenon
<1>10. \A i \in 1..z : s[i] = v[i]
  BY <1>7, <1>9
<1>11. QED
  BY <1>2, <1>3, <1>5, <1>10

----------------------------------------------------------------------------
(***************************************************************************)
(* The simulator: what every order it makes is like.                       *)
(***************************************************************************)
FitsWord(c) == \A ticks \in Reach(c) : c.mid + ticks <= MaxRaw

\* The orders a session of this configuration may hold.
Synthetic(c, accounts) ==
  {o \in SyntheticOrder :
     /\ o.account \in accounts
     /\ QuantitiesPositive(c) => o.qty > 0
     /\ PricesPositive(c) => o.price > 0
     /\ FitsWord(c) => \E ticks \in Reach(c) : Within(o.price, c.mid, ticks)}

\* A population's orders, numbered.
LEMMA NumberedIs ==
  ASSUME NEW c, NEW accounts, NEW v \in Seq(Synthetic(c, accounts)),
         \A i, j \in 1..Len(v) : i # j => v[i].id # v[j].id,
         NEW w \in Numbered(v)
  PROVE  /\ w \in Seq(Synthetic(c, accounts)) /\ Len(w) = Len(v)
         /\ \A i \in 1..Len(w) : w[i].seq = i - 1
         /\ \A i \in 1..Len(w) : \E j \in 1..Len(v) : w[i].id = v[j].id
         /\ \A i, j \in 1..Len(w) : i # j => w[i].id # w[j].id
<1>1. PICK s : /\ s \in Injection(1..Cardinality(Range(v)), Range(v))
               /\ w = [i \in 1..Len(v) |-> [s[i] EXCEPT !.seq = i - 1]]
  BY DEF Numbered, StdSorts
<1>2. PICK z \in Nat : z = Len(v)
  OBVIOUS
<1>3. Len(v) \in Nat /\ v = [i \in 1..Len(v) |-> v[i]]
  OBVIOUS
<1>4. \A i, j \in 1..Len(v) : i # j => v[i] # v[j]
  OBVIOUS
<1>5. /\ Len(s) = Len(v) /\ s = [i \in 1..Len(v) |-> s[i]]
      /\ \A i \in 1..Len(v) : \E j \in 1..Len(v) : s[i] = v[j]
      /\ \A i, j \in 1..Len(v) : i # j => s[i] # s[j]
  BY <1>1, <1>3, <1>4, InjectionsList
<1>6. ASSUME NEW i \in 1..z
      PROVE  /\ w[i] = [s[i] EXCEPT !.seq = i - 1] /\ s[i] \in Synthetic(c, accounts)
             /\ w[i] \in Synthetic(c, accounts) /\ w[i].seq = i - 1
             /\ w[i].id = s[i].id
  <2>1. w[i] = [s[i] EXCEPT !.seq = i - 1]
    BY <1>1, <1>2
  <2>2. PICK j \in 1..z : s[i] = v[j]
    BY <1>2, <1>5
  <2>3. s[i] \in Synthetic(c, accounts)
    BY <1>2, <2>2
  <2>4. s[i] \in SyntheticOrder /\ i - 1 \in Nat
    BY <2>3 DEF Synthetic
  <2>5. /\ w[i] \in SyntheticOrder /\ w[i].seq = i - 1
        /\ w[i].id = s[i].id /\ w[i].account = s[i].account
        /\ w[i].price = s[i].price /\ w[i].qty = s[i].qty
    BY <2>1, <2>4 DEF SyntheticOrder
  <2>6. w[i] \in Synthetic(c, accounts)
    BY <2>3, <2>5 DEF Synthetic
  <2>7. QED
    BY <2>1, <2>3, <2>5, <2>6
<1>7. w \in Seq(Synthetic(c, accounts)) /\ Len(w) = z
  <2>1. w = [i \in 1..z |-> w[i]]
    BY <1>1, <1>2
  <2>2. \A i \in 1..z : w[i] \in Synthetic(c, accounts)
    BY <1>6
  <2>3. QED
    BY <2>1, <2>2
<1>8. ASSUME NEW i \in 1..z PROVE \E j \in 1..z : w[i].id = v[j].id
  <2>1. PICK j \in 1..z : s[i] = v[j]
    BY <1>2, <1>5
  <2>2. w[i].id = v[j].id
    BY <1>6, <2>1
  <2>3. QED
    BY <2>2
<1>9. ASSUME NEW i \in 1..z, NEW j \in 1..z, i # j
      PROVE  w[i].id # w[j].id
  <2>1. PICK k \in 1..z, l \in 1..z : s[i] = v[k] /\ s[j] = v[l]
    BY <1>2, <1>5
  <2>2. s[i] # s[j]
    BY <1>2, <1>5, <1>9
  <2>3. k # l
    BY <2>1, <2>2
  <2>4. v[k].id # v[l].id
    BY <1>2, <2>3
  <2>5. QED
    BY <1>6, <2>1, <2>4
<1>10. QED
  BY <1>2, <1>6, <1>7, <1>8, <1>9

FlowRecord ==
  [kind : {"flow"}, num_accounts : Nat, num_batches : Nat,
   min_orders : Nat, max_orders : Nat, mid : Price, spread : Qty,
   min_qty : Qty, max_qty : Qty, buy_permille : Nat]

MakerRecord == [account : Nat, half_spread : Qty, qty : Qty]

TraderRecord ==
  [account : Nat, buy_permille : Nat, max_aggression : Qty, min_qty : Qty,
   max_qty : Qty]

PopulationRecord ==
  [kind : {"population"}, mid : Price, num_batches : Nat, taker_orders : Nat,
   makers : Seq(MakerRecord), traders : Seq(TraderRecord)]

ConfigOK ==
  \/ /\ config = NoConfig
     /\ order_count = NoBatch /\ generated = << >>
  \/ config \in FlowRecord /\ genesis = FlowAccounts(config)
  \/ /\ config \in PopulationRecord /\ genesis = PopulationAccounts(config)
     /\ order_count # NoBatch =>
          /\ Len(batch_orders) >= 2 * Len(config.makers)
          /\ config.traders = << >> => order_count = 2 * Len(config.makers)

LEMMA KindIs ==
  ASSUME ConfigOK
  PROVE  /\ config # NoConfig => config.kind \in {"flow", "population"}
         /\ config.kind = "flow" =>
              /\ config \in FlowRecord /\ genesis = FlowAccounts(config)
              /\ config # NoConfig
         /\ config.kind = "population" =>
              /\ config \in PopulationRecord /\ genesis = PopulationAccounts(config)
              /\ config # NoConfig
              /\ order_count # NoBatch =>
                   /\ Len(batch_orders) >= 2 * Len(config.makers)
                   /\ config.traders = << >> => order_count = 2 * Len(config.makers)
<1>1. NoConfig.kind = "none"
  BY DEF NoConfig
<1>2. config \in FlowRecord => config.kind = "flow"
  BY DEF FlowRecord
<1>3. config \in PopulationRecord => config.kind = "population"
  BY DEF PopulationRecord
<1>4. QED
  BY <1>1, <1>2, <1>3 DEF ConfigOK

BatchIs ==
  /\ batch_orders \in Seq(Synthetic(config, genesis))
  /\ \A i \in 1..Len(batch_orders) :
       /\ batch_orders[i].id + Len(batch_orders) = next_order_id + (i - 1)
       /\ config.kind = "flow" => batch_orders[i].seq = i - 1

SessionIs ==
  /\ generated \in Seq(Generated)
  /\ \A b \in 1..Len(generated) :
       /\ Provable(generated[b]) /\ generated[b].id = b
       /\ generated[b].orders \in Seq(Synthetic(config, genesis))
  /\ SessionOrders \in Seq(Synthetic(config, genesis))
  /\ \A i \in 1..Len(SessionOrders) :
       SessionOrders[i].id + Len(batch_orders) < next_order_id
  /\ \A i, j \in 1..Len(SessionOrders) :
       i # j => SessionOrders[i].id # SessionOrders[j].id

SimulatorIInv ==
  /\ ConfigOK
  /\ next_order_id \in Nat /\ order_count \in Nat \union {NoBatch}
  /\ order_count = NoBatch => batch_orders = << >>
  /\ BatchIs
  /\ SessionIs

LEMMA SessionOrdersAre == SessionOrders = Joined(generated)
  BY DEF SessionOrders, Joined

LEMMA Empty ==
  batch_orders = << >> /\ generated = << >> => BatchIs /\ SessionIs
<1>0. SUFFICES ASSUME batch_orders = << >>, generated = << >>
               PROVE  BatchIs /\ SessionIs
  OBVIOUS
<1>1. SessionOrders = << >>
  <2>1. PICK g : g = generated
    OBVIOUS
  <2>2. QED
    BY <1>0, <2>1, SessionOrdersAre, NothingJoined
<1>2. PICK S : S = Synthetic(config, genesis)
  OBVIOUS
<1>3. << >> \in Seq(S) /\ Len(<< >>) = 0 /\ << >> \in Seq(Generated)
  OBVIOUS
<1>4. QED
  BY <1>0, <1>1, <1>2, <1>3 DEF BatchIs, SessionIs

\* Nothing the properties look at has changed.
LEMMA SessionSame ==
  ASSUME SessionIs, config' = config, genesis' = genesis, generated' = generated,
         next_order_id' - Len(batch_orders') >= next_order_id - Len(batch_orders),
         next_order_id \in Nat, Len(batch_orders) \in Nat,
         next_order_id' \in Nat, Len(batch_orders') \in Nat
  PROVE  SessionIs'
<1>1. SessionOrders' = SessionOrders
  BY DEF SessionOrders
<1>2. PICK S, n, m, j : /\ S = Synthetic(config, genesis)
                        /\ n = next_order_id' /\ m = Len(batch_orders')
                        /\ j = SessionOrders
  OBVIOUS
<1>3. Synthetic(config, genesis)' = S
  BY <1>2 DEF Synthetic, FitsWord
<1>4. ASSUME NEW i \in 1..Len(j) PROVE j[i].id + m < n
  <2>1. j \in Seq(S) /\ j[i].id + Len(batch_orders) < next_order_id
    BY <1>2 DEF SessionIs
  <2>2. j[i] \in S
    BY <2>1
  <2>3. j[i].id \in Nat
    BY <1>2, <2>2 DEF Synthetic, SyntheticOrder
  <2>4. PICK d : d = j[i].id
    OBVIOUS
  <2>5. QED
    BY <1>2, <2>1, <2>3, <2>4
<1>5. QED
  BY <1>1, <1>2, <1>3, <1>4 DEF SessionIs

LEMMA SimulatorInitially ==
  ASSUME SimulatorInit
  PROVE  SimulatorIInv
<1>1. BatchIs /\ SessionIs
  BY Empty DEF SimulatorInit
<1>2. QED
  BY <1>1 DEF SimulatorInit, SimulatorIInv, ConfigOK

LEMMA StartKeeps ==
  ASSUME StartSession
  PROVE  SimulatorIInv'
<1>1. BatchIs' /\ SessionIs'
  <2>1. (batch_orders = << >> /\ generated = << >> => BatchIs /\ SessionIs)'
    BY Empty, PTL
  <2>2. QED
    BY <2>1 DEF StartSession
<1>2. ConfigOK'
  <2>1. config' \in FlowRecord \/ config' \in PopulationRecord
    BY FlowConfigsOK, PopulationConfigsOK
       DEF StartSession, FlowRecord, PopulationRecord, MakerRecord, TraderRecord
  <2>2. CASE config' \in FlowRecord
    <3>1. config'.kind = "flow"
      BY <2>2 DEF FlowRecord
    <3>2. QED
      BY <2>2, <3>1 DEF StartSession, ConfigOK, FlowAccounts
  <2>3. CASE config' \in PopulationRecord
    <3>1. config'.kind # "flow"
      BY <2>3 DEF PopulationRecord
    <3>2. genesis' = PopulationAccounts(config')
      BY <3>1 DEF StartSession
    <3>3. QED
      BY <2>3, <3>2 DEF StartSession, ConfigOK, PopulationAccounts
  <2>4. QED
    BY <2>1, <2>2, <2>3
<1>3. QED
  BY <1>1, <1>2 DEF StartSession, SimulatorIInv

LEMMA OpenFlowKeeps ==
  ASSUME SimulatorIInv, OpenFlowBatch
  PROVE  SimulatorIInv'
<1>1. /\ config # NoConfig /\ config.kind = "flow"
      /\ order_count' \in GenRange(config.min_orders, config.max_orders)
      /\ UNCHANGED <<config, genesis, next_order_id, batch_orders, generated>>
  BY DEF OpenFlowBatch, BatchDue
<1>2. config \in FlowRecord /\ genesis = FlowAccounts(config)
  BY <1>1 DEF SimulatorIInv, ConfigOK, PopulationRecord
<1>3. order_count' \in Nat
  <2>1. config.min_orders \in Nat /\ config.max_orders \in Nat
    BY <1>2 DEF FlowRecord
  <2>2. PICK l, h, x : l = config.min_orders /\ h = config.max_orders /\ x = order_count'
    OBVIOUS
  <2>3. l \in Nat /\ l \in Int /\ h \in Int /\ x \in GenRange(l, h)
    BY <1>1, <2>1, <2>2
  <2>4. x \in Int /\ x >= l
    BY <2>3, GenRangeIs
  <2>5. QED
    BY <2>2, <2>3, <2>4
<1>4. ConfigOK'
  BY <1>1, <1>2 DEF ConfigOK, FlowAccounts
<1>5. BatchIs'
  BY <1>1 DEF SimulatorIInv, BatchIs, Synthetic, FitsWord
<1>6. SessionIs'
  <2>1. Len(batch_orders) \in Nat /\ next_order_id \in Nat
    BY DEF SimulatorIInv, BatchIs
  <2>2. next_order_id' = next_order_id /\ Len(batch_orders') = Len(batch_orders)
    BY <1>1
  <2>3. next_order_id' - Len(batch_orders') >= next_order_id - Len(batch_orders)
    BY <2>1, <2>2
  <2>4. SessionIs
    BY DEF SimulatorIInv
  <2>5. QED
    BY <1>1, <2>1, <2>2, <2>3, <2>4, SessionSame
<1>7. next_order_id' \in Nat /\ order_count' # NoBatch
  BY <1>1, <1>3 DEF SimulatorIInv, NoBatch
<1>8. QED
  BY <1>3, <1>4, <1>5, <1>6, <1>7 DEF SimulatorIInv

\* One more order in the batch under way.
LEMMA OrderKeeps ==
  ASSUME SimulatorIInv, order_count > Len(batch_orders), config # NoConfig,
         NEW o \in Synthetic(config, genesis), o.id = next_order_id,
         config.kind = "flow" => o.seq = Len(batch_orders),
         batch_orders' = Append(batch_orders, o),
         next_order_id' = next_order_id + 1,
         UNCHANGED <<config, genesis, order_count, generated>>
  PROVE  SimulatorIInv'
<1>1. PICK S, z, n : /\ S = Synthetic(config, genesis) /\ z = Len(batch_orders)
                     /\ n = next_order_id
  OBVIOUS
<1>2. z \in Nat /\ n \in Nat /\ batch_orders \in Seq(S)
  BY <1>1 DEF SimulatorIInv, BatchIs
<1>3. Synthetic(config, genesis)' = S
  BY <1>1 DEF Synthetic, FitsWord
<1>4. /\ batch_orders' \in Seq(S) /\ Len(batch_orders') = z + 1
      /\ batch_orders'[z + 1] = o
      /\ \A i \in 1..z : batch_orders'[i] = batch_orders[i]
  BY <1>1, <1>2
<1>5. ASSUME NEW i \in 1..(z + 1)
      PROVE  /\ batch_orders'[i].id + (z + 1) = (n + 1) + (i - 1)
             /\ config.kind = "flow" => batch_orders'[i].seq = i - 1
  <2>1. CASE i = z + 1
    BY <1>1, <1>2, <1>4, <2>1
  <2>2. CASE i # z + 1
    <3>1. i \in 1..z
      BY <1>2, <2>2
    <3>2. batch_orders[i].id + z = n + (i - 1)
          /\ (config.kind = "flow" => batch_orders[i].seq = i - 1)
      BY <1>1, <3>1 DEF SimulatorIInv, BatchIs
    <3>3. batch_orders[i] \in S
      BY <1>1, <1>2, <3>1
    <3>4. batch_orders[i].id \in Nat
      BY <1>1, <3>3 DEF Synthetic, SyntheticOrder
    <3>5. PICK d : d = batch_orders[i].id
      OBVIOUS
    <3>6. d \in Nat /\ d + z = n + (i - 1)
      BY <3>2, <3>4, <3>5
    <3>7. d + (z + 1) = (n + 1) + (i - 1)
      BY <1>2, <3>1, <3>6
    <3>8. QED
      BY <1>4, <3>1, <3>2, <3>5, <3>7
  <2>3. QED
    BY <2>1, <2>2
<1>6. BatchIs'
  BY <1>1, <1>3, <1>4, <1>5 DEF BatchIs
<1>7. SessionIs'
  <2>1. SessionIs
    BY DEF SimulatorIInv
  <2>2. next_order_id' - Len(batch_orders') >= next_order_id - Len(batch_orders)
        /\ next_order_id' \in Nat /\ Len(batch_orders') \in Nat
        /\ next_order_id \in Nat /\ Len(batch_orders) \in Nat
    BY <1>1, <1>2, <1>4
  <2>3. QED
    BY <2>1, <2>2, SessionSame
<1>8. order_count \in Nat /\ order_count # NoBatch
  BY <1>1, <1>2 DEF SimulatorIInv, NoBatch
<1>9. ConfigOK'
  <2>1. CASE config \in FlowRecord /\ genesis = FlowAccounts(config)
    BY <2>1 DEF ConfigOK, FlowAccounts
  <2>2. CASE /\ config \in PopulationRecord /\ genesis = PopulationAccounts(config)
             /\ order_count # NoBatch =>
                  /\ Len(batch_orders) >= 2 * Len(config.makers)
                  /\ config.traders = << >> => order_count = 2 * Len(config.makers)
    <3>1. Len(config.makers) \in Nat
      BY <2>2 DEF PopulationRecord
    <3>2. PICK m : m = Len(config.makers)
      OBVIOUS
    <3>3. z + 1 >= 2 * m
      BY <1>1, <1>2, <1>8, <2>2, <3>1, <3>2
    <3>4. genesis' = PopulationAccounts(config)' /\ config' \in PopulationRecord
      BY <2>2 DEF PopulationAccounts
    <3>5. QED
      BY <1>4, <1>8, <2>2, <3>2, <3>3, <3>4 DEF ConfigOK
  <2>3. QED
    BY <2>1, <2>2 DEF SimulatorIInv, ConfigOK
<1>10. QED
  BY <1>1, <1>2, <1>6, <1>7, <1>8, <1>9 DEF SimulatorIInv

LEMMA FlowGenesis ==
  ASSUME NEW c, c \in FlowRecord, NEW account \in GenRange(1, Cardinality(FlowAccounts(c)))
  PROVE  account \in FlowAccounts(c) /\ account \in Nat
<1>1. PICK n : n = IF c.num_accounts < 2 THEN 2 ELSE c.num_accounts
  OBVIOUS
<1>2. n \in Nat /\ n >= 2
  BY <1>1 DEF FlowRecord
<1>3. FlowAccounts(c) = 1..n
  BY <1>1 DEF FlowAccounts
<1>4. Cardinality(1..n) = n
  BY <1>2, NumbersUpTo
<1>5. account \in GenRange(1, n) /\ 1 \in Int /\ n \in Int
  BY <1>2, <1>3, <1>4
<1>6. account \in Int /\ account >= 1 /\ account <= n
  BY <1>2, <1>5, GenRangeIs
<1>7. QED
  BY <1>2, <1>3, <1>6

LEMMA DrawOrderKeeps ==
  ASSUME SimulatorIInv, DrawOrder
  PROVE  SimulatorIInv'
<1>1. PICK account \in GenRange(1, Cardinality(genesis)),
           side \in DrawnSides(config.buy_permille),
           delta \in GenRange(0, config.spread),
           qty \in GenRange(config.min_qty, config.max_qty) :
        batch_orders' = Append(batch_orders,
          [id |-> next_order_id, account |-> account, side |-> side,
           price |-> FlowPrice(config.mid, delta, side), qty |-> qty,
           seq |-> Len(batch_orders)])
  BY DEF DrawOrder
<1>2. /\ order_count > Len(batch_orders) /\ config.kind = "flow"
      /\ next_order_id' = next_order_id + 1
      /\ UNCHANGED <<config, genesis, order_count, generated>>
  BY DEF DrawOrder
<1>3. next_order_id \in Nat /\ Len(batch_orders) \in Nat /\ order_count # NoBatch
  BY <1>2 DEF SimulatorIInv, BatchIs, NoBatch
<1>4. config \in FlowRecord /\ genesis = FlowAccounts(config) /\ config # NoConfig
  BY <1>2, <1>3, KindIs DEF SimulatorIInv
<1>5. PICK c : c = config
  OBVIOUS
<1>6. /\ c.kind = "flow" /\ c.mid \in Price /\ c.spread \in Nat /\ c.min_qty \in Nat
      /\ c.max_qty \in Nat
  BY <1>4, <1>5 DEF FlowRecord, Qty
<1>7. account \in genesis /\ account \in Nat
  <2>1. account \in GenRange(1, Cardinality(FlowAccounts(c))) /\ c \in FlowRecord
    BY <1>4, <1>5
  <2>2. account \in FlowAccounts(c) /\ account \in Nat
    BY <2>1, FlowGenesis
  <2>3. QED
    BY <1>4, <1>5, <2>2
<1>8. delta \in Nat /\ delta <= c.spread
  <2>1. PICK s : s = c.spread
    OBVIOUS
  <2>2. 0 \in Int /\ s \in Int /\ delta \in GenRange(0, s)
    BY <1>5, <1>6, <2>1
  <2>3. delta \in Int /\ delta >= 0 /\ (0 <= s => delta <= s)
    BY <2>2, GenRangeIs
  <2>4. QED
    BY <1>6, <2>1, <2>3
<1>9. qty \in Nat /\ qty >= c.min_qty
  <2>1. PICK l, h : l = c.min_qty /\ h = c.max_qty
    OBVIOUS
  <2>2. l \in Int /\ h \in Int /\ qty \in GenRange(l, h)
    BY <1>5, <1>6, <2>1
  <2>3. qty \in Int /\ qty >= l
    BY <2>2, GenRangeIs
  <2>4. QED
    BY <1>6, <2>1, <2>3
<1>10. PICK p : p = FlowPrice(c.mid, delta, side)
  OBVIOUS
<1>11. p \in Nat /\ p >= 1 /\ (c.mid + c.spread <= MaxRaw => Within(p, c.mid, c.spread))
  <2>1. PICK m, s : m = c.mid /\ s = c.spread
    OBVIOUS
  <2>2. m \in Price /\ s \in Nat /\ delta \in Nat /\ delta <= s
    BY <1>6, <1>8, <2>1
  <2>3. QED
    BY <1>10, <2>1, <2>2, FlowPriceIs
<1>12. PICK o : o = [id |-> next_order_id, account |-> account, side |-> side,
                     price |-> p, qty |-> qty, seq |-> Len(batch_orders)]
  OBVIOUS
<1>13. o \in SyntheticOrder
  <2>1. side \in Sides
    BY DEF DrawnSides
  <2>2. QED
    BY <1>3, <1>7, <1>9, <1>11, <1>12, <2>1 DEF SyntheticOrder
<1>14. o \in Synthetic(config, genesis)
  <2>1. o.account \in genesis
    BY <1>7, <1>12
  <2>2. QuantitiesPositive(c) => o.qty > 0
    BY <1>6, <1>9, <1>12 DEF QuantitiesPositive
  <2>3. FitsWord(c) => \E ticks \in Reach(c) : Within(o.price, c.mid, ticks)
    <3>1. Reach(c) = {c.spread}
      BY <1>6 DEF Reach
    <3>2. QED
      BY <1>11, <1>12, <3>1 DEF FitsWord
  <2>4. o.price > 0
    BY <1>11, <1>12
  <2>5. QED
    BY <1>5, <1>13, <2>1, <2>2, <2>3, <2>4 DEF Synthetic
<1>15. batch_orders' = Append(batch_orders, o) /\ o.id = next_order_id
       /\ o.seq = Len(batch_orders)
  BY <1>1, <1>5, <1>10, <1>12
<1>16. QED
  BY <1>2, <1>4, <1>14, <1>15, OrderKeeps

----------------------------------------------------------------------------
LEMMA PopulationIs ==
  ASSUME NEW c \in PopulationRecord
  PROVE  /\ c.kind = "population" /\ c.mid \in Price
         /\ Len(c.makers) \in Nat /\ Len(c.traders) \in Nat
         /\ \A n \in 1..Len(c.makers) :
              /\ c.makers[n].account \in Nat /\ c.makers[n].half_spread \in Nat
              /\ c.makers[n].qty \in Nat
              /\ c.makers[n].account \in PopulationAccounts(c)
              /\ c.makers[n].half_spread \in Reach(c)
         /\ \A n \in 1..Len(c.traders) :
              /\ c.traders[n].account \in Nat /\ c.traders[n].max_aggression \in Nat
              /\ c.traders[n].min_qty \in Nat /\ c.traders[n].max_qty \in Nat
              /\ c.traders[n].account \in PopulationAccounts(c)
              /\ c.traders[n].max_aggression \in Reach(c)
<1>1. /\ c.kind = "population" /\ c.mid \in Price
      /\ c.makers \in Seq(MakerRecord) /\ c.traders \in Seq(TraderRecord)
  BY DEF PopulationRecord
<1>2. Len(c.makers) \in Nat /\ Len(c.traders) \in Nat
  BY <1>1
<1>3. ASSUME NEW n \in 1..Len(c.makers)
      PROVE  /\ c.makers[n].account \in Nat /\ c.makers[n].half_spread \in Nat
             /\ c.makers[n].qty \in Nat
             /\ c.makers[n].account \in PopulationAccounts(c)
             /\ c.makers[n].half_spread \in Reach(c)
  <2>1. c.makers[n] \in MakerRecord
    BY <1>1
  <2>2. c.kind # "flow"
    BY <1>1
  <2>3. QED
    BY <2>1, <2>2 DEF MakerRecord, Qty, PopulationAccounts, Reach
<1>4. ASSUME NEW n \in 1..Len(c.traders)
      PROVE  /\ c.traders[n].account \in Nat /\ c.traders[n].max_aggression \in Nat
             /\ c.traders[n].min_qty \in Nat /\ c.traders[n].max_qty \in Nat
             /\ c.traders[n].account \in PopulationAccounts(c)
             /\ c.traders[n].max_aggression \in Reach(c)
  <2>1. c.traders[n] \in TraderRecord
    BY <1>1
  <2>2. c.kind # "flow"
    BY <1>1
  <2>3. QED
    BY <2>1, <2>2 DEF TraderRecord, Qty, PopulationAccounts, Reach
<1>5. QED
  BY <1>1, <1>2, <1>3, <1>4

LEMMA QuoteIs ==
  ASSUME NEW c \in PopulationRecord, NEW n \in 1..Len(c.makers), NEW which \in 1..2,
         NEW id \in Nat
  PROVE  /\ QuoteAt(c, n, which, id) \in Synthetic(c, PopulationAccounts(c))
         /\ QuoteAt(c, n, which, id).id = id + 2 * (n - 1) + (which - 1)
<1>1. PICK m, h, d : m = c.mid /\ h = c.makers[n].half_spread /\ d = id + 2 * (n - 1)
  OBVIOUS
<1>2. /\ m \in Price /\ h \in Nat /\ d \in Nat
      /\ h \in Reach(c) /\ c.kind = "population"
      /\ c.makers[n].account \in Nat /\ c.makers[n].qty \in Nat
      /\ c.makers[n].account \in PopulationAccounts(c) /\ Len(c.makers) \in Nat
  BY <1>1, PopulationIs
<1>3. /\ Beneath(m, h) \in Nat /\ Within(Beneath(m, h), m, h)
      /\ Unsigned(m + h) \in Nat
      /\ m + h <= MaxRaw => Within(Unsigned(m + h), m, h)
  BY <1>2, SidesWithin
<1>4. PICK q : q = QuoteAt(c, n, which, id)
  OBVIOUS
<1>5. PICK p : p = IF which = 1 THEN Beneath(m, h) ELSE Unsigned(m + h)
  OBVIOUS
<1>6. /\ q.id = d + (which - 1) /\ q.account = c.makers[n].account
      /\ q.price = p /\ q.qty = c.makers[n].qty
      /\ q \in SyntheticOrder
  <2>1. CASE which = 1
    <3>1. q = [id |-> d, account |-> c.makers[n].account, side |-> "Buy",
               price |-> Beneath(m, h), qty |-> c.makers[n].qty, seq |-> 0]
      BY <1>1, <1>4, <2>1 DEF QuoteAt, Quotes
    <3>2. QED
      BY <1>2, <1>3, <1>5, <2>1, <3>1 DEF SyntheticOrder, Sides
  <2>2. CASE which = 2
    <3>1. q = [id |-> d + 1, account |-> c.makers[n].account, side |-> "Sell",
               price |-> Unsigned(m + h), qty |-> c.makers[n].qty, seq |-> 1]
      BY <1>1, <1>4, <2>2 DEF QuoteAt, Quotes
    <3>2. QED
      BY <1>2, <1>3, <1>5, <2>2, <3>1 DEF SyntheticOrder, Sides
  <2>3. QED
    BY <2>1, <2>2
<1>7. QuantitiesPositive(c) => q.qty > 0
  BY <1>2, <1>6 DEF QuantitiesPositive
<1>8. FitsWord(c) => \E ticks \in Reach(c) : Within(q.price, c.mid, ticks)
  <2>1. FitsWord(c) => Within(p, m, h)
    BY <1>1, <1>2, <1>3, <1>5 DEF FitsWord
  <2>2. QED
    BY <1>1, <1>2, <1>6, <2>1
<1>9. PricesPositive(c) => q.price > 0
  <2>1. PricesPositive(c) => Unsigned(m + h) > 0
    BY <1>1, <1>2 DEF PricesPositive
  <2>2. Beneath(m, h) > 0
    BY <1>3 DEF Within
  <2>3. QED
    BY <1>5, <1>6, <2>1, <2>2
<1>10. q \in Synthetic(c, PopulationAccounts(c))
  BY <1>2, <1>6, <1>7, <1>8, <1>9 DEF Synthetic
<1>11. QED
  BY <1>1, <1>4, <1>6, <1>10

LEMMA OpenPopulationKeeps ==
  ASSUME SimulatorIInv, OpenPopulationBatch
  PROVE  SimulatorIInv'
<1>1. /\ config # NoConfig /\ config.kind = "population" /\ order_count = NoBatch
      /\ batch_orders' =
           [i \in 1..(2 * Len(config.makers)) |->
              QuoteAt(config, (i + 1) \div 2, 2 - (i % 2), next_order_id)]
      /\ next_order_id' = next_order_id + 2 * Len(config.makers)
      /\ order_count' = 2 * Len(config.makers)
           + (IF config.traders = << >> THEN 0 ELSE config.taker_orders)
      /\ UNCHANGED <<config, genesis, generated>>
  BY DEF OpenPopulationBatch, BatchDue
<1>2. config \in PopulationRecord /\ genesis = PopulationAccounts(config)
  BY <1>1 DEF SimulatorIInv, ConfigOK, FlowRecord
<1>3. PICK c, n, m, S : /\ c = config /\ n = next_order_id /\ m = Len(config.makers)
                        /\ S = Synthetic(config, genesis)
  OBVIOUS
<1>4. c \in PopulationRecord /\ n \in Nat /\ m \in Nat /\ m = Len(c.makers)
      /\ c.taker_orders \in Nat /\ S = Synthetic(c, PopulationAccounts(c))
  <2>1. c \in PopulationRecord /\ n \in Nat
    BY <1>2, <1>3 DEF SimulatorIInv
  <2>2. Len(c.makers) \in Nat
    BY <2>1, PopulationIs
  <2>3. QED
    BY <1>2, <1>3, <2>1, <2>2 DEF PopulationRecord
<1>5. batch_orders' = [i \in 1..(2 * m) |-> QuoteAt(c, (i + 1) \div 2, 2 - (i % 2), n)]
      /\ 2 * m \in Nat
  BY <1>1, <1>3, <1>4
<1>6. ASSUME NEW i \in 1..(2 * m)
      PROVE  batch_orders'[i] \in S /\ batch_orders'[i].id = n + (i - 1)
  <2>1. PICK h, w : h = (i + 1) \div 2 /\ w = 2 - (i % 2)
    OBVIOUS
  <2>2. h \in 1..m /\ w \in 1..2 /\ 2 * (h - 1) + (w - 1) = i - 1
    BY <1>4, <2>1
  <2>3. /\ QuoteAt(c, h, w, n) \in Synthetic(c, PopulationAccounts(c))
        /\ QuoteAt(c, h, w, n).id = n + 2 * (h - 1) + (w - 1)
    BY <1>4, <2>2, QuoteIs
  <2>4. batch_orders'[i] = QuoteAt(c, h, w, n)
    BY <1>5, <2>1
  <2>5. n + 2 * (h - 1) + (w - 1) = n + (i - 1)
    BY <1>4, <2>2
  <2>6. QED
    BY <1>4, <2>3, <2>4, <2>5
<1>7. batch_orders' \in Seq(S) /\ Len(batch_orders') = 2 * m
  BY <1>5, <1>6
<1>8. Synthetic(config, genesis)' = S /\ config'.kind # "flow"
  BY <1>1, <1>3 DEF Synthetic, FitsWord
<1>9. BatchIs'
  <2>1. ASSUME NEW i \in 1..(2 * m)
        PROVE  batch_orders'[i].id + 2 * m = (n + 2 * m) + (i - 1)
    <3>1. batch_orders'[i].id = n + (i - 1)
      BY <1>6
    <3>2. PICK w : w = 2 * m
      OBVIOUS
    <3>3. w \in Nat /\ i \in 1..w /\ n \in Nat
      BY <1>4, <1>5, <3>2
    <3>4. (n + (i - 1)) + w = (n + w) + (i - 1)
      BY <3>3
    <3>5. QED
      BY <3>1, <3>2, <3>4
  <2>2. next_order_id' = n + 2 * m
    BY <1>1, <1>3
  <2>3. QED
    BY <1>7, <1>8, <2>1, <2>2 DEF BatchIs
<1>10. SessionIs'
  <2>1. SessionIs /\ Len(batch_orders) = 0
    BY <1>1 DEF SimulatorIInv
  <2>2. next_order_id' - Len(batch_orders') >= next_order_id - Len(batch_orders)
        /\ next_order_id' \in Nat /\ Len(batch_orders') \in Nat
        /\ next_order_id \in Nat /\ Len(batch_orders) \in Nat
    BY <1>1, <1>3, <1>4, <1>5, <1>7, <2>1
  <2>3. QED
    BY <1>1, <2>1, <2>2, SessionSame
<1>11. order_count' \in Nat /\ order_count' # NoBatch /\ next_order_id' \in Nat
       /\ (config.traders = << >> => order_count' = 2 * m)
  BY <1>1, <1>3, <1>4, <1>5 DEF NoBatch
<1>12. ConfigOK'
  <2>1. config' \in PopulationRecord /\ genesis' = PopulationAccounts(config)'
    BY <1>1, <1>2 DEF PopulationAccounts
  <2>2. Len(batch_orders') >= 2 * m
    BY <1>5, <1>7
  <2>3. QED
    BY <1>1, <1>3, <1>11, <2>1, <2>2 DEF ConfigOK
<1>13. QED
  BY <1>9, <1>10, <1>11, <1>12 DEF SimulatorIInv

LEMMA DrawTakerKeeps ==
  ASSUME SimulatorIInv, DrawTaker
  PROVE  SimulatorIInv'
<1>1. PICK n \in GenRange(0, Len(config.traders) - 1) :
        \E o \in NoiseOrders(config.traders[n + 1], config.mid, next_order_id) :
          batch_orders' = Append(batch_orders, o)
  BY DEF DrawTaker
<1>2. PICK o \in NoiseOrders(config.traders[n + 1], config.mid, next_order_id) :
        batch_orders' = Append(batch_orders, o)
  BY <1>1
<1>3. /\ order_count > Len(batch_orders) /\ config.kind = "population"
      /\ next_order_id' = next_order_id + 1
      /\ UNCHANGED <<config, genesis, order_count, generated>>
  BY DEF DrawTaker
<1>4. next_order_id \in Nat /\ Len(batch_orders) \in Nat /\ order_count # NoBatch
  BY <1>3 DEF SimulatorIInv, BatchIs, NoBatch
<1>5. /\ config \in PopulationRecord /\ genesis = PopulationAccounts(config)
      /\ config # NoConfig
      /\ Len(batch_orders) >= 2 * Len(config.makers)
      /\ config.traders = << >> => order_count = 2 * Len(config.makers)
  BY <1>3, <1>4, KindIs DEF SimulatorIInv
<1>6. PICK c, d, l : c = config /\ d = next_order_id /\ l = Len(config.traders)
  OBVIOUS
<1>7. c \in PopulationRecord /\ l = Len(c.traders) /\ l \in Nat /\ d \in Nat
  BY <1>4, <1>5, <1>6, PopulationIs
<1>8. l # 0
  <2>1. Len(config.makers) \in Nat
    BY <1>5 DEF PopulationRecord
  <2>2. config.traders # << >>
    BY <1>3, <1>4, <1>5, <2>1
  <2>3. config.traders \in Seq(TraderRecord)
    BY <1>5 DEF PopulationRecord
  <2>4. QED
    BY <1>6, <2>2, <2>3
<1>9. n + 1 \in 1..l
  <2>1. n \in GenRange(0, l - 1) /\ 0 \in Int /\ l - 1 \in Int /\ 0 <= l - 1
    BY <1>6, <1>7, <1>8
  <2>2. n \in Int /\ n >= 0 /\ n <= l - 1
    BY <2>1, GenRangeIs
  <2>3. QED
    BY <1>7, <2>2
<1>10. PICK t : t = c.traders[n + 1]
  OBVIOUS
<1>11. /\ c.kind = "population" /\ c.mid \in Price
       /\ t.account \in Nat /\ t.max_aggression \in Nat
       /\ t.min_qty \in Nat /\ t.max_qty \in Nat
       /\ t.account \in PopulationAccounts(c) /\ t.max_aggression \in Reach(c)
  BY <1>7, <1>9, <1>10, PopulationIs
<1>12. PICK side \in DrawnSides(t.buy_permille), ticks \in GenRange(0, t.max_aggression),
            qty \in GenRange(t.min_qty, t.max_qty) :
         o = [id |-> d, account |-> t.account, side |-> side,
              price |-> IF side = "Buy" THEN Unsigned(c.mid + ticks)
                        ELSE Beneath(c.mid, ticks),
              qty |-> qty, seq |-> 0]
  BY <1>2, <1>6, <1>10 DEF NoiseOrders
<1>13. PICK m, a, lo, hi : m = c.mid /\ a = t.max_aggression /\ lo = t.min_qty
                           /\ hi = t.max_qty
  OBVIOUS
<1>14. ticks \in Nat /\ ticks <= a /\ a \in Nat /\ m \in Price
  <2>1. ticks \in GenRange(0, a) /\ 0 \in Int /\ a \in Int /\ a \in Nat
    BY <1>11, <1>13
  <2>2. ticks \in Int /\ ticks >= 0 /\ (0 <= a => ticks <= a)
    BY <2>1, GenRangeIs
  <2>3. QED
    BY <1>11, <1>13, <2>1, <2>2
<1>15. qty \in Nat /\ qty >= lo
  <2>1. qty \in GenRange(lo, hi) /\ lo \in Int /\ hi \in Int /\ lo \in Nat
    BY <1>11, <1>13
  <2>2. qty \in Int /\ qty >= lo
    BY <2>1, GenRangeIs
  <2>3. QED
    BY <2>1, <2>2
<1>16. PICK p : p = IF side = "Buy" THEN Unsigned(m + ticks) ELSE Beneath(m, ticks)
  OBVIOUS
<1>17. p \in Nat /\ (m + a <= MaxRaw => Within(p, m, a))
  BY <1>14, <1>16, SidesWithin
<1>18. o = [id |-> d, account |-> t.account, side |-> side, price |-> p,
            qty |-> qty, seq |-> 0]
  BY <1>12, <1>13, <1>16
<1>19. o \in SyntheticOrder
  <2>1. side \in Sides
    BY DEF DrawnSides
  <2>2. QED
    BY <1>7, <1>11, <1>15, <1>17, <1>18, <2>1 DEF SyntheticOrder
<1>20. o \in Synthetic(c, PopulationAccounts(c))
  <2>1. QuantitiesPositive(c) => o.qty > 0
    <3>1. QuantitiesPositive(c) => lo > 0
      BY <1>7, <1>9, <1>10, <1>11, <1>13 DEF QuantitiesPositive
    <3>2. lo \in Nat
      BY <1>11, <1>13
    <3>3. QED
      BY <1>15, <1>18, <3>1, <3>2
  <2>2. FitsWord(c) => \E x \in Reach(c) : Within(o.price, c.mid, x)
    BY <1>11, <1>13, <1>17, <1>18 DEF FitsWord
  <2>3. PricesPositive(c) => o.price > 0
    <3>1. PricesPositive(c) => m + a <= MaxRaw
      BY <1>7, <1>9, <1>10, <1>11, <1>13 DEF PricesPositive
    <3>2. PricesPositive(c) => p > 0
      BY <1>17, <3>1 DEF Within
    <3>3. QED
      BY <1>18, <3>2
  <2>4. QED
    BY <1>11, <1>18, <1>19, <2>1, <2>2, <2>3 DEF Synthetic
<1>21. o \in Synthetic(config, genesis) /\ o.id = next_order_id
  BY <1>5, <1>6, <1>18, <1>20
<1>22. QED
  BY <1>2, <1>3, <1>5, <1>21, OrderKeeps

----------------------------------------------------------------------------
\* The orders of the batch under way, as CloseBatch numbers them.
LEMMA NumberedBatch ==
  ASSUME SimulatorIInv, order_count = Len(batch_orders),
         NEW w \in IF config.kind = "flow" THEN {batch_orders} ELSE Numbered(batch_orders)
  PROVE  /\ w \in Seq(Synthetic(config, genesis))
         /\ \A i \in 1..Len(w) : w[i].seq = i - 1
         /\ \A i \in 1..Len(w) :
              w[i].id \in Nat /\ w[i].id < next_order_id
              /\ next_order_id <= w[i].id + Len(batch_orders)
         /\ \A i, j \in 1..Len(w) : i # j => w[i].id # w[j].id
<1>1. PICK c, a, v, n : c = config /\ a = genesis /\ v = batch_orders /\ n = next_order_id
  OBVIOUS
<1>2. PICK z \in Nat : z = Len(v)
  BY <1>1 DEF SimulatorIInv, BatchIs
<1>3. v \in Seq(Synthetic(c, a)) /\ n \in Nat
  BY <1>1 DEF SimulatorIInv, BatchIs
<1>4. ASSUME NEW i \in 1..z
      PROVE  /\ v[i].id \in Nat /\ v[i].id + z = n + (i - 1)
             /\ v[i].id < n /\ n <= v[i].id + z
  <2>1. v[i] \in Synthetic(c, a)
    BY <1>2, <1>3
  <2>2. v[i].id \in Nat
    BY <2>1 DEF Synthetic, SyntheticOrder
  <2>3. v[i].id + z = n + (i - 1)
    BY <1>1, <1>2 DEF SimulatorIInv, BatchIs
  <2>4. PICK d : d = v[i].id
    OBVIOUS
  <2>5. d \in Nat /\ d + z = n + (i - 1)
    BY <2>2, <2>3, <2>4
  <2>6. d < n /\ n <= d + z
    BY <1>3, <2>5
  <2>7. QED
    BY <2>2, <2>3, <2>4, <2>6
<1>5. ASSUME NEW i \in 1..z, NEW j \in 1..z, i # j PROVE v[i].id # v[j].id
  <2>1. v[i].id + z = n + (i - 1) /\ v[j].id + z = n + (j - 1)
    BY <1>4
  <2>2. n + (i - 1) # n + (j - 1)
    BY <1>3, <1>5
  <2>3. QED
    BY <2>1, <2>2
<1>6. CASE config.kind = "flow"
  <2>1. w = v
    BY <1>1, <1>6
  <2>2. \A i \in 1..z : v[i].seq = i - 1
    BY <1>1, <1>2, <1>6 DEF SimulatorIInv, BatchIs
  <2>3. QED
    BY <1>1, <1>2, <1>3, <1>4, <1>5, <2>1, <2>2
<1>7. CASE config.kind # "flow"
  <2>1. w \in Numbered(v)
    BY <1>1, <1>7
  <2>2. \A i, j \in 1..Len(v) : i # j => v[i].id # v[j].id
    BY <1>2, <1>5
  <2>3. /\ w \in Seq(Synthetic(c, a)) /\ Len(w) = Len(v)
        /\ \A i \in 1..Len(w) : w[i].seq = i - 1
        /\ \A i \in 1..Len(w) : \E j \in 1..Len(v) : w[i].id = v[j].id
        /\ \A i, j \in 1..Len(w) : i # j => w[i].id # w[j].id
    BY <1>3, <2>1, <2>2, NumberedIs
  <2>4. ASSUME NEW i \in 1..Len(w)
        PROVE  w[i].id \in Nat /\ w[i].id < n /\ n <= w[i].id + z
    <3>1. PICK j \in 1..z : w[i].id = v[j].id
      BY <1>2, <2>3
    <3>2. QED
      BY <1>4, <3>1
  <2>5. QED
    BY <1>1, <1>2, <2>3, <2>4
<1>8. QED
  BY <1>6, <1>7

LEMMA CloseBatchKeeps ==
  ASSUME SimulatorIInv, CloseBatch
  PROVE  SimulatorIInv'
<1>1. /\ order_count = Len(batch_orders)
      /\ order_count' = NoBatch /\ batch_orders' = << >>
      /\ UNCHANGED <<config, genesis, next_order_id>>
  BY DEF CloseBatch
<1>2a. PICK w \in IF config.kind = "flow" THEN {batch_orders} ELSE Numbered(batch_orders) :
         \E s \in AsBatch(w) :
           generated' = Append(generated,
             [id |-> Len(generated) + 1, orders |-> s, preimages |-> w])
  BY DEF CloseBatch
<1>2. PICK s \in AsBatch(w) :
        generated' = Append(generated,
          [id |-> Len(generated) + 1, orders |-> s, preimages |-> w])
  BY <1>2a
<1>3. PICK S, n, g, z : /\ S = Synthetic(config, genesis) /\ n = next_order_id
                        /\ g = generated /\ z = Len(generated)
  OBVIOUS
<1>4. /\ w \in Seq(S)
      /\ \A i \in 1..Len(w) : w[i].seq = i - 1
      /\ \A i \in 1..Len(w) :
           w[i].id \in Nat /\ w[i].id < n /\ n <= w[i].id + Len(batch_orders)
      /\ \A i, j \in 1..Len(w) : i # j => w[i].id # w[j].id
  BY <1>1, <1>3, NumberedBatch
<1>5. w \in Seq(SyntheticOrder)
  <2>1. S \subseteq SyntheticOrder
    BY <1>3 DEF Synthetic
  <2>2. QED
    BY <1>4, <2>1
<1>6. s = w
  BY <1>4, <1>5, BatchAsIs
<1>7. /\ n \in Nat /\ z \in Nat /\ g \in Seq(Generated) /\ Len(batch_orders) \in Nat
      /\ SessionOrders \in Seq(S)
  BY <1>3 DEF SimulatorIInv, BatchIs, SessionIs
<1>8. PICK x : x = [id |-> z + 1, orders |-> w, preimages |-> w]
  OBVIOUS
<1>9. x \in Generated /\ x.orders = w /\ x.preimages = w /\ x.id = z + 1
  BY <1>5, <1>7, <1>8 DEF Generated
<1>10. /\ generated' = Append(g, x) /\ generated' \in Seq(Generated)
       /\ Len(generated') = z + 1 /\ generated'[z + 1] = x
       /\ \A b \in 1..z : generated'[b] = generated[b]
  BY <1>2, <1>3, <1>6, <1>7, <1>8, <1>9
<1>11. Synthetic(config, genesis)' = S
  BY <1>1, <1>3 DEF Synthetic, FitsWord
<1>12. PICK j, k, l : j = SessionOrders /\ k = Len(j) /\ l = Len(w)
  OBVIOUS
<1>13. SessionOrders' = j \o w
  <2>1. Joined(Append(g, x)) = Joined(g) \o w
    BY <1>7, <1>9, JoinedAppend
  <2>2. SessionOrders' = Joined(generated')
    BY DEF SessionOrders, Joined
  <2>3. SessionOrders = Joined(g)
    BY <1>3, SessionOrdersAre
  <2>4. QED
    BY <1>10, <1>12, <2>1, <2>2, <2>3
<1>14. /\ j \in Seq(S) /\ k \in Nat /\ l \in Nat
       /\ j \o w \in Seq(S) /\ Len(j \o w) = k + l
       /\ \A i \in 1..k : (j \o w)[i] = j[i]
       /\ \A i \in (k + 1)..(k + l) : (j \o w)[i] = w[i - k]
  BY <1>4, <1>7, <1>12
<1>15. ASSUME NEW i \in 1..k
       PROVE  j[i].id \in Nat /\ j[i].id + Len(batch_orders) < n
  <2>1. j[i] \in S
    BY <1>12, <1>14
  <2>2. j[i].id \in Nat
    BY <1>3, <2>1 DEF Synthetic, SyntheticOrder
  <2>3. QED
    BY <1>3, <1>12, <2>2 DEF SimulatorIInv, SessionIs
<1>16. PICK m : m = Len(batch_orders)
  OBVIOUS
<1>17. ASSUME NEW i \in 1..(k + l) PROVE (j \o w)[i].id + 0 < n
  <2>1. CASE i \in 1..k
    <3>1. PICK d : d = j[i].id
      OBVIOUS
    <3>2. d \in Nat /\ d + m < n /\ m \in Nat
      BY <1>7, <1>15, <1>16, <2>1, <3>1
    <3>3. (j \o w)[i] = j[i]
      BY <1>14, <2>1
    <3>4. d + 0 < n
      BY <1>7, <3>2
    <3>5. QED
      BY <3>1, <3>3, <3>4
  <2>2. CASE i \in (k + 1)..(k + l)
    <3>1. i - k \in 1..l
      BY <1>14, <2>2
    <3>2. PICK d : d = w[i - k].id
      OBVIOUS
    <3>3. d \in Nat /\ d < n
      BY <1>4, <1>12, <3>1, <3>2
    <3>4. (j \o w)[i] = w[i - k]
      BY <1>14, <2>2
    <3>5. d + 0 < n
      BY <1>7, <3>3
    <3>6. QED
      BY <3>2, <3>4, <3>5
  <2>3. QED
    BY <1>14, <2>1, <2>2
<1>18. ASSUME NEW h \in 1..k, NEW i \in 1..l
       PROVE  j[h].id # w[i].id
  <2>1. PICK d, e : d = j[h].id /\ e = w[i].id
    OBVIOUS
  <2>2. d \in Nat /\ e \in Nat /\ d + m < n /\ n <= e + m /\ m \in Nat
    BY <1>4, <1>7, <1>12, <1>15, <1>16, <2>1
  <2>3. d # e
    BY <1>7, <2>2
  <2>4. QED
    BY <2>1, <2>3
<1>19. ASSUME NEW h \in 1..(k + l), NEW i \in 1..(k + l), h # i
       PROVE  (j \o w)[h].id # (j \o w)[i].id
  <2>1. /\ (h \in 1..k \/ (h \in (k + 1)..(k + l) /\ h - k \in 1..l))
        /\ (i \in 1..k \/ (i \in (k + 1)..(k + l) /\ i - k \in 1..l))
    BY <1>14
  <2>2. CASE h \in 1..k /\ i \in 1..k
    <3>1. j[h].id # j[i].id
      BY <1>12, <1>19, <2>2 DEF SimulatorIInv, SessionIs
    <3>2. QED
      BY <1>14, <2>2, <3>1
  <2>3. CASE h \in 1..k /\ i \in (k + 1)..(k + l) /\ i - k \in 1..l
    BY <1>14, <1>18, <2>3
  <2>4. CASE h \in (k + 1)..(k + l) /\ h - k \in 1..l /\ i \in 1..k
    BY <1>14, <1>18, <2>4
  <2>5. CASE /\ h \in (k + 1)..(k + l) /\ h - k \in 1..l
             /\ i \in (k + 1)..(k + l) /\ i - k \in 1..l
    <3>1. h - k # i - k
      BY <1>14, <1>19
    <3>2. w[h - k].id # w[i - k].id
      BY <1>4, <1>12, <2>5, <3>1
    <3>3. QED
      BY <1>14, <2>5, <3>2
  <2>6. QED
    BY <2>1, <2>2, <2>3, <2>4, <2>5
<1>20. ASSUME NEW b \in 1..(z + 1)
       PROVE  /\ Provable(generated'[b]) /\ generated'[b].id = b
              /\ generated'[b].orders \in Seq(S)
  <2>1. CASE b = z + 1
    BY <1>4, <1>9, <1>10, <2>1 DEF Provable
  <2>2. CASE b # z + 1
    <3>1. b \in 1..z
      BY <1>7, <2>2
    <3>2. QED
      BY <1>3, <1>10, <3>1 DEF SimulatorIInv, SessionIs
  <2>3. QED
    BY <2>1, <2>2
<1>21. SessionIs'
  <2>1. Len(batch_orders') = 0 /\ next_order_id' = n
    BY <1>1, <1>3
  <2>2. \A b \in 1..Len(generated') :
          /\ Provable(generated'[b]) /\ generated'[b].id = b
          /\ generated'[b].orders \in Seq(S)
    BY <1>10, <1>20
  <2>3. SessionOrders' \in Seq(S) /\ Len(SessionOrders') = k + l
    BY <1>13, <1>14
  <2>4. ASSUME NEW i \in 1..Len(SessionOrders')
        PROVE  SessionOrders'[i].id + Len(batch_orders') < next_order_id'
    BY <1>13, <1>17, <2>1, <2>3
  <2>5. ASSUME NEW h \in 1..Len(SessionOrders'), NEW i \in 1..Len(SessionOrders'), h # i
        PROVE  SessionOrders'[h].id # SessionOrders'[i].id
    BY <1>13, <1>19, <2>3, <2>5
  <2>6. QED
    BY <1>10, <1>11, <2>2, <2>3, <2>4, <2>5 DEF SessionIs
<1>22. BatchIs'
  <2>1. batch_orders' \in Seq(S) /\ Len(batch_orders') = 0
    BY <1>1
  <2>2. QED
    BY <1>11, <2>1 DEF BatchIs
<1>23. ConfigOK'
  <2>1. order_count # NoBatch
    BY <1>1, <1>7 DEF NoBatch
  <2>2. \/ config \in FlowRecord /\ genesis = FlowAccounts(config)
        \/ config \in PopulationRecord /\ genesis = PopulationAccounts(config)
    BY <2>1 DEF SimulatorIInv, ConfigOK
  <2>3. QED
    BY <1>1, <2>2 DEF ConfigOK, FlowAccounts, PopulationAccounts
<1>24. QED
  BY <1>1, <1>3, <1>7, <1>21, <1>22, <1>23 DEF SimulatorIInv

LEMMA SimulatorStep ==
  ASSUME SimulatorIInv, SimulatorNext
  PROVE  SimulatorIInv'
  BY StartKeeps, OpenFlowKeeps, DrawOrderKeeps, OpenPopulationKeeps, DrawTakerKeeps,
     CloseBatchKeeps DEF SimulatorNext

LEMMA SimulatorSame ==
  ASSUME SimulatorIInv, UNCHANGED simulatorVars
  PROVE  SimulatorIInv'
<1>1. UNCHANGED <<config, genesis, next_order_id, order_count, batch_orders, generated>>
  BY DEF simulatorVars
<1>2. ConfigOK'
  BY <1>1 DEF SimulatorIInv, ConfigOK, FlowAccounts, PopulationAccounts
<1>3. BatchIs'
  BY <1>1 DEF SimulatorIInv, BatchIs, Synthetic, FitsWord
<1>4. SessionIs'
  <2>1. SessionIs /\ next_order_id \in Nat /\ Len(batch_orders) \in Nat
    BY DEF SimulatorIInv, BatchIs
  <2>2. PICK n, m : n = next_order_id /\ m = Len(batch_orders)
    OBVIOUS
  <2>3. next_order_id' = n /\ Len(batch_orders') = m
    BY <1>1, <2>2
  <2>4. n \in Nat /\ m \in Nat /\ n - m >= n - m
    BY <2>1, <2>2
  <2>5. QED
    BY <1>1, <2>1, <2>2, <2>3, <2>4, SessionSame
<1>5. QED
  BY <1>1, <1>2, <1>3, <1>4 DEF SimulatorIInv

LEMMA PartitionSame ==
  ASSUME PartitionIInv, UNCHANGED partitionVars
  PROVE  PartitionIInv'
<1> USE DEF partitionVars
<1>1. ClockOK' = ClockOK /\ NumBatches' = NumBatches /\ CutoffsFit' = CutoffsFit
      /\ RestIsLate' = RestIsLate
  BY DEF ClockOK, NumBatches, CutoffsFit, RestIsLate
<1>2. InPieces'
  <2>1. PICK c : Cuts(c) /\ (CutoffsFit => InTime(c))
    BY DEF PartitionIInv, InPieces
  <2>2. Cuts(c)' /\ (CutoffsFit => InTime(c)')
    BY <2>1 DEF Cuts, InTime, InInterval
  <2>3. QED
    BY <1>1, <2>2 DEF InPieces
<1>3. QED
  BY <1>1, <1>2 DEF PartitionIInv

LEMMA SweepKeeps ==
  ASSUME SimulatorIInv, Sweep
  PROVE  SimulatorIInv' /\ PartitionIInv'
<1>1. /\ SessionComplete
      /\ session_start' \in 0..MaxTime /\ interval' \in 0..MaxTime
      /\ max_batches' = NoLimit
      /\ config' = NoConfig /\ next_order_id' = 1 /\ generated' = << >>
      /\ UNCHANGED <<order_count, batch_orders>>
  BY ClocksOK DEF Sweep
<1>2. order_count = NoBatch /\ batch_orders = << >>
  BY <1>1 DEF SessionComplete, SimulatorIInv
<1>3. PICK delay \in [1..Len(SessionOrders) -> 0..Horizon] :
        CallPartition([i \in 1..Len(SessionOrders) |->
          [arrival |-> Wrap(session_start' + delay[i]),
           order |-> [id |-> SessionOrders[i].id, seq |-> SessionOrders[i].seq]]])
  BY DEF Sweep
<1>4. PICK j, S, start, z : /\ j = SessionOrders /\ S = Synthetic(config, genesis)
                            /\ start = session_start' /\ z = Len(SessionOrders)
  OBVIOUS
<1>5. j \in Seq(S) /\ z = Len(j) /\ z \in Nat /\ start \in Nat
  BY <1>1, <1>4, TimeWidth DEF SimulatorIInv, SessionIs
<1>6. PICK v : v = [i \in 1..z |-> [arrival |-> Wrap(start + delay[i]),
                                    order |-> [id |-> j[i].id, seq |-> j[i].seq]]]
  OBVIOUS
<1>7. ASSUME NEW i \in 1..z
      PROVE  v[i] \in Submission /\ v[i].order.id = j[i].id
  <2>1. j[i] \in S
    BY <1>5
  <2>2. j[i].id \in Nat /\ j[i].seq \in Nat
    BY <1>4, <2>1 DEF Synthetic, SyntheticOrder
  <2>3. PICK t : t = start + delay[i]
    OBVIOUS
  <2>4. t \in Nat
    BY <1>4, <1>5, <2>3, ClocksOK
  <2>5. Wrap(t) \in 0..MaxTime
    BY <2>4, WrapIsWord
  <2>6. v[i] = [arrival |-> Wrap(t), order |-> [id |-> j[i].id, seq |-> j[i].seq]]
    BY <1>6, <2>3
  <2>7. QED
    BY <2>2, <2>5, <2>6 DEF Submission
<1>8. v \in Seq(Submission) /\ Len(v) = z
  BY <1>5, <1>6, <1>7
<1>9. ASSUME NEW h \in 1..Len(v), NEW i \in 1..Len(v), h # i
      PROVE  v[h].order.id # v[i].order.id
  <2>1. j[h].id # j[i].id
    BY <1>4, <1>5, <1>8, <1>9 DEF SimulatorIInv, SessionIs
  <2>2. QED
    BY <1>7, <1>8, <2>1
<1>10. CallPartition(v)
  BY <1>3, <1>4, <1>6
<1>11. PartitionIInv'
  <2>1. max_batches' \in Nat \union {NoLimit}
    BY <1>1
  <2>2. QED
    BY <1>1, <1>8, <1>9, <1>10, <2>1, CallKeeps
<1>12. BatchIs' /\ SessionIs'
  <2>1. (batch_orders = << >> /\ generated = << >> => BatchIs /\ SessionIs)'
    BY Empty, PTL
  <2>2. QED
    BY <1>1, <1>2, <2>1
<1>13. SimulatorIInv'
  BY <1>1, <1>2, <1>12 DEF SimulatorIInv, ConfigOK
<1>14. QED
  BY <1>11, <1>13

LEMMA StreamKeeps ==
  ASSUME SimulatorIInv, PartitionStream
  PROVE  SimulatorIInv' /\ PartitionIInv'
<1>1. /\ session_start' \in 0..MaxTime /\ interval' \in 0..MaxTime
      /\ max_batches' \in Nat \union {NoLimit}
      /\ UNCHANGED simulatorVars
  BY ClocksOK DEF PartitionStream
<1>2. PICK v \in Submissions : CallPartition(v)
  BY DEF PartitionStream
<1>3. v \in Seq(Submission)
  BY SubmissionsOK DEF Submission
<1>4. \A i, j \in 1..Len(v) : i # j => v[i].order.id # v[j].order.id
  BY SubmissionsOK
<1>5. PartitionIInv'
  BY <1>1, <1>2, <1>3, <1>4, CallKeeps
<1>6. QED
  BY <1>1, <1>5, SimulatorSame

----------------------------------------------------------------------------
(***************************************************************************)
(* The sources of batches, simulated or cut from a stream.                 *)
(***************************************************************************)
FeedIInv == SimulatorIInv /\ PartitionIInv

LEMMA FeedStep ==
  ASSUME FeedIInv, [FeedNext]_feedVars
  PROVE  FeedIInv'
<1>1. SimulatorIInv /\ PartitionIInv
  BY DEF FeedIInv
<1>2. CASE Simulate
  <2>1. SimulatorNext /\ UNCHANGED partitionVars
    BY <1>2 DEF Simulate
  <2>2. QED
    BY <1>1, <2>1, SimulatorStep, PartitionSame DEF FeedIInv
<1>3. CASE Sweep
  BY <1>1, <1>3, SweepKeeps DEF FeedIInv
<1>4. CASE PartitionStream
  BY <1>1, <1>4, StreamKeeps DEF FeedIInv
<1>5. CASE Cut
  <2>1. PartitionIInv'
    BY <1>1, <1>5, CloseKeeps, ReturnKeeps DEF Cut, PartitionNext
  <2>2. SimulatorIInv'
    BY <1>1, <1>5, SimulatorSame DEF Cut
  <2>3. QED
    BY <2>1, <2>2 DEF FeedIInv
<1>6. CASE UNCHANGED feedVars
  BY <1>1, <1>6, SimulatorSame, PartitionSame DEF FeedIInv, feedVars
<1>7. QED
  BY <1>2, <1>3, <1>4, <1>5, <1>6 DEF FeedNext

LEMMA FeedInvariant == FeedSpec => []FeedIInv
<1>1. FeedInit => FeedIInv
  BY SimulatorInitially, PartitionInitially DEF FeedInit, FeedIInv
<1>2. FeedIInv /\ [FeedNext]_feedVars => FeedIInv'
  BY FeedStep
<1>3. QED
  BY <1>1, <1>2, PTL DEF FeedSpec

\* Every batch partition_stream makes holds the orders of its own interval and
\* no others, and an interval it passes over had none, whatever the stream, the
\* clock and the limit, as long as no cutoff wraps.
THEOREM IntervalsHoldTheirOwn == FeedSpec => []PlacedInTheirInterval
<1>1. FeedIInv => PlacedInTheirInterval
  BY PlacedFromInvariant DEF FeedIInv
<1>2. QED
  BY <1>1, FeedInvariant, PTL

\* A call of partition_stream without max_batches, and without a cutoff that
\* wraps, has placed every submission in one batch, once, when it returns.
THEOREM EverySubmissionPlaced == FeedSpec => []NothingLeftOut
<1>1. FeedIInv => NothingLeftOut
  BY NothingLeftFromInvariant DEF FeedIInv
<1>2. QED
  BY <1>1, FeedInvariant, PTL

\* Whatever the configuration or the stream, the bundles of generate_session,
\* simulate_session and partition_stream hold their preimages in leaf order and
\* positions as sequence numbers; ids and accounts of a generated session are in
\* order, and a configuration that keeps its sums within the word and its
\* quantities above zero gets orders that Batch::create would not refuse.
THEOREM SourcesMeetTheProver == FeedSpec => []BundlesMeetTheProver
<1>1. FeedIInv => BundlesMeetTheProver
  <2>1. SUFFICES ASSUME FeedIInv PROVE BundlesMeetTheProver
    OBVIOUS
  <2>2. SimulatorIInv /\ PartitionIInv /\ SessionIs
    BY <2>1 DEF FeedIInv, SimulatorIInv
  <2>3. ASSUME NEW b \in 1..Len(bundles) PROVE Provable(bundles[b])
    <3>1. PICK c : Cuts(c)
      BY <2>2 DEF PartitionIInv, InPieces
    <3>2. PICK n : n = c[b] - c[b - 1]
      OBVIOUS
    <3>3. /\ Len(bundles[b].orders) = n /\ bundles[b].preimages = bundles[b].orders
          /\ \A i \in 1..n : bundles[b].orders[i].seq = i - 1
      BY <3>1, <3>2 DEF Cuts, Holds
    <3>4. QED
      BY <3>3 DEF Provable
  <2>4. \A b \in 1..Len(generated) : Provable(generated[b]) /\ generated[b].id = b
    BY <2>2 DEF SessionIs
  <2>5. \A i, j \in 1..Len(SessionOrders) :
          i # j => SessionOrders[i].id # SessionOrders[j].id
    BY <2>2 DEF SessionIs
  <2>6. ASSUME NEW i \in 1..Len(SessionOrders)
        PROVE  /\ SessionOrders[i].account \in genesis
               /\ QuantitiesPositive(config) => SessionOrders[i].qty > 0
               /\ PricesPositive(config) => SessionOrders[i].price > 0
    <3>1. PICK S, j : S = Synthetic(config, genesis) /\ j = SessionOrders
      OBVIOUS
    <3>2. j \in Seq(S) /\ i \in 1..Len(j)
      BY <2>2, <3>1 DEF SessionIs
    <3>3. j[i] \in S
      BY <3>2
    <3>4. QED
      BY <3>1, <3>3 DEF Synthetic
  <2>7. QED
    BY <2>3, <2>4, <2>5, <2>6 DEF BundlesMeetTheProver
<1>2. QED
  BY <1>1, FeedInvariant, PTL

\* When the mid plus the widest spread fits a word, every synthetic order, of a
\* flow or of a population, is priced at one or more and within the spread of
\* the mid, however far the spread reaches below zero: the clamps downwards
\* suffice.
THEOREM SyntheticPricesAreNear == FeedSpec => []PricesStayNearTheMid
<1>1. FeedIInv => PricesStayNearTheMid
  <2>1. SUFFICES ASSUME FeedIInv, PricesFit,
                        NEW b \in 1..Len(generated),
                        NEW i \in 1..Len(generated[b].orders)
                 PROVE  /\ generated[b].orders[i].price >= 1
                        /\ \E ticks \in Reach(config) :
                             generated[b].orders[i].price
                               \in (config.mid - ticks)..(config.mid + ticks) \union {1}
    BY DEF PricesStayNearTheMid
  <2>2. SessionIs
    BY <2>1 DEF FeedIInv, SimulatorIInv
  <2>3. PICK S, v : S = Synthetic(config, genesis) /\ v = generated[b].orders
    OBVIOUS
  <2>4. v \in Seq(S) /\ i \in 1..Len(v)
    BY <2>2, <2>3 DEF SessionIs
  <2>5. v[i] \in S
    BY <2>4
  <2>6. FitsWord(config)
    BY <2>1 DEF PricesFit, FitsWord
  <2>7. PICK ticks \in Reach(config) : Within(v[i].price, config.mid, ticks)
    BY <2>3, <2>5, <2>6 DEF Synthetic
  <2>8. QED
    BY <2>3, <2>7 DEF Within
<1>2. QED
  BY <1>1, FeedInvariant, PTL

----------------------------------------------------------------------------
(***************************************************************************)
(* The loop over the intervals cannot go round for ever.                   *)
(***************************************************************************)
\* The intervals that are left, and the return.
IntervalsLeft == IF finished THEN 0 ELSE NumBatches + 2 - batch_k

\* partition_stream (simulator/interval.cpp): every interval that is closed, and
\* the return, lowers a natural number, also when a cutoff wraps or the limit
\* cuts the session short; what comes next is always one or the other.
THEOREM PartitionWindsDown ==
  FeedSpec => /\ [](IntervalsLeft \in Nat /\ (IntervalsLeft = 0 <=> finished))
              /\ [][PartitionNext => IntervalsLeft' < IntervalsLeft]_feedVars
<1>1. FeedIInv
        => /\ NumBatches \in Nat /\ batch_k \in Nat
           /\ ~finished => batch_k \in 1..(NumBatches + 1)
  <2>1. SUFFICES ASSUME FeedIInv
                 PROVE  /\ NumBatches \in Nat /\ batch_k \in Nat
                        /\ ~finished => batch_k \in 1..(NumBatches + 1)
    OBVIOUS
  <2>2. PartitionIInv
    BY <2>1 DEF FeedIInv
  <2>3. NumBatches \in Nat
    BY <2>2, NumBatchesNat DEF PartitionIInv
  <2>4. PICK n \in Nat : n = NumBatches
    BY <2>3
  <2>5. /\ batch_k \in Nat /\ (batch_k = 0 => finished)
        /\ batch_k > 1 => batch_k - 1 <= n
    BY <2>2, <2>4 DEF PartitionIInv
  <2>6. QED
    BY <2>4, <2>5
<1>2. FeedIInv => IntervalsLeft \in Nat /\ (IntervalsLeft = 0 <=> finished)
  BY <1>1 DEF IntervalsLeft
<1>3. FeedIInv /\ [FeedNext]_feedVars
        => [PartitionNext => IntervalsLeft' < IntervalsLeft]_feedVars
  <2>1. SUFFICES ASSUME FeedIInv, PartitionNext PROVE IntervalsLeft' < IntervalsLeft
    OBVIOUS
  <2>2. ~finished
    BY <2>1 DEF PartitionNext, CloseInterval, ReturnBatches
  <2>3. NumBatches' = NumBatches
    BY <2>1 DEF PartitionNext, CloseInterval, ReturnBatches, NumBatches
  <2>4. PICK n \in Nat, k \in Nat : n = NumBatches /\ k = batch_k /\ k <= n + 1
    BY <1>1, <2>1, <2>2
  <2>5. CASE CloseInterval
    <3>1. batch_k' = k + 1 /\ k <= n /\ finished' = finished
      BY <2>4, <2>5 DEF CloseInterval
    <3>2. QED
      BY <2>2, <2>3, <2>4, <3>1 DEF IntervalsLeft
  <2>6. CASE ReturnBatches
    <3>1. finished'
      BY <2>6 DEF ReturnBatches
    <3>2. QED
      BY <2>2, <2>4, <3>1 DEF IntervalsLeft
  <2>7. QED
    BY <2>1, <2>5, <2>6 DEF PartitionNext
<1>4. QED
  BY <1>2, <1>3, FeedInvariant, PTL DEF FeedSpec
=============================================================================
