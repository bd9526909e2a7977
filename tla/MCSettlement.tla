---------------------------- MODULE MCSettlement ----------------------------
(***************************************************************************)
(* Settlement of every canonical fill vector of up to three fills that the *)
(* given prices and quantities allow, from ledgers that include a missing  *)
(* account, an unblinded one, empty balances and totals beyond their width.*)
(***************************************************************************)
EXTENDS Settlement

CONSTANTS Prices, Quantities

Fills(side, price, instrument, n) ==
  [fill_id : {0}, order_id : {n}, account : Account, instrument : {instrument},
   side : {side}, execution_price : {price}, fill_qty : Quantities,
   consideration : {price * q : q \in Quantities}]

Vectors(sides, price, instrument) ==
  {fs \in [1..Len(sides) ->
             UNION {Fills(s, price, instrument, 1) : s \in Sides}] :
     \A k \in 1..Len(sides) : /\ fs[k].side = sides[k]
                              /\ fs[k].consideration = price * fs[k].fill_qty}

Patterns == {<< >>, <<"Buy", "Sell">>, <<"Sell", "Buy">>,
             <<"Buy", "Sell", "Sell">>, <<"Sell", "Buy", "Buy">>}

MCFillLists ==
  {fs \in UNION {Vectors(p, c, i) : p \in Patterns, c \in Prices, i \in Instruments} :
     CanonicalFills(fs)}

\* A ledger over three accounts; of instrument 2 account 1 holds one unit.
LedgerOf(accounts, blinded, cash, held) ==
  [accounts |-> accounts, blinded |-> blinded, cash |-> cash,
   inv |-> [i \in Instruments |-> IF i = 1 THEN held ELSE <<1, 0, 0>>]]

\* An ordinary session; one whose account 3 is not in the map and whose
\* account 2 is not blinded; two whose totals do not fit their width.
MCLedgers ==
  {LedgerOf(Account, Account, <<4, 2, 0>>, <<0, 1, 2>>),
   LedgerOf({1, 2}, {1}, <<2, 2, 0>>, <<1, 1, 0>>),
   LedgerOf(Account, Account, <<MaxMoney, 2, 0>>, <<0, 1, 1>>),
   LedgerOf(Account, Account, <<2, 2, 0>>, <<MaxRaw, 1, 0>>)}
=============================================================================
