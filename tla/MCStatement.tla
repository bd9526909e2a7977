---------------------------- MODULE MCStatement ----------------------------
(***************************************************************************)
(* Batches of up to three orders, the smallest number with an unpaired     *)
(* leaf, whose sequence numbers are their positions or are not; ledgers    *)
(* with cash on either side of a word; an oracle that is absent, fresh,    *)
(* stale, from the future, off the collar or of another instrument.        *)
(***************************************************************************)
EXTENDS Statement

CONSTANTS Prices, Quantities

\* The first order sells, the second buys; the third is of either side.
MCArrivals ==
  [k \in 1..MaxOrders |->
     [id : {k}, account : IF k = 3 THEN {2} ELSE {2, 3}, instrument : {1},
      side : IF k = 1 THEN {"Sell"} ELSE IF k = 2 THEN {"Buy"} ELSE Sides,
      price : Prices, qty : IF k = 3 THEN {1} ELSE Quantities,
      seq : IF k = 2 THEN {0, 1} ELSE {k - 1}]]

\* Within a word and beyond it, and one that holds more than a total carries.
\* Account 1 does not trade, and is absent from two of them.
MCLedgers ==
  {[accounts |-> Account, blinded |-> Account, cash |-> <<1, 5, 4>>,
    inv |-> [i \in Instruments |-> <<0, 1, 2>>]],
   [accounts |-> {2, 3}, blinded |-> {2, 3}, cash |-> <<0, 2, 1>>,
    inv |-> [i \in Instruments |-> <<0, 2, 1>>]],
   [accounts |-> {2, 3}, blinded |-> {2}, cash |-> <<0, 3, 2>>,
    inv |-> [i \in Instruments |-> <<0, MaxRaw, 1>>]]}

Snapshot(instrument, price, timestamp) ==
  [present |-> TRUE,
   snapshot |-> [instrument |-> instrument, price |-> price,
                 timestamp |-> timestamp],
   policy |-> [max_staleness |-> 1, max_deviation |-> 0]]

\* The cutoff is 2.
MCOracles ==
  {NoOracle, Snapshot(1, 2, 1), Snapshot(1, 2, 0), Snapshot(1, 2, 3),
   Snapshot(2, 2, 2)}

OtherInputs(c) ==
  {[c EXCEPT !.inputs.price = @ + 1], [c EXCEPT !.inputs.volume = @ + 1],
   [c EXCEPT !.inputs.price = 0], [c EXCEPT !.inputs.post = c.inputs.pre],
   [c EXCEPT !.inputs.pre = EmptyNode],
   [c EXCEPT !.inputs.header = CommitRaw(<<"absent">>)],
   [c EXCEPT !.inputs.oracle = CommitRaw(<<"absent">>)]}

OtherBinding(c) ==
  {[c EXCEPT !.witness.cutoff = @ + 1], [c EXCEPT !.witness.batch_id = 2],
   [c EXCEPT !.witness.preimages = << >>]}
    \cup {[c EXCEPT !.witness.preimages[i].nonce = 9] :
            i \in 1..Len(c.witness.preimages)}
    \cup {[c EXCEPT !.witness.preimages[i].order.qty = 3] :
            i \in 1..Len(c.witness.preimages)}
    \cup {[c EXCEPT !.witness.preimages[i].order.qty = 3,
                    !.witness.orders[i].qty = 3] :
            i \in 1..Len(c.witness.orders)}
    \cup IF c.witness.oracle.present
         THEN {[c EXCEPT !.witness.oracle = NoOracle],
               [c EXCEPT !.witness.oracle.policy.max_staleness = 2],
               [c EXCEPT !.witness.oracle.policy.max_deviation = 1]}
         ELSE {}

\* The post-state altered, with and without the root to match.
OtherPosts(c) ==
  LET posts == {c.witness.pre, [c.witness.post EXCEPT !.blinded = {}],
                [c.witness.post EXCEPT !.cash = <<@[1], @[3], @[2]>>],
                [c.witness.post EXCEPT !.inv[1] = <<@[1], @[3], @[2]>>],
                [c.witness.post EXCEPT !.inv[2] = <<@[1], @[2] + 1, @[3] - 1>>]}
  IN  {[c EXCEPT !.witness.post = l] : l \in posts}
        \cup {[c EXCEPT !.witness.post = l, !.inputs.post = LedgerRoot(l, inst)] :
                l \in posts}

OtherExecutions(c) ==
  {[c EXCEPT !.witness.fills = << >>]}
    \cup {[c EXCEPT !.witness.alloc[i] = 1 - @] :
            i \in {j \in 1..Len(c.witness.alloc) : c.witness.alloc[j] < 2}}

\* Records reversed, dropped, repeated, exchanged in part; totals misstated.
OtherManifests(c) ==
  LET r == c.witness.accounting.records
      n == Len(r)
      exchanged(field, j, k) ==
        [i \in 1..n |->
           IF i \notin {j, k} THEN r[i]
           ELSE LET other == r[IF i = j THEN k ELSE j]
                IN  CASE field = "id" -> [r[i] EXCEPT !.order_id = other.order_id]
                      [] field = "outcome" ->
                           [r[i] EXCEPT !.disposition = other.disposition]
                      [] field = "order" ->
                           [r[i] EXCEPT !.order_id = other.order_id,
                                        !.disposition = other.disposition]
                      [] field = "leaf" ->
                           [r[i] EXCEPT !.commitment = other.commitment]]
      records == {[i \in 1..n |-> r[n + 1 - i]], Tail(r), Append(r, r[1])}
                   \cup {[r EXCEPT ![n] = r[1]]}
                   \cup {exchanged(f, j, k) :
                           f \in {"id", "outcome", "order", "leaf"},
                           j, k \in 1..n}
  IN  IF n = 0 THEN {}
      ELSE {[c EXCEPT !.witness.accounting.records = s] : s \in records}
             \cup {[c EXCEPT !.witness.accounting.total_committed = @ + 1],
                   [c EXCEPT !.witness.accounting.total_unfilled = @ + 1]}

\* The checker is not asked on its own.
MCMisreports(p) == {}

MCAlterations(c) ==
  {d \in OtherInputs(c) \cup OtherBinding(c) \cup OtherPosts(c)
           \cup OtherExecutions(c) \cup OtherManifests(c) :
     d.witness.post \in LedgerType /\ WellFormed(d.witness.post)}
=============================================================================
