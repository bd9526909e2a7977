----------------------------- MODULE MCAudits ------------------------------
(***************************************************************************)
(* Batches of up to three orders of two accounts, the first two in either  *)
(* order of sequence, some malformed or with a repeated id; for each the   *)
(* command, and for each result the misreports that change it in one       *)
(* place: an outcome, an allocation, a fill, a balance, a transfer that    *)
(* leaves every total as it was, an update that is lost, an account that   *)
(* comes or goes.                                                          *)
(***************************************************************************)
EXTENDS Audits

CONSTANTS Prices, Quantities

Orderly(ids, accounts, quantities, seqs) ==
  [id : ids, account : accounts, instrument : {1}, side : Sides, price : Prices,
   qty : quantities, seq : seqs]

Sound == [id |-> 2, account |-> 1, instrument |-> 1, side |-> "Buy", price |-> 1,
          qty |-> 1, seq |-> 1]

Malformed ==
  {[Sound EXCEPT !.instrument = 2], [Sound EXCEPT !.side = "Other"],
   [Sound EXCEPT !.price = 0], [Sound EXCEPT !.qty = 0], [Sound EXCEPT !.id = 1]}

MCArrivals ==
  <<Orderly({1}, {1}, Quantities, {1, 2}),
    Orderly({2}, Account, Quantities, {1}) \cup Malformed,
    Orderly({3}, {1}, {1}, {2})>>

\* Two ordinary ledgers, and one that holds more of each instrument than a
\* total can carry.
MCLedgers ==
  {[accounts |-> Account, blinded |-> Account, cash |-> <<4, 3>>,
    inv |-> [i \in Instruments |-> <<1, 2>>]],
   [accounts |-> {1}, blinded |-> {1}, cash |-> <<4, 0>>,
    inv |-> [i \in Instruments |-> <<3, 0>>]],
   [accounts |-> Account, blinded |-> {1}, cash |-> <<4, 4>>,
    inv |-> [i \in Instruments |-> <<MaxRaw, 1>>]]}

OtherOutcomes(p) ==
  {[p EXCEPT !.outcome.clearing_price = c] : c \in {NoPrice} \cup Prices}
    \cup {[p EXCEPT !.outcome.executable_volume = v] : v \in 0..2}

OtherAllocations(p) ==
  {[p EXCEPT !.alloc[i] = q] : i \in 1..Len(p.alloc), q \in 0..2}

OtherFills(p) ==
  UNION {{[p EXCEPT !.fills[k].account = a] : a \in Account}
           \cup {[p EXCEPT !.fills[k].execution_price = c] : c \in Prices}
           \cup {[p EXCEPT !.fills[k].fill_qty = q] : q \in Quantities}
           \cup {[p EXCEPT !.fills = SubSeq(@, 1, k - 1)]} :
         k \in 1..Len(p.fills)}

Shifted(f, a, b) == [f EXCEPT ![a] = @ - 1, ![b] = @ + 1]

OtherPostStates(p) ==
  {[p EXCEPT !.post = pre], [p EXCEPT !.post.blinded = {}],
   [p EXCEPT !.post.accounts = {1}], [p EXCEPT !.post.accounts = Account],
   [p EXCEPT !.post.cash[1] = @ + 1]}
    \cup {[p EXCEPT !.post.cash = Shifted(@, a, 3 - a)] : a \in Account}
    \cup {[p EXCEPT !.post.inv[i] = Shifted(@, a, 3 - a)] :
            i \in Instruments, a \in Account}

MCMisreports(p) ==
  {q \in OtherOutcomes(p) \cup OtherAllocations(p) \cup OtherFills(p)
           \cup OtherPostStates(p) : q.post \in LedgerType /\ WellFormed(q.post)}
=============================================================================
