------------------------------- MODULE Ledgers -------------------------------
(***************************************************************************)
(* Accounts and ledgers (domain/account.hpp).  A ledger is a record        *)
(*                                                                         *)
(*   accounts  the ids in the map                                          *)
(*   blinded   the accounts that carry a commitment salt                   *)
(*   cash      cash per account                                            *)
(*   inv       inventory per instrument and account                        *)
(*                                                                         *)
(* Accounts are numbered 1..NumAccounts, the order in which std::map       *)
(* iterates them.  An account that is not in the map holds nothing, and an *)
(* inventory entry that reaches zero is erased: inventory_of is zero in    *)
(* both cases.                                                             *)
(***************************************************************************)
EXTENDS Domain

CONSTANT NumAccounts   \* account ids range over 1..NumAccounts

ASSUME AccountRange == NumAccounts \in Nat

Account == 1..NumAccounts

LedgerType ==
  [accounts : SUBSET Account, blinded : SUBSET Account,
   cash : [Account -> Money], inv : [Instruments -> [Account -> Qty]]]

\* An account outside the map has no balance and no salt.
WellFormed(l) ==
  /\ l \in LedgerType
  /\ l.blinded \subseteq l.accounts
  /\ \A a \in Account \ l.accounts :
       l.cash[a] = 0 /\ \A i \in Instruments : l.inv[i][a] = 0

\* Fill::create makes no other: a fill has a price, a quantity and their
\* product, and quantities of zero are not filled.
FillType ==
  [fill_id : Nat, order_id : Nat, account : Account, instrument : Instruments,
   side : Sides, execution_price : Price, fill_qty : Price,
   consideration : Money]

\* Ledger::total_cash and Ledger::total_inventory_of, before the width check.
CashSum(l) == Total(l.cash, NumAccounts)
InvSum(l, instrument) == Total(l.inv[instrument], NumAccounts)

TotalCash(l) == CheckedTotal(l.cash, NumAccounts, MaxMoney)
TotalInventoryOf(l, instrument) ==
  CheckedTotal(l.inv[instrument], NumAccounts, MaxRaw)

\* blind_ledger: every account in the map is given its salt.
BlindLedger(l) == [l EXCEPT !.blinded = l.accounts]

\* Variant: an account that is looked up is given a salt.
GetOrBlindAccount(l, a) == [l EXCEPT !.accounts = @ \cup {a}, !.blinded = @ \cup {a}]

\* get_or_create_account: a missing account appears empty and unblinded.
GetOrCreateAccount(l, a) == [l EXCEPT !.accounts = @ \cup {a}]

(***************************************************************************)
(* One fill against one account.  The buyer's cash is debited and the      *)
(* inventory credited, the seller's the other way round; either half may   *)
(* fail, on an insufficient balance or an overflow.                        *)
(***************************************************************************)
Settles(l, f) ==
  LET a    == f.account
      cash == l.cash[a]
      held == l.inv[f.instrument][a]
  IN  IF f.side = "Buy"
      THEN /\ CheckedSub(cash, f.consideration) # Err
           /\ CheckedAdd(held, f.fill_qty, MaxRaw) # Err
      ELSE /\ CheckedSub(held, f.fill_qty) # Err
           /\ CheckedAdd(cash, f.consideration, MaxMoney) # Err

\* What a fill adds to its account's cash and to its inventory.
CashEffect(f) == IF f.side = "Buy" THEN -f.consideration ELSE f.consideration
QtyEffect(f)  == IF f.side = "Buy" THEN f.fill_qty ELSE -f.fill_qty

\* Variant: the fill's cash moves and its inventory does not.
SettleCashOnly(l, f) ==
  [GetOrCreateAccount(l, f.account) EXCEPT !.cash[f.account] = @ + CashEffect(f)]

SettleFill(l, f) ==
  [GetOrCreateAccount(l, f.account) EXCEPT
     !.cash[f.account] = @ + CashEffect(f),
     !.inv[f.instrument][f.account] = @ + QtyEffect(f)]

\* The conservation checks that end apply_batch_transition.
TouchedInstruments(fills) == {fills[k].instrument : k \in 1..Len(fills)}

CashConserved(pre, post) ==
  /\ Err \notin {TotalCash(pre), TotalCash(post)}
  /\ TotalCash(pre) = TotalCash(post)

\* Variant: conservation asked of every account instead of their total.
AssetsUnmoved(pre, post, fills) ==
  \A i \in TouchedInstruments(fills) : pre.inv[i] = post.inv[i]

AssetsConserved(pre, post, fills) ==
  \A i \in TouchedInstruments(fills) :
    /\ Err \notin {TotalInventoryOf(pre, i), TotalInventoryOf(post, i)}
    /\ TotalInventoryOf(pre, i) = TotalInventoryOf(post, i)
=============================================================================
