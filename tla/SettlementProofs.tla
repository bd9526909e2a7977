-------------------------- MODULE SettlementProofs --------------------------
(***************************************************************************)
(* Theorems about Settlement, for any number of accounts and instruments,  *)
(* any widths and any fill vectors.                                        *)
(***************************************************************************)
EXTENDS Settlement, TotalTheorems

(***************************************************************************)
(* The inductive invariant.  InFlightBalance and NoAccountAppears are not  *)
(* inductive alone: that a settling fill needs no new account rests on an  *)
(* account outside the map holding nothing, in the state and in the copy.  *)
(***************************************************************************)
InFlight ==
  /\ ledger.accounts = work.accounts
  /\ ledger.blinded = work.blinded
  /\ CanonicalFills(fills)
  /\ cursor \in 1..(Len(fills) + 1)
  /\ CashSum(work) = CashSum(ledger) + NetCash(fills, cursor - 1)
  /\ \A i \in Instruments :
       InvSum(work, i) = InvSum(ledger, i)
         + (IF i \in TouchedInstruments(fills)
            THEN NetQty(fills, cursor - 1) ELSE 0)
  /\ \A a \in Account :
       /\ work.cash[a] = ledger.cash[a] + OwnCash(fills, a, cursor - 1)
       /\ \A i \in Instruments :
            work.inv[i][a] = ledger.inv[i][a]
              + (IF i \in TouchedInstruments(fills)
                 THEN OwnQty(fills, a, cursor - 1) ELSE 0)

SettlementIInv ==
  /\ SettlementTypeOK
  /\ WellFormed(ledger)
  /\ WellFormed(work)
  /\ phase = "applying" => InFlight
  /\ ConservationOnlyFailsOnWidth

----------------------------------------------------------------------------
(***************************************************************************)
(* One fill                                                                *)
(***************************************************************************)
LEMMA ProductPositive ==
  ASSUME NEW p \in Nat \ {0}, NEW q \in Nat \ {0}
  PROVE  p * q >= 1
  OBVIOUS

\* What the guards of a settling fill amount to.
LEMMA SettlesBounds ==
  ASSUME NEW l \in LedgerType, NEW f \in FillType, Settles(l, f)
  PROVE  /\ l.cash[f.account] + CashEffect(f) \in Money
         /\ l.inv[f.instrument][f.account] + QtyEffect(f) \in Qty
<1> DEFINE c == l.cash[f.account]
           h == l.inv[f.instrument][f.account]
           k == f.consideration
           q == f.fill_qty
<1>1. /\ c \in Money /\ h \in Qty /\ k \in Money /\ q \in Qty
      /\ f.side \in {"Buy", "Sell"}
  <2>1. /\ f.account \in Account /\ f.instrument \in Instruments
        /\ f.side \in Sides /\ k \in Money /\ q \in Price
    BY DEF FillType
  <2>2. c \in Money /\ h \in Qty
    BY <2>1 DEF LedgerType
  <2>3. QED
    BY <2>1, <2>2, WordWidth DEF Sides, Price, Qty
<1>2. CASE f.side = "Buy"
  <2>1. CheckedSub(c, k) # Err /\ CheckedAdd(h, q, MaxRaw) # Err
    BY <1>2 DEF Settles
  <2>2. c >= k /\ h <= MaxRaw - q
    BY <2>1, <1>1, WordWidth, MoneyWidth DEF CheckedSub, CheckedAdd, Err, Money, Qty
  <2>3. c - k \in Money /\ h + q \in Qty
    BY <2>2, <1>1, WordWidth, MoneyWidth DEF Money, Qty
  <2>4. c + (-k) = c - k
    BY <1>1, MoneyWidth DEF Money
  <2>5. QED
    BY <1>2, <2>3, <2>4 DEF CashEffect, QtyEffect
<1>3. CASE f.side = "Sell"
  <2>1. CheckedSub(h, q) # Err /\ CheckedAdd(c, k, MaxMoney) # Err
    BY <1>3 DEF Settles
  <2>2. h >= q /\ c <= MaxMoney - k
    BY <2>1, <1>1, WordWidth, MoneyWidth DEF CheckedSub, CheckedAdd, Err, Money, Qty
  <2>3. h - q \in Qty /\ c + k \in Money
    BY <2>2, <1>1, WordWidth, MoneyWidth DEF Money, Qty
  <2>4. h + (-q) = h - q
    BY <1>1, WordWidth DEF Qty
  <2>5. QED
    BY <1>3, <2>3, <2>4 DEF CashEffect, QtyEffect
<1>4. QED
  BY <1>1, <1>2, <1>3

LEMMA EffectTypes ==
  ASSUME NEW f \in FillType
  PROVE  CashEffect(f) \in Int /\ QtyEffect(f) \in Int
  BY WordWidth, MoneyWidth DEF FillType, CashEffect, QtyEffect, Money, Price, Sides

\* A settling fill of positive value belongs to an account of the ledger.
LEMMA SettlingAccountExists ==
  ASSUME NEW l, WellFormed(l), NEW f \in FillType,
         f.consideration >= 1, Settles(l, f)
  PROVE  f.account \in l.accounts
<1>1. SUFFICES ASSUME f.account \notin l.accounts PROVE FALSE
  OBVIOUS
<1>2. /\ f.account \in Account /\ f.instrument \in Instruments
      /\ f.consideration \in Nat /\ f.fill_qty \in Nat /\ f.fill_qty >= 1
  BY WordWidth, MoneyWidth DEF FillType, Price, Money
<1>3. l.cash[f.account] = 0 /\ l.inv[f.instrument][f.account] = 0
  BY <1>1, <1>2 DEF WellFormed
<1>4. \/ CheckedSub(0, f.consideration) # Err
      \/ CheckedSub(0, f.fill_qty) # Err
  BY <1>3 DEF Settles
<1>5. QED
  BY <1>2, <1>4 DEF CheckedSub

\* The ledger a settling fill leaves.
LEMMA SettledLedger ==
  ASSUME NEW l, WellFormed(l), NEW f \in FillType,
         f.account \in l.accounts, Settles(l, f)
  PROVE  LET m == SettleFill(l, f)
         IN  /\ WellFormed(m)
             /\ m.accounts = l.accounts
             /\ m.blinded = l.blinded
             /\ m.cash = [l.cash EXCEPT ![f.account] = @ + CashEffect(f)]
             /\ m.inv = [l.inv EXCEPT ![f.instrument][f.account] = @ + QtyEffect(f)]
<1> DEFINE m == SettleFill(l, f)
<1>1. l \in LedgerType /\ f.account \in Account /\ f.instrument \in Instruments
  BY DEF WellFormed, FillType
<1>2. /\ l.cash[f.account] + CashEffect(f) \in Money
      /\ l.inv[f.instrument][f.account] + QtyEffect(f) \in Qty
  BY <1>1, SettlesBounds
<1>3. l.accounts \cup {f.account} = l.accounts
  OBVIOUS
<1>4. /\ m.accounts = l.accounts
      /\ m.blinded = l.blinded
      /\ m.cash = [l.cash EXCEPT ![f.account] = @ + CashEffect(f)]
      /\ m.inv = [l.inv EXCEPT ![f.instrument][f.account] = @ + QtyEffect(f)]
  BY <1>1, <1>3 DEF SettleFill, GetOrCreateAccount, LedgerType
<1>5. m \in LedgerType
  BY <1>1, <1>2, <1>3 DEF SettleFill, GetOrCreateAccount, LedgerType
<1>6. WellFormed(m)
  BY <1>1, <1>4, <1>5 DEF WellFormed, LedgerType
<1>7. QED
  BY <1>4, <1>6

\* ... and its totals.
LEMMA SettledTotals ==
  ASSUME NEW l, WellFormed(l), NEW f \in FillType,
         f.account \in l.accounts, Settles(l, f)
  PROVE  LET m == SettleFill(l, f)
         IN  /\ CashSum(m) = CashSum(l) + CashEffect(f)
             /\ \A i \in Instruments :
                  InvSum(m, i) = InvSum(l, i)
                    + (IF i = f.instrument THEN QtyEffect(f) ELSE 0)
<1> DEFINE m == SettleFill(l, f)
           a == f.account
<1>1. /\ WellFormed(m)
      /\ m.cash = [l.cash EXCEPT ![a] = @ + CashEffect(f)]
      /\ m.inv = [l.inv EXCEPT ![f.instrument][a] = @ + QtyEffect(f)]
  BY SettledLedger
<1> HIDE DEF m
<1>2. /\ l \in LedgerType /\ m \in LedgerType
      /\ a \in 1..NumAccounts /\ f.instrument \in Instruments
      /\ NumAccounts \in Nat
  BY <1>1, AccountRange DEF WellFormed, FillType, Account
<1>3. CashEffect(f) \in Int /\ QtyEffect(f) \in Int
  BY EffectTypes
<1>4. CashSum(m) = CashSum(l) + CashEffect(f)
  <2>1. \A b \in 1..NumAccounts : l.cash[b] \in Int /\ m.cash[b] \in Int
    BY <1>2, MoneyWidth DEF LedgerType, Account, Money
  <2>2. \A b \in 1..NumAccounts : b # a => m.cash[b] = l.cash[b]
    BY <1>1, <1>2 DEF LedgerType, Account
  <2>3. m.cash[a] - l.cash[a] = CashEffect(f)
    <3>1. m.cash[a] = l.cash[a] + CashEffect(f)
      BY <1>1, <1>2 DEF LedgerType, Account
    <3>2. QED
      BY <3>1, <2>1, <1>2, <1>3
  <2>4. Total(m.cash, NumAccounts)
          = Total(l.cash, NumAccounts) + (m.cash[a] - l.cash[a])
    BY <2>1, <2>2, <1>2, TotalUpdate
  <2>5. QED
    BY <2>3, <2>4 DEF CashSum
<1>5. ASSUME NEW i \in Instruments
      PROVE  InvSum(m, i) = InvSum(l, i)
               + (IF i = f.instrument THEN QtyEffect(f) ELSE 0)
  <2>1. \A b \in 1..NumAccounts : l.inv[i][b] \in Int /\ m.inv[i][b] \in Int
    BY <1>2, WordWidth DEF LedgerType, Account, Qty
  <2>2. CASE i # f.instrument
    <3>1. m.inv[i] = l.inv[i]
      BY <1>1, <1>2, <2>2 DEF LedgerType
    <3>2. Total(l.inv[i], NumAccounts) \in Int
      BY <2>1, <1>2, TotalInt
    <3>3. QED
      BY <3>1, <3>2, <2>2 DEF InvSum
  <2>3. CASE i = f.instrument
    <3>1. \A b \in 1..NumAccounts : b # a => m.inv[i][b] = l.inv[i][b]
      BY <1>1, <1>2, <2>3 DEF LedgerType, Account
    <3>2. m.inv[i][a] - l.inv[i][a] = QtyEffect(f)
      <4>1. m.inv[i][a] = l.inv[i][a] + QtyEffect(f)
        BY <1>1, <1>2, <2>3 DEF LedgerType, Account
      <4>2. QED
        BY <4>1, <2>1, <1>2, <1>3
    <3>3. Total(m.inv[i], NumAccounts)
            = Total(l.inv[i], NumAccounts) + (m.inv[i][a] - l.inv[i][a])
      BY <2>1, <3>1, <1>2, TotalUpdate
    <3>4. QED
      BY <3>2, <3>3, <2>3 DEF InvSum
  <2>4. QED
    BY <2>2, <2>3
<1>6. QED
  BY <1>4, <1>5 DEF m

----------------------------------------------------------------------------
(***************************************************************************)
(* The effects of one more fill.                                           *)
(***************************************************************************)
LEMMA NetStart ==
  ASSUME NEW fs, NEW a
  PROVE  /\ NetCash(fs, 0) = 0 /\ NetQty(fs, 0) = 0
         /\ OwnCash(fs, a, 0) = 0 /\ OwnQty(fs, a, 0) = 0
  BY TotalZero DEF NetCash, NetQty, OwnCash, OwnQty

LEMMA NetStep ==
  ASSUME NEW fs \in Seq(FillType), NEW n \in Nat, n + 1 <= Len(fs)
  PROVE  /\ NetCash(fs, n) \in Int /\ NetQty(fs, n) \in Int
         /\ NetCash(fs, n + 1) = NetCash(fs, n) + CashEffect(fs[n + 1])
         /\ NetQty(fs, n + 1) = NetQty(fs, n) + QtyEffect(fs[n + 1])
<1> DEFINE c == [k \in 1..Len(fs) |-> CashEffect(fs[k])]
           q == [k \in 1..Len(fs) |-> QtyEffect(fs[k])]
<1>1. \A k \in 1..Len(fs) : fs[k] \in FillType
  OBVIOUS
<1>2. \A k \in 1..Len(fs) : c[k] \in Int /\ q[k] \in Int
  BY <1>1, EffectTypes
<1>3. \A k \in 1..(n + 1) : k \in 1..Len(fs)
  OBVIOUS
<1>4. c[n + 1] = CashEffect(fs[n + 1]) /\ q[n + 1] = QtyEffect(fs[n + 1])
  BY <1>3
<1> HIDE DEF c, q
<1>5. /\ Total(c, n) \in Int /\ Total(q, n) \in Int
      /\ Total(c, n + 1) = Total(c, n) + c[n + 1]
      /\ Total(q, n + 1) = Total(q, n) + q[n + 1]
  BY <1>2, <1>3, TotalStep
<1>6. QED
  BY <1>4, <1>5 DEF NetCash, NetQty, c, q

LEMMA OwnStep ==
  ASSUME NEW fs \in Seq(FillType), NEW n \in Nat, n + 1 <= Len(fs), NEW a
  PROVE  /\ OwnCash(fs, a, n) \in Int /\ OwnQty(fs, a, n) \in Int
         /\ OwnCash(fs, a, n + 1) = OwnCash(fs, a, n)
              + (IF fs[n + 1].account = a THEN CashEffect(fs[n + 1]) ELSE 0)
         /\ OwnQty(fs, a, n + 1) = OwnQty(fs, a, n)
              + (IF fs[n + 1].account = a THEN QtyEffect(fs[n + 1]) ELSE 0)
<1> DEFINE c == [k \in 1..Len(fs) |->
                   IF fs[k].account = a THEN CashEffect(fs[k]) ELSE 0]
           q == [k \in 1..Len(fs) |->
                   IF fs[k].account = a THEN QtyEffect(fs[k]) ELSE 0]
<1>1. \A k \in 1..Len(fs) : fs[k] \in FillType
  OBVIOUS
<1>2. \A k \in 1..Len(fs) : c[k] \in Int /\ q[k] \in Int
  BY <1>1, EffectTypes
<1>3. \A k \in 1..(n + 1) : k \in 1..Len(fs)
  OBVIOUS
<1>4. /\ c[n + 1] = IF fs[n + 1].account = a THEN CashEffect(fs[n + 1]) ELSE 0
      /\ q[n + 1] = IF fs[n + 1].account = a THEN QtyEffect(fs[n + 1]) ELSE 0
  BY <1>3
<1> HIDE DEF c, q
<1>5. /\ Total(c, n) \in Int /\ Total(q, n) \in Int
      /\ Total(c, n + 1) = Total(c, n) + c[n + 1]
      /\ Total(q, n + 1) = Total(q, n) + q[n + 1]
  BY <1>2, <1>3, TotalStep
<1>6. QED
  BY <1>4, <1>5 DEF OwnCash, OwnQty, c, q

LEMMA SumTypes ==
  ASSUME NEW l \in LedgerType
  PROVE  CashSum(l) \in Nat /\ \A i \in Instruments : InvSum(l, i) \in Nat
<1>1. CashSum(l) \in Nat
  <2>1. \A b \in 1..NumAccounts : l.cash[b] \in Nat
    BY AccountRange, MoneyWidth DEF LedgerType, Account, Money
  <2>2. QED
    BY <2>1, AccountRange, TotalNat DEF CashSum
<1>2. ASSUME NEW i \in Instruments PROVE InvSum(l, i) \in Nat
  <2>1. \A b \in 1..NumAccounts : l.inv[i][b] \in Nat
    BY AccountRange, WordWidth DEF LedgerType, Account, Qty
  <2>2. QED
    BY <2>1, AccountRange, TotalNat DEF InvSum
<1>3. QED
  BY <1>1, <1>2

----------------------------------------------------------------------------
(***************************************************************************)
(* Each action preserves the invariant.                                    *)
(***************************************************************************)
LEMMA InitEstablishes == SettlementInit => SettlementIInv
<1>1. SUFFICES ASSUME SettlementInit PROVE SettlementIInv
  OBVIOUS
<1>2. WellFormed(ledger) /\ work = ledger
  BY <1>1, InitialLedgersOK DEF SettlementInit
<1>3. SettlementTypeOK
  BY <1>1, <1>2 DEF SettlementInit, SettlementTypeOK, WellFormed
<1>4. QED
  BY <1>1, <1>2, <1>3 DEF SettlementInit, SettlementIInv, ConservationOnlyFailsOnWidth

LEMMA BeginPreserves == SettlementIInv /\ Begin => SettlementIInv'
<1>1. SUFFICES ASSUME SettlementIInv, Begin PROVE SettlementIInv'
  OBVIOUS
<1>2. /\ ledger' = ledger /\ work' = ledger /\ cursor' = 1 /\ verdict' = verdict
      /\ fills' \in Seq(FillType) /\ CanonicalFills(fills') /\ phase' = "applying"
  BY <1>1, FillListsOK DEF Begin
<1>3. WellFormed(ledger) /\ SettlementTypeOK
  BY <1>1 DEF SettlementIInv
<1>4. SettlementTypeOK'
  BY <1>2, <1>3 DEF SettlementTypeOK
<1>5. InFlight'
  <2>1. cursor' \in 1..(Len(fills') + 1) /\ cursor' - 1 = 0
    BY <1>2
  <2>2. /\ NetCash(fills', 0) = 0 /\ NetQty(fills', 0) = 0
        /\ \A a \in Account : OwnCash(fills', a, 0) = 0 /\ OwnQty(fills', a, 0) = 0
    BY NetStart
  <2>3. CashSum(ledger) \in Int /\ \A i \in Instruments : InvSum(ledger, i) \in Int
    BY <1>3, SumTypes DEF SettlementTypeOK
  <2>4. \A a \in Account : /\ ledger.cash[a] \in Int
                           /\ \A i \in Instruments : ledger.inv[i][a] \in Int
    BY <1>3, WordWidth, MoneyWidth DEF WellFormed, LedgerType, Money, Qty
  <2>5. QED
    BY <1>2, <2>1, <2>2, <2>3, <2>4 DEF InFlight
<1>6. ConservationOnlyFailsOnWidth'
  BY <1>1, <1>2 DEF SettlementIInv, ConservationOnlyFailsOnWidth
<1>7. QED
  BY <1>2, <1>3, <1>4, <1>5, <1>6 DEF SettlementIInv

LEMMA ApplyFillPreserves == SettlementIInv /\ ApplyFill => SettlementIInv'
<1>1. SUFFICES ASSUME SettlementIInv, ApplyFill PROVE SettlementIInv'
  OBVIOUS
<1> DEFINE f == fills[cursor]
           n == cursor - 1
<1>2. /\ phase = "applying" /\ InFlight /\ Settles(work, f)
      /\ work' = SettleFill(work, f) /\ cursor' = cursor + 1
      /\ ledger' = ledger /\ fills' = fills /\ phase' = phase
      /\ verdict' = verdict
      /\ WellFormed(ledger) /\ WellFormed(work) /\ SettlementTypeOK
  BY <1>1 DEF ApplyFill, SettlementIInv
<1>3. /\ fills \in Seq(FillType) /\ cursor \in Nat /\ cursor <= Len(fills)
      /\ cursor \in 1..Len(fills) /\ CanonicalFills(fills)
  BY <1>1, <1>2 DEF ApplyFill, SettlementTypeOK, InFlight
<1>4. /\ f \in FillType /\ n \in Nat /\ n + 1 = cursor /\ cursor' - 1 = n + 1
      /\ n + 1 <= Len(fills)
  BY <1>2, <1>3
<1>5. f.consideration >= 1
  <2>1. f.execution_price \in Nat \ {0} /\ f.fill_qty \in Nat \ {0}
    BY <1>4, WordWidth DEF FillType, Price
  <2>2. f.consideration = f.execution_price * f.fill_qty
    BY <1>3 DEF CanonicalFills
  <2>3. QED
    BY <2>1, <2>2, ProductPositive
<1> HIDE DEF f
<1>6. f.account \in work.accounts
  BY <1>2, <1>4, <1>5, SettlingAccountExists
<1>7. /\ WellFormed(work')
      /\ work'.accounts = work.accounts
      /\ work'.blinded = work.blinded
      /\ work'.cash = [work.cash EXCEPT ![f.account] = @ + CashEffect(f)]
      /\ work'.inv = [work.inv EXCEPT ![f.instrument][f.account] = @ + QtyEffect(f)]
  BY <1>2, <1>4, <1>6, SettledLedger
<1>8. /\ CashSum(work') = CashSum(work) + CashEffect(f)
      /\ \A i \in Instruments :
           InvSum(work', i) = InvSum(work, i)
             + (IF i = f.instrument THEN QtyEffect(f) ELSE 0)
  BY <1>2, <1>4, <1>6, SettledTotals
<1>9. SettlementTypeOK'
  BY <1>2, <1>3, <1>7 DEF SettlementTypeOK, WellFormed
<1>10. ConservationOnlyFailsOnWidth'
  BY <1>1, <1>2 DEF SettlementIInv, ConservationOnlyFailsOnWidth
<1>11. InFlight'
  <2> USE DEF f
  <2>1. TouchedInstruments(fills) = {f.instrument}
    BY <1>3 DEF CanonicalFills, TouchedInstruments
  <2>2. CashEffect(f) \in Int /\ QtyEffect(f) \in Int
    BY <1>4, EffectTypes
  <2>3. /\ NetCash(fills, n) \in Int /\ NetQty(fills, n) \in Int
        /\ NetCash(fills, n + 1) = NetCash(fills, n) + CashEffect(f)
        /\ NetQty(fills, n + 1) = NetQty(fills, n) + QtyEffect(f)
    BY <1>3, <1>4, NetStep
  <2>4. \A a \in Account :
          /\ OwnCash(fills, a, n) \in Int /\ OwnQty(fills, a, n) \in Int
          /\ OwnCash(fills, a, n + 1) = OwnCash(fills, a, n)
               + (IF f.account = a THEN CashEffect(f) ELSE 0)
          /\ OwnQty(fills, a, n + 1) = OwnQty(fills, a, n)
               + (IF f.account = a THEN QtyEffect(f) ELSE 0)
    BY <1>3, <1>4, OwnStep
  <2> HIDE DEF f
  <2>5. /\ CashSum(ledger) \in Int /\ CashSum(work) \in Int
        /\ \A i \in Instruments :
             InvSum(ledger, i) \in Int /\ InvSum(work, i) \in Int
    BY <1>2, SumTypes DEF SettlementTypeOK
  <2>6. \A a \in Account :
          /\ ledger.cash[a] \in Int /\ work.cash[a] \in Int
          /\ \A i \in Instruments :
               ledger.inv[i][a] \in Int /\ work.inv[i][a] \in Int
    <3>1. \A a \in Account : ledger.cash[a] \in Int /\ work.cash[a] \in Int
      BY <1>2, MoneyWidth DEF SettlementTypeOK, LedgerType, Money
    <3>2. \A a \in Account : \A i \in Instruments :
            ledger.inv[i][a] \in Int /\ work.inv[i][a] \in Int
      BY <1>2, WordWidth DEF SettlementTypeOK, LedgerType, Qty
    <3>3. QED
      BY <3>1, <3>2
  <2>7. /\ (ledger.accounts = work.accounts)'
        /\ (ledger.blinded = work.blinded)'
        /\ CanonicalFills(fills')
        /\ cursor' \in 1..(Len(fills') + 1)
    BY <1>2, <1>3, <1>7 DEF InFlight
  <2>8. CashSum(work') = CashSum(ledger') + NetCash(fills', cursor' - 1)
    <3>1. CashSum(work) = CashSum(ledger) + NetCash(fills, n)
      BY <1>2 DEF InFlight
    <3>2. CashSum(work') = CashSum(ledger) + NetCash(fills, n + 1)
      BY <3>1, <1>8, <2>2, <2>3, <2>5
    <3>3. QED
      BY <3>2, <1>2, <1>4
  <2>9. ASSUME NEW i \in Instruments
        PROVE  InvSum(work', i) = InvSum(ledger', i)
                 + (IF i \in TouchedInstruments(fills')
                    THEN NetQty(fills', cursor' - 1) ELSE 0)
    <3>1. InvSum(work, i) = InvSum(ledger, i)
            + (IF i = f.instrument THEN NetQty(fills, n) ELSE 0)
      BY <1>2, <2>1 DEF InFlight
    <3>2. InvSum(work', i) = InvSum(ledger, i)
            + (IF i = f.instrument THEN NetQty(fills, n + 1) ELSE 0)
      BY <3>1, <1>8, <2>2, <2>3, <2>5
    <3>3. QED
      BY <3>2, <2>1, <1>2, <1>4
  <2>10. ASSUME NEW a \in Account
         PROVE  work'.cash[a] = ledger'.cash[a] + OwnCash(fills', a, cursor' - 1)
    <3>1. work.cash[a] = ledger.cash[a] + OwnCash(fills, a, n)
      BY <1>2 DEF InFlight
    <3>2. work'.cash[a] = work.cash[a] + (IF f.account = a THEN CashEffect(f) ELSE 0)
      <4>1. DOMAIN work.cash = Account
        BY <1>2 DEF SettlementTypeOK, LedgerType
      <4>2. QED
        BY <4>1, <1>7, <2>6
    <3>3. work'.cash[a] = ledger.cash[a] + OwnCash(fills, a, n + 1)
      BY <3>1, <3>2, <2>2, <2>4, <2>6
    <3>4. QED
      BY <3>3, <1>2, <1>4
  <2>11. ASSUME NEW a \in Account, NEW i \in Instruments
         PROVE  work'.inv[i][a] = ledger'.inv[i][a]
                  + (IF i \in TouchedInstruments(fills')
                     THEN OwnQty(fills', a, cursor' - 1) ELSE 0)
    <3>1. work.inv[i][a] = ledger.inv[i][a]
            + (IF i = f.instrument THEN OwnQty(fills, a, n) ELSE 0)
      BY <1>2, <2>1 DEF InFlight
    <3>2. work'.inv[i][a] = work.inv[i][a]
            + (IF i = f.instrument /\ f.account = a THEN QtyEffect(f) ELSE 0)
      <4>1. DOMAIN work.inv = Instruments /\ DOMAIN work.inv[i] = Account
        BY <1>2 DEF SettlementTypeOK, LedgerType
      <4>2. QED
        BY <4>1, <1>7, <2>6
    <3>3. work'.inv[i][a] = ledger.inv[i][a]
            + (IF i = f.instrument THEN OwnQty(fills, a, n + 1) ELSE 0)
      BY <3>1, <3>2, <2>2, <2>4, <2>6
    <3>4. QED
      BY <3>3, <2>1, <1>2, <1>4
  <2>12. QED
    BY <2>7, <2>8, <2>9, <2>10, <2>11 DEF InFlight
<1>12. QED
  BY <1>2, <1>7, <1>9, <1>10, <1>11 DEF SettlementIInv

\* Whatever is returned is a well-formed ledger, and the loop's locals go.
LEMMA ReturnPreserves ==
  ASSUME NEW l, WellFormed(l), SettlementIInv,
         NEW how \in {"committed", "fill_failed", "not_conserved"},
         Return(l, how), ConservationOnlyFailsOnWidth'
  PROVE  SettlementIInv'
<1>1. /\ ledger' = l /\ work' = l /\ fills' = << >> /\ cursor' = 1
      /\ phase' = "idle" /\ verdict' = how
  BY DEF Return
<1>2. SettlementTypeOK'
  BY <1>1 DEF SettlementTypeOK, WellFormed
<1>3. QED
  BY <1>1, <1>2 DEF SettlementIInv

\* At the end of the loop the totals are back where they were.
LEMMA TotalsRestored ==
  ASSUME SettlementIInv, phase = "applying", cursor = Len(fills) + 1
  PROVE  /\ CashSum(work) = CashSum(ledger)
         /\ \A i \in Instruments : InvSum(work, i) = InvSum(ledger, i)
<1>1. InFlight /\ SettlementTypeOK
  BY DEF SettlementIInv
<1>2. cursor - 1 = Len(fills) /\ Len(fills) \in Nat
  BY <1>1 DEF SettlementTypeOK
<1>3. NetCash(fills, cursor - 1) = 0 /\ NetQty(fills, cursor - 1) = 0
  BY <1>1, <1>2 DEF InFlight, CanonicalFills
<1>4. CashSum(ledger) \in Int /\ \A i \in Instruments : InvSum(ledger, i) \in Int
  BY <1>1, SumTypes DEF SettlementTypeOK
<1>5. QED
  BY <1>1, <1>3, <1>4 DEF InFlight

LEMMA FailConservationWidth ==
  ASSUME SettlementIInv, FailConservation
  PROVE  ConservationOnlyFailsOnWidth'
<1>1. /\ phase = "applying" /\ cursor = Len(fills) + 1 /\ ledger' = ledger
      /\ ~(CashConserved(ledger, work) /\ AssetsConserved(ledger, work, fills))
  BY DEF FailConservation, Return, Conserved
<1>2. /\ CashSum(work) = CashSum(ledger)
      /\ \A i \in Instruments : InvSum(work, i) = InvSum(ledger, i)
  BY <1>1, TotalsRestored
<1>3. CASE ~CashConserved(ledger, work)
  <2>1. TotalCash(work) = TotalCash(ledger)
    BY <1>2 DEF TotalCash, CashSum, CheckedTotal
  <2>2. TotalCash(ledger) = Err
    BY <1>3, <2>1 DEF CashConserved
  <2>3. CashSum(ledger) \in Nat
    BY SumTypes DEF SettlementIInv, SettlementTypeOK
  <2>4. CashSum(ledger) > MaxMoney
    BY <2>2, <2>3 DEF TotalCash, CashSum, CheckedTotal, Err
  <2>5. QED
    BY <2>4, <1>1 DEF ConservationOnlyFailsOnWidth
<1>4. CASE ~AssetsConserved(ledger, work, fills)
  <2>1. PICK i \in TouchedInstruments(fills) :
          ~(/\ Err \notin {TotalInventoryOf(ledger, i), TotalInventoryOf(work, i)}
            /\ TotalInventoryOf(ledger, i) = TotalInventoryOf(work, i))
    BY <1>4 DEF AssetsConserved
  <2>2. i \in Instruments
    <3>1. fills \in Seq(FillType)
      BY DEF SettlementIInv, SettlementTypeOK
    <3>2. PICK k \in 1..Len(fills) : i = fills[k].instrument
      BY <2>1 DEF TouchedInstruments
    <3>3. fills[k] \in FillType
      BY <3>1
    <3>4. QED
      BY <3>2, <3>3 DEF FillType
  <2>3. TotalInventoryOf(work, i) = TotalInventoryOf(ledger, i)
    BY <1>2, <2>2 DEF TotalInventoryOf, InvSum, CheckedTotal
  <2>4. TotalInventoryOf(ledger, i) = Err
    BY <2>1, <2>3
  <2>5. InvSum(ledger, i) \in Nat
    BY <2>2, SumTypes DEF SettlementIInv, SettlementTypeOK
  <2>6. InvSum(ledger, i) > MaxRaw
    BY <2>4, <2>5 DEF TotalInventoryOf, InvSum, CheckedTotal, Err
  <2>7. QED
    BY <2>2, <2>6, <1>1 DEF ConservationOnlyFailsOnWidth
<1>5. QED
  BY <1>1, <1>3, <1>4

LEMMA NextPreserves ==
  SettlementIInv /\ [SettlementNext]_settlementVars => SettlementIInv'
<1>1. SUFFICES ASSUME SettlementIInv, [SettlementNext]_settlementVars
               PROVE  SettlementIInv'
  OBVIOUS
<1>2. WellFormed(ledger) /\ WellFormed(work)
  BY <1>1 DEF SettlementIInv
<1>3. CASE Begin
  BY <1>1, <1>3, BeginPreserves
<1>4. CASE ApplyFill
  BY <1>1, <1>4, ApplyFillPreserves
<1>5. CASE FailFill
  <2>1. Return(ledger, "fill_failed")
    BY <1>5 DEF FailFill
  <2>2. ConservationOnlyFailsOnWidth'
    BY <2>1 DEF Return, ConservationOnlyFailsOnWidth
  <2>3. QED
    BY <1>1, <1>2, <2>1, <2>2, ReturnPreserves
<1>6. CASE Commit
  <2>1. Return(work, "committed")
    BY <1>6 DEF Commit
  <2>2. ConservationOnlyFailsOnWidth'
    BY <2>1 DEF Return, ConservationOnlyFailsOnWidth
  <2>3. QED
    BY <1>1, <1>2, <2>1, <2>2, ReturnPreserves
<1>7. CASE FailConservation
  <2>1. Return(ledger, "not_conserved")
    BY <1>7 DEF FailConservation
  <2>2. ConservationOnlyFailsOnWidth'
    BY <1>1, <1>7, FailConservationWidth
  <2>3. QED
    BY <1>1, <1>2, <2>1, <2>2, ReturnPreserves
<1>8. CASE UNCHANGED settlementVars
  BY <1>1, <1>8 DEF settlementVars, SettlementIInv, SettlementTypeOK, InFlight,
                    ConservationOnlyFailsOnWidth
<1>9. QED
  BY <1>1, <1>3, <1>4, <1>5, <1>6, <1>7, <1>8 DEF SettlementNext, Settle

----------------------------------------------------------------------------
(***************************************************************************)
(* Theorems                                                                *)
(***************************************************************************)
\* The inductive invariant holds of every state of apply_batch_transition.
THEOREM Invariance == SettlementSpec => []SettlementIInv
<1>1. SettlementInit => SettlementIInv
  BY InitEstablishes
<1>2. SettlementIInv /\ [SettlementNext]_settlementVars => SettlementIInv'
  BY NextPreserves
<1>3. QED
  BY <1>1, <1>2, PTL DEF SettlementSpec

\* Every state and working copy is a ledger: no balance leaves its width.
THEOREM Typing == SettlementSpec => []SettlementTypeOK
<1>1. SettlementIInv => SettlementTypeOK
  BY DEF SettlementIInv
<1>2. QED
  BY <1>1, Invariance, PTL

\* Mid-loop the copy differs from the state by exactly the fills applied.
THEOREM Balance == SettlementSpec => []InFlightBalance
<1>1. SettlementIInv => InFlightBalance
  BY DEF SettlementIInv, InFlight, InFlightBalance
<1>2. QED
  BY <1>1, Invariance, PTL

\* get_or_create_account never creates one on a path that settles.
THEOREM AccountsStay == SettlementSpec => []NoAccountAppears
<1>1. SettlementIInv => NoAccountAppears
  BY DEF SettlementIInv, InFlight, NoAccountAppears
<1>2. QED
  BY <1>1, Invariance, PTL

\* The conservation checks can only be tripped by the ledger's own width.
THEOREM ChecksFireOnWidth == SettlementSpec => []ConservationOnlyFailsOnWidth
<1>1. SettlementIInv => ConservationOnlyFailsOnWidth
  BY DEF SettlementIInv
<1>2. QED
  BY <1>1, Invariance, PTL

\* Only Commit changes the adopted ledger.
LEMMA OnlyCommitMoves ==
  ASSUME [SettlementNext]_settlementVars, ledger' # ledger
  PROVE  Commit
  BY DEF SettlementNext, Settle, Begin, ApplyFill, FailFill, FailConservation,
         Return, settlementVars

\* A committed batch moves every account by the net of its own fills.
THEOREM CommitsWholeBatch == SettlementSpec => CommitAppliesEveryFillOnce
<1> DEFINE Moved == \A a \in Account :
             /\ ledger'.cash[a] = ledger.cash[a] + OwnCash(fills, a, Len(fills))
             /\ \A i \in Instruments :
                  ledger'.inv[i][a] = ledger.inv[i][a]
                    + (IF i \in TouchedInstruments(fills)
                       THEN OwnQty(fills, a, Len(fills)) ELSE 0)
<1>1. SettlementIInv /\ [SettlementNext]_settlementVars => [Moved]_ledger
  <2>1. SUFFICES ASSUME SettlementIInv, [SettlementNext]_settlementVars,
                        ledger' # ledger
                 PROVE  Moved
    OBVIOUS
  <2>2. Commit
    BY <2>1, OnlyCommitMoves
  <2>3. /\ ledger' = work /\ cursor = Len(fills) + 1 /\ InFlight
        /\ Len(fills) \in Nat
    BY <2>1, <2>2 DEF Commit, Return, SettlementIInv, SettlementTypeOK
  <2>4. cursor - 1 = Len(fills)
    BY <2>3
  <2>5. QED
    BY <2>3, <2>4 DEF InFlight
<1>2. QED
  BY <1>1, Invariance, PTL DEF SettlementSpec, CommitAppliesEveryFillOnce

\* To its users the ledger only ever redistributes what it holds.
THEOREM Refinement == SettlementSpec => RefinesLedgerSpec
<1>0. /\ Promised!LedgerType = LedgerType
      /\ \A l : Promised!CashSum(l) = CashSum(l)
      /\ \A l, i : Promised!InvSum(l, i) = InvSum(l, i)
  <2>1. Promised!LedgerType = LedgerType
    BY DEF Promised!LedgerType, Promised!Account, Promised!Money, Promised!Qty,
           LedgerType, Account, Money, Qty
  <2>2. \A l : Promised!CashSum(l) = CashSum(l)
    BY DEF Promised!CashSum, Promised!Total, CashSum, Total
  <2>3. \A l, i : Promised!InvSum(l, i) = InvSum(l, i)
    BY DEF Promised!InvSum, Promised!Total, InvSum, Total
  <2>4. QED
    BY <2>1, <2>2, <2>3
<1>1. SettlementInit => Promised!SpecInit
  BY <1>0, InitialLedgersOK DEF SettlementInit, WellFormed, Promised!SpecInit
<1>2. SettlementIInv /\ [SettlementNext]_settlementVars
        => [Promised!Redistribute]_ledger
  <2>1. SUFFICES ASSUME SettlementIInv, [SettlementNext]_settlementVars,
                        ledger' # ledger
                 PROVE  Promised!Redistribute
    OBVIOUS
  <2>2. Commit
    BY <2>1, OnlyCommitMoves
  <2>3. /\ ledger' = work /\ phase = "applying" /\ cursor = Len(fills) + 1
        /\ InFlight /\ work \in LedgerType
    BY <2>1, <2>2 DEF Commit, Return, SettlementIInv, SettlementTypeOK
  <2>4. /\ CashSum(work) = CashSum(ledger)
        /\ \A i \in Instruments : InvSum(work, i) = InvSum(ledger, i)
    BY <2>1, <2>3, TotalsRestored
  <2>5. QED
    BY <1>0, <2>3, <2>4 DEF InFlight, Promised!Redistribute
<1>3. QED
  BY <1>1, <1>2, Invariance, PTL
    DEF SettlementSpec, RefinesLedgerSpec, Promised!ConservativeLedger

----------------------------------------------------------------------------
(***************************************************************************)
(* The loop cannot go round for ever.                                      *)
(***************************************************************************)
\* The iterations that are left, and the return.
SettlementTurnsLeft == IF phase = "idle" THEN 0 ELSE Len(fills) + 2 - cursor

\* apply_batch_transition (engine/transition.cpp): every iteration and every
\* return lowers a natural number, so a settlement that keeps taking steps is
\* over after as many as it has fills and one more.  With the fairness of
\* FairSettlement this is why EverySettlementEnds holds.
THEOREM SettlementWindsDown ==
  SettlementSpec =>
    /\ [](SettlementTurnsLeft \in Nat /\ (SettlementTurnsLeft = 0 <=> phase = "idle"))
    /\ [][phase = "applying" => SettlementTurnsLeft' < SettlementTurnsLeft]_settlementVars
<1>1. SettlementIInv
        => /\ Len(fills) \in Nat /\ phase \in {"idle", "applying"}
           /\ phase = "applying" => cursor \in 1..(Len(fills) + 1)
  BY DEF SettlementIInv, SettlementTypeOK, InFlight
<1>2. SettlementIInv
        => SettlementTurnsLeft \in Nat /\ (SettlementTurnsLeft = 0 <=> phase = "idle")
  BY <1>1 DEF SettlementTurnsLeft
<1>3. SettlementIInv /\ [SettlementNext]_settlementVars
        => [phase = "applying" => SettlementTurnsLeft' < SettlementTurnsLeft]_settlementVars
  <2>1. SUFFICES ASSUME SettlementIInv, SettlementNext, phase = "applying"
                 PROVE  SettlementTurnsLeft' < SettlementTurnsLeft
    OBVIOUS
  <2>2. Settle
    BY <2>1 DEF SettlementNext, Begin
  <2>3. CASE ApplyFill
    BY <1>1, <2>1, <2>3 DEF ApplyFill, SettlementTurnsLeft
  <2>4. CASE FailFill \/ Commit \/ FailConservation
    <3>1. phase' = "idle"
      BY <2>4 DEF FailFill, Commit, FailConservation, Return
    <3>2. QED
      BY <1>1, <2>1, <3>1 DEF SettlementTurnsLeft
  <2>5. QED
    BY <2>2, <2>3, <2>4 DEF Settle
<1>4. QED
  BY <1>2, <1>3, Invariance, PTL DEF SettlementSpec
=============================================================================
