--------------------------- MODULE ExchangeProofs ---------------------------
(***************************************************************************)
(* A session settles what its clearing produced.  The theorems about       *)
(* Settlement take canonical fills as given and those about Clearing stop  *)
(* at the fills; here the two meet, for every number of batches, accounts  *)
(* and instruments.                                                        *)
(***************************************************************************)
EXTENDS Exchange, ClearingProofs

P == INSTANCE SettlementProofs WITH FillLists <- Seq(FillType)

\* What StartSettling hands over is still there when the loop ends: the
\* clearing does not move while the ledger does.
SettlesTheResult ==
  phase = "applying" => stage = "executed" /\ fills = result.fills

ExchangeIInv ==
  /\ ClearingIInv
  /\ P!SettlementIInv
  /\ inst \in Instruments
  /\ SettlesTheResult

----------------------------------------------------------------------------
(***************************************************************************)
(* The fills of an executed batch are canonical.                           *)
(***************************************************************************)
LEMMA BatchAccounts ==
  ASSUME ClearingIInv, stage = "executed", NEW i \in Orders
  PROVE  batch[i].account \in Account
<1>1. Range(batch) = Range(intake) /\ intake \in Seq(Submitted)
  BY DEF ClearingIInv, BatchIsCanonical
<1>2. WellFormedBatch(batch) /\ i \in 1..Len(batch)
  BY ExecutedOutcome DEF Orders
<1>3. batch[i] \in Range(batch)
  BY <1>2 DEF WellFormedBatch, Range
<1>4. PICK j \in DOMAIN intake : intake[j] = batch[i]
  BY <1>1, <1>3 DEF Range
<1>5. batch[i] \in Submitted
  BY <1>1, <1>4
<1>6. QED
  BY <1>5, ArrivalAccounts DEF Submitted

LEMMA FillsAreTyped ==
  ASSUME ClearingIInv, stage = "executed", inst \in Instruments
  PROVE  result.fills \in Seq(FillType)
<1>1. CASE Volume = 0
  <2>1. result.fills = << >>
    BY <1>1, EngineFills
  <2>2. QED
    BY <2>1
<1>2. CASE Volume > 0
  <2> DEFINE n == Len(batch)
             a == result.alloc
             m == FillId(batch, a, n)
  <2>1. ASSUME NEW k \in 1..Len(result.fills) PROVE result.fills[k] \in FillType
    <3>1. PICK i \in Orders :
            /\ a[i] > 0
            /\ result.fills[k] = FillCreate(k - 1, batch[i], inst, ClearingPrice, a[i])
      BY EngineFills
    <3>2. /\ a[i] \in Nat /\ a[i] <= batch[i].qty /\ batch[i].qty \in Qty
          /\ batch[i].side \in Sides
      BY <1>2, FilledOrdersQualify
    <3>3. a[i] \in Price /\ a[i] \in Qty
      BY <3>1, <3>2, WordWidth DEF Price, Qty
    <3>4. ClearingPrice \in Price /\ WellFormedOrder(batch[i])
      BY <1>2, ExecutedOutcome DEF WellFormedBatch, Orders
    <3>5. FromPriceQty(ClearingPrice, a[i]) \in Money
      <4>1. FromPriceQty(ClearingPrice, a[i]) = ClearingPrice * a[i]
        BY <3>3, <3>4, ConsiderationFits
      <4>2. ClearingPrice \in Nat /\ ClearingPrice <= MaxRaw
            /\ a[i] \in Nat /\ a[i] <= MaxRaw /\ MaxRaw \in Nat
        BY <3>3, <3>4, WordWidth DEF Price
      <4>3. /\ ClearingPrice * a[i] <= ClearingPrice * MaxRaw
            /\ MaxRaw * ClearingPrice <= MaxRaw * MaxRaw
        BY <4>2, ProductsGrow
      <4>4. ClearingPrice * a[i] \in Nat /\ ClearingPrice * MaxRaw = MaxRaw * ClearingPrice
        BY <4>2
      <4>5. ClearingPrice * a[i] <= MaxRaw * MaxRaw
        BY <4>2, <4>3, <4>4, SMTT(30)
      <4>6. QED
        BY <4>1, <4>4, <4>5, <4>2, MoneyWidth DEF Money
    <3>6. batch[i].account \in Account
      BY <3>1, BatchAccounts
    <3>7. k - 1 \in Nat /\ batch[i].id \in Nat
      BY <3>4 DEF WellFormedOrder
    <3>8. QED
      BY <3>1, <3>2, <3>3, <3>4, <3>5, <3>6, <3>7 DEF FillCreate, FillType
  <2>2. /\ ClearingPrice # NoPrice /\ Volume # 0 /\ n \in Nat
        /\ result.fills = GenerateCanonicalFills(batch, inst, result.outcome, a)
    BY <1>2, ExecutedOutcome DEF WellFormedBatch
  <2>3. m \in Nat
    BY <2>2, FillsListTheFilled
  <2>4. DOMAIN result.fills = 1..m /\ Len(result.fills) = m
        /\ result.fills = [k \in 1..m |-> result.fills[k]]
    BY <2>2, <2>3, FillAt, <1>2 DEF GenerateCanonicalFills, ClearingPrice, Volume
  <2>5. QED
    <3> HIDE DEF m
    <3>1. QED
      BY <2>1, <2>3, <2>4
<1>3. QED
  BY <1>1, <1>2, ExecutedOutcome

\* A sum over the fills is a sum over the orders, also when nothing crosses.
LEMMA FillsTotalAll ==
  ASSUME ClearingIInv, stage = "executed", NEW e, NEW g,
         \A k \in 1..Len(result.fills) : e[k] = g[FilledOrder(batch, result.alloc, k)],
         \A i \in 1..Len(batch) : g[i] \in Int /\ (result.alloc[i] = 0 => g[i] = 0)
  PROVE  Total(e, Len(result.fills)) = Total(g, Len(batch))
<1>1. Volume \in Nat /\ Len(batch) \in Nat /\ (Volume = 0 => ClearingPrice = NoPrice)
      /\ result.alloc = AllocateBatch(batch, result.outcome, sorted)
  BY ExecutedOutcome DEF WellFormedBatch
<1>2. CASE Volume = 0
  <2>1. \A i \in 1..Len(batch) : result.alloc[i] = 0
    BY <1>1, <1>2 DEF AllocateBatch, Volume
  <2>2. Total(g, Len(batch)) = 0
    BY <1>1, <2>1, TotalOfZeros
  <2>3. Len(result.fills) = 0
    BY <1>2, EngineFills
  <2>4. QED
    BY <2>2, <2>3, TotalZero
<1>3. CASE Volume > 0
  BY <1>3, FillsTotal
<1>4. QED
  BY <1>1, <1>2, <1>3

\* Every order is allocated within its quantity.
LEMMA AllocationFits ==
  ASSUME ClearingIInv, stage = "executed", NEW i \in Orders
  PROVE  /\ result.alloc[i] \in Nat /\ result.alloc[i] <= batch[i].qty
         /\ batch[i].side \in Sides /\ batch[i].price \in Nat
         /\ ClearingPrice \in Nat
         /\ result.alloc[i] > 0 =>
              IF batch[i].side = "Buy" THEN ClearingPrice <= batch[i].price
                                       ELSE ClearingPrice >= batch[i].price
<1>1. /\ Volume \in Nat /\ i \in 1..Len(batch) /\ (Volume = 0 <=> ClearingPrice = NoPrice)
      /\ (Volume > 0 => ClearingPrice \in Price)
      /\ result.alloc = AllocateBatch(batch, result.outcome, sorted)
      /\ WellFormedBatch(batch)
  BY ExecutedOutcome DEF Orders
<1>2. /\ batch[i].side \in Sides /\ batch[i].price \in Nat /\ batch[i].qty \in Nat
  BY <1>1, WordWidth DEF WellFormedBatch, WellFormedOrder, Price
<1>3. ClearingPrice \in Nat
  BY <1>1, WordWidth DEF Price, NoPrice
<1>4. CASE Volume = 0
  <2>1. result.alloc[i] = 0
    BY <1>1, <1>4 DEF AllocateBatch, Volume
  <2>2. QED
    BY <1>2, <1>3, <2>1
<1>5. CASE Volume > 0
  BY <1>2, <1>3, <1>5, FilledOrdersQualify
<1>6. QED
  BY <1>1, <1>4, <1>5

\* What the k-th fill does to its account.
LEMMA FillEffects ==
  ASSUME ClearingIInv, stage = "executed", NEW k \in 1..Len(result.fills)
  PROVE  LET i == FilledOrder(batch, result.alloc, k)
             f == result.fills[k]
         IN  /\ i \in 1..Len(batch)
             /\ f.account = batch[i].account /\ f.side = batch[i].side
             /\ f.instrument = inst /\ f.execution_price = ClearingPrice
             /\ f.fill_qty = result.alloc[i]
             /\ f.consideration = ClearingPrice * result.alloc[i]
<1>1. PICK i : i = FilledOrder(batch, result.alloc, k)
  OBVIOUS
<1>2. Volume > 0
  BY EngineFills
<1>3. /\ i \in Orders
      /\ result.fills[k] = FillCreate(k - 1, batch[i], inst, ClearingPrice, result.alloc[i])
  BY <1>1, <1>2, FillAt
<1>4. ClearingPrice \in Price /\ result.alloc[i] \in Qty
  <2>1. result.alloc[i] \in Nat /\ result.alloc[i] <= batch[i].qty /\ batch[i].qty \in Qty
    BY <1>2, <1>3, FilledOrdersQualify
  <2>2. QED
    BY <1>2, <2>1, ExecutedOutcome, WordWidth DEF Qty
<1>5. FromPriceQty(ClearingPrice, result.alloc[i]) = ClearingPrice * result.alloc[i]
  BY <1>4, ConsiderationFits
<1>6. QED
  BY <1>1, <1>3, <1>5 DEF FillCreate, Orders

\* Total of a difference.
LEMMA TotalDifference ==
  ASSUME NEW N \in Nat, NEW f, NEW g, NEW h,
         \A i \in 1..N : f[i] \in Int /\ g[i] \in Int /\ h[i] = f[i] - g[i]
  PROVE  /\ Total(f, N) \in Int /\ Total(g, N) \in Int
         /\ Total(h, N) = Total(f, N) - Total(g, N)
<1>1. \A i \in 1..N : h[i] \in Int /\ g[i] \in Int /\ f[i] = h[i] + g[i]
  OBVIOUS
<1>2. Total(f, N) = Total(h, N) + Total(g, N)
  BY <1>1, TotalSum
<1>3. Total(f, N) \in Int /\ Total(g, N) \in Int /\ Total(h, N) \in Int
  BY <1>1, TotalInt
<1>4. QED
  BY <1>2, <1>3

----------------------------------------------------------------------------
(***************************************************************************)
(* The fills balance.                                                      *)
(***************************************************************************)
LEMMA FillsNetToZero ==
  ASSUME ClearingIInv, stage = "executed"
  PROVE  /\ Total([k \in 1..Len(result.fills) |-> CashEffect(result.fills[k])],
                  Len(result.fills)) = 0
         /\ Total([k \in 1..Len(result.fills) |-> QtyEffect(result.fills[k])],
                  Len(result.fills)) = 0
<1> DEFINE n == Len(batch)
           al == result.alloc
           part(side) == [i \in 1..n |-> IF batch[i].side = side THEN al[i] ELSE 0]
           bought == part("Buy")
           sold == part("Sell")
           netq == [i \in 1..n |-> IF batch[i].side = "Buy" THEN al[i] ELSE -al[i]]
           netc == [i \in 1..n |-> ClearingPrice * (-netq[i])]
           neg == [i \in 1..n |-> -netq[i]]
           fq == [k \in 1..Len(result.fills) |-> QtyEffect(result.fills[k])]
           fc == [k \in 1..Len(result.fills) |-> CashEffect(result.fills[k])]
<1>1. n \in Nat
  BY ExecutedOutcome DEF WellFormedBatch
<1>2. ASSUME NEW i \in 1..n
      PROVE  al[i] \in Nat /\ batch[i].side \in {"Buy", "Sell"} /\ ClearingPrice \in Nat
  BY AllocationFits DEF Orders, Sides
<1>3. \A i \in 1..n : bought[i] \in Int /\ sold[i] \in Int /\ netq[i] = bought[i] - sold[i]
  <2> HIDE DEF al
  <2>1. QED
    BY <1>2
<1>4. \A i \in 1..n : /\ netq[i] \in Int /\ (al[i] = 0 => netq[i] = 0)
                      /\ neg[i] \in Int /\ neg[i] = sold[i] - bought[i]
  <2> HIDE DEF al
  <2>1. QED
    BY <1>2
<1>5. Total(bought, n) = Total(sold, n)
  BY AllocationHolds DEF AllocationMeetsVolume, AllocatedTo, Sides
<1>6. /\ \A k \in 1..Len(result.fills) : fq[k] = netq[FilledOrder(batch, al, k)]
      /\ \A k \in 1..Len(result.fills) : fc[k] = netc[FilledOrder(batch, al, k)]
  <2>1. SUFFICES ASSUME NEW k \in 1..Len(result.fills)
                 PROVE  /\ fq[k] = netq[FilledOrder(batch, al, k)]
                        /\ fc[k] = netc[FilledOrder(batch, al, k)]
    OBVIOUS
  <2>2. PICK i : i = FilledOrder(batch, al, k)
    OBVIOUS
  <2>3. /\ i \in 1..n /\ result.fills[k].side = batch[i].side
        /\ result.fills[k].fill_qty = al[i]
        /\ result.fills[k].consideration = ClearingPrice * al[i]
    BY <2>2, FillEffects
  <2>4. al[i] \in Nat /\ ClearingPrice \in Nat
    BY <1>2, <2>3
  <2>5. fq[k] = netq[i]
    BY <2>3 DEF QtyEffect
  <2>6. fc[k] = netc[i]
    <3>1. fc[k] = IF batch[i].side = "Buy" THEN -(ClearingPrice * al[i])
                                           ELSE ClearingPrice * al[i]
      BY <2>3 DEF CashEffect
    <3>2. netc[i] = ClearingPrice * (IF batch[i].side = "Buy" THEN -al[i] ELSE - -al[i])
      BY <2>3
    <3>3. ASSUME NEW x \in Nat, NEW y \in Nat
          PROVE  x * (-y) = -(x * y) /\ x * (-(-y)) = x * y
      OBVIOUS
    <3>4. QED
      BY <2>4, <3>1, <3>2, <3>3
  <2>7. QED
    BY <2>2, <2>5, <2>6
<1> HIDE DEF bought, sold, fq, fc
<1>7. Total(netq, n) = 0
  <2> HIDE DEF netq, n
  <2>1. Total(netq, n) = Total(bought, n) - Total(sold, n) /\ Total(bought, n) \in Int
    BY <1>1, <1>3, TotalDifference
  <2>2. QED
    BY <1>5, <2>1
<1>8. Total(fq, Len(result.fills)) = 0
  <2> HIDE DEF netq
  <2>1. Total(fq, Len(result.fills)) = Total(netq, n)
    BY <1>4, <1>6, FillsTotalAll
  <2>2. QED
    BY <1>7, <2>1
<1>9. CASE n = 0
  <2>1. \A i \in 1..n : netc[i] \in Int /\ (al[i] = 0 => netc[i] = 0)
    BY <1>9
  <2>2. Total(netc, 0) = 0
    BY TotalZero
  <2> HIDE DEF netc
  <2>3. Total(fc, Len(result.fills)) = Total(netc, n)
    BY <1>6, <2>1, FillsTotalAll
  <2>4. QED
    BY <1>8, <1>9, <2>2, <2>3 DEF fq, fc
<1>10. CASE n # 0
  <2>1. ClearingPrice \in Nat
    BY <1>1, <1>2, <1>10
  <2>2. PICK p \in Nat : p = ClearingPrice
    BY <2>1
  <2>3. \A i \in 1..n : netc[i] = p * neg[i]
    BY <2>2
  <2>4. \A i \in 1..n : netc[i] \in Int /\ (al[i] = 0 => netc[i] = 0)
    <3>1. \A i \in 1..n : al[i] = 0 => neg[i] = 0
      BY <1>4
    <3> HIDE DEF netc, neg
    <3>2. QED
      BY <1>4, <2>3, <3>1
  <2> HIDE DEF netc, neg, n
  <2>5. Total(neg, n) = 0
    <3>1. Total(neg, n) = Total(sold, n) - Total(bought, n) /\ Total(sold, n) \in Int
      BY <1>1, <1>3, <1>4, TotalDifference
    <3>2. QED
      BY <1>5, <3>1
  <2>6. Total(netc, n) = p * Total(neg, n)
    BY <1>1, <1>4, <2>3, TotalScale
  <2>7. Total(netc, n) = 0
    BY <2>5, <2>6
  <2>8. Total(fc, Len(result.fills)) = Total(netc, n)
    BY <1>6, <2>4, FillsTotalAll DEF n
  <2>9. QED
    BY <1>8, <2>7, <2>8 DEF fq, fc
<1>11. QED
  BY <1>9, <1>10

----------------------------------------------------------------------------
(***************************************************************************)
(* The assumptions of Settlement hold of the session, and what Settlement  *)
(* names is what Exchange names.                                           *)
(***************************************************************************)
LEMMA SameLedgers ==
  /\ P!LedgerType = LedgerType /\ P!FillType = FillType /\ P!Account = Account
  /\ \A l : P!WellFormed(l) <=> WellFormed(l)
  BY DEF P!WellFormed, WellFormed, P!LedgerType, LedgerType, P!FillType, FillType,
         P!Account, Account, P!Money, Money, P!Qty, Qty, P!Price, Price, P!Sides, Sides

LEMMA SettlementAssumptions ==
  /\ P!InitialLedgersOK /\ P!FillListsOK
  /\ P!WordWidth /\ P!MoneyWidth /\ P!AccountRange
<1>1. P!InitialLedgersOK
  BY SessionLedgersOK, SameLedgers DEF P!InitialLedgersOK
<1>2. P!FillListsOK
  BY SameLedgers DEF P!FillListsOK
<1>3. P!WordWidth /\ P!MoneyWidth /\ P!AccountRange
  BY WordWidth, MoneyWidth, AccountRange DEF P!WordWidth, P!MoneyWidth, P!AccountRange
<1>4. QED
  BY <1>1, <1>2, <1>3

LEMMA SameTotals == \A f, n : P!Total(f, n) = Total(f, n) /\ S!Total(f, n) = Total(f, n)
  BY DEF P!Total, S!Total, Total

LEMMA SameEffects ==
  \A f : /\ P!CashEffect(f) = CashEffect(f) /\ S!CashEffect(f) = CashEffect(f)
         /\ P!QtyEffect(f) = QtyEffect(f) /\ S!QtyEffect(f) = QtyEffect(f)
  BY DEF P!CashEffect, S!CashEffect, CashEffect, P!QtyEffect, S!QtyEffect, QtyEffect

LEMMA SameChecks ==
  ASSUME NEW pre, NEW post, NEW fs
  PROVE  /\ P!CashConserved(pre, post) <=> S!CashConserved(pre, post)
         /\ P!AssetsConserved(pre, post, fs) <=> S!AssetsConserved(pre, post, fs)
  BY DEF P!CashConserved, S!CashConserved, P!AssetsConserved, S!AssetsConserved,
         P!TouchedInstruments, S!TouchedInstruments, P!TotalCash, S!TotalCash,
         P!TotalInventoryOf, S!TotalInventoryOf, P!CheckedTotal, S!CheckedTotal,
         P!Total, S!Total, P!Err, S!Err

LEMMA SameActions ==
  /\ S!SettlementInit <=> P!SettlementInit
  /\ S!Begin <=> P!Begin
  /\ S!ApplyFill <=> P!ApplyFill
  /\ S!FailFill <=> P!FailFill
  /\ S!Commit <=> P!Commit
  /\ S!FailConservation <=> P!FailConservation
<1>1. S!SettlementInit <=> P!SettlementInit
  BY DEF S!SettlementInit, P!SettlementInit
<1>2. \A fs : S!CanonicalFills(fs) <=> P!CanonicalFills(fs)
  BY DEF S!CanonicalFills, P!CanonicalFills, S!NetCash, P!NetCash, S!NetQty, P!NetQty,
         S!Total, P!Total, S!CashEffect, P!CashEffect, S!QtyEffect, P!QtyEffect
<1>3. S!Begin <=> P!Begin
  BY <1>2 DEF S!Begin, P!Begin
<1>4. \A l, f : S!Settles(l, f) <=> P!Settles(l, f)
  BY DEF S!Settles, P!Settles, S!CheckedSub, P!CheckedSub, S!CheckedAdd, P!CheckedAdd,
         S!Err, P!Err
<1>5. \A l, f : S!SettleFill(l, f) = P!SettleFill(l, f)
  BY DEF S!SettleFill, P!SettleFill, S!GetOrCreateAccount, P!GetOrCreateAccount,
         S!CashEffect, P!CashEffect, S!QtyEffect, P!QtyEffect
<1>6. S!ApplyFill <=> P!ApplyFill
  BY <1>4, <1>5 DEF S!ApplyFill, P!ApplyFill
<1>7. S!FailFill <=> P!FailFill
  BY <1>4 DEF S!FailFill, P!FailFill, S!Return, P!Return
<1>8. S!Conserved <=> P!Conserved
  BY SameChecks DEF S!Conserved, P!Conserved
<1>9. S!Commit <=> P!Commit
  BY <1>8 DEF S!Commit, P!Commit, S!Return, P!Return
<1>10. S!FailConservation <=> P!FailConservation
  BY <1>8 DEF S!FailConservation, P!FailConservation, S!Return, P!Return
<1>11. QED
  BY <1>1, <1>3, <1>6, <1>7, <1>9, <1>10

LEMMA FillsAreCanonical ==
  ASSUME ClearingIInv, stage = "executed", inst \in Instruments
  PROVE  result.fills \in Seq(FillType) /\ S!CanonicalFills(result.fills)
<1> DEFINE fs == result.fills
<1>1. fs \in Seq(FillType)
  BY FillsAreTyped
<1>2. \A k \in 1..Len(fs) :
        /\ fs[k].instrument = inst
        /\ fs[k].consideration = fs[k].execution_price * fs[k].fill_qty
  BY FillEffects
<1>3. S!NetCash(fs, Len(fs)) = 0 /\ S!NetQty(fs, Len(fs)) = 0
  <2>1. /\ [k \in 1..Len(fs) |-> S!CashEffect(fs[k])] = [k \in 1..Len(fs) |-> CashEffect(fs[k])]
        /\ [k \in 1..Len(fs) |-> S!QtyEffect(fs[k])] = [k \in 1..Len(fs) |-> QtyEffect(fs[k])]
    BY SameEffects
  <2>2. QED
    BY <2>1, SameTotals, FillsNetToZero DEF S!NetCash, S!NetQty
<1>4. QED
  BY <1>1, <1>2, <1>3 DEF S!CanonicalFills

----------------------------------------------------------------------------
(***************************************************************************)
(* Every step of the session is a step of the settlement.                  *)
(***************************************************************************)
LEMMA SettlingStep ==
  ASSUME ClearingIInv, inst \in Instruments, ExchangeNext
  PROVE  \/ S!SettlementNext
         \/ UNCHANGED S!settlementVars
<1>1. CASE Collect \/ Clear
  BY <1>1 DEF Collect, Clear, ledgerVars, S!settlementVars
<1>2. CASE StartSettling
  <2>1. result.fills \in Seq(FillType) /\ S!CanonicalFills(result.fills)
    BY <1>2, FillsAreCanonical DEF StartSettling
  <2>2. S!Begin
    BY <1>2, <2>1 DEF StartSettling, S!Begin
  <2>3. QED
    BY <2>2 DEF S!SettlementNext
<1>3. CASE SettleNextFill
  BY <1>3 DEF SettleNextFill, S!SettlementNext, S!Settle
<1>4. CASE AdoptPostState
  BY <1>4 DEF AdoptPostState, S!SettlementNext, S!Settle
<1>5. CASE SkipFailedBatch
  BY <1>5 DEF SkipFailedBatch, S!SettlementNext, S!Settle, ledgerVars, S!settlementVars
<1>6. QED
  BY <1>1, <1>2, <1>3, <1>4, <1>5 DEF ExchangeNext

LEMMA ExchangeInitInv == ExchangeInit => ExchangeIInv
<1> SUFFICES ASSUME ExchangeInit PROVE ExchangeIInv
  OBVIOUS
<1>1. ClearingIInv
  BY ClearingInitInv DEF ExchangeInit
<1>2. P!SettlementInit
  BY SameActions DEF ExchangeInit
<1>3. P!SettlementIInv
  BY <1>2, P!InitEstablishes, SettlementAssumptions DEF P!InitEstablishes
<1>4. inst \in Instruments /\ phase = "idle"
  BY DEF ExchangeInit, ClearingInit, S!SettlementInit
<1>5. QED
  BY <1>1, <1>3, <1>4 DEF ExchangeIInv, SettlesTheResult

\* A fresh iteration is a fresh clearing.
LEMMA NextBatchInv == OpenNextBatch => ClearingIInv' /\ inst' \in Instruments
<1>1. ClearingInit' => ClearingIInv'
  BY ClearingInitInv, PTL
<1>2. OpenNextBatch => ClearingInit' /\ inst' \in Instruments
  BY DEF OpenNextBatch, ClearingInit
<1>3. QED
  BY <1>1, <1>2

LEMMA ExchangeNextInv ==
  ExchangeIInv /\ [ExchangeNext]_exchangeVars => ExchangeIInv'
<1> SUFFICES ASSUME ExchangeIInv, [ExchangeNext]_exchangeVars PROVE ExchangeIInv'
  OBVIOUS
<1>1. ClearingIInv /\ P!SettlementIInv /\ inst \in Instruments /\ SettlesTheResult
  BY DEF ExchangeIInv
<1>2. P!SettlementIInv'
  <2>1. [S!SettlementNext]_S!settlementVars
    BY <1>1, SettlingStep DEF exchangeVars, ledgerVars, S!settlementVars
  <2>2. [P!SettlementNext]_P!settlementVars
    BY <2>1, SameActions DEF S!SettlementNext, P!SettlementNext, S!Settle, P!Settle,
                             S!settlementVars, P!settlementVars
  <2>3. QED
    BY <1>1, <2>2, P!NextPreserves, SettlementAssumptions DEF P!NextPreserves
<1>3. CASE Collect \/ Clear
  <2>1. ClearingNext /\ UNCHANGED ledgerVars /\ inst' = inst /\ stage \in {"intake", "batched"}
    BY <1>3 DEF Collect, Clear, ClearingNext, Receive, CreateBatch, RejectBatch,
                ExecuteBatch, ClearingFails
  <2>2. ClearingIInv'
    BY <1>1, <2>1, ClearingNextInv
  <2>3. phase' # "applying"
    BY <1>1, <2>1 DEF ledgerVars, SettlesTheResult
  <2>4. QED
    BY <1>1, <1>2, <2>1, <2>2, <2>3 DEF ExchangeIInv, SettlesTheResult
<1>4. CASE StartSettling \/ SettleNextFill \/ UNCHANGED exchangeVars
  <2>1. /\ UNCHANGED clearingVars
        /\ phase' = "applying" => stage = "executed" /\ fills' = result.fills
    BY <1>1, <1>4 DEF StartSettling, SettleNextFill, S!ApplyFill, exchangeVars, ledgerVars,
                      SettlesTheResult
  <2>2. ClearingIInv'
    BY <1>1, <2>1, ClearingNextInv
  <2>3. QED
    BY <1>1, <1>2, <2>1, <2>2 DEF ExchangeIInv, SettlesTheResult, clearingVars
<1>5. CASE AdoptPostState \/ SkipFailedBatch
  <2>1. OpenNextBatch /\ phase' # "applying"
    BY <1>1, <1>5 DEF AdoptPostState, SkipFailedBatch, S!Commit, S!FailFill,
                      S!FailConservation, S!Return, ledgerVars, SettlesTheResult
  <2>2. QED
    BY <1>2, <2>1, NextBatchInv DEF ExchangeIInv, SettlesTheResult
<1>6. QED
  BY <1>3, <1>4, <1>5 DEF ExchangeNext

LEMMA ExchangeInvariant == ExchangeSpec => []ExchangeIInv
  BY ExchangeInitInv, ExchangeNextInv, PTL DEF ExchangeSpec

----------------------------------------------------------------------------
\* execute_batch (engine/transition.cpp): whatever orders arrive, the fills the
\* clearing hands to apply_batch_transition are canonical, so every theorem of
\* SettlementProofs holds of a session, batch after batch.
THEOREM SessionSettles == ExchangeSpec => SettlesCanonicalFills
<1>1. ExchangeInit => S!SettlementInit
  BY DEF ExchangeInit
<1>2. ExchangeIInv /\ [ExchangeNext]_exchangeVars => [S!SettlementNext]_S!settlementVars
  BY SettlingStep DEF ExchangeIInv, exchangeVars, ledgerVars, S!settlementVars
<1>3. QED
  BY <1>1, <1>2, ExchangeInvariant, PTL
     DEF ExchangeSpec, SettlesCanonicalFills, S!SettlementSpec

----------------------------------------------------------------------------
(***************************************************************************)
(* What an account's own fills amount to, in terms of its orders.          *)
(***************************************************************************)
LEMMA OwnFillsAreOwnOrders ==
  ASSUME ClearingIInv, stage = "executed", NEW a
  PROVE  LET n == Len(batch)
             fs == result.fills
             lots(side) == [i \in 1..n |-> IF batch[i].account = a /\ batch[i].side = side
                                           THEN result.alloc[i] ELSE 0]
             worth(side) == [i \in 1..n |-> IF batch[i].account = a /\ batch[i].side = side
                                            THEN batch[i].price * result.alloc[i] ELSE 0]
             ownq == [k \in 1..Len(fs) |-> IF fs[k].account = a
                                           THEN QtyEffect(fs[k]) ELSE 0]
             ownc == [k \in 1..Len(fs) |-> IF fs[k].account = a
                                           THEN CashEffect(fs[k]) ELSE 0]
         IN  /\ Total(lots("Buy"), n) \in Int /\ Total(lots("Sell"), n) \in Int
             /\ Total(worth("Buy"), n) \in Int /\ Total(worth("Sell"), n) \in Int
             /\ Total(ownc, Len(fs)) \in Int
             /\ Total(ownq, Len(fs)) = Total(lots("Buy"), n) - Total(lots("Sell"), n)
             /\ Total(ownc, Len(fs)) >= Total(worth("Sell"), n) - Total(worth("Buy"), n)
<1> DEFINE n == Len(batch)
           fs == result.fills
           al == result.alloc
           cp == ClearingPrice
           lots(side) == [i \in 1..n |-> IF batch[i].account = a /\ batch[i].side = side
                                         THEN al[i] ELSE 0]
           worth(side) == [i \in 1..n |-> IF batch[i].account = a /\ batch[i].side = side
                                          THEN batch[i].price * al[i] ELSE 0]
           bq == lots("Buy")
           sq == lots("Sell")
           bw == worth("Buy")
           sw == worth("Sell")
           ownq == [k \in 1..Len(fs) |-> IF fs[k].account = a THEN QtyEffect(fs[k]) ELSE 0]
           ownc == [k \in 1..Len(fs) |-> IF fs[k].account = a THEN CashEffect(fs[k]) ELSE 0]
           gq == [i \in 1..n |-> IF batch[i].account # a THEN 0
                                 ELSE IF batch[i].side = "Buy" THEN al[i] ELSE -al[i]]
           gc == [i \in 1..n |-> IF batch[i].account # a THEN 0
                                 ELSE IF batch[i].side = "Buy" THEN -(cp * al[i])
                                                               ELSE cp * al[i]]
           gw == [i \in 1..n |-> sw[i] - bw[i]]
<1>1. n \in Nat
  BY ExecutedOutcome DEF WellFormedBatch
<1>2. ASSUME NEW i \in 1..n
      PROVE  /\ al[i] \in Nat /\ batch[i].side \in {"Buy", "Sell"}
             /\ cp \in Nat /\ batch[i].price \in Nat
             /\ al[i] > 0 => IF batch[i].side = "Buy" THEN cp <= batch[i].price
                                                      ELSE cp >= batch[i].price
  BY AllocationFits DEF Orders, Sides
<1>3. ASSUME NEW i \in 1..n
      PROVE  /\ bq[i] \in Int /\ sq[i] \in Int /\ bw[i] \in Int /\ sw[i] \in Int
             /\ gq[i] \in Int /\ gc[i] \in Int /\ gw[i] \in Int
             /\ gq[i] = bq[i] - sq[i] /\ gw[i] = sw[i] - bw[i]
             /\ al[i] = 0 => gq[i] = 0 /\ gc[i] = 0
             /\ gw[i] <= gc[i]
  <2>1. PICK x \in Nat : x = al[i]
    BY <1>2
  <2>2. PICK p \in Nat : p = batch[i].price
    BY <1>2
  <2>3. PICK c \in Nat : c = cp
    BY <1>2
  <2>4. /\ batch[i].side \in {"Buy", "Sell"}
        /\ x > 0 => IF batch[i].side = "Buy" THEN c <= p ELSE c >= p
    BY <1>2, <2>1, <2>2, <2>3
  <2>5. PICK cx \in Nat, px \in Nat : cx = c * x /\ px = p * x
    OBVIOUS
  <2>6. /\ x = 0 => cx = 0 /\ px = 0
        /\ c <= p => cx <= px
        /\ p <= c => px <= cx
    <3>1. /\ c <= p => x * c <= x * p
          /\ p <= c => x * p <= x * c
      BY ProductsGrow
    <3>2. QED
      BY <2>5, <3>1
  <2>7. /\ bq[i] = IF batch[i].account = a /\ batch[i].side = "Buy" THEN x ELSE 0
        /\ sq[i] = IF batch[i].account = a /\ batch[i].side = "Sell" THEN x ELSE 0
        /\ bw[i] = IF batch[i].account = a /\ batch[i].side = "Buy" THEN px ELSE 0
        /\ sw[i] = IF batch[i].account = a /\ batch[i].side = "Sell" THEN px ELSE 0
    BY <2>1, <2>2, <2>5
  <2>8. /\ gq[i] = IF batch[i].account # a THEN 0
                   ELSE IF batch[i].side = "Buy" THEN x ELSE -x
        /\ gc[i] = IF batch[i].account # a THEN 0
                   ELSE IF batch[i].side = "Buy" THEN -cx ELSE cx
        /\ gw[i] = sw[i] - bw[i]
    BY <2>1, <2>3, <2>5
  <2> HIDE DEF bq, sq, bw, sw, gq, gc, gw
  <2>9. /\ bq[i] \in Int /\ sq[i] \in Int /\ bw[i] \in Int /\ sw[i] \in Int
        /\ gq[i] \in Int /\ gc[i] \in Int /\ gw[i] \in Int
        /\ gq[i] = bq[i] - sq[i] /\ gw[i] = sw[i] - bw[i]
        /\ x = 0 => gq[i] = 0 /\ gc[i] = 0
    <3> HIDE DEF al, cp
    <3>1. QED
      BY <2>4, <2>6, <2>7, <2>8
  <2>10. gw[i] <= gc[i]
    <3> HIDE DEF al, cp
    <3>1. x = 0 \/ x > 0
      OBVIOUS
    <3>2. QED
      BY <2>4, <2>6, <2>7, <2>8, <3>1
  <2>11. QED
    BY <2>1, <2>9, <2>10
<1>4. ASSUME NEW k \in 1..Len(fs)
      PROVE  /\ ownq[k] = gq[FilledOrder(batch, al, k)]
             /\ ownc[k] = gc[FilledOrder(batch, al, k)]
  <2>1. PICK i : i = FilledOrder(batch, al, k)
    OBVIOUS
  <2>2. /\ i \in 1..n /\ fs[k].side = batch[i].side /\ fs[k].account = batch[i].account
        /\ fs[k].fill_qty = al[i] /\ fs[k].consideration = cp * al[i]
    BY <2>1, FillEffects
  <2>3. ownq[k] = gq[i]
    BY <2>2 DEF QtyEffect
  <2>4. ownc[k] = gc[i]
    BY <2>2 DEF CashEffect
  <2>5. QED
    BY <2>1, <2>3, <2>4
<1> HIDE DEF bq, sq, bw, sw, gq, gc, gw, ownq, ownc
<1>5. Total(ownq, Len(fs)) = Total(gq, n) /\ Total(ownc, Len(fs)) = Total(gc, n)
  BY <1>3, <1>4, FillsTotalAll
<1> HIDE DEF n
<1>6. /\ Total(bq, n) \in Int /\ Total(sq, n) \in Int
      /\ Total(gq, n) = Total(bq, n) - Total(sq, n)
  <2>1. \A i \in 1..n : bq[i] \in Int /\ sq[i] \in Int /\ gq[i] = bq[i] - sq[i]
    BY <1>3
  <2>2. QED
    BY <1>1, <2>1, TotalDifference
<1>7. /\ Total(bw, n) \in Int /\ Total(sw, n) \in Int
      /\ Total(gw, n) = Total(sw, n) - Total(bw, n)
  <2>1. \A i \in 1..n : sw[i] \in Int /\ bw[i] \in Int /\ gw[i] = sw[i] - bw[i]
    BY <1>3
  <2>2. PICK x, y, z : x = sw /\ y = bw /\ z = gw
    OBVIOUS
  <2>3. \A i \in 1..n : x[i] \in Int /\ y[i] \in Int /\ z[i] = x[i] - y[i]
    BY <2>1, <2>2
  <2>4. Total(x, n) \in Int /\ Total(y, n) \in Int /\ Total(z, n) = Total(x, n) - Total(y, n)
    BY <1>1, <2>3, TotalDifference
  <2>5. QED
    BY <2>2, <2>4
<1>8. Total(gw, n) <= Total(gc, n)
  BY <1>1, <1>3, TotalMonotone
<1>9. Total(gc, n) \in Int
  BY <1>1, <1>3, TotalInt
<1>10. /\ Total(bq, n) \in Int /\ Total(sq, n) \in Int
       /\ Total(bw, n) \in Int /\ Total(sw, n) \in Int
       /\ Total(ownc, Len(fs)) \in Int
       /\ Total(ownq, Len(fs)) = Total(bq, n) - Total(sq, n)
       /\ Total(ownc, Len(fs)) >= Total(sw, n) - Total(bw, n)
  BY <1>5, <1>6, <1>7, <1>8, <1>9
<1>11. QED
  BY <1>10 DEF bq, sq, bw, sw, ownq, ownc, n

\* The state a batch leaves, account by account.
LEMMA AdoptedState ==
  ASSUME ExchangeIInv, AdoptPostState, NEW a \in Account
  PROVE  LET fs == result.fills
             ownq == [k \in 1..Len(fs) |-> IF fs[k].account = a
                                           THEN QtyEffect(fs[k]) ELSE 0]
             ownc == [k \in 1..Len(fs) |-> IF fs[k].account = a
                                           THEN CashEffect(fs[k]) ELSE 0]
         IN  /\ stage = "executed" /\ fills = fs
             /\ ledger'.cash[a] = ledger.cash[a] + Total(ownc, Len(fs))
             /\ \A i \in Instruments :
                  ledger'.inv[i][a] = ledger.inv[i][a]
                    + (IF i \in P!TouchedInstruments(fs)
                       THEN Total(ownq, Len(fs)) ELSE 0)
<1>1. /\ phase = "applying" /\ cursor = Len(fills) + 1 /\ ledger' = work
  BY DEF AdoptPostState, S!Commit, S!Return
<1>2. stage = "executed" /\ fills = result.fills
  BY <1>1 DEF ExchangeIInv, SettlesTheResult
<1>3. Len(fills) \in Nat
  BY <1>2, EngineFills DEF ExchangeIInv
<1>4. cursor - 1 = Len(fills)
  BY <1>1, <1>3
<1>5. P!InFlight
  BY <1>1 DEF ExchangeIInv, P!SettlementIInv
<1>6. /\ work.cash[a] = ledger.cash[a] + P!OwnCash(fills, a, Len(fills))
      /\ \A i \in Instruments :
           work.inv[i][a] = ledger.inv[i][a]
             + (IF i \in P!TouchedInstruments(fills)
                THEN P!OwnQty(fills, a, Len(fills)) ELSE 0)
  BY <1>4, <1>5, SameLedgers DEF P!InFlight
<1> DEFINE fs == result.fills
           ownq == [k \in 1..Len(fs) |-> IF fs[k].account = a THEN QtyEffect(fs[k]) ELSE 0]
           ownc == [k \in 1..Len(fs) |-> IF fs[k].account = a THEN CashEffect(fs[k]) ELSE 0]
<1>7. /\ P!OwnCash(fs, a, Len(fs)) = Total(ownc, Len(fs))
      /\ P!OwnQty(fs, a, Len(fs)) = Total(ownq, Len(fs))
  BY DEF P!OwnCash, P!OwnQty, P!Total, Total, P!CashEffect, CashEffect,
         P!QtyEffect, QtyEffect
<1>8. QED
  BY <1>1, <1>2, <1>6, <1>7

LEMMA AdoptedFollowsOrders ==
  ASSUME ExchangeIInv, AdoptPostState, NEW a \in Account
  PROVE  LET got(i)  == result.alloc[i]
             worth(i) == batch[i].price * result.alloc[i]
             bought == OwnOrders(a, "Buy", got)
             sold   == OwnOrders(a, "Sell", got)
         IN  /\ ledger'.inv[inst][a] = ledger.inv[inst][a] + bought - sold
             /\ ledger'.cash[a] - ledger.cash[a]
                  >= OwnOrders(a, "Sell", worth) - OwnOrders(a, "Buy", worth)
             /\ \A i \in Instruments \ {inst} : ledger'.inv[i][a] = ledger.inv[i][a]
             /\ \A i \in 1..Len(batch) : result.alloc[i] <= batch[i].qty
<1> DEFINE n == Len(batch)
           fs == result.fills
           lots(side) == [i \in 1..n |-> IF batch[i].account = a /\ batch[i].side = side
                                         THEN result.alloc[i] ELSE 0]
           value(side) == [i \in 1..n |-> IF batch[i].account = a /\ batch[i].side = side
                                          THEN batch[i].price * result.alloc[i] ELSE 0]
           ownq == [k \in 1..Len(fs) |-> IF fs[k].account = a THEN QtyEffect(fs[k]) ELSE 0]
           ownc == [k \in 1..Len(fs) |-> IF fs[k].account = a THEN CashEffect(fs[k]) ELSE 0]
<1>1. ClearingIInv /\ stage = "executed" /\ inst \in Instruments
  BY AdoptedState DEF ExchangeIInv
<1>2. PICK bq, sq, bw, sw, oq, oc :
        /\ bq = Total(lots("Buy"), n) /\ sq = Total(lots("Sell"), n)
        /\ bw = Total(value("Buy"), n) /\ sw = Total(value("Sell"), n)
        /\ oq = Total(ownq, Len(fs)) /\ oc = Total(ownc, Len(fs))
  OBVIOUS
<1>3. /\ bq \in Int /\ sq \in Int /\ bw \in Int /\ sw \in Int /\ oc \in Int
      /\ oq = bq - sq /\ oc >= sw - bw
  BY <1>1, <1>2, OwnFillsAreOwnOrders
<1>4. /\ ledger'.cash[a] = ledger.cash[a] + oc
      /\ \A i \in Instruments :
           ledger'.inv[i][a] = ledger.inv[i][a]
             + (IF i \in P!TouchedInstruments(fs) THEN oq ELSE 0)
  BY <1>2, AdoptedState
<1>5. ledger.cash[a] \in Int /\ \A i \in Instruments : ledger.inv[i][a] \in Int
  <2>1. WellFormed(ledger)
    BY SameLedgers DEF ExchangeIInv, P!SettlementIInv
  <2>2. QED
    BY <2>1, WordWidth, MoneyWidth DEF WellFormed, LedgerType, Money, Qty
<1>6. \A i \in Instruments : i \in P!TouchedInstruments(fs) => i = inst
  BY <1>1, FillEffects DEF P!TouchedInstruments
<1>7. inst \notin P!TouchedInstruments(fs) => oq = 0
  <2>1. SUFFICES ASSUME inst \notin P!TouchedInstruments(fs) PROVE oq = 0
    OBVIOUS
  <2>2. Len(fs) \in Nat
    BY <1>1, EngineFills
  <2>3. \A k \in 1..Len(fs) : FALSE
    BY <1>1, <2>1, FillEffects DEF P!TouchedInstruments
  <2>4. Len(fs) = 0
    BY <2>2, <2>3
  <2>5. QED
    BY <1>2, <2>4, TotalZero
<1>8. \A i \in 1..n : result.alloc[i] <= batch[i].qty
  BY <1>1, AllocationFits DEF Orders
<1>9. /\ ledger'.inv[inst][a] = ledger.inv[inst][a] + bq - sq
      /\ ledger'.cash[a] - ledger.cash[a] >= sw - bw
      /\ \A i \in Instruments \ {inst} : ledger'.inv[i][a] = ledger.inv[i][a]
  BY <1>1, <1>3, <1>4, <1>5, <1>6, <1>7
<1>10. QED
  BY <1>2, <1>8, <1>9 DEF OwnOrders

\* execute_batch and the session loop, from orders to balances: an executed
\* batch gives every account exactly what its orders were allocated, within
\* their quantities and limits, in the batch's instrument only, and nothing
\* else ever moves the ledger.
THEOREM OrdersBecomeBalances == ExchangeSpec => BalancesFollowOrders
<1> DEFINE Moved == \A a \in Account :
             LET got(i)  == result.alloc[i]
                 worth(i) == batch[i].price * result.alloc[i]
                 bought == OwnOrders(a, "Buy", got)
                 sold   == OwnOrders(a, "Sell", got)
             IN  /\ ledger'.inv[inst][a] = ledger.inv[inst][a] + bought - sold
                 /\ ledger'.cash[a] - ledger.cash[a]
                      >= OwnOrders(a, "Sell", worth) - OwnOrders(a, "Buy", worth)
                 /\ \A i \in Instruments \ {inst} :
                      ledger'.inv[i][a] = ledger.inv[i][a]
                 /\ \A i \in 1..Len(batch) : result.alloc[i] <= batch[i].qty
<1>1. ExchangeIInv /\ [ExchangeNext]_exchangeVars
        => [IF Adopted THEN Moved ELSE ledger' = ledger]_exchangeVars
  <2>1. SUFFICES ASSUME ExchangeIInv, ExchangeNext
                 PROVE  IF Adopted THEN Moved ELSE ledger' = ledger
    OBVIOUS
  <2>2. CASE AdoptPostState
    <3>1. Adopted
      BY <2>2 DEF AdoptPostState, S!Commit, S!Return, Adopted
    <3>2. Moved
      BY <2>1, <2>2, AdoptedFollowsOrders
    <3>3. QED
      BY <3>1, <3>2
  <2>3. CASE ~AdoptPostState
    <3>1. ledger' = ledger /\ ~Adopted
      BY <2>1, <2>3 DEF ExchangeNext, Collect, Clear, StartSettling, SettleNextFill,
           SkipFailedBatch, S!ApplyFill, S!FailFill, S!FailConservation, S!Return,
           ledgerVars, Adopted
    <3>2. QED
      BY <3>1
  <2>4. QED
    BY <2>2, <2>3
<1>2. QED
  BY <1>1, ExchangeInvariant, PTL DEF ExchangeSpec, BalancesFollowOrders

----------------------------------------------------------------------------
(***************************************************************************)
(* What is proved of Settlement and of Clearing, of a session.             *)
(***************************************************************************)
LEMMA SessionIsSettlement == ExchangeSpec => P!SettlementSpec
<1>1. S!SettlementInit <=> P!SettlementInit
  BY SameActions
<1>2. ExchangeInit => P!SettlementInit
  BY <1>1 DEF ExchangeInit
<1>3. ExchangeIInv /\ [ExchangeNext]_exchangeVars
        => [P!SettlementNext]_P!settlementVars
  <2>1. SUFFICES ASSUME ExchangeIInv, [ExchangeNext]_exchangeVars
                 PROVE  [P!SettlementNext]_P!settlementVars
    OBVIOUS
  <2>2. [S!SettlementNext]_S!settlementVars
    BY <2>1, SettlingStep DEF ExchangeIInv, exchangeVars, ledgerVars, S!settlementVars
  <2>3. QED
    BY <2>2, SameActions DEF S!SettlementNext, P!SettlementNext, S!Settle, P!Settle,
                             S!settlementVars, P!settlementVars
<1>4. QED
  BY <1>2, <1>3, ExchangeInvariant, PTL DEF ExchangeSpec, P!SettlementSpec

Venue == INSTANCE LedgerSpec

\* execute_batch in a loop: whatever orders arrive, the ledger of a session only
\* redistributes what it started with, among the accounts it started with.
THEOREM SessionRedistributes == ExchangeSpec => Venue!ConservativeLedger
<1>1. P!SettlementSpec => P!RefinesLedgerSpec
  BY P!Refinement, SettlementAssumptions
<1>2. P!Promised!SpecInit => Venue!SpecInit
  BY DEF P!Promised!SpecInit, Venue!SpecInit, P!Promised!LedgerType, Venue!LedgerType,
         P!Promised!Account, Venue!Account, P!Promised!Money, Venue!Money,
         P!Promised!Qty, Venue!Qty
<1>3. [P!Promised!Redistribute]_ledger => [Venue!Redistribute]_ledger
  BY DEF P!Promised!Redistribute, Venue!Redistribute, P!Promised!LedgerType,
         Venue!LedgerType, P!Promised!Account, Venue!Account, P!Promised!Money,
         Venue!Money, P!Promised!Qty, Venue!Qty, P!Promised!CashSum, Venue!CashSum,
         P!Promised!InvSum, Venue!InvSum, P!Promised!Total, Venue!Total
<1>4. QED
  BY <1>1, <1>2, <1>3, SessionIsSettlement, PTL
    DEF P!RefinesLedgerSpec, P!Promised!ConservativeLedger, Venue!ConservativeLedger

\* The totals of a ledger fit the words that are to hold them.
TotalsFit(l) ==
  /\ CashSum(l) <= MaxMoney
  /\ \A i \in Instruments : InvSum(l, i) <= MaxRaw

\* apply_batch_transition's conservation checks (engine/transition.cpp), over a
\* whole session: on a ledger whose totals fit their words, they pass for every
\* batch, however many came before.  A batch is then refused for what an
\* account lacks or for what it cannot hold, never by them.
THEOREM ConservationNeverFails ==
  ASSUME \A l \in InitialLedgers : TotalsFit(l)
  PROVE  ExchangeSpec => [](verdict # "not_conserved")
<1>1. \A l : /\ Venue!CashSum(l) = CashSum(l) /\ P!CashSum(l) = CashSum(l)
             /\ \A i : Venue!InvSum(l, i) = InvSum(l, i) /\ P!InvSum(l, i) = InvSum(l, i)
  BY DEF Venue!CashSum, P!CashSum, CashSum, Venue!InvSum, P!InvSum, InvSum,
         Venue!Total, P!Total, Total
<1>2. ExchangeInit => TotalsFit(ledger)
  BY DEF ExchangeInit, S!SettlementInit
<1>3. TotalsFit(ledger) /\ [Venue!Redistribute]_ledger => TotalsFit(ledger)'
  BY <1>1 DEF Venue!Redistribute, TotalsFit
<1>4. P!SettlementIInv /\ TotalsFit(ledger) => verdict # "not_conserved"
  <2>1. SUFFICES ASSUME P!SettlementIInv, TotalsFit(ledger), verdict = "not_conserved"
                 PROVE  FALSE
    OBVIOUS
  <2>2. \/ P!CashSum(ledger) > MaxMoney
        \/ \E i \in Instruments : P!InvSum(ledger, i) > MaxRaw
    BY <2>1 DEF P!SettlementIInv, P!ConservationOnlyFailsOnWidth
  <2>3. ledger \in P!LedgerType
    BY <2>1 DEF P!SettlementIInv, P!SettlementTypeOK
  <2>4. P!CashSum(ledger) \in Int /\ \A i \in Instruments : P!InvSum(ledger, i) \in Int
    BY <2>3, P!SumTypes, SettlementAssumptions
  <2>5. QED
    BY <1>1, <2>1, <2>2, <2>4, WordWidth, MoneyWidth DEF TotalsFit
<1>5. ExchangeIInv => P!SettlementIInv
  BY DEF ExchangeIInv
<1>6. QED
  BY <1>2, <1>3, <1>4, <1>5, SessionRedistributes, ExchangeInvariant, PTL
    DEF ExchangeSpec, Venue!ConservativeLedger

\* execute_batch in a loop (cli/main.cpp, bench/simulator_benchmarks.cpp): each
\* batch of a session is cleared as Clearing promises of one, whatever ledger
\* it meets and whatever became of the batches before it.
THEOREM SessionClears ==
  ExchangeSpec => [](/\ BatchIsCanonical
                     /\ CurvesAgree
                     /\ ClearsMaximumVolume
                     /\ AllocationMeetsVolume
                     /\ PriceTimePriority
                     /\ ProRataIsFair
                     /\ FillsAreSound)
<1>1. ExchangeIInv => ClearingIInv /\ BatchIsCanonical
  BY DEF ExchangeIInv, ClearingIInv
<1>2. ClearingIInv => AllocationMeetsVolume
  BY AllocationHolds
<1>3. QED
  BY <1>1, <1>2, CurvesHold, MaximumHolds, PriorityHolds, FairnessHolds, FillsHold,
     ExchangeInvariant, PTL
=============================================================================
