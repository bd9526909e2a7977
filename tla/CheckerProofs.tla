--------------------------- MODULE CheckerProofs ---------------------------
(***************************************************************************)
(* The transition checker agrees with the engine, for every batch, every   *)
(* ledger and every misreport; and the audit matrix built on it.           *)
(***************************************************************************)
EXTENDS Audits, ClearingProofs, FunctionTheorems

\* Steps 3 and 4 of verify_transition hold of the engine's own fills.
LEMMA EngineFillsRespectOrders ==
  ASSUME ClearingIInv, stage = "executed"
  PROVE  FillsRespectOrders(batch, result.fills)
<1>1. SUFFICES ASSUME NEW k \in 1..Len(result.fills)
               PROVE  \E i \in 1..Len(batch) :
                 /\ batch[i].id = result.fills[k].order_id
                 /\ result.fills[k].fill_qty <= batch[i].qty
                 /\ IF result.fills[k].side = "Buy"
                    THEN result.fills[k].execution_price <= batch[i].price
                    ELSE result.fills[k].execution_price >= batch[i].price
                 /\ result.fills[k].consideration
                      = FromPriceQty(result.fills[k].execution_price, result.fills[k].fill_qty)
  BY DEF FillsRespectOrders
<1>2. PICK i \in Orders :
        /\ result.alloc[i] > 0 /\ Volume > 0
        /\ result.fills[k] = FillCreate(k - 1, batch[i], inst, ClearingPrice,
                                        result.alloc[i])
  BY EngineFills
<1>3. /\ result.fills[k].order_id = batch[i].id
      /\ result.fills[k].side = batch[i].side
      /\ result.fills[k].fill_qty = result.alloc[i]
      /\ result.fills[k].execution_price = ClearingPrice
      /\ result.fills[k].consideration = FromPriceQty(ClearingPrice, result.alloc[i])
  BY <1>2 DEF FillCreate
<1>4. /\ result.alloc[i] <= batch[i].qty
      /\ IF batch[i].side = "Buy" THEN ClearingPrice <= batch[i].price
                                  ELSE ClearingPrice >= batch[i].price
  BY <1>2, FilledOrdersQualify
<1>5. QED
  BY <1>2, <1>3, <1>4 DEF Orders

LEMMA EngineVolumeConserved ==
  ASSUME ClearingIInv, stage = "executed"
  PROVE  VolumeConserved(result.fills)
<1> DEFINE fs == result.fills
           lots(s) == [k \in 1..Len(fs) |-> IF fs[k].side = s THEN fs[k].fill_qty ELSE 0]
<1>1. Volume \in Nat /\ Volume <= MaxRaw /\ MaxRaw \in Nat
  BY ExecutedOutcome, WordWidth
<1>2. ASSUME NEW s \in Sides PROVE Total(lots(s), Len(fs)) = Volume
  <2>1. AllocatedTo(batch, result.alloc, s) = Volume
    BY AllocationHolds DEF AllocationMeetsVolume
  <2>2. CASE Volume > 0
    BY <2>2, FillsMoveVolume
  <2>3. CASE Volume = 0
    <3>1. Len(fs) = 0
      BY <2>3, EngineFills
    <3>2. QED
      BY <2>3, <3>1, TotalZero
  <2>4. QED
    BY <1>1, <2>2, <2>3
<1>3. ASSUME NEW s \in Sides PROVE CheckedTotal(lots(s), Len(fs), MaxRaw) = Volume
  BY <1>1, <1>2 DEF CheckedTotal
<1>4. "Buy" \in Sides /\ "Sell" \in Sides
  BY DEF Sides
<1>5. /\ CheckedTotal(lots("Buy"), Len(fs), MaxRaw) = Volume
      /\ CheckedTotal(lots("Sell"), Len(fs), MaxRaw) = Volume
  BY <1>3, <1>4
<1>6. Volume # Err
  BY <1>1 DEF Err
<1>7. QED
  BY <1>5, <1>6 DEF VolumeConserved

----------------------------------------------------------------------------
(***************************************************************************)
(* The loop of apply_batch_transition, fill by fill.                       *)
(***************************************************************************)
Applying(l, fs) ==
  LET after[k \in 0..Len(fs)] ==
        IF k = 0 THEN [ok |-> TRUE, ledger |-> l]
        ELSE IF after[k - 1].ok /\ Settles(after[k - 1].ledger, fs[k])
        THEN [ok |-> TRUE, ledger |-> SettleFill(after[k - 1].ledger, fs[k])]
        ELSE [ok |-> FALSE, ledger |-> l]
  IN  after

ApplyOne(l, before, f) ==
  IF before.ok /\ Settles(before.ledger, f)
  THEN [ok |-> TRUE, ledger |-> SettleFill(before.ledger, f)]
  ELSE [ok |-> FALSE, ledger |-> l]

Applied(p, l, fs, n) ==
  p = [k \in 0..n |-> IF k = 0 THEN [ok |-> TRUE, ledger |-> l]
                      ELSE ApplyOne(l, p[k - 1], fs[k])]

LEMMA AppliedExists ==
  ASSUME NEW N \in Nat, NEW l, NEW fs
  PROVE  \E p : Applied(p, l, fs, N)
<1> DEFINE z0 == [ok |-> TRUE, ledger |-> l]
           T == {n \in Nat : \E p : Applied(p, l, fs, n)}
<1>1. 0 \in T
  <2> DEFINE z == [k \in 0..0 |-> z0]
  <2>1. z = [k \in 0..0 |-> IF k = 0 THEN z0 ELSE ApplyOne(l, z[k - 1], fs[k])]
    OBVIOUS
  <2>2. Applied(z, l, fs, 0)
    BY <2>1 DEF Applied
  <2>3. QED
    BY <2>2
<1>2. ASSUME NEW n \in T PROVE n + 1 \in T
  <2>1. PICK p : Applied(p, l, fs, n)
    OBVIOUS
  <2> DEFINE e == ApplyOne(l, p[n], fs[n + 1])
             q == [k \in 0..(n + 1) |-> IF k = n + 1 THEN e ELSE p[k]]
  <2>2. n \in Nat
    OBVIOUS
  <2> HIDE DEF z0
  <2>3. \A k \in 0..n : p[k] = IF k = 0 THEN z0 ELSE ApplyOne(l, p[k - 1], fs[k])
    BY <2>1 DEF Applied, z0
  <2>4. ASSUME NEW k \in 0..(n + 1)
        PROVE  q[k] = IF k = 0 THEN z0 ELSE ApplyOne(l, q[k - 1], fs[k])
    <3>1. CASE k = n + 1
      <4>1. q[k] = e /\ q[k - 1] = p[n] /\ k # 0
        BY <2>2, <3>1
      <4>2. QED
        BY <4>1, <3>1
    <3>2. CASE k # n + 1 /\ k # 0
      <4>1. q[k] = p[k] /\ q[k - 1] = p[k - 1] /\ k \in 0..n
        BY <2>2, <3>2
      <4>2. QED
        BY <4>1, <3>2, <2>3
    <3>3. CASE k = 0
      <4>1. q[k] = p[k] /\ k \in 0..n
        BY <2>2, <3>3
      <4>2. QED
        BY <4>1, <3>3, <2>3
    <3>4. QED
      BY <3>1, <3>2, <3>3
  <2>5. Applied(q, l, fs, n + 1)
    <3>1. q = [k \in 0..(n + 1) |-> q[k]]
      OBVIOUS
    <3> HIDE DEF q
    <3>2. QED
      BY <3>1, <2>4 DEF Applied, z0
  <2>6. QED
    BY <2>2, <2>5
<1>3. T = Nat
  <2> HIDE DEF T
  <2>1. T \in SUBSET Nat
    BY DEF T
  <2>2. QED
    BY <2>1, <1>1, <1>2, SetInduction
<1>4. N \in T
  BY <1>3
<1>5. QED
  BY <1>4

LEMMA ApplyingSteps ==
  ASSUME NEW l, NEW fs, Len(fs) \in Nat
  PROVE  /\ Applying(l, fs)[0] = [ok |-> TRUE, ledger |-> l]
         /\ \A k \in 1..Len(fs) :
              Applying(l, fs)[k] = ApplyOne(l, Applying(l, fs)[k - 1], fs[k])
<1> DEFINE n == Len(fs)
           P(p) == p = [k \in 0..n |->
                          IF k = 0 THEN [ok |-> TRUE, ledger |-> l]
                          ELSE IF p[k - 1].ok /\ Settles(p[k - 1].ledger, fs[k])
                          THEN [ok |-> TRUE, ledger |-> SettleFill(p[k - 1].ledger, fs[k])]
                          ELSE [ok |-> FALSE, ledger |-> l]]
           r == Applying(l, fs)
<1>1. PICK q : Applied(q, l, fs, n)
  BY AppliedExists
<1>2. P(q)
  BY <1>1 DEF Applied, ApplyOne
<1>3. P(CHOOSE p : P(p))
  BY <1>2
<1>4. r = CHOOSE p : P(p)
  BY DEF Applying
<1>5. Applied(r, l, fs, n)
  <2>1. P(r)
    BY <1>3, <1>4
  <2> HIDE DEF r
  <2>2. QED
    BY <2>1 DEF Applied, ApplyOne
<1> HIDE DEF r
<1>6. \A k \in 0..n : r[k] = IF k = 0 THEN [ok |-> TRUE, ledger |-> l]
                             ELSE ApplyOne(l, r[k - 1], fs[k])
  BY <1>5 DEF Applied
<1>7. r[0] = [ok |-> TRUE, ledger |-> l]
  <2>1. n \in Nat /\ 0 \in 0..n
    OBVIOUS
  <2> HIDE DEF n
  <2>2. QED
    BY <1>6, <2>1
<1>8. \A k \in 1..n : r[k] = ApplyOne(l, r[k - 1], fs[k])
  BY <1>6
<1>9. QED
  BY <1>7, <1>8 DEF r

LEMMA TransitionIs ==
  ASSUME NEW l, NEW fs
  PROVE  LET last == Applying(l, fs)[Len(fs)]
         IN  ApplyBatchTransition(l, fs)
               = [ok |-> /\ last.ok
                         /\ CashConserved(l, last.ledger)
                         /\ AssetsConserved(l, last.ledger, fs),
                  ledger |-> last.ledger]
  BY DEF ApplyBatchTransition, Applying

\* The total that add_inventory's overflow check is about, unbounded.
LEMMA InventoryTotalNat ==
  ASSUME NEW l, WellFormed(l), NEW x \in Instruments
  PROVE  InvSum(l, x) \in Nat
<1>1. \A b \in 1..NumAccounts : l.inv[x][b] \in Nat
  BY AccountRange, WordWidth DEF WellFormed, LedgerType, Account, Qty
<1>2. QED
  BY <1>1, AccountRange, TotalNat DEF InvSum

\* Without fills the ledger is as it was.
LEMMA TransitionWithoutFills ==
  ASSUME NEW l
  PROVE  ApplyBatchTransition(l, << >>).ledger = l
<1>1. Len(<< >>) = 0 /\ Len(<< >>) \in Nat
  OBVIOUS
<1>2. Applying(l, << >>)[0] = [ok |-> TRUE, ledger |-> l]
  BY <1>1, ApplyingSteps
<1>3. ApplyBatchTransition(l, << >>).ledger = Applying(l, << >>)[0].ledger
  BY <1>1, TransitionIs
<1>4. QED
  BY <1>2, <1>3

----------------------------------------------------------------------------
(***************************************************************************)
(* verify_transition on the engine's own result, on any ledger.            *)
(***************************************************************************)
LEMMA ResultVerifies ==
  ASSUME ClearingIInv, stage = "executed", NEW l, WellFormed(l), inst \in Instruments,
         NEW p, p.outcome = result.outcome, p.alloc = result.alloc,
         p.fills = result.fills, ApplyBatchTransition(l, result.fills).ok,
         p.post = ApplyBatchTransition(l, result.fills).ledger,
         InvSum(l, inst) <= MaxRaw \/ result.fills # << >>
  PROVE  VerifyTransition(l, batch, inst, sorted, p)
<1> DEFINE out == DetermineClearingOutcome(batch)
           post == ApplyBatchTransition(l, result.fills)
<1>1. /\ result.outcome = out
      /\ result = ExecutionOf(batch, inst, out, sorted)
  BY ExecutedOutcome DEF ClearingIInv, ResultIsTheExecution
<1>2. out.ok
  <2>1. ~CurvesOverflow(batch)
    BY DEF ClearingIInv, ResultIsTheExecution
  <2>2. QED
    BY <2>1 DEF DetermineClearingOutcome, Outcome
<1>3. FillsRespectOrders(batch, p.fills) /\ VolumeConserved(p.fills)
  BY EngineFillsRespectOrders, EngineVolumeConserved
<1>4. /\ CashConserved(l, post.ledger)
      /\ AssetsConserved(l, post.ledger, result.fills)
  <2> DEFINE last == Applying(l, result.fills)[Len(result.fills)]
  <2>1. post = [ok |-> /\ last.ok
                       /\ CashConserved(l, last.ledger)
                       /\ AssetsConserved(l, last.ledger, result.fills),
                ledger |-> last.ledger]
    BY TransitionIs
  <2> HIDE DEF last, post
  <2>2. post.ledger = last.ledger
    BY <2>1
  <2>3. post.ok
    BY DEF post
  <2>4. CashConserved(l, last.ledger) /\ AssetsConserved(l, last.ledger, result.fills)
    BY <2>1, <2>3
  <2>5. QED
    BY <2>2, <2>4
<1>5. /\ Err # TotalInventoryOf(l, inst)
      /\ TotalInventoryOf(l, inst) = TotalInventoryOf(post.ledger, inst)
  <2>1. CASE result.fills = << >>
    <3>1. post.ledger = l
      BY <2>1, TransitionWithoutFills
    <3>2. InvSum(l, inst) <= MaxRaw
      BY <2>1
    <3>3. InvSum(l, inst) \in Nat
      BY InventoryTotalNat
    <3>4. TotalInventoryOf(l, inst) = InvSum(l, inst)
      BY <3>2, <3>3, WordWidth DEF TotalInventoryOf, CheckedTotal, InvSum
    <3>5. QED
      BY <3>1, <3>3, <3>4 DEF Err
  <2>2. CASE result.fills # << >>
    <3>1. inst \in TouchedInstruments(result.fills)
      <4>1. Len(result.fills) \in Nat /\ 1 \in 1..Len(result.fills)
        <5>1. Volume # 0 /\ Len(result.fills) \in Nat
          BY <2>2, EngineFills
        <5>2. \E m \in Nat : \E F : result.fills = [k \in 1..m |-> F[k]]
          <6> DEFINE m == FillId(batch, result.alloc, Len(batch))
                     F == [k \in 1..m |->
                             FillCreate(k - 1, batch[FilledOrder(batch, result.alloc, k)],
                                        inst, ClearingPrice,
                                        result.alloc[FilledOrder(batch, result.alloc, k)])]
          <6>1. /\ Len(batch) \in Nat /\ (Volume = 0 <=> ClearingPrice = NoPrice)
                /\ result.fills = GenerateCanonicalFills(batch, inst, result.outcome,
                                                         result.alloc)
            BY ExecutedOutcome DEF WellFormedBatch
          <6>2. result.fills = F
            BY <5>1, <6>1 DEF GenerateCanonicalFills, ClearingPrice, Volume
          <6>3. m \in Nat
            BY <6>1, FillsListTheFilled
          <6>4. F = [k \in 1..m |-> F[k]]
            OBVIOUS
          <6> HIDE DEF F, m
          <6>5. QED
            BY <6>2, <6>3, <6>4
        <5>3. PICK m \in Nat : \E F : result.fills = [k \in 1..m |-> F[k]]
          BY <5>2
        <5>4. Len(result.fills) = m
          BY <5>3
        <5>5. m # 0
          <6>1. ASSUME m = 0 PROVE FALSE
            <7>1. result.fills = << >>
              BY <5>3, <6>1
            <7>2. QED
              BY <7>1, <2>2
          <6>2. QED
            BY <6>1
        <5>6. QED
          BY <5>1, <5>4, <5>5
      <4>2. \E i \in Orders : result.fills[1] = FillCreate(1 - 1, batch[i], inst,
                                                 ClearingPrice, result.alloc[i])
        BY <4>1, EngineFills
      <4>3. result.fills[1].instrument = inst
        BY <4>2 DEF FillCreate
      <4>4. QED
        BY <4>1, <4>3 DEF TouchedInstruments
    <3>2. QED
      BY <3>1, <1>4 DEF AssetsConserved
  <2>3. QED
    BY <2>1, <2>2
<1>6. MatchesReconstruction(l, p, inst)
  BY DEF MatchesReconstruction
<1>7. /\ p.outcome = out
      /\ p.alloc = ExecutionOf(batch, inst, out, sorted).alloc
      /\ p.fills = ExecutionOf(batch, inst, out, sorted).fills
  BY <1>1
<1> HIDE DEF out, post
<1>8. p.post = post.ledger
  BY DEF post
<1>9. QED
  BY <1>2, <1>3, <1>4, <1>5, <1>6, <1>7, <1>8 DEF VerifyTransition, out

\* What the checker concludes of a proposal it accepts, on any ledger.
LEMMA VerifiedResult ==
  ASSUME ClearingIInv, stage = "executed", NEW l, NEW p,
         VerifyTransition(l, batch, inst, sorted, p)
  PROVE  /\ p.outcome = result.outcome
         /\ p.alloc = result.alloc
         /\ p.fills = result.fills
         /\ Err # TotalInventoryOf(l, inst)
         /\ ApplyBatchTransition(l, result.fills).ok
         /\ p.post.accounts = ApplyBatchTransition(l, result.fills).ledger.accounts
         /\ \A a \in p.post.accounts :
              /\ p.post.cash[a] = ApplyBatchTransition(l, result.fills).ledger.cash[a]
              /\ p.post.inv[inst][a]
                   = ApplyBatchTransition(l, result.fills).ledger.inv[inst][a]
<1> DEFINE out == DetermineClearingOutcome(batch)
           expected == ExecutionOf(batch, inst, out, sorted)
<1>1. result.outcome = out /\ result = expected
  BY ExecutedOutcome DEF ClearingIInv, ResultIsTheExecution
<1> HIDE DEF out
<1>2. /\ p.outcome = out /\ p.alloc = expected.alloc /\ p.fills = expected.fills
      /\ Err # TotalInventoryOf(l, inst)
      /\ MatchesReconstruction(l, p, inst)
  BY DEF VerifyTransition, out
<1>3. p.outcome = result.outcome /\ p.alloc = result.alloc /\ p.fills = result.fills
  BY <1>1, <1>2
<1>4. QED
  BY <1>2, <1>3 DEF MatchesReconstruction

----------------------------------------------------------------------------
(***************************************************************************)
(* Settling the fills of an execution, as SettlementProofs knows it.       *)
(***************************************************************************)
SL == INSTANCE SettlementProofs WITH FillLists <- Seq(FillType), ledger <- pre,
                                     work <- pre, fills <- << >>, cursor <- 1,
                                     phase <- "idle", verdict <- "none"

LEMMA SameLedgers ==
  /\ SL!LedgerType = LedgerType /\ SL!FillType = FillType
  /\ \A l : SL!WellFormed(l) <=> WellFormed(l)
  /\ \A l, f : SL!Settles(l, f) <=> Settles(l, f)
  /\ \A l, f : SL!SettleFill(l, f) = SettleFill(l, f)
  /\ \A f : SL!CashEffect(f) = CashEffect(f) /\ SL!QtyEffect(f) = QtyEffect(f)
<1>1. SL!LedgerType = LedgerType /\ SL!FillType = FillType /\ SL!Account = Account
  BY DEF SL!LedgerType, LedgerType, SL!FillType, FillType, SL!Account, Account,
         SL!Money, Money, SL!Qty, Qty, SL!Price, Price, SL!Sides, Sides
<1>2. \A l : SL!WellFormed(l) <=> WellFormed(l)
  BY <1>1 DEF SL!WellFormed, WellFormed
<1>3. \A l, f : SL!Settles(l, f) <=> Settles(l, f)
  BY DEF SL!Settles, Settles, SL!CheckedSub, CheckedSub, SL!CheckedAdd, CheckedAdd,
         SL!Err, Err
<1>4. \A f : SL!CashEffect(f) = CashEffect(f) /\ SL!QtyEffect(f) = QtyEffect(f)
  BY DEF SL!CashEffect, CashEffect, SL!QtyEffect, QtyEffect
<1>5. \A l, f : SL!SettleFill(l, f) = SettleFill(l, f)
  BY DEF SL!SettleFill, SettleFill, SL!GetOrCreateAccount, GetOrCreateAccount,
         SL!CashEffect, CashEffect, SL!QtyEffect, QtyEffect
<1>6. QED
  BY <1>1, <1>2, <1>3, <1>4, <1>5

LEMMA LedgerAssumptions ==
  /\ SL!InitialLedgersOK /\ SL!FillListsOK
  /\ SL!WordWidth /\ SL!MoneyWidth /\ SL!AccountRange
<1>1. SL!InitialLedgersOK
  BY CheckedLedgersOK, SameLedgers DEF SL!InitialLedgersOK
<1>2. SL!FillListsOK
  BY SameLedgers DEF SL!FillListsOK
<1>3. QED
  BY <1>1, <1>2, WordWidth, MoneyWidth, AccountRange
     DEF SL!WordWidth, SL!MoneyWidth, SL!AccountRange

\* A fill that settles is of an account in the map, and leaves a ledger that
\* differs by its effect alone.
LEMMA SettledStep ==
  ASSUME NEW l, WellFormed(l), NEW f \in FillType, f.consideration >= 1, Settles(l, f)
  PROVE  /\ f.account \in l.accounts
         /\ WellFormed(SettleFill(l, f))
         /\ SettleFill(l, f).accounts = l.accounts
         /\ SettleFill(l, f).cash = [l.cash EXCEPT ![f.account] = @ + CashEffect(f)]
         /\ SettleFill(l, f).inv
              = [l.inv EXCEPT ![f.instrument][f.account] = @ + QtyEffect(f)]
<1>1. SL!WellFormed(l) /\ f \in SL!FillType /\ SL!Settles(l, f)
  BY SameLedgers
<1>2. f.account \in l.accounts
  BY <1>1, SL!SettlingAccountExists, LedgerAssumptions DEF SL!SettlingAccountExists
<1>3. /\ SL!WellFormed(SL!SettleFill(l, f))
      /\ SL!SettleFill(l, f).accounts = l.accounts
      /\ SL!SettleFill(l, f).cash = [l.cash EXCEPT ![f.account] = @ + SL!CashEffect(f)]
      /\ SL!SettleFill(l, f).inv
           = [l.inv EXCEPT ![f.instrument][f.account] = @ + SL!QtyEffect(f)]
  BY <1>1, <1>2, SL!SettledLedger, LedgerAssumptions DEF SL!SettledLedger
<1>4. /\ SL!SettleFill(l, f) = SettleFill(l, f)
      /\ SL!CashEffect(f) = CashEffect(f) /\ SL!QtyEffect(f) = QtyEffect(f)
  BY SameLedgers
<1>5. WellFormed(SettleFill(l, f))
  BY <1>3, <1>4, SameLedgers
<1>6. QED
  BY <1>2, <1>3, <1>4, <1>5

\* What the fills move on an account.
CashMoved(fs, a) ==
  [k \in 1..Len(fs) |-> IF fs[k].account = a THEN CashEffect(fs[k]) ELSE 0]
LotsMoved(fs, a) ==
  [k \in 1..Len(fs) |-> IF fs[k].account = a THEN QtyEffect(fs[k]) ELSE 0]

LEMMA MovesAreIntegers ==
  ASSUME NEW fs \in Seq(FillType), NEW a
  PROVE  \A k \in 1..Len(fs) : CashMoved(fs, a)[k] \in Int /\ LotsMoved(fs, a)[k] \in Int
<1>1. ASSUME NEW k \in 1..Len(fs)
      PROVE  CashMoved(fs, a)[k] \in Int /\ LotsMoved(fs, a)[k] \in Int
  <2>1. fs[k] \in FillType
    OBVIOUS
  <2>2. fs[k].consideration \in Nat /\ fs[k].fill_qty \in Nat
    <3>1. PICK f \in FillType : f = fs[k]
      BY <2>1
    <3>2. f.consideration \in Money /\ f.fill_qty \in Price
      BY DEF FillType
    <3>3. QED
      BY <3>1, <3>2, WordWidth, MoneyWidth DEF Money, Price
  <2>3. CashEffect(fs[k]) \in Int /\ QtyEffect(fs[k]) \in Int
    BY <2>2 DEF CashEffect, QtyEffect
  <2>4. QED
    BY <2>3 DEF CashMoved, LotsMoved
<1>2. QED
  BY <1>1

\* apply_batch_transition: the ledger it leaves is well formed and of the same
\* accounts, and when it succeeds each account has moved by its fills.
LEMMA TransitionLedger ==
  ASSUME NEW l, WellFormed(l), NEW fs \in Seq(FillType), NEW x \in Instruments,
         \A k \in 1..Len(fs) : fs[k].consideration >= 1 /\ fs[k].instrument = x
  PROVE  LET t == ApplyBatchTransition(l, fs)
         IN  /\ WellFormed(t.ledger) /\ t.ledger.accounts = l.accounts
             /\ t.ok => \A a \in Account :
                  /\ t.ledger.cash[a] = l.cash[a] + Total(CashMoved(fs, a), Len(fs))
                  /\ t.ledger.inv[x][a] = l.inv[x][a] + Total(LotsMoved(fs, a), Len(fs))
<1>1. PICK n \in Nat, r \in {Applying(l, fs)} : n = Len(fs)
  OBVIOUS
<1>2. /\ r[0] = [ok |-> TRUE, ledger |-> l]
      /\ \A k \in 1..n : r[k] = ApplyOne(l, r[k - 1], fs[k])
  BY <1>1, ApplyingSteps
<1> DEFINE moved(m, k) == \A a \in Account :
             /\ m.cash[a] = l.cash[a] + Total(CashMoved(fs, a), k)
             /\ m.inv[x][a] = l.inv[x][a] + Total(LotsMoved(fs, a), k)
           good(s, k) == /\ WellFormed(s.ledger) /\ s.ledger.accounts = l.accounts
                         /\ s.ok => moved(s.ledger, k)
           T == {k \in Nat : k <= n => good(r[k], k)}
<1>3. \A a \in Account : l.cash[a] \in Int /\ l.inv[x][a] \in Int
  BY WordWidth, MoneyWidth DEF WellFormed, LedgerType, Money, Qty
<1>4. 0 \in T
  <2>1. r[0].ledger = l
    BY <1>2
  <2>2. moved(l, 0)
    BY <1>3, TotalZero
  <2> HIDE DEF moved
  <2>3. good(r[0], 0)
    BY <2>1, <2>2
  <2>4. QED
    BY <2>3
<1>5. ASSUME NEW k \in T PROVE k + 1 \in T
  <2>1. SUFFICES ASSUME k + 1 <= n PROVE good(r[k + 1], k + 1)
    OBVIOUS
  <2>2. k \in Nat /\ k + 1 \in 1..n /\ (k + 1) - 1 = k /\ k <= n
    BY <2>1
  <2>3. good(r[k], k)
    BY <2>2
  <2>4. PICK m, f, s : m = r[k].ledger /\ f = fs[k + 1] /\ s = r[k + 1]
    OBVIOUS
  <2>5. s = ApplyOne(l, r[k], f)
    BY <1>2, <2>2, <2>4
  <2>6. CASE ~(r[k].ok /\ Settles(m, f))
    <3>1. s = [ok |-> FALSE, ledger |-> l]
      BY <2>4, <2>5, <2>6 DEF ApplyOne
    <3> HIDE DEF moved
    <3>2. good(s, k + 1)
      BY <3>1
    <3>3. QED
      BY <2>4, <3>2
  <2>7. CASE r[k].ok /\ Settles(m, f)
    <3>1. s = [ok |-> TRUE, ledger |-> SettleFill(m, f)]
      BY <2>4, <2>5, <2>7 DEF ApplyOne
    <3>2. f \in FillType /\ f.consideration >= 1 /\ f.instrument = x
      BY <1>1, <2>2, <2>4
    <3>3. WellFormed(m) /\ m.accounts = l.accounts /\ moved(m, k)
      BY <2>3, <2>4, <2>7
    <3>4. PICK q : q = SettleFill(m, f)
      OBVIOUS
    <3>5. /\ WellFormed(q) /\ q.accounts = m.accounts /\ f.account \in m.accounts
          /\ q.cash = [m.cash EXCEPT ![f.account] = @ + CashEffect(f)]
          /\ q.inv = [m.inv EXCEPT ![x][f.account] = @ + QtyEffect(f)]
      <4> HIDE DEF moved
      <4>1. QED
        BY <2>7, <3>2, <3>3, <3>4, SettledStep, ZenonT(60)
    <3>6. ASSUME NEW a \in Account
          PROVE  /\ q.cash[a] = l.cash[a] + Total(CashMoved(fs, a), k + 1)
                 /\ q.inv[x][a] = l.inv[x][a] + Total(LotsMoved(fs, a), k + 1)
      <4>1. PICK c, d : c = CashMoved(fs, a) /\ d = LotsMoved(fs, a)
        OBVIOUS
      <4>2. \A j \in 1..(k + 1) : c[j] \in Int /\ d[j] \in Int
        <5>1. \A j \in 1..(k + 1) : j \in 1..Len(fs)
          BY <1>1, <2>2
        <5>2. QED
          BY <4>1, <5>1, MovesAreIntegers
      <4>3. /\ Total(c, k) \in Int /\ Total(c, k + 1) = Total(c, k) + c[k + 1]
            /\ Total(d, k) \in Int /\ Total(d, k + 1) = Total(d, k) + d[k + 1]
        BY <2>2, <4>2, TotalStep
      <4>4. /\ c[k + 1] = IF f.account = a THEN CashEffect(f) ELSE 0
            /\ d[k + 1] = IF f.account = a THEN QtyEffect(f) ELSE 0
        BY <1>1, <2>2, <2>4, <4>1 DEF CashMoved, LotsMoved
      <4>5. c[k + 1] \in Int /\ d[k + 1] \in Int
        BY <2>2, <4>2
      <4>6. /\ m.cash[a] = l.cash[a] + Total(c, k)
            /\ m.inv[x][a] = l.inv[x][a] + Total(d, k)
        BY <3>3, <4>1
      <4>7. m.cash \in [Account -> Money] /\ m.inv \in [Instruments -> [Account -> Qty]]
            /\ f.account \in Account
        BY <3>2, <3>3 DEF WellFormed, LedgerType, FillType
      <4>8. q.cash[a] = m.cash[a] + c[k + 1]
        <5>1. m.cash[a] \in Int
          BY <1>3, <4>3, <4>6
        <5>2. QED
          BY <3>5, <4>4, <4>7, <5>1
      <4>9. q.inv[x][a] = m.inv[x][a] + d[k + 1]
        <5>1. m.inv[x][a] \in Int
          BY <1>3, <4>3, <4>6
        <5>2. QED
          BY <3>5, <4>4, <4>7, <5>1
      <4>10. QED
        BY <1>3, <4>1, <4>3, <4>5, <4>6, <4>8, <4>9, SMTT(30)
    <3>7. moved(q, k + 1)
      BY <3>6
    <3> HIDE DEF moved
    <3>8. good(s, k + 1)
      BY <3>1, <3>3, <3>4, <3>5, <3>7
    <3>9. QED
      BY <2>4, <3>8
  <2>8. QED
    BY <2>6, <2>7
<1>6. T = Nat
  <2> HIDE DEF T
  <2>1. T \in SUBSET Nat
    BY DEF T
  <2>2. QED
    BY <2>1, <1>4, <1>5, SetInduction
<1>7. good(r[n], n)
  <2>1. n \in T
    BY <1>6
  <2>2. QED
    BY <2>1
<1>8. /\ ApplyBatchTransition(l, fs).ledger = r[n].ledger
      /\ ApplyBatchTransition(l, fs).ok => r[n].ok
  BY <1>1, TransitionIs
<1>9. QED
  BY <1>1, <1>7, <1>8

\* The fills of an execution are fills of its instrument, and each costs
\* something.
LEMMA ExecutionFillTypes ==
  ASSUME NEW B, NEW X \in Instruments, NEW S, NEW R, Executes(B, X, S, R),
         \A i \in 1..Len(B) : B[i].account \in Account
  PROVE  /\ R.fills \in Seq(FillType)
         /\ \A k \in 1..Len(R.fills) :
              R.fills[k].consideration >= 1 /\ R.fills[k].instrument = X
<1>1. /\ VolumeOf(R) \in Nat /\ Len(B) \in Nat /\ WellFormedBatch(B)
      /\ (VolumeOf(R) = 0 <=> PriceOf(R) = NoPrice)
      /\ (VolumeOf(R) > 0 => PriceOf(R) \in Price)
      /\ R.fills = GenerateCanonicalFills(B, X, R.outcome, R.alloc)
  BY ExecutionOutcome DEF WellFormedBatch
<1>2. /\ Len(R.fills) \in Nat
      /\ \A k \in 1..Len(R.fills) : \E i \in 1..Len(B) :
              /\ R.alloc[i] > 0 /\ VolumeOf(R) > 0
              /\ R.fills[k] = FillCreate(k - 1, B[i], X, PriceOf(R), R.alloc[i])
  BY ExecutionFills
<1>3. ASSUME NEW k \in 1..Len(R.fills)
      PROVE  /\ R.fills[k] \in FillType
             /\ R.fills[k].consideration >= 1 /\ R.fills[k].instrument = X
  <2>1. PICK i \in 1..Len(B) :
          /\ R.alloc[i] > 0 /\ VolumeOf(R) > 0
          /\ R.fills[k] = FillCreate(k - 1, B[i], X, PriceOf(R), R.alloc[i])
    BY <1>2
  <2>2. /\ R.alloc[i] \in Nat /\ R.alloc[i] <= B[i].qty /\ B[i].qty \in Qty
        /\ B[i].side \in Sides
    BY <2>1, ExecutionQualifies
  <2>3. PICK a, p : a = R.alloc[i] /\ p = PriceOf(R)
    OBVIOUS
  <2>4. a \in Price /\ a \in Qty /\ p \in Price
    BY <1>1, <2>1, <2>2, <2>3, WordWidth DEF Price, Qty
  <2>5. FromPriceQty(p, a) = p * a
    BY <2>4, ConsiderationFits
  <2>6. p \in Nat /\ p <= MaxRaw /\ p >= 1 /\ a \in Nat /\ a <= MaxRaw /\ a >= 1
        /\ MaxRaw \in Nat
    BY <2>4, WordWidth DEF Price
  <2>7. p * a <= p * MaxRaw /\ MaxRaw * p <= MaxRaw * MaxRaw
    BY <2>6, ProductsGrow
  <2>8. p * a \in Nat /\ p * MaxRaw = MaxRaw * p /\ p * MaxRaw \in Nat
    BY <2>6
  <2>9. p * a \in Money
    BY <2>6, <2>7, <2>8, MoneyWidth DEF Money
  <2>10. p * a >= 1
    <3>1. p * 1 <= p * a
      BY <2>6, ProductsGrow
    <3>2. QED
      BY <2>6, <2>8, <3>1
  <2>11. k - 1 \in Nat /\ B[i].id \in Nat /\ B[i].account \in Account
    BY <1>1, <1>2, SMTT(30) DEF WellFormedBatch, WellFormedOrder
  <2>12. R.fills[k] = FillCreate(k - 1, B[i], X, p, a)
    BY <2>1, <2>3
  <2>13. QED
    BY <2>2, <2>4, <2>5, <2>9, <2>10, <2>11, <2>12 DEF FillCreate, FillType
<1>4. R.fills \in Seq(FillType)
  <2>1. R.fills = [k \in 1..Len(R.fills) |-> R.fills[k]]
    <3>1. CASE VolumeOf(R) = 0
      <4>1. R.fills = << >>
        BY <3>1, ExecutionFills
      <4>2. QED
        BY <4>1
    <3>2. CASE VolumeOf(R) > 0
      <4> DEFINE m == FillId(B, R.alloc, Len(B))
      <4>1. Len(R.fills) = m
        BY <3>2, ExecutionFillAt
      <4>2. R.outcome.clearing_price # NoPrice /\ R.outcome.executable_volume # 0
        BY <1>1, <3>2 DEF VolumeOf, PriceOf
      <4>3. R.fills = [k \in 1..m |->
               LET i == FilledOrder(B, R.alloc, k)
               IN  FillCreate(k - 1, B[i], X, R.outcome.clearing_price, R.alloc[i])]
        BY <1>1, <4>2 DEF GenerateCanonicalFills
      <4> HIDE DEF m
      <4>4. R.fills = [k \in 1..m |-> R.fills[k]]
        BY <4>3
      <4>5. QED
        BY <4>1, <4>4
    <3>3. QED
      BY <1>1, <3>1, <3>2
  <2>2. PICK fs \in {R.fills}, n \in Nat : fs = R.fills /\ n = Len(R.fills)
    BY <1>2
  <2>3. fs = [k \in 1..n |-> fs[k]] /\ \A k \in 1..n : fs[k] \in FillType
    BY <1>3, <2>1, <2>2
  <2>4. fs \in Seq(FillType)
    BY <2>3
  <2>5. QED
    BY <2>2, <2>4
<1>5. QED
  BY <1>3, <1>4

----------------------------------------------------------------------------
(***************************************************************************)
(* Merkle trees.  The three loops of merkle.cpp, step by step: the layers  *)
(* from the leaves up, the index on the way up, and the hashes of a path.  *)
(***************************************************************************)
Vector(s) == \E n \in Nat : s = [i \in 1..n |-> s[i]]

LEMMA VectorLength ==
  ASSUME NEW s, Vector(s)
  PROVE  Len(s) \in Nat /\ s = [i \in 1..Len(s) |-> s[i]]
<1>1. PICK n \in Nat : s = [i \in 1..n |-> s[i]]
  BY DEF Vector
<1>2. Len(s) = n
  BY <1>1
<1>3. QED
  BY <1>1, <1>2

Above(layer) == IF Len(layer) > 1 THEN NextLayer(layer) ELSE layer

Layered(p, leaves, n) ==
  p = [k \in 0..n |-> IF k = 0 THEN leaves ELSE Above(p[k - 1])]

LEMMA LayersExist ==
  ASSUME NEW N \in Nat, NEW leaves
  PROVE  \E p : Layered(p, leaves, N)
<1> DEFINE T == {n \in Nat : \E p : Layered(p, leaves, n)}
<1>1. 0 \in T
  <2> DEFINE z == [k \in 0..0 |-> leaves]
  <2>1. z = [k \in 0..0 |-> IF k = 0 THEN leaves ELSE Above(z[k - 1])]
    OBVIOUS
  <2>2. Layered(z, leaves, 0)
    BY <2>1 DEF Layered
  <2>3. QED
    BY <2>2
<1>2. ASSUME NEW n \in T PROVE n + 1 \in T
  <2>1. PICK p : Layered(p, leaves, n)
    OBVIOUS
  <2> DEFINE e == Above(p[n])
             q == [k \in 0..(n + 1) |-> IF k = n + 1 THEN e ELSE p[k]]
  <2>2. n \in Nat
    OBVIOUS
  <2>3. \A k \in 0..n : p[k] = IF k = 0 THEN leaves ELSE Above(p[k - 1])
    BY <2>1 DEF Layered
  <2>4. ASSUME NEW k \in 0..(n + 1)
        PROVE  q[k] = IF k = 0 THEN leaves ELSE Above(q[k - 1])
    <3>1. CASE k = n + 1
      <4>1. q[k] = e /\ q[k - 1] = p[n] /\ k # 0
        BY <2>2, <3>1
      <4>2. QED
        BY <4>1, <3>1
    <3>2. CASE k # n + 1 /\ k # 0
      <4>1. q[k] = p[k] /\ q[k - 1] = p[k - 1] /\ k \in 0..n
        BY <2>2, <3>2
      <4>2. QED
        BY <4>1, <3>2, <2>3
    <3>3. CASE k = 0
      <4>1. q[k] = p[k] /\ k \in 0..n
        BY <2>2, <3>3
      <4>2. QED
        BY <4>1, <3>3, <2>3
    <3>4. QED
      BY <3>1, <3>2, <3>3
  <2>5. Layered(q, leaves, n + 1)
    <3>1. q = [k \in 0..(n + 1) |-> q[k]]
      OBVIOUS
    <3> HIDE DEF q
    <3>2. QED
      BY <3>1, <2>4 DEF Layered
  <2>6. QED
    BY <2>2, <2>5
<1>3. T = Nat
  <2> HIDE DEF T
  <2>1. T \in SUBSET Nat
    BY DEF T
  <2>2. QED
    BY <2>1, <1>1, <1>2, SetInduction
<1>4. N \in T
  BY <1>3
<1>5. QED
  BY <1>4

LEMMA LayersSteps ==
  ASSUME NEW leaves, Len(leaves) \in Nat
  PROVE  /\ Layers(leaves)[0] = leaves
         /\ \A k \in 1..Len(leaves) : Layers(leaves)[k] = Above(Layers(leaves)[k - 1])
<1> DEFINE n == Len(leaves)
           P(p) == p = [k \in 0..n |-> IF k = 0 THEN leaves
                          ELSE IF Len(p[k - 1]) > 1 THEN NextLayer(p[k - 1])
                                 ELSE p[k - 1]]
           r == Layers(leaves)
<1>1. PICK q : Layered(q, leaves, n)
  BY LayersExist
<1>2. P(q)
  BY <1>1 DEF Layered, Above
<1>3. P(CHOOSE p : P(p))
  BY <1>2
<1>4. r = CHOOSE p : P(p)
  BY DEF Layers
<1>5. Layered(r, leaves, n)
  <2>1. P(r)
    BY <1>3, <1>4
  <2> HIDE DEF r
  <2>2. QED
    BY <2>1 DEF Layered, Above
<1> HIDE DEF r
<1>6. \A k \in 0..n : r[k] = IF k = 0 THEN leaves ELSE Above(r[k - 1])
  BY <1>5 DEF Layered
<1>7. r[0] = leaves
  <2>1. n \in Nat /\ 0 \in 0..n
    OBVIOUS
  <2> HIDE DEF n
  <2>2. QED
    BY <1>6, <2>1
<1>8. \A k \in 1..n : r[k] = Above(r[k - 1])
  BY <1>6
<1>9. QED
  BY <1>7, <1>8 DEF r

Halving(p, index, n) ==
  p = [k \in 0..n |-> IF k = 0 THEN index ELSE p[k - 1] \div 2]

Halves(index, n) ==
  LET idx[d \in 0..n] == IF d = 0 THEN index ELSE idx[d - 1] \div 2
  IN  idx

LEMMA HalvesExist ==
  ASSUME NEW N \in Nat, NEW index
  PROVE  \E p : Halving(p, index, N)
<1> DEFINE T == {n \in Nat : \E p : Halving(p, index, n)}
<1>1. 0 \in T
  <2> DEFINE z == [k \in 0..0 |-> index]
  <2>1. z = [k \in 0..0 |-> IF k = 0 THEN index ELSE z[k - 1] \div 2]
    OBVIOUS
  <2>2. Halving(z, index, 0)
    BY <2>1 DEF Halving
  <2>3. QED
    BY <2>2
<1>2. ASSUME NEW n \in T PROVE n + 1 \in T
  <2>1. PICK p : Halving(p, index, n)
    OBVIOUS
  <2> DEFINE e == p[n] \div 2
             q == [k \in 0..(n + 1) |-> IF k = n + 1 THEN e ELSE p[k]]
  <2>2. n \in Nat
    OBVIOUS
  <2>3. \A k \in 0..n : p[k] = IF k = 0 THEN index ELSE p[k - 1] \div 2
    BY <2>1 DEF Halving
  <2>4. ASSUME NEW k \in 0..(n + 1)
        PROVE  q[k] = IF k = 0 THEN index ELSE q[k - 1] \div 2
    <3>1. CASE k = n + 1
      <4>1. q[k] = e /\ q[k - 1] = p[n] /\ k # 0
        BY <2>2, <3>1
      <4>2. QED
        BY <4>1, <3>1
    <3>2. CASE k # n + 1 /\ k # 0
      <4>1. q[k] = p[k] /\ q[k - 1] = p[k - 1] /\ k \in 0..n
        BY <2>2, <3>2
      <4>2. QED
        BY <4>1, <3>2, <2>3
    <3>3. CASE k = 0
      <4>1. q[k] = p[k] /\ k \in 0..n
        BY <2>2, <3>3
      <4>2. QED
        BY <4>1, <3>3, <2>3
    <3>4. QED
      BY <3>1, <3>2, <3>3
  <2>5. Halving(q, index, n + 1)
    <3>1. q = [k \in 0..(n + 1) |-> q[k]]
      OBVIOUS
    <3> HIDE DEF q
    <3>2. QED
      BY <3>1, <2>4 DEF Halving
  <2>6. QED
    BY <2>2, <2>5
<1>3. T = Nat
  <2> HIDE DEF T
  <2>1. T \in SUBSET Nat
    BY DEF T
  <2>2. QED
    BY <2>1, <1>1, <1>2, SetInduction
<1>4. N \in T
  BY <1>3
<1>5. QED
  BY <1>4

LEMMA HalvesSteps ==
  ASSUME NEW index, NEW N \in Nat
  PROVE  /\ Halves(index, N)[0] = index
         /\ \A k \in 1..N : Halves(index, N)[k] = Halves(index, N)[k - 1] \div 2
<1> DEFINE n == N
           P(p) == p = [k \in 0..n |-> IF k = 0 THEN index ELSE p[k - 1] \div 2]
           r == Halves(index, N)
<1>1. PICK q : Halving(q, index, n)
  BY HalvesExist
<1>2. P(q)
  BY <1>1 DEF Halving
<1>3. P(CHOOSE p : P(p))
  BY <1>2
<1>4. r = CHOOSE p : P(p)
  BY DEF Halves
<1>5. Halving(r, index, n)
  <2>1. P(r)
    BY <1>3, <1>4
  <2> HIDE DEF r
  <2>2. QED
    BY <2>1 DEF Halving
<1> HIDE DEF r
<1>6. \A k \in 0..n : r[k] = IF k = 0 THEN index ELSE r[k - 1] \div 2
  BY <1>5 DEF Halving
<1>7. r[0] = index
  <2>1. n \in Nat /\ 0 \in 0..n
    OBVIOUS
  <2> HIDE DEF n
  <2>2. QED
    BY <1>6, <2>1
<1>8. \A k \in 1..n : r[k] = r[k - 1] \div 2
  BY <1>6
<1>9. QED
  BY <1>7, <1>8 DEF r

Joined(step, node) ==
  IF step.side = "Left" THEN CombineNodes(step.sibling, node)
                        ELSE CombineNodes(node, step.sibling)

Climbed(p, path, leaf, n) ==
  p = [k \in 0..n |-> IF k = 0 THEN leaf ELSE Joined(path[k], p[k - 1])]

Climb(path, leaf) ==
  LET node[k \in 0..Len(path)] ==
        IF k = 0 THEN leaf
        ELSE IF path[k].side = "Left"
        THEN CombineNodes(path[k].sibling, node[k - 1])
        ELSE CombineNodes(node[k - 1], path[k].sibling)
  IN  node

LEMMA ClimbExists ==
  ASSUME NEW N \in Nat, NEW path, NEW leaf
  PROVE  \E p : Climbed(p, path, leaf, N)
<1> DEFINE T == {n \in Nat : \E p : Climbed(p, path, leaf, n)}
<1>1. 0 \in T
  <2> DEFINE z == [k \in 0..0 |-> leaf]
  <2>1. z = [k \in 0..0 |-> IF k = 0 THEN leaf ELSE Joined(path[k], z[k - 1])]
    OBVIOUS
  <2>2. Climbed(z, path, leaf, 0)
    BY <2>1 DEF Climbed
  <2>3. QED
    BY <2>2
<1>2. ASSUME NEW n \in T PROVE n + 1 \in T
  <2>1. PICK p : Climbed(p, path, leaf, n)
    OBVIOUS
  <2> DEFINE e == Joined(path[n + 1], p[n])
             q == [k \in 0..(n + 1) |-> IF k = n + 1 THEN e ELSE p[k]]
  <2>2. n \in Nat
    OBVIOUS
  <2>3. \A k \in 0..n : p[k] = IF k = 0 THEN leaf ELSE Joined(path[k], p[k - 1])
    BY <2>1 DEF Climbed
  <2>4. ASSUME NEW k \in 0..(n + 1)
        PROVE  q[k] = IF k = 0 THEN leaf ELSE Joined(path[k], q[k - 1])
    <3>1. CASE k = n + 1
      <4>1. q[k] = e /\ q[k - 1] = p[n] /\ k # 0
        BY <2>2, <3>1
      <4>2. QED
        BY <4>1, <3>1
    <3>2. CASE k # n + 1 /\ k # 0
      <4>1. q[k] = p[k] /\ q[k - 1] = p[k - 1] /\ k \in 0..n
        BY <2>2, <3>2
      <4>2. QED
        BY <4>1, <3>2, <2>3
    <3>3. CASE k = 0
      <4>1. q[k] = p[k] /\ k \in 0..n
        BY <2>2, <3>3
      <4>2. QED
        BY <4>1, <3>3, <2>3
    <3>4. QED
      BY <3>1, <3>2, <3>3
  <2>5. Climbed(q, path, leaf, n + 1)
    <3>1. q = [k \in 0..(n + 1) |-> q[k]]
      OBVIOUS
    <3> HIDE DEF q
    <3>2. QED
      BY <3>1, <2>4 DEF Climbed
  <2>6. QED
    BY <2>2, <2>5
<1>3. T = Nat
  <2> HIDE DEF T
  <2>1. T \in SUBSET Nat
    BY DEF T
  <2>2. QED
    BY <2>1, <1>1, <1>2, SetInduction
<1>4. N \in T
  BY <1>3
<1>5. QED
  BY <1>4

LEMMA ClimbSteps ==
  ASSUME NEW path, NEW leaf, Len(path) \in Nat
  PROVE  /\ Climb(path, leaf)[0] = leaf
         /\ \A k \in 1..Len(path) : Climb(path, leaf)[k] = Joined(path[k], Climb(path, leaf)[k - 1])
<1> DEFINE n == Len(path)
           P(p) == p = [k \in 0..n |-> IF k = 0 THEN leaf ELSE IF path[k].side = "Left"
                                 THEN CombineNodes(path[k].sibling, p[k - 1])
                                 ELSE CombineNodes(p[k - 1], path[k].sibling)]
           r == Climb(path, leaf)
<1>1. PICK q : Climbed(q, path, leaf, n)
  BY ClimbExists
<1>2. P(q)
  BY <1>1 DEF Climbed, Joined
<1>3. P(CHOOSE p : P(p))
  BY <1>2
<1>4. r = CHOOSE p : P(p)
  BY DEF Climb
<1>5. Climbed(r, path, leaf, n)
  <2>1. P(r)
    BY <1>3, <1>4
  <2> HIDE DEF r
  <2>2. QED
    BY <2>1 DEF Climbed, Joined
<1> HIDE DEF r
<1>6. \A k \in 0..n : r[k] = IF k = 0 THEN leaf ELSE Joined(path[k], r[k - 1])
  BY <1>5 DEF Climbed
<1>7. r[0] = leaf
  <2>1. n \in Nat /\ 0 \in 0..n
    OBVIOUS
  <2> HIDE DEF n
  <2>2. QED
    BY <1>6, <2>1
<1>8. \A k \in 1..n : r[k] = Joined(path[k], r[k - 1])
  BY <1>6
<1>9. QED
  BY <1>7, <1>8 DEF r

LEMMA OneOrMore ==
  ASSUME NEW m \in Nat \ {0}
  PROVE  m = 1 \/ m > 1
  OBVIOUS

LEMMA HalfBelow ==
  ASSUME NEW x \in Nat, NEW m \in Nat, x < m
  PROVE  x \div 2 \in Nat /\ x \div 2 < (m + 1) \div 2
  BY Z3

\* A layer is half of the one below it, rounded up.
LEMMA NextLayerShape ==
  ASSUME NEW s, Vector(s), Len(s) > 1
  PROVE  /\ Vector(NextLayer(s))
         /\ Len(NextLayer(s)) = (Len(s) + 1) \div 2
         /\ Len(NextLayer(s)) \in 1..(Len(s) - 1)
<1>1. PICK m \in Nat : Len(s) = m
  BY VectorLength
<1>2. PICK u : u = (m + 1) \div 2
  OBVIOUS
<1>3. u \in Nat /\ u \in 1..(m - 1)
  BY <1>1, <1>2, Z3
<1>4. NextLayer(s) = [i \in 1..u |-> CombineNodes(s[2 * i - 1], NodeAt(s, 2 * i))]
  BY <1>1, <1>2 DEF NextLayer
<1>5. PICK t : t = [i \in 1..u |-> CombineNodes(s[2 * i - 1], NodeAt(s, 2 * i))]
  OBVIOUS
<1>6. t = [i \in 1..u |-> t[i]] /\ Len(t) = u
  BY <1>3, <1>5
<1>7. Vector(t)
  BY <1>3, <1>6 DEF Vector
<1>8. QED
  BY <1>1, <1>2, <1>3, <1>4, <1>5, <1>6, <1>7

\* Layers shrink to a single node before they run out.
LEMMA LayerShape ==
  ASSUME NEW leaves, Vector(leaves), Len(leaves) > 0
  PROVE  \A d \in 0..Len(leaves) :
           /\ Vector(Layers(leaves)[d])
           /\ Len(Layers(leaves)[d]) \in Nat \ {0}
           /\ Len(Layers(leaves)[d]) = 1 \/ Len(Layers(leaves)[d]) <= Len(leaves) - d
<1>0. PICK n \in Nat : n = Len(leaves)
  BY VectorLength
<1>1. PICK L : L = Layers(leaves)
  OBVIOUS
<1>2. L[0] = leaves /\ \A k \in 1..n : L[k] = Above(L[k - 1])
  BY <1>0, <1>1, LayersSteps
<1> DEFINE T == {d \in Nat : d <= n => /\ Vector(L[d])
                                       /\ Len(L[d]) \in Nat \ {0}
                                       /\ Len(L[d]) = 1 \/ Len(L[d]) <= n - d}
<1>3. 0 \in T
  BY <1>0, <1>2
<1>4. ASSUME NEW d \in T PROVE d + 1 \in T
  <2>1. SUFFICES ASSUME d + 1 <= n
                 PROVE  /\ Vector(L[d + 1])
                        /\ Len(L[d + 1]) \in Nat \ {0}
                        /\ Len(L[d + 1]) = 1 \/ Len(L[d + 1]) <= n - (d + 1)
    OBVIOUS
  <2>2. d \in Nat /\ d <= n
    BY <2>1
  <2>3. /\ Vector(L[d]) /\ Len(L[d]) \in Nat \ {0}
        /\ Len(L[d]) = 1 \/ Len(L[d]) <= n - d
    BY <2>2
  <2>4. L[d + 1] = Above(L[d])
    BY <1>2, <2>1, <2>2
  <2>5. CASE Len(L[d]) > 1
    <3>1. /\ Vector(NextLayer(L[d]))
          /\ Len(NextLayer(L[d])) \in 1..(Len(L[d]) - 1)
      BY <2>3, <2>5, NextLayerShape
    <3>2. L[d + 1] = NextLayer(L[d])
      BY <2>4, <2>5 DEF Above
    <3>3. PICK m, u : m = Len(L[d]) /\ u = Len(NextLayer(L[d]))
      OBVIOUS
    <3>4. /\ m \in Nat /\ u \in 1..(m - 1) /\ m > 1 /\ (m = 1 \/ m <= n - d)
          /\ d \in Nat /\ n \in Nat
      BY <3>1, <3>3, <2>2, <2>3, <2>5
    <3>5. u \in Nat \ {0} /\ u <= n - (d + 1)
      BY ONLY <3>4
    <3>6. QED
      BY <3>1, <3>2, <3>3, <3>5
  <2>6. CASE ~(Len(L[d]) > 1)
    <3>1. L[d + 1] = L[d]
      BY <2>4, <2>6 DEF Above
    <3>2. Len(L[d]) = 1
      BY <2>3, <2>6, OneOrMore
    <3>3. QED
      BY <3>1, <3>2, <2>3
  <2>7. QED
    BY <2>5, <2>6
<1>5. T = Nat
  <2> HIDE DEF T
  <2>1. T \in SUBSET Nat
    BY DEF T
  <2>2. QED
    BY <2>1, <1>3, <1>4, SetInduction
<1>6. ASSUME NEW d \in 0..n
      PROVE  /\ Vector(L[d]) /\ Len(L[d]) \in Nat \ {0}
             /\ Len(L[d]) = 1 \/ Len(L[d]) <= n - d
  <2>1. d \in T
    BY <1>5
  <2>2. QED
    BY <2>1
<1>7. QED
  BY <1>0, <1>1, <1>6

IsHeight(leaves, h) ==
  /\ h \in 0..Len(leaves)
  /\ Len(Layers(leaves)[h]) = 1
  /\ \A e \in 0..(h - 1) : Len(Layers(leaves)[e]) > 1

Height(leaves) ==
  CHOOSE d \in 0..Len(leaves) :
    /\ Len(Layers(leaves)[d]) = 1
    /\ \A e \in 0..(d - 1) : Len(Layers(leaves)[e]) > 1

LEMMA HeightExists ==
  ASSUME NEW leaves, Vector(leaves), Len(leaves) > 0
  PROVE  IsHeight(leaves, Height(leaves))
<1>0. PICK n \in Nat : n = Len(leaves)
  BY VectorLength
<1>1. PICK L : L = Layers(leaves)
  OBVIOUS
<1>2. \A d \in 0..n : Len(L[d]) \in Nat \ {0} /\ (Len(L[d]) = 1 \/ Len(L[d]) <= n - d)
  BY <1>0, <1>1, LayerShape
<1> DEFINE Least(d) == /\ Len(L[d]) = 1
                       /\ \A e \in 0..(d - 1) : Len(L[e]) > 1
           T == {d \in Nat : d <= n => \/ \E e \in 0..d : Least(e)
                                       \/ \A e \in 0..d : Len(L[e]) > 1}
<1>3. 0 \in T
  <2>1. Len(L[0]) = 1 \/ Len(L[0]) > 1
    <3>1. 0 \in 0..n
      OBVIOUS
    <3>2. Len(L[0]) \in Nat \ {0}
      BY <1>2, <3>1
    <3>3. QED
      BY <3>2, OneOrMore
  <2>2. CASE Len(L[0]) = 1
    <3>1. Least(0) /\ 0 \in 0..0
      BY <2>2
    <3>2. QED
      BY <3>1
  <2>3. CASE Len(L[0]) > 1
    BY <2>3
  <2>4. QED
    BY <2>1, <2>2, <2>3
<1>4. ASSUME NEW d \in T PROVE d + 1 \in T
  <2>1. SUFFICES ASSUME d + 1 <= n
                 PROVE  \/ \E e \in 0..(d + 1) : Least(e)
                        \/ \A e \in 0..(d + 1) : Len(L[e]) > 1
    OBVIOUS
  <2>2. d \in Nat /\ d <= n
    BY <2>1
  <2>3. \/ \E e \in 0..d : Least(e)
        \/ \A e \in 0..d : Len(L[e]) > 1
    BY <2>2
  <2>4. CASE \E e \in 0..d : Least(e)
    <3>1. PICK e \in 0..d : Least(e)
      BY <2>4
    <3>2. e \in 0..(d + 1)
      BY <2>2
    <3> HIDE DEF Least
    <3>3. QED
      BY <3>1, <3>2
  <2>5. CASE \A e \in 0..d : Len(L[e]) > 1
    <3>1. (Len(L[d + 1]) = 1 \/ Len(L[d + 1]) > 1) /\ d + 1 \in 0..(d + 1)
      <4>1. Len(L[d + 1]) \in Nat \ {0} /\ d + 1 \in 0..(d + 1)
        BY <1>2, <2>1, <2>2
      <4>2. QED
        BY <4>1, OneOrMore
    <3>2. CASE Len(L[d + 1]) = 1
      <4>1. Least(d + 1)
        BY <2>5, <3>2, <2>2
      <4> HIDE DEF Least
      <4>2. QED
        BY <4>1, <3>1
    <3>3. CASE Len(L[d + 1]) > 1
      <4>1. \A e \in 0..(d + 1) : e \in 0..d \/ e = d + 1
        BY <2>2
      <4>2. QED
        BY <4>1, <2>5, <3>3
    <3>4. QED
      BY <3>1, <3>2, <3>3
  <2>6. QED
    BY <2>3, <2>4, <2>5
<1>5. T = Nat
  <2> HIDE DEF T
  <2>1. T \in SUBSET Nat
    BY DEF T
  <2>2. QED
    BY <2>1, <1>3, <1>4, SetInduction
<1>6. n \in T
  BY <1>5
<1>7. Len(L[n]) = 1
  BY <1>2
<1>8. \E e \in 0..n : Least(e)
  <2>1. n \in 0..n
    OBVIOUS
  <2>2. QED
    BY <1>6, <1>7, <2>1
<1>9. PICK h : h = Height(leaves)
  OBVIOUS
<1>10. h = CHOOSE d \in 0..n : Least(d)
  BY <1>0, <1>1, <1>9 DEF Height
<1>11. h \in 0..n /\ Least(h)
  <2> HIDE DEF Least
  <2>1. QED
    BY <1>8, <1>10
<1>12. QED
  BY <1>0, <1>1, <1>9, <1>11 DEF IsHeight

\* The entries above the root repeat it.
LEMMA RootRepeats ==
  ASSUME NEW leaves, Vector(leaves), NEW h, IsHeight(leaves, h)
  PROVE  Layers(leaves)[Len(leaves)] = Layers(leaves)[h]
<1>0. PICK n \in Nat : n = Len(leaves)
  BY VectorLength
<1>1. PICK L : L = Layers(leaves)
  OBVIOUS
<1>2. h \in 0..n /\ h \in Nat /\ Len(L[h]) = 1
  BY <1>0, <1>1 DEF IsHeight
<1>3. \A k \in 1..n : L[k] = Above(L[k - 1])
  BY <1>0, <1>1, LayersSteps
<1> DEFINE T == {d \in Nat : h + d <= n => L[h + d] = L[h]}
<1>4. 0 \in T
  BY <1>2
<1>5. ASSUME NEW d \in T PROVE d + 1 \in T
  <2>1. SUFFICES ASSUME h + (d + 1) <= n PROVE L[h + (d + 1)] = L[h]
    OBVIOUS
  <2>2. d \in Nat /\ h + d <= n /\ h + (d + 1) \in 1..n /\ (h + (d + 1)) - 1 = h + d
    BY <1>2, <2>1
  <2>3. L[h + d] = L[h]
    BY <2>2
  <2>4. L[h + (d + 1)] = Above(L[h + d])
    BY <2>2, <1>3
  <2>5. QED
    BY <2>3, <2>4, <1>2 DEF Above
<1>6. T = Nat
  <2> HIDE DEF T
  <2>1. T \in SUBSET Nat
    BY DEF T
  <2>2. QED
    BY <2>1, <1>4, <1>5, SetInduction
<1>7. n - h \in T
  <2>1. n - h \in Nat
    BY <1>2
  <2>2. QED
    BY <1>6, <2>1
<1>8. L[n] = L[h]
  BY <1>2, <1>7
<1>9. QED
  BY <1>0, <1>1, <1>8

\* The index stays inside the layer on the way up.
LEMMA IndexInLayer ==
  ASSUME NEW leaves, Vector(leaves), NEW h, IsHeight(leaves, h),
         NEW index \in 0..(Len(leaves) - 1), NEW d \in 0..h
  PROVE  /\ Halves(index, Len(leaves))[d] \in Nat
         /\ Halves(index, Len(leaves))[d] < Len(Layers(leaves)[d])
<1>0. PICK n \in Nat : n = Len(leaves)
  BY VectorLength
<1>1. PICK L, q : L = Layers(leaves) /\ q = Halves(index, n)
  OBVIOUS
<1>2. L[0] = leaves /\ \A k \in 1..n : L[k] = Above(L[k - 1])
  BY <1>0, <1>1, LayersSteps
<1>3. q[0] = index /\ \A k \in 1..n : q[k] = q[k - 1] \div 2
  BY <1>0, <1>1, HalvesSteps
<1>4. h \in 0..n /\ \A e \in 0..(h - 1) : Len(L[e]) > 1
  BY <1>0, <1>1 DEF IsHeight
<1>5. \A e \in 0..n : Vector(L[e]) /\ Len(L[e]) \in Nat
  <2>1. Len(leaves) > 0
    BY <1>0
  <2>2. QED
    BY <1>0, <1>1, <2>1, LayerShape
<1> DEFINE T == {e \in Nat : e <= h => q[e] \in Nat /\ q[e] < Len(L[e])}
<1>6. 0 \in T
  BY <1>0, <1>2, <1>3
<1>7. ASSUME NEW e \in T PROVE e + 1 \in T
  <2>1. SUFFICES ASSUME e + 1 <= h
                 PROVE  q[e + 1] \in Nat /\ q[e + 1] < Len(L[e + 1])
    OBVIOUS
  <2>2. /\ e \in Nat /\ e <= h /\ e \in 0..(h - 1) /\ e \in 0..n /\ e + 1 \in 1..n
        /\ (e + 1) - 1 = e
    BY <1>4, <2>1
  <2>3. q[e] \in Nat /\ q[e] < Len(L[e])
    BY <2>2
  <2>4. Vector(L[e]) /\ Len(L[e]) > 1 /\ Len(L[e]) \in Nat
    BY <2>2, <1>4, <1>5
  <2>5. Len(NextLayer(L[e])) = (Len(L[e]) + 1) \div 2
    BY <2>4, NextLayerShape
  <2>6. L[e + 1] = NextLayer(L[e]) /\ q[e + 1] = q[e] \div 2
    BY <2>2, <2>4, <1>2, <1>3 DEF Above
  <2>7. PICK x, m : x = q[e] /\ m = Len(L[e]) /\ x \in Nat /\ m \in Nat
    BY <2>3, <2>4
  <2>8. x < m /\ m > 1
    BY <2>3, <2>4, <2>7
  <2>9. x \div 2 \in Nat /\ x \div 2 < (m + 1) \div 2
    BY <2>7, <2>8, HalfBelow
  <2>10. QED
    BY <2>5, <2>6, <2>7, <2>9
<1>8. T = Nat
  <2> HIDE DEF T
  <2>1. T \in SUBSET Nat
    BY DEF T
  <2>2. QED
    BY <2>1, <1>6, <1>7, SetInduction
<1>9. d \in T
  BY <1>4, <1>8
<1>10. QED
  BY <1>0, <1>1, <1>9

\* generate_proof, with its height and its indices named.
LEMMA ProofIs ==
  ASSUME NEW leaves, NEW index
  PROVE  GenerateProof(leaves, index)
           = [k \in 1..Height(leaves) |->
                Sibling(Layers(leaves)[k - 1], Halves(index, Len(leaves))[k - 1])]
  BY DEF GenerateProof, Height, Halves

\* One step of a path joins a node with its neighbour into their parent.
LEMMA SiblingJoins ==
  ASSUME NEW s, Vector(s), Len(s) > 1, NEW i \in Nat, i < Len(s)
  PROVE  Joined(Sibling(s, i), s[i + 1]) = NextLayer(s)[i \div 2 + 1]
<1>0. PICK m \in Nat : m = Len(s)
  BY VectorLength
<1>1. PICK j : j = i \div 2 + 1
  OBVIOUS
<1>2. j \in 1..((m + 1) \div 2)
  BY <1>0, <1>1, Z3
<1>3. NextLayer(s)[j] = CombineNodes(s[2 * j - 1], NodeAt(s, 2 * j))
  BY <1>0, <1>2 DEF NextLayer
<1>4. CASE i % 2 = 1
  <2>1. 2 * j - 1 = i /\ 2 * j = i + 1
    BY <1>1, <1>4, Z3
  <2>2. NodeAt(s, i + 1) = s[i + 1]
    BY <1>0 DEF NodeAt
  <2>3. Joined(Sibling(s, i), s[i + 1]) = CombineNodes(s[i], s[i + 1])
    BY <1>4 DEF Joined, Sibling
  <2>4. QED
    BY <1>1, <1>3, <2>1, <2>2, <2>3
<1>5. CASE i % 2 # 1
  <2>1. 2 * j - 1 = i + 1 /\ 2 * j = i + 2
    BY <1>1, <1>5, Z3
  <2>2. Joined(Sibling(s, i), s[i + 1]) = CombineNodes(s[i + 1], NodeAt(s, i + 2))
    BY <1>5 DEF Joined, Sibling
  <2>3. QED
    BY <1>1, <1>3, <2>1, <2>2
<1>6. QED
  BY <1>4, <1>5

\* The hashes of a leaf's own path are the nodes above it.
LEMMA PathClimbs ==
  ASSUME NEW leaves, Vector(leaves), NEW h, IsHeight(leaves, h), h = Height(leaves),
         NEW index \in 0..(Len(leaves) - 1)
  PROVE  /\ Len(GenerateProof(leaves, index)) = h
         /\ Climb(GenerateProof(leaves, index), leaves[index + 1])[h]
              = Layers(leaves)[h][1]
<1>0. PICK n \in Nat : n = Len(leaves)
  BY VectorLength
<1>1. PICK L, q, path : /\ L = Layers(leaves) /\ q = Halves(index, n)
                        /\ path = GenerateProof(leaves, index)
  OBVIOUS
<1>2. h \in 0..n /\ h \in Nat /\ Len(L[h]) = 1 /\ \A e \in 0..(h - 1) : Len(L[e]) > 1
  BY <1>0, <1>1 DEF IsHeight
<1>3. path = [k \in 1..h |-> Sibling(L[k - 1], q[k - 1])]
  BY <1>0, <1>1, ProofIs
<1>4. Len(path) = h /\ \A k \in 1..h : path[k] = Sibling(L[k - 1], q[k - 1])
  BY <1>2, <1>3
<1>5. PICK c : c = Climb(path, leaves[index + 1])
  OBVIOUS
<1>6. c[0] = leaves[index + 1] /\ \A k \in 1..h : c[k] = Joined(path[k], c[k - 1])
  BY <1>2, <1>4, <1>5, ClimbSteps
<1>7. L[0] = leaves /\ \A k \in 1..n : L[k] = Above(L[k - 1])
  BY <1>0, <1>1, LayersSteps
<1>8. q[0] = index /\ \A k \in 1..n : q[k] = q[k - 1] \div 2
  BY <1>0, <1>1, HalvesSteps
<1>9. \A e \in 0..n : Vector(L[e])
  <2>1. Len(leaves) > 0
    BY <1>0
  <2>2. QED
    BY <1>0, <1>1, <2>1, LayerShape
<1>10. \A e \in 0..h : q[e] \in Nat /\ q[e] < Len(L[e])
  BY <1>0, <1>1, IndexInLayer
<1> DEFINE T == {e \in Nat : e <= h => c[e] = L[e][q[e] + 1]}
<1>11. 0 \in T
  BY <1>6, <1>7, <1>8
<1>12. ASSUME NEW e \in T PROVE e + 1 \in T
  <2>1. SUFFICES ASSUME e + 1 <= h PROVE c[e + 1] = L[e + 1][q[e + 1] + 1]
    OBVIOUS
  <2>2. /\ e \in Nat /\ e <= h /\ e \in 0..(h - 1) /\ e \in 0..n /\ e \in 0..h
        /\ e + 1 \in 1..n /\ e + 1 \in 1..h /\ (e + 1) - 1 = e
    BY <1>2, <2>1
  <2>3. c[e] = L[e][q[e] + 1]
    BY <2>2
  <2>4. c[e + 1] = Joined(Sibling(L[e], q[e]), c[e])
    BY <2>2, <1>4, <1>6
  <2>5. Vector(L[e]) /\ Len(L[e]) > 1 /\ q[e] \in Nat /\ q[e] < Len(L[e])
    BY <2>2, <1>2, <1>9, <1>10
  <2>6. Joined(Sibling(L[e], q[e]), L[e][q[e] + 1]) = NextLayer(L[e])[q[e] \div 2 + 1]
    BY <2>5, SiblingJoins
  <2>7. L[e + 1] = NextLayer(L[e]) /\ q[e + 1] = q[e] \div 2
    BY <2>2, <2>5, <1>7, <1>8 DEF Above
  <2>8. QED
    BY <2>3, <2>4, <2>6, <2>7
<1>13. T = Nat
  <2> HIDE DEF T
  <2>1. T \in SUBSET Nat
    BY DEF T
  <2>2. QED
    BY <2>1, <1>11, <1>12, SetInduction
<1>14. c[h] = L[h][q[h] + 1]
  <2>1. h \in T
    BY <1>2, <1>13
  <2>2. QED
    BY <1>2, <2>1
<1>15. q[h] = 0
  <2>1. h \in 0..h
    BY <1>2
  <2>2. q[h] \in Nat /\ q[h] < 1
    BY <1>2, <1>10, <2>1
  <2>3. QED
    BY <2>2
<1>16. QED
  BY <1>1, <1>4, <1>5, <1>14, <1>15

\* Two leaves never have the same hash at the end of a path.
LEMMA ClimbInjective ==
  ASSUME NEW path, Len(path) \in Nat, NEW x, NEW y,
         Climb(path, x)[Len(path)] = Climb(path, y)[Len(path)]
  PROVE  x = y
<1>0. PICK n, a, b : n \in Nat /\ n = Len(path) /\ a = Climb(path, x) /\ b = Climb(path, y)
  OBVIOUS
<1>1. /\ a[0] = x /\ \A k \in 1..n : a[k] = Joined(path[k], a[k - 1])
      /\ b[0] = y /\ \A k \in 1..n : b[k] = Joined(path[k], b[k - 1])
  BY <1>0, ClimbSteps
<1>2. ASSUME NEW s, NEW u, NEW v, Joined(s, u) = Joined(s, v) PROVE u = v
  BY <1>2 DEF Joined, CombineNodes
<1> DEFINE T == {d \in Nat : d <= n => a[n - d] = b[n - d]}
<1>3. 0 \in T
  BY <1>0
<1>4. ASSUME NEW d \in T PROVE d + 1 \in T
  <2>1. SUFFICES ASSUME d + 1 <= n PROVE a[n - (d + 1)] = b[n - (d + 1)]
    OBVIOUS
  <2>2. d \in Nat /\ d <= n /\ n - d \in 1..n /\ (n - d) - 1 = n - (d + 1)
    BY <1>0, <2>1
  <2>3. a[n - d] = b[n - d]
    BY <2>2
  <2>4. Joined(path[n - d], a[n - (d + 1)]) = Joined(path[n - d], b[n - (d + 1)])
    BY <1>1, <2>2, <2>3
  <2>5. QED
    BY <1>2, <2>4
<1>5. T = Nat
  <2> HIDE DEF T
  <2>1. T \in SUBSET Nat
    BY DEF T
  <2>2. QED
    BY <2>1, <1>3, <1>4, SetInduction
<1>6. n \in T
  BY <1>0, <1>5
<1>7. a[0] = b[0]
  BY <1>0, <1>6
<1>8. QED
  BY <1>1, <1>7

\* MerkleTree::generate_proof and MerkleProof::verify: the path of a leaf leads
\* from that leaf to the root, and from nothing else.
LEMMA PathLeads ==
  ASSUME NEW leaves, Vector(leaves), NEW index \in 0..(Len(leaves) - 1), NEW x
  PROVE  VerifyProof(GenerateProof(leaves, index), MerkleRoot(leaves), x)
           <=> x = leaves[index + 1]
<1>0. PICK n \in Nat : n = Len(leaves)
  BY VectorLength
<1>1. n > 0 /\ leaves # << >>
  BY <1>0
<1>2. PICK h : h = Height(leaves) /\ IsHeight(leaves, h)
  BY <1>0, <1>1, HeightExists
<1>3. PICK path : path = GenerateProof(leaves, index)
  OBVIOUS
<1>4. h \in Nat
  BY <1>0, <1>2 DEF IsHeight
<1>5. Len(path) = h /\ Climb(path, leaves[index + 1])[h] = Layers(leaves)[h][1]
  BY <1>2, <1>3, PathClimbs
<1>6. MerkleRoot(leaves) = Layers(leaves)[h][1]
  BY <1>1, <1>2, RootRepeats DEF MerkleRoot
<1>7. VerifyProof(path, MerkleRoot(leaves), x)
        <=> Climb(path, x)[Len(path)] = MerkleRoot(leaves)
  BY DEF VerifyProof, Climb
<1>8. VerifyProof(path, MerkleRoot(leaves), x)
        <=> Climb(path, x)[Len(path)] = Climb(path, leaves[index + 1])[Len(path)]
  BY <1>5, <1>6, <1>7
<1>9. Climb(path, x)[Len(path)] = Climb(path, leaves[index + 1])[Len(path)]
        <=> x = leaves[index + 1]
  BY <1>4, <1>5, ClimbInjective
<1>10. QED
  BY <1>3, <1>8, <1>9

----------------------------------------------------------------------------
(***************************************************************************)
(* A root fixes its leaves, their number included.  The domain prefixes    *)
(* matter: a leaf is never taken for a node, and no node for the filler of *)
(* an odd layer.                                                           *)
(***************************************************************************)
Tagged(s, tags) == \A i \in 1..Len(s) : s[i][1] \in tags

LEMMA Doubling ==
  ASSUME NEW m \in Nat, NEW u, u = (m + 1) \div 2
  PROVE  /\ u \in Nat
         /\ m = 2 * u \/ m = 2 * u - 1
         /\ \A j \in 1..m : \E i \in 1..u : j = 2 * i - 1 \/ j = 2 * i
         /\ \A i \in 1..u : 2 * i - 1 \in 1..m
<1>1. u \in Nat /\ (m = 2 * u \/ m = 2 * u - 1)
  BY Z3
<1>2. ASSUME NEW j \in 1..m PROVE \E i \in 1..u : j = 2 * i - 1 \/ j = 2 * i
  <2>1. PICK i : i = (j + 1) \div 2
    OBVIOUS
  <2>2. i \in 1..u /\ (j = 2 * i - 1 \/ j = 2 * i)
    BY <1>1, <2>1, Z3
  <2>3. QED
    BY <2>2
<1>3. ASSUME NEW i \in 1..u PROVE 2 * i - 1 \in 1..m
  BY <1>1, Z3
<1>4. QED
  BY <1>1, <1>2, <1>3

LEMMA NextLayerInjective ==
  ASSUME NEW x, NEW y, Vector(x), Vector(y), Len(x) > 1, Len(y) > 1,
         Tagged(x, {"leaf", "node"}), Tagged(y, {"leaf", "node"}),
         NextLayer(x) = NextLayer(y)
  PROVE  x = y
<1>1. PICK m, p : /\ m = Len(x) /\ p = Len(y) /\ m \in Nat /\ p \in Nat
                  /\ x = [i \in 1..m |-> x[i]] /\ y = [i \in 1..p |-> y[i]]
  <2>1. Len(x) \in Nat /\ x = [i \in 1..Len(x) |-> x[i]]
    BY VectorLength
  <2>2. Len(y) \in Nat /\ y = [i \in 1..Len(y) |-> y[i]]
    BY VectorLength
  <2>3. QED
    BY <2>1, <2>2
<1>2. PICK u : u = (m + 1) \div 2 /\ u = (p + 1) \div 2
  <2>1. Len(NextLayer(x)) = (m + 1) \div 2 /\ Len(NextLayer(y)) = (p + 1) \div 2
    BY <1>1, NextLayerShape
  <2>2. QED
    BY <2>1
<1>3. /\ u \in Nat
      /\ m = 2 * u \/ m = 2 * u - 1
      /\ p = 2 * u \/ p = 2 * u - 1
      /\ \A j \in 1..m : \E i \in 1..u : j = 2 * i - 1 \/ j = 2 * i
  BY <1>1, <1>2, Doubling
<1>4. ASSUME NEW i \in 1..u
      PROVE  x[2 * i - 1] = y[2 * i - 1] /\ NodeAt(x, 2 * i) = NodeAt(y, 2 * i)
  <2>1. NextLayer(x)[i] = CombineNodes(x[2 * i - 1], NodeAt(x, 2 * i))
    BY <1>1, <1>2 DEF NextLayer
  <2>2. NextLayer(y)[i] = CombineNodes(y[2 * i - 1], NodeAt(y, 2 * i))
    BY <1>1, <1>2 DEF NextLayer
  <2>3. ASSUME NEW a, NEW b, NEW c, NEW d, CombineNodes(a, b) = CombineNodes(c, d)
        PROVE  a = c /\ b = d
    BY <2>3 DEF CombineNodes
  <2>4. QED
    BY <2>1, <2>2, <2>3
<1>5. EmptyNode[1] = "empty"
  BY DEF EmptyNode
<1>6. \A i \in 1..m : x[i] # EmptyNode
  BY <1>1, <1>5 DEF Tagged
<1>7. \A i \in 1..p : y[i] # EmptyNode
  BY <1>1, <1>5 DEF Tagged
<1>8. m = p
  <2>1. u \in 1..u
    BY <1>1, <1>3
  <2>2. NodeAt(x, 2 * u) = NodeAt(y, 2 * u)
    BY <1>4, <2>1
  <2>3. PICK w : w = 2 * u
    OBVIOUS
  <2>4. w \in Nat /\ (m = w \/ m = w - 1) /\ (p = w \/ p = w - 1) /\ w > 0
    BY <1>3, <2>1, <2>3
  <2>5. ASSUME m = w, p = w - 1 PROVE FALSE
    <3>1. NodeAt(x, w) = x[w] /\ w \in 1..m
      BY <1>1, <2>4, <2>5 DEF NodeAt
    <3>2. NodeAt(y, w) = EmptyNode
      BY <1>1, <2>4, <2>5 DEF NodeAt
    <3>3. QED
      BY <3>1, <3>2, <2>2, <2>3, <1>6
  <2>6. ASSUME m = w - 1, p = w PROVE FALSE
    <3>1. NodeAt(y, w) = y[w] /\ w \in 1..p
      BY <1>1, <2>4, <2>6 DEF NodeAt
    <3>2. NodeAt(x, w) = EmptyNode
      BY <1>1, <2>4, <2>6 DEF NodeAt
    <3>3. QED
      BY <3>1, <3>2, <2>2, <2>3, <1>7
  <2>7. QED
    BY <2>4, <2>5, <2>6
<1>9. ASSUME NEW j \in 1..m PROVE x[j] = y[j]
  <2>1. PICK i \in 1..u : j = 2 * i - 1 \/ j = 2 * i
    BY <1>3
  <2>2. CASE j = 2 * i - 1
    BY <2>2, <1>4
  <2>3. CASE j = 2 * i
    <3>1. NodeAt(x, j) = x[j] /\ NodeAt(y, j) = y[j]
      BY <1>1, <1>8 DEF NodeAt
    <3>2. QED
      BY <3>1, <2>3, <1>4
  <2>4. QED
    BY <2>1, <2>2, <2>3
<1>10. QED
  BY <1>1, <1>8, <1>9

\* Above the leaves there are nodes only.
LEMMA LayerTags ==
  ASSUME NEW leaves, Vector(leaves), Len(leaves) > 0, Tagged(leaves, {"leaf"}),
         NEW h, IsHeight(leaves, h), NEW d \in 0..h
  PROVE  /\ Tagged(Layers(leaves)[d], {"leaf", "node"})
         /\ d > 0 => Tagged(Layers(leaves)[d], {"node"})
<1>0. PICK n, L : /\ n = Len(leaves) /\ n \in Nat /\ L = Layers(leaves)
                  /\ h \in 0..n /\ \A e \in 0..(h - 1) : Len(L[e]) > 1
  BY VectorLength DEF IsHeight
<1>1. L[0] = leaves /\ \A k \in 1..n : L[k] = Above(L[k - 1])
  BY <1>0, LayersSteps
<1>2. CASE d = 0
  BY <1>0, <1>1, <1>2 DEF Tagged
<1>3. CASE d > 0
  <2>1. d \in 1..n /\ d - 1 \in 0..(h - 1) /\ d - 1 \in 0..n
    BY <1>0, <1>3
  <2>2. L[d] = NextLayer(L[d - 1]) /\ Len(L[d - 1]) > 1
    BY <1>0, <1>1, <2>1 DEF Above
  <2>3. Vector(L[d - 1])
    BY <1>0, <2>1, LayerShape
  <2>4. PICK s : s = L[d - 1]
    OBVIOUS
  <2>5. Len(NextLayer(s)) = (Len(s) + 1) \div 2
    BY <2>2, <2>3, <2>4, NextLayerShape
  <2>6. \A i \in 1..Len(NextLayer(s)) :
          NextLayer(s)[i] = CombineNodes(s[2 * i - 1], NodeAt(s, 2 * i))
    BY <2>5 DEF NextLayer
  <2>7. \A a, b : CombineNodes(a, b)[1] = "node"
    BY DEF CombineNodes
  <2>8. Tagged(NextLayer(s), {"node"}) /\ Tagged(NextLayer(s), {"leaf", "node"})
    BY <2>6, <2>7 DEF Tagged
  <2>9. QED
    BY <1>0, <2>2, <2>4, <2>8
<1>4. QED
  BY <1>0, <1>2, <1>3

\* A tree is not higher than one with the same root.
LEMMA SameRootFrom ==
  ASSUME NEW s, NEW t, Vector(s), Vector(t), Len(s) > 0, Len(t) > 0,
         Tagged(s, {"leaf"}), Tagged(t, {"leaf"}),
         NEW g, NEW h, IsHeight(s, g), IsHeight(t, h), g <= h,
         Layers(s)[g][1] = Layers(t)[h][1]
  PROVE  s = t
<1>0. PICK m, n, K, L : /\ m = Len(s) /\ m \in Nat /\ K = Layers(s) /\ n = Len(t)
                        /\ n \in Nat /\ L = Layers(t)
  BY VectorLength
<1>1. /\ g \in 0..m /\ Len(K[g]) = 1 /\ \A e \in 0..(g - 1) : Len(K[e]) > 1
      /\ h \in 0..n /\ Len(L[h]) = 1 /\ \A e \in 0..(h - 1) : Len(L[e]) > 1
  BY <1>0 DEF IsHeight
<1>2. /\ K[0] = s /\ \A k \in 1..m : K[k] = Above(K[k - 1])
      /\ L[0] = t /\ \A k \in 1..n : L[k] = Above(L[k - 1])
  BY <1>0, LayersSteps
<1>3. /\ \A d \in 0..m : Vector(K[d])
      /\ \A d \in 0..n : Vector(L[d])
  BY <1>0, LayerShape
<1>4. /\ \A d \in 0..g : Tagged(K[d], {"leaf", "node"})
      /\ \A d \in 0..h : /\ Tagged(L[d], {"leaf", "node"})
                         /\ d > 0 => Tagged(L[d], {"node"})
  BY <1>0, LayerTags
<1> DEFINE T == {d \in Nat : d <= g => K[g - d] = L[h - d]}
<1>5. 0 \in T
  <2>1. K[g] = [i \in 1..1 |-> K[g][i]] /\ L[h] = [i \in 1..1 |-> L[h][i]]
    BY <1>1, <1>3, VectorLength
  <2>2. \A i \in 1..1 : K[g][i] = L[h][i]
    BY <1>0
  <2>3. K[g] = L[h]
    BY <2>1, <2>2
  <2>4. g - 0 = g /\ h - 0 = h
    BY <1>1
  <2>5. QED
    BY <2>3, <2>4
<1>6. ASSUME NEW d \in T PROVE d + 1 \in T
  <2>1. SUFFICES ASSUME d + 1 <= g PROVE K[g - (d + 1)] = L[h - (d + 1)]
    OBVIOUS
  <2>2. PICK a, b : a = g - (d + 1) /\ b = h - (d + 1)
    OBVIOUS
  <2>3. /\ d \in Nat /\ d <= g /\ a \in 0..(g - 1) /\ b \in 0..(h - 1)
        /\ a \in 0..g /\ b \in 0..h /\ a \in 0..m /\ b \in 0..n
        /\ a + 1 \in 1..m /\ b + 1 \in 1..n /\ a + 1 = g - d /\ b + 1 = h - d
        /\ (a + 1) - 1 = a /\ (b + 1) - 1 = b
    BY <1>0, <1>1, <2>1, <2>2
  <2>4. K[a + 1] = L[b + 1]
    BY <2>3
  <2>5. Len(K[a]) > 1 /\ Len(L[b]) > 1
    BY <1>1, <2>3
  <2>6. K[a + 1] = NextLayer(K[a]) /\ L[b + 1] = NextLayer(L[b])
    BY <1>2, <2>3, <2>5 DEF Above
  <2>7. /\ Vector(K[a]) /\ Vector(L[b])
        /\ Tagged(K[a], {"leaf", "node"}) /\ Tagged(L[b], {"leaf", "node"})
    BY <1>3, <1>4, <2>3
  <2>8. K[a] = L[b]
    BY <2>4, <2>5, <2>6, <2>7, NextLayerInjective
  <2>9. QED
    BY <2>2, <2>8
<1>7. T = Nat
  <2> HIDE DEF T
  <2>1. T \in SUBSET Nat
    BY DEF T
  <2>2. QED
    BY <2>1, <1>5, <1>6, SetInduction
<1>8. K[0] = L[h - g]
  <2>0. g \in Nat
    BY <1>0, <1>1
  <2>1. g \in T /\ g - g = 0
    BY <2>0, <1>7
  <2>2. QED
    BY <2>0, <2>1
<1>9. h = g
  <2>1. SUFFICES ASSUME h # g PROVE FALSE
    OBVIOUS
  <2>2. h - g \in 0..h /\ h - g > 0
    BY <1>1, <2>1
  <2>3. Tagged(s, {"node"}) /\ Tagged(s, {"leaf"}) /\ 1 \in 1..Len(s)
    BY <1>0, <1>2, <1>4, <1>8, <2>2
  <2>4. QED
    BY <2>3 DEF Tagged
<1>10. h - g = 0
  BY <1>1, <1>9
<1>11. QED
  BY <1>2, <1>8, <1>10

\* The root of no leaves is the filler, which no tree has as its root.
LEMMA RootNotEmpty ==
  ASSUME NEW s, Vector(s), Len(s) > 0, Tagged(s, {"leaf"})
  PROVE  MerkleRoot(s) # EmptyNode
<1>1. PICK h : IsHeight(s, h)
  BY HeightExists
<1>2. h \in 0..h /\ Len(Layers(s)[h]) = 1 /\ Len(s) \in Nat
  BY <1>1, VectorLength DEF IsHeight
<1>3. Tagged(Layers(s)[h], {"leaf", "node"})
  BY <1>1, <1>2, LayerTags
<1>4. MerkleRoot(s) = Layers(s)[h][1]
  <2>1. s # << >>
    BY <1>2
  <2>2. QED
    BY <1>1, <2>1, RootRepeats DEF MerkleRoot
<1>5. QED
  BY <1>2, <1>3, <1>4 DEF Tagged, EmptyNode

LEMMA RootFixesLeaves ==
  ASSUME NEW s, NEW t, Vector(s), Vector(t),
         Tagged(s, {"leaf"}), Tagged(t, {"leaf"}), MerkleRoot(s) = MerkleRoot(t)
  PROVE  s = t
<1>1. Len(s) \in Nat /\ Len(t) \in Nat
  BY VectorLength
<1>2. ASSUME NEW v, Vector(v), Len(v) = 0 PROVE v = << >>
  BY <1>2, VectorLength
<1>3. CASE Len(s) = 0
  <2>1. s = << >> /\ MerkleRoot(s) = EmptyNode
    BY <1>2, <1>3 DEF MerkleRoot
  <2>2. Len(t) = 0
    BY <1>1, <2>1, RootNotEmpty
  <2>3. QED
    BY <1>2, <2>1, <2>2
<1>4. CASE Len(t) = 0
  <2>1. t = << >> /\ MerkleRoot(t) = EmptyNode
    BY <1>2, <1>4 DEF MerkleRoot
  <2>2. Len(s) = 0
    BY <1>1, <2>1, RootNotEmpty
  <2>3. QED
    BY <1>2, <2>1, <2>2
<1>5. CASE Len(s) > 0 /\ Len(t) > 0
  <2>1. PICK g : IsHeight(s, g)
    BY <1>5, HeightExists
  <2>2. PICK h : IsHeight(t, h)
    BY <1>5, HeightExists
  <2>3. g \in Nat /\ h \in Nat
    BY <1>1, <2>1, <2>2 DEF IsHeight
  <2>4. s # << >> /\ t # << >>
    BY <1>5
  <2>5. MerkleRoot(s) = Layers(s)[g][1] /\ MerkleRoot(t) = Layers(t)[h][1]
    BY <2>1, <2>2, <2>4, RootRepeats DEF MerkleRoot
  <2>6. CASE g <= h
    BY <1>5, <2>1, <2>2, <2>5, <2>6, SameRootFrom
  <2>7. CASE h <= g
    BY <1>5, <2>1, <2>2, <2>5, <2>7, SameRootFrom
  <2>8. QED
    BY <2>3, <2>6, <2>7
<1>6. QED
  BY <1>1, <1>3, <1>4, <1>5

----------------------------------------------------------------------------
(***************************************************************************)
(* The accounting audit, on a manifest in the order of its leaves.         *)
(***************************************************************************)
LEMMA OrderLeavesAre ==
  ASSUME NEW v, Vector(v)
  PROVE  /\ Vector(LeavesOf(v)) /\ Tagged(LeavesOf(v), {"leaf"})
         /\ Len(LeavesOf(v)) = Len(v)
         /\ \A i \in 1..Len(v) : LeavesOf(v)[i] = CommitOrder(v[i])
<1>1. PICK n \in Nat : n = Len(v)
  BY VectorLength
<1>2. PICK s : s = LeavesOf(v)
  OBVIOUS
<1>3. s = [i \in 1..n |-> CommitOrder(v[i])]
  BY <1>1, <1>2 DEF LeavesOf
<1>4. s = [i \in 1..n |-> s[i]] /\ \A i \in 1..n : s[i] = CommitOrder(v[i])
  BY <1>3
<1>5. Vector(s) /\ Len(s) = n
  BY <1>4 DEF Vector
<1>6. Tagged(s, {"leaf"})
  BY <1>4, <1>5 DEF Tagged, CommitOrder, CommitRaw
<1>7. QED
  BY <1>1, <1>2, <1>4, <1>5, <1>6

\* build_complete_input_accounting writes one record for each preimage.
LEMMA BuiltAccounting ==
  ASSUME NEW v, Len(v) \in Nat, NEW alloc
  PROVE  LET m == BuildAccounting(v, alloc)
         IN  /\ {"records", "total_committed"} \subseteq DOMAIN m
             /\ m.total_committed = Len(v) /\ Len(m.records) = Len(v)
             /\ \A k \in 1..Len(v) :
                  /\ m.records[k].leaf_index = k - 1 /\ m.records[k].leaf_index \in Nat
                  /\ m.records[k].order_id = v[k].order.id
                  /\ m.records[k].commitment = CommitOrder(v[k])
                  /\ m.records[k].disposition = Disposition(alloc[k], v[k].order.qty)
<1> DEFINE rs == [i \in 1..Len(v) |->
                    [leaf_index  |-> i - 1,
                     order_id    |-> v[i].order.id,
                     commitment  |-> CommitOrder(v[i]),
                     disposition |-> Disposition(alloc[i], v[i].order.qty)]]
           number(kind) == Cardinality({i \in 1..Len(rs) : rs[i].disposition.kind = kind})
<1>1. BuildAccounting(v, alloc)
        = [records |-> rs, total_committed |-> Len(v),
           total_fully_executed     |-> number("FullyExecuted"),
           total_partially_executed |-> number("PartiallyExecuted"),
           total_unfilled           |-> number("Unfilled")]
  BY DEF BuildAccounting
<1>2. /\ Len(rs) = Len(v)
      /\ \A k \in 1..Len(v) :
           /\ rs[k].leaf_index = k - 1 /\ rs[k].leaf_index \in Nat
           /\ rs[k].order_id = v[k].order.id
           /\ rs[k].commitment = CommitOrder(v[k])
           /\ rs[k].disposition = Disposition(alloc[k], v[k].order.qty)
  OBVIOUS
<1> HIDE DEF rs, number
<1>3. /\ {"records", "total_committed"} \subseteq DOMAIN BuildAccounting(v, alloc)
      /\ BuildAccounting(v, alloc).records = rs
      /\ BuildAccounting(v, alloc).total_committed = Len(v)
  BY <1>1
<1>4. QED
  BY <1>2, <1>3

\* The path of each order leads from its commitment to the batch's root.
LEMMA LeavesVerify ==
  ASSUME NEW v, Vector(v), NEW i \in 1..Len(v)
  PROVE  VerifyProof(GenerateProof(LeavesOf(v), i - 1), MerkleRoot(LeavesOf(v)),
                     LeavesOf(v)[i])
<1>1. PICK n, leaves : n = Len(v) /\ leaves = LeavesOf(v)
  OBVIOUS
<1>2. n \in Nat /\ Vector(leaves) /\ Len(leaves) = n
  BY <1>1, OrderLeavesAre, VectorLength
<1>3. i - 1 \in 0..(Len(leaves) - 1) /\ (i - 1) + 1 = i
  BY <1>1, <1>2
<1>4. VerifyProof(GenerateProof(leaves, i - 1), MerkleRoot(leaves), leaves[i])
        <=> leaves[i] = leaves[(i - 1) + 1]
  BY <1>2, <1>3, PathLeads
<1>5. QED
  BY <1>1, <1>3, <1>4

\* verify_complete_input_accounting on records in the order of their leaves.
LEMMA AccountingVerifies ==
  ASSUME NEW n \in Nat, NEW orders, Len(orders) = n, DistinctIds(orders),
         NEW v, Vector(v), Len(v) = n, NEW alloc, NEW manifest,
         manifest.total_committed = n, Len(manifest.records) = n,
         \A i \in 1..n :
           /\ manifest.records[i].leaf_index = i - 1
           /\ manifest.records[i].order_id = orders[i].id
           /\ manifest.records[i].commitment = CommitOrder(v[i])
           /\ manifest.records[i].disposition = Disposition(alloc[i], orders[i].qty)
  PROVE  VerifyAccounting(orders, LeavesOf(v), manifest, alloc)
<1>1. PICK leaves, records : leaves = LeavesOf(v) /\ records = manifest.records
  OBVIOUS
<1>2. /\ Len(records) = n
      /\ \A i \in 1..n :
           /\ records[i].leaf_index = i - 1
           /\ records[i].order_id = orders[i].id
           /\ records[i].commitment = CommitOrder(v[i])
           /\ records[i].disposition = Disposition(alloc[i], orders[i].qty)
  BY <1>1
<1>3. /\ Vector(leaves) /\ Len(leaves) = n
      /\ \A i \in 1..n : leaves[i] = CommitOrder(v[i])
  BY <1>1, OrderLeavesAre
<1>4. ASSUME NEW i \in 1..n
      PROVE  VerifyProof(GenerateProof(leaves, i - 1), MerkleRoot(leaves), leaves[i])
  BY <1>1, <1>3, LeavesVerify
<1>5. VerifyAccounting(orders, leaves, manifest, alloc)
  <2>1. ASSUME NEW j \in 1..n, NEW k \in 1..n, j # k
        PROVE  /\ records[j].leaf_index # records[k].leaf_index
               /\ records[j].order_id # records[k].order_id
    <3>1. orders[j].id # orders[k].id
      <4>1. j \in 1..Len(orders) /\ k \in 1..Len(orders)
        OBVIOUS
      <4>2. \A q, r \in 1..Len(orders) : q # r => orders[q].id # orders[r].id
        BY Zenon DEF DistinctIds
      <4>3. QED
        BY <2>1, <4>1, <4>2, Zenon
    <3>2. /\ records[j].leaf_index = j - 1 /\ records[k].leaf_index = k - 1
          /\ records[j].order_id = orders[j].id /\ records[k].order_id = orders[k].id
      BY <1>2
    <3>3. QED
      BY <3>1, <3>2
  <2>2. ASSUME NEW k \in 1..n
        PROVE  /\ records[k].leaf_index < n
               /\ VerifyProof(GenerateProof(leaves, records[k].leaf_index),
                              MerkleRoot(leaves), records[k].commitment)
               /\ \E i \in 1..n :
                    /\ orders[i].id = records[k].order_id
                    /\ records[k].disposition = Disposition(alloc[i], orders[i].qty)
    <3>1. /\ records[k].leaf_index = k - 1 /\ records[k].order_id = orders[k].id
          /\ records[k].commitment = leaves[k]
          /\ records[k].disposition = Disposition(alloc[k], orders[k].qty)
      BY <1>2, <1>3
    <3>2. k - 1 < n
      OBVIOUS
    <3>3. VerifyProof(GenerateProof(leaves, k - 1), MerkleRoot(leaves), leaves[k])
      BY <1>4
    <3>4. QED
      BY <3>1, <3>2, <3>3
  <2>3. ASSUME NEW i \in 0..(n - 1) PROVE \E k \in 1..n : records[k].leaf_index = i
    <3>1. i + 1 \in 1..n /\ (i + 1) - 1 = i
      OBVIOUS
    <3>2. records[i + 1].leaf_index = i
      BY <1>2, <3>1
    <3>3. QED
      BY <3>1, <3>2
  <2>4. n = Len(orders) /\ records = manifest.records
    BY <1>1
  <2>5. \A j, k \in 1..Len(orders) :
           j # k => /\ manifest.records[j].leaf_index # manifest.records[k].leaf_index
                    /\ manifest.records[j].order_id # manifest.records[k].order_id
    BY <2>1, <2>4
  <2>6. ASSUME NEW k \in 1..Len(orders)
        PROVE  /\ manifest.records[k].leaf_index < Len(orders)
               /\ VerifyProof(GenerateProof(leaves, manifest.records[k].leaf_index),
                              MerkleRoot(leaves), manifest.records[k].commitment)
               /\ \E i \in 1..Len(orders) :
                    /\ orders[i].id = manifest.records[k].order_id
                    /\ manifest.records[k].disposition = Disposition(alloc[i], orders[i].qty)
    <3>1. k \in 1..n
      BY <2>4
    <3>2. QED
      BY <2>2, <2>4, <3>1
  <2>7. \A i \in 0..(Len(orders) - 1) :
          \E k \in 1..Len(orders) : manifest.records[k].leaf_index = i
    BY <2>3, <2>4
  <2>8. /\ Len(leaves) = Len(orders) /\ Len(manifest.records) = Len(orders)
        /\ manifest.total_committed = Len(orders)
    BY <1>3
  <2>9. QED
    BY <2>5, <2>6, <2>7, <2>8 DEF VerifyAccounting
<1>6. QED
  BY <1>1, <1>5

\* Orders of a batch are of accounts there may be.
LEMMA OrderAccounts ==
  ASSUME ClearingIInv, stage = "executed", NEW i \in Orders
  PROVE  batch[i].account \in Account
<1>1. Range(batch) = Range(intake) /\ intake \in Seq(Submitted)
  BY DEF ClearingIInv, BatchIsCanonical
<1>2. WellFormedBatch(batch) /\ i \in 1..Len(batch)
  BY ExecutedOutcome DEF Orders
<1>3. batch[i] \in Range(batch)
  BY <1>2 DEF WellFormedBatch, Range
<1>4. PICK j \in DOMAIN intake : intake[j] = batch[i]
  BY <1>1, <1>3 DEF Range
<1>5. batch[i] \in Submitted
  BY <1>1, <1>4
<1>6. QED
  BY <1>5, CheckedAccounts DEF Submitted

----------------------------------------------------------------------------
(***************************************************************************)
(* The checker's run.  Its inductive invariant adds to that of clearing    *)
(* what the checker's variables hold: the honest result is the engine's on *)
(* the ledger the batch started from, and a ruling is verify_transition's. *)
(***************************************************************************)
HonestIsTheExecution ==
  honest # None =>
    /\ stage = "executed"
    /\ ApplyBatchTransition(pre, result.fills).ok
    /\ honest = [made |-> TRUE, outcome |-> result.outcome, alloc |-> result.alloc,
                 fills |-> result.fills,
                 post |-> ApplyBatchTransition(pre, result.fills).ledger]

RulingIsTheCheckers ==
  /\ proposal # None => honest # None
  /\ ruling # "none" => proposal # None
  /\ ruling = "accepted" => VerifyTransition(pre, batch, inst, sorted, proposal)
  /\ ruling = "rejected" => ~VerifyTransition(pre, batch, inst, sorted, proposal)
  /\ ruling \in {"none", "accepted", "rejected"}

CheckerIInv ==
  /\ ClearingIInv
  /\ WellFormed(pre) /\ inst \in Instruments
  /\ HonestIsTheExecution
  /\ RulingIsTheCheckers

LEMMA CheckerInitially ==
  ASSUME CheckerInit
  PROVE  CheckerIInv
<1>1. ClearingIInv
  BY ClearingInitInv DEF CheckerInit
<1>2. WellFormed(pre) /\ inst \in Instruments
  BY CheckedLedgersOK DEF CheckerInit, ClearingInit
<1>3. HonestIsTheExecution /\ RulingIsTheCheckers
  BY DEF CheckerInit, HonestIsTheExecution, RulingIsTheCheckers
<1>4. QED
  BY <1>1, <1>2, <1>3 DEF CheckerIInv

LEMMA CheckerStep ==
  ASSUME CheckerIInv, CheckerNext
  PROVE  CheckerIInv'
<1> USE DEF CheckerIInv
<1>1. CASE ClearBatch
  <2>1. ClearingIInv'
    BY <1>1, ClearingNextInv DEF ClearBatch
  <2>2. stage # "executed" /\ inst' = inst /\ pre' = pre
    BY <1>1 DEF ClearBatch, ClearingNext, Receive, CreateBatch, RejectBatch,
                ExecuteBatch, ClearingFails
  <2>3. honest = None /\ proposal = None /\ ruling = "none"
    BY <2>2 DEF HonestIsTheExecution, RulingIsTheCheckers
  <2>4. honest' = None /\ proposal' = None /\ ruling' = "none"
    BY <1>1, <2>3 DEF ClearBatch, None
  <2>5. QED
    BY <2>1, <2>2, <2>4 DEF HonestIsTheExecution, RulingIsTheCheckers, WellFormed
<1>2. CASE FinishExecution
  <2> DEFINE post == ApplyBatchTransition(pre, result.fills)
  <2>1. /\ UNCHANGED clearingVars /\ pre' = pre /\ proposal' = proposal /\ ruling' = ruling
        /\ stage = "executed" /\ post.ok /\ honest = None
        /\ honest' = [made |-> TRUE, outcome |-> result.outcome, alloc |-> result.alloc,
                      fills |-> result.fills, post |-> post.ledger]
    BY <1>2 DEF FinishExecution
  <2>2. ClearingIInv'
    BY <2>1, ClearingNextInv
  <2>3. HonestIsTheExecution'
    BY <2>1 DEF HonestIsTheExecution, clearingVars
  <2>4. proposal' = None /\ ruling' = "none"
    BY <2>1 DEF RulingIsTheCheckers, None
  <2>5. QED
    BY <2>1, <2>2, <2>3, <2>4 DEF RulingIsTheCheckers, WellFormed, clearingVars
<1>3. CASE Propose
  <2>1. /\ UNCHANGED clearingVars /\ pre' = pre /\ honest' = honest /\ ruling' = ruling
        /\ honest.made /\ proposal = None
    BY <1>3 DEF Propose
  <2>2. ClearingIInv'
    BY <2>1, ClearingNextInv
  <2>3. HonestIsTheExecution'
    BY <2>1 DEF HonestIsTheExecution, clearingVars, None
  <2>4. honest' # None /\ ruling' = "none"
    BY <2>1 DEF RulingIsTheCheckers, None
  <2>5. QED
    BY <2>1, <2>2, <2>3, <2>4 DEF RulingIsTheCheckers, WellFormed, clearingVars
<1>4. CASE Rule
  <2>1. /\ UNCHANGED clearingVars /\ pre' = pre /\ honest' = honest /\ proposal' = proposal
        /\ ruling' = IF VerifyTransition(pre, batch, inst, sorted, proposal)
                     THEN "accepted" ELSE "rejected"
        /\ proposal.made
    BY <1>4 DEF Rule
  <2>2. ClearingIInv'
    BY <2>1, ClearingNextInv
  <2>3. HonestIsTheExecution'
    BY <2>1 DEF HonestIsTheExecution, clearingVars, None
  <2>4. proposal # None /\ honest # None
    BY <2>1 DEF RulingIsTheCheckers, None
  <2>5. RulingIsTheCheckers'
    BY <2>1, <2>4 DEF RulingIsTheCheckers, clearingVars
  <2>6. QED
    BY <2>1, <2>2, <2>3, <2>5 DEF WellFormed, clearingVars
<1>5. QED
  BY <1>1, <1>2, <1>3, <1>4 DEF CheckerNext

LEMMA CheckerInvariant == AuditsSpec => []CheckerIInv
<1>1. AuditsInit => CheckerIInv
  BY CheckerInitially DEF AuditsInit
<1>2. CheckerIInv /\ UNCHANGED checkerVars => CheckerIInv'
  <2> SUFFICES ASSUME CheckerIInv, UNCHANGED checkerVars PROVE CheckerIInv'
    OBVIOUS
  <2>1. UNCHANGED clearingVars /\ UNCHANGED <<pre, honest, proposal, ruling>>
    BY DEF checkerVars
  <2>2. ClearingIInv'
    BY <2>1, ClearingNextInv DEF CheckerIInv
  <2>3. HonestIsTheExecution' /\ RulingIsTheCheckers'
    BY <2>1 DEF HonestIsTheExecution, RulingIsTheCheckers, CheckerIInv, clearingVars
  <2>4. QED
    BY <2>1, <2>2, <2>3 DEF CheckerIInv, WellFormed, clearingVars
<1>3. CheckerIInv /\ [AuditsNext]_auditsVars => CheckerIInv'
  <2>1. [AuditsNext]_auditsVars => CheckerNext \/ UNCHANGED checkerVars
    BY DEF AuditsNext, CheckOne, EvaluateRow, Report, Throw, auditsVars
  <2>2. QED
    BY <2>1, <1>2, CheckerStep
<1>4. QED
  BY <1>1, <1>3, PTL DEF AuditsSpec

\* verify_transition accepts only what execute_batch returned: a proposal it
\* accepts has the outcome, the allocation and the fills of the execution, its
\* accounts, their cash and their inventory of the batch's instrument.
THEOREM OnlyTheExecution == AuditsSpec => []AcceptsOnlyTheExecution
<1>1. CheckerIInv => AcceptsOnlyTheExecution
  <2> SUFFICES ASSUME CheckerIInv, ruling = "accepted" PROVE AcceptsOnlyTheExecution
    BY DEF AcceptsOnlyTheExecution
  <2> DEFINE post == ApplyBatchTransition(pre, result.fills)
  <2>1. /\ ClearingIInv /\ stage = "executed"
        /\ VerifyTransition(pre, batch, inst, sorted, proposal)
        /\ honest = [made |-> TRUE, outcome |-> result.outcome, alloc |-> result.alloc,
                     fills |-> result.fills, post |-> post.ledger]
    BY DEF CheckerIInv, HonestIsTheExecution, RulingIsTheCheckers
  <2>2. /\ proposal.outcome = result.outcome
        /\ proposal.alloc = result.alloc
        /\ proposal.fills = result.fills
        /\ proposal.post.accounts = post.ledger.accounts
        /\ \A a \in proposal.post.accounts :
             /\ proposal.post.cash[a] = post.ledger.cash[a]
             /\ proposal.post.inv[inst][a] = post.ledger.inv[inst][a]
    BY <2>1, VerifiedResult
  <2> HIDE DEF post
  <2>3. QED
    BY <2>1, <2>2 DEF AcceptsOnlyTheExecution
<1>2. QED
  BY <1>1, CheckerInvariant, PTL

\* verify_transition accepts what execute_batch returned, whatever the batch
\* and the ledger, except for a batch without fills in an instrument whose
\* total does not fit a word.
THEOREM ExecutionIsAccepted == AuditsSpec => []AcceptsTheExecution
<1>1. CheckerIInv => AcceptsTheExecution
  <2> SUFFICES ASSUME CheckerIInv, ruling # "none", proposal = honest,
                      ~(InvSum(pre, inst) > MaxRaw /\ honest.fills = << >>)
               PROVE  ruling = "accepted"
    BY DEF AcceptsTheExecution
  <2> DEFINE post == ApplyBatchTransition(pre, result.fills)
  <2>1. /\ ClearingIInv /\ stage = "executed" /\ WellFormed(pre) /\ inst \in Instruments
        /\ post.ok
        /\ honest = [made |-> TRUE, outcome |-> result.outcome, alloc |-> result.alloc,
                     fills |-> result.fills, post |-> post.ledger]
    BY DEF CheckerIInv, HonestIsTheExecution, RulingIsTheCheckers
  <2>2. /\ proposal.outcome = result.outcome /\ proposal.alloc = result.alloc
        /\ proposal.fills = result.fills /\ proposal.post = post.ledger
    <3> HIDE DEF post
    <3>1. QED
      BY <2>1
  <2>3. InvSum(pre, inst) <= MaxRaw \/ result.fills # << >>
    <3>1. InvSum(pre, inst) \in Nat
      BY <2>1, InventoryTotalNat
    <3>2. QED
      BY <2>1, <2>2, <3>1, WordWidth
  <2>4. VerifyTransition(pre, batch, inst, sorted, proposal)
    BY <2>1, <2>2, <2>3, ResultVerifies
  <2>5. QED
    BY <2>4 DEF CheckerIInv, RulingIsTheCheckers
<1>2. QED
  BY <1>1, CheckerInvariant, PTL

----------------------------------------------------------------------------
(***************************************************************************)
(* The audit matrix.  Fills that settle, one after the other: the ledgers  *)
(* p[0], p[1], ... that they leave.                                        *)
(***************************************************************************)
Settling(p, l, fs, n) ==
  /\ p[0] = l
  /\ \A k \in 1..n : Settles(p[k - 1], fs[k]) /\ p[k] = SettleFill(p[k - 1], fs[k])

LEMMA SettlingIsApplying ==
  ASSUME NEW l, NEW fs, NEW n \in Nat, n = Len(fs), NEW p, Settling(p, l, fs, n)
  PROVE  \A k \in 0..n : Applying(l, fs)[k] = [ok |-> TRUE, ledger |-> p[k]]
<1>1. PICK r : r = Applying(l, fs)
  OBVIOUS
<1>2. /\ r[0] = [ok |-> TRUE, ledger |-> l]
      /\ \A k \in 1..n : r[k] = ApplyOne(l, r[k - 1], fs[k])
  BY <1>1, ApplyingSteps
<1> DEFINE T == {k \in Nat : k <= n => r[k] = [ok |-> TRUE, ledger |-> p[k]]}
<1>3. 0 \in T
  BY <1>2 DEF Settling
<1>4. ASSUME NEW k \in T PROVE k + 1 \in T
  <2>1. SUFFICES ASSUME k + 1 <= n PROVE r[k + 1] = [ok |-> TRUE, ledger |-> p[k + 1]]
    OBVIOUS
  <2>2. k \in Nat /\ k + 1 \in 1..n /\ (k + 1) - 1 = k /\ k <= n
    BY <2>1
  <2>3. r[k] = [ok |-> TRUE, ledger |-> p[k]]
    BY <2>2
  <2>4. Settles(p[k], fs[k + 1]) /\ p[k + 1] = SettleFill(p[k], fs[k + 1])
    BY <2>2 DEF Settling
  <2>5. r[k + 1] = ApplyOne(l, r[k], fs[k + 1])
    BY <1>2, <2>2
  <2>6. QED
    BY <2>3, <2>4, <2>5 DEF ApplyOne
<1>5. T = Nat
  <2> HIDE DEF T
  <2>1. T \in SUBSET Nat
    BY DEF T
  <2>2. QED
    BY <2>1, <1>3, <1>4, SetInduction
<1>6. ASSUME NEW k \in 0..n PROVE r[k] = [ok |-> TRUE, ledger |-> p[k]]
  <2>1. k \in T /\ k <= n
    BY <1>5
  <2>2. QED
    BY <2>1
<1>7. QED
  BY <1>1, <1>6

LEMMA ApplyingIsSettling ==
  ASSUME NEW l, NEW fs, NEW n \in Nat, n = Len(fs), Applying(l, fs)[n].ok
  PROVE  \E p : p[n] = Applying(l, fs)[n].ledger /\ Settling(p, l, fs, n)
<1>1. PICK r : r = Applying(l, fs)
  OBVIOUS
<1>2. /\ r[0] = [ok |-> TRUE, ledger |-> l]
      /\ \A k \in 1..n : r[k] = ApplyOne(l, r[k - 1], fs[k])
  BY <1>1, ApplyingSteps
<1> DEFINE T == {d \in Nat : d <= n => r[n - d].ok}
<1>3. 0 \in T
  BY <1>1
<1>4. ASSUME NEW d \in T PROVE d + 1 \in T
  <2>1. SUFFICES ASSUME d + 1 <= n PROVE r[n - (d + 1)].ok
    OBVIOUS
  <2>2. d \in Nat /\ d <= n /\ n - d \in 1..n /\ (n - d) - 1 = n - (d + 1)
    BY <2>1
  <2>3. r[n - d].ok /\ r[n - d] = ApplyOne(l, r[n - (d + 1)], fs[n - d])
    <3>1. r[n - d].ok
      BY <2>2
    <3>2. r[n - d] = ApplyOne(l, r[(n - d) - 1], fs[n - d])
      BY <1>2, <2>2
    <3>3. QED
      BY <3>1, <3>2, <2>2
  <2>4. QED
    BY <2>3 DEF ApplyOne
<1>5. T = Nat
  <2> HIDE DEF T
  <2>1. T \in SUBSET Nat
    BY DEF T
  <2>2. QED
    BY <2>1, <1>3, <1>4, SetInduction
<1>6. \A k \in 0..n : r[k].ok
  <2>1. ASSUME NEW k \in 0..n PROVE r[k].ok
    <3>1. PICK d : d = n - k /\ d \in Nat /\ d <= n /\ n - d = k
      <4>1. n - k \in Nat /\ n - k <= n /\ n - (n - k) = k
        OBVIOUS
      <4>2. QED
        BY <4>1
    <3>2. d \in T
      BY <1>5, <3>1
    <3>3. r[n - d].ok
      BY <3>1, <3>2
    <3>4. QED
      BY <3>1, <3>3
  <2>2. QED
    BY <2>1
<1> DEFINE p == [k \in 0..n |-> r[k].ledger]
<1>7. Settling(p, l, fs, n)
  <2>1. ASSUME NEW k \in 1..n
        PROVE  Settles(p[k - 1], fs[k]) /\ p[k] = SettleFill(p[k - 1], fs[k])
    <3>1. k - 1 \in 0..n /\ k \in 0..n
      OBVIOUS
    <3>2. r[k].ok /\ r[k] = ApplyOne(l, r[k - 1], fs[k])
      BY <1>2, <1>6, <3>1
    <3>3. Settles(r[k - 1].ledger, fs[k]) /\ r[k].ledger = SettleFill(r[k - 1].ledger, fs[k])
      BY <3>2 DEF ApplyOne
    <3>4. QED
      BY <3>1, <3>3
  <2>2. p[0] = l
    BY <1>2
  <2> HIDE DEF p
  <2>3. QED
    BY <2>1, <2>2 DEF Settling
<1>8. p[n] = r[n].ledger
  OBVIOUS
<1> HIDE DEF p
<1>9. QED
  BY <1>1, <1>7, <1>8

\* What an instrument's fills leave alone: the accounts, the salts and every
\* other instrument.
LEMMA SettlingKeeps ==
  ASSUME NEW l, WellFormed(l), NEW fs \in Seq(FillType), NEW x \in Instruments,
         \A k \in 1..Len(fs) : fs[k].consideration >= 1 /\ fs[k].instrument = x,
         NEW n \in Nat, n = Len(fs), NEW p, Settling(p, l, fs, n)
  PROVE  /\ \A k \in 0..n :
              /\ WellFormed(p[k]) /\ p[k].accounts = l.accounts
              /\ p[k].blinded = l.blinded
              /\ \A y \in Instruments \ {x} : p[k].inv[y] = l.inv[y]
         /\ \A k \in 1..n : fs[k].account \in l.accounts
<1> DEFINE same(m) == /\ WellFormed(m) /\ m.accounts = l.accounts
                      /\ m.blinded = l.blinded
                      /\ \A y \in Instruments \ {x} : m.inv[y] = l.inv[y]
           T == {k \in Nat : k <= n => same(p[k])}
<1>1. ASSUME NEW k \in 1..n, same(p[k - 1])
      PROVE  same(p[k]) /\ fs[k].account \in l.accounts
  <2>1. PICK m, f, q : m = p[k - 1] /\ f = fs[k] /\ q = p[k]
    OBVIOUS
  <2>2. Settles(m, f) /\ q = SettleFill(m, f)
    BY <2>1 DEF Settling
  <2>3. f \in FillType /\ f.consideration >= 1 /\ f.instrument = x
    BY <2>1
  <2>4. same(m)
    BY <1>1, <2>1
  <2>5. WellFormed(m) /\ m.accounts = l.accounts /\ m.blinded = l.blinded
    BY <2>4
  <2> HIDE DEF same
  <2>6. /\ f.account \in m.accounts /\ WellFormed(q) /\ q.accounts = m.accounts
        /\ q.inv = [m.inv EXCEPT ![x][f.account] = @ + QtyEffect(f)]
    BY <2>2, <2>3, <2>5, SettledStep, ZenonT(40)
  <2>7. q.blinded = m.blinded
    <3>1. m \in LedgerType
      BY <2>5 DEF WellFormed
    <3>2. QED
      BY <2>2, <3>1 DEF SettleFill, GetOrCreateAccount, LedgerType
  <2>8. \A y \in Instruments \ {x} : q.inv[y] = m.inv[y]
    <3>1. m.inv \in [Instruments -> [Account -> Qty]]
      BY <2>5 DEF WellFormed, LedgerType
    <3>2. QED
      BY <2>6, <3>1
  <2>9. same(q)
    BY <2>4, <2>6, <2>7, <2>8 DEF same
  <2>10. QED
    BY <2>1, <2>5, <2>6, <2>9
<1>2. 0 \in T
  BY DEF Settling
<1>3. ASSUME NEW k \in T PROVE k + 1 \in T
  <2>1. SUFFICES ASSUME k + 1 <= n PROVE same(p[k + 1])
    OBVIOUS
  <2>2. k \in Nat /\ k + 1 \in 1..n /\ (k + 1) - 1 = k /\ k <= n
    BY <2>1
  <2>3. same(p[k])
    BY <2>2
  <2> HIDE DEF same
  <2>4. QED
    BY <1>1, <2>2, <2>3
<1>4. T = Nat
  <2> HIDE DEF T
  <2>1. T \in SUBSET Nat
    BY DEF T
  <2>2. QED
    BY <2>1, <1>2, <1>3, SetInduction
<1>5. \A k \in 0..n : same(p[k])
  <2> HIDE DEF same
  <2>1. QED
    BY <1>4
<1>6. \A k \in 1..n : fs[k].account \in l.accounts
  <2>1. ASSUME NEW k \in 1..n PROVE fs[k].account \in l.accounts
    <3>1. same(p[k - 1])
      <4> HIDE DEF same
      <4>1. k - 1 \in 0..n
        OBVIOUS
      <4>2. QED
        BY <1>5, <4>1
    <3> HIDE DEF same
    <3>2. QED
      BY <1>1, <3>1
  <2>2. QED
    BY <2>1
<1>7. QED
  BY <1>5, <1>6

\* Ledgers by their fields, and the updates of one field.
LedgerOf(A, B, C, I) == [accounts |-> A, blinded |-> B, cash |-> C, inv |-> I]

Salted(l, s) == [l EXCEPT !.blinded = s]
WithAccount(l, a) == [l EXCEPT !.accounts = @ \cup {a}]
WithCash(l, c) == [l EXCEPT !.cash = c]
WithInv(l, i) == [l EXCEPT !.inv = i]

LEMMA SaltedIs ==
  ASSUME NEW A, NEW B, NEW C, NEW I, NEW v
  PROVE  Salted(LedgerOf(A, B, C, I), v) = LedgerOf(A, v, C, I)
BY DEF LedgerOf, Salted

LEMMA WithAccountIs ==
  ASSUME NEW A, NEW B, NEW C, NEW I, NEW v
  PROVE  WithAccount(LedgerOf(A, B, C, I), v) = LedgerOf(A \cup {v}, B, C, I)
BY DEF LedgerOf, WithAccount

LEMMA WithCashIs ==
  ASSUME NEW A, NEW B, NEW C, NEW I, NEW v
  PROVE  WithCash(LedgerOf(A, B, C, I), v) = LedgerOf(A, B, v, I)
BY DEF LedgerOf, WithCash

LEMMA WithInvIs ==
  ASSUME NEW A, NEW B, NEW C, NEW I, NEW v
  PROVE  WithInv(LedgerOf(A, B, C, I), v) = LedgerOf(A, B, C, v)
BY DEF LedgerOf, WithInv

LEMMA LedgerFields ==
  ASSUME NEW l \in LedgerType
  PROVE  l = LedgerOf(l.accounts, l.blinded, l.cash, l.inv)
BY DEF LedgerType, LedgerOf

LEMMA FieldsOfLedger ==
  ASSUME NEW A, NEW B, NEW C, NEW I
  PROVE  /\ LedgerOf(A, B, C, I).accounts = A /\ LedgerOf(A, B, C, I).blinded = B
         /\ LedgerOf(A, B, C, I).cash = C /\ LedgerOf(A, B, C, I).inv = I
BY DEF LedgerOf

CashAfter(C, f) == [C EXCEPT ![f.account] = @ + CashEffect(f)]
InvAfter(I, f) == [I EXCEPT ![f.instrument][f.account] = @ + QtyEffect(f)]

LEMMA SettledFields ==
  ASSUME NEW A, NEW B, NEW C, NEW I, NEW f
  PROVE  SettleFill(LedgerOf(A, B, C, I), f)
           = LedgerOf(A \cup {f.account}, B, CashAfter(C, f), InvAfter(I, f))
<1>1. PICK z, a, c, i : /\ z = LedgerOf(A \cup {f.account}, B, C, I)
                        /\ a = f.account /\ c = CashAfter(C, f) /\ i = InvAfter(I, f)
  OBVIOUS
<1>2. GetOrCreateAccount(LedgerOf(A, B, C, I), a) = z
  <2>1. WithAccount(LedgerOf(A, B, C, I), a) = z
    BY <1>1, WithAccountIs
  <2>2. QED
    BY <2>1 DEF GetOrCreateAccount, WithAccount
<1>3. z.cash = C /\ z.inv = I
  BY <1>1, FieldsOfLedger
<1>4. SettleFill(LedgerOf(A, B, C, I), f)
        = [z EXCEPT !.cash[a] = @ + CashEffect(f),
                    !.inv[f.instrument][a] = @ + QtyEffect(f)]
  BY <1>1, <1>2 DEF SettleFill
<1>5. [z EXCEPT !.cash[a] = @ + CashEffect(f),
                !.inv[f.instrument][a] = @ + QtyEffect(f)]
        = WithInv(WithCash(z, c), i)
  BY <1>1, <1>3 DEF WithInv, WithCash, CashAfter, InvAfter
<1>6. WithCash(z, c) = LedgerOf(A \cup {a}, B, c, I)
  BY <1>1, WithCashIs
<1>7. WithInv(WithCash(z, c), i) = LedgerOf(A \cup {a}, B, c, i)
  BY <1>6, WithInvIs
<1>8. QED
  BY <1>1, <1>4, <1>5, <1>7

\* The salts have no part in a settlement.
LEMMA SaltedStep ==
  ASSUME NEW q \in LedgerType, NEW s, NEW f
  PROVE  /\ Settles(Salted(q, s), f) <=> Settles(q, f)
         /\ SettleFill(Salted(q, s), f) = Salted(SettleFill(q, f), s)
<1>1. PICK A, B, C, I : A = q.accounts /\ B = q.blinded /\ C = q.cash /\ I = q.inv
  OBVIOUS
<1>2. q = LedgerOf(A, B, C, I)
  BY <1>1, LedgerFields
<1>3. Salted(q, s) = LedgerOf(A, s, C, I)
  BY <1>2, SaltedIs
<1>4. Settles(Salted(q, s), f) <=> Settles(q, f)
  <2>1. PICK m : m = Salted(q, s)
    OBVIOUS
  <2>2. q.cash = C /\ q.inv = I /\ m.cash = C /\ m.inv = I
    BY <1>1, <1>3, <2>1, FieldsOfLedger
  <2>3. Settles(m, f) <=> Settles(q, f)
    BY <2>2 DEF Settles
  <2>4. QED
    BY <2>1, <2>3
<1>5. PICK E, c, i : E = A \cup {f.account} /\ c = CashAfter(C, f) /\ i = InvAfter(I, f)
  OBVIOUS
<1>6. SettleFill(q, f) = LedgerOf(E, B, c, i)
  BY <1>2, <1>5, SettledFields
<1>7. SettleFill(Salted(q, s), f) = LedgerOf(E, s, c, i)
  BY <1>3, <1>5, SettledFields
<1>8. Salted(SettleFill(q, f), s) = LedgerOf(E, s, c, i)
  BY <1>6, SaltedIs
<1>9. QED
  BY <1>4, <1>7, <1>8

LEMMA SaltedTransition ==
  ASSUME NEW l, WellFormed(l), NEW s, NEW fs \in Seq(FillType), NEW x \in Instruments,
         \A k \in 1..Len(fs) : fs[k].consideration >= 1 /\ fs[k].instrument = x,
         ApplyBatchTransition(l, fs).ok
  PROVE  ApplyBatchTransition(Salted(l, s), fs)
           = [ok |-> TRUE, ledger |-> Salted(ApplyBatchTransition(l, fs).ledger, s)]
<1>1. PICK n : n = Len(fs) /\ n \in Nat
  OBVIOUS
<1>2. PICK t : t = Applying(l, fs)[n]
  OBVIOUS
<1>3. /\ ApplyBatchTransition(l, fs).ledger = t.ledger
      /\ t.ok /\ CashConserved(l, t.ledger) /\ AssetsConserved(l, t.ledger, fs)
  BY <1>1, <1>2, TransitionIs
<1>4. PICK p : p[n] = t.ledger /\ Settling(p, l, fs, n)
  BY <1>1, <1>2, <1>3, ApplyingIsSettling
<1>5. \A k \in 0..n : WellFormed(p[k])
  BY <1>1, <1>4, SettlingKeeps
<1> DEFINE q == [k \in 0..n |-> Salted(p[k], s)]
<1>6. Settling(q, Salted(l, s), fs, n)
  <2>1. ASSUME NEW k \in 1..n
        PROVE  Settles(q[k - 1], fs[k]) /\ q[k] = SettleFill(q[k - 1], fs[k])
    <3>1. k - 1 \in 0..n /\ k \in 0..n
      BY <1>1
    <3>2. p[k - 1] \in LedgerType
      BY <1>5, <3>1 DEF WellFormed
    <3>3. Settles(p[k - 1], fs[k]) /\ p[k] = SettleFill(p[k - 1], fs[k])
      BY <1>4 DEF Settling
    <3>4. q[k - 1] = Salted(p[k - 1], s) /\ q[k] = Salted(p[k], s)
      BY <3>1
    <3> HIDE DEF q
    <3>5. QED
      BY <3>2, <3>3, <3>4, SaltedStep
  <2>2. q[0] = Salted(l, s)
    BY <1>1, <1>4 DEF Settling
  <2> HIDE DEF q
  <2>3. QED
    BY <2>1, <2>2 DEF Settling
<1>7. q[n] = Salted(t.ledger, s)
  BY <1>1, <1>4
<1> HIDE DEF q
<1>8. Applying(Salted(l, s), fs)[n] = [ok |-> TRUE, ledger |-> Salted(t.ledger, s)]
  <2>1. \A k \in 0..n : Applying(Salted(l, s), fs)[k] = [ok |-> TRUE, ledger |-> q[k]]
    BY <1>1, <1>6, SettlingIsApplying
  <2>2. n \in 0..n
    BY <1>1
  <2>3. QED
    BY <2>1, <2>2, <1>7
<1>9. /\ CashConserved(Salted(l, s), Salted(t.ledger, s))
      /\ AssetsConserved(Salted(l, s), Salted(t.ledger, s), fs)
  <2>1. l \in LedgerType /\ t.ledger \in LedgerType
    <3>1. WellFormed(p[n])
      BY <1>1, <1>5
    <3>2. QED
      BY <1>4, <3>1 DEF WellFormed
  <2>2. ASSUME NEW m \in LedgerType
        PROVE  Salted(m, s).cash = m.cash /\ Salted(m, s).inv = m.inv
    BY DEF Salted, LedgerType
  <2>3. PICK u, v : u = t.ledger /\ v = Salted(t.ledger, s)
    OBVIOUS
  <2>4. /\ Salted(l, s).cash = l.cash /\ Salted(l, s).inv = l.inv
        /\ v.cash = u.cash /\ v.inv = u.inv
    BY <2>1, <2>2, <2>3
  <2>5. CashConserved(l, u) /\ AssetsConserved(l, u, fs)
    BY <1>3, <2>3
  <2>6. CashConserved(Salted(l, s), v)
    BY <2>4, <2>5 DEF CashConserved, TotalCash
  <2>7. AssetsConserved(Salted(l, s), v, fs)
    BY <2>4, <2>5 DEF AssetsConserved, TotalInventoryOf
  <2>8. QED
    BY <2>3, <2>6, <2>7
<1>10. PICK w, z, g : /\ w = ApplyBatchTransition(Salted(l, s), fs)
                      /\ z = Salted(t.ledger, s) /\ g = Applying(Salted(l, s), fs)[n]
  OBVIOUS
<1>11. w = [ok |-> /\ g.ok
                   /\ CashConserved(Salted(l, s), g.ledger)
                   /\ AssetsConserved(Salted(l, s), g.ledger, fs),
            ledger |-> g.ledger]
  BY <1>1, <1>10, TransitionIs
<1>12. g = [ok |-> TRUE, ledger |-> z]
  BY <1>8, <1>10
<1>13. CashConserved(Salted(l, s), z) /\ AssetsConserved(Salted(l, s), z, fs)
  BY <1>9, <1>10
<1>14. w = [ok |-> TRUE, ledger |-> z]
  BY <1>11, <1>12, <1>13
<1>15. QED
  BY <1>3, <1>10, <1>14

\* The harness's own credits.
CashCredited(C, a, amount) == [C EXCEPT ![a] = OrKeep(CheckedAdd(@, amount, MaxMoney), @)]
LotsCredited(I, x, a, qty) == [I EXCEPT ![x][a] = OrKeep(CheckedAdd(@, qty, MaxRaw), @)]

LEMMA AccountIs ==
  ASSUME NEW A, NEW B, NEW C, NEW I, NEW a
  PROVE  GetOrCreateAccount(LedgerOf(A, B, C, I), a) = LedgerOf(A \cup {a}, B, C, I)
<1>1. WithAccount(LedgerOf(A, B, C, I), a) = LedgerOf(A \cup {a}, B, C, I)
  BY WithAccountIs
<1>2. QED
  BY <1>1 DEF GetOrCreateAccount, WithAccount

LEMMA CreditCashIs ==
  ASSUME NEW A, NEW B, NEW C, NEW I, NEW a, NEW amount
  PROVE  CreditCash(LedgerOf(A, B, C, I), a, amount)
           = LedgerOf(A \cup {a}, B, CashCredited(C, a, amount), I)
<1>1. PICK z, c : z = LedgerOf(A \cup {a}, B, C, I) /\ c = CashCredited(C, a, amount)
  OBVIOUS
<1>2. GetOrCreateAccount(LedgerOf(A, B, C, I), a) = z
  BY <1>1, AccountIs
<1>3. z.cash = C
  BY <1>1, FieldsOfLedger
<1>4. CreditCash(LedgerOf(A, B, C, I), a, amount)
        = [z EXCEPT !.cash[a] = OrKeep(CheckedAdd(@, amount, MaxMoney), @)]
  BY <1>2 DEF CreditCash
<1>5. [z EXCEPT !.cash[a] = OrKeep(CheckedAdd(@, amount, MaxMoney), @)] = WithCash(z, c)
  BY <1>1, <1>3 DEF WithCash, CashCredited
<1>6. WithCash(z, c) = LedgerOf(A \cup {a}, B, c, I)
  BY <1>1, WithCashIs
<1>7. QED
  BY <1>1, <1>4, <1>5, <1>6

LEMMA CreditInventoryIs ==
  ASSUME NEW A, NEW B, NEW C, NEW I, NEW a, NEW qty
  PROVE  CreditInventory(LedgerOf(A, B, C, I), a, qty)
           = LedgerOf(A \cup {a}, B, C, LotsCredited(I, inst, a, qty))
<1>1. PICK z, i : z = LedgerOf(A \cup {a}, B, C, I) /\ i = LotsCredited(I, inst, a, qty)
  OBVIOUS
<1>2. GetOrCreateAccount(LedgerOf(A, B, C, I), a) = z
  BY <1>1, AccountIs
<1>3. z.inv = I
  BY <1>1, FieldsOfLedger
<1>4. CreditInventory(LedgerOf(A, B, C, I), a, qty)
        = [z EXCEPT !.inv[inst][a] = OrKeep(CheckedAdd(@, qty, MaxRaw), @)]
  BY <1>2 DEF CreditInventory
<1>5. [z EXCEPT !.inv[inst][a] = OrKeep(CheckedAdd(@, qty, MaxRaw), @)] = WithInv(z, i)
  BY <1>1, <1>3 DEF WithInv, LotsCredited
<1>6. WithInv(z, i) = LedgerOf(A \cup {a}, B, C, i)
  BY <1>1, WithInvIs
<1>7. QED
  BY <1>1, <1>4, <1>5, <1>6

\* A fill that the engine settles is settled by the harness all the same.
LEMMA HarnessSettles ==
  ASSUME NEW q \in LedgerType, NEW f \in FillType, f.instrument = inst,
         inst \in Instruments, Settles(q, f)
  PROVE  SettleRegardless(q, f) = SettleFill(q, f)
<1>1. PICK A, B, C, I : A = q.accounts /\ B = q.blinded /\ C = q.cash /\ I = q.inv
  OBVIOUS
<1>2. q = LedgerOf(A, B, C, I)
  BY <1>1, LedgerFields
<1>3. PICK a, cons, qty, x : /\ a = f.account /\ cons = f.consideration
                             /\ qty = f.fill_qty /\ x = inst
  OBVIOUS
<1>4. /\ C \in [Account -> Money] /\ I \in [Instruments -> [Account -> Qty]]
      /\ a \in Account /\ cons \in Money /\ qty \in Price /\ x \in Instruments
      /\ f.side \in Sides
  BY <1>1, <1>3 DEF LedgerType, FillType
<1>5. PICK cash, held : cash = C[a] /\ held = I[x][a]
  OBVIOUS
<1>6. /\ cash \in Nat /\ held \in Nat /\ cons \in Nat /\ qty \in Nat
      /\ MaxMoney \in Nat /\ MaxRaw \in Nat
  BY <1>4, <1>5, WordWidth, MoneyWidth DEF Money, Qty, Price
<1>7. SettleFill(q, f) = LedgerOf(A \cup {a}, B, CashAfter(C, f), InvAfter(I, f))
  BY <1>2, <1>3, SettledFields
<1>8. CASE f.side = "Buy"
  <2>1. CheckedSub(cash, cons) # Err /\ CheckedAdd(held, qty, MaxRaw) # Err
    BY <1>1, <1>3, <1>5, <1>8 DEF Settles
  <2>2. CheckedSub(cash, cons) = cash + (-cons) /\ CheckedAdd(held, qty, MaxRaw) = held + qty
    BY <1>6, <2>1 DEF CheckedSub, CheckedAdd
  <2>3. CashEffect(f) = -cons /\ QtyEffect(f) = qty
    BY <1>3, <1>8 DEF CashEffect, QtyEffect
  <2>4. PICK c : c = [C EXCEPT ![a] = OrKeep(CheckedSub(@, cons), @)]
    OBVIOUS
  <2>5. c = CashAfter(C, f)
    BY <1>3, <1>5, <2>1, <2>2, <2>3, <2>4 DEF CashAfter, OrKeep
  <2>6. LotsCredited(I, inst, a, qty) = InvAfter(I, f)
    BY <1>3, <1>5, <2>1, <2>2, <2>3 DEF LotsCredited, InvAfter, OrKeep
  <2>7. PICK z, w : z = LedgerOf(A \cup {a}, B, C, I) /\ w = LedgerOf(A \cup {a}, B, c, I)
    OBVIOUS
  <2>8. GetOrCreateAccount(q, a) = z /\ z.cash = C
    BY <1>2, <2>7, AccountIs, FieldsOfLedger
  <2>9. [z EXCEPT !.cash[a] = OrKeep(CheckedSub(@, cons), @)] = WithCash(z, c)
    BY <2>4, <2>8 DEF WithCash
  <2>10. WithCash(z, c) = w
    BY <2>7, WithCashIs
  <2>11. SettleRegardless(q, f)
           = CreditInventory([z EXCEPT !.cash[a] = OrKeep(CheckedSub(@, cons), @)], a, qty)
    BY <1>3, <1>8, <2>8 DEF SettleRegardless
  <2>12. CreditInventory(w, a, qty)
           = LedgerOf((A \cup {a}) \cup {a}, B, c, LotsCredited(I, inst, a, qty))
    BY <2>7, CreditInventoryIs
  <2>13. (A \cup {a}) \cup {a} = A \cup {a}
    OBVIOUS
  <2>14. QED
    BY <1>7, <2>5, <2>6, <2>9, <2>10, <2>11, <2>12, <2>13
<1>9. CASE f.side # "Buy"
  <2>1. CheckedSub(held, qty) # Err /\ CheckedAdd(cash, cons, MaxMoney) # Err
    BY <1>1, <1>3, <1>5, <1>9 DEF Settles
  <2>2. CheckedSub(held, qty) = held + (-qty) /\ CheckedAdd(cash, cons, MaxMoney) = cash + cons
    BY <1>6, <2>1 DEF CheckedSub, CheckedAdd
  <2>3. CashEffect(f) = cons /\ QtyEffect(f) = -qty
    BY <1>3, <1>9 DEF CashEffect, QtyEffect
  <2>4. PICK i : i = [I EXCEPT ![x][a] = OrKeep(CheckedSub(@, qty), @)]
    OBVIOUS
  <2>5. i = InvAfter(I, f)
    BY <1>3, <1>5, <2>1, <2>2, <2>3, <2>4 DEF InvAfter, OrKeep
  <2>6. CashCredited(C, a, cons) = CashAfter(C, f)
    BY <1>3, <1>5, <2>1, <2>2, <2>3 DEF CashCredited, CashAfter, OrKeep
  <2>7. PICK z, w : z = LedgerOf(A \cup {a}, B, C, I) /\ w = LedgerOf(A \cup {a}, B, C, i)
    OBVIOUS
  <2>8. GetOrCreateAccount(q, a) = z /\ z.inv = I
    BY <1>2, <2>7, AccountIs, FieldsOfLedger
  <2>9. [z EXCEPT !.inv[x][a] = OrKeep(CheckedSub(@, qty), @)] = WithInv(z, i)
    BY <2>4, <2>8 DEF WithInv
  <2>10. WithInv(z, i) = w
    BY <2>7, WithInvIs
  <2>11. SettleRegardless(q, f)
           = CreditCash([z EXCEPT !.inv[x][a] = OrKeep(CheckedSub(@, qty), @)], a, cons)
    BY <1>3, <1>9, <2>8 DEF SettleRegardless
  <2>12. CreditCash(w, a, cons)
           = LedgerOf((A \cup {a}) \cup {a}, B, CashCredited(C, a, cons), i)
    BY <2>7, CreditCashIs
  <2>13. (A \cup {a}) \cup {a} = A \cup {a}
    OBVIOUS
  <2>14. QED
    BY <1>7, <2>5, <2>6, <2>9, <2>10, <2>11, <2>12, <2>13
<1>10. QED
  BY <1>8, <1>9

\* Fills that the engine settles leave the harness the engine's ledger.
LEMMA HarnessAgrees ==
  ASSUME WellFormed(Fixture), inst \in Instruments, NEW fs \in Seq(FillType),
         \A k \in 1..Len(fs) : fs[k].consideration >= 1 /\ fs[k].instrument = inst,
         ApplyBatchTransition(Fixture, fs).ok
  PROVE  Settled(fs) = ApplyBatchTransition(Fixture, fs).ledger
<1>1. PICK n, l : n = Len(fs) /\ l = Fixture
  OBVIOUS
<1>2. n \in Nat
  BY <1>1
<1>3. PICK t : t = Applying(l, fs)[n]
  OBVIOUS
<1>4. ApplyBatchTransition(l, fs).ledger = t.ledger /\ t.ok
  BY <1>1, <1>3, TransitionIs
<1>5. PICK p : p[n] = t.ledger /\ Settling(p, l, fs, n)
  BY <1>1, <1>2, <1>3, <1>4, ApplyingIsSettling
<1>6. \A k \in 0..n : WellFormed(p[k])
  BY <1>1, <1>2, <1>5, SettlingKeeps
<1>7. ASSUME NEW k \in 1..n PROVE p[k] = SettleRegardless(p[k - 1], fs[k])
  <2>1. k - 1 \in 0..n
    BY <1>2
  <2>2. p[k - 1] \in LedgerType
    BY <1>6, <2>1 DEF WellFormed
  <2>3. Settles(p[k - 1], fs[k]) /\ p[k] = SettleFill(p[k - 1], fs[k])
    BY <1>5 DEF Settling
  <2>4. fs[k] \in FillType /\ fs[k].instrument = inst
    BY <1>1
  <2>5. QED
    BY <2>2, <2>3, <2>4, HarnessSettles
<1> DEFINE P(s) == s = [k \in 0..n |-> IF k = 0 THEN l
                                       ELSE SettleRegardless(s[k - 1], fs[k])]
           q == [k \in 0..n |-> p[k]]
<1>8. P(q)
  <2>1. ASSUME NEW k \in 0..n
        PROVE  q[k] = IF k = 0 THEN l ELSE SettleRegardless(q[k - 1], fs[k])
    <3>1. CASE k = 0
      BY <1>5, <3>1 DEF Settling
    <3>2. CASE k # 0
      <4>1. k \in 1..n /\ k - 1 \in 0..n
        BY <1>2, <3>2
      <4>2. QED
        BY <1>7, <3>2, <4>1
    <3>3. QED
      BY <3>1, <3>2
  <2>2. q = [k \in 0..n |-> q[k]]
    OBVIOUS
  <2> HIDE DEF q
  <2>3. QED
    BY <2>1, <2>2
<1>9. PICK r : r = CHOOSE s : P(s)
  OBVIOUS
<1>10. P(r)
  <2>1. P(CHOOSE s : P(s))
    BY <1>8
  <2>2. QED
    BY <1>9, <2>1
<1>11. Settled(fs) = r[n]
  BY <1>1, <1>9 DEF Settled
<1> DEFINE T == {k \in Nat : k <= n => r[k] = p[k]}
<1>12. 0 \in T
  BY <1>2, <1>5, <1>10 DEF Settling
<1>13. ASSUME NEW k \in T PROVE k + 1 \in T
  <2>1. SUFFICES ASSUME k + 1 <= n PROVE r[k + 1] = p[k + 1]
    OBVIOUS
  <2>2. k \in Nat /\ k + 1 \in 1..n /\ k + 1 \in 0..n /\ (k + 1) - 1 = k /\ k <= n
        /\ k + 1 # 0
    BY <1>2, <2>1
  <2>3. r[k] = p[k]
    BY <2>2
  <2>4. r[k + 1] = SettleRegardless(r[k], fs[k + 1])
    BY <1>10, <2>2
  <2>5. p[k + 1] = SettleRegardless(p[k], fs[k + 1])
    BY <1>7, <2>2
  <2>6. QED
    BY <2>3, <2>4, <2>5
<1>14. T = Nat
  <2> HIDE DEF T
  <2>1. T \in SUBSET Nat
    BY DEF T
  <2>2. QED
    BY <2>1, <1>12, <1>13, SetInduction
<1>15. r[n] = p[n]
  <2>1. n \in T
    BY <1>2, <1>14
  <2>2. QED
    BY <1>2, <2>1
<1>16. QED
  BY <1>1, <1>4, <1>5, <1>11, <1>15

(***************************************************************************)
(* What the rows of the matrix come to.  A row passes exactly when the     *)
(* control does and its deviation changes nothing of the execution r of    *)
(* the batch b, in the instrument x, on the ledger l.                      *)
(***************************************************************************)
ControlPost(r, l) == ApplyBatchTransition(BlindLedger(l), r.fills).ledger

Control(x, r, l) == ApplyBatchTransition(l, r.fills).ok /\ InvSum(l, x) <= MaxRaw

Beneficiary(b) == IF b = << >> THEN 1 ELSE b[1].account

Unmoved(r, ticks) ==
  \/ r.outcome.clearing_price = NoPrice
  \/ MovedPrice(r.outcome.clearing_price, ticks) = r.outcome.clearing_price

Effectless(d, b, x, r, l) ==
  LET post == ControlPost(r, l)
      who  == Beneficiary(b)
  IN  /\ d \in {"omitted_order", "leaf_spoofing"} => b = << >>
      /\ d = "price_inflation" => Unmoved(r, Offset)
      /\ d = "price_deflation" => Unmoved(r, -Offset)
      /\ d = "overfill" => b = << >> \/ r.alloc[1] = ForgedQty
      /\ d = "preferential_allocation" => b = << >> \/ r.alloc[1] = 1
      /\ d = "limit_price" =>
           \A k \in 1..Len(r.fills) :
             r.fills[k].order_id = b[1].id => r.fills[k].execution_price = BogusPrice
      /\ d = "frozen_post_state" => post = BlindLedger(l)
      /\ d = "cash_creation" =>
           who \in post.accounts /\ post.cash[who] + ExtraCash > MaxMoney
      /\ d = "inventory_creation" =>
           who \in post.accounts /\ post.inv[x][who] + ExtraQty > MaxRaw
      /\ d # "stale_oracle"

\* The command runs on an executed batch.
Executed == CheckerIInv /\ stage = "executed"

LEMMA FixtureIs ==
  ASSUME WellFormed(pre)
  PROVE  /\ Fixture = Salted(pre, pre.accounts) /\ WellFormed(Fixture)
         /\ Fixture.accounts = pre.accounts /\ Fixture.blinded = pre.accounts
         /\ Fixture.cash = pre.cash /\ Fixture.inv = pre.inv
         /\ \A x : /\ InvSum(Fixture, x) = InvSum(pre, x)
                   /\ TotalInventoryOf(Fixture, x) = TotalInventoryOf(pre, x)
<1>1. PICK A, B, C, I : /\ A = pre.accounts /\ B = pre.blinded
                        /\ C = pre.cash /\ I = pre.inv
  OBVIOUS
<1>2. PICK l, m : l = pre /\ m = Fixture
  OBVIOUS
<1>3. l \in LedgerType
  BY <1>2 DEF WellFormed
<1>4. l = LedgerOf(A, B, C, I)
  BY <1>1, <1>2, <1>3, LedgerFields
<1>5. m = Salted(l, A)
  BY <1>1, <1>2 DEF Fixture, BlindLedger, Salted
<1>6. m = LedgerOf(A, A, C, I)
  BY <1>4, <1>5, SaltedIs
<1>7. m.accounts = A /\ m.blinded = A /\ m.cash = C /\ m.inv = I
  BY <1>6, FieldsOfLedger
<1>8. m \in LedgerType
  <2>1. A \in SUBSET Account /\ C \in [Account -> Money] /\ I \in [Instruments -> [Account -> Qty]]
    BY <1>1, <1>2, <1>3 DEF LedgerType
  <2>2. QED
    BY <1>6, <2>1 DEF LedgerOf, LedgerType
<1>9. WellFormed(m)
  BY <1>1, <1>7, <1>8 DEF WellFormed
<1>10. \A x : /\ InvSum(m, x) = InvSum(pre, x)
              /\ TotalInventoryOf(m, x) = TotalInventoryOf(pre, x)
  BY <1>1, <1>7 DEF InvSum, TotalInventoryOf
<1>11. QED
  BY <1>1, <1>2, <1>5, <1>7, <1>9, <1>10

LEMMA ExecutedShapes ==
  ASSUME Executed
  PROVE  /\ Len(batch) \in Nat /\ batch = [i \in 1..Len(batch) |-> batch[i]]
         /\ DistinctIds(batch) /\ WellFormedBatch(batch)
         /\ \A i \in 1..Len(batch) : batch[i].account \in Account
         /\ Len(result.alloc) = Len(batch)
         /\ result.alloc = [i \in 1..Len(batch) |-> result.alloc[i]]
         /\ result.fills \in Seq(FillType)
         /\ \A k \in 1..Len(result.fills) :
              /\ result.fills[k].consideration >= 1
              /\ result.fills[k].instrument = inst
<1>1. ClearingIInv /\ stage = "executed" /\ inst \in Instruments
  BY DEF Executed, CheckerIInv
<1>2. WellFormedBatch(batch) /\ DistinctIds(batch)
  BY <1>1, ExecutedOutcome
<1>3. Len(batch) \in Nat /\ batch = [i \in 1..Len(batch) |-> batch[i]]
  BY <1>2 DEF WellFormedBatch
<1>4. \A i \in 1..Len(batch) : batch[i].account \in Account
  BY <1>1, OrderAccounts DEF Orders
<1>5. /\ Len(result.alloc) = Len(batch)
      /\ result.alloc = [i \in 1..Len(batch) |-> result.alloc[i]]
  <2>1. PICK a, n : a = result.alloc /\ n = Len(batch)
    OBVIOUS
  <2>2. a = AllocateBatch(batch, result.outcome, sorted)
    BY <1>1, <2>1, ExecutedOutcome
  <2>3. \E F : a = [i \in 1..n |-> F[i]]
    <3> DEFINE side(s) == AllocateSide(batch, result.outcome.clearing_price,
                                       result.outcome.executable_volume, s, sorted[s])
               F == [i \in 1..n |-> 0]
               G == [i \in 1..n |-> IF batch[i].side = "Buy" THEN side("Buy")[i]
                                                             ELSE side("Sell")[i]]
    <3>1. a = F \/ a = G
      BY <2>1, <2>2 DEF AllocateBatch
    <3>2. F = [i \in 1..n |-> F[i]] /\ G = [i \in 1..n |-> G[i]]
      OBVIOUS
    <3> HIDE DEF F, G
    <3>3. QED
      BY <3>1, <3>2
  <2>4. PICK F : a = [i \in 1..n |-> F[i]]
    BY <2>3
  <2>5. Len(a) = n /\ a = [i \in 1..n |-> a[i]]
    BY <1>3, <2>1, <2>4
  <2>6. QED
    BY <2>1, <2>5
<1>6. Executes(batch, inst, sorted, result)
  BY <1>1, ResultExecutes
<1>7. /\ result.fills \in Seq(FillType)
      /\ \A k \in 1..Len(result.fills) :
           /\ result.fills[k].consideration >= 1
           /\ result.fills[k].instrument = inst
  BY <1>1, <1>4, <1>6, ExecutionFillTypes
<1>8. QED
  BY <1>2, <1>3, <1>4, <1>5, <1>7

\* The fixture's ledger settles what the ledger settles, and the harness is
\* left with the engine's ledger.
LEMMA ControlLedger ==
  ASSUME Executed
  PROVE  LET post == ControlPost(result, pre)
         IN  /\ ApplyBatchTransition(Fixture, result.fills).ok
                  <=> ApplyBatchTransition(pre, result.fills).ok
             /\ ApplyBatchTransition(pre, result.fills).ok =>
                  /\ Settled(result.fills) = post
                  /\ ApplyBatchTransition(Fixture, result.fills).ledger = post
                  /\ WellFormed(post) /\ post.accounts = pre.accounts
                  /\ post.blinded = pre.accounts
                  /\ \A y \in Instruments \ {inst} : post.inv[y] = pre.inv[y]
                  /\ \A k \in 1..Len(result.fills) :
                       result.fills[k].account \in pre.accounts
<1>1. PICK l, m, fs : l = pre /\ m = Fixture /\ fs = result.fills
  OBVIOUS
<1>2. WellFormed(l) /\ inst \in Instruments
  BY <1>1 DEF Executed, CheckerIInv
<1>3. /\ fs \in Seq(FillType)
      /\ \A k \in 1..Len(fs) : fs[k].consideration >= 1 /\ fs[k].instrument = inst
  BY <1>1, ExecutedShapes
<1>4. /\ m = Salted(l, l.accounts) /\ WellFormed(m) /\ m.accounts = l.accounts
      /\ m.blinded = l.accounts /\ m.inv = l.inv
  BY <1>1, <1>2, FixtureIs
<1>5. l = Salted(m, l.blinded)
  <2>1. l \in LedgerType
    BY <1>2 DEF WellFormed
  <2>2. PICK A, B, C, I : /\ A = l.accounts /\ B = l.blinded /\ C = l.cash /\ I = l.inv
    OBVIOUS
  <2>3. l = LedgerOf(A, B, C, I)
    BY <2>1, <2>2, LedgerFields
  <2>4. m = LedgerOf(A, A, C, I)
    BY <1>4, <2>2, <2>3, SaltedIs
  <2>5. Salted(m, B) = LedgerOf(A, B, C, I)
    BY <2>4, SaltedIs
  <2>6. QED
    BY <2>2, <2>3, <2>5
<1>6. ApplyBatchTransition(l, fs).ok => ApplyBatchTransition(m, fs).ok
  <2>1. ASSUME ApplyBatchTransition(l, fs).ok PROVE ApplyBatchTransition(m, fs).ok
    <3>1. PICK s, t : s = l.accounts /\ t = ApplyBatchTransition(l, fs).ledger
      OBVIOUS
    <3>2. ApplyBatchTransition(Salted(l, s), fs) = [ok |-> TRUE, ledger |-> Salted(t, s)]
      BY <1>2, <1>3, <2>1, <3>1, SaltedTransition
    <3>3. QED
      BY <1>4, <3>1, <3>2
  <2>2. QED
    BY <2>1
<1>7. ApplyBatchTransition(m, fs).ok => ApplyBatchTransition(l, fs).ok
  <2>1. ASSUME ApplyBatchTransition(m, fs).ok PROVE ApplyBatchTransition(l, fs).ok
    <3>1. PICK s, t : s = l.blinded /\ t = ApplyBatchTransition(m, fs).ledger
      OBVIOUS
    <3>2. ApplyBatchTransition(Salted(m, s), fs) = [ok |-> TRUE, ledger |-> Salted(t, s)]
      BY <1>2, <1>3, <1>4, <2>1, <3>1, SaltedTransition
    <3>3. QED
      BY <1>5, <3>1, <3>2
  <2>2. QED
    BY <2>1
<1>8. PICK post : post = ControlPost(result, pre)
  OBVIOUS
<1>9. post = ApplyBatchTransition(m, fs).ledger
  BY <1>1, <1>8 DEF ControlPost, Fixture
<1>10. ASSUME ApplyBatchTransition(m, fs).ok
       PROVE  /\ Settled(fs) = post /\ WellFormed(post) /\ post.accounts = l.accounts
              /\ post.blinded = l.accounts
              /\ \A y \in Instruments \ {inst} : post.inv[y] = l.inv[y]
              /\ \A k \in 1..Len(fs) : fs[k].account \in l.accounts
  <2>1. Settled(fs) = post
    <3>1. Settled(fs) = ApplyBatchTransition(Fixture, fs).ledger
      BY <1>1, <1>2, <1>3, <1>4, <1>10, HarnessAgrees
    <3>2. QED
      BY <1>1, <1>9, <3>1
  <2>2. PICK n, t : n = Len(fs) /\ n \in Nat /\ t = Applying(m, fs)[n]
    BY <1>3
  <2>3. post = t.ledger /\ t.ok
    BY <1>9, <1>10, <2>2, TransitionIs
  <2>4. PICK p : p[n] = t.ledger /\ Settling(p, m, fs, n)
    BY <2>2, <2>3, ApplyingIsSettling
  <2>5. /\ \A k \in 0..n :
              /\ WellFormed(p[k]) /\ p[k].accounts = m.accounts
              /\ p[k].blinded = m.blinded
              /\ \A y \in Instruments \ {inst} : p[k].inv[y] = m.inv[y]
        /\ \A k \in 1..n : fs[k].account \in m.accounts
    BY <1>2, <1>3, <1>4, <2>2, <2>4, SettlingKeeps
  <2>6. n \in 0..n /\ p[n] = post
    BY <2>2, <2>3, <2>4
  <2>7. /\ WellFormed(post) /\ post.accounts = m.accounts /\ post.blinded = m.blinded
        /\ \A y \in Instruments \ {inst} : post.inv[y] = m.inv[y]
    BY <2>5, <2>6
  <2>8. QED
    BY <1>4, <2>1, <2>2, <2>5, <2>7
<1>11. QED
  BY <1>1, <1>6, <1>7, <1>8, <1>9, <1>10

\* Well-formed ledgers that the checker cannot tell apart, with the same salts
\* and the same of every other instrument, are the same.
LEMMA SameLedger ==
  ASSUME NEW l, WellFormed(l), NEW m, WellFormed(m), NEW x \in Instruments,
         m.accounts = l.accounts, m.blinded = l.blinded,
         \A a \in l.accounts : m.cash[a] = l.cash[a] /\ m.inv[x][a] = l.inv[x][a],
         \A y \in Instruments \ {x} : m.inv[y] = l.inv[y]
  PROVE  m = l
<1>1. /\ l \in LedgerType /\ m \in LedgerType /\ l.accounts \subseteq Account
      /\ \A a \in Account \ l.accounts : l.cash[a] = 0 /\ l.inv[x][a] = 0
      /\ \A a \in Account \ l.accounts : m.cash[a] = 0 /\ m.inv[x][a] = 0
  BY DEF WellFormed, LedgerType
<1>2. /\ l.cash \in [Account -> Money] /\ m.cash \in [Account -> Money]
      /\ l.inv \in [Instruments -> [Account -> Qty]]
      /\ m.inv \in [Instruments -> [Account -> Qty]]
  BY <1>1 DEF LedgerType
<1>3. m.cash = l.cash
  <2>1. ASSUME NEW a \in Account PROVE m.cash[a] = l.cash[a]
    BY <1>1
  <2>2. QED
    BY <1>2, <2>1
<1>4. m.inv[x] = l.inv[x]
  <2>1. ASSUME NEW a \in Account PROVE m.inv[x][a] = l.inv[x][a]
    BY <1>1
  <2>2. m.inv[x] \in [Account -> Qty] /\ l.inv[x] \in [Account -> Qty]
    BY <1>2
  <2>3. QED
    BY <2>1, <2>2
<1>5. m.inv = l.inv
  <2>1. ASSUME NEW y \in Instruments PROVE m.inv[y] = l.inv[y]
    BY <1>4
  <2>2. QED
    BY <1>2, <2>1
<1>6. /\ l = LedgerOf(l.accounts, l.blinded, l.cash, l.inv)
      /\ m = LedgerOf(m.accounts, m.blinded, m.cash, m.inv)
  BY <1>1, LedgerFields
<1>7. QED
  BY <1>3, <1>5, <1>6

LEMMA SubmittedPreimages ==
  ASSUME Executed
  PROVE  /\ Vector(Preimages) /\ Len(Preimages) = Len(batch)
         /\ \A i \in 1..Len(batch) : Preimages[i].order = batch[i]
<1>1. PICK n, v : n = Len(batch) /\ v = Preimages
  OBVIOUS
<1>2. n \in Nat /\ v = [i \in 1..n |-> [order |-> batch[i], nonce |-> i]]
  BY <1>1, ExecutedShapes DEF Preimages
<1>3. v = [i \in 1..n |-> v[i]] /\ Len(v) = n /\ \A i \in 1..n : v[i].order = batch[i]
  BY <1>2
<1>4. Vector(v)
  BY <1>2, <1>3 DEF Vector
<1>5. QED
  BY <1>1, <1>3, <1>4

LEMMA WorkingBatch ==
  ASSUME Executed, NEW d, d # "omitted_order" \/ batch = << >>
  PROVE  /\ WorkingPreimages(d) = Preimages /\ WorkingOrders(d) = batch
         /\ WorkingOutcome(d) = MoveClearingPrice(d, result.outcome)
<1>1. WorkingPreimages(d) = Preimages
  BY DEF WorkingPreimages
<1>2. WorkingOrders(d) = batch
  <2>1. PICK n, v, b : n = Len(batch) /\ v = Preimages /\ b = batch
    OBVIOUS
  <2>2. Len(v) = n /\ \A i \in 1..n : v[i].order = b[i]
    BY <2>1, SubmittedPreimages
  <2>3. b = [i \in 1..n |-> b[i]]
    BY <2>1, ExecutedShapes
  <2>4. WorkingOrders(d) = [i \in 1..n |-> v[i].order]
    BY <1>1, <2>1, <2>2 DEF WorkingOrders
  <2>5. QED
    BY <2>1, <2>2, <2>3, <2>4
<1>3. result.outcome = DetermineClearingOutcome(batch)
  BY ExecutedOutcome DEF Executed, CheckerIInv
<1>4. QED
  BY <1>1, <1>2, <1>3 DEF WorkingOutcome

\* An order that is left out has no record.
LEMMA OmissionShows ==
  ASSUME Executed, batch # << >>, NEW alloc
  PROVE  ~VerifyAccounting(batch, LeavesOf(Preimages),
                           WorkingAccounting("omitted_order", alloc), alloc)
<1>1. PICK n, v, w, m : /\ n = Len(batch) /\ v = Preimages /\ w = Tail(Preimages)
                        /\ m = WorkingAccounting("omitted_order", alloc)
  OBVIOUS
<1>2. n \in Nat /\ n # 0
  <2>1. n \in Nat /\ batch = [i \in 1..n |-> batch[i]]
    BY <1>1, ExecutedShapes
  <2>2. ASSUME n = 0 PROVE FALSE
    <3>1. batch = << >>
      BY <2>1, <2>2
    <3>2. QED
      BY <3>1
  <2>3. QED
    BY <2>1, <2>2
<1>3. Len(w) = n - 1
  <2>1. v = [i \in 1..n |-> v[i]] /\ Len(v) = n
    BY <1>1, SubmittedPreimages, VectorLength
  <2>2. QED
    BY <1>1, <1>2, <2>1
<1>4. m = BuildAccounting(w, alloc)
  BY <1>1 DEF WorkingAccounting, WorkingPreimages, SpoofLeaf
<1>5. Len(m.records) = n - 1
  BY <1>2, <1>3, <1>4, BuiltAccounting
<1>6. QED
  BY <1>1, <1>2, <1>5 DEF VerifyAccounting

\* The path of a leaf does not lead from what is no order's commitment.
LEMMA SpoofingShows ==
  ASSUME Executed, batch # << >>, NEW alloc
  PROVE  ~VerifyAccounting(batch, LeavesOf(Preimages),
                           WorkingAccounting("leaf_spoofing", alloc), alloc)
<1>1. PICK n, v, m, built : /\ n = Len(batch) /\ v = Preimages
                            /\ m = WorkingAccounting("leaf_spoofing", alloc)
                            /\ built = BuildAccounting(v, alloc)
  OBVIOUS
<1>2. n \in Nat /\ n # 0
  <2>1. n \in Nat /\ batch = [i \in 1..n |-> batch[i]]
    BY <1>1, ExecutedShapes
  <2>2. ASSUME n = 0 PROVE FALSE
    <3>1. batch = << >>
      BY <2>1, <2>2
    <3>2. QED
      BY <3>1
  <2>3. QED
    BY <2>1, <2>2
<1>3. Vector(v) /\ Len(v) = n
  BY <1>1, SubmittedPreimages
<1>4. /\ "records" \in DOMAIN built /\ Len(built.records) = n
      /\ built.records[1].leaf_index = 0
  <2>1. 1 \in 1..Len(v) /\ 1 - 1 = 0
    BY <1>2, <1>3
  <2>2. QED
    BY <1>1, <1>2, <1>3, <2>1, BuiltAccounting
<1>5. built.records # << >>
  BY <1>2, <1>4
<1>6. m = [built EXCEPT !.records[1].commitment = CommitRaw(<<"absent">>)]
  BY <1>1, <1>5 DEF WorkingAccounting, WorkingPreimages, SpoofLeaf
<1>7. /\ m.records[1].commitment = CommitRaw(<<"absent">>)
      /\ m.records[1].leaf_index = 0
  <2>1. PICK rs, r : rs = built.records /\ r = rs[1]
    OBVIOUS
  <2>2. r.leaf_index = 0
    BY <1>4, <2>1
  <2>3. QED
    BY <1>2, <1>4, <1>6, <2>1, <2>2
<1>8. PICK leaves : leaves = LeavesOf(v)
  OBVIOUS
<1>9. Vector(leaves) /\ Len(leaves) = n /\ leaves[1] = CommitOrder(v[1])
  BY <1>2, <1>3, <1>8, OrderLeavesAre
<1>10. 0 \in 0..(Len(leaves) - 1) /\ 0 + 1 = 1
  BY <1>2, <1>9
<1>11. VerifyProof(GenerateProof(leaves, 0), MerkleRoot(leaves), CommitRaw(<<"absent">>))
         <=> CommitRaw(<<"absent">>) = leaves[1]
  BY <1>9, <1>10, PathLeads
<1>12. CommitRaw(<<"absent">>) # leaves[1]
  BY <1>9 DEF CommitOrder, CommitRaw
<1>13. ASSUME VerifyAccounting(batch, leaves, m, alloc)
       PROVE  VerifyProof(GenerateProof(leaves, 0), MerkleRoot(leaves),
                          CommitRaw(<<"absent">>))
  <2>1. 1 \in 1..n
    BY <1>2
  <2>2. VerifyProof(GenerateProof(leaves, m.records[1].leaf_index), MerkleRoot(leaves),
                    m.records[1].commitment)
    BY <1>1, <1>13, <2>1 DEF VerifyAccounting
  <2>3. QED
    BY <1>7, <2>2
<1>14. QED
  BY <1>1, <1>8, <1>11, <1>12, <1>13

\* A manifest of all the orders passes.
LEMMA ManifestVerifies ==
  ASSUME Executed, NEW d, d \notin {"omitted_order", "leaf_spoofing"} \/ batch = << >>,
         NEW alloc
  PROVE  /\ WorkingAccounting(d, alloc) = BuildAccounting(Preimages, alloc)
         /\ VerifyAccounting(batch, LeavesOf(Preimages), WorkingAccounting(d, alloc), alloc)
<1>1. PICK n, v, m : /\ n = Len(batch) /\ v = Preimages
                     /\ m = BuildAccounting(v, alloc)
  OBVIOUS
<1>2. n \in Nat /\ DistinctIds(batch)
  BY <1>1, ExecutedShapes
<1>3. Vector(v) /\ Len(v) = n /\ \A i \in 1..n : v[i].order = batch[i]
  BY <1>1, SubmittedPreimages
<1>4. /\ m.total_committed = n /\ Len(m.records) = n
      /\ \A i \in 1..n :
           /\ m.records[i].leaf_index = i - 1
           /\ m.records[i].order_id = v[i].order.id
           /\ m.records[i].commitment = CommitOrder(v[i])
           /\ m.records[i].disposition = Disposition(alloc[i], v[i].order.qty)
  BY <1>1, <1>2, <1>3, BuiltAccounting
<1>5. \A i \in 1..n :
        /\ m.records[i].leaf_index = i - 1
        /\ m.records[i].order_id = batch[i].id
        /\ m.records[i].commitment = CommitOrder(v[i])
        /\ m.records[i].disposition = Disposition(alloc[i], batch[i].qty)
  BY <1>3, <1>4
<1>6. VerifyAccounting(batch, LeavesOf(v), m, alloc)
  BY <1>1, <1>2, <1>3, <1>4, <1>5, AccountingVerifies
<1>7. WorkingAccounting(d, alloc) = m
  <2>1. WorkingPreimages(d) = v
    BY <1>1, WorkingBatch
  <2>2. WorkingAccounting(d, alloc) = SpoofLeaf(d, m)
    BY <1>1, <2>1 DEF WorkingAccounting
  <2>3. CASE batch # << >>
    BY <2>2, <2>3 DEF SpoofLeaf
  <2>4. CASE batch = << >>
    <3>1. n = 0
      BY <1>1, <2>4
    <3>2. PICK rs : rs = m.records /\ Len(rs) = 0
      BY <1>4, <3>1
    <3>3. rs = << >>
      <4>1. rs = [i \in 1..Len(v) |->
                    [leaf_index  |-> i - 1,
                     order_id    |-> v[i].order.id,
                     commitment  |-> CommitOrder(v[i]),
                     disposition |-> Disposition(alloc[i], v[i].order.qty)]]
        BY <1>1, <3>2 DEF BuildAccounting
      <4>2. Len(v) = 0
        BY <1>3, <3>1
      <4>3. QED
        BY <4>1, <4>2
    <3>4. QED
      BY <2>2, <3>2, <3>3 DEF SpoofLeaf
  <2>5. QED
    BY <2>3, <2>4
<1>8. QED
  BY <1>1, <1>6, <1>7

\* The snapshot passes unless it is stale.
LEMMA SnapshotPasses ==
  ASSUME NEW d, NEW p \in Qty
  PROVE  ValidReference(WorkingOracle(d, p), WorkingOracle(d, p).snapshot.instrument,
                        AuditCutoff, p)
           <=> d # "stale_oracle"
<1>1. PICK o : o = WorkingOracle(d, p)
  OBVIOUS
<1>2. /\ o.policy.max_staleness = 2 /\ o.policy.max_deviation = 10
      /\ o.snapshot.timestamp = 4 - (IF d = "stale_oracle" THEN 3 ELSE 1)
      /\ o.snapshot.price = IF p = NoPrice THEN 100 ELSE p
  BY <1>1 DEF WorkingOracle, AuditPolicy, AuditCutoff
<1>3. p \in Nat
  BY WordWidth DEF Qty
<1>4. p # NoPrice => WithinCollar(o, p)
  BY <1>2, <1>3 DEF WithinCollar, NoPrice
<1>5. Fresh(o, AuditCutoff) <=> d # "stale_oracle"
  BY <1>2 DEF Fresh, AuditCutoff
<1>6. QED
  BY <1>1, <1>4, <1>5 DEF ValidReference

\* Balances out of nowhere: they stay hidden only where they do not fit.
LEMMA CashCreated ==
  ASSUME NEW m, WellFormed(m), NEW who
  PROVE  LET t == CreditCash(m, who, ExtraCash)
             hidden == who \in m.accounts /\ m.cash[who] + ExtraCash > MaxMoney
         IN  /\ hidden => t = m
             /\ t.accounts = m.accounts /\ (\A a \in m.accounts : t.cash[a] = m.cash[a])
                  => hidden
<1>1. PICK A, B, C, I : /\ A = m.accounts /\ B = m.blinded /\ C = m.cash /\ I = m.inv
  OBVIOUS
<1>2. m \in LedgerType /\ C \in [Account -> Money] /\ A \subseteq Account
  BY <1>1 DEF WellFormed, LedgerType
<1>3. m = LedgerOf(A, B, C, I)
  BY <1>1, <1>2, LedgerFields
<1>4. PICK t, c : t = CreditCash(m, who, ExtraCash) /\ c = CashCredited(C, who, ExtraCash)
  OBVIOUS
<1>5. t = LedgerOf(A \cup {who}, B, c, I)
  BY <1>3, <1>4, CreditCashIs
<1>6. t.accounts = A \cup {who} /\ t.cash = c
  BY <1>5, FieldsOfLedger
<1>7. ExtraCash \in Nat /\ ExtraCash # 0 /\ MaxMoney \in Nat
  BY DeviationsFit, MoneyWidth DEF Money
<1>8. c = [C EXCEPT ![who] = OrKeep(CheckedAdd(C[who], ExtraCash, MaxMoney), C[who])]
  BY <1>4 DEF CashCredited
<1>9. ASSUME who \in A, C[who] + ExtraCash > MaxMoney PROVE t = m
  <2>1. A \cup {who} = A
    BY <1>9
  <2>2. C[who] \in Nat
    BY <1>2, <1>9, MoneyWidth DEF Money
  <2>3. C[who] > MaxMoney - ExtraCash
    BY <1>7, <1>9, <2>2
  <2>4. OrKeep(CheckedAdd(C[who], ExtraCash, MaxMoney), C[who]) = C[who]
    BY <2>3 DEF OrKeep, CheckedAdd
  <2>5. c = C
    BY <1>2, <1>8, <2>4
  <2>6. QED
    BY <1>3, <1>5, <2>1, <2>5
<1>10. ASSUME t.accounts = A, \A a \in A : t.cash[a] = C[a]
       PROVE  who \in A /\ C[who] + ExtraCash > MaxMoney
  <2>1. who \in A
    BY <1>6, <1>10
  <2>2. C[who] \in Nat /\ c[who] = C[who]
    BY <1>2, <1>6, <1>10, <2>1, MoneyWidth DEF Money
  <2>3. c[who] = OrKeep(CheckedAdd(C[who], ExtraCash, MaxMoney), C[who])
    BY <1>2, <1>8, <2>1
  <2>4. ASSUME ~(C[who] > MaxMoney - ExtraCash) PROVE FALSE
    <3>1. CheckedAdd(C[who], ExtraCash, MaxMoney) = C[who] + ExtraCash
      BY <2>4 DEF CheckedAdd
    <3>2. c[who] = C[who] + ExtraCash
      BY <1>7, <2>2, <2>3, <3>1 DEF OrKeep, Err
    <3>3. QED
      BY <1>7, <2>2, <3>2
  <2>5. QED
    BY <1>7, <2>1, <2>2, <2>4
<1>11. QED
  BY <1>1, <1>4, <1>9, <1>10

LEMMA InventoryCreated ==
  ASSUME NEW m, WellFormed(m), NEW who, inst \in Instruments
  PROVE  LET t == CreditInventory(m, who, ExtraQty)
             hidden == who \in m.accounts /\ m.inv[inst][who] + ExtraQty > MaxRaw
         IN  /\ hidden => t = m
             /\ t.accounts = m.accounts
                  /\ (\A a \in m.accounts : t.inv[inst][a] = m.inv[inst][a])
                  => hidden
<1>1. PICK A, B, C, I : /\ A = m.accounts /\ B = m.blinded /\ C = m.cash /\ I = m.inv
  OBVIOUS
<1>2. PICK x : x = inst /\ x \in Instruments
  OBVIOUS
<1>3. m \in LedgerType /\ I \in [Instruments -> [Account -> Qty]] /\ A \subseteq Account
  BY <1>1 DEF WellFormed, LedgerType
<1>4. m = LedgerOf(A, B, C, I)
  BY <1>1, <1>3, LedgerFields
<1>5. PICK t, i : /\ t = CreditInventory(m, who, ExtraQty)
                  /\ i = LotsCredited(I, x, who, ExtraQty)
  OBVIOUS
<1>6. t = LedgerOf(A \cup {who}, B, C, i)
  BY <1>2, <1>4, <1>5, CreditInventoryIs
<1>7. t.accounts = A \cup {who} /\ t.inv = i
  BY <1>6, FieldsOfLedger
<1>8. ExtraQty \in Nat /\ ExtraQty # 0 /\ MaxRaw \in Nat
  BY DeviationsFit, WordWidth DEF Price
<1>9. PICK h, g : h = I[x] /\ g = i[x]
  OBVIOUS
<1>10. h \in [Account -> Qty]
  BY <1>2, <1>3, <1>9
<1>11. /\ i = [I EXCEPT ![x] = g]
       /\ g = [h EXCEPT ![who] = OrKeep(CheckedAdd(h[who], ExtraQty, MaxRaw), h[who])]
  BY <1>2, <1>3, <1>5, <1>9 DEF LotsCredited
<1>12. ASSUME who \in A, h[who] + ExtraQty > MaxRaw PROVE t = m
  <2>1. A \cup {who} = A
    BY <1>12
  <2>2. h[who] \in Nat
    BY <1>3, <1>10, <1>12, WordWidth DEF Qty
  <2>3. h[who] > MaxRaw - ExtraQty
    BY <1>8, <1>12, <2>2
  <2>4. OrKeep(CheckedAdd(h[who], ExtraQty, MaxRaw), h[who]) = h[who]
    BY <2>3 DEF OrKeep, CheckedAdd
  <2>5. g = h
    BY <1>10, <1>11, <2>4
  <2>6. i = I
    BY <1>3, <1>9, <1>11, <2>5
  <2>7. QED
    BY <1>4, <1>6, <2>1, <2>6
<1>13. ASSUME t.accounts = A, \A a \in A : t.inv[x][a] = h[a]
       PROVE  who \in A /\ h[who] + ExtraQty > MaxRaw
  <2>1. who \in A
    BY <1>7, <1>13
  <2>2. h[who] \in Nat /\ g[who] = h[who]
    BY <1>3, <1>7, <1>9, <1>10, <1>13, <2>1, WordWidth DEF Qty
  <2>3. g[who] = OrKeep(CheckedAdd(h[who], ExtraQty, MaxRaw), h[who])
    BY <1>3, <1>10, <1>11, <2>1
  <2>4. ASSUME ~(h[who] > MaxRaw - ExtraQty) PROVE FALSE
    <3>1. CheckedAdd(h[who], ExtraQty, MaxRaw) = h[who] + ExtraQty
      BY <2>4 DEF CheckedAdd
    <3>2. g[who] = h[who] + ExtraQty
      BY <1>8, <2>2, <2>3, <3>1 DEF OrKeep, Err
    <3>3. QED
      BY <1>8, <2>2, <3>2
  <2>5. QED
    BY <1>8, <2>1, <2>2, <2>4
<1>14. QED
  BY <1>1, <1>2, <1>5, <1>9, <1>12, <1>13

\* Which deviations leave the outcome, the allocation, the fills and the ledger
\* of the execution as they are.
LEMMA MovedOutcome ==
  ASSUME Executed, NEW d
  PROVE  MoveClearingPrice(d, result.outcome) = result.outcome
           <=> /\ d = "price_inflation" => Unmoved(result, Offset)
               /\ d = "price_deflation" => Unmoved(result, -Offset)
<1>1. PICK o, p : o = result.outcome /\ p = o.clearing_price
  OBVIOUS
<1>2. \E ok, price, volume : o = Outcome(ok, price, volume)
  <2>1. o = DetermineClearingOutcome(batch)
    BY <1>1, ExecutedOutcome DEF Executed, CheckerIInv
  <2>2. QED
    BY <2>1 DEF DetermineClearingOutcome
<1>3. "clearing_price" \in DOMAIN o
  BY <1>2 DEF Outcome
<1>4. ASSUME NEW v PROVE [o EXCEPT !.clearing_price = v] = o <=> v = p
  <2>1. ASSUME v = p PROVE [o EXCEPT !.clearing_price = v] = o
    BY <1>1, <1>2, <2>1 DEF Outcome
  <2>2. [o EXCEPT !.clearing_price = v].clearing_price = v
    BY <1>3
  <2>3. QED
    BY <1>1, <2>1, <2>2
<1>5. PICK up, down : up = MovedPrice(p, Offset) /\ down = MovedPrice(p, -Offset)
  OBVIOUS
<1>6. MoveClearingPrice(d, o)
        = IF p = NoPrice THEN o
          ELSE CASE d = "price_inflation" -> [o EXCEPT !.clearing_price = up]
                 [] d = "price_deflation" -> [o EXCEPT !.clearing_price = down]
                 [] OTHER -> o
  BY <1>1, <1>5 DEF MoveClearingPrice
<1>7. /\ Unmoved(result, Offset) <=> p = NoPrice \/ up = p
      /\ Unmoved(result, -Offset) <=> p = NoPrice \/ down = p
  BY <1>1, <1>5 DEF Unmoved
<1>8. /\ [o EXCEPT !.clearing_price = up] = o <=> up = p
      /\ [o EXCEPT !.clearing_price = down] = o <=> down = p
  BY <1>4
<1>9. QED
  BY <1>1, <1>6, <1>7, <1>8

LEMMA ForgedAllocation ==
  ASSUME Executed, NEW d
  PROVE  ForgeAllocation(d, batch, result.alloc) = result.alloc
           <=> /\ d = "overfill" => batch = << >> \/ result.alloc[1] = ForgedQty
               /\ d = "preferential_allocation" => batch = << >> \/ result.alloc[1] = 1
<1>1. PICK n, b, a : n = Len(batch) /\ b = batch /\ a = result.alloc
  OBVIOUS
<1>2. /\ n \in Nat /\ b = [i \in 1..n |-> b[i]] /\ Len(a) = n /\ a = [i \in 1..n |-> a[i]]
      /\ \A i, j \in 1..n : i # j => b[i].id # b[j].id
  BY <1>1, ExecutedShapes DEF DistinctIds
<1>3. b = << >> <=> n = 0
  BY <1>1, <1>2
<1> DEFINE forged(q) == [i \in 1..n |-> IF b[i].id = b[1].id THEN q ELSE a[i]]
<1>4. ASSUME NEW q PROVE forged(q) = a <=> b = << >> \/ a[1] = q
  <2>1. CASE n = 0
    <3>1. \A i \in 1..n : FALSE
      BY <2>1
    <3>2. forged(q) = a
      BY <1>2, <3>1
    <3>3. QED
      BY <1>3, <2>1, <3>2
  <2>2. CASE n # 0
    <3>1. 1 \in 1..n
      BY <1>2, <2>2
    <3>2. \A i \in 1..n : b[i].id = b[1].id <=> i = 1
      BY <1>2, <3>1
    <3>3. forged(q)[1] = q
      BY <3>1
    <3>4. ASSUME a[1] = q PROVE forged(q) = a
      <4>1. ASSUME NEW i \in 1..n PROVE forged(q)[i] = a[i]
        BY <3>2, <3>4
      <4>2. forged(q) = [i \in 1..n |-> forged(q)[i]]
        OBVIOUS
      <4> HIDE DEF forged
      <4>3. QED
        BY <1>2, <4>1, <4>2
    <3> HIDE DEF forged
    <3>5. QED
      BY <1>3, <2>2, <3>3, <3>4
  <2>3. QED
    BY <2>1, <2>2
<1>5. ForgeAllocation(d, b, a) = CASE d = "overfill" -> forged(ForgedQty)
                                   [] d = "preferential_allocation" -> forged(1)
                                   [] OTHER -> a
  BY <1>1, <1>2 DEF ForgeAllocation
<1>6. PICK f, g : f = forged(ForgedQty) /\ g = forged(1)
  OBVIOUS
<1>7. /\ f = a <=> b = << >> \/ a[1] = ForgedQty
      /\ g = a <=> b = << >> \/ a[1] = 1
  <2> HIDE DEF forged
  <2>1. QED
    BY <1>4, <1>6
<1> HIDE DEF forged
<1>8. QED
  BY <1>1, <1>5, <1>6, <1>7

LEMMA MispricedFills ==
  ASSUME Executed, NEW d
  PROVE  MispriceFills(d, result.fills) = result.fills
           <=> (d = "limit_price" =>
                  \A k \in 1..Len(result.fills) :
                    result.fills[k].order_id = batch[1].id
                      => result.fills[k].execution_price = BogusPrice)
<1>1. PICK n, fs, id : n = Len(result.fills) /\ fs = result.fills /\ id = batch[1].id
  OBVIOUS
<1>2. fs \in Seq(FillType)
  BY <1>1, ExecutedShapes
<1>3. n \in Nat /\ fs = [k \in 1..n |-> fs[k]] /\ \A k \in 1..n : fs[k] \in FillType
  BY <1>1, <1>2
<1> DEFINE bogus(f) == [f EXCEPT !.execution_price = BogusPrice,
                                 !.consideration = FromPriceQty(BogusPrice, f.fill_qty)]
           mispriced(k) == IF d = "limit_price" /\ fs[k].order_id = id
                           THEN bogus(fs[k]) ELSE fs[k]
<1>4. MispriceFills(d, fs) = [k \in 1..n |-> mispriced(k)]
  BY <1>1 DEF MispriceFills
<1>5. ASSUME NEW k \in 1..n
      PROVE  bogus(fs[k]) = fs[k] <=> fs[k].execution_price = BogusPrice
  <2>1. PICK f : f = fs[k]
    OBVIOUS
  <2>2. f \in FillType
    BY <1>3, <2>1
  <2>3. f.consideration = FromPriceQty(f.execution_price, f.fill_qty)
    <3>1. FillsRespectOrders(batch, result.fills)
      BY EngineFillsRespectOrders DEF Executed, CheckerIInv
    <3>2. QED
      BY <1>1, <2>1, <3>1 DEF FillsRespectOrders
  <2>4. bogus(f).execution_price = BogusPrice
    BY <2>2 DEF FillType
  <2>5. ASSUME f.execution_price = BogusPrice PROVE bogus(f) = f
    <3>1. PICK c : c = FromPriceQty(BogusPrice, f.fill_qty)
      OBVIOUS
    <3>2. f.consideration = c
      BY <2>3, <2>5, <3>1
    <3>3. [[f EXCEPT !.execution_price = BogusPrice] EXCEPT !.consideration = c] = f
      BY <2>2, <2>5, <3>2 DEF FillType
    <3>4. QED
      BY <3>1, <3>3
  <2> HIDE DEF bogus
  <2>6. QED
    BY <2>1, <2>4, <2>5
<1> HIDE DEF bogus
<1>6. [k \in 1..n |-> mispriced(k)] = fs <=> \A k \in 1..n : mispriced(k) = fs[k]
  <2>1. ASSUME \A k \in 1..n : mispriced(k) = fs[k] PROVE [k \in 1..n |-> mispriced(k)] = fs
    BY <1>3, <2>1
  <2>2. ASSUME [k \in 1..n |-> mispriced(k)] = fs, NEW k \in 1..n PROVE mispriced(k) = fs[k]
    <3>1. [j \in 1..n |-> mispriced(j)][k] = mispriced(k)
      OBVIOUS
    <3>2. QED
      BY <2>2, <3>1
  <2>3. QED
    BY <2>1, <2>2
<1>7. \A k \in 1..n : mispriced(k) = fs[k]
        <=> (d = "limit_price" /\ fs[k].order_id = id => fs[k].execution_price = BogusPrice)
  BY <1>5
<1> HIDE DEF mispriced
<1>8. MispriceFills(d, fs) = fs
        <=> \A k \in 1..n : d = "limit_price" /\ fs[k].order_id = id
                              => fs[k].execution_price = BogusPrice
  BY <1>4, <1>6, <1>7
<1>9. QED
  BY <1>1, <1>8

\* The tampering that leaves the accounts, their cash and their inventory of
\* the batch's instrument leaves the whole ledger.
Hidden(d, b, x, r, l) ==
  LET post == ControlPost(r, l)
      who  == Beneficiary(b)
  IN  /\ d = "frozen_post_state" => post = BlindLedger(l)
      /\ d = "cash_creation" =>
           who \in post.accounts /\ post.cash[who] + ExtraCash > MaxMoney
      /\ d = "inventory_creation" =>
           who \in post.accounts /\ post.inv[x][who] + ExtraQty > MaxRaw

LEMMA TamperedLedger ==
  ASSUME Executed, ApplyBatchTransition(pre, result.fills).ok, NEW d
  PROVE  LET post == ControlPost(result, pre)
             t    == TamperPostState(d, post)
         IN  /\ Hidden(d, batch, inst, result, pre) => t = post
             /\ t.accounts = post.accounts
                  /\ (\A a \in post.accounts : /\ t.cash[a] = post.cash[a]
                                               /\ t.inv[inst][a] = post.inv[inst][a])
                  => Hidden(d, batch, inst, result, pre)
<1>1. PICK post, who, l : post = ControlPost(result, pre) /\ who = Beneficiary(batch) /\ l = pre
  OBVIOUS
<1>2. WellFormed(l) /\ inst \in Instruments
  BY <1>1 DEF Executed, CheckerIInv
<1>3. /\ WellFormed(post) /\ post.accounts = l.accounts /\ post.blinded = l.accounts
      /\ \A y \in Instruments \ {inst} : post.inv[y] = l.inv[y]
  BY <1>1, ControlLedger
<1>4. PICK m : m = Fixture
  OBVIOUS
<1>5. /\ WellFormed(m) /\ m.accounts = l.accounts /\ m.blinded = l.accounts
      /\ m.inv = l.inv /\ m = BlindLedger(l)
  BY <1>1, <1>2, <1>4, FixtureIs DEF Fixture
<1>6. PICK t, cash, lots : /\ t = TamperPostState(d, post)
                           /\ cash = CreditCash(post, who, ExtraCash)
                           /\ lots = CreditInventory(post, who, ExtraQty)
  OBVIOUS
<1>7. t = CASE d = "frozen_post_state"  -> m
            [] d = "cash_creation"      -> cash
            [] d = "inventory_creation" -> lots
            [] OTHER -> post
  BY <1>1, <1>4, <1>6 DEF TamperPostState, Beneficiary
<1> DEFINE rich == who \in post.accounts /\ post.cash[who] + ExtraCash > MaxMoney
           full == who \in post.accounts /\ post.inv[inst][who] + ExtraQty > MaxRaw
           same(n) == /\ n.accounts = post.accounts
                      /\ \A a \in post.accounts : /\ n.cash[a] = post.cash[a]
                                                  /\ n.inv[inst][a] = post.inv[inst][a]
<1>8. Hidden(d, batch, inst, result, pre)
        <=> /\ d = "frozen_post_state" => post = m
            /\ d = "cash_creation" => rich
            /\ d = "inventory_creation" => full
  BY <1>1, <1>5 DEF Hidden
<1>9. (rich => cash = post) /\ (same(cash) => rich)
  <2>1. /\ rich => cash = post
        /\ cash.accounts = post.accounts /\ (\A a \in post.accounts : cash.cash[a] = post.cash[a])
             => rich
    BY <1>3, <1>6, CashCreated
  <2> HIDE DEF rich
  <2>2. QED
    BY <2>1
<1>10. (full => lots = post) /\ (same(lots) => full)
  <2>1. /\ full => lots = post
        /\ lots.accounts = post.accounts
             /\ (\A a \in post.accounts : lots.inv[inst][a] = post.inv[inst][a])
             => full
    BY <1>2, <1>3, <1>6, InventoryCreated
  <2> HIDE DEF full
  <2>2. QED
    BY <2>1
<1>11. same(m) => m = post
  <2>1. ASSUME same(m) PROVE m = post
    <3>1. /\ \A a \in post.accounts : /\ m.cash[a] = post.cash[a]
                                      /\ m.inv[inst][a] = post.inv[inst][a]
          /\ \A y \in Instruments \ {inst} : m.inv[y] = post.inv[y]
      BY <1>3, <1>5, <2>1
    <3>2. QED
      BY <1>2, <1>3, <1>5, <3>1, SameLedger
  <2>2. QED
    BY <2>1
<1> HIDE DEF rich, full, same
<1>12. Hidden(d, batch, inst, result, pre) => t = post
  BY <1>7, <1>8, <1>9, <1>10
<1>13. same(t) => Hidden(d, batch, inst, result, pre)
  BY <1>7, <1>8, <1>9, <1>10, <1>11
<1>14. QED
  BY <1>1, <1>6, <1>12, <1>13 DEF same

\* AdversarialOperator::execute, field by field.
LEMMA DeviationIs ==
  ASSUME NEW d, NEW b, NEW o, NEW s
  PROVE  LET p == Deviate(d, b, o, s)
         IN  /\ p.outcome = o
             /\ p.alloc = ForgeAllocation(d, b, AllocateBatch(b, o, s))
             /\ p.fills = MispriceFills(d, GenerateCanonicalFills(b, inst, o, p.alloc))
             /\ p.post = TamperPostState(d, Settled(p.fills))
             /\ p = [outcome |-> p.outcome, alloc |-> p.alloc, fills |-> p.fills,
                     post |-> p.post]
<1>1. PICK a : a = ForgeAllocation(d, b, AllocateBatch(b, o, s))
  OBVIOUS
<1>2. PICK f : f = MispriceFills(d, GenerateCanonicalFills(b, inst, o, a))
  OBVIOUS
<1>3. PICK w : w = TamperPostState(d, Settled(f))
  OBVIOUS
<1>4. Deviate(d, b, o, s) = [outcome |-> o, alloc |-> a, fills |-> f, post |-> w]
  BY <1>1, <1>2, <1>3 DEF Deviate, DeviateAllocation, DeviateFills
<1>5. QED
  BY <1>1, <1>2, <1>3, <1>4

\* What the audits of a row that passes establish.
LEMMA PassingMeans ==
  ASSUME Executed, NEW d, d # "omitted_order" \/ batch = << >>,
         NEW sorts \in WorkingSorts(batch, WorkingOutcome(d)),
         PassesAudits(d, batch, sorts, Deviate(d, batch, WorkingOutcome(d), sorts),
                      WorkingOracle(d, WorkingOutcome(d).clearing_price))
  PROVE  /\ Control(inst, result, pre)
         /\ Effectless(d, batch, inst, result, pre)
<1>1. PICK p, out : /\ out = WorkingOutcome(d)
                    /\ p = Deviate(d, batch, out, sorts)
  OBVIOUS
<1>2. ClearingIInv /\ stage = "executed" /\ WellFormed(pre) /\ inst \in Instruments
  BY DEF Executed, CheckerIInv
<1>3. /\ VerifyTransition(Fixture, batch, inst, sorted, p)
      /\ VerifyAccounting(batch, LeavesOf(Preimages), WorkingAccounting(d, p.alloc), p.alloc)
      /\ ValidReference(WorkingOracle(d, out.clearing_price),
                        WorkingOracle(d, out.clearing_price).snapshot.instrument,
                        AuditCutoff, p.outcome.clearing_price)
  BY <1>1 DEF PassesAudits
<1>4. PICK post : post = ControlPost(result, pre)
  OBVIOUS
<1>5. /\ p.outcome = result.outcome /\ p.alloc = result.alloc /\ p.fills = result.fills
      /\ Err # TotalInventoryOf(Fixture, inst)
      /\ ApplyBatchTransition(Fixture, result.fills).ok
      /\ p.post.accounts = post.accounts
      /\ \A a \in p.post.accounts : /\ p.post.cash[a] = post.cash[a]
                                    /\ p.post.inv[inst][a] = post.inv[inst][a]
  BY <1>2, <1>3, <1>4, VerifiedResult DEF ControlPost, Fixture
<1>6. /\ p.outcome = out
      /\ p.alloc = ForgeAllocation(d, batch, AllocateBatch(batch, out, sorts))
      /\ p.fills = MispriceFills(d, GenerateCanonicalFills(batch, inst, out, p.alloc))
      /\ p.post = TamperPostState(d, Settled(p.fills))
  BY <1>1, DeviationIs
<1>7. out = result.outcome /\ sorts = sorted
  <2>1. out = result.outcome
    BY <1>5, <1>6
  <2>2. QED
    BY <1>1, <2>1 DEF WorkingSorts
<1>8. /\ result.alloc = AllocateBatch(batch, result.outcome, sorted)
      /\ result.fills = GenerateCanonicalFills(batch, inst, result.outcome, result.alloc)
  BY <1>2, ExecutedOutcome
<1>9. ForgeAllocation(d, batch, result.alloc) = result.alloc
  BY <1>5, <1>6, <1>7, <1>8
<1>10. MispriceFills(d, result.fills) = result.fills
  BY <1>5, <1>6, <1>7, <1>8
<1>11. MoveClearingPrice(d, result.outcome) = result.outcome
  BY <1>1, <1>7, WorkingBatch
<1>12. ApplyBatchTransition(pre, result.fills).ok /\ Settled(result.fills) = post
  BY <1>4, <1>5, ControlLedger
<1>13. Hidden(d, batch, inst, result, pre)
  <2>1. p.post = TamperPostState(d, post)
    BY <1>5, <1>6, <1>12
  <2>2. QED
    BY <1>4, <1>5, <1>12, <2>1, TamperedLedger
<1>14. d = "leaf_spoofing" => batch = << >>
  BY <1>3, SpoofingShows
<1>15. d # "stale_oracle"
  <2>1. PICK price : price = out.clearing_price
    OBVIOUS
  <2>2. price \in Qty
    <3>1. /\ Volume \in Nat
          /\ Volume = 0 <=> ClearingPrice = NoPrice
          /\ Volume > 0 => ClearingPrice \in Price
      BY <1>2, ExecutedOutcome
    <3>2. price = ClearingPrice
      BY <1>7, <2>1 DEF ClearingPrice
    <3>3. QED
      BY <3>1, <3>2, WordWidth DEF Price, Qty, NoPrice
  <2>3. QED
    BY <1>3, <1>6, <2>1, <2>2, SnapshotPasses
<1>16. InvSum(pre, inst) <= MaxRaw
  <2>1. Err # TotalInventoryOf(pre, inst)
    BY <1>2, <1>5, FixtureIs
  <2>2. InvSum(pre, inst) \in Nat
    BY <1>2, InventoryTotalNat
  <2>3. QED
    BY <2>1, <2>2, WordWidth DEF TotalInventoryOf, CheckedTotal, InvSum
<1>17. Control(inst, result, pre)
  BY <1>12, <1>16 DEF Control
<1>18. Effectless(d, batch, inst, result, pre)
  <2>1. /\ d = "price_inflation" => Unmoved(result, Offset)
        /\ d = "price_deflation" => Unmoved(result, -Offset)
    BY <1>11, MovedOutcome
  <2>2. /\ d = "overfill" => batch = << >> \/ result.alloc[1] = ForgedQty
        /\ d = "preferential_allocation" => batch = << >> \/ result.alloc[1] = 1
    BY <1>9, ForgedAllocation
  <2>3. d = "limit_price" =>
          \A k \in 1..Len(result.fills) :
            result.fills[k].order_id = batch[1].id
              => result.fills[k].execution_price = BogusPrice
    BY <1>10, MispricedFills
  <2>4. /\ d = "frozen_post_state" => post = BlindLedger(pre)
        /\ d = "cash_creation" =>
             Beneficiary(batch) \in post.accounts
               /\ post.cash[Beneficiary(batch)] + ExtraCash > MaxMoney
        /\ d = "inventory_creation" =>
             Beneficiary(batch) \in post.accounts
               /\ post.inv[inst][Beneficiary(batch)] + ExtraQty > MaxRaw
    BY <1>4, <1>13 DEF Hidden
  <2>5. QED
    BY <1>4, <1>14, <1>15, <2>1, <2>2, <2>3, <2>4 DEF Effectless
<1>19. QED
  BY <1>17, <1>18

\* What a row executes whose deviation changes nothing: the control's
\* execution, with the control's manifest.
ControlExecution ==
  [outcome |-> result.outcome, alloc |-> result.alloc, fills |-> result.fills,
   post |-> ControlPost(result, pre)]

LEMMA EffectlessMeans ==
  ASSUME Executed, Control(inst, result, pre), NEW d,
         Effectless(d, batch, inst, result, pre)
  PROVE  /\ WorkingOrders(d) = batch
         /\ WorkingOutcome(d) = result.outcome
         /\ Deviate(d, batch, result.outcome, sorted) = ControlExecution
         /\ \A alloc : WorkingAccounting(d, alloc) = BuildAccounting(Preimages, alloc)
<1>1. /\ d \notin {"omitted_order", "leaf_spoofing"} \/ batch = << >>
      /\ d = "price_inflation" => Unmoved(result, Offset)
      /\ d = "price_deflation" => Unmoved(result, -Offset)
      /\ d = "overfill" => batch = << >> \/ result.alloc[1] = ForgedQty
      /\ d = "preferential_allocation" => batch = << >> \/ result.alloc[1] = 1
      /\ d = "limit_price" =>
           \A k \in 1..Len(result.fills) :
             result.fills[k].order_id = batch[1].id
               => result.fills[k].execution_price = BogusPrice
      /\ Hidden(d, batch, inst, result, pre)
  BY DEF Effectless, Hidden
<1>2. /\ WorkingOrders(d) = batch
      /\ WorkingOutcome(d) = MoveClearingPrice(d, result.outcome)
  BY <1>1, WorkingBatch
<1>3. MoveClearingPrice(d, result.outcome) = result.outcome
  BY <1>1, MovedOutcome
<1>4. ForgeAllocation(d, batch, result.alloc) = result.alloc
  BY <1>1, ForgedAllocation
<1>5. MispriceFills(d, result.fills) = result.fills
  BY <1>1, MispricedFills
<1>6. ApplyBatchTransition(pre, result.fills).ok
  BY DEF Control
<1>7. PICK post : post = ControlPost(result, pre)
  OBVIOUS
<1>8. Settled(result.fills) = post /\ TamperPostState(d, post) = post
  BY <1>1, <1>6, <1>7, ControlLedger, TamperedLedger
<1>9. /\ result.alloc = AllocateBatch(batch, result.outcome, sorted)
      /\ result.fills = GenerateCanonicalFills(batch, inst, result.outcome, result.alloc)
  BY ExecutedOutcome DEF Executed, CheckerIInv
<1>10. Deviate(d, batch, result.outcome, sorted) = ControlExecution
  <2>1. PICK p : p = Deviate(d, batch, result.outcome, sorted)
    OBVIOUS
  <2>2. /\ p.outcome = result.outcome
        /\ p.alloc = ForgeAllocation(d, batch, AllocateBatch(batch, result.outcome, sorted))
        /\ p.fills = MispriceFills(d, GenerateCanonicalFills(batch, inst, result.outcome,
                                                             p.alloc))
        /\ p.post = TamperPostState(d, Settled(p.fills))
        /\ p = [outcome |-> p.outcome, alloc |-> p.alloc, fills |-> p.fills,
                post |-> p.post]
    BY <2>1, DeviationIs
  <2>3. p.alloc = result.alloc
    BY <1>4, <1>9, <2>2
  <2>4. p.fills = result.fills
    BY <1>5, <1>9, <2>2, <2>3
  <2>5. p.post = post
    BY <1>8, <2>2, <2>4
  <2>6. QED
    BY <1>7, <2>1, <2>2, <2>3, <2>4, <2>5 DEF ControlExecution
<1>11. \A alloc : WorkingAccounting(d, alloc) = BuildAccounting(Preimages, alloc)
  BY <1>1, ManifestVerifies
<1>12. QED
  BY <1>2, <1>3, <1>10, <1>11

\* It passes.
LEMMA EffectlessPasses ==
  ASSUME Executed, Control(inst, result, pre), NEW d,
         Effectless(d, batch, inst, result, pre), NEW sorts
  PROVE  PassesAudits(d, batch, sorts, Deviate(d, batch, result.outcome, sorted),
                      WorkingOracle(d, result.outcome.clearing_price))
<1>1. ClearingIInv /\ stage = "executed" /\ WellFormed(pre) /\ inst \in Instruments
  BY DEF Executed, CheckerIInv
<1>2. ApplyBatchTransition(pre, result.fills).ok /\ InvSum(pre, inst) <= MaxRaw
  BY DEF Control
<1>3. PICK p, l : p = ControlExecution /\ l = Fixture
  OBVIOUS
<1>4. /\ p.outcome = result.outcome /\ p.alloc = result.alloc /\ p.fills = result.fills
      /\ p.post = ControlPost(result, pre)
  BY <1>3 DEF ControlExecution
<1>5. /\ ApplyBatchTransition(l, result.fills).ok
      /\ p.post = ApplyBatchTransition(l, result.fills).ledger
  BY <1>2, <1>3, <1>4, ControlLedger
<1>6. WellFormed(l) /\ InvSum(l, inst) <= MaxRaw
  BY <1>1, <1>2, <1>3, FixtureIs
<1>7. VerifyTransition(l, batch, inst, sorted, p)
  BY <1>1, <1>4, <1>5, <1>6, ResultVerifies
<1>8. d \notin {"omitted_order", "leaf_spoofing"} \/ batch = << >>
  BY DEF Effectless
<1>9. VerifyAccounting(batch, LeavesOf(Preimages), WorkingAccounting(d, p.alloc), p.alloc)
  BY <1>8, ManifestVerifies
<1>10. PICK price : price = result.outcome.clearing_price
  OBVIOUS
<1>11. price \in Qty
  <2>1. /\ Volume \in Nat
        /\ Volume = 0 <=> ClearingPrice = NoPrice
        /\ Volume > 0 => ClearingPrice \in Price
    BY <1>1, ExecutedOutcome
  <2>2. price = ClearingPrice
    BY <1>10 DEF ClearingPrice
  <2>3. QED
    BY <2>1, <2>2, WordWidth DEF Price, Qty, NoPrice
<1>12. d # "stale_oracle"
  BY DEF Effectless
<1>13. ValidReference(WorkingOracle(d, price), WorkingOracle(d, price).snapshot.instrument,
                      AuditCutoff, price)
  BY <1>11, <1>12, SnapshotPasses
<1>14. Deviate(d, batch, result.outcome, sorted) = p
  BY <1>3, EffectlessMeans
<1>15. PassesAudits(d, batch, sorts, p, WorkingOracle(d, price))
  BY <1>3, <1>4, <1>7, <1>9, <1>10, <1>13 DEF PassesAudits
<1>16. QED
  BY <1>10, <1>14, <1>15

\* A row of the matrix passes exactly when the control does and its deviation
\* changes nothing.
LEMMA RowIs ==
  ASSUME Executed, NEW d, NEW passed \in RowResults(d, WorkingOrders(d), WorkingOutcome(d))
  PROVE  passed <=> /\ Control(inst, result, pre)
                    /\ Effectless(d, batch, inst, result, pre)
<1>1. PICK orders, out : orders = WorkingOrders(d) /\ out = WorkingOutcome(d)
  OBVIOUS
<1>2. PICK sorts \in WorkingSorts(orders, out) :
        passed = PassesAudits(d, orders, sorts, Deviate(d, orders, out, sorts),
                              WorkingOracle(d, out.clearing_price))
  BY <1>1 DEF RowResults
<1>3. ASSUME passed
      PROVE  Control(inst, result, pre) /\ Effectless(d, batch, inst, result, pre)
  <2>1. PICK p : p = Deviate(d, orders, out, sorts)
    OBVIOUS
  <2>2. PassesAudits(d, orders, sorts, p, WorkingOracle(d, out.clearing_price))
    BY <1>2, <1>3, <2>1
  <2>3. d # "omitted_order" \/ batch = << >>
    <3>1. VerifyAccounting(batch, LeavesOf(Preimages), WorkingAccounting(d, p.alloc), p.alloc)
      BY <2>2 DEF PassesAudits
    <3>2. QED
      BY <3>1, OmissionShows
  <2>4. orders = batch
    BY <1>1, <2>3, WorkingBatch
  <2>5. QED
    BY <1>1, <1>2, <2>1, <2>2, <2>3, <2>4, PassingMeans
<1>4. ASSUME Control(inst, result, pre), Effectless(d, batch, inst, result, pre)
      PROVE  passed
  <2>1. orders = batch /\ out = result.outcome
    BY <1>1, <1>4, EffectlessMeans
  <2>2. sorts = sorted
    BY <2>1 DEF WorkingSorts
  <2>3. PassesAudits(d, batch, sorts, Deviate(d, batch, result.outcome, sorted),
                     WorkingOracle(d, result.outcome.clearing_price))
    BY <1>4, EffectlessPasses
  <2>4. QED
    BY <1>2, <2>1, <2>2, <2>3
<1>5. QED
  BY <1>3, <1>4

\* The inductive invariant of the matrix: every row evaluated so far is what
\* RowIs says, and the command ends by what the rows say.
RowsAre ==
  /\ rows \in Seq(BOOLEAN) /\ Len(rows) <= Len(TestCases)
  /\ rows # << >> => stage = "executed"
  /\ \A k \in 1..Len(rows) :
       rows[k] <=> /\ Control(inst, result, pre)
                   /\ Effectless(TestCases[k], batch, inst, result, pre)
  /\ exit \in {"running", "clean", "breach", "error"}
  /\ exit \in {"clean", "breach"} =>
       Len(rows) = Len(TestCases) /\ (exit = "clean" <=> AllInvariantsHeld)

LEMMA NextRow ==
  ASSUME CheckerIInv, RowsAre, EvaluateRow
  PROVE  RowsAre'
<1>1. /\ stage = "executed" /\ Len(rows) < Len(TestCases)
      /\ UNCHANGED checkerVars /\ exit' = exit
  BY DEF EvaluateRow
<1>2. UNCHANGED clearingVars /\ pre' = pre
  BY <1>1 DEF checkerVars
<1>3. UNCHANGED <<stage, batch, inst, result>>
  BY <1>2 DEF clearingVars
<1>4. PICK n, d : n = Len(rows) /\ d = TestCases[n + 1]
  OBVIOUS
<1>5. PICK passed \in RowResults(d, WorkingOrders(d), WorkingOutcome(d)) :
        rows' = Append(rows, passed)
  BY <1>4 DEF EvaluateRow
<1>6. passed <=> /\ Control(inst, result, pre)
                 /\ Effectless(d, batch, inst, result, pre)
  BY <1>1, <1>5, RowIs DEF Executed
<1>7. passed \in BOOLEAN
  BY <1>5 DEF RowResults, PassesAudits
<1>8. rows \in Seq(BOOLEAN) /\ n \in Nat
  BY <1>4 DEF RowsAre
<1>9. /\ rows' \in Seq(BOOLEAN) /\ Len(rows') = n + 1 /\ rows'[n + 1] = passed
      /\ \A k \in 1..n : rows'[k] = rows[k]
  BY <1>4, <1>5, <1>7, <1>8
<1>10. ASSUME NEW k \in 1..Len(rows')
       PROVE  rows'[k] <=> /\ Control(inst, result, pre)
                           /\ Effectless(TestCases[k], batch, inst, result, pre)
  <2>1. CASE k = n + 1
    BY <1>4, <1>6, <1>9, <2>1
  <2>2. CASE k # n + 1
    <3>1. k \in 1..n
      BY <1>8, <1>9, <2>2
    <3>2. rows[k] <=> /\ Control(inst, result, pre)
                      /\ Effectless(TestCases[k], batch, inst, result, pre)
      BY <1>4, <3>1 DEF RowsAre
    <3>3. QED
      BY <1>9, <3>1, <3>2
  <2>3. QED
    BY <2>1, <2>2
<1>11. \A k \in 1..Len(rows') :
         rows'[k] <=> /\ Control(inst', result', pre')
                      /\ Effectless(TestCases[k], batch', inst', result', pre')
  BY <1>2, <1>3, <1>10
<1>12. exit' \in {"running", "error"}
  <2>1. exit \notin {"clean", "breach"}
    BY <1>1 DEF RowsAre
  <2>2. QED
    BY <1>1, <2>1 DEF RowsAre
<1>13. Len(rows') <= Len(TestCases)
  BY <1>1, <1>4, <1>8, <1>9 DEF TestCases
<1>14. QED
  BY <1>1, <1>3, <1>9, <1>11, <1>12, <1>13 DEF RowsAre

LEMMA RowsStep ==
  ASSUME CheckerIInv, RowsAre, [AuditsNext]_auditsVars
  PROVE  RowsAre'
<1>1. CASE CheckOne
  <2>1. rows = << >> /\ exit = "running" /\ rows' = rows /\ exit' = exit
    BY <1>1 DEF CheckOne
  <2>2. /\ rows' = << >> /\ Len(rows') = 0 /\ rows' \in Seq(BOOLEAN)
        /\ exit' = "running" /\ Len(TestCases) = 12
    BY <2>1 DEF TestCases
  <2>3. QED
    BY <2>2 DEF RowsAre
<1>2. CASE EvaluateRow
  BY <1>2, NextRow
<1>3. CASE ~CheckOne /\ ~EvaluateRow
  <2>1. /\ UNCHANGED checkerVars /\ rows' = rows
        /\ \/ exit' = exit
           \/ exit' = "error"
           \/ /\ Len(rows) = Len(TestCases)
              /\ exit' = IF AllInvariantsHeld THEN "clean" ELSE "breach"
    BY <1>3 DEF AuditsNext, Report, Throw, auditsVars
  <2>2. UNCHANGED clearingVars /\ pre' = pre
    BY <2>1 DEF checkerVars
  <2>3. UNCHANGED <<stage, batch, inst, result>>
    BY <2>2 DEF clearingVars
  <2>4. AllInvariantsHeld' <=> AllInvariantsHeld
    BY <2>1 DEF AllInvariantsHeld
  <2>5. \A k \in 1..Len(rows') :
          rows'[k] <=> /\ Control(inst', result', pre')
                       /\ Effectless(TestCases[k], batch', inst', result', pre')
    BY <2>1, <2>2, <2>3 DEF RowsAre
  <2>6. /\ rows' \in Seq(BOOLEAN) /\ Len(rows') <= Len(TestCases)
        /\ rows' # << >> => stage' = "executed"
    BY <2>1, <2>3 DEF RowsAre
  <2>7. /\ exit' \in {"running", "clean", "breach", "error"}
        /\ exit' \in {"clean", "breach"} =>
             Len(rows') = Len(TestCases) /\ (exit' = "clean" <=> AllInvariantsHeld')
    BY <2>1, <2>4 DEF RowsAre
  <2>8. QED
    BY <2>5, <2>6, <2>7 DEF RowsAre
<1>4. QED
  BY <1>1, <1>2, <1>3

LEMMA AuditsInvariant == AuditsSpec => [](CheckerIInv /\ RowsAre)
<1>1. AuditsInit => RowsAre
  <2> SUFFICES ASSUME AuditsInit PROVE RowsAre
    OBVIOUS
  <2>1. rows = << >> /\ Len(rows) = 0 /\ exit = "running" /\ Len(TestCases) = 12
    BY DEF AuditsInit, TestCases
  <2>2. QED
    BY <2>1 DEF RowsAre
<1>2. CheckerIInv /\ RowsAre /\ [AuditsNext]_auditsVars => RowsAre'
  BY RowsStep
<1>3. QED
  BY <1>1, <1>2, CheckerInvariant, PTL DEF AuditsSpec

\* The control row is execute_batch's word: the command's own settlement, which
\* ignores every error, is found out where the engine would have failed.
THEOREM ControlIsTheEngine == AuditsSpec => []ControlAgreesWithTheEngine
<1>1. RowsAre => ControlAgreesWithTheEngine
  <2> SUFFICES ASSUME RowsAre, rows # << >>
               PROVE  rows[1] <=> EngineExecutes /\ InvSum(pre, inst) <= MaxRaw
    BY DEF ControlAgreesWithTheEngine
  <2>1. 1 \in 1..Len(rows)
    BY DEF RowsAre
  <2>2. TestCases[1] = "honest_baseline"
    BY DEF TestCases
  <2>3. rows[1] <=> /\ Control(inst, result, pre)
                    /\ Effectless("honest_baseline", batch, inst, result, pre)
    BY <2>1, <2>2 DEF RowsAre
  <2>4. Effectless("honest_baseline", batch, inst, result, pre)
    BY DEF Effectless
  <2>5. QED
    BY <2>3, <2>4 DEF Control, EngineExecutes
<1>2. QED
  BY <1>1, AuditsInvariant, PTL

\* A deviation that passes the audits changed nothing, for every batch, every
\* ledger and every size of the deviations.
THEOREM DeviationsAreCaught == AuditsSpec => []OnlyEffectlessDeviationsPass
<1>1. CheckerIInv /\ RowsAre => OnlyEffectlessDeviationsPass
  <2> SUFFICES ASSUME CheckerIInv, RowsAre, rows # << >>, rows[Len(rows)]
               PROVE  LET d == TestCases[Len(rows)]
                          control == TestCases[1]
                          execution(e) == Deviate(e, batch, WorkingOutcome(e), sorted)
                      IN  /\ WorkingOrders(d) = batch
                          /\ execution(d) = execution(control)
                          /\ WorkingAccounting(d, result.alloc)
                               = WorkingAccounting(control, result.alloc)
                          /\ d # "stale_oracle"
    BY DEF OnlyEffectlessDeviationsPass
  <2>1. Executed
    BY DEF Executed, RowsAre
  <2>2. Len(rows) \in 1..Len(rows)
    BY DEF RowsAre
  <2>3. PICK d, c : d = TestCases[Len(rows)] /\ c = TestCases[1]
    OBVIOUS
  <2>4. Control(inst, result, pre) /\ Effectless(d, batch, inst, result, pre)
    BY <2>2, <2>3 DEF RowsAre
  <2>5. c = "honest_baseline"
    BY <2>3 DEF TestCases
  <2>6. Effectless(c, batch, inst, result, pre)
    BY <2>5 DEF Effectless
  <2>7. ASSUME NEW e, Effectless(e, batch, inst, result, pre)
        PROVE  /\ WorkingOrders(e) = batch
               /\ Deviate(e, batch, WorkingOutcome(e), sorted) = ControlExecution
               /\ WorkingAccounting(e, result.alloc) = BuildAccounting(Preimages, result.alloc)
    BY <2>1, <2>4, <2>7, EffectlessMeans
  <2>8. d # "stale_oracle"
    BY <2>4 DEF Effectless
  <2>9. QED
    BY <2>3, <2>4, <2>6, <2>7, <2>8
<1>2. QED
  BY <1>1, AuditsInvariant, PTL

----------------------------------------------------------------------------
(***************************************************************************)
(* What a clean report takes.                                              *)
(***************************************************************************)
\* The first order of the batch has a fill exactly when it is allocated
\* something.
LEMMA FirstOrderFilled ==
  ASSUME Executed, result.fills # << >>
  PROVE  /\ Volume > 0 /\ ClearingPrice \in Price /\ batch # << >> /\ 1 \in 1..Len(batch)
         /\ result.alloc[1] \in Nat
         /\ result.alloc[1] > 0 => \E k \in 1..Len(result.fills) :
              /\ result.fills[k].order_id = batch[1].id
              /\ result.fills[k].execution_price = ClearingPrice
         /\ \A k \in 1..Len(result.fills) : result.fills[k].order_id = batch[1].id =>
              /\ result.alloc[1] > 0
              /\ result.fills[k].execution_price = ClearingPrice
              /\ result.fills[k].account = batch[1].account
<1>1. ClearingIInv /\ stage = "executed"
  BY DEF Executed, CheckerIInv
<1>2. Executes(batch, inst, sorted, result)
  BY <1>1, ResultExecutes
<1>3. Volume > 0 /\ ClearingPrice \in Price
  BY <1>1, ExecutedOutcome, EngineFills
<1>4. VolumeOf(result) > 0 /\ PriceOf(result) = ClearingPrice
  BY <1>3 DEF VolumeOf, Volume, PriceOf, ClearingPrice
<1>5. PICK n, m, fs, b, a : /\ n = Len(batch) /\ m = Len(result.fills) /\ fs = result.fills
                            /\ b = batch /\ a = result.alloc
  OBVIOUS
<1>6. n \in Nat /\ fs \in Seq(FillType) /\ m \in Nat
  BY <1>5, ExecutedShapes
<1>7. m # 0
  BY <1>5, <1>6
<1>8. ASSUME NEW k \in 1..m
      PROVE  \E i \in 1..n : a[i] > 0 /\ fs[k] = FillCreate(k - 1, b[i], inst,
                                                          ClearingPrice, a[i])
  BY <1>1, <1>5, EngineFills DEF Orders
<1>9. n # 0
  <2>1. 1 \in 1..m
    BY <1>6, <1>7
  <2>2. PICK i \in 1..n : TRUE
    BY <1>8, <2>1
  <2>3. QED
    BY <1>6, <2>2
<1>10. 1 \in 1..n /\ b # << >>
  BY <1>5, <1>6, <1>9
<1>11. a[1] \in Nat
  BY <1>2, <1>4, <1>5, <1>10, ExecutionQualifies
<1>12. ASSUME a[1] > 0
       PROVE  \E k \in 1..m : fs[k].order_id = b[1].id /\ fs[k].execution_price = ClearingPrice
  <2>1. PICK r, w : r = FillId(b, a, n) /\ w = [k \in 1..r |-> FilledOrder(b, a, k)]
    OBVIOUS
  <2>2. /\ Len(w) = r /\ r \in Nat
        /\ IsListing(w, {i \in 1..n : a[i] > 0}, n)
    BY <1>5, <1>6, <2>1, FillsListTheFilled
  <2>3. 1 \in {i \in 1..n : a[i] > 0}
    BY <1>10, <1>12
  <2>4. PICK k \in 1..r : w[k] = 1
    BY <2>2, <2>3 DEF IsListing
  <2>5. FilledOrder(b, a, k) = 1
    BY <2>1, <2>4
  <2>6. r = m
    BY <1>2, <1>4, <1>5, <2>1, ExecutionFillAt
  <2>7. fs[k] = FillCreate(k - 1, b[1], inst, ClearingPrice, a[1])
    BY <1>2, <1>4, <1>5, <2>5, <2>6, ExecutionFillAt
  <2>8. QED
    BY <2>6, <2>7 DEF FillCreate
<1>13. ASSUME NEW k \in 1..m, fs[k].order_id = b[1].id
       PROVE  /\ a[1] > 0 /\ fs[k].execution_price = ClearingPrice
              /\ fs[k].account = b[1].account
  <2>1. PICK i \in 1..n : a[i] > 0 /\ fs[k] = FillCreate(k - 1, b[i], inst, ClearingPrice, a[i])
    BY <1>8
  <2>2. /\ fs[k].order_id = b[i].id /\ fs[k].execution_price = ClearingPrice
        /\ fs[k].account = b[i].account
    BY <2>1 DEF FillCreate
  <2>3. \A j, q \in 1..n : j # q => b[j].id # b[q].id
    BY <1>5, ExecutedShapes DEF DistinctIds
  <2>4. i = 1
    BY <1>10, <1>13, <2>2, <2>3
  <2>5. QED
    BY <2>1, <2>2, <2>4
<1>14. QED
  BY <1>3, <1>5, <1>10, <1>11, <1>12, <1>13

\* Moving a price up or down the ladder: only a price of one tick stays where
\* it is, when it is lowered.
LEMMA MovedPrices ==
  ASSUME NEW p \in Price
  PROVE  /\ p # 1 => MovedPrice(p, Offset) # p /\ MovedPrice(p, -Offset) # p
         /\ MovedPrice(1, -Offset) = 1
<1>1. /\ p \in Nat /\ 1 <= p /\ p <= MaxRaw /\ MaxRaw \in Nat
      /\ Offset \in Nat /\ 1 <= Offset /\ Offset <= MaxRaw
  BY WordWidth, DeviationsFit DEF Price
<1>2. PICK h : h = MaxRaw \div 2
  OBVIOUS
<1>3. Signed(p) = p \/ Signed(p) = p - (MaxRaw + 1)
  BY DEF Signed
<1>4. PICK s : s = Signed(p)
  OBVIOUS
<1>5. s \in Int /\ (s = p \/ s = p - (MaxRaw + 1))
  BY <1>1, <1>3, <1>4
<1>6. /\ MovedPrice(p, Offset) = IF s + Offset < 1 THEN 1 ELSE s + Offset
      /\ MovedPrice(p, -Offset) = IF s + (-Offset) < 1 THEN 1 ELSE s + (-Offset)
  BY <1>4 DEF MovedPrice
<1>7. ASSUME p # 1 PROVE MovedPrice(p, Offset) # p /\ MovedPrice(p, -Offset) # p
  BY <1>1, <1>5, <1>6, <1>7
<1>8. MovedPrice(1, -Offset) = 1
  <2>1. Signed(1) = 1 \/ Signed(1) = 1 - (MaxRaw + 1)
    BY DEF Signed
  <2>2. PICK t : t = Signed(1)
    OBVIOUS
  <2>3. t \in Int /\ t <= 1
    BY <1>1, <2>1, <2>2
  <2>4. t + (-Offset) < 1
    BY <1>1, <2>3
  <2>5. QED
    BY <2>2, <2>4 DEF MovedPrice
<1>9. QED
  BY <1>7, <1>8

\* Row by row, what it takes for a deviation to change nothing.
LEMMA EffectlessRows ==
  LET E(d) == Effectless(d, batch, inst, result, pre)
      post == ControlPost(result, pre)
      who  == Beneficiary(batch)
  IN  /\ E("omitted_order") <=> batch = << >>
      /\ E("price_inflation") <=> Unmoved(result, Offset)
      /\ E("price_deflation") <=> Unmoved(result, -Offset)
      /\ E("overfill") <=> batch = << >> \/ result.alloc[1] = ForgedQty
      /\ E("preferential_allocation") <=> batch = << >> \/ result.alloc[1] = 1
      /\ E("limit_price") <=>
           \A k \in 1..Len(result.fills) :
             result.fills[k].order_id = batch[1].id
               => result.fills[k].execution_price = BogusPrice
      /\ E("frozen_post_state") <=> post = Fixture
      /\ E("cash_creation") <=>
           who \in post.accounts /\ post.cash[who] + ExtraCash > MaxMoney
      /\ E("inventory_creation") <=>
           who \in post.accounts /\ post.inv[inst][who] + ExtraQty > MaxRaw
      /\ E("leaf_spoofing") <=> batch = << >>
      /\ ~E("stale_oracle")
BY DEF Effectless, Fixture

LEMMA NoRowPasses ==
  ASSUME Executed, Control(inst, result, pre), RowsAre, Len(rows) = Len(TestCases)
  PROVE  LET E(d) == Effectless(d, batch, inst, result, pre)
         IN  AllInvariantsHeld
               <=> /\ ~E("omitted_order") /\ ~E("price_inflation") /\ ~E("price_deflation")
                   /\ ~E("overfill") /\ ~E("preferential_allocation") /\ ~E("limit_price")
                   /\ ~E("frozen_post_state") /\ ~E("cash_creation")
                   /\ ~E("inventory_creation") /\ ~E("leaf_spoofing") /\ ~E("stale_oracle")
<1> DEFINE E(d) == Effectless(d, batch, inst, result, pre)
<1>1. Len(rows) = 12
  BY DEF TestCases
<1>2. \A k \in 1..12 : rows[k] <=> E(TestCases[k])
  BY <1>1 DEF RowsAre
<1>3. E("honest_baseline")
  BY DEF Effectless
<1> HIDE DEF E
<1>4. /\ TestCases[1] = "honest_baseline" /\ TestCases[2] = "omitted_order"
      /\ TestCases[3] = "price_inflation" /\ TestCases[4] = "price_deflation"
      /\ TestCases[5] = "overfill" /\ TestCases[6] = "preferential_allocation"
      /\ TestCases[7] = "limit_price" /\ TestCases[8] = "frozen_post_state"
      /\ TestCases[9] = "cash_creation" /\ TestCases[10] = "inventory_creation"
      /\ TestCases[11] = "leaf_spoofing" /\ TestCases[12] = "stale_oracle"
  BY DEF TestCases
<1>5. rows[1]
  BY <1>2, <1>3, <1>4
<1>6. (\A k \in 2..12 : ~rows[k])
        <=> /\ ~rows[2] /\ ~rows[3] /\ ~rows[4] /\ ~rows[5] /\ ~rows[6] /\ ~rows[7]
            /\ ~rows[8] /\ ~rows[9] /\ ~rows[10] /\ ~rows[11] /\ ~rows[12]
  OBVIOUS
<1>7. /\ rows[2] <=> E("omitted_order")
      /\ rows[3] <=> E("price_inflation")
      /\ rows[4] <=> E("price_deflation")
      /\ rows[5] <=> E("overfill")
      /\ rows[6] <=> E("preferential_allocation")
      /\ rows[7] <=> E("limit_price")
      /\ rows[8] <=> E("frozen_post_state")
      /\ rows[9] <=> E("cash_creation")
      /\ rows[10] <=> E("inventory_creation")
      /\ rows[11] <=> E("leaf_spoofing")
      /\ rows[12] <=> E("stale_oracle")
  BY <1>2, <1>4
<1>8. AllInvariantsHeld <=> rows[1] /\ \A k \in 2..12 : ~rows[k]
  BY <1>1 DEF AllInvariantsHeld
<1>9. QED
  BY <1>5, <1>6, <1>7, <1>8 DEF E

\* The control's ledger differs from the fixture only where something was
\* filled.
LEMMA MovedLedger ==
  ASSUME Executed, Control(inst, result, pre), ControlPost(result, pre) # Fixture
  PROVE  result.fills # << >>
<1>1. ASSUME result.fills = << >>
      PROVE  ApplyBatchTransition(Fixture, result.fills).ledger = Fixture
  BY <1>1, TransitionWithoutFills
<1>2. ControlPost(result, pre) = ApplyBatchTransition(Fixture, result.fills).ledger
  BY DEF ControlPost, Fixture
<1>3. QED
  BY <1>1, <1>2

\* Where something was filled, every deviation shows exactly when the batch is
\* suitable.
LEMMA FilledIsSuitable ==
  ASSUME Executed, Control(inst, result, pre), result.fills # << >>
  PROVE  LET E(d) == Effectless(d, batch, inst, result, pre)
         IN  (/\ ~E("omitted_order") /\ ~E("price_inflation") /\ ~E("price_deflation")
              /\ ~E("overfill") /\ ~E("preferential_allocation") /\ ~E("limit_price")
              /\ ~E("frozen_post_state") /\ ~E("cash_creation")
              /\ ~E("inventory_creation") /\ ~E("leaf_spoofing") /\ ~E("stale_oracle"))
               <=> SuitableBatch(ControlPost(result, pre))
<1> DEFINE E(d) == Effectless(d, batch, inst, result, pre)
<1>1. PICK post, p, q, m, who : /\ post = ControlPost(result, pre)
                                /\ p = result.outcome.clearing_price
                                /\ q = result.alloc[1] /\ m = Len(result.fills)
                                /\ who = batch[1].account
  OBVIOUS
<1>2. /\ p \in Price /\ batch # << >> /\ 1 \in 1..Len(batch) /\ q \in Nat
      /\ q > 0 => \E k \in 1..m : /\ result.fills[k].order_id = batch[1].id
                                  /\ result.fills[k].execution_price = p
      /\ \A k \in 1..m : result.fills[k].order_id = batch[1].id =>
           /\ q > 0 /\ result.fills[k].execution_price = p
           /\ result.fills[k].account = who
  BY <1>1, FirstOrderFilled DEF ClearingPrice
<1>3. Beneficiary(batch) = who
  BY <1>1, <1>2 DEF Beneficiary
<1>4. /\ WellFormed(post) /\ post.accounts = pre.accounts
      /\ \A k \in 1..m : result.fills[k].account \in pre.accounts
  BY <1>1, ControlLedger DEF Control
<1>5. PICK c, h : c = post.cash[who] /\ h = post.inv[inst][who]
  OBVIOUS
<1>6. c \in Nat /\ h \in Nat /\ MaxMoney \in Nat /\ MaxRaw \in Nat
      /\ ExtraCash \in Nat /\ ExtraQty \in Nat
  <2>1. who \in Account
    BY <1>1, <1>2, ExecutedShapes
  <2>2. post.cash \in [Account -> Money] /\ post.inv \in [Instruments -> [Account -> Qty]]
    BY <1>4 DEF WellFormed, LedgerType
  <2>3. inst \in Instruments
    BY DEF Executed, CheckerIInv, ClearingIInv
  <2>4. c \in Money /\ h \in Qty
    BY <1>5, <2>1, <2>2, <2>3
  <2>5. MaxMoney \in Nat /\ MaxRaw \in Nat
    BY WordWidth, MoneyWidth
  <2>6. QED
    BY <2>4, <2>5, DeviationsFit DEF Money, Qty, Price
<1>7. Unmoved(result, -Offset) <=> p = 1
  <2>1. p # NoPrice
    BY <1>2 DEF Price, NoPrice
  <2>2. QED
    BY <1>1, <1>2, <2>1, MovedPrices DEF Unmoved
<1>8. Unmoved(result, Offset) => p = 1
  <2>1. p # NoPrice
    BY <1>2 DEF Price, NoPrice
  <2>2. QED
    BY <1>1, <1>2, <2>1, MovedPrices DEF Unmoved
<1>9. /\ E("omitted_order") <=> batch = << >>
      /\ E("price_inflation") <=> Unmoved(result, Offset)
      /\ E("price_deflation") <=> Unmoved(result, -Offset)
      /\ E("overfill") <=> batch = << >> \/ q = ForgedQty
      /\ E("preferential_allocation") <=> batch = << >> \/ q = 1
      /\ E("limit_price") <=>
           \A k \in 1..m : result.fills[k].order_id = batch[1].id
             => result.fills[k].execution_price = BogusPrice
      /\ E("frozen_post_state") <=> post = Fixture
      /\ E("cash_creation") <=> who \in post.accounts /\ c + ExtraCash > MaxMoney
      /\ E("inventory_creation") <=> who \in post.accounts /\ h + ExtraQty > MaxRaw
      /\ E("leaf_spoofing") <=> batch = << >>
      /\ ~E("stale_oracle")
  BY <1>1, <1>3, <1>5, EffectlessRows
<1> HIDE DEF E
<1>10. SuitableBatch(post)
         <=> /\ post # Fixture
             /\ q # 0 /\ q # 1 /\ q # ForgedQty
             /\ p # 1 /\ p # BogusPrice
             /\ c + ExtraCash <= MaxMoney
             /\ h + ExtraQty <= MaxRaw
  BY <1>1, <1>5 DEF SuitableBatch
<1>11. E("limit_price") <=> q = 0 \/ p = BogusPrice
  BY <1>2, <1>9
<1>12. q # 0 => who \in post.accounts
  BY <1>2, <1>4
<1>13. /\ c + ExtraCash > MaxMoney <=> ~(c + ExtraCash <= MaxMoney)
       /\ h + ExtraQty > MaxRaw <=> ~(h + ExtraQty <= MaxRaw)
  BY <1>6
<1>14. ASSUME SuitableBatch(post)
       PROVE  /\ ~E("omitted_order") /\ ~E("price_inflation") /\ ~E("price_deflation")
              /\ ~E("overfill") /\ ~E("preferential_allocation") /\ ~E("limit_price")
              /\ ~E("frozen_post_state") /\ ~E("cash_creation")
              /\ ~E("inventory_creation") /\ ~E("leaf_spoofing") /\ ~E("stale_oracle")
  BY <1>2, <1>7, <1>8, <1>9, <1>10, <1>11, <1>13, <1>14
<1>15. ASSUME /\ ~E("price_deflation") /\ ~E("overfill") /\ ~E("preferential_allocation")
              /\ ~E("limit_price") /\ ~E("frozen_post_state") /\ ~E("cash_creation")
              /\ ~E("inventory_creation")
       PROVE  SuitableBatch(post)
  BY <1>7, <1>9, <1>10, <1>11, <1>12, <1>13, <1>15
<1>16. QED
  BY <1>1, <1>14, <1>15 DEF E

LEMMA SuitableIs ==
  ASSUME Executed, Control(inst, result, pre), RowsAre, Len(rows) = Len(TestCases)
  PROVE  AllInvariantsHeld <=> SuitableBatch(ControlPost(result, pre))
<1>1. CASE result.fills # << >>
  BY <1>1, FilledIsSuitable, NoRowPasses
<1>2. CASE result.fills = << >>
  <2>1. ControlPost(result, pre) = Fixture
    BY <1>2, MovedLedger
  <2>2. ~SuitableBatch(ControlPost(result, pre))
    BY <2>1 DEF SuitableBatch
  <2>3. Effectless("frozen_post_state", batch, inst, result, pre)
    BY <2>1, EffectlessRows
  <2>4. ~AllInvariantsHeld
    BY <2>3, NoRowPasses
  <2>5. QED
    BY <2>2, <2>4
<1>3. QED
  BY <1>1, <1>2

\* The report is clean exactly for a batch the engine executes and in which
\* every deviation would leave a trace: a breach may be the batch's doing.
THEOREM CleanReports == AuditsSpec => []CleanReportNeedsASuitableBatch
<1>1. CheckerIInv /\ RowsAre => CleanReportNeedsASuitableBatch
  <2> SUFFICES ASSUME CheckerIInv, RowsAre, exit \in {"clean", "breach"}
               PROVE  exit = "clean" <=> rows[1] /\ SuitableBatch(Settled(result.fills))
    BY DEF CleanReportNeedsASuitableBatch
  <2>1. Len(rows) = Len(TestCases) /\ (exit = "clean" <=> AllInvariantsHeld)
    BY DEF RowsAre
  <2>2. Len(rows) = 12 /\ TestCases[1] = "honest_baseline"
    BY <2>1 DEF TestCases
  <2>3. Executed
    <3>1. rows # << >>
      BY <2>2
    <3>2. QED
      BY <3>1 DEF Executed, RowsAre
  <2>4. rows[1] <=> Control(inst, result, pre)
    <3>1. Effectless("honest_baseline", batch, inst, result, pre)
      BY DEF Effectless
    <3>2. 1 \in 1..Len(rows)
      BY <2>2
    <3>3. QED
      BY <2>2, <3>1, <3>2 DEF RowsAre
  <2>5. CASE rows[1]
    <3>1. Settled(result.fills) = ControlPost(result, pre)
      BY <2>3, <2>4, <2>5, ControlLedger DEF Control
    <3>2. AllInvariantsHeld <=> SuitableBatch(ControlPost(result, pre))
      BY <2>1, <2>3, <2>4, <2>5, SuitableIs
    <3>3. QED
      BY <2>1, <2>5, <3>1, <3>2
  <2>6. CASE ~rows[1]
    BY <2>1, <2>6 DEF AllInvariantsHeld
  <2>7. QED
    BY <2>5, <2>6
<1>2. QED
  BY <1>1, AuditsInvariant, PTL

=============================================================================
