------------------------------- MODULE Audits -------------------------------
(***************************************************************************)
(* The audit matrix (adversary/mutator.cpp, adversary/matrix.cpp, and the  *)
(* command that prints it): the venue's own test of its audits.  A batch   *)
(* is executed once as the rules say and eleven times with one deviation   *)
(* from them, each execution is put to the transition checker, to the      *)
(* accounting audit and to the oracle policy, and the report is clean when *)
(* the first execution passes and no other does.                           *)
(*                                                                         *)
(* The harness settles fills by itself and ignores every error on the way: *)
(* what it hands to the audits need not be anything the engine returns.    *)
(*                                                                         *)
(* The batch and verify_transition are those of Checker.  A behaviour      *)
(* either has the checker rule on one result, as there, or runs the        *)
(* command.                                                                *)
(***************************************************************************)
EXTENDS Checker, Accounting, Oracle

CONSTANTS
  Offset,        \* ticks by which a clearing price is moved, 5 in the code
  ForgedQty,     \* quantity of an overfill, 99999
  BogusPrice,    \* price of a fill off its limit, 99999
  ExtraCash,     \* cash out of nowhere, 10000
  ExtraQty       \* inventory out of nowhere, 50

ASSUME DeviationsFit ==
  /\ Offset \in Price
  /\ ForgedQty \in Qty /\ BogusPrice \in Price
  /\ ExtraCash \in Money \ {0} /\ ExtraQty \in Price

VARIABLES
  rows,    \* passed_verification of each row evaluated so far
  exit     \* "running", or how the command ended: "clean", "breach", "error"

auditsVars == <<checkerVars, rows, exit>>

\* test_cases.
TestCases ==
  <<"honest_baseline", "omitted_order", "price_inflation", "price_deflation",
    "overfill", "preferential_allocation", "limit_price", "frozen_post_state",
    "cash_creation", "inventory_creation", "leaf_spoofing", "stale_oracle">>

----------------------------------------------------------------------------
(***************************************************************************)
(* One execution, with the deviation d.                                    *)
(***************************************************************************)
\* derive_preimages, for the only batch of a fixture.
Preimages == [i \in 1..Len(batch) |-> [order |-> batch[i], nonce |-> i]]

\* The command blinds the ledger of the fixture before it does anything.
Fixture == BlindLedger(pre)

\* 1. The order of leaf 0 is dropped, if there is one.
WorkingPreimages(d) ==
  IF d = "omitted_order" /\ batch # << >> THEN Tail(Preimages) ELSE Preimages

WorkingOrders(d) ==
  [i \in 1..Len(WorkingPreimages(d)) |-> WorkingPreimages(d)[i].order]

\* A word read as a signed one.
Signed(raw) == IF raw > MaxRaw \div 2 THEN raw - (MaxRaw + 1) ELSE raw

\* Variant: the moved price is not clamped.
MovedPriceUnclamped(price, ticks) == Signed(price) + ticks

\* The moved price is at least one tick.
MovedPrice(price, ticks) ==
  IF Signed(price) + ticks < 1 THEN 1 ELSE Signed(price) + ticks

\* 2. The outcome; only a price that exists can be moved.
MoveClearingPrice(d, outcome) ==
  LET moved(ticks) == [outcome EXCEPT !.clearing_price = MovedPrice(@, ticks)]
  IN  IF outcome.clearing_price = NoPrice THEN outcome
      ELSE CASE d = "price_inflation" -> moved(Offset)
             [] d = "price_deflation" -> moved(-Offset)
             [] OTHER -> outcome

WorkingOutcome(d) ==
  MoveClearingPrice(d, DetermineClearingOutcome(WorkingOrders(d)))

\* What the sorts of allocate_batch may return in it: the same call returns the
\* same sequences.
WorkingSorts(orders, outcome) ==
  IF orders = batch /\ outcome = result.outcome
  THEN {sorted} ELSE SortOutcomes(orders, outcome)

\* 3. The allocation; the first order of the batch is the target.
ForgeAllocation(d, orders, alloc) ==
  LET forged(q) == [i \in 1..Len(alloc) |->
                      IF orders[i].id = batch[1].id THEN q ELSE alloc[i]]
  IN  CASE d = "overfill" -> forged(ForgedQty)
        [] d = "preferential_allocation" -> forged(1)
        [] OTHER -> alloc

\* 4. The fills.
MispriceFills(d, fs) ==
  [k \in 1..Len(fs) |->
     IF d = "limit_price" /\ fs[k].order_id = batch[1].id
     THEN [fs[k] EXCEPT !.execution_price = BogusPrice,
                        !.consideration = FromPriceQty(BogusPrice, fs[k].fill_qty)]
     ELSE fs[k]]

\* A balance after a checked operation whose error is ignored.
OrKeep(new, old) == IF new = Err THEN old ELSE new

CreditCash(l, a, amount) ==
  [GetOrCreateAccount(l, a) EXCEPT
     !.cash[a] = OrKeep(CheckedAdd(@, amount, MaxMoney), @)]

CreditInventory(l, a, qty) ==
  [GetOrCreateAccount(l, a) EXCEPT
     !.inv[inst][a] = OrKeep(CheckedAdd(@, qty, MaxRaw), @)]

\* Variant: sellers hand nothing over.
SettleOnlyCredits(l, f) ==
  IF f.side = "Buy"
  THEN CreditInventory([GetOrCreateAccount(l, f.account) EXCEPT
                          !.cash[f.account] = OrKeep(CheckedSub(@, f.consideration), @)],
                       f.account, f.fill_qty)
  ELSE CreditCash(l, f.account, f.consideration)

\* 5. A fill in the harness's own settlement: each half happens or not,
\* whatever becomes of the other.
SettleRegardless(l, f) ==
  LET a == f.account
  IN  IF f.side = "Buy"
      THEN CreditInventory([GetOrCreateAccount(l, a) EXCEPT
                              !.cash[a] = OrKeep(CheckedSub(@, f.consideration), @)],
                           a, f.fill_qty)
      ELSE CreditCash([GetOrCreateAccount(l, a) EXCEPT
                         !.inv[inst][a] = OrKeep(CheckedSub(@, f.fill_qty), @)],
                      a, f.consideration)

Settled(fs) ==
  LET settled[k \in 0..Len(fs)] ==
        IF k = 0 THEN Fixture ELSE SettleRegardless(settled[k - 1], fs[k])
  IN  settled[Len(fs)]

TamperPostState(d, post) ==
  LET beneficiary == IF batch = << >> THEN 1 ELSE batch[1].account
  IN  CASE d = "frozen_post_state"  -> Fixture
        [] d = "cash_creation"      -> CreditCash(post, beneficiary, ExtraCash)
        [] d = "inventory_creation" -> CreditInventory(post, beneficiary, ExtraQty)
        [] OTHER -> post

\* 6. The manifest; the spoofed commitment is that of no order.
SpoofLeaf(d, manifest) ==
  IF d = "leaf_spoofing" /\ manifest.records # << >>
  THEN [manifest EXCEPT !.records[1].commitment = CommitRaw(<<"absent">>)]
  ELSE manifest

WorkingAccounting(d, alloc) ==
  SpoofLeaf(d, BuildAccounting(WorkingPreimages(d), alloc))

\* 8. The snapshot: half a staleness old, or one tick of the clock too old.
AuditPolicy == [max_staleness |-> 2, max_deviation |-> 10]
AuditCutoff == 4

WorkingOracle(d, price) ==
  LET age == IF d = "stale_oracle" THEN AuditPolicy.max_staleness + 1
                                   ELSE AuditPolicy.max_staleness \div 2
  IN  [policy |-> AuditPolicy,
       snapshot |-> [instrument |-> inst, timestamp |-> AuditCutoff - age,
                     price |-> IF price = NoPrice THEN 100 ELSE price]]

\* AdversarialOperator::execute, from the outcome on.
DeviateFills(d, outcome, alloc, fs) ==
  [outcome |-> outcome, alloc |-> alloc, fills |-> fs,
   post |-> TamperPostState(d, Settled(fs))]

DeviateAllocation(d, orders, outcome, alloc) ==
  DeviateFills(d, outcome, alloc,
               MispriceFills(d, GenerateCanonicalFills(orders, inst, outcome, alloc)))

Deviate(d, orders, outcome, sorts) ==
  DeviateAllocation(d, orders, outcome,
                    ForgeAllocation(d, orders, AllocateBatch(orders, outcome, sorts)))

----------------------------------------------------------------------------
(***************************************************************************)
(* run_attack_matrix and the command around it.                            *)
(***************************************************************************)
\* The three audits of a row: the transition of the batch that was executed,
\* the manifest against the commitments of the batch that was submitted, and
\* the snapshot, taken to be of its own instrument.
PassesAudits(d, orders, sorts, p, oracle) ==
  /\ VerifyTransition(Fixture, orders, inst,
                      IF orders = batch THEN sorted ELSE sorts, p)
  /\ VerifyAccounting(batch, LeavesOf(Preimages), WorkingAccounting(d, p.alloc),
                      p.alloc)
  /\ ValidReference(oracle, oracle.snapshot.instrument, AuditCutoff,
                    p.outcome.clearing_price)

\* A row: what its audits say, for whatever the sorts return.
RowResults(d, orders, outcome) ==
  {PassesAudits(d, orders, sorts, Deviate(d, orders, outcome, sorts),
                WorkingOracle(d, outcome.clearing_price)) :
     sorts \in WorkingSorts(orders, outcome)}

AuditsInit ==
  /\ CheckerInit
  /\ rows = << >>
  /\ exit = "running"

\* The checker rules on one result: no command runs.
CheckOne ==
  /\ rows = << >>
  /\ exit = "running"
  /\ CheckerNext
  /\ UNCHANGED <<rows, exit>>

\* The next row of the matrix.
EvaluateRow ==
  /\ stage = "executed"
  /\ honest = None
  /\ Len(rows) < Len(TestCases)
  /\ LET d == TestCases[Len(rows) + 1]
     IN  \E passed \in RowResults(d, WorkingOrders(d), WorkingOutcome(d)) :
           rows' = Append(rows, passed)
  /\ UNCHANGED <<checkerVars, exit>>

\* all_invariants_held: the control passed and nothing else did.
AllInvariantsHeld == rows[1] /\ \A k \in 2..Len(rows) : ~rows[k]

Report ==
  /\ exit = "running"
  /\ Len(rows) = Len(TestCases)
  /\ exit' = IF AllInvariantsHeld THEN "clean" ELSE "breach"
  /\ UNCHANGED <<checkerVars, rows>>

\* The fixture does not load, or value() is called on the error of
\* determine_clearing_outcome in the first row: the command ends by exception.
Throw ==
  /\ exit = "running"
  /\ stage = "rejected"
  /\ exit' = "error"
  /\ UNCHANGED <<checkerVars, rows>>

AuditsNext == CheckOne \/ EvaluateRow \/ Report \/ Throw

AuditsSpec == AuditsInit /\ [][AuditsNext]_auditsVars

----------------------------------------------------------------------------
(***************************************************************************)
(* Properties                                                              *)
(***************************************************************************)
\* The engine executes the batch on this ledger.
EngineExecutes == ApplyBatchTransition(pre, result.fills).ok

\* The control row passes exactly when execute_batch succeeds on the batch and
\* the instrument's total can be computed: a harness that swallowed an error of
\* its own settlement has its execution turned down.
ControlAgreesWithTheEngine ==
  rows # << >> => (rows[1] <=> EngineExecutes /\ InvSum(pre, inst) <= MaxRaw)

\* The row just evaluated: a deviation passes the audits only if it changed
\* nothing.  What it executed and recorded is what the control did, order for
\* order and leaf for leaf, and its snapshot is fresh.
OnlyEffectlessDeviationsPass ==
  rows # << >> /\ rows[Len(rows)] =>
    LET d == TestCases[Len(rows)]
        control == TestCases[1]
        execution(e) == Deviate(e, batch, WorkingOutcome(e), sorted)
    IN  /\ WorkingOrders(d) = batch
        /\ execution(d) = execution(control)
        /\ WorkingAccounting(d, result.alloc) = WorkingAccounting(control, result.alloc)
        /\ d # "stale_oracle"

\* The batch shows every deviation up, when the control leaves the ledger as
\* post: its first order is filled, for neither one lot nor the forged
\* quantity, at a price above one tick that is not the bogus one, some balance
\* moves, which it does not when an account trades with itself, and the extra
\* cash and lots fit.
SuitableBatch(post) ==
  /\ post # Fixture
  /\ result.alloc[1] \notin {0, 1, ForgedQty}
  /\ result.outcome.clearing_price \notin {1, BogusPrice}
  /\ post.cash[batch[1].account] + ExtraCash <= MaxMoney
  /\ post.inv[inst][batch[1].account] + ExtraQty <= MaxRaw

\* A clean report says as much about the batch as about the audits: any batch
\* that is not suitable is reported as a breach although no audit failed.
CleanReportNeedsASuitableBatch ==
  exit \in {"clean", "breach"} =>
    (exit = "clean" <=> rows[1] /\ SuitableBatch(Settled(result.fills)))
=============================================================================
