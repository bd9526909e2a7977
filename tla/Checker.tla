------------------------------ MODULE Checker ------------------------------
(***************************************************************************)
(* The transition checker (engine/checker.cpp).  verify_transition is      *)
(* handed a pre-state, a batch and a proposed result; it recomputes the    *)
(* outcome, the allocation and the fills, and rebuilds the post-state.     *)
(*                                                                         *)
(* A batch is cleared and settled, a result is proposed for it, either the *)
(* one execute_batch returned or a misreport of it, and the checker rules. *)
(***************************************************************************)
EXTENDS Clearing, Ledgers

CONSTANTS
  InitialLedgers,       \* the ledgers a batch may start from
  Misreports(_)         \* the results that may be proposed in a result's place

ASSUME CheckedLedgersOK == \A l \in InitialLedgers : WellFormed(l)

\* Orders are of accounts there may be.
ASSUME CheckedAccounts ==
  \A k \in 1..MaxOrders : \A o \in Arrivals[k] : o.account \in Account

VARIABLES
  pre,        \* the ledger the batch is executed on
  honest,     \* what execute_batch returned
  proposal,   \* what the checker is handed
  ruling      \* "none", "accepted" or "rejected"

checkerVars == <<clearingVars, pre, honest, proposal, ruling>>

None == [made |-> FALSE]

----------------------------------------------------------------------------
(***************************************************************************)
(* apply_batch_transition in one step: the ledger after each fill, or an   *)
(* error as soon as one does not settle, then the conservation checks.     *)
(***************************************************************************)
ApplyBatchTransition(before, fs) ==
  LET after[k \in 0..Len(fs)] ==
        IF k = 0 THEN [ok |-> TRUE, ledger |-> before]
        ELSE IF after[k - 1].ok /\ Settles(after[k - 1].ledger, fs[k])
        THEN [ok |-> TRUE, ledger |-> SettleFill(after[k - 1].ledger, fs[k])]
        ELSE [ok |-> FALSE, ledger |-> before]
      last == after[Len(fs)]
  IN  [ok |-> /\ last.ok
              /\ CashConserved(before, last.ledger)
              /\ AssetsConserved(before, last.ledger, fs),
       ledger |-> last.ledger]

\* Step 3: every fill names an order of the batch and respects it.
FillsRespectOrders(orders, fs) ==
  \A k \in 1..Len(fs) : \E i \in 1..Len(orders) :
    /\ orders[i].id = fs[k].order_id
    /\ fs[k].fill_qty <= orders[i].qty
    /\ IF fs[k].side = "Buy" THEN fs[k].execution_price <= orders[i].price
                             ELSE fs[k].execution_price >= orders[i].price
    /\ fs[k].consideration = FromPriceQty(fs[k].execution_price, fs[k].fill_qty)

\* Steps 3 and 4: the checked totals of the two sides agree.
VolumeConserved(fs) ==
  LET side(s) == CheckedTotal([k \in 1..Len(fs) |->
                                 IF fs[k].side = s THEN fs[k].fill_qty ELSE 0],
                              Len(fs), MaxRaw)
  IN  side("Buy") # Err /\ side("Buy") = side("Sell")

\* Variant: the accounts are compared with the pre-state.
MatchesPreState(before, p, instrument) ==
  /\ ApplyBatchTransition(before, p.fills).ok
  /\ p.post.accounts = before.accounts
  /\ \A a \in before.accounts : p.post.cash[a] = before.cash[a]

\* Variant: the ledger is rebuilt and only its accounts are compared.
MatchesAccountsOnly(before, p, instrument) ==
  LET rebuilt == ApplyBatchTransition(before, p.fills)
  IN  rebuilt.ok /\ p.post.accounts = rebuilt.ledger.accounts

\* Step 7: the rebuilt ledger and the proposed one have the same accounts, and
\* each has the same cash and the same inventory of the batch's instrument.
MatchesReconstruction(before, p, instrument) ==
  LET rebuilt == ApplyBatchTransition(before, p.fills)
  IN  /\ rebuilt.ok
      /\ p.post.accounts = rebuilt.ledger.accounts
      /\ \A a \in rebuilt.ledger.accounts :
           /\ p.post.cash[a] = rebuilt.ledger.cash[a]
           /\ p.post.inv[instrument][a] = rebuilt.ledger.inv[instrument][a]

\* verify_transition.  The asset check of step 6 looks at the instrument of
\* the batch whether or not it traded.
VerifyTransition(before, orders, instrument, sorts, p) ==
  LET outcome  == DetermineClearingOutcome(orders)
      expected == ExecutionOf(orders, instrument, outcome, sorts)
  IN  /\ outcome.ok
      /\ p.outcome = outcome
      /\ p.alloc = expected.alloc
      /\ p.fills = expected.fills
      /\ FillsRespectOrders(orders, p.fills)
      /\ VolumeConserved(p.fills)
      /\ CashConserved(before, p.post)
      /\ Err # TotalInventoryOf(before, instrument)
      /\ TotalInventoryOf(before, instrument) = TotalInventoryOf(p.post, instrument)
      /\ MatchesReconstruction(before, p, instrument)

----------------------------------------------------------------------------
CheckerInit ==
  /\ ClearingInit
  /\ pre \in InitialLedgers
  /\ honest = None
  /\ proposal = None
  /\ ruling = "none"

ClearBatch == ClearingNext /\ UNCHANGED <<pre, honest, proposal, ruling>>

\* The rest of execute_batch: the fills settle and the result is returned.
FinishExecution ==
  /\ stage = "executed"
  /\ honest = None
  /\ LET post == ApplyBatchTransition(pre, result.fills)
     IN  /\ post.ok
         /\ honest' = [made |-> TRUE, outcome |-> result.outcome,
                       alloc |-> result.alloc, fills |-> result.fills,
                       post |-> post.ledger]
  /\ UNCHANGED <<clearingVars, pre, proposal, ruling>>

Propose ==
  /\ honest.made
  /\ proposal = None
  /\ proposal' \in {honest} \cup Misreports(honest)
  /\ UNCHANGED <<clearingVars, pre, honest, ruling>>

Rule ==
  /\ proposal.made
  /\ ruling = "none"
  /\ ruling' = IF VerifyTransition(pre, batch, inst, sorted, proposal)
               THEN "accepted" ELSE "rejected"
  /\ UNCHANGED <<clearingVars, pre, honest, proposal>>

CheckerNext == ClearBatch \/ FinishExecution \/ Propose \/ Rule

----------------------------------------------------------------------------
(***************************************************************************)
(* Properties                                                              *)
(***************************************************************************)
\* The checker agrees with the engine: what execute_batch returns is accepted,
\* unless the batch's instrument has more in circulation than a total can hold.
\* Only an uncrossed batch executes in that case.
AcceptsTheExecution ==
  ruling # "none" /\ proposal = honest =>
    \/ ruling = "accepted"
    \/ InvSum(pre, inst) > MaxRaw /\ honest.fills = << >>

\* The checker accepts nothing else: the outcome, the allocation, the fills,
\* the set of accounts, all cash and all inventory of the batch's instrument
\* are what execute_batch computed, totals that agree notwithstanding.
AcceptsOnlyTheExecution ==
  ruling = "accepted" =>
    /\ proposal.outcome = honest.outcome
    /\ proposal.alloc = honest.alloc
    /\ proposal.fills = honest.fills
    /\ proposal.post.accounts = honest.post.accounts
    /\ \A a \in honest.post.accounts :
         /\ proposal.post.cash[a] = honest.post.cash[a]
         /\ proposal.post.inv[inst][a] = honest.post.inv[inst][a]

\* docs/DECISIONS.md, ADR-007: the verifier "reconstructs the expected
\* post-state account by account, and compares every fill field and ledger
\* entry".
ComparesEveryLedgerEntry ==
  ruling = "accepted" => proposal.post = honest.post
=============================================================================
