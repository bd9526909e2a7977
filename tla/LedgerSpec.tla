----------------------------- MODULE LedgerSpec -----------------------------
(***************************************************************************)
(* What a venue's ledger promises, with no mention of batches or fills: it *)
(* changes in single steps, and a step moves cash and assets between the   *)
(* accounts it already has without creating or destroying any.             *)
(***************************************************************************)
EXTENDS Ledgers

VARIABLE ledger

SpecInit == ledger \in LedgerType

Redistribute ==
  /\ ledger' \in LedgerType
  /\ ledger'.accounts = ledger.accounts
  /\ ledger'.blinded = ledger.blinded
  /\ CashSum(ledger') = CashSum(ledger)
  /\ \A i \in Instruments : InvSum(ledger', i) = InvSum(ledger, i)

ConservativeLedger == SpecInit /\ [][Redistribute]_ledger
=============================================================================
