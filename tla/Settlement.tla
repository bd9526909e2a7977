----------------------------- MODULE Settlement -----------------------------
(***************************************************************************)
(* apply_batch_transition (engine/transition.cpp): the fills of a batch    *)
(* are applied one after another to a working copy of the ledger; the      *)
(* first failure discards the copy, and after the last fill two            *)
(* conservation checks decide whether the copy is returned.  The caller    *)
(* adopts the returned ledger as the state the next batch starts from.     *)
(***************************************************************************)
EXTENDS Ledgers

CONSTANTS
  InitialLedgers,   \* the ledgers a session may start from
  FillLists         \* the fill vectors the engine may produce

VARIABLES
  ledger,    \* the adopted state: pre_state of the batch being settled
  work,      \* post_state, the working copy
  fills,     \* the fills being applied
  cursor,    \* index of the next fill
  phase,     \* "idle" or "applying"
  verdict    \* how the last batch ended

settlementVars == <<ledger, work, fills, cursor, phase, verdict>>

ASSUME InitialLedgersOK == \A l \in InitialLedgers : WellFormed(l)
ASSUME FillListsOK == \A fs \in FillLists : fs \in Seq(FillType)

\* What the first n fills amount to, over all accounts and for one account.
NetCash(fs, n) == Total([k \in 1..Len(fs) |-> CashEffect(fs[k])], n)
NetQty(fs, n)  == Total([k \in 1..Len(fs) |-> QtyEffect(fs[k])], n)

OwnCash(fs, a, n) ==
  Total([k \in 1..Len(fs) |->
           IF fs[k].account = a THEN CashEffect(fs[k]) ELSE 0], n)
OwnQty(fs, a, n) ==
  Total([k \in 1..Len(fs) |->
           IF fs[k].account = a THEN QtyEffect(fs[k]) ELSE 0], n)

(***************************************************************************)
(* What generate_canonical_fills guarantees of its result: one instrument, *)
(* no empty fill, as much bought as sold and as much paid as received.     *)
(* That it does is FillsAreSound of module Clearing.                       *)
(***************************************************************************)
CanonicalFills(fs) ==
  /\ \A k \in 1..Len(fs) :
       fs[k].consideration = fs[k].execution_price * fs[k].fill_qty
  /\ \A j, k \in 1..Len(fs) : fs[j].instrument = fs[k].instrument
  /\ NetCash(fs, Len(fs)) = 0
  /\ NetQty(fs, Len(fs)) = 0

SettlementInit ==
  /\ ledger \in InitialLedgers
  /\ work = ledger
  /\ fills = << >>
  /\ cursor = 1
  /\ phase = "idle"
  /\ verdict = "none"

\* Ledger post_state = pre_state.
Begin ==
  /\ phase = "idle"
  /\ fills' \in FillLists
  /\ CanonicalFills(fills')
  /\ work' = ledger
  /\ cursor' = 1
  /\ phase' = "applying"
  /\ UNCHANGED <<ledger, verdict>>

\* One iteration of the loop, both halves succeeding.
ApplyFill ==
  /\ phase = "applying"
  /\ cursor <= Len(fills)
  /\ Settles(work, fills[cursor])
  /\ work' = SettleFill(work, fills[cursor])
  /\ cursor' = cursor + 1
  /\ UNCHANGED <<ledger, fills, phase, verdict>>

\* Returning drops the working copy and the loop's locals.
Return(state, how) ==
  /\ ledger' = state
  /\ work' = state
  /\ fills' = << >>
  /\ cursor' = 1
  /\ phase' = "idle"
  /\ verdict' = how

\* Variant: the fills that settled before the failure are kept.
FailFillKeepsCopy ==
  /\ phase = "applying"
  /\ cursor <= Len(fills)
  /\ ~Settles(work, fills[cursor])
  /\ Return(work, "fill_failed")

\* Variant: the loop starts again from a fresh copy.
FailFillRetries ==
  /\ phase = "applying"
  /\ cursor <= Len(fills)
  /\ ~Settles(work, fills[cursor])
  /\ work' = ledger
  /\ cursor' = 1
  /\ UNCHANGED <<ledger, fills, phase, verdict>>

\* A debit or a credit fails: the error is returned and the copy dropped.
FailFill ==
  /\ phase = "applying"
  /\ cursor <= Len(fills)
  /\ ~Settles(work, fills[cursor])
  /\ Return(ledger, "fill_failed")

Conserved == CashConserved(ledger, work) /\ AssetsConserved(ledger, work, fills)

\* Variant: the salts are not carried over to the post-state.
CommitUnblinded ==
  /\ phase = "applying"
  /\ cursor = Len(fills) + 1
  /\ Conserved
  /\ Return([work EXCEPT !.blinded = {}], "committed")

\* The checks pass and the working copy becomes the state.
Commit ==
  /\ phase = "applying"
  /\ cursor = Len(fills) + 1
  /\ Conserved
  /\ Return(work, "committed")

\* InvariantViolation: cash_conservation or asset_conservation.
FailConservation ==
  /\ phase = "applying"
  /\ cursor = Len(fills) + 1
  /\ ~Conserved
  /\ Return(ledger, "not_conserved")

Settle == ApplyFill \/ FailFill \/ Commit \/ FailConservation

SettlementNext == Begin \/ Settle

SettlementSpec == SettlementInit /\ [][SettlementNext]_settlementVars

\* The loop runs to its return once entered.
FairSettlement == SettlementSpec /\ WF_settlementVars(Settle)

----------------------------------------------------------------------------
(***************************************************************************)
(* Properties                                                              *)
(***************************************************************************)
SettlementTypeOK ==
  /\ ledger \in LedgerType
  /\ work \in LedgerType
  /\ fills \in Seq(FillType)
  /\ cursor \in Nat
  /\ phase \in {"idle", "applying"}
  /\ verdict \in {"none", "committed", "fill_failed", "not_conserved"}

\* apply_batch_transition: in the middle of the loop the working copy differs
\* from the state by exactly the fills applied so far, in total and per
\* instrument: the instruments the batch does not trade have not moved.
InFlightBalance ==
  phase = "applying" =>
    /\ cursor \in 1..(Len(fills) + 1)
    /\ CashSum(work) = CashSum(ledger) + NetCash(fills, cursor - 1)
    /\ \A i \in Instruments :
         InvSum(work, i) = InvSum(ledger, i)
           + (IF i \in TouchedInstruments(fills)
              THEN NetQty(fills, cursor - 1) ELSE 0)

\* get_or_create_account can add an account to the working copy, but a fill
\* that settles never needs it to: an account with nothing cannot pay or
\* deliver, so neither the account set nor its blinding changes.
NoAccountAppears ==
  phase = "applying" =>
    work.accounts = ledger.accounts /\ work.blinded = ledger.blinded

\* The conservation checks cannot fire on canonical fills, however the
\* balances lie, unless a total of the ledger did not fit its width before
\* the batch either.
ConservationOnlyFailsOnWidth ==
  verdict = "not_conserved" =>
    \/ CashSum(ledger) > MaxMoney
    \/ \E i \in Instruments : InvSum(ledger, i) > MaxRaw

\* A state change of the ledger is the whole batch: every account has moved by
\* the net of its own fills, each counted once, in cash and in the traded
\* instrument, and by nothing else.
CommitAppliesEveryFillOnce ==
  [][\A a \in Account :
       /\ ledger'.cash[a] = ledger.cash[a] + OwnCash(fills, a, Len(fills))
       /\ \A i \in Instruments :
            ledger'.inv[i][a] = ledger.inv[i][a]
              + (IF i \in TouchedInstruments(fills)
                 THEN OwnQty(fills, a, Len(fills)) ELSE 0)]_ledger

\* Every batch that starts to settle ends, committed or rejected.
EverySettlementEnds == phase = "applying" ~> phase = "idle"

Promised == INSTANCE LedgerSpec

\* The ledger is, to its users, one that only ever redistributes.
RefinesLedgerSpec == Promised!ConservativeLedger
=============================================================================
