------------------------------ MODULE Exchange ------------------------------
(***************************************************************************)
(* A session: batch after batch is created, cleared and settled against    *)
(* the ledger the previous one left (execute_batch, called in the loops of *)
(* cli/main.cpp and bench/simulator_benchmarks.cpp).  It composes Clearing *)
(* with Settlement: the fills that settle are those the clearing produced, *)
(* and nothing is assumed of them.                                         *)
(*                                                                         *)
(* A batch that fails leaves the ledger as it was.  The simulator then     *)
(* continues with the next batch; prove-session stops, which is a prefix   *)
(* of the same behaviour.                                                  *)
(***************************************************************************)
EXTENDS Clearing, Ledgers

CONSTANTS
  InitialLedgers,   \* the ledgers a session may start from
  MaxBatches        \* bound: batches in a session

ASSUME SessionLedgersOK == \A l \in InitialLedgers : WellFormed(l)

\* Account ids are unbounded in the code; a session meets NumAccounts of them.
ASSUME ArrivalAccounts ==
  \A k \in 1..MaxOrders : \A o \in Arrivals[k] : o.account \in Account

VARIABLES
  ledger, work, fills, cursor, phase, verdict,   \* as in Settlement
  served                                         \* batches finished

ledgerVars == <<ledger, work, fills, cursor, phase, verdict>>
exchangeVars == <<clearingVars, ledgerVars, served>>

S == INSTANCE Settlement WITH FillLists <- Seq(FillType)

ExchangeInit ==
  /\ ClearingInit
  /\ S!SettlementInit
  /\ served = 0

\* The locals of one iteration go and the next batch is awaited.
OpenNextBatch ==
  /\ stage' = "intake"
  /\ intake' = << >>
  /\ batch' = << >>
  /\ inst' \in Instruments
  /\ sorted' = [Buy |-> << >>, Sell |-> << >>]
  /\ result' = NoResult
  /\ error' = "ok"
  /\ served' = served + 1

Collect ==
  /\ served < MaxBatches
  /\ Receive
  /\ UNCHANGED <<ledgerVars, served>>

\* Batch::create and execute_batch up to the fills.
Clear ==
  /\ CreateBatch \/ RejectBatch \/ ExecuteBatch \/ ClearingFails
  /\ served < MaxBatches
  /\ UNCHANGED <<ledgerVars, served>>

\* execute_batch calls apply_batch_transition with the fills it generated.
StartSettling ==
  /\ stage = "executed"
  /\ phase = "idle"
  /\ work' = ledger
  /\ fills' = result.fills
  /\ cursor' = 1
  /\ phase' = "applying"
  /\ UNCHANGED <<ledger, verdict, clearingVars, served>>

SettleNextFill == S!ApplyFill /\ UNCHANGED <<clearingVars, served>>

\* ledger = exec.post_state.
AdoptPostState == S!Commit /\ OpenNextBatch

\* exec_res.is_err(): continue, with the ledger as it was.
SkipFailedBatch ==
  /\ \/ S!FailFill
     \/ S!FailConservation
     \/ stage = "rejected" /\ UNCHANGED ledgerVars
  /\ OpenNextBatch

ExchangeNext ==
  \/ Collect
  \/ Clear
  \/ StartSettling
  \/ SettleNextFill
  \/ AdoptPostState
  \/ SkipFailedBatch

ExchangeSpec == ExchangeInit /\ [][ExchangeNext]_exchangeVars

----------------------------------------------------------------------------
(***************************************************************************)
(* Properties                                                              *)
(***************************************************************************)
\* execute_batch is apply_batch_transition as Settlement specifies it: every
\* fill vector the clearing generates is canonical, so what is proved of
\* Settlement holds of the session.
SettlesCanonicalFills == S!SettlementSpec

\* The quantities and limit values of an account's own orders.
OwnOrders(a, side, amount(_)) ==
  Total([i \in 1..Len(batch) |->
           IF batch[i].account = a /\ batch[i].side = side
           THEN amount(i) ELSE 0], Len(batch))

\* execute_batch returned a post-state and the caller takes it.
Adopted == phase = "applying" /\ phase' = "idle" /\ verdict' = "committed"

\* From orders to balances: when a batch is executed every account receives in
\* inventory exactly what its orders were allocated, never more than they asked
\* for, pays at most and receives at least what their limits allow, and holds
\* what it held of every other instrument; at any other time nothing moves.
BalancesFollowOrders ==
  [][IF Adopted
     THEN \A a \in Account :
            LET got(i)  == result.alloc[i]
                worth(i) == batch[i].price * result.alloc[i]
                bought == OwnOrders(a, "Buy", got)
                sold   == OwnOrders(a, "Sell", got)
            IN  /\ ledger'.inv[inst][a] = ledger.inv[inst][a] + bought - sold
                /\ ledger'.cash[a] - ledger.cash[a]
                     >= OwnOrders(a, "Sell", worth) - OwnOrders(a, "Buy", worth)
                /\ \A i \in Instruments \ {inst} :
                     ledger'.inv[i][a] = ledger.inv[i][a]
                /\ \A i \in 1..Len(batch) : result.alloc[i] <= batch[i].qty
     ELSE ledger' = ledger]_exchangeVars
=============================================================================
