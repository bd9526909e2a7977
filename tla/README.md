# FairCross in TLA+

FairCross (`src/`) is a C++20 frequent-batch-auction venue: orders are collected
into a batch, the batch clears at one price, fills are settled against a ledger,
and an independent checker and a proof pipeline let others audit the result. A
market-data path (an ITCH parser and a Level-3 book) supplies a reference price.
The program is single-threaded and persists nothing: it has no interleavings of
threads, no crashes to recover from and no network. What is hard in it is
arithmetic at the edge of a word, sort keys that may or may not be total orders,
loops that can fail half way, pairs of indexes that must agree, and long
sequences of legal calls.

This directory models the engine (batch creation to settlement), the checker and
the venue's own audit matrix, the ITCH parser with the replay engine and the order
book, the single-batch statement with its commitments, accounting and constraint
system, the recursive session with the `prove-session` command, and the simulators
with the interval partition. TLC checks all of it on small instances. For every value
of the constants, TLAPS proves correct the clearing of a batch, the settlement loop,
the session loop from orders to balances, the transition checker and the audit matrix, the
order book under any replay, the single-batch statement from its Merkle trees to the
verifier, and the recursive session with its command.

Paths below are relative to `src/cpp/`; `.hpp` files are in `include/faircross/`.

## Inventory

| Component | State | Operations | Hard part | Correct when |
|---|---|---|---|---|
| Domain values `domain/primitives.hpp` | none | checked, saturating, product arithmetic | 64- and 128-bit limits | every overflow becomes an error |
| Batch creation `engine/batch.cpp` | sorted order vector | `Batch::create` | repeated ids, sequence numbers that disagree with ids | the batch does not depend on arrival order |
| Auction `engine/auction.cpp` | none | curves, maximisers, tie rule | running sums, overflow, unquoted midpoint | no price clears more; the chosen one clears the maximum |
| Allocation and fills `engine/allocation.cpp`, `engine/fill.cpp` | none | two sorts, greedy pass, largest remainder, fills | equivalent keys, rounding | exactly the volume on each side, priority, fair shares |
| Ledger and settlement `domain/account.hpp`, `engine/transition.cpp` | accounts, cash, inventory, salts | `apply_batch_transition` | failure after some fills, account creation as a side effect | all or nothing; nothing created or lost |
| Session loop `bench/simulator_benchmarks.cpp`, `cli/main.cpp` | the current ledger and root | `execute_batch` per batch, then `prove_session` | the next batch must start from the last good state; ids are judged only at the end | balances follow orders; a proof for the manifests that are sessions and no others |
| Checker `engine/checker.cpp` | none | `verify_transition` | totals that agree while accounts do not | accepts the execution and nothing else |
| Order book `marketdata/book.cpp` | orders by reference, quantity by price, clock | add, execute, cancel, delete, replace | two indexes, replace onto the same price or reference | the indexes agree; quotes are those of the orders |
| Parser, packet source, replay `marketdata/parser.cpp`, `replay.cpp` | cursor, recorded quotes | frame, decode, apply, record | truncation, trailing bytes, a call that stops half way on an engine that is used again | only whole messages reach the book; every call returns |
| Complete-input accounting `engine/accounting.cpp` | leaf bookkeeping | dispositions | omitted or repeated orders | every committed order accounted for once |
| Commitments, Merkle trees `commitments/` | none | leaf and root hashes | encodings that collide | distinct inputs give distinct roots |
| Oracle policy `engine/oracle_validation.hpp` | none | freshness, collar | age arithmetic, enforced only on a cross | a stale or distant price is refused |
| Prover, verifier, R1CS `proof/` | constraint system | synthesise, bind, check | witness truncation, order of checks | a statement fixes one execution |
| Recursive session `proof/recursive/` | running state | `fold_step`, `verify_session` | steps out of order, gaps in ids | the final state is that of one chain of batches |
| Interval partition `simulator/interval.cpp` | position in the stream | `partition_stream` | boundaries, empty intervals, a clock that wraps | every order in one interval |
| Simulators `simulator/` | next order id, orders drawn so far | `generate_session`, agents, population | spreads wider than the mid, ids across batches | preimages follow the orders; ids and accounts are sound; no price wraps downwards |
| Audit matrix `adversary/`, `cli/main.cpp` | one row per deviation | execute with a deviation, three audits, report | its own settlement ignores errors; a deviation that changes nothing | no deviation with an effect passes |
| CLI, JSON, benchmarks | none | I/O and timing | - | - |

Interaction is by plain calls. `execute_batch` clears (`auction`, `allocation`,
`fill`) and then calls `apply_batch_transition`; the caller adopts the returned
ledger, or continues with the old one when the call failed. `verify_transition`
recomputes everything `execute_batch` did from the same pre-state. The book's
midpoint and clock form the reference snapshot an oracle policy looks at. The
prover repeats the checker and the accounting audit, then synthesises the
constraint system from the same witness. `prove-session` executes a manifest's
batches in turn and hands the steps to the recursive session, which chains the
published roots. The audit matrix runs a batch through an operator that deviates
and asks the checker, the accounting audit and the oracle policy. The batch-interval
sweep takes a generated session apart and partitions it again.

**Hazards.** `PROJECT.json` lists what a test would hardly reach, each at its line with
the properties that catch it. They fall into these groups: limits of a word (sums,
midpoints, age of a snapshot, prices beyond either end, a clock that wraps), sort keys and
tie rules, loops that stop after some of their work, indexes and copies that must
agree, values carried from one call to the next (ledger, root, book, order ids),
audits that compare less than they seem to, and loops that must end.

## Modules

| Module | Models | Notes |
|---|---|---|
| `Domain` | value types and arithmetic | widths are the constants `MaxRaw`, `MaxMoney`; an error `Result` is `Err`; `Total` is the accumulation loop |
| `Auction` | `auction.cpp` | `RunningSupply`/`RunningDemand` are the bucketed passes, `DemandFromOrders`/`SupplyFromOrders` the reference curves |
| `Sorting` | `std::sort` (external) | `StdSorts` gives every result it may leave, so equivalent keys are a real choice |
| `Allocation` | `partition.hpp`, `allocation.cpp` | operators on one side of the book; every outcome of its two sorts |
| `Clearing` | `Batch::create`, `execute_batch` up to the fills, `fill.cpp` | a state machine: orders arrive, the batch is created or refused, then executed or refused |
| `Ledgers` | `account.hpp`, the body of the settlement loop | operators on ledgers, shared by the next four |
| `LedgerSpec` | - | abstract: a ledger that only redistributes among the accounts it has |
| `Settlement` | `apply_batch_transition` | one action per loop iteration and per return |
| `Exchange` | `execute_batch` in a loop | composes `Clearing` with `Settlement` (INSTANCE), nothing assumed of the fills |
| `Checker` | `verify_transition` | an execution, a proposal that may misreport it, a ruling |
| `Books`, `BookSpec` | - | resting orders and their quotes; abstract: a book with no second index |
| `OrderBook` | `book.cpp`, `bridge.hpp` | both indexes, the clock, the recorded quote |
| `Replay` | `replay.cpp`, `packet_source.hpp`, `parser.cpp` | extends `OrderBook`: call after call on one engine, over frames; one action per turn of the loop and per return |
| `Merkle` | `commitments/sha256.hpp`, `merkle.cpp` | trees, roots and paths over symbolic digests |
| `Accounting` | `engine/accounting.cpp` | the manifest of dispositions and its audit |
| `Oracle` | `domain/oracle.hpp`, `oracle_validation.hpp` | freshness, collar, instrument |
| `Audits` | `adversary/mutator.cpp`, `adversary/matrix.cpp`, the `attack-matrix` command | extends `Checker`, `Accounting` and `Oracle`; one action per row, then the report |
| `Circuit` | `proof/constraints/`, `proof/r1cs.hpp` | each subrelation: what keeps it from being synthesised, and its constraints over words |
| `Statement` | `proof/prover.cpp`, the commitments it publishes, account proofs, the verifier on its certificates | extends `Checker` and `Circuit`: an executed batch is assembled into a claim, submitted, proved and verified |
| `Session` | `proof/recursive/`, `proof/verifier.cpp` | fold, publish, deliver, verify; what a batch does to a ledger is the constant `Execution` |
| `SessionCommand` | `cmd_prove_session` | extends `Session`: load, build steps, prove, verify |
| `Partition` | `simulator/interval.cpp` | one action per interval; times are words that wrap |
| `Simulator` | `generator.cpp`, `agent.cpp`, `population.cpp` | one action per draw; what the random generator returns is a choice from its range |
| `Feed` | the sweep of `bench/simulator_benchmarks.cpp` | composes `Simulator` and `Partition` |
| `TotalTheorems` | - | induction over the naturals and lemmas on `Total` |
| `SettlementProofs`, `SessionProofs` | - | the theorems on `Settlement`; on `Session` and `SessionCommand` |
| `InputProofs` | - | what comes into the venue: the theorems on `OrderBook` and `Replay`; on `Partition`, `Simulator` and `Feed` |
| `ClearingProofs` | - | lemmas on the operators of `Auction` and `Allocation`, for any orders; the theorems on `Clearing` |
| `ExchangeProofs` | - | the theorems on `Exchange`, from those of clearing and settlement |
| `CheckerProofs` | - | lemmas on settling an execution, on `Merkle` and on `Accounting`; the theorems on `Checker` and `Audits` |
| `StatementProofs` | - | lemmas on `Circuit` and the published roots; the theorems on `Statement`, from those of the checker and of settlement |
| `MC*` | - | instances for TLC |

Correspondence that is not one to one:

- A ledger is four functions instead of nested maps. An account outside the map
  holds nothing, and `inventory_of` is zero for an erased entry, so totals over
  `Account` are totals over the map. Account ids are `1..NumAccounts`, the
  iteration order of `std::map`. A commitment salt is abstracted to whether the
  account has one (`blinded`).
- `apply_batch_transition` works on a local copy and returns it. `Settlement`
  shows that copy as `work` and steps through the loop, so what holds between
  two fills can be stated. `ledger` is what the caller holds.
- Checked sums fail at the first prefix that overflows. The summands are
  naturals, so some prefix overflows exactly when the total does
  (`CheckedTotal`).
- The sorted candidate prices become all prices: buckets of unquoted prices are
  empty, so the running sums are the same.
- Each of the two `std::sort` results of an execution is a variable (`sorted`).
  The checker sorts the same vector with the same code and gets the same result.
- In the book, executions, priced executions and cancels are one operation, as
  in the code. The history of quotes is represented by its last entry, and the
  statistics counters are left out.
- A digest is the tuple of what was hashed, with its domain prefix: SHA-256 is
  taken to be injective, and nothing else is assumed of it. What each commitment
  covers, and what it leaves out, is translated from the code.
- A frame is what the parser can tell of the bytes at the cursor: tag, length
  field, bytes left, side byte. Numeric fields are any word, chosen when the
  message is applied. The frames of a buffer are chosen as the cursor reaches
  them, up to `MaxFrames` a call.
- `Statement` keeps `prove`'s checks in their order, because the first one that
  fails names the error. `Circuit` gives every subrelation as a predicate on the
  witness. A constraint that every generated witness satisfies is left out, as is
  the indexing of variables; money enters cut down to a word. The limit of 2^32
  orders is left out.
- A `Statement` claim is altered in any way `Alterations` lists, within what the types of
  `BatchProofWitness` can hold (`IsWitness`): ledgers are maps of balances within
  their width, a batch is what `Batch::create` lets through, an oracle snapshot comes
  with its policy. `prove` sorts the claimed batch; of the batch that was executed this is
  the sort of the execution (`ProverSorts`).
- In `Audits` the deviation sizes (5 ticks, 99,999 lots...) are constants, scaled to
  the word of the instance. The manifest of a row is audited against the
  commitments of the batch that was submitted, its transition against the batch
  that was executed, as in `run_attack_matrix`. The behaviours of `Checker`, with
  its misreports, are behaviours of `Audits` too.
- `Session` is about the chain, so a ledger root is the pair of ledger and
  instrument and `Execution` stands for the engine. `verify_session` takes the end
  states it expects as an argument; the model gives it those of the published
  session.
- A draw of `DeterministicRng` is any value of its range. Salts and cutoffs of
  generated orders, which nothing here looks at, are left out.
- A stream's sort key runs through all the fields of an order; in `Partition`
  submissions have distinct ids and the id stands for the rest of the key. The
  code builds these batches with the constructor, not `Batch::create`, so nothing
  is refused here.
- Operators marked `Variant:` are faulty forms of the definition after them. No
  specification uses them. They document what each property is able to detect:
  putting one in place of the definition makes TLC report the property.

## Runs

| Run | Instance | Checks |
|---|---|---|
| `clearing` | up to 4 orders, prices {1,2,4}, quantities 1..3, word limit 8, a second order that may be malformed; 395,000 states, 2 min | the running sums are the curves and overflow with them (`CurvesAgree`); the price clears the maximum although it may be a midpoint nobody quoted (`ClearsMaximumVolume`); allocation gives exactly the volume, respects price and time and is a fair rounding (`AllocationMeetsVolume`, `PriceTimePriority`, `ProRataIsFair`); fills are sound and balance (`FillsAreSound`) |
| `settlement` | every canonical vector of at most 3 fills over 3 accounts and 2 instruments, 4 ledgers; 16,000 states | types (`SettlementTypeOK`), the loop's balance at each step (`InFlightBalance`), no account appears (`NoAccountAppears`), when the conservation checks can fire (`ConservationOnlyFailsOnWidth`), all-or-nothing commits (`CommitAppliesEveryFillOnce`), termination (`EverySettlementEnds`), and the refinement of `LedgerSpec` |
| `exchange` | 2 batches of at most 3 orders, 2 accounts, 2 instruments, 3 ledgers; 839,000 states | the session is a `Settlement` behaviour with fills the clearing really produced (`SettlesCanonicalFills`), and balances follow orders (`BalancesFollowOrders`) |
| `audits` | up to 3 orders of 2 accounts, the first two in either order of sequence, malformed orders and repeated ids, 3 ledgers; about 30 misreports of each result, 12 rows of the matrix; 195,000 states, 1 min | the batch is canonical (`BatchIsCanonical`); the checker accepts the execution and, up to what it compares, nothing else (`AcceptsTheExecution`, `AcceptsOnlyTheExecution`); the matrix's own settlement agrees with the engine's although it ignores errors (`ControlAgreesWithTheEngine`); a deviation passes the three audits only if it changed nothing (`OnlyEffectlessDeviationsPass`), and a clean report is given for exactly the batches that show every deviation up (`CleanReportNeedsASuitableBatch`) |
| `replay` | 3 references, word limit 2, up to 3 frames a call and any number of calls, whole frames of every type and 8 broken ones; 47,000 states | the indexes agree (`LevelsMatchOrders`), the snapshot is current (`SnapshotIsCurrent`), the book refines `BookSpec`, no broken frame leaves a trace and a message does what its type announces (`OnlyWholeMessagesTakeEffect`), every call returns (`EveryReplayReturns`) |
| `statement` | up to 3 orders, 3 ledgers, 5 oracles, many alterations of each claim; 285,000 states, 45 s | the prover certifies every execution but four kinds, each refused for its own reason (`ProvesTheExecution`); what is verified under the published inputs is that execution (`StatementFixesTheExecution`); a certified manifest has one truthful record for each leaf (`EveryLeafAccountedFor`); the circuit refuses nothing the plaintext checks passed, but for three named reasons (`CircuitRepeatsTheChecks`); an account proof leads from its own leaf only (`BalancesCanBeChecked`) |
| `session` | up to 3 steps over 2 ledgers and wrapping 2-bit ids, honest and misstated steps, altered sessions, from the first id and from the last; manifests of up to 3 batches with gaps, a second instrument, failing and unprovable batches; 96,000 states | folded steps are one chain (`FoldedStepsAreOneChain`), the verifier accepts the published session (`AcceptsThePublishedSession`) and no other history with the same end states (`AcceptsOnlyTheHistory`); `prove-session --verify` succeeds on exactly the manifests that are a session (`CommandProvesExactlySessions`) |
| `feed` | up to 3 submissions on an 8-tick clock, interval lengths 0..3, 3 starts, with and without a limit; both simulators at low, middle and high mids, spreads up to one that makes the generator trap; word limit 9; 110,000 states | every order is in the batch of its interval and ids are skipped for quiet intervals only (`PlacedInTheirInterval`), once each (`NothingLeftOut`); batches of every source have the shape, ids and accounts the prover asks for, and prices and quantities above zero where the configuration promises them (`BundlesMeetTheProver`); synthetic prices stay within the spread (`PricesStayNearTheMid`) |
| `sort_key`, `ledger_entry`, `rejected_clock`, `history_binding` | as above | disagreements between documents and code, below |

**Why the bounds suffice.** The word limits are small enough that the sums of
three or four orders cross them, so overflow paths are taken in every run. Four
orders at gapped prices give two orders on each side of the money, at the money
on one side and a surplus of more than one lot. Two orders of either sequence order
and a third with a colliding sequence number reach every branch of the canonical
comparator. Three fills include a failure after one and after two that settled. The
ledgers include a missing account, an unblinded one, empty balances, and totals
beyond their width while each account is within it. In `audits` each deviation has
an effect in some batches and none in others. Three references allow
a bid against asks at two prices, a replace between two levels with a bystander on
either, and the reuse of a reference; two lots on a level leave no room for a third.
Three frames put a broken frame after good ones, and
the engine goes on with the next call. Three leaves are the fewest that leave one
unpaired in a layer; the ledgers of `statement` hold cash on both sides of a word and
a total beyond one. A crossing batch of `session` turns one ledger into the other, so
roots recur and steps could be spliced or left out in pairs, and ids wrap within the
session. The clock of `feed` is short enough that cutoffs wrap; the properties say
what holds when they do not (`CutoffsFit`), and for prices when the mid plus the
spread fits a word (`PricesFit`), which is so in most states. A mid at the end of the word makes
takers and market makers wrap to a price of zero; `PricesPositive` names the populations that
cannot. `Prices` and `Quantities`
bound inputs, `MaxOrders` the batch, `MaxBatches` and `MaxSteps` the session, `MaxFrames`
a buffer, `MaxSubmissions` the stream, `Horizon` the sweep, `Timestamps` the clock.

**Deadlock.** `settlement` and `replay` never stop. The other runs end when the function,
the command or the session returns, and say so (`CHECK_DEADLOCK FALSE`).

**Fairness.** `FairSettlement` has `WF(Settle)` and `ReplaySpec` has `WF(ReplayLoop)`: a loop
that has been entered goes on to one of its returns. The program is
single-threaded and neither loop makes a blocking call, so a loop with an iteration
to do does it; a fill vector is finite and so is a buffer (`MaxFrames`). `Begin` and
`StartReplay` are not fair: nothing makes a batch or a buffer come.
`EverySettlementEnds` and `EveryReplayReturns` rest on this; the other properties are
safety and do not need fairness.

**Symmetry** is not used. Accounts, orders and references are numbered because the code
orders them.

## What is proved

With TLAPS, for every value of the constants (word and money widths, accounts,
instruments, arrivals, ledgers, manifests, bounds) that meets these assumptions:

- `WordWidth`, `MoneyWidth`: the limits are naturals and a product of two words fits in
  money, as 64 and 128 bits do; `IdWidth`: batch ids are words;
- `AccountRange`, `RefRange`: `NumAccounts` and `NumRefs` are naturals;
- `ArrivalTypes`, `ArrivalAccounts`, `CheckedAccounts`: the fields of an arriving order are words, and its
  account is an account id. Prices and quantities may be zero, ids may repeat;
- `OraclesOK`: an oracle has all its parts or is absent, its fields and the cutoffs are
  naturals;
- `InitialLedgersOK`, `SessionLedgersOK`, `CheckedLedgersOK`: initial ledgers are well formed
  (balances within their width, nothing held by an absent account);
- `InitialStatesOK`, `ManifestsOK`: a session's start has a word as batch id and a vector as history,
  manifests are vectors of batches with words as ids, and a word counts the steps;
- `DeviationsFit`: the audit matrix moves a price by at least a tick, and what it forges or adds
  is of the type it is added to and not nothing (5 ticks, 99,999, 10,000 and 50 in the code);
- `FillListsOK`: fills are typed; `FrameLengths`, `FramesBounded`: the lengths of frames are
  naturals, and so is the number of frames of a buffer;
- `TimeWidth`, `ClocksOK`: times are words, the horizon of a sweep is a natural;
- `SubmissionsOK`: the submissions of a stream are typed, their arrivals are words and their
  ids differ, since an id stands for the whole of an order in `Partition`;
- `FlowConfigsOK`, `PopulationConfigsOK`: the fields of a configuration have the types they have in
  the code, and its mid is a price, that is, not zero. Any of the ranges may be empty the wrong
  way round, and there may be no makers, no traders or no orders.

TLC evaluates each of them on the instances of the runs. A row of the table whose theorem has no
property next to it states something that no run checks.

| Module | Theorem | States |
|---|---|---|
| `ClearingProofs` | `CanonicalBatch` | `BatchIsCanonical`: the batch is the one listing of its orders by sequence number and id |
| | `RunningSumsAreTheCurves` | `CurvesAgree`: the running sums are the curves at every price and overflow exactly when they do |
| | `VolumeIsMaximal` | `ClearsMaximumVolume`: no price executes more than the volume, and the chosen one executes it |
| | `AllocationIsExact` | `AllocationMeetsVolume`: each side is allocated exactly the volume |
| | `PriorityIsKept` | `PriceTimePriority`: nobody is filled before a better or an earlier order |
| | `SharesAreFair` | `ProRataIsFair`: shares at the price are quotas rounded down or up, by size and then by time |
| | `FillsBalance` | `FillsAreSound`: fills are within quantity and limit, numbered in order, and balance in money |
| `SettlementProofs` | `Typing` | `SettlementTypeOK`: balances of state and copy never leave their width |
| | `Balance` | `InFlightBalance`: between two fills, the copy differs from the state by exactly the fills applied |
| | `AccountsStay` | `NoAccountAppears`: a fill that settles never creates an account or changes a salt |
| | `ChecksFireOnWidth` | `ConservationOnlyFailsOnWidth`: the final checks refuse a batch only if a total was already beyond its width |
| | `CommitsWholeBatch` | `CommitAppliesEveryFillOnce`: a change of the ledger is the net of all fills, account by account |
| | `Refinement` | `RefinesLedgerSpec`: the loop implements the abstract ledger |
| | `SettlementWindsDown` | each step of the loop lowers a natural number that is zero when no settlement is under way |
| `ExchangeProofs` | `SessionSettles` | `SettlesCanonicalFills`: a session of cleared batches is a behaviour of `Settlement` |
| | `OrdersBecomeBalances` | `BalancesFollowOrders`: a batch moves each account by what its own orders were allocated |
| | `SessionClears` | all seven clearing properties hold of every batch of a session |
| | `SessionRedistributes` | a session of cleared batches is a behaviour of `LedgerSpec` |
| | `ConservationNeverFails` | on ledgers whose totals fit in their width, the final checks refuse no batch |
| `CheckerProofs` | `OnlyTheExecution` | `AcceptsOnlyTheExecution`: whatever is proposed, only the execution is accepted |
| | `ExecutionIsAccepted` | `AcceptsTheExecution`: and it is, but for one kind of batch |
| | `ControlIsTheEngine` | `ControlAgreesWithTheEngine`: the matrix's own settlement is found out where the engine would have failed |
| | `DeviationsAreCaught` | `OnlyEffectlessDeviationsPass`: a deviation that passes the audits changed nothing |
| | `CleanReports` | `CleanReportNeedsASuitableBatch`: a clean report on exactly the batches that show every deviation up |
| `StatementProofs` | `BalancesProvable` | `BalancesCanBeChecked`: an account proof leads to the root from that account's own leaf and from no other |
| | `StatementBinds` | `StatementFixesTheExecution`: what is verified under the published inputs is the execution they were published for |
| | `LeavesAccounted` | `EveryLeafAccountedFor`: in every certified claim, each committed leaf has one record, and its disposition is the allocation |
| | `CircuitRepeats` | `CircuitRepeatsTheChecks`: after the plaintext checks the circuit refuses for two reasons only |
| | `ExecutionProven` | `ProvesTheExecution`: every execution is certified, but for four cases, each refused for its own reason |
| | `CertificatesAreSound` | a certificate is only given to a correct auction of the claimed orders that keeps accounts and totals |
| `InputProofs` | `BookTypeCorrectness` | `OrderBookTypeOK`: both indexes stay in range and no level is zero |
| | `IndexesAgree` | `LevelsMatchOrders`: the price index is the sums over the order index |
| | `SnapshotCorrectness` | `SnapshotIsCurrent`: the snapshot is the midpoint of the orders that rest |
| | `BookRefinement` | `RefinesBookSpec`: two indexes implement a book with one |
| | `WholeMessages` | `OnlyWholeMessagesTakeEffect`: only whole frames of known types reach the book |
| | `IntervalsHoldTheirOwn` | `PlacedInTheirInterval`: a batch is the orders of its interval, and an interval without a batch had none |
| | `EverySubmissionPlaced` | `NothingLeftOut`: a call without a limit, whose cutoffs fit, places every submission once |
| | `SourcesMeetTheProver` | `BundlesMeetTheProver`: preimages, positions, ids and accounts are sound whatever is generated or partitioned; prices and quantities are above zero where `PricesPositive` and `QuantitiesPositive` say so |
| | `SyntheticPricesAreNear` | `PricesStayNearTheMid`: the clamps downwards keep every synthetic price within the spread, when the upward sums fit a word |
| | `ReplayWindsDown`, `PartitionWindsDown` | each step of a replay, and of a partition, lowers a natural number that is zero when the call has returned |
| `SessionProofs` | `OneChain` | `FoldedStepsAreOneChain`: folded steps are one chain of executions |
| | `PublishedIsAccepted` | `AcceptsThePublishedSession` |
| | `OnlyTheHistory` | `AcceptsOnlyTheHistory`: for the published end states, no other batches, outcomes, order or number of steps |
| | `CommandSucceedsOnSessions` | `CommandProvesExactlySessions`: success on exactly the manifests that are a session |

**The arguments.**

*Clearing.* `ClearingIInv` says that what arrived is typed, that the batch is a canonical and
well-formed listing of it, and that a result is `ExecutionOf` that batch for some outcome
of the sorts. The properties then follow from lemmas on the operators, stated of any
batch and any execution of it (`Executes`), so that the statement's proofs can use them
of a claimed batch as well. The running sums are the curves by induction along the prices. The
curves are monotone, so every price between two maximisers is one: the midpoint,
which nobody may have quoted, clears the maximum. The greedy pass gives
out exactly the volume by induction along the sorted orders. In the largest-remainder
split the remainders add up to the total times the lots left over, so these are
fewer than the orders with a remainder, and each gets at most one lot.

*Settlement.* None of the properties is inductive alone. `SettlementIInv` adds to the types
and to `WellFormed` of both ledgers the predicate `InFlight`: while the loop runs,
the fill vector is canonical, and each account of the copy, not only the total,
holds what it held plus the net of its own fills so far. From the per-account
part and `TotalUpdate` (one summand changes, so does the total by as much)
follow the totals; from positive quantities and considerations and
well-formedness follows that a fill of an absent account fails: an account with
nothing can neither pay nor deliver. At the end of the loop a canonical vector
nets to zero, so the totals before and after are equal and the checks can only
fail on the width.

*Exchange.* `Settlement` takes canonical fill vectors as given. `SessionSettles` discharges
that: the vectors the clearing hands over are typed, of one instrument, and their cash and lots
net to zero. `ExchangeIInv` joins the two invariants and says that the vector being
settled is the result's. So the theorems of `SettlementProofs` hold of every
session. Chained with the refinement of the loop, a session implements `LedgerSpec`
(`SessionRedistributes`). The abstract ledger keeps its totals, and the conservation checks
can only fire on a total beyond its width, so on ledgers whose totals fit they never do
(`ConservationNeverFails`). The clearing properties follow from `ClearingIInv` alone, which
is a part of `ExchangeIInv` (`SessionClears`), and `OrdersBecomeBalances` adds up an account's fills over its orders.

*Checker.* `CheckerIInv` adds to `ClearingIInv` that the honest result is the engine's on
the ledger the batch started from, and that a ruling is `verify_transition`'s. Each of the
checker's steps is then shown to hold of the engine's own result, and the reconstruction to
leave nothing else.

*Audit matrix.* The harness blinds the ledger, settles without looking at errors and hands the result
to `verify_transition`. `HarnessSettles` shows that its loop is the engine's as long as the
engine's does not fail, and `HarnessAgrees` that an execution on the salted ledger is the one on the
ledger itself, salts aside; so the checker, by the theorems above, accepts the control exactly when the
engine executes. `Effectless` says of each deviation when it leaves the execution as it was. `RowIs`
is the core: a row passes exactly when the control does and its deviation is effectless.
Each deviation has a lemma: a dropped order is missing from the manifest or the batch is
empty, a spoofed leaf is no order's commitment, a moved price or allocation is not the recomputed
one, a tampered ledger differs in an entry the checker compares. The inductive invariant `RowsAre`
says that all rows so far are as `RowIs` states, and that the report is what the rows add up to.
What a clean report takes is then a matter of arithmetic (`EffectlessRows`, `SuitableIs`).

*Trees and manifests.* The layers of `merkle_root` are the paths' layers, a path
recomputes one node of each, and because a digest is the tuple of what was hashed, equal roots of
equally tagged leaves have equal leaves, by induction down the layers. A node without a
partner is paired with the empty node, which no layer holds. A manifest built for a batch
passes the accounting audit of that batch, and one that passes has a record for each leaf.

*Statement.* `StatementIInv` adds to `CheckerIInv` that the statement is the one published for the
execution, that a claim is the statement or a well-typed alteration of it, and that a
verdict is the prover's. `SoundWitness` collects what every submitted witness satisfies.
Of a witness that passed the plaintext checks, `Passed` says that the transition
checker accepted it, so that its outcome, allocation, fills and ledgers are those of an
execution of the claimed batch. Each subrelation of the circuit is then shown to hold
of it: the clearing relations by the theorems on `Executes`, conservation by the
settlement lemmas (instantiated from `SettlementProofs`), dispositions by the
accounting audit. What is left is the sequence gadget and money cut to a word, and
those are the reasons `CircuitRepeats` names. `ExecutionProven` shows in turn
that a published statement passes. The property states the oracle policy in its own words
(`PolicyAllows`), and `OracleIsThePolicy` shows that the circuit's subrelation is that policy and
is consulted for no other batch than one that crossed. `CertificatesAreSound` reads `Passed` the other way, for any
claim: volume, price, allocation and ledgers of what is certified have the properties of an
execution, spelt out in `SoundClaim` without reference to the engine.

*Book and replay.* `ReplayIInv` says that the two indexes are consistent after every message, that
the recorded quote is the quote of the orders, and what the frame loop has already
checked of the frame under the cursor. That a replace keeps the indexes consistent
is shown through the book between its delete and its add. `ReplayWindsDown` needs that the
cursor stays in the buffer (`CursorInBuffer`).

*Partition.* `PartitionIInv` says where the bundles lie in the sorted stream: there are cuts
that rise from nothing to what has been placed, bundle `b` holds exactly what lies between cut
`b - 1` and cut `b`, and everything there arrived in the interval of the bundle's id; what is not
placed yet arrived at the last cutoff or later. The loop's own guard compares with a wrapped
cutoff; `CutoffsAre` shows that none wraps when the one after the last arrival fits
(`CutoffsFit`) and that all arrivals lie before that one. Intervals are disjoint
because multiples of the length rise, and a returned call without a limit has therefore
gone past every arrival.

*Simulator.* `SimulatorIInv` follows the ids: those of the batch under way are the last ones
handed out, in order, and those of the session are smaller. An independent order is
numbered by its position when it is drawn, a population's when its batch is closed. A list numbered by
position has one sorted form, itself (`BatchAsIs`), so the constructor's sort and the
preimages agree. `Synthetic` is what every order of a configuration satisfies (account,
price, quantity, distance from the mid); with a configuration of traders the invariant also says
that a taker is drawn only where there are some. `JoinedAppend` adds one batch to the
orders of the session.

*Session.* `SessionIInv` says the start, the record of folded steps and the published session
are typed and one chain (`FoldedStepsAreOneChain`). That two accepted sessions with the same end have the
same history follows by induction from the end along the rolling hash. `CommandIInv` relates the
command's steps so far to the prefix of the manifest they came from.

**Recursive definitions.** The proof system's induction theorems take an operator as a parameter,
which the provers cannot instantiate. `SetInduction` in `TotalTheorems` states induction for a
set of naturals instead, and carries the running sums, totals, the settlement fold, the
rolling history and the ledgers along a manifest. That a recursive function exists at all is
shown by extending it a step at a time.

**Only model-checked.** `EverySettlementEnds` and `EveryReplayReturns`, since the proof system
does not cover liveness. What remains of them beside fairness is proved: the loops have a
variant (`SettlementWindsDown`, `ReplayWindsDown`), so a call that keeps being stepped
returns. Every other property of a passing run is a theorem. The four runs
that expect a violation state what a document says and the code does not do.

## Disagreements between documents and code

- `sort_key`: ARCHITECTURE.md says sort keys are total orders. The in-the-money
  comparator looks at price and sequence number only, and `Batch::create` does
  not require sequence numbers to differ, so two such orders are left in an
  order the standard does not fix, which decides who is filled.
- `ledger_entry`: ADR-007 says the verifier compares every ledger entry. It compares
  cash and the inventory of the batch's instrument, so a proposal that differs
  in another instrument or a salt is accepted. `AcceptsOnlyTheExecution` states what
  does hold.
- `history_binding`: ADR-014 says the running digest detects mutation of the step
  sequence, and TECHNICAL_WALKTHROUGH.md:108 puts each ledger hash into it. The code
  hashes header, price and volume. A step's oracle hash is compared with nothing
  and an inner ledger root only with its neighbour's, so a session altered there
  is accepted. `AcceptsOnlyTheHistory` states what does hold.
- `rejected_clock`: ADR-015 says the book rejects invalid messages before mutating
  state. `apply_message` sets the book's clock first, so a refused message moves the
  timestamp of the next reference snapshot. Orders, levels and quotes stay as they
  were (`RefinesBookSpec`, `SnapshotIsCurrent`).

Smaller ones, stated by the model but without a run of their own:

- TECHNICAL_WALKTHROUGH.md:102 gives ascending order id as the tie-breaker of equal
  remainders. The code compares sequence numbers first, and `ProRataIsFair` says so.
- THREAT_MODEL.md:92 says an expired or future snapshot is rejected before batch
  execution. The policy is consulted when a batch has a clearing price
  (`OracleAdmitted`); an uncrossed batch is certified with a stale snapshot.
- A comment in `prover.cpp` (93-95) says the circuit never introduces market semantics
  of its own. The sequence gadget does: it wants sequence numbers to be positions,
  which no plaintext check asks. `CircuitRepeatsTheChecks` names this and the two other
  places where the circuit decides something.
- The positivity gadget of `order_validity` is satisfied by a zero price or quantity,
  whatever its comment says. Batches made by `Batch::create` hold none.

Other facts the models make visible, which no document denies:

- `verify_complete_input_accounting` looks leaves up by index and orders by id, and
  alone accepts records whose order ids (with their dispositions) are exchanged.
  The prover's own binding check is what refuses them: the variant `RecordsCounted`
  drops it and `EveryLeafAccountedFor` fails. The manifest's totals other than
  `total_committed` are checked by nobody.
- The engine executes batches whose sequence numbers are not 0, 1, 2..., and the
  prover then refuses them; money beyond 64 bits may be executed and not be
  provable. `ProvesTheExecution` names both.
- `partition_stream` gives quiet intervals an id and no batch, while `fold_step` wants
  consecutive ids: a stream with a quiet interval cannot be folded as it stands, and
  `prove-session` refuses it only after every batch has been executed. Near the end of
  the clock a cutoff wraps and the orders after it are dropped. The loop's counter does not
  wrap: `batches.reserve(num_batches)` throws on far fewer intervals.
- On a ledger with more of the batch's instrument than a total can hold, an uncrossed
  batch executes (it touches no instrument) and the checker then refuses its result
  (`AcceptsTheExecution`).
- The audit matrix reports a breach on a batch that does not show some deviation up: an
  account that trades with itself, a first order that is filled for one lot, a clearing
  price of one tick. No audit has failed then (`CleanReportNeedsASuitableBatch`).
- The agents do not clamp upwards (`agent.cpp`, 11 and 35): an ask or a taker's buy order
  above the largest price wraps, just above it to zero. The batch is made by the
  constructor for "trusted, already-validated orders" (`batch.hpp`, 15), which
  nobody validated; `Batch::create` would refuse it. A configured quantity of zero goes through as well.
- The sweep executes flows of ten accounts on a ledger funded for two and skips the
  batches that fail without a word (`bench/simulator_benchmarks.cpp`, 75-85), so its
  totals are of the batches that happened to settle.
- `derive_preimages` counts its nonces in one byte, which wraps. `gen_range` over the whole
  64-bit range divides by zero; a spread that wide makes the flow generator trap.

## Not modelled

- SHA-256 rounds and byte encodings: out of reach of both tools at any useful size. What
  each commitment covers is modelled.
- The indexing of R1CS variables and the constraints that hold for every generated
  witness.
- The bit mixing of `DeterministicRng`: its draws are nondeterministic choices.
- `simulator/metrics.cpp`, which no program calls, and `parse_stream`, which only tests
  call and which is the parser's loop without the book.
- The deviations of `mutator.cpp` that the matrix does not use: an injected order and a
  replayed header.
- Argument handling, JSON, printing, and the timing and totals of the benchmarks: I/O.

## Plan

The modelling is complete up to the list above, and every safety property of a passing run is
proved. What is left is upkeep: a change of the code changes the definitions its lines are
mapped to, the runs show what becomes of the properties, and the step lemmas that no
longer hold are the places to look. Beyond it, `Exchange` could be composed with the
sources of `Feed`, so that `SourcesMeetTheProver` and `SessionSettles` speak of one behaviour.
