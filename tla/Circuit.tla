------------------------------ MODULE Circuit ------------------------------
(***************************************************************************)
(* The constraint system of a single-batch statement (proof/constraints,   *)
(* proof/r1cs.hpp).  Each subrelation first repeats some plaintext checks, *)
(* and is not synthesized if one fails; then it emits constraints over     *)
(* 64-bit scalars, which must all hold.                                    *)
(*                                                                         *)
(* A constraint that holds for every witness the code generates is left    *)
(* out: the side bit, the product of demand and supply with itself, the    *)
(* copies of public values, and the positivity gadget, which a price or    *)
(* quantity of zero satisfies as well.                                     *)
(***************************************************************************)
EXTENDS Allocation, Accounting, Ledgers, Oracle

\* A word subtracted from another, as the scalar of a slack variable: the
\* constraint that uses it holds only if nothing was cut off.
SlackHolds(larger, smaller) == larger - smaller = SaturatingSub(larger, smaller)

\* static_cast<uint64_t> of an amount of money.
Word(money) == money % (MaxRaw + 1)

\* synthesize_order_validity_constraints: the instrument, and the sequence
\* gadget, which compares a sequence number with the position.
OrderValidity(w) ==
  \A i \in 1..Len(w.orders) :
    w.orders[i].instrument = w.instrument /\ w.orders[i].seq = i - 1

\* Variant: an order that got nothing counts as partially executed.
PartialAtZero(allocated, qty) ==
  IF allocated = qty
  THEN [kind |-> "FullyExecuted", fill_qty |-> allocated, unfilled_qty |-> 0]
  ELSE [kind |-> "PartiallyExecuted", fill_qty |-> allocated,
        unfilled_qty |-> SaturatingSub(qty, allocated)]

\* The disposition as the constraint synthesizer derives it: zero comes first.
CircuitDisposition(allocated, qty) ==
  IF allocated = 0
  THEN [kind |-> "Unfilled", fill_qty |-> 0, unfilled_qty |-> 0]
  ELSE IF allocated = qty
  THEN [kind |-> "FullyExecuted", fill_qty |-> allocated, unfilled_qty |-> 0]
  ELSE [kind |-> "PartiallyExecuted", fill_qty |-> allocated,
        unfilled_qty |-> SaturatingSub(qty, allocated)]

\* canonical_records: the records by ascending leaf index.
CanonicalRecords(w) ==
  [i \in 1..Len(w.orders) |->
     LET records == w.accounting.records
     IN  records[CHOOSE k \in 1..Len(records) : records[k].leaf_index = i - 1]]

\* synthesize_merkle_inclusion_constraint_with_root_var, for the path of leaf i.
LeafIncluded(leaves, i) ==
  VerifyProof(GenerateProof(leaves, i - 1), MerkleRoot(leaves), leaves[i])

\* synthesize_complete_input_accounting_constraints, with the inclusion of each
\* preimage's leaf.
AccountingSynthesizes(w) ==
  LET leaves == LeavesOf(w.preimages)
      records == CanonicalRecords(w)
      manifest == [w.accounting EXCEPT !.records = records]
  IN  /\ VerifyAccounting(w.orders, leaves, manifest, w.alloc)
      /\ \A i \in 1..Len(records) :
           /\ LeafIncluded(leaves, i)
           /\ \E j \in 1..Len(w.orders) :
                /\ w.orders[j].id = records[i].order_id
                /\ records[i].disposition =
                     CircuitDisposition(w.alloc[j], w.orders[j].qty)

\* synthesize_clearing_optimality_constraints: the claimed outcome is the
\* auction's, and no candidate price clears more.
OutcomeSynthesizes(w, price, volume) ==
  DetermineClearingOutcome(w.orders) = Outcome(TRUE, price, volume)

Optimality(w, volume) ==
  \A p \in CandidatePrices(w.orders) :
    SlackHolds(volume, Smaller(DemandFromOrders(w.orders, p),
                               SupplyFromOrders(w.orders, p)))

\* synthesize_allocation_constraints, for a batch that crossed.
AllocationSynthesizes(w, price, volume, sorts) ==
  price # NoPrice =>
    w.alloc = AllocateBatch(w.orders, Outcome(TRUE, price, volume), sorts)

AllocationBounds(w, price, volume) ==
  price # NoPrice =>
    /\ \A i \in 1..Len(w.orders) :
         IF ClassifyOrder(w.orders[i], price) = "OutOfTheMoney" THEN w.alloc[i] = 0
         ELSE SlackHolds(w.orders[i].qty, w.alloc[i])
    /\ \A side \in Sides : AllocatedTo(w.orders, w.alloc, side) = volume

\* The order a fill refers to: the first with its id.
OrderOf(w, fill) ==
  w.orders[CHOOSE i \in 1..Len(w.orders) :
             /\ w.orders[i].id = fill.order_id
             /\ \A j \in 1..(i - 1) : w.orders[j].id # fill.order_id]

\* synthesize_fill_bounds_constraints, for a batch that crossed.
FillsSynthesize(w, price) ==
  price # NoPrice =>
    \A k \in 1..Len(w.fills) :
      /\ \E i \in 1..Len(w.orders) : w.orders[i].id = w.fills[k].order_id
      /\ LET o == OrderOf(w, w.fills[k])
         IN  /\ w.fills[k].fill_qty <= o.qty
             /\ w.fills[k].fill_qty > 0 =>
                  IF o.side = "Buy" THEN price <= o.price ELSE price >= o.price

FillBounds(w, price) ==
  price # NoPrice =>
    \A k \in 1..Len(w.fills) :
      LET o == OrderOf(w, w.fills[k])
      IN  /\ price * w.fills[k].fill_qty = Word(w.fills[k].consideration)
          /\ IF o.side = "Buy" THEN SlackHolds(o.price, price)
                               ELSE SlackHolds(price, o.price)

\* synthesize_conservation_constraints over the accounts of the pre-state: each
\* account's cash and inventory move by its fills, and the totals agree.
Conservation(w) ==
  LET sum(amount(_)) == Total([k \in 1..Len(w.fills) |-> amount(w.fills[k])],
                              Len(w.fills))
      cash(a, f) == IF f.account # a THEN 0 ELSE IF f.side = "Buy"
                    THEN -Word(f.consideration) ELSE Word(f.consideration)
      lots(a, f) == IF f.account # a THEN 0 ELSE QtyEffect(f)
      total(l, held(_, _)) == Total([a \in Account |-> IF a \in w.pre.accounts
                                                       THEN held(l, a) ELSE 0],
                                    NumAccounts)
      cashOf(l, a) == Word(l.cash[a])
      lotsOf(l, a) == l.inv[w.instrument][a]
  IN  /\ \A a \in w.pre.accounts :
           /\ cashOf(w.post, a) = cashOf(w.pre, a) + sum(LAMBDA f : cash(a, f))
           /\ lotsOf(w.post, a) = lotsOf(w.pre, a) + sum(LAMBDA f : lots(a, f))
      /\ total(w.pre, cashOf) = total(w.post, cashOf)
      /\ total(w.pre, lotsOf) = total(w.post, lotsOf)

\* Variant: the policy is consulted whether the batch crossed or not.
OracleAlwaysConsulted(w, price) == w.oracle.present

\* The oracle subrelation, and the test around the call: the policy is
\* consulted only when there is a clearing price.
OracleConsulted(w, price) == w.oracle.present /\ price # NoPrice

\* synthesize_oracle_freshness_constraints: the policy, and its slacks.
OracleAdmitted(w, price) ==
  OracleConsulted(w, price) => ValidReference(w.oracle, w.instrument, w.cutoff, price)

OracleSlacks(w, price) ==
  OracleConsulted(w, price) =>
    LET reference == w.oracle.snapshot.price
        age == SaturatingSub(w.cutoff, w.oracle.snapshot.timestamp)
        apart == IF price > reference THEN price - reference ELSE reference - price
    IN  /\ SlackHolds(w.cutoff, w.oracle.snapshot.timestamp)
        /\ SlackHolds(w.oracle.policy.max_staleness, age)
        /\ SlackHolds(w.oracle.policy.max_deviation, apart)

(***************************************************************************)
(* The subrelations in the order prove composes them: which one is not     *)
(* synthesized, and whether the constraints hold.                          *)
(***************************************************************************)
SynthesisError(w, price, volume, sorts) ==
  IF ~AccountingSynthesizes(w) THEN "accounting"
  ELSE IF ~OutcomeSynthesizes(w, price, volume) THEN "clearing_optimality"
  ELSE IF ~AllocationSynthesizes(w, price, volume, sorts) THEN "allocation"
  ELSE IF ~FillsSynthesize(w, price) THEN "fill_bounds"
  ELSE IF ~OracleAdmitted(w, price) THEN "oracle_policy"
  ELSE "ok"

\* ConstraintSystem::is_satisfied.
Satisfied(w, price, volume) ==
  /\ OrderValidity(w)
  /\ Optimality(w, volume)
  /\ AllocationBounds(w, price, volume)
  /\ FillBounds(w, price)
  /\ Conservation(w)
  /\ OracleSlacks(w, price)
=============================================================================
