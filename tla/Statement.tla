----------------------------- MODULE Statement -----------------------------
(***************************************************************************)
(* The single-batch statement (proof/prover.cpp).  A batch is executed,    *)
(* its orders are committed and accounted for, and six public inputs are   *)
(* published: two ledger roots, the header hash, the oracle hash, price    *)
(* and volume.  SingleBatchProver::prove is then given public inputs and a *)
(* witness, those or altered ones, and certifies them or says why not; a   *)
(* verifier holds a certificate against the published inputs.              *)
(*                                                                         *)
(* The batch, the engine and verify_transition are those of Checker, whose *)
(* own rulings are not used here; the constraint system is Circuit.        *)
(***************************************************************************)
EXTENDS Checker, Circuit

CONSTANTS
  Oracles,          \* snapshots with their policies, and NoOracle
  Cutoffs,          \* batch cutoffs
  Alterations(_)    \* the claims that may be submitted in a claim's place

VARIABLES
  statement,   \* the claim assembled from the execution
  claim,       \* the claim handed to the prover
  verdict,     \* "none", "ok", or the reason it refuses
  verified     \* "none", or what the verifier says of the certificate

statementVars == <<checkerVars, statement, claim, verdict, verified>>

NoOracle == [present |-> FALSE]

\* OracleSnapshot with its OraclePolicy, unsigned numbers all, or the absence
\* of both.
IsOracle(oracle) ==
  \/ oracle = NoOracle
  \/ /\ oracle = [present |-> TRUE, snapshot |-> oracle.snapshot,
                  policy |-> oracle.policy]
     /\ oracle.snapshot.price \in Nat /\ oracle.snapshot.timestamp \in Nat
     /\ oracle.policy.max_staleness \in Nat /\ oracle.policy.max_deviation \in Nat

ASSUME OraclesOK ==
  (\A oracle \in Oracles : IsOracle(oracle)) /\ Cutoffs \subseteq Nat

----------------------------------------------------------------------------
(***************************************************************************)
(* What is published.                                                      *)
(***************************************************************************)
\* The accounts in the map, by ascending id.
ListedAccounts(l) ==
  CHOOSE ids \in [1..Cardinality(l.accounts) -> l.accounts] :
    \A j, k \in 1..Cardinality(l.accounts) : j < k => ids[j] < ids[k]

\* canonical_encode_account, committed.  An account's salt is a function of its
\* id (derive_account_salt), so the leaf records whether it has one.
AccountLeaf(l, instrument, a) ==
  CommitRaw(<<"account", a, l.cash[a], instrument, l.inv[instrument][a],
              a \in l.blinded>>)

LedgerLeaves(l, instrument) ==
  LET ids == ListedAccounts(l)
  IN  [k \in 1..Len(ids) |-> AccountLeaf(l, instrument, ids[k])]

\* compute_ledger_root.
LedgerRoot(l, instrument) == MerkleRoot(LedgerLeaves(l, instrument))

\* Variant: the leaf is looked up by the account's id.
AccountProofById(l, instrument, a) ==
  [leaf |-> AccountLeaf(l, instrument, a),
   path |-> GenerateProof(LedgerLeaves(l, instrument),
                          Smaller(a, Len(LedgerLeaves(l, instrument))) - 1)]

\* ledger_account_proof: the leaf of an account in the map, and its path from
\* the account's position among the listed ones.
LedgerAccountProof(l, instrument, a) ==
  LET ids == ListedAccounts(l)
      position == CHOOSE k \in 1..Len(ids) : ids[k] = a
  IN  [leaf |-> LedgerLeaves(l, instrument)[position],
       path |-> GenerateProof(LedgerLeaves(l, instrument), position - 1)]

\* compute_batch_commitment of a version-1 header.
HeaderHash(batch_id, instrument, cutoff, leaves) ==
  CommitRaw(<<"header", batch_id, instrument, cutoff, Len(leaves),
              MerkleRoot(leaves)>>)

\* Variant: the policy is not part of the commitment.
OracleHashOfSnapshot(oracle) ==
  CommitRaw(IF oracle.present THEN <<"oracle", oracle.snapshot>> ELSE <<"absent">>)

\* compute_oracle_snapshot_commitment: the snapshot with its policy, or the
\* marker of absence.
OracleHash(oracle) ==
  CommitRaw(IF oracle.present THEN <<"oracle", oracle.snapshot, oracle.policy>>
                              ELSE <<"absent">>)

\* The caller's part of a proof: preimages, manifest, header, public inputs.
StatementOf(before, executed, oracle, cutoff) ==
  LET preimages == [i \in 1..Len(batch) |-> [order |-> batch[i], nonce |-> i]]
      w == [pre |-> before, post |-> executed.post, batch_id |-> 1,
            instrument |-> inst, orders |-> batch, preimages |-> preimages,
            alloc |-> executed.alloc, fills |-> executed.fills,
            oracle |-> oracle, cutoff |-> cutoff,
            accounting |-> BuildAccounting(preimages, executed.alloc)]
  IN  [made |-> TRUE, witness |-> w,
       inputs |-> [pre    |-> LedgerRoot(before, inst),
                   post   |-> LedgerRoot(executed.post, inst),
                   header |-> HeaderHash(1, inst, cutoff, LeavesOf(preimages)),
                   oracle |-> OracleHash(oracle),
                   price  |-> executed.outcome.clearing_price,
                   volume |-> executed.outcome.executable_volume]]

\* BatchProofWitness: whoever fills one in, a ledger is a map, vectors are
\* vectors, numbers are unsigned, a preimage is an order with a nonce, an
\* oracle is there with all its parts or absent, and a Batch holds what
\* Batch::create lets through.
IsWitness(w) ==
  /\ WellFormed(w.pre) /\ WellFormed(w.post)
  /\ w.instrument \in Instruments /\ w.cutoff \in Nat /\ IsOracle(w.oracle)
  /\ w.orders \in Seq(Range(w.orders))
  /\ \A i \in 1..Len(w.orders) :
       /\ w.orders[i].id \in Nat /\ w.orders[i].seq \in Nat
       /\ w.orders[i].price \in Qty /\ w.orders[i].qty \in Qty
       /\ w.orders[i].account \in Account
  /\ BatchError(w.orders, w.instrument) = "ok"
  /\ w.preimages \in Seq({[order |-> p.order, nonce |-> p.nonce] : p \in Range(w.preimages)})
  /\ {"records", "total_committed"} \subseteq DOMAIN w.accounting
  /\ \A k \in 1..Len(w.accounting.records) :
       w.accounting.records[k].leaf_index \in Nat

----------------------------------------------------------------------------
(***************************************************************************)
(* SingleBatchProver::prove.                                               *)
(***************************************************************************)
PreimagesBound(w) ==
  /\ Len(w.preimages) = Len(w.orders)
  /\ \A i \in 1..Len(w.orders) : w.preimages[i].order = w.orders[i]

\* Variant: the records are counted and their commitments compared.
RecordsCounted(w) ==
  LET records == w.accounting.records
  IN  /\ Len(records) = Len(w.orders)
      /\ \A j, k \in 1..Len(records) :
           j # k => records[j].leaf_index # records[k].leaf_index
      /\ \A k \in 1..Len(records) :
           /\ records[k].leaf_index < Len(w.orders)
           /\ records[k].commitment = CommitOrder(w.preimages[records[k].leaf_index + 1])

\* The records, in whatever order, are one for each leaf, and name its order
\* and its commitment.
RecordsBound(w) ==
  LET records == w.accounting.records
  IN  /\ Len(records) = Len(w.orders)
      /\ \A j, k \in 1..Len(records) :
           j # k => records[j].leaf_index # records[k].leaf_index
      /\ \A k \in 1..Len(records) :
           LET leaf == records[k].leaf_index + 1
           IN  /\ leaf <= Len(w.orders)
               /\ records[k].order_id = w.orders[leaf].id
               /\ records[k].commitment = CommitOrder(w.preimages[leaf])

\* What allocate_batch's sorts may return to verify_transition and to the
\* synthesizer: on the batch that was executed, what they returned then.
ProverSorts(orders) ==
  IF orders = batch THEN {sorted}
  ELSE SortOutcomes(orders, DetermineClearingOutcome(orders))

\* The first check that fails, in the order of the code.
Refusal(inputs, w, sorts) ==
  LET leaves == LeavesOf(w.preimages)
      proposed == [outcome |-> Outcome(TRUE, inputs.price, inputs.volume),
                   alloc |-> w.alloc, fills |-> w.fills, post |-> w.post]
      synthesis == SynthesisError(w, inputs.price, inputs.volume, sorts)
  IN  IF ~PreimagesBound(w) THEN "InputBindingFailed"
      ELSE IF inputs.header # HeaderHash(w.batch_id, w.instrument, w.cutoff, leaves)
      THEN "PublicInputMismatch"
      ELSE IF ~RecordsBound(w) THEN "InputBindingFailed"
      ELSE IF ~VerifyTransition(w.pre, w.orders, w.instrument, sorts, proposed)
      THEN "StateTransitionInvariantFailed"
      ELSE IF ~VerifyAccounting(w.orders, leaves, w.accounting, w.alloc)
      THEN "CompleteInputAccountingFailed"
      ELSE IF \/ inputs.pre # LedgerRoot(w.pre, w.instrument)
              \/ inputs.post # LedgerRoot(w.post, w.instrument)
              \/ inputs.oracle # OracleHash(w.oracle)
      THEN "PublicInputMismatch"
      ELSE IF synthesis # "ok" THEN synthesis
      ELSE IF ~Satisfied(w, inputs.price, inputs.volume) THEN "R1CSUnsatisfied"
      ELSE "ok"

----------------------------------------------------------------------------
StatementInit ==
  /\ CheckerInit
  /\ statement = None
  /\ claim = None
  /\ verdict = "none"
  /\ verified = "none"

\* execute_batch, on its way to a result.
Execute ==
  /\ ClearBatch \/ FinishExecution
  /\ UNCHANGED <<statement, claim, verdict, verified>>

Assemble ==
  /\ honest.made
  /\ statement = None
  /\ \E oracle \in Oracles, cutoff \in Cutoffs :
       statement' = StatementOf(pre, honest, oracle, cutoff)
  /\ UNCHANGED <<checkerVars, claim, verdict, verified>>

Submit ==
  /\ statement.made
  /\ claim = None
  /\ claim' \in {statement} \cup {c \in Alterations(statement) : IsWitness(c.witness)}
  /\ UNCHANGED <<checkerVars, statement, verdict, verified>>

Prove ==
  /\ claim.made
  /\ verdict = "none"
  /\ \E sorts \in ProverSorts(claim.witness.orders) :
       verdict' = Refusal(claim.inputs, claim.witness, sorts)
  /\ UNCHANGED <<checkerVars, statement, claim, verified>>

\* SingleBatchVerifier::verify, with the published inputs: the certificate that
\* prove wrote is in order, and carries the inputs it was made for.
Verify ==
  /\ verdict = "ok"
  /\ verified = "none"
  /\ verified' = IF claim.inputs = statement.inputs THEN "ok"
                                                  ELSE "PublicInputMismatch"
  /\ UNCHANGED <<checkerVars, statement, claim, verdict>>

StatementNext == Execute \/ Assemble \/ Submit \/ Prove \/ Verify

StatementSpec == StatementInit /\ [][StatementNext]_statementVars

----------------------------------------------------------------------------
(***************************************************************************)
(* Properties                                                              *)
(***************************************************************************)
\* Money of the ledgers or of a fill that a word does not hold.
BeyondAWord(w) ==
  \/ \E a \in Account : w.pre.cash[a] > MaxRaw \/ w.post.cash[a] > MaxRaw
  \/ \E k \in 1..Len(w.fills) : w.fills[k].consideration > MaxRaw

\* What the oracle policy says, of a batch that crossed and no other: the
\* snapshot is of the batch's instrument, neither from after the cutoff nor too
\* old, and the price is within the collar on either side of it.
PolicyAllows(w, price) ==
  \/ price = NoPrice
  \/ ~w.oracle.present
  \/ LET snapshot == w.oracle.snapshot
         policy == w.oracle.policy
     IN  /\ snapshot.instrument = w.instrument
         /\ w.cutoff \in snapshot.timestamp..(snapshot.timestamp + policy.max_staleness)
         /\ price <= snapshot.price + policy.max_deviation
         /\ snapshot.price <= price + policy.max_deviation

\* prove certifies every execution of the engine but these: those whose
\* instrument has more in circulation than a total holds, those the oracle
\* policy speaks against, batches whose sequence numbers are not the positions
\* 0, 1, 2..., and those with money beyond a word.  Each is refused for its own
\* reason, and the first three always are.
ProvesTheExecution ==
  verdict # "none" /\ claim = statement =>
    LET w == claim.witness
        price == claim.inputs.price
    IN  verdict \in IF InvSum(w.pre, inst) > MaxRaw
                    THEN {"StateTransitionInvariantFailed"}
                    ELSE IF ~PolicyAllows(w, price) THEN {"oracle_policy"}
                    ELSE IF \E i \in 1..Len(batch) : batch[i].seq # i - 1
                    THEN {"R1CSUnsatisfied"}
                    ELSE IF BeyondAWord(w) THEN {"ok", "R1CSUnsatisfied"}
                    ELSE {"ok"}

\* A certificate the verifier accepts is of the published execution: orders,
\* nonces, cutoff, allocation, fills, the oracle with its policy, and in both
\* ledgers the accounts, their cash, their salts and their inventory of the
\* batch's instrument.
StatementFixesTheExecution ==
  verified = "ok" =>
    LET w == claim.witness
        s == statement.witness
        same(l, m) == /\ l.accounts = m.accounts
                      /\ \A a \in l.accounts :
                           /\ l.cash[a] = m.cash[a]
                           /\ l.inv[inst][a] = m.inv[inst][a]
                           /\ a \in l.blinded <=> a \in m.blinded
    IN  /\ w.preimages = s.preimages
        /\ w.cutoff = s.cutoff
        /\ w.alloc = s.alloc
        /\ w.fills = s.fills
        /\ w.oracle = s.oracle
        /\ same(w.pre, s.pre)
        /\ same(w.post, s.post)

\* Whatever the inputs, a certified manifest accounts for each committed leaf
\* in exactly one record, which names the leaf's order and its commitment and
\* gives it the disposition its allocation implies.
EveryLeafAccountedFor ==
  verdict = "ok" =>
    LET w == claim.witness
        records == w.accounting.records
    IN  \A i \in 1..Len(w.preimages) :
          LET mine == {k \in 1..Len(records) : records[k].leaf_index = i - 1}
              qty == w.preimages[i].order.qty
          IN  /\ Cardinality(mine) = 1
              /\ \A k \in mine :
                   /\ records[k].order_id = w.preimages[i].order.id
                   /\ records[k].commitment = CommitOrder(w.preimages[i])
                   /\ records[k].disposition.fill_qty = w.alloc[i]
                   /\ records[k].disposition.kind =
                        IF w.alloc[i] = qty THEN "FullyExecuted"
                        ELSE IF w.alloc[i] = 0 THEN "Unfilled"
                        ELSE "PartiallyExecuted"

\* Nothing that passes the plaintext checks is refused by the circuit, except
\* by the oracle policy, by the sequence gadget, and for money beyond a word:
\* the subrelations repeat the engine's rules, and prove something else only in
\* those three places.
CircuitRepeatsTheChecks ==
  verdict \notin {"none", "InputBindingFailed", "PublicInputMismatch",
                  "StateTransitionInvariantFailed", "CompleteInputAccountingFailed"} =>
    LET w == claim.witness
    IN  \/ verdict \in {"ok", "oracle_policy"}
        \/ /\ verdict = "R1CSUnsatisfied"
           /\ \/ \E i \in 1..Len(w.orders) : w.orders[i].seq # i - 1
              \/ BeyondAWord(w)

\* A participant can check its balance: the proof of each account of the
\* published ledgers leads from its own leaf to the published root, and from no
\* other account's.
BalancesCanBeChecked ==
  statement.made =>
    \A l \in {statement.witness.pre, statement.witness.post} :
      \A a \in l.accounts :
        LET proof == LedgerAccountProof(l, inst, a)
        IN  /\ proof.leaf = AccountLeaf(l, inst, a)
            /\ \A b \in l.accounts :
                 VerifyProof(proof.path, LedgerRoot(l, inst), AccountLeaf(l, inst, b))
                   <=> b = a
=============================================================================
