------------------------------ MODULE Session ------------------------------
(***************************************************************************)
(* The running-state accumulator (proof/recursive): prove_session folds    *)
(* one batch statement after another into a running state and publishes    *)
(* the step proofs with the first and the last state; verify_session       *)
(* replays the published steps against the two states it expects.          *)
(*                                                                         *)
(* Hashes are symbolic: a digest is the tuple of what was hashed, and the  *)
(* digest of a chain of hashes the sequence of its links, so different     *)
(* inputs have different digests.  A ledger root is the pair of its ledger *)
(* and the instrument it is taken for, and what a batch does to a ledger   *)
(* is the constant Execution: whether the engine executes it, what comes   *)
(* out, and whether the prover takes the result.                           *)
(***************************************************************************)
EXTENDS Integers, Sequences

CONSTANTS
  MaxId,             \* BatchId is a word: 2^64 - 1 in the code
  InitialStates,     \* the running states a session may start from
  Steps,             \* the steps a caller may hand to prove_session
  MaxSteps,          \* bound: steps in a session
  Execution(_, _),   \* outcome of a batch's orders on a ledger
  Alterations(_)     \* what may reach the verifier in a session's place

\* A std::vector, or a digest as the sequence of its links.
IsVector(s) == s \in Seq({s[i] : i \in DOMAIN s})

ASSUME IdWidth == MaxId \in Nat

ASSUME InitialStatesOK ==
  \A s \in InitialStates : s.batch_id \in 0..MaxId /\ IsVector(s.history)

VARIABLES
  stage,       \* "building", "failed", "folding", "refused", "published",
               \* "delivered", "accepted" or "rejected"
  initial,     \* initial_state
  state,       \* current_state
  proofs,      \* step_proofs
  published,   \* the SessionProof that prove_session returned
  received     \* the one verify_session is given

sessionVars == <<stage, initial, state, proofs, published, received>>

NoSession == [made |-> FALSE]

----------------------------------------------------------------------------
\* Commitment::zero, where a history starts.
Zero == << >>

Genesis(root, instrument) ==
  [ledger_root |-> root, history |-> Zero, batch_id |-> 0, timestamp |-> 0,
   instrument |-> instrument]

\* compute_ledger_root.
RootOf(ledger, instrument) == <<ledger, instrument>>

\* compute_batch_commitment: the header names the batch and its orders.
HeaderHash(b) == <<b.id, b.instrument, b.cutoff, b.orders>>

\* Variant: the outcome is left out of the accumulator.
HistoryOfHeaders(h, inputs) == Append(h, <<inputs.header>>)

\* One link of the history accumulator.
HistoryHash(h, inputs) ==
  Append(h, <<inputs.header, inputs.price, inputs.volume>>)

\* SingleBatchProver::prove: the public inputs are those of the witness, and
\* the witness is an execution of its batch.
Proves(inputs, witness) ==
  LET outcome == Execution(witness.pre, witness.batch.orders)
      instrument == witness.batch.instrument
  IN  /\ outcome.ok /\ outcome.provable
      /\ inputs.header = HeaderHash(witness.batch)
      /\ inputs.pre = RootOf(witness.pre, instrument)
      /\ inputs.post = RootOf(witness.post, instrument)
      /\ inputs.oracle = witness.oracle
      /\ witness.post = outcome.post
      /\ inputs.price = outcome.price
      /\ inputs.volume = outcome.volume

\* Variant: a step may start from any ledger.
FoldsAnywhere(s, step) ==
  /\ step.witness.batch.id = (s.batch_id + 1) % (MaxId + 1)
  /\ step.witness.batch.instrument = s.instrument
  /\ step.timestamp >= s.timestamp
  /\ Proves(step.inputs, step.witness)

\* RunningState::fold_step succeeds.
Folds(s, step) ==
  /\ step.witness.batch.id = (s.batch_id + 1) % (MaxId + 1)
  /\ step.witness.batch.instrument = s.instrument
  /\ step.timestamp >= s.timestamp
  /\ step.inputs.pre = s.ledger_root
  /\ Proves(step.inputs, step.witness)

\* The state it returns.
Fold(s, step) ==
  [ledger_root |-> step.inputs.post,
   history     |-> HistoryHash(s.history, step.inputs),
   batch_id    |-> step.witness.batch.id,
   timestamp   |-> step.timestamp,
   instrument  |-> s.instrument]

----------------------------------------------------------------------------
(***************************************************************************)
(* RecursiveSessionProver::prove_session.                                  *)
(***************************************************************************)
SessionInit ==
  /\ stage = "folding"
  /\ initial \in InitialStates
  /\ state = initial
  /\ proofs = << >>
  /\ published = NoSession
  /\ received = NoSession

\* One iteration, with one of the steps on offer: it folds, and is proved once
\* more for the record.
FoldStep(offered) ==
  /\ stage = "folding"
  /\ Len(proofs) < MaxSteps
  /\ \E step \in offered :
       /\ Folds(state, step)
       /\ state' = Fold(state, step)
       /\ proofs' = Append(proofs, [version |-> 1, inputs |-> step.inputs,
                                    well_formed |-> TRUE])
  /\ UNCHANGED <<stage, initial, published, received>>

\* An empty session, or a step that does not fold: nothing is published.
RefuseSession(offered) ==
  /\ stage = "folding"
  /\ offered = {} \/ {step \in offered : ~Folds(state, step)} # {}
  /\ stage' = "refused"
  /\ state' = initial
  /\ proofs' = << >>
  /\ UNCHANGED <<initial, published, received>>

\* The steps are used up and the session proof is returned.
PublishSession ==
  /\ stage = "folding"
  /\ proofs # << >>
  /\ published' = [made |-> TRUE, version |-> 1, num_batches |-> Len(proofs),
                   initial |-> initial, final |-> state, steps |-> proofs]
  /\ stage' = "published"
  /\ UNCHANGED <<initial, state, proofs, received>>

\* The session proof travels to the verifier, who may be handed another one.
DeliverSession(others) ==
  /\ stage = "published"
  /\ received' \in {published} \cup {s \in others : IsVector(s.steps)}
  /\ stage' = "delivered"
  /\ UNCHANGED <<initial, state, proofs, published>>

----------------------------------------------------------------------------
(***************************************************************************)
(* RecursiveSessionVerifier::verify_session.                               *)
(***************************************************************************)
\* SingleBatchVerifier::verify: the version, the inputs, and the grammar of
\* the certificate.
VerifyStep(inputs, proof) ==
  /\ proof.version = 1
  /\ proof.inputs = inputs
  /\ proof.well_formed

\* The accumulator rebuilt from the step inputs alone.
RollingHistory(h, steps) ==
  LET rolling[k \in 0..Len(steps)] ==
        IF k = 0 THEN h ELSE HistoryHash(rolling[k - 1], steps[k].inputs)
  IN  rolling[Len(steps)]

\* Variant: the first step is held against the final ledger.
LastRootFromFinal(first, final, steps, k) ==
  IF k = 0 THEN final.ledger_root ELSE steps[k].inputs.post

\* last_ledger_root after k steps.
LastLedgerRoot(first, final, steps, k) ==
  IF k = 0 THEN first.ledger_root ELSE steps[k].inputs.post

VerifySession(first, final, s) ==
  /\ s.version = 1
  /\ s.initial = first
  /\ s.final = final
  /\ Len(s.steps) = s.num_batches
  /\ s.steps # << >>
  /\ \A k \in 1..Len(s.steps) :
       /\ VerifyStep(s.steps[k].inputs, s.steps[k])
       /\ s.steps[k].inputs.pre = LastLedgerRoot(first, final, s.steps, k - 1)
  /\ LastLedgerRoot(first, final, s.steps, Len(s.steps)) = final.ledger_root
  /\ RollingHistory(first.history, s.steps) = final.history

\* The verifier knows the two states the session was published with.
VerifyReceived ==
  /\ stage = "delivered"
  /\ stage' = IF VerifySession(published.initial, published.final, received)
              THEN "accepted" ELSE "rejected"
  /\ UNCHANGED <<initial, state, proofs, published, received>>

(***************************************************************************)
(* A caller of the library offers steps as it likes, or none at all, and   *)
(* anything may arrive at the verifier.                                    *)
(***************************************************************************)
LibraryNext ==
  \/ FoldStep(Steps)
  \/ RefuseSession(Steps)
  \/ proofs = << >> /\ RefuseSession({})
  \/ PublishSession
  \/ DeliverSession(Alterations(published))
  \/ VerifyReceived

----------------------------------------------------------------------------
(***************************************************************************)
(* Properties                                                              *)
(***************************************************************************)
\* prove_session: at every moment the steps folded are one chain.  Their
\* headers carry consecutive ids of one instrument, each was executed on the
\* ledger the one before it left, and the running state is where the last one
\* ended, with a history that a replay of the steps reproduces.
FoldedStepsAreOneChain ==
  /\ \A k \in 1..Len(proofs) :
       LET inputs == proofs[k].inputs
           before == IF k = 1 THEN initial.ledger_root ELSE proofs[k - 1].inputs.post
           outcome == Execution(before[1], inputs.header[4])
       IN  /\ inputs.header[1] = (initial.batch_id + k) % (MaxId + 1)
           /\ inputs.header[2] = initial.instrument
           /\ inputs.pre = before
           /\ inputs.post = RootOf(outcome.post, initial.instrument)
           /\ inputs.price = outcome.price
           /\ inputs.volume = outcome.volume
  /\ state.batch_id = (initial.batch_id + Len(proofs)) % (MaxId + 1)
  /\ state.ledger_root = LastLedgerRoot(initial, state, proofs, Len(proofs))
  /\ state.history = RollingHistory(initial.history, proofs)

\* verify_session accepts what prove_session published.
AcceptsThePublishedSession ==
  stage \in {"accepted", "rejected"} /\ received = published => stage = "accepted"

\* verify_session, given the published end states, accepts no other history:
\* the steps are as many, in the same order, of the same batches and outcomes,
\* and their ledger roots lead from the first ledger to the last.
AcceptsOnlyTheHistory ==
  stage = "accepted" =>
    LET got == received.steps
        sent == published.steps
    IN  /\ Len(got) = Len(sent)
        /\ \A k \in 1..Len(got) :
             /\ got[k].inputs.header = sent[k].inputs.header
             /\ got[k].inputs.price = sent[k].inputs.price
             /\ got[k].inputs.volume = sent[k].inputs.volume
             /\ k > 1 => got[k].inputs.pre = got[k - 1].inputs.post
        /\ got[1].inputs.pre = sent[1].inputs.pre
        /\ got[Len(got)].inputs.post = sent[Len(got)].inputs.post

\* docs/DECISIONS.md, ADR-014: the running digest "detects reorder, omission,
\* and mutation relative to the supplied step sequence".
DetectsEveryMutation == stage = "accepted" => received.steps = published.steps
=============================================================================
