--------------------------- MODULE SessionCommand ---------------------------
(***************************************************************************)
(* The prove-session command (cli/main.cpp, cmd_prove_session): the        *)
(* batches of a manifest are executed one after another, each on the       *)
(* ledger the one before it left; the steps are handed to prove_session    *)
(* and, with --verify, the session proof to verify_session.                *)
(*                                                                         *)
(* A behaviour either runs the command on a manifest or uses the library   *)
(* as in Session.                                                          *)
(***************************************************************************)
EXTENDS Session

CONSTANTS
  GenesisLedgers, \* genesis ledgers of manifests, blinded
  Manifests       \* sequences of batches: id, instrument and orders

\* A word numbers the batches of a manifest, and the steps of a session.
ASSUME ManifestsOK ==
  /\ MaxSteps \in 0..MaxId
  /\ \A m \in Manifests : IsVector(m) /\ \A k \in DOMAIN m : m[k].id \in 0..MaxId

VARIABLES
  genesis,      \* genesis_ledger of the manifest
  manifest,     \* its batches, once the command is run
  ledger,       \* the ledger the next batch is executed on
  current_root, \* the root the next step starts from
  steps         \* the steps built so far

commandVars == <<sessionVars, genesis, manifest, ledger, current_root, steps>>

NoManifest == [loaded |-> FALSE, batches |-> << >>]
Running == manifest.loaded

----------------------------------------------------------------------------
CommandInit ==
  /\ SessionInit
  /\ genesis \in GenesisLedgers
  /\ manifest = NoManifest
  /\ ledger = genesis
  /\ current_root = initial.ledger_root
  /\ steps = << >>

\* The manifest is loaded; one without batches is an error.  The instrument of
\* the first batch is the session's.
LoadManifest ==
  /\ ~Running
  /\ stage = "folding"
  /\ proofs = << >>
  /\ manifest' \in [loaded : {TRUE}, batches : Manifests]
  /\ IF manifest'.batches = << >>
     THEN stage' = "failed" /\ UNCHANGED <<initial, state, current_root>>
     ELSE /\ stage' = "building"
          /\ LET instrument == manifest'.batches[1].instrument
             IN  initial' = Genesis(RootOf(ledger, instrument), instrument)
          /\ state' = initial'
          /\ current_root' = initial'.ledger_root
  /\ UNCHANGED <<proofs, published, received, genesis, ledger, steps>>

\* The step of the batch at position k: its time is its index, and it starts
\* from the root the loop carries.
StepOf(k, root, outcome) ==
  LET listed == manifest.batches[k]
      b == [id |-> listed.id, instrument |-> listed.instrument,
            orders |-> listed.orders, cutoff |-> k]
  IN  [timestamp |-> k,
       witness |-> [batch |-> b, pre |-> ledger, post |-> outcome.post,
                    oracle |-> "absent"],
       inputs  |-> [pre |-> root, post |-> RootOf(outcome.post, b.instrument),
                    header |-> HeaderHash(b), oracle |-> "absent",
                    price |-> outcome.price, volume |-> outcome.volume]]

\* Variant: the root is not carried to the next batch.
BuildFromGenesisRoot ==
  /\ stage = "building"
  /\ Len(steps) < Len(manifest.batches)
  /\ LET k == Len(steps) + 1
         outcome == Execution(ledger, manifest.batches[k].orders)
     IN  IF outcome.ok
         THEN /\ steps' = Append(steps, StepOf(k, current_root, outcome))
              /\ ledger' = outcome.post
              /\ UNCHANGED <<stage, current_root>>
         ELSE stage' = "failed" /\ UNCHANGED <<steps, ledger, current_root>>
  /\ UNCHANGED <<initial, state, proofs, published, received, genesis, manifest>>

\* One iteration of the loop: execute_batch, and the step that records it; an
\* execution error ends the command.
BuildStep ==
  /\ stage = "building"
  /\ Len(steps) < Len(manifest.batches)
  /\ LET k == Len(steps) + 1
         outcome == Execution(ledger, manifest.batches[k].orders)
     IN  IF outcome.ok
         THEN /\ steps' = Append(steps, StepOf(k, current_root, outcome))
              /\ ledger' = outcome.post
              /\ current_root' = RootOf(outcome.post, manifest.batches[k].instrument)
              /\ UNCHANGED stage
         ELSE stage' = "failed" /\ UNCHANGED <<steps, ledger, current_root>>
  /\ UNCHANGED <<initial, state, proofs, published, received, genesis, manifest>>

\* prove_session is called with the steps.
CallProver ==
  /\ stage = "building"
  /\ Len(steps) = Len(manifest.batches)
  /\ stage' = "folding"
  /\ UNCHANGED <<initial, state, proofs, published, received, genesis, manifest,
                 ledger, current_root, steps>>

\* prove_session takes the steps in turn, and publishes after the last; the
\* proof goes to verify_session as it is.
ProveManifest ==
  /\ IF Len(proofs) < Len(steps)
     THEN LET next == {steps[Len(proofs) + 1]} IN FoldStep(next) \/ RefuseSession(next)
     ELSE PublishSession \/ DeliverSession({}) \/ VerifyReceived
  /\ UNCHANGED <<genesis, manifest, ledger, current_root, steps>>

UseLibrary ==
  /\ LibraryNext
  /\ UNCHANGED <<genesis, manifest, ledger, current_root, steps>>

CommandNext ==
  \/ LoadManifest
  \/ BuildStep
  \/ CallProver
  \/ Running /\ ProveManifest
  \/ ~Running /\ UseLibrary

CommandSpec == CommandInit /\ [][CommandNext]_commandVars

----------------------------------------------------------------------------
(***************************************************************************)
(* Properties                                                              *)
(***************************************************************************)
\* prove-session --verify succeeds exactly on the manifests that are a session:
\* at least one batch, ids 1, 2, 3... in this order, one instrument, and every
\* batch executed and taken by the prover on the ledger the batches before it
\* leave.  A gap in the ids, as a quiet interval leaves it, or a second
\* instrument is only noticed once all the batches have been executed.
CommandProvesExactlySessions ==
  Running /\ stage \in {"failed", "refused", "accepted", "rejected"} =>
    LET batches == manifest.batches
        n == Len(batches)
        before[k \in 1..(n + 1)] ==
          IF k = 1 THEN genesis ELSE Execution(before[k - 1], batches[k - 1].orders).post
        executes(k) == Execution(before[k], batches[k].orders).ok
        provable(k) == /\ batches[k].id = k
                       /\ batches[k].instrument = batches[1].instrument
                       /\ Execution(before[k], batches[k].orders).provable
    IN  stage = IF n = 0 \/ \E k \in 1..n : ~executes(k) THEN "failed"
                ELSE IF \E k \in 1..n : ~provable(k) THEN "refused"
                ELSE "accepted"
=============================================================================
