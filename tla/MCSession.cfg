SPECIFICATION CommandSpec
CONSTANTS
  MaxId = 3
  MaxSteps = 3
  InitialStates <- MCInitialStates
  Steps <- MCSteps
  GenesisLedgers <- MCLedgers
  Manifests <- MCManifests
  Execution <- MCExecution
  Alterations <- MCAlterations
INVARIANTS
  FoldedStepsAreOneChain
  AcceptsThePublishedSession
  AcceptsOnlyTheHistory
  CommandProvesExactlySessions
\* The prover and the verifier return, or the command does: the run ends there.
CHECK_DEADLOCK FALSE
