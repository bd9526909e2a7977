------------------------------- MODULE Oracle -------------------------------
(***************************************************************************)
(* The reference-price policy (domain/oracle.hpp,                          *)
(* engine/oracle_validation.hpp): a snapshot must be fresh at the batch's  *)
(* cutoff and the clearing price within a collar around it.                *)
(*                                                                         *)
(* An oracle is a record of a snapshot and of the policy that governs it.  *)
(***************************************************************************)
EXTENDS Domain

\* validate_freshness: not from after the cutoff, and not too old.
Fresh(oracle, cutoff) ==
  /\ oracle.snapshot.timestamp <= cutoff
  /\ cutoff - oracle.snapshot.timestamp <= oracle.policy.max_staleness

\* validate_collar.
WithinCollar(oracle, price) ==
  LET reference == oracle.snapshot.price
  IN  (IF price >= reference THEN price - reference ELSE reference - price)
        <= oracle.policy.max_deviation

\* validate_reference_price_snapshot: the collar is of a clearing price, when
\* there is one.
ValidReference(oracle, instrument, cutoff, price) ==
  /\ oracle.snapshot.instrument = instrument
  /\ Fresh(oracle, cutoff)
  /\ price # NoPrice => WithinCollar(oracle, price)
=============================================================================
