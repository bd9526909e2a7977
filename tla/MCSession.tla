----------------------------- MODULE MCSession -----------------------------
(***************************************************************************)
(* Sessions of up to three steps over two ledgers.  A batch that crosses   *)
(* turns one ledger into the other, so that roots recur and steps could be *)
(* spliced; steps that skip an id, change the instrument, start from the   *)
(* other ledger, turn the clock back or misstate an input are among those  *)
(* handed to the prover.  Manifests have batches that the engine cannot    *)
(* settle on one of the ledgers, and batches the prover does not take.     *)
(***************************************************************************)
EXTENDS SessionCommand

MCLedgers == {1, 2}

\* A dear batch settles on ledger 1 only; the sequence numbers of an unnumbered
\* one are not its positions.
MCExecution(before, orders) ==
  [ok |-> orders # "dear" \/ before = 1,
   provable |-> orders # "unnumbered",
   post |-> IF orders \in {"cross", "dear"} THEN 3 - before ELSE before,
   price |-> IF orders \in {"cross", "dear"} THEN 1 ELSE 0,
   volume |-> IF orders \in {"cross", "dear"} THEN 1 ELSE 0]

Batches == [id : 0..MaxId, instrument : {1, 2}, cutoff : {1, 2},
            orders : {"cross", "idle"}]

Honest(batch, before, timestamp) ==
  LET outcome == MCExecution(before, batch.orders)
      root(l) == RootOf(l, batch.instrument)
  IN  [timestamp |-> timestamp,
       witness |-> [batch |-> batch, pre |-> before, post |-> outcome.post,
                    oracle |-> "absent"],
       inputs  |-> [pre |-> root(before), post |-> root(outcome.post),
                    header |-> HeaderHash(batch), oracle |-> "absent",
                    price |-> outcome.price, volume |-> outcome.volume]]

HonestSteps == {Honest(b, l, t) : b \in Batches, l \in MCLedgers, t \in {1, 2}}

\* The root of the other ledger.
Other(root) == <<3 - root[1], root[2]>>

MCSteps ==
  HonestSteps
    \cup {[s EXCEPT !.inputs.post = Other(@)] : s \in HonestSteps}
    \cup {[s EXCEPT !.inputs.volume = @ + 1] : s \in HonestSteps}

\* Genesis states, and one reached by earlier batches whose ids are used up.
MCInitialStates ==
  {Genesis(RootOf(l, 1), 1) : l \in MCLedgers}
    \cup {[Genesis(RootOf(1, 1), 1) EXCEPT !.batch_id = MaxId, !.timestamp = 1,
                                           !.history = <<"earlier">>]}

\* Ids and instruments of up to three batches, in order, repeated, with a gap
\* or starting late, and what is in them.
MCManifests ==
  LET contents == [id : 1..2, instrument : {1, 2},
                   orders : {"cross", "idle", "dear", "unnumbered"}]
      third == [id : {2, 3}, instrument : {1}, orders : {"cross", "dear"}]
  IN  {<< >>} \cup {<<b>> : b \in contents}
        \cup {<<b, c>> : b, c \in contents}
        \cup {<<b, c, d>> : b, c \in contents, d \in third}

\* Sessions that differ from the published one in a step, in the order or the
\* number of steps, in a ledger between two steps, or in the envelope.
AlteredSteps(s) ==
  UNION {{[s EXCEPT !.steps[k].inputs.header[4] = "other"],
          [s EXCEPT !.steps[k].inputs.price = @ + 1],
          [s EXCEPT !.steps[k].inputs.volume = @ + 1],
          [s EXCEPT !.steps[k].inputs.oracle = "snapshot"],
          [s EXCEPT !.steps[k].inputs.post = Other(@)],
          [s EXCEPT !.steps[k].well_formed = FALSE],
          [s EXCEPT !.steps[k].version = 2]} : k \in 1..Len(s.steps)}

AlteredRoots(s) ==
  {[s EXCEPT !.steps[k].inputs.post = Other(@),
            !.steps[k + 1].inputs.pre = Other(@)] :
     k \in 1..(Len(s.steps) - 1)}

Reordered(s) ==
  {[s EXCEPT !.steps[j] = s.steps[k], !.steps[k] = s.steps[j]] :
     j, k \in 1..Len(s.steps)}

Resized(s) ==
  UNION {{[s EXCEPT !.steps = t], [s EXCEPT !.steps = t, !.num_batches = Len(t)]} :
         t \in {Tail(s.steps), SubSeq(s.steps, 1, Len(s.steps) - 1),
                s.steps \o s.steps} \cup {Append(s.steps, s.steps[k]) :
                                            k \in 1..Len(s.steps)}}

Envelope(s) ==
  {[s EXCEPT !.version = 2], [s EXCEPT !.num_batches = @ + 1],
   [s EXCEPT !.final.batch_id = 0], [s EXCEPT !.final.ledger_root = Other(@)],
   [s EXCEPT !.initial.ledger_root = Other(@)]}

MCAlterations(s) ==
  AlteredSteps(s) \cup AlteredRoots(s) \cup Reordered(s) \cup Resized(s)
    \cup Envelope(s)
=============================================================================
