------------------------------ MODULE MCReplay ------------------------------
(***************************************************************************)
(* Few enough words that levels fill up, and reference numbers that are    *)
(* used again once their order has gone.  Buffers of up to three frames:   *)
(* one whole frame of every message type, adds of either side, and the     *)
(* ways in which a frame can be broken.                                    *)
(***************************************************************************)
EXTENDS Replay

Frame(tag, length, size, side) ==
  [tag |-> tag, length |-> length, size |-> size, side |-> side]

WholeFrames ==
  {Frame(tag, PayloadLength[tag], PayloadLength[tag] + 2, "Buy") :
     tag \in DOMAIN PayloadLength}
    \cup {Frame("A", 36, 40, "Sell")}

\* A side byte that is neither; an attribution with and without room for it; a
\* tag that is not known; nothing but a length; a length of zero with more to
\* follow; a frame cut off before its last byte.
BrokenFrames ==
  {Frame("A", 36, 38, "Other"), Frame("F", 40, 42, "Other"),
   Frame("A", 40, 42, "Sell"), Frame("F", 36, 38, "Buy"),
   Frame("Z", 36, 38, "Buy"), Frame("A", 36, 2, "Buy"),
   Frame("S", 0, 14, "Buy"), Frame("U", 35, 36, "Buy")}

MCFrames == WholeFrames \cup BrokenFrames
=============================================================================
