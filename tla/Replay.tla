------------------------------- MODULE Replay -------------------------------
(***************************************************************************)
(* The replay engine (marketdata/replay.cpp) with its packet source        *)
(* (packet_source.hpp) and its parser (parser.cpp).  One engine, and so    *)
(* one book, serves call after call of replay_stream, on a buffer of       *)
(* framed bytes, and of replay_messages, on messages already parsed.  The  *)
(* first frame or message that is refused ends its call.                   *)
(*                                                                         *)
(* A frame is what the parser can tell of the bytes at the cursor:         *)
(*                                                                         *)
(*   tag      the first byte of the payload                                *)
(*   length   the length field, when two bytes are left to hold it         *)
(*   size     the bytes left in the buffer                                 *)
(*   side     the side byte of an add                                      *)
(*                                                                         *)
(* The frames of a buffer are known one by one, as the cursor reaches      *)
(* them.                                                                   *)
(***************************************************************************)
EXTENDS OrderBook, FiniteSets

CONSTANTS
  Frames,      \* the frames a buffer may hold
  MaxFrames    \* bound: frames in one buffer

\* Lengths are counts of bytes.
ASSUME FrameLengths == \A f \in Frames : f.length \in Nat /\ f.size \in Nat

VARIABLES
  call,        \* "idle", "stream" or "messages"
  frame,       \* the frame that was fetched, or NoFrame
  consumed,    \* frames before the cursor
  returned     \* what the last call returned: "none", "ok" or "error"

replayVars == <<bookVars, call, frame, consumed, returned>>

NoFrame == [tag |-> "none"]

\* A buffer is finite, and what it holds is not the absence of a frame.
ASSUME FramesBounded == MaxFrames \in Nat /\ NoFrame \notin Frames

----------------------------------------------------------------------------
(***************************************************************************)
(* ItchStreamParser.                                                       *)
(***************************************************************************)
\* The payload length parse_payload asks of each message type.
PayloadLength ==
  [S |-> 12, R |-> 39, A |-> 36, F |-> 40, E |-> 31, C |-> 36, X |-> 23,
   D |-> 19, U |-> 35]

IsAdd(f) == f.tag \in {"A", "F"}

\* Variant: a side byte that is neither counts as a bid.
ParseLenientSide(f) ==
  IF f.size < 3 \/ f.size < 2 + f.length \/ f.length = 0 THEN "UnexpectedEof"
  ELSE IF f.tag \notin DOMAIN PayloadLength THEN "UnknownMessageType"
  ELSE IF f.length # PayloadLength[f.tag] THEN "InvalidMessageLength"
  ELSE "ok"

\* parse_message and parse_payload: the first check that fails.
ParseMessage(f) ==
  IF f.size < 3 \/ f.size < 2 + f.length \/ f.length = 0 THEN "UnexpectedEof"
  ELSE IF f.tag \notin DOMAIN PayloadLength THEN "UnknownMessageType"
  ELSE IF f.length # PayloadLength[f.tag] THEN "InvalidMessageLength"
  ELSE IF IsAdd(f) /\ f.side \notin Sides THEN "InvalidSide"
  ELSE "ok"

\* The side of the message: what is not 'S' was set to Buy.
MessageSide(f) == IF call = "stream" /\ f.side # "Sell" THEN "Buy" ELSE f.side

\* A call on messages passes over the parser.  A message is of a known type,
\* but its side may be any value of the enumeration's type.
Accepted(f) == call = "messages" \/ ParseMessage(f) = "ok"

----------------------------------------------------------------------------
(***************************************************************************)
(* ItchReplayEngine.                                                       *)
(***************************************************************************)
ReplayInit ==
  /\ OrderBookInit
  /\ call = "idle"
  /\ frame = NoFrame
  /\ consumed = 0
  /\ returned = "none"

\* The caller starts replay_stream or replay_messages on another input.
StartReplay ==
  /\ call = "idle"
  /\ call' \in {"stream", "messages"}
  /\ consumed' = 0
  /\ returned' = "none"
  /\ UNCHANGED <<bookVars, frame>>

\* The cursor reaches a frame: remaining() is not zero.
FetchFrame ==
  /\ call # "idle"
  /\ frame = NoFrame
  /\ consumed < MaxFrames
  /\ frame' \in {f \in Frames :
                   call = "messages" => ParseMessage(f) \in {"ok", "InvalidSide"}}
  /\ UNCHANGED <<bookVars, call, consumed, returned>>

Return(value) ==
  /\ call' = "idle"
  /\ frame' = NoFrame
  /\ returned' = value

\* remaining() is zero, or the vector is used up.
EndOfInput ==
  /\ call # "idle"
  /\ frame = NoFrame
  /\ Return("ok")
  /\ UNCHANGED <<bookVars, consumed>>

\* next_message returns the parser's error; the cursor stays where it is.
RefuseFrame ==
  /\ frame # NoFrame
  /\ ~Accepted(frame)
  /\ Return("error")
  /\ UNCHANGED <<bookVars, consumed>>

\* Variant: the cursor is left at the frame that was applied.
AdvanceNowhere == UNCHANGED <<call, frame, consumed, returned>>

\* cursor_ += consumed, and once around the loop.
Advance ==
  /\ consumed' = consumed + 1
  /\ frame' = NoFrame
  /\ UNCHANGED <<call, returned>>

\* apply_message dispatches on the type of the message.
ApplyMessage ==
  /\ frame # NoFrame
  /\ Accepted(frame)
  /\ \/ IsAdd(frame) /\ StepAdd(MessageSide(frame))
     \/ frame.tag \in {"E", "C", "X"} /\ StepExecute
     \/ frame.tag = "D" /\ StepDelete
     \/ frame.tag = "U" /\ StepReplace
     \/ frame.tag \in {"S", "R"} /\ StepAdministrative
  /\ Advance

\* The book refuses the message and the call returns its error.
RefuseMessage ==
  /\ frame # NoFrame
  /\ Accepted(frame)
  /\ \/ IsAdd(frame) /\ RefusesAdd(MessageSide(frame))
     \/ frame.tag \in {"E", "C", "X"} /\ RefusesExecute
     \/ frame.tag = "D" /\ DOMAIN orders # Ref
     \/ frame.tag = "U" /\ RefusesReplace
  /\ Refused
  /\ Return("error")
  /\ consumed' = consumed + 1

ReplayLoop ==
  \/ FetchFrame
  \/ EndOfInput
  \/ RefuseFrame
  \/ ApplyMessage
  \/ RefuseMessage

ReplayNext == StartReplay \/ ReplayLoop

\* Nothing in the loop waits: a call that has been started goes on.
ReplaySpec ==
  ReplayInit /\ [][ReplayNext]_replayVars /\ WF_replayVars(ReplayLoop)

----------------------------------------------------------------------------
(***************************************************************************)
(* Properties                                                              *)
(***************************************************************************)
\* The frame is a whole message of a known type, of exactly its length, and an
\* add has a side.
Whole(f) ==
  /\ f.tag \in DOMAIN PayloadLength
  /\ f.length = PayloadLength[f.tag]
  /\ f.size >= f.length + 2
  /\ IsAdd(f) => f.side \in Sides

\* The change of the resting orders is of the kind the tag announces: an add
\* brings one order of its side, an execution, cancel or delete only takes
\* away, a replace keeps the number of orders on each side, and the rest leave
\* the orders alone.
Announced(f) ==
  LET on(os, side) == {r \in DOMAIN os : os[r].side = side}
  IN  CASE IsAdd(f) ->
             \E r \in DOMAIN orders' \ DOMAIN orders :
               Without(orders', r) = orders /\ orders'[r].side = f.side
        [] f.tag \in {"E", "C", "X", "D"} ->
             /\ DOMAIN orders' \subseteq DOMAIN orders
             /\ \A r \in DOMAIN orders' : orders'[r].shares <= orders[r].shares
        [] f.tag = "U" ->
             \A side \in Sides :
               Cardinality(on(orders', side)) = Cardinality(on(orders, side))
        [] OTHER -> FALSE

\* replay_stream: bytes that are not a whole, well-formed message reach neither
\* the book nor the clock nor the quotes, wherever in the buffer they stand and
\* whatever the engine has replayed before; and what a message does to the book
\* is what its type announces.
OnlyWholeMessagesTakeEffect ==
  [][bookVars' # bookVars =>
       /\ call = "stream" => Whole(frame)
       /\ orders' # orders => Announced(frame)]_replayVars

\* replay_stream and replay_messages return: the cursor moves on with every
\* frame that is applied, also with one that leaves the book as it was.
EveryReplayReturns == call # "idle" ~> call = "idle"

\* docs/DECISIONS.md, ADR-015: the order book is transactional and messages
\* with "invalid sides, zero values, over-execution, arithmetic overflow" are
\* rejected "before mutating state".
RejectedBeforeMutating ==
  [][returned' = "error" => UNCHANGED bookVars]_replayVars
=============================================================================
