------------------------------- MODULE Domain -------------------------------
(***************************************************************************)
(* The value types every FairCross component is built from                 *)
(* (include/faircross/domain): fixed-width prices, quantities and money    *)
(* with checked arithmetic, sides, and the running totals the engine's     *)
(* loops compute.                                                          *)
(*                                                                         *)
(* Price and Qty are unsigned 64-bit, Money is unsigned 128-bit.  A model  *)
(* gives the widths small values; the only relation between them the code  *)
(* relies on is that a product of two words fits in Money.                 *)
(***************************************************************************)
EXTENDS Integers, Sequences

CONSTANTS
  Instruments, \* instrument identifiers
  MaxRaw,      \* Price::MAX_RAW and Qty::MAX_RAW, 2^64 - 1 in the code
  MaxMoney     \* Money::MAX_RAW, 2^128 - 1 in the code

ASSUME WordWidth == MaxRaw \in Nat \ {0}
ASSUME MoneyWidth == MaxMoney \in Nat /\ MaxMoney >= MaxRaw * MaxRaw

Price == 1..MaxRaw       \* what Price::create accepts
Qty   == 0..MaxRaw
Money == 0..MaxMoney

NoPrice == 0             \* std::nullopt where an optional<Price> is returned
Err     == -1            \* an error Result of checked arithmetic

Sides == {"Buy", "Sell"}

(***************************************************************************)
(* Checked and saturating arithmetic on a word of the given maximum.       *)
(***************************************************************************)
\* Variant: subtraction that is neither checked nor saturating.
UncheckedSub(a, b) == a - b

CheckedAdd(a, b, max) == IF a > max - b THEN Err ELSE a + b

CheckedSub(a, b) == IF a < b THEN Err ELSE a - b

SaturatingSub(a, b) == IF a < b THEN 0 ELSE a - b

\* Money::from_price_qty.
FromPriceQty(price, qty) ==
  IF price # 0 /\ qty > MaxMoney \div price THEN Err ELSE price * qty

(***************************************************************************)
(* Total(f, n) = f[1] + ... + f[n], the loops that accumulate a running    *)
(* total in index order.  It is a recursive function, not a fold, so that  *)
(* the provers can unfold it.                                              *)
(***************************************************************************)
Total(f, n) ==
  LET sum[i \in 0..n] == IF i = 0 THEN 0 ELSE sum[i - 1] + f[i]
  IN  sum[n]

\* A loop of checked_add over naturals fails at some prefix exactly when the
\* whole sum exceeds the width.
CheckedTotal(f, n, max) ==
  LET t == Total(f, n) IN IF t > max THEN Err ELSE t

Smaller(a, b) == IF a < b THEN a ELSE b
=============================================================================
