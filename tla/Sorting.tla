------------------------------ MODULE Sorting ------------------------------
(***************************************************************************)
(* What std::sort promises.  The elements come back in an order that the   *)
(* comparator does not contradict; where it does not tell two elements     *)
(* apart, any order will do.                                               *)
(***************************************************************************)
EXTENDS Integers, FiniteSets, Functions

\* Every sequence std::sort may leave the elements of S in, where before holds
\* the pairs whose first element the comparator puts ahead.
StdSorts(S, before) ==
  {s \in Injection(1..Cardinality(S), S) :
     \A m, n \in DOMAIN s : m < n => <<s[n], s[m]>> \notin before}
=============================================================================
