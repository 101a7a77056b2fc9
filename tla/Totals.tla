------------------------------- MODULE Totals ---------------------------------
(***************************************************************************)
(* The sum of the values of a function, or of the elements of a sequence.  *)
(***************************************************************************)
EXTENDS Integers, Functions

Total(f) == FoldFunction(+, 0, f)
================================================================================
