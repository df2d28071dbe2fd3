--------------------------------- MODULE Sums ---------------------------------
(***************************************************************************)
(* The sum of a family of numbers: every loop of the library that adds     *)
(* amounts up, in whatever order, is one of these.                         *)
(***************************************************************************)
EXTENDS Integers, FiniteSetsExt

SumOf(f) == LET value(i) == f[i] IN MapThenSumSet(value, DOMAIN f)

=============================================================================
