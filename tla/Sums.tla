-------------------------------- MODULE Sums --------------------------------
(* Sums of quantities: counts of positions, pieces of booked records. *)
EXTENDS Integers, Functions

(* The sum of f[x] over the x of S, as `reduce' and `_sum' compute it. *)
SumOver(f, S) == FoldFunctionOnSet(+, 0, f, S)
=============================================================================
