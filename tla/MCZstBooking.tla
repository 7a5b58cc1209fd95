---------------------------- MODULE MCZstBooking ----------------------------
(* Instances of ZstBooking. *)
EXTENDS ZstBooking, TLC

Symmetry == Permutations(Employees) \cup Permutations(Positions) \cup Permutations(Slots)
=============================================================================
