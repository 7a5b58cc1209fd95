---------------------------- MODULE MCSharedCase ----------------------------
(* Instances of SharedCase. *)
EXTENDS SharedCase, TLC

(* The overlaps that break a property; all others are allowed. *)
Racing ==
  { {"invite", "leave"}, {"respond", "complete"}, {"respond", "partial"},
    {"park", "enter"}, {"park", "unpark"} }

Symmetry == Permutations(Employees) \cup Permutations(Positions) \cup Permutations(Slots)
=============================================================================
