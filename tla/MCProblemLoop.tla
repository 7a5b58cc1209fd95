--------------------------- MODULE MCProblemLoop ---------------------------
(* Instances of ProblemLoop. *)
EXTENDS ProblemLoop, TLC

(* The overlaps that break the loop; all others are allowed. *)
Racing ==
  { {"partial", "instruct"}, {"reopen", "instruct"}, {"reopen", "complete"},
    {"reopen", "start"}, {"complete", "count"} }

Symmetry == Permutations(Issues) \cup Permutations(Slots)
=============================================================================
