---------------------------- MODULE MCCountEntry ----------------------------
(* Instances of CountEntry. *)
EXTENDS CountEntry
=============================================================================
