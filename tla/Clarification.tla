--------------------------- MODULE Clarification ---------------------------
(***************************************************************************)
(* What the problem loop promises to employee and teamlead, with every     *)
(* request a single step: a case is worked on, or it waits for the         *)
(* teamlead with a set of open problems, or all of them are answered, or   *)
(* it is over.  It waits exactly while a problem is open.                  *)
(*                                                                         *)
(* A request that stops halfway voids the promise (`broken').              *)
(***************************************************************************)
CONSTANT Problems

VARIABLES phase, open, broken

Start == phase = "working" /\ open = {} /\ broken = FALSE

(* New problems, or an answered one that is asked back. *)
Report(S) ==
  /\ S # {}
  /\ phase' = "waiting"
  /\ open' = open \cup S

Answer(p) ==
  /\ phase = "waiting"
  /\ p \in open
  /\ open' = open \ {p}
  /\ phase' = IF open' = {} THEN "answered" ELSE "waiting"

Resume == phase = "answered" /\ phase' = "working" /\ open' = open

End == phase' = "over" /\ open' = {}

Step ==
  \/ /\ ~broken
     /\ broken' = FALSE
     /\ phase # "over"
     /\ \/ \E S \in SUBSET Problems : Report(S)
        \/ \E p \in Problems : Answer(p)
        \/ Resume
        \/ End
  \/ broken'

Promise == Start /\ [][Step]_<<phase, open, broken>>
=============================================================================
