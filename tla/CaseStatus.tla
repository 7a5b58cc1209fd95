----------------------------- MODULE CaseStatus -----------------------------
(***************************************************************************)
(* The status graph of a goods-receipt case ("Beleg"): the table           *)
(* CASE_TRANSITIONS of workflow/case-status.ts and the predicates          *)
(* case-state-machine.ts derives from it.  Every component that moves a    *)
(* case uses these operators.                                              *)
(***************************************************************************)

CaseStatuses ==
  { "needs_review", "blocked", "ready", "parked", "assigned", "in_progress",
    "issue_open", "problem_resolved", "completed", "zst_done", "cancelled",
    "split_container" }

NextStatuses(from) ==
  CASE from = "needs_review"     -> {"ready", "cancelled"}
    [] from = "blocked"          -> {"ready", "cancelled"}
    [] from = "ready"            -> {"assigned", "parked", "cancelled", "split_container"}
    [] from = "parked"           -> {"ready", "cancelled", "split_container"}
    [] from = "assigned"         -> {"in_progress", "ready", "cancelled"}
    [] from = "in_progress"      -> {"issue_open", "completed", "cancelled"}
    [] from = "issue_open"       -> {"problem_resolved", "cancelled"}
    [] from = "problem_resolved" -> {"in_progress", "issue_open", "cancelled"}
    [] from = "completed"        -> {"zst_done"}
    [] OTHER                     -> {}

CanTransition(from, to) == to \in NextStatuses(from)

(* TERMINAL_STATUSES of the state machine: no edge leaves them. *)
Terminal == {"zst_done", "cancelled", "split_container"}

(* The statuses in which an employee is done with a case (pack-window.ts and
   closeBundleIfDone); not the same set as Terminal. *)
DoneForEmployee == {"completed", "zst_done", "cancelled"}

(* Work an employee has begun and not finished. *)
Started == {"in_progress", "issue_open", "problem_resolved"}
=============================================================================
