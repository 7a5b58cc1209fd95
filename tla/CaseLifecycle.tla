--------------------------- MODULE CaseLifecycle ----------------------------
(***************************************************************************)
(* What the workflow promises of every case, whoever moves it: a case      *)
(* enters unreleased or in the pool and its status only ever follows an    *)
(* edge of the graph of CaseStatus.  One step may move several cases (a    *)
(* bulk assignment, a recalculation).  The components that move cases are  *)
(* shown to implement this specification.                                  *)
(***************************************************************************)
EXTENDS CaseStatus

CONSTANT Cases

VARIABLE status

LifecycleInit == status \in [Cases -> {"needs_review", "blocked", "ready"}]

Move ==
  /\ status' \in [Cases -> CaseStatuses]
  /\ \A c \in Cases : \/ status'[c] = status[c]
                      \/ CanTransition(status[c], status'[c])

Lifecycle == LifecycleInit /\ [][Move]_status
=============================================================================
