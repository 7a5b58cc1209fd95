----------------------------- MODULE PackWindow -----------------------------
(***************************************************************************)
(* The pack rules of cases/pack-window.ts.  A bundle ("cart") carries      *)
(* several packs, one after the other; `packs' maps each member case to    *)
(* its pack index, `st' every case to its status, `active' is the index of *)
(* the pack the employee works on.                                         *)
(***************************************************************************)
EXTENDS Integers, CaseStatus

PackIndexes(packs) == {packs[c] : c \in DOMAIN packs}

(* -1 for a bundle without items. *)
LastPackIndex(packs) ==
  IF DOMAIN packs = {} THEN -1
  ELSE CHOOSE m \in PackIndexes(packs) : \A n \in PackIndexes(packs) : n <= m

\* Faulty: an answered problem still counts as waiting for the teamlead.
FaultyPackAdvanceBlockers(packs, st, active, partDone) ==
  {c \in DOMAIN packs : /\ packs[c] = active
                        /\ st[c] \notin DoneForEmployee
                        /\ st[c] \notin {"issue_open", "problem_resolved"}
                        /\ c \notin partDone}

(* Members of the active pack the employee still has to work on.  A case
   waiting for the teamlead does not hold him, nor does a shared case whose
   part he reported done (the cases in partDone). *)
PackAdvanceBlockers(packs, st, active, partDone) ==
  {c \in DOMAIN packs : /\ packs[c] = active
                        /\ st[c] \notin DoneForEmployee
                        /\ st[c] # "issue_open"
                        /\ c \notin partDone}

HasPlannedFollowUpPack(packs, active) ==
  \E c \in DOMAIN packs : packs[c] > active

(* The pack activateNextPack unlocks: the nearest one behind the active. *)
IsNextPlannedPack(packs, active, p) ==
  /\ p \in PackIndexes(packs)
  /\ p > active
  /\ \A q \in PackIndexes(packs) : q > active => p <= q

CarriedOver(packs, st, active) ==
  {c \in DOMAIN packs : packs[c] < active /\ st[c] \notin DoneForEmployee}

VisibleCases(packs, st, active) ==
  {c \in DOMAIN packs : packs[c] = active} \cup CarriedOver(packs, st, active)
=============================================================================
