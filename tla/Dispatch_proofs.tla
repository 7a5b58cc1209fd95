-------------------------- MODULE Dispatch_proofs ---------------------------
(***************************************************************************)
(* Proofs about Dispatch and DispatchConcurrent, for every set of cases,   *)
(* employees and bundles and every pack bound.                             *)
(*                                                                         *)
(* First the requests one after the other: the shape of the rows; the      *)
(* safety of the placements, by one inductive invariant (the planner may   *)
(* delete a bundle only because no unfinished work is linked to it, and a  *)
(* bundle may be closed only because whatever is linked to it is done, so  *)
(* link, item and bundle have to be followed together); and what no step   *)
(* does: the engine takes nothing the teamlead placed and nothing of a     *)
(* running pack, a pull leaves no startable work behind, and every case    *)
(* follows the status graph of CaseLifecycle.  Then the requests as they   *)
(* overlap.                                                                *)
(***************************************************************************)
EXTENDS DispatchConcurrent, Sums_proofs

USE OwnerAssumption, NoneAssumption, MaxPackAssumption

-----------------------------------------------------------------------------
(* What the rows look like: every handler writes values of the columns'
   types. *)
LEMMA InitTypeOK == Init => TypeOK
  <1> SUFFICES ASSUME Init PROVE TypeOK
    OBVIOUS
  <1>1. 0 \in Packs
    BY DEF Packs
  <1> QED
    BY <1>1 DEF Init, TypeOK, CaseStatuses, NoBundle, BundleStatus

LEMMA EdgesStayInTheGraph ==
  ASSUME NEW from \in CaseStatuses, NEW to, CanTransition(from, to)
  PROVE  to \in CaseStatuses
  BY DEF CanTransition, NextStatuses, CaseStatuses

LEMMA TransitionType ==
  ASSUME TypeOK, NEW c \in Cases, NEW to, Transition(c, to)
  PROVE  /\ to \in CaseStatuses
         /\ status' \in [Cases -> CaseStatuses]
  <1>1. status[c] \in CaseStatuses
    BY DEF TypeOK
  <1>2. to \in CaseStatuses
    BY <1>1, EdgesStayInTheGraph DEF Transition
  <1> QED
    BY <1>2 DEF Transition, TypeOK

LEMMA AppendType ==
  ASSUME TypeOK, NEW C \in SUBSET Cases, NEW b \in Bundles, NEW p, AppendCases(C, b, p)
  PROVE  /\ status' \in [Cases -> CaseStatuses]
         /\ link' \in [Cases -> Bundles \cup {None}]
         /\ item' \in [Cases -> Item \cup {NoItem}]
  <1>1. p \in Packs
    BY DEF AppendCases
  <1>2. [bundle |-> b, pack |-> p, by |-> "teamlead"] \in Item
    BY <1>1 DEF Item
  <1> QED
    BY <1>2 DEF AppendCases, TypeOK, CaseStatuses

LEMMA PlaceType ==
  ASSUME TypeOK, NEW C \in SUBSET Cases, NEW b \in Bundles, NEW p, Place(C, b, p)
  PROVE  /\ status' \in [Cases -> CaseStatuses]
         /\ link' \in [Cases -> Bundles \cup {None}]
         /\ item' \in [Cases -> Item \cup {NoItem}]
         /\ p \in Packs
  <1>1. p \in Packs
    BY DEF Place
  <1>2. [bundle |-> b, pack |-> p, by |-> "system"] \in Item
    BY <1>1 DEF Item
  <1> QED
    BY <1>1, <1>2 DEF Place, TypeOK, CaseStatuses

LEMMA TakeBackType ==
  ASSUME TypeOK, NEW C \in SUBSET Cases, TakeBack(C)
  PROVE  /\ status' \in [Cases -> CaseStatuses]
         /\ link' \in [Cases -> Bundles \cup {None}]
         /\ item' \in [Cases -> Item \cup {NoItem}]
  BY DEF TakeBack, TypeOK, CaseStatuses

LEMMA CreateType ==
  ASSUME TypeOK, NEW b \in Bundles, Create(b)
  PROVE  bundle' \in [Bundles -> [status : BundleStatus, active : Packs]]
  <1>1. NewBundle \in [status : BundleStatus, active : Packs]
    BY DEF NewBundle, BundleStatus, Packs
  <1> QED
    BY <1>1 DEF Create, TypeOK

(* The engine plans cases of the pool into new or released bundles. *)
LEMMA PlanDomain ==
  ASSUME NEW pool \in SUBSET Cases, NEW gone \in SUBSET Bundles,
         NEW plan \in Plans(pool, gone)
  PROVE  /\ DOMAIN plan \subseteq pool
         /\ \A c \in DOMAIN plan :
              /\ plan[c] \in Bundles
              /\ ~Exists(plan[c]) \/ plan[c] \in gone
              /\ OpenBundles(Owner[plan[c]]) \subseteq gone
  <1> DEFINE free   == {e \in Employees : OpenBundles(e) \subseteq gone}
             fresh  == {b \in Bundles : (~Exists(b) \/ b \in gone) /\ Owner[b] \in free}
             usable == {c \in pool : "Lagerplatz" \notin missing[c]}
  <1>1. PICK P \in SUBSET usable : plan \in [P -> fresh]
    BY DEF Plans
  <1> QED
    BY <1>1

LEMMA AdoptType ==
  ASSUME TypeOK, NEW reverted \in SUBSET Cases, NEW gone \in SUBSET Bundles,
         NEW plan \in Plans(Pool \cup reverted, gone), Adopt(plan, reverted, gone)
  PROVE  /\ status' \in [Cases -> CaseStatuses]
         /\ link' \in [Cases -> Bundles \cup {None}]
         /\ item' \in [Cases -> Item \cup {NoItem}]
         /\ bundle' \in [Bundles -> [status : BundleStatus, active : Packs]]
  <1>1. Pool \cup reverted \in SUBSET Cases
    BY DEF Pool
  <1>2. \A c \in DOMAIN plan : plan[c] \in Bundles
    BY <1>1, PlanDomain
  <1>3. 0 \in Packs
    BY DEF Packs
  <1>4. \A c \in DOMAIN plan : [bundle |-> plan[c], pack |-> 0, by |-> "system"] \in Item
    BY <1>2, <1>3 DEF Item
  <1>5. item' \in [Cases -> Item \cup {NoItem}]
    BY <1>4 DEF Adopt, TypeOK
  <1>6. status' \in [Cases -> CaseStatuses]
    BY DEF Adopt, TypeOK, CaseStatuses
  <1>7. link' \in [Cases -> Bundles \cup {None}]
    BY <1>2 DEF Adopt, TypeOK
  <1>8. bundle' \in [Bundles -> [status : BundleStatus, active : Packs]]
    BY <1>3 DEF Adopt, TypeOK, NewBundle, NoBundle, BundleStatus
  <1> QED
    BY <1>5, <1>6, <1>7, <1>8

LEMMA RecalculatePlan ==
  ASSUME Recalculate
  PROVE  /\ Revertable \in SUBSET Cases
         /\ Unreferenced(Revertable) \in SUBSET Bundles
         /\ \E plan \in Plans(Pool \cup Revertable, Unreferenced(Revertable)) :
              Adopt(plan, Revertable, Unreferenced(Revertable))
         /\ UNCHANGED <<missing, collected>>
  BY DEF Recalculate, Revertable, Unreferenced

(* A handler leaves the participations alone, ends them for some cases, or is
   one of the three that change a row. *)
LEMMA RowsStep ==
  ASSUME [Next]_vars
  PROVE  UNCHANGED part \/ (\E C \in SUBSET Cases : Dissolve(C)) \/ Sharing
  <1> DEFINE Fine == UNCHANGED part \/ \E C \in SUBSET Cases : Dissolve(C)
  <1>1. \A c \in Cases : {c} \in SUBSET Cases
    OBVIOUS
  <1>2. CASE PoolSteering
    <2>1. Fine
      BY <1>1, <1>2 DEF PoolSteering, Park, Unpark, Approve, Cancel, CompleteIntake, ExportZst
    <2> QED
      BY <2>1
  <1>3. CASE Overrides
    <2>1. ASSUME NEW c \in Cases, NEW b \in Bundles, Withdraw(b, c) PROVE Fine
      BY <1>1, <2>1 DEF Withdraw, TakeBack
    <2>2. ASSUME NEW c \in Cases, NEW b \in Bundles, NEW e \in Employees, NEW p,
                 MoveToEmployee(b, c, e, p)
          PROVE Fine
      BY <1>1, <2>2 DEF MoveToEmployee
    <2>3. Fine
      BY <1>3, <2>1, <2>2 DEF Overrides, AddToBundle, AssignToEmployee, AssignBundleToEmployee,
                              MoveWithinBundle, PauseBundle, ResumeBundle, SetBundleStatus
    <2> QED
      BY <2>3
  <1>4. CASE Recalculate
    BY <1>4 DEF Recalculate, Revertable
  <1>5. CASE Pull
    BY <1>5 DEF Pull, ActivateNextPack, PullIntoOpenBundle, PullNewBundle
  <1>6. CASE Work
    BY <1>6 DEF Work, StartPreparation, Complete, PartialComplete, SendInstruction, ReopenIssue,
                ParkRemaining, TakeBack, SetCollected
  <1> QED
    BY <1>2, <1>3, <1>4, <1>5, <1>6 DEF Next, vars

(* What each of the three does to the rows of its case. *)
Joined(rows, e, o) ==
  rows \cup {[who |-> e, role |-> "helfer", status |-> "angenommen"]}
    \cup IF \E r \in rows : r.who = o THEN {}
         ELSE {[who |-> o, role |-> "inhaber", status |-> "angenommen"]}

LEMMA SharingStep ==
  ASSUME TypeOK, Sharing
  PROVE  \E c \in Cases, new \in SUBSET PartRow :
           /\ part' = [part EXCEPT ![c] = new]
           /\ \/ \E e \in Employees, o \in Employees :
                   /\ e # o
                   /\ \A r \in part[c] : r.who # e
                   /\ new = Joined(part[c], e, o)
              \/ \E r \in part[c] : new = (part[c] \ {r}) \cup {[r EXCEPT !.status = "teil_erledigt"]}
              \/ \E r \in part[c] : r.role = "helfer" /\ new = part[c] \ {r}
  <1>1. PICK c \in Cases, e \in Employees :
          HelperJoins(c, e) \/ PartDone(c, e) \/ HelperRemoved(c, e)
    BY DEF Sharing
  <1>2. part[c] \in SUBSET PartRow
    BY DEF TypeOK
  <1>3. CASE HelperJoins(c, e)
    <2> DEFINE o   == Owner[link[c]]
               new == Joined(part[c], e, o)
    <2>1. o \in Employees
      BY <1>3 DEF HelperJoins, OnSomeCart, TypeOK
    <2>2. new \in SUBSET PartRow
      BY <1>2, <2>1 DEF PartRow, Joined
    <2>3. e # o /\ (\A r \in part[c] : r.who # e) /\ part' = [part EXCEPT ![c] = new]
      BY <1>3 DEF HelperJoins, TypeOK, Joined
    <2> HIDE DEF o, new
    <2>4. new = Joined(part[c], e, o)
      BY DEF new
    <2> QED
      BY <2>1, <2>2, <2>3, <2>4
  <1>4. CASE PartDone(c, e)
    <2>1. PICK r \in part[c] :
            part' = [part EXCEPT ![c] = (@ \ {r}) \cup {[r EXCEPT !.status = "teil_erledigt"]}]
      BY <1>4 DEF PartDone
    <2>2. (part[c] \ {r}) \cup {[r EXCEPT !.status = "teil_erledigt"]} \in SUBSET PartRow
      BY <1>2 DEF PartRow
    <2>3. part' = [part EXCEPT ![c] = (part[c] \ {r}) \cup {[r EXCEPT !.status = "teil_erledigt"]}]
      BY <2>1 DEF TypeOK
    <2> QED
      BY <2>2, <2>3
  <1>5. CASE HelperRemoved(c, e)
    BY <1>2, <1>5 DEF HelperRemoved, TypeOK
  <1> QED
    BY <1>1, <1>3, <1>4, <1>5

LEMMA StepTypeOK == TypeOK /\ [Next]_vars => TypeOK'
  <1> SUFFICES ASSUME TypeOK, [Next]_vars PROVE TypeOK'
    OBVIOUS
  <1>p. part' \in [Cases -> SUBSET PartRow]
    <2>1. CASE UNCHANGED part
      BY <2>1 DEF TypeOK
    <2>2. ASSUME NEW C \in SUBSET Cases, Dissolve(C) PROVE part' \in [Cases -> SUBSET PartRow]
      BY <2>2 DEF Dissolve, TypeOK
    <2>3. CASE Sharing
      BY <2>3, SharingStep DEF TypeOK
    <2> QED
      BY <2>1, <2>2, <2>3, RowsStep
  <1> USE <1>p
  <1>1. CASE UNCHANGED vars
    BY <1>1 DEF vars, TypeOK
  <1>2. ASSUME NEW c \in Cases, Park(c) \/ Unpark(c) \/ Approve(c) \/ Cancel(c)
        PROVE TypeOK'
    <2>1. status' \in [Cases -> CaseStatuses]
      BY <1>2, TransitionType DEF Park, Unpark, Approve, Cancel
    <2> QED
      BY <1>2, <2>1 DEF Park, Unpark, Approve, Cancel, TypeOK
  <1>3. ASSUME NEW c \in Cases, NEW supplied \in SUBSET IntakeFields, CompleteIntake(c, supplied)
        PROVE TypeOK'
    BY <1>3 DEF CompleteIntake, TypeOK, CaseStatuses
  <1>4. CASE ExportZst
    BY <1>4 DEF ExportZst, TypeOK, CaseStatuses
  <1>5. ASSUME NEW b \in Bundles, NEW c \in Cases, Withdraw(b, c)
        PROVE TypeOK'
    <2>1. {c} \in SUBSET Cases
      OBVIOUS
    <2> QED
      BY <1>5, <2>1, TakeBackType DEF Withdraw, TypeOK
  <1>6. ASSUME NEW b \in Bundles, NEW C \in SUBSET Cases, NEW p, AppendCases(C, b, p),
               Create(b) \/ UNCHANGED bundle, UNCHANGED <<missing, collected>>
        PROVE TypeOK'
    BY <1>6, AppendType, CreateType DEF TypeOK
  <1>7. ASSUME NEW b \in Bundles, NEW c \in Cases, AddToBundle(b, c)
        PROVE TypeOK'
    BY <1>7, <1>6 DEF AddToBundle
  <1>8. ASSUME NEW e \in Employees, NEW c \in Cases, NEW newPack \in BOOLEAN,
               AssignToEmployee(e, c, newPack)
        PROVE TypeOK'
    BY <1>8, <1>6 DEF AssignToEmployee
  <1>9. ASSUME NEW e \in Employees, NEW C \in SUBSET Cases, AssignBundleToEmployee(e, C)
        PROVE TypeOK'
    BY <1>9, <1>6 DEF AssignBundleToEmployee
  <1>10. ASSUME NEW b \in Bundles, NEW c \in Cases, NEW p \in Packs, MoveWithinBundle(b, c, p)
         PROVE TypeOK'
    BY <1>10 DEF MoveWithinBundle, TypeOK, Item
  <1>11. ASSUME NEW src \in Bundles, NEW c \in Cases, NEW e \in Employees, NEW p,
                MoveToEmployee(src, c, e, p)
         PROVE TypeOK'
    BY <1>11, <1>6 DEF MoveToEmployee
  <1>12. ASSUME NEW b \in Bundles, PauseBundle(b) \/ ResumeBundle(b)
         PROVE TypeOK'
    BY <1>12 DEF PauseBundle, ResumeBundle, SetBundleStatus, TypeOK, BundleStatus
  <1>13. CASE Recalculate
    BY <1>13, RecalculatePlan, AdoptType DEF TypeOK
  <1>14. ASSUME NEW b \in Bundles, ActivateNextPack(b)
         PROVE TypeOK'
    BY <1>14 DEF ActivateNextPack, TypeOK
  <1>15. ASSUME NEW b \in Bundles, NEW C \in SUBSET Cases, PullIntoOpenBundle(b, C)
         PROVE TypeOK'
    BY <1>15, PlaceType DEF PullIntoOpenBundle, TypeOK
  <1>16. ASSUME NEW b \in Bundles, NEW C \in SUBSET Cases, PullNewBundle(b, C)
         PROVE TypeOK'
    BY <1>16, PlaceType, CreateType DEF PullNewBundle, TypeOK
  <1>17. ASSUME NEW c \in Cases, StartPreparation(c) \/ Complete(c)
         PROVE TypeOK'
    <2>1. status' \in [Cases -> CaseStatuses]
      BY <1>17, TransitionType DEF StartPreparation, Complete
    <2>2. bundle' \in [Bundles -> [status : BundleStatus, active : Packs]]
      BY <1>17 DEF StartPreparation, Complete, CloseIfDone, TypeOK, BundleStatus
    <2> QED
      BY <1>17, <2>1, <2>2 DEF StartPreparation, Complete, TypeOK
  <1>18. ASSUME NEW c \in Cases, PartialComplete(c) \/ SendInstruction(c) \/ ReopenIssue(c)
         PROVE TypeOK'
    <2>1. status' \in [Cases -> CaseStatuses]
      BY <1>18, TransitionType DEF PartialComplete, SendInstruction, ReopenIssue
    <2> QED
      BY <1>18, <2>1 DEF PartialComplete, SendInstruction, ReopenIssue, TypeOK
  <1>19. ASSUME NEW b \in Bundles, NEW C \in SUBSET Cases, ParkRemaining(b, C)
         PROVE TypeOK'
    BY <1>19, TakeBackType DEF ParkRemaining, TypeOK
  <1>20. ASSUME NEW c \in Cases, NEW v \in BOOLEAN, SetCollected(c, v)
         PROVE TypeOK'
    BY <1>20 DEF SetCollected, TypeOK
  <1>21. CASE Sharing
    BY <1>21 DEF Sharing, HelperJoins, PartDone, HelperRemoved, TypeOK
  <1> QED
    BY <1>1, <1>2, <1>3, <1>4, <1>5, <1>7, <1>8, <1>9, <1>10, <1>11, <1>12, <1>13,
       <1>14, <1>15, <1>16, <1>17, <1>18, <1>19, <1>20, <1>21
    DEF Next, PoolSteering, Overrides, Pull, Work

(* Every reachable state has the column types: no handler writes a status, a
   link, an item or a pack the schema does not know. *)
THEOREM TypeCorrect == Spec => []TypeOK
  BY InitTypeOK, StepTypeOK, PTL DEF Spec

-----------------------------------------------------------------------------
(* The parts of the invariant. *)

HeldAt(c) ==
  status[c] \in Started \cup {"assigned"} =>
    link[c] \in Bundles /\ IsOpen(link[c]) /\ item[c].bundle = link[c]

DoneAt(c) ==
  status[c] \in {"completed", "zst_done"} =>
    link[c] \in Bundles /\ Exists(link[c]) /\ item[c].bundle = link[c]

(* Cancel leaves the item behind; otherwise link and item name one bundle. *)
LinkAt(c) == item[c] # NoItem /\ status[c] # "cancelled" => link[c] = item[c].bundle

Placed(c) == HeldAt(c) /\ DoneAt(c) /\ LinkAt(c)

Safe == OneOpenBundlePerEmployee /\ \A c \in Cases : Placed(c)

IInv == TypeOK /\ Safe

LEMMA InitIInv == Init => IInv
  <1> SUFFICES ASSUME Init PROVE IInv
    OBVIOUS
  <1>1. \A c \in Cases : Placed(c)
    BY DEF Init, Placed, HeldAt, DoneAt, LinkAt, Started
  <1>2. OneOpenBundlePerEmployee
    BY DEF Init, OneOpenBundlePerEmployee, IsOpen, NoBundle
  <1> QED
    BY <1>1, <1>2, InitTypeOK DEF IInv, Safe

(* Bundles keep existing and keep being open, unless none of the cases linked
   to them needs it. *)
LEMMA PlacedUntouched ==
  ASSUME NEW c \in Cases, Placed(c),
         status'[c] = status[c], link'[c] = link[c], item'[c] = item[c],
         IsOpen(link[c]) => IsOpen(link[c])', Exists(link[c]) => Exists(link[c])'
  PROVE  Placed(c)'
  BY DEF Placed, HeldAt, DoneAt, LinkAt

(* No bundle row is written. *)
LEMMA SameBundles ==
  ASSUME UNCHANGED bundle
  PROVE  /\ \A b : (IsOpen(b)' <=> IsOpen(b)) /\ (Exists(b)' <=> Exists(b))
         /\ OneOpenBundlePerEmployee => OneOpenBundlePerEmployee'
  BY DEF IsOpen, Exists, OneOpenBundlePerEmployee

LEMMA EdgesIntoWork ==
  ASSUME NEW from \in CaseStatuses, NEW to \in {"in_progress", "issue_open", "problem_resolved", "completed"},
         CanTransition(from, to)
  PROVE  from \in Started \cup {"assigned"}
  BY DEF CanTransition, NextStatuses, CaseStatuses, Started

LEMMA NothingLeavesCancelled == \A to : ~CanTransition("cancelled", to)
  BY DEF CanTransition, NextStatuses

(* The status of one case follows an edge, its link and its item stay. *)
LEMMA PlacedTransition ==
  ASSUME TypeOK, NEW c \in Cases, Placed(c),
         NEW to \in {"ready", "parked", "cancelled",
                     "in_progress", "issue_open", "problem_resolved", "completed"},
         CanTransition(status[c], to),
         status'[c] = to,
         to # "cancelled" => link'[c] = link[c],
         item'[c] = item[c],
         \A b \in Bundles : Exists(b) => Exists(b)',
         \A b \in Bundles : b = link[c] /\ IsOpen(b) /\ to # "completed" => IsOpen(b)'
  PROVE  Placed(c)'
  <1>1. CASE to \in {"ready", "parked", "cancelled"}
    <2>1. status[c] # "cancelled"
      BY NothingLeavesCancelled
    <2> QED
      BY <1>1, <2>1 DEF Placed, HeldAt, DoneAt, LinkAt, Started
  <1>2. CASE to \notin {"ready", "parked", "cancelled"}
    <2>1. status[c] \in Started \cup {"assigned"}
      BY <1>2, EdgesIntoWork DEF TypeOK
    <2>2. link[c] \in Bundles /\ IsOpen(link[c]) /\ item[c].bundle = link[c]
      BY <2>1 DEF Placed, HeldAt
    <2>3. link'[c] = link[c] /\ item'[c] = item[c]
      BY <1>2
    <2>4. CASE to = "completed"
      <3>1. \A b \in Bundles : b = link[c] => Exists(b)'
        BY <2>2 DEF IsOpen, Exists
      <3> QED
        BY <2>2, <2>3, <2>4, <3>1 DEF Placed, HeldAt, DoneAt, LinkAt, Started, Exists
    <2>5. CASE to # "completed"
      <3>1. \A b \in Bundles : b = link[c] => IsOpen(b)'
        BY <2>2, <2>5
      <3> QED
        BY <1>2, <2>2, <2>3, <2>5, <3>1 DEF Placed, HeldAt, DoneAt, LinkAt, Started, IsOpen
    <2> QED
      BY <2>4, <2>5
  <1> QED
    BY <1>1, <1>2

(* One open bundle per employee survives whatever opens no further bundle. *)
LEMMA NothingOpened ==
  ASSUME OneOpenBundlePerEmployee, \A b \in Bundles : IsOpen(b)' => IsOpen(b)
  PROVE  OneOpenBundlePerEmployee'
  BY DEF OneOpenBundlePerEmployee

(* findOrCreateBundleTx: the one open bundle stays the one. *)
LEMMA CreateKeepsOneOpen ==
  ASSUME TypeOK, OneOpenBundlePerEmployee, NEW e \in Employees, NEW b \in Bundles,
         IsTarget(b, e), Create(b)
  PROVE  /\ OneOpenBundlePerEmployee'
         /\ IsOpen(b)'
         /\ \A d : d \in Bundles => /\ IsOpen(d) => IsOpen(d)'
                                    /\ Exists(d) => Exists(d)'
  <1>1. \A d \in Bundles : d # b => bundle'[d] = bundle[d]
    BY DEF Create, TypeOK
  <1>2. bundle'[b] = IF Exists(b) THEN bundle[b] ELSE NewBundle
    BY DEF Create, TypeOK
  <1>3. CASE OpenBundles(e) # {}
    <2>1. IsOpen(b) /\ Exists(b)
      BY <1>3 DEF IsTarget, IsOpen, Exists
    <2>2. \A d \in Bundles : bundle'[d] = bundle[d]
      BY <1>1, <1>2, <2>1
    <2> QED
      BY <2>1, <2>2 DEF IsOpen, Exists, OneOpenBundlePerEmployee
  <1>4. CASE OpenBundles(e) = {}
    <2>1. ~Exists(b) /\ Owner[b] = e
      BY <1>4 DEF IsTarget
    <2>2. bundle'[b] = NewBundle
      BY <1>2, <2>1
    <2>3. \A d \in Bundles : IsOpen(d) => Owner[d] # e
      BY <1>4 DEF OpenBundles
    <2>4. IsOpen(b)' /\ Exists(b)'
      BY <2>2 DEF IsOpen, Exists, NewBundle
    <2>5. \A d \in Bundles : d # b => (IsOpen(d)' <=> IsOpen(d)) /\ (Exists(d)' <=> Exists(d))
      BY <1>1 DEF IsOpen, Exists
    <2> QED
      BY <2>1, <2>3, <2>4, <2>5 DEF OneOpenBundlePerEmployee
  <1> QED
    BY <1>3, <1>4

(* Cases put on an open bundle are placed; the others keep their places. *)
LEMMA AppendKeepsPlaced ==
  ASSUME TypeOK, \A c \in Cases : Placed(c),
         NEW C \in SUBSET Cases, NEW b \in Bundles, NEW p, AppendCases(C, b, p),
         IsOpen(b)',
         \A d : d \in Bundles => (IsOpen(d) => IsOpen(d)') /\ (Exists(d) => Exists(d)')
  PROVE  \A c \in Cases : Placed(c)'
  <1> TAKE c \in Cases
  <1>1. CASE c \in C
    <2>1. status'[c] = "assigned" /\ link'[c] = b /\ item'[c].bundle = b
      BY <1>1 DEF AppendCases
    <2> QED
      BY <2>1 DEF Placed, HeldAt, DoneAt, LinkAt, IsOpen
  <1>2. CASE c \notin C
    <2>1. status'[c] = status[c] /\ link'[c] = link[c] /\ item'[c] = item[c]
      BY <1>2 DEF AppendCases
    <2> QED
      BY <2>1 DEF Placed, HeldAt, DoneAt, LinkAt, IsOpen, Exists
  <1> QED
    BY <1>1, <1>2

LEMMA PlaceKeepsPlaced ==
  ASSUME TypeOK, \A c \in Cases : Placed(c),
         NEW C \in SUBSET Pool, NEW b \in Bundles, NEW p, Place(C, b, p),
         IsOpen(b)',
         \A d : d \in Bundles => (IsOpen(d) => IsOpen(d)') /\ (Exists(d) => Exists(d)')
  PROVE  \A c \in Cases : Placed(c)'
  <1> TAKE c \in Cases
  <1>1. CASE c \in C
    <2>1. status'[c] = "assigned" /\ link'[c] = b /\ item'[c].bundle = b
      BY <1>1 DEF Place
    <2> QED
      BY <2>1 DEF Placed, HeldAt, DoneAt, LinkAt, IsOpen
  <1>2. CASE c \notin C
    <2>1. status'[c] = status[c] /\ link'[c] = link[c] /\ item'[c] = item[c]
      BY <1>2 DEF Place
    <2> QED
      BY <2>1 DEF Placed, HeldAt, DoneAt, LinkAt, IsOpen, Exists
  <1> QED
    BY <1>1, <1>2

LEMMA TakeBackKeepsPlaced ==
  ASSUME TypeOK, \A c \in Cases : Placed(c), NEW C \in SUBSET Cases, TakeBack(C), UNCHANGED bundle
  PROVE  \A c \in Cases : Placed(c)'
  <1> TAKE c \in Cases
  <1>1. CASE c \in C
    <2>1. status'[c] = "ready" /\ item'[c] = NoItem
      BY <1>1 DEF TakeBack
    <2> QED
      BY <2>1 DEF Placed, HeldAt, DoneAt, LinkAt, Started
  <1>2. CASE c \notin C
    <2>1. status'[c] = status[c] /\ link'[c] = link[c] /\ item'[c] = item[c]
      BY <1>2 DEF TakeBack
    <2> QED
      BY <2>1, PlacedUntouched, SameBundles
  <1> QED
    BY <1>1, <1>2

-----------------------------------------------------------------------------
(* A recalculation deletes no bundle that anything but reverted cases is
   linked to, and opens one only for an employee who has none left. *)
LEMMA AdoptKeepsPlaced ==
  ASSUME TypeOK, \A c \in Cases : Placed(c),
         NEW plan \in Plans(Pool \cup Revertable, Unreferenced(Revertable)),
         Adopt(plan, Revertable, Unreferenced(Revertable))
  PROVE  \A c \in Cases : Placed(c)'
  <1> DEFINE R == Revertable
             G == Unreferenced(Revertable)
  <1>1. Pool \cup R \in SUBSET Cases /\ G \in SUBSET Bundles
    BY DEF Pool, Revertable, Unreferenced
  <1>2. /\ DOMAIN plan \subseteq Pool \cup R
        /\ \A c \in DOMAIN plan : plan[c] \in Bundles /\ (~Exists(plan[c]) \/ plan[c] \in G)
    BY <1>1, PlanDomain
  <1>3. \A c \in DOMAIN plan : bundle'[plan[c]] = NewBundle
    BY <1>2 DEF Adopt
  <1>4. \A b \in Bundles : Exists(b) /\ b \notin G => bundle'[b] = bundle[b]
    BY <1>2 DEF Adopt
  <1> TAKE c \in Cases
  <1>5. CASE c \in DOMAIN plan
    <2>1. status'[c] = "assigned" /\ link'[c] = plan[c] /\ item'[c].bundle = plan[c]
      BY <1>5 DEF Adopt
    <2>2. plan[c] \in Bundles /\ IsOpen(plan[c])'
      BY <1>5, <1>2, <1>3 DEF IsOpen, NewBundle
    <2> QED
      BY <2>1, <2>2 DEF Placed, HeldAt, DoneAt, LinkAt, IsOpen
  <1>6. CASE c \notin DOMAIN plan /\ c \in R
    <2>1. status'[c] = "ready" /\ item'[c] = NoItem
      BY <1>6 DEF Adopt
    <2> QED
      BY <2>1 DEF Placed, HeldAt, DoneAt, LinkAt, Started
  <1>7. CASE c \notin DOMAIN plan /\ c \notin R
    <2>1. status'[c] = status[c]
      BY <1>7 DEF Adopt
    <2>2. CASE status[c] \in Started \cup {"assigned", "completed", "zst_done"}
      <3>1. /\ link[c] \in Bundles /\ Exists(link[c]) /\ item[c].bundle = link[c]
            /\ status[c] \in Started \cup {"assigned"} => IsOpen(link[c])
        BY <2>2 DEF Placed, HeldAt, DoneAt, LinkAt, IsOpen, Exists
      <3>2. link[c] \notin G
        BY <1>7, <3>1 DEF Unreferenced, Linked
      <3>3. c \notin Pool
        BY <2>2 DEF Pool, Started
      <3>4. link'[c] = link[c] /\ item'[c] = item[c]
        BY <1>7, <3>1, <3>2, <3>3 DEF Adopt
      <3>5. bundle'[link[c]] = bundle[link[c]]
        BY <1>4, <3>1, <3>2
      <3>6. link'[c] \in Bundles /\ item'[c].bundle = link'[c] /\ bundle'[link'[c]] = bundle[link[c]]
        BY <3>1, <3>4, <3>5
      <3> QED
        BY <2>1, <3>1, <3>6 DEF Placed, HeldAt, DoneAt, LinkAt, IsOpen, Exists
    <2>3. CASE status[c] \notin Started \cup {"assigned", "completed", "zst_done"}
      <3>1. item'[c] = NoItem \/ (item'[c] = item[c] /\ item[c].bundle \notin G)
        BY <1>7 DEF Adopt
      <3>2. link[c] \notin G => link'[c] = link[c]
        BY <1>7 DEF Adopt
      <3>3. item'[c] # NoItem /\ status[c] # "cancelled" => link'[c] = item'[c].bundle
        BY <3>1, <3>2 DEF Placed, LinkAt
      <3> QED
        BY <2>1, <2>3, <3>3 DEF Placed, HeldAt, DoneAt, LinkAt
    <2> QED
      BY <2>2, <2>3
  <1> QED
    BY <1>5, <1>6, <1>7

LEMMA PlanOnePerEmployee ==
  ASSUME NEW pool, NEW gone, NEW plan \in Plans(pool, gone)
  PROVE  \A c, d \in DOMAIN plan : Owner[plan[c]] = Owner[plan[d]] => plan[c] = plan[d]
  BY DEF Plans

LEMMA AdoptKeepsOneOpen ==
  ASSUME TypeOK, OneOpenBundlePerEmployee, NEW reverted \in SUBSET Cases, NEW gone \in SUBSET Bundles,
         NEW plan \in Plans(Pool \cup reverted, gone), Adopt(plan, reverted, gone)
  PROVE  OneOpenBundlePerEmployee'
  <1> DEFINE Planned(b) == \E c \in DOMAIN plan : plan[c] = b
  <1>1. Pool \cup reverted \in SUBSET Cases
    BY DEF Pool
  <1>2. \A c \in DOMAIN plan : OpenBundles(Owner[plan[c]]) \subseteq gone
    BY <1>1, PlanDomain, Zenon
  <1>3. \A b \in Bundles : IsOpen(b)' => Planned(b) \/ (IsOpen(b) /\ b \notin gone)
    <2> TAKE b \in Bundles
    <2>1. bundle'[b] = IF Planned(b) THEN NewBundle ELSE IF b \in gone THEN NoBundle ELSE bundle[b]
      BY DEF Adopt
    <2> HIDE DEF Planned
    <2> QED
      BY <2>1 DEF IsOpen, NoBundle
  <1>4. \A b, d \in Bundles : Planned(b) /\ Planned(d) /\ Owner[b] = Owner[d] => b = d
    <2>1. \A c, d \in DOMAIN plan : Owner[plan[c]] = Owner[plan[d]] => plan[c] = plan[d]
      BY PlanOnePerEmployee
    <2> QED
      BY <2>1
  <1>5. \A b, d \in Bundles : Planned(b) /\ IsOpen(d) /\ Owner[b] = Owner[d] => d \in gone
    BY <1>2 DEF OpenBundles
  <1> HIDE DEF Planned
  <1> QED
    BY <1>3, <1>4, <1>5 DEF OneOpenBundlePerEmployee

-----------------------------------------------------------------------------
(* The handlers that move one case by the workflow and write no bundle. *)
LEMMA TransitionKeepsPlaced ==
  ASSUME IInv, NEW c \in Cases,
         NEW to \in {"ready", "parked", "cancelled",
                     "in_progress", "issue_open", "problem_resolved", "completed"},
         Transition(c, to), UNCHANGED item,
         \/ UNCHANGED link
         \/ to = "cancelled" /\ link' = [link EXCEPT ![c] = None],
         \A b \in Bundles : Exists(b) => Exists(b)',
         \A b \in Bundles : b = link[c] /\ IsOpen(b) /\ to # "completed" => IsOpen(b)',
         \A b \in Bundles, d \in Cases :
           d # c /\ b = link[d] /\ IsOpen(b) /\ status[d] \in Started \cup {"assigned"} => IsOpen(b)'
  PROVE  \A d \in Cases : Placed(d)'
  <1> TAKE d \in Cases
  <1>0. TypeOK /\ Placed(c) /\ Placed(d)
    BY DEF IInv, Safe
  <1>1. CASE d = c
    <2>1. status'[c] = to /\ CanTransition(status[c], to)
      BY <1>0 DEF Transition, TypeOK
    <2>2. (to # "cancelled" => link'[c] = link[c]) /\ item'[c] = item[c]
      OBVIOUS
    <2> QED
      BY <1>0, <1>1, <2>1, <2>2, PlacedTransition
  <1>2. CASE d # c
    <2>1. status'[d] = status[d] /\ link'[d] = link[d] /\ item'[d] = item[d]
      BY <1>0, <1>2 DEF Transition, TypeOK
    <2>2. CASE status[d] \in Started \cup {"assigned"}
      <3>1. link[d] \in Bundles /\ IsOpen(link[d]) /\ item[d].bundle = link[d]
        BY <1>0, <2>2 DEF Placed, HeldAt
      <3>2. \A b \in Bundles : b = link[d] => IsOpen(b)'
        BY <1>2, <2>2, <3>1
      <3> QED
        BY <2>1, <2>2, <3>1, <3>2 DEF Placed, HeldAt, DoneAt, LinkAt, Started, IsOpen
    <2>3. CASE status[d] \notin Started \cup {"assigned"}
      BY <1>0, <2>1, <2>3 DEF Placed, HeldAt, DoneAt, LinkAt, Exists
    <2> QED
      BY <2>2, <2>3
  <1> QED
    BY <1>1, <1>2

(* One step per handler; what writes no row of a placement is stated first. *)
LEMMA StepIInv == IInv /\ [Next]_vars => IInv'
  <1> SUFFICES ASSUME IInv, [Next]_vars PROVE Safe'
    BY StepTypeOK DEF IInv
  <1>t. TypeOK /\ OneOpenBundlePerEmployee /\ (\A c \in Cases : Placed(c)) /\ TypeOK'
    BY StepTypeOK DEF IInv, Safe
  <1>s. ASSUME UNCHANGED <<status, link, item, bundle>> PROVE Safe'
    BY <1>t, <1>s DEF Safe, OneOpenBundlePerEmployee, Placed, HeldAt, DoneAt, LinkAt, IsOpen, Exists
  <1>1. CASE UNCHANGED vars
    <2>1. UNCHANGED <<status, link, item, bundle>>
      BY <1>1 DEF vars
    <2> QED
      BY <2>1, <1>s
  <1>2. ASSUME NEW c \in Cases,
               \/ Park(c) \/ Unpark(c) \/ Approve(c) \/ Cancel(c)
               \/ PartialComplete(c) \/ SendInstruction(c) \/ ReopenIssue(c)
        PROVE Safe'
    <2>1. PICK to \in {"ready", "parked", "cancelled", "issue_open", "problem_resolved"} :
            /\ Transition(c, to)
            /\ UNCHANGED <<item, bundle>>
            /\ UNCHANGED link \/ (to = "cancelled" /\ link' = [link EXCEPT ![c] = None])
      BY <1>2 DEF Park, Unpark, Approve, Cancel, PartialComplete, SendInstruction, ReopenIssue
    <2>2. \A d \in Cases : Placed(d)'
      BY <2>1, SameBundles, TransitionKeepsPlaced
    <2> QED
      BY <1>t, <2>1, <2>2, SameBundles DEF Safe
  <1>3. ASSUME NEW c \in Cases, NEW supplied \in SUBSET IntakeFields, CompleteIntake(c, supplied)
        PROVE Safe'
    <2>1. \A d \in Cases : Placed(d)'
      BY <1>3, <1>t DEF CompleteIntake, TypeOK, Placed, HeldAt, DoneAt, LinkAt, Started, IsOpen, Exists
    <2> QED
      BY <1>3, <1>t, <2>1, SameBundles DEF CompleteIntake, Safe
  <1>4. CASE ExportZst
    <2>1. \A d \in Cases : Placed(d)'
      BY <1>4, <1>t DEF ExportZst, TypeOK, Placed, HeldAt, DoneAt, LinkAt, Started, IsOpen, Exists
    <2> QED
      BY <1>4, <1>t, <2>1, SameBundles DEF ExportZst, Safe
  <1>5. ASSUME NEW C \in SUBSET Cases, TakeBack(C), UNCHANGED bundle
        PROVE Safe'
    BY <1>5, <1>t, TakeBackKeepsPlaced, SameBundles DEF Safe
  <1>6. ASSUME NEW C \in SUBSET Cases, NEW b \in Bundles, NEW p, AppendCases(C, b, p),
               \/ IsOpen(b) /\ UNCHANGED bundle
               \/ \E e \in Employees : IsTarget(b, e) /\ Create(b)
        PROVE Safe'
    <2>1. /\ OneOpenBundlePerEmployee'
          /\ IsOpen(b)'
          /\ \A d : d \in Bundles => (IsOpen(d) => IsOpen(d)') /\ (Exists(d) => Exists(d)')
      BY <1>6, <1>t, SameBundles, CreateKeepsOneOpen
    <2> QED
      BY <1>6, <1>t, <2>1, AppendKeepsPlaced DEF Safe
  <1>7. ASSUME NEW c \in Cases,
               \/ \E b \in Bundles : Withdraw(b, c) \/ AddToBundle(b, c)
               \/ \E e \in Employees, newPack \in BOOLEAN : AssignToEmployee(e, c, newPack)
               \/ \E b \in Bundles, e \in Employees, p \in Packs \cup {NoPackNamed} :
                    MoveToEmployee(b, c, e, p)
        PROVE Safe'
    <2>1. {c} \in SUBSET Cases
      OBVIOUS
    <2>2. ASSUME NEW b \in Bundles, Withdraw(b, c)
          PROVE Safe'
      BY <2>1, <2>2, <1>5 DEF Withdraw
    <2>3. ASSUME NEW b \in Bundles, AddToBundle(b, c)
          PROVE Safe'
      BY <2>1, <2>3, <1>6 DEF AddToBundle
    <2>4. ASSUME NEW e \in Employees, NEW newPack \in BOOLEAN, AssignToEmployee(e, c, newPack)
          PROVE Safe'
      BY <2>1, <2>4, <1>6 DEF AssignToEmployee
    <2>5. ASSUME NEW b \in Bundles, NEW e \in Employees, NEW p, MoveToEmployee(b, c, e, p)
          PROVE Safe'
      BY <2>1, <2>5, <1>6 DEF MoveToEmployee
    <2> QED
      BY <1>7, <2>2, <2>3, <2>4, <2>5
  <1>8. ASSUME NEW e \in Employees, NEW C \in SUBSET Cases, AssignBundleToEmployee(e, C)
        PROVE Safe'
    BY <1>8, <1>6 DEF AssignBundleToEmployee
  <1>9. ASSUME NEW b \in Bundles, NEW c \in Cases, NEW p \in Packs, MoveWithinBundle(b, c, p)
        PROVE Safe'
    <2>1. \A d \in Cases : item'[d].bundle = item[d].bundle /\ (item[d] = NoItem => item'[d] = NoItem)
      BY <1>9, <1>t DEF MoveWithinBundle, Members, TypeOK, NoItem
    <2>2. UNCHANGED <<status, link, bundle>>
      BY <1>9 DEF MoveWithinBundle
    <2> QED
      BY <1>t, <2>1, <2>2, SameBundles DEF Safe, Placed, HeldAt, DoneAt, LinkAt, IsOpen, Exists
  <1>10. ASSUME NEW b \in Bundles, PauseBundle(b) \/ ResumeBundle(b) \/ ActivateNextPack(b)
         PROVE Safe'
    <2>1. \A d \in Bundles : (IsOpen(d)' <=> IsOpen(d)) /\ (Exists(d)' <=> Exists(d))
      BY <1>10, <1>t DEF PauseBundle, ResumeBundle, SetBundleStatus, ActivateNextPack,
                         IsOpen, Exists, TypeOK
    <2>2. UNCHANGED <<status, link, item>>
      BY <1>10 DEF PauseBundle, ResumeBundle, SetBundleStatus, ActivateNextPack
    <2>3. OneOpenBundlePerEmployee'
      BY <1>t, <2>1, NothingOpened
    <2>4. \A c \in Cases : Placed(c)'
      BY <1>t, <2>1, <2>2 DEF Placed, HeldAt, DoneAt, LinkAt
    <2> QED
      BY <2>3, <2>4 DEF Safe
  <1>11. CASE Recalculate
    BY <1>11, <1>t, RecalculatePlan, AdoptKeepsPlaced, AdoptKeepsOneOpen DEF Safe
  <1>12. ASSUME NEW b \in Bundles, NEW C \in SUBSET Cases, PullIntoOpenBundle(b, C)
         PROVE Safe'
    <2>1. \A d \in Bundles : (IsOpen(d)' <=> IsOpen(d)) /\ (Exists(d)' <=> Exists(d))
      BY <1>12, <1>t DEF PullIntoOpenBundle, IsOpen, Exists, TypeOK
    <2>2. C \in SUBSET Pool /\ IsOpen(b)
      BY <1>12 DEF PullIntoOpenBundle, Cart, Assignable
    <2>3. PICK p : Place(C, b, p)
      BY <1>12 DEF PullIntoOpenBundle
    <2>4. \A c \in Cases : Placed(c)'
      BY <1>t, <2>1, <2>2, <2>3, PlaceKeepsPlaced
    <2> QED
      BY <1>t, <2>1, <2>4, NothingOpened DEF Safe
  <1>13. ASSUME NEW b \in Bundles, NEW C \in SUBSET Cases, PullNewBundle(b, C)
         PROVE Safe'
    <2>1. Owner[b] \in Employees /\ IsTarget(b, Owner[b]) /\ Create(b)
      BY <1>13 DEF PullNewBundle, IsTarget
    <2>2. /\ OneOpenBundlePerEmployee'
          /\ IsOpen(b)'
          /\ \A d : d \in Bundles => (IsOpen(d) => IsOpen(d)') /\ (Exists(d) => Exists(d)')
      BY <1>t, <2>1, CreateKeepsOneOpen
    <2>3. C \in SUBSET Pool /\ Place(C, b, 0)
      BY <1>13 DEF PullNewBundle, Cart, Assignable
    <2> QED
      BY <1>t, <2>2, <2>3, PlaceKeepsPlaced DEF Safe
  <1>14. ASSUME NEW c \in Cases, StartPreparation(c) PROVE Safe'
    <2>1. \A d : d \in Bundles => (IsOpen(d)' <=> IsOpen(d)) /\ (Exists(d)' <=> Exists(d))
      BY <1>14, <1>t DEF StartPreparation, IsOpen, Exists, TypeOK
    <2>2. link[c] \in Bundles
      BY <1>14, <1>t DEF StartPreparation, OnSomeCart, TypeOK
    <2>3. \A d \in Cases : Placed(d)'
      BY <1>14, <2>1, <2>2, TransitionKeepsPlaced DEF StartPreparation
    <2> QED
      BY <1>t, <2>1, <2>3, NothingOpened DEF Safe
  <1>15. ASSUME NEW c \in Cases, Complete(c) PROVE Safe'
    <2>1. link[c] \in Bundles
      BY <1>15, <1>t DEF Complete, OnSomeCart, TypeOK
    <2>2. \A d : d \in Bundles =>
            /\ IsOpen(d)' => IsOpen(d)
            /\ IsOpen(d) => IsOpen(d)' \/ d = link[c]
            /\ Exists(d) => Exists(d)'
      BY <1>15, <1>t, <2>1 DEF Complete, CloseIfDone, IsOpen, Exists, TypeOK
    <2>3. ASSUME NEW b \in Bundles, NEW d \in Cases, d # c, b = link[d], IsOpen(b),
                 status[d] \in Started \cup {"assigned"}
          PROVE  IsOpen(b)'
      <3>1. status'[d] = status[d]
        BY <1>15, <1>t, <2>3 DEF Complete, Transition, TypeOK
      <3>2. d \in Linked(b) /\ status'[d] \notin DoneForEmployee
        BY <2>3, <3>1 DEF Linked, DoneForEmployee, Started
      <3>3. bundle'[b].status = bundle[b].status
        BY <1>15, <1>t, <2>1, <3>2 DEF Complete, CloseIfDone, TypeOK
      <3> QED
        BY <2>3, <3>3 DEF IsOpen
    <2>4. \A d \in Cases : Placed(d)'
      BY <1>15, <2>1, <2>2, <2>3, TransitionKeepsPlaced DEF Complete
    <2> QED
      BY <1>t, <2>2, <2>4, NothingOpened DEF Safe
  <1>16. ASSUME NEW b \in Bundles, NEW C \in SUBSET Cases, ParkRemaining(b, C)
         PROVE Safe'
    BY <1>16, <1>5 DEF ParkRemaining
  <1>17. ASSUME NEW c \in Cases, NEW v \in BOOLEAN, SetCollected(c, v)
         PROVE Safe'
    BY <1>17, <1>s DEF SetCollected
  <1>18. CASE PoolSteering
    BY <1>18, <1>2, <1>3, <1>4 DEF PoolSteering
  <1>19. CASE Overrides
    BY <1>19, <1>7, <1>8, <1>9, <1>10 DEF Overrides
  <1>20. CASE Pull
    BY <1>20, <1>10, <1>12, <1>13 DEF Pull
  <1>21. CASE Work
    BY <1>21, <1>2, <1>14, <1>15, <1>16, <1>17 DEF Work
  <1>22. CASE Sharing
    BY <1>22, <1>s DEF Sharing, HelperJoins, PartDone, HelperRemoved
  <1> QED
    BY <1>1, <1>11, <1>18, <1>19, <1>20, <1>21, <1>22 DEF Next

LEMMA Invariance == Spec => []IInv
  BY InitIInv, StepIInv, PTL DEF Spec

(* Work somebody holds stays on an open cart, its one item with it, whatever
   sequence of placements, recalculations, pulls and completions was served
   (assignment.service, teamlead.service, closeBundleIfDone). *)
THEOREM HeldWorkSafe == Spec => []HeldWorkIsOnAnOpenCart
  <1>1. IInv => HeldWorkIsOnAnOpenCart
    BY DEF IInv, Safe, Placed, HeldAt, HeldWorkIsOnAnOpenCart
  <1> QED
    BY <1>1, Invariance, PTL

(* Finished work never loses its bundle to a later planning
   (clearPriorPlanForDate). *)
THEOREM DoneWorkSafe == Spec => []DoneWorkKeepsItsBundle
  <1>1. IInv => DoneWorkKeepsItsBundle
    BY DEF IInv, Safe, Placed, DoneAt, DoneWorkKeepsItsBundle
  <1> QED
    BY <1>1, Invariance, PTL

(* No sequence of requests gives an employee a second open bundle
   (findOrCreateBundleTx, persistBundle, assignNextBundle). *)
THEOREM OneOpenBundle == Spec => []OneOpenBundlePerEmployee
  <1>1. IInv => OneOpenBundlePerEmployee
    BY DEF IInv, Safe
  <1> QED
    BY <1>1, Invariance, PTL

-----------------------------------------------------------------------------
(* What the engine may lay hands on: an item is the engine's after a step only
   if it was before, or its case came from the pool or was reverted. *)
Untaken ==
  \A c \in Cases : item'[c].by = "system" => item'[c] = item[c] \/ c \in Pool \cup Revertable

LEMMA EngineWrites ==
  ASSUME TypeOK, [Next]_vars
  PROVE  Untaken
  <1>1. CASE UNCHANGED item
    BY <1>1 DEF Untaken
  <1>2. ASSUME NEW C \in SUBSET Cases, NEW b, NEW p, AppendCases(C, b, p) PROVE Untaken
    BY <1>2 DEF Untaken, AppendCases
  <1>3. ASSUME NEW C \in SUBSET Cases, TakeBack(C) PROVE Untaken
    BY <1>3 DEF Untaken, TakeBack, NoItem
  <1>4. ASSUME NEW C \in SUBSET Pool, NEW b, NEW p, Place(C, b, p) PROVE Untaken
    BY <1>4 DEF Untaken, Place
  <1>5. ASSUME NEW b \in Bundles, NEW c \in Cases, NEW p \in Packs, MoveWithinBundle(b, c, p)
        PROVE Untaken
    BY <1>5 DEF Untaken, MoveWithinBundle, TypeOK
  <1>6. CASE Recalculate
    <2>1. PICK plan \in Plans(Pool \cup Revertable, Unreferenced(Revertable)) :
            Adopt(plan, Revertable, Unreferenced(Revertable))
      BY <1>6, RecalculatePlan
    <2>2. /\ Pool \cup Revertable \in SUBSET Cases
          /\ Unreferenced(Revertable) \in SUBSET Bundles
      BY DEF Pool, Revertable, Unreferenced
    <2>3. DOMAIN plan \subseteq Pool \cup Revertable
      BY <2>2, PlanDomain
    <2> QED
      BY <2>1, <2>3 DEF Untaken, Adopt, NoItem
  <1>7. CASE PoolSteering
    BY <1>1, <1>7 DEF PoolSteering, Park, Unpark, Approve, Cancel, CompleteIntake, ExportZst
  <1>8. CASE Overrides
    <2>1. ASSUME NEW b \in Bundles, NEW c \in Cases, Withdraw(b, c) PROVE Untaken
      BY <1>3, <2>1 DEF Withdraw
    <2>2. ASSUME NEW b \in Bundles, NEW c \in Cases, AddToBundle(b, c) PROVE Untaken
      BY <1>2, <2>2 DEF AddToBundle
    <2>3. ASSUME NEW e \in Employees, NEW c \in Cases, NEW newPack \in BOOLEAN,
                 AssignToEmployee(e, c, newPack)
          PROVE Untaken
      BY <1>2, <2>3 DEF AssignToEmployee
    <2>4. ASSUME NEW e \in Employees, NEW C \in SUBSET Cases, AssignBundleToEmployee(e, C)
          PROVE Untaken
      BY <1>2, <2>4 DEF AssignBundleToEmployee
    <2>5. ASSUME NEW b \in Bundles, NEW c \in Cases, NEW e \in Employees,
                 NEW p \in Packs \cup {NoPackNamed}, MoveToEmployee(b, c, e, p)
          PROVE Untaken
      BY <1>2, <2>5 DEF MoveToEmployee
    <2>6. ASSUME NEW b \in Bundles, PauseBundle(b) \/ ResumeBundle(b) PROVE Untaken
      BY <1>1, <2>6 DEF PauseBundle, ResumeBundle, SetBundleStatus
    <2> QED
      BY <1>8, <1>5, <2>1, <2>2, <2>3, <2>4, <2>5, <2>6 DEF Overrides
  <1>9. CASE Pull
    <2>1. ASSUME NEW b \in Bundles, NEW C \in SUBSET Cases, PullIntoOpenBundle(b, C) \/ PullNewBundle(b, C)
          PROVE Untaken
      BY <1>4, <2>1 DEF PullIntoOpenBundle, PullNewBundle, Cart, Assignable
    <2>2. ASSUME NEW b \in Bundles, ActivateNextPack(b) PROVE Untaken
      BY <1>1, <2>2 DEF ActivateNextPack
    <2> QED
      BY <1>9, <2>1, <2>2 DEF Pull
  <1>10. CASE Work
    <2>1. ASSUME NEW b \in Bundles, NEW C \in SUBSET Cases, ParkRemaining(b, C) PROVE Untaken
      BY <1>3, <2>1 DEF ParkRemaining
    <2> QED
      BY <1>1, <1>10, <2>1 DEF Work, StartPreparation, Complete, PartialComplete, SendInstruction,
                              ReopenIssue, SetCollected
  <1>11. CASE Sharing
    BY <1>1, <1>11 DEF Sharing, HelperJoins, PartDone, HelperRemoved
  <1> QED
    BY <1>1, <1>6, <1>7, <1>8, <1>9, <1>10, <1>11 DEF Next, vars

(* A recalculation plans around the teamlead's placements
   (clearPriorPlanForDate reverts the engine's own items only). *)
THEOREM TeamleadKept == Spec => TeamleadPlacementKept
  <1>1. TypeOK /\ [Next]_vars =>
          \A c \in Cases : item[c].by = "teamlead" /\ status[c] = "assigned" => item'[c].by # "system"
    BY EngineWrites DEF Untaken, Pool, Revertable
  <1>2. TypeOK /\ [Next]_vars =>
          [\A c \in Cases : item[c].by = "teamlead" /\ status[c] = "assigned"
             => item'[c].by # "system"]_vars
    BY <1>1
  <1> QED
    BY <1>2, TypeCorrect, PTL DEF Spec, TeamleadPlacementKept

(* The engine replans no case of a pack that was pulled, fetched from or begun
   (clearPriorPlanForDate). *)
THEOREM RunningPackSafe == Spec => RunningPackUntouched
  <1>1. ASSUME TypeOK, [Next]_vars, NEW c \in Cases, NEW d \in Cases,
               status[c] = "assigned", item[c].bundle # None,
               item[c].pack = bundle[item[c].bundle].active,
               \/ bundle[item[c].bundle].active > 0
               \/ /\ item[d].bundle = item[c].bundle /\ item[d].pack = item[c].pack
                  /\ status[d] # "assigned" \/ collected[d],
               item'[c].by = "system"
        PROVE  item'[c] = item[c]
    <2>1. ActivePackLocked(item[c].bundle)
      BY <1>1 DEF ActivePackLocked, Touched, Members
    <2>2. c \notin Pool \cup Revertable
      BY <1>1, <2>1 DEF Pool, Revertable
    <2> QED
      BY <1>1, <2>2, EngineWrites DEF Untaken
  <1>2. TypeOK /\ [Next]_vars =>
          [\A c, d \in Cases :
             LET b == item[c].bundle
             IN  /\ status[c] = "assigned" /\ b # None
                 /\ item[c].pack = bundle[b].active
                 /\ \/ bundle[b].active > 0
                    \/ /\ item[d].bundle = b /\ item[d].pack = item[c].pack
                       /\ status[d] # "assigned" \/ collected[d]
                 /\ item'[c].by = "system"
                 => item'[c] = item[c]]_vars
    BY <1>1
  <1> QED
    BY <1>2, TypeCorrect, PTL DEF Spec, RunningPackUntouched

-----------------------------------------------------------------------------
(* The running pack of a bundle is left only when nobody holds anything of it
   he could still work on. *)
LeftClear ==
  \A b \in Bundles :
    Exists(b) /\ bundle'[b].status # "none" /\ bundle'[b].active # bundle[b].active
    => \A c \in Members(b) : item[c].pack = bundle[b].active =>
         \/ status[c] \in DoneForEmployee \cup {"issue_open"}
         \/ /\ \E r \in part[c] : r.who = Owner[b] /\ r.status = "teil_erledigt"
            /\ \E r \in part[c] : r.who # Owner[b]

(* A shared case has the row of the owner who shared it first, and one row for
   each of its participants.  So an employee who is the only helper on a case is
   never its only participant. *)
RowsWhole ==
  \A c \in Cases :
    /\ part[c] # {} => \E r \in part[c] : r.role = "inhaber"
    /\ \A r, q \in part[c] : r.who = q.who => r = q

LEMMA InitRowsWhole == Init => RowsWhole
  BY DEF Init, RowsWhole

LEMMA StepRowsWhole == TypeOK /\ RowsWhole /\ [Next]_vars => RowsWhole'
  <1> SUFFICES ASSUME TypeOK, RowsWhole, [Next]_vars PROVE RowsWhole'
    OBVIOUS
  <1>1. CASE UNCHANGED part
    BY <1>1 DEF RowsWhole
  <1>2. ASSUME NEW C \in SUBSET Cases, Dissolve(C) PROVE RowsWhole'
    BY <1>2 DEF Dissolve, RowsWhole
  <1>3. CASE Sharing
    <2>1. PICK c \in Cases, new \in SUBSET PartRow :
           /\ part' = [part EXCEPT ![c] = new]
           /\ \/ \E e \in Employees, o \in Employees :
                   /\ e # o
                   /\ \A r \in part[c] : r.who # e
                   /\ new = Joined(part[c], e, o)
              \/ \E r \in part[c] : new = (part[c] \ {r}) \cup {[r EXCEPT !.status = "teil_erledigt"]}
              \/ \E r \in part[c] : r.role = "helfer" /\ new = part[c] \ {r}
      BY <1>3, SharingStep
    <2>2. /\ part[c] # {} => \E r \in part[c] : r.role = "inhaber"
          /\ \A r, q \in part[c] : r.who = q.who => r = q
          /\ \A r \in part[c] : r \in PartRow
      BY DEF RowsWhole, TypeOK
    <2>3. /\ new # {} => \E r \in new : r.role = "inhaber"
          /\ \A r, q \in new : r.who = q.who => r = q
      <3>1. ASSUME NEW e \in Employees, NEW o \in Employees, e # o,
                   \A r \in part[c] : r.who # e,
                   new = Joined(part[c], e, o)
            PROVE  /\ new # {} => \E r \in new : r.role = "inhaber"
                   /\ \A r, q \in new : r.who = q.who => r = q
        <4> DEFINE helper == [who |-> e, role |-> "helfer", status |-> "angenommen"]
                   first  == [who |-> o, role |-> "inhaber", status |-> "angenommen"]
        <4>1. CASE \E r \in part[c] : r.who = o
          <5>1. new = part[c] \cup {helper}
            BY <3>1, <4>1 DEF Joined
          <5>2. \E r \in part[c] : r.role = "inhaber"
            BY <2>2, <4>1
          <5>3. helper.who = e
            OBVIOUS
          <5> HIDE DEF helper
          <5>4. \E r \in new : r.role = "inhaber"
            BY <5>1, <5>2
          <5>5. ASSUME NEW r \in new, NEW q \in new, r.who = q.who PROVE r = q
            BY <2>2, <3>1, <5>1, <5>3, <5>5
          <5> QED
            BY <5>4, <5>5
        <4>2. CASE \A r \in part[c] : r.who # o
          <5>1. new = part[c] \cup {helper, first}
            BY <3>1, <4>2 DEF Joined
          <5>2. helper.who = e /\ first.who = o /\ first.role = "inhaber"
            OBVIOUS
          <5> HIDE DEF helper, first
          <5>3. \E r \in new : r.role = "inhaber"
            BY <5>1, <5>2
          <5>4. ASSUME NEW r \in new, NEW q \in new, r.who = q.who PROVE r = q
            BY <2>2, <3>1, <4>2, <5>1, <5>2, <5>4
          <5> QED
            BY <5>3, <5>4
        <4> QED
          BY <4>1, <4>2
      <3>2. ASSUME NEW r \in part[c], new = (part[c] \ {r}) \cup {[r EXCEPT !.status = "teil_erledigt"]}
            PROVE  /\ new # {} => \E x \in new : x.role = "inhaber"
                   /\ \A x, q \in new : x.who = q.who => x = q
        <4>1. /\ [r EXCEPT !.status = "teil_erledigt"].who = r.who
              /\ [r EXCEPT !.status = "teil_erledigt"].role = r.role
          BY <2>2 DEF PartRow
        <4> QED
          BY <2>2, <3>2, <4>1
      <3>3. ASSUME NEW r \in part[c], r.role = "helfer", new = part[c] \ {r}
            PROVE  /\ new # {} => \E x \in new : x.role = "inhaber"
                   /\ \A x, q \in new : x.who = q.who => x = q
        BY <2>2, <3>3
      <3> QED
        BY <2>1, <3>1, <3>2, <3>3
    <2>4. \A d \in Cases : part'[d] = IF d = c THEN new ELSE part[d]
      BY <2>1 DEF TypeOK
    <2> QED
      BY <2>3, <2>4 DEF RowsWhole
  <1> QED
    BY <1>1, <1>2, <1>3, RowsStep

LEMMA RowsInvariance == Spec => []RowsWhole
  <1>1. IInv /\ RowsWhole /\ [Next]_vars => RowsWhole'
    BY StepRowsWhole DEF IInv
  <1> QED
    BY <1>1, InitRowsWhole, Invariance, PTL DEF Spec

(* A recalculation that replaces a bundle past its first pack finds only
   cancelled cases in it: its placed cases are protected by the pulled pack. *)
LEMMA ReplacedBundle ==
  ASSUME IInv, NEW plan \in Plans(Pool \cup Revertable, Unreferenced(Revertable)),
         Adopt(plan, Revertable, Unreferenced(Revertable)),
         NEW b \in Bundles, Exists(b), bundle'[b].status # "none",
         bundle'[b].active # bundle[b].active,
         NEW c \in Members(b), item[c].pack = bundle[b].active
  PROVE  status[c] = "cancelled"
  <1> DEFINE G == Unreferenced(Revertable)
  <1>1. Pool \cup Revertable \in SUBSET Cases /\ G \in SUBSET Bundles
    BY DEF Pool, Revertable, Unreferenced
  <1>2. \A d \in DOMAIN plan : ~Exists(plan[d]) \/ plan[d] \in G
    BY <1>1, PlanDomain
  <1>3. bundle'[b] = NewBundle /\ b \in G
    BY <1>2 DEF Adopt, NoBundle
  <1>4. bundle[b].active > 0
    <2>1. bundle[b].active \in Packs /\ bundle[b].active # 0
      BY <1>3 DEF IInv, TypeOK, NewBundle
    <2> QED
      BY <2>1 DEF Packs
  <1>5. item[c] # NoItem /\ item[c].bundle = b /\ c \in Cases
    BY DEF Members, NoItem
  <1>6. c \notin Revertable
    BY <1>4, <1>5 DEF Revertable, ActivePackLocked
  <1>7. link[c] # b
    BY <1>3, <1>5, <1>6 DEF Unreferenced, Linked
  <1> QED
    BY <1>5, <1>7 DEF IInv, Safe, Placed, LinkAt

(* One step per handler that writes a bundle. *)
LEMMA PackStep ==
  ASSUME IInv, RowsWhole, [Next]_vars
  PROVE  LeftClear
  <1>t. TypeOK
    BY DEF IInv
  <1>1. ASSUME \A b \in Bundles : Exists(b) => bundle'[b].active = bundle[b].active PROVE LeftClear
    BY <1>1 DEF LeftClear
  <1>2. CASE UNCHANGED bundle
    BY <1>1, <1>2
  <1>3. ASSUME NEW b \in Bundles, Create(b) PROVE LeftClear
    <2>1. \A d \in Bundles : Exists(d) => bundle'[d] = bundle[d]
      BY <1>3, <1>t DEF Create, TypeOK
    <2> QED
      BY <1>1, <2>1
  <1>4. CASE Recalculate
    <2>1. PICK plan \in Plans(Pool \cup Revertable, Unreferenced(Revertable)) :
            Adopt(plan, Revertable, Unreferenced(Revertable))
      BY <1>4, RecalculatePlan
    <2> QED
      BY <2>1, ReplacedBundle DEF LeftClear, DoneForEmployee
  <1>5. ASSUME NEW b \in Bundles, Blockers(b) = {},
               \A d \in Bundles : d # b => bundle'[d] = bundle[d]
        PROVE LeftClear
    <2>1. \A c \in Members(b) : item[c].pack = bundle[b].active =>
            status[c] \in DoneForEmployee \cup {"issue_open"} \/ c \in PartDoneBy(Owner[b])
      BY <1>5 DEF Blockers, PackAdvanceBlockers, PacksOf
    <2>2. ASSUME NEW c \in Cases, c \in PartDoneBy(Owner[b])
          PROVE  /\ \E r \in part[c] : r.who = Owner[b] /\ r.status = "teil_erledigt"
                 /\ \E r \in part[c] : r.who # Owner[b]
      <3>1. PICK h \in part[c] : h.role = "helfer"
        BY <2>2 DEF PartDoneBy
      <3>2. PICK o \in part[c] : o.role = "inhaber"
        BY <3>1 DEF RowsWhole
      <3>3. h.who # o.who
        BY <3>1, <3>2 DEF RowsWhole
      <3> QED
        BY <2>2, <3>3 DEF PartDoneBy
    <2>3. \A c \in Members(b) : c \in Cases
      BY DEF Members
    <2> QED
      BY <1>5, <2>1, <2>2, <2>3 DEF LeftClear
  <1>6. CASE PoolSteering
    BY <1>2, <1>6 DEF PoolSteering, Park, Unpark, Approve, Cancel, CompleteIntake, ExportZst
  <1>7. CASE Overrides
    <2>1. ASSUME NEW b \in Bundles, NEW c \in Cases, Withdraw(b, c) \/ AddToBundle(b, c)
          PROVE LeftClear
      BY <1>2, <2>1 DEF Withdraw, AddToBundle
    <2>2. ASSUME NEW e \in Employees, NEW c \in Cases, NEW newPack \in BOOLEAN,
                 AssignToEmployee(e, c, newPack)
          PROVE LeftClear
      BY <1>3, <2>2 DEF AssignToEmployee
    <2>3. ASSUME NEW e \in Employees, NEW C \in SUBSET Cases, AssignBundleToEmployee(e, C)
          PROVE LeftClear
      BY <1>3, <2>3 DEF AssignBundleToEmployee
    <2>4. ASSUME NEW b \in Bundles, NEW c \in Cases, NEW e \in Employees,
                 NEW p \in Packs \cup {NoPackNamed}, MoveToEmployee(b, c, e, p)
          PROVE LeftClear
      BY <1>3, <2>4 DEF MoveToEmployee
    <2>5. ASSUME NEW b \in Bundles, NEW c \in Cases, NEW p \in Packs, MoveWithinBundle(b, c, p)
          PROVE LeftClear
      BY <1>2, <2>5 DEF MoveWithinBundle
    <2>6. ASSUME NEW b \in Bundles, PauseBundle(b) \/ ResumeBundle(b) PROVE LeftClear
      <3>1. PICK to : bundle' = [bundle EXCEPT ![b].status = to]
        BY <2>6 DEF PauseBundle, ResumeBundle, SetBundleStatus
      <3>2. \A d \in Bundles : bundle'[d].active = bundle[d].active
        BY <1>t, <3>1 DEF TypeOK
      <3> QED
        BY <1>1, <3>2
    <2> QED
      BY <1>7, <2>1, <2>2, <2>3, <2>4, <2>5, <2>6 DEF Overrides
  <1>8. CASE Pull
    <2>1. ASSUME NEW b \in Bundles, ActivateNextPack(b) PROVE LeftClear
      BY <1>5, <1>t, <2>1 DEF ActivateNextPack, TypeOK
    <2>2. ASSUME NEW b \in Bundles, NEW C \in SUBSET Cases, PullIntoOpenBundle(b, C)
          PROVE LeftClear
      BY <1>5, <1>t, <2>2 DEF PullIntoOpenBundle, TypeOK
    <2>3. ASSUME NEW b \in Bundles, NEW C \in SUBSET Cases, PullNewBundle(b, C)
          PROVE LeftClear
      BY <1>3, <2>3 DEF PullNewBundle
    <2> QED
      BY <1>8, <2>1, <2>2, <2>3 DEF Pull
  <1>9. CASE Work
    <2>1. ASSUME NEW c \in Cases, StartPreparation(c) \/ Complete(c) PROVE LeftClear
      BY <1>1, <1>t, <2>1 DEF StartPreparation, Complete, CloseIfDone, TypeOK
    <2>2. ASSUME NEW c \in Cases, PartialComplete(c) \/ SendInstruction(c) \/ ReopenIssue(c)
          PROVE LeftClear
      BY <1>2, <2>2 DEF PartialComplete, SendInstruction, ReopenIssue
    <2>3. ASSUME NEW b \in Bundles, NEW C \in SUBSET Cases, ParkRemaining(b, C) PROVE LeftClear
      BY <1>2, <2>3 DEF ParkRemaining
    <2>4. ASSUME NEW c \in Cases, NEW v \in BOOLEAN, SetCollected(c, v) PROVE LeftClear
      BY <1>2, <2>4 DEF SetCollected
    <2> QED
      BY <1>9, <2>1, <2>2, <2>3, <2>4 DEF Work
  <1>10. CASE Sharing
    BY <1>2, <1>10 DEF Sharing, HelperJoins, PartDone, HelperRemoved
  <1> QED
    BY <1>2, <1>4, <1>6, <1>7, <1>8, <1>9, <1>10 DEF Next, vars

(* A pull never leaves work behind that nobody is at: what is neither done nor
   waiting for the teamlead is shared, its owner has reported his part done and a
   colleague takes part in it still (packAdvanceBlockers and the part-done rows in
   assignNextBundle).  Nothing else moves the running pack on. *)
THEOREM PullSafe == Spec => NothingStartableLeftBehind
  <1>1. IInv /\ RowsWhole /\ [Next]_vars => [LeftClear]_vars
    BY PackStep
  <1>2. NothingStartableLeftBehind <=> [][LeftClear]_vars
    BY PTL DEF NothingStartableLeftBehind, LeftClear
  <1> QED
    BY <1>1, <1>2, Invariance, RowsInvariance, PTL DEF Spec

-----------------------------------------------------------------------------
(* The edges that are taken without asking the workflow. *)
LEMMA Edges ==
  /\ CanTransition("ready", "assigned")
  /\ CanTransition("assigned", "ready")
  /\ CanTransition("blocked", "ready")
  /\ CanTransition("completed", "zst_done")
  BY DEF CanTransition, NextStatuses

LEMMA SameGraph == \A from, to : LC!CanTransition(from, to) <=> CanTransition(from, to)
  BY DEF LC!CanTransition, CanTransition, LC!NextStatuses, NextStatuses

(* Every handler moves cases along edges only, whole batches included. *)
Along == \A c \in Cases : status'[c] = status[c] \/ CanTransition(status[c], status'[c])

LEMMA GraphStep ==
  ASSUME TypeOK, [Next]_vars
  PROVE  Along
  <1>1. CASE UNCHANGED status
    BY <1>1 DEF Along
  <1>2. ASSUME NEW c \in Cases, NEW to, Transition(c, to) PROVE Along
    BY <1>2 DEF Along, Transition, TypeOK
  <1>3. ASSUME NEW C \in SUBSET Pool, NEW b, NEW p, AppendCases(C, b, p) \/ Place(C, b, p)
        PROVE Along
    BY <1>3, Edges DEF Along, AppendCases, Place, Pool
  <1>4. ASSUME NEW C \in SUBSET Cases, TakeBack(C), \A c \in C : status[c] = "assigned" PROVE Along
    BY <1>4, Edges DEF Along, TakeBack
  <1>5. CASE Recalculate
    <2>1. PICK plan \in Plans(Pool \cup Revertable, Unreferenced(Revertable)) :
            Adopt(plan, Revertable, Unreferenced(Revertable))
      BY <1>5, RecalculatePlan
    <2>2. /\ Pool \cup Revertable \in SUBSET Cases
          /\ Unreferenced(Revertable) \in SUBSET Bundles
      BY DEF Pool, Revertable, Unreferenced
    <2>3. DOMAIN plan \subseteq Pool \cup Revertable
      BY <2>2, PlanDomain
    <2>4. \A c \in Revertable : status[c] = "assigned"
      BY DEF Revertable
    <2> QED
      BY <2>1, <2>3, <2>4, Edges DEF Along, Adopt, Pool
  <1>6. CASE PoolSteering
    <2>1. ASSUME NEW c \in Cases, Park(c) \/ Unpark(c) \/ Approve(c) \/ Cancel(c) PROVE Along
      BY <1>2, <2>1 DEF Park, Unpark, Approve, Cancel
    <2>2. ASSUME NEW c \in Cases, NEW supplied \in SUBSET IntakeFields, CompleteIntake(c, supplied)
          PROVE Along
      BY <2>2, Edges DEF Along, CompleteIntake, TypeOK
    <2>3. CASE ExportZst
      BY <2>3, Edges DEF Along, ExportZst
    <2> QED
      BY <1>6, <2>1, <2>2, <2>3 DEF PoolSteering
  <1>7. CASE Overrides
    <2>1. ASSUME NEW b \in Bundles, NEW c \in Cases, Withdraw(b, c) PROVE Along
      BY <1>4, <2>1 DEF Withdraw
    <2>2. ASSUME NEW b \in Bundles, NEW c \in Cases, AddToBundle(b, c) PROVE Along
      BY <1>3, <2>2 DEF AddToBundle, Assignable
    <2>3. ASSUME NEW e \in Employees, NEW c \in Cases, NEW newPack \in BOOLEAN,
                 AssignToEmployee(e, c, newPack)
          PROVE Along
      BY <1>3, <2>3 DEF AssignToEmployee, Assignable
    <2>4. ASSUME NEW e \in Employees, NEW C \in SUBSET Cases, AssignBundleToEmployee(e, C)
          PROVE Along
      BY <1>3, <2>4 DEF AssignBundleToEmployee, Assignable
    <2>5. ASSUME NEW b \in Bundles, NEW c \in Cases, NEW e \in Employees,
                 NEW p \in Packs \cup {NoPackNamed}, MoveToEmployee(b, c, e, p)
          PROVE Along
      BY <2>5 DEF Along, MoveToEmployee, AppendCases
    <2>6. ASSUME NEW b \in Bundles, NEW c \in Cases, NEW p \in Packs, MoveWithinBundle(b, c, p)
          PROVE Along
      BY <1>1, <2>6 DEF MoveWithinBundle
    <2>7. ASSUME NEW b \in Bundles, PauseBundle(b) \/ ResumeBundle(b) PROVE Along
      BY <1>1, <2>7 DEF PauseBundle, ResumeBundle, SetBundleStatus
    <2> QED
      BY <1>7, <2>1, <2>2, <2>3, <2>4, <2>5, <2>6, <2>7 DEF Overrides
  <1>8. CASE Pull
    <2>1. ASSUME NEW b \in Bundles, NEW C \in SUBSET Cases, PullIntoOpenBundle(b, C) \/ PullNewBundle(b, C)
          PROVE Along
      BY <1>3, <2>1 DEF PullIntoOpenBundle, PullNewBundle, Cart, Assignable
    <2>2. ASSUME NEW b \in Bundles, ActivateNextPack(b) PROVE Along
      BY <1>1, <2>2 DEF ActivateNextPack
    <2> QED
      BY <1>8, <2>1, <2>2 DEF Pull
  <1>9. CASE Work
    <2>1. ASSUME NEW c \in Cases,
                 \/ StartPreparation(c) \/ Complete(c) \/ PartialComplete(c)
                 \/ SendInstruction(c) \/ ReopenIssue(c)
          PROVE Along
      BY <1>2, <2>1 DEF StartPreparation, Complete, PartialComplete, SendInstruction, ReopenIssue
    <2>2. ASSUME NEW b \in Bundles, NEW C \in SUBSET Cases, ParkRemaining(b, C) PROVE Along
      BY <1>4, <2>2 DEF ParkRemaining
    <2>3. ASSUME NEW c \in Cases, NEW v \in BOOLEAN, SetCollected(c, v) PROVE Along
      BY <1>1, <2>3 DEF SetCollected
    <2> QED
      BY <1>9, <2>1, <2>2, <2>3 DEF Work
  <1>10. CASE Sharing
    BY <1>1, <1>10 DEF Sharing, HelperJoins, PartDone, HelperRemoved
  <1> QED
    BY <1>1, <1>5, <1>6, <1>7, <1>8, <1>9, <1>10 DEF Next, vars

(* Dispatch implements the abstract lifecycle: all handlers, those that write
   statuses in bulk past the workflow service too, follow its edges. *)
THEOREM Refinement == Spec => CasesFollowTheGraph
  <1>1. Init => LC!LifecycleInit
    BY DEF Init, LC!LifecycleInit
  <1>2. TypeOK /\ TypeOK' /\ [Next]_vars => [LC!Move]_status
    <2> SUFFICES ASSUME TypeOK, TypeOK', [Next]_vars PROVE LC!Move
      OBVIOUS
    <2>1. status' \in [Cases -> LC!CaseStatuses]
      BY DEF TypeOK, CaseStatuses, LC!CaseStatuses
    <2> QED
      BY <2>1, GraphStep, SameGraph DEF Along, LC!Move
  <1> QED
    BY <1>1, <1>2, TypeCorrect, PTL DEF Spec, CasesFollowTheGraph, LC!Lifecycle
-----------------------------------------------------------------------------
(* The requests as they overlap: the shape of the rows and of the requests in
   flight, and what a request still knows when its transaction begins. *)

Answers == UNION {[P -> Employees] : P \in SUBSET Cases}

Request ==
  [op : Ops \cup {"idle"}, step : Steps, cases : SUBSET Cases, bundle : Bundles \cup {None},
   who : Employees \cup {None}, pack : 0..(MaxPack + 1), known : SUBSET Bundles,
   emptied : SUBSET Cases, plan : Answers, fresh : BOOLEAN, row : BOOLEAN]

(* While it is fresh, the edge a transition was asked for is there; while its row is
   there, a move within a cart has an item to write. *)
Knows(r) ==
  /\ r.op \in DOMAIN Target /\ r.step = "commit" =>
       \E c \in Cases : r.cases = {c} /\ (r.fresh => CanTransition(status[c], Target[r.op]))
  /\ r.op = "moveWithin" => r.pack \in Packs /\ (r.row => \A c \in r.cases : item[c] # NoItem)
  /\ r.op = "advance" => r.pack \in Packs

Shape == TypeOK /\ req \in [Slots -> Request] /\ \A s \in Slots : Knows(req[s])

(* The packs of a bundle are numbered from 0 on; -1 stands for none. *)
LEMMA PackIndexType ==
  ASSUME TypeOK, NEW b \in Bundles
  PROVE  /\ LastPackIndex(PacksOf(b)) \in -1 .. MaxPack
         /\ TailPack(b) \in Packs
<1> DEFINE I == PackIndexes(PacksOf(b))
<1>1. I \subseteq Packs
  <2>1. 0 \in Packs
    BY DEF Packs
  <2>2. \A c \in Cases : item[c].pack \in Packs
    BY <2>1 DEF TypeOK, Item, NoItem
  <2> QED
    BY <2>2 DEF PackIndexes, PacksOf, Members
<1>2. IsFiniteSet(I) /\ I \subseteq Int
  <2>1. IsFiniteSet(0 .. MaxPack)
    BY FS_Interval
  <2> QED
    BY <1>1, <2>1, FS_Subset DEF Packs
<1>3. CASE DOMAIN PacksOf(b) = {}
  BY <1>3 DEF LastPackIndex, TailPack, Packs
<1>4. CASE DOMAIN PacksOf(b) # {}
  <2>1. I # {}
    BY <1>4 DEF PackIndexes
  <2>2. \E m \in I : \A n \in I : n <= m
    <3> HIDE DEF I
    <3>1. \E m \in I : \A n \in I : m >= n
      BY <1>2, <2>1, GreatestNumber
    <3> QED
      BY <1>2, <3>1
  <2>3. LastPackIndex(PacksOf(b)) \in I
    BY <1>4, <2>2 DEF LastPackIndex
  <2>4. LastPackIndex(PacksOf(b)) \in 0 .. MaxPack
    BY <1>1, <2>3 DEF Packs
  <2> QED
    BY <2>4 DEF TailPack, Packs
<1> QED
  BY <1>3, <1>4

LEMMA PackForType ==
  ASSUME TypeOK, NEW b \in Bundles \cup {None}, NEW newPack \in BOOLEAN
  PROVE  PackFor(b, newPack) \in 0 .. (MaxPack + 1)
  BY PackIndexType DEF PackFor, Packs

LEMMA IdleKnows == Idle \in Request /\ Knows(Idle)
<1>1. <<>> \in Answers
  <2>1. <<>> \in [{} -> Employees]
    OBVIOUS
  <2> QED
    BY <2>1 DEF Answers
<1> QED
  BY <1>1 DEF Idle, Request, Steps, Knows, Target

(* What the handlers that touch the participations leave of them. *)
LEMMA DissolveType ==
  ASSUME TypeOK, NEW C, Dissolve(C)
  PROVE  part' \in [Cases -> SUBSET PartRow]
  BY DEF Dissolve, TypeOK

LEMMA InitConcurrentShape == ConcurrentInit => Shape
  BY InitTypeOK, IdleKnows DEF ConcurrentInit, Shape

(* A request that begins. *)
LEMMA BeginKeeps ==
  ASSUME Shape, NEW s \in Slots, NEW call \in Request, Knows(call), Begin(s, call)
  PROVE  Shape'
<1>1. TypeOK' /\ UNCHANGED <<status, item>>
  BY DEF Begin, vars, TypeOK, Shape
<1>2. \A t \in Slots : req'[t] = call \/ req'[t] = req[t]
  BY DEF Begin, Shape
<1>3. req' \in [Slots -> Request]
  BY DEF Begin, Shape
<1>4. \A t \in Slots : Knows(req[t])'
  BY <1>1, <1>2 DEF Shape, Knows
<1> QED
  BY <1>1, <1>3, <1>4 DEF Shape

(* A request that goes on, and what the others know after it. *)
LEMMA ProceedKeeps ==
  ASSUME Shape, NEW s \in Slots, NEW next \in Request, NEW bumped, NEW dropped,
         Proceed(s, next, bumped, dropped),
         \A c \in Cases : status'[c] = status[c] \/ c \in bumped,
         \A c \in Cases : item'[c] = NoItem => item[c] = NoItem \/ c \in dropped,
         Knows(next)'
  PROVE  req' \in [Slots -> Request] /\ \A t \in Slots : Knows(req[t])'
<1> DEFINE Aged(r) == [r EXCEPT !.fresh = @ /\ r.cases \cap bumped = {},
                                !.row   = @ /\ r.cases \cap dropped = {}]
<1>1. \A t \in Slots : req'[t] = IF t = s THEN next ELSE Aged(req[t])
  BY DEF Proceed
<1>2. ASSUME NEW r \in Request
      PROVE  /\ Aged(r) \in Request
             /\ Aged(r).op = r.op /\ Aged(r).step = r.step /\ Aged(r).cases = r.cases
             /\ Aged(r).pack = r.pack
             /\ Aged(r).fresh => r.fresh /\ r.cases \cap bumped = {}
             /\ Aged(r).row => r.row /\ r.cases \cap dropped = {}
  <2>1. PICK x, y : /\ x = (r.fresh /\ r.cases \cap bumped = {})
                    /\ y = (r.row /\ r.cases \cap dropped = {})
    OBVIOUS
  <2>2. Aged(r) = [r EXCEPT !.fresh = x, !.row = y]
    BY <2>1
  <2>3. x \in BOOLEAN /\ y \in BOOLEAN
    BY <2>1, Zenon DEF Request
  <2>4. [r EXCEPT !.fresh = x, !.row = y] \in Request
    BY <2>3 DEF Request
  <2>5. Aged(r).fresh = x /\ Aged(r).row = y
    BY <2>2 DEF Request
  <2>6. /\ Aged(r).op = r.op /\ Aged(r).step = r.step /\ Aged(r).cases = r.cases
        /\ Aged(r).pack = r.pack
    BY <2>2 DEF Request
  <2>7. (x => r.fresh /\ r.cases \cap bumped = {}) /\ (y => r.row /\ r.cases \cap dropped = {})
    BY <2>1
  <2> HIDE DEF Aged
  <2> QED
    BY <2>2, <2>4, <2>5, <2>6, <2>7
<1>3. req' \in [Slots -> Request]
  BY <1>1, <1>2 DEF Proceed, Shape
<1>4. ASSUME NEW t \in Slots PROVE \E q : q = req'[t] /\ Knows(q)'
  <2>1. CASE t = s
    BY <1>1, <2>1
  <2>2. CASE t # s
    <3>1. PICK r, q : r = req[t] /\ q = Aged(r)
      OBVIOUS
    <3>2. r \in Request /\ Knows(r)
      BY <3>1 DEF Shape
    <3>3. /\ q.op = r.op /\ q.step = r.step /\ q.cases = r.cases /\ q.pack = r.pack
          /\ q.fresh => r.fresh /\ r.cases \cap bumped = {}
          /\ q.row => r.row /\ r.cases \cap dropped = {}
      BY <1>2, <3>1, <3>2
    <3>4. r.cases \subseteq Cases
      BY <3>2 DEF Request
    <3>5. Knows(q)'
      BY <3>2, <3>3, <3>4 DEF Knows
    <3> QED
      BY <1>1, <2>2, <3>1, <3>5
  <2> QED
    BY <2>1, <2>2
<1> QED
  BY <1>3, <1>4 DEF Knows
(* Every request starts with what it has read. *)
LEMMA CallType ==
  ASSUME NEW op \in Ops, NEW step \in Steps, NEW C \in SUBSET Cases, NEW b \in Bundles \cup {None},
         NEW e \in Employees \cup {None}, NEW p \in 0 .. (MaxPack + 1)
  PROVE  /\ Call(op, step, C, b, e, p) \in Request
         /\ Call(op, step, C, b, e, p).op = op /\ Call(op, step, C, b, e, p).step = step
         /\ Call(op, step, C, b, e, p).cases = C /\ Call(op, step, C, b, e, p).pack = p
<1> DEFINE r == Call(op, step, C, b, e, p)
<1>1. /\ r.op = op /\ r.step = step /\ r.cases = C /\ r.pack = p
  BY DEF Call, Idle
<1>2. Idle \in Request
  BY IdleKnows
<1>3. r \in Request
  BY <1>2 DEF Call, Request
<1> QED
  BY <1>1, <1>3

LEMMA StartsKeep ==
  ASSUME Shape, NEW s \in Slots, Starts(s)
  PROVE  Shape'
<1>t. TypeOK
  BY DEF Shape
<1> DEFINE Numbers == 0 .. (MaxPack + 1)
<1>p. 0 \in Numbers /\ Packs \subseteq Numbers /\ 0 \in Packs
  BY DEF Packs
<1>c. ASSUME NEW op, NEW step \in Steps, NEW C \in SUBSET Cases, NEW b \in Bundles \cup {None},
             NEW e \in Employees \cup {None}, NEW p \in Numbers,
             op \in DOMAIN Target /\ step = "commit" =>
               \E c \in Cases : C = {c} /\ CanTransition(status[c], Target[op]),
             op = "moveWithin" => p \in Packs /\ \A c \in C : item[c] # NoItem,
             op = "advance" => p \in Packs,
             Begin(s, Call(op, step, C, b, e, p))
      PROVE  Shape'
  <2>1. Call(op, step, C, b, e, p).op = op
    BY DEF Call, Idle
  <2>2. op \in Ops
    BY <1>c, <2>1 DEF Begin
  <2>3. PICK r : r = Call(op, step, C, b, e, p)
    OBVIOUS
  <2>4. r \in Request /\ r.op = op /\ r.step = step /\ r.cases = C /\ r.pack = p
    BY <2>2, <2>3, CallType
  <2>5. Knows(r)
    BY <1>c, <2>4 DEF Knows
  <2> QED
    BY <1>c, <2>3, <2>4, <2>5, BeginKeeps
<1>f. \A b \in Bundles \cup {None} : \A newPack \in BOOLEAN : PackFor(b, newPack) \in Numbers
  BY <1>t, PackForType
<1>o. /\ "commit" \in Steps /\ "pool" \in Steps
      /\ \A op \in {"add", "assign", "move", "pull"} :
           op \notin DOMAIN Target /\ op # "moveWithin" /\ op # "advance"
  BY DEF Steps, Target
<1> HIDE DEF Numbers
<1>1. ASSUME NEW op \in DOMAIN Target, NEW c \in Cases, BeginTransition(s, op, c) PROVE Shape'
  <2>1. CanTransition(status[c], Target[op]) /\ Begin(s, Call(op, "commit", {c}, None, None, 0))
    BY <1>1 DEF BeginTransition
  <2>2. op # "moveWithin" /\ op # "advance"
    BY DEF Target
  <2> QED
    BY <1>c, <1>p, <2>1, <2>2 DEF Steps
<1>2. ASSUME NEW b \in Bundles, NEW c \in Cases, BeginWithdraw(s, b, c) PROVE Shape'
  BY <1>2, <1>c, <1>p DEF BeginWithdraw, Steps, Target
<1>3. ASSUME NEW b \in Bundles, NEW c \in Cases, BeginAdd(s, b, c) PROVE Shape'
  <2>1. PICK p : p = TailPack(b)
    OBVIOUS
  <2>2. p \in Numbers
    BY <1>p, <1>t, <2>1, PackIndexType
  <2>3. Begin(s, Call("add", "commit", {c}, b, None, p))
    BY <1>3, <2>1 DEF BeginAdd
  <2>4. {c} \in SUBSET Cases /\ b \in Bundles \cup {None} /\ None \in Employees \cup {None}
    OBVIOUS
  <2> QED
    BY <1>c, <1>o, <2>2, <2>3, <2>4
<1>4. ASSUME NEW b \in Bundles, NEW C \in SUBSET Cases, BeginParkRemaining(s, b, C) PROVE Shape'
  BY <1>4, <1>c, <1>p DEF BeginParkRemaining, Steps, Target
<1>5. ASSUME NEW e \in Employees, NEW C \in SUBSET Cases, NEW newPack \in BOOLEAN,
             BeginAssign(s, e, C, newPack)
      PROVE  Shape'
  <2>1. PICK b \in Bundles \cup {None} : Begin(s, Call("assign", "commit", C, b, e, PackFor(b, newPack)))
    BY <1>5 DEF BeginAssign
  <2>2. PICK p : p = PackFor(b, newPack)
    OBVIOUS
  <2>3. p \in Numbers
    BY <1>f, <2>2
  <2>4. Begin(s, Call("assign", "commit", C, b, e, p))
    BY <2>1, <2>2
  <2>5. e \in Employees \cup {None}
    OBVIOUS
  <2> QED
    BY <1>c, <1>o, <2>3, <2>4, <2>5
<1>6. ASSUME NEW c \in Cases, NEW e \in Employees, NEW p \in Packs \cup {NoPackNamed},
             BeginMove(s, c, e, p)
      PROVE  Shape'
  <2>1. PICK b \in Bundles \cup {None} :
          /\ IF p = NoPackNamed THEN b # item[c].bundle
             ELSE b # None /\ p <= LastPackIndex(PacksOf(b)) /\ <<b, p>> # <<item[c].bundle, item[c].pack>>
          /\ Begin(s, Call(IF b = item[c].bundle THEN "moveWithin" ELSE "move", "commit", {c}, b, e,
                           IF p = NoPackNamed THEN PackFor(b, FALSE) ELSE p))
    BY <1>6 DEF BeginMove
  <2>2. item[c] # NoItem
    BY <1>6 DEF BeginMove
  <2>3. PackFor(b, FALSE) \in Numbers
    BY <1>f
  <2>4. CASE p = NoPackNamed
    <3>1. PICK q : q = PackFor(b, FALSE)
      OBVIOUS
    <3>2. Begin(s, Call("move", "commit", {c}, b, e, q))
      BY <2>1, <2>4, <3>1
    <3>3. q \in Numbers /\ {c} \in SUBSET Cases /\ e \in Employees \cup {None}
      BY <2>3, <3>1
    <3> QED
      BY <1>c, <1>o, <3>2, <3>3
  <2>5. CASE p # NoPackNamed
    <3>1. p \in Packs
      BY <2>5
    <3>2. CASE b = item[c].bundle
      BY <1>c, <1>p, <2>1, <2>2, <2>5, <3>1, <3>2 DEF Steps, Target
    <3>3. CASE b # item[c].bundle
      BY <1>c, <1>p, <2>1, <2>5, <3>1, <3>3 DEF Steps, Target
    <3> QED
      BY <3>2, <3>3
  <2> QED
    BY <2>4, <2>5
<1>7. ASSUME NEW e \in Employees, BeginPull(s, e) PROVE Shape'
  <2>1. PICK b \in Bundles \cup {None} :
          IF b # None /\ HasPlannedFollowUpPack(PacksOf(b), bundle[b].active)
          THEN \E p \in Packs : Begin(s, Call("advance", "commit", {}, b, e, p))
          ELSE Begin(s, Call("pull", "pool", {}, b, e, PackFor(b, TRUE)))
    BY <1>7 DEF BeginPull
  <2>2. PackFor(b, TRUE) \in Numbers
    BY <1>f
  <2>3. CASE b # None /\ HasPlannedFollowUpPack(PacksOf(b), bundle[b].active)
    <3>1. PICK p \in Packs : Begin(s, Call("advance", "commit", {}, b, e, p))
      BY <2>1, <2>3
    <3> QED
      BY <1>c, <1>p, <3>1 DEF Steps, Target
  <2>4. CASE ~(b # None /\ HasPlannedFollowUpPack(PacksOf(b), bundle[b].active))
    <3>1. PICK q : q = PackFor(b, TRUE)
      OBVIOUS
    <3>2. Begin(s, Call("pull", "pool", {}, b, e, q))
      BY <2>1, <2>4, <3>1
    <3>3. q \in Numbers /\ {} \in SUBSET Cases /\ e \in Employees \cup {None}
      BY <2>2, <3>1
    <3> QED
      BY <1>c, <1>o, <3>2, <3>3
  <2> QED
    BY <2>3, <2>4
<1>8. CASE BeginRecalculate(s)
  <2>1. PICK q, r : /\ q = Call("recalculate", "look", Revertable, None, None, 0)
                    /\ r = [q EXCEPT !.known = {b \in Bundles : Exists(b)}]
    OBVIOUS
  <2>2. Begin(s, r)
    BY <1>8, <2>1 DEF BeginRecalculate
  <2>3. r.op = "recalculate"
    BY <2>1 DEF Call, Idle
  <2>4. Revertable \in SUBSET Cases /\ "recalculate" \in Ops
    BY <2>2, <2>3 DEF Revertable, Begin
  <2>5. q \in Request
    BY <1>p, <2>1, <2>4, CallType DEF Steps, Numbers
  <2>6. r \in Request
    BY <2>1, <2>5 DEF Request
  <2>7. Knows(r)
    BY <2>3 DEF Knows, Target
  <2> QED
    BY <2>2, <2>6, <2>7, BeginKeeps
<1>9. CASE Share(s)
  <2>1. Sharing /\ UNCHANGED req
    BY <1>9 DEF Share
  <2>2. UNCHANGED <<status, link, missing, collected, item, bundle>>
    BY <2>1 DEF Sharing, HelperJoins, PartDone, HelperRemoved
  <2>3. part' \in [Cases -> SUBSET PartRow]
    BY <1>t, <2>1, SharingStep DEF TypeOK
  <2>4. TypeOK'
    BY <1>t, <2>2, <2>3 DEF TypeOK
  <2> QED
    BY <2>1, <2>2, <2>4 DEF Shape, Knows
<1> QED
  BY <1>1, <1>2, <1>3, <1>4, <1>5, <1>6, <1>7, <1>8, <1>9 DEF Starts
(* The version guard: what a transition commits is the edge it was asked for. *)
LEMMA CommittedEdge ==
  ASSUME Shape, NEW s \in Slots, CommitTransition(s)
  PROVE  \E c \in Cases, to \in {"in_progress", "completed", "cancelled", "parked", "ready"} :
           /\ req[s].cases = {c} /\ to = Target[req[s].op] /\ CanTransition(status[c], to)
           /\ status' = [status EXCEPT ![c] = to]
           /\ to # "cancelled" => link' = link
           /\ to = "cancelled" => link' = [link EXCEPT ![c] = None]
           /\ UNCHANGED <<missing, collected, item, bundle>>
           /\ \E C \in SUBSET Cases : Dissolve(C)
<1>1. PICK r : r = req[s]
  OBVIOUS
<1>2. r.op \in DOMAIN Target /\ r.step = "commit" /\ r.fresh
  BY <1>1 DEF CommitTransition, AtStep
<1>3. PICK c \in Cases : r.cases = {c} /\ CanTransition(status[c], Target[r.op])
  BY <1>1, <1>2 DEF Shape, Knows
<1>4. (CHOOSE d \in req[s].cases : TRUE) = c
  BY <1>1, <1>3
<1>5. /\ status' = [status EXCEPT ![c] = Target[r.op]]
      /\ link' = IF r.op = "cancel" THEN [link EXCEPT ![c] = None] ELSE link
      /\ UNCHANGED <<missing, collected, item, bundle>>
  <2>1. /\ status' = [status EXCEPT ![c] = Target[req[s].op]]
        /\ link' = IF req[s].op = "cancel" THEN [link EXCEPT ![c] = None] ELSE link
        /\ UNCHANGED <<missing, collected, item, bundle>>
    BY <1>4, Zenon DEF CommitTransition
  <2> QED
    BY <1>1, <2>1
<1>6. Target[r.op] \in {"in_progress", "completed", "cancelled", "parked", "ready"}
      /\ (r.op = "cancel" <=> Target[r.op] = "cancelled")
  BY <1>2 DEF Target
<1>7. \E C \in SUBSET Cases : Dissolve(C)
  <2>1. Dissolve(IF req[s].op = "cancel" THEN {c} ELSE {})
    BY <1>4, Zenon DEF CommitTransition
  <2>2. (IF req[s].op = "cancel" THEN {c} ELSE {}) \in SUBSET Cases
    OBVIOUS
  <2> QED
    BY <2>1, <2>2
<1> QED
  BY <1>1, <1>3, <1>5, <1>6, <1>7

(* What a recalculation writes, wherever it finds the bundles of its plan. *)
LEMMA WrittenType ==
  ASSUME TypeOK, NEW plan \in Answers, NEW at \in [{plan[c] : c \in DOMAIN plan} -> Bundles],
         NEW reverted \in SUBSET Cases, NEW gone, NEW dropped,
         WritePlan(plan, at, reverted, gone, dropped)
  PROVE  /\ status' \in [Cases -> CaseStatuses]
         /\ link' \in [Cases -> Bundles \cup {None}]
         /\ item' \in [Cases -> Item \cup {NoItem}]
         /\ bundle' \in [Bundles -> [status : BundleStatus, active : Packs]]
<1> DEFINE tail(b) == IF ~Exists(b) \/ b \in gone THEN 0
                      ELSE LastPackIndex([c \in Members(b) \ dropped |-> item[c].pack]) + 1
<1>1. \A c \in DOMAIN plan : at[plan[c]] \in Bundles /\ plan[c] \in DOMAIN at
  OBVIOUS
<1>2. \A e \in DOMAIN at : tail(at[e]) \in Packs
  BY DEF WritePlan
<1>3. item' \in [Cases -> Item \cup {NoItem}]
  <2>1. item' = [c \in Cases |->
           IF c \in DOMAIN plan
           THEN [bundle |-> at[plan[c]], pack |-> tail(at[plan[c]]), by |-> "system"]
           ELSE IF c \in dropped THEN NoItem ELSE item[c]]
    BY DEF WritePlan
  <2> HIDE DEF tail
  <2>2. \A c \in DOMAIN plan :
          [bundle |-> at[plan[c]], pack |-> tail(at[plan[c]]), by |-> "system"] \in Item
    BY <1>1, <1>2 DEF Item
  <2> QED
    BY <2>1, <2>2 DEF TypeOK
<1>4. status' \in [Cases -> CaseStatuses]
  BY DEF WritePlan, TypeOK, CaseStatuses
<1>5. link' \in [Cases -> Bundles \cup {None}]
  BY <1>1 DEF WritePlan, TypeOK
<1>6. bundle' \in [Bundles -> [status : BundleStatus, active : Packs]]
  <2>1. 0 \in Packs
    BY DEF Packs
  <2> QED
    BY <2>1 DEF WritePlan, TypeOK, NewBundle, NoBundle, BundleStatus
<1> QED
  BY <1>3, <1>4, <1>5, <1>6

LEMMA ContinuesKeep ==
  ASSUME Shape, NEW s \in Slots, Continues(s)
  PROVE  Shape'
<1>t. TypeOK /\ req[s] \in Request /\ Knows(req[s])
  BY DEF Shape
<1>i. Idle \in Request /\ Knows(Idle)'
  BY IdleKnows DEF Knows, Idle, Target
<1>g. ASSUME TypeOK', NEW next \in Request, NEW bumped, NEW dropped,
             Proceed(s, next, bumped, dropped), Knows(next)',
             \A c \in Cases : status'[c] = status[c] \/ c \in bumped,
             \A c \in Cases : item'[c] = NoItem => item[c] = NoItem \/ c \in dropped
      PROVE  Shape'
  BY <1>g, ProceedKeeps DEF Shape
<1>1. CASE CommitTransition(s)
  <2>1. PICK c \in Cases, to \in {"in_progress", "completed", "cancelled", "parked", "ready"} :
          /\ req[s].cases = {c} /\ status' = [status EXCEPT ![c] = to]
          /\ link' = link \/ link' = [link EXCEPT ![c] = None]
          /\ UNCHANGED <<missing, collected, item, bundle>>
          /\ part' \in [Cases -> SUBSET PartRow]
    BY <1>1, <1>t, CommittedEdge, DissolveType
  <2>2. TypeOK'
    BY <1>t, <2>1 DEF TypeOK, CaseStatuses
  <2>3. PICK r, q, C : /\ r = req[s] /\ q = [r EXCEPT !.step = FollowUp(r.op)]
                       /\ C = {CHOOSE d \in r.cases : TRUE}
    OBVIOUS
  <2>4. r \in Request /\ r.op \in DOMAIN Target /\ C = {c}
    BY <1>1, <1>t, <2>1, <2>3 DEF CommitTransition, AtStep
  <2>5. Proceed(s, IF FollowUp(r.op) = "idle" THEN Idle ELSE q, C, {})
    BY <1>1, <2>3 DEF CommitTransition
  <2>6. FollowUp(r.op) \in {"activate", "count", "dissolve", "idle"}
    BY DEF FollowUp
  <2>7. q \in Request /\ q.step # "commit" /\ q.op = r.op
    BY <2>3, <2>4, <2>6 DEF Request, Steps
  <2>8. Knows(q)'
    BY <2>4, <2>7 DEF Knows, Target
  <2> QED
    BY <1>g, <1>i, <2>1, <2>2, <2>4, <2>5, <2>7, <2>8
<1>2. CASE Activate(s)
  <2>1. bundle' \in [Bundles -> [status : BundleStatus, active : Packs]]
    BY <1>2, <1>t DEF Activate, TypeOK, BundleStatus
  <2>2. TypeOK'
    BY <1>2, <1>t, <2>1 DEF Activate, TypeOK
  <2> QED
    BY <1>2, <1>g, <1>i, <2>2 DEF Activate
<1>3. CASE Count(s)
  <2>1. TypeOK' /\ UNCHANGED <<status, item>>
    BY <1>3, <1>t DEF Count, TypeOK, vars
  <2>2. PICK c \in req[s].cases :
          Proceed(s, IF link[c] # None /\ IsOpen(link[c]) /\ AllDone(link[c])
                     THEN [req[s] EXCEPT !.step = "close", !.bundle = link[c]] ELSE Idle, {}, {})
    BY <1>3 DEF Count
  <2>3. PICK r, q : r = req[s] /\ q = [r EXCEPT !.step = "close", !.bundle = link[c]]
    OBVIOUS
  <2>4. Proceed(s, q, {}, {}) \/ Proceed(s, Idle, {}, {})
    BY <2>2, <2>3
  <2>5. r \in Request /\ c \in Cases /\ link[c] \in Bundles \cup {None} /\ r.op = "complete"
    BY <1>3, <1>t, <2>3 DEF Request, TypeOK, Count, AtStep
  <2>6. q \in Request /\ q.op = "complete" /\ q.step = "close"
    BY <2>3, <2>5 DEF Request, Steps
  <2>7. Knows(q)'
    BY <2>6 DEF Knows
  <2> QED
    BY <1>g, <1>i, <2>1, <2>4, <2>6, <2>7
<1>4. CASE Close(s)
  <2>1. bundle' \in [Bundles -> [status : BundleStatus, active : Packs]]
    BY <1>4, <1>t DEF Close, TypeOK, BundleStatus
  <2>2. TypeOK'
    BY <1>4, <1>t, <2>1 DEF Close, TypeOK
  <2> QED
    BY <1>4, <1>g, <1>i, <2>2 DEF Close
<1>5. CASE CommitTakeBack(s)
  <2>1. PICK C : C = req[s].cases
    OBVIOUS
  <2>2. C \in SUBSET Cases
    BY <1>t, <2>1 DEF Request
  <2>3. TakeBack(C) /\ UNCHANGED <<missing, bundle>> /\ Proceed(s, Idle, C, C)
        /\ collected' \in [Cases -> BOOLEAN]
    BY <1>5, <1>t, <2>1 DEF CommitTakeBack, TypeOK
  <2>6. part' \in [Cases -> SUBSET PartRow]
    BY <1>t, <2>3, DissolveType DEF TakeBack
  <2>4. TypeOK'
    BY <1>t, <2>2, <2>3, <2>6, TakeBackType DEF TypeOK
  <2>5. \A c \in Cases : c \notin C => status'[c] = status[c] /\ item'[c] = item[c]
    BY <1>t, <2>3 DEF TakeBack
  <2> QED
    BY <1>g, <1>i, <2>3, <2>4, <2>5
<1>6. CASE CommitAppend(s)
  <2>1. PICK r, C, D : r = req[s] /\ C = r.cases /\ D = IF r.op = "move" THEN C ELSE {}
    OBVIOUS
  <2>2. r \in Request /\ C \in SUBSET Cases
    BY <1>t, <2>1 DEF Request
  <2>3. \E b \in Bundles : AppendCases(C, b, r.pack) /\ (UNCHANGED bundle \/ Create(b))
    BY <1>6, <2>1, <2>2 DEF CommitAppend, Request
  <2>4. UNCHANGED <<missing, collected>> /\ Proceed(s, Idle, C, D)
    BY <1>6, <2>1 DEF CommitAppend
  <2>7. part' \in [Cases -> SUBSET PartRow]
    BY <1>6, <1>t, DissolveType DEF CommitAppend
  <2>5. TypeOK'
    BY <1>t, <2>2, <2>3, <2>4, <2>7, AppendType, CreateType DEF TypeOK
  <2>6. \A c \in Cases : /\ (status'[c] = status[c] \/ c \in C)
                        /\ (item'[c] = item[c] \/ item'[c] # NoItem)
    BY <2>2, <2>3 DEF AppendCases, NoItem
  <2> QED
    BY <1>g, <1>i, <2>4, <2>5, <2>6
<1>7. CASE CommitMoveWithin(s)
  <2>1. PICK r : r = req[s]
    OBVIOUS
  <2>2. /\ r \in Request /\ r.pack \in Packs /\ \A c \in r.cases : item[c] # NoItem
        /\ UNCHANGED <<status, link, missing, collected, bundle, part>> /\ Proceed(s, Idle, {}, {})
        /\ item' = [c \in Cases |-> IF c \in r.cases
                                   THEN [item[c] EXCEPT !.pack = r.pack, !.by = "teamlead"]
                                   ELSE item[c]]
    BY <1>7, <1>t, <2>1 DEF CommitMoveWithin, AtStep, Knows
  <2>3. item' \in [Cases -> Item \cup {NoItem}]
    <3>1. \A c \in Cases : item[c] \in Item \/ c \notin r.cases
      BY <1>t, <2>2 DEF TypeOK
    <3>2. \A i \in Item : [i EXCEPT !.pack = r.pack, !.by = "teamlead"] \in Item
      BY <2>2 DEF Item
    <3> QED
      BY <1>t, <2>2, <3>1, <3>2 DEF TypeOK
  <2>4. TypeOK'
    BY <1>t, <2>2, <2>3 DEF TypeOK
  <2>5. \A c \in Cases : item'[c] = NoItem => item[c] = NoItem
    <3>1. \A i \in Item : [i EXCEPT !.pack = r.pack, !.by = "teamlead"] # NoItem
      BY DEF Item, NoItem
    <3>2. \A c \in Cases : item[c] \in Item \/ c \notin r.cases
      BY <1>t, <2>2 DEF TypeOK
    <3> QED
      BY <2>2, <3>1, <3>2
  <2> QED
    BY <1>g, <1>i, <2>2, <2>4, <2>5
<1>8. CASE AdvancePack(s)
  <2>1. req[s].pack \in Packs
    BY <1>8, <1>t DEF AdvancePack, AtStep, Knows
  <2>2. bundle' \in [Bundles -> [status : BundleStatus, active : Packs]]
    BY <1>8, <1>t, <2>1 DEF AdvancePack, TypeOK
  <2>3. TypeOK'
    BY <1>8, <1>t, <2>2 DEF AdvancePack, TypeOK
  <2> QED
    BY <1>8, <1>g, <1>i, <2>3 DEF AdvancePack
<1>9. CASE CommitPull(s)
  <2>1. PICK r, C, D : r = req[s] /\ C = r.cases /\ D = C \cap Pool
    OBVIOUS
  <2>2. r \in Request /\ C \in SUBSET Cases
    BY <1>t, <2>1 DEF Request
  <2>3. \E b \in Bundles, p \in Packs :
          /\ Place(C, b, p)
          /\ UNCHANGED bundle \/ Create(b) \/ bundle' = [bundle EXCEPT ![b].active = p]
    BY <1>9, <2>1, <2>2 DEF CommitPull, Request, Place, OpenBundles
  <2>4. UNCHANGED <<missing, collected, part>> /\ Proceed(s, Idle, D, {})
    BY <1>9, <2>1 DEF CommitPull
  <2>5. TypeOK'
    <3>1. PICK b \in Bundles, p \in Packs :
            /\ Place(C, b, p)
            /\ UNCHANGED bundle \/ Create(b) \/ bundle' = [bundle EXCEPT ![b].active = p]
      BY <2>3
    <3>2. bundle' \in [Bundles -> [status : BundleStatus, active : Packs]]
      BY <1>t, <3>1, CreateType DEF TypeOK
    <3> QED
      BY <1>t, <2>2, <2>4, <3>1, <3>2, PlaceType DEF TypeOK
  <2>6. \A c \in Cases : /\ (status'[c] = status[c] \/ c \in D)
                        /\ (item'[c] = item[c] \/ item'[c] # NoItem)
    BY <2>1, <2>2, <2>3 DEF Place, NoItem
  <2> QED
    BY <1>g, <1>i, <2>4, <2>5, <2>6
<1>10. ASSUME NEW C \in SUBSET Cases, ReadPool(s, C) PROVE Shape'
  <2>1. PICK r, q : r = req[s] /\ q = [r EXCEPT !.step = "commit", !.cases = C]
    OBVIOUS
  <2>2. r \in Request /\ r.op = "pull" /\ Proceed(s, q, {}, {}) /\ UNCHANGED vars
    BY <1>10, <1>t, <2>1 DEF ReadPool, AtStep
  <2>3. q \in Request /\ q.op = "pull"
    BY <2>1, <2>2 DEF Request, Steps
  <2>4. Knows(q)' /\ TypeOK' /\ UNCHANGED <<status, item>>
    BY <1>t, <2>2, <2>3 DEF Knows, Target, TypeOK, vars
  <2> QED
    BY <1>g, <2>2, <2>3, <2>4
<1>11. CASE LookForReferences(s)
  <2>1. PICK r, q, K : /\ r = req[s] /\ K = {b \in r.known : Linked(b) \subseteq r.cases}
                       /\ q = [r EXCEPT !.step = "plan", !.known = K]
    OBVIOUS
  <2>2. r \in Request /\ r.op = "recalculate" /\ Proceed(s, q, {}, {}) /\ UNCHANGED vars
    BY <1>11, <1>t, <2>1 DEF LookForReferences, AtStep
  <2>3. K \in SUBSET Bundles
    BY <2>1, <2>2 DEF Request
  <2>4. q \in Request /\ q.op = "recalculate"
    BY <2>1, <2>2, <2>3 DEF Request, Steps
  <2>5. Knows(q)' /\ TypeOK' /\ UNCHANGED <<status, item>>
    BY <1>t, <2>2, <2>4 DEF Knows, Target, TypeOK, vars
  <2> QED
    BY <1>g, <2>2, <2>4, <2>5
<1>12. CASE CommitRecalculate(s)
  <2>1. PICK r, D : /\ r = req[s]
                    /\ D = r.cases \cup r.emptied \cup {c \in Cases : item[c].bundle \in r.known}
    OBVIOUS
  <2>2. r \in Request
    BY <1>t, <2>1
  <2>3. PICK at \in [{r.plan[c] : c \in DOMAIN r.plan} -> Bundles] :
          WritePlan(r.plan, at, r.cases, r.known, D)
    BY <1>12, <2>1 DEF CommitRecalculate
  <2>4. PICK B : B = r.cases \cup (DOMAIN r.plan \cap Pool)
    OBVIOUS
  <2>5. /\ Proceed(s, Idle, B, D) /\ Dissolve(r.cases) /\ UNCHANGED <<missing, collected>>
    BY <1>12, <2>1, <2>4 DEF CommitRecalculate
  <2>6. TypeOK'
    <3>1. r.plan \in Answers /\ r.cases \in SUBSET Cases
      BY <2>2 DEF Request
    <3>2. /\ status' \in [Cases -> CaseStatuses]
          /\ link' \in [Cases -> Bundles \cup {None}]
          /\ item' \in [Cases -> Item \cup {NoItem}]
          /\ bundle' \in [Bundles -> [status : BundleStatus, active : Packs]]
      BY <1>t, <2>3, <3>1, WrittenType
    <3>3. part' \in [Cases -> SUBSET PartRow]
      BY <1>t, <2>5, DissolveType
    <3> QED
      BY <1>t, <2>5, <3>2, <3>3 DEF TypeOK
  <2>7. \A c \in Cases : status'[c] = status[c] \/ c \in B
    BY <2>3, <2>4 DEF WritePlan
  <2>8. \A c \in Cases : item'[c] = NoItem => item[c] = NoItem \/ c \in D
    BY <2>3 DEF WritePlan, NoItem
  <2> QED
    BY <1>g, <1>i, <2>5, <2>6, <2>7, <2>8
<1>13. CASE Refuse(s)
  <2>1. TypeOK' /\ UNCHANGED <<status, item>> /\ Proceed(s, Idle, {}, {})
    BY <1>13, <1>t DEF Refuse, TypeOK, vars
  <2> QED
    BY <1>g, <1>i, <2>1
<1>14. CASE DissolveParked(s)
  <2>1. /\ Dissolve(req[s].cases) /\ Proceed(s, Idle, {}, {})
        /\ UNCHANGED <<status, link, missing, collected, item, bundle>>
    BY <1>14 DEF DissolveParked
  <2>2. TypeOK'
    BY <1>t, <2>1, DissolveType DEF TypeOK
  <2> QED
    BY <1>g, <1>i, <2>1, <2>2
<1>15. CASE ReadAndPlan(s)
  <2>1. PICK r : r = req[s]
    OBVIOUS
  <2>2. r \in Request /\ r.op = "recalculate" /\ UNCHANGED vars
    BY <1>15, <1>t, <2>1 DEF ReadAndPlan, AtStep
  <2>3. PICK plan \in Answers, E \in SUBSET Cases :
          Proceed(s, [r EXCEPT !.step = "commit", !.plan = plan, !.emptied = E], {}, {})
    <3> DEFINE pool   == Pool \cup r.cases
               usable == {c \in pool : "Lagerplatz" \notin missing[c]}
               free   == {e \in Employees : OpenBundles(e) \subseteq r.known}
               E      == {c \in pool : item[c] # NoItem}
    <3>1. PICK plan \in UNION {[P -> free] : P \in SUBSET usable} :
            Proceed(s, [r EXCEPT !.step = "commit", !.plan = plan, !.emptied = E], {}, {})
      BY <1>15, <2>1 DEF ReadAndPlan
    <3>2. pool \subseteq Cases
      BY <2>2 DEF Pool, Request
    <3>3. usable \subseteq Cases /\ free \subseteq Employees /\ E \in SUBSET Cases
      BY <3>2
    <3> HIDE DEF usable, free, E
    <3>4. plan \in Answers
      BY <3>1, <3>3 DEF Answers
    <3> QED
      BY <3>1, <3>3, <3>4
  <2>4. PICK q : q = [r EXCEPT !.step = "commit", !.plan = plan, !.emptied = E]
    OBVIOUS
  <2>5. q \in Request /\ q.op = "recalculate" /\ Proceed(s, q, {}, {})
    BY <2>2, <2>3, <2>4 DEF Request, Steps
  <2>6. Knows(q)' /\ TypeOK' /\ UNCHANGED <<status, item>>
    BY <1>t, <2>2, <2>5 DEF Knows, Target, TypeOK, vars
  <2> QED
    BY <1>g, <2>5, <2>6
<1> QED
  BY <1>1, <1>2, <1>3, <1>4, <1>5, <1>6, <1>7, <1>8, <1>9, <1>10, <1>11, <1>12, <1>13, <1>14, <1>15
  DEF Continues

LEMMA StepConcurrentShape ==
  ASSUME Shape, [ConcurrentNext]_allVars
  PROVE  Shape'
<1>1. CASE UNCHANGED allVars
  BY <1>1 DEF allVars, vars, Shape, TypeOK, Knows
<1>2. CASE ConcurrentNext
  BY <1>2, StartsKeep, ContinuesKeep DEF ConcurrentNext
<1> QED
  BY <1>1, <1>2
(* However the requests overlap, rows and requests keep their types: no pack is
   advanced or appended to outside the bounds, no item is written that is not there. *)
THEOREM ConcurrentTypesAreRight == ConcurrentSpec => []RequestsOK
<1>1. Shape => RequestsOK
  BY DEF Shape, RequestsOK, Request, Answers
<1> QED
  BY <1>1, InitConcurrentShape, StepConcurrentShape, PTL DEF ConcurrentSpec

-----------------------------------------------------------------------------
(* WorkflowService.transition: the version guard is enough to keep the order of the
   lifecycle where it is used. *)
LEMMA StatusStep ==
  ASSUME Shape, [ConcurrentNext]_allVars, NEW c \in Cases
  PROVE  \/ status'[c] = status[c]
         \/ CanTransition(status[c], status'[c])
         \/ status'[c] \in {"ready", "assigned"}
<1>1. CASE UNCHANGED status
  BY <1>1
<1>2. ASSUME NEW s \in Slots, CommitTransition(s)
      PROVE  status'[c] = status[c] \/ CanTransition(status[c], status'[c])
  BY <1>2, CommittedEdge DEF Shape, TypeOK
<1>3. ASSUME NEW s \in Slots,
             CommitTakeBack(s) \/ CommitAppend(s) \/ CommitPull(s) \/ CommitRecalculate(s)
      PROVE  status'[c] = status[c] \/ status'[c] \in {"ready", "assigned"}
  BY <1>3 DEF CommitTakeBack, CommitAppend, CommitPull, CommitRecalculate, TakeBack, AppendCases, Place,
              WritePlan
<1>4. ASSUME NEW s \in Slots, Starts(s) PROVE UNCHANGED status
  BY <1>4 DEF Starts, BeginTransition, BeginWithdraw, BeginAdd, BeginParkRemaining, BeginAssign, BeginMove,
              BeginPull, BeginRecalculate, Begin, Share, Sharing, HelperJoins, PartDone, HelperRemoved, vars
<1>5. ASSUME NEW s \in Slots,
             \/ Activate(s) \/ Count(s) \/ Close(s) \/ CommitMoveWithin(s) \/ AdvancePack(s)
             \/ LookForReferences(s) \/ Refuse(s) \/ \E C \in SUBSET Cases : ReadPool(s, C)
             \/ DissolveParked(s) \/ ReadAndPlan(s)
      PROVE  UNCHANGED status
  BY <1>5 DEF Activate, Count, Close, CommitMoveWithin, AdvancePack, LookForReferences, Refuse, ReadPool,
              DissolveParked, ReadAndPlan, vars
<1> QED
  BY <1>1, <1>2, <1>3, <1>4, <1>5 DEF ConcurrentNext, Continues, allVars, vars

THEOREM VersionGuardSuffices == ConcurrentSpec => GuardedEdges
<1>1. Shape /\ [ConcurrentNext]_allVars =>
        [\A c \in Cases : \/ status'[c] = status[c]
                          \/ CanTransition(status[c], status'[c])
                          \/ status'[c] \in {"ready", "assigned"}]_allVars
  BY StatusStep
<1> QED
  BY <1>1, InitConcurrentShape, StepConcurrentShape, PTL DEF ConcurrentSpec, GuardedEdges

-----------------------------------------------------------------------------
(* The unique index of the open bundles: overlapping placements, pulls and
   recalculations never give an employee a second open bundle. *)
LEMMA StepOneOpen ==
  ASSUME Shape, OneOpenBundlePerEmployee, [ConcurrentNext]_allVars
  PROVE  OneOpenBundlePerEmployee'
<1>t. TypeOK
  BY DEF Shape
<1>1. CASE UNCHANGED bundle
  BY <1>1, SameBundles
<1>2. ASSUME NEW s \in Slots, Activate(s) \/ Close(s) \/ AdvancePack(s)
      PROVE  OneOpenBundlePerEmployee'
  <2>1. \A b \in Bundles : IsOpen(b)' => IsOpen(b)
    BY <1>2, <1>t DEF Activate, Close, AdvancePack, IsOpen, Exists, TypeOK
  <2> QED
    BY <2>1, NothingOpened
<1>3. ASSUME NEW s \in Slots, NEW b \in Bundles, NEW e, Owner[b] = e, MayCreate(e), Unused(b, s), Create(b)
      PROVE  OneOpenBundlePerEmployee'
  <2>1. e \in Employees /\ IsTarget(b, e)
    BY <1>3 DEF MayCreate, Unused, IsTarget
  <2> QED
    BY <1>3, <1>t, <2>1, CreateKeepsOneOpen
<1>4. ASSUME NEW s \in Slots, CommitAppend(s) PROVE OneOpenBundlePerEmployee'
  BY <1>1, <1>3, <1>4 DEF CommitAppend
<1>5. ASSUME NEW s \in Slots, CommitPull(s) PROVE OneOpenBundlePerEmployee'
  <2>1. CASE bundle' = [bundle EXCEPT ![req[s].bundle].active = req[s].pack] /\ Exists(req[s].bundle)
    <3>1. \A b \in Bundles : IsOpen(b)' => IsOpen(b)
      BY <1>t, <2>1 DEF IsOpen, TypeOK
    <3> QED
      BY <3>1, NothingOpened
  <2> QED
    BY <1>1, <1>3, <1>5, <2>1 DEF CommitPull
<1>6. ASSUME NEW s \in Slots, CommitRecalculate(s) PROVE OneOpenBundlePerEmployee'
  <2>1. PICK r, G, D : r = req[s] /\ G = r.known
                       /\ D = r.cases \cup r.emptied \cup {c \in Cases : item[c].bundle \in r.known}
    OBVIOUS
  <2>2. PICK at \in [{r.plan[c] : c \in DOMAIN r.plan} -> Bundles] :
          /\ \A e \in DOMAIN at : FindsAgain(s, e, at[e])
          /\ WritePlan(r.plan, at, r.cases, G, D)
    BY <1>6, <2>1 DEF CommitRecalculate
  <2>3. \A b \in Bundles : bundle'[b] =
          IF (\E e \in DOMAIN at : at[e] = b) /\ (~Exists(b) \/ b \in G) THEN NewBundle
          ELSE IF b \in G THEN NoBundle ELSE bundle[b]
    BY <2>2 DEF WritePlan
  <2>4. ASSUME NEW b \in Bundles, IsOpen(b)'
        PROVE  \/ IsOpen(b) /\ b \notin G
               \/ \E e \in DOMAIN at : /\ at[e] = b /\ Owner[b] = e
                                       /\ ~Exists(b) \/ b \in G
                                       /\ OpenBundles(e) \subseteq G
    <3>1. CASE \E e \in DOMAIN at : at[e] = b /\ (~Exists(b) \/ b \in G)
      <4>1. PICK e \in DOMAIN at : at[e] = b /\ (~Exists(b) \/ b \in G)
        BY <3>1
      <4>2. FindsAgain(s, e, b)
        BY <2>2, <4>1
      <4>3. b \notin OpenBundles(e) \ G
        BY <4>1 DEF OpenBundles, IsOpen, Exists
      <4> QED
        BY <2>1, <4>1, <4>2, <4>3 DEF FindsAgain
    <3>2. CASE ~ \E e \in DOMAIN at : at[e] = b /\ (~Exists(b) \/ b \in G)
      <4>1. bundle'[b] = IF b \in G THEN NoBundle ELSE bundle[b]
        BY <2>3, <3>2
      <4> QED
        BY <2>4, <4>1 DEF IsOpen, NoBundle
    <3> QED
      BY <3>1, <3>2
  <2>5. ASSUME NEW b \in Bundles, NEW d \in Bundles, IsOpen(b)', IsOpen(d)', Owner[b] = Owner[d]
        PROVE  b = d
    <3>1. \A x \in Bundles : \A e \in DOMAIN at :
            IsOpen(x) /\ x \notin G /\ Owner[x] = e => ~(OpenBundles(e) \subseteq G)
      BY DEF OpenBundles
    <3> QED
      BY <2>4, <2>5, <3>1 DEF OneOpenBundlePerEmployee
  <2> QED
    BY <2>5 DEF OneOpenBundlePerEmployee
<1>7. ASSUME NEW s \in Slots, Starts(s) PROVE UNCHANGED bundle
  BY <1>7 DEF Starts, BeginTransition, BeginWithdraw, BeginAdd, BeginParkRemaining, BeginAssign, BeginMove,
              BeginPull, BeginRecalculate, Begin, Share, Sharing, HelperJoins, PartDone, HelperRemoved, vars
<1>8. ASSUME NEW s \in Slots,
             \/ CommitTransition(s) \/ Count(s) \/ CommitTakeBack(s) \/ CommitMoveWithin(s)
             \/ LookForReferences(s) \/ Refuse(s) \/ \E C \in SUBSET Cases : ReadPool(s, C)
             \/ DissolveParked(s) \/ ReadAndPlan(s)
      PROVE  UNCHANGED bundle
  BY <1>8 DEF CommitTransition, Count, CommitTakeBack, CommitMoveWithin, LookForReferences, Refuse, ReadPool,
              DissolveParked, ReadAndPlan, vars
<1> QED
  BY <1>1, <1>2, <1>4, <1>5, <1>6, <1>7, <1>8 DEF ConcurrentNext, Continues, allVars, vars

THEOREM ConcurrentOneOpenBundle == ConcurrentSpec => []OneOpenBundlePerEmployee
<1>1. ConcurrentInit => OneOpenBundlePerEmployee
  BY InitIInv DEF ConcurrentInit, IInv, Safe
<1> QED
  BY <1>1, StepOneOpen, InitConcurrentShape, StepConcurrentShape, PTL DEF ConcurrentSpec

-----------------------------------------------------------------------------
(* Work that is placed or begun keeps its item, while nobody recalculates: the reads a
   placement is decided on may be old, but it writes link and item together, and the
   item's unique key keeps a pull from overwriting one. *)
HasItem(c) ==
  status[c] \in Started \cup {"assigned"} => link[c] \in Bundles /\ item[c].bundle = link[c]

LEMMA StepHasItem ==
  ASSUME Shape, \A c \in Cases : HasItem(c), "recalculate" \notin Ops, [ConcurrentNext]_allVars
  PROVE  \A c \in Cases : HasItem(c)'
<1>t. TypeOK /\ \A s \in Slots : req[s] \in Request
  BY DEF Shape
<1>1. CASE UNCHANGED <<status, link, item>>
  BY <1>1 DEF HasItem
<1>2. ASSUME NEW s \in Slots, CommitTransition(s), NEW d \in Cases PROVE HasItem(d)'
  <2>1. PICK c \in Cases, to \in {"in_progress", "completed", "cancelled", "parked", "ready"} :
          /\ CanTransition(status[c], to) /\ status' = [status EXCEPT ![c] = to]
          /\ to # "cancelled" => link' = link
          /\ to = "cancelled" => link' = [link EXCEPT ![c] = None]
          /\ UNCHANGED item
    BY <1>2, CommittedEdge
  <2>2. to = "in_progress" => status[c] \in Started \cup {"assigned"}
    BY <1>t, <2>1, EdgesIntoWork DEF TypeOK
  <2>3. CASE d # c
    BY <1>t, <2>1, <2>3 DEF HasItem, TypeOK
  <2>4. CASE d = c
    BY <1>t, <2>1, <2>2, <2>4 DEF HasItem, TypeOK, Started
  <2> QED
    BY <2>3, <2>4
<1>3. ASSUME NEW s \in Slots, CommitTakeBack(s), NEW d \in Cases PROVE HasItem(d)'
  BY <1>3, <1>t DEF CommitTakeBack, TakeBack, HasItem, Started
<1>4. ASSUME NEW s \in Slots, CommitAppend(s), NEW d \in Cases PROVE HasItem(d)'
  <2>1. PICK r, C : r = req[s] /\ C = r.cases
    OBVIOUS
  <2>2. r \in Request /\ C \in SUBSET Cases
    BY <1>t, <2>1 DEF Request
  <2>3. \E b \in Bundles : AppendCases(C, b, r.pack)
    BY <1>4, <2>1, <2>2 DEF CommitAppend, Request
  <2> QED
    BY <1>t, <2>2, <2>3 DEF AppendCases, HasItem
<1>5. ASSUME NEW s \in Slots, CommitMoveWithin(s), NEW d \in Cases PROVE HasItem(d)'
  <2>1. PICK r : r = req[s]
    OBVIOUS
  <2>2. /\ UNCHANGED <<status, link>>
        /\ item'[d] = IF d \in r.cases
                      THEN [item[d] EXCEPT !.pack = r.pack, !.by = "teamlead"] ELSE item[d]
    BY <1>5, <2>1 DEF CommitMoveWithin
  <2>3. \A i \in Item \cup {NoItem} :
          [i EXCEPT !.pack = r.pack, !.by = "teamlead"].bundle = i.bundle
    BY DEF Item, NoItem
  <2>4. item'[d].bundle = item[d].bundle
    BY <1>t, <2>2, <2>3 DEF TypeOK
  <2> QED
    BY <2>2, <2>4 DEF HasItem
<1>6. ASSUME NEW s \in Slots, CommitPull(s), NEW d \in Cases PROVE HasItem(d)'
  <2>1. PICK r, C : r = req[s] /\ C = r.cases
    OBVIOUS
  <2>2. r \in Request /\ C \in SUBSET Cases
    BY <1>t, <2>1 DEF Request
  <2>3. \E b \in Bundles, p \in Packs : Place(C, b, p)
    BY <1>6, <2>1, <2>2 DEF CommitPull, Request, Place, OpenBundles
  <2>4. \A c \in C : item[c] = NoItem
    BY <1>6, <2>1 DEF CommitPull
  <2>5. d \in C \ Pool => status[d] \notin Started \cup {"assigned"}
    BY <2>2, <2>4, NoneAssumption DEF HasItem, NoItem
  <2> QED
    BY <1>t, <2>2, <2>3, <2>5 DEF Place, HasItem, Pool
<1>7. ASSUME NEW s \in Slots, Starts(s) PROVE UNCHANGED <<status, link, item>>
  BY <1>7 DEF Starts, BeginTransition, BeginWithdraw, BeginAdd, BeginParkRemaining, BeginAssign, BeginMove,
              BeginPull, BeginRecalculate, Begin, Share, Sharing, HelperJoins, PartDone, HelperRemoved, vars
<1>8. ASSUME NEW s \in Slots,
             \/ Activate(s) \/ Count(s) \/ Close(s) \/ AdvancePack(s)
             \/ LookForReferences(s) \/ Refuse(s) \/ \E C \in SUBSET Cases : ReadPool(s, C)
             \/ DissolveParked(s) \/ ReadAndPlan(s)
      PROVE  UNCHANGED <<status, link, item>>
  BY <1>8 DEF Activate, Count, Close, AdvancePack, LookForReferences, Refuse, ReadPool, DissolveParked,
              ReadAndPlan, vars
<1>9. ASSUME NEW s \in Slots, CommitRecalculate(s) PROVE FALSE
  <2>1. req[s].op = "recalculate"
    BY <1>9 DEF CommitRecalculate, AtStep
  <2> QED
    BY <1>t, <2>1 DEF Request
<1> QED
  BY <1>1, <1>2, <1>3, <1>4, <1>5, <1>6, <1>7, <1>8, <1>9 DEF ConcurrentNext, Continues, allVars, vars

(* While nobody recalculates, a case in work is linked to a bundle that has its item,
   whatever placements, withdrawals, moves and pulls were decided on older reads. *)
THEOREM BegunWorkKeepsItsItem ==
  ASSUME "recalculate" \notin Ops
  PROVE  ConcurrentSpec => []HeldWorkHasItsItem
<1> DEFINE Held == \A c \in Cases : HasItem(c)
<1>1. ConcurrentInit => Held
  BY DEF ConcurrentInit, Init, HasItem, Started
<1>2. Shape /\ Held /\ [ConcurrentNext]_allVars => Held'
  BY StepHasItem
<1>3. Held => HeldWorkHasItsItem
  BY DEF HasItem, HeldWorkHasItsItem
<1> QED
  BY <1>1, <1>2, <1>3, InitConcurrentShape, StepConcurrentShape, PTL DEF ConcurrentSpec
=============================================================================
