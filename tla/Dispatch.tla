------------------------------ MODULE Dispatch ------------------------------
(***************************************************************************)
(* Handing out the work of one day.  Cases ("Belege") wait in a pool; the  *)
(* planner and the teamlead place them on employees' bundles, the          *)
(* employees pull further packs, work their cases and close the bundle.    *)
(*                                                                         *)
(* Here every request runs from its first read to its last write before    *)
(* the next one begins; module DispatchConcurrent takes the same requests  *)
(* apart into the reads and the transactions the server interleaves.       *)
(*                                                                         *)
(*   status     goods_receipt_cases.status                                 *)
(*   link       goods_receipt_cases.assignedBundleId                       *)
(*   missing    the intake fields the case still lacks                     *)
(*   collected  goods_receipt_cases.collectedAt is set                     *)
(*   item       the AssignmentItem of the case (caseId is unique)          *)
(*   bundle     the AssignmentBundle rows; status "none": no such row      *)
(*   part       the active CaseParticipant rows of each case               *)
(***************************************************************************)
EXTENDS PackWindow, FiniteSets

CONSTANTS
  Cases,
  Employees,
  Bundles,      \* the bundle rows there can be; bounds the creations
  Owner,        \* the employee a bundle row is for
  None,         \* no bundle
  MaxPack       \* bounds the pack indexes

ASSUME OwnerAssumption == Owner \in [Bundles -> Employees]
ASSUME NoneAssumption == None \notin Bundles
ASSUME MaxPackAssumption == MaxPack \in Nat

VARIABLES status, link, missing, collected, item, bundle, part

vars == <<status, link, missing, collected, item, bundle, part>>

-----------------------------------------------------------------------------
(* Rows and their initial values. *)

IntakeFields == {"Lagerplatz", "Lieferschein"}
Packs        == 0..MaxPack
NoPackNamed  == -1
BundleStatus == {"none", "assigned", "active", "paused", "completed"}

NoItem       == [bundle |-> None, pack |-> 0, by |-> "none"]
Item         == [bundle : Bundles, pack : Packs, by : {"system", "teamlead"}]
NoBundle     == [status |-> "none", active |-> 0]
\* Faulty: the skeleton status of the engine's plan is stored as it is.
FaultyNewBundle == [status |-> "created", active |-> 0]
NewBundle    == [status |-> "assigned", active |-> 0]

PartRow ==
  [who : Employees, role : {"inhaber", "helfer"}, status : {"angenommen", "teil_erledigt"}]

TypeOK ==
  /\ status \in [Cases -> CaseStatuses]
  /\ link \in [Cases -> Bundles \cup {None}]
  /\ missing \in [Cases -> SUBSET IntakeFields]
  /\ collected \in [Cases -> BOOLEAN]
  /\ item \in [Cases -> Item \cup {NoItem}]
  /\ bundle \in [Bundles -> [status : BundleStatus, active : Packs]]
  /\ part \in [Cases -> SUBSET PartRow]

(* The cases as the ProHandel import leaves them: a case that lacks a field
   is blocked, any other one is in the pool (or still under review). *)
Init ==
  /\ missing \in [Cases -> SUBSET IntakeFields]
  /\ status \in [Cases -> {"needs_review", "blocked", "ready"}]
  /\ \A c \in Cases : missing[c] # {} <=> status[c] = "blocked"
  /\ link = [c \in Cases |-> None]
  /\ collected = [c \in Cases |-> FALSE]
  /\ item = [c \in Cases |-> NoItem]
  /\ bundle = [b \in Bundles |-> NoBundle]
  /\ part = [c \in Cases |-> {}]

-----------------------------------------------------------------------------
(* Reading the rows. *)

Exists(b) == bundle[b].status # "none"
IsOpen(b) == bundle[b].status \notin {"none", "completed"}

OpenBundles(e) == {b \in Bundles : Owner[b] = e /\ IsOpen(b)}
Members(b)     == {c \in Cases : item[c].bundle = b}
PacksOf(b)     == [c \in Members(b) |-> item[c].pack]
Linked(b)      == {c \in Cases : link[c] = b}
Pool           == {c \in Cases : status[c] = "ready"}

\* Faulty: without asking whether a helper is still at it.
FaultyPartDoneBy(e) ==
  {c \in Cases : \E r \in part[c] : r.who = e /\ r.status = "teil_erledigt"}

(* The shared cases e has reported his part of done.  They count only while the
   sharing is alive, that is while a helper is active (the requester's part-done
   rows that assignNextBundle reads). *)
PartDoneBy(e) ==
  {c \in Cases : /\ \E r \in part[c] : r.who = e /\ r.status = "teil_erledigt"
                 /\ \E r \in part[c] : r.role = "helfer"}

Blockers(b) ==
  PackAdvanceBlockers(PacksOf(b), status, bundle[b].active, PartDoneBy(Owner[b]))

(* The pack a manual placement goes to when no pack is named. *)
TailPack(b) == LET last == LastPackIndex(PacksOf(b)) IN IF last < 0 THEN 0 ELSE last

\* Faulty: only a running bundle is found, a paused one is overlooked.
FaultyIsTarget(b, e) ==
  /\ Owner[b] = e
  /\ IF \E d \in OpenBundles(e) : bundle[d].status # "paused"
     THEN IsOpen(b) /\ bundle[b].status # "paused"
     ELSE ~Exists(b)

(* findOrCreateBundleTx: the open bundle of the employee, else a new row. *)
IsTarget(b, e) ==
  /\ Owner[b] = e
  /\ IF OpenBundles(e) # {} THEN IsOpen(b) ELSE ~Exists(b)

-----------------------------------------------------------------------------
(* Effects shared by several handlers. *)

(* WorkflowService.transition. *)
Transition(c, to) ==
  /\ CanTransition(status[c], to)
  /\ status' = [status EXCEPT ![c] = to]

(* appendCasesTx: new items at the given pack, placed by the teamlead.  The
   unique key on AssignmentItem.caseId rejects a case that has an item. *)
AppendCases(C, b, p) ==
  /\ p \in Packs
  /\ item' = [c \in Cases |-> IF c \in C
                              THEN [bundle |-> b, pack |-> p, by |-> "teamlead"]
                              ELSE item[c]]
  /\ status' = [c \in Cases |-> IF c \in C THEN "assigned" ELSE status[c]]
  /\ link' = [c \in Cases |-> IF c \in C THEN b ELSE link[c]]

(* dissolveCollaborationTx for each of the cases. *)
Dissolve(C) == part' = [c \in Cases |-> IF c \in C THEN {} ELSE part[c]]

(* The item goes, the case returns to the pool without its bundle and nobody
   shares it any more. *)
TakeBack(C) ==
  /\ item' = [c \in Cases |-> IF c \in C THEN NoItem ELSE item[c]]
  /\ status' = [c \in Cases |-> IF c \in C THEN "ready" ELSE status[c]]
  /\ link' = [c \in Cases |-> IF c \in C THEN None ELSE link[c]]
  /\ Dissolve(C)

(* persistBundle and extendBundle for the case set C: items of the engine;
   only cases still ready are linked and assigned. *)
Place(C, b, p) ==
  /\ p \in Packs
  /\ item' = [c \in Cases |-> IF c \in C
                              THEN [bundle |-> b, pack |-> p, by |-> "system"]
                              ELSE item[c]]
  /\ status' = [c \in Cases |-> IF c \in C \cap Pool THEN "assigned" ELSE status[c]]
  /\ link' = [c \in Cases |-> IF c \in C \cap Pool THEN b ELSE link[c]]

Create(b) == bundle' = [bundle EXCEPT ![b] = IF Exists(b) THEN @ ELSE NewBundle]

-----------------------------------------------------------------------------
(* The teamlead's pool steering. *)

Park(c) ==
  /\ Transition(c, "parked")
  /\ Dissolve({c})
  /\ UNCHANGED <<link, missing, collected, item, bundle>>

(* unpark and approve ask the workflow for `ready', whatever the case's
   status: every edge into ready is open to them. *)
Unpark(c) ==
  /\ Transition(c, "ready")
  /\ UNCHANGED <<link, missing, collected, item, bundle, part>>

Approve(c) ==
  /\ Transition(c, "ready")
  /\ UNCHANGED <<link, missing, collected, item, bundle, part>>

CompleteIntake(c, supplied) ==
  /\ status[c] = "blocked"
  /\ missing' = [missing EXCEPT ![c] = @ \ supplied]
  /\ status' = [status EXCEPT ![c] = IF missing[c] \subseteq supplied THEN "ready" ELSE @]
  /\ UNCHANGED <<link, collected, item, bundle, part>>

(* The item stays behind, the bundle is not looked at. *)
Cancel(c) ==
  /\ Transition(c, "cancelled")
  /\ link' = [link EXCEPT ![c] = None]
  /\ Dissolve({c})
  /\ UNCHANGED <<missing, collected, item, bundle>>

(* Tagesabschluss: every completed case is exported. *)
ExportZst ==
  /\ \E c \in Cases : status[c] = "completed"
  /\ status' = [c \in Cases |-> IF status[c] = "completed" THEN "zst_done" ELSE status[c]]
  /\ UNCHANGED <<link, missing, collected, item, bundle, part>>

-----------------------------------------------------------------------------
(* The teamlead's overrides of bundles. *)

Withdraw(b, c) ==
  /\ c \in Members(b)
  /\ status[c] = "assigned"
  /\ TakeBack({c})
  /\ UNCHANGED <<missing, collected, bundle>>

(* addCasesToBundleTx: all of the cases are ready, or none is placed. *)
Assignable(C) == C # {} /\ C \subseteq Pool /\ \A c \in C : item[c] = NoItem

AddToBundle(b, c) ==
  /\ IsOpen(b)
  /\ Assignable({c})
  /\ AppendCases({c}, b, TailPack(b))
  /\ UNCHANGED <<missing, collected, bundle, part>>

AssignToEmployee(e, c, newPack) ==
  \E b \in Bundles :
    /\ IsTarget(b, e)
    /\ Assignable({c})
    /\ AppendCases({c}, b, IF newPack THEN LastPackIndex(PacksOf(b)) + 1 ELSE TailPack(b))
    /\ Create(b)
    /\ UNCHANGED <<missing, collected, part>>

AssignBundleToEmployee(e, C) ==
  \E b \in Bundles :
    /\ IsTarget(b, e)
    /\ Assignable(C)
    /\ AppendCases(C, b, TailPack(b))
    /\ Create(b)
    /\ UNCHANGED <<missing, collected, part>>

(* Within the bundle a case changes its pack and becomes the teamlead's
   placement. *)
MoveWithinBundle(b, c, p) ==
  /\ c \in Members(b)
  /\ status[c] = "assigned"
  /\ IsOpen(b)
  /\ p \in 0..LastPackIndex(PacksOf(b))
  /\ p # item[c].pack
  /\ item' = [item EXCEPT ![c] = [bundle |-> b, pack |-> p, by |-> "teamlead"]]
  /\ UNCHANGED <<status, link, missing, collected, bundle, part>>

(* Into another bundle, behind its last pack's cases or into a pack that is
   named and has to exist there. *)
MoveToEmployee(src, c, e, p) ==
  /\ c \in Members(src)
  /\ status[c] = "assigned"
  /\ \E b \in Bundles \ {src} :
       /\ IsTarget(b, e)
       /\ p # NoPackNamed => p \in 0..LastPackIndex(PacksOf(b))
       /\ AppendCases({c}, b, IF p = NoPackNamed THEN TailPack(b) ELSE p)
       /\ Create(b)
  /\ Dissolve({c})
  /\ UNCHANGED <<missing, collected>>

SetBundleStatus(b, to) ==
  /\ IsOpen(b)
  /\ bundle' = [bundle EXCEPT ![b].status = to]
  /\ UNCHANGED <<status, link, missing, collected, item, part>>

PauseBundle(b)  == SetBundleStatus(b, "paused")
ResumeBundle(b) == SetBundleStatus(b, "assigned")

-----------------------------------------------------------------------------
(* The planner. *)

(* The running pack of a bundle is out of the planner's reach once the
   employee pulled it himself or touched one of its cases. *)
Touched(b) ==
  \E c \in Members(b) : /\ item[c].pack = bundle[b].active
                        /\ status[c] # "assigned" \/ collected[c]

\* Faulty: a pulled pack is protected only once it was touched.
FaultyActivePackLocked(b) == Touched(b)

ActivePackLocked(b) == bundle[b].active > 0 \/ Touched(b)

\* Faulty: every unstarted placement is reverted, the teamlead's too.
FaultyRevertable ==
  {c \in Cases : /\ item[c] # NoItem
                 /\ status[c] = "assigned"
                 /\ ~ /\ ActivePackLocked(item[c].bundle)
                      /\ item[c].pack = bundle[item[c].bundle].active}

Revertable ==
  {c \in Cases : /\ item[c].by = "system"
                 /\ status[c] = "assigned"
                 /\ ~ /\ ActivePackLocked(item[c].bundle)
                      /\ item[c].pack = bundle[item[c].bundle].active}

\* Faulty: only unfinished cases keep their bundle alive.
FaultyUnreferenced(reverted) ==
  {b \in Bundles : Exists(b) /\ \A c \in Linked(b) \ reverted : status[c] \in DoneForEmployee}

(* The bundles no case is linked to once the plan is cleared: they are
   deleted (their items with them; a link to one becomes null). *)
Unreferenced(reverted) ==
  {b \in Bundles : Exists(b) /\ Linked(b) \subseteq reverted}

(* What the engine may answer: some of the pool, at most one new bundle for
   each employee without an open one.  Only a case with a storage location
   has a place in a pick-up sequence. *)
Plans(pool, gone) ==
  LET free   == {e \in Employees : OpenBundles(e) \subseteq gone}
      fresh  == {b \in Bundles : (~Exists(b) \/ b \in gone) /\ Owner[b] \in free}
      usable == {c \in pool : "Lagerplatz" \notin missing[c]}
  IN  {f \in UNION {[P -> fresh] : P \in SUBSET usable} :
         \A c, d \in DOMAIN f : Owner[f[c]] = Owner[f[d]] => f[c] = f[d]}

(* The plan replaces what was reverted; no case of the old pool keeps an item
   that is not the plan's. *)
Adopt(plan, reverted, gone) ==
  /\ item' = [c \in Cases |->
       IF c \in DOMAIN plan THEN [bundle |-> plan[c], pack |-> 0, by |-> "system"]
       ELSE IF c \in Pool \cup reverted \/ item[c].bundle \in gone THEN NoItem ELSE item[c]]
  /\ status' = [c \in Cases |->
       IF c \in DOMAIN plan THEN "assigned" ELSE IF c \in reverted THEN "ready" ELSE status[c]]
  /\ link' = [c \in Cases |->
       IF c \in DOMAIN plan THEN plan[c]
       ELSE IF c \in reverted \/ link[c] \in gone THEN None ELSE link[c]]
  /\ bundle' = [b \in Bundles |->
       IF \E c \in DOMAIN plan : plan[c] = b THEN NewBundle
       ELSE IF b \in gone THEN NoBundle ELSE bundle[b]]

Recalculate ==
  LET reverted == Revertable
      gone     == Unreferenced(reverted)
  IN  /\ \E plan \in Plans(Pool \cup reverted, gone) : Adopt(plan, reverted, gone)
      /\ Dissolve(reverted)
      /\ UNCHANGED <<missing, collected>>

-----------------------------------------------------------------------------
(* The employee's pull (assignNextBundle): the next planned pack of the open
   bundle, else a cart from the pool as a pack of its own, else a bundle. *)

ActivateNextPack(b) ==
  /\ IsOpen(b)
  /\ Blockers(b) = {}
  /\ \E p \in Packs : /\ IsNextPlannedPack(PacksOf(b), bundle[b].active, p)
                      /\ bundle' = [bundle EXCEPT ![b].active = p]
  /\ UNCHANGED <<status, link, missing, collected, item, part>>

(* A cart the engine can build: ready cases with a storage location; the
   unique item key fails the request for a case that has an item. *)
Cart(C) == Assignable(C) /\ \A c \in C : "Lagerplatz" \notin missing[c]

PullIntoOpenBundle(b, C) ==
  /\ IsOpen(b)
  /\ Blockers(b) = {}
  /\ ~HasPlannedFollowUpPack(PacksOf(b), bundle[b].active)
  /\ Cart(C)
  /\ LET p == LastPackIndex(PacksOf(b)) + 1
     IN  /\ Place(C, b, p)
         /\ bundle' = [bundle EXCEPT ![b].active = p]
  /\ UNCHANGED <<missing, collected, part>>

PullNewBundle(b, C) ==
  /\ OpenBundles(Owner[b]) = {}
  /\ ~Exists(b)
  /\ Cart(C)
  /\ Place(C, b, 0)
  /\ Create(b)
  /\ UNCHANGED <<missing, collected, part>>

-----------------------------------------------------------------------------
(* The employee's work on a case of his.  Access is by the case's link; what
   the participants of a shared case may do has its own module, SharedCase. *)

OnSomeCart(c) == link[c] # None

StartPreparation(c) ==
  /\ OnSomeCart(c)
  /\ Transition(c, "in_progress")
  /\ bundle' = [bundle EXCEPT ![link[c]].status = IF @ = "assigned" THEN "active" ELSE @]
  /\ UNCHANGED <<link, missing, collected, item, part>>

\* Faulty: a case waiting for the teamlead counts as done.
FaultyCloseIfDone(b, st) ==
  bundle' = [bundle EXCEPT ![b].status =
               IF /\ IsOpen(b)
                  /\ \A c \in Linked(b) : st[c] \in DoneForEmployee \cup {"issue_open"}
               THEN "completed" ELSE @]

(* closeBundleIfDone, evaluated after the case was completed. *)
CloseIfDone(b, st) ==
  bundle' = [bundle EXCEPT ![b].status =
               IF IsOpen(b) /\ \A c \in Linked(b) : st[c] \in DoneForEmployee
               THEN "completed" ELSE @]

Complete(c) ==
  /\ OnSomeCart(c)
  /\ Transition(c, "completed")
  /\ CloseIfDone(link[c], status')
  /\ UNCHANGED <<link, missing, collected, item, part>>

PartialComplete(c) ==
  /\ OnSomeCart(c)
  /\ Transition(c, "issue_open")
  /\ status[c] = "in_progress"
  /\ UNCHANGED <<link, missing, collected, item, bundle, part>>

(* The instruction that answers the last open problem. *)
SendInstruction(c) ==
  /\ Transition(c, "problem_resolved")
  /\ UNCHANGED <<link, missing, collected, item, bundle, part>>

ReopenIssue(c) ==
  /\ OnSomeCart(c)
  /\ status[c] \in {"in_progress", "problem_resolved"}
  /\ Transition(c, "issue_open")
  /\ UNCHANGED <<link, missing, collected, item, bundle, part>>

\* Faulty: whatever is not done yet can be parked.
FaultyParkRemaining(b, C) ==
  /\ IsOpen(b)
  /\ C # {} /\ C \subseteq Members(b)
  /\ \A c \in C : status[c] \notin DoneForEmployee
  /\ TakeBack(C)
  /\ collected' = [c \in Cases |-> c \notin C /\ collected[c]]
  /\ UNCHANGED <<missing, bundle>>

ParkRemaining(b, C) ==
  /\ IsOpen(b)
  /\ C # {} /\ C \subseteq Members(b)
  /\ \A c \in C : status[c] = "assigned"
  /\ TakeBack(C)
  /\ collected' = [c \in Cases |-> c \notin C /\ collected[c]]
  /\ UNCHANGED <<missing, bundle>>

SetCollected(c, v) ==
  /\ OnSomeCart(c)
  /\ collected' = [collected EXCEPT ![c] = v]
  /\ UNCHANGED <<status, link, missing, item, bundle, part>>

-----------------------------------------------------------------------------
(* Working on a case together, as far as a pull looks at it: which rows are
   active.  How an invitation becomes one is the matter of SharedCase. *)

Acceptable == {"assigned", "in_progress", "issue_open", "problem_resolved"}

(* A helper accepts; his invitation had made the owner a participant. *)
HelperJoins(c, e) ==
  /\ OnSomeCart(c) /\ status[c] \in Acceptable
  /\ e # Owner[link[c]]
  /\ \A r \in part[c] : r.who # e
  /\ part' = [part EXCEPT ![c] = @ \cup {[who |-> e, role |-> "helfer", status |-> "angenommen"]}
       \cup IF \E r \in @ : r.who = Owner[link[c]] THEN {}
            ELSE {[who |-> Owner[link[c]], role |-> "inhaber", status |-> "angenommen"]}]
  /\ UNCHANGED <<status, link, missing, collected, item, bundle>>

(* partDone of a participant. *)
PartDone(c, e) ==
  /\ status[c] \notin DoneForEmployee
  /\ \E r \in part[c] :
       /\ r.who = e /\ r.status = "angenommen"
       /\ part' = [part EXCEPT ![c] = (@ \ {r}) \cup {[r EXCEPT !.status = "teil_erledigt"]}]
  /\ UNCHANGED <<status, link, missing, collected, item, bundle>>

(* removeParticipant of the teamlead: only helpers. *)
HelperRemoved(c, e) ==
  /\ \E r \in part[c] : /\ r.who = e /\ r.role = "helfer"
                        /\ part' = [part EXCEPT ![c] = @ \ {r}]
  /\ UNCHANGED <<status, link, missing, collected, item, bundle>>

-----------------------------------------------------------------------------
PoolSteering ==
  \/ \E c \in Cases : Park(c) \/ Unpark(c) \/ Approve(c) \/ Cancel(c)
  \/ \E c \in Cases, supplied \in SUBSET IntakeFields : CompleteIntake(c, supplied)
  \/ ExportZst

Overrides ==
  \/ \E b \in Bundles, c \in Cases : Withdraw(b, c) \/ AddToBundle(b, c)
  \/ \E e \in Employees, c \in Cases, newPack \in BOOLEAN : AssignToEmployee(e, c, newPack)
  \/ \E e \in Employees, C \in SUBSET Cases : AssignBundleToEmployee(e, C)
  \/ \E b \in Bundles, c \in Cases, p \in Packs : MoveWithinBundle(b, c, p)
  \/ \E b \in Bundles, c \in Cases, e \in Employees, p \in Packs \cup {NoPackNamed} :
       MoveToEmployee(b, c, e, p)
  \/ \E b \in Bundles : PauseBundle(b) \/ ResumeBundle(b)

Pull ==
  \/ \E b \in Bundles : ActivateNextPack(b)
  \/ \E b \in Bundles, C \in SUBSET Cases : PullIntoOpenBundle(b, C) \/ PullNewBundle(b, C)

Work ==
  \/ \E c \in Cases : \/ StartPreparation(c) \/ Complete(c) \/ PartialComplete(c)
                      \/ SendInstruction(c) \/ ReopenIssue(c)
  \/ \E b \in Bundles, C \in SUBSET Cases : ParkRemaining(b, C)
  \/ \E c \in Cases, v \in BOOLEAN : SetCollected(c, v)

Sharing ==
  \E c \in Cases, e \in Employees : HelperJoins(c, e) \/ PartDone(c, e) \/ HelperRemoved(c, e)

Next == PoolSteering \/ Overrides \/ Recalculate \/ Pull \/ Work \/ Sharing

Spec == Init /\ [][Next]_vars

-----------------------------------------------------------------------------
(* Properties. *)

(* Work somebody holds is on a cart somebody has: a case that is assigned or
   begun is linked to an open bundle and its one item is in that bundle, so
   it is on exactly one employee's screen and its bundle is not closed under
   it (assignment.service, teamlead.service, closeBundleIfDone). *)
HeldWorkIsOnAnOpenCart ==
  \A c \in Cases : status[c] \in Started \cup {"assigned"} =>
    /\ link[c] \in Bundles
    /\ IsOpen(link[c])
    /\ item[c].bundle = link[c]

(* An employee has at most one open bundle: findOrCreateBundleTx, persistBundle
   and the pull all extend the one that is there. *)
OneOpenBundlePerEmployee ==
  \A b, d \in Bundles : IsOpen(b) /\ IsOpen(d) /\ Owner[b] = Owner[d] => b = d

(* Finished work stays attributed: a completed or exported case keeps its
   link and its item in a bundle that exists, through every later planning
   (clearPriorPlanForDate deletes only bundles no case is linked to). *)
DoneWorkKeepsItsBundle ==
  \A c \in Cases : status[c] \in {"completed", "zst_done"} =>
    /\ link[c] \in Bundles
    /\ Exists(link[c])
    /\ item[c].bundle = link[c]

(* A recalculation plans around the teamlead: no case he placed is, in one
   step, placed elsewhere by the engine (clearPriorPlanForDate reverts the
   engine's own items only). *)
TeamleadPlacementKept ==
  [][\A c \in Cases : item[c].by = "teamlead" /\ status[c] = "assigned"
                        => item'[c].by # "system"]_vars

(* The running pack is not replanned: once a pack was pulled by the employee,
   or one of its cases was fetched or begun, none of its other cases is moved
   by the engine (clearPriorPlanForDate). *)
RunningPackUntouched ==
  [][\A c, d \in Cases :
       LET b == item[c].bundle
       IN  /\ status[c] = "assigned" /\ b # None
           /\ item[c].pack = bundle[b].active
           /\ \/ bundle[b].active > 0
              \/ /\ item[d].bundle = b /\ item[d].pack = item[c].pack
                 /\ status[d] # "assigned" \/ collected[d]
           /\ item'[c].by = "system"
           => item'[c] = item[c]]_vars

(* A pull never leaves work behind that nobody is at: when the active pack of a
   bundle changes, every case of the old one is done, waits for the teamlead, or
   is shared: the owner of the bundle reported his part done and a colleague takes
   part in it still (packAdvanceBlockers and the part-done rows, asked on every
   path of assignNextBundle). *)
NothingStartableLeftBehind ==
  [][\A b \in Bundles :
       Exists(b) /\ bundle'[b].status # "none" /\ bundle'[b].active # bundle[b].active
       => \A c \in Members(b) : item[c].pack = bundle[b].active =>
            \/ status[c] \in DoneForEmployee \cup {"issue_open"}
            \/ /\ \E r \in part[c] : r.who = Owner[b] /\ r.status = "teil_erledigt"
               /\ \E r \in part[c] : r.who # Owner[b]]_vars

(* Cases only ever follow edges of the status graph, recalculations and bulk
   placements included. *)
LC == INSTANCE CaseLifecycle
CasesFollowTheGraph == LC!Lifecycle

-----------------------------------------------------------------------------
(* What comments of the code say of these handlers, refuted by a run each.   *)

(* beleg-persist.ts: an incomplete booking is never ready.  unpark and approve
   take a blocked case over its edge into ready without the intake gate. *)
IncompleteNeverReady == \A c \in Cases : status[c] = "ready" => missing[c] = {}

(* clearPriorPlanForDate: "Beteiligungen duerfen die Neuvergabe nicht ueberleben",
   the first participant is the one whose cart the case lies on.  A shared case that
   is made ready on its cart is no reverted one: a plan puts it on another cart and
   leaves the rows. *)
SharingEndsWithTheStay ==
  \A c \in Cases : \A r \in part[c] :
    r.role = "inhaber" => link[c] # None /\ Owner[link[c]] = r.who

(* closeBundleIfDone: when the last open case of a bundle reaches a terminal
   state the bundle is completed.  A cancellation does not ask. *)
LastDoneCaseClosesBundle ==
  [][\A c \in Cases :
       LET b == link[c]
       IN  /\ b # None /\ IsOpen(b)
           /\ status[c] \notin DoneForEmployee /\ status'[c] \in DoneForEmployee
           /\ \A d \in Linked(b) : status'[d] \in DoneForEmployee
           => bundle'[b].status = "completed"]_vars
=============================================================================
