------------------------- MODULE DispatchConcurrent -------------------------
(***************************************************************************)
(* The requests of Dispatch as the server interleaves them.  A handler     *)
(* reads, decides, and writes in one transaction at READ COMMITTED: what   *)
(* it read may have changed when its writes become visible.  What does     *)
(* hold at the commit is what a statement or a constraint checks:          *)
(*                                                                         *)
(*   fresh   the version guard of WorkflowService.transition and of cancel *)
(*           (`where: {id, version}'): no write to the case since the read *)
(*   row     the item row the handler read by id is still there            *)
(*   item[c] = NoItem         the unique key AssignmentItem.caseId         *)
(*   Exists(b)                the foreign keys to the bundle               *)
(*   OpenBundles(e) = {}      the unique index one_open_bundle_per_        *)
(*                            employee_day, when a bundle is created       *)
(*                                                                         *)
(* Row locks are held to the end of a transaction, so its writes take      *)
(* effect together, at its commit.                                         *)
(***************************************************************************)
EXTENDS Dispatch

CONSTANTS
  Slots,    \* requests the server works on at the same time
  Ops       \* the requests a run looks at

VARIABLE req

allVars == <<vars, req>>

Target ==
  [start |-> "in_progress", complete |-> "completed", cancel |-> "cancelled",
   park |-> "parked", unpark |-> "ready"]

Steps == {"idle", "look", "pool", "plan", "commit", "activate", "count", "close", "dissolve"}

Idle ==
  [op |-> "idle", step |-> "idle", cases |-> {}, bundle |-> None, who |-> None,
   pack |-> 0, known |-> {}, emptied |-> {}, plan |-> <<>>, fresh |-> TRUE, row |-> TRUE]

RequestsOK ==
  /\ TypeOK
  /\ \A s \in Slots :
       /\ req[s].op \in Ops \cup {"idle"}
       /\ req[s].step \in Steps
       /\ req[s].cases \subseteq Cases
       /\ req[s].bundle \in Bundles \cup {None}
       /\ req[s].who \in Employees \cup {None}
       /\ req[s].pack \in 0..(MaxPack + 1)
       /\ req[s].known \subseteq Bundles
       /\ req[s].emptied \subseteq Cases
       /\ req[s].plan \in UNION {[P -> Employees] : P \in SUBSET Cases}

ConcurrentInit == Init /\ req = [s \in Slots |-> Idle]

-----------------------------------------------------------------------------
(* Bookkeeping of the requests in flight. *)

Call(op, step, C, b, e, p) ==
  [Idle EXCEPT !.op = op, !.step = step, !.cases = C, !.bundle = b, !.who = e, !.pack = p]

Begin(s, call) ==
  /\ call.op \in Ops
  /\ req[s] = Idle
  /\ req' = [req EXCEPT ![s] = call]
  /\ UNCHANGED vars

AtStep(s, ops, step) == req[s].op \in ops /\ req[s].step = step

(* The request of s goes on as `next'; the others' reads age: the versions of
   the cases in `bumped' grew, the items of those in `dropped' are gone. *)
Proceed(s, next, bumped, dropped) ==
  req' = [t \in Slots |->
            IF t = s THEN next
            ELSE [req[t] EXCEPT !.fresh = @ /\ req[t].cases \cap bumped = {},
                                !.row   = @ /\ req[t].cases \cap dropped = {}]]

(* A new row has an id nobody in flight knows. *)
Unused(b, s) ==
  /\ ~Exists(b)
  /\ \A t \in Slots \ {s} : b # req[t].bundle /\ b \notin req[t].known

(* A transaction that has not committed can always fail: a guard above, a
   deadlock, a timeout. *)
Refuse(s) ==
  /\ req[s].step \in {"look", "pool", "plan", "commit"}
  /\ Proceed(s, Idle, {}, {})
  /\ UNCHANGED vars

-----------------------------------------------------------------------------
(* Requests that go through the version guard. *)

BeginTransition(s, op, c) ==
  /\ op \in {"start", "complete"} => OnSomeCart(c)
  /\ CanTransition(status[c], Target[op])
  /\ Begin(s, Call(op, "commit", {c}, None, None, 0))

FollowUp(op) ==
  CASE op = "start" -> "activate" [] op = "complete" -> "count" [] op = "park" -> "dissolve"
    [] OTHER -> "idle"

\* Faulty: the update is by id alone.
FaultyCommitTransition(s) ==
  LET r == req[s]
      c == CHOOSE d \in r.cases : TRUE
  IN  /\ AtStep(s, DOMAIN Target, "commit")
      /\ status' = [status EXCEPT ![c] = Target[r.op]]
      /\ link' = IF r.op = "cancel" THEN [link EXCEPT ![c] = None] ELSE link
      /\ Dissolve(IF r.op = "cancel" THEN {c} ELSE {})
      /\ Proceed(s, IF FollowUp(r.op) = "idle" THEN Idle ELSE [r EXCEPT !.step = FollowUp(r.op)],
                 {c}, {})
      /\ UNCHANGED <<missing, collected, item, bundle>>

CommitTransition(s) ==
  LET r == req[s]
      c == CHOOSE d \in r.cases : TRUE
  IN  /\ AtStep(s, DOMAIN Target, "commit")
      /\ r.fresh
      /\ status' = [status EXCEPT ![c] = Target[r.op]]
      /\ link' = IF r.op = "cancel" THEN [link EXCEPT ![c] = None] ELSE link
      /\ Dissolve(IF r.op = "cancel" THEN {c} ELSE {})
      /\ Proceed(s, IF FollowUp(r.op) = "idle" THEN Idle ELSE [r EXCEPT !.step = FollowUp(r.op)],
                 {c}, {})
      /\ UNCHANGED <<missing, collected, item, bundle>>

(* activateBundle, after the transition's commit. *)
Activate(s) ==
  /\ AtStep(s, {"start"}, "activate")
  /\ LET carts == {link[c] : c \in req[s].cases} IN
       bundle' = [b \in Bundles |-> IF b \in carts /\ bundle[b].status = "assigned"
                                    THEN [bundle[b] EXCEPT !.status = "active"] ELSE bundle[b]]
  /\ Proceed(s, Idle, {}, {})
  /\ UNCHANGED <<status, link, missing, collected, item, part>>

\* Faulty: asks for the end of the graph instead of the end of the work.
FaultyAllDone(b) == \A d \in Linked(b) : status[d] \in Terminal

AllDone(b) == \A d \in Linked(b) : status[d] \in DoneForEmployee

(* closeBundleIfDone counts the open cases, then writes unconditionally. *)
Count(s) ==
  /\ AtStep(s, {"complete"}, "count")
  /\ \E c \in req[s].cases :
       LET b == link[c]
       IN  Proceed(s, IF b # None /\ IsOpen(b) /\ AllDone(b)
                      THEN [req[s] EXCEPT !.step = "close", !.bundle = b] ELSE Idle, {}, {})
  /\ UNCHANGED vars

Close(s) ==
  /\ AtStep(s, {"complete"}, "close")
  /\ bundle' = [bundle EXCEPT ![req[s].bundle].status =
                  IF Exists(req[s].bundle) THEN "completed" ELSE @]
  /\ Proceed(s, Idle, {}, {})
  /\ UNCHANGED <<status, link, missing, collected, item, part>>

(* park ends the sharing in a second transaction. *)
DissolveParked(s) ==
  /\ AtStep(s, {"park"}, "dissolve")
  /\ Dissolve(req[s].cases)
  /\ Proceed(s, Idle, {}, {})
  /\ UNCHANGED <<status, link, missing, collected, item, bundle>>

-----------------------------------------------------------------------------
(* Taking cases off a cart: `assigned' is checked at the read only. *)

BeginWithdraw(s, b, c) ==
  /\ c \in Members(b)
  /\ status[c] = "assigned"
  /\ Begin(s, Call("withdraw", "commit", {c}, b, None, 0))

BeginParkRemaining(s, b, C) ==
  /\ IsOpen(b)
  /\ C # {} /\ C \subseteq Members(b)
  /\ \A c \in C : status[c] = "assigned"
  /\ Begin(s, Call("parkRemaining", "commit", C, b, None, 0))

CommitTakeBack(s) ==
  LET r == req[s]
  IN  /\ AtStep(s, {"withdraw", "parkRemaining"}, "commit")
      /\ r.row
      /\ TakeBack(r.cases)
      /\ collected' = [c \in Cases |->
                         collected[c] /\ ~(r.op = "parkRemaining" /\ c \in r.cases)]
      /\ Proceed(s, Idle, r.cases, r.cases)
      /\ UNCHANGED <<missing, bundle>>

-----------------------------------------------------------------------------
(* Placing cases by hand: bundle and status are checked at the read only. *)

BeginAdd(s, b, c) ==
  /\ IsOpen(b)
  /\ c \in Pool
  /\ Begin(s, Call("add", "commit", {c}, b, None, TailPack(b)))

(* The open bundle of the employee, or None: one is to be created. *)
FoundBundle(b, e) ==
  IF OpenBundles(e) = {} THEN b = None ELSE b \in OpenBundles(e)

PackFor(b, newPack) ==
  IF b = None THEN 0
  ELSE IF newPack THEN LastPackIndex(PacksOf(b)) + 1 ELSE TailPack(b)

BeginAssign(s, e, C, newPack) ==
  /\ C # {} /\ C \subseteq Pool
  /\ newPack => Cardinality(C) = 1
  /\ \E b \in Bundles \cup {None} :
       /\ FoundBundle(b, e)
       /\ Begin(s, Call("assign", "commit", C, b, e, PackFor(b, newPack)))

(* To a named pack p of the found bundle, or behind its last items. *)
BeginMove(s, c, e, p) ==
  /\ item[c] # NoItem
  /\ status[c] = "assigned"
  /\ \E b \in Bundles \cup {None} :
       /\ FoundBundle(b, e)
       /\ IF p = NoPackNamed THEN b # item[c].bundle
          ELSE b # None /\ p <= LastPackIndex(PacksOf(b)) /\ <<b, p>> # <<item[c].bundle, item[c].pack>>
       /\ Begin(s, Call(IF b = item[c].bundle THEN "moveWithin" ELSE "move", "commit", {c}, b, e,
                        IF p = NoPackNamed THEN PackFor(b, FALSE) ELSE p))

\* Faulty: without the partial unique index.
FaultyMayCreate(e) == TRUE

MayCreate(e) == OpenBundles(e) = {}

CommitAppend(s) ==
  LET r == req[s]
  IN  /\ AtStep(s, {"add", "assign", "move"}, "commit")
      /\ IF r.op = "move" THEN r.row ELSE \A c \in r.cases : item[c] = NoItem
      /\ \/ /\ r.bundle # None /\ Exists(r.bundle)
            /\ AppendCases(r.cases, r.bundle, r.pack)
            /\ UNCHANGED bundle
         \/ /\ r.bundle = None /\ MayCreate(r.who)
            /\ \E b \in Bundles : /\ Owner[b] = r.who /\ Unused(b, s)
                                  /\ AppendCases(r.cases, b, r.pack)
                                  /\ Create(b)
      /\ Dissolve(IF r.op = "move" THEN r.cases ELSE {})
      /\ Proceed(s, Idle, r.cases, IF r.op = "move" THEN r.cases ELSE {})
      /\ UNCHANGED <<missing, collected>>

CommitMoveWithin(s) ==
  LET r == req[s]
  IN  /\ AtStep(s, {"moveWithin"}, "commit")
      /\ r.row
      /\ item' = [c \in Cases |-> IF c \in r.cases
                                  THEN [item[c] EXCEPT !.pack = r.pack, !.by = "teamlead"]
                                  ELSE item[c]]
      /\ Proceed(s, Idle, {}, {})
      /\ UNCHANGED <<status, link, missing, collected, bundle, part>>

-----------------------------------------------------------------------------
(* The employee's pull: the open bundle and its packs are read before the
   transaction, the pool in it; both are used as they were read. *)

BeginPull(s, e) ==
  \E b \in Bundles \cup {None} :
    /\ FoundBundle(b, e)
    /\ b # None => Blockers(b) = {}
    /\ IF b # None /\ HasPlannedFollowUpPack(PacksOf(b), bundle[b].active)
       THEN \E p \in Packs : /\ IsNextPlannedPack(PacksOf(b), bundle[b].active, p)
                             /\ Begin(s, Call("advance", "commit", {}, b, e, p))
       ELSE Begin(s, Call("pull", "pool", {}, b, e, PackFor(b, TRUE)))

AdvancePack(s) ==
  /\ AtStep(s, {"advance"}, "commit")
  /\ bundle' = [bundle EXCEPT ![req[s].bundle].active =
                  IF Exists(req[s].bundle) THEN req[s].pack ELSE @]
  /\ Proceed(s, Idle, {}, {})
  /\ UNCHANGED <<status, link, missing, collected, item, part>>

ReadPool(s, C) ==
  /\ AtStep(s, {"pull"}, "pool")
  /\ C # {} /\ C \subseteq Pool
  /\ \A c \in C : "Lagerplatz" \notin missing[c]
  /\ Proceed(s, [req[s] EXCEPT !.step = "commit", !.cases = C], {}, {})
  /\ UNCHANGED vars

(* persistBundle looks for an open bundle once more and only plans ahead on
   it; extendBundle takes the bundle it was handed and activates the pack. *)
CommitPull(s) ==
  LET r == req[s]
      e == r.who
  IN  /\ AtStep(s, {"pull"}, "commit")
      /\ \A c \in r.cases : item[c] = NoItem
      /\ \/ /\ r.bundle # None /\ Exists(r.bundle)
            /\ Place(r.cases, r.bundle, r.pack)
            /\ bundle' = [bundle EXCEPT ![r.bundle].active = r.pack]
         \/ /\ r.bundle = None
            /\ \E b \in OpenBundles(e) : Place(r.cases, b, LastPackIndex(PacksOf(b)) + 1)
            /\ UNCHANGED bundle
         \/ /\ r.bundle = None /\ MayCreate(e)
            /\ \E b \in Bundles : /\ Owner[b] = e /\ Unused(b, s)
                                  /\ Place(r.cases, b, 0)
                                  /\ Create(b)
      /\ Proceed(s, Idle, r.cases \cap Pool, {})
      /\ UNCHANGED <<missing, collected, part>>

-----------------------------------------------------------------------------
(* Recalculate, one transaction: which placements are reverted, which bundles
   nobody is linked to, who has no open bundle and what the engine plans for
   them, and its writes. *)

BeginRecalculate(s) ==
  Begin(s, [Call("recalculate", "look", Revertable, None, None, 0)
              EXCEPT !.known = {b \in Bundles : Exists(b)}])

LookForReferences(s) ==
  /\ AtStep(s, {"recalculate"}, "look")
  /\ Proceed(s, [req[s] EXCEPT !.step = "plan",
                               !.known = {b \in @ : Linked(b) \subseteq req[s].cases}], {}, {})
  /\ UNCHANGED vars

(* What the engine may answer: which of the pool's cases each employee without
   an open bundle gets.  Stale items of pool cases are deleted before. *)
ReadAndPlan(s) ==
  LET pool   == Pool \cup req[s].cases
      usable == {c \in pool : "Lagerplatz" \notin missing[c]}
      free   == {e \in Employees : OpenBundles(e) \subseteq req[s].known}
  IN  /\ AtStep(s, {"recalculate"}, "plan")
      /\ \E plan \in UNION {[P -> free] : P \in SUBSET usable} :
           Proceed(s, [req[s] EXCEPT !.step = "commit", !.plan = plan,
                                     !.emptied = {c \in pool : item[c] # NoItem}], {}, {})
      /\ UNCHANGED vars

(* persistBundle looks for an open bundle of the employee once more: one that
   came about meanwhile is extended by a pack that is not activated. *)
FindsAgain(s, e, b) ==
  /\ Owner[b] = e
  /\ IF OpenBundles(e) \ req[s].known # {}
     THEN b \in OpenBundles(e) \ req[s].known
     ELSE /\ ~Exists(b) \/ b \in req[s].known
          /\ \A t \in Slots \ {s} : b # req[t].bundle /\ b \notin req[t].known

(* The plan is written down: `gone' bundles and `dropped' items are deleted, the
   cases are placed in the bundles `at', the rest of the reverted goes back. *)
WritePlan(plan, at, reverted, gone, dropped) ==
  LET tail(b) == IF ~Exists(b) \/ b \in gone THEN 0
                 ELSE LastPackIndex([c \in Members(b) \ dropped |-> item[c].pack]) + 1
      placed  == DOMAIN plan \cap (Pool \cup reverted)
  IN  /\ \A e \in DOMAIN at : tail(at[e]) \in Packs
      /\ item' = [c \in Cases |->
           IF c \in DOMAIN plan
           THEN [bundle |-> at[plan[c]], pack |-> tail(at[plan[c]]), by |-> "system"]
           ELSE IF c \in dropped THEN NoItem ELSE item[c]]
      /\ status' = [c \in Cases |->
           IF c \in placed THEN "assigned" ELSE IF c \in reverted THEN "ready" ELSE status[c]]
      /\ link' = [c \in Cases |->
           IF c \in placed THEN at[plan[c]]
           ELSE IF c \in reverted \/ link[c] \in gone THEN None ELSE link[c]]
      /\ bundle' = [b \in Bundles |->
           IF (\E e \in DOMAIN at : at[e] = b) /\ (~Exists(b) \/ b \in gone) THEN NewBundle
           ELSE IF b \in gone THEN NoBundle ELSE bundle[b]]

CommitRecalculate(s) ==
  LET r       == req[s]
      dropped == r.cases \cup r.emptied \cup {c \in Cases : item[c].bundle \in r.known}
  IN  /\ AtStep(s, {"recalculate"}, "commit")
      /\ \A c \in DOMAIN r.plan \ dropped : item[c] = NoItem
      /\ \E at \in [{r.plan[c] : c \in DOMAIN r.plan} -> Bundles] :
           /\ \A e \in DOMAIN at : FindsAgain(s, e, at[e])
           /\ WritePlan(r.plan, at, r.cases, r.known, dropped)
      /\ Dissolve(r.cases)
      /\ Proceed(s, Idle, r.cases \cup (DOMAIN r.plan \cap Pool), dropped)
      /\ UNCHANGED <<missing, collected>>

(* The rows of a shared case are each written by one statement that tests the
   row.  That the case is looked at earlier makes no difference here: on a case
   that is done by then the row holds nobody, on one that left its cart it is
   gone. *)
Share(s) ==
  /\ "share" \in Ops
  /\ req[s] = Idle
  /\ Sharing
  /\ UNCHANGED req

-----------------------------------------------------------------------------
Starts(s) ==
  \/ \E op \in DOMAIN Target, c \in Cases : BeginTransition(s, op, c)
  \/ \E b \in Bundles, c \in Cases : BeginWithdraw(s, b, c) \/ BeginAdd(s, b, c)
  \/ \E b \in Bundles, C \in SUBSET Cases : BeginParkRemaining(s, b, C)
  \/ \E e \in Employees, C \in SUBSET Cases, newPack \in BOOLEAN : BeginAssign(s, e, C, newPack)
  \/ \E c \in Cases, e \in Employees, p \in Packs \cup {NoPackNamed} : BeginMove(s, c, e, p)
  \/ \E e \in Employees : BeginPull(s, e)
  \/ BeginRecalculate(s)
  \/ Share(s)

Continues(s) ==
  \/ CommitTransition(s) \/ Activate(s) \/ Count(s) \/ Close(s) \/ DissolveParked(s)
  \/ CommitTakeBack(s) \/ CommitAppend(s) \/ CommitMoveWithin(s)
  \/ AdvancePack(s) \/ CommitPull(s) \/ \E C \in SUBSET Cases : ReadPool(s, C)
  \/ LookForReferences(s) \/ ReadAndPlan(s) \/ CommitRecalculate(s)
  \/ Refuse(s)

ConcurrentNext == \E s \in Slots : Starts(s) \/ Continues(s)

ConcurrentSpec == ConcurrentInit /\ [][ConcurrentNext]_allVars

(* A request that committed goes on: the process does not stop in between. *)
Fairness == \A s \in Slots : WF_allVars(Activate(s) \/ Count(s) \/ Close(s) \/ DissolveParked(s))

FairSpec == ConcurrentSpec /\ Fairness

-----------------------------------------------------------------------------
(* Properties. *)

(* The version guard is enough to keep the lifecycle's order where it is used:
   however the requests overlap, a case takes a step that is no edge of the
   graph only by one of the unguarded writes of a placement or its removal,
   which write `assigned' and `ready' and nothing else. *)
GuardedEdges ==
  [][\A c \in Cases : \/ status'[c] = status[c]
                      \/ CanTransition(status[c], status'[c])
                      \/ status'[c] \in {"ready", "assigned"}]_allVars

(* Begun work keeps its place: while nobody recalculates, a case in work is
   linked to a bundle that has its item, whatever placements, withdrawals and
   moves were decided on older reads of it. *)
HeldWorkHasItsItem ==
  \A c \in Cases : status[c] \in Started =>
    /\ link[c] \in Bundles
    /\ item[c].bundle = link[c]

Finished(b) == Linked(b) # {} /\ \A c \in Linked(b) : status[c] \in DoneForEmployee

(* Two completions of the last cases of a cart at the same time: each counts
   after its own commit, so one of them sees no open case and the bundle is
   closed (closeBundleIfDone). *)
LastCompletionCloses ==
  \A b \in Bundles : IsOpen(b) /\ Finished(b) ~> ~(IsOpen(b) /\ Finished(b))

-----------------------------------------------------------------------------
(* What comments of the code say of these requests, refuted by a run each.   *)

(* withdraw: once an employee has started a case it stays put. *)
StartedWorkStays ==
  [][\A c \in Cases : status[c] \in Started \cup {"completed"}
                        => status'[c] \notin {"ready", "assigned"}]_allVars

(* extendBundle: what a pull appends is always a pack of its own. *)
PulledPackIsItsOwn ==
  [][\A c, d \in Cases :
       /\ item'[c] # item[c] /\ item'[c].by = "system"
       /\ item[d].bundle = item'[c].bundle /\ item'[d] = item[d]
       => item[d].pack < item'[c].pack]_allVars

(* clearPriorPlanForDate: the teamlead's placements stay, their bundles
   survive a recalculation. *)
TeamleadBundleSurvives ==
  [][\A c \in Cases : item[c].by = "teamlead" /\ status[c] = "assigned"
                        => bundle'[item[c].bundle].status # "none"]_allVars
=============================================================================
