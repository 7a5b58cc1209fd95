# PaketDispo: verification of the dispatch backend

PaketDispo hands out the work of a goods-receipt department. Bookings ("Belege", here *cases*)
arrive from ProHandel, wait in a pool, are planned or placed on the carts (*bundles*) of employees,
are counted, and are exported as booked work (ZST). The backend (`src/apps/backend-api`, NestJS,
Prisma, PostgreSQL) carries nearly all of that logic, with the assignment engine
(`src/packages/assignment-engine`) as a pure function inside; the two web apps send it requests. Nothing but the
database is shared between requests: every handler reads, decides and writes in transactions at
READ COMMITTED, so what can go wrong lies in long histories of legal requests and in requests
that overlap. The employee app adds one piece of state that matters: what was entered and is not stored yet.

This directory holds TLA+ models of that logic, the TLC runs that check them, and proofs that
TLAPS checks. `PROJECT.json` lists, per definition, the source lines it stands for.

## 1. Inventory

Sources without a prefix are under `src/apps/backend-api/src`.

| Component | State | Operations | What is hard | What makes it correct |
|---|---|---|---|---|
| Case status workflow: `workflow/case-status.ts`, `case-state-machine.ts`, `workflow.service.ts` | `GoodsReceiptCase.status`, `version` | `transition` (graph check, update guarded by the version, event) | many writers of one row; some writers bypass it | cases follow the graph; terminal stays terminal |
| Pack window: `cases/pack-window.ts` | none (pure) | `packAdvanceBlockers`, `lastPackIndex`, `packWindow`, ... | empty bundles (-1), gaps between pack indexes, carry-over | a pull leaves no case behind that nobody is at |
| Planner: `assignment/assignment.service.ts` | bundles, items, links | `recalculate`, `clearPriorPlanForDate`, `persistBundle`, `extendBundle`, `assignNextBundle`, `activateNextPack` | a replan must stay off running packs and manual placements; it reads in several statements; the pull reads before its transaction | one open bundle per employee, teamlead placements kept, running pack kept, finished work stays attributed |
| Teamlead overrides: `cases/teamlead.service.ts` | the same rows, intake fields, issues | pool: `park unpark approve cancel completeIntake returnToBucher exportZst`; bundles: `withdraw addToBundle assignToEmployee assignBundleToEmployee moveCase reorder pauseBundle resumeBundle`; further: `splitCase`, collaboration, delivery groups, priority, flags | status checked at a read, written by id | held work is on an open cart |
| Employee work: `cases/cases.service.ts` | status, counts, confirmations, `collectedAt`, ZST rows | `startPreparation complete partialComplete reopenIssue confirmPosition countSkuLine setCollected parkRemaining` | chains of transactions per request (transition, counts, ZST, closing the bundle) | the last completion closes the cart; nothing is booked twice |
| Problem loop: `partialComplete`, `reopenIssue`, `sendInstruction` | `Issue`, case status | report, answer, ask back | problems and status in different transactions, one of them nested | status and problems tell the same story |
| Collaboration: `collaboration/*`, `modules/completion/collaboration-gate.ts` | `CaseParticipant` | invite, respond, part done, remove, dissolve, completion gate | answers race removal, leaving and completion; the gate is armed by a read before the transition | no completion over an active helper's unchecked positions |
| ZST booking: `writeZst`, `exportZst` | `ZstRecord` | book the difference, export | sums read outside the transaction; a crash after `complete`; keys made of shares | never more booked than handed in |
| Counting screen: `src/apps/employee-pwa/src/data/useCountSku.ts`, `workflow/useCaseFlow.ts` | cached case, own inputs, timer | enter, flush, roll back, refetch, hand in | optimistic patches, cancelled reads, live events, requests in any order | a deviation that was entered is handed in and stored; the screen ends up true |
| Assignment engine: `src/packages/assignment-engine` | none (pure) | priority ladder, packing, dealing, pull, pick-up order | budgets and pack limits at their edges | every Beleg has one place; urgency is respected |
| Delivery groups and priority: `grouping/delivery-group.ts` (engine), `teamlead.service.ts`, `assignment/load-plan.ts` | `manualDeliveryGroupKey`, `deliveryReleasedAt`, priority marks, loading calendar | `mergeDeliveryGroup splitDeliveryGroup releaseDeliveryGroup holdDeliveryCases prioritize deprioritize` | members arrive one by one; corrections between plans; loading days move | an incomplete delivery waits; a missed day stays missed |
| Case split: `cases/case-split.ts`, `splitCase` | part cases, container | split | keeping lines back for later parts, rounding | parts carry the whole |
| Event log: `events/event-log.service.ts`, `event-hash.ts` | `WorkflowEvent` (hash chain) | `append`, `verifyIntegrity` | every writer appends; one advisory lock; retries with keys | linear chain, unique keys, append-only |
| Intake: `prohandel/*` | new cases | persist bookings, intake gate | conversion | incomplete bookings are blocked |
| Live notifications | - | hints to reread | late, lost | only hints |
| Read models, administration, messages, reporting, labels, transport boxes, clock | single rows | reads, single-row maintenance | - | no effect on the rows above |

How they interact: handlers call `WorkflowService.transition` for guarded moves, write case, item and
bundle rows directly for placements, and call `EventLogService.append` for every change, inside
the same transaction; `append` serialises all of them by one transaction-level advisory lock. The
planner and the pull hand pool, capacities and shifts to the engine, and persist its answer together with the
status changes. The employee app posts counts while the employee types and sends its own inputs once more with
the hand-in; the backend decides on the body where there is one and on the stored counts elsewhere.

Hazards are listed in `PROJECT.json`, each at its line with the properties that cover it.

## 2. Modules

| Module | Models | Extends |
|---|---|---|
| `CaseStatus` | the status graph and its predicates | - |
| `CaseLifecycle` | abstract specification: cases enter unreleased or in the pool and follow the graph | `CaseStatus` |
| `PackWindow` | the pack rules | `CaseStatus` |
| `Dispatch` | the requests of planner, teamlead and employee, each atomic | `PackWindow` |
| `DispatchConcurrent` | the same requests taken apart into reads and transactions that interleave | `Dispatch` |
| `EventLog` | overlapping transactions that append to the hash chain | - |
| `Clarification` | abstract specification: reporting, answering and resuming as single steps | - |
| `ProblemLoop` | the commits behind them, which overlap and may stop halfway | `CaseStatus` |
| `SharedCase` | participants of a case, the gates, and the case's stay on carts | `CaseStatus` |
| `Sums` | sums over finite sets (operator) | - |
| `ZstBooking` | what hand-ins book, record by record, and the export | `Sums` |
| `CountEntry` | the counting screen with the server behind it | - |
| `Priority` | the priority ladder and the loading days (operators) | - |
| `DeliveryGroups` | detection and withholding of deliveries (operators) | - |
| `CaseSplit` | the distribution of size lines over parts (operators) | `Sums` |
| `DayPlan` | the pool of a day, the engine step by step, corrections and pulls | `Priority`, `DeliveryGroups`, `CaseSplit` |
| `MC...` | instances for TLC | |
| `Dispatch_proofs` | types, state invariants, action properties, the refinement of `CaseLifecycle`; the theorems about overlapping requests | `DispatchConcurrent` |
| `Sums_proofs` | lemmas: finite sums, minimal counterexamples | `Sums` |
| `ZstBooking_proofs`, `DayPlan_proofs` | the theorems of section 4 | their module, `Sums_proofs` |
| `EventLog_proofs`, `ProblemLoop_proofs`, `SharedCase_proofs`, `CountEntry_proofs` | the theorems of section 4 | their module |

Operators named `Faulty...` stand beside the definition they are a defective variant of. They are
never used by a specification; each one, put in the place of its original, makes a run fail,
which shows that the properties can tell the two apart.

### Dispatch

State: `status`, `link` (`assignedBundleId`), `missing` (intake fields still missing), `collected`
(`collectedAt` is set), `item` (the `AssignmentItem` of the case: bundle, pack index, `createdBy`;
`caseId` is unique, so it is a function of the case), `bundle` (status and `activePackIndex`; status
`none` is a row that does not exist), and `part`, the active participants of a shared case with role and status (`angenommen`, `teil_erledigt`).
`Owner` fixes the employee of each possible bundle row.

Each action is one request, run from its first read to its last write, so this module asks what
*histories* of requests can do, not what overlaps can do:

* pool steering: `Park Unpark Approve Cancel CompleteIntake ExportZst`. `Unpark` and `Approve` only ask
  the workflow for `ready`, as the code does; `Cancel` clears the link and leaves the item.
* overrides: `Withdraw AddToBundle AssignToEmployee AssignBundleToEmployee MoveWithinBundle
  MoveToEmployee PauseBundle ResumeBundle`, with `findOrCreateBundleTx` as `IsTarget`/`Create` and
  `appendCasesTx` as `AppendCases`.
* planner: `Recalculate` is the whole handler: what is reverted (`Revertable`, with the lock on the running
  pack), what is deleted (`Unreferenced`), and any answer of the engine (`Plans`).
* pull: `ActivateNextPack PullIntoOpenBundle PullNewBundle`. What holds it up is `Blockers`: an open case of the running pack, unless it
  waits for the teamlead, or the employee has reported his part of it done and a helper is still active (`PartDoneBy`, the part-done
  rows `assignNextBundle` reads).
* sharing: `HelperJoins PartDone HelperRemoved`, as far as the pull asks for it. Whatever takes a case off its cart deletes its
  participants (`Dissolve`: withdraw, park, cancel, move, parkRemaining, and a recalculation for the cases it takes back).
* work: `StartPreparation Complete PartialComplete SendInstruction ReopenIssue ParkRemaining
  SetCollected`; `Complete` includes `closeBundleIfDone`, `StartPreparation` includes `activateBundle`.

Abstracted: capacities, shifts, skills, areas and route stops are the engine's free choice of a
subset of the pool (it only needs a storage location); efforts, sequence numbers and reasons are left out; the
issue rows behind `issue_open`/`problem_resolved` are not kept here, so `SendInstruction` may always be the answer to the last open problem
(`ProblemLoop` keeps them); invitations and answers under way are the matter of `SharedCase`. There is one day.

### DispatchConcurrent

`req[s]` is the request in slot `s`: the operation, the step it has reached, what it decided on
(cases, bundle, pack) and two flags about its reads. `fresh` says that no case of the request was written since
the read, which is what the version guard of `transition` and `cancel` tests at the update; `row` says that the item
row it read by id still exists. Everything else that can still fail a write is in its guard: the
unique key on `AssignmentItem.caseId`, foreign keys to the bundle, and the partial unique index
`one_open_bundle_per_employee_day`. A guard the code does not have is not in the model: placements and
removals write by id.

The writes of one transaction are one step. That is exact for what other transactions can see: rows are locked
from the first write to the commit, and nobody reads uncommitted rows. `Recalculate` is split
in four because its later reads see commits made after its first one: what it takes back (`BeginRecalculate`), which bundles are
unreferenced (`LookForReferences`), the pool and who has no open bundle (`ReadAndPlan`), and the writing of the plan
(`CommitRecalculate`), for which `persistBundle` looks for an open bundle of the employee once more (`FindsAgain`): one that came about
meanwhile gets the plan as a further pack that is not activated. `Complete`, `StartPreparation` and `Park`
are followed by the second transaction the handler opens after the commit (`Count`, `Close`, `Activate`, `DissolveParked`).
`Refuse` is any failure before the commit: a version conflict, a constraint, a deadlock victim, the five-second
timeout. `Unused` keeps the ids of new rows distinct from ids a request in flight remembers.

Still atomic, and only in `Dispatch`: pause and resume, the fetched mark, the intake and the export. Partial completion,
instruction and reopening are taken apart in `ProblemLoop`.

### EventLog

A transaction looks a key up (`Append`, `SkipKnown`), waits for the lock, reads the last row it can see,
inserts, and may append again before it commits or rolls back; it sees committed rows and its own. The payload is
one field, which may be `undefined` (handlers send optional fields, cancel's reason for one), because that is what distinguishes hashed content from stored JSON.

### ProblemLoop and Clarification

One case, its `Issue` rows and one size line whose count may deviate. A request begins with its reads (`StartPreparation Complete
PartialComplete ReopenIssue SendInstruction`) and carries in `todo` the commits still ahead of it: `partialComplete` moves the case
in the nested transaction, which commits on its own and *before* the outer one inserts the problems, then stores the counts;
`reopenIssue` reopens, then moves; `sendInstruction` answers and counts what is open, then moves. `fresh` is the version guard as in
`DispatchConcurrent`; the move of `sendInstruction` is the only one without it. `Conflict` is a refused transition, `Stop` a process that ends, a broken connection
or a timeout before the next commit; `torn` records that something was then still owed. `Clarification` is what the two people
are promised: each request one step, the case waits exactly while a problem is open. `Desk` maps the loop to it: a request
takes effect with the commit that touches the problems, whatever it still owes to the status (`SeenPhase`).

`Exclusive` names pairs of operations that do not overlap in an instance. It exists because the loop does *not* keep its
promise for every overlap. The five pairs of `Racing` in `MCProblemLoop` are those that break it, and each is needed:
without it TLC finds a counterexample (a reopened problem that overlaps an answer, say, leaves a resolved case with an open problem and so breaks
`StatusTellsTheProblems`; `ProblemReportedTwice.cfg` has another).

### SharedCase

`status`, the `owner` (employee of the cart), the participant row of each employee, the checked positions, and the positions the running partial
completion excuses. Answers, part-done, removal and invitation read, then commit with a compare-and-set on the row (`row`: the row
still exists) or with the case's version (`fresh`). Leaving the cart (`Withdraw MoveCase Cancel Park`) deletes the rows in the same
transaction, except `Park`, which does it in a second one (`CommitDissolve`). `Complete` reads whether a helper is active, and only
then asks the gate, inside the transaction. `Racing` again names the pairs of overlaps, five here, that break one of the properties of the run, each needed.

### ZstBooking

A hand-in goes `Move` (the transition) → `Persist` (counts) → `Split` (who gets how much) → `Read`/`Write` for every share. A position
stands for the sum of its size lines. `records` maps the idempotency key (employee, share) to what was booked, as the unique index does.
`Stop` before any of these steps is a crash of the kinds in `MayStop`; nothing repeats what it left out, since a second
`complete` is refused by the graph. `Meanwhile` says what colleagues may do during a hand-in. `handedIn` is history.

### CountEntry

App: `cache` (what the screen shows), `own` (inputs of the session), `timer` (fields waiting to be posted), `fetch` (running read), `hand` (hand-in).
Server: `line`, `phase`, `result` (what an accepted hand-in was decided on and is booked with). A hand-in is read and decided on (`ReadStates`, outside any
transaction), moves the case (`MoveCase`) and then stores its body (`PersistBody`); counts lock the row against the transition but raise no version, so
they may commit between the first two. In between: `posts` in any order, each read, then written, then answered or failed with a rollback of the
whole remembered case; `event`, a live event on its way. `hurried` is history: a count went out before the last was answered.

### Priority, DeliveryGroups, CaseSplit and DayPlan

The first three are the pure algorithms as operators: the ladder as a rank and the loading day as a minimum over calendar rows;
deliveries as connected components, defined by the sets closed under the links; parts as a recursive function over the
lines. `DayPlan` is their composition in time. Between two requests Belege are booked, days pass, the teamlead corrects, splits, or employees
begin and finish; `StartPlan` reverts the unbegun packs and sifts the pool, `Overflow Pack CloseLast` are the iterations of `bundling.ts`,
`Deal` those of `distribute.ts`, `Persist` writes the plan; `Pull` is the self-pull. One request runs at a time here. Effort and net minutes
of a shift are inputs. Pick-up order, areas and the specialists' penalty over several packs are left out (an employee
gets one pack per plan, so the penalty never differs within a plan).

## 3. Runs

| Run | Instance | Shows |
|---|---|---|
| `dispatch_day` | 2 employees, 2 cases of which at most one was blocked for its storage location, 3 bundle rows, packs 0..1 two kinds of day: one case came in blocked, or one at a time is shared (0.28 M states) | types; assigned or begun work is on an open cart that has its item; finished work keeps bundle and item; one open bundle per employee; the teamlead's placements and the running pack survive replanning; a pull passes an open case only if it waits for the teamlead, or the employee has done his part and a helper is at it; `Dispatch` implements `CaseLifecycle` |
| `placements_overlap` | 2 overlapping requests, parking and its late dissolution among them, 2 cases on a first cart, 2 employees (0.25 M) | begun work keeps link and item whatever the overlap |
| `planning_overlaps` | recalculation in four steps, pull, withdrawal, start and completion, two at a time (0.54 M) | the unique index keeps one open bundle per employee; only unguarded placements leave the graph, and only into `ready`/`assigned` |
| `closing_the_cart` | 3 cases on one cart in two packs, 2 requests, one case at a time shared with a second employee, with fairness | two last completions that overlap, or overlap with a pull of the next pack, close the bundle in the end |
| `event_chain` | 3 transactions, 1 key, 2 sequence numbers, payloads with and without the field, with fairness | linear chain, unique keys, append-only; nobody waits for the lock forever |
| `problem_loop` | 2 problems, 3 overlapping requests that may stop, with fairness (0.23 M) | apart from five pairs of overlaps: status and problems agree when nothing is under way, a deviation is reported once and never left unreported, mismatches pass, the loop implements `Clarification` |
| `shared_case` | 3 employees, 2 positions, 2 overlapping requests (0.16 M) | apart from five pairs of overlaps: participations end with the stay, answers stand, the gates hold |
| `zst_booking` | 2 employees, 2 positions, counts to 2, 3 hand-ins one after the other, crashes (2.2 M) | never more is booked than was handed in; nobody is booked for more than one of his shares; a hand-in without helpers books every piece |
| `count_entry` | 1 line with 2 fields, 1 deviating value, 2 inputs, 1 count of a colleague, which may fall between the reading of a hand-in and its transition (4.7 M) | own deviations are handed in, and stored; inputs taken back are handed in as taken back, if every count was answered before the next step and nobody else counts; the quiet screen shows what is stored |
| `day_plan` | 3 Belege of 2 shapes each, 2 part rows, 2 employees, 2 days, 1 correction (0.33 M) | no Beleg lost or planned twice; urgency kept by packing; deliveries stay together; nobody idle while a pack fits; incomplete deliveries wait in a plan; parts carry the goods; waiting never costs urgency while the weekly rows of the calendar stay valid |

Two runs are counterexamples: each checks one sentence of the repository that the code does not keep.

| Run | Sentence | What happens |
|---|---|---|
| `race_withdraw_start` | teamlead.service.ts:752 | a started case is pulled back |
| `zst_key_swallows` | docs/concept/beleg-zusammenarbeit-concept.md 5.3 | a helper's share that was capped once is taken for booked when it comes again, and pieces stay unbooked |

Further configurations are kept for whoever wants to see the trace; each reports a violation of its property:

| Configuration (module) | Property | What happens |
|---|---|---|
| `DispatchIntakeBypass` (`MCDispatch`) | `IncompleteNeverReady` | `unpark`/`approve` release a blocked case |
| `DispatchCancelLast` (`MCDispatch`) | `LastDoneCaseClosesBundle` | cancelling the last open case leaves the bundle open |
| `RaceRecalculateAdd` (`MCDispatchConcurrent`) | `TeamleadBundleSurvives` | the bundle of a manual placement is deleted |
| `RaceRecalculateStart` (`MCDispatchConcurrent`) | `HeldWorkHasItsItem` | work is begun on a case whose bundle and item a recalculation deletes |
| `RacePullPull` (`MCDispatchConcurrent`) | `PulledPackIsItsOwn` | two pulls share one pack |
| `DispatchRowsSurvive` (`MCDispatch`) | `SharingEndsWithTheStay` | a shared case made ready on its cart is planned onto another one and keeps its participants |
| `ProblemReportedTwice` (`MCProblemLoop`) | `DeviationReportedOnce` | an answer that overlaps a partial completion lets a second one report the deviation again, before the first has inserted it |
| `SharedCaseLateAnswer` (`MCSharedCase`) | `NobodyJoinsAFinishedCase` | an acceptance that looked at the case before its completion commits after it |
| `CountInBetween` (`MCCountEntry`) | `NoDeviationIsCompleted` | a colleague's count between the reading of the counts and the transition: a case is completed over a deviation nobody reported |
| `EventLogUndefined` (`MCEventLog`) | `HashesReproduce` | an `undefined` field makes an untouched log fail its verification |
| `CountLosesField` (`MCCountEntry`) | `CountIsAPartialUpdate` | two counts of one line, one of the quantity and one of the price, lose one of the two |
| `ZstExportTooEarly` (`MCZstBooking`) | `ExportedInFull` | a case exported right after its completion leaves a record behind that is never exported |
| `DayPlanRowExpires` (`MCDayPlan`) | `MissedDaysStayMissed` | an overdue Beleg is not overdue any more when the weekly row that gave its loading day expires |
| `DayPlanPullsHeld` (`MCDayPlan`) | `IncompleteDeliveriesWait` | the self-pull hands out a Beleg the plan withholds |

### Why the bounds are enough

*Dispatch.* Two cases are what every property relates (a case and a neighbour in its pack or bundle); two bundle rows of one employee
are a closed bundle and its successor, or an old plan and its replacement; packs 0 and 1 are a running pack and
the one before or behind it; a second employee is the other end of a move. Pack bounds are guards of `AppendCases`
and `Place`, and a new bundle needs a free row of `Bundles`. `MorningSpec` cuts the initial states (of the cases that come in blocked, one, and for one field) and tells two kinds of day apart
(`DayBound`): on the one a case came in blocked and both employees have a cart; on the other the first employee has the carts, one after the other, fetches goods,
and shares one case at a time with the second. `Dispatch` itself and the proofs know none of these bounds. In
`MCClosing.cfg` the same limit on sharing is a state constraint; it takes no fair step away, for only sharing, which needs no progress, leaves it. In `DispatchConcurrent` each overlap is of two requests, and a run looks at the requests its question is about
(`Ops`): every action takes part in one of the passing runs.

*Problem loop.* Two problems are the answered one and the open one; three requests let a third one pass between the commits of two. Problems asked back and asked
anew reuse the rows, so no history is cut. *Shared case.* Three employees are the owner, a helper, and the next owner or a second helper. *ZST.* Three hand-ins are
a partial one, one by somebody else, and a last one; counts to 2 on two positions give distinct shares, equal shares and a share above what is left. Hand-ins do not overlap in this
run (`Slots` has one member); with two the state space is out of reach of a run of minutes. *Count entry.* Two inputs cover a value taken back, one field after the other and a count that overtakes another;
one line suffices because lines share nothing but the request. *Day plan.* Three Belege make a delivery of three, a pair with a neighbour of
another storage class, and a pack with a successor; the shifts are chosen so that minutes run out exactly at, before and after a pack, the second
employee handles one storage class only, the calendar has weekly rows, one of which expires, and a special row.

Symmetry is used where the elements of a set have the same role and the run has no liveness property.
Deadlock is checked for `Dispatch` and `EventLog`; the other instances really end (a case completed or cancelled, all hand-ins or inputs used up, the last day planned).

### Fairness

`closing_the_cart`: a handler whose first transaction has committed runs its next one (weak fairness of `Activate`, `Count`,
`Close`, `DissolveParked`); the process does not stop in between. `problem_loop`: weak fairness of a handler's next commit or of its refusal; it may
still `Stop`, which voids what `MismatchPasses` and `Clarification` promise (`torn`). `event_chain`: weak fairness of the next statement of a handler (`ReadLast`, `Settle`),
strong fairness of `Commit`, because a handler appends finitely many events and then commits, and strong fairness of `AcquireLock`,
because PostgreSQL grants an advisory lock in the order of the queue. No fairness is assumed of requests arriving.

## 4. Proofs

TLAPS checks every theorem for all values of the constants. Assumed are only the typings the modules declare (`OwnerAssumption`: each
bundle row is for one employee; `NoneAssumption`, `NoneIsNobody`, `MaxPackAssumption`, `NoTxAssumption`, `NoKeyAssumption`, `SentAssumption`, `MaxSeqAssumption`,
`ExpectedIsNoDeviation`, `GroupingAssumption`, `BoundAssumption`), and three that say a little more. `BookingAssumption`: positions are finitely many, counts
are natural numbers. `PriorityAssumption`: calendar rows hold days and a weekday. `DayPlanAssumption`: Belege and employees are finitely many, the
import sums up a Beleg's size lines, and no two Belege share a number (the import upserts by it; a part's number extends its Beleg's).
The sets of cases, employees, bundles, transactions, problems and requests in flight may be infinite everywhere else.

| Theorem | States | Proviso |
|---|---|---|
| `TypeCorrect` | `TypeOK` of `Dispatch` | |
| `HeldWorkSafe` | `HeldWorkIsOnAnOpenCart` | |
| `DoneWorkSafe` | `DoneWorkKeepsItsBundle` | |
| `OneOpenBundle` | `OneOpenBundlePerEmployee` | |
| `TeamleadKept` | `TeamleadPlacementKept` | |
| `RunningPackSafe` | `RunningPackUntouched` | |
| `PullSafe` | `NothingStartableLeftBehind` | |
| `Refinement` | `CasesFollowTheGraph`: `Dispatch` implements `CaseLifecycle` | |
| `Linear`, `Idempotent`, `Grows` | `ChainIsLinear`, `OneEventPerKey`, `AppendOnly` of `EventLog` | |
| `ReportedOnce` | `DeviationReportedOnce` | partial/instruct apart |
| `NothingFinishedUnreported` | `FinishedMeansReported` | also complete/count apart |
| `RowsOfTheStay` | `RowsBelongToTheStay` | invite/leave apart |
| `AnswersStand` | `AnswersAreNotOverwritten` | invite/leave, park/enter, park/unpark apart |
| `OwnDeviationsAreHandedIn`, `OwnDeviationsAreKept` | `DeviationsAreHandedIn`, `OwnDeviationsAreStored` of `CountEntry` | |
| `TheScreenCatchesUp` | `ScreenTellsTheTruth` of `CountEntry` | |
| `ConcurrentTypesAreRight` | the types of `DispatchConcurrent` | |
| `VersionGuardSuffices` | `GuardedEdges` | |
| `ConcurrentOneOpenBundle` | `OneOpenBundlePerEmployee` of `DispatchConcurrent` | |
| `BegunWorkKeepsItsItem` | `HeldWorkHasItsItem` | no recalculation meanwhile |
| `TypesAreRight` | `TypeOK` of `ZstBooking` | |
| `BookedFitsWhatWasHandedIn`, `BookedFitsAKey` | `NeverOverbooked`, `NobodyIsBookedMoreThanHisKey` | bookings do not overlap |
| `DeliveriesAreDisjoint`, `DeliveriesWaitTogether` | no Beleg in two deliveries; a waiting delivery keeps back all but the released members | |
| `PlanTypesAreRight`, `PlannerKeepsTheLine` | `TypeOK` and `PlanInvariant` of `DayPlan` | |
| `NoBelegIsLost` | `EveryBelegHasOnePlace` | |
| `UrgencyIsKept` | `UrgentIsPackedFirst` | |
| `DeliveriesAreNotTorn` | `DeliveryStaysInOnePack` | |
| `NobodyWaitsForNothing` | `NobodyIdleWhileWorkFits` | |
| `IncompleteDeliveriesStay` | `PlanHoldsIncompleteDeliveries` | |
| `UrgencyGrowsWithWaiting` | `WaitingKeepsUrgency` | |
| `SplittingLosesNothing` | `PartsCarryTheGoods` | |

The provisos of the problem loop and the shared case are assumptions on `Exclusive`; each theorem names the fewest pairs its property needs, so the table also says which
overlaps endanger what. The code keeps none of these pairs apart: what happens when they meet is in the counterexamples of section 3. A recalculation deletes the bundle it found unreferenced with what was placed into it since (`RaceRecalculateStart`).
`writeZst` reads outside its transaction, so two bookings at a time can both book the same difference (`BookingsApart` excludes that; it speaks of behaviours, not of constants, since
operations of a kind may well follow each other).

*Placements.* `IInv` is `TypeOK`, `OneOpenBundlePerEmployee`, and for each case `HeldAt`, `DoneAt` and `LinkAt`. None of the three is
inductive alone. Started work becomes done work in place, so `DoneAt` needs `HeldAt` before the completion. A bundle is closed when everything
*linked* to it is done, and deleted when nothing but reverted cases is *linked* to it, while reverting goes by the *item*: `HeldAt` survives both only because
link and item of a held case agree, and `LinkAt` carries that agreement for all cases but the cancelled ones, whose item `cancel` leaves behind.
`StepIInv` has one step per handler. Handlers of one kind share a lemma: those that move one case by the workflow (`TransitionKeepsPlaced`), that append
(`AppendKeepsPlaced`), place (`PlaceKeepsPlaced`), take back (`TakeBackKeepsPlaced`) or adopt a plan (`AdoptKeepsPlaced`).

*Steps.* `EngineWrites`: an item belongs to the engine after a step only if it did before or its case came from the pool or was reverted; `TeamleadKept` and
`RunningPackSafe` follow, since neither kind of case is in that set. `PackStep`: the running pack of a bundle changes by a pull, which asked
`packAdvanceBlockers` with the part-done rows (`RowsWhole`: a shared case has its owner's row, and one row per participant), or because a recalculation deletes the row and uses its id again; in the second case only cancelled cases are left in the
pulled pack (`ReplacedBundle`, which needs `LinkAt`). `GraphStep`: bulk writes of statuses use four edges (`Edges`), all others ask the graph.

*Overlapping requests.* `Shape` is the type invariant and, for each request in flight, what it still `Knows`: while `fresh` holds, its transition is an edge; while its item row is
there, a move has something to write. `VersionGuardSuffices` follows commit by commit: those without a guard write `ready` or `assigned` and nothing else. One open bundle per employee needs the index at the
creation and, for `Adopt`, the lemma of the atomic model, which holds for any sets of reverted cases and deleted bundles, old ones included.
`BegunWorkKeepsItsItem` is inductive by itself: old reads decide *whether* a placement happens, but it writes link and item together.

*The log.* `IInv` says that whoever holds the lock sees every row there is: rows nobody has committed yet are all his, lie behind the committed ones,
and link up with them. So a row he inserts extends the whole chain (`ExtendChain`), and the key he does not find is nowhere.

*The problem loop.* `Inv` adds to the shape of the requests in flight what the reads of a partial completion still guarantee when it commits: as long as it can move the
case, the case is as it read it (`Current`); what it has yet to insert is not there, and nobody else is about to insert (`Pending`); until all is stored the case is halted
(`Halted`), and no answer is under way (`NoAnswerMeanwhile`). `Finishing` does the same for completions.

*The shared case.* `Stay`: rows exist only while there is an owner, only he may hold the owner's row, and an invitation in flight names him. `ParkedMeanwhile`: while a parking owes its dissolution, the case is parked or cancelled.

*The counting screen.* `IInv` is the shape of posts and hand-in; `Closing`, that an accepted hand-in has its body in what it was decided on, and a closed case has it in the stored line; and `Carried`,
that a body under way, accepted or stored has every deviation of `own`. No count can undo the body, because a count that finds the case moved is refused. For the screen, `LastReadIsTrue`: something is under way that ends in a read, or the last read was made after the last write and is on the screen or about to be.

*Bookings.* `Fits`: what is booked is at most what was handed in, and a write in flight still has the difference the records call for, which is where a second booking at the same time breaks it.
`Covered`: somebody's largest share covers all that is booked for him.

*Deliveries.* The complement of a set closed under the links is closed (`ComplementIsClosed`), hence two components with a common Beleg are one; the
teamlead's groups are apart from them because a corrected Beleg takes no part in the detection.

*The planner.* A recalculation moves along one line: packs, open pack and waiting Belege, one after the other (`Places`). `PlanInvariant` says what holds of it between any two steps. `Line`: it is in the strict
order of the ladder (`Numbered`: no two Belege share a number, so the order has no ties) and holds exactly what was not sifted out; packing only moves the head of what waits to the end of what is done, whichever branch of `createBalancedBundles` is taken.
`LeftOver`: who was left out for want of minutes is behind all that is packed, and then the minutes are spent, so that nothing is packed any more. That is why `UrgentIsPackedFirst` alone is not inductive. `Together`: no pack ends between two Belege of one delivery and storage
class; where the open pack was just closed, the next in line does not belong to the last one packed. `Dealt`: a pack nobody got fits nobody who has none; minutes do not change and nobody loses a pack, so it stays true. Corrections, bookings and splits
happen when no plan is under way, and keep number and goods of a Beleg (`Steady`).
The loading day of a waiting Beleg is the minimum of the same days as before (`WeeklyRows` unchanged, special rows never expire), hence its class can only rise.
`SplittingLosesNothing`: `allocateParts` hands out runs of lines between rising cuts, keeps enough lines for the parts to come, and the parts' sums are differences of prefixes; `GoodsAreCarried` keeps that through later steps.

*Sums, sorting, concatenation.* Folds and recursive functions are tables the definition *chooses*. The lemmas first show that there is such a table and that all agree, then what it
contains. Where that needs an induction it is spelled out as a minimal counterexample: of the subsets, prefixes or numbers that break a claim the smallest is taken (`MinimalSubset`, `LeastNumber`), and its predecessor refutes it. So nothing is assumed of them.

Model-checked only: liveness (`LastCompletionCloses`, `AppendsProceed`, `MismatchPasses`), which is out of the prover's reach; and five safety properties the instances check
under conditions the code does not ensure, so that a theorem would say little more than its proviso: `StatusTellsTheProblems`, `LoopKeepsItsPromise` (five pairs of overlaps apart),
`GateAtTheEnd` (answers apart from hand-ins), `OwnWorkIsBookedInFull` (one hand-in at a time), and `ResetsAreHandedIn` (counts answered one by one, no colleague).

## 5. What the models show beside the properties

Found while translating, not listed as findings because no text of the repository is clearly contradicted, or because it is a matter of intent:

* *Placements by id.* The cause behind `race_withdraw_start`, a status or bundle read first and written by id later, has further effects: an `addToBundle` that overlaps a
  cancellation re-assigns the cancelled case; one that overlaps the last completion puts the case into a closed bundle. `withdraw` leaves `collectedAt` set, which `parkRemaining`
  clears. A placement without a named pack can reach a pack the employee has already left.
* *Collaboration.* The late dissolution of `park` deletes the participants of a collaboration created in between. `unpark`/`approve` of an assigned case lets an acceptance that
  is under way commit on a case in the pool.
  A shared case made ready on its cart, by `unpark` or `approve`, is planned onto another cart with its participants: only reverted cases are dissolved (`DispatchRowsSurvive`).
* *Counts between reading and moving.* `complete` and `partialComplete` decide on counts read outside any transaction. A colleague's count that commits before the transition
  is stored and neither refused as a deviation nor booked nor reported (`CountInBetween`; it breaks `StoredAsHandedIn` as well).
* *Answers and completions.* Whether a helper is active is read before the transition, and the status of the case before an answer: an acceptance in between is neither asked by
  the gate nor refused (`SharedCaseLateAnswer`; the same configuration breaks `GateAtTheEnd`).
* *Reporting twice.* A second partial completion that begins while the first has moved the case and not yet inserted its problems, made possible by an answer to an older problem, reports the same deviation again (`ProblemReportedTwice`).
* *Deliveries.* Parts of a split lose `manualDeliveryGroupKey`, so that they are detected anew and may be withheld as suspected where `autoDistributeSuspected` is off, which the comment at
  teamlead.service.ts:1104-1108 means to avoid. Members linked by another signal count as present. A single present member of "X of N" forms no group and is not withheld. Runs
  compare neighbours in the order of the pool only. Overlapping corrections share and take over keys. Prioritising one member takes the delivery apart in the order.
* *Engine.* The longest pack is dealt first, so the most urgent one may be the one nobody gets. The penalty for specialists cannot decide anything while everybody
  gets one pack per plan. A weekly calendar row that expires takes the missed loading day of an overdue Beleg with it, although the
  comment at load-plan.ts:33-37 has it stay in the past (`DayPlanRowExpires`): the row must be active *today*, the day it gives is counted from the booking.
* *Recalculation.* It deletes the bundles it found unreferenced. A case placed into one of them since loses link and item, keeps its status `assigned`, and can be begun (`RaceRecalculateStart`): nobody finds the work on a cart.

## 6. Not modelled, and the plan

Not modelled because no state of the models depends on them: read models, reports, label printing, transport boxes, messages, master data, the
teamlead's web app, the other screens of the employee app, generated clients, development scenarios. Attention and forward flags are single-field marks nothing decides on.
Live notifications appear as the event of `CountEntry`; the stream itself (connections, recipients, heartbeats) is left out. Authentication is left out; the access policy is the guard
"on his cart, or an active participation". The parsing of the ProHandel feed is conversion. Together these make up most of the repository's lines, and a model
of them would have no property worth checking.

Planned, in this order:

1. `LiveUpdates`: subscription, missed events and the refetch that has to make up for them.
2. `LockOrder`: row locks, the advisory lock and the connection pool that a nested transaction takes a second connection from: which requests can wait on each other.
3. Pause, resume and the fetched mark in `DispatchConcurrent`, with `DoneWorkKeepsItsBundle` for overlapping requests; overlapping hand-ins in `ZstBooking`, where the proviso of its theorems ends.
4. For the proofs: a `HeldWorkHasItsItem` that tells what a recalculation can do to it, and the gate of the shared case with the proviso stated by the step in which it fails.
