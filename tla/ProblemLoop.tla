---------------------------- MODULE ProblemLoop ----------------------------
(***************************************************************************)
(* The problem loop of one case: the employee reports problems with a      *)
(* partial completion, the teamlead answers them one by one, the employee  *)
(* resumes or asks back.  Problems (rows of Issue) and the status of the   *)
(* case live in different transactions:                                    *)
(*                                                                         *)
(*   partialComplete   inserts the problems in an outer transaction and    *)
(*                     moves the case in a nested one, which is a second   *)
(*                     connection and commits on its own, before           *)
(*   reopenIssue       reopens in one transaction, moves in the next       *)
(*   sendInstruction   answers and counts in one, moves in the next        *)
(*                                                                         *)
(* A request is its reads (one step: what changes in between without a     *)
(* new version of the case could as well have changed before) and its      *)
(* commits.  `fresh' says that the case has the version the request read.  *)
(***************************************************************************)
EXTENDS CaseStatus, FiniteSets, Naturals, Sequences

CONSTANTS
  Issues,      \* rows the problems of the case can become
  Slots,       \* requests in flight at the same time
  Exclusive,   \* sets of operations that do not overlap in this instance
  MayStop      \* whether a request can stop between two of its commits

VARIABLES
  status,      \* of the case
  issue,       \* the Issue rows: kind and status
  counted,     \* the persisted count of the one size line that may deviate
  req,         \* the requests in flight
  torn         \* history: a request stopped between two of its commits

vars == <<status, issue, counted, req, torn>>

LoopStatuses ==
  {"assigned", "in_progress", "issue_open", "problem_resolved", "completed", "cancelled"}

NoIssue == [kind |-> "none", status |-> "none"]
IssueRows ==
  {NoIssue} \cup [kind : {"manual", "deviation"}, status : {"open", "instruction_sent"}]

Counts == {"as_expected", "deviates"}

Operations == {"idle", "start", "complete", "partial", "reopen", "instruct"}
Idle ==
  [op |-> "idle", todo |-> <<>>, fresh |-> TRUE, seen |-> "assigned", rows |-> {},
   kinds |-> {}, body |-> "none"]

TypeOK ==
  /\ status \in LoopStatuses
  /\ issue \in [Issues -> IssueRows]
  /\ counted \in Counts
  /\ torn \in BOOLEAN
  /\ \A s \in Slots :
       /\ req[s].op \in Operations
       /\ req[s].fresh \in BOOLEAN
       /\ req[s].seen \in LoopStatuses
       /\ req[s].rows \subseteq Issues
       /\ req[s].kinds \subseteq {"manual", "deviation"}
       /\ req[s].body \in Counts \cup {"none"}
       /\ (req[s].op = "idle") <=> (req[s].todo = <<>>)

Open == {i \in Issues : issue[i].status = "open"}
Answered == {i \in Issues : issue[i].status = "instruction_sent"}

Init ==
  /\ status = "assigned"
  /\ issue = [i \in Issues |-> NoIssue]
  /\ counted = "as_expected"
  /\ req = [s \in Slots |-> Idle]
  /\ torn = FALSE

-----------------------------------------------------------------------------
(* Requests in flight.  todo lists the commits still ahead. *)

Begin(s, call) ==
  /\ req[s] = Idle
  /\ \A t \in Slots \ {s} : {call.op, req[t].op} \notin Exclusive
  /\ req' = [req EXCEPT ![s] = call]
  /\ UNCHANGED <<status, issue, counted, torn>>

Call(op, todo, rows) ==
  [Idle EXCEPT !.op = op, !.todo = todo, !.rows = rows, !.seen = status]

Advanced(r) == IF Len(r.todo) <= 1 THEN Idle ELSE [r EXCEPT !.todo = Tail(@)]

(* Request s has done its next commit; `moved' says that the commit wrote a
   new version of the case, which makes the other reads stale. *)
Done(s, moved) ==
  req' = [t \in Slots |->
            IF t = s THEN Advanced(req[s])
            ELSE IF req[t] = Idle THEN Idle
            ELSE [req[t] EXCEPT !.fresh = @ /\ ~moved]]

Due(s, commit) == req[s].todo # <<>> /\ Head(req[s].todo) = commit

\* Faulty: WorkflowService.transition ignores expectedVersion.
FaultyVersionHolds(s) == TRUE

(* WorkflowService.transition with expectedVersion. *)
VersionHolds(s) == req[s].fresh

(* resolveEffectiveSkuStates: the body counts where it carries the line, the
   persisted count elsewhere. *)
Effective(body) == IF body = "none" THEN counted ELSE body

\* Faulty: only problems that are still open count as reported.
FaultyReported == \E i \in Issues : issue[i] = [kind |-> "deviation", status |-> "open"]

(* withoutReportedProblems: an Issue of that kind and line exists, open or
   answered. *)
Reported == \E i \in Issues : issue[i].kind = "deviation"

-----------------------------------------------------------------------------
(* The handlers' reads. *)

StartPreparation(s) ==
  /\ CanTransition(status, "in_progress")
  /\ Begin(s, Call("start", <<"in_progress">>, {}))

\* Faulty: only the counts of the body are looked at, not the persisted ones.
FaultyComplete(s) ==
  \E body \in Counts \cup {"none"} :
    /\ CanTransition(status, "completed")
    /\ body = "deviates" => Reported
    /\ Open = {}
    /\ Begin(s, [Call("complete", <<"completed", "counts">>, {}) EXCEPT !.body = body])

(* complete: a deviation nobody reported and an open problem refuse it. *)
Complete(s) ==
  \E body \in Counts \cup {"none"} :
    /\ CanTransition(status, "completed")
    /\ Effective(body) = "deviates" => Reported
    /\ Open = {}
    /\ Begin(s, [Call("complete", <<"completed", "counts">>, {}) EXCEPT !.body = body])

(* Bound: rows for every problem that is being reported. *)
RoomFor(kinds) ==
  Cardinality(kinds) + Cardinality(UNION {{s} \X req[s].kinds : s \in Slots})
    <= Cardinality({i \in Issues : issue[i] = NoIssue})

(* partialComplete: at least one problem that is not reported yet. *)
PartialComplete(s) ==
  \E body \in Counts \cup {"none"}, manual \in SUBSET {"manual"} :
    LET implicit == IF Effective(body) = "deviates" /\ ~Reported THEN {"deviation"} ELSE {}
    IN  /\ CanTransition(status, "issue_open")
        /\ manual \cup implicit # {}
        /\ RoomFor(manual \cup implicit)
        /\ Begin(s, [Call("partial", <<"issue_open", "issues", "counts">>, {})
                       EXCEPT !.body = body, !.kinds = manual \cup implicit])

(* reopenIssue: one answered problem goes back to the teamlead.  A case that is
   issue_open already stays where it is. *)
ReopenIssue(s) ==
  \E i \in Answered :
    /\ status \in {"issue_open", "problem_resolved", "in_progress"}
    /\ Begin(s, Call("reopen",
                     IF status = "issue_open" THEN <<"reopen">> ELSE <<"reopen", "issue_open">>,
                     {i}))

(* sendInstruction: reads the problem and the status of the case. *)
SendInstruction(s) ==
  \E i \in Open : Begin(s, Call("instruct", <<"answer">>, {i}))

-----------------------------------------------------------------------------
(* The handlers' commits. *)

(* A transition with the version guard. *)
CommitStatus(s) ==
  \E to \in {"in_progress", "completed", "issue_open"} :
    /\ Due(s, to)
    /\ VersionHolds(s)
    /\ CanTransition(status, to)
    /\ status' = to
    /\ Done(s, TRUE)
    /\ UNCHANGED <<issue, counted, torn>>

(* The outer transaction of partialComplete. *)
CommitIssues(s) ==
  /\ Due(s, "issues")
  /\ \E row \in [req[s].kinds -> {i \in Issues : issue[i] = NoIssue}] :
       /\ \A k1, k2 \in req[s].kinds : row[k1] = row[k2] => k1 = k2
       /\ issue' = [i \in Issues |->
            IF \E k \in req[s].kinds : row[k] = i
            THEN [kind |-> CHOOSE k \in req[s].kinds : row[k] = i, status |-> "open"]
            ELSE issue[i]]
  /\ req' = [req EXCEPT ![s] = [Advanced(@) EXCEPT !.kinds = {}]]
  /\ UNCHANGED <<status, counted, torn>>

(* persistSkuConfirmations: only the lines the body carried. *)
CommitCounts(s) ==
  /\ Due(s, "counts")
  /\ counted' = Effective(req[s].body)
  /\ Done(s, FALSE)
  /\ UNCHANGED <<status, issue, torn>>

CommitReopen(s) ==
  /\ Due(s, "reopen")
  /\ issue' = [i \in Issues |-> IF i \in req[s].rows THEN [issue[i] EXCEPT !.status = "open"]
                                ELSE issue[i]]
  /\ Done(s, FALSE)
  /\ UNCHANGED <<status, counted, torn>>

\* Faulty: the case counts as resolved with the first answer.
FaultyLastAnswer(s, open) == req[s].seen = "issue_open"

(* The case is resolved by the answer to the last open problem, if it was
   issue_open when the request read it. *)
LastAnswer(s, open) == open = {} /\ req[s].seen = "issue_open"

\* Faulty: the problems are counted before the answer is written.
FaultyRemaining(s) == Open

(* The problems still open, the one answered here no longer among them. *)
Remaining(s) == Open \ req[s].rows

(* The answer and the count of what is still open: the advisory lock of the
   event log, taken in between, makes the count see every earlier answer. *)
CommitAnswer(s) ==
  /\ Due(s, "answer")
  /\ issue' = [i \in Issues |->
                 IF i \in req[s].rows THEN [issue[i] EXCEPT !.status = "instruction_sent"]
                 ELSE issue[i]]
  /\ IF LastAnswer(s, Remaining(s))
     THEN req' = [req EXCEPT ![s].todo = <<"resolve">>]
     ELSE Done(s, FALSE)
  /\ UNCHANGED <<status, counted, torn>>

(* The only transition without expectedVersion. *)
CommitResolve(s) ==
  /\ Due(s, "resolve")
  /\ CanTransition(status, "problem_resolved")
  /\ status' = "problem_resolved"
  /\ Done(s, TRUE)
  /\ UNCHANGED <<issue, counted, torn>>

-----------------------------------------------------------------------------
(* Requests of a single statement, and what can go wrong. *)

(* cancel reads and writes in one transaction, guarded by the version. *)
Cancel(s) ==
  /\ req[s] = Idle
  /\ \A t \in Slots : {"cancel", req[t].op} \notin Exclusive
  /\ CanTransition(status, "cancelled")
  /\ status' = "cancelled"
  /\ Done(s, TRUE)
  /\ UNCHANGED <<issue, counted, torn>>

(* countSkuLine: under a shared lock of the case that also checks its status. *)
CountSkuLine(s) ==
  /\ req[s] = Idle
  /\ \A t \in Slots : {"count", req[t].op} \notin Exclusive
  /\ status = "in_progress"
  /\ \E q \in Counts : counted' = q
  /\ UNCHANGED <<status, issue, req, torn>>

(* A transition that fails: the version moved on, or the edge is gone. *)
Conflict(s) ==
  /\ \/ \E to \in {"in_progress", "completed", "issue_open"} :
          Due(s, to) /\ ~(VersionHolds(s) /\ CanTransition(status, to))
     \/ Due(s, "resolve") /\ ~CanTransition(status, "problem_resolved")
  /\ req' = [req EXCEPT ![s] = Idle]
  /\ UNCHANGED <<status, issue, counted, torn>>

(* The commits after which the rest of a request is owed. *)
Halfway(r) ==
  \/ r.op \in {"partial", "complete"} /\ Len(r.todo) < (IF r.op = "partial" THEN 3 ELSE 2)
  \/ r.op = "reopen" /\ r.todo = <<"issue_open">> /\ r.seen # "issue_open"
  \/ r.todo = <<"resolve">>

(* The process stops, the connection breaks or the transaction times out
   (five seconds) before the next commit. *)
Stop(s) ==
  /\ req[s] # Idle
  /\ Halfway(req[s]) => MayStop
  /\ torn' = (torn \/ Halfway(req[s]))
  /\ req' = [req EXCEPT ![s] = Idle]
  /\ UNCHANGED <<status, issue, counted>>

Next ==
  \E s \in Slots :
    \/ StartPreparation(s) \/ Complete(s) \/ PartialComplete(s)
    \/ ReopenIssue(s) \/ SendInstruction(s)
    \/ CommitStatus(s) \/ CommitIssues(s) \/ CommitCounts(s)
    \/ CommitReopen(s) \/ CommitAnswer(s) \/ CommitResolve(s)
    \/ Cancel(s) \/ CountSkuLine(s) \/ Conflict(s) \/ Stop(s)

Spec == Init /\ [][Next]_vars

(* A handler goes on to its next commit; nothing is assumed of new requests. *)
Fairness ==
  \A s \in Slots :
    WF_vars(\/ CommitStatus(s) \/ CommitIssues(s) \/ CommitCounts(s)
            \/ CommitReopen(s) \/ CommitAnswer(s) \/ CommitResolve(s) \/ Conflict(s))

FairSpec == Spec /\ Fairness

-----------------------------------------------------------------------------
(* The loop as Clarification sees it: a request takes effect with the commit
   that touches the problems, whatever it still owes to the status. *)

PhaseOf(st) ==
  CASE st \in {"assigned", "in_progress"} -> "working"
    [] st = "issue_open"                  -> "waiting"
    [] st = "problem_resolved"            -> "answered"
    [] OTHER                              -> "over"

Owes(op, commit) == \E s \in Slots : req[s].op = op /\ Due(s, commit)

SeenPhase ==
  IF status \in {"completed", "cancelled"} THEN "over"
  ELSE IF Owes("partial", "issues") /\ Open = {}
       THEN PhaseOf(req[CHOOSE s \in Slots : req[s].op = "partial" /\ Due(s, "issues")].seen)
  ELSE IF status = "issue_open" /\ Owes("instruct", "resolve") THEN "answered"
  ELSE IF Owes("reopen", "issue_open") THEN "waiting"
  ELSE PhaseOf(status)

Desk == INSTANCE Clarification WITH
          Problems <- Issues, phase <- SeenPhase, broken <- torn,
          open <- IF SeenPhase = "over" THEN {} ELSE Open

-----------------------------------------------------------------------------
(* Properties. *)

Quiet == \A s \in Slots : req[s] = Idle

(* The status of the case and its problems say the same: the teamlead's lane,
   which lists the cases that are issue_open, shows every case with an open
   problem and no other.  In particular "erst wenn keine Meldung des Belegs mehr
   offen ist, wird der Beleg gruen" (sendInstruction), a problem asked back
   "erscheint wieder in der Probleme-Lane" (reopenIssue), and no case is
   completed over an open problem (complete). *)
StatusTellsTheProblems ==
  Quiet /\ ~torn /\ status # "cancelled" => (status = "issue_open" <=> Open # {})

(* complete: "Mehr-/Minderlieferung ... ist AUTOMATISCH ein Problem und erzwingt
   den Teilabschluss": no finished case keeps a count that deviates and that
   nobody ever reported. *)
FinishedMeansReported ==
  status = "completed" /\ counted = "deviates" /\ Quiet /\ ~torn => Reported

(* "Wiederholte Teilabschluesse duerfen keine Duplikate anlegen"
   (withoutReportedProblems): a deviation is reported once, whoever asks back,
   cancels, counts or stops between two commits, as long as no answer of the
   teamlead overlaps with a partial completion (the overlap is one of Exclusive).
   With that overlap the code does report it twice, which is the configuration
   ProblemReportedTwice: the answer lets the case go on before the first report's
   rows are committed, and a second report does not see them. *)
DeviationReportedOnce ==
  \A i, j \in Issues : issue[i].kind = "deviation" /\ issue[j].kind = "deviation" => i = j

(* To employee and teamlead the requests look like single steps that keep
   status and problems together, although each is several commits: the loop
   implements Clarification. *)
LoopKeepsItsPromise == Desk!Promise

(* A case that waits without a problem to answer, or goes on with one that
   nobody sees, is so only while a request is under way. *)
MismatchPasses ==
  ~(status = "issue_open" <=> Open # {}) ~> (status = "issue_open" <=> Open # {}) \/ torn
                                             \/ status = "cancelled"
=============================================================================
