----------------------------- MODULE SharedCase -----------------------------
(***************************************************************************)
(* One case that several employees work on.  Its owner is the employee of  *)
(* the cart it lies on; the others take part through rows of               *)
(* CaseParticipant: invited, answered, part done, removed by the teamlead, *)
(* and all deleted (`dissolved') when the case leaves the cart.            *)
(*                                                                         *)
(* While a helper is active, a case may be completed only when every       *)
(* position is checked.  The completion asks that twice: before and inside *)
(* the transaction that moves the case, under the lock of the case row     *)
(* which checking a position shares.  What it reads only once is whether   *)
(* a helper is active.                                                     *)
(*                                                                         *)
(* A request that decides on reads is two steps, its reads and its commit; *)
(* `fresh' says that the case still has the version it read, `row' that    *)
(* the participant row it read by id still exists.  The others are one.    *)
(***************************************************************************)
EXTENDS CaseStatus

CONSTANTS
  Employees,
  Positions,
  Slots,       \* requests in flight at the same time
  Exclusive,   \* sets of operations that do not overlap in this instance
  None

ASSUME NoneIsNobody == None \notin Employees

VARIABLES
  status,      \* of the case
  owner,       \* employee of the bundle the case is assigned to
  part,        \* the CaseParticipant row of each employee
  checked,     \* positions with confirmedById
  excused,     \* positions the last partial completion reported a problem for
  req

vars == <<status, owner, part, checked, excused, req>>
caseVars == <<status, owner, part, checked, excused>>

NoRow == [role |-> "none", status |-> "none"]
OwnerRow == [role |-> "inhaber", status |-> "angenommen"]
Row(st) == [role |-> "helfer", status |-> st]
HelperStatuses == {"eingeladen", "angenommen", "abgelehnt", "teil_erledigt", "entfernt"}
Rows ==
  {NoRow} \cup [role : {"inhaber"}, status : {"angenommen", "teil_erledigt"}]
          \cup [role : {"helfer"}, status : HelperStatuses]

Idle ==
  [op |-> "idle", who |-> None, owner |-> None, known |-> {}, active |-> FALSE,
   answer |-> "none", problems |-> {}, fresh |-> TRUE, row |-> TRUE]

TypeOK ==
  /\ status \in CaseStatuses
  /\ owner \in Employees \cup {None}
  /\ part \in [Employees -> Rows]
  /\ checked \subseteq Positions
  /\ excused \subseteq Positions
  /\ \A s \in Slots : req[s].known \subseteq Employees /\ req[s].problems \subseteq Positions

-----------------------------------------------------------------------------
(* participants.ts, case-access.policy.ts, collaboration-gate.ts *)

ActiveStatuses == {"angenommen", "teil_erledigt"}
Active == {e \in Employees : part[e].status \in ActiveStatuses}

(* isCollaborationActive: the owner's row alone does not make a case shared. *)
CollaborationActive == \E e \in Active : part[e].role = "helfer"

(* requireWorkableCase / canAccessCase for an employee. *)
Workable(e) == e = owner \/ e \in Active

(* completeGateError and partialGateError: no message. *)
CompleteGate(C) == C = Positions
PartialGate(C, problems) == Positions \ C \subseteq problems

Invitable == {"assigned", "in_progress", "problem_resolved"}
Acceptable == Invitable \cup {"issue_open"}

-----------------------------------------------------------------------------
(* Requests in flight. *)

MayRun(op, s) == \A t \in Slots \ {s} : {op, req[t].op} \notin Exclusive

Begin(s, call) ==
  /\ req[s] = Idle
  /\ MayRun(call.op, s)
  /\ req' = [req EXCEPT ![s] = call]
  /\ UNCHANGED caseVars

(* Request s is done; `moved': the case has a new version; `gone': the rows
   of these employees were deleted. *)
End(s, moved, gone) ==
  req' = [t \in Slots |->
            IF t = s \/ req[t] = Idle THEN Idle
            ELSE [req[t] EXCEPT !.fresh = @ /\ ~moved, !.row = @ /\ req[t].who \notin gone]]

(* A request of one transaction that decides on nothing it read earlier. *)
Instantly(s, op, moved, gone) ==
  /\ req[s] = Idle
  /\ MayRun(op, s)
  /\ End(s, moved, gone)

HaveRows == {e \in Employees : part[e] # NoRow}

\* Faulty: the invited are let go, the active rows stay.
FaultyDissolved == [e \in Employees |-> IF e \in Active THEN part[e] ELSE NoRow]

(* dissolveCollaborationTx *)
Dissolved == [e \in Employees |-> NoRow]

-----------------------------------------------------------------------------
(* CollaborationService *)

(* invite, read: somebody who may work on the case invites a colleague. *)
Invite(s) ==
  \E e \in Employees \ {owner} :
    /\ \E caller \in Employees \ {e} : Workable(caller)
    /\ status \in Invitable
    /\ owner # None
    /\ Begin(s, [Idle EXCEPT !.op = "invite", !.who = e, !.owner = owner, !.known = HaveRows])

(* A second invitation: only a declined or a removed helper is invited again,
   tested by the update itself. *)
Revived(row) ==
  IF row.status \in {"abgelehnt", "entfernt"} THEN [row EXCEPT !.status = "eingeladen"] ELSE row

(* invite, commit: rows that were missing at the read are created unless they
   exist by now (createMany, skipDuplicates). *)
CommitInvite(s) ==
  LET r == req[s]
      created(e) == e \notin r.known /\ part[e] = NoRow
  IN  /\ r.op = "invite"
      /\ part' = [e \in Employees |->
           CASE e = r.owner /\ created(e) -> OwnerRow
             [] e = r.who /\ created(e)   -> Row("eingeladen")
             [] e = r.who /\ ~created(e)  -> IF part[e] = NoRow THEN NoRow ELSE Revived(part[e])
             [] OTHER                     -> part[e]]
      /\ End(s, FALSE, {})
      /\ UNCHANGED <<status, owner, checked, excused>>

\* Faulty: the answer does not look at the case.
FaultyRespond(s) ==
  \E e \in Employees, answer \in {"angenommen", "abgelehnt"} :
    /\ part[e].status = "eingeladen"
    /\ Begin(s, [Idle EXCEPT !.op = "respond", !.who = e, !.answer = answer])

(* respond: only the invited, and acceptance only while the case is on a cart
   and worked on. *)
Respond(s) ==
  \E e \in Employees, answer \in {"angenommen", "abgelehnt"} :
    /\ part[e].status = "eingeladen"
    /\ answer = "angenommen" => owner # None /\ status \in Acceptable
    /\ Begin(s, [Idle EXCEPT !.op = "respond", !.who = e, !.answer = answer])

CommitRespond(s) ==
  LET r == req[s]
  IN  /\ r.op = "respond"
      /\ r.row /\ part[r.who].status = "eingeladen"
      /\ part' = [part EXCEPT ![r.who].status = r.answer]
      /\ End(s, FALSE, {})
      /\ UNCHANGED <<status, owner, checked, excused>>

(* partDone *)
PartDone(s) ==
  \E e \in Employees :
    /\ part[e].status = "angenommen"
    /\ status \notin DoneForEmployee
    /\ Begin(s, [Idle EXCEPT !.op = "partDone", !.who = e])

\* Faulty: written by case and employee, whatever row is there by now.
FaultyCommitPartDone(s) ==
  LET r == req[s]
  IN  /\ r.op = "partDone"
      /\ part' = [part EXCEPT ![r.who].status = "teil_erledigt"]
      /\ End(s, FALSE, {})
      /\ UNCHANGED <<status, owner, checked, excused>>

CommitPartDone(s) ==
  LET r == req[s]
  IN  /\ r.op = "partDone"
      /\ r.row /\ part[r.who].status = "angenommen"
      /\ part' = [part EXCEPT ![r.who].status = "teil_erledigt"]
      /\ End(s, FALSE, {})
      /\ UNCHANGED <<status, owner, checked, excused>>

(* removeParticipant of the teamlead: only helpers, once. *)
RemoveParticipant(s) ==
  \E e \in Employees :
    /\ part[e].role = "helfer" /\ part[e].status # "entfernt"
    /\ Begin(s, [Idle EXCEPT !.op = "remove", !.who = e])

CommitRemove(s) ==
  LET r == req[s]
  IN  /\ r.op = "remove"
      /\ r.row /\ part[r.who].status # "entfernt"
      /\ part' = [part EXCEPT ![r.who].status = "entfernt"]
      /\ End(s, FALSE, {})
      /\ UNCHANGED <<status, owner, checked, excused>>

(* createCollaboration of the teamlead: the case goes to the first one's cart,
   everybody is in. *)
CreateCollaboration(s) ==
  \E e \in Employees, helpers \in SUBSET Employees :
    /\ status \in {"ready", "parked"} /\ owner = None
    /\ helpers # {} /\ e \notin helpers
    /\ status' = "assigned"
    /\ owner' = e
    /\ part' = [f \in Employees |-> IF f = e THEN OwnerRow
                                    ELSE IF f \in helpers THEN Row("angenommen") ELSE NoRow]
    /\ Instantly(s, "enter", TRUE, HaveRows)
    /\ UNCHANGED <<checked, excused>>

-----------------------------------------------------------------------------
(* Work on the case. *)

(* confirmPosition: sets or takes back the mark under a shared lock of the
   case row, with the status tested in the same statement. *)
ConfirmPosition(s) ==
  \E p \in Positions :
    /\ \E e \in Employees : Workable(e)
    /\ status = "in_progress"
    /\ checked' = IF p \in checked THEN checked \ {p} ELSE checked \cup {p}
    /\ Instantly(s, "check", FALSE, {})
    /\ UNCHANGED <<status, owner, part, excused>>

(* complete, reads: the gate applies if a helper is active now. *)
Complete(s) ==
  /\ status = "in_progress"
  /\ \E e \in Employees : Workable(e)
  /\ CollaborationActive => CompleteGate(checked)
  /\ Begin(s, [Idle EXCEPT !.op = "complete", !.active = CollaborationActive])

\* Faulty: no guardInTx.
FaultyCommitComplete(s) ==
  LET r == req[s]
  IN  /\ r.op = "complete"
      /\ r.fresh /\ CanTransition(status, "completed")
      /\ status' = "completed"
      /\ End(s, TRUE, {})
      /\ UNCHANGED <<owner, part, checked, excused>>

(* complete, transition: guardInTx asks the gate again, if the read asked it. *)
CommitComplete(s) ==
  LET r == req[s]
  IN  /\ r.op = "complete"
      /\ r.fresh /\ CanTransition(status, "completed")
      /\ r.active => CompleteGate(checked)
      /\ status' = "completed"
      /\ End(s, TRUE, {})
      /\ UNCHANGED <<owner, part, checked, excused>>

(* partialComplete: the same with the positions that have a problem. *)
PartialComplete(s) ==
  \E problems \in SUBSET Positions \ {{}} :
    /\ CanTransition(status, "issue_open")
    /\ \E e \in Employees : Workable(e)
    /\ CollaborationActive => PartialGate(checked, problems)
    /\ Begin(s, [Idle EXCEPT !.op = "partial", !.active = CollaborationActive,
                             !.problems = problems])

CommitPartial(s) ==
  LET r == req[s]
  IN  /\ r.op = "partial"
      /\ r.fresh /\ CanTransition(status, "issue_open")
      /\ r.active => PartialGate(checked, r.problems)
      /\ status' = "issue_open"
      /\ excused' = r.problems
      /\ End(s, TRUE, {})
      /\ UNCHANGED <<owner, part, checked>>

(* startPreparation and the teamlead's last answer. *)
MoveOn(s) ==
  /\ \/ CanTransition(status, "in_progress") /\ status' = "in_progress" /\ excused' = {}
     \/ status = "issue_open" /\ status' = "problem_resolved" /\ excused' = excused
  /\ Instantly(s, "move_on", TRUE, {})
  /\ UNCHANGED <<owner, part, checked>>

-----------------------------------------------------------------------------
(* The case comes to a cart and leaves it. *)

(* addToBundle, assignToEmployee, a plan: rows are not looked at.  That a plan also
   takes a case that was made ready on its cart is the matter of Dispatch. *)
Assign(s) ==
  \E e \in Employees :
    /\ status = "ready" /\ owner = None
    /\ status' = "assigned"
    /\ owner' = e
    /\ Instantly(s, "enter", TRUE, {})
    /\ UNCHANGED <<part, checked, excused>>

(* withdraw, parkRemaining, a recalculation. *)
Withdraw(s) ==
  /\ status = "assigned" /\ owner # None
  /\ status' = "ready"
  /\ owner' = None
  /\ part' = Dissolved
  /\ Instantly(s, "leave", TRUE, HaveRows)
  /\ UNCHANGED <<checked, excused>>

(* moveCase to another employee: writes no new version. *)
MoveCase(s) ==
  \E e \in Employees \ {owner} :
    /\ status = "assigned" /\ owner # None
    /\ owner' = e
    /\ part' = Dissolved
    /\ Instantly(s, "leave", FALSE, HaveRows)
    /\ UNCHANGED <<status, checked, excused>>

(* cancel *)
Cancel(s) ==
  /\ CanTransition(status, "cancelled")
  /\ status' = "cancelled"
  /\ owner' = None
  /\ part' = Dissolved
  /\ Instantly(s, "leave", TRUE, HaveRows)
  /\ UNCHANGED <<checked, excused>>

(* park: dissolves in a second transaction, after the commit of the first. *)
Park(s) ==
  /\ req[s] = Idle
  /\ MayRun("park", s)
  /\ CanTransition(status, "parked")
  /\ status' = "parked"
  /\ req' = [t \in Slots |-> IF t = s THEN [Idle EXCEPT !.op = "park"]
                             ELSE IF req[t] = Idle THEN Idle ELSE [req[t] EXCEPT !.fresh = FALSE]]
  /\ UNCHANGED <<owner, part, checked, excused>>

CommitDissolve(s) ==
  /\ req[s].op = "park"
  /\ part' = Dissolved
  /\ End(s, FALSE, HaveRows)
  /\ UNCHANGED <<status, owner, checked, excused>>

(* unpark, approve: whatever the case's status, if the edge exists; an assigned
   case stays on its cart. *)
Unpark(s) ==
  /\ CanTransition(status, "ready")
  /\ status' = "ready"
  /\ Instantly(s, "unpark", TRUE, {})
  /\ UNCHANGED <<owner, part, checked, excused>>

(* A conflict, a stop, a time-out before the commit. *)
Refuse(s) ==
  /\ req[s] # Idle
  /\ End(s, FALSE, {})
  /\ UNCHANGED caseVars

Init ==
  /\ status = "ready"
  /\ owner = None
  /\ part = [e \in Employees |-> NoRow]
  /\ checked = {}
  /\ excused = {}
  /\ req = [s \in Slots |-> Idle]

Next ==
  \E s \in Slots :
    \/ Invite(s) \/ CommitInvite(s)
    \/ Respond(s) \/ CommitRespond(s)
    \/ PartDone(s) \/ CommitPartDone(s)
    \/ RemoveParticipant(s) \/ CommitRemove(s)
    \/ CreateCollaboration(s)
    \/ ConfirmPosition(s) \/ MoveOn(s)
    \/ Complete(s) \/ CommitComplete(s)
    \/ PartialComplete(s) \/ CommitPartial(s)
    \/ Assign(s) \/ Withdraw(s) \/ MoveCase(s) \/ Cancel(s)
    \/ Park(s) \/ CommitDissolve(s) \/ Unpark(s)
    \/ Refuse(s)

Spec == Init /\ [][Next]_vars

-----------------------------------------------------------------------------
(* Properties. *)

(* "Beteiligungen duerfen die Neuvergabe nicht ueberleben, sonst behalten
   Alt-Beteiligte Sicht- und Schreibrechte" (assignment.service.ts): rows exist
   only while the case lies on a cart, and the owner's row is the one of the
   employee whose cart it is. *)
RowsBelongToTheStay ==
  \A e \in HaveRows : owner # None /\ (part[e].role = "inhaber" => owner = e)

(* collaboration-gate.ts: a case with an active helper is completed only with
   all positions checked, and handed in only with every other position named as
   a problem, even if a mark is taken back while the request runs. *)
GateAtTheEnd ==
  [][status' # status /\ CollaborationActive' =>
       /\ status' = "completed" => CompleteGate(checked')
       /\ status' = "issue_open" => PartialGate(checked', excused')]_vars

InvitationEdges ==
  { <<"none", "eingeladen">>, <<"none", "angenommen">>,
    <<"eingeladen", "angenommen">>, <<"eingeladen", "abgelehnt">>, <<"eingeladen", "entfernt">>,
    <<"angenommen", "teil_erledigt">>, <<"angenommen", "entfernt">>,
    <<"teil_erledigt", "entfernt">>, <<"abgelehnt", "eingeladen">>,
    <<"abgelehnt", "entfernt">>, <<"entfernt", "eingeladen">> }

(* collaboration.service.ts: an acceptance "wird nie auf eingeladen
   zurueckgedreht", "der soeben Entfernte wird nicht wieder aktiv", an answer is
   not overwritten.  However answers, removals and invitations cross, a row goes
   one way round, until the case is parked, leaves the cart or is assigned anew. *)
AnswersAreNotOverwritten ==
  [][owner' = owner => \A e \in Employees :
       \/ part'[e] = part[e]
       \/ part'[e] = NoRow /\ status' = "parked"
       \/ <<part[e].status, part'[e].status>> \in InvitationEdges]_vars

-----------------------------------------------------------------------------
(* What a comment of respond says and an overlap breaks (the configuration
   SharedCaseLateAnswer): an answer is refused "statt eine Beteiligung an einem
   Beleg zu erzeugen, der laengst nicht mehr so bearbeitet wird".  The case is
   looked at before the row is updated, and the update tests the row alone. *)
NobodyJoinsAFinishedCase ==
  [][\A e \in Employees :
       part[e].status = "eingeladen" /\ part'[e].status = "angenommen" => status' \in Acceptable]_vars
=============================================================================
