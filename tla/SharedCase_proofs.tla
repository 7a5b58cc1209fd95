-------------------------- MODULE SharedCase_proofs --------------------------
(***************************************************************************)
(* What holds of a shared case for all employees, positions and numbers of *)
(* requests, and which overlaps each result has to exclude.                *)
(***************************************************************************)
EXTENDS SharedCase, TLAPS

USE NoneIsNobody

Apart(a, b) == {a, b} \in Exclusive

Operations == {"idle", "invite", "respond", "partDone", "remove", "complete", "partial", "park"}

(* A request is a record of these fields, about somebody. *)
IsRequest(r) ==
  /\ DOMAIN r = DOMAIN Idle
  /\ r.op \in Operations
  /\ r.fresh \in BOOLEAN /\ r.row \in BOOLEAN /\ r.active \in BOOLEAN
  /\ r.op \in {"invite", "respond", "partDone", "remove"} => r.who \in Employees
  /\ r.op = "respond" => r.answer \in {"angenommen", "abgelehnt"}

Shape ==
  /\ status \in CaseStatuses
  /\ owner \in Employees \cup {None}
  /\ part \in [Employees -> Rows]
  /\ DOMAIN req = Slots
  /\ \A s \in Slots : IsRequest(req[s])

(* q is what became of the request r, if it is not over, when another request
   committed. *)
Onward(q, r, moved, gone) ==
  q.op # "idle" =>
    /\ q.op = r.op /\ q.who = r.who /\ q.owner = r.owner /\ q.answer = r.answer
    /\ q.active = r.active /\ q.problems = r.problems
    /\ q.fresh => r.fresh /\ ~moved
    /\ q.row => r.row /\ r.who \notin gone

LEMMA IdleIsARequest == IsRequest(Idle) /\ Idle.op = "idle"
  BY DEF IsRequest, Idle, Operations

LEMMA EndShape ==
  ASSUME NEW s \in Slots, NEW moved \in BOOLEAN, NEW gone, End(s, moved, gone), Shape
  PROVE  /\ DOMAIN req' = Slots
         /\ req'[s].op = "idle"
         /\ \A t \in Slots : IsRequest(req'[t]) /\ Onward(req'[t], req[t], moved, gone)
<1>0. DOMAIN req' = Slots /\ req'[s].op = "idle"
  BY IdleIsARequest DEF End
<1> SUFFICES ASSUME NEW t \in Slots
             PROVE  IsRequest(req'[t]) /\ Onward(req'[t], req[t], moved, gone)
  BY <1>0
<1> USE DEF Shape
<1>1. CASE t = s \/ req[t] = Idle
  <2>1. req'[t] = Idle
    BY <1>1 DEF End
  <2> QED
    BY <2>1, IdleIsARequest DEF Onward
<1>2. CASE t # s /\ req[t] # Idle
  <2> DEFINE q == [req[t] EXCEPT !.fresh = @ /\ ~moved, !.row = @ /\ req[t].who \notin gone]
  <2>1. req'[t] = q
    BY <1>2 DEF End
  <2>2. /\ DOMAIN q = DOMAIN req[t]
        /\ q.op = req[t].op /\ q.who = req[t].who /\ q.owner = req[t].owner
        /\ q.answer = req[t].answer /\ q.active = req[t].active /\ q.problems = req[t].problems
        /\ q.fresh = (req[t].fresh /\ ~moved)
        /\ q.row = (req[t].row /\ req[t].who \notin gone)
    BY DEF IsRequest, Idle
  <2> HIDE DEF q
  <2> QED
    BY <2>1, <2>2 DEF Onward, IsRequest
<1> QED
  BY <1>1, <1>2

LEMMA BeginShape ==
  ASSUME NEW s \in Slots, NEW call, Begin(s, call), Shape, IsRequest(call)
  PROVE  /\ Shape' /\ UNCHANGED caseVars
         /\ req'[s] = call
         /\ \A t \in Slots \ {s} : req'[t] = req[t] /\ ~Apart(call.op, req[t].op)
  BY DEF Begin, Shape, MayRun, Apart, caseVars

(* The calls are requests. *)
LEMMA InviteCall ==
  ASSUME NEW e \in Employees
  PROVE  LET call == [Idle EXCEPT !.op = "invite", !.who = e, !.owner = owner, !.known = HaveRows]
         IN  IsRequest(call) /\ call.op = "invite" /\ call.who = e /\ call.owner = owner
  BY DEF IsRequest, Idle, Operations
LEMMA PartDoneCall ==
  ASSUME NEW e \in Employees
  PROVE  LET call == [Idle EXCEPT !.op = "partDone", !.who = e]
         IN  IsRequest(call) /\ call.op = "partDone" /\ call.who = e
  BY DEF IsRequest, Idle, Operations
LEMMA RemoveCall ==
  ASSUME NEW e \in Employees
  PROVE  LET call == [Idle EXCEPT !.op = "remove", !.who = e]
         IN  IsRequest(call) /\ call.op = "remove" /\ call.who = e
  BY DEF IsRequest, Idle, Operations
LEMMA CompleteCall ==
  LET call == [Idle EXCEPT !.op = "complete", !.active = CollaborationActive]
  IN  IsRequest(call) /\ call.op = "complete" /\ call.active = CollaborationActive
  BY DEF IsRequest, Idle, Operations, CollaborationActive
LEMMA PartialCall ==
  ASSUME NEW problems
  PROVE  LET call == [Idle EXCEPT !.op = "partial", !.active = CollaborationActive,
                                  !.problems = problems]
         IN  IsRequest(call) /\ call.op = "partial" /\ call.active = CollaborationActive
             /\ call.problems = problems
  BY DEF IsRequest, Idle, Operations, CollaborationActive

(* What a request has read when it begins. *)
ReadsHold(call) ==
  /\ call.op \in Operations \ {"idle", "park"}
  /\ call.op = "invite" => owner # None /\ call.owner = owner
  /\ call.op = "respond" =>
       /\ part[call.who].status = "eingeladen"
       /\ call.answer = "angenommen" => status \in Acceptable
  /\ call.op = "partDone" => part[call.who].status = "angenommen"
  /\ call.op = "remove" => part[call.who].role = "helfer"
  /\ call.op \in {"complete", "partial"} => call.active = CollaborationActive

Asks(s) ==
  Invite(s) \/ Respond(s) \/ PartDone(s) \/ RemoveParticipant(s) \/ Complete(s) \/ PartialComplete(s)

LEMMA AskShape ==
  ASSUME NEW s \in Slots, Asks(s)
  PROVE  \E call : Begin(s, call) /\ IsRequest(call) /\ ReadsHold(call)
<1> USE DEF ReadsHold, Operations
<1>1. CASE Invite(s)
  <2> PICK e \in Employees :
        /\ owner # None
        /\ Begin(s, [Idle EXCEPT !.op = "invite", !.who = e, !.owner = owner, !.known = HaveRows])
    BY <1>1 DEF Invite
  <2> QED
    BY InviteCall
<1>2. CASE Respond(s)
  <2> PICK e \in Employees, answer \in {"angenommen", "abgelehnt"} :
        /\ part[e].status = "eingeladen"
        /\ answer = "angenommen" => owner # None /\ status \in Acceptable
        /\ Begin(s, [Idle EXCEPT !.op = "respond", !.who = e, !.answer = answer])
    BY <1>2 DEF Respond
  <2> DEFINE call == [Idle EXCEPT !.op = "respond", !.who = e, !.answer = answer]
  <2>1. IsRequest(call) /\ call.op = "respond" /\ call.who = e /\ call.answer = answer
    BY DEF IsRequest, Idle, Operations
  <2> HIDE DEF call
  <2>2. ReadsHold(call)
    BY <2>1
  <2>3. Begin(s, call)
    BY DEF call
  <2> QED
    BY <2>1, <2>2, <2>3
<1>3. CASE PartDone(s)
  <2> PICK e \in Employees :
        part[e].status = "angenommen" /\ Begin(s, [Idle EXCEPT !.op = "partDone", !.who = e])
    BY <1>3 DEF PartDone
  <2> QED
    BY PartDoneCall
<1>4. CASE RemoveParticipant(s)
  <2> PICK e \in Employees :
        part[e].role = "helfer" /\ Begin(s, [Idle EXCEPT !.op = "remove", !.who = e])
    BY <1>4 DEF RemoveParticipant
  <2> QED
    BY RemoveCall
<1>5. CASE Complete(s)
  BY <1>5, CompleteCall DEF Complete
<1>6. CASE PartialComplete(s)
  <2> PICK problems : Begin(s, [Idle EXCEPT !.op = "partial", !.active = CollaborationActive,
                                            !.problems = problems])
    BY <1>6 DEF PartialComplete
  <2> QED
    BY PartialCall
<1> QED
  BY <1>1, <1>2, <1>3, <1>4, <1>5, <1>6 DEF Asks

LEMMA InstantShape ==
  ASSUME NEW s \in Slots, NEW op, NEW moved \in BOOLEAN, NEW gone,
         Instantly(s, op, moved, gone), Shape
  PROVE  /\ End(s, moved, gone)
         /\ \A t \in Slots : req[t].op # "idle" => ~Apart(op, req[t].op)
  BY IdleIsARequest DEF Instantly, MayRun, Apart

LEMMA ParkShape ==
  ASSUME NEW s \in Slots, Park(s), Shape
  PROVE  /\ DOMAIN req' = Slots /\ IsRequest(req'[s]) /\ req'[s].op = "park"
         /\ \A t \in Slots \ {s} :
              /\ IsRequest(req'[t]) /\ Onward(req'[t], req[t], TRUE, {})
              /\ req'[t].op # "idle" => ~Apart("park", req[t].op)
<1>1. DOMAIN req' = Slots /\ req'[s] = [Idle EXCEPT !.op = "park"]
  BY DEF Park
<1>2. IsRequest(req'[s]) /\ req'[s].op = "park"
  BY <1>1 DEF IsRequest, Idle, Operations
<1>3. ASSUME NEW t \in Slots \ {s}
      PROVE  /\ IsRequest(req'[t]) /\ Onward(req'[t], req[t], TRUE, {})
             /\ req'[t].op # "idle" => ~Apart("park", req[t].op)
  <2>1. CASE req[t] = Idle
    BY <2>1, IdleIsARequest DEF Park, Onward
  <2>2. CASE req[t] # Idle
    <3>1. req'[t] = [req[t] EXCEPT !.fresh = FALSE] /\ IsRequest(req[t])
      BY <2>2 DEF Park, Shape
    <3>2. ~Apart("park", req[t].op)
      BY DEF Park, MayRun, Apart
    <3> QED
      BY <3>1, <3>2 DEF IsRequest, Onward, Idle
  <2> QED
    BY <2>1, <2>2
<1> QED
  BY <1>1, <1>2, <1>3

-----------------------------------------------------------------------------
(* Rows stay rows: in particular the owner's row is neither answered nor
   removed, because a removal aims at a helper's row. *)
RemovalsAimAtHelpers ==
  \A s \in Slots : req[s].op = "remove" /\ req[s].row => part[req[s].who].role = "helfer"

Typed == Shape /\ RemovalsAimAtHelpers

LEMMA RowFacts ==
  /\ NoRow \in Rows /\ OwnerRow \in Rows
  /\ \A st \in HelperStatuses : Row(st) \in Rows
  /\ \A row \in Rows : Revived(row) \in Rows /\ Revived(row).role = row.role
  /\ \A row \in Rows : row.status = "eingeladen" => row.role = "helfer"
  BY DEF Rows, NoRow, OwnerRow, Row, HelperStatuses, Revived

(* The row of e with another answer. *)
Changed(e, st) == [part EXCEPT ![e].status = st]

LEMMA RowChange ==
  ASSUME NEW e \in Employees, NEW st \in HelperStatuses, part \in [Employees -> Rows],
         part[e].role = "helfer" \/ (st = "teil_erledigt" /\ part[e].status = "angenommen")
  PROVE  /\ Changed(e, st) \in [Employees -> Rows]
         /\ \A f \in Employees : Changed(e, st)[f].role = part[f].role
         /\ Changed(e, st)[e].status = st
         /\ \A f \in Employees \ {e} : Changed(e, st)[f] = part[f]
<1> DEFINE row == [part[e] EXCEPT !.status = st]
<1>1. row \in Rows /\ row.role = part[e].role /\ row.status = st
  BY DEF Rows, NoRow, HelperStatuses
<1>2. Changed(e, st) = [part EXCEPT ![e] = row]
  BY DEF Changed
<1> HIDE DEF row
<1> QED
  BY <1>1, <1>2

(* The commits of the answers: one row, along an edge. *)
AnswerCommits(s) == CommitRespond(s) \/ CommitPartDone(s) \/ CommitRemove(s)

Answer(s, e, st) ==
  /\ part' = Changed(e, st)
  /\ e \in Employees
  /\ part[e].role = "helfer" \/ (st = "teil_erledigt" /\ part[e].status = "angenommen")
  /\ <<part[e].status, st>> \in InvitationEdges
  /\ End(s, FALSE, {}) /\ status' = status /\ owner' = owner

LEMMA AnswerShape ==
  ASSUME Typed, NEW s \in Slots, AnswerCommits(s)
  PROVE  \E st \in HelperStatuses :
           /\ Answer(s, req[s].who, st)
           /\ part[req[s].who] # NoRow
           /\ st = "angenommen" => /\ req[s].op = "respond" /\ req[s].row
                                   /\ req[s].answer = "angenommen"
<1> DEFINE e == req[s].who
<1>0. Shape
  BY DEF Typed
<1>1. CASE CommitRespond(s)
  <2> DEFINE st == req[s].answer
  <2>1. /\ part' = Changed(e, st) /\ part[e].status = "eingeladen"
        /\ End(s, FALSE, {}) /\ status' = status /\ owner' = owner
        /\ req[s].op = "respond" /\ req[s].row
    BY <1>1 DEF CommitRespond, Changed
  <2>2. e \in Employees /\ st \in {"angenommen", "abgelehnt"}
    BY <1>0, <2>1 DEF Shape, IsRequest
  <2>3. part[e].role = "helfer" /\ part[e] # NoRow
    BY <1>0, <2>1, <2>2, RowFacts DEF Shape, NoRow
  <2>4. <<part[e].status, st>> \in InvitationEdges
    BY <2>1, <2>2 DEF InvitationEdges
  <2>5. Answer(s, e, st)
    BY <2>1, <2>2, <2>3, <2>4 DEF Answer
  <2> QED
    BY <2>1, <2>2, <2>3, <2>5 DEF HelperStatuses
<1>2. CASE CommitPartDone(s)
  <2>1. /\ part' = Changed(e, "teil_erledigt") /\ part[e].status = "angenommen"
        /\ End(s, FALSE, {}) /\ status' = status /\ owner' = owner
        /\ req[s].op = "partDone"
    BY <1>2 DEF CommitPartDone, Changed
  <2>2. e \in Employees
    BY <1>0, <2>1 DEF Shape, IsRequest
  <2>3. Answer(s, e, "teil_erledigt")
    BY <2>1, <2>2 DEF Answer, InvitationEdges
  <2> QED
    BY <2>1, <2>3 DEF HelperStatuses, NoRow
<1>3. CASE CommitRemove(s)
  <2>1. /\ part' = Changed(e, "entfernt") /\ part[e].status # "entfernt"
        /\ End(s, FALSE, {}) /\ status' = status /\ owner' = owner
        /\ req[s].op = "remove" /\ req[s].row
    BY <1>3 DEF CommitRemove, Changed
  <2>2. e \in Employees /\ part[e].role = "helfer"
    BY <1>0, <2>1 DEF Shape, IsRequest, Typed, RemovalsAimAtHelpers
  <2>3. part[e].status \in HelperStatuses \ {"entfernt"}
    BY <1>0, <2>1, <2>2 DEF Shape, Rows, NoRow
  <2>4. <<part[e].status, "entfernt">> \in InvitationEdges
    BY <2>3 DEF HelperStatuses, InvitationEdges
  <2>5. Answer(s, e, "entfernt")
    BY <2>1, <2>2, <2>4 DEF Answer
  <2> QED
    BY <2>2, <2>5 DEF HelperStatuses, NoRow
<1> QED
  BY <1>1, <1>2, <1>3 DEF AnswerCommits

(* After a commit: the rows that are left have the role they had. *)
LEMMA CommitTyped ==
  ASSUME Typed, NEW s \in Slots, NEW moved \in BOOLEAN, NEW gone, End(s, moved, gone),
         status' \in CaseStatuses, owner' \in Employees \cup {None},
         part' \in [Employees -> Rows],
         \A e \in Employees \ gone : part[e] # NoRow => part'[e].role = part[e].role
  PROVE  Typed'
<1>1. Shape'
  BY EndShape DEF Typed, Shape
<1>2. ASSUME NEW t \in Slots, req'[t].op = "remove", req'[t].row
      PROVE  part'[req'[t].who].role = "helfer"
  <2>1. /\ req[t].op = "remove" /\ req[t].row /\ req'[t].who = req[t].who
        /\ req[t].who \in Employees \ gone
    BY <1>2, EndShape DEF Typed, Shape, Onward, IsRequest
  <2>2. part[req[t].who].role = "helfer" /\ part[req[t].who] # NoRow
    BY <2>1 DEF Typed, RemovalsAimAtHelpers, NoRow
  <2> QED
    BY <2>1, <2>2
<1> QED
  BY <1>1, <1>2 DEF Typed, RemovalsAimAtHelpers

LEMMA StatusEdges == \A from, to : CanTransition(from, to) => to \in CaseStatuses
  BY DEF CanTransition, NextStatuses, CaseStatuses

LEMMA StepTyped == Typed /\ [Next]_vars => Typed'
<1> SUFFICES ASSUME Typed, [Next]_vars PROVE Typed'
  OBVIOUS
<1>0. Shape
  BY DEF Typed
<1>1. ASSUME NEW s \in Slots, Asks(s) PROVE Typed'
  <2> PICK call : Begin(s, call) /\ IsRequest(call) /\ ReadsHold(call)
    BY <1>1, AskShape
  <2>1. /\ Shape' /\ UNCHANGED caseVars /\ req'[s] = call
        /\ \A t \in Slots \ {s} : req'[t] = req[t]
    BY <1>0, BeginShape
  <2>2. RemovalsAimAtHelpers'
    BY <2>1 DEF ReadsHold, Typed, RemovalsAimAtHelpers, caseVars
  <2> QED
    BY <2>1, <2>2 DEF Typed
<1>2. ASSUME NEW s \in Slots, CommitInvite(s) PROVE Typed'
  <2>1. End(s, FALSE, {}) /\ status' = status /\ owner' = owner
    BY <1>2 DEF CommitInvite
  <2>2. /\ part' \in [Employees -> Rows]
        /\ \A e \in Employees : part[e] # NoRow => part'[e].role = part[e].role
    <3>1. part \in [Employees -> Rows]
      BY <1>0 DEF Shape
    <3>2. /\ part' = [e \in Employees |-> part'[e]]
          /\ \A e \in Employees : part'[e] \in {OwnerRow, Row("eingeladen"), NoRow, part[e], Revived(part[e])}
          /\ \A e \in Employees : part[e] # NoRow => part'[e] \in {part[e], Revived(part[e])}
      BY <1>2 DEF CommitInvite
    <3> QED
      BY <3>1, <3>2, RowFacts DEF HelperStatuses
  <2> QED
    BY <1>0, <2>1, <2>2, CommitTyped DEF Shape
<1>3. ASSUME NEW s \in Slots, AnswerCommits(s) PROVE Typed'
  <2> DEFINE e == req[s].who
  <2>1. PICK st \in HelperStatuses :
          /\ part' = Changed(e, st)
          /\ e \in Employees
          /\ part[e].role = "helfer" \/ (st = "teil_erledigt" /\ part[e].status = "angenommen")
          /\ End(s, FALSE, {}) /\ status' = status /\ owner' = owner
    BY <1>3, AnswerShape DEF Answer
  <2>2. /\ part' \in [Employees -> Rows]
        /\ \A f \in Employees : part'[f].role = part[f].role
    BY <1>0, <2>1, RowChange DEF Shape
  <2> QED
    BY <1>0, <2>1, <2>2, CommitTyped DEF Shape
<1>4. ASSUME NEW s \in Slots, CreateCollaboration(s) PROVE Typed'
  <2>1. /\ End(s, TRUE, HaveRows) /\ status' = "assigned" /\ owner' \in Employees
        /\ part' \in [Employees -> Rows]
    BY <1>0, <1>4, InstantShape, RowFacts DEF CreateCollaboration, HelperStatuses
  <2> QED
    BY <2>1, CommitTyped DEF CaseStatuses, HaveRows
<1>5. ASSUME NEW s \in Slots,
             ConfirmPosition(s) \/ MoveOn(s) \/ CommitComplete(s) \/ CommitPartial(s)
             \/ Assign(s) \/ Unpark(s) \/ Refuse(s)
      PROVE Typed'
  <2>1. \E moved \in BOOLEAN : End(s, moved, {})
    BY <1>0, <1>5, InstantShape DEF ConfirmPosition, MoveOn, CommitComplete, CommitPartial,
       Assign, Unpark, Refuse
  <2>2. part' = part /\ status' \in CaseStatuses /\ owner' \in Employees \cup {None}
    <3>1. "in_progress" \in CaseStatuses /\ "problem_resolved" \in CaseStatuses
          /\ "assigned" \in CaseStatuses /\ "ready" \in CaseStatuses
      BY DEF CaseStatuses
    <3> QED
      BY <1>0, <1>5, <3>1, StatusEdges DEF ConfirmPosition, MoveOn, CommitComplete,
         CommitPartial, Assign, Unpark, Refuse, caseVars, Shape
  <2> QED
    BY <1>0, <2>1, <2>2, CommitTyped DEF Shape
<1>6. ASSUME NEW s \in Slots, Withdraw(s) \/ MoveCase(s) \/ Cancel(s) \/ CommitDissolve(s)
      PROVE Typed'
  <2>1. \E moved \in BOOLEAN : End(s, moved, HaveRows)
    BY <1>0, <1>6, InstantShape DEF Withdraw, MoveCase, Cancel, CommitDissolve
  <2>2. part' = Dissolved /\ status' \in CaseStatuses /\ owner' \in Employees \cup {None}
    <3>1. "ready" \in CaseStatuses /\ "cancelled" \in CaseStatuses
      BY DEF CaseStatuses
    <3> QED
      BY <1>0, <1>6, <3>1 DEF Withdraw, MoveCase, Cancel, CommitDissolve, Shape
  <2>3. part' \in [Employees -> Rows]
    BY <2>2, RowFacts DEF Dissolved
  <2> QED
    BY <2>1, <2>2, <2>3, CommitTyped DEF HaveRows
<1>7. ASSUME NEW s \in Slots, Park(s) PROVE Typed'
  <2>1. part' = part /\ owner' = owner /\ status' = "parked"
    BY <1>7 DEF Park
  <2>2. Shape'
    BY <1>0, <1>7, <2>1, ParkShape DEF Shape, CaseStatuses
  <2>3. RemovalsAimAtHelpers'
    BY <1>0, <1>7, <2>1, ParkShape DEF RemovalsAimAtHelpers, Typed, Onward
  <2> QED
    BY <2>2, <2>3 DEF Typed
<1>8. CASE UNCHANGED vars
  BY <1>8 DEF vars, Typed, Shape, RemovalsAimAtHelpers
<1> QED
  BY <1>1, <1>2, <1>3, <1>4, <1>5, <1>6, <1>7, <1>8 DEF Next, Asks, AnswerCommits

-----------------------------------------------------------------------------
(* Rows belong to the stay on a cart, if no invitation overlaps with the case
   leaving the cart: then an invitation still names the owner when it commits. *)
InvitationsNameTheOwner ==
  \A s \in Slots : req[s].op = "invite" => owner # None /\ req[s].owner = owner

Stay == Typed /\ RowsBelongToTheStay /\ InvitationsNameTheOwner

LEMMA StepStay == Stay /\ Apart("invite", "leave") /\ [Next]_vars => Stay'
<1> SUFFICES ASSUME Stay, Apart("invite", "leave"), [Next]_vars
             PROVE  RowsBelongToTheStay' /\ InvitationsNameTheOwner'
  BY StepTyped DEF Stay
<1> DEFINE Goal == RowsBelongToTheStay' /\ InvitationsNameTheOwner'
<1>0. Typed /\ Shape
  BY DEF Stay, Typed
<1>a. ASSUME NEW s \in Slots, NEW moved \in BOOLEAN, NEW gone, End(s, moved, gone),
             owner' = owner \/ (\A t \in Slots : req[t].op # "invite")
      PROVE  InvitationsNameTheOwner'
  BY <1>0, <1>a, EndShape DEF Stay, InvitationsNameTheOwner, Onward
<1>1. ASSUME NEW s \in Slots, Asks(s) PROVE Goal
  <2> PICK call : Begin(s, call) /\ IsRequest(call) /\ ReadsHold(call)
    BY <1>1, AskShape
  <2>1. /\ UNCHANGED caseVars /\ req'[s] = call
        /\ \A t \in Slots \ {s} : req'[t] = req[t]
    BY <1>0, BeginShape
  <2> QED
    BY <2>1 DEF ReadsHold, Stay, RowsBelongToTheStay, HaveRows, InvitationsNameTheOwner, caseVars
<1>2. ASSUME NEW s \in Slots, CommitInvite(s) PROVE Goal
  <2>1. End(s, FALSE, {}) /\ owner' = owner
    BY <1>2 DEF CommitInvite
  <2>2. owner # None /\ req[s].owner = owner
    BY <1>2 DEF CommitInvite, Stay, InvitationsNameTheOwner
  <2>3. \A e \in Employees : part'[e].role = "inhaber" => e = owner \/ part[e].role = "inhaber"
    <3>1. Row("eingeladen").role # "inhaber" /\ NoRow.role # "inhaber"
      BY DEF Row, NoRow
    <3>2. \A e \in Employees : part[e] \in Rows
      BY <1>0 DEF Shape
    <3>3. \A e \in Employees :
            \/ part'[e] = OwnerRow /\ e = req[s].owner
            \/ part'[e] \in {Row("eingeladen"), NoRow, part[e], Revived(part[e])}
      BY <1>2 DEF CommitInvite
    <3> QED
      BY <2>2, <3>1, <3>2, <3>3, RowFacts
  <2>4. RowsBelongToTheStay'
    BY <2>1, <2>2, <2>3 DEF Stay, RowsBelongToTheStay, HaveRows, NoRow
  <2> QED
    BY <2>1, <2>4, <1>a
<1>3. ASSUME NEW s \in Slots, AnswerCommits(s) PROVE Goal
  <2> DEFINE e == req[s].who
  <2> PICK st \in HelperStatuses : Answer(s, e, st) /\ part[e] # NoRow
    BY <1>0, <1>3, AnswerShape
  <2>1. End(s, FALSE, {}) /\ owner' = owner
    BY DEF Answer
  <2>3. /\ \A f \in Employees \ {e} : part'[f] = part[f]
        /\ part'[e].role = part[e].role
    BY <1>0, RowChange DEF Answer, Shape
  <2>4. RowsBelongToTheStay'
    BY <2>1, <2>3 DEF Stay, RowsBelongToTheStay, HaveRows
  <2> QED
    BY <2>1, <2>4, <1>a
<1>4. ASSUME NEW s \in Slots, CreateCollaboration(s) PROVE Goal
  <2>1. PICK e \in Employees, helpers \in SUBSET Employees :
          /\ owner = None /\ owner' = e
          /\ part' = [f \in Employees |-> IF f = e THEN OwnerRow
                                          ELSE IF f \in helpers THEN Row("angenommen") ELSE NoRow]
    BY <1>4 DEF CreateCollaboration
  <2>2. \A f \in Employees : part'[f].role = "inhaber" => f = e
    BY <2>1 DEF Row, NoRow
  <2>3. RowsBelongToTheStay'
    BY <2>1, <2>2 DEF RowsBelongToTheStay, HaveRows
  <2>4. End(s, TRUE, HaveRows)
    BY <1>0, <1>4, InstantShape DEF CreateCollaboration
  <2>5. \A t \in Slots : req[t].op # "invite"
    BY <2>1 DEF Stay, InvitationsNameTheOwner
  <2> QED
    BY <1>a, <2>3, <2>4, <2>5
<1>5. ASSUME NEW s \in Slots,
             ConfirmPosition(s) \/ MoveOn(s) \/ CommitComplete(s) \/ CommitPartial(s)
             \/ Unpark(s) \/ Refuse(s)
      PROVE Goal
  <2>1. \E moved \in BOOLEAN : End(s, moved, {})
    BY <1>0, <1>5, InstantShape DEF ConfirmPosition, MoveOn, CommitComplete, CommitPartial,
       Unpark, Refuse
  <2>2. part' = part /\ owner' = owner
    BY <1>5 DEF ConfirmPosition, MoveOn, CommitComplete, CommitPartial, Unpark, Refuse, caseVars
  <2> QED
    BY <1>a, <2>1, <2>2 DEF Stay, RowsBelongToTheStay, HaveRows
<1>6. ASSUME NEW s \in Slots, Assign(s) PROVE Goal
  <2>1. End(s, TRUE, {}) /\ owner = None /\ part' = part
    BY <1>0, <1>6, InstantShape DEF Assign
  <2>2. HaveRows' = {} /\ \A t \in Slots : req[t].op # "invite"
    BY <2>1 DEF Stay, RowsBelongToTheStay, InvitationsNameTheOwner, HaveRows
  <2> QED
    BY <1>a, <2>1, <2>2 DEF RowsBelongToTheStay
<1>7. ASSUME NEW s \in Slots, Withdraw(s) \/ MoveCase(s) \/ Cancel(s) PROVE Goal
  <2>1. PICK moved \in BOOLEAN : Instantly(s, "leave", moved, HaveRows) /\ part' = Dissolved
    BY <1>7 DEF Withdraw, MoveCase, Cancel
  <2>2. HaveRows' = {}
    BY <2>1 DEF HaveRows, Dissolved
  <2>3. End(s, moved, HaveRows) /\ \A t \in Slots : req[t].op # "invite"
    <3>1. Apart("leave", "invite")
      BY DEF Apart
    <3> QED
      BY <1>0, <2>1, <3>1, InstantShape
  <2> QED
    BY <1>a, <2>2, <2>3 DEF RowsBelongToTheStay
<1>8. ASSUME NEW s \in Slots, CommitDissolve(s) PROVE Goal
  <2>1. End(s, FALSE, HaveRows) /\ HaveRows' = {} /\ owner' = owner
    BY <1>8 DEF CommitDissolve, HaveRows, Dissolved
  <2> QED
    BY <1>a, <2>1 DEF RowsBelongToTheStay
<1>9. ASSUME NEW s \in Slots, Park(s) PROVE Goal
  <2>1. part' = part /\ owner' = owner
    BY <1>9 DEF Park
  <2> QED
    BY <1>0, <1>9, <2>1, ParkShape
       DEF Stay, RowsBelongToTheStay, HaveRows, InvitationsNameTheOwner, Onward
<1>10. CASE UNCHANGED vars
  BY <1>10 DEF vars, Stay, RowsBelongToTheStay, HaveRows, InvitationsNameTheOwner
<1> QED
  BY <1>1, <1>2, <1>3, <1>4, <1>5, <1>6, <1>7, <1>8, <1>9, <1>10 DEF Next, Asks, AnswerCommits

LEMMA InitStay == Init => Stay
  BY RowFacts, IdleIsARequest DEF Init, Stay, Typed, Shape, RemovalsAimAtHelpers,
     RowsBelongToTheStay, HaveRows, InvitationsNameTheOwner, CaseStatuses

(* Whoever invites, answers, removes and reassigns: the rows of a case are of its
   present stay on a cart, as long as no invitation overlaps with its leaving. *)
THEOREM RowsOfTheStay ==
  ASSUME Apart("invite", "leave")
  PROVE  Spec => []RowsBelongToTheStay
<1>1. Stay => RowsBelongToTheStay
  BY DEF Stay
<1> QED
  BY <1>1, InitStay, StepStay, PTL DEF Spec

-----------------------------------------------------------------------------
(* What an invitation does to the rows. *)
LEMMA InviteRows ==
  ASSUME Shape, NEW s \in Slots, CommitInvite(s), NEW e \in Employees
  PROVE  /\ part[e] # NoRow => part'[e] # NoRow
         /\ \/ part'[e] = part[e]
            \/ <<part[e].status, part'[e].status>> \in InvitationEdges
         /\ part[e].status = "eingeladen" => part'[e] = part[e]
         /\ e \in Active' /\ part'[e].role = "helfer" => e \in Active /\ part[e].role = "helfer"
<1>1. \/ part'[e] = part[e]
      \/ part[e] = NoRow /\ part'[e] \in {OwnerRow, Row("eingeladen")}
      \/ part[e].status \in {"abgelehnt", "entfernt"} /\ part'[e].status = "eingeladen"
  <2>1. part[e] \in Rows
    BY DEF Shape
  <2>2. \/ part'[e] = part[e]
        \/ part[e] = NoRow /\ part'[e] \in {OwnerRow, Row("eingeladen")}
        \/ part'[e] = Revived(part[e])
    BY DEF CommitInvite
  <2> QED
    BY <2>1, <2>2 DEF Revived, Rows, NoRow, HelperStatuses
<1> QED
  BY <1>1 DEF InvitationEdges, NoRow, OwnerRow, Row, Active, ActiveStatuses

(* Answers.  While a parking still owes its dissolution the case stays parked,
   or is cancelled, which took it from its cart. *)
ParkedMeanwhile ==
  /\ \A s \in Slots : req[s].op = "park" => status \in {"parked", "cancelled"}
  /\ status = "cancelled" => owner = None

LEMMA StepParked ==
  Apart("park", "enter") /\ Apart("park", "unpark") /\ Shape /\ ParkedMeanwhile /\ [Next]_vars
    => ParkedMeanwhile'
<1> SUFFICES ASSUME Apart("park", "enter"), Apart("park", "unpark"), Shape, ParkedMeanwhile,
                    [Next]_vars
             PROVE  ParkedMeanwhile'
  OBVIOUS
<1> USE DEF ParkedMeanwhile
<1>a. ASSUME NEW s \in Slots, NEW moved \in BOOLEAN, NEW gone, End(s, moved, gone)
      PROVE  \A t \in Slots : req'[t].op = "park" => req[t].op = "park"
  BY <1>a, EndShape DEF Onward
<1>1. ASSUME NEW s \in Slots, Asks(s) PROVE ParkedMeanwhile'
  <2> PICK call : Begin(s, call) /\ IsRequest(call) /\ ReadsHold(call)
    BY <1>1, AskShape
  <2>1. UNCHANGED caseVars /\ req'[s] = call
    BY BeginShape
  <2>2. \A t \in Slots \ {s} : req'[t] = req[t]
    BY BeginShape
  <2> QED
    BY <2>1, <2>2 DEF ReadsHold, caseVars
<1>2. ASSUME NEW s \in Slots, NEW moved \in BOOLEAN, NEW gone, End(s, moved, gone),
             UNCHANGED <<status, owner>>
      PROVE  ParkedMeanwhile'
  BY <1>2, <1>a
<1>3. ASSUME NEW s \in Slots,
             CommitInvite(s) \/ CommitRespond(s) \/ CommitPartDone(s) \/ CommitRemove(s)
             \/ CommitDissolve(s) \/ Refuse(s)
      PROVE  ParkedMeanwhile'
  BY <1>2, <1>3 DEF CommitInvite, CommitRespond, CommitPartDone, CommitRemove, CommitDissolve,
     Refuse, caseVars
<1>4. ASSUME NEW s \in Slots, ConfirmPosition(s) PROVE ParkedMeanwhile'
  BY <1>2, <1>4, InstantShape DEF ConfirmPosition
<1>5. ASSUME NEW s \in Slots, NEW moved \in BOOLEAN, NEW gone, End(s, moved, gone),
             status \notin {"parked", "cancelled"}, status' # "cancelled"
      PROVE  ParkedMeanwhile'
  BY <1>5, <1>a
<1>6. ASSUME NEW s \in Slots,
             MoveOn(s) \/ CommitComplete(s) \/ CommitPartial(s) \/ Assign(s) \/ Withdraw(s) \/ MoveCase(s)
      PROVE  ParkedMeanwhile'
  <2>1. \E moved \in BOOLEAN, gone \in {{}, HaveRows} : End(s, moved, gone)
    BY <1>6, InstantShape DEF MoveOn, CommitComplete, CommitPartial, Assign, Withdraw, MoveCase
  <2>2. status \notin {"parked", "cancelled"} /\ status' # "cancelled"
    BY <1>6 DEF MoveOn, CommitComplete, CommitPartial, Assign, Withdraw, MoveCase,
       CanTransition, NextStatuses
  <2> QED
    BY <1>5, <2>1, <2>2
<1>7. ASSUME NEW s \in Slots, CreateCollaboration(s) \/ Unpark(s) PROVE ParkedMeanwhile'
  <2>1. Apart("enter", "park") /\ Apart("unpark", "park")
    BY DEF Apart
  <2>2. /\ \E gone \in {{}, HaveRows} : End(s, TRUE, gone)
        /\ \A t \in Slots : req[t].op # "park"
    BY <1>7, <2>1, InstantShape DEF CreateCollaboration, Unpark
  <2>3. status' # "cancelled"
    BY <1>7 DEF CreateCollaboration, Unpark
  <2> QED
    BY <1>a, <2>2, <2>3
<1>8. ASSUME NEW s \in Slots, Cancel(s) PROVE ParkedMeanwhile'
  BY <1>8 DEF Cancel
<1>9. ASSUME NEW s \in Slots, Park(s) PROVE ParkedMeanwhile'
  BY <1>9 DEF Park
<1>10. CASE UNCHANGED vars
  BY <1>10 DEF vars
<1> QED
  BY <1>1, <1>3, <1>4, <1>6, <1>7, <1>8, <1>9, <1>10 DEF Next, Asks

(* Neither a crossing answer nor a late dissolution overwrites what became of a
   row, as long as the teamlead does not take a case out of parking before the
   parking is over. *)
THEOREM AnswersStand ==
  ASSUME Apart("invite", "leave"), Apart("park", "enter"), Apart("park", "unpark")
  PROVE  Spec => AnswersAreNotOverwritten
<1> DEFINE A == owner' = owner => \A e \in Employees :
                  \/ part'[e] = part[e]
                  \/ part'[e] = NoRow /\ status' = "parked"
                  \/ <<part[e].status, part'[e].status>> \in InvitationEdges
           Inv == Stay /\ ParkedMeanwhile
<1>1. Init => Inv
  BY InitStay, IdleIsARequest DEF Init, ParkedMeanwhile
<1>2. Inv /\ [Next]_vars => Inv'
  BY StepStay, StepParked DEF Stay, Typed
<1>3. Inv /\ [Next]_vars => [A]_vars
  <2> SUFFICES ASSUME Inv, Next, owner' = owner, NEW e \in Employees
               PROVE  \/ part'[e] = part[e]
                      \/ part'[e] = NoRow /\ status' = "parked"
                      \/ <<part[e].status, part'[e].status>> \in InvitationEdges
    OBVIOUS
  <2>0. Typed /\ Shape
    BY DEF Stay, Typed
  <2>1. ASSUME NEW s \in Slots, AnswerCommits(s)
        PROVE  part'[e] = part[e] \/ <<part[e].status, part'[e].status>> \in InvitationEdges
    <3> PICK st \in HelperStatuses : Answer(s, req[s].who, st)
      BY <2>0, <2>1, AnswerShape
    <3> QED
      BY <2>0, RowChange DEF Answer, Shape
  <2>2. ASSUME NEW s \in Slots, CommitInvite(s)
        PROVE  part'[e] = part[e] \/ <<part[e].status, part'[e].status>> \in InvitationEdges
    BY <2>0, <2>2, InviteRows
  <2>3. ASSUME NEW s \in Slots, CreateCollaboration(s) \/ Withdraw(s) \/ MoveCase(s) PROVE FALSE
    BY <2>3 DEF CreateCollaboration, Withdraw, MoveCase
  <2>4. ASSUME NEW s \in Slots, Asks(s) PROVE part' = part
    <3> PICK call : Begin(s, call)
      BY <2>4, AskShape
    <3> QED
      BY DEF Begin, caseVars
  <2>5. ASSUME NEW s \in Slots,
               ConfirmPosition(s) \/ MoveOn(s) \/ CommitComplete(s) \/ CommitPartial(s)
               \/ Assign(s) \/ Unpark(s) \/ Refuse(s) \/ Park(s)
        PROVE  part' = part
    BY <2>5 DEF ConfirmPosition, MoveOn, CommitComplete, CommitPartial, Assign, Unpark, Refuse,
       Park, caseVars
  <2>6. ASSUME owner = None PROVE part[e] = NoRow
    BY <2>6 DEF Stay, RowsBelongToTheStay, HaveRows
  <2>7. ASSUME NEW s \in Slots, Cancel(s) PROVE part'[e] = part[e]
    BY <2>6, <2>7 DEF Cancel, Dissolved
  <2>8. ASSUME NEW s \in Slots, CommitDissolve(s)
        PROVE  part'[e] = part[e] \/ (part'[e] = NoRow /\ status' = "parked")
    BY <2>6, <2>8 DEF CommitDissolve, Dissolved, ParkedMeanwhile
  <2> QED
    BY <2>1, <2>2, <2>3, <2>4, <2>5, <2>7, <2>8 DEF Next, Asks, AnswerCommits
<1> QED
  BY <1>1, <1>2, <1>3, PTL DEF Spec, AnswersAreNotOverwritten
=============================================================================
