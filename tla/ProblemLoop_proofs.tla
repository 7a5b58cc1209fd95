------------------------- MODULE ProblemLoop_proofs -------------------------
(***************************************************************************)
(* Two results for all numbers of problems and requests.                   *)
(*                                                                         *)
(* A deviation is reported once, as long as no answer of the teamlead      *)
(* overlaps with a partial completion: a partial completion halts the case *)
(* before it inserts its problems, and until it has inserted them only an  *)
(* answer could let the case go on to another partial completion.          *)
(*                                                                         *)
(* No case is finished over a deviation nobody reported, as long as        *)
(* moreover no count overlaps with a completion: the version guard makes   *)
(* the completion that commits the one that read the last state, and its   *)
(* counts are stored while the case can no longer move.                    *)
(***************************************************************************)
EXTENDS ProblemLoop, TLAPS

Apart(a, b) == {a, b} \in Exclusive

(* The commits a partial completion has ahead, and those of the other requests. *)
Moves    == <<"issue_open", "issues", "counts">>
Reports  == <<"issues", "counts">>
Persists == <<"counts">>
Closes   == <<"completed", "counts">>

IsTodo(op, todo) ==
  \/ op = "partial"  /\ todo \in {Moves, Reports, Persists}
  \/ op = "complete" /\ todo \in {Closes, Persists}
  \/ op = "reopen"   /\ todo \in {<<"reopen", "issue_open">>, <<"reopen">>, <<"issue_open">>}
  \/ op = "instruct" /\ todo \in {<<"answer">>, <<"resolve">>}
  \/ op = "start"    /\ todo = <<"in_progress">>
  \/ op = "idle"     /\ todo = <<>>

IsRequest(r) ==
  /\ DOMAIN r = DOMAIN Idle
  /\ IsTodo(r.op, r.todo)
  /\ r.fresh \in BOOLEAN
  /\ r.kinds \subseteq {"manual", "deviation"}
  /\ r.op = "partial" /\ r.todo # Persists =>
       r.kinds # {} /\ r.seen \in {"in_progress", "problem_resolved"}
  /\ r.op \in {"reopen", "instruct"} => \E i \in Issues : r.rows = {i}
  /\ r.op = "reopen" => (r.todo = <<"reopen">> \/ r.seen # "issue_open")

Shape ==
  /\ issue \in [Issues -> [kind : {"none", "manual", "deviation"},
                           status : {"none", "open", "instruction_sent"}]]
  /\ DOMAIN req = Slots
  /\ \A s \in Slots : IsRequest(req[s])

(* q is what became of the request r, if it is not over, when another request
   committed. *)
Onward(q, r, moved) ==
  /\ q.op = r.op
  /\ q.op # "idle" =>
       /\ q.todo = r.todo /\ q.kinds = r.kinds /\ q.body = r.body
       /\ q.rows = r.rows /\ q.seen = r.seen
       /\ q.fresh <=> r.fresh /\ ~moved

LEMMA Todos ==
  /\ Len(Moves) = 3 /\ Tail(Moves) = Reports /\ Head(Moves) = "issue_open"
  /\ Len(Reports) = 2 /\ Tail(Reports) = Persists /\ Head(Reports) = "issues"
  /\ Len(Persists) = 1 /\ Head(Persists) = "counts"
  /\ Len(Closes) = 2 /\ Tail(Closes) = Persists /\ Head(Closes) = "completed"
  /\ Len(<<"reopen", "issue_open">>) = 2 /\ Tail(<<"reopen", "issue_open">>) = <<"issue_open">>
  /\ Head(<<"reopen", "issue_open">>) = "reopen"
  /\ Len(<<>>) = 0
  /\ \A c : Len(<<c>>) = 1 /\ Head(<<c>>) = c
  /\ <<"reopen">> # <<"issue_open">> /\ <<"reopen", "issue_open">> # <<"reopen">>
  /\ <<"reopen", "issue_open">> # <<"issue_open">>
  /\ Moves # Reports /\ Reports # Persists /\ Moves # Persists /\ Closes # Persists
  BY DEF Moves, Reports, Persists, Closes

LEMMA IdleIsARequest == IsRequest(Idle) /\ Idle.op = "idle" /\ Idle.todo = <<>>
  BY DEF IsRequest, Idle, Operations, IsTodo

LEMMA AdvancedShape ==
  ASSUME NEW r, IsRequest(r)
  PROVE  LET q == Advanced(r) IN
         /\ IsRequest(q)
         /\ q.op = "partial" =>
              /\ r.op = "partial" /\ q.kinds = r.kinds
              /\ <<r.todo, q.todo>> \in {<<Moves, Reports>>, <<Reports, Persists>>}
         /\ q.op = "complete" =>
              /\ r.op = "complete" /\ q.body = r.body
              /\ r.todo = Closes /\ q.todo = Persists
         /\ q.op = "reopen" =>
              /\ r.op = "reopen" /\ r.todo = <<"reopen", "issue_open">> /\ q.todo = <<"issue_open">>
              /\ q.rows = r.rows /\ q.seen = r.seen /\ q.fresh = r.fresh
         /\ q.op \in {"idle", r.op} \ {"instruct", "start"}
<1>1. CASE Len(r.todo) <= 1
  BY <1>1, IdleIsARequest DEF Advanced
<1>2. CASE ~(Len(r.todo) <= 1)
  <2> DEFINE q == [r EXCEPT !.todo = Tail(@)]
  <2>1. Advanced(r) = q
    BY <1>2 DEF Advanced
  <2>2. /\ DOMAIN q = DOMAIN r /\ q.op = r.op /\ q.todo = Tail(r.todo) /\ q.fresh = r.fresh
        /\ q.kinds = r.kinds /\ q.body = r.body /\ q.rows = r.rows /\ q.seen = r.seen
    BY DEF IsRequest, Idle
  <2>3. \/ r.op = "partial" /\ r.todo = Moves
        \/ r.op = "partial" /\ r.todo = Reports
        \/ r.op = "complete" /\ r.todo = Closes
        \/ r.op = "reopen" /\ r.todo = <<"reopen", "issue_open">>
    <3>1. IsTodo(r.op, r.todo)
      BY DEF IsRequest
    <3>2. ASSUME NEW c, r.todo = <<c>> PROVE FALSE
      <4>1. Len(r.todo) = 1
        BY <3>2
      <4> QED
        BY <1>2, <4>1
    <3>3. ASSUME r.todo = Persists PROVE FALSE
      <4>1. Len(r.todo) = 1
        BY <3>3, Todos
      <4> QED
        BY <1>2, <4>1
    <3>4. ASSUME r.todo = <<>> PROVE FALSE
      <4>1. Len(r.todo) = 0
        BY <3>4
      <4> QED
        BY <1>2, <4>1
    <3> QED
      BY <3>1, <3>2, <3>3, <3>4 DEF IsTodo
  <2> HIDE DEF q
  <2>4. CASE r.op = "partial"
    BY <2>1, <2>2, <2>3, <2>4, Todos DEF IsRequest, IsTodo
  <2>5. CASE r.op = "complete"
    BY <2>1, <2>2, <2>3, <2>5, Todos DEF IsRequest, IsTodo
  <2>6. CASE r.op = "reopen"
    BY <2>1, <2>2, <2>3, <2>6, Todos DEF IsRequest, IsTodo
  <2> QED
    BY <2>3, <2>4, <2>5, <2>6
<1> QED
  BY <1>1, <1>2

LEMMA DoneShape ==
  ASSUME Shape, NEW s \in Slots, NEW moved \in BOOLEAN, Done(s, moved)
  PROVE  /\ DOMAIN req' = Slots
         /\ req'[s] = Advanced(req[s])
         /\ \A t \in Slots : IsRequest(req'[t])
         /\ \A t \in Slots \ {s} : Onward(req'[t], req[t], moved)
<1>1. DOMAIN req' = Slots /\ req'[s] = Advanced(req[s]) /\ IsRequest(req'[s])
  BY AdvancedShape DEF Done, Shape
<1>2. ASSUME NEW t \in Slots \ {s}
      PROVE  IsRequest(req'[t]) /\ Onward(req'[t], req[t], moved)
  <2>1. CASE req[t] = Idle
    BY <2>1, IdleIsARequest DEF Done, Onward
  <2>2. CASE req[t] # Idle
    <3> DEFINE q == [req[t] EXCEPT !.fresh = @ /\ ~moved]
    <3>1. req'[t] = q
      BY <2>2 DEF Done
    <3>2. /\ DOMAIN q = DOMAIN req[t] /\ q.op = req[t].op /\ q.todo = req[t].todo
          /\ q.kinds = req[t].kinds /\ q.body = req[t].body
          /\ q.rows = req[t].rows /\ q.seen = req[t].seen
          /\ q.fresh = (req[t].fresh /\ ~moved)
      BY DEF Shape, IsRequest, Idle
    <3> HIDE DEF q
    <3>3. IsRequest(q)
      <4>1. IsRequest(req[t])
        BY DEF Shape
      <4>2. IsTodo(q.op, q.todo) /\ q.fresh \in BOOLEAN
        BY <3>2, <4>1 DEF IsRequest
      <4> QED
        BY <3>2, <4>1, <4>2 DEF IsRequest
    <3>4. Onward(q, req[t], moved)
      BY <3>2 DEF Onward
    <3> QED
      BY <3>1, <3>3, <3>4
  <2> QED
    BY <2>1, <2>2
<1> QED
  BY <1>1, <1>2

-----------------------------------------------------------------------------
(* The parts of the invariant. *)

Ahead(s, todo) == req[s].op = "partial" /\ req[s].todo = todo

(* A case whose problems are still to be inserted is halted. *)
Halted ==
  \A s \in Slots : Ahead(s, Reports) \/ Ahead(s, Persists) => status \in {"issue_open", "cancelled"}

(* A partial completion that can still move the case has read it as it is. *)
Current ==
  \A s \in Slots : Ahead(s, Moves) /\ req[s].fresh =>
    /\ status \in {"in_progress", "problem_resolved"} /\ req[s].seen = status
    /\ "deviation" \in req[s].kinds => ~Reported

(* What one is about to insert is not there yet, and no other one is about to. *)
Pending ==
  /\ \A s \in Slots : Ahead(s, Reports) /\ "deviation" \in req[s].kinds => ~Reported
  /\ \A s, t \in Slots : Ahead(s, Reports) /\ Ahead(t, Reports) => s = t

NoAnswerMeanwhile ==
  \A s, t \in Slots : ~(req[s].op = "partial" /\ req[t].op = "instruct")

Inv == Shape /\ Halted /\ Current /\ Pending /\ NoAnswerMeanwhile /\ DeviationReportedOnce

(* After a commit of request s that leaves the reported problems alone. *)
LEMMA CommitKeeps ==
  ASSUME Inv, NEW s \in Slots, NEW moved \in BOOLEAN, Done(s, moved),
         issue' \in [Issues -> [kind : {"none", "manual", "deviation"},
                                status : {"none", "open", "instruction_sent"}]],
         \A i \in Issues : issue'[i].kind = issue[i].kind,
         ~moved => status' = status,
         (\E t \in Slots : Ahead(t, Reports) \/ Ahead(t, Persists))
           => status' \in {"issue_open", "cancelled"},
         Ahead(s, Moves) => moved /\ status' = "issue_open" /\ req[s].fresh,
         ~Ahead(s, Reports)
  PROVE  Inv'
<1> USE DEF Inv
<1>1. Shape'
  BY DoneShape DEF Shape
<1>2. Reported' <=> Reported
  BY DEF Reported
<1>3. \A t \in Slots \ {s} : Onward(req'[t], req[t], moved)
  BY DoneShape
<1>4. /\ req'[s].op = "partial" =>
           /\ req[s].op = "partial" /\ req'[s].kinds = req[s].kinds
           /\ <<req[s].todo, req'[s].todo>> \in {<<Moves, Reports>>, <<Reports, Persists>>}
      /\ req'[s].op \in {"idle", req[s].op}
  BY DoneShape, AdvancedShape DEF Shape
<1>5. Ahead(s, Reports)' => Ahead(s, Moves)
  BY <1>4, Todos DEF Ahead
<1>6. ~Ahead(s, Moves)' /\ ~Ahead(s, Persists)'
  BY <1>4, Todos DEF Ahead
<1>7. Halted'
  BY <1>3, <1>5, <1>6 DEF Halted, Ahead, Onward
<1>8. Current'
  BY <1>2, <1>3, <1>6 DEF Current, Ahead, Onward
<1>9. Pending'
  <2>1. CASE Ahead(s, Moves)
    <3>1. \A t \in Slots : ~Ahead(t, Reports)
      BY <2>1 DEF Current, Halted
    <3>2. \A t \in Slots \ {s} : ~Ahead(t, Reports)'
      BY <1>3, <3>1 DEF Ahead, Onward
    <3>3. "deviation" \in req'[s].kinds /\ Ahead(s, Reports)' => ~Reported
      BY <1>4, <2>1 DEF Current, Ahead
    <3> QED
      BY <1>2, <3>2, <3>3 DEF Pending
  <2>2. CASE ~Ahead(s, Moves)
    BY <1>2, <1>3, <1>5, <2>2 DEF Pending, Ahead, Onward
  <2> QED
    BY <2>1, <2>2
<1>10. NoAnswerMeanwhile'
  <2>1. \A t \in Slots : req'[t].op \in {"idle", req[t].op}
    BY <1>3, <1>4 DEF Onward
  <2> QED
    BY <2>1 DEF NoAnswerMeanwhile
<1>11. DeviationReportedOnce'
  BY DEF DeviationReportedOnce
<1> QED
  BY <1>1, <1>7, <1>8, <1>9, <1>10, <1>11

(* A new request. *)
LEMMA BeginKeeps ==
  ASSUME Inv, Apart("partial", "instruct"), NEW s \in Slots, NEW call, Begin(s, call),
         IsRequest(call),
         call.op = "partial" =>
           /\ call.todo = Moves /\ call.seen = status /\ CanTransition(status, "issue_open")
           /\ "deviation" \in call.kinds => ~Reported
  PROVE  Inv'
<1> USE DEF Inv
<1>1. /\ UNCHANGED <<status, issue>> /\ req'[s] = call /\ DOMAIN req' = Slots
      /\ \A t \in Slots \ {s} : req'[t] = req[t] /\ ~Apart(call.op, req[t].op)
  BY DEF Begin, Shape, Apart
<1>2. Shape'
  BY <1>1 DEF Shape
<1>3. ~Ahead(s, Reports)' /\ ~Ahead(s, Persists)'
  BY <1>1, Todos DEF Ahead
<1>4. CanTransition(status, "issue_open") => status \in {"in_progress", "problem_resolved"}
  BY DEF CanTransition, NextStatuses
<1>5. Reported' <=> Reported
  BY <1>1 DEF Reported
<1>6. Halted' /\ Current' /\ Pending'
  BY <1>1, <1>3, <1>4, <1>5 DEF Halted, Current, Pending, Ahead
<1>7. NoAnswerMeanwhile'
  <2>1. Apart("instruct", "partial")
    BY DEF Apart
  <2> QED
    BY <1>1, <2>1 DEF NoAnswerMeanwhile
<1>8. DeviationReportedOnce'
  BY <1>1 DEF DeviationReportedOnce
<1> QED
  BY <1>2, <1>6, <1>7, <1>8

-----------------------------------------------------------------------------
(* The calls. *)

LEMMA Calls ==
  ASSUME NEW op \in Operations \ {"partial"}, NEW todo, IsTodo(op, todo),
         NEW rows, op \in {"reopen", "instruct"} => \E i \in Issues : rows = {i},
         op = "reopen" => (todo = <<"reopen">> \/ status # "issue_open")
  PROVE  LET call == Call(op, todo, rows) IN
         IsRequest(call) /\ call.op = op
  BY DEF IsRequest, Call, Idle

LEMMA AskKeeps ==
  ASSUME Inv, Apart("partial", "instruct"), NEW s \in Slots,
         StartPreparation(s) \/ Complete(s) \/ PartialComplete(s) \/ ReopenIssue(s)
         \/ SendInstruction(s)
  PROVE  Inv'
<1>1. CASE StartPreparation(s)
  <2> DEFINE call == Call("start", <<"in_progress">>, {})
  <2>1. IsRequest(call) /\ call.op = "start"
    BY Calls DEF IsTodo, Operations
  <2>2. Begin(s, call)
    BY <1>1 DEF StartPreparation
  <2> HIDE DEF call
  <2> QED
    BY <2>1, <2>2, BeginKeeps
<1>2. CASE Complete(s)
  <2> DEFINE base == Call("complete", <<"completed", "counts">>, {})
  <2> PICK body : Begin(s, [base EXCEPT !.body = body])
    BY <1>2 DEF Complete
  <2> DEFINE call == [base EXCEPT !.body = body]
  <2>1. IsRequest(call) /\ call.op = "complete"
    BY DEF IsRequest, IsTodo, Call, Idle, Operations, Closes
  <2> HIDE DEF call
  <2> QED
    BY <2>1, BeginKeeps DEF call
<1>3. CASE PartialComplete(s)
  <2> PICK body \in Counts \cup {"none"}, manual \in SUBSET {"manual"} :
        LET implicit == IF Effective(body) = "deviates" /\ ~Reported THEN {"deviation"} ELSE {}
        IN  /\ CanTransition(status, "issue_open")
            /\ manual \cup implicit # {}
            /\ Begin(s, [Call("partial", <<"issue_open", "issues", "counts">>, {})
                           EXCEPT !.body = body, !.kinds = manual \cup implicit])
    BY <1>3 DEF PartialComplete
  <2> DEFINE kinds == manual \cup IF Effective(body) = "deviates" /\ ~Reported
                                  THEN {"deviation"} ELSE {}
             call == [Call("partial", <<"issue_open", "issues", "counts">>, {})
                        EXCEPT !.body = body, !.kinds = kinds]
  <2>1. /\ kinds \in SUBSET {"manual", "deviation"} /\ kinds # {}
        /\ "deviation" \in kinds => ~Reported
    OBVIOUS
  <2>2. CanTransition(status, "issue_open") /\ Begin(s, call)
    OBVIOUS
  <2> HIDE DEF kinds
  <2>3. status \in {"in_progress", "problem_resolved"}
    BY <2>2 DEF CanTransition, NextStatuses
  <2>4. /\ IsRequest(call) /\ call.op = "partial" /\ call.todo = Moves /\ call.kinds = kinds
        /\ call.seen = status
    BY <2>1, <2>3 DEF IsRequest, IsTodo, Call, Idle, Operations, Moves
  <2> HIDE DEF call
  <2> QED
    BY <2>1, <2>2, <2>4, BeginKeeps
<1>4. CASE ReopenIssue(s)
  <2> DEFINE todo == IF status = "issue_open" THEN <<"reopen">> ELSE <<"reopen", "issue_open">>
  <2> PICK i \in Issues : Begin(s, Call("reopen", todo, {i}))
    BY <1>4 DEF ReopenIssue, Answered
  <2> DEFINE call == Call("reopen", todo, {i})
  <2>1. IsRequest(call) /\ call.op = "reopen"
    BY Calls DEF IsTodo, Operations
  <2> HIDE DEF call
  <2> QED
    BY <2>1, BeginKeeps DEF call
<1>5. CASE SendInstruction(s)
  <2> PICK i \in Issues : Begin(s, Call("instruct", <<"answer">>, {i}))
    BY <1>5 DEF SendInstruction, Open
  <2> DEFINE call == Call("instruct", <<"answer">>, {i})
  <2>1. IsRequest(call) /\ call.op = "instruct"
    BY Calls DEF IsTodo, Operations
  <2> HIDE DEF call
  <2> QED
    BY <2>1, BeginKeeps DEF call
<1> QED
  BY <1>1, <1>2, <1>3, <1>4, <1>5

-----------------------------------------------------------------------------
(* The commits. *)

LEMMA DueFacts ==
  ASSUME Shape, NEW s \in Slots
  PROVE  /\ req[s].op = "partial" => Ahead(s, Moves) \/ Ahead(s, Reports) \/ Ahead(s, Persists)
         /\ Due(s, "issues") => Ahead(s, Reports)
         /\ \A to \in {"in_progress", "completed"} : Due(s, to) => req[s].op # "partial"
         /\ Due(s, "issue_open") => ~Ahead(s, Reports) /\ ~Ahead(s, Persists)
         /\ Due(s, "counts") => ~Ahead(s, Moves) /\ ~Ahead(s, Reports)
         /\ Due(s, "answer") \/ Due(s, "resolve") => req[s].op = "instruct"
         /\ Due(s, "reopen") => req[s].op = "reopen"
<1>1. IsRequest(req[s])
  BY DEF Shape
<1> QED
  BY <1>1, Todos DEF IsRequest, IsTodo, Due, Ahead

LEMMA ReportsKeeps ==
  ASSUME Inv, NEW s \in Slots, CommitIssues(s)
  PROVE  Inv'
<1> USE DEF Inv
<1>1. Ahead(s, Reports) /\ IsRequest(req[s])
  BY DueFacts DEF CommitIssues, Shape
<1> DEFINE r == req[s]
<1> PICK row \in [r.kinds -> {i \in Issues : issue[i] = NoIssue}] :
      /\ \A k1, k2 \in r.kinds : row[k1] = row[k2] => k1 = k2
      /\ issue' = [i \in Issues |->
           IF \E k \in r.kinds : row[k] = i
           THEN [kind |-> CHOOSE k \in r.kinds : row[k] = i, status |-> "open"]
           ELSE issue[i]]
  BY DEF CommitIssues
<1>2. ASSUME NEW i \in Issues
      PROVE  \/ issue'[i] = issue[i]
             \/ \E k \in r.kinds : row[k] = i /\ issue'[i] = [kind |-> k, status |-> "open"]
  OBVIOUS
<1>3. issue' \in [Issues -> [kind : {"none", "manual", "deviation"},
                             status : {"none", "open", "instruction_sent"}]]
  <2>1. issue' = [i \in Issues |-> issue'[i]]
    OBVIOUS
  <2> QED
    BY <1>1, <1>2, <2>1 DEF Shape, IsRequest
<1>4. DeviationReportedOnce'
  <2> SUFFICES ASSUME NEW i \in Issues, NEW j \in Issues, issue'[i].kind = "deviation",
                      issue'[j].kind = "deviation"
               PROVE  i = j
    BY DEF DeviationReportedOnce
  <2>1. CASE "deviation" \in r.kinds
    <3>1. \A k \in Issues : issue[k].kind # "deviation"
      BY <1>1, <2>1 DEF Pending, Reported
    <3>2. i = row["deviation"] /\ j = row["deviation"]
      BY <1>2, <3>1
    <3> QED
      BY <3>2
  <2>2. CASE "deviation" \notin r.kinds
    BY <1>2, <2>2 DEF DeviationReportedOnce
  <2> QED
    BY <2>1, <2>2
<1>5. DOMAIN req' = Slots /\ req'[s] = [Advanced(r) EXCEPT !.kinds = {}]
      /\ \A t \in Slots \ {s} : req'[t] = req[t]
  BY DEF CommitIssues, Shape
<1>6. Advanced(r).op = "partial" /\ Advanced(r).todo = Persists /\ IsRequest(Advanced(r))
  <2>1. Advanced(r) = [r EXCEPT !.todo = Tail(@)]
    BY <1>1, Todos DEF Advanced, Ahead
  <2> DEFINE q == [r EXCEPT !.todo = Tail(@)]
  <2>2. q.op = "partial" /\ q.todo = Tail(r.todo)
    BY <1>1 DEF Ahead, IsRequest, Idle
  <2>3. q.todo = Persists
    BY <1>1, <2>2, Todos DEF Ahead
  <2> HIDE DEF q
  <2> QED
    BY <1>1, <2>1, <2>2, <2>3, AdvancedShape DEF q
<1>7. req'[s].op = "partial" /\ req'[s].todo = Persists /\ IsRequest(req'[s])
  <2> DEFINE a == Advanced(r)
  <2> HIDE DEF a
  <2> QED
    BY <1>5, <1>6 DEF IsRequest, Idle, a
<1>8. status' = status /\ status \in {"issue_open", "cancelled"}
  BY <1>1 DEF CommitIssues, Halted
<1>9. Shape'
  BY <1>3, <1>5, <1>7 DEF Shape
<1>10. Halted' /\ Current' /\ Pending'
  <2>1. ~Ahead(s, Moves)' /\ ~Ahead(s, Reports)'
    BY <1>7, Todos DEF Ahead
  <2>2. ASSUME NEW t \in Slots \ {s}
        PROVE  /\ ~Ahead(t, Reports)'
               /\ ~(Ahead(t, Moves)' /\ req'[t].fresh)
    <3>1. ~Ahead(t, Reports) /\ ~(Ahead(t, Moves) /\ req[t].fresh)
      BY <1>1, <1>8 DEF Pending, Current
    <3> QED
      BY <1>5, <3>1 DEF Ahead
  <2> QED
    BY <1>8, <2>1, <2>2 DEF Halted, Current, Pending
<1>11. NoAnswerMeanwhile'
  BY <1>1, <1>5, <1>7 DEF NoAnswerMeanwhile, Ahead
<1> QED
  BY <1>4, <1>9, <1>10, <1>11

LEMMA StatusKeeps ==
  ASSUME Inv, NEW s \in Slots, CommitStatus(s)
  PROVE  Inv'
<1> USE DEF Inv
<1> PICK to \in {"in_progress", "completed", "issue_open"} :
      /\ Due(s, to) /\ VersionHolds(s) /\ CanTransition(status, to) /\ status' = to
      /\ Done(s, TRUE) /\ issue' = issue
  BY DEF CommitStatus
<1>1. \A t \in Slots : ~Ahead(t, Reports) /\ ~Ahead(t, Persists)
  BY DEF Halted, CanTransition, NextStatuses
<1>2. Ahead(s, Moves) => to = "issue_open" /\ req[s].fresh
  BY DueFacts DEF VersionHolds, Ahead
<1> QED
  BY <1>1, <1>2, CommitKeeps DEF Shape

LEMMA OtherCommitsKeep ==
  ASSUME Inv, NEW s \in Slots,
         CommitCounts(s) \/ CommitReopen(s) \/ CommitAnswer(s) \/ CommitResolve(s) \/ Cancel(s)
  PROVE  Inv'
<1> USE DEF Inv
<1> DEFINE Rows == [Issues -> [kind : {"none", "manual", "deviation"},
                               status : {"none", "open", "instruction_sent"}]]
<1>1. CASE CommitCounts(s)
  <2>1. Done(s, FALSE) /\ UNCHANGED <<status, issue>> /\ ~Ahead(s, Moves) /\ ~Ahead(s, Reports)
    BY <1>1, DueFacts DEF CommitCounts
  <2> QED
    BY <2>1, CommitKeeps DEF Halted, Shape
<1>2. CASE CommitReopen(s)
  <2>1. Done(s, FALSE) /\ status' = status /\ ~Ahead(s, Moves) /\ ~Ahead(s, Reports)
    BY <1>2, DueFacts DEF CommitReopen, Ahead
  <2>2. issue' \in Rows /\ \A i \in Issues : issue'[i].kind = issue[i].kind
    BY <1>2 DEF CommitReopen, Shape
  <2> QED
    BY <2>1, <2>2, CommitKeeps DEF Halted
<1>3. CASE CommitAnswer(s)
  <2>1. issue' \in Rows /\ (\A i \in Issues : issue'[i].kind = issue[i].kind) /\ status' = status
    BY <1>3 DEF CommitAnswer, Shape
  <2>2. req[s].op = "instruct" /\ \A t \in Slots : req[t].op # "partial"
    BY <1>3, DueFacts DEF CommitAnswer, NoAnswerMeanwhile
  <2>3. CASE Done(s, FALSE)
    BY <2>1, <2>2, <2>3, CommitKeeps DEF Ahead
  <2>4. CASE req' = [req EXCEPT ![s].todo = <<"resolve">>]
    <3>1. /\ DOMAIN req' = Slots /\ req'[s] = [req[s] EXCEPT !.todo = <<"resolve">>]
          /\ \A t \in Slots \ {s} : req'[t] = req[t]
      BY <2>4 DEF Shape
    <3>2. IsRequest(req'[s]) /\ req'[s].op = "instruct"
      BY <2>2, <3>1 DEF Shape, IsRequest, IsTodo, Idle
    <3>3. \A t \in Slots : req'[t].op # "partial"
      BY <2>2, <3>1, <3>2
    <3>4. Shape'
      BY <2>1, <3>1, <3>2 DEF Shape
    <3> QED
      BY <2>1, <3>3, <3>4
         DEF Halted, Current, Pending, NoAnswerMeanwhile, Ahead, DeviationReportedOnce
  <2> QED
    BY <1>3, <2>3, <2>4 DEF CommitAnswer
<1>4. CASE CommitResolve(s)
  <2>1. Done(s, TRUE) /\ issue' = issue /\ \A t \in Slots : req[t].op # "partial"
    BY <1>4, DueFacts DEF CommitResolve, NoAnswerMeanwhile
  <2> QED
    BY <2>1, CommitKeeps DEF Ahead, Shape
<1>5. CASE Cancel(s)
  <2>1. Done(s, TRUE) /\ issue' = issue /\ status' = "cancelled" /\ req[s].op # "partial"
    BY <1>5, IdleIsARequest DEF Cancel
  <2> QED
    BY <2>1, CommitKeeps DEF Ahead, Shape
<1> QED
  BY <1>1, <1>2, <1>3, <1>4, <1>5

LEMMA EndKeeps ==
  ASSUME Inv, NEW s \in Slots, req' = [req EXCEPT ![s] = Idle], UNCHANGED <<status, issue>>
  PROVE  Inv'
<1> USE DEF Inv
<1>1. /\ DOMAIN req' = Slots /\ req'[s] = Idle
      /\ \A t \in Slots \ {s} : req'[t] = req[t]
  BY DEF Shape
<1>2. Shape'
  BY <1>1, IdleIsARequest DEF Shape
<1>3. Reported' <=> Reported
  BY DEF Reported
<1>4. \A t \in Slots : req'[t].op # "idle" => req'[t] = req[t]
  BY <1>1, IdleIsARequest
<1> QED
  BY <1>2, <1>3, <1>4
     DEF Halted, Current, Pending, NoAnswerMeanwhile, Ahead, DeviationReportedOnce

LEMMA StepInv == Inv /\ Apart("partial", "instruct") /\ [Next]_vars => Inv'
<1> SUFFICES ASSUME Inv, Apart("partial", "instruct"), [Next]_vars PROVE Inv'
  OBVIOUS
<1>1. ASSUME UNCHANGED <<status, issue, req>> PROVE Inv'
  BY <1>1 DEF Inv, Shape, Halted, Current, Pending, NoAnswerMeanwhile, Ahead, Reported,
     DeviationReportedOnce
<1>2. ASSUME NEW s \in Slots, CountSkuLine(s) PROVE Inv'
  BY <1>1, <1>2 DEF CountSkuLine
<1>3. ASSUME NEW s \in Slots, Conflict(s) \/ Stop(s) PROVE Inv'
  BY <1>3, EndKeeps DEF Conflict, Stop
<1>4. CASE UNCHANGED vars
  BY <1>1, <1>4 DEF vars
<1> QED
  BY <1>2, <1>3, <1>4, AskKeeps, StatusKeeps, ReportsKeeps, OtherCommitsKeep DEF Next

LEMMA InitInv == Init => Inv
  BY IdleIsARequest DEF Init, Inv, Shape, Halted, Current, Pending, NoAnswerMeanwhile, Ahead,
     DeviationReportedOnce, NoIssue

(* However requests overlap and wherever they stop, a deviation is reported once,
   provided that no answer of the teamlead overlaps with a partial completion. *)
THEOREM ReportedOnce ==
  ASSUME Apart("partial", "instruct")
  PROVE  Spec => []DeviationReportedOnce
<1>1. Init => Inv
  BY InitInv
<1>2. Inv => DeviationReportedOnce
  BY DEF Inv
<1> QED
  BY <1>1, <1>2, StepInv, PTL DEF Spec

-----------------------------------------------------------------------------
(* Finished cases. *)

Closing(s) == req[s].op = "complete" /\ req[s].todo = Closes
Closed(s)  == req[s].op = "complete" /\ req[s].todo = Persists

(* What the request s will leave as the count has been reported. *)
ReportedFor(s) == Effective(req[s].body) = "deviates" => Reported

Finishing ==
  /\ \A s \in Slots : Closing(s) /\ req[s].fresh => status = "in_progress" /\ ReportedFor(s)
  /\ \A s \in Slots : Closed(s) => status = "completed" /\ ReportedFor(s)
  /\ \A s, t \in Slots : Closed(s) /\ Closed(t) => s = t
  /\ status = "completed" /\ ~torn /\ counted = "deviates" /\ (\A s \in Slots : ~Closed(s))
       => Reported

(* A step that leaves status and count alone, forgets no problem, begins no
   completion and ends none that still has its counts to store, unless it tears. *)
LEMMA FinishingStays ==
  ASSUME Finishing, UNCHANGED <<status, counted>>, Reported => Reported', torn => torn',
         \A t \in Slots : req'[t].op = "complete" =>
           /\ req[t].op = "complete" /\ req'[t].todo = req[t].todo
           /\ req'[t].body = req[t].body /\ (req'[t].fresh => req[t].fresh),
         \A t \in Slots : Closed(t) => Closed(t)' \/ torn'
  PROVE  Finishing'
<1>1. \A t \in Slots : Closed(t)' => Closed(t) /\ (ReportedFor(t) => ReportedFor(t)')
  BY DEF Closed, ReportedFor, Effective
<1>2. \A t \in Slots : Closing(t)' /\ req'[t].fresh =>
        Closing(t) /\ req[t].fresh /\ (ReportedFor(t) => ReportedFor(t)')
  BY DEF Closing, ReportedFor, Effective
<1> QED
  BY <1>1, <1>2 DEF Finishing

LEMMA ProblemsStay ==
  ASSUME Shape, NEW s \in Slots, CommitIssues(s) \/ CommitReopen(s) \/ CommitAnswer(s)
  PROVE  Reported => Reported'
<1>1. CASE CommitIssues(s)
  <2> SUFFICES ASSUME NEW i \in Issues, issue[i].kind = "deviation"
               PROVE  issue'[i].kind = "deviation"
    BY DEF Reported
  <2> PICK row \in [req[s].kinds -> {j \in Issues : issue[j] = NoIssue}] :
        issue' = [j \in Issues |->
           IF \E k \in req[s].kinds : row[k] = j
           THEN [kind |-> CHOOSE k \in req[s].kinds : row[k] = j, status |-> "open"]
           ELSE issue[j]]
    BY <1>1 DEF CommitIssues
  <2>1. issue[i] # NoIssue
    BY DEF NoIssue
  <2>2. \A k \in req[s].kinds : row[k] # i
    BY <2>1
  <2> QED
    BY <2>2
<1>2. CASE CommitReopen(s) \/ CommitAnswer(s)
  <2>1. \A i \in Issues : issue'[i].kind = issue[i].kind
    BY <1>2 DEF CommitReopen, CommitAnswer, Shape
  <2> QED
    BY <2>1 DEF Reported
<1> QED
  BY <1>1, <1>2

LEMMA AskFinishing ==
  ASSUME Shape, Finishing, NEW s \in Slots,
         StartPreparation(s) \/ Complete(s) \/ PartialComplete(s) \/ ReopenIssue(s)
         \/ SendInstruction(s)
  PROVE  Finishing'
<1> DEFINE Asks(call) == /\ req[s] = Idle /\ UNCHANGED <<status, issue, counted, torn>>
                         /\ req'[s] = call
                         /\ \A t \in Slots \ {s} : req'[t] = req[t]
<1>1. ASSUME NEW call, Begin(s, call) PROVE Asks(call)
  BY <1>1 DEF Begin, Shape
<1>2. req[s] = Idle => ~Closed(s) /\ ~Closing(s)
  BY IdleIsARequest DEF Closed, Closing
<1>3. CASE Complete(s)
  <2> DEFINE base == Call("complete", <<"completed", "counts">>, {})
  <2> PICK body : /\ CanTransition(status, "completed")
                  /\ Effective(body) = "deviates" => Reported
                  /\ Begin(s, [base EXCEPT !.body = body])
    BY <1>3 DEF Complete
  <2>1. Asks([base EXCEPT !.body = body])
    BY <1>1
  <2>2. status = "in_progress"
    BY DEF CanTransition, NextStatuses
  <2>3. req'[s].body = body /\ req'[s].op = "complete" /\ req'[s].todo = Closes
    BY <2>1 DEF Call, Idle, Closes
  <2>4. ~Closed(s)' /\ ReportedFor(s)'
    BY <2>1, <2>3, Todos DEF Closed, ReportedFor, Effective, Reported
  <2>5. \A t \in Slots \ {s} : /\ Closing(t)' <=> Closing(t)
                               /\ Closed(t)' <=> Closed(t)
                               /\ ReportedFor(t)' <=> ReportedFor(t)
    BY <2>1 DEF Closing, Closed, ReportedFor, Effective, Reported
  <2>6. ~Closed(s)
    BY <1>2, <2>1
  <2> QED
    BY <2>1, <2>2, <2>4, <2>5, <2>6 DEF Finishing, Reported
<1>4. ASSUME NEW call, Asks(call), call.op # "complete" PROVE Finishing'
  <2>1. Reported => Reported'
    BY <1>4 DEF Reported
  <2>2. \A t \in Slots : Closed(t) => Closed(t)'
    BY <1>2, <1>4 DEF Closed
  <2> QED
    BY <1>4, <2>1, <2>2, FinishingStays
<1>5. CASE StartPreparation(s)
  <2>1. Call("start", <<"in_progress">>, {}).op = "start"
    BY DEF Call, Idle
  <2> QED
    BY <1>1, <1>4, <1>5, <2>1 DEF StartPreparation
<1>6. CASE PartialComplete(s)
  <2> DEFINE base == Call("partial", <<"issue_open", "issues", "counts">>, {})
  <2> PICK body, kinds : Begin(s, [base EXCEPT !.body = body, !.kinds = kinds])
    BY <1>6 DEF PartialComplete
  <2>1. [base EXCEPT !.body = body, !.kinds = kinds].op = "partial"
    BY DEF Call, Idle
  <2> QED
    BY <1>1, <1>4, <2>1
<1>7. CASE ReopenIssue(s)
  <2> PICK todo, rows : Begin(s, Call("reopen", todo, rows))
    BY <1>7 DEF ReopenIssue
  <2>1. Call("reopen", todo, rows).op = "reopen"
    BY DEF Call, Idle
  <2> QED
    BY <1>1, <1>4, <2>1
<1>8. CASE SendInstruction(s)
  <2> PICK rows : Begin(s, Call("instruct", <<"answer">>, rows))
    BY <1>8 DEF SendInstruction
  <2>1. Call("instruct", <<"answer">>, rows).op = "instruct"
    BY DEF Call, Idle
  <2> QED
    BY <1>1, <1>4, <2>1
<1> QED
  BY <1>3, <1>5, <1>6, <1>7, <1>8

(* Every completion in flight but the one that commits is stale after a move. *)
LEMMA MoveFinishing ==
  ASSUME Shape, Finishing, NEW s \in Slots, Done(s, TRUE), UNCHANGED <<issue, counted, torn>>,
         status # "completed", status' = "completed" <=> Closing(s), Closing(s) => req[s].fresh
  PROVE  Finishing'
<1>1. /\ req'[s] = Advanced(req[s])
      /\ \A t \in Slots \ {s} : Onward(req'[t], req[t], TRUE)
  BY DoneShape
<1>2. \A t \in Slots : ~Closed(t)
  BY DEF Finishing
<1>3. \A t \in Slots \ {s} : ~(Closing(t)' /\ req'[t].fresh) /\ ~Closed(t)'
  BY <1>1, <1>2 DEF Onward, Closing, Closed
<1>4. Closed(s)' => Closing(s) /\ req'[s].body = req[s].body
  BY <1>1, AdvancedShape DEF Closed, Closing, Shape
<1>5. ~Closing(s)'
  BY <1>1, AdvancedShape, Todos DEF Closing, Shape
<1>6. Reported' <=> Reported
  BY DEF Reported
<1>7. status' = "completed" => Closed(s)' /\ ReportedFor(s)'
  <2>1. ASSUME Closing(s) PROVE Closed(s)'
    <3> DEFINE r == req[s]
    <3>1. Advanced(r) = [r EXCEPT !.todo = Tail(@)]
      BY <2>1, Todos DEF Advanced, Closing
    <3>2. [r EXCEPT !.todo = Tail(@)].op = "complete" /\ [r EXCEPT !.todo = Tail(@)].todo = Tail(r.todo)
      BY <2>1 DEF Closing, Shape, IsRequest, Idle
    <3> QED
      BY <1>1, <2>1, <3>1, <3>2, Todos DEF Closing, Closed
  <2> QED
    BY <1>4, <1>6, <2>1 DEF Finishing, ReportedFor, Effective
<1>8. Closed(s)' => status' = "completed"
  BY <1>4
<1> QED
  BY <1>3, <1>4, <1>5, <1>7, <1>8 DEF Finishing

LEMMA CommitFinishing ==
  ASSUME Inv, Finishing, NEW s \in Slots,
         CommitStatus(s) \/ CommitCounts(s) \/ CommitReopen(s) \/ CommitAnswer(s)
         \/ CommitResolve(s) \/ CommitIssues(s) \/ Cancel(s)
  PROVE  Finishing'
<1> USE DEF Inv
<1>1. CASE CommitStatus(s)
  <2> PICK to \in {"in_progress", "completed", "issue_open"} :
        /\ Due(s, to) /\ VersionHolds(s) /\ CanTransition(status, to) /\ status' = to
        /\ Done(s, TRUE) /\ UNCHANGED <<issue, counted, torn>>
    BY <1>1 DEF CommitStatus
  <2>1. status # "completed"
    BY DEF CanTransition, NextStatuses
  <2>2. to = "completed" <=> Closing(s)
    BY Todos DEF Shape, IsRequest, IsTodo, Due, Closing
  <2> QED
    BY <2>1, <2>2, MoveFinishing DEF VersionHolds
<1>2. CASE CommitResolve(s) \/ Cancel(s)
  <2>1. ~Closing(s)
    BY <1>2, DueFacts, IdleIsARequest DEF CommitResolve, Cancel, Closing
  <2>2. status # "completed" /\ status' # "completed"
    BY <1>2 DEF CommitResolve, Cancel, CanTransition, NextStatuses
  <2> QED
    BY <1>2, <2>1, <2>2, MoveFinishing DEF CommitResolve, Cancel
<1>3. CASE CommitCounts(s)
  <2>1. /\ Due(s, "counts") /\ counted' = Effective(req[s].body) /\ Done(s, FALSE)
        /\ UNCHANGED <<status, issue, torn>>
    BY <1>3 DEF CommitCounts
  <2>2. /\ req'[s] = Advanced(req[s])
        /\ \A t \in Slots \ {s} : Onward(req'[t], req[t], FALSE)
    BY <2>1, DoneShape
  <2>3. Closed(s) \/ Ahead(s, Persists)
    BY <2>1, Todos DEF Shape, IsRequest, IsTodo, Due, Closed, Ahead
  <2>4. ~Closing(s)' /\ ~Closed(s)'
    BY <2>2, <2>3, AdvancedShape, Todos DEF Closing, Closed, Ahead, Shape
  <2>5. \A t \in Slots : ~(Closing(t) /\ req[t].fresh)
    BY <2>3 DEF Finishing, Halted
  <2>6. \A t \in Slots \ {s} : ~Closed(t)
    BY <2>3 DEF Finishing, Halted
  <2>7. \A t \in Slots : ~(Closing(t)' /\ req'[t].fresh) /\ ~Closed(t)'
    BY <2>2, <2>4, <2>5, <2>6 DEF Onward, Closing, Closed
  <2>8. status' = "completed" /\ counted' = "deviates" => Reported'
    BY <2>1, <2>3 DEF Finishing, Halted, ReportedFor, Reported
  <2> QED
    BY <2>7, <2>8 DEF Finishing
<1>4. CASE CommitReopen(s) \/ CommitAnswer(s) \/ CommitIssues(s)
  <2>1. UNCHANGED <<status, counted, torn>> /\ (Reported => Reported')
    BY <1>4, ProblemsStay DEF CommitReopen, CommitAnswer, CommitIssues
  <2>2. req[s].op # "complete" /\ req'[s].op # "complete"
    <3>1. req[s].op \in {"partial", "reopen", "instruct"}
      BY <1>4, DueFacts DEF CommitReopen, CommitAnswer, CommitIssues, Ahead
    <3>2. Advanced(req[s]).op # "complete"
      BY <3>1, AdvancedShape DEF Shape
    <3>3. CASE req'[s] = Advanced(req[s])
      BY <3>1, <3>2, <3>3
    <3>4. CASE req' = [req EXCEPT ![s].todo = <<"resolve">>]
      BY <3>1, <3>4 DEF Shape, IsRequest, Idle
    <3>5. CASE CommitIssues(s)
      <4>1. req'[s] = [Advanced(req[s]) EXCEPT !.kinds = {}]
        BY <3>5 DEF CommitIssues, Shape
      <4>2. IsRequest(Advanced(req[s]))
        BY AdvancedShape DEF Shape
      <4> DEFINE a == Advanced(req[s])
      <4> HIDE DEF a
      <4>3. [a EXCEPT !.kinds = {}].op = a.op
        BY <4>2 DEF a, IsRequest, Idle
      <4> QED
        BY <3>1, <3>2, <4>1, <4>3 DEF a
    <3>6. Done(s, FALSE) => req'[s] = Advanced(req[s])
      BY DoneShape
    <3> QED
      BY <1>4, <3>1, <3>3, <3>4, <3>5, <3>6 DEF CommitReopen, CommitAnswer
  <2>3. \A t \in Slots \ {s} : req'[t] = req[t] \/ Onward(req'[t], req[t], FALSE)
    <3>1. Done(s, FALSE) => \A t \in Slots \ {s} : Onward(req'[t], req[t], FALSE)
      BY DoneShape
    <3> QED
      BY <1>4, <3>1 DEF CommitReopen, CommitAnswer, CommitIssues, Shape
  <2>4. \A t \in Slots : req'[t].op = "complete" =>
           /\ req[t].op = "complete" /\ req'[t].todo = req[t].todo
           /\ req'[t].body = req[t].body /\ (req'[t].fresh => req[t].fresh)
    BY <2>2, <2>3 DEF Onward
  <2>5. \A t \in Slots \ {s} : Closed(t) => Closed(t)'
    <3>1. Done(s, FALSE) => \A t \in Slots \ {s} :
            Closed(t) => req'[t] = [req[t] EXCEPT !.fresh = @ /\ ~FALSE]
      BY IdleIsARequest DEF Done, Closed
    <3>2. \A t \in Slots : [req[t] EXCEPT !.fresh = @ /\ ~FALSE].op = req[t].op
                           /\ [req[t] EXCEPT !.fresh = @ /\ ~FALSE].todo = req[t].todo
      BY DEF Shape, IsRequest, Idle
    <3> QED
      BY <1>4, <3>1, <3>2 DEF CommitReopen, CommitAnswer, CommitIssues, Shape, Closed
  <2> QED
    BY <2>1, <2>2, <2>4, <2>5, FinishingStays DEF Closed
<1> QED
  BY <1>1, <1>2, <1>3, <1>4

LEMMA StepFinishing ==
  Inv /\ Finishing /\ Apart("complete", "count") /\ [Next]_vars => Finishing'
<1> SUFFICES ASSUME Inv, Finishing, Apart("complete", "count"), [Next]_vars
             PROVE  Finishing'
  OBVIOUS
<1> USE DEF Inv
<1>1. ASSUME NEW s \in Slots, CountSkuLine(s) PROVE Finishing'
  <2>1. \A t \in Slots : req'[t].op # "complete"
    BY <1>1 DEF CountSkuLine, Apart
  <2>2. status' # "completed"
    BY <1>1 DEF CountSkuLine
  <2> QED
    BY <2>1, <2>2 DEF Finishing, Closing, Closed
<1>2. ASSUME NEW s \in Slots, Conflict(s) \/ Stop(s) PROVE Finishing'
  <2>1. /\ UNCHANGED <<status, issue, counted>> /\ req'[s] = Idle
        /\ \A t \in Slots \ {s} : req'[t] = req[t]
    BY <1>2 DEF Conflict, Stop, Shape
  <2>2. Stop(s) => (Halfway(req[s]) => torn')
    BY Zenon DEF Stop
  <2>3. torn => torn'
    BY <1>2, Zenon DEF Conflict, Stop
  <2>4. Reported => Reported'
    BY <2>1 DEF Reported
  <2>5. Closed(s) => torn'
    <3>1. CASE Conflict(s)
      BY <3>1, Todos DEF Conflict, Due, Closed
    <3>2. CASE Stop(s)
      <4>1. ASSUME Closed(s) PROVE Halfway(req[s])
        <5>1. Len(req[s].todo) = 1
          BY <4>1, Todos DEF Closed
        <5> QED
          BY <4>1, <5>1 DEF Halfway, Closed
      <4> QED
        BY <2>2, <3>2, <4>1
    <3> QED
      BY <1>2, <3>1, <3>2
  <2>6. \A t \in Slots \ {s} : Closed(t) => Closed(t)'
    BY <2>1 DEF Closed
  <2> QED
    BY <2>1, <2>4, <2>5, <2>6, <2>3, IdleIsARequest, FinishingStays
<1>3. CASE UNCHANGED vars
  <2>1. UNCHANGED <<status, issue, counted, req, torn>>
    BY <1>3 DEF vars
  <2>2. \A t \in Slots : Closed(t) => Closed(t)'
    BY <2>1 DEF Closed
  <2> QED
    BY <2>1, <2>2, FinishingStays DEF Reported
<1> QED
  BY <1>1, <1>2, <1>3, AskFinishing, CommitFinishing DEF Next

(* No case is finished with a count that deviates and that nobody ever reported,
   provided that answers keep apart from partial completions and counts from
   completions. *)
THEOREM NothingFinishedUnreported ==
  ASSUME Apart("partial", "instruct"), Apart("complete", "count")
  PROVE  Spec => []FinishedMeansReported
<1>1. Init => Inv
  BY InitInv
<1>2. Init => Finishing
  BY IdleIsARequest DEF Init, Finishing, Closing, Closed
<1>3. Finishing => FinishedMeansReported
  BY IdleIsARequest DEF Finishing, FinishedMeansReported, Quiet, Closed
<1> QED
  BY <1>1, <1>2, <1>3, StepInv, StepFinishing, PTL DEF Spec

=============================================================================
