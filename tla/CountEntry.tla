----------------------------- MODULE CountEntry -----------------------------
(***************************************************************************)
(* The counting screen of the employee app on one size line, with the      *)
(* server behind it and a colleague who works on the same shared case.     *)
(*                                                                         *)
(* An input patches the cached case at once, is remembered as the          *)
(* employee's own, and is collected in a timer; when the timer runs out,   *)
(* a POST carries exactly the collected fields.  Several POSTs may be in   *)
(* flight and be handled in any order.  Every answer and every live event  *)
(* lets the case be read again.  Handing the case in first sends what the  *)
(* timer still holds, then the own inputs of the session as the body.      *)
(*                                                                         *)
(* The server handles a count by reading the line and, in a transaction of *)
(* its own, writing both fields of it.  It handles a hand-in by reading    *)
(* the line, deciding on what it read, moving the case in a transaction    *)
(* and storing the body in another; a count raises no version, so it may   *)
(* commit between the reading and the moving.                              *)
(***************************************************************************)
EXTENDS Integers, FiniteSets, Functions

CONSTANTS
  Values,        \* counts and prices that deviate from what was expected
  MaxInputs,     \* bound: inputs of the employee
  MaxColleague,  \* bound: counts of the colleague
  Expected       \* nothing entered, or entered and taken back

ASSUME ExpectedIsNoDeviation == Expected \notin Values

Fields == {"quantity", "price"}
Lines == [Fields -> Values \cup {Expected}]
Patches == UNION {[F -> Values \cup {Expected}] : F \in SUBSET Fields}
Empty == << >>
Untouched == [f \in Fields |-> Expected]

VARIABLES
  line,      \* server: confirmedQuantity and correctedVkPrice
  phase,     \* server: "open" (in_progress), "moved" (values not persisted yet), "closed"
  result,    \* server: effective, the values the accepted hand-in was read with
  cache,     \* app: the line as the screen shows it
  own,       \* app: ownInputs, the last input of each field
  timer,     \* app: the patch waiting in countTimers
  fetch,     \* app: the running read of the case
  event,     \* a live event is on its way
  hand,      \* app: the hand-in under way
  posts,     \* count requests
  inputs, counts,   \* numbers of inputs and of the colleague's counts
  hurried    \* a count was sent, or the case handed in, before the last count
             \* was answered, or a count has failed

server == <<line, phase, result>>
app == <<cache, own, timer, fetch, hand>>
bounds == <<inputs, counts>>
vars == <<server, app, event, posts, bounds, hurried>>

NoFetch == [stage |-> "none", seen |-> Untouched]
Asked == [stage |-> "asked", seen |-> Untouched]
NoHand == [stage |-> "none", kind |-> "none", aggregate |-> Untouched, waits |-> 0, body |-> Empty]

Mine == {p \in posts : p.from = "me"}

TypeOK ==
  /\ line \in Lines /\ result \in Lines /\ cache \in Lines
  /\ own \in Patches /\ timer \in Patches
  /\ phase \in {"open", "moved", "closed"}
  /\ \A p \in posts : p.patch \in Patches /\ p.seen \in Lines
  /\ hand.body \in Patches
  /\ Cardinality(Mine) <= inputs

-----------------------------------------------------------------------------
(* Patches of a line. *)

Only(f, v) == [x \in {f} |-> v]

Over(base, patch) == [f \in DOMAIN base \cup DOMAIN patch |->
                        IF f \in DOMAIN patch THEN patch[f] ELSE base[f]]

Deviates(l) == \E f \in Fields : l[f] # Expected

\* Faulty: with the values the screen shows now.
FaultyBody(aggregate) == IF own # Empty /\ Deviates(cache) THEN cache ELSE Empty

(* skuQuantitiesBody: the line is sent if the own inputs, over the case as the
   screen has it, deviate; the quantity always, the price if there is one. *)
Body(aggregate) ==
  LET merged == Over(aggregate, own)
  IN  IF own = Empty \/ ~Deviates(merged) THEN Empty
      ELSE IF merged["price"] = Expected THEN Restrict(merged, {"quantity"})
      ELSE merged

-----------------------------------------------------------------------------
(* Input. *)

(* applyCountPatch; a running read is cancelled. *)
Enter(f, v) ==
  /\ hand.stage \in {"none", "flush"}
  /\ inputs < MaxInputs
  /\ inputs' = inputs + 1
  /\ fetch' = NoFetch
  /\ cache' = [cache EXCEPT ![f] = v]
  /\ own' = Over(own, Only(f, v))
  /\ timer' = Over(timer, Only(f, v))
  /\ UNCHANGED <<server, hand, event, posts, counts, hurried>>

\* Faulty: null counts as left out.
FaultyPost(from, patch) ==
  [id |-> inputs, from |-> from, stage |-> "sent", seen |-> Untouched, previous |-> cache,
   patch |-> Restrict(patch, {f \in DOMAIN patch : patch[f] # Expected})]

Post(from, patch) ==
  [id |-> inputs, from |-> from, patch |-> patch, stage |-> "sent", seen |-> Untouched,
   previous |-> cache]

(* flushCount and onMutate of useCountSku. *)
Send ==
  /\ posts' = posts \cup {Post("me", timer)}
  /\ timer' = Empty
  /\ fetch' = NoFetch
  /\ cache' = Over(cache, timer)
  /\ hurried' = (hurried \/ Mine # {})

TimerRunsOut ==
  /\ timer # Empty
  /\ Send
  /\ UNCHANGED <<server, own, hand, event, bounds>>

(* complete, partialComplete: flushAllCounts sends what the timer holds and
   waits for that; a request the timer sent earlier is not waited for. *)
Tap(kind) ==
  /\ hand = NoHand
  /\ hand' = [stage |-> "flush", kind |-> kind, aggregate |-> cache, body |-> Empty,
              waits |-> IF timer = Empty THEN 0 ELSE inputs]
  /\ IF timer = Empty
     THEN /\ hurried' = (hurried \/ Mine # {})
          /\ UNCHANGED <<posts, timer, fetch, cache>>
     ELSE Send
  /\ UNCHANGED <<server, own, event, bounds>>

(* The flushed count is answered: the body is built and sent. *)
SendHandIn ==
  /\ hand.stage = "flush"
  /\ \A p \in Mine : p.id # hand.waits
  /\ hand' = [hand EXCEPT !.stage = "sent", !.body = Body(hand.aggregate),
                        !.aggregate = Untouched, !.waits = 0]
  /\ hurried' = (hurried \/ Mine # {} \/ timer # Empty)
  /\ UNCHANGED <<server, cache, own, timer, fetch, event, posts, bounds>>

-----------------------------------------------------------------------------
(* The server. *)

(* The colleague's count of one field. *)
ColleagueCounts(f, v) ==
  /\ counts < MaxColleague
  /\ counts' = counts + 1
  /\ posts' = posts \cup {[Post("colleague", Only(f, v)) EXCEPT !.id = 0, !.previous = Untouched]}
  /\ UNCHANGED <<server, app, event, inputs, hurried>>

(* A count that waits for nothing but its answer. *)
Replied(p, stage) == [p EXCEPT !.stage = stage, !.seen = Untouched, !.patch = Empty]

Step(p, q) == posts' = (posts \ {p}) \cup {q}

(* countSkuLine: reads status and line ... *)
ReadLine(p) ==
  /\ p.stage = "sent"
  /\ IF phase = "open" THEN Step(p, [p EXCEPT !.stage = "read", !.seen = line])
     ELSE IF p.from = "me" THEN Step(p, Replied(p, "refused"))
     ELSE posts' = posts \ {p}
  /\ UNCHANGED <<server, app, event, bounds, hurried>>

\* Faulty: does not look at the status again.
FaultyWriteLine(p) ==
  /\ p.stage = "read"
  /\ line' = Over(p.seen, p.patch)
  /\ event' = TRUE
  /\ IF p.from = "me" THEN Step(p, Replied(p, "done")) ELSE posts' = posts \ {p}
  /\ UNCHANGED <<phase, result, app, bounds, hurried>>

(* ... and writes both fields if the case is still in work, under its lock. *)
WriteLine(p) ==
  /\ p.stage = "read"
  /\ IF phase = "open"
     THEN /\ line' = Over(p.seen, p.patch)
          /\ event' = TRUE
          /\ IF p.from = "me" THEN Step(p, Replied(p, "done")) ELSE posts' = posts \ {p}
     ELSE /\ IF p.from = "me" THEN Step(p, Replied(p, "refused")) ELSE posts' = posts \ {p}
          /\ UNCHANGED <<line, event>>
  /\ UNCHANGED <<phase, result, app, bounds, hurried>>

(* complete with a deviation is refused; partialComplete carries a problem. *)
Accepts(kind, effective) == kind = "partial" \/ ~Deviates(effective)

(* resolveEffectiveSkuStates *)
Effective == Over(line, hand.body)

(* complete, partialComplete: the counts are read outside any transaction, and the
   hand-in is decided on them ... *)
ReadStates ==
  /\ hand.stage = "sent"
  /\ IF Accepts(hand.kind, Effective)
     THEN hand' = [hand EXCEPT !.stage = "accepted"] /\ result' = Effective
     ELSE hand' = [hand EXCEPT !.stage = "refused"] /\ UNCHANGED result
  /\ UNCHANGED <<line, phase, cache, own, timer, fetch, event, posts, bounds, hurried>>

(* ... and the transition asks for the version only, which no count raises. *)
MoveCase ==
  /\ hand.stage = "accepted"
  /\ phase = "open"
  /\ phase' = "moved"
  /\ UNCHANGED <<line, result, app, event, posts, bounds, hurried>>

(* persistSkuConfirmations, after the transition. *)
PersistBody ==
  /\ phase = "moved"
  /\ phase' = "closed"
  /\ line' = Over(line, hand.body)
  /\ event' = TRUE
  /\ UNCHANGED <<result, app, posts, bounds, hurried>>

-----------------------------------------------------------------------------
(* Answers, reads and live events at the app. *)

\* Faulty: a failed count rolls the screen back and leaves it at that.
FaultyAnswered(p) == IF p.stage = "refused" THEN fetch ELSE Asked

(* onSettled: the case is read (again). *)
Answered(p) == Asked

(* The answer of a count, onError puts the whole case back. *)
AnswerCount(p) ==
  /\ p.stage \in {"done", "refused"}
  /\ posts' = posts \ {p}
  /\ cache' = IF p.stage = "refused" THEN p.previous ELSE cache
  /\ fetch' = Answered(p)
  /\ hurried' = (hurried \/ p.stage = "refused")
  /\ UNCHANGED <<server, own, timer, hand, event, bounds>>

(* The network gives up: the app takes it for a failure, the server may go on
   with the request or never get it. *)
FailCount(p) ==
  /\ p.from = "me"
  /\ \/ p.stage = "sent" /\ posts' = posts \ {p}
     \/ p.stage = "done" /\ posts' = posts \ {p}
     \/ p.stage \in {"sent", "read"} /\ Step(p, [p EXCEPT !.from = "nobody", !.previous = Untouched])
  /\ cache' = p.previous
  /\ fetch' = Answered([p EXCEPT !.stage = "refused"])
  /\ hurried' = TRUE
  /\ UNCHANGED <<server, own, timer, hand, event, bounds>>

(* The hand-in is answered, or refused (runMilestone); another may follow. *)
AnswerHandIn ==
  /\ \/ hand.stage = "accepted" /\ phase = "closed" /\ hand' = [hand EXCEPT !.stage = "over"]
     \/ hand.stage = "refused" /\ hand' = NoHand
  /\ fetch' = Asked
  /\ UNCHANGED <<server, cache, own, timer, event, posts, bounds, hurried>>

ReadCase ==
  /\ fetch.stage = "asked"
  /\ fetch' = [stage |-> "read", seen |-> line]
  /\ UNCHANGED <<server, cache, own, timer, hand, event, posts, bounds, hurried>>

ShowCase ==
  /\ fetch.stage = "read"
  /\ cache' = fetch.seen
  /\ fetch' = NoFetch
  /\ UNCHANGED <<server, own, timer, hand, event, posts, bounds, hurried>>

(* applyLiveEvent: sku.counted, case.status; restarts a running read. *)
LiveEvent ==
  /\ event
  /\ event' = FALSE
  /\ fetch' = Asked
  /\ UNCHANGED <<server, cache, own, timer, hand, posts, bounds, hurried>>

Init ==
  /\ line = Untouched /\ result = Untouched
  /\ phase = "open"
  /\ cache = Untouched
  /\ own = Empty /\ timer = Empty
  /\ fetch = NoFetch
  /\ event = FALSE
  /\ hand = NoHand
  /\ posts = {}
  /\ inputs = 0 /\ counts = 0
  /\ hurried = FALSE

Next ==
  \/ \E f \in Fields, v \in Values \cup {Expected} : Enter(f, v)
  \/ \E f \in Fields, v \in Values : ColleagueCounts(f, v)
  \/ TimerRunsOut
  \/ \E kind \in {"complete", "partial"} : Tap(kind)
  \/ SendHandIn
  \/ \E p \in posts : ReadLine(p) \/ WriteLine(p) \/ AnswerCount(p) \/ FailCount(p)
  \/ ReadStates \/ MoveCase \/ PersistBody \/ AnswerHandIn
  \/ ReadCase \/ ShowCase \/ LiveEvent

Spec == Init /\ [][Next]_vars

-----------------------------------------------------------------------------
(* Properties. *)

(* "NUR Groessenzeilen, die ICH angefasst habe, mit MEINEN zuletzt eingegebenen
   Werten - nicht mit dem, was der Cache gerade zeigt": a deviation the employee
   entered is part of what he hands in, whatever order his counts were handled
   in, whether they failed, and whatever was read or rolled back in between. *)
DeviationsAreHandedIn ==
  [][phase = "open" /\ phase' = "moved" =>
       \A f \in DOMAIN own : own[f] # Expected => result'[f] = own[f]]_vars

(* complete "sonst lehnt der Server mit einer Abweichung ab, die der Bildschirm
   gar nicht mehr zeigt": an input that was taken back is taken back at the server
   when the case is handed in, as long as every count was answered before the
   next went out and nobody else counts the line. *)
ResetsAreHandedIn ==
  phase # "open" /\ ~hurried /\ counts = 0 =>
    \A f \in DOMAIN own : own[f] = Expected => result[f] = Expected

(* lockCaseInProgressTx: a count that comes after the transition must end "hier als
   409 [...], statt auf einem fertigen Beleg zu landen".  The body is stored
   after the transition, over whatever was counted between; so a deviation the
   employee entered is stored in the end, although counts write both fields of the
   line they read, his own and a colleague's, in any order and at any time. *)
OwnDeviationsAreStored ==
  phase = "closed" => \A f \in DOMAIN own : own[f] # Expected => line[f] = own[f]

(* useCountSku: "onSettled holt die Server-Wahrheit nach".  When nothing is in
   flight any more, the screen shows the line as it is stored, whichever of the
   optimistic patches, rollbacks and cancelled reads crossed. *)
Quiet ==
  /\ timer = Empty /\ fetch = NoFetch /\ ~event
  /\ posts = {} /\ hand.stage \in {"none", "over"} /\ phase # "moved"

ScreenTellsTheTruth == Quiet => cache = line

-----------------------------------------------------------------------------
(* What the code or its comments claim and a configuration each refutes. *)

(* countSkuLine: "Teil-Update: Feld nicht im Body => persistierten Stand
   (anderer Beteiligter) unangetastet lassen". *)
CountIsAPartialUpdate ==
  [][\A p \in posts : p.stage = "read" /\ p \notin posts' /\ line' # line
       => \A f \in Fields \ DOMAIN p.patch : line'[f] = line[f]]_vars

(* What the hand-in was decided on, and booked with, is what is stored: a colleague's
   count between resolveEffectiveSkuStates and the transition is stored too. *)
StoredAsHandedIn == phase = "closed" => line = result

(* complete: a deviation "erzwingt den Teilabschluss - 'Beleg erledigt' (voll) ist dann
   nicht erlaubt". *)
NoDeviationIsCompleted ==
  phase = "closed" /\ hand.kind = "complete" => ~Deviates(line)
=============================================================================
