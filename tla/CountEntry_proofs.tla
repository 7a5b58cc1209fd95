-------------------------- MODULE CountEntry_proofs -------------------------
(***************************************************************************)
(* A deviation entered on the counting screen is handed in and is stored,  *)
(* and the screen ends up with what is stored, for all values, however     *)
(* many inputs, and a colleague counting the same line.  The argument:     *)
(* from the moment the hand-in is sent nothing can be entered, so its body *)
(* keeps the employee's own deviations; the body goes over whatever was    *)
(* counted before, and after the transition no count is written.           *)
(***************************************************************************)
EXTENDS CountEntry, TLAPS

USE ExpectedIsNoDeviation

(* The hand-in and the counts are records of their fields. *)
IsHand(h) == DOMAIN h = {"stage", "kind", "aggregate", "waits", "body"}
IsPost(p) ==
  /\ DOMAIN p = {"id", "from", "patch", "stage", "seen", "previous"}
  /\ DOMAIN p.seen = Fields /\ DOMAIN p.patch \subseteq Fields /\ DOMAIN p.previous = Fields

(* Which fields there are. *)
Shape ==
  /\ DOMAIN own \subseteq Fields
  /\ DOMAIN line = Fields
  /\ IsHand(hand)
  /\ \A p \in posts : IsPost(p)
  /\ DOMAIN hand.body \subseteq Fields
  /\ DOMAIN timer \subseteq Fields
  /\ DOMAIN cache = Fields /\ DOMAIN fetch.seen = Fields
  /\ hand.stage = "flush" => DOMAIN hand.aggregate = Fields
  /\ inputs \in Nat /\ counts \in Nat

(* The case is closed by its hand-in, which was accepted with its body in it. *)
Closing ==
  /\ phase \in {"open", "moved", "closed"}
  /\ phase = "moved" => hand.stage = "accepted"
  /\ phase = "closed" =>
       /\ hand.stage \in {"accepted", "over"}
       /\ \A f \in DOMAIN hand.body : line[f] = hand.body[f]
  /\ hand.stage = "accepted" => \A f \in DOMAIN hand.body : result[f] = hand.body[f]

(* A body that is on its way, accepted or stored carries the employee's own deviations,
   and his value for every field it has. *)
Carried ==
  hand.stage \in {"sent", "accepted", "over"} =>
    \A f \in DOMAIN own :
      /\ own[f] # Expected => f \in DOMAIN hand.body
      /\ f \in DOMAIN hand.body => hand.body[f] = own[f]

IInv == Shape /\ Closing /\ Carried

LEMMA EmptyPatch == DOMAIN Empty = {}
  BY DEF Empty

LEMMA OverDomain ==
  ASSUME NEW base, NEW patch
  PROVE  /\ DOMAIN Over(base, patch) = DOMAIN base \cup DOMAIN patch
         /\ \A f \in DOMAIN patch : Over(base, patch)[f] = patch[f]
         /\ \A f \in DOMAIN base \ DOMAIN patch : Over(base, patch)[f] = base[f]
  BY DEF Over

LEMMA OverFields ==
  ASSUME NEW base, NEW patch, DOMAIN patch \subseteq Fields
  PROVE  /\ DOMAIN base = Fields => DOMAIN Over(base, patch) = Fields
         /\ DOMAIN base \subseteq Fields => DOMAIN Over(base, patch) \subseteq Fields
  BY OverDomain

LEMMA OnlyDomain ==
  ASSUME NEW f, NEW v
  PROVE  DOMAIN Only(f, v) = {f} /\ Only(f, v)[f] = v
  BY DEF Only

LEMMA BodyOfOwn ==
  ASSUME NEW aggregate, DOMAIN aggregate = Fields, DOMAIN own \subseteq Fields
  PROVE  /\ DOMAIN Body(aggregate) \subseteq Fields
         /\ \A f \in DOMAIN own :
              /\ own[f] # Expected => f \in DOMAIN Body(aggregate)
              /\ f \in DOMAIN Body(aggregate) => Body(aggregate)[f] = own[f]
<1> DEFINE merged == Over(aggregate, own)
<1>1. DOMAIN merged = Fields /\ \A f \in DOMAIN own : merged[f] = own[f]
  BY OverDomain
<1>2. CASE own = Empty
  BY <1>2, EmptyPatch DEF Body
<1>3. CASE own # Empty /\ ~Deviates(merged)
  BY <1>1, <1>3, EmptyPatch DEF Body, Deviates
<1>4. CASE own # Empty /\ Deviates(merged) /\ merged["price"] # Expected
  BY <1>1, <1>4 DEF Body
<1>5. CASE own # Empty /\ Deviates(merged) /\ merged["price"] = Expected
  <2>1. Body(aggregate) = [f \in {"quantity"} |-> merged[f]]
    BY <1>5 DEF Body, Restrict
  <2> QED
    BY <1>1, <1>5, <2>1 DEF Fields
<1> QED
  BY <1>2, <1>3, <1>4, <1>5

LEMMA InitInv == Init => IInv
  BY DEF Init, IInv, Shape, Closing, Carried, Untouched, Empty, NoHand, NoFetch, IsHand

-----------------------------------------------------------------------------
(* Shape *)

LEMMA PostShape ==
  ASSUME NEW from, NEW patch, DOMAIN patch \subseteq Fields, DOMAIN cache = Fields
  PROVE  IsPost(Post(from, patch))
  BY DEF IsPost, Post, Untouched

LEMMA RepliedShape ==
  ASSUME NEW p, IsPost(p), NEW stage
  PROVE  IsPost(Replied(p, stage))
  BY EmptyPatch DEF IsPost, Replied, Untouched

LEMMA SendShape ==
  ASSUME Shape, Send
  PROVE  /\ DOMAIN timer' \subseteq Fields /\ DOMAIN cache' = Fields /\ DOMAIN fetch'.seen = Fields
         /\ \A p \in posts' : IsPost(p)
<1>1. DOMAIN timer' \subseteq Fields /\ DOMAIN cache' = Fields /\ DOMAIN fetch'.seen = Fields
  BY OverFields, EmptyPatch DEF Shape, Send, NoFetch, Untouched
<1>2. IsPost(Post("me", timer))
  BY PostShape DEF Shape
<1> QED
  BY <1>1, <1>2 DEF Shape, Send

LEMMA StepShape == Shape /\ [Next]_vars => Shape'
<1> SUFFICES ASSUME Shape, [Next]_vars PROVE Shape'
  OBVIOUS
<1> USE OverFields, OnlyDomain, EmptyPatch DEF Shape
<1>0. DOMAIN Untouched = Fields
  BY DEF Untouched
<1>1. ASSUME NEW f \in Fields, NEW v, Enter(f, v) PROVE Shape'
  <2>1. DOMAIN own' \subseteq Fields /\ DOMAIN timer' \subseteq Fields
    <3> DEFINE patch == Only(f, v)
    <3>1. DOMAIN patch \subseteq Fields
      BY DEF Only
    <3>2. own' = Over(own, patch) /\ timer' = Over(timer, patch)
      BY <1>1 DEF Enter
    <3> QED
      BY <3>1, <3>2, OverFields
  <2> QED
    BY <1>0, <1>1, <2>1 DEF Enter, NoFetch, server
<1>2. ASSUME NEW f \in Fields, NEW v, ColleagueCounts(f, v) PROVE Shape'
  <2> DEFINE q == Post("colleague", Only(f, v))
  <2>1. IsPost(q)
    BY PostShape DEF Only
  <2> HIDE DEF q
  <2>2. IsPost([q EXCEPT !.id = 0, !.previous = Untouched])
    BY <1>0, <2>1 DEF IsPost
  <2> QED
    BY <1>2, <2>2 DEF ColleagueCounts, server, app, q
<1>3. CASE TimerRunsOut
  BY <1>3, SendShape DEF TimerRunsOut, server, bounds
<1>4. ASSUME NEW kind, Tap(kind) PROVE Shape'
  <2>1. CASE timer = Empty
    BY <1>4, <2>1 DEF Tap, server, bounds, IsHand
  <2>2. CASE timer # Empty
    BY <1>4, <2>2, SendShape DEF Tap, server, bounds, IsHand
  <2> QED
    BY <2>1, <2>2
<1>5. CASE SendHandIn
  BY <1>5, BodyOfOwn DEF SendHandIn, server, bounds, IsHand
<1>6. ASSUME NEW p \in posts, ReadLine(p) PROVE Shape'
  <2> DEFINE r == [p EXCEPT !.stage = "read", !.seen = line]
  <2>1. posts' \subseteq posts \cup {r, Replied(p, "refused")}
    BY <1>6 DEF ReadLine, Step
  <2>2. IsPost(r)
    BY DEF IsPost
  <2> HIDE DEF r
  <2>3. \A q \in posts' : IsPost(q)
    BY <2>1, <2>2, RepliedShape
  <2> QED
    BY <1>6, <2>3 DEF ReadLine, server, app, bounds
<1>7. ASSUME NEW p \in posts, WriteLine(p) PROVE Shape'
  <2>1. posts' \subseteq posts \cup {Replied(p, "done"), Replied(p, "refused")}
    BY <1>7 DEF WriteLine, Step
  <2>2. \A q \in posts' : IsPost(q)
    BY <2>1, RepliedShape
  <2>3. DOMAIN line' = Fields
    BY <1>7 DEF WriteLine, IsPost
  <2> QED
    BY <1>7, <2>2, <2>3 DEF WriteLine, app, bounds
<1>8. ASSUME NEW p \in posts, AnswerCount(p) PROVE Shape'
  BY <1>0, <1>8 DEF AnswerCount, Answered, Asked, server, bounds, IsPost
<1>9. ASSUME NEW p \in posts, FailCount(p) PROVE Shape'
  <2> DEFINE r == [p EXCEPT !.from = "nobody", !.previous = Untouched]
  <2>1. posts' \subseteq posts \cup {r}
    BY <1>9 DEF FailCount, Step
  <2>2. IsPost(r)
    BY <1>0 DEF IsPost
  <2> HIDE DEF r
  <2>3. \A q \in posts' : IsPost(q)
    BY <2>1, <2>2
  <2> QED
    BY <1>0, <1>9, <2>3 DEF FailCount, Answered, Asked, server, bounds, IsPost
<1>10. CASE ReadStates \/ MoveCase
  BY <1>10 DEF ReadStates, MoveCase, app, bounds, IsHand
<1>11. CASE PersistBody
  BY <1>11 DEF PersistBody, app, bounds
<1>12. CASE AnswerHandIn
  BY <1>0, <1>12 DEF AnswerHandIn, Asked, NoHand, server, bounds, IsHand
<1>13. CASE ReadCase \/ ShowCase \/ LiveEvent
  BY <1>0, <1>13 DEF ReadCase, ShowCase, LiveEvent, NoFetch, Asked, server, bounds
<1>14. CASE UNCHANGED vars
  BY <1>14 DEF vars, server, app, bounds
<1> QED
  BY <1>1, <1>2, <1>3, <1>4, <1>5, <1>6, <1>7, <1>8, <1>9, <1>10, <1>11, <1>12, <1>13, <1>14
     DEF Next

-----------------------------------------------------------------------------
(* Closing *)

LEMMA StepClosing == Shape /\ Closing /\ [Next]_vars => Closing'
<1> SUFFICES ASSUME Shape, Closing, [Next]_vars PROVE Closing'
  OBVIOUS
<1> USE DEF Closing
<1>1. CASE UNCHANGED <<line, phase, result, hand>>
  BY <1>1
<1>2. ASSUME NEW f \in Fields, NEW v, Enter(f, v) \/ ColleagueCounts(f, v) PROVE Closing'
  BY <1>1, <1>2 DEF Enter, ColleagueCounts, server, app
<1>3. CASE TimerRunsOut
  BY <1>1, <1>3 DEF TimerRunsOut, server
<1>4. ASSUME NEW kind, Tap(kind) PROVE Closing'
  BY <1>4 DEF Tap, NoHand, server
<1>5. CASE SendHandIn
  BY <1>5 DEF SendHandIn, server
<1>6. ASSUME NEW p \in posts, ReadLine(p) \/ WriteLine(p) \/ AnswerCount(p) \/ FailCount(p)
      PROVE Closing'
  <2>1. CASE WriteLine(p) /\ phase = "open"
    BY <2>1 DEF WriteLine, app
  <2>2. CASE WriteLine(p) /\ phase # "open"
    BY <1>1, <2>2 DEF WriteLine, app
  <2>3. CASE ReadLine(p) \/ AnswerCount(p) \/ FailCount(p)
    BY <1>1, <2>3 DEF ReadLine, AnswerCount, FailCount, server, app
  <2> QED
    BY <1>6, <2>1, <2>2, <2>3
<1>7. CASE ReadStates
  <2>1. UNCHANGED <<line, phase>> /\ phase = "open" /\ hand'.body = hand.body
    BY <1>7 DEF ReadStates, Shape, IsHand
  <2>2. CASE Accepts(hand.kind, Effective)
    <3>1. hand'.stage = "accepted" /\ result' = Over(line, hand.body)
      BY <1>7, <2>2 DEF ReadStates, Effective, Shape, IsHand
    <3>2. \A f \in DOMAIN hand.body : result'[f] = hand.body[f]
      BY <3>1 DEF Over
    <3> QED
      BY <2>1, <3>1, <3>2
  <2>3. CASE ~Accepts(hand.kind, Effective)
    <3>1. hand'.stage = "refused"
      BY <1>7, <2>3 DEF ReadStates, Shape, IsHand
    <3> QED
      BY <2>1, <3>1
  <2> QED
    BY <2>2, <2>3
<1>8. CASE MoveCase \/ PersistBody
  <2>1. CASE MoveCase
    BY <2>1 DEF MoveCase, app
  <2>2. CASE PersistBody
    <3>1. line' = Over(line, hand.body) /\ phase' = "closed" /\ UNCHANGED <<result, hand>>
      BY <2>2 DEF PersistBody, app
    <3>2. \A f \in DOMAIN hand.body : line'[f] = hand.body[f]
      BY <3>1 DEF Over
    <3> QED
      BY <2>2, <3>1, <3>2 DEF PersistBody
  <2> QED
    BY <1>8, <2>1, <2>2
<1>9. CASE AnswerHandIn
  BY <1>9 DEF AnswerHandIn, NoHand, server, Shape, IsHand
<1>10. CASE ReadCase \/ ShowCase \/ LiveEvent \/ UNCHANGED vars
  BY <1>1, <1>10 DEF ReadCase, ShowCase, LiveEvent, vars, server, app
<1> QED
  BY <1>2, <1>3, <1>4, <1>5, <1>6, <1>7, <1>8, <1>9, <1>10 DEF Next

-----------------------------------------------------------------------------
(* Carried: from the sending of the hand-in on nothing can be entered. *)

LEMMA StepCarried == Shape /\ Closing /\ Carried /\ [Next]_vars => Carried'
<1> SUFFICES ASSUME Shape, Closing, Carried, [Next]_vars PROVE Carried'
  OBVIOUS
<1> USE DEF Carried
<1>1. CASE UNCHANGED <<own, hand>>
  BY <1>1
<1>2. ASSUME NEW f \in Fields, NEW v, Enter(f, v) PROVE Carried'
  BY <1>2 DEF Enter
<1>3. ASSUME NEW f \in Fields, NEW v, ColleagueCounts(f, v) PROVE Carried'
  BY <1>1, <1>3 DEF ColleagueCounts, server, app
<1>4. CASE TimerRunsOut
  BY <1>1, <1>4 DEF TimerRunsOut, server
<1>5. ASSUME NEW kind, Tap(kind) PROVE Carried'
  BY <1>5 DEF Tap
<1>6. CASE SendHandIn
  <2>1. hand'.stage = "sent" /\ hand'.body = Body(hand.aggregate) /\ own' = own
    BY <1>6 DEF SendHandIn, Shape, IsHand
  <2>2. DOMAIN hand.aggregate = Fields
    BY <1>6 DEF SendHandIn, Shape
  <2> QED
    BY <2>1, <2>2, BodyOfOwn DEF Shape
<1>7. ASSUME NEW p \in posts, ReadLine(p) \/ WriteLine(p) \/ AnswerCount(p) \/ FailCount(p)
      PROVE Carried'
  BY <1>1, <1>7 DEF ReadLine, WriteLine, AnswerCount, FailCount, server, app
<1>8. CASE ReadStates \/ MoveCase \/ PersistBody
  BY <1>1, <1>8 DEF ReadStates, MoveCase, PersistBody, app, Shape, IsHand
<1>9. CASE AnswerHandIn
  BY <1>9 DEF AnswerHandIn, NoHand, server, Shape, IsHand
<1>10. CASE ReadCase \/ ShowCase \/ LiveEvent \/ UNCHANGED vars
  BY <1>1, <1>10 DEF ReadCase, ShowCase, LiveEvent, vars, server, app
<1> QED
  BY <1>2, <1>3, <1>4, <1>5, <1>6, <1>7, <1>8, <1>9, <1>10 DEF Next

-----------------------------------------------------------------------------
(* The results. *)

LEMMA Inductive == Spec => []IInv
<1>1. IInv /\ [Next]_vars => IInv'
  BY StepShape, StepClosing, StepCarried DEF IInv
<1> QED
  BY InitInv, <1>1, PTL DEF Spec

(* A deviation the employee entered is stored when the case is closed, although the
   body is stored after the transition and counts write whole lines. *)
THEOREM OwnDeviationsAreKept == Spec => []OwnDeviationsAreStored
<1>1. IInv => OwnDeviationsAreStored
  BY DEF IInv, Closing, Carried, OwnDeviationsAreStored
<1> QED
  BY <1>1, Inductive, PTL

(* A deviation the employee entered is handed in, in whatever order the counts
   were handled and whatever the screen showed in between. *)
THEOREM OwnDeviationsAreHandedIn == Spec => DeviationsAreHandedIn
<1> DEFINE A == phase = "open" /\ phase' = "moved" =>
                  \A f \in DOMAIN own : own[f] # Expected => result'[f] = own[f]
<1>1. IInv /\ [Next]_vars => [A]_vars
  <2> SUFFICES ASSUME IInv, Next, phase = "open", phase' = "moved",
                      NEW f \in DOMAIN own, own[f] # Expected
               PROVE  result'[f] = own[f]
    BY DEF vars, server
  <2>1. MoveCase
    BY DEF Next, Enter, ColleagueCounts, TimerRunsOut, Tap, SendHandIn, ReadLine, WriteLine,
           AnswerCount, FailCount, ReadStates, PersistBody, AnswerHandIn, ReadCase, ShowCase, LiveEvent,
           server, app
  <2>2. result' = result /\ hand.stage = "accepted"
    BY <2>1 DEF MoveCase
  <2>3. f \in DOMAIN hand.body /\ hand.body[f] = own[f]
    BY <2>2 DEF IInv, Carried
  <2> QED
    BY <2>2, <2>3 DEF IInv, Closing
<1> QED
  BY <1>1, Inductive, PTL DEF Spec, DeviationsAreHandedIn
-----------------------------------------------------------------------------
(* Something is under way that ends in a read of the case: an event, an answer that is
   still to come, or what leads to one. *)
ReadAhead ==
  \/ event
  \/ timer # Empty
  \/ Mine # {}
  \/ hand.stage \in {"flush", "sent", "accepted", "refused"}
  \/ phase = "moved"

(* If nothing is, the last read is the truth: it is still to be made, or was made after
   the last write, or is on the screen. *)
LastReadIsTrue ==
  ReadAhead \/ CASE fetch.stage = "asked" -> TRUE
                 [] fetch.stage = "read"  -> fetch.seen = line
                 [] OTHER                 -> cache = line

LEMMA StepLastRead ==
  ASSUME Shape, Closing, LastReadIsTrue, [Next]_vars
  PROVE  LastReadIsTrue'
<1>s. /\ IsHand(hand)
      /\ \A p \in posts : IsPost(p)
  BY DEF Shape
<1>a. Asked.stage = "asked" /\ NoFetch.stage = "none"
  BY DEF Asked, NoFetch
<1>1. CASE UNCHANGED vars
  BY <1>1 DEF vars, server, app, bounds, LastReadIsTrue, ReadAhead, Mine
<1>2. ASSUME NEW f \in Fields, NEW v, Enter(f, v) PROVE LastReadIsTrue'
  <2>1. PICK patch : patch = Only(f, v) /\ DOMAIN patch = {f}
    BY OnlyDomain
  <2>2. DOMAIN Over(timer, patch) = DOMAIN timer \cup {f}
    BY <2>1, OverDomain
  <2>3. f \in DOMAIN timer'
    BY <1>2, <2>1, <2>2 DEF Enter
  <2> QED
    BY <2>3, EmptyPatch DEF LastReadIsTrue, ReadAhead
<1>3. ASSUME NEW f, NEW v, ColleagueCounts(f, v) PROVE LastReadIsTrue'
  BY <1>3 DEF ColleagueCounts, server, app, LastReadIsTrue, ReadAhead, Mine
<1>4. ASSUME Send PROVE LastReadIsTrue'
  <2>1. Post("me", timer) \in posts' /\ Post("me", timer).from = "me"
    BY <1>4 DEF Send, Post
  <2> QED
    BY <2>1 DEF LastReadIsTrue, ReadAhead, Mine
<1>5. CASE TimerRunsOut
  BY <1>4, <1>5 DEF TimerRunsOut
<1>6. ASSUME NEW kind, Tap(kind) PROVE LastReadIsTrue'
  <2>1. hand'.stage = "flush"
    BY <1>6 DEF Tap
  <2> QED
    BY <2>1 DEF LastReadIsTrue, ReadAhead
<1>7. CASE SendHandIn
  <2>1. hand'.stage = "sent"
    BY <1>s, <1>7 DEF SendHandIn, IsHand
  <2> QED
    BY <2>1 DEF LastReadIsTrue, ReadAhead
<1>8. ASSUME NEW p \in posts, NEW q, Step(p, q), q.from = p.from,
             UNCHANGED <<line, phase, cache, timer, fetch, hand, event>>
      PROVE  LastReadIsTrue'
  BY <1>8 DEF Step, LastReadIsTrue, ReadAhead, Mine
<1>9. ASSUME NEW p \in posts, posts' = posts \ {p}, p.from # "me",
             UNCHANGED <<line, phase, cache, timer, fetch, hand, event>>
      PROVE  LastReadIsTrue'
  BY <1>9 DEF LastReadIsTrue, ReadAhead, Mine
<1>10. ASSUME NEW p \in posts, NEW stage PROVE Replied(p, stage).from = p.from
  BY <1>s DEF Replied, IsPost
<1>11. ASSUME NEW p \in posts, ReadLine(p) PROVE LastReadIsTrue'
  <2>1. [p EXCEPT !.stage = "read", !.seen = line].from = p.from
    BY <1>s DEF IsPost
  <2> QED
    BY <1>8, <1>9, <1>10, <1>11, <2>1 DEF ReadLine, server, app
<1>12. ASSUME NEW p \in posts, WriteLine(p) PROVE LastReadIsTrue'
  <2>1. CASE phase = "open"
    BY <1>12, <2>1 DEF WriteLine, LastReadIsTrue, ReadAhead
  <2>2. CASE phase # "open"
    BY <1>8, <1>9, <1>10, <1>12, <2>2 DEF WriteLine, app
  <2> QED
    BY <2>1, <2>2
<1>13. CASE fetch' = Asked
  BY <1>a, <1>13 DEF LastReadIsTrue
<1>14. ASSUME NEW p \in posts, AnswerCount(p) \/ FailCount(p) PROVE LastReadIsTrue'
  BY <1>13, <1>14 DEF AnswerCount, FailCount, Answered
<1>15. CASE ReadStates \/ MoveCase \/ PersistBody
  BY <1>s, <1>15 DEF ReadStates, MoveCase, PersistBody, LastReadIsTrue, ReadAhead, IsHand
<1>16. CASE AnswerHandIn \/ LiveEvent
  BY <1>13, <1>16 DEF AnswerHandIn, LiveEvent
<1>17. CASE ReadCase
  BY <1>17 DEF ReadCase, server, LastReadIsTrue, ReadAhead, Mine
<1>18. CASE ShowCase
  BY <1>a, <1>18 DEF ShowCase, server, LastReadIsTrue, ReadAhead, Mine
<1> QED
  BY <1>1, <1>2, <1>3, <1>5, <1>6, <1>7, <1>11, <1>12, <1>14, <1>15, <1>16, <1>17, <1>18 DEF Next

(* When nothing is in flight any more, the screen shows the line as it is stored,
   whichever of the optimistic patches, rollbacks and cancelled reads crossed. *)
THEOREM TheScreenCatchesUp == Spec => []ScreenTellsTheTruth
<1>1. Init => LastReadIsTrue
  BY DEF Init, LastReadIsTrue, NoFetch, Untouched
<1>2. IInv /\ LastReadIsTrue /\ [Next]_vars => LastReadIsTrue'
  BY StepLastRead DEF IInv
<1>3. IInv /\ LastReadIsTrue => ScreenTellsTheTruth
  BY DEF IInv, LastReadIsTrue, ReadAhead, ScreenTellsTheTruth, Quiet, NoFetch, Mine
<1> QED
  BY <1>1, <1>2, <1>3, Inductive, PTL DEF Spec
=============================================================================
