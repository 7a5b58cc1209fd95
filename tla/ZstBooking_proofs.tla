------------------------- MODULE ZstBooking_proofs -------------------------
(* What is booked for a case fits what was handed in, for every number of employees,
   positions, pieces and requests: no piece is booked twice, and nobody is booked for
   more than one of his shares.

   Both rest on sums read before the transaction that writes.  So they hold as long as
   no hand-in books while another one does, which the theorems say. *)
EXTENDS ZstBooking, Sums_proofs

(* A hand-in that has moved the case. *)
UnderWay(s) == req[s].pc \in {"persist", "split", "read", "write"}

(* No hand-in books while another one does. *)
BookingsApart == \A s, t \in Slots : UnderWay(s) /\ UnderWay(t) => s = t

-----------------------------------------------------------------------------
Requests ==
  [op : {"idle", "complete", "partial", "export"},
   pc : {"none", "move", "persist", "split", "read", "write", "rows"},
   who : Employees \cup {None}, body : Bodies \cup {<< >>}, total : Pieces,
   shared : BOOLEAN, fresh : BOOLEAN, todo : SUBSET Keys,
   key : (Employees \cup {None}) \X Pieces, delta : Pieces]

Consistent(r) ==
  /\ r.pc \in {"none", "rows"} <=> r.op \in {"idle", "export"}
  /\ r.pc \notin {"none", "rows"} => r.who \in Employees
  /\ r.pc = "write" => r.key \in Keys /\ r.delta # 0

Shape ==
  /\ counted \in [Positions -> Counts]
  /\ checkedBy \in [Positions -> Employees \cup {None}] /\ shared \in BOOLEAN
  /\ IsFiniteSet(DOMAIN records) /\ DOMAIN records \subseteq Keys
  /\ \A k \in DOMAIN records : records[k] \in Pieces \ {0}
  /\ exported \subseteq DOMAIN records
  /\ handedIn \in Pieces
  /\ req \in [Slots -> Requests]
  /\ \A s \in Slots : Consistent(req[s])

(* What is booked, and what is decided and not yet written, fits. *)
Fits ==
  /\ Booked <= handedIn
  /\ \A s \in Slots : UnderWay(s) => req[s].total <= handedIn
  /\ \A s \in Slots : req[s].pc # "write" => req[s].delta = 0
  /\ \A s \in Slots : req[s].pc = "write" =>
       req[s].delta = Delta(req[s].key[1], req[s].key[2], req[s].total)

(* Each employee has a key that covers what is booked for him. *)
Covered ==
  \A k \in DOMAIN records : \E j \in DOMAIN records : j[1] = k[1] /\ BookedPair(k[1]) <= j[2]

-----------------------------------------------------------------------------
(* Sums. *)

LEMMA CountsAreNumbers == Counts \subseteq Nat
  BY BookingAssumption DEF Counts

LEMMA PiecesAreNumbers ==
  /\ MaxCount * Cardinality(Positions) \in Nat
  /\ Pieces \subseteq Nat
  /\ 0 \in Pieces
  /\ \A m \in Pieces : \A n \in Nat : n <= m => n \in Pieces
<1>1. Cardinality(Positions) \in Nat
  BY BookingAssumption, FS_CardinalityType
<1>2. MaxCount * Cardinality(Positions) \in Nat
  BY <1>1, BookingAssumption
<1> DEFINE m == MaxCount * Cardinality(Positions)
<1>3. m \in Nat
  BY <1>2
<1> HIDE DEF m
<1>4. 0 .. m \subseteq Nat /\ 0 \in 0 .. m /\ \A i \in 0 .. m : \A n \in Nat : n <= i => n \in 0 .. m
  BY <1>3
<1> QED
  BY <1>3, <1>4 DEF Pieces, m

LEMMA EffectiveCounts ==
  ASSUME counted \in [Positions -> Counts], NEW body \in Bodies
  PROVE  Effective(body) \in [Positions -> Counts]
<1>1. PICK P \in SUBSET Positions : body \in [P -> Counts]
  BY DEF Bodies
<1>2. ASSUME NEW p \in Positions
      PROVE  (IF p \in DOMAIN body THEN body[p] ELSE counted[p]) \in Counts
  BY <1>1
<1> QED
  BY <1>2 DEF Effective

LEMMA TotalIsANumber ==
  ASSUME NEW count \in [Positions -> Counts]
  PROVE  Total(count) \in Pieces
<1>1. \A p \in Positions : count[p] \in Nat /\ count[p] \in 0 .. MaxCount
  BY CountsAreNumbers DEF Counts
<1>2. SumOver(count, Positions) \in Nat
  BY <1>1, SumType, BookingAssumption
<1>3. SumOver(count, Positions) <= MaxCount * Cardinality(Positions)
  BY <1>1, SumIsBounded, BookingAssumption
<1> QED
  BY <1>2, <1>3, PiecesAreNumbers DEF Total, Pieces

LEMMA ShareFits ==
  ASSUME Shape, NEW e
  PROVE  ShareOf(e) \in Pieces /\ ShareOf(e) <= Total(counted)
<1>1. \A p \in Positions : counted[p] \in Nat
  BY CountsAreNumbers DEF Shape
<1> DEFINE P == {p \in Positions : checkedBy[p] = e}
<1>2. P \in SUBSET Positions /\ IsFiniteSet(P) /\ IsFiniteSet(Positions)
  BY FS_Subset, BookingAssumption
<1>3. SumOver(counted, P) \in Nat
  <2>1. \A p \in P : counted[p] \in Nat
    BY <1>1
  <2> HIDE DEF P
  <2> QED
    BY <1>2, <2>1, SumType
<1>4. SumOver(counted, P) <= SumOver(counted, Positions)
  <2> HIDE DEF P
  <2> QED
    BY <1>1, <1>2, SumOfPart
<1>5. Total(counted) \in Pieces
  BY TotalIsANumber DEF Shape
<1> QED
  BY <1>3, <1>4, <1>5, PiecesAreNumbers DEF ShareOf, Total

(* The records of an employee. *)
KeysOf(e) == {k \in DOMAIN records : k[1] = e}

LEMMA BookedIsANumber ==
  ASSUME Shape
  PROVE  /\ Booked \in Nat
         /\ \A e : BookedPair(e) \in Nat /\ BookedPair(e) <= Booked
<1>1. IsFiniteSet(DOMAIN records) /\ \A k \in DOMAIN records : records[k] \in Nat
  BY PiecesAreNumbers DEF Shape
<1>2. SumOver(records, DOMAIN records) \in Nat
  BY <1>1, SumType
<1>3. ASSUME NEW e
      PROVE  /\ SumOver(records, KeysOf(e)) \in Nat
             /\ SumOver(records, KeysOf(e)) <= SumOver(records, DOMAIN records)
  <2>1. KeysOf(e) \in SUBSET DOMAIN records /\ IsFiniteSet(KeysOf(e))
    BY <1>1, FS_Subset DEF KeysOf
  <2> QED
    BY <1>1, <2>1, SumType, SumOfPart
<1> QED
  BY <1>2, <1>3 DEF Booked, BookedPair, BookedOf, KeysOf

(* A new record adds its quantity to the case and to its employee. *)
LEMMA RecordAdds ==
  ASSUME Shape, NEW key \in Keys, key \notin DOMAIN records, NEW delta \in Nat,
         records' = [k \in DOMAIN records \cup {key} |-> IF k = key THEN delta ELSE records[k]]
  PROVE  /\ Booked' = Booked + delta
         /\ BookedPair(key[1])' = BookedPair(key[1]) + delta
         /\ \A e : e # key[1] => BookedPair(e)' = BookedPair(e)
<1>1. IsFiniteSet(DOMAIN records) /\ \A k \in DOMAIN records : records[k] \in Nat
  BY PiecesAreNumbers DEF Shape
<1>2. DOMAIN records' = DOMAIN records \cup {key}
  OBVIOUS
<1>3. ASSUME NEW K \in SUBSET DOMAIN records
      PROVE  /\ SumOver(records', K) = SumOver(records, K)
             /\ SumOver(records', K \cup {key}) = SumOver(records, K) + delta
  <2>1. IsFiniteSet(K) /\ key \notin K /\ \A k \in K : records'[k] = records[k]
    BY <1>1, FS_Subset
  <2>2. SumOver(records', K) = SumOver(records, K)
    BY <2>1, SumOfEqual
  <2>3. \A k \in K \cup {key} : records'[k] \in Nat
    BY <1>1
  <2>4. SumOver(records', K \cup {key}) = records'[key] + SumOver(records', K)
    BY <2>1, <2>3, SumAdds
  <2>5. records'[key] = delta /\ SumOver(records, K) \in Nat
    BY <1>1, <2>1, SumType
  <2> QED
    BY <2>2, <2>4, <2>5
<1>4. Booked' = Booked + delta
  BY <1>2, <1>3 DEF Booked, BookedOf
<1>5. BookedPair(key[1])' = BookedPair(key[1]) + delta
  <2>1. {k \in DOMAIN records' : k[1] = key[1]} = KeysOf(key[1]) \cup {key}
    BY <1>2 DEF KeysOf
  <2>2. KeysOf(key[1]) \in SUBSET DOMAIN records
    BY DEF KeysOf
  <2> QED
    BY <1>3, <2>1, <2>2 DEF BookedPair, BookedOf, KeysOf
<1>6. ASSUME NEW e, e # key[1] PROVE BookedPair(e)' = BookedPair(e)
  <2>1. {k \in DOMAIN records' : k[1] = e} = KeysOf(e)
    BY <1>2, <1>6 DEF KeysOf
  <2>2. KeysOf(e) \in SUBSET DOMAIN records
    BY DEF KeysOf
  <2> QED
    BY <1>3, <2>1, <2>2 DEF BookedPair, BookedOf, KeysOf
<1> QED
  BY <1>4, <1>5, <1>6
(* What writeZst decides to book is limited by the pair and by the case. *)
LEMMA DeltaFits ==
  ASSUME Shape, NEW e, NEW n \in Pieces, NEW total \in Pieces
  PROVE  /\ Delta(e, n, total) \in Int
         /\ Delta(e, n, total) <= n - BookedPair(e)
         /\ Delta(e, n, total) <= total - Booked
         /\ Delta(e, n, total) = n - BookedPair(e) \/ Delta(e, n, total) = total - Booked
         /\ Delta(e, n, total) > 0 => Delta(e, n, total) \in Pieces
<1>1. Booked \in Nat /\ BookedPair(e) \in Nat
  BY BookedIsANumber
<1>2. n \in Nat /\ total \in Nat
  BY PiecesAreNumbers
<1> DEFINE d == Delta(e, n, total)
<1>3. d \in Int /\ d <= n - BookedPair(e) /\ d <= total - Booked
      /\ (d = n - BookedPair(e) \/ d = total - Booked)
  BY <1>1, <1>2 DEF Delta
<1>4. d > 0 => d \in Nat /\ d <= n
  BY <1>1, <1>2, <1>3
<1> HIDE DEF d
<1>5. d > 0 => d \in Pieces
  BY <1>4, PiecesAreNumbers
<1> QED
  BY <1>3, <1>5 DEF d

-----------------------------------------------------------------------------
(* The shape of the state. *)

LEMMA IdleIsARequest ==
  /\ Idle \in Requests /\ Consistent(Idle)
  /\ Idle.op = "idle" /\ Idle.pc = "none" /\ Idle.delta = 0 /\ Idle.todo = {}
  BY PiecesAreNumbers DEF Idle, Requests, Consistent

(* A request is replaced; those of the other slots stay. *)
LEMMA SetKeepsRequests ==
  ASSUME req \in [Slots -> Requests], \A t \in Slots : Consistent(req[t]),
         NEW s \in Slots, NEW r \in Requests, Consistent(r), Set(s, r)
  PROVE  /\ req' \in [Slots -> Requests] /\ \A t \in Slots : Consistent(req'[t])
         /\ req'[s] = r
         /\ \A t \in Slots : t # s => req'[t] = req[t]
  BY DEF Set

(* What the other requests have read is out of date; they are otherwise as they were. *)
Stale(r) == IF r = Idle THEN Idle ELSE [r EXCEPT !.fresh = FALSE]

LEMMA StaleRequests ==
  ASSUME NEW r \in Requests, Consistent(r)
  PROVE  /\ Stale(r) \in Requests /\ Consistent(Stale(r))
         /\ Stale(r).op = r.op /\ Stale(r).pc = r.pc /\ Stale(r).who = r.who
         /\ Stale(r).body = r.body /\ Stale(r).total = r.total /\ Stale(r).shared = r.shared
         /\ Stale(r).todo = r.todo /\ Stale(r).key = r.key /\ Stale(r).delta = r.delta
         /\ r.pc = "move" => Stale(r).fresh = FALSE
<1>1. CASE r = Idle
  BY <1>1, IdleIsARequest DEF Stale
<1>2. CASE r # Idle
  BY <1>2 DEF Stale, Requests, Consistent
<1> QED
  BY <1>1, <1>2

LEMMA InitShape == Init => Shape
<1> SUFFICES ASSUME Init PROVE Shape
  OBVIOUS
<1>1. MaxCount \in Counts /\ FALSE \in BOOLEAN
  BY BookingAssumption DEF Counts
<1>4. counted \in [Positions -> Counts] /\ checkedBy \in [Positions -> Employees \cup {None}]
      /\ shared \in BOOLEAN
  BY <1>1 DEF Init
<1>2. DOMAIN records = {} /\ IsFiniteSet({}) /\ exported = {} /\ handedIn \in Pieces
  BY PiecesAreNumbers, FS_EmptySet DEF Init
<1>3. req \in [Slots -> Requests] /\ \A s \in Slots : req[s] = Idle
  BY IdleIsARequest DEF Init
<1> QED
  BY <1>2, <1>3, <1>4, IdleIsARequest DEF Shape

LEMMA StepShape ==
  ASSUME Shape, [Next]_vars
  PROVE  Shape'
<1> USE DEF Shape
<1>1. CASE UNCHANGED vars
  BY <1>1 DEF vars
<1>2. CASE Count
  BY <1>2 DEF Count
<1>3. CASE Check
  BY <1>3 DEF Check
<1>4. CASE Share
  BY <1>4 DEF Share
<1>5. CASE Resume
  <2>1. req' = [s \in Slots |-> Stale(req[s])]
    BY <1>5 DEF Resume, Stale
  <2>2. req' \in [Slots -> Requests] /\ \A s \in Slots : Consistent(req'[s])
    BY <2>1, StaleRequests
  <2> QED
    BY <1>5, <2>2 DEF Resume
<1>6. ASSUME NEW s \in Slots, HandIn(s) PROVE Shape'
  <2>1. PICK op \in {"complete", "partial"}, e \in Employees, body \in Bodies :
          Set(s, [Idle EXCEPT !.op = op, !.pc = "move", !.who = e, !.body = body,
                              !.total = Total(Effective(body)), !.shared = shared])
    BY <1>6 DEF HandIn
  <2> DEFINE r == [Idle EXCEPT !.op = op, !.pc = "move", !.who = e, !.body = body,
                               !.total = Total(Effective(body)), !.shared = shared]
  <2>2. Total(Effective(body)) \in Pieces
    BY EffectiveCounts, TotalIsANumber
  <2>3. r \in Requests /\ Consistent(r)
    BY <2>2, PiecesAreNumbers DEF Idle, Requests, Consistent
  <2>4. req' \in [Slots -> Requests] /\ \A t \in Slots : Consistent(req'[t])
    <3> HIDE DEF r
    <3>1. Set(s, r)
      BY <2>1 DEF r
    <3> QED
      BY <2>3, <3>1, SetKeepsRequests
  <2> QED
    BY <1>6, <2>4 DEF HandIn, caseVars
<1>7. ASSUME NEW s \in Slots, Move(s) PROVE Shape'
  <2>0. req[s] \in Requests /\ Consistent(req[s]) /\ req[s].pc = "move"
    BY <1>7 DEF Move
  <2>1. [req[s] EXCEPT !.pc = "persist"] \in Requests
        /\ Consistent([req[s] EXCEPT !.pc = "persist"])
    BY <2>0 DEF Requests, Consistent
  <2>2. req' = [t \in Slots |-> IF t = s THEN [req[s] EXCEPT !.pc = "persist"] ELSE Stale(req[t])]
    BY <1>7 DEF Move, Stale
  <2>3. req' \in [Slots -> Requests] /\ \A t \in Slots : Consistent(req'[t])
    BY <2>1, <2>2, StaleRequests
  <2>4. handedIn' \in Pieces
    BY <1>7 DEF Move, Requests
  <2> QED
    BY <1>7, <2>3, <2>4 DEF Move
<1>8. ASSUME NEW s \in Slots, Persist(s) PROVE Shape'
  <2> DEFINE r == [req[s] EXCEPT !.pc = "split"]
  <2>1. r \in Requests /\ Consistent(r) /\ Set(s, r)
    BY <1>8 DEF Persist, Requests, Consistent
  <2>2. req' \in [Slots -> Requests] /\ \A t \in Slots : Consistent(req'[t])
    <3> HIDE DEF r
    <3> QED
      BY <2>1, SetKeepsRequests
  <2>3. req[s].body \in Bodies \cup {<< >>}
    BY DEF Requests
  <2>4. counted' \in [Positions -> Counts]
    <3>1. CASE req[s].body \in Bodies
      BY <1>8, <3>1, EffectiveCounts DEF Persist
    <3>2. CASE req[s].body = << >>
      <4>1. DOMAIN req[s].body = {}
        BY <3>2
      <4>2. Effective(req[s].body) = [p \in Positions |-> counted[p]]
        BY <4>1 DEF Effective
      <4> QED
        BY <1>8, <4>2 DEF Persist
    <3> QED
      BY <2>3, <3>1, <3>2
  <2> QED
    BY <1>8, <2>2, <2>4 DEF Persist
<1>9. ASSUME NEW s \in Slots, Split(s) PROVE Shape'
  <2> DEFINE checkers == {checkedBy[p] : p \in Positions} \ {None}
             todo == IF req[s].shared THEN {<<e, ShareOf(e)>> : e \in checkers}
                     ELSE {<<req[s].who, req[s].total>>}
             r == [req[s] EXCEPT !.pc = "read", !.todo = todo]
  <2>1. Set(s, r)
    BY <1>9 DEF Split
  <2>2. todo \in SUBSET Keys
    <3>1. checkers \subseteq Employees
      OBVIOUS
    <3>2. \A e \in checkers : <<e, ShareOf(e)>> \in Keys
      BY <3>1, ShareFits DEF Keys
    <3>3. req[s].who \in Employees /\ req[s].total \in Pieces
      BY <1>9 DEF Split, Consistent, Requests
    <3>4. <<req[s].who, req[s].total>> \in Keys
      BY <3>3 DEF Keys
    <3> QED
      BY <3>2, <3>4
  <2>3. r \in Requests /\ Consistent(r)
    <3> HIDE DEF todo
    <3>1. req[s] \in Requests /\ Consistent(req[s]) /\ req[s].pc = "split"
      BY <1>9 DEF Split
    <3> QED
      BY <2>2, <3>1 DEF Requests, Consistent
  <2>4. req' \in [Slots -> Requests] /\ \A t \in Slots : Consistent(req'[t])
    <3> HIDE DEF r
    <3> QED
      BY <2>1, <2>3, SetKeepsRequests
  <2> QED
    BY <1>9, <2>4 DEF Split, caseVars
<1>10. ASSUME NEW s \in Slots, Read(s) PROVE Shape'
  <2>1. PICK k \in req[s].todo :
          LET delta == Delta(k[1], k[2], req[s].total)
          IN  IF Skipped(k, delta)
              THEN Set(s, [req[s] EXCEPT !.todo = @ \ {k}])
              ELSE Set(s, [req[s] EXCEPT !.todo = @ \ {k}, !.pc = "write", !.key = k, !.delta = delta])
    BY <1>10 DEF Read
  <2>2. req[s] \in Requests /\ Consistent(req[s]) /\ req[s].pc = "read" /\ k \in Keys
    BY <1>10 DEF Read, Requests
  <2> DEFINE delta == Delta(k[1], k[2], req[s].total)
             skip == [req[s] EXCEPT !.todo = @ \ {k}]
             book == [req[s] EXCEPT !.todo = @ \ {k}, !.pc = "write", !.key = k, !.delta = delta]
  <2>3. skip \in Requests /\ Consistent(skip)
    BY <2>2 DEF Requests, Consistent
  <2>4. k \in Employees \X Pieces /\ req[s].total \in Pieces
    BY <2>2 DEF Keys, Requests
  <2>5. ~Skipped(k, delta) => delta \in Pieces /\ delta # 0
    <3>1. k[2] \in Pieces
      BY <2>4
    <3>2. delta \in Int /\ (delta > 0 => delta \in Pieces)
      BY <2>4, <3>1, DeltaFits
    <3> HIDE DEF delta
    <3> QED
      BY <3>2 DEF Skipped
  <2>6. ~Skipped(k, delta) => book \in Requests /\ Consistent(book)
    <3> HIDE DEF delta
    <3> QED
      BY <2>2, <2>4, <2>5 DEF Requests, Consistent, Keys
  <2>7. req' \in [Slots -> Requests] /\ \A t \in Slots : Consistent(req'[t])
    <3> HIDE DEF skip, book
    <3>1. IF Skipped(k, delta) THEN Set(s, skip) ELSE Set(s, book)
      BY <2>1 DEF skip, book
    <3> HIDE DEF delta
    <3> QED
      BY <2>3, <2>6, <3>1, SetKeepsRequests
  <2> QED
    BY <1>10, <2>7 DEF Read, caseVars
<1>11. ASSUME NEW s \in Slots, Write(s) PROVE Shape'
  <2>1. req[s] \in Requests /\ Consistent(req[s]) /\ req[s].pc = "write"
    BY <1>11 DEF Write
  <2> DEFINE r == [req[s] EXCEPT !.pc = "read", !.key = <<None, 0>>, !.delta = 0]
  <2>2. r \in Requests /\ Consistent(r) /\ Set(s, r)
    BY <1>11, <2>1, PiecesAreNumbers DEF Write, Requests, Consistent
  <2>3. req' \in [Slots -> Requests] /\ \A t \in Slots : Consistent(req'[t])
    <3> HIDE DEF r
    <3> QED
      BY <2>2, SetKeepsRequests
  <2>4. DOMAIN records' = DOMAIN records \cup {req[s].key}
        /\ \A k \in DOMAIN records' : records'[k] \in Pieces \ {0}
    BY <1>11, <2>1 DEF Write, Requests, Consistent
  <2>5. IsFiniteSet(DOMAIN records')
    BY <2>4, FS_AddElement
  <2>6. DOMAIN records' \subseteq Keys
    BY <2>1, <2>4 DEF Consistent
  <2> QED
    BY <1>11, <2>3, <2>4, <2>5, <2>6 DEF Write, caseVars
<1>12. ASSUME NEW s \in Slots, Set(s, Idle)
       PROVE  req' \in [Slots -> Requests] /\ \A t \in Slots : Consistent(req'[t])
  BY <1>12, IdleIsARequest, SetKeepsRequests
<1>13. ASSUME NEW s \in Slots, Answer(s) PROVE Shape'
  BY <1>12, <1>13 DEF Answer, caseVars
<1>14. ASSUME NEW s \in Slots, Export(s) PROVE Shape'
  <2> DEFINE r == [Idle EXCEPT !.op = "export", !.pc = "rows"]
  <2>1. r \in Requests /\ Consistent(r) /\ Set(s, r)
    BY <1>14, PiecesAreNumbers DEF Export, Idle, Requests, Consistent
  <2>2. req' \in [Slots -> Requests] /\ \A t \in Slots : Consistent(req'[t])
    <3> HIDE DEF r
    <3> QED
      BY <2>1, SetKeepsRequests
  <2> QED
    BY <1>14, <2>2 DEF Export
<1>15. ASSUME NEW s \in Slots, Stamp(s) PROVE Shape'
  BY <1>12, <1>15 DEF Stamp, caseVars
<1>16. ASSUME NEW s \in Slots, Stop(s) PROVE Shape'
  BY <1>12, <1>16 DEF Stop, caseVars
<1> QED
  BY <1>1, <1>2, <1>3, <1>4, <1>5, <1>6, <1>7, <1>8, <1>9, <1>10, <1>11, <1>13, <1>14, <1>15,
     <1>16 DEF Next
(* For all numbers of pieces, hand-ins and requests; no proviso is needed. *)
THEOREM TypesAreRight == Spec => []TypeOK
<1>1. Init => status \in {"in_progress", "issue_open", "completed", "zst_done"}
  BY DEF Init
<1> DEFINE Status == status \in {"in_progress", "issue_open", "completed", "zst_done"}
<1>2. Status /\ [Next]_vars => Status'
  BY DEF Next, vars, caseVars, Count, Check, Share, Resume, HandIn, Move, Persist, Split, Read,
         Write, Answer, Export, Stamp, Stop
<1>3. Shape /\ Status => TypeOK
  BY DEF Shape, TypeOK, Requests
<1> QED
  BY <1>1, <1>2, <1>3, InitShape, StepShape, PTL DEF Spec

-----------------------------------------------------------------------------
(* While bookings do not overlap, what is booked fits what was handed in. *)

(* No action but these touches what is booked, decided or handed in. *)
LEMMA OthersBookNothing ==
  ASSUME Shape, [Next]_vars,
         ~ \E s \in Slots : Move(s) \/ Read(s) \/ Write(s)
  PROVE  /\ records' = records /\ handedIn' = handedIn
         /\ \A s \in Slots :
              \/ /\ req'[s].pc = req[s].pc /\ req'[s].total = req[s].total
                 /\ req'[s].key = req[s].key /\ req'[s].delta = req[s].delta
              \/ ~UnderWay(s)' /\ req'[s].delta = 0
              \/ req[s].pc \in {"persist", "split"} /\ req'[s].pc \in {"split", "read"}
                 /\ req'[s].total = req[s].total /\ req'[s].delta = req[s].delta
<1> DEFINE Same(s) == /\ req'[s].pc = req[s].pc /\ req'[s].total = req[s].total
                      /\ req'[s].key = req[s].key /\ req'[s].delta = req[s].delta
           Away(s) == ~UnderWay(s)' /\ req'[s].delta = 0
           Onward(s) == /\ req[s].pc \in {"persist", "split"} /\ req'[s].pc \in {"split", "read"}
                        /\ req'[s].total = req[s].total /\ req'[s].delta = req[s].delta
           Kept == /\ records' = records /\ handedIn' = handedIn
                   /\ \A s \in Slots : Same(s) \/ Away(s) \/ Onward(s)
<1>1. ASSUME NEW s \in Slots, NEW r \in Requests, Set(s, r)
      PROVE  req'[s] = r /\ \A t \in Slots : t # s => Same(t)
  BY <1>1 DEF Set, Shape
<1>2. CASE UNCHANGED vars \/ Count \/ Check \/ Share
  BY <1>2 DEF vars, Count, Check, Share
<1>3. CASE Resume
  <2>1. \A s \in Slots : req'[s] = Stale(req[s])
    BY <1>3 DEF Resume, Stale
  <2>2. \A s \in Slots : Same(s)
    BY <2>1, StaleRequests DEF Shape
  <2> QED
    BY <1>3, <2>2 DEF Resume
<1>4. ASSUME NEW s \in Slots, HandIn(s) PROVE Kept
  <2>1. PICK op \in {"complete", "partial"}, e \in Employees, body \in Bodies :
          Set(s, [Idle EXCEPT !.op = op, !.pc = "move", !.who = e, !.body = body,
                              !.total = Total(Effective(body)), !.shared = shared])
    BY <1>4 DEF HandIn
  <2>2. req'[s].pc = "move" /\ req'[s].delta = 0 /\ \A t \in Slots : t # s => req'[t] = req[t]
    BY <2>1 DEF Set, Shape, Idle
  <2>3. \A t \in Slots : Same(t) \/ Away(t)
    BY <2>2 DEF UnderWay
  <2> QED
    BY <1>4, <2>3 DEF HandIn
<1>5. ASSUME NEW s \in Slots, Persist(s) \/ Split(s) PROVE Kept
  <2>1. req[s] \in Requests
    BY DEF Shape
  <2>2. Onward(s) /\ \A t \in Slots : t # s => Same(t)
    <3>1. CASE Persist(s)
      BY <2>1, <3>1 DEF Persist, Set, Shape, Requests
    <3>2. CASE Split(s)
      BY <2>1, <3>2 DEF Split, Set, Shape, Requests
    <3> QED
      BY <1>5, <3>1, <3>2
  <2> QED
    BY <1>5, <2>2 DEF Persist, Split
<1>6. ASSUME NEW s \in Slots, Answer(s) \/ Stamp(s) \/ Stop(s) PROVE Kept
  <2>1. Set(s, Idle) /\ records' = records /\ handedIn' = handedIn
    BY <1>6 DEF Answer, Stamp, Stop
  <2>2. Away(s) /\ \A t \in Slots : t # s => Same(t)
    BY <1>1, <2>1, IdleIsARequest DEF UnderWay
  <2> QED
    BY <2>1, <2>2
<1>7. ASSUME NEW s \in Slots, Export(s) PROVE Kept
  <2>1. req'[s].pc = "rows" /\ req'[s].delta = 0 /\ \A t \in Slots : t # s => req'[t] = req[t]
    BY <1>7 DEF Export, Set, Shape, Idle
  <2>2. \A t \in Slots : Same(t) \/ Away(t)
    BY <2>1 DEF UnderWay
  <2> QED
    BY <1>7, <2>2 DEF Export
<1> QED
  BY <1>2, <1>3, <1>4, <1>5, <1>6, <1>7 DEF Next

LEMMA InitFits == Init => Fits /\ Covered
<1> SUFFICES ASSUME Init PROVE Fits /\ Covered
  OBVIOUS
<1>1. records = << >> /\ handedIn = 0 /\ \A s \in Slots : req[s] = Idle
  BY DEF Init
<1>2. DOMAIN records = {}
  BY <1>1
<1>3. Booked = 0
  BY <1>2, SumUnfolds, FS_EmptySet DEF Booked, BookedOf
<1> QED
  BY <1>1, <1>2, <1>3, IdleIsARequest DEF Fits, Covered, UnderWay

LEMMA StepFits ==
  ASSUME Shape, Fits, Covered, BookingsApart, [Next]_vars
  PROVE  Fits' /\ Covered'
<1>s. Shape' /\ (\A s \in Slots : req[s] \in Requests)
  BY StepShape DEF Shape
<1>n. /\ Booked \in Nat /\ handedIn \in Nat
      /\ \A e : BookedPair(e) \in Nat
      /\ \A s \in Slots : req[s].total \in Nat /\ req[s].delta \in Nat
  BY BookedIsANumber, PiecesAreNumbers DEF Shape, Requests
<1>k. ASSUME records' = records
      PROVE  /\ Booked' = Booked /\ \A e : BookedPair(e)' = BookedPair(e)
             /\ \A e, n, total : Delta(e, n, total)' = Delta(e, n, total)
             /\ Covered'
  BY <1>k DEF Booked, BookedPair, BookedOf, Delta, Covered
<1>1. CASE ~ \E s \in Slots : Move(s) \/ Read(s) \/ Write(s)
  <2>1. records' = records /\ handedIn' = handedIn
    BY <1>1, OthersBookNothing
  <2>2. ASSUME NEW s \in Slots
        PROVE  /\ UnderWay(s)' => req'[s].total <= handedIn'
               /\ req'[s].pc # "write" => req'[s].delta = 0
               /\ req'[s].pc = "write" =>
                    req'[s].delta = Delta(req[s].key[1], req[s].key[2], req[s].total)
                    /\ req'[s].key = req[s].key /\ req'[s].total = req[s].total
    BY <1>1, <2>1, OthersBookNothing DEF Fits, UnderWay
  <2> QED
    BY <1>k, <2>1, <2>2 DEF Fits
<1>2. ASSUME NEW s \in Slots, Move(s) PROVE Fits' /\ Covered'
  <2>1. records' = records
    BY <1>2 DEF Move
  <2>2. req'[s].pc = "persist" /\ req'[s].total = req[s].total /\ req'[s].delta = 0
    BY <1>2, <1>s DEF Move, Fits, Shape, Requests
  <2>3. \A t \in Slots : t # s => req'[t] = Stale(req[t])
    BY <1>2 DEF Move, Stale
  <2>4. \A t \in Slots : t # s => /\ req'[t].pc = req[t].pc /\ req'[t].total = req[t].total
                                 /\ req'[t].key = req[t].key /\ req'[t].delta = req[t].delta
    BY <2>3, StaleRequests DEF Shape
  <2>5. handedIn' >= handedIn /\ handedIn' >= req[s].total /\ handedIn' \in Nat
    BY <1>2, <1>n DEF Move
  <2>6. \A t \in Slots : UnderWay(t)' => req'[t].total <= handedIn'
    BY <1>n, <2>2, <2>4, <2>5 DEF Fits, UnderWay
  <2>7. Booked' <= handedIn'
    BY <1>k, <1>n, <2>1, <2>5 DEF Fits
  <2>8. \A t \in Slots : req'[t].pc # "write" => req'[t].delta = 0
    BY <2>2, <2>4 DEF Fits
  <2>9. \A t \in Slots : req'[t].pc = "write" =>
           /\ req'[t].delta = Delta(req[t].key[1], req[t].key[2], req[t].total)
           /\ req'[t].key = req[t].key /\ req'[t].total = req[t].total
    BY <2>2, <2>4 DEF Fits
  <2> QED
    BY <1>k, <2>1, <2>6, <2>7, <2>8, <2>9 DEF Fits
<1>3. ASSUME NEW s \in Slots, Read(s) PROVE Fits' /\ Covered'
  <2>1. records' = records /\ handedIn' = handedIn
    BY <1>3 DEF Read
  <2>2. PICK k \in req[s].todo :
          LET delta == Delta(k[1], k[2], req[s].total)
          IN  IF Skipped(k, delta)
              THEN Set(s, [req[s] EXCEPT !.todo = @ \ {k}])
              ELSE Set(s, [req[s] EXCEPT !.todo = @ \ {k}, !.pc = "write", !.key = k, !.delta = delta])
    BY <1>3 DEF Read
  <2>3. \A t \in Slots : t # s => req'[t] = req[t]
    BY <2>2 DEF Set, Shape
  <2> DEFINE d == Delta(k[1], k[2], req[s].total)
             skip == [req[s] EXCEPT !.todo = @ \ {k}]
             book == [req[s] EXCEPT !.todo = @ \ {k}, !.pc = "write", !.key = k, !.delta = d]
  <2>4. req[s].pc = "read" /\ req[s] \in Requests
    BY <1>3, <1>s DEF Read
  <2>a. req'[s] = skip \/ req'[s] = book
    <3> HIDE DEF d
    <3>1. IF Skipped(k, d) THEN Set(s, skip) ELSE Set(s, book)
      BY <2>2 DEF d
    <3> HIDE DEF skip, book
    <3> QED
      BY <3>1 DEF Set, Shape
  <2>5. \/ /\ req'[s].pc = "read" /\ req'[s].delta = req[s].delta
           /\ req'[s].total = req[s].total
        \/ /\ req'[s].pc = "write" /\ req'[s].key = k /\ req'[s].delta = d
           /\ req'[s].total = req[s].total
    <3> HIDE DEF d
    <3> QED
      BY <2>4, <2>a DEF Requests
  <2>6. \A t \in Slots :
           /\ UnderWay(t)' => req'[t].total <= handedIn'
           /\ req'[t].pc # "write" => req'[t].delta = 0
    BY <2>1, <2>3, <2>4, <2>5 DEF Fits, UnderWay
  <2>7. ASSUME NEW t \in Slots, req'[t].pc = "write"
        PROVE  \E key : /\ req'[t].key = key
                        /\ req'[t].delta = Delta(key[1], key[2], req[t].total)
                        /\ req'[t].total = req[t].total
    BY <2>3, <2>4, <2>5, <2>7 DEF Fits
  <2> QED
    BY <1>k, <2>1, <2>6, <2>7 DEF Fits
<1>4. ASSUME NEW s \in Slots, Write(s) PROVE Fits' /\ Covered'
  <2> PICK key, delta : key = req[s].key /\ delta = req[s].delta
    OBVIOUS
  <2>1. req[s].pc = "write" /\ key \in Keys /\ key \notin DOMAIN records /\ handedIn' = handedIn
        /\ records' = [k \in DOMAIN records \cup {key} |-> IF k = key THEN delta ELSE records[k]]
    BY <1>4 DEF Write, Shape, Consistent
  <2>2. key[1] \in Employees /\ key[2] \in Pieces /\ req[s].total \in Pieces
    BY <1>s, <2>1 DEF Keys, Requests
  <2>3. delta = Delta(key[1], key[2], req[s].total) /\ req[s].total <= handedIn
    BY <2>1 DEF Fits, UnderWay
  <2>4. delta <= key[2] - BookedPair(key[1]) /\ delta <= req[s].total - Booked
    BY <2>2, <2>3, DeltaFits
  <2>5. /\ Booked' = Booked + delta
        /\ BookedPair(key[1])' = BookedPair(key[1]) + delta
        /\ \A e : e # key[1] => BookedPair(e)' = BookedPair(e)
    <3>1. delta \in Nat
      BY <1>n
    <3> QED
      BY <2>1, <3>1, RecordAdds
  <2>6. Booked' <= handedIn'
    <3>1. delta \in Nat /\ req[s].total \in Nat
      BY <1>n
    <3>2. Booked' = Booked + delta /\ handedIn' = handedIn
      BY <2>1, <2>5
    <3> QED
      BY <1>n, <2>3, <2>4, <3>1, <3>2
  <2>7. req'[s].pc = "read" /\ req'[s].delta = 0 /\ req'[s].total = req[s].total
        /\ \A t \in Slots : t # s => req'[t] = req[t]
    BY <1>4, <1>s DEF Write, Set, Shape, Requests
  <2>8. \A t \in Slots : t # s => ~UnderWay(t)
    BY <2>1 DEF BookingsApart, UnderWay
  <2>9. \A t \in Slots :
           /\ UnderWay(t)' => req'[t].total <= handedIn'
           /\ req'[t].pc # "write" => req'[t].delta = 0
           /\ req'[t].pc # "write"
    BY <2>1, <2>3, <2>7, <2>8 DEF Fits, UnderWay
  <2>10. Fits'
    BY <2>6, <2>9 DEF Fits
  <2>11. Covered'
    <3> SUFFICES ASSUME NEW k \in DOMAIN records'
                 PROVE  \E j \in DOMAIN records' : j[1] = k[1] /\ BookedPair(k[1])' <= j[2]
      BY DEF Covered
    <3>1. DOMAIN records' = DOMAIN records \cup {key}
      BY <2>1
    <3>2. CASE k[1] = key[1]
      <4>1. BookedPair(k[1])' <= key[2]
        <5>1. key[2] \in Nat /\ delta \in Nat /\ BookedPair(key[1]) \in Nat
          BY <1>n, <2>2, PiecesAreNumbers
        <5> QED
          BY <2>4, <2>5, <3>2, <5>1
      <4> QED
        BY <3>1, <3>2, <4>1
    <3>3. CASE k[1] # key[1]
      <4>1. k \in DOMAIN records
        BY <3>1, <3>3
      <4> QED
        BY <2>5, <3>1, <3>3, <4>1 DEF Covered
    <3> QED
      BY <3>2, <3>3
  <2> QED
    BY <2>10, <2>11
<1> QED
  BY <1>1, <1>2, <1>3, <1>4

LEMMA FitsMeansNotOverbooked == Shape /\ Fits => NeverOverbooked
<1> SUFFICES ASSUME Shape, Fits, NEW s \in Slots PROVE Booked + req[s].delta <= handedIn
  BY DEF NeverOverbooked
<1>1. /\ Booked \in Nat /\ handedIn \in Nat /\ req[s].total \in Nat /\ req[s].delta \in Nat
      /\ req[s].total \in Pieces
  BY BookedIsANumber, PiecesAreNumbers DEF Shape, Requests
<1>2. CASE req[s].pc # "write"
  BY <1>1, <1>2 DEF Fits
<1>3. CASE req[s].pc = "write"
  <2>1. req[s].total <= handedIn
    BY <1>3 DEF Fits, UnderWay
  <2>2. req[s].key[2] \in Pieces
    BY <1>3 DEF Shape, Consistent, Keys
  <2>3. req[s].delta <= req[s].total - Booked
    BY <1>1, <1>3, <2>2, DeltaFits DEF Fits
  <2> QED
    BY <1>1, <2>1, <2>3
<1> QED
  BY <1>2, <1>3

LEMMA CoveredMeansWithinAKey == Shape /\ Covered => NobodyIsBookedMoreThanHisKey
<1> SUFFICES ASSUME Shape, Covered, NEW k \in DOMAIN records, NEW e \in Employees, k[1] = e
             PROVE  BookedPair(e) <= Max({j[2] : j \in {i \in DOMAIN records : i[1] = e}})
  BY DEF NobodyIsBookedMoreThanHisKey
<1> DEFINE own == {i \in DOMAIN records : i[1] = e}
           sizes == {j[2] : j \in own}
<1>1. PICK j \in own : BookedPair(e) <= j[2]
  BY DEF Covered
<1>2. j[2] \in sizes /\ j[2] \in Int /\ sizes \subseteq Int
  BY PiecesAreNumbers DEF Shape, Keys
<1>3. IsFiniteSet(sizes)
  <2>1. IsFiniteSet(own)
    BY FS_Subset DEF Shape
  <2>2. [i \in own |-> i[2]] \in Surjection(own, sizes)
    BY DEF Surjection
  <2> QED
    BY <2>1, <2>2, FS_Surjection
<1>4. \E m \in sizes : \A n \in sizes : m >= n
  <2> HIDE DEF sizes
  <2> QED
    BY <1>2, <1>3, GreatestNumber
<1>5. Max(sizes) \in sizes /\ Max(sizes) >= j[2]
  <2> HIDE DEF sizes
  <2> QED
    BY <1>2, <1>4 DEF Max
<1>6. BookedPair(e) \in Nat /\ Max(sizes) \in Int
  BY <1>2, <1>5, BookedIsANumber
<1> HIDE DEF sizes
<1>7. BookedPair(e) <= Max(sizes)
  BY <1>1, <1>2, <1>5, <1>6
<1> QED
  BY <1>7 DEF sizes

(* writeZst: while bookings do not overlap, the records never sum up to more than the
   largest total handed in so far, what is about to be written included. *)
THEOREM BookedFitsWhatWasHandedIn == Spec /\ []BookingsApart => []NeverOverbooked
  BY InitShape, StepShape, InitFits, StepFits, FitsMeansNotOverbooked, PTL DEF Spec

(* writeZst: while bookings do not overlap, nobody is booked for more than the largest of
   the shares he was to be booked for. *)
THEOREM BookedFitsAKey == Spec /\ []BookingsApart => []NobodyIsBookedMoreThanHisKey
  BY InitShape, StepShape, InitFits, StepFits, CoveredMeansWithinAKey, PTL DEF Spec
=============================================================================
