----------------------------- MODULE ZstBooking -----------------------------
(***************************************************************************)
(* What a case is worth to its employees: the ZstRecord rows booked when   *)
(* it is handed in, partly (problems go to the teamlead and the case comes *)
(* back) or completely, and their export at the end of the day.            *)
(*                                                                         *)
(* A hand-in moves the case first and books afterwards, record by record:  *)
(* every record is decided on sums read before its transaction, and        *)
(* nothing books again what a stop in between left out.                    *)
(*                                                                         *)
(* Each position stands for the sum of its size lines.                     *)
(***************************************************************************)
EXTENDS Sums, FiniteSets, FiniteSetsExt

CONSTANTS
  Employees,
  Positions,
  MaxCount,    \* bound: pieces counted on a position
  MaxHandIns,  \* bound: hand-ins of the case
  Slots,       \* requests in flight; a single slot: one after the other
  MayStop,     \* kinds of request that a crash may cut off
  Meanwhile,   \* what else may happen to the case while a hand-in is under way
  None

ASSUME BookingAssumption ==
  /\ IsFiniteSet(Positions)
  /\ MaxCount \in Nat /\ MaxHandIns \in Nat
  /\ None \notin Employees

VARIABLES
  status,      \* "in_progress", "issue_open", "completed", "zst_done"
  counted,     \* confirmedQuantity of each position
  checkedBy,   \* confirmedById of each position
  shared,      \* isCollaborationActive
  records,     \* ZstRecord: idempotency key |-> completedQuantity
  exported,    \* keys of the records with exportedAt
  handedIn,    \* largest total a hand-in that moved the case has brought
  handIns,     \* number of hand-ins so far
  req

caseVars == <<status, counted, checkedBy, shared>>
vars == <<status, counted, checkedBy, shared, records, exported, handedIn, handIns, req>>

Counts == 0 .. MaxCount
Pieces == 0 .. MaxCount * Cardinality(Positions)
Keys == Employees \X Pieces
Bodies == UNION {[P -> Counts] : P \in SUBSET Positions}

Idle ==
  [op |-> "idle", pc |-> "none", who |-> None, body |-> << >>, total |-> 0,
   shared |-> FALSE, fresh |-> TRUE, todo |-> {}, key |-> <<None, 0>>, delta |-> 0]

TypeOK ==
  /\ status \in {"in_progress", "issue_open", "completed", "zst_done"}
  /\ counted \in [Positions -> Counts]
  /\ checkedBy \in [Positions -> Employees \cup {None}]
  /\ IsFiniteSet(DOMAIN records) /\ DOMAIN records \subseteq Keys
  /\ \A k \in DOMAIN records : records[k] \in Pieces \ {0}
  /\ exported \subseteq DOMAIN records
  /\ handedIn \in Pieces
  /\ \A s \in Slots : req[s].todo \subseteq Keys /\ req[s].delta \in Pieces

-----------------------------------------------------------------------------
(* Quantities. *)

Total(count) == SumOver(count, Positions)
BookedOf(K) == SumOver(records, K)
Booked == BookedOf(DOMAIN records)
BookedPair(e) == BookedOf({k \in DOMAIN records : k[1] = e})

(* resolveEffectiveSkuStates: the body's value, else the stored one. *)
Effective(body) == [p \in Positions |-> IF p \in DOMAIN body THEN body[p] ELSE counted[p]]

ShareOf(e) == SumOver(counted, {p \in Positions : checkedBy[p] = e})

\* Faulty: what others booked for the case is not subtracted.
FaultyDelta(e, n, total) == n - BookedPair(e)

\* Faulty: what the employee booked himself is subtracted twice.
FaultyRemainder(e, n, total) == total - Booked - BookedPair(e)

\* Faulty: not limited by the share of the pair.
FaultyCap(e, n, total) == total - Booked

(* writeZst: the rest of the pair, at most the rest of the case. *)
Delta(e, n, total) ==
  LET pair == n - BookedPair(e)
      cap  == total - Booked
  IN  IF pair < cap THEN pair ELSE cap

(* writeZst: already booked, or nothing left to book. *)
Skipped(key, delta) == key \in DOMAIN records \/ delta <= 0

-----------------------------------------------------------------------------
(* Work on the case between two hand-ins. *)

Undisturbed(what) == what \in Meanwhile \/ \A s \in Slots : req[s] = Idle

(* countSkuLine, confirmPosition: only while the case is worked on. *)
Count ==
  /\ Undisturbed("count")
  /\ status = "in_progress"
  /\ \E p \in Positions, n \in Counts : counted' = [counted EXCEPT ![p] = n]
  /\ UNCHANGED <<status, checkedBy, shared, records, exported, handedIn, handIns, req>>

Check ==
  /\ Undisturbed("check")
  /\ status = "in_progress"
  /\ \E p \in Positions, e \in Employees \cup {None} : checkedBy' = [checkedBy EXCEPT ![p] = e]
  /\ UNCHANGED <<status, counted, shared, records, exported, handedIn, handIns, req>>

(* A helper accepts, the last one is removed, the case changes the cart. *)
Share ==
  /\ Undisturbed("share")
  /\ status # "zst_done"
  /\ shared' = ~shared
  /\ UNCHANGED <<status, counted, checkedBy, records, exported, handedIn, handIns, req>>

(* All problems answered and the employee goes on (problem_resolved). *)
Resume ==
  /\ status = "issue_open"
  /\ status' = "in_progress"
  /\ req' = [s \in Slots |-> IF req[s] = Idle THEN Idle ELSE [req[s] EXCEPT !.fresh = FALSE]]
  /\ UNCHANGED <<counted, checkedBy, shared, records, exported, handedIn, handIns>>

-----------------------------------------------------------------------------
(* A hand-in: complete or partialComplete. *)

Set(s, r) == req' = [req EXCEPT ![s] = r]

(* The reads; the gate of a shared case. *)
HandIn(s) ==
  /\ req[s] = Idle
  /\ status = "in_progress"
  /\ handIns < MaxHandIns
  /\ handIns' = handIns + 1
  /\ \E op \in {"complete", "partial"}, e \in Employees, body \in Bodies :
       /\ shared /\ op = "complete" => \A p \in Positions : checkedBy[p] # None
       /\ Set(s, [Idle EXCEPT !.op = op, !.pc = "move", !.who = e, !.body = body,
                              !.total = Total(Effective(body)), !.shared = shared])
  /\ UNCHANGED <<caseVars, records, exported, handedIn>>

(* The transition, refused when the case has moved since the reads. *)
Move(s) ==
  LET r == req[s]
  IN  /\ r.pc = "move"
      /\ r.fresh /\ status = "in_progress"
      /\ r.shared /\ r.op = "complete" => \A p \in Positions : checkedBy[p] # None
      /\ status' = IF r.op = "complete" THEN "completed" ELSE "issue_open"
      /\ handedIn' = IF r.total > handedIn THEN r.total ELSE handedIn
      /\ req' = [t \in Slots |-> IF t = s THEN [r EXCEPT !.pc = "persist"]
                                 ELSE IF req[t] = Idle THEN Idle ELSE [req[t] EXCEPT !.fresh = FALSE]]
      /\ UNCHANGED <<counted, checkedBy, shared, records, exported, handIns>>

(* persistSkuConfirmations *)
Persist(s) ==
  LET r == req[s]
  IN  /\ r.pc = "persist"
      /\ counted' = Effective(r.body)
      /\ Set(s, [r EXCEPT !.pc = "split"])
      /\ UNCHANGED <<status, checkedBy, shared, records, exported, handedIn, handIns>>

(* writeZstForCompletion: to whom how much; shared, by the marks as they are now. *)
Split(s) ==
  LET r        == req[s]
      checkers == {checkedBy[p] : p \in Positions} \ {None}
  IN  /\ r.pc = "split"
      /\ Set(s, [r EXCEPT !.pc = "read",
                          !.todo = IF r.shared THEN {<<e, ShareOf(e)>> : e \in checkers}
                                   ELSE {<<r.who, r.total>>}])
      /\ UNCHANGED <<caseVars, records, exported, handedIn, handIns>>

(* writeZst, reads. *)
Read(s) ==
  LET r == req[s]
  IN  /\ r.pc = "read"
      /\ \E k \in r.todo :
           LET delta == Delta(k[1], k[2], r.total)
           IN  IF Skipped(k, delta)
               THEN Set(s, [r EXCEPT !.todo = @ \ {k}])
               ELSE Set(s, [r EXCEPT !.todo = @ \ {k}, !.pc = "write", !.key = k, !.delta = delta])
      /\ UNCHANGED <<caseVars, records, exported, handedIn, handIns>>

(* writeZst, transaction. *)
Write(s) ==
  LET r == req[s]
  IN  /\ r.pc = "write"
      /\ r.key \notin DOMAIN records
      /\ records' = [k \in DOMAIN records \cup {r.key} |-> IF k = r.key THEN r.delta ELSE records[k]]
      /\ Set(s, [r EXCEPT !.pc = "read", !.key = <<None, 0>>, !.delta = 0])
      /\ UNCHANGED <<caseVars, exported, handedIn, handIns>>

Booking(s) == req[s].op \in {"complete", "partial"} /\ req[s].pc = "read" /\ req[s].todo = {}

(* All shares are dealt with. *)
Answer(s) ==
  /\ Booking(s)
  /\ Set(s, Idle)
  /\ UNCHANGED <<caseVars, records, exported, handedIn, handIns>>

-----------------------------------------------------------------------------
(* exportZst: the case becomes zst_done, then its records are read, handed
   over and stamped. *)

Export(s) ==
  /\ req[s] = Idle
  /\ status = "completed"
  /\ status' = "zst_done"
  /\ Set(s, [Idle EXCEPT !.op = "export", !.pc = "rows"])
  /\ UNCHANGED <<counted, checkedBy, shared, records, exported, handedIn, handIns>>

Stamp(s) ==
  /\ req[s].op = "export"
  /\ exported' = DOMAIN records
  /\ Set(s, Idle)
  /\ UNCHANGED <<caseVars, records, handedIn, handIns>>

(* The version or the unique key refuses the write. *)
Refused(s) ==
  \/ req[s].pc = "move" /\ (~req[s].fresh \/ status # "in_progress")
  \/ req[s].pc = "write" /\ req[s].key \in DOMAIN records

(* Refused, or cut off by a crash. *)
Stop(s) ==
  /\ Refused(s) \/ req[s].op \in MayStop
  /\ Set(s, Idle)
  /\ UNCHANGED <<caseVars, records, exported, handedIn, handIns>>

Init ==
  /\ status = "in_progress"
  /\ counted = [p \in Positions |-> MaxCount]
  /\ checkedBy = [p \in Positions |-> None]
  /\ shared = FALSE
  /\ records = << >>
  /\ exported = {}
  /\ handedIn = 0
  /\ handIns = 0
  /\ req = [s \in Slots |-> Idle]

Next ==
  \/ Count \/ Check \/ Share \/ Resume
  \/ \E s \in Slots :
       \/ HandIn(s) \/ Move(s) \/ Persist(s) \/ Split(s) \/ Read(s) \/ Write(s) \/ Answer(s)
       \/ Export(s) \/ Stamp(s)
       \/ Stop(s)

Spec == Init /\ [][Next]_vars

-----------------------------------------------------------------------------
(* Properties. *)

(* "landen nie mehr Stueck in der KPI-Basis, als der Beleg hergibt"
   (beleg-zusammenarbeit-concept.md 5.3): whoever checks, hands in or is removed
   between two hand-ins, the records never sum up to more than the largest total
   handed in so far, what is about to be written included. *)
NeverOverbooked == \A s \in Slots : Booked + req[s].delta <= handedIn

(* "ohne aktive Zusammenarbeit bekommt der Abschliessende die gesamte gezaehlte
   Menge": when a hand-in without helpers has run to its end, all pieces it
   brought are booked, although keys and sums of earlier hand-ins were counted
   against it. *)
OwnWorkIsBookedInFull ==
  [][\A s \in Slots : Booking(s) /\ ~req[s].shared /\ req'[s] = Idle => Booked >= req[s].total]_vars

(* "je Beteiligtem gebucht, was ER geprueft hat": nobody holds more than the
   pieces he checked in some hand-in or handed in alone; in particular a booking
   does not exceed its own key. *)
NobodyIsBookedMoreThanHisKey ==
  \A k \in DOMAIN records : \A e \in Employees :
    k[1] = e => BookedPair(e) <= Max({j[2] : j \in {i \in DOMAIN records : i[1] = e}})

(* exportZst "stamps exportedAt on its ZST records": once the case is zst_done
   and no request is under way, every record has been handed over. *)
ExportedInFull ==
  status = "zst_done" /\ (\A s \in Slots : req[s] = Idle) => exported = DOMAIN records

(* "Delta gegen das bereits fuer dieses Paar Gebuchte (Problem-Loop bleibt
   korrekt)" (same place): a complete hand-in of a shared case with every position
   checked leaves no piece unbooked. *)
SharedWorkIsBookedInFull ==
  [][\A s \in Slots :
       Booking(s) /\ req[s].shared /\ req[s].op = "complete" /\ req'[s] = Idle
         => Booked >= req[s].total]_vars
=============================================================================
