------------------------------ MODULE MCDayPlan -----------------------------
(* Instances of DayPlan: three Belege, two rows for parts, two employees of whom
   the second handles only one storage class. *)
EXTENDS DayPlan

CONSTANTS c1, c2, c3, p1, p2, k1, n1

MCCases == {c1, c2, c3}
MCParts == <<p1, p2>>

Plain(no) ==
  [no |-> no, day |-> 1, section |-> 1, area |-> "A", flags |-> {}, nos |-> FALSE,
   bereich |-> "regal", loadPlanDate |-> NoDate, note |-> NoKey, source |-> NoKey,
   size |-> 0, manual |-> NoKey, released |-> FALSE, teile |-> 2, minutes |-> 2,
   lines |-> <<1, 1>>]

(* c1 may be the first of a delivery of three or be large; c2 belongs to it, or only
   shares the note with c3; c3 comes with the note, and with the delivery or not. *)
MCArrivals ==
  c1 :> {[Plain(1) EXCEPT !.source = k1, !.size = 3],
         [Plain(1) EXCEPT !.teile = 5, !.lines = <<1, 1, 3>>, !.minutes = 5]} @@
  c2 :> {[Plain(2) EXCEPT !.source = k1, !.size = 3, !.section = 7],
         [Plain(2) EXCEPT !.note = n1, !.minutes = 3, !.area = "B"]} @@
  c3 :> {[Plain(3) EXCEPT !.note = n1, !.day = 2, !.nos = TRUE, !.bereich = "palette"],
         [Plain(3) EXCEPT !.source = k1, !.size = 3, !.note = n1, !.teile = 1,
                          !.lines = <<1>>, !.minutes = 1]}

(* Area A is loaded on weekday 1; a special row moves a later week.  The row of area
   B ends with the first day. *)
MCLoadPlan ==
  {[area |-> "A", weekday |-> 1, from |-> 0, to |-> 99, special |-> FALSE],
   [area |-> "B", weekday |-> 1, from |-> 0, to |-> 1, special |-> FALSE],
   [area |-> "A", weekday |-> 3, from |-> 8, to |-> 10, special |-> TRUE]}

MCSkills == 1 :> {} @@ 2 :> {"regal"}
MCSelections == {{c1, c3}}
MCShifts == {<<2, 4>>, <<5, 0>>}
=============================================================================
