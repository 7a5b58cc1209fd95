------------------------------ MODULE Priority ------------------------------
(* The priority ladder of the assignment engine and the loading day that puts a
   Beleg on it.  A Beleg is a record; days are numbered so that day % 7 is the
   weekday, and an area stands for shop area and floor together.  NoDate is the
   absent date, earlier than every day. *)
EXTENDS Integers, FiniteSetsExt

CONSTANTS
  LoadPlan,     \* the calendar: rows [area, weekday, from, to, special]
  DailyAreas,   \* areas loaded every day
  NoDate

ASSUME PriorityAssumption ==
  /\ NoDate = 0
  /\ \A r \in LoadPlan : {r.from, r.to} \subseteq Nat /\ r.weekday \in 0 .. 6

Covers(row, date) == row.from <= date /\ date <= row.to

(* The first such weekday on or after the booking day, so that a missed loading
   day stays in the past. *)
NextWeekday(day, weekday) == day + ((weekday - day) % 7)

(* Mutant: the loading day is sought from today on. *)
FaultyLoadingDays(b, today) ==
  LET rows == {r \in LoadPlan : r.area = b.area}
      special == {r \in rows : r.special}
      weekly == {r \in rows : ~r.special /\ Covers(r, today)}
  IN {r.from : r \in {s \in special : s.from >= b.day}}
     \cup {d \in {NextWeekday(today, r.weekday) : r \in weekly} :
             \A s \in special : ~Covers(s, d)}

(* The rows of the weekly plan of an area that are valid on a day. *)
WeeklyRows(area, day) == {r \in LoadPlan : r.area = area /\ ~r.special /\ Covers(r, day)}

(* A special row is the loading day itself, however far ahead; inside its window
   it replaces the weekly rows, which must also be valid today. *)
LoadingDays(b, today) ==
  LET special == {r \in LoadPlan : r.area = b.area /\ r.special}
  IN {r.from : r \in {s \in special : s.from >= b.day}}
     \cup {d \in {NextWeekday(b.day, r.weekday) : r \in WeeklyRows(b.area, today)} :
             \A s \in special : ~Covers(s, d)}

LoadPlanDate(b, today) ==
  LET days == LoadingDays(b, today)
  IN IF days = {} THEN b.loadPlanDate ELSE Min(days)

(* The ladder: a Beleg gets the first class that fits; 1 is the most urgent. *)
Rank(b, today) ==
  LET load == LoadPlanDate(b, today)
  IN IF "manual" \in b.flags THEN 1
     ELSE IF "prio" \in b.flags THEN 2
     ELSE IF b.section \in {4, 7, 8} \/ b.area \in DailyAreas THEN 3
     ELSE IF b.nos \/ b.bereich = "haengebahn" THEN 4
     ELSE IF b.section \in {1, 2, 3} /\ load # NoDate /\ load <= today THEN 5
     ELSE 6

(* comparePriority: rank, then the oldest booking, then the number. *)
Outranks(a, b, today) ==
  \/ Rank(a, today) < Rank(b, today)
  \/ /\ Rank(a, today) = Rank(b, today)
     /\ a.day < b.day \/ (a.day = b.day /\ a.no < b.no)

(* The planner takes what is left of earlier days before all of today's. *)
Before(a, b, today) ==
  LET old(x) == x.day < today
  IN \/ old(a) /\ ~old(b)
     \/ old(a) = old(b) /\ Outranks(a, b, today)
=============================================================================
