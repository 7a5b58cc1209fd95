----------------------------- MODULE MCDispatch -----------------------------
(* Instances of Dispatch: the first two bundle rows are of the first employee. *)
EXTENDS Dispatch, TLC

CONSTANTS e1, e2, b1, b2, b3

MCOwner == b1 :> e1 @@ b2 :> e1 @@ b3 :> e2

OneEmployeeOwner == b1 :> e1 @@ b2 :> e1

TwoEmployeesOwner == b1 :> e1 @@ b3 :> e2

Symmetry == Permutations(Cases) \cup Permutations({b1, b2})

(* Two kinds of day, so that the run stays small.  On the one a case came in
   without its storage location, and e1 and e2 have a cart each; on the other the
   cases are complete, e1 has the carts, one after the other, fetches the goods,
   and one case at a time is shared with e2. *)
VARIABLE sharedDay

DayBound ==
  IF sharedDay
  THEN /\ \A b \in Bundles : Exists(b) => Owner[b] = e1
       /\ \A c, d \in Cases : part[c] # {} /\ part[d] # {} => c = d
  ELSE /\ ~Exists(b2)
       /\ \A c \in Cases : part[c] = {} /\ ~collected[c]

MorningInit ==
  /\ Init
  /\ \A c \in Cases : status[c] # "needs_review" /\ missing[c] \subseteq {"Lagerplatz"}
  /\ \A c, d \in Cases : missing[c] # {} /\ missing[d] # {} => c = d
  /\ sharedDay = (\A c \in Cases : missing[c] = {})

MorningSpec ==
  MorningInit /\ [][Next /\ UNCHANGED sharedDay /\ DayBound']_<<vars, sharedDay>>

(* Any day, without the bound. *)
AnyDaySpec == Init /\ sharedDay = TRUE /\ [][Next /\ UNCHANGED sharedDay]_<<vars, sharedDay>>
=============================================================================
