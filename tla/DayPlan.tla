------------------------------- MODULE DayPlan ------------------------------
(* The pool of a day and what the assignment engine makes of it: assignWork run
   step by step (sifting, packing, dealing out), the pull of a follow-up pack, and
   the Teamlead's corrections that change what either of them sees.  One request
   runs at a time here; requests that overlap are the subject of
   DispatchConcurrent. *)
EXTENDS Priority, DeliveryGroups, CaseSplit

CONSTANTS
  Cases,      \* Belege ProHandel can book
  Parts,      \* the sequence of rows a split may create
  Arrivals,   \* how a case may come in: a set of records for each
  Workers,    \* employees, numbered in the order of their ids
  Skills,     \* the storage classes of each, {} for all
  Shifts,     \* what the shifts may have left: minutes for each employee
  Budgets,    \* minutes a pull may still fill
  MinTeile, MaxTeile, MinFollowUp, MaxFollowUp,  \* pack sizes
  LargeBeleg, \* from here on a Beleg waits for the Teamlead
  Selections, \* bound: the sets of Belege the Teamlead corrects at once
  MaxCorrections, \* bound: how often he does
  LastDay     \* bound: days that pass

PartIds == {Parts[k] : k \in DOMAIN Parts}
Ids == Cases \cup PartIds

(* The import adds up the quantity of a Beleg from its size lines. *)
IsBeleg(b) ==
  /\ DOMAIN b = {"no", "day", "section", "area", "flags", "nos", "bereich", "loadPlanDate",
                 "note", "source", "size", "manual", "released", "teile", "minutes", "lines"}
  /\ {b.no, b.day, b.size, b.loadPlanDate} \subseteq Nat
  /\ b.minutes \in Int
  /\ b.lines \in Seq(Nat \ {0}) /\ b.teile = Total(b.lines)

(* No two Belege share a number, no part of one has the number of another. *)
DistinctNumbers ==
  \A c, d \in Cases : c # d =>
    \A a \in Arrivals[c], b \in Arrivals[d] :
      a.no # b.no /\ \A k \in DOMAIN Parts : 10 * a.no + k # b.no

ASSUME DayPlanAssumption ==
  /\ IsFiniteSet(Cases)
  /\ Parts \in Seq(PartIds) /\ IsInjective(Parts)
  /\ Cases \cap PartIds = {}
  /\ \A c \in Cases : \A b \in Arrivals[c] : IsBeleg(b)
  /\ DistinctNumbers
  /\ IsFiniteSet(Workers) /\ Workers = 1 .. Cardinality(Workers)
  /\ Shifts \subseteq [Workers -> Int]

ASSUME BoundAssumption == LastDay \in Nat \ {0} /\ MaxCorrections \in Nat

VARIABLES
  today,
  st,       \* the status of a row
  beleg,    \* its record
  corrections, \* the Teamlead's corrections so far
  cart,     \* the open pack of an employee
  begun,    \* employees who have started theirs
  phase,    \* of the running recalculation, "idle" between two
  groups,   \* the deliveries it has recognised
  net,      \* minutes each shift still offers it
  todo,     \* the ordered Belege not packed yet
  current,  \* the pack being filled
  packs,    \* the closed packs
  given,    \* the employee of a pack, 0 for none
  undealt,  \* the packs nobody was sought for yet
  reason    \* why a Beleg stays in the pool, "none" if it has no reason (yet)

poolVars == <<today, st, beleg, corrections, cart, begun>>
planVars == <<phase, groups, net, todo, current, packs, given, undealt, reason>>
vars == <<poolVars, planVars>>

Pool == {c \in Ids : st[c] = "ready"}
Present == {c \in Ids : st[c] # "absent"}

Teile(seq) == Total([i \in DOMAIN seq |-> beleg[seq[i]].teile])
Minutes(seq) == Total([i \in DOMAIN seq |-> beleg[seq[i]].minutes])
Sorted(S, First(_, _)) ==
  [i \in 1 .. Cardinality(S) |-> CHOOSE x \in S :
     Cardinality({y \in S : First(beleg[y], beleg[x])}) = i - 1]

NoPlan ==
  /\ phase = "idle"
  /\ groups = {}
  /\ net = [e \in Workers |-> 0]
  /\ todo = <<>> /\ current = <<>> /\ packs = <<>> /\ given = <<>>
  /\ undealt = {}
  /\ reason = [c \in Ids |-> "none"]

Init ==
  /\ today = 1
  /\ st = [c \in Ids |-> "absent"]
  /\ beleg \in {f \in [Ids -> UNION {Arrivals[c] : c \in Cases}] :
                  /\ \A c \in Cases : f[c] \in Arrivals[c]
                  /\ \A p \in PartIds : f[p] = f[CHOOSE c \in Cases : TRUE]}
  /\ corrections = 0
  /\ cart = [e \in Workers |-> <<>>]
  /\ begun = {}
  /\ NoPlan

-----------------------------------------------------------------------------
(* What happens to the pool between two requests. *)

Book(c) ==
  /\ phase = "idle" /\ st[c] = "absent" /\ c \in Cases /\ beleg[c].day <= today
  /\ st' = [st EXCEPT ![c] = "ready"]
  /\ UNCHANGED <<corrections, today, beleg, cart, begun, planVars>>

NextDay ==
  /\ phase = "idle" /\ today < LastDay
  /\ today' = today + 1
  /\ UNCHANGED <<corrections, st, beleg, cart, begun, planVars>>

(* The corrections ask only that the rows exist. *)
Correct(S, Change(_)) ==
  /\ phase = "idle" /\ S # {} /\ S \subseteq Present
  /\ corrections < MaxCorrections /\ corrections' = corrections + 1
  /\ beleg' = [c \in Ids |-> IF c \in S THEN Change(c) ELSE beleg[c]]
  /\ UNCHANGED <<today, st, cart, begun, planVars>>

Prioritize(c) == Correct({c}, LAMBDA x : [beleg[x] EXCEPT !.flags = @ \cup {"manual"}])
Deprioritize(c) == Correct({c}, LAMBDA x : [beleg[x] EXCEPT !.flags = @ \ {"manual"}])
MergeDeliveryGroup(S, first) ==
  /\ first \in S /\ S # {first}
  /\ Correct(S, LAMBDA x : [beleg[x] EXCEPT !.manual = first])
SplitDeliveryGroup(S) == Correct(S, LAMBDA x : [beleg[x] EXCEPT !.manual = "solo"])
ReleaseDeliveryGroup(S) == Correct(S, LAMBDA x : [beleg[x] EXCEPT !.released = TRUE])
HoldDeliveryCases(S) == Correct(S, LAMBDA x : [beleg[x] EXCEPT !.released = FALSE])

(* splitCase without an employee: the parts are ordinary Belege of the pool, the
   original is only their bracket. *)
SplitCase(c, targets) ==
  LET b == beleg[c]
      lines == AllocateParts(b.lines, targets)
      quantities == [k \in DOMAIN targets |-> Total(lines[k])]
      minutes == Apportion(b.minutes, quantities)
      part(k) == [b EXCEPT !.no = 10 * @ + k, !.source = NoKey, !.size = 0,
                           !.manual = NoKey, !.released = FALSE, !.lines = lines[k],
                           !.teile = quantities[k], !.minutes = minutes[k]]
  IN /\ phase = "idle" /\ c \in Cases /\ st[c] = "ready"
     /\ \A p \in PartIds : st[p] = "absent"
     /\ CanSplit(b.lines, targets) /\ Total(targets) = b.teile
     /\ st' = [x \in Ids |-> IF x = c THEN "split_container"
                             ELSE IF \E k \in DOMAIN targets : x = Parts[k] THEN "ready" ELSE st[x]]
     /\ beleg' = [x \in Ids |-> IF \E k \in DOMAIN targets : x = Parts[k]
                                THEN part(CHOOSE k \in DOMAIN targets : x = Parts[k])
                                ELSE beleg[x]]
     /\ UNCHANGED <<corrections, today, cart, begun, planVars>>

(* An employee begins the pack; later all of it is done. *)
Begin(e) ==
  /\ phase = "idle" /\ cart[e] # <<>> /\ e \notin begun
  /\ begun' = begun \cup {e}
  /\ UNCHANGED <<corrections, today, st, beleg, cart, planVars>>

Finish(e) ==
  /\ phase = "idle" /\ e \in begun
  /\ begun' = begun \ {e}
  /\ st' = [c \in Ids |-> IF c \in ToSet(cart[e]) THEN "completed" ELSE st[c]]
  /\ cart' = [cart EXCEPT ![e] = <<>>]
  /\ UNCHANGED <<corrections, today, beleg, planVars>>

-----------------------------------------------------------------------------
(* assignWork. *)

SameGroup(x, y) == \E g \in groups : {x, y} \subseteq g.cases

(* Packs nobody has begun go back; who still has a cart is not planned for.  What
   is withheld or too large is sifted out of the freed pool, the rest is ordered. *)
StartPlan(capacity) ==
  LET free == Workers \ begun
      back == UNION {ToSet(cart[e]) : e \in free}
  IN /\ phase = "idle"
     /\ st' = [c \in Ids |-> IF c \in back THEN "ready" ELSE st[c]]
     /\ Pool' # {}
     /\ cart' = [e \in Workers |-> IF e \in free THEN <<>> ELSE cart[e]]
     /\ net' = [e \in Workers |-> IF e \in free THEN capacity[e] ELSE 0]
     /\ groups' = DeliveryGroupsOf(beleg, Pool')
     /\ reason' = [c \in Ids |->
          IF c \in Withheld(beleg, groups') THEN "delivery_unconfirmed"
          ELSE IF c \in Pool' /\ beleg[c].teile >= LargeBeleg THEN "large_beleg" ELSE "none"]
     /\ todo' = Sorted({c \in Pool' : reason'[c] = "none"},
                       LAMBDA x, y : Before(x, y, today))
     /\ phase' = "pack"
     /\ UNCHANGED <<corrections, today, beleg, begun, current, packs, given, undealt>>

TeamCapacity == Total([e \in 1 .. Cardinality(Workers) |-> net[e]])
Used == Minutes(FlattenSeq(packs) \o current)
(* Mutant: skip a Beleg that does not fit and go on. *)
FaultyBudgetSpent == Used + beleg[Head(todo)].minutes > TeamCapacity
BudgetSpent == TeamCapacity <= 0 \/ Used >= TeamCapacity

Overflow ==
  /\ phase = "pack" /\ todo # <<>> /\ BudgetSpent
  /\ reason' = [reason EXCEPT ![Head(todo)] = "no_capacity"]
  /\ todo' = Tail(todo)
  /\ UNCHANGED <<poolVars, phase, groups, net, current, packs, given, undealt>>

(* Mutant: the maximum counts within a delivery, too. *)
FaultyMustClose(c) ==
  /\ current # <<>>
  /\ \/ beleg[Head(current)].bereich # beleg[c].bereich
     \/ Teile(current) + beleg[c].teile > MaxTeile

(* A pack is closed before a Beleg of another storage class, and before one that
   would lift it over the maximum unless it continues the delivery of the last. *)
MustClose(c) ==
  /\ current # <<>>
  /\ \/ beleg[Head(current)].bereich # beleg[c].bereich
     \/ /\ Teile(current) + beleg[c].teile > MaxTeile
        /\ ~SameGroup(c, Last(current))

(* It is closed once it has the minimum, unless the next Beleg continues the
   delivery. *)
MayClose(open) ==
  /\ Teile(open) >= MinTeile
  /\ ~(Len(todo) > 1 /\ SameGroup(Head(todo), todo[2]))

Pack ==
  LET c == Head(todo)
      open == IF MustClose(c) THEN <<c>> ELSE Append(current, c)
      closed == IF MustClose(c) THEN Append(packs, current) ELSE packs
  IN /\ phase = "pack" /\ todo # <<>> /\ ~BudgetSpent
     /\ packs' = IF MayClose(open) THEN Append(closed, open) ELSE closed
     /\ current' = IF MayClose(open) THEN <<>> ELSE open
     /\ todo' = Tail(todo)
     /\ UNCHANGED <<poolVars, phase, groups, net, given, undealt, reason>>

(* Mutant: the loop ends without closing the last pack. *)
FaultyCloseLast ==
  /\ phase = "pack" /\ todo = <<>>
  /\ packs' = packs
  /\ given' = [i \in DOMAIN packs' |-> 0]
  /\ undealt' = DOMAIN packs'
  /\ current' = <<>>
  /\ phase' = "deal"
  /\ UNCHANGED <<poolVars, groups, net, todo, reason>>

CloseLast ==
  /\ phase = "pack" /\ todo = <<>>
  /\ packs' = IF current = <<>> THEN packs ELSE Append(packs, current)
  /\ given' = [i \in DOMAIN packs' |-> 0]
  /\ undealt' = DOMAIN packs'
  /\ current' = <<>>
  /\ phase' = "deal"
  /\ UNCHANGED <<poolVars, groups, net, todo, reason>>

(* The longest pack first, the first created of equal ones. *)
NextPack ==
  CHOOSE i \in undealt : \A j \in undealt \ {i} :
    \/ Minutes(packs[i]) > Minutes(packs[j])
    \/ Minutes(packs[i]) = Minutes(packs[j]) /\ i < j

(* Mutant: a pack that fills the shift exactly does not fit. *)
FaultyCandidates(i) ==
  {e \in Workers : /\ net[e] > 0
                   /\ \A j \in DOMAIN given : given[j] # e
                   /\ Minutes(packs[i]) < net[e]}

(* One pack each, and only one that fits the shift. *)
Candidates(i) ==
  {e \in Workers : /\ net[e] > 0
                   /\ \A j \in DOMAIN given : given[j] # e
                   /\ Minutes(packs[i]) <= net[e]}

(* The load the pack means for an employee plus 0.04 for every Beleg of a storage
   class he does not handle, in hundredths and times his shift; the lower id
   decides a tie. *)
Mismatches(e, i) ==
  IF Skills[e] = {} THEN 0
  ELSE Cardinality({c \in ToSet(packs[i]) : beleg[c].bereich \notin Skills[e] \cup {"none"}})
Score(e, i) == 100 * Minutes(packs[i]) + 4 * Mismatches(e, i) * net[e]
Better(e, f, i) ==
  LET d == Score(e, i) * net[f] - Score(f, i) * net[e]
  IN d < 0 \/ (d = 0 /\ e < f)

Deal ==
  LET i == NextPack
      best == CHOOSE e \in Candidates(i) : \A f \in Candidates(i) \ {e} : Better(e, f, i)
  IN /\ phase = "deal" /\ undealt # {}
     /\ undealt' = undealt \ {i}
     /\ given' = [given EXCEPT ![i] = IF Candidates(i) = {} THEN 0 ELSE best]
     /\ reason' = [c \in Ids |-> IF Candidates(i) = {} /\ c \in ToSet(packs[i])
                                 THEN "pool_remaining" ELSE reason[c]]
     /\ UNCHANGED <<poolVars, phase, groups, net, todo, current, packs>>

(* The plan is written: every dealt pack becomes a bundle. *)
Persist ==
  LET packOf(e) == {i \in DOMAIN packs : given[i] = e}
  IN /\ phase = "deal" /\ undealt = {}
     /\ cart' = [e \in Workers |-> IF packOf(e) = {} THEN cart[e]
                                   ELSE packs[CHOOSE i \in packOf(e) : TRUE]]
     /\ st' = [c \in Ids |-> IF \E i \in DOMAIN packs : given[i] # 0 /\ c \in ToSet(packs[i])
                             THEN "assigned" ELSE st[c]]
     /\ phase' = "idle"
     /\ groups' = {}
     /\ net' = [e \in Workers |-> 0]
     /\ packs' = <<>> /\ given' = <<>>
     /\ reason' = [c \in Ids |-> "none"]
     /\ UNCHANGED <<todo, current, undealt>>
     /\ UNCHANGED <<corrections, today, beleg, begun>>

(* The first follow-up pack createBalancedBundles makes of an ordered pool.  The
   pull passes no groups and no previous days. *)
FollowUp(ordered, budget) ==
  LET fits(n) == LET s == SubSeq(ordered, 1, n) IN
        /\ \A i \in 1 .. n : beleg[s[i]].bereich = beleg[s[1]].bereich
        /\ n > 1 => Teile(s) <= MaxFollowUp
        /\ \A m \in 1 .. n - 1 : /\ Teile(SubSeq(s, 1, m)) < MinFollowUp
                                 /\ Minutes(SubSeq(s, 1, m)) < budget
  IN SubSeq(ordered, 1, Max({n \in 1 .. Len(ordered) : fits(n)}))

(* assignNextBundle for an employee without an open pack.  budget is what the shift
   and the clock leave him. *)
Pull(e, budget) ==
  LET mine == {c \in Pool : /\ beleg[c].teile < LargeBeleg
                            /\ Skills[e] # {} => beleg[c].bereich \in Skills[e]}
      pack == FollowUp(Sorted(mine, LAMBDA x, y : Outranks(x, y, today)), budget)
  IN /\ phase = "idle" /\ cart[e] = <<>> /\ budget > 0 /\ mine # {}
     /\ Minutes(pack) <= budget
     /\ cart' = [cart EXCEPT ![e] = pack]
     /\ st' = [c \in Ids |-> IF c \in ToSet(pack) THEN "assigned" ELSE st[c]]
     /\ UNCHANGED <<corrections, today, beleg, begun, planVars>>

-----------------------------------------------------------------------------
Next ==
  \/ \E c \in Cases : Book(c)
  \/ NextDay
  \/ \E S \in Selections :
       \/ \E c \in S : Prioritize(c) \/ Deprioritize(c) \/ MergeDeliveryGroup(S, c)
       \/ SplitDeliveryGroup(S) \/ ReleaseDeliveryGroup(S) \/ HoldDeliveryCases(S)
  \/ \E c \in Cases, targets \in BoundedSeq(1 .. LargeBeleg, Len(Parts)) : SplitCase(c, targets)
  \/ \E e \in Workers : Begin(e) \/ Finish(e)
  \/ \E capacity \in Shifts : StartPlan(capacity)
  \/ Overflow \/ Pack \/ CloseLast \/ Deal \/ Persist
  \/ \E e \in Workers, budget \in Budgets : Pull(e, budget)

Spec == Init /\ [][Next]_vars
-----------------------------------------------------------------------------
TypeOK ==
  /\ today \in 1 .. LastDay
  /\ st \in [Ids -> {"absent", "ready", "assigned", "completed", "split_container"}]
  /\ corrections \in 0 .. MaxCorrections
  /\ cart \in [Workers -> Seq(Ids)] /\ begun \subseteq Workers
  /\ phase \in {"idle", "pack", "deal"}
  /\ todo \in Seq(Ids) /\ current \in Seq(Ids) /\ packs \in Seq(Seq(Ids))
  /\ given \in Seq(Workers \cup {0}) /\ undealt \subseteq DOMAIN packs
  /\ reason \in [Ids -> {"none", "delivery_unconfirmed", "large_beleg", "no_capacity",
                         "pool_remaining"}]

Places == FlattenSeq(packs) \o current \o todo
Packed(c) == \E i \in DOMAIN packs : c \in ToSet(packs[i])

(* No Beleg of the pool is lost and none is planned twice: at every moment of a
   recalculation it waits its turn, lies in one pack, or has the one reason why it
   stays; in the end it is out of reach only in a pack nobody got (plan.ts collects
   the reasons in five places). *)
EveryBelegHasOnePlace ==
  phase # "idle" => \A c \in Pool :
    LET places == Cardinality({i \in DOMAIN Places : Places[i] = c})
        sifted == reason[c] \in {"delivery_unconfirmed", "large_beleg", "no_capacity"}
    IN /\ places = (IF sifted THEN 0 ELSE 1)
       /\ (reason[c] = "pool_remaining") <=>
            \E i \in DOMAIN given \ undealt : given[i] = 0 /\ c \in ToSet(packs[i])

(* The packs follow the ladder: what is packed earlier is more urgent, and nothing
   is left out for want of minutes while something less urgent is packed
   ("Order is preserved so priority/FIFO is never violated", bundling.ts). *)
UrgentIsPackedFirst ==
  phase # "idle" =>
    LET first(x, y) == Before(beleg[x], beleg[y], today)
    IN /\ \A i, j \in DOMAIN Places : i < j => first(Places[i], Places[j])
       /\ \A c \in Pool : reason[c] = "no_capacity" =>
            \A i \in DOMAIN Places : Packed(Places[i]) => first(Places[i], c)

(* Two Belege of one delivery and storage class that follow each other in the order
   lie in one pack, whatever the pack sizes say. *)
DeliveryStaysInOnePack ==
  phase = "deal" =>
    \A i \in 1 .. Len(Places) - 1 :
      LET x == Places[i]  y == Places[i + 1]
      IN SameGroup(x, y) /\ beleg[x].bereich = beleg[y].bereich =>
           \E p \in DOMAIN packs : {x, y} \subseteq ToSet(packs[p])

(* When the dealing is over, nobody on shift is left without a pack while one that
   fits his minutes lies in the pool. *)
NobodyIdleWhileWorkFits ==
  phase = "deal" /\ undealt = {} =>
    \A e \in Workers, i \in DOMAIN packs :
      net[e] > 0 /\ given[i] = 0 /\ Minutes(packs[i]) <= net[e] =>
        \E j \in DOMAIN packs : given[j] = e

(* "X of N" read off the Belege themselves: some of the delivery wait in the pool,
   but fewer than N, and the Teamlead has neither corrected nor released this one. *)
Mates(c) == {d \in Pool : beleg[d].manual = NoKey /\ SameKey(beleg, c, d, "source")}
MustWait(c) ==
  /\ c \in Mates(c) /\ ~beleg[c].released
  /\ Cardinality(Mates(c)) \in 2 .. beleg[c].size - 1

(* A recalculation gives nobody a Beleg of a delivery that has not arrived in full
   (withheldCaseIds), as long as no Beleg of another delivery is linked to it: those
   count as present members, too. *)
PlanHoldsIncompleteDeliveries ==
  phase = "deal" => \A c \in Pool :
    MustWait(c) /\ (\E g \in groups : g.cases = Mates(c)) => ~Packed(c)

(* ... and neither does any other step: the docs promise that such Belege "warten,
   bis jedes Mitglied gebucht ist". *)
IncompleteDeliveriesWait ==
  [][\A c \in Ids : MustWait(c) => st'[c] # "assigned"]_vars

(* The comment at nextWeekdayOnOrAfter: "so a missed loading day stays in the past (→
   overdue)".  A row of the weekly plan that ends takes the day it gave with it. *)
MissedDaysStayMissed ==
  [][\A c \in Pool : LoadPlanDate(beleg[c], today) \in 1 .. today =>
       LoadPlanDate(beleg'[c], today') \in 1 .. today']_vars

(* A Beleg that waits never becomes less urgent by the passing of days, a missed
   loading day stays missed: as long as no row of its weekly plan begins or ends. *)
WaitingKeepsUrgency ==
  [][today' # today => \A c \in Pool :
       WeeklyRows(beleg[c].area, today') = WeeklyRows(beleg[c].area, today) =>
         Rank(beleg[c], today') <= Rank(beleg[c], today)]_vars

(* The parts of a split carry all goods and all minutes of the original, and none of
   them is empty (allocateParts: "es geht nichts verloren"). *)
PartsCarryTheGoods ==
  \A c \in Cases : st[c] = "split_container" =>
    LET n == Cardinality({p \in PartIds : st[p] # "absent"})
        parts == [k \in 1 .. n |-> beleg[Parts[k]]]
    IN /\ n >= 2
       /\ \A k \in 1 .. n : parts[k].lines # <<>> /\ parts[k].teile > 0
       /\ Total([k \in 1 .. n |-> parts[k].teile]) = beleg[c].teile
       /\ Total([k \in 1 .. n |-> parts[k].minutes]) = beleg[c].minutes
       /\ FlattenSeq([k \in 1 .. n |-> parts[k].lines]) = beleg[c].lines
=============================================================================
