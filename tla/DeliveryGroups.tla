--------------------------- MODULE DeliveryGroups ---------------------------
(* Belege that came in one parcel: detectDeliveryGroups and withheldCaseIds.
   b gives the record of every Beleg of the pool.  A Teamlead's correction
   (manual) takes a Beleg out of the automatic detection: "solo" isolates it, any
   other key groups it.  The numbers of the Belege of a pool differ. *)
EXTENDS Integers, FiniteSets

CONSTANTS
  NoKey,              \* an absent key
  Tiers,              \* the enabled signals: "source", "note", "run"
  MaxGap,             \* largest distance inside a run
  DistributeSuspected \* hand out groups known only from a run

ASSUME GroupingAssumption == MaxGap \in Nat

SameKey(b, x, y, key) == b[x][key] # NoKey /\ b[x][key] = b[y][key]

(* The next number of the pool within the gap, booked on the same day for the
   same section: only neighbours are compared. *)
InARun(b, S, x, y) ==
  /\ b[x].no < b[y].no
  /\ b[y].no - b[x].no <= MaxGap
  /\ b[x].day = b[y].day
  /\ b[x].section = b[y].section
  /\ \A z \in S : b[z].no <= b[x].no \/ b[y].no <= b[z].no

Signal(b, S, x, y, tier) ==
  /\ x # y
  /\ \/ tier \in {"source", "note"} /\ SameKey(b, x, y, tier)
     \/ tier = "run" /\ (InARun(b, S, x, y) \/ InARun(b, S, y, x))

Linked(b, S, x, y) == \E tier \in Tiers : Signal(b, S, x, y, tier)

(* The component of c: what every set of Belege that contains c and is closed under
   the links contains. *)
ClosedSets(b, S) == {T \in SUBSET S : \A x \in T, y \in S \ T : ~Linked(b, S, x, y)}
Component(closed, S, c) == {x \in S : \A T \in closed : c \in T => x \in T}

Automatic(b, pool) == {c \in pool : b[c].manual = NoKey}

(* The strongest signal inside a component says how far it is trusted. *)
Confidence(b, S, D) ==
  LET has(tier) == tier \in Tiers /\ \E x, y \in D : Signal(b, S, x, y, tier)
  IN IF has("source") THEN "confirmed" ELSE IF has("note") THEN "likely" ELSE "suspected"

(* Groups have at least two members.  The Teamlead's are locked. *)
DeliveryGroupsOf(b, pool) ==
  LET S == Automatic(b, pool)
      merged == {{c \in pool : b[c].manual = b[d].manual} :
                   d \in {c \in pool \ S : b[c].manual # "solo"}}
      found == {Component(closed, S, c) : c \in S, closed \in {ClosedSets(b, S)}}
      several(D) == \E x, y \in D : x # y
  IN {[cases |-> D, confidence |-> "locked"] : D \in {M \in merged : several(M)}}
     \cup {[cases |-> D, confidence |-> Confidence(b, S, D)] : D \in {M \in found : several(M)}}

(* "X of N": the largest N a member carries, 0 when none does. *)
ExpectedSize(b, D) == CHOOSE n \in {b[x].size : x \in D} : \A x \in D : b[x].size <= n

Incomplete(b, D) == Cardinality(D) < ExpectedSize(b, D)

(* Mutant: one released member releases its delivery. *)
FaultyWithheld(b, groups) ==
  LET holds(g) == /\ g.confidence # "locked"
                  /\ \A x \in g.cases : ~b[x].released
                  /\ \/ g.confidence = "suspected" /\ ~DistributeSuspected
                     \/ Incomplete(b, g.cases)
  IN UNION {g.cases : g \in {h \in groups : holds(h)}}

(* Members of suspected and of incomplete groups wait, but for those the Teamlead
   has released one by one; a locked group never waits. *)
Withheld(b, groups) ==
  LET holds(g) == /\ g.confidence # "locked"
                  /\ \/ g.confidence = "suspected" /\ ~DistributeSuspected
                     \/ Incomplete(b, g.cases)
  IN {c \in UNION {g.cases : g \in {h \in groups : holds(h)}} : ~b[c].released}
=============================================================================
