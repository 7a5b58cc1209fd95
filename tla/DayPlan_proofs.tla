--------------------------- MODULE DayPlan_proofs ---------------------------
(***************************************************************************)
(* What the planner may rely on, for every pool, every team and every      *)
(* calendar.  A recalculation moves a line of Belege: the ordered pool is  *)
(* cut into packs from its front, so that packs, open pack and waiting     *)
(* Belege, one after the other, always are the same line, shortened by     *)
(* what no minutes are left for.                                           *)
(***************************************************************************)
EXTENDS DayPlan, Sums_proofs, SequenceTheorems

-----------------------------------------------------------------------------
(* A link has no direction: the shared key is equal both ways, the run is looked
   for in both. *)
LEMMA LinksAreMutual ==
  ASSUME NEW b, NEW S, NEW x, NEW y, Linked(b, S, x, y)
  PROVE  Linked(b, S, y, x)
<1>1. PICK tier \in Tiers : Signal(b, S, x, y, tier)
  BY DEF Linked
<1>2. Signal(b, S, y, x, tier)
  <2>1. SameKey(b, x, y, tier) => SameKey(b, y, x, tier)
    BY DEF SameKey
  <2>2. QED
    BY <1>1, <2>1 DEF Signal
<1>3. QED
  BY <1>1, <1>2 DEF Linked

(* What lies outside a set closed under the links is closed as well. *)
LEMMA ComplementIsClosed ==
  ASSUME NEW b, NEW S, NEW T \in ClosedSets(b, S)
  PROVE  S \ T \in ClosedSets(b, S)
<1>1. S \ T \in SUBSET S
  OBVIOUS
<1>2. ASSUME NEW x \in S \ T, NEW y \in S \ (S \ T)
      PROVE  ~Linked(b, S, x, y)
  <2>1. y \in T /\ x \in S \ T
    OBVIOUS
  <2>2. ~Linked(b, S, y, x)
    BY <2>1 DEF ClosedSets
  <2>3. QED
    BY <2>2, LinksAreMutual
<1>3. QED
  BY <1>1, <1>2 DEF ClosedSets

(* Every Beleg lies in the components of all that lie in its own. *)
LEMMA ComponentsAreMutual ==
  ASSUME NEW b, NEW S, NEW c \in S, NEW d \in Component(ClosedSets(b, S), S, c)
  PROVE  c \in Component(ClosedSets(b, S), S, d)
<1>1. ASSUME NEW T \in ClosedSets(b, S), d \in T, c \notin T
      PROVE  FALSE
  <2>1. S \ T \in ClosedSets(b, S) /\ c \in S \ T
    BY <1>1, ComplementIsClosed
  <2>2. d \in S \ T
    BY <2>1 DEF Component
  <2>3. QED
    BY <1>1, <2>2
<1>2. QED
  BY <1>1 DEF Component

LEMMA ComponentsNest ==
  ASSUME NEW b, NEW S, NEW c, NEW d \in Component(ClosedSets(b, S), S, c)
  PROVE  Component(ClosedSets(b, S), S, d) \subseteq Component(ClosedSets(b, S), S, c)
BY DEF Component

(* Two components are equal or have no Beleg in common. *)
LEMMA ComponentsPartition ==
  ASSUME NEW b, NEW S, NEW c \in S, NEW d \in S, NEW x,
         x \in Component(ClosedSets(b, S), S, c), x \in Component(ClosedSets(b, S), S, d)
  PROVE  Component(ClosedSets(b, S), S, c) = Component(ClosedSets(b, S), S, d)
<1>1. x \in S
  BY DEF Component
<1>2. ASSUME NEW e \in S, x \in Component(ClosedSets(b, S), S, e)
      PROVE  Component(ClosedSets(b, S), S, e) = Component(ClosedSets(b, S), S, x)
  <2>1. Component(ClosedSets(b, S), S, x) \subseteq Component(ClosedSets(b, S), S, e)
    BY <1>2, ComponentsNest
  <2>2. e \in Component(ClosedSets(b, S), S, x)
    BY <1>2, ComponentsAreMutual
  <2>3. Component(ClosedSets(b, S), S, e) \subseteq Component(ClosedSets(b, S), S, x)
    BY <2>2, ComponentsNest
  <2>4. QED
    BY <2>1, <2>3
<1>3. QED
  BY <1>2

(* A group is one the Teamlead made, of Belege outside the automatic detection, or
   a component of the Belege inside it. *)
LEMMA GroupIsOneOfTwo ==
  ASSUME NEW b, NEW pool, NEW g \in DeliveryGroupsOf(b, pool)
  PROVE  \/ \E d \in pool \ Automatic(b, pool) :
              g = [cases |-> {c \in pool : b[c].manual = b[d].manual},
                   confidence |-> "locked"]
         \/ \E c \in Automatic(b, pool) :
              LET D == Component(ClosedSets(b, Automatic(b, pool)), Automatic(b, pool), c)
              IN  g = [cases |-> D, confidence |-> Confidence(b, Automatic(b, pool), D)]
BY DEF DeliveryGroupsOf

(* No Beleg is in two deliveries: a manual key takes it out of the detection, and
   the links inside the detection are mutual. *)
THEOREM DeliveriesAreDisjoint ==
  ASSUME NEW b, NEW pool, NEW g \in DeliveryGroupsOf(b, pool),
         NEW h \in DeliveryGroupsOf(b, pool), NEW x, x \in g.cases, x \in h.cases
  PROVE  g = h
<1> DEFINE S == Automatic(b, pool)
           Merged(d) == {c \in pool : b[c].manual = b[d].manual}
           Found(c) == Component(ClosedSets(b, S), S, c)
           IsMerged(k) == \E d \in pool \ S : k = [cases |-> Merged(d), confidence |-> "locked"]
           IsFound(k) == \E c \in S : k = [cases |-> Found(c),
                                           confidence |-> Confidence(b, S, Found(c))]
<1>1. (IsMerged(g) \/ IsFound(g)) /\ (IsMerged(h) \/ IsFound(h))
  BY GroupIsOneOfTwo
<1>2. ASSUME NEW k, IsMerged(k), x \in k.cases  PROVE x \in pool \ S
  <2>1. PICK d \in pool \ S : k = [cases |-> Merged(d), confidence |-> "locked"]
    BY <1>2
  <2>2. x \in pool /\ b[x].manual = b[d].manual /\ b[d].manual # NoKey
    BY <1>2, <2>1 DEF Automatic
  <2>3. QED
    BY <2>2 DEF Automatic
<1>3. ASSUME NEW k, IsFound(k), x \in k.cases  PROVE x \in S
  BY <1>3 DEF Component
<1>4. CASE IsMerged(g) /\ IsMerged(h)
  <2>1. PICK d \in pool \ S : g = [cases |-> Merged(d), confidence |-> "locked"]
    BY <1>4
  <2>2. PICK e \in pool \ S : h = [cases |-> Merged(e), confidence |-> "locked"]
    BY <1>4
  <2>3. b[x].manual = b[d].manual /\ b[x].manual = b[e].manual
    BY <2>1, <2>2
  <2>4. QED
    BY <2>1, <2>2, <2>3
<1>5. CASE IsFound(g) /\ IsFound(h)
  <2>1. PICK c \in S : g = [cases |-> Found(c), confidence |-> Confidence(b, S, Found(c))]
    BY <1>5
  <2>2. PICK d \in S : h = [cases |-> Found(d), confidence |-> Confidence(b, S, Found(d))]
    BY <1>5
  <2>3. x \in Found(c) /\ x \in Found(d)
    BY <2>1, <2>2
  <2>4. Found(c) = Found(d)
    BY <2>3, ComponentsPartition
  <2>5. QED
    BY <2>1, <2>2, <2>4
<1>6. ~(IsMerged(g) /\ IsFound(h)) /\ ~(IsFound(g) /\ IsMerged(h))
  BY <1>2, <1>3
<1>7. QED
  BY <1>1, <1>4, <1>5, <1>6

(* A delivery that waits keeps back every member the Teamlead has not released one
   by one, and a Beleg that waits does so for its own delivery alone. *)
THEOREM DeliveriesWaitTogether ==
  ASSUME NEW b, NEW pool, NEW g \in DeliveryGroupsOf(b, pool), NEW x \in g.cases,
         NEW y \in g.cases, ~b[y].released,
         x \in Withheld(b, DeliveryGroupsOf(b, pool))
  PROVE  y \in Withheld(b, DeliveryGroupsOf(b, pool))
<1> DEFINE Holds(k) == /\ k.confidence # "locked"
                       /\ \/ k.confidence = "suspected" /\ ~DistributeSuspected
                          \/ Incomplete(b, k.cases)
<1>1. PICK h \in DeliveryGroupsOf(b, pool) : Holds(h) /\ x \in h.cases
  BY DEF Withheld
<1>2. h = g
  BY <1>1, DeliveriesAreDisjoint
<1>3. QED
  BY <1>1, <1>2 DEF Withheld
-----------------------------------------------------------------------------
(* Concatenating a sequence of sequences. *)

FlattenTable(fl, q, n) ==
  fl = [i \in 1 .. n |-> IF i = 1 THEN q[i] ELSE fl[i - 1] \o q[i]]

LEMMA FlattenEntry ==
  ASSUME NEW fl, NEW q, NEW n, FlattenTable(fl, q, n), NEW i \in 1 .. n
  PROVE  fl[i] = IF i = 1 THEN q[i] ELSE fl[i - 1] \o q[i]
<1>1. PICK g : g = fl
  OBVIOUS
<1>2. fl = [j \in 1 .. n |-> IF j = 1 THEN q[j] ELSE g[j - 1] \o q[j]]
  BY <1>1 DEF FlattenTable
<1>3. fl[i] = IF i = 1 THEN q[i] ELSE g[i - 1] \o q[i]
  BY <1>2, Zenon
<1> QED
  BY <1>1, <1>3

LEMMA FlattenTablesAgree ==
  ASSUME NEW q, NEW r, NEW m \in Nat, NEW n \in Nat, m <= n, \A i \in 1 .. m : q[i] = r[i],
         NEW g, FlattenTable(g, q, m), NEW h, FlattenTable(h, r, n)
  PROVE  \A i \in 1 .. m : g[i] = h[i]
<1> DEFINE F == {i \in 1 .. m : g[i] # h[i]}
<1> SUFFICES ASSUME F # {} PROVE FALSE
  OBVIOUS
<1>1. PICK i \in F : \A j \in F : i <= j
  <2>1. F \subseteq Nat
    OBVIOUS
  <2> HIDE DEF F
  <2> QED
    BY <2>1, LeastNumber
<1>2. i \in 1 .. m /\ i \in 1 .. n /\ g[i] # h[i]
  OBVIOUS
<1>3. CASE i = 1
  <2>1. g[1] = q[1]
    BY ONLY FlattenTable(g, q, m), <1>2, <1>3, FlattenEntry
  <2>2. h[1] = r[1]
    BY ONLY FlattenTable(h, r, n), <1>2, <1>3, FlattenEntry
  <2> QED
    BY <1>2, <1>3, <2>1, <2>2
<1>4. CASE i # 1
  <2> HIDE DEF F
  <2>a. g[i] = g[i - 1] \o q[i]
    <3>1. g[i] = IF i = 1 THEN q[i] ELSE g[i - 1] \o q[i]
      BY ONLY FlattenTable(g, q, m), <1>2, FlattenEntry
    <3> QED
      BY ONLY <1>4, <3>1
  <2>b. h[i] = h[i - 1] \o r[i]
    <3>1. h[i] = IF i = 1 THEN r[i] ELSE h[i - 1] \o r[i]
      BY ONLY FlattenTable(h, r, n), <1>2, FlattenEntry
    <3> QED
      BY ONLY <1>4, <3>1
  <2>1. g[i] = g[i - 1] \o q[i] /\ h[i] = h[i - 1] \o r[i]
    BY <2>a, <2>b
  <2>2. i - 1 \in 1 .. m /\ ~(i <= i - 1)
    BY <1>2, <1>4
  <2>3. g[i - 1] = h[i - 1]
    BY <1>1, <2>2 DEF F
  <2> QED
    BY <1>2, <2>1, <2>3
<1> QED
  BY <1>3, <1>4

LEMMA FlattenTableExists ==
  ASSUME NEW q, NEW n \in Nat
  PROVE  \E fl : FlattenTable(fl, q, n)
<1> DEFINE F == {k \in Nat : ~ \E fl : FlattenTable(fl, q, k)}
<1> SUFFICES ASSUME F # {} PROVE FALSE
  OBVIOUS
<1>1. PICK k \in F : \A j \in F : k <= j
  <2>1. F \subseteq Nat
    OBVIOUS
  <2> HIDE DEF F
  <2> QED
    BY <2>1, LeastNumber
<1>2. k \in Nat /\ ~ \E fl : FlattenTable(fl, q, k)
  OBVIOUS
<1>3. CASE k = 0
  <2>1. FlattenTable([i \in 1 .. 0 |-> q[i]], q, 0)
    BY DEF FlattenTable
  <2> QED
    BY <1>2, <1>3, <2>1
<1>4. CASE k # 0
  <2>1. k - 1 \in Nat /\ k - 1 \notin F
    BY <1>1, <1>2, <1>4
  <2>2. PICK g : FlattenTable(g, q, k - 1)
    BY <2>1
  <2>3. PICK h : h = [i \in 1 .. k |-> IF i < k THEN g[i] ELSE IF k = 1 THEN q[k] ELSE g[k - 1] \o q[k]]
    OBVIOUS
  <2>4. ASSUME NEW i \in 1 .. k
        PROVE  h[i] = IF i = 1 THEN q[i] ELSE h[i - 1] \o q[i]
    <3>1. CASE i < k
      <4>1. h[i] = g[i] /\ i \in 1 .. k - 1
        BY <1>2, <2>3, <3>1
      <4>2. g[i] = IF i = 1 THEN q[i] ELSE g[i - 1] \o q[i]
        BY <2>2, <4>1, FlattenEntry
      <4>3. i # 1 => h[i - 1] = g[i - 1]
        <5>1. i # 1 => i - 1 \in 1 .. k /\ i - 1 < k
          BY <1>2, <4>1
        <5> QED
          BY <2>3, <5>1
      <4> QED
        BY <4>1, <4>2, <4>3
    <3>2. CASE i = k /\ k # 1
      <4>1. k - 1 \in 1 .. k /\ k - 1 < k
        BY <1>2, <1>4, <3>2
      <4>2. h[k - 1] = g[k - 1]
        BY <2>3, <4>1
      <4>3. h[k] = g[k - 1] \o q[k]
        <5>1. k \in 1 .. k /\ ~(k < k)
          BY <1>2, <1>4
        <5>2. h[k] = IF k < k THEN g[k] ELSE IF k = 1 THEN q[k] ELSE g[k - 1] \o q[k]
          BY <2>3, <5>1, Zenon
        <5> QED
          BY <3>2, <5>1, <5>2
      <4> QED
        BY <3>2, <4>2, <4>3
    <3>3. CASE i = k /\ k = 1
      BY <2>3, <3>3
    <3> QED
      BY <1>2, <3>1, <3>2, <3>3
  <2>6. h = [i \in 1 .. k |-> IF i = 1 THEN q[i] ELSE h[i - 1] \o q[i]]
    <3>1. PICK f : f = h
      OBVIOUS
    <3>2. f = [i \in 1 .. k |-> IF i = 1 THEN q[i] ELSE f[i - 1] \o q[i]]
      <4>1. \A i \in 1 .. k : f[i] = IF i = 1 THEN q[i] ELSE f[i - 1] \o q[i]
        BY <2>4, <3>1
      <4>2. f = [i \in 1 .. k |-> f[i]]
        BY <2>3, <3>1
      <4> QED
        BY <4>1, <4>2
    <3> QED
      BY <3>1, <3>2
  <2>7. FlattenTable(h, q, k)
    BY <2>6 DEF FlattenTable
  <2> QED
    BY <1>2, <2>7
<1> QED
  BY <1>3, <1>4

LEMMA FlattenIsInATable ==
  ASSUME NEW q, Len(q) # 0
  PROVE  FlattenSeq(q) = (CHOOSE fl : FlattenTable(fl, q, Len(q)))[Len(q)]
BY DEF FlattenSeq, FlattenTable

(* The concatenation of sequences is the last entry of their table. *)
LEMMA FlattenIsLast ==
  ASSUME NEW q, NEW n \in Nat, n # 0, Len(q) = n
  PROVE  \E fl : FlattenTable(fl, q, n) /\ FlattenSeq(q) = fl[n]
<1>1. PICK fl : fl = CHOOSE x : FlattenTable(x, q, n)
  OBVIOUS
<1>2. \E x : FlattenTable(x, q, n)
  BY FlattenTableExists
<1>3. FlattenTable(fl, q, n)
  BY ONLY <1>1, <1>2, Zenon
<1>4. FlattenSeq(q) = fl[n]
  BY ONLY Len(q) = n, n # 0, <1>1, FlattenIsInATable
<1> QED
  BY ONLY <1>3, <1>4

(* Appending a sequence to the sequences appends it to their concatenation. *)
LEMMA FlattenAppend ==
  ASSUME NEW S, NEW q \in Seq(Seq(S)), NEW p \in Seq(S)
  PROVE  FlattenSeq(Append(q, p)) = IF q = <<>> THEN p ELSE FlattenSeq(q) \o p
<1>1. PICK r, n : r = Append(q, p) /\ n = Len(q)
  OBVIOUS
<1>2. n \in Nat /\ n + 1 \in Nat /\ n + 1 # 0
  BY <1>1
<1>3. Len(r) = n + 1 /\ r[n + 1] = p /\ \A i \in 1 .. n : q[i] = r[i]
  BY <1>1
<1>4. PICK g : FlattenTable(g, r, n + 1) /\ FlattenSeq(r) = g[n + 1]
  BY ONLY <1>2, <1>3, FlattenIsLast
<1>5. n + 1 \in 1 .. n + 1
  BY <1>2
<1>6. g[n + 1] = IF n + 1 = 1 THEN r[n + 1] ELSE g[(n + 1) - 1] \o r[n + 1]
  BY ONLY <1>4, <1>5, FlattenEntry
<1>7. CASE n = 0
  <2>1. q = <<>>
    BY <1>1, <1>7, EmptySeq
  <2>2. g[n + 1] = p
    BY ONLY <1>3, <1>6, <1>7
  <2> QED
    BY <1>1, <1>4, <2>1, <2>2
<1>8. CASE n # 0
  <2>1. g[n + 1] = g[n] \o p
    BY ONLY <1>2, <1>3, <1>6, <1>8
  <2>2. PICK h : FlattenTable(h, q, n) /\ FlattenSeq(q) = h[n]
    BY ONLY <1>1, <1>2, <1>8, FlattenIsLast
  <2>3. h[n] = g[n]
    <3>1. n <= n + 1 /\ n \in 1 .. n
      BY <1>2, <1>8
    <3> QED
      BY ONLY <1>2, <1>3, <1>4, <2>2, <3>1, FlattenTablesAgree
  <2>4. q # <<>>
    BY <1>1, <1>8
  <2> QED
    BY <1>1, <1>4, <2>1, <2>2, <2>3, <2>4
<1> QED
  BY <1>7, <1>8

LEMMA FlattenEmpty == FlattenSeq(<<>>) = <<>>
BY DEF FlattenSeq

LEMMA FlattenJoin ==
  ASSUME NEW S, NEW q \in Seq(Seq(S)), FlattenSeq(q) \in Seq(S), NEW p \in Seq(S)
  PROVE  /\ FlattenSeq(Append(q, p)) = FlattenSeq(q) \o p
         /\ FlattenSeq(Append(q, p)) \in Seq(S)
         /\ Append(q, p) \in Seq(Seq(S))
<1>1. FlattenSeq(Append(q, p)) = IF q = <<>> THEN p ELSE FlattenSeq(q) \o p
  BY FlattenAppend
<1>2. PICK f : f = FlattenSeq(q)
  OBVIOUS
<1>3. q = <<>> => f = <<>>
  BY <1>2, FlattenEmpty
<1>4. <<>> \o p = p /\ f \o p \in Seq(S)
  BY <1>2, ConcatEmptySeq, ConcatProperties
<1>5. FlattenSeq(Append(q, p)) = f \o p
  BY <1>1, <1>2, <1>3, <1>4
<1>6. Append(q, p) \in Seq(Seq(S))
  BY AppendProperties
<1> QED
  BY <1>2, <1>4, <1>5, <1>6

-----------------------------------------------------------------------------
(* Sorting: the place of an element is the number of those before it. *)

Ahead(S, R, x) == {y \in S : <<y, x>> \in R}
StrictlyOrders(R, S) ==
  /\ \A x \in S : <<x, x>> \notin R
  /\ \A x, y \in S : x # y => <<x, y>> \in R \/ <<y, x>> \in R
  /\ \A x, y, z \in S : <<x, y>> \in R /\ <<y, z>> \in R => <<x, z>> \in R

LEMMA AheadGrows ==
  ASSUME NEW S, IsFiniteSet(S), NEW R, StrictlyOrders(R, S),
         NEW x \in S, NEW y \in S, <<x, y>> \in R
  PROVE  /\ Cardinality(Ahead(S, R, x)) \in Nat /\ Cardinality(Ahead(S, R, y)) \in Nat
         /\ Cardinality(Ahead(S, R, x)) < Cardinality(Ahead(S, R, y))
<1>1. PICK A, B : A = Ahead(S, R, x) /\ B = Ahead(S, R, y)
  OBVIOUS
<1>2. A \in SUBSET S /\ B \in SUBSET S
  BY <1>1 DEF Ahead
<1>3. A \in SUBSET B /\ A # B
  <2>1. \A z \in A : z \in B
    BY <1>1 DEF Ahead, StrictlyOrders
  <2>2. x \in B /\ x \notin A
    BY <1>1 DEF Ahead, StrictlyOrders
  <2> QED
    BY <2>1, <2>2
<1>4. IsFiniteSet(A) /\ IsFiniteSet(B)
  BY <1>2, FS_Subset
<1>5. Cardinality(A) <= Cardinality(B) /\ Cardinality(A) # Cardinality(B)
  BY <1>3, <1>4, FS_Subset
<1>6. Cardinality(A) \in Nat /\ Cardinality(B) \in Nat
  BY <1>4, FS_CardinalityType
<1> QED
  BY <1>1, <1>5, <1>6

LEMMA EveryPlaceIsTaken ==
  ASSUME NEW S, IsFiniteSet(S), NEW R, StrictlyOrders(R, S)
  PROVE  /\ \A x \in S : Cardinality(Ahead(S, R, x)) \in 0 .. Cardinality(S) - 1
         /\ \A i \in 1 .. Cardinality(S) : \E x \in S : Cardinality(Ahead(S, R, x)) = i - 1
<1>1. PICK n : n = Cardinality(S)
  OBVIOUS
<1>2. n \in Nat
  BY <1>1, FS_CardinalityType
<1>3. ASSUME NEW x \in S
      PROVE  Cardinality(Ahead(S, R, x)) \in 0 .. n - 1
  <2>1. PICK A, B : A = Ahead(S, R, x) /\ B = S \ {x}
    OBVIOUS
  <2>2. A \in SUBSET B /\ IsFiniteSet(B) /\ Cardinality(B) = n - 1
    BY <1>1, <2>1, FS_RemoveElement DEF Ahead, StrictlyOrders
  <2>3. IsFiniteSet(A) /\ Cardinality(A) <= Cardinality(B)
    BY <2>2, FS_Subset
  <2>4. Cardinality(A) \in Nat
    BY <2>3, FS_CardinalityType
  <2> QED
    BY <1>2, <2>1, <2>2, <2>3, <2>4
<1>4. PICK f : f = [x \in S |-> Cardinality(Ahead(S, R, x))]
  OBVIOUS
<1>5. f \in Injection(S, 0 .. n - 1)
  <2>1. f \in [S -> 0 .. n - 1]
    BY <1>3, <1>4
  <2>2. ASSUME NEW x \in S, NEW y \in S, x # y
        PROVE  f[x] # f[y]
    <3>1. CASE <<x, y>> \in R
      <4>1. Cardinality(Ahead(S, R, x)) < Cardinality(Ahead(S, R, y))
        BY <3>1, AheadGrows
      <4> QED
        BY <1>3, <1>4, <4>1
    <3>2. CASE <<y, x>> \in R
      <4>1. Cardinality(Ahead(S, R, y)) < Cardinality(Ahead(S, R, x))
        BY <3>2, AheadGrows
      <4> QED
        BY <1>3, <1>4, <4>1
    <3> QED
      BY <2>2, <3>1, <3>2 DEF StrictlyOrders
  <2> QED
    BY <2>1, <2>2 DEF Injection, IsInjective
<1>6. f \in Surjection(S, 0 .. n - 1)
  <2>1. IsFiniteSet(0 .. n - 1) /\ Cardinality(0 .. n - 1) = n
    BY <1>2, FS_Interval
  <2> QED
    BY <1>1, <1>5, <2>1, FS_Injection
<1>7. ASSUME NEW i \in 1 .. n
      PROVE  \E x \in S : Cardinality(Ahead(S, R, x)) = i - 1
  <2>1. i - 1 \in 0 .. n - 1
    BY <1>2
  <2>2. PICK x \in S : f[x] = i - 1
    BY <1>6, <2>1 DEF Surjection
  <2> QED
    BY <1>4, <2>2
<1> QED
  BY <1>1, <1>3, <1>7

(* A sequence that gives every element its place is in order and complete. *)
LEMMA PlacesAreInOrder ==
  ASSUME NEW S, IsFiniteSet(S), NEW R, StrictlyOrders(R, S),
         NEW n, n = Cardinality(S), NEW s,
         \A i \in 1 .. n : s[i] \in S /\ Cardinality(Ahead(S, R, s[i])) = i - 1
  PROVE  /\ \A i, j \in 1 .. n : i < j => <<s[i], s[j]>> \in R
         /\ \A x \in S : \E i \in 1 .. n : s[i] = x
<1>2. n \in Nat /\ n = Cardinality(S) /\ \A i \in 1 .. n : s[i] \in S
  BY FS_CardinalityType
<1>3. ASSUME NEW x \in S, NEW y \in S, Cardinality(Ahead(S, R, x)) = Cardinality(Ahead(S, R, y))
      PROVE  x = y
  <2>1. <<x, y>> \notin R
    BY <1>3, AheadGrows
  <2>2. <<y, x>> \notin R
    BY <1>3, AheadGrows
  <2> QED
    BY <2>1, <2>2 DEF StrictlyOrders
<1>4. ASSUME NEW i \in 1 .. n, NEW j \in 1 .. n, i < j
      PROVE  <<s[i], s[j]>> \in R
  <2>1. Cardinality(Ahead(S, R, s[i])) = i - 1 /\ Cardinality(Ahead(S, R, s[j])) = j - 1
    OBVIOUS
  <2>2. s[i] # s[j]
    BY <1>2, <1>4, <2>1
  <2>3. <<s[j], s[i]>> \notin R
    <3>1. SUFFICES ASSUME <<s[j], s[i]>> \in R PROVE FALSE
      OBVIOUS
    <3>2. Cardinality(Ahead(S, R, s[j])) < Cardinality(Ahead(S, R, s[i]))
      BY <1>2, <3>1, AheadGrows
    <3> QED
      BY <1>2, <1>4, <2>1, <3>2
  <2> QED
    BY <1>2, <2>2, <2>3 DEF StrictlyOrders
<1>5. ASSUME NEW x \in S
      PROVE  \E i \in 1 .. n : s[i] = x
  <2>1. PICK r : r = Cardinality(Ahead(S, R, x))
    OBVIOUS
  <2>2. r \in 0 .. n - 1
    BY <1>2, <2>1, EveryPlaceIsTaken
  <2>3. r + 1 \in 1 .. n /\ (r + 1) - 1 = r
    BY <1>2, <2>2
  <2>4. s[r + 1] \in S /\ Cardinality(Ahead(S, R, s[r + 1])) = r
    BY <1>2, <2>3
  <2>5. s[r + 1] = x
    BY <1>3, <2>1, <2>4
  <2> QED
    BY <2>3, <2>5
<1> QED
  BY <1>4, <1>5

-----------------------------------------------------------------------------
(* Sums along a sequence. *)

LEMMA SumUpTo ==
  ASSUME NEW f, NEW n \in Nat, n # 0, \A i \in 1 .. n : f[i] \in Int
  PROVE  /\ SumOver(f, 1 .. n) = SumOver(f, 1 .. n - 1) + f[n]
         /\ SumOver(f, 1 .. n - 1) \in Int /\ SumOver(f, 1 .. n) \in Int
<1>1. PICK S : S = 1 .. n - 1
  OBVIOUS
<1>2. IsFiniteSet(S) /\ n \notin S /\ S \cup {n} = 1 .. n
  <2>1. n - 1 \in Int /\ 1 \in Int
    OBVIOUS
  <2>2. IsFiniteSet(1 .. n - 1)
    BY ONLY <2>1, FS_Interval
  <2> QED
    BY <1>1, <2>2
<1>3. \A x \in S \cup {n} : f[x] \in Int
  BY <1>2
<1>4. SumOver(f, S \cup {n}) = f[n] + SumOver(f, S)
  BY <1>2, <1>3, SumAdds
<1>5. SumOver(f, S) \in Int /\ f[n] \in Int
  BY <1>2, <1>3, SumIsAnInteger
<1>6. SumOver(f, 1 .. n) = SumOver(f, S) + f[n]
  <2>1. SumOver(f, 1 .. n) = SumOver(f, S \cup {n})
    BY ONLY <1>2, Zenon
  <2>2. f[n] + SumOver(f, S) = SumOver(f, S) + f[n]
    BY ONLY <1>5
  <2> QED
    BY ONLY <1>4, <2>1, <2>2
<1> QED
  BY <1>1, <1>5, <1>6

(* A stretch of a sequence sums up to the difference of two prefixes. *)
LEMMA SumOfAStretch ==
  ASSUME NEW s \in Seq(Int), NEW a \in 0 .. Len(s), NEW b \in a .. Len(s)
  PROVE  Total(SubSeq(s, a + 1, b)) = SumOver(s, 1 .. b) - SumOver(s, 1 .. a)
<1>1. PICK r, n : r = SubSeq(s, a + 1, b) /\ n = b - a
  OBVIOUS
<1>2. Len(s) \in Nat /\ a \in Nat /\ b \in Nat /\ n \in Nat /\ a + n = b
      /\ \A i \in 1 .. Len(s) : s[i] \in Int
  BY <1>1, LenProperties
<1>3. r \in Seq(Int) /\ Len(r) = n /\ \A i \in 1 .. n : r[i] = s[a + i]
  <2>1. \A i \in a + 1 .. b : s[i] \in Int
    BY <1>2
  <2>2. /\ r \in Seq(Int) /\ Len(r) = IF a + 1 <= b THEN b - (a + 1) + 1 ELSE 0
        /\ \A i \in 1 .. b - (a + 1) + 1 : r[i] = s[(a + 1) + i - 1]
    BY <1>1, <1>2, <2>1, SubSeqProperties
  <2>3. b - (a + 1) + 1 = n /\ \A i \in 1 .. n : (a + 1) + i - 1 = a + i
    BY <1>1, <1>2
  <2> QED
    BY <1>1, <1>2, <2>2, <2>3
<1> DEFINE F == {d \in 0 .. n : SumOver(r, 1 .. d) # SumOver(s, 1 .. a + d) - SumOver(s, 1 .. a)}
<1>4. F = {}
  <2> SUFFICES ASSUME F # {} PROVE FALSE
    OBVIOUS
  <2>1. PICK d \in F : \A e \in F : d <= e
    <3>1. F \subseteq Nat
      OBVIOUS
    <3> HIDE DEF F
    <3> QED
      BY <3>1, LeastNumber
  <2>2. d \in 0 .. n /\ SumOver(r, 1 .. d) # SumOver(s, 1 .. a + d) - SumOver(s, 1 .. a)
    OBVIOUS
  <2> HIDE DEF F
  <2>0. SumOver(s, 1 .. a) \in Int
    <3>1. \A i \in 1 .. a : s[i] \in Int
      BY <1>2
    <3>2. IsFiniteSet(1 .. a)
      BY <1>2, FS_Interval
    <3> QED
      BY ONLY <3>1, <3>2, SumIsAnInteger
  <2>3. CASE d = 0
    <3>1. 1 .. 0 = {} /\ a + 0 = a
      BY <1>2
    <3>2. SumOver(r, 1 .. 0) = 0
      BY <3>1, SumUnfolds, FS_EmptySet
    <3> QED
      BY <2>0, <2>2, <2>3, <3>1, <3>2
  <2>4. CASE d # 0
    <3>1. d - 1 \in 0 .. n /\ d - 1 \notin F /\ d \in Nat
      BY <1>2, <2>1, <2>2, <2>4
    <3>2. SumOver(r, 1 .. d - 1) = SumOver(s, 1 .. a + (d - 1)) - SumOver(s, 1 .. a)
      BY <3>1 DEF F
    <3>3. \A i \in 1 .. d : r[i] \in Int
      BY <1>2, <1>3, <2>2
    <3>4. /\ SumOver(r, 1 .. d) = SumOver(r, 1 .. d - 1) + r[d]
          /\ SumOver(r, 1 .. d - 1) \in Int
      BY <2>4, <3>1, <3>3, SumUpTo
    <3>5. a + d \in Nat /\ a + d # 0 /\ \A i \in 1 .. a + d : s[i] \in Int
      BY <1>2, <2>2, <2>4
    <3>6. /\ SumOver(s, 1 .. a + d) = SumOver(s, 1 .. (a + d) - 1) + s[a + d]
          /\ SumOver(s, 1 .. (a + d) - 1) \in Int
      BY <3>5, SumUpTo
    <3>7. (a + d) - 1 = a + (d - 1) /\ r[d] = s[a + d] /\ s[a + d] \in Int
      BY <1>2, <1>3, <2>2, <2>4, <3>5
    <3> QED
      BY <2>0, <2>2, <3>2, <3>4, <3>6, <3>7
  <2> QED
    BY <2>3, <2>4
<1>5. n \in 0 .. n /\ n \notin F
  BY <1>2, <1>4
<1>6. SumOver(r, 1 .. n) = SumOver(s, 1 .. b) - SumOver(s, 1 .. a)
  BY <1>2, <1>5
<1>7. DOMAIN r = 1 .. n
  BY <1>3, LenProperties
<1> QED
  BY <1>1, <1>6, <1>7 DEF Total

(* Quantities of at least one sum up to something. *)
LEMMA TotalIsPositive ==
  ASSUME NEW s \in Seq(Nat \ {0})
  PROVE  /\ Total(s) \in Nat
         /\ s # <<>> => Total(s) > 0
<1>1. DOMAIN s = 1 .. Len(s) /\ Len(s) \in Nat /\ \A i \in 1 .. Len(s) : s[i] \in Nat \ {0}
  BY LenProperties
<1>2. IsFiniteSet(1 .. Len(s))
  BY <1>1, FS_Interval
<1>3. Total(s) \in Nat
  BY <1>1, <1>2, SumType DEF Total
<1>4. ASSUME s # <<>> PROVE Total(s) > 0
  <2>1. 1 \in 1 .. Len(s)
    BY <1>1, <1>4, EmptySeq
  <2>2. SumOver(s, 1 .. Len(s)) = s[1] + SumOver(s, (1 .. Len(s)) \ {1})
    BY <1>1, <1>2, <2>1, SumTakesOut
  <2>3. IsFiniteSet((1 .. Len(s)) \ {1})
    BY <1>2, FS_RemoveElement
  <2>4. SumOver(s, (1 .. Len(s)) \ {1}) \in Nat
    BY <1>1, <2>3, SumType
  <2> QED
    BY <1>1, <2>1, <2>2, <2>4 DEF Total
<1> QED
  BY <1>3, <1>4

-----------------------------------------------------------------------------
(* Splitting a Beleg.  The parts are runs of lines: the part of a line is looked up
   in what the lines before it got. *)

PartStep(part, lines, targets, i) ==
  IF i = 1 THEN 1
  ELSE LET k == part[i - 1]
           got == SumOver(lines, {j \in 1 .. i - 1 : part[j] = k})
           toFill == Len(targets) - k
           left == Len(lines) - (i - 1)
       IN IF toFill > 0 /\ (got >= targets[k] \/ left <= toFill) THEN k + 1 ELSE k

PartTable(part, lines, targets, n) ==
  part = [i \in 1 .. n |-> PartStep(part, lines, targets, i)]

LEMMA PartEntry ==
  ASSUME NEW part, NEW lines, NEW targets, NEW n, PartTable(part, lines, targets, n),
         NEW i \in 1 .. n
  PROVE  part[i] = PartStep(part, lines, targets, i)
<1>1. PICK g : g = part
  OBVIOUS
<1>2. part = [j \in 1 .. n |-> PartStep(g, lines, targets, j)]
  BY <1>1 DEF PartTable
<1>3. part[i] = PartStep(g, lines, targets, i)
  BY <1>2, Zenon
<1> QED
  BY <1>1, <1>3

LEMMA PartStepLooksBack ==
  ASSUME NEW g, NEW h, NEW lines, NEW targets, NEW i \in Nat \ {0},
         \A j \in 1 .. i - 1 : g[j] = h[j]
  PROVE  PartStep(g, lines, targets, i) = PartStep(h, lines, targets, i)
<1>1. CASE i = 1
  BY <1>1 DEF PartStep
<1>2. CASE i # 1
  <2>1. i - 1 \in 1 .. i - 1
    BY <1>2
  <2>2. g[i - 1] = h[i - 1]
    BY <2>1
  <2>3. {j \in 1 .. i - 1 : g[j] = g[i - 1]} = {j \in 1 .. i - 1 : h[j] = h[i - 1]}
    BY <2>2
  <2>4. PICK k, M, got : /\ k = g[i - 1] /\ M = {j \in 1 .. i - 1 : g[j] = g[i - 1]}
                         /\ got = SumOver(lines, M)
    OBVIOUS
  <2>5. PartStep(g, lines, targets, i) =
          IF Len(targets) - k > 0 /\ (got >= targets[k] \/ Len(lines) - (i - 1) <= Len(targets) - k)
          THEN k + 1 ELSE k
    BY ONLY <1>2, <2>4 DEF PartStep
  <2>6. PartStep(h, lines, targets, i) =
          IF Len(targets) - k > 0 /\ (got >= targets[k] \/ Len(lines) - (i - 1) <= Len(targets) - k)
          THEN k + 1 ELSE k
    BY ONLY <1>2, <2>2, <2>3, <2>4 DEF PartStep
  <2> QED
    BY <2>5, <2>6
<1> QED
  BY <1>1, <1>2

LEMMA PartTableExists ==
  ASSUME NEW lines, NEW targets, NEW n \in Nat
  PROVE  \E part : PartTable(part, lines, targets, n)
<1> DEFINE F == {k \in Nat : ~ \E part : PartTable(part, lines, targets, k)}
<1> SUFFICES ASSUME F # {} PROVE FALSE
  OBVIOUS
<1>1. PICK k \in F : \A j \in F : k <= j
  <2>1. F \subseteq Nat
    OBVIOUS
  <2> HIDE DEF F
  <2> QED
    BY <2>1, LeastNumber
<1>2. k \in Nat /\ ~ \E part : PartTable(part, lines, targets, k)
  OBVIOUS
<1>3. CASE k = 0
  <2>1. PICK g : g = [i \in 1 .. 0 |-> 1]
    OBVIOUS
  <2>2. g = [i \in 1 .. 0 |-> PartStep(g, lines, targets, i)]
    <3>1. 1 .. 0 = {}
      OBVIOUS
    <3>2. \A i \in 1 .. 0 : PartStep(g, lines, targets, i) = 1
      BY ONLY <3>1
    <3> QED
      BY ONLY <2>1, <3>2, Zenon
  <2>3. PartTable(g, lines, targets, 0)
    BY <2>2 DEF PartTable
  <2> QED
    BY <1>2, <1>3, <2>3
<1>4. CASE k # 0
  <2>1. k - 1 \in Nat /\ k - 1 \notin F
    BY <1>1, <1>2, <1>4
  <2>2. PICK g : PartTable(g, lines, targets, k - 1)
    BY <2>1
  <2>3. PICK h : h = [i \in 1 .. k |-> PartStep(g, lines, targets, i)]
    OBVIOUS
  <2>4. \A i \in 1 .. k : h[i] = PartStep(g, lines, targets, i)
    BY ONLY <2>3, Zenon
  <2>5. \A i \in 1 .. k - 1 : g[i] = h[i]
    <3> SUFFICES ASSUME NEW i \in 1 .. k - 1 PROVE g[i] = h[i]
      OBVIOUS
    <3>1. i \in 1 .. k
      BY <1>2
    <3>2. g[i] = PartStep(g, lines, targets, i)
      BY ONLY <2>2, i \in 1 .. k - 1, PartEntry
    <3> QED
      BY ONLY <2>4, <3>1, <3>2
  <2>6. ASSUME NEW i \in 1 .. k
        PROVE  PartStep(g, lines, targets, i) = PartStep(h, lines, targets, i)
    <3>1. i \in Nat \ {0} /\ \A j \in 1 .. i - 1 : g[j] = h[j]
      BY <1>2, <2>5
    <3> QED
      BY ONLY <3>1, PartStepLooksBack
  <2>7. h = [i \in 1 .. k |-> PartStep(h, lines, targets, i)]
    <3>1. [i \in 1 .. k |-> PartStep(g, lines, targets, i)] =
          [i \in 1 .. k |-> PartStep(h, lines, targets, i)]
      BY ONLY <2>6, Zenon
    <3> QED
      BY ONLY <2>3, <3>1, Zenon
  <2>8. PartTable(h, lines, targets, k)
    BY ONLY <2>7 DEF PartTable
  <2> QED
    BY <1>2, <2>8
<1> QED
  BY <1>3, <1>4

LEMMA PartOfIsATable ==
  ASSUME NEW lines, NEW targets, Len(lines) \in Nat
  PROVE  PartTable(PartOf(lines, targets), lines, targets, Len(lines))
<1>1. PICK n : n = Len(lines)
  OBVIOUS
<1>2. \E part : PartTable(part, lines, targets, n)
  BY <1>1, PartTableExists
<1>3. PartOf(lines, targets) = CHOOSE part : PartTable(part, lines, targets, n)
  BY ONLY <1>1 DEF PartOf, PartTable, PartStep
<1> QED
  BY ONLY <1>1, <1>2, <1>3, Zenon

(* The parts come one after the other, and enough lines are kept for those to come. *)
LEMMA PartsGoUp ==
  ASSUME NEW lines, NEW targets, NEW part, NEW N \in Nat, NEW m \in Nat,
         N = Len(lines), m = Len(targets), 2 <= m, m <= N,
         PartTable(part, lines, targets, N)
  PROVE  /\ part[1] = 1 /\ part[N] = m
         /\ \A i \in 1 .. N : part[i] \in 1 .. m
         /\ \A i \in 2 .. N : part[i] = part[i - 1] \/ part[i] = part[i - 1] + 1
<1> DEFINE Good(i) == part[i] \in 1 .. m /\ m - part[i] <= N - i
           F == {i \in 1 .. N : ~Good(i)}
<1>1. part[1] = 1
  <2>1. 1 \in 1 .. N
    OBVIOUS
  <2>2. part[1] = PartStep(part, lines, targets, 1)
    BY <2>1, PartEntry
  <2> QED
    BY <2>2 DEF PartStep
<1>2. ASSUME NEW i \in 2 .. N, Good(i - 1)
      PROVE  Good(i) /\ (part[i] = part[i - 1] \/ part[i] = part[i - 1] + 1)
  <2>1. PICK k, p : k = part[i - 1] /\ p = part[i]
    OBVIOUS
  <2>2. k \in 1 .. m /\ m - k <= N - (i - 1)
    BY <1>2, <2>1
  <2>3. i # 1 /\ i \in 1 .. N
    OBVIOUS
  <2>4. PICK got : got = SumOver(lines, {j \in 1 .. i - 1 : part[j] = k})
    OBVIOUS
  <2>5. part[i] = PartStep(part, lines, targets, i)
    BY <2>3, PartEntry
  <2>6. PICK B \in BOOLEAN : B = (got >= targets[k] \/ N - (i - 1) <= m - k)
    OBVIOUS
  <2>7. p = IF m - k > 0 /\ B THEN k + 1 ELSE k
    BY ONLY <2>1, <2>3, <2>4, <2>5, <2>6, N = Len(lines), m = Len(targets) DEF PartStep
  <2>8. m - k > 0 /\ ~B => ~(N - (i - 1) <= m - k)
    BY <2>6
  <2> HIDE DEF Good
  <2>9. p \in 1 .. m /\ m - p <= N - i /\ (p = k \/ p = k + 1)
    BY <2>2, <2>3, <2>7, <2>8
  <2> QED
    BY <2>1, <2>9 DEF Good
<1>3. F = {}
  <2> SUFFICES ASSUME F # {} PROVE FALSE
    OBVIOUS
  <2>1. PICK i \in F : \A e \in F : i <= e
    <3>1. F \subseteq Nat
      OBVIOUS
    <3> HIDE DEF F
    <3> QED
      BY <3>1, LeastNumber
  <2>2. i \in 1 .. N /\ ~Good(i)
    OBVIOUS
  <2>3. CASE i = 1
    BY <1>1, <2>2, <2>3
  <2>4. CASE i # 1
    <3>1. i \in 2 .. N /\ i - 1 \in 1 .. N /\ ~(i <= i - 1)
      BY <2>2, <2>4
    <3>2. Good(i - 1)
      <4> HIDE DEF Good
      <4> QED
        BY <2>1, <3>1
    <3> HIDE DEF Good, F
    <3> QED
      BY <1>2, <2>2, <3>1, <3>2
  <2> QED
    BY <2>3, <2>4
<1>4. \A i \in 1 .. N : Good(i)
  <2> HIDE DEF Good
  <2> QED
    BY <1>3
<1>5. part[N] = m
  <2>1. Good(N)
    BY <1>4
  <2> QED
    BY <2>1
<1>6. \A i \in 2 .. N : part[i] = part[i - 1] \/ part[i] = part[i - 1] + 1
  <2> SUFFICES ASSUME NEW i \in 2 .. N
               PROVE  part[i] = part[i - 1] \/ part[i] = part[i - 1] + 1
    OBVIOUS
  <2>1. i - 1 \in 1 .. N
    OBVIOUS
  <2> HIDE DEF Good
  <2> QED
    BY <1>2, <1>4, <2>1
<1> QED
  BY <1>1, <1>4, <1>5, <1>6

(* ... so that no part is left out. *)
LEMMA EveryPartOccurs ==
  ASSUME NEW part, NEW N \in Nat, NEW m \in Nat, 1 <= N,
         part[1] = 1, part[N] = m, \A i \in 1 .. N : part[i] \in 1 .. m,
         \A i \in 2 .. N : part[i] = part[i - 1] \/ part[i] = part[i - 1] + 1,
         NEW k \in 1 .. m
  PROVE  \E i \in 1 .. N : part[i] = k
<1> DEFINE F == {i \in 1 .. N : part[i] >= k}
<1>1. N \in F
  OBVIOUS
<1>2. PICK i \in F : \A e \in F : i <= e
  <2>1. F \subseteq Nat
    OBVIOUS
  <2> HIDE DEF F
  <2> QED
    BY <1>1, <2>1, LeastNumber
<1>3. i \in 1 .. N /\ part[i] >= k
  OBVIOUS
<1>4. CASE i = 1
  BY <1>3, <1>4
<1>5. CASE i # 1
  <2>1. i - 1 \in 1 .. N /\ i \in 2 .. N /\ ~(i <= i - 1)
    BY <1>3, <1>5
  <2>2. ~(part[i - 1] >= k)
    BY <1>2, <2>1
  <2>3. part[i - 1] \in 1 .. m /\ part[i] \in 1 .. m
    BY <1>3, <2>1
  <2>4. part[i] = part[i - 1] \/ part[i] = part[i - 1] + 1
    BY <2>1
  <2> HIDE DEF F
  <2> QED
    BY <1>3, <2>2, <2>3, <2>4
<1> QED
  BY <1>4, <1>5

(* The cuts between the parts. *)
UpTo(part, N, k) == Cardinality({i \in 1 .. N : part[i] <= k})

LEMMA CutsGoUp ==
  ASSUME NEW part, NEW N \in Nat, NEW m \in Nat, 1 <= N,
         part[1] = 1, part[N] = m, \A i \in 1 .. N : part[i] \in 1 .. m,
         \A i \in 2 .. N : part[i] = part[i - 1] \/ part[i] = part[i - 1] + 1
  PROVE  /\ UpTo(part, N, 0) = 0 /\ UpTo(part, N, m) = N
         /\ \A k \in 0 .. m : UpTo(part, N, k) \in 0 .. N
         /\ \A k \in 1 .. m : UpTo(part, N, k - 1) < UpTo(part, N, k)
<1>1. IsFiniteSet(1 .. N) /\ Cardinality(1 .. N) = N
  BY FS_Interval
<1>2. UpTo(part, N, 0) = 0
  <2>1. {i \in 1 .. N : part[i] <= 0} = {}
    OBVIOUS
  <2> QED
    BY <2>1, FS_EmptySet DEF UpTo
<1>3. UpTo(part, N, m) = N
  <2>1. {i \in 1 .. N : part[i] <= m} = 1 .. N
    OBVIOUS
  <2> QED
    BY ONLY <1>1, <2>1 DEF UpTo
<1>4. \A k : UpTo(part, N, k) \in 0 .. N /\ IsFiniteSet({i \in 1 .. N : part[i] <= k})
  <2> SUFFICES ASSUME NEW k
               PROVE  UpTo(part, N, k) \in 0 .. N /\ IsFiniteSet({i \in 1 .. N : part[i] <= k})
    OBVIOUS
  <2>1. PICK A : A = {i \in 1 .. N : part[i] <= k}
    OBVIOUS
  <2>2. A \in SUBSET (1 .. N)
    BY <2>1
  <2>3. IsFiniteSet(A) /\ Cardinality(A) <= N
    BY <1>1, <2>2, FS_Subset
  <2>4. Cardinality(A) \in Nat
    BY <2>3, FS_CardinalityType
  <2> QED
    BY <2>1, <2>3, <2>4 DEF UpTo
<1>5. ASSUME NEW k \in 1 .. m
      PROVE  UpTo(part, N, k - 1) < UpTo(part, N, k)
  <2>1. PICK A, B : A = {i \in 1 .. N : part[i] <= k - 1} /\ B = {i \in 1 .. N : part[i] <= k}
    OBVIOUS
  <2>2. PICK i \in 1 .. N : part[i] = k
    BY EveryPartOccurs
  <2>3. A \in SUBSET B /\ i \in B /\ i \notin A
    BY <2>1, <2>2
  <2>4. IsFiniteSet(B)
    BY <1>4, <2>1
  <2>5. Cardinality(A) <= Cardinality(B) /\ Cardinality(A) # Cardinality(B)
    BY <2>3, <2>4, FS_Subset
  <2>6. Cardinality(A) \in Nat /\ Cardinality(B) \in Nat
    BY <2>3, <2>4, FS_Subset, FS_CardinalityType
  <2> QED
    BY <2>1, <2>5, <2>6 DEF UpTo
<1> QED
  BY <1>2, <1>3, <1>4, <1>5

Cuts(u, lines, m) ==
  /\ u \in [0 .. m -> 0 .. Len(lines)]
  /\ u[0] = 0 /\ u[m] = Len(lines)
  /\ \A k \in 1 .. m : u[k - 1] < u[k]
Runs(lines, u, m) == [k \in 1 .. m |-> SubSeq(lines, u[k - 1] + 1, u[k])]

(* What allocateParts hands out: runs of lines between rising cuts. *)
LEMMA PartsAreRuns ==
  ASSUME NEW lines \in Seq(Nat \ {0}), NEW targets \in Seq(Int), CanSplit(lines, targets)
  PROVE  \E u : /\ Cuts(u, lines, Len(targets))
               /\ AllocateParts(lines, targets) = Runs(lines, u, Len(targets))
<1>1. PICK N, m : N = Len(lines) /\ m = Len(targets)
  OBVIOUS
<1>2. N \in Nat /\ m \in Nat /\ 2 <= m /\ m <= N /\ DOMAIN lines = 1 .. N /\ DOMAIN targets = 1 .. m
  BY <1>1, LenProperties DEF CanSplit
<1>3. PICK part : part = PartOf(lines, targets)
  OBVIOUS
<1>4. PartTable(part, lines, targets, N)
  BY <1>1, <1>2, <1>3, PartOfIsATable
<1>5. /\ part[1] = 1 /\ part[N] = m
      /\ \A i \in 1 .. N : part[i] \in 1 .. m
      /\ \A i \in 2 .. N : part[i] = part[i - 1] \/ part[i] = part[i - 1] + 1
  BY <1>1, <1>2, <1>4, PartsGoUp
<1>6. /\ UpTo(part, N, 0) = 0 /\ UpTo(part, N, m) = N
      /\ \A k \in 0 .. m : UpTo(part, N, k) \in 0 .. N
      /\ \A k \in 1 .. m : UpTo(part, N, k - 1) < UpTo(part, N, k)
  <2>1. 1 <= N
    BY <1>2
  <2> QED
    BY ONLY <1>2, <1>5, <2>1, CutsGoUp
<1>7. PICK u : u = [k \in 0 .. m |-> UpTo(part, N, k)]
  OBVIOUS
<1>8. \A k \in 0 .. m : u[k] = UpTo(part, N, k)
  BY <1>7
<1>9. AllocateParts(lines, targets) =
        [k \in 1 .. m |-> SubSeq(lines, UpTo(part, N, k - 1) + 1, UpTo(part, N, k))]
  BY ONLY <1>2, <1>3 DEF AllocateParts, UpTo
<1>10. \A k \in 1 .. m : k - 1 \in 0 .. m /\ k \in 0 .. m
  BY <1>2
<1>11. [k \in 1 .. m |-> SubSeq(lines, UpTo(part, N, k - 1) + 1, UpTo(part, N, k))] =
       [k \in 1 .. m |-> SubSeq(lines, u[k - 1] + 1, u[k])]
  BY ONLY <1>8, <1>10, Zenon
<1>12. u \in [0 .. m -> 0 .. N] /\ u[0] = 0 /\ u[m] = N /\ \A k \in 1 .. m : u[k - 1] < u[k]
  BY <1>2, <1>6, <1>7, <1>8, <1>10
<1> QED
  <2>1. Cuts(u, lines, m)
    BY ONLY <1>1, <1>12 DEF Cuts
  <2>2. AllocateParts(lines, targets) = Runs(lines, u, m)
    BY ONLY <1>9, <1>11 DEF Runs
  <2> QED
    BY ONLY <1>1, <2>1, <2>2

IsCutInto(lines, L, m) ==
  /\ \A k \in 1 .. m : L[k] \in Seq(Nat \ {0}) /\ L[k] # <<>> /\ Total(L[k]) \in Nat \ {0}
  /\ Total([k \in 1 .. m |-> Total(L[k])]) = Total(lines)
  /\ L \in Seq(Seq(Nat \ {0})) /\ Len(L) = m
  /\ FlattenSeq(L) = lines

(* The parts together are the original, line by line. *)
LEMMA RunsAddUp ==
  ASSUME NEW lines \in Seq(Nat \ {0}), NEW m \in Nat, 1 <= m,
         NEW u, Cuts(u, lines, m), NEW L, L = Runs(lines, u, m)
  PROVE  IsCutInto(lines, L, m)
<1>0. /\ u \in [0 .. m -> 0 .. Len(lines)] /\ u[0] = 0 /\ u[m] = Len(lines)
      /\ \A k \in 1 .. m : u[k - 1] < u[k]
  BY DEF Cuts
<1>1. PICK N : N = Len(lines)
  OBVIOUS
<1>2. N \in Nat /\ DOMAIN lines = 1 .. N /\ \A i \in 1 .. N : lines[i] \in Nat \ {0}
  BY <1>1, LenProperties
<1>3. \A k \in 1 .. m : k - 1 \in 0 .. m /\ u[k - 1] \in 0 .. N /\ u[k] \in 0 .. N /\ u[k - 1] < u[k]
  BY <1>0, <1>1
<1>4. \A k \in 1 .. m : L[k] = SubSeq(lines, u[k - 1] + 1, u[k])
  <2>1. L = [k \in 1 .. m |-> SubSeq(lines, u[k - 1] + 1, u[k])]
    BY DEF Runs
  <2> QED
    BY ONLY <2>1, Zenon
<1>5. ASSUME NEW k \in 1 .. m
      PROVE  L[k] \in Seq(Nat \ {0}) /\ L[k] # <<>> /\ Total(L[k]) \in Nat \ {0}
  <2>1. PICK a, b : a = u[k - 1] + 1 /\ b = u[k]
    OBVIOUS
  <2>2. a \in Int /\ b \in Int /\ a <= b /\ \A i \in a .. b : lines[i] \in Nat \ {0}
    <3>1. u[k - 1] \in 0 .. N /\ u[k] \in 0 .. N /\ u[k - 1] < u[k]
      BY ONLY <1>3, k \in 1 .. m
    <3>2. a \in 1 .. N /\ b \in 1 .. N /\ a <= b
      BY ONLY <1>2, <2>1, <3>1
    <3>3. \A i \in a .. b : i \in 1 .. N
      BY ONLY <1>2, <3>2
    <3> QED
      BY ONLY <1>2, <3>2, <3>3
  <2>3. L[k] \in Seq(Nat \ {0}) /\ Len(L[k]) = b - a + 1
    <3>1. L[k] = SubSeq(lines, a, b)
      BY <1>4, <2>1
    <3> QED
      BY ONLY <2>2, <3>1, SubSeqProperties
  <2>4. L[k] # <<>>
    <3>1. Len(L[k]) # Len(<<>>)
      BY ONLY <2>2, <2>3, EmptySeq
    <3> QED
      BY ONLY <3>1
  <2> QED
    BY ONLY <2>3, <2>4, TotalIsPositive
<1>6. L \in Seq(Seq(Nat \ {0})) /\ Len(L) = m
  <2>1. L \in [1 .. m -> Seq(Nat \ {0})]
    <3>1. L = [k \in 1 .. m |-> SubSeq(lines, u[k - 1] + 1, u[k])]
      BY DEF Runs
    <3> QED
      BY ONLY <1>5, <3>1
  <2> QED
    BY ONLY <2>1, m \in Nat, SeqDef
<1>7. lines \in Seq(Int)
  <2>1. Nat \ {0} \subseteq Int
    OBVIOUS
  <2> QED
    BY <2>1, SeqMonotonic
<1>8. Total([k \in 1 .. m |-> Total(L[k])]) = Total(lines)
  <2>1. PICK t : t = [k \in 1 .. m |-> Total(L[k])]
    OBVIOUS
  <2>2. \A k \in 1 .. m : t[k] = Total(L[k]) /\ t[k] \in Int
    BY <1>5, <2>1
  <2>3. \A k \in 1 .. m : t[k] = SumOver(lines, 1 .. u[k]) - SumOver(lines, 1 .. u[k - 1])
    <3> SUFFICES ASSUME NEW k \in 1 .. m
                 PROVE  Total(L[k]) = SumOver(lines, 1 .. u[k]) - SumOver(lines, 1 .. u[k - 1])
      BY <2>2
    <3>1. PICK a, b : a = u[k - 1] /\ b = u[k]
      OBVIOUS
    <3>2. a \in 0 .. Len(lines) /\ b \in a .. Len(lines)
      BY <1>1, <1>2, <1>3, <3>1
    <3>3. Total(SubSeq(lines, a + 1, b)) = SumOver(lines, 1 .. b) - SumOver(lines, 1 .. a)
      BY ONLY <1>7, <3>2, SumOfAStretch
    <3>4. L[k] = SubSeq(lines, a + 1, b)
      BY <1>4, <3>1
    <3> QED
      BY ONLY <3>1, <3>3, <3>4
  <2>4. \A b \in 0 .. N : SumOver(lines, 1 .. b) \in Int
    <3> SUFFICES ASSUME NEW b \in 0 .. N PROVE SumOver(lines, 1 .. b) \in Int
      OBVIOUS
    <3>1. IsFiniteSet(1 .. b)
      BY FS_Interval
    <3>2. \A i \in 1 .. b : lines[i] \in Int
      BY <1>2
    <3> QED
      BY ONLY <3>1, <3>2, SumIsAnInteger
  <2> DEFINE F == {k \in 0 .. m : SumOver(t, 1 .. k) # SumOver(lines, 1 .. u[k])}
  <2>5. F = {}
    <3> SUFFICES ASSUME F # {} PROVE FALSE
      OBVIOUS
    <3>1. PICK k \in F : \A e \in F : k <= e
      <4>1. F \subseteq Nat
        OBVIOUS
      <4> HIDE DEF F
      <4> QED
        BY <4>1, LeastNumber
    <3>2. k \in 0 .. m /\ SumOver(t, 1 .. k) # SumOver(lines, 1 .. u[k])
      OBVIOUS
    <3> HIDE DEF F
    <3>3. CASE k = 0
      <4>1. 1 .. 0 = {}
        OBVIOUS
      <4>2. SumOver(t, 1 .. 0) = 0 /\ SumOver(lines, 1 .. 0) = 0
        BY ONLY <4>1, SumUnfolds, FS_EmptySet
      <4> QED
        BY <1>0, <3>2, <3>3, <4>2
    <3>4. CASE k # 0
      <4>1. k \in 1 .. m /\ k \in Nat /\ k - 1 \in 0 .. m /\ ~(k <= k - 1)
        BY <3>2, <3>4
      <4>2. SumOver(t, 1 .. k - 1) = SumOver(lines, 1 .. u[k - 1])
        BY <3>1, <4>1 DEF F
      <4>3. \A i \in 1 .. k : t[i] \in Int
        BY <2>2, <4>1
      <4>4. SumOver(t, 1 .. k) = SumOver(t, 1 .. k - 1) + t[k]
        BY ONLY <3>4, <4>1, <4>3, SumUpTo
      <4>5. t[k] = SumOver(lines, 1 .. u[k]) - SumOver(lines, 1 .. u[k - 1])
        BY ONLY <2>3, <4>1
      <4>6. SumOver(lines, 1 .. u[k]) \in Int /\ SumOver(lines, 1 .. u[k - 1]) \in Int
        BY ONLY <1>3, <2>4, <4>1
      <4> QED
        BY ONLY <3>2, <4>2, <4>4, <4>5, <4>6
    <3> QED
      BY <3>3, <3>4
  <2>6. m \in 0 .. m /\ m \notin F
    <3> HIDE DEF F
    <3> QED
      BY <2>5
  <2>7. SumOver(t, 1 .. m) = SumOver(lines, 1 .. N)
    BY ONLY <1>0, <1>1, <2>6 DEF F
  <2>8. DOMAIN t = 1 .. m
    BY <2>1
  <2> QED
    BY ONLY <1>2, <2>1, <2>7, <2>8 DEF Total
<1>9. FlattenSeq(L) = lines
  <2>1. PICK fl : FlattenTable(fl, L, m) /\ FlattenSeq(L) = fl[m]
    <3>1. m # 0 /\ m \in Nat /\ Len(L) = m
      BY <1>6
    <3> QED
      BY ONLY <3>1, FlattenIsLast
  <2> DEFINE F == {k \in 1 .. m : fl[k] # SubSeq(lines, 1, u[k])}
  <2>2. F = {}
    <3> SUFFICES ASSUME F # {} PROVE FALSE
      OBVIOUS
    <3>1. PICK k \in F : \A e \in F : k <= e
      <4>1. F \subseteq Nat
        OBVIOUS
      <4> HIDE DEF F
      <4> QED
        BY <4>1, LeastNumber
    <3>2. k \in 1 .. m /\ fl[k] # SubSeq(lines, 1, u[k])
      OBVIOUS
    <3> HIDE DEF F
    <3>3. fl[k] = IF k = 1 THEN L[k] ELSE fl[k - 1] \o L[k]
      BY ONLY <2>1, <3>2, FlattenEntry
    <3>4. L[k] = SubSeq(lines, u[k - 1] + 1, u[k])
      BY ONLY <1>4, <3>2
    <3>5. CASE k = 1
      <4>1. u[k - 1] + 1 = 1
        BY <1>0, <3>5
      <4> QED
        BY ONLY <3>2, <3>3, <3>4, <3>5, <4>1
    <3>6. CASE k # 1
      <4>1. k - 1 \in 1 .. m /\ ~(k <= k - 1)
        BY <3>2, <3>6
      <4>2. fl[k - 1] = SubSeq(lines, 1, u[k - 1])
        BY <3>1, <4>1 DEF F
      <4>3. PICK a, b : a = u[k - 1] /\ b = u[k]
        OBVIOUS
      <4>4. 1 \in 1 .. Len(lines) + 1 /\ a \in 1 - 1 .. Len(lines) /\ b \in a .. Len(lines)
        <5>1. u[k - 1] \in 0 .. N /\ u[k] \in 0 .. N /\ u[k - 1] < u[k]
          BY ONLY <1>3, <3>2
        <5> QED
          BY ONLY <1>2, <1>1, <4>3, <5>1
      <4>5. SubSeq(lines, 1, a) \o SubSeq(lines, a + 1, b) = SubSeq(lines, 1, b)
        BY ONLY <4>4, lines \in Seq(Nat \ {0}), ConcatAdjacentSubSeq
      <4> QED
        BY ONLY <3>2, <3>3, <3>4, <3>6, <4>2, <4>3, <4>5
    <3> QED
      BY <3>5, <3>6
  <2>3. m \in 1 .. m /\ m \notin F
    <3> HIDE DEF F
    <3> QED
      BY <2>2
  <2>4. fl[m] = SubSeq(lines, 1, Len(lines))
    BY ONLY <1>0, <2>3 DEF F
  <2> QED
    BY ONLY <2>1, <2>4, lines \in Seq(Nat \ {0}), SubSeqFull
<1> QED
  BY ONLY <1>5, <1>6, <1>8, <1>9 DEF IsCutInto

(* The shares of the minutes are whole and add up. *)
LEMMA SharesAddUp ==
  ASSUME NEW total \in Int, NEW q \in Seq(Nat \ {0}), q # <<>>
  PROVE  /\ \A k \in 1 .. Len(q) : Apportion(total, q)[k] \in Int
         /\ Total(Apportion(total, q)) = total
<1>1. PICK n, all : n = Len(q) /\ all = Total(q)
  OBVIOUS
<1>2. n \in Nat /\ n # 0 /\ all \in Nat /\ all > 0 /\ \A k \in 1 .. n : q[k] \in Nat
  <2>1. n \in Nat /\ n # 0
    BY <1>1, LenProperties, EmptySeq
  <2>2. all \in Nat /\ all > 0
    BY <1>1, TotalIsPositive
  <2>3. \A k \in 1 .. n : q[k] \in Nat
    BY <1>1, LenProperties
  <2> QED
    BY <2>1, <2>2, <2>3
<1>3. PICK share : share = [k \in 1 .. n |-> (2 * total * q[k] + all) \div (2 * all)]
  OBVIOUS
<1>4. \A k \in 1 .. n : share[k] \in Int
  <2> SUFFICES ASSUME NEW k \in 1 .. n PROVE (2 * total * q[k] + all) \div (2 * all) \in Int
    BY <1>3
  <2>1. PICK x, y : x = 2 * total * q[k] + all /\ y = 2 * all
    OBVIOUS
  <2>2. total * q[k] \in Int
    BY <1>2
  <2>3. 2 * total * q[k] \in Int
    BY <1>2
  <2>4. x \in Int /\ y \in Int /\ y > 0
    BY <1>2, <2>1, <2>3
  <2>5. x \div y \in Int
    BY ONLY <2>4
  <2> QED
    BY ONLY <2>1, <2>5
<1>5. PICK r : r = [j \in 1 .. n - 1 |-> (2 * total * q[j] + all) \div (2 * all)]
  OBVIOUS
<1>6. PICK a : a = Apportion(total, q)
  OBVIOUS
<1>7. a = [k \in 1 .. n |-> IF k < n THEN (2 * total * q[k] + all) \div (2 * all)
                            ELSE total - Total(r)]
  BY ONLY <1>1, <1>5, <1>6 DEF Apportion
<1>8. \A k \in 1 .. n - 1 : a[k] = share[k] /\ r[k] = share[k]
  BY <1>2, <1>3, <1>5, <1>7
<1>9. a[n] = total - Total(r)
  <2>1. n \in 1 .. n /\ ~(n < n)
    BY <1>2
  <2>2. a[n] = IF n < n THEN (2 * total * q[n] + all) \div (2 * all) ELSE total - Total(r)
    BY ONLY <1>7, <2>1, Zenon
  <2> QED
    BY ONLY <2>1, <2>2
<1>10. IsFiniteSet(1 .. n - 1) /\ DOMAIN r = 1 .. n - 1 /\ DOMAIN a = 1 .. n
  <2>1. n - 1 \in Int /\ 1 \in Int
    BY <1>2
  <2>2. IsFiniteSet(1 .. n - 1)
    BY ONLY <2>1, FS_Interval
  <2> QED
    BY <1>5, <1>7, <2>2
<1>11. SumOver(r, 1 .. n - 1) = SumOver(a, 1 .. n - 1)
  <2>1. \A k \in 1 .. n - 1 : r[k] = a[k]
    BY ONLY <1>8
  <2> QED
    <3>1. PICK S : S = 1 .. n - 1
      OBVIOUS
    <3>2. IsFiniteSet(S) /\ \A k \in S : r[k] = a[k]
      BY ONLY <1>10, <2>1, <3>1
    <3>3. SumOver(r, S) = SumOver(a, S)
      BY ONLY <3>2, SumOfEqual
    <3> QED
      BY ONLY <3>1, <3>3
<1>12. Total(r) = SumOver(a, 1 .. n - 1)
  BY ONLY <1>10, <1>11 DEF Total
<1>13. SumOver(a, 1 .. n - 1) \in Int
  <2>1. \A k \in 1 .. n - 1 : a[k] \in Int
    BY <1>2, <1>4, <1>8
  <2> QED
    BY ONLY <1>10, <2>1, SumIsAnInteger
<1>14. \A k \in 1 .. n : a[k] \in Int
  <2> SUFFICES ASSUME NEW k \in 1 .. n PROVE a[k] \in Int
    OBVIOUS
  <2>1. CASE k < n
    <3>1. k \in 1 .. n - 1
      BY <1>2, <2>1
    <3> QED
      BY <1>4, <1>8, <3>1
  <2>2. CASE k = n
    BY <1>9, <1>12, <1>13, <2>2
  <2> QED
    BY <1>2, <2>1, <2>2
<1>15. SumOver(a, 1 .. n) = SumOver(a, 1 .. n - 1) + a[n]
  BY ONLY <1>2, <1>14, SumUpTo
<1>16. SumOver(a, 1 .. n) = total
  BY ONLY total \in Int, <1>9, <1>12, <1>13, <1>15
<1> QED
  BY ONLY <1>1, <1>6, <1>10, <1>14, <1>16 DEF Total

-----------------------------------------------------------------------------
(* What holds of the pool between any two steps. *)

Statuses == {"absent", "ready", "assigned", "completed", "split_container"}

PoolTypes ==
  /\ today \in Nat
  /\ st \in [Ids -> Statuses]
  /\ \A c \in Ids : IsBeleg(beleg[c])
  /\ cart \in [Workers -> Seq(Present)]

(* A case keeps the number it was booked with, the parts number on from one case. *)
Numbered ==
  /\ \A c \in Cases : \E a \in Arrivals[c] : beleg[c].no = a.no
  /\ \/ \A k \in DOMAIN Parts : Parts[k] \notin Present
     \/ \E c \in Cases : \A k \in DOMAIN Parts :
          Parts[k] \in Present => beleg[Parts[k]].no = 10 * beleg[c].no + k

LEMMA IdsAreFinite == IsFiniteSet(Ids)
<1>1. PICK n : n = Len(Parts)
  OBVIOUS
<1>2. n \in Nat /\ Parts \in [1 .. n -> PartIds] /\ DOMAIN Parts = 1 .. n
  BY <1>1, DayPlanAssumption, LenProperties
<1>3. Parts \in Surjection(1 .. n, PartIds)
  BY <1>2 DEF PartIds, Surjection
<1>4. IsFiniteSet(1 .. n)
  BY <1>2, FS_Interval
<1>5. IsFiniteSet(PartIds)
  BY <1>3, <1>4, FS_Surjection
<1> QED
  BY <1>5, DayPlanAssumption, FS_Union DEF Ids

LEMMA NumbersDiffer ==
  ASSUME PoolTypes, Numbered, NEW x \in Present, NEW y \in Present, x # y
  PROVE  beleg[x].no # beleg[y].no
<1>1. \A c \in Ids : beleg[c].no \in Nat
  BY DEF PoolTypes, IsBeleg
<1>2. \A c \in Cases : \A a \in Arrivals[c] : a.no \in Nat
  BY DayPlanAssumption DEF IsBeleg
<1>3. ASSUME NEW c \in Cases, NEW d \in Cases, c # d
      PROVE  /\ beleg[c].no # beleg[d].no
             /\ \A k \in DOMAIN Parts : 10 * beleg[c].no + k # beleg[d].no
  <2>1. PICK a \in Arrivals[c] : beleg[c].no = a.no
    BY DEF Numbered
  <2>2. PICK b \in Arrivals[d] : beleg[d].no = b.no
    BY DEF Numbered
  <2>3. a.no # b.no /\ \A k \in DOMAIN Parts : 10 * a.no + k # b.no
    BY <1>3, DayPlanAssumption DEF DistinctNumbers
  <2> QED
    BY <2>1, <2>2, <2>3
<1>4. DOMAIN Parts \subseteq Nat \ {0}
  BY DayPlanAssumption, LenProperties
<1>5. ASSUME NEW p \in PartIds, p \in Present
      PROVE  /\ \A c \in Cases : beleg[p].no # beleg[c].no
             /\ \A q \in PartIds : q \in Present /\ q # p => beleg[p].no # beleg[q].no
  <2>1. PICK k \in DOMAIN Parts : p = Parts[k]
    BY DEF PartIds
  <2>2. PICK c \in Cases : \A j \in DOMAIN Parts :
                Parts[j] \in Present => beleg[Parts[j]].no = 10 * beleg[c].no + j
    BY <1>5, <2>1 DEF Numbered
  <2>3. PICK m : m = beleg[c].no
    OBVIOUS
  <2>4. m \in Nat /\ k \in Nat \ {0} /\ beleg[p].no = 10 * m + k
    BY <1>1, <1>4, <1>5, <2>1, <2>2, <2>3 DEF Ids
  <2>5. ASSUME NEW d \in Cases PROVE beleg[p].no # beleg[d].no
    <3>1. CASE d = c
      <4>1. 10 * m + k # m
        BY <2>4
      <4> QED
        BY <2>3, <2>4, <3>1, <4>1
    <3>2. CASE d # c
      BY <1>3, <2>3, <2>4, <3>2
    <3> QED
      BY <3>1, <3>2
  <2>6. ASSUME NEW q \in PartIds, q \in Present, q # p PROVE beleg[p].no # beleg[q].no
    <3>1. PICK j \in DOMAIN Parts : q = Parts[j]
      BY DEF PartIds
    <3>2. j \in Nat \ {0} /\ beleg[q].no = 10 * m + j
      BY <1>4, <2>2, <2>3, <2>6, <3>1
    <3>3. j # k
      BY <2>1, <2>6, <3>1
    <3>4. 10 * m + k # 10 * m + j
      BY <2>4, <3>2, <3>3
    <3> QED
      BY <2>4, <3>2, <3>4
  <2> QED
    BY <2>5, <2>6
<1>6. x \in Cases \cup PartIds /\ y \in Cases \cup PartIds
  BY DEF Present, Ids
<1> QED
  BY <1>3, <1>5, <1>6

-----------------------------------------------------------------------------
(* The ladder orders the Belege of a pool strictly: no two share a number. *)

LEMMA RankIsAClass == \A b, day : Rank(b, day) \in 1 .. 6
<1> SUFFICES ASSUME NEW b, NEW day PROVE Rank(b, day) \in 1 .. 6
  OBVIOUS
<1>1. PICK load : load = LoadPlanDate(b, day)
  OBVIOUS
<1> QED
  BY <1>1 DEF Rank

LEMMA LadderIsStrict ==
  ASSUME PoolTypes, Numbered, NEW S \in SUBSET Present
  PROVE  /\ \A x \in S : ~Outranks(beleg[x], beleg[x], today)
         /\ \A x, y \in S : x # y => \/ Outranks(beleg[x], beleg[y], today)
                                     \/ Outranks(beleg[y], beleg[x], today)
         /\ \A x, y, z \in S :
              Outranks(beleg[x], beleg[y], today) /\ Outranks(beleg[y], beleg[z], today)
                => Outranks(beleg[x], beleg[z], today)
<1>1. \A x \in S : /\ Rank(beleg[x], today) \in Int
                   /\ beleg[x].day \in Int /\ beleg[x].no \in Int
  <2>1. \A x \in S : x \in Ids
    BY DEF Present
  <2>2. \A x \in S : Rank(beleg[x], today) \in 1 .. 6
    BY RankIsAClass
  <2> QED
    BY <2>1, <2>2 DEF PoolTypes, IsBeleg
<1>2. \A x, y \in S : x # y => beleg[x].no # beleg[y].no
  BY NumbersDiffer
<1> QED
  BY ONLY <1>1, <1>2 DEF Outranks

LEMMA PlanOrderIsStrict ==
  ASSUME PoolTypes, Numbered, NEW S \in SUBSET Present
  PROVE  /\ \A x \in S : ~Before(beleg[x], beleg[x], today)
         /\ \A x, y \in S : x # y => \/ Before(beleg[x], beleg[y], today)
                                     \/ Before(beleg[y], beleg[x], today)
         /\ \A x, y, z \in S :
              Before(beleg[x], beleg[y], today) /\ Before(beleg[y], beleg[z], today)
                => Before(beleg[x], beleg[z], today)
BY LadderIsStrict DEF Before

(* What StartPlan and Pull sort is in order and complete. *)
LEMMA SortedForThePlan ==
  ASSUME PoolTypes, Numbered, NEW S \in SUBSET Present,
         NEW s, s = Sorted(S, LAMBDA x, y : Before(x, y, today))
  PROVE  /\ s \in Seq(S)
         /\ \A i, j \in 1 .. Len(s) : i < j => Before(beleg[s[i]], beleg[s[j]], today)
         /\ \A c \in S : \E i \in 1 .. Len(s) : s[i] = c
<1>1. PICK R : R = {p \in S \X S : Before(beleg[p[1]], beleg[p[2]], today)}
  OBVIOUS
<1>2. \A x, y \in S : <<x, y>> \in R <=> Before(beleg[x], beleg[y], today)
  BY <1>1
<1>3. StrictlyOrders(R, S)
  BY ONLY <1>2, PoolTypes, Numbered, S \in SUBSET Present, PlanOrderIsStrict DEF StrictlyOrders
<1>4. IsFiniteSet(S)
  BY IdsAreFinite, FS_Subset DEF Present
<1>5. PICK n : n = Cardinality(S)
  OBVIOUS
<1>6. n \in Nat
  BY <1>4, <1>5, FS_CardinalityType
<1>7. s = [i \in 1 .. n |-> CHOOSE x \in S :
             Cardinality({y \in S : Before(beleg[y], beleg[x], today)}) = i - 1]
  BY ONLY <1>5, s = Sorted(S, LAMBDA x, y : Before(x, y, today)) DEF Sorted
<1>8. \A x \in S : {y \in S : Before(beleg[y], beleg[x], today)} = Ahead(S, R, x)
  BY ONLY <1>2 DEF Ahead
<1>9. ASSUME NEW i \in 1 .. n
      PROVE  s[i] \in S /\ Cardinality(Ahead(S, R, s[i])) = i - 1
  <2>1. \E x \in S : Cardinality(Ahead(S, R, x)) = i - 1
    BY ONLY <1>3, <1>4, <1>5, i \in 1 .. n, EveryPlaceIsTaken
  <2>2. \E x \in S : Cardinality({y \in S : Before(beleg[y], beleg[x], today)}) = i - 1
    BY ONLY <1>8, <2>1
  <2>3. s[i] = CHOOSE x \in S : Cardinality({y \in S : Before(beleg[y], beleg[x], today)}) = i - 1
    BY ONLY <1>7, i \in 1 .. n, Zenon
  <2>4. s[i] \in S /\ Cardinality({y \in S : Before(beleg[y], beleg[s[i]], today)}) = i - 1
    BY ONLY <2>2, <2>3, Zenon
  <2> QED
    BY ONLY <1>8, <2>4
<1>10. s \in Seq(S) /\ Len(s) = n
  <2>1. s \in [1 .. n -> S]
    BY <1>7, <1>9
  <2> QED
    BY ONLY <1>6, <2>1, SeqDef
<1>11. /\ \A i, j \in 1 .. n : i < j => <<s[i], s[j]>> \in R
       /\ \A x \in S : \E i \in 1 .. n : s[i] = x
  BY ONLY <1>3, <1>4, <1>5, <1>9, PlacesAreInOrder
<1>12. \A i \in 1 .. Len(s) : s[i] \in S
  BY ONLY <1>9, <1>10
<1> QED
  BY ONLY <1>2, <1>10, <1>11, <1>12

LEMMA SortedForThePull ==
  ASSUME PoolTypes, Numbered, NEW S \in SUBSET Present,
         NEW s, s = Sorted(S, LAMBDA x, y : Outranks(x, y, today))
  PROVE  s \in Seq(S) /\ Len(s) = Cardinality(S) /\ Len(s) \in Nat
<1>1. PICK R : R = {p \in S \X S : Outranks(beleg[p[1]], beleg[p[2]], today)}
  OBVIOUS
<1>2. \A x, y \in S : <<x, y>> \in R <=> Outranks(beleg[x], beleg[y], today)
  BY <1>1
<1>3. StrictlyOrders(R, S)
  BY ONLY <1>2, PoolTypes, Numbered, S \in SUBSET Present, LadderIsStrict DEF StrictlyOrders
<1>4. IsFiniteSet(S)
  BY IdsAreFinite, FS_Subset DEF Present
<1>5. PICK n : n = Cardinality(S)
  OBVIOUS
<1>6. n \in Nat
  BY <1>4, <1>5, FS_CardinalityType
<1>7. s = [i \in 1 .. n |-> CHOOSE x \in S :
             Cardinality({y \in S : Outranks(beleg[y], beleg[x], today)}) = i - 1]
  BY ONLY <1>5, s = Sorted(S, LAMBDA x, y : Outranks(x, y, today)) DEF Sorted
<1>8. \A x \in S : {y \in S : Outranks(beleg[y], beleg[x], today)} = Ahead(S, R, x)
  BY ONLY <1>2 DEF Ahead
<1>9. ASSUME NEW i \in 1 .. n
      PROVE  s[i] \in S
  <2>1. \E x \in S : Cardinality(Ahead(S, R, x)) = i - 1
    BY ONLY <1>3, <1>4, <1>5, i \in 1 .. n, EveryPlaceIsTaken
  <2>2. \E x \in S : Cardinality({y \in S : Outranks(beleg[y], beleg[x], today)}) = i - 1
    BY ONLY <1>8, <2>1
  <2>3. s[i] = CHOOSE x \in S : Cardinality({y \in S : Outranks(beleg[y], beleg[x], today)}) = i - 1
    BY ONLY <1>7, i \in 1 .. n, Zenon
  <2> QED
    BY ONLY <2>2, <2>3, Zenon
<1>10. s \in [1 .. n -> S]
  BY <1>7, <1>9
<1> QED
  BY ONLY <1>5, <1>6, <1>10, SeqDef

-----------------------------------------------------------------------------
(* What the Teamlead changes on a Beleg. *)

SameGoods(b, d) ==
  /\ IsBeleg(d)
  /\ d.no = b.no /\ d.lines = b.lines /\ d.teile = b.teile /\ d.minutes = b.minutes

LEMMA EditsKeepTheGoods ==
  ASSUME NEW b, IsBeleg(b), NEW v
  PROVE  /\ SameGoods(b, b)
         /\ SameGoods(b, [b EXCEPT !.flags = v])
         /\ SameGoods(b, [b EXCEPT !.manual = v])
         /\ SameGoods(b, [b EXCEPT !.released = v])
<1>1. SameGoods(b, b)
  BY DEF SameGoods
<1>2. SameGoods(b, [b EXCEPT !.flags = v])
  BY DEF SameGoods, IsBeleg
<1>3. SameGoods(b, [b EXCEPT !.manual = v])
  BY DEF SameGoods, IsBeleg
<1>4. SameGoods(b, [b EXCEPT !.released = v])
  BY DEF SameGoods, IsBeleg
<1> QED
  BY <1>1, <1>2, <1>3, <1>4

TeamleadCorrects ==
  \E S \in Selections :
    \/ \E c \in S : Prioritize(c) \/ Deprioritize(c) \/ MergeDeliveryGroup(S, c)
    \/ SplitDeliveryGroup(S) \/ ReleaseDeliveryGroup(S) \/ HoldDeliveryCases(S)

LEMMA CorrectionsKeepTheGoods ==
  ASSUME PoolTypes, TeamleadCorrects
  PROVE  /\ phase = "idle"
         /\ UNCHANGED <<today, st, cart, begun, planVars>>
         /\ \A c \in Ids : SameGoods(beleg[c], beleg'[c])
<1>0. \A c \in Ids : IsBeleg(beleg[c])
  BY DEF PoolTypes
<1>1. PICK S \in Selections :
        \/ \E c \in S : Prioritize(c) \/ Deprioritize(c) \/ MergeDeliveryGroup(S, c)
        \/ SplitDeliveryGroup(S) \/ ReleaseDeliveryGroup(S) \/ HoldDeliveryCases(S)
  BY DEF TeamleadCorrects
<1>2. ASSUME NEW c, Prioritize(c)
      PROVE  /\ phase = "idle" /\ UNCHANGED <<today, st, cart, begun, planVars>>
             /\ \A x \in Ids : SameGoods(beleg[x], beleg'[x])
  <2>1. /\ phase = "idle" /\ UNCHANGED <<today, st, cart, begun, planVars>>
        /\ beleg' = [x \in Ids |-> IF x \in {c} THEN [beleg[x] EXCEPT !.flags = @ \cup {"manual"}]
                                   ELSE beleg[x]]
    BY <1>2 DEF Prioritize, Correct
  <2>2. \A x \in Ids : SameGoods(beleg[x], beleg'[x])
    BY <1>0, <2>1, EditsKeepTheGoods
  <2> QED
    BY <2>1, <2>2
<1>3. ASSUME NEW c, Deprioritize(c)
      PROVE  /\ phase = "idle" /\ UNCHANGED <<today, st, cart, begun, planVars>>
             /\ \A x \in Ids : SameGoods(beleg[x], beleg'[x])
  <2>1. /\ phase = "idle" /\ UNCHANGED <<today, st, cart, begun, planVars>>
        /\ beleg' = [x \in Ids |-> IF x \in {c} THEN [beleg[x] EXCEPT !.flags = @ \ {"manual"}]
                                   ELSE beleg[x]]
    BY <1>3 DEF Deprioritize, Correct
  <2>2. \A x \in Ids : SameGoods(beleg[x], beleg'[x])
    BY <1>0, <2>1, EditsKeepTheGoods
  <2> QED
    BY <2>1, <2>2
<1>4. ASSUME NEW c, MergeDeliveryGroup(S, c)
      PROVE  /\ phase = "idle" /\ UNCHANGED <<today, st, cart, begun, planVars>>
             /\ \A x \in Ids : SameGoods(beleg[x], beleg'[x])
  <2>1. /\ phase = "idle" /\ UNCHANGED <<today, st, cart, begun, planVars>>
        /\ beleg' = [x \in Ids |-> IF x \in S THEN [beleg[x] EXCEPT !.manual = c] ELSE beleg[x]]
    BY <1>4 DEF MergeDeliveryGroup, Correct
  <2>2. \A x \in Ids : SameGoods(beleg[x], beleg'[x])
    BY <1>0, <2>1, EditsKeepTheGoods
  <2> QED
    BY <2>1, <2>2
<1>5. ASSUME SplitDeliveryGroup(S)
      PROVE  /\ phase = "idle" /\ UNCHANGED <<today, st, cart, begun, planVars>>
             /\ \A x \in Ids : SameGoods(beleg[x], beleg'[x])
  <2>1. /\ phase = "idle" /\ UNCHANGED <<today, st, cart, begun, planVars>>
        /\ beleg' = [x \in Ids |-> IF x \in S THEN [beleg[x] EXCEPT !.manual = "solo"] ELSE beleg[x]]
    BY <1>5 DEF SplitDeliveryGroup, Correct
  <2>2. \A x \in Ids : SameGoods(beleg[x], beleg'[x])
    BY <1>0, <2>1, EditsKeepTheGoods
  <2> QED
    BY <2>1, <2>2
<1>6. ASSUME ReleaseDeliveryGroup(S)
      PROVE  /\ phase = "idle" /\ UNCHANGED <<today, st, cart, begun, planVars>>
             /\ \A x \in Ids : SameGoods(beleg[x], beleg'[x])
  <2>1. /\ phase = "idle" /\ UNCHANGED <<today, st, cart, begun, planVars>>
        /\ beleg' = [x \in Ids |-> IF x \in S THEN [beleg[x] EXCEPT !.released = TRUE] ELSE beleg[x]]
    BY <1>6 DEF ReleaseDeliveryGroup, Correct
  <2>2. \A x \in Ids : SameGoods(beleg[x], beleg'[x])
    BY <1>0, <2>1, EditsKeepTheGoods
  <2> QED
    BY <2>1, <2>2
<1>7. ASSUME HoldDeliveryCases(S)
      PROVE  /\ phase = "idle" /\ UNCHANGED <<today, st, cart, begun, planVars>>
             /\ \A x \in Ids : SameGoods(beleg[x], beleg'[x])
  <2>1. /\ phase = "idle" /\ UNCHANGED <<today, st, cart, begun, planVars>>
        /\ beleg' = [x \in Ids |-> IF x \in S THEN [beleg[x] EXCEPT !.released = FALSE] ELSE beleg[x]]
    BY <1>7 DEF HoldDeliveryCases, Correct
  <2>2. \A x \in Ids : SameGoods(beleg[x], beleg'[x])
    BY <1>0, <2>1, EditsKeepTheGoods
  <2> QED
    BY <2>1, <2>2
<1> QED
  BY <1>1, <1>2, <1>3, <1>4, <1>5, <1>6, <1>7

(* A split: the parts are the first rows kept for parts, in their order. *)
SplitInto(c, n, L, M) ==
  /\ Len(L) = n /\ FlattenSeq(L) = beleg[c].lines
  /\ \A k \in 1 .. n : L[k] # <<>> /\ Total(L[k]) \in Nat \ {0}
  /\ Total([k \in 1 .. n |-> Total(L[k])]) = beleg[c].teile
  /\ Total(M) = beleg[c].minutes
  /\ \A k \in 1 .. n : /\ IsBeleg(beleg'[Parts[k]])
                       /\ beleg'[Parts[k]].no = 10 * beleg[c].no + k
                       /\ beleg'[Parts[k]].lines = L[k]
                       /\ beleg'[Parts[k]].teile = Total(L[k])
                       /\ beleg'[Parts[k]].minutes = M[k]
  /\ \A x \in Ids : (\A k \in 1 .. n : x # Parts[k]) => beleg'[x] = beleg[x]
  /\ \A x \in Ids : st'[x] = IF x = c THEN "split_container"
                             ELSE IF \E k \in 1 .. n : x = Parts[k] THEN "ready" ELSE st[x]

LEMMA SplitMakesParts ==
  ASSUME PoolTypes, NEW c \in Cases, NEW targets \in BoundedSeq(1 .. LargeBeleg, Len(Parts)),
         SplitCase(c, targets)
  PROVE  /\ st' \in [Ids -> Statuses]
         /\ \E n \in 2 .. Len(Parts) : \E L \in Seq(Seq(Nat \ {0})), M \in [1 .. n -> Int] :
              SplitInto(c, n, L, M)
<1> DEFINE b == beleg[c]
           D == DOMAIN targets
           lines == b.lines
           L == AllocateParts(lines, targets)
           q == [k \in D |-> Total(L[k])]
           M == Apportion(b.minutes, q)
           part(k) == [b EXCEPT !.no = 10 * @ + k, !.source = NoKey, !.size = 0,
                           !.manual = NoKey, !.released = FALSE, !.lines = L[k],
                           !.teile = q[k], !.minutes = M[k]]
           At(x) == CHOOSE k \in D : x = Parts[k]
<1>1. /\ st' = [x \in Ids |-> IF x = c THEN "split_container"
                             ELSE IF \E k \in D : x = Parts[k] THEN "ready" ELSE st[x]]
      /\ beleg' = [x \in Ids |-> IF \E k \in D : x = Parts[k] THEN part(At(x)) ELSE beleg[x]]
      /\ CanSplit(lines, targets)
  BY ONLY SplitCase(c, targets) DEF SplitCase
<1>2. (\A k \in D : q[k] = Total(L[k])) /\ q = [k \in D |-> q[k]]
  OBVIOUS
<1>3. M = [k \in 1 .. Len(q) |-> M[k]]
  BY DEF Apportion
<1>4. \A k : part(k) = [b EXCEPT !.no = 10 * @ + k, !.source = NoKey, !.size = 0,
                           !.manual = NoKey, !.released = FALSE, !.lines = L[k],
                           !.teile = q[k], !.minutes = M[k]]
  OBVIOUS
<1>5. \A x : x \in Ids => beleg'[x] = IF \E k \in D : x = Parts[k] THEN part(At(x)) ELSE beleg[x]
  <2> HIDE DEF part, At, D
  <2> QED
    BY ONLY <1>1, Zenon
<1>6. \A x : (\E k \in D : x = Parts[k]) => At(x) \in D /\ x = Parts[At(x)]
  <2> HIDE DEF D
  <2> QED
    BY ONLY Zenon
<1> HIDE DEF part, At
<1> PICK n : n = Len(targets)
  OBVIOUS
<1>7. IsBeleg(b) /\ b.lines \in Seq(Nat \ {0}) /\ b.minutes \in Int /\ b.no \in Nat
      /\ b.teile = Total(lines)
  <2>1. IsBeleg(beleg[c])
    BY DEF PoolTypes, Ids
  <2> QED
    BY <2>1 DEF IsBeleg
<1>8. n \in Nat /\ n <= Len(Parts) /\ D = 1 .. n /\ targets \in Seq(Int) /\ 2 <= n
      /\ Len(Parts) \in Nat
  <2>1. PICK m \in 0 .. Len(Parts) : targets \in [1 .. m -> 1 .. LargeBeleg]
    BY DEF BoundedSeq, SeqOf
  <2>2. m \in Nat /\ targets \in [1 .. m -> Int]
    BY <2>1
  <2>3. targets \in Seq(Int) /\ DOMAIN targets = 1 .. m
    BY ONLY <2>2, SeqDef
  <2>4. Len(targets) = m
    BY ONLY <2>2, <2>3, LenProperties
  <2>5. Len(Parts) \in Nat
    BY DayPlanAssumption, LenProperties
  <2> QED
    BY <1>1, <2>1, <2>3, <2>4, <2>5 DEF CanSplit
<1> HIDE DEF b, D, lines, L, q, M
<1>9. lines = b.lines /\ L = AllocateParts(lines, targets) /\ M = Apportion(b.minutes, q)
      /\ b = beleg[c]
  BY DEF b, D, lines, L, q, M
<1>10. PICK u : Cuts(u, lines, n) /\ L = Runs(lines, u, n)
  BY ONLY n = Len(targets), <1>1, <1>7, <1>8, <1>9, PartsAreRuns
<1>30. IsCutInto(lines, L, n)
  <2>1. 1 <= n /\ lines \in Seq(Nat \ {0}) /\ n \in Nat
    BY <1>7, <1>8, <1>9
  <2> QED
    BY ONLY <1>10, <2>1, RunsAddUp
<1>11. /\ \A k \in 1 .. n : L[k] \in Seq(Nat \ {0}) /\ L[k] # <<>> /\ Total(L[k]) \in Nat \ {0}
       /\ Total([k \in 1 .. n |-> Total(L[k])]) = Total(lines)
       /\ L \in Seq(Seq(Nat \ {0})) /\ Len(L) = n
       /\ FlattenSeq(L) = lines
  BY ONLY <1>30 DEF IsCutInto
<1>12. q \in Seq(Nat \ {0}) /\ Len(q) = n /\ q # <<>>
  <2>1. q \in [1 .. n -> Nat \ {0}]
    <3>1. \A k \in D : q[k] \in Nat \ {0}
      BY ONLY <1>2, <1>8, <1>11
    <3>2. q \in [D -> Nat \ {0}]
      BY ONLY <1>2, <3>1
    <3> QED
      BY ONLY <1>8, <3>2
  <2>2. q \in Seq(Nat \ {0}) /\ DOMAIN q = 1 .. n
    BY ONLY <1>8, <2>1, SeqDef
  <2>3. Len(q) = n
    BY ONLY <1>8, <2>2, LenProperties
  <2>4. Len(q) # Len(<<>>)
    BY ONLY <1>8, <2>3, EmptySeq
  <2> QED
    BY ONLY <2>2, <2>3, <2>4
<1>13. M \in [1 .. n -> Int] /\ Total(M) = b.minutes
  <2>1. (\A k \in 1 .. n : M[k] \in Int) /\ Total(M) = b.minutes
    BY ONLY <1>7, <1>9, <1>12, SharesAddUp
  <2> QED
    BY ONLY <1>3, <1>12, <2>1
<1>14. \A j, k \in D : Parts[j] = Parts[k] => j = k
  BY <1>8, DayPlanAssumption, LenProperties DEF IsInjective
<1>15. \A k \in D : Parts[k] \in Ids /\ Parts[k] \in PartIds
  BY <1>8, DayPlanAssumption, LenProperties DEF Ids
<1>16. ASSUME NEW k \in D
       PROVE  /\ IsBeleg(beleg'[Parts[k]])
              /\ beleg'[Parts[k]].no = 10 * b.no + k
              /\ beleg'[Parts[k]].lines = L[k]
              /\ beleg'[Parts[k]].teile = Total(L[k])
              /\ beleg'[Parts[k]].minutes = M[k]
  <2>1. At(Parts[k]) = k
    BY ONLY <1>6, <1>14, k \in D
  <2>2. beleg'[Parts[k]] = part(k)
    BY ONLY <1>5, <1>15, <2>1, k \in D
  <2>3. PICK d, v, w, m : d = beleg'[Parts[k]] /\ v = L[k] /\ w = q[k] /\ m = M[k]
    OBVIOUS
  <2>4. d = [b EXCEPT !.no = 10 * @ + k, !.source = NoKey, !.size = 0,
                      !.manual = NoKey, !.released = FALSE,
                      !.lines = v, !.teile = w, !.minutes = m]
    BY ONLY <1>4, <2>2, <2>3
  <2>5. DOMAIN b = {"no", "day", "section", "area", "flags", "nos", "bereich", "loadPlanDate",
                 "note", "source", "size", "manual", "released", "teile", "minutes", "lines"}
        /\ {b.no, b.day, b.size, b.loadPlanDate} \subseteq Nat
    BY ONLY <1>7 DEF IsBeleg
  <2>6. /\ DOMAIN d = DOMAIN b /\ d.no = 10 * b.no + k /\ d.lines = v /\ d.teile = w /\ d.minutes = m
        /\ d.day = b.day /\ d.loadPlanDate = b.loadPlanDate /\ d.size = 0
    BY ONLY <2>4, <2>5
  <2>7. 10 * b.no + k \in Nat
    BY ONLY <1>8, <2>5, k \in D
  <2>8. v \in Seq(Nat \ {0}) /\ w = Total(v) /\ m \in Int
    BY ONLY <1>2, <1>8, <1>11, <1>13, <2>3, k \in D
  <2>9. IsBeleg(d)
    BY ONLY <2>5, <2>6, <2>7, <2>8 DEF IsBeleg
  <2> QED
    BY ONLY <2>3, <2>6, <2>8, <2>9
<1>17. \A x \in Ids : (\A k \in D : x # Parts[k]) => beleg'[x] = beleg[x]
  BY ONLY <1>5
<1>18. \A x \in Ids : st'[x] = IF x = c THEN "split_container"
                              ELSE IF \E k \in D : x = Parts[k] THEN "ready" ELSE st[x]
  BY ONLY <1>1
<1>19. st' \in [Ids -> Statuses]
  BY ONLY <1>1, PoolTypes DEF PoolTypes, Statuses
<1>20. SplitInto(c, n, L, M)
  <2>1. Len(L) = n /\ FlattenSeq(L) = beleg[c].lines /\ Total(M) = beleg[c].minutes
        /\ Total([k \in 1 .. n |-> Total(L[k])]) = beleg[c].teile
    BY ONLY <1>7, <1>9, <1>11, <1>13
  <2>2. \A k \in 1 .. n : L[k] # <<>> /\ Total(L[k]) \in Nat \ {0}
    BY ONLY <1>11
  <2>3. \A k \in 1 .. n : /\ IsBeleg(beleg'[Parts[k]])
                       /\ beleg'[Parts[k]].no = 10 * beleg[c].no + k
                       /\ beleg'[Parts[k]].lines = L[k]
                       /\ beleg'[Parts[k]].teile = Total(L[k])
                       /\ beleg'[Parts[k]].minutes = M[k]
    BY ONLY <1>8, <1>9, <1>16
  <2>4. \A x \in Ids : (\A k \in 1 .. n : x # Parts[k]) => beleg'[x] = beleg[x]
    BY ONLY <1>8, <1>17
  <2>5. \A x \in Ids : st'[x] = IF x = c THEN "split_container"
                              ELSE IF \E k \in 1 .. n : x = Parts[k] THEN "ready" ELSE st[x]
    <3> SUFFICES ASSUME NEW x \in Ids
                 PROVE  st'[x] = IF x = c THEN "split_container"
                              ELSE IF \E k \in 1 .. n : x = Parts[k] THEN "ready" ELSE st[x]
      OBVIOUS
    <3>1. (\E k \in D : x = Parts[k]) <=> (\E k \in 1 .. n : x = Parts[k])
      BY ONLY <1>8
    <3> QED
      BY ONLY <1>18, <3>1, x \in Ids
  <2> QED
    BY ONLY <2>1, <2>2, <2>3, <2>4, <2>5 DEF SplitInto
<1>21. n \in 2 .. Len(Parts) /\ L \in Seq(Seq(Nat \ {0})) /\ M \in [1 .. n -> Int]
  BY ONLY <1>8, <1>11, <1>13
<1> QED
  BY ONLY <1>19, <1>20, <1>21

-----------------------------------------------------------------------------
(* The pool from step to step. *)

Reasons == {"none", "delivery_unconfirmed", "large_beleg", "no_capacity", "pool_remaining"}

PlanTypes ==
  /\ phase \in {"idle", "pack", "deal"}
  /\ todo \in Seq(Pool) /\ current \in Seq(Pool)
  /\ packs \in Seq(Seq(Pool)) /\ FlattenSeq(packs) \in Seq(Pool)
  /\ net \in [Workers -> Int]
  /\ reason \in [Ids -> Reasons]
  /\ phase = "idle" => todo = <<>> /\ current = <<>> /\ packs = <<>>
  /\ phase # "deal" => given = <<>> /\ undealt = {}
  /\ phase = "deal" => /\ todo = <<>> /\ current = <<>>
                       /\ given = [i \in DOMAIN packs |-> given[i]]
                       /\ undealt \subseteq DOMAIN packs

(* What every step leaves alone that does not split a Beleg. *)
Steady ==
  /\ \A c \in Ids : SameGoods(beleg[c], beleg'[c])
  /\ st' \in [Ids -> Statuses] /\ today' \in Nat
  /\ \A c \in Ids : st[c] # "absent" => st'[c] # "absent"
  /\ \A p \in PartIds : st[p] = "absent" => st'[p] = "absent"
  /\ \A c \in Ids : st'[c] = "split_container" => st[c] = "split_container"
  /\ cart' \in [Workers -> Seq(Present')]

Splits ==
  \E c \in Cases, targets \in BoundedSeq(1 .. LargeBeleg, Len(Parts)) : SplitCase(c, targets)

LEMMA CartsStayFilled ==
  ASSUME NEW P, NEW Q, P \subseteq Q, NEW f \in [Workers -> Seq(P)]
  PROVE  f \in [Workers -> Seq(Q)]
<1>1. \A e \in Workers : f[e] \in Seq(Q)
  BY SeqMonotonic
<1> QED
  BY <1>1

LEMMA FollowUpIsFromThePool ==
  ASSUME NEW S, NEW s \in Seq(S), s # <<>>, NEW budget
  PROVE  FollowUp(s, budget) \in Seq(S)
<1> DEFINE fits(n) == LET r == SubSeq(s, 1, n) IN
        /\ \A i \in 1 .. n : beleg[r[i]].bereich = beleg[r[1]].bereich
        /\ n > 1 => Teile(r) <= MaxFollowUp
        /\ \A m \in 1 .. n - 1 : /\ Teile(SubSeq(r, 1, m)) < MinFollowUp
                                 /\ Minutes(SubSeq(r, 1, m)) < budget
           M == {n \in 1 .. Len(s) : fits(n)}
<1>1. FollowUp(s, budget) = SubSeq(s, 1, Max(M))
  BY DEF FollowUp
<1>2. fits(1)
  OBVIOUS
<1> HIDE DEF fits
<1>3. Len(s) \in Nat /\ Len(s) # 0 /\ \A i \in 1 .. Len(s) : s[i] \in S
  BY LenProperties, EmptySeq
<1>4. 1 \in M
  BY <1>2, <1>3
<1>5. PICK m \in M : \A n \in M : m >= n
  <2>1. M \in SUBSET (1 .. Len(s)) /\ IsFiniteSet(1 .. Len(s))
    BY <1>3, FS_Interval
  <2>2. IsFiniteSet(M) /\ M \subseteq Int
    BY <2>1, FS_Subset
  <2> HIDE DEF M
  <2> QED
    BY <1>4, <2>2, GreatestNumber
<1>6. Max(M) \in M
  <2>1. \E x \in M : \A n \in M : x >= n
    BY <1>5
  <2> HIDE DEF M
  <2> QED
    BY ONLY <2>1, Zenon DEF Max
<1>7. PICK k : k = Max(M)
  OBVIOUS
<1>8. k \in 1 .. Len(s)
  BY <1>6, <1>7
<1>9. \A i \in 1 .. k : s[i] \in S
  BY <1>3, <1>8
<1> QED
  BY <1>1, <1>7, <1>8, <1>9, SubSeqProperties

LEMMA PullsAreSteady ==
  ASSUME PoolTypes, Numbered, NEW e \in Workers, NEW budget, Pull(e, budget)
  PROVE  Steady
<1> DEFINE mine == {c \in Pool : /\ beleg[c].teile < LargeBeleg
                                 /\ Skills[e] # {} => beleg[c].bereich \in Skills[e]}
           s == Sorted(mine, LAMBDA x, y : Outranks(x, y, today))
           pack == FollowUp(s, budget)
<1>1. /\ mine # {}
      /\ cart' = [cart EXCEPT ![e] = pack]
      /\ st' = [c \in Ids |-> IF c \in ToSet(pack) THEN "assigned" ELSE st[c]]
      /\ UNCHANGED <<today, beleg>>
  BY DEF Pull
<1>2. mine \in SUBSET Present /\ mine \subseteq Pool /\ IsFiniteSet(mine)
  <2>1. mine \in SUBSET Ids
    BY DEF Pool
  <2>2. IsFiniteSet(mine)
    BY <2>1, IdsAreFinite, FS_Subset
  <2> QED
    BY <2>2 DEF Pool, Present
<1> HIDE DEF mine
<1>3. s \in Seq(mine) /\ Len(s) = Cardinality(mine)
  BY ONLY <1>2, PoolTypes, Numbered, SortedForThePull
<1> HIDE DEF s
<1>4. s # <<>>
  <2>1. Cardinality(mine) # 0
    BY <1>1, <1>2, FS_EmptySet
  <2>2. Len(s) # Len(<<>>)
    BY ONLY <1>3, <2>1, EmptySeq
  <2> QED
    BY ONLY <2>2
<1>5. pack \in Seq(mine)
  BY ONLY <1>3, <1>4, FollowUpIsFromThePool
<1> HIDE DEF pack
<1>6. ToSet(pack) \subseteq Pool
  BY <1>2, <1>5, LenProperties DEF ToSet
<1>7. /\ st' \in [Ids -> Statuses]
      /\ \A c \in Ids : st[c] # "absent" => st'[c] # "absent"
      /\ \A c \in Ids : st[c] = "absent" => st'[c] = "absent"
      /\ \A c \in Ids : st'[c] = "split_container" => st[c] = "split_container"
  BY <1>1, <1>6 DEF PoolTypes, Statuses, Pool
<1>8. Present \subseteq Present' /\ mine \subseteq Present'
  BY <1>2, <1>7 DEF Present
<1>9. cart' \in [Workers -> Seq(Present')]
  <2>1. cart \in [Workers -> Seq(Present')]
    BY <1>8, CartsStayFilled DEF PoolTypes
  <2>2. pack \in Seq(Present')
    BY <1>5, <1>8, SeqMonotonic
  <2> QED
    BY <1>1, <2>1, <2>2
<1>10. \A c \in Ids : SameGoods(beleg[c], beleg'[c])
  BY <1>1, EditsKeepTheGoods DEF PoolTypes
<1> QED
  BY <1>1, <1>7, <1>9, <1>10 DEF Steady, PoolTypes, Ids

LEMMA PlanningIsSteady ==
  ASSUME PoolTypes, PlanTypes, (\E capacity \in Shifts : StartPlan(capacity)) \/ Persist
  PROVE  Steady
<1>1. UNCHANGED <<today, beleg>>
  BY DEF StartPlan, Persist
<1>2. \A c \in Ids : SameGoods(beleg[c], beleg'[c])
  BY <1>1, EditsKeepTheGoods DEF PoolTypes
<1>3. CASE \E capacity \in Shifts : StartPlan(capacity)
  <2>1. PICK capacity \in Shifts : StartPlan(capacity)
    BY <1>3
  <2>2. PICK back : back = UNION {ToSet(cart[e]) : e \in Workers \ begun}
    OBVIOUS
  <2>3. /\ st' = [c \in Ids |-> IF c \in back THEN "ready" ELSE st[c]]
        /\ cart' = [e \in Workers |-> IF e \in Workers \ begun THEN <<>> ELSE cart[e]]
    BY <2>1, <2>2 DEF StartPlan
  <2>4. back \subseteq Present
    <3>1. \A e \in Workers : cart[e] \in Seq(Present)
      BY DEF PoolTypes
    <3>2. \A e \in Workers : ToSet(cart[e]) \subseteq Present
      BY <3>1, LenProperties DEF ToSet
    <3> QED
      BY <2>2, <3>2
  <2>5. /\ st' \in [Ids -> Statuses]
        /\ \A c \in Ids : st[c] # "absent" => st'[c] # "absent"
        /\ \A c \in Ids : st[c] = "absent" => st'[c] = "absent"
        /\ \A c \in Ids : st'[c] = "split_container" => st[c] = "split_container"
    BY <2>3, <2>4 DEF PoolTypes, Statuses, Present
  <2>6. cart \in [Workers -> Seq(Present')]
    <3>1. Present \subseteq Present'
      BY <2>5 DEF Present
    <3> QED
      BY <3>1, CartsStayFilled DEF PoolTypes
  <2>7. cart' \in [Workers -> Seq(Present')]
    BY <2>3, <2>6
  <2> QED
    BY <1>1, <1>2, <2>5, <2>7 DEF Steady, PoolTypes, Ids
<1>4. CASE Persist
  <2>1. /\ st' = [c \in Ids |-> IF \E i \in DOMAIN packs : given[i] # 0 /\ c \in ToSet(packs[i])
                                THEN "assigned" ELSE st[c]]
        /\ cart' = [e \in Workers |-> IF {i \in DOMAIN packs : given[i] = e} = {} THEN cart[e]
                                      ELSE packs[CHOOSE i \in {j \in DOMAIN packs : given[j] = e} : TRUE]]
    BY <1>4 DEF Persist
  <2>2. \A i \in DOMAIN packs : packs[i] \in Seq(Pool)
    BY LenProperties DEF PlanTypes
  <2>3. \A i \in DOMAIN packs : ToSet(packs[i]) \subseteq Pool
    BY <2>2, LenProperties DEF ToSet
  <2>4. /\ st' \in [Ids -> Statuses]
        /\ \A c \in Ids : st[c] # "absent" => st'[c] # "absent"
        /\ \A c \in Ids : st[c] = "absent" => st'[c] = "absent"
        /\ \A c \in Ids : st'[c] = "split_container" => st[c] = "split_container"
    BY <2>1, <2>3 DEF PoolTypes, Statuses, Pool
  <2>5. Present \subseteq Present' /\ Pool \subseteq Present'
    BY <2>4 DEF Present, Pool
  <2>6. cart \in [Workers -> Seq(Present')]
    BY <2>5, CartsStayFilled DEF PoolTypes
  <2>7. ASSUME NEW e \in Workers, {i \in DOMAIN packs : given[i] = e} # {}
        PROVE  packs[CHOOSE i \in {j \in DOMAIN packs : given[j] = e} : TRUE] \in Seq(Present')
    <3>1. PICK i : i = CHOOSE k \in {j \in DOMAIN packs : given[j] = e} : TRUE
      OBVIOUS
    <3>2. i \in DOMAIN packs
      BY <2>7, <3>1
    <3>3. packs[i] \in Seq(Present')
      BY <2>2, <2>5, <3>2, SeqMonotonic
    <3> QED
      BY <3>1, <3>3
  <2>8. cart' \in [Workers -> Seq(Present')]
    BY <2>1, <2>6, <2>7
  <2> QED
    BY <1>1, <1>2, <2>4, <2>8 DEF Steady, PoolTypes, Ids
<1> QED
  BY <1>3, <1>4

LEMMA StepsAreSteady ==
  ASSUME PoolTypes, Numbered, PlanTypes, [Next]_vars, ~Splits
  PROVE  Steady
<1>1. \A c \in Ids : SameGoods(beleg[c], beleg[c])
  BY EditsKeepTheGoods DEF PoolTypes
<1>2. ASSUME UNCHANGED <<st, beleg, cart>>, today' \in Nat PROVE Steady
  BY <1>1, <1>2 DEF Steady, PoolTypes, Present, Ids
<1>3. ASSUME NEW c \in Cases, Book(c) PROVE Steady
  <2>1. /\ st' = [st EXCEPT ![c] = "ready"] /\ UNCHANGED <<today, beleg, cart>>
    BY <1>3 DEF Book
  <2>2. c \in Ids /\ c \notin PartIds
    BY DayPlanAssumption DEF Ids
  <2>3. /\ st' \in [Ids -> Statuses]
        /\ \A x \in Ids : st[x] # "absent" => st'[x] # "absent"
        /\ \A x \in PartIds : st[x] = "absent" => st'[x] = "absent"
        /\ \A x \in Ids : st'[x] = "split_container" => st[x] = "split_container"
    BY <2>1, <2>2 DEF PoolTypes, Statuses, Ids
  <2>4. cart \in [Workers -> Seq(Present')]
    <3>1. Present \subseteq Present'
      BY <2>3 DEF Present
    <3> QED
      BY <3>1, CartsStayFilled DEF PoolTypes
  <2> QED
    BY <1>1, <2>1, <2>3, <2>4 DEF Steady, PoolTypes
<1>4. ASSUME NEW e \in Workers, Finish(e) PROVE Steady
  <2>1. /\ st' = [c \in Ids |-> IF c \in ToSet(cart[e]) THEN "completed" ELSE st[c]]
        /\ cart' = [cart EXCEPT ![e] = <<>>] /\ UNCHANGED <<today, beleg>>
    BY <1>4 DEF Finish
  <2>2. ToSet(cart[e]) \subseteq Present
    <3>1. cart[e] \in Seq(Present)
      BY DEF PoolTypes
    <3> QED
      BY <3>1, LenProperties DEF ToSet
  <2>3. /\ st' \in [Ids -> Statuses]
        /\ \A c \in Ids : st[c] # "absent" => st'[c] # "absent"
        /\ \A c \in Ids : st[c] = "absent" => st'[c] = "absent"
        /\ \A c \in Ids : st'[c] = "split_container" => st[c] = "split_container"
    BY <2>1, <2>2 DEF PoolTypes, Statuses, Present
  <2>4. cart \in [Workers -> Seq(Present')]
    <3>1. Present \subseteq Present'
      BY <2>3 DEF Present
    <3> QED
      BY <3>1, CartsStayFilled DEF PoolTypes
  <2>5. cart' \in [Workers -> Seq(Present')]
    BY <2>1, <2>4
  <2> QED
    BY <1>1, <2>1, <2>3, <2>5 DEF Steady, PoolTypes, Ids
<1>5. CASE TeamleadCorrects
  <2>1. UNCHANGED <<today, st, cart>> /\ \A c \in Ids : SameGoods(beleg[c], beleg'[c])
    BY <1>5, CorrectionsKeepTheGoods
  <2> QED
    BY <2>1 DEF Steady, PoolTypes, Present, Ids
<1>6. CASE NextDay
  <2>1. UNCHANGED <<st, beleg, cart>> /\ today' = today + 1
    BY <1>6 DEF NextDay
  <2> QED
    BY <1>2, <2>1 DEF PoolTypes
<1>7. ASSUME NEW e \in Workers, Begin(e) PROVE Steady
  BY <1>2, <1>7 DEF Begin, PoolTypes
<1>8. CASE Overflow \/ Pack \/ CloseLast \/ Deal
  <2>1. UNCHANGED poolVars
    BY <1>8 DEF Overflow, Pack, CloseLast, Deal
  <2> QED
    BY <1>2, <2>1 DEF PoolTypes, poolVars
<1>9. CASE UNCHANGED vars
  BY <1>2, <1>9 DEF PoolTypes, vars, poolVars
<1>10. Next <=> \/ \E c \in Cases : Book(c)
                \/ NextDay
                \/ TeamleadCorrects
                \/ Splits
                \/ \E e \in Workers : Begin(e) \/ Finish(e)
                \/ \E capacity \in Shifts : StartPlan(capacity)
                \/ Overflow \/ Pack \/ CloseLast \/ Deal \/ Persist
                \/ \E e \in Workers, budget \in Budgets : Pull(e, budget)
  BY DEF Next, TeamleadCorrects, Splits
<1>11. CASE Next
  BY <1>3, <1>4, <1>5, <1>6, <1>7, <1>8, <1>10, <1>11, PullsAreSteady, PlanningIsSteady
<1> QED
  BY <1>9, <1>11

LEMMA PoolIsKept ==
  ASSUME PoolTypes, Numbered, PlanTypes, [Next]_vars
  PROVE  PoolTypes' /\ Numbered'
<1>1. CASE Steady
  <2>1. /\ \A c \in Ids : IsBeleg(beleg'[c]) /\ beleg'[c].no = beleg[c].no
        /\ \A p \in PartIds : st[p] = "absent" <=> st'[p] = "absent"
    BY <1>1 DEF Steady, SameGoods, Ids
  <2>2. PoolTypes'
    BY <1>1, <2>1 DEF Steady, PoolTypes
  <2>3. \A k \in DOMAIN Parts : Parts[k] \in PartIds /\ Parts[k] \in Ids
    BY DEF PartIds, Ids
  <2>4. \A k \in DOMAIN Parts : Parts[k] \in Present <=> Parts[k] \in Present'
    BY <2>1, <2>3 DEF Present
  <2>5. \A c \in Cases : beleg'[c].no = beleg[c].no
    BY <2>1 DEF Ids
  <2>6. \A k \in DOMAIN Parts : beleg'[Parts[k]].no = beleg[Parts[k]].no
    BY <2>1, <2>3
  <2>7. Numbered'
    BY <2>4, <2>5, <2>6 DEF Numbered
  <2> QED
    BY <2>2, <2>7
<1>2. ASSUME NEW c \in Cases, NEW targets \in BoundedSeq(1 .. LargeBeleg, Len(Parts)),
             SplitCase(c, targets)
      PROVE  PoolTypes' /\ Numbered'
  <2>1. /\ phase = "idle" /\ UNCHANGED <<today, cart>> /\ st[c] = "ready"
        /\ \A p \in PartIds : st[p] = "absent"
    BY <1>2 DEF SplitCase
  <2>2. PICK n \in 2 .. Len(Parts) : \E L \in Seq(Seq(Nat \ {0})), M \in [1 .. n -> Int] :
              SplitInto(c, n, L, M)
    BY <1>2, SplitMakesParts
  <2>3. /\ \A k \in 1 .. n : IsBeleg(beleg'[Parts[k]]) /\ beleg'[Parts[k]].no = 10 * beleg[c].no + k
        /\ \A x \in Ids : (\A k \in 1 .. n : x # Parts[k]) => beleg'[x] = beleg[x]
        /\ \A x \in Ids : st'[x] = IF x = c THEN "split_container"
                             ELSE IF \E k \in 1 .. n : x = Parts[k] THEN "ready" ELSE st[x]
    BY <2>2 DEF SplitInto
  <2>4. Len(Parts) \in Nat /\ n \in Nat /\ DOMAIN Parts = 1 .. Len(Parts) /\ 1 .. n \subseteq DOMAIN Parts
    BY DayPlanAssumption, LenProperties
  <2>5. \A k \in DOMAIN Parts : Parts[k] \in PartIds /\ Parts[k] \in Ids /\ Parts[k] \notin Cases
    BY DayPlanAssumption DEF PartIds, Ids
  <2>6. \A x \in Ids : IsBeleg(beleg'[x])
    BY <2>3 DEF PoolTypes
  <2>7. \A x \in Ids : st[x] # "absent" => st'[x] # "absent"
    BY <2>3
  <2>8. cart' \in [Workers -> Seq(Present')]
    <3>1. Present \subseteq Present'
      BY <2>7 DEF Present
    <3> QED
      BY <2>1, <3>1, CartsStayFilled DEF PoolTypes
  <2>9. PoolTypes'
    BY <1>2, <2>1, <2>6, <2>8, SplitMakesParts DEF PoolTypes
  <2>10. \A d \in Cases : beleg'[d] = beleg[d]
    BY <2>3, <2>4, <2>5 DEF Ids
  <2>11. \A k \in DOMAIN Parts : Parts[k] \in Present' => k \in 1 .. n
    <3> SUFFICES ASSUME NEW k \in DOMAIN Parts, Parts[k] \in Present'
                 PROVE  k \in 1 .. n
      OBVIOUS
    <3>1. st[Parts[k]] = "absent" /\ st'[Parts[k]] # "absent" /\ Parts[k] # c
      BY <2>1, <2>5 DEF Present
    <3>2. PICK j \in 1 .. n : Parts[k] = Parts[j]
      BY <2>3, <2>5, <3>1
    <3>3. j = k
      BY <2>4, <3>2, DayPlanAssumption DEF IsInjective
    <3> QED
      BY <3>3
  <2>12. Numbered'
    BY <2>3, <2>10, <2>11 DEF Numbered
  <2> QED
    BY <2>9, <2>12
<1> QED
  BY <1>1, <1>2, StepsAreSteady DEF Splits

-----------------------------------------------------------------------------
(* The line of a recalculation: what is in packs, the open pack, what waits. *)

Done == FlattenSeq(packs) \o current

LEMMA LineTypes ==
  ASSUME PlanTypes
  PROVE  /\ Done \in Seq(Pool) /\ Places \in Seq(Pool) /\ Places = Done \o todo
         /\ Len(Done) \in Nat /\ Len(todo) \in Nat /\ Len(Places) = Len(Done) + Len(todo)
         /\ \A i \in 1 .. Len(Places) :
              Places[i] = IF i <= Len(Done) THEN Done[i] ELSE todo[i - Len(Done)]
<1>1. Done \in Seq(Pool)
  BY ConcatProperties DEF Done, PlanTypes
<1>2. Places = Done \o todo
  BY DEF Done, Places
<1>3. PICK d, t, P : d = Done /\ t = todo /\ P = Places
  OBVIOUS
<1>4. d \in Seq(Pool) /\ t \in Seq(Pool) /\ P = d \o t
  BY <1>1, <1>2, <1>3 DEF PlanTypes
<1>5. /\ P \in Seq(Pool) /\ Len(P) = Len(d) + Len(t)
      /\ \A i \in 1 .. Len(d) + Len(t) : P[i] = IF i <= Len(d) THEN d[i] ELSE t[i - Len(d)]
  BY ONLY <1>4, ConcatProperties
<1>6. Len(d) \in Nat /\ Len(t) \in Nat
  BY ONLY <1>4, LenProperties
<1> QED
  BY ONLY <1>3, <1>4, <1>5, <1>6

(* Packing moves the head of what waits to the end of what is done, in every case. *)
LEMMA PackMovesOne ==
  ASSUME PlanTypes, Pack
  PROVE  /\ Head(todo) \in Pool /\ Tail(todo) \in Seq(Pool)
         /\ Pool' = Pool /\ beleg' = beleg /\ today' = today /\ groups' = groups
         /\ packs' \in Seq(Seq(Pool)) /\ FlattenSeq(packs') \in Seq(Pool) /\ current' \in Seq(Pool)
         /\ Done' = Append(Done, Head(todo))
         /\ Places' = Places
<1>1. /\ todo # <<>> /\ todo' = Tail(todo) /\ UNCHANGED <<poolVars, groups>>
  BY DEF Pack
<1>2. /\ todo \in Seq(Pool) /\ current \in Seq(Pool)
      /\ packs \in Seq(Seq(Pool)) /\ FlattenSeq(packs) \in Seq(Pool)
  BY DEF PlanTypes
<1>3. PICK c, rest : c = Head(todo) /\ rest = Tail(todo)
  OBVIOUS
<1>4. c \in Pool /\ rest \in Seq(Pool)
  BY ONLY <1>1, <1>2, <1>3, HeadTailProperties
<1>5. <<c>> \in Seq(Pool) /\ <<c>> \o rest = todo
  <2>1. <<c>> \in Seq(Pool)
    BY ONLY <1>4
  <2>2. <<c>> \o rest = todo
    BY ONLY <1>1, <1>2, <1>3
  <2> QED
    BY <2>1, <2>2
<1>6. PICK F, open, closed :
        /\ F = FlattenSeq(packs)
        /\ open = (IF MustClose(c) THEN <<c>> ELSE Append(current, c))
        /\ closed = (IF MustClose(c) THEN Append(packs, current) ELSE packs)
  OBVIOUS
<1>7. /\ packs' = IF MayClose(open) THEN Append(closed, open) ELSE closed
      /\ current' = IF MayClose(open) THEN <<>> ELSE open
  BY ONLY Pack, <1>3, <1>6 DEF Pack
<1>8. open \in Seq(Pool) /\ Append(current, c) = current \o <<c>>
  BY ONLY <1>2, <1>4, <1>5, <1>6, AppendProperties
<1>9. closed \in Seq(Seq(Pool)) /\ FlattenSeq(closed) \in Seq(Pool)
      /\ FlattenSeq(closed) \o open = (F \o current) \o <<c>>
  <2>1. CASE MustClose(c)
    <3>1. /\ FlattenSeq(Append(packs, current)) = F \o current
          /\ FlattenSeq(Append(packs, current)) \in Seq(Pool)
          /\ Append(packs, current) \in Seq(Seq(Pool))
      BY ONLY <1>2, <1>6, FlattenJoin
    <3> QED
      BY ONLY <1>6, <2>1, <3>1
  <2>2. CASE ~MustClose(c)
    <3>1. closed = packs /\ open = current \o <<c>>
      BY ONLY <1>6, <1>8, <2>2
    <3>2. F \o (current \o <<c>>) = (F \o current) \o <<c>>
      <4>1. F \in Seq(Pool) /\ current \in Seq(Pool) /\ <<c>> \in Seq(Pool)
        BY ONLY <1>2, <1>5, <1>6
      <4> QED
        BY ONLY <4>1, ConcatAssociative
    <3> QED
      BY ONLY <1>2, <1>6, <3>1, <3>2
  <2> QED
    BY ONLY <2>1, <2>2
<1>10. /\ packs' \in Seq(Seq(Pool)) /\ FlattenSeq(packs') \in Seq(Pool) /\ current' \in Seq(Pool)
       /\ FlattenSeq(packs') \o current' = (F \o current) \o <<c>>
  <2>1. CASE MayClose(open)
    <3>1. /\ FlattenSeq(Append(closed, open)) = FlattenSeq(closed) \o open
          /\ FlattenSeq(Append(closed, open)) \in Seq(Pool)
          /\ Append(closed, open) \in Seq(Seq(Pool))
      BY ONLY <1>8, <1>9, FlattenJoin
    <3>2. packs' = Append(closed, open) /\ current' = <<>>
      BY ONLY <1>7, <2>1
    <3>3. FlattenSeq(Append(closed, open)) \o <<>> = FlattenSeq(Append(closed, open))
      BY ONLY <3>1, ConcatEmptySeq
    <3>4. <<>> \in Seq(Pool)
      BY ONLY EmptySeq
    <3> QED
      BY ONLY <1>9, <3>1, <3>2, <3>3, <3>4
  <2>2. CASE ~MayClose(open)
    BY ONLY <1>7, <1>8, <1>9, <2>2
  <2> QED
    BY ONLY <2>1, <2>2
<1>11. Done' = Done \o <<c>> /\ Done \in Seq(Pool)
  BY ONLY <1>2, <1>6, <1>10, ConcatProperties DEF Done
<1>12. Done \o <<c>> = Append(Done, c)
  BY ONLY <1>4, <1>11, AppendProperties
<1>13. Places' = Places
  <2>1. (Done \o <<c>>) \o rest = Done \o (<<c>> \o rest)
    BY ONLY <1>4, <1>5, <1>11, ConcatAssociative
  <2>2. Places' = Done' \o todo' /\ Places = Done \o todo
    BY DEF Places, Done
  <2> QED
    BY ONLY <1>1, <1>3, <1>5, <1>11, <2>1, <2>2
<1>14. Pool' = Pool /\ beleg' = beleg /\ today' = today /\ groups' = groups
  BY <1>1 DEF Pool, poolVars
<1> QED
  BY ONLY <1>3, <1>4, <1>10, <1>11, <1>12, <1>13, <1>14

(* What is left out takes its place out of the line. *)
LEMMA OverflowTakesOut ==
  ASSUME PlanTypes, Overflow
  PROVE  /\ Head(todo) \in Pool /\ Tail(todo) \in Seq(Pool) /\ Len(todo) # 0
         /\ Pool' = Pool /\ beleg' = beleg /\ today' = today /\ groups' = groups
         /\ UNCHANGED <<phase, net, packs, current, given, undealt>>
         /\ Done' = Done /\ Places' \in Seq(Pool) /\ Len(Places') = Len(Places) - 1
         /\ Places[Len(Done) + 1] = Head(todo)
         /\ \A i \in 1 .. Len(Places') :
              Places'[i] = IF i <= Len(Done) THEN Places[i] ELSE Places[i + 1]
<1>1. /\ todo # <<>> /\ todo' = Tail(todo)
      /\ UNCHANGED <<poolVars, phase, groups, net, packs, current, given, undealt>>
  BY DEF Overflow
<1>2. PICK d, t, r, P, R : d = Done /\ t = todo /\ r = Tail(todo) /\ P = Places /\ R = Places'
  OBVIOUS
<1>3. /\ d \in Seq(Pool) /\ t \in Seq(Pool) /\ P = d \o t /\ P \in Seq(Pool)
      /\ Len(d) \in Nat /\ Len(t) \in Nat /\ Len(P) = Len(d) + Len(t)
      /\ \A i \in 1 .. Len(P) : P[i] = IF i <= Len(d) THEN d[i] ELSE t[i - Len(d)]
  BY <1>2, LineTypes DEF PlanTypes
<1>4. Done' = Done /\ R = d \o r
  BY <1>1, <1>2 DEF Places, Done
<1>5. /\ Head(t) \in Pool /\ r \in Seq(Pool) /\ Len(r) = Len(t) - 1 /\ Len(t) # 0
      /\ \A i \in 1 .. Len(r) : r[i] = t[i + 1]
  <2>1. t # <<>> /\ r = Tail(t)
    BY <1>1, <1>2
  <2>2. Len(t) # 0
    BY ONLY <1>3, <2>1, EmptySeq
  <2> QED
    BY ONLY <1>3, <2>1, <2>2, HeadTailProperties
<1>6. /\ R \in Seq(Pool) /\ Len(R) = Len(d) + Len(r)
      /\ \A i \in 1 .. Len(d) + Len(r) : R[i] = IF i <= Len(d) THEN d[i] ELSE r[i - Len(d)]
  <2>1. d \in Seq(Pool) /\ r \in Seq(Pool)
    BY ONLY <1>3, <1>5
  <2>2. /\ d \o r \in Seq(Pool) /\ Len(d \o r) = Len(d) + Len(r)
        /\ \A i \in 1 .. Len(d) + Len(r) : (d \o r)[i] = IF i <= Len(d) THEN d[i] ELSE r[i - Len(d)]
    BY ONLY <2>1, ConcatProperties
  <2> QED
    BY ONLY <1>4, <2>2
<1>7. Len(R) = Len(P) - 1
  BY ONLY <1>3, <1>5, <1>6
<1>8. ASSUME NEW i \in 1 .. Len(R)
      PROVE  R[i] = IF i <= Len(d) THEN P[i] ELSE P[i + 1]
  <2>1. i \in 1 .. Len(P) /\ i + 1 \in 1 .. Len(P) /\ i \in Int
    BY ONLY <1>3, <1>5, <1>6, <1>7, i \in 1 .. Len(R)
  <2>2. CASE i <= Len(d)
    BY ONLY <1>3, <1>6, <2>1, <2>2, i \in 1 .. Len(R)
  <2>3. CASE ~(i <= Len(d))
    <3>1. R[i] = r[i - Len(d)]
      BY ONLY <1>6, <2>3, i \in 1 .. Len(R)
    <3>2. i - Len(d) \in 1 .. Len(r) /\ (i - Len(d)) + 1 = (i + 1) - Len(d) /\ ~(i + 1 <= Len(d))
      BY ONLY <1>3, <1>5, <1>6, <2>1, <2>3, i \in 1 .. Len(R)
    <3>3. r[i - Len(d)] = t[(i + 1) - Len(d)]
      BY ONLY <1>5, <3>2
    <3>4. P[i + 1] = t[(i + 1) - Len(d)]
      BY ONLY <1>3, <2>1, <3>2
    <3> QED
      BY ONLY <2>3, <3>1, <3>3, <3>4
  <2> QED
    BY ONLY <2>2, <2>3
<1>9. P[Len(d) + 1] = Head(t)
  <2>1. Len(d) + 1 \in 1 .. Len(P) /\ ~(Len(d) + 1 <= Len(d)) /\ (Len(d) + 1) - Len(d) = 1
    BY ONLY <1>3, <1>5
  <2>2. P[Len(d) + 1] = t[1]
    BY ONLY <1>3, <2>1
  <2> QED
    BY ONLY <1>3, <1>5, <2>2
<1>10. Pool' = Pool /\ beleg' = beleg /\ today' = today
  BY <1>1 DEF Pool, poolVars
<1> QED
  BY ONLY <1>1, <1>2, <1>4, <1>5, <1>6, <1>7, <1>8, <1>9, <1>10

LEMMA CloseLastKeepsTheLine ==
  ASSUME PlanTypes, CloseLast
  PROVE  /\ packs' \in Seq(Seq(Pool)) /\ FlattenSeq(packs') \in Seq(Pool)
         /\ FlattenSeq(packs') = Done
         /\ todo' = <<>> /\ current' = <<>> /\ todo = <<>>
         /\ Done' = Done /\ Places' = Places /\ Places = Done
         /\ Pool' = Pool /\ beleg' = beleg /\ today' = today /\ groups' = groups
<1>1. /\ todo = <<>> /\ todo' = <<>> /\ current' = <<>>
      /\ packs' = IF current = <<>> THEN packs ELSE Append(packs, current)
      /\ UNCHANGED <<poolVars, groups>>
  BY DEF CloseLast
<1>2. /\ current \in Seq(Pool) /\ packs \in Seq(Seq(Pool)) /\ FlattenSeq(packs) \in Seq(Pool)
  BY DEF PlanTypes
<1>3. PICK F : F = FlattenSeq(packs)
  OBVIOUS
<1>4. /\ packs' \in Seq(Seq(Pool)) /\ FlattenSeq(packs') \in Seq(Pool)
      /\ FlattenSeq(packs') = F \o current
  <2>1. CASE current = <<>>
    <3>1. F \o <<>> = F
      BY ONLY <1>2, <1>3, ConcatEmptySeq
    <3> QED
      BY ONLY <1>1, <1>2, <1>3, <2>1, <3>1
  <2>2. CASE current # <<>>
    <3>1. /\ FlattenSeq(Append(packs, current)) = F \o current
          /\ FlattenSeq(Append(packs, current)) \in Seq(Pool)
          /\ Append(packs, current) \in Seq(Seq(Pool))
      BY ONLY <1>2, <1>3, FlattenJoin
    <3> QED
      BY ONLY <1>1, <2>2, <3>1
  <2> QED
    BY ONLY <2>1, <2>2
<1>5. FlattenSeq(packs') = Done
  BY <1>3, <1>4 DEF Done
<1>6. Done' = Done
  <2>1. FlattenSeq(packs') \o <<>> = FlattenSeq(packs')
    BY ONLY <1>4, ConcatEmptySeq
  <2> QED
    BY <1>1, <1>5, <2>1 DEF Done
<1>7. Places' = Done' \o <<>> /\ Places = Done \o <<>>
  BY <1>1 DEF Places, Done
<1>8. Done \o <<>> = Done
  BY ONLY <1>4, <1>5, ConcatEmptySeq
<1>9. Pool' = Pool /\ beleg' = beleg /\ today' = today
  BY <1>1 DEF Pool, poolVars
<1> QED
  BY <1>1, <1>4, <1>5, <1>6, <1>7, <1>8, <1>9

-----------------------------------------------------------------------------
(* Dealing out: there always is a next pack, and a best candidate if there is one. *)

LEMMA MinutesAreWhole ==
  ASSUME PoolTypes, NEW s \in Seq(Pool)
  PROVE  Minutes(s) \in Int
<1>1. PICK f : f = [i \in DOMAIN s |-> beleg[s[i]].minutes]
  OBVIOUS
<1>2. DOMAIN s = 1 .. Len(s) /\ Len(s) \in Nat /\ \A i \in 1 .. Len(s) : s[i] \in Pool
  BY LenProperties
<1>3. DOMAIN f = 1 .. Len(s) /\ \A i \in 1 .. Len(s) : f[i] \in Int
  BY <1>1, <1>2 DEF PoolTypes, IsBeleg, Pool
<1>4. IsFiniteSet(1 .. Len(s))
  BY <1>2, FS_Interval
<1>5. SumOver(f, DOMAIN f) \in Int
  BY ONLY <1>3, <1>4, SumIsAnInteger
<1> QED
  BY <1>1, <1>5 DEF Minutes, Total

LEMMA PacksAreMeasured ==
  ASSUME PoolTypes, PlanTypes, NEW i \in DOMAIN packs
  PROVE  packs[i] \in Seq(Pool) /\ Minutes(packs[i]) \in Int /\ i \in Nat
<1>1. packs[i] \in Seq(Pool) /\ i \in Nat
  BY LenProperties DEF PlanTypes
<1> QED
  BY <1>1, MinutesAreWhole

LEMMA ThereIsANextPack ==
  ASSUME PoolTypes, PlanTypes, undealt # {}, undealt \subseteq DOMAIN packs
  PROVE  NextPack \in undealt
<1>1. PICK m : m = [i \in DOMAIN packs |-> Minutes(packs[i])]
  OBVIOUS
<1>2. \A i \in undealt : m[i] \in Int /\ m[i] = Minutes(packs[i]) /\ i \in Int
  BY <1>1, PacksAreMeasured
<1>3. IsFiniteSet(undealt)
  <2>1. DOMAIN packs = 1 .. Len(packs) /\ Len(packs) \in Nat
    BY LenProperties DEF PlanTypes
  <2>2. IsFiniteSet(1 .. Len(packs))
    BY <2>1, FS_Interval
  <2>3. undealt \in SUBSET (1 .. Len(packs))
    BY <2>1
  <2> QED
    BY ONLY <2>2, <2>3, FS_Subset
<1>4. PICK R : R = {p \in undealt \X undealt :
                      m[p[1]] > m[p[2]] \/ (m[p[1]] = m[p[2]] /\ p[1] < p[2])}
  OBVIOUS
<1>5. \A i, j \in undealt : <<i, j>> \in R <=> (m[i] > m[j] \/ (m[i] = m[j] /\ i < j))
  BY ONLY <1>4
<1>6. /\ \A x, y \in undealt : x # y => <<x, y>> \in R \/ <<y, x>> \in R
      /\ \A x, y, z \in undealt : <<x, y>> \in R /\ <<y, z>> \in R => <<x, z>> \in R
  BY ONLY <1>2, <1>5
<1>7. \E i \in undealt : \A j \in undealt \ {i} : <<i, j>> \in R
  BY ONLY undealt # {}, <1>3, <1>6, FirstOne
<1>8. \E i \in undealt : \A j \in undealt \ {i} :
         \/ Minutes(packs[i]) > Minutes(packs[j])
         \/ Minutes(packs[i]) = Minutes(packs[j]) /\ i < j
  <2>1. PICK i \in undealt : \A j \in undealt \ {i} : <<i, j>> \in R
    BY ONLY <1>7
  <2>2. ASSUME NEW j \in undealt \ {i}
        PROVE  \/ Minutes(packs[i]) > Minutes(packs[j])
               \/ Minutes(packs[i]) = Minutes(packs[j]) /\ i < j
    <3>1. m[i] > m[j] \/ (m[i] = m[j] /\ i < j)
      BY ONLY <1>5, <2>1, i \in undealt, j \in undealt \ {i}
    <3>2. m[i] = Minutes(packs[i]) /\ m[j] = Minutes(packs[j])
      BY ONLY <1>2, <2>1, i \in undealt, j \in undealt \ {i}
    <3> QED
      BY ONLY <3>1, <3>2
  <2> QED
    BY ONLY <2>1, <2>2
<1> QED
  BY ONLY <1>8, Zenon DEF NextPack

(* Two fractions compared by cross-multiplication. *)
LEMMA TimesPositive ==
  ASSUME NEW u \in Int, NEW v \in Int, NEW w \in Int, w > 0
  PROVE  /\ u < v => u * w < v * w
         /\ u * w < v * w => u < v
         /\ u = v => u * w = v * w
         /\ u * w = v * w => u = v
<1>1. ASSUME NEW d \in Int, d > 0 PROVE d * w > 0
  BY <1>1
<1>2. (v - u) * w = v * w - u * w /\ (u - v) * w = u * w - v * w
  OBVIOUS
<1>3. u * w \in Int /\ v * w \in Int /\ v - u \in Int /\ u - v \in Int
  OBVIOUS
<1>4. v - u > 0 => (v - u) * w > 0
  BY ONLY <1>1, <1>3
<1>5. u - v > 0 => (u - v) * w > 0
  BY ONLY <1>1, <1>3
<1>6. PICK a, b : a = u * w /\ b = v * w
  OBVIOUS
<1>7. a \in Int /\ b \in Int /\ (v - u > 0 => b - a > 0) /\ (u - v > 0 => a - b > 0) /\ (u = v => a = b)
  BY ONLY <1>2, <1>3, <1>4, <1>5, <1>6
<1>8. (u < v => a < b) /\ (a < b => u < v) /\ (u = v => a = b) /\ (a = b => u = v)
  BY ONLY <1>7, u \in Int, v \in Int
<1> QED
  BY ONLY <1>6, <1>8

LEMMA FractionsNest ==
  ASSUME NEW a \in Int, NEW b \in Int, NEW c \in Int,
         NEW x \in Int, x > 0, NEW y \in Int, y > 0, NEW z \in Int, z > 0
  PROVE  /\ a * y < b * x /\ b * z < c * y => a * z < c * x
         /\ a * y < b * x /\ b * z = c * y => a * z < c * x
         /\ a * y = b * x /\ b * z < c * y => a * z < c * x
         /\ a * y = b * x /\ b * z = c * y => a * z = c * x
<1>1. PICK ay, bx, bz, cy, az, cx : /\ ay = a * y /\ bx = b * x /\ bz = b * z /\ cy = c * y
                                    /\ az = a * z /\ cx = c * x
  OBVIOUS
<1>2. ay \in Int /\ bx \in Int /\ bz \in Int /\ cy \in Int /\ az \in Int /\ cx \in Int
  BY ONLY <1>1, a \in Int, b \in Int, c \in Int, x \in Int, y \in Int, z \in Int
<1>3. ay * z = az * y /\ bx * z = bz * x /\ cy * x = cx * y
  BY ONLY <1>1, a \in Int, b \in Int, c \in Int, x \in Int, y \in Int, z \in Int
<1>4. (ay < bx => ay * z < bx * z) /\ (ay = bx => ay * z = bx * z)
  BY ONLY <1>2, z \in Int, z > 0, TimesPositive
<1>5. (bz < cy => bz * x < cy * x) /\ (bz = cy => bz * x = cy * x)
  BY ONLY <1>2, x \in Int, x > 0, TimesPositive
<1>6. (az * y < cx * y => az < cx) /\ (az * y = cx * y => az = cx)
  BY ONLY <1>2, y \in Int, y > 0, TimesPositive
<1>7. PICK p, q, r : p = az * y /\ q = bz * x /\ r = cx * y
  OBVIOUS
<1>8. p \in Int /\ q \in Int /\ r \in Int
  BY ONLY <1>2, <1>7, x \in Int, y \in Int
<1>9. /\ (ay < bx => p < q) /\ (ay = bx => p = q)
      /\ (bz < cy => q < r) /\ (bz = cy => q = r)
      /\ (p < r => az < cx) /\ (p = r => az = cx)
  BY ONLY <1>3, <1>4, <1>5, <1>6, <1>7
<1>10. /\ ay < bx /\ bz < cy => az < cx
       /\ ay < bx /\ bz = cy => az < cx
       /\ ay = bx /\ bz < cy => az < cx
       /\ ay = bx /\ bz = cy => az = cx
  BY ONLY <1>8, <1>9
<1> QED
  BY ONLY <1>1, <1>10

LEMMA TheBestIsACandidate ==
  ASSUME PoolTypes, PlanTypes, NEW i \in DOMAIN packs, Candidates(i) # {}
  PROVE  (CHOOSE e \in Candidates(i) : \A f \in Candidates(i) \ {e} : Better(e, f, i))
           \in Candidates(i)
<1>1. PICK C : C = Candidates(i)
  OBVIOUS
<1>2. C \subseteq Workers /\ \A e \in C : net[e] \in Int /\ net[e] > 0 /\ e \in Int
  <2>1. C \subseteq Workers /\ \A e \in C : net[e] > 0
    BY <1>1 DEF Candidates
  <2>2. \A e \in Workers : net[e] \in Int
    BY DEF PlanTypes
  <2>3. Cardinality(Workers) \in Nat /\ Workers = 1 .. Cardinality(Workers)
    BY DayPlanAssumption, FS_CardinalityType
  <2>4. \A e \in Workers : e \in Int
    BY ONLY <2>3
  <2> QED
    BY ONLY <2>1, <2>2, <2>4
<1>3. IsFiniteSet(C)
  BY <1>2, DayPlanAssumption, FS_Subset
<1>4. PICK s : s = [e \in Workers |-> Score(e, i)]
  OBVIOUS
<1>5. ASSUME NEW e \in C
      PROVE  s[e] = Score(e, i) /\ s[e] \in Int
  <2>1. Minutes(packs[i]) \in Int /\ packs[i] \in Seq(Pool)
    BY PacksAreMeasured
  <2>2. Mismatches(e, i) \in Int
    <3>1. ToSet(packs[i]) \subseteq Ids
      BY <2>1, LenProperties DEF ToSet, Pool
    <3>2. PICK T : T = {c \in ToSet(packs[i]) : beleg[c].bereich \notin Skills[e] \cup {"none"}}
      OBVIOUS
    <3>3. IsFiniteSet(T)
      BY <3>1, <3>2, IdsAreFinite, FS_Subset
    <3>4. Cardinality(T) \in Int
      BY ONLY <3>3, FS_CardinalityType
    <3> QED
      BY ONLY <3>2, <3>4 DEF Mismatches
  <2>3. PICK m, k, n : m = Minutes(packs[i]) /\ k = Mismatches(e, i) /\ n = net[e]
    OBVIOUS
  <2>4. m \in Int /\ k \in Int /\ n \in Int
    BY <1>2, <2>1, <2>2, <2>3
  <2>5. 100 * m + 4 * k * n \in Int
    BY ONLY <2>4
  <2>6. Score(e, i) = 100 * m + 4 * k * n
    BY ONLY <2>3 DEF Score
  <2>7. s[e] = Score(e, i)
    BY <1>2, <1>4
  <2> QED
    BY ONLY <2>5, <2>6, <2>7
<1>7. PICK R : R = {p \in C \X C : \/ s[p[1]] * net[p[2]] < s[p[2]] * net[p[1]]
                                   \/ s[p[1]] * net[p[2]] = s[p[2]] * net[p[1]] /\ p[1] < p[2]}
  OBVIOUS
<1>8. \A e, f \in C : <<e, f>> \in R <=>
        \/ s[e] * net[f] < s[f] * net[e]
        \/ s[e] * net[f] = s[f] * net[e] /\ e < f
  BY ONLY <1>7
<1>9. \A e, f \in C : s[e] * net[f] \in Int
  BY <1>2, <1>5
<1>10. \A e, f \in C : <<e, f>> \in R <=> Better(e, f, i)
  <2> SUFFICES ASSUME NEW e \in C, NEW f \in C
               PROVE  <<e, f>> \in R <=> Better(e, f, i)
    OBVIOUS
  <2>1. PICK u, v : u = s[e] * net[f] /\ v = s[f] * net[e]
    OBVIOUS
  <2>2. u \in Int /\ v \in Int
    BY <1>9, <2>1
  <2>3. Better(e, f, i) <=> (u - v < 0 \/ (u - v = 0 /\ e < f))
    BY ONLY <1>5, <2>1, e \in C, f \in C DEF Better
  <2>4. <<e, f>> \in R <=> (u < v \/ (u = v /\ e < f))
    BY ONLY <1>8, <2>1, e \in C, f \in C
  <2> QED
    BY ONLY <2>2, <2>3, <2>4
<1>11. \A e, f \in C : e # f => <<e, f>> \in R \/ <<f, e>> \in R
  BY ONLY <1>2, <1>8, <1>9
<1>12. \A e, f, g \in C : <<e, f>> \in R /\ <<f, g>> \in R => <<e, g>> \in R
  <2> SUFFICES ASSUME NEW e \in C, NEW f \in C, NEW g \in C, <<e, f>> \in R, <<f, g>> \in R
               PROVE  <<e, g>> \in R
    OBVIOUS
  <2>1. PICK a, b, c, x, y, z : a = s[e] /\ b = s[f] /\ c = s[g] /\ x = net[e] /\ y = net[f] /\ z = net[g]
    OBVIOUS
  <2>2. /\ a \in Int /\ b \in Int /\ c \in Int
        /\ x \in Int /\ x > 0 /\ y \in Int /\ y > 0 /\ z \in Int /\ z > 0
    BY <1>2, <1>5, <2>1
  <2>3. /\ a * y < b * x /\ b * z < c * y => a * z < c * x
        /\ a * y < b * x /\ b * z = c * y => a * z < c * x
        /\ a * y = b * x /\ b * z < c * y => a * z < c * x
        /\ a * y = b * x /\ b * z = c * y => a * z = c * x
    BY ONLY <2>2, FractionsNest
  <2>4. /\ a * y < b * x \/ (a * y = b * x /\ e < f)
        /\ b * z < c * y \/ (b * z = c * y /\ f < g)
    BY ONLY <1>8, <2>1, <<e, f>> \in R, <<f, g>> \in R, e \in C, f \in C, g \in C
  <2>5. e < f /\ f < g => e < g
    BY ONLY <1>2, e \in C, f \in C, g \in C
  <2>6. a * z < c * x \/ (a * z = c * x /\ e < g)
    BY ONLY <2>3, <2>4, <2>5
  <2> QED
    BY ONLY <1>8, <2>1, <2>6, e \in C, g \in C
<1>13. \E e \in C : \A f \in C \ {e} : <<e, f>> \in R
  <2>1. C # {}
    BY <1>1
  <2> QED
    BY ONLY <1>3, <1>11, <1>12, <2>1, FirstOne
<1>14. \E e \in C : \A f \in C \ {e} : Better(e, f, i)
  BY ONLY <1>10, <1>13
<1> QED
  BY ONLY <1>1, <1>14, Zenon

-----------------------------------------------------------------------------
(* A recalculation starts with nothing packed and every Beleg either sifted out or
   in the ordered line. *)

LEMMA EmptyPlan ==
  /\ \A S : <<>> \in Seq(S) /\ Len(<<>>) = 0
  /\ FlattenSeq(<<>>) = <<>>
  /\ <<>> \o <<>> = <<>>
BY FlattenEmpty, EmptySeq, ConcatEmptySeq

StartedWith(s, P) ==
  /\ s \in Seq(P)
  /\ \A i, j \in 1 .. Len(s) : i < j => Before(beleg'[s[i]], beleg'[s[j]], today')
  /\ \A c \in P : (\E i \in 1 .. Len(s) : s[i] = c) <=> reason'[c] = "none"

LEMMA TheLineStarts ==
  ASSUME PoolTypes, Numbered, PlanTypes, NEW capacity \in Shifts, StartPlan(capacity)
  PROVE  /\ phase = "idle" /\ phase' = "pack"
         /\ UNCHANGED <<beleg, today, current, packs, given, undealt>>
         /\ groups' = DeliveryGroupsOf(beleg', Pool')
         /\ net' \in [Workers -> Int]
         /\ reason' \in [Ids -> {"none", "delivery_unconfirmed", "large_beleg"}]
         /\ \A c \in Ids : c \in Withheld(beleg', groups') => reason'[c] = "delivery_unconfirmed"
         /\ StartedWith(todo', Pool')
<1>1. PICK back : back = UNION {ToSet(cart[e]) : e \in Workers \ begun}
  OBVIOUS
<1>2. /\ phase = "idle" /\ phase' = "pack"
      /\ UNCHANGED <<beleg, today, current, packs, given, undealt>>
      /\ st' = [c \in Ids |-> IF c \in back THEN "ready" ELSE st[c]]
      /\ net' = [e \in Workers |-> IF e \in Workers \ begun THEN capacity[e] ELSE 0]
      /\ groups' = DeliveryGroupsOf(beleg, Pool')
      /\ reason' = [c \in Ids |->
           IF c \in Withheld(beleg, groups') THEN "delivery_unconfirmed"
           ELSE IF c \in Pool' /\ beleg[c].teile >= LargeBeleg THEN "large_beleg" ELSE "none"]
      /\ todo' = Sorted({c \in Pool' : reason'[c] = "none"}, LAMBDA x, y : Before(x, y, today))
  BY <1>1 DEF StartPlan
<1>3. back \subseteq Present
  <2>1. \A e \in Workers : cart[e] \in Seq(Present)
    BY DEF PoolTypes
  <2>2. \A e \in Workers : ToSet(cart[e]) \subseteq Present
    BY <2>1, LenProperties DEF ToSet
  <2> QED
    BY <1>1, <2>2
<1>4. PICK P : P = Pool'
  OBVIOUS
<1>5. P \subseteq Present /\ P \subseteq Ids
  BY <1>2, <1>3, <1>4 DEF Pool, Present
<1>6. PICK S, s : S = {c \in P : reason'[c] = "none"} /\ s = todo'
  OBVIOUS
<1>7. s = Sorted(S, LAMBDA x, y : Before(x, y, today)) /\ S \in SUBSET Present
  BY <1>2, <1>4, <1>5, <1>6
<1>8. /\ s \in Seq(S)
      /\ \A i, j \in 1 .. Len(s) : i < j => Before(beleg[s[i]], beleg[s[j]], today)
      /\ \A c \in S : \E i \in 1 .. Len(s) : s[i] = c
  <2> DEFINE t == Sorted(S, LAMBDA x, y : Before(x, y, today))
  <2>1. /\ t \in Seq(S)
        /\ \A i, j \in 1 .. Len(t) : i < j => Before(beleg[t[i]], beleg[t[j]], today)
        /\ \A c \in S : \E i \in 1 .. Len(t) : t[i] = c
    BY ONLY <1>7, PoolTypes, Numbered, SortedForThePlan
  <2>2. s = t
    BY <1>7
  <2> HIDE DEF t
  <2> QED
    BY ONLY <2>1, <2>2
<1>9. s \in Seq(P) /\ \A i \in 1 .. Len(s) : s[i] \in S
  <2>1. S \subseteq P
    BY <1>6
  <2> QED
    BY ONLY <1>8, <2>1, SeqMonotonic, LenProperties
<1>10. StartedWith(s, P)
  <2>1. \A c \in P : (\E i \in 1 .. Len(s) : s[i] = c) <=> reason'[c] = "none"
    BY ONLY <1>6, <1>8, <1>9
  <2> QED
    BY ONLY <1>2, <1>8, <1>9, <2>1 DEF StartedWith
<1>11. capacity \in [Workers -> Int]
  BY DayPlanAssumption
<1>12. net' \in [Workers -> Int]
  <2>1. net' = [e \in Workers |-> IF e \in Workers \ begun THEN capacity[e] ELSE 0]
    BY <1>2
  <2> QED
    BY ONLY <1>11, <2>1
<1>13. /\ reason' \in [Ids -> {"none", "delivery_unconfirmed", "large_beleg"}]
       /\ \A c \in Ids : c \in Withheld(beleg', groups') => reason'[c] = "delivery_unconfirmed"
  BY <1>2
<1> QED
  BY <1>2, <1>4, <1>6, <1>10, <1>12, <1>13

LEMMA PlanTypesAreKept ==
  ASSUME PoolTypes, Numbered, PlanTypes, [Next]_vars
  PROVE  PlanTypes'
<1>1. ASSUME phase = "idle", UNCHANGED planVars
      PROVE  PlanTypes'
  <2>1. todo = <<>> /\ current = <<>> /\ packs = <<>> /\ given = <<>> /\ undealt = {}
    BY <1>1 DEF PlanTypes
  <2> QED
    BY <1>1, <2>1, EmptyPlan DEF PlanTypes, planVars
<1>2. CASE \E capacity \in Shifts : StartPlan(capacity)
  <2>1. PICK capacity \in Shifts : StartPlan(capacity)
    BY <1>2
  <2>2. /\ phase = "idle" /\ phase' = "pack" /\ net' \in [Workers -> Int]
        /\ UNCHANGED <<current, packs, given, undealt>>
        /\ reason' \in [Ids -> {"none", "delivery_unconfirmed", "large_beleg"}]
        /\ todo' \in Seq(Pool')
    BY ONLY PoolTypes, Numbered, PlanTypes, <2>1, TheLineStarts DEF StartedWith
  <2>3. current = <<>> /\ packs = <<>> /\ given = <<>> /\ undealt = {}
    BY <2>2 DEF PlanTypes
  <2>4. reason' \in [Ids -> Reasons]
    BY <2>2 DEF Reasons
  <2> QED
    BY <2>2, <2>3, <2>4, EmptyPlan DEF PlanTypes
<1>3. CASE Overflow
  <2>1. /\ Tail(todo) \in Seq(Pool) /\ Pool' = Pool /\ phase = "pack" /\ todo' = Tail(todo)
        /\ UNCHANGED <<phase, net, packs, current, given, undealt>>
        /\ reason' = [reason EXCEPT ![Head(todo)] = "no_capacity"]
    BY <1>3, OverflowTakesOut DEF Overflow
  <2>2. reason' \in [Ids -> Reasons]
    BY <2>1 DEF PlanTypes, Reasons
  <2> QED
    BY <2>1, <2>2 DEF PlanTypes
<1>4. CASE Pack
  <2>1. /\ phase = "pack" /\ todo' = Tail(todo)
        /\ UNCHANGED <<phase, net, given, undealt, reason>>
    BY <1>4 DEF Pack
  <2> QED
    BY <1>4, <2>1, PackMovesOne DEF PlanTypes
<1>5. CASE CloseLast
  <2>1. /\ phase' = "deal" /\ given' = [i \in DOMAIN packs' |-> 0] /\ undealt' = DOMAIN packs'
        /\ UNCHANGED <<net, reason>>
    BY <1>5 DEF CloseLast
  <2>2. given' = [i \in DOMAIN packs' |-> given'[i]]
    BY <2>1
  <2> QED
    BY <1>5, <2>1, <2>2, CloseLastKeepsTheLine, EmptyPlan DEF PlanTypes
<1>6. CASE Deal
  <2>1. /\ phase = "deal" /\ UNCHANGED <<poolVars, phase, groups, net, todo, current, packs>>
        /\ undealt' = undealt \ {NextPack}
        /\ \E v : given' = [given EXCEPT ![NextPack] = v]
        /\ \E Q : reason' = [c \in Ids |-> IF Q /\ c \in ToSet(packs[NextPack])
                                           THEN "pool_remaining" ELSE reason[c]]
    BY <1>6, Zenon DEF Deal
  <2>2. reason' \in [Ids -> Reasons]
    BY <2>1 DEF PlanTypes, Reasons
  <2>3. given' = [i \in DOMAIN packs' |-> given'[i]]
    BY <2>1 DEF PlanTypes
  <2>4. Pool' = Pool
    BY <2>1 DEF Pool, poolVars
  <2> QED
    BY <2>1, <2>2, <2>3, <2>4 DEF PlanTypes
<1>7. CASE Persist
  <2>1. /\ phase = "deal" /\ undealt = {} /\ phase' = "idle"
        /\ net' = [e \in Workers |-> 0] /\ packs' = <<>> /\ given' = <<>>
        /\ reason' = [c \in Ids |-> "none"] /\ UNCHANGED <<todo, current, undealt>>
    BY <1>7 DEF Persist
  <2>2. todo = <<>> /\ current = <<>>
    BY <2>1 DEF PlanTypes
  <2>3. reason' \in [Ids -> Reasons] /\ net' \in [Workers -> Int]
    BY <2>1 DEF Reasons
  <2> QED
    BY <2>1, <2>2, <2>3, EmptyPlan DEF PlanTypes
<1>8. CASE UNCHANGED vars
  BY <1>8 DEF vars, planVars, poolVars, PlanTypes, Pool
<1>9. CASE TeamleadCorrects
  BY <1>1, <1>9, CorrectionsKeepTheGoods
<1>10. CASE \/ \E c \in Cases : Book(c)
            \/ NextDay
            \/ Splits
            \/ \E e \in Workers : Begin(e) \/ Finish(e)
            \/ \E e \in Workers, budget \in Budgets : Pull(e, budget)
  <2>1. phase = "idle" /\ UNCHANGED planVars
    BY <1>10 DEF Book, NextDay, Splits, SplitCase, Begin, Finish, Pull
  <2> QED
    BY <1>1, <2>1
<1> QED
  BY <1>2, <1>3, <1>4, <1>5, <1>6, <1>7, <1>8, <1>9, <1>10 DEF Next, TeamleadCorrects, Splits

LEMMA ADayStarts == Init => PoolTypes /\ Numbered /\ PlanTypes
<1> SUFFICES ASSUME Init PROVE PoolTypes /\ Numbered /\ PlanTypes
  OBVIOUS
<1>1. PlanTypes
  <2>1. NoPlan
    BY DEF Init
  <2>2. net \in [Workers -> Int] /\ reason \in [Ids -> Reasons]
    BY <2>1 DEF NoPlan, Reasons
  <2> QED
    BY <2>1, <2>2, EmptyPlan DEF NoPlan, PlanTypes
<1>2. \A c \in Cases : beleg[c] \in Arrivals[c]
  BY DEF Init
<1>3. \A p \in PartIds : \E c \in Cases : beleg[p] \in Arrivals[c]
  <2>1. beleg \in [Ids -> UNION {Arrivals[c] : c \in Cases}]
    BY DEF Init
  <2> QED
    BY <2>1 DEF Ids
<1>4. \A c \in Ids : IsBeleg(beleg[c])
  BY <1>2, <1>3, DayPlanAssumption DEF Ids
<1>5. PoolTypes
  BY <1>4, EmptyPlan DEF Init, PoolTypes, Statuses
<1>6. \A k \in DOMAIN Parts : Parts[k] \notin Present
  BY DEF Init, Present, PartIds, Ids
<1>7. Numbered
  BY <1>2, <1>6 DEF Numbered
<1> QED
  BY <1>1, <1>5, <1>7

(* A step of the planner is one of six, every other step finds and leaves no plan. *)
LEMMA PlannerSteps ==
  ASSUME [Next]_vars, PoolTypes
  PROVE  \/ \E capacity \in Shifts : StartPlan(capacity)
         \/ Overflow \/ Pack \/ CloseLast \/ Deal
         \/ phase' = "idle"
         \/ UNCHANGED vars
<1>1. CASE Persist
  BY <1>1 DEF Persist
<1>2. CASE TeamleadCorrects
  BY <1>2, CorrectionsKeepTheGoods DEF planVars
<1>3. CASE \/ \E c \in Cases : Book(c)
           \/ NextDay
           \/ Splits
           \/ \E e \in Workers : Begin(e) \/ Finish(e)
           \/ \E e \in Workers, budget \in Budgets : Pull(e, budget)
  BY <1>3 DEF Book, NextDay, Splits, SplitCase, Begin, Finish, Pull, planVars
<1> QED
  BY <1>1, <1>2, <1>3 DEF Next, TeamleadCorrects, Splits

(* What lies in a pack has its place in the line. *)
LEMMA PackedIsFlattened ==
  ASSUME NEW S, NEW q \in Seq(Seq(S)), FlattenSeq(q) \in Seq(S), NEW p \in DOMAIN q,
         NEW c \in ToSet(q[p])
  PROVE  \E i \in 1 .. Len(FlattenSeq(q)) : FlattenSeq(q)[i] = c
<1>1. PICK n : n = Len(q)
  OBVIOUS
<1>2. n \in Nat /\ DOMAIN q = 1 .. n /\ p \in 1 .. n /\ n # 0 /\ \A i \in 1 .. n : q[i] \in Seq(S)
  BY <1>1, LenProperties
<1>3. PICK fl : FlattenTable(fl, q, n) /\ FlattenSeq(q) = fl[n]
  BY <1>1, <1>2, FlattenIsLast
<1>4. \A i \in 1 .. n : fl[i] = IF i = 1 THEN q[i] ELSE fl[i - 1] \o q[i]
  BY ONLY <1>3, FlattenEntry
<1> DEFINE Has(s) == s \in Seq(S) /\ \E i \in 1 .. Len(s) : s[i] = c
           Bad == {i \in 0 .. n : i >= 1 /\ ~(fl[i] \in Seq(S) /\ (i >= p => Has(fl[i])))}
<1>5. Has(q[p])
  BY <1>2, LenProperties DEF ToSet
<1>6. ASSUME Bad # {} PROVE FALSE
  <2>1. Bad \subseteq Nat
    OBVIOUS
  <2>2. PICK m \in Bad : \A k \in Bad : m <= k
    BY ONLY <1>6, <2>1, LeastNumber
  <2>3. m \in 1 .. n
    BY <2>2
  <2>4. CASE m = 1
    <3>1. fl[m] = q[m] /\ q[m] \in Seq(S) /\ (m >= p => m = p)
      BY <1>2, <1>4, <2>3, <2>4
    <3> QED
      BY <1>5, <2>2, <3>1
  <2>5. CASE m # 1
    <3>1. m - 1 \in 1 .. n /\ m - 1 \notin Bad
      <4>1. m - 1 \in 1 .. n /\ ~(m <= m - 1)
        BY <1>2, <2>3, <2>5
      <4> HIDE DEF Bad
      <4> QED
        BY ONLY <2>2, <4>1
    <3>2. fl[m - 1] \in Seq(S) /\ (m - 1 >= p => Has(fl[m - 1]))
      BY <3>1
    <3>3. fl[m] = fl[m - 1] \o q[m] /\ q[m] \in Seq(S)
      BY <1>2, <1>4, <2>3, <2>5
    <3>4. PICK a, b, s : a = fl[m - 1] /\ b = q[m] /\ s = a \o b
      OBVIOUS
    <3>5. a \in Seq(S) /\ b \in Seq(S)
      BY <3>2, <3>3, <3>4
    <3>6. /\ s \in Seq(S) /\ Len(s) = Len(a) + Len(b) /\ Len(a) \in Nat /\ Len(b) \in Nat
          /\ \A i \in 1 .. Len(a) + Len(b) : s[i] = IF i <= Len(a) THEN a[i] ELSE b[i - Len(a)]
      BY ONLY <3>4, <3>5, ConcatProperties, LenProperties
    <3>7. Has(a) => Has(s)
      <4>1. ASSUME NEW i \in 1 .. Len(a), a[i] = c PROVE i \in 1 .. Len(s) /\ s[i] = c
        BY ONLY <3>6, <4>1
      <4> QED
        BY <3>6, <4>1
    <3>8. Has(b) => Has(s)
      <4>1. ASSUME NEW i \in 1 .. Len(b), b[i] = c
            PROVE i + Len(a) \in 1 .. Len(s) /\ s[i + Len(a)] = c
        <5>1. i + Len(a) \in 1 .. Len(s) /\ ~(i + Len(a) <= Len(a)) /\ (i + Len(a)) - Len(a) = i
          BY ONLY <3>6, <4>1
        <5>2. s[i + Len(a)] = b[i]
          BY ONLY <3>6, <5>1
        <5> QED
          BY <4>1, <5>1, <5>2
      <4> QED
        BY <3>6, <4>1
    <3>9. m >= p => m - 1 >= p \/ m = p
      BY <1>2, <2>3
    <3>10. s \in Seq(S) /\ (m >= p => Has(s))
      BY <1>5, <3>2, <3>4, <3>6, <3>7, <3>8, <3>9
    <3>11. fl[m] = s
      BY <3>3, <3>4
    <3> QED
      BY <2>2, <3>10, <3>11
  <2> QED
    BY <2>4, <2>5
<1>7. n \notin Bad /\ n \in 1 .. n /\ n >= p
  <2>1. Bad = {}
    BY <1>6
  <2>2. n \in 1 .. n /\ n >= p
    BY <1>2
  <2> HIDE DEF Bad
  <2> QED
    BY ONLY <2>1, <2>2
<1>8. Has(fl[n])
  BY <1>7
<1> QED
  BY <1>3, <1>8

LEMMA WhatIsPackedIsDone ==
  ASSUME PlanTypes, NEW p \in DOMAIN packs, NEW c \in ToSet(packs[p])
  PROVE  \E i \in 1 .. Len(Done) : Done[i] = c
<1>1. PICK F, d : F = FlattenSeq(packs) /\ d = Done
  OBVIOUS
<1>2. F \in Seq(Pool) /\ current \in Seq(Pool) /\ packs \in Seq(Seq(Pool)) /\ d = F \o current
  BY <1>1 DEF PlanTypes, Done
<1>3. PICK i \in 1 .. Len(F) : F[i] = c
  BY <1>1, <1>2, PackedIsFlattened
<1>4. i \in 1 .. Len(d) /\ d[i] = c
  BY ONLY <1>2, <1>3, ConcatProperties, LenProperties
<1> QED
  BY ONLY <1>1, <1>4

LEMMA DoneIsInTheLine ==
  ASSUME PlanTypes, NEW i \in 1 .. Len(Done)
  PROVE  i \in 1 .. Len(Places) /\ Places[i] = Done[i]
<1>1. /\ Len(Done) \in Nat /\ Len(todo) \in Nat /\ Len(Places) = Len(Done) + Len(todo)
      /\ \A k \in 1 .. Len(Places) :
           Places[k] = IF k <= Len(Done) THEN Done[k] ELSE todo[k - Len(Done)]
  BY LineTypes
<1> QED
  BY ONLY <1>1, i \in 1 .. Len(Done)

-----------------------------------------------------------------------------
(* The line is in the order of the ladder, holds exactly what was not sifted out or
   left over, and nothing of a delivery that has to wait. *)

Sifted == {"delivery_unconfirmed", "large_beleg", "no_capacity"}

InOrder(P, b, day) ==
  \A i, j \in 1 .. Len(P) : i < j => Before(b[P[i]], b[P[j]], day)

Accounted(P, pool, why) ==
  \A c \in pool : (\E i \in 1 .. Len(P) : P[i] = c) <=> why[c] \notin Sifted

Line ==
  phase # "idle" =>
    /\ groups = DeliveryGroupsOf(beleg, Pool)
    /\ InOrder(Places, beleg, today)
    /\ Accounted(Places, Pool, reason)
    /\ \A c \in Pool : c \in Withheld(beleg, groups) => reason[c] = "delivery_unconfirmed"

LEMMA NobodyStandsTwice ==
  ASSUME PoolTypes, Numbered, NEW P \in Seq(Pool), InOrder(P, beleg, today),
         NEW i \in 1 .. Len(P), NEW j \in 1 .. Len(P), P[i] = P[j]
  PROVE  i = j
<1>1. Pool \in SUBSET Present
  BY DEF Pool, Present
<1>2. \A x \in Pool : ~Before(beleg[x], beleg[x], today)
  BY ONLY <1>1, PoolTypes, Numbered, PlanOrderIsStrict
<1>3. P[i] \in Pool /\ i \in Int /\ j \in Int
  BY LenProperties
<1>4. ~(i < j) /\ ~(j < i)
  BY ONLY <1>2, <1>3, InOrder(P, beleg, today), P[i] = P[j], i \in 1 .. Len(P), j \in 1 .. Len(P)
     DEF InOrder
<1> QED
  BY ONLY <1>3, <1>4

(* Taking one out leaves the others in order. *)
Drops(P, R, d) ==
  /\ d \in Nat /\ d + 1 <= Len(P) /\ Len(R) = Len(P) - 1
  /\ \A i \in 1 .. Len(R) : R[i] = IF i <= d THEN P[i] ELSE P[i + 1]

LosesOne(P, R, h) ==
  \A c : (\E i \in 1 .. Len(R) : R[i] = c) <=> c # h /\ \E i \in 1 .. Len(P) : P[i] = c

LEMMA TheRestStaysInOrder ==
  ASSUME PoolTypes, Numbered, NEW P \in Seq(Pool), InOrder(P, beleg, today),
         NEW R, NEW d, Drops(P, R, d)
  PROVE  InOrder(R, beleg, today) /\ LosesOne(P, R, P[d + 1])
<1>0. /\ d \in Nat /\ d + 1 <= Len(P) /\ Len(R) = Len(P) - 1
      /\ \A i \in 1 .. Len(R) : R[i] = IF i <= d THEN P[i] ELSE P[i + 1]
  BY DEF Drops
<1>1. Len(P) \in Nat /\ d \in Nat /\ d + 1 <= Len(P) /\ Len(R) = Len(P) - 1
  BY <1>0, LenProperties
<1>2. ASSUME NEW i \in 1 .. Len(R)
      PROVE  \E k \in 1 .. Len(P) : k = (IF i <= d THEN i ELSE i + 1) /\ R[i] = P[k]
  BY ONLY <1>0, <1>1, i \in 1 .. Len(R)
<1>3. InOrder(R, beleg, today)
  <2> SUFFICES ASSUME NEW i \in 1 .. Len(R), NEW j \in 1 .. Len(R), i < j
               PROVE  Before(beleg[R[i]], beleg[R[j]], today)
    BY DEF InOrder
  <2>1. PICK k \in 1 .. Len(P) : k = (IF i <= d THEN i ELSE i + 1) /\ R[i] = P[k]
    BY <1>2
  <2>2. PICK l \in 1 .. Len(P) : l = (IF j <= d THEN j ELSE j + 1) /\ R[j] = P[l]
    BY <1>2
  <2>3. k < l
    BY <1>1, <2>1, <2>2
  <2> QED
    BY ONLY InOrder(P, beleg, today), <2>1, <2>2, <2>3 DEF InOrder
<1>4. ASSUME NEW i \in 1 .. Len(R)
      PROVE  R[i] # P[d + 1] /\ \E k \in 1 .. Len(P) : P[k] = R[i]
  <2>1. PICK k \in 1 .. Len(P) : k = (IF i <= d THEN i ELSE i + 1) /\ R[i] = P[k]
    BY <1>2
  <2>2. d + 1 \in 1 .. Len(P) /\ k # d + 1
    BY <1>1, <2>1
  <2>3. P[k] # P[d + 1]
    BY ONLY PoolTypes, Numbered, P \in Seq(Pool), InOrder(P, beleg, today), <2>1, <2>2,
            NobodyStandsTwice
  <2> QED
    BY ONLY <2>1, <2>3
<1>5. ASSUME NEW k \in 1 .. Len(P), k # d + 1
      PROVE  \E i \in 1 .. Len(R) : R[i] = P[k]
  <2>1. CASE k <= d
    <3>1. k \in 1 .. Len(R)
      BY <1>1, <2>1
    <3> QED
      BY <1>0, <2>1, <3>1
  <2>2. CASE ~(k <= d)
    <3>1. k - 1 \in 1 .. Len(R) /\ ~(k - 1 <= d) /\ (k - 1) + 1 = k
      BY <1>1, <1>5, <2>2
    <3> QED
      BY <1>0, <3>1
  <2> QED
    BY <2>1, <2>2
<1>6. LosesOne(P, R, P[d + 1])
  BY ONLY <1>4, <1>5 DEF LosesOne
<1> QED
  BY ONLY <1>3, <1>6

LEMMA LineIsKept ==
  ASSUME PoolTypes, Numbered, PlanTypes, Line, [Next]_vars
  PROVE  Line'
<1>1. ASSUME phase' = "idle" PROVE Line'
  BY <1>1 DEF Line
<1>2. CASE \E capacity \in Shifts : StartPlan(capacity)
  <2>1. PICK capacity \in Shifts : StartPlan(capacity)
    BY <1>2
  <2>2. /\ phase = "idle"
        /\ UNCHANGED <<current, packs>>
        /\ groups' = DeliveryGroupsOf(beleg', Pool')
        /\ reason' \in [Ids -> {"none", "delivery_unconfirmed", "large_beleg"}]
        /\ \A c \in Ids : c \in Withheld(beleg', groups') => reason'[c] = "delivery_unconfirmed"
        /\ StartedWith(todo', Pool')
    BY ONLY PoolTypes, Numbered, PlanTypes, <2>1, TheLineStarts
  <2>3. packs' = <<>> /\ current' = <<>>
    BY <2>2 DEF PlanTypes
  <2>4. PICK s, p : s = todo' /\ p = Pool'
    OBVIOUS
  <2>5. Places' = s
    <3>1. s \in Seq(p)
      BY <2>2, <2>4 DEF StartedWith
    <3>2. <<>> \o s = s
      BY ONLY <3>1, ConcatEmptySeq
    <3> QED
      BY <2>3, <2>4, <3>2, EmptyPlan DEF Places
  <2>6. p \subseteq Ids
    BY <2>4 DEF Pool
  <2>7. InOrder(s, beleg', today') /\ Accounted(s, p, reason')
    <3>1. StartedWith(s, p)
      BY <2>2, <2>4
    <3>2. \A c \in p : reason'[c] = "none" <=> reason'[c] \notin Sifted
      BY <2>2, <2>6 DEF Sifted
    <3> QED
      BY <3>1, <3>2 DEF StartedWith, InOrder, Accounted
  <2>8. \A c \in p : c \in Withheld(beleg', groups') => reason'[c] = "delivery_unconfirmed"
    BY <2>2, <2>6
  <2> QED
    BY <2>2, <2>4, <2>5, <2>7, <2>8 DEF Line
<1>3. CASE Overflow
  <2>1. phase = "pack" /\ reason' = [reason EXCEPT ![Head(todo)] = "no_capacity"]
    BY <1>3 DEF Overflow
  <2>2. /\ Head(todo) \in Pool /\ Len(todo) # 0
        /\ Pool' = Pool /\ beleg' = beleg /\ today' = today /\ groups' = groups
        /\ Len(Places') = Len(Places) - 1
        /\ Places[Len(Done) + 1] = Head(todo)
        /\ \A i \in 1 .. Len(Places') :
             Places'[i] = IF i <= Len(Done) THEN Places[i] ELSE Places[i + 1]
    BY <1>3, OverflowTakesOut
  <2>3. /\ groups = DeliveryGroupsOf(beleg, Pool)
        /\ InOrder(Places, beleg, today)
        /\ Accounted(Places, Pool, reason)
        /\ \A c \in Pool : c \in Withheld(beleg, groups) => reason[c] = "delivery_unconfirmed"
    BY <2>1 DEF Line
  <2>4. PICK P, R, d, h : P = Places /\ R = Places' /\ d = Len(Done) /\ h = Head(todo)
    OBVIOUS
  <2>5. P \in Seq(Pool) /\ d \in Nat /\ d + 1 <= Len(P)
    BY <2>2, <2>4, LineTypes
  <2>6. InOrder(R, beleg, today) /\ LosesOne(P, R, P[d + 1])
    <3>1. /\ Len(R) = Len(P) - 1
          /\ \A i \in 1 .. Len(R) : R[i] = IF i <= d THEN P[i] ELSE P[i + 1]
      BY <2>2, <2>4
    <3>2. Drops(P, R, d)
      BY ONLY <2>5, <3>1 DEF Drops
    <3>3. P \in Seq(Pool) /\ InOrder(P, beleg, today)
      BY <2>3, <2>4, <2>5
    <3> QED
      BY ONLY PoolTypes, Numbered, <3>2, <3>3, TheRestStaysInOrder
  <2>7. h = P[d + 1] /\ \E i \in 1 .. Len(P) : P[i] = h
    <3>1. h = P[d + 1]
      BY <2>2, <2>4
    <3>2. d + 1 \in 1 .. Len(P)
      BY ONLY <2>5, LenProperties
    <3> QED
      BY ONLY <3>1, <3>2
  <2>8. Accounted(P, Pool, reason) /\ h \in Pool
    BY <2>2, <2>3, <2>4
  <2>9. reason' = [reason EXCEPT ![h] = "no_capacity"] /\ reason \in [Ids -> Reasons] /\ Pool \subseteq Ids
    BY <2>1, <2>4 DEF PlanTypes, Pool
  <2>10. \A c \in Pool : reason'[c] = IF c = h THEN "no_capacity" ELSE reason[c]
    BY ONLY <2>9
  <2>11. Accounted(R, Pool, reason')
    BY ONLY <2>6, <2>7, <2>8, <2>10 DEF Accounted, Sifted, LosesOne
  <2>12. \A c \in Pool : c \in Withheld(beleg, groups) => reason'[c] = "delivery_unconfirmed"
    <3>1. reason[h] \notin Sifted
      BY ONLY <2>7, <2>8 DEF Accounted
    <3>2. reason[h] # "delivery_unconfirmed"
      BY ONLY <3>1 DEF Sifted
    <3> QED
      BY ONLY <2>3, <2>10, <3>2
  <2> QED
    BY <2>2, <2>3, <2>4, <2>6, <2>11, <2>12 DEF Line
<1>4. CASE Pack \/ CloseLast
  <2>1. phase = "pack" /\ reason' = reason
    BY <1>4 DEF Pack, CloseLast
  <2>2. /\ Pool' = Pool /\ beleg' = beleg /\ today' = today /\ groups' = groups
        /\ Places' = Places
    BY <1>4, PackMovesOne, CloseLastKeepsTheLine
  <2> QED
    BY <2>1, <2>2 DEF Line
<1>5. CASE Deal
  <2>1. phase = "deal" /\ UNCHANGED <<poolVars, phase, groups, net, todo, current, packs>>
    BY <1>5 DEF Deal
  <2>2. PICK i, Q : /\ i \in DOMAIN packs
                    /\ reason' = [c \in Ids |-> IF Q /\ c \in ToSet(packs[i])
                                                THEN "pool_remaining" ELSE reason[c]]
    <3>1. undealt # {} /\ undealt \subseteq DOMAIN packs
      BY <1>5 DEF Deal, PlanTypes
    <3>2. NextPack \in DOMAIN packs
      BY <3>1, ThereIsANextPack
    <3> QED
      BY <1>5, <3>2 DEF Deal
  <2>3. /\ Pool' = Pool /\ beleg' = beleg /\ today' = today /\ groups' = groups
        /\ Places' = Places
    BY <2>1 DEF poolVars, Pool, Places
  <2>4. /\ groups = DeliveryGroupsOf(beleg, Pool)
        /\ InOrder(Places, beleg, today)
        /\ Accounted(Places, Pool, reason)
        /\ \A c \in Pool : c \in Withheld(beleg, groups) => reason[c] = "delivery_unconfirmed"
    BY <2>1 DEF Line
  <2>5. ASSUME NEW c \in Pool, c \in ToSet(packs[i])
        PROVE  reason[c] \notin Sifted
    BY <2>2, <2>4, <2>5, WhatIsPackedIsDone, DoneIsInTheLine DEF Accounted
  <2>6. \A c \in Pool : reason'[c] = reason[c] \/ (c \in ToSet(packs[i]) /\ reason'[c] = "pool_remaining")
    BY <2>2 DEF Pool
  <2>7. Accounted(Places, Pool, reason')
    BY ONLY <2>4, <2>5, <2>6 DEF Accounted, Sifted
  <2>8. \A c \in Pool : c \in Withheld(beleg, groups) => reason'[c] = "delivery_unconfirmed"
    BY ONLY <2>4, <2>5, <2>6 DEF Sifted
  <2> QED
    BY <2>3, <2>4, <2>7, <2>8 DEF Line
<1>6. CASE UNCHANGED vars
  BY <1>6 DEF vars, planVars, poolVars, Line, Pool, Places
<1> QED
  BY <1>1, <1>2, <1>3, <1>4, <1>5, <1>6, PlannerSteps

-----------------------------------------------------------------------------
(* What was left over for want of minutes is less urgent than all that is packed:
   once the minutes are spent nothing is packed any more. *)

LeftOver ==
  /\ phase # "idle" => \A c \in Pool : reason[c] = "no_capacity" =>
       \A i \in 1 .. Len(Done) : Before(beleg[Done[i]], beleg[c], today)
  /\ phase = "pack" => \A c \in Pool : /\ reason[c] # "pool_remaining"
                                       /\ reason[c] = "no_capacity" => BudgetSpent

LEMMA SpentStaysSpent ==
  ASSUME UNCHANGED <<packs, current, net, beleg>>
  PROVE  BudgetSpent' <=> BudgetSpent
<1>1. Used' = Used
  BY DEF Used, Minutes
<1>2. TeamCapacity' = TeamCapacity
  BY DEF TeamCapacity
<1> QED
  BY <1>1, <1>2 DEF BudgetSpent

LEMMA LeftOverIsKept ==
  ASSUME PoolTypes, Numbered, PlanTypes, Line, LeftOver, [Next]_vars
  PROVE  LeftOver'
<1>1. CASE phase' = "idle"
  BY <1>1 DEF LeftOver
<1>2. CASE \E capacity \in Shifts : StartPlan(capacity)
  <2>1. PICK capacity \in Shifts : StartPlan(capacity)
    BY <1>2
  <2>2. reason' \in [Ids -> {"none", "delivery_unconfirmed", "large_beleg"}]
    BY ONLY PoolTypes, Numbered, PlanTypes, <2>1, TheLineStarts
  <2>3. PICK p : p = Pool'
    OBVIOUS
  <2>4. p \subseteq Ids
    BY <2>3 DEF Pool
  <2>5. \A c \in p : reason'[c] # "no_capacity" /\ reason'[c] # "pool_remaining"
    BY ONLY <2>2, <2>4
  <2> QED
    BY <2>3, <2>5 DEF LeftOver
<1>3. CASE Overflow
  <2>1. phase = "pack" /\ BudgetSpent /\ reason' = [reason EXCEPT ![Head(todo)] = "no_capacity"]
    BY <1>3 DEF Overflow
  <2>2. /\ Head(todo) \in Pool /\ Len(todo) # 0
        /\ Pool' = Pool /\ beleg' = beleg /\ today' = today
        /\ UNCHANGED <<phase, net, packs, current>>
        /\ Done' = Done /\ Places[Len(Done) + 1] = Head(todo)
    BY <1>3, OverflowTakesOut
  <2>3. InOrder(Places, beleg, today)
    BY <2>1 DEF Line
  <2>4. PICK P, D, d, h : P = Places /\ D = Done /\ d = Len(Done) /\ h = Head(todo)
    OBVIOUS
  <2>5. d \in Nat /\ d + 1 \in 1 .. Len(P) /\ h = P[d + 1] /\ d = Len(D)
    BY <2>2, <2>4, LineTypes
  <2>6. ASSUME NEW i \in 1 .. Len(D)
        PROVE  Before(beleg[D[i]], beleg[h], today)
    <3>1. i \in 1 .. Len(P) /\ P[i] = D[i]
      BY <2>4, DoneIsInTheLine
    <3>2. i < d + 1
      BY ONLY <2>5, i \in 1 .. Len(D)
    <3> QED
      BY ONLY <2>3, <2>4, <2>5, <3>1, <3>2 DEF InOrder
  <2>7. \A c \in Pool : reason'[c] = IF c = h THEN "no_capacity" ELSE reason[c]
    BY <2>1, <2>4 DEF PlanTypes, Pool
  <2>8. BudgetSpent'
    BY <2>1, <2>2, SpentStaysSpent
  <2>9. \A c \in Pool : reason[c] = "no_capacity" =>
          \A i \in 1 .. Len(D) : Before(beleg[D[i]], beleg[c], today)
    BY <2>1, <2>4 DEF LeftOver
  <2>10. \A c \in Pool : reason'[c] = "no_capacity" =>
          \A i \in 1 .. Len(D) : Before(beleg[D[i]], beleg[c], today)
    BY ONLY <2>6, <2>7, <2>9
  <2>11. \A c \in Pool : reason'[c] # "pool_remaining"
    BY <2>1, <2>7 DEF LeftOver
  <2> QED
    BY <2>2, <2>4, <2>8, <2>10, <2>11 DEF LeftOver
<1>4. CASE Pack
  <2>1. phase = "pack" /\ ~BudgetSpent /\ reason' = reason
    BY <1>4 DEF Pack
  <2>2. Pool' = Pool
    BY <1>4, PackMovesOne
  <2>3. \A c \in Pool : reason[c] # "no_capacity" /\ reason[c] # "pool_remaining"
    BY <2>1 DEF LeftOver
  <2> QED
    BY <2>1, <2>2, <2>3 DEF LeftOver
<1>5. CASE CloseLast
  <2>1. phase = "pack" /\ phase' = "deal" /\ reason' = reason
    BY <1>5 DEF CloseLast
  <2>2. Done' = Done /\ Pool' = Pool /\ beleg' = beleg /\ today' = today
    BY <1>5, CloseLastKeepsTheLine
  <2> QED
    BY <2>1, <2>2 DEF LeftOver
<1>6. CASE Deal
  <2>1. phase = "deal" /\ UNCHANGED <<poolVars, phase, current, packs>>
        /\ \E Q, i : reason' = [c \in Ids |-> IF Q /\ c \in ToSet(packs[i])
                                              THEN "pool_remaining" ELSE reason[c]]
    BY <1>6 DEF Deal
  <2>2. \A c \in Pool : reason'[c] = "no_capacity" => reason[c] = "no_capacity"
    BY <2>1 DEF Pool
  <2>3. Pool' = Pool /\ Done' = Done /\ beleg' = beleg /\ today' = today
    BY <2>1 DEF Pool, Done, poolVars
  <2> QED
    BY <2>1, <2>2, <2>3 DEF LeftOver
<1>7. CASE UNCHANGED vars
  <2>1. BudgetSpent' <=> BudgetSpent
    BY <1>7, SpentStaysSpent DEF vars, planVars, poolVars
  <2> QED
    BY <1>7, <2>1 DEF vars, planVars, poolVars, LeftOver, Pool, Done
<1> QED
  BY <1>1, <1>2, <1>3, <1>4, <1>5, <1>6, <1>7, PlannerSteps

-----------------------------------------------------------------------------
(* Neighbours of one delivery and storage class stay together: only a pack that has
   one class and does not end inside a delivery is closed. *)

Kin(x, y) == SameGroup(x, y) /\ beleg[x].bereich = beleg[y].bereich

KeptTogether(x, y, P, open) ==
  \/ \E p \in DOMAIN P : {x, y} \subseteq ToSet(P[p])
  \/ {x, y} \subseteq ToSet(open)

NoSeam(D, P, open, kin) ==
  \A i \in 1 .. Len(D) - 1 : <<D[i], D[i + 1]>> \in kin => KeptTogether(D[i], D[i + 1], P, open)

KinOf == {p \in Ids \X Ids : Kin(p[1], p[2])}

Together ==
  phase # "idle" =>
    /\ NoSeam(Done, packs, current, KinOf)
    /\ \A x \in ToSet(current) : beleg[x].bereich = beleg[Head(current)].bereich
    /\ phase = "pack" /\ ~BudgetSpent /\ current = <<>> /\ Len(Done) # 0 /\ Len(todo) # 0 =>
         ~SameGroup(todo[1], Done[Len(Done)])

Lengthened(q, a, r) ==
  /\ \A p \in DOMAIN q : p \in DOMAIN r /\ r[p] = q[p]
  /\ \E p \in DOMAIN r : r[p] = a
  /\ ToSet(r) = ToSet(q) \cup {a}
  /\ r # <<>> /\ Head(r) = IF q = <<>> THEN a ELSE Head(q)

LEMMA AppendEntries ==
  ASSUME NEW S, NEW q \in Seq(S), NEW a \in S
  PROVE  Lengthened(q, a, Append(q, a)) /\ Append(q, a) \in Seq(S)
<1>1. PICK n, r : n = Len(q) /\ r = Append(q, a)
  OBVIOUS
<1>2. /\ r \in Seq(S) /\ Len(r) = n + 1 /\ n \in Nat /\ DOMAIN q = 1 .. n /\ DOMAIN r = 1 .. n + 1
      /\ \A p \in 1 .. n : r[p] = q[p]
      /\ r[n + 1] = a
  BY <1>1, AppendProperties, LenProperties
<1>3. \A p \in DOMAIN q : p \in DOMAIN r /\ r[p] = q[p]
  BY ONLY <1>2
<1>4. n + 1 \in DOMAIN r /\ \A p \in DOMAIN r : p \in DOMAIN q \/ p = n + 1
  BY ONLY <1>2
<1>5. ToSet(r) = ToSet(q) \cup {a}
  BY ONLY <1>2, <1>3, <1>4 DEF ToSet
<1>6. r # <<>> /\ Head(r) = r[1]
  BY <1>2
<1>7. r[1] = IF q = <<>> THEN a ELSE Head(q)
  <2>1. CASE q = <<>>
    <3>1. n = 0
      BY <1>1, <2>1, EmptySeq
    <3> QED
      BY <1>2, <2>1, <3>1
  <2>2. CASE q # <<>>
    <3>1. 1 \in 1 .. n /\ Head(q) = q[1]
      BY <1>1, <1>2, <2>2, EmptySeq
    <3> QED
      BY <1>2, <2>2, <3>1
  <2> QED
    BY <2>1, <2>2
<1> QED
  BY ONLY <1>1, <1>2, <1>3, <1>4, <1>5, <1>6, <1>7 DEF Lengthened

LEMMA KinIsSteady ==
  ASSUME beleg' = beleg, groups' = groups
  PROVE  KinOf' = KinOf
BY DEF KinOf, Kin, SameGroup

(* What Pack does with the Beleg at the head of the line. *)
LEMMA PackKeepsTogether ==
  ASSUME PlanTypes, Together, Pack,
         NEW c, c = Head(todo)
  PROVE  /\ \A x, y : KeptTogether(x, y, packs, current) => KeptTogether(x, y, packs', current')
         /\ \A x \in ToSet(current') : beleg[x].bereich = beleg[Head(current')].bereich
         /\ Len(Done) # 0 /\ <<Done[Len(Done)], c>> \in KinOf =>
              KeptTogether(Done[Len(Done)], c, packs', current')
         /\ current' = <<>> => ~(Len(todo) > 1 /\ SameGroup(c, todo[2]))
<1>1. /\ phase = "pack" /\ todo # <<>> /\ ~BudgetSpent
      /\ NoSeam(Done, packs, current, KinOf)
      /\ \A x \in ToSet(current) : beleg[x].bereich = beleg[Head(current)].bereich
      /\ current = <<>> /\ Len(Done) # 0 /\ Len(todo) # 0 => ~SameGroup(todo[1], Done[Len(Done)])
  BY DEF Pack, Together
<1>2. /\ todo \in Seq(Pool) /\ current \in Seq(Pool) /\ packs \in Seq(Seq(Pool))
      /\ FlattenSeq(packs) \in Seq(Pool)
  BY DEF PlanTypes
<1>3. c \in Pool /\ c = todo[1] /\ Len(todo) # 0
  <2>1. Len(todo) # 0
    BY ONLY <1>1, <1>2, EmptySeq
  <2> QED
    BY ONLY <1>1, <1>2, <2>1, c = Head(todo), HeadTailProperties
<1>4. PICK open, closed :
        /\ open = (IF MustClose(c) THEN <<c>> ELSE Append(current, c))
        /\ closed = (IF MustClose(c) THEN Append(packs, current) ELSE packs)
  OBVIOUS
<1>5. /\ packs' = IF MayClose(open) THEN Append(closed, open) ELSE closed
      /\ current' = IF MayClose(open) THEN <<>> ELSE open
  BY ONLY Pack, <1>4, c = Head(todo) DEF Pack
<1>6. <<c>> \in Seq(Pool) /\ ToSet(<<c>>) = {c} /\ <<c>> # <<>> /\ Head(<<c>>) = c
  BY ONLY <1>3 DEF ToSet
<1>7. /\ Append(current, c) \in Seq(Pool) /\ Append(current, c) # <<>>
      /\ ToSet(Append(current, c)) = ToSet(current) \cup {c}
      /\ Head(Append(current, c)) = IF current = <<>> THEN c ELSE Head(current)
  <2>1. Lengthened(current, c, Append(current, c)) /\ Append(current, c) \in Seq(Pool)
    BY ONLY <1>2, <1>3, AppendEntries
  <2> QED
    BY ONLY <2>1 DEF Lengthened
<1>8. open \in Seq(Pool) /\ closed \in Seq(Seq(Pool)) /\ open # <<>>
  BY ONLY <1>2, <1>4, <1>6, <1>7, AppendProperties
<1>9. /\ \A p \in DOMAIN packs : p \in DOMAIN closed /\ closed[p] = packs[p]
      /\ MustClose(c) => \E p \in DOMAIN closed : closed[p] = current
  <2>1. Lengthened(packs, current, Append(packs, current))
    BY ONLY <1>2, AppendEntries
  <2> QED
    BY ONLY <1>4, <2>1 DEF Lengthened
<1>10. /\ \A p \in DOMAIN closed : p \in DOMAIN packs' /\ packs'[p] = closed[p]
       /\ MayClose(open) => \E p \in DOMAIN packs' : packs'[p] = open
  <2>1. Lengthened(closed, open, Append(closed, open))
    BY ONLY <1>8, AppendEntries
  <2> QED
    BY ONLY <1>5, <2>1 DEF Lengthened
<1>11. \A x, y : {x, y} \subseteq ToSet(open) => KeptTogether(x, y, packs', current')
  BY ONLY <1>5, <1>10 DEF KeptTogether
<1>12. ASSUME NEW x, NEW y, KeptTogether(x, y, packs, current)
       PROVE  KeptTogether(x, y, packs', current')
  <2>1. CASE \E p \in DOMAIN packs : {x, y} \subseteq ToSet(packs[p])
    BY ONLY <1>9, <1>10, <2>1 DEF KeptTogether
  <2>2. CASE {x, y} \subseteq ToSet(current) /\ MustClose(c)
    BY ONLY <1>9, <1>10, <2>2 DEF KeptTogether
  <2>3. CASE {x, y} \subseteq ToSet(current) /\ ~MustClose(c)
    BY ONLY <1>4, <1>7, <1>11, <2>3
  <2> QED
    BY ONLY <1>12, <2>1, <2>2, <2>3 DEF KeptTogether
<1>13. ~MustClose(c) /\ current # <<>> => beleg[Head(current)].bereich = beleg[c].bereich
  BY DEF MustClose
<1>14. \A x \in ToSet(current') : beleg[x].bereich = beleg[Head(current')].bereich
  <2>1. \A x \in ToSet(<<>>) : FALSE
    BY EmptySeq DEF ToSet
  <2>2. \A x \in ToSet(open) : beleg[x].bereich = beleg[Head(open)].bereich
    <3>1. CASE MustClose(c)
      BY ONLY <1>4, <1>6, <3>1
    <3>2. CASE ~MustClose(c) /\ current = <<>>
      <4>1. ToSet(open) = {c} /\ Head(open) = c
        BY ONLY <1>4, <1>7, <2>1, <3>2
      <4> QED
        BY ONLY <4>1
    <3>3. CASE ~MustClose(c) /\ current # <<>>
      BY ONLY <1>1, <1>4, <1>7, <1>13, <3>3
    <3> QED
      BY ONLY <3>1, <3>2, <3>3
  <2> QED
    BY ONLY <1>5, <2>1, <2>2
<1>15. ASSUME Len(Done) # 0, <<Done[Len(Done)], c>> \in KinOf
       PROVE  KeptTogether(Done[Len(Done)], c, packs', current')
  <2>1. PICK z : z = Done[Len(Done)]
    OBVIOUS
  <2>2. SameGroup(z, c) /\ beleg[z].bereich = beleg[c].bereich
    BY <1>15, <2>1 DEF KinOf, Kin
  <2>3. SameGroup(c, z)
    BY <2>2 DEF SameGroup
  <2>4. current # <<>>
    BY ONLY <1>1, <1>3, <1>15, <2>1, <2>3
  <2>5. z = Last(current) /\ z \in ToSet(current)
    <3>1. PICK F, d : F = FlattenSeq(packs) /\ d = Done
      OBVIOUS
    <3>2. F \in Seq(Pool) /\ d = F \o current
      BY <1>2, <3>1 DEF Done
    <3>3. /\ Len(d) = Len(F) + Len(current) /\ Len(F) \in Nat /\ Len(current) \in Nat
          /\ \A i \in 1 .. Len(F) + Len(current) :
                d[i] = IF i <= Len(F) THEN F[i] ELSE current[i - Len(F)]
      BY ONLY <1>2, <3>2, ConcatProperties, LenProperties
    <3>4. Len(current) # 0
      BY ONLY <1>2, <2>4, EmptySeq
    <3>5. d[Len(d)] = current[Len(current)]
      <4>1. Len(d) \in 1 .. Len(F) + Len(current) /\ ~(Len(d) <= Len(F)) /\ Len(d) - Len(F) = Len(current)
        BY ONLY <3>3, <3>4
      <4> QED
        BY ONLY <3>3, <4>1
    <3>6. Len(current) \in DOMAIN current
      BY ONLY <1>2, <3>3, <3>4, LenProperties
    <3> QED
      BY ONLY <2>1, <3>1, <3>5, <3>6 DEF Last, ToSet
  <2>6. ~MustClose(c)
    BY <1>1, <2>2, <2>3, <2>5 DEF MustClose
  <2> QED
    BY ONLY <1>4, <1>7, <1>11, <2>1, <2>5, <2>6
<1>16. current' = <<>> => ~(Len(todo) > 1 /\ SameGroup(c, todo[2]))
  BY ONLY <1>5, <1>8, c = Head(todo) DEF MayClose
<1> QED
  BY ONLY <1>12, <1>14, <1>15, <1>16

LEMMA TogetherIsKept ==
  ASSUME PoolTypes, Numbered, PlanTypes, Together, [Next]_vars
  PROVE  Together'
<1>0. PICK kin : kin = KinOf
  OBVIOUS
<1>1. CASE phase' = "idle"
  BY <1>1 DEF Together
<1>2. CASE \E capacity \in Shifts : StartPlan(capacity)
  <2>1. PICK capacity \in Shifts : StartPlan(capacity)
    BY <1>2
  <2>2. phase = "idle" /\ UNCHANGED <<current, packs>>
    BY ONLY PoolTypes, Numbered, PlanTypes, <2>1, TheLineStarts
  <2>3. packs' = <<>> /\ current' = <<>>
    BY <2>2 DEF PlanTypes
  <2>4. Done' = <<>> /\ Len(<<>>) = 0
    BY <2>3, EmptyPlan DEF Done
  <2>5. Len(Done') = 0
    BY <2>4
  <2>6. \A x \in ToSet(current') : FALSE
    BY <2>3, EmptyPlan DEF ToSet
  <2>7. NoSeam(Done', packs', current', KinOf')
    BY ONLY <2>5 DEF NoSeam
  <2> QED
    BY ONLY <2>5, <2>6, <2>7 DEF Together
<1>3. CASE Overflow
  <2>1. phase = "pack" /\ BudgetSpent
    BY <1>3 DEF Overflow
  <2>2. /\ Pool' = Pool /\ beleg' = beleg /\ groups' = groups
        /\ UNCHANGED <<phase, net, packs, current>> /\ Done' = Done
    BY <1>3, OverflowTakesOut
  <2>3. BudgetSpent' /\ KinOf' = KinOf
    BY <2>1, <2>2, SpentStaysSpent, KinIsSteady
  <2>4. /\ NoSeam(Done, packs, current, KinOf)
        /\ \A x \in ToSet(current) : beleg[x].bereich = beleg[Head(current)].bereich
    BY <2>1 DEF Together
  <2> QED
    BY <2>2, <2>3, <2>4 DEF Together
<1>4. CASE Pack
  <2>1. phase = "pack" /\ phase' = phase /\ todo' = Tail(todo) /\ todo # <<>>
    BY <1>4 DEF Pack
  <2>2. NoSeam(Done, packs, current, KinOf)
    BY <2>1 DEF Together
  <2>3. /\ beleg' = beleg /\ groups' = groups /\ Head(todo) \in Pool
        /\ Done' = Append(Done, Head(todo))
    BY <1>4, PackMovesOne
  <2>4. PICK c, D, R, P, Q, u, v : /\ c = Head(todo) /\ D = Done /\ R = Done'
                                   /\ P = packs /\ Q = packs' /\ u = current /\ v = current'
    OBVIOUS
  <2>5. /\ \A x, y : KeptTogether(x, y, P, u) => KeptTogether(x, y, Q, v)
        /\ \A x \in ToSet(v) : beleg[x].bereich = beleg[Head(v)].bereich
        /\ Len(D) # 0 /\ <<D[Len(D)], c>> \in kin => KeptTogether(D[Len(D)], c, Q, v)
        /\ v = <<>> => ~(Len(todo) > 1 /\ SameGroup(c, todo[2]))
    BY <1>0, <1>4, <2>4, PackKeepsTogether
  <2>6. /\ D \in Seq(Pool) /\ c \in Pool /\ R = Append(D, c) /\ NoSeam(D, P, u, kin)
    BY <1>0, <2>2, <2>3, <2>4, LineTypes
  <2>7. /\ Len(D) \in Nat /\ Len(R) = Len(D) + 1
        /\ \A i \in 1 .. Len(D) : R[i] = D[i]
        /\ R[Len(D) + 1] = c
    BY ONLY <2>6, AppendProperties, LenProperties
  <2>8. NoSeam(R, Q, v, kin)
    <3> SUFFICES ASSUME NEW i \in 1 .. Len(R) - 1, <<R[i], R[i + 1]>> \in kin
                 PROVE  KeptTogether(R[i], R[i + 1], Q, v)
      BY DEF NoSeam
    <3>1. i \in 1 .. Len(D) /\ R[i] = D[i] /\ i \in Int
      BY ONLY <2>7, i \in 1 .. Len(R) - 1
    <3>2. CASE i = Len(D)
      <4>1. R[i + 1] = c /\ Len(D) # 0
        BY ONLY <2>7, <3>1, <3>2
      <4>2. <<D[Len(D)], c>> \in kin
        BY ONLY <3>1, <3>2, <4>1, <<R[i], R[i + 1]>> \in kin
      <4> QED
        BY ONLY <2>5, <3>1, <3>2, <4>1, <4>2
    <3>3. CASE i # Len(D)
      <4>1. i + 1 \in 1 .. Len(D) /\ i \in 1 .. Len(D) - 1
        BY ONLY <2>7, <3>1, <3>3
      <4>2. R[i + 1] = D[i + 1]
        BY ONLY <2>7, <4>1
      <4>3. KeptTogether(D[i], D[i + 1], P, u)
        BY ONLY <2>6, <3>1, <4>1, <4>2, <<R[i], R[i + 1]>> \in kin DEF NoSeam
      <4> QED
        BY ONLY <2>5, <3>1, <4>2, <4>3
    <3> QED
      BY ONLY <3>2, <3>3
  <2>9. ASSUME v = <<>>, Len(todo') # 0
        PROVE  ~SameGroup(todo'[1], R[Len(R)])
    <3>1. PICK t, r : t = todo /\ r = todo'
      OBVIOUS
    <3>2. t \in Seq(Pool) /\ t # <<>> /\ r = Tail(t)
      BY <2>1, <3>1 DEF PlanTypes
    <3>3. Len(t) # 0
      BY ONLY <3>2, EmptySeq
    <3>4. Len(r) = Len(t) - 1 /\ Len(t) \in Nat /\ \A i \in 1 .. Len(r) : r[i] = t[i + 1]
      BY ONLY <3>2, <3>3, HeadTailProperties, LenProperties
    <3>5. Len(t) > 1 /\ r[1] = t[2]
      BY <2>9, <3>1, <3>4
    <3>6. ~SameGroup(c, t[2])
      BY <2>5, <2>9, <3>1, <3>5
    <3>7. R[Len(R)] = c
      BY ONLY <2>7
    <3> QED
      BY <3>1, <3>5, <3>6, <3>7 DEF SameGroup
  <2>10. KinOf' = kin /\ \A x, y : SameGroup(x, y)' = SameGroup(x, y)
    BY <1>0, <2>3, KinIsSteady DEF SameGroup
  <2>11. todo'[1] = todo'[1] /\ Len(todo') = Len(todo')
    OBVIOUS
  <2> QED
    BY <2>1, <2>3, <2>4, <2>5, <2>8, <2>9, <2>10 DEF Together, SameGroup
<1>5. CASE CloseLast
  <2>1. /\ phase = "pack" /\ phase' = "deal" /\ current' = <<>>
        /\ packs' = IF current = <<>> THEN packs ELSE Append(packs, current)
    BY <1>5 DEF CloseLast
  <2>2. Done' = Done /\ beleg' = beleg /\ groups' = groups
    BY <1>5, CloseLastKeepsTheLine
  <2>3. NoSeam(Done, packs, current, KinOf)
    BY <2>1 DEF Together
  <2>4. ASSUME NEW x, NEW y, KeptTogether(x, y, packs, current)
        PROVE  KeptTogether(x, y, packs', current')
    <3>1. CASE current = <<>>
      BY <2>1, <2>4, <3>1
    <3>2. CASE current # <<>>
      <4>1. Lengthened(packs, current, Append(packs, current))
        BY AppendEntries DEF PlanTypes
      <4> QED
        BY ONLY <2>1, <2>4, <3>2, <4>1 DEF Lengthened, KeptTogether
    <3> QED
      BY <3>1, <3>2
  <2>5. NoSeam(Done, packs', current', KinOf)
    BY ONLY <2>3, <2>4 DEF NoSeam
  <2>6. KinOf' = KinOf
    BY <2>2, KinIsSteady
  <2>7. \A x \in ToSet(current') : FALSE
    BY <2>1, EmptyPlan DEF ToSet
  <2> QED
    BY <2>1, <2>2, <2>5, <2>6, <2>7 DEF Together
<1>6. CASE Deal
  <2>1. phase = "deal" /\ UNCHANGED <<poolVars, phase, groups, current, packs>>
    BY <1>6 DEF Deal
  <2>2. KinOf' = KinOf /\ Done' = Done /\ beleg' = beleg
    BY <2>1, KinIsSteady DEF poolVars, Done
  <2>3. /\ NoSeam(Done, packs, current, KinOf)
        /\ \A x \in ToSet(current) : beleg[x].bereich = beleg[Head(current)].bereich
    BY <2>1 DEF Together
  <2> QED
    BY <2>1, <2>2, <2>3 DEF Together
<1>7. CASE UNCHANGED vars
  <2>1. /\ UNCHANGED <<phase, groups, net, todo, current, packs, beleg>>
    BY <1>7 DEF vars, planVars, poolVars
  <2>2. (BudgetSpent' <=> BudgetSpent) /\ KinOf' = KinOf /\ Done' = Done
    BY <2>1, SpentStaysSpent, KinIsSteady DEF Done
  <2> QED
    BY <2>1, <2>2 DEF Together, SameGroup
<1> QED
  BY <1>1, <1>2, <1>3, <1>4, <1>5, <1>6, <1>7, PlannerSteps

-----------------------------------------------------------------------------
(* The dealing: a pack nobody got fits nobody who has none, now and later, for the
   minutes of a shift do not change and nobody loses his pack. *)

Dealt ==
  phase = "deal" =>
    /\ \A i \in undealt : given[i] = 0
    /\ \A i \in DOMAIN packs \ undealt : given[i] = 0 => Candidates(i) = {}
    /\ \A c \in Pool : reason[c] = "pool_remaining" <=>
         \E i \in DOMAIN packs \ undealt : given[i] = 0 /\ c \in ToSet(packs[i])

LEMMA NobodyIsZero == 0 \notin Workers
<1>1. Cardinality(Workers) \in Nat /\ Workers = 1 .. Cardinality(Workers)
  BY DayPlanAssumption, FS_CardinalityType
<1> QED
  BY ONLY <1>1

LEMMA DealtIsKept ==
  ASSUME PoolTypes, Numbered, PlanTypes, LeftOver, Dealt, [Next]_vars
  PROVE  Dealt'
<1>1. CASE phase' # "deal"
  BY <1>1 DEF Dealt
<1>2. CASE CloseLast
  <2>1. /\ phase = "pack" /\ given' = [i \in DOMAIN packs' |-> 0] /\ undealt' = DOMAIN packs'
        /\ reason' = reason /\ Pool' = Pool
    BY <1>2 DEF CloseLast, Pool, poolVars
  <2>2. \A c \in Pool : reason[c] # "pool_remaining"
    BY <2>1 DEF LeftOver
  <2> QED
    BY <2>1, <2>2 DEF Dealt
<1>3. CASE Deal
  <2>1. PICK i, K, v : /\ i = NextPack /\ K = Candidates(i)
                       /\ v = CHOOSE e \in K : \A f \in K \ {e} : Better(e, f, i)
    OBVIOUS
  <2>2. /\ phase = "deal" /\ undealt # {} /\ undealt' = undealt \ {i}
        /\ given' = [given EXCEPT ![i] = IF K = {} THEN 0 ELSE v]
        /\ reason' = [c \in Ids |-> IF K = {} /\ c \in ToSet(packs[i])
                                    THEN "pool_remaining" ELSE reason[c]]
        /\ UNCHANGED <<poolVars, net, packs>>
    BY <1>3, <2>1 DEF Deal
  <2>3. undealt \subseteq DOMAIN packs /\ DOMAIN given = DOMAIN packs
    BY <2>2 DEF PlanTypes
  <2>4. i \in undealt /\ i \in DOMAIN packs
    BY <2>1, <2>2, <2>3, ThereIsANextPack
  <2>5. K # {} => v \in K
    BY <2>1, <2>4, TheBestIsACandidate
  <2>6. K \subseteq Workers
    BY <2>1 DEF Candidates
  <2>7. /\ \A j \in undealt : given[j] = 0
        /\ \A j \in DOMAIN packs \ undealt : given[j] = 0 => Candidates(j) = {}
        /\ \A c \in Pool : reason[c] = "pool_remaining" <=>
             \E j \in DOMAIN packs \ undealt : given[j] = 0 /\ c \in ToSet(packs[j])
    BY <2>2 DEF Dealt
  <2>8. /\ DOMAIN given' = DOMAIN given
        /\ \A j \in DOMAIN given : j # i => given'[j] = given[j]
        /\ given'[i] = 0 <=> K = {}
    BY <2>2, <2>3, <2>4, <2>5, <2>6, NobodyIsZero
  <2>9. \A j \in undealt \ {i} : given'[j] = 0
    BY <2>3, <2>7, <2>8
  <2>10. \A j : Candidates(j)' \subseteq Candidates(j)
    <3>1. \A j : Minutes(packs[j])' = Minutes(packs[j])
      BY <2>2 DEF Minutes, poolVars
    <3>2. \A e \in Workers : (\A j \in DOMAIN given' : given'[j] # e) => \A j \in DOMAIN given : given[j] # e
      BY <2>4, <2>7, <2>8, NobodyIsZero
    <3> QED
      BY <2>2, <3>1, <3>2 DEF Candidates
  <2>11. ASSUME NEW j \in DOMAIN packs \ (undealt \ {i}), given'[j] = 0
         PROVE  Candidates(j)' = {}
    <3>1. Candidates(j) = {}
      BY <2>1, <2>3, <2>7, <2>8, <2>11
    <3> QED
      BY <2>10, <3>1
  <2>12. ASSUME NEW c \in Pool
         PROVE  reason'[c] = "pool_remaining" <=>
                  \E j \in DOMAIN packs \ (undealt \ {i}) : given'[j] = 0 /\ c \in ToSet(packs[j])
    <3>1. c \in Ids
      BY DEF Pool
    <3>2. reason'[c] = "pool_remaining" <=>
            (K = {} /\ c \in ToSet(packs[i])) \/ reason[c] = "pool_remaining"
      BY <2>2, <3>1
    <3>3. (\E j \in DOMAIN packs \ (undealt \ {i}) : given'[j] = 0 /\ c \in ToSet(packs[j])) <=>
            \/ given'[i] = 0 /\ c \in ToSet(packs[i])
            \/ \E j \in DOMAIN packs \ undealt : given'[j] = 0 /\ c \in ToSet(packs[j])
      BY ONLY <2>4
    <3>4. \A j \in DOMAIN packs \ undealt : given'[j] = given[j]
      BY ONLY <2>3, <2>4, <2>8
    <3> QED
      BY ONLY <2>7, <2>8, <3>2, <3>3, <3>4, c \in Pool
  <2>13. Pool' = Pool /\ packs' = packs
    BY <2>2 DEF Pool, poolVars
  <2> QED
    BY ONLY <2>2, <2>9, <2>11, <2>12, <2>13 DEF Dealt
<1>4. CASE UNCHANGED vars
  <2>1. /\ UNCHANGED <<phase, net, packs, given, undealt, reason, beleg, st>>
    BY <1>4 DEF vars, planVars, poolVars
  <2>2. \A j : Candidates(j)' = Candidates(j)
    BY <2>1 DEF Candidates, Minutes
  <2> QED
    BY <2>1, <2>2 DEF Dealt, Pool
<1>5. CASE \/ \E capacity \in Shifts : StartPlan(capacity)
           \/ Overflow \/ Pack
  <2>1. phase' # "deal"
    BY <1>5 DEF StartPlan, Overflow, Pack
  <2> QED
    BY <1>1, <2>1
<1> QED
  BY <1>1, <1>2, <1>3, <1>4, <1>5, PlannerSteps

-----------------------------------------------------------------------------
(* The invariant of the planner, and what follows from it. *)

PlanInvariant ==
  PoolTypes /\ Numbered /\ PlanTypes /\ Line /\ LeftOver /\ Together /\ Dealt

THEOREM PlannerKeepsTheLine == Spec => []PlanInvariant
<1>1. Init => PlanInvariant
  <2> SUFFICES ASSUME Init PROVE PlanInvariant
    OBVIOUS
  <2>1. phase = "idle"
    BY DEF Init, NoPlan
  <2> QED
    BY <2>1, ADayStarts DEF PlanInvariant, Line, LeftOver, Together, Dealt
<1>2. PlanInvariant /\ [Next]_vars => PlanInvariant'
  BY PoolIsKept, PlanTypesAreKept, LineIsKept, LeftOverIsKept, TogetherIsKept, DealtIsKept
     DEF PlanInvariant
<1> QED
  BY <1>1, <1>2, PTL DEF Spec

LEMMA PlacesCounted ==
  ASSUME PlanInvariant, phase # "idle", NEW c \in Pool
  PROVE  Cardinality({i \in DOMAIN Places : Places[i] = c})
           = IF reason[c] \in Sifted THEN 0 ELSE 1
<1>1. PICK P, I : P = Places /\ I = {i \in DOMAIN P : P[i] = c}
  OBVIOUS
<1>2. /\ PoolTypes /\ Numbered /\ P \in Seq(Pool) /\ InOrder(P, beleg, today)
      /\ (\E i \in 1 .. Len(P) : P[i] = c) <=> reason[c] \notin Sifted
  BY <1>1, LineTypes DEF PlanInvariant, Line, Accounted
<1>3. DOMAIN P = 1 .. Len(P)
  BY ONLY <1>2, LenProperties
<1>4. CASE reason[c] \in Sifted
  <2>1. I = {}
    BY ONLY <1>1, <1>2, <1>3, <1>4
  <2> QED
    BY <1>1, <1>4, <2>1, FS_EmptySet
<1>5. CASE reason[c] \notin Sifted
  <2>1. PICK i \in 1 .. Len(P) : P[i] = c
    BY ONLY <1>2, <1>5
  <2>2. ASSUME NEW j \in 1 .. Len(P), P[j] = c PROVE j = i
    BY ONLY <1>2, <2>1, <2>2, NobodyStandsTwice
  <2>3. I = {i}
    BY ONLY <1>1, <1>3, <2>1, <2>2
  <2> QED
    BY <1>1, <1>5, <2>3, FS_Singleton
<1> QED
  BY <1>4, <1>5

(* No Beleg of the pool is lost by a recalculation and none is planned twice, in any
   of its states: packs, open pack and waiting Belege are one line without a
   repetition, and who is not in it has been sifted out or left over
   (buildPlan, plan.ts). *)
THEOREM NoBelegIsLost == Spec => []EveryBelegHasOnePlace
<1>1. PlanInvariant => EveryBelegHasOnePlace
  <2> SUFFICES ASSUME PlanInvariant, phase # "idle", NEW c \in Pool
               PROVE  /\ Cardinality({i \in DOMAIN Places : Places[i] = c})
                           = (IF reason[c] \in Sifted THEN 0 ELSE 1)
                      /\ (reason[c] = "pool_remaining") <=>
                           \E i \in DOMAIN given \ undealt : given[i] = 0 /\ c \in ToSet(packs[i])
    BY DEF EveryBelegHasOnePlace, Sifted
  <2>1. Cardinality({i \in DOMAIN Places : Places[i] = c}) = (IF reason[c] \in Sifted THEN 0 ELSE 1)
    BY PlacesCounted
  <2>2. CASE phase = "pack"
    <3>1. given = <<>> /\ reason[c] # "pool_remaining"
      BY <2>2 DEF PlanInvariant, PlanTypes, LeftOver
    <3>2. DOMAIN given = {}
      BY <3>1
    <3> QED
      BY ONLY <2>1, <3>1, <3>2
  <2>3. CASE phase = "deal"
    <3>1. DOMAIN given = DOMAIN packs
      BY <2>3 DEF PlanInvariant, PlanTypes
    <3>2. (reason[c] = "pool_remaining") <=>
            \E i \in DOMAIN packs \ undealt : given[i] = 0 /\ c \in ToSet(packs[i])
      BY <2>3 DEF PlanInvariant, Dealt
    <3> QED
      BY ONLY <2>1, <3>1, <3>2
  <2> QED
    BY <2>2, <2>3 DEF PlanInvariant, PlanTypes
<1> QED
  BY <1>1, PlannerKeepsTheLine, PTL

(* The packs follow the ladder and nothing is left out for want of minutes while
   something less urgent is packed (createBalancedBundles, bundling.ts). *)
THEOREM UrgencyIsKept == Spec => []UrgentIsPackedFirst
<1>1. PlanInvariant => UrgentIsPackedFirst
  <2> SUFFICES ASSUME PlanInvariant, phase # "idle"
               PROVE  /\ \A i, j \in DOMAIN Places : i < j =>
                           Before(beleg[Places[i]], beleg[Places[j]], today)
                      /\ \A c \in Pool : reason[c] = "no_capacity" =>
                           \A i \in DOMAIN Places : Packed(Places[i]) =>
                             Before(beleg[Places[i]], beleg[c], today)
    BY DEF UrgentIsPackedFirst
  <2>1. PlanTypes /\ InOrder(Places, beleg, today)
    BY DEF PlanInvariant, Line
  <2>2. DOMAIN Places = 1 .. Len(Places)
    BY <2>1, LineTypes, LenProperties
  <2>3. ASSUME NEW c \in Pool, reason[c] = "no_capacity", NEW x, Packed(x)
        PROVE  Before(beleg[x], beleg[c], today)
    <3>1. PICK p \in DOMAIN packs : x \in ToSet(packs[p])
      BY <2>3 DEF Packed
    <3>2. PICK i \in 1 .. Len(Done) : Done[i] = x
      BY <2>1, <3>1, WhatIsPackedIsDone
    <3> QED
      BY <2>3, <3>2 DEF PlanInvariant, LeftOver
  <2> QED
    BY ONLY <2>1, <2>2, <2>3 DEF InOrder
<1> QED
  BY <1>1, PlannerKeepsTheLine, PTL

(* Two neighbours of the line that belong to one delivery and one storage class lie
   in one pack in the end, whatever the sizes of packs are. *)
THEOREM DeliveriesAreNotTorn == Spec => []DeliveryStaysInOnePack
<1>1. PlanInvariant => DeliveryStaysInOnePack
  <2> SUFFICES ASSUME PlanInvariant, phase = "deal", NEW i \in 1 .. Len(Places) - 1,
                      SameGroup(Places[i], Places[i + 1]),
                      beleg[Places[i]].bereich = beleg[Places[i + 1]].bereich
               PROVE  \E p \in DOMAIN packs : {Places[i], Places[i + 1]} \subseteq ToSet(packs[p])
    BY DEF DeliveryStaysInOnePack
  <2>1. PlanTypes /\ NoSeam(Done, packs, current, KinOf) /\ todo = <<>> /\ current = <<>>
    BY DEF PlanInvariant, Together, PlanTypes
  <2>2. Done \in Seq(Pool) /\ Places = Done
    <3>1. Done \in Seq(Pool) /\ Places = Done \o todo
      BY ONLY <2>1, LineTypes
    <3> QED
      BY ONLY <2>1, <3>1, ConcatEmptySeq
  <2>3. Places[i] \in Ids /\ Places[i + 1] \in Ids
    <3>1. \A k \in 1 .. Len(Places) : Places[k] \in Ids
      BY <2>2, LenProperties DEF Pool
    <3>2. i \in 1 .. Len(Places) /\ i + 1 \in 1 .. Len(Places)
      BY <2>2, LenProperties
    <3> QED
      BY ONLY <3>1, <3>2
  <2>4. <<Places[i], Places[i + 1]>> \in KinOf
    BY <2>3 DEF KinOf, Kin
  <2>5. KeptTogether(Places[i], Places[i + 1], packs, current)
    BY ONLY <2>1, <2>2, <2>4, i \in 1 .. Len(Places) - 1 DEF NoSeam
  <2>6. ToSet(<<>>) = {}
    BY EmptyPlan DEF ToSet
  <2> QED
    BY ONLY <2>1, <2>5, <2>6 DEF KeptTogether
<1> QED
  BY <1>1, PlannerKeepsTheLine, PTL

(* When the packs are dealt, nobody with minutes left goes without one while a pack
   that fits him lies in the pool (optimizeTwoStage, two-stage.ts). *)
THEOREM NobodyWaitsForNothing == Spec => []NobodyIdleWhileWorkFits
<1>1. PlanInvariant => NobodyIdleWhileWorkFits
  <2> SUFFICES ASSUME PlanInvariant, phase = "deal", undealt = {},
                      NEW e \in Workers, NEW i \in DOMAIN packs,
                      net[e] > 0, given[i] = 0, Minutes(packs[i]) <= net[e]
               PROVE  \E j \in DOMAIN packs : given[j] = e
    BY DEF NobodyIdleWhileWorkFits
  <2>1. Candidates(i) = {} /\ DOMAIN given = DOMAIN packs
    BY DEF PlanInvariant, Dealt, PlanTypes
  <2> QED
    BY <2>1 DEF Candidates
<1> QED
  BY <1>1, PlannerKeepsTheLine, PTL

-----------------------------------------------------------------------------
(* "X of N". *)

LEMMA TheSizeIsTheLargest ==
  ASSUME NEW D, IsFiniteSet(D), NEW b, \A x \in D : b[x].size \in Nat, NEW c \in D
  PROVE  ExpectedSize(b, D) \in Nat /\ b[c].size <= ExpectedSize(b, D)
<1>1. PICK N : N = {b[x].size : x \in D}
  OBVIOUS
<1>2. IsFiniteSet(N) /\ N \subseteq Nat /\ N # {}
  <2>1. IsFiniteSet(N)
    <3>1. PICK f : f = [x \in D |-> b[x].size]
      OBVIOUS
    <3>2. f \in Surjection(D, N)
      BY <1>1, <3>1 DEF Surjection
    <3> QED
      BY <3>2, FS_Surjection
  <2> QED
    BY <1>1, <2>1
<1>3. \E m \in N : \A n \in N : m >= n
  <2>1. N \subseteq Int
    BY <1>2
  <2> QED
    BY ONLY <1>2, <2>1, GreatestNumber
<1>4. \E n \in {b[x].size : x \in D} : \A x \in D : b[x].size <= n
  <2>1. PICK m \in N : \A n \in N : m >= n
    BY <1>3
  <2>2. \A x \in D : b[x].size \in N /\ b[x].size \in Nat
    BY <1>1
  <2>3. m \in Nat
    BY <1>2
  <2>4. \A x \in D : b[x].size <= m
    BY ONLY <2>1, <2>2, <2>3
  <2> QED
    BY ONLY <1>1, <2>1, <2>4
<1>5. PICK s : s = ExpectedSize(b, D)
  OBVIOUS
<1>6. s \in {b[x].size : x \in D} /\ \A x \in D : b[x].size <= s
  BY ONLY <1>4, <1>5, Zenon DEF ExpectedSize
<1> QED
  BY <1>5, <1>6

(* A delivery of which some Belege have not arrived is withheld as a whole from the
   plan, unless the Teamlead has corrected or released it, as long as the signals
   link no other Beleg to it (withheldCaseIds). *)
THEOREM IncompleteDeliveriesStay == Spec => []PlanHoldsIncompleteDeliveries
<1>1. PlanInvariant => PlanHoldsIncompleteDeliveries
  <2> SUFFICES ASSUME PlanInvariant, phase = "deal", NEW c \in Pool, MustWait(c),
                      NEW g \in groups, g.cases = Mates(c)
               PROVE  ~Packed(c)
    BY DEF PlanHoldsIncompleteDeliveries
  <2>1. /\ PoolTypes /\ PlanTypes
        /\ groups = DeliveryGroupsOf(beleg, Pool)
        /\ Accounted(Places, Pool, reason)
        /\ c \in Withheld(beleg, groups) => reason[c] = "delivery_unconfirmed"
    BY DEF PlanInvariant, Line
  <2>2. PICK D : D = Mates(c)
    OBVIOUS
  <2>3. /\ c \in D /\ ~beleg[c].released /\ D \subseteq Pool
        /\ \A d \in D : beleg[d].manual = NoKey
        /\ Cardinality(D) \in 2 .. beleg[c].size - 1
    BY <2>2 DEF MustWait, Mates
  <2>4. g.confidence # "locked"
    <3>1. CASE \E d \in Pool \ Automatic(beleg, Pool) :
                 g = [cases |-> {x \in Pool : beleg[x].manual = beleg[d].manual},
                      confidence |-> "locked"]
      <4>1. PICK d \in Pool \ Automatic(beleg, Pool) :
                 g = [cases |-> {x \in Pool : beleg[x].manual = beleg[d].manual},
                      confidence |-> "locked"]
        BY <3>1
      <4>2. beleg[d].manual # NoKey
        BY DEF Automatic
      <4>3. c \in {x \in Pool : beleg[x].manual = beleg[d].manual}
        BY <2>2, <2>3, <4>1
      <4> QED
        BY <2>3, <4>2, <4>3
    <3>2. CASE \E x \in Automatic(beleg, Pool) :
                 LET E == Component(ClosedSets(beleg, Automatic(beleg, Pool)), Automatic(beleg, Pool), x)
                 IN  g = [cases |-> E, confidence |-> Confidence(beleg, Automatic(beleg, Pool), E)]
      <4>1. PICK E, S : g = [cases |-> E, confidence |-> Confidence(beleg, S, E)]
        BY <3>2
      <4>2. Confidence(beleg, S, E) # "locked"
        BY DEF Confidence
      <4> QED
        BY <4>1, <4>2
    <3> QED
      BY <2>1, <3>1, <3>2, GroupIsOneOfTwo
  <2>5. IsFiniteSet(D) /\ \A d \in D : beleg[d].size \in Nat
    <3>1. D \in SUBSET Ids
      BY <2>3 DEF Pool
    <3>2. IsFiniteSet(D)
      BY ONLY <3>1, IdsAreFinite, FS_Subset
    <3> QED
      BY <2>1, <3>1, <3>2 DEF PoolTypes, IsBeleg
  <2>6. PICK k, n, s : k = Cardinality(D) /\ n = beleg[c].size /\ s = ExpectedSize(beleg, D)
    OBVIOUS
  <2>7. s \in Nat /\ n <= s /\ n \in Nat /\ k \in 2 .. n - 1
    BY <2>3, <2>5, <2>6, TheSizeIsTheLargest
  <2>8. Incomplete(beleg, D)
    <3>1. k < s
      BY ONLY <2>7
    <3> QED
      BY <2>6, <3>1 DEF Incomplete
  <2>9. c \in Withheld(beleg, groups)
    BY <2>2, <2>3, <2>4, <2>8 DEF Withheld
  <2>10. reason[c] \in Sifted
    BY <2>1, <2>9 DEF Sifted
  <2>11. ASSUME Packed(c) PROVE FALSE
    <3>1. PICK p \in DOMAIN packs : c \in ToSet(packs[p])
      BY <2>11 DEF Packed
    <3>2. PICK i \in 1 .. Len(Done) : Done[i] = c
      BY <2>1, <3>1, WhatIsPackedIsDone
    <3>3. i \in 1 .. Len(Places) /\ Places[i] = c
      BY <2>1, <3>2, DoneIsInTheLine
    <3> QED
      BY ONLY <2>1, <2>10, <3>3, c \in Pool DEF Accounted
  <2> QED
    BY <2>11
<1> QED
  BY <1>1, PlannerKeepsTheLine, PTL

-----------------------------------------------------------------------------
(* A loading day is a day: the earliest of a set of days, or the one the Beleg
   carries. *)

LEMMA LoadPlanDateIsADay ==
  ASSUME NEW b, IsBeleg(b), NEW day \in Nat
  PROVE  LoadPlanDate(b, day) \in Nat
<1>1. PICK days : days = LoadingDays(b, day)
  OBVIOUS
<1>2. b.day \in Nat /\ b.loadPlanDate \in Nat
  BY DEF IsBeleg
<1>3. \A r \in LoadPlan : r.from \in Nat /\ NextWeekday(b.day, r.weekday) \in Nat
  <2> SUFFICES ASSUME NEW r \in LoadPlan
               PROVE  r.from \in Nat /\ NextWeekday(b.day, r.weekday) \in Nat
    OBVIOUS
  <2>1. r.from \in Nat /\ r.weekday \in Nat
    BY PriorityAssumption
  <2>2. PICK w, d : w = r.weekday /\ d = b.day
    OBVIOUS
  <2>3. (w - d) % 7 \in Nat
    BY ONLY <1>2, <2>1, <2>2
  <2> QED
    BY ONLY <1>2, <2>1, <2>2, <2>3 DEF NextWeekday
<1>4. days \subseteq Nat
  BY <1>1, <1>3 DEF LoadingDays, WeeklyRows
<1>5. CASE days = {}
  BY <1>1, <1>2, <1>5 DEF LoadPlanDate
<1>6. CASE days # {}
  <2>1. \E m \in days : \A n \in days : m <= n
    BY ONLY <1>4, <1>6, LeastNumber
  <2>2. Min(days) \in days
    BY ONLY <2>1, Zenon DEF Min
  <2> QED
    BY <1>1, <1>4, <1>6, <2>2 DEF LoadPlanDate
<1> QED
  BY <1>5, <1>6

(* A Beleg that waits never loses urgency by the passing of days while the same rows
   of its weekly plan are valid: the loading day stays the one counted from the
   booking, and once it is reached it stays reached (resolveLoadPlanDate). *)
THEOREM UrgencyGrowsWithWaiting == Spec => WaitingKeepsUrgency
<1>1. ASSUME PlanInvariant, [Next]_vars, today' # today, NEW c \in Pool,
             WeeklyRows(beleg[c].area, today') = WeeklyRows(beleg[c].area, today)
      PROVE  Rank(beleg[c], today') <= Rank(beleg[c], today)
  <2>1. today' = today + 1
    <3>1. NextDay
      <4>1. \A e, budget : Pull(e, budget) => today' = today
        BY DEF Pull
      <4>2. TeamleadCorrects => today' = today
        BY <1>1, CorrectionsKeepTheGoods DEF PlanInvariant
      <4> QED
        BY <1>1, <4>1, <4>2 DEF Next, TeamleadCorrects, Book, SplitCase, Begin, Finish, StartPlan,
             Overflow, Pack, CloseLast, Deal, Persist, vars, poolVars
    <3> QED
      BY <3>1 DEF NextDay
  <2>2. today \in Nat /\ IsBeleg(beleg[c])
    BY <1>1 DEF PlanInvariant, PoolTypes, Pool
  <2>3. PICK b, d, e : b = beleg[c] /\ d = today /\ e = today'
    OBVIOUS
  <2>4. LoadingDays(b, e) = LoadingDays(b, d)
    BY <1>1, <2>3 DEF LoadingDays
  <2>5. LoadPlanDate(b, e) = LoadPlanDate(b, d)
    BY ONLY <2>4 DEF LoadPlanDate
  <2>6. PICK load : load = LoadPlanDate(b, d)
    OBVIOUS
  <2>7. load \in Nat
    BY <2>2, <2>3, <2>6, LoadPlanDateIsADay
  <2>8. load <= d => load <= e
    BY <2>1, <2>2, <2>3, <2>7
  <2>9. Rank(b, e) <= Rank(b, d)
    BY ONLY <2>5, <2>6, <2>8 DEF Rank
  <2> QED
    BY <2>3, <2>9
<1>2. PlanInvariant /\ [Next]_vars =>
        (today' # today => \A c \in Pool :
           WeeklyRows(beleg[c].area, today') = WeeklyRows(beleg[c].area, today) =>
             Rank(beleg[c], today') <= Rank(beleg[c], today))
  BY <1>1
<1> QED
  BY <1>2, PlannerKeepsTheLine, PTL DEF Spec, WaitingKeepsUrgency

-----------------------------------------------------------------------------
(* A split: the parts that exist are the first n, and they carry the original's lines
   in their order, its quantity and its minutes. *)

PartsOf(c, n, L, M) ==
  /\ Len(L) = n /\ FlattenSeq(L) = beleg[c].lines
  /\ \A k \in 1 .. n : L[k] # <<>> /\ Total(L[k]) \in Nat \ {0}
  /\ Total([k \in 1 .. n |-> Total(L[k])]) = beleg[c].teile
  /\ Total(M) = beleg[c].minutes
  /\ \A k \in 1 .. n : /\ beleg[Parts[k]].lines = L[k]
                       /\ beleg[Parts[k]].teile = Total(L[k])
                       /\ beleg[Parts[k]].minutes = M[k]
  /\ \A k \in DOMAIN Parts : st[Parts[k]] # "absent" <=> k \in 1 .. n

GoodsAreCarried ==
  \A c \in Cases : st[c] = "split_container" =>
    \E n \in 2 .. Len(Parts) : \E L \in Seq(Seq(Nat \ {0})), M \in [1 .. n -> Int] :
      PartsOf(c, n, L, M)

LEMMA PartsAreIds ==
  /\ Len(Parts) \in Nat /\ DOMAIN Parts = 1 .. Len(Parts)
  /\ \A k \in DOMAIN Parts : Parts[k] \in PartIds /\ Parts[k] \in Ids /\ Parts[k] \notin Cases
  /\ \A j, k \in DOMAIN Parts : Parts[j] = Parts[k] => j = k
<1>1. Len(Parts) \in Nat /\ DOMAIN Parts = 1 .. Len(Parts)
  BY DayPlanAssumption, LenProperties
<1>2. \A k \in DOMAIN Parts : Parts[k] \in PartIds /\ Parts[k] \in Ids /\ Parts[k] \notin Cases
  BY DayPlanAssumption DEF PartIds, Ids
<1>3. \A j, k \in DOMAIN Parts : Parts[j] = Parts[k] => j = k
  BY DayPlanAssumption DEF IsInjective
<1> QED
  BY <1>1, <1>2, <1>3

LEMMA GoodsStayCarried ==
  ASSUME PoolTypes, Steady, GoodsAreCarried
  PROVE  GoodsAreCarried'
<1> SUFFICES ASSUME NEW c \in Cases, st'[c] = "split_container"
             PROVE  \E n \in 2 .. Len(Parts) : \E L \in Seq(Seq(Nat \ {0})), M \in [1 .. n -> Int] :
                      PartsOf(c, n, L, M)'
  BY DEF GoodsAreCarried
<1>1. st[c] = "split_container" /\ c \in Ids
  BY DEF Steady, Ids
<1>2. PICK n \in 2 .. Len(Parts) : \E L \in Seq(Seq(Nat \ {0})), M \in [1 .. n -> Int] :
              PartsOf(c, n, L, M)
  BY <1>1 DEF GoodsAreCarried
<1>3. PICK L \in Seq(Seq(Nat \ {0})), M \in [1 .. n -> Int] : PartsOf(c, n, L, M)
  BY <1>2
<1>4. \A x \in Ids : /\ beleg'[x].lines = beleg[x].lines
                     /\ beleg'[x].teile = beleg[x].teile
                     /\ beleg'[x].minutes = beleg[x].minutes
  BY DEF Steady, SameGoods
<1>5. \A p \in PartIds : st'[p] = "absent" <=> st[p] = "absent"
  BY DEF Steady, Ids
<1>6. \A k \in 1 .. n : k \in DOMAIN Parts
  BY PartsAreIds
<1>7. PartsOf(c, n, L, M)'
  <2>1. /\ Len(L) = n /\ FlattenSeq(L) = beleg[c].lines
        /\ \A k \in 1 .. n : L[k] # <<>> /\ Total(L[k]) \in Nat \ {0}
        /\ Total([k \in 1 .. n |-> Total(L[k])]) = beleg[c].teile
        /\ Total(M) = beleg[c].minutes
        /\ \A k \in 1 .. n : /\ beleg[Parts[k]].lines = L[k]
                             /\ beleg[Parts[k]].teile = Total(L[k])
                             /\ beleg[Parts[k]].minutes = M[k]
        /\ \A k \in DOMAIN Parts : st[Parts[k]] # "absent" <=> k \in 1 .. n
    BY ONLY <1>3 DEF PartsOf
  <2>2. \A k \in DOMAIN Parts : Parts[k] \in Ids /\ Parts[k] \in PartIds
    BY PartsAreIds
  <2>3. \A k \in 1 .. n : /\ beleg'[Parts[k]].lines = L[k]
                         /\ beleg'[Parts[k]].teile = Total(L[k])
                         /\ beleg'[Parts[k]].minutes = M[k]
    BY ONLY <1>4, <1>6, <2>1, <2>2
  <2>4. \A k \in DOMAIN Parts : st'[Parts[k]] # "absent" <=> k \in 1 .. n
    BY ONLY <1>5, <2>1, <2>2
  <2>5. /\ FlattenSeq(L) = beleg'[c].lines
        /\ Total([k \in 1 .. n |-> Total(L[k])]) = beleg'[c].teile
        /\ Total(M) = beleg'[c].minutes
    BY ONLY <1>1, <1>4, <2>1
  <2> QED
    BY ONLY <2>1, <2>3, <2>4, <2>5 DEF PartsOf
<1> QED
  BY <1>7

LEMMA SplitCarriesTheGoods ==
  ASSUME PoolTypes, GoodsAreCarried,
         NEW c \in Cases, NEW targets \in BoundedSeq(1 .. LargeBeleg, Len(Parts)),
         SplitCase(c, targets)
  PROVE  GoodsAreCarried'
<1>1. \A p \in PartIds : st[p] = "absent"
  BY DEF SplitCase
<1>2. PICK n \in 2 .. Len(Parts) : \E L \in Seq(Seq(Nat \ {0})), M \in [1 .. n -> Int] :
              SplitInto(c, n, L, M)
  BY SplitMakesParts
<1>3. PICK L \in Seq(Seq(Nat \ {0})), M \in [1 .. n -> Int] : SplitInto(c, n, L, M)
  BY <1>2
<1>4. /\ \A x \in Ids : (\A k \in 1 .. n : x # Parts[k]) => beleg'[x] = beleg[x]
      /\ \A x \in Ids : st'[x] = IF x = c THEN "split_container"
                           ELSE IF \E k \in 1 .. n : x = Parts[k] THEN "ready" ELSE st[x]
  BY <1>3 DEF SplitInto
<1>5. c \in Ids /\ \A k \in 1 .. n : k \in DOMAIN Parts
  BY PartsAreIds DEF Ids
<1>6. beleg'[c] = beleg[c]
  BY <1>4, <1>5, PartsAreIds
<1>7. ASSUME NEW k \in DOMAIN Parts
      PROVE  st'[Parts[k]] # "absent" <=> k \in 1 .. n
  <2>1. Parts[k] # c /\ Parts[k] \in Ids /\ st[Parts[k]] = "absent"
    BY <1>1, PartsAreIds
  <2>2. (\E j \in 1 .. n : Parts[k] = Parts[j]) <=> k \in 1 .. n
    BY <1>5, PartsAreIds
  <2>3. st'[Parts[k]] = IF \E j \in 1 .. n : Parts[k] = Parts[j] THEN "ready" ELSE "absent"
    BY <1>4, <2>1
  <2> QED
    BY ONLY <2>2, <2>3
<1>8. PartsOf(c, n, L, M)'
  <2>1. /\ Len(L) = n /\ FlattenSeq(L) = beleg'[c].lines
        /\ \A k \in 1 .. n : L[k] # <<>> /\ Total(L[k]) \in Nat \ {0}
        /\ Total([k \in 1 .. n |-> Total(L[k])]) = beleg'[c].teile
        /\ Total(M) = beleg'[c].minutes
        /\ \A k \in 1 .. n : /\ beleg'[Parts[k]].lines = L[k]
                             /\ beleg'[Parts[k]].teile = Total(L[k])
                             /\ beleg'[Parts[k]].minutes = M[k]
    BY <1>3, <1>6 DEF SplitInto
  <2> QED
    BY ONLY <1>7, <2>1 DEF PartsOf
<1>9. ASSUME NEW d \in Cases, st'[d] = "split_container", d # c
      PROVE  FALSE
  <2>1. d \in Ids /\ \A k \in 1 .. n : d # Parts[k]
    BY <1>5, PartsAreIds DEF Ids
  <2>2. st[d] = "split_container"
    BY <1>4, <1>9, <2>1
  <2>3. PICK m \in 2 .. Len(Parts) : \E K \in Seq(Seq(Nat \ {0})), N \in [1 .. m -> Int] :
                PartsOf(d, m, K, N)
    BY <2>2 DEF GoodsAreCarried
  <2>4. 1 \in DOMAIN Parts /\ 1 \in 1 .. m
    BY PartsAreIds
  <2>5. st[Parts[1]] # "absent"
    BY <2>3, <2>4 DEF PartsOf
  <2> QED
    BY <1>1, <2>4, <2>5, PartsAreIds
<1> QED
  BY <1>8, <1>9 DEF GoodsAreCarried

LEMMA PartsCounted ==
  ASSUME NEW n \in 2 .. Len(Parts), \A k \in DOMAIN Parts : st[Parts[k]] # "absent" <=> k \in 1 .. n
  PROVE  Cardinality({p \in PartIds : st[p] # "absent"}) = n
<1>1. PICK f, Q : f = [k \in 1 .. n |-> Parts[k]] /\ Q = {p \in PartIds : st[p] # "absent"}
  OBVIOUS
<1>2. n \in Nat /\ \A k \in 1 .. n : k \in DOMAIN Parts
  BY PartsAreIds
<1>3. \A k \in 1 .. n : Parts[k] \in Q
  BY <1>1, <1>2, PartsAreIds
<1>4. \A p \in Q : \E k \in 1 .. n : Parts[k] = p
  BY <1>1 DEF PartIds
<1>5. f \in Surjection(1 .. n, Q)
  BY ONLY <1>1, <1>3, <1>4 DEF Surjection
<1>6. f \in Injection(1 .. n, Q)
  <2>1. \A j, k \in 1 .. n : f[j] = f[k] => j = k
    BY <1>1, <1>2, PartsAreIds
  <2> QED
    BY ONLY <1>1, <1>3, <2>1 DEF Injection, IsInjective
<1>7. IsFiniteSet(1 .. n) /\ Cardinality(1 .. n) = n
  BY <1>2, FS_Interval
<1> QED
  BY ONLY <1>1, <1>5, <1>6, <1>7, FS_Surjection

CarriesAll(c, n, parts) ==
  /\ n >= 2
  /\ \A k \in 1 .. n : parts[k].lines # <<>> /\ parts[k].teile > 0
  /\ Total([k \in 1 .. n |-> parts[k].teile]) = beleg[c].teile
  /\ Total([k \in 1 .. n |-> parts[k].minutes]) = beleg[c].minutes
  /\ FlattenSeq([k \in 1 .. n |-> parts[k].lines]) = beleg[c].lines

(* Splitting loses nothing: size lines, quantity and minutes of the parts together
   are the original's at any later time, and no part is empty (allocateParts,
   splitCase). *)
THEOREM SplittingLosesNothing == Spec => []PartsCarryTheGoods
<1>1. Init => GoodsAreCarried
  <2> SUFFICES ASSUME Init PROVE GoodsAreCarried
    OBVIOUS
  <2>1. \A c \in Cases : st[c] = "absent"
    BY DEF Init, Ids
  <2> QED
    BY <2>1 DEF GoodsAreCarried
<1>2. PlanInvariant /\ GoodsAreCarried /\ [Next]_vars => GoodsAreCarried'
  <2> SUFFICES ASSUME PlanInvariant, GoodsAreCarried, [Next]_vars
               PROVE  GoodsAreCarried'
    OBVIOUS
  <2>1. PoolTypes /\ Numbered /\ PlanTypes
    BY DEF PlanInvariant
  <2>2. CASE Splits
    BY <2>1, <2>2, SplitCarriesTheGoods DEF Splits
  <2>3. CASE ~Splits
    BY <2>1, <2>3, StepsAreSteady, GoodsStayCarried
  <2> QED
    BY <2>2, <2>3
<1>3. GoodsAreCarried => PartsCarryTheGoods
  <2> SUFFICES ASSUME GoodsAreCarried, NEW c \in Cases, st[c] = "split_container"
               PROVE  LET n == Cardinality({p \in PartIds : st[p] # "absent"})
                      IN  CarriesAll(c, n, [k \in 1 .. n |-> beleg[Parts[k]]])
    BY DEF PartsCarryTheGoods, CarriesAll
  <2>0. PICK n, parts : /\ n = Cardinality({p \in PartIds : st[p] # "absent"})
                        /\ parts = [k \in 1 .. n |-> beleg[Parts[k]]]
    OBVIOUS
  <2>1. PICK m \in 2 .. Len(Parts) : \E L \in Seq(Seq(Nat \ {0})), M \in [1 .. m -> Int] :
                PartsOf(c, m, L, M)
    BY DEF GoodsAreCarried
  <2>2. PICK L \in Seq(Seq(Nat \ {0})), M \in [1 .. m -> Int] : PartsOf(c, m, L, M)
    BY <2>1
  <2>3. m = n
    BY <2>0, <2>2, PartsCounted DEF PartsOf
  <2>4. /\ Len(L) = n /\ FlattenSeq(L) = beleg[c].lines
        /\ \A k \in 1 .. n : L[k] # <<>> /\ Total(L[k]) \in Nat \ {0}
        /\ Total([k \in 1 .. n |-> Total(L[k])]) = beleg[c].teile
        /\ Total(M) = beleg[c].minutes
        /\ \A k \in 1 .. n : /\ parts[k].lines = L[k]
                             /\ parts[k].teile = Total(L[k])
                             /\ parts[k].minutes = M[k]
    BY <2>0, <2>2, <2>3 DEF PartsOf
  <2>5. [k \in 1 .. n |-> parts[k].teile] = [k \in 1 .. n |-> Total(L[k])]
    BY ONLY <2>4
  <2>6. [k \in 1 .. n |-> parts[k].minutes] = M
    BY ONLY <2>2, <2>3, <2>4
  <2>7. [k \in 1 .. n |-> parts[k].lines] = L
    <3>1. L = [k \in 1 .. n |-> L[k]]
      BY ONLY <2>2, <2>4, LenProperties
    <3> QED
      BY ONLY <2>4, <3>1
  <2>8. n >= 2 /\ \A k \in 1 .. n : parts[k].lines # <<>> /\ parts[k].teile > 0
    <3>1. \A k \in 1 .. n : Total(L[k]) > 0
      BY ONLY <2>4
    <3>2. \A k \in 1 .. n : parts[k].lines # <<>> /\ parts[k].teile > 0
      BY ONLY <2>4, <3>1
    <3>3. m >= 2
      BY ONLY m \in 2 .. Len(Parts)
    <3> QED
      BY ONLY <2>3, <3>2, <3>3
  <2> QED
    <3>1. CarriesAll(c, n, parts)
      BY ONLY <2>4, <2>5, <2>6, <2>7, <2>8 DEF CarriesAll
    <3>2. parts = [k \in 1 .. Cardinality({p \in PartIds : st[p] # "absent"}) |-> beleg[Parts[k]]]
      BY ONLY <2>0
    <3> QED
      BY ONLY <2>0, <3>1, <3>2
<1>4. Init /\ [][Next]_vars /\ []PlanInvariant => []GoodsAreCarried
  BY <1>1, <1>2, PTL
<1> QED
  BY <1>3, <1>4, PlannerKeepsTheLine, PTL DEF Spec

-----------------------------------------------------------------------------
(* The types of the state. *)

RestTypes ==
  /\ today \in 1 .. LastDay /\ corrections \in 0 .. MaxCorrections
  /\ begun \subseteq Workers /\ given \in Seq(Workers \cup {0})

LEMMA RestTypesAreKept ==
  ASSUME PlanInvariant, RestTypes, [Next]_vars
  PROVE  RestTypes'
<1>1. LastDay \in Nat /\ MaxCorrections \in Nat
  BY BoundAssumption
<1>2. ASSUME UNCHANGED <<today, corrections, begun, given>> PROVE RestTypes'
  BY <1>2 DEF RestTypes
<1>3. CASE TeamleadCorrects
  <2>1. corrections < MaxCorrections /\ corrections' = corrections + 1
    BY <1>3 DEF TeamleadCorrects, Prioritize, Deprioritize, MergeDeliveryGroup,
        SplitDeliveryGroup, ReleaseDeliveryGroup, HoldDeliveryCases, Correct
  <2>2. UNCHANGED <<today, begun, given>>
    BY <1>3, CorrectionsKeepTheGoods DEF PlanInvariant, planVars
  <2>3. corrections' \in 0 .. MaxCorrections
    BY ONLY <1>1, <2>1, RestTypes DEF RestTypes
  <2> QED
    BY <2>2, <2>3 DEF RestTypes
<1>4. CASE NextDay
  <2>1. today < LastDay /\ today' = today + 1 /\ UNCHANGED <<corrections, begun, given>>
    BY <1>4 DEF NextDay, planVars
  <2>2. today' \in 1 .. LastDay
    BY ONLY <1>1, <2>1, RestTypes DEF RestTypes
  <2> QED
    BY <2>1, <2>2 DEF RestTypes
<1>5. CASE CloseLast
  <2>1. given' = [i \in DOMAIN packs' |-> 0] /\ UNCHANGED <<today, corrections, begun>>
    BY <1>5 DEF CloseLast, poolVars
  <2>2. packs' \in Seq(Seq(Pool))
    BY <1>5, CloseLastKeepsTheLine DEF PlanInvariant
  <2>3. DOMAIN packs' = 1 .. Len(packs') /\ Len(packs') \in Nat
    BY ONLY <2>2, LenProperties
  <2>4. given' \in Seq(Workers \cup {0})
    <3>1. PICK n, g : n = Len(packs') /\ g = given'
      OBVIOUS
    <3>2. n \in Nat /\ g = [i \in 1 .. n |-> 0]
      BY ONLY <2>1, <2>3, <3>1
    <3>3. g \in [1 .. n -> Workers \cup {0}]
      BY ONLY <3>2
    <3>4. g \in Seq(Workers \cup {0})
      BY ONLY <3>2, <3>3, SeqDef
    <3> QED
      BY ONLY <3>1, <3>4
  <2> QED
    BY <2>1, <2>4 DEF RestTypes
<1>6. CASE Deal
  <2>1. PICK i, K, v : /\ i = NextPack /\ K = Candidates(i)
                       /\ v = CHOOSE e \in K : \A f \in K \ {e} : Better(e, f, i)
    OBVIOUS
  <2>2. /\ undealt # {} /\ phase = "deal" /\ UNCHANGED <<today, corrections, begun>>
        /\ given' = [given EXCEPT ![i] = IF K = {} THEN 0 ELSE v]
    BY <1>6, <2>1 DEF Deal, poolVars
  <2>3. undealt \subseteq DOMAIN packs /\ DOMAIN given = DOMAIN packs
    BY <2>2 DEF PlanInvariant, PlanTypes
  <2>4. i \in DOMAIN packs
    BY <2>1, <2>2, <2>3, ThereIsANextPack DEF PlanInvariant
  <2>5. (IF K = {} THEN 0 ELSE v) \in Workers \cup {0}
    <3>1. K # {} => v \in K
      BY <2>1, <2>4, TheBestIsACandidate DEF PlanInvariant
    <3>2. K \subseteq Workers
      BY <2>1 DEF Candidates
    <3> QED
      BY ONLY <3>1, <3>2
  <2>6. given' \in Seq(Workers \cup {0})
    <3>1. given \in Seq(Workers \cup {0})
      BY DEF RestTypes
    <3>2. PICK n, g, h : n = Len(given) /\ g = given /\ h = given'
      OBVIOUS
    <3>3. n \in Nat /\ g \in [1 .. n -> Workers \cup {0}]
      BY ONLY <3>1, <3>2, LenProperties
    <3>4. h = [g EXCEPT ![i] = IF K = {} THEN 0 ELSE v]
      BY ONLY <2>2, <3>2
    <3>5. h \in [1 .. n -> Workers \cup {0}]
      BY ONLY <2>5, <3>3, <3>4
    <3> QED
      BY ONLY <3>2, <3>3, <3>5, SeqDef
  <2> QED
    BY <2>2, <2>6 DEF RestTypes
<1>7. CASE Persist
  <2>1. given' = <<>> /\ UNCHANGED <<today, corrections, begun>>
    BY <1>7 DEF Persist
  <2> QED
    BY <2>1, EmptyPlan DEF RestTypes
<1>8. CASE \E e \in Workers : Begin(e) \/ Finish(e)
  <2>1. begun' \subseteq Workers /\ UNCHANGED <<today, corrections, given>>
    BY <1>8 DEF Begin, Finish, RestTypes, planVars
  <2> QED
    BY <2>1 DEF RestTypes
<1>9. CASE \/ \E c \in Cases : Book(c)
           \/ Splits
           \/ \E capacity \in Shifts : StartPlan(capacity)
           \/ Overflow \/ Pack
           \/ \E e \in Workers, budget \in Budgets : Pull(e, budget)
           \/ UNCHANGED vars
  <2>1. UNCHANGED <<today, corrections, begun, given>>
    BY <1>9 DEF Book, Splits, SplitCase, StartPlan, Overflow, Pack, Pull, vars, poolVars, planVars
  <2> QED
    BY <1>2, <2>1
<1> QED
  BY <1>3, <1>4, <1>5, <1>6, <1>7, <1>8, <1>9 DEF Next, TeamleadCorrects, Splits

(* Every variable keeps its type; in particular every pack, cart and place of the
   line holds rows that exist. *)
THEOREM PlanTypesAreRight == Spec => []TypeOK
<1>1. Init => RestTypes
  <2> SUFFICES ASSUME Init PROVE RestTypes
    OBVIOUS
  <2>1. 1 \in 1 .. LastDay /\ 0 \in 0 .. MaxCorrections
    BY BoundAssumption
  <2> QED
    BY <2>1, EmptyPlan DEF Init, NoPlan, RestTypes
<1>2. PlanInvariant /\ RestTypes => TypeOK
  <2> SUFFICES ASSUME PlanInvariant, RestTypes PROVE TypeOK
    OBVIOUS
  <2>1. Pool \subseteq Ids /\ Present \subseteq Ids
    BY DEF Pool, Present
  <2>2. /\ todo \in Seq(Ids) /\ current \in Seq(Ids)
    BY <2>1, SeqMonotonic DEF PlanInvariant, PlanTypes
  <2>3. packs \in Seq(Seq(Ids))
    <3>1. Seq(Pool) \subseteq Seq(Ids)
      BY <2>1, SeqMonotonic
    <3> QED
      BY <3>1, SeqMonotonic DEF PlanInvariant, PlanTypes
  <2>4. cart \in [Workers -> Seq(Ids)]
    BY <2>1, CartsStayFilled DEF PlanInvariant, PoolTypes
  <2>5. undealt \subseteq DOMAIN packs
    BY DEF PlanInvariant, PlanTypes
  <2>6. /\ st \in [Ids -> {"absent", "ready", "assigned", "completed", "split_container"}]
        /\ phase \in {"idle", "pack", "deal"}
        /\ reason \in [Ids -> {"none", "delivery_unconfirmed", "large_beleg", "no_capacity",
                               "pool_remaining"}]
    BY DEF PlanInvariant, PoolTypes, PlanTypes, Statuses, Reasons
  <2> QED
    BY <2>2, <2>3, <2>4, <2>5, <2>6 DEF TypeOK, RestTypes
<1>3. Init /\ [][Next]_vars /\ []PlanInvariant => []RestTypes
  BY <1>1, RestTypesAreKept, PTL
<1> QED
  BY <1>2, <1>3, PlannerKeepsTheLine, PTL DEF Spec
=============================================================================
