----------------------------- MODULE Sums_proofs ----------------------------
(* What sums over finite sets do, for every set and every quantities.  SumOver is a
   recursive function over the subsets of a set.  The induction is spelled out: of
   the subsets that break a claim a minimal one is taken (strict inclusion of
   finite sets is well-founded), and its smaller neighbours refute it. *)
EXTENDS Sums, FiniteSets, FiniteSetTheorems, WellFoundedInduction, TLAPS

Pick(s) == CHOOSE x \in s : TRUE
(* it is the table of the sums over the subsets of S. *)
Table(it, f, S) ==
  it = [s \in SUBSET S |-> IF s = {} THEN 0 ELSE f[Pick(s)] + it[s \ {Pick(s)}]]

LEMMA SumIsInATable ==
  ASSUME NEW f, NEW S
  PROVE  SumOver(f, S) = (CHOOSE it : Table(it, f, S))[S]
  BY DEF SumOver, FoldFunctionOnSet, MapThenFoldSet, Table, Pick

LEMMA MinimalSubset ==
  ASSUME NEW S, IsFiniteSet(S), NEW F \in SUBSET SUBSET S, F # {}
  PROVE  \E T \in F : \A U \in F : U \subseteq T => U = T
<1>1. F \subseteq FiniteSubsetsOf(S)
  BY FS_FiniteSubsetsOfFinite
<1>2. PICK T \in F : \A U \in F : ~(<<U, T>> \in StrictSubsetOrdering(S))
  BY <1>1, FS_StrictSubsetOrderingWellFounded, WFMin
<1> QED
  BY <1>2 DEF StrictSubsetOrdering

LEMMA TablesAgree ==
  ASSUME NEW f, NEW S, NEW T, IsFiniteSet(S), T \subseteq S,
         NEW g, Table(g, f, S), NEW h, Table(h, f, T)
  PROVE  \A s \in SUBSET T : h[s] = g[s]
<1> DEFINE F == {s \in SUBSET T : h[s] # g[s]}
<1> SUFFICES ASSUME F # {} PROVE FALSE
  OBVIOUS
<1>1. IsFiniteSet(T)
  BY FS_Subset
<1>a. F \in SUBSET SUBSET T
  OBVIOUS
<1>2. PICK s \in F : \A u \in F : u \subseteq s => u = s
  <2> HIDE DEF F
  <2> QED
    BY <1>1, <1>a, MinimalSubset
<1>3. s \in SUBSET T /\ s \in SUBSET S
  OBVIOUS
<1>4. CASE s = {}
  BY <1>3, <1>4 DEF Table
<1>5. CASE s # {}
  <2>1. Pick(s) \in s
    BY <1>5 DEF Pick
  <2>2. h[s \ {Pick(s)}] = g[s \ {Pick(s)}]
    BY <1>2, <1>3, <2>1
  <2>3. h[s] = f[Pick(s)] + h[s \ {Pick(s)}] /\ g[s] = f[Pick(s)] + g[s \ {Pick(s)}]
    BY <1>3, <1>5 DEF Table
  <2> QED
    BY <2>2, <2>3
<1> QED
  BY <1>4, <1>5

LEMMA TableExists ==
  ASSUME NEW f, NEW S, IsFiniteSet(S)
  PROVE  \E it : Table(it, f, S)
<1> DEFINE F == {T \in SUBSET S : ~ \E it : Table(it, f, T)}
           The(T) == CHOOSE it : Table(it, f, T)
<1> SUFFICES ASSUME F # {} PROVE FALSE
  OBVIOUS
<1>a. F \in SUBSET SUBSET S
  OBVIOUS
<1>1. PICK T \in F : \A U \in F : U \subseteq T => U = T
  <2> HIDE DEF F
  <2> QED
    BY <1>a, MinimalSubset
<1>2. \A U \in SUBSET T : U # T => IsFiniteSet(U) /\ Table(The(U), f, U)
  BY <1>1, FS_Subset
<1> HIDE DEF The
<1> DEFINE it == [s \in SUBSET T |-> IF s = {} THEN 0
                                     ELSE f[Pick(s)] + The(s \ {Pick(s)})[s \ {Pick(s)}]]
<1>3. \A s \in SUBSET T : s # T => it[s] = The(s)[s]
  <2> SUFFICES ASSUME NEW s \in SUBSET T, s # T PROVE it[s] = The(s)[s]
    OBVIOUS
  <2>1. Table(The(s), f, s) /\ IsFiniteSet(s)
    BY <1>2
  <2>2. CASE s = {}
    BY <2>1, <2>2 DEF Table
  <2>3. CASE s # {}
    <3> DEFINE x == Pick(s)
    <3>1. x \in s
      BY <2>3 DEF Pick
    <3>2. Table(The(s \ {x}), f, s \ {x})
      BY <1>2, <3>1
    <3>3. The(s \ {x})[s \ {x}] = The(s)[s \ {x}]
      BY <2>1, <3>2, TablesAgree
    <3>4. The(s)[s] = f[x] + The(s)[s \ {x}]
      BY <2>1, <2>3 DEF Table
    <3> QED
      BY <3>3, <3>4, <2>3
  <2> QED
    BY <2>2, <2>3
<1>4. Table(it, f, T)
  <2> SUFFICES ASSUME NEW s \in SUBSET T, s # {}
               PROVE  it[s] = f[Pick(s)] + it[s \ {Pick(s)}]
    BY DEF Table
  <2>1. Pick(s) \in s
    BY DEF Pick
  <2>2. it[s \ {Pick(s)}] = The(s \ {Pick(s)})[s \ {Pick(s)}]
    BY <1>3, <2>1
  <2> QED
    BY <2>2
<1> QED
  BY <1>1, <1>4

LEMMA SumUnfolds ==
  ASSUME NEW f, NEW S, IsFiniteSet(S)
  PROVE  /\ SumOver(f, {}) = 0
         /\ S # {} => SumOver(f, S) = f[Pick(S)] + SumOver(f, S \ {Pick(S)})
<1> DEFINE The(T) == CHOOSE it : Table(it, f, T)
<1>1. \A T : IsFiniteSet(T) => Table(The(T), f, T)
  BY TableExists
<1>2. \A T : SumOver(f, T) = The(T)[T]
  BY SumIsInATable
<1> HIDE DEF The
<1>3. SumOver(f, {}) = 0
  BY <1>1, <1>2, FS_EmptySet DEF Table
<1>4. ASSUME S # {} PROVE SumOver(f, S) = f[Pick(S)] + SumOver(f, S \ {Pick(S)})
  <2> DEFINE R == S \ {Pick(S)}
  <2>1. Table(The(S), f, S) /\ Table(The(R), f, R)
    BY <1>1, FS_RemoveElement
  <2>2. The(R)[R] = The(S)[R]
    BY <2>1, TablesAgree
  <2>3. The(S)[S] = f[Pick(S)] + The(S)[R]
    BY <2>1, <1>4 DEF Table
  <2> QED
    BY <1>2, <2>2, <2>3
<1> QED
  BY <1>3, <1>4

LEMMA SumType ==
  ASSUME NEW f, NEW S, IsFiniteSet(S), \A x \in S : f[x] \in Nat
  PROVE  SumOver(f, S) \in Nat
<1> DEFINE F == {T \in SUBSET S : SumOver(f, T) \notin Nat}
<1> SUFFICES ASSUME F # {} PROVE FALSE
  OBVIOUS
<1>1. F \in SUBSET SUBSET S
  OBVIOUS
<1>2. PICK T \in F : \A U \in F : U \subseteq T => U = T
  <2> HIDE DEF F
  <2> QED
    BY <1>1, MinimalSubset
<1>3. T # {} /\ IsFiniteSet(T)
  <2>1. SumOver(f, {}) = 0
    BY SumUnfolds
  <2>2. T \in SUBSET S /\ SumOver(f, T) \notin Nat
    OBVIOUS
  <2>3. T # {}
    BY <2>1, <2>2
  <2> QED
    BY <2>2, <2>3, FS_Subset
<1>4. Pick(T) \in T
  BY <1>3 DEF Pick
<1>5. SumOver(f, T \ {Pick(T)}) \in Nat /\ f[Pick(T)] \in Nat
  BY <1>2, <1>4
<1> QED
  BY <1>3, <1>5, SumUnfolds

LEMMA SumIsAnInteger ==
  ASSUME NEW f, NEW S, IsFiniteSet(S), \A x \in S : f[x] \in Int
  PROVE  SumOver(f, S) \in Int
<1> DEFINE F == {T \in SUBSET S : SumOver(f, T) \notin Int}
<1> SUFFICES ASSUME F # {} PROVE FALSE
  OBVIOUS
<1>1. F \in SUBSET SUBSET S
  OBVIOUS
<1>2. PICK T \in F : \A U \in F : U \subseteq T => U = T
  <2> HIDE DEF F
  <2> QED
    BY <1>1, MinimalSubset
<1>3. T # {} /\ IsFiniteSet(T)
  <2>1. SumOver(f, {}) = 0
    BY SumUnfolds
  <2>2. T \in SUBSET S /\ SumOver(f, T) \notin Int
    OBVIOUS
  <2>3. T # {}
    BY <2>1, <2>2
  <2> QED
    BY <2>2, <2>3, FS_Subset
<1>4. Pick(T) \in T
  BY <1>3 DEF Pick
<1>5. SumOver(f, T \ {Pick(T)}) \in Int /\ f[Pick(T)] \in Int
  BY <1>2, <1>4
<1> QED
  BY <1>3, <1>5, SumUnfolds

(* The order does not matter. *)
LEMMA SumTakesOut ==
  ASSUME NEW f, NEW S, IsFiniteSet(S), \A x \in S : f[x] \in Int, NEW a \in S
  PROVE  SumOver(f, S) = f[a] + SumOver(f, S \ {a})
<1> DEFINE F == {T \in SUBSET S : \E x \in T : SumOver(f, T) # f[x] + SumOver(f, T \ {x})}
<1> SUFFICES ASSUME F # {} PROVE FALSE
  OBVIOUS
<1>1. F \in SUBSET SUBSET S
  OBVIOUS
<1>2. PICK T \in F : \A U \in F : U \subseteq T => U = T
  <2> HIDE DEF F
  <2> QED
    BY <1>1, MinimalSubset
<1>3. PICK x \in T : SumOver(f, T) # f[x] + SumOver(f, T \ {x})
  OBVIOUS
<1> DEFINE y == Pick(T)
<1>4. IsFiniteSet(T) /\ T # {} /\ y \in T /\ T \subseteq S
  BY <1>3, FS_Subset DEF Pick
<1> HIDE DEF y
<1>5. SumOver(f, T) = f[y] + SumOver(f, T \ {y})
  BY <1>4, SumUnfolds DEF y
<1>6. x # y
  BY <1>3, <1>5
<1>7. SumOver(f, T \ {y}) = f[x] + SumOver(f, (T \ {y}) \ {x})
  <2>1. T \ {y} \notin F
    BY <1>2, <1>4
  <2> QED
    BY <2>1, <1>4, <1>6
<1>8. SumOver(f, T \ {x}) = f[y] + SumOver(f, (T \ {x}) \ {y})
  <2>1. T \ {x} \notin F
    BY <1>2, <1>4
  <2> QED
    BY <2>1, <1>4, <1>6
<1>9. (T \ {y}) \ {x} = (T \ {x}) \ {y}
  OBVIOUS
<1>10. IsFiniteSet((T \ {x}) \ {y}) /\ (T \ {x}) \ {y} \subseteq S
  BY <1>4, FS_RemoveElement
<1>11. SumOver(f, (T \ {x}) \ {y}) \in Int /\ f[x] \in Int /\ f[y] \in Int
  BY <1>4, <1>10, SumIsAnInteger
<1>12. SumOver(f, T) = f[y] + (f[x] + SumOver(f, (T \ {x}) \ {y}))
  BY <1>5, <1>7, <1>9
<1>13. f[x] + SumOver(f, T \ {x}) = f[x] + (f[y] + SumOver(f, (T \ {x}) \ {y}))
  BY <1>8
<1> HIDE DEF F
<1> QED
  BY <1>3, <1>11, <1>12, <1>13

LEMMA SumAdds ==
  ASSUME NEW f, NEW S, IsFiniteSet(S), NEW a, a \notin S, \A x \in S \cup {a} : f[x] \in Int
  PROVE  SumOver(f, S \cup {a}) = f[a] + SumOver(f, S)
<1>1. PICK T : T = S \cup {a}
  OBVIOUS
<1>2. T \ {a} = S /\ a \in T /\ IsFiniteSet(T) /\ \A x \in T : f[x] \in Int
  BY <1>1, FS_AddElement
<1> QED
  BY <1>1, <1>2, SumTakesOut

LEMMA SumOfEqual ==
  ASSUME NEW f, NEW g, NEW S, IsFiniteSet(S), \A x \in S : f[x] = g[x]
  PROVE  SumOver(f, S) = SumOver(g, S)
<1> DEFINE F == {T \in SUBSET S : SumOver(f, T) # SumOver(g, T)}
<1> SUFFICES ASSUME F # {} PROVE FALSE
  OBVIOUS
<1>1. F \in SUBSET SUBSET S
  OBVIOUS
<1>2. PICK T \in F : \A U \in F : U \subseteq T => U = T
  <2> HIDE DEF F
  <2> QED
    BY <1>1, MinimalSubset
<1>3. T # {} /\ IsFiniteSet(T)
  BY SumUnfolds, FS_Subset
<1>4. Pick(T) \in T
  BY <1>3 DEF Pick
<1>5. SumOver(f, T \ {Pick(T)}) = SumOver(g, T \ {Pick(T)}) /\ f[Pick(T)] = g[Pick(T)]
  BY <1>2, <1>4
<1> QED
  BY <1>3, <1>5, SumUnfolds

LEMMA SumOfPart ==
  ASSUME NEW f, NEW S, IsFiniteSet(S), \A x \in S : f[x] \in Nat, NEW T \in SUBSET S
  PROVE  SumOver(f, T) <= SumOver(f, S)
<1> DEFINE F == {U \in SUBSET S : T \subseteq U /\ ~(SumOver(f, T) <= SumOver(f, U))}
<1> SUFFICES ASSUME F # {} PROVE FALSE
  OBVIOUS
<1>1. F \in SUBSET SUBSET S
  OBVIOUS
<1>2. PICK V \in F : \A U \in F : U \subseteq V => U = V
  <2> HIDE DEF F
  <2> QED
    BY <1>1, MinimalSubset
<1>3. IsFiniteSet(V) /\ IsFiniteSet(T) /\ SumOver(f, V) \in Nat /\ SumOver(f, T) \in Nat
  BY SumType, FS_Subset
<1>4. PICK a \in V : a \notin T
  BY <1>3
<1>5. SumOver(f, V) = f[a] + SumOver(f, V \ {a})
  BY <1>3, SumTakesOut
<1>6. SumOver(f, T) <= SumOver(f, V \ {a})
  BY <1>2, <1>4
<1>7. SumOver(f, V \ {a}) \in Nat /\ f[a] \in Nat
  BY <1>3, SumType, FS_RemoveElement
<1> QED
  BY <1>3, <1>5, <1>6, <1>7
(* A sum of n quantities of at most c each. *)
LEMMA SumIsBounded ==
  ASSUME NEW f, NEW S, IsFiniteSet(S), NEW c \in Nat, \A x \in S : f[x] \in 0 .. c
  PROVE  SumOver(f, S) <= c * Cardinality(S)
<1> DEFINE F == {T \in SUBSET S : ~(SumOver(f, T) <= c * Cardinality(T))}
<1> SUFFICES ASSUME F # {} PROVE FALSE
  OBVIOUS
<1>1. F \in SUBSET SUBSET S
  OBVIOUS
<1>2. PICK T \in F : \A U \in F : U \subseteq T => U = T
  <2> HIDE DEF F
  <2> QED
    BY <1>1, MinimalSubset
<1>3. T \in SUBSET S /\ IsFiniteSet(T) /\ ~(SumOver(f, T) <= c * Cardinality(T))
  BY FS_Subset
<1>4. CASE T = {}
  <2>1. SumOver(f, T) = 0 /\ Cardinality(T) = 0
    BY <1>3, <1>4, SumUnfolds, FS_EmptySet
  <2> QED
    BY <1>3, <2>1
<1>5. CASE T # {}
  <2>1. PICK a \in T : TRUE
    BY <1>5
  <2> DEFINE U == T \ {a}
  <2>2. SumOver(f, T) = f[a] + SumOver(f, U)
    BY <1>3, SumTakesOut
  <2>3. U \in SUBSET S /\ U # T
    OBVIOUS
  <2>4. SumOver(f, U) <= c * Cardinality(U)
    BY <1>2, <2>3
  <2>5. Cardinality(T) \in Nat /\ Cardinality(U) = Cardinality(T) - 1 /\ IsFiniteSet(U)
    BY <1>3, FS_RemoveElement, FS_CardinalityType
  <2>6. SumOver(f, U) \in Nat
    <3> HIDE DEF U
    <3> QED
      BY <2>3, <2>5, SumType
  <2>7. f[a] \in 0 .. c
    BY <1>3
  <2>8. c * (Cardinality(T) - 1) = c * Cardinality(T) - c
    BY <2>5
  <2>9. c * Cardinality(T) \in Nat
    BY <2>5
  <2> HIDE DEF U
  <2> QED
    BY <1>3, <2>2, <2>4, <2>5, <2>6, <2>7, <2>8, <2>9
<1> QED
  BY <1>4, <1>5

(* A finite set of numbers has a greatest one. *)
LEMMA GreatestNumber ==
  ASSUME NEW S, IsFiniteSet(S), S \subseteq Int, S # {}
  PROVE  \E m \in S : \A n \in S : m >= n
<1> DEFINE F == {T \in SUBSET S : T # {} /\ ~ \E m \in T : \A n \in T : m >= n}
<1> SUFFICES ASSUME F # {} PROVE FALSE
  OBVIOUS
<1>1. IsFiniteSet(S) /\ F \in SUBSET SUBSET S /\ F # {}
  OBVIOUS
<1>2. \E T \in F : \A U \in F : U \subseteq T => U = T
  <2> HIDE DEF F
  <2> QED
    BY ONLY <1>1, MinimalSubset
<1> PICK T \in F : \A U \in F : U \subseteq T => U = T
  BY <1>2
<1>3. PICK a \in T : TRUE
  OBVIOUS
<1>4. T \ {a} \notin F
  BY <1>3
<1>5. CASE T = {a}
  BY <1>5
<1>6. CASE T # {a}
  <2>1. PICK m \in T \ {a} : \A n \in T \ {a} : m >= n
    BY <1>3, <1>4, <1>6
  <2>2. \A n \in T : m >= n \/ n = a
    BY <2>1
  <2>3. T \in SUBSET Int /\ m \in Int /\ a \in Int
    BY <2>1
  <2>4. m >= a \/ a >= m
    BY <2>3
  <2>5. \E x \in T : \A n \in T : x >= n
    BY <1>3, <2>1, <2>2, <2>3, <2>4
  <2> QED
    BY <2>5
<1> QED
  BY <1>5, <1>6
(* Every set of natural numbers that is not empty has a least one. *)
LEMMA LeastNumber ==
  ASSUME NEW S, S \subseteq Nat, S # {}
  PROVE  \E m \in S : \A n \in S : m <= n
<1>1. PICK m \in S : \A n \in S : ~(<<n, m>> \in OpToRel(<, Nat))
  BY NatLessThanWellFounded, WFMin
<1>2. \A n \in S : ~(n < m)
  BY <1>1 DEF OpToRel
<1> QED
  BY <1>2

(* A relation that orders a finite set puts one element first. *)
LEMMA FirstOne ==
  ASSUME NEW S, IsFiniteSet(S), S # {}, NEW R,
         \A x, y \in S : x # y => <<x, y>> \in R \/ <<y, x>> \in R,
         \A x, y, z \in S : <<x, y>> \in R /\ <<y, z>> \in R => <<x, z>> \in R
  PROVE  \E x \in S : \A y \in S \ {x} : <<x, y>> \in R
<1> DEFINE Has(T) == \E x \in T : \A y \in T \ {x} : <<x, y>> \in R
           F == {T \in SUBSET S : T # {} /\ ~Has(T)}
<1> SUFFICES ASSUME F # {} PROVE FALSE
  OBVIOUS
<1>1. F \in SUBSET SUBSET S
  OBVIOUS
<1>2. PICK T \in F : \A U \in F : U \subseteq T => U = T
  <2> HIDE DEF F
  <2> QED
    BY <1>1, MinimalSubset
<1>3. PICK a \in T : TRUE
  OBVIOUS
<1>4. T \ {a} \notin F /\ T \ {a} \in SUBSET S
  <2>1. T \ {a} \subseteq T /\ T \ {a} # T
    BY <1>3
  <2>2. T \in SUBSET S
    OBVIOUS
  <2> HIDE DEF F
  <2> QED
    BY <1>2, <2>1, <2>2
<1>5. T # {a}
  OBVIOUS
<1>6. PICK x \in T \ {a} : \A y \in (T \ {a}) \ {x} : <<x, y>> \in R
  BY <1>3, <1>4, <1>5
<1>7. CASE <<x, a>> \in R
  BY <1>6, <1>7
<1>8. CASE <<a, x>> \in R
  <2>1. \A y \in T \ {a} : <<a, y>> \in R
    BY <1>3, <1>6, <1>8
  <2> QED
    BY <1>3, <2>1
<1> QED
  BY <1>6, <1>7, <1>8
=============================================================================
