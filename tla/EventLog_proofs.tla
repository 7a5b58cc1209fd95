--------------------------- MODULE EventLog_proofs --------------------------
(***************************************************************************)
(* The chain of the event log is linear, its keys are unique and it only   *)
(* grows at its end, for every number of overlapping transactions.  The    *)
(* argument: whoever holds the lock sees every row there is, because the   *)
(* rows nobody has committed yet are all his.                              *)
(***************************************************************************)
EXTENDS EventLog, TLAPS

USE NoTxAssumption, NoKeyAssumption, SentAssumption, MaxSeqAssumption

(* A set of rows that links up: each row names the hash of the one below it,
   no number and no key is used twice. *)
Chain(S) ==
  /\ \A r \in S : r.prev = LastHash(Before(S, r))
  /\ \A q, r \in S : q.seq = r.seq => q = r
  /\ \A q, r \in S : q.key = r.key /\ q.key # NoKey => q = r

Below(S, n) == \A r \in S : r.seq \in Int /\ r.seq < n

(* Rows in flight belong to the holder of the lock and lie behind the log. *)
Serialised ==
  /\ \A t \in Txs : pc[t] \in {"locked", "linking"} => lock = t
  /\ \A t \in Txs : pending[t] # {} => lock = t
  /\ \A t \in Txs : \A q \in rows, r \in pending[t] : q.seq < r.seq
  /\ \A t \in Txs : pc[t] = "linking" => prev[t] = LastHash(Visible(t))

Numbered ==
  /\ Below(rows, nextSeq)
  /\ \A t \in Txs : Below(pending[t], nextSeq)

IInv ==
  /\ TypeOK
  /\ Numbered
  /\ Chain(rows)
  /\ \A t \in Txs : Chain(Visible(t))
  /\ Serialised

-----------------------------------------------------------------------------
LEMMA ExtendChain ==
  ASSUME NEW S, NEW new, NEW n \in Int,
         Chain(S), Below(S, n),
         new.seq = n, new.prev = LastHash(S), ~HasKey(S, new.key)
  PROVE  Chain(S \cup {new})
  <1> DEFINE T == S \cup {new}
  <1>1. Before(T, new) = S
    BY DEF Before, Below
  <1>2. \A r \in S : Before(T, r) = Before(S, r)
    BY DEF Before, Below
  <1>3. \A r \in T : r.prev = LastHash(Before(T, r))
    BY <1>1, <1>2 DEF Chain
  <1>4. \A q, r \in T : q.seq = r.seq => q = r
    BY DEF Chain, Below
  <1>5. \A q, r \in T : q.key = r.key /\ q.key # NoKey => q = r
    BY DEF Chain, HasKey
  <1> QED
    BY <1>3, <1>4, <1>5 DEF Chain

LEMMA InitIInv == Init => IInv
  <1> SUFFICES ASSUME Init PROVE IInv
    OBVIOUS
  <1>1. TypeOK
    BY DEF Init, TypeOK, NoAsk
  <1>2. Numbered
    BY DEF Init, Numbered, Below
  <1>3. Chain(rows) /\ \A t \in Txs : Chain(Visible(t))
    BY DEF Init, Chain, Visible
  <1>4. Serialised
    BY DEF Init, Serialised
  <1> QED
    BY <1>1, <1>2, <1>3, <1>4 DEF IInv

(* The steps of one transaction that leave the rows alone. *)
LEMMA RowsUntouched ==
  ASSUME IInv, UNCHANGED <<rows, nextSeq>>, \A t \in Txs : pending'[t] = pending[t],
         TypeOK', Serialised'
  PROVE  IInv'
  BY DEF IInv, Numbered, Visible, Chain, Below, Before

(* The steps that end a transaction without its rows. *)
LEMMA Abandoned ==
  ASSUME IInv, NEW t \in Txs,
         UNCHANGED rows, nextSeq' \in nextSeq..(MaxSeq + 1),
         pending' = [pending EXCEPT ![t] = {}],
         pc' = [pc EXCEPT ![t] = "idle"],
         lock' = Release(t), Forget(t)
  PROVE  IInv'
  <1>1. TypeOK'
    BY DEF IInv, TypeOK, IsRow, Forget, NoAsk, Release
  <1>2. Numbered'
    BY DEF IInv, TypeOK, Numbered, Below
  <1>3. \A u \in Txs : Visible(u)' = IF u = t THEN rows ELSE Visible(u)
    BY DEF Visible, IInv, TypeOK
  <1>4. Chain(rows)' /\ \A u \in Txs : Chain(Visible(u))'
    BY <1>3 DEF IInv, Chain, Before
  <1>5. Serialised'
    <2>1. \A u \in Txs : pc'[u] \in {"locked", "linking"} \/ pending'[u] # {} => lock' = u
      BY DEF IInv, TypeOK, Serialised, Release
    <2>2. \A u \in Txs : \A q \in rows', r \in pending'[u] : q.seq < r.seq
      BY DEF IInv, TypeOK, Serialised
    <2>3. \A u \in Txs : pc'[u] = "linking" => u # t /\ prev'[u] = prev[u] /\ pc[u] = "linking"
      BY DEF IInv, TypeOK, Forget
    <2>4. \A u \in Txs : pc'[u] = "linking" => prev'[u] = LastHash(Visible(u)')
      BY <2>3, <1>3 DEF IInv, Serialised
    <2> QED
      BY <2>1, <2>2, <2>4 DEF Serialised
  <1> QED
    BY <1>1, <1>2, <1>4, <1>5 DEF IInv

LEMMA StepIInv == IInv /\ [Next]_vars => IInv'
  <1> SUFFICES ASSUME IInv, [Next]_vars PROVE IInv'
    OBVIOUS
  <1>t. TypeOK /\ Serialised
    BY DEF IInv
  <1>1. CASE UNCHANGED vars
    BY <1>1 DEF vars, IInv, TypeOK, Numbered, Serialised, Visible, Chain, Below, Before, IsRow
  <1>2. ASSUME NEW t \in Txs, NEW field \in Sent, NEW k \in Keys \cup {NoKey}, Append(t, field, k)
        PROVE IInv'
    <2>1. TypeOK'
      BY <1>2, <1>t DEF Append, TypeOK, IsRow
    <2>2. Serialised'
      BY <1>2, <1>t DEF Append, TypeOK, Serialised, Visible
    <2> QED
      BY <1>2, <2>1, <2>2, RowsUntouched DEF Append
  <1>3. ASSUME NEW t \in Txs, NEW k \in Keys, SkipKnown(t, k)
        PROVE IInv'
    <2>1. TypeOK'
      BY <1>3, <1>t DEF SkipKnown, TypeOK, IsRow
    <2>2. Serialised'
      BY <1>3, <1>t DEF SkipKnown, TypeOK, Serialised, Visible
    <2> QED
      BY <1>3, <2>1, <2>2, RowsUntouched DEF SkipKnown
  <1>4. ASSUME NEW t \in Txs, AcquireLock(t)
        PROVE IInv'
    <2>1. TypeOK'
      BY <1>4, <1>t DEF AcquireLock, TypeOK, IsRow
    <2>2. Serialised'
      BY <1>4, <1>t DEF AcquireLock, TypeOK, Serialised, Visible
    <2> QED
      BY <1>4, <2>1, <2>2, RowsUntouched DEF AcquireLock
  <1>5. ASSUME NEW t \in Txs, ReadLast(t)
        PROVE IInv'
    <2>1. TypeOK'
      BY <1>5, <1>t DEF ReadLast, TypeOK, IsRow
    <2>2. Serialised'
      BY <1>5, <1>t DEF ReadLast, TypeOK, Serialised, Visible
    <2> QED
      BY <1>5, <2>1, <2>2, RowsUntouched DEF ReadLast
  <1>6. ASSUME NEW t \in Txs, Insert(t)
        PROVE IInv'
    <2> DEFINE new == NewRow(t)
    <2>1. lock = t /\ prev[t] = LastHash(Visible(t))
      BY <1>6, <1>t DEF Insert, Serialised
    <2>2. \A u \in Txs : u # t => pending[u] = {}
      BY <2>1, <1>t DEF Serialised
    <2>3. /\ new.seq = nextSeq /\ new.prev = prev[t]
          /\ new.key = ask[t].key /\ new.payload = Stored(ask[t].payload)
      BY DEF NewRow
    <2>4. nextSeq \in Int /\ nextSeq \in 1..MaxSeq
      BY <1>6, <1>t DEF Insert, TypeOK
    <2>5. pending' = [u \in Txs |-> IF u = t THEN pending[t] \cup {new} ELSE pending[u]]
      BY <1>6, <1>t DEF Insert, TypeOK
    <2>6. IsRow(new)
      BY <2>3, <2>4, <1>t DEF IsRow, TypeOK, Stored
    <2>7. TypeOK'
      <3>1. nextSeq' \in 1..(MaxSeq + 1)
        BY <1>6, <2>4 DEF Insert
      <3>2. \A u \in Txs : \A r \in pending'[u] : IsRow(r)'
        BY <2>5, <2>6, <1>t DEF TypeOK, IsRow
      <3>3. ask' \in [Txs -> [payload : {"missing", "undefined", "null", "text"},
                              key : Keys \cup {NoKey}]]
        BY <1>6, <1>t DEF Insert, Forget, NoAsk, TypeOK
      <3>4. \A r \in rows' : IsRow(r)'
        BY <1>6, <1>t DEF Insert, TypeOK, IsRow
      <3> QED
        BY <1>6, <1>t, <2>5, <3>1, <3>2, <3>3, <3>4 DEF Insert, Forget, TypeOK
    <2>8. Numbered'
      BY <1>6, <2>3, <2>4, <2>5 DEF IInv, Numbered, Below, Insert
    <2>9. Visible(t)' = Visible(t) \cup {new} /\ \A u \in Txs : u # t => Visible(u)' = Visible(u)
      BY <1>6, <2>5 DEF Visible, Insert
    <2>10. Below(Visible(t), nextSeq)
      BY DEF IInv, Numbered, Below, Visible
    <2>11. Chain(Visible(t) \cup {new})
      <3>1. Chain(Visible(t)) /\ ~HasKey(Visible(t), new.key)
        BY <1>6, <2>3 DEF IInv, Insert
      <3> HIDE DEF new
      <3> QED
        BY <2>1, <2>3, <2>4, <2>10, <3>1, ExtendChain
    <2>12. Chain(rows)' /\ \A u \in Txs : Chain(Visible(u))'
      <3>1. \A u \in Txs : Chain(Visible(u)')
        BY <2>9, <2>11 DEF IInv
      <3> QED
        BY <1>6, <3>1 DEF IInv, Insert, Chain, Before
    <2>13. Serialised'
      <3>1. \A u \in Txs : pc'[u] \in {"locked", "linking"} \/ pending'[u] # {} => lock' = u
        BY <1>6, <2>1, <2>5, <1>t DEF Insert, Serialised, TypeOK
      <3>2. \A u \in Txs : \A q \in rows', r \in pending'[u] : q.seq < r.seq
        BY <1>6, <2>3, <2>5, <1>t DEF Insert, Serialised, IInv, Numbered, Below
      <3>3. \A u \in Txs : pc'[u] # "linking"
        BY <1>6, <2>1, <1>t DEF Insert, Serialised, TypeOK
      <3> QED
        BY <3>1, <3>2, <3>3 DEF Serialised
    <2> QED
      BY <2>7, <2>8, <2>12, <2>13 DEF IInv
  <1>7. ASSUME NEW t \in Txs, DuplicateKey(t) \/ Rollback(t)
        PROVE IInv'
    <2>1. nextSeq' \in nextSeq..(MaxSeq + 1)
      BY <1>7, <1>t DEF DuplicateKey, Rollback, TypeOK
    <2> QED
      BY <1>7, <2>1, Abandoned DEF DuplicateKey, Rollback
  <1>8. ASSUME NEW t \in Txs, Commit(t)
        PROVE IInv'
    <2>1. CASE pending[t] = {}
      <3>1. rows' = rows /\ \A u \in Txs : pending'[u] = pending[u]
        BY <1>8, <2>1, <1>t DEF Commit, TypeOK
      <3>2. TypeOK'
        BY <1>8, <3>1, <1>t DEF Commit, TypeOK, IsRow, Release
      <3>3. Serialised'
        BY <1>8, <3>1, <2>1, <1>t DEF Commit, TypeOK, Serialised, Release, Visible
      <3> QED
        BY <1>8, <3>1, <3>2, <3>3, RowsUntouched DEF Commit
    <2>2. CASE pending[t] # {}
      <3>1. lock = t /\ \A u \in Txs : u # t => pending[u] = {} /\ pc[u] \notin {"locked", "linking"}
        BY <2>2, <1>t DEF Serialised
      <3>2. \A u \in Txs : pending'[u] = {}
        BY <1>8, <3>1, <1>t DEF Commit, TypeOK
      <3>3. TypeOK'
        BY <1>8, <3>2, <1>t DEF Commit, TypeOK, IsRow, Release
      <3>4. Numbered'
        BY <1>8, <3>2 DEF IInv, Commit, Numbered, Below
      <3>5. rows' = Visible(t) /\ \A u \in Txs : Visible(u)' = Visible(t)
        BY <1>8, <3>2 DEF Commit, Visible
      <3>6. Chain(rows)' /\ \A u \in Txs : Chain(Visible(u))'
        <4>1. Chain(rows') /\ \A u \in Txs : Chain(Visible(u)')
          BY <3>5 DEF IInv
        <4> QED
          BY <4>1 DEF Chain, Before
      <3>7. Serialised'
        BY <1>8, <3>1, <3>2, <1>t DEF Commit, Serialised, TypeOK
      <3> QED
        BY <3>3, <3>4, <3>6, <3>7 DEF IInv
    <2> QED
      BY <2>1, <2>2
  <1> QED
    BY <1>1, <1>2, <1>3, <1>4, <1>5, <1>6, <1>7, <1>8 DEF Next

LEMMA Invariance == Spec => []IInv
  BY InitIInv, StepIInv, PTL DEF Spec

-----------------------------------------------------------------------------
(* No fork: each committed row names the row right before it, whatever the
   number of transactions that append at the same time and roll back. *)
THEOREM Linear == Spec => []ChainIsLinear
  <1>1. IInv => ChainIsLinear
    BY DEF IInv, Chain, ChainIsLinear
  <1> QED
    BY <1>1, Invariance, PTL

(* A repeated event is logged once, although the lookup of its key is not
   under the lock. *)
THEOREM Idempotent == Spec => []OneEventPerKey
  <1>1. IInv => OneEventPerKey
    BY DEF IInv, Chain, OneEventPerKey
  <1> QED
    BY <1>1, Invariance, PTL

(* The committed log grows at its end and nowhere else. *)
THEOREM Grows == Spec => AppendOnly
  <1>1. IInv /\ [Next]_vars => [/\ rows \subseteq rows'
                                /\ \A q \in rows, r \in rows' \ rows : q.seq < r.seq]_vars
    BY DEF IInv, Serialised, Next, vars, Append, SkipKnown, AcquireLock, ReadLast,
           Insert, DuplicateKey, Commit, Rollback
  <1> QED
    BY <1>1, Invariance, PTL DEF Spec, AppendOnly
=============================================================================
