------------------------------ MODULE EventLog ------------------------------
(***************************************************************************)
(* The append-only event log of events/event-log.service.ts: every event   *)
(* is chained to its predecessor by a hash.  Several transactions append   *)
(* at the same time, each possibly more than once; a transaction-level     *)
(* advisory lock serialises them.  Rows of an open transaction are seen by *)
(* that transaction only (READ COMMITTED).                                 *)
(*                                                                         *)
(* A payload is abstracted to its one optional field: the handlers pass    *)
(* `reason: dto.reason', which may be undefined.                           *)
(***************************************************************************)
EXTENDS Integers

CONSTANTS
  Txs,      \* database transactions
  NoTx,     \* the lock is free
  Keys,     \* idempotency keys
  NoKey,    \* an event without one
  Sent,     \* values of the optional field the handlers pass
  MaxSeq    \* bounds the sequence numbers drawn

ASSUME NoTxAssumption == NoTx \notin Txs
ASSUME NoKeyAssumption == NoKey \notin Keys
ASSUME SentAssumption == Sent \subseteq {"missing", "undefined", "null", "text"}
ASSUME MaxSeqAssumption == MaxSeq \in Nat

VARIABLES
  rows,     \* committed rows of workflow_events
  pending,  \* rows a transaction inserted and has not committed
  nextSeq,  \* the autoincrement of seq; a rollback does not give it back
  lock,     \* holder of the advisory lock
  pc,       \* where the transaction's current append is
  ask,      \* payload and key of that append
  prev      \* the hash it read as its predecessor's

vars == <<rows, pending, nextSeq, lock, pc, ask, prev>>

-----------------------------------------------------------------------------
(* Hashing.  The content is bound with undefined fields written as null, the
   stored JSON has no undefined fields at all. *)

Root == <<>>
Canonical(field) == IF field = "undefined" THEN "null" ELSE field
Stored(field)    == IF field = "undefined" THEN "missing" ELSE field
Hash(previous, content) == <<previous, content>>

Last(S) == CHOOSE r \in S : \A q \in S : q.seq <= r.seq
LastHash(S) == IF S = {} THEN Root ELSE Last(S).hash
Before(S, r) == {q \in S : q.seq < r.seq}

\* Faulty: the predecessor is looked for among the committed rows only.
FaultyVisible(t) == rows

Visible(t) == rows \cup pending[t]
HasKey(S, k) == k # NoKey /\ \E r \in S : r.key = k

NoAsk == [payload |-> "missing", key |-> NoKey]

Init ==
  /\ rows = {}
  /\ pending = [t \in Txs |-> {}]
  /\ nextSeq = 1
  /\ lock = NoTx
  /\ pc = [t \in Txs |-> "idle"]
  /\ ask = [t \in Txs |-> NoAsk]
  /\ prev = [t \in Txs |-> Root]

-----------------------------------------------------------------------------
(* append.  An event whose key is already logged is not logged again. *)
SkipKnown(t, k) ==
  /\ pc[t] \in {"idle", "open"}
  /\ HasKey(Visible(t), k)
  /\ pc' = [pc EXCEPT ![t] = "open"]
  /\ UNCHANGED <<rows, pending, nextSeq, lock, ask, prev>>

Append(t, field, k) ==
  /\ pc[t] \in {"idle", "open"}
  /\ ~HasKey(Visible(t), k)
  /\ pc' = [pc EXCEPT ![t] = "waiting"]
  /\ ask' = [ask EXCEPT ![t] = [payload |-> field, key |-> k]]
  /\ UNCHANGED <<rows, pending, nextSeq, lock, prev>>

\* Faulty: the lock is granted to whoever asks.
FaultyAcquireLock(t) ==
  /\ pc[t] = "waiting"
  /\ lock' = t
  /\ pc' = [pc EXCEPT ![t] = "locked"]
  /\ UNCHANGED <<rows, pending, nextSeq, ask, prev>>

(* pg_advisory_xact_lock: re-entrant, held to the end of the transaction. *)
AcquireLock(t) ==
  /\ pc[t] = "waiting"
  /\ lock \in {NoTx, t}
  /\ lock' = t
  /\ pc' = [pc EXCEPT ![t] = "locked"]
  /\ UNCHANGED <<rows, pending, nextSeq, ask, prev>>

(* The locals of an append that is over. *)
Forget(t) ==
  /\ ask' = [ask EXCEPT ![t] = NoAsk]
  /\ prev' = [prev EXCEPT ![t] = Root]

ReadLast(t) ==
  /\ pc[t] = "locked"
  /\ prev' = [prev EXCEPT ![t] = LastHash(Visible(t))]
  /\ pc' = [pc EXCEPT ![t] = "linking"]
  /\ UNCHANGED <<rows, pending, nextSeq, lock, ask>>

NewRow(t) ==
  [seq     |-> nextSeq,
   prev    |-> prev[t],
   hash    |-> Hash(prev[t], Canonical(ask[t].payload)),
   payload |-> Stored(ask[t].payload),
   key     |-> ask[t].key]

\* Faulty: without the unique index on the key.
FaultyInsert(t) ==
  /\ pc[t] = "linking"
  /\ nextSeq <= MaxSeq
  /\ nextSeq' = nextSeq + 1
  /\ pending' = [pending EXCEPT ![t] = @ \cup {NewRow(t)}]
  /\ pc' = [pc EXCEPT ![t] = "open"]
  /\ Forget(t)
  /\ UNCHANGED <<rows, lock>>

(* The unique index on the key lets no second row with it in: the insertion
   fails and takes the transaction with it. *)
Insert(t) ==
  /\ pc[t] = "linking"
  /\ nextSeq <= MaxSeq
  /\ nextSeq' = nextSeq + 1
  /\ ~HasKey(Visible(t), ask[t].key)
  /\ pending' = [pending EXCEPT ![t] = @ \cup {NewRow(t)}]
  /\ pc' = [pc EXCEPT ![t] = "open"]
  /\ Forget(t)
  /\ UNCHANGED <<rows, lock>>

\* Faulty: a lock of the session, which the end of the transaction keeps.
FaultyRelease(t) == lock

Release(t) == IF lock = t THEN NoTx ELSE lock

DuplicateKey(t) ==
  /\ pc[t] = "linking"
  /\ nextSeq <= MaxSeq
  /\ nextSeq' = nextSeq + 1
  /\ HasKey(Visible(t), ask[t].key)
  /\ pending' = [pending EXCEPT ![t] = {}]
  /\ pc' = [pc EXCEPT ![t] = "idle"]
  /\ lock' = Release(t)
  /\ Forget(t)
  /\ UNCHANGED rows

Commit(t) ==
  /\ pc[t] = "open"
  /\ rows' = rows \cup pending[t]
  /\ pending' = [pending EXCEPT ![t] = {}]
  /\ pc' = [pc EXCEPT ![t] = "idle"]
  /\ lock' = Release(t)
  /\ UNCHANGED <<nextSeq, ask, prev>>

(* A handler that throws, a timeout of the transaction or a lost connection. *)
Rollback(t) ==
  /\ pc[t] # "idle"
  /\ pending' = [pending EXCEPT ![t] = {}]
  /\ pc' = [pc EXCEPT ![t] = "idle"]
  /\ lock' = Release(t)
  /\ Forget(t)
  /\ UNCHANGED <<rows, nextSeq>>

Next ==
  \E t \in Txs :
    \/ \E field \in Sent, k \in Keys \cup {NoKey} : Append(t, field, k)
    \/ \E k \in Keys : SkipKnown(t, k)
    \/ AcquireLock(t) \/ ReadLast(t) \/ Insert(t) \/ DuplicateKey(t)
    \/ Commit(t) \/ Rollback(t)

Spec == Init /\ [][Next]_vars

Settle(t) == pc[t] = "linking" /\ (Insert(t) \/ DuplicateKey(t) \/ Rollback(t))

(* A handler that runs makes its next call, appends finitely many events and
   then commits; Postgres grants the lock in the order of the requests. *)
Fairness ==
  \A t \in Txs :
    /\ WF_vars(ReadLast(t))
    /\ WF_vars(Settle(t))
    /\ SF_vars(Commit(t))
    /\ SF_vars(AcquireLock(t))

FairSpec == Spec /\ Fairness

-----------------------------------------------------------------------------
IsRow(r) ==
  /\ r.seq \in 1..MaxSeq
  /\ r.payload \in {"missing", "null", "text"}
  /\ r.key \in Keys \cup {NoKey}

TypeOK ==
  /\ nextSeq \in 1..(MaxSeq + 1)
  /\ lock \in Txs \cup {NoTx}
  /\ pc \in [Txs -> {"idle", "open", "waiting", "locked", "linking"}]
  /\ ask \in [Txs -> [payload : {"missing", "undefined", "null", "text"},
                      key : Keys \cup {NoKey}]]
  /\ DOMAIN pending = Txs /\ DOMAIN prev = Txs
  /\ \A r \in rows : IsRow(r)
  /\ \A t \in Txs : \A r \in pending[t] : IsRow(r)

(* The chain does not fork: ordered by seq, every committed row names the hash
   of the row right before it as its predecessor (first test of
   verifyChainLinks), however the transactions overlap or fail. *)
ChainIsLinear == \A r \in rows : r.prev = LastHash(Before(rows, r))

(* An event that a producer repeats with its key is logged at most once, also
   when both looked the key up before either took the lock. *)
OneEventPerKey ==
  \A q, r \in rows : q.key = r.key /\ q.key # NoKey => q = r

(* The log is append-only: nothing committed is lost or changed, and what is
   added lies behind everything that was there, so no verified prefix ever
   changes. *)
AppendOnly ==
  [][/\ rows \subseteq rows'
     /\ \A q \in rows, r \in rows' \ rows : q.seq < r.seq]_vars

(* Nobody waits forever for the chain: an append that asked for the lock gets
   it, whatever the transactions in front of it do. *)
AppendsProceed == \A t \in Txs : pc[t] = "waiting" ~> pc[t] # "waiting"

-----------------------------------------------------------------------------
(* What event-hash.ts promises and an undefined field breaks (the configuration
   EventLogUndefined): verifyIntegrity re-derives every hash from what was stored.
   The content was hashed with the field as null and stored without it, so that an
   untouched log reads as tampered with. *)
HashesReproduce == \A r \in rows : r.hash = Hash(r.prev, Canonical(r.payload))
=============================================================================
