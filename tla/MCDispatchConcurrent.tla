------------------------ MODULE MCDispatchConcurrent ------------------------
(* Instances of DispatchConcurrent: the first two bundle rows are of the first
   employee. *)
EXTENDS DispatchConcurrent, TLC

CONSTANTS e1, e2, b1, b2, b3

MCOwner == b1 :> e1 @@ b2 :> e1 @@ b3 :> e2

OneEmployeeOwner == b1 :> e1 @@ b2 :> e1

TwoCartsOwner == b1 :> e1 @@ b3 :> e2

Symmetry == Permutations(Cases) \cup Permutations(Slots)

(* Every case came in complete and waits in the pool. *)
PoolInit == ConcurrentInit /\ status = [c \in Cases |-> "ready"]
PoolSpec == PoolInit /\ [][ConcurrentNext]_allVars

(* The planner has put every case on a first cart, those in Planned into a
   second pack. *)
CONSTANT Planned
CartInit ==
  /\ status = [c \in Cases |-> "assigned"]
  /\ link = [c \in Cases |-> b1]
  /\ missing = [c \in Cases |-> {}]
  /\ collected = [c \in Cases |-> FALSE]
  /\ item = [c \in Cases |-> [bundle |-> b1, pack |-> IF c \in Planned THEN 1 ELSE 0,
                               by |-> "system"]]
  /\ bundle = [b \in Bundles |-> IF b = b1 THEN NewBundle ELSE NoBundle]
  /\ part = [c \in Cases |-> {}]
  /\ req = [s \in Slots |-> Idle]

CartSpec == CartInit /\ [][ConcurrentNext]_allVars

(* A constraint: sharing is of one case at a time. *)
OneIsShared == \A c, d \in Cases : part[c] # {} /\ part[d] # {} => c = d

CartFairSpec == CartSpec /\ Fairness
=============================================================================
