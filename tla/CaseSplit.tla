----------------------------- MODULE CaseSplit ------------------------------
(* allocateParts: which size lines of a Beleg go into which part.  The lines are
   the quantities in shelf order; a line stays whole, so the targets are wishes. *)
EXTENDS Sums, SequencesExt

Total(quantities) == SumOver(quantities, DOMAIN quantities)

CanSplit(lines, targets) ==
  /\ Len(targets) >= 2
  /\ \A k \in DOMAIN targets : targets[k] > 0
  /\ Len(lines) >= Len(targets)

(* Mutant: nothing keeps a line back for the later parts. *)
FaultyPartOf(lines, targets) ==
  LET part[i \in 1 .. Len(lines)] ==
        IF i = 1 THEN 1
        ELSE LET k == part[i - 1]
                 got == SumOver(lines, {j \in 1 .. i - 1 : part[j] = k})
             IN IF Len(targets) > k /\ got >= targets[k] THEN k + 1 ELSE k
  IN part

(* The part of every line: the next part begins once the current one has reached
   its target, or when each line left is needed to fill a part. *)
PartOf(lines, targets) ==
  LET part[i \in 1 .. Len(lines)] ==
        IF i = 1 THEN 1
        ELSE LET k == part[i - 1]
                 got == SumOver(lines, {j \in 1 .. i - 1 : part[j] = k})
                 toFill == Len(targets) - k
                 left == Len(lines) - (i - 1)
             IN IF toFill > 0 /\ (got >= targets[k] \/ left <= toFill) THEN k + 1 ELSE k
  IN part

(* The lines of every part: one part is filled after the other. *)
AllocateParts(lines, targets) ==
  LET part == PartOf(lines, targets)
      upTo(k) == Cardinality({i \in DOMAIN lines : part[i] <= k})
  IN [k \in DOMAIN targets |-> SubSeq(lines, upTo(k - 1) + 1, upTo(k))]

(* A share of `total` for every part by its quantity, rounded; the last part
   carries the difference. *)
Apportion(total, quantities) ==
  LET all == Total(quantities)
      n == Len(quantities)
      share(k) == (2 * total * quantities[k] + all) \div (2 * all)
  IN [k \in 1 .. n |->
        IF k < n THEN share(k) ELSE total - Total([j \in 1 .. n - 1 |-> share(j)])]
=============================================================================
