----------------------------- MODULE MCEventLog -----------------------------
EXTENDS EventLog, TLC

Symmetry == Permutations(Txs)
=============================================================================
