--------------------------- MODULE MCTransactions ---------------------------
(* Transactions on small instances: model values, and the symmetry between *)
(* ids and between syncs (not used by the liveness run).                   *)
EXTENDS Transactions, TLC

Symmetry == Permutations(Ids) \cup Permutations(Syncs)
=============================================================================
