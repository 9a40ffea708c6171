---------------------------- MODULE MCDocuments ----------------------------
(* Documents on small instances: requests and schemas are alike.           *)
EXTENDS Documents, TLC

Symmetry == Permutations(Requests) \cup Permutations(Schemas)
=============================================================================
