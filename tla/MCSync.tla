------------------------------- MODULE MCSync --------------------------------
(* Sync on small instances: model values for users, ids, identifiers,      *)
(* contents, handlers and syncs, the symmetry between them (not used by    *)
(* the liveness run), and a bound on late calls.                           *)
EXTENDS Sync, TLC

Symmetry ==
    Permutations(Users) \cup Permutations(NewIds) \cup Permutations(Ids \ NewIds) \cup
        Permutations(Idents \ Refused) \cup Permutations(Refused) \cup Permutations(Contents) \cup
        Permutations(Handlers) \cup Permutations(Syncers)

\* A bound: while a call is left behind, one user is active.
LateOfOneUser ==
    late = {} \/ \E u \in Users : \A v \in Users \ {u} :
        /\ lastsync[v] = 0
        /\ Owned(db, v) = {}
        /\ \A s \in Syncers : sync[s].user # v
===============================================================================
