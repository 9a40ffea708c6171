------------------------------ MODULE MCPublish ------------------------------
(* Publish on small instances: model values for users, ids, identifiers,   *)
(* contents and handlers, and the symmetry between them.                   *)
EXTENDS Publish, TLC

Symmetry ==
    Permutations(Users) \cup Permutations(NewIds) \cup Permutations(Ids \ NewIds) \cup
        Permutations(Idents \ Refused) \cup Permutations(Contents) \cup
        Permutations(Handlers)
=============================================================================
