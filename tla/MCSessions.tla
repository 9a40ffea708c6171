----------------------------- MODULE MCSessions ------------------------------
(* Sessions on small instances: the symmetry between model values.         *)
EXTENDS Sessions, TLC

Symmetry ==
    Permutations(Browsers) \cup Permutations(Projects) \cup Permutations(States) \cup
        Permutations(Uids) \cup Permutations(Sids) \cup Permutations(Logins)
===============================================================================
