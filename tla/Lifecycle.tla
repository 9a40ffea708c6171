------------------------------ MODULE Lifecycle ------------------------------
(***************************************************************************)
(* What qvain-backend promises about a dataset, whoever edits, publishes   *)
(* and deletes it, in whatever order and with whatever failures:           *)
(*   - a dataset is a draft until it is published, and never again after;  *)
(*   - what is published has a Metax identifier, a draft has none, and no  *)
(*     two datasets have the same one;                                     *)
(*   - what is deleted does not come back, nor is its id used again.       *)
(* Publish implements this specification under the mapping stated there.   *)
(***************************************************************************)
CONSTANTS Ids, Idents, None

VARIABLES
    state,  \* of each id: "unused", "draft", "published" or "deleted"
    ident   \* the Metax identifier of each published dataset

States == {"unused", "draft", "published", "deleted"}

lifecycleVars == <<state, ident>>

LifecycleInit ==
    /\ state = [id \in Ids |-> "unused"]
    /\ ident = [id \in Ids |-> None]

Become(id, from, to, i) ==
    /\ state[id] \in from
    /\ state' = [state EXCEPT ![id] = to]
    /\ ident' = [ident EXCEPT ![id] = i]

FreeFor(id, i) == \A other \in Ids \ {id} : ident[other] # i

Draft(id) == Become(id, {"unused"}, "draft", None)

\* Publishing, publishing again and taking another identifier.
PublishAs(id, i) == FreeFor(id, i) /\ Become(id, {"draft", "published"}, "published", i)

\* A new version made by Metax starts as a published dataset.
Arrive(id, i) == FreeFor(id, i) /\ Become(id, {"unused"}, "published", i)

Leave(id) == Become(id, {"draft", "published"}, "deleted", None)

LifecycleNext ==
    \E id \in Ids :
        \/ Draft(id)
        \/ Leave(id)
        \/ \E i \in Idents : PublishAs(id, i) \/ Arrive(id, i)

LifecycleSpec == LifecycleInit /\ [][LifecycleNext]_lifecycleVars
=============================================================================
