------------------------------ MODULE Datasets ------------------------------
(***************************************************************************)
(* The `datasets` table of the Qvain database (internal/psql/dataset.go)   *)
(* and the JSON documents stored in its `blob` column (pkg/metax).         *)
(*                                                                         *)
(* This module has no variables: it defines the values the other modules   *)
(* keep in theirs, and every SQL statement as an operator from a table to  *)
(* a table.  A table is a function from primary keys to rows, so that its  *)
(* DOMAIN is the set of rows present.                                      *)
(*                                                                         *)
(* Rows are of the Metax family (family 2), whose documents are partial:   *)
(* a client sees and changes only research_dataset and cumulative_state.   *)
(***************************************************************************)
EXTENDS Naturals

CONSTANTS
    Users,      \* Qvain users
    Ids,        \* ids of Qvain datasets (uuids made by Qvain)
    Idents,     \* identifiers of Metax datasets (made by Metax)
    Contents,   \* values of research_dataset
    Cums,       \* values a client may send for cumulative_state
    None        \* a missing field

ASSUME NoneAssumption ==
    /\ None \notin Users
    /\ None \notin Ids
    /\ None \notin Idents
    /\ None \notin Contents
    /\ None \notin Cums

-----------------------------------------------------------------------------
(* Documents.  Of a document's fields the model keeps those that steer the *)
(* code: research_dataset, cumulative_state, metadata_provider_user,       *)
(* editor.record_id, identifier and the modification date (0: no date).    *)

Blob == [rd    : Contents \cup {None},
         cum   : Cums \cup {None},
         user  : Users \cup {None},
         rec   : Ids \cup {None},
         ident : Idents \cup {None},
         date  : Nat]

NoBlob == [rd |-> None, cum |-> None, user |-> None,
           rec |-> None, ident |-> None, date |-> 0]

\* The document of a new dataset: the template with the client's fields merged in.
CreateData(id, user, rd, cum) ==
    [NoBlob EXCEPT !.rd = rd, !.cum = cum, !.user = user, !.rec = id]

\* The partial document an update carries; its record_id is the id in the
\* request's body.
UpdateData(bodyId, rd, cum) ==
    [NoBlob EXCEPT !.rd = rd, !.cum = cum, !.rec = bodyId]

\* Mutant: the update replaces the document instead of merging into it.
MergeBlobReplacing(blob, patch) == patch

\* blob || patch: the patch replaces the top-level fields it has.
MergeBlob(blob, patch) ==
    [blob EXCEPT !.rd = patch.rd,
                 !.rec = patch.rec,
                 !.cum = IF patch.cum = None THEN blob.cum ELSE patch.cum]

validateCumulativeState(cum, published) ==
    cum \in {None, "0", "1"} \/ (cum = "2" /\ published)

-----------------------------------------------------------------------------
(* Rows and statements.                                                    *)

Row == [owner     : Users,
        published : BOOLEAN,
        synced    : Nat,        \* 0: NULL
        blob      : Blob]

IsTable(t) ==
    /\ t = [id \in DOMAIN t |-> t[id]]
    /\ DOMAIN t \subseteq Ids
    /\ \A id \in DOMAIN t : t[id] \in Row

\* A table with a row added or replaced, and a table with a row removed.
With(t, key, row) == [k \in DOMAIN t \cup {key} |-> IF k = key THEN row ELSE t[k]]
Without(t, key) == [k \in DOMAIN t \ {key} |-> t[k]]

\* A table after a transaction's writes: None is a row deleted.
Applied(t, writes) ==
    [k \in {i \in DOMAIN t \cup DOMAIN writes : i \in DOMAIN writes => writes[i] # None} |->
        IF k \in DOMAIN writes THEN writes[k] ELSE t[k]]

\* The rows that pass CheckOwner for a user.
Owned(t, user) == {id \in DOMAIN t : t[id].owner = user}

\* Mutant: the published flag is not looked at.
ValidateUpdatedAlways(row, patch) == validateCumulativeState(patch.cum, TRUE)

\* ValidateUpdated: cumulative_state has a legal value, and once the dataset
\* is published it is absent from the update or unchanged.
ValidateUpdated(row, patch) ==
    /\ validateCumulativeState(patch.cum, row.published)
    /\ row.published => patch.cum \in {None, row.blob.cum}

NewRow(user, blob) ==
    [owner |-> user, published |-> FALSE, synced |-> 0, blob |-> blob]

PatchRow(row, patch) == [row EXCEPT !.blob = MergeBlob(row.blob, patch)]

\* Mutant: the published flag is not set.
PublishedRowUnmarked(row, blob, synced) == [row EXCEPT !.blob = blob, !.synced = synced]

PublishedRow(row, blob, synced) ==
    [row EXCEPT !.blob = blob, !.published = TRUE, !.synced = synced]

\* Mutant: the owner is taken from the new document, which has no editor.
NewVersionRowUnowned(parent, blob, created) ==
    [owner |-> blob.rec, published |-> TRUE, synced |-> created, blob |-> blob]

NewVersionRow(parent, blob, created) ==
    [owner |-> parent.owner, published |-> TRUE, synced |-> created, blob |-> blob]

\* The row carries a Metax identifier.
Identified(row) == row.blob.ident # None
=============================================================================
