------------------------------- MODULE Publish -------------------------------
(***************************************************************************)
(* The requests on one dataset that qvain-backend serves (dataset_api.go)  *)
(* and the publish and unpublish procedures they run (shared/publish.go).  *)
(*                                                                         *)
(* A handler is a goroutine serving one request.  It works in steps, each  *)
(* one a database transaction or one side of a call to Metax; between two  *)
(* steps any other handler may run.  A step that only fails the request is *)
(* an instance of Fail: a handler may lose a transaction, time out or die  *)
(* with the backend at any point, and its local state is gone then.  The   *)
(* call it waited for may still reach Metax afterwards: it moves to late.  *)
(***************************************************************************)
EXTENDS Metax, FiniteSets

CONSTANTS
    Handlers,          \* requests being served at the same time
    Faults,            \* whether requests may fail halfway and calls may be late
    MaxLate,           \* bound: calls left behind that Metax may still execute
    NewIds,            \* bound: ids for datasets that requests create
    CreatesOverlap,    \* whether creates may be in CreateData at the same time
    MismatchedBodies   \* whether the id in a request's body may differ from its path

ASSUME PublishAssumption ==
    /\ Faults \in BOOLEAN
    /\ CreatesOverlap \in BOOLEAN
    /\ MismatchedBodies \in BOOLEAN
    /\ MaxLate \in Nat
    /\ NewIds \subseteq Ids

VARIABLES
    db,      \* the datasets table
    minted,  \* the ids made so far: a uuid is never made twice
    req,     \* the local state of each handler
    late,    \* calls nobody waits for any more and Metax may still execute
    edited   \* history: rows the user changed after they last took a document from Metax

vars == <<db, minted, req, late, edited, metax, clock>>

(* pc is what the handler does next:                                       *)
(*   "patching"  an update that passed validation: SmartUpdateWithOwner    *)
(*   "storing"   a publish waiting for Metax: api.Store                    *)
(*   "stored"    a publish with Metax's answer: StorePublished             *)
(*   "getting"   a publish that made a new version: api.GetId              *)
(*   "landing"   a publish with the new version's document: StoreNewVersion*)
(*   "unlisting" a delete of a published dataset: UnpublishAndDelete       *)
(*   "removing"  a delete waiting for Metax: api.Delete                    *)
(*   "deleting"  a delete about to delete the row: db.Delete               *)
PCs == {"idle", "patching", "storing", "stored", "getting", "landing",
        "unlisting", "removing", "deleting"}

Req == [pc   : PCs,
        user : Users \cup {None},
        id   : Ids \cup {None},
        blob : Blob,                    \* the document read, sent or received
        new  : Idents \cup {None}]      \* the new version Metax reported

Idle == [pc |-> "idle", user |-> None, id |-> None, blob |-> NoBlob, new |-> None]

Call == [op : {"store", "remove"}, blob : Blob]

TypeOK ==
    /\ MetaxTypeOK
    /\ IsTable(db)
    /\ minted \in SUBSET Ids
    /\ req \in [Handlers -> Req]
    /\ late \in SUBSET Call
    /\ edited \in SUBSET Ids

Init ==
    /\ MetaxInit
    /\ db = [id \in {} |-> None]
    /\ minted = {}
    /\ req = [h \in Handlers |-> Idle]
    /\ late = {}
    /\ edited = {}

-----------------------------------------------------------------------------
At(h, pc) == req[h].pc = pc

Begin(h, pc, user, id, blob) ==
    req' = [req EXCEPT ![h] = [pc |-> pc, user |-> user, id |-> id,
                               blob |-> blob, new |-> None]]

Goto(h, pc) == req' = [req EXCEPT ![h].pc = pc]

Answered(h, pc, blob, new) ==
    req' = [req EXCEPT ![h].pc = pc, ![h].blob = blob, ![h].new = new]

End(h) == req' = [req EXCEPT ![h] = Idle]

(* Requests that change nothing: an unknown dataset, another user's, an    *)
(* update that does not validate.                                          *)
RejectRequest(h) ==
    /\ At(h, "idle")
    /\ UNCHANGED vars

(* POST /api/datasets.  Creates fill in one template, field by field, and  *)
(* serialise it afterwards, without a lock.  So each field of a document   *)
(* may be that of any create that is in CreateData at the same time: of    *)
(* any user, and of any id, one whose row exists already, is yet to be     *)
(* inserted or never will be.  (Documents has the single steps.)           *)
TemplateUsers(user) == IF CreatesOverlap THEN Users ELSE {user}

TemplateIds(id) == IF CreatesOverlap THEN NewIds ELSE {id}

CreateDataset(h) ==
    /\ At(h, "idle")
    /\ \E user \in Users, id \in NewIds \ minted, rd \in Contents, cum \in Cums \cup {None} :
       \E provider \in TemplateUsers(user), rec \in TemplateIds(id) :
          /\ validateCumulativeState(cum, FALSE)
          /\ db' = With(db, id, NewRow(user, CreateData(rec, provider, rd, cum)))
          /\ minted' = minted \cup {id}
    /\ UNCHANGED <<req, late, edited, metaxVars>>

(* PUT /api/datasets/<id>: read the row and validate the update against    *)
(* it, then write the update in another transaction.                       *)
ValidateUpdate(h) ==
    /\ At(h, "idle")
    /\ \E user \in Users, rd \in Contents, cum \in Cums \cup {None} :
       \E id \in Owned(db, user) :
       \E bodyId \in IF MismatchedBodies THEN Ids ELSE {id} :
          /\ ValidateUpdated(db[id], UpdateData(bodyId, rd, cum))
          /\ Begin(h, "patching", user, id, UpdateData(bodyId, rd, cum))
    /\ UNCHANGED <<db, minted, late, edited, metaxVars>>

SmartUpdateWithOwner(h) ==
    LET id == req[h].id IN
    /\ At(h, "patching")
    /\ id \in Owned(db, req[h].user)
    /\ db' = With(db, id, PatchRow(db[id], req[h].blob))
    /\ edited' = edited \cup {id}
    /\ End(h)
    /\ UNCHANGED <<minted, late, metaxVars>>

(* POST /api/datasets/<id>/publish.                                        *)
GetForPublish(h) ==
    /\ At(h, "idle")
    /\ \E user \in Users : \E id \in Owned(db, user) :
          Begin(h, "storing", user, id, db[id].blob)
    /\ UNCHANGED <<db, minted, late, edited, metaxVars>>

\* Metax answers 201 to the POST of a document that has no identifier.
StoreCreated(h) ==
    /\ At(h, "storing")
    /\ req[h].blob.ident = None
    /\ \E i \in Idents \ Refused : /\ Post(i, req[h].blob)
                                   /\ Answered(h, "stored", metax'[i].blob, None)
    /\ UNCHANGED <<db, minted, late, edited>>

\* Metax answers 200 to the PUT of a document that has one.
StoreUpdated(h) ==
    /\ At(h, "storing")
    /\ PutDataset(req[h].blob)
    /\ Answered(h, "stored", metax'[req[h].blob.ident].blob, None)
    /\ UNCHANGED <<db, minted, late, edited>>

\* The same, with a new version reported in the answer.
StoreMadeVersion(h) ==
    /\ At(h, "storing")
    /\ \E n \in Idents : /\ PutNewVersion(req[h].blob, n)
                         /\ Answered(h, "stored", metax'[req[h].blob.ident].blob, n)
    /\ UNCHANGED <<db, minted, late, edited>>

\* Mutant: the time of the write is taken for the document's date.
StorePublishedNow(h) ==
    /\ At(h, "stored")
    /\ req[h].id \in DOMAIN db
    /\ db' = With(db, req[h].id, PublishedRow(db[req[h].id], req[h].blob, clock))
    /\ edited' = edited \ {req[h].id}
    /\ IF req[h].new = None THEN End(h) ELSE Goto(h, "getting")
    /\ UNCHANGED <<minted, late, metaxVars>>

\* Mutant: the row is inserted when it is not there.
StorePublishedUpsert(h) ==
    /\ At(h, "stored")
    /\ db' = With(db, req[h].id,
                  PublishedRow(NewRow(req[h].user, NoBlob), req[h].blob, req[h].blob.date))
    /\ edited' = edited \ {req[h].id}
    /\ IF req[h].new = None THEN End(h) ELSE Goto(h, "getting")
    /\ UNCHANGED <<minted, late, metaxVars>>

StorePublished(h) ==
    LET id == req[h].id IN
    /\ At(h, "stored")
    /\ id \in DOMAIN db
    /\ db' = With(db, id, PublishedRow(db[id], req[h].blob, req[h].blob.date))
    /\ edited' = edited \ {id}
    /\ IF req[h].new = None THEN End(h) ELSE Goto(h, "getting")
    /\ UNCHANGED <<minted, late, metaxVars>>

\* Mutant: the document of the published dataset is taken for the new version's.
GetParentVersion(h) ==
    /\ At(h, "getting")
    /\ Answered(h, "landing", req[h].blob, req[h].new)
    /\ UNCHANGED <<db, minted, late, edited, metaxVars>>

GetNewVersion(h) ==
    /\ At(h, "getting")
    /\ Live(req[h].new)
    /\ Answered(h, "landing", metax[req[h].new].blob, req[h].new)
    /\ UNCHANGED <<db, minted, late, edited, metaxVars>>

StoreNewVersion(h) ==
    LET parent == req[h].id IN
    /\ At(h, "landing")
    /\ parent \in DOMAIN db
    /\ \E id \in Ids \ minted :
          /\ db' = With(db, id, NewVersionRow(db[parent], req[h].blob, req[h].blob.date))
          /\ minted' = minted \cup {id}
    /\ End(h)
    /\ UNCHANGED <<late, edited, metaxVars>>

\* Mutant: a published dataset is deleted like a draft.
GetForDeleteOnly(h) ==
    /\ At(h, "idle")
    /\ \E user \in Users : \E id \in Owned(db, user) :
          Begin(h, "deleting", user, id, NoBlob)
    /\ UNCHANGED <<db, minted, late, edited, metaxVars>>

(* DELETE /api/datasets/<id>: a draft is only deleted from the database, a *)
(* published dataset is read again and removed from Metax first.           *)
GetForDelete(h) ==
    /\ At(h, "idle")
    /\ \E user \in Users : \E id \in Owned(db, user) :
          Begin(h, IF db[id].published THEN "unlisting" ELSE "deleting", user, id, NoBlob)
    /\ UNCHANGED <<db, minted, late, edited, metaxVars>>

GetForUnpublish(h) ==
    /\ At(h, "unlisting")
    /\ req[h].id \in Owned(db, req[h].user)
    /\ Answered(h, "removing", db[req[h].id].blob, None)
    /\ UNCHANGED <<db, minted, late, edited, metaxVars>>

\* Mutant: the error Metax answers with is ignored.
DeleteInMetaxIgnored(h) ==
    /\ At(h, "removing")
    /\ Goto(h, "deleting")
    /\ UNCHANGED <<db, minted, late, edited, metaxVars>>

DeleteInMetax(h) ==
    /\ At(h, "removing")
    /\ RemoveDataset(req[h].blob.ident)
    /\ Goto(h, "deleting")
    /\ UNCHANGED <<db, minted, late, edited>>

Delete(h) ==
    /\ At(h, "deleting")
    /\ req[h].id \in Owned(db, req[h].user)
    /\ db' = Without(db, req[h].id)
    /\ edited' = edited \ {req[h].id}
    /\ End(h)
    /\ UNCHANGED <<minted, late, metaxVars>>

-----------------------------------------------------------------------------
(* Failures.                                                               *)

\* The call handler h waits for, if it waits for one.
Outstanding(h) ==
    CASE At(h, "storing")  -> {[op |-> "store", blob |-> req[h].blob]}
      [] At(h, "removing") -> {[op |-> "remove", blob |-> req[h].blob]}
      [] OTHER -> {}

\* Metax may still get these calls.
LeftBehind(calls) ==
    /\ late' = late \cup calls
    /\ Cardinality(late') <= MaxLate

\* The request ends with an error.  Metax may refuse a call and a row may be
\* gone without any fault; a lost transaction, an answer that is lost or has
\* no identifier and a timeout are faults, and may leave the call behind.
Fail(h) ==
    /\ ~At(h, "idle")
    /\ \/ Faults
       \/ At(h, "storing") \/ At(h, "removing")
       \/ At(h, "getting") /\ ~Live(req[h].new)
       \/ req[h].id \notin DOMAIN db
    /\ End(h)
    /\ \/ late' = late
       \/ Faults /\ LeftBehind(Outstanding(h))
    /\ UNCHANGED <<db, minted, edited, metaxVars>>

\* The backend stops: every handler is gone.
Crash ==
    /\ Faults
    /\ \E h \in Handlers : ~At(h, "idle")
    /\ req' = [h \in Handlers |-> Idle]
    /\ late' = late \/ LeftBehind(UNION {Outstanding(h) : h \in Handlers})
    /\ UNCHANGED <<db, minted, edited, metaxVars>>

\* Metax executes a call whose sender is gone.
LateCall(c) ==
    /\ late' = late \ {c}
    /\ \/ c.op = "store" /\ c.blob.ident = None /\ \E i \in Idents \ Refused : Post(i, c.blob)
       \/ c.op = "store" /\ PutDataset(c.blob)
       \/ c.op = "store" /\ \E n \in Idents : PutNewVersion(c.blob, n)
       \/ c.op = "remove" /\ RemoveDataset(c.blob.ident)
    /\ UNCHANGED <<db, minted, req, edited>>

EditInMetax ==
    /\ \E i \in Idents, rd \in Contents : ForeignEdit(i, rd)
    /\ UNCHANGED <<db, minted, req, late, edited>>

HandlerStep(h) ==
    \/ RejectRequest(h)
    \/ CreateDataset(h)
    \/ ValidateUpdate(h) \/ SmartUpdateWithOwner(h)
    \/ GetForPublish(h) \/ StoreCreated(h) \/ StoreUpdated(h) \/ StoreMadeVersion(h)
    \/ StorePublished(h) \/ GetNewVersion(h) \/ StoreNewVersion(h)
    \/ GetForDelete(h) \/ GetForUnpublish(h) \/ DeleteInMetax(h) \/ Delete(h)

Next ==
    \/ \E h \in Handlers : HandlerStep(h) \/ Fail(h)
    \/ Crash
    \/ \E c \in late : LateCall(c)
    \/ EditInMetax

Spec == Init /\ [][Next]_vars

-----------------------------------------------------------------------------
(* Invariants.                                                             *)

(* No two rows carry the same Metax identifier, whatever publishes, new    *)
(* versions, deletes and failures overlap: a Metax dataset has one editor. *)
(* (StorePublished and StoreNewVersion write documents Metax answered with *)
(* for whichever row their handler started from.)                          *)
UniqueIdentifiers ==
    \A a, b \in DOMAIN db :
        Identified(db[a]) /\ db[a].blob.ident = db[b].blob.ident => a = b

(* The published flag, by which the code chooses user_created or           *)
(* user_modified and whether a delete goes through Metax, and the          *)
(* identifier, by which Store chooses POST or PUT, never disagree.         *)
PublishedIffIdentified ==
    \A id \in DOMAIN db : db[id].published <=> Identified(db[id])

(* An identified row's dataset exists in Metax and belongs to the row's    *)
(* owner there too, although StorePublished does not check the owner.      *)
(* (If creates do not overlap: a document may name another user then.)     *)
SameOwnerInMetax ==
    \A id \in DOMAIN db : Identified(db[id]) =>
        /\ db[id].blob.ident \in DOMAIN metax
        /\ metax[db[id].blob.ident].blob.user = db[id].owner

(* What syncRecord relies on to skip a record that was not modified in     *)
(* Metax after the row's synced time: such a row has Metax's document,     *)
(* unless the user edited it since.                                        *)
SkipCheckSound ==
    \A id \in DOMAIN db :
        LET row == db[id] IN
        /\ Identified(row)
        /\ id \notin edited
        /\ Live(row.blob.ident)
        /\ row.synced >= metax[row.blob.ident].blob.date
        => row.blob = metax[row.blob.ident].blob

(* When no request is being served, the live datasets Metax has from Qvain *)
(* are those of the rows: nothing published is left without a row and no   *)
(* row without its dataset.  (Requests one at a time, without faults.)     *)
Mirror ==
    (\A h \in Handlers : At(h, "idle")) =>
        {i \in DOMAIN metax : Live(i)} =
            {db[id].blob.ident : id \in {x \in DOMAIN db : Identified(db[x])}}

-----------------------------------------------------------------------------
(* The abstract specification, and the mapping under which the handlers    *)
(* implement it.                                                           *)

stateBar ==
    [id \in Ids |-> IF id \in DOMAIN db
                    THEN IF db[id].published THEN "published" ELSE "draft"
                    ELSE IF id \in minted THEN "deleted" ELSE "unused"]

identBar == [id \in Ids |-> IF id \in DOMAIN db THEN db[id].blob.ident ELSE None]

L == INSTANCE Lifecycle WITH state <- stateBar, ident <- identBar

(* Every behaviour of the handlers is a behaviour of Lifecycle.            *)
ImplementsLifecycle == L!LifecycleSpec

-----------------------------------------------------------------------------
(* Action properties.                                                      *)

(* A published row that a delete request takes out of the table is removed *)
(* from Metax at that moment, if the request saw that it was published: a  *)
(* delayed PUT of the same dataset does not bring it back in between.      *)
DeletedOnlyUnlisted ==
    [][\A h \in Handlers :
        At(h, "deleting") /\ Identified([blob |-> req[h].blob])
            /\ req[h].id \in DOMAIN db \ DOMAIN db'
            => ~Live(req[h].blob.ident)]_vars

(* A row keeps the identifier it was published under.                      *)
IdentifierStable ==
    [][\A id \in DOMAIN db \cap DOMAIN db' :
        Identified(db[id]) => db'[id].blob.ident = db[id].blob.ident]_vars

(* Only Metax changes the cumulative_state of a published dataset: a row   *)
(* that is and stays published gets another value only when a publish      *)
(* stores Metax's answer.                                                  *)
CumulativeStateFrozen ==
    [][\A id \in DOMAIN db \cap DOMAIN db' :
        db[id].published /\ db'[id].blob.cum # db[id].blob.cum
            => \E h \in Handlers : At(h, "stored") /\ req[h].id = id]_vars

(* A published row is deleted only with its dataset removed from Metax.    *)
NoListedDatasetDropped ==
    [][\A id \in DOMAIN db \ DOMAIN db' :
        db[id].published => ~Live(db[id].blob.ident)]_vars
=============================================================================
