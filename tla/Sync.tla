--------------------------------- MODULE Sync ---------------------------------
(***************************************************************************)
(* Synchronising a user's datasets from Metax (shared/fetch.go over        *)
(* psql/batch.go), beside the requests of Publish, which write the same    *)
(* table.                                                                  *)
(*                                                                         *)
(* Fetch and FetchAll run two batches, one for the user's live records and *)
(* one for the removed ones; the RPC requests run a batch of one record    *)
(* for each dataset Metax changed.  A batch is one database transaction:   *)
(* its writes are seen by nobody and lock their rows until it ends, its    *)
(* time, now(), is the time it began, and its commit stamps lastsync.      *)
(***************************************************************************)
EXTENDS Publish, Sequences

CONSTANTS
    Syncers,      \* syncs that may run at the same time
    Modes,        \* the syncs users ask for
    ForeignOps,   \* what other services do in Metax: "create", "remove"
    SyncFaults,   \* what may go wrong in a sync: "error", "timeout", "cut", "noinfo"
    Overlap       \* whether requests, syncs and other services' changes overlap

ASSUME SyncAssumption ==
    /\ Modes \subseteq {"fetch", "fetchAll", "rpc"}
    /\ ForeignOps \subseteq {"create", "remove"}
    /\ SyncFaults \subseteq {"error", "timeout", "cut", "noinfo"}
    /\ Overlap \in BOOLEAN
    /\ None \notin Row    \* among a batch's writes, None is a deleted row

VARIABLES
    lastsync,  \* the lastsync table: the time of each user's last sync, 0 for none
    sync       \* the local state of each sync

syncVars == <<lastsync, sync>>

allVars == <<vars, syncVars>>

(* pc is what the sync does next:                                          *)
(*   "starting"   begin a batch                                            *)
(*   "querying"   a batch waiting for Metax's records                      *)
(*   "loading"    a batch with its records: getSyncInfo                    *)
(*   "reading"    a batch with records to process, then to commit          *)
(*   "requesting" an RPC request waiting for Metax                         *)
(*   "fetching"   FetchDataset: api.GetId                                  *)
(*   "opening"    FetchDataset with its record: begin the batch            *)
SyncPCs == {"idle", "starting", "querying", "loading", "reading",
            "requesting", "fetching", "opening"}

Known == [ident : Idents \cup {None}, synced : Nat]

NoRows == [id \in {} |-> None]

SyncIdle == [pc |-> "idle", user |-> None, since |-> 0, removed |-> FALSE,
             todo |-> << >>, at |-> 0, recs |-> {}, known |-> NoRows, writes |-> NoRows]

\* since, removed: the query's options.  todo: the datasets FetchDataset is yet
\* to fetch.  known: getSyncInfo's two maps.  writes: the transaction's rows,
\* None for a deleted one.
SyncTypeOK ==
    /\ lastsync \in [Users -> Nat]
    /\ \A s \in Syncers :
          /\ sync[s].pc \in SyncPCs
          /\ sync[s].user \in Users \cup {None}
          /\ sync[s].recs \subseteq MetaxRecord
          /\ sync[s].todo \in Seq(Idents)
          /\ \A id \in DOMAIN sync[s].known : sync[s].known[id] \in Known
          /\ \A id \in DOMAIN sync[s].writes : sync[s].writes[id] \in Row \cup {None}

SyncInit ==
    /\ Init
    /\ lastsync = [u \in Users |-> 0]
    /\ sync = [s \in Syncers |-> SyncIdle]

-----------------------------------------------------------------------------
Doing(s, pc) == sync[s].pc = pc

Rpc(s) == sync[s].todo # << >>

\* The rows other transactions have written and not committed.
LockedBy(syncers) == UNION {DOMAIN sync[s].writes : s \in syncers}

\* The row a statement of the batch finds.
Visible(s, id) ==
    IF id \in DOMAIN sync[s].writes THEN sync[s].writes[id]
    ELSE IF id \in DOMAIN db THEN db[id] ELSE None

\* A write takes the row's lock, waiting for another batch that holds it.
Write(s, rec, id, row) ==
    /\ id \notin LockedBy(Syncers \ {s})
    /\ sync' = [sync EXCEPT ![s].writes = With(@, id, row), ![s].recs = @ \ {rec}]

\* Mutant: the batch of removed records is forgotten.
AfterBatchDone(s) ==
    IF Len(sync[s].todo) > 1
        THEN [SyncIdle EXCEPT !.user = sync[s].user, !.pc = "fetching",
                              !.todo = Tail(sync[s].todo)]
        ELSE SyncIdle

\* Where a batch goes when its transaction ended: the batch of removed records,
\* the next dataset, or the end.
AfterBatch(s) ==
    LET next == [SyncIdle EXCEPT !.user = sync[s].user, !.since = sync[s].since] IN
    IF Len(sync[s].todo) > 1
        THEN [next EXCEPT !.pc = "fetching", !.todo = Tail(sync[s].todo)]
    ELSE IF ~Rpc(s) /\ ~sync[s].removed
        THEN [next EXCEPT !.pc = "starting", !.removed = TRUE]
    ELSE SyncIdle

-----------------------------------------------------------------------------
(* The start of a sync.                                                    *)

\* Fetch: on login and from GET /api/datasets?fetch.
Fetch(s) ==
    /\ "fetch" \in Modes
    /\ \E u \in Users :
          sync' = [sync EXCEPT ![s] = [SyncIdle EXCEPT !.pc = "starting", !.user = u,
                                                       !.since = lastsync[u]]]
    /\ UNCHANGED <<vars, lastsync>>

\* FetchAll: from GET /api/datasets?fetchall.
FetchAll(s) ==
    /\ "fetchAll" \in Modes
    /\ \E u \in Users :
          sync' = [sync EXCEPT ![s] = [SyncIdle EXCEPT !.pc = "starting", !.user = u]]
    /\ UNCHANGED <<vars, lastsync>>

\* ChangeDatasetCumulativeState and RefreshDatasetDirectoryContent read the row.
GetForRpc(s) ==
    /\ "rpc" \in Modes
    /\ \E u \in Users : \E id \in Owned(db, u) :
          /\ Identified(db[id])
          /\ sync' = [sync EXCEPT ![s] = [SyncIdle EXCEPT !.pc = "requesting", !.user = u,
                                                          !.todo = <<db[id].blob.ident>>]]
    /\ UNCHANGED <<vars, lastsync>>

-----------------------------------------------------------------------------
(* A batch.                                                                *)

NewBatchForUser(s) ==
    /\ Doing(s, "starting") \/ Doing(s, "opening")
    /\ sync' = [sync EXCEPT ![s].at = clock,
                            ![s].pc = IF Rpc(s) THEN "loading" ELSE "querying"]
    /\ UNCHANGED <<vars, lastsync>>

\* Mutant: the query is not restricted to the user's records.
ReadStreamChannelOfAll(s) ==
    LET found == {i \in DOMAIN metax : /\ metax[i].removed = sync[s].removed
                                       /\ metax[i].blob.date > sync[s].since}
    IN /\ Doing(s, "querying")
       /\ sync' = [sync EXCEPT ![s].recs = {metax[i] : i \in found},
                               ![s].pc = IF found = {} THEN "reading" ELSE "loading"]
       /\ UNCHANGED <<vars, lastsync>>

\* The records asked for with WithUser, WithRemoved and Since.
Queried(s, rec) ==
    /\ rec.blob.user = sync[s].user
    /\ rec.removed = sync[s].removed
    /\ rec.blob.date > sync[s].since

\* Metax answers with the records asked for; without any, getSyncInfo is not called.
ReadStreamChannel(s) ==
    LET found == {i \in DOMAIN metax : Queried(s, metax[i])}
    IN /\ Doing(s, "querying")
       /\ sync' = [sync EXCEPT ![s].recs = {metax[i] : i \in found},
                               ![s].pc = IF found = {} THEN "reading" ELSE "loading"]
       /\ UNCHANGED <<vars, lastsync>>

\* What another transaction sees of the user's rows; empty when it fails, which
\* is only logged, or when the answer had no X-Count.
getSyncInfo(s) ==
    /\ Doing(s, "loading")
    /\ \E rows \in {Owned(db, sync[s].user)} \cup (IF "noinfo" \in SyncFaults THEN {{}} ELSE {}) :
          sync' = [sync EXCEPT ![s].pc = "reading",
                               ![s].known = [id \in rows |-> [ident  |-> db[id].blob.ident,
                                                              synced |-> db[id].synced]]]
    /\ UNCHANGED <<vars, lastsync>>

-----------------------------------------------------------------------------
(* syncRecord: one record of the batch.                                    *)

\* ToQvain fails: the record_id is no id, or the catalog is unknown.
Unreadable(rec) == rec.blob.ident \in Refused

\* The id of the row a record is of, None if it is a record without editor.
ToQvain(rec) == rec.blob.rec

GetModificationDate(rec) == rec.blob.date

\* Mutant: a record that names no row is always new.
RowsForNamed(s, rec) == {ToQvain(rec)} \ {None}

\* The rows a record may be taken for: the one it names, or else one that has
\* its identifier; none: the record is new.
RowsFor(s, rec) ==
    IF ToQvain(rec) # None THEN {ToQvain(rec)}
    ELSE {id \in DOMAIN sync[s].known : sync[s].known[id].ident = rec.blob.ident}

SyncedOf(s, id) == IF id \in DOMAIN sync[s].known THEN sync[s].known[id].synced ELSE 0

SkipRemoved(s, rec) ==
    /\ rec.removed
    /\ \/ RowsFor(s, rec) = {}
       \/ \E id \in RowsFor(s, rec) : SyncedOf(s, id) = 0
    /\ sync' = [sync EXCEPT ![s].recs = @ \ {rec}]
    /\ UNCHANGED <<vars, lastsync>>

\* Mutant: live records are deleted like removed ones.
BatchDeleteAny(s, rec, id) ==
    /\ SyncedOf(s, id) > 0
    /\ Visible(s, id) # None
    /\ Write(s, rec, id, None)
    /\ UNCHANGED <<vars, lastsync>>

BatchDelete(s, rec, id) ==
    /\ rec.removed
    /\ SyncedOf(s, id) > 0
    /\ Visible(s, id) # None
    /\ Write(s, rec, id, None)
    /\ UNCHANGED <<vars, lastsync>>

\* Mutant: the new row is not marked published.
CreateUnpublished(s, rec) ==
    /\ ~rec.removed
    /\ RowsFor(s, rec) = {}
    /\ \E id \in Ids \ minted :
          /\ Write(s, rec, id, [NewRow(sync[s].user, rec.blob) EXCEPT !.synced = sync[s].at])
          /\ minted' = minted \cup {id}
    /\ UNCHANGED <<db, req, late, edited, metaxVars, lastsync>>

CreateWithMetadata(s, rec) ==
    /\ ~rec.removed
    /\ RowsFor(s, rec) = {}
    /\ \E id \in Ids \ minted :
          /\ Write(s, rec, id, [owner  |-> sync[s].user, published |-> TRUE,
                                synced |-> sync[s].at,   blob      |-> rec.blob])
          /\ minted' = minted \cup {id}
    /\ UNCHANGED <<db, req, late, edited, metaxVars, lastsync>>

UpdateSynced(s, rec, id) ==
    /\ ~rec.removed
    /\ GetModificationDate(rec) <= SyncedOf(s, id)
    /\ Visible(s, id) # None
    /\ Write(s, rec, id, [Visible(s, id) EXCEPT !.synced = sync[s].at])
    /\ UNCHANGED <<vars, lastsync>>

\* Mutant: only the synced time is updated.
BatchUpdateStamp(s, rec, id) ==
    /\ ~rec.removed
    /\ GetModificationDate(rec) > SyncedOf(s, id)
    /\ Visible(s, id) # None
    /\ Write(s, rec, id, [Visible(s, id) EXCEPT !.synced = sync[s].at])
    /\ UNCHANGED <<vars, lastsync>>

\* Mutant: the time of the write is taken instead of the transaction's.
BatchUpdateNow(s, rec, id) ==
    /\ ~rec.removed
    /\ GetModificationDate(rec) > SyncedOf(s, id)
    /\ Visible(s, id) # None
    /\ Write(s, rec, id, [Visible(s, id) EXCEPT !.synced = clock, !.blob = rec.blob])
    /\ UNCHANGED <<vars, lastsync>>

BatchUpdate(s, rec, id) ==
    /\ ~rec.removed
    /\ GetModificationDate(rec) > SyncedOf(s, id)
    /\ Visible(s, id) # None
    /\ Write(s, rec, id, [Visible(s, id) EXCEPT !.synced = sync[s].at, !.blob = rec.blob])
    /\ UNCHANGED <<vars, lastsync>>

\* The row is gone: a batch goes on without the record, FetchDataset fails.
FailRecord(s, rec, id) ==
    /\ ~rec.removed \/ SyncedOf(s, id) > 0
    /\ Visible(s, id) = None
    /\ sync' = IF Rpc(s) THEN [sync EXCEPT ![s] = SyncIdle]
                         ELSE [sync EXCEPT ![s].recs = @ \ {rec}]
    /\ UNCHANGED <<vars, lastsync>>

\* Mutant: a batch ends at a record it cannot take.
RefuseBatch(s, rec) ==
    /\ Unreadable(rec)
    /\ sync' = [sync EXCEPT ![s] = SyncIdle]
    /\ UNCHANGED <<vars, lastsync>>

\* A batch goes on without a record it cannot take, FetchDataset fails.
RefuseRecord(s, rec) ==
    /\ Unreadable(rec)
    /\ sync' = IF Rpc(s) THEN [sync EXCEPT ![s] = SyncIdle]
                         ELSE [sync EXCEPT ![s].recs = @ \ {rec}]
    /\ UNCHANGED <<vars, lastsync>>

syncRecord(s) ==
    /\ Doing(s, "reading")
    /\ \E rec \in sync[s].recs :
          \/ RefuseRecord(s, rec)
          \/ ~Unreadable(rec) /\ SkipRemoved(s, rec)
          \/ ~Unreadable(rec) /\ CreateWithMetadata(s, rec)
          \/ ~Unreadable(rec) /\ \E id \in RowsFor(s, rec) :
                \/ BatchDelete(s, rec, id)
                \/ UpdateSynced(s, rec, id)
                \/ BatchUpdate(s, rec, id)
                \/ FailRecord(s, rec, id)

Commit(s) ==
    LET writes == sync[s].writes
        kept   == {id \in DOMAIN db \cup DOMAIN writes : Visible(s, id) # None}
    IN /\ Doing(s, "reading")
       /\ sync[s].recs = {}
       /\ db' = [id \in kept |-> Visible(s, id)]
       /\ edited' = {id \in edited \cap kept : db'[id].blob = db[id].blob}
       /\ lastsync' = [lastsync EXCEPT ![sync[s].user] = clock]
       /\ sync' = [sync EXCEPT ![s] = AfterBatch(s)]
       /\ UNCHANGED <<minted, req, late, metaxVars>>

-----------------------------------------------------------------------------
(* The RPC requests: Metax changes a dataset and perhaps makes a new       *)
(* version of it; both are then fetched.                                   *)

\* Mutant: a new version is fetched although Metax reported none.
MetaxRpcUnchecked(s, blob) ==
    /\ PutDataset(blob)
    /\ sync' = [sync EXCEPT ![s].pc = "fetching", ![s].todo = Append(@, None)]

MetaxRpc(s, blob) ==
    \/ /\ PutDataset(blob)
       /\ sync' = [sync EXCEPT ![s].pc = "fetching"]
    \/ \E n \in Idents :
          /\ PutNewVersion(blob, n)
          /\ sync' = [sync EXCEPT ![s].pc = "fetching", ![s].todo = Append(@, n)]

ChangeCumulativeState(s) ==
    /\ Doing(s, "requesting")
    /\ \E cum \in Cums : MetaxRpc(s, [metax[Head(sync[s].todo)].blob EXCEPT !.cum = cum])
    /\ UNCHANGED <<db, minted, req, late, edited, lastsync>>

RefreshDirectoryContent(s) ==
    /\ Doing(s, "requesting")
    /\ MetaxRpc(s, metax[Head(sync[s].todo)].blob)
    /\ UNCHANGED <<db, minted, req, late, edited, lastsync>>

\* FetchDataset reads the record before it begins its batch.
GetId(s) ==
    /\ Doing(s, "fetching")
    /\ Live(Head(sync[s].todo))
    /\ sync' = [sync EXCEPT ![s].pc = "opening", ![s].recs = {metax[Head(sync[s].todo)]}]
    /\ UNCHANGED <<vars, lastsync>>

-----------------------------------------------------------------------------
(* Failures.                                                               *)

\* The sync ends with an error and its transaction is rolled back.
SyncFail(s) ==
    /\ ~Doing(s, "idle")
    /\ \/ "error" \in SyncFaults
       \/ Doing(s, "requesting")
       \/ Doing(s, "fetching") /\ ~Live(Head(sync[s].todo))
    /\ sync' = [sync EXCEPT ![s] = SyncIdle]
    /\ UNCHANGED <<vars, lastsync>>

\* The 15 seconds a batch has to read its records are over: the transaction is
\* rolled back, but the error returned is nil and the sync goes on.
Timeout(s) ==
    /\ "timeout" \in SyncFaults
    /\ Doing(s, "reading") /\ ~Rpc(s)
    /\ sync' = [sync EXCEPT ![s] = AfterBatch(s)]
    /\ UNCHANGED <<vars, lastsync>>

\* Metax's answer breaks off between two records: the loop may take this for the
\* end (AllRead of StreamChannel with an error to take), and the batch is committed.
CutOff(s) ==
    /\ "cut" \in SyncFaults
    /\ Doing(s, "reading") /\ ~Rpc(s)
    /\ sync[s].recs # {}
    /\ sync' = [sync EXCEPT ![s].recs = {}]
    /\ UNCHANGED <<vars, lastsync>>

-----------------------------------------------------------------------------
(* Other services.                                                         *)

CreateInMetax ==
    /\ "create" \in ForeignOps
    /\ \E i \in Idents, u \in Users, rd \in Contents :
          Post(i, [NoBlob EXCEPT !.user = u, !.rd = rd])
    /\ UNCHANGED <<db, minted, req, late, edited>>

RemoveInMetax ==
    /\ "remove" \in ForeignOps
    /\ \E i \in Idents : RemoveDataset(i)
    /\ UNCHANGED <<db, minted, req, late, edited>>

-----------------------------------------------------------------------------
BeginSync(s) == Doing(s, "idle") /\ (Fetch(s) \/ FetchAll(s) \/ GetForRpc(s))

SyncStep(s) ==
    \/ NewBatchForUser(s) \/ ReadStreamChannel(s) \/ getSyncInfo(s)
    \/ syncRecord(s) \/ Commit(s)
    \/ ChangeCumulativeState(s) \/ RefreshDirectoryContent(s) \/ GetId(s)

\* Nobody but these handlers and syncs is active.
OnlyActive(hs, ss) ==
    /\ \A h \in Handlers \ hs : At(h, "idle")
    /\ \A s \in Syncers \ ss : Doing(s, "idle")

\* A handler's statement waits for the batches that hold its row.
Unlocked ==
    \A id \in LockedBy(Syncers) :
        /\ id \in DOMAIN db <=> id \in DOMAIN db'
        /\ id \in DOMAIN db => db'[id] = db[id]

SyncNext ==
    \/ \E h \in Handlers :
          /\ HandlerStep(h) \/ Fail(h)
          /\ Unlocked
          /\ Overlap \/ OnlyActive({h}, {})
          /\ UNCHANGED syncVars
    \/ /\ Crash
       /\ sync' = [s \in Syncers |-> SyncIdle]
       /\ UNCHANGED lastsync
    \/ \E c \in late : LateCall(c) /\ UNCHANGED syncVars
    \/ /\ EditInMetax \/ CreateInMetax \/ RemoveInMetax
       /\ Overlap \/ OnlyActive({}, {})
       /\ UNCHANGED syncVars
    \/ \E s \in Syncers :
          /\ BeginSync(s) \/ SyncStep(s) \/ SyncFail(s) \/ Timeout(s) \/ CutOff(s)
          /\ Overlap \/ OnlyActive({}, {s})

SyncSpec == SyncInit /\ [][SyncNext]_allVars

(* A sync that began goes on: its goroutine runs, PostgreSQL answers, and  *)
(* Metax answers or the request fails.  Users log in and list their        *)
(* datasets again and again, which is when syncs begin.                    *)
FairSyncSpec ==
    /\ SyncSpec
    /\ \A s \in Syncers : /\ WF_allVars(SyncStep(s))
                          /\ WF_allVars(BeginSync(s))

-----------------------------------------------------------------------------
(* Properties.                                                             *)

\* The rows that show a dataset of Metax to a user.
Shows(u, i) == {id \in Owned(db, u) : db[id].blob.ident = i}

UpToDate(id, i) == db[id].blob = metax[i].blob \/ id \in edited

(* A user's lastsync time is a watermark: Fetch will not ask Metax again   *)
(* for what changed before it, so with no sync of the user's running, all  *)
(* of that is in the user's rows, but for the records ToQvain refuses:     *)
(* these are counted as failed, and lastsync is stamped without them.      *)
WatermarkSound ==
    \A u \in {x \in Users : \A s \in Syncers : sync[s].user # x} :
    \A i \in DOMAIN metax \ Refused :
        metax[i].blob.user = u /\ metax[i].blob.date <= lastsync[u] =>
            IF metax[i].removed
            THEN Shows(u, i) = {}
            ELSE \E id \in Shows(u, i) : UpToDate(id, i)

\* A user's rows show what Metax has for the user, and each dataset once, but for
\* the datasets whose records ToQvain refuses.
MirrorsMetax(u) ==
    \A i \in DOMAIN metax \ Refused : metax[i].blob.user = u =>
        IF metax[i].removed
        THEN Shows(u, i) = {}
        ELSE \E id \in Ids : Shows(u, i) = {id} /\ UpToDate(id, i)

(* When FetchAll commits its second batch, the user's rows show what Metax *)
(* has for the user, and each dataset once: the failed records, which the  *)
(* batches are committed without, are those ToQvain refuses and no others. *)
FetchAllMirrors ==
    [][\A s \in Syncers, u \in Users :
        sync[s].user = u /\ sync[s].since = 0 /\ sync[s].removed /\ Commit(s)
            => MirrorsMetax(u)']_allVars

\* Metax has no two datasets made of one row.  It may get two when a publish loses
\* its answer, or is overtaken by another.
OneDataset(id) ==
    \A i, j \in DOMAIN metax : metax[i].blob.rec = id /\ metax[j].blob.rec = id => i = j

(* A sync deletes a row only if its dataset is removed in Metax: records   *)
(* are taken for rows by the row they name or by an old list of the user's *)
(* rows, and the identifier is not compared with the row's when the row is *)
(* deleted.  (If Metax has two datasets of a row, the removal of the one   *)
(* deletes the row of the other.)                                          *)
SyncDropsOnlyRemoved ==
    [][\A s \in Syncers : Commit(s) =>
        \A id \in DOMAIN db \ DOMAIN db' : OneDataset(id) => ~Live(db[id].blob.ident)]_allVars

(* A sync writes rows of its own user only: neither the statements of a    *)
(* batch nor the matching of records to rows look at the owner.            *)
SyncWritesOwnRows ==
    \A s \in Syncers : \A id \in DOMAIN sync[s].writes \cap DOMAIN db :
        db[id].owner = sync[s].user

(* Once nothing changes in Metax any more, the users' rows come to show    *)
(* what Metax has for them, and stay so: a record that ToQvain refuses, in *)
(* every batch again, does not hold up the others.                         *)
EventuallyMirrored == <>[](\A u \in Users : MirrorsMetax(u))
===============================================================================
