---------------------------- MODULE DatasetStore ----------------------------
(***************************************************************************)
(* What the storage layer (internal/psql) promises the handlers and the    *)
(* syncs: each of its operations on the `datasets` table takes effect at   *)
(* once and as a whole, whatever other operations do meanwhile, or not at  *)
(* all.  Publish and Sync take these steps for granted; Transactions shows *)
(* how they come about from single SQL statements.                         *)
(***************************************************************************)
EXTENDS Datasets

CONSTANT Times  \* the times of writes

VARIABLE db     \* the `datasets` table

\* Documents as Metax has them: with an identifier, perhaps with an editor.
MetaxBlob == [rd    : Contents,
              cum   : Cums \cup {None},
              user  : Users,
              rec   : Ids \cup {None},
              ident : Idents,
              date  : Times]

\* The rows of a user's datasets that come from Metax.
RowFromMetax(user) ==
    [owner : {user}, published : {TRUE}, synced : Times, blob : MetaxBlob]

\* What a sync may make of a row.
SyncedRow(row) ==
    [owner : {row.owner}, published : {row.published}, synced : Times,
     blob  : MetaxBlob \cup {row.blob}]

StoreInit == db = [id \in {} |-> None]

Creation ==
    \E id \in Ids \ DOMAIN db, user \in Users, rd \in Contents, cum \in Cums \cup {None} :
        db' = With(db, id, NewRow(user, CreateData(id, user, rd, cum)))

UpdateByOwner ==
    \E user \in Users : \E id \in Owned(db, user), rd \in Contents, cum \in Cums \cup {None} :
        db' = With(db, id, PatchRow(db[id], UpdateData(id, rd, cum)))

Publication ==
    \E id \in DOMAIN db, blob \in MetaxBlob, t \in Times :
        db' = With(db, id, PublishedRow(db[id], blob, t))

NewVersion ==
    \E id \in Ids \ DOMAIN db, user \in Users : \E row \in RowFromMetax(user) :
        db' = With(db, id, row)

DeletionByOwner ==
    \E user \in Users : \E id \in Owned(db, user) : db' = Without(db, id)

\* All of a batch at once: it adds rows of its user, and changes and deletes
\* rows the user owns.
BatchOf(user) ==
    /\ \A id \in DOMAIN db' \ DOMAIN db : id \in Ids /\ db'[id] \in RowFromMetax(user)
    /\ \A id \in DOMAIN db \ DOMAIN db' : db[id].owner = user
    /\ \A id \in DOMAIN db \cap DOMAIN db' :
          db'[id] # db[id] => db[id].owner = user /\ db'[id] \in SyncedRow(db[id])

StoreNext ==
    \/ Creation \/ UpdateByOwner \/ Publication \/ NewVersion \/ DeletionByOwner
    \/ \E user \in Users : BatchOf(user)

StoreSpec == StoreInit /\ [][StoreNext]_db
=============================================================================
