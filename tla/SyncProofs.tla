----------------------------- MODULE SyncProofs -----------------------------
(***************************************************************************)
(* Proofs about whose a dataset is, in Publish and in Sync, for any users, *)
(* datasets, identifiers, handlers and syncs: a published row's dataset in *)
(* Metax has the row's owner, and a sync writes rows of its own user only. *)
(* Neither StorePublished nor the statements of a batch look at the owner. *)
(* And about which row a dataset of Metax was made of: the rows a sync     *)
(* deletes are of datasets that Metax removed.  At last, about what syncs  *)
(* leave behind when nothing overlaps and nothing fails: the user's rows   *)
(* show what Metax has, and lastsync is a watermark.                       *)
(***************************************************************************)
EXTENDS Sync, PublishProofs, SequenceTheorems

-----------------------------------------------------------------------------
(* The inductive invariant.  The owner of an id is settled when the id is  *)
(* made and outlives the row: requests, late calls, answers of Metax and   *)
(* the records of a batch name ids whose rows may be gone.  So the         *)
(* invariant says that there is a function own, from the ids made so far   *)
(* to their owners, that everything in the system agrees with.             *)

\* A document names a user: the one Metax has for its identifier, and the owner
\* of the id in its record_id.
Agrees(own, b) ==
    /\ b.ident # None => b.ident \in DOMAIN metax /\ metax[b.ident].blob.user = b.user
    /\ ~MismatchedBodies /\ b.rec # None => b.rec \in DOMAIN own /\ own[b.rec] = b.user

\* A row is its id's owner's, and so is its document.
RowOwned(own, id, row) ==
    /\ row.owner = own[id]
    /\ row.blob.user = own[id]
    /\ Agrees(own, row.blob)

\* What handler h holds is the user's it serves.
Served(own, h) ==
    /\ ~At(h, "idle") => req[h].id \in DOMAIN own /\ own[req[h].id] = req[h].user
    /\ At(h, "patching") => /\ req[h].blob.ident = None
                            /\ ~MismatchedBodies => req[h].blob.rec = req[h].id
    /\ ~At(h, "patching") => Agrees(own, req[h].blob)
    /\ req[h].pc \in {"storing", "stored", "getting", "landing"} => req[h].blob.user = req[h].user
    /\ req[h].new # None => /\ req[h].new \in DOMAIN metax
                            /\ metax[req[h].new].blob.user = req[h].user

Owners(own) ==
    /\ TypeOK
    /\ MetaxIdents
    /\ own \in [minted -> Users]
    /\ DOMAIN db \subseteq minted
    /\ \A id \in DOMAIN db : RowOwned(own, id, db[id])
    /\ \A i \in DOMAIN metax : Agrees(own, metax[i].blob)
    /\ \A c \in late : Agrees(own, c.blob)
    /\ \A h \in Handlers : Served(own, h)

OwnersKnown == \E own : Owners(own)

\* An id keeps its owner.
Extended(own, own2) == \A id \in DOMAIN own : id \in DOMAIN own2 /\ own2[id] = own[id]

\* Metax keeps the users of its datasets, and every document it has agrees.
MetaxAgrees(own) ==
    /\ MetaxTypeOK' /\ MetaxIdents'
    /\ \A i \in DOMAIN metax : i \in DOMAIN metax' /\ metax'[i].blob.user = metax[i].blob.user
    /\ \A i \in DOMAIN metax' : Agrees(own, metax[i].blob)'

-----------------------------------------------------------------------------
(* What Metax does.                                                        *)

\* A dataset Metax stores under an identifier it has for the same user, or under
\* a fresh one.
LEMMA StoredAgrees ==
    ASSUME NEW own, Owners(own), NEW i \in Idents, NEW rec \in MetaxRecord, Tick,
           rec.blob.ident = i, i \in DOMAIN metax => metax[i].blob.user = rec.blob.user,
           ~MismatchedBodies /\ rec.blob.rec # None =>
               rec.blob.rec \in DOMAIN own /\ own[rec.blob.rec] = rec.blob.user,
           metax' = With(metax, i, rec)
    PROVE  MetaxAgrees(own) /\ i \in DOMAIN metax' /\ metax'[i] = rec
  <1>1. MetaxTypeOK' /\ MetaxIdents'
    BY MetaxWrite DEF Owners, TypeOK, MetaxKept
  <1>2. /\ DOMAIN metax' = DOMAIN metax \cup {i} /\ metax'[i] = rec
        /\ \A k \in DOMAIN metax \ {i} : metax'[k] = metax[k]
    BY DEF With
  <1>3. \A k \in DOMAIN metax' : Agrees(own, metax[k].blob)'
    BY <1>2 DEF Owners, MetaxIdents, Agrees
  <1> QED BY <1>1, <1>2, <1>3 DEF MetaxAgrees

LEMMA PostAgrees ==
    ASSUME NEW own, Owners(own), NEW i \in Idents, NEW blob \in Blob, Agrees(own, blob),
           Post(i, blob)
    PROVE  MetaxAgrees(own) /\ i \in DOMAIN metax' /\ metax'[i].blob.user = blob.user
  <1>1. clock \in Nat
    BY DEF Owners, TypeOK, MetaxTypeOK
  <1>2. Stored(i, blob) \in MetaxRecord /\ Stored(i, blob).blob.ident = i
    BY <1>1, StoredRecord
  <1>3. Stored(i, blob).blob.user = blob.user /\ Stored(i, blob).blob.rec = blob.rec
    BY DEF Stored, Blob
  <1> QED BY <1>2, <1>3, StoredAgrees DEF Post, Agrees

LEMMA PutAgrees ==
    ASSUME NEW own, Owners(own), NEW blob \in Blob, Agrees(own, blob), PutDataset(blob)
    PROVE  /\ MetaxAgrees(own)
           /\ blob.ident \in DOMAIN metax' /\ metax'[blob.ident].blob.user = blob.user
  <1>1. /\ clock \in Nat /\ blob.ident \in DOMAIN metax /\ blob.ident \in Idents
        /\ blob.ident # None
    BY NoneAssumption DEF Owners, TypeOK, MetaxTypeOK, PutDataset, Live
  <1>2. Stored(blob.ident, blob) \in MetaxRecord /\ Stored(blob.ident, blob).blob.ident = blob.ident
    BY <1>1, StoredRecord
  <1>3. /\ Stored(blob.ident, blob).blob.user = blob.user
        /\ Stored(blob.ident, blob).blob.rec = blob.rec
    BY DEF Stored, Blob
  <1> QED BY <1>1, <1>2, <1>3, StoredAgrees DEF PutDataset, Agrees

\* A new version is its dataset's user's, and names no row.
LEMMA PutVersionAgrees ==
    ASSUME NEW own, Owners(own), NEW n \in Idents, NEW blob \in Blob, Agrees(own, blob),
           PutNewVersion(blob, n)
    PROVE  /\ MetaxAgrees(own)
           /\ blob.ident \in DOMAIN metax' /\ metax'[blob.ident].blob.user = blob.user
           /\ n \in DOMAIN metax' /\ metax'[n].blob.user = blob.user
  <1> DEFINE version == [blob EXCEPT !.rec = None]
             first   == Stored(blob.ident, blob)
             second  == Stored(n, version)
  <1>1. /\ clock \in Nat /\ blob.ident \in DOMAIN metax /\ blob.ident \in Idents
        /\ blob.ident # None /\ n \notin DOMAIN metax
    BY NoneAssumption DEF Owners, TypeOK, MetaxTypeOK, PutNewVersion, Live
  <1>2. MetaxTypeOK' /\ MetaxIdents'
    BY PutVersionKeeps DEF Owners, TypeOK, MetaxKept
  <1>3. first.blob.user = blob.user /\ first.blob.rec = blob.rec /\ first.blob.ident = blob.ident
    BY DEF Stored, Blob
  <1>4. second.blob.user = blob.user /\ second.blob.rec = None /\ second.blob.ident = n
    BY DEF Stored, Blob
  <1>5. metax' = With(With(metax, blob.ident, first), n, second)
    BY DEF PutNewVersion
  <1> HIDE DEF first, second
  <1>6. /\ DOMAIN metax' = DOMAIN metax \cup {blob.ident, n}
        /\ metax'[n] = second /\ metax'[blob.ident] = first
        /\ \A k \in DOMAIN metax \ {blob.ident} : metax'[k] = metax[k]
    BY <1>1, <1>5 DEF With
  <1>7. \A k \in DOMAIN metax' : Agrees(own, metax[k].blob)'
    BY <1>1, <1>3, <1>4, <1>6 DEF Owners, MetaxIdents, Agrees
  <1> QED BY <1>1, <1>2, <1>3, <1>4, <1>6, <1>7 DEF MetaxAgrees, Agrees

LEMMA RemoveAgrees ==
    ASSUME NEW own, Owners(own), NEW i, RemoveDataset(i)
    PROVE  MetaxAgrees(own)
  <1> DEFINE doc == [metax[i].blob EXCEPT !.date = clock + 1]
             rec == [blob |-> doc, removed |-> TRUE]
  <1>1. i \in DOMAIN metax /\ i \in Idents /\ metax[i].blob \in Blob /\ clock + 1 \in Nat
    BY DEF Owners, TypeOK, MetaxTypeOK, MetaxRecord, RemoveDataset, Live
  <1>2. /\ doc \in Blob /\ doc.ident = i /\ doc.user = metax[i].blob.user
        /\ doc.rec = metax[i].blob.rec
    BY <1>1 DEF Blob, Owners, MetaxIdents
  <1>3. metax' = With(metax, i, rec) /\ Tick
    BY DEF RemoveDataset
  <1> HIDE DEF doc
  <1>4. rec \in MetaxRecord /\ rec.blob = doc
    BY <1>2 DEF MetaxRecord
  <1>5. Agrees(own, metax[i].blob)
    BY <1>1 DEF Owners
  <1> HIDE DEF rec
  <1> QED BY <1>1, <1>2, <1>3, <1>4, <1>5, StoredAgrees DEF Agrees

LEMMA EditAgrees ==
    ASSUME NEW own, Owners(own), NEW i \in Idents, NEW rd \in Contents, ForeignEdit(i, rd)
    PROVE  MetaxAgrees(own)
  <1> DEFINE doc == [metax[i].blob EXCEPT !.rd = rd]
  <1>1. i \in DOMAIN metax /\ metax[i].blob \in Blob /\ clock \in Nat
    BY DEF Owners, TypeOK, MetaxTypeOK, MetaxRecord, ForeignEdit, Live
  <1>2. doc \in Blob /\ doc.user = metax[i].blob.user /\ doc.rec = metax[i].blob.rec
    BY <1>1 DEF Blob
  <1>3. metax' = With(metax, i, Stored(i, doc)) /\ Tick
    BY DEF ForeignEdit
  <1> HIDE DEF doc
  <1>4. Stored(i, doc) \in MetaxRecord /\ Stored(i, doc).blob.ident = i
    BY <1>1, <1>2, StoredRecord
  <1>5. Stored(i, doc).blob.user = doc.user /\ Stored(i, doc).blob.rec = doc.rec
    BY <1>2 DEF Stored, Blob
  <1>6. Agrees(own, metax[i].blob)
    BY <1>1 DEF Owners
  <1> QED BY <1>1, <1>2, <1>3, <1>4, <1>5, <1>6, StoredAgrees DEF Agrees

LEMMA MetaxUnchanged ==
    ASSUME NEW own, Owners(own), UNCHANGED metaxVars
    PROVE  MetaxAgrees(own)
  BY DEF Owners, MetaxAgrees, TypeOK, MetaxTypeOK, MetaxIdents, Agrees, metaxVars

-----------------------------------------------------------------------------
(* Steps of the request handlers.                                          *)

\* Documents go on agreeing when Metax changes and ids are made.
LEMMA GoesOnAgreeing ==
    ASSUME NEW own, NEW own2, MetaxAgrees(own), Extended(own, own2), NEW b, Agrees(own, b)
    PROVE  Agrees(own2, b)'
  BY DEF Agrees, MetaxAgrees, Extended

\* What handler h held it may hold.
LEMMA GoesOnServing ==
    ASSUME NEW own, NEW own2, MetaxAgrees(own), Extended(own, own2),
           NEW h \in Handlers, Served(own, h), req'[h] = req[h]
    PROVE  Served(own2, h)'
  <1>1. ~At(h, "patching") => Agrees(own2, req[h].blob)'
    BY GoesOnAgreeing DEF Served, At, Agrees, MetaxAgrees, Extended
  <1> QED BY <1>1 DEF Served, At, MetaxAgrees, Extended

\* A step that extends the owners: it accounts for the rows it writes, the calls
\* it leaves behind and the state of its handlers.
LEMMA OwnersStep ==
    ASSUME NEW own, NEW own2, Owners(own), own2 \in [minted' -> Users], Extended(own, own2),
           MetaxAgrees(own), IsTable(db)', minted' \subseteq Ids, edited' \subseteq Ids,
           req' \in [Handlers -> Req], late' \subseteq Call, DOMAIN db' \subseteq minted',
           \A id \in DOMAIN db' : \/ id \in DOMAIN db /\ db'[id] = db[id]
                                  \/ RowOwned(own2, id, db[id])',
           \A c \in late' : c \in late \/ Agrees(own, c.blob),
           \A h \in Handlers : req'[h] = req[h] \/ Served(own2, h)'
    PROVE  Owners(own2)'
  <1>1. TypeOK' /\ MetaxIdents'
    BY DEF TypeOK, MetaxAgrees
  <1>2. ASSUME NEW id \in DOMAIN db'
        PROVE  RowOwned(own2, id, db[id])'
    <2>1. CASE id \in DOMAIN db /\ db'[id] = db[id]
      BY <2>1 DEF Owners, RowOwned, Agrees, MetaxAgrees, Extended
    <2> QED BY <1>2, <2>1
  <1>3. ASSUME NEW i \in DOMAIN metax'
        PROVE  Agrees(own2, metax[i].blob)'
    BY <1>3 DEF MetaxAgrees, Agrees, Extended
  <1>4. ASSUME NEW c \in late'
        PROVE  Agrees(own2, c.blob)'
    BY <1>4, GoesOnAgreeing DEF Owners
  <1>5. ASSUME NEW h \in Handlers
        PROVE  Served(own2, h)'
    BY GoesOnServing DEF Owners
  <1> QED BY <1>1, <1>2, <1>3, <1>4, <1>5 DEF Owners

\* A step that makes no id: the owners stay.
LEMMA SameOwnersStep ==
    ASSUME NEW own, Owners(own), UNCHANGED minted,
           MetaxAgrees(own), IsTable(db)', edited' \subseteq Ids,
           req' \in [Handlers -> Req], late' \subseteq Call, DOMAIN db' \subseteq minted,
           \A id \in DOMAIN db' : \/ id \in DOMAIN db /\ db'[id] = db[id]
                                  \/ RowOwned(own, id, db[id])',
           \A c \in late' : c \in late \/ Agrees(own, c.blob),
           \A h \in Handlers : req'[h] = req[h] \/ Served(own, h)'
    PROVE  Owners(own)'
  <1>1. own \in [minted' -> Users] /\ Extended(own, own) /\ minted' \subseteq Ids
    BY DEF Owners, TypeOK, Extended
  <1> QED BY <1>1, OwnersStep

\* A step of handler h that writes no row.
LEMMA RequestStep ==
    ASSUME NEW own, Owners(own), NEW h \in Handlers, Others(h), req' \in [Handlers -> Req],
           UNCHANGED <<db, minted, late, edited>>, MetaxAgrees(own), Served(own, h)'
    PROVE  Owners(own)'
  <1>1. /\ IsTable(db)' /\ edited' \subseteq Ids /\ late' \subseteq Call
        /\ DOMAIN db' \subseteq minted
    BY DEF Owners, TypeOK, IsTable
  <1>2. \A k \in Handlers : req'[k] = req[k] \/ Served(own, k)'
    BY DEF Others
  <1> QED BY <1>1, <1>2, SameOwnersStep

\* What a step of handler h that only reads leaves as it is.
LEMMA ReadingStep ==
    ASSUME NEW own, Owners(own), NEW h \in Handlers, Others(h), req' \in [Handlers -> Req],
           UNCHANGED <<db, minted, late, edited, metaxVars>>, Served(own, h)'
    PROVE  Owners(own)'
  <1>1. MetaxAgrees(own)
    BY MetaxUnchanged
  <1> QED BY <1>1, RequestStep

\* A request that ends holds nothing.
LEMMA IdleServed ==
    ASSUME NEW own, NEW h \in Handlers, req'[h] = Idle
    PROVE  Served(own, h)'
  <1>1. req'[h].pc = "idle" /\ req'[h].new = None /\ req'[h].blob = NoBlob
    BY DEF Idle
  <1>2. NoBlob.ident = None /\ NoBlob.rec = None
    BY DEF NoBlob
  <1> QED BY <1>1, <1>2 DEF Served, At, Agrees

LEMMA ValidateUpdateOwned ==
    ASSUME NEW own, Owners(own), NEW h \in Handlers, ValidateUpdate(h)
    PROVE  Owners(own)'
  <1>1. PICK user \in Users, id \in DOMAIN db, bodyId \in Ids, rd \in Contents,
             cum \in Cums \cup {None} :
          /\ db[id].owner = user
          /\ ~MismatchedBodies => bodyId = id
          /\ Begin(h, "patching", user, id, UpdateData(bodyId, rd, cum))
    BY DEF ValidateUpdate, Owned, Owners, TypeOK, IsTable
  <1> DEFINE blob == UpdateData(bodyId, rd, cum)
  <1>2. blob \in Blob
    BY InputBlobs
  <1>3. blob.ident = None /\ blob.rec = bodyId
    BY DEF UpdateData, NoBlob
  <1>4. id \in DOMAIN own /\ own[id] = user /\ id \in Ids
    BY <1>1 DEF Owners, RowOwned, TypeOK, IsTable
  <1> HIDE DEF blob
  <1>5. /\ Others(h) /\ req' \in [Handlers -> Req]
        /\ req'[h] = [pc |-> "patching", user |-> user, id |-> id, blob |-> blob, new |-> None]
    BY <1>1, <1>2, <1>4 DEF Begin, Others, Owners, TypeOK, Req, PCs, blob
  <1>6. Served(own, h)'
    BY <1>1, <1>3, <1>4, <1>5 DEF Served, At
  <1>7. UNCHANGED <<db, minted, late, edited, metaxVars>>
    BY DEF ValidateUpdate
  <1> QED BY <1>5, <1>6, <1>7, ReadingStep

LEMMA GetForPublishOwned ==
    ASSUME NEW own, Owners(own), NEW h \in Handlers, GetForPublish(h)
    PROVE  Owners(own)'
  <1>1. PICK user \in Users, id \in DOMAIN db :
          db[id].owner = user /\ Begin(h, "storing", user, id, db[id].blob)
    BY DEF GetForPublish, Owned
  <1>2. /\ id \in DOMAIN own /\ own[id] = user /\ db[id].blob.user = user
        /\ Agrees(own, db[id].blob) /\ id \in Ids /\ db[id].blob \in Blob
    BY <1>1 DEF Owners, RowOwned, TypeOK, IsTable, Row
  <1>3. /\ Others(h) /\ req' \in [Handlers -> Req]
        /\ req'[h] = [pc |-> "storing", user |-> user, id |-> id, blob |-> db[id].blob, new |-> None]
    BY <1>1, <1>2 DEF Begin, Others, Owners, TypeOK, Req, PCs
  <1>4. Served(own, h)'
    BY <1>2, <1>3 DEF Served, At, Agrees, GetForPublish, metaxVars
  <1>5. UNCHANGED <<db, minted, late, edited, metaxVars>>
    BY DEF GetForPublish
  <1> QED BY <1>3, <1>4, <1>5, ReadingStep

LEMMA GetForDeleteOwned ==
    ASSUME NEW own, Owners(own), NEW h \in Handlers, GetForDelete(h)
    PROVE  Owners(own)'
  <1>1. PICK user \in Users, id \in DOMAIN db, pc \in {"unlisting", "deleting"} :
          db[id].owner = user /\ Begin(h, pc, user, id, NoBlob)
    BY DEF GetForDelete, Owned
  <1>2. id \in DOMAIN own /\ own[id] = user /\ id \in Ids
    BY <1>1 DEF Owners, RowOwned, TypeOK, IsTable
  <1>3. NoBlob \in Blob /\ NoBlob.ident = None /\ NoBlob.rec = None
    BY DEF NoBlob, Blob
  <1>4. /\ Others(h) /\ req' \in [Handlers -> Req]
        /\ req'[h] = [pc |-> pc, user |-> user, id |-> id, blob |-> NoBlob, new |-> None]
    BY <1>1, <1>2, <1>3 DEF Begin, Others, Owners, TypeOK, Req, PCs
  <1>5. Served(own, h)'
    BY <1>2, <1>3, <1>4 DEF Served, At, Agrees
  <1>6. UNCHANGED <<db, minted, late, edited, metaxVars>>
    BY DEF GetForDelete
  <1> QED BY <1>4, <1>5, <1>6, ReadingStep

LEMMA GetForUnpublishOwned ==
    ASSUME NEW own, Owners(own), NEW h \in Handlers, GetForUnpublish(h)
    PROVE  Owners(own)'
  <1> DEFINE id == req[h].id
  <1>1. id \in DOMAIN db /\ db[id].blob \in Blob /\ Agrees(own, db[id].blob)
    BY DEF GetForUnpublish, Owned, Owners, RowOwned, TypeOK, IsTable, Row
  <1>2. /\ Others(h) /\ req' \in [Handlers -> Req]
        /\ req'[h].pc = "removing" /\ req'[h].id = id
        /\ req'[h].blob = db[id].blob /\ req'[h].new = None /\ req'[h].user = req[h].user
    <2>1. TypeOK /\ "removing" \in PCs /\ Answered(h, "removing", db[id].blob, None)
      BY DEF GetForUnpublish, Owners, PCs
    <2> QED BY <1>1, <2>1, IsAnswered
  <1>3. Served(own, h) /\ At(h, "unlisting")
    BY DEF Owners, GetForUnpublish
  <1>4. Served(own, h)'
    BY <1>1, <1>2, <1>3 DEF Served, At, Agrees, GetForUnpublish, metaxVars
  <1>5. UNCHANGED <<db, minted, late, edited, metaxVars>>
    BY DEF GetForUnpublish
  <1> QED BY <1>2, <1>4, <1>5, ReadingStep

\* The new version is the user's, as Metax has it.
LEMMA GetNewVersionOwned ==
    ASSUME NEW own, Owners(own), NEW h \in Handlers, GetNewVersion(h)
    PROVE  Owners(own)'
  <1> DEFINE n == req[h].new
  <1>1. n \in DOMAIN metax /\ metax[n].blob \in Blob /\ Agrees(own, metax[n].blob) /\ n # None
    BY NoneAssumption DEF GetNewVersion, Live, Owners, TypeOK, MetaxTypeOK, MetaxRecord
  <1>2. Served(own, h) /\ At(h, "getting")
    BY DEF Owners, GetNewVersion
  <1>3. metax[n].blob.user = req[h].user
    BY <1>1, <1>2 DEF Served
  <1>4. /\ Others(h) /\ req' \in [Handlers -> Req]
        /\ req'[h].pc = "landing" /\ req'[h].id = req[h].id
        /\ req'[h].blob = metax[n].blob /\ req'[h].new = n /\ req'[h].user = req[h].user
    <2>1. /\ TypeOK /\ "landing" \in PCs /\ Answered(h, "landing", metax[n].blob, n)
          /\ n \in Idents \cup {None}
      BY <1>1 DEF GetNewVersion, Owners, PCs, TypeOK, MetaxTypeOK
    <2> QED BY <1>1, <2>1, IsAnswered
  <1>5. Served(own, h)'
    BY <1>1, <1>2, <1>3, <1>4 DEF Served, At, Agrees, GetNewVersion, metaxVars
  <1>6. UNCHANGED <<db, minted, late, edited, metaxVars>>
    BY DEF GetNewVersion
  <1> QED BY <1>4, <1>5, <1>6, ReadingStep

\* Metax's answer to a publish: the document it was given, for the same user, and
\* perhaps a new version of it.
LEMMA StoreOwned ==
    ASSUME NEW own, Owners(own), NEW h \in Handlers, At(h, "storing"), MetaxAgrees(own),
           NEW i \in Idents, i \in DOMAIN metax', metax'[i].blob.user = req[h].blob.user,
           NEW n \in Idents \cup {None},
           n # None => n \in DOMAIN metax' /\ metax'[n].blob.user = req[h].blob.user,
           Answered(h, "stored", metax'[i].blob, n), UNCHANGED <<db, minted, late, edited>>
    PROVE  Owners(own)'
  <1>1. metax'[i].blob \in Blob /\ Agrees(own, metax[i].blob)'
    BY DEF MetaxAgrees, MetaxTypeOK, MetaxRecord
  <1>2. /\ Others(h) /\ req' \in [Handlers -> Req]
        /\ req'[h].pc = "stored" /\ req'[h].id = req[h].id
        /\ req'[h].blob = metax'[i].blob /\ req'[h].new = n /\ req'[h].user = req[h].user
    <2>1. TypeOK /\ "stored" \in PCs
      BY DEF Owners, PCs
    <2> QED BY <1>1, <2>1, IsAnswered
  <1>3. Served(own, h)
    BY DEF Owners
  <1>4. Served(own, h)'
    BY <1>1, <1>2, <1>3 DEF Served, At, Agrees
  <1> QED BY <1>2, <1>4, RequestStep

LEMMA StoringStepOwned ==
    ASSUME NEW own, Owners(own), NEW h \in Handlers,
           StoreCreated(h) \/ StoreUpdated(h) \/ StoreMadeVersion(h)
    PROVE  Owners(own)'
  <1> DEFINE blob == req[h].blob
  <1>1. blob \in Blob /\ Agrees(own, blob)
    BY DEF Owners, TypeOK, Req, Served, At, StoreCreated, StoreUpdated, StoreMadeVersion
  <1>2. CASE StoreCreated(h)
    <2>1. PICK i \in Idents : Post(i, blob) /\ Answered(h, "stored", metax'[i].blob, None)
      BY <1>2 DEF StoreCreated
    <2>2. MetaxAgrees(own) /\ i \in DOMAIN metax' /\ metax'[i].blob.user = blob.user
      BY <1>1, <2>1, PostAgrees
    <2> QED BY <1>2, <2>1, <2>2, StoreOwned DEF StoreCreated
  <1>3. CASE StoreUpdated(h)
    <2>1. /\ MetaxAgrees(own)
          /\ blob.ident \in DOMAIN metax' /\ metax'[blob.ident].blob.user = blob.user
      BY <1>1, <1>3, PutAgrees DEF StoreUpdated
    <2>2. blob.ident \in Idents
      BY <2>1 DEF MetaxAgrees, MetaxTypeOK
    <2> QED BY <1>3, <2>1, <2>2, StoreOwned DEF StoreUpdated
  <1>4. CASE StoreMadeVersion(h)
    <2>1. PICK n \in Idents : /\ PutNewVersion(blob, n)
                              /\ Answered(h, "stored", metax'[blob.ident].blob, n)
      BY <1>4 DEF StoreMadeVersion
    <2>2. /\ MetaxAgrees(own)
          /\ blob.ident \in DOMAIN metax' /\ metax'[blob.ident].blob.user = blob.user
          /\ n \in DOMAIN metax' /\ metax'[n].blob.user = blob.user
      BY <1>1, <2>1, PutVersionAgrees
    <2>3. blob.ident \in Idents
      BY <2>2 DEF MetaxAgrees, MetaxTypeOK
    <2> QED BY <1>4, <2>1, <2>2, <2>3, StoreOwned DEF StoreMadeVersion
  <1> QED BY <1>2, <1>3, <1>4

LEMMA DeleteInMetaxOwned ==
    ASSUME NEW own, Owners(own), NEW h \in Handlers, DeleteInMetax(h)
    PROVE  Owners(own)'
  <1>1. MetaxAgrees(own)
    BY RemoveAgrees DEF DeleteInMetax
  <1>2. /\ Others(h) /\ req' \in [Handlers -> Req]
        /\ req'[h].pc = "deleting" /\ req'[h].id = req[h].id
        /\ req'[h].blob = req[h].blob /\ req'[h].new = req[h].new
    BY Goes DEF DeleteInMetax, Owners, PCs
  <1>3. req'[h].user = req[h].user
    <2>1. req[h] \in Req /\ req' = [req EXCEPT ![h].pc = "deleting"]
      BY DEF DeleteInMetax, Goto, Owners, TypeOK
    <2>2. req'[h] = [req[h] EXCEPT !.pc = "deleting"]
      BY <2>1 DEF Owners, TypeOK
    <2> QED BY <2>1, <2>2 DEF Req
  <1>4. Served(own, h) /\ At(h, "removing")
    BY DEF Owners, DeleteInMetax
  <1>5. Served(own, h)'
    BY <1>1, <1>2, <1>3, <1>4 DEF Served, At, Agrees, MetaxAgrees
  <1> QED BY <1>1, <1>2, <1>5, RequestStep DEF DeleteInMetax

\* The calls a request leaves behind.
LEMMA OutstandingAgrees ==
    ASSUME NEW own, Owners(own), NEW h \in Handlers, NEW c \in Outstanding(h)
    PROVE  c \in Call /\ Agrees(own, c.blob)
  <1>1. req[h].blob \in Blob /\ Served(own, h)
    BY DEF Owners, TypeOK, Req
  <1>2. /\ At(h, "storing") \/ At(h, "removing")
        /\ \/ c = [op |-> "store", blob |-> req[h].blob]
           \/ c = [op |-> "remove", blob |-> req[h].blob]
    BY DEF Outstanding, At
  <1> QED BY <1>1, <1>2 DEF Served, At, Call

LEMMA FailOwned ==
    ASSUME NEW own, Owners(own), NEW h \in Handlers, Fail(h)
    PROVE  Owners(own)'
  <1>1. Others(h) /\ req' \in [Handlers -> Req] /\ req'[h] = Idle
    BY Ends DEF Fail, Owners
  <1>2. \A k \in Handlers : req'[k] = req[k] \/ Served(own, k)'
    BY <1>1, IdleServed DEF Others
  <1>3. late' \subseteq Call /\ \A c \in late' : c \in late \/ Agrees(own, c.blob)
    BY OutstandingAgrees DEF Fail, LeftBehind, Owners, TypeOK
  <1>4. IsTable(db)' /\ edited' \subseteq Ids /\ DOMAIN db' \subseteq minted
    BY DEF Fail, Owners, TypeOK, IsTable
  <1> QED BY <1>1, <1>2, <1>3, <1>4, MetaxUnchanged, SameOwnersStep DEF Fail

LEMMA CrashOwned ==
    ASSUME NEW own, Owners(own), Crash
    PROVE  Owners(own)'
  <1>1. req' = [h \in Handlers |-> Idle] /\ Idle \in Req
    BY DEF Crash, Idle, Req, PCs, NoBlob, Blob
  <1>2. \A k \in Handlers : req'[k] = req[k] \/ Served(own, k)'
    BY <1>1, IdleServed
  <1>3. late' \subseteq Call /\ \A c \in late' : c \in late \/ Agrees(own, c.blob)
    BY OutstandingAgrees DEF Crash, LeftBehind, Owners, TypeOK
  <1>4. IsTable(db)' /\ edited' \subseteq Ids /\ DOMAIN db' \subseteq minted
    BY DEF Crash, Owners, TypeOK, IsTable
  <1> QED BY <1>1, <1>2, <1>3, <1>4, MetaxUnchanged, SameOwnersStep DEF Crash

\* A change in Metax that no handler waits for.
LEMMA OutsideOwned ==
    ASSUME NEW own, Owners(own), MetaxAgrees(own), UNCHANGED <<db, minted, req, edited>>,
           late' \subseteq late
    PROVE  Owners(own)'
  <1>1. /\ IsTable(db)' /\ edited' \subseteq Ids /\ late' \subseteq Call
        /\ DOMAIN db' \subseteq minted /\ req' \in [Handlers -> Req]
    BY DEF Owners, TypeOK, IsTable
  <1> QED BY <1>1, SameOwnersStep

LEMMA LateCallAgrees ==
    ASSUME NEW own, Owners(own), NEW c \in late, LateCall(c)
    PROVE  MetaxAgrees(own)
  <1>1. c.blob \in Blob /\ Agrees(own, c.blob)
    BY DEF Owners, TypeOK, Call
  <1> QED BY <1>1, PostAgrees, PutAgrees, PutVersionAgrees, RemoveAgrees DEF LateCall

LEMMA EditInMetaxAgrees ==
    ASSUME NEW own, Owners(own), EditInMetax
    PROVE  MetaxAgrees(own)
  BY EditAgrees DEF EditInMetax

\* A step of handler h that writes one row, of its user or as it finds it.
LEMMA RowStepOwned ==
    ASSUME NEW own, Owners(own), NEW h \in Handlers, Others(h), req' \in [Handlers -> Req],
           NEW id \in DOMAIN db, NEW row \in Row, RowOwned(own, id, row),
           db' = With(db, id, row), edited' \subseteq Ids, UNCHANGED <<minted, late, metaxVars>>,
           Served(own, h)'
    PROVE  Owners(own)'
  <1>1. id \in Ids /\ IsTable(db)
    BY DEF Owners, TypeOK, IsTable
  <1>2. IsTable(db')
    BY <1>1, WithIsTable
  <1>3. IsTable(db)'
    BY <1>2 DEF IsTable
  <1>4. /\ DOMAIN db' = DOMAIN db /\ db'[id] = row
        /\ \A a \in DOMAIN db \ {id} : db'[a] = db[a]
    BY DEF With
  <1>5. RowOwned(own, id, db[id])'
    BY <1>4 DEF RowOwned, Agrees, metaxVars
  <1>6. late' \subseteq Call /\ DOMAIN db' \subseteq minted
    BY <1>4 DEF Owners, TypeOK
  <1>7. \A k \in Handlers : req'[k] = req[k] \/ Served(own, k)'
    BY DEF Others
  <1> QED BY <1>3, <1>4, <1>5, <1>6, <1>7, MetaxUnchanged, SameOwnersStep

LEMMA SmartUpdateOwned ==
    ASSUME NEW own, Owners(own), NEW h \in Handlers, SmartUpdateWithOwner(h)
    PROVE  Owners(own)'
  <1> DEFINE id  == req[h].id
             doc == MergeBlob(db[id].blob, req[h].blob)
             row == PatchRow(db[id], req[h].blob)
  <1>1. /\ id \in DOMAIN db /\ db[id] \in Row /\ req[h].blob \in Blob
        /\ RowOwned(own, id, db[id]) /\ id \in DOMAIN own
        /\ Served(own, h) /\ At(h, "patching")
    BY DEF SmartUpdateWithOwner, Owned, Owners, TypeOK, IsTable, Req
  <1>2. db[id].blob \in Blob
    BY <1>1 DEF Row
  <1>3. doc \in Blob /\ doc.ident = db[id].blob.ident
    BY <1>1, <1>2, MergedBlob
  <1>4. doc.user = db[id].blob.user /\ doc.rec = req[h].blob.rec
    BY <1>2 DEF MergeBlob, Blob
  <1> HIDE DEF doc
  <1>5. row \in Row /\ row.owner = db[id].owner /\ row.blob = doc
    BY <1>1, <1>3 DEF PatchRow, Row, doc
  <1>6. RowOwned(own, id, row)
    BY <1>1, <1>3, <1>4, <1>5 DEF RowOwned, Agrees, Served
  <1>7. Others(h) /\ req' \in [Handlers -> Req] /\ req'[h] = Idle
    BY Ends DEF SmartUpdateWithOwner, Owners
  <1>8. edited' \subseteq Ids
    BY <1>1 DEF SmartUpdateWithOwner, Owners, TypeOK, IsTable
  <1> HIDE DEF row
  <1>9. db' = With(db, id, row) /\ UNCHANGED <<minted, late, metaxVars>>
    BY DEF SmartUpdateWithOwner, row
  <1> QED BY <1>1, <1>5, <1>6, <1>7, <1>8, <1>9, IdleServed, RowStepOwned

\* StorePublished does not look at the owner: the row, if it is still there, is
\* the user's whose document Metax answered with.
LEMMA StorePublishedOwned ==
    ASSUME NEW own, Owners(own), NEW h \in Handlers, StorePublished(h)
    PROVE  Owners(own)'
  <1> DEFINE id  == req[h].id
             row == PublishedRow(db[id], req[h].blob, req[h].blob.date)
  <1>1. /\ id \in DOMAIN db /\ db[id] \in Row /\ req[h] \in Req
        /\ RowOwned(own, id, db[id]) /\ Served(own, h) /\ At(h, "stored")
    BY DEF StorePublished, Owners, TypeOK, IsTable
  <1>2. req[h].blob \in Blob /\ req[h].blob.date \in Nat
    BY <1>1 DEF Req, Blob
  <1>3. row \in Row /\ row.owner = db[id].owner /\ row.blob = req[h].blob
    BY <1>1, <1>2 DEF PublishedRow, Row
  <1>4. /\ req[h].blob.user = req[h].user /\ own[id] = req[h].user
        /\ Agrees(own, req[h].blob)
    BY <1>1 DEF Served, At
  <1>5. RowOwned(own, id, row)
    BY <1>1, <1>3, <1>4 DEF RowOwned
  <1>6. Others(h) /\ req' \in [Handlers -> Req] /\ Served(own, h)'
    <2>1. CASE req[h].new = None
      BY <2>1, Ends, IdleServed DEF StorePublished, Owners
    <2>2. CASE req[h].new # None
      <3>1. /\ Others(h) /\ req' \in [Handlers -> Req]
            /\ req'[h] = [req[h] EXCEPT !.pc = "getting"]
        BY <2>2 DEF StorePublished, Goto, Others, Owners, TypeOK, Req, PCs
      <3>2. /\ req'[h].pc = "getting" /\ req'[h].id = req[h].id /\ req'[h].user = req[h].user
            /\ req'[h].blob = req[h].blob /\ req'[h].new = req[h].new
        BY <1>1, <3>1 DEF Req
      <3> QED BY <1>1, <3>1, <3>2 DEF Served, At, Agrees, StorePublished, metaxVars
    <2> QED BY <2>1, <2>2
  <1>7. edited' \subseteq Ids
    BY DEF StorePublished, Owners, TypeOK
  <1> HIDE DEF row
  <1>8. db' = With(db, id, row) /\ UNCHANGED <<minted, late, metaxVars>>
    BY DEF StorePublished, row
  <1> QED BY <1>1, <1>3, <1>5, <1>6, <1>7, <1>8, RowStepOwned

LEMMA DeleteOwned ==
    ASSUME NEW own, Owners(own), NEW h \in Handlers, Delete(h)
    PROVE  Owners(own)'
  <1>1. IsTable(Without(db, req[h].id))
    BY WithoutIsTable DEF Owners, TypeOK
  <1>2. IsTable(db)'
    BY <1>1 DEF Delete, IsTable
  <1>3. DOMAIN db' \subseteq DOMAIN db /\ \A a \in DOMAIN db' : db'[a] = db[a]
    BY DEF Delete, Without
  <1>4. Others(h) /\ req' \in [Handlers -> Req] /\ req'[h] = Idle
    BY Ends DEF Delete, Owners
  <1>5. \A k \in Handlers : req'[k] = req[k] \/ Served(own, k)'
    BY <1>4, IdleServed DEF Others
  <1>6. edited' \subseteq Ids /\ late' \subseteq Call /\ DOMAIN db' \subseteq minted
    BY <1>3 DEF Delete, Owners, TypeOK
  <1> QED BY <1>2, <1>3, <1>4, <1>5, <1>6, MetaxUnchanged, SameOwnersStep DEF Delete

\* A row under a fresh id gives the id its owner.
LEMMA NewRowOwned ==
    ASSUME NEW own, Owners(own), NEW h \in Handlers, Others(h), req' \in [Handlers -> Req],
           NEW id \in Ids \ minted, NEW user \in Users, NEW row \in Row,
           row.owner = user, row.blob.user = user, Agrees(With(own, id, user), row.blob),
           db' = With(db, id, row), minted' = minted \cup {id},
           UNCHANGED <<edited, late, metaxVars>>,
           req'[h] = req[h] \/ req'[h] = Idle
    PROVE  Owners(With(own, id, user))' /\ Extended(own, With(own, id, user))
  <1> DEFINE own2 == With(own, id, user)
  <1>1. /\ own2 \in [minted' -> Users] /\ Extended(own, own2) /\ own2[id] = user
    BY DEF With, Owners, Extended
  <1>2. IsTable(With(db, id, row))
    BY WithIsTable DEF Owners, TypeOK
  <1>3. IsTable(db)'
    BY <1>2 DEF IsTable
  <1>4. /\ DOMAIN db' = DOMAIN db \cup {id} /\ db'[id] = row
        /\ \A a \in DOMAIN db \ {id} : db'[a] = db[a]
    BY DEF With
  <1> HIDE DEF own2
  <1>5. RowOwned(own2, id, db[id])'
    BY <1>1, <1>4 DEF RowOwned, Agrees, metaxVars, own2
  <1>6. /\ late' \subseteq Call /\ edited' \subseteq Ids /\ minted' \subseteq Ids
        /\ DOMAIN db' \subseteq minted'
    BY <1>4 DEF Owners, TypeOK
  <1>7. \A k \in Handlers : req'[k] = req[k] \/ Served(own2, k)'
    BY IdleServed DEF Others
  <1>8. Owners(own2)'
    BY <1>1, <1>3, <1>4, <1>5, <1>6, <1>7, MetaxUnchanged, OwnersStep
  <1> QED BY <1>1, <1>8 DEF own2

\* If creates do not overlap, a document has the id and the user of its own request.
LEMMA OwnTemplate ==
    ASSUME ~CreatesOverlap, NEW h, CreateDataset(h)
    PROVE  \E user \in Users, id \in NewIds \ minted, rd \in Contents, cum \in Cums \cup {None} :
              /\ db' = With(db, id, NewRow(user, CreateData(id, user, rd, cum)))
              /\ minted' = minted \cup {id}
  BY DEF CreateDataset, TemplateUsers, TemplateIds

LEMMA CreateDatasetOwned ==
    ASSUME ~CreatesOverlap, NEW own, Owners(own), NEW h \in Handlers, CreateDataset(h)
    PROVE  \E own2 : Owners(own2)' /\ Extended(own, own2)
  <1>1. PICK user \in Users, id \in NewIds \ minted, rd \in Contents, cum \in Cums \cup {None} :
          /\ db' = With(db, id, NewRow(user, CreateData(id, user, rd, cum)))
          /\ minted' = minted \cup {id}
    BY OwnTemplate
  <1> DEFINE blob == CreateData(id, user, rd, cum)
             row  == NewRow(user, blob)
             own2 == With(own, id, user)
  <1>2. id \in Ids \ minted
    BY PublishAssumption
  <1>3. blob \in Blob /\ blob.ident = None
    BY <1>2, InputBlobs
  <1>4. blob.user = user /\ blob.rec = id
    BY DEF CreateData, NoBlob
  <1>5. row \in Row /\ row.owner = user /\ row.blob = blob
    BY <1>3 DEF NewRow, Row
  <1>6. Agrees(own2, row.blob)
    BY <1>3, <1>4, <1>5 DEF Agrees, With
  <1>7. Others(h) /\ req' \in [Handlers -> Req] /\ req'[h] = req[h]
    BY DEF CreateDataset, Others, Owners, TypeOK
  <1> HIDE DEF own2, row, blob
  <1>8. db' = With(db, id, row) /\ UNCHANGED <<edited, late, metaxVars>>
    BY <1>1 DEF CreateDataset, row, blob
  <1> QED BY <1>1, <1>2, <1>4, <1>5, <1>6, <1>7, <1>8, NewRowOwned DEF own2

LEMMA StoreNewVersionOwned ==
    ASSUME NEW own, Owners(own), NEW h \in Handlers, StoreNewVersion(h)
    PROVE  \E own2 : Owners(own2)' /\ Extended(own, own2)
  <1> DEFINE parent == req[h].id
             user   == req[h].user
             row    == NewVersionRow(db[parent], req[h].blob, req[h].blob.date)
  <1>1. PICK id \in Ids \ minted : db' = With(db, id, row) /\ minted' = minted \cup {id}
    BY DEF StoreNewVersion
  <1>2. /\ parent \in DOMAIN db /\ db[parent] \in Row /\ req[h] \in Req
        /\ RowOwned(own, parent, db[parent]) /\ Served(own, h) /\ At(h, "landing")
    BY DEF StoreNewVersion, Owners, TypeOK, IsTable
  <1>3. req[h].blob \in Blob /\ req[h].blob.date \in Nat
    BY <1>2 DEF Req, Blob
  <1>4. /\ req[h].blob.user = user /\ db[parent].owner = user
        /\ Agrees(own, req[h].blob) /\ user \in Users
    BY <1>2 DEF Served, At, RowOwned, Row
  <1>5. row \in Row /\ row.owner = user /\ row.blob = req[h].blob
    BY <1>2, <1>3, <1>4 DEF NewVersionRow, Row
  <1>6. Agrees(With(own, id, user), row.blob)
    BY <1>1, <1>4, <1>5 DEF Agrees, With, Owners
  <1>7. Others(h) /\ req' \in [Handlers -> Req] /\ req'[h] = Idle
    BY Ends DEF StoreNewVersion, Owners
  <1> HIDE DEF row, user
  <1>8. UNCHANGED <<edited, late, metaxVars>>
    BY DEF StoreNewVersion
  <1> QED BY <1>1, <1>4, <1>5, <1>6, <1>7, <1>8, NewRowOwned

\* Every step of a handler keeps the owners and the users of Metax's datasets.
LEMMA HandlerOwned ==
    ASSUME ~CreatesOverlap, NEW own, Owners(own), NEW h \in Handlers, HandlerStep(h) \/ Fail(h)
    PROVE  MetaxAgrees(own) /\ \E own2 : Owners(own2)' /\ Extended(own, own2)
  <1>1. Extended(own, own)
    BY DEF Extended
  <1>2. CASE RejectRequest(h)
    <2>1. MetaxAgrees(own)
      BY <1>2, MetaxUnchanged DEF RejectRequest, vars, metaxVars
    <2> QED BY <1>1, <1>2, <2>1, OutsideOwned DEF RejectRequest, vars
  <1>3. CASE CreateDataset(h) \/ StoreNewVersion(h)
    BY <1>3, CreateDatasetOwned, StoreNewVersionOwned, MetaxUnchanged
    DEF CreateDataset, StoreNewVersion
  <1>4. CASE ValidateUpdate(h) \/ SmartUpdateWithOwner(h) \/ GetForPublish(h)
    BY <1>1, <1>4, ValidateUpdateOwned, SmartUpdateOwned, GetForPublishOwned, MetaxUnchanged
    DEF ValidateUpdate, SmartUpdateWithOwner, GetForPublish
  <1>5. CASE StoreCreated(h) \/ StoreUpdated(h) \/ StoreMadeVersion(h)
    <2>1. req[h].blob \in Blob /\ Agrees(own, req[h].blob)
      BY <1>5 DEF Owners, TypeOK, Req, Served, At, StoreCreated, StoreUpdated, StoreMadeVersion
    <2>2. MetaxAgrees(own)
      BY <1>5, <2>1, PostAgrees, PutAgrees, PutVersionAgrees
      DEF StoreCreated, StoreUpdated, StoreMadeVersion
    <2> QED BY <1>1, <1>5, <2>2, StoringStepOwned
  <1>6. CASE StorePublished(h) \/ GetNewVersion(h)
    BY <1>1, <1>6, StorePublishedOwned, GetNewVersionOwned, MetaxUnchanged
    DEF StorePublished, GetNewVersion
  <1>7. CASE GetForDelete(h) \/ GetForUnpublish(h) \/ Delete(h)
    BY <1>1, <1>7, GetForDeleteOwned, GetForUnpublishOwned, DeleteOwned, MetaxUnchanged
    DEF GetForDelete, GetForUnpublish, Delete
  <1>8. CASE DeleteInMetax(h)
    BY <1>1, <1>8, DeleteInMetaxOwned, RemoveAgrees DEF DeleteInMetax
  <1>9. CASE Fail(h)
    BY <1>1, <1>9, FailOwned, MetaxUnchanged DEF Fail
  <1> QED BY <1>2, <1>3, <1>4, <1>5, <1>6, <1>7, <1>8, <1>9 DEF HandlerStep

LEMMA InitOwned ==
    ASSUME Init
    PROVE  Owners([id \in {} |-> None])
  <1>1. TypeOK /\ MetaxIdents
    BY InitIInv DEF IInv
  <1>2. Idle.pc = "idle" /\ Idle.new = None /\ Idle.blob.ident = None /\ Idle.blob.rec = None
    BY DEF Idle, NoBlob
  <1>3. \A h \in Handlers : Served([id \in {} |-> None], h)
    BY <1>2 DEF Init, Served, At, Agrees
  <1> QED BY <1>1, <1>3 DEF Init, MetaxInit, Owners

LEMMA OwnersSound ==
    ASSUME OwnersKnown
    PROVE  SameOwnerInMetax
  BY DEF OwnersKnown, Owners, RowOwned, Agrees, SameOwnerInMetax, Identified

LEMMA NextOwned ==
    ASSUME ~CreatesOverlap, OwnersKnown, [Next]_vars
    PROVE  OwnersKnown'
  <1>1. PICK own : Owners(own)
    BY DEF OwnersKnown
  <1> SUFFICES \E own2 : Owners(own2)'
    BY DEF OwnersKnown
  <1>2. ASSUME NEW h \in Handlers, HandlerStep(h) \/ Fail(h)
        PROVE  \E own2 : Owners(own2)'
    BY <1>1, <1>2, HandlerOwned
  <1>3. CASE Crash
    BY <1>1, <1>3, CrashOwned
  <1>4. ASSUME NEW c \in late, LateCall(c)
        PROVE  \E own2 : Owners(own2)'
    BY <1>1, <1>4, LateCallAgrees, OutsideOwned DEF LateCall
  <1>5. CASE EditInMetax
    BY <1>1, <1>5, EditInMetaxAgrees, OutsideOwned DEF EditInMetax
  <1>6. CASE UNCHANGED vars
    BY <1>1, <1>6, MetaxUnchanged, OutsideOwned DEF vars, metaxVars
  <1> QED BY <1>2, <1>3, <1>4, <1>5, <1>6 DEF Next

(* If creates do not overlap, the dataset Metax has under a row's          *)
(* identifier is the row's owner's, whatever other requests overlap, fail, *)
(* or leave calls behind: StorePublished and StoreNewVersion need not look *)
(* at the owner of the row.                                                *)
THEOREM OwnersAgree ==
    ASSUME ~CreatesOverlap
    PROVE  Spec => []SameOwnerInMetax
  <1>1. Init => OwnersKnown
    BY InitOwned DEF OwnersKnown
  <1>2. OwnersKnown /\ [Next]_vars => OwnersKnown'
    BY NextOwned
  <1>3. OwnersKnown => SameOwnerInMetax
    BY OwnersSound
  <1> QED BY <1>1, <1>2, <1>3, PTL DEF Spec

-----------------------------------------------------------------------------
(* Syncs.  A batch holds records and documents of its user's, and ids of   *)
(* rows of its user's, whatever happened to the rows since it read them.   *)

KnownRows == UNION {[ids -> Known] : ids \in SUBSET Ids}

Writes == UNION {[ids -> Row \cup {None}] : ids \in SUBSET Ids}

SyncStates ==
    [pc      : SyncPCs,
     user    : Users \cup {None},
     since   : Nat,
     removed : BOOLEAN,
     todo    : Seq(Idents),
     at      : Nat,
     recs    : SUBSET MetaxRecord,
     known   : KnownRows,
     writes  : Writes]

SyncTyped ==
    /\ lastsync \in [Users -> Nat]
    /\ sync \in [Syncers -> SyncStates]

RecordsOwned(own, s) ==
    \A rec \in sync[s].recs : rec.blob.user = sync[s].user /\ Agrees(own, rec.blob)

KnownOwned(own, s) ==
    \A id \in DOMAIN sync[s].known : id \in DOMAIN own /\ own[id] = sync[s].user

WritesOwned(own, s) ==
    \A id \in DOMAIN sync[s].writes :
        /\ id \in DOMAIN own /\ own[id] = sync[s].user
        /\ sync[s].writes[id] # None => RowOwned(own, id, sync[s].writes[id])

TodoOwned(s) ==
    \A k \in 1 .. Len(sync[s].todo) : /\ sync[s].todo[k] \in DOMAIN metax
                                      /\ metax[sync[s].todo[k]].blob.user = sync[s].user

SyncOwned(own, s) ==
    /\ ~Doing(s, "idle") => sync[s].user \in Users
    /\ sync[s].pc \in {"requesting", "fetching"} => sync[s].todo # << >>
    /\ RecordsOwned(own, s)
    /\ KnownOwned(own, s)
    /\ WritesOwned(own, s)
    /\ TodoOwned(s)

SyncOwners(own) ==
    /\ Owners(own)
    /\ SyncTyped
    /\ \A s \in Syncers : SyncOwned(own, s)

SyncOwnersKnown == \E own : SyncOwners(own)

\* A row that is its id's owner's stays so when Metax changes and ids are made.
LEMMA WriteGoesOn ==
    ASSUME NEW own, NEW own2, MetaxAgrees(own), Extended(own, own2), NEW id \in DOMAIN own,
           NEW row
    PROVE  /\ id \in DOMAIN own2 /\ own2[id] = own[id]
           /\ RowOwned(own, id, row) => RowOwned(own2, id, row)'
  <1>1. Agrees(own, row.blob) => Agrees(own2, row.blob)'
    BY GoesOnAgreeing
  <1>2. id \in DOMAIN own2 /\ own2[id] = own[id]
    BY DEF Extended
  <1> QED BY <1>1, <1>2 DEF RowOwned

\* A sync that does nothing goes on holding what is its user's.
LEMMA SyncGoesOn ==
    ASSUME NEW own, NEW own2, MetaxAgrees(own), Extended(own, own2),
           NEW s \in Syncers, SyncOwned(own, s), sync'[s] = sync[s]
    PROVE  SyncOwned(own2, s)'
  <1>1. RecordsOwned(own2, s)'
    <2>1. \A rec \in sync[s].recs : rec.blob.user = sync[s].user /\ Agrees(own2, rec.blob)'
      BY GoesOnAgreeing DEF SyncOwned, RecordsOwned
    <2> QED BY <2>1 DEF RecordsOwned, Agrees
  <1>2. KnownOwned(own2, s)'
    BY DEF SyncOwned, KnownOwned, Extended
  <1>3. WritesOwned(own2, s)'
    <2>1. \A id \in DOMAIN sync[s].writes :
             /\ id \in DOMAIN own /\ own[id] = sync[s].user
             /\ sync[s].writes[id] # None => RowOwned(own, id, sync[s].writes[id])
      BY DEF SyncOwned, WritesOwned
    <2>2. \A id \in DOMAIN sync[s].writes :
             /\ id \in DOMAIN own2 /\ own2[id] = sync[s].user
             /\ sync[s].writes[id] # None => RowOwned(own2, id, sync[s].writes[id])'
      BY <2>1, WriteGoesOn
    <2> QED BY <2>2 DEF WritesOwned, RowOwned, Agrees
  <1>4. TodoOwned(s)'
    BY DEF SyncOwned, TodoOwned, MetaxAgrees
  <1> QED BY <1>1, <1>2, <1>3, <1>4 DEF SyncOwned, Doing

\* A step of the whole in which each sync does nothing or ends up holding what is
\* its user's.
LEMMA SyncsStep ==
    ASSUME NEW own, NEW own2, SyncOwners(own), Owners(own2)', MetaxAgrees(own),
           Extended(own, own2), SyncTyped',
           \A s \in Syncers : sync'[s] = sync[s] \/ SyncOwned(own2, s)'
    PROVE  SyncOwners(own2)'
  <1>1. ASSUME NEW s \in Syncers
        PROVE  SyncOwned(own2, s)'
    BY SyncGoesOn DEF SyncOwners
  <1> QED BY <1>1 DEF SyncOwners

LEMMA SyncIdleTyped == SyncIdle \in SyncStates
  <1>1. NoRows \in [{} -> Known] /\ NoRows \in [{} -> Row \cup {None}]
    BY DEF NoRows
  <1>2. NoRows \in KnownRows /\ NoRows \in Writes
    BY <1>1 DEF KnownRows, Writes
  <1>3. << >> \in Seq(Idents)
    OBVIOUS
  <1> QED BY <1>2, <1>3 DEF SyncIdle, SyncStates, SyncPCs

\* A sync that does nothing holds nothing.
LEMMA SyncIdleOwned ==
    ASSUME NEW own, NEW s \in Syncers, sync'[s] = SyncIdle
    PROVE  SyncOwned(own, s)'
  <1>1. /\ sync'[s].pc = "idle" /\ sync'[s].recs = {}
        /\ sync'[s].known = NoRows /\ sync'[s].writes = NoRows /\ sync'[s].todo = << >>
    BY DEF SyncIdle
  <1>2. DOMAIN NoRows = {}
    BY DEF NoRows
  <1>3. 1 .. Len(<< >>) = {}
    OBVIOUS
  <1> QED BY <1>1, <1>2, <1>3
          DEF SyncOwned, Doing, RecordsOwned, KnownOwned, WritesOwned, TodoOwned

\* A step of sync s that leaves the rows, the requests and Metax alone.
LEMMA BatchStep ==
    ASSUME NEW own, SyncOwners(own), NEW s \in Syncers, UNCHANGED <<vars, lastsync>>,
           NEW new \in SyncStates, sync' = [sync EXCEPT ![s] = new], SyncOwned(own, s)'
    PROVE  SyncOwners(own)'
  <1>1. MetaxAgrees(own) /\ Extended(own, own) /\ Owners(own)'
    BY MetaxUnchanged, OutsideOwned DEF SyncOwners, Extended, vars, metaxVars
  <1>2. SyncTyped'
    BY DEF SyncOwners, SyncTyped
  <1>3. \A k \in Syncers : sync'[k] = sync[k] \/ SyncOwned(own, k)'
    BY DEF SyncOwners, SyncTyped
  <1> QED BY <1>1, <1>2, <1>3, SyncsStep

\* A sync that holds nothing but datasets it is yet to fetch.
LEMMA SyncFresh ==
    ASSUME NEW own, NEW s \in Syncers, sync'[s].user \in Users,
           sync'[s].pc \in {"requesting", "fetching"} => sync'[s].todo # << >>,
           TodoOwned(s)',
           sync'[s].recs = {}, sync'[s].known = NoRows, sync'[s].writes = NoRows
    PROVE  SyncOwned(own, s)'
  <1>1. DOMAIN NoRows = {}
    BY DEF NoRows
  <1> QED BY <1>1 DEF SyncOwned, Doing, RecordsOwned, KnownOwned, WritesOwned

\* What sync s holds is its user's, if all that it gets besides what it had is.
LEMMA BatchHolds ==
    ASSUME NEW own, NEW s \in Syncers, SyncOwned(own, s), UNCHANGED metax,
           ~Doing(s, "idle"), NEW new, sync'[s] = new,
           new.pc \notin {"requesting", "fetching"},
           new.user = sync[s].user, new.todo = sync[s].todo, new.writes = sync[s].writes,
           \A rec \in new.recs : \/ rec \in sync[s].recs
                                 \/ rec.blob.user = sync[s].user /\ Agrees(own, rec.blob),
           \/ new.known = sync[s].known
           \/ \A id \in DOMAIN new.known : id \in DOMAIN own /\ own[id] = sync[s].user
    PROVE  SyncOwned(own, s)'
  <1>1. RecordsOwned(own, s)'
    <2>1. \A rec \in new.recs : rec.blob.user = sync[s].user /\ Agrees(own, rec.blob)
      BY DEF SyncOwned, RecordsOwned
    <2> QED BY <2>1 DEF RecordsOwned, Agrees
  <1>2. KnownOwned(own, s)'
    BY DEF SyncOwned, KnownOwned
  <1>3. WritesOwned(own, s)'
    <2>1. \A id \in DOMAIN new.writes :
             /\ id \in DOMAIN own /\ own[id] = sync[s].user
             /\ new.writes[id] # None => RowOwned(own, id, new.writes[id])
      BY DEF SyncOwned, WritesOwned
    <2> QED BY <2>1 DEF WritesOwned, RowOwned, Agrees
  <1>4. TodoOwned(s)'
    BY DEF SyncOwned, TodoOwned
  <1> QED BY <1>1, <1>2, <1>3, <1>4 DEF SyncOwned, Doing

\* The start of a sync.
LEMMA BeginSyncOwned ==
    ASSUME NEW own, SyncOwners(own), NEW s \in Syncers, BeginSync(s)
    PROVE  SyncOwners(own)'
  <1>1. UNCHANGED <<vars, lastsync>> /\ lastsync \in [Users -> Nat] /\ metax' = metax
    BY DEF BeginSync, Fetch, FetchAll, GetForRpc, SyncOwners, SyncTyped, vars
  <1>2. CASE Fetch(s) \/ FetchAll(s)
    <2>1. PICK user \in Users :
            \E new \in {[SyncIdle EXCEPT !.pc = "starting", !.user = user, !.since = lastsync[user]],
                        [SyncIdle EXCEPT !.pc = "starting", !.user = user]} :
               sync' = [sync EXCEPT ![s] = new]
      BY <1>2 DEF Fetch, FetchAll
    <2>2. PICK new \in {[SyncIdle EXCEPT !.pc = "starting", !.user = user, !.since = lastsync[user]],
                        [SyncIdle EXCEPT !.pc = "starting", !.user = user]} :
             sync' = [sync EXCEPT ![s] = new] /\ lastsync[user] \in Nat
      BY <1>1, <2>1
    <2>3. new \in SyncStates
      <3>1. /\ "starting" \in SyncPCs /\ user \in Users \cup {None} /\ lastsync[user] \in Nat
        BY <2>2 DEF SyncPCs
      <3>2. CASE new = [SyncIdle EXCEPT !.pc = "starting", !.user = user, !.since = lastsync[user]]
        BY <3>1, <3>2, SyncIdleTyped DEF SyncStates
      <3>3. CASE new = [SyncIdle EXCEPT !.pc = "starting", !.user = user]
        BY <3>1, <3>3, SyncIdleTyped DEF SyncStates
      <3> QED BY <3>2, <3>3
    <2>4. /\ new.pc = "starting" /\ new.user = user /\ new.todo = << >>
          /\ new.recs = {} /\ new.known = NoRows /\ new.writes = NoRows
      BY DEF SyncIdle
    <2>5. sync'[s] = new
      BY <2>2 DEF SyncOwners, SyncTyped
    <2>6. 1 .. Len(<< >>) = {}
      OBVIOUS
    <2>7. TodoOwned(s)'
      BY <2>4, <2>5, <2>6 DEF TodoOwned
    <2> QED BY <1>1, <2>2, <2>3, <2>4, <2>5, <2>7, SyncFresh, BatchStep
  <1>3. CASE GetForRpc(s)
    <2>1. PICK user \in Users, id \in DOMAIN db :
            /\ db[id].owner = user
            /\ Identified(db[id])
            /\ sync' = [sync EXCEPT ![s] = [SyncIdle EXCEPT !.pc = "requesting", !.user = user,
                                                            !.todo = <<db[id].blob.ident>>]]
      BY <1>3 DEF GetForRpc, Owned
    <2> DEFINE i   == db[id].blob.ident
               new == [SyncIdle EXCEPT !.pc = "requesting", !.user = user, !.todo = <<i>>]
    <2>2. i \in DOMAIN metax /\ metax[i].blob.user = user
      BY <2>1 DEF SyncOwners, Owners, RowOwned, Agrees, Identified
    <2>3. i \in Idents
      BY <2>2 DEF SyncOwners, Owners, TypeOK, MetaxTypeOK
    <2> HIDE DEF i
    <2>4. /\ <<i>> \in Seq(Idents) /\ <<i>> # << >>
          /\ \A k \in 1 .. Len(<<i>>) : <<i>>[k] = i
      BY <2>3
    <2>5. new \in SyncStates
      BY <2>4, SyncIdleTyped DEF SyncStates, SyncPCs
    <2>6. /\ new.pc = "requesting" /\ new.user = user /\ new.todo = <<i>>
          /\ new.recs = {} /\ new.known = NoRows /\ new.writes = NoRows
      BY DEF SyncIdle
    <2> HIDE DEF new
    <2>7. sync' = [sync EXCEPT ![s] = new] /\ sync'[s] = new
      BY <2>1 DEF SyncOwners, SyncTyped, new, i
    <2>8. TodoOwned(s)'
      BY <1>1, <2>2, <2>4, <2>6, <2>7 DEF TodoOwned
    <2> QED BY <1>1, <2>4, <2>5, <2>6, <2>7, <2>8, SyncFresh, BatchStep
  <1> QED BY <1>2, <1>3 DEF BeginSync

\* What is left of a sync when a batch ended.
LEMMA AfterBatchOwned ==
    ASSUME NEW own, SyncOwners(own), NEW s \in Syncers, ~Doing(s, "idle"), UNCHANGED metax,
           sync'[s] = AfterBatch(s)
    PROVE  sync'[s] \in SyncStates /\ SyncOwned(own, s)'
  <1> DEFINE todo == sync[s].todo
             next == [SyncIdle EXCEPT !.user = sync[s].user, !.since = sync[s].since]
  <1>1. /\ sync[s] \in SyncStates /\ sync[s].user \in Users /\ TodoOwned(s)
        /\ todo \in Seq(Idents) /\ sync[s].since \in Nat
    BY DEF SyncOwners, SyncTyped, SyncOwned, SyncStates
  <1>2. next \in SyncStates
    BY <1>1, SyncIdleTyped DEF SyncStates
  <1>3. /\ next.user = sync[s].user /\ next.todo = << >>
        /\ next.recs = {} /\ next.known = NoRows /\ next.writes = NoRows
    BY DEF SyncIdle
  <1> HIDE DEF next
  <1>4. CASE Len(todo) > 1
    <2>1. todo # << >>
      BY <1>4
    <2>2. /\ Tail(todo) \in Seq(Idents) /\ Len(Tail(todo)) = Len(todo) - 1
          /\ \A k \in 1 .. Len(Tail(todo)) : Tail(todo)[k] = todo[k + 1]
      BY <1>1, <2>1, HeadTailProperties
    <2>3. Len(todo) \in Nat
      BY <1>1
    <2>4. Tail(todo) # << >>
      <3>1. Len(Tail(todo)) > 0
        BY <1>4, <2>2, <2>3
      <3>2. ~(Len(<< >>) > 0)
        OBVIOUS
      <3> QED BY ONLY <3>1, <3>2
    <2>5. \A k \in 1 .. Len(Tail(todo)) : k + 1 \in 1 .. Len(todo)
      BY <2>2, <2>3
    <2>6. sync'[s] = [next EXCEPT !.pc = "fetching", !.todo = Tail(todo)]
      BY <1>4 DEF AfterBatch, next
    <2>7. /\ sync'[s] \in SyncStates
          /\ sync'[s].pc = "fetching" /\ sync'[s].user = sync[s].user /\ sync'[s].todo = Tail(todo)
          /\ sync'[s].recs = {} /\ sync'[s].known = NoRows /\ sync'[s].writes = NoRows
      BY <1>2, <1>3, <2>2, <2>6 DEF SyncStates, SyncPCs
    <2>8. TodoOwned(s)'
      BY <1>1, <2>2, <2>5, <2>7 DEF TodoOwned
    <2> QED BY <1>1, <2>4, <2>7, <2>8, SyncFresh
  <1>5. CASE ~(Len(todo) > 1) /\ ~Rpc(s) /\ ~sync[s].removed
    <2>1. sync'[s] = [next EXCEPT !.pc = "starting", !.removed = TRUE]
      BY <1>5 DEF AfterBatch, next
    <2>2. /\ sync'[s] \in SyncStates
          /\ sync'[s].pc = "starting" /\ sync'[s].user = sync[s].user /\ sync'[s].todo = << >>
          /\ sync'[s].recs = {} /\ sync'[s].known = NoRows /\ sync'[s].writes = NoRows
      BY <1>2, <1>3, <2>1 DEF SyncStates, SyncPCs
    <2>3. 1 .. Len(<< >>) = {}
      OBVIOUS
    <2>4. TodoOwned(s)'
      BY <2>2, <2>3 DEF TodoOwned
    <2> QED BY <1>1, <2>2, <2>4, SyncFresh
  <1>6. CASE ~(Len(todo) > 1) /\ ~(~Rpc(s) /\ ~sync[s].removed)
    <2>1. sync'[s] = SyncIdle
      BY <1>6 DEF AfterBatch
    <2> QED BY <2>1, SyncIdleTyped, SyncIdleOwned
  <1> QED BY <1>4, <1>5, <1>6

-----------------------------------------------------------------------------
(* The steps of a batch.                                                   *)

LEMMA NewBatchOwned ==
    ASSUME NEW own, SyncOwners(own), NEW s \in Syncers, NewBatchForUser(s)
    PROVE  SyncOwners(own)'
  <1>1. sync[s] \in SyncStates /\ SyncOwned(own, s) /\ clock \in Nat
    BY DEF SyncOwners, SyncTyped, Owners, TypeOK, MetaxTypeOK
  <1> DEFINE new == [sync[s] EXCEPT !.at = clock,
                                    !.pc = IF Rpc(s) THEN "loading" ELSE "querying"]
  <1>2. sync' = [sync EXCEPT ![s] = new] /\ UNCHANGED <<vars, lastsync>>
    BY DEF NewBatchForUser
  <1>3. /\ new \in SyncStates /\ new.pc \in {"loading", "querying"}
        /\ new.user = sync[s].user /\ new.todo = sync[s].todo /\ new.recs = sync[s].recs
        /\ new.known = sync[s].known /\ new.writes = sync[s].writes
    BY <1>1 DEF SyncStates, SyncPCs
  <1> HIDE DEF new
  <1>4. sync'[s] = new
    BY <1>2 DEF SyncOwners, SyncTyped
  <1>5. ~Doing(s, "idle") /\ metax' = metax
    BY <1>2 DEF NewBatchForUser, Doing, vars
  <1>6. SyncOwned(own, s)'
    BY <1>1, <1>3, <1>4, <1>5, BatchHolds
  <1> QED BY <1>2, <1>3, <1>6, BatchStep

\* The records Metax answers with are the user's, as asked.
LEMMA ReadStreamChannelOwned ==
    ASSUME NEW own, SyncOwners(own), NEW s \in Syncers, ReadStreamChannel(s)
    PROVE  SyncOwners(own)'
  <1>1. sync[s] \in SyncStates /\ SyncOwned(own, s)
    BY DEF SyncOwners, SyncTyped
  <1> DEFINE found == {i \in DOMAIN metax : Queried(s, metax[i])}
             recs  == {metax[i] : i \in found}
             new   == [sync[s] EXCEPT !.recs = recs,
                                      !.pc = IF found = {} THEN "reading" ELSE "loading"]
  <1>2. sync' = [sync EXCEPT ![s] = new] /\ UNCHANGED <<vars, lastsync>>
    BY DEF ReadStreamChannel
  <1>3. recs \subseteq MetaxRecord
    BY DEF SyncOwners, Owners, TypeOK, MetaxTypeOK
  <1>4. \A rec \in recs : rec.blob.user = sync[s].user /\ Agrees(own, rec.blob)
    BY DEF Queried, SyncOwners, Owners
  <1> HIDE DEF recs
  <1>5. /\ new \in SyncStates /\ new.pc \in {"reading", "loading"}
        /\ new.user = sync[s].user /\ new.todo = sync[s].todo /\ new.recs = recs
        /\ new.known = sync[s].known /\ new.writes = sync[s].writes
    BY <1>1, <1>3 DEF SyncStates, SyncPCs
  <1> HIDE DEF new
  <1>6. sync'[s] = new
    BY <1>2 DEF SyncOwners, SyncTyped
  <1>7. ~Doing(s, "idle") /\ metax' = metax
    BY <1>2 DEF ReadStreamChannel, Doing, vars
  <1>8. SyncOwned(own, s)'
    BY <1>1, <1>4, <1>5, <1>6, <1>7, BatchHolds
  <1> QED BY <1>2, <1>5, <1>8, BatchStep

\* The rows getSyncInfo finds are the user's, and will have been.
LEMMA getSyncInfoOwned ==
    ASSUME NEW own, SyncOwners(own), NEW s \in Syncers, getSyncInfo(s)
    PROVE  SyncOwners(own)'
  <1>1. sync[s] \in SyncStates /\ SyncOwned(own, s)
    BY DEF SyncOwners, SyncTyped
  <1>2. PICK rows \in SUBSET Owned(db, sync[s].user) :
          sync' = [sync EXCEPT ![s].pc = "reading",
                               ![s].known = [id \in rows |-> [ident  |-> db[id].blob.ident,
                                                              synced |-> db[id].synced]]]
    BY DEF getSyncInfo
  <1> DEFINE known == [id \in rows |-> [ident |-> db[id].blob.ident, synced |-> db[id].synced]]
             new   == [sync[s] EXCEPT !.pc = "reading", !.known = known]
  <1>3. sync' = [sync EXCEPT ![s] = new] /\ UNCHANGED <<vars, lastsync>>
    BY <1>2 DEF getSyncInfo
  <1>4. \A id \in rows : id \in Ids /\ db[id] \in Row /\ id \in DOMAIN own /\ own[id] = sync[s].user
    BY DEF Owned, SyncOwners, Owners, RowOwned, TypeOK, IsTable
  <1>5. known \in KnownRows /\ DOMAIN known = rows
    <2>1. \A id \in rows : known[id] \in Known
      BY <1>4 DEF Known, Row, Blob
    <2>2. known \in [rows -> Known] /\ rows \in SUBSET Ids
      BY <1>4, <2>1
    <2> QED BY <2>2 DEF KnownRows
  <1> HIDE DEF known
  <1>6. /\ new \in SyncStates /\ new.pc = "reading"
        /\ new.user = sync[s].user /\ new.todo = sync[s].todo /\ new.recs = sync[s].recs
        /\ new.known = known /\ new.writes = sync[s].writes
    BY <1>1, <1>5 DEF SyncStates, SyncPCs
  <1> HIDE DEF new
  <1>7. sync'[s] = new
    BY <1>3 DEF SyncOwners, SyncTyped
  <1>8. ~Doing(s, "idle") /\ metax' = metax
    BY <1>3 DEF getSyncInfo, Doing, vars
  <1>9. SyncOwned(own, s)'
    BY <1>1, <1>4, <1>5, <1>6, <1>7, <1>8, BatchHolds
  <1> QED BY <1>3, <1>6, <1>9, BatchStep

\* GetId: the record of a dataset of the user's.
LEMMA GetIdOwned ==
    ASSUME NEW own, SyncOwners(own), NEW s \in Syncers, GetId(s)
    PROVE  SyncOwners(own)'
  <1> DEFINE i   == Head(sync[s].todo)
             new == [sync[s] EXCEPT !.pc = "opening", !.recs = {metax[i]}]
  <1>1. sync[s] \in SyncStates /\ SyncOwned(own, s) /\ sync[s].todo # << >>
    BY DEF SyncOwners, SyncTyped, SyncOwned, GetId, Doing
  <1>2. i \in DOMAIN metax /\ metax[i].blob.user = sync[s].user
    <2>1. sync[s].todo \in Seq(Idents)
      BY <1>1 DEF SyncStates
    <2>2. 1 \in 1 .. Len(sync[s].todo) /\ i = sync[s].todo[1]
      BY <1>1, <2>1
    <2> QED BY <1>1, <2>2 DEF SyncOwned, TodoOwned
  <1>3. metax[i] \in MetaxRecord /\ Agrees(own, metax[i].blob)
    BY <1>2 DEF SyncOwners, Owners, TypeOK, MetaxTypeOK
  <1>4. sync' = [sync EXCEPT ![s] = new] /\ UNCHANGED <<vars, lastsync>>
    BY DEF GetId
  <1>5. /\ new \in SyncStates /\ new.pc = "opening"
        /\ new.user = sync[s].user /\ new.todo = sync[s].todo /\ new.recs = {metax[i]}
        /\ new.known = sync[s].known /\ new.writes = sync[s].writes
    BY <1>1, <1>3 DEF SyncStates, SyncPCs
  <1> HIDE DEF new
  <1>6. sync'[s] = new
    BY <1>4 DEF SyncOwners, SyncTyped
  <1>7. ~Doing(s, "idle") /\ metax' = metax
    BY <1>4 DEF GetId, Doing, vars
  <1>8. SyncOwned(own, s)'
    BY <1>1, <1>2, <1>3, <1>5, <1>6, <1>7, BatchHolds
  <1> QED BY <1>4, <1>5, <1>8, BatchStep

-----------------------------------------------------------------------------
(* The records of a batch.  Without mismatched bodies, a record names a    *)
(* row of its user's, also if it is named by its record_id.                *)

LEMMA RowsForOwned ==
    ASSUME ~MismatchedBodies, NEW own, SyncOwners(own), NEW s \in Syncers,
           NEW rec \in sync[s].recs, NEW id \in RowsFor(s, rec)
    PROVE  id \in Ids /\ id \in DOMAIN own /\ own[id] = sync[s].user
  <1>1. /\ sync[s] \in SyncStates /\ rec \in MetaxRecord
        /\ rec.blob.user = sync[s].user /\ Agrees(own, rec.blob)
        /\ KnownOwned(own, s)
    BY DEF SyncOwners, SyncTyped, SyncOwned, RecordsOwned, SyncStates
  <1>2. DOMAIN own \subseteq Ids
    BY DEF SyncOwners, Owners, TypeOK
  <1>3. CASE rec.blob.rec # None
    <2>1. id = rec.blob.rec
      BY <1>3 DEF RowsFor, ToQvain
    <2> QED BY <1>1, <1>2, <1>3, <2>1 DEF Agrees
  <1>4. CASE rec.blob.rec = None
    <2>1. id \in DOMAIN sync[s].known
      BY <1>4 DEF RowsFor, ToQvain
    <2> QED BY <1>1, <1>2, <2>1 DEF KnownOwned
  <1> QED BY <1>3, <1>4

\* The row a batch sees, its own write or a row of the table.
LEMMA VisibleOwned ==
    ASSUME NEW own, SyncOwners(own), NEW s \in Syncers, NEW id, Visible(s, id) # None
    PROVE  Visible(s, id) \in Row /\ RowOwned(own, id, Visible(s, id))
  <1>1. CASE id \in DOMAIN sync[s].writes
    <2>1. sync[s].writes \in Writes
      BY DEF SyncOwners, SyncTyped, SyncStates
    <2>2. sync[s].writes[id] \in Row \cup {None}
      BY <1>1, <2>1 DEF Writes
    <2>3. Visible(s, id) = sync[s].writes[id]
      BY <1>1 DEF Visible
    <2> QED BY <1>1, <2>2, <2>3 DEF SyncOwners, SyncOwned, WritesOwned
  <1>2. CASE id \notin DOMAIN sync[s].writes
    <2>1. id \in DOMAIN db /\ Visible(s, id) = db[id]
      BY <1>2 DEF Visible
    <2> QED BY <2>1 DEF SyncOwners, Owners, TypeOK, IsTable
  <1> QED BY <1>1, <1>2

\* A batch after a write, when owners may have been added.
LEMMA WriteHolds ==
    ASSUME NEW own, NEW own2, SyncOwners(own), Extended(own, own2), UNCHANGED metax,
           NEW s \in Syncers, Doing(s, "reading"),
           NEW rec, NEW id \in Ids, id \in DOMAIN own2, own2[id] = sync[s].user,
           NEW row \in Row \cup {None}, row # None => RowOwned(own2, id, row),
           Write(s, rec, id, row)
    PROVE  /\ SyncOwned(own2, s)' /\ sync'[s] \in SyncStates
           /\ \A k \in Syncers : k # s => sync'[k] = sync[k]
           /\ sync' \in [Syncers -> SyncStates]
  <1> DEFINE writes == With(sync[s].writes, id, row)
             new    == [sync[s] EXCEPT !.writes = writes, !.recs = @ \ {rec}]
  <1>1. sync[s] \in SyncStates /\ SyncOwned(own, s) /\ sync \in [Syncers -> SyncStates]
    BY DEF SyncOwners, SyncTyped
  <1>2. sync' = [sync EXCEPT ![s] = new]
    BY DEF Write
  <1>3. PICK ids \in SUBSET Ids : sync[s].writes \in [ids -> Row \cup {None}]
    BY <1>1 DEF SyncStates, Writes
  <1>4. writes \in [ids \cup {id} -> Row \cup {None}]
    BY <1>3 DEF With
  <1>5. writes \in Writes
    BY <1>4 DEF Writes
  <1>6. /\ DOMAIN writes = DOMAIN sync[s].writes \cup {id} /\ writes[id] = row
        /\ \A k \in DOMAIN sync[s].writes \ {id} : writes[k] = sync[s].writes[k]
    BY DEF With
  <1> HIDE DEF writes
  <1>7. /\ new \in SyncStates /\ new.pc = sync[s].pc
        /\ new.user = sync[s].user /\ new.todo = sync[s].todo /\ new.recs \subseteq sync[s].recs
        /\ new.known = sync[s].known /\ new.writes = writes
    BY <1>1, <1>5 DEF SyncStates
  <1> HIDE DEF new
  <1>8. sync'[s] = new /\ \A k \in Syncers : k # s => sync'[k] = sync[k]
    BY <1>1, <1>2
  <1>9. sync' \in [Syncers -> SyncStates]
    BY <1>1, <1>2, <1>7
  <1>10. RecordsOwned(own2, s)'
    BY <1>1, <1>7, <1>8 DEF SyncOwned, RecordsOwned, Agrees, Extended
  <1>11. KnownOwned(own2, s)'
    BY <1>1, <1>7, <1>8 DEF SyncOwned, KnownOwned, Extended
  <1>12. WritesOwned(own2, s)'
    <2>1. ASSUME NEW k \in DOMAIN writes
          PROVE  /\ k \in DOMAIN own2 /\ own2[k] = sync[s].user
                 /\ writes[k] # None => RowOwned(own2, k, writes[k])
      <3>1. CASE k = id
        BY <1>6, <3>1
      <3>2. CASE k # id
        <4>1. /\ k \in DOMAIN sync[s].writes /\ writes[k] = sync[s].writes[k]
              /\ k \in DOMAIN own /\ own[k] = sync[s].user
              /\ writes[k] # None => RowOwned(own, k, writes[k])
          BY <1>1, <1>6, <3>2 DEF SyncOwned, WritesOwned
        <4> QED BY <4>1 DEF RowOwned, Agrees, Extended
      <3> QED BY <3>1, <3>2
    <2> QED BY <1>7, <1>8, <2>1 DEF WritesOwned, RowOwned, Agrees
  <1>13. TodoOwned(s)'
    BY <1>1, <1>7, <1>8 DEF SyncOwned, TodoOwned
  <1>14. /\ ~Doing(s, "idle")' => sync'[s].user \in Users
         /\ sync'[s].pc \in {"requesting", "fetching"} => sync'[s].todo # << >>
    BY <1>1, <1>7, <1>8 DEF SyncOwned, Doing
  <1> QED BY <1>7, <1>8, <1>9, <1>10, <1>11, <1>12, <1>13, <1>14 DEF SyncOwned

\* A write to a row of the batch's user.
LEMMA WriteOwned ==
    ASSUME NEW own, SyncOwners(own), NEW s \in Syncers, Doing(s, "reading"),
           NEW rec, NEW id \in Ids, id \in DOMAIN own, own[id] = sync[s].user,
           NEW row \in Row \cup {None}, row # None => RowOwned(own, id, row),
           Write(s, rec, id, row), UNCHANGED <<vars, lastsync>>
    PROVE  SyncOwners(own)'
  <1>1. MetaxAgrees(own) /\ Extended(own, own) /\ Owners(own)' /\ metax' = metax
    BY MetaxUnchanged, OutsideOwned DEF SyncOwners, Extended, vars, metaxVars
  <1>2. /\ SyncOwned(own, s)' /\ \A k \in Syncers : k # s => sync'[k] = sync[k]
        /\ sync' \in [Syncers -> SyncStates]
    BY <1>1, WriteHolds
  <1>3. SyncTyped'
    BY <1>2 DEF SyncOwners, SyncTyped
  <1> QED BY <1>1, <1>2, <1>3, SyncsStep

\* A batch that is done with some records.
LEMMA DroppedOwned ==
    ASSUME NEW own, SyncOwners(own), NEW s \in Syncers, Doing(s, "reading"),
           NEW recs, recs \subseteq sync[s].recs, sync' = [sync EXCEPT ![s].recs = recs],
           UNCHANGED <<vars, lastsync>>
    PROVE  SyncOwners(own)'
  <1> DEFINE new == [sync[s] EXCEPT !.recs = recs]
  <1>1. sync[s] \in SyncStates /\ SyncOwned(own, s)
    BY DEF SyncOwners, SyncTyped
  <1>2. sync' = [sync EXCEPT ![s] = new]
    OBVIOUS
  <1>3. /\ new \in SyncStates /\ new.pc = sync[s].pc
        /\ new.user = sync[s].user /\ new.todo = sync[s].todo /\ new.recs = recs
        /\ new.known = sync[s].known /\ new.writes = sync[s].writes
    BY <1>1 DEF SyncStates
  <1> HIDE DEF new
  <1>4. sync'[s] = new /\ metax' = metax
    BY <1>2 DEF SyncOwners, SyncTyped, vars
  <1>5. SyncOwned(own, s)'
    BY <1>1, <1>3, <1>4, BatchHolds DEF Doing
  <1> QED BY <1>2, <1>3, <1>5, BatchStep

\* A sync that ends.
LEMMA EndedOwned ==
    ASSUME NEW own, SyncOwners(own), NEW s \in Syncers, UNCHANGED <<vars, lastsync>>,
           sync' = [sync EXCEPT ![s] = SyncIdle]
    PROVE  SyncOwners(own)'
  <1>1. sync'[s] = SyncIdle
    BY DEF SyncOwners, SyncTyped
  <1>2. SyncOwned(own, s)'
    BY <1>1, SyncIdleOwned
  <1> QED BY <1>2, SyncIdleTyped, BatchStep

\* A new record gives a fresh id its owner.
LEMMA CreateWithMetadataOwned ==
    ASSUME NEW own, SyncOwners(own), NEW s \in Syncers, Doing(s, "reading"),
           NEW rec \in sync[s].recs, CreateWithMetadata(s, rec)
    PROVE  SyncOwnersKnown'
  <1>0. PICK user : user = sync[s].user
    OBVIOUS
  <1> DEFINE row  == [owner  |-> user,       published |-> TRUE,
                      synced |-> sync[s].at, blob      |-> rec.blob]
  <1>1. PICK id \in Ids \ minted : Write(s, rec, id, row) /\ minted' = minted \cup {id}
    BY <1>0 DEF CreateWithMetadata
  <1> DEFINE own2 == With(own, id, user)
  <1>2. /\ sync[s] \in SyncStates /\ rec \in MetaxRecord /\ user \in Users
        /\ rec.blob.user = user /\ Agrees(own, rec.blob)
    BY <1>0 DEF SyncOwners, SyncTyped, SyncOwned, RecordsOwned, SyncStates, Doing
  <1>3. row \in Row
    BY <1>2 DEF Row, SyncStates, MetaxRecord
  <1>4. own2 \in [minted' -> Users] /\ Extended(own, own2) /\ id \in DOMAIN own2 /\ own2[id] = user
    BY <1>1, <1>2 DEF With, SyncOwners, Owners, Extended
  <1> HIDE DEF own2
  <1>5. UNCHANGED <<db, req, late, edited, metaxVars, lastsync>> /\ metax' = metax
    BY DEF CreateWithMetadata, metaxVars
  <1>6. MetaxAgrees(own)
    BY <1>5, MetaxUnchanged DEF SyncOwners
  <1>7. /\ IsTable(db)' /\ minted' \subseteq Ids /\ edited' \subseteq Ids /\ late' \subseteq Call
        /\ req' \in [Handlers -> Req] /\ DOMAIN db' \subseteq minted'
    BY <1>1, <1>5 DEF SyncOwners, Owners, TypeOK, IsTable
  <1>8. Owners(own2)'
    BY <1>4, <1>5, <1>6, <1>7, OwnersStep DEF SyncOwners
  <1>9. row.owner = user /\ row.blob = rec.blob
    OBVIOUS
  <1> HIDE DEF row
  <1>10. RowOwned(own2, id, row)
    BY <1>2, <1>4, <1>9 DEF RowOwned, Agrees, Extended
  <1>11. /\ SyncOwned(own2, s)' /\ \A k \in Syncers : k # s => sync'[k] = sync[k]
         /\ sync' \in [Syncers -> SyncStates]
    BY <1>0, <1>1, <1>3, <1>4, <1>5, <1>10, WriteHolds
  <1>12. SyncTyped'
    BY <1>5, <1>11 DEF SyncOwners, SyncTyped
  <1>13. SyncOwners(own2)'
    BY <1>4, <1>6, <1>8, <1>11, <1>12, SyncsStep
  <1> QED BY <1>13 DEF SyncOwnersKnown

LEMMA syncRecordOwned ==
    ASSUME ~MismatchedBodies, NEW own, SyncOwners(own), NEW s \in Syncers, syncRecord(s)
    PROVE  SyncOwnersKnown'
  <1>1. Doing(s, "reading") /\ sync[s] \in SyncStates
    BY DEF syncRecord, SyncOwners, SyncTyped
  <1>2. ASSUME NEW rec \in sync[s].recs, SkipRemoved(s, rec)
        PROVE  SyncOwnersKnown'
    <2>1. sync' = [sync EXCEPT ![s].recs = sync[s].recs \ {rec}] /\ UNCHANGED <<vars, lastsync>>
      BY <1>2 DEF SkipRemoved, SyncOwners, SyncTyped
    <2>2. sync[s].recs \ {rec} \subseteq sync[s].recs
      OBVIOUS
    <2>3. SyncOwners(own)'
      BY <1>1, <2>1, <2>2, DroppedOwned
    <2> QED BY <2>3 DEF SyncOwnersKnown
  <1>3. ASSUME NEW rec \in sync[s].recs, CreateWithMetadata(s, rec)
        PROVE  SyncOwnersKnown'
    BY <1>1, <1>3, CreateWithMetadataOwned
  <1>4. ASSUME NEW rec \in sync[s].recs, NEW id \in RowsFor(s, rec),
               BatchDelete(s, rec, id) \/ UpdateSynced(s, rec, id) \/ BatchUpdate(s, rec, id)
        PROVE  SyncOwnersKnown'
    <2> DEFINE row == Visible(s, id)
    <2>1. id \in Ids /\ id \in DOMAIN own /\ own[id] = sync[s].user
      BY RowsForOwned
    <2>2. row \in Row /\ RowOwned(own, id, row)
      BY <1>4, VisibleOwned DEF BatchDelete, UpdateSynced, BatchUpdate
    <2>3. /\ rec.blob \in Blob /\ rec.blob.user = own[id] /\ Agrees(own, rec.blob)
          /\ sync[s].at \in Nat
      BY <1>1, <2>1 DEF SyncOwners, SyncOwned, RecordsOwned, SyncStates, MetaxRecord
    <2> DEFINE stamped == [row EXCEPT !.synced = sync[s].at]
               updated == [row EXCEPT !.synced = sync[s].at, !.blob = rec.blob]
    <2>4. stamped \in Row /\ stamped.owner = row.owner /\ stamped.blob = row.blob
      BY <2>2, <2>3 DEF Row
    <2>5. updated \in Row /\ updated.owner = row.owner /\ updated.blob = rec.blob
      BY <2>2, <2>3 DEF Row
    <2>6. UNCHANGED <<vars, lastsync>>
      BY <1>4 DEF BatchDelete, UpdateSynced, BatchUpdate
    <2>7. Write(s, rec, id, None) \/ Write(s, rec, id, stamped) \/ Write(s, rec, id, updated)
      BY <1>4 DEF BatchDelete, UpdateSynced, BatchUpdate
    <2> HIDE DEF stamped, updated, row
    <2>8. RowOwned(own, id, stamped) /\ RowOwned(own, id, updated)
      BY <2>2, <2>3, <2>4, <2>5 DEF RowOwned
    <2>9. SyncOwners(own)'
      BY <1>1, <2>1, <2>4, <2>5, <2>6, <2>7, <2>8, WriteOwned
    <2> QED BY <2>9 DEF SyncOwnersKnown
  <1>5. ASSUME NEW rec \in sync[s].recs, NEW id \in RowsFor(s, rec), FailRecord(s, rec, id)
        PROVE  SyncOwnersKnown'
    <2>1. UNCHANGED <<vars, lastsync>>
      BY <1>5 DEF FailRecord
    <2>2. CASE Rpc(s)
      BY <1>5, <2>1, <2>2, EndedOwned DEF FailRecord, SyncOwnersKnown
    <2>3. CASE ~Rpc(s)
      <3>1. sync' = [sync EXCEPT ![s].recs = sync[s].recs \ {rec}]
        BY <1>5, <2>3 DEF FailRecord, SyncOwners, SyncTyped
      <3>2. sync[s].recs \ {rec} \subseteq sync[s].recs
        OBVIOUS
      <3>3. SyncOwners(own)'
        BY <1>1, <2>1, <3>1, <3>2, DroppedOwned
      <3> QED BY <3>3 DEF SyncOwnersKnown
    <2> QED BY <2>2, <2>3
  <1>6. ASSUME NEW rec \in sync[s].recs, RefuseRecord(s, rec)
        PROVE  SyncOwnersKnown'
    <2>1. UNCHANGED <<vars, lastsync>>
      BY <1>6 DEF RefuseRecord
    <2>2. CASE Rpc(s)
      BY <1>6, <2>1, <2>2, EndedOwned DEF RefuseRecord, SyncOwnersKnown
    <2>3. CASE ~Rpc(s)
      <3>1. sync' = [sync EXCEPT ![s].recs = sync[s].recs \ {rec}]
        BY <1>6, <2>3 DEF RefuseRecord, SyncOwners, SyncTyped
      <3>2. sync[s].recs \ {rec} \subseteq sync[s].recs
        OBVIOUS
      <3>3. SyncOwners(own)'
        BY <1>1, <2>1, <3>1, <3>2, DroppedOwned
      <3> QED BY <3>3 DEF SyncOwnersKnown
    <2> QED BY <2>2, <2>3
  <1> QED BY <1>2, <1>3, <1>4, <1>5, <1>6 DEF syncRecord

\* What a batch commits are rows of its user's.
LEMMA CommitOwned ==
    ASSUME NEW own, SyncOwners(own), NEW s \in Syncers, Commit(s)
    PROVE  SyncOwners(own)'
  <1> DEFINE writes == sync[s].writes
             kept   == {id \in DOMAIN db \cup DOMAIN writes : Visible(s, id) # None}
  <1>1. /\ sync[s] \in SyncStates /\ SyncOwned(own, s) /\ ~Doing(s, "idle")
        /\ sync[s].user \in Users
    BY DEF SyncOwners, SyncTyped, SyncOwned, Commit, Doing
  <1>2. /\ db' = [id \in kept |-> Visible(s, id)] /\ edited' \subseteq edited
        /\ lastsync' = [lastsync EXCEPT ![sync[s].user] = clock]
        /\ sync' = [sync EXCEPT ![s] = AfterBatch(s)]
        /\ UNCHANGED <<minted, req, late, metaxVars>>
    BY DEF Commit
  <1>3. \A id \in kept : id \in DOMAIN own
    BY <1>1 DEF SyncOwned, WritesOwned, SyncOwners, Owners
  <1>4. \A id \in kept : Visible(s, id) \in Row /\ RowOwned(own, id, Visible(s, id))
    BY VisibleOwned
  <1> HIDE DEF kept
  <1>5. DOMAIN db' = kept /\ \A id \in kept : db'[id] = Visible(s, id)
    BY <1>2
  <1>6. DOMAIN own = minted /\ minted \subseteq Ids
    BY DEF SyncOwners, Owners, TypeOK
  <1>7. IsTable(db)' /\ DOMAIN db' \subseteq minted
    BY <1>2, <1>3, <1>4, <1>5, <1>6 DEF IsTable
  <1>8. MetaxAgrees(own) /\ Extended(own, own)
    BY <1>2, MetaxUnchanged DEF SyncOwners, Extended
  <1>9. \A id \in DOMAIN db' : RowOwned(own, id, db[id])'
    BY <1>2, <1>4, <1>5 DEF RowOwned, Agrees, metaxVars
  <1>10. Owners(own)'
    <2>1. edited' \subseteq Ids /\ req' \in [Handlers -> Req] /\ late' \subseteq Call
      BY <1>2 DEF SyncOwners, Owners, TypeOK
    <2> QED BY <1>2, <1>7, <1>8, <1>9, <2>1, SameOwnersStep DEF SyncOwners
  <1>11. sync'[s] = AfterBatch(s) /\ metax' = metax
    BY <1>2 DEF SyncOwners, SyncTyped, metaxVars
  <1>12. sync'[s] \in SyncStates /\ SyncOwned(own, s)'
    BY <1>1, <1>11, AfterBatchOwned
  <1>13. SyncTyped'
    <2>1. clock \in Nat
      BY DEF SyncOwners, Owners, TypeOK, MetaxTypeOK
    <2> QED BY <1>1, <1>2, <1>11, <1>12, <2>1 DEF SyncOwners, SyncTyped
  <1>14. \A k \in Syncers : sync'[k] = sync[k] \/ SyncOwned(own, k)'
    BY <1>2, <1>12 DEF SyncOwners, SyncTyped
  <1> QED BY <1>8, <1>10, <1>13, <1>14, SyncsStep

-----------------------------------------------------------------------------
(* The RPC requests, failures and other services.                          *)

\* A step that only changes Metax.
LEMMA OutsideSyncOwned ==
    ASSUME NEW own, SyncOwners(own), MetaxAgrees(own),
           UNCHANGED <<db, minted, req, edited, syncVars>>, late' \subseteq late
    PROVE  SyncOwners(own)'
  <1>1. Owners(own)' /\ Extended(own, own)
    BY OutsideOwned DEF SyncOwners, Extended
  <1>2. SyncTyped'
    BY DEF SyncOwners, SyncTyped, syncVars
  <1> QED BY <1>1, <1>2, SyncsStep DEF syncVars

\* The dataset of an RPC request and its new version are the user's.
LEMMA MetaxRpcOwned ==
    ASSUME NEW own, SyncOwners(own), NEW s \in Syncers, Doing(s, "requesting"),
           NEW blob \in Blob, Agrees(own, blob), blob.user = sync[s].user,
           MetaxRpc(s, blob), UNCHANGED <<db, minted, req, late, edited, lastsync>>
    PROVE  SyncOwners(own)'
  <1> DEFINE todo == sync[s].todo
  <1>1. /\ sync[s] \in SyncStates /\ SyncOwned(own, s) /\ todo \in Seq(Idents)
        /\ todo # << >> /\ sync \in [Syncers -> SyncStates] /\ Owners(own)
    BY DEF SyncOwners, SyncTyped, SyncOwned, Doing, SyncStates
  <1>2. PICK new \in Seq(Idents) :
          /\ MetaxAgrees(own)
          /\ sync' = [sync EXCEPT ![s].pc = "fetching", ![s].todo = new]
          /\ new # << >>
          /\ \A k \in 1 .. Len(new) : /\ new[k] \in DOMAIN metax'
                                      /\ metax'[new[k]].blob.user = sync[s].user
    <2>1. CASE PutDataset(blob) /\ sync' = [sync EXCEPT ![s].pc = "fetching"]
      <3>1. MetaxAgrees(own)
        BY <1>1, <2>1, PutAgrees
      <3>2. [sync[s] EXCEPT !.pc = "fetching"] = [sync[s] EXCEPT !.pc = "fetching", !.todo = todo]
        BY <1>1 DEF SyncStates
      <3>3. sync' = [sync EXCEPT ![s].pc = "fetching", ![s].todo = todo]
        BY <1>1, <2>1, <3>2
      <3>4. \A k \in 1 .. Len(todo) : /\ todo[k] \in DOMAIN metax'
                                      /\ metax'[todo[k]].blob.user = sync[s].user
        BY <1>1, <3>1 DEF SyncOwned, TodoOwned, MetaxAgrees
      <3> QED BY <1>1, <3>1, <3>3, <3>4
    <2>2. ASSUME NEW n \in Idents, PutNewVersion(blob, n),
                 sync' = [sync EXCEPT ![s].pc = "fetching", ![s].todo = Append(@, n)]
          PROVE  \E new \in Seq(Idents) :
                    /\ MetaxAgrees(own)
                    /\ sync' = [sync EXCEPT ![s].pc = "fetching", ![s].todo = new]
                    /\ new # << >>
                    /\ \A k \in 1 .. Len(new) : /\ new[k] \in DOMAIN metax'
                                                /\ metax'[new[k]].blob.user = sync[s].user
      <3> DEFINE new == Append(todo, n)
      <3>1. MetaxAgrees(own) /\ n \in DOMAIN metax' /\ metax'[n].blob.user = sync[s].user
        BY <1>1, <2>2, PutVersionAgrees
      <3>2. /\ new \in Seq(Idents) /\ new # << >> /\ Len(new) = Len(todo) + 1
            /\ \A k \in 1 .. Len(todo) : new[k] = todo[k]
            /\ new[Len(todo) + 1] = n
        BY <1>1, AppendProperties
      <3>3. Len(todo) \in Nat
        BY <1>1
      <3>4. sync' = [sync EXCEPT ![s].pc = "fetching", ![s].todo = new]
        BY <1>1, <2>2 DEF SyncStates
      <3> HIDE DEF new
      <3>5. ASSUME NEW k \in 1 .. Len(new)
            PROVE  new[k] \in DOMAIN metax' /\ metax'[new[k]].blob.user = sync[s].user
        <4>1. CASE k \in 1 .. Len(todo)
          BY <1>1, <3>1, <3>2, <4>1 DEF SyncOwned, TodoOwned, MetaxAgrees
        <4>2. CASE k = Len(todo) + 1
          BY <3>1, <3>2, <4>2
        <4> QED BY <3>2, <3>3, <4>1, <4>2
      <3> QED BY <3>1, <3>2, <3>4, <3>5
    <2> QED BY <2>1, <2>2 DEF MetaxRpc
  <1> DEFINE state == [sync[s] EXCEPT !.pc = "fetching", !.todo = new]
  <1>3. /\ state \in SyncStates /\ state.pc = "fetching"
        /\ state.user = sync[s].user /\ state.todo = new /\ state.recs = sync[s].recs
        /\ state.known = sync[s].known /\ state.writes = sync[s].writes
    BY <1>1 DEF SyncStates, SyncPCs
  <1>4. sync' = [sync EXCEPT ![s] = state]
    BY <1>1, <1>2
  <1> HIDE DEF state
  <1>5. sync'[s] = state /\ \A k \in Syncers : k # s => sync'[k] = sync[k]
    BY <1>1, <1>4
  <1>6. Owners(own)' /\ Extended(own, own)
    BY <1>1, <1>2, OutsideOwned DEF Extended
  <1>7. SyncTyped'
    BY <1>3, <1>4 DEF SyncOwners, SyncTyped
  <1>8. RecordsOwned(own, s)' /\ KnownOwned(own, s)' /\ WritesOwned(own, s)'
    <2>1. RecordsOwned(own, s)'
      BY <1>1, <1>2, <1>3, <1>5, <1>6, GoesOnAgreeing DEF SyncOwned, RecordsOwned
    <2>2. KnownOwned(own, s)'
      BY <1>1, <1>3, <1>5 DEF SyncOwned, KnownOwned
    <2>3. WritesOwned(own, s)'
      BY <1>1, <1>2, <1>3, <1>5, <1>6, WriteGoesOn DEF SyncOwned, WritesOwned
    <2> QED BY <2>1, <2>2, <2>3
  <1>9. TodoOwned(s)'
    BY <1>2, <1>3, <1>5 DEF TodoOwned
  <1>10. SyncOwned(own, s)'
    BY <1>1, <1>2, <1>3, <1>5, <1>8, <1>9 DEF SyncOwned, Doing
  <1> QED BY <1>2, <1>5, <1>6, <1>7, <1>10, SyncsStep

LEMMA RpcOwned ==
    ASSUME NEW own, SyncOwners(own), NEW s \in Syncers,
           ChangeCumulativeState(s) \/ RefreshDirectoryContent(s)
    PROVE  SyncOwners(own)'
  <1> DEFINE i == Head(sync[s].todo)
  <1>1. /\ Doing(s, "requesting") /\ sync[s] \in SyncStates
        /\ SyncOwned(own, s) /\ sync[s].todo # << >>
        /\ UNCHANGED <<db, minted, req, late, edited, lastsync>>
    BY DEF SyncOwners, SyncTyped, SyncOwned, ChangeCumulativeState, RefreshDirectoryContent, Doing
  <1>2. i \in DOMAIN metax /\ metax[i].blob.user = sync[s].user
    <2>1. sync[s].todo \in Seq(Idents)
      BY <1>1 DEF SyncStates
    <2>2. 1 \in 1 .. Len(sync[s].todo) /\ i = sync[s].todo[1]
      BY <1>1, <2>1
    <2> QED BY <1>1, <2>2 DEF SyncOwned, TodoOwned
  <1>3. metax[i].blob \in Blob /\ Agrees(own, metax[i].blob)
    BY <1>2 DEF SyncOwners, Owners, TypeOK, MetaxTypeOK, MetaxRecord
  <1>4. CASE RefreshDirectoryContent(s)
    BY <1>1, <1>2, <1>3, <1>4, MetaxRpcOwned DEF RefreshDirectoryContent
  <1>5. CASE ChangeCumulativeState(s)
    <2>1. PICK cum \in Cums : MetaxRpc(s, [metax[i].blob EXCEPT !.cum = cum])
      BY <1>5 DEF ChangeCumulativeState
    <2> DEFINE blob == [metax[i].blob EXCEPT !.cum = cum]
    <2>2. /\ blob \in Blob /\ blob.user = metax[i].blob.user
          /\ blob.ident = metax[i].blob.ident /\ blob.rec = metax[i].blob.rec
      BY <1>3 DEF Blob
    <2> HIDE DEF blob
    <2>3. Agrees(own, blob) /\ blob.user = sync[s].user /\ MetaxRpc(s, blob)
      BY <1>2, <1>3, <2>1, <2>2 DEF Agrees, blob
    <2> QED BY <1>1, <2>2, <2>3, MetaxRpcOwned
  <1> QED BY <1>4, <1>5

LEMMA TimeoutOwned ==
    ASSUME NEW own, SyncOwners(own), NEW s \in Syncers, Timeout(s)
    PROVE  SyncOwners(own)'
  <1>1. /\ ~Doing(s, "idle") /\ UNCHANGED <<vars, lastsync>> /\ metax' = metax
        /\ sync' = [sync EXCEPT ![s] = AfterBatch(s)]
    BY DEF Timeout, Doing, vars
  <1>2. sync'[s] = AfterBatch(s)
    BY <1>1 DEF SyncOwners, SyncTyped
  <1>3. AfterBatch(s) \in SyncStates /\ SyncOwned(own, s)'
    BY <1>1, <1>2, AfterBatchOwned
  <1> QED BY <1>1, <1>3, BatchStep

\* What other services make in Metax has no editor; what they remove keeps its user.
LEMMA ForeignAgrees ==
    ASSUME NEW own, Owners(own), EditInMetax \/ CreateInMetax \/ RemoveInMetax
    PROVE  MetaxAgrees(own)
  <1>1. CASE CreateInMetax
    <2>1. PICK i \in Idents, u \in Users, rd \in Contents :
            Post(i, [NoBlob EXCEPT !.user = u, !.rd = rd])
      BY <1>1 DEF CreateInMetax
    <2> DEFINE blob == [NoBlob EXCEPT !.user = u, !.rd = rd]
    <2>2. blob \in Blob /\ blob.ident = None /\ blob.rec = None
      BY DEF NoBlob, Blob
    <2>3. Agrees(own, blob)
      BY <2>2 DEF Agrees
    <2> QED BY <2>1, <2>2, <2>3, PostAgrees
  <1> QED BY <1>1, EditInMetaxAgrees, RemoveAgrees DEF RemoveInMetax

-----------------------------------------------------------------------------
(* The invariant holds in every behaviour.                                 *)

LEMMA SyncInitOwned ==
    ASSUME SyncInit
    PROVE  SyncOwnersKnown
  <1> DEFINE own == [id \in {} |-> None]
  <1>1. Owners(own)
    BY InitOwned DEF SyncInit
  <1>2. SyncTyped
    BY SyncIdleTyped DEF SyncInit, SyncTyped
  <1>3. ASSUME NEW s \in Syncers
        PROVE  SyncOwned(own, s)
    <2>1. /\ sync[s].pc = "idle" /\ sync[s].recs = {}
          /\ sync[s].known = NoRows /\ sync[s].writes = NoRows /\ sync[s].todo = << >>
      BY DEF SyncInit, SyncIdle
    <2>2. DOMAIN NoRows = {} /\ 1 .. Len(<< >>) = {}
      BY DEF NoRows
    <2> QED BY <2>1, <2>2
            DEF SyncOwned, Doing, RecordsOwned, KnownOwned, WritesOwned, TodoOwned
  <1> QED BY <1>1, <1>2, <1>3 DEF SyncOwners, SyncOwnersKnown

LEMMA SyncNextOwned ==
    ASSUME ~MismatchedBodies, ~CreatesOverlap, SyncOwnersKnown, [SyncNext]_allVars
    PROVE  SyncOwnersKnown'
  <1>1. PICK own : SyncOwners(own)
    BY DEF SyncOwnersKnown
  <1> SUFFICES ASSUME ~SyncOwnersKnown'
               PROVE  FALSE
    OBVIOUS
  <1>2. \A own2 : ~SyncOwners(own2)'
    BY DEF SyncOwnersKnown
  <1>3. Owners(own) /\ SyncTyped
    BY <1>1 DEF SyncOwners
  <1>4. ASSUME NEW h \in Handlers, HandlerStep(h) \/ Fail(h), UNCHANGED syncVars
        PROVE  FALSE
    <2>1. MetaxAgrees(own) /\ \E own2 : Owners(own2)' /\ Extended(own, own2)
      BY <1>3, <1>4, HandlerOwned
    <2>2. PICK own2 : Owners(own2)' /\ Extended(own, own2)
      BY <2>1
    <2>3. SyncTyped' /\ sync' = sync
      BY <1>3, <1>4 DEF SyncTyped, syncVars
    <2>4. SyncOwners(own2)'
      BY <1>1, <2>1, <2>2, <2>3, SyncsStep
    <2> QED BY <1>2, <2>4
  <1>5. CASE Crash /\ sync' = [s \in Syncers |-> SyncIdle] /\ UNCHANGED lastsync
    <2>1. Owners(own)' /\ MetaxAgrees(own) /\ Extended(own, own)
      BY <1>3, <1>5, CrashOwned, MetaxUnchanged DEF Crash, Extended
    <2>2. SyncTyped'
      BY <1>3, <1>5, SyncIdleTyped DEF SyncTyped
    <2>3. \A s \in Syncers : SyncOwned(own, s)'
      BY <1>5, SyncIdleOwned
    <2>4. SyncOwners(own)'
      BY <1>1, <2>1, <2>2, <2>3, SyncsStep
    <2> QED BY <1>2, <2>4
  <1>6. ASSUME NEW c \in late, LateCall(c), UNCHANGED syncVars
        PROVE  FALSE
    <2>1. SyncOwners(own)'
      BY <1>1, <1>3, <1>6, LateCallAgrees, OutsideSyncOwned DEF LateCall
    <2> QED BY <1>2, <2>1
  <1>7. CASE (EditInMetax \/ CreateInMetax \/ RemoveInMetax) /\ UNCHANGED syncVars
    <2>1. SyncOwners(own)'
      BY <1>1, <1>3, <1>7, ForeignAgrees, OutsideSyncOwned
      DEF EditInMetax, CreateInMetax, RemoveInMetax
    <2> QED BY <1>2, <2>1
  <1>8. ASSUME NEW s \in Syncers, BeginSync(s)
        PROVE  FALSE
    BY <1>1, <1>2, <1>8, BeginSyncOwned
  <1>9. ASSUME NEW s \in Syncers, SyncStep(s)
        PROVE  FALSE
    BY <1>1, <1>2, <1>9, NewBatchOwned, ReadStreamChannelOwned, getSyncInfoOwned,
       syncRecordOwned, CommitOwned, RpcOwned, GetIdOwned DEF SyncStep, SyncOwnersKnown
  <1>10. ASSUME NEW s \in Syncers, SyncFail(s) \/ Timeout(s)
         PROVE  FALSE
    BY <1>1, <1>2, <1>10, EndedOwned, TimeoutOwned DEF SyncFail
  <1>11. ASSUME NEW s \in Syncers, CutOff(s)
         PROVE  FALSE
    <2>1. PICK recs : recs = {}
      OBVIOUS
    <2>2. /\ Doing(s, "reading") /\ recs \subseteq sync[s].recs
          /\ sync' = [sync EXCEPT ![s].recs = recs] /\ UNCHANGED <<vars, lastsync>>
      BY <1>11, <2>1 DEF CutOff
    <2>3. SyncOwners(own)'
      BY <1>1, <2>2, DroppedOwned
    <2> QED BY <1>2, <2>3
  <1>12. CASE UNCHANGED allVars
    <2>1. MetaxAgrees(own)
      BY <1>3, <1>12, MetaxUnchanged DEF allVars, vars, metaxVars
    <2>2. UNCHANGED <<db, minted, req, edited, syncVars>> /\ late' \subseteq late
      BY <1>12 DEF allVars, vars
    <2>3. SyncOwners(own)'
      BY <1>1, <2>1, <2>2, OutsideSyncOwned
    <2> QED BY <1>2, <2>3
  <1> QED BY <1>4, <1>5, <1>6, <1>7, <1>8, <1>9, <1>10, <1>11, <1>12 DEF SyncNext

LEMMA SyncOwnersSound ==
    ASSUME SyncOwnersKnown
    PROVE  SyncTypeOK /\ SyncWritesOwnRows /\ SameOwnerInMetax
  <1>1. PICK own : SyncOwners(own)
    BY DEF SyncOwnersKnown
  <1>2. SameOwnerInMetax
    BY <1>1, OwnersSound DEF SyncOwners, OwnersKnown
  <1>3. SyncWritesOwnRows
    BY <1>1 DEF SyncOwners, SyncOwned, WritesOwned, Owners, RowOwned, SyncWritesOwnRows
  <1>4. lastsync \in [Users -> Nat] /\ \A s \in Syncers : sync[s] \in SyncStates
    BY <1>1 DEF SyncOwners, SyncTyped
  <1>5. ASSUME NEW s \in Syncers
        PROVE  /\ \A id \in DOMAIN sync[s].known : sync[s].known[id] \in Known
               /\ \A id \in DOMAIN sync[s].writes : sync[s].writes[id] \in Row \cup {None}
    <2>1. sync[s].known \in KnownRows /\ sync[s].writes \in Writes
      BY <1>4 DEF SyncStates
    <2> QED BY <2>1 DEF KnownRows, Writes
  <1>6. SyncTypeOK
    BY <1>4, <1>5 DEF SyncTypeOK, SyncStates
  <1> QED BY <1>2, <1>3, <1>6

(* If creates do not overlap, and the id in a request's body is that of    *)
(* its path, the owners of ids are settled for good, in every behaviour of *)
(* requests and syncs.                                                     *)
THEOREM SyncInvariance ==
    ASSUME ~MismatchedBodies, ~CreatesOverlap
    PROVE  SyncSpec => []SyncOwnersKnown
  <1>1. SyncInit => SyncOwnersKnown
    BY SyncInitOwned
  <1>2. SyncOwnersKnown /\ [SyncNext]_allVars => SyncOwnersKnown'
    BY SyncNextOwned
  <1> QED BY <1>1, <1>2, PTL DEF SyncSpec

(* Type correctness of syncs, whatever fails and whatever but creates      *)
(* overlaps.                                                               *)
THEOREM SyncTyping ==
    ASSUME ~MismatchedBodies, ~CreatesOverlap
    PROVE  SyncSpec => []SyncTypeOK
  <1>1. SyncOwnersKnown => SyncTypeOK
    BY SyncOwnersSound
  <1> QED BY <1>1, SyncInvariance, PTL

(* However many syncs and requests overlap, and whatever fails, a batch    *)
(* writes only rows of the user it is for, although a row may have been    *)
(* deleted or made by others since the batch read of it.  Only creates may *)
(* not overlap: a document that has the id of one row and the user of      *)
(* another makes a batch write the row of somebody else.                   *)
THEOREM SyncsWriteOwnRows ==
    ASSUME ~MismatchedBodies, ~CreatesOverlap
    PROVE  SyncSpec => []SyncWritesOwnRows
  <1>1. SyncOwnersKnown => SyncWritesOwnRows
    BY SyncOwnersSound
  <1> QED BY <1>1, SyncInvariance, PTL

(* Syncs, too, leave every published row with a dataset of its owner's, if *)
(* creates do not overlap.                                                 *)
THEOREM SyncOwnersAgree ==
    ASSUME ~MismatchedBodies, ~CreatesOverlap
    PROVE  SyncSpec => []SameOwnerInMetax
  <1>1. SyncOwnersKnown => SameOwnerInMetax
    BY SyncOwnersSound
  <1> QED BY <1>1, SyncInvariance, PTL

-----------------------------------------------------------------------------
(* Which row a dataset of Metax was made of.  A row is made with the       *)
(* identifier of its dataset or, as a draft, without any, and that is      *)
(* settled when its id is made: born is the function that says so.  Every  *)
(* document in the system, in rows, requests, calls, batches and Metax,    *)
(* agrees with it: a document that names a row made with an identifier has *)
(* that identifier, and the documents of one identifier name the same      *)
(* draft, or none of them names a draft.                                   *)

\* The row itself if it was made as a draft.
Origin(born, id) == IF born[id] = None THEN id ELSE None

\* The draft that a document names.
DraftOf(born, b) == IF b.rec = None THEN None ELSE Origin(born, b.rec)

NamesRow(born, b) ==
    b.rec # None => b.rec \in DOMAIN born /\ (born[b.rec] # None => b.ident = born[b.rec])

Traced(born, b) ==
    /\ NamesRow(born, b)
    /\ b.ident # None => /\ b.ident \in DOMAIN metax
                         /\ DraftOf(born, metax[b.ident].blob) = DraftOf(born, b)

\* A document that row id may have.
OfRow(born, id, b) ==
    /\ Traced(born, b)
    /\ DraftOf(born, b) = Origin(born, id)
    /\ born[id] # None => b.ident = born[id]

\* An identifier that row id may have.
MadeOf(born, id, i) ==
    /\ i \in DOMAIN metax
    /\ DraftOf(born, metax[i].blob) = Origin(born, id)
    /\ born[id] # None => i = born[id]

RequestTraced(born, h) ==
    /\ ~At(h, "patching") => Traced(born, req[h].blob)
    /\ req[h].pc \in {"storing", "stored"} => OfRow(born, req[h].id, req[h].blob)
    /\ At(h, "landing") => req[h].blob.ident # None /\ DraftOf(born, req[h].blob) = None
    /\ req[h].new # None => DraftOf(born, metax[req[h].new].blob) = None

RecordTraced(born, rec) ==
    /\ Traced(born, rec.blob)
    /\ rec.blob.ident # None
    /\ rec.removed => Gone(rec.blob.ident)

\* What a batch has written to row id: a row it deletes was made of a removed dataset,
\* or that dataset of it.
WriteTraced(born, id, row) ==
    /\ row # None => OfRow(born, id, row.blob)
    /\ row = None => \E i : Gone(i) /\ MadeOf(born, id, i)

BatchTraced(born, s) ==
    /\ \A rec \in sync[s].recs : RecordTraced(born, rec)
    /\ \A id \in DOMAIN sync[s].known :
          sync[s].known[id].ident # None => MadeOf(born, id, sync[s].known[id].ident)
    /\ \A id \in DOMAIN sync[s].writes : WriteTraced(born, id, sync[s].writes[id])

Lineage(born) ==
    /\ born \in [minted -> Idents \cup {None}]
    /\ \A id \in DOMAIN db : OfRow(born, id, db[id].blob)
    /\ \A i \in DOMAIN metax : Traced(born, metax[i].blob)
    /\ \A c \in late : Traced(born, c.blob)
    /\ \A h \in Handlers : RequestTraced(born, h)
    /\ \A s \in Syncers : BatchTraced(born, s)

LineageKnown == \E born : Lineage(born)

\* Metax keeps what its datasets were made of, and does not bring one back.
MetaxTraced(born) ==
    /\ \A i \in DOMAIN metax :
          /\ i \in DOMAIN metax'
          /\ DraftOf(born, metax'[i].blob) = DraftOf(born, metax[i].blob)
          /\ metax[i].removed => metax'[i].removed
    /\ \A i \in DOMAIN metax : Traced(born, metax[i].blob)
    /\ \A i \in DOMAIN metax' : Traced(born, metax[i].blob)'

-----------------------------------------------------------------------------
(* A document, a row's identifier and the state of a request or a sync     *)
(* stay traced when Metax changes and ids are made.                        *)

LEMMA SameDraft ==
    ASSUME NEW born, NEW born2, Extended(born, born2), NEW b, NamesRow(born, b)
    PROVE  DraftOf(born2, b) = DraftOf(born, b) /\ NamesRow(born2, b)
  BY DEF Extended, NamesRow, DraftOf, Origin

LEMMA StaysTraced ==
    ASSUME NEW born, NEW born2, MetaxTraced(born), Extended(born, born2),
           NEW b, Traced(born, b)
    PROVE  Traced(born2, b)'
  <1>1. NamesRow(born2, b) /\ DraftOf(born2, b) = DraftOf(born, b)
    BY SameDraft DEF Traced
  <1>2. ASSUME b.ident # None
        PROVE  /\ b.ident \in DOMAIN metax'
               /\ DraftOf(born2, metax'[b.ident].blob) = DraftOf(born2, b)
    <2>1. b.ident \in DOMAIN metax /\ b.ident \in DOMAIN metax'
      BY <1>2 DEF Traced, MetaxTraced
    <2>2. NamesRow(born, metax'[b.ident].blob)
      BY <2>1 DEF MetaxTraced, Traced
    <2>3. DraftOf(born2, metax'[b.ident].blob) = DraftOf(born, metax'[b.ident].blob)
      BY <2>2, SameDraft
    <2> QED BY <1>1, <1>2, <2>1, <2>3 DEF Traced, MetaxTraced
  <1> QED BY <1>1, <1>2 DEF Traced

LEMMA StaysOfRow ==
    ASSUME NEW born, NEW born2, MetaxTraced(born), Extended(born, born2),
           NEW id \in DOMAIN born, NEW b, OfRow(born, id, b)
    PROVE  OfRow(born2, id, b)'
  <1>1. Traced(born2, b)'
    BY StaysTraced DEF OfRow
  <1>2. DraftOf(born2, b) = DraftOf(born, b)
    BY SameDraft DEF OfRow, Traced
  <1> QED BY <1>1, <1>2 DEF OfRow, Origin, Extended

LEMMA StaysMadeOf ==
    ASSUME NEW born, NEW born2, MetaxTraced(born), Extended(born, born2),
           NEW id \in DOMAIN born, NEW i, MadeOf(born, id, i)
    PROVE  MadeOf(born2, id, i)' /\ (Gone(i) => Gone(i)')
  <1>1. i \in DOMAIN metax /\ i \in DOMAIN metax' /\ (Gone(i) => Gone(i)')
    BY DEF MadeOf, MetaxTraced, Gone
  <1>2. NamesRow(born, metax'[i].blob)
    BY <1>1 DEF MetaxTraced, Traced
  <1>3. DraftOf(born2, metax'[i].blob) = DraftOf(born, metax'[i].blob)
    BY <1>2, SameDraft
  <1> QED BY <1>1, <1>3 DEF MadeOf, MetaxTraced, Origin, Extended

LEMMA StaysRequestTraced ==
    ASSUME NEW own, NEW born, NEW born2, MetaxTraced(born), Extended(born, born2),
           NEW h \in Handlers, Served(own, h), DOMAIN own = DOMAIN born,
           RequestTraced(born, h), req'[h] = req[h]
    PROVE  RequestTraced(born2, h)'
  <1>1. ~At(h, "patching") => Traced(born2, req[h].blob)'
    BY StaysTraced DEF RequestTraced, At
  <1>2. req[h].pc \in {"storing", "stored"} => OfRow(born2, req[h].id, req[h].blob)'
    BY StaysOfRow DEF RequestTraced, Served, At
  <1>3. At(h, "landing") => req[h].blob.ident # None /\ DraftOf(born2, req[h].blob) = None
    BY SameDraft DEF RequestTraced, Traced, At
  <1>4. req[h].new # None => DraftOf(born2, metax'[req[h].new].blob) = None
    <2>1. req[h].new # None => /\ req[h].new \in DOMAIN metax
                               /\ DraftOf(born, metax'[req[h].new].blob) = None
                               /\ NamesRow(born, metax'[req[h].new].blob)
      BY DEF Served, RequestTraced, MetaxTraced, Traced
    <2> QED BY <2>1, SameDraft
  <1> QED BY <1>1, <1>2, <1>3, <1>4 DEF RequestTraced, At

\* Records, known rows and writes that a batch had it may have.
LEMMA StaysRecordTraced ==
    ASSUME NEW born, NEW born2, MetaxTraced(born), Extended(born, born2),
           NEW rec, RecordTraced(born, rec)
    PROVE  RecordTraced(born2, rec)'
  <1>1. Traced(born2, rec.blob)'
    BY StaysTraced DEF RecordTraced
  <1> QED BY <1>1 DEF RecordTraced, MetaxTraced, Gone

LEMMA StaysWriteTraced ==
    ASSUME NEW born, NEW born2, MetaxTraced(born), Extended(born, born2),
           NEW id \in DOMAIN born, NEW row, WriteTraced(born, id, row)
    PROVE  WriteTraced(born2, id, row)'
  <1>1. CASE row # None
    BY <1>1, StaysOfRow DEF WriteTraced
  <1>2. CASE row = None
    BY <1>2, StaysMadeOf DEF WriteTraced
  <1> QED BY <1>1, <1>2

\* A batch that has only what it had, and perhaps one more write.
LEMMA StaysBatchTraced ==
    ASSUME NEW own, NEW born, NEW born2, MetaxTraced(born), Extended(born, born2),
           NEW s \in Syncers, SyncOwned(own, s), DOMAIN own = DOMAIN born,
           BatchTraced(born, s), sync'[s].recs \subseteq sync[s].recs,
           sync'[s].known = sync[s].known,
           \A id \in DOMAIN sync'[s].writes :
              \/ id \in DOMAIN sync[s].writes /\ sync'[s].writes[id] = sync[s].writes[id]
              \/ \A row : row = sync'[s].writes[id] => WriteTraced(born2, id, row)'
    PROVE  BatchTraced(born2, s)'
  <1>1. \A rec \in sync'[s].recs : RecordTraced(born2, rec)'
    BY StaysRecordTraced DEF BatchTraced
  <1>2. ASSUME NEW id \in DOMAIN sync[s].known, NEW i, i = sync[s].known[id].ident, i # None
        PROVE  MadeOf(born2, id, i)'
    BY <1>2, StaysMadeOf DEF BatchTraced, SyncOwned, KnownOwned
  <1>3. ASSUME NEW id \in DOMAIN sync'[s].writes, NEW row, row = sync'[s].writes[id]
        PROVE  WriteTraced(born2, id, row)'
    <2>1. CASE id \in DOMAIN sync[s].writes /\ sync'[s].writes[id] = sync[s].writes[id]
      BY <1>3, <2>1, StaysWriteTraced DEF BatchTraced, SyncOwned, WritesOwned
    <2> QED BY <1>3, <2>1
  <1> QED BY <1>1, <1>2, <1>3 DEF BatchTraced

\* A batch that has nothing yet.
LEMMA EmptyBatchTraced ==
    ASSUME NEW born, NEW s \in Syncers, sync'[s].recs = {}, sync'[s].known = NoRows,
           sync'[s].writes = NoRows
    PROVE  BatchTraced(born, s)'
  <1>1. DOMAIN NoRows = {}
    BY DEF NoRows
  <1> QED BY <1>1 DEF BatchTraced

\* A step that may make ids: it accounts for the rows it writes, the calls it leaves
\* behind, and the requests and syncs it moves on.
LEMMA LineageStep ==
    ASSUME NEW own, NEW born, NEW born2, SyncOwners(own), Lineage(born),
           born2 \in [minted' -> Idents \cup {None}], Extended(born, born2), MetaxTraced(born),
           \A id \in DOMAIN db' : \/ id \in DOMAIN db /\ db'[id].blob = db[id].blob
                                  \/ OfRow(born2, id, db[id].blob)',
           \A c \in late' : c \in late \/ Traced(born, c.blob),
           \A h \in Handlers : req'[h] = req[h] \/ RequestTraced(born2, h)',
           \A s \in Syncers : sync'[s] = sync[s] \/ BatchTraced(born2, s)'
    PROVE  Lineage(born2)'
  <1>1. DOMAIN own = DOMAIN born /\ DOMAIN db \subseteq DOMAIN born
    BY DEF SyncOwners, Owners, Lineage
  <1>2. ASSUME NEW id \in DOMAIN db'
        PROVE  OfRow(born2, id, db[id].blob)'
    <2>1. CASE id \in DOMAIN db /\ db'[id].blob = db[id].blob
      BY <1>1, <2>1, StaysOfRow DEF Lineage
    <2> QED BY <1>2, <2>1
  <1>3. ASSUME NEW i \in DOMAIN metax'
        PROVE  Traced(born2, metax[i].blob)'
    <2>1. Traced(born, metax[i].blob)'
      BY <1>3 DEF MetaxTraced
    <2>2. ASSUME NEW j \in DOMAIN metax'
          PROVE  /\ NamesRow(born2, metax'[j].blob)
                 /\ DraftOf(born2, metax'[j].blob) = DraftOf(born, metax'[j].blob)
      BY <2>2, SameDraft DEF MetaxTraced, Traced
    <2> QED BY <1>3, <2>1, <2>2 DEF Traced
  <1>4. \A c \in late' : Traced(born2, c.blob)'
    BY StaysTraced DEF Lineage
  <1>5. ASSUME NEW h \in Handlers
        PROVE  RequestTraced(born2, h)'
    BY <1>1, StaysRequestTraced DEF SyncOwners, Owners, Lineage
  <1>6. ASSUME NEW s \in Syncers
        PROVE  BatchTraced(born2, s)'
    BY <1>1, StaysBatchTraced DEF SyncOwners, Lineage
  <1> QED BY <1>2, <1>3, <1>4, <1>5, <1>6 DEF Lineage

\* A step that makes no id.
LEMMA SameLineageStep ==
    ASSUME NEW own, NEW born, SyncOwners(own), Lineage(born), UNCHANGED minted,
           MetaxTraced(born),
           \A id \in DOMAIN db' : \/ id \in DOMAIN db /\ db'[id].blob = db[id].blob
                                  \/ OfRow(born, id, db[id].blob)',
           \A c \in late' : c \in late \/ Traced(born, c.blob),
           \A h \in Handlers : req'[h] = req[h] \/ RequestTraced(born, h)',
           \A s \in Syncers : sync'[s] = sync[s] \/ BatchTraced(born, s)'
    PROVE  LineageKnown'
  <1>1. born \in [minted' -> Idents \cup {None}] /\ Extended(born, born)
    BY DEF Lineage, Extended
  <1>2. Lineage(born)'
    BY <1>1, LineageStep
  <1> QED BY <1>2 DEF LineageKnown

-----------------------------------------------------------------------------
(* What Metax stores keeps what the dataset was made of.                   *)

LEMMA StoredTraced ==
    ASSUME NEW own, NEW born, SyncOwners(own), Lineage(born), NEW i, NEW rec,
           rec.blob.ident = i, NamesRow(born, rec.blob),
           i \in DOMAIN metax => /\ DraftOf(born, metax[i].blob) = DraftOf(born, rec.blob)
                                 /\ metax[i].removed => rec.removed,
           metax' = With(metax, i, rec)
    PROVE  MetaxTraced(born)
  <1>1. /\ DOMAIN metax' = DOMAIN metax \cup {i} /\ metax'[i] = rec
        /\ \A k \in DOMAIN metax \ {i} : metax'[k] = metax[k]
    BY DEF With
  <1>2. \A k \in DOMAIN metax : metax[k].blob.ident = k /\ NamesRow(born, metax[k].blob)
    BY DEF SyncOwners, Owners, MetaxIdents, Lineage, Traced
  <1>3. \A k \in DOMAIN metax' : metax'[k].blob.ident = k /\ NamesRow(born, metax'[k].blob)
    BY <1>1, <1>2
  <1> QED BY <1>1, <1>3 DEF MetaxTraced, Lineage, Traced

\* A document without identifier names no row, or a draft.
LEMMA Unidentified ==
    ASSUME NEW own, NEW born, SyncOwners(own), Lineage(born), NEW b, Traced(born, b),
           b.ident = None
    PROVE  b.rec # None => b.rec \in DOMAIN born /\ born[b.rec] = None
  BY DEF Traced, NamesRow

LEMMA PostTraced ==
    ASSUME NEW own, NEW born, SyncOwners(own), Lineage(born), NEW i, NEW blob \in Blob,
           blob.ident = None, Traced(born, blob), Post(i, blob)
    PROVE  /\ MetaxTraced(born) /\ i \in DOMAIN metax'
           /\ metax'[i].blob.ident = i /\ metax'[i].blob.rec = blob.rec
  <1>1. /\ Stored(i, blob).blob.ident = i /\ Stored(i, blob).blob.rec = blob.rec
        /\ metax' = With(metax, i, Stored(i, blob)) /\ i \notin DOMAIN metax
    BY DEF Stored, Blob, Post
  <1>2. NamesRow(born, Stored(i, blob).blob)
    BY <1>1, Unidentified DEF NamesRow
  <1>3. i \in DOMAIN metax' /\ metax'[i] = Stored(i, blob)
    BY <1>1 DEF With
  <1> QED BY <1>1, <1>2, <1>3, StoredTraced

LEMMA PutTraced ==
    ASSUME NEW own, NEW born, SyncOwners(own), Lineage(born), NEW blob \in Blob,
           Traced(born, blob), PutDataset(blob)
    PROVE  /\ MetaxTraced(born) /\ blob.ident \in DOMAIN metax' /\ blob.ident # None
           /\ metax'[blob.ident].blob.ident = blob.ident
           /\ metax'[blob.ident].blob.rec = blob.rec
  <1> DEFINE i == blob.ident
  <1>1. /\ i \in DOMAIN metax /\ i \in Idents /\ i # None /\ ~metax[i].removed
        /\ metax' = With(metax, i, Stored(i, blob))
    BY NoneAssumption DEF SyncOwners, Owners, TypeOK, MetaxTypeOK, PutDataset, Live
  <1>2. Stored(i, blob).blob.ident = i /\ Stored(i, blob).blob.rec = blob.rec
    BY DEF Stored, Blob
  <1>3. /\ NamesRow(born, Stored(i, blob).blob)
        /\ DraftOf(born, metax[i].blob) = DraftOf(born, Stored(i, blob).blob)
    BY <1>1, <1>2 DEF Traced, NamesRow, DraftOf
  <1>4. i \in DOMAIN metax' /\ metax'[i] = Stored(i, blob)
    BY <1>1 DEF With
  <1> HIDE DEF i
  <1>5. MetaxTraced(born)
    BY <1>1, <1>2, <1>3, StoredTraced
  <1> QED BY <1>1, <1>2, <1>4, <1>5 DEF i

LEMMA PutVersionTraced ==
    ASSUME NEW own, NEW born, SyncOwners(own), Lineage(born), NEW n \in Idents,
           NEW blob \in Blob, Traced(born, blob), PutNewVersion(blob, n)
    PROVE  /\ MetaxTraced(born) /\ blob.ident \in DOMAIN metax' /\ blob.ident # None
           /\ metax'[blob.ident].blob.ident = blob.ident
           /\ metax'[blob.ident].blob.rec = blob.rec
           /\ n \in DOMAIN metax' /\ DraftOf(born, metax'[n].blob) = None
  <1> DEFINE i       == blob.ident
             version == [blob EXCEPT !.rec = None]
             first   == Stored(i, blob)
             second  == Stored(n, version)
  <1>1. /\ i \in DOMAIN metax /\ i # None /\ ~metax[i].removed /\ n \notin DOMAIN metax
    BY NoneAssumption DEF SyncOwners, Owners, TypeOK, MetaxTypeOK, PutNewVersion, Live
  <1>2. metax' = With(With(metax, i, first), n, second)
    BY DEF PutNewVersion
  <1>3. first.blob.ident = i /\ first.blob.rec = blob.rec
    BY DEF Stored, Blob
  <1>4. second.blob.ident = n /\ second.blob.rec = None
    BY DEF Stored, Blob
  <1>5. Traced(born, blob) /\ blob.ident = i
    OBVIOUS
  <1> HIDE DEF first, second, i
  <1>6. /\ DOMAIN metax' = DOMAIN metax \cup {n}
        /\ metax'[n] = second /\ metax'[i] = first /\ i # n
        /\ \A k \in DOMAIN metax \ {i} : metax'[k] = metax[k]
    BY <1>1, <1>2 DEF With
  <1>7. /\ NamesRow(born, first.blob) /\ NamesRow(born, second.blob)
        /\ DraftOf(born, first.blob) = DraftOf(born, metax[i].blob)
        /\ DraftOf(born, second.blob) = None
    BY <1>1, <1>3, <1>4, <1>5 DEF Traced, NamesRow, DraftOf
  <1>8. \A k \in DOMAIN metax : metax[k].blob.ident = k /\ NamesRow(born, metax[k].blob)
    BY DEF SyncOwners, Owners, MetaxIdents, Lineage, Traced
  <1>9. \A k \in DOMAIN metax' : metax'[k].blob.ident = k /\ NamesRow(born, metax'[k].blob)
    BY <1>3, <1>4, <1>6, <1>7, <1>8
  <1>10. MetaxTraced(born)
    BY <1>1, <1>6, <1>7, <1>9 DEF MetaxTraced, Lineage, Traced
  <1> QED BY <1>1, <1>3, <1>5, <1>6, <1>7, <1>10 DEF i

LEMMA RemoveTraced ==
    ASSUME NEW own, NEW born, SyncOwners(own), Lineage(born), NEW i, RemoveDataset(i)
    PROVE  MetaxTraced(born)
  <1> DEFINE doc == [metax[i].blob EXCEPT !.date = clock + 1]
             rec == [blob |-> doc, removed |-> TRUE]
  <1>1. i \in DOMAIN metax /\ metax[i].blob \in Blob /\ metax[i].blob.ident = i
    BY DEF SyncOwners, Owners, TypeOK, MetaxTypeOK, MetaxIdents, MetaxRecord, RemoveDataset, Live
  <1>2. doc.ident = i /\ doc.rec = metax[i].blob.rec
    BY <1>1 DEF Blob
  <1>3. metax' = With(metax, i, rec) /\ rec.blob = doc /\ rec.removed
    BY DEF RemoveDataset
  <1>4. Traced(born, metax[i].blob)
    BY <1>1 DEF Lineage
  <1> HIDE DEF doc, rec
  <1>5. NamesRow(born, rec.blob) /\ DraftOf(born, metax[i].blob) = DraftOf(born, rec.blob)
    BY <1>1, <1>2, <1>3, <1>4 DEF Traced, NamesRow, DraftOf
  <1> QED BY <1>2, <1>3, <1>5, StoredTraced

LEMMA EditTraced ==
    ASSUME NEW own, NEW born, SyncOwners(own), Lineage(born), NEW i, NEW rd, ForeignEdit(i, rd)
    PROVE  MetaxTraced(born)
  <1> DEFINE doc == [metax[i].blob EXCEPT !.rd = rd]
             rec == Stored(i, doc)
  <1>1. /\ i \in DOMAIN metax /\ ~metax[i].removed
        /\ metax[i].blob \in Blob /\ metax[i].blob.ident = i
    BY DEF SyncOwners, Owners, TypeOK, MetaxTypeOK, MetaxIdents, MetaxRecord, ForeignEdit, Live
  <1>2. rec.blob.ident = i /\ rec.blob.rec = metax[i].blob.rec
    BY <1>1 DEF Stored, Blob
  <1>3. metax' = With(metax, i, rec)
    BY DEF ForeignEdit
  <1>4. Traced(born, metax[i].blob)
    BY <1>1 DEF Lineage
  <1> HIDE DEF doc, rec
  <1>5. NamesRow(born, rec.blob) /\ DraftOf(born, metax[i].blob) = DraftOf(born, rec.blob)
    BY <1>1, <1>2, <1>4 DEF Traced, NamesRow, DraftOf
  <1> QED BY <1>1, <1>2, <1>3, <1>5, StoredTraced

LEMMA UnchangedTraced ==
    ASSUME NEW born, Lineage(born), UNCHANGED metax
    PROVE  MetaxTraced(born)
  BY DEF Lineage, MetaxTraced, Traced

-----------------------------------------------------------------------------
(* Steps of the request handlers.                                          *)

\* A step of handler h that writes no row.
LEMMA RequestLineage ==
    ASSUME NEW own, NEW born, SyncOwners(own), Lineage(born), NEW h \in Handlers, Others(h),
           UNCHANGED <<db, minted, late, sync>>, MetaxTraced(born), RequestTraced(born, h)'
    PROVE  LineageKnown'
  <1>1. \A k \in Handlers : req'[k] = req[k] \/ RequestTraced(born, k)'
    BY DEF Others
  <1> QED BY <1>1, SameLineageStep

LEMMA IdleTraced ==
    ASSUME NEW born, NEW h \in Handlers, req'[h] = Idle
    PROVE  RequestTraced(born, h)'
  <1>1. req'[h].pc = "idle" /\ req'[h].new = None /\ req'[h].blob = NoBlob
    BY DEF Idle
  <1>2. NoBlob.ident = None /\ NoBlob.rec = None
    BY DEF NoBlob
  <1> QED BY <1>1, <1>2 DEF RequestTraced, At, Traced, NamesRow

\* The steps that read a row.
LEMMA ReadRowTraced ==
    ASSUME NEW own, NEW born, SyncOwners(own), Lineage(born), NEW h \in Handlers,
           ValidateUpdate(h) \/ GetForPublish(h) \/ GetForDelete(h) \/ GetForUnpublish(h),
           UNCHANGED sync
    PROVE  LineageKnown'
  <1> TypeOK
    BY DEF SyncOwners, Owners
  <1>1. UNCHANGED <<db, minted, late, metax>>
    BY DEF ValidateUpdate, GetForPublish, GetForDelete, GetForUnpublish, metaxVars
  <1>2. MetaxTraced(born)
    BY <1>1, UnchangedTraced
  <1>3. CASE ValidateUpdate(h)
    <2>1. PICK user, id, blob : Begin(h, "patching", user, id, blob)
      BY <1>3 DEF ValidateUpdate
    <2>2. Others(h) /\ req'[h].pc = "patching" /\ req'[h].new = None
      BY <2>1 DEF Begin, Others, TypeOK
    <2>3. RequestTraced(born, h)'
      BY <2>2 DEF RequestTraced, At
    <2> QED BY <1>1, <1>2, <2>2, <2>3, RequestLineage
  <1>4. CASE GetForPublish(h)
    <2>1. PICK user \in Users, id \in DOMAIN db : Begin(h, "storing", user, id, db[id].blob)
      BY <1>4 DEF GetForPublish, Owned
    <2>2. /\ Others(h) /\ req'[h].pc = "storing" /\ req'[h].new = None
          /\ req'[h].id = id /\ req'[h].blob = db[id].blob
      BY <2>1 DEF Begin, Others, TypeOK
    <2>3. OfRow(born, id, db[id].blob)
      BY DEF Lineage
    <2>4. RequestTraced(born, h)'
      BY <1>1, <2>2, <2>3 DEF RequestTraced, At, OfRow, Traced
    <2> QED BY <1>1, <1>2, <2>2, <2>4, RequestLineage
  <1>5. CASE GetForDelete(h)
    <2>1. PICK user \in Users, id \in DOMAIN db, pc \in {"unlisting", "deleting"} :
            Begin(h, pc, user, id, NoBlob)
      BY <1>5 DEF GetForDelete, Owned
    <2>2. Others(h) /\ req'[h].pc = pc /\ req'[h].new = None /\ req'[h].blob = NoBlob
      BY <2>1 DEF Begin, Others, TypeOK
    <2>3. NoBlob.ident = None /\ NoBlob.rec = None
      BY DEF NoBlob
    <2>4. RequestTraced(born, h)'
      BY <2>2, <2>3 DEF RequestTraced, At, Traced, NamesRow
    <2> QED BY <1>1, <1>2, <2>2, <2>4, RequestLineage
  <1>6. CASE GetForUnpublish(h)
    <2>1. /\ Others(h) /\ req'[h].pc = "removing" /\ req'[h].new = None
          /\ req'[h].blob = db[req[h].id].blob
      BY <1>6 DEF GetForUnpublish, Answered, Others, TypeOK, Req
    <2>2. OfRow(born, req[h].id, db[req[h].id].blob)
      BY <1>6 DEF GetForUnpublish, Owned, Lineage
    <2>3. RequestTraced(born, h)'
      BY <1>1, <2>1, <2>2 DEF RequestTraced, At, OfRow, Traced
    <2> QED BY <1>1, <1>2, <2>1, <2>3, RequestLineage
  <1> QED BY <1>3, <1>4, <1>5, <1>6

\* The answer to a publish is a document its row may have.
LEMMA AnswerOfRow ==
    ASSUME NEW own, NEW born, SyncOwners(own), Lineage(born), NEW h \in Handlers,
           At(h, "storing"), MetaxTraced(born), NEW i, i \in DOMAIN metax', i # None,
           metax'[i].blob.ident = i, metax'[i].blob.rec = req[h].blob.rec,
           req[h].blob.ident \in {None, i},
           NEW new, new # None => DraftOf(born, metax'[new].blob) = None,
           Answered(h, "stored", metax'[i].blob, new), UNCHANGED <<db, minted, late, sync>>
    PROVE  LineageKnown'
  <1>1. PICK id : id = req[h].id
    OBVIOUS
  <1>2. /\ Others(h) /\ req'[h].pc = "stored" /\ req'[h].new = new
        /\ req'[h].blob = metax'[i].blob /\ req'[h].id = id
    BY <1>1 DEF Answered, Others, SyncOwners, Owners, TypeOK, Req
  <1>3. OfRow(born, id, req[h].blob)
    BY <1>1 DEF Lineage, RequestTraced, At
  <1>4. Traced(born, metax[i].blob)'
    BY DEF MetaxTraced
  <1>5. DraftOf(born, metax'[i].blob) = Origin(born, id)
    BY <1>3 DEF OfRow, DraftOf
  <1>6. born[id] # None => i = born[id]
    BY <1>3 DEF OfRow
  <1>7. OfRow(born, id, metax[i].blob)'
    BY <1>4, <1>5, <1>6 DEF OfRow
  <1>8. RequestTraced(born, h)'
    BY <1>2, <1>4, <1>7 DEF RequestTraced, At, OfRow, Traced
  <1> QED BY <1>2, <1>8, RequestLineage

LEMMA StoringTraced ==
    ASSUME NEW own, NEW born, SyncOwners(own), Lineage(born), NEW h \in Handlers,
           StoreCreated(h) \/ StoreUpdated(h) \/ StoreMadeVersion(h), UNCHANGED sync
    PROVE  LineageKnown'
  <1>1. /\ At(h, "storing") /\ req[h].blob \in Blob
        /\ UNCHANGED <<db, minted, late, sync>>
    BY DEF StoreCreated, StoreUpdated, StoreMadeVersion, SyncOwners, Owners, TypeOK, Req
  <1>2. Traced(born, req[h].blob)
    BY <1>1 DEF Lineage, RequestTraced, At
  <1>3. CASE StoreCreated(h)
    <2>1. PICK i \in Idents : Post(i, req[h].blob) /\ Answered(h, "stored", metax'[i].blob, None)
      BY <1>3 DEF StoreCreated
    <2>2. /\ MetaxTraced(born) /\ i \in DOMAIN metax'
          /\ metax'[i].blob.ident = i /\ metax'[i].blob.rec = req[h].blob.rec
      BY <1>1, <1>2, <1>3, <2>1, PostTraced DEF StoreCreated
    <2> QED BY <1>1, <1>3, <2>1, <2>2, AnswerOfRow, NoneAssumption DEF StoreCreated
  <1>4. CASE StoreUpdated(h)
    <2>1. PutDataset(req[h].blob) /\ Answered(h, "stored", metax'[req[h].blob.ident].blob, None)
      BY <1>4 DEF StoreUpdated
    <2> QED BY <1>1, <1>2, <2>1, PutTraced, AnswerOfRow
  <1>5. CASE StoreMadeVersion(h)
    <2>1. PICK n \in Idents : /\ PutNewVersion(req[h].blob, n)
                              /\ Answered(h, "stored", metax'[req[h].blob.ident].blob, n)
      BY <1>5 DEF StoreMadeVersion
    <2> QED BY <1>1, <1>2, <2>1, PutVersionTraced, AnswerOfRow
  <1> QED BY <1>3, <1>4, <1>5

LEMMA GetNewVersionTraced ==
    ASSUME NEW own, NEW born, SyncOwners(own), Lineage(born), NEW h \in Handlers,
           GetNewVersion(h), UNCHANGED sync
    PROVE  LineageKnown'
  <1> DEFINE n == req[h].new
  <1>1. /\ At(h, "getting") /\ n \in DOMAIN metax /\ UNCHANGED <<db, minted, late, metax>>
        /\ Answered(h, "landing", metax[n].blob, n)
    BY DEF GetNewVersion, Live, metaxVars
  <1>2. /\ Others(h) /\ req'[h].pc = "landing" /\ req'[h].new = n /\ req'[h].blob = metax[n].blob
    BY <1>1 DEF Answered, Others, SyncOwners, Owners, TypeOK, Req
  <1>3. n \in Idents /\ metax[n].blob.ident = n /\ n # None
    BY <1>1, NoneAssumption DEF SyncOwners, Owners, TypeOK, MetaxTypeOK, MetaxIdents
  <1>4. Traced(born, metax[n].blob) /\ DraftOf(born, metax[n].blob) = None
    BY <1>1, <1>3 DEF Lineage, RequestTraced
  <1> HIDE DEF n
  <1>5. RequestTraced(born, h)'
    BY <1>1, <1>2, <1>3, <1>4 DEF RequestTraced, At, Traced
  <1>6. MetaxTraced(born)
    BY <1>1, UnchangedTraced
  <1> QED BY <1>1, <1>2, <1>5, <1>6, RequestLineage

LEMMA DeleteInMetaxTraced ==
    ASSUME NEW own, NEW born, SyncOwners(own), Lineage(born), NEW h \in Handlers,
           DeleteInMetax(h), UNCHANGED sync
    PROVE  LineageKnown'
  <1>1. MetaxTraced(born)
    BY RemoveTraced DEF DeleteInMetax
  <1>2. /\ Others(h) /\ req'[h].pc = "deleting" /\ req'[h].new = req[h].new
        /\ req'[h].blob = req[h].blob /\ UNCHANGED <<db, minted, late>> /\ At(h, "removing")
    BY Goes DEF DeleteInMetax, SyncOwners, Owners, PCs
  <1>3. Traced(born, req[h].blob) /\ Extended(born, born) /\ Served(own, h)
    BY <1>2 DEF Lineage, RequestTraced, At, Extended, SyncOwners, Owners
  <1>4. Traced(born, req[h].blob)'
    BY <1>1, <1>2, <1>3, StaysTraced
  <1>5. req'[h].new # None => DraftOf(born, metax'[req'[h].new].blob) = None
    BY <1>1, <1>2, <1>3 DEF Lineage, RequestTraced, Served, MetaxTraced
  <1>6. RequestTraced(born, h)'
    BY <1>2, <1>4, <1>5 DEF RequestTraced, At
  <1> QED BY <1>1, <1>2, <1>6, RequestLineage

\* The steps that write rows of ids made before.
LEMMA RowStepTraced ==
    ASSUME ~MismatchedBodies, NEW own, NEW born, SyncOwners(own), Lineage(born), NEW h \in Handlers,
           SmartUpdateWithOwner(h) \/ StorePublished(h) \/ Delete(h), UNCHANGED sync
    PROVE  LineageKnown'
  <1> TypeOK /\ DOMAIN db \subseteq DOMAIN born
    BY DEF SyncOwners, Owners, Lineage
  <1>1. UNCHANGED <<minted, late, metax>> /\ Extended(born, born)
    BY DEF SmartUpdateWithOwner, StorePublished, Delete, metaxVars, Extended
  <1>2. MetaxTraced(born)
    BY <1>1, UnchangedTraced
  <1>3. CASE SmartUpdateWithOwner(h)
    <2> DEFINE id  == req[h].id
               row == PatchRow(db[id], req[h].blob)
    <2>1. id \in DOMAIN db /\ db[id] \in Row /\ req[h].blob \in Blob /\ id \in Ids
      BY <1>3 DEF SmartUpdateWithOwner, Owned, TypeOK, IsTable, Req
    <2>2. req[h].blob.rec = id
      BY <1>3 DEF SmartUpdateWithOwner, SyncOwners, Owners, Served
    <2>3. row.blob.rec = id /\ row.blob.ident = db[id].blob.ident
      BY <2>1, <2>2 DEF PatchRow, MergeBlob, Row, Blob
    <2>4. OfRow(born, id, db[id].blob)
      BY <2>1 DEF Lineage
    <2>5. id # None /\ id \in DOMAIN born
      BY <2>1, NoneAssumption
    <2>6. db' = With(db, id, row)
      BY <1>3 DEF SmartUpdateWithOwner
    <2> HIDE DEF id, row
    <2>7. OfRow(born, id, row.blob)
      BY <2>3, <2>4, <2>5 DEF OfRow, Traced, NamesRow, DraftOf
    <2>8. \A k \in Handlers : req'[k] = req[k] \/ RequestTraced(born, k)'
      BY <1>3, Ends, IdleTraced DEF SmartUpdateWithOwner, Others
    <2>9. DOMAIN db' = DOMAIN db /\ db'[id] = row /\ \A a \in DOMAIN db \ {id} : db'[a] = db[a]
      BY <2>1, <2>6 DEF With, id
    <2>10. \A a \in DOMAIN db' : \/ a \in DOMAIN db /\ db'[a].blob = db[a].blob
                                 \/ OfRow(born, a, db[a].blob)'
      BY <1>1, <2>7, <2>9 DEF OfRow, Traced
    <2> QED BY <1>1, <1>2, <2>8, <2>10, SameLineageStep
  <1>4. CASE StorePublished(h)
    <2> DEFINE id  == req[h].id
               row == PublishedRow(db[id], req[h].blob, req[h].blob.date)
    <2>1. id \in DOMAIN db /\ db[id] \in Row /\ At(h, "stored")
      BY <1>4 DEF StorePublished, TypeOK, IsTable
    <2>2. row.blob = req[h].blob /\ OfRow(born, id, req[h].blob)
      BY <2>1 DEF PublishedRow, Row, Lineage, RequestTraced, At
    <2>3. db' = With(db, id, row)
      BY <1>4 DEF StorePublished
    <2> HIDE DEF id, row
    <2>4. DOMAIN db' = DOMAIN db /\ db'[id] = row /\ \A a \in DOMAIN db \ {id} : db'[a] = db[a]
      BY <2>1, <2>3 DEF With
    <2>5. \A a \in DOMAIN db' : \/ a \in DOMAIN db /\ db'[a].blob = db[a].blob
                                \/ OfRow(born, a, db[a].blob)'
      BY <1>1, <2>2, <2>4 DEF OfRow, Traced
    <2>6. RequestTraced(born, h)' /\ Others(h)
      <3>1. CASE req[h].new = None
        BY <1>4, <3>1, Ends, IdleTraced DEF StorePublished
      <3>2. CASE req[h].new # None
        <4>1. /\ Others(h) /\ req'[h].pc = "getting" /\ req'[h].new = req[h].new
              /\ req'[h].blob = req[h].blob
          BY <1>4, <3>2, Goes DEF StorePublished, PCs
        <4>2. /\ Traced(born, req[h].blob)
              /\ req[h].new # None => DraftOf(born, metax[req[h].new].blob) = None
          BY <2>1 DEF Lineage, RequestTraced, At
        <4> QED BY <1>1, <4>1, <4>2 DEF RequestTraced, At, Traced
      <3> QED BY <3>1, <3>2
    <2>7. \A k \in Handlers : req'[k] = req[k] \/ RequestTraced(born, k)'
      BY <2>6 DEF Others
    <2> QED BY <1>1, <1>2, <2>5, <2>7, SameLineageStep
  <1>5. CASE Delete(h)
    <2>1. \A a \in DOMAIN db' : a \in DOMAIN db /\ db'[a].blob = db[a].blob
      BY <1>5 DEF Delete, Without
    <2>2. \A k \in Handlers : req'[k] = req[k] \/ RequestTraced(born, k)'
      BY <1>5, Ends, IdleTraced DEF Delete, Others
    <2> QED BY <1>1, <1>2, <2>1, <2>2, SameLineageStep
  <1> QED BY <1>3, <1>4, <1>5

\* A step that makes an id: its row has no identifier and names itself, or has one and
\* names no draft.
LEMMA RowMadeTraced ==
    ASSUME NEW own, NEW born, SyncOwners(own), Lineage(born), UNCHANGED <<late, metax, sync>>,
           \A b : \A h \in Handlers : req'[h] = req[h] \/ RequestTraced(b, h)',
           NEW id \in Ids \ minted, NEW row, NEW i \in Idents \cup {None}, row.blob.ident = i,
           i = None => row.blob.rec = id,
           i # None => Traced(born, row.blob) /\ DraftOf(born, row.blob) = None,
           db' = With(db, id, row), minted' = minted \cup {id}
    PROVE  LineageKnown'
  <1> DEFINE born2 == With(born, id, i)
  <1>1. MetaxTraced(born)
    BY UnchangedTraced
  <1>2. id # None
    BY NoneAssumption
  <1>3. /\ born2 \in [minted' -> Idents \cup {None}] /\ Extended(born, born2)
        /\ id \in DOMAIN born2 /\ born2[id] = i
    BY DEF With, Lineage, Extended
  <1> HIDE DEF born2
  <1>4. OfRow(born2, id, row.blob)'
    <2>1. CASE i = None
      BY <1>2, <1>3, <2>1 DEF OfRow, Traced, NamesRow, DraftOf, Origin
    <2>2. CASE i # None
      <3>1. Traced(born2, row.blob)'
        BY <1>1, <1>3, <2>2, StaysTraced
      <3>2. DraftOf(born2, row.blob) = None
        BY <1>3, <2>2, SameDraft DEF Traced
      <3> QED BY <1>3, <2>2, <3>1, <3>2 DEF OfRow, Origin
    <2> QED BY <2>1, <2>2
  <1>5. /\ DOMAIN db' = DOMAIN db \cup {id} /\ db'[id] = row
        /\ \A a \in DOMAIN db \ {id} : db'[a] = db[a]
    BY DEF With
  <1>6. \A a \in DOMAIN db' : \/ a \in DOMAIN db /\ db'[a].blob = db[a].blob
                              \/ OfRow(born2, a, db[a].blob)'
    BY <1>4, <1>5
  <1>7. Lineage(born2)'
    BY <1>1, <1>3, <1>6, LineageStep
  <1> QED BY <1>7 DEF LineageKnown

LEMMA CreateDatasetTraced ==
    ASSUME ~CreatesOverlap, NEW own, NEW born, SyncOwners(own), Lineage(born), NEW h \in Handlers,
           CreateDataset(h), UNCHANGED sync
    PROVE  LineageKnown'
  <1>1. PICK user \in Users, id \in NewIds \ minted, rd \in Contents, cum \in Cums \cup {None} :
          /\ db' = With(db, id, NewRow(user, CreateData(id, user, rd, cum)))
          /\ minted' = minted \cup {id}
    BY OwnTemplate
  <1> DEFINE row == NewRow(user, CreateData(id, user, rd, cum))
  <1>2. row.blob.ident = None /\ row.blob.rec = id
    BY DEF NewRow, CreateData, NoBlob
  <1> HIDE DEF row
  <1>3. UNCHANGED <<req, late, metax>>
    BY DEF CreateDataset, metaxVars
  <1> QED BY <1>1, <1>2, <1>3, RowMadeTraced, PublishAssumption DEF row

LEMMA StoreNewVersionTraced ==
    ASSUME NEW own, NEW born, SyncOwners(own), Lineage(born), NEW h \in Handlers,
           StoreNewVersion(h), UNCHANGED sync
    PROVE  LineageKnown'
  <1> TypeOK
    BY DEF SyncOwners, Owners
  <1>1. PICK id \in Ids \ minted :
          /\ db' = With(db, id, NewVersionRow(db[req[h].id], req[h].blob, req[h].blob.date))
          /\ minted' = minted \cup {id}
    BY DEF StoreNewVersion
  <1> DEFINE row == NewVersionRow(db[req[h].id], req[h].blob, req[h].blob.date)
  <1>2. row.blob = req[h].blob
    BY DEF NewVersionRow
  <1>3. /\ Traced(born, req[h].blob) /\ req[h].blob.ident # None
        /\ DraftOf(born, req[h].blob) = None /\ req[h].blob.ident \in Idents \cup {None}
    BY DEF StoreNewVersion, Lineage, RequestTraced, At, TypeOK, Req, Blob
  <1> HIDE DEF row
  <1>4. \A b : \A k \in Handlers : req'[k] = req[k] \/ RequestTraced(b, k)'
    BY Ends, IdleTraced DEF StoreNewVersion, Others
  <1>5. UNCHANGED <<late, metax>>
    BY DEF StoreNewVersion, metaxVars
  <1> QED BY <1>1, <1>2, <1>3, <1>4, <1>5, RowMadeTraced DEF row

-----------------------------------------------------------------------------
(* Failures, late calls and other services.                                *)

LEMMA OutstandingTraced ==
    ASSUME NEW born, Lineage(born), NEW h \in Handlers, NEW c \in Outstanding(h)
    PROVE  Traced(born, c.blob)
  <1>1. CASE At(h, "storing") \/ At(h, "removing")
    <2>1. c.blob = req[h].blob
      BY <1>1 DEF Outstanding, At
    <2> QED BY <1>1, <2>1 DEF Lineage, RequestTraced, At
  <1>2. CASE ~(At(h, "storing") \/ At(h, "removing"))
    BY <1>2 DEF Outstanding
  <1> QED BY <1>1, <1>2

LEMMA FailTraced ==
    ASSUME NEW own, NEW born, SyncOwners(own), Lineage(born), NEW h \in Handlers, Fail(h),
           UNCHANGED sync
    PROVE  LineageKnown'
  <1>1. UNCHANGED <<db, minted, metax>> /\ End(h)
    BY DEF Fail, metaxVars
  <1>2. MetaxTraced(born)
    BY <1>1, UnchangedTraced
  <1>3. \A k \in Handlers : req'[k] = req[k] \/ RequestTraced(born, k)'
    BY <1>1, Ends, IdleTraced DEF Others, SyncOwners, Owners
  <1>4. \A c \in late' : c \in late \/ Traced(born, c.blob)
    BY OutstandingTraced DEF Fail, LeftBehind
  <1> QED BY <1>1, <1>2, <1>3, <1>4, SameLineageStep

LEMMA CrashTraced ==
    ASSUME NEW own, NEW born, SyncOwners(own), Lineage(born), Crash,
           sync' = [s \in Syncers |-> SyncIdle]
    PROVE  LineageKnown'
  <1>1. UNCHANGED <<db, minted, metax>> /\ req' = [h \in Handlers |-> Idle]
    BY DEF Crash, metaxVars
  <1>2. MetaxTraced(born)
    BY <1>1, UnchangedTraced
  <1>3. \A h \in Handlers : RequestTraced(born, h)'
    BY <1>1, IdleTraced
  <1>4. \A c \in late' : c \in late \/ Traced(born, c.blob)
    BY OutstandingTraced DEF Crash, LeftBehind
  <1>5. \A s \in Syncers : BatchTraced(born, s)'
    BY EmptyBatchTraced DEF SyncIdle
  <1> QED BY <1>1, <1>2, <1>3, <1>4, <1>5, SameLineageStep

\* A step that only changes Metax.
LEMMA OutsideTraced ==
    ASSUME NEW own, NEW born, SyncOwners(own), Lineage(born),
           (\E c \in late : LateCall(c)) \/ EditInMetax \/ CreateInMetax \/ RemoveInMetax,
           UNCHANGED sync
    PROVE  LineageKnown'
  <1>1. UNCHANGED <<db, minted, req>> /\ late' \subseteq late
    BY DEF LateCall, EditInMetax, CreateInMetax, RemoveInMetax
  <1>2. MetaxTraced(born)
    <2>1. ASSUME NEW c \in late, LateCall(c)
          PROVE  MetaxTraced(born)
      <3>1. c.blob \in Blob /\ Traced(born, c.blob)
        BY DEF SyncOwners, Owners, TypeOK, Call, Lineage
      <3> QED BY <2>1, <3>1, PostTraced, PutTraced, PutVersionTraced, RemoveTraced DEF LateCall
    <2>2. CASE EditInMetax
      BY <2>2, EditTraced DEF EditInMetax
    <2>3. CASE CreateInMetax
      <3>1. PICK i \in Idents, u \in Users, rd \in Contents :
              Post(i, [NoBlob EXCEPT !.user = u, !.rd = rd])
        BY <2>3 DEF CreateInMetax
      <3> DEFINE blob == [NoBlob EXCEPT !.user = u, !.rd = rd]
      <3>2. blob \in Blob /\ blob.ident = None /\ blob.rec = None
        BY DEF NoBlob, Blob
      <3> HIDE DEF blob
      <3>3. Traced(born, blob) /\ Post(i, blob)
        BY <3>1, <3>2 DEF Traced, NamesRow, blob
      <3> QED BY <3>2, <3>3, PostTraced
    <2>4. CASE RemoveInMetax
      BY <2>4, RemoveTraced DEF RemoveInMetax
    <2> QED BY <2>1, <2>2, <2>3, <2>4
  <1> QED BY <1>1, <1>2, SameLineageStep

-----------------------------------------------------------------------------
(* Steps of the syncs.                                                     *)

\* A step of sync s that leaves the rows and the requests alone.
LEMMA BatchLineage ==
    ASSUME NEW own, NEW born, SyncOwners(own), Lineage(born), NEW s \in Syncers,
           UNCHANGED <<db, minted, req, late>>, MetaxTraced(born),
           NEW new, sync' = [sync EXCEPT ![s] = new], BatchTraced(born, s)'
    PROVE  LineageKnown'
  <1>1. \A k \in Syncers : sync'[k] = sync[k] \/ BatchTraced(born, k)'
    BY DEF SyncOwners, SyncTyped
  <1> QED BY <1>1, SameLineageStep

\* A batch ends, and so its writes are forgotten.
LEMMA BatchEnded ==
    ASSUME NEW own, SyncOwners(own), NEW s \in Syncers,
           NEW new \in {AfterBatch(s), SyncIdle}, sync' = [sync EXCEPT ![s] = new]
    PROVE  \A born : BatchTraced(born, s)'
  <1>1. /\ AfterBatch(s).recs = {} /\ AfterBatch(s).known = NoRows
        /\ AfterBatch(s).writes = NoRows
    BY DEF AfterBatch, SyncIdle
  <1>2. SyncIdle.recs = {} /\ SyncIdle.known = NoRows /\ SyncIdle.writes = NoRows
    BY DEF SyncIdle
  <1>3. sync'[s] = new
    BY DEF SyncOwners, SyncTyped
  <1> QED BY <1>1, <1>2, <1>3, EmptyBatchTraced

\* The steps by which a sync begins or ends without a commit.
LEMMA BeginEndTraced ==
    ASSUME NEW own, NEW born, SyncOwners(own), Lineage(born), NEW s \in Syncers,
           BeginSync(s) \/ SyncFail(s) \/ Timeout(s)
    PROVE  LineageKnown'
  <1>1. UNCHANGED <<db, minted, req, late, metax>>
    BY DEF BeginSync, Fetch, FetchAll, GetForRpc, SyncFail, Timeout, vars
  <1>2. MetaxTraced(born)
    BY <1>1, UnchangedTraced
  <1>3. CASE BeginSync(s)
    <2>1. ASSUME NEW new, sync' = [sync EXCEPT ![s] = new],
                 new.recs = {}, new.known = NoRows, new.writes = NoRows
          PROVE  LineageKnown'
      <3>1. sync'[s] = new
        BY <2>1 DEF SyncOwners, SyncTyped
      <3> QED BY <1>1, <1>2, <2>1, <3>1, EmptyBatchTraced, BatchLineage
    <2>2. CASE Fetch(s)
      <3>1. PICK u \in Users :
              sync' = [sync EXCEPT ![s] = [SyncIdle EXCEPT !.pc = "starting", !.user = u,
                                                           !.since = lastsync[u]]]
        BY <2>2 DEF Fetch
      <3> DEFINE new == [SyncIdle EXCEPT !.pc = "starting", !.user = u, !.since = lastsync[u]]
      <3>2. sync' = [sync EXCEPT ![s] = new]
        BY <3>1
      <3>3. new.recs = {} /\ new.known = NoRows /\ new.writes = NoRows
        BY DEF SyncIdle
      <3> HIDE DEF new
      <3> QED BY <2>1, <3>2, <3>3
    <2>3. CASE FetchAll(s)
      <3>1. PICK u \in Users :
              sync' = [sync EXCEPT ![s] = [SyncIdle EXCEPT !.pc = "starting", !.user = u]]
        BY <2>3 DEF FetchAll
      <3> DEFINE new == [SyncIdle EXCEPT !.pc = "starting", !.user = u]
      <3>2. sync' = [sync EXCEPT ![s] = new]
        BY <3>1
      <3>3. new.recs = {} /\ new.known = NoRows /\ new.writes = NoRows
        BY DEF SyncIdle
      <3> HIDE DEF new
      <3> QED BY <2>1, <3>2, <3>3
    <2>4. CASE GetForRpc(s)
      <3>1. PICK u, i :
              sync' = [sync EXCEPT ![s] = [SyncIdle EXCEPT !.pc = "requesting", !.user = u,
                                                           !.todo = <<i>>]]
        BY <2>4 DEF GetForRpc
      <3> DEFINE new == [SyncIdle EXCEPT !.pc = "requesting", !.user = u, !.todo = <<i>>]
      <3>2. sync' = [sync EXCEPT ![s] = new]
        BY <3>1
      <3>3. new.recs = {} /\ new.known = NoRows /\ new.writes = NoRows
        BY DEF SyncIdle
      <3> HIDE DEF new
      <3> QED BY <2>1, <3>2, <3>3
    <2> QED BY <1>3, <2>2, <2>3, <2>4 DEF BeginSync
  <1>4. CASE SyncFail(s)
    BY <1>1, <1>2, <1>4, BatchEnded, BatchLineage DEF SyncFail
  <1>5. CASE Timeout(s)
    BY <1>1, <1>2, <1>5, BatchEnded, BatchLineage DEF Timeout
  <1> QED BY <1>3, <1>4, <1>5

\* A step after which a sync has records of Metax and rows of the table besides what
\* it had.
LEMMA ReadHolds ==
    ASSUME NEW own, NEW born, SyncOwners(own), Lineage(born), NEW s \in Syncers,
           UNCHANGED <<db, minted, req, late, metax>>,
           NEW new, sync' = [sync EXCEPT ![s] = new], new.writes = sync[s].writes,
           \A rec \in new.recs : rec \in sync[s].recs \/ \E i \in DOMAIN metax : rec = metax[i],
           \/ new.known = sync[s].known
           \/ \A id \in DOMAIN new.known : /\ id \in DOMAIN db
                                           /\ new.known[id].ident = db[id].blob.ident
    PROVE  LineageKnown'
  <1>1. MetaxTraced(born) /\ BatchTraced(born, s)
    BY UnchangedTraced DEF Lineage
  <1>2. sync'[s] = new
    BY DEF SyncOwners, SyncTyped
  <1>3. \A i \in DOMAIN metax : RecordTraced(born, metax[i])
    BY NoneAssumption
    DEF Lineage, RecordTraced, SyncOwners, Owners, TypeOK, MetaxTypeOK, MetaxIdents, Gone
  <1>4. \A id \in DOMAIN db : db[id].blob.ident # None => MadeOf(born, id, db[id].blob.ident)
    BY DEF Lineage, OfRow, Traced, MadeOf
  <1>5. /\ \A rec \in new.recs : RecordTraced(born, rec)
        /\ \A id \in DOMAIN new.known :
              new.known[id].ident # None => MadeOf(born, id, new.known[id].ident)
        /\ \A id \in DOMAIN new.writes : WriteTraced(born, id, new.writes[id])
    BY <1>1, <1>3, <1>4 DEF BatchTraced
  <1>6. BatchTraced(born, s)'
    <2>1. \A rec \in new.recs : RecordTraced(born, rec)'
      BY <1>5 DEF RecordTraced, Traced, Gone
    <2>2. \A id \in DOMAIN new.known :
             new.known[id].ident # None => MadeOf(born, id, new.known[id].ident)'
      BY <1>5 DEF MadeOf
    <2>3. \A id \in DOMAIN new.writes : WriteTraced(born, id, new.writes[id])'
      BY <1>5 DEF WriteTraced, MadeOf, OfRow, Traced, Gone
    <2> QED BY <1>2, <2>1, <2>2, <2>3 DEF BatchTraced
  <1> QED BY <1>1, <1>6, BatchLineage

\* The steps that read: Metax's records, and the user's rows.
LEMMA ReadingTraced ==
    ASSUME NEW own, NEW born, SyncOwners(own), Lineage(born), NEW s \in Syncers,
           NewBatchForUser(s) \/ ReadStreamChannel(s) \/ getSyncInfo(s) \/ GetId(s) \/ CutOff(s)
    PROVE  LineageKnown'
  <1>1. UNCHANGED <<db, minted, req, late, metax>>
    BY DEF NewBatchForUser, ReadStreamChannel, getSyncInfo, GetId, CutOff, vars
  <1>2. sync[s] \in SyncStates
    BY DEF SyncOwners, SyncTyped
  <1>3. CASE NewBatchForUser(s)
    <2> DEFINE new == [sync[s] EXCEPT !.at = clock, !.pc = IF Rpc(s) THEN "loading" ELSE "querying"]
    <2>1. sync' = [sync EXCEPT ![s] = new]
      BY <1>3 DEF NewBatchForUser
    <2>2. /\ new.writes = sync[s].writes /\ new.recs = sync[s].recs
          /\ new.known = sync[s].known
      BY <1>2 DEF SyncStates
    <2> HIDE DEF new
    <2> QED BY <1>1, <2>1, <2>2, ReadHolds
  <1>4. CASE ReadStreamChannel(s)
    <2> DEFINE found == {i \in DOMAIN metax : Queried(s, metax[i])}
               new   == [sync[s] EXCEPT !.recs = {metax[i] : i \in found},
                                        !.pc = IF found = {} THEN "reading" ELSE "loading"]
    <2>1. sync' = [sync EXCEPT ![s] = new]
      BY <1>4 DEF ReadStreamChannel
    <2>2. /\ new.writes = sync[s].writes /\ new.recs = {metax[i] : i \in found}
          /\ new.known = sync[s].known
      BY <1>2 DEF SyncStates
    <2>3. /\ \A rec \in new.recs : rec \in sync[s].recs \/ \E i \in DOMAIN metax : rec = metax[i]
          /\ new.writes = sync[s].writes /\ new.known = sync[s].known
      BY <2>2
    <2> HIDE DEF new, found
    <2> QED BY <1>1, <2>1, <2>3, ReadHolds
  <1>5. CASE getSyncInfo(s)
    <2>1. PICK rows \in SUBSET Owned(db, sync[s].user) :
            sync' = [sync EXCEPT ![s].pc = "reading",
                                 ![s].known = [id \in rows |-> [ident  |-> db[id].blob.ident,
                                                                synced |-> db[id].synced]]]
      BY <1>5 DEF getSyncInfo
    <2> DEFINE known == [id \in rows |-> [ident  |-> db[id].blob.ident, synced |-> db[id].synced]]
               new   == [sync[s] EXCEPT !.pc = "reading", !.known = known]
    <2>2. sync' = [sync EXCEPT ![s] = new]
      BY <2>1
    <2>3. \A id \in DOMAIN known : id \in DOMAIN db /\ known[id].ident = db[id].blob.ident
      BY DEF Owned
    <2> HIDE DEF known
    <2>4. new.writes = sync[s].writes /\ new.recs = sync[s].recs /\ new.known = known
      BY <1>2 DEF SyncStates
    <2> HIDE DEF new
    <2> QED BY <1>1, <2>2, <2>3, <2>4, ReadHolds
  <1>6. CASE GetId(s)
    <2> DEFINE i   == Head(sync[s].todo)
               new == [sync[s] EXCEPT !.pc = "opening", !.recs = {metax[i]}]
    <2>1. sync' = [sync EXCEPT ![s] = new] /\ i \in DOMAIN metax
      BY <1>6 DEF GetId, Live
    <2>2. /\ new.writes = sync[s].writes /\ new.recs = {metax[i]} /\ new.known = sync[s].known
      BY <1>2 DEF SyncStates
    <2>3. \A rec \in new.recs : rec \in sync[s].recs \/ \E k \in DOMAIN metax : rec = metax[k]
      BY <2>1, <2>2
    <2> HIDE DEF new, i
    <2> QED BY <1>1, <2>1, <2>2, <2>3, ReadHolds
  <1>7. CASE CutOff(s)
    <2> DEFINE new == [sync[s] EXCEPT !.recs = {}]
    <2>1. sync' = [sync EXCEPT ![s] = new]
      BY <1>7 DEF CutOff
    <2>2. new.writes = sync[s].writes /\ new.recs = {} /\ new.known = sync[s].known
      BY <1>2 DEF SyncStates
    <2> HIDE DEF new
    <2> QED BY <1>1, <2>1, <2>2, ReadHolds
  <1> QED BY <1>3, <1>4, <1>5, <1>6, <1>7

-----------------------------------------------------------------------------
(* The records of a batch, its commit, and the RPC requests.               *)

\* The rows a record is taken for are of its dataset, and deleted for it only if Metax
\* removed the dataset they were made of.
LEMMA RowsForTraced ==
    ASSUME NEW own, NEW born, SyncOwners(own), Lineage(born), NEW s \in Syncers,
           NEW rec \in sync[s].recs, NEW id \in RowsFor(s, rec)
    PROVE  OfRow(born, id, rec.blob) /\ (rec.removed => WriteTraced(born, id, None))
  <1>1. RecordTraced(born, rec) /\ BatchTraced(born, s)
    BY DEF Lineage, BatchTraced
  <1>2. CASE rec.blob.rec # None
    <2>1. id = rec.blob.rec
      BY <1>2 DEF RowsFor, ToQvain
    <2> QED BY <1>1, <1>2, <2>1
            DEF RecordTraced, WriteTraced, OfRow, MadeOf, Traced, NamesRow, DraftOf
  <1>3. CASE rec.blob.rec = None
    <2>1. id \in DOMAIN sync[s].known /\ sync[s].known[id].ident = rec.blob.ident
      BY <1>3 DEF RowsFor, ToQvain
    <2>2. MadeOf(born, id, rec.blob.ident)
      BY <1>1, <2>1 DEF BatchTraced, RecordTraced
    <2>3. OfRow(born, id, rec.blob)
      BY <1>1, <2>2 DEF RecordTraced, OfRow, MadeOf, Traced
    <2> QED BY <1>1, <2>2, <2>3 DEF RecordTraced, WriteTraced
  <1> QED BY <1>2, <1>3

LEMMA VisibleOfRow ==
    ASSUME NEW born, Lineage(born), NEW s \in Syncers, NEW id, Visible(s, id) # None
    PROVE  OfRow(born, id, Visible(s, id).blob)
  <1>1. CASE id \in DOMAIN sync[s].writes
    BY <1>1 DEF Visible, Lineage, BatchTraced, WriteTraced
  <1>2. CASE id \notin DOMAIN sync[s].writes
    BY <1>2 DEF Visible, Lineage
  <1> QED BY <1>1, <1>2

\* The batches after a write of one of them, when an id may have been made.
LEMMA WriteKept ==
    ASSUME NEW own, NEW born, NEW born2, SyncOwners(own), Lineage(born),
           Extended(born, born2), UNCHANGED metax, NEW s \in Syncers,
           NEW rec, NEW id, NEW row, WriteTraced(born2, id, row), Write(s, rec, id, row)
    PROVE  \A k \in Syncers : sync'[k] = sync[k] \/ BatchTraced(born2, k)'
  <1> DEFINE writes == With(sync[s].writes, id, row)
             new    == [sync[s] EXCEPT !.writes = writes, !.recs = @ \ {rec}]
  <1>1. /\ sync[s] \in SyncStates /\ SyncOwned(own, s) /\ sync \in [Syncers -> SyncStates]
        /\ DOMAIN own = DOMAIN born /\ BatchTraced(born, s) /\ MetaxTraced(born)
    BY UnchangedTraced DEF SyncOwners, SyncTyped, Owners, Lineage
  <1>2. sync' = [sync EXCEPT ![s] = new]
    BY DEF Write
  <1>3. /\ DOMAIN writes = DOMAIN sync[s].writes \cup {id} /\ writes[id] = row
        /\ \A k \in DOMAIN sync[s].writes \ {id} : writes[k] = sync[s].writes[k]
    BY DEF With
  <1> HIDE DEF writes
  <1>4. /\ new.recs \subseteq sync[s].recs
        /\ new.known = sync[s].known /\ new.writes = writes
    BY <1>1 DEF SyncStates
  <1> HIDE DEF new
  <1>5. sync'[s] = new /\ \A k \in Syncers : k # s => sync'[k] = sync[k]
    BY <1>1, <1>2
  <1>6. WriteTraced(born2, id, row)'
    BY DEF WriteTraced, OfRow, Traced, MadeOf, Gone
  <1>7. \A k \in DOMAIN sync'[s].writes :
           \/ k \in DOMAIN sync[s].writes /\ sync'[s].writes[k] = sync[s].writes[k]
           \/ \A r : r = sync'[s].writes[k] => WriteTraced(born2, k, r)'
    BY <1>3, <1>4, <1>5, <1>6
  <1>8. BatchTraced(born2, s)'
    BY <1>1, <1>4, <1>5, <1>7, StaysBatchTraced
  <1> QED BY <1>5, <1>8

\* A new row is made with the identifier of its record, which names no row.
LEMMA CreateWithMetadataTraced ==
    ASSUME NEW own, NEW born, SyncOwners(own), Lineage(born), NEW s \in Syncers,
           Doing(s, "reading"), NEW rec \in sync[s].recs, CreateWithMetadata(s, rec)
    PROVE  LineageKnown'
  <1> DEFINE row == [owner  |-> sync[s].user, published |-> TRUE,
                     synced |-> sync[s].at,   blob      |-> rec.blob]
             ident == rec.blob.ident
  <1>1. PICK id \in Ids \ minted : Write(s, rec, id, row) /\ minted' = minted \cup {id}
    BY DEF CreateWithMetadata
  <1>2. UNCHANGED <<db, req, late, metax>>
    BY DEF CreateWithMetadata, metaxVars
  <1>3. rec.blob.rec = None
    BY DEF CreateWithMetadata, RowsFor, ToQvain
  <1>4. RecordTraced(born, rec)
    BY DEF Lineage, BatchTraced
  <1>5. /\ ident # None /\ ident \in DOMAIN metax /\ ident \in Idents
        /\ DraftOf(born, metax[ident].blob) = None /\ NamesRow(born, metax[ident].blob)
    BY <1>3, <1>4
    DEF RecordTraced, Traced, DraftOf, Lineage, SyncOwners, Owners, TypeOK, MetaxTypeOK
  <1> DEFINE born2 == With(born, id, ident)
  <1>6. /\ born2 \in [minted' -> Idents \cup {None}] /\ Extended(born, born2)
        /\ id \in DOMAIN born2 /\ born2[id] = ident
    BY <1>1, <1>5 DEF With, Lineage, Extended
  <1>7. row.blob = rec.blob
    OBVIOUS
  <1> HIDE DEF born2, row
  <1>8. DraftOf(born2, metax[ident].blob) = None
    BY <1>5, <1>6, SameDraft
  <1>9. OfRow(born2, id, rec.blob)
    BY <1>3, <1>5, <1>6, <1>8 DEF OfRow, Traced, NamesRow, DraftOf, Origin
  <1>10. WriteTraced(born2, id, row)
    <2>1. sync[s] \in SyncStates /\ rec \in MetaxRecord /\ sync[s].user \in Users
      BY DEF SyncOwners, SyncTyped, SyncOwned, SyncStates, Doing
    <2>2. row \in Row
      BY <2>1 DEF row, Row, SyncStates, MetaxRecord
    <2> QED BY <1>7, <1>9, <2>2, SyncAssumption DEF WriteTraced
  <1>11. \A k \in Syncers : sync'[k] = sync[k] \/ BatchTraced(born2, k)'
    BY <1>1, <1>2, <1>6, <1>10, WriteKept
  <1>12. MetaxTraced(born)
    BY <1>2, UnchangedTraced
  <1>13. Lineage(born2)'
    BY <1>2, <1>6, <1>11, <1>12, LineageStep
  <1> QED BY <1>13 DEF LineageKnown

LEMMA syncRecordTraced ==
    ASSUME ~MismatchedBodies, NEW own, NEW born, SyncOwners(own), Lineage(born),
           NEW s \in Syncers, syncRecord(s)
    PROVE  LineageKnown'
  <1>1. Doing(s, "reading") /\ sync[s] \in SyncStates
    BY DEF syncRecord, SyncOwners, SyncTyped
  <1>2. ASSUME NEW rec \in sync[s].recs, UNCHANGED <<vars, lastsync>>,
               sync' = [sync EXCEPT ![s].recs = @ \ {rec}]
        PROVE  LineageKnown'
    <2> DEFINE new == [sync[s] EXCEPT !.recs = sync[s].recs \ {rec}]
    <2>1. sync' = [sync EXCEPT ![s] = new] /\ UNCHANGED <<db, minted, req, late, metax>>
      BY <1>2 DEF SyncOwners, SyncTyped, vars
    <2>2. /\ new.writes = sync[s].writes /\ new.recs \subseteq sync[s].recs
          /\ new.known = sync[s].known
      BY <1>1 DEF SyncStates
    <2> HIDE DEF new
    <2> QED BY <2>1, <2>2, ReadHolds
  <1>3. ASSUME NEW rec \in sync[s].recs, NEW id \in RowsFor(s, rec),
               BatchDelete(s, rec, id) \/ UpdateSynced(s, rec, id) \/ BatchUpdate(s, rec, id)
        PROVE  LineageKnown'
    <2>1. PICK row : Write(s, rec, id, row) /\ WriteTraced(born, id, row)
      <3>1. CASE BatchDelete(s, rec, id)
        BY <1>3, <3>1, RowsForTraced DEF BatchDelete
      <3>2. CASE UpdateSynced(s, rec, id) \/ BatchUpdate(s, rec, id)
        <4> DEFINE row     == Visible(s, id)
                   stamped == [row EXCEPT !.synced = sync[s].at]
                   updated == [row EXCEPT !.synced = sync[s].at, !.blob = rec.blob]
        <4>1. row \in Row /\ OfRow(born, id, row.blob) /\ OfRow(born, id, rec.blob)
          BY <1>3, <3>2, VisibleOwned, VisibleOfRow, RowsForTraced DEF UpdateSynced, BatchUpdate
        <4>2. rec.blob \in Blob /\ sync[s].at \in Nat
          BY <1>1, <1>3 DEF SyncStates, MetaxRecord
        <4>3. stamped \in Row /\ stamped.blob = row.blob
          BY <4>1, <4>2 DEF Row
        <4>4. updated \in Row /\ updated.blob = rec.blob
          BY <4>1, <4>2 DEF Row
        <4>5. Write(s, rec, id, stamped) \/ Write(s, rec, id, updated)
          BY <3>2 DEF UpdateSynced, BatchUpdate
        <4> HIDE DEF stamped, updated, row
        <4> QED BY <4>1, <4>3, <4>4, <4>5, SyncAssumption DEF WriteTraced
      <3> QED BY <1>3, <3>1, <3>2
    <2>2. UNCHANGED <<db, minted, req, late, metax>>
      BY <1>3 DEF BatchDelete, UpdateSynced, BatchUpdate, vars
    <2>3. MetaxTraced(born) /\ Extended(born, born)
      BY <2>2, UnchangedTraced DEF Extended
    <2>4. \A k \in Syncers : sync'[k] = sync[k] \/ BatchTraced(born, k)'
      BY <2>1, <2>2, <2>3, WriteKept
    <2> QED BY <2>2, <2>3, <2>4, SameLineageStep
  <1>4. ASSUME NEW rec \in sync[s].recs, NEW id \in RowsFor(s, rec), FailRecord(s, rec, id)
        PROVE  LineageKnown'
    <2>1. CASE sync' = [sync EXCEPT ![s] = SyncIdle]
      <3>1. UNCHANGED <<db, minted, req, late, metax>> /\ MetaxTraced(born)
        BY <1>4, UnchangedTraced DEF FailRecord, vars
      <3> QED BY <2>1, <3>1, BatchEnded, BatchLineage
    <2> QED BY <1>2, <1>4, <2>1 DEF FailRecord
  <1>5. ASSUME NEW rec \in sync[s].recs, SkipRemoved(s, rec)
        PROVE  LineageKnown'
    BY <1>2, <1>5 DEF SkipRemoved
  <1>6. ASSUME NEW rec \in sync[s].recs, RefuseRecord(s, rec)
        PROVE  LineageKnown'
    <2>1. CASE sync' = [sync EXCEPT ![s] = SyncIdle]
      <3>1. UNCHANGED <<db, minted, req, late, metax>> /\ MetaxTraced(born)
        BY <1>6, UnchangedTraced DEF RefuseRecord, vars
      <3> QED BY <2>1, <3>1, BatchEnded, BatchLineage
    <2> QED BY <1>2, <1>6, <2>1 DEF RefuseRecord
  <1> QED BY <1>1, <1>3, <1>4, <1>5, <1>6, CreateWithMetadataTraced DEF syncRecord

\* What a batch commits are documents of the rows it writes.
LEMMA CommitTraced ==
    ASSUME NEW own, NEW born, SyncOwners(own), Lineage(born), NEW s \in Syncers, Commit(s)
    PROVE  LineageKnown'
  <1>1. UNCHANGED <<minted, req, late, metax>> /\ sync' = [sync EXCEPT ![s] = AfterBatch(s)]
    BY DEF Commit, metaxVars
  <1>2. MetaxTraced(born)
    BY <1>1, UnchangedTraced
  <1>3. ASSUME NEW id \in DOMAIN db'
        PROVE  OfRow(born, id, db[id].blob)'
    <2>1. db'[id] = Visible(s, id) /\ Visible(s, id) # None
      BY <1>3 DEF Commit
    <2>2. OfRow(born, id, Visible(s, id).blob)
      BY <2>1, VisibleOfRow
    <2> QED BY <1>1, <2>1, <2>2 DEF OfRow, Traced
  <1>4. \A k \in Syncers : sync'[k] = sync[k] \/ BatchTraced(born, k)'
    BY <1>1, BatchEnded DEF SyncOwners, SyncTyped
  <1> QED BY <1>1, <1>2, <1>3, <1>4, SameLineageStep

\* Metax changes a dataset for an RPC request, or makes a new version of it.
LEMMA MetaxRpcTraced ==
    ASSUME NEW own, NEW born, SyncOwners(own), Lineage(born), NEW s \in Syncers,
           NEW blob \in Blob, Traced(born, blob), MetaxRpc(s, blob),
           UNCHANGED <<db, minted, req, late>>
    PROVE  LineageKnown'
  <1>1. /\ sync[s] \in SyncStates /\ SyncOwned(own, s) /\ sync \in [Syncers -> SyncStates]
        /\ DOMAIN own = DOMAIN born /\ BatchTraced(born, s)
    BY DEF SyncOwners, SyncTyped, Owners, Lineage
  <1>2. MetaxTraced(born) /\ Extended(born, born)
    BY PutTraced, PutVersionTraced DEF MetaxRpc, Extended
  <1>3. PICK todo : sync' = [sync EXCEPT ![s] = [sync[s] EXCEPT !.pc = "fetching", !.todo = todo]]
    <2>1. CASE PutDataset(blob) /\ sync' = [sync EXCEPT ![s].pc = "fetching"]
      <3>1. [sync[s] EXCEPT !.pc = "fetching"]
              = [sync[s] EXCEPT !.pc = "fetching", !.todo = sync[s].todo]
        BY <1>1 DEF SyncStates
      <3> QED BY <2>1, <3>1
    <2>2. ASSUME NEW n,
                 sync' = [sync EXCEPT ![s].pc = "fetching", ![s].todo = Append(@, n)]
          PROVE  \E todo : sync' = [sync EXCEPT ![s] = [sync[s] EXCEPT !.pc = "fetching",
                                                                       !.todo = todo]]
      <3>1. sync' = [sync EXCEPT ![s] = [sync[s] EXCEPT !.pc = "fetching",
                                                        !.todo = Append(sync[s].todo, n)]]
        BY <1>1, <2>2 DEF SyncStates
      <3> QED BY <3>1
    <2> QED BY <2>1, <2>2 DEF MetaxRpc
  <1> DEFINE new == [sync[s] EXCEPT !.pc = "fetching", !.todo = todo]
  <1>4. /\ new.writes = sync[s].writes /\ new.recs = sync[s].recs
        /\ new.known = sync[s].known
    BY <1>1 DEF SyncStates
  <1>5. sync' = [sync EXCEPT ![s] = new]
    BY <1>3
  <1> HIDE DEF new
  <1>6. sync'[s] = new /\ \A k \in Syncers : k # s => sync'[k] = sync[k]
    BY <1>1, <1>5
  <1>7. BatchTraced(born, s)'
    BY <1>1, <1>2, <1>4, <1>6, StaysBatchTraced
  <1> QED BY <1>2, <1>6, <1>7, SameLineageStep

LEMMA RpcTraced ==
    ASSUME NEW own, NEW born, SyncOwners(own), Lineage(born), NEW s \in Syncers,
           ChangeCumulativeState(s) \/ RefreshDirectoryContent(s)
    PROVE  LineageKnown'
  <1> DEFINE i == Head(sync[s].todo)
  <1>1. UNCHANGED <<db, minted, req, late>>
    BY DEF ChangeCumulativeState, RefreshDirectoryContent
  <1>2. i \in DOMAIN metax
    <2>1. /\ Doing(s, "requesting") /\ sync[s] \in SyncStates
          /\ SyncOwned(own, s) /\ sync[s].todo # << >>
      BY DEF SyncOwners, SyncTyped, SyncOwned, ChangeCumulativeState, RefreshDirectoryContent, Doing
    <2>2. sync[s].todo \in Seq(Idents)
      BY <2>1 DEF SyncStates
    <2>3. 1 \in 1 .. Len(sync[s].todo) /\ i = sync[s].todo[1]
      BY <2>1, <2>2
    <2> QED BY <2>1, <2>3 DEF SyncOwned, TodoOwned
  <1>3. metax[i].blob \in Blob /\ Traced(born, metax[i].blob)
    BY <1>2 DEF SyncOwners, Owners, TypeOK, MetaxTypeOK, MetaxRecord, Lineage
  <1>4. CASE RefreshDirectoryContent(s)
    BY <1>1, <1>3, <1>4, MetaxRpcTraced DEF RefreshDirectoryContent
  <1>5. CASE ChangeCumulativeState(s)
    <2>1. PICK cum \in Cums : MetaxRpc(s, [metax[i].blob EXCEPT !.cum = cum])
      BY <1>5 DEF ChangeCumulativeState
    <2> DEFINE blob == [metax[i].blob EXCEPT !.cum = cum]
    <2>2. /\ blob \in Blob
          /\ blob.ident = metax[i].blob.ident /\ blob.rec = metax[i].blob.rec
      BY <1>3 DEF Blob
    <2>3. MetaxRpc(s, blob)
      BY <2>1
    <2> HIDE DEF blob
    <2>4. Traced(born, blob)
      BY <1>3, <2>2 DEF Traced, NamesRow, DraftOf
    <2> QED BY <1>1, <2>2, <2>3, <2>4, MetaxRpcTraced
  <1> QED BY <1>4, <1>5

-----------------------------------------------------------------------------
(* What every dataset was made of is known in every behaviour, and so is   *)
(* what a row that is deleted was made of.                                 *)

LEMMA SyncInitTraced ==
    ASSUME SyncInit
    PROVE  LineageKnown
  <1> DEFINE born == [id \in {} |-> None]
  <1>1. /\ db = [id \in {} |-> None] /\ minted = {} /\ late = {}
        /\ metax = [i \in {} |-> None] /\ req = [h \in Handlers |-> Idle]
    BY DEF SyncInit, Init, MetaxInit
  <1>2. born \in [minted -> Idents \cup {None}]
    BY <1>1
  <1>3. ASSUME NEW h \in Handlers
        PROVE  RequestTraced(born, h)
    <2>1. req[h].pc = "idle" /\ req[h].new = None /\ req[h].blob = NoBlob
      BY <1>1 DEF Idle
    <2>2. NoBlob.ident = None /\ NoBlob.rec = None
      BY DEF NoBlob
    <2> QED BY <2>1, <2>2 DEF RequestTraced, At, Traced, NamesRow
  <1>4. ASSUME NEW s \in Syncers
        PROVE  BatchTraced(born, s)
    <2>1. sync[s].recs = {} /\ sync[s].known = NoRows /\ sync[s].writes = NoRows
      BY DEF SyncInit, SyncIdle
    <2>2. DOMAIN NoRows = {}
      BY DEF NoRows
    <2> QED BY <2>1, <2>2 DEF BatchTraced
  <1>5. Lineage(born)
    BY <1>1, <1>2, <1>3, <1>4 DEF Lineage
  <1> QED BY <1>5 DEF LineageKnown

LEMMA HandlerTraced ==
    ASSUME ~MismatchedBodies, ~CreatesOverlap, NEW own, NEW born, SyncOwners(own),
           Lineage(born), NEW h \in Handlers, HandlerStep(h) \/ Fail(h), UNCHANGED sync
    PROVE  LineageKnown'
  <1>1. ASSUME UNCHANGED <<db, minted, req, late, metax>>
        PROVE  LineageKnown'
    <2>1. MetaxTraced(born)
      BY <1>1, UnchangedTraced
    <2> QED BY <1>1, <2>1, SameLineageStep
  <1>2. CASE RejectRequest(h)
    BY <1>1, <1>2 DEF RejectRequest, vars, metaxVars
  <1> QED BY <1>2, ReadRowTraced, StoringTraced, GetNewVersionTraced, DeleteInMetaxTraced,
             RowStepTraced, CreateDatasetTraced, StoreNewVersionTraced, FailTraced
          DEF HandlerStep

LEMMA SyncNextTraced ==
    ASSUME ~MismatchedBodies, ~CreatesOverlap, SyncOwnersKnown, LineageKnown,
           [SyncNext]_allVars
    PROVE  LineageKnown'
  <1>1. PICK own : SyncOwners(own)
    BY DEF SyncOwnersKnown
  <1>2. PICK born : Lineage(born)
    BY DEF LineageKnown
  <1>3. ASSUME NEW h \in Handlers, HandlerStep(h) \/ Fail(h), UNCHANGED syncVars
        PROVE  LineageKnown'
    BY <1>1, <1>2, <1>3, HandlerTraced DEF syncVars
  <1>4. CASE Crash /\ sync' = [s \in Syncers |-> SyncIdle]
    BY <1>1, <1>2, <1>4, CrashTraced
  <1>5. CASE /\ (\E c \in late : LateCall(c)) \/ EditInMetax \/ CreateInMetax \/ RemoveInMetax
             /\ UNCHANGED syncVars
    BY <1>1, <1>2, <1>5, OutsideTraced DEF syncVars
  <1>6. ASSUME NEW s \in Syncers, BeginSync(s) \/ SyncFail(s) \/ Timeout(s)
        PROVE  LineageKnown'
    BY <1>1, <1>2, <1>6, BeginEndTraced
  <1>7. ASSUME NEW s \in Syncers, SyncStep(s) \/ CutOff(s)
        PROVE  LineageKnown'
    BY <1>1, <1>2, <1>7, ReadingTraced, syncRecordTraced, CommitTraced, RpcTraced DEF SyncStep
  <1>8. CASE UNCHANGED allVars
    <2>1. UNCHANGED <<db, minted, req, late, metax, sync>>
      BY <1>8 DEF allVars, vars, syncVars, metaxVars
    <2>2. MetaxTraced(born)
      BY <1>2, <2>1, UnchangedTraced
    <2> QED BY <1>1, <1>2, <2>1, <2>2, SameLineageStep
  <1> QED BY <1>3, <1>4, <1>5, <1>6, <1>7, <1>8 DEF SyncNext

(* With the owners of ids, the rows the datasets of Metax were made of are *)
(* settled for good, if creates do not overlap.                            *)
THEOREM SyncsKeepLineage ==
    ASSUME ~MismatchedBodies, ~CreatesOverlap
    PROVE  SyncSpec => [](SyncOwnersKnown /\ LineageKnown)
  <1> DEFINE Inv == SyncOwnersKnown /\ LineageKnown
  <1>1. SyncInit => Inv
    BY SyncInitOwned, SyncInitTraced
  <1>2. Inv /\ [SyncNext]_allVars => Inv'
    BY SyncNextOwned, SyncNextTraced
  <1> HIDE DEF Inv
  <1>3. SyncSpec => []Inv
    BY <1>1, <1>2, PTL DEF SyncSpec
  <1> QED BY <1>3 DEF Inv

\* The dataset of a row that a commit deletes.
LEMMA DroppedIsGone ==
    ASSUME NEW own, NEW born, SyncOwners(own), Lineage(born), NEW s \in Syncers, Commit(s),
           NEW id \in DOMAIN db, id \notin DOMAIN db', OneDataset(id)
    PROVE  ~Live(db[id].blob.ident)
  <1> DEFINE i == db[id].blob.ident
  <1>1. id \in DOMAIN sync[s].writes /\ sync[s].writes[id] = None
    <2>1. Visible(s, id) = None
      BY DEF Commit
    <2>2. db[id] # None
      BY SyncAssumption DEF SyncOwners, Owners, TypeOK, IsTable
    <2> QED BY <2>1, <2>2 DEF Visible
  <1>2. PICK k : Gone(k) /\ MadeOf(born, id, k)
    BY <1>1 DEF Lineage, BatchTraced, WriteTraced
  <1>3. OfRow(born, id, db[id].blob)
    BY DEF Lineage
  <1>4. id # None /\ None \notin DOMAIN metax
    BY NoneAssumption DEF SyncOwners, Owners, TypeOK, MetaxTypeOK, IsTable
  <1>5. CASE born[id] # None
    BY <1>2, <1>3, <1>5 DEF OfRow, MadeOf, Gone, Live
  <1>6. CASE born[id] = None
    <2>1. metax[k].blob.rec = id
      BY <1>2, <1>4, <1>6 DEF MadeOf, DraftOf, Origin
    <2>2. i # None => i \in DOMAIN metax /\ metax[i].blob.rec = id
      BY <1>3, <1>4, <1>6 DEF OfRow, Traced, DraftOf, Origin
    <2>3. i # None => i = k
      BY <1>2, <2>1, <2>2 DEF OneDataset, MadeOf
    <2> QED BY <1>2, <1>4, <2>3 DEF Gone, Live
  <1> QED BY <1>5, <1>6

(* However syncs, requests and other services overlap, creates alone       *)
(* excepted, and whatever fails, a row a sync deletes has no dataset in    *)
(* Metax any more, unless two were made of it: the record the deletion is  *)
(* for names the row, or had its identifier when the batch read of it, and *)
(* neither comes to mean another dataset.                                  *)
THEOREM SyncsDropOnlyRemoved ==
    ASSUME ~MismatchedBodies, ~CreatesOverlap
    PROVE  SyncSpec => SyncDropsOnlyRemoved
  <1> DEFINE Inv  == SyncOwnersKnown /\ LineageKnown
             Drop == \A s \in Syncers : Commit(s) =>
                        \A id \in DOMAIN db \ DOMAIN db' :
                           OneDataset(id) => ~Live(db[id].blob.ident)
  <1>1. Inv => Drop
    BY DroppedIsGone DEF SyncOwnersKnown, LineageKnown
  <1>2. Inv /\ [SyncNext]_allVars => [Drop]_allVars
    BY <1>1
  <1>3. SyncSpec => []Inv
    BY SyncsKeepLineage
  <1>4. SyncSpec => [][Drop]_allVars
    <2> HIDE DEF Inv, Drop
    <2> QED BY <1>2, <1>3, PTL DEF SyncSpec
  <1> QED BY <1>4 DEF SyncDropsOnlyRemoved

-----------------------------------------------------------------------------
(* Requests, syncs and other services one at a time, and nothing fails     *)
(* but the records that Qvain cannot take, which a batch leaves out: what  *)
(* a sync leaves behind.  Between syncs a row that is not edited is   *)
(* behind Metax exactly if its synced time is, and every dataset dated     *)
(* before its user's watermark is shown; a sync moves the watermark over   *)
(* what it has processed.                                                  *)

OneByOne ==
    /\ ~Overlap /\ ~Faults /\ SyncFaults = {} /\ ~MismatchedBodies /\ ~CreatesOverlap
    /\ Modes \subseteq {"fetch", "fetchAll"}

OneAtATime ==
    /\ late = {}
    /\ \A h, k \in Handlers : At(h, "idle") \/ At(k, "idle") \/ h = k
    /\ \A h \in Handlers, s \in Syncers : At(h, "idle") \/ Doing(s, "idle")
    /\ \A s, t \in Syncers : Doing(s, "idle") \/ Doing(t, "idle") \/ s = t

RowInStep(id) ==
    LET i == db[id].blob.ident IN
    /\ db[id].blob.rec \in {None, id}
    /\ db[id].published <=> i # None
    /\ db[id].synced <= clock
    /\ i # None =>
          /\ 0 < db[id].synced
          /\ metax[i].blob.rec \in {None, id}
          /\ id \notin edited /\ metax[i].blob.date <= db[id].synced
                => db[id].blob = metax[i].blob

\* A publish has the answer that gives row id identifier i.
InAnswer(id, i) == \E h \in Handlers : At(h, "stored") /\ req[h].id = id /\ req[h].blob.ident = i

\* Dataset i, if it names row id, is that row's.
NamedRow(i, id) ==
    /\ Live(i) => id \in DOMAIN db
    /\ id \in DOMAIN db => db[id].blob.ident = i \/ InAnswer(id, i)

DatasetInStep(i) ==
    /\ 0 < metax[i].blob.date /\ metax[i].blob.date <= clock
    /\ metax[i].blob.rec # None => NamedRow(i, metax[i].blob.rec)

\* A new version that no row shows yet.
NewToRows(i) == Live(i) /\ metax[i].blob.rec = None /\ \A a \in DOMAIN db : db[a].blob.ident # i

RequestInStep(h) ==
    LET id == req[h].id
        i  == req[h].blob.ident
    IN ~At(h, "idle") =>
        /\ id \in DOMAIN db
        /\ At(h, "storing") \/ At(h, "removing") => req[h].blob = db[id].blob
        /\ At(h, "stored") => /\ Live(i) /\ req[h].blob = metax[i].blob
                              /\ req[h].blob.rec \in {None, id}
                              /\ db[id].blob.ident \in {None, i}
                              /\ \A a \in DOMAIN db : db[a].blob.ident = i => a = id
                              /\ req[h].new # None => NewToRows(req[h].new) /\ req[h].new # i
        /\ At(h, "getting") => NewToRows(req[h].new)
        /\ At(h, "landing") => NewToRows(req[h].new) /\ req[h].blob = metax[req[h].new].blob
        /\ At(h, "deleting") /\ db[id].blob.ident # None => Gone(db[id].blob.ident)

\* The rows of user u show what Metax has under i, if Qvain can take it.
Shown(u, i) ==
    i \notin Refused =>
    IF metax[i].removed THEN Shows(u, i) = {} ELSE \E id \in Shows(u, i) : UpToDate(id, i)

\* No sync of user u's is running.
Unsynced(u) == \A s \in Syncers : Doing(s, "idle") \/ sync[s].user # u

WatermarkHolds(u) ==
    /\ lastsync[u] <= clock
    /\ Unsynced(u) => \A i \in DOMAIN metax :
          metax[i].blob.user = u /\ metax[i].blob.date <= lastsync[u] => Shown(u, i)

\* What sync s has not to ask Metax for: it was before, or is what its first batch did.
Settled(s, i) ==
    \/ metax[i].blob.date <= sync[s].since
    \/ sync[s].removed /\ ~metax[i].removed

\* A document of row id that shows dataset i, for a batch.
Current(id, b, i) ==
    \/ b = metax[i].blob
    \/ id \in edited /\ id \in DOMAIN db /\ b = db[id].blob

\* The rows that the batch sees show to its user what Metax has under i, if Qvain can
\* take it.
Processed(s, i) ==
    i \notin Refused =>
    LET Finds(id) == /\ Visible(s, id) # None
                     /\ Visible(s, id).owner = sync[s].user
                     /\ Visible(s, id).blob.ident = i
    IN IF metax[i].removed THEN \A id \in Ids : ~Finds(id)
       ELSE \E id \in Ids : Finds(id) /\ Current(id, Visible(s, id).blob, i)

\* What the batch of removed records has written to row id.
Deletion(s, id) ==
    /\ sync[s].writes[id] = None
    /\ id \in DOMAIN db
    /\ Gone(db[id].blob.ident)

\* What the batch of live records has written to row id.
Save(s, id) ==
    LET row == sync[s].writes[id]
        i   == row.blob.ident
    IN  /\ row # None
        /\ Live(i)
        /\ metax[i] \notin sync[s].recs
        /\ row.published
        /\ row.synced = sync[s].at
        /\ row.blob.rec \in {None, id}
        /\ metax[i].blob.rec \in {None, id}
        /\ id \in DOMAIN db => db[id].blob.ident = i
        /\ id \notin DOMAIN db => /\ \A a \in DOMAIN db : db[a].blob.ident # i
                                  /\ \A k \in DOMAIN metax : metax[k].blob.rec # id
        /\ Current(id, row.blob, i)
        /\ \A a \in DOMAIN sync[s].writes : sync[s].writes[a].blob.ident = i => a = id

KnownRow(id) == [ident |-> db[id].blob.ident, synced |-> db[id].synced]

BatchInStep(s) ==
    LET user == sync[s].user IN
    ~Doing(s, "idle") =>
        /\ sync[s].pc \in {"starting", "querying", "loading", "reading"}
        /\ sync[s].todo = << >>
        /\ ~Doing(s, "starting") => sync[s].at = clock
        /\ ~Doing(s, "reading") => DOMAIN sync[s].writes = {}
        /\ \A i \in DOMAIN metax :
              metax[i].blob.user = user /\ Settled(s, i) => Shown(user, i)
        /\ \A rec \in sync[s].recs : /\ rec.blob.ident \in DOMAIN metax
                                     /\ rec = metax[rec.blob.ident]
                                     /\ Queried(s, rec)
        /\ sync[s].pc \in {"loading", "reading"} =>
              \A i \in DOMAIN metax :
                  Queried(s, metax[i]) /\ metax[i] \notin sync[s].recs => Processed(s, i)
        /\ Doing(s, "reading") /\ sync[s].recs # {} =>
              sync[s].known = [id \in Owned(db, user) |-> KnownRow(id)]
        /\ \A id \in DOMAIN sync[s].writes :
              IF sync[s].removed THEN Deletion(s, id) ELSE Save(s, id)

AllInStep ==
    /\ OneAtATime
    /\ \A id \in DOMAIN db : RowInStep(id)
    /\ UniqueIdentifiers
    /\ \A i \in DOMAIN metax : DatasetInStep(i)
    /\ \A h \in Handlers : RequestInStep(h)
    /\ \A u \in Users : WatermarkHolds(u)
    /\ \A s \in Syncers : BatchInStep(s)

-----------------------------------------------------------------------------
(* What is known of owners and types, without the function that says so.   *)

Grounded ==
    /\ TypeOK /\ MetaxIdents /\ SyncTyped
    /\ DOMAIN db \subseteq minted
    /\ \A id \in DOMAIN db : db[id].blob.ident # None =>
          /\ db[id].blob.ident \in DOMAIN metax
          /\ metax[db[id].blob.ident].blob.user = db[id].owner
    /\ \A i \in DOMAIN metax : metax[i].blob.rec # None => metax[i].blob.rec \in minted
    /\ \A h \in Handlers : At(h, "patching") => req[h].blob.rec = req[h].id
    /\ \A s \in Syncers : ~Doing(s, "idle") => sync[s].user \in Users
    /\ \A s \in Syncers : \A id \in DOMAIN sync[s].writes :
          /\ id \in minted
          /\ id \in DOMAIN db => db[id].owner = sync[s].user
          /\ sync[s].writes[id] # None => sync[s].writes[id].owner = sync[s].user

LEMMA OwnersGround ==
    ASSUME ~MismatchedBodies, SyncOwnersKnown
    PROVE  Grounded
  <1>1. PICK own : SyncOwners(own)
    BY DEF SyncOwnersKnown
  <1>2. Owners(own) /\ SyncTyped /\ DOMAIN own = minted
    BY <1>1 DEF SyncOwners, Owners
  <1>3. ASSUME NEW id \in DOMAIN db, db[id].blob.ident # None
        PROVE  /\ db[id].blob.ident \in DOMAIN metax
               /\ metax[db[id].blob.ident].blob.user = db[id].owner
    BY <1>2, <1>3 DEF Owners, RowOwned, Agrees
  <1>4. ASSUME NEW i \in DOMAIN metax, metax[i].blob.rec # None
        PROVE  metax[i].blob.rec \in minted
    BY <1>2, <1>4 DEF Owners, Agrees
  <1>5. ASSUME NEW s \in Syncers, NEW id \in DOMAIN sync[s].writes
        PROVE  /\ id \in minted
               /\ id \in DOMAIN db => db[id].owner = sync[s].user
               /\ sync[s].writes[id] # None => sync[s].writes[id].owner = sync[s].user
    BY <1>1, <1>2 DEF SyncOwners, SyncOwned, WritesOwned, RowOwned, Owners
  <1>6. \A s \in Syncers : ~Doing(s, "idle") => sync[s].user \in Users
    BY <1>1 DEF SyncOwners, SyncOwned
  <1> QED BY <1>2, <1>3, <1>4, <1>5, <1>6 DEF Owners, Served, Grounded

\* The values in the tables.
LEMMA Values ==
    ASSUME Grounded
    PROVE  /\ clock \in Nat /\ 0 < clock
           /\ DOMAIN metax \subseteq Idents /\ None \notin DOMAIN metax
           /\ \A i \in DOMAIN metax : /\ metax[i] \in MetaxRecord /\ metax[i].blob \in Blob
                                      /\ metax[i].blob.ident = i /\ metax[i].blob.date \in Nat
           /\ DOMAIN db \subseteq Ids /\ None \notin DOMAIN db /\ None \notin Ids
           /\ \A id \in DOMAIN db : /\ db[id] \in Row /\ db[id].blob \in Blob
                                    /\ db[id].synced \in Nat /\ db[id].owner \in Users
                                    /\ db[id].published \in BOOLEAN /\ db[id] # None
  BY NoneAssumption, SyncAssumption
     DEF Grounded, TypeOK, MetaxTypeOK, MetaxIdents, MetaxRecord, Blob, IsTable, Row

LEMMA LocalValues ==
    ASSUME Grounded
    PROVE  /\ \A h \in Handlers : req[h] \in Req /\ req[h].blob \in Blob
           /\ \A s \in Syncers : sync[s] \in SyncStates
           /\ \A u \in Users : lastsync[u] \in Nat
  BY DEF Grounded, TypeOK, Req, SyncTyped

-----------------------------------------------------------------------------
(* Requests, with no sync running.                                         *)

\* Handler h alone is active, and no sync is.
Alone(h) ==
    /\ late = {}
    /\ \A k \in Handlers \ {h} : At(k, "idle")
    /\ \A s \in Syncers : Doing(s, "idle")

LEMMA IsAlone ==
    ASSUME OneByOne, AllInStep, NEW h \in Handlers, OnlyActive({h}, {})
    PROVE  Alone(h)
  BY DEF AllInStep, OneAtATime, OnlyActive, Alone

\* In a step of a handler that is alone, all that is left to show.
LEMMA AloneStep ==
    ASSUME Grounded, NEW h \in Handlers, Alone(h), Others(h), UNCHANGED <<late, sync>>,
           \A id \in DOMAIN db' : RowInStep(id)',
           UniqueIdentifiers',
           \A i \in DOMAIN metax' : DatasetInStep(i)',
           RequestInStep(h)',
           \A u \in Users : WatermarkHolds(u)'
    PROVE  AllInStep'
  <1>1. \A k \in Handlers \ {h} : At(k, "idle")'
    BY DEF Alone, Others, At
  <1>2. \A s \in Syncers : Doing(s, "idle")'
    BY DEF Alone, Doing
  <1>3. OneAtATime'
    BY <1>1, <1>2 DEF OneAtATime, Alone
  <1>4. \A k \in Handlers : RequestInStep(k)'
    BY <1>1 DEF RequestInStep
  <1>5. \A s \in Syncers : BatchInStep(s)'
    BY <1>2 DEF BatchInStep
  <1> QED BY <1>3, <1>4, <1>5 DEF AllInStep

\* A step that writes neither rows nor Metax, and has no answer to store.
LEMMA LocalInStep ==
    ASSUME Grounded, AllInStep, NEW h \in Handlers, Alone(h), Others(h), ~At(h, "stored"),
           UNCHANGED <<db, edited, metaxVars, lastsync, late, sync>>, RequestInStep(h)'
    PROVE  AllInStep'
  <1>1. UNCHANGED <<metax, clock>>
    BY DEF metaxVars
  <1>2. ASSUME NEW id \in DOMAIN db'
        PROVE  RowInStep(id)'
    BY <1>1, <1>2 DEF AllInStep, RowInStep
  <1>3. UniqueIdentifiers'
    BY DEF AllInStep, UniqueIdentifiers, Identified
  <1>4. ASSUME NEW i \in DOMAIN metax'
        PROVE  DatasetInStep(i)'
    <2>1. \A id : ~InAnswer(id, i)
      BY DEF InAnswer, Alone, At
    <2> QED BY <1>1, <1>4, <2>1 DEF AllInStep, DatasetInStep, NamedRow, Live
  <1>5. ASSUME NEW u \in Users
        PROVE  WatermarkHolds(u)'
    BY <1>1 DEF AllInStep, WatermarkHolds, Unsynced, Doing, Shown, Shows, UpToDate, Owned
  <1> QED BY <1>2, <1>3, <1>4, <1>5, AloneStep

\* How a request begins.
LEMMA Begins ==
    ASSUME Grounded, NEW h \in Handlers, NEW pc, NEW user, NEW id, NEW blob,
           Begin(h, pc, user, id, blob)
    PROVE  /\ Others(h)
           /\ req'[h].pc = pc /\ req'[h].id = id /\ req'[h].blob = blob /\ req'[h].new = None
  <1>1. req'[h] = [pc |-> pc, user |-> user, id |-> id, blob |-> blob, new |-> None] /\ Others(h)
    BY DEF Grounded, TypeOK, Begin, Others
  <1> QED BY <1>1

LEMMA ReadRowInStep ==
    ASSUME Grounded, AllInStep, NEW h \in Handlers, Alone(h), UNCHANGED syncVars,
           ValidateUpdate(h) \/ GetForPublish(h) \/ GetForDelete(h)
    PROVE  AllInStep'
  <1>1. UNCHANGED <<db, edited, metaxVars, late, lastsync, sync>> /\ ~At(h, "stored")
    BY DEF ValidateUpdate, GetForPublish, GetForDelete, syncVars, At
  <1>2. PICK pc, user, id, blob :
          /\ Begin(h, pc, user, id, blob)
          /\ id \in DOMAIN db
          /\ \/ pc \in {"patching", "unlisting"}
             \/ pc = "storing" /\ blob = db[id].blob
             \/ pc = "deleting" /\ ~db[id].published
    <2>1. CASE ValidateUpdate(h)
      <3>1. PICK user \in Users : \E id \in Owned(db, user) :
              \E blob : Begin(h, "patching", user, id, blob)
        BY <2>1 DEF ValidateUpdate
      <3> QED BY <3>1 DEF Owned
    <2>2. CASE GetForPublish(h)
      BY <2>2 DEF GetForPublish, Owned
    <2>3. CASE GetForDelete(h)
      <3>1. PICK user \in Users : \E id \in Owned(db, user) :
              Begin(h, IF db[id].published THEN "unlisting" ELSE "deleting", user, id, NoBlob)
        BY <2>3 DEF GetForDelete
      <3> QED BY <3>1 DEF Owned
    <2> QED BY <2>1, <2>2, <2>3
  <1>3. /\ Others(h)
        /\ req'[h].pc = pc /\ req'[h].id = id /\ req'[h].blob = blob
    BY <1>2, Begins
  <1>4. RequestInStep(h)'
    <2>1. pc = "deleting" => db'[id].blob.ident = None
      BY <1>1, <1>2 DEF AllInStep, RowInStep
    <2> QED BY <1>1, <1>2, <1>3, <2>1 DEF RequestInStep, At
  <1> QED BY <1>1, <1>3, <1>4, LocalInStep

LEMMA AnswersInStep ==
    ASSUME Grounded, AllInStep, NEW h \in Handlers, Alone(h), UNCHANGED syncVars,
           GetNewVersion(h) \/ GetForUnpublish(h)
    PROVE  AllInStep'
  <1>1. UNCHANGED <<db, edited, metaxVars, late, lastsync, sync, metax>> /\ ~At(h, "stored")
    BY DEF GetNewVersion, GetForUnpublish, syncVars, metaxVars, At
  <1>2. RequestInStep(h) /\ req[h] \in Req /\ TypeOK
    BY LocalValues DEF AllInStep, Grounded
  <1>3. CASE GetNewVersion(h)
    <2>1. /\ Others(h) /\ req'[h].pc = "landing" /\ req'[h].id = req[h].id
          /\ req'[h].blob = metax[req[h].new].blob /\ req'[h].new = req[h].new
      <3>1. metax[req[h].new].blob \in Blob /\ req[h].new \in Idents \cup {None}
        BY <1>2, <1>3, Values DEF GetNewVersion, Live, Req
      <3> QED BY <1>2, <1>3, <3>1, IsAnswered DEF GetNewVersion, PCs
    <2>2. RequestInStep(h)'
      BY <1>1, <1>2, <1>3, <2>1 DEF RequestInStep, At, GetNewVersion, NewToRows, Live
    <2> QED BY <1>1, <2>1, <2>2, LocalInStep
  <1>4. CASE GetForUnpublish(h)
    <2>1. /\ Others(h) /\ req'[h].pc = "removing" /\ req'[h].id = req[h].id
          /\ req'[h].blob = db[req[h].id].blob /\ req'[h].new = None
      <3>1. req[h].id \in DOMAIN db /\ db[req[h].id].blob \in Blob
        BY <1>4, Values DEF GetForUnpublish, Owned
      <3> QED BY <1>2, <1>4, <3>1, IsAnswered DEF GetForUnpublish, PCs
    <2>2. RequestInStep(h)'
      BY <1>1, <1>2, <1>4, <2>1 DEF RequestInStep, At, GetForUnpublish
    <2> QED BY <1>1, <2>1, <2>2, LocalInStep
  <1> QED BY <1>3, <1>4

\* Without faults, a request is only given up before Metax has done anything for it.
LEMMA FailInStep ==
    ASSUME OneByOne, Grounded, AllInStep, NEW h \in Handlers, Alone(h), UNCHANGED syncVars, Fail(h)
    PROVE  AllInStep'
  <1>1. RequestInStep(h) /\ TypeOK
    BY DEF AllInStep, Grounded
  <1>2. /\ UNCHANGED <<db, edited, metaxVars, late, lastsync, sync>>
        /\ Others(h) /\ req'[h] = Idle
    BY <1>1, Ends DEF Fail, syncVars, OneByOne
  <1>3. ~At(h, "stored")
    BY <1>1 DEF Fail, RequestInStep, At, OneByOne
  <1>4. RequestInStep(h)'
    BY <1>2 DEF RequestInStep, At, Idle
  <1> QED BY <1>2, <1>3, <1>4, LocalInStep

-----------------------------------------------------------------------------
(* What Metax does: it dates what it touches later than any watermark.     *)

Touched(T) ==
    /\ clock' = clock + 1
    /\ DOMAIN metax' = DOMAIN metax \cup T
    /\ \A i \in DOMAIN metax \ T : metax'[i] = metax[i]
    /\ \A i \in T : metax'[i].blob.date = clock' /\ ~Gone(i)

\* One dataset is written.
LEMMA OneTouched ==
    ASSUME Grounded, Tick, NEW i, ~Gone(i), NEW rec, rec.blob.date = clock + 1,
           metax' = With(metax, i, rec)
    PROVE  Touched({i}) /\ i \in DOMAIN metax' /\ metax'[i] = rec
  <1>1. /\ DOMAIN metax' = DOMAIN metax \cup {i} /\ metax'[i] = rec
        /\ \A k \in DOMAIN metax \ {i} : metax'[k] = metax[k]
    BY DEF With
  <1> QED BY <1>1 DEF Touched, Tick

LEMMA StoredFields ==
    ASSUME NEW i, NEW blob \in Blob
    PROVE  /\ Stored(i, blob).blob.date = clock + 1 /\ Stored(i, blob).blob.rec = blob.rec
           /\ Stored(i, blob).blob.ident = i
           /\ ~Stored(i, blob).removed
  BY DEF Stored, Blob

LEMMA PostTouches ==
    ASSUME Grounded, NEW i, NEW blob \in Blob, Post(i, blob)
    PROVE  /\ Touched({i}) /\ i \notin DOMAIN metax
           /\ Live(i)' /\ metax'[i].blob.rec = blob.rec
  <1>1. /\ Stored(i, blob).blob.date = clock + 1 /\ Stored(i, blob).blob.rec = blob.rec
        /\ ~Stored(i, blob).removed
    BY StoredFields
  <1>2. i \notin DOMAIN metax /\ Tick /\ metax' = With(metax, i, Stored(i, blob))
    BY DEF Post
  <1> QED BY <1>1, <1>2, OneTouched DEF Gone, Live

LEMMA PutTouches ==
    ASSUME Grounded, NEW blob \in Blob, PutDataset(blob)
    PROVE  /\ Touched({blob.ident}) /\ blob.ident \in DOMAIN metax
           /\ Live(blob.ident)' /\ metax'[blob.ident].blob.rec = blob.rec
  BY OneTouched, StoredFields DEF PutDataset, Gone, Live

LEMMA PutVersionTouches ==
    ASSUME Grounded, NEW n, NEW blob \in Blob, PutNewVersion(blob, n)
    PROVE  /\ Touched({blob.ident, n}) /\ blob.ident \in DOMAIN metax /\ n \notin DOMAIN metax
           /\ Live(blob.ident)' /\ metax'[blob.ident].blob.rec = blob.rec
           /\ Live(n)' /\ metax'[n].blob.rec = None
  <1> DEFINE version == [blob EXCEPT !.rec = None]
             first   == Stored(blob.ident, blob)
             second  == Stored(n, version)
  <1>1. clock' = clock + 1 /\ Live(blob.ident) /\ n \notin DOMAIN metax
    BY DEF PutNewVersion, Tick
  <1>2. first.blob.date = clock + 1 /\ first.blob.rec = blob.rec /\ ~first.removed
    BY StoredFields
  <1>3. second.blob.date = clock + 1 /\ second.blob.rec = None /\ ~second.removed
    <2>1. version \in Blob /\ version.rec = None
      BY NoneAssumption DEF Blob
    <2> HIDE DEF version
    <2> QED BY <2>1, StoredFields
  <1>4. metax' = With(With(metax, blob.ident, first), n, second)
    BY DEF PutNewVersion
  <1> HIDE DEF version, first, second
  <1>5. /\ DOMAIN metax' = DOMAIN metax \cup {blob.ident, n}
        /\ metax'[n] = second /\ (blob.ident # n => metax'[blob.ident] = first)
        /\ \A k \in DOMAIN metax \ {blob.ident, n} : metax'[k] = metax[k]
    BY <1>4 DEF With
  <1> QED BY <1>1, <1>2, <1>3, <1>5 DEF Touched, Live, Gone

LEMMA RemoveTouches ==
    ASSUME Grounded, NEW i, RemoveDataset(i)
    PROVE  /\ Touched({i}) /\ Live(i)
           /\ Gone(i)' /\ metax'[i].blob.rec = metax[i].blob.rec
  <1> DEFINE rec == [blob |-> [metax[i].blob EXCEPT !.date = clock + 1], removed |-> TRUE]
  <1>1. Live(i) /\ Tick /\ metax' = With(metax, i, rec) /\ metax[i].blob \in Blob
    BY Values DEF RemoveDataset, Live
  <1>2. rec.blob.date = clock + 1 /\ rec.removed /\ rec.blob.rec = metax[i].blob.rec
    BY <1>1 DEF Blob
  <1> HIDE DEF rec
  <1> QED BY <1>1, <1>2, OneTouched DEF Gone, Live

LEMMA EditTouches ==
    ASSUME Grounded, NEW i, NEW rd, ForeignEdit(i, rd)
    PROVE  /\ Touched({i}) /\ Live(i)
           /\ Live(i)' /\ metax'[i].blob.rec = metax[i].blob.rec
  <1> DEFINE doc == [metax[i].blob EXCEPT !.rd = rd]
             rec == Stored(i, doc)
  <1>1. /\ Live(i) /\ Tick /\ metax' = With(metax, i, rec) /\ metax[i].blob \in Blob
    BY Values DEF ForeignEdit, Live
  <1>2. rec.blob.date = clock + 1 /\ ~rec.removed /\ rec.blob.rec = metax[i].blob.rec
    BY <1>1 DEF Stored, Blob
  <1> HIDE DEF rec
  <1> QED BY <1>1, <1>2, OneTouched DEF Gone, Live

\* The tables stay in step when Metax touches datasets.
LEMMA TouchedInStep ==
    ASSUME Grounded, Grounded', AllInStep, NEW T, Touched(T),
           UNCHANGED <<db, edited, lastsync, sync>>,
           \A k \in Handlers : ~At(k, "stored"),
           \A id \in DOMAIN db : db[id].blob.ident \in T =>
               metax'[db[id].blob.ident].blob.rec \in {None, id},
           \A i \in T : metax'[i].blob.rec # None => NamedRow(i, metax[i].blob.rec)'
    PROVE  /\ \A id \in DOMAIN db' : RowInStep(id)'
           /\ UniqueIdentifiers'
           /\ \A i \in DOMAIN metax' : DatasetInStep(i)'
           /\ \A u \in Users : WatermarkHolds(u)'
  <1>1. clock \in Nat /\ clock' = clock + 1
    BY Values DEF Touched
  <1>2. ASSUME NEW id \in DOMAIN db'
        PROVE  RowInStep(id)'
    <2> DEFINE i == db[id].blob.ident
    <2>1. /\ id \in DOMAIN db /\ RowInStep(id) /\ db'[id] = db[id] /\ edited' = edited
          /\ db[id].synced \in Nat /\ (i # None => i \in DOMAIN metax)
      BY <1>2, Values DEF AllInStep, Grounded
    <2>2. CASE i \in T
      BY <1>1, <2>1, <2>2 DEF RowInStep, Touched
    <2>3. CASE i \notin T
      BY <1>1, <2>1, <2>3 DEF RowInStep, Touched
    <2> QED BY <2>2, <2>3
  <1>3. UniqueIdentifiers'
    BY DEF AllInStep, UniqueIdentifiers, Identified
  <1>4. ASSUME NEW i \in DOMAIN metax'
        PROVE  DatasetInStep(i)'
    <2>1. CASE i \in T
      BY <1>1, <2>1 DEF Touched, DatasetInStep
    <2>2. CASE i \notin T
      <3>1. /\ i \in DOMAIN metax /\ metax'[i] = metax[i] /\ DatasetInStep(i)
            /\ metax[i].blob.date \in Nat
        BY <1>4, <2>2, Values DEF Touched, AllInStep
      <3>2. \A id : ~InAnswer(id, i)
        BY DEF InAnswer
      <3> QED BY <1>1, <1>4, <3>1, <3>2 DEF DatasetInStep, NamedRow, Live
    <2> QED BY <2>1, <2>2
  <1>5. ASSUME NEW u \in Users
        PROVE  WatermarkHolds(u)'
    <2>1. lastsync[u] \in Nat /\ WatermarkHolds(u)
      BY LocalValues DEF AllInStep
    <2>2. ASSUME Unsynced(u), NEW i \in DOMAIN metax', metax'[i].blob.user = u,
                 metax'[i].blob.date <= lastsync[u]
          PROVE  Shown(u, i)'
      <3>1. i \notin T
        BY <1>1, <2>1, <2>2 DEF Touched, WatermarkHolds
      <3>2. i \in DOMAIN metax /\ metax'[i] = metax[i]
        BY <2>2, <3>1 DEF Touched
      <3>3. Shown(u, i)
        BY <2>1, <2>2, <3>2 DEF WatermarkHolds
      <3> QED BY <3>2, <3>3 DEF Shown, Shows, UpToDate, Owned
    <2>3. lastsync'[u] <= clock'
      BY <1>1, <2>1 DEF WatermarkHolds
    <2>4. Unsynced(u)' => Unsynced(u)
      BY DEF Unsynced, Doing
    <2> QED BY <2>2, <2>3, <2>4 DEF WatermarkHolds
  <1> QED BY <1>2, <1>3, <1>4, <1>5

\* The same of the next state.
LEMMA NextValues ==
    ASSUME Grounded'
    PROVE  /\ clock' \in Nat
           /\ DOMAIN metax' \subseteq Idents /\ None \notin DOMAIN metax'
           /\ \A i \in DOMAIN metax' : /\ metax'[i] \in MetaxRecord /\ metax'[i].blob \in Blob
                                       /\ metax'[i].blob.ident = i
           /\ DOMAIN db' \subseteq Ids
           /\ \A id \in DOMAIN db' : db'[id] \in Row /\ db'[id].blob \in Blob /\ db'[id] # None
  BY NoneAssumption, SyncAssumption
     DEF Grounded, TypeOK, MetaxTypeOK, MetaxIdents, MetaxRecord, Blob, IsTable, Row

\* A row has an identifier that Metax has, or none.
LEMMA IdentsInMetax ==
    ASSUME Grounded, NEW i, i \notin DOMAIN metax, i # None
    PROVE  \A a \in DOMAIN db : db[a].blob.ident # i
  BY DEF Grounded

\* Metax answers to a publish of document b: it keeps it as dataset i, which b names or
\* which is new, and perhaps makes a new version.
Serves(h, b, i, new) ==
    /\ Touched({i, new} \ {None})
    /\ Answered(h, "stored", metax'[i].blob, new)
    /\ b.ident = IF i \in DOMAIN metax THEN i ELSE None
    /\ Live(i)' /\ metax'[i].blob.rec = b.rec
    /\ new # i
    /\ new # None => new \notin DOMAIN metax /\ Live(new)' /\ metax'[new].blob.rec = None

LEMMA StoringAnswer ==
    ASSUME Grounded, NEW h \in Handlers, NEW b \in Blob, b = req[h].blob,
           StoreCreated(h) \/ StoreUpdated(h) \/ StoreMadeVersion(h)
    PROVE  \E i \in Idents, new \in Idents \cup {None} : Serves(h, b, i, new)
  <1>1. CASE StoreCreated(h)
    <2>1. PICK i \in Idents : Post(i, b) /\ Answered(h, "stored", metax'[i].blob, None)
      BY <1>1 DEF StoreCreated
    <2>2. /\ Touched({i}) /\ i \notin DOMAIN metax /\ Live(i)' /\ metax'[i].blob.rec = b.rec
      BY <2>1, PostTouches
    <2>3. {i} = {i, None} \ {None} /\ None # i
      BY NoneAssumption
    <2>4. b.ident = None
      BY <1>1 DEF StoreCreated
    <2> QED BY <2>1, <2>2, <2>3, <2>4 DEF Serves
  <1>2. CASE StoreUpdated(h)
    <2> DEFINE i == b.ident
    <2>1. PutDataset(b) /\ Answered(h, "stored", metax'[i].blob, None)
      BY <1>2 DEF StoreUpdated
    <2>2. Touched({i}) /\ i \in DOMAIN metax /\ Live(i)' /\ metax'[i].blob.rec = b.rec
      BY <2>1, PutTouches
    <2>3. i \in Idents /\ i # None
      BY <2>2, Values
    <2>4. {i} = {i, None} \ {None}
      BY <2>3
    <2>5. b.ident = IF i \in DOMAIN metax THEN i ELSE None
      BY <2>2
    <2> HIDE DEF i
    <2> QED BY <2>1, <2>2, <2>3, <2>4, <2>5 DEF Serves
  <1>3. CASE StoreMadeVersion(h)
    <2> DEFINE i == b.ident
    <2>1. PICK n \in Idents : PutNewVersion(b, n) /\ Answered(h, "stored", metax'[i].blob, n)
      BY <1>3 DEF StoreMadeVersion
    <2>2. /\ Touched({i, n}) /\ i \in DOMAIN metax /\ n \notin DOMAIN metax
          /\ Live(i)' /\ metax'[i].blob.rec = b.rec
          /\ Live(n)' /\ metax'[n].blob.rec = None
      BY <2>1, PutVersionTouches
    <2>3. i \in Idents /\ i # None /\ n # None
      BY <2>2, Values, NoneAssumption
    <2>4. {i, n} = {i, n} \ {None}
      BY <2>3
    <2>5. b.ident = IF i \in DOMAIN metax THEN i ELSE None
      BY <2>2
    <2> HIDE DEF i
    <2> QED BY <2>1, <2>2, <2>3, <2>4, <2>5 DEF Serves
  <1> QED BY <1>1, <1>2, <1>3

\* A publish that Metax has served.
LEMMA StoringInStep ==
    ASSUME Grounded, Grounded', AllInStep, NEW h \in Handlers, Alone(h), UNCHANGED syncVars,
           StoreCreated(h) \/ StoreUpdated(h) \/ StoreMadeVersion(h)
    PROVE  AllInStep'
  <1>0. PICK id, b : id = req[h].id /\ b = req[h].blob
    OBVIOUS
  <1>1. /\ At(h, "storing") /\ UNCHANGED <<db, edited, late, lastsync, sync>>
        /\ TypeOK /\ b \in Blob /\ RequestInStep(h)
    BY <1>0, LocalValues
       DEF StoreCreated, StoreUpdated, StoreMadeVersion, syncVars, Grounded, AllInStep
  <1>2. id \in DOMAIN db /\ b = db[id].blob /\ b.rec \in {None, id} /\ RowInStep(id)
    BY <1>0, <1>1 DEF RequestInStep, At, AllInStep, RowInStep
  <1>3. \A k \in Handlers : ~At(k, "stored")
    BY <1>1 DEF Alone, At
  <1>served. PICK i \in Idents, new \in Idents \cup {None} : Serves(h, b, i, new)
    BY <1>0, <1>1, StoringAnswer
  <1>4. /\ Touched({i, new} \ {None})
        /\ Answered(h, "stored", metax'[i].blob, new)
        /\ b.ident = IF i \in DOMAIN metax THEN i ELSE None
        /\ Live(i)' /\ metax'[i].blob.rec = b.rec
        /\ new # i
        /\ new # None => new \notin DOMAIN metax /\ Live(new)' /\ metax'[new].blob.rec = None
    BY <1>served DEF Serves
  <1>5. /\ Others(h) /\ req'[h].pc = "stored" /\ req'[h].id = id
        /\ req'[h].blob = metax'[i].blob /\ req'[h].new = new /\ metax'[i].blob.ident = i
    <2>1. metax'[i].blob \in Blob /\ metax'[i].blob.ident = i
      BY <1>4, NextValues DEF Live
    <2> QED BY <1>0, <1>1, <1>4, <2>1, IsAnswered DEF PCs
  <1>6. i # None /\ db[id].blob.ident \in {None, i}
    BY <1>2, <1>4, NoneAssumption
  <1>7. \A a \in DOMAIN db : db[a].blob.ident = i => a = id
    <2>1. CASE i \in DOMAIN metax
      BY <1>2, <1>4, <1>6, <2>1 DEF AllInStep, UniqueIdentifiers, Identified
    <2> QED BY <1>6, <2>1, IdentsInMetax
  <1>8. new # None => \A a \in DOMAIN db : db[a].blob.ident # new
    BY <1>4, IdentsInMetax
  <1> DEFINE T == {i, new} \ {None}
  <1>9. Touched(T)
    BY <1>4
  <1>10. InAnswer(id, i)'
    BY <1>5 DEF InAnswer, At
  <1>11. RequestInStep(h)'
    BY <1>1, <1>2, <1>4, <1>5, <1>6, <1>7, <1>8 DEF RequestInStep, At, NewToRows, Live
  <1>12. ASSUME NEW a \in DOMAIN db, db[a].blob.ident \in T
         PROVE  metax'[db[a].blob.ident].blob.rec \in {None, a}
    BY <1>2, <1>4, <1>7, <1>8, <1>12
  <1>13. ASSUME NEW j \in T, metax'[j].blob.rec # None
         PROVE  NamedRow(j, metax[j].blob.rec)'
    <2>1. j = i /\ metax'[j].blob.rec = id
      <3>1. j = i \/ (j = new /\ new # None)
        BY <1>13
      <3> QED BY <1>2, <1>4, <1>13, <3>1
    <2> QED BY <1>1, <1>2, <1>10, <2>1 DEF NamedRow
  <1> HIDE DEF T
  <1>14. /\ \A a \in DOMAIN db' : RowInStep(a)'
         /\ UniqueIdentifiers'
         /\ \A j \in DOMAIN metax' : DatasetInStep(j)'
         /\ \A u \in Users : WatermarkHolds(u)'
    BY <1>1, <1>3, <1>9, <1>12, <1>13, TouchedInStep
  <1> QED BY <1>1, <1>5, <1>11, <1>14, AloneStep

\* A dataset that is touched and names the row it did.
LEMMA SameNameInStep ==
    ASSUME Grounded, Grounded', AllInStep, NEW i, Touched({i}), i \in DOMAIN metax,
           metax'[i].blob.rec = metax[i].blob.rec, Live(i)' => Live(i),
           UNCHANGED <<db, edited, lastsync, sync>>, \A k \in Handlers : ~At(k, "stored")
    PROVE  /\ \A id \in DOMAIN db' : RowInStep(id)'
           /\ UniqueIdentifiers'
           /\ \A j \in DOMAIN metax' : DatasetInStep(j)'
           /\ \A u \in Users : WatermarkHolds(u)'
  <1>1. ASSUME NEW a \in DOMAIN db, db[a].blob.ident \in {i}
        PROVE  metax'[db[a].blob.ident].blob.rec \in {None, a}
    BY <1>1, Values DEF AllInStep, RowInStep
  <1>2. ASSUME NEW j \in {i}, metax'[j].blob.rec # None
        PROVE  NamedRow(j, metax[j].blob.rec)'
    <2>1. NamedRow(i, metax[i].blob.rec)
      BY <1>2 DEF AllInStep, DatasetInStep
    <2>2. \A id : ~InAnswer(id, i)
      BY DEF InAnswer
    <2> QED BY <1>2, <2>1, <2>2 DEF NamedRow
  <1> QED BY <1>1, <1>2, TouchedInStep

LEMMA DeleteInMetaxInStep ==
    ASSUME Grounded, Grounded', AllInStep, NEW h \in Handlers, Alone(h), UNCHANGED syncVars,
           DeleteInMetax(h)
    PROVE  AllInStep'
  <1>0. PICK id, i : id = req[h].id /\ i = req[h].blob.ident
    OBVIOUS
  <1>1. /\ At(h, "removing") /\ UNCHANGED <<db, edited, late, lastsync, sync>>
        /\ TypeOK /\ RequestInStep(h)
    BY DEF DeleteInMetax, syncVars, Grounded, AllInStep
  <1>2. /\ Touched({i}) /\ Live(i) /\ Gone(i)' /\ metax'[i].blob.rec = metax[i].blob.rec
    BY <1>0, RemoveTouches DEF DeleteInMetax
  <1>3. /\ Others(h) /\ req'[h].pc = "deleting" /\ req'[h].id = id
    BY <1>0, <1>1, Goes DEF DeleteInMetax, PCs
  <1>4. RequestInStep(h)'
    BY <1>0, <1>1, <1>2, <1>3 DEF RequestInStep, At
  <1>5. \A k \in Handlers : ~At(k, "stored")
    BY <1>1 DEF Alone, At
  <1>6. /\ \A a \in DOMAIN db' : RowInStep(a)'
        /\ UniqueIdentifiers'
        /\ \A j \in DOMAIN metax' : DatasetInStep(j)'
        /\ \A u \in Users : WatermarkHolds(u)'
    BY <1>1, <1>2, <1>5, SameNameInStep DEF Live, Gone
  <1> QED BY <1>1, <1>3, <1>4, <1>6, AloneStep

\* Other services, when no request and no sync is active.
LEMMA OutsideInStep ==
    ASSUME OneByOne, Grounded, Grounded', AllInStep, OnlyActive({}, {}), UNCHANGED syncVars,
           EditInMetax \/ CreateInMetax \/ RemoveInMetax
    PROVE  AllInStep'
  <1>1. /\ UNCHANGED <<db, edited, late, lastsync, sync, req>>
        /\ \A k \in Handlers : At(k, "idle") /\ ~At(k, "stored")
        /\ \A s \in Syncers : Doing(s, "idle")
    BY DEF EditInMetax, CreateInMetax, RemoveInMetax, syncVars, OnlyActive, At
  <1>2. /\ \A a \in DOMAIN db' : RowInStep(a)'
        /\ UniqueIdentifiers'
        /\ \A j \in DOMAIN metax' : DatasetInStep(j)'
        /\ \A u \in Users : WatermarkHolds(u)'
    <2>1. CASE EditInMetax
      <3>1. PICK i \in Idents, rd \in Contents : ForeignEdit(i, rd)
        BY <2>1 DEF EditInMetax
      <3> QED BY <1>1, <3>1, EditTouches, SameNameInStep DEF Live
    <2>2. CASE RemoveInMetax
      <3>1. PICK i \in Idents : RemoveDataset(i)
        BY <2>2 DEF RemoveInMetax
      <3> QED BY <1>1, <3>1, RemoveTouches, SameNameInStep DEF Live
    <2>3. CASE CreateInMetax
      <3>1. PICK i \in Idents, user \in Users, rd \in Contents :
              Post(i, [NoBlob EXCEPT !.user = user, !.rd = rd])
        BY <2>3 DEF CreateInMetax
      <3> DEFINE b == [NoBlob EXCEPT !.user = user, !.rd = rd]
      <3>2. b \in Blob /\ b.rec = None
        BY DEF NoBlob, Blob
      <3>3. Post(i, b)
        BY <3>1
      <3> HIDE DEF b
      <3>4. Touched({i}) /\ i \notin DOMAIN metax /\ metax'[i].blob.rec = None
        BY <3>2, <3>3, PostTouches
      <3>5. \A a \in DOMAIN db : db[a].blob.ident # i
        BY <3>4, NoneAssumption, IdentsInMetax
      <3> QED BY <1>1, <3>4, <3>5, TouchedInStep
    <2> QED BY <2>1, <2>2, <2>3
  <1>3. OneAtATime'
    BY <1>1 DEF OneAtATime, AllInStep, At, Doing
  <1>4. (\A k \in Handlers : RequestInStep(k)') /\ (\A s \in Syncers : BatchInStep(s)')
    BY <1>1 DEF RequestInStep, BatchInStep, At, Doing
  <1> QED BY <1>2, <1>3, <1>4 DEF AllInStep

-----------------------------------------------------------------------------
(* Steps of a request that write a row.                                    *)

\* Row id is inserted, changed or deleted, by a handler whose request is about it
\* if it has an answer of Metax.
RowChanged(h, id) ==
    /\ Alone(h) /\ Others(h) /\ UNCHANGED <<metax, clock, late, lastsync, sync>>
    /\ \A a \in Ids \ {id} : /\ a \in DOMAIN db' <=> a \in DOMAIN db
                             /\ a \in DOMAIN db => db'[a] = db[a]
                             /\ a \in edited' <=> a \in edited
    /\ At(h, "stored") => req[h].id = id

LEMMA WrittenInStep ==
    ASSUME Grounded, Grounded', AllInStep, NEW h \in Handlers, NEW id \in Ids, RowChanged(h, id),
           id \in DOMAIN db' => RowInStep(id)',
           id \in DOMAIN db' /\ db'[id].blob.ident # None =>
               \A a \in DOMAIN db \ {id} : db[a].blob.ident # db'[id].blob.ident,
           \A i \in DOMAIN metax : metax[i].blob.rec = id => NamedRow(i, id)',
           \A i \in DOMAIN metax :
               /\ Shown(metax[i].blob.user, i)
               /\ \/ id \in DOMAIN db /\ db[id].blob.ident = i
                  \/ id \in DOMAIN db' /\ db'[id].blob.ident = i
               => Shown(metax[i].blob.user, i)',
           RequestInStep(h)'
    PROVE  AllInStep'
  <1>1. /\ DOMAIN db \subseteq Ids /\ DOMAIN db' \subseteq Ids
        /\ UNCHANGED <<metax, clock, late, lastsync, sync>> /\ Others(h) /\ Alone(h)
    BY Values, NextValues DEF RowChanged
  <1>2. \A a \in Ids \ {id} : /\ a \in DOMAIN db' <=> a \in DOMAIN db
                              /\ a \in DOMAIN db => db'[a] = db[a]
                              /\ a \in edited' <=> a \in edited
    BY DEF RowChanged
  <1>3. ASSUME NEW a \in DOMAIN db'
        PROVE  RowInStep(a)'
    <2>1. CASE a = id
      BY <1>3, <2>1
    <2>2. CASE a # id
      <3>1. a \in DOMAIN db /\ db'[a] = db[a] /\ (a \in edited' <=> a \in edited) /\ RowInStep(a)
        BY <1>1, <1>2, <1>3, <2>2 DEF AllInStep
      <3> QED BY <1>1, <3>1 DEF RowInStep
    <2> QED BY <2>1, <2>2
  <1>4. UniqueIdentifiers'
    <2>1. ASSUME NEW a \in DOMAIN db', NEW b \in DOMAIN db', db'[a].blob.ident # None,
                 db'[a].blob.ident = db'[b].blob.ident
          PROVE  a = b
      BY <1>1, <1>2, <2>1 DEF AllInStep, UniqueIdentifiers, Identified
    <2> QED BY <2>1 DEF UniqueIdentifiers, Identified
  <1>5. ASSUME NEW i \in DOMAIN metax'
        PROVE  DatasetInStep(i)'
    <2> DEFINE x == metax[i].blob.rec
    <2>1. DatasetInStep(i) /\ i \in DOMAIN metax
      BY <1>1, <1>5 DEF AllInStep
    <2>2. ASSUME x # None, x # id
          PROVE  NamedRow(i, x)'
      <3>1. ~InAnswer(x, i)
        BY <2>2 DEF InAnswer, RowChanged, Alone, At
      <3>2. NamedRow(i, x)
        BY <2>1, <2>2 DEF DatasetInStep
      <3>3. x \in DOMAIN db <=> x \in DOMAIN db'
        BY <1>1, <1>2, <2>2
      <3>4. x \in DOMAIN db => db'[x] = db[x]
        BY <1>1, <1>2, <2>2
      <3> QED BY <1>1, <3>1, <3>2, <3>3, <3>4 DEF NamedRow, Live
    <2>3. x # None => NamedRow(i, metax[i].blob.rec)'
      BY <1>1, <2>1, <2>2
    <2> QED BY <1>1, <2>1, <2>3 DEF DatasetInStep
  <1>6. ASSUME NEW i \in DOMAIN metax, Shown(metax[i].blob.user, i)
        PROVE  Shown(metax[i].blob.user, i)'
    <2>1. CASE \/ id \in DOMAIN db /\ db[id].blob.ident = i
               \/ id \in DOMAIN db' /\ db'[id].blob.ident = i
      BY <1>6, <2>1
    <2>2. CASE ~(\/ id \in DOMAIN db /\ db[id].blob.ident = i
                 \/ id \in DOMAIN db' /\ db'[id].blob.ident = i)
      <3> DEFINE u == metax[i].blob.user
      <3>1. Shows(u, i)' = Shows(u, i)
        BY <1>1, <1>2, <2>2 DEF Shows, Owned
      <3>2. \A a \in Shows(u, i) : UpToDate(a, i) => UpToDate(a, i)'
        BY <1>1, <1>2, <2>2 DEF Shows, Owned, UpToDate
      <3> QED BY <1>1, <1>6, <3>1, <3>2 DEF Shown
    <2> QED BY <2>1, <2>2
  <1>7. ASSUME NEW u \in Users
        PROVE  WatermarkHolds(u)'
    <2>1. WatermarkHolds(u) /\ (Unsynced(u)' => Unsynced(u))
      BY <1>1 DEF AllInStep, Unsynced, Doing
    <2>2. ASSUME Unsynced(u), NEW i \in DOMAIN metax, metax[i].blob.user = u,
                 metax[i].blob.date <= lastsync[u]
          PROVE  Shown(u, i)'
      <3>1. Shown(u, i)
        BY <2>1, <2>2 DEF WatermarkHolds
      <3>2. Shown(metax[i].blob.user, i)'
        BY <1>6, <2>2, <3>1
      <3>3. metax'[i].blob.user = u
        BY <1>1, <2>2
      <3> QED BY <3>2, <3>3
    <2> QED BY <1>1, <2>1, <2>2 DEF WatermarkHolds
  <1> QED BY <1>1, <1>3, <1>4, <1>5, <1>7, AloneStep

\* A row that shows nothing of Metax, or something new to the rows, is inserted.
LEMMA InsertedInStep ==
    ASSUME Grounded, Grounded', AllInStep, NEW h \in Handlers, Alone(h), Others(h),
           UNCHANGED <<edited, metax, clock, late, lastsync, sync>>,
           NEW id \in Ids \ minted, NEW row, db' = With(db, id, row), ~At(h, "stored"),
           RowInStep(id)', RequestInStep(h)',
           row.blob.ident # None => Live(row.blob.ident) /\ row.blob = metax[row.blob.ident].blob
                                    /\ \A a \in DOMAIN db : db[a].blob.ident # row.blob.ident
    PROVE  AllInStep'
  <1>1. /\ DOMAIN db' = DOMAIN db \cup {id} /\ db'[id] = row /\ id \notin DOMAIN db
        /\ \A a \in DOMAIN db : db'[a] = db[a]
    BY DEF With, Grounded
  <1>2. RowChanged(h, id)
    BY <1>1 DEF RowChanged
  <1>3. \A i \in DOMAIN metax : metax[i].blob.rec # id
    BY NoneAssumption DEF Grounded
  <1>4. ASSUME NEW i \in DOMAIN metax, row.blob.ident = i
        PROVE  Shown(metax[i].blob.user, i)'
    <2>1. i # None /\ Live(i) /\ row.blob = metax[i].blob
      BY <1>4, Values
    <2>2. row.owner = metax[i].blob.user
      BY <1>1, <1>4, <2>1 DEF Grounded
    <2>3. id \in Shows(metax[i].blob.user, i)'
      BY <1>1, <1>4, <2>2 DEF Shows, Owned
    <2>4. UpToDate(id, i)'
      BY <1>1, <2>1 DEF UpToDate
    <2> QED BY <2>1, <2>3, <2>4 DEF Shown, Live
  <1> QED BY <1>1, <1>2, <1>3, <1>4, WrittenInStep

LEMMA CreateDatasetInStep ==
    ASSUME ~CreatesOverlap, Grounded, Grounded', AllInStep, NEW h \in Handlers, Alone(h), UNCHANGED syncVars,
           CreateDataset(h)
    PROVE  AllInStep'
  <1>1. PICK user \in Users, id \in Ids \ minted, rd \in Contents, cum \in Cums \cup {None} :
          db' = With(db, id, NewRow(user, CreateData(id, user, rd, cum)))
    BY OwnTemplate, PublishAssumption
  <1> DEFINE b   == CreateData(id, user, rd, cum)
             row == NewRow(user, b)
  <1>2. /\ UNCHANGED <<edited, metax, clock, late, lastsync, sync, req>> /\ At(h, "idle")
        /\ Others(h)
    BY DEF CreateDataset, syncVars, metaxVars, Others
  <1>3. b.ident = None /\ b.rec = id
    BY DEF CreateData, NoBlob
  <1>4. row.blob = b /\ ~row.published /\ row.synced = 0
    BY DEF NewRow
  <1>5. db' = With(db, id, row)
    BY <1>1
  <1> HIDE DEF b, row
  <1>6. db'[id] = row
    BY <1>5 DEF With
  <1>7. RowInStep(id)'
    BY <1>2, <1>3, <1>4, <1>6, Values DEF RowInStep
  <1>8. RequestInStep(h)'
    BY <1>2 DEF RequestInStep, At
  <1>9. ~At(h, "stored")
    BY <1>2 DEF At
  <1> QED BY <1>2, <1>3, <1>4, <1>5, <1>7, <1>8, <1>9, InsertedInStep

LEMMA StoreNewVersionInStep ==
    ASSUME Grounded, Grounded', AllInStep, NEW h \in Handlers, Alone(h), UNCHANGED syncVars,
           StoreNewVersion(h)
    PROVE  AllInStep'
  <1>1. PICK id \in Ids \ minted :
          db' = With(db, id, NewVersionRow(db[req[h].id], req[h].blob, req[h].blob.date))
    BY DEF StoreNewVersion
  <1>0. PICK b, n : b = req[h].blob /\ n = req[h].new
    OBVIOUS
  <1> DEFINE row == NewVersionRow(db[req[h].id], b, b.date)
  <1>2. /\ UNCHANGED <<edited, metax, clock, late, lastsync, sync>> /\ At(h, "landing")
        /\ RequestInStep(h) /\ TypeOK
    BY DEF StoreNewVersion, syncVars, metaxVars, AllInStep, Grounded
  <1>3. Others(h) /\ req'[h] = Idle
    BY <1>2, Ends DEF StoreNewVersion
  <1>4. NewToRows(n) /\ b = metax[n].blob
    BY <1>0, <1>2 DEF RequestInStep, At
  <1>5. n \in DOMAIN metax /\ n # None /\ b.ident = n /\ b.rec = None /\ b.date \in Nat
    BY <1>4, Values DEF NewToRows, Live
  <1>6. 0 < b.date /\ b.date <= clock
    BY <1>4, <1>5 DEF AllInStep, DatasetInStep
  <1>7. row.blob = b /\ row.published /\ row.synced = b.date
    BY DEF NewVersionRow
  <1>8. db' = With(db, id, row)
    BY <1>0, <1>1
  <1> HIDE DEF row
  <1>9. db'[id] = row
    BY <1>8 DEF With
  <1>10. RowInStep(id)'
    BY <1>2, <1>4, <1>5, <1>6, <1>7, <1>9 DEF RowInStep
  <1>11. RequestInStep(h)'
    BY <1>3 DEF RequestInStep, At, Idle
  <1>12. ~At(h, "stored")
    BY <1>2 DEF At
  <1> QED BY <1>2, <1>3, <1>4, <1>5, <1>7, <1>8, <1>10, <1>11, <1>12, InsertedInStep DEF NewToRows

\* A row that is changed in place.
LEMMA PutRow ==
    ASSUME NEW id \in DOMAIN db, NEW row, db' = With(db, id, row)
    PROVE  /\ DOMAIN db' = DOMAIN db /\ db'[id] = row
           /\ \A a \in DOMAIN db \ {id} : db'[a] = db[a]
  BY DEF With

LEMMA SmartUpdateInStep ==
    ASSUME Grounded, Grounded', AllInStep, NEW h \in Handlers, Alone(h), UNCHANGED syncVars,
           SmartUpdateWithOwner(h)
    PROVE  AllInStep'
  <1>0. PICK id, b : id = req[h].id /\ b = req[h].blob
    OBVIOUS
  <1> DEFINE row == PatchRow(db[id], b)
  <1>1. /\ UNCHANGED <<metax, clock, late, lastsync, sync>> /\ At(h, "patching") /\ TypeOK
        /\ id \in DOMAIN db /\ id \in Ids /\ b \in Blob /\ db[id] \in Row /\ db[id].blob \in Blob
        /\ db' = With(db, id, row) /\ edited' = edited \cup {id}
    BY <1>0, Values, LocalValues
       DEF SmartUpdateWithOwner, syncVars, metaxVars, Owned, Grounded
  <1>2. b.rec = id
    BY <1>0, <1>1 DEF Grounded
  <1>3. /\ row.blob.ident = db[id].blob.ident /\ row.blob.rec = id
        /\ row.published = db[id].published /\ row.synced = db[id].synced
        /\ row.owner = db[id].owner
    BY <1>1, <1>2 DEF PatchRow, MergeBlob, Row, Blob
  <1> HIDE DEF row
  <1>4. /\ DOMAIN db' = DOMAIN db /\ db'[id] = row
        /\ \A a \in DOMAIN db \ {id} : db'[a] = db[a]
    BY <1>1, PutRow
  <1>5. Others(h) /\ req'[h] = Idle
    BY <1>1, Ends DEF SmartUpdateWithOwner
  <1>6. RowChanged(h, id)
    BY <1>1, <1>4, <1>5 DEF RowChanged, At
  <1>7. RowInStep(id)'
    BY <1>1, <1>3, <1>4 DEF AllInStep, RowInStep
  <1>8. \A a \in DOMAIN db \ {id} : db[id].blob.ident # None => db[a].blob.ident # db[id].blob.ident
    BY <1>1 DEF AllInStep, UniqueIdentifiers, Identified
  <1>9. ASSUME NEW i \in DOMAIN metax, metax[i].blob.rec = id
        PROVE  NamedRow(i, id)'
    <2>1. ~InAnswer(id, i)
      BY <1>1 DEF InAnswer, Alone, At
    <2>2. NamedRow(i, id)
      BY <1>1, <1>9, Values DEF AllInStep, DatasetInStep
    <2> QED BY <1>1, <1>3, <1>4, <2>1, <2>2 DEF NamedRow
  <1>10. ASSUME NEW i \in DOMAIN metax, Shown(metax[i].blob.user, i)
         PROVE  Shown(metax[i].blob.user, i)'
    <2>1. \A u : Shows(u, i)' = Shows(u, i)
      BY <1>3, <1>4 DEF Shows, Owned
    <2>2. \A a \in DOMAIN db : UpToDate(a, i) => UpToDate(a, i)'
      BY <1>1, <1>4 DEF UpToDate
    <2>3. \A u : Shows(u, i) \subseteq DOMAIN db
      BY DEF Shows, Owned
    <2>4. PICK u : u = metax[i].blob.user /\ u = metax'[i].blob.user
      BY <1>1
    <2>5. Shown(u, i)'
      BY <1>1, <1>10, <2>1, <2>2, <2>3, <2>4 DEF Shown
    <2> QED BY <2>4, <2>5
  <1>11. RequestInStep(h)'
    BY <1>5 DEF RequestInStep, At, Idle
  <1> QED BY <1>1, <1>3, <1>4, <1>6, <1>7, <1>8, <1>9, <1>10, <1>11, WrittenInStep

LEMMA StorePublishedInStep ==
    ASSUME Grounded, Grounded', AllInStep, NEW h \in Handlers, Alone(h), UNCHANGED syncVars,
           StorePublished(h)
    PROVE  AllInStep'
  <1>0. PICK id, b, n, i : id = req[h].id /\ b = req[h].blob /\ n = req[h].new /\ i = b.ident
    OBVIOUS
  <1> DEFINE row == PublishedRow(db[id], b, b.date)
  <1>1. /\ UNCHANGED <<metax, clock, late, lastsync, sync>> /\ At(h, "stored") /\ TypeOK
        /\ id \in DOMAIN db /\ id \in Ids /\ b \in Blob /\ db[id] \in Row
        /\ db' = With(db, id, row) /\ edited' = edited \ {id} /\ RequestInStep(h)
    BY <1>0, Values, LocalValues
       DEF StorePublished, syncVars, metaxVars, Grounded, AllInStep
  <1>2. /\ Live(i) /\ b = metax[i].blob /\ b.rec \in {None, id}
        /\ db[id].blob.ident \in {None, i}
        /\ \A a \in DOMAIN db : db[a].blob.ident = i => a = id
        /\ n # None => NewToRows(n) /\ n # i
    BY <1>0, <1>1 DEF RequestInStep, At
  <1>3. i \in DOMAIN metax /\ i # None /\ b.date \in Nat /\ 0 < b.date /\ b.date <= clock
    BY <1>2, Values DEF Live, AllInStep, DatasetInStep
  <1>4. /\ row.blob = b /\ row.published /\ row.synced = b.date /\ row.owner = db[id].owner
    BY <1>1 DEF PublishedRow, Row
  <1> HIDE DEF row
  <1>5. /\ DOMAIN db' = DOMAIN db /\ db'[id] = row
        /\ \A a \in DOMAIN db \ {id} : db'[a] = db[a]
    BY <1>1, PutRow
  <1>6. /\ Others(h)
        /\ \/ req'[h] = Idle
           \/ n # None /\ req'[h].pc = "getting" /\ req'[h].id = id /\ req'[h].new = n
    BY <1>0, <1>1, Ends, Goes DEF StorePublished, PCs
  <1>7. RowChanged(h, id)
    BY <1>0, <1>1, <1>5, <1>6 DEF RowChanged
  <1>8. RowInStep(id)'
    <2>1. /\ metax' = metax /\ clock' = clock /\ db'[id].blob = b /\ b.ident = i
          /\ db'[id].published /\ db'[id].synced = b.date
      BY <1>0, <1>1, <1>4, <1>5
    <2>2. metax[i].blob = b
      BY <1>2
    <2> QED BY <1>2, <1>3, <2>1, <2>2 DEF RowInStep
  <1>9. ASSUME NEW j \in DOMAIN metax, metax[j].blob.rec = id
        PROVE  NamedRow(j, id)'
    <2>1. NamedRow(j, id) /\ j # None
      BY <1>1, <1>9, Values DEF AllInStep, DatasetInStep
    <2>2. InAnswer(id, j) => j = i
      BY <1>0, <1>1 DEF InAnswer, Alone, At
    <2>3. j = i
      BY <1>1, <1>2, <2>1, <2>2 DEF NamedRow
    <2> QED BY <1>0, <1>1, <1>4, <1>5, <2>3 DEF NamedRow
  <1>10. ASSUME NEW j \in DOMAIN metax,
                db[id].blob.ident = j \/ db'[id].blob.ident = j
         PROVE  Shown(metax[j].blob.user, j)'
    <2>1. j = i
      BY <1>0, <1>2, <1>4, <1>5, <1>10, Values
    <2>2. row.owner = metax[j].blob.user
      <3>1. id \in DOMAIN db' /\ db'[id] = row /\ row.blob.ident = i /\ i # None /\ metax' = metax
        BY <1>0, <1>1, <1>3, <1>4, <1>5
      <3>2. metax'[db'[id].blob.ident].blob.user = db'[id].owner
        BY <3>1 DEF Grounded
      <3> QED BY <2>1, <3>1, <3>2
    <2>3. id \in Shows(metax[j].blob.user, j)'
      BY <1>0, <1>1, <1>4, <1>5, <2>1, <2>2 DEF Shows, Owned
    <2>4. UpToDate(id, j)'
      BY <1>1, <1>2, <1>4, <1>5, <2>1 DEF UpToDate
    <2> QED BY <1>1, <1>2, <2>1, <2>3, <2>4 DEF Shown, Live
  <1>11. RequestInStep(h)'
    <2>1. CASE req'[h] = Idle
      BY <2>1 DEF RequestInStep, At, Idle
    <2>2. CASE n # None /\ req'[h].pc = "getting" /\ req'[h].id = id /\ req'[h].new = n
      <3>1. \A a \in DOMAIN db' : db'[a].blob.ident # n
        BY <1>0, <1>2, <1>4, <1>5, <2>2 DEF NewToRows
      <3> QED BY <1>1, <1>2, <1>5, <2>2, <3>1 DEF RequestInStep, At, NewToRows, Live
    <2> QED BY <1>6, <2>1, <2>2
  <1>12. db'[id].blob.ident = i /\ \A a \in DOMAIN db \ {id} : db[a].blob.ident # i
    BY <1>0, <1>2, <1>4, <1>5
  <1> QED BY <1>1, <1>7, <1>8, <1>9, <1>10, <1>11, <1>12, WrittenInStep

LEMMA DeleteInStep ==
    ASSUME Grounded, Grounded', AllInStep, NEW h \in Handlers, Alone(h), UNCHANGED syncVars,
           Delete(h)
    PROVE  AllInStep'
  <1>0. PICK id : id = req[h].id
    OBVIOUS
  <1>1. /\ UNCHANGED <<metax, clock, late, lastsync, sync>> /\ At(h, "deleting") /\ TypeOK
        /\ id \in DOMAIN db /\ id \in Ids
        /\ db' = Without(db, id) /\ edited' = edited \ {id} /\ RequestInStep(h)
    BY <1>0, Values DEF Delete, syncVars, metaxVars, Owned, Grounded, AllInStep
  <1>2. /\ DOMAIN db' = DOMAIN db \ {id}
        /\ \A a \in DOMAIN db \ {id} : db'[a] = db[a]
    BY <1>1 DEF Without
  <1>3. Others(h) /\ req'[h] = Idle
    BY <1>1, Ends DEF Delete
  <1>4. RowChanged(h, id)
    BY <1>1, <1>2, <1>3 DEF RowChanged, At
  <1>5. db[id].blob.ident # None => Gone(db[id].blob.ident)
    BY <1>0, <1>1 DEF RequestInStep, At
  <1>6. ASSUME NEW i \in DOMAIN metax, metax[i].blob.rec = id
        PROVE  NamedRow(i, id)'
    <2>1. ~InAnswer(id, i)
      BY <1>1 DEF InAnswer, Alone, At
    <2>2. NamedRow(i, id) /\ i # None
      BY <1>1, <1>6, Values DEF AllInStep, DatasetInStep
    <2>3. ~Live(i)
      BY <1>1, <1>5, <2>1, <2>2 DEF NamedRow, Live, Gone
    <2> QED BY <1>1, <1>2, <2>3 DEF NamedRow, Live
  <1>7. ASSUME NEW i \in DOMAIN metax, Shown(metax[i].blob.user, i), db[id].blob.ident = i
        PROVE  Shown(metax[i].blob.user, i)'
    <2>1. Gone(i)
      BY <1>5, <1>7, Values
    <2>2. i \notin Refused => Shows(metax[i].blob.user, i) = {}
      BY <1>7, <2>1 DEF Shown, Gone
    <2>3. i \notin Refused => Shows(metax[i].blob.user, i)' = {}
      BY <1>1, <1>2, <2>2 DEF Shows, Owned
    <2> QED BY <1>1, <2>1, <2>3 DEF Shown, Gone
  <1>8. RequestInStep(h)'
    BY <1>3 DEF RequestInStep, At, Idle
  <1> QED BY <1>1, <1>2, <1>4, <1>6, <1>7, <1>8, WrittenInStep

\* Every step of a request.
LEMMA HandlerInStep ==
    ASSUME OneByOne, Grounded, Grounded', AllInStep, NEW h \in Handlers,
           OnlyActive({h}, {}), UNCHANGED syncVars, HandlerStep(h) \/ Fail(h)
    PROVE  AllInStep'
  <1>1. Alone(h)
    BY IsAlone
  <1>2. CASE RejectRequest(h)
    <2>1. /\ UNCHANGED <<db, edited, metaxVars, late, lastsync, sync, req>> /\ At(h, "idle")
      BY <1>2 DEF RejectRequest, vars, syncVars, metaxVars
    <2>2. Others(h) /\ ~At(h, "stored") /\ RequestInStep(h)'
      BY <2>1 DEF Others, At, RequestInStep
    <2> QED BY <1>1, <2>1, <2>2, LocalInStep
  <1>3. ~CreatesOverlap
    BY DEF OneByOne
  <1> QED BY <1>1, <1>2, <1>3, ReadRowInStep, AnswersInStep, FailInStep, StoringInStep,
             DeleteInMetaxInStep, CreateDatasetInStep, StoreNewVersionInStep,
             SmartUpdateInStep, StorePublishedInStep, DeleteInStep
          DEF HandlerStep

-----------------------------------------------------------------------------
(* Syncs, with no request and no other sync active.                        *)

Sole(s) ==
    /\ late = {}
    /\ \A h \in Handlers : At(h, "idle")
    /\ \A t \in Syncers \ {s} : Doing(t, "idle")

LEMMA IsSole ==
    ASSUME OneByOne, AllInStep, NEW s \in Syncers, OnlyActive({}, {s}) \/ ~Doing(s, "idle")
    PROVE  Sole(s)
  BY DEF OneByOne, AllInStep, OneAtATime, OnlyActive, Sole

LEMMA SoleStep ==
    ASSUME Grounded, NEW s \in Syncers, Sole(s), UNCHANGED <<req, late>>,
           \A t \in Syncers \ {s} : sync'[t] = sync[t],
           \A id \in DOMAIN db' : RowInStep(id)',
           UniqueIdentifiers',
           \A i \in DOMAIN metax' : DatasetInStep(i)',
           BatchInStep(s)',
           \A u \in Users : WatermarkHolds(u)'
    PROVE  AllInStep'
  <1>1. \A t \in Syncers \ {s} : Doing(t, "idle")'
    BY DEF Sole, Doing
  <1>2. \A h \in Handlers : At(h, "idle")'
    BY DEF Sole, At
  <1>3. OneAtATime'
    BY <1>1, <1>2 DEF OneAtATime, Sole
  <1>4. \A h \in Handlers : RequestInStep(h)'
    BY <1>2 DEF RequestInStep
  <1>5. \A t \in Syncers : BatchInStep(t)'
    BY <1>1 DEF BatchInStep
  <1> QED BY <1>3, <1>4, <1>5 DEF AllInStep

\* A step of a batch that leaves all tables and Metax alone.
LEMMA SoleLocalStep ==
    ASSUME Grounded, AllInStep, NEW s \in Syncers, Sole(s),
           UNCHANGED <<db, req, late, edited, metax, clock, lastsync>>,
           NEW new, sync' = [sync EXCEPT ![s] = new],
           Doing(s, "idle") \/ (new.pc # "idle" /\ new.user = sync[s].user),
           BatchInStep(s)'
    PROVE  AllInStep'
  <1>1. sync'[s] = new /\ \A t \in Syncers \ {s} : sync'[t] = sync[t]
    BY DEF Grounded, SyncTyped
  <1>2. ASSUME NEW id \in DOMAIN db'
        PROVE  RowInStep(id)'
    BY <1>2 DEF AllInStep, RowInStep
  <1>3. UniqueIdentifiers'
    BY DEF AllInStep, UniqueIdentifiers, Identified
  <1>4. ASSUME NEW i \in DOMAIN metax'
        PROVE  DatasetInStep(i)'
    <2>1. \A id : ~InAnswer(id, i)
      BY DEF InAnswer, Sole, At
    <2> QED BY <1>4, <2>1 DEF AllInStep, DatasetInStep, NamedRow, Live
  <1>5. ASSUME NEW u \in Users
        PROVE  WatermarkHolds(u)'
    <2>1. Unsynced(u)' => Unsynced(u)
      BY <1>1 DEF Unsynced, Doing, Sole
    <2> QED BY <2>1 DEF AllInStep, WatermarkHolds, Shown, Shows, UpToDate, Owned
  <1> QED BY <1>1, <1>2, <1>3, <1>4, <1>5, SoleStep

\* What a batch has to show, and what it has written, while the tables stay.
LEMMA BatchKeeps ==
    ASSUME UNCHANGED <<db, edited, metax, clock>>, NEW s \in Syncers,
           sync'[s].user = sync[s].user, sync'[s].since = sync[s].since,
           sync'[s].removed = sync[s].removed, sync'[s].at = sync[s].at,
           sync'[s].writes = sync[s].writes, sync'[s].recs \subseteq sync[s].recs
    PROVE  /\ \A u, i : Shown(u, i)' <=> Shown(u, i)
           /\ \A i : Settled(s, i)' <=> Settled(s, i)
           /\ \A rec : Queried(s, rec)' <=> Queried(s, rec)
           /\ \A i : Processed(s, i)' <=> Processed(s, i)
           /\ \A id : Deletion(s, id) => Deletion(s, id)'
           /\ \A id : Save(s, id) => Save(s, id)'
  <1>1. \A u, i : Shown(u, i)' <=> Shown(u, i)
    BY DEF Shown, Shows, UpToDate, Owned
  <1>2. \A i : Settled(s, i)' <=> Settled(s, i)
    BY DEF Settled
  <1>3. \A rec : Queried(s, rec)' <=> Queried(s, rec)
    BY DEF Queried
  <1>4. \A id : Visible(s, id)' = Visible(s, id)
    BY DEF Visible
  <1>5. \A i : Processed(s, i)' <=> Processed(s, i)
    BY <1>4 DEF Processed, Current
  <1>6. \A id : Deletion(s, id) => Deletion(s, id)'
    BY DEF Deletion, Gone
  <1>7. ASSUME NEW id, Save(s, id)
        PROVE  Save(s, id)'
    <2>1. \A b, i : Current(id, b, i)' <=> Current(id, b, i)
      BY DEF Current
    <2>2. \A i : /\ Live(i)' <=> Live(i)
                 /\ metax[i] \notin sync[s].recs => metax'[i] \notin sync'[s].recs
      BY DEF Live
    <2> QED BY <1>7, <2>1, <2>2 DEF Save
  <1> QED BY <1>1, <1>2, <1>3, <1>5, <1>6, <1>7

\* The state a sync of user u's begins in.
Started(new, u) ==
    /\ new.pc = "starting" /\ new.user = u /\ new.since \in {lastsync[u], 0} /\ ~new.removed
    /\ new.todo = << >> /\ new.recs = {} /\ new.writes = NoRows

LEMMA BeginSyncInStep ==
    ASSUME OneByOne, Grounded, AllInStep, NEW s \in Syncers, Sole(s), BeginSync(s)
    PROVE  AllInStep'
  <1>1. /\ UNCHANGED <<db, req, late, edited, metax, clock, lastsync>> /\ Doing(s, "idle")
    BY DEF BeginSync, Fetch, FetchAll, GetForRpc, vars, metaxVars, OneByOne
  <1>2. \E u \in Users : \E new : sync' = [sync EXCEPT ![s] = new] /\ Started(new, u)
    <2>1. CASE Fetch(s)
      <3>1. PICK u \in Users :
              sync' = [sync EXCEPT ![s] = [SyncIdle EXCEPT !.pc = "starting", !.user = u,
                                                           !.since = lastsync[u]]]
        BY <2>1 DEF Fetch
      <3>2. Started([SyncIdle EXCEPT !.pc = "starting", !.user = u, !.since = lastsync[u]], u)
        BY DEF SyncIdle, Started
      <3> QED BY <3>1, <3>2
    <2>2. CASE FetchAll(s)
      <3>1. PICK u \in Users :
              sync' = [sync EXCEPT ![s] = [SyncIdle EXCEPT !.pc = "starting", !.user = u]]
        BY <2>2 DEF FetchAll
      <3>2. Started([SyncIdle EXCEPT !.pc = "starting", !.user = u], u)
        BY DEF SyncIdle, Started
      <3> QED BY <3>1, <3>2
    <2> QED BY <2>1, <2>2 DEF BeginSync, GetForRpc, OneByOne
  <1>3. PICK u \in Users : \E new : sync' = [sync EXCEPT ![s] = new] /\ Started(new, u)
    BY <1>2
  <1>4. PICK new : sync' = [sync EXCEPT ![s] = new] /\ Started(new, u)
    BY <1>3
  <1>5. sync'[s] = new
    BY <1>4 DEF Grounded, SyncTyped
  <1>6. DOMAIN NoRows = {}
    BY DEF NoRows
  <1>7. ASSUME NEW i \in DOMAIN metax, metax[i].blob.user = u, Settled(s, i)'
        PROVE  Shown(u, i)
    <2>1. metax[i].blob.date <= new.since
      BY <1>1, <1>4, <1>5, <1>7 DEF Settled, Started
    <2>2. 0 < metax[i].blob.date /\ metax[i].blob.date \in Nat
      BY Values DEF AllInStep, DatasetInStep
    <2>3. metax[i].blob.date <= lastsync[u]
      BY <1>4, <2>1, <2>2 DEF Started
    <2>4. Unsynced(u)
      BY <1>1 DEF Unsynced, Sole
    <2> QED BY <1>7, <2>3, <2>4 DEF AllInStep, WatermarkHolds
  <1>8. BatchInStep(s)'
    <2>1. \A i \in DOMAIN metax : Shown(u, i)' <=> Shown(u, i)
      BY <1>1 DEF Shown, Shows, UpToDate, Owned
    <2> QED BY <1>1, <1>4, <1>5, <1>6, <1>7, <2>1 DEF BatchInStep, Doing, Started
  <1>9. new.pc # "idle"
    BY <1>4 DEF Started
  <1> QED BY <1>1, <1>4, <1>8, <1>9, SoleLocalStep

LEMMA NewBatchInStep ==
    ASSUME Grounded, AllInStep, NEW s \in Syncers, Sole(s), NewBatchForUser(s)
    PROVE  AllInStep'
  <1>1. /\ UNCHANGED <<db, req, late, edited, metax, clock, lastsync>>
        /\ sync[s] \in SyncStates /\ BatchInStep(s) /\ ~Doing(s, "idle") /\ ~Doing(s, "reading")
    BY LocalValues DEF NewBatchForUser, vars, AllInStep, Doing
  <1>2. ~Rpc(s)
    BY <1>1 DEF BatchInStep, Rpc
  <1> DEFINE new == [sync[s] EXCEPT !.at = clock, !.pc = "querying"]
  <1>3. sync' = [sync EXCEPT ![s] = new]
    BY <1>2 DEF NewBatchForUser, Grounded, SyncTyped
  <1>4. /\ new.pc = "querying" /\ new.at = clock /\ new.user = sync[s].user
        /\ new.since = sync[s].since /\ new.removed = sync[s].removed
        /\ new.todo = sync[s].todo /\ new.recs = sync[s].recs /\ new.writes = sync[s].writes
    BY <1>1 DEF SyncStates
  <1> HIDE DEF new
  <1>5. sync'[s] = new
    BY <1>3 DEF Grounded, SyncTyped
  <1>6. /\ \A u, i : Shown(u, i)' <=> Shown(u, i)
        /\ \A i : Settled(s, i)' <=> Settled(s, i)
        /\ \A rec : Queried(s, rec)' <=> Queried(s, rec)
    BY <1>1, <1>4, <1>5 DEF Shown, Shows, UpToDate, Owned, Settled, Queried
  <1>7. BatchInStep(s)'
    BY <1>1, <1>4, <1>5, <1>6 DEF BatchInStep, Doing
  <1> QED BY <1>1, <1>3, <1>4, <1>7, SoleLocalStep

LEMMA ReadStreamChannelInStep ==
    ASSUME Grounded, AllInStep, NEW s \in Syncers, Sole(s), ReadStreamChannel(s)
    PROVE  AllInStep'
  <1> DEFINE found == {i \in DOMAIN metax : Queried(s, metax[i])}
             recs  == {metax[i] : i \in found}
             pc    == IF found = {} THEN "reading" ELSE "loading"
             new   == [sync[s] EXCEPT !.recs = recs, !.pc = pc]
  <1>1. /\ UNCHANGED <<db, req, late, edited, metax, clock, lastsync>>
        /\ sync[s] \in SyncStates /\ BatchInStep(s) /\ Doing(s, "querying")
    BY LocalValues DEF ReadStreamChannel, vars, AllInStep
  <1>2. sync' = [sync EXCEPT ![s] = new]
    BY DEF ReadStreamChannel, Grounded, SyncTyped
  <1>3. /\ new.pc = pc /\ new.at = sync[s].at /\ new.user = sync[s].user
        /\ new.since = sync[s].since /\ new.removed = sync[s].removed
        /\ new.todo = sync[s].todo /\ new.recs = recs /\ new.writes = sync[s].writes
    BY <1>1 DEF SyncStates
  <1>4. pc \in {"loading", "reading"} /\ (pc = "reading" => recs = {})
    OBVIOUS
  <1>5. \A rec \in recs : /\ rec.blob.ident \in DOMAIN metax /\ rec = metax[rec.blob.ident]
                          /\ Queried(s, rec)
    BY Values
  <1>6. \A i \in DOMAIN metax : Queried(s, metax[i]) => metax[i] \in recs
    OBVIOUS
  <1> HIDE DEF new, pc, recs, found
  <1>7. sync'[s] = new
    BY <1>2 DEF Grounded, SyncTyped
  <1>8. /\ \A u, i : Shown(u, i)' <=> Shown(u, i)
        /\ \A i : Settled(s, i)' <=> Settled(s, i)
        /\ \A rec : Queried(s, rec)' <=> Queried(s, rec)
    BY <1>1, <1>3, <1>7 DEF Shown, Shows, UpToDate, Owned, Settled, Queried
  <1>9. BatchInStep(s)'
    BY <1>1, <1>3, <1>4, <1>5, <1>6, <1>7, <1>8 DEF BatchInStep, Doing
  <1>10. new.pc # "idle"
    BY <1>3, <1>4
  <1> QED BY <1>1, <1>2, <1>3, <1>9, <1>10, SoleLocalStep

LEMMA getSyncInfoInStep ==
    ASSUME OneByOne, Grounded, AllInStep, NEW s \in Syncers, Sole(s), getSyncInfo(s)
    PROVE  AllInStep'
  <1> DEFINE known == [id \in Owned(db, sync[s].user) |-> KnownRow(id)]
             new   == [sync[s] EXCEPT !.pc = "reading", !.known = known]
  <1>1. /\ UNCHANGED <<db, req, late, edited, metax, clock, lastsync>>
        /\ sync[s] \in SyncStates /\ BatchInStep(s) /\ Doing(s, "loading")
    BY LocalValues DEF getSyncInfo, vars, AllInStep
  <1>2. sync' = [sync EXCEPT ![s] = new]
    BY DEF getSyncInfo, OneByOne, Grounded, SyncTyped, KnownRow
  <1>3. /\ new.pc = "reading" /\ new.at = sync[s].at /\ new.user = sync[s].user
        /\ new.since = sync[s].since /\ new.removed = sync[s].removed /\ new.known = known
        /\ new.todo = sync[s].todo /\ new.recs = sync[s].recs /\ new.writes = sync[s].writes
    BY <1>1 DEF SyncStates
  <1>4. [id \in Owned(db, sync[s].user) |-> KnownRow(id)]' = known
    <2>1. \A id : KnownRow(id)' = KnownRow(id)
      BY <1>1 DEF KnownRow
    <2>2. sync'[s].user = sync[s].user /\ Owned(db, sync[s].user)' = Owned(db, sync[s].user)
      BY <1>1, <1>2, <1>3 DEF Owned, Grounded, SyncTyped
    <2> QED BY <2>1, <2>2
  <1> HIDE DEF new, known
  <1>5. sync'[s] = new
    BY <1>2 DEF Grounded, SyncTyped
  <1>6. /\ \A u, i : Shown(u, i)' <=> Shown(u, i)
        /\ \A i : Settled(s, i)' <=> Settled(s, i)
        /\ \A rec : Queried(s, rec)' <=> Queried(s, rec)
        /\ \A i : Processed(s, i)' <=> Processed(s, i)
    BY <1>1, <1>3, <1>5, BatchKeeps
  <1>7. BatchInStep(s)'
    BY <1>1, <1>3, <1>4, <1>5, <1>6 DEF BatchInStep, Doing
  <1> QED BY <1>1, <1>2, <1>3, <1>7, SoleLocalStep

-----------------------------------------------------------------------------
(* The records of a batch.                                                 *)

\* The rows that a record is taken for: its dataset's row, if it has one.
LEMMA RecordRows ==
    ASSUME Grounded, AllInStep, NEW s \in Syncers, Sole(s), Doing(s, "reading"),
           NEW rec \in sync[s].recs, NEW i, i = rec.blob.ident
    PROVE  /\ i \in DOMAIN metax /\ rec = metax[i] /\ Queried(s, rec)
           /\ \A a \in DOMAIN db : db[a].blob.ident = i => a \in RowsFor(s, rec)
           /\ \A a \in RowsFor(s, rec) :
                 /\ metax[i].blob.rec \in {None, a}
                 /\ ~rec.removed => a \in DOMAIN db
                 /\ a \in DOMAIN db => /\ db[a].blob.ident = i
                                       /\ db[a].owner = sync[s].user
                                       /\ SyncedOf(s, a) = db[a].synced
                 /\ SyncedOf(s, a) = 0 => a \notin DOMAIN db
                 /\ \A b \in RowsFor(s, rec) : a = b
           /\ RowsFor(s, rec) = {} => metax[i].blob.rec = None
  <1>1. BatchInStep(s) /\ ~Doing(s, "idle")
    BY DEF AllInStep, Doing
  <1>2. i \in DOMAIN metax /\ rec = metax[i] /\ Queried(s, rec)
    BY <1>1 DEF BatchInStep
  <1>3. metax[i].blob.user = sync[s].user /\ i # None
    BY <1>2, Values DEF Queried
  <1>4. sync[s].known = [id \in Owned(db, sync[s].user) |-> KnownRow(id)]
    BY <1>1 DEF BatchInStep
  <1>5. /\ DOMAIN sync[s].known = Owned(db, sync[s].user)
        /\ \A id \in Owned(db, sync[s].user) : /\ sync[s].known[id].ident = db[id].blob.ident
                                               /\ sync[s].known[id].synced = db[id].synced
    BY <1>4 DEF KnownRow
  <1>6. ASSUME NEW a \in DOMAIN db, db[a].blob.ident = i
        PROVE  /\ a \in Owned(db, sync[s].user) /\ db[a].owner = sync[s].user
               /\ SyncedOf(s, a) = db[a].synced
               /\ 0 < db[a].synced /\ db[a].synced \in Nat
               /\ metax[i].blob.rec \in {None, a}
    <2>1. db[a].owner = sync[s].user
      BY <1>3, <1>6 DEF Grounded
    <2>2. a \in Owned(db, sync[s].user)
      BY <2>1 DEF Owned
    <2>3. SyncedOf(s, a) = db[a].synced
      BY <1>5, <2>2 DEF SyncedOf
    <2> QED BY <1>3, <1>6, <2>1, <2>2, <2>3, Values DEF AllInStep, RowInStep
  <1>7. ASSUME NEW a \in DOMAIN db, db[a].blob.ident = i
        PROVE  a \in RowsFor(s, rec)
    BY <1>2, <1>5, <1>6, <1>7 DEF RowsFor, ToQvain
  <1>8. ASSUME NEW a \in RowsFor(s, rec)
        PROVE  /\ metax[i].blob.rec \in {None, a}
               /\ ~rec.removed => a \in DOMAIN db
               /\ a \in DOMAIN db => db[a].blob.ident = i
    <2>1. CASE rec.blob.rec = None
      <3>1. a \in DOMAIN sync[s].known /\ sync[s].known[a].ident = i
        BY <1>8, <2>1 DEF RowsFor, ToQvain
      <3> QED BY <1>2, <1>5, <2>1, <3>1 DEF Owned
    <2>2. CASE rec.blob.rec # None
      <3>1. a = metax[i].blob.rec
        BY <1>2, <1>8, <2>2 DEF RowsFor, ToQvain
      <3>2. NamedRow(i, a)
        BY <1>2, <2>2, <3>1 DEF AllInStep, DatasetInStep
      <3>3. ~InAnswer(a, i)
        BY DEF InAnswer, Sole, At
      <3> QED BY <1>2, <3>1, <3>2, <3>3 DEF NamedRow, Live
    <2> QED BY <2>1, <2>2
  <1>9. ASSUME NEW a \in RowsFor(s, rec), NEW b \in RowsFor(s, rec)
        PROVE  a = b
    <2>1. CASE rec.blob.rec = None
      <3>1. a \in DOMAIN db /\ b \in DOMAIN db
        BY <1>5, <1>9, <2>1 DEF RowsFor, ToQvain, Owned
      <3> QED BY <1>3, <1>8, <1>9, <3>1 DEF AllInStep, UniqueIdentifiers, Identified
    <2>2. CASE rec.blob.rec # None
      BY <1>9, <2>2 DEF RowsFor, ToQvain
    <2> QED BY <2>1, <2>2
  <1>10. ASSUME NEW a \in RowsFor(s, rec), SyncedOf(s, a) = 0
         PROVE  a \notin DOMAIN db
    BY <1>6, <1>8, <1>10
  <1>11. RowsFor(s, rec) = {} => metax[i].blob.rec = None
    BY <1>2 DEF RowsFor, ToQvain
  <1> QED BY <1>2, <1>6, <1>7, <1>8, <1>9, <1>10, <1>11

\* A record of a dataset that is done with.
LEMMA DroppedInStep ==
    ASSUME Grounded, AllInStep, NEW s \in Syncers, Sole(s), Doing(s, "reading"),
           NEW rec \in sync[s].recs, NEW i, i = rec.blob.ident, Processed(s, i),
           UNCHANGED <<vars, lastsync>>, sync' = [sync EXCEPT ![s].recs = @ \ {rec}]
    PROVE  AllInStep'
  <1> DEFINE new == [sync[s] EXCEPT !.recs = @ \ {rec}]
  <1>1. /\ UNCHANGED <<db, req, late, edited, metax, clock, lastsync>>
        /\ sync[s] \in SyncStates /\ BatchInStep(s)
    BY LocalValues DEF vars, metaxVars, AllInStep
  <1>2. sync' = [sync EXCEPT ![s] = new]
    BY DEF Grounded, SyncTyped
  <1>3. /\ new.pc = "reading" /\ new.at = sync[s].at /\ new.user = sync[s].user
        /\ new.since = sync[s].since /\ new.removed = sync[s].removed
        /\ new.todo = sync[s].todo /\ new.recs = sync[s].recs \ {rec}
        /\ new.known = sync[s].known /\ new.writes = sync[s].writes
    BY <1>1 DEF SyncStates, Doing
  <1> HIDE DEF new
  <1>4. sync'[s] = new
    BY <1>2 DEF Grounded, SyncTyped
  <1>5. /\ \A u, j : Shown(u, j)' <=> Shown(u, j)
        /\ \A j : Settled(s, j)' <=> Settled(s, j)
        /\ \A r : Queried(s, r)' <=> Queried(s, r)
        /\ \A j : Processed(s, j)' <=> Processed(s, j)
        /\ \A id : Deletion(s, id) => Deletion(s, id)'
        /\ \A id : Save(s, id) => Save(s, id)'
    BY <1>1, <1>3, <1>4, BatchKeeps
  <1>6. ASSUME NEW j \in DOMAIN metax, Queried(s, metax[j]), metax[j] \notin new.recs
        PROVE  Processed(s, j)
    <2>1. CASE metax[j] = rec
      BY <2>1, Values
    <2>2. CASE metax[j] # rec
      BY <1>1, <1>3, <1>6, <2>2 DEF BatchInStep, Doing
    <2> QED BY <2>1, <2>2
  <1>7. [id \in Owned(db, sync[s].user) |-> KnownRow(id)]'
          = [id \in Owned(db, sync[s].user) |-> KnownRow(id)]
    BY <1>1, <1>3, <1>4 DEF KnownRow, Owned
  <1>8. BatchInStep(s)'
    <2>1. sync[s].known = [id \in Owned(db, sync[s].user) |-> KnownRow(id)]
      BY <1>1 DEF BatchInStep, Doing
    <2> QED BY <1>1, <1>3, <1>4, <1>5, <1>6, <1>7, <2>1 DEF BatchInStep, Doing
  <1> QED BY <1>1, <1>2, <1>3, <1>8, SoleLocalStep

\* The write for a record of dataset i.
Wrote(s, i, id, row) ==
    /\ id \in DOMAIN db => db[id].blob.ident = i
    /\ IF sync[s].removed THEN row = None /\ id \in DOMAIN db
       ELSE /\ row # None /\ row.published
            /\ row.synced = sync[s].at /\ row.owner = sync[s].user
            /\ row.blob.ident = i /\ row.blob.rec \in {None, id}
            /\ metax[i].blob.rec \in {None, id}
            /\ id \notin DOMAIN db => /\ \A a \in DOMAIN db : db[a].blob.ident # i
                                      /\ \A k \in DOMAIN metax : metax[k].blob.rec # id
            /\ Current(id, row.blob, i)
            /\ id \notin DOMAIN sync[s].writes

LEMMA WriteInStep ==
    ASSUME Grounded, AllInStep, NEW s \in Syncers, Sole(s), Doing(s, "reading"),
           NEW rec \in sync[s].recs, NEW i, i = rec.blob.ident,
           NEW id \in Ids, NEW row, Wrote(s, i, id, row), Write(s, rec, id, row),
           UNCHANGED <<db, req, late, edited, metax, clock, lastsync>>
    PROVE  AllInStep'
  <1> DEFINE writes == With(sync[s].writes, id, row)
             new    == [sync[s] EXCEPT !.writes = writes, !.recs = @ \ {rec}]
  <1>1. sync[s] \in SyncStates /\ BatchInStep(s) /\ ~Doing(s, "idle")
    BY LocalValues DEF AllInStep, Doing
  <1>2. sync' = [sync EXCEPT ![s] = new]
    BY DEF Write, Grounded, SyncTyped
  <1>3. /\ new.pc = "reading" /\ new.at = sync[s].at /\ new.user = sync[s].user
        /\ new.since = sync[s].since /\ new.removed = sync[s].removed
        /\ new.todo = sync[s].todo /\ new.recs = sync[s].recs \ {rec}
        /\ new.known = sync[s].known /\ new.writes = writes
    BY <1>1 DEF SyncStates, Doing
  <1>4. /\ DOMAIN writes = DOMAIN sync[s].writes \cup {id} /\ writes[id] = row
        /\ \A a \in DOMAIN sync[s].writes \ {id} : writes[a] = sync[s].writes[a]
    BY DEF With
  <1> HIDE DEF new, writes
  <1>5. sync'[s] = new
    BY <1>2 DEF Grounded, SyncTyped
  <1>6. /\ i \in DOMAIN metax /\ rec = metax[i] /\ Queried(s, rec) /\ i # None
        /\ rec.removed = sync[s].removed
    BY RecordRows, Values DEF Queried
  <1>7. /\ \A u, j : Shown(u, j)' <=> Shown(u, j)
        /\ \A j : Settled(s, j)' <=> Settled(s, j)
        /\ \A r : Queried(s, r)' <=> Queried(s, r)
    BY <1>3, <1>5 DEF Shown, Shows, UpToDate, Owned, Settled, Queried
  <1>8. /\ Visible(s, id)' = row
        /\ \A a : a # id => Visible(s, a)' = Visible(s, a)
    BY <1>3, <1>4, <1>5 DEF Visible
  <1>9. \A a \in DOMAIN sync[s].writes :
           IF sync[s].removed THEN Deletion(s, a) ELSE Save(s, a)
    BY <1>1 DEF BatchInStep
  <1>10. ASSUME NEW j \in DOMAIN metax, Queried(s, metax[j]), metax[j] \notin new.recs
         PROVE  Processed(s, j)'
    <2> SUFFICES ASSUME j \notin Refused
                 PROVE  Processed(s, j)'
      BY DEF Processed
    <2>0. metax[j] # rec => Processed(s, j)
      BY <1>1, <1>3, <1>10 DEF BatchInStep, Doing
    <2>1. metax[j] = rec <=> j = i
      BY <1>6, Values
    <2>2. CASE sync[s].removed
      <3>1. metax[j].removed /\ row = None
        BY <1>10, <2>2 DEF Queried, Wrote
      <3>2. ASSUME NEW a \in Ids, Visible(s, a)' # None, Visible(s, a)'.blob.ident = j,
                   Visible(s, a)'.owner = sync[s].user
            PROVE  FALSE
        <4>1. a # id /\ Visible(s, a)' = Visible(s, a)
          BY <1>8, <3>1, <3>2
        <4>2. CASE j = i
          <5>1. a \in DOMAIN db /\ Visible(s, a) = db[a]
            BY <1>9, <2>2, <3>2, <4>1 DEF Visible, Deletion
          <5>2. id \in DOMAIN db /\ db[id].blob.ident = i
            BY <2>2 DEF Wrote
          <5> QED BY <1>6, <3>2, <4>1, <4>2, <5>1, <5>2
                  DEF AllInStep, UniqueIdentifiers, Identified
        <4>3. CASE j # i
          BY <2>0, <2>1, <3>1, <3>2, <4>1, <4>3 DEF Processed
        <4> QED BY <4>2, <4>3
      <3> QED BY <1>3, <1>5, <3>1, <3>2 DEF Processed
    <2>3. CASE ~sync[s].removed
      <3>1. ~metax[j].removed
        BY <1>10, <2>3 DEF Queried
      <3>2. \A a, b : Current(a, b, j)' <=> Current(a, b, j)
        BY DEF Current
      <3>3. CASE j = i
        BY <1>3, <1>5, <1>8, <2>3, <3>1, <3>2, <3>3 DEF Processed, Wrote
      <3>4. CASE j # i
        <4>1. PICK a \in Ids : /\ Visible(s, a) # None /\ Visible(s, a).owner = sync[s].user
                               /\ Visible(s, a).blob.ident = j
                               /\ Current(a, Visible(s, a).blob, j)
          BY <2>0, <2>1, <3>1, <3>4 DEF Processed
        <4>2. a # id
          BY <2>3, <3>4, <4>1 DEF Visible, Wrote
        <4> QED BY <1>3, <1>5, <1>8, <3>1, <3>2, <4>1, <4>2 DEF Processed
      <3> QED BY <3>3, <3>4
    <2> QED BY <2>2, <2>3
  <1>11. ASSUME NEW a \in DOMAIN writes, sync[s].removed
         PROVE  Deletion(s, a)'
    <2>1. writes[a] = None /\ a \in DOMAIN db /\ Gone(db[a].blob.ident)
      <3>1. CASE a = id
        BY <1>4, <1>6, <1>11, <3>1 DEF Wrote, Gone
      <3>2. CASE a # id
        BY <1>4, <1>9, <1>11, <3>2 DEF Deletion
      <3> QED BY <3>1, <3>2
    <2> QED BY <1>3, <1>5, <2>1 DEF Deletion, Gone
  <1>12. ASSUME NEW a \in DOMAIN writes, ~sync[s].removed
         PROVE  Save(s, a)'
    <2>1. ASSUME NEW b \in DOMAIN sync[s].writes
          PROVE  sync[s].writes[b].blob.ident # i
      <3>1. metax[sync[s].writes[b].blob.ident] \notin sync[s].recs
        BY <1>9, <1>12 DEF Save
      <3> QED BY <1>6, <3>1
    <2>2. \A b, c, j : Current(b, c, j)' <=> Current(b, c, j)
      BY DEF Current
    <2>0. /\ sync'[s].writes = writes /\ sync'[s].at = sync[s].at
          /\ sync'[s].recs = sync[s].recs \ {rec} /\ db' = db /\ metax' = metax
      BY <1>3, <1>5
    <2>3. CASE a = id
      <3>1. Live(i)' /\ metax'[i] \notin sync'[s].recs
        BY <1>6, <1>12, <2>0 DEF Live
      <3>2. \A c \in DOMAIN writes : writes[c].blob.ident = i => c = id
        BY <1>4, <2>1
      <3>3. writes[a] = row /\ row.blob.ident = i
        BY <1>4, <1>12, <2>3 DEF Wrote
      <3>4. Current(a, row.blob, i)'
        BY <1>12, <2>2, <2>3 DEF Wrote
      <3> QED BY <1>12, <2>0, <2>3, <3>1, <3>2, <3>3, <3>4 DEF Save, Wrote
    <2>4. CASE a # id
      <3>1. a \in DOMAIN sync[s].writes /\ writes[a] = sync[s].writes[a] /\ Save(s, a)
        BY <1>4, <1>9, <1>12, <2>4
      <3>2. row.blob.ident = i
        BY <1>12 DEF Wrote
      <3>3. \A c \in DOMAIN writes :
               writes[c].blob.ident = sync[s].writes[a].blob.ident => c = a
        <4>1. /\ sync[s].writes[a].blob.ident # i
              /\ \A c \in DOMAIN sync[s].writes :
                    sync[s].writes[c].blob.ident = sync[s].writes[a].blob.ident => c = a
          BY <2>1, <3>1 DEF Save
        <4> QED BY <1>4, <3>2, <4>1
      <3>4. \A b, j : Current(a, b, j) => Current(a, b, j)'
        BY <2>2
      <3>5. \A j : /\ Live(j) => Live(j)'
                   /\ metax[j] \notin sync[s].recs => metax'[j] \notin sync'[s].recs
        BY <2>0 DEF Live
      <3>6. sync'[s].writes[a] = sync[s].writes[a]
        BY <2>0, <3>1
      <3> QED BY <2>0, <3>1, <3>3, <3>4, <3>5, <3>6 DEF Save
    <2> QED BY <2>3, <2>4
  <1>13. [b \in Owned(db, sync[s].user) |-> KnownRow(b)]'
           = [b \in Owned(db, sync[s].user) |-> KnownRow(b)]
    BY <1>3, <1>5 DEF KnownRow, Owned
  <1>14. BatchInStep(s)'
    <2>1. sync[s].known = [b \in Owned(db, sync[s].user) |-> KnownRow(b)]
      BY <1>1 DEF BatchInStep, Doing
    <2> QED BY <1>1, <1>3, <1>5, <1>7, <1>10, <1>11, <1>12, <1>13, <2>1 DEF BatchInStep, Doing
  <1> QED BY <1>2, <1>3, <1>14, SoleLocalStep

LEMMA syncRecordInStep ==
    ASSUME Grounded, AllInStep, NEW s \in Syncers, Sole(s), syncRecord(s)
    PROVE  AllInStep'
  <1>1. Doing(s, "reading") /\ BatchInStep(s) /\ sync[s] \in SyncStates /\ ~Rpc(s)
    BY LocalValues DEF syncRecord, AllInStep, BatchInStep, Doing, Rpc
  <1>2. PICK rec \in sync[s].recs :
           \/ RefuseRecord(s, rec)
           \/ SkipRemoved(s, rec)
           \/ CreateWithMetadata(s, rec)
           \/ \E id \in RowsFor(s, rec) : \/ BatchDelete(s, rec, id)
                                          \/ UpdateSynced(s, rec, id)
                                          \/ BatchUpdate(s, rec, id)
                                          \/ FailRecord(s, rec, id)
    BY DEF syncRecord
  <1>3. PICK i : i = rec.blob.ident
    OBVIOUS
  <1>4. /\ i \in DOMAIN metax /\ rec = metax[i] /\ rec.removed = sync[s].removed /\ i # None
        /\ \A a \in DOMAIN db : db[a].blob.ident = i => a \in RowsFor(s, rec)
        /\ \A a \in RowsFor(s, rec) :
              /\ metax[i].blob.rec \in {None, a}
              /\ ~rec.removed => a \in DOMAIN db
              /\ a \in DOMAIN db => /\ db[a].blob.ident = i
                                    /\ db[a].owner = sync[s].user
                                    /\ SyncedOf(s, a) = db[a].synced
              /\ SyncedOf(s, a) = 0 => a \notin DOMAIN db
              /\ \A b \in RowsFor(s, rec) : a = b
        /\ RowsFor(s, rec) = {} => metax[i].blob.rec = None
    BY <1>1, <1>3, RecordRows, Values DEF Queried
  <1>5. \A a \in DOMAIN sync[s].writes :
           IF sync[s].removed THEN Deletion(s, a) ELSE Save(s, a)
    BY <1>1 DEF BatchInStep, Doing
  \* In the batch of removed records a row that is left is the dataset's.
  <1>6. ASSUME rec.removed, NEW a \in Ids, Visible(s, a) # None, Visible(s, a).blob.ident = i
        PROVE  a \in DOMAIN db /\ a \in RowsFor(s, rec)
    BY <1>4, <1>5, <1>6 DEF Visible, Deletion
  \* In the batch of live records the dataset's row is as in the table.
  <1>7. ASSUME ~rec.removed, NEW a \in RowsFor(s, rec)
        PROVE  /\ a \in DOMAIN db /\ a \notin DOMAIN sync[s].writes /\ Visible(s, a) = db[a]
               /\ a \in Ids /\ db[a].published /\ db[a].blob.rec \in {None, a}
               /\ db[a] \in Row /\ db[a].blob \in Blob /\ db[a] # None
    <2>1. a \in DOMAIN db /\ db[a].blob.ident = i
      BY <1>4, <1>7
    <2>2. a \notin DOMAIN sync[s].writes
      BY <1>4, <1>5, <1>7, <2>1 DEF Save
    <2>3. db[a].published /\ db[a].blob.rec \in {None, a}
      BY <1>4, <2>1 DEF AllInStep, RowInStep
    <2> QED BY <2>1, <2>2, <2>3, Values DEF Visible
  <1>8. CASE SkipRemoved(s, rec)
    <2>1. Processed(s, i)
      BY <1>4, <1>6, <1>8 DEF Processed, SkipRemoved
    <2> QED BY <1>1, <1>3, <1>8, <2>1, DroppedInStep DEF SkipRemoved
  <1>9. CASE CreateWithMetadata(s, rec)
    <2>0. PICK row : row = [owner  |-> sync[s].user, published |-> TRUE,
                            synced |-> sync[s].at,   blob      |-> rec.blob]
      OBVIOUS
    <2>1. PICK id \in Ids \ minted : Write(s, rec, id, row)
      BY <1>9, <2>0 DEF CreateWithMetadata
    <2>2. /\ row.owner = sync[s].user /\ row.published /\ row.synced = sync[s].at
          /\ row.blob = metax[i].blob
      BY <1>4, <2>0
    <2>3. row \in Row
      <3>1. rec.blob \in Blob /\ sync[s].at \in Nat /\ sync[s].user \in Users
        BY <1>1, <1>4, Values DEF SyncStates, Grounded, Doing
      <3> QED BY <2>0, <3>1 DEF Row
    <2>4. /\ ~rec.removed /\ RowsFor(s, rec) = {} /\ metax[i].blob.rec = None
          /\ UNCHANGED <<db, req, late, edited, metax, clock, lastsync>>
      BY <1>4, <1>9 DEF CreateWithMetadata, metaxVars
    <2>5. /\ id \notin DOMAIN db /\ id \notin DOMAIN sync[s].writes
          /\ \A k \in DOMAIN metax : metax[k].blob.rec # id
      BY <2>1, NoneAssumption DEF Grounded, TypeOK
    <2>6. \A a \in DOMAIN db : db[a].blob.ident # i
      BY <1>4, <2>4
    <2>7. Wrote(s, i, id, row)
      BY <1>3, <1>4, <2>2, <2>3, <2>4, <2>5, <2>6, SyncAssumption DEF Wrote, Current
    <2> QED BY <1>1, <1>3, <2>1, <2>4, <2>7, WriteInStep
  <1>10. ASSUME NEW id \in RowsFor(s, rec), BatchDelete(s, rec, id)
         PROVE  AllInStep'
    <2>1. /\ Write(s, rec, id, None) /\ rec.removed /\ Visible(s, id) # None
          /\ UNCHANGED <<db, req, late, edited, metax, clock, lastsync>>
      BY <1>10 DEF BatchDelete, vars, metaxVars
    <2>2. id \in DOMAIN db
      BY <1>4, <1>5, <2>1 DEF Visible, Deletion
    <2>3. Wrote(s, i, id, None)
      BY <1>4, <1>10, <2>1, <2>2 DEF Wrote
    <2>4. id \in Ids
      BY <2>2, Values
    <2> QED BY <1>1, <1>3, <2>1, <2>3, <2>4, WriteInStep
  <1>11. ASSUME NEW id \in RowsFor(s, rec), UpdateSynced(s, rec, id)
         PROVE  AllInStep'
    <2>1. /\ ~rec.removed /\ metax[i].blob.date <= SyncedOf(s, id)
          /\ UNCHANGED <<db, req, late, edited, metax, clock, lastsync>>
      BY <1>4, <1>11 DEF UpdateSynced, vars, metaxVars, GetModificationDate
    <2>2. /\ id \in DOMAIN db /\ id \notin DOMAIN sync[s].writes /\ Visible(s, id) = db[id]
          /\ id \in Ids /\ db[id].published /\ db[id].blob.rec \in {None, id}
          /\ db[id] \in Row /\ db[id].blob \in Blob /\ db[id] # None
      BY <1>7, <2>1
    <2>3. PICK row : row = [db[id] EXCEPT !.synced = sync[s].at]
      OBVIOUS
    <2>4. Write(s, rec, id, row)
      BY <1>11, <2>2, <2>3 DEF UpdateSynced
    <2>5. /\ row \in Row /\ row.owner = db[id].owner /\ row.published /\ row.synced = sync[s].at
          /\ row.blob = db[id].blob
      BY <1>1, <2>2, <2>3 DEF Row, SyncStates
    <2>6. Current(id, row.blob, i)
      BY <1>4, <1>11, <2>1, <2>2, <2>5 DEF Current, AllInStep, RowInStep
    <2>7. Wrote(s, i, id, row)
      BY <1>4, <1>11, <2>1, <2>2, <2>5, <2>6, SyncAssumption DEF Wrote
    <2> QED BY <1>1, <1>3, <2>1, <2>2, <2>4, <2>7, WriteInStep
  <1>12. ASSUME NEW id \in RowsFor(s, rec), BatchUpdate(s, rec, id)
         PROVE  AllInStep'
    <2>1. /\ ~rec.removed
          /\ UNCHANGED <<db, req, late, edited, metax, clock, lastsync>>
      BY <1>12 DEF BatchUpdate, vars, metaxVars
    <2>2. /\ id \in DOMAIN db /\ id \notin DOMAIN sync[s].writes /\ Visible(s, id) = db[id]
          /\ id \in Ids /\ db[id].published /\ db[id].blob.rec \in {None, id}
          /\ db[id] \in Row /\ db[id].blob \in Blob /\ db[id] # None
      BY <1>7, <2>1
    <2>3. PICK row : row = [db[id] EXCEPT !.synced = sync[s].at, !.blob = rec.blob]
      OBVIOUS
    <2>4. Write(s, rec, id, row)
      BY <1>12, <2>2, <2>3 DEF BatchUpdate
    <2>5. /\ row \in Row /\ row.owner = db[id].owner /\ row.published /\ row.synced = sync[s].at
          /\ row.blob = metax[i].blob
      BY <1>1, <1>4, <2>2, <2>3, Values DEF Row, SyncStates
    <2>6. Wrote(s, i, id, row)
      BY <1>3, <1>4, <1>12, <2>1, <2>2, <2>5, SyncAssumption DEF Wrote, Current
    <2> QED BY <1>1, <1>3, <2>1, <2>2, <2>4, <2>6, WriteInStep
  <1>13. ASSUME NEW id \in RowsFor(s, rec), FailRecord(s, rec, id)
         PROVE  AllInStep'
    <2>1. /\ Visible(s, id) = None /\ UNCHANGED <<vars, lastsync>>
          /\ sync' = [sync EXCEPT ![s].recs = @ \ {rec}]
      BY <1>1, <1>13 DEF FailRecord
    <2>2. rec.removed
      BY <1>7, <1>13, <2>1
    <2>3. Processed(s, i)
      BY <1>4, <1>6, <1>13, <2>1, <2>2 DEF Processed
    <2> QED BY <1>1, <1>3, <2>1, <2>3, DroppedInStep
  <1>14. CASE RefuseRecord(s, rec)
    <2>1. UNCHANGED <<vars, lastsync>> /\ sync' = [sync EXCEPT ![s].recs = @ \ {rec}]
      BY <1>1, <1>14 DEF RefuseRecord
    <2>2. Processed(s, i)
      BY <1>3, <1>14 DEF RefuseRecord, Unreadable, Processed
    <2> QED BY <1>1, <1>3, <2>1, <2>2, DroppedInStep
  <1> QED BY <1>2, <1>8, <1>9, <1>10, <1>11, <1>12, <1>13, <1>14

-----------------------------------------------------------------------------
(* A batch commits.                                                        *)

LEMMA CommitEffect ==
    ASSUME Grounded, AllInStep, NEW s \in Syncers, Sole(s), Commit(s)
    PROVE  /\ UNCHANGED <<req, late, metax, clock>>
           /\ Doing(s, "reading") /\ sync[s].recs = {} /\ sync[s].todo = << >>
           /\ sync[s].at = clock /\ sync[s].user \in Users
           /\ \A t \in Syncers \ {s} : sync'[t] = sync[t]
           /\ sync'[s] = AfterBatch(s)
           /\ lastsync'[sync[s].user] = clock
           /\ \A u \in Users \ {sync[s].user} : lastsync'[u] = lastsync[u]
           /\ \A id : id \in DOMAIN db' <=> Visible(s, id) # None
           /\ \A id \in DOMAIN db' : db'[id] = Visible(s, id)
           /\ \A id \in DOMAIN db' \ DOMAIN sync[s].writes :
                 /\ id \in DOMAIN db /\ db'[id] = db[id] /\ (id \in edited' <=> id \in edited)
           /\ \A id \in DOMAIN sync[s].writes \cap DOMAIN db' :
                 /\ db'[id] = sync[s].writes[id] /\ db'[id].owner = sync[s].user
                 /\ id \in edited /\ db'[id].blob = db[id].blob => id \in edited'
           /\ \A id \in DOMAIN db \ DOMAIN db' : /\ id \in DOMAIN sync[s].writes
                                                 /\ sync[s].writes[id] = None
  <1> DEFINE kept == {id \in DOMAIN db \cup DOMAIN sync[s].writes : Visible(s, id) # None}
  <1>1. /\ Doing(s, "reading") /\ sync[s].recs = {}
        /\ db' = [id \in kept |-> Visible(s, id)]
        /\ edited' = {id \in edited \cap kept : db'[id].blob = db[id].blob}
        /\ lastsync' = [lastsync EXCEPT ![sync[s].user] = clock]
        /\ sync' = [sync EXCEPT ![s] = AfterBatch(s)]
        /\ UNCHANGED <<req, late, metax, clock>>
    BY DEF Commit, metaxVars
  <1>2. /\ sync[s].todo = << >> /\ sync[s].at = clock /\ sync[s].user \in Users
    BY <1>1 DEF AllInStep, BatchInStep, Doing, Grounded
  <1>3. \A id : id \in kept <=> Visible(s, id) # None
    BY DEF Visible
  <1>4. DOMAIN db' = kept /\ \A id \in kept : db'[id] = Visible(s, id)
    BY <1>1
  <1>5. \A id \in DOMAIN sync[s].writes : Visible(s, id) = sync[s].writes[id]
    BY DEF Visible
  <1>6. \A id \in kept \ DOMAIN sync[s].writes : id \in DOMAIN db /\ Visible(s, id) = db[id]
    BY DEF Visible
  <1>7. \A id \in DOMAIN db \ kept : id \in DOMAIN sync[s].writes /\ sync[s].writes[id] = None
    BY Values DEF Visible
  <1>8. \A t \in Syncers \ {s} : sync'[t] = sync[t]
    BY <1>1 DEF Grounded, SyncTyped
  <1>9. sync'[s] = AfterBatch(s)
    BY <1>1 DEF Grounded, SyncTyped
  <1>10. /\ lastsync'[sync[s].user] = clock
         /\ \A u \in Users \ {sync[s].user} : lastsync'[u] = lastsync[u]
    BY <1>1, <1>2 DEF Grounded, SyncTyped
  <1>11. \A id \in kept \cap DOMAIN sync[s].writes : sync[s].writes[id].owner = sync[s].user
    BY <1>3, <1>5 DEF Grounded
  <1> HIDE DEF kept
  <1>12. \A id \in kept : id \in edited' <=> id \in edited /\ db'[id].blob = db[id].blob
    BY <1>1
  <1> QED BY <1>1, <1>2, <1>3, <1>4, <1>5, <1>6, <1>7, <1>8, <1>9, <1>10, <1>11, <1>12

\* The rows of other users stay.
LEMMA CommitOthersShown ==
    ASSUME Grounded, AllInStep, NEW s \in Syncers, Sole(s), Commit(s),
           NEW u \in Users, u # sync[s].user, NEW i, Shown(u, i)
    PROVE  Shown(u, i)'
  <1>1. \A id \in DOMAIN sync[s].writes : id \in DOMAIN db => db[id].owner # u
    BY DEF Grounded
  <1>2. \A id \in DOMAIN db : db[id].owner = u =>
           id \in DOMAIN db' /\ db'[id] = db[id] /\ (id \in edited' <=> id \in edited)
    BY <1>1, CommitEffect
  <1>3. \A id \in DOMAIN db' : db'[id].owner = u => id \in DOMAIN db /\ db[id] = db'[id]
    BY CommitEffect
  <1>4. Shows(u, i)' = Shows(u, i)
    BY <1>2, <1>3 DEF Shows, Owned
  <1>5. metax' = metax
    BY CommitEffect
  <1>6. \A id \in Shows(u, i) : UpToDate(id, i) => UpToDate(id, i)'
    BY <1>2, <1>5 DEF Shows, Owned, UpToDate
  <1> QED BY <1>4, <1>5, <1>6 DEF Shown

\* What is to show of the watermarks after a commit: the user's.
LEMMA CommitWatermarks ==
    ASSUME Grounded, AllInStep, NEW s \in Syncers, Sole(s), Commit(s),
           NEW v \in Users, v = sync[s].user,
           Unsynced(v)' => \A i \in DOMAIN metax : metax[i].blob.user = v => Shown(v, i)'
    PROVE  \A u \in Users : WatermarkHolds(u)'
  <1> SUFFICES ASSUME NEW u \in Users PROVE WatermarkHolds(u)'
    OBVIOUS
  <1>1. clock' = clock /\ clock \in Nat /\ metax' = metax
    BY CommitEffect, Values
  <1>2. CASE u = sync[s].user
    <2>1. lastsync'[u] = clock
      BY <1>2, CommitEffect
    <2> QED BY <1>1, <1>2, <2>1 DEF WatermarkHolds
  <1>3. CASE u # sync[s].user
    <2>1. lastsync'[u] = lastsync[u]
      BY <1>3, CommitEffect
    <2>2. Unsynced(u)
      BY <1>3 DEF Unsynced, Sole
    <2>3. WatermarkHolds(u)
      BY DEF AllInStep
    <2>4. \A i \in DOMAIN metax : metax[i].blob.user = u /\ metax[i].blob.date <= lastsync[u]
             => Shown(u, i)
      BY <2>2, <2>3 DEF WatermarkHolds
    <2>5. \A i \in DOMAIN metax : Shown(u, i) => Shown(u, i)'
      BY <1>3, CommitOthersShown
    <2> QED BY <1>1, <2>1, <2>3, <2>4, <2>5 DEF WatermarkHolds
  <1> QED BY <1>2, <1>3

\* The batch of live records: every row stays, and what the batch had to do is done.
LEMMA LiveCommitRows ==
    ASSUME Grounded, AllInStep, NEW s \in Syncers, Sole(s), Commit(s), ~sync[s].removed
    PROVE  /\ DOMAIN db \subseteq DOMAIN db' /\ DOMAIN sync[s].writes \subseteq DOMAIN db'
           /\ \A id \in DOMAIN sync[s].writes : Save(s, id)
           /\ \A id \in DOMAIN db : db'[id].blob.ident = db[id].blob.ident
  <1>1. \A id \in DOMAIN sync[s].writes : Save(s, id)
    BY CommitEffect DEF AllInStep, BatchInStep, Doing
  <1>2. \A id \in DOMAIN sync[s].writes : sync[s].writes[id] # None
    BY <1>1 DEF Save
  <1>3. DOMAIN db \subseteq DOMAIN db'
    BY <1>2, CommitEffect
  <1>4. DOMAIN sync[s].writes \subseteq DOMAIN db'
    BY <1>2, CommitEffect DEF Visible
  <1>5. \A id \in DOMAIN sync[s].writes \cap DOMAIN db :
           sync[s].writes[id].blob.ident = db[id].blob.ident
    BY <1>1 DEF Save
  <1>6. \A id \in DOMAIN db : db'[id].blob.ident = db[id].blob.ident
    BY <1>3, <1>5, CommitEffect
  <1> QED BY <1>1, <1>3, <1>4, <1>6

\* A document that a batch found current is so after the commit.
LEMMA CurrentStays ==
    ASSUME Grounded, AllInStep, NEW s \in Syncers, Sole(s), Commit(s),
           NEW id \in DOMAIN db', NEW i, Current(id, db'[id].blob, i)
    PROVE  UpToDate(id, i)'
  <1>1. metax' = metax
    BY CommitEffect
  <1>2. id \in edited /\ db'[id].blob = db[id].blob => id \in edited'
    BY CommitEffect
  <1> QED BY <1>1, <1>2 DEF Current, UpToDate

LEMMA LiveCommitShown ==
    ASSUME Grounded, AllInStep, NEW s \in Syncers, Sole(s), Commit(s), ~sync[s].removed,
           NEW u, u = sync[s].user, NEW i \in DOMAIN metax, metax[i].blob.user = u,
           metax[i].blob.date <= sync[s].since \/ ~metax[i].removed
    PROVE  Shown(u, i)'
  <1> SUFFICES ASSUME i \notin Refused
               PROVE  Shown(u, i)'
    BY DEF Shown
  <1>1. BatchInStep(s) /\ Doing(s, "reading") /\ sync[s].recs = {} /\ metax' = metax
    BY CommitEffect DEF AllInStep
  <1>2. /\ sync[s].since \in Nat /\ metax[i].blob.date \in Nat
        /\ sync[s].removed \in BOOLEAN /\ metax[i].removed \in BOOLEAN
    BY Values, LocalValues DEF SyncStates, MetaxRecord
  <1>3. /\ DOMAIN db \subseteq DOMAIN db' /\ DOMAIN sync[s].writes \subseteq DOMAIN db'
        /\ \A id \in DOMAIN sync[s].writes : Save(s, id)
        /\ \A id \in DOMAIN db : db'[id].blob.ident = db[id].blob.ident
    BY LiveCommitRows
  <1>4. CASE ~metax[i].removed /\ metax[i].blob.date > sync[s].since
    <2>1. Processed(s, i)
      BY <1>1, <1>2, <1>4 DEF Queried, BatchInStep, Doing
    <2>2. PICK id \in Ids : /\ Visible(s, id) # None /\ Visible(s, id).owner = u
                            /\ Visible(s, id).blob.ident = i
                            /\ Current(id, Visible(s, id).blob, i)
      BY <1>4, <2>1 DEF Processed
    <2>3. id \in DOMAIN db' /\ db'[id] = Visible(s, id)
      BY <2>2, CommitEffect
    <2>4. UpToDate(id, i)'
      BY <2>2, <2>3, CurrentStays
    <2>5. id \in Shows(u, i)'
      BY <2>2, <2>3 DEF Shows, Owned
    <2> QED BY <1>1, <1>4, <2>4, <2>5 DEF Shown
  <1>5. CASE ~metax[i].removed /\ metax[i].blob.date <= sync[s].since
    <2>1. Shown(u, i)
      BY <1>1, <1>5 DEF BatchInStep, Doing, Settled
    <2>2. PICK id \in Shows(u, i) : UpToDate(id, i)
      BY <1>5, <2>1 DEF Shown
    <2>3. id \in DOMAIN db /\ db[id].owner = u /\ db[id].blob.ident = i /\ id \in DOMAIN db'
      BY <1>3, <2>2 DEF Shows, Owned
    <2>4. db'[id].owner = u /\ db'[id].blob.ident = i
      BY <1>3, <2>3, CommitEffect
    <2>5. CASE id \in DOMAIN sync[s].writes
      <3>1. Current(id, db'[id].blob, i)
        <4>1. db'[id] = sync[s].writes[id]
          BY <2>3, <2>5, CommitEffect
        <4>2. Save(s, id)
          BY <1>3, <2>5
        <4> QED BY <2>4, <4>1, <4>2 DEF Save
      <3>2. UpToDate(id, i)'
        BY <2>3, <3>1, CurrentStays
      <3> QED BY <1>1, <1>5, <2>3, <2>4, <3>2 DEF Shown, Shows, Owned
    <2>6. CASE id \notin DOMAIN sync[s].writes
      <3>1. UpToDate(id, i)'
        BY <1>1, <2>2, <2>3, <2>6, CommitEffect DEF UpToDate
      <3> QED BY <1>1, <1>5, <2>3, <2>4, <3>1 DEF Shown, Shows, Owned
    <2> QED BY <2>5, <2>6
  <1>6. CASE metax[i].removed
    <2>1. Shown(u, i)
      BY <1>1, <1>6 DEF BatchInStep, Doing, Settled
    <2>2. \A id \in DOMAIN db : db[id].owner = u => db[id].blob.ident # i
      BY <1>6, <2>1 DEF Shown, Shows, Owned
    <2>3. \A id \in DOMAIN sync[s].writes : sync[s].writes[id].blob.ident # i
      BY <1>3, <1>6 DEF Save, Live
    <2>4. \A id \in DOMAIN db' : db'[id].owner = u => db'[id].blob.ident # i
      BY <2>2, <2>3, CommitEffect
    <2> QED BY <1>1, <1>6, <2>4 DEF Shown, Shows, Owned
  <1> QED BY <1>2, <1>4, <1>5, <1>6

\* The batch of removed records: rows go, and the rest shows all of the user's.
LEMMA RemovedCommitRows ==
    ASSUME Grounded, AllInStep, NEW s \in Syncers, Sole(s), Commit(s), sync[s].removed
    PROVE  /\ \A id \in DOMAIN db' : /\ id \in DOMAIN db /\ db'[id] = db[id]
                                     /\ (id \in edited' <=> id \in edited)
           /\ \A id \in DOMAIN db \ DOMAIN db' : Gone(db[id].blob.ident)
  <1>1. \A id \in DOMAIN sync[s].writes : Deletion(s, id)
    BY CommitEffect DEF AllInStep, BatchInStep, Doing
  <1>2. \A id \in DOMAIN sync[s].writes : sync[s].writes[id] = None /\ Gone(db[id].blob.ident)
    BY <1>1 DEF Deletion
  <1>3. \A id \in DOMAIN db' : id \notin DOMAIN sync[s].writes
    BY <1>2, CommitEffect DEF Visible
  <1> QED BY <1>2, <1>3, CommitEffect

LEMMA RemovedCommitShown ==
    ASSUME Grounded, AllInStep, NEW s \in Syncers, Sole(s), Commit(s), sync[s].removed,
           NEW u, u = sync[s].user, NEW i \in DOMAIN metax, metax[i].blob.user = u
    PROVE  Shown(u, i)'
  <1> SUFFICES ASSUME i \notin Refused
               PROVE  Shown(u, i)'
    BY DEF Shown
  <1>1. BatchInStep(s) /\ Doing(s, "reading") /\ sync[s].recs = {} /\ metax' = metax
    BY CommitEffect DEF AllInStep
  <1>2. /\ sync[s].since \in Nat /\ metax[i].blob.date \in Nat
        /\ sync[s].removed \in BOOLEAN /\ metax[i].removed \in BOOLEAN
    BY Values, LocalValues DEF SyncStates, MetaxRecord
  <1>3. /\ \A id \in DOMAIN db' : /\ id \in DOMAIN db /\ db'[id] = db[id]
                                  /\ (id \in edited' <=> id \in edited)
        /\ \A id \in DOMAIN db \ DOMAIN db' : Gone(db[id].blob.ident)
    BY RemovedCommitRows
  <1>4. CASE ~metax[i].removed
    <2>1. Shown(u, i)
      BY <1>1, <1>4 DEF BatchInStep, Doing, Settled
    <2>2. PICK id \in Shows(u, i) : UpToDate(id, i)
      BY <1>4, <2>1 DEF Shown
    <2>3. id \in DOMAIN db'
      BY <1>3, <1>4, <2>2 DEF Shows, Owned, Gone
    <2>4. id \in Shows(u, i)' /\ UpToDate(id, i)'
      BY <1>1, <1>3, <2>2, <2>3 DEF Shows, Owned, UpToDate
    <2> QED BY <1>1, <1>4, <2>4 DEF Shown
  <1>5. CASE metax[i].removed /\ metax[i].blob.date > sync[s].since
    <2>1. Processed(s, i)
      BY <1>1, <1>2, <1>5 DEF Queried, BatchInStep, Doing
    <2>2. \A id \in Ids : Visible(s, id) # None /\ Visible(s, id).owner = u
                             => Visible(s, id).blob.ident # i
      BY <1>5, <2>1 DEF Processed
    <2>3. \A id \in DOMAIN db' : id \in Ids /\ db'[id] = Visible(s, id) /\ Visible(s, id) # None
      BY <1>3, Values, CommitEffect
    <2>4. Shows(u, i)' = {}
      BY <2>2, <2>3 DEF Shows, Owned
    <2> QED BY <1>1, <1>5, <2>4 DEF Shown
  <1>6. CASE metax[i].removed /\ metax[i].blob.date <= sync[s].since
    <2>1. Shown(u, i)
      BY <1>1, <1>6 DEF BatchInStep, Doing, Settled
    <2>2. Shows(u, i)' = {}
      BY <1>3, <1>6, <2>1 DEF Shown, Shows, Owned
    <2> QED BY <1>1, <1>6, <2>2 DEF Shown
  <1> QED BY <1>2, <1>4, <1>5, <1>6

LEMMA CommitInStep ==
    ASSUME Grounded, AllInStep, NEW s \in Syncers, Sole(s), Commit(s)
    PROVE  AllInStep'
  <1>0. PICK u \in Users : u = sync[s].user
    BY CommitEffect
  <1>1. /\ UNCHANGED <<req, late, metax, clock>> /\ BatchInStep(s)
        /\ sync[s].todo = << >> /\ sync[s].at = clock
        /\ \A t \in Syncers \ {s} : sync'[t] = sync[t]
        /\ clock \in Nat /\ 0 < clock
    BY CommitEffect, Values DEF AllInStep
  <1>2. \A id, i : ~InAnswer(id, i)
    BY DEF InAnswer, Sole, At
  <1>3. CASE ~sync[s].removed
    <2>1. /\ DOMAIN db \subseteq DOMAIN db' /\ DOMAIN sync[s].writes \subseteq DOMAIN db'
          /\ \A id \in DOMAIN sync[s].writes : Save(s, id)
          /\ \A id \in DOMAIN db : db'[id].blob.ident = db[id].blob.ident
      BY <1>3, LiveCommitRows
    <2>2. /\ sync'[s].pc = "starting" /\ sync'[s].user = u /\ sync'[s].since = sync[s].since
          /\ sync'[s].removed /\ sync'[s].todo = << >> /\ sync'[s].recs = {}
          /\ sync'[s].writes = NoRows
      <3>1. sync'[s] = AfterBatch(s) /\ ~(Len(sync[s].todo) > 1) /\ ~Rpc(s)
        BY <1>1, CommitEffect DEF Rpc
      <3> QED BY <1>0, <1>3, <3>1 DEF AfterBatch, SyncIdle
    <2>3. ASSUME NEW id \in DOMAIN sync[s].writes
          PROVE  /\ db'[id] = sync[s].writes[id] /\ Save(s, id)
                 /\ id \in DOMAIN db' /\ db'[id].blob.ident \in DOMAIN metax
                 /\ db'[id].blob.ident # None
      <3>1. id \in DOMAIN db' /\ Save(s, id)
        BY <2>1, <2>3
      <3>2. db'[id] = sync[s].writes[id]
        BY <2>3, <3>1, CommitEffect
      <3>3. Live(db'[id].blob.ident)
        BY <3>1, <3>2 DEF Save
      <3> QED BY <3>1, <3>2, <3>3, Values DEF Live
    <2>4. ASSUME NEW id \in DOMAIN db'
          PROVE  RowInStep(id)'
      <3>1. CASE id \in DOMAIN sync[s].writes
        <4>1. id \notin edited' => db'[id].blob = metax[db'[id].blob.ident].blob
          <5>1. id \in edited /\ db'[id].blob = db[id].blob => id \in edited'
            BY <2>3, <3>1, CommitEffect
          <5>2. Current(id, db'[id].blob, db'[id].blob.ident)
            BY <2>3, <3>1 DEF Save
          <5> QED BY <5>1, <5>2 DEF Current
        <4>2. /\ db'[id].published /\ db'[id].synced = clock /\ db'[id].blob.rec \in {None, id}
              /\ metax[db'[id].blob.ident].blob.rec \in {None, id}
              /\ db'[id].blob.ident # None
          <5>1. db'[id] = sync[s].writes[id] /\ db'[id].blob.ident # None /\ Save(s, id)
            BY <2>3, <3>1
          <5>2. db'[id].published /\ db'[id].synced = sync[s].at
            BY <5>1 DEF Save
          <5>3. db'[id].blob.rec \in {None, id} /\ metax[db'[id].blob.ident].blob.rec \in {None, id}
            BY <5>1 DEF Save
          <5> QED BY <1>1, <5>1, <5>2, <5>3
        <4> QED BY <1>1, <4>1, <4>2 DEF RowInStep
      <3>2. CASE id \notin DOMAIN sync[s].writes
        BY <1>1, <3>2, CommitEffect DEF AllInStep, RowInStep
      <3> QED BY <3>1, <3>2
    <2>5. ASSUME NEW a \in DOMAIN db', NEW b \in DOMAIN db', a # b,
                 db'[a].blob.ident # None, db'[a].blob.ident = db'[b].blob.ident
          PROVE  FALSE
      <3>1. ASSUME NEW c \in DOMAIN sync[s].writes, NEW d \in DOMAIN db', c # d,
                   db'[c].blob.ident = db'[d].blob.ident
            PROVE  FALSE
        <4>1. CASE d \in DOMAIN sync[s].writes
          <5>1. /\ Save(s, c) /\ db'[c] = sync[s].writes[c]
                /\ db'[d] = sync[s].writes[d]
            BY <2>3, <3>1, <4>1
          <5> QED BY <3>1, <4>1, <5>1 DEF Save
        <4>2. CASE d \notin DOMAIN sync[s].writes
          <5>1. d \in DOMAIN db /\ db[d].blob.ident = db'[c].blob.ident
            BY <3>1, <4>2, CommitEffect
          <5>2. c \in DOMAIN db => db[c].blob.ident = db'[c].blob.ident
            BY <2>1
          <5>3. /\ db'[c].blob.ident # None
                /\ \/ c \in DOMAIN db
                   \/ \A k \in DOMAIN db : db[k].blob.ident # db'[c].blob.ident
            <6>1. Save(s, c) /\ db'[c] = sync[s].writes[c] /\ db'[c].blob.ident # None
              BY <2>3, <3>1
            <6> QED BY <6>1 DEF Save
          <5> QED BY <3>1, <5>1, <5>2, <5>3 DEF AllInStep, UniqueIdentifiers, Identified
        <4> QED BY <4>1, <4>2
      <3>2. CASE a \in DOMAIN sync[s].writes
        BY <2>5, <3>1, <3>2
      <3>3. CASE b \in DOMAIN sync[s].writes
        BY <2>5, <3>1, <3>3
      <3>4. CASE a \notin DOMAIN sync[s].writes /\ b \notin DOMAIN sync[s].writes
        BY <2>5, <3>4, CommitEffect DEF AllInStep, UniqueIdentifiers, Identified
      <3> QED BY <3>2, <3>3, <3>4
    <2>6. UniqueIdentifiers'
      BY <2>5 DEF UniqueIdentifiers, Identified
    <2>7. ASSUME NEW i \in DOMAIN metax'
          PROVE  DatasetInStep(i)'
      <3>1. DatasetInStep(i)
        BY <1>1, <2>7 DEF AllInStep
      <3>2. ASSUME NEW r, r = metax[i].blob.rec, r # None
            PROVE  NamedRow(i, r)'
        <4>1. NamedRow(i, r)
          BY <3>1, <3>2 DEF DatasetInStep
        <4>2. r \in DOMAIN db' => r \in DOMAIN db
          <5>1. ASSUME r \in DOMAIN db', r \notin DOMAIN db
                PROVE  FALSE
            <6>1. r \in DOMAIN sync[s].writes
              BY <5>1, CommitEffect
            <6>2. \A k \in DOMAIN metax : metax[k].blob.rec # r
              BY <2>3, <5>1, <6>1 DEF Save
            <6> QED BY <1>1, <2>7, <3>2, <6>2
          <5> QED BY <5>1
        <4> QED BY <1>1, <1>2, <2>1, <4>1, <4>2 DEF NamedRow, Live
      <3> QED BY <1>1, <3>1, <3>2 DEF DatasetInStep
    <2>8. \A v \in Users : WatermarkHolds(v)'
      <3>1. ~Unsynced(u)'
        BY <2>2 DEF Unsynced, Doing
      <3> QED BY <1>0, <3>1, CommitWatermarks
    <2>9. BatchInStep(s)'
      <3>1. ASSUME NEW i \in DOMAIN metax, metax[i].blob.user = u, Settled(s, i)'
            PROVE  Shown(u, i)'
        <4>1. metax[i].blob.date <= sync[s].since \/ ~metax[i].removed
          BY <1>1, <2>2, <3>1 DEF Settled
        <4> QED BY <1>0, <1>3, <3>1, <4>1, LiveCommitShown
      <3>2. DOMAIN NoRows = {}
        BY DEF NoRows
      <3> QED BY <1>1, <2>2, <3>1, <3>2 DEF BatchInStep, Doing
    <2> QED BY <1>1, <2>4, <2>6, <2>7, <2>8, <2>9, SoleStep
  <1>4. CASE sync[s].removed
    <2>1. /\ \A id \in DOMAIN db' : /\ id \in DOMAIN db /\ db'[id] = db[id]
                                    /\ (id \in edited' <=> id \in edited)
          /\ \A id \in DOMAIN db \ DOMAIN db' : Gone(db[id].blob.ident)
      BY <1>4, RemovedCommitRows
    <2>2. Doing(s, "idle")'
      <3>1. sync'[s] = AfterBatch(s) /\ ~(Len(sync[s].todo) > 1)
        BY <1>1, CommitEffect
      <3> QED BY <1>4, <3>1 DEF AfterBatch, SyncIdle, Doing
    <2>3. \A id \in DOMAIN db' : RowInStep(id)'
      BY <1>1, <2>1 DEF AllInStep, RowInStep
    <2>4. UniqueIdentifiers'
      BY <2>1 DEF AllInStep, UniqueIdentifiers, Identified
    <2>5. ASSUME NEW i \in DOMAIN metax'
          PROVE  DatasetInStep(i)'
      <3>1. DatasetInStep(i)
        BY <1>1, <2>5 DEF AllInStep
      <3>2. ASSUME NEW r, r = metax[i].blob.rec, r # None
            PROVE  NamedRow(i, r)'
        <4>1. NamedRow(i, r)
          BY <3>1, <3>2 DEF DatasetInStep
        <4>2. Live(i) => r \in DOMAIN db'
          BY <1>2, <2>1, <4>1 DEF NamedRow, Live, Gone
        <4> QED BY <1>1, <1>2, <2>1, <4>1, <4>2 DEF NamedRow, Live
      <3> QED BY <1>1, <3>1, <3>2 DEF DatasetInStep
    <2>6. \A v \in Users : WatermarkHolds(v)'
      <3>1. \A i \in DOMAIN metax : metax[i].blob.user = u => Shown(u, i)'
        BY <1>0, <1>4, RemovedCommitShown
      <3> QED BY <1>0, <3>1, CommitWatermarks
    <2>7. BatchInStep(s)'
      BY <2>2 DEF BatchInStep
    <2> QED BY <1>1, <2>3, <2>4, <2>5, <2>6, <2>7, SoleStep
  <1> QED BY <1>3, <1>4

-----------------------------------------------------------------------------
(* The whole.                                                              *)

LEMMA InitInStep ==
    ASSUME SyncInit
    PROVE  AllInStep
  <1>1. /\ DOMAIN db = {} /\ DOMAIN metax = {} /\ clock = 1 /\ late = {}
        /\ \A h \in Handlers : At(h, "idle")
        /\ \A s \in Syncers : Doing(s, "idle")
        /\ \A u \in Users : lastsync[u] = 0
    BY DEF SyncInit, Init, MetaxInit, Idle, SyncIdle, At, Doing
  <1>2. OneAtATime
    BY <1>1 DEF OneAtATime
  <1>3. ASSUME NEW u \in Users
        PROVE  WatermarkHolds(u)
    <2>1. lastsync[u] <= clock
      BY <1>1
    <2>2. \A i \in DOMAIN metax : FALSE
      BY <1>1
    <2> QED BY <2>1, <2>2 DEF WatermarkHolds
  <1> QED BY <1>1, <1>2, <1>3
          DEF AllInStep, UniqueIdentifiers, RequestInStep, BatchInStep

LEMMA SyncStepInStep ==
    ASSUME OneByOne, Grounded, AllInStep, NEW s \in Syncers, Sole(s),
           BeginSync(s) \/ SyncStep(s) \/ SyncFail(s) \/ Timeout(s) \/ CutOff(s)
    PROVE  AllInStep'
  <1>1. BatchInStep(s)
    BY DEF AllInStep
  <1>2. ~ChangeCumulativeState(s) /\ ~RefreshDirectoryContent(s) /\ ~GetId(s)
    BY <1>1 DEF BatchInStep, ChangeCumulativeState, RefreshDirectoryContent, GetId, Doing
  <1>3. ~SyncFail(s) /\ ~Timeout(s) /\ ~CutOff(s)
    BY <1>1 DEF BatchInStep, SyncFail, Timeout, CutOff, Doing, OneByOne
  <1> QED BY <1>2, <1>3, BeginSyncInStep, NewBatchInStep, ReadStreamChannelInStep,
             getSyncInfoInStep, syncRecordInStep, CommitInStep DEF SyncStep

LEMMA StutterInStep ==
    ASSUME AllInStep, UNCHANGED allVars
    PROVE  AllInStep'
  <1>1. UNCHANGED <<db, req, late, edited, metax, clock, lastsync, sync>>
    BY DEF allVars, vars, metaxVars, syncVars
  <1>2. /\ \A i : Live(i)' <=> Live(i)
        /\ \A i : Gone(i)' <=> Gone(i)
        /\ \A i : NewToRows(i)' <=> NewToRows(i)
        /\ \A id, i : InAnswer(id, i)' <=> InAnswer(id, i)
        /\ \A u, i : Shown(u, i)' <=> Shown(u, i)
        /\ \A u : Unsynced(u)' <=> Unsynced(u)
    BY <1>1 DEF Live, Gone, NewToRows, InAnswer, At, Shown, Shows, Owned, UpToDate,
                Unsynced, Doing
  <1>3. OneAtATime' /\ UniqueIdentifiers'
    BY <1>1 DEF AllInStep, OneAtATime, UniqueIdentifiers, Identified, At, Doing
  <1>4. \A id \in DOMAIN db' : RowInStep(id)'
    BY <1>1 DEF AllInStep, RowInStep
  <1>5. \A i \in DOMAIN metax' : DatasetInStep(i)'
    BY <1>1, <1>2 DEF AllInStep, DatasetInStep, NamedRow
  <1>6. \A h \in Handlers : RequestInStep(h)'
    BY <1>1, <1>2 DEF AllInStep, RequestInStep, At
  <1>7. \A u \in Users : WatermarkHolds(u)'
    BY <1>1, <1>2 DEF AllInStep, WatermarkHolds
  <1>8. ASSUME NEW s \in Syncers
        PROVE  BatchInStep(s)'
    <2>1. /\ \A i : Settled(s, i)' <=> Settled(s, i)
          /\ \A rec : Queried(s, rec)' <=> Queried(s, rec)
          /\ \A i : Processed(s, i)' <=> Processed(s, i)
          /\ \A id : Deletion(s, id) => Deletion(s, id)'
          /\ \A id : Save(s, id) => Save(s, id)'
      BY <1>1, BatchKeeps
    <2>2. [id \in Owned(db, sync[s].user) |-> KnownRow(id)]'
            = [id \in Owned(db, sync[s].user) |-> KnownRow(id)]
      BY <1>1 DEF KnownRow, Owned
    <2> QED BY <1>1, <1>2, <2>1, <2>2 DEF AllInStep, BatchInStep, Doing
  <1> QED BY <1>3, <1>4, <1>5, <1>6, <1>7, <1>8 DEF AllInStep

LEMMA NextInStep ==
    ASSUME OneByOne, Grounded, Grounded', AllInStep, [SyncNext]_allVars
    PROVE  AllInStep'
  <1>1. ASSUME NEW h \in Handlers, HandlerStep(h) \/ Fail(h), OnlyActive({h}, {}),
               UNCHANGED syncVars
        PROVE  AllInStep'
    BY <1>1, HandlerInStep
  <1>2. ~Crash
    BY DEF OneByOne, Crash
  <1>3. late = {}
    BY DEF AllInStep, OneAtATime
  <1>4. ASSUME EditInMetax \/ CreateInMetax \/ RemoveInMetax, OnlyActive({}, {}),
               UNCHANGED syncVars
        PROVE  AllInStep'
    BY <1>4, OutsideInStep
  <1>5. ASSUME NEW s \in Syncers, OnlyActive({}, {s}),
               BeginSync(s) \/ SyncStep(s) \/ SyncFail(s) \/ Timeout(s) \/ CutOff(s)
        PROVE  AllInStep'
    <2>1. Sole(s)
      BY <1>5, IsSole
    <2> QED BY <1>5, <2>1, SyncStepInStep
  <1>6. CASE UNCHANGED allVars
    BY <1>6, StutterInStep
  <1> QED BY <1>1, <1>2, <1>3, <1>4, <1>5, <1>6 DEF SyncNext, OneByOne

\* What the runs check.
LEMMA InStepSound ==
    ASSUME Grounded, AllInStep
    PROVE  WatermarkSound /\ SkipCheckSound /\ PublishedIffIdentified /\ UniqueIdentifiers
  <1>1. WatermarkSound
    <2> SUFFICES ASSUME NEW u \in Users, \A s \in Syncers : sync[s].user # u,
                        NEW i \in DOMAIN metax \ Refused, metax[i].blob.user = u,
                        metax[i].blob.date <= lastsync[u]
                 PROVE  Shown(u, i)
      BY DEF WatermarkSound, Shown
    <2>1. Unsynced(u)
      BY DEF Unsynced
    <2> QED BY <2>1 DEF AllInStep, WatermarkHolds
  <1>2. SkipCheckSound
    BY Values DEF SkipCheckSound, AllInStep, RowInStep, Identified, Live
  <1>3. PublishedIffIdentified
    BY DEF PublishedIffIdentified, AllInStep, RowInStep, Identified
  <1> QED BY <1>1, <1>2, <1>3 DEF AllInStep

(* With requests, syncs and other services one at a time and no faults but *)
(* records Qvain cannot take, rows, datasets, requests and batches stay in *)
(* step: a batch has such a record only to leave it out.                   *)
THEOREM SerialInvariance ==
    ASSUME OneByOne
    PROVE  SyncSpec => [](Grounded /\ AllInStep)
  <1>1. SyncInit => AllInStep
    BY InitInStep
  <1>2. ~MismatchedBodies /\ ~CreatesOverlap
    BY DEF OneByOne
  <1>3. SyncSpec => []SyncOwnersKnown
    BY <1>2, SyncInvariance
  <1>4. SyncOwnersKnown => Grounded
    BY <1>2, OwnersGround
  <1>5. Grounded /\ Grounded' /\ AllInStep /\ [SyncNext]_allVars => AllInStep'
    BY NextInStep
  <1> QED BY <1>1, <1>3, <1>4, <1>5, PTL DEF SyncSpec

(* With requests and syncs one at a time, the lastsync time the code gives *)
(* Metax as Since loses nothing that ToQvain accepts: all of it that       *)
(* changed before is in the user's rows, although the time is taken when   *)
(* the second batch commits, later than what the batches saw.              *)
THEOREM WatermarksSound ==
    ASSUME OneByOne
    PROVE  SyncSpec => []WatermarkSound
  <1>1. Grounded /\ AllInStep => WatermarkSound
    BY InStepSound
  <1> QED BY <1>1, SerialInvariance, PTL

(* And syncRecord loses nothing by its test of the modification date,      *)
(* whoever wrote the row's synced time.                                    *)
THEOREM SyncsSkipSoundly ==
    ASSUME OneByOne
    PROVE  SyncSpec => []SkipCheckSound
  <1>1. Grounded /\ AllInStep => SkipCheckSound
    BY InStepSound
  <1> QED BY <1>1, SerialInvariance, PTL

(* And beside syncs, which insert and update published rows, no two rows   *)
(* come to have one identifier, and the published rows are the identified. *)
THEOREM SyncsKeepIdentifiers ==
    ASSUME OneByOne
    PROVE  SyncSpec => [](UniqueIdentifiers /\ PublishedIffIdentified)
  <1>1. Grounded /\ AllInStep => UniqueIdentifiers /\ PublishedIffIdentified
    BY InStepSound
  <1> QED BY <1>1, SerialInvariance, PTL

\* The commit of the second batch.
LEMMA CommitMirrors ==
    ASSUME OneByOne, Grounded, Grounded', AllInStep, NEW s \in Syncers, NEW u,
           u = sync[s].user, sync[s].removed, Commit(s)
    PROVE  MirrorsMetax(u)'
  <1>1. Sole(s)
    BY IsSole DEF Commit, Doing
  <1>2. metax' = metax /\ DOMAIN db' \subseteq Ids
    BY <1>1, CommitEffect, NextValues
  <1>3. UniqueIdentifiers'
    BY <1>1, CommitInStep DEF AllInStep
  <1>4. ASSUME NEW i \in DOMAIN metax \ Refused, metax[i].blob.user = u, ~metax[i].removed
        PROVE  \E id \in Ids : Shows(u, i)' = {id} /\ UpToDate(id, i)'
    <2>1. Shown(u, i)'
      BY <1>1, <1>4, RemovedCommitShown
    <2>2. PICK id \in Shows(u, i)' : UpToDate(id, i)'
      BY <1>2, <1>4, <2>1 DEF Shown
    <2>3. i # None /\ id \in Ids
      BY <1>2, <2>2, Values DEF Shows, Owned
    <2>4. Shows(u, i)' = {id}
      BY <1>3, <2>2, <2>3 DEF Shows, Owned, UniqueIdentifiers, Identified
    <2> QED BY <2>2, <2>3, <2>4
  <1>5. ASSUME NEW i \in DOMAIN metax \ Refused, metax[i].blob.user = u, metax[i].removed
        PROVE  Shows(u, i)' = {}
    <2>1. Shown(u, i)'
      BY <1>1, <1>5, RemovedCommitShown
    <2> QED BY <1>2, <1>5, <2>1 DEF Shown
  <1> QED BY <1>2, <1>4, <1>5 DEF MirrorsMetax

(* With requests and syncs one at a time, each sync that comes to its end, *)
(* a Fetch as well as a FetchAll, leaves the user's rows showing what      *)
(* Metax has for the user, and each dataset once, of the records that      *)
(* ToQvain accepts: one that it refuses does not end the batch.            *)
THEOREM SyncsMirror ==
    ASSUME OneByOne
    PROVE  SyncSpec => [][\A s \in Syncers, u \in Users :
                             sync[s].user = u /\ sync[s].removed /\ Commit(s)
                                 => MirrorsMetax(u)']_allVars
  <1> DEFINE Mirrors == \A s \in Syncers, u \in Users :
                           sync[s].user = u /\ sync[s].removed /\ Commit(s) => MirrorsMetax(u)'
  <1>1. (Grounded /\ AllInStep) /\ (Grounded /\ AllInStep)' => [Mirrors]_allVars
    BY CommitMirrors
  <1> QED BY <1>1, SerialInvariance, PTL

(* And so does FetchAll, which asks Metax for everything and loses only    *)
(* what ToQvain refuses.                                                   *)
THEOREM FetchesMirror ==
    ASSUME OneByOne
    PROVE  SyncSpec => FetchAllMirrors
  <1> DEFINE Mirrors == \A s \in Syncers, u \in Users :
                           sync[s].user = u /\ sync[s].removed /\ Commit(s) => MirrorsMetax(u)'
             Fetched == \A s \in Syncers, u \in Users :
                           sync[s].user = u /\ sync[s].since = 0 /\ sync[s].removed /\ Commit(s)
                               => MirrorsMetax(u)'
  <1>1. [Mirrors]_allVars => [Fetched]_allVars
    OBVIOUS
  <1>2. SyncSpec => [][Mirrors]_allVars
    BY SyncsMirror
  <1>3. SyncSpec => [][Fetched]_allVars
    BY <1>1, <1>2, PTL
  <1> QED BY <1>3 DEF FetchAllMirrors
===============================================================================
