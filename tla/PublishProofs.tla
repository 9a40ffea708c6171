---------------------------- MODULE PublishProofs ----------------------------
(***************************************************************************)
(* Proofs about Publish, for any users, datasets, identifiers and handlers *)
(* and any bounds: type correctness; that no two datasets get the same     *)
(* Metax identifier and a dataset is published exactly if it has one; that *)
(* a row behind Metax is not skipped; that a delete goes through Metax.    *)
(***************************************************************************)
EXTENDS Publish, TLAPS

-----------------------------------------------------------------------------
(* Facts about tables and documents.                                       *)

\* A table with a row written is a table.
LEMMA WithIsTable ==
    ASSUME NEW t, IsTable(t), NEW key \in Ids, NEW row \in Row
    PROVE  IsTable(With(t, key, row))
  BY DEF IsTable, With

\* A table with a row deleted is a table.
LEMMA WithoutIsTable ==
    ASSUME NEW t, IsTable(t), NEW key
    PROVE  IsTable(Without(t, key))
  BY DEF IsTable, Without

\* The documents made from a client's input are documents, without identifier.
LEMMA InputBlobs ==
    ASSUME NEW id \in Ids, NEW user \in Users, NEW rd \in Contents, NEW cum \in Cums \cup {None}
    PROVE  /\ CreateData(id, user, rd, cum) \in Blob
           /\ UpdateData(id, rd, cum) \in Blob
           /\ CreateData(id, user, rd, cum).ident = None
  BY DEF CreateData, UpdateData, NoBlob, Blob

\* A create stores a new draft, with the id and the user that some create put into
\* the shared template.
LEMMA SomeTemplate ==
    ASSUME NEW h \in Handlers, CreateDataset(h)
    PROVE  \E user \in Users, id \in NewIds \ minted, rd \in Contents, cum \in Cums \cup {None},
              provider \in Users, rec \in Ids :
              /\ db' = With(db, id, NewRow(user, CreateData(rec, provider, rd, cum)))
              /\ minted' = minted \cup {id}
  <1>1. PICK user \in Users, id \in NewIds \ minted, rd \in Contents, cum \in Cums \cup {None} :
          \E provider \in TemplateUsers(user), rec \in TemplateIds(id) :
              /\ db' = With(db, id, NewRow(user, CreateData(rec, provider, rd, cum)))
              /\ minted' = minted \cup {id}
    BY DEF CreateDataset
  <1>2. TemplateUsers(user) \subseteq Users /\ TemplateIds(id) \subseteq Ids
    BY PublishAssumption DEF TemplateUsers, TemplateIds
  <1> QED BY <1>1, <1>2

\* An update changes neither a document's type nor its identifier.
LEMMA MergedBlob ==
    ASSUME NEW blob \in Blob, NEW patch \in Blob
    PROVE  MergeBlob(blob, patch) \in Blob /\ MergeBlob(blob, patch).ident = blob.ident
  BY DEF MergeBlob, Blob

\* A document Metax stores is a document under the identifier it is stored for.
LEMMA StoredRecord ==
    ASSUME NEW i \in Idents, NEW blob \in Blob, clock \in Nat
    PROVE  Stored(i, blob) \in MetaxRecord /\ Stored(i, blob).blob.ident = i
  <1> DEFINE doc == [blob EXCEPT !.ident = i, !.date = clock + 1]
  <1>1. clock + 1 \in Nat
    OBVIOUS
  <1>2. doc \in Blob /\ doc.ident = i
    BY <1>1 DEF Blob
  <1>3. Stored(i, blob) = [blob |-> doc, removed |-> FALSE]
    BY DEF Stored
  <1> HIDE DEF doc
  <1> QED BY <1>2, <1>3 DEF MetaxRecord

-----------------------------------------------------------------------------
(* What Metax does to its datasets.                                        *)

\* A dataset of Metax keeps its identifier in its document.
MetaxIdents == \A i \in DOMAIN metax : metax[i].blob.ident = i

\* Metax keeps its datasets, and their types and identifiers, in each of its steps.
MetaxKept ==
    /\ MetaxTypeOK'
    /\ DOMAIN metax \subseteq DOMAIN metax'
    /\ MetaxIdents => MetaxIdents'

\* A step that writes one dataset of Metax keeps what MetaxKept says.
LEMMA MetaxWrite ==
    ASSUME MetaxTypeOK, Tick, NEW i \in Idents, NEW rec \in MetaxRecord,
           rec.blob.ident = i, metax' = With(metax, i, rec)
    PROVE  MetaxKept
  <1>1. clock' \in 1 .. MaxClock
    BY ClockAssumption DEF MetaxTypeOK, Tick
  <1>2. /\ DOMAIN metax' = DOMAIN metax \cup {i}
        /\ \A k \in DOMAIN metax' : metax'[k] = IF k = i THEN rec ELSE metax[k]
        /\ metax' = [k \in DOMAIN metax' |-> metax'[k]]
    BY DEF With
  <1> QED BY <1>1, <1>2 DEF MetaxKept, MetaxTypeOK, MetaxIdents

LEMMA PostKeeps ==
    ASSUME MetaxTypeOK, NEW i \in Idents, NEW blob \in Blob, Post(i, blob)
    PROVE  /\ MetaxKept
           /\ i \notin DOMAIN metax
           /\ i \in DOMAIN metax' /\ metax'[i].blob \in Blob /\ metax'[i].blob.ident = i
  <1>1. clock \in Nat
    BY DEF MetaxTypeOK
  <1>2. Stored(i, blob) \in MetaxRecord /\ Stored(i, blob).blob.ident = i
    BY <1>1, StoredRecord
  <1>3. MetaxKept
    BY <1>2, MetaxWrite DEF Post
  <1>4. i \in DOMAIN metax' /\ metax'[i] = Stored(i, blob)
    BY DEF Post, With
  <1> QED BY <1>2, <1>3, <1>4 DEF Post, MetaxRecord

LEMMA PutKeeps ==
    ASSUME MetaxTypeOK, NEW blob \in Blob, PutDataset(blob)
    PROVE  /\ MetaxKept
           /\ blob.ident \in DOMAIN metax
           /\ metax'[blob.ident].blob \in Blob /\ metax'[blob.ident].blob.ident = blob.ident
  <1>1. clock \in Nat /\ blob.ident \in DOMAIN metax /\ blob.ident \in Idents
    BY DEF MetaxTypeOK, PutDataset, Live
  <1>2. Stored(blob.ident, blob) \in MetaxRecord /\ Stored(blob.ident, blob).blob.ident = blob.ident
    BY <1>1, StoredRecord
  <1>3. MetaxKept
    BY <1>1, <1>2, MetaxWrite DEF PutDataset
  <1>4. metax'[blob.ident] = Stored(blob.ident, blob)
    BY DEF PutDataset, With
  <1> QED BY <1>1, <1>2, <1>3, <1>4 DEF MetaxRecord

LEMMA PutVersionKeeps ==
    ASSUME MetaxTypeOK, NEW n \in Idents, NEW blob \in Blob, PutNewVersion(blob, n)
    PROVE  /\ MetaxKept
           /\ blob.ident \in DOMAIN metax
           /\ n \notin DOMAIN metax /\ n \in DOMAIN metax'
           /\ metax'[blob.ident].blob \in Blob /\ metax'[blob.ident].blob.ident = blob.ident
  <1> DEFINE version == [blob EXCEPT !.rec = None]
             put == With(metax, blob.ident, Stored(blob.ident, blob))
  <1>1. clock \in Nat /\ blob.ident \in DOMAIN metax /\ blob.ident \in Idents /\ blob.ident # n
    BY DEF MetaxTypeOK, PutNewVersion, Live
  <1>2. version \in Blob
    BY DEF Blob
  <1>3. Stored(blob.ident, blob) \in MetaxRecord /\ Stored(blob.ident, blob).blob.ident = blob.ident
    BY <1>1, StoredRecord
  <1>4. Stored(n, version) \in MetaxRecord /\ Stored(n, version).blob.ident = n
    BY <1>1, <1>2, StoredRecord
  <1>5. metax' = With(put, n, Stored(n, version))
    BY DEF PutNewVersion
  <1> HIDE DEF version
  <1>6. /\ DOMAIN metax' = DOMAIN metax \cup {blob.ident, n}
        /\ \A k \in DOMAIN metax' :
              metax'[k] = IF k = n THEN Stored(n, version)
                          ELSE IF k = blob.ident THEN Stored(blob.ident, blob) ELSE metax[k]
        /\ metax' = [k \in DOMAIN metax' |-> metax'[k]]
    BY <1>5 DEF With
  <1>7. clock' \in 1 .. MaxClock
    BY ClockAssumption DEF MetaxTypeOK, Tick, PutNewVersion
  <1>8. MetaxKept
    BY <1>1, <1>3, <1>4, <1>6, <1>7 DEF MetaxKept, MetaxTypeOK, MetaxIdents
  <1> QED BY <1>1, <1>3, <1>6, <1>8 DEF MetaxRecord, PutNewVersion

LEMMA RemoveKeeps ==
    ASSUME MetaxTypeOK, MetaxIdents, NEW i, RemoveDataset(i)
    PROVE  MetaxKept
  <1> DEFINE doc == [metax[i].blob EXCEPT !.date = clock + 1]
  <1>1. i \in DOMAIN metax /\ i \in Idents /\ metax[i].blob \in Blob /\ clock + 1 \in Nat
    BY DEF MetaxTypeOK, MetaxRecord, RemoveDataset, Live
  <1>2. doc \in Blob /\ doc.ident = i
    BY <1>1 DEF Blob, MetaxIdents
  <1>3. metax' = With(metax, i, [blob |-> doc, removed |-> TRUE]) /\ Tick
    BY DEF RemoveDataset
  <1> HIDE DEF doc
  <1> QED BY <1>1, <1>2, <1>3, MetaxWrite DEF MetaxRecord

LEMMA EditKeeps ==
    ASSUME MetaxTypeOK, NEW i \in Idents, NEW rd \in Contents, ForeignEdit(i, rd)
    PROVE  MetaxKept
  <1> DEFINE doc == [metax[i].blob EXCEPT !.rd = rd]
  <1>1. metax[i].blob \in Blob /\ clock \in Nat
    BY DEF MetaxTypeOK, MetaxRecord, ForeignEdit, Live
  <1>2. doc \in Blob
    BY <1>1 DEF Blob
  <1>3. metax' = With(metax, i, Stored(i, doc)) /\ Tick
    BY DEF ForeignEdit
  <1> HIDE DEF doc
  <1> QED BY <1>1, <1>2, <1>3, StoredRecord, MetaxWrite

-----------------------------------------------------------------------------
(* The inductive invariant.  UniqueIdentifiers alone is not inductive: an  *)
(* identifier also travels in the local state of a handler, from Metax's   *)
(* answer until the transaction that writes it, and by then other handlers *)
(* have run.  So an identifier is claimed by a row that has it, by a       *)
(* publish whose document has it, for the row being published, and by a    *)
(* publish that is to land the new version with it; and no two claims of   *)
(* one identifier are for different datasets.                              *)

\* The identifier a publish is to give its row, and the one of the new version
\* it is to land.
Claimed(h) == IF req[h].pc \in {"storing", "stored"} THEN req[h].blob.ident ELSE None

Pending(h) ==
    IF req[h].pc \in {"stored", "getting"} THEN req[h].new
    ELSE IF req[h].pc = "landing" THEN req[h].blob.ident ELSE None

\* Whatever is claimed was given out by Metax, so a fresh identifier is not.
ClaimsFromMetax ==
    /\ \A a \in DOMAIN db : db[a].blob.ident \in DOMAIN metax \cup {None}
    /\ \A h \in Handlers : /\ Claimed(h) \in DOMAIN metax \cup {None}
                           /\ Pending(h) \in DOMAIN metax \cup {None}

\* Ids in use were made, so a fresh id is not in use.
IdsMinted ==
    /\ DOMAIN db \subseteq minted
    /\ \A h \in Handlers : req[h].id \in minted \cup {None}

ClaimsDisjoint ==
    /\ \A a \in DOMAIN db : \A h \in Handlers :
          /\ Claimed(h) # None /\ db[a].blob.ident = Claimed(h) => a = req[h].id
          /\ Pending(h) # None => db[a].blob.ident # Pending(h)
    /\ \A h, k \in Handlers :
          /\ Claimed(h) # None /\ Claimed(h) = Claimed(k) => req[h].id = req[k].id
          /\ Pending(h) # None => Claimed(k) # Pending(h)
          /\ Pending(h) # None /\ Pending(h) = Pending(k) => h = k

\* What is about to be written as published has an identifier.
AnswersIdentified ==
    \A h \in Handlers : req[h].pc \in {"stored", "landing"} => req[h].blob.ident # None

IInv ==
    /\ TypeOK
    /\ MetaxIdents
    /\ ClaimsFromMetax
    /\ IdsMinted
    /\ ClaimsDisjoint
    /\ UniqueIdentifiers
    /\ AnswersIdentified
    /\ PublishedIffIdentified

-----------------------------------------------------------------------------
(* How a step of one handler may move claims.                              *)

Others(h) == \A k \in Handlers \ {h} : req'[k] = req[k]

\* A row keeps its identifier, has none, or gets the one its publish claims.
RowsFollow(h) ==
    \A a \in DOMAIN db' :
        \/ db'[a].blob.ident = None
        \/ a \in DOMAIN db /\ db'[a].blob.ident = db[a].blob.ident
        \/ a = req[h].id /\ db'[a].blob.ident = Claimed(h)

\* A publish drops its claim, keeps it, takes the one of its row, or claims what
\* Metax made in this step.
ClaimFollows(h) ==
    \/ Claimed(h)' = None
    \/ Claimed(h)' = Claimed(h) /\ req'[h].id = req[h].id
    \/ /\ req'[h].id \in DOMAIN db /\ db' = db
       /\ Claimed(h)' = db[req'[h].id].blob.ident
    \/ Claimed(h)' \in DOMAIN metax' \ DOMAIN metax

PendingFollows(h) ==
    \/ Pending(h)' \in {None, Pending(h)}
    \/ Pending(h)' \in DOMAIN metax' \ DOMAIN metax /\ Pending(h)' # Claimed(h)'

\* A step that moves claims only in these ways keeps them disjoint.
LEMMA ClaimsKept ==
    ASSUME IInv, NEW h \in Handlers, Others(h), DOMAIN metax \subseteq DOMAIN metax',
           RowsFollow(h), ClaimFollows(h), PendingFollows(h)
    PROVE  ClaimsFromMetax' /\ ClaimsDisjoint' /\ UniqueIdentifiers'
  <1>1. \A k \in Handlers \ {h} : /\ Claimed(k)' = Claimed(k) /\ Pending(k)' = Pending(k)
                                  /\ req'[k].id = req[k].id
    BY DEF Others, Claimed, Pending
  <1> USE DEF IInv, ClaimsFromMetax, ClaimsDisjoint
  <1>2. ClaimsFromMetax'
    BY <1>1 DEF RowsFollow, ClaimFollows, PendingFollows
  <1>3. UniqueIdentifiers'
    BY DEF RowsFollow, UniqueIdentifiers, Identified
  <1>4. \A a \in DOMAIN db' : \A k \in Handlers :
          Claimed(k)' # None /\ db'[a].blob.ident = Claimed(k)' => a = req'[k].id
    BY <1>1, <1>3 DEF RowsFollow, ClaimFollows, UniqueIdentifiers, Identified
  <1>5. \A a \in DOMAIN db' : \A k \in Handlers :
          Pending(k)' # None => db'[a].blob.ident # Pending(k)'
    BY <1>1 DEF RowsFollow, PendingFollows
  <1>6. \A k, l \in Handlers :
          Claimed(k)' # None /\ Claimed(k)' = Claimed(l)' => req'[k].id = req'[l].id
    BY <1>1 DEF ClaimFollows
  <1>7. \A k, l \in Handlers : Pending(k)' # None => Claimed(l)' # Pending(k)'
    BY <1>1 DEF ClaimFollows, PendingFollows
  <1>8. \A k, l \in Handlers : Pending(k)' # None /\ Pending(k)' = Pending(l)' => k = l
    BY <1>1 DEF PendingFollows
  <1> QED BY <1>2, <1>3, <1>4, <1>5, <1>6, <1>7, <1>8

\* The other conjuncts of the invariant, for a step of one handler.
LEMMA HandlerStepKeeps ==
    ASSUME IInv, NEW h \in Handlers, Others(h), TypeOK', MetaxIdents',
           DOMAIN metax \subseteq DOMAIN metax',
           RowsFollow(h), ClaimFollows(h), PendingFollows(h),
           minted \subseteq minted', DOMAIN db' \subseteq minted',
           req'[h].id \in minted' \cup {None},
           req'[h].pc \in {"stored", "landing"} => req'[h].blob.ident # None,
           PublishedIffIdentified'
    PROVE  IInv'
  <1>1. ClaimsFromMetax' /\ ClaimsDisjoint' /\ UniqueIdentifiers'
    BY ClaimsKept
  <1>2. IdsMinted' /\ AnswersIdentified'
    BY DEF IInv, Others, IdsMinted, AnswersIdentified
  <1> QED BY <1>1, <1>2 DEF IInv

-----------------------------------------------------------------------------
(* How a step changes the state of its handler.                            *)

LEMMA Goes ==
    ASSUME TypeOK, NEW h \in Handlers, NEW pc \in PCs, Goto(h, pc)
    PROVE  /\ Others(h) /\ req' \in [Handlers -> Req]
           /\ req'[h].pc = pc /\ req'[h].id = req[h].id
           /\ req'[h].blob = req[h].blob /\ req'[h].new = req[h].new
  BY DEF TypeOK, Goto, Others, Req

LEMMA IsAnswered ==
    ASSUME TypeOK, NEW h \in Handlers, NEW pc \in PCs, NEW blob \in Blob,
           NEW new \in Idents \cup {None}, Answered(h, pc, blob, new)
    PROVE  /\ Others(h) /\ req' \in [Handlers -> Req]
           /\ req'[h].pc = pc /\ req'[h].id = req[h].id /\ req'[h].user = req[h].user
           /\ req'[h].blob = blob /\ req'[h].new = new
  <1> DEFINE state == [req[h] EXCEPT !.pc = pc, !.blob = blob, !.new = new]
  <1>1. req \in [Handlers -> Req] /\ req[h] \in Req
    BY DEF TypeOK
  <1>2. /\ state \in Req /\ state.pc = pc /\ state.id = req[h].id
        /\ state.user = req[h].user /\ state.blob = blob /\ state.new = new
    BY <1>1 DEF Req
  <1>3. req' = [req EXCEPT ![h] = state]
    BY <1>1 DEF Answered
  <1> HIDE DEF state
  <1> QED BY <1>1, <1>2, <1>3 DEF Others

LEMMA Ends ==
    ASSUME TypeOK, NEW h \in Handlers, End(h)
    PROVE  /\ Others(h) /\ req' \in [Handlers -> Req]
           /\ req'[h] = Idle
  <1>1. Idle \in Req
    BY DEF Idle, Req, PCs, NoBlob, Blob
  <1> QED BY <1>1 DEF TypeOK, End, Others

\* A step of handler h that writes neither rows nor Metax: it only has to account
\* for the claims of h.
LEMMA LocalStepKeeps ==
    ASSUME IInv, NEW h \in Handlers, Others(h), req' \in [Handlers -> Req],
           UNCHANGED <<db, minted, edited, metaxVars>>, late' \subseteq Call,
           ClaimFollows(h), Pending(h)' \in {None, Pending(h)},
           req'[h].id \in minted \cup {None},
           req'[h].pc \in {"stored", "landing"} => req'[h].blob.ident # None
    PROVE  IInv'
  <1>1. TypeOK' /\ MetaxIdents'
    BY DEF IInv, TypeOK, MetaxTypeOK, IsTable, MetaxIdents, metaxVars
  <1>2. RowsFollow(h) /\ PublishedIffIdentified'
    BY DEF IInv, RowsFollow, PublishedIffIdentified, Identified
  <1>3. PendingFollows(h) /\ DOMAIN metax \subseteq DOMAIN metax'
    BY DEF PendingFollows, metaxVars
  <1>4. minted \subseteq minted' /\ DOMAIN db' \subseteq minted'
    BY DEF IInv, IdsMinted
  <1> QED BY <1>1, <1>2, <1>3, <1>4, HandlerStepKeeps

LEMMA ValidateUpdateKeeps ==
    ASSUME IInv, NEW h \in Handlers, ValidateUpdate(h)
    PROVE  IInv'
  <1>1. PICK user \in Users, id \in DOMAIN db, bodyId \in Ids, rd \in Contents,
             cum \in Cums \cup {None} :
          Begin(h, "patching", user, id, UpdateData(bodyId, rd, cum))
    BY DEF ValidateUpdate, IInv, TypeOK, IsTable, Owned
  <1>2. id \in minted /\ id \in Ids
    BY <1>1 DEF IInv, IdsMinted, TypeOK, IsTable
  <1>3. UpdateData(bodyId, rd, cum) \in Blob
    BY DEF UpdateData, NoBlob, Blob
  <1>4. /\ Others(h) /\ req' \in [Handlers -> Req]
        /\ req'[h].pc = "patching" /\ req'[h].id = id
    BY <1>1, <1>2, <1>3 DEF Begin, Others, IInv, TypeOK, Req, PCs
  <1>5. Claimed(h)' = None /\ Pending(h)' = None
    BY <1>4 DEF Claimed, Pending
  <1> QED BY <1>2, <1>4, <1>5, LocalStepKeeps DEF ValidateUpdate, ClaimFollows, IInv, TypeOK

LEMMA GetForPublishKeeps ==
    ASSUME IInv, NEW h \in Handlers, GetForPublish(h)
    PROVE  IInv'
  <1>1. PICK user \in Users, id \in DOMAIN db : Begin(h, "storing", user, id, db[id].blob)
    BY DEF GetForPublish, Owned
  <1>2. id \in minted /\ id \in Ids /\ db[id].blob \in Blob
    BY DEF IInv, IdsMinted, TypeOK, IsTable, Row
  <1>3. /\ Others(h) /\ req' \in [Handlers -> Req]
        /\ req'[h].pc = "storing" /\ req'[h].id = id /\ req'[h].blob = db[id].blob
    BY <1>1, <1>2 DEF Begin, Others, IInv, TypeOK, Req, PCs
  <1>4. Claimed(h)' = db[id].blob.ident /\ Pending(h)' = None
    BY <1>3 DEF Claimed, Pending
  <1> QED BY <1>2, <1>3, <1>4, LocalStepKeeps DEF GetForPublish, ClaimFollows, IInv, TypeOK

LEMMA GetForDeleteKeeps ==
    ASSUME IInv, NEW h \in Handlers, GetForDelete(h)
    PROVE  IInv'
  <1>1. PICK user \in Users, id \in DOMAIN db, pc \in {"unlisting", "deleting"} :
          Begin(h, pc, user, id, NoBlob)
    BY DEF GetForDelete, Owned
  <1>2. id \in minted /\ id \in Ids
    BY DEF IInv, IdsMinted, TypeOK, IsTable
  <1>3. NoBlob \in Blob
    BY DEF NoBlob, Blob
  <1>4. /\ Others(h) /\ req' \in [Handlers -> Req]
        /\ req'[h].pc = pc /\ req'[h].id = id
    BY <1>1, <1>2, <1>3 DEF Begin, Others, IInv, TypeOK, Req, PCs
  <1>5. Claimed(h)' = None /\ Pending(h)' = None
    BY <1>4 DEF Claimed, Pending
  <1> QED BY <1>2, <1>4, <1>5, LocalStepKeeps DEF GetForDelete, ClaimFollows, IInv, TypeOK

LEMMA GetForUnpublishKeeps ==
    ASSUME IInv, NEW h \in Handlers, GetForUnpublish(h)
    PROVE  IInv'
  <1>1. db[req[h].id].blob \in Blob /\ req[h].id \in minted
    BY DEF GetForUnpublish, Owned, IInv, IdsMinted, TypeOK, IsTable, Row
  <1>2. /\ Others(h) /\ req' \in [Handlers -> Req]
        /\ req'[h].pc = "removing" /\ req'[h].id = req[h].id
    BY <1>1, IsAnswered DEF GetForUnpublish, IInv, PCs
  <1>3. Claimed(h)' = None /\ Pending(h)' = None
    BY <1>2 DEF Claimed, Pending
  <1> QED BY <1>1, <1>2, <1>3, LocalStepKeeps DEF GetForUnpublish, ClaimFollows, IInv, TypeOK

LEMMA GetNewVersionKeeps ==
    ASSUME IInv, NEW h \in Handlers, GetNewVersion(h)
    PROVE  IInv'
  <1> DEFINE n == req[h].new
  <1>1. /\ n \in DOMAIN metax /\ n \in Idents /\ n # None
        /\ metax[n].blob \in Blob /\ metax[n].blob.ident = n
    BY NoneAssumption
    DEF GetNewVersion, Live, IInv, MetaxIdents, TypeOK, MetaxTypeOK, MetaxRecord
  <1>2. /\ Others(h) /\ req' \in [Handlers -> Req]
        /\ req'[h].pc = "landing" /\ req'[h].id = req[h].id
        /\ req'[h].blob = metax[n].blob
    BY <1>1, IsAnswered DEF GetNewVersion, IInv, PCs
  <1>3. Claimed(h)' = None /\ Pending(h)' = n /\ Pending(h) = n
    BY <1>1, <1>2 DEF Claimed, Pending, GetNewVersion, At
  <1>4. req'[h].id \in minted \cup {None}
    BY <1>2 DEF IInv, IdsMinted
  <1> QED BY <1>1, <1>2, <1>3, <1>4, LocalStepKeeps DEF GetNewVersion, ClaimFollows, IInv, TypeOK

\* A request that fails, leaving its call behind or not.
LEMMA FailKeeps ==
    ASSUME IInv, NEW h \in Handlers, Fail(h)
    PROVE  IInv'
  <1>1. Others(h) /\ req' \in [Handlers -> Req] /\ req'[h] = Idle
    BY Ends DEF Fail, IInv
  <1>2. Claimed(h)' = None /\ Pending(h)' = None
    BY <1>1 DEF Claimed, Pending, Idle
  <1>3. Outstanding(h) \subseteq Call
    BY DEF Outstanding, Call, IInv, TypeOK, Req, At
  <1>4. late' \subseteq Call
    BY <1>3 DEF Fail, LeftBehind, IInv, TypeOK
  <1> QED BY <1>1, <1>2, <1>4, LocalStepKeeps DEF Fail, ClaimFollows, Idle

-----------------------------------------------------------------------------
(* Steps that write to Metax.                                              *)

\* A step of handler h that leaves the rows alone and gives Metax something.
LEMMA MetaxStepKeeps ==
    ASSUME IInv, NEW h \in Handlers, Others(h), req' \in [Handlers -> Req], MetaxKept,
           UNCHANGED <<db, minted, late, edited>>,
           ClaimFollows(h), PendingFollows(h), req'[h].id = req[h].id,
           req'[h].pc \in {"stored", "landing"} => req'[h].blob.ident # None
    PROVE  IInv'
  <1>1. TypeOK' /\ MetaxIdents'
    BY DEF IInv, TypeOK, MetaxKept, IsTable
  <1>2. RowsFollow(h) /\ PublishedIffIdentified'
    BY DEF IInv, RowsFollow, PublishedIffIdentified, Identified
  <1>3. /\ minted \subseteq minted' /\ DOMAIN db' \subseteq minted'
        /\ req'[h].id \in minted' \cup {None}
    BY DEF IInv, IdsMinted
  <1> QED BY <1>1, <1>2, <1>3, HandlerStepKeeps DEF MetaxKept

LEMMA StoreCreatedKeeps ==
    ASSUME IInv, NEW h \in Handlers, StoreCreated(h)
    PROVE  IInv'
  <1>1. MetaxTypeOK /\ TypeOK /\ req[h].blob \in Blob
    BY DEF IInv, TypeOK, Req
  <1>2. PICK i \in Idents : Post(i, req[h].blob) /\ Answered(h, "stored", metax'[i].blob, None)
    BY DEF StoreCreated
  <1>3. /\ MetaxKept /\ i \in DOMAIN metax' \ DOMAIN metax
        /\ metax'[i].blob \in Blob /\ metax'[i].blob.ident = i
    BY <1>1, <1>2, PostKeeps
  <1>4. /\ Others(h) /\ req' \in [Handlers -> Req]
        /\ req'[h].pc = "stored" /\ req'[h].id = req[h].id
        /\ req'[h].blob = metax'[i].blob /\ req'[h].new = None
    BY <1>1, <1>2, <1>3, IsAnswered DEF PCs
  <1>5. Claimed(h)' = i /\ Pending(h)' = None
    BY <1>3, <1>4 DEF Claimed, Pending
  <1>6. i # None
    BY NoneAssumption
  <1> QED BY <1>3, <1>4, <1>5, <1>6, MetaxStepKeeps
          DEF StoreCreated, ClaimFollows, PendingFollows

LEMMA StoreUpdatedKeeps ==
    ASSUME IInv, NEW h \in Handlers, StoreUpdated(h)
    PROVE  IInv'
  <1> DEFINE i == req[h].blob.ident
  <1>1. MetaxTypeOK /\ TypeOK /\ req[h].blob \in Blob /\ PutDataset(req[h].blob)
    BY DEF IInv, TypeOK, Req, StoreUpdated
  <1>2. /\ MetaxKept /\ i \in DOMAIN metax
        /\ metax'[i].blob \in Blob /\ metax'[i].blob.ident = i
    BY <1>1, PutKeeps
  <1>3. /\ Others(h) /\ req' \in [Handlers -> Req]
        /\ req'[h].pc = "stored" /\ req'[h].id = req[h].id
        /\ req'[h].blob = metax'[i].blob /\ req'[h].new = None
    BY <1>1, <1>2, IsAnswered DEF PCs, StoreUpdated
  <1>4. Claimed(h) = i /\ Claimed(h)' = i /\ Pending(h)' = None
    BY <1>2, <1>3 DEF Claimed, Pending, StoreUpdated, At
  <1>5. i # None
    BY <1>1, <1>2, NoneAssumption DEF MetaxTypeOK
  <1> QED BY <1>2, <1>3, <1>4, <1>5, MetaxStepKeeps
          DEF StoreUpdated, ClaimFollows, PendingFollows

\* The publish gets two claims in one step, the second one fresh.
LEMMA StoreMadeVersionKeeps ==
    ASSUME IInv, NEW h \in Handlers, StoreMadeVersion(h)
    PROVE  IInv'
  <1> DEFINE i == req[h].blob.ident
  <1>1. MetaxTypeOK /\ TypeOK /\ req[h].blob \in Blob
    BY DEF IInv, TypeOK, Req
  <1>2. PICK n \in Idents : /\ PutNewVersion(req[h].blob, n)
                            /\ Answered(h, "stored", metax'[i].blob, n)
    BY DEF StoreMadeVersion
  <1>3. /\ MetaxKept /\ i \in DOMAIN metax /\ n \in DOMAIN metax' \ DOMAIN metax
        /\ metax'[i].blob \in Blob /\ metax'[i].blob.ident = i
    BY <1>1, <1>2, PutVersionKeeps
  <1>4. /\ Others(h) /\ req' \in [Handlers -> Req]
        /\ req'[h].pc = "stored" /\ req'[h].id = req[h].id
        /\ req'[h].blob = metax'[i].blob /\ req'[h].new = n
    BY <1>1, <1>2, <1>3, IsAnswered DEF PCs
  <1>5. Claimed(h) = i /\ Claimed(h)' = i /\ Pending(h)' = n
    BY <1>3, <1>4 DEF Claimed, Pending, StoreMadeVersion, At
  <1>6. i # None /\ i # n
    BY <1>1, <1>3, NoneAssumption DEF MetaxTypeOK
  <1> QED BY <1>3, <1>4, <1>5, <1>6, MetaxStepKeeps
          DEF StoreMadeVersion, ClaimFollows, PendingFollows

LEMMA DeleteInMetaxKeeps ==
    ASSUME IInv, NEW h \in Handlers, DeleteInMetax(h)
    PROVE  IInv'
  <1>1. MetaxKept
    BY RemoveKeeps DEF DeleteInMetax, IInv, TypeOK
  <1>2. /\ Others(h) /\ req' \in [Handlers -> Req]
        /\ req'[h].pc = "deleting" /\ req'[h].id = req[h].id
    BY Goes DEF DeleteInMetax, IInv, PCs
  <1>3. Claimed(h)' = None /\ Pending(h)' = None
    BY <1>2 DEF Claimed, Pending
  <1> QED BY <1>1, <1>2, <1>3, MetaxStepKeeps DEF DeleteInMetax, ClaimFollows, PendingFollows

\* A change in Metax that no handler makes.
LEMMA OutsideStepKeeps ==
    ASSUME IInv, MetaxKept, UNCHANGED <<db, minted, req, edited>>, late' \subseteq late
    PROVE  IInv'
  <1>1. TypeOK' /\ MetaxIdents'
    BY DEF IInv, TypeOK, MetaxKept, IsTable
  <1>2. \A h \in Handlers : Claimed(h)' = Claimed(h) /\ Pending(h)' = Pending(h)
    BY DEF Claimed, Pending
  <1>3. ClaimsFromMetax' /\ IdsMinted' /\ ClaimsDisjoint'
    BY <1>2 DEF IInv, ClaimsFromMetax, IdsMinted, ClaimsDisjoint, MetaxKept
  <1>4. UniqueIdentifiers' /\ AnswersIdentified' /\ PublishedIffIdentified'
    BY DEF IInv, UniqueIdentifiers, AnswersIdentified, PublishedIffIdentified, Identified
  <1> QED BY <1>1, <1>3, <1>4 DEF IInv

LEMMA LateCallKeeps ==
    ASSUME IInv, NEW c \in late, LateCall(c)
    PROVE  IInv'
  <1>1. MetaxTypeOK /\ c.blob \in Blob
    BY DEF IInv, TypeOK, Call
  <1>2. MetaxKept
    BY <1>1, PostKeeps, PutKeeps, PutVersionKeeps, RemoveKeeps DEF LateCall, IInv
  <1> QED BY <1>2, OutsideStepKeeps DEF LateCall

LEMMA EditInMetaxKeeps ==
    ASSUME IInv, EditInMetax
    PROVE  IInv'
  <1>1. MetaxKept
    BY EditKeeps DEF EditInMetax, IInv, TypeOK
  <1> QED BY <1>1, OutsideStepKeeps DEF EditInMetax

-----------------------------------------------------------------------------
(* Steps that write to the datasets table.                                 *)

\* What writing a row does to the table.
LEMMA RowWritten ==
    ASSUME IInv, NEW id \in Ids, NEW row \in Row, row.published <=> Identified(row),
           db' = With(db, id, row)
    PROVE  /\ IsTable(db)' /\ PublishedIffIdentified'
           /\ DOMAIN db' = DOMAIN db \cup {id} /\ db'[id] = row
           /\ \A a \in DOMAIN db \ {id} : db'[a] = db[a]
  <1>1. IsTable(db)
    BY DEF IInv, TypeOK
  <1>2. IsTable(db')
    BY <1>1, WithIsTable
  <1>3. /\ DOMAIN db' = DOMAIN db \cup {id} /\ db'[id] = row
        /\ \A a \in DOMAIN db \ {id} : db'[a] = db[a]
    BY DEF With
  <1>4. PublishedIffIdentified'
    BY <1>3 DEF IInv, PublishedIffIdentified, Identified
  <1> QED BY <1>2, <1>3, <1>4 DEF IsTable

\* A step of handler h that writes rows and leaves Metax alone.
LEMMA TableStepKeeps ==
    ASSUME IInv, NEW h \in Handlers, Others(h), req' \in [Handlers -> Req],
           UNCHANGED <<late, metaxVars>>, IsTable(db)', PublishedIffIdentified',
           minted \subseteq minted', minted' \subseteq Ids, edited' \subseteq Ids,
           DOMAIN db' \subseteq minted', req'[h].id \in minted' \cup {None},
           RowsFollow(h), ClaimFollows(h), Pending(h)' \in {None, Pending(h)},
           req'[h].pc \notin {"stored", "landing"}
    PROVE  IInv'
  <1>1. TypeOK' /\ MetaxIdents' /\ DOMAIN metax \subseteq DOMAIN metax'
    BY DEF IInv, TypeOK, MetaxTypeOK, MetaxIdents, metaxVars
  <1> QED BY <1>1, HandlerStepKeeps DEF PendingFollows

LEMMA CreateDatasetKeeps ==
    ASSUME IInv, NEW h \in Handlers, CreateDataset(h)
    PROVE  IInv'
  <1>1. PICK user \in Users, id \in NewIds \ minted, rd \in Contents, cum \in Cums \cup {None},
             provider \in Users, rec \in Ids :
          /\ db' = With(db, id, NewRow(user, CreateData(rec, provider, rd, cum)))
          /\ minted' = minted \cup {id}
    BY SomeTemplate
  <1> DEFINE row == NewRow(user, CreateData(rec, provider, rd, cum))
  <1>2. id \in Ids
    BY PublishAssumption
  <1>3. row \in Row /\ ~row.published /\ row.blob.ident = None
    BY <1>2, InputBlobs DEF NewRow, Row
  <1>4. /\ IsTable(db)' /\ PublishedIffIdentified'
        /\ DOMAIN db' = DOMAIN db \cup {id} /\ db'[id] = row
        /\ \A a \in DOMAIN db \ {id} : db'[a] = db[a]
    BY <1>1, <1>2, <1>3, RowWritten DEF Identified
  <1>5. RowsFollow(h)
    BY <1>3, <1>4 DEF RowsFollow
  <1>6. /\ Others(h) /\ req' \in [Handlers -> Req] /\ req'[h] = req[h]
        /\ Claimed(h)' = Claimed(h) /\ Pending(h)' = Pending(h)
    BY DEF CreateDataset, Others, Claimed, Pending, IInv, TypeOK
  <1>7. /\ minted' \subseteq Ids /\ edited' \subseteq Ids
        /\ DOMAIN db' \subseteq minted' /\ req'[h].id \in minted' \cup {None}
    BY <1>1, <1>2, <1>4, <1>6 DEF CreateDataset, IInv, IdsMinted, TypeOK
  <1>8. req'[h].pc = "idle"
    BY <1>6 DEF CreateDataset, At
  <1> QED BY <1>1, <1>4, <1>5, <1>6, <1>7, <1>8, TableStepKeeps
          DEF CreateDataset, ClaimFollows

LEMMA SmartUpdateKeeps ==
    ASSUME IInv, NEW h \in Handlers, SmartUpdateWithOwner(h)
    PROVE  IInv'
  <1> DEFINE id  == req[h].id
             row == PatchRow(db[id], req[h].blob)
  <1>1. /\ id \in DOMAIN db /\ id \in Ids /\ db[id] \in Row /\ req[h].blob \in Blob
        /\ id \in minted
    BY DEF SmartUpdateWithOwner, Owned, IInv, TypeOK, IsTable, Req, IdsMinted
  <1>2. db[id].published <=> db[id].blob.ident # None
    BY <1>1 DEF IInv, PublishedIffIdentified, Identified
  <1>3. /\ row \in Row /\ row.blob.ident = db[id].blob.ident
        /\ row.published = db[id].published
    BY <1>1, MergedBlob DEF PatchRow, Row
  <1>4. /\ IsTable(db)' /\ PublishedIffIdentified'
        /\ DOMAIN db' = DOMAIN db \cup {id} /\ db'[id] = row
        /\ \A a \in DOMAIN db \ {id} : db'[a] = db[a]
    BY <1>1, <1>2, <1>3, RowWritten DEF SmartUpdateWithOwner, Identified
  <1>5. RowsFollow(h)
    BY <1>1, <1>3, <1>4 DEF RowsFollow
  <1>6. Others(h) /\ req' \in [Handlers -> Req] /\ req'[h] = Idle
    BY Ends DEF SmartUpdateWithOwner, IInv
  <1>7. Claimed(h)' = None /\ Pending(h)' = None
    BY <1>6 DEF Claimed, Pending, Idle
  <1>8. minted' = minted /\ minted \subseteq Ids /\ edited' \subseteq Ids /\ DOMAIN db' \subseteq minted
    BY <1>1, <1>4 DEF SmartUpdateWithOwner, IInv, IdsMinted, TypeOK
  <1> QED BY <1>4, <1>5, <1>6, <1>7, <1>8, TableStepKeeps
          DEF SmartUpdateWithOwner, ClaimFollows, Idle

LEMMA StorePublishedKeeps ==
    ASSUME IInv, NEW h \in Handlers, StorePublished(h)
    PROVE  IInv'
  <1> DEFINE id  == req[h].id
             row == PublishedRow(db[id], req[h].blob, req[h].blob.date)
  <1>1. /\ id \in DOMAIN db /\ id \in Ids /\ db[id] \in Row /\ req[h] \in Req
        /\ id \in minted
    BY DEF StorePublished, IInv, TypeOK, IsTable, IdsMinted
  <1>2. req[h].blob.ident # None /\ Claimed(h) = req[h].blob.ident /\ Pending(h) = req[h].new
    BY DEF StorePublished, At, IInv, AnswersIdentified, Claimed, Pending
  <1>3. req[h].blob.date \in Nat
    BY <1>1 DEF Req, Blob
  <1>4. /\ row \in Row /\ row.published /\ row.blob = req[h].blob
    BY <1>1, <1>3 DEF PublishedRow, Row, Req
  <1>5. /\ IsTable(db)' /\ PublishedIffIdentified'
        /\ DOMAIN db' = DOMAIN db \cup {id} /\ db'[id] = row
        /\ \A a \in DOMAIN db \ {id} : db'[a] = db[a]
    <2>1. db' = With(db, id, row)
      BY DEF StorePublished
    <2>2. row.published <=> Identified(row)
      BY <1>2, <1>4 DEF Identified
    <2> HIDE DEF id, row
    <2> QED BY <1>1, <1>4, <2>1, <2>2, RowWritten
  <1>6. RowsFollow(h)
    BY <1>1, <1>2, <1>4, <1>5 DEF RowsFollow
  <1>7. /\ Others(h) /\ req' \in [Handlers -> Req]
        /\ req'[h].id \in {id, None} /\ req'[h].pc \in {"idle", "getting"}
        /\ req'[h].pc = "getting" => req'[h].new = req[h].new
    <2>1. CASE req[h].new = None
      BY <2>1, Ends DEF StorePublished, IInv, Idle
    <2>2. CASE req[h].new # None
      BY <2>2, Goes DEF StorePublished, IInv, PCs
    <2> QED BY <2>1, <2>2
  <1>8. Claimed(h)' = None /\ Pending(h)' \in {None, Pending(h)}
    BY <1>2, <1>7 DEF Claimed, Pending
  <1>9. minted' = minted /\ minted \subseteq Ids /\ edited' \subseteq Ids /\ DOMAIN db' \subseteq minted
    BY <1>1, <1>5 DEF StorePublished, IInv, IdsMinted, TypeOK
  <1> QED BY <1>1, <1>5, <1>6, <1>7, <1>8, <1>9, TableStepKeeps
          DEF StorePublished, ClaimFollows

LEMMA DeleteKeeps ==
    ASSUME IInv, NEW h \in Handlers, Delete(h)
    PROVE  IInv'
  <1>1. IsTable(db)'
    <2>1. IsTable(db)
      BY DEF IInv, TypeOK
    <2>2. IsTable(Without(db, req[h].id))
      BY <2>1, WithoutIsTable
    <2> QED BY <2>2 DEF Delete, IsTable
  <1>2. DOMAIN db' \subseteq DOMAIN db /\ \A a \in DOMAIN db' : db'[a] = db[a]
    BY DEF Delete, Without
  <1>3. RowsFollow(h) /\ PublishedIffIdentified'
    BY <1>2 DEF RowsFollow, PublishedIffIdentified, Identified, IInv
  <1>4. Others(h) /\ req' \in [Handlers -> Req] /\ req'[h] = Idle
    BY Ends DEF Delete, IInv
  <1>5. Claimed(h)' = None /\ Pending(h)' = None
    BY <1>4 DEF Claimed, Pending, Idle
  <1>6. minted' = minted /\ minted \subseteq Ids /\ edited' \subseteq Ids /\ DOMAIN db' \subseteq minted
    BY <1>2 DEF Delete, IInv, IdsMinted, TypeOK
  <1> QED BY <1>1, <1>3, <1>4, <1>5, <1>6, TableStepKeeps DEF Delete, ClaimFollows, Idle

\* The new row takes over the identifier its handler was to land.
LEMMA StoreNewVersionKeeps ==
    ASSUME IInv, NEW h \in Handlers, StoreNewVersion(h)
    PROVE  IInv'
  <1> DEFINE parent == req[h].id
             row    == NewVersionRow(db[parent], req[h].blob, req[h].blob.date)
             i      == req[h].blob.ident
  <1>1. PICK id \in Ids \ minted : db' = With(db, id, row) /\ minted' = minted \cup {id}
    BY DEF StoreNewVersion
  <1>2. parent \in DOMAIN db /\ db[parent] \in Row /\ req[h] \in Req /\ id \notin DOMAIN db
    BY DEF StoreNewVersion, IInv, TypeOK, IsTable, IdsMinted
  <1>3. i # None /\ Pending(h) = i
    BY DEF StoreNewVersion, At, IInv, AnswersIdentified, Pending
  <1>4. req[h].blob.date \in Nat
    BY <1>2 DEF Req, Blob
  <1>5. row \in Row /\ row.published /\ row.blob.ident = i
    BY <1>2, <1>4 DEF NewVersionRow, Row, Req
  <1>6. /\ IsTable(db)' /\ PublishedIffIdentified'
        /\ DOMAIN db' = DOMAIN db \cup {id} /\ db'[id] = row
        /\ \A a \in DOMAIN db \ {id} : db'[a] = db[a]
    BY <1>1, <1>3, <1>5, RowWritten DEF Identified
  <1>7. Others(h) /\ req' \in [Handlers -> Req] /\ req'[h] = Idle
    BY Ends DEF StoreNewVersion, IInv
  <1>8. TypeOK' /\ MetaxIdents' /\ IdsMinted' /\ AnswersIdentified'
    BY <1>1, <1>6, <1>7
    DEF StoreNewVersion, IInv, TypeOK, MetaxTypeOK, MetaxIdents, IdsMinted,
        AnswersIdentified, Others, Idle, metaxVars
  <1>9. /\ Claimed(h)' = None /\ Pending(h)' = None
        /\ \A k \in Handlers \ {h} : /\ Claimed(k)' = Claimed(k) /\ Pending(k)' = Pending(k)
                                     /\ req'[k].id = req[k].id
    BY <1>7 DEF Claimed, Pending, Idle, Others
  <1>10. UniqueIdentifiers'
    BY <1>2, <1>3, <1>5, <1>6 DEF IInv, ClaimsDisjoint, UniqueIdentifiers, Identified
  <1>11. ClaimsFromMetax'
    <2>1. metax' = metax /\ ClaimsFromMetax
      BY DEF StoreNewVersion, metaxVars, IInv
    <2>2. i \in DOMAIN metax
      BY <1>3, <2>1 DEF ClaimsFromMetax
    <2> HIDE DEF i, row
    <2> QED BY <1>5, <1>6, <1>9, <2>1, <2>2 DEF ClaimsFromMetax
  <1>12. ClaimsDisjoint'
    BY <1>3, <1>5, <1>6, <1>9 DEF IInv, ClaimsDisjoint
  <1> QED BY <1>6, <1>8, <1>10, <1>11, <1>12 DEF IInv

\* The backend stops: every claim is dropped.
LEMMA CrashKeeps ==
    ASSUME IInv, Crash
    PROVE  IInv'
  <1>1. req' = [h \in Handlers |-> Idle] /\ Idle \in Req
    BY DEF Crash, Idle, Req, PCs, NoBlob, Blob
  <1>2. \A h \in Handlers : Outstanding(h) \subseteq Call
    BY DEF Outstanding, Call, IInv, TypeOK, Req, At
  <1>3. late' \subseteq Call
    BY <1>2 DEF Crash, LeftBehind, IInv, TypeOK
  <1>4. TypeOK' /\ MetaxIdents'
    BY <1>1, <1>3 DEF Crash, IInv, TypeOK, MetaxTypeOK, IsTable, MetaxIdents, metaxVars
  <1>5. \A h \in Handlers : Claimed(h)' = None /\ Pending(h)' = None
    BY <1>1 DEF Claimed, Pending, Idle
  <1>6. ClaimsFromMetax' /\ ClaimsDisjoint' /\ IdsMinted' /\ AnswersIdentified'
    BY <1>1, <1>5 DEF Crash, Idle, IInv, ClaimsFromMetax, ClaimsDisjoint, IdsMinted,
                      AnswersIdentified, metaxVars
  <1>7. UniqueIdentifiers' /\ PublishedIffIdentified'
    BY DEF Crash, IInv, UniqueIdentifiers, PublishedIffIdentified, Identified
  <1> QED BY <1>4, <1>6, <1>7 DEF IInv

LEMMA StutterKeeps ==
    ASSUME IInv, UNCHANGED vars
    PROVE  IInv'
  <1>1. MetaxKept
    BY DEF MetaxKept, MetaxTypeOK, MetaxIdents, IInv, TypeOK, vars
  <1> QED BY <1>1, OutsideStepKeeps DEF vars

-----------------------------------------------------------------------------
(* The invariant holds in every behaviour.                                 *)

LEMMA InitIInv ==
    ASSUME Init
    PROVE  IInv
  <1>1. MetaxTypeOK /\ MetaxIdents
    BY ClockAssumption DEF Init, MetaxInit, MetaxTypeOK, MetaxIdents
  <1>2. Idle \in Req
    BY DEF Idle, Req, PCs, NoBlob, Blob
  <1>3. TypeOK
    BY <1>1, <1>2 DEF Init, TypeOK, IsTable
  <1>4. \A h \in Handlers : Claimed(h) = None /\ Pending(h) = None
    BY DEF Init, Claimed, Pending, Idle
  <1>5. ClaimsFromMetax /\ ClaimsDisjoint /\ IdsMinted /\ AnswersIdentified
    BY <1>4 DEF Init, Idle, ClaimsFromMetax, ClaimsDisjoint, IdsMinted, AnswersIdentified
  <1>6. UniqueIdentifiers /\ PublishedIffIdentified
    BY DEF Init, UniqueIdentifiers, PublishedIffIdentified
  <1> QED BY <1>1, <1>3, <1>5, <1>6 DEF IInv

LEMMA NextIInv ==
    ASSUME IInv, [Next]_vars
    PROVE  IInv'
  <1>1. ASSUME NEW h \in Handlers, HandlerStep(h)
        PROVE  IInv'
    <2>1. CASE RejectRequest(h)
      BY <2>1, StutterKeeps DEF RejectRequest
    <2>2. CASE CreateDataset(h)
      BY <2>2, CreateDatasetKeeps
    <2>3. CASE ValidateUpdate(h) \/ SmartUpdateWithOwner(h)
      BY <2>3, ValidateUpdateKeeps, SmartUpdateKeeps
    <2>4. CASE GetForPublish(h) \/ StoreCreated(h) \/ StoreUpdated(h) \/ StoreMadeVersion(h)
      BY <2>4, GetForPublishKeeps, StoreCreatedKeeps, StoreUpdatedKeeps, StoreMadeVersionKeeps
    <2>5. CASE StorePublished(h) \/ GetNewVersion(h) \/ StoreNewVersion(h)
      BY <2>5, StorePublishedKeeps, GetNewVersionKeeps, StoreNewVersionKeeps
    <2>6. CASE GetForDelete(h) \/ GetForUnpublish(h) \/ DeleteInMetax(h) \/ Delete(h)
      BY <2>6, GetForDeleteKeeps, GetForUnpublishKeeps, DeleteInMetaxKeeps, DeleteKeeps
    <2> QED BY <1>1, <2>1, <2>2, <2>3, <2>4, <2>5, <2>6 DEF HandlerStep
  <1>2. ASSUME NEW h \in Handlers, Fail(h)
        PROVE  IInv'
    BY <1>2, FailKeeps
  <1>3. CASE Crash
    BY <1>3, CrashKeeps
  <1>4. ASSUME NEW c \in late, LateCall(c)
        PROVE  IInv'
    BY <1>4, LateCallKeeps
  <1>5. CASE EditInMetax
    BY <1>5, EditInMetaxKeeps
  <1>6. CASE UNCHANGED vars
    BY <1>6, StutterKeeps
  <1> QED BY <1>1, <1>2, <1>3, <1>4, <1>5, <1>6 DEF Next

(* The inductive invariant of the request handlers.                        *)
THEOREM Invariance == Spec => []IInv
  <1>1. Init => IInv
    BY InitIInv
  <1>2. IInv /\ [Next]_vars => IInv'
    BY NextIInv
  <1> QED BY <1>1, <1>2, PTL DEF Spec

(* Type correctness of the request handlers, whatever overlaps and fails.  *)
THEOREM TypeCorrect == Spec => []TypeOK
  <1>1. IInv => TypeOK
    BY DEF IInv
  <1> QED BY <1>1, Invariance, PTL

(* However many requests publish, version, edit and delete datasets at the *)
(* same time, and whatever calls get lost or late, StorePublished and      *)
(* StoreNewVersion never give two rows the same Metax identifier.          *)
THEOREM IdentifiersAreUnique == Spec => []UniqueIdentifiers
  <1>1. IInv => UniqueIdentifiers
    BY DEF IInv
  <1> QED BY <1>1, Invariance, PTL

(* A row is marked published exactly if it has a Metax identifier: the two *)
(* tests by which the code tells published datasets never disagree.        *)
THEOREM PublishedRowsAreIdentified == Spec => []PublishedIffIdentified
  <1>1. IInv => PublishedIffIdentified
    BY DEF IInv
  <1> QED BY <1>1, Invariance, PTL

-----------------------------------------------------------------------------
(* What Metax has, over time: it changes a dataset only while it is not    *)
(* removed, and stamps every change with a date later than any before.     *)

Gone(i) == i \in DOMAIN metax /\ metax[i].removed

Dated == \A i \in DOMAIN metax : metax[i].blob.date <= clock

MetaxMoves ==
    /\ clock' \in Nat /\ clock <= clock'
    /\ \A i \in DOMAIN metax :
          /\ i \in DOMAIN metax'
          /\ metax'[i] = metax[i] \/ (~metax[i].removed /\ clock < metax'[i].blob.date)
    /\ \A i \in DOMAIN metax' :
          \/ i \in DOMAIN metax /\ metax'[i] = metax[i]
          \/ metax'[i].blob.date <= clock'

LEMMA StampedWrite ==
    ASSUME MetaxTypeOK, Tick, NEW i, ~Gone(i), NEW rec, rec.blob.date = clock + 1,
           metax' = With(metax, i, rec)
    PROVE  MetaxMoves
  <1>1. clock \in Nat /\ clock' = clock + 1
    BY DEF MetaxTypeOK, Tick
  <1>2. /\ DOMAIN metax' = DOMAIN metax \cup {i} /\ metax'[i] = rec
        /\ \A k \in DOMAIN metax \ {i} : metax'[k] = metax[k]
    BY DEF With
  <1> QED BY <1>1, <1>2 DEF MetaxMoves, Gone

\* What Metax stores is dated now.
LEMMA StoredDate ==
    ASSUME NEW i, NEW blob \in Blob
    PROVE  Stored(i, blob).blob.date = clock + 1
  BY DEF Stored, Blob

LEMMA PostMoves ==
    ASSUME MetaxTypeOK, NEW i, NEW blob \in Blob, Post(i, blob)
    PROVE  MetaxMoves
  BY StampedWrite, StoredDate DEF Post, Gone

LEMMA PutMoves ==
    ASSUME MetaxTypeOK, NEW blob \in Blob, PutDataset(blob)
    PROVE  MetaxMoves
  BY StampedWrite, StoredDate DEF PutDataset, Gone, Live

LEMMA PutVersionMoves ==
    ASSUME MetaxTypeOK, NEW n, NEW blob \in Blob, PutNewVersion(blob, n)
    PROVE  MetaxMoves
  <1> DEFINE version == [blob EXCEPT !.rec = None]
             first   == Stored(blob.ident, blob)
             second  == Stored(n, version)
  <1>1. clock \in Nat /\ clock' = clock + 1 /\ Live(blob.ident) /\ n \notin DOMAIN metax
    BY DEF MetaxTypeOK, PutNewVersion, Tick
  <1>2. first.blob.date = clock + 1
    BY StoredDate
  <1>3. second.blob.date = clock + 1
    <2>1. version \in Blob
      BY DEF Blob
    <2> QED BY <2>1, StoredDate
  <1>4. metax' = With(With(metax, blob.ident, first), n, second)
    BY DEF PutNewVersion
  <1> HIDE DEF version, first, second
  <1>5. /\ DOMAIN metax' = DOMAIN metax \cup {blob.ident, n}
        /\ metax'[n] = second /\ (blob.ident # n => metax'[blob.ident] = first)
        /\ \A k \in DOMAIN metax \ {blob.ident, n} : metax'[k] = metax[k]
    BY <1>4 DEF With
  <1> QED BY <1>1, <1>2, <1>3, <1>5 DEF MetaxMoves, Live

LEMMA RemoveMoves ==
    ASSUME MetaxTypeOK, NEW i, RemoveDataset(i)
    PROVE  MetaxMoves /\ Gone(i)'
  <1> DEFINE rec == [blob |-> [metax[i].blob EXCEPT !.date = clock + 1], removed |-> TRUE]
  <1>1. Live(i) /\ Tick /\ metax' = With(metax, i, rec) /\ metax[i].blob \in Blob
    BY DEF RemoveDataset, Live, MetaxTypeOK, MetaxRecord
  <1>2. rec.blob.date = clock + 1 /\ rec.removed
    BY <1>1 DEF Blob
  <1> HIDE DEF rec
  <1>3. MetaxMoves
    BY <1>1, <1>2, StampedWrite DEF Gone, Live
  <1>4. i \in DOMAIN metax' /\ metax'[i] = rec
    BY <1>1 DEF With
  <1> QED BY <1>2, <1>3, <1>4 DEF Gone

LEMMA EditMoves ==
    ASSUME MetaxTypeOK, NEW i, NEW rd \in Contents, ForeignEdit(i, rd)
    PROVE  MetaxMoves
  <1> DEFINE doc == [metax[i].blob EXCEPT !.rd = rd]
  <1>1. Live(i) /\ Tick /\ metax' = With(metax, i, Stored(i, doc)) /\ metax[i].blob \in Blob
    BY DEF ForeignEdit, Live, MetaxTypeOK, MetaxRecord
  <1>2. doc \in Blob
    BY <1>1 DEF Blob
  <1> HIDE DEF doc
  <1> QED BY <1>1, <1>2, StampedWrite, StoredDate DEF Gone, Live

LEMMA MetaxStays ==
    ASSUME MetaxTypeOK, UNCHANGED metaxVars
    PROVE  MetaxMoves
  BY DEF MetaxMoves, metaxVars, MetaxTypeOK

\* What is removed stays removed, and dates stay behind the clock.
LEMMA MovesKeep ==
    ASSUME MetaxTypeOK, MetaxMoves
    PROVE  /\ Dated => Dated'
           /\ \A i : Gone(i) => Gone(i)'
  <1>1. \A i \in DOMAIN metax : metax[i].blob.date \in Nat
    BY DEF MetaxTypeOK, MetaxRecord, Blob
  <1>2. clock \in Nat
    BY DEF MetaxTypeOK
  <1> QED BY <1>1, <1>2 DEF MetaxMoves, Dated, Gone

\* Metax moves on in every step.
LEMMA NextMoves ==
    ASSUME IInv, [Next]_vars
    PROVE  MetaxMoves
  <1> MetaxTypeOK /\ \A h \in Handlers : req[h].blob \in Blob
    BY DEF IInv, TypeOK, Req
  <1>1. ASSUME NEW h \in Handlers, HandlerStep(h)
        PROVE  MetaxMoves
    <2>1. CASE StoreCreated(h) \/ StoreUpdated(h) \/ StoreMadeVersion(h)
      BY <2>1, PostMoves, PutMoves, PutVersionMoves DEF StoreCreated, StoreUpdated, StoreMadeVersion
    <2>2. CASE DeleteInMetax(h)
      BY <2>2, RemoveMoves DEF DeleteInMetax
    <2>3. CASE UNCHANGED metaxVars
      BY <2>3, MetaxStays
    <2> QED BY <1>1, <2>1, <2>2, <2>3
            DEF HandlerStep, RejectRequest, vars, metaxVars, CreateDataset, ValidateUpdate,
                SmartUpdateWithOwner, GetForPublish, StorePublished, GetNewVersion,
                StoreNewVersion, GetForDelete, GetForUnpublish, Delete
  <1>2. ASSUME NEW h \in Handlers, Fail(h)
        PROVE  MetaxMoves
    BY <1>2, MetaxStays DEF Fail
  <1>3. CASE Crash
    BY <1>3, MetaxStays DEF Crash
  <1>4. ASSUME NEW c \in late, LateCall(c)
        PROVE  MetaxMoves
    <2>1. c.blob \in Blob
      BY DEF IInv, TypeOK, Call
    <2> QED BY <1>4, <2>1, PostMoves, PutMoves, PutVersionMoves, RemoveMoves DEF LateCall
  <1>5. CASE EditInMetax
    BY <1>5, EditMoves DEF EditInMetax
  <1>6. CASE UNCHANGED vars
    BY <1>6, MetaxStays DEF vars, metaxVars
  <1> QED BY <1>1, <1>2, <1>3, <1>4, <1>5, <1>6 DEF Next

-----------------------------------------------------------------------------
(* What a row not edited since says about Metax.  Its document is one that *)
(* Metax had and the row's synced time is that document's date, so the row *)
(* is behind Metax exactly if its time is.                                 *)

\* A document Metax had, and has unless it changed the dataset since.
Snapshot(b) ==
    /\ b.ident \in DOMAIN metax
    /\ b.date <= metax[b.ident].blob.date
    /\ b.date = metax[b.ident].blob.date => b = metax[b.ident].blob

SnapInv ==
    /\ Dated
    /\ \A id \in DOMAIN db : Identified(db[id]) /\ id \notin edited =>
          Snapshot(db[id].blob) /\ db[id].synced = db[id].blob.date
    /\ \A h \in Handlers : req[h].pc \in {"stored", "landing"} => Snapshot(req[h].blob)

LEMMA SnapshotKept ==
    ASSUME MetaxTypeOK, MetaxTypeOK', Dated, MetaxMoves, NEW b \in Blob, Snapshot(b)
    PROVE  Snapshot(b)'
  <1>1. b.ident \in DOMAIN metax /\ b.ident \in DOMAIN metax' /\ b.date \in Nat /\ clock \in Nat
    BY DEF MetaxTypeOK, Snapshot, MetaxMoves, Blob
  <1>2. metax[b.ident].blob.date \in Nat /\ metax'[b.ident].blob.date \in Nat
    BY <1>1 DEF MetaxTypeOK, MetaxRecord, Blob
  <1> QED BY <1>1, <1>2 DEF Snapshot, Dated, MetaxMoves

\* What Metax answers with is a document it has.
LEMMA AnswerIsSnapshot ==
    ASSUME MetaxTypeOK', MetaxIdents', NEW i, i \in DOMAIN metax'
    PROVE  Snapshot(metax[i].blob)'
  BY DEF MetaxTypeOK, MetaxRecord, Blob, MetaxIdents, Snapshot

\* A step accounts for the rows it writes and the documents requests receive.
LEMMA SnapStep ==
    ASSUME IInv, IInv', SnapInv, MetaxMoves,
           \A id \in DOMAIN db' :
              \/ ~Identified(db[id])' \/ id \in edited'
              \/ id \in DOMAIN db /\ id \notin edited /\ db'[id] = db[id]
              \/ Snapshot(db[id].blob)' /\ db'[id].synced = db'[id].blob.date,
           \A h \in Handlers : \/ req'[h].pc \notin {"stored", "landing"}
                               \/ req'[h] = req[h]
                               \/ Snapshot(req[h].blob)'
    PROVE  SnapInv'
  <1>1. MetaxTypeOK /\ MetaxTypeOK' /\ Dated /\ Dated'
    BY MovesKeep DEF IInv, TypeOK, SnapInv
  <1>2. ASSUME NEW id \in DOMAIN db', Identified(db[id])', id \notin edited'
        PROVE  Snapshot(db[id].blob)' /\ db'[id].synced = db'[id].blob.date
    <2>1. CASE id \in DOMAIN db /\ id \notin edited /\ db'[id] = db[id]
      <3>1. db[id].blob \in Blob /\ Snapshot(db[id].blob) /\ db[id].synced = db[id].blob.date
        BY <1>2, <2>1 DEF IInv, TypeOK, IsTable, Row, SnapInv, Identified
      <3>2. Snapshot(db[id].blob)'
        BY <1>1, <2>1, <3>1, SnapshotKept DEF Snapshot
      <3> QED BY <2>1, <3>1, <3>2
    <2> QED BY <1>2, <2>1
  <1>3. ASSUME NEW h \in Handlers, req'[h].pc \in {"stored", "landing"}
        PROVE  Snapshot(req[h].blob)'
    <2>1. CASE req'[h] = req[h]
      <3>1. req[h].blob \in Blob /\ Snapshot(req[h].blob)
        BY <1>3, <2>1 DEF IInv, TypeOK, Req, SnapInv
      <3> QED BY <1>1, <2>1, <3>1, SnapshotKept DEF Snapshot
    <2> QED BY <1>3, <2>1
  <1> QED BY <1>1, <1>2, <1>3 DEF SnapInv

LEMMA SnapHandlerStep ==
    ASSUME IInv, IInv', SnapInv, MetaxMoves, NEW h \in Handlers, HandlerStep(h)
    PROVE  SnapInv'
  <1> USE DEF IInv
  <1>1. CASE CreateDataset(h)
    <2>1. PICK user \in Users, id \in NewIds \ minted, rd \in Contents, cum \in Cums \cup {None},
               provider \in Users, rec \in Ids :
            db' = With(db, id, NewRow(user, CreateData(rec, provider, rd, cum)))
      BY <1>1, SomeTemplate
    <2>2. id \in Ids
      BY PublishAssumption
    <2>3. ~Identified(db[id])' /\ \A a \in DOMAIN db' \ {id} : a \in DOMAIN db /\ db'[a] = db[a]
      BY <2>1, <2>2, InputBlobs DEF With, NewRow, Identified
    <2> QED BY <1>1, <2>3, SnapStep DEF CreateDataset
  <1>2. CASE SmartUpdateWithOwner(h)
    <2>1. \A a \in DOMAIN db' \ {req[h].id} : a \in DOMAIN db /\ db'[a] = db[a]
      BY <1>2 DEF SmartUpdateWithOwner, With
    <2>2. \A k \in Handlers : req'[k] = req[k] \/ req'[k].pc = "idle"
      BY <1>2, Ends DEF SmartUpdateWithOwner, Others, Idle
    <2> QED BY <1>2, <2>1, <2>2, SnapStep DEF SmartUpdateWithOwner
  <1>3. CASE StorePublished(h)
    <2> DEFINE id == req[h].id
    <2>1. /\ id \in DOMAIN db' /\ db'[id].blob = req[h].blob /\ db'[id].synced = req[h].blob.date
          /\ \A a \in DOMAIN db' \ {id} : a \in DOMAIN db /\ db'[a] = db[a]
      <3>1. id \in DOMAIN db /\ db[id] \in Row
        BY <1>3 DEF StorePublished, TypeOK, IsTable
      <3>2. db' = With(db, id, PublishedRow(db[id], req[h].blob, req[h].blob.date))
        BY <1>3 DEF StorePublished
      <3>3. /\ id \in DOMAIN db' /\ db'[id] = PublishedRow(db[id], req[h].blob, req[h].blob.date)
            /\ \A a \in DOMAIN db' \ {id} : a \in DOMAIN db /\ db'[a] = db[a]
        BY <3>2 DEF With
      <3> QED BY <3>1, <3>3 DEF PublishedRow, Row
    <2>2. Snapshot(req[h].blob)
      BY <1>3 DEF StorePublished, At, SnapInv
    <2>3. \A a \in DOMAIN db' : db'[a].blob = req[h].blob => Snapshot(db[a].blob)'
      BY <1>3, <2>2 DEF StorePublished, metaxVars, Snapshot
    <2>4. \A k \in Handlers : req'[k] = req[k] \/ req'[k].pc \in {"idle", "getting"}
      <3>1. CASE req[h].new = None
        BY <1>3, <3>1, Ends DEF StorePublished, Others, Idle
      <3>2. CASE req[h].new # None
        BY <1>3, <3>2, Goes DEF StorePublished, Others, PCs
      <3> QED BY <3>1, <3>2
    <2>5. edited' = edited \ {id}
      BY <1>3 DEF StorePublished
    <2>6. \A a \in DOMAIN db' :
            \/ a \in edited' \/ (a \in DOMAIN db /\ a \notin edited /\ db'[a] = db[a])
            \/ Snapshot(db[a].blob)' /\ db'[a].synced = db'[a].blob.date
      BY <2>1, <2>3, <2>5
    <2> HIDE DEF id
    <2> QED BY <2>4, <2>6, SnapStep
  <1>4. CASE StoreNewVersion(h)
    <2>1. PICK id \in Ids \ minted :
            db' = With(db, id, NewVersionRow(db[req[h].id], req[h].blob, req[h].blob.date))
      BY <1>4 DEF StoreNewVersion
    <2>2. /\ db'[id].blob = req[h].blob /\ db'[id].synced = req[h].blob.date
          /\ \A a \in DOMAIN db' \ {id} : a \in DOMAIN db /\ db'[a] = db[a]
      BY <2>1 DEF With, NewVersionRow
    <2>3. Snapshot(req[h].blob)
      BY <1>4 DEF StoreNewVersion, At, SnapInv
    <2>4. Snapshot(db[id].blob)'
      BY <1>4, <2>2, <2>3 DEF StoreNewVersion, metaxVars, Snapshot
    <2>5. \A k \in Handlers : req'[k] = req[k] \/ req'[k].pc = "idle"
      BY <1>4, Ends DEF StoreNewVersion, Others, Idle
    <2> QED BY <1>4, <2>2, <2>4, <2>5, SnapStep DEF StoreNewVersion
  <1>5. CASE Delete(h)
    <2>1. DOMAIN db' = DOMAIN db \ {req[h].id} /\ \A a \in DOMAIN db' : db'[a] = db[a]
      BY <1>5 DEF Delete, Without
    <2>2. \A k \in Handlers : req'[k] = req[k] \/ req'[k].pc = "idle"
      BY <1>5, Ends DEF Delete, Others, Idle
    <2> QED BY <1>5, <2>1, <2>2, SnapStep DEF Delete
  <1>6. ASSUME UNCHANGED <<db, edited>>,
               \A k \in Handlers : \/ req'[k].pc \notin {"stored", "landing"}
                                   \/ req'[k] = req[k] \/ Snapshot(req[k].blob)'
        PROVE  SnapInv'
    BY <1>6, SnapStep
  <1>7. CASE StoreCreated(h) \/ StoreUpdated(h) \/ StoreMadeVersion(h)
    <2>1. PICK i, new : i \in DOMAIN metax' /\ Answered(h, "stored", metax'[i].blob, new)
      <3>1. CASE StoreCreated(h)
        BY <3>1 DEF StoreCreated, Post, With
      <3>2. CASE StoreUpdated(h)
        BY <3>2 DEF StoreUpdated, PutDataset, With
      <3>3. CASE StoreMadeVersion(h)
        BY <3>3 DEF StoreMadeVersion, PutNewVersion, With
      <3> QED BY <1>7, <3>1, <3>2, <3>3
    <2>2. Snapshot(metax[i].blob)'
      BY <2>1, AnswerIsSnapshot DEF TypeOK
    <2>3. /\ \A k \in Handlers \ {h} : req'[k] = req[k]
          /\ req'[h].blob = metax'[i].blob
      BY <2>1 DEF Answered, TypeOK, Req
    <2>4. Snapshot(req[h].blob)'
      BY <2>2, <2>3 DEF Snapshot
    <2> QED BY <1>6, <1>7, <2>3, <2>4 DEF StoreCreated, StoreUpdated, StoreMadeVersion
  <1>8. CASE GetNewVersion(h)
    <2> DEFINE n == req[h].new
    <2>1. n \in DOMAIN metax' /\ metax' = metax
      BY <1>8 DEF GetNewVersion, Live, metaxVars
    <2>2. metax[n].blob.ident = n /\ metax[n].blob.date \in Nat
      BY <2>1 DEF TypeOK, MetaxIdents, MetaxTypeOK, MetaxRecord, Blob
    <2>3. /\ \A k \in Handlers \ {h} : req'[k] = req[k]
          /\ req'[h].blob = metax[n].blob
      BY <1>8 DEF GetNewVersion, Answered, TypeOK, Req
    <2>4. Snapshot(req[h].blob)'
      BY <2>1, <2>2, <2>3 DEF Snapshot
    <2> QED BY <1>6, <1>8, <2>3, <2>4 DEF GetNewVersion
  <1>9. CASE ValidateUpdate(h) \/ GetForPublish(h) \/ GetForDelete(h) \/ GetForUnpublish(h)
             \/ DeleteInMetax(h) \/ RejectRequest(h)
    <2>1. UNCHANGED <<db, edited>>
      BY <1>9 DEF ValidateUpdate, GetForPublish, GetForDelete, GetForUnpublish, DeleteInMetax,
                  RejectRequest, vars
    <2>2. \A k \in Handlers : req'[k] = req[k] \/ req'[k].pc \notin {"stored", "landing"}
      BY <1>9 DEF ValidateUpdate, GetForPublish, GetForDelete, GetForUnpublish, DeleteInMetax,
                  RejectRequest, vars, Begin, Answered, Goto, TypeOK, Req
    <2> QED BY <1>6, <2>1, <2>2
  <1> QED BY <1>1, <1>2, <1>3, <1>4, <1>5, <1>7, <1>8, <1>9 DEF HandlerStep

LEMMA NextSnap ==
    ASSUME IInv, IInv', SnapInv, [Next]_vars
    PROVE  SnapInv'
  <1>1. MetaxMoves
    BY NextMoves
  <1>2. ASSUME NEW h \in Handlers, HandlerStep(h)
        PROVE  SnapInv'
    BY <1>1, <1>2, SnapHandlerStep
  <1>3. CASE ~\E h \in Handlers : HandlerStep(h)
    <2>1. UNCHANGED <<db, edited>>
      BY <1>3 DEF Next, Fail, Crash, LateCall, EditInMetax, vars
    <2>2. \A k \in Handlers : req'[k] = req[k] \/ req'[k].pc = "idle"
      BY <1>3 DEF Next, Fail, Crash, LateCall, EditInMetax, vars, End, Idle, IInv, TypeOK
    <2> QED BY <1>1, <2>1, <2>2, SnapStep
  <1> QED BY <1>2, <1>3

(* A row that is not older than its dataset in Metax, by the times that    *)
(* syncRecord compares, has Metax's document, whatever requests overlap,   *)
(* fail and are late, unless the user edited it since: skipping the record *)
(* loses nothing.                                                          *)
THEOREM SkippingIsSound == Spec => []SkipCheckSound
  <1>1. Init => SnapInv
    BY DEF Init, MetaxInit, SnapInv, Dated, Idle
  <1>2. IInv /\ IInv' /\ SnapInv /\ [Next]_vars => SnapInv'
    BY NextSnap
  <1>3. IInv /\ SnapInv => SkipCheckSound
    <2> SUFFICES ASSUME IInv, SnapInv, NEW id \in DOMAIN db, Identified(db[id]),
                        id \notin edited, Live(db[id].blob.ident),
                        db[id].synced >= metax[db[id].blob.ident].blob.date
                 PROVE  db[id].blob = metax[db[id].blob.ident].blob
      BY DEF SkipCheckSound
    <2>1. db[id].blob.date \in Nat /\ metax[db[id].blob.ident].blob.date \in Nat
      BY DEF IInv, TypeOK, IsTable, Row, Blob, MetaxTypeOK, MetaxRecord, Live
    <2> QED BY <2>1 DEF SnapInv, Snapshot
  <1> QED BY <1>1, <1>2, <1>3, Invariance, PTL DEF Spec

-----------------------------------------------------------------------------
(* A delete that saw its dataset published has removed it from Metax for   *)
(* good when it comes to the row.                                          *)

UnlistedFirst ==
    \A h \in Handlers : At(h, "deleting") /\ req[h].blob.ident # None => Gone(req[h].blob.ident)

LEMMA NextUnlisted ==
    ASSUME IInv, UnlistedFirst, [Next]_vars
    PROVE  UnlistedFirst'
  <1> USE DEF IInv
  <1>1. \A i : Gone(i) => Gone(i)'
    BY NextMoves, MovesKeep DEF TypeOK
  <1>2. ASSUME NEW h \in Handlers, req'[h] = req[h], At(h, "deleting")', req'[h].blob.ident # None
        PROVE  Gone(req[h].blob.ident)'
    BY <1>1, <1>2 DEF UnlistedFirst, At, Gone
  <1>3. ASSUME NEW h \in Handlers, HandlerStep(h)
        PROVE  \/ ~At(h, "deleting")' \/ req'[h].blob.ident = None \/ req'[h] = req[h]
               \/ Gone(req[h].blob.ident)'
    <2>1. CASE DeleteInMetax(h)
      <3>1. Gone(req[h].blob.ident)' /\ req'[h].blob = req[h].blob
        BY <2>1, RemoveMoves, Goes DEF DeleteInMetax, TypeOK, PCs, Gone
      <3> QED BY <3>1 DEF Gone
    <2>2. CASE GetForDelete(h)
      BY <2>2 DEF GetForDelete, Begin, TypeOK, NoBlob
    <2>3. CASE StorePublished(h)
      BY <2>3 DEF StorePublished, Goto, End, Idle, At, TypeOK, Req
    <2>4. CASE RejectRequest(h) \/ CreateDataset(h)
      BY <2>4 DEF RejectRequest, vars, CreateDataset
    <2>5. CASE ValidateUpdate(h) \/ GetForPublish(h)
      BY <2>5 DEF ValidateUpdate, GetForPublish, Begin, At, TypeOK
    <2>6. CASE StoreCreated(h) \/ StoreUpdated(h) \/ StoreMadeVersion(h) \/ GetNewVersion(h)
                 \/ GetForUnpublish(h)
      <3>1. PICK pc \in {"stored", "landing", "removing"} : \E b, n : Answered(h, pc, b, n)
        BY <2>6 DEF StoreCreated, StoreUpdated, StoreMadeVersion, GetNewVersion, GetForUnpublish
      <3>2. req'[h].pc = pc
        BY <3>1 DEF Answered, TypeOK, Req
      <3> QED BY <3>2 DEF At
    <2>7. CASE SmartUpdateWithOwner(h) \/ StoreNewVersion(h) \/ Delete(h)
      BY <2>7 DEF SmartUpdateWithOwner, StoreNewVersion, Delete, End, Idle, At, TypeOK
    <2> QED BY <1>3, <2>1, <2>2, <2>3, <2>4, <2>5, <2>6, <2>7 DEF HandlerStep
  <1>4. ASSUME NEW h \in Handlers, NEW k \in Handlers, HandlerStep(h), k # h
        PROVE  req'[k] = req[k]
    BY <1>4 DEF HandlerStep, RejectRequest, vars, CreateDataset, ValidateUpdate,
          SmartUpdateWithOwner, GetForPublish, StoreCreated, StoreUpdated, StoreMadeVersion,
          StorePublished, GetNewVersion, StoreNewVersion, GetForDelete, GetForUnpublish,
          DeleteInMetax, Delete, Begin, Answered, Goto, End, TypeOK
  <1>5. CASE ~\E h \in Handlers : HandlerStep(h)
    <2>1. \A k \in Handlers : req'[k] = req[k] \/ req'[k].pc = "idle"
      BY <1>5 DEF Next, Fail, Crash, LateCall, EditInMetax, vars, End, Idle, TypeOK
    <2> QED BY <1>2, <2>1 DEF UnlistedFirst, At
  <1> QED BY <1>2, <1>3, <1>4, <1>5 DEF UnlistedFirst, At

(* A delete takes a row it saw published out of the table only when its    *)
(* dataset is removed from Metax, and no delayed PUT brings it back.       *)
THEOREM DeletesUnlistFirst == Spec => DeletedOnlyUnlisted
  <1>1. Init => UnlistedFirst
    BY DEF Init, Idle, At, UnlistedFirst
  <1>2. IInv /\ UnlistedFirst /\ [Next]_vars => UnlistedFirst'
    BY NextUnlisted
  <1>3. UnlistedFirst => \A h \in Handlers :
            At(h, "deleting") /\ Identified([blob |-> req[h].blob])
                /\ req[h].id \in DOMAIN db \ DOMAIN db' => ~Live(req[h].blob.ident)
    BY DEF UnlistedFirst, Identified, Gone, Live
  <1> QED BY <1>1, <1>2, <1>3, Invariance, PTL DEF Spec, DeletedOnlyUnlisted
===============================================================================
