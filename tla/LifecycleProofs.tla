--------------------------- MODULE LifecycleProofs ---------------------------
(***************************************************************************)
(* What becomes of a dataset, for any values of the constants.  First,     *)
(* that the request handlers of Publish implement Lifecycle: every step is *)
(* a step of Lifecycle or leaves the state and the identifier of every     *)
(* dataset alone.  Then what holds of a row from the start of a request to *)
(* its end, and of the table and Metax, when requests are served one at a  *)
(* time.                                                                   *)
(***************************************************************************)
EXTENDS PublishProofs

\* A step that changes the mapped state of one dataset only.
LEMMA OneBecomes ==
    ASSUME NEW id \in Ids, NEW from, NEW to, NEW i,
           stateBar[id] \in from, stateBar'[id] = to, identBar'[id] = i,
           \A a \in Ids \ {id} : stateBar'[a] = stateBar[a] /\ identBar'[a] = identBar[a]
    PROVE  L!Become(id, from, to, i)
  <1>1. stateBar' = [stateBar EXCEPT ![id] = to]
    BY DEF stateBar
  <1>2. identBar' = [identBar EXCEPT ![id] = i]
    BY DEF identBar
  <1> QED BY <1>1, <1>2 DEF L!Become

\* The mapped state of a dataset.
LEMMA Mapped ==
    ASSUME NEW id \in Ids
    PROVE  /\ id \in DOMAIN db => /\ db[id].published => stateBar[id] = "published"
                                  /\ ~db[id].published => stateBar[id] = "draft"
                                  /\ identBar[id] = db[id].blob.ident
           /\ id \notin DOMAIN db => /\ id \in minted => stateBar[id] = "deleted"
                                     /\ id \notin minted => stateBar[id] = "unused"
                                     /\ identBar[id] = None
  BY DEF stateBar, identBar

\* The same, of the next state.
LEMMA MappedNext ==
    ASSUME NEW id \in Ids
    PROVE  /\ id \in DOMAIN db' => /\ db'[id].published => stateBar'[id] = "published"
                                   /\ ~db'[id].published => stateBar'[id] = "draft"
                                   /\ identBar'[id] = db'[id].blob.ident
           /\ id \notin DOMAIN db' => /\ id \in minted' => stateBar'[id] = "deleted"
                                      /\ id \notin minted' => stateBar'[id] = "unused"
                                      /\ identBar'[id] = None
  BY DEF stateBar, identBar

\* Datasets whose row and id a step leaves alone keep their mapped state.
LEMMA UntouchedMapped ==
    ASSUME NEW a \in Ids, a \in DOMAIN db' <=> a \in DOMAIN db,
           a \in DOMAIN db => db'[a] = db[a], a \in minted' <=> a \in minted
    PROVE  stateBar'[a] = stateBar[a] /\ identBar'[a] = identBar[a]
  BY DEF stateBar, identBar

\* No other dataset has an identifier that neither its row nor a row has.
LEMMA IsFree ==
    ASSUME NEW id \in Ids, NEW i, i # None,
           \A a \in DOMAIN db \ {id} : db[a].blob.ident # i
    PROVE  L!FreeFor(id, i)
  BY DEF L!FreeFor, identBar

LEMMA CreateIsDraft ==
    ASSUME IInv, NEW h \in Handlers, CreateDataset(h)
    PROVE  L!LifecycleNext
  <1>1. PICK user \in Users, id \in NewIds \ minted, rd \in Contents, cum \in Cums \cup {None},
             provider \in Users, rec \in Ids :
          /\ db' = With(db, id, NewRow(user, CreateData(rec, provider, rd, cum)))
          /\ minted' = minted \cup {id}
    BY SomeTemplate
  <1>2. id \in Ids /\ id \notin DOMAIN db /\ id \notin minted
    BY <1>1, PublishAssumption DEF IInv, IdsMinted
  <1>3. /\ DOMAIN db' = DOMAIN db \cup {id}
        /\ ~db'[id].published /\ db'[id].blob.ident = None
        /\ \A a \in DOMAIN db \ {id} : db'[a] = db[a]
    BY <1>1, <1>2, InputBlobs DEF With, NewRow
  <1>4. stateBar[id] = "unused" /\ stateBar'[id] = "draft" /\ identBar'[id] = None
    BY <1>2, <1>3, Mapped, MappedNext
  <1>5. \A a \in Ids \ {id} : stateBar'[a] = stateBar[a] /\ identBar'[a] = identBar[a]
    BY <1>1, <1>3, UntouchedMapped
  <1>6. L!Become(id, {"unused"}, "draft", None)
    BY <1>2, <1>4, <1>5, OneBecomes
  <1> QED BY <1>2, <1>6 DEF L!LifecycleNext, L!Draft

LEMMA UpdateStutters ==
    ASSUME IInv, NEW h \in Handlers, SmartUpdateWithOwner(h)
    PROVE  UNCHANGED <<stateBar, identBar>>
  <1> DEFINE id == req[h].id
  <1>1. id \in DOMAIN db /\ db[id] \in Row /\ req[h].blob \in Blob
    BY DEF SmartUpdateWithOwner, Owned, IInv, TypeOK, IsTable, Req
  <1>2. /\ DOMAIN db' = DOMAIN db /\ minted' = minted
        /\ \A a \in DOMAIN db \ {id} : db'[a] = db[a]
        /\ db'[id] = PatchRow(db[id], req[h].blob)
    BY <1>1 DEF SmartUpdateWithOwner, With
  <1>3. db'[id].published = db[id].published /\ db'[id].blob.ident = db[id].blob.ident
    BY <1>1, <1>2, MergedBlob DEF PatchRow, Row
  <1>4. \A a \in DOMAIN db : /\ db'[a].published = db[a].published
                             /\ db'[a].blob.ident = db[a].blob.ident
    BY <1>2, <1>3
  <1> QED BY <1>2, <1>4 DEF stateBar, identBar

LEMMA StoreIsPublishAs ==
    ASSUME IInv, NEW h \in Handlers, StorePublished(h)
    PROVE  L!LifecycleNext
  <1> DEFINE id == req[h].id
             i  == req[h].blob.ident
  <1>1. /\ id \in DOMAIN db /\ id \in Ids /\ db[id] \in Row /\ i \in Idents \cup {None}
    BY DEF StorePublished, IInv, TypeOK, IsTable, Req, Blob
  <1>2. i # None /\ Claimed(h) = i
    BY DEF StorePublished, At, IInv, AnswersIdentified, Claimed
  <1>3. /\ DOMAIN db' = DOMAIN db /\ minted' = minted
        /\ \A a \in DOMAIN db \ {id} : db'[a] = db[a]
        /\ db'[id].published /\ db'[id].blob.ident = i
    BY <1>1 DEF StorePublished, With, PublishedRow, Row
  <1>4. /\ stateBar[id] \in {"draft", "published"}
        /\ stateBar'[id] = "published" /\ identBar'[id] = i
    BY <1>1, <1>3, Mapped, MappedNext DEF Row
  <1>5. \A a \in Ids \ {id} : stateBar'[a] = stateBar[a] /\ identBar'[a] = identBar[a]
    BY <1>3, UntouchedMapped
  <1>6. L!Become(id, {"draft", "published"}, "published", i)
    BY <1>1, <1>4, <1>5, OneBecomes
  <1>7. \A a \in DOMAIN db \ {id} : db[a].blob.ident # i
    BY <1>2 DEF IInv, ClaimsDisjoint
  <1>8. L!FreeFor(id, i)
    BY <1>1, <1>2, <1>7, IsFree
  <1> QED BY <1>1, <1>2, <1>6, <1>8 DEF L!LifecycleNext, L!PublishAs

LEMMA NewVersionIsArrive ==
    ASSUME IInv, NEW h \in Handlers, StoreNewVersion(h)
    PROVE  L!LifecycleNext
  <1> DEFINE i == req[h].blob.ident
  <1>1. PICK id \in Ids \ minted :
          /\ db' = With(db, id, NewVersionRow(db[req[h].id], req[h].blob, req[h].blob.date))
          /\ minted' = minted \cup {id}
    BY DEF StoreNewVersion
  <1>2. id \notin DOMAIN db /\ id \notin minted /\ i \in Idents \cup {None}
    BY DEF IInv, IdsMinted, TypeOK, Req, Blob
  <1>3. i # None /\ Pending(h) = i
    BY DEF StoreNewVersion, At, IInv, AnswersIdentified, Pending
  <1>4. /\ DOMAIN db' = DOMAIN db \cup {id}
        /\ \A a \in DOMAIN db \ {id} : db'[a] = db[a]
        /\ db'[id].published /\ db'[id].blob.ident = i
    BY <1>1 DEF With, NewVersionRow
  <1>5. stateBar[id] = "unused" /\ stateBar'[id] = "published" /\ identBar'[id] = i
    BY <1>2, <1>4, Mapped, MappedNext
  <1>6. \A a \in Ids \ {id} : stateBar'[a] = stateBar[a] /\ identBar'[a] = identBar[a]
    BY <1>1, <1>4, UntouchedMapped
  <1>7. L!Become(id, {"unused"}, "published", i)
    BY <1>5, <1>6, OneBecomes
  <1>8. \A a \in DOMAIN db : db[a].blob.ident # i
    BY <1>3 DEF IInv, ClaimsDisjoint
  <1>9. L!FreeFor(id, i)
    BY <1>3, <1>8, IsFree
  <1> QED BY <1>2, <1>3, <1>7, <1>9 DEF L!LifecycleNext, L!Arrive

LEMMA DeleteIsLeave ==
    ASSUME IInv, NEW h \in Handlers, Delete(h)
    PROVE  L!LifecycleNext
  <1> DEFINE id == req[h].id
  <1>1. id \in DOMAIN db /\ id \in Ids /\ db[id] \in Row /\ id \in minted
    BY DEF Delete, Owned, IInv, TypeOK, IsTable, IdsMinted
  <1>2. /\ DOMAIN db' = DOMAIN db \ {id} /\ minted' = minted
        /\ \A a \in DOMAIN db' : db'[a] = db[a]
    BY DEF Delete, Without
  <1>3. /\ stateBar[id] \in {"draft", "published"}
        /\ stateBar'[id] = "deleted" /\ identBar'[id] = None
    BY <1>1, <1>2, Mapped, MappedNext DEF Row
  <1>4. \A a \in Ids \ {id} : stateBar'[a] = stateBar[a] /\ identBar'[a] = identBar[a]
    BY <1>2, UntouchedMapped
  <1>5. L!Become(id, {"draft", "published"}, "deleted", None)
    BY <1>1, <1>3, <1>4, OneBecomes
  <1> QED BY <1>1, <1>5 DEF L!LifecycleNext, L!Leave

\* The steps that leave the table alone.
LEMMA OthersStutter ==
    ASSUME UNCHANGED <<db, minted>>
    PROVE  UNCHANGED <<stateBar, identBar>>
  BY DEF stateBar, identBar

LEMMA InitImplements ==
    ASSUME Init
    PROVE  L!LifecycleInit
  BY DEF Init, L!LifecycleInit, stateBar, identBar

LEMMA NextImplements ==
    ASSUME IInv, [Next]_vars
    PROVE  [L!LifecycleNext]_<<stateBar, identBar>>
  <1>1. ASSUME NEW h \in Handlers, HandlerStep(h)
        PROVE  L!LifecycleNext \/ UNCHANGED <<stateBar, identBar>>
    <2>1. CASE CreateDataset(h)
      BY <2>1, CreateIsDraft
    <2>2. CASE SmartUpdateWithOwner(h)
      BY <2>2, UpdateStutters
    <2>3. CASE StorePublished(h)
      BY <2>3, StoreIsPublishAs
    <2>4. CASE StoreNewVersion(h)
      BY <2>4, NewVersionIsArrive
    <2>5. CASE Delete(h)
      BY <2>5, DeleteIsLeave
    <2>6. CASE UNCHANGED <<db, minted>>
      BY <2>6, OthersStutter
    <2> QED BY <1>1, <2>1, <2>2, <2>3, <2>4, <2>5, <2>6
            DEF HandlerStep, RejectRequest, vars, ValidateUpdate, GetForPublish, StoreCreated,
                StoreUpdated, StoreMadeVersion, GetNewVersion, GetForDelete, GetForUnpublish,
                DeleteInMetax
  <1>2. ASSUME ~(\E h \in Handlers : HandlerStep(h))
        PROVE  UNCHANGED <<db, minted>>
    BY <1>2 DEF Next, Fail, Crash, LateCall, EditInMetax, vars
  <1> QED BY <1>1, <1>2, OthersStutter

(* Whatever requests overlap, fail and come late: a dataset is published   *)
(* under an identifier no other dataset has, never becomes a draft again,  *)
(* and does not come back once it is deleted.                              *)
THEOREM HandlersImplementLifecycle == Spec => ImplementsLifecycle
  <1>1. Init => L!LifecycleInit
    BY InitImplements
  <1>2. IInv /\ [Next]_vars => [L!LifecycleNext]_<<stateBar, identBar>>
    BY NextImplements
  <1> QED BY <1>1, <1>2, Invariance, PTL
          DEF Spec, ImplementsLifecycle, L!LifecycleSpec, L!lifecycleVars

-----------------------------------------------------------------------------
(* Requests one at a time.  The properties below are of a service that     *)
(* serves one request after another, which may fail at any point, crash    *)
(* and leave calls behind: between the steps of a request no other request *)
(* changes the row that it read.                                           *)

OneRequest == \A h, k \in Handlers : h = k

\* What the steps before have made of the row of the request being served.
RowOf(h) ==
    ~At(h, "idle") =>
        /\ req[h].id \in DOMAIN db
        /\ At(h, "patching") /\ db[req[h].id].published
               => req[h].blob.cum \in {None, db[req[h].id].blob.cum}
        /\ At(h, "storing") \/ At(h, "removing") => db[req[h].id].blob = req[h].blob
        /\ At(h, "stored") => db[req[h].id].blob.ident \in {None, req[h].blob.ident}
        /\ At(h, "unlisting") \/ At(h, "removing") => db[req[h].id].published
        /\ At(h, "deleting") /\ db[req[h].id].published => Gone(db[req[h].id].blob.ident)

SerialInv == \A h \in Handlers : RowOf(h)

\* What writing a row of the table does to it.
LEMMA Rewritten ==
    ASSUME NEW id \in DOMAIN db, NEW row, db' = With(db, id, row)
    PROVE  /\ DOMAIN db' = DOMAIN db /\ db'[id] = row
           /\ \A a \in DOMAIN db \ {id} : db'[a] = db[a]
  BY DEF With

\* The row an update writes to.
LEMMA UpdatedRow ==
    ASSUME IInv, NEW h \in Handlers, SmartUpdateWithOwner(h)
    PROVE  req[h].id \in DOMAIN db /\ db[req[h].id] \in Row /\ req[h].blob \in Blob
  <1>1. req[h].id \in DOMAIN db
    BY DEF SmartUpdateWithOwner, Owned
  <1>2. req[h].blob \in Blob
    BY DEF IInv, TypeOK, Req
  <1> QED BY <1>1, <1>2 DEF IInv, TypeOK, IsTable

\* A step updates a row, publishes one, deletes one, or leaves all rows as they are
\* and perhaps adds another.
LEMMA TableSteps ==
    ASSUME IInv, [Next]_vars
    PROVE  \/ \A a \in DOMAIN db : a \in DOMAIN db' /\ db'[a] = db[a]
           \/ \E h \in Handlers : SmartUpdateWithOwner(h) \/ StorePublished(h) \/ Delete(h)
  <1>1. ASSUME NEW h \in Handlers, HandlerStep(h),
               ~(SmartUpdateWithOwner(h) \/ StorePublished(h) \/ Delete(h))
        PROVE  \A a \in DOMAIN db : a \in DOMAIN db' /\ db'[a] = db[a]
    <2>1. CASE CreateDataset(h)
      <3>1. PICK id \in Ids \ minted : \E row : db' = With(db, id, row)
        BY <2>1, PublishAssumption DEF CreateDataset
      <3> QED BY <3>1 DEF With, IInv, IdsMinted
    <2>2. CASE StoreNewVersion(h)
      <3>1. PICK id \in Ids \ minted : \E row : db' = With(db, id, row)
        BY <2>2 DEF StoreNewVersion
      <3> QED BY <3>1 DEF With, IInv, IdsMinted
    <2>3. CASE UNCHANGED db
      BY <2>3
    <2> QED BY <1>1, <2>1, <2>2, <2>3
            DEF HandlerStep, RejectRequest, vars, ValidateUpdate, GetForPublish, StoreCreated,
                StoreUpdated, StoreMadeVersion, GetNewVersion, GetForDelete, GetForUnpublish,
                DeleteInMetax
  <1>2. ASSUME ~(\E h \in Handlers : HandlerStep(h))
        PROVE  UNCHANGED db
    BY <1>2 DEF Next, Fail, Crash, LateCall, EditInMetax, vars
  <1> QED BY <1>1, <1>2

\* A request served is at the row it began with.
LEMMA SerialHandlerStep ==
    ASSUME IInv, SerialInv, OneRequest, MetaxMoves, NEW h \in Handlers, HandlerStep(h)
    PROVE  RowOf(h)'
  <1> USE DEF IInv
  <1>1. \A i : Gone(i) => Gone(i)'
    BY MovesKeep DEF TypeOK
  <1>2. RowOf(h) /\ req[h] \in Req
    BY DEF SerialInv, TypeOK
  <1>3. CASE ValidateUpdate(h)
    <2>1. PICK user \in Users, id \in DOMAIN db, bodyId \in Ids, rd \in Contents,
               cum \in Cums \cup {None} :
            /\ ValidateUpdated(db[id], UpdateData(bodyId, rd, cum))
            /\ Begin(h, "patching", user, id, UpdateData(bodyId, rd, cum))
      BY <1>3 DEF ValidateUpdate, TypeOK, IsTable, Owned
    <2>2. /\ req'[h].pc = "patching" /\ req'[h].id = id /\ db' = db
          /\ req'[h].blob = UpdateData(bodyId, rd, cum)
      BY <1>3, <2>1 DEF Begin, TypeOK, ValidateUpdate
    <2>3. db[id].published => req'[h].blob.cum \in {None, db[id].blob.cum}
      BY <2>1, <2>2 DEF ValidateUpdated
    <2> QED BY <2>2, <2>3 DEF RowOf, At
  <1>4. CASE GetForPublish(h)
    <2>1. PICK user \in Users, id \in DOMAIN db : Begin(h, "storing", user, id, db[id].blob)
      BY <1>4 DEF GetForPublish, Owned
    <2>2. req'[h].pc = "storing" /\ req'[h].id = id /\ db' = db /\ req'[h].blob = db[id].blob
      BY <1>4, <2>1 DEF Begin, TypeOK, GetForPublish
    <2> QED BY <2>2 DEF RowOf, At
  <1>5. CASE GetForDelete(h)
    <2>1. PICK user \in Users, id \in DOMAIN db :
            Begin(h, IF db[id].published THEN "unlisting" ELSE "deleting", user, id, NoBlob)
      BY <1>5 DEF GetForDelete, Owned
    <2>2. /\ req'[h].id = id /\ db' = db
          /\ req'[h].pc = IF db[id].published THEN "unlisting" ELSE "deleting"
      BY <1>5, <2>1 DEF Begin, TypeOK, GetForDelete
    <2> QED BY <2>2 DEF RowOf, At
  <1>6. CASE GetForUnpublish(h)
    <2>1. /\ req'[h].pc = "removing" /\ req'[h].id = req[h].id /\ db' = db
          /\ req'[h].blob = db[req[h].id].blob
      BY <1>6 DEF GetForUnpublish, Answered, TypeOK, Req
    <2> QED BY <1>2, <1>6, <2>1 DEF RowOf, At, GetForUnpublish
  <1>7. CASE DeleteInMetax(h)
    <2>1. Gone(req[h].blob.ident)' /\ UNCHANGED db
      BY <1>7, RemoveMoves DEF DeleteInMetax, TypeOK, Gone, Goto, Req
    <2>2. req'[h].pc = "deleting" /\ req'[h].id = req[h].id /\ req'[h].blob = req[h].blob
      BY <1>7, Goes DEF DeleteInMetax, PCs
    <2> QED BY <1>2, <1>7, <2>1, <2>2 DEF RowOf, At, DeleteInMetax, Gone
  <1>8. CASE StoreCreated(h) \/ StoreUpdated(h) \/ StoreMadeVersion(h)
    <2>1. PICK i, new : /\ Answered(h, "stored", metax'[i].blob, new)
                        /\ req[h].blob.ident \in {None, i} /\ i \in DOMAIN metax'
      <3>1. CASE StoreCreated(h)
        BY <3>1 DEF StoreCreated, Post, With
      <3>2. CASE StoreUpdated(h)
        BY <3>2 DEF StoreUpdated, PutDataset, With
      <3>3. CASE StoreMadeVersion(h)
        BY <3>3 DEF StoreMadeVersion, PutNewVersion, With
      <3> QED BY <1>8, <3>1, <3>2, <3>3
    <2>2. At(h, "storing") /\ db' = db
      BY <1>8 DEF StoreCreated, StoreUpdated, StoreMadeVersion
    <2>3. req'[h].pc = "stored" /\ req'[h].id = req[h].id /\ req'[h].blob = metax'[i].blob
      BY <2>1 DEF Answered, TypeOK, Req
    <2>4. metax'[i].blob.ident = i
      BY <2>1, NextIInv DEF Next, MetaxIdents
    <2> QED BY <1>2, <2>1, <2>2, <2>3, <2>4 DEF RowOf, At
  <1>9. CASE StorePublished(h)
    <2>1. DOMAIN db' = DOMAIN db
      BY <1>9, Rewritten DEF StorePublished
    <2>2. req'[h].pc \in {"idle", "getting"} /\ (req'[h].pc = "getting" => req'[h].id = req[h].id)
      <3>1. CASE req[h].new = None
        BY <1>9, <3>1, Ends DEF StorePublished, Idle
      <3>2. CASE req[h].new # None
        BY <1>9, <3>2, Goes DEF StorePublished, PCs
      <3> QED BY <3>1, <3>2
    <2> QED BY <1>9, <2>1, <2>2 DEF RowOf, At, StorePublished
  <1>10. CASE GetNewVersion(h)
    <2>1. req'[h].pc = "landing" /\ req'[h].id = req[h].id /\ db' = db
      BY <1>10 DEF GetNewVersion, Answered, TypeOK, Req
    <2> QED BY <1>2, <1>10, <2>1 DEF RowOf, At, GetNewVersion
  <1>11. CASE SmartUpdateWithOwner(h) \/ StoreNewVersion(h) \/ Delete(h)
    <2>1. req'[h].pc = "idle"
      BY <1>11, Ends DEF SmartUpdateWithOwner, StoreNewVersion, Delete, Idle
    <2> QED BY <2>1 DEF RowOf, At
  <1>12. CASE RejectRequest(h) \/ CreateDataset(h)
    <2>1. req'[h].pc = "idle"
      BY <1>12 DEF RejectRequest, CreateDataset, vars, At
    <2> QED BY <2>1 DEF RowOf, At
  <1> QED BY <1>3, <1>4, <1>5, <1>6, <1>7, <1>8, <1>9, <1>10, <1>11, <1>12 DEF HandlerStep

LEMMA NextSerial ==
    ASSUME IInv, SerialInv, OneRequest, [Next]_vars
    PROVE  SerialInv'
  <1>1. MetaxMoves
    BY NextMoves
  <1>2. ASSUME NEW h \in Handlers, HandlerStep(h)
        PROVE  SerialInv'
    BY <1>1, <1>2, SerialHandlerStep DEF SerialInv, OneRequest
  <1>3. CASE ~\E h \in Handlers : HandlerStep(h)
    <2>1. UNCHANGED db /\ \A k \in Handlers : req'[k] = req[k] \/ req'[k].pc = "idle"
      BY <1>3 DEF Next, Fail, Crash, LateCall, EditInMetax, vars, End, Idle, IInv, TypeOK
    <2>2. \A i : Gone(i) => Gone(i)'
      BY <1>1, MovesKeep DEF IInv, TypeOK
    <2> SUFFICES ASSUME NEW k \in Handlers, req'[k] = req[k]
                 PROVE  RowOf(k)'
      BY <2>1 DEF SerialInv, RowOf, At
    <2>3. RowOf(k)
      BY DEF SerialInv
    <2>4. db' = db /\ req'[k] = req[k]
      BY <2>1
    <2> SUFFICES ASSUME req[k].pc # "idle"
                 PROVE  RowOf(k)'
      BY <2>4 DEF RowOf, At
    <2>5. req[k].id \in DOMAIN db
      BY <2>3 DEF RowOf, At
    <2>6. /\ req[k].pc = "patching" /\ db[req[k].id].published
                 => req[k].blob.cum \in {None, db[req[k].id].blob.cum}
          /\ req[k].pc \in {"storing", "removing"} => db[req[k].id].blob = req[k].blob
          /\ req[k].pc = "stored" => db[req[k].id].blob.ident \in {None, req[k].blob.ident}
          /\ req[k].pc \in {"unlisting", "removing"} => db[req[k].id].published
      BY <2>3 DEF RowOf, At
    <2>7. ASSUME req[k].pc = "deleting", db[req[k].id].published
          PROVE  Gone(db[req[k].id].blob.ident)'
      <3>1. PICK i : i = db[req[k].id].blob.ident
        OBVIOUS
      <3>2. Gone(i)
        BY <2>3, <2>7, <3>1 DEF RowOf, At
      <3>3. Gone(i)' /\ db'[req'[k].id].blob.ident = i
        BY <2>2, <2>4, <3>1, <3>2
      <3> QED BY <3>3 DEF Gone
    <2> QED BY <2>4, <2>5, <2>6, <2>7 DEF RowOf, At, Gone
  <1> QED BY <1>2, <1>3

THEOREM RequestsKeepTheirRow ==
    ASSUME OneRequest
    PROVE  Spec => []SerialInv
  <1>1. Init => SerialInv
    BY DEF Init, Idle, SerialInv, RowOf, At
  <1>2. IInv /\ SerialInv /\ [Next]_vars => SerialInv'
    BY NextSerial
  <1> QED BY <1>1, <1>2, Invariance, PTL DEF Spec

-----------------------------------------------------------------------------
(* What a step may not do to a row.                                        *)

(* A row keeps the identifier it was published under, if requests are      *)
(* served one at a time: StorePublished, which replaces the document,      *)
(* brings the identifier that Store sent.                                  *)
THEOREM IdentifiersAreStable ==
    ASSUME OneRequest
    PROVE  Spec => IdentifierStable
  <1>1. ASSUME IInv, SerialInv, [Next]_vars, NEW id \in DOMAIN db \cap DOMAIN db',
               Identified(db[id])
        PROVE  db'[id].blob.ident = db[id].blob.ident
    <2>1. ASSUME NEW h \in Handlers, SmartUpdateWithOwner(h)
          PROVE  db'[id].blob.ident = db[id].blob.ident
      <3>1. req[h].id \in DOMAIN db /\ db[req[h].id] \in Row /\ req[h].blob \in Blob
        BY <1>1, <2>1, UpdatedRow
      <3>2. db' = With(db, req[h].id, PatchRow(db[req[h].id], req[h].blob))
        BY <2>1 DEF SmartUpdateWithOwner
      <3>3. PatchRow(db[req[h].id], req[h].blob).blob.ident = db[req[h].id].blob.ident
        BY <3>1, MergedBlob DEF PatchRow, Row
      <3> QED BY <3>1, <3>2, <3>3, Rewritten
    <2>2. ASSUME NEW h \in Handlers, StorePublished(h)
          PROVE  db'[id].blob.ident = db[id].blob.ident
      <3>1. /\ req[h].id \in DOMAIN db /\ db[req[h].id] \in Row
            /\ db[req[h].id].blob.ident \in {None, req[h].blob.ident}
        <4>1. req[h].id \in DOMAIN db /\ At(h, "stored")
          BY <2>2 DEF StorePublished
        <4> QED BY <1>1, <4>1 DEF IInv, TypeOK, IsTable, SerialInv, RowOf, At
      <3>2. db' = With(db, req[h].id, PublishedRow(db[req[h].id], req[h].blob, req[h].blob.date))
        BY <2>2 DEF StorePublished
      <3>3. PublishedRow(db[req[h].id], req[h].blob, req[h].blob.date).blob = req[h].blob
        BY <3>1 DEF PublishedRow, Row
      <3> QED BY <1>1, <3>1, <3>2, <3>3, Rewritten DEF Identified
    <2>3. ASSUME NEW h \in Handlers, Delete(h)
          PROVE  db'[id].blob.ident = db[id].blob.ident
      BY <2>3 DEF Delete, Without
    <2> QED BY <1>1, <2>1, <2>2, <2>3, TableSteps
  <1>2. IInv /\ SerialInv /\ [Next]_vars => \A id \in DOMAIN db \cap DOMAIN db' :
            Identified(db[id]) => db'[id].blob.ident = db[id].blob.ident
    BY <1>1
  <1> QED BY <1>2, Invariance, RequestsKeepTheirRow, PTL DEF Spec, IdentifierStable

(* The cumulative_state of a published row changes only when a publish     *)
(* stores Metax's answer, if requests are served one at a time: what       *)
(* ValidateUpdated compared the update with is still so when it is merged. *)
THEOREM CumulativeStatesAreFrozen ==
    ASSUME OneRequest
    PROVE  Spec => CumulativeStateFrozen
  <1>1. ASSUME IInv, SerialInv, [Next]_vars, NEW id \in DOMAIN db \cap DOMAIN db',
               db[id].published, db'[id].blob.cum # db[id].blob.cum
        PROVE  \E h \in Handlers : At(h, "stored") /\ req[h].id = id
    <2>1. ASSUME NEW h \in Handlers, SmartUpdateWithOwner(h)
          PROVE  FALSE
      <3>1. /\ req[h].id \in DOMAIN db /\ db[req[h].id] \in Row
            /\ db[req[h].id].published => req[h].blob.cum \in {None, db[req[h].id].blob.cum}
        BY <1>1, <2>1, UpdatedRow DEF SmartUpdateWithOwner, SerialInv, RowOf, At
      <3>2. db' = With(db, req[h].id, PatchRow(db[req[h].id], req[h].blob))
        BY <2>1 DEF SmartUpdateWithOwner
      <3>3. PatchRow(db[req[h].id], req[h].blob).blob.cum =
              IF req[h].blob.cum = None THEN db[req[h].id].blob.cum ELSE req[h].blob.cum
        BY <3>1 DEF PatchRow, MergeBlob, Row, Blob
      <3> QED BY <1>1, <3>1, <3>2, <3>3, Rewritten
    <2>2. ASSUME NEW h \in Handlers, StorePublished(h)
          PROVE  At(h, "stored") /\ req[h].id = id
      <3>1. req[h].id \in DOMAIN db
        BY <2>2 DEF StorePublished
      <3>2. db' = With(db, req[h].id, PublishedRow(db[req[h].id], req[h].blob, req[h].blob.date))
        BY <2>2 DEF StorePublished
      <3>3. req[h].id = id
        BY <1>1, <3>1, <3>2, Rewritten
      <3> QED BY <2>2, <3>3 DEF StorePublished
    <2>3. ASSUME NEW h \in Handlers, Delete(h)
          PROVE  FALSE
      BY <1>1, <2>3 DEF Delete, Without
    <2> QED BY <1>1, <2>1, <2>2, <2>3, TableSteps
  <1>2. IInv /\ SerialInv /\ [Next]_vars => \A id \in DOMAIN db \cap DOMAIN db' :
            db[id].published /\ db'[id].blob.cum # db[id].blob.cum
                => \E h \in Handlers : At(h, "stored") /\ req[h].id = id
    BY <1>1
  <1> QED BY <1>2, Invariance, RequestsKeepTheirRow, PTL DEF Spec, CumulativeStateFrozen

(* A published row is deleted only with its dataset removed from Metax, if *)
(* requests are served one at a time: GetForDelete, which lets a draft be  *)
(* deleted without a call to Metax, still holds in Delete.                 *)
THEOREM ListedDatasetsStay ==
    ASSUME OneRequest
    PROVE  Spec => NoListedDatasetDropped
  <1>1. ASSUME IInv, SerialInv, [Next]_vars, NEW id \in DOMAIN db \ DOMAIN db', db[id].published
        PROVE  ~Live(db[id].blob.ident)
    <2>1. ASSUME NEW h \in Handlers, SmartUpdateWithOwner(h) \/ StorePublished(h)
          PROVE  FALSE
      BY <1>1, <2>1, Rewritten DEF SmartUpdateWithOwner, StorePublished, Owned
    <2>2. ASSUME NEW h \in Handlers, Delete(h)
          PROVE  ~Live(db[id].blob.ident)
      <3>1. req[h].id = id /\ At(h, "deleting")
        BY <1>1, <2>2 DEF Delete, Without
      <3> QED BY <1>1, <3>1 DEF SerialInv, RowOf, At, Gone, Live
    <2> QED BY <1>1, <2>1, <2>2, TableSteps
  <1>2. IInv /\ SerialInv /\ [Next]_vars => \A id \in DOMAIN db \ DOMAIN db' :
            db[id].published => ~Live(db[id].blob.ident)
    BY <1>1
  <1> QED BY <1>2, Invariance, RequestsKeepTheirRow, PTL DEF Spec, NoListedDatasetDropped

-----------------------------------------------------------------------------
(* Requests one at a time, and none fails: what Metax lists and what the   *)
(* table has go together.  Between the calls of a request they differ by   *)
(* the identifiers that the request carries from one to the other.         *)

\* A row that stays has identifier i.
InRow(i) ==
    \E id \in DOMAIN db : /\ db[id].blob.ident = i
                          /\ \A h \in Handlers : At(h, "deleting") => req[h].id # id

\* A publish is bringing identifier i from Metax to the table.
InAnswer(i) ==
    \E h \in Handlers : \/ req[h].pc \in {"stored", "landing"} /\ req[h].blob.ident = i
                        \/ req[h].pc \in {"stored", "getting"} /\ req[h].new = i

InStep ==
    /\ late = {}
    /\ \A h \in Handlers : At(h, "getting") => req[h].new # None
    /\ \A i \in Idents : Live(i) <=> InRow(i) \/ InAnswer(i)

\* The two, when h is the only handler.
LEMMA OnlyHandler ==
    ASSUME OneRequest, NEW h \in Handlers, NEW i
    PROVE  /\ InRow(i) <=> \E id \in DOMAIN db : /\ db[id].blob.ident = i
                                                 /\ At(h, "deleting") => req[h].id # id
           /\ InAnswer(i) <=> \/ req[h].pc \in {"stored", "landing"} /\ req[h].blob.ident = i
                              \/ req[h].pc \in {"stored", "getting"} /\ req[h].new = i
  BY DEF InRow, InAnswer, OneRequest

LEMMA OnlyHandlerNext ==
    ASSUME OneRequest, NEW h \in Handlers, NEW i
    PROVE  /\ InRow(i)' <=> \E id \in DOMAIN db' : /\ db'[id].blob.ident = i
                                                   /\ req'[h].pc = "deleting" => req'[h].id # id
           /\ InAnswer(i)' <=> \/ req'[h].pc \in {"stored", "landing"} /\ req'[h].blob.ident = i
                               \/ req'[h].pc \in {"stored", "getting"} /\ req'[h].new = i
  BY DEF InRow, InAnswer, OneRequest, At

\* The steps by which a request ends or begins.
LEMMA MirrorOutside ==
    ASSUME IInv, SerialInv, InStep, OneRequest, ~Faults, NEW h \in Handlers,
           RejectRequest(h) \/ CreateDataset(h) \/ ValidateUpdate(h) \/ SmartUpdateWithOwner(h)
             \/ GetForPublish(h) \/ GetForDelete(h) \/ GetForUnpublish(h) \/ Fail(h)
    PROVE  InStep'
  <1> USE DEF IInv
  <1>1. UNCHANGED <<late, metax>>
    <2>1. CASE Fail(h)
      BY <2>1 DEF Fail, metaxVars
    <2>2. CASE ~Fail(h)
      BY <2>2 DEF RejectRequest, vars, CreateDataset, ValidateUpdate, SmartUpdateWithOwner,
                  GetForPublish, GetForDelete, GetForUnpublish, metaxVars
    <2> QED BY <2>1, <2>2
  <1>2. /\ DOMAIN db \subseteq DOMAIN db'
        /\ \A id \in DOMAIN db : db'[id].blob.ident = db[id].blob.ident
        /\ \A id \in DOMAIN db' \ DOMAIN db : db'[id].blob.ident = None
    <2>1. CASE CreateDataset(h)
      <3>1. PICK user \in Users, id \in NewIds \ minted, rd \in Contents, cum \in Cums \cup {None},
                 provider \in Users, rec \in Ids :
              db' = With(db, id, NewRow(user, CreateData(rec, provider, rd, cum)))
        BY <2>1, SomeTemplate
      <3>2. NewRow(user, CreateData(rec, provider, rd, cum)).blob.ident = None
        BY <3>1, InputBlobs DEF NewRow
      <3>3. id \notin DOMAIN db
        BY <3>1 DEF IdsMinted
      <3> QED BY <3>1, <3>2, <3>3 DEF With
    <2>2. CASE SmartUpdateWithOwner(h)
      <3>1. req[h].id \in DOMAIN db /\ db[req[h].id] \in Row /\ req[h].blob \in Blob
        BY <2>2, UpdatedRow
      <3>2. db' = With(db, req[h].id, PatchRow(db[req[h].id], req[h].blob))
        BY <2>2 DEF SmartUpdateWithOwner
      <3>3. PatchRow(db[req[h].id], req[h].blob).blob.ident = db[req[h].id].blob.ident
        BY <3>1, MergedBlob DEF PatchRow, Row
      <3> QED BY <3>1, <3>2, <3>3, Rewritten
    <2>3. CASE UNCHANGED db
      BY <2>3
    <2> QED BY <2>1, <2>2, <2>3
            DEF RejectRequest, vars, ValidateUpdate, GetForPublish, GetForDelete,
                GetForUnpublish, Fail
  <1>3. RowOf(h) /\ req[h] \in Req
    BY DEF SerialInv, TypeOK
  <1>4. \A i \in Idents : ~InAnswer(i)
    <2>1. CASE req[h].pc \in {"idle", "patching", "unlisting", "storing", "removing", "deleting"}
      BY <2>1, OnlyHandler
    <2>2. CASE req[h].pc \in {"stored", "getting", "landing"}
      <3>1. Fail(h) /\ req[h].id \in DOMAIN db
        BY <1>3, <2>2 DEF RowOf, At, RejectRequest, CreateDataset, ValidateUpdate,
                          SmartUpdateWithOwner, GetForPublish, GetForDelete, GetForUnpublish
      <3>2. At(h, "getting") /\ ~Live(req[h].new)
        BY <2>2, <3>1 DEF Fail, At
      <3>3. req[h].new \in Idents /\ InAnswer(req[h].new)
        BY <1>3, <3>2, OnlyHandler DEF InStep, At, Req
      <3> QED BY <3>2, <3>3 DEF InStep
    <2> QED BY <1>3, <2>1, <2>2 DEF Req, PCs
  <1>5. /\ req'[h].pc \notin {"stored", "landing", "getting"}
        /\ req'[h].pc = "deleting" => db'[req'[h].id].blob.ident = None
    <2>1. CASE RejectRequest(h) \/ CreateDataset(h)
      BY <2>1 DEF RejectRequest, CreateDataset, vars, At
    <2>2. CASE ValidateUpdate(h) \/ GetForPublish(h) \/ GetForUnpublish(h)
      BY <1>3, <2>2 DEF ValidateUpdate, GetForPublish, GetForUnpublish, Begin, Answered, TypeOK, Req
    <2>3. CASE SmartUpdateWithOwner(h) \/ Fail(h)
      BY <2>3, Ends DEF SmartUpdateWithOwner, Fail, Idle
    <2>4. CASE GetForDelete(h)
      <3>1. PICK user \in Users, id \in DOMAIN db :
              Begin(h, IF db[id].published THEN "unlisting" ELSE "deleting", user, id, NoBlob)
        BY <2>4 DEF GetForDelete, Owned
      <3>2. /\ req'[h].pc = IF db[id].published THEN "unlisting" ELSE "deleting"
            /\ req'[h].id = id /\ db' = db
        BY <2>4, <3>1 DEF Begin, TypeOK, GetForDelete
      <3> QED BY <3>2 DEF PublishedIffIdentified, Identified
    <2> QED BY <2>1, <2>2, <2>3, <2>4
  <1>6. At(h, "deleting") => ~Fail(h)
    BY <1>3 DEF RowOf, At, Fail
  <1>7. ~At(h, "deleting")
    BY <1>6 DEF At, RejectRequest, CreateDataset, ValidateUpdate, SmartUpdateWithOwner,
                GetForPublish, GetForDelete, GetForUnpublish
  <1>8. ASSUME NEW i \in Idents
        PROVE  (InRow(i)' <=> InRow(i)) /\ ~InAnswer(i)'
    BY <1>2, <1>5, <1>7, <1>8, OnlyHandler, OnlyHandlerNext, NoneAssumption
  <1>9. \A i \in Idents : Live(i)' <=> Live(i)
    BY <1>1 DEF Live
  <1>10. \A k \in Handlers : ~At(k, "getting")'
    BY <1>5 DEF OneRequest, At
  <1> QED BY <1>1, <1>4, <1>8, <1>9, <1>10 DEF InStep

\* The steps that store a document in Metax.
LEMMA MirrorStored ==
    ASSUME IInv, SerialInv, InStep, OneRequest, NEW h \in Handlers,
           StoreCreated(h) \/ StoreUpdated(h) \/ StoreMadeVersion(h)
    PROVE  InStep'
  <1> USE DEF IInv
  <1>1. req[h] \in Req /\ req[h].blob \in Blob
    BY DEF TypeOK, Req
  <1>2. UNCHANGED <<db, late>> /\ At(h, "storing") /\ req'[h].pc = "stored"
    <2>1. UNCHANGED <<db, late>> /\ At(h, "storing")
      BY DEF StoreCreated, StoreUpdated, StoreMadeVersion
    <2>2. \E i, n : Answered(h, "stored", metax'[i].blob, n)
      BY DEF StoreCreated, StoreUpdated, StoreMadeVersion
    <2>3. req'[h].pc = "stored"
      BY <2>2 DEF Answered, TypeOK, Req
    <2> QED BY <2>1, <2>3
  <1>3. PICK i \in Idents, new \in Idents \cup {None} :
          /\ req'[h].blob.ident = i /\ req'[h].new = new
          /\ \A j \in Idents : Live(j)' <=> Live(j) \/ j \in {i, new}
    <2>1. CASE StoreCreated(h)
      <3>1. PICK i \in Idents : Post(i, req[h].blob) /\ Answered(h, "stored", metax'[i].blob, None)
        BY <2>1 DEF StoreCreated
      <3>2. metax'[i].blob.ident = i
        BY <1>1, <3>1, PostKeeps DEF TypeOK
      <3>3. req'[h].blob = metax'[i].blob /\ req'[h].new = None
        BY <3>1 DEF Answered, TypeOK, Req
      <3>4. \A j \in Idents : Live(j)' <=> Live(j) \/ j = i
        BY <3>1 DEF Post, With, Live, Stored
      <3> QED BY <3>2, <3>3, <3>4, NoneAssumption
    <2>2. CASE StoreUpdated(h)
      <3>1. PutDataset(req[h].blob) /\ Answered(h, "stored", metax'[req[h].blob.ident].blob, None)
        BY <2>2 DEF StoreUpdated
      <3>2. metax'[req[h].blob.ident].blob.ident = req[h].blob.ident /\ req[h].blob.ident \in Idents
        BY <1>1, <3>1, PutKeeps DEF TypeOK, MetaxTypeOK
      <3>3. req'[h].blob = metax'[req[h].blob.ident].blob /\ req'[h].new = None
        BY <3>1 DEF Answered, TypeOK, Req
      <3>4. \A j \in Idents : Live(j)' <=> Live(j) \/ j = req[h].blob.ident
        BY <3>1 DEF PutDataset, With, Live, Stored
      <3> QED BY <3>2, <3>3, <3>4, NoneAssumption
    <2>3. CASE StoreMadeVersion(h)
      <3>1. PICK n \in Idents : /\ PutNewVersion(req[h].blob, n)
                                /\ Answered(h, "stored", metax'[req[h].blob.ident].blob, n)
        BY <2>3 DEF StoreMadeVersion
      <3>2. metax'[req[h].blob.ident].blob.ident = req[h].blob.ident /\ req[h].blob.ident \in Idents
        BY <1>1, <3>1, PutVersionKeeps DEF TypeOK, MetaxTypeOK
      <3>3. req'[h].blob = metax'[req[h].blob.ident].blob /\ req'[h].new = n
        BY <3>1 DEF Answered, TypeOK, Req
      <3>4. \A j \in Idents : Live(j)' <=> Live(j) \/ j = req[h].blob.ident \/ j = n
        BY <3>1 DEF PutNewVersion, With, Live, Stored
      <3> QED BY <3>2, <3>3, <3>4
    <2> QED BY <2>1, <2>2, <2>3
  <1>4. ASSUME NEW j \in Idents
        PROVE  /\ InRow(j)' <=> InRow(j)
               /\ ~InAnswer(j)
               /\ InAnswer(j)' <=> j \in {i, new}
    BY <1>2, <1>3, <1>4, OnlyHandler, OnlyHandlerNext DEF At
  <1>5. \A k \in Handlers : ~At(k, "getting")'
    BY <1>2 DEF OneRequest, At
  <1> QED BY <1>2, <1>3, <1>4, <1>5 DEF InStep

\* The steps after Metax has answered.
LEMMA MirrorAnswered ==
    ASSUME IInv, SerialInv, InStep, OneRequest, NEW h \in Handlers,
           StorePublished(h) \/ GetNewVersion(h) \/ StoreNewVersion(h)
    PROVE  InStep'
  <1> USE DEF IInv
  <1>1. req[h] \in Req /\ RowOf(h)
    BY DEF TypeOK, SerialInv
  <1>2. UNCHANGED <<late, metax>>
    BY DEF StorePublished, GetNewVersion, StoreNewVersion, metaxVars
  <1>3. \A j \in Idents : Live(j)' <=> Live(j)
    BY <1>2 DEF Live
  <1>4. CASE StorePublished(h)
    <2>1. At(h, "stored") /\ req[h].id \in DOMAIN db
      BY <1>4 DEF StorePublished
    <2>2. db' = With(db, req[h].id, PublishedRow(db[req[h].id], req[h].blob, req[h].blob.date))
      BY <1>4 DEF StorePublished
    <2>3. PublishedRow(db[req[h].id], req[h].blob, req[h].blob.date).blob = req[h].blob
      BY <2>1 DEF PublishedRow, Row, TypeOK, IsTable
    <2>4. /\ DOMAIN db' = DOMAIN db /\ db'[req[h].id].blob = req[h].blob
          /\ \A a \in DOMAIN db \ {req[h].id} : db'[a] = db[a]
      BY <2>1, <2>2, <2>3, Rewritten
    <2>5. db[req[h].id].blob.ident \in {None, req[h].blob.ident}
      BY <1>1, <2>1 DEF RowOf, At
    <2>6. \/ req[h].new = None /\ req'[h].pc = "idle"
          \/ req[h].new # None /\ req'[h].pc = "getting" /\ req'[h].new = req[h].new
      <3>1. CASE req[h].new = None
        BY <1>4, <3>1, Ends DEF StorePublished, Idle
      <3>2. CASE req[h].new # None
        BY <1>4, <3>2, Goes DEF StorePublished, PCs
      <3> QED BY <3>1, <3>2
    <2>7. ASSUME NEW j \in Idents
          PROVE  InRow(j)' \/ InAnswer(j)' <=> InRow(j) \/ InAnswer(j)
      BY <2>1, <2>4, <2>5, <2>6, <2>7, OnlyHandler, OnlyHandlerNext, NoneAssumption DEF At
    <2>8. \A k \in Handlers : At(k, "getting")' => req'[k].new # None
      BY <2>6 DEF OneRequest, At
    <2> QED BY <1>2, <1>3, <2>7, <2>8 DEF InStep
  <1>5. CASE GetNewVersion(h)
    <2>1. /\ At(h, "getting") /\ db' = db /\ Live(req[h].new)
          /\ req'[h].pc = "landing" /\ req'[h].blob.ident = req[h].new
      BY <1>1, <1>5 DEF GetNewVersion, Answered, TypeOK, Req, MetaxIdents, Live
    <2>2. ASSUME NEW j \in Idents
          PROVE  (InRow(j)' <=> InRow(j)) /\ (InAnswer(j)' <=> InAnswer(j))
      BY <2>1, <2>2, OnlyHandler, OnlyHandlerNext DEF At
    <2>3. \A k \in Handlers : ~At(k, "getting")'
      BY <2>1 DEF OneRequest, At
    <2> QED BY <1>2, <1>3, <2>2, <2>3 DEF InStep
  <1>6. CASE StoreNewVersion(h)
    <2>1. At(h, "landing")
      BY <1>6 DEF StoreNewVersion
    <2>2. PICK id \in Ids \ minted :
            db' = With(db, id, NewVersionRow(db[req[h].id], req[h].blob, req[h].blob.date))
      BY <1>6 DEF StoreNewVersion
    <2>3. /\ DOMAIN db' = DOMAIN db \cup {id} /\ db'[id].blob = req[h].blob /\ id \notin DOMAIN db
          /\ \A a \in DOMAIN db : db'[a] = db[a]
      BY <2>2 DEF With, NewVersionRow, IdsMinted
    <2>4. req'[h].pc = "idle"
      BY <1>6, Ends DEF StoreNewVersion, Idle
    <2>5. ASSUME NEW j \in Idents
          PROVE  InRow(j)' \/ InAnswer(j)' <=> InRow(j) \/ InAnswer(j)
      BY <2>1, <2>3, <2>4, <2>5, OnlyHandler, OnlyHandlerNext DEF At
    <2>6. \A k \in Handlers : ~At(k, "getting")'
      BY <2>4 DEF OneRequest, At
    <2> QED BY <1>2, <1>3, <2>5, <2>6 DEF InStep
  <1> QED BY <1>4, <1>5, <1>6

\* The steps that delete.
LEMMA MirrorDeleted ==
    ASSUME IInv, SerialInv, InStep, OneRequest, NEW h \in Handlers,
           DeleteInMetax(h) \/ Delete(h)
    PROVE  InStep'
  <1> USE DEF IInv
  <1>1. req[h] \in Req /\ RowOf(h)
    BY DEF TypeOK, SerialInv
  <1>2. CASE DeleteInMetax(h)
    <2>1. /\ UNCHANGED <<db, late>> /\ At(h, "removing")
          /\ RemoveDataset(req[h].blob.ident)
      BY <1>2 DEF DeleteInMetax
    <2>2. /\ req'[h].pc = "deleting" /\ req'[h].id = req[h].id
      BY <1>2, Goes DEF DeleteInMetax, PCs
    <2>3. req[h].id \in DOMAIN db /\ db[req[h].id].blob.ident = req[h].blob.ident
      BY <1>1, <2>1 DEF RowOf, At
    <2>4. \A j \in Idents : Live(j)' <=> Live(j) /\ j # req[h].blob.ident
      BY <2>1 DEF RemoveDataset, Live, With
    <2>5. ASSUME NEW j \in Idents
          PROVE  /\ InRow(j)' <=> InRow(j) /\ j # req[h].blob.ident
                 /\ ~InAnswer(j) /\ ~InAnswer(j)'
      <3>1. \A id \in DOMAIN db : db[id].blob.ident = j /\ j = req[h].blob.ident => id = req[h].id
        BY <2>3, NoneAssumption DEF UniqueIdentifiers, Identified
      <3>2. ~InAnswer(j) /\ ~InAnswer(j)'
        BY <2>1, <2>2, OnlyHandler, OnlyHandlerNext DEF At
      <3>3. InRow(j) <=> \E id \in DOMAIN db : db[id].blob.ident = j
        BY <2>1, OnlyHandler DEF At
      <3>4. InRow(j)' <=> \E id \in DOMAIN db : db[id].blob.ident = j /\ id # req[h].id
        BY <2>1, <2>2, OnlyHandlerNext
      <3> QED BY <2>3, <3>1, <3>2, <3>3, <3>4
    <2>6. \A k \in Handlers : ~At(k, "getting")'
      BY <2>2 DEF OneRequest, At
    <2> QED BY <2>1, <2>4, <2>5, <2>6 DEF InStep
  <1>3. CASE Delete(h)
    <2>1. /\ UNCHANGED <<late, metax>> /\ At(h, "deleting")
          /\ db' = Without(db, req[h].id)
      BY <1>3 DEF Delete, metaxVars
    <2>2. req'[h].pc = "idle"
      BY <1>3, Ends DEF Delete, Idle
    <2>3. DOMAIN db' = DOMAIN db \ {req[h].id} /\ \A a \in DOMAIN db' : db'[a] = db[a]
      BY <2>1 DEF Without
    <2>4. ASSUME NEW j \in Idents
          PROVE  (InRow(j)' <=> InRow(j)) /\ ~InAnswer(j) /\ ~InAnswer(j)'
      <3>1. ~InAnswer(j) /\ ~InAnswer(j)'
        BY <2>1, <2>2, OnlyHandler, OnlyHandlerNext DEF At
      <3>2. InRow(j) <=> \E id \in DOMAIN db : db[id].blob.ident = j /\ id # req[h].id
        BY <2>1, OnlyHandler DEF At
      <3>3. InRow(j)' <=> \E id \in DOMAIN db' : db'[id].blob.ident = j
        BY <2>2, OnlyHandlerNext
      <3> QED BY <2>3, <3>1, <3>2, <3>3
    <2>5. \A j \in Idents : Live(j)' <=> Live(j)
      BY <2>1 DEF Live
    <2>6. \A k \in Handlers : ~At(k, "getting")'
      BY <2>2 DEF OneRequest, At
    <2> QED BY <2>1, <2>4, <2>5, <2>6 DEF InStep
  <1> QED BY <1>2, <1>3

LEMMA NextMirror ==
    ASSUME IInv, SerialInv, InStep, OneRequest, ~Faults, [Next]_vars
    PROVE  InStep'
  <1>1. ASSUME NEW h \in Handlers, HandlerStep(h) \/ Fail(h)
        PROVE  InStep'
    BY <1>1, MirrorOutside, MirrorStored, MirrorAnswered, MirrorDeleted DEF HandlerStep
  <1>2. ASSUME UNCHANGED <<db, req, late>>, \A i \in Idents : Live(i)' <=> Live(i)
        PROVE  InStep'
    BY <1>2 DEF InStep, InRow, InAnswer, At
  <1>3. CASE EditInMetax
    <2>1. \A i \in Idents : Live(i)' <=> Live(i)
      BY <1>3 DEF EditInMetax, ForeignEdit, Live, With, Stored
    <2> QED BY <1>2, <1>3, <2>1 DEF EditInMetax
  <1>4. CASE UNCHANGED vars
    BY <1>2, <1>4 DEF vars, metaxVars, Live
  <1>5. ~Crash /\ ~\E c \in late : LateCall(c)
    BY DEF Crash, InStep
  <1> QED BY <1>1, <1>3, <1>4, <1>5 DEF Next

(* When no request is being served, the live datasets of Metax are those   *)
(* of the rows, if requests are served one at a time and none fails.       *)
(* (Requests that Metax refuses are among them: Fail is only without lost  *)
(* answers, timeouts, lost transactions and late calls.)                   *)
THEOREM TableMirrorsMetax ==
    ASSUME OneRequest, ~Faults
    PROVE  Spec => []Mirror
  <1>1. Init => InStep
    BY DEF Init, MetaxInit, Idle, InStep, InRow, InAnswer, At, Live
  <1>2. IInv /\ SerialInv /\ InStep /\ [Next]_vars => InStep'
    BY NextMirror
  <1>3. IInv /\ InStep => Mirror
    <2> SUFFICES ASSUME IInv, InStep, \A h \in Handlers : At(h, "idle")
                 PROVE  {i \in DOMAIN metax : Live(i)} =
                          {db[id].blob.ident : id \in {x \in DOMAIN db : Identified(db[x])}}
      BY DEF Mirror
    <2>1. \A i : ~InAnswer(i)
      BY DEF InAnswer, At
    <2>2. \A i : InRow(i) <=> \E id \in DOMAIN db : db[id].blob.ident = i
      BY DEF InRow, At
    <2>3. DOMAIN metax \subseteq Idents
      BY DEF IInv, TypeOK, MetaxTypeOK
    <2>4. \A id \in DOMAIN db : Identified(db[id]) => db[id].blob.ident \in Idents
      BY DEF IInv, TypeOK, IsTable, Row, Blob, Identified
    <2>5. \A i \in Idents : Live(i) <=> \E id \in DOMAIN db : db[id].blob.ident = i
      BY <2>1, <2>2 DEF InStep
    <2> QED BY <2>3, <2>4, <2>5, NoneAssumption DEF Live, Identified
  <1> QED BY <1>1, <1>2, <1>3, Invariance, RequestsKeepTheirRow, PTL DEF Spec
===============================================================================
