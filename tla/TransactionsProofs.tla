------------------------- MODULE TransactionsProofs -------------------------
(***************************************************************************)
(* Proofs about Transactions, for any values of the constants: type        *)
(* correctness, no connection is lost, the operations of the storage layer *)
(* are atomic, and what is read belongs to its reader.                     *)
(***************************************************************************)
EXTENDS Transactions, FiniteSetTheorems, TLAPS

-----------------------------------------------------------------------------
(* The inductive invariant.                                                *)

Writing(c) == DOMAIN run[c].writes

\* What a client is doing is of the right types.
RunOK(r) ==
    /\ AreWrites(r.writes)
    /\ r \in [pc     : PCs,
              kind   : RequestKinds \cup BatchKinds \cup {None},
              user   : Users \cup {None},
              id     : Ids \cup {None},
              known  : SUBSET Ids,
              left   : 0..Records,
              writes : {r.writes}]

\* Ids of rows, committed or not, have been made.
IdsMinted ==
    /\ DOMAIN db \subseteq minted
    /\ \A c \in Clients : Writing(c) \subseteq minted

\* A row is written by one transaction at a time.
LocksExclude == \A c, d \in Clients : c # d => Writing(c) \cap Writing(d) = {}

OwnerChecked == {"get", "view", "update", "delete"}

\* Where a request may be, and where it has written.
RequestWhere(r) ==
    /\ r.pc \in {"idle", "begin", "check", "family", "read", "write", "commit"}
    /\ r.writes # NoWrites => r.pc = "commit"
    /\ r.pc = "check" => r.kind \in OwnerChecked /\ r.id \in Ids
    /\ r.pc = "family" => r.kind \in {"view", "update"} /\ r.id \in Ids
    /\ r.pc = "read" => r.kind \in {"get", "view", "list", "versions"}
    /\ r.pc = "write" => r.kind \in {"create", "update", "publish", "version", "delete"}

\* Where a batch may be, and where it has written.
BatchWhere(r) ==
    /\ r.pc \notin {"check", "family", "read"}
    /\ r.writes # NoWrites => r.pc \in {"record", "write", "stamp", "commit"}
    /\ r.pc = "write" => r.kind \in BatchKinds

Where(c, r) ==
    /\ r.pc \notin {"idle", "begin"} => r.user \in Users
    /\ c \in Requests => RequestWhere(r)
    /\ c \in Syncs => BatchWhere(r)

ClientsWhere == \A c \in Clients : Where(c, run[c])

\* The row is the user's, or it is gone for good.
Settled(c, user, id) ==
    /\ id \in minted
    /\ IF id \in DOMAIN db THEN db[id].owner = user ELSE id \notin Locked(c)

\* The rows a client takes for its user's.
Claims(r) ==
    r.known \cup
        (IF /\ r.pc \in {"family", "read", "write"}
            /\ r.kind \in OwnerChecked \cup {"synced", "refresh", "remove"}
         THEN {r.id} ELSE {})

ClaimsSettled ==
    \A c \in Clients : \A id \in Claims(run[c]) : Settled(c, run[c].user, id)

\* What a request writes to a row is the effect of its operation on the table.
RequestEffect(id, row) ==
    \/ /\ id \notin DOMAIN db
       /\ \E user \in Users, rd \in Contents, cum \in Cums \cup {None} :
             row = NewRow(user, CreateData(id, user, rd, cum))
    \/ /\ \E user \in Users : id \in Owned(db, user)
       /\ \E rd \in Contents, cum \in Cums \cup {None} :
             row = PatchRow(db[id], UpdateData(id, rd, cum))
    \/ /\ id \in DOMAIN db
       /\ \E blob \in Store!MetaxBlob, t \in Times : row = PublishedRow(db[id], blob, t)
    \/ /\ id \notin DOMAIN db
       /\ \E user \in Users : row \in Store!RowFromMetax(user)
    \/ /\ \E user \in Users : id \in Owned(db, user)
       /\ row = None

\* What a batch writes are rows of its user.
BatchEffect(user, id, row) ==
    IF id \in DOMAIN db
    THEN /\ db[id].owner = user
         /\ row \in Store!SyncedRow(db[id]) \cup {None}
    ELSE row \in Store!RowFromMetax(user) \cup {None}

RequestsWrite ==
    \A c \in Requests : run[c].pc = "commit" =>
        \E id \in Ids : Writing(c) = {id} /\ RequestEffect(id, run[c].writes[id])

BatchesWrite ==
    \A c \in Syncs : \A id \in Writing(c) : BatchEffect(run[c].user, id, run[c].writes[id])

-----------------------------------------------------------------------------
(* The connection pool.                                                    *)

HeldBy == {c \in Clients : Holds(c) > 0}
HeldTwice == {c \in Clients : Holds(c) = 2}

LEMMA ClientsFinite == IsFiniteSet(Clients)
  BY TransactionsAssumption, FS_Union DEF Clients

\* Sets that differ in one element at most.
LEMMA OneApart ==
    ASSUME NEW S, NEW c, IsFiniteSet(S)
    PROVE  /\ IsFiniteSet(S \ {c})
           /\ Cardinality(S \ {c}) \in Nat
           /\ Cardinality(S) = Cardinality(S \ {c}) + (IF c \in S THEN 1 ELSE 0)
  <1>1. IsFiniteSet(S \ {c}) /\ Cardinality(S \ {c}) = IF c \in S THEN Cardinality(S) - 1 ELSE Cardinality(S)
    BY FS_RemoveElement
  <1>2. Cardinality(S) \in Nat /\ Cardinality(S \ {c}) \in Nat
    BY <1>1, FS_CardinalityType
  <1> QED BY <1>1, <1>2

\* A client that takes or returns connections keeps the sum of all of them.
LEMMA SumKept ==
    ASSUME ConnectionsAccounted, free \in Nat, free' \in Int, NEW c \in Clients,
           \A d \in Clients \ {c} : run'[d].pc = run[d].pc,
           free' + Holds(c)' = free + Holds(c)
    PROVE  ConnectionsAccounted'
  <1>1. /\ \A d \in Clients : Holds(d) \in {0, 1, 2} /\ Holds(d)' \in {0, 1, 2}
        /\ \A d \in Clients \ {c} : Holds(d)' = Holds(d)
    BY DEF Holds
  <1>2. /\ IsFiniteSet(HeldBy) /\ IsFiniteSet(HeldTwice)
        /\ IsFiniteSet(HeldBy') /\ IsFiniteSet(HeldTwice')
    BY ClientsFinite, FS_Subset DEF HeldBy, HeldTwice
  <1>3. HeldBy' \ {c} = HeldBy \ {c} /\ HeldTwice' \ {c} = HeldTwice \ {c}
    BY <1>1 DEF HeldBy, HeldTwice
  <1>4. /\ c \in HeldBy <=> Holds(c) \in {1, 2}
        /\ c \in HeldBy' <=> Holds(c)' \in {1, 2}
        /\ c \in HeldTwice <=> Holds(c) = 2
        /\ c \in HeldTwice' <=> Holds(c)' = 2
    BY <1>1 DEF HeldBy, HeldTwice
  <1>5. /\ Cardinality(HeldBy \ {c}) \in Nat
        /\ Cardinality(HeldBy) = Cardinality(HeldBy \ {c}) + (IF c \in HeldBy THEN 1 ELSE 0)
    BY <1>2, OneApart
  <1>8. Cardinality(HeldBy') = Cardinality(HeldBy' \ {c}) + (IF c \in HeldBy' THEN 1 ELSE 0)
    BY <1>2, OneApart
  <1>9. /\ Cardinality(HeldTwice \ {c}) \in Nat
        /\ Cardinality(HeldTwice) = Cardinality(HeldTwice \ {c}) + (IF c \in HeldTwice THEN 1 ELSE 0)
    BY <1>2, OneApart
  <1>10. Cardinality(HeldTwice') = Cardinality(HeldTwice' \ {c}) + (IF c \in HeldTwice' THEN 1 ELSE 0)
    BY <1>2, OneApart
  <1>6. free + Cardinality(HeldBy) + Cardinality(HeldTwice) = Conns
    BY DEF ConnectionsAccounted, HeldBy, HeldTwice
  <1> DEFINE h == Cardinality(HeldBy \ {c})
             t == Cardinality(HeldTwice \ {c})
  <1>11. /\ Cardinality(HeldBy) + Cardinality(HeldTwice) = h + t + Holds(c)
         /\ h \in Nat /\ t \in Nat
    <2>1. Cardinality(HeldBy) = h + (IF Holds(c) \in {1, 2} THEN 1 ELSE 0)
      BY <1>4, <1>5
    <2>2. Cardinality(HeldTwice) = t + (IF Holds(c) = 2 THEN 1 ELSE 0)
      BY <1>4, <1>9
    <2>3. h \in Nat /\ t \in Nat
      BY <1>5, <1>9
    <2> HIDE DEF h, t
    <2> QED BY <2>1, <2>2, <2>3, <1>1
  <1>12. Cardinality(HeldBy') + Cardinality(HeldTwice') = h + t + Holds(c)'
    <2>1. Cardinality(HeldBy') = h + (IF Holds(c)' \in {1, 2} THEN 1 ELSE 0)
      BY <1>3, <1>4, <1>8
    <2>2. Cardinality(HeldTwice') = t + (IF Holds(c)' = 2 THEN 1 ELSE 0)
      BY <1>3, <1>4, <1>10
    <2>3. h \in Nat /\ t \in Nat
      BY <1>5, <1>9
    <2> HIDE DEF h, t
    <2> QED BY <2>1, <2>2, <2>3, <1>1
  <1>13. /\ Cardinality(HeldBy) \in Nat /\ Cardinality(HeldTwice) \in Nat
         /\ Cardinality(HeldBy') \in Nat /\ Cardinality(HeldTwice') \in Nat
    BY <1>2, FS_CardinalityType
  <1>7. free' + Cardinality(HeldBy') + Cardinality(HeldTwice') = Conns
    <2> HIDE DEF h, t
    <2> QED BY <1>1, <1>6, <1>11, <1>12, <1>13
  <1> QED BY <1>7 DEF ConnectionsAccounted, HeldBy, HeldTwice

\* Nobody holds more connections than there are.
LEMMA FreeBounded ==
    ASSUME ConnectionsAccounted, free \in Int
    PROVE  free <= Conns
  <1>1. IsFiniteSet(HeldBy) /\ IsFiniteSet(HeldTwice)
    BY ClientsFinite, FS_Subset DEF HeldBy, HeldTwice
  <1>2. Cardinality(HeldBy) \in Nat /\ Cardinality(HeldTwice) \in Nat
    BY <1>1, FS_CardinalityType
  <1>3. free + Cardinality(HeldBy) + Cardinality(HeldTwice) = Conns
    BY DEF ConnectionsAccounted, HeldBy, HeldTwice
  <1> QED BY <1>2, <1>3, TransactionsAssumption

-----------------------------------------------------------------------------
(* The steps, by what they mean to other clients.                          *)

\* A step of one client.
Turn(c) ==
    /\ run' = [run EXCEPT ![c] = run'[c]]
    /\ RunOK(run'[c])
    /\ Where(c, run'[c])

\* A step that neither writes nor commits.
QuietStep(c) ==
    /\ Turn(c)
    /\ UNCHANGED <<db, minted>>
    /\ \/ run'[c].writes = NoWrites
       \/ run'[c].writes = run[c].writes /\ run'[c].user = run[c].user
    /\ c \in Requests => run'[c].pc # "commit"
    /\ \A id \in Claims(run'[c]) : Settled(c, run'[c].user, id)

\* A write of a row whose lock is free, or which is new.
WriteStep(c, id, row) ==
    /\ Turn(c)
    /\ run[c].pc = "write"
    /\ run'[c].writes = With(run[c].writes, id, row)
    /\ run'[c].user = run[c].user
    /\ run'[c].known = run[c].known
    /\ run'[c].pc \in {"record", "commit"}
    /\ UNCHANGED db
    /\ id \in Ids
    /\ \/ id \notin minted /\ minted' = minted \cup {id}
       \/ minted' = minted /\ id \notin Locked(c) /\ id \in DOMAIN Visible(c)
    /\ c \in Requests => RequestEffect(id, row)
    /\ c \in Syncs => BatchEffect(run[c].user, id, row)

\* All of the invariant that is not about the pool.
Rest ==
    /\ IsTable(db)
    /\ minted \in SUBSET Ids
    /\ run = [c \in Clients |-> run[c]]
    /\ \A c \in Clients : RunOK(run[c])
    /\ IdsMinted
    /\ LocksExclude
    /\ ClientsWhere
    /\ ClaimsSettled
    /\ RequestsWrite
    /\ BatchesWrite

\* The steps of a client leave the records of the others alone.
LEMMA TurnOthers ==
    ASSUME Rest, NEW c \in Clients, Turn(c)
    PROVE  /\ run' = [d \in Clients |-> run'[d]]
           /\ \A d \in Clients \ {c} : run'[d] = run[d]
           /\ \A d \in Clients : RunOK(run'[d])
           /\ ClientsWhere'
  <1>1. run = [d \in Clients |-> run[d]]
    BY DEF Rest
  <1>2. run' = [run EXCEPT ![c] = run'[c]]
    BY DEF Turn
  <1>3. run' = [d \in Clients |-> run'[d]] /\ \A d \in Clients \ {c} : run'[d] = run[d]
    BY <1>1, <1>2
  <1>4. \A d \in Clients : RunOK(run'[d])
    BY <1>3 DEF Turn, Rest
  <1>5. \A d \in Clients : Where(d, run'[d])
    BY <1>3 DEF Turn, Rest, ClientsWhere
  <1> QED BY <1>3, <1>4, <1>5 DEF ClientsWhere

LEMMA QuietKeeps ==
    ASSUME Rest, NEW c \in Clients, QuietStep(c)
    PROVE  Rest'
  <1>1. /\ run' = [d \in Clients |-> run'[d]]
        /\ \A d \in Clients \ {c} : run'[d] = run[d]
        /\ \A d \in Clients : RunOK(run'[d])
        /\ ClientsWhere'
    BY TurnOthers DEF QuietStep
  <1>2. db' = db /\ minted' = minted
    BY DEF QuietStep
  <1>3. \A d \in Clients : Writing(d)' \subseteq Writing(d)
    BY <1>1 DEF QuietStep, Writing, NoWrites
  <1>4. \A d \in Clients : Locked(d)' \subseteq Locked(d)
    BY <1>3 DEF Locked, Writing
  <1>5. IdsMinted'
    BY <1>2, <1>3 DEF IdsMinted, Rest
  <1>6. LocksExclude'
    BY <1>3 DEF LocksExclude, Rest
  <1>7. ClaimsSettled'
    <2> SUFFICES ASSUME NEW d \in Clients, NEW id \in Claims(run'[d])
                 PROVE  Settled(d, run[d].user, id)'
      BY DEF ClaimsSettled
    <2>1. Settled(d, run'[d].user, id)
      BY <1>1 DEF QuietStep, ClaimsSettled, Rest
    <2> QED BY <2>1, <1>2, <1>4 DEF Settled
  <1>8. RequestsWrite'
    <2> SUFFICES ASSUME NEW d \in Requests, run'[d].pc = "commit"
                 PROVE  \E id \in Ids : /\ DOMAIN run'[d].writes = {id}
                                       /\ RequestEffect(id, run[d].writes[id])'
      BY DEF RequestsWrite, Writing
    <2>1. d # c /\ d \in Clients
      BY DEF QuietStep, Clients
    <2>2. run'[d] = run[d]
      BY <1>1, <2>1
    <2>3. PICK id \in Ids : Writing(d) = {id} /\ RequestEffect(id, run[d].writes[id])
      BY <2>2 DEF RequestsWrite, Rest
    <2> QED BY <1>2, <2>2, <2>3 DEF RequestEffect, Writing
  <1>9. BatchesWrite'
    <2> SUFFICES ASSUME NEW d \in Syncs, NEW id \in DOMAIN run'[d].writes
                 PROVE  BatchEffect(run[d].user, id, run[d].writes[id])'
      BY DEF BatchesWrite, Writing
    <2>1. d \in Clients
      BY DEF Clients
    <2>2. run'[d].writes = run[d].writes /\ run'[d].user = run[d].user
      BY <1>1, <2>1 DEF QuietStep, NoWrites
    <2>3. BatchEffect(run[d].user, id, run[d].writes[id])
      BY <2>2 DEF BatchesWrite, Rest, Writing
    <2> QED BY <1>2, <2>2, <2>3 DEF BatchEffect
  <1> QED BY <1>1, <1>2, <1>5, <1>6, <1>7, <1>8, <1>9 DEF Rest

\* The rows a transaction wrote are typed, and what it sees is a table.
LEMMA VisibleTyped ==
    ASSUME Rest, NEW c \in Clients
    PROVE  /\ DOMAIN Visible(c) \subseteq DOMAIN db \cup Writing(c)
           /\ \A id \in DOMAIN Visible(c) :
                 /\ id \in Ids
                 /\ Visible(c)[id] \in Row
                 /\ id \notin Writing(c) => id \in DOMAIN db /\ Visible(c)[id] = db[id]
                 /\ id \in Writing(c) => Visible(c)[id] = run[c].writes[id] /\ run[c].writes[id] # None
  <1>1. AreWrites(run[c].writes) /\ IsTable(db)
    BY DEF Rest, RunOK
  <1> QED BY <1>1 DEF Visible, Applied, AreWrites, IsTable, Writing

LEMMA WriteKeeps ==
    ASSUME Rest, NEW c \in Clients, NEW id, NEW row, WriteStep(c, id, row)
    PROVE  Rest'
  <1>1. /\ run' = [d \in Clients |-> run'[d]]
        /\ \A d \in Clients \ {c} : run'[d] = run[d]
        /\ \A d \in Clients : RunOK(run'[d])
        /\ ClientsWhere'
    BY TurnOthers DEF WriteStep
  <1>2. db' = db /\ id \in Ids /\ minted \subseteq minted' /\ id \in minted' /\ minted' \in SUBSET Ids
    <2>1. id \in DOMAIN Visible(c) => id \in DOMAIN db \cup Writing(c)
      BY VisibleTyped
    <2> QED BY <2>1 DEF WriteStep, Rest, IdsMinted
  <1>3. /\ Writing(c)' = Writing(c) \cup {id}
        /\ \A d \in Clients \ {c} : Writing(d)' = Writing(d)
    BY <1>1 DEF WriteStep, Writing, With
  <1>4. \A d \in Clients \ {c} : id \notin Writing(d)
    BY DEF WriteStep, Rest, IdsMinted, Locked, Writing
  <1>5. IdsMinted'
    BY <1>2, <1>3 DEF IdsMinted, Rest
  <1>6. LocksExclude'
    BY <1>3, <1>4 DEF LocksExclude, Rest
  <1>7. ClaimsSettled'
    <2> SUFFICES ASSUME NEW d \in Clients, NEW k \in Claims(run'[d])
                 PROVE  Settled(d, run[d].user, k)'
      BY DEF ClaimsSettled
    <2>1. Settled(d, run'[d].user, k)
      <3>1. CASE d = c
        BY <3>1 DEF WriteStep, ClaimsSettled, Rest, Claims
      <3>2. CASE d # c
        BY <3>2, <1>1 DEF ClaimsSettled, Rest
      <3> QED BY <3>1, <3>2
    <2>2. k \in DOMAIN db => Settled(d, run[d].user, k)'
      BY <2>1, <1>2 DEF Settled
    <2>3. ASSUME k \notin DOMAIN db
          PROVE  k \notin Locked(d)'
      <3>1. k \in minted /\ k \notin Locked(d)
        BY <2>1, <2>3 DEF Settled
      <3>2. \A e \in Clients \ {d} : k \notin Writing(e)
        BY <3>1 DEF Locked, Writing
      <3>3. d # c => k # id
        <4>1. id \in minted => id \in DOMAIN db \cup Writing(c)
          BY VisibleTyped DEF WriteStep
        <4> QED BY <4>1, <3>1, <3>2, <2>3
      <3>4. \A e \in Clients \ {d} : k \notin Writing(e)'
        BY <3>2, <3>3, <1>3
      <3> QED BY <3>4 DEF Locked, Writing
    <2> QED BY <2>1, <2>2, <2>3, <1>2 DEF Settled
  <1>8. RequestsWrite'
    <2> SUFFICES ASSUME NEW d \in Requests, run'[d].pc = "commit"
                 PROVE  \E k \in Ids : /\ DOMAIN run'[d].writes = {k}
                                      /\ RequestEffect(k, run[d].writes[k])'
      BY DEF RequestsWrite, Writing
    <2> d \in Clients
      BY DEF Clients
    <2>1. CASE d = c
      <3>1. run[c].writes = NoWrites
        BY <2>1 DEF WriteStep, Rest, ClientsWhere, Where, RequestWhere
      <3>2. DOMAIN run'[c].writes = {id} /\ run'[c].writes[id] = row
        BY <3>1 DEF WriteStep, With, NoWrites
      <3>3. RequestEffect(id, row)
        BY <2>1 DEF WriteStep
      <3>4. RequestEffect(id, run[c].writes[id])'
        BY <3>2, <3>3, <1>2 DEF RequestEffect
      <3> QED BY <2>1, <3>2, <3>4, <1>2
    <2>2. CASE d # c
      <3>1. PICK k \in Ids : Writing(d) = {k} /\ RequestEffect(k, run[d].writes[k])
        BY <2>2, <1>1 DEF RequestsWrite, Rest
      <3> QED BY <2>2, <1>1, <1>2, <3>1 DEF RequestEffect, Writing
    <2> QED BY <2>1, <2>2
  <1>9. BatchesWrite'
    <2> SUFFICES ASSUME NEW d \in Syncs, NEW k \in DOMAIN run'[d].writes
                 PROVE  BatchEffect(run[d].user, k, run[d].writes[k])'
      BY DEF BatchesWrite, Writing
    <2> d \in Clients
      BY DEF Clients
    <2>1. CASE d = c /\ k = id
      <3>1. run'[c].writes[id] = row
        BY DEF WriteStep, With
      <3>2. BatchEffect(run[c].user, id, row)
        BY <2>1 DEF WriteStep
      <3> QED BY <2>1, <3>1, <3>2, <1>2 DEF BatchEffect, WriteStep
    <2>2. CASE ~(d = c /\ k = id)
      <3>1. /\ k \in Writing(d) /\ run'[d].writes[k] = run[d].writes[k]
            /\ run'[d].user = run[d].user
        BY <2>2, <1>1 DEF WriteStep, With, Writing
      <3>2. BatchEffect(run[d].user, k, run[d].writes[k])
        BY <3>1 DEF BatchesWrite, Rest
      <3> QED BY <3>1, <3>2, <1>2 DEF BatchEffect
    <2> QED BY <2>1, <2>2
  <1> QED BY <1>1, <1>2, <1>5, <1>6, <1>7, <1>8, <1>9 DEF Rest

LEMMA IdleOK == RunOK(Idle) /\ \A c \in Clients : Where(c, Idle)
  <1>1. Idle.writes = NoWrites /\ DOMAIN NoWrites = {} /\ Idle.pc = "idle"
    BY DEF Idle, NoWrites
  <1>2. AreWrites(Idle.writes)
    BY <1>1 DEF AreWrites, NoWrites
  <1>3. 0 \in 0..Records
    BY TransactionsAssumption
  <1>4. Idle \in [pc : PCs, kind : RequestKinds \cup BatchKinds \cup {None},
                 user : Users \cup {None}, id : Ids \cup {None}, known : SUBSET Ids,
                 left : 0..Records, writes : {Idle.writes}]
    BY <1>3 DEF Idle, PCs
  <1>5. \A c \in Clients : Where(c, Idle)
    BY <1>1 DEF Where, RequestWhere, BatchWhere
  <1> QED BY <1>2, <1>4, <1>5 DEF RunOK

\* A commit does not touch the rows of other transactions, and leaves every row
\* it changes to its owner.
LEMMA CommitKeeps ==
    ASSUME Rest, NEW c \in Clients, Commit(c)
    PROVE  Rest'
  <1>1. /\ run' = [run EXCEPT ![c] = Idle]
        /\ minted' = minted
        /\ db' = Visible(c)
    BY DEF Commit, Release, Visible
  <1>2. Turn(c) /\ run'[c] = Idle
    BY <1>1, IdleOK DEF Turn, Rest
  <1>3. /\ run' = [d \in Clients |-> run'[d]]
        /\ \A d \in Clients \ {c} : run'[d] = run[d]
        /\ \A d \in Clients : RunOK(run'[d])
        /\ ClientsWhere'
    BY TurnOthers, <1>2
  <1>4. /\ IsTable(db')
        /\ \A id \in DOMAIN db' :
              /\ id \notin Writing(c) => id \in DOMAIN db /\ db'[id] = db[id]
              /\ id \in Writing(c) => db'[id] = run[c].writes[id] /\ run[c].writes[id] # None
        /\ \A id \in DOMAIN db \ Writing(c) : id \in DOMAIN db'
    <2>1. db' = [id \in DOMAIN db' |-> db'[id]]
      BY <1>1 DEF Visible, Applied
    <2>2. \A id \in DOMAIN db \ Writing(c) : id \in DOMAIN db'
      BY <1>1 DEF Visible, Applied, Writing
    <2> QED BY <2>1, <2>2, <1>1, VisibleTyped DEF IsTable
  <1>5. Writing(c)' = {} /\ \A d \in Clients \ {c} : Writing(d)' = Writing(d)
    BY <1>2, <1>3 DEF Writing, Idle, NoWrites
  <1>6. IdsMinted'
    BY <1>1, <1>4, <1>5, VisibleTyped DEF IdsMinted, Rest
  <1>7. LocksExclude'
    BY <1>5 DEF LocksExclude, Rest
  <1>8. \A d \in Clients \ {c} : \A id \in Writing(d) :
           /\ id \in DOMAIN db <=> id \in DOMAIN db'
           /\ id \in DOMAIN db => db'[id] = db[id]
    BY <1>4 DEF Rest, LocksExclude
  <1>9. \A id \in DOMAIN db \cap DOMAIN db' : db'[id].owner = db[id].owner
    <2> SUFFICES ASSUME NEW id \in DOMAIN db, id \in DOMAIN db', id \in Writing(c)
                 PROVE  db'[id].owner = db[id].owner
      BY <1>4
    <2>1. db[id] \in Row /\ db'[id] = run[c].writes[id] /\ run[c].writes[id] # None
      BY <1>4 DEF Rest, IsTable
    <2>2. CASE c \in Requests
      <3>1. PICK k \in Ids : Writing(c) = {k} /\ RequestEffect(k, run[c].writes[k])
        BY <2>2 DEF Commit, At, RequestsWrite, Rest
      <3>2. RequestEffect(id, run[c].writes[id])
        BY <3>1
      <3>3. CASE \E rd \in Contents, cum \in Cums \cup {None} :
                    run[c].writes[id] = PatchRow(db[id], UpdateData(id, rd, cum))
        BY <3>3, <2>1 DEF PatchRow, Row
      <3>4. CASE \E blob \in Store!MetaxBlob, t \in Times :
                    run[c].writes[id] = PublishedRow(db[id], blob, t)
        BY <3>4, <2>1 DEF PublishedRow, Row
      <3> QED BY <3>2, <3>3, <3>4, <2>1 DEF RequestEffect
    <2>3. CASE c \in Syncs
      <3>1. BatchEffect(run[c].user, id, run[c].writes[id])
        BY <2>3 DEF BatchesWrite, Rest
      <3> QED BY <3>1, <2>1 DEF BatchEffect, Store!SyncedRow
    <2> QED BY <2>2, <2>3 DEF Clients
  <1>10. ClaimsSettled'
    <2> SUFFICES ASSUME NEW d \in Clients, NEW id \in Claims(run'[d])
                 PROVE  Settled(d, run[d].user, id)'
      BY DEF ClaimsSettled
    <2>1. d # c /\ run'[d] = run[d]
      BY <1>2, <1>3 DEF Claims, Idle
    <2>2. Settled(d, run[d].user, id)
      BY <2>1 DEF ClaimsSettled, Rest
    <2>3. id \in DOMAIN db' => id \in DOMAIN db /\ db'[id].owner = run'[d].user
      <3>1. id \in DOMAIN db' => id \in DOMAIN db \cup Writing(c)
        BY <1>4
      <3>2. id \notin DOMAIN db => id \notin Writing(c)
        BY <2>1, <2>2 DEF Settled, Locked, Writing
      <3>3. id \in DOMAIN db => db[id].owner = run[d].user
        BY <2>2 DEF Settled
      <3> QED BY <3>1, <3>2, <3>3, <2>1, <1>9
    <2>4. ASSUME id \notin DOMAIN db'
          PROVE  id \notin Locked(d)'
      <3>1. \A e \in Clients \ {c, d} : id \notin Writing(e)
        <4>1. CASE id \in DOMAIN db
          <5>1. id \in Writing(c)
            BY <4>1, <2>4, <1>4
          <5> QED BY <5>1 DEF Rest, LocksExclude
        <4>2. CASE id \notin DOMAIN db
          BY <4>2, <2>2 DEF Settled, Locked, Writing
        <4> QED BY <4>1, <4>2
      <3>2. \A e \in Clients \ {d} : id \notin Writing(e)'
        BY <3>1, <1>5
      <3> QED BY <3>2 DEF Locked, Writing
    <2> QED BY <2>2, <2>3, <2>4, <1>1 DEF Settled
  <1>11. RequestsWrite'
    <2> SUFFICES ASSUME NEW d \in Requests, run'[d].pc = "commit"
                 PROVE  \E id \in Ids : /\ DOMAIN run'[d].writes = {id}
                                       /\ RequestEffect(id, run[d].writes[id])'
      BY DEF RequestsWrite, Writing
    <2>1. d # c /\ d \in Clients /\ run'[d] = run[d]
      BY <1>2, <1>3 DEF Idle, Clients
    <2>2. PICK id \in Ids : Writing(d) = {id} /\ RequestEffect(id, run[d].writes[id])
      BY <2>1 DEF RequestsWrite, Rest
    <2>3. (id \in DOMAIN db <=> id \in DOMAIN db') /\ (id \in DOMAIN db => db'[id] = db[id])
      BY <2>1, <2>2, <1>8
    <2> QED BY <2>1, <2>2, <2>3 DEF RequestEffect, Writing, Owned
  <1>12. BatchesWrite'
    <2> SUFFICES ASSUME NEW d \in Syncs, NEW id \in DOMAIN run'[d].writes
                 PROVE  BatchEffect(run[d].user, id, run[d].writes[id])'
      BY DEF BatchesWrite, Writing
    <2>1. d # c /\ d \in Clients /\ run'[d] = run[d]
      BY <1>2, <1>3 DEF Idle, Clients, NoWrites
    <2>2. BatchEffect(run[d].user, id, run[d].writes[id]) /\ id \in Writing(d)
      BY <2>1 DEF BatchesWrite, Rest, Writing
    <2> QED BY <2>1, <2>2, <1>8 DEF BatchEffect
  <1> QED BY <1>1, <1>3, <1>4, <1>6, <1>7, <1>10, <1>11, <1>12 DEF Rest

LEMMA RestartKeeps ==
    ASSUME Rest, Restart
    PROVE  Rest'
  <1>1. db' = db /\ minted' = minted /\ run' = [c \in Clients |-> Idle]
    BY DEF Restart
  <1>2. \A c \in Clients : RunOK(run'[c]) /\ Where(c, run'[c])
    BY <1>1, IdleOK
  <1>3. \A c \in Clients : DOMAIN run'[c].writes = {} /\ Claims(run'[c]) = {} /\ run'[c].pc = "idle"
    BY <1>1 DEF Idle, NoWrites, Claims
  <1> QED BY <1>1, <1>2, <1>3
      DEF Rest, IdsMinted, LocksExclude, ClientsWhere, ClaimsSettled, RequestsWrite, BatchesWrite,
          Writing, Clients

-----------------------------------------------------------------------------
(* Every action but Commit and Restart is a quiet step or a write.         *)

\* A client goes on to r.
LEMMA GoesOn ==
    ASSUME Rest, NEW c \in Clients, NEW r, run' = [run EXCEPT ![c] = r],
           RunOK(r), Where(c, r), UNCHANGED <<db, minted>>,
           r.writes = NoWrites \/ (r.writes = run[c].writes /\ r.user = run[c].user),
           c \in Requests => r.pc # "commit",
           \A id \in Claims(r) : Settled(c, r.user, id)
    PROVE  QuietStep(c)
  <1>1. run'[c] = r
    BY DEF Rest
  <1> QED BY <1>1 DEF QuietStep, Turn

\* The client's operation ends.
LEMMA Ends ==
    ASSUME Rest, NEW c \in Clients, run' = [run EXCEPT ![c] = Idle], UNCHANGED <<db, minted>>
    PROVE  QuietStep(c)
  <1>1. Claims(Idle) = {} /\ Idle.pc = "idle" /\ Idle.writes = NoWrites
    BY DEF Claims, Idle
  <1> QED BY <1>1, IdleOK, GoesOn

LEMMA RollsBack ==
    ASSUME Rest, NEW c \in Clients, Rollback(c)
    PROVE  QuietStep(c)
  BY Ends DEF Rollback, Release

\* The client goes on to another place in its operation.
LEMMA GoesTo ==
    ASSUME Rest, NEW c \in Clients, NEW pc \in PCs, Goto(c, pc), UNCHANGED <<db, minted>>,
           Where(c, [run[c] EXCEPT !.pc = pc]),
           c \in Requests => pc # "commit",
           Claims([run[c] EXCEPT !.pc = pc]) \subseteq Claims(run[c])
    PROVE  QuietStep(c)
  <1> DEFINE r == [run[c] EXCEPT !.pc = pc]
  <1>1. RunOK(run[c])
    BY DEF Rest
  <1>2. /\ RunOK(r)
        /\ r.writes = run[c].writes /\ r.user = run[c].user /\ r.pc = pc
    BY <1>1 DEF RunOK
  <1>3. \A id \in Claims(r) : Settled(c, r.user, id)
    BY <1>2 DEF Rest, ClaimsSettled
  <1>4. run' = [run EXCEPT ![c] = r]
    BY DEF Goto, Rest
  <1> HIDE DEF r
  <1> QED BY <1>2, <1>3, <1>4, GoesOn DEF r

\* What is known of a client's record.
LEMMA RunTyped ==
    ASSUME Rest, NEW c \in Clients
    PROVE  /\ RunOK(run[c]) /\ Where(c, run[c])
           /\ run[c].pc \in PCs
           /\ run[c].kind \in RequestKinds \cup BatchKinds \cup {None}
           /\ run[c].user \in Users \cup {None}
           /\ run[c].id \in Ids \cup {None}
           /\ run[c].known \in SUBSET Ids
           /\ run[c].left \in 0..Records
           /\ AreWrites(run[c].writes)
           /\ run[c] = [pc |-> run[c].pc, kind |-> run[c].kind, user |-> run[c].user,
                        id |-> run[c].id, known |-> run[c].known, left |-> run[c].left,
                        writes |-> run[c].writes]
  BY DEF Rest, RunOK, ClientsWhere

LEMMA CallIsQuiet ==
    ASSUME Rest, NEW c \in Clients, Call(c)
    PROVE  QuietStep(c)
  <1>1. Where(c, run[c]) /\ RunOK(run[c]) /\ run[c].pc = "idle"
    BY RunTyped DEF Call, At
  <1>2. Where(c, [run[c] EXCEPT !.pc = "begin"])
    BY <1>1, RunTyped DEF Where, RequestWhere, BatchWhere
  <1>3. Claims([run[c] EXCEPT !.pc = "begin"]) \subseteq Claims(run[c])
    BY RunTyped DEF Claims
  <1> QED BY <1>2, <1>3, GoesTo DEF Call, PCs

LEMMA BeginIsQuiet ==
    ASSUME Rest, NEW c \in Clients, Begin(c)
    PROVE  QuietStep(c)
  <1>1. PICK kind \in Kinds \cap RequestKinds, user \in Users, id \in Ids \cup {None} :
           /\ id = None <=> kind \in {"create", "list"}
           /\ run' = [run EXCEPT ![c] = [Idle EXCEPT !.pc = FirstStep(kind), !.kind = kind,
                                                     !.user = user, !.id = id]]
    BY DEF Begin
  <1> DEFINE r == [Idle EXCEPT !.pc = FirstStep(kind), !.kind = kind, !.user = user, !.id = id]
  <1>2. /\ c \in Requests /\ c \notin Syncs /\ UNCHANGED <<db, minted>>
        /\ kind \in RequestKinds
    BY TransactionsAssumption DEF Begin
  <1>9. Idle.known = {} /\ Idle.writes = NoWrites /\ RunOK(Idle)
    BY IdleOK DEF Idle
  <1>3. /\ r.pc = FirstStep(kind) /\ r.kind = kind /\ r.user = user /\ r.id = id
        /\ r.known = {} /\ r.writes = NoWrites
    BY <1>9 DEF RunOK
  <1>4. /\ FirstStep(kind) \in {"check", "read", "write"}
        /\ FirstStep(kind) = "check" <=> kind \in OwnerChecked
        /\ FirstStep(kind) = "read" <=> kind \in {"list", "versions"}
    BY <1>2 DEF FirstStep, OwnerChecked, RequestKinds
  <1>6. RunOK(r)
    BY <1>1, <1>2, <1>4, <1>9 DEF RunOK, PCs
  <1> HIDE DEF r
  <1>7. Where(c, r)
    BY <1>1, <1>2, <1>3, <1>4 DEF Where, RequestWhere, RequestKinds, OwnerChecked
  <1>8. Claims(r) = {}
    BY <1>2, <1>3, <1>4 DEF Claims, RequestKinds, OwnerChecked
  <1> QED BY <1>1, <1>2, <1>3, <1>4, <1>6, <1>7, <1>8, GoesOn DEF r

LEMMA NewBatchIsQuiet ==
    ASSUME Rest, NEW c \in Clients, NewBatchForUser(c)
    PROVE  QuietStep(c)
  <1>1. PICK user \in Syncing :
           run' = [run EXCEPT ![c] = [Idle EXCEPT !.pc = "query", !.user = user, !.left = Records]]
    BY DEF NewBatchForUser
  <1> DEFINE r == [Idle EXCEPT !.pc = "query", !.user = user, !.left = Records]
  <1>2. /\ c \in Syncs /\ c \notin Requests /\ UNCHANGED <<db, minted>> /\ user \in Users
    BY TransactionsAssumption DEF NewBatchForUser
  <1>9. Idle.known = {} /\ Idle.writes = NoWrites /\ RunOK(Idle)
    BY IdleOK DEF Idle
  <1>3. /\ r.pc = "query" /\ r.user = user /\ r.known = {} /\ r.writes = NoWrites
    BY <1>9 DEF RunOK
  <1>4. Records \in 0..Records
    BY TransactionsAssumption
  <1>5. RunOK(r)
    BY <1>2, <1>4, <1>9 DEF RunOK, PCs
  <1> HIDE DEF r
  <1>6. Where(c, r) /\ Claims(r) = {}
    BY <1>2, <1>3 DEF Where, BatchWhere, Claims
  <1> QED BY <1>1, <1>2, <1>3, <1>5, <1>6, GoesOn DEF r

LEMMA CheckOwnerIsQuiet ==
    ASSUME Rest, NEW c \in Clients, CheckOwner(c)
    PROVE  QuietStep(c)
  <1>1. CASE ~Owns(c)
    BY <1>1, RollsBack DEF CheckOwner
  <1>2. CASE Owns(c)
    <2> DEFINE pc == CASE run[c].kind = "get" -> "read"
                       [] run[c].kind = "delete" -> "write"
                       [] OTHER -> "family"
               r == [run[c] EXCEPT !.pc = pc]
    <2>1. Goto(c, pc) /\ UNCHANGED <<db, minted>> /\ run[c].pc = "check"
      BY <1>2 DEF CheckOwner, At
    <2>2. /\ c \in Requests /\ c \notin Syncs
          /\ run[c].kind \in OwnerChecked /\ run[c].id \in Ids /\ run[c].writes = NoWrites
          /\ run[c].user \in Users
      BY <2>1, RunTyped, TransactionsAssumption DEF Where, RequestWhere, BatchWhere, Clients
    <2>3. /\ pc \in {"read", "write", "family"}
          /\ pc = "read" => run[c].kind = "get"
          /\ pc = "write" => run[c].kind = "delete"
          /\ pc = "family" => run[c].kind \in {"view", "update"}
      BY <2>2 DEF OwnerChecked
    <2> HIDE DEF pc
    <2>4. /\ r.pc = pc /\ r.kind = run[c].kind /\ r.user = run[c].user /\ r.id = run[c].id
          /\ r.known = run[c].known /\ r.writes = NoWrites
          /\ RunOK(r)
      BY <2>2, <2>3, RunTyped DEF RunOK, PCs
    <2>5. Where(c, r)
      BY <2>2, <2>3, <2>4 DEF Where, RequestWhere
    <2>6. \A id \in Claims(r) : Settled(c, r.user, id)
      <3>1. run[c].id \in DOMAIN db /\ db[run[c].id].owner = run[c].user /\ run[c].id \in minted
        BY <1>2 DEF Owns, Owned, Rest, IdsMinted
      <3>2. Settled(c, run[c].user, run[c].id)
        BY <3>1 DEF Settled
      <3>3. \A id \in run[c].known : Settled(c, run[c].user, id)
        BY DEF Rest, ClaimsSettled, Claims
      <3>4. Claims(r) \subseteq run[c].known \cup {run[c].id}
        BY <2>4 DEF Claims
      <3> QED BY <3>2, <3>3, <3>4, <2>4
    <2>7. run' = [run EXCEPT ![c] = r]
      BY <2>1 DEF Goto, Rest
    <2> HIDE DEF r
    <2> QED BY <2>1, <2>3, <2>4, <2>5, <2>6, <2>7, GoesOn
  <1> QED BY <1>1, <1>2

LEMMA getFamilyIsQuiet ==
    ASSUME Rest, NEW c \in Clients, getFamily(c)
    PROVE  QuietStep(c)
  <1>1. CASE run[c].id \notin DOMAIN db
    BY <1>1, RollsBack DEF getFamily
  <1>2. CASE run[c].id \in DOMAIN db
    <2> DEFINE pc == IF run[c].kind = "view" THEN "read" ELSE "write"
    <2>1. Goto(c, pc) /\ UNCHANGED <<db, minted>> /\ run[c].pc = "family"
      BY <1>2 DEF getFamily, At
    <2>2. /\ c \in Requests /\ c \notin Syncs
          /\ run[c].kind \in {"view", "update"} /\ run[c].writes = NoWrites
          /\ run[c].user \in Users
      BY <2>1, RunTyped, TransactionsAssumption DEF Where, RequestWhere, BatchWhere, Clients
    <2>3. /\ pc \in {"read", "write"}
          /\ pc = "read" => run[c].kind = "view"
          /\ pc = "write" => run[c].kind = "update"
      BY <2>2
    <2> HIDE DEF pc
    <2>4. Where(c, [run[c] EXCEPT !.pc = pc])
      BY <2>2, <2>3, RunTyped DEF Where, RequestWhere
    <2>5. Claims([run[c] EXCEPT !.pc = pc]) \subseteq Claims(run[c])
      BY <2>1, <2>2, RunTyped DEF Claims, OwnerChecked
    <2> QED BY <2>1, <2>3, <2>4, <2>5, GoesTo DEF PCs
  <1> QED BY <1>1, <1>2

LEMMA StepsOnAreQuiet ==
    ASSUME Rest, NEW c \in Clients,
           \/ ReadStreamChannel(c) \/ getSyncInfo(c) \/ getSyncInfoFails(c)
           \/ EndOfRecords(c) \/ writeStamp(c) \/ FailRows(c)
    PROVE  QuietStep(c)
  <1>1. PICK pc \in {"info", "stamp", "rows", "record", "commit"} :
           /\ Goto(c, pc) /\ UNCHANGED <<db, minted>>
           /\ pc = "info" => run[c].pc = "query"
           /\ pc = "rows" => run[c].pc = "info"
           /\ pc = "record" => run[c].pc \in {"info", "rows"}
           /\ pc = "stamp" => run[c].pc \in {"query", "record"}
           /\ pc = "commit" => run[c].pc = "stamp"
    <2>1. CASE ReadStreamChannel(c)
      BY <2>1 DEF ReadStreamChannel, At
    <2>2. CASE getSyncInfo(c)
      BY <2>2 DEF getSyncInfo, At
    <2>3. CASE getSyncInfoFails(c)
      BY <2>3 DEF getSyncInfoFails, At
    <2>4. CASE EndOfRecords(c)
      BY <2>4 DEF EndOfRecords, At
    <2>5. CASE writeStamp(c)
      BY <2>5 DEF writeStamp, At
    <2>6. CASE FailRows(c)
      BY <2>6 DEF FailRows, At
    <2> QED BY <2>1, <2>2, <2>3, <2>4, <2>5, <2>6
  <1>2. /\ run[c].pc \in {"query", "info", "rows", "record", "stamp"}
        /\ c \in Syncs /\ c \notin Requests /\ BatchWhere(run[c]) /\ run[c].user \in Users
    BY <1>1, RunTyped, TransactionsAssumption DEF Where, RequestWhere, Clients
  <1>3. Where(c, [run[c] EXCEPT !.pc = pc])
    BY <1>1, <1>2, RunTyped DEF Where, BatchWhere
  <1>4. Claims([run[c] EXCEPT !.pc = pc]) \subseteq Claims(run[c])
    BY RunTyped DEF Claims
  <1> QED BY <1>1, <1>2, <1>3, <1>4, GoesTo DEF PCs

LEMMA GetAllForUidIsQuiet ==
    ASSUME Rest, NEW c \in Clients, GetAllForUid(c)
    PROVE  QuietStep(c)
  <1> DEFINE r == [run[c] EXCEPT !.pc = "record", !.known = Owned(db, run[c].user)]
  <1>1. run' = [run EXCEPT ![c] = r] /\ UNCHANGED <<db, minted>> /\ run[c].pc = "rows"
    BY DEF GetAllForUid, At, Rest
  <1>2. /\ c \in Syncs /\ c \notin Requests /\ BatchWhere(run[c]) /\ run[c].user \in Users
    BY <1>1, RunTyped, TransactionsAssumption DEF Where, RequestWhere, Clients
  <1>3. Owned(db, run[c].user) \in SUBSET Ids
    BY DEF Owned, Rest, IsTable
  <1>4. /\ r.pc = "record" /\ r.user = run[c].user /\ r.writes = run[c].writes
        /\ r.known = Owned(db, run[c].user)
        /\ RunOK(r)
    BY <1>3, RunTyped DEF RunOK, PCs
  <1> HIDE DEF r
  <1>5. Where(c, r)
    BY <1>2, <1>4 DEF Where, BatchWhere
  <1>6. \A id \in Claims(r) : Settled(c, r.user, id)
    BY <1>4 DEF Claims, Settled, Owned, Rest, IdsMinted
  <1> QED BY <1>1, <1>2, <1>4, <1>5, <1>6, GoesOn

LEMMA NextRecordIsQuiet ==
    ASSUME Rest, NEW c \in Clients, NextRecord(c)
    PROVE  QuietStep(c)
  <1>1. PICK kind \in Kinds \cap BatchKinds, id \in minted \cup {None} :
           /\ id = None <=> kind = "import"
           /\ kind \in {"synced", "remove"} => id \in run[c].known
           /\ kind = "refresh" => id \in Nameable(c)
           /\ run' = [run EXCEPT ![c].pc = "write", ![c].kind = kind, ![c].id = id,
                                 ![c].left = @ - 1]
    BY DEF NextRecord
  <1> DEFINE r == [run[c] EXCEPT !.pc = "write", !.kind = kind, !.id = id, !.left = @ - 1]
  <1>2. run' = [run EXCEPT ![c] = r] /\ UNCHANGED <<db, minted>> /\ run[c].pc = "record"
    BY <1>1 DEF NextRecord, At, Rest
  <1>3. /\ c \in Syncs /\ c \notin Requests /\ BatchWhere(run[c]) /\ run[c].user \in Users
    BY <1>2, RunTyped, TransactionsAssumption DEF Where, RequestWhere, Clients
  <1>4. run[c].left - 1 \in 0..Records
    <2>1. run[c].left \in 0..Records /\ run[c].left > 0 /\ Records \in Nat
      BY RunTyped, TransactionsAssumption DEF NextRecord
    <2> QED BY <2>1
  <1>5. id \in Ids \cup {None} /\ kind \in BatchKinds
    BY DEF Rest
  <1>6. /\ r.pc = "write" /\ r.user = run[c].user /\ r.writes = run[c].writes
        /\ r.known = run[c].known /\ r.kind = kind /\ r.id = id
        /\ RunOK(r)
    BY <1>4, <1>5, RunTyped DEF RunOK, PCs
  <1> HIDE DEF r
  <1>7. Where(c, r)
    BY <1>3, <1>5, <1>6 DEF Where, BatchWhere
  <1>8. \A k \in run[c].known : Settled(c, run[c].user, k)
    BY DEF Rest, ClaimsSettled, Claims
  <1>9. kind = "refresh" => Settled(c, run[c].user, id)
    BY <1>1 DEF Nameable, Settled
  <1>10. \A k \in Claims(r) : Settled(c, r.user, k)
    BY <1>1, <1>5, <1>6, <1>8, <1>9 DEF Claims, BatchKinds, OwnerChecked
  <1> QED BY <1>2, <1>3, <1>6, <1>7, <1>10, GoesOn

LEMMA FailRecordIsQuiet ==
    ASSUME Rest, NEW c \in Clients, FailRecord(c)
    PROVE  QuietStep(c)
  <1>1. CASE Rollback(c)
    BY <1>1, RollsBack
  <1>2. CASE run' = [run EXCEPT ![c].pc = "record", ![c].id = None] /\ UNCHANGED <<db, minted, free>>
    <2> DEFINE r == [run[c] EXCEPT !.pc = "record", !.id = None]
    <2>1. run' = [run EXCEPT ![c] = r] /\ UNCHANGED <<db, minted>> /\ run[c].pc = "write"
      BY <1>2 DEF FailRecord, At, Rest
    <2>2. /\ c \in Syncs /\ c \notin Requests /\ BatchWhere(run[c]) /\ run[c].user \in Users
      BY <2>1, RunTyped, TransactionsAssumption DEF Where, RequestWhere, Clients, FailRecord
    <2>3. /\ r.pc = "record" /\ r.user = run[c].user /\ r.writes = run[c].writes
          /\ r.known = run[c].known
          /\ RunOK(r)
      BY RunTyped DEF RunOK, PCs
    <2> HIDE DEF r
    <2>4. Where(c, r)
      BY <2>2, <2>3 DEF Where, BatchWhere
    <2>5. \A id \in Claims(r) : Settled(c, r.user, id)
      BY <2>3 DEF Claims, Rest, ClaimsSettled
    <2> QED BY <2>1, <2>2, <2>3, <2>4, <2>5, GoesOn
  <1> QED BY <1>1, <1>2 DEF FailRecord

\* Who waits for a lock in a circle is a batch.
LEMMA DeadlockIsQuiet ==
    ASSUME Rest, NEW c \in Clients, Deadlock(c)
    PROVE  QuietStep(c)
  <1> DEFINE r == [run[c] EXCEPT !.pc = "aborted", !.writes = NoWrites]
  <1>1. run' = [run EXCEPT ![c] = r] /\ UNCHANGED <<db, minted>>
    BY DEF Deadlock, Rest
  <1>2. PICK S \in SUBSET Clients : c \in S /\ Circle(S)
    BY DEF Deadlock
  <1>3. PICK d \in S, e \in S : Waits(c, d) /\ Waits(e, c)
    BY <1>2 DEF Circle
  <1>4. run[c].pc = "write" /\ run[c].writes # NoWrites
    BY <1>3 DEF Waits, At, NoWrites
  <1>5. c \in Syncs /\ c \notin Requests /\ run[c].user \in Users
    BY <1>4, RunTyped, TransactionsAssumption DEF Where, RequestWhere, Clients
  <1>6. AreWrites(NoWrites)
    BY DEF AreWrites, NoWrites
  <1>7. /\ r.pc = "aborted" /\ r.user = run[c].user /\ r.writes = NoWrites
        /\ r.known = run[c].known
        /\ RunOK(r)
    BY <1>6, RunTyped DEF RunOK, PCs
  <1> HIDE DEF r
  <1>8. Where(c, r)
    BY <1>5, <1>7 DEF Where, BatchWhere
  <1>9. \A id \in Claims(r) : Settled(c, r.user, id)
    BY <1>7 DEF Claims, Rest, ClaimsSettled
  <1> QED BY <1>1, <1>5, <1>7, <1>8, <1>9, GoesOn

-----------------------------------------------------------------------------
(* The writes.                                                             *)

\* A write of a request: it had written nothing before.
LEMMA RequestPuts ==
    ASSUME Rest, NEW c \in Requests, NEW id \in Ids, NEW row \in Row \cup {None},
           Put(c, id, row), run[c].pc = "write", UNCHANGED db,
           \/ id \notin minted /\ minted' = minted \cup {id}
           \/ minted' = minted /\ id \notin Locked(c) /\ id \in DOMAIN Visible(c),
           RequestEffect(id, row)
    PROVE  WriteStep(c, id, row)
  <1> DEFINE r == [run[c] EXCEPT !.writes = With(@, id, row), !.id = None, !.pc = "commit"]
  <1>1. c \in Clients /\ c \notin Syncs /\ RequestWhere(run[c]) /\ run[c].user \in Users
    BY RunTyped, TransactionsAssumption DEF Clients, Where
  <1>2. run' = [run EXCEPT ![c] = r]
    BY <1>1 DEF Put, Rest
  <1>3. AreWrites(With(run[c].writes, id, row))
    BY <1>1, RunTyped DEF AreWrites, With
  <1>4. /\ r.pc = "commit" /\ r.user = run[c].user /\ r.known = run[c].known
        /\ r.writes = With(run[c].writes, id, row)
        /\ RunOK(r)
    BY <1>1, <1>3, RunTyped DEF RunOK, PCs
  <1> HIDE DEF r
  <1>5. Where(c, r)
    BY <1>1, <1>4 DEF Where, RequestWhere
  <1>6. run'[c] = r
    BY <1>1, <1>2 DEF Rest
  <1> QED BY <1>1, <1>2, <1>4, <1>5, <1>6 DEF WriteStep, Turn

LEMMA BatchPuts ==
    ASSUME Rest, NEW c \in Syncs, NEW id \in Ids, NEW row \in Row \cup {None},
           Put(c, id, row), run[c].pc = "write", UNCHANGED db,
           \/ id \notin minted /\ minted' = minted \cup {id}
           \/ minted' = minted /\ id \notin Locked(c) /\ id \in DOMAIN Visible(c),
           BatchEffect(run[c].user, id, row)
    PROVE  WriteStep(c, id, row)
  <1> DEFINE r == [run[c] EXCEPT !.writes = With(@, id, row), !.id = None, !.pc = "record"]
  <1>1. c \in Clients /\ c \notin Requests /\ BatchWhere(run[c]) /\ run[c].user \in Users
    BY RunTyped, TransactionsAssumption DEF Clients, Where
  <1>2. run' = [run EXCEPT ![c] = r]
    BY <1>1 DEF Put, Rest
  <1>3. AreWrites(With(run[c].writes, id, row))
    BY <1>1, RunTyped DEF AreWrites, With
  <1>4. /\ r.pc = "record" /\ r.user = run[c].user /\ r.known = run[c].known
        /\ r.writes = With(run[c].writes, id, row)
        /\ RunOK(r)
    BY <1>1, <1>3, RunTyped DEF RunOK, PCs
  <1> HIDE DEF r
  <1>5. Where(c, r)
    BY <1>1, <1>4 DEF Where, BatchWhere
  <1>6. run'[c] = r
    BY <1>1, <1>2 DEF Rest
  <1> QED BY <1>1, <1>2, <1>4, <1>5, <1>6 DEF WriteStep, Turn

\* Documents that Metax returns, and rows made of them.
LEMMA DocumentTyped ==
    ASSUME NEW user \in Users, NEW rec \in Ids \cup {None}, NEW rd \in Contents,
           NEW i \in Idents, NEW t \in Times
    PROVE  /\ Document(user, rec, rd, i, t) \in Store!MetaxBlob
           /\ Document(user, rec, rd, i, t) \in Blob
  BY TransactionsAssumption DEF Document, Store!MetaxBlob, Blob

LEMMA InsertWrites ==
    ASSUME Rest, NEW c \in Clients, Insert(c)
    PROVE  \E id, row : WriteStep(c, id, row)
  <1>1. PICK id \in Ids \ minted, rd \in Contents, cum \in Cums \cup {None} :
           /\ Put(c, id, NewRow(run[c].user, CreateData(id, run[c].user, rd, cum)))
           /\ minted' = minted \cup {id}
    BY DEF Insert
  <1> DEFINE row == NewRow(run[c].user, CreateData(id, run[c].user, rd, cum))
  <1>2. run[c].pc = "write" /\ UNCHANGED db /\ run[c].kind = "create"
    BY DEF Insert, At
  <1>3. c \in Requests /\ run[c].user \in Users
    BY <1>2, RunTyped DEF Where, BatchWhere, BatchKinds, Clients
  <1>4. row \in Row
    BY <1>3 DEF NewRow, CreateData, NoBlob, Row, Blob
  <1>5. RequestEffect(id, row)
    BY <1>3 DEF RequestEffect, Rest, IdsMinted
  <1> HIDE DEF row
  <1>6. WriteStep(c, id, row)
    BY <1>1, <1>2, <1>3, <1>4, <1>5, RequestPuts DEF row
  <1> QED BY <1>6

\* A request that writes a row sees the committed one.
LEMMA RequestFinds ==
    ASSUME Rest, NEW c \in Requests, run[c].pc = "write", Finds(c)
    PROVE  /\ run[c].id \in DOMAIN db /\ run[c].id \in Ids
           /\ Visible(c)[run[c].id] = db[run[c].id]
           /\ db[run[c].id] \in Row
  <1>1. c \in Clients /\ run[c].writes = NoWrites
    BY RunTyped DEF Clients, Where, RequestWhere
  <1>2. Writing(c) = {}
    BY <1>1 DEF Writing, NoWrites
  <1> QED BY <1>1, <1>2, VisibleTyped DEF Finds

LEMMA PatchWrites ==
    ASSUME Rest, NEW c \in Clients, patch(c)
    PROVE  \E id, row : WriteStep(c, id, row)
  <1>1. PICK rd \in Contents, cum \in Cums \cup {None} :
           Put(c, run[c].id, PatchRow(Visible(c)[run[c].id], UpdateData(run[c].id, rd, cum)))
    BY DEF patch
  <1> DEFINE id == run[c].id
             row == PatchRow(db[id], UpdateData(id, rd, cum))
  <1>2. run[c].pc = "write" /\ UNCHANGED <<db, minted>> /\ run[c].kind = "update" /\ Finds(c)
    BY DEF patch, At
  <1>3. c \in Requests /\ run[c].user \in Users
    BY <1>2, RunTyped DEF Where, BatchWhere, BatchKinds, Clients
  <1>4. id \in DOMAIN db /\ id \in Ids /\ Visible(c)[id] = db[id] /\ db[id] \in Row
    BY <1>2, <1>3, RequestFinds
  <1>5. row \in Row
    BY <1>4 DEF PatchRow, UpdateData, MergeBlob, NoBlob, Row, Blob
  <1>6. db[id].owner = run[c].user
    BY <1>2, <1>4 DEF Rest, ClaimsSettled, Claims, OwnerChecked, Settled
  <1>7. RequestEffect(id, row)
    BY <1>3, <1>4, <1>6 DEF RequestEffect, Owned
  <1>8. Put(c, id, row)
    BY <1>1, <1>4
  <1> HIDE DEF row
  <1>9. WriteStep(c, id, row)
    BY <1>2, <1>3, <1>4, <1>5, <1>7, <1>8, RequestPuts DEF Finds
  <1> QED BY <1>9

LEMMA StorePublishedWrites ==
    ASSUME Rest, NEW c \in Clients, StorePublished(c)
    PROVE  \E id, row : WriteStep(c, id, row)
  <1>1. PICK rd \in Contents, i \in Idents, t \in Times :
           Put(c, run[c].id, PublishedRow(Visible(c)[run[c].id],
                                          Document(run[c].user, run[c].id, rd, i, t), t))
    BY DEF StorePublished
  <1> DEFINE id == run[c].id
             blob == Document(run[c].user, id, rd, i, t)
             row == PublishedRow(db[id], blob, t)
  <1>2. run[c].pc = "write" /\ UNCHANGED <<db, minted>> /\ run[c].kind = "publish" /\ Finds(c)
    BY DEF StorePublished, At
  <1>3. c \in Requests /\ run[c].user \in Users
    BY <1>2, RunTyped DEF Where, BatchWhere, BatchKinds, Clients
  <1>4. id \in DOMAIN db /\ id \in Ids /\ Visible(c)[id] = db[id] /\ db[id] \in Row
    BY <1>2, <1>3, RequestFinds
  <1>5. blob \in Store!MetaxBlob /\ blob \in Blob /\ t \in Nat
    BY <1>3, <1>4, DocumentTyped, TransactionsAssumption
  <1> HIDE DEF blob
  <1>6. row \in Row
    BY <1>4, <1>5 DEF PublishedRow, Row
  <1>7. RequestEffect(id, row)
    BY <1>4, <1>5 DEF RequestEffect
  <1>8. Put(c, id, row)
    BY <1>1, <1>4 DEF blob
  <1> HIDE DEF row
  <1>9. WriteStep(c, id, row)
    BY <1>2, <1>3, <1>4, <1>6, <1>7, <1>8, RequestPuts DEF Finds
  <1> QED BY <1>9

LEMMA StoreNewVersionWrites ==
    ASSUME Rest, NEW c \in Clients, StoreNewVersion(c)
    PROVE  \E id, row : WriteStep(c, id, row)
  <1>1. PICK id \in Ids \ minted, rd \in Contents, i \in Idents, t \in Times :
           /\ Put(c, id, NewVersionRow(db[run[c].id], Document(run[c].user, None, rd, i, t), t))
           /\ minted' = minted \cup {id}
    BY DEF StoreNewVersion
  <1> DEFINE blob == Document(run[c].user, None, rd, i, t)
             row == NewVersionRow(db[run[c].id], blob, t)
  <1>2. run[c].pc = "write" /\ UNCHANGED db /\ run[c].kind = "version" /\ run[c].id \in DOMAIN db
    BY DEF StoreNewVersion, At
  <1>3. c \in Requests /\ run[c].user \in Users
    BY <1>2, RunTyped DEF Where, BatchWhere, BatchKinds, Clients
  <1>4. blob \in Store!MetaxBlob /\ blob \in Blob /\ t \in Nat
    BY <1>3, DocumentTyped, TransactionsAssumption
  <1>5. db[run[c].id].owner \in Users
    BY <1>2 DEF Rest, IsTable, Row
  <1> HIDE DEF blob
  <1>6. row \in Row /\ row \in Store!RowFromMetax(db[run[c].id].owner)
    BY <1>4, <1>5 DEF NewVersionRow, Row, Store!RowFromMetax
  <1>7. RequestEffect(id, row)
    BY <1>5, <1>6 DEF RequestEffect, Rest, IdsMinted
  <1> HIDE DEF row
  <1>8. WriteStep(c, id, row)
    BY <1>1, <1>2, <1>3, <1>6, <1>7, RequestPuts DEF row, blob
  <1> QED BY <1>8

LEMMA DeleteWrites ==
    ASSUME Rest, NEW c \in Clients, Delete(c)
    PROVE  \E id, row : WriteStep(c, id, row)
  <1> DEFINE id == run[c].id
  <1>1. /\ run[c].pc = "write" /\ UNCHANGED <<db, minted>> /\ run[c].kind = "delete" /\ Finds(c)
        /\ Put(c, id, None)
    BY DEF Delete, At
  <1>2. c \in Requests /\ run[c].user \in Users
    BY <1>1, RunTyped DEF Where, BatchWhere, BatchKinds, Clients
  <1>3. id \in DOMAIN db /\ id \in Ids
    BY <1>1, <1>2, RequestFinds
  <1>4. db[id].owner = run[c].user
    BY <1>1, <1>3 DEF Rest, ClaimsSettled, Claims, OwnerChecked, Settled
  <1>5. RequestEffect(id, None)
    BY <1>2, <1>3, <1>4 DEF RequestEffect, Owned
  <1>6. WriteStep(c, id, None)
    BY <1>1, <1>2, <1>3, <1>5, RequestPuts DEF Finds
  <1> QED BY <1>6

\* A batch that writes a row sees the committed one, or what it made of it.
LEMMA BatchFinds ==
    ASSUME Rest, NEW c \in Syncs, run[c].pc = "write", Finds(c),
           run[c].kind \in {"synced", "refresh", "remove"}
    PROVE  LET id == run[c].id
               row == Visible(c)[id]
           IN  /\ id \in Ids
               /\ row \in Row
               /\ id \in DOMAIN db => /\ db[id] \in Row
                                      /\ db[id].owner = run[c].user
                                      /\ row \in Store!SyncedRow(db[id]) \cup {db[id]}
               /\ id \notin DOMAIN db => row \in Store!RowFromMetax(run[c].user)
  <1> DEFINE id == run[c].id
             row == Visible(c)[id]
  <1>1. c \in Clients
    BY DEF Clients
  <1>2. /\ id \in Ids /\ row \in Row
        /\ id \notin Writing(c) => id \in DOMAIN db /\ row = db[id]
        /\ id \in Writing(c) => row = run[c].writes[id] /\ row # None
    BY <1>1, VisibleTyped DEF Finds
  <1>3. id \in DOMAIN db => db[id] \in Row /\ db[id].owner = run[c].user
    BY <1>1 DEF Rest, IsTable, ClaimsSettled, Claims, Settled
  <1>4. id \in Writing(c) => BatchEffect(run[c].user, id, run[c].writes[id])
    BY DEF Rest, BatchesWrite
  <1>5. id \in DOMAIN db => row \in Store!SyncedRow(db[id]) \cup {db[id]}
    BY <1>2, <1>4 DEF BatchEffect
  <1>6. id \notin DOMAIN db => row \in Store!RowFromMetax(run[c].user)
    BY <1>2, <1>4 DEF BatchEffect
  <1> HIDE DEF id, row
  <1>7. /\ id \in Ids /\ row \in Row
        /\ id \in DOMAIN db => /\ db[id] \in Row /\ db[id].owner = run[c].user
                               /\ row \in Store!SyncedRow(db[id]) \cup {db[id]}
        /\ id \notin DOMAIN db => row \in Store!RowFromMetax(run[c].user)
    BY <1>2, <1>3, <1>5, <1>6
  <1> QED BY <1>7 DEF id, row

LEMMA UpdateSyncedWrites ==
    ASSUME Rest, NEW c \in Clients, UpdateSynced(c)
    PROVE  \E id, row : WriteStep(c, id, row)
  <1>1. PICK t \in Times : Put(c, run[c].id, [Visible(c)[run[c].id] EXCEPT !.synced = t])
    BY DEF UpdateSynced
  <1> DEFINE id == run[c].id
             old == Visible(c)[id]
             row == [old EXCEPT !.synced = t]
  <1>2. run[c].pc = "write" /\ UNCHANGED <<db, minted>> /\ run[c].kind = "synced" /\ Finds(c)
    BY DEF UpdateSynced, At
  <1>3. c \in Syncs
    BY <1>2, RunTyped DEF Where, RequestWhere, Clients
  <1>4. /\ id \in Ids /\ old \in Row
        /\ id \in DOMAIN db => /\ db[id] \in Row /\ db[id].owner = run[c].user
                               /\ old \in Store!SyncedRow(db[id]) \cup {db[id]}
        /\ id \notin DOMAIN db => old \in Store!RowFromMetax(run[c].user)
    BY <1>2, <1>3, BatchFinds
  <1>5. run[c].user \in Users
    BY <1>2, RunTyped DEF Where
  <1>6. t \in Nat
    BY TransactionsAssumption
  <1> HIDE DEF id, old
  <1>7. row \in Row
    BY <1>4, <1>6 DEF Row
  <1>8. id \in DOMAIN db => row \in Store!SyncedRow(db[id])
    BY <1>4 DEF Store!SyncedRow, Row
  <1>9. id \notin DOMAIN db => row \in Store!RowFromMetax(run[c].user)
    BY <1>4, <1>5 DEF Store!RowFromMetax
  <1>10. Put(c, id, row)
    BY <1>1 DEF id, old
  <1>11. BatchEffect(run[c].user, id, row)
    BY <1>4, <1>8, <1>9 DEF BatchEffect
  <1> HIDE DEF row
  <1>12. id \notin Locked(c) /\ id \in DOMAIN Visible(c)
    BY <1>2 DEF Finds, id
  <1>13. WriteStep(c, id, row)
    BY <1>2, <1>3, <1>4, <1>7, <1>10, <1>11, <1>12, BatchPuts
  <1> QED BY <1>13

LEMMA UpdateWrites ==
    ASSUME Rest, NEW c \in Clients, Update(c)
    PROVE  \E id, row : WriteStep(c, id, row)
  <1>1. PICK rd \in Contents, i \in Idents, t \in Times :
           Put(c, run[c].id, [Visible(c)[run[c].id] EXCEPT
                                 !.synced = t, !.blob = Document(run[c].user, run[c].id, rd, i, t)])
    BY DEF Update
  <1> DEFINE id == run[c].id
             old == Visible(c)[id]
             blob == Document(run[c].user, id, rd, i, t)
             row == [old EXCEPT !.synced = t, !.blob = blob]
  <1>2. run[c].pc = "write" /\ UNCHANGED <<db, minted>> /\ run[c].kind = "refresh" /\ Finds(c)
    BY DEF Update, At
  <1>3. c \in Syncs
    BY <1>2, RunTyped DEF Where, RequestWhere, Clients
  <1>4. /\ id \in Ids /\ old \in Row
        /\ id \in DOMAIN db => /\ db[id] \in Row /\ db[id].owner = run[c].user
                               /\ old \in Store!SyncedRow(db[id]) \cup {db[id]}
        /\ id \notin DOMAIN db => old \in Store!RowFromMetax(run[c].user)
    BY <1>2, <1>3, BatchFinds
  <1>5. run[c].user \in Users
    BY <1>2, RunTyped DEF Where
  <1>6. blob \in Store!MetaxBlob /\ blob \in Blob /\ t \in Nat
    BY <1>4, <1>5, DocumentTyped, TransactionsAssumption
  <1> HIDE DEF id, old, blob
  <1>7. row \in Row
    BY <1>4, <1>6 DEF Row
  <1>8. id \in DOMAIN db => row \in Store!SyncedRow(db[id])
    BY <1>4, <1>6 DEF Store!SyncedRow, Row
  <1>9. id \notin DOMAIN db => row \in Store!RowFromMetax(run[c].user)
    BY <1>4, <1>5, <1>6 DEF Store!RowFromMetax
  <1>10. Put(c, id, row)
    BY <1>1 DEF id, old, blob
  <1>11. BatchEffect(run[c].user, id, row)
    BY <1>4, <1>8, <1>9 DEF BatchEffect
  <1> HIDE DEF row
  <1>12. id \notin Locked(c) /\ id \in DOMAIN Visible(c)
    BY <1>2 DEF Finds, id
  <1>13. WriteStep(c, id, row)
    BY <1>2, <1>3, <1>4, <1>7, <1>10, <1>11, <1>12, BatchPuts
  <1> QED BY <1>13

LEMMA RemoveWrites ==
    ASSUME Rest, NEW c \in Clients, Remove(c)
    PROVE  \E id, row : WriteStep(c, id, row)
  <1> DEFINE id == run[c].id
  <1>1. /\ run[c].pc = "write" /\ UNCHANGED <<db, minted>> /\ run[c].kind = "remove" /\ Finds(c)
        /\ Put(c, id, None)
    BY DEF Remove, At
  <1>2. c \in Syncs
    BY <1>1, RunTyped DEF Where, RequestWhere, Clients
  <1>3. id \in Ids /\ (id \in DOMAIN db => db[id].owner = run[c].user)
    BY <1>1, <1>2, BatchFinds
  <1>4. BatchEffect(run[c].user, id, None)
    BY <1>3 DEF BatchEffect
  <1>5. WriteStep(c, id, None)
    BY <1>1, <1>2, <1>3, <1>4, BatchPuts DEF Finds
  <1> QED BY <1>5

LEMMA CreateWithMetadataWrites ==
    ASSUME Rest, NEW c \in Clients, CreateWithMetadata(c)
    PROVE  \E id, row : WriteStep(c, id, row)
  <1>1. PICK id \in Ids \ minted, rd \in Contents, i \in Idents, t \in Times :
           /\ Put(c, id, [owner |-> run[c].user, published |-> TRUE, synced |-> t,
                          blob |-> Document(run[c].user, None, rd, i, t)])
           /\ minted' = minted \cup {id}
    BY DEF CreateWithMetadata
  <1> DEFINE blob == Document(run[c].user, None, rd, i, t)
             row == [owner |-> run[c].user, published |-> TRUE, synced |-> t, blob |-> blob]
  <1>2. run[c].pc = "write" /\ UNCHANGED db /\ run[c].kind = "import"
    BY DEF CreateWithMetadata, At
  <1>3. c \in Syncs /\ run[c].user \in Users
    BY <1>2, RunTyped DEF Where, RequestWhere, Clients
  <1>4. blob \in Store!MetaxBlob /\ blob \in Blob /\ t \in Nat
    BY <1>3, DocumentTyped, TransactionsAssumption
  <1> HIDE DEF blob
  <1>5. row \in Row /\ row \in Store!RowFromMetax(run[c].user)
    BY <1>3, <1>4 DEF Row, Store!RowFromMetax
  <1>6. BatchEffect(run[c].user, id, row)
    BY <1>5 DEF BatchEffect, Rest, IdsMinted
  <1> HIDE DEF row
  <1>7. WriteStep(c, id, row)
    BY <1>1, <1>2, <1>3, <1>5, <1>6, BatchPuts DEF row, blob
  <1> QED BY <1>7

\* Every step keeps the invariant, but for the pool.
LEMMA RestKept ==
    ASSUME Rest, [Next]_vars
    PROVE  Rest'
  <1>1. CASE UNCHANGED vars
    <2>1. db' = db /\ minted' = minted /\ run' = run
      BY <1>1 DEF vars
    <2>2. IsTable(db') /\ IdsMinted' /\ LocksExclude' /\ ClientsWhere'
      BY <2>1 DEF Rest, IdsMinted, LocksExclude, ClientsWhere, Writing
    <2>3. ClaimsSettled'
      BY <2>1 DEF Rest, ClaimsSettled, Settled, Locked
    <2>4. RequestsWrite'
      BY <2>1 DEF Rest, RequestsWrite, Writing, RequestEffect, Owned
    <2>5. BatchesWrite'
      BY <2>1 DEF Rest, BatchesWrite, Writing, BatchEffect
    <2> QED BY <2>1, <2>2, <2>3, <2>4, <2>5 DEF Rest
  <1>2. CASE Restart
    BY <1>2, RestartKeeps
  <1>3. ASSUME NEW c \in Clients,
               \/ Call(c) \/ Acquire(c) \/ Statement(c) \/ WriteStatement(c) \/ Deadlock(c)
               \/ Fail(c) \/ FailRows(c)
        PROVE  Rest'
    <2>1. CASE \/ Call(c) \/ Begin(c) \/ NewBatchForUser(c) \/ AcquireTimeout(c)
               \/ CheckOwner(c) \/ getFamily(c) \/ Select(c) \/ NotFound(c)
               \/ ReadStreamChannel(c) \/ getSyncInfo(c) \/ getSyncInfoFails(c)
               \/ GetAllForUid(c) \/ NextRecord(c) \/ FailRecord(c) \/ EndOfRecords(c)
               \/ writeStamp(c) \/ RollbackAborted(c) \/ Deadlock(c) \/ Fail(c) \/ FailRows(c)
      <3>1. CASE AcquireTimeout(c)
        BY <3>1, Ends, QuietKeeps DEF AcquireTimeout
      <3>2. CASE Select(c) \/ NotFound(c) \/ RollbackAborted(c) \/ Fail(c)
        BY <3>2, RollsBack, QuietKeeps DEF Select, NotFound, RollbackAborted, Fail
      <3> QED BY <2>1, <3>1, <3>2, CallIsQuiet, BeginIsQuiet, NewBatchIsQuiet, CheckOwnerIsQuiet,
                 getFamilyIsQuiet, StepsOnAreQuiet, GetAllForUidIsQuiet, NextRecordIsQuiet,
                 FailRecordIsQuiet, DeadlockIsQuiet, QuietKeeps
    <2>2. CASE \/ Insert(c) \/ patch(c) \/ StorePublished(c) \/ StoreNewVersion(c) \/ Delete(c)
               \/ UpdateSynced(c) \/ Update(c) \/ Remove(c) \/ CreateWithMetadata(c)
      <3>1. PICK id, row : WriteStep(c, id, row)
        BY <2>2, InsertWrites, PatchWrites, StorePublishedWrites, StoreNewVersionWrites,
           DeleteWrites, UpdateSyncedWrites, UpdateWrites, RemoveWrites, CreateWithMetadataWrites
      <3> QED BY <3>1, WriteKeeps
    <2>3. CASE Commit(c)
      BY <2>3, CommitKeeps
    <2> QED BY <1>3, <2>1, <2>2, <2>3 DEF Acquire, Statement, WriteStatement
  <1> QED BY <1>1, <1>2, <1>3 DEF Next

-----------------------------------------------------------------------------
(* The pool is kept by every step.                                         *)

\* What a step does to the pool is what it does to the client's connections.
PoolStep(c) ==
    /\ \A d \in Clients \ {c} : run'[d].pc = run[d].pc
    /\ free' \in Nat
    /\ free' + Holds(c)' = free + Holds(c)

LEMMA ReturnsOne ==
    ASSUME Rest, free \in Nat, NEW c \in Clients, Release(c),
           run[c].pc \notin {"idle", "begin", "rows"}
    PROVE  PoolStep(c)
  <1>1. run'[c].pc = "idle" /\ \A d \in Clients \ {c} : run'[d].pc = run[d].pc
    BY DEF Release, Rest, Idle
  <1>2. Holds(c) = 1 /\ Holds(c)' = 0 /\ free' = free + 1
    BY <1>1 DEF Holds, Release
  <1> QED BY <1>1, <1>2 DEF PoolStep

\* A client goes on with the connection it has.
LEMMA KeepsOne ==
    ASSUME Rest, free \in Nat, NEW c \in Clients, free' = free,
           run[c].pc \notin {"idle", "begin", "rows"},
           run'[c].pc \notin {"idle", "begin", "rows"},
           \A d \in Clients \ {c} : run'[d].pc = run[d].pc
    PROVE  PoolStep(c)
  <1>1. Holds(c) = 1 /\ Holds(c)' = 1
    BY DEF Holds
  <1> QED BY <1>1 DEF PoolStep

LEMMA PutKeepsOne ==
    ASSUME Rest, free \in Nat, NEW c \in Clients, NEW id, NEW row, Put(c, id, row),
           run[c].pc = "write", UNCHANGED free
    PROVE  PoolStep(c)
  <1>1. /\ run'[c].pc \in {"record", "commit"}
        /\ \A d \in Clients \ {c} : run'[d].pc = run[d].pc
    BY RunTyped DEF Put, Rest
  <1> QED BY <1>1, KeepsOne

LEMMA WritesKeepOne ==
    ASSUME Rest, free \in Nat, NEW c \in Clients,
           \/ Insert(c) \/ patch(c) \/ StorePublished(c) \/ StoreNewVersion(c) \/ Delete(c)
           \/ UpdateSynced(c) \/ Update(c) \/ Remove(c) \/ CreateWithMetadata(c)
    PROVE  PoolStep(c)
  <1>1. run[c].pc = "write" /\ UNCHANGED free
    BY DEF At, Insert, patch, StorePublished, StoreNewVersion, Delete, UpdateSynced, Update, Remove,
           CreateWithMetadata
  <1>2. PICK id, row : Put(c, id, row)
    BY DEF Insert, patch, StorePublished, StoreNewVersion, Delete, UpdateSynced, Update, Remove,
           CreateWithMetadata
  <1> QED BY <1>1, <1>2, PutKeepsOne

\* So does a client that goes to another place with it.
LEMMA GoingKeepsOne ==
    ASSUME Rest, free \in Nat, NEW c \in Clients, NEW pc, Goto(c, pc), UNCHANGED free,
           run[c].pc \notin {"idle", "begin", "rows"},
           pc \notin {"idle", "begin", "rows"}
    PROVE  PoolStep(c)
  <1>1. run'[c].pc = pc /\ \A d \in Clients \ {c} : run'[d].pc = run[d].pc
    BY RunTyped DEF Goto, Rest
  <1> QED BY <1>1, KeepsOne

LEMMA OthersKeepOne ==
    ASSUME Rest, free \in Nat, NEW c \in Clients,
           \/ CheckOwner(c) \/ getFamily(c) \/ ReadStreamChannel(c) \/ getSyncInfoFails(c)
           \/ NextRecord(c) \/ FailRecord(c) \/ EndOfRecords(c) \/ writeStamp(c)
           \/ Deadlock(c),
           ~Rollback(c)
    PROVE  PoolStep(c)
  <1>1. CASE CheckOwner(c)
    <2> DEFINE pc == CASE run[c].kind = "get" -> "read"
                       [] run[c].kind = "delete" -> "write"
                       [] OTHER -> "family"
    <2>1. Goto(c, pc) /\ UNCHANGED free /\ run[c].pc = "check"
      BY <1>1 DEF CheckOwner, At
    <2>2. pc \in {"read", "write", "family"}
      OBVIOUS
    <2> HIDE DEF pc
    <2> QED BY <2>1, <2>2, GoingKeepsOne
  <1>2. CASE getFamily(c)
    BY <1>2, GoingKeepsOne DEF getFamily, At
  <1>3. CASE ReadStreamChannel(c)
    BY <1>3, GoingKeepsOne DEF ReadStreamChannel, At
  <1>4. CASE getSyncInfoFails(c)
    BY <1>4, GoingKeepsOne DEF getSyncInfoFails, At
  <1>5. CASE NextRecord(c)
    <2>1. PICK kind, id :
             run' = [run EXCEPT ![c].pc = "write", ![c].kind = kind, ![c].id = id,
                                ![c].left = @ - 1]
      BY <1>5 DEF NextRecord
    <2> DEFINE r == [run[c] EXCEPT !.pc = "write", !.kind = kind, !.id = id, !.left = @ - 1]
    <2>2. run' = [run EXCEPT ![c] = r]
      BY <2>1 DEF Rest
    <2>3. r.pc = "write"
      BY RunTyped
    <2>4. run[c].pc = "record" /\ UNCHANGED free
      BY <1>5 DEF NextRecord, At
    <2> HIDE DEF r
    <2>5. run'[c].pc = "write" /\ \A d \in Clients \ {c} : run'[d].pc = run[d].pc
      BY <2>2, <2>3 DEF Rest
    <2> QED BY <2>4, <2>5, KeepsOne
  <1>6. CASE FailRecord(c)
    <2>1. /\ run[c].pc = "write" /\ UNCHANGED free
          /\ run'[c].pc = "record" /\ \A d \in Clients \ {c} : run'[d].pc = run[d].pc
      BY <1>6, RunTyped DEF FailRecord, At, Rest
    <2> QED BY <2>1, KeepsOne
  <1>7. CASE EndOfRecords(c)
    BY <1>7, GoingKeepsOne DEF EndOfRecords, At
  <1>8. CASE writeStamp(c)
    BY <1>8, GoingKeepsOne DEF writeStamp, At
  <1>9. CASE Deadlock(c)
    <2>1. run[c].pc = "write"
      BY <1>9 DEF Deadlock, Circle, Waits, At
    <2>2. run'[c].pc = "aborted" /\ UNCHANGED free /\ \A d \in Clients \ {c} : run'[d].pc = run[d].pc
      BY <1>9, RunTyped DEF Deadlock, Rest
    <2> QED BY <2>1, <2>2, KeepsOne
  <1> QED BY <1>1, <1>2, <1>3, <1>4, <1>5, <1>6, <1>7, <1>8, <1>9

\* The steps that end an operation.
LEMMA EndsReturnOne ==
    ASSUME Rest, free \in Nat, NEW c \in Clients,
           \/ Commit(c) \/ Select(c) \/ NotFound(c) \/ RollbackAborted(c) \/ Fail(c)
           \/ /\ CheckOwner(c) \/ getFamily(c) \/ FailRecord(c)
              /\ Rollback(c)
    PROVE  PoolStep(c)
  <1>1. Release(c)
    BY DEF Commit, Select, NotFound, RollbackAborted, Fail, Rollback
  <1>2. run[c].pc \notin {"idle", "begin", "rows"}
    BY DEF Commit, Select, NotFound, RollbackAborted, Fail, CheckOwner, getFamily, FailRecord, At
  <1> QED BY <1>1, <1>2, ReturnsOne

\* The steps that take connections, or wait for them, and the end of getSyncInfo.
LEMMA TakersAccount ==
    ASSUME Rest, free \in Nat, NEW c \in Clients,
           \/ Call(c) \/ Begin(c) \/ NewBatchForUser(c) \/ AcquireTimeout(c)
           \/ getSyncInfo(c) \/ GetAllForUid(c) \/ FailRows(c)
    PROVE  PoolStep(c)
  <1> DEFINE Others == \A d \in Clients \ {c} : run'[d].pc = run[d].pc
  <1>1. CASE Call(c)
    <2>1. run[c].pc = "idle" /\ run'[c].pc = "begin" /\ Others /\ free' = free
      BY <1>1, RunTyped DEF Call, At, Goto, Rest
    <2> QED BY <2>1 DEF PoolStep, Holds
  <1>2. CASE Begin(c)
    <2>1. PICK kind \in Kinds \cap RequestKinds, user \in Users, id \in Ids \cup {None} :
             run' = [run EXCEPT ![c] = [Idle EXCEPT !.pc = FirstStep(kind), !.kind = kind,
                                                    !.user = user, !.id = id]]
      BY <1>2 DEF Begin
    <2>2. run[c].pc = "begin" /\ free' = free - 1 /\ free > 0
      BY <1>2 DEF Begin, At
    <2>3. FirstStep(kind) \in {"check", "read", "write"}
      BY DEF FirstStep
    <2>4. run'[c].pc = FirstStep(kind) /\ Others
      BY <2>1 DEF Rest, Idle
    <2> QED BY <2>2, <2>3, <2>4 DEF PoolStep, Holds
  <1>3. CASE NewBatchForUser(c)
    <2>1. run[c].pc = "begin" /\ free' = free - 1 /\ free > 0 /\ run'[c].pc = "query" /\ Others
      BY <1>3 DEF NewBatchForUser, At, Rest, Idle
    <2> QED BY <2>1 DEF PoolStep, Holds
  <1>4. CASE AcquireTimeout(c)
    <2>1. run[c].pc = "begin" /\ free' = free /\ run'[c].pc = "idle" /\ Others
      BY <1>4 DEF AcquireTimeout, At, Rest, Idle
    <2> QED BY <2>1 DEF PoolStep, Holds
  <1>5. CASE getSyncInfo(c)
    <2>1. run[c].pc = "info" /\ free' = free - 1 /\ free > 0 /\ run'[c].pc = "rows" /\ Others
      BY <1>5, RunTyped DEF getSyncInfo, At, Goto, Rest
    <2> QED BY <2>1 DEF PoolStep, Holds
  <1>6. CASE GetAllForUid(c) \/ FailRows(c)
    <2>1. run[c].pc = "rows" /\ free' = free + 1 /\ run'[c].pc = "record" /\ Others
      BY <1>6, RunTyped DEF GetAllForUid, FailRows, At, Goto, Rest
    <2> QED BY <2>1 DEF PoolStep, Holds
  <1> QED BY <1>1, <1>2, <1>3, <1>4, <1>5, <1>6

Pool == free \in Nat /\ ConnectionsAccounted

\* Connections of nobody are all in the pool.
LEMMA AllFree ==
    ASSUME free = Conns, \A c \in Clients : run[c].pc = "idle"
    PROVE  Pool
  <1>1. HeldBy = {} /\ HeldTwice = {}
    BY DEF HeldBy, HeldTwice, Holds
  <1>2. Cardinality(HeldBy) = 0 /\ Cardinality(HeldTwice) = 0
    BY <1>1, FS_EmptySet
  <1> QED BY <1>2, TransactionsAssumption DEF Pool, ConnectionsAccounted, HeldBy, HeldTwice

LEMMA PoolKept ==
    ASSUME Rest, Pool, [Next]_vars
    PROVE  Pool'
  <1> free \in Nat
    BY DEF Pool
  <1>1. CASE UNCHANGED vars
    <2>1. free' = free /\ \A c \in Clients : Holds(c)' = Holds(c)
      BY <1>1 DEF vars, Holds
    <2> QED BY <2>1 DEF Pool, ConnectionsAccounted
  <1>2. CASE Restart
    <2>1. free' = Conns /\ \A c \in Clients : run'[c].pc = "idle"
      BY <1>2 DEF Restart, Idle
    <2>2. HeldBy' = {} /\ HeldTwice' = {}
      BY <2>1 DEF HeldBy, HeldTwice, Holds
    <2>3. Cardinality(HeldBy') = 0 /\ Cardinality(HeldTwice') = 0
      BY <2>2, FS_EmptySet
    <2>4. free' + Cardinality(HeldBy') + Cardinality(HeldTwice') = Conns /\ free' \in Nat
      BY <2>1, <2>3, TransactionsAssumption
    <2> QED BY <2>4 DEF Pool, ConnectionsAccounted, HeldBy, HeldTwice
  <1>3. ASSUME NEW c \in Clients, PoolStep(c)
        PROVE  Pool'
    <2>1. ConnectionsAccounted /\ free' \in Int /\ free' \in Nat
      BY <1>3 DEF PoolStep, Pool
    <2>2. ConnectionsAccounted'
      BY <1>3, <2>1, SumKept DEF PoolStep
    <2> QED BY <2>1, <2>2 DEF Pool
  <1>4. ASSUME NEW c \in Clients,
               \/ Call(c) \/ Acquire(c) \/ Statement(c) \/ WriteStatement(c) \/ Deadlock(c)
               \/ Fail(c) \/ FailRows(c)
        PROVE  PoolStep(c)
    <2>1. CASE \/ Insert(c) \/ patch(c) \/ StorePublished(c) \/ StoreNewVersion(c) \/ Delete(c)
               \/ UpdateSynced(c) \/ Update(c) \/ Remove(c) \/ CreateWithMetadata(c)
      BY <2>1, WritesKeepOne
    <2>2. CASE /\ \/ CheckOwner(c) \/ getFamily(c) \/ ReadStreamChannel(c) \/ getSyncInfoFails(c)
                  \/ NextRecord(c) \/ FailRecord(c) \/ EndOfRecords(c) \/ writeStamp(c)
                  \/ Deadlock(c)
               /\ ~Rollback(c)
      BY <2>2, OthersKeepOne
    <2>3. CASE \/ Commit(c) \/ Select(c) \/ NotFound(c) \/ RollbackAborted(c) \/ Fail(c)
               \/ /\ CheckOwner(c) \/ getFamily(c) \/ FailRecord(c)
                  /\ Rollback(c)
      BY <2>3, EndsReturnOne
    <2>4. CASE \/ Call(c) \/ Begin(c) \/ NewBatchForUser(c) \/ AcquireTimeout(c)
               \/ getSyncInfo(c) \/ GetAllForUid(c) \/ FailRows(c)
      BY <2>4, TakersAccount
    <2>5. ~((\/ ReadStreamChannel(c) \/ getSyncInfoFails(c) \/ NextRecord(c) \/ EndOfRecords(c)
             \/ writeStamp(c) \/ Deadlock(c)) /\ Rollback(c))
      <3>1. Rollback(c) => free' # free
        BY DEF Rollback, Release
      <3> QED BY <3>1 DEF ReadStreamChannel, getSyncInfoFails, NextRecord, EndOfRecords, writeStamp,
                          Deadlock
    <2> QED BY <1>4, <2>1, <2>2, <2>3, <2>4, <2>5 DEF Acquire, Statement, WriteStatement
  <1> QED BY <1>1, <1>2, <1>3, <1>4 DEF Next

-----------------------------------------------------------------------------
(* The invariant, and what it says.                                        *)

IInv == Rest /\ Pool

LEMMA InitInv ==
    ASSUME Init
    PROVE  IInv
  <1>1. /\ db = [id \in {} |-> None] /\ minted = {} /\ free = Conns
        /\ run = [c \in Clients |-> Idle]
    BY DEF Init
  <1>2. \A c \in Clients : RunOK(run[c]) /\ Where(c, run[c])
    BY <1>1, IdleOK
  <1>3. \A c \in Clients : /\ Writing(c) = {} /\ Claims(run[c]) = {} /\ run[c].pc = "idle"
    BY <1>1 DEF Idle, NoWrites, Claims, Writing
  <1>4. IsTable(db) /\ DOMAIN db = {} /\ run = [c \in Clients |-> run[c]]
    BY <1>1 DEF IsTable
  <1>5. Rest
    BY <1>1, <1>2, <1>3, <1>4
       DEF Rest, IdsMinted, LocksExclude, ClientsWhere, ClaimsSettled, RequestsWrite, BatchesWrite,
           Clients
  <1> QED BY <1>1, <1>3, <1>5, AllFree DEF IInv

LEMMA InvKept ==
    ASSUME IInv, [Next]_vars
    PROVE  IInv'
  BY RestKept, PoolKept DEF IInv

\* In every state of every behaviour the invariant holds.
THEOREM TransactionsInvariant == Spec => []IInv
  <1>1. Init => IInv
    BY InitInv
  <1>2. IInv /\ [Next]_vars => IInv'
    BY InvKept
  <1> QED BY <1>1, <1>2, PTL DEF Spec

\* No connection is lost or made up, whatever fails: the pool's connections and
\* those in use are always all of them.
THEOREM PoolAccounted == Spec => []ConnectionsAccounted
  <1>1. IInv => ConnectionsAccounted
    BY DEF IInv, Pool
  <1> QED BY <1>1, TransactionsInvariant, PTL

\* The table, the pool and what the clients are doing keep their types.
THEOREM TransactionsTyped == Spec => []TransactionsTypeOK
  <1>1. ASSUME IInv
        PROVE  TransactionsTypeOK
    <2>1. free \in 0..Conns
      BY <1>1, FreeBounded, TransactionsAssumption DEF IInv, Pool
    <2> QED BY <1>1, <2>1 DEF IInv, Rest, RunOK, TransactionsTypeOK
  <1> QED BY <1>1, TransactionsInvariant, PTL

-----------------------------------------------------------------------------
(* The operations are atomic.                                              *)

\* A request's commit is one of the steps that DatasetStore has for requests.
LEMMA CommitOfRequest ==
    ASSUME Rest, NEW c \in Requests, Commit(c)
    PROVE  Store!StoreNext \/ UNCHANGED db
  <1>1. PICK id \in Ids : Writing(c) = {id} /\ RequestEffect(id, run[c].writes[id])
    BY DEF Commit, At, RequestsWrite, Rest
  <1> DEFINE row == run[c].writes[id]
  <1>2. db' = Applied(db, run[c].writes)
    BY DEF Commit
  <1>3. db = [k \in DOMAIN db |-> db[k]] /\ \A k \in DOMAIN db : db[k].owner \in Users
    BY DEF Rest, IsTable, Row
  <1>4. CASE row # None
    <2>1. db' = With(db, id, row)
      BY <1>1, <1>2, <1>4 DEF Applied, With, Writing
    <2> HIDE DEF row
    <2>2. RequestEffect(id, row)
      BY <1>1 DEF row
    <2>7. db' = Store!With(db, id, row)
      BY <2>1 DEF With, Store!With
    <2>3. ASSUME id \notin DOMAIN db,
                 NEW user \in Users, NEW rd \in Contents, NEW cum \in Cums \cup {None},
                 row = NewRow(user, CreateData(id, user, rd, cum))
          PROVE  Store!StoreNext
      <3>1. row = Store!NewRow(user, Store!CreateData(id, user, rd, cum))
        BY <2>3 DEF NewRow, CreateData, NoBlob, Store!NewRow, Store!CreateData, Store!NoBlob
      <3>2. id \in Ids \ DOMAIN db
        BY <2>3
      <3> QED BY <2>7, <3>1, <3>2 DEF Store!StoreNext, Store!Creation
    <2>4. ASSUME NEW user \in Users, id \in Owned(db, user),
                 NEW rd \in Contents, NEW cum \in Cums \cup {None},
                 row = PatchRow(db[id], UpdateData(id, rd, cum))
          PROVE  Store!StoreNext
      <3>1. row = Store!PatchRow(db[id], Store!UpdateData(id, rd, cum))
        BY <2>4 DEF PatchRow, MergeBlob, UpdateData, NoBlob,
                    Store!PatchRow, Store!MergeBlob, Store!UpdateData, Store!NoBlob
      <3>2. id \in Store!Owned(db, user)
        BY <2>4 DEF Owned, Store!Owned
      <3> QED BY <2>7, <3>1, <3>2 DEF Store!StoreNext, Store!UpdateByOwner
    <2>5. ASSUME id \in DOMAIN db, NEW blob \in Store!MetaxBlob, NEW t \in Times,
                 row = PublishedRow(db[id], blob, t)
          PROVE  Store!StoreNext
      <3>1. row = Store!PublishedRow(db[id], blob, t)
        BY <2>5 DEF PublishedRow, Store!PublishedRow
      <3> QED BY <2>5, <2>7, <3>1 DEF Store!StoreNext, Store!Publication
    <2>6. ASSUME id \notin DOMAIN db, NEW user \in Users, row \in Store!RowFromMetax(user)
          PROVE  Store!StoreNext
      <3>1. id \in Ids \ DOMAIN db
        BY <2>6
      <3> QED BY <2>6, <2>7, <3>1 DEF Store!StoreNext, Store!NewVersion
    <2> QED BY <1>4, <2>2, <2>3, <2>4, <2>5, <2>6 DEF RequestEffect
  <1>5. CASE row = None /\ id \in DOMAIN db
    <2>1. db' = Without(db, id)
      BY <1>1, <1>2, <1>5 DEF Applied, Without, Writing
    <2>2. db[id].owner \in Users /\ id \in Owned(db, db[id].owner)
      BY <1>3, <1>5 DEF Owned
    <2> QED BY <2>1, <2>2 DEF Store!StoreNext, Store!DeletionByOwner, Store!Without, Store!Owned,
                              Without, Owned
  <1>6. CASE row = None /\ id \notin DOMAIN db
    <2>1. {k \in DOMAIN db \cup DOMAIN run[c].writes :
              k \in DOMAIN run[c].writes => run[c].writes[k] # None} = DOMAIN db
      BY <1>1, <1>6 DEF Writing
    <2>2. \A k \in DOMAIN db : k \notin DOMAIN run[c].writes
      BY <1>1, <1>6 DEF Writing
    <2>3. db' = [k \in DOMAIN db |-> db[k]]
      BY <1>2, <2>1, <2>2 DEF Applied
    <2> QED BY <1>3, <2>3
  <1> QED BY <1>4, <1>5, <1>6

\* A batch's commit is a step of its user's batch.
LEMMA CommitOfBatch ==
    ASSUME Rest, NEW c \in Syncs, Commit(c)
    PROVE  Store!StoreNext
  <1> DEFINE user == run[c].user
             w == run[c].writes
  <1>1. user \in Users /\ c \in Clients
    BY RunTyped DEF Commit, At, Where, Clients
  <1>2. AreWrites(w) /\ \A id \in DOMAIN w : BatchEffect(user, id, w[id])
    BY <1>1, RunTyped DEF Rest, BatchesWrite, Writing
  <1>3. db' = Applied(db, w)
    BY DEF Commit
  <1> HIDE DEF user, w
  <1>4. ASSUME NEW id \in DOMAIN db' \ DOMAIN db
        PROVE  id \in Ids /\ db'[id] \in Store!RowFromMetax(user)
    <2>1. id \in DOMAIN w /\ w[id] # None /\ db'[id] = w[id]
      BY <1>3 DEF Applied
    <2> QED BY <2>1, <1>2 DEF AreWrites, BatchEffect
  <1>5. ASSUME NEW id \in DOMAIN db \ DOMAIN db'
        PROVE  db[id].owner = user
    <2>1. id \in DOMAIN w
      BY <1>3 DEF Applied
    <2> QED BY <2>1, <1>2 DEF BatchEffect
  <1>6. ASSUME NEW id \in DOMAIN db \cap DOMAIN db', db'[id] # db[id]
        PROVE  db[id].owner = user /\ db'[id] \in Store!SyncedRow(db[id])
    <2>1. id \in DOMAIN w /\ w[id] # None /\ db'[id] = w[id]
      BY <1>3, <1>6 DEF Applied
    <2> QED BY <2>1, <1>2 DEF BatchEffect
  <1>7. Store!BatchOf(user)
    BY <1>4, <1>5, <1>6 DEF Store!BatchOf
  <1> QED BY <1>1, <1>7 DEF Store!StoreNext

\* The table changes in commits only.
LEMMA OnlyCommitsChange ==
    ASSUME [Next]_vars
    PROVE  UNCHANGED db \/ \E c \in Clients : Commit(c)
  <1>1. ASSUME NEW c \in Clients,
               \/ Call(c) \/ Acquire(c) \/ Statement(c) \/ WriteStatement(c) \/ Deadlock(c)
               \/ Fail(c) \/ FailRows(c),
               ~Commit(c)
        PROVE  UNCHANGED db
    <2>1. CASE Call(c) \/ Acquire(c) \/ Deadlock(c) \/ Fail(c) \/ FailRows(c)
      BY <2>1 DEF Call, Acquire, Begin, NewBatchForUser, AcquireTimeout, getSyncInfo,
                  getSyncInfoFails, Deadlock, Fail, FailRows, Rollback
    <2>2. CASE Statement(c)
      BY <1>1, <2>2 DEF Statement, CheckOwner, getFamily, Select, ReadStreamChannel, GetAllForUid,
                        NextRecord, EndOfRecords, RollbackAborted, Rollback
    <2>3. CASE WriteStatement(c)
      BY <2>3 DEF WriteStatement, Insert, patch, StorePublished, StoreNewVersion, Delete, NotFound,
                  UpdateSynced, Update, Remove, CreateWithMetadata, FailRecord, writeStamp, Rollback
    <2> QED BY <1>1, <2>1, <2>2, <2>3
  <1>2. Restart \/ UNCHANGED vars => UNCHANGED db
    BY DEF Restart, vars
  <1> QED BY <1>1, <1>2 DEF Next

\* The operations of the storage layer take effect at once and as a whole, or not
\* at all: transactions of several statements implement DatasetStore.
THEOREM TransactionsAreAtomic == Spec => OperationsAreAtomic
  <1>1. Init => Store!StoreInit
    BY DEF Init, Store!StoreInit
  <1>2. IInv /\ [Next]_vars => [Store!StoreNext]_db
    BY OnlyCommitsChange, CommitOfRequest, CommitOfBatch DEF IInv, Clients
  <1> QED BY <1>1, <1>2, TransactionsInvariant, PTL DEF Spec, OperationsAreAtomic, Store!StoreSpec

-----------------------------------------------------------------------------
(* What is read.                                                           *)

LEMMA SelectsOwn ==
    ASSUME Rest, NEW c \in Clients, Select(c)
    PROVE  Answer(c) \subseteq Owned(db, run[c].user)
  <1>1. run[c].pc = "read" /\ run[c].kind \in {"get", "view", "list", "versions"}
    BY RunTyped DEF Select, At, Where, RequestWhere, BatchWhere, Clients
  <1>2. CASE run[c].kind \in {"list", "versions"}
    BY <1>2 DEF Answer
  <1>3. CASE run[c].kind \in {"get", "view"}
    <2>1. Settled(c, run[c].user, run[c].id)
      BY <1>1, <1>3 DEF Rest, ClaimsSettled, Claims, OwnerChecked
    <2> QED BY <1>3, <2>1 DEF Answer, Settled, Owned
  <1> QED BY <1>1, <1>2, <1>3

\* A user is shown rows of their own only, although their owner was compared in
\* an earlier statement than the one that reads them.
THEOREM OwnRowsRead == Spec => ReadsOwnRows
  <1>1. IInv /\ [Next]_vars
           => [\A c \in Clients : Select(c) => Answer(c) \subseteq Owned(db, run[c].user)]_vars
    BY SelectsOwn DEF IInv
  <1> QED BY <1>1, TransactionsInvariant, PTL DEF Spec, ReadsOwnRows
=============================================================================
