---------------------------- MODULE Transactions ----------------------------
(***************************************************************************)
(* The storage layer statement by statement (internal/psql): requests and  *)
(* syncs take connections from a bounded pool and run their operations as  *)
(* transactions of several SQL statements, at PostgreSQL's default         *)
(* isolation level, READ COMMITTED:                                        *)
(*   - a statement sees what is committed when it runs, and what its own   *)
(*     transaction wrote;                                                  *)
(*   - a write locks its row until the transaction ends, and waits for     *)
(*     another transaction's lock, after which it looks at the row anew;   *)
(*   - of transactions that wait for each other one is aborted.            *)
(* An operation that fails anywhere returns through `defer tx.Rollback()`. *)
(***************************************************************************)
EXTENDS Datasets, FiniteSets

CONSTANTS
    Times,      \* the times of writes
    Requests,   \* requests and
    Syncs,      \* syncs served at the same time
    Syncing,    \* the users whose datasets are synced
    Conns,      \* the size of the connection pool
    Kinds,      \* the operations of requests, and the writes of batches
    Records,    \* how many records of Metax a batch writes at most
    Faults      \* whether statements fail, connections break and the backend stops

RequestKinds == {"create", "update", "publish", "version", "delete",
                 "get", "view", "list", "versions"}

BatchKinds == {"synced", "refresh", "remove", "import"}

ASSUME TransactionsAssumption ==
    /\ Times \subseteq Nat
    /\ IsFiniteSet(Requests) /\ IsFiniteSet(Syncs)
    /\ Requests \cap Syncs = {}
    /\ Syncing \subseteq Users
    /\ Conns \in Nat \ {0}
    /\ Kinds \subseteq RequestKinds \cup BatchKinds
    /\ Records \in Nat
    /\ Faults \in BOOLEAN

VARIABLES
    db,      \* the `datasets` table: what is committed
    minted,  \* the ids made so far: a uuid is never made twice
    free,    \* the connections in the pool
    run      \* what each request and sync is doing

vars == <<db, minted, free, run>>

Clients == Requests \cup Syncs

(* pc is what a client does next:                                          *)
(*   "begin"   wait for a connection                                       *)
(*   "check"   CheckOwner             "query"   ask Metax for records      *)
(*   "family"  getFamily              "info"    wait for a second one      *)
(*   "read"    select and end         "rows"    GetAllForUid               *)
(*   "write"   run the write          "record"  take the next record       *)
(*   "commit"  commit                 "stamp"   write lastsync             *)
(*                                    "aborted" PostgreSQL ended the batch *)
PCs == {"idle", "begin", "check", "family", "read", "write", "commit",
        "query", "info", "rows", "record", "stamp", "aborted"}

\* kind: the operation, or the write of a batch.  known: the rows getSyncInfo
\* found.  left: the records to come.  writes: the transaction's rows.
NoWrites == [id \in {} |-> None]

Idle == [pc |-> "idle", kind |-> None, user |-> None, id |-> None,
         known |-> {}, left |-> 0, writes |-> NoWrites]

AreWrites(w) ==
    /\ w = [id \in DOMAIN w |-> w[id]]
    /\ DOMAIN w \subseteq Ids
    /\ \A id \in DOMAIN w : w[id] \in Row \cup {None}

TransactionsTypeOK ==
    /\ IsTable(db)
    /\ minted \in SUBSET Ids
    /\ free \in 0..Conns
    /\ run = [c \in Clients |-> run[c]]
    /\ \A c \in Clients :
          /\ AreWrites(run[c].writes)
          /\ run[c] \in [pc     : PCs,
                         kind   : RequestKinds \cup BatchKinds \cup {None},
                         user   : Users \cup {None},
                         id     : Ids \cup {None},
                         known  : SUBSET Ids,
                         left   : 0..Records,
                         writes : {run[c].writes}]

Init ==
    /\ db = [id \in {} |-> None]
    /\ minted = {}
    /\ free = Conns
    /\ run = [c \in Clients |-> Idle]

-----------------------------------------------------------------------------
At(c, pc) == run[c].pc = pc

Goto(c, pc) == run' = [run EXCEPT ![c].pc = pc]

\* The transaction ends and its connection goes back to the pool.
Release(c) ==
    /\ free' = free + 1
    /\ run' = [run EXCEPT ![c] = Idle]

\* The deferred Rollback.
Rollback(c) == Release(c) /\ UNCHANGED <<db, minted>>

\* The rows others have written and not committed.
Locked(c) == UNION {DOMAIN run[d].writes : d \in Clients \ {c}}

\* The rows a statement sees.
Visible(c) == Applied(db, run[c].writes)

\* A write that waits for its row's lock.
Waits(c, d) == At(c, "write") /\ run[c].id \in DOMAIN run[d].writes /\ c # d

\* The write of a statement.  Where the operation goes on: a batch to its next
\* record, a request to its commit.
Put(c, id, row) ==
    run' = [run EXCEPT ![c].writes = With(@, id, row),
                       ![c].id = None,
                       ![c].pc = IF c \in Syncs THEN "record" ELSE "commit"]

\* A document as Metax has it, of a row or made elsewhere.
Document(user, rec, rd, i, t) ==
    [rd |-> rd, cum |-> None, user |-> user, rec |-> rec, ident |-> i, date |-> t]

-----------------------------------------------------------------------------
(* The connection pool.                                                    *)

\* A handler calls an operation, or a sync begins a batch.  For what, is of no
\* consequence until it has a connection.
Call(c) == At(c, "idle") /\ Goto(c, "begin") /\ UNCHANGED <<db, minted, free>>

\* The first statement of an operation.
FirstStep(kind) ==
    CASE kind \in {"get", "view", "update", "delete"} -> "check"
      [] kind \in {"list", "versions"} -> "read"
      [] OTHER -> "write"

Begin(c) ==
    /\ c \in Requests /\ At(c, "begin") /\ free > 0
    /\ free' = free - 1
    /\ \E kind \in Kinds \cap RequestKinds, user \in Users, id \in Ids \cup {None} :
          /\ id = None <=> kind \in {"create", "list"}
          /\ kind \in {"publish", "version"} => id \in Owned(db, user)
          /\ run' = [run EXCEPT ![c] = [Idle EXCEPT !.pc = FirstStep(kind), !.kind = kind,
                                                    !.user = user, !.id = id]]
    /\ UNCHANGED <<db, minted>>

\* Mutant: a connection is made when there is none.
NewBatchUnbounded(c) ==
    /\ c \in Syncs /\ At(c, "begin")
    /\ free' = free - 1
    /\ \E user \in Syncing :
          run' = [run EXCEPT ![c] = [Idle EXCEPT !.pc = "query", !.user = user, !.left = Records]]
    /\ UNCHANGED <<db, minted>>

NewBatchForUser(c) ==
    /\ c \in Syncs /\ At(c, "begin") /\ free > 0
    /\ free' = free - 1
    /\ \E user \in Syncing :
          run' = [run EXCEPT ![c] = [Idle EXCEPT !.pc = "query", !.user = user, !.left = Records]]
    /\ UNCHANGED <<db, minted>>

\* Mutant: syncs wait for a connection for as long as it takes.
TimedOutRequest(c) == c \in Requests /\ free = 0

\* No connection became free in 10 seconds.
TimedOut(c) == free = 0

\* The operation fails.
AcquireTimeout(c) ==
    /\ At(c, "begin") /\ TimedOut(c)
    /\ run' = [run EXCEPT ![c] = Idle]
    /\ UNCHANGED <<db, minted, free>>

-----------------------------------------------------------------------------
(* Statements that read.                                                   *)

\* Mutant: only whether there is such a row is looked at.
OwnsIfThere(c) == run[c].id \in DOMAIN db

Owns(c) == run[c].id \in Owned(db, run[c].user)

CheckOwner(c) ==
    /\ At(c, "check")
    /\ IF Owns(c)
       THEN /\ Goto(c, CASE run[c].kind = "get" -> "read"
                         [] run[c].kind = "delete" -> "write"
                         [] OTHER -> "family")
            /\ UNCHANGED <<db, minted, free>>
       ELSE Rollback(c)

\* Every family is Metax's; the row may be gone.
getFamily(c) ==
    /\ At(c, "family")
    /\ IF run[c].id \in DOMAIN db
       THEN /\ Goto(c, IF run[c].kind = "view" THEN "read" ELSE "write")
            /\ UNCHANGED <<db, minted, free>>
       ELSE Rollback(c)

\* The rows an operation that only reads gives to its caller.
Answer(c) ==
    CASE run[c].kind = "list" -> Owned(db, run[c].user)
      [] run[c].kind = "versions" -> {run[c].id} \cap Owned(db, run[c].user)
      [] OTHER -> {run[c].id} \cap DOMAIN db

Select(c) == At(c, "read") /\ Rollback(c)

-----------------------------------------------------------------------------
(* Statements that write, for requests.                                    *)

Insert(c) ==
    /\ At(c, "write") /\ run[c].kind = "create"
    /\ \E id \in Ids \ minted, rd \in Contents, cum \in Cums \cup {None} :
          /\ Put(c, id, NewRow(run[c].user, CreateData(id, run[c].user, rd, cum)))
          /\ minted' = minted \cup {id}
    /\ UNCHANGED <<db, free>>

\* The row's lock is free, and the row there.
Finds(c) == /\ run[c].id \notin Locked(c)
            /\ run[c].id \in DOMAIN Visible(c)

Misses(c) == /\ run[c].id \notin Locked(c) \cup DOMAIN Visible(c)
             /\ run[c].kind \notin {"create", "import"}

\* Mutant: the write does not wait.
PatchAtOnce(c) ==
    /\ At(c, "write") /\ run[c].kind = "update"
    /\ run[c].id \in DOMAIN Visible(c)
    /\ \E rd \in Contents, cum \in Cums \cup {None} :
          Put(c, run[c].id, PatchRow(Visible(c)[run[c].id], UpdateData(run[c].id, rd, cum)))
    /\ UNCHANGED <<db, minted, free>>

patch(c) ==
    /\ At(c, "write") /\ run[c].kind = "update"
    /\ Finds(c)
    /\ \E rd \in Contents, cum \in Cums \cup {None} :
          Put(c, run[c].id, PatchRow(Visible(c)[run[c].id], UpdateData(run[c].id, rd, cum)))
    /\ UNCHANGED <<db, minted, free>>

StorePublished(c) ==
    /\ At(c, "write") /\ run[c].kind = "publish"
    /\ Finds(c)
    /\ \E rd \in Contents, i \in Idents, t \in Times :
          Put(c, run[c].id, PublishedRow(Visible(c)[run[c].id],
                                         Document(run[c].user, run[c].id, rd, i, t), t))
    /\ UNCHANGED <<db, minted, free>>

\* INSERT ... SELECT: the parent is read and not locked.
StoreNewVersion(c) ==
    /\ At(c, "write") /\ run[c].kind = "version"
    /\ run[c].id \in DOMAIN db
    /\ \E id \in Ids \ minted, rd \in Contents, i \in Idents, t \in Times :
          /\ Put(c, id, NewVersionRow(db[run[c].id], Document(run[c].user, None, rd, i, t), t))
          /\ minted' = minted \cup {id}
    /\ UNCHANGED <<db, free>>

Delete(c) ==
    /\ At(c, "write") /\ run[c].kind = "delete"
    /\ Finds(c)
    /\ Put(c, run[c].id, None)
    /\ UNCHANGED <<db, minted, free>>

\* No row was affected: ErrNotFound.  Or no id could be made.
NotFound(c) ==
    /\ c \in Requests /\ At(c, "write")
    /\ Misses(c) \/ (run[c].kind \in {"create", "version"} /\ Ids = minted)
    /\ Rollback(c)

-----------------------------------------------------------------------------
(* Batches.                                                                *)

\* Metax answers with records of the user, or with none.
ReadStreamChannel(c) ==
    /\ At(c, "query")
    /\ Goto(c, "info") \/ Goto(c, "stamp")
    /\ UNCHANGED <<db, minted, free>>

\* getSyncInfo takes a second connection.
getSyncInfo(c) ==
    /\ At(c, "info") /\ free > 0
    /\ free' = free - 1
    /\ Goto(c, "rows")
    /\ UNCHANGED <<db, minted>>

\* There is none in time: that is only logged.
getSyncInfoFails(c) ==
    /\ At(c, "info") /\ TimedOut(c)
    /\ Goto(c, "record")
    /\ UNCHANGED <<db, minted, free>>

\* Mutant: the rows are not closed, which keeps their connection.
GetAllForUidUnclosed(c) ==
    /\ At(c, "rows")
    /\ run' = [run EXCEPT ![c].pc = "record", ![c].known = Owned(db, run[c].user)]
    /\ UNCHANGED <<db, minted, free>>

GetAllForUid(c) ==
    /\ At(c, "rows")
    /\ free' = free + 1
    /\ run' = [run EXCEPT ![c].pc = "record", ![c].known = Owned(db, run[c].user)]
    /\ UNCHANGED <<db, minted>>

\* The rows that the records Metax has of a user name: the user's, which may be gone.
Nameable(c) ==
    {id \in minted : IF id \in DOMAIN db THEN db[id].owner = run[c].user ELSE id \notin Locked(c)}

\* The next record, and what syncRecord does about it.
NextRecord(c) ==
    /\ At(c, "record") /\ run[c].left > 0
    /\ \E kind \in Kinds \cap BatchKinds, id \in minted \cup {None} :
          /\ id = None <=> kind = "import"
          /\ kind \in {"synced", "remove"} => id \in run[c].known
          /\ kind = "refresh" => id \in Nameable(c)
          /\ run' = [run EXCEPT ![c].pc = "write", ![c].kind = kind, ![c].id = id,
                                ![c].left = @ - 1]
    /\ UNCHANGED <<db, minted, free>>

UpdateSynced(c) ==
    /\ At(c, "write") /\ run[c].kind = "synced"
    /\ Finds(c)
    /\ \E t \in Times : Put(c, run[c].id, [Visible(c)[run[c].id] EXCEPT !.synced = t])
    /\ UNCHANGED <<db, minted, free>>

Update(c) ==
    /\ At(c, "write") /\ run[c].kind = "refresh"
    /\ Finds(c)
    /\ \E rd \in Contents, i \in Idents, t \in Times :
          Put(c, run[c].id, [Visible(c)[run[c].id] EXCEPT
                                !.synced = t, !.blob = Document(run[c].user, run[c].id, rd, i, t)])
    /\ UNCHANGED <<db, minted, free>>

Remove(c) ==
    /\ At(c, "write") /\ run[c].kind = "remove"
    /\ Finds(c)
    /\ Put(c, run[c].id, None)
    /\ UNCHANGED <<db, minted, free>>

CreateWithMetadata(c) ==
    /\ At(c, "write") /\ run[c].kind = "import"
    /\ \E id \in Ids \ minted, rd \in Contents, i \in Idents, t \in Times :
          /\ Put(c, id, [owner |-> run[c].user, published |-> TRUE, synced |-> t,
                         blob |-> Document(run[c].user, None, rd, i, t)])
          /\ minted' = minted \cup {id}
    /\ UNCHANGED <<db, free>>

\* The row is gone, or no id could be made: the record counts as failed, and the
\* batch of FetchDataset, which has no other record, ends.
FailRecord(c) ==
    /\ c \in Syncs /\ At(c, "write")
    /\ Misses(c) \/ (run[c].kind = "import" /\ Ids = minted)
    /\ \/ run' = [run EXCEPT ![c].pc = "record", ![c].id = None] /\ UNCHANGED <<db, minted, free>>
       \/ Rollback(c)

\* All records are read.
EndOfRecords(c) ==
    /\ At(c, "record")
    /\ Goto(c, "stamp")
    /\ UNCHANGED <<db, minted, free>>

\* lastsync has a row for each user, which is locked like any other.
writeStamp(c) ==
    /\ At(c, "stamp")
    /\ \A d \in Syncs \ {c} : ~(At(d, "commit") /\ run[d].user = run[c].user)
    /\ Goto(c, "commit")
    /\ UNCHANGED <<db, minted, free>>

\* The error of one statement aborts the transaction: the statements to come
\* fail, writeStamp last, and the batch is rolled back.
RollbackAborted(c) == At(c, "aborted") /\ Rollback(c)

-----------------------------------------------------------------------------
(* The end of a transaction, and failures.                                 *)

Commit(c) ==
    /\ At(c, "commit")
    /\ db' = Applied(db, run[c].writes)
    /\ Release(c)
    /\ UNCHANGED minted

\* Transactions that wait for each other in a circle: PostgreSQL aborts one.
Circle(S) == /\ \A c \in S : \E d \in S : Waits(c, d)
             /\ \A d \in S : \E c \in S : Waits(c, d)

Deadlock(c) ==
    /\ \E S \in SUBSET Clients : c \in S /\ Circle(S)
    /\ run' = [run EXCEPT ![c].pc = "aborted", ![c].writes = NoWrites]
    /\ UNCHANGED <<db, minted, free>>

\* A statement fails, the connection breaks, or the batch runs out of time.
Fail(c) ==
    /\ Faults
    /\ run[c].pc \notin {"idle", "begin", "rows"}
    /\ Rollback(c)

\* getSyncInfo fails with its connection: that, too, is only logged.
FailRows(c) ==
    /\ Faults
    /\ At(c, "rows")
    /\ free' = free + 1
    /\ Goto(c, "record")
    /\ UNCHANGED <<db, minted>>

\* The backend stops: PostgreSQL rolls back what was not committed.
Restart ==
    /\ Faults
    /\ free' = Conns
    /\ run' = [c \in Clients |-> Idle]
    /\ UNCHANGED <<db, minted>>

-----------------------------------------------------------------------------
Statement(c) ==
    \/ CheckOwner(c) \/ getFamily(c) \/ Select(c)
    \/ ReadStreamChannel(c) \/ GetAllForUid(c)
    \/ NextRecord(c) \/ EndOfRecords(c) \/ RollbackAborted(c)
    \/ Commit(c)

WriteStatement(c) ==
    \/ Insert(c) \/ patch(c) \/ StorePublished(c) \/ StoreNewVersion(c) \/ Delete(c)
    \/ NotFound(c)
    \/ UpdateSynced(c) \/ Update(c) \/ Remove(c) \/ CreateWithMetadata(c) \/ FailRecord(c)
    \/ writeStamp(c)

Acquire(c) ==
    \/ Begin(c) \/ NewBatchForUser(c) \/ AcquireTimeout(c)
    \/ getSyncInfo(c) \/ getSyncInfoFails(c)

Next ==
    \/ \E c \in Clients :
          \/ Call(c) \/ Acquire(c) \/ Statement(c) \/ WriteStatement(c) \/ Deadlock(c)
          \/ Fail(c) \/ FailRows(c)
    \/ Restart

Spec == Init /\ [][Next]_vars

(* Goroutines run and PostgreSQL answers; who waits for a connection gets  *)
(* one or times out; who waits for a lock is next in the row's queue when  *)
(* it is released; and a circle of waiting transactions is found.          *)
FairSpec ==
    /\ Spec
    /\ \A c \in Clients : /\ WF_vars(Acquire(c) \/ Statement(c))
                          /\ SF_vars(WriteStatement(c))
    /\ \A c \in Syncs : WF_vars(Deadlock(c))

-----------------------------------------------------------------------------
(* Properties.                                                             *)

\* The connections a client holds.
Holds(c) == IF run[c].pc \in {"idle", "begin"} THEN 0
            ELSE IF run[c].pc = "rows" THEN 2 ELSE 1

(* Each operation of the storage layer takes effect at once and as a whole *)
(* or not at all: the statements of transactions that overlap amount to    *)
(* the atomic steps of DatasetStore, one after the other.                  *)
Store == INSTANCE DatasetStore

OperationsAreAtomic == Store!StoreSpec

(* Every connection taken comes back to the pool, on every path out of an  *)
(* operation: those in the pool and those in use are always all of them.   *)
ConnectionsAccounted ==
    free + Cardinality({c \in Clients : Holds(c) > 0})
         + Cardinality({c \in Clients : Holds(c) = 2}) = Conns

(* What an operation shows to a user are rows of that user, although the   *)
(* owner was compared in an earlier statement than the one that reads.     *)
ReadsOwnRows ==
    [][\A c \in Clients : Select(c) => Answer(c) \subseteq Owned(db, run[c].user)]_vars

(* Whoever waits for a connection, a lock or both is served or gets an     *)
(* error: requests and batches always end, also when every connection is   *)
(* held by a batch that wants a second one, and when batches lock each     *)
(* other's rows.                                                           *)
EveryOperationEnds == \A c \in Clients : ~At(c, "idle") ~> At(c, "idle")
=============================================================================
