# Verification of qvain-api

TLA+ specifications of qvain-api: of the parts that keep datasets in step between
the Qvain database and Metax, of the transactions and the connection pool beneath
them, of the documents new datasets are made from, of logins, sessions and the proxy,
and of the statistics queries. They are checked with TLC on small instances, and TLAPS checks
proofs of the results that hold for every instance.

qvain-api is the backend of a metadata editor. Users edit dataset descriptions in
Qvain's PostgreSQL database; *publishing* sends one to Metax, the national
metadata warehouse, which gives it an identifier; a *sync* takes over what changed
in Metax. The hard part is that the same dataset is kept in two places, that no
transaction spans both, and that requests, background syncs and Metax itself
change it at the same time.

## Inventory of the system

| Component | State it keeps | Operations | Hard because | What makes it correct |
|---|---|---|---|---|
| Datasets table (`internal/psql/dataset.go`, `schema/schema.sql`), documents (`pkg/metax/dataset.go`, `versioning.go`, `pkg/models`) | rows: owner, published, synced, document | create, patch, store published, insert new version, delete, service updates | read and write in separate transactions, no version check, no unique identifier | a row is published exactly if its document has an identifier; identifiers are unique |
| Requests (`cmd/qvain-backend/dataset_api.go`, `internal/shared/publish.go`) | local variables of each request | create, update, publish, delete | each is several steps, two of them in Metax; timeouts, lost answers | what is deleted, published or given an identifier stays consistent with Metax |
| Sync (`internal/shared/fetch.go`, `internal/psql/batch.go`, `cumulative_state.go`, `refresh_directory.go`) | a transaction, two maps, `lastsync` | Fetch, FetchAll, FetchDataset, two RPCs | long transaction beside requests; watermark; partial failure | nothing older than the watermark is missing; rows are neither duplicated nor dropped |
| Streaming (`pkg/metax/api.go` `ReadStreamChannel`, `fetch.go` `syncBatch`) | two goroutines, two channels, a context | decode, hand over, give up, close | `select` with several cases ready; truncated answers | no decoded record lost, only complete answers committed, no goroutine left |
| Metax (external) | its datasets and their dates | POST, PUT, DELETE, GET, RPC | executes calls nobody waits for | — |
| Templates (`pkg/metax/templates.go`, `CreateData`, `ValidateCreated`) | a template map per schema, shared by all requests | create a document | the map is written field by field and serialised without a lock | a document has fields of requests that overlapped only, and what is stored is valid |
| Identities (`internal/psql/identities.go`, `register_identity`) | `identities` table | register, look up | check-then-insert | one user per external identity |
| Sessions and login (`internal/sessions`, `internal/oidc`, `cmd/qvain-backend/sessions.go`) | cache of sessions, state cookies | login, callback, get, destroy | logins of several tabs and browsers, lost responses, expiry, restarts | a session is of the registered user who logged in, in the browser where the login began |
| Proxy (`cmd/qvain-backend/api_proxy.go`) | requests waiting for Metax | check the request, check the answer | the session is looked up again when Metax has answered | nobody sees files of projects they do not have |
| Statistics (`internal/psql/filters.go`, `views.go`, `cmd/qvain-backend/api_helpers.go`, `stats_api.go`) | none | parse a query, count rows | numbered SQL arguments, time bounds, map order | the rows counted are the rows asked for |
| Transactions and pool (`internal/psql/psql.go`, `dataset.go`, `batch.go`) | five connections, uncommitted writes, row locks | begin, statements, commit, rollback | several statements at READ COMMITTED, deadlocks, a sync takes two connections | operations are atomic, no connection is lost, every operation ends |
| Views of datasets (`internal/psql/views.go`, `dataset.go`) | none | view one, list all, list versions | the owner is compared in a statement of its own | a user is shown their own rows |
| Pure functions: `ValidateUpdated`; `pkg/concat`, which no package imports | none | — | boundary cases | each agrees with its rules |
| Lookups, export, command line tools, secmsg, es, redis | none or external | — | — | not modelled: queries, wrappers, cryptography, I/O |

Components meet in three places: the datasets table (requests and syncs write the
same rows, through the same pool), Metax (publishes, syncs and other services) and `lastsync`. A login
starts a Fetch in the background; listing datasets may run one in the request. A
session carries the user id that all dataset requests act for, so that identities
and sessions meet the rest there and nowhere else: in `Publish` and `Sync` a request
simply has a user. `Publish` and `Sync` take each database operation as one step;
that they may is what `Transactions` shows.

## Modules

| Module | Models |
|---|---|
| `Datasets` | values: documents, rows, and the SQL statements as operators on tables. No variables. |
| `Metax` | the external service: `metax`, `clock`, one action per kind of call it executes. |
| `Publish` | the requests. Extends `Metax`. |
| `Lifecycle` | abstract specification: what becomes of a dataset and its identifier. |
| `Sync` | syncs and RPC requests beside the requests of `Publish`, which it extends. |
| `StreamChannel` | the two goroutines that read one streaming answer. |
| `Sessions` | logins, users, sessions and the proxy requests made in them. |
| `DatasetStore` | abstract specification: the operations of the storage layer, each one step. Extends `Datasets`. |
| `Transactions` | the same operations statement by statement, the pool, locks and failures. Extends `Datasets`. |
| `Documents` | creating documents from templates that requests share. |
| `TimeFilters` | the time filters of queries as operators on instants. No variables. |
| `Stats` | the query parser, the WHERE statement, the count and the handler of the statistics. Extends `TimeFilters`. |
| `MCPublish`, `MCSync`, `MCSessions`, `MCTransactions`, `MCDocuments` | symmetry sets for TLC, and the state constraint of `sync_faults`. `StreamChannel` needs none and is checked directly. |
| `MCStats` | the table and the times of the run. |
| `PublishProofs`, `LifecycleProofs`, `StreamProofs`, `TimeFiltersProofs`, `TransactionsProofs`, `DocumentsProofs`, `SessionsProofs`, `SyncProofs` | theorems and proofs. |

### Datasets and Metax

A document (`Blob`) keeps six fields: `rd` (research_dataset), `cum`
(cumulative_state), `user` (metadata_provider_user), `rec` (editor.record_id),
`ident` (identifier) and `date` (the latest of Metax's dates, which is what
`GetModificationDate` returns). They are the fields some code branches on; a
missing field is `None`. A row keeps owner, published, synced and document;
`creator` and `valid` steer nothing, `seq` is incremented and never read,
`modified` is only shown. All rows are of the Metax family, whose updates are partial:
`MergeBlob` is `blob || $2`.

`clock` ticks at every change in Metax, so that modification dates differ, and time
is otherwise only compared. One clock serves Metax, PostgreSQL and the backend.

### Publish

`req[h]` is the local state of the goroutine serving a request; `pc` names its next
step. A step is one database transaction (`SmartUpdateWithOwner`, `StorePublished`,
`StoreNewVersion`, `Delete`, and the reads `GetForPublish`, `GetForDelete`,
`GetForUnpublish`, `ValidateUpdate`) or the execution of a call by Metax
(`StoreCreated`, `StoreUpdated`, `StoreMadeVersion`, `GetNewVersion`,
`DeleteInMetax`). The document Metax answers with is kept in `req[h].blob` until
the transaction that writes it. `Fail(h)` is every early return with an error; with
`Faults`, a request may fail anywhere, and the call it waited for moves to `late`,
from where Metax may execute it at any later time. `Crash` ends every request.
`CreateDataset` is one step: what `CreateData` computes is the request's own until the
row is inserted, but for the template. `CreateData` assembles the document in a map
that all requests share, so if creates overlap (`CreatesOverlap`) a document may have
the record_id and the metadata_provider_user that another create put there:
`TemplateIds` and `TemplateUsers` are any of them, also of creates whose row is not
there yet or never will be. `Documents` has the steps in between.
`minted` holds the uuids made, since none is made twice. `edited` is a history
variable: rows with user edits Metax has not seen.

### Sync

`sync[s]` is the local state of one sync: the query (`since`, `removed`), the
transaction (`at` its time, `writes` its uncommitted rows), the records not processed
yet (`recs`, in any order) and the two maps of `getSyncInfo` (`known`). Uncommitted
writes are visible to their batch only, and lock their rows against other batches
and against requests (`Write`, `Unlocked`); `Commit` applies them and stamps
`lastsync`. `syncRecord` is one action with one disjunct for each way out of the
function. `ToQvain` refuses a record with a record_id that is no uuid or with a catalog
it does not know: `Refused` is the set of the identifiers of such datasets, which other
services make and change like any others, and which `RefuseRecord` only leaves out of
the batch (`FetchDataset` ends). The RPC requests change a dataset in Metax and then run `FetchDataset`
for it and for the new version reported. `Timeout` is the batch whose 15 seconds
are over, `CutOff` the truncated answer that `StreamChannel` examines in detail,
`noinfo` the failed `getSyncInfo`.

### Transactions and DatasetStore

`run[c]` is what a request or a sync `c` is doing: `pc` names its next statement (the
comment at `PCs` lists them), `writes` are the rows its transaction has written and not
committed. `db` is what is committed. The isolation level is READ COMMITTED, which the
code never changes: a statement sees `Applied(db, run[c].writes)`; a write waits for
another transaction's row (`Locked`) and then looks at the row as it is. A request
compares the owner (`CheckOwner`), looks up the family (`getFamily`), then writes or
reads the row: three statements, between which others commit. A batch reads what it
knows of the user's rows over a second connection (`getSyncInfo`, `GetAllForUid`) while
it holds the first, and writes one row per record.

`free` counts the connections of the pool. Whoever finds none gives up after ten
seconds (`AcquireTimeout`); `getSyncInfoFails` is the same for the second connection,
whose error is only logged, so that the batch goes on with empty maps. `Deadlock` is
PostgreSQL aborting one of several transactions that wait for each other in a circle:
a batch in it counts the record as failed and goes on, and since the transaction is
aborted it can only be rolled back in the end. `FailRecord` is a record whose row is
gone. With `Faults`, a statement may fail or the connection break anywhere (`Fail`,
`FailRows`), and the process may stop (`Restart`).

`DatasetStore` has no clients, no connections and no locks: only the table and one
step for each operation that changes it. A batch is one step too, which may add, change
and delete rows of one user. `OperationsAreAtomic` is `DatasetStore` with `db` as its
table; nothing but a commit may move it. `Publish` and `Sync` use steps of this form.

### Documents

`templates[s][f]` is whose value field `f` of the template of schema `s` has. A request
sets its fields one after the other (`Assign`), and then the map is serialised:
`encoding/json` takes the keys (`MapKeys`) and then the value of each key in order
(`MapIndex`). Requests run beside each other between any two of these steps. Go's check
for concurrent writes to a map ends the process if it notices (`ConcurrentMapWrites`),
and need not notice. The document is then validated (`ValidateCreated`) and inserted
(`Create`). `met` is history: the requests that were in `CreateData` while `r` was.
Serialising fails on a value that is no JSON; such a value of cumulative_state stays in
the template.

### StreamChannel

`body` is what arrives of the JSON array, token by token; `ppc` and `cpc` are the
program counters of the goroutine and of the loop. `SendRecord` is the rendezvous on
the unbuffered `outc`; `errc` has room for one error. `select` is the disjunction of
the actions enabled with `cpc = "select"`, so any ready case may be taken.

### Sessions

`login[h]` is a callback being served: the code is exchanged, the claims are looked
at (`Accepts`), `register_identity` is its `SELECT` (`RegisterIdentity`) and, if that
finds nobody, its `INSERT` with the commit (`InsertIdentity`), then `NewLogin` puts a
session in the cache and `SetSessionCookie` is the response arriving. Any of these may
fail (`LoginFail`), and `Restart` loses the cache and every request but no row and no
cookie. The identity provider (external) authenticates anybody for a login it was
asked for and takes each code once; a callback address stays in `codes` until then, and
any browser may open it. `begun` and `opened` are history: the browser a state was
made for and the login a session id was made for. An identity is a person with or
without CSC user name, as the code forms one.

A proxy request keeps its session at the time of the request in `by`; `reach` is what
it may ask Metax for. The sets in `ProxyRequest` are the kinds of request: one project of the session, the session's projects (which a change is
sent with), or everything. In the path check the code answers 403 for a foreign
project and then goes on with the request; the model has that request too, and
`ModifyResponse` is what keeps the answer from the browser.

### Stats and TimeFilters

An instant is an integer. A time text is a time and the length of its precision; a
text that fits no layout is `Junk`, the zero time. `query` is the URL's query,
assembled one value at a time; `getDatasetFilter`, `Validate`, `Where` and
`CountDatasets` are the code's functions, and `Datasets` is the handler, for any order
in which Go may visit the suffixes of the time parameters. A condition refers to its
argument by number, as in SQL. `CountsWhatIsAsked` compares this with a definition that
knows no statement: the rows that every parameter asks for (`AskedOf`), where times
are compared in units of their precision (`Asked`).

## Runs

| Run | Question | Distinct states |
|---|---|---|
| `publish_concurrent` | two requests at a time, creates with a shared template, faults, late calls: are identifiers unique, flags right, skips sound, and is `Lifecycle` implemented? | 1 394 000 |
| `publish_sequential` | one request at a time, no faults: do rows and Metax stay in step, and are identifiers and published cumulative states stable? | 107 000 |
| `sync_serial` | one request or sync at a time, other services active in between: does a sync miss or duplicate anything but records it refuses? | 1 244 000 |
| `sync_faults` | syncs and RPC requests overlapping a request, with faults: does a sync stay within its user's rows and drop only what was removed, and are owners right? | 908 000 |
| `sync_liveness` | full fetches while Metax changes: do the rows come to mirror what they accept of Metax? | 730 000 |
| `stream_channel` | answers of up to three records, whole, cut off or malformed | 660 |
| `sessions` | two persons at two browsers: whose sessions are they, and what do they show? | 1 141 000 |
| `stats` | every query of up to three values over a table of 224 rows: are the counts of the rows asked for? | 177 000 |
| `transactions` | a request and two syncs on two connections, with faults: is every operation atomic, no connection lost, and nothing read of others? | 1 060 000 |
| `transactions_liveness` | a request and two syncs that compete for connections and row locks: do they all end? | 168 000 |
| `documents` | three creates, two at a time, of two schemas, with restarts: whose fields does a document have, and is what is stored valid? | 1 732 000 |

One run expects a violation. It shows the shortest way to a disagreement between the
code and what its own comments say:

| Run | Violated | What happens |
|---|---|---|
| `sync_timeout` | `WatermarkSound` | a timed-out batch is followed by one that stamps `lastsync` |

### Bounds, and why they are enough

- `CreatesOverlap` is TRUE in `publish_concurrent`, whose properties are about identifiers,
  dates and flags. Those about owners are checked in the sync runs, where one handler serves
  requests and creates cannot overlap.
- `Refused`: one dataset of another service in `sync_serial` and `sync_liveness`, which may
  be created, edited and removed beside three that Qvain accepts. Every refused record
  takes the same way through `syncRecord`, whatever is wrong with it. Elsewhere there is none:
  `sync_faults` is about what is written, and a record left out writes nothing.
- Users: two where ownership matters, else one. Contents: two where an edit has to be
  told from what was there, else one (then edits show in dates).
- Handlers: two. The races of requests are between two requests about one dataset;
  a third only adds another writer to the same steps.
- `Ids` and `NewIds`: `NewIds` bounds what requests create, the rest serves new
  versions and records of other services.
- `Idents` and `MaxClock` bound what Metax makes and how often it changes anything:
  three changes are enough for publish, new version and edit or removal.
- `MaxLate`: one call left behind at a time; in `sync_faults`, while one user is active
  (the state constraint `LateOfOneUser`), so that the run has two users, and has late
  calls, but not both at once. The cumulative state there is "2", which only an RPC
  request may set.
- `Browsers`, `Persons`, `States`, `Sids`, `Uids`: two each, so that there is one
  browser, person, login, session and user to mistake for another; two callbacks and
  one proxy request at a time. `p2` is a person of the old proxy, who needs no CSC user
  name. Ids are never made twice, so two of them also bound how often logins happen.
  `Parallel` is FALSE in `sessions`: no two callbacks of one person at a time.
- `MaxValues`: three values in a query, so that two time filters meet another
  condition with an argument, and a parameter is given twice. The table has a row of
  each kind and creation time before, in, at the ends of and after a day.
- `MaxRecords`: three records, so that some are before, at and after the cut.
- `transactions`: `Conns` is two and there are three clients, so that a batch holding
  one connection may or may not get its second, and a client may find none. Two syncs
  and `Records` = 2, the least that makes two batches lock two rows in opposite orders.
  Both syncs are of one user (`Syncing`), as batches write rows of their user only; the
  request is of either user. `Kinds` has every operation; the liveness run has those
  that wait for locks and those that do not. Documents have one content: what is told
  apart there are rows and owners.
- `documents`: `AtOnce` = 2 requests in a handler at once, and a third to find what they
  left in the template. A dataset with fields only Metax sets comes without
  cumulative_state: both are refused by `ValidateCreated`, one of them at a time.
  metadata_provider_org is left out: it is set right after metadata_provider_user and
  under the same condition, which a login always meets.

Outside these runs, other values of the constants show more. With `CreatesOverlap`
and two users `SameOwnerInMetax` fails in the handlers alone, in as many steps as it
takes to create and publish a draft: its dataset is another user's in Metax. With syncs
beside them `SyncWritesOwnRows` fails too, since a document names another's row: for
owners, and for the lineage that `SyncDropsOnlyRemoved` rests on, that creates do not
overlap is an assumption, here and in the theorems. Two overlapping publishes
of a draft make two Metax datasets: `IdentifierStable` fails with two handlers. With
`Parallel` TRUE two first logins of a person at once register two users
(`OneUserPerIdentity`). A truncated answer may be committed: `dec.More()` takes the read
error for the end of the array, so that a closed channel and an error are ready for the
`select` at once. In `Documents` a field that a request does not set comes from
whoever set it last: the cumulative_state of one create is in the documents of the
later ones of that schema that have none, and after a create with a value that is
refused or is no JSON, those fail until the process restarts.
`WatermarkSound` fails
with RPC requests (`FetchDataset` stamps `lastsync` after fetching one dataset) and
when Metax changes during a batch (the stamp is the time of the commit);
`SkipCheckSound` fails with `FetchDataset` (it reads the record before its
transaction begins), with two syncs at once, and when a publish stores an old answer
after two syncs; `PublishedIffIdentified` fails when a lost answer of a POST is made
up for by a sync (which writes the document and not the flag);
`NoListedDatasetDropped` fails for two requests at a time. When a lost answer has left
Metax with two datasets made of one row, a sync that sees the one removed deletes the
row of the other; `SyncDropsOnlyRemoved` leaves those rows out (`OneDataset`). `CumulativeStateFrozen`
fails for two requests at a time: an update validated before a publish is written
after it and changes cumulative_state. `UniqueIdentifiers` fails for a sync that runs
between Metax making a new version for a publish and `StoreNewVersion` inserting its
row: both insert one. These are hazards in `PROJECT.json`.

The model also shows where a document differs from the code without a run of its own:
`doc/metax_api.md:88-89` says that records without editor object, or of another
editor, are skipped, while the code creates a published row for them
(`allowCreation`, `pkg/metax/dataset.go:22`; `Sync.ToQvain`).

### Fairness

`FairSyncSpec` assumes weak fairness of `SyncStep` (a sync that began goes on:
goroutines are scheduled, PostgreSQL answers, Metax answers or the request fails
after its timeout) and of `BeginSync` (users log in and list their datasets again
and again; nothing in the code starts a sync by itself, so without this nothing would
ever be mirrored). Nothing is assumed of Metax or of other services.
`StreamSpec` assumes weak fairness of each of its goroutines, not that the context
ever expires. `FairSpec` of `Transactions` assumes weak fairness of each client's `Acquire` (a
connection that is offered is taken, or ten seconds pass) and `Statement` (goroutines
run, PostgreSQL answers); strong fairness of `WriteStatement`, since a row's lock may be
taken by others again and again and PostgreSQL serves those who wait in order; and weak
fairness of `Deadlock` for syncs, since PostgreSQL looks for deadlocks after a second of
waiting, and only a batch, which holds a lock while it waits for another, can be in one.
No client has to begin anything. Deadlock is checked in every run except those of
`StreamChannel`, which ends.

## Proofs

All theorems hold for any users, ids, identifiers, contents and handlers and any
bounds, from the assumptions named in the modules: `NoneAssumption` (`None` is no
value), `ClockAssumption`, `PublishAssumption`, `StreamAssumption`,
`TransactionsAssumption`, `DocumentsAssumption`, `SessionsAssumption`, `SyncAssumption`,
`TableAssumption`, `TextsAssumption`, `NullAssumption` (types of the constants; finite
sets of clients and of rows; `None` is no row and no value of a column; every row was
inserted with a creation time and a flag), and `RefusedAssumption` (what Qvain refuses are
datasets). Some results assume more, and say so in their statements, because without it
they are false (see "Outside these runs"): those about owners and lineage
`~CreatesOverlap`, those about syncs `~MismatchedBodies` as well, `OneUser` `~Parallel`, the stability of rows `OneRequest` (requests come one at a time),
that rows mirror Metax after requests `OneRequest` and `~Faults`, and what syncs leave
behind `OneByOne` (the conditions of `sync_serial`: nothing overlaps, nothing fails, no
RPC requests, no foreign ids in bodies and no mixed templates; records may be refused).

- `PublishProofs`: `Spec => []TypeOK`, `Spec => []UniqueIdentifiers` and
  `Spec => []PublishedIffIdentified`. `UniqueIdentifiers` is not inductive: an
  identifier also travels in the local state of a request, from Metax's answer to the
  transaction that writes it. `IInv` therefore speaks of *claims*: an identifier is
  claimed by a row that has it, by a publish whose document has it (for its row), and
  by a publish that is to land a new version under it (for a row still to be made).
  `ClaimsDisjoint` says that two claims of one identifier are for one dataset,
  `ClaimsFromMetax` that what is claimed was given out by Metax, so that what Metax
  makes next is fresh, and `IdsMinted` the same of ids. The lemma `ClaimsKept`
  reduces each step to how it moves claims: kept, dropped, passed from a row to a publish
  and back, or fresh. `AnswersIdentified` gives the published flag.
  `Spec => []SkipCheckSound` needs what Metax does over time (`MetaxMoves`): it changes a
  dataset only while it is not removed, and dates each change later than all before.
  `SnapInv` then says that a row not edited since is stamped with the date of its
  document, and that this document is a `Snapshot`: Metax had it, and has it still unless
  the dataset got a later date. The answers that publishes carry are snapshots too.
  `Spec => DeletedOnlyUnlisted` rests on removal being final: a request between Metax
  and its `DELETE` holds an identifier that is gone (`UnlistedFirst`).
- `LifecycleProofs`: `Spec => ImplementsLifecycle`. `CreateDataset`, `StorePublished`,
  `StoreNewVersion` and `Delete` are the steps of `Lifecycle`; every other step
  stutters. That the identifier a publish takes is free is where `ClaimsDisjoint` is
  used. For one request at a time, with any failures, crashes and calls left behind,
  `Spec => []SerialInv`: the row a request is about stays as the request read it until
  it writes it, and a document that Metax answered with is of that row (`RowOf`). The
  checks of the code are made on the row as read; so they hold of the row as written,
  which gives `IdentifierStable`, `CumulativeStateFrozen` and `NoListedDatasetDropped`.
  `Spec => []Mirror`, without failures, follows from `InStep`: an identifier is listed in
  Metax exactly if a row that is not about to be deleted has it, or a publish is bringing
  it from Metax.
- `TimeFiltersProofs`: `BoundsAskWhatTheyShould`, that the bounds a filter puts on a
  column select exactly the instants its comparison asks for in units of its
  precision, for every time, precision and instant.
  `Spec => []StatsNeedKey` and `[]StatsTypeOK` of the handler, for any table and queries
  of any length: the key is looked at before anything else (`GateStops`), and a group is
  counted from rows of the table, so it is no larger.
  `Spec => []CountsWhatIsAsked` follows the query through the code. An order of the time
  parameters has all that are given (`OrderIsComplete`), and a valid query gives a filter
  of each (`TimesAsked`). A WHERE statement under construction is one whose conditions
  refer to arguments it has (`Builder`): adding a condition or an argument leaves those
  before it as they were (`ConditionAdded`, `WithArgSelects`), so each part of the filter
  restricts the rows to those it asks for (`WhereSelects`), and the bounds of a time to
  those its comparison does (`BoundsAskWhatTheyShould`). The statement and the list of
  filters are folds over sequences of any length, which needs induction. The provers
  cannot take a predicate as a parameter, but they can take the *set* of the numbers that
  satisfy it: `NatSetInduction` follows from strict inclusion being well founded on finite
  sets. It gives that a fold is defined (`FoldDefined`), and so what it is after each
  element (`FiltersFold`, `BoundsFold`, `ParamsFold`).
- `StreamProofs`: `StreamSpec => []CommitsAllDecoded` and `[]StreamTypeOK`, for answers of
  any length. The invariant of the first counts the records between decoding and writing
  (`InHand`), and says that `outc` is only closed by a goroutine that is done and dropped
  nothing. That of the second counts tokens (`StreamTyped`): what is unread is the end
  of the answer, and no more records are decoded than tokens read after the bracket.

- `TransactionsProofs`: `Spec => []TransactionsTypeOK`, `[]ConnectionsAccounted`,
  `OperationsAreAtomic` (the refinement of `DatasetStore`) and `ReadsOwnRows`. None is
  inductive: that a write may be done rests on an owner compared two statements before.
  The invariant (`IInv`, of `Rest` and `Pool`) says that a row has one writer at a time
  (`LocksExclude`); that what a client takes for its user's row is the user's, or gone
  for good, since ids are never made twice and rows never change owners
  (`ClaimsSettled`); that a request about to commit has written one row, to the effect of
  its operation on the table as it is now (`RequestsWrite`); and that a batch has
  written rows of its user only (`BatchesWrite`). Steps come in four shapes, each with
  a lemma: those that write nothing, a write, a commit, and a restart. A commit
  keeps what others hold because their rows are not the committed ones, and is the only
  step that is not a stutter of `DatasetStore`. The pool is a count: a step moves one
  client, and what it holds changes as `free` does (`SumKept`).
- `DocumentsProofs`: `Spec => []DocumentsTypeOK`, `[]FieldsOfOverlapping` and
  `[]SavedIsValid`, for any number of requests at once. `DocInv` follows a field from
  the template to the stored document: the fields a request has set hold, in the
  template, its value or one of a request it met (`TemplateFresh`), since whoever
  overwrites it is in `CreateData` at that moment and so has met it (`AllMet`); what has
  been serialised is of the same kind (`DocFresh`); and a document in its last step is
  valid. Steps of one request keep the progress of the others (`ProgressKept`), as
  they only write what those may find (`TemplatesStayFresh`).
- `SyncProofs`: whose a dataset is. Neither `StorePublished` nor the statements of a batch
  look at the owner of the row they write; that they need not is `SameOwnerInMetax` and
  `SyncWritesOwnRows`. The rows alone cannot carry the argument: requests, late calls,
  answers of Metax and the records of a batch name ids whose rows may be gone. But the
  owner of an id is settled when the id is made and outlives the row, so the invariant
  (`OwnersKnown`, `SyncOwnersKnown`) says that there is a function `own` from the ids made
  so far to users that everything agrees with: rows and their documents (`RowOwned`),
  what requests hold (`Served`), documents in Metax and in late calls (`Agrees`), and what
  a batch has read and is to write. Only making an id extends the function (`Extended`),
  and no call changes the user of a dataset in Metax (`MetaxAgrees`).
  All of it rests on a new draft's document naming its own row and user, so on creates
  that do not overlap (`OwnTemplate`).
  `Spec => []SameOwnerInMetax` holds with `MismatchedBodies` too, since requests do not
  follow a document's record_id. A sync does: a body with another id than its path, once
  in Metax, names a row that may be another user's. So `SyncSpec => []SyncTypeOK`,
  `[]SyncWritesOwnRows` and `[]SameOwnerInMetax` are proved if `~MismatchedBodies`, the
  value the sync runs use, and `~CreatesOverlap`.
  `SyncSpec => SyncDropsOnlyRemoved` is the same kind of argument, one step further: a
  batch deletes a row because of a record with an identifier the row need not have any
  more. What a row is made of is settled when its id is made: the identifier it came
  with, or none, as a draft (`born`). `Lineage` says that the documents of one identifier
  name one draft or none (`DraftOf`, `Origin`), and that rows, requests, late calls,
  Metax and the batches agree with this. So a row and the removed dataset that a batch
  took for its dataset were made of the same draft, or one identifier; if Metax has no
  second dataset of that draft (`OneDataset`), the row's own is removed, and stays so.
  The last part is about what syncs leave behind, if `OneByOne`:
  `SyncSpec => []WatermarkSound`, `[]SkipCheckSound`, `[]UniqueIdentifiers` and
  `[]PublishedIffIdentified`, and `SyncSpec => FetchAllMirrors`, which also holds of the
  incremental `Fetch` (`SyncsMirror`). `WatermarkSound` says nothing while a sync runs, and
  a commit does not repair everything: it relies on what was right before `since`. So the
  invariant `AllInStep` keeps account of a sync from beginning to end (`BatchInStep`): a
  dataset of the user's is either `Settled` (changed before `since`, or live and so done by the
  first batch) and `Shown` by the rows; or among the records still to read; or
  `Processed`, shown by the rows as the batch sees them, with its own writes, or edited by
  the user in between. A dataset that `ToQvain` refuses is `Shown` and `Processed` as it is:
  nothing is claimed of it, and a batch drops its record like one it has processed. A
  commit turns `Processed` into `Shown`, the first for live
  datasets, the second for all, which is what moving the watermark needs. That the rows a
  record is taken for are its dataset's (`RecordRows`) takes the rest: a record_id in
  Metax names the row that has the identifier, or the one a publish is about to give it to
  (`DatasetInStep`), a row not behind its synced time has Metax's document (`RowInStep`),
  and what a request carries agrees with Metax (`RequestInStep`). TLC checked `AllInStep`
  on two users, handlers and syncs before it was proved; `Grounded` is what
  `SyncOwnersKnown` adds of types and owners.
- `SessionsProofs`: `Spec => []SessionsTypeOK`, `[]SessionsRegistered`,
  `[]LoginEndsWhereItBegan` and `[]OnlyOwnProjectsShown`, and `Spec =>
  []OneUserPerIdentity` if `~Parallel`. `SessionsInv` says that a callback being served
  came to the browser its state was made for (`LoginsBegun`, `SessionsBegun`); that the uid
  a callback goes on with is in the table, or fresh and about to be inserted
  (`LoginsRegistered`); and that the session a proxy request began in, if it is
  still there, is as it was, since session ids are never reused (`ProxiedBy`). For one user
  per person, `SerialInv` adds that the logins of a person are served one at a time and
  that one about to insert has found nobody and still would (`InsertsNew`).

Only model-checked: liveness (`EventuallyMirrored`, `BothEnd`, `EveryOperationEnds`),
which is out of the provers' reach. Every safety and action property of the passing runs
has a theorem.

## Not modelled

The components without a module in the inventory. Within modelled ones: dataset
families other than Metax's; the read-only fields and preservation states of
`ValidateUpdated` (they refuse updates and change nothing); user_created and
user_modified; the content of errors; the resolution of one second of
If-Modified-Since; SQL errors within a batch as distinct from a failed sync (`Transactions`
has them, and what becomes of the batch);
the query of a sync for a user without external identity (`WithOwner`,
`fetch.go:73-75`: every user who logs in has one, and no document of Qvain's has an
owner_id to be found by); answers to the proxy that name no project, as those
without a project_identifier field and error bodies, which pass unchecked
(`OnlyOwnProjectsShown` is about the projects an answer names);
sessions from tokens, the developer login, the copy of sessions in
Redis and the maximum expiration of a session, which nothing compares; the layouts of
time texts and the JSON of answers; the operations of the storage layer nothing in the
service calls (`Clone`, `ChangeOwnerTo`, `BatchStore`, `Patch`, `UpdateWithOwner`); the
health checks of the pool. Of other services it is assumed that they leave the catalog and
the editor object of a dataset as they are, so that a dataset is refused for good or never;
and Qvain's own documents, and new versions of them, have a catalog and a record_id it accepts.
`DatasetStore` takes any set of changes to rows of one user as a batch: that an aborted
transaction commits nothing at all is PostgreSQL's promise and in `Transactions` by
construction, and the refinement would not notice a part. Its creates take a document as
given. `pkg/concat` is imported by nothing, and `cmd/qvain-backend/config.go`
reads the environment once.

## Plan

1. *Done*: `Datasets`, `Metax`, `Publish`, `Lifecycle`, `Sync`, `StreamChannel`,
   `Sessions`, `TimeFilters`, `Stats`, `DatasetStore`, `Transactions`, `Documents`; proofs
   of type correctness, `UniqueIdentifiers`, `PublishedIffIdentified`, the refinements of
   `Lifecycle` and of `DatasetStore`, the bounds of time filters, and all safety
   properties of `Publish`, `Sync`, `StreamChannel`, `Transactions`, `Documents`,
   `Sessions` and `Stats`.
2. `Validation`: the decision table of `ValidateUpdated`.
3. Runs of `Sync` with two syncs at once and the locks between them; an abstract
   specification of a sync (rows of a user become those of Metax at some moment
   during it) and its refinement without overlap.
4. Proofs: that refinement, for which `AllInStep` of `SyncProofs` has what is needed; and
   each result about what syncs leave behind from fewer conditions than `OneByOne`, where
   it still holds.

## Running

    tlc -workers 2 -config publish_concurrent.cfg MCPublish.tla
    tlc -workers 2 -config sync_serial.cfg MCSync.tla
    tlc -workers 2 -config stream_channel.cfg StreamChannel.tla
    tlc -workers 2 -config sessions.cfg MCSessions.tla
    tlc -workers 2 -config stats.cfg MCStats.tla
    tlc -workers 2 -config transactions.cfg MCTransactions.tla
    tlc -workers 2 -config documents.cfg MCDocuments.tla
    tlapm PublishProofs.tla
    tlapm LifecycleProofs.tla
    tlapm SyncProofs.tla
    tlapm StreamProofs.tla
    tlapm SessionsProofs.tla
    tlapm TimeFiltersProofs.tla
    tlapm TransactionsProofs.tla
    tlapm DocumentsProofs.tla

`PROJECT.json` lists every run with its module and configuration, and for each
property a plausible bug (the definitions commented "Mutant") that breaks it.
