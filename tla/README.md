# Citration: a verification project

Citration is a reference manager for Mac and iPad that keeps a Zotero library
in a local SQLite database, and a self-hosted server that speaks the Zotero web
API. This directory holds TLA+ models of the parts whose behaviour is hard to
test, what TLC checks about them, and what TLAPS proves.

Paths: `Core/` stands for `src/packages/citration-core-swift/Sources/CitrationCore/`
and `Server/` for `src/services/zotero-selfhost/src/`.

## 1. Inventory

### The app

| Part | State | Operations | Interacts with | Hard behaviour | Correct when |
|---|---|---|---|---|---|
| Local store (`Core/Persistence`, `Core/Sync/CitrationDatabase+*`) | `zotero_objects` (state, version, current and pristine JSON, deletion mark), `synchronization_failures`, projections, `libraries.current_version` | local edits and deletions, integration of pulled objects and deletions, upload queues, write reports, conflict resolution | every other part of the app, each in a transaction | two jobs and the user write the same rows between another job's awaits | no local work lost, none stranded, what is shown is what is stored |
| Three-way merge (`ZoteroThreeWayMerge`) | none | merge of base, local and remote fields | integration | equal and one-sided edits | competing edits are reported, all others merged |
| Synchronization engine (`ZoteroSyncEngine`, `ZoteroSynchronizationReport`) | locals of `synchronize` and `pullReadOnly` | uploads, deletions, lists, objects, stability check, retries | store, API client | every await; stale answers; 412; several attempts | the committed version covers everything up to it; other clients' work is not overwritten |
| API client (`ZoteroAPIClient`) | backoff deadline | requests with retries | server | a request is sent again after the server acted | repeated requests are harmless |
| Foreground coordinator and streaming (`ForegroundSyncCoordinator`, `ZoteroStreamingSync`) | tasks, `isSynchronizing`, `synchronizeAgain`, the socket | start, stop, debounced upload, pull on a hint | engine, database observation | cancellation, jobs that overlap, missed hints | a change is uploaded in the end; a hint is never needed for safety |
| Connection and promotion (`ZoteroConnectionProfile`, `CitrationDatabase+LocalPromotion`) | profile row, keychain entry, local-only library | connect, disconnect, promote | store, engine, keychain | failure between two stores | profile and credential agree; no local object lost |
| Attachment transfer (`ZoteroAttachmentTransfer`, `CitrationDatabase+AttachmentTransfer`) | file state per attachment | upload, download, verify | server files | interrupted and repeated uploads, replaced files | the registered digest is that of the stored bytes |
| Readers, metadata, citations, exports, legacy migration | – | – | – | conversion, rendering, network lookups | – |

### The server

| Part | State | Operations | Hard behaviour | Correct when |
|---|---|---|---|---|
| Multi-object writes and deletions (`Server/domain/item-storage.ts`, `collections.ts`, `routes/compatibility/...`) | `libraries.version`, object rows, `sync_log`, `write_tokens` | batch POST, DELETE, reads by version | each handler is many D1 queries; preconditions, reserved versions and rows are written apart | versions unique and growing; no lost update; a reader that saw version v saw all of it |
| Attachment files (`attachment-storage.ts`, `files.ts`) | uploads, parts, registered files, R2 objects | authorize, upload, register, delete | steps of one upload spread over requests; shared R2 objects | a registered file's object exists |
| Stream hub (`zotero-stream-hub.ts`) | subscriptions in socket attachments | subscribe, unsubscribe, publish | attachments read before and written after awaits | an accepted subscription receives what follows |
| Keys, groups, installation | keys, login sessions, groups | CRUD, claim, login | claims by two browsers | one owner |
| Settings, searches, tags, full text | rows with versions | as collections | as collections | as collections |
| Exports, mappings, web translation | none | conversions | – | – |
| Command line (`services/zotero-selfhost/cli`) | importer state file | resumable import, backup and restore | a crash between two steps | a resumed import neither skips nor repeats |

`PROJECT.json` lists every component with its sources, and every hazard found in
the code, at its line.

## 2. How the project is organised

| Module | Models | Composes or refines |
|---|---|---|
| `ThreeWayMerge`, `SyncStore`, `ServerLibrary` | the merge; the store's transactions; the server's requests, each in one step | used by `LibrarySync` |
| `LibrarySync` | user, other clients and engines on one library | composes the three |
| `VersionLedger` | abstract: what a library's version counter promises | – |
| `ServerWrites` | the server's requests, query by query | implements `VersionLedger` |
| `AttachmentFiles` | the server's file requests, query by query, on D1 and R2 | used by `AttachmentTransfer` |
| `AttachmentTransfer` | devices that upload and download files | composes devices and server |
| `ForegroundSync` | when a device synchronizes by itself | supplies what the fairness of `LibrarySync` assumes |
| `StreamHub` | subscriptions, publications, and the devices that listen | its `Pull` is `pullReadOnly` of `LibrarySync` |
| `MC...` | small instances for TLC | – |
| `LibrarySyncProofs`, `LocalWorkProofs`, `ReplicaProofs` | theorems about `LibrarySync` | each uses the ones before it |
| `VersionLedgerProofs`, `ServerWritesProofs`, `AttachmentProofs`, `ForegroundSyncProofs`, `StreamHubProofs` | theorems about the module of that name | `ServerWritesProofs` uses `VersionLedgerProofs` |

Mutants of definitions stand before them, marked as such; nothing uses them.

What is left, in the order of importance:

1. The theorems of `ReplicaProofs` with a user who deletes, as far as they hold
   (section 4 has what breaks them).
2. Where `ServerWrites` implements the one-step requests of `ServerLibrary`: not
   for lists, which may lack what they met, nor for deletions that meet another
   write.
3. The resumable import, and the steps of connecting and disconnecting.

## 3. What the modules model

### Synchronizing one library

- `ThreeWayMerge` – the merge of `ZoteroThreeWayMerge.swift`. A body maps the
  editable fields to values; a missing field is `Absent`, a non-object `Null`.
- `SyncStore` – one record per object: row state, deletion mark, version, current
  and pristine body, the open merge conflict, the open upload and deletion
  failures with whether their retry is due, and the shown projection. One
  operator per transaction, from record to record.
- `ServerLibrary` – one library: its version and its objects, with the version of
  each one's last deletion. `UploadItems`, `UploadCollections`, `DeleteItems` and
  `DeleteCollections` are the handlers, from a library and a request to a library
  and an answer. Items that a written one names as related are written again
  under further versions (`LinkBack`), which the answer's version covers and its
  report does not name: `Related` says which items those are, `Linked` what the
  relation in return makes of a body.
- `LibrarySync` – the composition. `rows` and `currentVersion` are the database,
  `library` the server; `pc`, `run`, `upload` and `pull` hold each engine's
  position and locals. A request is a step of the server, its answer is applied
  in a later step; a transaction is one step.

| Code | Action |
|---|---|
| `storeLocalItems`, `updateLocalItemFields`, `storeLocalCollections` | Create, Edit |
| `removeItem`, `removeCollection` → `markLocalDeletion` | Delete |
| `resolveConflict` | ResolveConflict |
| `scheduleSyncFailureRetry`, the clock | RetriesDue |
| `synchronize` → `uploadPending` | StartSynchronize, Queue, Batch, NextStage |
| `writeBatch` | Batch, ServerWrites, ApplyWriteReport, Rejected, Undecodable, TransportFails |
| `deleteBatch` | Batch, ServerDeletes, MarkDeletionsUploaded, Rejected, TransportFails |
| `pullReadOnly` | StartPull, ReadList, ReadObjects, Fetched, IntegrateCollections, IntegrateItems, ApplyRemoteDeletions, CheckStability, Commit, FetchAgain |
| `request`'s retry after 429 and 5xx | Resend |
| cancellation, a dropped connection, the end of the process | Stop |

The engine uploads in four stages, as `uploadPending` does: collections, items,
deleted items, deleted collections. After a 412 it pulls and starts again, up to
`MaxPreconditionAttempts` times.

Switches: `QuietListing` (no write between the lists of one pull), `QuietUpload`
(the user leaves alone what is being uploaded), `StaleEditors` (an editor may save
an object already deleted), `ConflictEditable` (the objects the user may edit or delete
while they are in conflict), `LosesAnswers` (answers may be lost after the server
acted), `Engines` and `Jobs` (what overlaps), `UserDeletable` and
`RemoteDeletable`.

Abstracted: identity fields and dates; saved searches, settings, groups and
full text, which a pull only stores; paging; tags, creators and relations, which
are fields of a body (which items a relation names is fixed, and so is the tree of
the collections, so that the server never moves one to the root here); type
conversion. Collections nest two deep and items one.
Other clients write valid objects with fresh keys.

### The server's requests, query by query

`ServerWrites` gives each request a program: the sequence of D1 queries its handler
awaits, each with the objects it is about and the rules its answer has to meet.
There is one operator per handler (`PostItems`, `PutItem`, `MoveItems`, `DeleteTag`,
`DeleteItems`, `PostCollections`, `PutCollection`, `DeleteCollections`,
`PostSettings`, `PutSetting`, `DeleteSettings`, `PostSearches`, `PutSearch`,
`DeleteSearches`, `ListItems`, `ListObjects`, `ListDeleted`), and one action per
kind of query; a D1 batch is one query. A request may end between any two of
them (`Die`): an uncaught error, or the end of the worker. A conditional request
was prepared from the library's version at its start. The body of an object is
the set of requests whose edit it contains, which is what lost updates are
visible in. Which collections lie below which is not part of the state: where a
collection is put under another one, the walk up the parents may find it there or
not, and what it finds is moved to the root (`WalkUp`, `MoveUp`), as it was read and
under the version of the collection that was written.

The batch that deletes items sets the library's version to the one after the version
it read at the request's start, whatever has become of it since. Where another
request has come between, the deletion is overtaken (`late`), the version may go
back, and versions are handed out a second time. The ledger has this as a step
of its own, `Overtaken`; `InTurn` says that it has not happened, and the properties that
rest on the counter are stated of `InTurn` states.

### Files

`AttachmentFiles` does the same for the file routes: rows of `attachment_files` and
`attachment_uploads`, objects of R2, and the queries and bucket calls of
authorizing, associating a known file, uploading, completing, aborting,
registering, deleting and downloading. Bytes are contents, an md5 is the contents
it was computed from; two contents may have the same size. Requests outlive their
senders.

`AttachmentTransfer` adds devices: `record` is the row of `attachment_projections`
with the item's state, `disk` the files, `job` the loop of `uploadPending` and `get`
a `download`. `Import`, `UploadMetadata`, `Pull` and `RemoveItem` are the points where
the synchronization of the items touches this. A device edits a file at any
time, loses answers and is killed; `OneJob` says that it does not pull, upload and
download at the same time. An upload key nothing refers to any more is used
again for a new upload, and so is a slot for a request.

### When a device synchronizes

`ForegroundSync` is the coordinator actor: `scheduled`, `syncing`, `again`, `connected`
are its fields, `task` the tasks it created. `Observe` is the status observation,
which GRDB runs after every transaction that touches the tables it reads,
whether or not the result differs; `ScheduleUpload` is the call it ends in. A
synchronization is its requests (key, upload, pull, upload of what became
pending), with the writes of the store that follow each. `Interrupt` is the
`CancellationError` that a request of a cancelled task may throw.

Switches: `QuietRuns` (no status is delivered while a synchronization runs) and
`PromptCancel` (what is cancelled has ended before another task wakes, 750
milliseconds later). Statuses are delivered in order.

### The stream hub

`StreamHub` has the hub's handlers with their awaits: `createSubscriptions` reads the
socket's attachment (`Asks`), awaits the key and its topics (`GetKey`), merges and
stores (`Accept`, `Store`); `publish` reads an attachment (`Look`), checks its keys one by
one (`CheckKey`), writes it back and sends (`Deliver`). A device connects, subscribes
to its library, pulls, and pulls again when a version it hears of is later than
its own; other clients subscribe to anything, with several keys. `told` is what a
socket has been told it is subscribed to. Publications run after the answer to
the mutation, several at a time; they may fail, and a send to a closed socket
throws, which the runtime does for a WebSocket whose other side is gone.

## 4. What the runs check

Passing:

| Run | Instance | Shows |
|---|---|---|
| `item` | one item, two fields, three values of which the server refuses one; edits here, edits and deletion elsewhere, one fault | TypeOK, NothingSkipped, ConflictsAreCurrent, VersionsHandedOut, NoBlindOverwrite, EditsKept, and under fairness Converges |
| `tree` | item with child, related to each other, both deletable here, filed in a subcollection; another client deletes the parent collection | NothingStranded, ShownAsStored, VersionsHandedOut, EditsKept, NoBlindDelete |
| `collections` | one collection, deletable on both sides, left alone while in conflict; three edits | NothingSkipped, ConflictsAreCurrent, EditsKept under the collection handlers |
| `two_jobs` | two engines, pulls and synchronizations | NothingStranded, NoBlindOverwrite, EditsKept |
| `server_writes` | two requests of any of twenty shapes and a third that writes an item or lists; one dies | TypeOK, KeepsLedger (refinement), WriteTokenOnce, and InTurn ListsLackOnlyWhatTheyMet, GuardedEditsKept |
| `attachments` | two devices, a known file that one of them has, a file the other adds; pairs of an edit, a deletion, a download, a fault | TypeOK, FilesServed, ChangedBytesStale |
| `uploads_arrive` | the same with two faults, or an edit, or a deletion; FairSpec | AddedFilesArrive |
| `foreground` | three tasks, two edits, two calls of start and stop, a streaming pull, a failing request; FairSpec | TypeOK, OneAtATime, SleepersCancellable, ChangesSent |
| `stream` | a device and a client, two keys, the library and a group, two publications at a time; FairSpec | TypeOK, DevicesStaySubscribed, RevokedHearNothing, DevicesCatchUp |

Violated, each a disagreement with what the repository's documents say (quoted
in `PROJECT.json`):

| Run | Property | What happens |
|---|---|---|
| `edit_in_flight` | EditsKept | the write report overwrites an edit made since the batch was read |
| `stuck_token` | RefusedBecauseChanged | a batch of searches that does not validate claims the token of its precondition; the corrected batch is refused until something else changes the library |
| `self_cancelled` | ChangesSent | a synchronization writes the library's row, the observation of that write schedules an upload, and scheduling cancels the synchronization |

**Bounds.** In the runs of `MCLibrarySync`: two user actions (three in `collections`: an edit that meets
another client's, its resolution, and one more), two (sometimes one) writes of
other clients, one fault, two precondition and two consistency attempts (three
in the code: two already show an attempt that follows another), batches of one
or two objects (50 in the code), so that a stage has several batches; two or
three values per field: three are needed for two edits of a field to compete. A
user action, another client's write and a fault can therefore fall at every
point of two synchronizations. `two_jobs` is symmetric in the engines and in the
two values nobody starts with, `server_writes` in the two requests that may ask
for anything; both check safety only. In `server_writes` every lost update and
every double number needs two writers and a list one writer and a reader; the
third request is there for what two leave behind. The shapes have a batch of items
with a related one, and collections that are put under each other. In `attachments` the bounds come as
pairs of disturbances, all of which happen at every point of an upload, a
download and a deletion by two devices; three upload keys and two slots suffice
because a device has one request under way and a deletion goes on by itself. In
`foreground` three tasks are one that runs, one that sleeps and one that replaces
it. In `stream` two publications can overtake one another and two keys make a
publication check one after the other; `Bounds` is a set of mixes of events, since
all at once adds states and no new order of two of them.

Deadlock is not checked where the system may come to rest because its bounds are
spent: in `server_writes` and `stuck_token` when every request has ended, in the
attachment, foreground and stream runs when nobody does anything more. In the
runs of `MCLibrarySync` it is checked: an engine can always start again.

**Other switches, other outcomes.** The same models show these; to see one, change the named
constants of the configuration given and check the property:

*Synchronizing*

- `QuietListing = FALSE` in `MC_collections.cfg`, NothingSkipped: a write between two lists of
  one pull is below the highest version and in no list;
- `UserDeletable = {i}` in `MC_item.cfg`, NothingSkipped: deleting what the server does not
  have (an object deleted before its first upload), and an item deletion accepted
  on an old library version, return its current version, which the store adopts
  without a pull; with a child item, the children the server deletes with their
  parent are not reported either;
- `Items <- TwoItems`, `Collections <- NoKeys`, `Parent <- NoParent`, `Home <- Alone`,
  `Known <- TwoItems`, `RemoteDeletable = {}`, `ConflictEditable = {i, j}` and
  `MaxFaults = 0` in `MC_tree.cfg`, NoBlindDelete without its condition NothingSkipped:
  the user deletes i, another client edits j while the synchronization is under
  way, the deletion of i is accepted all the same and its answer's version, past the
  edit of j, becomes the store's; the user now deletes j, or j was in the
  next fifty of the queue, and the same upload sends that deletion with the new version:
  the edit is erased unseen. The next synchronization would not have pulled it
  either. `docs/zotero-reference-notes.md:150` says that the version is committed "only after a
  coherent pass"; an answer to a deletion commits it without one
  (`CitrationDatabase+WriteQueue.swift:165`);
- the same with DeletionsKept: the conflict of a deletion and a remote edit is ended
  by the next remote edit, and the object comes back;
- `ConflictEditable = {c}` in `MC_collections.cfg`, NoBlindOverwrite: an edit of a collection in
  conflict is uploaded over the other client's edit; NothingSkipped: the conflict
  stays open with the body it was opened with, and resolving it restores that;
- `StaleEditors = TRUE` in `MC_collections.cfg`, NoBlindOverwrite: an editor saves a collection
  after its deletion was uploaded, with the version the row had before;
- `Known <- NoKeys` in `MC_item.cfg`, NoBlindOverwrite and ConflictsAreCurrent: an item
  created here is stored by a first upload whose answer is lost, deleted elsewhere, and
  refused when it is sent again; edited in the conflict the pull then opens, it is
  uploaded at version 0 and restored;
- `Collections <- TwoCollections`, `Known <- TwoCollections` in `MC_collections.cfg`, NothingSkipped:
  a deletion sent a second time is answered with the library's present version,
  which is past another client's write to the other collection;
- `Items <- OneItem`, `Known <- ItemAndCollection`, `Home <- Filed` in
  `MC_collections.cfg` with FairSpec and Converges: the answer to an unknown
  collection ends every synchronization before its pull;
- NothingSkipped in `MC_two_jobs.cfg`: a job's late report or an older pull replaces what
  another stored, under the newer version;
- `QuietUpload = FALSE` in `MC_tree.cfg`, NothingStranded: a failed upload overwrites the
  deletion made meanwhile, and no queue returns the row; with `MaxFaults = 1` in
  `MC_two_jobs.cfg` it fails even so: one job uploads an object, another pulls its
  deletion, and the first one's late transport error marks the deleted row as
  failed;
- ShownAsStored in `MC_two_jobs.cfg`: a pull changes an object between its upload and the report,
  and a report of "unchanged" restores the row without its projection;
- `Items <- TwoItems`, `Known <- TwoItems`, `Related <- EachOther`, `Fields = {title}`, `Bodies <- EveryBody`,
  `Refused = {}`, `RemoteDeletable = {}`, `ConflictEditable = {}` and `MaxFaults = 0` in `MC_item.cfg`, so that
  each write of an item makes the server write the other. The answer's version
  covers the other one, the store commits it, and no pull asks for what is below.
  With `Linked <- LinkedByTitle` (the relation in return is new) NothingSkipped and
  ConflictsAreCurrent fail: the store never learns of it. With `Linked <- LinkedAlready` (it was
  there; the server writes it again all the same) both hold, and Converges fails: the
  store knows the other item under a version that has passed, so the next edit of it is
  refused for its version, pulled for in vain and retried for ever, until another client changes it.
  `docs/zotero-reference-notes.md:150` has the version committed "only after a coherent pass" here as well.

*The server*

- OneWriterPerVersion in `MC_server_writes.cfg`: the deletion of items writes the version it
  read at its start plus one, which another request may have reserved since; the
  library's version may also go back. No switch is needed: the run contains these
  behaviours. With a fourth request (`Requests` and `Shapes` widened: a deletion of i, a batch of
  i and j, a batch of j, and a list or another batch of j), ListsLackOnlyWhatTheyMet and
  GuardedEditsKept fail after it, too, if their condition InTurn is dropped: a version that a
  list was answered with, or that a batch was prepared from, comes again. With three
  requests both hold of all states;
- GuardedEditsKept with every conditional request counted as guarded: single-object
  writes, settings, searches, memberships and tag deletions check versions
  they read and reserve without a condition, and can take out an edit between;
- GuardedEditsKept stated of every edit a guarded batch has made, rather than of the row the last one
  left, with two guarded batches and two such unconditional requests (Requests and Shapes
  widened to four): one unconditional request takes out the first batch's edit, and
  the second batch is merged into what it left. That is no fault of the second batch,
  which is why the property speaks of two guarded writers in a row.

*Files*

- `Bounds <- EditAndDownload` in `MC_attachments.cfg`, OnlyChangedFilesReplace: a copy another
  device's upload has made stale differs from the server's digest and is uploaded as if it
  had been edited;
- `OneJob = FALSE`, ChangedBytesStale: a transfer that completes over a pull records the old digest as
  the server's, and the replacement is never downloaded;
- `Size <- SameSize`, `Bounds <- OneEdit`, FilesServed: a file edited between its digest and its direct
  upload is registered under the digest, because a direct upload is checked by
  its size only.

*The coordinator and the hub*

- `PromptCancel = FALSE` in `MC_foreground.cfg`, ChangesSent: a task that wakes while the
  cancelled one still ends sets `synchronizeAgain`, which the cancelled one's
  loop drops;
- `Bounds <- TwoMessages`, SPECIFICATION Spec, ClientsStaySubscribed in `MC_stream.cfg`: a publication
  that removes a revoked key writes back a copy of the attachment it read before
  another subscription of the same socket was stored.

## 5. Fairness

- `LibrarySync`: an engine with a job works on it (each await returns or throws), retries
  become due (the clock), and synchronizations keep being started: the last is
  what `ForegroundSync` shows of the coordinator while it is connected, with its
  two switches on, and an assumption about the user otherwise.
- `AttachmentTransfer`: the server answers, a device goes on with what it began, and
  synchronizations keep being started. Starting and going on share one
  condition, so that a device that is killed again and again still gets its
  turn; edits, faults, deletions and pulls are not fair.
- `ForegroundSync`: the observation reports, calls of the actor are served, tasks wake and
  requests are answered or fail. Users, streaming pulls and failures are not
  fair. A request that fails excuses ChangesSent until the store is written again:
  nothing in the code starts a synchronization when `next_retry_at` passes, although
  the status message says "Automatic sync will retry".
- `StreamHub`: handlers and publications go on, a device that lost its socket connects
  again (`run` sleeps and retries). Publications that fail or meet a closed socket are
  counted in `lost`, and excuse DevicesCatchUp until the next version: nothing sends
  them again.

## 6. What is proved

**Synchronizing one library**, in `LibrarySyncProofs`, for all values of the constants that
satisfy `MergeAssumption`, `LibraryAssumption` and `SyncAssumption`:

- `TypeCorrect`: `Spec => []TypeOK`;
- `VersionsComeFromServer`: `Spec => []VersionsHandedOut`;
- `AlwaysBounded`: `Spec => []Bounded`, the invariant both follow from.

TypeOK is not inductive by itself: `run[e].attempt` stays in its range only
because a job whose next attempt is planned has one left, and the versions an answer
carries are stored later, when the library may have moved on. `Bounded` therefore
types every version, in rows, conflicts, answers on their way and objects read by a
pull, by the interval from 0 to the library's present version, and says of
running jobs how many attempts are left (`RunsLeft`) and that what is being
written was read from the store. Three arguments carry the proof: the bound
only grows (`RowsGrow`, `ObjectsGrow`, `AnswersGrow`, `JobsGrow`); each transaction of the
store keeps a record within it (one lemma per operator); and each handler of the
server answers with versions up to the one it leaves (`Served`,
`WriteBatchServed`, `RankBounded` on the ranks of a batch). Then there is one lemma per
group of actions.

In `LocalWorkProofs`, for all values of the constants with `OneEngine` and
`QuietUpload`:

- `LocalWorkIsNeverStranded`: `Spec => []NothingStranded`;
- `WhatIsShownIsStored`: `Spec => []ShownAsStored`;
- `AlwaysSound`: `Spec => []Sound`, the invariant both follow from;
- `EditsAreKept`: `Spec => EditsKept`, and `AlwaysWhole`: `Spec => []Whole`, both with
  `WholeBodies` as well.

Items may be related in any way (`Related`, `Linked`), here and in `LibrarySyncProofs`.

A row can be judged by itself (`RowSound`: a dirty row is not deleted, a failed one is not
deleted unless its conflict is open, a deleted one is marked, the projection fits), and every
transaction of the user and of a pull keeps it so. The answers of an upload do
not: `markWriteSynced` writes what was sent without a projection, `markWriteFailed` makes
any row failed, `markDeletionsUploaded` leaves the projection. They are right only while the row
is the one that was sent. So `Sound` adds `Intact`: what a job has queued or sent still
is as it was read, a report names nothing outside its batch (`OnlyTheBatchReported`), and
a job that is not uploading has nothing on its way. That is where both
assumptions are needed; section 4 gives the behaviours that break the
theorems without either. `tree` checks the same properties on an instance
that satisfies them. For EditsKept one thing more can go wrong: an upload without a field
leaves the server's value there, and the report stores it. `WholeBodies` says the
bodies users and clients write have every field, and keep them all when a relation is
added to them; `Whole` that so have all those on their way.

In `ReplicaProofs`, the first four for all values of the constants that are `Careful`: one engine, no
write inside the user's upload or another client's list (`QuietUpload`, `QuietListing`), a
user who deletes nothing, saves nothing deleted and leaves conflicts to be resolved
(`UserDeletable` and `ConflictEditable` empty, not `StaleEditors`), whole bodies, and related items
that already name each other (`Linked[body] = body`): the server still writes them again, under
versions the store is not told of, and the theorems show that this alone skips nothing. Other
clients edit and delete, requests fail, are lost, answered late and sent twice,
jobs stop at any await:

- `NothingIsSkipped`: `Spec => []NothingSkipped`;
- `ConflictsShowTheServer`: `Spec => []ConflictsAreCurrent`;
- `NothingIsOverwritten`: `Spec => NoBlindOverwrite`;
- `AlwaysReplica`: `Spec => []Replica`, the invariant behind the three;
- `NothingUnseenIsErased`: `OneEngine => (Spec => NoBlindDelete)`, for any user and any relations.

The three properties need one another. A pull may skip what the library's version already
covers only if every row has what the server had at that version; that is kept by reports only if
what was uploaded overwrote nothing; and that the server, which compares the version
of the item or, for collections, the library's, overwrites nothing follows from the
first. `Replica` says it for each place an object can be in: every object up to the committed version
is `Followed` by its row (`RowsKept`), the server's objects fit the versions it has given out
(`LibraryKept`), a job keeps what its stage promises (`Promise`), an upload carries the rows and the version as
they are and its report tells what changed beside (`UploadKept`), and a pull that is under way
holds, or still waits for, all that changed since it began (`PullKept`). Each hypothesis is needed: section
4 has a behaviour for every one but the bodies, whose missing fields a report would store
as the server's. `item` and `collections` check the same properties on instances that go beyond
them in one respect each: an item edited while in conflict, a collection deleted here. Neither
has related items; `tree` does.

NoBlindDelete needs none of this, only one engine: then the header of an upload is the
store's version throughout (`HeaderCommitted`), what a deletion erases is no newer than its header, although
items and collections are checked differently (`ErasedIsKnown`), and up to that version,
as long as nothing was skipped, the store has seen everything. What makes the store skip a change is
the business of the theorems before it, and of section 4.

**The version counter**, in `VersionLedgerProofs` and `ServerWritesProofs`:

- `LedgerOneWriter`: `LedgerSpec => [](~overtaken => OneWriterPerVersion)` in the abstract ledger. The
  invariant is that a version is owned: what one writer holds, has stored or has
  logged is disjoint from what any other has, and nothing is above the clock;
- `HandlersKeepLedger`: `Spec => KeepsLedger`, the refinement: every query is a
  turn of its request in the ledger, a deletion that is overtaken, or a stutter. The invariant it needs is small,
  `ProperState`: a request that runs has a well-formed step left. Most of the proof is
  about the seventeen programs (every one is a sequence of steps, none is empty) and about what each
  query does to the versions its request holds: one lemma per query, all of
  them through `QueryIsTurn`;
- `ServerOneWriter`: `Spec => [](InTurn => OneWriterPerVersion)`, from the two;
- `RequestsAreTyped`: `Spec => []TypeOK`;
- `WriteTokensWork`: `Spec => []WriteTokenOnce`;
- `ListsAreHonest`: `Spec => []ListsLackOnlyWhatTheyMet`;
- `GuardedBatchesKeepEdits`: `Spec => GuardedEditsKept`. Both properties say InTurn themselves.

The mapping: a request's writer is itself, `clock` the library's version, `held` the
versions it reserved and has not finished with, `stored` and `by` the rows, `removed` the
deletions in `sync_log`, `overtaken` that a deletion of items found its version passed. A deletion
of items is a turn that hands out and uses a version at once if the version it read is still
the library's, and the ledger's `Overtaken` otherwise.

`RequestsAreTyped` rests on `SoundState`, which adds to `ProperState` that every step left in a
program asks what its query can answer. For tokens (`TokensOnce`) it is enough to follow the requests
that stored under one: each has its token in the table, and no two have the same,
because the batch that stores inserts the token first. For lists (`ListsKnow`): a list
holds nothing (`OnlyReads`); it has met every request that was under way while it ran
(`HasMet`); once it has read the version, the others hold only versions above it (`HoldAbove`);
and up to that version it has every row and deletion that is not by a request it met (`RowsKnown`,
`DeletionsKnown`). The order in which the code reads version, rows and deletions differs
between items and the other lists, and the invariant has a case for each.

That guarded batches keep each other's edits is a matter of their programs first. A
batch reads every row it will write before it reserves, writes right after it reserved
(`InOrder`), and its first reservation is the one under the precondition (`ExactFirst`), for
at least one object (`Whole`); the proof takes the programs apart once (`BatchPrograms`) and
shows that every query leaves a program of that form (`StaysCareful`). The invariant (`BatchesSerial`)
says what this buys: as long as the library has the version a batch was prepared from, no one is writing and
the rows are what the batch has read (`Unmoved`), so that the reservation that compares the version
admits one guarded batch at a time (`Serial`), and until it ends what it has read is what another
guarded batch wrote last (`Informed`). `Unmoved` needs that the batch was prepared
while no write was half-way (`calm`) and that whoever starts to write moves the version on; an
overtaken deletion of items breaks it, hence InTurn. The invariants of both theorems are
claimed of InTurn states only, which is enough since a step never leads back to one.

**Files**, in `AttachmentProofs`, for any devices, items, contents, slots and upload keys, and any
`Size`, also of two contents alike where no hypothesis says otherwise:

- `AttachmentTypes`: `Spec => []TypeOK`;
- `OutdatedBytesAreStale`: with `OneJob`, `Spec => []ChangedBytesStale`;
- `FilesAreServed`: `Distinguishable => (Spec => []FilesServed)`;
- `UndisturbedFilesAreServed`: `Spec /\ [][Undisturbed]_vars => []FilesServed`.

TypeOK is not inductive: what an answer stores depends on the request it answers. `Typed` has every
request at a query of its operation, with the locals that query needs (`Asked`), and every job and
download waiting for a request of its own, in a slot nobody else has, of the operation it sent and
about its item (`HasCall`, `SlotsApart`). An item in the hands of a job has bytes on disk and is not a
new one (`InHand`), and what a user may still add exists nowhere yet (`Unknown`). A record
called downloaded has its file and the digest of the server's (`RecordOK`).

`Following` adds what a transfer takes for granted: a device works at one thing, and while it does nothing
else moves its records from what it has read (`AsRead`); that is `OneJob`, and section 4 has what
happens without it. A request that wrote an item's row leaves the item to be pulled by everybody, so
that the job it answers may store what it likes. Every query of the server is shown to
be a `Turn`, which is all the proofs about devices know of it; requests whose device was killed
go on as any other.

FilesServed as such is false: of a direct upload the server checks only the size (section 4), of a PDF sent
in a body not even the md5 (`Checked`). Each theorem excludes the wrong bytes in one
way. `Distinguishable` is about the files: all bodies are checked (`Binary = {}`) and no two
contents have one size, which `MC_attachments.cfg` satisfies. `Undisturbed` is about the user: between
its digest and the sending of its bytes a file stays as it is on disk. Neither needs `OneJob`.

The invariant of both (`Served`) says for whom each upload key was drawn: `g[k]` has the item, the md5 that was
promised, and the slot of the request, whose sequels (bytes, completion) take the same
slot. Only that slot ever writes the object (`Writes`, `Owned`); a queued row says what was
promised, and once the row says uploaded or registered the object has those bytes and nobody is left to
write it (`Sealed`). A file's row, and what a request has found to copy from, names such an object or a copy under the
item's own name (`Serves`), and a copy has the md5 it is named for. That deletions take nothing
away is the other half: they collect only names of objects of their own item
(`Belongs`), and remove them when the item is no longer live (`Ready`); an item is added by one
device once (`AddedOnce`), so that one that was deleted does not come back (`Born`).

A key that nothing refers to may be drawn again, for another item and promise: then `g` changes there, and no
name, row or request can be left that minds (`NewKeys`). What is sent for a key enters only in
`Told`: that bytes the server accepts are the promised ones. Under `Distinguishable` the checks
give that; under `Undisturbed`, `Exact`: a job waits for the authorization of the
digest its file still has, and what it sends, and what is stored, is what was promised.

**The coordinator**, in `ForegroundSyncProofs`, for any number of tasks and any bounds,
with either switch either way:

- `OneSynchronization`: `Spec => []OneAtATime`;
- `NoStraySleeper`: `Spec => []SleepersCancellable`;
- `ForegroundTypes`: `Spec => []TypeOK`; that `pending` stays a number needs that a request never carries
  more than what is pending, which needs that only one is under way;
- `AlwaysExclusive`: `Spec => []IInv`, the invariant behind the three.

**The stream hub**, in `StreamHubProofs`, for any number of sockets, keys, topics and publications
at a time, without a hypothesis:

- `AlwaysTyped`: `Spec => []TypeOK`;
- `DevicesAreServed`: `Spec => []DevicesStaySubscribed`;
- `RevokedStayUntold`: `Spec => []RevokedHearNothing`.

Handlers and publications write back attachments they read before an await, which is how a
client loses a subscription (section 4). A device does not: every copy of its attachment, wherever it
is held, has at most one key, its own, and of topics its library (`Modest`); its one handler read
the attachment while there was nothing in it; and a publication writes a copy back only to take a key
out that it did not find. That such a key has been revoked, whatever was read before which
await, is the other half (`Checking`): a publication has found, or has still to look for,
every key of its copy that is valid, and has found only keys that were valid when it began. The
last is also why those revoked before hear nothing.

**Assumptions.** The proofs add to what the code says of its constants only that special values
are not ordinary ones (`None` is no item, content, key, slot or path; the queries' and operations' names
differ): `NamesAssumption`, `FilesAssumption`, `Paths`, `HubAssumption`; and that a batch is about
objects of its own type, none of which is a setting (`ServerAssumption`), as the routes have it.

**Only model-checked:** what two engines keep (`two_jobs`),
since the proofs about uploads assume one; and Converges, ChangesSent, AddedFilesArrive and DevicesCatchUp, because
liveness under fairness is outside what the prover covers.

## 7. Not modelled, and why

`components` in `PROJECT.json` says it for each part. In short: conversions and formatting
(exports, mappings, citations, metadata, item validation beyond accepted or refused, the legacy
migration, which is one transaction on a backup); platform view code (readers);
file system wrappers; key login sessions and the claim of an installation, which are
single guarded updates; group administration and full text, which are plain
storage; connecting and promoting, which run alone (what is hard in promoting, doing
it again after disconnecting, is listed as a hazard without a property: it turns on
dates, which the models abstract); the importer, which is a program of its own.

The source lines that the map names are a small share of the repository's. Half
of its implementation lines in the languages counted are the vendored citation
processor (`citeproc.js`), most of the others conversions, request parsing, rendering of
responses, and the command line; the Swift code, which is most of what the
models translate, comes on top.
