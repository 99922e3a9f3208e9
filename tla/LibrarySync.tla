---------------------------- MODULE LibrarySync ----------------------------
(***************************************************************************)
(* The foreground synchronization of one library: the local store with its *)
(* user, the engines of ZoteroSyncEngine that upload and pull, the server  *)
(* library and the other clients that write to it.                         *)
(*                                                                         *)
(* An engine runs one job at a time: `pullReadOnly`, started by a stream   *)
(* notification, or `synchronize`.  Every await of the source is a place   *)
(* where other actors step in: each request is a step of the server of its *)
(* own, and its answer is applied in a later step.  Each transaction of    *)
(* the store is one step.                                                  *)
(*                                                                         *)
(* Named switches say what the environment does; `budget` bounds how often *)
(* the user, the other clients and faults act, and so bounds all versions. *)
(***************************************************************************)
EXTENDS SyncStore, ServerLibrary

CONSTANTS
    Engines,            \* concurrent jobs on the store
    Jobs,               \* the jobs they may run
    Bodies,             \* the bodies users write
    Known,              \* keys in sync at the start, with the body InitialBody
    InitialBody,
    MaxPreconditionAttempts,    \* 3 in the code
    MaxConsistencyAttempts,     \* 3 in the code
    BatchSize,          \* 50 in the code
    MaxEdits, MaxRemoteWrites, MaxFaults,
    UserDeletable,      \* keys the user may delete here
    RemoteDeletable,    \* keys other clients may delete
    QuietListing,       \* nobody writes between the lists of one pull
    QuietUpload,        \* the user does not touch what is being uploaded
    StaleEditors,       \* an editor may save an object that is deleted here
    ConflictEditable,   \* keys the user may edit or delete while in conflict
    LosesAnswers        \* an answer may be lost after the server acted

ASSUME SyncAssumption ==
    /\ Jobs \subseteq {"pull", "synchronize"}
    /\ Bodies \subseteq Body \ {Blank}
    /\ Known \subseteq Keys
    /\ InitialBody \in Bodies \ Refused
    /\ {MaxPreconditionAttempts, MaxConsistencyAttempts, BatchSize} \subseteq Nat \ {0}
    /\ {MaxEdits, MaxRemoteWrites, MaxFaults} \subseteq Nat
    /\ UserDeletable \cup RemoteDeletable \cup ConflictEditable \subseteq Keys
    /\ {QuietListing, QuietUpload, StaleEditors, LosesAnswers} \subseteq BOOLEAN

VARIABLES
    rows,               \* rows[k]: the record of object k in the store
    currentVersion,     \* libraries.current_version
    library,            \* the server's library
    pc,                 \* pc[e]: what engine e does next
    run,                \* run[e]: the job of e and its progress
    upload,             \* upload[e]: locals of uploadPending
    pull,               \* pull[e]: locals of pullReadOnly
    budget

vars == <<rows, currentVersion, library, pc, run, upload, pull, budget>>

(***************************************************************************)
(* The locals of a job                                                     *)
(***************************************************************************)

Phases == {"idle", "queueing", "batching", "posting", "posted", "deleting", "deleted",
           "fetching", "collections", "items", "deletions", "checking", "checked"}

(* What follows the pull of a job: nothing, the second upload pass of      *)
(* synchronize, or its next attempt after a failed precondition.           *)
AfterPull == {"done", "upload", "retry"}

Runs == [attempt : 1 .. MaxPreconditionAttempts, after : AfterPull]

NotRunning == [attempt |-> 1, after |-> "done"]

(* uploadPending: the version it sends, the stage it is in, the records    *)
(* read at the start of the stage and not yet sent, the batch on its way   *)
(* and its answer.                                                         *)
Stages == 1 .. 4

StageKeys(stage) == IF stage \in {1, 4} THEN Collections ELSE Items

Uploads == [version : Nat, stage : Stages, todo : SUBSET Keys, batch : SUBSET Keys,
            sent : [Keys -> Rows], answer : Answers]

NotSent == [k \in Keys |-> NoRow]

NoUpload == [version |-> 0, stage |-> 1, todo |-> {}, batch |-> {},
             sent |-> NotSent, answer |-> NoAnswer]

(* pullReadOnly: the version it started from, the requests outstanding,    *)
(* the keys its lists named, the objects it read, and the highest library  *)
(* version of the lists' answers.                                          *)
Requests == {"collectionVersions", "itemVersions", "deletions", "collections", "items"}

Pulls == [since : Nat, try : 1 .. MaxConsistencyAttempts, waiting : SUBSET Requests,
          listed : SUBSET Keys, deleted : SUBSET Keys,
          objects : [Keys -> Objects], version : Nat, stable : BOOLEAN]

NoObjects == [k \in Keys |-> NoObject]

NoPull == [since |-> 0, try |-> 1, waiting |-> {}, listed |-> {}, deleted |-> {},
           objects |-> NoObjects, version |-> 0, stable |-> FALSE]

Budgets == [{"edits", "remote", "faults"} -> Nat]

TypeOK ==
    /\ rows \in [Keys -> Rows]
    /\ currentVersion \in Nat
    /\ library \in Libraries
    /\ pc \in [Engines -> Phases]
    /\ run \in [Engines -> Runs]
    /\ upload \in [Engines -> Uploads]
    /\ pull \in [Engines -> Pulls]
    /\ budget \in Budgets

(* The objects of Known were uploaded once and are in sync. *)
Init ==
    /\ \E order \in UploadOrders(Known) :
          /\ rows = [k \in Keys |-> IF k \in Known THEN Integrate(NoRow, order[k], InitialBody)
                                   ELSE NoRow]
          /\ library = [version |-> Cardinality(Known),
                        objects |-> [k \in Keys |-> IF k \in Known
                                                   THEN Stored(NoObject, order[k], InitialBody)
                                                   ELSE NoObject]]
    /\ currentVersion = Cardinality(Known)
    /\ pc = [e \in Engines |-> "idle"]
    /\ run = [e \in Engines |-> NotRunning]
    /\ upload = [e \in Engines |-> NoUpload]
    /\ pull = [e \in Engines |-> NoPull]
    /\ budget = [what \in {"edits", "remote", "faults"} |->
                    CASE what = "edits"  -> MaxEdits
                      [] what = "remote" -> MaxRemoteWrites
                      [] what = "faults" -> MaxFaults]

(* With QuietListing, no write reaches the server between the first and    *)
(* the last list of a pull.                                                *)
Lists == {"collectionVersions", "itemVersions", "deletions"}

Listing(e) == pc[e] = "fetching" /\ pull[e].waiting \cap Lists \notin {{}, Lists}

ServerMayChange == QuietListing => \A e \in Engines : ~Listing(e)

(***************************************************************************)
(* The user                                                                *)
(***************************************************************************)

Spend(what) == budget[what] > 0 /\ budget' = [budget EXCEPT ![what] = @ - 1]

InFlight(k) == \E e \in Engines : k \in upload[e].todo \cup upload[e].batch

UserActs(keys) ==
    /\ Spend("edits")
    /\ QuietUpload => \A k \in keys : ~InFlight(k)
    /\ UNCHANGED <<currentVersion, library, pc, run, upload, pull>>

(* A new object gets a fresh random key, and a child is made in a parent   *)
(* the app shows.                                                          *)
Create(k, body) ==
    /\ rows[k] = NoRow
    /\ library.objects[k] = NoObject
    /\ Parent[k] # NoKey => rows[Parent[k]].shown # Null
    /\ UserActs({k})
    /\ rows' = [rows EXCEPT ![k] = StoreLocal(@, body)]

MayTouch(k) == rows[k].conflict.open => k \in ConflictEditable

Edit(k, body) ==
    /\ HasRow(rows[k])
    /\ rows[k].shown # Null \/ StaleEditors
    /\ MayTouch(k)
    /\ body # rows[k].current
    /\ UserActs({k})
    /\ rows' = [rows EXCEPT ![k] = StoreLocal(@, body)]

(* An item is deleted alone, a collection with the subcollections shown in *)
(* it.  The app takes the items out of them first; collections that hold   *)
(* items here are not deleted.                                             *)
DeletedWith(k) ==
    {k} \cup {l \in Collections : Parent[l] = k /\ rows[l].shown # Null}

Delete(k) ==
    /\ k \in UserDeletable
    /\ rows[k].shown # Null
    /\ \A item \in Items : Home[item] \notin DeletedWith(k)
    /\ \A l \in DeletedWith(k) : MayTouch(l)
    /\ UserActs(DeletedWith(k))
    /\ rows' = [l \in Keys |-> IF l \in DeletedWith(k) THEN MarkLocalDeletion(rows[l])
                                ELSE rows[l]]

ResolveConflict(k, resolution) ==
    /\ CanResolve(rows[k], resolution)
    /\ resolution = "delete" => k \in UserDeletable
    /\ UserActs({k})
    /\ rows' = [rows EXCEPT ![k] = Resolve(@, resolution)]

(* The clock passes next_retry_at, or the user asks to retry now. *)
RetriesDue(k) ==
    /\ RetryDue(rows[k]) # rows[k]
    /\ rows' = [rows EXCEPT ![k] = RetryDue(@)]
    /\ UNCHANGED <<currentVersion, library, pc, run, upload, pull, budget>>

User ==
    \/ \E k \in Keys, body \in Bodies : Create(k, body) \/ Edit(k, body)
    \/ \E k \in Keys : Delete(k) \/ RetriesDue(k)
    \/ \E k \in Keys, resolution \in Resolutions : ResolveConflict(k, resolution)

(***************************************************************************)
(* Other clients of the library                                            *)
(***************************************************************************)

RemoteActs ==
    /\ Spend("remote")
    /\ ServerMayChange
    /\ UNCHANGED <<rows, currentVersion, pc, run, upload, pull>>

(* What they write has passed the server's validation: its parent and its  *)
(* collection exist.  A key is fresh when its object was never on the      *)
(* server: it is then not one that waits here to be uploaded.              *)
RemoteWrite(k, body) ==
    LET object == library.objects[k]
    IN  /\ body \notin Refused
        /\ \A l \in {Parent[k], Home[k]} \ {NoKey} : library.objects[l].live
        /\ IF object.live THEN body # object.body ELSE object = NoObject /\ rows[k] = NoRow
        /\ RemoteActs
        /\ library' = LinkBack([version |-> library.version + 1,
                                objects |-> [library.objects EXCEPT
                                               ![k] = Stored(@, library.version + 1, body)]],
                               {k})

RemoteDelete(k) ==
    /\ k \in RemoteDeletable
    /\ library.objects[k].live
    /\ RemoteActs
    /\ library' = Erased(library, Subtree(library, {k}), library.version + 1)

OtherClients ==
    \E k \in Keys : RemoteDelete(k) \/ \E body \in Bodies : RemoteWrite(k, body)

(***************************************************************************)
(* Engines: synchronize                                                    *)
(***************************************************************************)

PullStarted(since, try) ==
    [NoPull EXCEPT !.since = since, !.try = try, !.waiting = Requests]

Finish(e) ==
    /\ pc' = [pc EXCEPT ![e] = "idle"]
    /\ run' = [run EXCEPT ![e] = NotRunning]
    /\ upload' = [upload EXCEPT ![e] = NoUpload]
    /\ pull' = [pull EXCEPT ![e] = NoPull]

(* The start of uploadPending: the version is read once for all batches. *)
BeginUpload(e, version, attempt, after) ==
    /\ pc' = [pc EXCEPT ![e] = "queueing"]
    /\ run' = [run EXCEPT ![e] = [attempt |-> attempt, after |-> after]]
    /\ upload' = [upload EXCEPT ![e] = [NoUpload EXCEPT !.version = version]]
    /\ pull' = [pull EXCEPT ![e] = NoPull]

BeginPull(e, after) ==
    /\ pc' = [pc EXCEPT ![e] = "fetching"]
    /\ run' = [run EXCEPT ![e].after = after]
    /\ upload' = [upload EXCEPT ![e] = NoUpload]
    /\ pull' = [pull EXCEPT ![e] = PullStarted(currentVersion, 1)]

StartPull(e) ==
    /\ "pull" \in Jobs
    /\ pc[e] = "idle"
    /\ BeginPull(e, "done")
    /\ UNCHANGED <<rows, currentVersion, library, budget>>

(* A first pass is followed by a pull, a second by nothing: while an       *)
(* upload runs, `after` is what follows the pull that follows it.          *)
StartSynchronize(e) ==
    /\ "synchronize" \in Jobs
    /\ pc[e] = "idle"
    /\ BeginUpload(e, currentVersion, 1, "upload")
    /\ UNCHANGED <<rows, currentVersion, library, budget>>

(* Mutant of PreconditionFailed: the attempts are not counted. *)
RetriedWithoutEnd(e) == BeginPull(e, "retry")

(* A 412 ends the attempt: pull, then try again, three times in all. *)
PreconditionFailed(e) ==
    IF run[e].attempt < MaxPreconditionAttempts
    THEN BeginPull(e, "retry")
    ELSE Finish(e)

NextStage(e) ==
    IF upload[e].stage < 4
    THEN /\ upload' = [upload EXCEPT ![e].stage = @ + 1]
         /\ pc' = [pc EXCEPT ![e] = "queueing"]
         /\ UNCHANGED <<run, pull>>
    ELSE IF run[e].after = "upload" THEN BeginPull(e, "upload") ELSE Finish(e)

(* pendingUploads is read once per kind, pendingDeletions before every     *)
(* deletion request.                                                       *)
Queue(e) ==
    LET keys == StageKeys(upload[e].stage)
        todo == IF upload[e].stage <= 2
                THEN {k \in keys : PendingUpload(rows[k])}
                ELSE {k \in keys : PendingDeletion(rows[k])}
    IN  /\ pc[e] = "queueing"
        /\ IF todo = {}
           THEN NextStage(e)
           ELSE /\ upload' = [upload EXCEPT ![e].todo = todo,
                                 ![e].sent = [k \in Keys |-> IF k \in todo THEN rows[k] ELSE NoRow]]
                /\ pc' = [pc EXCEPT ![e] = "batching"]
                /\ UNCHANGED <<run, pull>>
        /\ UNCHANGED <<rows, currentVersion, library, budget>>

(* The next batch of at most BatchSize: parents go first. *)
Batch(e, batch) ==
    /\ pc[e] = "batching"
    /\ batch # {}
    /\ Cardinality(batch) <= BatchSize
    /\ upload[e].todo \subseteq batch \/ Cardinality(batch) = BatchSize
    /\ upload[e].stage <= 2 => \A k \in batch : Parent[k] \in upload[e].todo => Parent[k] \in batch
    /\ upload' = [upload EXCEPT ![e].batch = batch,
                     ![e].todo = IF upload[e].stage <= 2 THEN @ \ batch ELSE {}]
    /\ pc' = [pc EXCEPT ![e] = IF upload[e].stage <= 2 THEN "posting" ELSE "deleting"]
    /\ UNCHANGED <<rows, currentVersion, library, run, pull, budget>>

(* The server handles the POST of a batch. *)
ServerWrites(e) ==
    /\ pc[e] = "posting"
    /\ ServerMayChange
    /\ \E order \in UploadOrders(upload[e].batch) :
          LET result == IF upload[e].stage = 1
                        THEN UploadCollections(library, upload[e].batch, order,
                                               upload[e].sent, upload[e].version)
                        ELSE UploadItems(library, upload[e].batch, order,
                                         upload[e].sent, upload[e].version)
          IN  /\ library' = result.library
              /\ upload' = [upload EXCEPT ![e].answer = result.answer]
    /\ pc' = [pc EXCEPT ![e] = "posted"]
    /\ UNCHANGED <<rows, currentVersion, run, pull, budget>>

ServerDeletes(e) ==
    /\ pc[e] = "deleting"
    /\ ServerMayChange
    /\ LET result == IF upload[e].stage = 3
                     THEN DeleteItems(library, upload[e].batch, upload[e].version)
                     ELSE DeleteCollections(library, upload[e].batch, upload[e].version)
       IN  /\ library' = result.library
           /\ upload' = [upload EXCEPT ![e].answer = result.answer]
    /\ pc' = [pc EXCEPT ![e] = "deleted"]
    /\ UNCHANGED <<rows, currentVersion, run, pull, budget>>

(* applyWriteReport: one transaction for the whole report. *)
Reported(row, sent, outcome, object) ==
    CASE outcome = "successful" -> WriteSucceeded(row, object.version, object.body)
      [] outcome = "unchanged"  -> WriteUnchanged(row, sent)
      [] outcome = "failed"     -> WriteFailed(row)
      [] outcome = "none"       -> row

ApplyWriteReport(e) ==
    LET answer == upload[e].answer
    IN  /\ pc[e] = "posted"
        /\ answer.status = "report"
        /\ rows' = [k \in Keys |-> Reported(rows[k], upload[e].sent[k],
                                            answer.outcome[k], answer.objects[k])]
        /\ currentVersion' = answer.version
        /\ IF upload[e].todo # {}
           THEN /\ upload' = [upload EXCEPT ![e].version = answer.version,
                                 ![e].batch = {}, ![e].answer = NoAnswer]
                /\ pc' = [pc EXCEPT ![e] = "batching"]
           ELSE /\ upload' = [upload EXCEPT ![e] =
                                 [NoUpload EXCEPT !.version = answer.version,
                                                  !.stage = upload[e].stage + 1]]
                /\ pc' = [pc EXCEPT ![e] = "queueing"]
        /\ UNCHANGED <<library, run, pull, budget>>

(* markDeletionsUploaded, then the queue is read again. *)
MarkDeletionsUploaded(e) ==
    LET answer == upload[e].answer
    IN  /\ pc[e] = "deleted"
        /\ answer.status = "deleted"
        /\ rows' = [k \in Keys |-> IF k \in upload[e].batch
                                   THEN DeletionUploaded(rows[k], answer.version)
                                   ELSE rows[k]]
        /\ currentVersion' = answer.version
        /\ upload' = [upload EXCEPT ![e] = [NoUpload EXCEPT !.version = answer.version,
                                                            !.stage = upload[e].stage]]
        /\ pc' = [pc EXCEPT ![e] = "queueing"]
        /\ UNCHANGED <<library, run, pull, budget>>

Rejected(e) ==
    /\ pc[e] \in {"posted", "deleted"}
    /\ upload[e].answer.status = "precondition"
    /\ PreconditionFailed(e)
    /\ UNCHANGED <<rows, currentVersion, library, budget>>

(* The answer is no write report: decoding throws past the handlers of     *)
(* writeBatch and synchronize, and nothing is recorded.                    *)
Undecodable(e) ==
    /\ pc[e] = "posted"
    /\ upload[e].answer.status = "malformed"
    /\ Finish(e)
    /\ UNCHANGED <<rows, currentVersion, library, budget>>

(***************************************************************************)
(* Engines: pullReadOnly                                                   *)
(***************************************************************************)

HighestVersion(a, b) == IF a >= b THEN a ELSE b

(* A list of fetchChanges is answered.  The lists are requested together   *)
(* and answered in any order; the pull takes the highest of the library    *)
(* versions they carry for its own.                                        *)
ReadList(e, list) ==
    LET changed == CASE list = "collectionVersions" -> ChangedSince(library, Collections, pull[e].since)
                     [] list = "itemVersions"       -> ChangedSince(library, Items, pull[e].since)
                     [] list = "deletions"          -> {}
        deleted == IF list = "deletions" THEN DeletedSince(library, pull[e].since) ELSE {}
    IN  /\ pc[e] = "fetching"
        /\ list \in pull[e].waiting
        /\ pull' = [pull EXCEPT ![e].waiting = @ \ {list},
                                ![e].listed = @ \cup changed,
                                ![e].deleted = @ \cup deleted,
                                ![e].version = HighestVersion(@, library.version)]
        /\ UNCHANGED <<rows, currentVersion, library, pc, run, upload, budget>>

(* The objects the lists named are read by key, each kind in a request of  *)
(* its own once the version lists are in; a key that is gone by then is    *)
(* missing from the answer.                                                *)
ReadObjects(e, kind) ==
    LET keys == IF kind = "items" THEN Items ELSE Collections
        read == {k \in keys \cap pull[e].listed : library.objects[k].live}
    IN  /\ pc[e] = "fetching"
        /\ kind \in pull[e].waiting
        /\ pull[e].waiting \cap {"collectionVersions", "itemVersions"} = {}
        /\ pull' = [pull EXCEPT ![e].waiting = @ \ {kind},
                                ![e].objects = [k \in Keys |-> IF k \in read THEN library.objects[k]
                                                               ELSE @[k]]]
        /\ UNCHANGED <<rows, currentVersion, library, pc, run, upload, budget>>

Fetched(e) ==
    /\ pc[e] = "fetching"
    /\ pull[e].waiting = {}
    /\ pc' = [pc EXCEPT ![e] = "collections"]
    /\ UNCHANGED <<rows, currentVersion, library, run, upload, pull, budget>>

Integrated(e, keys) ==
    [k \in Keys |-> IF k \in keys /\ pull[e].objects[k].live
                    THEN Integrate(rows[k], pull[e].objects[k].version, pull[e].objects[k].body)
                    ELSE rows[k]]

IntegrateCollections(e) ==
    /\ pc[e] = "collections"
    /\ rows' = Integrated(e, Collections)
    /\ pc' = [pc EXCEPT ![e] = "items"]
    /\ UNCHANGED <<currentVersion, library, run, upload, pull, budget>>

IntegrateItems(e) ==
    /\ pc[e] = "items"
    /\ rows' = Integrated(e, Items)
    /\ pc' = [pc EXCEPT ![e] = "deletions"]
    /\ UNCHANGED <<currentVersion, library, run, upload, pull, budget>>

ApplyRemoteDeletions(e) ==
    /\ pc[e] = "deletions"
    /\ rows' = [k \in Keys |-> IF k \in pull[e].deleted
                               THEN ApplyRemoteDeletion(rows[k], pull[e].version)
                               ELSE rows[k]]
    /\ pc' = [pc EXCEPT ![e] = "checking"]
    /\ UNCHANGED <<currentVersion, library, run, upload, pull, budget>>

(* The stability request: has an item or the library version moved on? *)
CheckStability(e) ==
    /\ pc[e] = "checking"
    /\ pull' = [pull EXCEPT ![e].stable =
                   /\ ChangedSince(library, Items, pull[e].version) = {}
                   /\ library.version <= pull[e].version]
    /\ pc' = [pc EXCEPT ![e] = "checked"]
    /\ UNCHANGED <<rows, currentVersion, library, run, upload, budget>>

(* It found nothing new: the version is committed, and the job goes on.    *)
Commit(e) ==
    /\ pc[e] = "checked"
    /\ pull[e].stable
    /\ currentVersion' = pull[e].version
    /\ CASE run[e].after = "done"   -> Finish(e)
         [] run[e].after = "upload" -> BeginUpload(e, pull[e].version, run[e].attempt, "done")
         [] run[e].after = "retry"  -> BeginUpload(e, pull[e].version, run[e].attempt + 1, "upload")
    /\ UNCHANGED <<rows, library, budget>>

(* The library changed meanwhile: everything is fetched again from the     *)
(* version the pull started with, three times in all.                      *)
FetchAgain(e) ==
    /\ pc[e] = "checked"
    /\ ~pull[e].stable
    /\ IF pull[e].try < MaxConsistencyAttempts
       THEN /\ pull' = [pull EXCEPT ![e] = PullStarted(@.since, @.try + 1)]
            /\ pc' = [pc EXCEPT ![e] = "fetching"]
            /\ UNCHANGED <<run, upload>>
       ELSE Finish(e)
    /\ UNCHANGED <<rows, currentVersion, library, budget>>

(***************************************************************************)
(* Faults                                                                  *)
(***************************************************************************)

Answered(e) == pc[e] \in {"posted", "deleted"}

MayFail(e) == Spend("faults") /\ (Answered(e) => LosesAnswers)

(* A transport error reaches writeBatch or deleteBatch: it is recorded on  *)
(* every object of the batch and ends the job.                             *)
TransportFails(e) ==
    /\ pc[e] \in {"posting", "posted", "deleting", "deleted"}
    /\ MayFail(e)
    /\ rows' = [k \in Keys |->
          CASE k \notin upload[e].batch -> rows[k]
            [] k \in upload[e].batch /\ upload[e].stage <= 2 -> WriteFailed(rows[k])
            [] k \in upload[e].batch /\ upload[e].stage > 2  -> DeletionFailed(rows[k])]
    /\ Finish(e)
    /\ UNCHANGED <<currentVersion, library>>

(* The connection drops, the task is cancelled or the app is killed, at    *)
(* any point: nothing is recorded.                                         *)
Stop(e) ==
    /\ pc[e] # "idle"
    /\ MayFail(e)
    /\ Finish(e)
    /\ UNCHANGED <<rows, currentVersion, library>>

(* The client's request loop meets a 429 or 5xx after the server acted and *)
(* sends the same request again.                                           *)
Resend(e) ==
    /\ Answered(e)
    /\ MayFail(e)
    /\ upload' = [upload EXCEPT ![e].answer = NoAnswer]
    /\ pc' = [pc EXCEPT ![e] = IF @ = "posted" THEN "posting" ELSE "deleting"]
    /\ UNCHANGED <<rows, currentVersion, library, run, pull>>

(***************************************************************************)
(* The specification                                                       *)
(***************************************************************************)

Uploading(e) ==
    \/ Queue(e) \/ \E batch \in SUBSET upload[e].todo : Batch(e, batch)
    \/ ServerWrites(e) \/ ServerDeletes(e)
    \/ ApplyWriteReport(e) \/ MarkDeletionsUploaded(e)
    \/ Rejected(e) \/ Undecodable(e)

Pulling(e) ==
    \/ \E list \in Lists : ReadList(e, list)
    \/ \E kind \in {"collections", "items"} : ReadObjects(e, kind)
    \/ Fetched(e) \/ IntegrateCollections(e) \/ IntegrateItems(e)
    \/ ApplyRemoteDeletions(e) \/ CheckStability(e) \/ Commit(e) \/ FetchAgain(e)

Faults(e) == TransportFails(e) \/ Stop(e) \/ Resend(e)

Starting(e) == StartPull(e) \/ StartSynchronize(e)

Next ==
    \/ User
    \/ OtherClients
    \/ \E e \in Engines : Starting(e) \/ Uploading(e) \/ Pulling(e) \/ Faults(e)

Spec == Init /\ [][Next]_vars

(* A job under way is worked on until it ends, retries become due, and the *)
(* app is brought to the foreground again and again, which synchronizes.   *)
(* User, other clients and faults owe nothing.                             *)
FairSpec ==
    /\ Spec
    /\ \A e \in Engines : WF_vars(StartSynchronize(e)) /\ WF_vars(Uploading(e) \/ Pulling(e))
    /\ \A k \in Keys : WF_vars(RetriesDue(k))

(***************************************************************************)
(* Properties                                                              *)
(***************************************************************************)

(* The store holds what the server has of k: as the base of its row, or in *)
(* a conflict that waits for the user.                                     *)
Reflected(k) ==
    LET row == rows[k]
    IN  /\ HasRow(row)
        /\ \/ row.pristine = library.objects[k].body /\ ~(row.state = "synced" /\ row.isDeleted)
           \/ row.conflict.open /\ row.conflict.body = library.objects[k].body

DeletionReflected(k) ==
    LET row == rows[k]
    IN  \/ ~HasRow(row)
        \/ row.isDeleted /\ row.state \in {"synced", "deleted"}
        \/ row.conflict.open /\ row.conflict.body = Null

(* currentVersion is a promise: every change of the server library up to   *)
(* it has been taken into the store, since no later pull asks for it.      *)
NothingSkipped ==
    \A k \in Keys :
        LET object == library.objects[k]
        IN  IF object.live
            THEN object.version <= currentVersion => Reflected(k)
            ELSE object.deletedAt \in 1 .. currentVersion => DeletionReflected(k)

(* An upload replaces on the server only the body its row was derived      *)
(* from, and creates only what was never there: no work of another client  *)
(* is overwritten or brought back unseen.                                  *)
NoBlindOverwrite ==
    [][\A e \in Engines, k \in Keys :
          /\ pc[e] = "posting" /\ pc'[e] = "posted"
          /\ upload'[e].answer.outcome[k] = "successful"
          => IF library.objects[k].live
             THEN upload[e].sent[k].pristine = library.objects[k].body
             ELSE library.objects[k].deletedAt = 0]_vars

(* As long as no change was skipped, a deletion request erases only objects *)
(* whose present server body the store has seen.  The condition is needed: *)
(* the answer to a deletion moves currentVersion past what other clients   *)
(* wrote since the last pull, and the next deletion is sent with it.       *)
NoBlindDelete ==
    [][NothingSkipped =>
          \A e \in Engines : \A k \in upload[e].batch :
              /\ pc[e] = "deleting" /\ pc'[e] = "deleted"
              /\ library.objects[k].live /\ ~library'.objects[k].live
              => library.objects[k].body \in {rows[k].pristine, rows[k].conflict.body}]_vars

(* Only the user chooses between competing edits: an engine step leaves    *)
(* every field that differs from its base as the user left it, and the     *)
(* base of such a field moves to nothing but the user's own value, so a    *)
(* change of another client is not dropped for it either.                  *)
LocalEdit(k, f) ==
    /\ rows[k].state \in {"dirty", "failed"}
    /\ ~rows[k].isDeleted
    /\ rows[k].current[f] # rows[k].pristine[f]

EngineActs == pc' # pc

EditsKept ==
    [][EngineActs => \A k \in Keys, f \in Fields :
          LocalEdit(k, f) =>
              /\ rows'[k].current[f] = rows[k].current[f]
              /\ rows'[k].pristine[f] \in {rows[k].pristine[f], rows[k].current[f]}]_vars

(* ... and no object the user deleted comes back by itself. *)
DeletionsKept ==
    [][EngineActs => \A k \in Keys :
          rows[k].isDeleted /\ rows[k].state # "synced" => rows'[k].isDeleted]_vars

(* The app shows every object as it will be uploaded, and none that is     *)
(* deleted.                                                                *)
ShownAsStored ==
    \A k \in Keys :
        rows[k].shown = IF HasRow(rows[k]) /\ ~rows[k].isDeleted THEN rows[k].current ELSE Null

(* Local work never strands: once its retries are due it is in a queue, or *)
(* it waits for the user in a conflict.                                    *)
NothingStranded ==
    \A k \in Keys :
        rows[k].state \in {"dirty", "failed", "deleted"} =>
            \/ PendingUpload(RetryDue(rows[k]))
            \/ PendingDeletion(RetryDue(rows[k]))
            \/ rows[k].conflict.open

(* A conflict offers the user what the server has, as far as it is pulled. *)
ConflictsAreCurrent ==
    \A k \in Keys :
        LET object == library.objects[k]
        IN  rows[k].conflict.open =>
            IF object.live
            THEN object.version <= currentVersion => rows[k].conflict.body = object.body
            ELSE object.deletedAt <= currentVersion => rows[k].conflict.body = Null

(* Every version the store keeps or sends is one the server has handed     *)
(* out: a row ahead of the library would be refused for ever, a store      *)
(* ahead of it would miss what comes next.                                 *)
VersionsHandedOut ==
    /\ currentVersion <= library.version
    /\ \A k \in Keys : /\ rows[k].version <= library.version
                       /\ rows[k].conflict.version <= library.version
    /\ \A e \in Engines : upload[e].version <= library.version

(* Once user, other clients and faults are quiet, the store and the server *)
(* come to agree on every object, except those whose conflict waits for    *)
(* the user or that the server refuses as invalid.                         *)
Agrees(k) ==
    LET row == rows[k] object == library.objects[k]
    IN  IF object.live
        THEN row.state = "synced" /\ row.current = object.body /\ row.shown = object.body
        ELSE row.state \in {"absent", "synced"} /\ row.shown = Null

Converges ==
    <>[](\A k \in Keys : Agrees(k) \/ rows[k].conflict.open \/ rows[k].current \in Refused)
=============================================================================
