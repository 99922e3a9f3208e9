---------------------------- MODULE ReplicaProofs ----------------------------
(***************************************************************************)
(* Proofs that the store follows the server's library: NothingSkipped,     *)
(* ConflictsAreCurrent and NoBlindOverwrite of LibrarySync, for every set  *)
(* of keys, fields and values and every bound.                             *)
(*                                                                         *)
(* They hold for one engine, a user who behaves, and items whose relations *)
(* are there in return already, so that the server writes related items    *)
(* again without changing them (Careful); the README shows for each part   *)
(* of Careful the behaviour that breaks a theorem without it.              *)
(* NoBlindDelete holds for one engine, any user and any relations.         *)
(***************************************************************************)
EXTENDS LocalWorkProofs

Careful ==
    /\ OneEngine /\ QuietUpload /\ QuietListing
    /\ ~StaleEditors /\ UserDeletable = {} /\ ConflictEditable = {}
    /\ \A body \in Bodies : Full(body)
    /\ \A body \in Body : Linked[body] = body

(***************************************************************************)
(* The inductive invariant                                                 *)
(***************************************************************************)

RowKept(row) ==
    /\ row.state # "deleted"
    /\ row.isDeleted => row.state = "synced"
    /\ row.conflict.open => row.state = "failed"
    /\ row.conflict.open /\ row.conflict.body # Null => Full(row.conflict.body)
    /\ HasRow(row) /\ ~row.isDeleted => Full(row.current)

RowsKept == \A k \in Keys : RowKept(rows[k])

(* An object's version is that of its latest change, its deletion too; one *)
(* that is live was deleted, if ever, before the store's version.          *)
ObjectKept(object) ==
    IF object.live
    THEN object.version > 0 /\ object.deletedAt <= currentVersion /\ Full(object.body)
    ELSE object.version = object.deletedAt

LibraryKept == \A k \in Keys : ObjectKept(library.objects[k])

(* The record follows an object: it has it, with a conflict as the remote  *)
(* side of it and otherwise as its base, or has its deletion.              *)
Follows(row, object) ==
    /\ object.live =>
          /\ HasRow(row)
          /\ IF row.conflict.open THEN row.conflict.body = object.body
             ELSE row.pristine = object.body /\ ~row.isDeleted
    /\ ~object.live /\ object.deletedAt > 0 =>
          IF row.conflict.open THEN row.conflict.body = Null
          ELSE HasRow(row) => row.isDeleted
    /\ ~object.live /\ object.deletedAt = 0 => ~row.conflict.open

UpToDate(k) == Follows(rows[k], library.objects[k])

Promise == \A k \in Keys : library.objects[k].version <= currentVersion => UpToDate(k)

UploadPhases == {"queueing", "batching", "posting", "posted"}

(* An upload carries the store's version and the rows as they are.         *)
SentKept(e, k) ==
    /\ ~rows[k].conflict.open
    /\ upload[e].sent[k].pristine = rows[k].pristine

(* What a report says was written is what was sent, unless it has changed  *)
(* since; and the store has everything else up to the report's version.    *)
ReportKept(e, k) ==
    LET answer == upload[e].answer
        object == library.objects[k]
        current == upload[e].sent[k].current
    IN  /\ answer.outcome[k] = "successful" => answer.objects[k].body = current
        /\ \/ object.version > answer.version
           \/ IF answer.outcome[k] \in {"successful", "unchanged"}
              THEN object.live /\ object.body = current
              ELSE UpToDate(k)

UploadKept(e) ==
    /\ pc[e] \notin {"deleting", "deleted"}
    /\ pc[e] = "batching" => upload[e].stage <= 2
    /\ pc[e] \in UploadPhases => upload[e].version = currentVersion
    /\ \A k \in OnItsWay(e) : SentKept(e, k)
    /\ pc[e] = "posted" /\ upload[e].answer.status = "report" =>
          /\ currentVersion <= upload[e].answer.version
          /\ \A k \in Keys : ReportKept(e, k)

PullPhases == {"fetching", "collections", "items", "deletions", "checking", "checked"}

VersionLists == {"collectionVersions", "itemVersions"}

Kind(k) == IF k \in Collections THEN "collections" ELSE "items"

ListOf(k) ==
    IF ~library.objects[k].live THEN "deletions"
    ELSE IF k \in Collections THEN "collectionVersions" ELSE "itemVersions"

(* The phases in which the change of k has been taken in.                  *)
TakenIn(k) ==
    IF ~library.objects[k].live THEN {"checking", "checked"}
    ELSE IF k \in Collections THEN {"items", "deletions", "checking", "checked"}
    ELSE {"deletions", "checking", "checked"}

(* What a pull knows of k: it is listed if it changed since the store's    *)
(* version and up to the pull's, and the object read is the present one    *)
(* unless that is newer than the pull.                                     *)
ObjectPulled(e, k) ==
    LET p == pull[e]
        object == library.objects[k]
        new == currentVersion < object.version /\ object.version <= p.version
    IN  /\ k \in p.listed \cup p.deleted => currentVersion < object.version
        /\ k \in p.deleted => ~object.live \/ object.version > p.version
        /\ new /\ ListOf(k) \notin p.waiting =>
              IF object.live THEN k \in p.listed ELSE k \in p.deleted
        /\ p.objects[k].live =>
              /\ Full(p.objects[k].body)
              /\ currentVersion < p.objects[k].version
              /\ p.objects[k].version <= object.version
        /\ new /\ object.live /\ k \in p.listed /\ Kind(k) \notin p.waiting =>
              p.objects[k] = object
        /\ new /\ pc[e] \in TakenIn(k) => UpToDate(k)

PullKept(e) ==
    LET p == pull[e]
    IN  pc[e] \in PullPhases =>
          /\ p.since = currentVersion
          /\ pc[e] # "fetching" => p.waiting = {}
          /\ p.waiting \cap Lists # Lists => currentVersion <= p.version
          /\ Listing(e) => p.version = library.version
          /\ {"collections", "items"} \subseteq p.waiting \/ p.waiting \cap VersionLists = {}
          /\ "deletions" \in p.waiting => p.deleted = {}
          /\ \A k \in Keys : ObjectPulled(e, k)

Replica ==
    /\ RowsKept /\ LibraryKept /\ Promise
    /\ \A e \in Engines : UploadKept(e) /\ PullKept(e)

(***************************************************************************)
(* Transactions on one record                                              *)
(***************************************************************************)

LEMMA StoreLocalFollows ==
    ASSUME NEW row \in Rows, RowKept(row), ~row.conflict.open, NEW body, Full(body)
    PROVE  /\ RowKept(StoreLocal(row, body))
           /\ \A object : /\ Follows(row, object)
                          /\ object.live \/ object.deletedAt > 0 => HasRow(row) /\ ~row.isDeleted
                          => Follows(StoreLocal(row, body), object)
BY DEF Rows, RowKept, HasRow, StoreLocal, Follows

LEMMA RetryDueFollows ==
    ASSUME NEW row \in Rows, RowKept(row)
    PROVE  /\ RowKept(RetryDue(row))
           /\ RetryDue(row).conflict = row.conflict /\ RetryDue(row).pristine = row.pristine
           /\ \A object : Follows(row, object) => Follows(RetryDue(row), object)
BY DEF Rows, RowKept, HasRow, RetryDue, Follows

LEMMA ResolveFollows ==
    ASSUME NEW row \in Rows, RowKept(row),
           NEW resolution \in {"keepLocal", "keepRemote"}, CanResolve(row, resolution)
    PROVE  /\ RowKept(Resolve(row, resolution))
           /\ \A object : object.body \in Body /\ Follows(row, object)
                          => Follows(Resolve(row, resolution), object)
<1>1. Null \notin Body
  BY MergeAssumption
<1>2. /\ row.conflict.open /\ row.state = "failed" /\ ~row.isDeleted
      /\ HasRow(row) /\ Full(row.current)
  BY DEF CanResolve, RowKept, HasRow
<1>3. CASE resolution = "keepLocal"
  <2>1. row.conflict.body # Null
    BY <1>3 DEF CanResolve
  <2> QED BY <1>1, <1>2, <1>3, <2>1
       DEF Rows, RowKept, HasRow, Resolve, ResolvedKeepLocal, Follows, NoConflict
<1>4. CASE resolution = "keepRemote"
  BY <1>1, <1>2, <1>4 DEF Rows, RowKept, HasRow, Resolve, ResolvedKeepRemote, Follows, NoConflict
<1> QED BY <1>3, <1>4

LEMMA RecordConflictFollows ==
    ASSUME NEW row \in Rows, RowKept(row), NEW version, NEW body,
           HasRow(row), row.state # "synced", body # Null => Full(body)
    PROVE  /\ RowKept(RecordConflict(row, version, body))
           /\ \A object : object.live /\ body = object.body
                          => Follows(RecordConflict(row, version, body), object)
           /\ \A object : ~object.live /\ object.deletedAt > 0 /\ body = Null
                          => Follows(RecordConflict(row, version, body), object)
BY DEF Rows, RowKept, HasRow, RecordConflict, Follows

(* An object pulled is followed. *)
LEMMA IntegrateFollows ==
    ASSUME NEW row \in Rows, RowKept(row), NEW version, NEW body \in Body, Full(body)
    PROVE  /\ RowKept(Integrate(row, version, body))
           /\ \A object : object.live /\ body = object.body
                          => Follows(Integrate(row, version, body), object)
<1> DEFINE synced == [StoreSynced(row, version, body) EXCEPT !.shown = body]
           merged == Merged(row.pristine, row.current, body)
           kept == [row EXCEPT !.state = "dirty", !.isDeleted = FALSE,
                               !.version = version, !.current = merged,
                               !.pristine = body, !.shown = merged,
                               !.conflict = NoConflict]
<1>1. CASE row.state \in {"absent", "synced"}
  <2>1. RowKept(synced) /\ \A object : object.live /\ body = object.body => Follows(synced, object)
    BY <1>1 DEF Rows, RowKept, HasRow, StoreSynced, Follows
  <2> QED BY <1>1, <2>1 DEF Integrate
<1>2. CASE row.state \notin {"absent", "synced"}
  <2>1. HasRow(row) /\ ~row.isDeleted /\ Full(row.current)
    BY <1>2 DEF RowKept, HasRow
  <2>2. Full(merged)
    BY <2>1 DEF Full, Merged
  <2> HIDE DEF merged
  <2>3. RowKept(kept) /\ \A object : object.live /\ body = object.body => Follows(kept, object)
    BY <2>1, <2>2 DEF Rows, RowKept, HasRow, Follows, NoConflict
  <2>4. body # Null
    BY MergeAssumption
  <2> HIDE DEF kept
  <2> QED BY <1>2, <2>1, <2>3, <2>4, RecordConflictFollows DEF Integrate, MergeRemote, kept, merged
<1> QED BY <1>1, <1>2

(* And so is a deletion. *)
LEMMA ApplyRemoteDeletionFollows ==
    ASSUME NEW row \in Rows, RowKept(row), NEW version
    PROVE  /\ RowKept(ApplyRemoteDeletion(row, version))
           /\ \A object : ~object.live /\ object.deletedAt > 0
                          => Follows(ApplyRemoteDeletion(row, version), object)
<1>1. CASE row.state \in {"dirty", "failed"}
  BY <1>1, RecordConflictFollows DEF HasRow, ApplyRemoteDeletion
<1>2. CASE row.state \notin {"dirty", "failed"}
  BY <1>2 DEF Rows, RowKept, HasRow, ApplyRemoteDeletion, Follows
<1> QED BY <1>1, <1>2

(* A transport error, or a refusal, changes neither base nor conflict. *)
LEMMA WriteFailedFollows ==
    ASSUME NEW row \in Rows, RowKept(row), HasRow(row), ~row.isDeleted
    PROVE  /\ RowKept(WriteFailed(row))
           /\ WriteFailed(row).conflict = row.conflict
           /\ WriteFailed(row).pristine = row.pristine
           /\ \A object : Follows(row, object) => Follows(WriteFailed(row), object)
BY DEF Rows, RowKept, HasRow, WriteFailed, Follows

(* What was written is followed once the report is in. *)
LEMMA WrittenFollows ==
    ASSUME NEW row \in Rows, RowKept(row), ~row.conflict.open, NEW version,
           NEW sent, Full(sent.current)
    PROVE  /\ RowKept(WriteSucceeded(row, version, sent.current))
           /\ RowKept(WriteUnchanged(row, sent))
           /\ \A object : object.live /\ object.body = sent.current
                 => /\ Follows(WriteSucceeded(row, version, sent.current), object)
                    /\ Follows(WriteUnchanged(row, sent), object)
BY DEF Rows, RowKept, HasRow, WriteSucceeded, WriteUnchanged, StoreSynced, Follows

(***************************************************************************)
(* Steps of the user                                                       *)
(***************************************************************************)

LEMMA StateFacts ==
    ASSUME Bounded
    PROVE  /\ rows \in [Keys -> Rows]
           /\ library.version \in Nat /\ currentVersion \in 0 .. library.version
           /\ \A k \in Keys : /\ library.objects[k] \in Objects
                              /\ library.objects[k].version \in 0 .. library.version
           /\ pc \in [Engines -> Phases] /\ run \in [Engines -> Runs]
           /\ upload \in [Engines -> Uploads] /\ pull \in [Engines -> Pulls]
           /\ \A e \in Engines : /\ pull[e].version \in 0 .. library.version
                                 /\ upload[e].answer.version \in 0 .. library.version
                                 /\ pc[e] \in Writing => upload[e].stage \in 1 .. 2
<1>1. TypeOK
  BY BoundedIsTyped
<1>2. \A k \in Keys : library.objects[k] \in ObjectsTo(library.version)
  BY DEF Bounded, LibraryBounded, LibrariesTo
<1>3. \A e \in Engines : /\ upload[e] \in UploadsTo(library.version)
                         /\ pull[e] \in PullsTo(library.version)
  BY JobFacts
<1> QED BY <1>1, <1>2, <1>3 DEF TypeOK, Bounded, LibraryBounded, StoreBounded, JobsBounded,
           ObjectsTo, Objects, UploadsTo, AnswersTo, PullsTo

(* Records change, each in a way that keeps what it follows, and none that *)
(* is on its way.                                                          *)
LEMMA RowsStepReplica ==
    ASSUME Replica, UNCHANGED <<currentVersion, library, pc, upload, pull>>,
           \A k \in Keys : RowKept(rows'[k]) /\ (UpToDate(k) => UpToDate(k)'),
           \A e \in Engines : \A k \in OnItsWay(e) :
              /\ rows'[k].conflict.open = rows[k].conflict.open
              /\ rows'[k].pristine = rows[k].pristine
    PROVE  Replica'
<1>1. RowsKept' /\ LibraryKept' /\ Promise'
  BY DEF Replica, RowsKept, LibraryKept, ObjectKept, Promise
<1>2. ASSUME NEW e \in Engines PROVE UploadKept(e)'
  <2>1. \A k \in OnItsWay(e)' : SentKept(e, k)'
    BY DEF Replica, UploadKept, SentKept, OnItsWay
  <2>2. \A k \in Keys : ReportKept(e, k) => ReportKept(e, k)'
    BY DEF ReportKept
  <2> QED BY <2>1, <2>2 DEF Replica, UploadKept
<1>3. ASSUME NEW e \in Engines PROVE PullKept(e)'
  <2>1. PullKept(e) /\ (Listing(e)' = Listing(e))
    BY DEF Replica, Listing
  <2>2. \A k \in Keys : ObjectPulled(e, k) => ObjectPulled(e, k)'
    BY DEF ObjectPulled, ListOf, TakenIn
  <2> QED BY <2>1, <2>2 DEF PullKept
<1> QED BY <1>1, <1>2, <1>3 DEF Replica

(* One of the user's transactions, on objects no upload has.               *)
LEMMA UserStepReplica ==
    ASSUME Careful, Bounded, Replica, NEW k \in Keys, NEW row,
           rows' = [rows EXCEPT ![k] = row], UserActs({k}),
           RowKept(row), Follows(rows[k], library.objects[k]) => Follows(row, library.objects[k])
    PROVE  Replica'
<1>1. rows \in [Keys -> Rows]
  BY StateFacts
<1>2. \A l \in Keys : RowKept(rows'[l]) /\ (UpToDate(l) => UpToDate(l)')
  BY <1>1 DEF Replica, RowsKept, UpToDate, UserActs
<1>3. ASSUME NEW e \in Engines, NEW l \in OnItsWay(e) PROVE rows'[l] = rows[l]
  <2>1. l \in Keys /\ InFlight(l)
    BY StateFacts DEF InFlight, OnItsWay, Uploads
  <2>2. l # k
    BY <2>1 DEF UserActs, Careful
  <2> QED BY <1>1, <2>1, <2>2
<1> QED BY <1>2, <1>3, RowsStepReplica DEF UserActs

LEMMA UserReplica == ASSUME Careful, Bounded, Sound, Replica, User PROVE Replica'
<1>1. /\ rows \in [Keys -> Rows]
      /\ \A k \in Keys : /\ RowKept(rows[k]) /\ RowSound(rows[k])
                         /\ library.objects[k] \in Objects
  BY StateFacts DEF Replica, RowsKept, Sound, RowsSound
<1>2. ASSUME NEW k \in Keys, NEW body \in Bodies, Create(k, body) PROVE Replica'
  <2>1. /\ rows' = [rows EXCEPT ![k] = StoreLocal(rows[k], body)] /\ UserActs({k})
        /\ rows[k] = NoRow /\ library.objects[k] = NoObject
    BY <1>2 DEF Create
  <2>2. ~rows[k].conflict.open /\ Full(body)
    BY <2>1 DEF NoRow, NoConflict, Careful
  <2>3. ~library.objects[k].live /\ ~(library.objects[k].deletedAt > 0)
    BY <2>1 DEF NoObject
  <2>4. /\ RowKept(StoreLocal(rows[k], body))
        /\ Follows(rows[k], library.objects[k])
             => Follows(StoreLocal(rows[k], body), library.objects[k])
    BY <1>1, <2>2, <2>3, StoreLocalFollows
  <2> QED BY <2>1, <2>4, UserStepReplica
<1>3. ASSUME NEW k \in Keys, NEW body \in Bodies, Edit(k, body) PROVE Replica'
  <2>1. /\ rows' = [rows EXCEPT ![k] = StoreLocal(rows[k], body)] /\ UserActs({k})
        /\ HasRow(rows[k]) /\ rows[k].shown # Null /\ ~rows[k].conflict.open /\ Full(body)
    BY <1>3 DEF Edit, MayTouch, Careful
  <2>2. ~rows[k].isDeleted
    BY <1>1, <2>1 DEF RowSound
  <2>3. /\ RowKept(StoreLocal(rows[k], body))
        /\ Follows(rows[k], library.objects[k])
             => Follows(StoreLocal(rows[k], body), library.objects[k])
    BY <1>1, <2>1, <2>2, StoreLocalFollows
  <2> QED BY <2>1, <2>3, UserStepReplica
<1>4. ASSUME NEW k \in Keys, Delete(k) PROVE Replica'
  BY <1>4 DEF Delete, Careful
<1>5. ASSUME NEW k \in Keys, RetriesDue(k) PROVE Replica'
  <2>1. /\ rows' = [rows EXCEPT ![k] = RetryDue(rows[k])]
        /\ UNCHANGED <<currentVersion, library, pc, upload, pull>>
    BY <1>5 DEF RetriesDue
  <2>2. \A l \in Keys :
           /\ RowKept(rows'[l]) /\ (UpToDate(l) => UpToDate(l)')
           /\ rows'[l].conflict = rows[l].conflict /\ rows'[l].pristine = rows[l].pristine
    BY <1>1, <2>1, RetryDueFollows DEF UpToDate
  <2>3. \A e \in Engines : OnItsWay(e) \subseteq Keys
    BY StateFacts DEF OnItsWay, Uploads
  <2> QED BY <2>1, <2>2, <2>3, RowsStepReplica
<1>6. ASSUME NEW k \in Keys, NEW resolution \in Resolutions, ResolveConflict(k, resolution)
      PROVE  Replica'
  <2>1. /\ rows' = [rows EXCEPT ![k] = Resolve(rows[k], resolution)] /\ UserActs({k})
        /\ CanResolve(rows[k], resolution) /\ resolution \in {"keepLocal", "keepRemote"}
    BY <1>6 DEF ResolveConflict, Careful, Resolutions
  <2>2. library.objects[k].body \in Body
    BY <1>1 DEF Objects
  <2>3. /\ RowKept(Resolve(rows[k], resolution))
        /\ Follows(rows[k], library.objects[k])
             => Follows(Resolve(rows[k], resolution), library.objects[k])
    BY <1>1, <2>1, <2>2, ResolveFollows
  <2> QED BY <2>1, <2>3, UserStepReplica
<1> QED BY <1>2, <1>3, <1>4, <1>5, <1>6 DEF User

(***************************************************************************)
(* Steps of other clients                                                  *)
(***************************************************************************)

(* The library moves on while no pull is between its lists: what changed   *)
(* is newer than all the store and its jobs know of.                       *)
LEMMA NewerLibraryReplica ==
    ASSUME Bounded, Replica, UNCHANGED <<rows, currentVersion, pc, upload, pull>>,
           \A e \in Engines : ~Listing(e),
           \A k \in Keys :
              \/ library'.objects[k] = library.objects[k]
              \/ /\ library'.objects[k].version \in Nat
                 /\ library'.objects[k].version > library.version
                 /\ ObjectKept(library'.objects[k])
    PROVE  Replica'
<1> DEFINE Changed(k) == /\ library'.objects[k].version \in Nat
                         /\ library'.objects[k].version > library.version
                         /\ ObjectKept(library'.objects[k])
<1>1. /\ library.version \in Nat /\ currentVersion \in 0 .. library.version
      /\ \A k \in Keys : library.objects[k].version \in 0 .. library.version
      /\ \A e \in Engines : /\ pull[e].version \in 0 .. library.version
                            /\ upload[e].answer.version \in 0 .. library.version
  BY StateFacts
<1>2. \A k \in Keys : library'.objects[k] = library.objects[k] \/ Changed(k)
  OBVIOUS
<1>3. RowsKept' /\ LibraryKept'
  BY DEF Replica, RowsKept, LibraryKept, ObjectKept
<1>4. Promise'
  <2> SUFFICES ASSUME NEW k \in Keys, library'.objects[k].version <= currentVersion
               PROVE  UpToDate(k)'
    BY DEF Promise
  <2>1. library'.objects[k] = library.objects[k]
    BY <1>1, <1>2
  <2> QED BY <2>1 DEF Replica, Promise, UpToDate
<1>5. ASSUME NEW e \in Engines PROVE UploadKept(e)'
  <2>1. ASSUME NEW k \in Keys, ReportKept(e, k) PROVE ReportKept(e, k)'
    <3>1. CASE library'.objects[k] = library.objects[k]
      BY <2>1, <3>1 DEF ReportKept, UpToDate
    <3>2. CASE Changed(k)
      BY <1>1, <2>1, <3>2 DEF ReportKept
    <3> QED BY <1>2, <3>1, <3>2
  <2>2. \A k \in OnItsWay(e)' : SentKept(e, k)'
    BY DEF Replica, UploadKept, SentKept, OnItsWay
  <2> QED BY <2>1, <2>2 DEF Replica, UploadKept
<1>6. ASSUME NEW e \in Engines PROVE PullKept(e)'
  <2>1. PullKept(e) /\ ~Listing(e)'
    BY DEF Replica, Listing
  <2>2. ASSUME NEW k \in Keys, pc[e] \in PullPhases PROVE ObjectPulled(e, k)'
    <3>1. ObjectPulled(e, k)
      BY <2>1, <2>2 DEF PullKept
    <3>2. CASE library'.objects[k] = library.objects[k]
      BY <3>1, <3>2 DEF ObjectPulled, ListOf, TakenIn, UpToDate
    <3>3. CASE Changed(k)
      <4>1. /\ currentVersion < library'.objects[k].version
            /\ pull[e].version < library'.objects[k].version
            /\ library.objects[k].version < library'.objects[k].version
        BY <1>1, <3>3
      <4>2. pull[e].objects[k].live => pull[e].objects[k].version <= library'.objects[k].version
        <5>1. pull[e].objects[k].version \in Nat
          BY StateFacts DEF Pulls, Objects
        <5> QED BY <1>1, <3>1, <4>1, <5>1 DEF ObjectPulled
      <4>3. ~(library'.objects[k].version <= pull[e].version)
        BY <1>1, <3>3
      <4> QED BY <3>1, <4>1, <4>2, <4>3 DEF ObjectPulled
    <3> QED BY <1>2, <3>2, <3>3
  <2> QED BY <2>1, <2>2 DEF PullKept
<1> QED BY <1>3, <1>4, <1>5, <1>6 DEF Replica

(* A related item that is written again is the same under another version. *)
LEMMA LinkedAgain ==
    ASSUME Careful, NEW v \in Nat, NEW object \in Objects, NEW new, MaybeLinked(v, object, new)
    PROVE  /\ new = object \/ (new.version \in Nat /\ new.version > v)
           /\ new.live = object.live /\ new.body = object.body
           /\ ObjectKept(object) => ObjectKept(new)
           /\ \A row : Follows(row, object) => Follows(row, new)
<1>1. CASE new = object
  BY <1>1
<1>2. CASE new # object
  <2>1. PICK version \in Nat : version > v /\ new = Stored(object, version, Linked[object.body])
    BY <1>2 DEF MaybeLinked
  <2>2. Linked[object.body] = object.body
    BY DEF Careful, Objects
  <2>3. /\ new.version = version /\ new.body = object.body /\ new.live
        /\ new.deletedAt = object.deletedAt
    BY <2>1, <2>2 DEF Stored, Objects
  <2>4. object.live
    BY <1>2 DEF MaybeLinked
  <2>5. version > 0
    BY <2>1
  <2>6. ObjectKept(object) => ObjectKept(new)
    BY <2>3, <2>4, <2>5 DEF ObjectKept
  <2>7. \A row : Follows(row, object) => Follows(row, new)
    BY <2>3, <2>4 DEF Follows
  <2> QED BY <2>1, <2>3, <2>4, <2>6, <2>7
<1> QED BY <1>1, <1>2

LEMMA OtherClientsReplica ==
    ASSUME Careful, Bounded, Replica, OtherClients PROVE Replica'
<1>1. /\ library.version \in Nat /\ currentVersion \in 0 .. library.version
      /\ \A k \in Keys : library.objects[k] \in Objects
      /\ library.objects \in [Keys -> Objects]
  BY BoundedIsTyped, StateFacts DEF TypeOK, Libraries
<1>2. /\ UNCHANGED <<rows, currentVersion, pc, upload, pull>>
      /\ \A e \in Engines : ~Listing(e)
  BY DEF OtherClients, RemoteWrite, RemoteDelete, RemoteActs, ServerMayChange, Careful
<1>3. ASSUME NEW k \in Keys, NEW body \in Bodies, RemoteWrite(k, body) PROVE Replica'
  <2>1. ~library.objects[k].live => library.objects[k] = NoObject
    BY <1>3 DEF RemoteWrite
  <2>2. library.objects[k].deletedAt <= currentVersion
    BY <1>1, <2>1 DEF Replica, LibraryKept, ObjectKept, NoObject
  <2>3. LET object == Stored(library.objects[k], library.version + 1, body)
        IN  object.version = library.version + 1 /\ ObjectKept(object)
    BY <1>1, <2>2 DEF Stored, ObjectKept, Objects, Careful
  <2>4. PICK w \in Nat : w = library.version + 1
    BY <1>1
  <2>5. PICK lib \in LibrariesTo(w) :
           /\ library' = LinkBack(lib, {k})
           /\ lib.objects = [library.objects EXCEPT
                                ![k] = Stored(library.objects[k], library.version + 1, body)]
    BY <1>3, <2>4, RemoteLibrary
  <2>6. ASSUME NEW l \in Keys, library'.objects[l] # library.objects[l]
        PROVE  /\ library'.objects[l].version \in Nat
               /\ library'.objects[l].version > library.version
               /\ ObjectKept(library'.objects[l])
    <3>1. lib.objects[l] \in Objects
      BY <2>4, <2>5 DEF LibrariesTo, ObjectsTo, Objects
    <3>2. ObjectKept(lib.objects[l])
      BY <1>1, <2>3, <2>5 DEF Replica, LibraryKept
    <3>3. MaybeLinked(w, lib.objects[l], library'.objects[l])
      BY <2>5, LinkBackLinks
    <3>4. /\ \/ library'.objects[l] = lib.objects[l]
             \/ library'.objects[l].version \in Nat /\ library'.objects[l].version > w
          /\ ObjectKept(library'.objects[l])
      BY <3>1, <3>2, <3>3, LinkedAgain
    <3>5. lib.objects[l] = library.objects[l] \/ lib.objects[l].version = w
      BY <1>1, <2>3, <2>4, <2>5
    <3>6. w > library.version
      BY <1>1, <2>4
    <3> QED BY <1>1, <2>4, <2>6, <3>4, <3>5, <3>6
  <2> QED BY <1>1, <1>2, <2>6, NewerLibraryReplica
<1>4. ASSUME NEW k \in Keys, RemoteDelete(k) PROVE Replica'
  <2>1. library' = Erased(library, Subtree(library, {k}), library.version + 1)
    BY <1>4 DEF RemoteDelete
  <2>2. LET object == [NoObject EXCEPT !.version = library.version + 1,
                                       !.deletedAt = library.version + 1]
        IN  object.version = library.version + 1 /\ ObjectKept(object)
    BY DEF ObjectKept, NoObject
  <2> QED BY <1>1, <1>2, <2>1, <2>2, NewerLibraryReplica DEF Erased
<1> QED BY <1>3, <1>4 DEF OtherClients

(***************************************************************************)
(* Steps of an engine                                                      *)
(***************************************************************************)

(* With one engine, a step of it is judged by its own locals. *)
LEMMA EngineStepReplica ==
    ASSUME OneEngine, NEW e \in Engines, RowsKept', LibraryKept', Promise',
           UploadKept(e)', PullKept(e)'
    PROVE  Replica'
BY DEF OneEngine, Replica

(* A pull that has not asked for anything yet knows nothing. *)
LEMMA PullStartedKept ==
    ASSUME NEW e \in Engines, NEW try, pc'[e] = "fetching",
           pull'[e] = PullStarted(currentVersion', try)
    PROVE  PullKept(e)'
<1>1. /\ pull'[e].since = currentVersion' /\ pull'[e].waiting = Requests
      /\ pull'[e].listed = {} /\ pull'[e].deleted = {} /\ pull'[e].objects = NoObjects
  BY DEF PullStarted, NoPull
<1>2. Requests \cap Lists = Lists /\ {"collections", "items"} \subseteq Requests
  BY DEF Requests, Lists
<1>3. ~Listing(e)'
  BY <1>1, <1>2 DEF Listing
<1>4. ASSUME NEW k \in Keys PROVE ObjectPulled(e, k)'
  <2>1. ~pull'[e].objects[k].live
    BY <1>1 DEF NoObjects, NoObject
  <2>2. ListOf(k)' \in Requests /\ Kind(k) \in Requests
    BY DEF ListOf, Kind, Requests
  <2>3. "fetching" \notin TakenIn(k)'
    BY DEF TakenIn
  <2> QED BY <1>1, <2>1, <2>2, <2>3 DEF ObjectPulled
<1> QED BY <1>1, <1>2, <1>3, <1>4 DEF PullKept

LEMMA NoUploadKept ==
    ASSUME NEW e \in Engines, upload'[e].todo = {}, upload'[e].batch = {},
           pc'[e] \in {"idle"} \cup PullPhases
    PROVE  UploadKept(e)'
BY DEF UploadKept, UploadPhases, PullPhases, OnItsWay

(* A job ends, pulls, or begins an upload with the store's version. *)
LEMMA JobEndsReplica ==
    ASSUME Careful, Bounded, NEW e \in Engines, RowsKept', LibraryKept', Promise',
           \/ Finish(e)
           \/ currentVersion' = currentVersion /\ \E after : BeginPull(e, after)
           \/ \E attempt, after : BeginUpload(e, currentVersion', attempt, after)
    PROVE  Replica'
<1>1. /\ pc \in [Engines -> Phases] /\ upload \in [Engines -> Uploads]
      /\ pull \in [Engines -> Pulls]
  BY StateFacts
<1>2. CASE Finish(e)
  <2>1. pc'[e] = "idle" /\ upload'[e].todo = {} /\ upload'[e].batch = {}
    BY <1>1, <1>2 DEF Finish, NoUpload
  <2>2. PullKept(e)'
    BY <2>1 DEF PullKept, PullPhases
  <2> QED BY <2>1, <2>2, NoUploadKept, EngineStepReplica DEF Careful
<1>3. ASSUME currentVersion' = currentVersion, NEW after, BeginPull(e, after) PROVE Replica'
  <2>1. /\ pc'[e] = "fetching" /\ upload'[e].todo = {} /\ upload'[e].batch = {}
        /\ pull'[e] = PullStarted(currentVersion', 1)
    BY <1>1, <1>3 DEF BeginPull, NoUpload
  <2>2. UploadKept(e)'
    BY <2>1, NoUploadKept DEF PullPhases
  <2> QED BY <2>1, <2>2, PullStartedKept, EngineStepReplica DEF Careful
<1>4. ASSUME NEW attempt, NEW after, BeginUpload(e, currentVersion', attempt, after)
      PROVE  Replica'
  <2>1. /\ pc'[e] = "queueing" /\ upload'[e].todo = {} /\ upload'[e].batch = {}
        /\ upload'[e].version = currentVersion'
    BY <1>1, <1>4 DEF BeginUpload, NoUpload
  <2>2. UploadKept(e)' /\ PullKept(e)'
    BY <2>1 DEF UploadKept, PullKept, PullPhases, OnItsWay
  <2> QED BY <2>2, EngineStepReplica DEF Careful
<1> QED BY <1>2, <1>3, <1>4

(* Nothing the store or the server holds changes. *)
LEMMA HoldingsKept ==
    ASSUME Replica, UNCHANGED <<rows, currentVersion, library>>
    PROVE  RowsKept' /\ LibraryKept' /\ Promise'
BY DEF Replica, RowsKept, LibraryKept, ObjectKept, Promise, UpToDate

LEMMA StartingReplica ==
    ASSUME Careful, Bounded, Replica, NEW e \in Engines, Starting(e) PROVE Replica'
<1>1. UNCHANGED <<rows, currentVersion, library>>
  BY DEF Starting, StartPull, StartSynchronize
<1> QED BY <1>1, HoldingsKept, JobEndsReplica DEF Starting, StartPull, StartSynchronize

LEMMA QueueReplica ==
    ASSUME Careful, Bounded, Sound, Replica, NEW e \in Engines, Queue(e) PROVE Replica'
<1> DEFINE keys == StageKeys(upload[e].stage)
           todo == IF upload[e].stage <= 2
                   THEN {k \in keys : PendingUpload(rows[k])}
                   ELSE {k \in keys : PendingDeletion(rows[k])}
           sent == [k \in Keys |-> IF k \in todo THEN rows[k] ELSE NoRow]
<1>1. /\ pc[e] = "queueing" /\ upload[e].todo = {} /\ upload[e].batch = {}
      /\ UNCHANGED <<rows, currentVersion, library>>
      /\ pc \in [Engines -> Phases] /\ upload \in [Engines -> Uploads]
      /\ upload[e].version = currentVersion
      /\ RowsKept' /\ LibraryKept' /\ Promise'
  <2>1. pc[e] = "queueing" /\ UNCHANGED <<rows, currentVersion, library>>
    BY DEF Queue
  <2>2. upload[e].todo = {} /\ upload[e].batch = {}
    BY <2>1 DEF Sound, Intact, OnItsWay, Sending
  <2>3. upload[e].version = currentVersion
    BY <2>1 DEF Replica, UploadKept, UploadPhases
  <2> QED BY <2>1, <2>2, <2>3, HoldingsKept, StateFacts
<1>2. keys \subseteq Keys
  BY DEF StageKeys, Keys
<1>3. CASE todo = {}
  <2>1. NextStage(e)
    BY <1>3 DEF Queue
  <2>2. CASE upload[e].stage < 4
    <3>1. /\ pc'[e] = "queueing" /\ upload'[e].todo = {} /\ upload'[e].batch = {}
          /\ upload'[e].version = currentVersion'
      BY <1>1, <2>1, <2>2 DEF NextStage, Uploads
    <3>2. UploadKept(e)' /\ PullKept(e)'
      BY <3>1 DEF UploadKept, PullKept, PullPhases, OnItsWay
    <3> QED BY <1>1, <3>2, EngineStepReplica DEF Careful
  <2>3. CASE ~(upload[e].stage < 4)
    BY <1>1, <2>1, <2>3, JobEndsReplica DEF NextStage
  <2> QED BY <2>2, <2>3
<1>4. CASE todo # {}
  <2>1. upload[e].stage <= 2
    <3>1. \A k \in keys : rows[k].state # "deleted"
      BY <1>2 DEF Replica, RowsKept, RowKept
    <3> QED BY <1>4, <3>1 DEF PendingDeletion
  <2>2. \A k \in todo : k \in Keys /\ sent[k] = rows[k] /\ ~rows[k].conflict.open
    <3>1. \A k \in todo : k \in Keys /\ PendingUpload(rows[k]) /\ RowKept(rows[k])
      BY <1>2, <2>1 DEF Replica, RowsKept
    <3> QED BY <3>1 DEF PendingUpload, RowKept
  <2>3. /\ upload' = [upload EXCEPT ![e].todo = todo, ![e].sent = sent]
        /\ pc' = [pc EXCEPT ![e] = "batching"]
    BY <1>4 DEF Queue
  <2> HIDE DEF todo, sent
  <2>4. /\ upload'[e].todo = todo /\ upload'[e].sent = sent /\ upload'[e].batch = {}
        /\ upload'[e].stage = upload[e].stage /\ upload'[e].version = currentVersion'
        /\ pc'[e] = "batching"
    BY <1>1, <2>3 DEF Uploads
  <2>5. UploadKept(e)' /\ PullKept(e)'
    BY <1>1, <2>1, <2>2, <2>4 DEF UploadKept, PullKept, PullPhases, OnItsWay, SentKept
  <2> QED BY <1>1, <2>5, EngineStepReplica DEF Careful
<1> QED BY <1>3, <1>4

LEMMA BatchReplica ==
    ASSUME Careful, Bounded, Replica, NEW e \in Engines,
           NEW batch \in SUBSET upload[e].todo, Batch(e, batch)
    PROVE  Replica'
<1>1. /\ pc[e] = "batching" /\ UNCHANGED <<rows, currentVersion, library>>
      /\ upload[e].stage <= 2 /\ upload[e].version = currentVersion
      /\ pc \in [Engines -> Phases] /\ upload \in [Engines -> Uploads]
  <2>1. pc[e] = "batching" /\ UNCHANGED <<rows, currentVersion, library>>
    BY DEF Batch
  <2> QED BY <2>1, StateFacts DEF Replica, UploadKept, UploadPhases
<1>2. /\ pc'[e] = "posting" /\ upload'[e].version = currentVersion'
      /\ upload'[e].sent = upload[e].sent
      /\ OnItsWay(e)' \subseteq OnItsWay(e)
  BY <1>1 DEF Batch, OnItsWay, Uploads
<1>3. UploadKept(e)' /\ PullKept(e)'
  BY <1>1, <1>2 DEF Replica, UploadKept, PullKept, PullPhases, SentKept
<1> QED BY <1>1, <1>3, HoldingsKept, EngineStepReplica DEF Careful

(***************************************************************************)
(* The server handles an upload                                            *)
(***************************************************************************)

(* What is on its way is there as it was sent, whole and without conflict. *)
LEMMA SentFacts ==
    ASSUME Bounded, Sound, Replica, NEW e \in Engines, pc[e] \in Writing, NEW k \in OnItsWay(e)
    PROVE  /\ k \in Keys /\ rows[k] \in Rows
           /\ upload[e].stage <= 2
           /\ HasRow(rows[k]) /\ ~rows[k].isDeleted /\ ~rows[k].conflict.open
           /\ upload[e].sent[k].current = rows[k].current
           /\ upload[e].sent[k].pristine = rows[k].pristine
           /\ upload[e].sent[k].current \in Body /\ Full(upload[e].sent[k].current)
<1>1. k \in Keys /\ rows[k] \in Rows /\ upload[e].stage <= 2
  BY StateFacts DEF OnItsWay, Uploads
<1>2. AsSent(e, k) /\ SentKept(e, k) /\ RowKept(rows[k])
  BY <1>1 DEF Sound, Intact, Replica, RowsKept, UploadKept
<1> QED BY <1>1, <1>2 DEF AsSent, SentKept, RowKept, HasRow, Rows

LEMMA ServerWritesReports ==
    ASSUME Bounded, Sound, Replica, NEW e \in Engines, ServerWrites(e)
    PROVE  \E result :
              /\ Reports(library, upload[e].batch, upload[e].sent, upload[e].version, result)
              /\ library' = result.library
              /\ upload' = [upload EXCEPT ![e].answer = result.answer]
BY UploadAnswered, SentFacts DEF ServerWrites, Writing, OnItsWay

LEMMA ServerWritesReplica ==
    ASSUME Careful, Bounded, Sound, Replica, NEW e \in Engines, ServerWrites(e) PROVE Replica'
<1>1. PICK result :
        /\ Reports(library, upload[e].batch, upload[e].sent, upload[e].version, result)
        /\ library' = result.library
        /\ upload' = [upload EXCEPT ![e].answer = result.answer]
  BY ServerWritesReports
<1>2. /\ pc[e] = "posting" /\ pc'[e] = "posted" /\ UNCHANGED <<rows, currentVersion>>
      /\ library.version \in Nat /\ currentVersion \in 0 .. library.version
      /\ \A k \in Keys : /\ library.objects[k] \in Objects
                         /\ library.objects[k].version \in 0 .. library.version
  BY StateFacts DEF ServerWrites
<1>3. /\ upload'[e].answer = result.answer
      /\ upload'[e].sent = upload[e].sent /\ upload'[e].version = upload[e].version
      /\ OnItsWay(e)' = OnItsWay(e)
  BY <1>1, StateFacts DEF OnItsWay, Uploads
<1>4. upload[e].version = currentVersion
  BY <1>2 DEF Replica, UploadKept, UploadPhases
<1>5. (\A k \in OnItsWay(e)' : SentKept(e, k)') /\ PullKept(e)'
  BY <1>2, <1>3 DEF Replica, UploadKept, SentKept, PullKept, PullPhases
<1>6. CASE library' = library /\ result.answer.status # "report"
  <2>1. RowsKept' /\ LibraryKept' /\ Promise'
    BY <1>2, <1>6, HoldingsKept
  <2>2. UploadKept(e)'
    BY <1>2, <1>3, <1>4, <1>5, <1>6 DEF UploadKept
  <2> QED BY <1>5, <2>1, <2>2, EngineStepReplica DEF Careful
<1>7. CASE ~(library' = library /\ result.answer.status # "report")
  <2>1. /\ currentVersion = library.version
        /\ result.answer.version \in Nat /\ library.version <= result.answer.version
        /\ \A k \in Keys : \/ LeftAlone(library, upload[e].sent, result, k)
                           \/ WrittenAsSent(library, upload[e].batch, upload[e].sent, result, k)
    BY <1>1, <1>4, <1>7 DEF Reports
  <2>2. ASSUME NEW k \in Keys
        PROVE  /\ ObjectKept(library.objects[k])'
               /\ library'.objects[k].version <= currentVersion' => UpToDate(k)'
               /\ ReportKept(e, k)'
    <3>1. CASE LeftAlone(library, upload[e].sent, result, k)
      <4> DEFINE object == library.objects[k]
                 new == library'.objects[k]
      <4>1. ObjectKept(object) /\ Follows(rows[k], object)
        <5>1. object.version <= currentVersion
          BY <1>2, <2>1
        <5> QED BY <5>1 DEF Replica, LibraryKept, Promise, UpToDate
      <4>2. /\ new = object \/ (new.version \in Nat /\ new.version > library.version)
            /\ new.live = object.live /\ new.body = object.body
            /\ ObjectKept(object) => ObjectKept(new)
            /\ \A row : Follows(row, object) => Follows(row, new)
        <5>1. MaybeLinked(library.version, object, new) /\ object \in Objects
          BY <1>1, <1>2, <3>1 DEF LeftAlone
        <5> QED BY <1>2, <5>1, LinkedAgain
      <4>3. /\ result.answer.outcome[k] # "successful"
            /\ result.answer.outcome[k] = "unchanged"
                 => object.live /\ object.body = upload[e].sent[k].current
        BY <3>1 DEF LeftAlone
      <4> HIDE DEF object
      <4>4. UpToDate(k)'
        BY <1>2, <4>1, <4>2 DEF UpToDate
      <4>5. ObjectKept(library.objects[k])'
        <5>1. ObjectKept(new)
          BY <4>1, <4>2
        <5> QED BY <1>2, <5>1 DEF ObjectKept
      <4>6. ReportKept(e, k)'
        BY <1>3, <4>2, <4>3, <4>4 DEF ReportKept
      <4> QED BY <4>4, <4>5, <4>6
    <3>2. CASE WrittenAsSent(library, upload[e].batch, upload[e].sent, result, k)
      <4> DEFINE current == upload[e].sent[k].current
      <4>1. PICK version \in Nat :
               /\ version > library.version
               /\ MaybeLinked(library.version, Stored(library.objects[k], version, current),
                              library'.objects[k])
        BY <1>1, <3>2 DEF WrittenAsSent
      <4>3. current \in Body /\ Full(current)
        BY <1>2, <3>2, SentFacts DEF WrittenAsSent, OnItsWay, Writing
      <4>4. library.objects[k].deletedAt <= currentVersion
        BY <1>2, <2>1 DEF Replica, LibraryKept, ObjectKept
      <4> DEFINE written == Stored(library.objects[k], version, current)
                 new == library'.objects[k]
      <4>2. /\ written \in Objects /\ written.live /\ written.version = version
            /\ written.body = current /\ written.deletedAt = library.objects[k].deletedAt
        BY <1>2, <4>3 DEF Stored, Objects
      <4> HIDE DEF current, written
      <4>5. ObjectKept(written)
        BY <1>2, <4>1, <4>2, <4>3, <4>4 DEF ObjectKept
      <4>6. /\ new.version \in Nat /\ new.version > library.version
            /\ new.live /\ new.body = current /\ ObjectKept(new)
        <5>1. MaybeLinked(library.version, written, new)
          BY <4>1 DEF written
        <5> QED BY <1>2, <4>1, <4>2, <4>5, <5>1, LinkedAgain
      <4>7. ObjectKept(library.objects[k])'
        BY <1>2, <4>6 DEF ObjectKept
      <4>8. ReportKept(e, k)'
        BY <1>2, <1>3, <3>2, <4>6 DEF WrittenAsSent, ReportKept, current
      <4> QED BY <1>2, <2>1, <4>6, <4>7, <4>8
    <3> QED BY <2>1, <3>1, <3>2
  <2>3. RowsKept' /\ LibraryKept' /\ Promise'
    BY <1>2, <2>2 DEF Replica, RowsKept, LibraryKept, Promise
  <2>4. UploadKept(e)'
    BY <1>2, <1>3, <1>4, <1>5, <2>1, <2>2 DEF UploadKept
  <2> QED BY <1>5, <2>3, <2>4, EngineStepReplica DEF Careful
<1> QED BY <1>6, <1>7

(***************************************************************************)
(* The end of an upload                                                    *)
(***************************************************************************)

LEMMA ApplyWriteReportReplica ==
    ASSUME Careful, Bounded, Sound, Replica, NEW e \in Engines, ApplyWriteReport(e)
    PROVE  Replica'
<1> DEFINE answer == upload[e].answer
           Outcome(k) == answer.outcome[k]
<1>1. /\ pc[e] = "posted" /\ answer.status = "report" /\ upload[e].stage <= 2
      /\ UNCHANGED library /\ currentVersion' = answer.version
      /\ pc \in [Engines -> Phases] /\ upload \in [Engines -> Uploads]
      /\ currentVersion \in Nat /\ answer.version \in Nat /\ currentVersion <= answer.version
      /\ \A k \in Keys : /\ library.objects[k] \in Objects /\ Outcome(k) \in Outcomes
                         /\ ReportKept(e, k) /\ RowKept(rows[k]) /\ rows[k] \in Rows
  <2>1. pc[e] = "posted" /\ answer.status = "report"
    BY DEF ApplyWriteReport
  <2>2. \A k \in Keys : Outcome(k) \in Outcomes
    BY StateFacts DEF Uploads, Answers
  <2> QED BY <2>1, <2>2, StateFacts
       DEF ApplyWriteReport, Writing, Replica, RowsKept, UploadKept
<1>2. \A k \in Keys : rows'[k] = Reported(rows[k], upload[e].sent[k], Outcome(k), answer.objects[k])
  BY DEF ApplyWriteReport
<1>3. ASSUME NEW k \in Keys
      PROVE  /\ RowKept(rows'[k])
             /\ library.objects[k].version <= answer.version => UpToDate(k)'
  <2> DEFINE row == rows[k]
             object == library.objects[k]
             sent == upload[e].sent[k]
  <2>1. Outcome(k) # "none" =>
           /\ HasRow(row) /\ ~row.isDeleted /\ ~row.conflict.open
           /\ sent.current \in Body /\ Full(sent.current)
    BY <1>1, SentFacts DEF Sound, Intact, OnItsWay, Writing
  <2>2. UpToDate(k)' = Follows(rows'[k], object)
    BY <1>1 DEF UpToDate
  <2>3. CASE Outcome(k) \in {"successful", "unchanged"}
    <3>1. /\ object.version <= answer.version => object.live /\ object.body = sent.current
          /\ Outcome(k) = "successful" => answer.objects[k].body = sent.current
      BY <1>1, <2>3 DEF ReportKept, Objects
    <3>2. \/ rows'[k] = WriteSucceeded(row, answer.objects[k].version, sent.current)
          \/ rows'[k] = WriteUnchanged(row, sent)
      BY <1>2, <2>3, <3>1 DEF Reported
    <3> HIDE DEF row, object, sent
    <3>3. /\ RowKept(rows'[k])
          /\ object.live /\ object.body = sent.current => Follows(rows'[k], object)
      BY <1>1, <2>1, <2>3, <3>2, WrittenFollows DEF row
    <3> QED BY <2>2, <3>1, <3>3 DEF object
  <2>4. CASE Outcome(k) \notin {"successful", "unchanged"}
    <3>1. object.version <= answer.version => Follows(row, object)
      <4>1. object.version \in Nat
        BY <1>1 DEF Objects
      <4>2. object.version > answer.version \/ UpToDate(k)
        BY <1>1, <2>4 DEF ReportKept
      <4> QED BY <1>1, <4>1, <4>2 DEF UpToDate
    <3>2. \/ Outcome(k) = "failed" /\ rows'[k] = WriteFailed(row)
          \/ rows'[k] = row
      BY <1>1, <1>2, <2>4 DEF Reported, Outcomes
    <3>3. RowKept(rows'[k]) /\ (Follows(row, object) => Follows(rows'[k], object))
      BY <1>1, <2>1, <3>2, WriteFailedFollows
    <3> QED BY <2>2, <3>1, <3>3
  <2> QED BY <2>3, <2>4
<1>4. RowsKept' /\ LibraryKept' /\ Promise'
  <2>1. LibraryKept'
    BY <1>1 DEF Replica, LibraryKept, ObjectKept, Objects
  <2> QED BY <1>1, <1>3, <2>1 DEF RowsKept, Promise
<1>5. CASE upload[e].todo # {}
  <2>1. /\ pc'[e] = "batching" /\ upload'[e].version = currentVersion'
        /\ upload'[e].stage <= 2 /\ upload'[e].sent = upload[e].sent
        /\ OnItsWay(e)' = upload[e].todo
    BY <1>1, <1>5 DEF ApplyWriteReport, OnItsWay, Uploads
  <2>2. ASSUME NEW k \in upload[e].todo PROVE SentKept(e, k)'
    <3>1. k \in Keys /\ k \in OnItsWay(e) /\ k \notin upload[e].batch
      BY <1>1 DEF Sound, Intact, OnItsWay, Uploads
    <3>2. rows'[k] = rows[k]
      BY <1>1, <1>2, <3>1 DEF Sound, Intact, Reported
    <3> QED BY <2>1, <3>1, <3>2 DEF Replica, UploadKept, SentKept
  <2>3. UploadKept(e)' /\ PullKept(e)'
    BY <2>1, <2>2 DEF UploadKept, PullKept, PullPhases
  <2> QED BY <1>4, <2>3, EngineStepReplica DEF Careful
<1>6. CASE upload[e].todo = {}
  <2>1. /\ pc'[e] = "queueing" /\ upload'[e].version = currentVersion'
        /\ OnItsWay(e)' = {}
    BY <1>1, <1>6 DEF ApplyWriteReport, OnItsWay, NoUpload
  <2>2. UploadKept(e)' /\ PullKept(e)'
    BY <2>1 DEF UploadKept, PullKept, PullPhases
  <2> QED BY <1>4, <2>2, EngineStepReplica DEF Careful
<1> QED BY <1>5, <1>6

LEMMA UploadingReplica ==
    ASSUME Careful, Bounded, Sound, Replica, NEW e \in Engines, Uploading(e) PROVE Replica'
<1>1. pc[e] \notin {"deleting", "deleted"}
  BY DEF Replica, UploadKept
<1>2. CASE Rejected(e) \/ Undecodable(e)
  <2>1. UNCHANGED <<rows, currentVersion, library>>
    BY <1>2 DEF Rejected, Undecodable
  <2>2. Finish(e) \/ BeginPull(e, "retry")
    BY <1>2 DEF Rejected, Undecodable, PreconditionFailed
  <2> QED BY <2>1, <2>2, HoldingsKept, JobEndsReplica
<1>3. ~ServerDeletes(e) /\ ~MarkDeletionsUploaded(e)
  BY <1>1 DEF ServerDeletes, MarkDeletionsUploaded
<1> QED BY <1>2, <1>3, QueueReplica, BatchReplica, ServerWritesReplica, ApplyWriteReportReplica
     DEF Uploading

LEMMA FaultsReplica ==
    ASSUME Careful, Bounded, Sound, Replica, NEW e \in Engines, Faults(e) PROVE Replica'
<1>1. /\ pc \in [Engines -> Phases] /\ upload \in [Engines -> Uploads]
      /\ pc[e] \notin {"deleting", "deleted"}
      /\ rows \in [Keys -> Rows]
  BY StateFacts DEF Replica, UploadKept
<1>2. CASE TransportFails(e)
  <2>1. pc[e] \in Writing /\ UNCHANGED <<currentVersion, library>> /\ Finish(e)
    BY <1>1, <1>2 DEF TransportFails, Writing
  <2>2. ASSUME NEW k \in Keys PROVE RowKept(rows'[k]) /\ (UpToDate(k) => UpToDate(k)')
    <3>1. rows[k] \in Rows /\ RowKept(rows[k])
      BY <1>1 DEF Replica, RowsKept
    <3>2. CASE k \notin upload[e].batch
      BY <1>2, <2>1, <3>1, <3>2 DEF TransportFails, UpToDate
    <3>3. CASE k \in upload[e].batch
      <4>1. upload[e].stage <= 2 /\ HasRow(rows[k]) /\ ~rows[k].isDeleted
        BY <2>1, <3>3, SentFacts DEF OnItsWay
      <4>2. rows'[k] = WriteFailed(rows[k])
        BY <1>1, <1>2, <3>3, <4>1 DEF TransportFails, Uploads, Stages
      <4> QED BY <2>1, <3>1, <4>1, <4>2, WriteFailedFollows DEF UpToDate
    <3> QED BY <3>2, <3>3
  <2>3. RowsKept' /\ LibraryKept' /\ Promise'
    BY <2>1, <2>2 DEF Replica, RowsKept, LibraryKept, ObjectKept, Promise
  <2> QED BY <2>1, <2>3, JobEndsReplica
<1>3. CASE Stop(e)
  BY <1>3, HoldingsKept, JobEndsReplica DEF Stop
<1>4. CASE Resend(e)
  <2>1. /\ pc'[e] = "posting" /\ UNCHANGED <<rows, currentVersion, library>>
        /\ OnItsWay(e)' = OnItsWay(e) /\ upload'[e].sent = upload[e].sent
        /\ upload'[e].version = currentVersion'
    BY <1>1, <1>4 DEF Resend, Answered, OnItsWay, Uploads, Replica, UploadKept, UploadPhases
  <2>2. UploadKept(e)' /\ PullKept(e)'
    BY <2>1 DEF Replica, UploadKept, SentKept, PullKept, PullPhases
  <2> QED BY <2>1, <2>2, HoldingsKept, EngineStepReplica DEF Careful
<1> QED BY <1>2, <1>3, <1>4 DEF Faults

(***************************************************************************)
(* A pull                                                                  *)
(***************************************************************************)

(* A pull has nothing on its way to the server. *)
LEMMA PullingFacts ==
    ASSUME Bounded, Sound, Replica, NEW e \in Engines, pc[e] \in PullPhases
    PROVE  /\ pc \in [Engines -> Phases] /\ pull \in [Engines -> Pulls]
           /\ rows \in [Keys -> Rows]
           /\ upload[e].todo = {} /\ upload[e].batch = {}
           /\ PullKept(e) /\ pull[e].since = currentVersion
           /\ library.version \in Nat /\ currentVersion \in 0 .. library.version
           /\ pull[e].version \in 0 .. library.version
           /\ \A k \in Keys : /\ library.objects[k] \in Objects /\ pull[e].objects[k] \in Objects
                              /\ library.objects[k].version \in 0 .. library.version
                              /\ ObjectKept(library.objects[k]) /\ RowKept(rows[k])
                              /\ ObjectPulled(e, k)
<1>1. upload[e].todo = {} /\ upload[e].batch = {}
  BY DEF Sound, Intact, OnItsWay, Sending, PullPhases
<1>2. PullKept(e) /\ pull[e].since = currentVersion /\ \A k \in Keys : ObjectPulled(e, k)
  BY DEF Replica, PullKept
<1>3. \A k \in Keys : pull[e].objects[k] \in Objects
  BY StateFacts DEF Pulls
<1> QED BY <1>1, <1>2, <1>3, StateFacts DEF Replica, RowsKept, LibraryKept

(* A request of the pull is answered. *)
LEMMA PullStepReplica ==
    ASSUME Careful, Bounded, Sound, Replica, NEW e \in Engines,
           pc[e] \in PullPhases, pc'[e] \in PullPhases,
           UNCHANGED <<rows, currentVersion, library, upload>>, PullKept(e)'
    PROVE  Replica'
<1>1. UploadKept(e)'
  BY PullingFacts, NoUploadKept
<1> QED BY <1>1, HoldingsKept, EngineStepReplica DEF Careful

LEMMA ReadListReplica ==
    ASSUME Careful, Bounded, Sound, Replica, NEW e \in Engines,
           NEW list \in Lists, ReadList(e, list)
    PROVE  Replica'
<1> DEFINE p == pull[e]
           q == pull'[e]
           changed == CASE list = "collectionVersions" -> ChangedSince(library, Collections, p.since)
                        [] list = "itemVersions"       -> ChangedSince(library, Items, p.since)
                        [] list = "deletions"          -> {}
           deleted == IF list = "deletions" THEN DeletedSince(library, p.since) ELSE {}
<1>1. /\ pc[e] = "fetching" /\ pc'[e] = "fetching" /\ list \in p.waiting
      /\ UNCHANGED <<rows, currentVersion, library, upload>>
  BY DEF ReadList
<1>2. /\ p.since = currentVersion /\ PullKept(e) /\ pull \in [Engines -> Pulls]
      /\ library.version \in Nat /\ currentVersion \in 0 .. library.version
      /\ p.version \in 0 .. library.version
  BY <1>1, PullingFacts DEF PullPhases
<1>3. /\ q.since = p.since /\ q.waiting = p.waiting \ {list}
      /\ q.listed = p.listed \cup changed /\ q.deleted = p.deleted \cup deleted
      /\ q.objects = p.objects /\ q.version = library.version
  <2>1. pull' = [pull EXCEPT ![e].waiting = @ \ {list},
                             ![e].listed = @ \cup changed,
                             ![e].deleted = @ \cup deleted,
                             ![e].version = HighestVersion(@, library.version)]
    BY DEF ReadList
  <2>2. HighestVersion(p.version, library.version) = library.version
    BY <1>2 DEF HighestVersion
  <2> HIDE DEF changed, deleted
  <2> QED BY <1>2, <2>1, <2>2 DEF Pulls
<1>4. list \in {"collectionVersions", "itemVersions", "deletions"}
  BY DEF Lists
<1>5. p.waiting \cap Lists = Lists \/ p.version = library.version
  BY <1>1, <1>2, <1>4 DEF PullKept, PullPhases, Listing
<1>6. ASSUME NEW k \in Keys PROVE ObjectPulled(e, k)'
  <2> DEFINE object == library.objects[k]
  <2>1. /\ object \in Objects /\ object.version \in 0 .. library.version
        /\ ObjectKept(object) /\ ObjectPulled(e, k)
        /\ p.objects[k] \in Objects
    BY <1>1, PullingFacts DEF PullPhases
  <2>2. /\ k \in changed => object.live /\ object.version > currentVersion
        /\ k \in deleted => ~object.live /\ object.version > currentVersion
    <3>1. k \in changed => object.live /\ object.version > currentVersion
      BY <1>2, <1>4 DEF ChangedSince
    <3>2. k \in deleted => object.deletedAt > currentVersion
      BY <1>2 DEF DeletedSince
    <3> HIDE DEF changed, deleted
    <3> QED BY <1>2, <2>1, <3>1, <3>2 DEF ObjectKept, Objects
  <2>3. ListOf(k) = list /\ object.version > currentVersion
           => IF object.live THEN k \in changed ELSE k \in deleted
    BY <1>2, <2>1 DEF ListOf, ChangedSince, DeletedSince, ObjectKept, Keys
  <2>4. ListOf(k) \in Lists /\ ListOf(k)' = ListOf(k) /\ "fetching" \notin TakenIn(k)'
    BY <1>1 DEF ListOf, Lists, TakenIn
  <2>5. k \in p.deleted => ~object.live \/ p.version = library.version
    BY <1>1, <1>2, <1>5 DEF PullKept, PullPhases, Lists
  <2>6. Kind(k) \notin p.waiting => p.version = library.version /\ list \notin VersionLists
    BY <1>1, <1>2, <1>5 DEF PullKept, PullPhases, Kind, VersionLists, Lists
  <2>7. list \notin VersionLists => changed = {}
    BY <1>4 DEF VersionLists
  <2>8. Kind(k) # list
    BY <1>4 DEF Kind
  <2> HIDE DEF changed, deleted
  <2>9. /\ k \in q.listed \cup q.deleted => currentVersion < object.version
        /\ k \in q.deleted => ~object.live \/ object.version > q.version
    BY <1>2, <1>3, <2>1, <2>2, <2>5 DEF ObjectPulled
  <2>10. currentVersion < object.version /\ ListOf(k) \notin q.waiting =>
            IF object.live THEN k \in q.listed ELSE k \in q.deleted
    <3>1. CASE ListOf(k) = list
      BY <1>3, <2>3, <3>1
    <3>2. CASE ListOf(k) # list
      <4>1. ListOf(k) \notin q.waiting => ListOf(k) \notin p.waiting /\ p.version = library.version
        BY <1>3, <1>5, <2>4, <3>2
      <4> QED BY <1>2, <1>3, <2>1, <4>1 DEF ObjectPulled
    <3> QED BY <3>1, <3>2
  <2>11. currentVersion < object.version /\ object.live
            /\ k \in q.listed /\ Kind(k) \notin q.waiting => q.objects[k] = object
    <3> SUFFICES ASSUME currentVersion < object.version, object.live,
                        k \in q.listed, Kind(k) \notin q.waiting
                 PROVE  p.objects[k] = object
      BY <1>3
    <3>1. Kind(k) \notin p.waiting
      BY <1>3, <2>8
    <3>2. k \in p.listed /\ object.version <= p.version
      BY <1>3, <2>1, <2>6, <2>7, <3>1
    <3> QED BY <2>1, <3>1, <3>2 DEF ObjectPulled
  <2> QED BY <1>1, <1>3, <2>1, <2>4, <2>9, <2>10, <2>11 DEF ObjectPulled
<1>7. PullKept(e)'
  <2>1. /\ {"collections", "items"} \subseteq q.waiting \/ q.waiting \cap VersionLists = {}
        /\ "deletions" \in q.waiting => q.deleted = {}
    BY <1>1, <1>2, <1>3, <1>4 DEF PullKept, PullPhases
  <2> QED BY <1>1, <1>2, <1>3, <1>6, <2>1 DEF PullKept, PullPhases, Listing
<1> QED BY <1>1, <1>7, PullStepReplica DEF PullPhases

LEMMA ReadObjectsReplica ==
    ASSUME Careful, Bounded, Sound, Replica, NEW e \in Engines,
           NEW kind \in {"collections", "items"}, ReadObjects(e, kind)
    PROVE  Replica'
<1> DEFINE p == pull[e]
           q == pull'[e]
           keys == IF kind = "items" THEN Items ELSE Collections
           read == {k \in keys \cap p.listed : library.objects[k].live}
<1>1. /\ pc[e] = "fetching" /\ pc'[e] = "fetching" /\ kind \in p.waiting
      /\ p.waiting \cap VersionLists = {}
      /\ UNCHANGED <<rows, currentVersion, library, upload>>
  BY DEF ReadObjects, VersionLists
<1>2. PullKept(e) /\ pull \in [Engines -> Pulls]
  BY <1>1, PullingFacts DEF PullPhases
<1>3. /\ q.since = p.since /\ q.waiting = p.waiting \ {kind} /\ q.version = p.version
      /\ q.listed = p.listed /\ q.deleted = p.deleted
      /\ q.objects = [k \in Keys |-> IF k \in read THEN library.objects[k] ELSE p.objects[k]]
  <2>1. pull' = [pull EXCEPT ![e].waiting = @ \ {kind},
                             ![e].objects = [k \in Keys |-> IF k \in read THEN library.objects[k]
                                                            ELSE @[k]]]
    BY DEF ReadObjects
  <2> HIDE DEF read
  <2> QED BY <1>2, <2>1 DEF Pulls
<1>4. q.waiting \cap Lists = p.waiting \cap Lists
  BY <1>3 DEF Lists
<1>5. ASSUME NEW k \in Keys PROVE ObjectPulled(e, k)'
  <2>1. /\ library.objects[k] \in Objects /\ ObjectKept(library.objects[k])
        /\ ObjectPulled(e, k)
    BY <1>1, PullingFacts DEF PullPhases
  <2>2. Kind(k) = kind /\ library.objects[k].live /\ k \in p.listed => k \in read
    BY DEF Kind, Keys
  <2>3. k \in read => k \in p.listed /\ library.objects[k].live
    OBVIOUS
  <2>4. q.objects[k] = IF k \in read THEN library.objects[k] ELSE p.objects[k]
    BY <1>3
  <2> HIDE DEF read
  <2>5. ListOf(k)' = ListOf(k) /\ ListOf(k) \in Lists /\ "fetching" \notin TakenIn(k)'
    BY <1>1 DEF ListOf, Lists, TakenIn
  <2> QED BY <1>1, <1>3, <1>4, <2>1, <2>2, <2>3, <2>4, <2>5
       DEF ObjectPulled, ObjectKept, Objects
<1>6. PullKept(e)'
  BY <1>1, <1>2, <1>3, <1>4, <1>5 DEF PullKept, PullPhases, Listing
<1> QED BY <1>1, <1>6, PullStepReplica DEF PullPhases

LEMMA FetchedReplica ==
    ASSUME Careful, Bounded, Sound, Replica, NEW e \in Engines, Fetched(e) PROVE Replica'
<1>1. /\ pc[e] = "fetching" /\ pc'[e] = "collections" /\ pull[e].waiting = {}
      /\ UNCHANGED <<rows, currentVersion, library, upload, pull>>
  BY StateFacts DEF Fetched
<1>2. ASSUME NEW k \in Keys PROVE ObjectPulled(e, k)'
  <2>1. ObjectPulled(e, k)
    BY <1>1, PullingFacts DEF PullPhases
  <2> QED BY <1>1, <2>1 DEF ObjectPulled, ListOf, TakenIn
<1>3. PullKept(e)'
  BY <1>1, <1>2, PullingFacts DEF PullKept, PullPhases, Listing
<1> QED BY <1>1, <1>3, PullStepReplica DEF PullPhases

(* A transaction of the pull makes records follow the objects read, none   *)
(* of which the store's version promised yet.                              *)
LEMMA TransactionReplica ==
    ASSUME Careful, Bounded, Sound, Replica, NEW e \in Engines,
           pc[e] \in PullPhases \ {"fetching"}, pc'[e] \in PullPhases \ {"fetching"},
           UNCHANGED <<currentVersion, library, upload, pull>>,
           \A k \in Keys :
              /\ RowKept(rows'[k])
              /\ library.objects[k].version <= currentVersion => rows'[k] = rows[k]
              /\ /\ currentVersion < library.objects[k].version
                 /\ library.objects[k].version <= pull[e].version
                 /\ pc'[e] \in TakenIn(k)
                 => UpToDate(k)'
    PROVE  Replica'
<1>1. RowsKept' /\ LibraryKept' /\ Promise'
  BY DEF Replica, RowsKept, LibraryKept, ObjectKept, Promise, UpToDate
<1>2. UploadKept(e)'
  BY PullingFacts, NoUploadKept
<1>3. ASSUME NEW k \in Keys PROVE ObjectPulled(e, k)'
  <2>1. ObjectPulled(e, k) /\ TakenIn(k)' = TakenIn(k) /\ ListOf(k)' = ListOf(k)
    BY PullingFacts DEF TakenIn, ListOf
  <2> QED BY <2>1 DEF ObjectPulled
<1>4. PullKept(e)'
  BY <1>3, PullingFacts DEF PullKept, Listing
<1> QED BY <1>1, <1>2, <1>4, EngineStepReplica DEF Careful

(* Past the lists, a pull has read every live object that is new to it.    *)
LEMMA ObjectsRead ==
    ASSUME Bounded, Sound, Replica, NEW e \in Engines,
           pc[e] \in PullPhases \ {"fetching"}, NEW k \in Keys
    PROVE  /\ pull[e].objects[k].live =>
                 /\ pull[e].objects[k].body \in Body /\ Full(pull[e].objects[k].body)
                 /\ currentVersion < library.objects[k].version
           /\ /\ currentVersion < library.objects[k].version
              /\ library.objects[k].version <= pull[e].version
              => IF library.objects[k].live THEN pull[e].objects[k] = library.objects[k]
                 ELSE k \in pull[e].deleted
           /\ k \in pull[e].deleted =>
                 /\ currentVersion < library.objects[k].version
                 /\ ~library.objects[k].live \/ library.objects[k].version > pull[e].version
<1>1. pull[e].waiting = {} /\ ObjectPulled(e, k)
  BY PullingFacts DEF PullKept
<1>2. /\ currentVersion \in Nat
      /\ library.objects[k] \in Objects /\ pull[e].objects[k] \in Objects
  BY PullingFacts
<1> QED BY <1>1, <1>2 DEF ObjectPulled, Objects

LEMMA IntegratedReplica ==
    ASSUME Careful, Bounded, Sound, Replica, NEW e \in Engines,
           IntegrateCollections(e) \/ IntegrateItems(e)
    PROVE  Replica'
<1> DEFINE keys == IF pc[e] = "collections" THEN Collections ELSE Items
<1>1. /\ pc[e] \in {"collections", "items"}
      /\ pc'[e] = IF pc[e] = "collections" THEN "items" ELSE "deletions"
      /\ rows' = Integrated(e, keys)
      /\ UNCHANGED <<currentVersion, library, upload, pull>>
  BY StateFacts DEF IntegrateCollections, IntegrateItems
<1>2. pc[e] \in PullPhases \ {"fetching"} /\ pc'[e] \in PullPhases \ {"fetching"}
  BY <1>1 DEF PullPhases
<1>3. ASSUME NEW k \in Keys
      PROVE  /\ RowKept(rows'[k])
             /\ library.objects[k].version <= currentVersion => rows'[k] = rows[k]
             /\ /\ currentVersion < library.objects[k].version
                /\ library.objects[k].version <= pull[e].version
                /\ pc'[e] \in TakenIn(k)
                => UpToDate(k)'
  <2> DEFINE object == library.objects[k]
             read == pull[e].objects[k]
             integrated == Integrate(rows[k], read.version, read.body)
  <2>1. /\ rows[k] \in Rows /\ RowKept(rows[k]) /\ ObjectPulled(e, k)
        /\ object \in Objects /\ currentVersion \in Nat
    BY <1>2, PullingFacts
  <2>2. /\ read.live => /\ read.body \in Body /\ Full(read.body)
                        /\ currentVersion < object.version
        /\ currentVersion < object.version /\ object.version <= pull[e].version /\ object.live
             => read = object
    BY <1>2, ObjectsRead
  <2>3. rows'[k] = IF k \in keys /\ read.live THEN integrated ELSE rows[k]
    BY <1>1 DEF Integrated
  <2>4. read.live => /\ RowKept(integrated)
                     /\ object.live /\ read.body = object.body => Follows(integrated, object)
    BY <2>1, <2>2, IntegrateFollows
  <2>5. UpToDate(k)' = Follows(rows'[k], object)
    BY <1>1 DEF UpToDate
  <2> HIDE DEF integrated
  <2>6. object.version <= currentVersion => rows'[k] = rows[k]
    BY <2>1, <2>2, <2>3 DEF Objects
  <2>7. ASSUME currentVersion < object.version, object.version <= pull[e].version,
               pc'[e] \in TakenIn(k)
        PROVE  UpToDate(k)'
    <3>1. object.live /\ read = object
      BY <1>1, <2>2, <2>7 DEF TakenIn
    <3>2. CASE k \in keys
      BY <2>3, <2>4, <2>5, <3>1, <3>2
    <3>3. CASE k \notin keys
      <4>1. pc[e] \in TakenIn(k)
        BY <1>1, <2>7, <3>1, <3>3 DEF TakenIn, Keys
      <4> QED BY <2>1, <2>3, <2>5, <2>7, <3>3, <4>1 DEF ObjectPulled, UpToDate
    <3> QED BY <3>2, <3>3
  <2> QED BY <2>1, <2>3, <2>4, <2>6, <2>7
<1> QED BY <1>1, <1>2, <1>3, TransactionReplica

LEMMA ApplyRemoteDeletionsReplica ==
    ASSUME Careful, Bounded, Sound, Replica, NEW e \in Engines, ApplyRemoteDeletions(e)
    PROVE  Replica'
<1>1. /\ pc[e] = "deletions" /\ pc'[e] = "checking"
      /\ UNCHANGED <<currentVersion, library, upload, pull>>
  BY StateFacts DEF ApplyRemoteDeletions
<1>2. pc[e] \in PullPhases \ {"fetching"} /\ pc'[e] \in PullPhases \ {"fetching"}
  BY <1>1 DEF PullPhases
<1>3. ASSUME NEW k \in Keys
      PROVE  /\ RowKept(rows'[k])
             /\ library.objects[k].version <= currentVersion => rows'[k] = rows[k]
             /\ /\ currentVersion < library.objects[k].version
                /\ library.objects[k].version <= pull[e].version
                => UpToDate(k)'
  <2> DEFINE object == library.objects[k]
             row == ApplyRemoteDeletion(rows[k], pull[e].version)
  <2>1. /\ rows[k] \in Rows /\ RowKept(rows[k]) /\ ObjectPulled(e, k)
        /\ object \in Objects /\ ObjectKept(object)
        /\ currentVersion \in Nat /\ pull[e].version \in Nat
    BY <1>2, PullingFacts
  <2>2. /\ k \in pull[e].deleted => /\ currentVersion < object.version
                                    /\ ~object.live \/ object.version > pull[e].version
        /\ currentVersion < object.version /\ object.version <= pull[e].version
           /\ ~object.live => k \in pull[e].deleted
    BY <1>2, ObjectsRead
  <2>3. rows'[k] = IF k \in pull[e].deleted THEN row ELSE rows[k]
    BY DEF ApplyRemoteDeletions
  <2>4. RowKept(row) /\ (~object.live /\ object.deletedAt > 0 => Follows(row, object))
    BY <2>1, ApplyRemoteDeletionFollows
  <2>5. UpToDate(k)' = Follows(rows'[k], object)
    BY <1>1 DEF UpToDate
  <2> HIDE DEF row
  <2>6. object.version <= currentVersion => rows'[k] = rows[k]
    BY <2>1, <2>2, <2>3 DEF Objects
  <2>7. ASSUME currentVersion < object.version, object.version <= pull[e].version
        PROVE  UpToDate(k)'
    <3>1. CASE object.live
      <4>1. k \notin pull[e].deleted /\ pc[e] \in TakenIn(k)
        BY <1>1, <2>1, <2>2, <2>7, <3>1 DEF Objects, TakenIn
      <4> QED BY <2>1, <2>3, <2>5, <2>7, <4>1 DEF ObjectPulled, UpToDate
    <3>2. CASE ~object.live
      BY <2>1, <2>2, <2>3, <2>4, <2>5, <2>7, <3>2 DEF ObjectKept, Objects
    <3> QED BY <3>1, <3>2
  <2> QED BY <2>1, <2>3, <2>4, <2>6, <2>7
<1> QED BY <1>1, <1>2, <1>3, TransactionReplica

LEMMA CheckStabilityReplica ==
    ASSUME Careful, Bounded, Sound, Replica, NEW e \in Engines, CheckStability(e) PROVE Replica'
<1>1. /\ pc[e] = "checking" /\ pc'[e] = "checked"
      /\ UNCHANGED <<rows, currentVersion, library, upload>>
      /\ \E stable : pull' = [pull EXCEPT ![e].stable = stable]
  BY StateFacts DEF CheckStability
<1>2. pc[e] \in PullPhases /\ pc'[e] \in PullPhases
  BY <1>1 DEF PullPhases
<1>3. /\ pull'[e].since = pull[e].since /\ pull'[e].waiting = pull[e].waiting
      /\ pull'[e].listed = pull[e].listed /\ pull'[e].deleted = pull[e].deleted
      /\ pull'[e].objects = pull[e].objects /\ pull'[e].version = pull[e].version
  BY <1>1, <1>2, PullingFacts DEF Pulls
<1>4. ASSUME NEW k \in Keys PROVE ObjectPulled(e, k)'
  <2>1. ObjectPulled(e, k)
    BY <1>2, PullingFacts
  <2>2. ListOf(k)' = ListOf(k) /\ (pc'[e] \in TakenIn(k)' => pc[e] \in TakenIn(k))
        /\ UpToDate(k)' = UpToDate(k)
    BY <1>1 DEF ListOf, TakenIn, UpToDate
  <2> QED BY <1>1, <1>3, <2>1, <2>2 DEF ObjectPulled
<1>5. PullKept(e)'
  BY <1>1, <1>2, <1>3, <1>4, PullingFacts DEF PullKept, Listing
<1> QED BY <1>1, <1>2, <1>5, PullStepReplica

(* The version committed promises what the pull has taken in. *)
LEMMA CommitReplica ==
    ASSUME Careful, Bounded, Sound, Replica, NEW e \in Engines, Commit(e) PROVE Replica'
<1>1. /\ pc[e] = "checked" /\ currentVersion' = pull[e].version
      /\ UNCHANGED <<rows, library>> /\ run[e].after \in AfterPull
  BY StateFacts DEF Commit, Runs
<1>2. pc[e] \in PullPhases /\ \A k \in Keys : pc[e] \in TakenIn(k)
  BY <1>1 DEF PullPhases, TakenIn
<1>3. /\ currentVersion \in Nat /\ pull[e].version \in Nat
      /\ currentVersion <= pull[e].version
  <2>1. pull[e].waiting = {} /\ {} # Lists
    BY <1>1, <1>2, PullingFacts DEF PullKept, Lists
  <2> QED BY <1>2, <2>1, PullingFacts DEF PullKept
<1>4. ASSUME NEW k \in Keys
      PROVE  /\ RowKept(rows[k]) /\ ObjectKept(library.objects[k])'
             /\ library.objects[k].version <= pull[e].version => UpToDate(k)'
  <2>1. /\ ObjectPulled(e, k) /\ ObjectKept(library.objects[k]) /\ RowKept(rows[k])
        /\ library.objects[k] \in Objects
    BY <1>2, PullingFacts
  <2>2. library.objects[k].version <= currentVersion => UpToDate(k)
    BY DEF Replica, Promise
  <2>3. UpToDate(k)' = UpToDate(k)
    BY <1>1 DEF UpToDate
  <2>4. ObjectKept(library.objects[k])'
    BY <1>1, <1>3, <2>1 DEF ObjectKept, Objects
  <2> QED BY <1>2, <1>3, <2>1, <2>2, <2>3, <2>4 DEF ObjectPulled, Objects
<1>5. RowsKept' /\ LibraryKept' /\ Promise'
  BY <1>1, <1>4 DEF RowsKept, LibraryKept, Promise
<1>6. Finish(e) \/ \E attempt, after : BeginUpload(e, currentVersion', attempt, after)
  BY <1>1 DEF Commit, AfterPull
<1> QED BY <1>5, <1>6, JobEndsReplica

LEMMA FetchAgainReplica ==
    ASSUME Careful, Bounded, Sound, Replica, NEW e \in Engines, FetchAgain(e) PROVE Replica'
<1>1. pc[e] = "checked" /\ UNCHANGED <<rows, currentVersion, library>>
  BY DEF FetchAgain
<1>2. CASE Finish(e)
  BY <1>1, <1>2, HoldingsKept, JobEndsReplica
<1>3. CASE ~Finish(e)
  <2>1. /\ pc'[e] = "fetching" /\ UNCHANGED upload
        /\ \E try : pull'[e] = PullStarted(pull[e].since, try)
    BY <1>3, StateFacts DEF FetchAgain
  <2>2. pc[e] \in PullPhases /\ pc'[e] \in PullPhases
    BY <1>1, <2>1 DEF PullPhases
  <2>3. PullKept(e)'
    BY <1>1, <2>1, <2>2, PullingFacts, PullStartedKept
  <2> QED BY <1>1, <2>1, <2>2, <2>3, PullStepReplica
<1> QED BY <1>2, <1>3

LEMMA PullingReplica ==
    ASSUME Careful, Bounded, Sound, Replica, NEW e \in Engines, Pulling(e) PROVE Replica'
BY ReadListReplica, ReadObjectsReplica, FetchedReplica, IntegratedReplica,
   ApplyRemoteDeletionsReplica, CheckStabilityReplica, CommitReplica, FetchAgainReplica
   DEF Pulling

(***************************************************************************)
(* The theorems                                                            *)
(***************************************************************************)

LEMMA InitReplica == ASSUME Careful, Init PROVE Replica
<1>1. PICK order \in UploadOrders(Known) :
         /\ rows = [k \in Keys |-> IF k \in Known THEN Integrate(NoRow, order[k], InitialBody)
                                   ELSE NoRow]
         /\ library.objects = [k \in Keys |-> IF k \in Known
                                              THEN Stored(NoObject, order[k], InitialBody)
                                              ELSE NoObject]
  BY DEF Init
<1>2. InitialBody \in Body /\ Full(InitialBody) /\ Known \subseteq Keys
  BY SyncAssumption DEF Careful
<1>3. \A k \in Known : order[k] \in Nat /\ order[k] > 0
  <2>1. Cardinality(Known) \in Nat
    BY <1>2, LibraryAssumption, FS_Subset, FS_CardinalityType
  <2>2. order \in [Known -> 1 .. Cardinality(Known)]
    BY DEF UploadOrders
  <2> QED BY <2>1, <2>2
<1>4. ASSUME NEW k \in Keys
      PROVE  RowKept(rows[k]) /\ ObjectKept(library.objects[k]) /\ UpToDate(k)
  <2>1. NoRow \in Rows /\ RowKept(NoRow) /\ currentVersion \in Nat
    <3>1. NoRow \in Rows
      BY BlankIsBody DEF NoRow, Rows, NoConflict, Conflicts, SyncStates, RetryStates
    <3>2. currentVersion \in Nat
      BY <1>2, LibraryAssumption, FS_Subset, FS_CardinalityType DEF Init
    <3> QED BY <3>1, <3>2 DEF NoRow, NoConflict, RowKept, HasRow
  <2>2. CASE k \in Known
    <3> DEFINE object == Stored(NoObject, order[k], InitialBody)
    <3>1. rows[k] = Integrate(NoRow, order[k], InitialBody) /\ library.objects[k] = object
      BY <1>1, <2>2
    <3>2. /\ object.live /\ object.version = order[k] /\ object.body = InitialBody
          /\ object.deletedAt = 0
      BY DEF Stored, NoObject
    <3>3. ObjectKept(object)
      BY <1>2, <1>3, <2>1, <2>2, <3>2 DEF ObjectKept
    <3> HIDE DEF object
    <3> QED BY <1>2, <2>1, <3>1, <3>2, <3>3, IntegrateFollows DEF UpToDate
  <2>3. CASE k \notin Known
    <3>1. rows[k] = NoRow /\ library.objects[k] = NoObject
      BY <1>1, <2>3
    <3> QED BY <2>1, <3>1 DEF UpToDate, Follows, ObjectKept, NoRow, NoConflict, NoObject
  <2> QED BY <2>2, <2>3
<1>5. ASSUME NEW e \in Engines PROVE UploadKept(e) /\ PullKept(e)
  <2>1. pc[e] = "idle" /\ upload[e].todo = {} /\ upload[e].batch = {}
    BY DEF Init, NoUpload
  <2> QED BY <2>1 DEF UploadKept, UploadPhases, PullKept, PullPhases, OnItsWay
<1> QED BY <1>4, <1>5 DEF Replica, RowsKept, LibraryKept, Promise

LEMMA NextReplica ==
    ASSUME Careful
    PROVE  Replica /\ Sound /\ Bounded /\ [Next]_vars => Replica'
<1> SUFFICES ASSUME Replica, Sound, Bounded, [Next]_vars PROVE Replica'
  OBVIOUS
<1>1. CASE UNCHANGED vars
  BY <1>1, RowsStepReplica DEF vars, Replica, RowsKept, UpToDate
<1> QED BY <1>1, UserReplica, OtherClientsReplica, StartingReplica, UploadingReplica,
           PullingReplica, FaultsReplica DEF Next

(* With one engine and a careful user, what the store knows of the library *)
(* stays true: the inductive invariant of this module.                     *)
THEOREM AlwaysReplica ==
    ASSUME Careful
    PROVE  Spec => []Replica
<1>1. OneEngine /\ QuietUpload
  BY DEF Careful
<1>2. Spec => []Sound
  BY <1>1, AlwaysSound
<1> QED BY <1>2, InitReplica, NextReplica, AlwaysBounded, PTL DEF Spec

(* No change of the server's library up to the store's version is missing  *)
(* from the store, whatever uploads, pulls and faults came before.         *)
THEOREM NothingIsSkipped ==
    ASSUME Careful
    PROVE  Spec => []NothingSkipped
<1>1. Replica /\ Bounded => NothingSkipped
  <2> SUFFICES ASSUME Replica, Bounded, NEW k \in Keys
               PROVE  LET object == library.objects[k]
                      IN  IF object.live
                          THEN object.version <= currentVersion => Reflected(k)
                          ELSE object.deletedAt \in 1 .. currentVersion => DeletionReflected(k)
    BY DEF NothingSkipped
  <2>1. /\ RowKept(rows[k]) /\ ObjectKept(library.objects[k]) /\ library.objects[k] \in Objects
        /\ library.objects[k].version <= currentVersion => UpToDate(k)
        /\ currentVersion \in Nat
    BY StateFacts DEF Replica, RowsKept, LibraryKept, Promise
  <2> QED BY <2>1 DEF UpToDate, Follows, RowKept, ObjectKept, Reflected, DeletionReflected, Objects
<1> QED BY <1>1, AlwaysReplica, AlwaysBounded, PTL

(* A conflict shows the user what the server has, as far as it is pulled.  *)
THEOREM ConflictsShowTheServer ==
    ASSUME Careful
    PROVE  Spec => []ConflictsAreCurrent
<1>1. Replica /\ Bounded => ConflictsAreCurrent
  <2> SUFFICES ASSUME Replica, Bounded, NEW k \in Keys, rows[k].conflict.open
               PROVE  LET object == library.objects[k]
                      IN  IF object.live
                          THEN object.version <= currentVersion
                                  => rows[k].conflict.body = object.body
                          ELSE object.deletedAt <= currentVersion
                                  => rows[k].conflict.body = Null
    BY DEF ConflictsAreCurrent
  <2>1. /\ ObjectKept(library.objects[k]) /\ library.objects[k] \in Objects
        /\ library.objects[k].version <= currentVersion => UpToDate(k)
    BY StateFacts DEF Replica, LibraryKept, Promise
  <2> QED BY <2>1 DEF UpToDate, Follows, ObjectKept, Objects
<1> QED BY <1>1, AlwaysReplica, AlwaysBounded, PTL

(* Only the server's own step takes an upload from sending to answered. *)
LEMMA OnlyServerAnswers ==
    ASSUME OneEngine, Bounded, [Next]_vars, NEW e \in Engines,
           pc[e] = "posting", pc'[e] = "posted"
    PROVE  ServerWrites(e)
<1>1. pc \in [Engines -> Phases]
  BY StateFacts
<1>2. ~UNCHANGED vars /\ ~User /\ ~OtherClients
  BY DEF vars, User, Create, Edit, Delete, ResolveConflict, RetriesDue, UserActs,
         OtherClients, RemoteWrite, RemoteDelete, RemoteActs
<1>3. Uploading(e) \/ Faults(e)
  <2>1. ~Starting(e)
    BY DEF Starting, StartPull, StartSynchronize
  <2>2. ~Pulling(e)
    BY DEF Pulling, ReadList, ReadObjects, Fetched, IntegrateCollections, IntegrateItems,
           ApplyRemoteDeletions, CheckStability, Commit, FetchAgain
  <2> QED BY <1>2, <2>1, <2>2 DEF Next, OneEngine
<1>4. ~Faults(e)
  BY <1>1 DEF Faults, TransportFails, Stop, Resend, Answered, Finish
<1> QED BY <1>3, <1>4 DEF Uploading, Queue, Batch, ServerDeletes, ApplyWriteReport,
           MarkDeletionsUploaded, Rejected, Undecodable

(* What an upload replaces on the server is what its row was derived from, *)
(* although the server compares no collection's own version, and it        *)
(* creates nothing that was ever there: the library's version, which the   *)
(* server does compare, is the store's, and that promises all of it.       *)
THEOREM NothingIsOverwritten ==
    ASSUME Careful
    PROVE  Spec => NoBlindOverwrite
<1> DEFINE NotBlind(e, k) ==
              IF library.objects[k].live
              THEN upload[e].sent[k].pristine = library.objects[k].body
              ELSE library.objects[k].deletedAt = 0
           Step == \A e \in Engines, k \in Keys :
                      /\ pc[e] = "posting" /\ pc'[e] = "posted"
                      /\ upload'[e].answer.outcome[k] = "successful"
                      => NotBlind(e, k)
<1>1. Replica /\ Sound /\ Bounded /\ [Next]_vars => Step
  <2> SUFFICES ASSUME Replica, Sound, Bounded, [Next]_vars, NEW e \in Engines, NEW k \in Keys,
                      pc[e] = "posting", pc'[e] = "posted",
                      upload'[e].answer.outcome[k] = "successful"
               PROVE  NotBlind(e, k)
    OBVIOUS
  <2>1. ServerWrites(e)
    BY OnlyServerAnswers DEF Careful
  <2>2. PICK result :
          /\ Reports(library, upload[e].batch, upload[e].sent, upload[e].version, result)
          /\ upload' = [upload EXCEPT ![e].answer = result.answer]
    BY <2>1, ServerWritesReports
  <2>3. result.answer.outcome[k] = "successful"
    BY <2>2, StateFacts DEF Uploads
  <2>4. upload[e].version = library.version /\ k \in upload[e].batch
    BY <2>2, <2>3 DEF Reports, LeftAlone, WrittenAsSent
  <2>5. UpToDate(k)
    <3>1. library.objects[k].version <= currentVersion
      BY <2>4, StateFacts DEF Replica, UploadKept, UploadPhases
    <3> QED BY <3>1 DEF Replica, Promise
  <2>6. /\ HasRow(rows[k]) /\ ~rows[k].isDeleted /\ ~rows[k].conflict.open
        /\ upload[e].sent[k].pristine = rows[k].pristine
    BY <2>4, SentFacts DEF OnItsWay, Writing
  <2> QED BY <2>5, <2>6, StateFacts DEF UpToDate, Follows, Objects
<1>2. OneEngine /\ QuietUpload
  BY DEF Careful
<1>3. Spec => []Sound
  BY <1>2, AlwaysSound
<1> QED BY <1>1, <1>3, AlwaysReplica, AlwaysBounded, PTL DEF Spec, NoBlindOverwrite

(***************************************************************************)
(* What a deletion erases                                                  *)
(***************************************************************************)

UploadingPhases == UploadPhases \cup {"deleting", "deleted"}

(* An upload's requests carry the version the store has committed. *)
HeaderCommitted ==
    \A e \in Engines : pc[e] \in UploadingPhases => upload[e].version = currentVersion

(* What a deletion request takes away is no newer than its header: the     *)
(* server compares the versions of the requested items, and the version of *)
(* the library when collections are deleted.                               *)
LEMMA ErasedIsKnown ==
    ASSUME NEW lib, NEW keys, NEW header \in Nat, NEW k \in keys \cap Keys,
           lib.version \in Nat, lib.objects[k].version \in 0 .. lib.version,
           lib.objects[k].live,
           \/ ~DeleteItems(lib, keys, header).library.objects[k].live
           \/ ~DeleteCollections(lib, keys, header).library.objects[k].live
    PROVE  lib.objects[k].version <= header
<1>1. CASE ~DeleteItems(lib, keys, header).library.objects[k].live
  <2> DEFINE requested == {l \in keys : lib.objects[l].live}
  <2>1. k \in requested
    OBVIOUS
  <2>2. ~\E l \in requested : lib.objects[l].version > header
    BY <1>1, <2>1 DEF DeleteItems
  <2> QED BY <2>1, <2>2
<1>2. CASE ~DeleteCollections(lib, keys, header).library.objects[k].live
  <2>1. k \in Subtree(lib, keys)
    BY DEF Subtree
  <2>2. header = lib.version
    BY <1>2, <2>1 DEF DeleteCollections
  <2> QED BY <2>2
<1> QED BY <1>1, <1>2

LEMMA UploadHeader ==
    ASSUME OneEngine, Bounded, HeaderCommitted, NEW e \in Engines,
           \/ Starting(e) \/ Uploading(e) \/ Pulling(e) \/ Faults(e)
    PROVE  HeaderCommitted'
<1>1. /\ pc \in [Engines -> Phases] /\ upload \in [Engines -> Uploads]
      /\ \A d \in Engines : d = e
  BY StateFacts DEF OneEngine
<1> SUFFICES ASSUME pc'[e] \in UploadingPhases PROVE upload'[e].version = currentVersion'
  BY <1>1 DEF HeaderCommitted
<1>2. pc[e] \in UploadingPhases => upload[e].version = currentVersion
  BY DEF HeaderCommitted
<1>3. ~Finish(e) /\ \A after : ~BeginPull(e, after)
  BY <1>1 DEF Finish, BeginPull, UploadingPhases, UploadPhases
<1>4. \A version, attempt, after :
         BeginUpload(e, version, attempt, after) => upload'[e].version = version
  BY <1>1 DEF BeginUpload, NoUpload
<1>5. CASE Starting(e)
  BY <1>3, <1>4, <1>5 DEF Starting, StartPull, StartSynchronize
<1>6. CASE Uploading(e)
  <2>1. CASE Queue(e)
    BY <1>1, <1>2, <1>3, <2>1 DEF Queue, NextStage, UploadingPhases, UploadPhases, Uploads
  <2>2. ASSUME NEW batch, Batch(e, batch) PROVE upload'[e].version = currentVersion'
    BY <1>1, <1>2, <2>2 DEF Batch, UploadingPhases, UploadPhases, Uploads
  <2>3. CASE ServerWrites(e) \/ ServerDeletes(e)
    BY <1>1, <1>2, <2>3 DEF ServerWrites, ServerDeletes, UploadingPhases, UploadPhases, Uploads
  <2>4. CASE ApplyWriteReport(e)
    BY <1>1, <2>4 DEF ApplyWriteReport, NoUpload, Uploads
  <2>5. CASE MarkDeletionsUploaded(e)
    BY <1>1, <2>5 DEF MarkDeletionsUploaded, NoUpload, Uploads
  <2>6. CASE Rejected(e) \/ Undecodable(e)
    BY <1>3, <2>6 DEF Rejected, PreconditionFailed, Undecodable
  <2> QED BY <1>6, <2>1, <2>2, <2>3, <2>4, <2>5, <2>6 DEF Uploading
<1>7. CASE Pulling(e)
  <2>1. Commit(e)
    <3>1. ASSUME NEW list, ReadList(e, list) PROVE FALSE
      BY <1>1, <3>1 DEF ReadList, UploadingPhases, UploadPhases
    <3>2. ASSUME NEW kind, ReadObjects(e, kind) PROVE FALSE
      BY <1>1, <3>2 DEF ReadObjects, UploadingPhases, UploadPhases
    <3>3. /\ ~Fetched(e) /\ ~IntegrateCollections(e) /\ ~IntegrateItems(e)
          /\ ~ApplyRemoteDeletions(e) /\ ~CheckStability(e)
      BY <1>1 DEF Fetched, IntegrateCollections, IntegrateItems, ApplyRemoteDeletions,
         CheckStability, UploadingPhases, UploadPhases
    <3>4. ~FetchAgain(e)
      <4>1. FetchAgain(e) => pc'[e] = "fetching" \/ Finish(e)
        BY <1>1 DEF FetchAgain
      <4> QED BY <1>3, <4>1 DEF UploadingPhases, UploadPhases
    <3> QED BY <1>7, <3>1, <3>2, <3>3, <3>4 DEF Pulling
  <2>2. currentVersion' = pull[e].version
    BY <2>1 DEF Commit
  <2>3. run[e].after \in {"done", "upload", "retry"}
    BY StateFacts DEF Runs, AfterPull
  <2>4. \/ Finish(e)
        \/ \E attempt, after : BeginUpload(e, pull[e].version, attempt, after)
    BY <2>1, <2>3 DEF Commit
  <2> QED BY <1>3, <1>4, <2>2, <2>4
<1>8. CASE Faults(e)
  BY <1>1, <1>2, <1>3, <1>8 DEF Faults, TransportFails, Stop, Resend, Answered,
     UploadingPhases, UploadPhases, Uploads
<1> QED BY <1>5, <1>6, <1>7, <1>8

LEMMA NextHeader ==
    ASSUME OneEngine
    PROVE  HeaderCommitted /\ Bounded /\ [Next]_vars => HeaderCommitted'
<1> SUFFICES ASSUME HeaderCommitted, Bounded, [Next]_vars PROVE HeaderCommitted'
  OBVIOUS
<1>1. CASE UNCHANGED vars
  BY <1>1 DEF vars, HeaderCommitted
<1>2. CASE User \/ OtherClients
  <2>1. UNCHANGED <<currentVersion, pc, upload>>
    BY <1>2 DEF User, Create, Edit, Delete, ResolveConflict, RetriesDue, UserActs,
       OtherClients, RemoteWrite, RemoteDelete, RemoteActs
  <2> QED BY <2>1 DEF HeaderCommitted
<1> QED BY <1>1, <1>2, UploadHeader DEF Next

(* Only the server's own step takes a deletion from sending to answered. *)
LEMMA OnlyServerDeletes ==
    ASSUME OneEngine, Bounded, [Next]_vars, NEW e \in Engines,
           pc[e] = "deleting", pc'[e] = "deleted"
    PROVE  ServerDeletes(e)
<1>1. pc \in [Engines -> Phases]
  BY StateFacts
<1>2. ~UNCHANGED vars /\ ~User /\ ~OtherClients
  BY DEF vars, User, Create, Edit, Delete, ResolveConflict, RetriesDue, UserActs,
         OtherClients, RemoteWrite, RemoteDelete, RemoteActs
<1>3. Uploading(e) \/ Faults(e)
  <2>1. ~Starting(e)
    BY DEF Starting, StartPull, StartSynchronize
  <2>2. ~Pulling(e)
    BY DEF Pulling, ReadList, ReadObjects, Fetched, IntegrateCollections, IntegrateItems,
           ApplyRemoteDeletions, CheckStability, Commit, FetchAgain
  <2> QED BY <1>2, <2>1, <2>2 DEF Next, OneEngine
<1>4. ~Faults(e)
  BY <1>1 DEF Faults, TransportFails, Stop, Resend, Answered, Finish
<1> QED BY <1>3, <1>4 DEF Uploading, Queue, Batch, ServerWrites, ApplyWriteReport,
           MarkDeletionsUploaded, Rejected, Undecodable

(* While nothing was skipped, a deletion erases only what the store has    *)
(* seen, whatever the user deletes and however writes, lists and faults    *)
(* meet: the header is the store's version, what the server erases is no   *)
(* newer, and up to that version nothing was skipped.                      *)
THEOREM NothingUnseenIsErased ==
    ASSUME OneEngine
    PROVE  Spec => NoBlindDelete
<1> DEFINE Seen(k) == library.objects[k].body \in {rows[k].pristine, rows[k].conflict.body}
           Step == NothingSkipped =>
                      \A e \in Engines : \A k \in upload[e].batch :
                         /\ pc[e] = "deleting" /\ pc'[e] = "deleted"
                         /\ library.objects[k].live /\ ~library'.objects[k].live
                         => Seen(k)
<1>1. HeaderCommitted /\ Bounded /\ [Next]_vars => Step
  <2> SUFFICES ASSUME HeaderCommitted, Bounded, [Next]_vars, NothingSkipped,
                      NEW e \in Engines, NEW k \in upload[e].batch,
                      pc[e] = "deleting", pc'[e] = "deleted",
                      library.objects[k].live, ~library'.objects[k].live
               PROVE  Seen(k)
    OBVIOUS
  <2>1. ServerDeletes(e)
    BY OnlyServerDeletes
  <2>2. upload[e] \in Uploads /\ k \in Keys
    BY StateFacts DEF Uploads
  <2>3. upload[e].version \in Nat
    BY <2>2 DEF Uploads
  <2>4. \/ ~DeleteItems(library, upload[e].batch, upload[e].version).library.objects[k].live
        \/ ~DeleteCollections(library, upload[e].batch, upload[e].version).library.objects[k].live
    BY <2>1 DEF ServerDeletes
  <2>5. library.objects[k].version <= upload[e].version
    BY <2>2, <2>3, <2>4, ErasedIsKnown, StateFacts
  <2>6. upload[e].version = currentVersion
    BY DEF HeaderCommitted, UploadingPhases
  <2>7. Reflected(k)
    BY <2>2, <2>5, <2>6 DEF NothingSkipped
  <2> QED BY <2>7 DEF Reflected
<1>2. Init => HeaderCommitted
  BY DEF Init, HeaderCommitted, UploadingPhases, UploadPhases
<1> QED BY <1>1, <1>2, NextHeader, AlwaysBounded, PTL DEF Spec, NoBlindDelete
=============================================================================
