-------------------------- MODULE LocalWorkProofs --------------------------
(***************************************************************************)
(* Proofs that one engine, on what the user leaves alone, strands no local *)
(* work and shows what is stored: NothingStranded and ShownAsStored of     *)
(* LibrarySync, for every set of keys and every bound.                     *)
(*                                                                         *)
(* Both follow from RowSound of every row.  An answer keeps a row sound    *)
(* only when the row still is what was sent, so the inductive invariant    *)
(* also says that of every object a job has queued or sent (Intact).  The  *)
(* two assumptions are what makes it inductive: another engine, or the     *)
(* user, could change a row that is on its way.                            *)
(*                                                                         *)
(* EditsKept, the action property, needs beside this that every body is    *)
(* whole (Whole): the server keeps a field that an upload does not name,   *)
(* so its answer brings a field back that was removed here.                *)
(***************************************************************************)
EXTENDS LibrarySyncProofs

OneEngine == \A e, f \in Engines : e = f

RowSound(row) ==
    /\ row.shown = IF HasRow(row) /\ ~row.isDeleted THEN row.current ELSE Null
    /\ row.state = "dirty" => ~row.isDeleted
    /\ row.state = "failed" => ~row.isDeleted \/ row.conflict.open
    /\ row.state = "deleted" => row.isDeleted

Sending == {"batching", "posting", "posted", "deleting", "deleted"}

OnItsWay(e) == upload[e].todo \cup upload[e].batch

(* What was read to be uploaded is still there, as it was read. *)
AsSent(e, k) ==
    IF upload[e].stage <= 2
    THEN /\ rows[k].state \in {"dirty", "failed"}
         /\ ~rows[k].isDeleted
         /\ rows[k].current = upload[e].sent[k].current
    ELSE rows[k].state = "deleted"

Intact(e) ==
    /\ pc[e] \notin Sending => OnItsWay(e) = {}
    /\ pc[e] \in {"deleting", "deleted"} => upload[e].stage > 2
    /\ upload[e].todo \cap upload[e].batch = {}
    /\ pc[e] = "posted" =>
          \A k \in Keys : upload[e].answer.outcome[k] # "none" => k \in upload[e].batch
    /\ \A k \in OnItsWay(e) : AsSent(e, k)

RowsSound == \A k \in Keys : RowSound(rows[k])

Sound == RowsSound /\ \A e \in Engines : Intact(e)

(***************************************************************************)
(* Transactions on one record                                              *)
(***************************************************************************)

(* The user's transactions make any record sound. *)
LEMMA UserKeepsSound ==
    ASSUME NEW row \in Rows, NEW body
    PROVE  /\ RowSound(StoreLocal(row, body))
           /\ RowSound(MarkLocalDeletion(row))
           /\ RowSound(ResolvedKeepRemote(row))
           /\ RowSound(ResolvedDelete(row))
BY DEF Rows, RowSound, HasRow, StoreLocal, MarkLocalDeletion, ResolvedKeepRemote, ResolvedDelete

LEMMA ResolveKeepsSound ==
    ASSUME NEW row \in Rows, NEW resolution \in Resolutions
    PROVE  RowSound(Resolve(row, resolution))
<1>1. RowSound(ResolvedKeepLocal(row))
  BY DEF Rows, RowSound, HasRow, ResolvedKeepLocal
<1> QED BY <1>1, UserKeepsSound DEF Resolve, Resolutions

(* The clock changes nothing that soundness or an upload looks at. *)
LEMMA RetryDueKeepsSound ==
    ASSUME NEW row \in Rows
    PROVE  /\ RowSound(row) => RowSound(RetryDue(row))
           /\ RetryDue(row).state = row.state
           /\ RetryDue(row).isDeleted = row.isDeleted
           /\ RetryDue(row).current = row.current
BY DEF Rows, RowSound, HasRow, RetryDue

LEMMA RecordConflictKeepsSound ==
    ASSUME NEW row \in Rows, RowSound(row), HasRow(row), NEW version, NEW body
    PROVE  RowSound(RecordConflict(row, version, body))
BY DEF Rows, RowSound, HasRow, RecordConflict

LEMMA PullKeepsSound ==
    ASSUME NEW row \in Rows, RowSound(row), NEW version, NEW body
    PROVE  /\ RowSound(Integrate(row, version, body))
           /\ RowSound(ApplyRemoteDeletion(row, version))
<1>1. RowSound([StoreSynced(row, version, body) EXCEPT !.shown = body])
  BY DEF Rows, RowSound, HasRow, StoreSynced
<1>2. ASSUME HasRow(row) PROVE RowSound(MergeRemote(row, version, body))
  <2> DEFINE merged == Merged(row.pristine, row.current, body)
             kept == [row EXCEPT !.state = "dirty", !.isDeleted = FALSE,
                                 !.version = version, !.current = merged,
                                 !.pristine = body, !.shown = merged,
                                 !.conflict = NoConflict]
  <2> HIDE DEF merged
  <2>1. RowSound(kept)
    BY DEF Rows, RowSound, HasRow
  <2> HIDE DEF kept
  <2> QED BY <1>2, <2>1, RecordConflictKeepsSound DEF MergeRemote, kept, merged
<1>3. RowSound(Integrate(row, version, body))
  BY <1>1, <1>2 DEF Integrate, HasRow
<1>4. RowSound([row EXCEPT !.state = "synced", !.isDeleted = TRUE,
                           !.version = version, !.shown = Null])
  BY DEF Rows, RowSound, HasRow
<1>5. RowSound(ApplyRemoteDeletion(row, version))
  BY <1>4, RecordConflictKeepsSound DEF ApplyRemoteDeletion, HasRow
<1> QED BY <1>3, <1>5

(* An answer keeps a record sound that still is what was sent. *)
LEMMA ReportKeepsSound ==
    ASSUME NEW row \in Rows, RowSound(row), row.state \in {"dirty", "failed"}, ~row.isDeleted,
           NEW sent, row.current = sent.current, NEW version, NEW body
    PROVE  /\ RowSound(WriteSucceeded(row, version, body))
           /\ RowSound(WriteUnchanged(row, sent))
           /\ RowSound(WriteFailed(row))
BY DEF Rows, RowSound, HasRow, WriteSucceeded, WriteUnchanged, WriteFailed, StoreSynced

LEMMA DeletionKeepsSound ==
    ASSUME NEW row \in Rows, RowSound(row), NEW version
    PROVE  /\ row.state = "deleted" => RowSound(DeletionUploaded(row, version))
           /\ RowSound(DeletionFailed(row))
BY DEF Rows, RowSound, HasRow, DeletionUploaded, DeletionFailed
(***************************************************************************)
(* Steps of the user and of other clients                                  *)
(***************************************************************************)

LEMMA TypeFacts ==
    ASSUME TypeOK
    PROVE  /\ \A k \in Keys : rows[k] \in Rows
           /\ \A e \in Engines :
                 /\ pc[e] \in Phases /\ upload[e] \in Uploads
                 /\ upload[e].stage \in 1 .. 4
                 /\ upload[e].todo \subseteq Keys /\ upload[e].batch \subseteq Keys
BY DEF TypeOK, Uploads, Stages

(* Rows change that no upload is under way with. *)
LEMMA RowsStepSound ==
    ASSUME Sound, TypeOK, UNCHANGED <<pc, upload>>, RowsSound',
           \A e \in Engines : \A k \in OnItsWay(e) :
              /\ rows'[k].state = rows[k].state /\ rows'[k].isDeleted = rows[k].isDeleted
              /\ rows'[k].current = rows[k].current
    PROVE  Sound'
<1>1. ASSUME NEW e \in Engines PROVE Intact(e)'
  <2>1. Intact(e) /\ OnItsWay(e)' = OnItsWay(e)
    BY DEF Sound, OnItsWay
  <2>2. ASSUME NEW k \in OnItsWay(e) PROVE AsSent(e, k)'
    BY <2>1 DEF Intact, AsSent
  <2> QED BY <2>1, <2>2 DEF Intact
<1> QED BY <1>1 DEF Sound

LEMMA UserStepSound ==
    ASSUME Sound, TypeOK, QuietUpload, NEW keys, UserActs(keys),
           \A k \in Keys : /\ k \in keys => RowSound(rows'[k])
                           /\ k \notin keys => rows'[k] = rows[k]
    PROVE  Sound'
<1>1. ASSUME NEW e \in Engines, NEW k \in OnItsWay(e) PROVE rows'[k] = rows[k]
  <2>1. k \in Keys /\ InFlight(k)
    BY TypeFacts DEF InFlight, OnItsWay
  <2> QED BY <2>1 DEF UserActs
<1>2. RowsSound'
  BY DEF Sound, RowsSound
<1> QED BY <1>1, <1>2, RowsStepSound DEF UserActs

LEMMA UserSound == ASSUME Sound, TypeOK, QuietUpload, User PROVE Sound'
<1>1. rows \in [Keys -> Rows]
  BY DEF TypeOK
<1>2. ASSUME NEW k \in Keys, NEW body \in Bodies, Create(k, body) \/ Edit(k, body)
      PROVE  Sound'
  <2>1. rows' = [rows EXCEPT ![k] = StoreLocal(rows[k], body)] /\ UserActs({k})
    BY <1>2 DEF Create, Edit
  <2>2. RowSound(StoreLocal(rows[k], body))
    BY <1>1, UserKeepsSound
  <2>3. \A l \in Keys : /\ l \in {k} => RowSound(rows'[l])
                        /\ l \notin {k} => rows'[l] = rows[l]
    BY <1>1, <2>1, <2>2
  <2> QED BY <2>1, <2>3, UserStepSound
<1>3. ASSUME NEW k \in Keys, Delete(k) PROVE Sound'
  <2>1. \A l \in Keys : RowSound(MarkLocalDeletion(rows[l]))
    BY <1>1, UserKeepsSound
  <2>2. \A l \in Keys : /\ l \in DeletedWith(k) => RowSound(rows'[l])
                        /\ l \notin DeletedWith(k) => rows'[l] = rows[l]
    BY <1>3, <2>1 DEF Delete
  <2> QED BY <1>3, <2>2, UserStepSound DEF Delete
<1>4. ASSUME NEW k \in Keys, RetriesDue(k) PROVE Sound'
  <2>1. rows' = [rows EXCEPT ![k] = RetryDue(rows[k])] /\ UNCHANGED <<pc, upload>>
    BY <1>4 DEF RetriesDue
  <2>2. ASSUME NEW l \in Keys
        PROVE  /\ RowSound(rows'[l])
               /\ rows'[l].state = rows[l].state /\ rows'[l].isDeleted = rows[l].isDeleted
               /\ rows'[l].current = rows[l].current
    <3>1. CASE l = k
      BY <1>1, <2>1, <3>1, RetryDueKeepsSound DEF Sound, RowsSound
    <3>2. CASE l # k
      BY <1>1, <2>1, <3>2 DEF Sound, RowsSound
    <3> QED BY <3>1, <3>2
  <2>3. \A e \in Engines : OnItsWay(e) \subseteq Keys
    BY TypeFacts DEF OnItsWay
  <2> QED BY <2>1, <2>2, <2>3, RowsStepSound DEF RowsSound
<1>5. ASSUME NEW k \in Keys, NEW resolution \in Resolutions, ResolveConflict(k, resolution)
      PROVE  Sound'
  <2>1. rows' = [rows EXCEPT ![k] = Resolve(rows[k], resolution)] /\ UserActs({k})
    BY <1>5 DEF ResolveConflict
  <2>2. RowSound(Resolve(rows[k], resolution))
    BY <1>1, ResolveKeepsSound
  <2>3. \A l \in Keys : /\ l \in {k} => RowSound(rows'[l])
                        /\ l \notin {k} => rows'[l] = rows[l]
    BY <1>1, <2>1, <2>2
  <2> QED BY <2>1, <2>3, UserStepSound
<1> QED BY <1>2, <1>3, <1>4, <1>5 DEF User

LEMMA OtherClientsSound == ASSUME Sound, TypeOK, OtherClients PROVE Sound'
<1>1. UNCHANGED <<rows, pc, upload>>
  BY DEF OtherClients, RemoteActs, RemoteWrite, RemoteDelete
<1> QED BY <1>1, RowsStepSound DEF Sound, RowsSound

(***************************************************************************)
(* Steps of the engine                                                     *)
(***************************************************************************)

(* With one engine, what it does not have on its way nobody has. *)
LEMMA EmptiedSound ==
    ASSUME OneEngine, NEW e \in Engines, RowsSound',
           upload'[e].todo = {}, upload'[e].batch = {}, pc'[e] \notin Sending
    PROVE  Sound'
<1>1. Intact(e)'
  BY DEF Intact, OnItsWay, Sending
<1> QED BY <1>1 DEF OneEngine, Sound

LEMMA JobEndsSound ==
    ASSUME OneEngine, TypeOK, NEW e \in Engines, RowsSound',
           \/ Finish(e)
           \/ \E after : BeginPull(e, after)
           \/ \E version, attempt, after : BeginUpload(e, version, attempt, after)
    PROVE  Sound'
<1>1. /\ pc \in [Engines -> Phases] /\ upload \in [Engines -> Uploads]
      /\ {"idle", "fetching", "queueing"} \cap Sending = {}
  BY DEF TypeOK, Sending
<1>2. pc'[e] \in {"idle", "fetching", "queueing"}
  BY <1>1 DEF Finish, BeginPull, BeginUpload
<1>3. upload'[e].todo = {} /\ upload'[e].batch = {}
  BY <1>1 DEF Finish, BeginPull, BeginUpload, NoUpload
<1> QED BY <1>1, <1>2, <1>3, EmptiedSound

LEMMA StartingSound ==
    ASSUME OneEngine, Sound, TypeOK, NEW e \in Engines, Starting(e)
    PROVE  Sound'
<1>1. RowsSound'
  BY DEF Starting, StartPull, StartSynchronize, Sound, RowsSound
<1> QED BY <1>1, JobEndsSound DEF Starting, StartPull, StartSynchronize

LEMMA QueueSound ==
    ASSUME OneEngine, Sound, TypeOK, NEW e \in Engines, Queue(e)
    PROVE  Sound'
<1> DEFINE keys == StageKeys(upload[e].stage)
           todo == IF upload[e].stage <= 2
                   THEN {k \in keys : PendingUpload(rows[k])}
                   ELSE {k \in keys : PendingDeletion(rows[k])}
           sent == [k \in Keys |-> IF k \in todo THEN rows[k] ELSE NoRow]
<1>1. /\ pc[e] = "queueing" /\ OnItsWay(e) = {} /\ RowsSound' /\ UNCHANGED rows
      /\ pc \in [Engines -> Phases] /\ upload \in [Engines -> Uploads]
  BY DEF Queue, Sound, RowsSound, Intact, Sending, TypeOK
<1>2. CASE todo = {}
  <2>1. NextStage(e)
    BY <1>2 DEF Queue
  <2>2. CASE upload[e].stage < 4
    <3>1. /\ pc'[e] = "queueing"
          /\ upload'[e].todo = upload[e].todo /\ upload'[e].batch = upload[e].batch
      BY <1>1, <2>1, <2>2 DEF NextStage, Uploads
    <3> QED BY <1>1, <3>1, EmptiedSound DEF OnItsWay, Sending
  <2>3. CASE ~(upload[e].stage < 4)
    BY <1>1, <2>1, <2>3, JobEndsSound DEF NextStage
  <2> QED BY <2>2, <2>3
<1>3. CASE todo # {}
  <2>1. todo \subseteq Keys
    BY DEF StageKeys, Keys
  <2>2. \A k \in todo : sent[k] = rows[k]
    BY <2>1
  <2>3. \A k \in todo : IF upload[e].stage <= 2
                        THEN /\ rows[k].state \in {"dirty", "failed"} /\ ~rows[k].isDeleted
                        ELSE rows[k].state = "deleted"
    BY DEF PendingUpload, PendingDeletion
  <2>4. /\ upload' = [upload EXCEPT ![e].todo = todo, ![e].sent = sent]
        /\ pc' = [pc EXCEPT ![e] = "batching"]
    BY <1>3 DEF Queue
  <2> HIDE DEF todo, sent
  <2>5. /\ upload'[e].todo = todo /\ upload'[e].sent = sent
        /\ upload'[e].batch = upload[e].batch /\ upload'[e].stage = upload[e].stage
        /\ pc'[e] = "batching"
    BY <1>1, <2>4 DEF Uploads
  <2>6. Intact(e)'
    BY <1>1, <2>2, <2>3, <2>5 DEF Intact, OnItsWay, AsSent, Sending
  <2> QED BY <1>1, <2>6 DEF OneEngine, Sound
<1> QED BY <1>2, <1>3

LEMMA BatchSound ==
    ASSUME OneEngine, Sound, TypeOK, NEW e \in Engines,
           NEW batch \in SUBSET upload[e].todo, Batch(e, batch)
    PROVE  Sound'
<1> DEFINE rest == IF upload[e].stage <= 2 THEN upload[e].todo \ batch ELSE {}
<1>1. /\ upload' = [upload EXCEPT ![e].batch = batch, ![e].todo = rest]
      /\ pc' = [pc EXCEPT ![e] = IF upload[e].stage <= 2 THEN "posting" ELSE "deleting"]
      /\ UNCHANGED rows
      /\ pc \in [Engines -> Phases] /\ upload \in [Engines -> Uploads]
  BY DEF Batch, TypeOK
<1>2. rest \cap batch = {} /\ rest \cup batch \subseteq OnItsWay(e)
  BY DEF OnItsWay
<1> HIDE DEF rest
<1>3. /\ upload'[e].todo = rest /\ upload'[e].batch = batch
      /\ upload'[e].sent = upload[e].sent /\ upload'[e].stage = upload[e].stage
      /\ pc'[e] = IF upload[e].stage <= 2 THEN "posting" ELSE "deleting"
  BY <1>1 DEF Uploads
<1>4. upload[e].stage \in 1 .. 4
  BY TypeFacts
<1>5. Intact(e)'
  BY <1>1, <1>2, <1>3, <1>4 DEF Sound, Intact, OnItsWay, AsSent, Sending
<1> QED BY <1>1, <1>5 DEF OneEngine, Sound, RowsSound

(* The server reports on nothing but the batch. *)
LEMMA OnlyTheBatchReported ==
    ASSUME NEW lib, NEW batch, NEW order, NEW sent, NEW header, NEW k \in Keys, k \notin batch
    PROVE  /\ UploadItems(lib, batch, order, sent, header).answer.outcome[k] = "none"
           /\ UploadCollections(lib, batch, order, sent, header).answer.outcome[k] = "none"
<1>1. \A bodies, failed, same, written :
         failed \subseteq batch /\ same \subseteq batch /\ written \subseteq batch =>
            LET result == WriteBatch(lib, order, bodies, failed, same, written)
            IN  /\ result.answer.outcome[k] = "none"
                /\ WithLinksBack(result, written).answer.outcome[k] = "none"
  BY DEF WriteBatch, WithLinksBack
<1>2. \A status, version : Answer(status, version).outcome[k] = "none"
  BY DEF Answer
<1>3. UploadItems(lib, batch, order, sent, header).answer.outcome[k] = "none"
  <2> DEFINE object(l)  == lib.objects[l]
             bodies     == [l \in batch |-> Patched(object(l), sent[l].current)]
             invalid(l) == \/ ~VersionAccepted(lib, l, sent[l].version)
                           \/ bodies[l] \in Refused
             orphan(l)  == /\ Parent[l] # NoKey
                           /\ IF Parent[l] \in batch THEN invalid(Parent[l])
                                                     ELSE ~object(Parent[l]).live
             failed     == {l \in batch : invalid(l) \/ orphan(l)}
             same       == {l \in batch \ failed : object(l).live /\ bodies[l] = object(l).body}
             written    == batch \ (failed \cup same)
             homeless   == \E l \in written : Home[l] # NoKey /\ ~object(Home[l]).live
  <2>1. failed \subseteq batch /\ same \subseteq batch /\ written \subseteq batch
    OBVIOUS
  <2>2. UploadItems(lib, batch, order, sent, header).answer =
          CASE header # lib.version -> Answer("precondition", lib.version)
            [] header = lib.version /\ homeless -> Answer("malformed", lib.version)
            [] OTHER ->
                 WithLinksBack(WriteBatch(lib, order, bodies, failed, same, written),
                               written).answer
    BY DEF UploadItems
  <2> HIDE DEF bodies, failed, same, written, homeless
  <2> QED BY <1>1, <1>2, <2>1, <2>2
<1>4. UploadCollections(lib, batch, order, sent, header).answer.outcome[k] = "none"
  <2> DEFINE object(l) == lib.objects[l]
             bodies    == [l \in batch |-> Patched(object(l), sent[l].current)]
             orphan(l) == /\ Parent[l] # NoKey
                          /\ ~object(Parent[l]).live
                          /\ Parent[l] \notin batch \/ bodies[Parent[l]] \in Refused
             failed    == {l \in batch : bodies[l] \in Refused \/ orphan(l)}
             written   == batch \ failed
             same      == {l \in written : object(l).live /\ bodies[l] = object(l).body}
  <2>1. failed \subseteq batch /\ same \subseteq batch /\ written \subseteq batch
    OBVIOUS
  <2>2. UploadCollections(lib, batch, order, sent, header).answer =
          IF header # lib.version
          THEN Answer("precondition", lib.version)
          ELSE WriteBatch(lib, order, bodies, failed, same, written).answer
    BY DEF UploadCollections
  <2> HIDE DEF bodies, failed, same, written
  <2> QED BY <1>1, <1>2, <2>1, <2>2
<1> QED BY <1>3, <1>4

LEMMA ServedSound ==
    ASSUME OneEngine, Sound, TypeOK, NEW e \in Engines, ServerWrites(e) \/ ServerDeletes(e)
    PROVE  Sound'
<1>1. /\ UNCHANGED rows /\ pc \in [Engines -> Phases] /\ upload \in [Engines -> Uploads]
      /\ OnItsWay(e) \subseteq Keys /\ upload[e].batch \subseteq Keys
  BY TypeFacts DEF ServerWrites, ServerDeletes, TypeOK, OnItsWay
<1>2. ASSUME NEW answer, upload' = [upload EXCEPT ![e].answer = answer]
      PROVE  /\ upload'[e].todo = upload[e].todo /\ upload'[e].batch = upload[e].batch
             /\ upload'[e].sent = upload[e].sent /\ upload'[e].stage = upload[e].stage
             /\ upload'[e].answer = answer
  BY <1>1, <1>2 DEF Uploads
<1>3. CASE ServerWrites(e)
  <2>1. PICK answer :
          /\ upload' = [upload EXCEPT ![e].answer = answer]
          /\ \A k \in Keys : k \notin upload[e].batch => answer.outcome[k] = "none"
    <3>1. PICK order :
             LET result == IF upload[e].stage = 1
                           THEN UploadCollections(library, upload[e].batch, order,
                                                  upload[e].sent, upload[e].version)
                           ELSE UploadItems(library, upload[e].batch, order,
                                            upload[e].sent, upload[e].version)
             IN  upload' = [upload EXCEPT ![e].answer = result.answer]
      BY <1>3 DEF ServerWrites
    <3>2. CASE upload[e].stage = 1
      <4> DEFINE answer == UploadCollections(library, upload[e].batch, order,
                                            upload[e].sent, upload[e].version).answer
      <4>1. \A k \in Keys : k \notin upload[e].batch => answer.outcome[k] = "none"
        BY OnlyTheBatchReported
      <4>2. upload' = [upload EXCEPT ![e].answer = answer]
        BY <3>1, <3>2
      <4> HIDE DEF answer
      <4> QED BY <4>1, <4>2
    <3>3. CASE upload[e].stage # 1
      <4> DEFINE answer == UploadItems(library, upload[e].batch, order,
                                      upload[e].sent, upload[e].version).answer
      <4>1. \A k \in Keys : k \notin upload[e].batch => answer.outcome[k] = "none"
        BY OnlyTheBatchReported
      <4>2. upload' = [upload EXCEPT ![e].answer = answer]
        BY <3>1, <3>3
      <4> HIDE DEF answer
      <4> QED BY <4>1, <4>2
    <3> QED BY <3>2, <3>3
  <2>2. pc[e] = "posting" /\ pc'[e] = "posted"
    BY <1>1, <1>3 DEF ServerWrites
  <2>3. Intact(e)'
    BY <1>1, <1>2, <2>1, <2>2 DEF Sound, Intact, OnItsWay, AsSent, Sending
  <2> QED BY <1>1, <2>3 DEF OneEngine, Sound, RowsSound
<1>4. CASE ServerDeletes(e)
  <2>1. PICK answer : upload' = [upload EXCEPT ![e].answer = answer]
    BY <1>4 DEF ServerDeletes
  <2>2. pc[e] = "deleting" /\ pc'[e] = "deleted"
    BY <1>1, <1>4 DEF ServerDeletes
  <2>3. Intact(e)'
    BY <1>1, <1>2, <2>1, <2>2 DEF Sound, Intact, OnItsWay, AsSent, Sending
  <2> QED BY <1>1, <2>3 DEF OneEngine, Sound, RowsSound
<1> QED BY <1>3, <1>4

(* The rows a write report names are as they were sent, so they stay       *)
(* sound; those of the later batches are not touched.                      *)
LEMMA ApplyWriteReportSound ==
    ASSUME OneEngine, Sound, Bounded, TypeOK, NEW e \in Engines, ApplyWriteReport(e)
    PROVE  Sound'
<1> DEFINE answer == upload[e].answer
<1>1. /\ pc[e] = "posted" /\ upload[e].stage <= 2
      /\ pc \in [Engines -> Phases] /\ upload \in [Engines -> Uploads]
      /\ \A k \in Keys : rows[k] \in Rows /\ answer.outcome[k] \in Outcomes
      /\ OnItsWay(e) \subseteq Keys
  <2>1. pc[e] = "posted" /\ upload[e].stage <= 2
    BY JobFacts DEF ApplyWriteReport, Writing
  <2>2. answer \in Answers
    BY TypeFacts DEF Uploads
  <2>3. \A k \in Keys : rows[k] \in Rows /\ answer.outcome[k] \in Outcomes
    BY <2>2, TypeFacts DEF Answers
  <2> QED BY <2>1, <2>3, TypeFacts DEF TypeOK, OnItsWay
<1>2. \A k \in Keys : rows'[k] = Reported(rows[k], upload[e].sent[k],
                                          answer.outcome[k], answer.objects[k])
  BY DEF ApplyWriteReport
<1>3. ASSUME NEW k \in Keys, k \notin upload[e].batch PROVE rows'[k] = rows[k]
  <2>1. answer.outcome[k] = "none"
    BY <1>1, <1>3 DEF Sound, Intact
  <2> QED BY <1>2, <2>1 DEF Reported
<1>4. ASSUME NEW k \in upload[e].batch PROVE RowSound(rows'[k])
  <2>1. k \in Keys /\ AsSent(e, k) /\ RowSound(rows[k])
    BY <1>1 DEF Sound, RowsSound, Intact, OnItsWay
  <2>2. /\ \A version, body : RowSound(WriteSucceeded(rows[k], version, body))
        /\ RowSound(WriteUnchanged(rows[k], upload[e].sent[k]))
        /\ RowSound(WriteFailed(rows[k]))
    BY <1>1, <2>1, ReportKeepsSound DEF AsSent
  <2> QED BY <1>1, <1>2, <2>1, <2>2 DEF Reported, Outcomes
<1>5. RowsSound'
  BY <1>3, <1>4 DEF Sound, RowsSound
<1>6. CASE upload[e].todo # {}
  <2>1. /\ upload'[e].todo = upload[e].todo /\ upload'[e].batch = {}
        /\ upload'[e].sent = upload[e].sent /\ upload'[e].stage = upload[e].stage
        /\ pc'[e] = "batching"
    BY <1>1, <1>6 DEF ApplyWriteReport, Uploads
  <2>2. \A k \in upload[e].todo : rows'[k] = rows[k] /\ AsSent(e, k)
    BY <1>1, <1>3 DEF Sound, Intact, OnItsWay
  <2>3. Intact(e)'
    BY <2>1, <2>2 DEF Intact, OnItsWay, AsSent, Sending
  <2> QED BY <1>5, <2>3 DEF OneEngine, Sound
<1>7. CASE upload[e].todo = {}
  <2>1. /\ upload'[e].todo = {} /\ upload'[e].batch = {} /\ pc'[e] = "queueing"
    BY <1>1, <1>7 DEF ApplyWriteReport, NoUpload
  <2> QED BY <1>5, <2>1, EmptiedSound DEF Sending
<1> QED BY <1>6, <1>7

LEMMA MarkDeletionsUploadedSound ==
    ASSUME OneEngine, Sound, TypeOK, NEW e \in Engines, MarkDeletionsUploaded(e)
    PROVE  Sound'
<1>1. /\ pc[e] = "deleted" /\ ~(upload[e].stage <= 2) /\ upload[e].batch \subseteq Keys
      /\ pc \in [Engines -> Phases] /\ upload \in [Engines -> Uploads]
  BY TypeFacts DEF MarkDeletionsUploaded, TypeOK, Sound, Intact
<1>2. ASSUME NEW k \in Keys PROVE RowSound(rows'[k])
  <2>1. rows[k] \in Rows /\ RowSound(rows[k])
    BY TypeFacts DEF Sound, RowsSound
  <2>2. k \in upload[e].batch => rows[k].state = "deleted"
    BY <1>1 DEF Sound, Intact, OnItsWay, AsSent
  <2> QED BY <2>1, <2>2, DeletionKeepsSound DEF MarkDeletionsUploaded
<1>3. upload'[e].todo = {} /\ upload'[e].batch = {} /\ pc'[e] = "queueing"
  BY <1>1 DEF MarkDeletionsUploaded, NoUpload
<1> QED BY <1>2, <1>3, EmptiedSound DEF RowsSound, Sending

LEMMA UploadingSound ==
    ASSUME OneEngine, Sound, Bounded, TypeOK, NEW e \in Engines, Uploading(e)
    PROVE  Sound'
<1>1. CASE Rejected(e) \/ Undecodable(e)
  <2>1. RowsSound'
    BY <1>1 DEF Rejected, Undecodable, Sound, RowsSound
  <2> QED BY <1>1, <2>1, JobEndsSound DEF Rejected, Undecodable, PreconditionFailed
<1> QED BY <1>1, QueueSound, BatchSound, ServedSound, ApplyWriteReportSound,
           MarkDeletionsUploadedSound DEF Uploading

(* A pull has nothing on its way: it may change any row. *)
LEMMA PullingSound ==
    ASSUME OneEngine, Sound, TypeOK, NEW e \in Engines, Pulling(e)
    PROVE  Sound'
<1>1. /\ pc \in [Engines -> Phases] /\ pc[e] \notin Sending
      /\ upload[e].todo = {} /\ upload[e].batch = {}
  <2>1. pc[e] \in {"fetching", "collections", "items", "deletions", "checking", "checked"}
    BY DEF Pulling, ReadList, ReadObjects, Fetched, IntegrateCollections, IntegrateItems,
           ApplyRemoteDeletions, CheckStability, Commit, FetchAgain
  <2>2. pc[e] \notin Sending
    BY <2>1 DEF Sending
  <2> QED BY <2>2 DEF TypeOK, Sound, Intact, OnItsWay
<1>2. RowsSound'
  <2>1. ASSUME NEW k \in Keys PROVE RowSound(rows'[k])
    <3>1. rows[k] \in Rows /\ RowSound(rows[k])
      BY TypeFacts DEF Sound, RowsSound
    <3>2. \/ rows'[k] = rows[k]
          \/ \E version, body : \/ rows'[k] = Integrate(rows[k], version, body)
                                \/ rows'[k] = ApplyRemoteDeletion(rows[k], version)
      <4>1. CASE IntegrateCollections(e) \/ IntegrateItems(e)
        BY <4>1 DEF IntegrateCollections, IntegrateItems, Integrated
      <4>2. CASE ApplyRemoteDeletions(e)
        BY <4>2 DEF ApplyRemoteDeletions
      <4>3. CASE ~(IntegrateCollections(e) \/ IntegrateItems(e) \/ ApplyRemoteDeletions(e))
        BY <4>3 DEF Pulling, ReadList, ReadObjects, Fetched, CheckStability, Commit, FetchAgain
      <4> QED BY <4>1, <4>2, <4>3
    <3> QED BY <3>1, <3>2, PullKeepsSound
  <2> QED BY <2>1 DEF RowsSound
<1>3. CASE Commit(e)
  <2>1. run[e].after \in AfterPull
    BY DEF TypeOK, Runs
  <2>2. Finish(e) \/ \E version, attempt, after : BeginUpload(e, version, attempt, after)
    BY <1>3, <2>1 DEF Commit, AfterPull
  <2> QED BY <1>2, <2>2, JobEndsSound
<1>4. CASE FetchAgain(e) /\ Finish(e)
  BY <1>2, <1>4, JobEndsSound
<1>5. CASE ~Commit(e) /\ ~(FetchAgain(e) /\ Finish(e))
  <2>1. UNCHANGED upload
    BY <1>5 DEF Pulling, ReadList, ReadObjects, Fetched, IntegrateCollections,
           IntegrateItems, ApplyRemoteDeletions, CheckStability, FetchAgain
  <2>2. pc'[e] \in {"fetching", "collections", "items", "deletions", "checking", "checked"}
    <3>1. CASE FetchAgain(e)
      BY <1>1, <1>5, <3>1 DEF FetchAgain
    <3>2. CASE ~FetchAgain(e)
      BY <1>1, <1>5, <3>2 DEF Pulling, ReadList, ReadObjects, Fetched, IntegrateCollections,
             IntegrateItems, ApplyRemoteDeletions, CheckStability
    <3> QED BY <3>1, <3>2
  <2> QED BY <1>1, <1>2, <2>1, <2>2, EmptiedSound DEF Sending
<1> QED BY <1>3, <1>4, <1>5

LEMMA FaultsSound ==
    ASSUME OneEngine, Sound, TypeOK, NEW e \in Engines, Faults(e)
    PROVE  Sound'
<1>1. /\ pc \in [Engines -> Phases] /\ upload \in [Engines -> Uploads]
      /\ upload[e].stage \in 1 .. 4
  BY TypeFacts DEF TypeOK
<1>2. CASE TransportFails(e)
  <2>1. ASSUME NEW k \in Keys PROVE RowSound(rows'[k])
    <3>1. rows[k] \in Rows /\ RowSound(rows[k])
      BY TypeFacts DEF Sound, RowsSound
    <3>2. CASE k \notin upload[e].batch
      BY <1>2, <3>1, <3>2 DEF TransportFails
    <3>3. CASE k \in upload[e].batch /\ upload[e].stage <= 2
      <4>1. AsSent(e, k)
        BY <3>3 DEF Sound, Intact, OnItsWay
      <4>2. RowSound(WriteFailed(rows[k]))
        BY <3>1, <3>3, <4>1, ReportKeepsSound DEF AsSent
      <4> QED BY <1>1, <1>2, <3>3, <4>2 DEF TransportFails
    <3>4. CASE k \in upload[e].batch /\ upload[e].stage > 2
      <4>1. rows'[k] = DeletionFailed(rows[k])
        BY <1>1, <1>2, <3>4 DEF TransportFails
      <4> QED BY <3>1, <4>1, DeletionKeepsSound
    <3> QED BY <1>1, <3>2, <3>3, <3>4
  <2>2. Finish(e)
    BY <1>2 DEF TransportFails
  <2> QED BY <2>1, <2>2, JobEndsSound DEF RowsSound
<1>3. CASE Stop(e)
  BY <1>3, JobEndsSound DEF Stop, Sound, RowsSound
<1>4. CASE Resend(e)
  <2>1. /\ upload'[e].todo = upload[e].todo /\ upload'[e].batch = upload[e].batch
        /\ upload'[e].sent = upload[e].sent /\ upload'[e].stage = upload[e].stage
        /\ pc[e] \in {"posted", "deleted"} /\ UNCHANGED rows
        /\ pc'[e] = IF pc[e] = "posted" THEN "posting" ELSE "deleting"
    BY <1>1, <1>4 DEF Resend, Answered, Uploads
  <2>2. Intact(e)'
    BY <2>1 DEF Sound, Intact, OnItsWay, AsSent, Sending
  <2> QED BY <2>1, <2>2 DEF OneEngine, Sound, RowsSound
<1> QED BY <1>2, <1>3, <1>4 DEF Faults

(***************************************************************************)
(* What an upload makes of the library                                     *)
(***************************************************************************)

(* The user writes whole bodies: what a body lacks is kept by the server   *)
(* but not by the store.                                                   *)
Full(body) == \A f \in Fields : body[f] # Absent

(* A batch goes up in an order, and related items are written in one.      *)
LEMMA OrdersNumber ==
    ASSUME NEW batch \in SUBSET Keys, NEW order \in UploadOrders(batch), NEW k \in batch
    PROVE  order[k] \in Nat
<1>1. Cardinality(batch) \in Nat /\ order[k] \in 1 .. Cardinality(batch)
  BY LibraryAssumption, FS_Subset, FS_CardinalityType DEF UploadOrders
<1> QED BY <1>1

LEMMA ListedNumbers ==
    ASSUME NEW keys \in SUBSET Keys, NEW k \in keys
    PROVE  Listed(keys)[k] \in Nat
<1> DEFINE n == Cardinality(keys)
<1>1. n \in Nat /\ ExistsBijection(1 .. n, keys)
  BY LibraryAssumption, FS_Subset, FS_CardinalityType
<1> HIDE DEF n
<1>2. PICK f \in [1 .. n -> keys] : \A l \in keys : \E m \in 1 .. n : f[m] = l
  BY <1>1 DEF ExistsBijection, Bijection, Surjection
<1> DEFINE order == [l \in keys |-> CHOOSE m \in 1 .. n : f[m] = l]
<1>3. \A l \in keys : order[l] \in 1 .. n /\ f[order[l]] = l
  BY <1>2
<1>4. order \in [keys -> 1 .. n]
  BY <1>3
<1>5. \A l, m \in keys : order[l] = order[m] => l = m
  <2> HIDE DEF order
  <2> QED BY <1>3
<1> HIDE DEF order
<1>6. Listed(keys) \in [keys -> 1 .. n]
  BY <1>4, <1>5 DEF Listed, n
<1> QED BY <1>1, <1>6

LEMMA RankPositive ==
    ASSUME NEW written \in SUBSET Keys, NEW order, NEW k \in written, order[k] \in Nat
    PROVE  Rank(order, written, k) \in Nat /\ Rank(order, written, k) > 0
<1> DEFINE ranked == {l \in written : order[l] <= order[k]}
<1>1. IsFiniteSet(ranked)
  BY LibraryAssumption, FS_Subset
<1>2. k \in ranked
  OBVIOUS
<1> HIDE DEF ranked
<1>3. Cardinality(ranked) \in Nat /\ Cardinality(ranked) # 0
  BY <1>1, <1>2, FS_CardinalityType, FS_EmptySet
<1> QED BY <1>3 DEF Rank, ranked

(* An item stays as it is, or is given a relation in return later.         *)
MaybeLinked(v, object, new) ==
    \/ new = object
    \/ /\ object.live
       /\ \E version \in Nat :
             version > v /\ new = Stored(object, version, Linked[object.body])

LEMMA LinkBackLinks ==
    ASSUME NEW v \in Nat, NEW lib \in LibrariesTo(v), NEW written \in SUBSET Keys, NEW k \in Keys
    PROVE  MaybeLinked(v, lib.objects[k], LinkBack(lib, written).objects[k])
<1> DEFINE targets == {l \in UNION {Related[m] : m \in written} : lib.objects[l].live}
           rank == Rank(Listed(targets), targets, k)
<1>1. lib.version = v /\ targets \in SUBSET Keys
  BY LibraryAssumption DEF LibrariesTo, Keys
<1>2. LinkBack(lib, written).objects[k] =
        IF k \in targets
        THEN Stored(lib.objects[k], v + rank, Linked[lib.objects[k].body])
        ELSE lib.objects[k]
  BY <1>1 DEF LinkBack
<1>3. k \in targets => lib.objects[k].live
  OBVIOUS
<1> HIDE DEF targets
<1>4. k \in targets => rank \in Nat /\ rank > 0
  BY <1>1, ListedNumbers, RankPositive
<1> HIDE DEF rank
<1>5. k \in targets => v + rank \in Nat /\ v + rank > v
  BY <1>4
<1> QED BY <1>2, <1>3, <1>5 DEF MaybeLinked

(* What an upload makes of an object: it leaves it alone, and calls it     *)
(* unchanged only if it is what was sent, or writes what was sent under a  *)
(* new version; then it may write either again as related.                 *)
LeftAlone(lib, sent, result, k) ==
    LET object == lib.objects[k]
    IN  /\ MaybeLinked(lib.version, object, result.library.objects[k])
        /\ result.answer.outcome[k] # "successful"
        /\ result.answer.outcome[k] = "unchanged" => object.live /\ object.body = sent[k].current

WrittenAsSent(lib, batch, sent, result, k) ==
    /\ k \in batch
    /\ \E version \in Nat :
          /\ version > lib.version
          /\ MaybeLinked(lib.version, Stored(lib.objects[k], version, sent[k].current),
                         result.library.objects[k])
    /\ result.answer.outcome[k] \in {"successful", "unchanged"}
    /\ result.answer.outcome[k] = "successful" => result.answer.objects[k].body = sent[k].current

Reports(lib, batch, sent, header, result) ==
    \/ /\ result.library = lib /\ result.answer.status # "report"
       /\ \A k \in Keys : result.answer.outcome[k] = "none"
    \/ /\ header = lib.version
       /\ result.answer.version \in Nat /\ lib.version <= result.answer.version
       /\ \A k \in Keys : \/ LeftAlone(lib, sent, result, k)
                          \/ WrittenAsSent(lib, batch, sent, result, k)

LEMMA WriteBatchReports ==
    ASSUME NEW v \in Nat, NEW lib \in LibrariesTo(v),
           NEW batch \in SUBSET Keys, NEW order \in UploadOrders(batch),
           NEW sent, NEW bodies, \A k \in batch : bodies[k] = sent[k].current,
           NEW failed, NEW same, NEW written \in SUBSET batch, written \cap failed = {},
           \A k \in same : lib.objects[k].live /\ bodies[k] = lib.objects[k].body /\ k \in batch,
           NEW result, result = WriteBatch(lib, order, bodies, failed, same, written),
           NEW linked, linked.version \in Nat, v <= linked.version,
           \A k \in Keys : MaybeLinked(v, result.library.objects[k], linked.objects[k])
    PROVE  Reports(lib, batch, sent, lib.version,
                   [library |-> linked,
                    answer  |-> [result.answer EXCEPT !.version = linked.version]])
<1> DEFINE new(k) == Stored(lib.objects[k], v + Rank(order, written, k), bodies[k])
           objects == [k \in Keys |-> IF k \in written THEN new(k) ELSE lib.objects[k]]
           report == [library |-> linked,
                      answer  |-> [result.answer EXCEPT !.version = linked.version]]
<1>1. lib.version = v
  BY DEF LibrariesTo
<1>2. /\ result.library.objects = objects
      /\ result.answer = [status  |-> "report",
                          version |-> v + Cardinality(written),
                          outcome |-> [k \in Keys |->
                                         CASE k \in failed         -> "failed"
                                           [] k \in same           -> "unchanged"
                                           [] k \in written \ same -> "successful"
                                           [] OTHER                -> "none"],
                          objects |-> [k \in Keys |->
                                         IF k \in written \ same THEN objects[k] ELSE NoObject]]
  BY <1>1 DEF WriteBatch
<1>3. /\ report.library = linked /\ report.answer.version = linked.version
      /\ report.answer.outcome = result.answer.outcome
      /\ report.answer.objects = result.answer.objects
  BY <1>2
<1> HIDE DEF report
<1>4. ASSUME NEW k \in Keys, k \notin written PROVE LeftAlone(lib, sent, report, k)
  <2>1. MaybeLinked(v, lib.objects[k], linked.objects[k])
    BY <1>2, <1>4
  <2>2. /\ report.answer.outcome[k] # "successful"
        /\ report.answer.outcome[k] = "unchanged"
             => lib.objects[k].live /\ lib.objects[k].body = sent[k].current
    BY <1>2, <1>3, <1>4
  <2> QED BY <1>1, <1>3, <2>1, <2>2 DEF LeftAlone
<1>5. ASSUME NEW k \in written PROVE WrittenAsSent(lib, batch, sent, report, k)
  <2>1. /\ v + Rank(order, written, k) \in Nat /\ v + Rank(order, written, k) > v
        /\ k \in Keys /\ k \in batch /\ k \notin failed /\ bodies[k] = sent[k].current
    BY OrdersNumber, RankPositive
  <2>2. MaybeLinked(v, new(k), linked.objects[k]) /\ new(k).body = sent[k].current
    <3>1. new(k).body = bodies[k]
      BY <2>1 DEF Stored, LibrariesTo, ObjectsTo
    <3>2. result.library.objects[k] = new(k)
      BY <1>2, <2>1
    <3> QED BY <2>1, <3>1, <3>2
  <2>3. /\ report.answer.outcome[k] = IF k \in same THEN "unchanged" ELSE "successful"
        /\ k \notin same => report.answer.objects[k] = new(k)
    BY <1>2, <1>3, <2>1
  <2> QED BY <1>1, <1>3, <2>1, <2>2, <2>3 DEF WrittenAsSent
<1> QED BY <1>1, <1>3, <1>4, <1>5 DEF Reports, report

(* A whole body replaces what it patches. *)
LEMMA FullPatch ==
    ASSUME NEW object, NEW body \in Body, Full(body)
    PROVE  Patched(object, body) = body
BY DEF Patched, Full, Body

LEMMA UploadsReport ==
    ASSUME NEW v \in Nat, NEW lib \in LibrariesTo(v),
           NEW batch \in SUBSET Keys, NEW order \in UploadOrders(batch),
           NEW sent, NEW header, \A k \in batch : sent[k].current \in Body /\ Full(sent[k].current)
    PROVE  /\ Reports(lib, batch, sent, header, UploadItems(lib, batch, order, sent, header))
           /\ Reports(lib, batch, sent, header, UploadCollections(lib, batch, order, sent, header))
<1> DEFINE bodies == [k \in batch |-> Patched(lib.objects[k], sent[k].current)]
           Batched(failed, same, written) == WriteBatch(lib, order, bodies, failed, same, written)
           Fits(failed, same, written) ==
              /\ written \subseteq batch /\ written \cap failed = {} /\ header = lib.version
              /\ \A k \in same : lib.objects[k].live /\ bodies[k] = lib.objects[k].body /\ k \in batch
<1>1. /\ \A k \in batch : bodies[k] = sent[k].current
      /\ bodies \in [batch -> Body]
  BY FullPatch
<1> HIDE DEF bodies
<1>2. ASSUME NEW failed, NEW same, NEW written, Fits(failed, same, written)
      PROVE  /\ Reports(lib, batch, sent, header, Batched(failed, same, written))
             /\ Reports(lib, batch, sent, header,
                        WithLinksBack(Batched(failed, same, written), written))
  <2>1. PICK result : result = Batched(failed, same, written)
    OBVIOUS
  <2>2. Served(v, result)
    BY <1>1, <1>2, <2>1, WriteBatchServed
  <2>3. PICK w \in Nat : w = result.library.version
    BY <2>2 DEF Served
  <2>4. v <= w /\ result.library \in LibrariesTo(w)
    BY <2>2, <2>3 DEF Served
  <2>5. ASSUME NEW linked, linked.version \in Nat, v <= linked.version,
               \A k \in Keys : MaybeLinked(v, result.library.objects[k], linked.objects[k])
        PROVE  Reports(lib, batch, sent, header,
                       [library |-> linked,
                        answer  |-> [result.answer EXCEPT !.version = linked.version]])
    BY <1>1, <1>2, <2>1, <2>5, WriteBatchReports
  <2>6. Reports(lib, batch, sent, header, result)
    <3>1. \A k \in Keys : MaybeLinked(v, result.library.objects[k], result.library.objects[k])
      BY DEF MaybeLinked
    <3>2. result = [library |-> result.library,
                    answer  |-> [result.answer EXCEPT !.version = result.library.version]]
      BY <2>1 DEF WriteBatch
    <3> QED BY <2>3, <2>4, <2>5, <3>1, <3>2
  <2>7. Reports(lib, batch, sent, header, WithLinksBack(result, written))
    <3>1. PICK linked : linked = LinkBack(result.library, written)
      OBVIOUS
    <3>2. linked.version \in Nat /\ w <= linked.version
      BY <1>2, <2>4, <3>1, LinkBackBounded
    <3>3. ASSUME NEW k \in Keys
          PROVE  MaybeLinked(v, result.library.objects[k], linked.objects[k])
      <4>1. MaybeLinked(w, result.library.objects[k], linked.objects[k])
        BY <1>2, <2>4, <3>1, LinkBackLinks
      <4> QED BY <2>4, <4>1 DEF MaybeLinked
    <3> QED BY <2>4, <2>5, <3>1, <3>2, <3>3 DEF WithLinksBack
  <2> QED BY <2>1, <2>6, <2>7
<1>3. \A status \in {"precondition", "malformed"} :
         Reports(lib, batch, sent, header,
                 [library |-> lib, answer |-> Answer(status, lib.version)])
  BY DEF Reports, Answer
<1>4. Reports(lib, batch, sent, header, UploadItems(lib, batch, order, sent, header))
  <2> DEFINE object(k)  == lib.objects[k]
             invalid(k) == \/ ~VersionAccepted(lib, k, sent[k].version)
                           \/ bodies[k] \in Refused
             orphan(k)  == /\ Parent[k] # NoKey
                           /\ IF Parent[k] \in batch THEN invalid(Parent[k])
                                                     ELSE ~object(Parent[k]).live
             failed     == {k \in batch : invalid(k) \/ orphan(k)}
             same       == {k \in batch \ failed : object(k).live /\ bodies[k] = object(k).body}
             written    == batch \ (failed \cup same)
             homeless   == \E k \in written : Home[k] # NoKey /\ ~object(Home[k]).live
  <2>1. header = lib.version => Fits(failed, same, written)
    OBVIOUS
  <2>2. UploadItems(lib, batch, order, sent, header) =
          CASE header # lib.version ->
                 [library |-> lib, answer |-> Answer("precondition", lib.version)]
            [] header = lib.version /\ homeless ->
                 [library |-> lib, answer |-> Answer("malformed", lib.version)]
            [] OTHER -> WithLinksBack(Batched(failed, same, written), written)
    BY DEF UploadItems, bodies
  <2> HIDE DEF failed, same, written, homeless, Batched, Fits
  <2> QED BY <1>2, <1>3, <2>1, <2>2
<1>5. Reports(lib, batch, sent, header, UploadCollections(lib, batch, order, sent, header))
  <2> DEFINE object(k) == lib.objects[k]
             orphan(k) == /\ Parent[k] # NoKey
                          /\ ~object(Parent[k]).live
                          /\ Parent[k] \notin batch \/ bodies[Parent[k]] \in Refused
             failed    == {k \in batch : bodies[k] \in Refused \/ orphan(k)}
             written   == batch \ failed
             same      == {k \in written : object(k).live /\ bodies[k] = object(k).body}
  <2>1. header = lib.version => Fits(failed, same, written)
    OBVIOUS
  <2>2. UploadCollections(lib, batch, order, sent, header) =
          IF header # lib.version
          THEN [library |-> lib, answer |-> Answer("precondition", lib.version)]
          ELSE Batched(failed, same, written)
    BY DEF UploadCollections, bodies
  <2> HIDE DEF failed, same, written, Batched, Fits
  <2> QED BY <1>2, <1>3, <2>1, <2>2
<1> QED BY <1>4, <1>5

(* The server's step: an engine's upload of whole bodies is answered.      *)
LEMMA UploadAnswered ==
    ASSUME Bounded, NEW e \in Engines, ServerWrites(e),
           \A k \in upload[e].batch : /\ upload[e].sent[k].current \in Body
                                      /\ Full(upload[e].sent[k].current)
    PROVE  \E result :
              /\ Reports(library, upload[e].batch, upload[e].sent, upload[e].version, result)
              /\ library' = result.library
              /\ upload' = [upload EXCEPT ![e].answer = result.answer]
<1>1. /\ library \in LibrariesTo(library.version) /\ library.version \in Nat
      /\ upload[e].batch \in SUBSET Keys
  BY JobFacts DEF Bounded, LibraryBounded, UploadsTo
<1>2. PICK order \in UploadOrders(upload[e].batch) :
         LET result == IF upload[e].stage = 1
                       THEN UploadCollections(library, upload[e].batch, order,
                                              upload[e].sent, upload[e].version)
                       ELSE UploadItems(library, upload[e].batch, order,
                                        upload[e].sent, upload[e].version)
         IN  /\ library' = result.library
             /\ upload' = [upload EXCEPT ![e].answer = result.answer]
  BY DEF ServerWrites
<1>3. /\ Reports(library, upload[e].batch, upload[e].sent, upload[e].version,
                 UploadItems(library, upload[e].batch, order, upload[e].sent, upload[e].version))
      /\ Reports(library, upload[e].batch, upload[e].sent, upload[e].version,
                 UploadCollections(library, upload[e].batch, order,
                                   upload[e].sent, upload[e].version))
  BY <1>1, UploadsReport
<1>4. CASE upload[e].stage = 1
  BY <1>2, <1>3, <1>4
<1>5. CASE upload[e].stage # 1
  BY <1>2, <1>3, <1>5
<1> QED BY <1>4, <1>5

(***************************************************************************)
(* The theorems                                                            *)
(***************************************************************************)

LEMMA InitSound == Init => Sound
<1> SUFFICES ASSUME Init PROVE Sound
  OBVIOUS
<1>1. \A version, body : RowSound(Integrate(NoRow, version, body))
  BY DEF RowSound, HasRow, Integrate, StoreSynced, NoRow
<1>2. RowSound(NoRow)
  BY DEF RowSound, HasRow, NoRow
<1>3. RowsSound
  BY <1>1, <1>2 DEF Init, RowsSound
<1>4. ASSUME NEW e \in Engines PROVE Intact(e)
  BY DEF Init, Intact, OnItsWay, Sending, NoUpload
<1> QED BY <1>3, <1>4 DEF Sound

LEMMA NextSound ==
    ASSUME OneEngine, QuietUpload
    PROVE  Sound /\ Bounded /\ [Next]_vars => Sound'
<1> SUFFICES ASSUME Sound, Bounded, [Next]_vars PROVE Sound'
  OBVIOUS
<1>1. TypeOK
  BY BoundedIsTyped
<1>2. CASE UNCHANGED vars
  BY <1>1, <1>2, RowsStepSound DEF vars, Sound, RowsSound
<1> QED BY <1>1, <1>2, UserSound, OtherClientsSound, StartingSound, UploadingSound,
           PullingSound, FaultsSound DEF Next

(* One engine, on objects the user leaves alone while they are uploaded,   *)
(* keeps every record sound and what it sends intact.                      *)
THEOREM AlwaysSound ==
    ASSUME OneEngine, QuietUpload
    PROVE  Spec => []Sound
BY InitSound, NextSound, AlwaysBounded, PTL DEF Spec

(* Local work is always in a queue or, with a conflict, before the user,   *)
(* whatever uploads fail, are answered late or are sent twice.             *)
THEOREM LocalWorkIsNeverStranded ==
    ASSUME OneEngine, QuietUpload
    PROVE  Spec => []NothingStranded
<1>1. Sound /\ Bounded => NothingStranded
  <2> SUFFICES ASSUME Sound, Bounded, NEW k \in Keys,
                      rows[k].state \in {"dirty", "failed", "deleted"},
                      ~rows[k].conflict.open
               PROVE  \/ PendingUpload(RetryDue(rows[k]))
                      \/ PendingDeletion(RetryDue(rows[k]))
    BY DEF NothingStranded
  <2>1. rows[k] \in Rows /\ RowSound(rows[k])
    BY BoundedIsTyped, TypeFacts DEF Sound, RowsSound
  <2>2. NoRetryWaiting(RetryDue(rows[k])) /\ ~RetryDue(rows[k]).conflict.open
    BY <2>1 DEF Rows, NoRetryWaiting, RetryDue
  <2> QED BY <2>1, <2>2, RetryDueKeepsSound DEF RowSound, PendingUpload, PendingDeletion
<1> QED BY <1>1, AlwaysSound, AlwaysBounded, PTL

(* The app shows each object as the store will upload it, and no deleted   *)
(* one: every transaction that writes a record keeps its projection.       *)
THEOREM WhatIsShownIsStored ==
    ASSUME OneEngine, QuietUpload
    PROVE  Spec => []ShownAsStored
<1>1. Sound => ShownAsStored
  BY DEF Sound, RowsSound, RowSound, ShownAsStored
<1> QED BY <1>1, AlwaysSound, PTL

(***************************************************************************)
(* Whole bodies                                                            *)
(***************************************************************************)

(* Every body that may come to be stored, sent or shown is whole: only a   *)
(* record that is gone, and has no conflict to come back by, may hold less.*)
WholeRow(row) ==
    /\ IF HasRow(row)
       THEN \/ Full(row.current)
            \/ row.state = "synced" /\ row.isDeleted /\ ~row.conflict.open
       ELSE ~row.conflict.open
    /\ row.conflict.open /\ row.conflict.body # Null => Full(row.conflict.body)

WholeObject(object) == object.live => Full(object.body)

WholeJob(e) ==
    /\ \A k \in Keys : WholeObject(pull[e].objects[k])
    /\ pc[e] = "posted" =>
          \A k \in Keys : upload[e].answer.outcome[k] = "successful" =>
             upload[e].answer.objects[k].body = upload[e].sent[k].current

Whole ==
    /\ \A k \in Keys : WholeRow(rows[k]) /\ WholeObject(library.objects[k])
    /\ \A e \in Engines : WholeJob(e)

(* Users write whole bodies, and a relation in return takes no field away. *)
WholeBodies ==
    /\ \A body \in Bodies : Full(body)
    /\ \A body \in Body : Full(body) => Full(Linked[body])

LEMMA LinkedWhole ==
    ASSUME WholeBodies, NEW v, NEW object \in Objects, WholeObject(object),
           NEW new, MaybeLinked(v, object, new)
    PROVE  WholeObject(new)
BY DEF WholeBodies, WholeObject, MaybeLinked, Stored, Objects

LEMMA UserKeepsWhole ==
    ASSUME NEW row \in Rows, WholeRow(row)
    PROVE  /\ \A body : Full(body) => WholeRow(StoreLocal(row, body))
           /\ RowSound(row) /\ row.shown # Null => WholeRow(MarkLocalDeletion(row))
           /\ \A resolution \in Resolutions :
                 CanResolve(row, resolution) => WholeRow(Resolve(row, resolution))
           /\ WholeRow(RetryDue(row))
<1>1. \A body : Full(body) => WholeRow(StoreLocal(row, body))
  BY DEF Rows, WholeRow, HasRow, StoreLocal
<1>2. RowSound(row) /\ row.shown # Null => WholeRow(MarkLocalDeletion(row))
  BY DEF Rows, RowSound, WholeRow, HasRow, MarkLocalDeletion
<1>3. ASSUME CanResolve(row, "keepLocal") PROVE WholeRow(ResolvedKeepLocal(row))
  BY <1>3 DEF Rows, CanResolve, WholeRow, HasRow, ResolvedKeepLocal, NoConflict
<1>4. ASSUME CanResolve(row, "keepRemote") PROVE WholeRow(ResolvedKeepRemote(row))
  BY <1>4 DEF Rows, CanResolve, WholeRow, HasRow, ResolvedKeepRemote, NoConflict
<1>5. ASSUME CanResolve(row, "delete") PROVE WholeRow(ResolvedDelete(row))
  BY <1>5 DEF Rows, CanResolve, WholeRow, HasRow, ResolvedDelete, NoConflict
<1>6. WholeRow(RetryDue(row))
  BY DEF Rows, WholeRow, HasRow, RetryDue
<1> QED BY <1>1, <1>2, <1>3, <1>4, <1>5, <1>6 DEF Resolve, Resolutions

LEMMA PullKeepsWhole ==
    ASSUME NEW row \in Rows, WholeRow(row), NEW version
    PROVE  /\ \A body \in Body : Full(body) => WholeRow(Integrate(row, version, body))
           /\ WholeRow(ApplyRemoteDeletion(row, version))
<1>1. ASSUME NEW body \in Body, Full(body) PROVE WholeRow(Integrate(row, version, body))
  <2> DEFINE merged == Merged(row.pristine, row.current, body)
             kept == [row EXCEPT !.state = "dirty", !.isDeleted = FALSE,
                                 !.version = version, !.current = merged,
                                 !.pristine = body, !.shown = merged,
                                 !.conflict = NoConflict]
  <2>1. WholeRow([StoreSynced(row, version, body) EXCEPT !.shown = body])
    BY <1>1 DEF Rows, WholeRow, HasRow, StoreSynced
  <2>2. ASSUME row.state \notin {"absent", "synced"} PROVE WholeRow(RecordConflict(row, version, body))
    BY <1>1, <2>2 DEF Rows, WholeRow, HasRow, RecordConflict
  <2>3. ASSUME row.state \notin {"absent", "synced"} PROVE WholeRow(kept)
    <3>1. Full(merged)
      BY <1>1, <2>3 DEF Rows, WholeRow, HasRow, Full, Merged
    <3> HIDE DEF merged
    <3> QED BY <3>1 DEF Rows, WholeRow, HasRow, NoConflict
  <2> HIDE DEF kept
  <2> QED BY <2>1, <2>2, <2>3 DEF Integrate, MergeRemote, kept, merged
<1>2. WholeRow(ApplyRemoteDeletion(row, version))
  BY DEF Rows, WholeRow, HasRow, ApplyRemoteDeletion, RecordConflict
<1> QED BY <1>1, <1>2

LEMMA UploadKeepsWhole ==
    ASSUME NEW row \in Rows, WholeRow(row), NEW version
    PROVE  /\ \A body : Full(body) => WholeRow(WriteSucceeded(row, version, body))
           /\ \A sent : Full(sent.current) => WholeRow(WriteUnchanged(row, sent))
           /\ row.state \in {"dirty", "failed"} => WholeRow(WriteFailed(row))
           /\ row.state = "deleted" => WholeRow(DeletionUploaded(row, version))
           /\ row.state = "deleted" => WholeRow(DeletionFailed(row))
<1>1. \A body : Full(body) => WholeRow(WriteSucceeded(row, version, body))
  BY DEF Rows, WholeRow, HasRow, WriteSucceeded, StoreSynced
<1>2. \A sent : Full(sent.current) => WholeRow(WriteUnchanged(row, sent))
  BY DEF Rows, WholeRow, HasRow, WriteUnchanged, StoreSynced
<1>3. /\ row.state \in {"dirty", "failed"} => WholeRow(WriteFailed(row))
      /\ row.state = "deleted" => WholeRow(DeletionFailed(row))
  BY DEF Rows, WholeRow, HasRow, WriteFailed, DeletionFailed
<1>4. row.state = "deleted" => WholeRow(DeletionUploaded(row, version))
  BY DEF Rows, WholeRow, HasRow, DeletionUploaded
<1> QED BY <1>1, <1>2, <1>3, <1>4

(* What an upload carries is whole, and what its row still holds. *)
LEMMA SentWhole ==
    ASSUME Bounded, Sound, Whole, NEW e \in Engines, pc[e] \in Writing, NEW k \in OnItsWay(e)
    PROVE  /\ k \in Keys /\ upload[e].stage <= 2
           /\ rows[k].state \in {"dirty", "failed"}
           /\ upload[e].sent[k].current = rows[k].current
           /\ upload[e].sent[k].current \in Body /\ Full(upload[e].sent[k].current)
<1>1. k \in Keys /\ rows[k] \in Rows /\ upload[e].stage <= 2
  BY BoundedIsTyped, TypeFacts, JobFacts DEF OnItsWay, Writing
<1>2. AsSent(e, k) /\ WholeRow(rows[k])
  BY <1>1 DEF Sound, Intact, Whole
<1> QED BY <1>1, <1>2 DEF AsSent, WholeRow, HasRow, Rows

(* What a report says was written is what its row still holds. *)
LEMMA ReportWhole ==
    ASSUME Bounded, Sound, Whole, NEW e \in Engines, pc[e] = "posted", NEW k \in Keys,
           upload[e].answer.outcome[k] # "none"
    PROVE  /\ k \in OnItsWay(e)
           /\ upload[e].answer.outcome[k] = "successful"
                => upload[e].answer.objects[k].body = rows[k].current
<1>1. k \in OnItsWay(e)
  BY DEF Sound, Intact, OnItsWay
<1> QED BY <1>1, SentWhole DEF Whole, WholeJob, Writing

(* Only records change.  *)
LEMMA RowsStepWhole ==
    ASSUME Whole, UNCHANGED <<library, pc, upload, pull>>, \A k \in Keys : WholeRow(rows'[k])
    PROVE  Whole'
BY DEF Whole, WholeJob

LEMMA UserWhole ==
    ASSUME WholeBodies, Bounded, Sound, Whole, User PROVE Whole'
<1>1. /\ rows \in [Keys -> Rows] /\ UNCHANGED <<library, pc, upload, pull>>
      /\ \A k \in Keys : rows[k] \in Rows /\ RowSound(rows[k]) /\ WholeRow(rows[k])
  <2>1. rows \in [Keys -> Rows]
    BY BoundedIsTyped DEF TypeOK
  <2> QED BY <2>1 DEF User, Create, Edit, Delete, ResolveConflict, RetriesDue, UserActs,
           Sound, RowsSound, Whole
<1>2. ASSUME NEW k \in Keys PROVE WholeRow(rows'[k])
  <2>1. \/ rows'[k] = rows[k]
        \/ \E body \in Bodies : rows'[k] = StoreLocal(rows[k], body)
        \/ rows'[k] = MarkLocalDeletion(rows[k]) /\ rows[k].shown # Null
        \/ \E resolution \in Resolutions :
              CanResolve(rows[k], resolution) /\ rows'[k] = Resolve(rows[k], resolution)
        \/ rows'[k] = RetryDue(rows[k])
    <3>1. CASE \E l \in Keys, body \in Bodies : Create(l, body) \/ Edit(l, body)
      BY <1>1, <3>1 DEF Create, Edit
    <3>2. CASE \E l \in Keys : Delete(l)
      BY <3>2 DEF Delete, DeletedWith
    <3>3. CASE \E l \in Keys : RetriesDue(l)
      BY <1>1, <3>3 DEF RetriesDue
    <3>4. CASE \E l \in Keys, resolution \in Resolutions : ResolveConflict(l, resolution)
      BY <1>1, <3>4 DEF ResolveConflict
    <3> QED BY <3>1, <3>2, <3>3, <3>4 DEF User
  <2> QED BY <1>1, <2>1, UserKeepsWhole DEF WholeBodies
<1> QED BY <1>1, <1>2, RowsStepWhole

(* What another client writes, before the related items follow.            *)
LEMMA RemoteLibrary ==
    ASSUME Bounded, NEW k \in Keys, NEW body \in Bodies, RemoteWrite(k, body)
    PROVE  \E lib \in LibrariesTo(library.version + 1) :
              /\ library' = LinkBack(lib, {k})
              /\ lib.objects = [library.objects EXCEPT
                                   ![k] = Stored(library.objects[k], library.version + 1, body)]
<1> DEFINE w == library.version + 1
           objects == [library.objects EXCEPT ![k] = Stored(library.objects[k], w, body)]
<1>1. /\ w \in Nat /\ w \in 0 .. w
      /\ library.objects \in [Keys -> ObjectsTo(w)]
  BY ObjectsGrow DEF Bounded, LibraryBounded, LibrariesTo
<1>2. library' = LinkBack([version |-> w, objects |-> objects], {k})
  BY DEF RemoteWrite
<1> HIDE DEF w
<1>3. Stored(library.objects[k], w, body) \in ObjectsTo(w)
  BY <1>1, SyncAssumption, StoredBounded
<1>4. [version |-> w, objects |-> objects] \in LibrariesTo(w)
  BY <1>1, <1>3 DEF LibrariesTo
<1> QED BY <1>1, <1>2, <1>4 DEF w

LEMMA OtherClientsWhole ==
    ASSUME WholeBodies, Bounded, Whole, OtherClients PROVE Whole'
<1>1. /\ UNCHANGED <<rows, pc, upload, pull>>
      /\ library.objects \in [Keys -> Objects]
  BY BoundedIsTyped DEF OtherClients, RemoteWrite, RemoteDelete, RemoteActs, TypeOK, Libraries
<1>2. ASSUME NEW k \in Keys PROVE WholeObject(library'.objects[k])
  <2>1. CASE \E l \in Keys, body \in Bodies : RemoteWrite(l, body)
    <3>1. PICK l \in Keys, body \in Bodies : RemoteWrite(l, body)
      BY <2>1
    <3>2. PICK w \in Nat : w = library.version + 1
      BY DEF Bounded, LibraryBounded
    <3>3. PICK lib \in LibrariesTo(w) :
             /\ library' = LinkBack(lib, {l})
             /\ lib.objects = [library.objects EXCEPT
                                  ![l] = Stored(library.objects[l], library.version + 1, body)]
      BY <3>1, <3>2, RemoteLibrary
    <3>4. WholeObject(Stored(library.objects[l], library.version + 1, body))
      BY <1>1 DEF WholeObject, Stored, Objects, WholeBodies
    <3>5. WholeObject(lib.objects[k]) /\ lib.objects[k] \in Objects
      <4>1. lib.objects[k] \in Objects
        BY <3>2, <3>3 DEF LibrariesTo, ObjectsTo, Objects
      <4> QED BY <1>1, <3>3, <3>4, <4>1 DEF Whole
    <3>6. MaybeLinked(w, lib.objects[k], library'.objects[k])
      BY <3>2, <3>3, LinkBackLinks
    <3> QED BY <3>5, <3>6, LinkedWhole
  <2>2. CASE \E l \in Keys : RemoteDelete(l)
    BY <2>2 DEF RemoteDelete, Erased, NoObject, Whole, WholeObject
  <2> QED BY <2>1, <2>2 DEF OtherClients
<1> QED BY <1>1, <1>2 DEF Whole, WholeJob

(* With one engine, a step of it is judged by its own locals. *)
LEMMA EngineStepWhole ==
    ASSUME OneEngine, NEW e \in Engines,
           \A k \in Keys : WholeRow(rows'[k]) /\ WholeObject(library'.objects[k]), WholeJob(e)'
    PROVE  Whole'
BY DEF OneEngine, Whole

LEMMA UploadingWhole ==
    ASSUME OneEngine, WholeBodies, Bounded, Sound, Whole, NEW e \in Engines, Uploading(e)
    PROVE  Whole'
<1>1. /\ pc \in [Engines -> Phases] /\ upload \in [Engines -> Uploads]
      /\ pull \in [Engines -> Pulls]
      /\ \A k \in Keys : /\ rows[k] \in Rows /\ WholeRow(rows[k])
                         /\ library.objects[k] \in Objects /\ WholeObject(library.objects[k])
  <2>1. TypeOK
    BY BoundedIsTyped
  <2> QED BY <2>1 DEF TypeOK, Libraries, Whole
<1>2. CASE ServerWrites(e)
  <2>1. PICK result :
          /\ Reports(library, upload[e].batch, upload[e].sent, upload[e].version, result)
          /\ library' = result.library
          /\ upload' = [upload EXCEPT ![e].answer = result.answer]
    BY <1>2, UploadAnswered, SentWhole DEF ServerWrites, OnItsWay, Writing
  <2>2. /\ upload'[e].answer = result.answer /\ upload'[e].sent = upload[e].sent
        /\ UNCHANGED <<rows, pull>> /\ pc[e] = "posting"
    BY <1>1, <1>2, <2>1 DEF ServerWrites, Uploads
  <2>3. ASSUME NEW k \in Keys
        PROVE  /\ WholeObject(library'.objects[k])
               /\ result.answer.outcome[k] = "successful"
                    => result.answer.objects[k].body = upload[e].sent[k].current
    <3>1. CASE /\ k \in upload[e].batch
               /\ WrittenAsSent(library, upload[e].batch, upload[e].sent, result, k)
      <4>1. upload[e].sent[k].current \in Body /\ Full(upload[e].sent[k].current)
        BY <2>2, <3>1, SentWhole DEF OnItsWay, Writing
      <4>2. PICK version \in Nat :
               MaybeLinked(library.version,
                           Stored(library.objects[k], version, upload[e].sent[k].current),
                           library'.objects[k])
        BY <2>1, <3>1 DEF WrittenAsSent
      <4>3. /\ Stored(library.objects[k], version, upload[e].sent[k].current) \in Objects
            /\ WholeObject(Stored(library.objects[k], version, upload[e].sent[k].current))
        BY <1>1, <4>1 DEF WholeObject, Stored, Objects
      <4>4. WholeObject(library'.objects[k])
        BY <4>2, <4>3, LinkedWhole
      <4> QED BY <3>1, <4>4 DEF WrittenAsSent
    <3>2. CASE /\ MaybeLinked(library.version, library.objects[k], library'.objects[k])
               /\ result.answer.outcome[k] # "successful"
      BY <1>1, <3>2, LinkedWhole
    <3>3. CASE library' = library /\ \A l \in Keys : result.answer.outcome[l] = "none"
      BY <1>1, <3>3
    <3> QED BY <2>1, <3>1, <3>2, <3>3 DEF Reports, LeftAlone, WrittenAsSent
  <2>4. WholeJob(e)'
    BY <2>2, <2>3 DEF Whole, WholeJob
  <2> QED BY <1>1, <2>2, <2>3, <2>4, EngineStepWhole
<1>3. CASE ServerDeletes(e)
  <2>1. UNCHANGED <<rows, pull>> /\ pc'[e] = "deleted"
    BY <1>1, <1>3 DEF ServerDeletes
  <2>2. ASSUME NEW k \in Keys PROVE WholeObject(library'.objects[k])
    <3>1. \/ library' = library
          \/ \E keys, version : library' = Erased(library, keys, version)
      BY <1>3 DEF ServerDeletes, DeleteItems, DeleteCollections
    <3>2. \A keys, version :
             LET object == Erased(library, keys, version).objects[k]
             IN  object = library.objects[k] \/ ~object.live
      BY DEF Erased, NoObject
    <3> QED BY <1>1, <3>1, <3>2 DEF WholeObject
  <2> QED BY <1>1, <2>1, <2>2, EngineStepWhole DEF Whole, WholeJob
<1>4. CASE ~ServerWrites(e) /\ ~ServerDeletes(e)
  <2>1. UNCHANGED library
    BY <1>4 DEF Uploading, Queue, Batch, ApplyWriteReport, MarkDeletionsUploaded,
           Rejected, Undecodable
  <2>2. ASSUME NEW k \in Keys PROVE WholeRow(rows'[k])
    <3>1. CASE ApplyWriteReport(e)
      <4> DEFINE answer == upload[e].answer
      <4>1. /\ pc[e] = "posted" /\ answer.outcome[k] \in Outcomes
            /\ rows'[k] = Reported(rows[k], upload[e].sent[k], answer.outcome[k], answer.objects[k])
        BY <1>1, <3>1 DEF ApplyWriteReport, Uploads, Answers
      <4>2. CASE answer.outcome[k] = "none"
        BY <1>1, <4>1, <4>2 DEF Reported
      <4>3. CASE answer.outcome[k] # "none"
        <5>1. k \in OnItsWay(e)
          BY <4>1, <4>3, ReportWhole
        <5>2. /\ rows[k].state \in {"dirty", "failed"} /\ Full(upload[e].sent[k].current)
              /\ answer.outcome[k] = "successful"
                   => answer.objects[k].body = upload[e].sent[k].current
          BY <4>1, <4>3, <5>1, SentWhole DEF Writing, Whole, WholeJob
        <5>3. /\ WholeRow(WriteUnchanged(rows[k], upload[e].sent[k]))
              /\ WholeRow(WriteFailed(rows[k]))
              /\ \A version : answer.outcome[k] = "successful"
                    => WholeRow(WriteSucceeded(rows[k], version, answer.objects[k].body))
          BY <1>1, <5>2, UploadKeepsWhole
        <5> QED BY <4>1, <4>3, <5>3 DEF Reported, Outcomes
      <4> QED BY <4>2, <4>3
    <3>2. CASE MarkDeletionsUploaded(e)
      <4>1. rows'[k] = IF k \in upload[e].batch
                       THEN DeletionUploaded(rows[k], upload[e].answer.version) ELSE rows[k]
        BY <3>2 DEF MarkDeletionsUploaded
      <4>2. k \in upload[e].batch => rows[k].state = "deleted"
        <5>1. pc[e] = "deleted" /\ upload[e].stage \in 1 .. 4
          BY <1>1, <3>2 DEF MarkDeletionsUploaded, Uploads, Stages
        <5> QED BY <5>1 DEF Sound, Intact, OnItsWay, AsSent
      <4> QED BY <1>1, <4>1, <4>2, UploadKeepsWhole
    <3>3. CASE ~ApplyWriteReport(e) /\ ~MarkDeletionsUploaded(e)
      BY <1>1, <1>4, <3>3 DEF Uploading, Queue, Batch, Rejected, Undecodable
    <3> QED BY <3>1, <3>2, <3>3
  <2>3. pc'[e] # "posted" /\ (UNCHANGED pull \/ \A k \in Keys : ~pull'[e].objects[k].live)
    <3>1. \A after : BeginPull(e, after)
             => pc'[e] = "fetching" /\ \A k \in Keys : ~pull'[e].objects[k].live
      BY <1>1 DEF BeginPull, PullStarted, NoPull, NoObjects, NoObject
    <3>2. Finish(e) => pc'[e] = "idle" /\ \A k \in Keys : ~pull'[e].objects[k].live
      BY <1>1 DEF Finish, NoPull, NoObjects, NoObject
    <3>3. CASE Queue(e)
      BY <1>1, <3>1, <3>2, <3>3 DEF Queue, NextStage
    <3>4. CASE Rejected(e) \/ Undecodable(e)
      BY <3>1, <3>2, <3>4 DEF Rejected, Undecodable, PreconditionFailed
    <3>5. CASE ApplyWriteReport(e) \/ MarkDeletionsUploaded(e)
      BY <1>1, <3>5 DEF ApplyWriteReport, MarkDeletionsUploaded
    <3>6. CASE \E batch \in SUBSET upload[e].todo : Batch(e, batch)
      BY <1>1, <3>6 DEF Batch
    <3> QED BY <1>4, <3>3, <3>4, <3>5, <3>6 DEF Uploading
  <2>4. WholeJob(e)'
    BY <2>3 DEF Whole, WholeJob, WholeObject
  <2> QED BY <1>1, <2>1, <2>2, <2>4, EngineStepWhole
<1> QED BY <1>2, <1>3, <1>4

LEMMA PullingWhole ==
    ASSUME OneEngine, Bounded, Whole, NEW e \in Engines, Pulling(e) PROVE Whole'
<1>1. /\ pc \in [Engines -> Phases] /\ pull \in [Engines -> Pulls]
      /\ run[e].after \in {"done", "upload", "retry"}
      /\ \A k \in Keys : /\ rows[k] \in Rows /\ WholeRow(rows[k])
                         /\ WholeObject(library.objects[k])
                         /\ pull[e].objects[k] \in Objects /\ WholeObject(pull[e].objects[k])
  <2>1. TypeOK
    BY BoundedIsTyped
  <2> QED BY <2>1 DEF TypeOK, Pulls, Runs, AfterPull, Whole, WholeJob
<1>2. UNCHANGED library
  BY DEF Pulling, ReadList, ReadObjects, Fetched, IntegrateCollections, IntegrateItems,
         ApplyRemoteDeletions, CheckStability, Commit, FetchAgain
<1>3. ASSUME NEW k \in Keys PROVE WholeRow(rows'[k])
  <2>1. CASE IntegrateCollections(e) \/ IntegrateItems(e)
    <3>1. \/ rows'[k] = rows[k]
          \/ /\ pull[e].objects[k].live
             /\ rows'[k] = Integrate(rows[k], pull[e].objects[k].version, pull[e].objects[k].body)
      BY <2>1 DEF IntegrateCollections, IntegrateItems, Integrated
    <3>2. pull[e].objects[k].live =>
             pull[e].objects[k].body \in Body /\ Full(pull[e].objects[k].body)
      BY <1>1 DEF WholeObject, Objects
    <3> QED BY <1>1, <3>1, <3>2, PullKeepsWhole
  <2>2. CASE ApplyRemoteDeletions(e)
    BY <1>1, <2>2, PullKeepsWhole DEF ApplyRemoteDeletions
  <2>3. CASE ~(IntegrateCollections(e) \/ IntegrateItems(e) \/ ApplyRemoteDeletions(e))
    BY <1>1, <2>3 DEF Pulling, ReadList, ReadObjects, Fetched, CheckStability, Commit, FetchAgain
  <2> QED BY <2>1, <2>2, <2>3
<1>4. pc'[e] # "posted"
  <2>1. CASE Commit(e)
    BY <1>1, <2>1 DEF Commit, Finish, BeginUpload
  <2>2. CASE FetchAgain(e)
    BY <1>1, <2>2 DEF FetchAgain, Finish
  <2>3. CASE ~Commit(e) /\ ~FetchAgain(e)
    BY <1>1, <2>3 DEF Pulling, ReadList, ReadObjects, Fetched, IntegrateCollections,
           IntegrateItems, ApplyRemoteDeletions, CheckStability
  <2> QED BY <2>1, <2>2, <2>3
<1>5. ASSUME NEW k \in Keys PROVE WholeObject(pull'[e].objects[k])
  <2>1. CASE \E kind \in {"collections", "items"} : ReadObjects(e, kind)
    <3>1. pull'[e].objects[k] \in {library.objects[k], pull[e].objects[k]}
      BY <1>1, <2>1 DEF ReadObjects, Pulls
    <3> QED BY <1>1, <3>1
  <2>2. CASE Commit(e) \/ FetchAgain(e)
    <3>1. /\ NoPull.objects = NoObjects
          /\ \A since, try : PullStarted(since, try).objects = NoObjects
      BY DEF PullStarted, NoPull
    <3>2. \A new : pull' = [pull EXCEPT ![e] = new] => pull'[e] = new
      BY <1>1
    <3>3. CASE Commit(e)
      <4>1. pull'[e] = NoPull
        BY <1>1, <3>2, <3>3 DEF Commit, Finish, BeginUpload
      <4> QED BY <3>1, <4>1 DEF NoObjects, NoObject, WholeObject
    <3>4. CASE FetchAgain(e)
      <4>1. \/ pull'[e] = NoPull
            \/ pull'[e] = PullStarted(pull[e].since, pull[e].try + 1)
        BY <3>2, <3>4 DEF FetchAgain, Finish
      <4> QED BY <3>1, <4>1 DEF NoObjects, NoObject, WholeObject
    <3> QED BY <2>2, <3>3, <3>4
  <2>3. CASE (\E list \in Lists : ReadList(e, list)) \/ CheckStability(e)
    <3>1. ASSUME NEW list \in Lists, ReadList(e, list)
          PROVE  pull'[e].objects = pull[e].objects
      <4> DEFINE changed == CASE list = "collectionVersions" ->
                                   ChangedSince(library, Collections, pull[e].since)
                              [] list = "itemVersions" ->
                                   ChangedSince(library, Items, pull[e].since)
                              [] list = "deletions" -> {}
                 deleted == IF list = "deletions" THEN DeletedSince(library, pull[e].since) ELSE {}
      <4>1. pull' = [pull EXCEPT ![e].waiting = @ \ {list},
                                 ![e].listed = @ \cup changed,
                                 ![e].deleted = @ \cup deleted,
                                 ![e].version = HighestVersion(@, library.version)]
        BY <3>1 DEF ReadList
      <4> HIDE DEF changed, deleted
      <4> QED BY <1>1, <4>1 DEF Pulls
    <3>2. CheckStability(e) => pull'[e].objects = pull[e].objects
      BY <1>1 DEF CheckStability, Pulls
    <3> QED BY <1>1, <2>3, <3>1, <3>2
  <2>4. CASE Fetched(e) \/ IntegrateCollections(e) \/ IntegrateItems(e) \/ ApplyRemoteDeletions(e)
    BY <1>1, <2>4 DEF Fetched, IntegrateCollections, IntegrateItems, ApplyRemoteDeletions
  <2> QED BY <2>1, <2>2, <2>3, <2>4 DEF Pulling
<1>6. WholeJob(e)'
  BY <1>4, <1>5 DEF WholeJob
<1> QED BY <1>1, <1>2, <1>3, <1>6, EngineStepWhole

LEMMA StartingWhole ==
    ASSUME OneEngine, Bounded, Whole, NEW e \in Engines, Starting(e) PROVE Whole'
<1>1. UNCHANGED <<rows, library>> /\ pc \in [Engines -> Phases] /\ pull \in [Engines -> Pulls]
  BY BoundedIsTyped DEF Starting, StartPull, StartSynchronize, TypeOK
<1>2. pc'[e] # "posted" /\ pull'[e].objects = NoObjects
  <2>1. /\ NoPull.objects = NoObjects
        /\ \A since, try : PullStarted(since, try).objects = NoObjects
    BY DEF PullStarted, NoPull
  <2>2. CASE StartPull(e)
    <3>1. pull'[e] = PullStarted(currentVersion, 1) /\ pc'[e] = "fetching"
      BY <1>1, <2>2 DEF StartPull, BeginPull
    <3> QED BY <2>1, <3>1
  <2>3. CASE StartSynchronize(e)
    <3>1. pull'[e] = NoPull /\ pc'[e] = "queueing"
      BY <1>1, <2>3 DEF StartSynchronize, BeginUpload
    <3> QED BY <2>1, <3>1
  <2> QED BY <2>2, <2>3 DEF Starting
<1>3. WholeJob(e)'
  BY <1>2 DEF NoObjects, NoObject, WholeJob, WholeObject
<1> QED BY <1>1, <1>3, EngineStepWhole DEF Whole

LEMMA FaultsWhole ==
    ASSUME OneEngine, Bounded, Sound, Whole, NEW e \in Engines, Faults(e) PROVE Whole'
<1>1. /\ pc \in [Engines -> Phases] /\ pull \in [Engines -> Pulls]
      /\ upload[e].stage \in 1 .. 4 /\ UNCHANGED library
      /\ \A k \in Keys : rows[k] \in Rows /\ WholeRow(rows[k])
  BY BoundedIsTyped, TypeFacts DEF TypeOK, Whole, Faults, TransportFails, Stop, Resend
<1>2. ASSUME NEW k \in Keys PROVE WholeRow(rows'[k])
  <2>1. CASE TransportFails(e) /\ k \in upload[e].batch
    <3>1. AsSent(e, k)
      BY <2>1 DEF Sound, Intact, OnItsWay
    <3>2. rows'[k] = IF upload[e].stage <= 2 THEN WriteFailed(rows[k]) ELSE DeletionFailed(rows[k])
      BY <1>1, <2>1 DEF TransportFails
    <3> QED BY <1>1, <3>1, <3>2, UploadKeepsWhole DEF AsSent
  <2>2. CASE ~(TransportFails(e) /\ k \in upload[e].batch)
    BY <1>1, <2>2 DEF Faults, TransportFails, Stop, Resend
  <2> QED BY <2>1, <2>2
<1>3. WholeJob(e)'
  BY <1>1 DEF Faults, TransportFails, Stop, Resend, Answered, Finish, NoPull, NoObjects,
         NoObject, Whole, WholeJob, WholeObject
<1> QED BY <1>1, <1>2, <1>3, EngineStepWhole DEF Whole

LEMMA InitWhole == ASSUME WholeBodies, Init PROVE Whole
<1>1. PICK order :
         /\ rows = [k \in Keys |-> IF k \in Known THEN Integrate(NoRow, order[k], InitialBody)
                                   ELSE NoRow]
         /\ library.objects = [k \in Keys |-> IF k \in Known
                                              THEN Stored(NoObject, order[k], InitialBody)
                                              ELSE NoObject]
  BY DEF Init
<1>2. Full(InitialBody)
  BY SyncAssumption DEF WholeBodies
<1>3. /\ WholeRow(NoRow) /\ WholeObject(NoObject)
      /\ \A version : /\ WholeRow(Integrate(NoRow, version, InitialBody))
                      /\ WholeObject(Stored(NoObject, version, InitialBody))
  BY <1>2 DEF WholeRow, HasRow, NoRow, NoConflict, Integrate, StoreSynced,
         WholeObject, NoObject, Stored
<1>4. \A k \in Keys : WholeRow(rows[k]) /\ WholeObject(library.objects[k])
  BY <1>1, <1>3
<1>5. ASSUME NEW e \in Engines PROVE WholeJob(e)
  BY <1>3 DEF Init, WholeJob, NoPull, NoObjects
<1> QED BY <1>4, <1>5 DEF Whole

LEMMA NextWhole ==
    ASSUME OneEngine, WholeBodies
    PROVE  Whole /\ Sound /\ Bounded /\ [Next]_vars => Whole'
<1> SUFFICES ASSUME Whole, Sound, Bounded, [Next]_vars PROVE Whole'
  OBVIOUS
<1>1. CASE UNCHANGED vars
  BY <1>1, RowsStepWhole DEF vars, Whole
<1> QED BY <1>1, UserWhole, OtherClientsWhole, StartingWhole, UploadingWhole, PullingWhole,
           FaultsWhole DEF Next

THEOREM AlwaysWhole ==
    ASSUME OneEngine, QuietUpload, WholeBodies
    PROVE  Spec => []Whole
BY InitWhole, NextWhole, AlwaysSound, AlwaysBounded, PTL DEF Spec

(***************************************************************************)
(* The user's edits                                                        *)
(***************************************************************************)

(* What a step may do to a field the user has edited. *)
FieldKept(row, next, f) ==
    /\ next.current[f] = row.current[f]
    /\ next.pristine[f] \in {row.pristine[f], row.current[f]}

LEMMA MergeKeepsEdits ==
    ASSUME NEW row \in Rows, row.state \in {"dirty", "failed"}, NEW version,
           NEW f \in Fields, row.current[f] # row.pristine[f]
    PROVE  /\ \A body \in Body : FieldKept(row, Integrate(row, version, body), f)
           /\ FieldKept(row, ApplyRemoteDeletion(row, version), f)
<1>1. ASSUME NEW body \in Body PROVE FieldKept(row, MergeRemote(row, version, body), f)
  <2> DEFINE merged == Merged(row.pristine, row.current, body)
             kept == [row EXCEPT !.state = "dirty", !.isDeleted = FALSE,
                                 !.version = version, !.current = merged,
                                 !.pristine = body, !.shown = merged,
                                 !.conflict = NoConflict]
  <2>1. FieldKept(row, RecordConflict(row, version, body), f)
    BY DEF FieldKept, RecordConflict, Rows
  <2>2. ASSUME ConflictFields(row.pristine, row.current, body) = {}
        PROVE  FieldKept(row, kept, f)
    <3>1. ~Clashes(row.pristine, row.current, body, f)
      BY <2>2, MergeAssumption DEF ConflictFields, Rows
    <3>2. merged[f] = row.current[f] /\ body[f] \in {row.pristine[f], row.current[f]}
      BY <3>1 DEF Merged, Clashes
    <3>3. kept.current = merged /\ kept.pristine = body
      BY DEF Rows
    <3> QED BY <3>2, <3>3 DEF FieldKept
  <2> HIDE DEF kept
  <2> QED BY <2>1, <2>2 DEF MergeRemote, kept, merged
<1>2. \A body \in Body : FieldKept(row, Integrate(row, version, body), f)
  BY <1>1 DEF Integrate
<1>3. FieldKept(row, ApplyRemoteDeletion(row, version), f)
  BY DEF FieldKept, ApplyRemoteDeletion, RecordConflict, Rows
<1> QED BY <1>2, <1>3

(* No step of an engine, and no fault, takes an edit from the user: a pull *)
(* merges it or raises a conflict, and a report stores what the row holds. *)
THEOREM EditsAreKept ==
    ASSUME OneEngine, QuietUpload, WholeBodies
    PROVE  Spec => EditsKept
<1> DEFINE Step == EngineActs => \A k \in Keys, f \in Fields :
                      LocalEdit(k, f) => FieldKept(rows[k], rows'[k], f)
<1>1. Whole /\ Sound /\ Bounded /\ [Next]_vars => Step
  <2> SUFFICES ASSUME Whole, Sound, Bounded, [Next]_vars, pc' # pc,
                      NEW k \in Keys, NEW f \in Fields, LocalEdit(k, f)
               PROVE  FieldKept(rows[k], rows'[k], f)
    BY DEF EngineActs
  <2>1. PICK e \in Engines : Starting(e) \/ Uploading(e) \/ Pulling(e) \/ Faults(e)
    BY DEF Next, vars, User, Create, Edit, Delete, ResolveConflict, RetriesDue, UserActs,
           OtherClients, RemoteWrite, RemoteDelete, RemoteActs
  <2>2. /\ rows[k] \in Rows /\ rows[k].state \in {"dirty", "failed"}
        /\ rows[k].current[f] # rows[k].pristine[f]
        /\ upload[e].stage \in 1 .. 4
        /\ pull[e].objects[k] \in Objects /\ upload[e].answer \in Answers
    BY BoundedIsTyped DEF LocalEdit, TypeOK, Uploads, Stages, Pulls
  <2>3. rows'[k] = rows[k] => FieldKept(rows[k], rows'[k], f)
    BY DEF FieldKept
  <2>4. CASE IntegrateCollections(e) \/ IntegrateItems(e)
    <3>1. \/ rows'[k] = rows[k]
          \/ rows'[k] = Integrate(rows[k], pull[e].objects[k].version, pull[e].objects[k].body)
      BY <2>4 DEF IntegrateCollections, IntegrateItems, Integrated
    <3>2. pull[e].objects[k].body \in Body
      BY <2>2 DEF Objects
    <3>3. \A version : \A body \in Body : FieldKept(rows[k], Integrate(rows[k], version, body), f)
      BY <2>2, MergeKeepsEdits
    <3> QED BY <2>3, <3>1, <3>2, <3>3
  <2>5. CASE ApplyRemoteDeletions(e)
    BY <2>2, <2>3, <2>5, MergeKeepsEdits DEF ApplyRemoteDeletions
  <2>6. CASE ApplyWriteReport(e)
    <3> DEFINE outcome == upload[e].answer.outcome[k]
               sent == upload[e].sent[k]
               object == upload[e].answer.objects[k]
    <3>1. /\ pc[e] = "posted" /\ rows'[k] = Reported(rows[k], sent, outcome, object)
          /\ outcome \in Outcomes
      BY <2>2, <2>6 DEF ApplyWriteReport, Answers
    <3>2. outcome # "none" => /\ sent.current = rows[k].current
                              /\ outcome = "successful" => object.body = rows[k].current
      BY <3>1, ReportWhole, SentWhole DEF Writing
    <3> HIDE DEF outcome, sent, object
    <3>3. /\ FieldKept(rows[k], WriteFailed(rows[k]), f)
          /\ sent.current = rows[k].current => FieldKept(rows[k], WriteUnchanged(rows[k], sent), f)
          /\ object.body = rows[k].current
               => FieldKept(rows[k], WriteSucceeded(rows[k], object.version, object.body), f)
      BY <2>2 DEF FieldKept, WriteFailed, WriteUnchanged, WriteSucceeded, StoreSynced, Rows
    <3> QED BY <2>3, <3>1, <3>2, <3>3 DEF Reported, Outcomes
  <2>7. CASE TransportFails(e)
    <3>1. rows'[k] \in {rows[k], WriteFailed(rows[k]), DeletionFailed(rows[k])}
      BY <2>2, <2>7 DEF TransportFails
    <3>2. /\ FieldKept(rows[k], WriteFailed(rows[k]), f)
          /\ FieldKept(rows[k], DeletionFailed(rows[k]), f)
      BY <2>2 DEF FieldKept, WriteFailed, DeletionFailed, Rows
    <3> QED BY <2>3, <3>1, <3>2
  <2>8. CASE MarkDeletionsUploaded(e)
    <3>1. \/ rows'[k] = rows[k]
          \/ rows'[k] = DeletionUploaded(rows[k], upload[e].answer.version)
      BY <2>8 DEF MarkDeletionsUploaded
    <3>2. FieldKept(rows[k], DeletionUploaded(rows[k], upload[e].answer.version), f)
      BY <2>2 DEF FieldKept, DeletionUploaded, Rows
    <3> QED BY <2>3, <3>1, <3>2
  <2>9. CASE UNCHANGED rows
    BY <2>3, <2>9
  <2> QED BY <2>1, <2>4, <2>5, <2>6, <2>7, <2>8, <2>9
       DEF Starting, StartPull, StartSynchronize, Uploading, Queue, Batch, ServerWrites,
           ServerDeletes, Rejected, Undecodable, Pulling, ReadList, ReadObjects, Fetched,
           CheckStability, Commit, FetchAgain, Faults, Stop, Resend
<1> QED BY <1>1, AlwaysWhole, AlwaysSound, AlwaysBounded, PTL
     DEF Spec, EditsKept, FieldKept
=============================================================================
