------------------------- MODULE LibrarySyncProofs -------------------------
(***************************************************************************)
(* Proofs about LibrarySync for every set of keys, fields, values, engines *)
(* and every bound: its type invariant, and that every version the store   *)
(* keeps or sends was handed out by the server.                            *)
(*                                                                         *)
(* Both come from one inductive invariant, Bounded: every component of the *)
(* state is of its type and carries no version above the server's.  The    *)
(* lemmas on the operators of SyncStore and ServerLibrary say that each    *)
(* maps records bounded by v to records bounded by v; the lemmas on the    *)
(* actions use them one by one.                                            *)
(***************************************************************************)
EXTENDS LibrarySync, TLAPS, FiniteSetTheorems

(***************************************************************************)
(* The inductive invariant                                                 *)
(***************************************************************************)

ConflictsTo(v) == [open : BOOLEAN, version : 0 .. v, body : Body \cup {Null}]

RowsTo(v) ==
    [state     : SyncStates \cup {"absent"},
     isDeleted : BOOLEAN,
     version   : 0 .. v,
     current   : Body,
     pristine  : Body,
     conflict  : ConflictsTo(v),
     upload    : RetryStates,
     delete    : RetryStates,
     shown     : Body \cup {Null}]

ObjectsTo(v) == [live : BOOLEAN, version : 0 .. v, body : Body, deletedAt : Nat]

LibrariesTo(v) == [version : {v}, objects : [Keys -> ObjectsTo(v)]]

AnswersTo(v) ==
    [status : {"none", "precondition", "malformed", "report", "deleted"},
     version : 0 .. v, outcome : [Keys -> Outcomes], objects : [Keys -> ObjectsTo(v)]]

UploadsTo(v) ==
    [version : 0 .. v, stage : Stages, todo : SUBSET Keys, batch : SUBSET Keys,
     sent : [Keys -> RowsTo(v)], answer : AnswersTo(v)]

PullsTo(v) ==
    [since : 0 .. v, try : 1 .. MaxConsistencyAttempts, waiting : SUBSET Requests,
     listed : SUBSET Keys, deleted : SUBSET Keys,
     objects : [Keys -> ObjectsTo(v)], version : 0 .. v, stable : BOOLEAN]

(* A pull that precedes another attempt leaves room for it. *)
RunsLeft == {r \in Runs : r.after = "retry" => r.attempt < MaxPreconditionAttempts}

Writing == {"posting", "posted"}

StoreBounded ==
    /\ rows \in [Keys -> RowsTo(library.version)]
    /\ currentVersion \in 0 .. library.version

JobsBounded ==
    /\ pc \in [Engines -> Phases]
    /\ run \in [Engines -> RunsLeft]
    /\ upload \in [Engines -> UploadsTo(library.version)]
    /\ pull \in [Engines -> PullsTo(library.version)]
    /\ \A e \in Engines : pc[e] \in Writing => upload[e].stage \in 1 .. 2

LibraryBounded ==
    /\ library.version \in Nat
    /\ library \in LibrariesTo(library.version)

Bounded ==
    /\ LibraryBounded
    /\ StoreBounded
    /\ JobsBounded
    /\ budget \in Budgets

(***************************************************************************)
(* Bodies                                                                  *)
(***************************************************************************)

(* The merge and the patch of two bodies are bodies. *)
LEMMA BlankIsBody == Blank \in Body
BY DEF Blank, Body

LEMMA MergedIsBody ==
    ASSUME NEW base \in Body, NEW local \in Body, NEW remote \in Body
    PROVE  Merged(base, local, remote) \in Body
BY DEF Merged, Body

LEMMA PatchedIsBody ==
    ASSUME NEW object, object.body \in Body, NEW body \in Body
    PROVE  Patched(object, body) \in Body
BY DEF Patched, Body

(***************************************************************************)
(* The transactions of the store keep a record within a bound              *)
(***************************************************************************)

LEMMA NoRowBounded == ASSUME NEW v \in Nat PROVE NoRow \in RowsTo(v)
BY BlankIsBody DEF NoRow, RowsTo, NoConflict, ConflictsTo, RetryStates, SyncStates

LEMMA RowsGrow ==
    ASSUME NEW v \in Nat, NEW w \in Nat, v <= w
    PROVE  RowsTo(v) \subseteq RowsTo(w)
BY DEF RowsTo, ConflictsTo

(* What the user does to a record. *)
LEMMA UserKeepsBounds ==
    ASSUME NEW v \in Nat, NEW row \in RowsTo(v), NEW body \in Body
    PROVE  /\ StoreLocal(row, body) \in RowsTo(v)
           /\ MarkLocalDeletion(row) \in RowsTo(v)
           /\ RetryDue(row) \in RowsTo(v)
BY DEF StoreLocal, MarkLocalDeletion, RetryDue, RowsTo, SyncStates, RetryStates

LEMMA NoConflictBounded == ASSUME NEW v \in Nat PROVE NoConflict \in ConflictsTo(v)
BY DEF NoConflict, ConflictsTo

LEMMA ResolveKeepsBounds ==
    ASSUME NEW v \in Nat, NEW row \in RowsTo(v), NEW resolution \in Resolutions,
           CanResolve(row, resolution)
    PROVE  Resolve(row, resolution) \in RowsTo(v)
<1> DEFINE version == row.conflict.version
           body    == row.conflict.body
<1>1. version \in 0 .. v /\ body \in Body \cup {Null}
  BY DEF RowsTo, ConflictsTo
<1>2. NoConflict \in ConflictsTo(v)
  BY NoConflictBounded
<1> HIDE DEF version, body
<1>3. CASE resolution = "keepLocal"
  <2>1. body \in Body
    BY <1>1, <1>3 DEF CanResolve, body
  <2>2. [row EXCEPT !.state = "dirty", !.isDeleted = FALSE, !.version = version,
                    !.pristine = body, !.shown = row.current,
                    !.conflict = NoConflict] \in RowsTo(v)
    BY <1>1, <1>2, <2>1 DEF RowsTo, SyncStates
  <2> QED BY <1>3, <2>2 DEF Resolve, ResolvedKeepLocal, version, body
<1>4. CASE resolution = "keepRemote"
  <2>1. [row EXCEPT !.state = "synced", !.isDeleted = TRUE, !.shown = Null,
                    !.conflict = NoConflict] \in RowsTo(v)
    BY <1>2 DEF RowsTo, SyncStates
  <2>2. body # Null =>
           [row EXCEPT !.state = "synced", !.isDeleted = FALSE, !.version = version,
                       !.current = body, !.pristine = body, !.shown = body,
                       !.conflict = NoConflict] \in RowsTo(v)
    BY <1>1, <1>2 DEF RowsTo, SyncStates
  <2> QED BY <1>4, <2>1, <2>2 DEF Resolve, ResolvedKeepRemote, version, body
<1>5. CASE resolution = "delete"
  <2>1. body \in Body
    BY <1>1, <1>5 DEF CanResolve, body
  <2>2. [row EXCEPT !.state = "deleted", !.isDeleted = TRUE, !.version = version,
                    !.pristine = body, !.shown = Null,
                    !.conflict = NoConflict] \in RowsTo(v)
    BY <1>1, <1>2, <2>1 DEF RowsTo, SyncStates
  <2> QED BY <1>5, <2>2 DEF Resolve, ResolvedDelete, version, body
<1> QED BY <1>3, <1>4, <1>5 DEF Resolutions

(* What a pull does to a record. *)
LEMMA RecordConflictKeepsBounds ==
    ASSUME NEW v \in Nat, NEW row \in RowsTo(v),
           NEW version \in 0 .. v, NEW body \in Body \cup {Null}
    PROVE  RecordConflict(row, version, body) \in RowsTo(v)
BY DEF RecordConflict, RowsTo, SyncStates, ConflictsTo

LEMMA StoreSyncedKeepsBounds ==
    ASSUME NEW v \in Nat, NEW row \in RowsTo(v), NEW version \in 0 .. v, NEW body \in Body
    PROVE  StoreSynced(row, version, body) \in RowsTo(v)
BY DEF StoreSynced, RowsTo, SyncStates

LEMMA IntegrateKeepsBounds ==
    ASSUME NEW v \in Nat, NEW row \in RowsTo(v), NEW version \in 0 .. v, NEW body \in Body
    PROVE  Integrate(row, version, body) \in RowsTo(v)
<1>1. [StoreSynced(row, version, body) EXCEPT !.shown = body] \in RowsTo(v)
  BY StoreSyncedKeepsBounds DEF RowsTo
<1>2. RecordConflict(row, version, body) \in RowsTo(v)
  BY RecordConflictKeepsBounds
<1>3. MergeRemote(row, version, body) \in RowsTo(v)
  <2> DEFINE merged == Merged(row.pristine, row.current, body)
  <2>1. merged \in Body
    BY MergedIsBody DEF RowsTo
  <2> HIDE DEF merged
  <2>2. [row EXCEPT !.state = "dirty", !.isDeleted = FALSE, !.version = version,
                    !.current = merged, !.pristine = body, !.shown = merged,
                    !.conflict = NoConflict] \in RowsTo(v)
    BY <2>1, NoConflictBounded DEF RowsTo, SyncStates
  <2> QED BY <1>2, <2>2 DEF MergeRemote, merged
<1> QED BY <1>1, <1>3 DEF Integrate

LEMMA ApplyRemoteDeletionKeepsBounds ==
    ASSUME NEW v \in Nat, NEW row \in RowsTo(v), NEW version \in 0 .. v
    PROVE  ApplyRemoteDeletion(row, version) \in RowsTo(v)
<1>1. RecordConflict(row, 0, Null) \in RowsTo(v)
  BY RecordConflictKeepsBounds
<1>2. [row EXCEPT !.state = "synced", !.isDeleted = TRUE, !.version = version,
                  !.shown = Null] \in RowsTo(v)
  BY DEF RowsTo, SyncStates
<1> QED BY <1>1, <1>2 DEF ApplyRemoteDeletion

(* What the answers to an upload do to a record. *)
LEMMA AnswersKeepBounds ==
    ASSUME NEW v \in Nat, NEW row \in RowsTo(v), NEW version \in 0 .. v
    PROVE  /\ WriteFailed(row) \in RowsTo(v)
           /\ DeletionUploaded(row, version) \in RowsTo(v)
           /\ DeletionFailed(row) \in RowsTo(v)
BY DEF WriteFailed, DeletionUploaded, DeletionFailed, RowsTo, SyncStates, RetryStates

LEMMA ReportedKeepsBounds ==
    ASSUME NEW v \in Nat, NEW row \in RowsTo(v), NEW sent \in RowsTo(v),
           NEW outcome \in Outcomes, NEW object \in ObjectsTo(v)
    PROVE  Reported(row, sent, outcome, object) \in RowsTo(v)
<1>1. WriteSucceeded(row, object.version, object.body) \in RowsTo(v)
  <2>1. StoreSynced(row, object.version, object.body) \in RowsTo(v)
    BY StoreSyncedKeepsBounds DEF ObjectsTo
  <2> QED BY <2>1 DEF WriteSucceeded, RowsTo, RetryStates, ObjectsTo
<1>2. WriteUnchanged(row, sent) \in RowsTo(v)
  <2>1. StoreSynced(row, sent.version, sent.current) \in RowsTo(v)
    BY StoreSyncedKeepsBounds DEF RowsTo
  <2> QED BY <2>1 DEF WriteUnchanged, RowsTo, RetryStates
<1>3. WriteFailed(row) \in RowsTo(v)
  BY AnswersKeepBounds
<1> QED BY <1>1, <1>2, <1>3 DEF Reported, Outcomes

(***************************************************************************)
(* The requests of the server raise the library version by what they write *)
(***************************************************************************)

LEMMA NoObjectBounded == ASSUME NEW v \in Nat PROVE NoObject \in ObjectsTo(v)
BY BlankIsBody DEF NoObject, ObjectsTo

LEMMA ObjectsGrow ==
    ASSUME NEW v \in Nat, NEW w \in Nat, v <= w
    PROVE  ObjectsTo(v) \subseteq ObjectsTo(w)
BY DEF ObjectsTo

LEMMA AnswersGrow ==
    ASSUME NEW v \in Nat, NEW w \in Nat, v <= w
    PROVE  AnswersTo(v) \subseteq AnswersTo(w)
BY ObjectsGrow DEF AnswersTo

LEMMA StoredBounded ==
    ASSUME NEW v \in Nat, NEW object \in ObjectsTo(v), NEW version \in 0 .. v, NEW body \in Body
    PROVE  Stored(object, version, body) \in ObjectsTo(v)
BY DEF Stored, ObjectsTo

LEMMA AnswerBounded ==
    ASSUME NEW v \in Nat, NEW version \in 0 .. v,
           NEW status \in {"none", "precondition", "malformed", "report", "deleted"}
    PROVE  Answer(status, version) \in AnswersTo(v)
BY NoObjectBounded DEF Answer, AnswersTo, Outcomes

LEMMA RankBounded ==
    ASSUME NEW batch \in SUBSET Keys, NEW written \in SUBSET batch, NEW order, NEW k
    PROVE  /\ Cardinality(written) \in Nat
           /\ Rank(order, written, k) \in 0 .. Cardinality(written)
<1>1. IsFiniteSet(written)
  BY LibraryAssumption, FS_Subset
<1>2. IsFiniteSet({l \in written : order[l] <= order[k]})
  BY <1>1, FS_Subset
<1>3. Cardinality({l \in written : order[l] <= order[k]}) <= Cardinality(written)
  BY <1>1, FS_Subset
<1> QED BY <1>1, <1>2, <1>3, FS_CardinalityType DEF Rank

(* What a handler returns: a library no older than the one it was given,   *)
(* and an answer that names no version above it.                           *)
Served(v, result) ==
    /\ result.library.version \in Nat
    /\ v <= result.library.version
    /\ result.library \in LibrariesTo(result.library.version)
    /\ result.answer \in AnswersTo(result.library.version)

LEMMA AnswerOnlyServed ==
    ASSUME NEW v \in Nat, NEW lib \in LibrariesTo(v),
           NEW status \in {"none", "precondition", "malformed", "report", "deleted"}
    PROVE  Served(v, [library |-> lib, answer |-> Answer(status, lib.version)])
BY AnswerBounded DEF Served, LibrariesTo

LEMMA WriteBatchServed ==
    ASSUME NEW v \in Nat, NEW lib \in LibrariesTo(v),
           NEW batch \in SUBSET Keys, NEW order, NEW bodies \in [batch -> Body],
           NEW failed, NEW same, NEW written \in SUBSET batch
    PROVE  Served(v, WriteBatch(lib, order, bodies, failed, same, written))
<1> DEFINE w == v + Cardinality(written)
           objects == [k \in Keys |->
                         IF k \in written
                         THEN Stored(lib.objects[k], v + Rank(order, written, k), bodies[k])
                         ELSE lib.objects[k]]
<1>1. w \in Nat /\ v <= w
  BY RankBounded
<1>2. ASSUME NEW k \in Keys PROVE objects[k] \in ObjectsTo(w)
  <2>1. lib.objects[k] \in ObjectsTo(w)
    BY <1>1, ObjectsGrow DEF LibrariesTo
  <2>2. ASSUME k \in written
        PROVE  Stored(lib.objects[k], v + Rank(order, written, k), bodies[k]) \in ObjectsTo(w)
    <3>1. v + Rank(order, written, k) \in 0 .. w
      BY RankBounded
    <3>2. bodies[k] \in Body
      BY <2>2
    <3> HIDE DEF w
    <3> QED BY <1>1, <2>1, <3>1, <3>2, StoredBounded
  <2> QED BY <2>1, <2>2
<1>3. lib.version = v
  BY DEF LibrariesTo
<1> DEFINE result == WriteBatch(lib, order, bodies, failed, same, written)
<1>4. result.library = [version |-> w, objects |-> objects]
  BY <1>3 DEF WriteBatch
<1>5. result.answer \in AnswersTo(w)
  <2>1. result.answer =
          [status  |-> "report",
           version |-> w,
           outcome |-> [k \in Keys |->
                          CASE k \in failed         -> "failed"
                            [] k \in same           -> "unchanged"
                            [] k \in written \ same -> "successful"
                            [] OTHER                -> "none"],
           objects |-> [k \in Keys |->
                          IF k \in written \ same THEN objects[k] ELSE NoObject]]
    BY <1>3 DEF WriteBatch
  <2>2. NoObject \in ObjectsTo(w)
    BY <1>1, NoObjectBounded
  <2> HIDE DEF w, objects, result
  <2> QED BY <1>1, <1>2, <2>1, <2>2 DEF AnswersTo, Outcomes
<1> HIDE DEF w, objects, result
<1>6. result.library \in LibrariesTo(w)
  BY <1>2, <1>4 DEF LibrariesTo, objects
<1> QED BY <1>1, <1>4, <1>5, <1>6 DEF Served, result

(* The versions of the related items that are written follow on.           *)
LEMMA LinkBackBounded ==
    ASSUME NEW v \in Nat, NEW lib \in LibrariesTo(v), NEW written \in SUBSET Keys
    PROVE  /\ LinkBack(lib, written).version \in Nat
           /\ v <= LinkBack(lib, written).version
           /\ LinkBack(lib, written) \in LibrariesTo(LinkBack(lib, written).version)
<1> DEFINE targets == {k \in UNION {Related[l] : l \in written} : lib.objects[k].live}
           rank(k) == Rank(Listed(targets), targets, k)
           w == v + Cardinality(targets)
           objects == [k \in Keys |->
                         IF k \in targets
                         THEN Stored(lib.objects[k], v + rank(k), Linked[lib.objects[k].body])
                         ELSE lib.objects[k]]
<1>1. lib.version = v /\ targets \in SUBSET Keys
  BY LibraryAssumption DEF LibrariesTo, Keys
<1>2. LinkBack(lib, written) = [version |-> w, objects |-> objects]
  BY <1>1 DEF LinkBack
<1> HIDE DEF targets
<1>3. Cardinality(targets) \in Nat /\ \A k : rank(k) \in 0 .. Cardinality(targets)
  BY <1>1, RankBounded
<1> HIDE DEF rank
<1>4. w \in Nat /\ v <= w /\ \A k : v + rank(k) \in 0 .. w
  BY <1>3
<1>5. ASSUME NEW k \in Keys PROVE objects[k] \in ObjectsTo(w)
  <2> HIDE DEF w
  <2>1. lib.objects[k] \in ObjectsTo(w)
    BY <1>4, ObjectsGrow DEF LibrariesTo
  <2>2. Linked[lib.objects[k].body] \in Body
    BY <2>1, LibraryAssumption DEF ObjectsTo
  <2>3. Stored(lib.objects[k], v + rank(k), Linked[lib.objects[k].body]) \in ObjectsTo(w)
    BY <1>4, <2>1, <2>2, StoredBounded
  <2> QED BY <2>1, <2>3
<1> HIDE DEF w, objects
<1>6. [version |-> w, objects |-> objects] \in LibrariesTo(w)
  BY <1>5 DEF LibrariesTo, objects
<1> QED BY <1>2, <1>4, <1>6

LEMMA WithLinksBackServed ==
    ASSUME NEW v \in Nat, NEW result, Served(v, result), NEW written \in SUBSET Keys
    PROVE  Served(v, WithLinksBack(result, written))
<1> DEFINE lib == result.library
           linked == LinkBack(lib, written)
<1>1. lib.version \in Nat /\ v <= lib.version /\ lib \in LibrariesTo(lib.version)
  BY DEF Served
<1>2. /\ linked.version \in Nat /\ lib.version <= linked.version
      /\ linked \in LibrariesTo(linked.version)
  <2> HIDE DEF lib
  <2> QED BY <1>1, LinkBackBounded
<1>3. [result.answer EXCEPT !.version = linked.version] \in AnswersTo(linked.version)
  <2>1. result.answer \in AnswersTo(linked.version)
    BY <1>1, <1>2, AnswersGrow DEF Served
  <2> HIDE DEF linked
  <2> QED BY <1>2, <2>1 DEF AnswersTo
<1>4. v <= linked.version
  BY <1>1, <1>2
<1> QED BY <1>2, <1>3, <1>4 DEF WithLinksBack, Served

LEMMA PatchedBatch ==
    ASSUME NEW v \in Nat, NEW lib \in LibrariesTo(v), NEW batch \in SUBSET Keys,
           NEW sent \in [Keys -> RowsTo(v)]
    PROVE  [k \in batch |-> Patched(lib.objects[k], sent[k].current)] \in [batch -> Body]
<1>1. ASSUME NEW k \in batch
      PROVE  Patched(lib.objects[k], sent[k].current) \in Body
  <2>1. lib.objects[k].body \in Body /\ sent[k].current \in Body
    BY DEF LibrariesTo, ObjectsTo, RowsTo
  <2> QED BY <2>1, PatchedIsBody
<1> QED BY <1>1

LEMMA UploadItemsServed ==
    ASSUME NEW v \in Nat, NEW lib \in LibrariesTo(v), NEW batch \in SUBSET Keys,
           NEW order, NEW sent \in [Keys -> RowsTo(v)], NEW header
    PROVE  Served(v, UploadItems(lib, batch, order, sent, header))
<1> DEFINE bodies == [k \in batch |-> Patched(lib.objects[k], sent[k].current)]
<1>1. bodies \in [batch -> Body]
  BY PatchedBatch
<1>2. \A failed, same :
         LET written == batch \ (failed \cup same)
         IN  Served(v, WithLinksBack(WriteBatch(lib, order, bodies, failed, same, written),
                                     written))
  <2> TAKE failed, same
  <2> DEFINE written == batch \ (failed \cup same)
  <2>1. written \in SUBSET batch /\ written \in SUBSET Keys
    OBVIOUS
  <2> HIDE DEF bodies, written
  <2>2. Served(v, WriteBatch(lib, order, bodies, failed, same, written))
    BY <1>1, <2>1, WriteBatchServed
  <2>3. Served(v, WithLinksBack(WriteBatch(lib, order, bodies, failed, same, written), written))
    BY <2>1, <2>2, WithLinksBackServed
  <2> QED BY <2>3 DEF written
<1>3. /\ Served(v, [library |-> lib, answer |-> Answer("precondition", lib.version)])
      /\ Served(v, [library |-> lib, answer |-> Answer("malformed", lib.version)])
  BY AnswerOnlyServed
<1> QED BY <1>2, <1>3 DEF UploadItems

LEMMA UploadCollectionsServed ==
    ASSUME NEW v \in Nat, NEW lib \in LibrariesTo(v), NEW batch \in SUBSET Keys,
           NEW order, NEW sent \in [Keys -> RowsTo(v)], NEW header
    PROVE  Served(v, UploadCollections(lib, batch, order, sent, header))
<1> DEFINE bodies == [k \in batch |-> Patched(lib.objects[k], sent[k].current)]
<1>1. bodies \in [batch -> Body]
  BY PatchedBatch
<1>2. \A failed, same : Served(v, WriteBatch(lib, order, bodies, failed, same, batch \ failed))
  <2> TAKE failed, same
  <2>1. batch \ failed \in SUBSET batch
    OBVIOUS
  <2> HIDE DEF bodies
  <2> QED BY <1>1, <2>1, WriteBatchServed
<1>3. Served(v, [library |-> lib, answer |-> Answer("precondition", lib.version)])
  BY AnswerOnlyServed
<1> QED BY <1>2, <1>3 DEF UploadCollections

LEMMA ErasedBounded ==
    ASSUME NEW v \in Nat, NEW lib \in LibrariesTo(v), NEW keys
    PROVE  Erased(lib, keys, v + 1) \in LibrariesTo(v + 1)
<1>1. [NoObject EXCEPT !.version = v + 1, !.deletedAt = v + 1] \in ObjectsTo(v + 1)
  <2>1. v + 1 \in Nat /\ v + 1 \in 0 .. v + 1
    OBVIOUS
  <2>2. NoObject \in ObjectsTo(v + 1)
    BY <2>1, NoObjectBounded
  <2> QED BY <2>1, <2>2 DEF ObjectsTo
<1>2. \A k \in Keys : lib.objects[k] \in ObjectsTo(v + 1)
  BY ObjectsGrow DEF LibrariesTo
<1> QED BY <1>1, <1>2 DEF Erased, LibrariesTo

LEMMA ErasedServed ==
    ASSUME NEW v \in Nat, NEW lib \in LibrariesTo(v), NEW keys
    PROVE  Served(v, [library |-> Erased(lib, keys, lib.version + 1),
                      answer  |-> Answer("deleted", lib.version + 1)])
<1>1. lib.version = v
  BY DEF LibrariesTo
<1>2. Erased(lib, keys, v + 1) \in LibrariesTo(v + 1)
  BY ErasedBounded
<1>3. Answer("deleted", v + 1) \in AnswersTo(v + 1)
  BY AnswerBounded
<1> QED BY <1>1, <1>2, <1>3 DEF Served, LibrariesTo

LEMMA DeletionsServed ==
    ASSUME NEW v \in Nat, NEW lib \in LibrariesTo(v), NEW keys, NEW header
    PROVE  /\ Served(v, DeleteItems(lib, keys, header))
           /\ Served(v, DeleteCollections(lib, keys, header))
<1>1. Served(v, [library |-> Erased(lib, Subtree(lib, keys), lib.version + 1),
                 answer  |-> Answer("deleted", lib.version + 1)])
  BY ErasedServed
<1>2. /\ Served(v, [library |-> lib, answer |-> Answer("deleted", lib.version)])
      /\ Served(v, [library |-> lib, answer |-> Answer("precondition", lib.version)])
  BY AnswerOnlyServed
<1> QED BY <1>1, <1>2 DEF DeleteItems, DeleteCollections

(***************************************************************************)
(* The initial states                                                      *)
(***************************************************************************)

LEMMA NoJobBounded ==
    ASSUME NEW v \in Nat
    PROVE  /\ NoUpload \in UploadsTo(v)
           /\ NoPull \in PullsTo(v)
           /\ NotRunning \in RunsLeft
<1>1. NotSent \in [Keys -> RowsTo(v)] /\ NoObjects \in [Keys -> ObjectsTo(v)]
  BY NoRowBounded, NoObjectBounded DEF NotSent, NoObjects
<1>2. NoAnswer \in AnswersTo(v)
  BY AnswerBounded DEF NoAnswer
<1>3. NoUpload \in UploadsTo(v)
  BY <1>1, <1>2 DEF NoUpload, UploadsTo, Stages
<1>4. 1 \in 1 .. MaxConsistencyAttempts /\ 1 \in 1 .. MaxPreconditionAttempts
  BY SyncAssumption
<1>5. NoPull \in PullsTo(v)
  BY <1>1, <1>4 DEF NoPull, PullsTo
<1>6. NotRunning \in RunsLeft
  BY <1>4 DEF NotRunning, RunsLeft, Runs, AfterPull
<1> QED BY <1>3, <1>5, <1>6

LEMMA NoUploadBounded ==
    ASSUME NEW v \in Nat, NEW version \in 0 .. v
    PROVE  [NoUpload EXCEPT !.version = version] \in UploadsTo(v)
<1>1. NoUpload \in UploadsTo(v)
  BY NoJobBounded
<1> QED BY <1>1 DEF UploadsTo

LEMMA PullStartedBounded ==
    ASSUME NEW v \in Nat, NEW since \in 0 .. v, NEW try \in 1 .. MaxConsistencyAttempts
    PROVE  PullStarted(since, try) \in PullsTo(v)
<1>1. NoPull \in PullsTo(v)
  BY NoJobBounded
<1> QED BY <1>1 DEF PullStarted, PullsTo

LEMMA InitBounded == Init => Bounded
<1> SUFFICES ASSUME Init PROVE Bounded
  OBVIOUS
<1> DEFINE v == Cardinality(Known)
<1>1. v \in Nat
  BY LibraryAssumption, SyncAssumption, FS_Subset, FS_CardinalityType
<1>2. PICK order \in UploadOrders(Known) :
          /\ rows = [k \in Keys |-> IF k \in Known THEN Integrate(NoRow, order[k], InitialBody)
                                   ELSE NoRow]
          /\ library = [version |-> v,
                        objects |-> [k \in Keys |-> IF k \in Known
                                                   THEN Stored(NoObject, order[k], InitialBody)
                                                   ELSE NoObject]]
  BY DEF Init
<1>3. \A k \in Known : order[k] \in 0 .. v
  BY <1>1 DEF UploadOrders
<1>4. InitialBody \in Body
  BY SyncAssumption
<1>5. NoRow \in RowsTo(v) /\ NoObject \in ObjectsTo(v)
  BY <1>1, NoRowBounded, NoObjectBounded
<1> HIDE DEF v
<1>6. \A k \in Known : /\ Integrate(NoRow, order[k], InitialBody) \in RowsTo(v)
                       /\ Stored(NoObject, order[k], InitialBody) \in ObjectsTo(v)
  BY <1>1, <1>3, <1>4, <1>5, IntegrateKeepsBounds, StoredBounded
<1>7. library.version = v
  BY <1>2
<1>8. LibraryBounded
  BY <1>1, <1>2, <1>5, <1>6 DEF LibraryBounded, LibrariesTo
<1>9. StoreBounded
  <2>1. currentVersion = v
    BY DEF Init, v
  <2> QED BY <1>1, <1>2, <1>5, <1>6, <1>7, <2>1 DEF StoreBounded
<1>10. JobsBounded
  <2>1. /\ NoUpload \in UploadsTo(v)
        /\ NoPull \in PullsTo(v)
        /\ NotRunning \in RunsLeft
    BY <1>1, NoJobBounded
  <2> QED BY <1>7, <2>1 DEF Init, JobsBounded, Phases, Writing
<1>11. budget \in Budgets
  BY SyncAssumption DEF Init, Budgets
<1> QED BY <1>8, <1>9, <1>10, <1>11 DEF Bounded

(***************************************************************************)
(* Steps of the user and of other clients                                  *)
(***************************************************************************)

LEMMA SpendKeepsBudget ==
    ASSUME budget \in Budgets, NEW what \in {"edits", "remote", "faults"}, Spend(what)
    PROVE  budget' \in Budgets
BY DEF Spend, Budgets

(* A transaction of the store that touches records only. *)
LEMMA RowStepBounded ==
    ASSUME Bounded, rows' \in [Keys -> RowsTo(library.version)], budget' \in Budgets,
           UNCHANGED <<currentVersion, library, pc, run, upload, pull>>
    PROVE  Bounded'
BY DEF Bounded, LibraryBounded, StoreBounded, JobsBounded

LEMMA UserBounded == ASSUME Bounded, User PROVE Bounded'
<1> DEFINE v == library.version
<1>1. /\ v \in Nat
      /\ rows \in [Keys -> RowsTo(v)]
      /\ \A k \in Keys : rows[k] \in RowsTo(v)
  BY DEF Bounded, LibraryBounded, StoreBounded
<1>2. \A body \in Bodies : body \in Body
  BY SyncAssumption
<1>3. ASSUME NEW keys, UserActs(keys), rows' \in [Keys -> RowsTo(v)] PROVE Bounded'
  <2>1. budget' \in Budgets
    BY <1>3, SpendKeepsBudget DEF UserActs, Bounded
  <2> QED BY <1>3, <2>1, RowStepBounded DEF UserActs
<1>4. ASSUME NEW k \in Keys, NEW body \in Bodies, Create(k, body) \/ Edit(k, body)
      PROVE  Bounded'
  <2>1. UserActs({k}) /\ rows' = [rows EXCEPT ![k] = StoreLocal(rows[k], body)]
    BY <1>4 DEF Create, Edit
  <2>2. StoreLocal(rows[k], body) \in RowsTo(v)
    BY <1>1, <1>2, UserKeepsBounds
  <2> QED BY <1>1, <1>3, <2>1, <2>2
<1>5. ASSUME NEW k \in Keys, Delete(k) PROVE Bounded'
  <2>1. /\ UserActs(DeletedWith(k))
        /\ rows' = [l \in Keys |-> IF l \in DeletedWith(k) THEN MarkLocalDeletion(rows[l])
                                    ELSE rows[l]]
    BY <1>5 DEF Delete
  <2>2. \A l \in Keys : MarkLocalDeletion(rows[l]) \in RowsTo(v)
    BY <1>1, BlankIsBody, UserKeepsBounds
  <2> QED BY <1>1, <1>3, <2>1, <2>2
<1>6. ASSUME NEW k \in Keys, RetriesDue(k) PROVE Bounded'
  <2>1. RetryDue(rows[k]) \in RowsTo(v)
    BY <1>1, BlankIsBody, UserKeepsBounds
  <2>2. rows' \in [Keys -> RowsTo(v)] /\ budget' \in Budgets
    BY <1>1, <1>6, <2>1 DEF RetriesDue, Bounded
  <2> QED BY <1>6, <2>2, RowStepBounded DEF RetriesDue
<1>7. ASSUME NEW k \in Keys, NEW resolution \in Resolutions, ResolveConflict(k, resolution)
      PROVE  Bounded'
  <2>1. UserActs({k}) /\ rows' = [rows EXCEPT ![k] = Resolve(rows[k], resolution)]
    BY <1>7 DEF ResolveConflict
  <2>2. Resolve(rows[k], resolution) \in RowsTo(v)
    BY <1>1, <1>7, ResolveKeepsBounds DEF ResolveConflict
  <2> QED BY <1>1, <1>3, <2>1, <2>2
<1> QED BY <1>4, <1>5, <1>6, <1>7 DEF User

(* A newer library leaves every bound that held below it. *)
LEMMA JobsGrow ==
    ASSUME NEW v \in Nat, NEW w \in Nat, v <= w
    PROVE  UploadsTo(v) \subseteq UploadsTo(w) /\ PullsTo(v) \subseteq PullsTo(w)
BY ObjectsGrow, RowsGrow, AnswersGrow DEF UploadsTo, PullsTo

LEMMA LibraryStepBounded ==
    ASSUME Bounded, LibraryBounded', library.version <= library'.version,
           budget' \in Budgets, UNCHANGED <<rows, currentVersion, pc, run, upload, pull>>
    PROVE  Bounded'
<1>1. library.version \in Nat /\ library'.version \in Nat
  BY DEF Bounded, LibraryBounded
<1>2. StoreBounded'
  BY <1>1, RowsGrow DEF Bounded, StoreBounded
<1>3. JobsBounded'
  <2>1. upload' \in [Engines -> UploadsTo(library'.version)]
    BY <1>1, JobsGrow DEF Bounded, JobsBounded
  <2>2. pull' \in [Engines -> PullsTo(library'.version)]
    BY <1>1, JobsGrow DEF Bounded, JobsBounded
  <2> QED BY <2>1, <2>2 DEF Bounded, JobsBounded
<1> QED BY <1>2, <1>3 DEF Bounded

LEMMA OtherClientsBounded == ASSUME Bounded, OtherClients PROVE Bounded'
<1> DEFINE v == library.version
           objects == library.objects
<1>1. /\ v \in Nat /\ v + 1 \in Nat /\ v <= v + 1
      /\ library \in LibrariesTo(v)
      /\ \A k \in Keys : objects[k] \in ObjectsTo(v) /\ objects[k] \in ObjectsTo(v + 1)
      /\ objects \in [Keys -> ObjectsTo(v + 1)]
  BY ObjectsGrow DEF Bounded, LibraryBounded, LibrariesTo
<1>2. RemoteActs => budget' \in Budgets
  BY SpendKeepsBudget DEF RemoteActs, Bounded
<1>3. ASSUME NEW k \in Keys, NEW body \in Bodies, RemoteWrite(k, body) PROVE Bounded'
  <2> DEFINE lib == [version |-> v + 1,
                     objects |-> [objects EXCEPT ![k] = Stored(objects[k], v + 1, body)]]
  <2>1. library' = LinkBack(lib, {k})
    BY <1>3 DEF RemoteWrite
  <2>2. Stored(objects[k], v + 1, body) \in ObjectsTo(v + 1)
    <3>1. body \in Body /\ v + 1 \in 0 .. v + 1
      BY <1>1, SyncAssumption
    <3> HIDE DEF v, objects
    <3> QED BY <1>1, <3>1, StoredBounded
  <2>3. LibraryBounded' /\ v <= library'.version
    <3>1. lib \in LibrariesTo(v + 1) /\ {k} \in SUBSET Keys
      BY <1>1, <2>2 DEF LibrariesTo
    <3> HIDE DEF lib
    <3>2. /\ library'.version \in Nat /\ v + 1 <= library'.version
          /\ library' \in LibrariesTo(library'.version)
      BY <1>1, <2>1, <3>1, LinkBackBounded
    <3> QED BY <1>1, <3>2 DEF LibraryBounded
  <2>4. RemoteActs
    BY <1>3 DEF RemoteWrite
  <2> QED BY <1>1, <1>2, <2>3, <2>4, LibraryStepBounded DEF RemoteActs
<1>4. ASSUME NEW k \in Keys, RemoteDelete(k) PROVE Bounded'
  <2>1. library' = Erased(library, Subtree(library, {k}), v + 1) /\ RemoteActs
    BY <1>4 DEF RemoteDelete
  <2>2. library' \in LibrariesTo(v + 1)
    BY <1>1, <2>1, ErasedBounded
  <2>3. LibraryBounded' /\ library'.version = v + 1
    BY <1>1, <2>2 DEF LibraryBounded, LibrariesTo
  <2> QED BY <1>1, <1>2, <2>1, <2>3, LibraryStepBounded DEF RemoteActs
<1> QED BY <1>3, <1>4 DEF OtherClients

(***************************************************************************)
(* Steps of an engine                                                      *)
(***************************************************************************)

(* The changes to the locals of engine e that leave them bounded. *)
LEMMA JobStepBounded ==
    ASSUME Bounded, UNCHANGED library, NEW e \in Engines,
           NEW p \in Phases, NEW r \in RunsLeft,
           NEW u \in UploadsTo(library.version), NEW q \in PullsTo(library.version),
           p \in Writing => u.stage \in 1 .. 2,
           pc' = [pc EXCEPT ![e] = p], run' = [run EXCEPT ![e] = r],
           upload' = [upload EXCEPT ![e] = u], pull' = [pull EXCEPT ![e] = q]
    PROVE  JobsBounded'
<1>1. pc' \in [Engines -> Phases] /\ run' \in [Engines -> RunsLeft]
  BY DEF Bounded, JobsBounded
<1>2. /\ upload' \in [Engines -> UploadsTo(library'.version)]
      /\ pull' \in [Engines -> PullsTo(library'.version)]
  BY DEF Bounded, JobsBounded
<1>3. \A f \in Engines : pc'[f] \in Writing => upload'[f].stage \in 1 .. 2
  BY DEF Bounded, JobsBounded
<1> QED BY <1>1, <1>2, <1>3 DEF JobsBounded

LEMMA JobFacts ==
    ASSUME Bounded, NEW e \in Engines
    PROVE  /\ library.version \in Nat
           /\ currentVersion \in 0 .. library.version
           /\ pc[e] \in Phases /\ run[e] \in RunsLeft
           /\ upload[e] \in UploadsTo(library.version)
           /\ pull[e] \in PullsTo(library.version)
           /\ pc[e] \in Writing => upload[e].stage \in 1 .. 2
BY DEF Bounded, LibraryBounded, StoreBounded, JobsBounded

LEMMA FinishBounded ==
    ASSUME Bounded, UNCHANGED library, NEW e \in Engines, Finish(e)
    PROVE  JobsBounded'
<1>1. /\ NoUpload \in UploadsTo(library.version)
      /\ NoPull \in PullsTo(library.version)
      /\ NotRunning \in RunsLeft
  BY JobFacts, NoJobBounded
<1>2. "idle" \in Phases /\ "idle" \notin Writing
  BY DEF Phases, Writing
<1> QED BY <1>1, <1>2, JobStepBounded DEF Finish

LEMMA BeginUploadBounded ==
    ASSUME Bounded, UNCHANGED library, NEW e \in Engines,
           NEW version \in 0 .. library.version, NEW attempt, NEW after,
           [attempt |-> attempt, after |-> after] \in RunsLeft,
           BeginUpload(e, version, attempt, after)
    PROVE  JobsBounded'
<1>1. /\ [NoUpload EXCEPT !.version = version] \in UploadsTo(library.version)
      /\ NoPull \in PullsTo(library.version)
  BY JobFacts, NoJobBounded, NoUploadBounded
<1>2. "queueing" \in Phases /\ "queueing" \notin Writing
  BY DEF Phases, Writing
<1> QED BY <1>1, <1>2, JobStepBounded DEF BeginUpload

LEMMA BeginPullBounded ==
    ASSUME Bounded, UNCHANGED library, NEW e \in Engines, NEW after,
           [run[e] EXCEPT !.after = after] \in RunsLeft, BeginPull(e, after)
    PROVE  JobsBounded'
<1>1. NoUpload \in UploadsTo(library.version)
  BY JobFacts, NoJobBounded
<1>2. PullStarted(currentVersion, 1) \in PullsTo(library.version)
  <2>1. 1 \in 1 .. MaxConsistencyAttempts
    BY SyncAssumption
  <2> QED BY <2>1, JobFacts, PullStartedBounded
<1>3. "fetching" \in Phases /\ "fetching" \notin Writing
  BY DEF Phases, Writing
<1>4. run' = [run EXCEPT ![e] = [run[e] EXCEPT !.after = after]]
  BY DEF BeginPull
<1> QED BY <1>1, <1>2, <1>3, <1>4, JobStepBounded DEF BeginPull

LEMMA StartingBounded ==
    ASSUME Bounded, NEW e \in Engines, Starting(e)
    PROVE  Bounded'
<1>1. UNCHANGED <<rows, currentVersion, library, budget>>
  BY DEF Starting, StartPull, StartSynchronize
<1>2. CASE StartPull(e)
  <2>1. [run[e] EXCEPT !.after = "done"] \in RunsLeft
    BY JobFacts DEF RunsLeft, Runs, AfterPull
  <2>2. JobsBounded'
    BY <1>1, <1>2, <2>1, BeginPullBounded DEF StartPull
  <2> QED BY <1>1, <2>2 DEF Bounded, LibraryBounded, StoreBounded
<1>3. CASE StartSynchronize(e)
  <2>1. [attempt |-> 1, after |-> "upload"] \in RunsLeft
    BY SyncAssumption DEF RunsLeft, Runs, AfterPull
  <2>2. JobsBounded'
    BY <1>1, <1>3, <2>1, JobFacts, BeginUploadBounded DEF StartSynchronize
  <2> QED BY <1>1, <2>2 DEF Bounded, LibraryBounded, StoreBounded
<1> QED BY <1>2, <1>3 DEF Starting

LEMMA PreconditionFailedBounded ==
    ASSUME Bounded, UNCHANGED library, NEW e \in Engines, PreconditionFailed(e)
    PROVE  JobsBounded'
<1>1. CASE run[e].attempt < MaxPreconditionAttempts
  <2>1. [run[e] EXCEPT !.after = "retry"] \in RunsLeft
    BY <1>1, JobFacts DEF RunsLeft, Runs, AfterPull
  <2> QED BY <1>1, <2>1, BeginPullBounded DEF PreconditionFailed
<1>2. CASE ~(run[e].attempt < MaxPreconditionAttempts)
  BY <1>2, FinishBounded DEF PreconditionFailed
<1> QED BY <1>1, <1>2

LEMMA NextStageBounded ==
    ASSUME Bounded, UNCHANGED library, NEW e \in Engines, NextStage(e)
    PROVE  JobsBounded'
<1>1. CASE upload[e].stage < 4
  <2> DEFINE u == [upload[e] EXCEPT !.stage = @ + 1]
  <2>1. u \in UploadsTo(library.version)
    BY <1>1, JobFacts DEF UploadsTo, Stages
  <2>2. upload' = [upload EXCEPT ![e] = u] /\ pc' = [pc EXCEPT ![e] = "queueing"]
    BY <1>1 DEF NextStage
  <2>3. run' = [run EXCEPT ![e] = run[e]] /\ pull' = [pull EXCEPT ![e] = pull[e]]
    BY <1>1 DEF NextStage, Bounded, JobsBounded
  <2>4. "queueing" \in Phases /\ "queueing" \notin Writing
    BY DEF Phases, Writing
  <2> HIDE DEF u
  <2> QED BY <2>1, <2>2, <2>3, <2>4, JobFacts, JobStepBounded
<1>2. CASE ~(upload[e].stage < 4) /\ run[e].after = "upload"
  <2>1. [run[e] EXCEPT !.after = "upload"] \in RunsLeft
    BY JobFacts DEF RunsLeft, Runs, AfterPull
  <2> QED BY <1>2, <2>1, BeginPullBounded DEF NextStage
<1>3. CASE ~(upload[e].stage < 4) /\ run[e].after # "upload"
  BY <1>3, FinishBounded DEF NextStage
<1> QED BY <1>1, <1>2, <1>3

LEMMA QueueBounded == ASSUME Bounded, NEW e \in Engines, Queue(e) PROVE Bounded'
<1> DEFINE keys == StageKeys(upload[e].stage)
           todo == IF upload[e].stage <= 2
                   THEN {k \in keys : PendingUpload(rows[k])}
                   ELSE {k \in keys : PendingDeletion(rows[k])}
           sent == [k \in Keys |-> IF k \in todo THEN rows[k] ELSE NoRow]
           u    == [upload[e] EXCEPT !.todo = todo, !.sent = sent]
<1>1. UNCHANGED <<rows, currentVersion, library, budget>>
  BY DEF Queue
<1>2. JobsBounded'
  <2>1. CASE todo = {}
    BY <1>1, <2>1, NextStageBounded DEF Queue
  <2>2. CASE todo # {}
    <3>1. todo \in SUBSET Keys
      BY DEF StageKeys, Keys
    <3>2. sent \in [Keys -> RowsTo(library.version)]
      BY JobFacts, NoRowBounded DEF Bounded, StoreBounded
    <3>3. /\ upload' = [upload EXCEPT ![e] = u]
          /\ pc' = [pc EXCEPT ![e] = "batching"]
      BY <2>2 DEF Queue
    <3>4. run' = [run EXCEPT ![e] = run[e]] /\ pull' = [pull EXCEPT ![e] = pull[e]]
      BY <2>2 DEF Queue, Bounded, JobsBounded
    <3> HIDE DEF todo, sent
    <3>5. u \in UploadsTo(library.version)
      BY <3>1, <3>2, JobFacts DEF UploadsTo
    <3>6. "batching" \in Phases /\ "batching" \notin Writing
      BY DEF Phases, Writing
    <3> HIDE DEF u
    <3> QED BY <1>1, <3>3, <3>4, <3>5, <3>6, JobFacts, JobStepBounded
  <2> QED BY <2>1, <2>2
<1> QED BY <1>1, <1>2 DEF Bounded, LibraryBounded, StoreBounded

LEMMA BatchBounded ==
    ASSUME Bounded, NEW e \in Engines, NEW batch \in SUBSET upload[e].todo, Batch(e, batch)
    PROVE  Bounded'
<1> DEFINE rest == IF upload[e].stage <= 2 THEN upload[e].todo \ batch ELSE {}
           u    == [upload[e] EXCEPT !.batch = batch, !.todo = rest]
           p    == IF upload[e].stage <= 2 THEN "posting" ELSE "deleting"
<1>1. UNCHANGED <<rows, currentVersion, library, budget>>
  BY DEF Batch
<1>2. batch \in SUBSET Keys /\ rest \in SUBSET Keys
  BY JobFacts DEF UploadsTo
<1>3. /\ upload' = [upload EXCEPT ![e] = u] /\ pc' = [pc EXCEPT ![e] = p]
      /\ run' = [run EXCEPT ![e] = run[e]] /\ pull' = [pull EXCEPT ![e] = pull[e]]
  BY DEF Batch, Bounded, JobsBounded
<1> HIDE DEF rest
<1>4. u \in UploadsTo(library.version) /\ u.stage = upload[e].stage
  BY <1>2, JobFacts DEF UploadsTo
<1>5. p \in Phases /\ (p \in Writing => u.stage \in 1 .. 2)
  <2>1. upload[e].stage \in 1 .. 4
    BY JobFacts DEF UploadsTo, Stages
  <2> HIDE DEF u
  <2> QED BY <1>4, <2>1 DEF Phases, Writing
<1> HIDE DEF u, p
<1>6. JobsBounded'
  BY <1>1, <1>3, <1>4, <1>5, JobFacts, JobStepBounded
<1> QED BY <1>1, <1>6 DEF Bounded, LibraryBounded, StoreBounded

(* A handler's result is the new library and the answer on its way.        *)
LEMMA ServedBounded ==
    ASSUME Bounded, NEW e \in Engines, NEW result, Served(library.version, result),
           NEW p \in Phases, p \in Writing => upload[e].stage \in 1 .. 2,
           library' = result.library,
           upload' = [upload EXCEPT ![e].answer = result.answer],
           pc' = [pc EXCEPT ![e] = p],
           UNCHANGED <<rows, currentVersion, run, pull, budget>>
    PROVE  Bounded'
<1> DEFINE v == library.version
           w == library'.version
           u == [upload[e] EXCEPT !.answer = result.answer]
<1>1. v \in Nat /\ w \in Nat /\ v <= w /\ LibraryBounded'
  BY DEF Bounded, LibraryBounded, Served
<1>2. StoreBounded'
  BY <1>1, RowsGrow DEF Bounded, StoreBounded
<1>3. upload' = [upload EXCEPT ![e] = u]
  OBVIOUS
<1>4. u \in UploadsTo(w) /\ u.stage = upload[e].stage
  <2>1. upload[e] \in UploadsTo(w) /\ result.answer \in AnswersTo(w)
    BY <1>1, JobFacts, JobsGrow DEF Served
  <2> HIDE DEF w
  <2> QED BY <2>1 DEF UploadsTo
<1>5. JobsBounded'
  <2> HIDE DEF u
  <2>1. upload' \in [Engines -> UploadsTo(w)]
    BY <1>1, <1>3, <1>4, JobsGrow DEF Bounded, JobsBounded
  <2>2. pull' \in [Engines -> PullsTo(w)]
    BY <1>1, JobsGrow DEF Bounded, JobsBounded
  <2>3. pc' \in [Engines -> Phases] /\ run' \in [Engines -> RunsLeft]
    BY DEF Bounded, JobsBounded
  <2>4. \A f \in Engines : pc'[f] \in Writing => upload'[f].stage \in 1 .. 2
    BY <1>3, <1>4 DEF Bounded, JobsBounded
  <2> QED BY <2>1, <2>2, <2>3, <2>4 DEF JobsBounded
<1> QED BY <1>1, <1>2, <1>5 DEF Bounded

LEMMA ServerWritesBounded ==
    ASSUME Bounded, NEW e \in Engines, ServerWrites(e)
    PROVE  Bounded'
<1>1. /\ library \in LibrariesTo(library.version) /\ library.version \in Nat
      /\ upload[e].batch \in SUBSET Keys
      /\ upload[e].sent \in [Keys -> RowsTo(library.version)]
  BY JobFacts DEF Bounded, LibraryBounded, UploadsTo
<1>2. PICK order \in UploadOrders(upload[e].batch) :
         LET result == IF upload[e].stage = 1
                       THEN UploadCollections(library, upload[e].batch, order,
                                              upload[e].sent, upload[e].version)
                       ELSE UploadItems(library, upload[e].batch, order,
                                        upload[e].sent, upload[e].version)
         IN  /\ library' = result.library
             /\ upload' = [upload EXCEPT ![e].answer = result.answer]
  BY DEF ServerWrites
<1>3. /\ Served(library.version, UploadCollections(library, upload[e].batch, order,
                                                   upload[e].sent, upload[e].version))
      /\ Served(library.version, UploadItems(library, upload[e].batch, order,
                                             upload[e].sent, upload[e].version))
  BY <1>1, UploadCollectionsServed, UploadItemsServed
<1>4. /\ "posted" \in Phases /\ upload[e].stage \in 1 .. 2
      /\ pc' = [pc EXCEPT ![e] = "posted"]
      /\ UNCHANGED <<rows, currentVersion, run, pull, budget>>
  BY JobFacts DEF ServerWrites, Phases, Writing
<1>5. CASE upload[e].stage = 1
  BY <1>2, <1>3, <1>4, <1>5, ServedBounded
<1>6. CASE upload[e].stage # 1
  BY <1>2, <1>3, <1>4, <1>6, ServedBounded
<1> QED BY <1>5, <1>6

LEMMA ServerDeletesBounded ==
    ASSUME Bounded, NEW e \in Engines, ServerDeletes(e)
    PROVE  Bounded'
<1>1. library \in LibrariesTo(library.version) /\ library.version \in Nat
  BY DEF Bounded, LibraryBounded
<1>2. /\ Served(library.version, DeleteItems(library, upload[e].batch, upload[e].version))
      /\ Served(library.version, DeleteCollections(library, upload[e].batch, upload[e].version))
  BY <1>1, DeletionsServed
<1>3. /\ "deleted" \in Phases /\ "deleted" \notin Writing
      /\ pc' = [pc EXCEPT ![e] = "deleted"]
      /\ UNCHANGED <<rows, currentVersion, run, pull, budget>>
  BY DEF ServerDeletes, Phases, Writing
<1>4. CASE upload[e].stage = 3
  BY <1>2, <1>3, <1>4, ServedBounded DEF ServerDeletes
<1>5. CASE upload[e].stage # 3
  BY <1>2, <1>3, <1>5, ServedBounded DEF ServerDeletes
<1> QED BY <1>4, <1>5

LEMMA ApplyWriteReportBounded ==
    ASSUME Bounded, NEW e \in Engines, ApplyWriteReport(e)
    PROVE  Bounded'
<1> DEFINE v      == library.version
           answer == upload[e].answer
           u == [upload[e] EXCEPT !.version = answer.version, !.batch = {}, !.answer = NoAnswer]
           n == [NoUpload EXCEPT !.version = answer.version, !.stage = upload[e].stage + 1]
<1>1. UNCHANGED <<library, run, pull, budget>>
  BY DEF ApplyWriteReport
<1>2. /\ v \in Nat /\ answer \in AnswersTo(v) /\ answer.version \in 0 .. v
      /\ upload[e].stage \in 1 .. 2
      /\ upload[e].sent \in [Keys -> RowsTo(v)]
  BY JobFacts DEF ApplyWriteReport, Writing, UploadsTo, AnswersTo
<1>3. StoreBounded'
  <2>1. rows' = [k \in Keys |-> Reported(rows[k], upload[e].sent[k],
                                         answer.outcome[k], answer.objects[k])]
    BY DEF ApplyWriteReport
  <2>2. ASSUME NEW k \in Keys
        PROVE  Reported(rows[k], upload[e].sent[k], answer.outcome[k], answer.objects[k])
                 \in RowsTo(v)
    <3>1. /\ rows[k] \in RowsTo(v) /\ upload[e].sent[k] \in RowsTo(v)
          /\ answer.outcome[k] \in Outcomes /\ answer.objects[k] \in ObjectsTo(v)
      BY <1>2 DEF Bounded, StoreBounded, AnswersTo
    <3> HIDE DEF v, answer
    <3> QED BY <1>2, <3>1, ReportedKeepsBounds
  <2>3. currentVersion' = answer.version
    BY DEF ApplyWriteReport
  <2> QED BY <1>1, <1>2, <2>1, <2>2, <2>3 DEF StoreBounded
<1>4. run' = [run EXCEPT ![e] = run[e]] /\ pull' = [pull EXCEPT ![e] = pull[e]]
  BY <1>1 DEF Bounded, JobsBounded
<1>5. /\ "batching" \in Phases /\ "batching" \notin Writing
      /\ "queueing" \in Phases /\ "queueing" \notin Writing
  BY DEF Phases, Writing
<1>6. CASE upload[e].todo # {}
  <2>1. upload' = [upload EXCEPT ![e] = u] /\ pc' = [pc EXCEPT ![e] = "batching"]
    BY <1>6 DEF ApplyWriteReport
  <2>2. u \in UploadsTo(v)
    <3>1. NoAnswer \in AnswersTo(v) /\ upload[e] \in UploadsTo(v)
      BY <1>2, JobFacts, AnswerBounded DEF NoAnswer
    <3> HIDE DEF v, answer
    <3> QED BY <1>2, <3>1 DEF UploadsTo
  <2> HIDE DEF u
  <2>3. JobsBounded'
    BY <1>1, <1>4, <1>5, <2>1, <2>2, JobFacts, JobStepBounded
  <2> QED BY <1>1, <1>3, <2>3 DEF Bounded, LibraryBounded
<1>7. CASE upload[e].todo = {}
  <2>1. upload' = [upload EXCEPT ![e] = n] /\ pc' = [pc EXCEPT ![e] = "queueing"]
    BY <1>7 DEF ApplyWriteReport
  <2>2. n \in UploadsTo(v)
    <3>1. NoUpload \in UploadsTo(v) /\ upload[e].stage + 1 \in Stages
      BY <1>2, NoJobBounded DEF Stages
    <3> HIDE DEF v, answer
    <3> QED BY <1>2, <3>1 DEF UploadsTo
  <2> HIDE DEF n
  <2>3. JobsBounded'
    BY <1>1, <1>4, <1>5, <2>1, <2>2, JobFacts, JobStepBounded
  <2> QED BY <1>1, <1>3, <2>3 DEF Bounded, LibraryBounded
<1> QED BY <1>6, <1>7

LEMMA MarkDeletionsUploadedBounded ==
    ASSUME Bounded, NEW e \in Engines, MarkDeletionsUploaded(e)
    PROVE  Bounded'
<1> DEFINE v      == library.version
           answer == upload[e].answer
           n == [NoUpload EXCEPT !.version = answer.version, !.stage = upload[e].stage]
<1>1. UNCHANGED <<library, run, pull, budget>>
  BY DEF MarkDeletionsUploaded
<1>2. v \in Nat /\ answer.version \in 0 .. v
  BY JobFacts DEF UploadsTo, AnswersTo
<1>3. StoreBounded'
  <2>1. ASSUME NEW k \in Keys
        PROVE  rows[k] \in RowsTo(v) /\ DeletionUploaded(rows[k], answer.version) \in RowsTo(v)
    <3>1. rows[k] \in RowsTo(v)
      BY DEF Bounded, StoreBounded
    <3> HIDE DEF v, answer
    <3> QED BY <1>2, <3>1, AnswersKeepBounds
  <2>2. /\ rows' = [k \in Keys |-> IF k \in upload[e].batch
                                   THEN DeletionUploaded(rows[k], answer.version)
                                   ELSE rows[k]]
        /\ currentVersion' = answer.version
    BY DEF MarkDeletionsUploaded
  <2> QED BY <1>1, <1>2, <2>1, <2>2 DEF StoreBounded
<1>4. /\ run' = [run EXCEPT ![e] = run[e]] /\ pull' = [pull EXCEPT ![e] = pull[e]]
      /\ upload' = [upload EXCEPT ![e] = n] /\ pc' = [pc EXCEPT ![e] = "queueing"]
  BY <1>1 DEF MarkDeletionsUploaded, Bounded, JobsBounded
<1>5. n \in UploadsTo(v)
  <2>1. NoUpload \in UploadsTo(v) /\ upload[e].stage \in Stages
    BY <1>2, NoJobBounded, JobFacts DEF UploadsTo
  <2> HIDE DEF v, answer
  <2> QED BY <1>2, <2>1 DEF UploadsTo
<1> HIDE DEF n
<1>6. "queueing" \in Phases /\ "queueing" \notin Writing
  BY DEF Phases, Writing
<1>7. JobsBounded'
  BY <1>1, <1>4, <1>5, <1>6, JobFacts, JobStepBounded
<1> QED BY <1>1, <1>3, <1>7 DEF Bounded, LibraryBounded

LEMMA UploadingBounded == ASSUME Bounded, NEW e \in Engines, Uploading(e) PROVE Bounded'
<1>1. ASSUME Rejected(e) PROVE Bounded'
  <2>1. JobsBounded'
    BY <1>1, PreconditionFailedBounded DEF Rejected
  <2> QED BY <1>1, <2>1 DEF Rejected, Bounded, LibraryBounded, StoreBounded
<1>2. ASSUME Undecodable(e) PROVE Bounded'
  <2>1. JobsBounded'
    BY <1>2, FinishBounded DEF Undecodable
  <2> QED BY <1>2, <2>1 DEF Undecodable, Bounded, LibraryBounded, StoreBounded
<1> QED BY <1>1, <1>2, QueueBounded, BatchBounded, ServerWritesBounded, ServerDeletesBounded,
           ApplyWriteReportBounded, MarkDeletionsUploadedBounded DEF Uploading

(* A step of a pull that changes at most its own locals and phase. *)
LEMMA PullStepBounded ==
    ASSUME Bounded, NEW e \in Engines, NEW p \in Phases \ Writing,
           NEW q \in PullsTo(library.version),
           pull' = [pull EXCEPT ![e] = q], pc' = [pc EXCEPT ![e] = p],
           UNCHANGED <<rows, currentVersion, library, run, upload, budget>>
    PROVE  Bounded'
<1>1. run' = [run EXCEPT ![e] = run[e]] /\ upload' = [upload EXCEPT ![e] = upload[e]]
  BY DEF Bounded, JobsBounded
<1>2. JobsBounded'
  BY <1>1, JobFacts, JobStepBounded
<1> QED BY <1>2 DEF Bounded, LibraryBounded, StoreBounded

(* A transaction of a pull changes rows, each within the bound. *)
LEMMA TransactionBounded ==
    ASSUME Bounded, NEW e \in Engines, NEW p \in Phases \ Writing,
           rows' \in [Keys -> RowsTo(library.version)], pc' = [pc EXCEPT ![e] = p],
           UNCHANGED <<currentVersion, library, run, upload, pull, budget>>
    PROVE  Bounded'
<1>1. JobsBounded'
  BY DEF Bounded, JobsBounded
<1> QED BY <1>1 DEF Bounded, LibraryBounded, StoreBounded

LEMMA ReadListBounded ==
    ASSUME Bounded, NEW e \in Engines, NEW list \in Lists, ReadList(e, list)
    PROVE  Bounded'
<1> DEFINE v == library.version
           changed == CASE list = "collectionVersions" ->
                             ChangedSince(library, Collections, pull[e].since)
                        [] list = "itemVersions" ->
                             ChangedSince(library, Items, pull[e].since)
                        [] list = "deletions" -> {}
           deleted == IF list = "deletions" THEN DeletedSince(library, pull[e].since) ELSE {}
           highest == HighestVersion(pull[e].version, library.version)
           q == [pull[e] EXCEPT !.waiting = @ \ {list}, !.listed = @ \cup changed,
                                !.deleted = @ \cup deleted, !.version = highest]
<1>1. changed \in SUBSET Keys /\ deleted \in SUBSET Keys
  BY DEF Lists, ChangedSince, DeletedSince, Keys
<1>2. v \in Nat /\ pull[e] \in PullsTo(v)
  BY JobFacts
<1>3. highest \in 0 .. v
  BY <1>2 DEF HighestVersion, PullsTo
<1>4. /\ pull' = [pull EXCEPT ![e] = q]
      /\ pc' = [pc EXCEPT ![e] = "fetching"]
      /\ UNCHANGED <<rows, currentVersion, library, run, upload, budget>>
  BY DEF ReadList, Bounded, JobsBounded
<1>5. q \in PullsTo(v)
  <2> HIDE DEF v, changed, deleted, highest
  <2> QED BY <1>1, <1>2, <1>3 DEF PullsTo
<1> HIDE DEF q
<1>6. "fetching" \in Phases \ Writing
  BY DEF Phases, Writing
<1> QED BY <1>4, <1>5, <1>6, PullStepBounded

LEMMA ReadObjectsBounded ==
    ASSUME Bounded, NEW e \in Engines, NEW kind \in {"collections", "items"},
           ReadObjects(e, kind)
    PROVE  Bounded'
<1> DEFINE v == library.version
           keys == IF kind = "items" THEN Items ELSE Collections
           read == {k \in keys \cap pull[e].listed : library.objects[k].live}
           objects == [k \in Keys |-> IF k \in read THEN library.objects[k]
                                      ELSE pull[e].objects[k]]
           q == [pull[e] EXCEPT !.waiting = @ \ {kind}, !.objects = objects]
<1>1. pull[e] \in PullsTo(v) /\ library \in LibrariesTo(v)
  BY JobFacts DEF Bounded, LibraryBounded
<1>2. objects \in [Keys -> ObjectsTo(v)]
  BY <1>1 DEF PullsTo, LibrariesTo
<1>3. /\ pull' = [pull EXCEPT ![e] = q]
      /\ pc' = [pc EXCEPT ![e] = "fetching"]
      /\ UNCHANGED <<rows, currentVersion, library, run, upload, budget>>
  BY DEF ReadObjects, Bounded, JobsBounded
<1>4. q \in PullsTo(v)
  <2> HIDE DEF v, objects
  <2> QED BY <1>1, <1>2 DEF PullsTo
<1> HIDE DEF q
<1>5. "fetching" \in Phases \ Writing
  BY DEF Phases, Writing
<1> QED BY <1>3, <1>4, <1>5, PullStepBounded

LEMMA IntegratedBounded ==
    ASSUME Bounded, NEW e \in Engines, NEW keys
    PROVE  Integrated(e, keys) \in [Keys -> RowsTo(library.version)]
<1> DEFINE v == library.version
<1>1. ASSUME NEW k \in Keys
      PROVE  /\ rows[k] \in RowsTo(v)
             /\ Integrate(rows[k], pull[e].objects[k].version, pull[e].objects[k].body)
                  \in RowsTo(v)
  <2>1. v \in Nat /\ rows[k] \in RowsTo(v) /\ pull[e].objects[k] \in ObjectsTo(v)
    BY JobFacts DEF Bounded, StoreBounded, PullsTo
  <2> HIDE DEF v
  <2>2. pull[e].objects[k].version \in 0 .. v /\ pull[e].objects[k].body \in Body
    BY <2>1 DEF ObjectsTo
  <2> QED BY <2>1, <2>2, IntegrateKeepsBounds
<1> QED BY <1>1 DEF Integrated

LEMMA TransactionsBounded ==
    ASSUME Bounded, NEW e \in Engines,
           IntegrateCollections(e) \/ IntegrateItems(e) \/ ApplyRemoteDeletions(e)
    PROVE  Bounded'
<1>1. {"items", "deletions", "checking"} \subseteq Phases \ Writing
  BY DEF Phases, Writing
<1>2. CASE IntegrateCollections(e)
  BY <1>1, <1>2, IntegratedBounded, TransactionBounded DEF IntegrateCollections
<1>3. CASE IntegrateItems(e)
  BY <1>1, <1>3, IntegratedBounded, TransactionBounded DEF IntegrateItems
<1>4. CASE ApplyRemoteDeletions(e)
  <2>1. ASSUME NEW k \in Keys
        PROVE  /\ rows[k] \in RowsTo(library.version)
               /\ ApplyRemoteDeletion(rows[k], pull[e].version) \in RowsTo(library.version)
    <3>1. /\ library.version \in Nat /\ rows[k] \in RowsTo(library.version)
          /\ pull[e].version \in 0 .. library.version
      BY JobFacts DEF Bounded, StoreBounded, PullsTo
    <3> QED BY <3>1, ApplyRemoteDeletionKeepsBounds
  <2>2. rows' \in [Keys -> RowsTo(library.version)]
    BY <1>4, <2>1 DEF ApplyRemoteDeletions
  <2> QED BY <1>1, <1>4, <2>2, TransactionBounded DEF ApplyRemoteDeletions
<1> QED BY <1>2, <1>3, <1>4

LEMMA FetchedBounded ==
    ASSUME Bounded, NEW e \in Engines, Fetched(e) \/ CheckStability(e)
    PROVE  Bounded'
<1>1. {"collections", "checked"} \subseteq Phases \ Writing
  BY DEF Phases, Writing
<1>2. CASE Fetched(e)
  <2>1. pull' = [pull EXCEPT ![e] = pull[e]]
    BY <1>2 DEF Fetched, Bounded, JobsBounded
  <2> QED BY <1>1, <1>2, <2>1, JobFacts, PullStepBounded DEF Fetched
<1>3. CASE CheckStability(e)
  <2> DEFINE stable == /\ ChangedSince(library, Items, pull[e].version) = {}
                       /\ library.version <= pull[e].version
             q == [pull[e] EXCEPT !.stable = stable]
  <2>1. pull' = [pull EXCEPT ![e] = q] /\ stable \in BOOLEAN
    BY <1>3 DEF CheckStability
  <2> HIDE DEF stable
  <2>2. q \in PullsTo(library.version)
    BY <2>1, JobFacts DEF PullsTo
  <2> HIDE DEF q
  <2> QED BY <1>1, <1>3, <2>1, <2>2, PullStepBounded DEF CheckStability
<1> QED BY <1>2, <1>3

LEMMA CommitBounded == ASSUME Bounded, NEW e \in Engines, Commit(e) PROVE Bounded'
<1>1. UNCHANGED <<rows, library, budget>>
  BY DEF Commit
<1>2. /\ library.version \in Nat /\ pull[e].version \in 0 .. library.version
      /\ run[e] \in RunsLeft
  BY JobFacts DEF PullsTo
<1>3. StoreBounded'
  BY <1>1, <1>2 DEF Commit, Bounded, StoreBounded
<1>4. JobsBounded'
  <2>1. CASE run[e].after = "done"
    BY <1>1, <2>1, FinishBounded DEF Commit
  <2>2. CASE run[e].after = "upload"
    <3>1. [attempt |-> run[e].attempt, after |-> "done"] \in RunsLeft
      BY <1>2 DEF RunsLeft, Runs, AfterPull
    <3>2. BeginUpload(e, pull[e].version, run[e].attempt, "done")
      BY <2>2 DEF Commit
    <3> QED BY <1>1, <1>2, <3>1, <3>2, BeginUploadBounded
  <2>3. CASE run[e].after = "retry"
    <3>1. [attempt |-> run[e].attempt + 1, after |-> "upload"] \in RunsLeft
      BY <1>2, <2>3, SyncAssumption DEF RunsLeft, Runs, AfterPull
    <3>2. BeginUpload(e, pull[e].version, run[e].attempt + 1, "upload")
      BY <2>3 DEF Commit
    <3> QED BY <1>1, <1>2, <3>1, <3>2, BeginUploadBounded
  <2> QED BY <1>2, <2>1, <2>2, <2>3 DEF RunsLeft, Runs, AfterPull
<1> QED BY <1>1, <1>3, <1>4 DEF Bounded, LibraryBounded

LEMMA FetchAgainBounded == ASSUME Bounded, NEW e \in Engines, FetchAgain(e) PROVE Bounded'
<1>1. UNCHANGED <<rows, currentVersion, library, budget>>
  BY DEF FetchAgain
<1>2. CASE pull[e].try < MaxConsistencyAttempts
  <2> DEFINE q == PullStarted(pull[e].since, pull[e].try + 1)
  <2>1. q \in PullsTo(library.version)
    <3>1. /\ library.version \in Nat /\ pull[e].since \in 0 .. library.version
          /\ pull[e].try + 1 \in 1 .. MaxConsistencyAttempts
      BY <1>2, SyncAssumption, JobFacts DEF PullsTo
    <3> QED BY <3>1, PullStartedBounded
  <2>2. /\ pull' = [pull EXCEPT ![e] = q] /\ pc' = [pc EXCEPT ![e] = "fetching"]
        /\ UNCHANGED <<run, upload>>
    BY <1>2 DEF FetchAgain
  <2>3. "fetching" \in Phases \ Writing
    BY DEF Phases, Writing
  <2> QED BY <1>1, <2>1, <2>2, <2>3, PullStepBounded
<1>3. CASE ~(pull[e].try < MaxConsistencyAttempts)
  <2>1. JobsBounded'
    BY <1>1, <1>3, FinishBounded DEF FetchAgain
  <2> QED BY <1>1, <2>1 DEF Bounded, LibraryBounded, StoreBounded
<1> QED BY <1>2, <1>3

LEMMA FaultsBounded == ASSUME Bounded, NEW e \in Engines, Faults(e) PROVE Bounded'
<1>1. MayFail(e) => budget' \in Budgets
  BY SpendKeepsBudget DEF MayFail, Bounded
<1>2. CASE TransportFails(e)
  <2>1. JobsBounded'
    BY <1>2, FinishBounded DEF TransportFails
  <2>2. ASSUME NEW k \in Keys
        PROVE  /\ rows[k] \in RowsTo(library.version)
               /\ WriteFailed(rows[k]) \in RowsTo(library.version)
               /\ DeletionFailed(rows[k]) \in RowsTo(library.version)
    <3>1. rows[k] \in RowsTo(library.version) /\ library.version \in Nat
      BY JobFacts DEF Bounded, StoreBounded
    <3>2. 0 \in 0 .. library.version
      BY <3>1
    <3> QED BY <3>1, <3>2, AnswersKeepBounds
  <2>3. StoreBounded'
    <3>1. upload[e].stage \in Nat
      BY JobFacts DEF UploadsTo, Stages
    <3> QED BY <1>2, <2>2, <3>1 DEF TransportFails, Bounded, StoreBounded
  <2> QED BY <1>1, <1>2, <2>1, <2>3 DEF TransportFails, Bounded, LibraryBounded
<1>3. CASE Stop(e)
  <2>1. JobsBounded'
    BY <1>3, FinishBounded DEF Stop
  <2> QED BY <1>1, <1>3, <2>1 DEF Stop, Bounded, LibraryBounded, StoreBounded
<1>4. CASE Resend(e)
  <2> DEFINE u == [upload[e] EXCEPT !.answer = NoAnswer]
             p == IF pc[e] = "posted" THEN "posting" ELSE "deleting"
  <2>1. /\ upload' = [upload EXCEPT ![e] = u] /\ pc' = [pc EXCEPT ![e] = p]
        /\ run' = [run EXCEPT ![e] = run[e]] /\ pull' = [pull EXCEPT ![e] = pull[e]]
        /\ UNCHANGED <<rows, currentVersion, library>>
    BY <1>4 DEF Resend, Bounded, JobsBounded
  <2>2. u \in UploadsTo(library.version) /\ u.stage = upload[e].stage
    <3>1. NoAnswer \in AnswersTo(library.version)
      BY JobFacts, AnswerBounded DEF NoAnswer
    <3> QED BY <3>1, JobFacts DEF UploadsTo
  <2> HIDE DEF u
  <2>3. p \in Phases /\ (p \in Writing => u.stage \in 1 .. 2)
    BY <2>2, JobFacts DEF Phases, Writing
  <2> HIDE DEF p
  <2>4. JobsBounded'
    BY <2>1, <2>2, <2>3, JobFacts, JobStepBounded
  <2> QED BY <1>1, <1>4, <2>1, <2>4 DEF Resend, Bounded, LibraryBounded, StoreBounded
<1> QED BY <1>2, <1>3, <1>4 DEF Faults

(***************************************************************************)
(* The theorems                                                            *)
(***************************************************************************)

LEMMA NextBounded == Bounded /\ [Next]_vars => Bounded'
<1> SUFFICES ASSUME Bounded, [Next]_vars PROVE Bounded'
  OBVIOUS
<1>1. CASE UNCHANGED vars
  BY <1>1 DEF vars, Bounded, LibraryBounded, StoreBounded, JobsBounded
<1>2. ASSUME NEW e \in Engines, Pulling(e) PROVE Bounded'
  BY <1>2, ReadListBounded, ReadObjectsBounded, FetchedBounded, TransactionsBounded,
     CommitBounded, FetchAgainBounded DEF Pulling
<1> QED BY <1>1, <1>2, UserBounded, OtherClientsBounded, StartingBounded, UploadingBounded,
           FaultsBounded DEF Next

(* Every reachable state is bounded: of its type, and at no version the    *)
(* server has not reached.                                                 *)
THEOREM AlwaysBounded == Spec => []Bounded
BY InitBounded, NextBounded, PTL DEF Spec

LEMMA BoundedIsTyped == Bounded => TypeOK
<1> SUFFICES ASSUME Bounded PROVE TypeOK
  OBVIOUS
<1> DEFINE v == library.version
<1>1. v \in Nat
  BY DEF Bounded, LibraryBounded
<1> HIDE DEF v
<1>2. RowsTo(v) \subseteq Rows
  BY <1>1 DEF RowsTo, ConflictsTo, Rows, Conflicts
<1>3. ObjectsTo(v) \subseteq Objects
  BY <1>1 DEF ObjectsTo, Objects
<1>4. AnswersTo(v) \subseteq Answers
  BY <1>1, <1>3 DEF AnswersTo, Answers
<1>5. UploadsTo(v) \subseteq Uploads
  BY <1>1, <1>2, <1>4 DEF UploadsTo, Uploads
<1>6. PullsTo(v) \subseteq Pulls
  BY <1>1, <1>3 DEF PullsTo, Pulls
<1>7. library \in Libraries
  BY <1>1, <1>3 DEF Bounded, LibraryBounded, LibrariesTo, Libraries, v
<1>8. rows \in [Keys -> Rows] /\ currentVersion \in Nat
  BY <1>1, <1>2 DEF Bounded, StoreBounded, v
<1>9. /\ pc \in [Engines -> Phases] /\ run \in [Engines -> Runs]
      /\ upload \in [Engines -> Uploads] /\ pull \in [Engines -> Pulls]
  BY <1>5, <1>6 DEF Bounded, JobsBounded, RunsLeft, v
<1> QED BY <1>7, <1>8, <1>9 DEF TypeOK, Bounded

(* The types of the state of synchronization. *)
THEOREM TypeCorrect == Spec => []TypeOK
BY BoundedIsTyped, AlwaysBounded, PTL

(* The store never keeps, and an upload never sends, a version the server  *)
(* has not handed out: versions of rows and of conflicts, the version of   *)
(* the library, and the If-Unmodified-Since-Version of a running upload.   *)
THEOREM VersionsComeFromServer == Spec => []VersionsHandedOut
<1>1. Bounded => VersionsHandedOut
  BY DEF Bounded, LibraryBounded, StoreBounded, JobsBounded, VersionsHandedOut,
         RowsTo, ConflictsTo, UploadsTo
<1> QED BY <1>1, AlwaysBounded, PTL
=============================================================================
