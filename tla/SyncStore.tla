----------------------------- MODULE SyncStore -----------------------------
(***************************************************************************)
(* What one transaction of CitrationDatabase does to the record of one     *)
(* Zotero object: its row of zotero_objects, its open entries of           *)
(* synchronization_failures and its projection, the copy the app shows.    *)
(*                                                                         *)
(* Every operator maps a record to the record the transaction leaves.      *)
(***************************************************************************)
EXTENDS ThreeWayMerge, Naturals

SyncStates == {"synced", "dirty", "failed", "deleted"}

(* An open failure of an operation waits until next_retry_at, then is due. *)
RetryStates == {"none", "waiting", "due"}

(* The open merge-conflict entry: the remote object it carries, or Null    *)
(* when the server deleted the object.                                     *)
Conflicts == [open : BOOLEAN, version : Nat, body : Body \cup {Null}]

NoConflict == [open |-> FALSE, version |-> 0, body |-> Null]

(* state "absent" stands for a key that has no row. *)
Rows == [state     : SyncStates \cup {"absent"},
         isDeleted : BOOLEAN,
         version   : Nat,
         current   : Body,
         pristine  : Body,
         conflict  : Conflicts,
         upload    : RetryStates,
         delete    : RetryStates,
         shown     : Body \cup {Null}]

NoRow == [state |-> "absent", isDeleted |-> FALSE, version |-> 0,
          current |-> Blank, pristine |-> Blank, conflict |-> NoConflict,
          upload |-> "none", delete |-> "none", shown |-> Null]

HasRow(row) == row.state # "absent"

(* ------------------------------ the user ------------------------------- *)

(* upsertLocal and the projection that follows it: a new object is its own *)
(* base; an existing one keeps base and version whatever its state is.     *)
StoreLocal(row, body) ==
    [row EXCEPT !.state = "dirty", !.isDeleted = FALSE, !.current = body,
                !.pristine = IF HasRow(row) THEN @ ELSE body,
                !.shown = body]

(* markLocalDeletion *)
MarkLocalDeletion(row) ==
    [row EXCEPT !.state = "deleted", !.isDeleted = TRUE, !.shown = Null]

Resolutions == {"keepLocal", "keepRemote", "delete"}

(* resolveConflict throws without an open conflict, and when the server    *)
(* deleted the object it accepts that and nothing else.                    *)
CanResolve(row, resolution) ==
    /\ HasRow(row)
    /\ row.conflict.open
    /\ row.conflict.body = Null => resolution = "keepRemote"

ResolvedKeepLocal(row) ==
    [row EXCEPT !.state = "dirty", !.isDeleted = FALSE,
                !.version = row.conflict.version, !.pristine = row.conflict.body,
                !.shown = row.current, !.conflict = NoConflict]

(* Mutant of ResolvedKeepRemote: the projection is not refreshed. *)
ProjectionForgotten(row) ==
    IF row.conflict.body = Null
    THEN [row EXCEPT !.state = "synced", !.isDeleted = TRUE, !.conflict = NoConflict]
    ELSE [row EXCEPT !.state = "synced", !.isDeleted = FALSE,
                     !.version = row.conflict.version,
                     !.current = row.conflict.body, !.pristine = row.conflict.body,
                     !.conflict = NoConflict]

ResolvedKeepRemote(row) ==
    IF row.conflict.body = Null
    THEN [row EXCEPT !.state = "synced", !.isDeleted = TRUE,
                     !.shown = Null, !.conflict = NoConflict]
    ELSE [row EXCEPT !.state = "synced", !.isDeleted = FALSE,
                     !.version = row.conflict.version,
                     !.current = row.conflict.body, !.pristine = row.conflict.body,
                     !.shown = row.conflict.body, !.conflict = NoConflict]

ResolvedDelete(row) ==
    [row EXCEPT !.state = "deleted", !.isDeleted = TRUE,
                !.version = row.conflict.version, !.pristine = row.conflict.body,
                !.shown = Null, !.conflict = NoConflict]

Resolve(row, resolution) ==
    CASE resolution = "keepLocal"  -> ResolvedKeepLocal(row)
      [] resolution = "keepRemote" -> ResolvedKeepRemote(row)
      [] resolution = "delete"     -> ResolvedDelete(row)

(* ------------------------------- a pull -------------------------------- *)

(* upsert of a server object as synced; failures are left as they are. *)
StoreSynced(row, version, body) ==
    [row EXCEPT !.state = "synced", !.isDeleted = FALSE, !.version = version,
                !.current = body, !.pristine = body]

(* Mutant of RecordConflict: an open entry is not replaced. *)
FirstConflictKept(row, version, body) ==
    [row EXCEPT !.state = "failed",
                !.conflict = IF @.open THEN @
                             ELSE [open |-> TRUE, version |-> version, body |-> body]]

(* recordSyncFailure for merge-conflict and storeFailed: the row keeps its *)
(* version, base and deletion mark, and its projection.                    *)
RecordConflict(row, version, body) ==
    [row EXCEPT !.state = "failed",
                !.conflict = [open |-> TRUE, version |-> version, body |-> body]]

MergeRemote(row, version, body) ==
    IF \/ row.state = "deleted"
       \/ ConflictFields(row.pristine, row.current, body) # {}
    THEN RecordConflict(row, version, body)
    ELSE LET merged == Merged(row.pristine, row.current, body)
         IN  [row EXCEPT !.state = "dirty", !.isDeleted = FALSE,
                         !.version = version, !.current = merged,
                         !.pristine = body, !.shown = merged,
                         !.conflict = NoConflict]

(* Mutant of Integrate: only dirty rows are merged. *)
IntegratedOverFailed(row, version, body) ==
    IF row.state # "dirty"
    THEN [StoreSynced(row, version, body) EXCEPT !.shown = body]
    ELSE MergeRemote(row, version, body)

(* integrateRemoteVersionedObjects for one pulled object.  A synced row is *)
(* replaced without looking at versions.                                   *)
Integrate(row, version, body) ==
    IF row.state \in {"absent", "synced"}
    THEN [StoreSynced(row, version, body) EXCEPT !.shown = body]
    ELSE MergeRemote(row, version, body)

(* Mutant of ApplyRemoteDeletion: local work just stays. *)
DeletionPassedOver(row, version) ==
    IF row.state \in {"dirty", "failed"}
    THEN row
    ELSE [row EXCEPT !.state = "synced", !.isDeleted = TRUE,
                     !.version = version, !.shown = Null]

(* applyDeletedKeys for one key of the /deleted answer. *)
ApplyRemoteDeletion(row, version) ==
    IF row.state \in {"dirty", "failed"}
    THEN RecordConflict(row, 0, Null)
    ELSE [row EXCEPT !.state = "synced", !.isDeleted = TRUE,
                     !.version = version, !.shown = Null]

(* ------------------------------ the queues ----------------------------- *)

NoRetryWaiting(row) == row.upload # "waiting" /\ row.delete # "waiting"

(* Mutant of PendingUpload: failed objects are not tried again. *)
PendingIfDirty(row) == ~row.isDeleted /\ row.state = "dirty"

(* pendingUploads: a dirty object at once, a failed one when no conflict   *)
(* is open and no retry lies in the future.                                *)
PendingUpload(row) ==
    /\ ~row.isDeleted
    /\ \/ row.state = "dirty"
       \/ row.state = "failed" /\ ~row.conflict.open /\ NoRetryWaiting(row)

PendingDeletion(row) ==
    row.state = "deleted" /\ row.isDeleted /\ NoRetryWaiting(row)

(* -------------------------- an upload's answer ------------------------- *)

(* storeSuccessfulWrite: the object the server returned. *)
WriteSucceeded(row, version, body) ==
    [StoreSynced(row, version, body) EXCEPT !.upload = "none", !.shown = body]

(* markWriteSynced: the object as it was when the batch was read; the      *)
(* projection is not written again.                                        *)
WriteUnchanged(row, sent) ==
    [StoreSynced(row, sent.version, sent.current) EXCEPT !.upload = "none"]

(* markWriteFailed, and recordWriteTransportFailure for a whole batch. *)
WriteFailed(row) == [row EXCEPT !.state = "failed", !.upload = "waiting"]

(* markDeletionsUploaded *)
DeletionUploaded(row, version) ==
    [row EXCEPT !.state = "synced", !.isDeleted = TRUE, !.version = version,
                !.delete = "none"]

(* Mutant of DeletionFailed: recorded like a failed upload. *)
DeletionMarkedFailed(row) == [row EXCEPT !.state = "failed", !.delete = "waiting"]

(* recordDeletionTransportFailure: the row stays queued. *)
DeletionFailed(row) == [row EXCEPT !.delete = "waiting"]

(* The 30 seconds of every open retry of the object have passed, or the    *)
(* user asked to retry now.                                                *)
RetryDue(row) ==
    [row EXCEPT !.upload = IF @ = "waiting" THEN "due" ELSE @,
                !.delete = IF @ = "waiting" THEN "due" ELSE @]
=============================================================================
