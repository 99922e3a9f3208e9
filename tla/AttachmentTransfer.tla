-------------------------- MODULE AttachmentTransfer --------------------------
(***************************************************************************)
(* Devices that keep files of attachments in step with AttachmentFiles.    *)
(*                                                                         *)
(* A device has a row of attachment_projections for each attachment, and   *)
(* the files the user gave it or that were downloaded.  One job uploads    *)
(* what is pending (uploadPending), another downloads an attachment that   *)
(* is opened; the items themselves travel by LibrarySync, whose part in    *)
(* this is Import, UploadMetadata, Pull and RemoveItem.                    *)
(***************************************************************************)
EXTENDS AttachmentFiles

CONSTANTS
  Devices,
  Known, KnownBytes,  \* an item with a file, at the start
  Keepers,       \* the devices that have downloaded it
  Offered,       \* the files users may add: on which device, for which item
  OneJob,        \* TRUE: a device does not pull, upload and download at once
  Bounds         \* bounds, one of which applies: how many edits, deletions,
                 \* downloads and faults (answers lost, devices killed) happen

Paths == {"imported", "cached"}

ASSUME DevicesAssumption ==
  /\ None \notin Paths
  /\ Known \in Items /\ KnownBytes \in Contents
  /\ Keepers \subseteq Devices
  /\ Offered \subseteq [by : Devices, item : Items \ {Known}, bytes : Contents]
  /\ OneJob \in BOOLEAN
  /\ Bounds \subseteq [{"edits", "faults", "deletions", "downloads"} -> Nat]

VARIABLES
  disk,     \* the files of a device: those imported, those downloaded
  record,   \* attachment_projections, with the item's state and its failure
  job,      \* uploadPending
  get,      \* download
  offered,  \* the files that can still be added
  left      \* what is left of each bound

deviceVars == <<disk, record, job, get, offered, left>>
vars == <<serverVars, deviceVars>>

(* ------------------------------- records ------------------------------- *)

NoRecord == [known |-> "no", path |-> None, remote |-> None, verified |-> None,
             cache |-> "notDownloaded", waits |-> FALSE]

(* Mutant of Completed: where the file is is not noted. *)
CompletedUnplaced(r, path, md5) ==
  IF r.known = "no" THEN r
  ELSE [r EXCEPT !.remote = md5, !.verified = md5, !.cache = "downloaded", !.waits = FALSE]

(* markAttachmentTransferComplete: nothing if the row is gone by now. *)
Completed(r, path, md5) ==
  IF r.known = "no" THEN r
  ELSE [r EXCEPT !.path = path, !.remote = md5, !.verified = md5,
                 !.cache = "downloaded", !.waits = FALSE]

(* markAttachmentTransferFailed; only a failed upload is held back.        *)
Failed(r, upload_) ==
  IF r.known = "no" THEN r
  ELSE [r EXCEPT !.cache = IF r.path = None THEN "failed" ELSE @,
                 !.waits = @ \/ upload_]

(* Mutant of Pulled: an md5 that changed does not make the copy stale. *)
PulledQuietly(r, md5) == [r EXCEPT !.known = "synced", !.remote = md5]

(* insertAttachment, for an item that was pulled. *)
Pulled(r, md5) ==
  [r EXCEPT !.known = "synced", !.remote = md5,
            !.cache = IF md5 \notin {r.remote, r.verified} /\ r.path # None THEN "stale" ELSE @]

(* Mutant of Pending: of the copies that were verified only. *)
PendingVerified(d) ==
  {i \in Items : /\ record[d][i].path # None /\ record[d][i].verified # None
                 /\ record[d][i].known = "synced"
                 /\ ~record[d][i].waits}

Pending(d) ==
  {i \in Items : /\ record[d][i].path # None
                 /\ record[d][i].known = "synced"
                 /\ ~record[d][i].waits}

(* --------------------------------- jobs -------------------------------- *)

NoJob == [at |-> "idle", todo |-> {}, item |-> None, path |-> None, digest |-> None,
          match |-> None, key |-> None, direct |-> FALSE, slot |-> None]
NoGet == [at |-> "idle", item |-> None, md5 |-> None, slot |-> None]

Spends(what) == left[what] > 0 /\ left' = [left EXCEPT ![what] = @ - 1]

Quiet(d) == job[d].at = "idle" /\ get[d].at = "idle"

FreeSlot == CHOOSE s \in FreeSlots : TRUE
Heard(slot) == call[slot].at = "end"
AnswerTo(d) == call[job[d].slot].answer

Sets(d, i, r) == record' = [record EXCEPT ![d][i] = r]

(* The next attachment, the slot of this one given up. *)
Next_(j) == [NoJob EXCEPT !.at = "next", !.todo = j.todo]

Completes(d) ==
  LET j == job[d]
  IN  /\ Sets(d, j.item, Completed(record[d][j.item], j.path, j.digest))
      /\ call' = [call EXCEPT ![j.slot] = Idle]
      /\ job' = [job EXCEPT ![d] = Next_(j)]

Fails(d) ==
  /\ call' = [call EXCEPT ![job[d].slot] = Idle]
  /\ job' = [job EXCEPT ![d].at = "failed", ![d].slot = None]
  /\ UNCHANGED record

Authorization(i, digest, match, direct) ==
  [Call("authorize", i, TRUE) EXCEPT !.md5 = digest, !.match = match, !.direct = direct]

(* ------------------------------- the users ----------------------------- *)

Import(d, i) ==
  /\ \E o \in offered :
        /\ o.by = d /\ o.item = i
        /\ disk' = [disk EXCEPT ![d][i]["imported"] = o.bytes]
        /\ offered' = {p \in offered : p.item # i}
  /\ Sets(d, i, [NoRecord EXCEPT !.known = "new", !.path = "imported", !.cache = "downloaded"])
  /\ UNCHANGED <<serverVars, job, get, left>>

EditFile(d, i) ==
  /\ record[d][i].path # None
  /\ \E c \in Contents \ {disk[d][i][record[d][i].path]} :
        disk' = [disk EXCEPT ![d][i][record[d][i].path] = c]
  /\ Spends("edits")
  /\ UNCHANGED <<serverVars, record, job, get, offered>>

(* ------------------------- the synchronized items ---------------------- *)

UploadMetadata(d, i) ==
  /\ record[d][i].known = "new"
  /\ item' = [item EXCEPT ![i] = [live |-> TRUE, md5 |-> None, pulled |-> {d}]]
  /\ Sets(d, i, [record[d][i] EXCEPT !.known = "synced"])
  /\ UNCHANGED <<signing, file, upload, bucket, parts, call, disk, job, get, offered, left>>

Pull(d, i) ==
  /\ OneJob => Quiet(d)
  /\ d \notin item[i].pulled
  /\ record[d][i].known # "new"
  /\ item' = [item EXCEPT ![i].pulled = @ \cup {d}]
  /\ Sets(d, i, IF item[i].live THEN Pulled(record[d][i], item[i].md5) ELSE NoRecord)
  /\ UNCHANGED <<signing, file, upload, bucket, parts, call, disk, job, get, offered, left>>

RemoveItem(d, i) ==
  /\ record[d][i].known = "synced"
  /\ Spends("deletions")
  /\ FreeSlots # {} /\ Sends(FreeSlot, Call("delete", i, FALSE))
  /\ Sets(d, i, NoRecord)
  /\ UNCHANGED <<signing, rows, bucket, parts, disk, job, get, offered>>

(* -------------------------------- uploads ------------------------------ *)

(* pendingAttachmentUploads: the paths and the md5s as they are now. *)
StartUpload(d) ==
  /\ job[d].at = "idle"
  /\ OneJob => Quiet(d)
  /\ Pending(d) # {}
  /\ job' = [job EXCEPT ![d] =
        [NoJob EXCEPT !.at = "next",
                      !.todo = {[item |-> i, path |-> record[d][i].path,
                                 remote |-> record[d][i].remote] : i \in Pending(d)}]]
  /\ UNCHANGED <<serverVars, disk, record, get, offered, left>>

EndUpload(d) ==
  /\ job[d].at = "next" /\ job[d].todo = {}
  /\ job' = [job EXCEPT ![d] = NoJob]
  /\ UNCHANGED <<serverVars, disk, record, get, offered, left>>

(* A file with the md5 that the row had is current. *)
SkipCurrent(d) ==
  /\ job[d].at = "next"
  /\ \E r \in job[d].todo :
        LET digest == disk[d][r.item][r.path]
        IN  /\ digest = r.remote
            /\ job' = [job EXCEPT ![d].todo = @ \ {r}]
            /\ Sets(d, r.item, Completed(record[d][r.item], r.path, digest))
  /\ UNCHANGED <<serverVars, disk, get, offered, left>>

(* If-Match with the md5 the row had, or If-None-Match. *)
Authorize(d) ==
  /\ job[d].at = "next" /\ FreeSlots # {}
  /\ \E r \in job[d].todo :
        LET digest == disk[d][r.item][r.path]
        IN  /\ digest # r.remote
            /\ job' = [job EXCEPT ![d] =
                  [NoJob EXCEPT !.at = "authorize", !.todo = job[d].todo \ {r},
                     !.item = r.item, !.path = r.path, !.digest = digest, !.match = r.remote,
                     !.direct = TRUE, !.slot = FreeSlot]]
            /\ Sends(FreeSlot, Authorization(r.item, digest, r.remote, TRUE))
  /\ UNCHANGED <<signing, rows, bucket, parts, disk, record, get, offered, left>>

(* The bytes are those of the file by now: sent to R2 under the signed URL *)
(* of a direct upload, which is then completed, or to the server.          *)
SendFile(d) ==
  LET j == job[d]
      c == call[j.slot]
      k == c.key
      bytes == disk[d][j.item][j.path]
      next == Call(IF c.direct THEN "complete" ELSE "bytes", j.item, TRUE)
  IN  /\ bucket' = IF c.direct /\ ~upload[k].multipart
                   THEN [bucket EXCEPT ![UploadName(k)] = bytes] ELSE bucket
      /\ parts' = IF c.direct /\ upload[k].multipart THEN [parts EXCEPT ![k] = bytes] ELSE parts
      /\ call' = [call EXCEPT ![j.slot] = [next EXCEPT !.key = k, !.bytes = IF c.direct THEN None
                                                                            ELSE bytes]]
      /\ job' = [job EXCEPT ![d].at = "sent", ![d].key = k, ![d].direct = c.direct]
      /\ UNCHANGED record

OnAuthorize(d) ==
  /\ job[d].at = "authorize" /\ Heard(job[d].slot)
  /\ LET j == job[d]
         plain == Authorization(j.item, j.digest, j.match, FALSE)
     IN  \/ /\ AnswerTo(d) = "exists"
            /\ Completes(d)
            /\ UNCHANGED <<bucket, parts>>
         \/ AnswerTo(d) = "ok" /\ SendFile(d)
         \/ /\ AnswerTo(d) \in {"missing", "unavailable"} /\ call[j.slot].direct
            /\ Sends(j.slot, plain)
            /\ UNCHANGED <<bucket, parts, job, record>>
         \/ /\ \/ AnswerTo(d) \in {"refused", "failed"}
               \/ AnswerTo(d) = "missing" /\ ~call[j.slot].direct
            /\ Fails(d)
            /\ UNCHANGED <<bucket, parts>>
  /\ UNCHANGED <<signing, rows, disk, get, offered, left>>

OnSent(d) ==
  /\ job[d].at = "sent" /\ Heard(job[d].slot)
  /\ LET j == job[d]
     IN  IF AnswerTo(d) = "ok"
         THEN /\ Sends(j.slot, [Call("register", j.item, TRUE)
                                  EXCEPT !.key = j.key, !.match = j.match])
              /\ job' = [job EXCEPT ![d].at = "register"]
              /\ UNCHANGED record
         ELSE Fails(d)
  /\ UNCHANGED <<signing, rows, bucket, parts, disk, get, offered, left>>

OnRegister(d) ==
  /\ job[d].at = "register" /\ Heard(job[d].slot)
  /\ IF AnswerTo(d) = "ok" THEN Completes(d) ELSE Fails(d)
  /\ UNCHANGED <<signing, rows, bucket, parts, disk, get, offered, left>>

(* A direct upload that failed is withdrawn, whatever comes of that. *)
Abort(d) ==
  /\ job[d].at = "failed" /\ job[d].direct /\ job[d].key # None
  /\ FreeSlots # {}
  /\ Sends(FreeSlot, [Call("abort", job[d].item, TRUE) EXCEPT !.key = job[d].key])
  /\ job' = [job EXCEPT ![d].at = "abort", ![d].slot = FreeSlot]
  /\ UNCHANGED <<signing, rows, bucket, parts, disk, record, get, offered, left>>

Fail(d) ==
  /\ \/ job[d].at = "failed" /\ ~(job[d].direct /\ job[d].key # None)
     \/ job[d].at = "abort" /\ Heard(job[d].slot)
  /\ LET j == job[d]
     IN  /\ Sets(d, j.item, Failed(record[d][j.item], TRUE))
         /\ call' = IF j.slot = None THEN call ELSE [call EXCEPT ![j.slot] = Idle]
         /\ job' = [job EXCEPT ![d] = Next_(j)]
  /\ UNCHANGED <<signing, rows, bucket, parts, disk, get, offered, left>>

(* next_retry_at has passed. *)
RetryDue(d, i) ==
  /\ record[d][i].waits
  /\ Sets(d, i, [record[d][i] EXCEPT !.waits = FALSE])
  /\ UNCHANGED <<serverVars, disk, job, get, offered, left>>

(* ------------------------------- downloads ----------------------------- *)

Current(d, i) ==
  LET r == record[d][i]
  IN  r.path # None /\ r.cache = "downloaded" /\ r.verified = r.remote

OpenAttachment(d, i) ==
  /\ get[d].at = "idle"
  /\ OneJob => Quiet(d)
  /\ record[d][i].remote # None /\ ~Current(d, i)
  /\ FreeSlots # {}
  /\ Spends("downloads")
  /\ Sets(d, i, [record[d][i] EXCEPT !.cache = IF record[d][i].path = None THEN "downloading"
                                                                        ELSE @])
  /\ Sends(FreeSlot, Call("download", i, TRUE))
  /\ get' = [get EXCEPT ![d] = [at |-> "asked", item |-> i, md5 |-> record[d][i].remote,
                                slot |-> FreeSlot]]
  /\ UNCHANGED <<signing, rows, bucket, parts, disk, job, offered>>

(* What the server says the md5 is, and what it is, is what was expected.  *)
Verified(c, md5) == c.answer = "ok" /\ c.md5 = md5 /\ c.bytes = md5

OnDownload(d) ==
  /\ get[d].at = "asked" /\ Heard(get[d].slot)
  /\ LET g == get[d]
         c == call[g.slot]
         r == record[d][g.item]
     IN  IF Verified(c, g.md5)
         THEN /\ disk' = [disk EXCEPT ![d][g.item]["cached"] = c.bytes]
              /\ Sets(d, g.item, Completed(r, "cached", c.bytes))
         ELSE Sets(d, g.item, Failed(r, FALSE)) /\ UNCHANGED disk
  /\ call' = [call EXCEPT ![get[d].slot] = Idle]
  /\ get' = [get EXCEPT ![d] = NoGet]
  /\ UNCHANGED <<signing, rows, bucket, parts, job, offered, left>>

(* -------------------------------- faults ------------------------------- *)

(* The request goes on, unheard; an answer on its way is lost. *)
Abandoned(c) == IF c.at = "end" THEN Idle ELSE [c EXCEPT !.heard = FALSE]

LoseAnswer(d) ==
  /\ Spends("faults")
  /\ \/ /\ job[d].slot # None
        /\ call' = [call EXCEPT ![job[d].slot] = Abandoned(@)]
        /\ job' = [job EXCEPT ![d].at = "failed", ![d].slot = None,
                              ![d].direct = @ /\ job[d].at # "abort"]
        /\ UNCHANGED <<record, get>>
     \/ /\ get[d].slot # None
        /\ call' = [call EXCEPT ![get[d].slot] = Abandoned(@)]
        /\ Sets(d, get[d].item, Failed(record[d][get[d].item], FALSE))
        /\ get' = [get EXCEPT ![d] = NoGet]
        /\ UNCHANGED job
  /\ UNCHANGED <<signing, rows, bucket, parts, disk, offered>>

(* The device is killed: what it was doing is gone, what it keeps is not.  *)
Kill(d) ==
  /\ ~Quiet(d)
  /\ Spends("faults")
  /\ call' = [s \in Slots |-> IF s \in {job[d].slot, get[d].slot} THEN Abandoned(call[s])
                                                                ELSE call[s]]
  /\ job' = [job EXCEPT ![d] = NoJob]
  /\ get' = [get EXCEPT ![d] = NoGet]
  /\ UNCHANGED <<signing, rows, bucket, parts, disk, record, offered>>

(* ---------------------------- specification ---------------------------- *)

(* A key nothing refers to is as good as one that was never drawn. *)
NewKeys ==
  {k \in UploadKeys :
     /\ \A i \in Items : file[i].at # UploadName(k)
     /\ \A s \in Slots : call[s].key \notin {k, UploadName(k)} /\ UploadName(k) \notin call[s].found
     /\ \A d \in Devices : job[d].key # k}

DrawKey(s) ==
  /\ NewKeys # {}
  /\ InsertUpload(s, CHOOSE k \in NewKeys : TRUE)

ServerStep(s) == (Query(s) \/ DrawKey(s)) /\ UNCHANGED deviceVars

JobStep(d) ==
  \/ EndUpload(d)
  \/ SkipCurrent(d)
  \/ Authorize(d)
  \/ OnAuthorize(d)
  \/ OnSent(d)
  \/ OnRegister(d)
  \/ Abort(d)
  \/ Fail(d)

DeviceStep(d) ==
  \/ JobStep(d)
  \/ StartUpload(d)
  \/ OnDownload(d)
  \/ LoseAnswer(d)
  \/ Kill(d)
  \/ \E i \in Items :
        \/ Import(d, i)
        \/ EditFile(d, i)
        \/ UploadMetadata(d, i)
        \/ Pull(d, i)
        \/ RemoveItem(d, i)
        \/ RetryDue(d, i)
        \/ OpenAttachment(d, i)

Next == (\E s \in Slots : ServerStep(s)) \/ (\E d \in Devices : DeviceStep(d))

(* Everybody has pulled the known item; the keepers have its file too.     *)
Init ==
  /\ signing \in BOOLEAN
  /\ item = [i \in Items |-> [live |-> i = Known, md5 |-> IF i = Known THEN KnownBytes ELSE None,
                              pulled |-> Devices]]
  /\ file = [i \in Items |-> IF i = Known
                             THEN [md5 |-> KnownBytes, at |-> FileName(i, KnownBytes)] ELSE NoFile]
  /\ upload = [k \in UploadKeys |-> NoUpload]
  /\ bucket = [n \in Names |-> IF n = FileName(Known, KnownBytes) THEN KnownBytes ELSE None]
  /\ parts = [k \in UploadKeys |-> None]
  /\ call = [s \in Slots |-> Idle]
  /\ disk = [d \in Devices |-> [i \in Items |-> [p \in Paths |->
               IF i = Known /\ d \in Keepers /\ p = "cached" THEN KnownBytes ELSE None]]]
  /\ record = [d \in Devices |-> [i \in Items |->
                 CASE i = Known /\ d \in Keepers ->
                        [known |-> "synced", path |-> "cached", remote |-> KnownBytes,
                         verified |-> KnownBytes, cache |-> "downloaded", waits |-> FALSE]
                   [] i = Known /\ d \notin Keepers -> Pulled(NoRecord, KnownBytes)
                   [] OTHER -> NoRecord]]
  /\ job = [d \in Devices |-> NoJob]
  /\ get = [d \in Devices |-> NoGet]
  /\ offered = Offered
  /\ left \in Bounds

Spec == Init /\ [][Next]_vars

(* The server answers, a device goes on with what it began, and users or   *)
(* notices keep starting synchronizations; one is started when no job is   *)
(* under way, so that starting and going on share a condition.             *)
Fairness ==
  /\ \A s \in Slots : WF_vars(ServerStep(s))
  /\ \A d \in Devices :
        /\ WF_vars(JobStep(d) \/ StartUpload(d))
        /\ WF_vars(OnDownload(d))
        /\ WF_vars(\E i \in Items : RetryDue(d, i))

FairSpec == Spec /\ Fairness

(* ------------------------------ properties ----------------------------- *)

(* Rows, requests and records have their types.                            *)
TypeOK ==
  /\ signing \in BOOLEAN
  /\ item \in [Items -> [live : BOOLEAN, md5 : Contents \cup {None}, pulled : SUBSET Devices]]
  /\ file \in [Items -> [md5 : Contents \cup {None}, at : Names \cup {None}]]
  /\ bucket \in [Names -> Contents \cup {None}]
  /\ parts \in [UploadKeys -> Contents \cup {None}]
  /\ disk \in [Devices -> [Items -> [Paths -> Contents \cup {None}]]]
  /\ \A d \in Devices : \A i \in Items :
        /\ record[d][i].path \in Paths \cup {None}
        /\ record[d][i].cache = "downloaded" => record[d][i].path # None
  /\ \A d \in Devices : job[d].at = "idle" <=> job[d] = NoJob
  /\ \A d \in Devices : job[d].slot # None => call[job[d].slot].heard
  /\ \A d \in Devices : get[d].slot # None => call[get[d].slot].heard

(* A device that has pulled the latest version of an attachment knows the  *)
(* md5 of its file, and calls no other bytes downloaded: not after an      *)
(* upload, a lost answer, a restart or another device's upload.            *)
(* (CitrationDatabase+AttachmentTransfer.swift:120-160)                    *)
ChangedBytesStale ==
  \A d \in Devices : \A i \in Items :
    LET r == record[d][i]
    IN  d \in item[i].pulled /\ item[i].live /\ r.known = "synced" =>
          /\ r.remote = item[i].md5
          /\ r.cache = "downloaded" => r.verified = r.remote

(* An upload replaces the file of an attachment only with bytes that were  *)
(* changed here: a copy that is as it was verified is never sent over what *)
(* the server has since.  (ZoteroAttachmentTransfer.swift:193-223)         *)
OnlyChangedFilesReplace ==
  \A d \in Devices :
    job[d].at = "authorize" /\ job[d].match # None =>
      job[d].digest # record[d][job[d].item].verified

(* A file that was added, and whose attachment is synchronized, is stored  *)
(* on the server in the end, however often an upload fails, is lost or is  *)
(* interrupted; unless the attachment is deleted.                          *)
AddedFilesArrive ==
  \A d \in Devices : \A i \in Items :
    record[d][i].known = "synced" /\ record[d][i].path = "imported"
      ~> file[i] # NoFile \/ ~item[i].live
=============================================================================
