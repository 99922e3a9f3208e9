--------------------------- MODULE AttachmentFiles ---------------------------
(***************************************************************************)
(* The files of stored attachments on the self-hosted server: the rows of *)
(* attachment_files and attachment_uploads in D1 and the bytes in R2.  As  *)
(* in ServerWrites every action is one query, or one call of the bucket,  *)
(* of one request.  Requests are not tied to those who sent them: one     *)
(* whose sender gave up goes on to its end.                               *)
(*                                                                         *)
(* Bytes are contents; an md5 is the contents it was computed from.       *)
(***************************************************************************)
EXTENDS Naturals, FiniteSets

CONSTANTS
  Items, Contents,
  None,         \* no md5, no bytes, no key
  Size,         \* the size of contents
  Large,        \* contents beyond directSinglePutThresholdBytes
  Binary,       \* the items whose contentType is application/pdf
  UploadKeys,   \* names for uploads, reused when nothing refers to them
  Slots         \* bound: requests under way at one time

ASSUME FilesAssumption ==
  /\ None \notin Items \cup Contents \cup UploadKeys \cup Slots
  /\ Size \in [Contents -> Nat]
  /\ Large \subseteq Contents
  /\ Binary \subseteq Items

VARIABLES
  signing,   \* the deployment can sign R2 URLs for direct uploads
  item,      \* item rows; pulled: who has seen the latest version
  file,      \* attachment_files
  upload,    \* attachment_uploads
  bucket,    \* the objects of the bucket, by name
  parts,     \* the parts of multipart uploads that are not complete
  call       \* the request in each slot

rows == <<item, file, upload>>
serverVars == <<signing, item, file, upload, bucket, parts, call>>

UploadName(k)  == <<"uploads", k, None>>
FileName(i, c) == <<"files", i, c>>
Names == {UploadName(k) : k \in UploadKeys} \cup {FileName(i, c) : i \in Items, c \in Contents}

ASSUME NamesAssumption == Names \cap (UploadKeys \cup {None}) = {}

NoFile == [md5 |-> None, at |-> None]
NoUpload == [state |-> "none", item |-> None, md5 |-> None, multipart |-> FALSE]

(* ------------------------------ requests ------------------------------- *)

Idle == [op |-> "none", at |-> "end", item |-> None, md5 |-> None, match |-> None,
         direct |-> FALSE, key |-> None, bytes |-> None, found |-> {}, answer |-> "none",
         heard |-> FALSE]   \* somebody waits for the answer

FirstQuery ==
  [authorize |-> "item", register |-> "item", bytes |-> "queued", complete |-> "queued",
   abort |-> "queued", delete |-> "rows", download |-> "row"]

Call(op, i, heard) == [Idle EXCEPT !.op = op, !.at = FirstQuery[op], !.item = i, !.heard = heard]

FreeSlots == {s \in Slots : call[s].op = "none"}
Sends(s, request) == call' = [call EXCEPT ![s] = request]

At(s, at) == call[s].op # "none" /\ call[s].at = at
AtOf(s, ops, at) == At(s, at) /\ call[s].op \in ops

Goes(s, at) == call' = [call EXCEPT ![s].at = at]

Answered(c, answer) ==
  IF c.heard THEN [c EXCEPT !.at = "end", !.answer = answer, !.found = {}] ELSE Idle
Answers(s, answer) == call' = [call EXCEPT ![s] = Answered(@, answer)]

(* ------------------- POST file: authorize and register ----------------- *)

FindItem(s) ==
  /\ AtOf(s, {"authorize", "register"}, "item")
  /\ IF item[call[s].item].live THEN Goes(s, "row") ELSE Answers(s, "missing")
  /\ UNCHANGED <<signing, rows, bucket, parts>>

(* If-Match with the md5 of the file that is there, or If-None-Match.      *)
Matches(c) == file[c.item].md5 = c.match

CompareFile(s) ==
  /\ AtOf(s, {"authorize", "register"}, "row")
  /\ CASE ~Matches(call[s])              -> Answers(s, "refused")
       [] Matches(call[s]) /\ call[s].op = "authorize" -> Goes(s, "known")
       [] OTHER                          -> Goes(s, "upload")
  /\ UNCHANGED <<signing, rows, bucket, parts>>

(* associateExistingAttachmentFile: any file of the library with these     *)
(* contents is copied.                                                     *)
FindKnown(s) ==
  /\ At(s, "known")
  /\ LET known == {i \in Items : file[i].md5 = call[s].md5}
     IN  \/ /\ known = {}
            /\ Goes(s, "insert")
         \/ \E i \in known :
               call' = [call EXCEPT ![s].at = "source", ![s].found = {file[i].at}]
  /\ UNCHANGED <<signing, rows, bucket, parts>>

ReadSource(s) ==
  /\ At(s, "source")
  /\ \E name \in call[s].found :
        IF bucket[name] = None THEN Goes(s, "insert")
        ELSE call' = [call EXCEPT ![s].at = "copy", ![s].bytes = bucket[name]]
  /\ UNCHANGED <<signing, rows, bucket, parts>>

CopySource(s) ==
  /\ At(s, "copy")
  /\ bucket' = [bucket EXCEPT ![FileName(call[s].item, call[s].md5)] = call[s].bytes]
  /\ Goes(s, "associate")
  /\ UNCHANGED <<signing, rows, parts>>

(* The batch that gives an item its file.  The item need not be live, and  *)
(* whoever pulled it before has to again.                                  *)
GivesFile(i, md5, at) ==
  /\ file' = [file EXCEPT ![i] = [md5 |-> md5, at |-> at]]
  /\ item' = [item EXCEPT ![i].md5 = md5, ![i].pulled = {}]

Associate(s) ==
  /\ At(s, "associate")
  /\ GivesFile(call[s].item, call[s].md5, FileName(call[s].item, call[s].md5))
  /\ Answers(s, "exists")
  /\ UNCHANGED <<signing, upload, bucket, parts>>

InsertUpload(s, k) ==
  /\ At(s, "insert")
  /\ upload' = [upload EXCEPT ![k] = [state |-> "queued", item |-> call[s].item,
                                      md5 |-> call[s].md5, multipart |-> FALSE]]
  /\ bucket' = [bucket EXCEPT ![UploadName(k)] = None]
  /\ parts' = [parts EXCEPT ![k] = None]
  /\ LET c == [call[s] EXCEPT !.key = k, !.found = {}]
     IN  call' = [call EXCEPT ![s] =
                    CASE ~c.direct            -> Answered(c, "ok")
                      [] c.direct /\ signing  -> [c EXCEPT !.at = "prepare"]
                      [] OTHER                -> [c EXCEPT !.at = "withdraw"]]
  /\ UNCHANGED <<signing, item, file>>

WithdrawUpload(s) ==
  /\ At(s, "withdraw")
  /\ upload' = [upload EXCEPT ![call[s].key] = NoUpload]
  /\ Answers(s, "unavailable")
  /\ UNCHANGED <<signing, item, file, bucket, parts>>

(* prepareDirectAttachmentUpload *)
PrepareUpload(s) ==
  /\ At(s, "prepare")
  /\ LET k == call[s].key
     IN  IF upload[k].state = "queued"
         THEN /\ upload' = [upload EXCEPT ![k].multipart = upload[k].md5 \in Large]
              /\ Answers(s, "ok")
         ELSE Answers(s, "failed") /\ UNCHANGED upload
  /\ UNCHANGED <<signing, item, file, bucket, parts>>

(* The bytes have arrived (there are no objects of older deployments). *)
Registrable(k) == upload[k].state = "uploaded"

FindUpload(s) ==
  /\ At(s, "upload")
  /\ LET k == call[s].key
     IN  CASE upload[k].state = "none" -> Answers(s, "missing")
           [] upload[k].state # "none" /\ ~Registrable(k) -> Answers(s, "rejected")
           [] OTHER -> call' = [call EXCEPT ![s].at = "file", ![s].md5 = upload[k].md5]
  /\ UNCHANGED <<signing, rows, bucket, parts>>

RegisterFile(s) ==
  /\ At(s, "file")
  /\ LET k == call[s].key
     IN  /\ GivesFile(call[s].item, call[s].md5, UploadName(k))
         /\ upload' = IF upload[k].state = "none" THEN upload
                      ELSE [upload EXCEPT ![k].state = "registered"]
  /\ Answers(s, "ok")
  /\ UNCHANGED <<signing, bucket, parts>>

(* ------------------------- the bytes of an upload ---------------------- *)

(* Mutant of Checked: no body is. *)
NeverChecked(k) == FALSE

(* The body of a standard upload is checked, unless it is a PDF's. *)
Checked(k) == ~(item[upload[k].item].live /\ upload[k].item \in Binary)

FindQueued(s) ==
  /\ AtOf(s, {"bytes", "complete", "abort"}, "queued")
  /\ LET k      == call[s].key
         queued == upload[k].state = "queued"
     IN  CASE ~queued -> Answers(s, "missing") /\ UNCHANGED parts
           [] queued /\ call[s].op = "bytes" ->
                /\ UNCHANGED parts
                /\ IF Checked(k) /\ call[s].bytes # upload[k].md5 THEN Answers(s, "rejected")
                                                                  ELSE Goes(s, "put")
           [] queued /\ call[s].op = "complete" ->
                /\ UNCHANGED parts
                /\ call' = [call EXCEPT ![s].at = "object", ![s].md5 = upload[k].md5,
                                        ![s].direct = upload[k].multipart]
           [] OTHER -> parts' = [parts EXCEPT ![k] = None] /\ Goes(s, "forget")
  /\ UNCHANGED <<signing, rows, bucket>>

PutBytes(s) ==
  /\ At(s, "put")
  /\ bucket' = [bucket EXCEPT ![UploadName(call[s].key)] = call[s].bytes]
  /\ Goes(s, "mark")
  /\ UNCHANGED <<signing, rows, parts>>

(* completeDirectAttachmentUpload: what was sent has the size that was     *)
(* authorized; what was not sent at all is accepted too.                   *)
InspectObject(s) ==
  /\ At(s, "object")
  /\ LET c         == call[s]
         name      == UploadName(c.key)
         multipart == c.direct
         object    == IF multipart THEN parts[c.key] ELSE bucket[name]
     IN  /\ bucket' = IF multipart /\ object # None THEN [bucket EXCEPT ![name] = object]
                                                    ELSE bucket
         /\ parts' = IF multipart THEN [parts EXCEPT ![c.key] = None] ELSE parts
         /\ CASE object = None /\ multipart  -> Answers(s, "failed")
              [] object = None /\ ~multipart -> Answers(s, "ok")
              [] object # None /\ Size[object] # Size[c.md5] -> Goes(s, "discard")
              [] OTHER -> Goes(s, "mark")
  /\ UNCHANGED <<signing, rows>>

DiscardObject(s) ==
  /\ At(s, "discard")
  /\ bucket' = [bucket EXCEPT ![UploadName(call[s].key)] = None]
  /\ Answers(s, "rejected")
  /\ UNCHANGED <<signing, rows, parts>>

(* Whatever the state of the upload has become, if it is still there. *)
MarkUploaded(s) ==
  /\ At(s, "mark")
  /\ LET k == call[s].key
     IN  upload' = IF upload[k].state = "none" THEN upload
                   ELSE [upload EXCEPT ![k].state = "uploaded"]
  /\ Answers(s, "ok")
  /\ UNCHANGED <<signing, item, file, bucket, parts>>

ForgetUpload(s) ==
  /\ At(s, "forget")
  /\ upload' = [upload EXCEPT ![call[s].key] = NoUpload]
  /\ Answers(s, "ok")
  /\ UNCHANGED <<signing, item, file, bucket, parts>>

(* ---------------------- deleting and downloading ----------------------- *)

UploadsOf(i) == {k \in UploadKeys : upload[k].item = i}

ReadDeleted(s) ==
  /\ At(s, "rows")
  /\ LET i == call[s].item
     IN  IF item[i].live
         THEN call' = [call EXCEPT ![s].at = "uploads", ![s].found = {file[i].at} \ {None}]
         ELSE Answers(s, "ok")
  /\ UNCHANGED <<signing, rows, bucket, parts>>

(* Queued uploads have no object yet; their parts are dropped at once. *)
ReadUploads(s) ==
  /\ At(s, "uploads")
  /\ LET ks   == UploadsOf(call[s].item)
         sent == {k \in ks : upload[k].state # "queued"}
     IN  /\ call' = [call EXCEPT ![s].at = "erase",
                                 ![s].found = @ \cup {UploadName(k) : k \in sent}]
         /\ parts' = [k \in UploadKeys |-> IF k \in ks \ sent THEN None ELSE parts[k]]
  /\ UNCHANGED <<signing, rows, bucket>>

EraseItem(s) ==
  /\ At(s, "erase")
  /\ LET i == call[s].item
     IN  /\ item' = [item EXCEPT ![i].live = FALSE, ![i].pulled = {}]
         /\ file' = [file EXCEPT ![i] = NoFile]
         /\ upload' = [k \in UploadKeys |-> IF k \in UploadsOf(i) THEN NoUpload ELSE upload[k]]
  /\ Goes(s, "objects")
  /\ UNCHANGED <<signing, bucket, parts>>

(* An object goes unless some file refers to it. *)
CheckReference(s) ==
  /\ At(s, "objects")
  /\ \/ call[s].found = {} /\ Answers(s, "ok")
     \/ \E name \in call[s].found :
           IF \E i \in Items : file[i].at = name
           THEN call' = [call EXCEPT ![s].found = @ \ {name}]
           ELSE call' = [call EXCEPT ![s].at = "remove", ![s].found = @ \ {name}, ![s].key = name]
  /\ UNCHANGED <<signing, rows, bucket, parts>>

RemoveObject(s) ==
  /\ At(s, "remove")
  /\ bucket' = [bucket EXCEPT ![call[s].key] = None]
  /\ Goes(s, "objects")
  /\ UNCHANGED <<signing, rows, parts>>

(* The redirect names the md5 of the row, and the raw file checks that the *)
(* row still has it before it reads the object.                            *)
RedirectDownload(s) ==
  /\ AtOf(s, {"download"}, "row")
  /\ LET row == file[call[s].item]
     IN  IF row = NoFile THEN Answers(s, "missing")
         ELSE call' = [call EXCEPT ![s].at = "raw", ![s].md5 = row.md5]
  /\ UNCHANGED <<signing, rows, bucket, parts>>

FindRaw(s) ==
  /\ At(s, "raw")
  /\ LET row == file[call[s].item]
     IN  IF row.md5 # call[s].md5 THEN Answers(s, "missing")
         ELSE call' = [call EXCEPT ![s].at = "get", ![s].found = {row.at}]
  /\ UNCHANGED <<signing, rows, bucket, parts>>

GetRaw(s) ==
  /\ At(s, "get")
  /\ \E name \in call[s].found :
        call' = [call EXCEPT ![s] =
                   IF bucket[name] = None THEN Answered(@, "missing")
                   ELSE Answered([@ EXCEPT !.bytes = bucket[name]], "ok")]
  /\ UNCHANGED <<signing, rows, bucket, parts>>

(* Every query but InsertUpload, whose key is chosen by the composition.   *)
Query(s) ==
  \/ FindItem(s)
  \/ CompareFile(s)
  \/ FindKnown(s)
  \/ ReadSource(s)
  \/ CopySource(s)
  \/ Associate(s)
  \/ WithdrawUpload(s)
  \/ PrepareUpload(s)
  \/ FindUpload(s)
  \/ RegisterFile(s)
  \/ FindQueued(s)
  \/ PutBytes(s)
  \/ InspectObject(s)
  \/ DiscardObject(s)
  \/ MarkUploaded(s)
  \/ ForgetUpload(s)
  \/ ReadDeleted(s)
  \/ ReadUploads(s)
  \/ EraseItem(s)
  \/ CheckReference(s)
  \/ RemoveObject(s)
  \/ RedirectDownload(s)
  \/ FindRaw(s)
  \/ GetRaw(s)

(* What an item's file row promises: the object is there, and it is what   *)
(* the md5 says, whatever other requests copy, replace, abort or delete.   *)
FilesServed ==
  \A i \in Items :
    item[i].live /\ file[i] # NoFile => bucket[file[i].at] = file[i].md5
=============================================================================
