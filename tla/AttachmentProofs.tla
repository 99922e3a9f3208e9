--------------------------- MODULE AttachmentProofs ---------------------------
(***************************************************************************)
(* Proofs about AttachmentTransfer, for any number of devices, items,      *)
(* contents, upload keys and requests, and without bounds on what happens: *)
(*   rows, requests and records keep their types (TypeOK);                 *)
(*   with OneJob a device that has pulled an attachment calls no outdated  *)
(*   bytes current (ChangedBytesStale);                                    *)
(*   what the row of a live item promises is in the bucket (FilesServed),  *)
(*   when bodies are checked and sizes tell contents apart, or when no     *)
(*   file changes between its digest and the sending of its bytes.         *)
(***************************************************************************)
EXTENDS AttachmentTransfer, TLAPS

(***************************************************************************)
(* Types                                                                   *)
(***************************************************************************)

Bytes == Contents \cup {None}

Ops == {"none", "authorize", "register", "bytes", "complete", "abort", "delete", "download"}

Ats ==
  {"item", "row", "known", "source", "copy", "associate", "insert", "withdraw", "prepare",
   "upload", "file", "queued", "put", "object", "discard", "mark", "forget",
   "rows", "uploads", "erase", "objects", "remove", "raw", "get", "end"}

Replies == {"none", "ok", "exists", "missing", "refused", "failed", "unavailable", "rejected"}

Requests ==
  [op : Ops, at : Ats, item : Items \cup {None}, md5 : Bytes, match : Bytes,
   direct : BOOLEAN, key : UploadKeys \cup Names \cup {None}, bytes : Bytes,
   found : SUBSET Names, answer : Replies, heard : BOOLEAN]

(* A request is where its operation can be, and names its item and the     *)
(* bytes or the upload it is about.                                        *)
Asked(c) ==
  /\ c.op = "none" => c.at = "end"
  /\ c.op # "none" => c.item \in Items
  /\ c.at = "item" => c.op \in {"authorize", "register"}
  /\ c.at = "row" => c.op \in {"authorize", "register", "download"}
  /\ c.at \in {"known", "source", "copy", "associate", "insert", "withdraw", "prepare"}
       => c.op = "authorize"
  /\ c.at \in {"upload", "file"} => c.op = "register"
  /\ c.at = "queued" => c.op \in {"bytes", "complete", "abort"}
  /\ c.at = "put" => c.op = "bytes"
  /\ c.at \in {"object", "discard"} => c.op = "complete"
  /\ c.at = "mark" => c.op \in {"bytes", "complete"}
  /\ c.at = "forget" => c.op = "abort"
  /\ c.at \in {"rows", "uploads", "erase", "objects", "remove"} => c.op = "delete"
  /\ c.at \in {"raw", "get"} => c.op = "download"
  /\ c.op = "authorize" => c.md5 \in Contents
  /\ c.op \in {"register", "bytes", "complete", "abort"} => c.key \in UploadKeys
  /\ c.op = "authorize" /\ (c.at \in {"withdraw", "prepare"} \/ c.answer = "ok")
       => c.key \in UploadKeys
  /\ c.at = "file" => c.md5 \in Contents
  /\ c.at = "raw" => c.md5 \in Contents
  /\ c.at = "remove" => c.key \in Names

Placed(row) == row # NoFile => row.md5 \in Contents /\ row.at \in Names

Uploads ==
  [state : {"none", "queued", "uploaded", "registered"}, item : Items \cup {None},
   md5 : Bytes, multipart : BOOLEAN]

RowsTyped ==
  /\ signing \in BOOLEAN
  /\ item \in [Items -> [live : BOOLEAN, md5 : Bytes, pulled : SUBSET Devices]]
  /\ file \in [Items -> [md5 : Bytes, at : Names \cup {None}]]
  /\ \A i \in Items : Placed(file[i])
  /\ upload \in [UploadKeys -> Uploads]
  /\ \A k \in UploadKeys : upload[k].state # "none" => upload[k].md5 \in Contents

StoresTyped ==
  bucket \in [Names -> Bytes] /\ parts \in [UploadKeys -> Bytes]

CallsTyped == call \in [Slots -> Requests] /\ \A s \in Slots : Asked(call[s])

ServerTyped == RowsTyped /\ StoresTyped /\ CallsTyped

Records ==
  [known : {"no", "new", "synced"}, path : Paths \cup {None}, remote : Bytes, verified : Bytes,
   cache : {"notDownloaded", "downloading", "downloaded", "stale", "failed"}, waits : BOOLEAN]

(* A copy that is called downloaded is there and is the one of the record. *)
RecordOK(files, r) ==
  /\ r.path # None => files[r.path] \in Contents
  /\ r.cache = "downloaded" => r.path # None /\ r.verified = r.remote
  /\ r.known = "no" => r = NoRecord
  /\ r.known = "new" => r.remote = None

Noted(d, i) == RecordOK(disk[d][i], record[d][i])

(* What users may still add exists nowhere yet.                            *)
OnOffer == {o.item : o \in offered}

Unknown(i) == ~item[i].live /\ \A d \in Devices : record[d][i].known = "no"

DevicesTyped ==
  /\ disk \in [Devices -> [Items -> [Paths -> Bytes]]]
  /\ record \in [Devices -> [Items -> Records]]
  /\ \A d \in Devices : \A i \in Items : Noted(d, i)
  /\ offered \subseteq Offered
  /\ \A i \in OnOffer : Unknown(i)

Places == {"idle", "next", "authorize", "sent", "register", "failed", "abort"}

Jobs ==
  [at : Places, todo : SUBSET [item : Items, path : Paths, remote : Bytes],
   item : Items \cup {None}, path : Paths \cup {None}, digest : Bytes, match : Bytes,
   key : UploadKeys \cup {None}, direct : BOOLEAN, slot : Slots \cup {None}]

Gets == [at : {"idle", "asked"}, item : Items \cup {None}, md5 : Bytes, slot : Slots \cup {None}]

(* An item in the hands of a job: it has bytes, and is not a new one.      *)
InHand(d, i, path) ==
  /\ i \in Items /\ path \in Paths
  /\ disk[d][i][path] \in Contents
  /\ i \notin OnOffer /\ record[d][i].known # "new"

(* The request of a device is one it waits for, for its item.              *)
HasCall(s, ops, i) == s \in Slots /\ call[s].heard /\ call[s].op \in ops /\ call[s].item = i

JobTyped(d) ==
  LET j == job[d]
  IN  /\ j.at = "idle" => j = NoJob
      /\ \A r \in j.todo : InHand(d, r.item, r.path)
      /\ j.at \notin {"idle", "next"} => InHand(d, j.item, j.path) /\ j.digest \in Contents
      /\ j.at \in {"idle", "next", "failed"} => j.slot = None
      /\ j.at = "authorize" => HasCall(j.slot, {"authorize"}, j.item)
      /\ j.at = "sent" => HasCall(j.slot, {"bytes", "complete"}, j.item)
      /\ j.at = "register" => HasCall(j.slot, {"register"}, j.item)
      /\ j.at = "abort" => HasCall(j.slot, {"abort"}, j.item)
      /\ j.at \in {"sent", "register"} => j.key \in UploadKeys

GetTyped(d) ==
  LET g == get[d]
  IN  IF g.at = "idle" THEN g = NoGet
      ELSE /\ g.item \in Items /\ g.md5 \in Contents
           /\ g.item \notin OnOffer /\ record[d][g.item].known # "new"
           /\ HasCall(g.slot, {"download"}, g.item)

(* No request has two who wait for it.  (A job and a download differ in    *)
(* their requests' operations.)                                            *)
SlotsApart ==
  \A d, e \in Devices : d # e =>
     /\ job[d].slot # None => job[d].slot # job[e].slot
     /\ get[d].slot # None => get[d].slot # get[e].slot

JobsTyped ==
  /\ job \in [Devices -> Jobs] /\ get \in [Devices -> Gets]
  /\ \A d \in Devices : JobTyped(d) /\ GetTyped(d)
  /\ SlotsApart

Typed == ServerTyped /\ DevicesTyped /\ JobsTyped

(***************************************************************************)
(* Outdated bytes                                                          *)
(***************************************************************************)

(* What a device has pulled is what its record says. *)
Follows(d, i) ==
  d \in item[i].pulled /\ item[i].live /\ record[d][i].known = "synced"
    => record[d][i].remote = item[i].md5

(* While a device is at work nothing but itself moves its record.          *)
AsRead(d, i, md5) == record[d][i].known = "no" \/ record[d][i].remote = md5

(* The row of the item was written by the request that answers so. *)
Wrote(c) ==
  \/ c.op = "authorize" /\ c.answer = "exists"
  \/ c.op = "register" /\ c.answer = "ok"

JobFollows(d) ==
  LET j == job[d]
  IN  /\ j.at = "idle" \/ get[d].at = "idle"
      /\ \A r \in j.todo : AsRead(d, r.item, r.remote)
      /\ \A r, q \in j.todo : r.item = q.item => r = q
      /\ j.at \notin {"idle", "next"} => \A r \in j.todo : r.item # j.item
      /\ j.slot # None /\ Wrote(call[j.slot]) => d \notin item[j.item].pulled
      /\ get[d].at # "idle" => AsRead(d, get[d].item, get[d].md5)

Following ==
  \A d \in Devices : JobFollows(d) /\ \A i \in Items : Follows(d, i)

(***************************************************************************)
(* The server's queries                                                    *)
(***************************************************************************)

(* What a query is for those who wait, and for the devices' records.       *)
Turn(s) ==
  LET c == call[s]
      n == call'[s]
  IN  /\ c.op # "none"
      /\ \A t \in Slots : t # s => call'[t] = call[t]
      /\ c.heard => n.heard /\ n.op = c.op /\ n.item = c.item
      /\ c.heard /\ Wrote(n) => Wrote(c) \/ item'[c.item].pulled = {}
      /\ \A i \in Items : item'[i] # item[i] =>
            item'[i].pulled = {} /\ (item'[i].live => item[i].live)

LEMMA IdleTyped == Idle \in Requests /\ Asked(Idle) /\ ~Wrote(Idle)
  BY DEF Idle, Requests, Asked, Wrote, Ops, Ats, Replies, Bytes

LEMMA CallTyped ==
  ASSUME NEW op \in Ops \ {"none"}, NEW i \in Items, NEW heard \in BOOLEAN
  PROVE  /\ Call(op, i, heard) \in Requests /\ Call(op, i, heard).op = op
         /\ Call(op, i, heard).item = i /\ Call(op, i, heard).heard = heard
         /\ Call(op, i, heard).answer = "none" /\ Call(op, i, heard).at = FirstQuery[op]
         /\ Call(op, i, heard).found = {}
<1>1. FirstQuery[op] \in Ats
  BY DEF FirstQuery, Ops, Ats
<1> QED BY <1>1, IdleTyped DEF Call, Idle, Requests

(* A request somebody waits for, and one nobody does. *)
LEMMA NewCallTyped ==
  ASSUME NEW op \in Ops \ {"none"}, NEW i \in Items
  PROVE  /\ /\ Call(op, i, TRUE) \in Requests /\ Call(op, i, TRUE).op = op
            /\ Call(op, i, TRUE).item = i /\ Call(op, i, TRUE).heard
            /\ Call(op, i, TRUE).answer = "none" /\ Call(op, i, TRUE).at = FirstQuery[op]
         /\ /\ Call(op, i, FALSE) \in Requests /\ Call(op, i, FALSE).op = op
            /\ Call(op, i, FALSE).item = i /\ ~Call(op, i, FALSE).heard
            /\ Call(op, i, FALSE).answer = "none" /\ Call(op, i, FALSE).at = FirstQuery[op]
<1> DEFINE m(h) == Call(op, i, h)
<1>1. \A h \in BOOLEAN : /\ m(h) \in Requests /\ m(h).op = op /\ m(h).item = i
                         /\ m(h).heard = h /\ m(h).answer = "none"
                         /\ m(h).at = FirstQuery[op]
  BY CallTyped
<1> HIDE DEF m
<1>2. /\ m(TRUE) \in Requests /\ m(TRUE).op = op /\ m(TRUE).item = i /\ m(TRUE).heard
      /\ m(TRUE).answer = "none" /\ m(TRUE).at = FirstQuery[op]
  BY <1>1, Zenon
<1>3. /\ m(FALSE) \in Requests /\ m(FALSE).op = op /\ m(FALSE).item = i /\ ~m(FALSE).heard
      /\ m(FALSE).answer = "none" /\ m(FALSE).at = FirstQuery[op]
  BY <1>1, Zenon
<1> QED BY <1>2, <1>3, Zenon DEF m

(* An answer ends a request: its sender hears it, or it is forgotten.      *)
LEMMA AnsweredTyped ==
  ASSUME NEW c \in Requests, Asked(c), c.op # "none", NEW answer \in Replies,
         c.op = "authorize" /\ answer = "ok" => c.key \in UploadKeys
  PROVE  /\ Answered(c, answer) \in Requests /\ Asked(Answered(c, answer))
         /\ ~c.heard => Answered(c, answer) = Idle
         /\ c.heard => /\ Answered(c, answer).heard
                       /\ Answered(c, answer).op = c.op
                       /\ Answered(c, answer).item = c.item
                       /\ Answered(c, answer).answer = answer
                       /\ Answered(c, answer).key = c.key
                       /\ Answered(c, answer).at = "end"
<1> DEFINE n == [c EXCEPT !.at = "end", !.answer = answer, !.found = {}]
<1>1. /\ n \in Requests /\ n.op = c.op /\ n.item = c.item /\ n.md5 = c.md5 /\ n.key = c.key
      /\ n.at = "end" /\ n.answer = answer /\ n.heard = c.heard
  BY DEF Requests, Ats
<1> HIDE DEF n
<1>2. Asked(n)
  BY <1>1 DEF Asked
<1> QED BY <1>1, <1>2, IdleTyped DEF Answered, n

ItemsTurn == \A i \in Items : item'[i] # item[i] =>
                item'[i].pulled = {} /\ (item'[i].live => item[i].live)

LEMMA TurnTo ==
  ASSUME CallsTyped, ItemsTurn, NEW s \in Slots, call[s].op # "none",
         NEW n \in Requests, Asked(n), call' = [call EXCEPT ![s] = n],
         call[s].heard => n.heard /\ n.op = call[s].op /\ n.item = call[s].item,
         call[s].heard /\ Wrote(n) => Wrote(call[s]) \/ item'[call[s].item].pulled = {}
  PROVE  CallsTyped' /\ Turn(s)
<1>1. call'[s] = n /\ \A t \in Slots : t # s => call'[t] = call[t]
  BY DEF CallsTyped
<1>2. CallsTyped'
  BY <1>1 DEF CallsTyped
<1> QED BY <1>1, <1>2 DEF Turn, ItemsTurn

LEMMA GoesTurn ==
  ASSUME CallsTyped, ItemsTurn, NEW s \in Slots, call[s].op # "none",
         NEW at \in Ats, Asked([call[s] EXCEPT !.at = at]), Goes(s, at)
  PROVE  CallsTyped' /\ Turn(s)
<1> DEFINE n == [call[s] EXCEPT !.at = at]
<1>1. call[s] \in Requests
  BY DEF CallsTyped
<1>2. /\ n \in Requests /\ n.op = call[s].op /\ n.item = call[s].item
      /\ n.heard = call[s].heard /\ n.answer = call[s].answer
  BY <1>1 DEF Requests
<1>3. Asked(n) /\ call' = [call EXCEPT ![s] = n]
  BY DEF Goes
<1> HIDE DEF n
<1>4. Wrote(n) => Wrote(call[s])
  BY <1>2 DEF Wrote
<1> QED BY <1>2, <1>3, <1>4, TurnTo

LEMMA AnswersTurn ==
  ASSUME CallsTyped, ItemsTurn, NEW s \in Slots, call[s].op # "none",
         NEW answer \in Replies, Answers(s, answer),
         call[s].op = "authorize" /\ answer = "ok" => call[s].key \in UploadKeys,
         \/ answer \notin {"exists", "ok"}
         \/ call[s].op = "authorize" /\ answer = "ok"
         \/ call[s].op # "authorize" /\ answer = "exists"
         \/ call[s].op \notin {"authorize", "register"}
         \/ item'[call[s].item].pulled = {}
  PROVE  CallsTyped' /\ Turn(s)
<1> DEFINE c == call[s]
           n == Answered(c, answer)
<1>1. c \in Requests /\ Asked(c)
  BY DEF CallsTyped
<1>2. /\ n \in Requests /\ Asked(n)
      /\ c.heard => n.heard /\ n.op = c.op /\ n.item = c.item /\ n.answer = answer
  BY <1>1, AnsweredTyped
<1>3. call' = [call EXCEPT ![s] = n]
  BY DEF Answers
<1>4. c.heard /\ Wrote(n) => item'[c.item].pulled = {}
  BY <1>2 DEF Wrote
<1> HIDE DEF n
<1> QED BY <1>2, <1>3, <1>4, TurnTo

LEMMA ItemsStay == UNCHANGED item => ItemsTurn
  BY DEF ItemsTurn

(* The rest of the server, when a query leaves it alone.                   *)
LEMMA RowsStay == RowsTyped /\ UNCHANGED <<signing, rows>> => RowsTyped' /\ ItemsTurn
  BY DEF RowsTyped, Placed, ItemsTurn, rows

LEMMA StoresStay == StoresTyped /\ UNCHANGED <<bucket, parts>> => StoresTyped'
  BY DEF StoresTyped

LEMMA NamesTyped ==
  /\ \A k \in UploadKeys : UploadName(k) \in Names
  /\ \A i \in Items, c \in Contents : FileName(i, c) \in Names
  /\ None \notin Names /\ Names \cap UploadKeys = {}
  /\ None \notin Items /\ None \notin Contents /\ None \notin UploadKeys /\ None \notin Slots
  BY FilesAssumption, NamesAssumption DEF Names

LEMMA FindItemTyped ==
  ASSUME ServerTyped, NEW s \in Slots, FindItem(s)
  PROVE  ServerTyped' /\ Turn(s)
<1>1. /\ RowsTyped' /\ StoresTyped' /\ CallsTyped /\ ItemsTurn
      /\ call[s].op \in {"authorize", "register"} /\ call[s].at = "item"
  BY RowsStay, StoresStay DEF ServerTyped, FindItem, AtOf, At
<1>2. call[s] \in Requests /\ Asked(call[s])
  BY <1>1 DEF CallsTyped
<1>3. ASSUME Goes(s, "row") PROVE CallsTyped' /\ Turn(s)
  <2>1. Asked([call[s] EXCEPT !.at = "row"])
    BY <1>1, <1>2 DEF Asked, Requests
  <2>2. "row" \in Ats /\ call[s].op # "none"
    BY <1>1 DEF Ats
  <2> QED BY <1>1, <1>3, <2>1, <2>2, GoesTurn
<1>4. ASSUME Answers(s, "missing") PROVE CallsTyped' /\ Turn(s)
  BY <1>1, <1>4, AnswersTurn DEF Replies
<1> QED BY <1>1, <1>3, <1>4 DEF FindItem, ServerTyped

LEMMA CompareFileTyped ==
  ASSUME ServerTyped, NEW s \in Slots, CompareFile(s)
  PROVE  ServerTyped' /\ Turn(s)
<1>1. /\ RowsTyped' /\ StoresTyped' /\ CallsTyped /\ ItemsTurn
      /\ call[s].op \in {"authorize", "register"} /\ call[s].at = "row"
  BY RowsStay, StoresStay DEF ServerTyped, CompareFile, AtOf, At
<1>2. call[s] \in Requests /\ Asked(call[s])
  BY <1>1 DEF CallsTyped
<1>3. ASSUME NEW at, Goes(s, at),
             \/ call[s].op = "authorize" /\ at = "known"
             \/ call[s].op = "register" /\ at = "upload"
      PROVE  CallsTyped' /\ Turn(s)
  <2>1. Asked([call[s] EXCEPT !.at = at])
    BY <1>1, <1>2, <1>3 DEF Asked, Requests
  <2>2. at \in Ats /\ call[s].op # "none"
    BY <1>1, <1>3 DEF Ats
  <2> QED BY <1>1, <1>3, <2>1, <2>2, GoesTurn
<1>4. ASSUME Answers(s, "refused") PROVE CallsTyped' /\ Turn(s)
  BY <1>1, <1>4, AnswersTurn DEF Replies
<1>5. \/ Answers(s, "refused")
      \/ call[s].op = "authorize" /\ Goes(s, "known")
      \/ call[s].op = "register" /\ Goes(s, "upload")
  BY <1>1 DEF CompareFile
<1> QED BY <1>1, <1>3, <1>4, <1>5 DEF ServerTyped

(* A request that goes on with something learnt. *)
LEMMA LearnsTurn ==
  ASSUME CallsTyped, ItemsTurn, NEW s \in Slots, call[s].op # "none",
         NEW n \in Requests, Asked(n), call' = [call EXCEPT ![s] = n],
         n.op = call[s].op, n.item = call[s].item, n.heard = call[s].heard,
         n.answer = call[s].answer
  PROVE  CallsTyped' /\ Turn(s)
<1>1. Wrote(n) => Wrote(call[s])
  BY DEF Wrote
<1> QED BY <1>1, TurnTo

LEMMA FindKnownTyped ==
  ASSUME ServerTyped, NEW s \in Slots, FindKnown(s)
  PROVE  ServerTyped' /\ Turn(s)
<1>1. /\ RowsTyped' /\ StoresTyped' /\ CallsTyped /\ ItemsTurn
      /\ call[s].op = "authorize" /\ call[s].at = "known" /\ call[s].op # "none"
      /\ call[s] \in Requests /\ Asked(call[s])
  BY RowsStay, StoresStay DEF ServerTyped, CallsTyped, Asked, FindKnown, At
<1>2. ASSUME Goes(s, "insert") PROVE CallsTyped' /\ Turn(s)
  <2>1. Asked([call[s] EXCEPT !.at = "insert"]) /\ "insert" \in Ats
    BY <1>1 DEF Asked, Requests, Ats
  <2> QED BY <1>1, <1>2, <2>1, GoesTurn
<1>3. ASSUME NEW i \in Items, file[i].md5 = call[s].md5,
             call' = [call EXCEPT ![s].at = "source", ![s].found = {file[i].at}]
      PROVE  CallsTyped' /\ Turn(s)
  <2> DEFINE n == [call[s] EXCEPT !.at = "source", !.found = {file[i].at}]
  <2>1. call[s].md5 \in Contents
    BY <1>1 DEF Asked
  <2>2. file[i].at \in Names
    BY <1>3, <2>1, NamesTyped DEF ServerTyped, RowsTyped, Placed, NoFile
  <2>3. /\ n \in Requests /\ n.op = call[s].op /\ n.item = call[s].item
        /\ n.heard = call[s].heard /\ n.answer = call[s].answer /\ Asked(n)
    BY <1>1, <2>2 DEF Requests, Ats, Asked
  <2>4. call' = [call EXCEPT ![s] = n]
    BY <1>1, <1>3 DEF CallsTyped
  <2> HIDE DEF n
  <2> QED BY <1>1, <2>3, <2>4, LearnsTurn
<1> QED BY <1>1, <1>2, <1>3 DEF FindKnown, ServerTyped

LEMMA ReadSourceTyped ==
  ASSUME ServerTyped, NEW s \in Slots, ReadSource(s)
  PROVE  ServerTyped' /\ Turn(s)
<1>1. /\ RowsTyped' /\ StoresTyped' /\ CallsTyped /\ ItemsTurn
      /\ call[s].op = "authorize" /\ call[s].at = "source" /\ call[s].op # "none"
      /\ call[s] \in Requests /\ Asked(call[s])
  BY RowsStay, StoresStay DEF ServerTyped, CallsTyped, Asked, ReadSource, At
<1>2. ASSUME Goes(s, "insert") PROVE CallsTyped' /\ Turn(s)
  <2>1. Asked([call[s] EXCEPT !.at = "insert"]) /\ "insert" \in Ats
    BY <1>1 DEF Asked, Requests, Ats
  <2> QED BY <1>1, <1>2, <2>1, GoesTurn
<1>3. ASSUME NEW name \in call[s].found,
             call' = [call EXCEPT ![s].at = "copy", ![s].bytes = bucket[name]]
      PROVE  CallsTyped' /\ Turn(s)
  <2> DEFINE n == [call[s] EXCEPT !.at = "copy", !.bytes = bucket[name]]
  <2>1. bucket[name] \in Bytes
    BY <1>1, <1>3 DEF ServerTyped, StoresTyped, Requests
  <2>2. /\ n \in Requests /\ n.op = call[s].op /\ n.item = call[s].item
        /\ n.heard = call[s].heard /\ n.answer = call[s].answer /\ Asked(n)
    BY <1>1, <2>1 DEF Requests, Ats, Asked
  <2>3. call' = [call EXCEPT ![s] = n]
    BY <1>1, <1>3 DEF CallsTyped
  <2> HIDE DEF n
  <2> QED BY <1>1, <2>2, <2>3, LearnsTurn
<1> QED BY <1>1, <1>2, <1>3 DEF ReadSource, ServerTyped

LEMMA CopySourceTyped ==
  ASSUME ServerTyped, NEW s \in Slots, CopySource(s)
  PROVE  ServerTyped' /\ Turn(s)
<1>1. /\ RowsTyped' /\ CallsTyped /\ ItemsTurn
      /\ call[s].op = "authorize" /\ call[s].at = "copy" /\ call[s].op # "none"
      /\ call[s] \in Requests /\ Asked(call[s])
  BY RowsStay DEF ServerTyped, CallsTyped, Asked, CopySource, At
<1>2. call[s].bytes \in Bytes
  BY <1>1 DEF Requests
<1>3. StoresTyped'
  BY <1>2 DEF ServerTyped, StoresTyped, CopySource
<1>4. Asked([call[s] EXCEPT !.at = "associate"]) /\ "associate" \in Ats
  BY <1>1 DEF Asked, Requests, Ats
<1>5. Goes(s, "associate")
  BY DEF CopySource
<1>6. CallsTyped' /\ Turn(s)
  BY <1>1, <1>4, <1>5, GoesTurn
<1> QED BY <1>1, <1>3, <1>6 DEF ServerTyped

LEMMA GivesFileTyped ==
  ASSUME RowsTyped, NEW i \in Items, NEW md5 \in Contents, NEW at \in Names,
         GivesFile(i, md5, at)
  PROVE  /\ item' \in [Items -> [live : BOOLEAN, md5 : Bytes, pulled : SUBSET Devices]]
         /\ file' \in [Items -> [md5 : Bytes, at : Names \cup {None}]]
         /\ \A j \in Items : Placed(file'[j])
         /\ item'[i].pulled = {} /\ ItemsTurn
<1>1. item' \in [Items -> [live : BOOLEAN, md5 : Bytes, pulled : SUBSET Devices]]
  BY DEF RowsTyped, GivesFile, Bytes
<1>2. file' \in [Items -> [md5 : Bytes, at : Names \cup {None}]]
  BY DEF RowsTyped, GivesFile, Bytes
<1>3. \A j \in Items : Placed(file'[j])
  BY DEF RowsTyped, GivesFile, Placed
<1>4. item'[i].pulled = {} /\ ItemsTurn
  BY DEF RowsTyped, GivesFile, ItemsTurn
<1> QED BY <1>1, <1>2, <1>3, <1>4

LEMMA AssociateTyped ==
  ASSUME ServerTyped, NEW s \in Slots, Associate(s)
  PROVE  ServerTyped' /\ Turn(s)
<1>1. /\ RowsTyped /\ StoresTyped' /\ CallsTyped
      /\ call[s].op = "authorize" /\ call[s].at = "associate" /\ call[s].op # "none"
      /\ call[s] \in Requests /\ Asked(call[s])
  BY StoresStay DEF ServerTyped, CallsTyped, Asked, Associate, At
<1>2. call[s].item \in Items /\ call[s].md5 \in Contents
  BY <1>1 DEF Asked
<1>3. FileName(call[s].item, call[s].md5) \in Names
  BY <1>2, NamesTyped
<1>4. /\ GivesFile(call[s].item, call[s].md5, FileName(call[s].item, call[s].md5))
      /\ Answers(s, "exists")
  BY DEF Associate
<1>5. /\ item' \in [Items -> [live : BOOLEAN, md5 : Bytes, pulled : SUBSET Devices]]
      /\ file' \in [Items -> [md5 : Bytes, at : Names \cup {None}]]
      /\ \A j \in Items : Placed(file'[j])
      /\ item'[call[s].item].pulled = {} /\ ItemsTurn
  BY <1>1, <1>2, <1>3, <1>4, GivesFileTyped
<1>6. RowsTyped'
  BY <1>1, <1>5 DEF RowsTyped, Associate
<1>7. CallsTyped' /\ Turn(s)
  BY <1>1, <1>4, <1>5, AnswersTurn DEF Replies
<1> QED BY <1>1, <1>6, <1>7 DEF ServerTyped

LEMMA UploadStateTyped ==
  ASSUME RowsTyped, UNCHANGED <<signing, item, file>>, upload' \in [UploadKeys -> Uploads],
         \A k \in UploadKeys : upload'[k].state # "none" => upload'[k].md5 \in Contents
  PROVE  RowsTyped' /\ ItemsTurn
  BY DEF RowsTyped, ItemsTurn, Placed

LEMMA NoUploadTyped == NoUpload \in Uploads /\ NoUpload.state = "none"
  BY DEF NoUpload, Uploads, Bytes

LEMMA InsertUploadTyped ==
  ASSUME ServerTyped, NEW s \in Slots, NEW k \in UploadKeys, InsertUpload(s, k)
  PROVE  ServerTyped' /\ Turn(s)
<1> DEFINE c == [call[s] EXCEPT !.key = k, !.found = {}]
           new == [state |-> "queued", item |-> call[s].item, md5 |-> call[s].md5,
                   multipart |-> FALSE]
<1>1. /\ RowsTyped /\ StoresTyped /\ CallsTyped
      /\ call[s].op = "authorize" /\ call[s].at = "insert" /\ call[s].op # "none"
      /\ call[s] \in Requests /\ Asked(call[s])
  BY DEF ServerTyped, CallsTyped, Asked, InsertUpload, At
<1>2. call[s].item \in Items /\ call[s].md5 \in Contents
  BY <1>1 DEF Asked
<1>3. new \in Uploads /\ new.state = "queued" /\ new.md5 \in Contents
  BY <1>2 DEF Uploads, Bytes
<1>4. upload' = [upload EXCEPT ![k] = new] /\ UNCHANGED <<signing, item, file>>
  BY DEF InsertUpload
<1>5. RowsTyped' /\ ItemsTurn
  <2> HIDE DEF new
  <2>1. /\ upload' \in [UploadKeys -> Uploads]
        /\ \A h \in UploadKeys : upload'[h].state # "none" => upload'[h].md5 \in Contents
    BY <1>1, <1>3, <1>4 DEF RowsTyped
  <2> QED BY <1>1, <1>4, <2>1, UploadStateTyped
<1>6. StoresTyped'
  BY <1>1, NamesTyped DEF StoresTyped, InsertUpload, Bytes
<1>7. /\ c \in Requests /\ Asked(c) /\ c.op = "authorize" /\ c.item = call[s].item
      /\ c.heard = call[s].heard /\ c.answer = call[s].answer /\ c.key = k /\ c.at = "insert"
  BY <1>1 DEF Requests, Asked
<1>8. \/ call' = [call EXCEPT ![s] = Answered(c, "ok")]
      \/ call' = [call EXCEPT ![s] = [c EXCEPT !.at = "prepare"]]
      \/ call' = [call EXCEPT ![s] = [c EXCEPT !.at = "withdraw"]]
  BY DEF InsertUpload
<1> HIDE DEF c
<1>9. ASSUME NEW at \in {"prepare", "withdraw"}, call' = [call EXCEPT ![s] = [c EXCEPT !.at = at]]
      PROVE  CallsTyped' /\ Turn(s)
  <2> DEFINE n == [c EXCEPT !.at = at]
  <2>1. /\ n \in Requests /\ n.op = c.op /\ n.item = c.item /\ Asked(n)
        /\ n.heard = c.heard /\ n.answer = c.answer
    BY <1>7 DEF Requests, Ats, Asked
  <2>2. call' = [call EXCEPT ![s] = n]
    BY <1>9
  <2> HIDE DEF n
  <2> QED BY <1>1, <1>5, <1>7, <2>1, <2>2, LearnsTurn
<1>10. ASSUME call' = [call EXCEPT ![s] = Answered(c, "ok")]
       PROVE  CallsTyped' /\ Turn(s)
  <2> DEFINE n == Answered(c, "ok")
  <2>1. /\ n \in Requests /\ Asked(n)
        /\ c.heard => n.heard /\ n.op = c.op /\ n.item = c.item /\ n.answer = "ok"
    BY <1>7, AnsweredTyped DEF Replies
  <2>2. c.heard => ~Wrote(n)
    BY <1>7, <2>1 DEF Wrote
  <2>3. call' = [call EXCEPT ![s] = n]
    BY <1>10
  <2> HIDE DEF n
  <2> QED BY <1>1, <1>5, <1>7, <2>1, <2>2, <2>3, TurnTo
<1> QED BY <1>5, <1>6, <1>8, <1>9, <1>10 DEF ServerTyped

LEMMA ForgottenTyped ==
  ASSUME RowsTyped, UNCHANGED <<signing, item, file>>, NEW k,
         upload' = [upload EXCEPT ![k] = NoUpload]
  PROVE  RowsTyped' /\ ItemsTurn
<1>1. /\ upload' \in [UploadKeys -> Uploads]
      /\ \A h \in UploadKeys : upload'[h].state # "none" => upload'[h].md5 \in Contents
  BY NoUploadTyped DEF RowsTyped
<1> QED BY <1>1, UploadStateTyped

LEMMA MarkedTyped ==
  ASSUME RowsTyped, UNCHANGED <<signing, item, file>>, NEW k \in UploadKeys,
         upload[k].state # "none", NEW state \in {"uploaded", "registered"},
         upload' = [upload EXCEPT ![k].state = state]
  PROVE  RowsTyped' /\ ItemsTurn
<1>1. /\ upload' \in [UploadKeys -> Uploads]
      /\ \A h \in UploadKeys : upload'[h].state # "none" => upload'[h].md5 \in Contents
  BY DEF RowsTyped, Uploads
<1> QED BY <1>1, UploadStateTyped

LEMMA WithdrawUploadTyped ==
  ASSUME ServerTyped, NEW s \in Slots, WithdrawUpload(s)
  PROVE  ServerTyped' /\ Turn(s)
<1>1. /\ StoresTyped' /\ CallsTyped /\ RowsTyped /\ call[s].op = "authorize" /\ call[s].op # "none"
  BY StoresStay DEF ServerTyped, CallsTyped, Asked, WithdrawUpload, At
<1>2. RowsTyped' /\ ItemsTurn
  BY <1>1, ForgottenTyped DEF WithdrawUpload
<1>3. Answers(s, "unavailable") /\ "unavailable" \in Replies
  BY DEF WithdrawUpload, Replies
<1>4. CallsTyped' /\ Turn(s)
  BY <1>1, <1>2, <1>3, AnswersTurn
<1> QED BY <1>1, <1>2, <1>4 DEF ServerTyped

LEMMA PrepareUploadTyped ==
  ASSUME ServerTyped, NEW s \in Slots, PrepareUpload(s)
  PROVE  ServerTyped' /\ Turn(s)
<1> DEFINE k == call[s].key
<1>1. /\ StoresTyped' /\ CallsTyped /\ RowsTyped /\ call[s].op = "authorize"
      /\ call[s].op # "none" /\ k \in UploadKeys
  BY StoresStay DEF ServerTyped, CallsTyped, Asked, PrepareUpload, At
<1>2. RowsTyped' /\ ItemsTurn
  <2>1. CASE upload' = [upload EXCEPT ![k].multipart = upload[k].md5 \in Large]
    <3> DEFINE large == upload[k].md5 \in Large
    <3>1. large \in BOOLEAN
      OBVIOUS
    <3> HIDE DEF large
    <3>2. upload' = [upload EXCEPT ![k].multipart = large]
      BY <2>1 DEF large
    <3>3. /\ upload' \in [UploadKeys -> Uploads]
          /\ \A h \in UploadKeys : upload'[h].state # "none" => upload'[h].md5 \in Contents
      BY <1>1, <3>1, <3>2 DEF RowsTyped, Uploads
    <3> QED BY <1>1, <3>3, UploadStateTyped DEF PrepareUpload
  <2>2. CASE UNCHANGED upload
    BY <1>1, <2>2, RowsStay DEF PrepareUpload, rows
  <2> QED BY <2>1, <2>2 DEF PrepareUpload
<1>3. \/ Answers(s, "ok") \/ Answers(s, "failed")
  BY DEF PrepareUpload
<1>4. {"ok", "failed"} \subseteq Replies
  BY DEF Replies
<1>5. CallsTyped' /\ Turn(s)
  BY <1>1, <1>2, <1>3, <1>4, AnswersTurn
<1> QED BY <1>1, <1>2, <1>5 DEF ServerTyped

LEMMA FindUploadTyped ==
  ASSUME ServerTyped, NEW s \in Slots, FindUpload(s)
  PROVE  ServerTyped' /\ Turn(s)
<1> DEFINE k == call[s].key
<1>1. /\ RowsTyped' /\ StoresTyped' /\ CallsTyped /\ ItemsTurn /\ RowsTyped
      /\ call[s].op = "register" /\ call[s].at = "upload" /\ call[s].op # "none"
      /\ call[s] \in Requests /\ Asked(call[s]) /\ k \in UploadKeys
  BY RowsStay, StoresStay DEF ServerTyped, CallsTyped, Asked, FindUpload, At
<1>2. ASSUME NEW answer \in {"missing", "rejected"}, Answers(s, answer)
      PROVE  CallsTyped' /\ Turn(s)
  <2>1. answer \in Replies /\ answer \notin {"exists", "ok"}
    BY <1>2 DEF Replies
  <2> QED BY <1>1, <1>2, <2>1, AnswersTurn
<1>3. ASSUME upload[k].state # "none",
             call' = [call EXCEPT ![s].at = "file", ![s].md5 = upload[k].md5]
      PROVE  CallsTyped' /\ Turn(s)
  <2> DEFINE n == [call[s] EXCEPT !.at = "file", !.md5 = upload[k].md5]
  <2>1. upload[k].md5 \in Contents
    BY <1>1, <1>3 DEF RowsTyped
  <2>2. /\ n \in Requests /\ n.op = call[s].op /\ n.item = call[s].item
        /\ n.heard = call[s].heard /\ n.answer = call[s].answer /\ Asked(n)
    BY <1>1, <2>1 DEF Requests, Ats, Asked, Bytes
  <2>3. call' = [call EXCEPT ![s] = n]
    BY <1>1, <1>3 DEF CallsTyped
  <2> HIDE DEF n
  <2> QED BY <1>1, <2>2, <2>3, LearnsTurn
<1>4. \/ Answers(s, "missing") \/ Answers(s, "rejected")
      \/ /\ upload[k].state # "none"
         /\ call' = [call EXCEPT ![s].at = "file", ![s].md5 = upload[k].md5]
  BY DEF FindUpload
<1> QED BY <1>1, <1>2, <1>3, <1>4 DEF ServerTyped

LEMMA RegisterFileTyped ==
  ASSUME ServerTyped, NEW s \in Slots, RegisterFile(s)
  PROVE  ServerTyped' /\ Turn(s)
<1> DEFINE k == call[s].key
           i == call[s].item
<1>1. /\ RowsTyped /\ StoresTyped' /\ CallsTyped
      /\ call[s].op = "register" /\ call[s].at = "file" /\ call[s].op # "none"
      /\ i \in Items /\ call[s].md5 \in Contents /\ k \in UploadKeys
  BY StoresStay DEF ServerTyped, CallsTyped, Asked, RegisterFile, At
<1>2. GivesFile(i, call[s].md5, UploadName(k)) /\ UploadName(k) \in Names
  BY <1>1, NamesTyped DEF RegisterFile
<1>3. /\ item' \in [Items -> [live : BOOLEAN, md5 : Bytes, pulled : SUBSET Devices]]
      /\ file' \in [Items -> [md5 : Bytes, at : Names \cup {None}]]
      /\ \A j \in Items : Placed(file'[j])
      /\ item'[i].pulled = {} /\ ItemsTurn
  BY <1>1, <1>2, GivesFileTyped
<1>4. /\ upload' \in [UploadKeys -> Uploads]
      /\ \A h \in UploadKeys : upload'[h].state # "none" => upload'[h].md5 \in Contents
  <2>1. CASE upload' = upload
    BY <1>1, <2>1 DEF RowsTyped
  <2>2. CASE upload[k].state # "none" /\ upload' = [upload EXCEPT ![k].state = "registered"]
    BY <1>1, <2>2 DEF RowsTyped, Uploads
  <2> QED BY <2>1, <2>2 DEF RegisterFile
<1>5. RowsTyped'
  BY <1>1, <1>3, <1>4 DEF RowsTyped, RegisterFile
<1>6. Answers(s, "ok") /\ "ok" \in Replies
  BY DEF RegisterFile, Replies
<1>7. CallsTyped' /\ Turn(s)
  BY <1>1, <1>3, <1>6, AnswersTurn
<1> QED BY <1>1, <1>5, <1>7 DEF ServerTyped

LEMMA FindQueuedTyped ==
  ASSUME ServerTyped, NEW s \in Slots, FindQueued(s)
  PROVE  ServerTyped' /\ Turn(s)
<1> DEFINE k == call[s].key
<1>1. /\ RowsTyped' /\ CallsTyped /\ ItemsTurn /\ RowsTyped /\ StoresTyped
      /\ call[s].op \in {"bytes", "complete", "abort"} /\ call[s].at = "queued"
      /\ call[s] \in Requests /\ Asked(call[s]) /\ k \in UploadKeys
  BY RowsStay DEF ServerTyped, CallsTyped, Asked, FindQueued, At, AtOf
<1>2. StoresTyped'
  BY <1>1 DEF StoresTyped, FindQueued, Bytes
<1>3. ASSUME NEW answer \in {"missing", "rejected"}, Answers(s, answer)
      PROVE  CallsTyped' /\ Turn(s)
  <2>1. answer \in Replies /\ answer \notin {"exists", "ok"} /\ call[s].op # "none"
    BY <1>1, <1>3 DEF Replies
  <2> QED BY <1>1, <1>3, <2>1, AnswersTurn
<1>4. ASSUME NEW at, Goes(s, at),
             \/ call[s].op = "bytes" /\ at = "put"
             \/ call[s].op = "abort" /\ at = "forget"
      PROVE  CallsTyped' /\ Turn(s)
  <2>1. Asked([call[s] EXCEPT !.at = at])
    BY <1>1, <1>4 DEF Asked, Requests
  <2>2. at \in Ats /\ call[s].op # "none"
    BY <1>1, <1>4 DEF Ats
  <2> QED BY <1>1, <1>4, <2>1, <2>2, GoesTurn
<1>5. ASSUME call[s].op = "complete",
             call' = [call EXCEPT ![s].at = "object", ![s].md5 = upload[k].md5,
                                  ![s].direct = upload[k].multipart]
      PROVE  CallsTyped' /\ Turn(s)
  <2> DEFINE n == [call[s] EXCEPT !.at = "object", !.md5 = upload[k].md5,
                                  !.direct = upload[k].multipart]
  <2>1. upload[k].md5 \in Bytes /\ upload[k].multipart \in BOOLEAN
    BY <1>1 DEF RowsTyped, Uploads
  <2>2. /\ n \in Requests /\ n.op = call[s].op /\ n.item = call[s].item
        /\ n.heard = call[s].heard /\ n.answer = call[s].answer /\ n.at = "object"
        /\ n.key = call[s].key
    BY <1>1, <2>1 DEF Requests, Ats
  <2>3. call' = [call EXCEPT ![s] = n]
    BY <1>1, <1>5 DEF CallsTyped
  <2> HIDE DEF n
  <2>4. Asked(n)
    BY <1>1, <1>5, <2>2 DEF Asked
  <2>5. call[s].op # "none"
    BY <1>5
  <2> QED BY <1>1, <2>2, <2>3, <2>4, <2>5, LearnsTurn
<1>6. \/ Answers(s, "missing") \/ Answers(s, "rejected")
      \/ call[s].op = "bytes" /\ Goes(s, "put")
      \/ call[s].op = "abort" /\ Goes(s, "forget")
      \/ /\ call[s].op = "complete"
         /\ call' = [call EXCEPT ![s].at = "object", ![s].md5 = upload[k].md5,
                                 ![s].direct = upload[k].multipart]
  BY <1>1 DEF FindQueued
<1> QED BY <1>1, <1>2, <1>3, <1>4, <1>5, <1>6 DEF ServerTyped

LEMMA PutBytesTyped ==
  ASSUME ServerTyped, NEW s \in Slots, PutBytes(s)
  PROVE  ServerTyped' /\ Turn(s)
<1>1. /\ RowsTyped' /\ CallsTyped /\ ItemsTurn /\ StoresTyped
      /\ call[s].op = "bytes" /\ call[s].at = "put" /\ call[s].op # "none"
      /\ call[s] \in Requests /\ Asked(call[s]) /\ call[s].key \in UploadKeys
  BY RowsStay DEF ServerTyped, CallsTyped, Asked, PutBytes, At
<1>2. call[s].bytes \in Bytes
  BY <1>1 DEF Requests
<1>3. StoresTyped'
  BY <1>1, <1>2 DEF StoresTyped, PutBytes
<1>4. Asked([call[s] EXCEPT !.at = "mark"]) /\ "mark" \in Ats
  BY <1>1 DEF Asked, Requests, Ats
<1>5. Goes(s, "mark")
  BY DEF PutBytes
<1>6. CallsTyped' /\ Turn(s)
  BY <1>1, <1>4, <1>5, GoesTurn
<1> QED BY <1>1, <1>3, <1>6 DEF ServerTyped

LEMMA InspectObjectTyped ==
  ASSUME ServerTyped, NEW s \in Slots, InspectObject(s)
  PROVE  ServerTyped' /\ Turn(s)
<1> DEFINE c == call[s]
           object == IF c.direct THEN parts[c.key] ELSE bucket[UploadName(c.key)]
<1>1. /\ RowsTyped' /\ CallsTyped /\ ItemsTurn /\ StoresTyped
      /\ c.op = "complete" /\ c.at = "object" /\ c.op # "none"
      /\ c \in Requests /\ Asked(c) /\ c.key \in UploadKeys
  BY RowsStay DEF ServerTyped, CallsTyped, Asked, InspectObject, At
<1>2. object \in Bytes
  BY <1>1, NamesTyped DEF StoresTyped
<1>3. /\ bucket' = bucket \/ bucket' = [bucket EXCEPT ![UploadName(c.key)] = object]
      /\ parts' = parts \/ parts' = [parts EXCEPT ![c.key] = None]
  BY DEF InspectObject
<1>4. \/ Answers(s, "failed") \/ Answers(s, "ok") \/ Goes(s, "discard") \/ Goes(s, "mark")
  BY DEF InspectObject
<1> HIDE DEF object
<1>5. StoresTyped'
  BY <1>1, <1>2, <1>3 DEF StoresTyped, Bytes
<1>6. ASSUME NEW at \in {"discard", "mark"}, Goes(s, at)
      PROVE  CallsTyped' /\ Turn(s)
  <2>1. Asked([call[s] EXCEPT !.at = at]) /\ at \in Ats
    BY <1>1, <1>6 DEF Asked, Requests, Ats
  <2> QED BY <1>1, <1>6, <2>1, GoesTurn
<1>7. ASSUME NEW answer \in {"failed", "ok"}, Answers(s, answer)
      PROVE  CallsTyped' /\ Turn(s)
  <2>1. answer \in Replies /\ call[s].op \notin {"authorize", "register"}
    BY <1>1, <1>7 DEF Replies
  <2> QED BY <1>1, <1>7, <2>1, AnswersTurn
<1> QED BY <1>1, <1>4, <1>5, <1>6, <1>7 DEF ServerTyped

LEMMA DiscardObjectTyped ==
  ASSUME ServerTyped, NEW s \in Slots, DiscardObject(s)
  PROVE  ServerTyped' /\ Turn(s)
<1>1. /\ RowsTyped' /\ CallsTyped /\ ItemsTurn /\ StoresTyped
      /\ call[s].op = "complete" /\ call[s].op # "none"
  BY RowsStay DEF ServerTyped, CallsTyped, Asked, DiscardObject, At
<1>2. StoresTyped'
  BY <1>1 DEF StoresTyped, DiscardObject, Bytes
<1>3. Answers(s, "rejected") /\ "rejected" \in Replies
  BY DEF DiscardObject, Replies
<1>4. CallsTyped' /\ Turn(s)
  BY <1>1, <1>3, AnswersTurn
<1> QED BY <1>1, <1>2, <1>4 DEF ServerTyped

LEMMA MarkUploadedTyped ==
  ASSUME ServerTyped, NEW s \in Slots, MarkUploaded(s)
  PROVE  ServerTyped' /\ Turn(s)
<1> DEFINE k == call[s].key
<1>1. /\ StoresTyped' /\ CallsTyped /\ RowsTyped
      /\ call[s].op \in {"bytes", "complete"} /\ k \in UploadKeys
  BY StoresStay DEF ServerTyped, CallsTyped, Asked, MarkUploaded, At
<1>2. RowsTyped' /\ ItemsTurn
  <2>1. CASE upload' = upload
    BY <1>1, <2>1, RowsStay DEF MarkUploaded, rows
  <2>2. CASE upload[k].state # "none" /\ upload' = [upload EXCEPT ![k].state = "uploaded"]
    BY <1>1, <2>2, MarkedTyped DEF MarkUploaded
  <2> QED BY <2>1, <2>2 DEF MarkUploaded
<1>3. Answers(s, "ok") /\ "ok" \in Replies /\ call[s].op \notin {"authorize", "register"}
      /\ call[s].op # "none"
  BY <1>1 DEF MarkUploaded, Replies
<1>4. CallsTyped' /\ Turn(s)
  BY <1>1, <1>2, <1>3, AnswersTurn
<1> QED BY <1>1, <1>2, <1>4 DEF ServerTyped

LEMMA ForgetUploadTyped ==
  ASSUME ServerTyped, NEW s \in Slots, ForgetUpload(s)
  PROVE  ServerTyped' /\ Turn(s)
<1>1. /\ StoresTyped' /\ CallsTyped /\ RowsTyped /\ call[s].op = "abort"
  BY StoresStay DEF ServerTyped, CallsTyped, Asked, ForgetUpload, At
<1>2. RowsTyped' /\ ItemsTurn
  BY <1>1, ForgottenTyped DEF ForgetUpload
<1>3. Answers(s, "ok") /\ "ok" \in Replies /\ call[s].op \notin {"authorize", "register"}
      /\ call[s].op # "none"
  BY <1>1 DEF ForgetUpload, Replies
<1>4. CallsTyped' /\ Turn(s)
  BY <1>1, <1>2, <1>3, AnswersTurn
<1> QED BY <1>1, <1>2, <1>4 DEF ServerTyped

LEMMA ReadDeletedTyped ==
  ASSUME ServerTyped, NEW s \in Slots, ReadDeleted(s)
  PROVE  ServerTyped' /\ Turn(s)
<1> DEFINE i == call[s].item
           n == [call[s] EXCEPT !.at = "uploads", !.found = {file[i].at} \ {None}]
<1>1. /\ RowsTyped' /\ StoresTyped' /\ CallsTyped /\ ItemsTurn /\ RowsTyped
      /\ call[s].op = "delete" /\ call[s].at = "rows" /\ call[s].op # "none"
      /\ call[s] \in Requests /\ Asked(call[s]) /\ i \in Items
  BY RowsStay, StoresStay DEF ServerTyped, CallsTyped, Asked, ReadDeleted, At
<1>2. ASSUME Answers(s, "ok") PROVE CallsTyped' /\ Turn(s)
  BY <1>1, <1>2, AnswersTurn DEF Replies
<1>3. ASSUME call' = [call EXCEPT ![s].at = "uploads", ![s].found = {file[i].at} \ {None}]
      PROVE  CallsTyped' /\ Turn(s)
  <2>1. {file[i].at} \ {None} \in SUBSET Names
    BY <1>1 DEF RowsTyped
  <2>2. /\ n \in Requests /\ n.op = call[s].op /\ n.item = call[s].item
        /\ n.heard = call[s].heard /\ n.answer = call[s].answer /\ Asked(n)
    BY <1>1, <2>1 DEF Requests, Ats, Asked
  <2>3. call' = [call EXCEPT ![s] = n]
    BY <1>1, <1>3 DEF CallsTyped
  <2> HIDE DEF n
  <2> QED BY <1>1, <2>2, <2>3, LearnsTurn
<1> QED BY <1>1, <1>2, <1>3 DEF ReadDeleted, ServerTyped

LEMMA ReadUploadsTyped ==
  ASSUME ServerTyped, NEW s \in Slots, ReadUploads(s)
  PROVE  ServerTyped' /\ Turn(s)
<1> DEFINE ks == UploadsOf(call[s].item)
           sent == {k \in ks : upload[k].state # "queued"}
           names == call[s].found \cup {UploadName(k) : k \in sent}
           n == [call[s] EXCEPT !.at = "erase", !.found = names]
<1>1. /\ RowsTyped' /\ StoresTyped /\ CallsTyped /\ ItemsTurn /\ RowsTyped
      /\ call[s].op = "delete" /\ call[s].at = "uploads" /\ call[s].op # "none"
      /\ call[s] \in Requests /\ Asked(call[s])
  BY RowsStay DEF ServerTyped, CallsTyped, Asked, ReadUploads, At
<1>2. names \in SUBSET Names
  BY <1>1, NamesTyped DEF UploadsOf, Requests
<1>3. call' = [call EXCEPT ![s] = n]
  BY <1>1 DEF CallsTyped, ReadUploads
<1>4. StoresTyped'
  BY <1>1 DEF StoresTyped, ReadUploads, Bytes
<1> HIDE DEF names
<1>5. /\ n \in Requests /\ n.op = call[s].op /\ n.item = call[s].item
      /\ n.heard = call[s].heard /\ n.answer = call[s].answer /\ Asked(n)
  BY <1>1, <1>2 DEF Requests, Ats, Asked
<1> HIDE DEF n
<1>6. CallsTyped' /\ Turn(s)
  BY <1>1, <1>3, <1>5, LearnsTurn
<1> QED BY <1>1, <1>4, <1>6 DEF ServerTyped

LEMMA EraseItemTyped ==
  ASSUME ServerTyped, NEW s \in Slots, EraseItem(s)
  PROVE  ServerTyped' /\ Turn(s)
<1> DEFINE i == call[s].item
<1>1. /\ RowsTyped /\ StoresTyped' /\ CallsTyped
      /\ call[s].op = "delete" /\ call[s].at = "erase" /\ call[s].op # "none"
      /\ call[s] \in Requests /\ Asked(call[s]) /\ i \in Items
  BY StoresStay DEF ServerTyped, CallsTyped, Asked, EraseItem, At
<1>2. /\ item' = [item EXCEPT ![i].live = FALSE, ![i].pulled = {}]
      /\ file' = [file EXCEPT ![i] = NoFile]
      /\ upload' = [k \in UploadKeys |-> IF k \in UploadsOf(i) THEN NoUpload ELSE upload[k]]
      /\ signing' = signing /\ Goes(s, "objects")
  BY DEF EraseItem
<1>3. /\ item' \in [Items -> [live : BOOLEAN, md5 : Bytes, pulled : SUBSET Devices]]
      /\ ItemsTurn
  BY <1>1, <1>2 DEF RowsTyped, ItemsTurn
<1>4. /\ file' \in [Items -> [md5 : Bytes, at : Names \cup {None}]]
      /\ \A j \in Items : Placed(file'[j])
  BY <1>1, <1>2 DEF RowsTyped, Placed, NoFile, Bytes
<1>5. /\ upload' \in [UploadKeys -> Uploads]
      /\ \A h \in UploadKeys : upload'[h].state # "none" => upload'[h].md5 \in Contents
  BY <1>1, <1>2, NoUploadTyped DEF RowsTyped
<1>6. RowsTyped'
  BY <1>1, <1>2, <1>3, <1>4, <1>5 DEF RowsTyped
<1>7. Asked([call[s] EXCEPT !.at = "objects"]) /\ "objects" \in Ats
  BY <1>1 DEF Asked, Requests, Ats
<1>8. CallsTyped' /\ Turn(s)
  BY <1>1, <1>2, <1>3, <1>7, GoesTurn
<1> QED BY <1>1, <1>6, <1>8 DEF ServerTyped

LEMMA CheckReferenceTyped ==
  ASSUME ServerTyped, NEW s \in Slots, CheckReference(s)
  PROVE  ServerTyped' /\ Turn(s)
<1>1. /\ RowsTyped' /\ StoresTyped' /\ CallsTyped /\ ItemsTurn
      /\ call[s].op = "delete" /\ call[s].at = "objects" /\ call[s].op # "none"
      /\ call[s] \in Requests /\ Asked(call[s])
  BY RowsStay, StoresStay DEF ServerTyped, CallsTyped, Asked, CheckReference, At
<1>2. ASSUME Answers(s, "ok") PROVE CallsTyped' /\ Turn(s)
  BY <1>1, <1>2, AnswersTurn DEF Replies
<1>3. ASSUME NEW name \in call[s].found, call' = [call EXCEPT ![s].found = @ \ {name}]
      PROVE  CallsTyped' /\ Turn(s)
  <2> DEFINE n == [call[s] EXCEPT !.found = @ \ {name}]
  <2>1. /\ n \in Requests /\ n.op = call[s].op /\ n.item = call[s].item
        /\ n.heard = call[s].heard /\ n.answer = call[s].answer /\ Asked(n)
    BY <1>1 DEF Requests, Asked
  <2>2. call' = [call EXCEPT ![s] = n]
    BY <1>1, <1>3 DEF CallsTyped
  <2> HIDE DEF n
  <2> QED BY <1>1, <2>1, <2>2, LearnsTurn
<1>4. ASSUME NEW name \in call[s].found,
             call' = [call EXCEPT ![s].at = "remove", ![s].found = @ \ {name}, ![s].key = name]
      PROVE  CallsTyped' /\ Turn(s)
  <2> DEFINE n == [call[s] EXCEPT !.at = "remove", !.found = @ \ {name}, !.key = name]
  <2>1. name \in Names
    BY <1>1, <1>4 DEF Requests
  <2>2. /\ n \in Requests /\ n.op = call[s].op /\ n.item = call[s].item
        /\ n.heard = call[s].heard /\ n.answer = call[s].answer /\ n.at = "remove"
        /\ n.key = name
    BY <1>1, <2>1 DEF Requests, Ats
  <2>3. call' = [call EXCEPT ![s] = n]
    BY <1>1, <1>4 DEF CallsTyped
  <2> HIDE DEF n
  <2>4. Asked(n)
    BY <1>1, <2>1, <2>2 DEF Asked
  <2> QED BY <1>1, <2>2, <2>3, <2>4, LearnsTurn
<1> QED BY <1>1, <1>2, <1>3, <1>4 DEF CheckReference, ServerTyped

LEMMA RemoveObjectTyped ==
  ASSUME ServerTyped, NEW s \in Slots, RemoveObject(s)
  PROVE  ServerTyped' /\ Turn(s)
<1>1. /\ RowsTyped' /\ CallsTyped /\ ItemsTurn /\ StoresTyped
      /\ call[s].op = "delete" /\ call[s].at = "remove" /\ call[s].op # "none"
      /\ call[s] \in Requests /\ Asked(call[s])
  BY RowsStay DEF ServerTyped, CallsTyped, Asked, RemoveObject, At
<1>2. StoresTyped'
  BY <1>1 DEF StoresTyped, RemoveObject, Bytes
<1>3. Asked([call[s] EXCEPT !.at = "objects"]) /\ "objects" \in Ats
  BY <1>1 DEF Asked, Requests, Ats
<1>4. Goes(s, "objects")
  BY DEF RemoveObject
<1>5. CallsTyped' /\ Turn(s)
  BY <1>1, <1>3, <1>4, GoesTurn
<1> QED BY <1>1, <1>2, <1>5 DEF ServerTyped

LEMMA RedirectDownloadTyped ==
  ASSUME ServerTyped, NEW s \in Slots, RedirectDownload(s)
  PROVE  ServerTyped' /\ Turn(s)
<1> DEFINE row == file[call[s].item]
<1>1. /\ RowsTyped' /\ StoresTyped' /\ CallsTyped /\ ItemsTurn /\ RowsTyped
      /\ call[s].op = "download" /\ call[s].at = "row" /\ call[s].op # "none"
      /\ call[s] \in Requests /\ Asked(call[s]) /\ call[s].item \in Items
  BY RowsStay, StoresStay DEF ServerTyped, CallsTyped, Asked, RedirectDownload, At, AtOf
<1>2. ASSUME Answers(s, "missing") PROVE CallsTyped' /\ Turn(s)
  BY <1>1, <1>2, AnswersTurn DEF Replies
<1>3. ASSUME row # NoFile, call' = [call EXCEPT ![s].at = "raw", ![s].md5 = row.md5]
      PROVE  CallsTyped' /\ Turn(s)
  <2> DEFINE n == [call[s] EXCEPT !.at = "raw", !.md5 = row.md5]
  <2>1. row.md5 \in Contents
    BY <1>1, <1>3 DEF RowsTyped, Placed
  <2>2. /\ n \in Requests /\ n.op = call[s].op /\ n.item = call[s].item
        /\ n.heard = call[s].heard /\ n.answer = call[s].answer /\ Asked(n)
    BY <1>1, <2>1 DEF Requests, Ats, Asked, Bytes
  <2>3. call' = [call EXCEPT ![s] = n]
    BY <1>1, <1>3 DEF CallsTyped
  <2> HIDE DEF n
  <2> QED BY <1>1, <2>2, <2>3, LearnsTurn
<1> QED BY <1>1, <1>2, <1>3 DEF RedirectDownload, ServerTyped

LEMMA FindRawTyped ==
  ASSUME ServerTyped, NEW s \in Slots, FindRaw(s)
  PROVE  ServerTyped' /\ Turn(s)
<1> DEFINE row == file[call[s].item]
<1>1. /\ RowsTyped' /\ StoresTyped' /\ CallsTyped /\ ItemsTurn /\ RowsTyped
      /\ call[s].op = "download" /\ call[s].at = "raw" /\ call[s].op # "none"
      /\ call[s] \in Requests /\ Asked(call[s]) /\ call[s].item \in Items
  BY RowsStay, StoresStay DEF ServerTyped, CallsTyped, Asked, FindRaw, At
<1>2. ASSUME Answers(s, "missing") PROVE CallsTyped' /\ Turn(s)
  BY <1>1, <1>2, AnswersTurn DEF Replies
<1>3. ASSUME row.md5 = call[s].md5, call' = [call EXCEPT ![s].at = "get", ![s].found = {row.at}]
      PROVE  CallsTyped' /\ Turn(s)
  <2> DEFINE n == [call[s] EXCEPT !.at = "get", !.found = {row.at}]
  <2>1. call[s].md5 \in Contents
    BY <1>1 DEF Asked
  <2>2. row.at \in Names
    BY <1>1, <1>3, <2>1, NamesTyped DEF RowsTyped, Placed, NoFile
  <2>3. /\ n \in Requests /\ n.op = call[s].op /\ n.item = call[s].item
        /\ n.heard = call[s].heard /\ n.answer = call[s].answer /\ Asked(n)
    BY <1>1, <2>2 DEF Requests, Ats, Asked
  <2>4. call' = [call EXCEPT ![s] = n]
    BY <1>1, <1>3 DEF CallsTyped
  <2> HIDE DEF n
  <2> QED BY <1>1, <2>3, <2>4, LearnsTurn
<1> QED BY <1>1, <1>2, <1>3 DEF FindRaw, ServerTyped

LEMMA GetRawTyped ==
  ASSUME ServerTyped, NEW s \in Slots, GetRaw(s)
  PROVE  ServerTyped' /\ Turn(s)
<1>1. /\ RowsTyped' /\ StoresTyped' /\ CallsTyped /\ ItemsTurn /\ StoresTyped
      /\ call[s].op = "download" /\ call[s].at = "get" /\ call[s].op # "none"
      /\ call[s] \in Requests /\ Asked(call[s])
  BY RowsStay, StoresStay DEF ServerTyped, CallsTyped, Asked, GetRaw, At
<1>2. ASSUME Answers(s, "missing") PROVE CallsTyped' /\ Turn(s)
  BY <1>1, <1>2, AnswersTurn DEF Replies
<1>3. ASSUME NEW name \in call[s].found,
             call' = [call EXCEPT ![s] = Answered([@ EXCEPT !.bytes = bucket[name]], "ok")]
      PROVE  CallsTyped' /\ Turn(s)
  <2> DEFINE c == [call[s] EXCEPT !.bytes = bucket[name]]
             n == Answered(c, "ok")
  <2>1. bucket[name] \in Bytes
    BY <1>1, <1>3 DEF StoresTyped, Requests
  <2>2. /\ c \in Requests /\ c.op = "download" /\ c.item = call[s].item
        /\ c.heard = call[s].heard /\ c.answer = call[s].answer /\ Asked(c)
    BY <1>1, <2>1 DEF Requests, Asked
  <2>3. call' = [call EXCEPT ![s] = n]
    BY <1>3
  <2> HIDE DEF c
  <2>4. /\ n \in Requests /\ Asked(n)
        /\ c.heard => n.heard /\ n.op = c.op /\ n.item = c.item
    BY <2>2, AnsweredTyped DEF Replies
  <2>5. c.heard => ~Wrote(n)
    BY <2>2, <2>4 DEF Wrote
  <2> HIDE DEF n
  <2> QED BY <1>1, <2>2, <2>3, <2>4, <2>5, TurnTo
<1>4. \E name \in call[s].found :
         \/ Answers(s, "missing")
         \/ call' = [call EXCEPT ![s] = Answered([@ EXCEPT !.bytes = bucket[name]], "ok")]
  BY DEF GetRaw, Answers
<1> QED BY <1>1, <1>2, <1>3, <1>4 DEF ServerTyped

LEMMA ServerStepTyped ==
  ASSUME ServerTyped, NEW s \in Slots, ServerStep(s)
  PROVE  ServerTyped' /\ Turn(s) /\ UNCHANGED deviceVars
<1>1. CASE Query(s)
  BY <1>1, FindItemTyped, CompareFileTyped, FindKnownTyped, ReadSourceTyped, CopySourceTyped,
     AssociateTyped, WithdrawUploadTyped, PrepareUploadTyped, FindUploadTyped,
     RegisterFileTyped, FindQueuedTyped, PutBytesTyped, InspectObjectTyped,
     DiscardObjectTyped, MarkUploadedTyped, ForgetUploadTyped, ReadDeletedTyped,
     ReadUploadsTyped, EraseItemTyped, CheckReferenceTyped, RemoveObjectTyped,
     RedirectDownloadTyped, FindRawTyped, GetRawTyped
  DEF Query, ServerStep
<1>2. CASE DrawKey(s)
  <2>1. (CHOOSE k \in NewKeys : TRUE) \in UploadKeys
    BY <1>2 DEF DrawKey, NewKeys
  <2> QED BY <1>2, <2>1, InsertUploadTyped DEF DrawKey, ServerStep
<1> QED BY <1>1, <1>2 DEF ServerStep

(***************************************************************************)
(* The devices' steps                                                      *)
(***************************************************************************)

(* What a step of a device leaves to the others, and what it keeps itself. *)
Steady(d) ==
  /\ \A e \in Devices : e # d =>
        /\ job'[e] = job[e] /\ get'[e] = get[e]
        /\ record'[e] = record[e] /\ disk'[e] = disk[e]
  /\ OnOffer' \subseteq OnOffer
  /\ \A i \in Items, p \in Paths : disk[d][i][p] \in Contents => disk'[d][i][p] \in Contents
  /\ \A i \in Items :
        record'[d][i].known = "new" => record[d][i].known = "new" \/ i \in OnOffer
  /\ \A s \in Slots :
        call'[s] # call[s] => call[s].op = "none" \/ s \in {job[d].slot, get[d].slot}

(* A device waits for what it waited for, for nothing, or in a free slot.  *)
Takes(old, new) == new.slot \in {None, old.slot} \/ call[new.slot].op = "none"

LEMMA HasCallOps ==
  ASSUME JobsTyped, NEW d \in Devices
  PROVE  /\ job[d].slot # None => /\ job[d].slot \in Slots /\ call[job[d].slot].heard
                                  /\ call[job[d].slot].op \in {"authorize", "bytes", "complete",
                                                               "register", "abort"}
                                  /\ call[job[d].slot].item = job[d].item
         /\ get[d].slot # None => /\ get[d].slot \in Slots /\ call[get[d].slot].heard
                                  /\ call[get[d].slot].op = "download"
                                  /\ call[get[d].slot].item = get[d].item
<1>1. JobTyped(d) /\ GetTyped(d) /\ job[d] \in Jobs /\ get[d] \in Gets
  BY DEF JobsTyped
<1>2. job[d].at \in Places
  BY <1>1 DEF Jobs
<1> QED BY <1>1, <1>2 DEF JobTyped, GetTyped, HasCall, Places, NoGet

LEMMA InHandKept ==
  ASSUME NEW d \in Devices, Steady(d), NEW e \in Devices, NEW i, NEW path, InHand(e, i, path)
  PROVE  InHand(e, i, path)'
  BY DEF InHand, Steady

LEMMA JobStays ==
  ASSUME NEW d \in Devices, Steady(d), NEW e \in Devices, JobTyped(e), job'[e] = job[e],
         job[e].slot # None => call'[job[e].slot] = call[job[e].slot]
  PROVE  JobTyped(e)'
<1> DEFINE j == job[e]
<1>1. \A r \in j.todo : InHand(e, r.item, r.path)'
  BY InHandKept DEF JobTyped
<1>2. j.at \notin {"idle", "next"} => InHand(e, j.item, j.path)'
  BY InHandKept DEF JobTyped
<1>3. \A ops : HasCall(j.slot, ops, j.item) => HasCall(j.slot, ops, j.item)'
  BY FilesAssumption DEF HasCall
<1> QED BY <1>1, <1>2, <1>3 DEF JobTyped

LEMMA GetStays ==
  ASSUME NEW d \in Devices, Steady(d), NEW e \in Devices, GetTyped(e), get'[e] = get[e],
         get[e].slot # None => call'[get[e].slot] = call[get[e].slot]
  PROVE  GetTyped(e)'
<1>1. \A ops : HasCall(get[e].slot, ops, get[e].item) => HasCall(get[e].slot, ops, get[e].item)'
  BY FilesAssumption DEF HasCall
<1>2. \A i \in Items : i \notin OnOffer /\ record[e][i].known # "new"
                         => i \notin OnOffer' /\ record'[e][i].known # "new"
  BY DEF Steady
<1> QED BY <1>1, <1>2 DEF GetTyped

LEMMA OthersKept ==
  ASSUME JobsTyped, NEW d \in Devices, Steady(d),
         job' \in [Devices -> Jobs], get' \in [Devices -> Gets],
         Takes(job[d], job'[d]), Takes(get[d], get'[d]), JobTyped(d)', GetTyped(d)'
  PROVE  JobsTyped'
<1>1. ASSUME NEW e \in Devices, e # d
      PROVE  /\ job[e].slot # None => /\ call'[job[e].slot] = call[job[e].slot]
                                      /\ job[e].slot \notin {job[d].slot, get[d].slot}
                                      /\ call[job[e].slot].op # "none"
             /\ get[e].slot # None => /\ call'[get[e].slot] = call[get[e].slot]
                                      /\ get[e].slot \notin {job[d].slot, get[d].slot}
                                      /\ call[get[e].slot].op # "none"
  BY <1>1, HasCallOps DEF JobsTyped, SlotsApart, Steady
<1>2. ASSUME NEW e \in Devices, e # d PROVE JobTyped(e)' /\ GetTyped(e)'
  <2>1. JobTyped(e) /\ GetTyped(e) /\ job'[e] = job[e] /\ get'[e] = get[e]
    BY <1>2 DEF JobsTyped, Steady
  <2> QED BY <1>1, <1>2, <2>1, JobStays, GetStays
<1>3. SlotsApart'
  <2> SUFFICES ASSUME NEW e \in Devices, NEW f \in Devices, e # f
               PROVE  /\ job'[e].slot # None => job'[e].slot # job'[f].slot
                      /\ get'[e].slot # None => get'[e].slot # get'[f].slot
    BY DEF SlotsApart
  <2>1. CASE e # d /\ f # d
    BY <2>1 DEF JobsTyped, SlotsApart, Steady
  <2>2. CASE e = d
    BY <1>1, <2>2 DEF Takes, Steady
  <2>3. CASE f = d
    BY <1>1, <2>3 DEF Takes, Steady
  <2> QED BY <2>1, <2>2, <2>3
<1> QED BY <1>2, <1>3 DEF JobsTyped

(* The records, by what is written to them. *)

LEMMA NoRecordOK == NoRecord \in Records /\ \A files : RecordOK(files, NoRecord)
  BY DEF NoRecord, Records, RecordOK, Paths, Bytes

LEMMA CompletedOK ==
  ASSUME NEW r \in Records, NEW files, NEW path \in Paths, NEW md5 \in Contents,
         RecordOK(files, r), files[path] \in Contents, r.known # "new"
  PROVE  /\ Completed(r, path, md5) \in Records /\ RecordOK(files, Completed(r, path, md5))
         /\ Completed(r, path, md5).known = r.known
         /\ r.known # "no" => Completed(r, path, md5).remote = md5
<1>1. CASE r.known = "no"
  BY <1>1 DEF Completed
<1>2. CASE r.known # "no"
  <2> DEFINE n == [r EXCEPT !.path = path, !.remote = md5, !.verified = md5,
                            !.cache = "downloaded", !.waits = FALSE]
  <2>1. Completed(r, path, md5) = n
    BY <1>2 DEF Completed
  <2>2. /\ n \in Records /\ n.known = r.known /\ n.path = path /\ n.remote = md5
        /\ n.verified = md5
    BY DEF Records, Bytes
  <2> HIDE DEF n
  <2>3. RecordOK(files, n)
    BY <1>2, <2>2, DevicesAssumption DEF RecordOK
  <2> QED BY <2>1, <2>2, <2>3
<1> QED BY <1>1, <1>2

LEMMA FailedOK ==
  ASSUME NEW r \in Records, NEW files, NEW upload_ \in BOOLEAN, RecordOK(files, r)
  PROVE  /\ Failed(r, upload_) \in Records /\ RecordOK(files, Failed(r, upload_))
         /\ Failed(r, upload_).known = r.known /\ Failed(r, upload_).remote = r.remote
<1>1. CASE r.known = "no"
  BY <1>1 DEF Failed
<1>2. CASE r.known # "no"
  <2> DEFINE cache == IF r.path = None THEN "failed" ELSE r.cache
             waits == r.waits \/ upload_
             n == [r EXCEPT !.cache = cache, !.waits = waits]
  <2>1. waits \in BOOLEAN
    BY DEF Records
  <2>2. cache \in {"notDownloaded", "downloading", "downloaded", "stale", "failed"}
    BY DEF Records
  <2>3. cache = "downloaded" => r.path # None /\ r.verified = r.remote
    BY DEF RecordOK
  <2>4. Failed(r, upload_) = n
    BY <1>2 DEF Failed
  <2> HIDE DEF cache, waits
  <2>5. /\ n \in Records /\ n.known = r.known /\ n.remote = r.remote /\ n.path = r.path
        /\ n.verified = r.verified /\ n.cache = cache
    BY <2>1, <2>2 DEF Records
  <2> HIDE DEF n
  <2>6. RecordOK(files, n)
    BY <1>2, <2>3, <2>5 DEF RecordOK
  <2> QED BY <2>4, <2>5, <2>6
<1> QED BY <1>1, <1>2

LEMMA PulledOK ==
  ASSUME NEW r \in Records, NEW files, NEW md5 \in Bytes, RecordOK(files, r)
  PROVE  /\ Pulled(r, md5) \in Records /\ RecordOK(files, Pulled(r, md5))
         /\ Pulled(r, md5).known = "synced" /\ Pulled(r, md5).remote = md5
  BY DEF Pulled, Records, RecordOK

(* The rows of the devices when one changes. *)
LEMMA SetsTyped ==
  ASSUME DevicesTyped, NEW d \in Devices, NEW i \in Items, NEW r \in Records,
         Sets(d, i, r), RecordOK(disk[d][i], r), UNCHANGED <<disk, offered>>,
         i \in OnOffer => r.known = "no",
         \A j \in OnOffer : item'[j].live => item[j].live
  PROVE  /\ DevicesTyped'
         /\ \A e \in Devices : e # d => record'[e] = record[e]
         /\ \A j \in Items : j # i => record'[d][j] = record[d][j]
         /\ record'[d][i] = r
         /\ UNCHANGED OnOffer
<1>1. /\ record' \in [Devices -> [Items -> Records]]
      /\ \A e \in Devices : e # d => record'[e] = record[e]
      /\ \A j \in Items : j # i => record'[d][j] = record[d][j]
      /\ record'[d][i] = r
  BY DEF DevicesTyped, Sets
<1>2. UNCHANGED OnOffer
  BY DEF OnOffer
<1>3. ASSUME NEW e \in Devices, NEW j \in Items PROVE Noted(e, j)'
  <2>1. RecordOK(disk[e][j], record[e][j]) /\ disk' = disk
    BY DEF DevicesTyped, Noted
  <2>2. record'[e][j] = record[e][j] \/ (e = d /\ j = i /\ record'[e][j] = r)
    BY <1>1
  <2>3. RecordOK(disk'[e][j], record'[e][j])
    BY <2>1, <2>2
  <2> QED BY <2>3 DEF Noted, RecordOK
<1>4. \A j \in OnOffer' : Unknown(j)'
  <2>1. OnOffer \subseteq Items
    BY DevicesAssumption DEF DevicesTyped, OnOffer
  <2> SUFFICES ASSUME NEW j \in OnOffer PROVE Unknown(j)'
    BY <1>2
  <2>2. j \in Items /\ ~item[j].live /\ \A e \in Devices : record[e][j].known = "no"
    BY <2>1 DEF DevicesTyped, Unknown
  <2>3. ASSUME NEW e \in Devices PROVE record'[e][j].known = "no"
    BY <1>1, <2>2
  <2> QED BY <2>2, <2>3 DEF Unknown
<1> QED BY <1>1, <1>2, <1>3, <1>4 DEF DevicesTyped

LEMMA RecordTyped ==
  ASSUME DevicesTyped, NEW d \in Devices, NEW i \in Items
  PROVE  /\ record[d][i] \in Records /\ RecordOK(disk[d][i], record[d][i])
         /\ i \in OnOffer => record[d][i] = NoRecord
  BY DEF DevicesTyped, Noted, RecordOK, Unknown

(* A step of the server leaves the devices as they are. *)
LEMMA TurnKeepsDevices ==
  ASSUME Typed, NEW s \in Slots, Turn(s), UNCHANGED deviceVars
  PROVE  DevicesTyped' /\ JobsTyped'
<1>1. UNCHANGED <<disk, record, job, get, offered, left>> /\ UNCHANGED OnOffer
  BY DEF deviceVars, OnOffer
<1>2. DevicesTyped'
  <2>1. OnOffer \subseteq Items
    BY DevicesAssumption DEF Typed, DevicesTyped, OnOffer
  <2> QED BY <1>1, <2>1 DEF Typed, DevicesTyped, Noted, RecordOK, Unknown, Turn
<1>3. \A t, ops, i : HasCall(t, ops, i) => HasCall(t, ops, i)'
  BY DEF HasCall, Turn
<1>4. \A d, i, path : InHand(d, i, path) => InHand(d, i, path)'
  BY <1>1 DEF InHand
<1>5. \A d \in Devices : JobTyped(d)' /\ GetTyped(d)'
  BY <1>1, <1>3, <1>4 DEF Typed, JobsTyped, JobTyped, GetTyped
<1> QED BY <1>1, <1>2, <1>5 DEF Typed, JobsTyped, SlotsApart

LEMMA JobsStay ==
  ASSUME JobsTyped, NEW d \in Devices, Steady(d), UNCHANGED <<job, get>>,
         job[d].slot # None => call'[job[d].slot] = call[job[d].slot],
         get[d].slot # None => call'[get[d].slot] = call[get[d].slot]
  PROVE  JobsTyped'
<1>1. /\ job' \in [Devices -> Jobs] /\ get' \in [Devices -> Gets]
      /\ JobTyped(d) /\ GetTyped(d) /\ job'[d] = job[d] /\ get'[d] = get[d]
  BY DEF JobsTyped
<1>2. JobTyped(d)' /\ GetTyped(d)'
  BY <1>1, JobStays, GetStays
<1>3. Takes(job[d], job'[d]) /\ Takes(get[d], get'[d])
  BY <1>1 DEF Takes
<1> QED BY <1>1, <1>2, <1>3, OthersKept

LEMMA FreeSlotIsFree ==
  ASSUME FreeSlots # {}
  PROVE  FreeSlot \in Slots /\ call[FreeSlot].op = "none"
  BY DEF FreeSlot, FreeSlots

LEMMA SendsTyped ==
  ASSUME CallsTyped, NEW s \in Slots, NEW n \in Requests, Asked(n), Sends(s, n)
  PROVE  CallsTyped' /\ call'[s] = n /\ \A t \in Slots : t # s => call'[t] = call[t]
  BY DEF CallsTyped, Sends

LEMMA FreeSlotTaken ==
  ASSUME JobsTyped, NEW d \in Devices, NEW s \in Slots, call[s].op = "none",
         \A t \in Slots : t # s => call'[t] = call[t]
  PROVE  /\ job[d].slot # None => call'[job[d].slot] = call[job[d].slot]
         /\ get[d].slot # None => call'[get[d].slot] = call[get[d].slot]
  BY HasCallOps

LEMMA ImportTyped ==
  ASSUME Typed, NEW d \in Devices, NEW i \in Items, Import(d, i)
  PROVE  Typed' /\ Steady(d)
<1> DEFINE r == [NoRecord EXCEPT !.known = "new", !.path = "imported", !.cache = "downloaded"]
<1>1. PICK o \in offered :
         /\ o.by = d /\ o.item = i
         /\ disk' = [disk EXCEPT ![d][i]["imported"] = o.bytes]
         /\ offered' = {p \in offered : p.item # i}
  BY DEF Import
<1>2. /\ UNCHANGED serverVars /\ UNCHANGED <<job, get>> /\ Sets(d, i, r)
      /\ ServerTyped /\ DevicesTyped /\ JobsTyped
  BY DEF Import, Typed
<1>3. ServerTyped' /\ UNCHANGED <<item, call>>
  BY <1>2 DEF serverVars, rows, ServerTyped, RowsTyped, Placed, StoresTyped, CallsTyped
<1>4. o.bytes \in Contents
  BY <1>1, <1>2, DevicesAssumption DEF DevicesTyped
<1>5. OnOffer' = OnOffer \ {i} /\ i \in OnOffer /\ offered' \subseteq Offered
  BY <1>1, <1>2 DEF OnOffer, DevicesTyped
<1>6. /\ disk' \in [Devices -> [Items -> [Paths -> Bytes]]]
      /\ \A e \in Devices, j \in Items, p \in Paths :
            disk'[e][j][p] = IF e = d /\ j = i /\ p = "imported" THEN o.bytes ELSE disk[e][j][p]
  BY <1>1, <1>2, <1>4 DEF DevicesTyped, Bytes, Paths
<1>7. /\ r \in Records /\ r.known = "new" /\ r.path = "imported"
      /\ r.remote = None /\ r.verified = None
  BY DEF NoRecord, Records, Bytes, Paths
<1> HIDE DEF r
<1>8. /\ record' \in [Devices -> [Items -> Records]]
      /\ \A e \in Devices : e # d => record'[e] = record[e]
      /\ \A j \in Items : j # i => record'[d][j] = record[d][j]
      /\ record'[d][i] = r
  BY <1>2, <1>7 DEF DevicesTyped, Sets
<1>9. ASSUME NEW e \in Devices, NEW j \in Items PROVE Noted(e, j)'
  <2>1. CASE e = d /\ j = i
    <3>1. disk'[d][i]["imported"] \in Contents /\ "imported" # None
      BY <1>4, <1>6, DevicesAssumption DEF Paths
    <3>2. RecordOK(disk'[d][i], r)
      BY <1>7, <3>1 DEF RecordOK
    <3>3. RecordOK(disk'[e][j], record'[e][j])
      BY <1>8, <2>1, <3>2
    <3> QED BY <3>3 DEF Noted, RecordOK
  <2>2. CASE e # d \/ j # i
    <3>1. RecordOK(disk[e][j], record[e][j]) /\ record'[e][j] = record[e][j]
      BY <1>2, <1>8, <2>2 DEF DevicesTyped, Noted
    <3>2. \A p \in Paths : disk'[e][j][p] = disk[e][j][p]
      BY <1>6, <2>2
    <3>3. record[e][j].path \in Paths \cup {None}
      BY <1>2 DEF DevicesTyped, Records
    <3> QED BY <3>1, <3>2, <3>3 DEF Noted, RecordOK
  <2> QED BY <2>1, <2>2
<1>10. ASSUME NEW j \in OnOffer' PROVE Unknown(j)'
  <2>0. j \in OnOffer /\ j # i
    BY <1>5, <1>10
  <2>1. j \in Items
    BY <1>2, <2>0, DevicesAssumption DEF DevicesTyped, OnOffer
  <2>2. ~item[j].live /\ \A e \in Devices : record[e][j].known = "no"
    BY <1>2, <2>0, <2>1 DEF DevicesTyped, Unknown
  <2>3. ASSUME NEW e \in Devices PROVE record'[e][j].known = "no"
    BY <1>8, <2>0, <2>1, <2>2
  <2>4. ~item'[j].live
    BY <1>3, <2>2
  <2> QED BY <2>3, <2>4 DEF Unknown
<1>11. DevicesTyped'
  BY <1>5, <1>6, <1>8, <1>9, <1>10 DEF DevicesTyped
<1>12. Steady(d)
  <2>1. \A e \in Devices : e # d => disk'[e] = disk[e]
    BY <1>1, <1>2 DEF DevicesTyped
  <2>2. \A j \in Items, p \in Paths : disk[d][j][p] \in Contents => disk'[d][j][p] \in Contents
    BY <1>4, <1>6
  <2>3. \A j \in Items : record'[d][j].known = "new" => record[d][j].known = "new" \/ j \in OnOffer
    BY <1>5, <1>8
  <2> QED BY <1>2, <1>3, <1>5, <1>8, <2>1, <2>2, <2>3 DEF Steady
<1>13. JobsTyped'
  BY <1>2, <1>3, <1>12, JobsStay
<1> QED BY <1>3, <1>11, <1>12, <1>13 DEF Typed

LEMMA EditFileTyped ==
  ASSUME Typed, NEW d \in Devices, NEW i \in Items, EditFile(d, i)
  PROVE  Typed' /\ Steady(d)
<1> DEFINE path == record[d][i].path
<1>1. PICK c \in Contents : disk' = [disk EXCEPT ![d][i][path] = c]
  BY DEF EditFile
<1>2. /\ UNCHANGED serverVars /\ UNCHANGED <<record, job, get, offered>> /\ path # None
      /\ ServerTyped /\ DevicesTyped /\ JobsTyped
  BY DEF EditFile, Typed
<1>3. ServerTyped' /\ UNCHANGED <<item, call>>
  BY <1>2 DEF serverVars, rows, ServerTyped, RowsTyped, Placed, StoresTyped, CallsTyped
<1>4. UNCHANGED OnOffer
  BY <1>2 DEF OnOffer
<1>5. path \in Paths
  BY <1>2 DEF DevicesTyped, Records
<1> HIDE DEF path
<1>6. /\ disk' \in [Devices -> [Items -> [Paths -> Bytes]]]
      /\ \A e \in Devices : e # d => disk'[e] = disk[e]
      /\ \A e \in Devices, j \in Items, p \in Paths :
            disk'[e][j][p] = disk[e][j][p] \/ disk'[e][j][p] \in Contents
  BY <1>1, <1>2, <1>5 DEF DevicesTyped, Bytes
<1>7. ASSUME NEW e \in Devices, NEW j \in Items PROVE Noted(e, j)'
  <2>1. RecordOK(disk[e][j], record[e][j]) /\ record'[e][j] = record[e][j]
    BY <1>2 DEF DevicesTyped, Noted
  <2>2. record[e][j].path \in Paths \cup {None}
    BY <1>2 DEF DevicesTyped, Records
  <2>3. record[e][j].path # None => disk'[e][j][record[e][j].path] \in Contents
    BY <1>6, <2>1, <2>2 DEF RecordOK
  <2> QED BY <2>1, <2>3 DEF Noted, RecordOK
<1>8. DevicesTyped'
  BY <1>2, <1>3, <1>4, <1>6, <1>7 DEF DevicesTyped, Unknown
<1>9. Steady(d)
  BY <1>2, <1>3, <1>4, <1>6 DEF Steady
<1>10. JobsTyped'
  BY <1>2, <1>3, <1>9, JobsStay
<1> QED BY <1>3, <1>8, <1>9, <1>10 DEF Typed

(* A step that changes one record of a device, and no file. *)
LEMMA SetsSteady ==
  ASSUME Typed, NEW d \in Devices, NEW i \in Items, NEW r \in Records,
         Sets(d, i, r), RecordOK(disk[d][i], r), UNCHANGED <<disk, offered>>,
         i \in OnOffer => r.known = "no",
         r.known = "new" => record[d][i].known = "new",
         \A j \in OnOffer : item'[j].live => item[j].live,
         \A e \in Devices : e # d => job'[e] = job[e] /\ get'[e] = get[e],
         \A s \in Slots :
            call'[s] # call[s] => call[s].op = "none" \/ s \in {job[d].slot, get[d].slot}
  PROVE  DevicesTyped' /\ Steady(d)
<1>1. /\ DevicesTyped'
      /\ \A e \in Devices : e # d => record'[e] = record[e]
      /\ \A j \in Items : j # i => record'[d][j] = record[d][j]
      /\ record'[d][i] = r /\ UNCHANGED OnOffer
  BY SetsTyped DEF Typed
<1>2. \A j \in Items : record'[d][j].known = "new" => record[d][j].known = "new"
  BY <1>1
<1> QED BY <1>1, <1>2 DEF Steady

(* A step that changes no record. *)
LEMMA StaysSteady ==
  ASSUME Typed, NEW d \in Devices, UNCHANGED <<record, disk, offered, item>>,
         \A e \in Devices : e # d => job'[e] = job[e] /\ get'[e] = get[e],
         \A s \in Slots :
            call'[s] # call[s] => call[s].op = "none" \/ s \in {job[d].slot, get[d].slot}
  PROVE  DevicesTyped' /\ Steady(d)
<1>1. UNCHANGED OnOffer
  BY DEF OnOffer
<1>2. DevicesTyped'
  BY <1>1 DEF Typed, DevicesTyped, Unknown, Noted, RecordOK
<1> QED BY <1>1, <1>2 DEF Steady

LEMMA UploadMetadataTyped ==
  ASSUME Typed, NEW d \in Devices, NEW i \in Items, UploadMetadata(d, i)
  PROVE  Typed' /\ Steady(d)
<1> DEFINE r == [record[d][i] EXCEPT !.known = "synced"]
<1>1. /\ ServerTyped /\ DevicesTyped /\ JobsTyped /\ Sets(d, i, r) /\ record[d][i].known = "new"
      /\ item' = [item EXCEPT ![i] = [live |-> TRUE, md5 |-> None, pulled |-> {d}]]
      /\ UNCHANGED <<signing, file, upload, bucket, parts, call, disk, job, get, offered>>
  BY DEF UploadMetadata, Typed
<1>2. ServerTyped'
  <2>1. item' \in [Items -> [live : BOOLEAN, md5 : Bytes, pulled : SUBSET Devices]]
    BY <1>1 DEF ServerTyped, RowsTyped, Bytes
  <2> QED BY <1>1, <2>1 DEF ServerTyped, RowsTyped, Placed, StoresTyped, CallsTyped
<1>3. record[d][i] \in Records /\ RecordOK(disk[d][i], record[d][i]) /\ i \notin OnOffer
  BY <1>1, RecordTyped DEF NoRecord
<1>4. r \in Records /\ r.known = "synced" /\ RecordOK(disk[d][i], r)
  BY <1>3 DEF Records, RecordOK
<1> HIDE DEF r
<1>5. \A j \in OnOffer : item'[j].live => item[j].live
  BY <1>1, <1>3, DevicesAssumption DEF ServerTyped, RowsTyped, DevicesTyped, OnOffer
<1>6. DevicesTyped' /\ Steady(d)
  BY <1>1, <1>3, <1>4, <1>5, SetsSteady
<1>7. JobsTyped'
  BY <1>1, <1>6, JobsStay
<1> QED BY <1>2, <1>6, <1>7 DEF Typed

LEMMA PullTyped ==
  ASSUME Typed, NEW d \in Devices, NEW i \in Items, Pull(d, i)
  PROVE  Typed' /\ Steady(d)
<1> DEFINE r == IF item[i].live THEN Pulled(record[d][i], item[i].md5) ELSE NoRecord
<1>1. /\ ServerTyped /\ DevicesTyped /\ JobsTyped /\ Sets(d, i, r)
      /\ item' = [item EXCEPT ![i].pulled = @ \cup {d}]
      /\ UNCHANGED <<signing, file, upload, bucket, parts, call, disk, job, get, offered>>
  BY DEF Pull, Typed
<1>2. ServerTyped' /\ \A j \in Items : item'[j].live = item[j].live
  <2>1. /\ item' \in [Items -> [live : BOOLEAN, md5 : Bytes, pulled : SUBSET Devices]]
        /\ \A j \in Items : item'[j].live = item[j].live
    BY <1>1 DEF ServerTyped, RowsTyped
  <2> QED BY <1>1, <2>1 DEF ServerTyped, RowsTyped, Placed, StoresTyped, CallsTyped
<1>3. /\ record[d][i] \in Records /\ RecordOK(disk[d][i], record[d][i])
      /\ item[i].md5 \in Bytes
      /\ i \in OnOffer => ~item[i].live
  BY <1>1, RecordTyped DEF DevicesTyped, Unknown, ServerTyped, RowsTyped
<1>4. /\ r \in Records /\ r.known \in {"no", "synced"} /\ RecordOK(disk[d][i], r)
      /\ i \in OnOffer => r.known = "no"
  <2>1. CASE item[i].live
    BY <1>3, <2>1, PulledOK
  <2>2. CASE ~item[i].live
    BY <2>2, NoRecordOK DEF NoRecord
  <2> QED BY <2>1, <2>2
<1> HIDE DEF r
<1>5. OnOffer \subseteq Items
  BY <1>1, DevicesAssumption DEF DevicesTyped, OnOffer
<1>6. DevicesTyped' /\ Steady(d)
  BY <1>1, <1>2, <1>4, <1>5, SetsSteady
<1>7. JobsTyped'
  BY <1>1, <1>6, JobsStay
<1> QED BY <1>2, <1>6, <1>7 DEF Typed

LEMMA RemoveItemTyped ==
  ASSUME Typed, NEW d \in Devices, NEW i \in Items, RemoveItem(d, i)
  PROVE  Typed' /\ Steady(d)
<1> DEFINE n == Call("delete", i, FALSE)
<1>1. /\ ServerTyped /\ DevicesTyped /\ JobsTyped /\ Sets(d, i, NoRecord)
      /\ FreeSlots # {} /\ Sends(FreeSlot, n)
      /\ UNCHANGED <<signing, rows, bucket, parts, disk, job, get, offered>>
  BY DEF RemoveItem, Typed
<1>2. n \in Requests /\ Asked(n)
  <2>0. "delete" \in Ops \ {"none"}
    BY DEF Ops
  <2>1. /\ n \in Requests /\ n.op = "delete" /\ n.item = i /\ n.at = FirstQuery["delete"]
    BY <2>0, NewCallTyped, Zenon
  <2>2. n.at = "rows"
    BY <2>1 DEF FirstQuery
  <2> HIDE DEF n
  <2> QED BY <2>1, <2>2 DEF Asked
<1> HIDE DEF n
<1>3. FreeSlot \in Slots /\ call[FreeSlot].op = "none"
  BY <1>1, FreeSlotIsFree
<1>4. /\ CallsTyped' /\ \A t \in Slots : t # FreeSlot => call'[t] = call[t]
  BY <1>1, <1>2, <1>3, SendsTyped DEF ServerTyped
<1>5. ServerTyped'
  BY <1>1, <1>4 DEF ServerTyped, RowsTyped, Placed, StoresTyped, rows
<1>6. UNCHANGED item
  BY <1>1 DEF rows
<1>7. DevicesTyped' /\ Steady(d)
  BY <1>1, <1>3, <1>4, <1>6, NoRecordOK, SetsSteady DEF NoRecord
<1>8. JobsTyped'
  BY <1>1, <1>3, <1>4, <1>7, JobsStay, FreeSlotTaken
<1> QED BY <1>5, <1>7, <1>8 DEF Typed

LEMMA RetryDueTyped ==
  ASSUME Typed, NEW d \in Devices, NEW i \in Items, RetryDue(d, i)
  PROVE  Typed' /\ Steady(d)
<1> DEFINE r == [record[d][i] EXCEPT !.waits = FALSE]
<1>1. /\ ServerTyped /\ DevicesTyped /\ JobsTyped /\ Sets(d, i, r) /\ record[d][i].waits
      /\ UNCHANGED serverVars /\ UNCHANGED <<disk, job, get, offered>>
  BY DEF RetryDue, Typed
<1>2. ServerTyped' /\ UNCHANGED <<item, call>>
  BY <1>1 DEF serverVars, rows, ServerTyped, RowsTyped, Placed, StoresTyped, CallsTyped
<1>3. /\ record[d][i] \in Records /\ RecordOK(disk[d][i], record[d][i])
      /\ record[d][i] # NoRecord
  BY <1>1, RecordTyped DEF NoRecord
<1>4. i \notin OnOffer /\ record[d][i].known # "no"
  BY <1>1, <1>3, RecordTyped DEF RecordOK
<1>5. r \in Records /\ r.known = record[d][i].known /\ RecordOK(disk[d][i], r)
  BY <1>3, <1>4 DEF Records, RecordOK
<1> HIDE DEF r
<1>6. DevicesTyped' /\ Steady(d)
  BY <1>1, <1>2, <1>4, <1>5, SetsSteady
<1>7. JobsTyped'
  BY <1>1, <1>2, <1>6, JobsStay
<1> QED BY <1>2, <1>6, <1>7 DEF Typed

(* A record that says that the transfer succeeded, or that it failed.      *)

LEMMA CompletesSteady ==
  ASSUME Typed, NEW d \in Devices, NEW i \in Items, NEW path \in Paths, NEW md5 \in Contents,
         InHand(d, i, path), Sets(d, i, Completed(record[d][i], path, md5)),
         UNCHANGED <<disk, offered, item>>,
         \A e \in Devices : e # d => job'[e] = job[e] /\ get'[e] = get[e],
         \A s \in Slots :
            call'[s] # call[s] => call[s].op = "none" \/ s \in {job[d].slot, get[d].slot}
  PROVE  DevicesTyped' /\ Steady(d)
<1> DEFINE r == Completed(record[d][i], path, md5)
<1>1. record[d][i] \in Records /\ RecordOK(disk[d][i], record[d][i])
  BY RecordTyped DEF Typed
<1>2. disk[d][i][path] \in Contents /\ record[d][i].known # "new" /\ i \notin OnOffer
  BY DEF InHand
<1>3. r \in Records /\ RecordOK(disk[d][i], r) /\ r.known = record[d][i].known
  BY <1>1, <1>2, CompletedOK
<1> HIDE DEF r
<1>4. Sets(d, i, r)
  BY DEF r
<1> QED BY <1>2, <1>3, <1>4, SetsSteady

LEMMA FailedSteady ==
  ASSUME Typed, NEW d \in Devices, NEW i \in Items, NEW upload_ \in BOOLEAN,
         i \notin OnOffer, Sets(d, i, Failed(record[d][i], upload_)),
         UNCHANGED <<disk, offered, item>>,
         \A e \in Devices : e # d => job'[e] = job[e] /\ get'[e] = get[e],
         \A s \in Slots :
            call'[s] # call[s] => call[s].op = "none" \/ s \in {job[d].slot, get[d].slot}
  PROVE  DevicesTyped' /\ Steady(d)
<1> DEFINE r == Failed(record[d][i], upload_)
<1>1. record[d][i] \in Records /\ RecordOK(disk[d][i], record[d][i])
  BY RecordTyped DEF Typed
<1>2. r \in Records /\ RecordOK(disk[d][i], r) /\ r.known = record[d][i].known
  BY <1>1, FailedOK
<1> HIDE DEF r
<1>3. Sets(d, i, r)
  BY DEF r
<1> QED BY <1>2, <1>3, SetsSteady

(* The next state of a job, by what it has in hand and what it waits for.  *)
LEMMA JobMoves ==
  ASSUME Typed, ServerTyped', DevicesTyped', NEW d \in Devices, Steady(d), NEW j \in Jobs,
         job' = [job EXCEPT ![d] = j], UNCHANGED get, Takes(job[d], j),
         get[d].slot # None => call'[get[d].slot] = call[get[d].slot],
         j.at = "idle" => j = NoJob,
         \A r \in j.todo : InHand(d, r.item, r.path),
         j.at \notin {"idle", "next"} => InHand(d, j.item, j.path) /\ j.digest \in Contents,
         j.at \in {"idle", "next", "failed"} => j.slot = None,
         j.at \notin {"idle", "next", "failed"} =>
            j.slot \in Slots /\ call'[j.slot].heard /\ call'[j.slot].item = j.item,
         j.at = "authorize" => call'[j.slot].op = "authorize",
         j.at = "sent" => call'[j.slot].op \in {"bytes", "complete"},
         j.at = "register" => call'[j.slot].op = "register",
         j.at = "abort" => call'[j.slot].op = "abort",
         j.at \in {"sent", "register"} => j.key \in UploadKeys
  PROVE  Typed' /\ Steady(d)
<1>1. /\ JobsTyped /\ GetTyped(d) /\ job'[d] = j /\ get'[d] = get[d]
      /\ job' \in [Devices -> Jobs] /\ get' \in [Devices -> Gets]
  BY DEF Typed, JobsTyped
<1>2. (\A r \in j.todo : InHand(d, r.item, r.path)')
  BY InHandKept
<1>3. j.at \notin {"idle", "next"} => InHand(d, j.item, j.path)'
  BY InHandKept
<1>4. JobTyped(d)'
  BY <1>1, <1>2, <1>3 DEF JobTyped, HasCall
<1>5. GetTyped(d)'
  BY <1>1, GetStays
<1>6. Takes(job[d], job'[d]) /\ Takes(get[d], get'[d])
  BY <1>1 DEF Takes
<1>7. JobsTyped'
  BY <1>1, <1>4, <1>5, <1>6, OthersKept
<1> QED BY <1>7 DEF Typed

(* What there is to know of a job before it moves. *)
LEMMA JobBefore ==
  ASSUME Typed, NEW d \in Devices
  PROVE  /\ ServerTyped /\ DevicesTyped /\ JobsTyped
         /\ job[d] \in Jobs /\ JobTyped(d) /\ job \in [Devices -> Jobs]
         /\ job[d].slot # None => get[d].slot # job[d].slot
<1>1. ServerTyped /\ DevicesTyped /\ JobsTyped /\ JobTyped(d) /\ job \in [Devices -> Jobs]
  BY DEF Typed, JobsTyped
<1> QED BY <1>1, HasCallOps

LEMMA NoJobTyped ==
  /\ NoJob \in Jobs /\ NoJob.at = "idle" /\ NoJob.slot = None /\ NoJob.todo = {}
  /\ NoJob.item = None /\ NoJob.path = None /\ NoJob.digest = None /\ NoJob.match = None
  /\ NoJob.key = None /\ NoJob.direct = FALSE
  BY DEF NoJob, Jobs, Places, Bytes

LEMMA NextTyped ==
  ASSUME NEW j \in Jobs
  PROVE  /\ Next_(j) \in Jobs /\ Next_(j).at = "next" /\ Next_(j).todo = j.todo
         /\ Next_(j).slot = None
  BY NoJobTyped DEF Next_, NoJob, Jobs, Places

LEMMA StartUploadTyped ==
  ASSUME Typed, NEW d \in Devices, StartUpload(d)
  PROVE  Typed' /\ Steady(d)
<1> DEFINE todo == {[item |-> i, path |-> record[d][i].path,
                     remote |-> record[d][i].remote] : i \in Pending(d)}
           j == [NoJob EXCEPT !.at = "next", !.todo = todo]
<1>1. /\ job' = [job EXCEPT ![d] = j]
      /\ UNCHANGED serverVars /\ UNCHANGED <<disk, record, get, offered>>
  BY DEF StartUpload
<1>2. ServerTyped' /\ UNCHANGED <<item, call>>
  BY <1>1 DEF Typed, serverVars, rows, ServerTyped, RowsTyped, Placed, StoresTyped, CallsTyped
<1>3. DevicesTyped' /\ Steady(d)
  BY <1>1, <1>2, JobBefore, StaysSteady
<1>4. ASSUME NEW i \in Pending(d)
      PROVE  InHand(d, i, record[d][i].path) /\ record[d][i].remote \in Bytes
  <2>1. /\ i \in Items /\ record[d][i].path # None /\ record[d][i].known = "synced"
    BY DEF Pending
  <2>2. record[d][i] \in Records /\ RecordOK(disk[d][i], record[d][i]) /\ i \notin OnOffer
    BY <2>1, JobBefore, RecordTyped DEF NoRecord
  <2> QED BY <2>1, <2>2 DEF InHand, Records, RecordOK
<1>5. ASSUME NEW r \in todo
      PROVE  InHand(d, r.item, r.path) /\ r \in [item : Items, path : Paths, remote : Bytes]
  <2>1. PICK i \in Pending(d) : r = [item |-> i, path |-> record[d][i].path,
                                     remote |-> record[d][i].remote]
    OBVIOUS
  <2> QED BY <1>4, <2>1 DEF InHand
<1> HIDE DEF todo
<1>6. j \in Jobs /\ j.at = "next" /\ j.todo = todo /\ j.slot = None
  BY <1>5, NoJobTyped DEF Jobs, Places
<1> HIDE DEF j
<1>7. Takes(job[d], j)
  BY <1>6 DEF Takes
<1> QED BY <1>1, <1>2, <1>3, <1>5, <1>6, <1>7, JobMoves

LEMMA EndUploadTyped ==
  ASSUME Typed, NEW d \in Devices, EndUpload(d)
  PROVE  Typed' /\ Steady(d)
<1>1. /\ job' = [job EXCEPT ![d] = NoJob]
      /\ UNCHANGED serverVars /\ UNCHANGED <<disk, record, get, offered>>
  BY DEF EndUpload
<1>2. ServerTyped' /\ UNCHANGED <<item, call>>
  BY <1>1 DEF Typed, serverVars, rows, ServerTyped, RowsTyped, Placed, StoresTyped, CallsTyped
<1>3. DevicesTyped' /\ Steady(d)
  BY <1>1, <1>2, JobBefore, StaysSteady
<1>4. Takes(job[d], NoJob)
  BY NoJobTyped DEF Takes
<1> QED BY <1>1, <1>2, <1>3, <1>4, NoJobTyped, JobMoves

LEMMA SkipCurrentTyped ==
  ASSUME Typed, NEW d \in Devices, SkipCurrent(d)
  PROVE  Typed' /\ Steady(d)
<1>1. PICK r \in job[d].todo :
         /\ job' = [job EXCEPT ![d].todo = @ \ {r}]
         /\ Sets(d, r.item, Completed(record[d][r.item], r.path, disk[d][r.item][r.path]))
  BY DEF SkipCurrent
<1> DEFINE j == [job[d] EXCEPT !.todo = @ \ {r}]
<1>2. /\ UNCHANGED serverVars /\ UNCHANGED <<disk, get, offered>> /\ job[d].at = "next"
  BY DEF SkipCurrent
<1>3. ServerTyped' /\ UNCHANGED <<item, call>>
  BY <1>2 DEF Typed, serverVars, rows, ServerTyped, RowsTyped, Placed, StoresTyped, CallsTyped
<1>4. InHand(d, r.item, r.path) /\ r.item \in Items /\ r.path \in Paths
      /\ disk[d][r.item][r.path] \in Contents
  BY JobBefore DEF JobTyped, InHand
<1>5. job' = [job EXCEPT ![d] = j]
  BY <1>1, JobBefore
<1>6. /\ j \in Jobs /\ j.at = "next" /\ j.todo \subseteq job[d].todo /\ j.slot = None
  BY <1>2, JobBefore DEF Jobs, JobTyped
<1> HIDE DEF j
<1>7. DevicesTyped' /\ Steady(d)
  BY <1>1, <1>2, <1>3, <1>4, <1>5, JobBefore, CompletesSteady
<1>8. Takes(job[d], j)
  BY <1>6 DEF Takes
<1>9. \A q \in j.todo : InHand(d, q.item, q.path)
  BY <1>6, JobBefore DEF JobTyped
<1> QED BY <1>2, <1>3, <1>5, <1>6, <1>7, <1>8, <1>9, JobMoves

(* A device writes one request: the rest of the server stays.              *)
LEMMA SendsServer ==
  ASSUME ServerTyped, NEW s \in Slots, NEW n \in Requests, Asked(n), Sends(s, n),
         UNCHANGED <<signing, rows>>, StoresTyped'
  PROVE  ServerTyped' /\ UNCHANGED item
         /\ call'[s] = n /\ \A t \in Slots : t # s => call'[t] = call[t]
  BY SendsTyped, RowsStay DEF ServerTyped, rows

(* Who waits for an answer has an item in hand.                            *)
LEMMA Waiting ==
  ASSUME Typed, NEW d \in Devices, job[d].slot # None
  PROVE  /\ job[d].slot \in Slots /\ job[d].slot # get[d].slot
         /\ call[job[d].slot] \in Requests /\ Asked(call[job[d].slot])
         /\ call[job[d].slot].heard /\ call[job[d].slot].item = job[d].item
         /\ job[d].at \in {"authorize", "sent", "register", "abort"}
         /\ InHand(d, job[d].item, job[d].path) /\ job[d].digest \in Contents
<1>1. JobTyped(d) /\ CallsTyped
  BY JobBefore DEF ServerTyped
<1>2. job[d].at \in Places
  BY JobBefore DEF Jobs
<1>3. job[d].at \in {"authorize", "sent", "register", "abort"}
  BY <1>1, <1>2 DEF JobTyped, Places
<1> QED BY <1>1, <1>3, JobBefore, HasCallOps DEF JobTyped, CallsTyped

LEMMA CompletesTyped ==
  ASSUME Typed, NEW d \in Devices, job[d].slot # None, Completes(d),
         UNCHANGED <<signing, rows, bucket, parts, disk, get, offered>>
  PROVE  Typed' /\ Steady(d)
<1> DEFINE i == job[d].item
           path == job[d].path
           s == job[d].slot
           j == Next_(job[d])
<1>1. /\ s \in Slots /\ s # get[d].slot /\ InHand(d, i, path) /\ job[d].digest \in Contents
      /\ i \in Items /\ path \in Paths
  BY Waiting DEF InHand
<1>2. /\ Sets(d, i, Completed(record[d][i], path, job[d].digest))
      /\ Sends(s, Idle) /\ job' = [job EXCEPT ![d] = j]
  BY DEF Completes, Sends
<1>3. /\ ServerTyped' /\ UNCHANGED item /\ \A t \in Slots : t # s => call'[t] = call[t]
  BY <1>1, <1>2, IdleTyped, JobBefore, SendsServer, StoresStay DEF ServerTyped
<1>4. j \in Jobs /\ j.at = "next" /\ j.todo = job[d].todo /\ j.slot = None
  BY NextTyped, JobBefore
<1> HIDE DEF j
<1>5. DevicesTyped' /\ Steady(d)
  BY <1>1, <1>2, <1>3, JobBefore, CompletesSteady
<1>6. \A r \in j.todo : InHand(d, r.item, r.path)
  BY <1>4, JobBefore DEF JobTyped
<1>7. get[d].slot # None => call'[get[d].slot] = call[get[d].slot]
  BY <1>1, <1>3, HasCallOps, JobBefore
<1> QED BY <1>2, <1>3, <1>4, <1>5, <1>6, <1>7, JobMoves DEF Takes

LEMMA FailsTyped ==
  ASSUME Typed, NEW d \in Devices, job[d].slot # None, Fails(d),
         UNCHANGED <<signing, rows, bucket, parts, disk, get, offered>>
  PROVE  Typed' /\ Steady(d)
<1> DEFINE s == job[d].slot
           j == [job[d] EXCEPT !.at = "failed", !.slot = None]
<1>1. /\ s \in Slots /\ s # get[d].slot /\ job[d].digest \in Contents
      /\ InHand(d, job[d].item, job[d].path)
  BY Waiting
<1>2. /\ UNCHANGED <<record, disk, offered, get>> /\ Sends(s, Idle)
      /\ job' = [job EXCEPT ![d] = j]
  BY JobBefore DEF Fails, Sends
<1>3. /\ ServerTyped' /\ UNCHANGED item /\ \A t \in Slots : t # s => call'[t] = call[t]
  BY <1>1, <1>2, IdleTyped, JobBefore, SendsServer, StoresStay DEF ServerTyped
<1>4. /\ j \in Jobs /\ j.at = "failed" /\ j.todo = job[d].todo /\ j.slot = None
      /\ j.item = job[d].item /\ j.path = job[d].path /\ j.digest = job[d].digest
  BY JobBefore DEF Jobs, Places
<1> HIDE DEF j
<1>5. DevicesTyped' /\ Steady(d)
  BY <1>1, <1>2, <1>3, JobBefore, StaysSteady
<1>6. \A r \in j.todo : InHand(d, r.item, r.path)
  BY <1>4, JobBefore DEF JobTyped
<1>7. get[d].slot # None => call'[get[d].slot] = call[get[d].slot]
  BY <1>1, <1>3, HasCallOps, JobBefore
<1> QED BY <1>1, <1>2, <1>3, <1>4, <1>5, <1>6, <1>7, JobMoves DEF Takes

LEMMA AuthorizationTyped ==
  ASSUME NEW i \in Items, NEW digest \in Contents, NEW match \in Bytes
  PROVE  \A direct \in BOOLEAN :
            /\ Authorization(i, digest, match, direct) \in Requests
            /\ Asked(Authorization(i, digest, match, direct))
            /\ Authorization(i, digest, match, direct).op = "authorize"
            /\ Authorization(i, digest, match, direct).item = i
            /\ Authorization(i, digest, match, direct).heard
<1> TAKE direct \in BOOLEAN
<1> DEFINE c == Call("authorize", i, TRUE)
           n == [c EXCEPT !.md5 = digest, !.match = match, !.direct = direct]
<1>1. /\ c \in Requests /\ c.op = "authorize" /\ c.item = i /\ c.heard /\ c.answer = "none"
      /\ c.at = "item"
  <2>1. "authorize" \in Ops \ {"none"} /\ FirstQuery["authorize"] = "item"
    BY DEF Ops, FirstQuery
  <2>2. /\ c \in Requests /\ c.op = "authorize" /\ c.item = i /\ c.heard /\ c.answer = "none"
        /\ c.at = FirstQuery["authorize"]
    <3>1. "authorize" \in Ops \ {"none"}
      BY <2>1
    <3> QED BY <3>1, NewCallTyped, Zenon
  <2> HIDE DEF c
  <2> QED BY <2>1, <2>2
<1>2. n = Authorization(i, digest, match, direct)
  BY DEF Authorization
<1> HIDE DEF c
<1>3. /\ n \in Requests /\ n.op = "authorize" /\ n.item = i /\ n.heard /\ n.answer = "none"
      /\ n.at = "item" /\ n.md5 = digest
  BY <1>1 DEF Requests, Bytes
<1> HIDE DEF n
<1>4. Asked(n)
  BY <1>3 DEF Asked
<1> QED BY <1>2, <1>3, <1>4

LEMMA AuthorizeTyped ==
  ASSUME Typed, NEW d \in Devices, Authorize(d)
  PROVE  Typed' /\ Steady(d)
<1>1. PICK r \in job[d].todo :
         LET digest == disk[d][r.item][r.path]
         IN  /\ job' = [job EXCEPT ![d] =
                  [NoJob EXCEPT !.at = "authorize", !.todo = job[d].todo \ {r},
                     !.item = r.item, !.path = r.path, !.digest = digest, !.match = r.remote,
                     !.direct = TRUE, !.slot = FreeSlot]]
             /\ Sends(FreeSlot, Authorization(r.item, digest, r.remote, TRUE))
  BY DEF Authorize
<1> DEFINE digest == disk[d][r.item][r.path]
           n == Authorization(r.item, digest, r.remote, TRUE)
           j == [NoJob EXCEPT !.at = "authorize", !.todo = job[d].todo \ {r},
                   !.item = r.item, !.path = r.path, !.digest = digest, !.match = r.remote,
                   !.direct = TRUE, !.slot = FreeSlot]
<1>2. /\ job' = [job EXCEPT ![d] = j] /\ Sends(FreeSlot, n) /\ FreeSlots # {}
      /\ UNCHANGED <<signing, rows, bucket, parts, disk, record, get, offered>>
  BY <1>1 DEF Authorize
<1>3. /\ InHand(d, r.item, r.path) /\ r.item \in Items /\ r.path \in Paths
      /\ digest \in Contents /\ r.remote \in Bytes
  BY JobBefore DEF JobTyped, InHand, Jobs
<1>4. FreeSlot \in Slots /\ call[FreeSlot].op = "none"
  BY <1>2, FreeSlotIsFree
<1>5. /\ j.at = "authorize" /\ j.todo \subseteq job[d].todo
      /\ j.item = r.item /\ j.path = r.path /\ j.digest = digest /\ j.slot = FreeSlot
  BY DEF NoJob
<1>6. j \in Jobs
  BY <1>3, <1>4, JobBefore, NoJobTyped DEF Jobs, Places, Bytes
<1>7. n \in Requests /\ Asked(n) /\ n.op = "authorize" /\ n.item = r.item /\ n.heard
  <2> DEFINE m(direct) == Authorization(r.item, digest, r.remote, direct)
  <2>1. \A direct \in BOOLEAN : /\ m(direct) \in Requests /\ Asked(m(direct))
                                /\ m(direct).op = "authorize" /\ m(direct).item = r.item
                                /\ m(direct).heard
    BY <1>3, AuthorizationTyped
  <2> HIDE DEF m
  <2>2. /\ m(TRUE) \in Requests /\ Asked(m(TRUE)) /\ m(TRUE).op = "authorize"
        /\ m(TRUE).item = r.item /\ m(TRUE).heard
    BY <2>1, Zenon
  <2> QED BY <2>2, Zenon DEF m
<1> HIDE DEF n, j
<1>8. /\ ServerTyped' /\ UNCHANGED item
      /\ call'[FreeSlot] = n /\ \A t \in Slots : t # FreeSlot => call'[t] = call[t]
  BY <1>2, <1>4, <1>7, JobBefore, SendsServer, StoresStay DEF ServerTyped
<1>9. DevicesTyped' /\ Steady(d)
  BY <1>2, <1>4, <1>8, JobBefore, StaysSteady
<1>10. \A q \in j.todo : InHand(d, q.item, q.path)
  BY <1>5, JobBefore DEF JobTyped
<1>11. get[d].slot # None => call'[get[d].slot] = call[get[d].slot]
  BY <1>4, <1>8, JobBefore, FreeSlotTaken
<1>12. FreeSlot # None
  BY <1>4, FilesAssumption
<1> QED BY <1>2, <1>3, <1>4, <1>5, <1>6, <1>7, <1>8, <1>9, <1>10, <1>11, JobMoves DEF Takes

LEMMA AtSlot ==
  ASSUME Typed, NEW d \in Devices
  PROVE  /\ job[d].at = "authorize" => job[d].slot # None /\ call[job[d].slot].op = "authorize"
         /\ job[d].at = "sent" => job[d].slot # None
         /\ job[d].at = "register" => job[d].slot # None
         /\ job[d].at = "abort" => job[d].slot # None
  BY JobBefore, FilesAssumption DEF JobTyped, HasCall

LEMMA SendFileTyped ==
  ASSUME Typed, NEW d \in Devices, job[d].at = "authorize", AnswerTo(d) = "ok", SendFile(d),
         UNCHANGED <<signing, rows, disk, get, offered>>
  PROVE  Typed' /\ Steady(d)
<1> DEFINE c == call[job[d].slot]
           i == job[d].item
           k == c.key
           s == job[d].slot
           bytes == disk[d][i][job[d].path]
           op == IF c.direct THEN "complete" ELSE "bytes"
           next == Call(op, i, TRUE)
           n == [next EXCEPT !.key = k, !.bytes = IF c.direct THEN None ELSE bytes]
           j == [job[d] EXCEPT !.at = "sent", !.key = k, !.direct = c.direct]
<1>1. /\ s # None /\ s \in Slots /\ s # get[d].slot /\ c \in Requests /\ Asked(c)
      /\ InHand(d, i, job[d].path) /\ job[d].digest \in Contents /\ c.op = "authorize"
  BY Waiting, AtSlot
<1>2. /\ k \in UploadKeys /\ bytes \in Contents /\ c.direct \in BOOLEAN /\ i \in Items
  BY <1>1 DEF Asked, InHand, Requests, AnswerTo
<1>3. /\ call' = [call EXCEPT ![s] = n] /\ UNCHANGED record
      /\ bucket' = IF c.direct /\ ~upload[k].multipart
                   THEN [bucket EXCEPT ![UploadName(k)] = bytes] ELSE bucket
      /\ parts' = IF c.direct /\ upload[k].multipart THEN [parts EXCEPT ![k] = bytes] ELSE parts
      /\ job' = [job EXCEPT ![d].at = "sent", ![d].key = k, ![d].direct = c.direct]
  BY DEF SendFile
<1>4. job' = [job EXCEPT ![d] = j]
  BY <1>3, JobBefore
<1>5. /\ j \in Jobs /\ j.at = "sent" /\ j.todo = job[d].todo /\ j.key = k
      /\ j.item = i /\ j.path = job[d].path /\ j.digest = job[d].digest /\ j.slot = s
  BY <1>2, JobBefore DEF Jobs, Places
<1>6. StoresTyped'
  BY <1>2, <1>3, JobBefore DEF ServerTyped, StoresTyped, Bytes
<1>7. /\ next \in Requests /\ next.op = op /\ next.item = i /\ next.heard
      /\ next.answer = "none" /\ next.at = "queued" /\ op \in {"bytes", "complete"}
  <2>1. /\ op \in Ops \ {"none"} /\ op \in {"bytes", "complete"}
    BY DEF Ops
  <2>2. FirstQuery[op] = "queued"
    BY <2>1 DEF FirstQuery
  <2> HIDE DEF op
  <2>3. /\ next \in Requests /\ next.op = op /\ next.item = i /\ next.heard
        /\ next.answer = "none" /\ next.at = FirstQuery[op]
    BY <1>2, <2>1, NewCallTyped, Zenon
  <2> HIDE DEF next
  <2> QED BY <2>1, <2>2, <2>3
<1> HIDE DEF next, op, j
<1>8. /\ n \in Requests /\ n.op = op /\ n.item = i /\ n.heard
      /\ n.answer = "none" /\ n.at = "queued" /\ n.key = k
  BY <1>2, <1>7 DEF Requests, Bytes
<1>9. Sends(s, n)
  BY <1>3 DEF Sends, next, op
<1> HIDE DEF n
<1>10. Asked(n)
  BY <1>2, <1>7, <1>8 DEF Asked
<1>11. /\ ServerTyped' /\ UNCHANGED item
       /\ call'[s] = n /\ \A t \in Slots : t # s => call'[t] = call[t]
  BY <1>1, <1>6, <1>8, <1>9, <1>10, JobBefore, SendsServer
<1>12. DevicesTyped' /\ Steady(d)
  BY <1>1, <1>3, <1>4, <1>11, JobBefore, StaysSteady
<1>13. \A q \in j.todo : InHand(d, q.item, q.path)
  BY <1>5, JobBefore DEF JobTyped
<1>14. get[d].slot # None => call'[get[d].slot] = call[get[d].slot]
  BY <1>1, <1>11, JobBefore, HasCallOps
<1>15. Takes(job[d], j)
  BY <1>5 DEF Takes
<1>16. /\ j.slot \in Slots /\ call'[j.slot].heard /\ call'[j.slot].item = j.item
       /\ call'[j.slot].op \in {"bytes", "complete"}
  BY <1>1, <1>5, <1>7, <1>8, <1>11
<1> QED BY <1>1, <1>2, <1>4, <1>5, <1>11, <1>12, <1>13, <1>14, <1>15, <1>16, JobMoves

LEMMA OnAuthorizeTyped ==
  ASSUME Typed, NEW d \in Devices, OnAuthorize(d)
  PROVE  Typed' /\ Steady(d)
<1> DEFINE s == job[d].slot
           i == job[d].item
           plain == Authorization(i, job[d].digest, job[d].match, FALSE)
<1>1. /\ s # None /\ job[d].at = "authorize"
      /\ UNCHANGED <<signing, rows, disk, get, offered>>
  BY AtSlot DEF OnAuthorize
<1>2. CASE Completes(d) /\ UNCHANGED <<bucket, parts>>
  BY <1>1, <1>2, CompletesTyped
<1>3. CASE Fails(d) /\ UNCHANGED <<bucket, parts>>
  BY <1>1, <1>3, FailsTyped
<1>4. CASE AnswerTo(d) = "ok" /\ SendFile(d)
  BY <1>1, <1>4, SendFileTyped
<1>5. CASE Sends(s, plain) /\ UNCHANGED <<bucket, parts, job, record>>
  <2>1. /\ s \in Slots /\ s # get[d].slot /\ i \in Items /\ job[d].digest \in Contents
        /\ job[d].match \in Bytes
    BY <1>1, Waiting, JobBefore DEF InHand, Jobs
  <2>2. /\ plain \in Requests /\ Asked(plain) /\ plain.op = "authorize" /\ plain.item = i
        /\ plain.heard
    <3> DEFINE m(direct) == Authorization(i, job[d].digest, job[d].match, direct)
    <3>1. \A direct \in BOOLEAN : /\ m(direct) \in Requests /\ Asked(m(direct))
                                  /\ m(direct).op = "authorize" /\ m(direct).item = i
                                  /\ m(direct).heard
      BY <2>1, AuthorizationTyped
    <3> HIDE DEF m
    <3>2. /\ m(FALSE) \in Requests /\ Asked(m(FALSE)) /\ m(FALSE).op = "authorize"
          /\ m(FALSE).item = i /\ m(FALSE).heard
      BY <3>1, Zenon
    <3> QED BY <3>2, Zenon DEF m
  <2> HIDE DEF plain
  <2>3. /\ ServerTyped' /\ UNCHANGED item
        /\ call'[s] = plain /\ \A t \in Slots : t # s => call'[t] = call[t]
    BY <1>1, <1>5, <2>1, <2>2, JobBefore, SendsServer, StoresStay DEF ServerTyped
  <2>4. DevicesTyped' /\ Steady(d)
    BY <1>1, <1>5, <2>1, <2>3, JobBefore, StaysSteady
  <2>5. get[d].slot # None => call'[get[d].slot] = call[get[d].slot]
    BY <2>1, <2>3, JobBefore, HasCallOps
  <2> DEFINE j == job[d]
  <2>6. /\ job' = [job EXCEPT ![d] = j] /\ UNCHANGED get /\ Takes(job[d], j)
    BY <1>1, <1>5, JobBefore DEF Takes
  <2>7. /\ j \in Jobs /\ j.at = "authorize" /\ j.digest \in Contents /\ InHand(d, j.item, j.path)
        /\ \A q \in j.todo : InHand(d, q.item, q.path)
    BY <1>1, JobBefore, Waiting DEF JobTyped
  <2>8. /\ j.slot \in Slots /\ call'[j.slot].heard /\ call'[j.slot].item = j.item
        /\ call'[j.slot].op = "authorize"
    BY <2>1, <2>2, <2>3
  <2> HIDE DEF j
  <2> QED BY <2>3, <2>4, <2>5, <2>6, <2>7, <2>8, JobMoves
<1>6. \/ Completes(d) /\ UNCHANGED <<bucket, parts>>
      \/ AnswerTo(d) = "ok" /\ SendFile(d)
      \/ Sends(s, plain) /\ UNCHANGED <<bucket, parts, job, record>>
      \/ Fails(d) /\ UNCHANGED <<bucket, parts>>
  BY DEF OnAuthorize
<1> QED BY <1>2, <1>3, <1>4, <1>5, <1>6

LEMMA OnRegisterTyped ==
  ASSUME Typed, NEW d \in Devices, OnRegister(d)
  PROVE  Typed' /\ Steady(d)
  BY AtSlot, CompletesTyped, FailsTyped DEF OnRegister

(* A job sends a request, from its own slot or a free one, and waits for it. *)
LEMMA SendsMoves ==
  ASSUME Typed, NEW d \in Devices, NEW s \in Slots, s = job[d].slot \/ call[s].op = "none",
         NEW n \in Requests, Asked(n), n.heard, Sends(s, n), NEW j \in Jobs,
         job' = [job EXCEPT ![d] = j], j.slot = s, n.item = j.item,
         j.at \in {"register", "abort"}, n.op = j.at, j.key \in UploadKeys,
         j.todo = job[d].todo, j.item = job[d].item, j.path = job[d].path,
         j.digest = job[d].digest, job[d].at \notin {"idle", "next"},
         UNCHANGED <<signing, rows, bucket, parts, disk, record, get, offered>>
  PROVE  Typed' /\ Steady(d)
<1>1. /\ ServerTyped' /\ UNCHANGED item
      /\ call'[s] = n /\ \A t \in Slots : t # s => call'[t] = call[t]
  BY JobBefore, SendsServer, StoresStay DEF ServerTyped
<1>2. DevicesTyped' /\ Steady(d)
  BY <1>1, JobBefore, StaysSteady
<1>3. get[d].slot # None => get[d].slot # s
  <2>1. s # None
    BY FilesAssumption
  <2> QED BY <2>1, JobBefore, HasCallOps
<1>4. get[d].slot # None => call'[get[d].slot] = call[get[d].slot]
  BY <1>1, <1>3, JobBefore, HasCallOps
<1>5. /\ \A q \in j.todo : InHand(d, q.item, q.path)
      /\ InHand(d, j.item, j.path) /\ j.digest \in Contents
  BY JobBefore DEF JobTyped
<1>6. Takes(job[d], j)
  BY DEF Takes
<1> QED BY <1>1, <1>2, <1>4, <1>5, <1>6, JobMoves

LEMMA OnSentTyped ==
  ASSUME Typed, NEW d \in Devices, OnSent(d)
  PROVE  Typed' /\ Steady(d)
<1> DEFINE s == job[d].slot
           op == "register"
           next == Call(op, job[d].item, TRUE)
           n == [next EXCEPT !.key = job[d].key, !.match = job[d].match]
           j == [job[d] EXCEPT !.at = "register"]
<1>1. /\ s # None /\ job[d].at = "sent"
      /\ UNCHANGED <<signing, rows, bucket, parts, disk, get, offered>>
  BY AtSlot DEF OnSent
<1>2. CASE Fails(d)
  BY <1>1, <1>2, FailsTyped
<1>3. CASE Sends(s, n) /\ job' = [job EXCEPT ![d].at = "register"] /\ UNCHANGED record
  <2>1. /\ s \in Slots /\ job[d].item \in Items /\ job[d].key \in UploadKeys
        /\ job[d].match \in Bytes
    BY <1>1, Waiting, JobBefore DEF InHand, JobTyped, Jobs
  <2>2. /\ next \in Requests /\ next.op = op /\ next.item = job[d].item /\ next.heard
        /\ next.answer = "none" /\ next.at = "item" /\ op = "register"
    <3>1. op \in Ops \ {"none"}
      BY DEF Ops
    <3>2. FirstQuery[op] = "item" /\ op = "register"
      BY DEF FirstQuery
    <3> DEFINE i == job[d].item
    <3>3. i \in Items
      BY <2>1
    <3> HIDE DEF op, i
    <3>4. /\ Call(op, i, TRUE) \in Requests /\ Call(op, i, TRUE).op = op
          /\ Call(op, i, TRUE).item = i /\ Call(op, i, TRUE).heard
          /\ Call(op, i, TRUE).answer = "none" /\ Call(op, i, TRUE).at = FirstQuery[op]
      BY <3>1, <3>3, NewCallTyped, Zenon
    <3>5. next = Call(op, i, TRUE) /\ i = job[d].item
      BY DEF i
    <3> HIDE DEF next
    <3> QED BY <3>2, <3>4, <3>5
  <2>3. Sends(s, n)
    BY <1>3
  <2> HIDE DEF next, op
  <2>4. /\ n \in Requests /\ n.op = "register" /\ n.item = job[d].item /\ n.heard
        /\ n.answer = "none" /\ n.at = "item" /\ n.key = job[d].key
    BY <2>1, <2>2 DEF Requests
  <2> HIDE DEF n
  <2>5. Asked(n)
    BY <2>1, <2>4 DEF Asked
  <2>6. job' = [job EXCEPT ![d] = j]
    BY <1>3, JobBefore
  <2>7. /\ j \in Jobs /\ j.at = "register" /\ j.todo = job[d].todo /\ j.key = job[d].key
        /\ j.item = job[d].item /\ j.path = job[d].path /\ j.digest = job[d].digest
        /\ j.slot = s
    BY JobBefore DEF Jobs, Places
  <2> HIDE DEF j
  <2>8. /\ j.at \in {"register", "abort"} /\ n.op = j.at /\ n.item = j.item
        /\ job[d].at \notin {"idle", "next"}
        /\ UNCHANGED <<signing, rows, bucket, parts, disk, record, get, offered>>
    BY <1>1, <1>3, <2>4, <2>7
  <2> QED BY <2>1, <2>3, <2>4, <2>5, <2>6, <2>7, <2>8, SendsMoves
<1> QED BY <1>2, <1>3 DEF OnSent

LEMMA AbortTyped ==
  ASSUME Typed, NEW d \in Devices, Abort(d)
  PROVE  Typed' /\ Steady(d)
<1> DEFINE s == FreeSlot
           op == "abort"
           next == Call(op, job[d].item, TRUE)
           n == [next EXCEPT !.key = job[d].key]
           j == [job[d] EXCEPT !.at = "abort", !.slot = s]
<1>1. /\ job[d].at = "failed" /\ job[d].key # None /\ FreeSlots # {}
      /\ Sends(s, n) /\ job' = [job EXCEPT ![d].at = "abort", ![d].slot = s]
      /\ UNCHANGED <<signing, rows, bucket, parts, disk, record, get, offered>>
  BY DEF Abort
<1>2. s \in Slots /\ call[s].op = "none"
  BY <1>1, FreeSlotIsFree
<1> HIDE DEF s
<1>3. job[d].item \in Items /\ job[d].key \in UploadKeys
  BY <1>1, JobBefore DEF JobTyped, InHand, Jobs
<1>4. /\ next \in Requests /\ next.op = op /\ next.item = job[d].item /\ next.heard
      /\ next.answer = "none" /\ next.at = "queued" /\ op = "abort"
  <2>1. op \in Ops \ {"none"}
    BY DEF Ops
  <2>2. FirstQuery[op] = "queued" /\ op = "abort"
    BY DEF FirstQuery
  <2> DEFINE i == job[d].item
  <2>3. i \in Items
    BY <1>3
  <2> HIDE DEF op, i
  <2>4. /\ Call(op, i, TRUE) \in Requests /\ Call(op, i, TRUE).op = op
        /\ Call(op, i, TRUE).item = i /\ Call(op, i, TRUE).heard
        /\ Call(op, i, TRUE).answer = "none" /\ Call(op, i, TRUE).at = FirstQuery[op]
    BY <2>1, <2>3, NewCallTyped, Zenon
  <2>5. next = Call(op, i, TRUE) /\ i = job[d].item
    BY DEF i
  <2> HIDE DEF next
  <2> QED BY <2>2, <2>4, <2>5
<1>5. Sends(s, n)
  BY <1>1
<1> HIDE DEF next, op
<1>6. /\ n \in Requests /\ n.op = "abort" /\ n.item = job[d].item /\ n.heard
      /\ n.answer = "none" /\ n.at = "queued" /\ n.key = job[d].key
  BY <1>3, <1>4 DEF Requests
<1> HIDE DEF n
<1>7. Asked(n)
  BY <1>3, <1>6 DEF Asked
<1>8. job' = [job EXCEPT ![d] = j]
  BY <1>1, JobBefore
<1>9. /\ j \in Jobs /\ j.at = "abort" /\ j.todo = job[d].todo /\ j.key = job[d].key
      /\ j.item = job[d].item /\ j.path = job[d].path /\ j.digest = job[d].digest
      /\ j.slot = s
  BY <1>2, JobBefore DEF Jobs, Places
<1> HIDE DEF j
<1>10. /\ j.at \in {"register", "abort"} /\ n.op = j.at /\ n.item = j.item
       /\ job[d].at \notin {"idle", "next"} /\ j.key \in UploadKeys
       /\ UNCHANGED <<signing, rows, bucket, parts, disk, record, get, offered>>
  BY <1>1, <1>3, <1>6, <1>9
<1> QED BY <1>2, <1>5, <1>6, <1>7, <1>8, <1>9, <1>10, SendsMoves

LEMMA FailTyped ==
  ASSUME Typed, NEW d \in Devices, Fail(d)
  PROVE  Typed' /\ Steady(d)
<1> DEFINE s == job[d].slot
           i == job[d].item
           j == Next_(job[d])
<1>1. /\ job[d].at \in {"failed", "abort"}
      /\ Sets(d, i, Failed(record[d][i], TRUE))
      /\ call' = IF s = None THEN call ELSE [call EXCEPT ![s] = Idle]
      /\ job' = [job EXCEPT ![d] = j]
      /\ UNCHANGED <<signing, rows, bucket, parts, disk, get, offered>>
  BY DEF Fail
<1>2. InHand(d, i, job[d].path) /\ i \in Items /\ i \notin OnOffer
  BY <1>1, JobBefore DEF JobTyped, InHand
<1>3. j \in Jobs /\ j.at = "next" /\ j.todo = job[d].todo /\ j.slot = None
  BY NextTyped, JobBefore
<1> HIDE DEF j
<1>4. /\ ServerTyped' /\ UNCHANGED item
      /\ \A t \in Slots : t # s => call'[t] = call[t]
  <2>1. CASE s = None
    BY <1>1, <2>1, RowsStay, StoresStay, JobBefore DEF ServerTyped, CallsTyped, rows
  <2>2. CASE s # None
    <3>1. s \in Slots /\ Sends(s, Idle)
      BY <1>1, <2>2, Waiting DEF Sends
    <3> QED BY <1>1, <3>1, IdleTyped, JobBefore, SendsServer, StoresStay DEF ServerTyped
  <2> QED BY <2>1, <2>2
<1>5. \E upload_ \in BOOLEAN : Sets(d, i, Failed(record[d][i], upload_))
  BY <1>1, Zenon
<1>6. DevicesTyped' /\ Steady(d)
  BY <1>1, <1>2, <1>4, <1>5, JobBefore, FailedSteady
<1>7. \A q \in j.todo : InHand(d, q.item, q.path)
  BY <1>3, JobBefore DEF JobTyped
<1>8. get[d].slot # None => call'[get[d].slot] = call[get[d].slot]
  BY <1>4, JobBefore, HasCallOps
<1> QED BY <1>1, <1>3, <1>4, <1>6, <1>7, <1>8, JobMoves DEF Takes

(* The next state of a download. *)
LEMMA GetMoves ==
  ASSUME Typed, ServerTyped', DevicesTyped', NEW d \in Devices, Steady(d), NEW g \in Gets,
         get' = [get EXCEPT ![d] = g], UNCHANGED job, Takes(get[d], g),
         job[d].slot # None => call'[job[d].slot] = call[job[d].slot],
         g.at = "idle" => g = NoGet,
         g.at # "idle" => /\ g.item \in Items /\ g.md5 \in Contents
                          /\ g.item \notin OnOffer /\ record'[d][g.item].known # "new"
                          /\ g.slot \in Slots /\ call'[g.slot].heard
                          /\ call'[g.slot].item = g.item /\ call'[g.slot].op = "download"
  PROVE  Typed' /\ Steady(d)
<1>1. /\ JobsTyped /\ JobTyped(d) /\ get'[d] = g /\ job'[d] = job[d]
      /\ job' \in [Devices -> Jobs] /\ get' \in [Devices -> Gets]
  BY DEF Typed, JobsTyped
<1>2. JobTyped(d)'
  BY <1>1, JobStays
<1>3. GetTyped(d)'
  BY <1>1 DEF GetTyped, HasCall, Steady
<1>4. Takes(job[d], job'[d]) /\ Takes(get[d], get'[d])
  BY <1>1 DEF Takes
<1>5. JobsTyped'
  BY <1>1, <1>2, <1>3, <1>4, OthersKept
<1> QED BY <1>5 DEF Typed

(* Who waits for a download has an item in hand. *)
LEMMA Downloading ==
  ASSUME Typed, NEW d \in Devices, get[d].slot # None
  PROVE  /\ get[d].slot \in Slots /\ job[d].slot # get[d].slot
         /\ call[get[d].slot] \in Requests /\ Asked(call[get[d].slot])
         /\ call[get[d].slot].heard /\ call[get[d].slot].item = get[d].item
         /\ get[d].item \in Items /\ get[d].md5 \in Contents /\ get[d].item \notin OnOffer
         /\ record[d][get[d].item].known # "new"
<1>1. CallsTyped /\ JobsTyped /\ GetTyped(d)
  BY JobBefore DEF ServerTyped, JobsTyped
<1>2. get[d].at # "idle"
  BY <1>1 DEF GetTyped, NoGet
<1> QED BY <1>1, <1>2, JobBefore, HasCallOps DEF GetTyped, CallsTyped

LEMMA NoGetTyped == NoGet \in Gets /\ NoGet.at = "idle" /\ NoGet.slot = None
  BY DEF NoGet, Gets, Bytes

LEMMA OpenAttachmentTyped ==
  ASSUME Typed, NEW d \in Devices, NEW i \in Items, OpenAttachment(d, i)
  PROVE  Typed' /\ Steady(d)
<1> DEFINE s == FreeSlot
           n == Call("download", i, TRUE)
           g == [at |-> "asked", item |-> i, md5 |-> record[d][i].remote, slot |-> s]
           r == [record[d][i] EXCEPT !.cache = IF record[d][i].path = None THEN "downloading"
                                                                          ELSE @]
<1>1. /\ get[d].at = "idle" /\ record[d][i].remote # None /\ FreeSlots # {}
      /\ Sets(d, i, r) /\ Sends(s, n) /\ get' = [get EXCEPT ![d] = g]
      /\ UNCHANGED <<signing, rows, bucket, parts, disk, job, offered>>
  BY DEF OpenAttachment
<1>2. s \in Slots /\ call[s].op = "none"
  BY <1>1, FreeSlotIsFree
<1>3. /\ record[d][i] \in Records /\ RecordOK(disk[d][i], record[d][i])
      /\ i \notin OnOffer /\ record[d][i].known = "synced" /\ record[d][i].remote \in Contents
  <2>1. record[d][i] \in Records /\ RecordOK(disk[d][i], record[d][i])
        /\ (i \in OnOffer => record[d][i] = NoRecord)
    BY JobBefore, RecordTyped
  <2>2. record[d][i] # NoRecord
    BY <1>1 DEF NoRecord
  <2>3. i \notin OnOffer /\ record[d][i].known # "no" /\ record[d][i].known # "new"
    BY <1>1, <2>1, <2>2 DEF RecordOK
  <2> QED BY <1>1, <2>1, <2>3 DEF Records, Bytes
<1>4. /\ g \in Gets /\ g.at = "asked" /\ g.item = i /\ g.md5 = record[d][i].remote /\ g.slot = s
  BY <1>2, <1>3 DEF Gets, Bytes
<1>5. r \in Records /\ r.known = "synced" /\ RecordOK(disk[d][i], r)
  BY <1>3 DEF Records, RecordOK
<1>6. /\ n \in Requests /\ n.op = "download" /\ n.item = i /\ n.heard /\ n.answer = "none"
      /\ n.at = "row"
  <2>1. "download" \in Ops \ {"none"}
    BY DEF Ops
  <2>2. /\ n \in Requests /\ n.op = "download" /\ n.item = i /\ n.heard /\ n.answer = "none"
        /\ n.at = FirstQuery["download"]
    BY <2>1, NewCallTyped, Zenon
  <2>3. FirstQuery["download"] = "row"
    BY DEF FirstQuery
  <2> HIDE DEF n
  <2> QED BY <2>2, <2>3
<1> HIDE DEF n, g, r, s
<1>7. Asked(n)
  BY <1>6 DEF Asked
<1>8. /\ ServerTyped' /\ UNCHANGED item
      /\ call'[s] = n /\ \A t \in Slots : t # s => call'[t] = call[t]
  BY <1>1, <1>2, <1>6, <1>7, JobBefore, SendsServer, StoresStay DEF ServerTyped
<1>9. get \in [Devices -> Gets]
  BY JobBefore DEF JobsTyped
<1>10. DevicesTyped' /\ Steady(d)
  BY <1>1, <1>2, <1>3, <1>5, <1>8, <1>9, JobBefore, SetsSteady
<1>11. record'[d][i] = r
  BY <1>1, JobBefore DEF Sets, DevicesTyped
<1>12. job[d].slot # None => call'[job[d].slot] = call[job[d].slot]
  BY <1>2, <1>8, JobBefore, FreeSlotTaken
<1>13. Takes(get[d], g)
  BY <1>2, <1>4 DEF Takes
<1>14. /\ g.at # "idle" /\ g.item \in Items /\ g.md5 \in Contents /\ g.item \notin OnOffer
       /\ record'[d][g.item].known # "new" /\ g.slot \in Slots /\ call'[g.slot].heard
       /\ call'[g.slot].item = g.item /\ call'[g.slot].op = "download"
  BY <1>2, <1>3, <1>4, <1>5, <1>6, <1>8, <1>11
<1>15. UNCHANGED job
  BY <1>1
<1> QED BY <1>1, <1>4, <1>8, <1>10, <1>12, <1>13, <1>14, <1>15, GetMoves

(* What is downloaded is written to the cache, and the copy is that. *)
LEMMA CachedSteady ==
  ASSUME Typed, NEW d \in Devices, NEW i \in Items, NEW bytes \in Contents,
         i \notin OnOffer, record[d][i].known # "new",
         disk' = [disk EXCEPT ![d][i]["cached"] = bytes],
         Sets(d, i, Completed(record[d][i], "cached", bytes)), UNCHANGED <<offered, item>>,
         \A e \in Devices : e # d => job'[e] = job[e] /\ get'[e] = get[e],
         \A s \in Slots :
            call'[s] # call[s] => call[s].op = "none" \/ s \in {job[d].slot, get[d].slot}
  PROVE  DevicesTyped' /\ Steady(d)
<1> DEFINE r == Completed(record[d][i], "cached", bytes)
<1>1. DevicesTyped /\ record[d][i] \in Records /\ RecordOK(disk[d][i], record[d][i])
  BY JobBefore, RecordTyped
<1>2. /\ disk' \in [Devices -> [Items -> [Paths -> Bytes]]]
      /\ disk'[d][i]["cached"] = bytes
      /\ \A e \in Devices : e # d => disk'[e] = disk[e]
      /\ \A j \in Items : j # i => disk'[d][j] = disk[d][j]
      /\ \A p \in Paths : p # "cached" => disk'[d][i][p] = disk[d][i][p]
  BY <1>1 DEF DevicesTyped, Bytes, Paths
<1>3. RecordOK(disk'[d][i], record[d][i])
  BY <1>1, <1>2 DEF RecordOK, Records
<1>4. r \in Records /\ RecordOK(disk'[d][i], r) /\ r.known = record[d][i].known
  <2>1. "cached" \in Paths
    BY DEF Paths
  <2>2. disk'[d][i]["cached"] \in Contents
    BY <1>2
  <2>3. record[d][i] \in Records /\ record[d][i].known # "new"
    BY <1>1
  <2> DEFINE old == record[d][i]
             files == disk'[d][i]
             path == "cached"
  <2>4. /\ old \in Records /\ old.known # "new" /\ path \in Paths /\ files[path] \in Contents
        /\ RecordOK(files, old)
    BY <1>3, <2>1, <2>2, <2>3
  <2>5. r = Completed(old, path, bytes)
    OBVIOUS
  <2> HIDE DEF r, old, files, path
  <2>6. r \in Records /\ RecordOK(files, r) /\ r.known = old.known
    BY <2>4, <2>5, CompletedOK
  <2> QED BY <2>6 DEF files, old
<1> HIDE DEF r
<1>5. /\ record' \in [Devices -> [Items -> Records]]
      /\ \A e \in Devices : e # d => record'[e] = record[e]
      /\ \A j \in Items : j # i => record'[d][j] = record[d][j]
      /\ record'[d][i] = r
  <2>1. Sets(d, i, r)
    BY DEF r
  <2> QED BY <1>1, <1>4, <2>1 DEF DevicesTyped, Sets
<1>6. ASSUME NEW e \in Devices, NEW j \in Items PROVE Noted(e, j)'
  <2>1. CASE e = d /\ j = i
    <3>1. RecordOK(disk'[e][j], record'[e][j])
      BY <1>4, <1>5, <2>1
    <3> QED BY <3>1 DEF Noted, RecordOK
  <2>2. CASE e # d \/ j # i
    <3>1. /\ RecordOK(disk[e][j], record[e][j]) /\ record'[e][j] = record[e][j]
          /\ disk'[e][j] = disk[e][j]
      BY <1>1, <1>2, <1>5, <2>2 DEF DevicesTyped, Noted
    <3> QED BY <3>1 DEF Noted, RecordOK
  <2> QED BY <2>1, <2>2
<1>7. UNCHANGED OnOffer /\ OnOffer \subseteq Items
  BY <1>1, DevicesAssumption DEF OnOffer, DevicesTyped
<1>8. ASSUME NEW j \in OnOffer PROVE Unknown(j)'
  <2>1. j \in Items /\ j # i /\ ~item[j].live /\ \A e \in Devices : record[e][j].known = "no"
    BY <1>1, <1>7 DEF DevicesTyped, Unknown
  <2>2. ASSUME NEW e \in Devices PROVE record'[e][j].known = "no"
    BY <1>5, <2>1
  <2>3. ~item'[j].live
    BY <2>1
  <2> QED BY <2>2, <2>3 DEF Unknown
<1>9. DevicesTyped'
  BY <1>1, <1>2, <1>5, <1>6, <1>7, <1>8 DEF DevicesTyped
<1>10. \A j \in Items, p \in Paths : disk[d][j][p] \in Contents => disk'[d][j][p] \in Contents
  BY <1>2
<1>11. \A j \in Items : record'[d][j].known = "new" => record[d][j].known = "new"
  BY <1>4, <1>5
<1> QED BY <1>2, <1>5, <1>7, <1>9, <1>10, <1>11 DEF Steady

LEMMA OnDownloadTyped ==
  ASSUME Typed, NEW d \in Devices, OnDownload(d)
  PROVE  Typed' /\ Steady(d)
<1> DEFINE s == get[d].slot
           i == get[d].item
           c == call[s]
<1>1. /\ get[d].at = "asked" /\ Sends(s, Idle) /\ get' = [get EXCEPT ![d] = NoGet]
      /\ UNCHANGED <<signing, rows, bucket, parts, job, offered>>
  BY DEF OnDownload, Sends
<1>2. s # None
  <2>1. GetTyped(d)
    BY JobBefore DEF JobsTyped
  <2> QED BY <1>1, <2>1, FilesAssumption DEF GetTyped, HasCall
<1>3. /\ s \in Slots /\ job[d].slot # s /\ i \in Items /\ get[d].md5 \in Contents
      /\ i \notin OnOffer /\ record[d][i].known # "new"
  BY <1>2, Downloading
<1>4. /\ ServerTyped' /\ UNCHANGED item /\ \A t \in Slots : t # s => call'[t] = call[t]
  BY <1>1, <1>3, IdleTyped, JobBefore, SendsServer, StoresStay DEF ServerTyped
<1>5. get \in [Devices -> Gets] /\ job' = job
  BY <1>1, JobBefore DEF JobsTyped
<1>6. DevicesTyped' /\ Steady(d)
  <2>1. CASE Verified(c, get[d].md5)
    <3>1. c.bytes \in Contents
      BY <1>3, <2>1 DEF Verified
    <3>2. /\ disk' = [disk EXCEPT ![d][i]["cached"] = c.bytes]
          /\ Sets(d, i, Completed(record[d][i], "cached", c.bytes))
      BY <2>1 DEF OnDownload
    <3> QED BY <1>1, <1>3, <1>4, <1>5, <3>1, <3>2, CachedSteady
  <2>2. CASE ~Verified(c, get[d].md5)
    <3>1. Sets(d, i, Failed(record[d][i], FALSE)) /\ UNCHANGED disk
      BY <2>2 DEF OnDownload
    <3>2. \E upload_ \in BOOLEAN : Sets(d, i, Failed(record[d][i], upload_))
      BY <3>1, Zenon
    <3> QED BY <1>1, <1>3, <1>4, <1>5, <3>1, <3>2, FailedSteady
  <2> QED BY <2>1, <2>2
<1>7. job[d].slot # None => call'[job[d].slot] = call[job[d].slot]
  BY <1>3, <1>4, JobBefore, HasCallOps
<1> QED BY <1>1, <1>4, <1>5, <1>6, <1>7, NoGetTyped, GetMoves DEF Takes

(* A request nobody waits for any more. *)
LEMMA AbandonedTyped ==
  ASSUME NEW c \in Requests, Asked(c)
  PROVE  Abandoned(c) \in Requests /\ Asked(Abandoned(c))
<1> DEFINE n == [c EXCEPT !.heard = FALSE]
<1>1. CASE c.at = "end"
  BY <1>1, IdleTyped DEF Abandoned
<1>2. CASE c.at # "end"
  <2>1. /\ n \in Requests /\ n.op = c.op /\ n.item = c.item /\ n.md5 = c.md5 /\ n.key = c.key
        /\ n.at = c.at /\ n.answer = c.answer
    BY DEF Requests
  <2>2. Abandoned(c) = n
    BY <1>2 DEF Abandoned
  <2> HIDE DEF n
  <2>3. Asked(n)
    BY <2>1 DEF Asked
  <2> QED BY <2>1, <2>2, <2>3
<1> QED BY <1>1, <1>2

LEMMA LoseAnswerTyped ==
  ASSUME Typed, NEW d \in Devices, LoseAnswer(d)
  PROVE  Typed' /\ Steady(d)
<1>1. UNCHANGED <<signing, rows, bucket, parts, disk, offered>>
  BY DEF LoseAnswer
<1>2. ASSUME job[d].slot # None, call' = [call EXCEPT ![job[d].slot] = Abandoned(@)],
             job' = [job EXCEPT ![d].at = "failed", ![d].slot = None,
                                ![d].direct = @ /\ job[d].at # "abort"],
             UNCHANGED <<record, get>>
      PROVE  Typed' /\ Steady(d)
  <2> DEFINE s == job[d].slot
             n == Abandoned(call[s])
             direct == job[d].direct /\ job[d].at # "abort"
             j == [job[d] EXCEPT !.at = "failed", !.slot = None, !.direct = direct]
  <2>1. /\ s \in Slots /\ s # get[d].slot /\ call[s] \in Requests /\ Asked(call[s])
        /\ InHand(d, job[d].item, job[d].path) /\ job[d].digest \in Contents
    BY <1>2, Waiting
  <2>2. n \in Requests /\ Asked(n)
    BY <2>1, AbandonedTyped
  <2>3. Sends(s, n)
    BY <1>2, <2>1, JobBefore DEF Sends, ServerTyped, CallsTyped
  <2> HIDE DEF n
  <2>4. /\ ServerTyped' /\ UNCHANGED item /\ \A t \in Slots : t # s => call'[t] = call[t]
    BY <1>1, <2>1, <2>2, <2>3, JobBefore, SendsServer, StoresStay DEF ServerTyped
  <2>5. job' = [job EXCEPT ![d] = j]
    BY <1>2, JobBefore
  <2>6. direct \in BOOLEAN
    OBVIOUS
  <2> HIDE DEF direct
  <2>7. /\ j \in Jobs /\ j.at = "failed" /\ j.todo = job[d].todo /\ j.slot = None
        /\ j.item = job[d].item /\ j.path = job[d].path /\ j.digest = job[d].digest
    BY <2>6, JobBefore DEF Jobs, Places
  <2> HIDE DEF j
  <2>8. DevicesTyped' /\ Steady(d)
    BY <1>1, <1>2, <2>1, <2>4, <2>5, JobBefore, StaysSteady
  <2>9. \A r \in j.todo : InHand(d, r.item, r.path)
    BY <2>7, JobBefore DEF JobTyped
  <2>10. get[d].slot # None => call'[get[d].slot] = call[get[d].slot]
    BY <2>1, <2>4, HasCallOps, JobBefore
  <2>11. UNCHANGED get /\ Takes(job[d], j)
    BY <1>2, <2>7 DEF Takes
  <2> QED BY <2>1, <2>4, <2>5, <2>7, <2>8, <2>9, <2>10, <2>11, JobMoves
<1>3. ASSUME get[d].slot # None, call' = [call EXCEPT ![get[d].slot] = Abandoned(@)],
             Sets(d, get[d].item, Failed(record[d][get[d].item], FALSE)),
             get' = [get EXCEPT ![d] = NoGet], UNCHANGED job
      PROVE  Typed' /\ Steady(d)
  <2> DEFINE s == get[d].slot
             i == get[d].item
             n == Abandoned(call[s])
  <2>1. /\ s \in Slots /\ job[d].slot # s /\ call[s] \in Requests /\ Asked(call[s])
        /\ i \in Items /\ i \notin OnOffer
    BY <1>3, Downloading
  <2>2. n \in Requests /\ Asked(n)
    BY <2>1, AbandonedTyped
  <2>3. Sends(s, n)
    BY <1>3, <2>1, JobBefore DEF Sends, ServerTyped, CallsTyped
  <2> HIDE DEF n
  <2>4. /\ ServerTyped' /\ UNCHANGED item /\ \A t \in Slots : t # s => call'[t] = call[t]
    BY <1>1, <2>1, <2>2, <2>3, JobBefore, SendsServer, StoresStay DEF ServerTyped
  <2>5. \E upload_ \in BOOLEAN : Sets(d, i, Failed(record[d][i], upload_))
    BY <1>3, Zenon
  <2>6. get \in [Devices -> Gets]
    BY JobBefore DEF JobsTyped
  <2>7. DevicesTyped' /\ Steady(d)
    BY <1>1, <1>3, <2>1, <2>4, <2>5, <2>6, FailedSteady
  <2>8. job[d].slot # None => call'[job[d].slot] = call[job[d].slot]
    BY <2>1, <2>4, JobBefore, HasCallOps
  <2> QED BY <1>3, <2>4, <2>7, <2>8, NoGetTyped, GetMoves DEF Takes
<1> QED BY <1>2, <1>3 DEF LoseAnswer

LEMMA KillTyped ==
  ASSUME Typed, NEW d \in Devices, Kill(d)
  PROVE  Typed' /\ Steady(d)
<1> DEFINE mine == {job[d].slot, get[d].slot}
<1>1. /\ call' = [s \in Slots |-> IF s \in mine THEN Abandoned(call[s]) ELSE call[s]]
      /\ job' = [job EXCEPT ![d] = NoJob] /\ get' = [get EXCEPT ![d] = NoGet]
      /\ UNCHANGED <<signing, rows, bucket, parts, disk, record, offered>>
  BY DEF Kill
<1>2. /\ CallsTyped /\ JobsTyped /\ job \in [Devices -> Jobs] /\ get \in [Devices -> Gets]
  BY JobBefore DEF ServerTyped, JobsTyped
<1>3. CallsTyped'
  <2>1. ASSUME NEW s \in Slots
        PROVE  /\ Abandoned(call[s]) \in Requests /\ Asked(Abandoned(call[s]))
               /\ call[s] \in Requests /\ Asked(call[s])
    BY <1>2, AbandonedTyped DEF CallsTyped
  <2> QED BY <1>1, <2>1 DEF CallsTyped
<1>4. ServerTyped' /\ UNCHANGED item
  BY <1>1, <1>3, RowsStay, StoresStay, JobBefore DEF ServerTyped, rows
<1>5. DevicesTyped' /\ Steady(d)
  BY <1>1, <1>2, <1>4, StaysSteady
<1>6. /\ job'[d] = NoJob /\ get'[d] = NoGet
      /\ job' \in [Devices -> Jobs] /\ get' \in [Devices -> Gets]
  BY <1>1, <1>2, NoJobTyped, NoGetTyped
<1>7. JobTyped(d)' /\ GetTyped(d)'
  BY <1>6, NoJobTyped, NoGetTyped DEF JobTyped, GetTyped
<1>8. Takes(job[d], job'[d]) /\ Takes(get[d], get'[d])
  BY <1>6, NoJobTyped, NoGetTyped DEF Takes
<1>9. JobsTyped'
  BY <1>2, <1>5, <1>6, <1>7, <1>8, OthersKept
<1> QED BY <1>4, <1>5, <1>9 DEF Typed

(***************************************************************************)
(* The types are invariant                                                 *)
(***************************************************************************)

LEMMA JobStepTyped ==
  ASSUME Typed, NEW d \in Devices, JobStep(d)
  PROVE  Typed' /\ Steady(d)
  BY EndUploadTyped, SkipCurrentTyped, AuthorizeTyped, OnAuthorizeTyped, OnSentTyped,
     OnRegisterTyped, AbortTyped, FailTyped
  DEF JobStep

LEMMA DeviceStepTyped ==
  ASSUME Typed, NEW d \in Devices, DeviceStep(d)
  PROVE  Typed' /\ Steady(d)
  BY JobStepTyped, StartUploadTyped, OnDownloadTyped, LoseAnswerTyped, KillTyped, ImportTyped,
     EditFileTyped, UploadMetadataTyped, PullTyped, RemoveItemTyped, RetryDueTyped,
     OpenAttachmentTyped
  DEF DeviceStep

LEMMA NextTypes == Typed /\ [Next]_vars => Typed'
<1> SUFFICES ASSUME Typed, [Next]_vars PROVE Typed'
  OBVIOUS
<1>1. CASE UNCHANGED vars
  BY <1>1 DEF vars, serverVars, deviceVars, rows, Typed, ServerTyped, RowsTyped, Placed,
     StoresTyped, CallsTyped, DevicesTyped, Noted, RecordOK, OnOffer, Unknown, JobsTyped,
     JobTyped, GetTyped, InHand, HasCall, SlotsApart
<1>2. ASSUME NEW s \in Slots, ServerStep(s) PROVE Typed'
  BY <1>2, ServerStepTyped, TurnKeepsDevices DEF Typed
<1>3. ASSUME NEW d \in Devices, DeviceStep(d) PROVE Typed'
  BY <1>3, DeviceStepTyped
<1> QED BY <1>1, <1>2, <1>3 DEF Next

LEMMA InitTypes == Init => Typed
<1> SUFFICES ASSUME Init PROVE Typed
  OBVIOUS
<1>1. Known \in Items /\ KnownBytes \in Contents /\ FileName(Known, KnownBytes) \in Names
  BY NamesTyped, DevicesAssumption
<1>2. RowsTyped
  <2>1. item \in [Items -> [live : BOOLEAN, md5 : Bytes, pulled : SUBSET Devices]]
    <3>1. \A i \in Items : (i = Known) \in BOOLEAN
      OBVIOUS
    <3> QED BY <1>1, <3>1 DEF Init, Bytes
  <2>2. /\ file \in [Items -> [md5 : Bytes, at : Names \cup {None}]]
        /\ \A i \in Items : Placed(file[i])
    BY <1>1 DEF Init, Placed, NoFile, Bytes
  <2>3. /\ upload \in [UploadKeys -> Uploads]
        /\ \A k \in UploadKeys : upload[k].state # "none" => upload[k].md5 \in Contents
    BY NoUploadTyped DEF Init
  <2> QED BY <2>1, <2>2, <2>3 DEF Init, RowsTyped
<1>3. StoresTyped
  BY <1>1 DEF Init, StoresTyped, Bytes
<1>4. CallsTyped
  BY IdleTyped DEF Init, CallsTyped
<1>5. DevicesTyped
  <2> DEFINE kept == [known |-> "synced", path |-> "cached", remote |-> KnownBytes,
                      verified |-> KnownBytes, cache |-> "downloaded", waits |-> FALSE]
             files(d, i) == [p \in Paths |->
                IF i = Known /\ d \in Keepers /\ p = "cached" THEN KnownBytes ELSE None]
  <2>1. kept \in Records
    BY <1>1 DEF Records, Bytes, Paths
  <2>2. Pulled(NoRecord, KnownBytes) \in Records
    BY <1>1, NoRecordOK, PulledOK DEF Bytes
  <2>3. ASSUME NEW d \in Devices, NEW i \in Items
        PROVE  /\ disk[d][i] = files(d, i) /\ files(d, i) \in [Paths -> Bytes]
               /\ record[d][i] \in Records /\ Noted(d, i)
               /\ i # Known => record[d][i] = NoRecord
    <3>1. disk[d][i] = files(d, i) /\ files(d, i) \in [Paths -> Bytes]
      BY <1>1 DEF Init, Bytes
    <3>2. CASE i = Known /\ d \in Keepers
      <4>1. record[d][i] = kept
        BY <3>2 DEF Init
      <4>2. files(d, i)["cached"] \in Contents
        BY <1>1, <3>2 DEF Paths
      <4> HIDE DEF files
      <4>3. RecordOK(files(d, i), kept)
        BY <4>2, DevicesAssumption DEF RecordOK, Paths
      <4> QED BY <2>1, <3>1, <3>2, <4>1, <4>3 DEF Noted, RecordOK
    <3>3. CASE i = Known /\ d \notin Keepers
      <4>1. record[d][i] = Pulled(NoRecord, KnownBytes)
        BY <3>3 DEF Init
      <4>2. \A fs : RecordOK(fs, Pulled(NoRecord, KnownBytes))
        BY <1>1, NoRecordOK, PulledOK DEF Bytes
      <4> QED BY <2>2, <3>1, <3>3, <4>1, <4>2 DEF Noted, RecordOK
    <3>4. CASE i # Known
      <4>1. record[d][i] = NoRecord
        BY <3>4 DEF Init
      <4> QED BY <3>1, <4>1, NoRecordOK DEF Noted, RecordOK
    <3> QED BY <3>2, <3>3, <3>4, <3>1
  <2>4. disk \in [Devices -> [Items -> [Paths -> Bytes]]]
    <3>1. disk = [d \in Devices |-> [i \in Items |-> files(d, i)]]
      BY DEF Init
    <3> HIDE DEF files
    <3> QED BY <2>3, <3>1
  <2>5. record \in [Devices -> [Items -> Records]]
    BY <2>3 DEF Init
  <2>6. \A i \in OnOffer : i \in Items /\ i # Known
    BY DevicesAssumption DEF Init, OnOffer
  <2>7. \A i \in OnOffer : Unknown(i)
    BY <2>3, <2>6 DEF Unknown, Init, NoRecord
  <2> QED BY <2>3, <2>4, <2>5, <2>7 DEF DevicesTyped, Init
<1>6. JobsTyped
  <2>1. \A d \in Devices : job[d] = NoJob /\ get[d] = NoGet
    BY DEF Init
  <2>2. job \in [Devices -> Jobs] /\ get \in [Devices -> Gets]
    BY NoJobTyped, NoGetTyped DEF Init
  <2>3. \A d \in Devices : JobTyped(d) /\ GetTyped(d)
    BY <2>1, NoJobTyped, NoGetTyped DEF JobTyped, GetTyped
  <2> QED BY <2>1, <2>2, <2>3, NoJobTyped, NoGetTyped DEF JobsTyped, SlotsApart
<1> QED BY <1>2, <1>3, <1>4, <1>5, <1>6 DEF Typed, ServerTyped

LEMMA TypedGivesTypeOK == Typed => TypeOK
<1> SUFFICES ASSUME Typed PROVE TypeOK
  OBVIOUS
<1>1. \A d \in Devices : job[d].at = "idle" <=> job[d] = NoJob
  BY JobBefore, NoJobTyped DEF JobTyped
<1>2. \A d \in Devices : job[d].slot # None => call[job[d].slot].heard
  BY Waiting
<1>3. \A d \in Devices : get[d].slot # None => call[get[d].slot].heard
  BY Downloading
<1>4. \A d \in Devices, i \in Items :
         /\ record[d][i].path \in Paths \cup {None}
         /\ record[d][i].cache = "downloaded" => record[d][i].path # None
  BY DEF Typed, DevicesTyped, Noted, RecordOK, Records
<1> QED BY <1>1, <1>2, <1>3, <1>4
        DEF TypeOK, Typed, ServerTyped, RowsTyped, StoresTyped, DevicesTyped, Bytes

(* Rows, requests and records have their types; every job and download     *)
(* waits for a request that is still its own, and a copy that is called    *)
(* downloaded exists.                                                      *)
THEOREM AttachmentTypes == Spec => []TypeOK
<1>1. Spec => []Typed
  BY InitTypes, NextTypes, PTL DEF Spec
<1> QED BY <1>1, TypedGivesTypeOK, PTL

(***************************************************************************)
(* With OneJob, what a device has pulled is what its record says           *)
(***************************************************************************)

(* What the work in hand keeps, when the records of its items keep their   *)
(* md5 and no request of its own wrote a row unnoticed.                    *)
LEMMA JobStillFollows ==
  ASSUME Typed, NEW e \in Devices, JobFollows(e), job'[e] = job[e], get'[e] = get[e],
         \A i \in Items : i \notin OnOffer /\ record[e][i].known # "new" =>
            \/ record'[e][i].known = "no"
            \/ record[e][i].known # "no" /\ record'[e][i].remote = record[e][i].remote,
         job[e].slot # None /\ Wrote(call'[job[e].slot])
            => e \notin item'[job[e].item].pulled
  PROVE  JobFollows(e)'
<1>1. \A r \in job[e].todo : r.item \in Items /\ r.item \notin OnOffer
                              /\ record[e][r.item].known # "new"
  BY JobBefore DEF JobTyped, InHand
<1>2. get[e].at # "idle" => /\ get[e].item \in Items /\ get[e].item \notin OnOffer
                            /\ record[e][get[e].item].known # "new"
  BY JobBefore DEF JobsTyped, GetTyped
<1>3. \A i, md5 : i \in Items /\ i \notin OnOffer /\ record[e][i].known # "new"
                     /\ AsRead(e, i, md5) => AsRead(e, i, md5)'
  BY DEF AsRead
<1>4. \A r \in job[e].todo : AsRead(e, r.item, r.remote)'
  BY <1>1, <1>3 DEF JobFollows
<1>5. get[e].at # "idle" => AsRead(e, get[e].item, get[e].md5)'
  BY <1>2, <1>3 DEF JobFollows, AsRead
<1>6. Wrote(call[job[e].slot])' <=> Wrote(call'[job[e].slot])
  BY DEF Wrote
<1> QED BY <1>4, <1>5, <1>6 DEF JobFollows, Wrote

(* The others, when only their pulls count and those do not change. *)
LEMMA OthersFollow ==
  ASSUME Typed, Following, NEW d \in Devices, Steady(d),
         \A e \in Devices, i \in Items : e # d /\ e \in item'[i].pulled =>
            /\ e \in item[i].pulled /\ item'[i].md5 = item[i].md5
            /\ item'[i].live => item[i].live
  PROVE  \A e \in Devices : e # d => JobFollows(e)' /\ \A i \in Items : Follows(e, i)'
<1> SUFFICES ASSUME NEW e \in Devices, e # d
             PROVE  JobFollows(e)' /\ \A i \in Items : Follows(e, i)'
  OBVIOUS
<1>1. job'[e] = job[e] /\ get'[e] = get[e] /\ record'[e] = record[e]
  BY DEF Steady
<1>2. \A i \in Items : Follows(e, i)'
  BY <1>1 DEF Following, Follows
<1>3. ASSUME job[e].slot # None, Wrote(call'[job[e].slot])
      PROVE  e \notin item'[job[e].item].pulled
  <2>1. call'[job[e].slot] = call[job[e].slot] /\ job[e].item \in Items
    BY <1>3, JobBefore, HasCallOps, Waiting DEF Steady, JobsTyped, SlotsApart, InHand
  <2>2. e \notin item[job[e].item].pulled
    BY <1>3, <2>1 DEF Following, JobFollows
  <2> QED BY <2>1, <2>2
<1>4. \A i \in Items :
        \/ record'[e][i].known = "no"
        \/ record[e][i].known # "no" /\ record'[e][i].remote = record[e][i].remote
  BY <1>1
<1>5. JobFollows(e)
  BY DEF Following
<1> QED BY <1>1, <1>2, <1>3, <1>4, <1>5, JobStillFollows

LEMMA ItemsKept ==
  ASSUME UNCHANGED item, NEW d
  PROVE  \A e \in Devices, i \in Items : e # d /\ e \in item'[i].pulled =>
            /\ e \in item[i].pulled /\ item'[i].md5 = item[i].md5
            /\ item'[i].live => item[i].live
  OBVIOUS

(* A record that is written, while the items are not. *)
LEMMA RecordFollows ==
  ASSUME Typed, Following, NEW d \in Devices, NEW i \in Items, NEW r, Sets(d, i, r),
         UNCHANGED item,
         r.known = "synced" => /\ record[d][i].known = "synced"
                               /\ r.remote = record[d][i].remote \/ d \notin item[i].pulled
  PROVE  /\ \A j \in Items : Follows(d, j)'
         /\ record'[d][i] = r /\ \A j \in Items : j # i => record'[d][j] = record[d][j]
<1>1. record'[d][i] = r /\ \A j \in Items : j # i => record'[d][j] = record[d][j]
  BY JobBefore DEF Sets, DevicesTyped
<1>2. \A j \in Items : Follows(d, j)
  BY DEF Following
<1> QED BY <1>1, <1>2 DEF Follows

LEMMA RecordsFollow ==
  ASSUME Following, NEW d \in Devices, UNCHANGED <<record, item>>
  PROVE  \A j \in Items : Follows(d, j)'
  BY DEF Following, Follows

LEMMA AllFollow ==
  ASSUME Typed, Following, NEW d \in Devices, Steady(d), UNCHANGED item,
         JobFollows(d)', \A j \in Items : Follows(d, j)'
  PROVE  Following'
  BY ItemsKept, OthersFollow DEF Following

(* A step of the users or of synchronization leaves the work in hand. *)

LEMMA StepsAside ==
  ASSUME Typed, Following, NEW d \in Devices, UNCHANGED <<job, get, item>>,
         job[d].slot # None => call'[job[d].slot] = call[job[d].slot],
         \A i \in Items : i \notin OnOffer /\ record[d][i].known # "new" =>
            \/ record'[d][i].known = "no"
            \/ record[d][i].known # "no" /\ record'[d][i].remote = record[d][i].remote
  PROVE  JobFollows(d)'
<1>1. JobFollows(d)
  BY DEF Following
<1>2. job[d].slot # None /\ Wrote(call'[job[d].slot]) => d \notin item'[job[d].item].pulled
  BY <1>1 DEF JobFollows
<1> QED BY <1>1, <1>2, JobStillFollows

LEMMA ImportFollows ==
  ASSUME Typed, Following, NEW d \in Devices, NEW i \in Items, Import(d, i)
  PROVE  Following'
<1> DEFINE r == [NoRecord EXCEPT !.known = "new", !.path = "imported", !.cache = "downloaded"]
<1>1. Sets(d, i, r) /\ UNCHANGED <<job, get>> /\ UNCHANGED serverVars /\ i \in OnOffer
  BY DEF Import, OnOffer
<1>2. UNCHANGED <<item, call>> /\ Steady(d)
  BY <1>1, ImportTyped DEF serverVars, rows
<1>3. r.known = "new"
  BY DEF NoRecord
<1> HIDE DEF r
<1>4. /\ \A j \in Items : Follows(d, j)'
      /\ \A j \in Items : j # i => record'[d][j] = record[d][j]
  BY <1>1, <1>2, <1>3, RecordFollows
<1>5. JobFollows(d)'
  <2>1. \A j \in Items : j \notin OnOffer =>
           \/ record'[d][j].known = "no"
           \/ record[d][j].known # "no" /\ record'[d][j].remote = record[d][j].remote
    BY <1>1, <1>4
  <2> QED BY <1>1, <1>2, <2>1, StepsAside
<1> QED BY <1>2, <1>4, <1>5, AllFollow

LEMMA EditFileFollows ==
  ASSUME Typed, Following, NEW d \in Devices, NEW i \in Items, EditFile(d, i)
  PROVE  Following'
<1>1. UNCHANGED <<record, job, get>> /\ UNCHANGED serverVars
  BY DEF EditFile
<1>2. UNCHANGED <<item, call>> /\ Steady(d)
  BY <1>1, EditFileTyped DEF serverVars, rows
<1>3. JobFollows(d)'
  BY <1>1, <1>2, StepsAside
<1> QED BY <1>1, <1>2, <1>3, RecordsFollow, AllFollow

LEMMA RemoveItemFollows ==
  ASSUME Typed, Following, NEW d \in Devices, NEW i \in Items, RemoveItem(d, i)
  PROVE  Following'
<1>1. /\ Sets(d, i, NoRecord) /\ UNCHANGED <<job, get, item>> /\ Steady(d)
      /\ FreeSlots # {} /\ Sends(FreeSlot, Call("delete", i, FALSE))
  BY RemoveItemTyped DEF RemoveItem, rows
<1>2. NoRecord.known = "no"
  BY DEF NoRecord
<1>3. /\ \A j \in Items : Follows(d, j)'
      /\ record'[d][i] = NoRecord
      /\ \A j \in Items : j # i => record'[d][j] = record[d][j]
  BY <1>1, <1>2, RecordFollows
<1>4. job[d].slot # None => call'[job[d].slot] = call[job[d].slot]
  BY <1>1, FreeSlotIsFree, JobBefore, FreeSlotTaken DEF Sends, ServerTyped, CallsTyped
<1>5. JobFollows(d)'
  BY <1>1, <1>2, <1>3, <1>4, StepsAside
<1> QED BY <1>1, <1>3, <1>5, AllFollow

LEMMA RetryDueFollows ==
  ASSUME Typed, Following, NEW d \in Devices, NEW i \in Items, RetryDue(d, i)
  PROVE  Following'
<1> DEFINE r == [record[d][i] EXCEPT !.waits = FALSE]
<1>1. Sets(d, i, r) /\ UNCHANGED <<job, get>> /\ UNCHANGED serverVars
  BY DEF RetryDue
<1>2. UNCHANGED <<item, call>> /\ Steady(d)
  BY <1>1, RetryDueTyped DEF serverVars, rows
<1>3. r.known = record[d][i].known /\ r.remote = record[d][i].remote
  BY JobBefore, RecordTyped DEF Records
<1> HIDE DEF r
<1>4. /\ \A j \in Items : Follows(d, j)'
      /\ record'[d][i] = r /\ \A j \in Items : j # i => record'[d][j] = record[d][j]
  BY <1>1, <1>2, <1>3, RecordFollows
<1>5. JobFollows(d)'
  BY <1>1, <1>2, <1>3, <1>4, StepsAside
<1> QED BY <1>2, <1>4, <1>5, AllFollow

(* The two steps that write the item's row for the device. *)

LEMMA UploadMetadataFollows ==
  ASSUME Typed, Following, NEW d \in Devices, NEW i \in Items, UploadMetadata(d, i)
  PROVE  Following'
<1> DEFINE r == [record[d][i] EXCEPT !.known = "synced"]
<1>1. /\ record[d][i].known = "new" /\ Sets(d, i, r) /\ UNCHANGED <<job, get, call>>
      /\ item' = [item EXCEPT ![i] = [live |-> TRUE, md5 |-> None, pulled |-> {d}]]
      /\ Steady(d)
  BY UploadMetadataTyped DEF UploadMetadata
<1>2. r.known = "synced" /\ r.remote = None
  BY <1>1, JobBefore, RecordTyped DEF Records, RecordOK
<1> HIDE DEF r
<1>3. record'[d][i] = r /\ \A j \in Items : j # i => record'[d][j] = record[d][j]
  BY <1>1, JobBefore DEF Sets, DevicesTyped
<1>4. /\ item'[i].md5 = None /\ item'[i].pulled = {d}
      /\ \A j \in Items : j # i => item'[j] = item[j]
  BY <1>1, JobBefore DEF ServerTyped, RowsTyped
<1>5. \A j \in Items : Follows(d, j)'
  <2>1. Follows(d, i)'
    BY <1>2, <1>3, <1>4 DEF Follows
  <2>2. ASSUME NEW j \in Items, j # i PROVE Follows(d, j)'
    BY <1>3, <1>4, <2>2 DEF Following, Follows
  <2> QED BY <2>1, <2>2
<1>6. JobFollows(d)'
  <2>1. JobFollows(d)
    BY DEF Following
  <2>2. \A j \in Items : record[d][j].known # "new" =>
           \/ record'[d][j].known = "no"
           \/ record[d][j].known # "no" /\ record'[d][j].remote = record[d][j].remote
    BY <1>1, <1>3
  <2>3. job[d].slot # None /\ Wrote(call'[job[d].slot]) => d \notin item'[job[d].item].pulled
    <3>1. job[d].slot # None => job[d].item # i /\ job[d].item \in Items
      BY <1>1, Waiting DEF InHand
    <3> QED BY <1>1, <1>4, <2>1, <3>1 DEF JobFollows
  <2> QED BY <1>1, <2>1, <2>2, <2>3, JobStillFollows
<1>7. \A e \in Devices, j \in Items : e # d /\ e \in item'[j].pulled =>
         /\ e \in item[j].pulled /\ item'[j].md5 = item[j].md5
         /\ item'[j].live => item[j].live
  BY <1>4
<1> QED BY <1>1, <1>5, <1>6, <1>7, OthersFollow DEF Following

LEMMA PullFollows ==
  ASSUME OneJob, Typed, Following, NEW d \in Devices, NEW i \in Items, Pull(d, i)
  PROVE  Following'
<1> DEFINE r == IF item[i].live THEN Pulled(record[d][i], item[i].md5) ELSE NoRecord
<1>1. /\ Quiet(d) /\ Sets(d, i, r) /\ UNCHANGED <<job, get, call>>
      /\ item' = [item EXCEPT ![i].pulled = @ \cup {d}]
      /\ Steady(d)
  BY PullTyped DEF Pull
<1>2. r.known = "synced" => item[i].live /\ r.remote = item[i].md5
  <2>1. item[i].md5 \in Bytes /\ record[d][i] \in Records /\ RecordOK(disk[d][i], record[d][i])
    BY JobBefore, RecordTyped DEF ServerTyped, RowsTyped
  <2>2. CASE item[i].live
    BY <2>1, <2>2, PulledOK
  <2>3. CASE ~item[i].live
    BY <2>3 DEF NoRecord
  <2> QED BY <2>2, <2>3
<1> HIDE DEF r
<1>3. record'[d][i] = r /\ \A j \in Items : j # i => record'[d][j] = record[d][j]
  BY <1>1, JobBefore DEF Sets, DevicesTyped
<1>4. /\ item'[i].md5 = item[i].md5 /\ item'[i].pulled = item[i].pulled \cup {d}
      /\ item'[i].live = item[i].live
      /\ \A j \in Items : j # i => item'[j] = item[j]
  BY <1>1, JobBefore DEF ServerTyped, RowsTyped
<1>5. \A j \in Items : Follows(d, j)'
  <2>1. Follows(d, i)'
    BY <1>2, <1>3, <1>4 DEF Follows
  <2>2. ASSUME NEW j \in Items, j # i PROVE Follows(d, j)'
    BY <1>3, <1>4, <2>2 DEF Following, Follows
  <2> QED BY <2>1, <2>2
<1>6. JobFollows(d)'
  <2>1. job'[d] = NoJob /\ get'[d].at = "idle"
    BY <1>1, JobBefore DEF Quiet, JobTyped
  <2> QED BY <2>1, NoJobTyped DEF JobFollows
<1>7. \A e \in Devices, j \in Items : e # d /\ e \in item'[j].pulled =>
         /\ e \in item[j].pulled /\ item'[j].md5 = item[j].md5
         /\ item'[j].live => item[j].live
  BY <1>4
<1> QED BY <1>1, <1>5, <1>6, <1>7, OthersFollow DEF Following

(* The steps of the device's work. *)

LEMMA StartUploadFollows ==
  ASSUME OneJob, Typed, Following, NEW d \in Devices, StartUpload(d)
  PROVE  Following'
<1> DEFINE todo == {[item |-> i, path |-> record[d][i].path,
                     remote |-> record[d][i].remote] : i \in Pending(d)}
           j == [NoJob EXCEPT !.at = "next", !.todo = todo]
<1>1. /\ Quiet(d) /\ job' = [job EXCEPT ![d] = j]
      /\ UNCHANGED serverVars /\ UNCHANGED <<record, get>>
  BY DEF StartUpload
<1>2. UNCHANGED item /\ Steady(d)
  BY <1>1, StartUploadTyped DEF serverVars, rows
<1>3. /\ \A r \in todo : r.remote = record[d][r.item].remote
      /\ \A r, q \in todo : r.item = q.item => r = q
  OBVIOUS
<1>4. j.at = "next" /\ j.todo = todo /\ j.slot = None
  BY DEF NoJob
<1> HIDE DEF todo, j
<1>5. job'[d] = j /\ get'[d].at = "idle"
  BY <1>1, JobBefore DEF Quiet
<1>6. JobFollows(d)'
  BY <1>1, <1>3, <1>4, <1>5 DEF JobFollows, AsRead
<1> QED BY <1>1, <1>2, <1>6, RecordsFollow, AllFollow

LEMMA EndUploadFollows ==
  ASSUME Typed, Following, NEW d \in Devices, EndUpload(d)
  PROVE  Following'
<1>1. /\ job[d].at = "next" /\ job' = [job EXCEPT ![d] = NoJob]
      /\ UNCHANGED serverVars /\ UNCHANGED <<record, get>>
  BY DEF EndUpload
<1>2. UNCHANGED item /\ Steady(d)
  BY <1>1, EndUploadTyped DEF serverVars, rows
<1>3. job'[d] = NoJob /\ get'[d].at = "idle"
  BY <1>1, JobBefore DEF Following, JobFollows
<1>4. JobFollows(d)'
  BY <1>3, NoJobTyped DEF JobFollows
<1> QED BY <1>1, <1>2, <1>4, RecordsFollow, AllFollow

(* The record of an item of the job is written; those to come keep theirs. *)
LEMMA TodoFollows ==
  ASSUME Typed, NEW d \in Devices, JobFollows(d), job[d].at # "idle", NEW i \in Items,
         \A j \in Items : j # i => record'[d][j] = record[d][j],
         NEW n, job'[d] = n, UNCHANGED get, n.todo \subseteq job[d].todo,
         \A r \in n.todo : r.item # i,
         n.at \notin {"idle", "next"} => \A r \in n.todo : r.item # n.item,
         n.slot # None => ~Wrote(call'[n.slot])
  PROVE  JobFollows(d)'
<1>1. get'[d].at = "idle"
  BY DEF JobFollows
<1>2. \A r \in n.todo : r.item \in Items
  BY JobBefore DEF JobTyped, InHand
<1>3. \A r \in n.todo : AsRead(d, r.item, r.remote)'
  BY <1>2 DEF JobFollows, AsRead
<1> QED BY <1>1, <1>3 DEF JobFollows, Wrote

LEMMA SkipCurrentFollows ==
  ASSUME Typed, Following, NEW d \in Devices, SkipCurrent(d)
  PROVE  Following'
<1>1. PICK r \in job[d].todo :
         /\ disk[d][r.item][r.path] = r.remote
         /\ job' = [job EXCEPT ![d].todo = @ \ {r}]
         /\ Sets(d, r.item, Completed(record[d][r.item], r.path, disk[d][r.item][r.path]))
  BY DEF SkipCurrent
<1> DEFINE i == r.item
           new == Completed(record[d][i], r.path, disk[d][i][r.path])
           n == [job[d] EXCEPT !.todo = @ \ {r}]
<1>2. /\ UNCHANGED serverVars /\ UNCHANGED get /\ job[d].at = "next"
  BY DEF SkipCurrent
<1>3. UNCHANGED item /\ Steady(d)
  BY <1>2, SkipCurrentTyped DEF serverVars, rows
<1>4. /\ job'[d] = n /\ n.todo = job[d].todo \ {r} /\ n.at = "next" /\ n.slot = None
  BY <1>1, <1>2, JobBefore DEF Jobs, JobTyped
<1>5. /\ JobFollows(d) /\ InHand(d, i, r.path) /\ i \in Items /\ r.path \in Paths
      /\ AsRead(d, i, r.remote) /\ \A q \in n.todo : q.item # i
  BY <1>4, JobBefore DEF Following, JobFollows, JobTyped, InHand
<1>6. new.known = "synced" => record[d][i].known = "synced" /\ new.remote = record[d][i].remote
  <2>1. /\ new.known = record[d][i].known
        /\ record[d][i].known # "no" => new.remote = disk[d][i][r.path]
    BY <1>5, JobBefore, RecordTyped, CompletedOK DEF InHand
  <2> HIDE DEF new
  <2> QED BY <1>1, <1>5, <2>1 DEF AsRead
<1>7. Sets(d, i, new)
  BY <1>1
<1> HIDE DEF new, n, i
<1>8. /\ \A j \in Items : Follows(d, j)'
      /\ \A j \in Items : j # i => record'[d][j] = record[d][j]
  BY <1>3, <1>5, <1>6, <1>7, RecordFollows
<1>9. JobFollows(d)'
  BY <1>2, <1>4, <1>5, <1>8, TodoFollows
<1> QED BY <1>3, <1>8, <1>9, AllFollow

LEMMA AuthorizeFollows ==
  ASSUME Typed, Following, NEW d \in Devices, Authorize(d)
  PROVE  Following'
<1>1. PICK r \in job[d].todo :
         /\ job' = [job EXCEPT ![d] =
                  [NoJob EXCEPT !.at = "authorize", !.todo = job[d].todo \ {r},
                     !.item = r.item, !.path = r.path, !.digest = disk[d][r.item][r.path],
                     !.match = r.remote, !.direct = TRUE, !.slot = FreeSlot]]
         /\ Sends(FreeSlot, Authorization(r.item, disk[d][r.item][r.path], r.remote, TRUE))
  BY DEF Authorize
<1> DEFINE n == [NoJob EXCEPT !.at = "authorize", !.todo = job[d].todo \ {r},
                   !.item = r.item, !.path = r.path, !.digest = disk[d][r.item][r.path],
                   !.match = r.remote, !.direct = TRUE, !.slot = FreeSlot]
           c == Authorization(r.item, disk[d][r.item][r.path], r.remote, TRUE)
<1>2. /\ job[d].at = "next" /\ FreeSlots # {} /\ UNCHANGED <<record, get, item>> /\ Steady(d)
  BY AuthorizeTyped DEF Authorize, rows
<1>3. /\ job'[d] = n /\ n.todo = job[d].todo \ {r} /\ n.at = "authorize" /\ n.item = r.item
      /\ n.slot = FreeSlot
  BY <1>1, JobBefore DEF NoJob
<1>4. c.answer = "none" /\ c.op = "authorize"
  BY DEF Authorization, Call, Idle
<1>5. call'[FreeSlot] = c /\ ~Wrote(c)
  BY <1>1, <1>2, <1>4, FreeSlotIsFree, JobBefore DEF Sends, ServerTyped, CallsTyped, Wrote
<1> HIDE DEF n, c
<1>6. /\ JobFollows(d) /\ r.item \in Items /\ \A q \in n.todo : q.item # r.item
  BY <1>3, JobBefore DEF Following, JobFollows, JobTyped, InHand
<1>7. JobFollows(d)'
  BY <1>2, <1>3, <1>5, <1>6, TodoFollows
<1> QED BY <1>2, <1>7, RecordsFollow, AllFollow

(* The row was written by this upload: the device has not pulled it since. *)
LEMMA CompletesFollows ==
  ASSUME Typed, Following, NEW d \in Devices, Steady(d), job[d].slot # None, Completes(d),
         Wrote(call[job[d].slot]), UNCHANGED <<item, get>>
  PROVE  Following'
<1> DEFINE i == job[d].item
           new == Completed(record[d][i], job[d].path, job[d].digest)
           n == Next_(job[d])
<1>1. /\ Sets(d, i, new) /\ job' = [job EXCEPT ![d] = n]
  BY DEF Completes
<1>2. /\ InHand(d, i, job[d].path) /\ i \in Items /\ job[d].path \in Paths
      /\ job[d].digest \in Contents /\ job[d].at \notin {"idle", "next"}
  BY Waiting DEF InHand
<1>3. JobFollows(d) /\ d \notin item[i].pulled
  BY DEF Following, JobFollows
<1>4. new.known = record[d][i].known
  BY <1>2, JobBefore, RecordTyped, CompletedOK DEF InHand
<1>5. job'[d] = n /\ n.todo = job[d].todo /\ n.at = "next" /\ n.slot = None
  BY <1>1, JobBefore, NextTyped
<1> HIDE DEF new, n
<1>6. /\ \A j \in Items : Follows(d, j)'
      /\ \A j \in Items : j # i => record'[d][j] = record[d][j]
  BY <1>1, <1>2, <1>3, <1>4, RecordFollows
<1>7. \A r \in n.todo : r.item # i
  BY <1>2, <1>3, <1>5 DEF JobFollows
<1>8. JobFollows(d)'
  BY <1>2, <1>3, <1>5, <1>6, <1>7, TodoFollows
<1> QED BY <1>6, <1>8, AllFollow

(* The job goes on, no record is written and its request wrote no row yet. *)
LEMMA GoesOnFollows ==
  ASSUME Typed, Following, NEW d \in Devices, Steady(d), UNCHANGED <<item, get, record>>,
         job[d].at \notin {"idle", "next"}, NEW n, job'[d] = n,
         n.todo = job[d].todo, n.item = job[d].item, n.at # "idle",
         n.slot # None => ~Wrote(call'[n.slot])
  PROVE  Following'
<1>1. JobFollows(d) /\ job[d].item \in Items
  BY JobBefore DEF Following, JobTyped, InHand
<1>2. \A r \in n.todo : r.item # job[d].item
  BY <1>1 DEF JobFollows
<1>3. JobFollows(d)'
  BY <1>1, <1>2, TodoFollows
<1> QED BY <1>3, RecordsFollow, AllFollow

LEMMA FailsFollows ==
  ASSUME Typed, Following, NEW d \in Devices, Steady(d), job[d].slot # None, Fails(d),
         UNCHANGED <<item, get>>
  PROVE  Following'
<1> DEFINE n == [job[d] EXCEPT !.at = "failed", !.slot = None]
<1>1. /\ job'[d] = n /\ UNCHANGED record
  BY JobBefore DEF Fails
<1>2. n.todo = job[d].todo /\ n.item = job[d].item /\ n.at = "failed" /\ n.slot = None
  BY JobBefore DEF Jobs
<1> HIDE DEF n
<1>3. job[d].at \notin {"idle", "next"}
  BY Waiting
<1> QED BY <1>1, <1>2, <1>3, GoesOnFollows

LEMMA OnAuthorizeFollows ==
  ASSUME Typed, Following, NEW d \in Devices, OnAuthorize(d)
  PROVE  Following'
<1> DEFINE s == job[d].slot
           plain == Authorization(job[d].item, job[d].digest, job[d].match, FALSE)
<1>1. /\ s # None /\ job[d].at = "authorize" /\ call[s].op = "authorize" /\ s \in Slots
      /\ UNCHANGED <<item, get>> /\ Steady(d)
  BY AtSlot, Waiting, OnAuthorizeTyped DEF OnAuthorize, rows
<1>2. CASE AnswerTo(d) = "exists" /\ Completes(d)
  <2>1. Wrote(call[s])
    BY <1>1, <1>2 DEF Wrote, AnswerTo
  <2> QED BY <1>1, <1>2, <2>1, CompletesFollows
<1>3. CASE Fails(d)
  BY <1>1, <1>3, FailsFollows
<1>4. CASE SendFile(d)
  <2> DEFINE c == call[s]
             next == Call(IF c.direct THEN "complete" ELSE "bytes", job[d].item, TRUE)
             m == [next EXCEPT !.key = c.key,
                     !.bytes = IF c.direct THEN None ELSE disk[d][job[d].item][job[d].path]]
             n == [job[d] EXCEPT !.at = "sent", !.key = c.key, !.direct = c.direct]
  <2>1. /\ call' = [call EXCEPT ![s] = m] /\ UNCHANGED record
        /\ job' = [job EXCEPT ![d].at = "sent", ![d].key = c.key, ![d].direct = c.direct]
    BY <1>4 DEF SendFile
  <2>2. job'[d] = n
    BY <2>1, JobBefore
  <2>3. /\ n.todo = job[d].todo /\ n.item = job[d].item /\ n.at = "sent" /\ n.slot = s
    BY JobBefore DEF Jobs
  <2>4. m.op \in {"complete", "bytes"}
    BY DEF Call, Idle
  <2> HIDE DEF next, m, n
  <2>5. ~Wrote(call'[n.slot])
    BY <1>1, <2>1, <2>3, <2>4, JobBefore DEF Wrote, ServerTyped, CallsTyped
  <2> QED BY <1>1, <2>1, <2>2, <2>3, <2>5, GoesOnFollows
<1>5. CASE Sends(s, plain) /\ UNCHANGED <<job, record>>
  <2>1. plain.answer = "none" /\ plain.op = "authorize"
    BY DEF Authorization, Call, Idle
  <2> HIDE DEF plain
  <2>2. ~Wrote(call'[s])
    BY <1>1, <1>5, <2>1, JobBefore DEF Sends, Wrote, ServerTyped, CallsTyped
  <2>3. job'[d] = job[d]
    BY <1>5
  <2> QED BY <1>1, <1>5, <2>2, <2>3, GoesOnFollows
<1>6. \/ AnswerTo(d) = "exists" /\ Completes(d)
      \/ SendFile(d)
      \/ Sends(s, plain) /\ UNCHANGED <<job, record>>
      \/ Fails(d)
  BY DEF OnAuthorize
<1> QED BY <1>2, <1>3, <1>4, <1>5, <1>6

LEMMA OnSentFollows ==
  ASSUME Typed, Following, NEW d \in Devices, OnSent(d)
  PROVE  Following'
<1> DEFINE s == job[d].slot
           m == [Call("register", job[d].item, TRUE) EXCEPT !.key = job[d].key,
                                                            !.match = job[d].match]
           n == [job[d] EXCEPT !.at = "register"]
<1>1. /\ s # None /\ job[d].at = "sent" /\ s \in Slots
      /\ UNCHANGED <<item, get>> /\ Steady(d)
  BY AtSlot, Waiting, OnSentTyped DEF OnSent, rows
<1>2. CASE Fails(d)
  BY <1>1, <1>2, FailsFollows
<1>3. CASE Sends(s, m) /\ job' = [job EXCEPT ![d].at = "register"] /\ UNCHANGED record
  <2>1. m.answer = "none" /\ m.op = "register"
    BY DEF Call, Idle
  <2>2. job'[d] = n
    BY <1>3, JobBefore
  <2>3. /\ n.todo = job[d].todo /\ n.item = job[d].item /\ n.at = "register" /\ n.slot = s
    BY JobBefore DEF Jobs
  <2>4. Sends(s, m) /\ UNCHANGED record
    BY <1>3
  <2> HIDE DEF m, n
  <2>5. ~Wrote(call'[n.slot])
    BY <1>1, <2>1, <2>3, <2>4, JobBefore DEF Sends, Wrote, ServerTyped, CallsTyped
  <2> QED BY <1>1, <2>2, <2>3, <2>4, <2>5, GoesOnFollows
<1> QED BY <1>2, <1>3 DEF OnSent

LEMMA OnRegisterFollows ==
  ASSUME Typed, Following, NEW d \in Devices, OnRegister(d)
  PROVE  Following'
<1>1. /\ job[d].slot # None /\ UNCHANGED <<item, get>> /\ Steady(d)
  BY AtSlot, OnRegisterTyped DEF OnRegister, rows
<1>2. CASE AnswerTo(d) = "ok" /\ Completes(d)
  <2>1. call[job[d].slot].op = "register"
    BY JobBefore DEF OnRegister, JobTyped, HasCall
  <2>2. Wrote(call[job[d].slot])
    BY <1>2, <2>1 DEF Wrote, AnswerTo
  <2> QED BY <1>1, <1>2, <2>2, CompletesFollows
<1>3. CASE Fails(d)
  BY <1>1, <1>3, FailsFollows
<1> QED BY <1>2, <1>3 DEF OnRegister

LEMMA AbortFollows ==
  ASSUME Typed, Following, NEW d \in Devices, Abort(d)
  PROVE  Following'
<1> DEFINE m == [Call("abort", job[d].item, TRUE) EXCEPT !.key = job[d].key]
           n == [job[d] EXCEPT !.at = "abort", !.slot = FreeSlot]
<1>1. /\ job[d].at = "failed" /\ FreeSlots # {} /\ Sends(FreeSlot, m)
      /\ job' = [job EXCEPT ![d].at = "abort", ![d].slot = FreeSlot]
      /\ UNCHANGED <<item, get, record>> /\ Steady(d)
  BY AbortTyped DEF Abort, rows
<1>2. m.op = "abort"
  BY DEF Call, Idle
<1>3. job'[d] = n
  BY <1>1, JobBefore
<1>4. n.todo = job[d].todo /\ n.item = job[d].item /\ n.at = "abort" /\ n.slot = FreeSlot
  BY JobBefore DEF Jobs
<1> HIDE DEF m, n
<1>5. ~Wrote(call'[n.slot])
  BY <1>1, <1>2, <1>4, FreeSlotIsFree, JobBefore DEF Sends, Wrote, ServerTyped, CallsTyped
<1> QED BY <1>1, <1>3, <1>4, <1>5, GoesOnFollows

LEMMA FailFollows ==
  ASSUME Typed, Following, NEW d \in Devices, Fail(d)
  PROVE  Following'
<1> DEFINE i == job[d].item
           new == Failed(record[d][i], TRUE)
           n == Next_(job[d])
<1>1. /\ job[d].at \in {"failed", "abort"} /\ Sets(d, i, new)
      /\ job' = [job EXCEPT ![d] = n] /\ UNCHANGED <<item, get>> /\ Steady(d)
  BY FailTyped DEF Fail, rows
<1>2. i \in Items /\ JobFollows(d)
  BY <1>1, JobBefore DEF JobTyped, InHand, Following
<1>3. new.known = record[d][i].known /\ new.remote = record[d][i].remote
  BY <1>2, JobBefore, RecordTyped DEF Failed, Records
<1>4. job'[d] = n /\ n.todo = job[d].todo /\ n.at = "next" /\ n.slot = None
  BY <1>1, JobBefore, NextTyped
<1> HIDE DEF new, n
<1>5. /\ \A j \in Items : Follows(d, j)'
      /\ \A j \in Items : j # i => record'[d][j] = record[d][j]
  BY <1>1, <1>2, <1>3, RecordFollows
<1>6. \A r \in n.todo : r.item # i
  BY <1>1, <1>2, <1>4 DEF JobFollows
<1>7. JobFollows(d)'
  BY <1>1, <1>2, <1>4, <1>5, <1>6, TodoFollows
<1> QED BY <1>1, <1>5, <1>7, AllFollow

(* Downloads, and what goes wrong. *)

LEMMA OpenAttachmentFollows ==
  ASSUME OneJob, Typed, Following, NEW d \in Devices, NEW i \in Items, OpenAttachment(d, i)
  PROVE  Following'
<1> DEFINE r == [record[d][i] EXCEPT !.cache = IF record[d][i].path = None THEN "downloading"
                                                                          ELSE @]
           g == [at |-> "asked", item |-> i, md5 |-> record[d][i].remote, slot |-> FreeSlot]
<1>1. /\ Quiet(d) /\ Sets(d, i, r) /\ get' = [get EXCEPT ![d] = g]
      /\ UNCHANGED <<item, job>> /\ Steady(d)
  BY OpenAttachmentTyped DEF OpenAttachment, rows
<1>2. r.known = record[d][i].known /\ r.remote = record[d][i].remote
  BY JobBefore, RecordTyped DEF Records
<1>3. get'[d] = g /\ g.item = i /\ g.md5 = record[d][i].remote
  BY <1>1, JobBefore DEF JobsTyped
<1>4. job'[d] = NoJob
  BY <1>1, JobBefore DEF Quiet, JobTyped
<1> HIDE DEF r, g
<1>5. /\ \A j \in Items : Follows(d, j)'
      /\ record'[d][i] = r
  BY <1>1, <1>2, RecordFollows
<1>6. JobFollows(d)'
  BY <1>2, <1>3, <1>4, <1>5, NoJobTyped DEF JobFollows, AsRead
<1> QED BY <1>1, <1>5, <1>6, AllFollow

(* The download ends: nothing is in hand. *)
LEMMA DownloadEnds ==
  ASSUME Typed, Following, NEW d \in Devices, get[d].at # "idle", UNCHANGED job,
         get' = [get EXCEPT ![d] = NoGet]
  PROVE  JobFollows(d)'
<1>1. job'[d] = NoJob
  BY JobBefore DEF Following, JobFollows, JobTyped
<1>2. get'[d] = NoGet
  BY JobBefore DEF JobsTyped
<1> QED BY <1>1, <1>2, NoJobTyped, NoGetTyped DEF JobFollows

LEMMA FailedFollows ==
  ASSUME Typed, Following, NEW d \in Devices, NEW i \in Items, UNCHANGED item,
         Sets(d, i, Failed(record[d][i], FALSE))
  PROVE  \A j \in Items : Follows(d, j)'
<1> DEFINE new == Failed(record[d][i], FALSE)
<1>1. new.known = record[d][i].known /\ new.remote = record[d][i].remote
  BY JobBefore, RecordTyped DEF Failed, Records
<1>2. Sets(d, i, new)
  OBVIOUS
<1> HIDE DEF new
<1> QED BY <1>1, <1>2, RecordFollows

LEMMA OnDownloadFollows ==
  ASSUME Typed, Following, NEW d \in Devices, OnDownload(d)
  PROVE  Following'
<1> DEFINE i == get[d].item
           c == call[get[d].slot]
           new == Completed(record[d][i], "cached", c.bytes)
<1>1. /\ get[d].at = "asked" /\ get' = [get EXCEPT ![d] = NoGet]
      /\ UNCHANGED <<item, job>> /\ Steady(d)
  BY OnDownloadTyped DEF OnDownload, rows
<1>2. /\ i \in Items /\ AsRead(d, i, get[d].md5)
  BY <1>1, JobBefore DEF JobsTyped, GetTyped, Following, JobFollows
<1>3. CASE Verified(c, get[d].md5)
  <2>1. Sets(d, i, new)
    BY <1>3 DEF OnDownload
  <2>2. new.known = "synced" => /\ record[d][i].known = "synced"
                                /\ new.remote = record[d][i].remote
    BY <1>2, <1>3, JobBefore, RecordTyped DEF Verified, AsRead, Completed, Records
  <2> HIDE DEF new
  <2>3. \A j \in Items : Follows(d, j)'
    BY <1>1, <1>2, <2>1, <2>2, RecordFollows
  <2> QED BY <1>1, <2>3, DownloadEnds, AllFollow
<1>4. CASE ~Verified(c, get[d].md5)
  <2>1. Sets(d, i, Failed(record[d][i], FALSE))
    BY <1>4 DEF OnDownload
  <2> QED BY <1>1, <1>2, <2>1, FailedFollows, DownloadEnds, AllFollow
<1> QED BY <1>3, <1>4

LEMMA LoseAnswerFollows ==
  ASSUME Typed, Following, NEW d \in Devices, LoseAnswer(d)
  PROVE  Following'
<1>1. UNCHANGED item /\ Steady(d)
  BY LoseAnswerTyped DEF LoseAnswer, rows
<1>2. ASSUME job[d].slot # None,
             job' = [job EXCEPT ![d].at = "failed", ![d].slot = None,
                                ![d].direct = @ /\ job[d].at # "abort"],
             UNCHANGED <<record, get>>
      PROVE  Following'
  <2> DEFINE n == [job[d] EXCEPT !.at = "failed", !.slot = None,
                                 !.direct = @ /\ job[d].at # "abort"]
  <2>1. job'[d] = n
    BY <1>2, JobBefore
  <2>2. n.todo = job[d].todo /\ n.item = job[d].item /\ n.at = "failed" /\ n.slot = None
    BY JobBefore DEF Jobs
  <2> HIDE DEF n
  <2>3. job[d].at \notin {"idle", "next"}
    BY <1>2, Waiting
  <2> QED BY <1>1, <1>2, <2>1, <2>2, <2>3, GoesOnFollows
<1>3. ASSUME get[d].slot # None, Sets(d, get[d].item, Failed(record[d][get[d].item], FALSE)),
             get' = [get EXCEPT ![d] = NoGet], UNCHANGED job
      PROVE  Following'
  <2>1. get[d].item \in Items /\ get[d].at # "idle"
    BY <1>3, Downloading, JobBefore DEF JobsTyped, GetTyped, NoGet
  <2> QED BY <1>1, <1>3, <2>1, FailedFollows, DownloadEnds, AllFollow
<1> QED BY <1>2, <1>3 DEF LoseAnswer

LEMMA KillFollows ==
  ASSUME Typed, Following, NEW d \in Devices, Kill(d)
  PROVE  Following'
<1>1. /\ UNCHANGED <<item, record>> /\ Steady(d)
      /\ job' = [job EXCEPT ![d] = NoJob] /\ get' = [get EXCEPT ![d] = NoGet]
  BY KillTyped DEF Kill, rows
<1>2. job'[d] = NoJob /\ get'[d] = NoGet
  BY <1>1, JobBefore DEF JobsTyped
<1>3. JobFollows(d)'
  BY <1>2, NoJobTyped, NoGetTyped DEF JobFollows
<1> QED BY <1>1, <1>3, RecordsFollow, AllFollow

(* The server's steps. *)
LEMMA TurnFollows ==
  ASSUME Typed, Following, NEW s \in Slots, Turn(s), UNCHANGED deviceVars
  PROVE  Following'
<1>1. UNCHANGED <<record, job, get>>
  BY DEF deviceVars
<1> SUFFICES ASSUME NEW d \in Devices PROVE JobFollows(d)' /\ \A i \in Items : Follows(d, i)'
  BY DEF Following
<1>2. \A i \in Items : Follows(d, i)'
  BY <1>1 DEF Following, Follows, Turn
<1>3. ASSUME job[d].slot # None, Wrote(call'[job[d].slot])
      PROVE  d \notin item'[job[d].item].pulled
  <2>1. /\ job[d].slot \in Slots /\ call[job[d].slot].heard /\ job[d].item \in Items
        /\ call[job[d].slot].item = job[d].item
    BY <1>3, Waiting DEF InHand
  <2>2. \/ Wrote(call[job[d].slot])
        \/ item'[job[d].item].pulled = {}
    <3>1. CASE job[d].slot = s
      BY <1>3, <2>1, <3>1 DEF Turn
    <3>2. CASE job[d].slot # s
      BY <1>3, <2>1, <3>2 DEF Turn
    <3> QED BY <3>1, <3>2
  <2>3. Wrote(call[job[d].slot]) => d \notin item[job[d].item].pulled
    BY <1>3 DEF Following, JobFollows
  <2> QED BY <2>1, <2>2, <2>3 DEF Turn
<1>4. JobFollows(d)'
  BY <1>1, <1>3, JobStillFollows DEF Following
<1> QED BY <1>2, <1>4

LEMMA NextFollows == OneJob /\ Typed /\ Following /\ [Next]_vars => Following'
<1> SUFFICES ASSUME OneJob, Typed, Following, [Next]_vars PROVE Following'
  OBVIOUS
<1>1. CASE UNCHANGED vars
  BY <1>1 DEF vars, serverVars, deviceVars, rows, Following, JobFollows, Follows, AsRead, Wrote
<1>2. ASSUME NEW s \in Slots, ServerStep(s) PROVE Following'
  BY <1>2, ServerStepTyped, TurnFollows DEF Typed
<1>3. ASSUME NEW d \in Devices, DeviceStep(d) PROVE Following'
  <2>1. CASE JobStep(d)
    BY <2>1, EndUploadFollows, SkipCurrentFollows, AuthorizeFollows, OnAuthorizeFollows,
       OnSentFollows, OnRegisterFollows, AbortFollows, FailFollows
    DEF JobStep
  <2> QED BY <1>3, <2>1, StartUploadFollows, OnDownloadFollows, LoseAnswerFollows, KillFollows,
             ImportFollows, EditFileFollows, UploadMetadataFollows, PullFollows,
             RemoveItemFollows, RetryDueFollows, OpenAttachmentFollows
          DEF DeviceStep
<1> QED BY <1>1, <1>2, <1>3 DEF Next

LEMMA InitFollows == Init => Following
<1> SUFFICES ASSUME Init, NEW d \in Devices
             PROVE  JobFollows(d) /\ \A i \in Items : Follows(d, i)
  BY DEF Following
<1>1. job[d] = NoJob /\ get[d] = NoGet
  BY DEF Init
<1>2. JobFollows(d)
  BY <1>1, NoJobTyped, NoGetTyped DEF JobFollows
<1>3. ASSUME NEW i \in Items PROVE Follows(d, i)
  <2>1. CASE i # Known
    BY <2>1 DEF Init, Follows, NoRecord
  <2>2. CASE i = Known
    <3>1. item[i].md5 = KnownBytes
      BY <2>2 DEF Init
    <3>2. record[d][i].remote = KnownBytes
      BY <2>2 DEF Init, Pulled, NoRecord
    <3> QED BY <3>1, <3>2 DEF Follows
  <2> QED BY <2>1, <2>2
<1> QED BY <1>2, <1>3

(* A device that does one thing at a time, and that has pulled the latest  *)
(* version of an attachment, knows the md5 of its file, and calls no other *)
(* bytes downloaded, whatever the other devices upload or delete and       *)
(* whatever is lost.                                                       *)
THEOREM OutdatedBytesAreStale ==
    ASSUME OneJob
    PROVE  Spec => []ChangedBytesStale
<1>1. Typed /\ Following => ChangedBytesStale
  BY DEF Typed, DevicesTyped, Noted, RecordOK, Following, Follows, ChangedBytesStale
<1>2. Init => Typed /\ Following
  BY InitTypes, InitFollows
<1>3. Typed /\ Following /\ [Next]_vars => (Typed /\ Following)'
  BY NextTypes, NextFollows
<1> QED BY <1>1, <1>2, <1>3, PTL DEF Spec

(***************************************************************************)
(* The files of live items                                                 *)
(***************************************************************************)

(* An item that is not still to be added, nor added on one device only.    *)
(* What was born stays so, and no item is born twice.                      *)
Born(i) == i \notin OnOffer /\ \A d \in Devices : record[d][i].known # "new"

(* The request may still write the object of the upload. *)
Writes(c, k) ==
  /\ c.key = k
  /\ c.op = "authorize" \/ (c.op \in {"bytes", "complete"} /\ c.at # "end")

(* Whom a key was drawn for: the item, the md5 it was promised, and the    *)
(* slot of the request that uploads it.                                    *)
Draws == [UploadKeys -> [item : Items, md5 : Contents, slot : Slots \cup {None}]]

Written(g, k) ==
  /\ bucket[UploadName(k)] \in {g[k].md5, None}
  /\ item[g[k].item].live => bucket[UploadName(k)] = g[k].md5

(* Nobody writes the object any more. *)
Sealed(g, k) == Written(g, k) /\ \A s \in Slots : ~Writes(call[s], k)

Copied(i, m) == item[i].live => bucket[FileName(i, m)] = m

(* The name is one of an object of the item with these contents. *)
Serves(g, i, m, name) ==
  \/ name = FileName(i, m) /\ Copied(i, m)
  \/ \E k \in UploadKeys : name = UploadName(k) /\ g[k].item = i /\ g[k].md5 = m /\ Sealed(g, k)

Belongs(g, name, i) ==
  \/ \E m \in Contents : name = FileName(i, m)
  \/ \E k \in UploadKeys : name = UploadName(k) /\ g[k].item = i

(* What a request has to do with items and keys. *)
Owned(g, s, c) ==
  /\ c.op # "none" => Born(c.item)
  /\ c.op # "delete" /\ c.key \in UploadKeys => g[c.key].item = c.item
  /\ \A k \in UploadKeys : Writes(c, k) => g[k].slot = s
  /\ c.op = "delete" => \A name \in c.found \cup {c.key} : name = None \/ Belongs(g, name, c.item)

(* What a request has learnt or done where it is. *)
Ready(g, c) ==
  /\ c.at = "source" => \A name \in c.found : \E i \in Items : Born(i) /\ Serves(g, i, c.md5, name)
  /\ c.at = "copy" => c.bytes = c.md5
  /\ c.at = "associate" => Copied(c.item, c.md5)
  /\ c.at = "put" => c.bytes = g[c.key].md5
  /\ c.at = "object" => c.md5 = g[c.key].md5
  /\ c.at = "mark" => Written(g, c.key)
  /\ c.at = "file" => c.md5 = g[c.key].md5 /\ Sealed(g, c.key)
  /\ c.at \in {"objects", "remove"} => ~item[c.item].live

CallServed(g, s, c) == Owned(g, s, c) /\ Ready(g, c)

UploadServed(g, k) ==
  /\ upload[k] # NoUpload => upload[k].item = g[k].item /\ upload[k].md5 = g[k].md5
  /\ upload[k].state \in {"uploaded", "registered"} => Sealed(g, k)

RowServed(g, i) == file[i] # NoFile => Born(i) /\ Serves(g, i, file[i].md5, file[i].at)

JobServed(g, j) ==
  /\ j.key \in UploadKeys => g[j.key].item = j.item
  /\ \A r \in j.todo : Born(r.item)
  /\ j.at \notin {"idle", "next"} => Born(j.item)

(* An item that is added is on no other device, nor on the server. *)
AddedOnce ==
  \A d \in Devices : \A i \in Items : record[d][i].known = "new" =>
     ~item[i].live /\ \A e \in Devices \ {d} : record[e][i].known = "no"

Copies == \A i \in Items : \A m \in Contents : bucket[FileName(i, m)] \in {m, None}

Fits(g) ==
  /\ \A s \in Slots : CallServed(g, s, call[s])
  /\ \A k \in UploadKeys : UploadServed(g, k) /\ Born(g[k].item)
  /\ \A i \in Items : RowServed(g, i)
  /\ \A d \in Devices : JobServed(g, job[d])
  /\ Copies /\ AddedOnce

Served == \E g \in Draws : Fits(g)

(* A step that draws no key keeps what was written, and lets nobody write  *)
(* who did not.                                                            *)
Calm(g) ==
  /\ \A i \in Items : Born(i) => Born(i)' /\ (item'[i].live => item[i].live)
  /\ \A k \in UploadKeys : Sealed(g, k) => Sealed(g, k)'
  /\ \A i \in Items : \A m \in Contents : Born(i) /\ Copied(i, m) => Copied(i, m)'

LEMMA ServesStill ==
  ASSUME NEW g, Calm(g), NEW i \in Items, NEW m \in Contents, NEW name,
         Born(i), Serves(g, i, m, name)
  PROVE  Born(i)' /\ Serves(g, i, m, name)'
  BY DEF Calm, Serves

LEMMA CallKept ==
  ASSUME NEW g \in Draws, NEW s \in Slots, NEW c \in Requests, Asked(c),
         Calm(g), CallServed(g, s, c), c.at = "mark" => Written(g, c.key)'
  PROVE  CallServed(g, s, c)'
<1>1. Owned(g, s, c)'
  <2>1. c.op # "none" => Born(c.item)'
    BY DEF CallServed, Owned, Calm, Asked
  <2> QED BY <2>1 DEF CallServed, Owned, Belongs, Writes, UploadName, FileName
<1>2. c.at = "source" =>
        \A name \in c.found : \E i \in Items : Born(i)' /\ Serves(g, i, c.md5, name)'
  <2> SUFFICES ASSUME c.at = "source", NEW name \in c.found
               PROVE  \E i \in Items : Born(i)' /\ Serves(g, i, c.md5, name)'
    OBVIOUS
  <2>1. c.md5 \in Contents
    BY DEF Asked
  <2>2. PICK i \in Items : Born(i) /\ Serves(g, i, c.md5, name)
    BY DEF CallServed, Ready
  <2> QED BY <2>1, <2>2, ServesStill
<1>3. c.at = "associate" => Copied(c.item, c.md5)'
  BY DEF CallServed, Owned, Ready, Calm, Asked
<1>4. c.at = "file" => Sealed(g, c.key)'
  BY DEF CallServed, Ready, Calm, Asked
<1>5. c.at \in {"objects", "remove"} => ~item'[c.item].live
  BY DEF CallServed, Owned, Ready, Calm, Asked
<1> QED BY <1>1, <1>2, <1>3, <1>4, <1>5 DEF CallServed, Ready

LEMMA OthersServed ==
  ASSUME NEW g \in Draws, Fits(g), ServerTyped, Calm(g), NEW s \in Slots,
         \A t \in Slots : t # s => call'[t] = call[t],
         \A t \in Slots : t # s /\ call[t].at = "mark" => Written(g, call[t].key)',
         CallServed(g, s, call[s])'
  PROVE  \A t \in Slots : CallServed(g, t, call[t])'
<1> SUFFICES ASSUME NEW t \in Slots, t # s PROVE CallServed(g, t, call[t])'
  OBVIOUS
<1>1. PICK c \in Requests : c = call[t]
  BY DEF ServerTyped, CallsTyped
<1>2. Asked(c) /\ CallServed(g, t, c) /\ call'[t] = c
  BY <1>1 DEF ServerTyped, CallsTyped, Fits
<1>3. c.at = "mark" => Written(g, c.key)'
  BY <1>1
<1>4. CallServed(g, t, c)'
  BY <1>2, <1>3, CallKept
<1> QED BY <1>2, <1>4

(* Steps of the server: no device is concerned, and the item of whatever   *)
(* moves stays what it is.                                                 *)
LEMMA TurnCalm ==
  ASSUME NEW s \in Slots, Turn(s), UNCHANGED deviceVars, NEW g \in Draws, Fits(g), Typed
  PROVE  /\ \A i \in Items : Born(i)' <=> Born(i)
         /\ \A i \in Items : item'[i].live => item[i].live
         /\ \A d \in Devices : JobServed(g, job[d])'
         /\ AddedOnce'
<1>1. \A i \in Items : item'[i].live => item[i].live
  BY DEF Turn
<1>2. \A i : Born(i)' <=> Born(i)
  BY DEF Born, OnOffer, deviceVars
<1>3. \A d \in Devices : JobServed(g, job[d])'
  BY <1>2 DEF Fits, JobServed, deviceVars
<1>4. AddedOnce'
  BY <1>1 DEF Fits, AddedOnce, deviceVars
<1> QED BY <1>1, <1>2, <1>3, <1>4

(* What is left to show of a query, when it writes objects itself. *)
LEMMA TurnServed ==
  ASSUME NEW s \in Slots, Turn(s), UNCHANGED deviceVars, NEW g \in Draws, Fits(g), Typed,
         \A k \in UploadKeys : Sealed(g, k) => Sealed(g, k)',
         \A i \in Items : \A m \in Contents : Copied(i, m) => Copied(i, m)',
         Copies',
         \A t \in Slots : t # s /\ call[t].at = "mark" => Written(g, call[t].key)',
         Calm(g) => CallServed(g, s, call[s])',
         \A k \in UploadKeys : upload'[k] = upload[k] \/ UploadServed(g, k)',
         \A i \in Items : file'[i] = file[i] \/ (Calm(g) => RowServed(g, i)')
  PROVE  Fits(g)'
<1>1. Calm(g)
  BY TurnCalm DEF Calm
<1>2. \A t \in Slots : t # s => call'[t] = call[t]
  BY DEF Turn
<1>3. \A t \in Slots : CallServed(g, t, call[t])'
  BY <1>1, <1>2, OthersServed DEF Typed
<1>4. ASSUME NEW k \in UploadKeys PROVE UploadServed(g, k)' /\ Born(g[k].item)'
  BY <1>1, TurnCalm DEF Fits, UploadServed, Calm, Draws
<1>5. ASSUME NEW i \in Items PROVE RowServed(g, i)'
  <2>1. CASE file'[i] = file[i] /\ file[i] # NoFile
    <3>1. PICK row \in [md5 : Contents, at : Names] : row = file[i]
      BY <2>1 DEF Typed, ServerTyped, RowsTyped, Placed
    <3>2. Born(i) /\ Serves(g, i, row.md5, row.at)
      BY <2>1, <3>1 DEF Fits, RowServed
    <3>3. Born(i)' /\ Serves(g, i, row.md5, row.at)'
      BY <1>1, <3>2, ServesStill
    <3> QED BY <2>1, <3>1, <3>3 DEF RowServed
  <2> QED BY <1>1, <2>1 DEF RowServed
<1>6. (\A d \in Devices : JobServed(g, job[d])') /\ AddedOnce'
  BY TurnCalm
<1> QED BY <1>3, <1>4, <1>5, <1>6 DEF Fits

(* And when it leaves the objects alone. *)
LEMMA QuietCalm ==
  ASSUME NEW s \in Slots, Turn(s), UNCHANGED bucket, NEW g \in Draws,
         \A i \in Items : item'[i].live => item[i].live,
         \A k \in UploadKeys : Writes(call'[s], k) => Writes(call[s], k)
  PROVE  /\ \A k \in UploadKeys : Written(g, k) => Written(g, k)'
         /\ \A k \in UploadKeys : Sealed(g, k) => Sealed(g, k)'
         /\ \A i \in Items : \A m \in Contents : Copied(i, m) => Copied(i, m)'
<1>1. \A k \in UploadKeys : Written(g, k) => Written(g, k)'
  BY DEF Written, Draws
<1>2. ASSUME NEW k \in UploadKeys, Sealed(g, k) PROVE Sealed(g, k)'
  BY <1>1, <1>2 DEF Sealed, Turn, Writes
<1>3. \A i \in Items : \A m \in Contents : Copied(i, m) => Copied(i, m)'
  BY DEF Copied
<1> QED BY <1>1, <1>2, <1>3

(* What another request is about to mark has been written. *)
LEMMA MarkedWritten ==
  ASSUME Typed, NEW g \in Draws, Fits(g), NEW t \in Slots, call'[t] = call[t], call[t].at = "mark",
         \A k \in UploadKeys : Written(g, k) /\ call[t].key = k => Written(g, k)'
  PROVE  Written(g, call[t].key)'
<1>1. PICK c \in Requests : c = call[t]
  BY DEF Typed, ServerTyped, CallsTyped
<1>2. c.key \in UploadKeys /\ Written(g, c.key)
  BY <1>1 DEF Typed, ServerTyped, CallsTyped, Asked, Fits, CallServed, Ready
<1>3. Written(g, c.key)'
  BY <1>1, <1>2
<1>4. call'[t] = c
  BY <1>1
<1> QED BY <1>3, <1>4

LEMMA QuietServed ==
  ASSUME NEW s \in Slots, Turn(s), UNCHANGED <<bucket, deviceVars>>, NEW g \in Draws, Fits(g),
         Typed, NEW n \in Requests, n = call'[s], Asked(n), CallServed(g, s, n), n.at # "mark",
         \A k \in UploadKeys : Writes(n, k) => Writes(call[s], k),
         \A k \in UploadKeys : upload'[k] = upload[k] \/ UploadServed(g, k)',
         \A i \in Items : file'[i] = file[i] \/ (Calm(g) => RowServed(g, i)')
  PROVE  Fits(g)'
<1>1. \A i \in Items : item'[i].live => item[i].live
  BY DEF Turn
<1>2. /\ \A k \in UploadKeys : Written(g, k) => Written(g, k)'
      /\ \A k \in UploadKeys : Sealed(g, k) => Sealed(g, k)'
      /\ \A i \in Items : \A m \in Contents : Copied(i, m) => Copied(i, m)'
  BY <1>1, QuietCalm
<1>3. Copies'
  BY DEF Fits, Copies
<1>4. ASSUME NEW t \in Slots, t # s, call[t].at = "mark" PROVE Written(g, call[t].key)'
  BY <1>2, <1>4, MarkedWritten DEF Turn
<1>5. Calm(g) => CallServed(g, s, n)'
  BY CallKept
<1>6. Calm(g) => CallServed(g, s, call[s])'
  BY <1>5
<1> QED BY <1>2, <1>3, <1>4, <1>6, TurnServed

LEMMA IdleServed ==
  ASSUME NEW g \in Draws, NEW s \in Slots
  PROVE  CallServed(g, s, Idle) /\ \A k \in UploadKeys : ~Writes(Idle, k)
  BY NamesTyped DEF Idle, CallServed, Owned, Ready, Writes

LEMMA GoesOnServed ==
  ASSUME NEW g \in Draws, NEW s \in Slots, NEW c, NEW n, CallServed(g, s, c),
         n.op = c.op, n.item = c.item, n.key = c.key, c.at # "end",
         c.op = "delete" => n.found \subseteq c.found, Ready(g, n)
  PROVE  CallServed(g, s, n) /\ \A k \in UploadKeys : Writes(n, k) => Writes(c, k)
  BY DEF CallServed, Owned, Writes

LEMMA AnsweredServed ==
  ASSUME NEW g \in Draws, NEW s \in Slots, NEW c \in Requests, CallServed(g, s, c),
         c.at # "end", NEW answer
  PROVE  /\ CallServed(g, s, Answered(c, answer))
         /\ \A k \in UploadKeys : Writes(Answered(c, answer), k) => Writes(c, k)
         /\ Answered(c, answer).at = "end"
<1> DEFINE n == [c EXCEPT !.at = "end", !.answer = answer, !.found = {}]
<1>1. /\ n.op = c.op /\ n.item = c.item /\ n.key = c.key /\ n.at = "end" /\ n.found = {}
  BY DEF Requests
<1> HIDE DEF n
<1>2. Ready(g, n)
  BY <1>1 DEF Ready
<1>3. CallServed(g, s, n) /\ \A k \in UploadKeys : Writes(n, k) => Writes(c, k)
  BY <1>1, <1>2, GoesOnServed
<1>4. CallServed(g, s, Idle) /\ (\A k \in UploadKeys : ~Writes(Idle, k)) /\ Idle.at = "end"
  BY IdleServed DEF Idle
<1>5. Answered(c, answer) = IF c.heard THEN n ELSE Idle
  BY DEF Answered, n
<1> QED BY <1>1, <1>3, <1>4, <1>5

(* A query that answers or goes on, and moves no object. *)
LEMMA AnswersServed ==
  ASSUME NEW s \in Slots, Turn(s), UNCHANGED <<bucket, deviceVars>>, NEW g \in Draws, Fits(g),
         Typed, ServerTyped', call[s].at # "end", NEW answer, Answers(s, answer),
         \A k \in UploadKeys : upload'[k] = upload[k] \/ UploadServed(g, k)',
         \A i \in Items : file'[i] = file[i] \/ (Calm(g) => RowServed(g, i)')
  PROVE  Fits(g)'
<1>1. PICK c \in Requests : c = call[s]
  BY DEF Typed, ServerTyped, CallsTyped
<1>2. PICK n \in Requests : n = call'[s] /\ Asked(n)
  BY DEF ServerTyped, CallsTyped
<1>3. n = Answered(c, answer)
  BY <1>1, <1>2 DEF Answers, Typed, ServerTyped, CallsTyped
<1>4. CallServed(g, s, c)
  BY <1>1 DEF Fits
<1>5. CallServed(g, s, n) /\ n.at = "end" /\ \A k \in UploadKeys : Writes(n, k) => Writes(c, k)
  BY <1>1, <1>3, <1>4, AnsweredServed
<1>6. \A k \in UploadKeys : Writes(n, k) => Writes(call[s], k)
  BY <1>1, <1>5
<1> QED BY <1>2, <1>5, <1>6, QuietServed

LEMMA LearnsServed ==
  ASSUME NEW s \in Slots, Turn(s), UNCHANGED <<bucket, deviceVars>>, NEW g \in Draws, Fits(g),
         Typed, ServerTyped', call[s].at # "end", NEW n, call'[s] = n,
         n.op = call[s].op, n.item = call[s].item, n.key = call[s].key,
         call[s].op = "delete" => n.found \subseteq call[s].found, n.at # "mark", Ready(g, n),
         \A k \in UploadKeys : upload'[k] = upload[k] \/ UploadServed(g, k)', UNCHANGED file
  PROVE  Fits(g)'
<1>1. n \in Requests /\ Asked(n) /\ n = call'[s]
  BY DEF ServerTyped, CallsTyped
<1>2. PICK c : c = call[s]
  OBVIOUS
<1>3. CallServed(g, s, c)
  BY <1>2 DEF Fits
<1>4. CallServed(g, s, n) /\ \A k \in UploadKeys : Writes(n, k) => Writes(c, k)
  BY <1>2, <1>3, GoesOnServed
<1>5. \A k \in UploadKeys : Writes(n, k) => Writes(call[s], k)
  BY <1>2, <1>4
<1> QED BY <1>1, <1>4, <1>5, QuietServed

Unmarked(at) ==
  at \notin {"source", "copy", "associate", "put", "object", "mark", "file", "objects", "remove"}

LEMMA GoesServed ==
  ASSUME NEW s \in Slots, Turn(s), UNCHANGED <<bucket, deviceVars>>, NEW g \in Draws, Fits(g),
         Typed, ServerTyped', call[s].at # "end", NEW at \in Ats, Unmarked(at), Goes(s, at),
         UNCHANGED <<upload, file>>
  PROVE  Fits(g)'
<1>1. PICK n : n = [call[s] EXCEPT !.at = at]
  OBVIOUS
<1>2. /\ call'[s] = n /\ n.op = call[s].op /\ n.item = call[s].item /\ n.key = call[s].key
      /\ n.found = call[s].found /\ n.at = at
  BY <1>1 DEF Goes, Typed, ServerTyped, CallsTyped, Requests
<1>3. Ready(g, n) /\ n.at # "mark"
  BY <1>2 DEF Ready, Unmarked
<1> QED BY <1>2, <1>3, LearnsServed

(***************************************************************************)
(* Each query                                                              *)
(***************************************************************************)

LEMMA FindItemServed ==
  ASSUME Typed, ServerTyped', NEW g \in Draws, Fits(g), NEW s \in Slots, FindItem(s), Turn(s),
         UNCHANGED deviceVars
  PROVE  Fits(g)'
<1>1. call[s].at = "item" /\ UNCHANGED <<bucket, upload, file>>
  BY DEF FindItem, AtOf, At, rows
<1>2. Goes(s, "row") \/ Answers(s, "missing")
  BY DEF FindItem
<1>3. "row" \in Ats /\ Unmarked("row")
  BY DEF Ats, Unmarked
<1> QED BY <1>1, <1>2, <1>3, GoesServed, AnswersServed

LEMMA CompareFileServed ==
  ASSUME Typed, ServerTyped', NEW g \in Draws, Fits(g), NEW s \in Slots, CompareFile(s), Turn(s),
         UNCHANGED deviceVars
  PROVE  Fits(g)'
<1>1. call[s].at = "row" /\ UNCHANGED <<bucket, upload, file>>
  BY DEF CompareFile, AtOf, At, rows
<1>2. Goes(s, "known") \/ Goes(s, "upload") \/ Answers(s, "refused")
  BY DEF CompareFile
<1>3. {"known", "upload"} \subseteq Ats /\ Unmarked("known") /\ Unmarked("upload")
  BY DEF Ats, Unmarked
<1> QED BY <1>1, <1>2, <1>3, GoesServed, AnswersServed

LEMMA RowServes ==
  ASSUME NEW g \in Draws, Fits(g), Typed, NEW i \in Items, file[i] # NoFile
  PROVE  /\ Born(i) /\ Serves(g, i, file[i].md5, file[i].at)
         /\ Belongs(g, file[i].at, i)
  BY DEF Fits, RowServed, Serves, Belongs, Typed, ServerTyped, RowsTyped, Placed

LEMMA FindKnownServed ==
  ASSUME Typed, ServerTyped', NEW g \in Draws, Fits(g), NEW s \in Slots, FindKnown(s), Turn(s),
         UNCHANGED deviceVars
  PROVE  Fits(g)'
<1>1. /\ call[s].at = "known" /\ call[s].op = "authorize" /\ UNCHANGED <<bucket, upload, file>>
      /\ call[s] \in Requests /\ call[s].md5 \in Contents
  BY DEF FindKnown, At, rows, Typed, ServerTyped, CallsTyped, Asked
<1>2. CASE Goes(s, "insert")
  BY <1>1, <1>2, GoesServed DEF Ats, Unmarked
<1>3. ASSUME NEW i \in Items, file[i].md5 = call[s].md5,
             call' = [call EXCEPT ![s].at = "source", ![s].found = {file[i].at}]
      PROVE  Fits(g)'
  <2>1. PICK n : n = [call[s] EXCEPT !.at = "source", !.found = {file[i].at}]
    OBVIOUS
  <2>2. /\ call'[s] = n /\ n.op = call[s].op /\ n.item = call[s].item /\ n.key = call[s].key
        /\ n.found = {file[i].at} /\ n.at = "source" /\ n.md5 = call[s].md5
    BY <1>1, <1>3, <2>1 DEF Typed, ServerTyped, CallsTyped, Requests
  <2>3. file[i] # NoFile
    BY <1>1, <1>3, NamesTyped DEF NoFile
  <2>4. Born(i) /\ Serves(g, i, n.md5, file[i].at)
    BY <1>3, <2>2, <2>3, RowServes
  <2>5. Ready(g, n)
    BY <2>2, <2>4 DEF Ready
  <2> QED BY <1>1, <2>2, <2>5, LearnsServed
<1> QED BY <1>2, <1>3 DEF FindKnown

LEMMA ReadSourceServed ==
  ASSUME Typed, ServerTyped', NEW g \in Draws, Fits(g), NEW s \in Slots, ReadSource(s), Turn(s),
         UNCHANGED deviceVars
  PROVE  Fits(g)'
<1>1. /\ call[s].at = "source" /\ call[s].op = "authorize" /\ UNCHANGED <<bucket, upload, file>>
      /\ call[s] \in Requests /\ call[s].md5 \in Contents
  BY DEF ReadSource, At, rows, Typed, ServerTyped, CallsTyped, Asked
<1>2. CASE Goes(s, "insert")
  BY <1>1, <1>2, GoesServed DEF Ats, Unmarked
<1>3. ASSUME NEW name \in call[s].found, bucket[name] # None,
             call' = [call EXCEPT ![s].at = "copy", ![s].bytes = bucket[name]]
      PROVE  Fits(g)'
  <2>1. PICK n : n = [call[s] EXCEPT !.at = "copy", !.bytes = bucket[name]]
    OBVIOUS
  <2>2. /\ call'[s] = n /\ n.op = call[s].op /\ n.item = call[s].item /\ n.key = call[s].key
        /\ n.at = "copy" /\ n.md5 = call[s].md5 /\ n.bytes = bucket[name]
    BY <1>1, <1>3, <2>1 DEF Typed, ServerTyped, CallsTyped, Requests
  <2>3. PICK i \in Items : Serves(g, i, call[s].md5, name)
    BY <1>1, <1>3 DEF Fits, CallServed, Ready
  <2>4. bucket[name] = call[s].md5
    BY <1>1, <1>3, <2>3 DEF Serves, Sealed, Written, Fits, Copies
  <2>5. Ready(g, n)
    BY <2>2, <2>4 DEF Ready
  <2> QED BY <1>1, <2>2, <2>5, LearnsServed
<1> QED BY <1>2, <1>3 DEF ReadSource

LEMMA NamesApart ==
  /\ \A k, h \in UploadKeys : UploadName(k) = UploadName(h) => k = h
  /\ \A k \in UploadKeys, i \in Items, m \in Contents : UploadName(k) # FileName(i, m)
  /\ \A i, j \in Items, m, o \in Contents : FileName(i, m) = FileName(j, o) => i = j /\ m = o
  BY DEF UploadName, FileName

LEMMA CopySourceServed ==
  ASSUME Typed, ServerTyped', NEW g \in Draws, Fits(g), NEW s \in Slots, CopySource(s), Turn(s),
         UNCHANGED deviceVars
  PROVE  Fits(g)'
<1>1. /\ call[s].at = "copy" /\ call[s].op = "authorize" /\ UNCHANGED <<upload, file, item>>
      /\ call[s] \in Requests /\ call[s].md5 \in Contents /\ call[s].item \in Items
      /\ bucket \in [Names -> Bytes]
  BY DEF CopySource, At, rows, Typed, ServerTyped, CallsTyped, Asked, StoresTyped
<1>2. PICK i \in Items, m \in Contents : i = call[s].item /\ m = call[s].md5
  BY <1>1
<1>3. bucket' = [bucket EXCEPT ![FileName(i, m)] = m] /\ FileName(i, m) \in Names
  BY <1>1, <1>2, NamesTyped DEF CopySource, Fits, CallServed, Ready
<1>4. PICK n : n = [call[s] EXCEPT !.at = "associate"]
  OBVIOUS
<1>5. /\ call'[s] = n /\ n.op = call[s].op /\ n.item = i /\ n.key = call[s].key
      /\ n.at = "associate" /\ n.md5 = m /\ n \in Requests /\ Asked(n)
  BY <1>1, <1>2, <1>4 DEF CopySource, Goes, Typed, ServerTyped, CallsTyped, Requests
<1>6. \A k \in UploadKeys : bucket'[UploadName(k)] = bucket[UploadName(k)]
  BY <1>1, <1>3, NamesApart, NamesTyped
<1>7. \A j \in Items, o \in Contents :
        bucket'[FileName(j, o)] = bucket[FileName(j, o)] \/ bucket'[FileName(j, o)] = o
  BY <1>1, <1>3, NamesApart, NamesTyped
<1>8. \A k \in UploadKeys : Written(g, k) => Written(g, k)'
  BY <1>1, <1>6 DEF Written
<1>9. \A k \in UploadKeys : Writes(n, k) => Writes(call[s], k)
  BY <1>1, <1>5 DEF Writes
<1>10. ASSUME NEW k \in UploadKeys, Sealed(g, k) PROVE Sealed(g, k)'
  BY <1>5, <1>8, <1>9, <1>10 DEF Sealed, Turn
<1>11. \A j \in Items : \A o \in Contents : Copied(j, o) => Copied(j, o)'
  BY <1>1, <1>7 DEF Copied
<1>12. Copies'
  BY <1>7 DEF Copies, Fits
<1>13. ASSUME NEW t \in Slots, t # s, call[t].at = "mark" PROVE Written(g, call[t].key)'
  BY <1>8, <1>13, MarkedWritten DEF Turn
<1>14. Calm(g) => CallServed(g, s, n)'
  <2>1. Calm(g) => Owned(g, s, n)'
    <3>1. Owned(g, s, call[s]) /\ Born(i)
      BY <1>1, <1>2 DEF Fits, CallServed, Owned
    <3>2. Calm(g) => Born(i)'
      BY <3>1 DEF Calm
    <3> QED BY <1>1, <1>2, <1>5, <1>9, <3>1, <3>2 DEF Owned, Writes
  <2>2. Ready(g, n)'
    BY <1>3, <1>1, <1>5 DEF Ready, Copied
  <2> QED BY <2>1, <2>2 DEF CallServed
<1>15. Calm(g) => CallServed(g, s, call[s])'
  BY <1>5, <1>14
<1> QED BY <1>1, <1>10, <1>11, <1>12, <1>13, <1>15, TurnServed

LEMMA AnsweredWrites ==
  ASSUME Typed, NEW g \in Draws, Fits(g), NEW s \in Slots, call[s].at # "end", NEW answer,
         Answers(s, answer)
  PROVE  \A k \in UploadKeys : Writes(call'[s], k) => /\ Writes(call[s], k)
                                                      /\ call[s].op = "authorize"
<1>1. PICK c \in Requests : c = call[s]
  BY DEF Typed, ServerTyped, CallsTyped
<1>2. PICK n : n = [c EXCEPT !.at = "end", !.answer = answer, !.found = {}]
  OBVIOUS
<1>3. n.op = c.op /\ n.key = c.key /\ n.at = "end"
  BY <1>2 DEF Requests
<1>4. call'[s] = IF c.heard THEN n ELSE Idle
  BY <1>1, <1>2 DEF Answers, Answered, Typed, ServerTyped, CallsTyped
<1>5. \A k \in UploadKeys : ~Writes(Idle, k)
  BY IdleServed
<1> QED BY <1>1, <1>3, <1>4, <1>5 DEF Writes

LEMMA AssociateServed ==
  ASSUME Typed, ServerTyped', NEW g \in Draws, Fits(g), NEW s \in Slots, Associate(s), Turn(s),
         UNCHANGED deviceVars
  PROVE  Fits(g)'
<1>1. /\ call[s].at = "associate" /\ call[s].op = "authorize" /\ UNCHANGED <<upload, bucket>>
      /\ call[s] \in Requests /\ call[s].md5 \in Contents /\ call[s].item \in Items
  BY DEF Associate, At, rows, Typed, ServerTyped, CallsTyped, Asked, StoresTyped
<1>2. PICK i \in Items, m \in Contents : i = call[s].item /\ m = call[s].md5
  BY <1>1
<1>3. /\ file' = [file EXCEPT ![i] = [md5 |-> m, at |-> FileName(i, m)]]
      /\ Answers(s, "exists")
  BY <1>2 DEF Associate, GivesFile
<1>4. Born(i) /\ Serves(g, i, m, FileName(i, m))
  BY <1>1, <1>2 DEF Fits, CallServed, Owned, Ready, Serves
<1>5. Calm(g) => Born(i)' /\ Serves(g, i, m, FileName(i, m))'
  BY <1>4, ServesStill
<1>6. ASSUME NEW j \in Items PROVE file'[j] = file[j] \/ (Calm(g) => RowServed(g, j)')
  BY <1>3, <1>5 DEF Typed, ServerTyped, RowsTyped, RowServed
<1> QED BY <1>1, <1>3, <1>6, AnswersServed

LEMMA WithdrawUploadServed ==
  ASSUME Typed, ServerTyped', NEW g \in Draws, Fits(g), NEW s \in Slots, WithdrawUpload(s),
         Turn(s), UNCHANGED deviceVars
  PROVE  Fits(g)'
<1>1. /\ call[s].at = "withdraw" /\ UNCHANGED <<file, bucket>> /\ Answers(s, "unavailable")
      /\ upload' = [upload EXCEPT ![call[s].key] = NoUpload]
  BY DEF WithdrawUpload, At
<1>2. \A k \in UploadKeys : upload'[k] = upload[k] \/ UploadServed(g, k)'
  BY <1>1 DEF Typed, ServerTyped, RowsTyped, UploadServed, NoUpload
<1> QED BY <1>1, <1>2, AnswersServed

LEMMA ForgetUploadServed ==
  ASSUME Typed, ServerTyped', NEW g \in Draws, Fits(g), NEW s \in Slots, ForgetUpload(s),
         Turn(s), UNCHANGED deviceVars
  PROVE  Fits(g)'
<1>1. /\ call[s].at = "forget" /\ UNCHANGED <<file, bucket>> /\ Answers(s, "ok")
      /\ upload' = [upload EXCEPT ![call[s].key] = NoUpload]
  BY DEF ForgetUpload, At
<1>2. \A k \in UploadKeys : upload'[k] = upload[k] \/ UploadServed(g, k)'
  BY <1>1 DEF Typed, ServerTyped, RowsTyped, UploadServed, NoUpload
<1> QED BY <1>1, <1>2, AnswersServed

LEMMA PrepareUploadServed ==
  ASSUME Typed, ServerTyped', NEW g \in Draws, Fits(g), NEW s \in Slots, PrepareUpload(s),
         Turn(s), UNCHANGED deviceVars
  PROVE  Fits(g)'
<1>1. /\ call[s].at = "prepare" /\ UNCHANGED <<file, bucket>> /\ call[s].op = "authorize"
      /\ call[s].key \in UploadKeys
  BY DEF PrepareUpload, At, Typed, ServerTyped, CallsTyped, Asked
<1>2. PICK k \in UploadKeys : k = call[s].key
  BY <1>1
<1>3. CASE Answers(s, "failed") /\ UNCHANGED upload
  BY <1>1, <1>3, AnswersServed
<1>4. CASE /\ upload[k].state = "queued"
           /\ upload' = [upload EXCEPT ![k].multipart = upload[k].md5 \in Large]
           /\ Answers(s, "ok")
  <2>1. /\ upload'[k].state = "queued" /\ upload'[k].item = upload[k].item
        /\ upload'[k].md5 = upload[k].md5 /\ upload[k] # NoUpload
        /\ \A h \in UploadKeys : h # k => upload'[h] = upload[h]
    BY <1>4 DEF Typed, ServerTyped, RowsTyped, Uploads, NoUpload
  <2>2. \A h \in UploadKeys : upload'[h] = upload[h] \/ UploadServed(g, h)'
    BY <2>1 DEF UploadServed, Fits
  <2> QED BY <1>1, <1>4, <2>2, AnswersServed
<1> QED BY <1>2, <1>3, <1>4 DEF PrepareUpload

LEMMA FindUploadServed ==
  ASSUME Typed, ServerTyped', NEW g \in Draws, Fits(g), NEW s \in Slots, FindUpload(s),
         Turn(s), UNCHANGED deviceVars
  PROVE  Fits(g)'
<1>1. /\ call[s].at = "upload" /\ call[s].op = "register" /\ UNCHANGED <<bucket, upload, file>>
      /\ call[s] \in Requests /\ call[s].key \in UploadKeys
  BY DEF FindUpload, At, rows, Typed, ServerTyped, CallsTyped, Asked
<1>2. PICK k \in UploadKeys : k = call[s].key
  BY <1>1
<1>3. CASE Answers(s, "missing") \/ Answers(s, "rejected")
  BY <1>1, <1>3, AnswersServed
<1>4. CASE /\ upload[k].state = "uploaded"
           /\ call' = [call EXCEPT ![s].at = "file", ![s].md5 = upload[k].md5]
  <2>1. PICK n : n = [call[s] EXCEPT !.at = "file", !.md5 = upload[k].md5]
    OBVIOUS
  <2>2. /\ call'[s] = n /\ n.op = call[s].op /\ n.item = call[s].item /\ n.key = k
        /\ n.at = "file" /\ n.md5 = upload[k].md5
    BY <1>1, <1>2, <1>4, <2>1 DEF Typed, ServerTyped, CallsTyped, Requests
  <2>3. upload[k].md5 = g[k].md5 /\ Sealed(g, k)
    BY <1>4 DEF Fits, UploadServed, NoUpload
  <2>4. Ready(g, n)
    BY <2>2, <2>3 DEF Ready
  <2> QED BY <1>1, <1>2, <2>2, <2>4, LearnsServed
<1>5. \/ Answers(s, "missing") \/ Answers(s, "rejected")
      \/ /\ upload[k].state = "uploaded"
         /\ call' = [call EXCEPT ![s].at = "file", ![s].md5 = upload[k].md5]
  BY <1>2 DEF FindUpload, Registrable
<1> QED BY <1>3, <1>4, <1>5

LEMMA RegisterFileServed ==
  ASSUME Typed, ServerTyped', NEW g \in Draws, Fits(g), NEW s \in Slots, RegisterFile(s),
         Turn(s), UNCHANGED deviceVars
  PROVE  Fits(g)'
<1>1. /\ call[s].at = "file" /\ call[s].op = "register" /\ UNCHANGED bucket
      /\ call[s] \in Requests /\ call[s].key \in UploadKeys /\ call[s].item \in Items
      /\ call[s].md5 \in Contents /\ Answers(s, "ok")
  BY DEF RegisterFile, At, Typed, ServerTyped, CallsTyped, Asked
<1>2. PICK k \in UploadKeys, i \in Items, m \in Contents :
        k = call[s].key /\ i = call[s].item /\ m = call[s].md5
  BY <1>1
<1>3. /\ file' = [file EXCEPT ![i] = [md5 |-> m, at |-> UploadName(k)]]
      /\ upload' = IF upload[k].state = "none" THEN upload
                   ELSE [upload EXCEPT ![k].state = "registered"]
  BY <1>2 DEF RegisterFile, GivesFile
<1>4. Born(i) /\ g[k].item = i /\ g[k].md5 = m /\ Sealed(g, k)
  BY <1>1, <1>2 DEF Fits, CallServed, Owned, Ready
<1>5. Serves(g, i, m, UploadName(k))
  BY <1>4 DEF Serves
<1>6. Calm(g) => Born(i)' /\ Serves(g, i, m, UploadName(k))'
  BY <1>4, <1>5, ServesStill
<1>7. ASSUME NEW j \in Items PROVE file'[j] = file[j] \/ (Calm(g) => RowServed(g, j)')
  BY <1>3, <1>6 DEF Typed, ServerTyped, RowsTyped, RowServed
<1>8. Sealed(g, k)'
  <2>1. \A i_ \in Items : item'[i_].live => item[i_].live
    BY DEF Turn
  <2>2. \A h \in UploadKeys : ~Writes(call'[s], h) \/ Writes(call[s], h)
    BY <1>1, AnsweredWrites
  <2> QED BY <1>1, <1>4, <2>1, <2>2, QuietCalm
<1>9. \A h \in UploadKeys : upload'[h] = upload[h] \/ UploadServed(g, h)'
  <2>1. CASE upload[k].state # "none"
    <3>1. /\ upload'[k].item = upload[k].item /\ upload'[k].md5 = upload[k].md5
          /\ upload[k] # NoUpload
          /\ \A h \in UploadKeys : h # k => upload'[h] = upload[h]
      BY <1>3, <2>1 DEF Typed, ServerTyped, RowsTyped, Uploads, NoUpload
    <3> QED BY <1>8, <3>1 DEF UploadServed, Fits
  <2> QED BY <1>3, <2>1
<1> QED BY <1>1, <1>7, <1>9, AnswersServed

(* Whoever writes the object of an upload is the only one. *)
LEMMA WriterCalm ==
  ASSUME Typed, NEW g \in Draws, Fits(g), NEW s \in Slots, NEW k \in UploadKeys,
         Writes(call[s], k), \A t \in Slots : t # s => call'[t] = call[t],
         \A h \in UploadKeys : Writes(call'[s], h) => Writes(call[s], h),
         \A i \in Items : item'[i].live => item[i].live,
         \A name \in Names : name # UploadName(k) => bucket'[name] = bucket[name]
  PROVE  /\ \A h \in UploadKeys : Sealed(g, h) => Sealed(g, h)'
         /\ \A i \in Items : \A m \in Contents : Copied(i, m) => Copied(i, m)'
         /\ Copies'
         /\ \A t \in Slots : t # s /\ call[t].at = "mark" => Written(g, call[t].key)'
<1>1. ASSUME NEW h \in UploadKeys, h # k, Written(g, h) PROVE Written(g, h)'
  <2>1. bucket'[UploadName(h)] = bucket[UploadName(h)]
    BY <1>1, NamesApart, NamesTyped
  <2> QED BY <1>1, <2>1 DEF Written, Draws
<1>2. ASSUME NEW h \in UploadKeys, Sealed(g, h) PROVE Sealed(g, h)'
  <2>1. h # k
    BY <1>2 DEF Sealed
  <2> QED BY <1>1, <1>2, <2>1 DEF Sealed
<1>3. \A i \in Items, m \in Contents : bucket'[FileName(i, m)] = bucket[FileName(i, m)]
  BY NamesApart, NamesTyped
<1>4. ASSUME NEW t \in Slots, t # s, call[t].at = "mark" PROVE Written(g, call[t].key)'
  <2>1. call[t].op \in {"bytes", "complete"} /\ call[t].key \in UploadKeys
    BY <1>4 DEF Typed, ServerTyped, CallsTyped, Asked
  <2>2. call[t].key # k
    <3> SUFFICES ASSUME call[t].key = k PROVE FALSE
      OBVIOUS
    <3>1. Writes(call[t], k)
      BY <1>4, <2>1 DEF Writes
    <3>2. g[k].slot = t /\ g[k].slot = s
      BY <3>1 DEF Fits, CallServed, Owned
    <3> QED BY <1>4, <3>2
  <2> QED BY <1>1, <1>4, <2>1, <2>2, MarkedWritten
<1> QED BY <1>2, <1>3, <1>4 DEF Copied, Copies, Fits

(* What tells the bytes of an upload from others: the md5 of a standard    *)
(* body, the size of a direct upload.                                      *)
Told(g, c) ==
  LET k == c.key
  IN  /\ c.at = "queued" /\ c.op = "bytes" /\ upload[k].state = "queued" =>
           (Checked(k) /\ c.bytes # upload[k].md5) \/ c.bytes = g[k].md5
      /\ c.at = "object" => \A object \in {parts[k], bucket[UploadName(k)]} \ {None} :
           Size[object] = Size[c.md5] => object = c.md5

(* A request that has written the object of its upload. *)
LEMMA MarkServed ==
  ASSUME Typed, NEW g \in Draws, Fits(g), NEW s \in Slots, Calm(g), NEW k \in UploadKeys, NEW n,
         call[s].op \in {"bytes", "complete"}, call[s].key = k, call[s].at # "end",
         n.op = call[s].op, n.item = call[s].item, n.key = k, n.at = "mark", Written(g, k)'
  PROVE  CallServed(g, s, n)'
<1>1. Owned(g, s, call[s]) /\ Born(call[s].item)
  BY DEF Fits, CallServed, Owned
<1>2. PICK i : i = call[s].item
  OBVIOUS
<1>3. Born(i)'
  BY <1>1, <1>2 DEF Calm, Typed, ServerTyped, CallsTyped, Asked
<1>4. Owned(g, s, n)'
  BY <1>1, <1>2, <1>3 DEF Owned, Writes
<1>5. Ready(g, n)'
  BY DEF Ready
<1> QED BY <1>4, <1>5 DEF CallServed

LEMMA FindQueuedServed ==
  ASSUME Typed, ServerTyped', NEW g \in Draws, Fits(g), NEW s \in Slots, FindQueued(s),
         Turn(s), UNCHANGED deviceVars, Told(g, call[s])
  PROVE  Fits(g)'
<1>1. /\ call[s].at = "queued" /\ call[s].op \in {"bytes", "complete", "abort"}
      /\ UNCHANGED <<bucket, upload, file>>
      /\ call[s] \in Requests /\ call[s].key \in UploadKeys
  BY DEF FindQueued, AtOf, At, rows, Typed, ServerTyped, CallsTyped, Asked
<1>2. PICK k \in UploadKeys : k = call[s].key
  BY <1>1
<1>3. CASE Answers(s, "missing") \/ Answers(s, "rejected")
  BY <1>1, <1>3, AnswersServed
<1>4. CASE /\ upload[k].state = "queued" /\ call[s].op = "bytes"
           /\ ~(Checked(k) /\ call[s].bytes # upload[k].md5) /\ Goes(s, "put")
  <2>1. PICK n : n = [call[s] EXCEPT !.at = "put"]
    OBVIOUS
  <2>2. /\ call'[s] = n /\ n.op = call[s].op /\ n.item = call[s].item /\ n.key = k
        /\ n.at = "put" /\ n.bytes = call[s].bytes
    BY <1>1, <1>2, <1>4, <2>1 DEF Goes, Typed, ServerTyped, CallsTyped, Requests
  <2>3. Ready(g, n)
    BY <1>1, <1>2, <1>4, <2>2 DEF Told, Ready
  <2> QED BY <1>1, <1>2, <2>2, <2>3, LearnsServed
<1>5. CASE /\ upload[k].state = "queued" /\ call[s].op = "complete"
           /\ call' = [call EXCEPT ![s].at = "object", ![s].md5 = upload[k].md5,
                                   ![s].direct = upload[k].multipart]
  <2>1. PICK n : n = [call[s] EXCEPT !.at = "object", !.md5 = upload[k].md5,
                                     !.direct = upload[k].multipart]
    OBVIOUS
  <2>2. /\ call'[s] = n /\ n.op = call[s].op /\ n.item = call[s].item /\ n.key = k
        /\ n.at = "object" /\ n.md5 = upload[k].md5
    BY <1>1, <1>2, <1>5, <2>1 DEF Typed, ServerTyped, CallsTyped, Requests
  <2>3. upload[k].md5 = g[k].md5
    BY <1>5 DEF Fits, UploadServed, NoUpload
  <2>4. Ready(g, n)
    BY <2>2, <2>3 DEF Ready
  <2> QED BY <1>1, <1>2, <1>5, <2>2, <2>4, LearnsServed
<1>6. CASE Goes(s, "forget")
  BY <1>1, <1>6, GoesServed DEF Ats, Unmarked
<1>7. \/ Answers(s, "missing") \/ Answers(s, "rejected") \/ Goes(s, "forget")
      \/ /\ upload[k].state = "queued" /\ call[s].op = "bytes"
         /\ ~(Checked(k) /\ call[s].bytes # upload[k].md5) /\ Goes(s, "put")
      \/ /\ upload[k].state = "queued" /\ call[s].op = "complete"
         /\ call' = [call EXCEPT ![s].at = "object", ![s].md5 = upload[k].md5,
                                 ![s].direct = upload[k].multipart]
  BY <1>1, <1>2 DEF FindQueued
<1> QED BY <1>3, <1>4, <1>5, <1>6, <1>7

LEMMA PutBytesServed ==
  ASSUME Typed, ServerTyped', NEW g \in Draws, Fits(g), NEW s \in Slots, PutBytes(s), Turn(s),
         UNCHANGED deviceVars
  PROVE  Fits(g)'
<1>1. /\ call[s].at = "put" /\ call[s].op = "bytes" /\ UNCHANGED <<upload, file, item>>
      /\ call[s] \in Requests /\ call[s].key \in UploadKeys /\ bucket \in [Names -> Bytes]
  BY DEF PutBytes, At, rows, Typed, ServerTyped, CallsTyped, Asked, StoresTyped
<1>2. PICK k \in UploadKeys : k = call[s].key
  BY <1>1
<1>3. PICK n : n = [call[s] EXCEPT !.at = "mark"]
  OBVIOUS
<1>4. /\ call'[s] = n /\ n.op = "bytes" /\ n.item = call[s].item /\ n.key = k
      /\ n.at = "mark"
  BY <1>1, <1>2, <1>3 DEF PutBytes, Goes, Typed, ServerTyped, CallsTyped, Requests
<1>5. bucket' = [bucket EXCEPT ![UploadName(k)] = g[k].md5] /\ UploadName(k) \in Names
  BY <1>1, <1>2, NamesTyped DEF PutBytes, Fits, CallServed, Ready
<1>6. Written(g, k)'
  BY <1>1, <1>5 DEF Written
<1>7. Writes(call[s], k) /\ \A h \in UploadKeys : Writes(n, h) => Writes(call[s], h)
  BY <1>1, <1>2, <1>4 DEF Writes
<1>8. /\ \A h \in UploadKeys : Sealed(g, h) => Sealed(g, h)'
      /\ \A i \in Items : \A m \in Contents : Copied(i, m) => Copied(i, m)'
      /\ Copies'
      /\ \A t \in Slots : t # s /\ call[t].at = "mark" => Written(g, call[t].key)'
  <2>1. \A t \in Slots : t # s => call'[t] = call[t]
    BY DEF Turn
  <2>2. \A i \in Items : item'[i].live => item[i].live
    BY <1>1
  <2>3. \A name \in Names : name # UploadName(k) => bucket'[name] = bucket[name]
    BY <1>1, <1>5
  <2>4. \A h \in UploadKeys : Writes(call'[s], h) => Writes(call[s], h)
    BY <1>4, <1>7
  <2> QED BY <1>7, <2>1, <2>2, <2>3, <2>4, WriterCalm
<1>9. Calm(g) => CallServed(g, s, n)'
  BY <1>1, <1>2, <1>4, <1>6, <1>7, MarkServed
<1>10. Calm(g) => CallServed(g, s, call[s])'
  BY <1>4, <1>9
<1> QED BY <1>1, <1>8, <1>10, TurnServed

(* The rest of a query that answers after it has written an object. *)
LEMMA WriterAnswers ==
  ASSUME Typed, ServerTyped', NEW g \in Draws, Fits(g), NEW s \in Slots, Turn(s),
         UNCHANGED <<rows, deviceVars>>, NEW k \in UploadKeys, Writes(call[s], k),
         call[s].at # "end", NEW answer, Answers(s, answer),
         \A name \in Names : name # UploadName(k) => bucket'[name] = bucket[name]
  PROVE  Fits(g)'
<1>1. PICK c \in Requests : c = call[s]
  BY DEF Typed, ServerTyped, CallsTyped
<1>2. PICK n \in Requests : n = call'[s] /\ Asked(n)
  BY DEF ServerTyped, CallsTyped
<1>3. n = Answered(c, answer)
  BY <1>1, <1>2 DEF Answers, Typed, ServerTyped, CallsTyped
<1>4. CallServed(g, s, c)
  BY <1>1 DEF Fits
<1>5. CallServed(g, s, n) /\ n.at = "end"
  BY <1>1, <1>3, <1>4, AnsweredServed
<1>6. Calm(g) => CallServed(g, s, n)'
  BY <1>2, <1>5, CallKept
<1>7. Calm(g) => CallServed(g, s, call[s])'
  BY <1>2, <1>6
<1>8. \A h \in UploadKeys : Writes(call'[s], h) => Writes(call[s], h)
  BY AnsweredWrites
<1>9. /\ \A h \in UploadKeys : Sealed(g, h) => Sealed(g, h)'
      /\ \A i \in Items : \A m \in Contents : Copied(i, m) => Copied(i, m)'
      /\ Copies'
      /\ \A t \in Slots : t # s /\ call[t].at = "mark" => Written(g, call[t].key)'
  <2>1. \A t \in Slots : t # s => call'[t] = call[t]
    BY DEF Turn
  <2>2. \A i \in Items : item'[i].live => item[i].live
    BY DEF rows
  <2> QED BY <1>8, <2>1, <2>2, WriterCalm
<1>10. UNCHANGED <<upload, file>>
  BY DEF rows
<1> QED BY <1>7, <1>9, <1>10, TurnServed

LEMMA DiscardObjectServed ==
  ASSUME Typed, ServerTyped', NEW g \in Draws, Fits(g), NEW s \in Slots, DiscardObject(s),
         Turn(s), UNCHANGED deviceVars
  PROVE  Fits(g)'
<1>1. /\ call[s].at = "discard" /\ call[s].op = "complete" /\ UNCHANGED rows
      /\ call[s].key \in UploadKeys /\ bucket \in [Names -> Bytes] /\ Answers(s, "rejected")
  BY DEF DiscardObject, At, rows, Typed, ServerTyped, CallsTyped, Asked, StoresTyped
<1>2. PICK k \in UploadKeys : k = call[s].key
  BY <1>1
<1>3. Writes(call[s], k)
  BY <1>1, <1>2 DEF Writes
<1>4. \A name \in Names : name # UploadName(k) => bucket'[name] = bucket[name]
  BY <1>1, <1>2 DEF DiscardObject
<1> QED BY <1>1, <1>3, <1>4, WriterAnswers

LEMMA InspectObjectServed ==
  ASSUME Typed, ServerTyped', NEW g \in Draws, Fits(g), NEW s \in Slots, InspectObject(s),
         Turn(s), UNCHANGED deviceVars, Told(g, call[s])
  PROVE  Fits(g)'
<1>1. /\ call[s].at = "object" /\ call[s].op = "complete" /\ UNCHANGED <<upload, file, item>>
      /\ call[s] \in Requests /\ call[s].key \in UploadKeys /\ bucket \in [Names -> Bytes]
  BY DEF InspectObject, At, rows, Typed, ServerTyped, CallsTyped, Asked, StoresTyped
<1>2. PICK k \in UploadKeys, object \in Bytes :
        /\ k = call[s].key
        /\ object = IF call[s].direct THEN parts[k] ELSE bucket[UploadName(k)]
  BY <1>1, NamesTyped DEF Typed, ServerTyped, StoresTyped, Bytes
<1>3. /\ bucket' = IF call[s].direct /\ object # None
                   THEN [bucket EXCEPT ![UploadName(k)] = object] ELSE bucket
      /\ \/ \E answer : Answers(s, answer)
         \/ object # None /\ Size[object] # Size[call[s].md5] /\ Goes(s, "discard")
         \/ object # None /\ Size[object] = Size[call[s].md5] /\ Goes(s, "mark")
  BY <1>2 DEF InspectObject
<1>4. UploadName(k) \in Names /\ \A name \in Names :
        name # UploadName(k) => bucket'[name] = bucket[name]
  BY <1>1, <1>3, NamesTyped
<1>5. Writes(call[s], k)
  BY <1>1, <1>2 DEF Writes
<1>6. CASE \E answer : Answers(s, answer)
  BY <1>1, <1>4, <1>5, <1>6, WriterAnswers DEF rows
<1>7. ASSUME NEW at \in {"discard", "mark"}, Goes(s, at),
             at = "mark" => object # None /\ Size[object] = Size[call[s].md5]
      PROVE  Fits(g)'
  <2>1. PICK n : n = [call[s] EXCEPT !.at = at]
    OBVIOUS
  <2>2. /\ call'[s] = n /\ n.op = call[s].op /\ n.item = call[s].item /\ n.key = k
        /\ n.at = at /\ n \in Requests /\ Asked(n)
    BY <1>1, <1>2, <1>7, <2>1 DEF Goes, Typed, ServerTyped, CallsTyped, Requests
  <2>3. \A h \in UploadKeys : Writes(call'[s], h) => Writes(call[s], h)
    BY <1>1, <1>2, <2>2 DEF Writes
  <2>4. /\ \A h \in UploadKeys : Sealed(g, h) => Sealed(g, h)'
        /\ \A i \in Items : \A m \in Contents : Copied(i, m) => Copied(i, m)'
        /\ Copies'
        /\ \A t \in Slots : t # s /\ call[t].at = "mark" => Written(g, call[t].key)'
    <3>1. \A t \in Slots : t # s => call'[t] = call[t]
      BY DEF Turn
    <3>2. \A i \in Items : item'[i].live => item[i].live
      BY <1>1
    <3> QED BY <1>4, <1>5, <2>3, <3>1, <3>2, WriterCalm
  <2>5. ASSUME at = "mark" PROVE Written(g, k)'
    <3>1. call[s].md5 = g[k].md5
      BY <1>1, <1>2 DEF Fits, CallServed, Ready
    <3>2. object = g[k].md5
      BY <1>1, <1>2, <1>7, <2>5, <3>1 DEF Told
    <3>3. bucket'[UploadName(k)] = g[k].md5
      BY <1>1, <1>2, <1>3, <1>4, <2>5, <1>7, <3>2
    <3> QED BY <3>3 DEF Written
  <2>6. Calm(g) => CallServed(g, s, n)'
    <3>1. CASE at = "mark"
      BY <1>1, <1>2, <2>2, <2>5, <3>1, MarkServed
    <3>2. CASE at = "discard"
      <4>1. CallServed(g, s, call[s]) /\ Ready(g, n) /\ n.found = call[s].found
        BY <1>1, <2>1, <2>2, <3>2 DEF Fits, Ready, Requests
      <4>2. PICK c : c = call[s]
        OBVIOUS
      <4>3. CallServed(g, s, n)
        BY <1>1, <1>2, <2>2, <4>1, <4>2, GoesOnServed
      <4> QED BY <2>2, <3>2, <4>3, CallKept
    <3> QED BY <3>1, <3>2
  <2>7. Calm(g) => CallServed(g, s, call[s])'
    BY <2>2, <2>6
  <2> QED BY <1>1, <2>4, <2>7, TurnServed
<1> QED BY <1>3, <1>6, <1>7

LEMMA MarkUploadedServed ==
  ASSUME Typed, ServerTyped', NEW g \in Draws, Fits(g), NEW s \in Slots, MarkUploaded(s),
         Turn(s), UNCHANGED deviceVars
  PROVE  Fits(g)'
<1>1. /\ call[s].at = "mark" /\ call[s].op \in {"bytes", "complete"} /\ Answers(s, "ok")
      /\ UNCHANGED <<item, file, bucket>> /\ call[s].key \in UploadKeys
  BY DEF MarkUploaded, At, Typed, ServerTyped, CallsTyped, Asked
<1>2. PICK k \in UploadKeys : k = call[s].key
  BY <1>1
<1>3. upload' = IF upload[k].state = "none" THEN upload
                ELSE [upload EXCEPT ![k].state = "uploaded"]
  BY <1>2 DEF MarkUploaded
<1>4. \A h \in UploadKeys : ~Writes(call'[s], h)
  BY <1>1, AnsweredWrites
<1>5. Written(g, k)'
  <2>1. Written(g, k)
    BY <1>1, <1>2 DEF Fits, CallServed, Ready
  <2> QED BY <1>1, <2>1 DEF Written
<1>6. \A t \in Slots : t # s => ~Writes(call'[t], k)
  <2>1. Writes(call[s], k)
    BY <1>1, <1>2 DEF Writes
  <2>2. g[k].slot = s /\ \A t \in Slots : Writes(call[t], k) => g[k].slot = t
    BY <2>1 DEF Fits, CallServed, Owned
  <2> QED BY <2>2 DEF Turn
<1>7. Sealed(g, k)'
  BY <1>4, <1>5, <1>6 DEF Sealed
<1>8. \A h \in UploadKeys : upload'[h] = upload[h] \/ UploadServed(g, h)'
  <2>1. CASE upload[k].state # "none"
    <3>1. /\ upload'[k].item = upload[k].item /\ upload'[k].md5 = upload[k].md5
          /\ upload[k] # NoUpload
          /\ \A h \in UploadKeys : h # k => upload'[h] = upload[h]
      BY <1>3, <2>1 DEF Typed, ServerTyped, RowsTyped, Uploads, NoUpload
    <3> QED BY <1>7, <3>1 DEF UploadServed, Fits
  <2> QED BY <1>3, <2>1
<1> QED BY <1>1, <1>8, AnswersServed

(* A deletion that has found more objects of its item. *)
LEMMA FindsServed ==
  ASSUME Typed, ServerTyped', NEW g \in Draws, Fits(g), NEW s \in Slots, Turn(s),
         UNCHANGED <<rows, bucket, deviceVars>>, call[s].op = "delete", NEW n, call'[s] = n,
         n.op = "delete", n.item = call[s].item, Ready(g, n), n.at # "mark",
         \A name \in n.found \cup {n.key} :
            name \in call[s].found \cup {call[s].key, None} \/ Belongs(g, name, n.item)
  PROVE  Fits(g)'
<1>1. PICK c : c = call[s]
  OBVIOUS
<1>2. Owned(g, s, c)
  BY <1>1 DEF Fits, CallServed
<1>3. Owned(g, s, n)
  BY <1>1, <1>2 DEF Owned, Writes
<1>4. CallServed(g, s, n) /\ \A k \in UploadKeys : ~Writes(n, k)
  BY <1>3 DEF CallServed, Writes
<1>5. n \in Requests /\ Asked(n) /\ UNCHANGED <<upload, file>>
  BY DEF ServerTyped, CallsTyped, rows
<1> QED BY <1>4, <1>5, QuietServed

LEMMA ReadDeletedServed ==
  ASSUME Typed, ServerTyped', NEW g \in Draws, Fits(g), NEW s \in Slots, ReadDeleted(s),
         Turn(s), UNCHANGED deviceVars
  PROVE  Fits(g)'
<1>1. /\ call[s].at = "rows" /\ call[s].op = "delete" /\ UNCHANGED <<rows, bucket>>
      /\ UNCHANGED <<upload, file>> /\ call[s] \in Requests /\ call[s].item \in Items
  BY DEF ReadDeleted, At, rows, Typed, ServerTyped, CallsTyped, Asked
<1>2. PICK i \in Items : i = call[s].item
  BY <1>1
<1>3. CASE Answers(s, "ok")
  BY <1>1, <1>3, AnswersServed
<1>4. CASE call' = [call EXCEPT ![s].at = "uploads", ![s].found = {file[i].at} \ {None}]
  <2>1. PICK n : n = [call[s] EXCEPT !.at = "uploads", !.found = {file[i].at} \ {None}]
    OBVIOUS
  <2>2. /\ call'[s] = n /\ n.op = "delete" /\ n.item = i /\ n.key = call[s].key
        /\ n.at = "uploads" /\ n.found = {file[i].at} \ {None}
    BY <1>1, <1>2, <1>4, <2>1 DEF Typed, ServerTyped, CallsTyped, Requests
  <2>3. \A name \in n.found : Belongs(g, name, i)
    BY <2>2, RowServes DEF NoFile
  <2>4. Ready(g, n)
    BY <2>2 DEF Ready
  <2> QED BY <1>1, <1>2, <2>2, <2>3, <2>4, FindsServed
<1> QED BY <1>2, <1>3, <1>4 DEF ReadDeleted

LEMMA ReadUploadsServed ==
  ASSUME Typed, ServerTyped', NEW g \in Draws, Fits(g), NEW s \in Slots, ReadUploads(s),
         Turn(s), UNCHANGED deviceVars
  PROVE  Fits(g)'
<1>1. /\ call[s].at = "uploads" /\ call[s].op = "delete" /\ UNCHANGED <<rows, bucket>>
      /\ call[s] \in Requests /\ call[s].item \in Items
  BY DEF ReadUploads, At, rows, Typed, ServerTyped, CallsTyped, Asked
<1>2. PICK i \in Items, sent \in SUBSET UploadKeys :
        /\ i = call[s].item
        /\ sent = {k \in UploadsOf(i) : upload[k].state # "queued"}
  BY <1>1 DEF UploadsOf
<1>3. call' = [call EXCEPT ![s].at = "erase",
                           ![s].found = call[s].found \cup {UploadName(k) : k \in sent}]
  BY <1>1, <1>2 DEF ReadUploads, Typed, ServerTyped, CallsTyped
<1>4. PICK n : n = [call[s] EXCEPT !.at = "erase",
                                   !.found = call[s].found \cup {UploadName(k) : k \in sent}]
  OBVIOUS
<1>5. /\ call'[s] = n /\ n.op = "delete" /\ n.item = i /\ n.key = call[s].key
      /\ n.at = "erase" /\ n.found = call[s].found \cup {UploadName(k) : k \in sent}
  BY <1>1, <1>2, <1>3, <1>4 DEF Typed, ServerTyped, CallsTyped, Requests
<1>6. ASSUME NEW k \in sent PROVE Belongs(g, UploadName(k), i)
  <2>1. k \in UploadKeys /\ upload[k].item = i /\ upload[k] # NoUpload
    BY <1>2, <1>6, NamesTyped DEF UploadsOf, NoUpload
  <2>2. g[k].item = i
    BY <2>1 DEF Fits, UploadServed
  <2> QED BY <2>1, <2>2 DEF Belongs
<1>7. Ready(g, n)
  BY <1>5 DEF Ready
<1> QED BY <1>1, <1>2, <1>5, <1>6, <1>7, FindsServed

LEMMA CheckReferenceServed ==
  ASSUME Typed, ServerTyped', NEW g \in Draws, Fits(g), NEW s \in Slots, CheckReference(s),
         Turn(s), UNCHANGED deviceVars
  PROVE  Fits(g)'
<1>1. /\ call[s].at = "objects" /\ call[s].op = "delete" /\ UNCHANGED <<rows, bucket>>
      /\ UNCHANGED <<upload, file>> /\ call[s] \in Requests /\ call[s].item \in Items
      /\ ~item[call[s].item].live
  BY DEF CheckReference, At, rows, Typed, ServerTyped, CallsTyped, Asked, Fits, CallServed, Ready
<1>2. CASE Answers(s, "ok")
  BY <1>1, <1>2, AnswersServed
<1>3. ASSUME NEW name \in call[s].found,
             call' = [call EXCEPT ![s].found = call[s].found \ {name}]
      PROVE  Fits(g)'
  <2>1. PICK n : n = [call[s] EXCEPT !.found = call[s].found \ {name}]
    OBVIOUS
  <2>2. /\ call'[s] = n /\ n.op = "delete" /\ n.item = call[s].item /\ n.key = call[s].key
        /\ n.at = "objects" /\ n.found = call[s].found \ {name}
    BY <1>1, <1>3, <2>1 DEF Typed, ServerTyped, CallsTyped, Requests
  <2>3. Ready(g, n)
    BY <1>1, <2>2 DEF Ready
  <2> QED BY <1>1, <2>2, <2>3, FindsServed
<1>4. ASSUME NEW name \in call[s].found,
             call' = [call EXCEPT ![s].at = "remove", ![s].found = call[s].found \ {name},
                                  ![s].key = name]
      PROVE  Fits(g)'
  <2>1. PICK n : n = [call[s] EXCEPT !.at = "remove", !.found = call[s].found \ {name},
                                     !.key = name]
    OBVIOUS
  <2>2. /\ call'[s] = n /\ n.op = "delete" /\ n.item = call[s].item /\ n.key = name
        /\ n.at = "remove" /\ n.found = call[s].found \ {name}
    BY <1>1, <1>4, <2>1 DEF Typed, ServerTyped, CallsTyped, Requests
  <2>3. Ready(g, n)
    BY <1>1, <2>2 DEF Ready
  <2> QED BY <1>1, <2>2, <2>3, FindsServed
<1>5. \/ Answers(s, "ok")
      \/ \E name \in call[s].found :
            \/ call' = [call EXCEPT ![s].found = call[s].found \ {name}]
            \/ call' = [call EXCEPT ![s].at = "remove", ![s].found = call[s].found \ {name},
                                    ![s].key = name]
  BY <1>1 DEF CheckReference, Typed, ServerTyped, CallsTyped
<1> QED BY <1>2, <1>3, <1>4, <1>5

LEMMA EraseItemServed ==
  ASSUME Typed, ServerTyped', NEW g \in Draws, Fits(g), NEW s \in Slots, EraseItem(s), Turn(s),
         UNCHANGED deviceVars
  PROVE  Fits(g)'
<1>1. /\ call[s].at = "erase" /\ call[s].op = "delete" /\ UNCHANGED bucket
      /\ call[s] \in Requests /\ call[s].item \in Items
  BY DEF EraseItem, At, rows, Typed, ServerTyped, CallsTyped, Asked
<1>2. PICK i \in Items : i = call[s].item
  BY <1>1
<1>3. /\ ~item'[i].live
      /\ file' = [file EXCEPT ![i] = NoFile]
      /\ \A k \in UploadKeys : upload'[k] \in {NoUpload, upload[k]}
  BY <1>2 DEF EraseItem, Typed, ServerTyped, RowsTyped
<1>4. PICK n : n = [call[s] EXCEPT !.at = "objects"]
  OBVIOUS
<1>5. /\ call'[s] = n /\ n.op = "delete" /\ n.item = i /\ n.key = call[s].key
      /\ n.at = "objects" /\ n.found = call[s].found
  BY <1>1, <1>2, <1>4 DEF EraseItem, Goes, Typed, ServerTyped, CallsTyped, Requests
<1>6. \A k \in UploadKeys : ~Writes(call'[s], k)
  BY <1>5 DEF Writes
<1>7. /\ \A k \in UploadKeys : Written(g, k) => Written(g, k)'
      /\ \A k \in UploadKeys : Sealed(g, k) => Sealed(g, k)'
      /\ \A j \in Items : \A m \in Contents : Copied(j, m) => Copied(j, m)'
  <2>1. \A j \in Items : item'[j].live => item[j].live
    BY DEF Turn
  <2> QED BY <1>1, <1>6, <2>1, QuietCalm
<1>8. Copies'
  BY <1>1 DEF Fits, Copies
<1>9. ASSUME NEW t \in Slots, t # s, call[t].at = "mark" PROVE Written(g, call[t].key)'
  BY <1>7, <1>9, MarkedWritten DEF Turn
<1>10. Calm(g) => CallServed(g, s, n)'
  <2>1. Owned(g, s, call[s]) /\ Born(i)
    BY <1>1, <1>2 DEF Fits, CallServed, Owned
  <2>2. Calm(g) => Born(i)'
    BY <2>1 DEF Calm
  <2>3. Calm(g) => Owned(g, s, n)'
    <3>1. \A name \in n.found \cup {n.key} : name = None \/ Belongs(g, name, i)
      BY <1>1, <1>2, <1>5, <2>1 DEF Owned
    <3> QED BY <1>5, <2>2, <3>1 DEF Owned, Writes, Belongs, FileName, UploadName
  <2>4. Ready(g, n)'
    BY <1>3, <1>5 DEF Ready
  <2> QED BY <2>3, <2>4 DEF CallServed
<1>11. Calm(g) => CallServed(g, s, call[s])'
  BY <1>5, <1>10
<1>12. \A k \in UploadKeys : upload'[k] = upload[k] \/ UploadServed(g, k)'
  <2> SUFFICES ASSUME NEW k \in UploadKeys, upload'[k] = NoUpload PROVE UploadServed(g, k)'
    BY <1>3
  <2> QED BY NoUploadTyped DEF UploadServed
<1>13. \A j \in Items : file'[j] = file[j] \/ RowServed(g, j)'
  BY <1>3 DEF RowServed, Typed, ServerTyped, RowsTyped
<1> QED BY <1>7, <1>8, <1>9, <1>11, <1>12, <1>13, TurnServed

(* What a deletion removes belongs to its item, which is gone. *)
LEMMA RemoveObjectServed ==
  ASSUME Typed, ServerTyped', NEW g \in Draws, Fits(g), NEW s \in Slots, RemoveObject(s),
         Turn(s), UNCHANGED deviceVars
  PROVE  Fits(g)'
<1>1. /\ call[s].at = "remove" /\ call[s].op = "delete" /\ UNCHANGED <<item, file, upload>>
      /\ call[s] \in Requests /\ call[s].item \in Items /\ call[s].key \in Names
      /\ bucket \in [Names -> Bytes]
  BY DEF RemoveObject, At, rows, Typed, ServerTyped, CallsTyped, Asked, StoresTyped
<1>2. PICK i \in Items, name \in Names : i = call[s].item /\ name = call[s].key
  BY <1>1
<1>3. Belongs(g, name, i) /\ ~item[i].live
  BY <1>1, <1>2, NamesTyped DEF Fits, CallServed, Owned, Ready
<1>4. /\ bucket'[name] = None
      /\ \A other \in Names : other # name => bucket'[other] = bucket[other]
  BY <1>1, <1>2 DEF RemoveObject
<1>5. PICK n : n = [call[s] EXCEPT !.at = "objects"]
  OBVIOUS
<1>6. /\ call'[s] = n /\ n.op = "delete" /\ n.item = i /\ n.key = call[s].key
      /\ n.at = "objects" /\ n.found = call[s].found /\ n \in Requests /\ Asked(n)
  BY <1>1, <1>2, <1>5 DEF RemoveObject, Goes, Typed, ServerTyped, CallsTyped, Requests
<1>7. ASSUME NEW k \in UploadKeys, Written(g, k) PROVE Written(g, k)'
  <2>1. UploadName(k) = name => g[k].item = i
    BY <1>3, NamesApart DEF Belongs
  <2>2. UploadName(k) # name => bucket'[UploadName(k)] = bucket[UploadName(k)]
    BY <1>4, NamesTyped
  <2> QED BY <1>1, <1>3, <1>4, <1>7, <2>1, <2>2 DEF Written
<1>8. ASSUME NEW k \in UploadKeys, Sealed(g, k) PROVE Sealed(g, k)'
  BY <1>6, <1>7, <1>8 DEF Sealed, Turn, Writes
<1>9. ASSUME NEW j \in Items, NEW m \in Contents
      PROVE  /\ Copied(j, m) => Copied(j, m)'
             /\ bucket'[FileName(j, m)] \in {m, None}
  <2>1. FileName(j, m) = name => j = i
    BY <1>3, NamesApart DEF Belongs
  <2>2. FileName(j, m) # name => bucket'[FileName(j, m)] = bucket[FileName(j, m)]
    BY <1>4, NamesTyped
  <2> QED BY <1>1, <1>3, <1>4, <2>1, <2>2 DEF Copied, Copies, Fits
<1>10. Copies'
  BY <1>9 DEF Copies
<1>11. ASSUME NEW t \in Slots, t # s, call[t].at = "mark" PROVE Written(g, call[t].key)'
  BY <1>7, <1>11, MarkedWritten DEF Turn
<1>12. CallServed(g, s, n)
  <2>1. PICK c : c = call[s]
    OBVIOUS
  <2>2. CallServed(g, s, c)
    BY <2>1 DEF Fits
  <2>3. Ready(g, n)
    BY <1>3, <1>6 DEF Ready
  <2> QED BY <1>1, <1>2, <1>6, <2>1, <2>2, <2>3, GoesOnServed
<1>13. Calm(g) => CallServed(g, s, n)'
  BY <1>6, <1>12, CallKept
<1>14. Calm(g) => CallServed(g, s, call[s])'
  BY <1>6, <1>13
<1> QED BY <1>1, <1>8, <1>9, <1>10, <1>11, <1>14, TurnServed

LEMMA RedirectDownloadServed ==
  ASSUME Typed, ServerTyped', NEW g \in Draws, Fits(g), NEW s \in Slots, RedirectDownload(s),
         Turn(s), UNCHANGED deviceVars
  PROVE  Fits(g)'
<1>1. /\ call[s].at = "row" /\ call[s].op = "download" /\ UNCHANGED <<bucket, upload, file>>
      /\ call[s] \in Requests
  BY DEF RedirectDownload, AtOf, At, rows, Typed, ServerTyped, CallsTyped
<1>2. CASE Answers(s, "missing")
  BY <1>1, <1>2, AnswersServed
<1>3. ASSUME NEW md5, call' = [call EXCEPT ![s].at = "raw", ![s].md5 = md5] PROVE Fits(g)'
  <2>1. PICK n : n = [call[s] EXCEPT !.at = "raw", !.md5 = md5]
    OBVIOUS
  <2>2. /\ call'[s] = n /\ n.op = call[s].op /\ n.item = call[s].item /\ n.key = call[s].key
        /\ n.at = "raw"
    BY <1>1, <1>3, <2>1 DEF Typed, ServerTyped, CallsTyped, Requests
  <2> QED BY <1>1, <2>2, LearnsServed DEF Ready
<1> QED BY <1>2, <1>3 DEF RedirectDownload

LEMMA FindRawServed ==
  ASSUME Typed, ServerTyped', NEW g \in Draws, Fits(g), NEW s \in Slots, FindRaw(s),
         Turn(s), UNCHANGED deviceVars
  PROVE  Fits(g)'
<1>1. /\ call[s].at = "raw" /\ call[s].op = "download" /\ UNCHANGED <<bucket, upload, file>>
      /\ call[s] \in Requests
  BY DEF FindRaw, At, rows, Typed, ServerTyped, CallsTyped, Asked
<1>2. CASE Answers(s, "missing")
  BY <1>1, <1>2, AnswersServed
<1>3. ASSUME NEW names, call' = [call EXCEPT ![s].at = "get", ![s].found = names] PROVE Fits(g)'
  <2>1. PICK n : n = [call[s] EXCEPT !.at = "get", !.found = names]
    OBVIOUS
  <2>2. /\ call'[s] = n /\ n.op = call[s].op /\ n.item = call[s].item /\ n.key = call[s].key
        /\ n.at = "get"
    BY <1>1, <1>3, <2>1 DEF Typed, ServerTyped, CallsTyped, Requests
  <2> QED BY <1>1, <2>2, LearnsServed DEF Ready
<1> QED BY <1>2, <1>3 DEF FindRaw

LEMMA GetRawServed ==
  ASSUME Typed, ServerTyped', NEW g \in Draws, Fits(g), NEW s \in Slots, GetRaw(s),
         Turn(s), UNCHANGED deviceVars
  PROVE  Fits(g)'
<1>1. /\ call[s].at = "get" /\ call[s].op = "download" /\ UNCHANGED <<bucket, upload, file>>
      /\ call[s] \in Requests
  BY DEF GetRaw, At, rows, Typed, ServerTyped, CallsTyped, Asked
<1>2. PICK name \in call[s].found :
        call' = [call EXCEPT ![s] =
                   IF bucket[name] = None THEN Answered(call[s], "missing")
                   ELSE Answered([call[s] EXCEPT !.bytes = bucket[name]], "ok")]
  BY <1>1 DEF GetRaw, Typed, ServerTyped, CallsTyped
<1>3. CASE bucket[name] = None
  BY <1>1, <1>2, <1>3, AnswersServed DEF Answers, Typed, ServerTyped, CallsTyped
<1>4. CASE bucket[name] # None
  <2>1. PICK c : c = [call[s] EXCEPT !.bytes = bucket[name]]
    OBVIOUS
  <2>2. /\ c.op = "download" /\ c.item = call[s].item /\ c.key = call[s].key /\ c.at = "get"
        /\ c.found = call[s].found
    BY <1>1, <2>1 DEF Requests
  <2>3. c \in Requests
    <3>1. bucket[name] \in Bytes
      BY <1>1, <1>2 DEF Requests, Typed, ServerTyped, StoresTyped
    <3> QED BY <1>1, <2>1, <3>1 DEF Requests
  <2>4. CallServed(g, s, call[s]) /\ Ready(g, c)
    BY <2>2 DEF Ready, Fits
  <2>5. PICK old : old = call[s]
    OBVIOUS
  <2>6. CallServed(g, s, c) /\ \A k \in UploadKeys : Writes(c, k) => Writes(old, k)
    BY <1>1, <2>2, <2>4, <2>5, GoesOnServed
  <2>7. PICK n : n = Answered(c, "ok")
    OBVIOUS
  <2>8. /\ CallServed(g, s, n) /\ n.at = "end"
        /\ \A k \in UploadKeys : Writes(n, k) => Writes(c, k)
    BY <2>2, <2>3, <2>6, <2>7, AnsweredServed
  <2>9. call'[s] = n /\ n \in Requests /\ Asked(n)
    BY <1>2, <1>4, <2>1, <2>7 DEF Typed, ServerTyped, CallsTyped
  <2> QED BY <1>1, <2>5, <2>6, <2>8, <2>9, QuietServed
<1> QED BY <1>3, <1>4

(* A new key: what it was drawn for before does not matter, for nothing    *)
(* refers to it.                                                           *)
LEMMA InsertUploadServed ==
  ASSUME Typed, ServerTyped', NEW g \in Draws, Fits(g), NEW s \in Slots, NEW k \in NewKeys,
         InsertUpload(s, k), Turn(s), UNCHANGED deviceVars, NEW h,
         h = [g EXCEPT ![k] = [item |-> call[s].item, md5 |-> call[s].md5, slot |-> s]]
  PROVE  h \in Draws /\ Fits(h)'
<1>1. /\ call[s].at = "insert" /\ call[s].op = "authorize" /\ UNCHANGED <<item, file>>
      /\ call[s] \in Requests /\ call[s].md5 \in Contents /\ call[s].item \in Items
      /\ bucket \in [Names -> Bytes] /\ k \in UploadKeys
  BY DEF InsertUpload, At, Typed, ServerTyped, CallsTyped, Asked, StoresTyped, NewKeys
<1>2. PICK i \in Items, m \in Contents, c \in Requests :
        i = call[s].item /\ m = call[s].md5 /\ c = call[s]
  BY <1>1
<1>3. /\ h \in Draws /\ h[k].item = i /\ h[k].md5 = m /\ h[k].slot = s
      /\ \A q \in UploadKeys : q # k => h[q] = g[q]
  BY <1>1, <1>2 DEF Draws
<1>4. PICK n \in Requests :
        /\ call'[s] = n /\ Asked(n)
        /\ \/ /\ n.op = "authorize" /\ n.item = i /\ n.key = k /\ n.found = {}
              /\ n.at \in {"end", "prepare", "withdraw"}
           \/ n = Idle
  <2> DEFINE asks == [c EXCEPT !.key = k, !.found = {}]
  <2>1. /\ asks \in Requests /\ asks.op = "authorize" /\ asks.item = i /\ asks.key = k
        /\ asks.found = {} /\ asks.at = "insert" /\ asks.heard = c.heard
        /\ asks.direct = c.direct
    BY <1>1, <1>2 DEF Requests
  <2>2. \/ call'[s] = Answered(asks, "ok")
        \/ call'[s] = [asks EXCEPT !.at = "prepare"]
        \/ call'[s] = [asks EXCEPT !.at = "withdraw"]
    BY <1>1, <1>2 DEF InsertUpload, Typed, ServerTyped, CallsTyped
  <2> HIDE DEF asks
  <2>3. CASE call'[s] = [asks EXCEPT !.at = "prepare"]
    BY <2>1, <2>3 DEF Requests, ServerTyped, CallsTyped
  <2>4. CASE call'[s] = [asks EXCEPT !.at = "withdraw"]
    BY <2>1, <2>4 DEF Requests, ServerTyped, CallsTyped
  <2>5. CASE call'[s] = Answered(asks, "ok")
    <3>1. PICK r : r = Answered(asks, "ok")
      OBVIOUS
    <3>2. \/ r.op = "authorize" /\ r.item = i /\ r.key = k /\ r.found = {} /\ r.at = "end"
          \/ r = Idle
      <4>1. asks.heard => r = [asks EXCEPT !.at = "end", !.answer = "ok", !.found = {}]
        BY <3>1 DEF Answered
      <4>2. ~asks.heard => r = Idle
        BY <3>1 DEF Answered
      <4> QED BY <2>1, <4>1, <4>2 DEF Requests
    <3>3. r \in Requests /\ Asked(r) /\ call'[s] = r
      BY <2>5, <3>1 DEF ServerTyped, CallsTyped
    <3> QED BY <3>2, <3>3
  <2> QED BY <2>2, <2>3, <2>4, <2>5
<1>5. /\ \A j \in Items : file[j].at # UploadName(k)
      /\ \A t \in Slots : /\ call[t].key \notin {k, UploadName(k)}
                          /\ UploadName(k) \notin call[t].found
      /\ \A d \in Devices : job[d].key # k
  BY DEF NewKeys
<1>6. /\ bucket' = [bucket EXCEPT ![UploadName(k)] = None]
      /\ \A q \in UploadKeys : q # k => upload'[q] = upload[q]
      /\ upload'[k].state = "queued" /\ upload'[k].item = i /\ upload'[k].md5 = m
  BY <1>1, <1>2 DEF InsertUpload, Typed, ServerTyped, RowsTyped
<1>7. \A name \in Names : name # UploadName(k) => bucket'[name] = bucket[name]
  BY <1>1, <1>6
<1>8. \A t \in Slots : t # s => call'[t] = call[t]
  BY DEF Turn
<1>9. ASSUME NEW q \in UploadKeys, q # k PROVE Written(g, q) => Written(h, q)'
  <2>1. UploadName(q) # UploadName(k) /\ UploadName(q) \in Names
    BY <1>1, <1>9, NamesApart, NamesTyped
  <2>2. bucket'[UploadName(q)] = bucket[UploadName(q)] /\ h[q] = g[q]
    BY <1>3, <1>7, <1>9, <2>1
  <2> QED BY <1>1, <2>2 DEF Written
<1>10. ASSUME NEW q \in UploadKeys, q # k, Sealed(g, q) PROVE Sealed(h, q)'
  <2>1. ~Writes(call'[s], q)
    BY <1>4, <1>10, IdleServed DEF Writes
  <2> QED BY <1>8, <1>9, <1>10, <2>1 DEF Sealed
<1>11. \A j \in Items, o \in Contents : bucket'[FileName(j, o)] = bucket[FileName(j, o)]
  BY <1>1, <1>7, NamesApart, NamesTyped
<1>12. (\A j \in Items : \A o \in Contents : Copied(j, o) => Copied(j, o)') /\ Copies'
  BY <1>1, <1>11 DEF Copied, Copies, Fits
<1>13. \A j \in Items : Born(j)' <=> Born(j)
  BY TurnCalm
<1>14. ASSUME NEW j \in Items, NEW o \in Contents, NEW name, name # UploadName(k)
       PROVE  Serves(g, j, o, name) => Serves(h, j, o, name)'
  BY <1>3, <1>10, <1>12, <1>14 DEF Serves
<1>15. ASSUME NEW j \in Items, NEW name, name # UploadName(k)
       PROVE  Belongs(g, name, j) => Belongs(h, name, j)
  BY <1>3, <1>15 DEF Belongs
<1>16. Born(i)'
  BY <1>1, <1>2, <1>13 DEF Fits, CallServed, Owned
<1>17. ASSUME NEW t \in Slots, t # s PROVE CallServed(h, t, call[t])'
  <2>1. PICK r \in Requests : r = call[t]
    BY DEF Typed, ServerTyped, CallsTyped
  <2>2. /\ Asked(r) /\ Owned(g, t, r) /\ Ready(g, r) /\ call'[t] = r
        /\ r.key \notin {k, UploadName(k)} /\ UploadName(k) \notin r.found
    BY <1>5, <1>8, <1>17, <2>1 DEF Typed, ServerTyped, CallsTyped, Fits, CallServed
  <2>3. Owned(h, t, r)'
    <3>1. r.op # "none" => Born(r.item)'
      BY <1>13, <2>2 DEF Owned, Asked
    <3>2. r.op # "delete" /\ r.key \in UploadKeys => h[r.key].item = r.item
      BY <1>3, <2>2 DEF Owned
    <3>3. \A q \in UploadKeys : Writes(r, q) => h[q].slot = t
      BY <1>3, <2>2 DEF Owned, Writes
    <3>4. r.op = "delete" =>
            \A name \in r.found \cup {r.key} : name = None \/ Belongs(h, name, r.item)
      BY <1>15, <2>2 DEF Owned, Asked
    <3>5. r.op = "delete" =>
            \A name \in r.found \cup {r.key} : name = None \/ Belongs(h, name, r.item)'
      BY <3>4 DEF Belongs, FileName, UploadName
    <3> QED BY <3>1, <3>2, <3>3, <3>5 DEF Owned, Writes
  <2>4. Ready(h, r)'
    <3>1. r.at = "source" =>
            \A name \in r.found : \E j \in Items : Born(j)' /\ Serves(h, j, r.md5, name)'
      <4> SUFFICES ASSUME r.at = "source", NEW name \in r.found
                   PROVE  \E j \in Items : Born(j)' /\ Serves(h, j, r.md5, name)'
        OBVIOUS
      <4>1. r.md5 \in Contents /\ name # UploadName(k)
        BY <2>2 DEF Asked
      <4>2. PICK j \in Items : Born(j) /\ Serves(g, j, r.md5, name)
        BY <2>2 DEF Ready
      <4> QED BY <1>13, <1>14, <4>1, <4>2
    <3>2. r.at = "associate" => Copied(r.item, r.md5)'
      BY <1>12, <2>2 DEF Ready, Asked
    <3>3. r.at \in {"put", "object", "mark", "file"} => r.key \in UploadKeys /\ h[r.key] = g[r.key]
      BY <1>3, <2>2 DEF Asked
    <3>4. r.at = "mark" => Written(h, r.key)'
      BY <1>9, <2>2, <3>3 DEF Ready
    <3>5. r.at = "file" => Sealed(h, r.key)'
      BY <1>10, <2>2, <3>3 DEF Ready
    <3> QED BY <1>1, <2>2, <3>1, <3>2, <3>3, <3>4, <3>5 DEF Ready
  <2> QED BY <2>2, <2>3, <2>4 DEF CallServed
<1>18. CallServed(h, s, call[s])'
  <2>1. CASE n = Idle
    <3>1. CallServed(h, s, n)
      BY <1>3, <2>1, IdleServed
    <3>2. n.op = "none" /\ n.at = "end" /\ n.key = None
      BY <2>1 DEF Idle
    <3>3. CallServed(h, s, n)'
      BY <3>2, NamesTyped DEF CallServed, Owned, Ready, Writes
    <3> QED BY <1>4, <3>3
  <2>2. CASE n # Idle
    <3>1. Owned(h, s, n)'
      BY <1>1, <1>3, <1>4, <1>16, <2>2 DEF Owned, Writes
    <3>2. Ready(h, n)'
      BY <1>4, <2>2 DEF Ready
    <3> QED BY <1>4, <3>1, <3>2 DEF CallServed
  <2> QED BY <2>1, <2>2
<1>19. ASSUME NEW q \in UploadKeys PROVE UploadServed(h, q)' /\ Born(h[q].item)'
  <2>1. CASE q = k
    BY <1>3, <1>6, <1>16, <2>1 DEF UploadServed
  <2>2. CASE q # k
    <3>1. /\ upload'[q] = upload[q] /\ h[q] = g[q] /\ UploadServed(g, q) /\ Born(g[q].item)
          /\ g[q].item \in Items
      BY <1>3, <1>6, <2>2 DEF Fits, Draws
    <3> QED BY <1>10, <1>13, <2>2, <3>1 DEF UploadServed
  <2> QED BY <2>1, <2>2
<1>20. ASSUME NEW j \in Items PROVE RowServed(h, j)'
  <2>1. CASE file[j] # NoFile
    <3>1. PICK row \in [md5 : Contents, at : Names] : row = file[j]
      BY <2>1 DEF Typed, ServerTyped, RowsTyped, Placed
    <3>2. Born(j) /\ Serves(g, j, row.md5, row.at) /\ row.at # UploadName(k)
      BY <1>5, <2>1, <3>1 DEF Fits, RowServed
    <3>3. Born(j)' /\ Serves(h, j, row.md5, row.at)'
      BY <1>13, <1>14, <3>2
    <3> QED BY <1>1, <3>1, <3>3 DEF RowServed
  <2> QED BY <1>1, <2>1 DEF RowServed
<1>21. ASSUME NEW d \in Devices PROVE JobServed(h, job[d])'
  <2>1. JobServed(g, job[d])' /\ job'[d].key # k
    BY <1>5, TurnCalm DEF deviceVars
  <2> QED BY <1>3, <2>1 DEF JobServed
<1>22. AddedOnce'
  BY TurnCalm
<1> QED BY <1>3, <1>12, <1>17, <1>18, <1>19, <1>20, <1>21, <1>22 DEF Fits

(* Every step of the server. *)
LEMMA QueryServed ==
  ASSUME Typed, ServerTyped', NEW g \in Draws, Fits(g), NEW s \in Slots, Query(s), Turn(s),
         UNCHANGED deviceVars, Told(g, call[s])
  PROVE  Fits(g)'
  BY FindItemServed, CompareFileServed, FindKnownServed, ReadSourceServed, CopySourceServed,
     AssociateServed, WithdrawUploadServed, PrepareUploadServed, FindUploadServed,
     RegisterFileServed, FindQueuedServed, PutBytesServed, InspectObjectServed,
     DiscardObjectServed, MarkUploadedServed, ForgetUploadServed, ReadDeletedServed,
     ReadUploadsServed, EraseItemServed, CheckReferenceServed, RemoveObjectServed,
     RedirectDownloadServed, FindRawServed, GetRawServed DEF Query

(* Bodies are checked, and sizes tell contents apart. *)
Distinguishable ==
  /\ Binary = {}
  /\ \A b, c \in Contents : Size[b] = Size[c] => b = c

LEMMA AllTold ==
  ASSUME Distinguishable, Typed, NEW g \in Draws, Fits(g), NEW s \in Slots
  PROVE  Told(g, call[s])
<1>1. PICK c \in Requests : c = call[s]
  BY DEF Typed, ServerTyped, CallsTyped
<1>2. Asked(c) /\ Ready(g, c)
  BY <1>1 DEF Typed, ServerTyped, CallsTyped, Fits, CallServed
<1>3. ASSUME c.at = "queued", c.op = "bytes", upload[c.key].state = "queued"
      PROVE  (Checked(c.key) /\ c.bytes # upload[c.key].md5) \/ c.bytes = g[c.key].md5
  <2>1. PICK k \in UploadKeys : k = c.key
    BY <1>2, <1>3 DEF Asked
  <2>2. upload[k].md5 = g[k].md5
    BY <1>3, <2>1 DEF Fits, UploadServed, NoUpload
  <2> QED BY <2>1, <2>2 DEF Checked, Distinguishable
<1>4. ASSUME c.at = "object", NEW object \in {parts[c.key], bucket[UploadName(c.key)]} \ {None},
             Size[object] = Size[c.md5]
      PROVE  object = c.md5
  <2>1. PICK k \in UploadKeys : k = c.key
    BY <1>2, <1>4 DEF Asked
  <2>2. c.md5 \in Contents
    BY <1>2, <1>4, <2>1 DEF Ready, Draws
  <2>3. object \in Contents
    BY <1>4, <2>1, NamesTyped DEF Typed, ServerTyped, StoresTyped, Bytes
  <2> QED BY <1>4, <2>2, <2>3 DEF Distinguishable
<1> QED BY <1>1, <1>3, <1>4 DEF Told

LEMMA ServerStepServed ==
  ASSUME Distinguishable, Typed, Served, NEW s \in Slots, ServerStep(s)
  PROVE  Served'
<1>1. ServerTyped' /\ Turn(s) /\ UNCHANGED deviceVars
  BY ServerStepTyped DEF Typed
<1>2. PICK g \in Draws : Fits(g)
  BY DEF Served
<1>3. CASE Query(s)
  <2>1. Fits(g)'
    BY <1>1, <1>2, <1>3, AllTold, QueryServed
  <2> QED BY <2>1 DEF Served, Draws
<1>4. CASE DrawKey(s)
  <2>1. PICK k \in NewKeys : InsertUpload(s, k)
    BY <1>4 DEF DrawKey
  <2>2. PICK h : h = [g EXCEPT ![k] = [item |-> call[s].item, md5 |-> call[s].md5, slot |-> s]]
    OBVIOUS
  <2>3. h \in Draws /\ Fits(h)'
    BY <1>1, <1>2, <2>1, <2>2, InsertUploadServed
  <2> QED BY <2>3 DEF Served, Draws
<1> QED BY <1>3, <1>4 DEF ServerStep

(***************************************************************************)
(* The devices' steps                                                      *)
(***************************************************************************)

LEMMA SyncedBorn ==
  ASSUME Typed, AddedOnce, NEW d \in Devices, NEW i \in Items, record[d][i].known = "synced"
  PROVE  Born(i)
<1>1. i \notin OnOffer
  BY DEF Typed, DevicesTyped, Unknown
<1>2. \A e \in Devices : record[e][i].known # "new"
  BY DEF AddedOnce
<1> QED BY <1>1, <1>2 DEF Born

(* What a device does not do to items: no other one is added, none appears *)
(* by itself, and only the one who added an item makes it live.            *)
Settled(d) ==
  \A i \in Items :
     /\ record'[d][i].known = "new" => record[d][i].known = "new"
     /\ record[d][i].known = "no" /\ ~item[i].live => record'[d][i].known = "no"
     /\ item'[i].live =>
           item[i].live \/ (record[d][i].known = "new" /\ record'[d][i].known # "new")

LEMMA BornStays ==
  ASSUME NEW d \in Devices, Steady(d), NEW i \in Items, Born(i)
  PROVE  Born(i)'
  BY DEF Steady, Born

LEMMA SettledOnce ==
  ASSUME NEW d \in Devices, Steady(d), Settled(d), AddedOnce
  PROVE  AddedOnce' /\ \A i \in Items : Born(i) => (item'[i].live => item[i].live)
<1>1. ASSUME NEW e \in Devices, NEW i \in Items, record'[e][i].known = "new"
      PROVE  ~item'[i].live /\ \A f \in Devices \ {e} : record'[f][i].known = "no"
  <2>1. record[e][i].known = "new"
    BY <1>1 DEF Steady, Settled
  <2>2. ~item[i].live /\ \A f \in Devices \ {e} : record[f][i].known = "no"
    BY <2>1 DEF AddedOnce
  <2>3. ~item'[i].live
    BY <1>1, <2>2 DEF Settled
  <2>4. ASSUME NEW f \in Devices \ {e} PROVE record'[f][i].known = "no"
    BY <2>2 DEF Steady, Settled
  <2> QED BY <2>3, <2>4
<1> QED BY <1>1 DEF AddedOnce, Settled, Born

(* What is left to show of a step of a device. *)
LEMMA StepServed ==
  ASSUME Typed, NEW g \in Draws, Fits(g), NEW d \in Devices, Steady(d), AddedOnce', Calm(g),
         Copies', UNCHANGED <<upload, file>>, NEW j, job'[d] = j, JobServed(g, j), j \in Jobs,
         j.at \notin {"idle", "next"} => j.item \in Items,
         \A t \in Slots : call'[t] = call[t] \/ CallServed(g, t, call[t])',
         \A t \in Slots : call'[t] = call[t] /\ call[t].at = "mark" => Written(g, call[t].key)'
  PROVE  Fits(g)'
<1>1. ASSUME NEW t \in Slots PROVE CallServed(g, t, call[t])'
  <2>1. CASE call'[t] = call[t]
    <3>1. PICK c \in Requests : c = call[t]
      BY DEF Typed, ServerTyped, CallsTyped
    <3>2. Asked(c) /\ CallServed(g, t, c) /\ call'[t] = c
      BY <2>1, <3>1 DEF Typed, ServerTyped, CallsTyped, Fits
    <3>3. c.at = "mark" => Written(g, c.key)'
      BY <2>1, <3>1
    <3>4. CallServed(g, t, c)'
      BY <3>2, <3>3, CallKept
    <3> QED BY <3>2, <3>4
  <2> QED BY <2>1
<1>2. ASSUME NEW k \in UploadKeys PROVE UploadServed(g, k)' /\ Born(g[k].item)'
  BY DEF Fits, UploadServed, Calm, Draws
<1>3. ASSUME NEW i \in Items PROVE RowServed(g, i)'
  <2>1. CASE file[i] # NoFile
    <3>1. PICK row \in [md5 : Contents, at : Names] : row = file[i]
      BY <2>1 DEF Typed, ServerTyped, RowsTyped, Placed
    <3>2. Born(i) /\ Serves(g, i, row.md5, row.at)
      BY <2>1, <3>1 DEF Fits, RowServed
    <3>3. Born(i)' /\ Serves(g, i, row.md5, row.at)'
      BY <3>2, ServesStill
    <3> QED BY <3>1, <3>3 DEF RowServed
  <2> QED BY <2>1 DEF RowServed
<1>4. ASSUME NEW e \in Devices PROVE JobServed(g, job[e])'
  <2>1. PICK q \in Jobs : q = job'[e] /\ JobServed(g, q)
        /\ (q.at \notin {"idle", "next"} => q.item \in Items)
    <3>1. CASE e = d
      BY <3>1
    <3>2. CASE e # d
      <4>1. job'[e] = job[e] /\ job[e] \in Jobs /\ JobTyped(e) /\ JobServed(g, job[e])
        BY <3>2, JobBefore DEF Steady, Fits
      <4> QED BY <4>1 DEF JobTyped, InHand
    <3> QED BY <3>1, <3>2
  <2>2. \A r \in q.todo : Born(r.item)'
    BY <2>1, BornStays DEF JobServed, Jobs
  <2>3. q.at \notin {"idle", "next"} => Born(q.item)'
    BY <2>1, BornStays DEF JobServed
  <2>4. q.key \in UploadKeys => g[q.key].item = q.item
    BY <2>1 DEF JobServed
  <2>5. JobServed(g, q)'
    BY <2>2, <2>3, <2>4 DEF JobServed
  <2> QED BY <2>1, <2>5
<1> QED BY <1>1, <1>2, <1>3, <1>4 DEF Fits

(* A request that was sent, or given up, by a device. *)
Moved(g, s, n) ==
  /\ CallServed(g, s, n)
  /\ \A k \in UploadKeys : Writes(n, k) => Writes(call[s], k)

(* A step of a device that sends no file. *)
LEMMA DeviceServed ==
  ASSUME Typed, Typed', NEW g \in Draws, Fits(g), NEW d \in Devices, Steady(d), AddedOnce',
         \A i \in Items : Born(i) => (item'[i].live => item[i].live),
         UNCHANGED <<upload, file, bucket>>, JobServed(g, job'[d]),
         \A t \in Slots : call'[t] = call[t] \/ Moved(g, t, call'[t])
  PROVE  Fits(g)'
<1>1. \A k \in UploadKeys : Written(g, k) => Written(g, k)'
  BY DEF Written, Draws, Fits
<1>2. ASSUME NEW k \in UploadKeys, Sealed(g, k) PROVE Sealed(g, k)'
  <2>1. Written(g, k)' /\ \A t \in Slots : ~Writes(call[t], k)
    BY <1>1, <1>2 DEF Sealed
  <2>2. \A t \in Slots : ~Writes(call'[t], k)
    BY <2>1 DEF Moved
  <2> QED BY <2>1, <2>2 DEF Sealed
<1>3. Calm(g)
  <2>1. \A i \in Items : Born(i) => Born(i)'
    BY BornStays
  <2>2. \A i \in Items : \A m \in Contents : Born(i) /\ Copied(i, m) => Copied(i, m)'
    BY DEF Copied
  <2> QED BY <1>2, <2>1, <2>2 DEF Calm
<1>4. Copies'
  BY DEF Fits, Copies
<1>5. ASSUME NEW t \in Slots, call'[t] # call[t] PROVE CallServed(g, t, call[t])'
  <2>1. PICK n \in Requests : n = call'[t] /\ Asked(n)
    BY DEF Typed, ServerTyped, CallsTyped
  <2>2. CallServed(g, t, n)
    BY <1>5, <2>1 DEF Moved
  <2>3. n.at = "mark" => n.key \in UploadKeys /\ Written(g, n.key)
    BY <2>1, <2>2 DEF CallServed, Ready, Asked
  <2>4. n.at = "mark" => Written(g, n.key)'
    BY <1>1, <2>3
  <2>5. CallServed(g, t, n)'
    BY <1>3, <2>1, <2>2, <2>4, CallKept
  <2> QED BY <2>1, <2>5
<1>6. ASSUME NEW t \in Slots, call'[t] = call[t], call[t].at = "mark"
      PROVE  Written(g, call[t].key)'
  BY <1>1, <1>6, MarkedWritten
<1>7. PICK j \in Jobs : j = job'[d] /\ (j.at \notin {"idle", "next"} => j.item \in Items)
  BY DEF Typed, JobsTyped, JobTyped, InHand
<1>8. JobServed(g, j)
  BY <1>7
<1> QED BY <1>3, <1>4, <1>5, <1>6, <1>7, <1>8, StepServed

LEMMA StaySettled ==
  ASSUME NEW d \in Devices, UNCHANGED <<record, item>>
  PROVE  Settled(d)
  BY DEF Settled

LEMMA SetsSettled ==
  ASSUME Typed, NEW d \in Devices, NEW i \in Items, NEW r, Sets(d, i, r),
         r.known = "new" => record[d][i].known = "new",
         record[d][i].known = "no" /\ ~item[i].live => r.known = "no",
         \A j \in Items : item'[j].live => item[j].live
  PROVE  Settled(d)
<1>1. /\ record'[d][i] = r /\ \A j \in Items : j # i => record'[d][j] = record[d][j]
  BY DEF Typed, DevicesTyped, Sets
<1> QED BY <1>1 DEF Settled

LEMMA CompletedSettled ==
  ASSUME Typed, NEW d \in Devices, NEW i \in Items, NEW path, NEW md5,
         Sets(d, i, Completed(record[d][i], path, md5)), UNCHANGED item
  PROVE  Settled(d)
<1>1. PICK r \in Records : r = record[d][i]
  BY RecordTyped DEF Typed
<1>2. PICK n : n = Completed(r, path, md5)
  OBVIOUS
<1>3. n.known = r.known
  BY <1>2 DEF Completed, Records
<1>4. Sets(d, i, n)
  BY <1>1, <1>2
<1> QED BY <1>1, <1>3, <1>4, SetsSettled

LEMMA FailedSettled ==
  ASSUME Typed, NEW d \in Devices, NEW i \in Items, NEW upload_ \in BOOLEAN,
         Sets(d, i, Failed(record[d][i], upload_)), UNCHANGED item
  PROVE  Settled(d)
<1>1. record[d][i] \in Records /\ RecordOK(disk[d][i], record[d][i])
  BY RecordTyped DEF Typed
<1>2. PICK n : n = Failed(record[d][i], upload_)
  OBVIOUS
<1>3. n.known = record[d][i].known
  BY <1>1, <1>2, FailedOK
<1>4. Sets(d, i, n)
  BY <1>2
<1> QED BY <1>3, <1>4, SetsSettled

LEMMA NewCallMoved ==
  ASSUME NEW g \in Draws, NEW s \in Slots, NEW n, n.op # "none", Born(n.item),
         n.at \in {"item", "row", "rows", "queued"},
         n.key \in UploadKeys => g[n.key].item = n.item,
         n.op = "delete" => n.found = {} /\ n.key = None,
         \A k \in UploadKeys : ~Writes(n, k)
  PROVE  Moved(g, s, n)
<1>1. Owned(g, s, n)
  BY DEF Owned
<1>2. Ready(g, n)
  BY DEF Ready
<1> QED BY <1>1, <1>2 DEF Moved, CallServed

LEMMA IdleMoved == ASSUME NEW g \in Draws, NEW s \in Slots PROVE Moved(g, s, Idle)
  BY IdleServed DEF Moved

LEMMA AbandonedMoved ==
  ASSUME Typed, NEW g \in Draws, Fits(g), NEW s \in Slots
  PROVE  Moved(g, s, Abandoned(call[s]))
<1>1. PICK c \in Requests : c = call[s] /\ CallServed(g, s, c)
  BY DEF Typed, ServerTyped, CallsTyped, Fits
<1>2. CASE c.at = "end"
  BY <1>1, <1>2, IdleMoved DEF Abandoned
<1>3. CASE c.at # "end"
  <2>1. PICK n : n = [c EXCEPT !.heard = FALSE]
    OBVIOUS
  <2>2. /\ n.op = c.op /\ n.at = c.at /\ n.item = c.item /\ n.key = c.key /\ n.found = c.found
        /\ n.md5 = c.md5 /\ n.bytes = c.bytes
    BY <2>1 DEF Requests
  <2>3. Ready(g, n)
    BY <1>1, <2>2 DEF CallServed, Ready
  <2>4. CallServed(g, s, n) /\ \A k \in UploadKeys : Writes(n, k) => Writes(c, k)
    BY <1>1, <1>3, <2>2, <2>3, GoesOnServed
  <2> QED BY <1>1, <1>3, <2>1, <2>4 DEF Abandoned, Moved
<1> QED BY <1>2, <1>3

(* A step of a device that sends nothing. *)
LEMMA AloneServed ==
  ASSUME Typed, Typed', NEW g \in Draws, Fits(g), NEW d \in Devices, Steady(d), AddedOnce',
         \A i \in Items : Born(i) => (item'[i].live => item[i].live),
         UNCHANGED <<upload, file, bucket, call>>, UNCHANGED job
  PROVE  Fits(g)'
<1>1. JobServed(g, job'[d])
  BY DEF Fits
<1> QED BY <1>1, DeviceServed

LEMMA ImportServed ==
  ASSUME Typed, NEW g \in Draws, Fits(g), NEW d \in Devices, NEW i \in Items, Import(d, i)
  PROVE  Fits(g)'
<1>1. Typed' /\ Steady(d)
  BY ImportTyped
<1>2. /\ UNCHANGED serverVars /\ UNCHANGED job
      /\ Sets(d, i, [NoRecord EXCEPT !.known = "new", !.path = "imported", !.cache = "downloaded"])
      /\ i \in OnOffer
  BY DEF Import, OnOffer
<1>3. UNCHANGED <<upload, file, bucket, call, item>>
  BY <1>2 DEF serverVars, rows
<1>4. /\ record'[d][i].known = "new" /\ Unknown(i)
      /\ \A e \in Devices : \A j \in Items : e # d \/ j # i => record'[e][j] = record[e][j]
  BY <1>2 DEF Typed, DevicesTyped, Sets, NoRecord
<1>5. AddedOnce'
  <2> SUFFICES ASSUME NEW e \in Devices, NEW j \in Items, record'[e][j].known = "new"
               PROVE  ~item'[j].live /\ \A f \in Devices \ {e} : record'[f][j].known = "no"
    BY DEF AddedOnce
  <2>1. CASE j = i
    BY <1>3, <1>4, <2>1 DEF Unknown
  <2>2. CASE j # i
    BY <1>3, <1>4, <2>2 DEF Fits, AddedOnce
  <2> QED BY <2>1, <2>2
<1> QED BY <1>1, <1>2, <1>3, <1>5, AloneServed

LEMMA EditFileServed ==
  ASSUME Typed, NEW g \in Draws, Fits(g), NEW d \in Devices, NEW i \in Items, EditFile(d, i)
  PROVE  Fits(g)'
<1>1. Typed' /\ Steady(d)
  BY EditFileTyped
<1>2. UNCHANGED <<upload, file, bucket, call, item, record>> /\ UNCHANGED job
  BY DEF EditFile, serverVars, rows
<1>3. AddedOnce'
  BY <1>1, <1>2, StaySettled, SettledOnce DEF Fits
<1> QED BY <1>1, <1>2, <1>3, AloneServed

LEMMA RetryDueServed ==
  ASSUME Typed, NEW g \in Draws, Fits(g), NEW d \in Devices, NEW i \in Items, RetryDue(d, i)
  PROVE  Fits(g)'
<1>1. Typed' /\ Steady(d)
  BY RetryDueTyped
<1>2. UNCHANGED <<upload, file, bucket, call, item>> /\ UNCHANGED job
  BY DEF RetryDue, serverVars, rows
<1>3. PICK r : r = [record[d][i] EXCEPT !.waits = FALSE]
  OBVIOUS
<1>4. Sets(d, i, r) /\ r.known = record[d][i].known
  BY <1>3, RecordTyped DEF RetryDue, Typed, Records
<1>5. AddedOnce'
  BY <1>1, <1>2, <1>4, SetsSettled, SettledOnce DEF Fits
<1> QED BY <1>1, <1>2, <1>5, AloneServed

LEMMA UploadMetadataServed ==
  ASSUME Typed, NEW g \in Draws, Fits(g), NEW d \in Devices, NEW i \in Items, UploadMetadata(d, i)
  PROVE  Fits(g)'
<1>1. Typed' /\ Steady(d)
  BY UploadMetadataTyped
<1>2. UNCHANGED <<upload, file, bucket, call>> /\ UNCHANGED job
  BY DEF UploadMetadata
<1>3. /\ record[d][i].known = "new" /\ record'[d][i].known = "synced"
      /\ \A j \in Items : j # i => record'[d][j] = record[d][j] /\ item'[j] = item[j]
  BY DEF UploadMetadata, Sets, Typed, DevicesTyped, Records, ServerTyped, RowsTyped
<1>4. Settled(d)
  BY <1>3 DEF Settled
<1>5. AddedOnce' /\ \A j \in Items : Born(j) => (item'[j].live => item[j].live)
  BY <1>1, <1>4, SettledOnce DEF Fits
<1> QED BY <1>1, <1>2, <1>5, AloneServed

LEMMA PullServed ==
  ASSUME Typed, NEW g \in Draws, Fits(g), NEW d \in Devices, NEW i \in Items, Pull(d, i)
  PROVE  Fits(g)'
<1>1. Typed' /\ Steady(d)
  BY PullTyped
<1>2. UNCHANGED <<upload, file, bucket, call>> /\ UNCHANGED job
  BY DEF Pull
<1>3. PICK r : r = IF item[i].live THEN Pulled(record[d][i], item[i].md5) ELSE NoRecord
  OBVIOUS
<1>4. /\ Sets(d, i, r) /\ \A j \in Items : item'[j].live => item[j].live
  BY <1>3 DEF Pull, Typed, ServerTyped, RowsTyped
<1>5. r.known # "new" /\ (~item[i].live => r.known = "no")
  BY <1>3, RecordTyped DEF NoRecord, Pulled, Typed, Records
<1>6. Settled(d)
  BY <1>4, <1>5, SetsSettled
<1>7. AddedOnce'
  BY <1>1, <1>6, SettledOnce DEF Fits
<1> QED BY <1>1, <1>2, <1>4, <1>7, AloneServed

LEMMA RemoveItemServed ==
  ASSUME Typed, NEW g \in Draws, Fits(g), NEW d \in Devices, NEW i \in Items, RemoveItem(d, i)
  PROVE  Fits(g)'
<1>1. Typed' /\ Steady(d)
  BY RemoveItemTyped
<1>2. /\ record[d][i].known = "synced" /\ Sets(d, i, NoRecord) /\ FreeSlots # {}
      /\ call' = [call EXCEPT ![FreeSlot] = Call("delete", i, FALSE)]
      /\ UNCHANGED <<upload, file, bucket, item>> /\ UNCHANGED job
  BY DEF RemoveItem, Sends, rows
<1>3. FreeSlot \in Slots
  BY <1>2, FreeSlotIsFree
<1>4. PICK n : n = Call("delete", i, FALSE)
  OBVIOUS
<1>5. /\ n.op = "delete" /\ n.item = i /\ n.at = "rows" /\ n.key = None /\ n.found = {}
  BY <1>4 DEF Call, Idle, FirstQuery
<1>6. Born(i)
  BY <1>2, SyncedBorn DEF Fits
<1>7. \A k \in UploadKeys : ~Writes(n, k)
  BY <1>5 DEF Writes
<1>8. \A s \in Slots : Moved(g, s, n)
  BY <1>5, <1>6, <1>7, NamesTyped, NewCallMoved
<1>9. \A t \in Slots : call'[t] = call[t] \/ Moved(g, t, call'[t])
  BY <1>2, <1>4, <1>8 DEF Typed, ServerTyped, CallsTyped
<1>10. Settled(d)
  BY <1>2, SetsSettled DEF NoRecord
<1>11. AddedOnce' /\ \A j \in Items : Born(j) => (item'[j].live => item[j].live)
  BY <1>1, <1>10, SettledOnce DEF Fits
<1>12. JobServed(g, job'[d])
  BY <1>2 DEF Fits
<1> QED BY <1>1, <1>2, <1>9, <1>11, <1>12, DeviceServed

(* A step of a device that leaves the items alone. *)
LEMMA WorksServed ==
  ASSUME Typed, Typed', NEW g \in Draws, Fits(g), NEW d \in Devices, Steady(d), Settled(d),
         UNCHANGED <<upload, file, bucket, item>>, NEW j, job'[d] = j, JobServed(g, j),
         \A t \in Slots : call'[t] = call[t] \/ Moved(g, t, call'[t])
  PROVE  Fits(g)'
<1>1. AddedOnce' /\ \A i \in Items : Born(i) => (item'[i].live => item[i].live)
  BY SettledOnce DEF Fits
<1> QED BY <1>1, DeviceServed

LEMMA StartUploadServed ==
  ASSUME Typed, NEW g \in Draws, Fits(g), NEW d \in Devices, StartUpload(d)
  PROVE  Fits(g)'
<1>1. Typed' /\ Steady(d)
  BY StartUploadTyped
<1>2. PICK todo : todo = {[item |-> i, path |-> record[d][i].path,
                           remote |-> record[d][i].remote] : i \in Pending(d)}
  OBVIOUS
<1>3. PICK j : j = [NoJob EXCEPT !.at = "next", !.todo = todo]
  OBVIOUS
<1>4. /\ job'[d] = j /\ UNCHANGED <<upload, file, bucket, item, record, call>>
  BY <1>2, <1>3, JobBefore DEF StartUpload, serverVars, rows
<1>5. j.at = "next" /\ j.todo = todo /\ j.key = None
  BY <1>3 DEF NoJob
<1>6. \A r \in todo : Born(r.item)
  BY <1>2, SyncedBorn DEF Pending, Fits
<1>7. JobServed(g, j)
  BY <1>5, <1>6, NamesTyped DEF JobServed
<1> QED BY <1>1, <1>4, <1>7, StaySettled, WorksServed

LEMMA EndUploadServed ==
  ASSUME Typed, NEW g \in Draws, Fits(g), NEW d \in Devices, EndUpload(d)
  PROVE  Fits(g)'
<1>1. Typed' /\ Steady(d)
  BY EndUploadTyped
<1>2. /\ job'[d] = NoJob /\ UNCHANGED <<upload, file, bucket, item, record, call>>
  BY JobBefore DEF EndUpload, serverVars, rows
<1>3. JobServed(g, NoJob)
  BY NoJobTyped, NamesTyped DEF JobServed
<1> QED BY <1>1, <1>2, <1>3, StaySettled, WorksServed

LEMMA SkipCurrentServed ==
  ASSUME Typed, NEW g \in Draws, Fits(g), NEW d \in Devices, SkipCurrent(d)
  PROVE  Fits(g)'
<1>1. Typed' /\ Steady(d)
  BY SkipCurrentTyped
<1>2. PICK r \in job[d].todo :
         /\ job' = [job EXCEPT ![d].todo = @ \ {r}]
         /\ Sets(d, r.item, Completed(record[d][r.item], r.path, disk[d][r.item][r.path]))
  BY DEF SkipCurrent
<1>3. UNCHANGED <<upload, file, bucket, item, call>> /\ r.item \in Items
  BY JobBefore DEF SkipCurrent, serverVars, rows, Jobs
<1>4. PICK j : j = [job[d] EXCEPT !.todo = @ \ {r}]
  OBVIOUS
<1>5. /\ job'[d] = j /\ j.at = job[d].at /\ j.todo \subseteq job[d].todo /\ j.key = job[d].key
      /\ j.item = job[d].item
  BY <1>2, <1>4, JobBefore DEF Jobs
<1>6. JobServed(g, j)
  BY <1>5 DEF Fits, JobServed
<1>7. Settled(d)
  BY <1>2, <1>3, CompletedSettled
<1> QED BY <1>1, <1>3, <1>5, <1>6, <1>7, WorksServed

LEMMA CompletesServed ==
  ASSUME Typed, Typed', NEW g \in Draws, Fits(g), NEW d \in Devices, Steady(d),
         job[d].slot # None, Completes(d), UNCHANGED <<upload, file, bucket, item>>
  PROVE  Fits(g)'
<1>1. /\ Sets(d, job[d].item, Completed(record[d][job[d].item], job[d].path, job[d].digest))
      /\ call' = [call EXCEPT ![job[d].slot] = Idle] /\ job[d].item \in Items
      /\ job'[d] = Next_(job[d])
  BY Waiting, JobBefore DEF Completes, InHand
<1>2. JobServed(g, Next_(job[d]))
  BY NamesTyped DEF JobServed, Next_, NoJob, Fits
<1>3. Settled(d)
  BY <1>1, CompletedSettled
<1>4. \A t \in Slots : call'[t] = call[t] \/ Moved(g, t, call'[t])
  BY <1>1, IdleMoved DEF Typed, ServerTyped, CallsTyped
<1> QED BY <1>1, <1>2, <1>3, <1>4, WorksServed

LEMMA FailsServed ==
  ASSUME Typed, Typed', NEW g \in Draws, Fits(g), NEW d \in Devices, Steady(d),
         job[d].slot # None, Fails(d), UNCHANGED <<upload, file, bucket, item>>
  PROVE  Fits(g)'
<1>1. /\ call' = [call EXCEPT ![job[d].slot] = Idle] /\ UNCHANGED record
      /\ job[d].at \notin {"idle", "next"}
      /\ job' = [job EXCEPT ![d].at = "failed", ![d].slot = None]
  BY Waiting DEF Fails
<1>2. PICK j : j = [job[d] EXCEPT !.at = "failed", !.slot = None]
  OBVIOUS
<1>3. job'[d] = j /\ j.todo = job[d].todo /\ j.key = job[d].key /\ j.item = job[d].item
  BY <1>1, <1>2, JobBefore DEF Jobs
<1>4. JobServed(g, j)
  BY <1>1, <1>3 DEF JobServed, Fits
<1>5. \A t \in Slots : call'[t] = call[t] \/ Moved(g, t, call'[t])
  BY <1>1, IdleMoved DEF Typed, ServerTyped, CallsTyped
<1> QED BY <1>1, <1>3, <1>4, <1>5, StaySettled, WorksServed

LEMMA FailServed ==
  ASSUME Typed, NEW g \in Draws, Fits(g), NEW d \in Devices, Fail(d)
  PROVE  Fits(g)'
<1>1. Typed' /\ Steady(d)
  BY FailTyped
<1>2. /\ job[d].at \in {"failed", "abort"}
      /\ Sets(d, job[d].item, Failed(record[d][job[d].item], TRUE))
      /\ call' = IF job[d].slot = None THEN call ELSE [call EXCEPT ![job[d].slot] = Idle]
      /\ job'[d] = Next_(job[d]) /\ UNCHANGED <<upload, file, bucket, item>>
  BY JobBefore DEF Fail, rows
<1>3. job[d].item \in Items
  BY <1>2, JobBefore DEF JobTyped, InHand
<1>4. JobServed(g, Next_(job[d]))
  BY NamesTyped DEF JobServed, Next_, NoJob, Fits
<1>5. \E upload_ \in BOOLEAN : Sets(d, job[d].item, Failed(record[d][job[d].item], upload_))
  BY <1>2, Zenon
<1>6. Settled(d)
  BY <1>2, <1>3, <1>5, FailedSettled
<1>7. \A t \in Slots : call'[t] = call[t] \/ Moved(g, t, call'[t])
  BY <1>2, IdleMoved DEF Typed, ServerTyped, CallsTyped
<1> QED BY <1>1, <1>2, <1>4, <1>6, <1>7, WorksServed

LEMMA AuthorizationMoved ==
  ASSUME NEW g \in Draws, NEW s \in Slots, NEW i, Born(i), NEW digest, NEW match, NEW direct
  PROVE  Moved(g, s, Authorization(i, digest, match, direct))
<1>1. PICK n : n = Authorization(i, digest, match, direct)
  OBVIOUS
<1>2. n.op = "authorize" /\ n.item = i /\ n.at = "item" /\ n.key = None
  BY <1>1 DEF Authorization, Call, Idle, FirstQuery
<1>3. \A k \in UploadKeys : ~Writes(n, k)
  BY <1>2, NamesTyped DEF Writes
<1>4. Moved(g, s, n)
  BY <1>2, <1>3, NamesTyped, NewCallMoved
<1> QED BY <1>1, <1>4

LEMMA AuthorizeServed ==
  ASSUME Typed, NEW g \in Draws, Fits(g), NEW d \in Devices, Authorize(d)
  PROVE  Fits(g)'
<1>1. Typed' /\ Steady(d)
  BY AuthorizeTyped
<1>2. PICK r \in job[d].todo, digest \in Bytes :
         /\ job' = [job EXCEPT ![d] =
              [NoJob EXCEPT !.at = "authorize", !.todo = job[d].todo \ {r},
                 !.item = r.item, !.path = r.path, !.digest = digest, !.match = r.remote,
                 !.direct = TRUE, !.slot = FreeSlot]]
         /\ call' = [call EXCEPT ![FreeSlot] = Authorization(r.item, digest, r.remote, TRUE)]
  <2>1. \A r \in job[d].todo : disk[d][r.item][r.path] \in Bytes
    BY JobBefore DEF JobTyped, InHand, Bytes
  <2> QED BY <2>1 DEF Authorize, Sends
<1>3. /\ UNCHANGED <<upload, file, bucket, item, record>> /\ FreeSlots # {}
  BY DEF Authorize, rows
<1>4. FreeSlot \in Slots
  BY <1>3, FreeSlotIsFree
<1>5. PICK j : j = [NoJob EXCEPT !.at = "authorize", !.todo = job[d].todo \ {r},
                      !.item = r.item, !.path = r.path, !.digest = digest, !.match = r.remote,
                      !.direct = TRUE, !.slot = FreeSlot]
  OBVIOUS
<1>6. /\ job'[d] = j /\ j.todo \subseteq job[d].todo /\ j.item = r.item /\ j.key = None
  BY <1>2, <1>5, JobBefore DEF NoJob
<1>7. Born(r.item)
  BY DEF Fits, JobServed
<1>8. JobServed(g, j)
  BY <1>6, <1>7, NamesTyped DEF JobServed, Fits
<1>9. PICK n : n = Authorization(r.item, digest, r.remote, TRUE)
  OBVIOUS
<1>10. \E direct \in BOOLEAN : n = Authorization(r.item, digest, r.remote, direct)
  BY <1>9, Zenon
<1>11. Moved(g, FreeSlot, n)
  BY <1>4, <1>7, <1>10, AuthorizationMoved
<1>12. \A t \in Slots : call'[t] = call[t] \/ Moved(g, t, call'[t])
  BY <1>2, <1>4, <1>9, <1>11 DEF Typed, ServerTyped, CallsTyped
<1> QED BY <1>1, <1>3, <1>6, <1>8, <1>12, StaySettled, WorksServed

(* The bytes that are sent under a signed URL are those of whoever may     *)
(* write the object.                                                       *)
LEMMA SendFileServed ==
  ASSUME Typed, Typed', NEW g \in Draws, Fits(g), NEW d \in Devices, Steady(d),
         job[d].at = "authorize", AnswerTo(d) = "ok", SendFile(d),
         UNCHANGED <<upload, file, item>>
  PROVE  Fits(g)'
<1>1. PICK c \in Requests, s \in Slots, j \in Jobs :
         s = job[d].slot /\ c = call[s] /\ j = job[d]
  BY Waiting, AtSlot, JobBefore
<1>2. /\ Asked(c) /\ c.op = "authorize" /\ c.item = j.item /\ c.key \in UploadKeys
      /\ j.item \in Items /\ j.at = "authorize" /\ j.slot = s
  BY <1>1, Waiting, AtSlot DEF AnswerTo, Asked, InHand
<1>3. PICK k \in UploadKeys, i \in Items : k = c.key /\ i = j.item
  BY <1>2
<1>4. g[k].item = i /\ Born(i) /\ g[k].slot = s
  BY <1>1, <1>2, <1>3 DEF Fits, CallServed, Owned, Writes
<1>5. PICK n \in Requests : n = call'[s] /\ Asked(n)
  BY DEF Typed, ServerTyped, CallsTyped
<1>6. PICK op \in {"complete", "bytes"}, bytes \in Bytes :
        call' = [call EXCEPT ![s] = [Call(op, i, TRUE) EXCEPT !.key = k, !.bytes = bytes]]
  <2>1. disk[d][i][j.path] \in Bytes
    BY <1>1, <1>2, <1>3, Waiting, AtSlot DEF InHand, Bytes
  <2>2. call' = [call EXCEPT ![s] =
                   [Call(IF c.direct THEN "complete" ELSE "bytes", i, TRUE)
                      EXCEPT !.key = k, !.bytes = IF c.direct THEN None ELSE disk[d][i][j.path]]]
    BY <1>1, <1>3 DEF SendFile
  <2>3. PICK op : op = IF c.direct THEN "complete" ELSE "bytes"
    OBVIOUS
  <2>4. PICK bytes : bytes = IF c.direct THEN None ELSE disk[d][i][j.path]
    OBVIOUS
  <2>5. op \in {"complete", "bytes"} /\ bytes \in Bytes
    BY <2>1, <2>3, <2>4 DEF Bytes
  <2>6. call' = [call EXCEPT ![s] = [Call(op, i, TRUE) EXCEPT !.key = k, !.bytes = bytes]]
    BY <2>2, <2>3, <2>4
  <2> QED BY <2>5, <2>6
<1>7. n.op = op /\ n.item = i /\ n.at = "queued" /\ n.key = k
  BY <1>5, <1>6 DEF Call, Idle, FirstQuery, Typed, ServerTyped, CallsTyped
<1>8. \A t \in Slots : t # s => call'[t] = call[t]
  BY <1>6
<1>9. Writes(call[s], k) /\ \A h \in UploadKeys : Writes(call'[s], h) => Writes(call[s], h)
  BY <1>1, <1>2, <1>3, <1>5, <1>7 DEF Writes
<1>10. \A name \in Names : name # UploadName(k) => bucket'[name] = bucket[name]
  BY <1>1, <1>3 DEF SendFile, Typed, ServerTyped, StoresTyped
<1>11. /\ \A h \in UploadKeys : Sealed(g, h) => Sealed(g, h)'
       /\ \A m_ \in Items : \A m \in Contents : Copied(m_, m) => Copied(m_, m)'
       /\ Copies'
       /\ \A t \in Slots : t # s /\ call[t].at = "mark" => Written(g, call[t].key)'
  BY <1>8, <1>9, <1>10, WriterCalm
<1>12. UNCHANGED record
  BY DEF SendFile
<1>13. AddedOnce'
  BY <1>12, StaySettled, SettledOnce DEF Fits
<1>14. Calm(g)
  BY <1>11, BornStays DEF Calm
<1>15. CallServed(g, s, n)'
  <2>1. Owned(g, s, n)'
    BY <1>4, <1>6, <1>7, NamesTyped, BornStays DEF Owned, Writes
  <2>2. Ready(g, n)'
    BY <1>7 DEF Ready
  <2> QED BY <2>1, <2>2 DEF CallServed
<1>16. PICK q : q = [j EXCEPT !.at = "sent", !.key = k, !.direct = c.direct]
  OBVIOUS
<1>17. /\ job'[d] = q /\ q.todo = j.todo /\ q.key = k /\ q.item = i /\ q \in Jobs
  <2>1. job'[d] = q
    BY <1>1, <1>3, <1>16, JobBefore DEF SendFile
  <2>2. job'[d] \in Jobs
    BY DEF Typed, JobsTyped
  <2> QED BY <1>3, <1>16, <2>1, <2>2 DEF Jobs
<1>18. JobServed(g, q)
  BY <1>1, <1>4, <1>17 DEF JobServed, Fits
<1>19. \A t \in Slots : call'[t] = call[t] \/ CallServed(g, t, call[t])'
  BY <1>5, <1>8, <1>15
<1>20. ASSUME NEW t \in Slots, call'[t] = call[t], call[t].at = "mark"
       PROVE  Written(g, call[t].key)'
  <2>1. t # s
    BY <1>5, <1>7, <1>20
  <2> QED BY <1>11, <1>20, <2>1
<1> QED BY <1>11, <1>13, <1>14, <1>17, <1>18, <1>19, <1>20, StepServed

LEMMA OnAuthorizeServed ==
  ASSUME Typed, NEW g \in Draws, Fits(g), NEW d \in Devices, OnAuthorize(d)
  PROVE  Fits(g)'
<1>1. Typed' /\ Steady(d)
  BY OnAuthorizeTyped
<1>2. PICK s, i, digest, match :
        s = job[d].slot /\ i = job[d].item /\ digest = job[d].digest /\ match = job[d].match
  OBVIOUS
<1>3. /\ s # None /\ job[d].at = "authorize" /\ UNCHANGED <<upload, file, item>>
  BY <1>2, AtSlot DEF OnAuthorize, rows
<1>4. CASE Completes(d) /\ UNCHANGED bucket
  BY <1>1, <1>2, <1>3, <1>4, CompletesServed
<1>5. CASE Fails(d) /\ UNCHANGED bucket
  BY <1>1, <1>2, <1>3, <1>5, FailsServed
<1>6. CASE AnswerTo(d) = "ok" /\ SendFile(d)
  BY <1>1, <1>3, <1>6, SendFileServed
<1>7. ASSUME NEW n, \E direct \in BOOLEAN : n = Authorization(i, digest, match, direct),
             Sends(s, n), UNCHANGED <<bucket, job, record>>
      PROVE  Fits(g)'
  <2>1. s \in Slots /\ Born(i)
    BY <1>2, <1>3, Waiting DEF Fits, JobServed
  <2>2. Moved(g, s, n)
    BY <1>7, <2>1, AuthorizationMoved
  <2>3. \A t \in Slots : call'[t] = call[t] \/ Moved(g, t, call'[t])
    BY <1>7, <2>1, <2>2 DEF Typed, ServerTyped, CallsTyped, Sends
  <2>4. JobServed(g, job[d]) /\ job'[d] = job[d]
    BY <1>7 DEF Fits
  <2> QED BY <1>1, <1>3, <1>7, <2>3, <2>4, StaySettled, WorksServed
<1>8. PICK plain : plain = Authorization(i, digest, match, FALSE)
  OBVIOUS
<1>9. \E direct \in BOOLEAN : plain = Authorization(i, digest, match, direct)
  BY <1>8, Zenon
<1>10. \/ Completes(d) /\ UNCHANGED bucket
       \/ AnswerTo(d) = "ok" /\ SendFile(d)
       \/ Sends(s, plain) /\ UNCHANGED <<bucket, job, record>>
       \/ Fails(d) /\ UNCHANGED bucket
  BY <1>2, <1>8 DEF OnAuthorize
<1> QED BY <1>4, <1>5, <1>6, <1>7, <1>9, <1>10

(* A request with the key of the job: to register its file, or to give up. *)
LEMMA KeyMoved ==
  ASSUME NEW g \in Draws, NEW s \in Slots, NEW d \in Devices, Fits(g),
         NEW op \in {"register", "abort"},
         NEW n, n.op = op, n.item = job[d].item, n.at = FirstQuery[op], n.key = job[d].key,
         job[d].at \notin {"idle", "next"}
  PROVE  Moved(g, s, n)
<1>1. n.at \in {"item", "queued"}
  BY DEF FirstQuery
<1>2. Born(n.item) /\ (n.key \in UploadKeys => g[n.key].item = n.item)
  BY DEF Fits, JobServed
<1>3. \A k \in UploadKeys : ~Writes(n, k)
  BY DEF Writes
<1> QED BY <1>1, <1>2, <1>3, NewCallMoved

LEMMA OnSentServed ==
  ASSUME Typed, NEW g \in Draws, Fits(g), NEW d \in Devices, OnSent(d)
  PROVE  Fits(g)'
<1>1. Typed' /\ Steady(d)
  BY OnSentTyped
<1>2. PICK s, i, key, match :
        s = job[d].slot /\ i = job[d].item /\ key = job[d].key /\ match = job[d].match
  OBVIOUS
<1>3. /\ s # None /\ s \in Slots /\ job[d].at = "sent" /\ UNCHANGED <<upload, file, item, bucket>>
  BY <1>2, AtSlot, Waiting DEF OnSent, rows
<1>4. CASE Fails(d)
  BY <1>1, <1>2, <1>3, <1>4, FailsServed
<1>5. ASSUME NEW n, n = [Call("register", i, TRUE) EXCEPT !.key = key, !.match = match],
             Sends(s, n), job' = [job EXCEPT ![d].at = "register"], UNCHANGED record
      PROVE  Fits(g)'
  <2>1. n.op = "register" /\ n.item = i /\ n.at = FirstQuery["register"] /\ n.key = key
    BY <1>5 DEF Call, Idle
  <2>2. Moved(g, s, n)
    BY <1>2, <1>3, <2>1, KeyMoved
  <2>3. \A t \in Slots : call'[t] = call[t] \/ Moved(g, t, call'[t])
    BY <1>3, <1>5, <2>2 DEF Typed, ServerTyped, CallsTyped, Sends
  <2>4. PICK j : j = [job[d] EXCEPT !.at = "register"]
    OBVIOUS
  <2>5. job'[d] = j /\ j.todo = job[d].todo /\ j.key = job[d].key /\ j.item = job[d].item
    BY <1>5, <2>4, JobBefore DEF Jobs
  <2>6. JobServed(g, j)
    BY <1>3, <2>5 DEF JobServed, Fits
  <2> QED BY <1>1, <1>3, <1>5, <2>3, <2>5, <2>6, StaySettled, WorksServed
<1> QED BY <1>2, <1>4, <1>5 DEF OnSent

LEMMA OnRegisterServed ==
  ASSUME Typed, NEW g \in Draws, Fits(g), NEW d \in Devices, OnRegister(d)
  PROVE  Fits(g)'
<1>1. Typed' /\ Steady(d)
  BY OnRegisterTyped
<1>2. job[d].slot # None /\ UNCHANGED <<upload, file, item, bucket>>
  BY AtSlot DEF OnRegister, rows
<1> QED BY <1>1, <1>2, CompletesServed, FailsServed DEF OnRegister

LEMMA AbortServed ==
  ASSUME Typed, NEW g \in Draws, Fits(g), NEW d \in Devices, Abort(d)
  PROVE  Fits(g)'
<1>1. Typed' /\ Steady(d)
  BY AbortTyped
<1>2. PICK n : n = [Call("abort", job[d].item, TRUE) EXCEPT !.key = job[d].key]
  OBVIOUS
<1>3. /\ job[d].at = "failed" /\ FreeSlots # {} /\ Sends(FreeSlot, n)
      /\ job' = [job EXCEPT ![d].at = "abort", ![d].slot = FreeSlot]
      /\ UNCHANGED <<upload, file, item, bucket, record>>
  BY <1>2 DEF Abort, rows
<1>4. FreeSlot \in Slots
  BY <1>3, FreeSlotIsFree
<1>5. /\ n.op = "abort" /\ n.item = job[d].item /\ n.at = FirstQuery["abort"]
      /\ n.key = job[d].key
  BY <1>2 DEF Call, Idle
<1>6. Moved(g, FreeSlot, n)
  BY <1>3, <1>4, <1>5, KeyMoved
<1>7. \A t \in Slots : call'[t] = call[t] \/ Moved(g, t, call'[t])
  BY <1>3, <1>4, <1>6 DEF Typed, ServerTyped, CallsTyped, Sends
<1>8. PICK j : j = [job[d] EXCEPT !.at = "abort", !.slot = FreeSlot]
  OBVIOUS
<1>9. job'[d] = j /\ j.todo = job[d].todo /\ j.key = job[d].key /\ j.item = job[d].item
  BY <1>3, <1>8, JobBefore DEF Jobs
<1>10. JobServed(g, j)
  BY <1>3, <1>9 DEF JobServed, Fits
<1> QED BY <1>1, <1>3, <1>7, <1>9, <1>10, StaySettled, WorksServed

LEMMA OpenAttachmentServed ==
  ASSUME Typed, NEW g \in Draws, Fits(g), NEW d \in Devices, NEW i \in Items, OpenAttachment(d, i)
  PROVE  Fits(g)'
<1>1. Typed' /\ Steady(d)
  BY OpenAttachmentTyped
<1>2. PICK r, n :
        /\ r = [record[d][i] EXCEPT !.cache = IF record[d][i].path = None THEN "downloading"
                                                                       ELSE @]
        /\ n = Call("download", i, TRUE)
  OBVIOUS
<1>3. /\ record[d][i].remote # None /\ FreeSlots # {} /\ Sets(d, i, r) /\ Sends(FreeSlot, n)
      /\ UNCHANGED <<upload, file, item, bucket>> /\ UNCHANGED job
  BY <1>2 DEF OpenAttachment, rows
<1>4. FreeSlot \in Slots
  BY <1>3, FreeSlotIsFree
<1>5. record[d][i] \in Records /\ RecordOK(disk[d][i], record[d][i])
  BY RecordTyped DEF Typed
<1>6. record[d][i].known = "synced" /\ r.known = "synced"
  BY <1>2, <1>3, <1>5 DEF Records, RecordOK, NoRecord
<1>7. Born(i)
  BY <1>6, SyncedBorn DEF Fits
<1>8. n.op = "download" /\ n.item = i /\ n.at = "row" /\ n.key = None
  BY <1>2 DEF Call, Idle, FirstQuery
<1>9. \A k \in UploadKeys : ~Writes(n, k)
  BY <1>8 DEF Writes
<1>10. Moved(g, FreeSlot, n)
  BY <1>4, <1>7, <1>8, <1>9, NamesTyped, NewCallMoved
<1>11. \A t \in Slots : call'[t] = call[t] \/ Moved(g, t, call'[t])
  BY <1>3, <1>4, <1>10 DEF Typed, ServerTyped, CallsTyped, Sends
<1>12. Settled(d)
  BY <1>3, <1>6, SetsSettled
<1>13. JobServed(g, job[d]) /\ job'[d] = job[d]
  BY <1>3 DEF Fits
<1> QED BY <1>1, <1>3, <1>11, <1>12, <1>13, WorksServed

LEMMA OnDownloadServed ==
  ASSUME Typed, NEW g \in Draws, Fits(g), NEW d \in Devices, OnDownload(d)
  PROVE  Fits(g)'
<1>1. Typed' /\ Steady(d)
  BY OnDownloadTyped
<1>2. get[d].slot # None
  BY JobBefore, NamesTyped DEF OnDownload, JobsTyped, GetTyped, HasCall
<1>3. PICK i \in Items, bytes \in Bytes : i = get[d].item /\ bytes = call[get[d].slot].bytes
  BY <1>2, Downloading DEF Requests
<1>4. /\ UNCHANGED <<upload, file, item, bucket>> /\ UNCHANGED job
      /\ call' = [call EXCEPT ![get[d].slot] = Idle]
      /\ \/ Sets(d, i, Completed(record[d][i], "cached", bytes))
         \/ Sets(d, i, Failed(record[d][i], FALSE))
  BY <1>3 DEF OnDownload, rows
<1>5. Settled(d)
  <2>1. CASE Sets(d, i, Completed(record[d][i], "cached", bytes))
    <3>1. \E path : Sets(d, i, Completed(record[d][i], path, bytes))
      BY <2>1
    <3> QED BY <1>4, <3>1, CompletedSettled
  <2>2. CASE Sets(d, i, Failed(record[d][i], FALSE))
    <3>1. \E upload_ \in BOOLEAN : Sets(d, i, Failed(record[d][i], upload_))
      BY <2>2, Zenon
    <3> QED BY <1>4, <3>1, FailedSettled
  <2> QED BY <1>4, <2>1, <2>2
<1>6. \A t \in Slots : call'[t] = call[t] \/ Moved(g, t, call'[t])
  BY <1>4, IdleMoved DEF Typed, ServerTyped, CallsTyped
<1>7. JobServed(g, job[d]) /\ job'[d] = job[d]
  BY <1>4 DEF Fits
<1> QED BY <1>1, <1>4, <1>5, <1>6, <1>7, WorksServed

LEMMA LoseAnswerServed ==
  ASSUME Typed, NEW g \in Draws, Fits(g), NEW d \in Devices, LoseAnswer(d)
  PROVE  Fits(g)'
<1>1. Typed' /\ Steady(d)
  BY LoseAnswerTyped
<1>2. UNCHANGED <<upload, file, item, bucket>>
  BY DEF LoseAnswer, rows
<1>3. CASE /\ job[d].slot # None
           /\ call' = [call EXCEPT ![job[d].slot] = Abandoned(@)]
           /\ job' = [job EXCEPT ![d].at = "failed", ![d].slot = None,
                                 ![d].direct = @ /\ job[d].at # "abort"]
           /\ UNCHANGED record
  <2>1. \A t \in Slots : call'[t] = call[t] \/ Moved(g, t, call'[t])
    BY <1>3, AbandonedMoved DEF Typed, ServerTyped, CallsTyped
  <2>2. PICK direct \in BOOLEAN : direct = (job[d].direct /\ job[d].at # "abort")
    OBVIOUS
  <2>3. PICK j : j = [job[d] EXCEPT !.at = "failed", !.slot = None, !.direct = direct]
    OBVIOUS
  <2>4. job'[d] = j /\ j.todo = job[d].todo /\ j.key = job[d].key /\ j.item = job[d].item
    BY <1>3, <2>2, <2>3, JobBefore DEF Jobs
  <2>5. JobServed(g, j)
    BY <1>3, <2>4, Waiting DEF JobServed, Fits
  <2> QED BY <1>1, <1>2, <1>3, <2>1, <2>4, <2>5, StaySettled, WorksServed
<1>4. CASE /\ get[d].slot # None
           /\ call' = [call EXCEPT ![get[d].slot] = Abandoned(@)]
           /\ Sets(d, get[d].item, Failed(record[d][get[d].item], FALSE))
           /\ UNCHANGED job
  <2>1. \A t \in Slots : call'[t] = call[t] \/ Moved(g, t, call'[t])
    BY <1>4, AbandonedMoved DEF Typed, ServerTyped, CallsTyped
  <2>2. \E upload_ \in BOOLEAN : Sets(d, get[d].item, Failed(record[d][get[d].item], upload_))
    BY <1>4, Zenon
  <2>3. Settled(d)
    BY <1>2, <1>4, <2>2, Downloading, FailedSettled
  <2>4. JobServed(g, job[d]) /\ job'[d] = job[d]
    BY <1>4 DEF Fits
  <2> QED BY <1>1, <1>2, <2>1, <2>3, <2>4, WorksServed
<1> QED BY <1>3, <1>4 DEF LoseAnswer

LEMMA KillServed ==
  ASSUME Typed, NEW g \in Draws, Fits(g), NEW d \in Devices, Kill(d)
  PROVE  Fits(g)'
<1>1. Typed' /\ Steady(d)
  BY KillTyped
<1>2. /\ UNCHANGED <<upload, file, item, bucket, record>> /\ job'[d] = NoJob
      /\ \A s \in Slots : call'[s] = call[s] \/ call'[s] = Abandoned(call[s])
  BY JobBefore DEF Kill, rows
<1>3. \A t \in Slots : call'[t] = call[t] \/ Moved(g, t, call'[t])
  BY <1>2, AbandonedMoved
<1>4. JobServed(g, NoJob)
  BY NoJobTyped, NamesTyped DEF JobServed
<1> QED BY <1>1, <1>2, <1>3, <1>4, StaySettled, WorksServed

LEMMA JobStepServed ==
  ASSUME Typed, NEW g \in Draws, Fits(g), NEW d \in Devices, JobStep(d)
  PROVE  Fits(g)'
  BY EndUploadServed, SkipCurrentServed, AuthorizeServed, OnAuthorizeServed, OnSentServed,
     OnRegisterServed, AbortServed, FailServed DEF JobStep

LEMMA DeviceStepServed ==
  ASSUME Typed, NEW g \in Draws, Fits(g), NEW d \in Devices, DeviceStep(d)
  PROVE  Fits(g)'
  BY JobStepServed, StartUploadServed, OnDownloadServed, LoseAnswerServed, KillServed,
     ImportServed, EditFileServed, UploadMetadataServed, PullServed, RemoveItemServed,
     RetryDueServed, OpenAttachmentServed DEF DeviceStep

LEMMA StutterServed ==
  ASSUME NEW g \in Draws, Fits(g), UNCHANGED vars
  PROVE  Fits(g)'
<1>1. UNCHANGED <<item, file, upload, bucket, call, record, job, offered>>
  BY DEF vars, serverVars, deviceVars, rows
<1>2. \A i : Born(i)' <=> Born(i)
  BY <1>1 DEF Born, OnOffer
<1>3. \A k : Sealed(g, k)' <=> Sealed(g, k)
  BY <1>1 DEF Sealed, Written, Writes, UploadName
<1>4. \A i, m : Copied(i, m)' <=> Copied(i, m)
  BY <1>1 DEF Copied, FileName
<1>5. \A i, m, name : Serves(g, i, m, name) => Serves(g, i, m, name)'
  BY <1>3, <1>4 DEF Serves, UploadName, FileName
<1>6. ASSUME NEW s \in Slots PROVE CallServed(g, s, call[s])'
  <2>1. PICK c : c = call[s]
    OBVIOUS
  <2>2. call'[s] = c /\ Owned(g, s, c) /\ Ready(g, c)
    BY <1>1, <2>1 DEF Fits, CallServed
  <2>3. Owned(g, s, c)'
    BY <1>2, <2>2 DEF Owned, Belongs, Writes, UploadName, FileName
  <2>4. Ready(g, c)'
    BY <1>1, <1>2, <1>3, <1>4, <1>5, <2>2 DEF Ready, Written, UploadName
  <2> QED BY <2>2, <2>3, <2>4 DEF CallServed
<1>7. \A k \in UploadKeys : UploadServed(g, k)' /\ Born(g[k].item)'
  BY <1>1, <1>2, <1>3 DEF Fits, UploadServed
<1>8. \A i \in Items : RowServed(g, i)'
  BY <1>1, <1>2, <1>5 DEF Fits, RowServed
<1>9. \A d \in Devices : JobServed(g, job[d])'
  BY <1>1, <1>2 DEF Fits, JobServed
<1>10. Copies' /\ AddedOnce'
  BY <1>1 DEF Fits, Copies, AddedOnce, FileName
<1> QED BY <1>6, <1>7, <1>8, <1>9, <1>10 DEF Fits

LEMMA NextServed == Distinguishable /\ Typed /\ Served /\ [Next]_vars => Served'
<1> SUFFICES ASSUME Distinguishable, Typed, Served, [Next]_vars PROVE Served'
  OBVIOUS
<1>1. CASE \E s \in Slots : ServerStep(s)
  BY <1>1, ServerStepServed
<1>2. CASE (\E d \in Devices : DeviceStep(d)) \/ UNCHANGED vars
  <2>1. PICK g \in Draws : Fits(g)
    BY DEF Served
  <2>2. Fits(g)'
    BY <1>2, <2>1, DeviceStepServed, StutterServed
  <2> QED BY <2>2 DEF Served, Draws
<1> QED BY <1>1, <1>2 DEF Next

LEMMA InitServed == Init => Served
<1> SUFFICES ASSUME Init PROVE Served
  OBVIOUS
<1>1. PICK g : g = [k \in UploadKeys |-> [item |-> Known, md5 |-> KnownBytes, slot |-> None]]
  OBVIOUS
<1>2. Known \in Items /\ KnownBytes \in Contents /\ g \in Draws
  BY <1>1, DevicesAssumption DEF Draws
<1>3. \A d \in Devices : \A i \in Items : record[d][i].known # "new"
  BY DEF Init, NoRecord, Pulled
<1>4. Known \notin OnOffer
  BY DevicesAssumption DEF Init, OnOffer
<1>5. Born(Known)
  BY <1>2, <1>3, <1>4 DEF Born
<1>6. ASSUME NEW s \in Slots PROVE CallServed(g, s, call[s])
  BY <1>2, IdleServed DEF Init
<1>7. ASSUME NEW k \in UploadKeys PROVE UploadServed(g, k) /\ Born(g[k].item)
  BY <1>1, <1>5 DEF Init, UploadServed, NoUpload
<1>8. bucket[FileName(Known, KnownBytes)] = KnownBytes
  BY <1>2, NamesTyped DEF Init
<1>9. ASSUME NEW i \in Items PROVE RowServed(g, i)
  <2>1. CASE i = Known
    <3>1. file[i].md5 = KnownBytes /\ file[i].at = FileName(i, KnownBytes)
      BY <2>1 DEF Init
    <3> QED BY <1>5, <1>8, <2>1, <3>1 DEF RowServed, Serves, Copied
  <2>2. CASE i # Known
    BY <2>2 DEF Init, RowServed
  <2> QED BY <2>1, <2>2
<1>10. ASSUME NEW d \in Devices PROVE JobServed(g, job[d])
  BY NoJobTyped, NamesTyped DEF Init, JobServed
<1>11. Copies
  BY NamesApart, NamesTyped, <1>2 DEF Init, Copies
<1>12. AddedOnce
  BY <1>3 DEF AddedOnce
<1> QED BY <1>2, <1>6, <1>7, <1>9, <1>10, <1>11, <1>12 DEF Fits, Served

LEMMA ServedGivesFiles == Typed /\ Served => FilesServed
<1> SUFFICES ASSUME Typed, Served, NEW i \in Items, item[i].live, file[i] # NoFile
             PROVE  bucket[file[i].at] = file[i].md5
  BY DEF FilesServed
<1>1. PICK g \in Draws : Fits(g)
  BY DEF Served
<1>2. Serves(g, i, file[i].md5, file[i].at)
  BY <1>1 DEF Fits, RowServed
<1> QED BY <1>2 DEF Serves, Copied, Sealed, Written

(* What the row of a live item promises is in the bucket, however the      *)
(* requests of uploads, deletions and downloads interleave, and whatever   *)
(* answers are lost or devices are killed: provided the server can tell    *)
(* the bytes it was sent from those it was promised.                       *)
THEOREM FilesAreServed == Distinguishable => (Spec => []FilesServed)
<1> SUFFICES ASSUME Distinguishable PROVE Spec => []FilesServed
  OBVIOUS
<1>1. Init => Typed /\ Served
  BY InitTypes, InitServed
<1>2. Typed /\ Served /\ [Next]_vars => (Typed /\ Served)'
  BY NextTypes, NextServed
<1>3. Typed /\ Served => FilesServed
  BY ServedGivesFiles
<1> QED BY <1>1, <1>2, <1>3, PTL DEF Spec

(***************************************************************************)
(* The files of live items, when no file changes under an upload           *)
(***************************************************************************)

(* No file changes between its digest and the sending of its bytes. *)
Undisturbed ==
  \A d \in Devices : LET j == job[d]
                     IN  j.at = "authorize" => disk'[d][j.item][j.path] = disk[d][j.item][j.path]

(* What is sent for a key is what was promised. *)
CallExact(g, c) ==
  /\ c.op = "authorize" /\ c.key \in UploadKeys => c.md5 = g[c.key].md5
  /\ c.op = "bytes" => c.bytes = g[c.key].md5

StoresExact(g) ==
  \A k \in UploadKeys : parts[k] \in {g[k].md5, None} /\ bucket[UploadName(k)] \in {g[k].md5, None}

JobExact(d) ==
  LET j == job[d]
  IN  j.at = "authorize" =>
         disk[d][j.item][j.path] = j.digest /\ call[j.slot].md5 = j.digest

Exact(g) ==
  /\ \A s \in Slots : CallExact(g, call[s])
  /\ StoresExact(g)
  /\ \A d \in Devices : JobExact(d)

ServedExactly == \E g \in Draws : Fits(g) /\ Exact(g)

(* What a query keeps of a request, and where it takes bytes from. *)
CallSame(c, n) ==
  \/ n.op = "none"
  \/ /\ n.op = c.op
     /\ c.op = "authorize" => n.md5 = c.md5 /\ n.key = c.key
     /\ c.op = "bytes" => n.bytes = c.bytes /\ n.key = c.key

StoresSame(c) ==
  \A k \in UploadKeys :
     /\ parts'[k] \in {parts[k], None}
     /\ \/ bucket'[UploadName(k)] \in {bucket[UploadName(k)], parts[k], None}
        \/ c.op = "bytes" /\ c.key = k /\ bucket'[UploadName(k)] = c.bytes

Same(s) == CallSame(call[s], call'[s]) /\ StoresSame(call[s])

LEMMA AnsweredSame ==
  ASSUME NEW c, NEW n \in Requests, CallSame(c, n), NEW answer
  PROVE  CallSame(c, Answered(n, answer))
<1> DEFINE m == [n EXCEPT !.at = "end", !.answer = answer, !.found = {}]
<1>1. m.op = n.op /\ m.md5 = n.md5 /\ m.key = n.key /\ m.bytes = n.bytes
  BY DEF Requests
<1> HIDE DEF m
<1>2. Answered(n, answer) = IF n.heard THEN m ELSE Idle
  BY DEF Answered, m
<1>3. CallSame(c, m) /\ CallSame(c, Idle)
  BY <1>1 DEF CallSame, Idle
<1> QED BY <1>2, <1>3

LEMMA AnswersSame ==
  ASSUME ServerTyped, NEW s \in Slots, NEW answer, Answers(s, answer)
  PROVE  CallSame(call[s], call'[s])
<1>1. PICK c \in Requests : c = call[s]
  BY DEF ServerTyped, CallsTyped
<1>2. CallSame(c, Answered(c, answer))
  BY <1>1, AnsweredSame DEF CallSame
<1> QED BY <1>1, <1>2 DEF Answers, ServerTyped, CallsTyped

LEMMA GoesSame ==
  ASSUME ServerTyped, NEW s \in Slots, NEW at, Goes(s, at)
  PROVE  CallSame(call[s], call'[s])
<1>1. PICK c \in Requests : c = call[s]
  BY DEF ServerTyped, CallsTyped
<1>2. PICK n : n = [c EXCEPT !.at = at]
  OBVIOUS
<1>3. n.op = c.op /\ n.md5 = c.md5 /\ n.key = c.key /\ n.bytes = c.bytes
  BY <1>2 DEF Requests
<1> QED BY <1>1, <1>2, <1>3 DEF Goes, ServerTyped, CallsTyped, CallSame

LEMMA StoresStaySame == \A c : UNCHANGED <<bucket, parts>> => StoresSame(c)
  BY DEF StoresSame

LEMMA FindItemSame ==
  ASSUME ServerTyped, NEW s \in Slots, FindItem(s) PROVE Same(s)
  BY AnswersSame, GoesSame, StoresStaySame DEF FindItem, Same

LEMMA CompareFileSame ==
  ASSUME ServerTyped, NEW s \in Slots, CompareFile(s) PROVE Same(s)
  BY AnswersSame, GoesSame, StoresStaySame DEF CompareFile, Same

LEMMA FindKnownSame ==
  ASSUME ServerTyped, NEW s \in Slots, FindKnown(s) PROVE Same(s)
<1>1. ASSUME NEW names, call' = [call EXCEPT ![s].at = "source", ![s].found = names]
      PROVE  CallSame(call[s], call'[s])
  BY <1>1 DEF ServerTyped, CallsTyped, CallSame, Requests
<1> QED BY <1>1, GoesSame, StoresStaySame DEF FindKnown, Same

LEMMA ReadSourceSame ==
  ASSUME ServerTyped, NEW s \in Slots, ReadSource(s) PROVE Same(s)
<1>1. call[s].op = "authorize"
  BY DEF ReadSource, At, ServerTyped, CallsTyped, Asked
<1>2. ASSUME NEW bytes, call' = [call EXCEPT ![s].at = "copy", ![s].bytes = bytes]
      PROVE  CallSame(call[s], call'[s])
  BY <1>1, <1>2 DEF ServerTyped, CallsTyped, CallSame, Requests
<1> QED BY <1>2, GoesSame, StoresStaySame DEF ReadSource, Same

LEMMA CopySourceSame ==
  ASSUME ServerTyped, NEW s \in Slots, CopySource(s) PROVE Same(s)
<1>1. call[s].item \in Items /\ call[s].md5 \in Contents
  BY DEF CopySource, At, ServerTyped, CallsTyped, Asked
<1>2. \A k \in UploadKeys : bucket'[UploadName(k)] = bucket[UploadName(k)]
  BY <1>1, NamesApart, NamesTyped DEF CopySource, ServerTyped, StoresTyped
<1>3. StoresSame(call[s])
  BY <1>2 DEF CopySource, StoresSame
<1> QED BY <1>3, GoesSame DEF CopySource, Same

LEMMA AssociateSame ==
  ASSUME ServerTyped, NEW s \in Slots, Associate(s) PROVE Same(s)
  BY AnswersSame, StoresStaySame DEF Associate, Same

LEMMA WithdrawUploadSame ==
  ASSUME ServerTyped, NEW s \in Slots, WithdrawUpload(s) PROVE Same(s)
  BY AnswersSame, StoresStaySame DEF WithdrawUpload, Same

LEMMA PrepareUploadSame ==
  ASSUME ServerTyped, NEW s \in Slots, PrepareUpload(s) PROVE Same(s)
  BY AnswersSame, StoresStaySame DEF PrepareUpload, Same

LEMMA FindUploadSame ==
  ASSUME ServerTyped, NEW s \in Slots, FindUpload(s) PROVE Same(s)
<1>1. call[s].op = "register"
  BY DEF FindUpload, At, ServerTyped, CallsTyped, Asked
<1>2. ASSUME NEW md5, call' = [call EXCEPT ![s].at = "file", ![s].md5 = md5]
      PROVE  CallSame(call[s], call'[s])
  BY <1>1, <1>2 DEF ServerTyped, CallsTyped, CallSame, Requests
<1> QED BY <1>2, AnswersSame, StoresStaySame DEF FindUpload, Same

LEMMA RegisterFileSame ==
  ASSUME ServerTyped, NEW s \in Slots, RegisterFile(s) PROVE Same(s)
  BY AnswersSame, StoresStaySame DEF RegisterFile, Same

LEMMA FindQueuedSame ==
  ASSUME ServerTyped, NEW s \in Slots, FindQueued(s) PROVE Same(s)
<1>1. StoresSame(call[s])
  BY DEF FindQueued, StoresSame, ServerTyped, StoresTyped
<1>2. ASSUME NEW md5, NEW direct, call[s].op = "complete",
             call' = [call EXCEPT ![s].at = "object", ![s].md5 = md5, ![s].direct = direct]
      PROVE  CallSame(call[s], call'[s])
  BY <1>2 DEF ServerTyped, CallsTyped, CallSame, Requests
<1> QED BY <1>1, <1>2, AnswersSame, GoesSame DEF FindQueued, Same

LEMMA PutBytesSame ==
  ASSUME ServerTyped, NEW s \in Slots, PutBytes(s) PROVE Same(s)
<1>1. call[s].op = "bytes" /\ call[s].key \in UploadKeys
  BY DEF PutBytes, At, ServerTyped, CallsTyped, Asked
<1>2. StoresSame(call[s])
  BY <1>1, NamesApart, NamesTyped DEF PutBytes, StoresSame, ServerTyped, StoresTyped
<1> QED BY <1>2, GoesSame DEF PutBytes, Same

LEMMA InspectObjectSame ==
  ASSUME ServerTyped, NEW s \in Slots, InspectObject(s) PROVE Same(s)
<1>1. call[s].key \in UploadKeys
  BY DEF InspectObject, At, ServerTyped, CallsTyped, Asked
<1>2. StoresSame(call[s])
  BY <1>1, NamesApart, NamesTyped DEF InspectObject, StoresSame, ServerTyped, StoresTyped
<1> QED BY <1>2, AnswersSame, GoesSame DEF InspectObject, Same

LEMMA DiscardObjectSame ==
  ASSUME ServerTyped, NEW s \in Slots, DiscardObject(s) PROVE Same(s)
<1>1. StoresSame(call[s])
  BY NamesTyped DEF DiscardObject, StoresSame, ServerTyped, StoresTyped
<1> QED BY <1>1, AnswersSame DEF DiscardObject, Same

LEMMA MarkUploadedSame ==
  ASSUME ServerTyped, NEW s \in Slots, MarkUploaded(s) PROVE Same(s)
  BY AnswersSame, StoresStaySame DEF MarkUploaded, Same

LEMMA ForgetUploadSame ==
  ASSUME ServerTyped, NEW s \in Slots, ForgetUpload(s) PROVE Same(s)
  BY AnswersSame, StoresStaySame DEF ForgetUpload, Same

LEMMA ReadDeletedSame ==
  ASSUME ServerTyped, NEW s \in Slots, ReadDeleted(s) PROVE Same(s)
<1>1. ASSUME NEW names, call' = [call EXCEPT ![s].at = "uploads", ![s].found = names]
      PROVE  CallSame(call[s], call'[s])
  BY <1>1 DEF ServerTyped, CallsTyped, CallSame, Requests
<1> QED BY <1>1, AnswersSame, StoresStaySame DEF ReadDeleted, Same

LEMMA ReadUploadsSame ==
  ASSUME ServerTyped, NEW s \in Slots, ReadUploads(s) PROVE Same(s)
<1>1. CallSame(call[s], call'[s])
  BY DEF ReadUploads, ServerTyped, CallsTyped, CallSame, Requests
<1>2. StoresSame(call[s])
  BY DEF ReadUploads, StoresSame
<1> QED BY <1>1, <1>2 DEF Same

LEMMA EraseItemSame ==
  ASSUME ServerTyped, NEW s \in Slots, EraseItem(s) PROVE Same(s)
  BY GoesSame, StoresStaySame DEF EraseItem, Same

LEMMA CheckReferenceSame ==
  ASSUME ServerTyped, NEW s \in Slots, CheckReference(s) PROVE Same(s)
<1>1. call[s].op = "delete"
  BY DEF CheckReference, At, ServerTyped, CallsTyped, Asked
<1>2. ASSUME NEW name, call' = [call EXCEPT ![s].found = @ \ {name}]
      PROVE  CallSame(call[s], call'[s])
  BY <1>1, <1>2 DEF ServerTyped, CallsTyped, CallSame, Requests
<1>3. ASSUME NEW name,
             call' = [call EXCEPT ![s].at = "remove", ![s].found = @ \ {name}, ![s].key = name]
      PROVE  CallSame(call[s], call'[s])
  BY <1>1, <1>3 DEF ServerTyped, CallsTyped, CallSame, Requests
<1> QED BY <1>2, <1>3, AnswersSame, StoresStaySame DEF CheckReference, Same

LEMMA RemoveObjectSame ==
  ASSUME ServerTyped, NEW s \in Slots, RemoveObject(s) PROVE Same(s)
<1>1. StoresSame(call[s])
  BY NamesTyped DEF RemoveObject, StoresSame, ServerTyped, StoresTyped
<1> QED BY <1>1, GoesSame DEF RemoveObject, Same

LEMMA RedirectDownloadSame ==
  ASSUME ServerTyped, NEW s \in Slots, RedirectDownload(s) PROVE Same(s)
<1>1. ASSUME NEW md5, call' = [call EXCEPT ![s].at = "raw", ![s].md5 = md5],
             call[s].op = "download"
      PROVE  CallSame(call[s], call'[s])
  BY <1>1 DEF ServerTyped, CallsTyped, CallSame, Requests
<1> QED BY <1>1, AnswersSame, StoresStaySame DEF RedirectDownload, AtOf, Same

LEMMA FindRawSame ==
  ASSUME ServerTyped, NEW s \in Slots, FindRaw(s) PROVE Same(s)
<1>1. ASSUME NEW names, call' = [call EXCEPT ![s].at = "get", ![s].found = names]
      PROVE  CallSame(call[s], call'[s])
  BY <1>1 DEF ServerTyped, CallsTyped, CallSame, Requests
<1> QED BY <1>1, AnswersSame, StoresStaySame DEF FindRaw, Same

LEMMA GetRawSame ==
  ASSUME ServerTyped, NEW s \in Slots, GetRaw(s) PROVE Same(s)
<1>1. PICK c \in Requests : c = call[s] /\ c.op = "download" /\ c.found \subseteq Names
  BY DEF GetRaw, At, ServerTyped, CallsTyped, Asked, Requests
<1>2. PICK name \in c.found :
        call' = [call EXCEPT ![s] =
                   IF bucket[name] = None THEN Answered(c, "missing")
                   ELSE Answered([c EXCEPT !.bytes = bucket[name]], "ok")]
  BY <1>1 DEF GetRaw, ServerTyped, CallsTyped
<1>3. PICK n : n = [c EXCEPT !.bytes = bucket[name]]
  OBVIOUS
<1>4. n \in Requests /\ CallSame(c, n) /\ CallSame(c, c)
  BY <1>1, <1>2, <1>3 DEF Requests, CallSame, ServerTyped, StoresTyped
<1>5. CallSame(c, Answered(n, "ok")) /\ CallSame(c, Answered(c, "missing"))
  BY <1>4, AnsweredSame
<1>6. CallSame(call[s], call'[s])
  BY <1>1, <1>2, <1>3, <1>5 DEF ServerTyped, CallsTyped
<1> QED BY <1>6, StoresStaySame DEF GetRaw, Same

LEMMA QuerySame ==
  ASSUME ServerTyped, NEW s \in Slots, Query(s) PROVE Same(s)
  BY FindItemSame, CompareFileSame, FindKnownSame, ReadSourceSame, CopySourceSame,
     AssociateSame, WithdrawUploadSame, PrepareUploadSame, FindUploadSame, RegisterFileSame,
     FindQueuedSame, PutBytesSame, InspectObjectSame, DiscardObjectSame, MarkUploadedSame,
     ForgetUploadSame, ReadDeletedSame, ReadUploadsSame, EraseItemSame, CheckReferenceSame,
     RemoveObjectSame, RedirectDownloadSame, FindRawSame, GetRawSame DEF Query

(* The server: the request that waits for an authorization has its md5.    *)
LEMMA JobStaysExact ==
  ASSUME Typed, Typed', NEW d \in Devices, JobExact(d), job'[d] = job[d],
         job[d].at = "authorize" =>
            /\ disk'[d][job[d].item][job[d].path] = disk[d][job[d].item][job[d].path]
            /\ call'[job[d].slot].op = "authorize" =>
                  call'[job[d].slot].md5 = call[job[d].slot].md5
  PROVE  JobExact(d)'
<1> SUFFICES ASSUME job[d].at = "authorize"
             PROVE  /\ disk'[d][job[d].item][job[d].path] = job[d].digest
                    /\ call'[job[d].slot].md5 = job[d].digest
  BY DEF JobExact
<1>1. PICK c, n, digest, bytes :
        /\ c = call[job[d].slot] /\ n = call'[job[d].slot] /\ digest = job[d].digest
        /\ bytes = disk[d][job[d].item][job[d].path]
  OBVIOUS
<1>2. c.op = "authorize" /\ n.op = "authorize"
  BY <1>1, FilesAssumption DEF Typed, JobsTyped, JobTyped, HasCall
<1>3. n.md5 = c.md5
  BY <1>1, <1>2
<1>4. bytes = digest /\ c.md5 = digest
  BY <1>1 DEF JobExact
<1> QED BY <1>1, <1>3, <1>4

LEMMA SameExact ==
  ASSUME NEW g \in Draws, NEW c, NEW n, CallExact(g, c), CallSame(c, n)
  PROVE  CallExact(g, n)
  BY FilesAssumption DEF CallExact, CallSame

LEMMA QueryExact ==
  ASSUME Typed, Typed', NEW g \in Draws, Exact(g), NEW s \in Slots, Same(s), Turn(s),
         UNCHANGED deviceVars
  PROVE  Exact(g)'
<1>1. PICK c, n : c = call[s] /\ n = call'[s]
  OBVIOUS
<1>2. CallExact(g, c) /\ CallSame(c, n) /\ StoresSame(c) /\ StoresExact(g)
  BY <1>1 DEF Exact, Same
<1>3. \A t \in Slots : t # s => call'[t] = call[t]
  BY DEF Turn
<1>4. ASSUME NEW t \in Slots PROVE CallSame(call[t], call'[t])
  <2>1. CASE t = s
    BY <1>1, <1>2, <2>1
  <2>2. CASE t # s
    BY <1>3, <2>2 DEF CallSame
  <2> QED BY <2>1, <2>2
<1>5. \A t \in Slots : CallExact(g, call'[t])
  BY <1>4, SameExact DEF Exact
<1>6. StoresExact(g)'
  <2> SUFFICES ASSUME NEW k \in UploadKeys
               PROVE  parts'[k] \in {g[k].md5, None} /\ bucket'[UploadName(k)] \in {g[k].md5, None}
    BY DEF StoresExact, UploadName
  <2>1. parts[k] \in {g[k].md5, None} /\ bucket[UploadName(k)] \in {g[k].md5, None}
    BY <1>2 DEF StoresExact
  <2>2. c.op = "bytes" /\ c.key = k => c.bytes = g[k].md5
    BY <1>2 DEF CallExact
  <2> QED BY <1>2, <2>1, <2>2 DEF StoresSame
<1>7. ASSUME NEW d \in Devices PROVE JobExact(d)'
  <2>1. job'[d] = job[d] /\ disk' = disk /\ JobExact(d)
    BY DEF deviceVars, Exact
  <2>2. job[d].at = "authorize" => job[d].slot \in Slots
    BY AtSlot, Waiting
  <2>3. \A t \in Slots : call[t].op = "authorize" /\ call'[t].op = "authorize" =>
          call'[t].md5 = call[t].md5
    BY <1>4 DEF CallSame
  <2> QED BY <2>1, <2>2, <2>3, AtSlot, JobStaysExact
<1> QED BY <1>5, <1>6, <1>7 DEF Exact, CallExact

(* A key that is drawn is promised the md5 of the request. *)
LEMMA InsertUploadExact ==
  ASSUME Typed, Typed', NEW g \in Draws, Exact(g), NEW s \in Slots, NEW k \in NewKeys,
         InsertUpload(s, k), Turn(s), UNCHANGED deviceVars, NEW h \in Draws,
         h = [g EXCEPT ![k] = [item |-> call[s].item, md5 |-> call[s].md5, slot |-> s]]
  PROVE  Exact(h)'
<1>1. PICK c \in Requests : c = call[s] /\ c.op = "authorize"
  BY DEF InsertUpload, At, Typed, ServerTyped, CallsTyped, Asked
<1>2. k \in UploadKeys /\ \A t \in Slots : call[t].key # k
  BY DEF NewKeys
<1>3. h[k].md5 = c.md5 /\ \A q \in UploadKeys : q # k => h[q] = g[q]
  BY <1>1, <1>2 DEF Draws
<1>4. PICK n : n = call'[s]
  OBVIOUS
<1>5. CallSame([c EXCEPT !.key = k], n)
  <2> DEFINE asks == [c EXCEPT !.key = k, !.found = {}]
  <2>1. /\ asks \in Requests /\ asks.op = "authorize" /\ asks.md5 = c.md5 /\ asks.key = k
        /\ asks.bytes = c.bytes
    BY <1>1, <1>2 DEF Requests
  <2>2. \/ n = Answered(asks, "ok")
        \/ n = [asks EXCEPT !.at = "prepare"]
        \/ n = [asks EXCEPT !.at = "withdraw"]
    BY <1>1, <1>4 DEF InsertUpload, Typed, ServerTyped, CallsTyped
  <2> HIDE DEF asks
  <2>3. PICK m : m = asks
    OBVIOUS
  <2>4. CallSame(asks, n)
    <3>1. CallSame(asks, asks)
      BY DEF CallSame
    <3>2. CallSame(asks, Answered(asks, "ok"))
      BY <2>1, <3>1, AnsweredSame
    <3>3. CallSame(asks, [asks EXCEPT !.at = "prepare"])
      BY <2>1 DEF CallSame, Requests
    <3>4. CallSame(asks, [asks EXCEPT !.at = "withdraw"])
      BY <2>1 DEF CallSame, Requests
    <3> QED BY <2>2, <3>2, <3>3, <3>4
  <2>5. PICK b : b = [c EXCEPT !.key = k]
    OBVIOUS
  <2>6. b.op = "authorize" /\ b.md5 = c.md5 /\ b.key = k
    BY <1>1, <2>5 DEF Requests
  <2>7. CallSame(b, n)
    BY <2>1, <2>4, <2>6 DEF CallSame
  <2> QED BY <2>5, <2>7
<1>6. n.op = "none" \/ (n.op = "authorize" /\ n.md5 = c.md5 /\ n.key = k)
  <2>1. PICK b : b = [c EXCEPT !.key = k]
    OBVIOUS
  <2>2. b.op = "authorize" /\ b.md5 = c.md5 /\ b.key = k
    BY <1>1, <2>1 DEF Requests
  <2> QED BY <1>5, <2>1, <2>2 DEF CallSame
<1>7. \A t \in Slots : t # s => call'[t] = call[t]
  BY DEF Turn
<1>8. ASSUME NEW t \in Slots PROVE CallExact(h, call'[t])
  <2>1. CASE t = s
    BY <1>3, <1>4, <1>6, <2>1 DEF CallExact
  <2>2. CASE t # s
    <3>1. PICK b : b = call[t] /\ b = call'[t]
      BY <1>7, <2>2
    <3>2. CallExact(g, b) /\ b.key # k /\ (b.op = "bytes" => b.key \in UploadKeys)
      BY <1>2, <3>1 DEF Exact, Typed, ServerTyped, CallsTyped, Asked
    <3>3. CallExact(h, b)
      BY <1>3, <3>2 DEF CallExact
    <3> QED BY <3>1, <3>3
  <2> QED BY <2>1, <2>2
<1>9. StoresExact(h)'
  <2> SUFFICES ASSUME NEW q \in UploadKeys
               PROVE  parts'[q] \in {h[q].md5, None} /\ bucket'[UploadName(q)] \in {h[q].md5, None}
    BY DEF StoresExact, UploadName
  <2>1. CASE q = k
    BY <1>2, <2>1, NamesTyped DEF InsertUpload, Typed, ServerTyped, StoresTyped
  <2>2. CASE q # k
    <3>1. parts'[q] = parts[q] /\ bucket'[UploadName(q)] = bucket[UploadName(q)]
      BY <1>2, <2>2, NamesApart, NamesTyped DEF InsertUpload, Typed, ServerTyped, StoresTyped
    <3> QED BY <1>3, <2>2, <3>1 DEF Exact, StoresExact
  <2> QED BY <2>1, <2>2
<1>10. ASSUME NEW d \in Devices PROVE JobExact(d)'
  <2>1. job'[d] = job[d] /\ disk' = disk /\ JobExact(d)
    BY DEF deviceVars, Exact
  <2>2. job[d].at = "authorize" => job[d].slot \in Slots
    BY AtSlot, Waiting
  <2>3. \A t \in Slots : call'[t].op = "authorize" => call'[t].md5 = call[t].md5
    BY <1>1, <1>4, <1>6, <1>7
  <2> QED BY <2>1, <2>2, <2>3, JobStaysExact
<1> QED BY <1>8, <1>9, <1>10 DEF Exact, CallExact

(* Nothing but what was promised is ever sent, so that no check is needed. *)
LEMMA ExactTold ==
  ASSUME Typed, NEW g \in Draws, Fits(g), Exact(g), NEW s \in Slots
  PROVE  Told(g, call[s])
<1>1. PICK c \in Requests : c = call[s]
  BY DEF Typed, ServerTyped, CallsTyped
<1>2. Asked(c) /\ Ready(g, c) /\ CallExact(g, c) /\ StoresExact(g)
  BY <1>1 DEF Typed, ServerTyped, CallsTyped, Fits, CallServed, Exact
<1>3. c.at = "queued" /\ c.op = "bytes" => c.bytes = g[c.key].md5
  BY <1>2 DEF CallExact
<1>4. ASSUME c.at = "object", NEW object \in {parts[c.key], bucket[UploadName(c.key)]} \ {None}
      PROVE  object = c.md5
  BY <1>2, <1>4 DEF Asked, Ready, StoresExact
<1> QED BY <1>1, <1>3, <1>4 DEF Told

LEMMA ServerStepExact ==
  ASSUME Typed, Typed', ServedExactly, NEW s \in Slots, ServerStep(s)
  PROVE  ServedExactly'
<1>1. ServerTyped' /\ Turn(s) /\ UNCHANGED deviceVars /\ ServerTyped
  BY ServerStepTyped DEF Typed
<1>2. PICK g \in Draws : Fits(g) /\ Exact(g)
  BY DEF ServedExactly
<1>3. CASE Query(s)
  <2>1. Fits(g)'
    BY <1>1, <1>2, <1>3, ExactTold, QueryServed
  <2>2. Exact(g)'
    BY <1>1, <1>2, <1>3, QuerySame, QueryExact
  <2> QED BY <2>1, <2>2 DEF ServedExactly, Draws
<1>4. CASE DrawKey(s)
  <2>1. PICK k \in NewKeys : InsertUpload(s, k)
    BY <1>4 DEF DrawKey
  <2>2. PICK h : h = [g EXCEPT ![k] = [item |-> call[s].item, md5 |-> call[s].md5, slot |-> s]]
    OBVIOUS
  <2>3. h \in Draws /\ Fits(h)'
    BY <1>1, <1>2, <2>1, <2>2, InsertUploadServed
  <2>4. Exact(h)'
    BY <1>1, <1>2, <2>1, <2>2, <2>3, InsertUploadExact
  <2> QED BY <2>3, <2>4 DEF ServedExactly, Draws
<1> QED BY <1>3, <1>4, <1>1 DEF ServerStep

(* The devices: what is sent is new, or as before. *)
LEMMA SameAsBefore == \A c : CallSame(c, c) /\ CallSame(c, Idle)
  BY DEF CallSame, Idle

LEMMA AbandonedSame == \A c \in Requests : CallSame(c, Abandoned(c))
  BY SameAsBefore DEF CallSame, Abandoned, Requests

LEMMA KeylessExact ==
  ASSUME NEW g \in Draws, NEW n, n.op # "bytes", n.op = "authorize" => n.key = None
  PROVE  CallExact(g, n)
  BY NamesTyped DEF CallExact

LEMMA DeviceExact ==
  ASSUME Typed, Typed', NEW g \in Draws, Exact(g), NEW d \in Devices, Steady(d),
         StoresExact(g)', JobExact(d)',
         \A t \in Slots : CallSame(call[t], call'[t]) \/ CallExact(g, call'[t])
  PROVE  Exact(g)'
<1>1. \A t \in Slots : CallExact(g, call'[t])
  BY SameExact DEF Exact
<1>2. ASSUME NEW e \in Devices, e # d PROVE JobExact(e)'
  <2>1. job'[e] = job[e] /\ disk'[e] = disk[e] /\ JobExact(e)
    BY <1>2 DEF Steady, Exact
  <2>2. job[e].slot # None => call'[job[e].slot] = call[job[e].slot]
    BY <1>2, JobBefore, HasCallOps DEF JobsTyped, SlotsApart, Steady
  <2> QED BY <2>1, <2>2, AtSlot, JobStaysExact
<1> QED BY <1>1, <1>2 DEF Exact, CallExact

(* A step of a device that asks for no authorization and sends no file. *)
LEMMA QuietExact ==
  ASSUME Typed, Typed', NEW g \in Draws, Exact(g), NEW d \in Devices, Steady(d), Undisturbed,
         UNCHANGED <<bucket, parts>>,
         \A t \in Slots : CallSame(call[t], call'[t]) \/ CallExact(g, call'[t]),
         \/ job'[d].at # "authorize"
         \/ /\ job'[d] = job[d]
            /\ \A t \in Slots : CallSame(call[t], call'[t]) \/ call[t].op = "none"
  PROVE  Exact(g)'
<1>1. StoresExact(g)'
  BY DEF Exact, StoresExact, UploadName
<1>2. JobExact(d)'
  <2>1. CASE job'[d].at # "authorize"
    BY <2>1 DEF JobExact
  <2>2. CASE /\ job'[d] = job[d]
             /\ \A t \in Slots : CallSame(call[t], call'[t]) \/ call[t].op = "none"
    <3>1. ASSUME job[d].at = "authorize", call'[job[d].slot].op = "authorize"
          PROVE  call'[job[d].slot].md5 = call[job[d].slot].md5
      BY <2>2, <3>1, AtSlot, Waiting, FilesAssumption DEF CallSame
    <3>2. job[d].at = "authorize" =>
            disk'[d][job[d].item][job[d].path] = disk[d][job[d].item][job[d].path]
      BY DEF Undisturbed
    <3> QED BY <2>2, <3>1, <3>2, JobStaysExact DEF Exact
  <2> QED BY <2>1, <2>2
<1> QED BY <1>1, <1>2, DeviceExact

LEMMA AloneExact ==
  ASSUME Typed, Typed', NEW g \in Draws, Exact(g), NEW d \in Devices, Steady(d), Undisturbed,
         UNCHANGED <<bucket, parts, call>>, UNCHANGED job \/ job'[d].at # "authorize"
  PROVE  Exact(g)'
<1>1. \A t \in Slots : CallSame(call[t], call'[t])
  BY SameAsBefore
<1> QED BY <1>1, QuietExact

(* One request is sent in a free slot. *)
LEMMA SendsExact ==
  ASSUME Typed, Typed', NEW g \in Draws, Exact(g), NEW d \in Devices, Steady(d), Undisturbed,
         UNCHANGED <<bucket, parts>>, FreeSlots # {}, NEW n, Sends(FreeSlot, n),
         n.op \in {"delete", "abort", "download"}, UNCHANGED job \/ job'[d].at # "authorize"
  PROVE  Exact(g)'
<1>1. FreeSlot \in Slots /\ call[FreeSlot].op = "none"
  BY FreeSlotIsFree
<1>2. CallExact(g, n)
  BY KeylessExact
<1>3. \A t \in Slots : \/ CallSame(call[t], call'[t])
                       \/ call[t].op = "none" /\ CallExact(g, call'[t])
  BY <1>1, <1>2, SameAsBefore DEF Sends, Typed, ServerTyped, CallsTyped
<1>4. \A t \in Slots : CallSame(call[t], call'[t]) \/ CallExact(g, call'[t])
  BY <1>3
<1>5. \A t \in Slots : CallSame(call[t], call'[t]) \/ call[t].op = "none"
  BY <1>3
<1> QED BY <1>4, <1>5, QuietExact

(* One request is given up, or was answered. *)
LEMMA EndsExact ==
  ASSUME Typed, Typed', NEW g \in Draws, Exact(g), NEW d \in Devices, Steady(d), Undisturbed,
         UNCHANGED <<bucket, parts>>, UNCHANGED job \/ job'[d].at # "authorize",
         \A t \in Slots : call'[t] \in {call[t], Idle, Abandoned(call[t])}
  PROVE  Exact(g)'
<1>1. \A t \in Slots : CallSame(call[t], call'[t])
  BY SameAsBefore, AbandonedSame DEF Typed, ServerTyped, CallsTyped
<1> QED BY <1>1, QuietExact

(* What the users do, the items' synchronization, downloads and faults. *)
LEMMA OthersExact ==
  ASSUME Typed, Typed', NEW g \in Draws, Exact(g), NEW d \in Devices, Steady(d), Undisturbed,
         NEW i \in Items,
         \/ Import(d, i) \/ EditFile(d, i) \/ UploadMetadata(d, i) \/ Pull(d, i)
         \/ RemoveItem(d, i) \/ RetryDue(d, i) \/ OpenAttachment(d, i)
  PROVE  Exact(g)'
<1>1. CASE \/ Import(d, i) \/ EditFile(d, i) \/ UploadMetadata(d, i) \/ Pull(d, i)
           \/ RetryDue(d, i)
  <2>1. UNCHANGED <<bucket, parts, call>> /\ UNCHANGED job
    BY <1>1 DEF Import, EditFile, UploadMetadata, Pull, RetryDue, serverVars
  <2> QED BY <2>1, AloneExact
<1>2. CASE RemoveItem(d, i)
  <2>1. PICK n : n = Call("delete", i, FALSE)
    OBVIOUS
  <2>2. /\ FreeSlots # {} /\ Sends(FreeSlot, n) /\ n.op = "delete"
        /\ UNCHANGED <<bucket, parts>> /\ UNCHANGED job
    BY <1>2, <2>1 DEF RemoveItem, Call, Idle
  <2> QED BY <2>2, SendsExact
<1>3. CASE OpenAttachment(d, i)
  <2>1. PICK n : n = Call("download", i, TRUE)
    OBVIOUS
  <2>2. /\ FreeSlots # {} /\ Sends(FreeSlot, n) /\ n.op = "download"
        /\ UNCHANGED <<bucket, parts>> /\ UNCHANGED job
    BY <1>3, <2>1 DEF OpenAttachment, Call, Idle
  <2> QED BY <2>2, SendsExact
<1> QED BY <1>1, <1>2, <1>3

LEMMA StopsExact ==
  ASSUME Typed, Typed', NEW g \in Draws, Exact(g), NEW d \in Devices, Steady(d), Undisturbed,
         OnDownload(d) \/ LoseAnswer(d) \/ Kill(d)
  PROVE  Exact(g)'
<1>1. UNCHANGED <<bucket, parts>>
  BY DEF OnDownload, LoseAnswer, Kill
<1>2. \A t \in Slots : call'[t] \in {call[t], Idle, Abandoned(call[t])}
  BY DEF OnDownload, LoseAnswer, Kill, Typed, ServerTyped, CallsTyped
<1>3. UNCHANGED job \/ job'[d].at # "authorize"
  <2>1. CASE OnDownload(d)
    BY <2>1 DEF OnDownload
  <2>2. CASE Kill(d)
    BY <2>2, JobBefore, NoJobTyped DEF Kill
  <2>3. CASE LoseAnswer(d)
    <3>1. UNCHANGED job \/ job'[d] = [job[d] EXCEPT !.at = "failed", !.slot = None,
                                        !.direct = job[d].direct /\ job[d].at # "abort"]
      BY <2>3, JobBefore DEF LoseAnswer
    <3>2. job[d] \in Jobs
      BY JobBefore
    <3>3. \A direct : [job[d] EXCEPT !.at = "failed", !.slot = None,
                                    !.direct = direct].at # "authorize"
      BY <3>2 DEF Jobs
    <3> QED BY <3>1, <3>3
  <2> QED BY <2>1, <2>2, <2>3
<1> QED BY <1>1, <1>2, <1>3, EndsExact

LEMMA AtNextExact ==
  ASSUME Typed, Typed', NEW g \in Draws, Exact(g), NEW d \in Devices, Steady(d), Undisturbed,
         StartUpload(d) \/ EndUpload(d) \/ SkipCurrent(d)
  PROVE  Exact(g)'
<1>1. UNCHANGED <<bucket, parts, call>>
  BY DEF StartUpload, EndUpload, SkipCurrent, serverVars
<1>2. CASE StartUpload(d) \/ EndUpload(d)
  <2>1. job'[d].at # "authorize"
    BY <1>2, JobBefore, NoJobTyped DEF StartUpload, EndUpload, NoJob
  <2> QED BY <1>1, <2>1, AloneExact
<1>3. CASE SkipCurrent(d)
  <2>1. job'[d].at # "authorize"
    BY <1>3, JobBefore DEF SkipCurrent, Jobs
  <2> QED BY <1>1, <2>1, AloneExact
<1> QED BY <1>2, <1>3

LEMMA ReturnsExact ==
  ASSUME Typed, Typed', NEW g \in Draws, Exact(g), NEW d \in Devices, Steady(d), Undisturbed,
         Completes(d) \/ Fails(d) \/ Fail(d), UNCHANGED <<bucket, parts>>
  PROVE  Exact(g)'
<1>1. \A t \in Slots : call'[t] \in {call[t], Idle, Abandoned(call[t])}
  BY DEF Completes, Fails, Fail, Typed, ServerTyped, CallsTyped
<1>2. job'[d].at # "authorize"
  <2>1. CASE Completes(d) \/ Fail(d)
    BY <2>1, JobBefore DEF Completes, Fail, Next_, NoJob
  <2>2. CASE Fails(d)
    BY <2>2, JobBefore DEF Fails, Jobs
  <2> QED BY <2>1, <2>2
<1> QED BY <1>1, <1>2, EndsExact

LEMMA AbortExact ==
  ASSUME Typed, Typed', NEW g \in Draws, Exact(g), NEW d \in Devices, Steady(d), Undisturbed,
         Abort(d)
  PROVE  Exact(g)'
<1>1. PICK n : n = [Call("abort", job[d].item, TRUE) EXCEPT !.key = job[d].key]
  OBVIOUS
<1>2. n.op = "abort" /\ FreeSlots # {} /\ Sends(FreeSlot, n) /\ UNCHANGED <<bucket, parts>>
  BY <1>1 DEF Abort, Call, Idle
<1>3. job'[d].at # "authorize"
  BY JobBefore DEF Abort, Jobs
<1> QED BY <1>2, <1>3, SendsExact

LEMMA OnSentExact ==
  ASSUME Typed, Typed', NEW g \in Draws, Exact(g), NEW d \in Devices, Steady(d), Undisturbed,
         OnSent(d)
  PROVE  Exact(g)'
<1>1. UNCHANGED <<bucket, parts>>
  BY DEF OnSent
<1>2. CASE Fails(d)
  BY <1>1, <1>2, ReturnsExact
<1>3. PICK n : n = [Call("register", job[d].item, TRUE) EXCEPT !.key = job[d].key,
                                                               !.match = job[d].match]
  OBVIOUS
<1>4. CASE Sends(job[d].slot, n) /\ job' = [job EXCEPT ![d].at = "register"]
  <2>1. CallExact(g, n)
    <3>1. n.op = "register"
      BY <1>3 DEF Call, Idle
    <3> QED BY <3>1, KeylessExact
  <2>2. \A t \in Slots : CallSame(call[t], call'[t]) \/ CallExact(g, call'[t])
    BY <1>4, <2>1, SameAsBefore DEF Sends, Typed, ServerTyped, CallsTyped
  <2>3. job'[d].at # "authorize"
    BY <1>4, JobBefore DEF Jobs
  <2> QED BY <1>1, <2>2, <2>3, QuietExact
<1> QED BY <1>2, <1>3, <1>4 DEF OnSent

(* An authorization is asked for with the digest of the file. *)
LEMMA AsksExact ==
  ASSUME Typed, Typed', NEW g \in Draws, Exact(g), NEW d \in Devices, Steady(d),
         UNCHANGED <<bucket, parts>>, UNCHANGED disk,
         NEW s \in Slots, NEW i, NEW digest, NEW match, NEW n,
         \E direct \in BOOLEAN : n = Authorization(i, digest, match, direct), Sends(s, n),
         job'[d].slot = s, job'[d].digest = digest, disk[d][job'[d].item][job'[d].path] = digest
  PROVE  Exact(g)'
<1>1. n.op = "authorize" /\ n.key = None /\ n.md5 = digest
  BY DEF Authorization, Call, Idle
<1>2. CallExact(g, n)
  BY <1>1, KeylessExact
<1>3. call'[s] = n /\ \A t \in Slots : t # s => call'[t] = call[t]
  BY DEF Sends, Typed, ServerTyped, CallsTyped
<1>4. \A t \in Slots : CallSame(call[t], call'[t]) \/ CallExact(g, call'[t])
  BY <1>2, <1>3, SameAsBefore
<1>5. StoresExact(g)'
  BY DEF Exact, StoresExact, UploadName
<1>6. JobExact(d)'
  BY <1>1, <1>3 DEF JobExact
<1> QED BY <1>4, <1>5, <1>6, DeviceExact

LEMMA AuthorizeExact ==
  ASSUME Typed, Typed', NEW g \in Draws, Exact(g), NEW d \in Devices, Steady(d), Authorize(d)
  PROVE  Exact(g)'
<1>1. PICK r \in job[d].todo, digest \in {disk[d][q.item][q.path] : q \in job[d].todo} :
         /\ digest = disk[d][r.item][r.path]
         /\ job' = [job EXCEPT ![d] =
              [NoJob EXCEPT !.at = "authorize", !.todo = job[d].todo \ {r},
                 !.item = r.item, !.path = r.path, !.digest = digest, !.match = r.remote,
                 !.direct = TRUE, !.slot = FreeSlot]]
         /\ Sends(FreeSlot, Authorization(r.item, digest, r.remote, TRUE))
  BY DEF Authorize
<1>2. PICK n : n = Authorization(r.item, digest, r.remote, TRUE)
  OBVIOUS
<1>3. \E direct \in BOOLEAN : n = Authorization(r.item, digest, r.remote, direct)
  BY <1>2, Zenon
<1>4. PICK j : j = [NoJob EXCEPT !.at = "authorize", !.todo = job[d].todo \ {r},
                      !.item = r.item, !.path = r.path, !.digest = digest, !.match = r.remote,
                      !.direct = TRUE, !.slot = FreeSlot]
  OBVIOUS
<1>5. job'[d] = j /\ j.slot = FreeSlot /\ j.digest = digest /\ j.item = r.item /\ j.path = r.path
  BY <1>1, <1>4, JobBefore DEF NoJob
<1>6. FreeSlot \in Slots /\ UNCHANGED <<bucket, parts>> /\ UNCHANGED disk
  BY FreeSlotIsFree DEF Authorize
<1>7. Sends(FreeSlot, n)
  BY <1>1, <1>2
<1>8. disk[d][job'[d].item][job'[d].path] = digest /\ job'[d].digest = digest
      /\ job'[d].slot = FreeSlot
  BY <1>1, <1>5
<1> QED BY <1>3, <1>6, <1>7, <1>8, AsksExact

(* The bytes that are sent are those of the digest. *)
LEMMA SendFileExact ==
  ASSUME Typed, Typed', NEW g \in Draws, Exact(g), NEW d \in Devices, Steady(d),
         job[d].at = "authorize", AnswerTo(d) = "ok", SendFile(d)
  PROVE  Exact(g)'
<1>1. PICK c \in Requests, s \in Slots, j \in Jobs :
         s = job[d].slot /\ c = call[s] /\ j = job[d]
  BY Waiting, AtSlot, JobBefore
<1>2. c.op = "authorize" /\ c.key \in UploadKeys
  BY <1>1, Waiting, AtSlot DEF AnswerTo, Asked
<1>3. PICK k \in UploadKeys : k = c.key
  BY <1>2
<1>4. PICK bytes : bytes = disk[d][j.item][j.path]
  OBVIOUS
<1>5. bytes = g[k].md5
  BY <1>1, <1>2, <1>3, <1>4 DEF Exact, JobExact, CallExact
<1>6. PICK op, sent : /\ op = IF c.direct THEN "complete" ELSE "bytes"
                      /\ sent = IF c.direct THEN None ELSE bytes
  OBVIOUS
<1>7. PICK n : n = [Call(op, j.item, TRUE) EXCEPT !.key = k, !.bytes = sent]
  OBVIOUS
<1>8. call'[s] = n /\ \A t \in Slots : t # s => call'[t] = call[t]
  <2>1. call' = [call EXCEPT ![s] = n]
    BY <1>1, <1>3, <1>4, <1>6, <1>7 DEF SendFile
  <2> QED BY <2>1 DEF Typed, ServerTyped, CallsTyped
<1>9. n.op = op /\ n.key = k /\ n.bytes = sent
  BY <1>7 DEF Call, Idle
<1>10. CallExact(g, n)
  BY <1>5, <1>6, <1>9 DEF CallExact
<1>11. \A t \in Slots : CallSame(call[t], call'[t]) \/ CallExact(g, call'[t])
  BY <1>8, <1>10, SameAsBefore
<1>12. StoresExact(g)'
  <2> SUFFICES ASSUME NEW q \in UploadKeys
               PROVE  parts'[q] \in {g[q].md5, None} /\ bucket'[UploadName(q)] \in {g[q].md5, None}
    BY DEF StoresExact, UploadName
  <2>1. parts[q] \in {g[q].md5, None} /\ bucket[UploadName(q)] \in {g[q].md5, None}
    BY DEF Exact, StoresExact
  <2>2. /\ parts' \in {parts, [parts EXCEPT ![k] = bytes]}
        /\ bucket' \in {bucket, [bucket EXCEPT ![UploadName(k)] = bytes]}
    BY <1>1, <1>3, <1>4 DEF SendFile
  <2>3. parts'[q] = parts[q] \/ (q = k /\ parts'[q] = bytes)
    BY <2>2 DEF Typed, ServerTyped, StoresTyped
  <2>4. \/ bucket'[UploadName(q)] = bucket[UploadName(q)]
        \/ q = k /\ bucket'[UploadName(q)] = bytes
    BY <2>2, NamesApart, NamesTyped DEF Typed, ServerTyped, StoresTyped
  <2> QED BY <1>5, <2>1, <2>3, <2>4
<1>13. JobExact(d)'
  <2>1. job'[d].at = "sent"
    BY <1>1, JobBefore DEF SendFile, Jobs
  <2> QED BY <2>1 DEF JobExact
<1> QED BY <1>11, <1>12, <1>13, DeviceExact

LEMMA OnAuthorizeExact ==
  ASSUME Typed, Typed', NEW g \in Draws, Exact(g), NEW d \in Devices, Steady(d), Undisturbed,
         OnAuthorize(d)
  PROVE  Exact(g)'
<1>1. PICK s, i, digest, match :
        s = job[d].slot /\ i = job[d].item /\ digest = job[d].digest /\ match = job[d].match
  OBVIOUS
<1>2. PICK plain : plain = Authorization(i, digest, match, FALSE)
  OBVIOUS
<1>3. \/ Completes(d) /\ UNCHANGED <<bucket, parts>>
      \/ AnswerTo(d) = "ok" /\ SendFile(d)
      \/ Sends(s, plain) /\ UNCHANGED <<bucket, parts>> /\ UNCHANGED job
      \/ Fails(d) /\ UNCHANGED <<bucket, parts>>
  BY <1>1, <1>2 DEF OnAuthorize
<1>4. job[d].at = "authorize" /\ UNCHANGED disk /\ s \in Slots
  BY <1>1, AtSlot, Waiting DEF OnAuthorize
<1>5. CASE (Completes(d) \/ Fails(d)) /\ UNCHANGED <<bucket, parts>>
  BY <1>5, ReturnsExact
<1>6. CASE AnswerTo(d) = "ok" /\ SendFile(d)
  BY <1>4, <1>6, SendFileExact
<1>7. CASE Sends(s, plain) /\ UNCHANGED <<bucket, parts>> /\ UNCHANGED job
  <2>1. \E direct \in BOOLEAN : plain = Authorization(i, digest, match, direct)
    BY <1>2, Zenon
  <2>2. job'[d].slot = s /\ job'[d].digest = digest
        /\ disk[d][job'[d].item][job'[d].path] = digest
    BY <1>1, <1>4, <1>7 DEF Exact, JobExact
  <2> QED BY <1>4, <1>7, <2>1, <2>2, AsksExact
<1> QED BY <1>3, <1>5, <1>6, <1>7

LEMMA DeviceStepExact ==
  ASSUME Typed, ServedExactly, Undisturbed, NEW d \in Devices, DeviceStep(d)
  PROVE  ServedExactly'
<1>1. Typed' /\ Steady(d)
  BY DeviceStepTyped
<1>2. PICK g \in Draws : Fits(g) /\ Exact(g)
  BY DEF ServedExactly
<1>3. Fits(g)'
  BY <1>2, DeviceStepServed
<1>4. Exact(g)'
  <2>1. CASE JobStep(d)
    <3>1. CASE OnRegister(d) \/ Fail(d)
      BY <1>1, <1>2, <3>1, ReturnsExact DEF OnRegister, Fail
    <3>2. CASE ~(OnRegister(d) \/ Fail(d))
      BY <1>1, <1>2, <2>1, <3>2, AtNextExact, AuthorizeExact, OnAuthorizeExact, OnSentExact,
         AbortExact DEF JobStep
    <3> QED BY <3>1, <3>2
  <2>2. CASE StartUpload(d) \/ OnDownload(d) \/ LoseAnswer(d) \/ Kill(d)
    BY <1>1, <1>2, <2>2, AtNextExact, StopsExact
  <2>3. ASSUME NEW i \in Items,
               \/ Import(d, i) \/ EditFile(d, i) \/ UploadMetadata(d, i) \/ Pull(d, i)
               \/ RemoveItem(d, i) \/ RetryDue(d, i) \/ OpenAttachment(d, i)
        PROVE  Exact(g)'
    BY <1>1, <1>2, <2>3, OthersExact
  <2> QED BY <2>1, <2>2, <2>3 DEF DeviceStep
<1> QED BY <1>3, <1>4 DEF ServedExactly, Draws

LEMMA StutterExact ==
  ASSUME Typed, Typed', NEW g \in Draws, Exact(g), UNCHANGED vars
  PROVE  Exact(g)'
<1>1. UNCHANGED <<bucket, parts, call, disk, job>>
  BY DEF vars, serverVars, deviceVars
<1>2. StoresExact(g)' /\ \A t \in Slots : CallExact(g, call[t])'
  BY <1>1 DEF Exact, StoresExact, CallExact, UploadName
<1>3. \A d \in Devices : JobExact(d)'
  BY <1>1 DEF Exact, JobExact
<1> QED BY <1>2, <1>3 DEF Exact

LEMMA NextExact ==
  Typed /\ ServedExactly /\ [Next]_vars /\ [Undisturbed]_vars => ServedExactly'
<1> SUFFICES ASSUME Typed, ServedExactly, [Next]_vars, [Undisturbed]_vars PROVE ServedExactly'
  OBVIOUS
<1>1. Typed'
  BY NextTypes
<1>2. CASE UNCHANGED vars
  <2>1. PICK g \in Draws : Fits(g) /\ Exact(g)
    BY DEF ServedExactly
  <2>2. Fits(g)' /\ Exact(g)'
    BY <1>1, <1>2, <2>1, StutterServed, StutterExact
  <2> QED BY <2>2 DEF ServedExactly, Draws
<1>3. CASE Next /\ Undisturbed
  BY <1>1, <1>3, ServerStepExact, DeviceStepExact DEF Next
<1> QED BY <1>2, <1>3

LEMMA InitExact == Init => ServedExactly
<1> SUFFICES ASSUME Init PROVE ServedExactly
  OBVIOUS
<1>1. PICK g \in Draws : Fits(g)
  BY InitServed DEF Served
<1>2. \A s \in Slots : CallExact(g, call[s])
  BY FilesAssumption DEF Init, CallExact, Idle
<1>3. StoresExact(g)
  BY NamesApart, NamesTyped, DevicesAssumption DEF Init, StoresExact
<1>4. \A d \in Devices : JobExact(d)
  BY NoJobTyped DEF Init, JobExact
<1> QED BY <1>1, <1>2, <1>3, <1>4 DEF ServedExactly, Exact

(* The same of every kind of file, those whose bodies are not checked and  *)
(* those of one size included, provided no file is edited, added or        *)
(* downloaded anew between its digest and the sending of its bytes.        *)
THEOREM UndisturbedFilesAreServed == Spec /\ [][Undisturbed]_vars => []FilesServed
<1>1. Init => Typed /\ ServedExactly
  BY InitTypes, InitExact
<1>2. Typed /\ ServedExactly /\ [Next]_vars /\ [Undisturbed]_vars => (Typed /\ ServedExactly)'
  BY NextTypes, NextExact
<1>3. Typed /\ ServedExactly => FilesServed
  BY ServedGivesFiles DEF ServedExactly, Served
<1> QED BY <1>1, <1>2, <1>3, PTL DEF Spec

=============================================================================
