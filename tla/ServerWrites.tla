---------------------------- MODULE ServerWrites ----------------------------
(***************************************************************************)
(* The requests of one library on the self-hosted server, query by query. *)
(* A handler awaits each of its D1 queries, so the queries of two requests *)
(* interleave; one query, or one batch, is atomic.  Every action below is  *)
(* one query of one request, and a request may die between two of them.   *)
(*                                                                         *)
(* The steps of a handler are its program: the queries it issues, in the  *)
(* order of the source.  Reads keep what they read, since the checks, the  *)
(* merges and the versions of the later queries are computed from it.     *)
(*                                                                         *)
(* The body of an object is the set of requests whose edit it contains.   *)
(***************************************************************************)
EXTENDS Naturals, Sequences, FiniteSets

CONSTANTS
  Items, Collections, Settings, Searches,   \* keys, by type of object
  Tag,             \* the name a tag deletion is logged under
  Requests, Nobody,
  Shapes,          \* Shapes[r]: what request r may ask for
  Present,         \* the objects there are at first
  Tokens,          \* values of Zotero-Write-Token
  NoHeader, NoToken,
  MaxCrashes       \* bound: requests that die half-way

Objects == Items \cup Collections \cup Settings \cup Searches

Ops == {"post items", "put item", "move items", "delete tag", "delete items",
        "post collections", "put collection", "delete collections",
        "post settings", "put setting", "delete settings",
        "post searches", "put search", "delete searches",
        "list items", "list objects", "list deleted"}

ASSUME ServerAssumption ==
  /\ IsFiniteSet(Objects)
  /\ Nobody \notin Requests
  /\ Present \subseteq Objects
  /\ MaxCrashes \in Nat
  /\ Shapes \in [Requests ->
        SUBSET [op : Ops, keys : Seq(Objects), conditional : BOOLEAN,
                token : Tokens \cup {NoToken}, invalid : SUBSET Objects,
                related : Seq(Objects), under : SUBSET (Objects \X Objects)]]
  \* A batch with nothing to write ends before its queries, and only the
  \* batch of items looks at a write token.
  /\ \A r \in Requests : \A shape \in Shapes[r] :
        /\ shape.op \in {"post items", "post collections"} => shape.keys # <<>>
        /\ shape.token # NoToken => shape.op = "post items"
  \* A batch is about objects of its own type.
  /\ Settings \cap (Items \cup Collections) = {}
  /\ \A r \in Requests : \A shape \in Shapes[r] :
        /\ shape.op = "post items" => shape.keys \in Seq(Items) /\ shape.related \in Seq(Items)
        /\ shape.op = "post collections" => shape.keys \in Seq(Collections)

VARIABLES
  version,      \* libraries.version
  row,          \* the row of each object
  log,          \* the deletions in sync_log
  tokens,       \* write_tokens: the tokens of clients and of preconditions
  request,      \* what each request asked, read and still has to do
  crashes

vars == <<version, row, log, tokens, request, crashes>>

NoRow == [version |-> 0, live |-> FALSE, edits |-> {}, by |-> Nobody]
Rows == [version : Nat, live : BOOLEAN, edits : SUBSET Requests,
         by : Requests \cup {Nobody}]
Keys(s) == {s[n] : n \in DOMAIN s}
Nothing == [o \in {} |-> NoRow]

(* --------------------------- the programs ------------------------------ *)
(* A step is a query, the objects it is about, and the rules its answer    *)
(* has to meet.                                                            *)

All(q) == Keys(q.keys)

Queries == {"version", "rows", "log", "compare", "validate", "find token", "claim",
            "reserve", "store", "walk", "move", "drop", "erase", "erase items", "log tag"}
AllRules == {"exact", "not later", "unmodified", "expected", "required", "some", "all", "one",
             "token"}
Steps == [do : Queries, on : SUBSET Objects, rules : SUBSET AllRules]

Step(do, on, rules) == [do |-> do, on |-> on, rules |-> rules]

ReadRows(on)    == <<Step("rows", on, {})>>
ReadTargets(on) == <<Step("rows", on, {"some"})>>
ReadVersion     == <<Step("version", {}, {})>>
Reserve(on)     == <<Step("reserve", on, {})>>
ReserveOne(on)  == <<Step("reserve", on, {"one"})>>
Store(on)       == <<Step("store", on, {})>>
Write(on)       == <<Step("reserve", on, {}), Step("store", on, {})>>

(* One after the other, each under a version of its own. *)
WriteEach(keys) ==
  [n \in 1 .. 2 * Len(keys) |->
     Step(IF n % 2 = 1 THEN "reserve" ELSE "store", {keys[(n + 1) \div 2]}, {})]

(* checkSingleObjectWriteVersion, on one object. *)
ReadExpected(on) == <<Step("rows", on, {"unmodified", "expected", "required"})>>

(* evaluateBatchWritePreconditions *)
ReadExactVersion == <<Step("version", {}, {"exact"})>>
ReadLaterVersion == <<Step("version", {}, {"not later"})>>

(* Mutant of Claim: the header is only compared when the library is read. *)
ClaimNothing(q, on) == Reserve(on)

(* reservePrecondition and reserve: under If-Unmodified-Since-Version, the *)
(* token that goes with the version and the version itself are claimed one *)
(* after the other.                                                        *)
Claim(q, on) ==
  IF q.conditional
  THEN <<Step("claim", on, {}), Step("reserve", on, {"exact"})>>
  ELSE Reserve(on)

(* syncRelatedItemRelations: the items the written ones are related to.    *)
SyncRelations(q) ==
  IF q.related = <<>> THEN <<>> ELSE ReadTargets(Keys(q.related)) \o Write(Keys(q.related))

PostItems(q) ==
  ReadExactVersion \o ReadRows(All(q))
    \o (IF q.token = NoToken THEN <<>> ELSE <<Step("find token", {}, {})>>)
    \o Claim(q, All(q)) \o <<Step("store", All(q), {"token"})>> \o SyncRelations(q)

PutItem(q) == ReadExpected(All(q)) \o Write(All(q)) \o SyncRelations(q)

(* updateCollectionItemMembership *)
MoveItems(q) == <<Step("rows", All(q), {"all"})>> \o Write(All(q))

(* The tag leaves the items first and is logged as deleted afterwards.     *)
DeleteTag(q) ==
  ReadLaterVersion \o ReadTargets(All(q)) \o Write(All(q))
    \o <<Step("log tag", All(q), {})>>

(* The deletion is numbered by the version read at the start. *)
DeleteItems(q) ==
  ReadVersion \o <<Step("rows", All(q), {"some", "unmodified"})>> \o ReadRows(All(q))
    \o <<Step("erase items", All(q), {})>>

(* The parents a batch gives the collection. *)
Under(q, key) == {o \in Objects : <<key, o>> \in q.under}

(* A collection that was put under one of its own descendants is followed  *)
(* by that one's move to the root.                                         *)
MoveToRoot(on) == <<Step("walk", on, {}), Step("move", on, {})>>

WriteCollections(q, keys) ==
  [n \in 1 .. 4 * Len(keys) |->
     LET key == keys[(n + 3) \div 4]
     IN  CASE n % 4 = 1 -> Step("reserve", {key}, {})
           [] n % 4 = 2 -> Step("store", {key}, {})
           [] n % 4 = 3 -> Step("walk", Under(q, key), {})
           [] OTHER     -> Step("move", Under(q, key), {})]

(* Only the first collection of a batch is written under the precondition. *)
PostCollections(q) ==
  ReadRows(All(q)) \o ReadExactVersion \o ReadExactVersion
    \o Claim(q, {Head(q.keys)}) \o Store({Head(q.keys)}) \o MoveToRoot(Under(q, Head(q.keys)))
    \o WriteCollections(q, Tail(q.keys))

PutCollection(q) ==
  ReadExpected(All(q)) \o ReadRows(All(q)) \o Write(All(q))
    \o MoveToRoot(UNION {Under(q, key) : key \in All(q)})

DeleteCollections(q) ==
  ReadTargets(All(q))
    \o <<Step("compare", All(q), {}), Step("reserve", All(q), {"one", "exact"}),
         Step("drop", All(q), {})>>

PostSettings(q) ==
  ReadLaterVersion \o ReadRows(All(q)) \o ReserveOne(All(q)) \o Store(All(q))

PutSetting(q) ==
  <<Step("rows", All(q), {"unmodified", "expected"})>> \o ReadRows(All(q))
    \o ReserveOne(All(q)) \o Store(All(q))

DeleteSettings(q) ==
  <<Step("rows", All(q), {"some", "unmodified"})>> \o ReserveOne(All(q))
    \o <<Step("erase", All(q), {})>>

(* A search that does not validate is skipped, its token already claimed.  *)
UpsertSearches(q) == <<Step("validate", All(q), {})>> \o WriteEach(q.keys)

PostSearches(q) ==
  ReadRows(All(q)) \o ReadExactVersion \o ReadLaterVersion
    \o (IF q.conditional THEN <<Step("claim", All(q), {})>> ELSE <<>>)
    \o UpsertSearches(q)

PutSearch(q) == ReadExpected(All(q)) \o UpsertSearches(q)

DeleteSearches(q) ==
  ReadLaterVersion \o ReadTargets(All(q)) \o ReserveOne(All(q))
    \o <<Step("erase", All(q), {})>>

(* Mutant of ListItems: the rows before the version. *)
ListItemsBefore(q) == ReadRows(All(q)) \o ReadVersion

ListItems(q) == ReadVersion \o ReadRows(All(q))

(* Collections, searches, settings, and the items of a collection: the     *)
(* rows before the version.                                                *)
ListObjects(q) == ReadRows(All(q)) \o ReadVersion

ListDeleted(q) == <<Step("log", {}, {})>> \o ReadVersion

Program(q) ==
  CASE q.op = "post items"         -> PostItems(q)
    [] q.op = "put item"           -> PutItem(q)
    [] q.op = "move items"         -> MoveItems(q)
    [] q.op = "delete tag"         -> DeleteTag(q)
    [] q.op = "delete items"       -> DeleteItems(q)
    [] q.op = "post collections"   -> PostCollections(q)
    [] q.op = "put collection"     -> PutCollection(q)
    [] q.op = "delete collections" -> DeleteCollections(q)
    [] q.op = "post settings"      -> PostSettings(q)
    [] q.op = "put setting"        -> PutSetting(q)
    [] q.op = "delete settings"    -> DeleteSettings(q)
    [] q.op = "post searches"      -> PostSearches(q)
    [] q.op = "put search"         -> PutSearch(q)
    [] q.op = "delete searches"    -> DeleteSearches(q)
    [] q.op = "list items"         -> ListItems(q)
    [] q.op = "list objects"       -> ListObjects(q)
    [] OTHER                       -> ListDeleted(q)

(* ---------------------------- the requests ----------------------------- *)

Outcomes == {"waiting", "running", "answered", "refused", "duplicate", "failed", "died"}

Idle == [op |-> "none", keys |-> <<>>, header |-> NoHeader, token |-> NoToken,
         invalid |-> {}, steps |-> <<>>, outcome |-> "waiting",
         seen |-> 0,         \* the library version it read last
         base |-> Nothing,   \* the rows it read last
         below |-> Nothing,  \* the parents it found below their collection
         gone |-> {},        \* the deletions it read
         mine |-> Nothing,   \* the versions it reserved, by object
         met  |-> {},        \* requests that wrote while it was under way
         calm |-> TRUE,      \* no write was under way when its header was read
         late |-> FALSE]     \* it deleted items after the version it read had passed

Underway(r) == request[r].outcome = "running"

(* Between its first reservation and its end. *)
Writing(r) == Underway(r) /\ request[r].mine # Nothing

NextIs(r, do) == Underway(r) /\ Head(request[r].steps).do = do

(* What is kept of a request that ended: what a list answered, and what a  *)
(* refusal was about.                                                      *)
Lists == {"list items", "list objects", "list deleted"}

Ended(q, outcome) ==
  LET done == [q EXCEPT !.outcome = outcome, !.steps = <<>>, !.mine = Nothing, !.below = Nothing]
  IN  CASE q.op \in Lists -> done
        [] q.op \notin Lists /\ outcome = "refused" -> [done EXCEPT !.base = Nothing]
        [] OTHER -> [done EXCEPT !.base = Nothing, !.seen = 0, !.met = {}]

Advanced(q) ==
  IF Len(q.steps) = 1 THEN Ended(q, "answered") ELSE [q EXCEPT !.steps = Tail(@)]

Becomes(r, q) == request' = [request EXCEPT ![r] = q]

Init ==
  /\ version = 1
  /\ row = [o \in Objects |->
              IF o \in Present THEN [NoRow EXCEPT !.version = 1, !.live = TRUE] ELSE NoRow]
  /\ log = {}
  /\ tokens = {}
  /\ request = [r \in Requests |-> Idle]
  /\ crashes = 0

(* A request arrives.  A conditional one was prepared from the library's   *)
(* latest version.                                                         *)
Begin(r) ==
  /\ request[r].outcome = "waiting"
  /\ \E shape \in Shapes[r] :
       request' = [s \in Requests |->
         IF s = r
         THEN [Idle EXCEPT
                 !.op      = shape.op,
                 !.keys    = shape.keys,
                 !.token   = shape.token,
                 !.invalid = shape.invalid,
                 !.header  = IF shape.conditional THEN version ELSE NoHeader,
                 !.steps   = Program(shape),
                 !.outcome = "running",
                 !.met     = {s2 \in Requests : Underway(s2)},
                 !.calm    = \A s2 \in Requests : ~Writing(s2)]
         ELSE [request[s] EXCEPT !.met = IF Underway(s) /\ request[s].op # "list items"
                                         THEN @ \cup {r} ELSE @]]
  /\ UNCHANGED <<version, row, log, tokens, crashes>>

(* A dead worker leaves what it wrote and goes no further. *)
Die(r) ==
  /\ Underway(r)
  /\ crashes < MaxCrashes
  /\ crashes' = crashes + 1
  /\ Becomes(r, Ended(request[r], "died"))
  /\ UNCHANGED <<version, row, log, tokens>>

(* ------------------------------ reading -------------------------------- *)

Rules(r) == Head(request[r].steps).rules
On(r)    == Head(request[r].steps).on
Given(r) == request[r].header # NoHeader

VersionRefused(r) ==
  /\ Given(r)
  /\ \/ "exact" \in Rules(r) /\ version # request[r].header
     \/ "not later" \in Rules(r) /\ version > request[r].header

ReadTheVersion(r) ==
  /\ NextIs(r, "version")
  /\ LET q == [request[r] EXCEPT !.seen = version,
                                 !.met  = IF request[r].op = "list items"
                                          THEN {s \in Requests : Writing(s)} ELSE @]
     IN  Becomes(r, IF VersionRefused(r) THEN Ended(q, "refused") ELSE Advanced(q))
  /\ UNCHANGED <<version, row, log, tokens, crashes>>

RowRefused(r, o) ==
  \/ /\ "unmodified" \in Rules(r)
     /\ Given(r) /\ row[o].live /\ row[o].version > request[r].header
  \/ /\ "expected" \in Rules(r)
     /\ Given(r) /\ ~row[o].live /\ request[r].header > 0
  \/ "required" \in Rules(r) /\ ~Given(r) /\ row[o].live

(* Only what is found goes on; when nothing is, the request succeeds       *)
(* without a write.                                                        *)
Narrowed(steps, found) ==
  [n \in DOMAIN steps |-> [steps[n] EXCEPT !.on = @ \cap found]]

ReadTheRows(r) ==
  /\ NextIs(r, "rows")
  /\ LET on    == On(r)
         live  == {o \in on : row[o].live}
         q     == [request[r] EXCEPT !.base = [o \in on |-> row[o]]]
         wrong == \E o \in on : RowRefused(r, o)
     IN  Becomes(r,
           CASE wrong -> Ended([q EXCEPT !.seen = version], "refused")
             [] "all" \in Rules(r) /\ live # on -> Ended(q, "failed")
             [] ~wrong /\ "some" \in Rules(r) /\ live = {} -> Ended(q, "answered")
             [] ~wrong /\ "some" \in Rules(r) /\ live # {} ->
                  Advanced([q EXCEPT !.steps = Narrowed(@, live)])
             [] OTHER -> Advanced(q))
  /\ UNCHANGED <<version, row, log, tokens, crashes>>

ReadTheLog(r) ==
  /\ NextIs(r, "log")
  /\ Becomes(r, Advanced([request[r] EXCEPT !.gone = log]))
  /\ UNCHANGED <<version, row, log, tokens, crashes>>

(* collectionSubtreeHasVersionAfter, of the rows found before. *)
CompareRows(r) ==
  /\ NextIs(r, "compare")
  /\ LET q     == request[r]
         newer == \E o \in On(r) :
                     Given(r) /\ q.base[o].live /\ row[o].live /\ row[o].version > q.header
     IN  Becomes(r, IF newer THEN Ended([q EXCEPT !.seen = version], "refused") ELSE Advanced(q))
  /\ UNCHANGED <<version, row, log, tokens, crashes>>

(* upsertSearches: validateSearchWrite on the rows as they are now. *)
Validate(r) ==
  /\ NextIs(r, "validate")
  /\ LET q       == request[r]
         skipped == {o \in On(r) : row[o] # q.base[o]} \cup q.invalid
     IN  Becomes(r, IF On(r) \subseteq skipped THEN Ended(q, "answered")
                    ELSE Advanced([q EXCEPT !.steps = Narrowed(@, On(r) \ skipped)]))
  /\ UNCHANGED <<version, row, log, tokens, crashes>>

FindToken(r) ==
  /\ NextIs(r, "find token")
  /\ Becomes(r, IF request[r].token \in tokens THEN Ended(request[r], "duplicate")
                                               ELSE Advanced(request[r]))
  /\ UNCHANGED <<version, row, log, tokens, crashes>>

(* ------------------------------ writing -------------------------------- *)

(* if-unmodified:<type>:<version> *)
PreconditionToken(r) == <<request[r].op, request[r].header>>

ClaimVersion(r) ==
  /\ NextIs(r, "claim")
  /\ LET q == request[r]
     IN  IF PreconditionToken(r) \in tokens
         THEN Becomes(r, Ended([q EXCEPT !.seen = version], "refused")) /\ UNCHANGED tokens
         ELSE Becomes(r, Advanced(q)) /\ tokens' = tokens \cup {PreconditionToken(r)}
  /\ UNCHANGED <<version, row, log, crashes>>

(* Mutant of Numberings: one too high. *)
NumberedFromTwo(on, from, one) ==
  IF one THEN {[o \in on |-> from + 1]}
  ELSE {v \in [on -> from + 2 .. from + 1 + Cardinality(on)] :
          \A o, p \in on : v[o] = v[p] => o = p}

(* The new versions go to the objects in the order the batch has them, or  *)
(* all objects get the only one.                                           *)
Numberings(on, from, one) ==
  IF one THEN {[o \in on |-> from + 1]}
  ELSE {v \in [on -> from + 1 .. from + Cardinality(on)] :
          \A o, p \in on : v[o] = v[p] => o = p}

ReserveVersions(r) ==
  /\ NextIs(r, "reserve")
  /\ LET q   == request[r]
         one == "one" \in Rules(r)
     IN  IF "exact" \in Rules(r) /\ Given(r) /\ q.header # version
         THEN /\ Becomes(r, Ended([q EXCEPT !.seen = version], "refused"))
              /\ UNCHANGED version
         ELSE /\ version' = version + (IF one THEN 1 ELSE Cardinality(On(r)))
              /\ \E mine \in Numberings(On(r), version, one) :
                    Becomes(r, Advanced([q EXCEPT !.mine = mine]))
  /\ UNCHANGED <<row, log, tokens, crashes>>

(* What a write makes of an object: its own edit, merged into what it read *)
(* unless it replaces the value whole, as a setting does.                  *)
Edited(r, o) ==
  {r} \cup {s \in Requests : /\ o \notin Settings
                             /\ request[r].base[o].live
                             /\ s \in request[r].base[o].edits}

(* Mutant of TokenFree: the token was looked up before, and is not again. *)
TokenAssumedFree(token) == TRUE

(* The primary key of write_tokens. *)
TokenFree(token) == token \notin tokens

(* The batch that writes posted items also inserts the client's write      *)
(* token, and fails as a whole when that is there already.                 *)
StoreRows(r) ==
  /\ NextIs(r, "store")
  /\ LET q    == request[r]
         uses == "token" \in Rules(r) /\ q.token # NoToken
     IN  IF uses /\ ~TokenFree(q.token)
         THEN Becomes(r, Ended(q, "failed")) /\ UNCHANGED <<row, tokens>>
         ELSE /\ row' = [o \in Objects |->
                           IF o \in DOMAIN q.mine
                           THEN [version |-> q.mine[o], live |-> TRUE,
                                 edits |-> Edited(r, o), by |-> r]
                           ELSE row[o]]
              /\ tokens' = IF uses THEN tokens \cup {q.token} ELSE tokens
              /\ Becomes(r, Advanced(q))
  /\ UNCHANGED <<version, log, crashes>>

(* collectionIsDescendant and the read of moveCollectionToRoot.  Which     *)
(* collections are below which is not modelled: any parent may be.         *)
WalkUp(r) ==
  /\ NextIs(r, "walk")
  /\ \E below \in SUBSET On(r) :
       Becomes(r, Advanced([request[r] EXCEPT !.below = [o \in below |-> row[o]]]))
  /\ UNCHANGED <<version, row, log, tokens, crashes>>

(* moveCollectionToRoot writes what it read, under the version of the      *)
(* collection above.                                                       *)
MoveUp(r) ==
  /\ NextIs(r, "move")
  /\ LET q     == request[r]
         moved == {o \in DOMAIN q.below : q.below[o].live}
     IN  /\ \E v \in {q.mine[o] : o \in DOMAIN q.mine} :
              row' = [o \in Objects |->
                        IF o \in moved
                        THEN [version |-> v, live |-> row[o].live,
                              edits |-> {r} \cup q.below[o].edits, by |-> r]
                        ELSE row[o]]
         /\ Becomes(r, Advanced(q))
  /\ UNCHANGED <<version, log, tokens, crashes>>

Deletions(r, versions) ==
  {[version |-> versions[o], key |-> o, by |-> r] : o \in DOMAIN versions}

(* A deleted collection keeps its row and the version of its last change. *)
DropCollections(r) ==
  /\ NextIs(r, "drop")
  /\ LET mine == request[r].mine
     IN  /\ row' = [o \in Objects |->
                      IF o \in DOMAIN mine THEN [row[o] EXCEPT !.live = FALSE] ELSE row[o]]
         /\ log' = log \cup Deletions(r, mine)
  /\ Becomes(r, Advanced(request[r]))
  /\ UNCHANGED <<version, tokens, crashes>>

(* A deleted setting or search loses its row. *)
EraseRows(r) ==
  /\ NextIs(r, "erase")
  /\ LET mine == request[r].mine
     IN  /\ row' = [o \in Objects |-> IF o \in DOMAIN mine THEN NoRow ELSE row[o]]
         /\ log' = log \cup Deletions(r, mine)
  /\ Becomes(r, Advanced(request[r]))
  /\ UNCHANGED <<version, tokens, crashes>>

(* Mutant of NextVersion: the version that was read. *)
SameVersion(seen) == seen

NextVersion(seen) == seen + 1

(* The library gets the version read at the start plus one, whatever its   *)
(* version has become since.                                               *)
EraseItems(r) ==
  /\ NextIs(r, "erase items")
  /\ LET q     == request[r]
         found == {o \in On(r) : q.base[o].live}
     IN  /\ version' = NextVersion(q.seen)
         /\ row' = [o \in Objects |->
                      IF o \in found
                      THEN [version |-> NextVersion(q.seen), live |-> FALSE,
                            edits |-> row[o].edits, by |-> r]
                      ELSE row[o]]
         /\ log' = log \cup Deletions(r, [o \in found |-> NextVersion(q.seen)])
         /\ Becomes(r, Advanced([q EXCEPT !.late = @ \/ q.seen # version]))
  /\ UNCHANGED <<tokens, crashes>>

(* recordDeletedObjects, under the version of the last item written. *)
LogTag(r) ==
  /\ NextIs(r, "log tag")
  /\ \E v \in {request[r].mine[o] : o \in DOMAIN request[r].mine} :
       /\ \A o \in DOMAIN request[r].mine : request[r].mine[o] <= v
       /\ log' = log \cup {[version |-> v, key |-> Tag, by |-> r]}
  /\ Becomes(r, Advanced(request[r]))
  /\ UNCHANGED <<version, row, tokens, crashes>>

Query(r) ==
  \/ ReadTheVersion(r)
  \/ ReadTheRows(r)
  \/ ReadTheLog(r)
  \/ CompareRows(r)
  \/ Validate(r)
  \/ FindToken(r)
  \/ ClaimVersion(r)
  \/ ReserveVersions(r)
  \/ StoreRows(r)
  \/ WalkUp(r)
  \/ MoveUp(r)
  \/ DropCollections(r)
  \/ EraseRows(r)
  \/ EraseItems(r)
  \/ LogTag(r)

Next == \E r \in Requests : Begin(r) \/ Query(r) \/ Die(r)

Spec == Init /\ [][Next]_vars

-----------------------------------------------------------------------------
(* A deletion of items sets the library's version to the one after the     *)
(* version it read, also when another request has reserved that one since: *)
(* it is overtaken, the version goes back, and versions are handed out a   *)
(* second time.  What is said below of InTurn states is said of a library  *)
(* in which this has not happened; the rest holds of every state.          *)
InTurn == \A r \in Requests : ~request[r].late

(* Every variable holds what its queries can put there: a running request  *)
(* has a query left and, InTurn, reserved versions the library has         *)
(* reached, and an ended one has neither.                                  *)
TypeOK ==
  /\ version \in Nat
  /\ row \in [Objects -> Rows]
  /\ log \subseteq [version : Nat, key : Objects \cup {Tag}, by : Requests]
  /\ crashes \in 0 .. MaxCrashes
  /\ \A r \in Requests :
       LET q == request[r]
       IN  /\ q.outcome \in Outcomes
           /\ (q.outcome = "running") = (q.steps # <<>>)
           /\ q.outcome # "running" => q.mine = Nothing
           /\ DOMAIN q.mine \cup DOMAIN q.base \subseteq Objects
           /\ \A o \in DOMAIN q.mine : InTurn => q.mine[o] \in 1 .. version

(* What a version counter promises: the ledger's writers are the requests, *)
(* and a request holds the versions it reserved until it ends.             *)
Held(r) == {request[r].mine[o] : o \in DOMAIN request[r].mine}

Ledger == INSTANCE VersionLedger WITH
  Writers <- Requests,
  clock   <- version,
  held    <- [r \in Requests |-> Held(r)],
  stored  <- [o \in Objects |-> row[o].version],
  by      <- [o \in Objects |-> row[o].by],
  removed <- {[version |-> entry.version, by |-> entry.by] : entry \in log},
  overtaken <- ~InTurn

(* The handlers keep the ledger's promise: the library version goes back   *)
(* only where a deletion of items is overtaken, and every row and every    *)
(* deletion is written under a version that was reserved for its request,  *)
(* or, by an overtaken deletion, under the one it sets the library to.     *)
KeepsLedger == Ledger!LedgerSpec

(* No version carries the writes of two requests (see VersionLedger): what *)
(* the ledger's promise amounts to InTurn, and only then.                  *)
OneWriterPerVersion == Ledger!OneWriterPerVersion

(* A list is answered with a version, and its reader asks for later ones   *)
(* only the next time.  What it lacks at or below that version was written *)
(* by a request that met it: for the items, whose version is read before   *)
(* the rows, one that had reserved its version and not written yet; for    *)
(* the other lists, any that was under way.  All of this InTurn: the       *)
(* version a list was answered with may come again afterwards.             *)
Answered(r, op) == request[r].outcome = "answered" /\ request[r].op = op

ListsLackOnlyWhatTheyMet ==
  InTurn => \A r \in Requests :
    LET q == request[r]
    IN  /\ Answered(r, "list items") \/ Answered(r, "list objects") =>
             \A o \in Keys(q.keys) :
               row[o].live /\ row[o].version <= q.seen /\ row[o].by \notin q.met
                 => q.base[o] = row[o]
        /\ Answered(r, "list deleted") =>
             \A entry \in log : entry.version <= q.seen /\ entry.by \notin q.met
                                  => entry \in q.gone

(* A batch of items or collections sent under If-Unmodified-Since-Version  *)
(* that was prepared while no write was half-way.                          *)
Guarded(r) ==
  /\ request[r].op \in {"post items", "post collections"}
  /\ Given(r) /\ request[r].calm

(* What the precondition is for: where one guarded batch writes a row that *)
(* another one wrote last, it keeps every edit that one left there.  (What *)
(* a request without the precondition put in between may be lost, and the  *)
(* edits it had kept with it.)  InTurn: when the version goes back, the    *)
(* version a batch was prepared from is current once more.                 *)
GuardedEditsKept ==
  [][InTurn => \A o \in Objects :
       LET last == row[o].by
           next == row'[o].by
       IN  /\ last \in Requests /\ next \in Requests /\ last # next
           /\ row[o].live /\ row'[o].live
           /\ Guarded(last) /\ Guarded(next)
           => row[o].edits \subseteq row'[o].edits]_vars

(* A batch that is sent twice under one write token is written once, and   *)
(* its second copy is told so or fails: also when the copies overlap, and  *)
(* when the first died after it was written.                               *)
WriteTokenOnce ==
  \A r, s \in Requests :
    /\ request[r].token = request[s].token /\ request[r].token # NoToken /\ r # s
    /\ request[r].outcome = "answered"
    => request[s].outcome # "answered"

(* "A precondition failure means remote state changed and must be          *)
(* downloaded before retrying": a batch is refused because the version   *)
(* it named has passed, or because of a request that it met.               *)
RefusedBecauseChanged ==
  \A r \in Requests :
    /\ request[r].op \in {"post items", "post collections", "post searches"}
    /\ request[r].outcome = "refused" /\ request[r].met = {}
    => request[r].seen # request[r].header
=============================================================================
