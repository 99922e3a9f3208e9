--------------------------- MODULE ServerLibrary ---------------------------
(***************************************************************************)
(* One user library of the self-hosted Zotero server, request by request:  *)
(* what the multi-object POST and DELETE handlers do to the library and    *)
(* what they answer.  Each request is one step here; how the handlers of   *)
(* two requests interleave on the database is the subject of another       *)
(* module.                                                                 *)
(*                                                                         *)
(* A library is its version and its objects.  An object that was deleted   *)
(* keeps the version of its latest /deleted entry, also when it is created *)
(* again: nothing removes an entry.                                        *)
(***************************************************************************)
EXTENDS ThreeWayMerge, Naturals, FiniteSets

CONSTANTS
    Items,          \* keys of items: references, notes, attachments
    Collections,    \* keys of collections
    NoKey,
    Parent,         \* Parent[k]: parentItem or parentCollection of k, or NoKey
    Home,           \* Home[k]: the collection item k is filed in, or NoKey
    Related,        \* Related[k]: the items that k names in its relations
    Linked,         \* Linked[b]: body b with the relation in return
    Refused         \* bodies the write validation refuses

Keys == Items \cup Collections

ASSUME LibraryAssumption ==
    /\ IsFiniteSet(Keys)
    /\ Items \cap Collections = {}
    /\ NoKey \notin Keys
    /\ Parent \in [Keys -> Keys \cup {NoKey}]
    /\ Home \in [Keys -> Collections \cup {NoKey}]
    /\ \A k \in Keys : Parent[k] # NoKey =>
          /\ Parent[k] # k
          /\ (k \in Items) = (Parent[k] \in Items)
          /\ k \in Collections => Parent[Parent[k]] = NoKey   \* they nest two deep
    /\ Related \in [Keys -> SUBSET Items]
    /\ \A k \in Keys : k \notin Related[k]
    /\ \A k \in Collections : Related[k] = {}
    /\ Linked \in [Body -> Body]
    /\ Refused \subseteq Body

Objects == [live : BOOLEAN, version : Nat, body : Body, deletedAt : Nat]

NoObject == [live |-> FALSE, version |-> 0, body |-> Blank, deletedAt |-> 0]

Libraries == [version : Nat, objects : [Keys -> Objects]]

(* ------------------------------- reading ------------------------------- *)

(* Mutants of ChangedSince: off by one either way. *)
ChangedFrom(library, keys, since) ==
    {k \in keys : library.objects[k].live /\ library.objects[k].version >= since}

ChangedAfterNext(library, keys, since) ==
    {k \in keys : library.objects[k].live /\ library.objects[k].version > since + 1}

ChangedSince(library, keys, since) ==
    {k \in keys : library.objects[k].live /\ library.objects[k].version > since}

DeletedSince(library, since) ==
    {k \in Keys : library.objects[k].deletedAt > since}

(* ------------------------------- writing ------------------------------- *)

Outcomes == {"none", "successful", "unchanged", "failed"}

(* "precondition" is a 412; "malformed" is the 200 answer to an unknown    *)
(* collection, whose failure list the app cannot decode as a write report. *)
Answers == [status  : {"none", "precondition", "malformed", "report", "deleted"},
            version : Nat,
            outcome : [Keys -> Outcomes],
            objects : [Keys -> Objects]]

Answer(status, version) ==
    [status  |-> status,
     version |-> version,
     outcome |-> [k \in Keys |-> "none"],
     objects |-> [k \in Keys |-> NoObject]]

NoAnswer == Answer("none", 0)

(* An upload of an existing object is a patch: the fields it lacks stay. *)
Patched(object, body) ==
    [f \in Fields |-> IF body[f] = Absent /\ object.live THEN object.body[f] ELSE body[f]]

Stored(object, version, body) ==
    [object EXCEPT !.live = TRUE, !.version = version, !.body = body]

(* The order a batch is uploaded in: parents before their children. *)
UploadOrders(batch) ==
    {order \in [batch -> 1 .. Cardinality(batch)] :
        /\ \A k, l \in batch : order[k] = order[l] => k = l
        /\ \A k \in batch : Parent[k] \in batch => order[Parent[k]] < order[k]}

(* Mutant of Rank: the first object gets the second reserved version. *)
RankFromTwo(order, written, k) == Cardinality({l \in written : order[l] <= order[k]}) + 1

(* Versions are handed out to the written objects of a batch in its order. *)
Rank(order, written, k) == Cardinality({l \in written : order[l] <= order[k]})

(* Mutant of VersionAccepted: only the library version is compared. *)
VersionUnchecked(library, k, version) == TRUE

(* matchesKnownCurrentVersion, and the version 0 of an object that must    *)
(* not exist yet.                                                          *)
VersionAccepted(library, k, version) ==
    IF library.objects[k].live
    THEN version \in library.objects[k].version .. library.version
    ELSE version = 0

(* What is written gets its versions in one go; of it, the objects of      *)
(* `same` are answered as unchanged.                                       *)
WriteBatch(library, order, bodies, failed, same, written) ==
    LET version == library.version + Cardinality(written)
        objects == [k \in Keys |->
                      IF k \in written
                      THEN Stored(library.objects[k],
                                  library.version + Rank(order, written, k), bodies[k])
                      ELSE library.objects[k]]
    IN  [library |-> [version |-> version, objects |-> objects],
         answer  |-> [status  |-> "report",
                      version |-> version,
                      outcome |-> [k \in Keys |->
                                     CASE k \in failed         -> "failed"
                                       [] k \in same           -> "unchanged"
                                       [] k \in written \ same -> "successful"
                                       [] OTHER                -> "none"],
                      objects |-> [k \in Keys |->
                                     IF k \in written \ same THEN objects[k] ELSE NoObject]]]

(* The keys of a set in some order: that of the relations in the bodies,   *)
(* which no property tells apart.                                          *)
Listed(keys) ==
    CHOOSE order \in [keys -> 1 .. Cardinality(keys)] :
        \A k, l \in keys : order[k] = order[l] => k = l

(* syncRelatedItemRelations: every item that one just written names as     *)
(* related is written again with the relation in return, under a further   *)
(* version, whether or not it has it; nothing is compared.                 *)
LinkBack(library, written) ==
    LET targets == {k \in UNION {Related[l] : l \in written} : library.objects[k].live}
        order   == Listed(targets)
    IN  [version |-> library.version + Cardinality(targets),
         objects |-> [k \in Keys |->
            IF k \in targets
            THEN Stored(library.objects[k], library.version + Rank(order, targets, k),
                        Linked[library.objects[k].body])
            ELSE library.objects[k]]]

(* Mutant of WithLinksBack: related items that are gone are counted, too. *)
LinksCounted(result, written) ==
    LET library == LinkBack(result.library, written)
        related == UNION {Related[k] : k \in written}
    IN  [library |-> library,
         answer  |-> [result.answer EXCEPT !.version = @ + Cardinality(related)]]

(* The answer carries the library's last version, but the objects as the   *)
(* batch wrote them, and none of those written only as related.            *)
WithLinksBack(result, written) ==
    LET library == LinkBack(result.library, written)
    IN  [library |-> library, answer |-> [result.answer EXCEPT !.version = library.version]]

(* handleItemBatchWrite.  sent[k] is the record of k in the batch; per     *)
(* object failures do not stop the others, an unchanged item is not        *)
(* written, and one that names an unknown collection stops the batch.      *)
UploadItems(library, batch, order, sent, header) ==
    LET object(k)  == library.objects[k]
        bodies     == [k \in batch |-> Patched(object(k), sent[k].current)]
        invalid(k) == \/ ~VersionAccepted(library, k, sent[k].version)
                      \/ bodies[k] \in Refused
        orphan(k)  == /\ Parent[k] # NoKey
                      /\ IF Parent[k] \in batch THEN invalid(Parent[k])
                                                ELSE ~object(Parent[k]).live
        failed     == {k \in batch : invalid(k) \/ orphan(k)}
        same       == {k \in batch \ failed : object(k).live /\ bodies[k] = object(k).body}
        written    == batch \ (failed \cup same)
        homeless   == \E k \in written : Home[k] # NoKey /\ ~object(Home[k]).live
    IN  CASE header # library.version ->
               [library |-> library, answer |-> Answer("precondition", library.version)]
          [] header = library.version /\ homeless ->
               [library |-> library, answer |-> Answer("malformed", library.version)]
          [] OTHER ->
               WithLinksBack(WriteBatch(library, order, bodies, failed, same, written), written)

(* handleCollectionBatchWrite and createCollections.  The version an       *)
(* object was uploaded with is not looked at, and an unchanged collection  *)
(* is written again under a new version, which its answer does not carry.  *)
UploadCollections(library, batch, order, sent, header) ==
    LET object(k) == library.objects[k]
        bodies    == [k \in batch |-> Patched(object(k), sent[k].current)]
        orphan(k) == /\ Parent[k] # NoKey
                     /\ ~object(Parent[k]).live
                     /\ Parent[k] \notin batch \/ bodies[Parent[k]] \in Refused
        failed    == {k \in batch : bodies[k] \in Refused \/ orphan(k)}
        written   == batch \ failed
        same      == {k \in written : object(k).live /\ bodies[k] = object(k).body}
    IN  IF header # library.version
        THEN [library |-> library, answer |-> Answer("precondition", library.version)]
        ELSE WriteBatch(library, order, bodies, failed, same, written)

(* The live objects a deletion takes with it: children of items, and       *)
(* subcollections of collections.                                          *)
Subtree(library, keys) ==
    LET under(roots) == {k \in Keys : library.objects[k].live /\ Parent[k] \in roots}
        requested    == {k \in keys : library.objects[k].live}
    IN  requested \cup under(requested) \cup under(under(requested))

Erased(library, keys, version) ==
    [version |-> version,
     objects |-> [k \in Keys |->
        IF k \in keys
        THEN [NoObject EXCEPT !.version = version, !.deletedAt = version]
        ELSE library.objects[k]]]

(* Mutant of DeleteItems: no version is compared. *)
DeletedUnchecked(library, keys, header) ==
    LET version == library.version + 1
    IN  IF {k \in keys : library.objects[k].live} = {}
        THEN [library |-> library, answer |-> Answer("deleted", library.version)]
        ELSE [library |-> Erased(library, Subtree(library, keys), version),
              answer  |-> Answer("deleted", version)]

(* deleteForLibrary: only the versions of the requested items are compared *)
(* with the header, not that of the library; deleting what does not exist  *)
(* succeeds.                                                               *)
DeleteItems(library, keys, header) ==
    LET requested == {k \in keys : library.objects[k].live}
        version   == library.version + 1
    IN  CASE requested = {} ->
               [library |-> library, answer |-> Answer("deleted", library.version)]
          [] \E k \in requested : library.objects[k].version > header ->
               [library |-> library, answer |-> Answer("precondition", library.version)]
          [] OTHER ->
               [library |-> Erased(library, Subtree(library, keys), version),
                answer  |-> Answer("deleted", version)]

(* deleteCollections: the library version is compared as well, because the *)
(* new version is reserved against the header.                             *)
DeleteCollections(library, keys, header) ==
    LET version == library.version + 1
    IN  CASE Subtree(library, keys) = {} ->
               [library |-> library, answer |-> Answer("deleted", library.version)]
          [] Subtree(library, keys) # {} /\ header # library.version ->
               [library |-> library, answer |-> Answer("precondition", library.version)]
          [] OTHER ->
               [library |-> Erased(library, Subtree(library, keys), version),
                answer  |-> Answer("deleted", version)]
=============================================================================
