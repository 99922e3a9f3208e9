--------------------------- MODULE ThreeWayMerge ---------------------------
(***************************************************************************)
(* The field-by-field three-way merge of ZoteroThreeWayMerge.swift, which  *)
(* integration runs when a pulled object meets local work.                 *)
(*                                                                         *)
(* A body is the map of an object's editable fields; a field the JSON      *)
(* object lacks holds Absent.  Identity fields (key, version, dateAdded),  *)
(* which the code always takes from the server, and dateModified, of which *)
(* it keeps the later, are not part of a body: no property tells two       *)
(* objects apart by them.                                                  *)
(***************************************************************************)

CONSTANTS
    Fields,     \* the editable fields of an object
    Values,     \* what a field may hold
    Absent,     \* the field is missing from the JSON object
    Null        \* a JSON value that is not an object

Body == [Fields -> Values \cup {Absent}]

ASSUME MergeAssumption == Absent \notin Values /\ Null \notin Body

(* An object that carries nothing but its key. *)
Blank == [f \in Fields |-> Absent]

(* Mutant of Clashes: the test of the local side is inverted. *)
ClashesIfUnedited(base, local, remote, f) ==
    /\ local[f] # remote[f]
    /\ local[f] = base[f]
    /\ remote[f] # base[f]

(* The code tests the two sides for equality first, so the same edit made  *)
(* on both sides is no conflict.                                           *)
Clashes(base, local, remote, f) ==
    /\ local[f] # remote[f]
    /\ local[f] # base[f]
    /\ remote[f] # base[f]

(* The fields reported as conflicting.  A value that is not a JSON object  *)
(* conflicts as a whole, which the code reports as the field "<object>".   *)
ConflictFields(base, local, remote) ==
    IF Null \in {base, local, remote}
    THEN {"<object>"}
    ELSE {f \in Fields : Clashes(base, local, remote, f)}

(* The body of a merge that has no conflicting field. *)
Merged(base, local, remote) ==
    [f \in Fields |-> IF local[f] = base[f] THEN remote[f] ELSE local[f]]
=============================================================================
