--------------------------- MODULE MCLibrarySync ---------------------------
(* Small instances of LibrarySync for TLC. *)
EXTENDS LibrarySync, TLC

CONSTANTS i, j, c, d, none, title, note, x, y, z, absent, null, e1, e2

TwoFields == {title, note}
TwoItems == {i, j}
TwoCollections == {c, d}
ItemAndCollection == {i, c}
Tree == [k \in Keys |-> CASE k = j -> i [] k = d -> c [] OTHER -> none]
FiledBelow == [k \in Keys |-> IF k = i THEN d ELSE none]
ItemAndTwoCollections == {i, c, d}
Filed == [k \in Keys |-> IF k = i THEN c ELSE none]
OneItem == {i}
OneCollection == {c}
NoKeys == {}
NoParent == [k \in Keys |-> none]
Alone == [k \in Keys |-> none]
(* No item names another one, or the two of a tree name each other. *)
Unrelated == [k \in Keys |-> {}]
EachOther == [k \in Keys |-> IF k \in Items THEN Items \ {k} ELSE {}]
(* The relation in return is there, or it is what y stands for. *)
LinkedAlready == [body \in Body |-> body]
LinkedByTitle == [body \in Body |-> [body EXCEPT ![title] = y]]
EveryBody == [Fields -> Values]
(* One edit of the note, and two of the title that compete. *)
FourBodies == {[f \in Fields |-> x]} \cup {[[f \in Fields |-> x] EXCEPT ![note] = y]}
              \cup {[[f \in Fields |-> x] EXCEPT ![title] = v] : v \in {y, z}}
(* And a note the server refuses. *)
Invalid == {[[f \in Fields |-> x] EXCEPT ![note] = z]}
FiveBodies == FourBodies \cup Invalid
Initially == [f \in Fields |-> x]
BothJobs == {"pull", "synchronize"}
OnlySynchronize == {"synchronize"}
(* Nothing tells the engines apart, nor the two bodies nobody starts with. *)
JobSymmetry == Permutations(Engines) \cup Permutations({y, z})
=============================================================================
