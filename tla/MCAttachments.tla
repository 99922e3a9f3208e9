---------------------------- MODULE MCAttachments ----------------------------
(* Small instances of AttachmentTransfer for TLC. *)
EXTENDS AttachmentTransfer, TLC

CONSTANTS a, b, item1, item2, x, y, none, k1, k2, k3

(* The contents differ in size, or they do not. *)
Sizes == (x :> 1) @@ (y :> 2)
SameSize == [c \in Contents |-> 1]
Added == {[by |-> b, item |-> item2, bytes |-> y]}
Bound(edits, faults, deletions, downloads) ==
  ("edits" :> edits) @@ ("faults" :> faults) @@ ("deletions" :> deletions)
    @@ ("downloads" :> downloads)
(* Two things that disturb, of different kinds. *)
Pairs == {Bound(1, 1, 0, 0), Bound(1, 0, 0, 1), Bound(0, 1, 0, 1), Bound(0, 0, 1, 1)}
(* Two faults, or something else once. *)
Setbacks == {Bound(0, 2, 0, 0), Bound(1, 0, 0, 0), Bound(0, 0, 1, 0)}
OneEdit == {Bound(1, 0, 0, 0)}
EditAndDownload == {Bound(1, 0, 0, 1)}
=============================================================================
