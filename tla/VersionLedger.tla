---------------------------- MODULE VersionLedger ----------------------------
(***************************************************************************)
(* What a library's version counter promises to everyone who synchronizes *)
(* with it.  The counter only grows, except where a writer is overtaken; a *)
(* version is handed out once, until then; an object, or the record of a   *)
(* deletion, only ever carries a version that its writer was handed.  A    *)
(* writer may hand itself several versions, use one for several objects of *)
(* its own, leave some unused, and write long after they were handed out.  *)
(***************************************************************************)
EXTENDS Naturals

CONSTANTS Objects, Writers, Nobody

VARIABLES
  clock,    \* the library's version
  held,     \* held[w]: the versions handed to w that it may still use
  stored,   \* the version of each object, 0 for none
  by,       \* who wrote it
  removed,  \* the recorded deletions: their version and their writer
  overtaken \* whether a writer has set the counter to a version of its own

ledgerVars == <<clock, held, stored, by, removed, overtaken>>

LedgerTypeOK ==
  /\ clock \in Nat
  /\ held \in [Writers -> SUBSET Nat]
  /\ stored \in [Objects -> Nat]
  /\ by \in [Objects -> Writers \cup {Nobody}]
  /\ removed \subseteq [version : Nat, by : Writers]
  /\ overtaken \in BOOLEAN

LedgerInit ==
  /\ clock \in Nat
  /\ held = [w \in Writers |-> {}]
  /\ stored \in [Objects -> 0 .. clock]
  /\ by = [o \in Objects |-> Nobody]
  /\ removed = {}
  /\ overtaken = FALSE

(* w keeps some of the versions it is handed, and uses some of them for    *)
(* objects and for deletions.  An object may also go, with its version.    *)
Uses(w, handed) ==
  /\ clock' \in Nat
  /\ \E kept \in SUBSET handed : held' = [held EXCEPT ![w] = kept]
  /\ stored' = [o \in Objects |-> stored'[o]] /\ by' = [o \in Objects |-> by'[o]]
  /\ \A o \in Objects :
        \/ stored'[o] = stored[o] /\ by'[o] = by[o]
        \/ stored'[o] = 0 /\ by'[o] = Nobody
        \/ stored'[o] \in handed /\ by'[o] = w
  /\ removed \subseteq removed'
  /\ \A entry \in removed' \ removed :
        entry \in [version : handed, by : {w}]

(* w is handed the versions up to clock'. *)
Handed(w) == held[w] \cup (clock + 1) .. clock'

Turn(w) ==
  /\ clock' >= clock
  /\ Uses(w, Handed(w))
  /\ UNCHANGED overtaken

(* w takes a version by itself, which others may have been handed, and     *)
(* that becomes the library's.                                             *)
Overtaken(w) ==
  /\ overtaken' = TRUE
  /\ Uses(w, held[w] \cup {clock'})

LedgerNext == \E w \in Writers : Turn(w) \/ Overtaken(w)

LedgerSpec == LedgerInit /\ [][LedgerNext]_ledgerVars

-----------------------------------------------------------------------------
(* A version never stands for the changes of two writers, so a client that *)
(* has seen a library up to a version knows which changes it is missing:   *)
(* the premise of every ?since= request of the synchronization.  It holds  *)
(* until a writer is overtaken.                                            *)
OneWriterPerVersion ==
  /\ \A o, p \in Objects :
        stored[o] = stored[p] /\ Nobody \notin {by[o], by[p]} => by[o] = by[p]
  /\ \A o \in Objects, entry \in removed :
        stored[o] = entry.version /\ by[o] # Nobody => by[o] = entry.by
  /\ \A one, other \in removed :
        one.version = other.version => one.by = other.by
=============================================================================
