------------------------ MODULE VersionLedgerProofs ------------------------
(***************************************************************************)
(* Until a writer is overtaken, a version of the ledger never stands for  *)
(* the writes of two writers.                                              *)
(***************************************************************************)
EXTENDS VersionLedger, TLAPS

(* What is still to be used was handed to one writer only, and whatever    *)
(* was already written under it is that writer's.                          *)
HeldByOne ==
  /\ \A w \in Writers : held[w] \subseteq 1 .. clock
  /\ \A w, u \in Writers : w # u => held[w] \cap held[u] = {}

UsedByHolder ==
  /\ \A o \in Objects : stored[o] <= clock
  /\ \A entry \in removed : entry.version <= clock
  /\ \A w \in Writers, o \in Objects : stored[o] \in held[w] => by[o] \in {w, Nobody}
  /\ \A w \in Writers, entry \in removed : entry.version \in held[w] => entry.by = w

LedgerInv == LedgerTypeOK /\ HeldByOne /\ UsedByHolder /\ OneWriterPerVersion

LEMMA LedgerInitially == LedgerInit => LedgerInv
<1> SUFFICES ASSUME LedgerInit PROVE LedgerInv
  OBVIOUS
<1>1. LedgerTypeOK
  <2>1. overtaken \in BOOLEAN
    BY Zenon DEF LedgerInit
  <2>2. QED
    BY <2>1 DEF LedgerInit, LedgerTypeOK
<1>2. HeldByOne /\ UsedByHolder /\ OneWriterPerVersion
  BY DEF LedgerInit, HeldByOne, UsedByHolder, OneWriterPerVersion
<1>3. QED
  BY <1>1, <1>2 DEF LedgerInv

(* What w may use in its turn belongs to no other writer, also afterwards. *)
LEMMA HandedToOne ==
  ASSUME LedgerInv, NEW w \in Writers, Turn(w)
  PROVE  /\ Handed(w) \subseteq 1 .. clock'
         /\ \A u \in Writers : u # w => held'[u] = held[u] /\ held[u] \cap Handed(w) = {}
         /\ held'[w] \subseteq Handed(w)
         /\ held' \in [Writers -> SUBSET Nat]
<1>1. Handed(w) \subseteq 1 .. clock'
  BY DEF LedgerInv, LedgerTypeOK, HeldByOne, Turn, Uses, Handed
<1>2. PICK kept \in SUBSET Handed(w) : held' = [held EXCEPT ![w] = kept]
  BY DEF Turn, Uses, Uses
<1>3. \A u \in Writers : u # w => held[u] \cap Handed(w) = {}
  BY DEF LedgerInv, LedgerTypeOK, HeldByOne, Turn, Uses, Handed
<1>4. QED
  BY <1>1, <1>2, <1>3 DEF LedgerInv, LedgerTypeOK

LEMMA TurnKeepsTypes ==
  ASSUME LedgerInv, NEW w \in Writers, Turn(w)
  PROVE  LedgerTypeOK'
<1>1. Handed(w) \subseteq Nat
  <2>1. Handed(w) \subseteq 1 .. clock'
    BY HandedToOne
  <2>2. QED
    BY <2>1, SMT DEF Turn, Uses, Uses
<1>2. \A entry \in removed' \ removed : entry \in [version : Nat, by : Writers]
  BY <1>1 DEF Turn, Uses, Uses
<1>3. removed' \subseteq [version : Nat, by : Writers]
  BY <1>2 DEF LedgerInv, LedgerTypeOK
<1>4. stored' \in [Objects -> Nat] /\ by' \in [Objects -> Writers \cup {Nobody}]
  <2>1. \A o \in Objects : stored'[o] \in Nat /\ by'[o] \in Writers \cup {Nobody}
    BY <1>1 DEF Turn, Uses, LedgerInv, LedgerTypeOK
  <2>2. /\ stored' = [o \in Objects |-> stored'[o]]
        /\ by' = [o \in Objects |-> by'[o]]
    BY DEF Turn, Uses, Uses
  <2>3. QED
    BY <2>1, <2>2
<1>5. QED
  BY <1>3, <1>4, HandedToOne DEF Turn, Uses, LedgerInv, LedgerTypeOK

LEMMA TurnKeepsHolders ==
  ASSUME LedgerInv, NEW w \in Writers, Turn(w)
  PROVE  HeldByOne'
<1>1. clock \in Nat /\ clock' \in Nat /\ clock <= clock'
  BY DEF Turn, Uses, LedgerInv, LedgerTypeOK
<1>2. \A u \in Writers : held'[u] \subseteq 1 .. clock'
  <2>1. ASSUME NEW u \in Writers, u # w PROVE held'[u] \subseteq 1 .. clock'
    BY <1>1, <2>1, HandedToOne DEF LedgerInv, HeldByOne
  <2>2. held'[w] \subseteq 1 .. clock'
    BY HandedToOne
  <2>3. QED
    BY <2>1, <2>2
<1>3. \A u, v \in Writers : u # v => held'[u] \cap held'[v] = {}
  BY HandedToOne DEF LedgerInv, HeldByOne
<1>4. QED
  BY <1>2, <1>3 DEF HeldByOne

LEMMA TurnKeepsUse ==
  ASSUME LedgerInv, NEW w \in Writers, Turn(w)
  PROVE  UsedByHolder'
<1>1. clock \in Nat /\ clock' \in Nat /\ clock <= clock'
  BY DEF Turn, Uses, LedgerInv, LedgerTypeOK
<1>2. \A v \in Handed(w) : v \in Nat /\ v <= clock'
  BY <1>1, HandedToOne
<1>3. ASSUME NEW o \in Objects
      PROVE  /\ stored'[o] <= clock'
             /\ \A u \in Writers : stored'[o] \in held'[u] => by'[o] \in {u, Nobody}
  <2>1. CASE stored'[o] = stored[o] /\ by'[o] = by[o]
    <3>1. stored[o] \in Nat /\ stored[o] <= clock
      BY DEF LedgerInv, LedgerTypeOK, UsedByHolder
    <3>2. stored[o] \in Handed(w) => stored[o] \in held[w]
      BY <1>1, <3>1 DEF Handed
    <3>3. \A u \in Writers : stored[o] \in held'[u] => stored[o] \in held[u]
      BY <3>2, HandedToOne
    <3>4. QED
      BY <1>1, <2>1, <3>1, <3>3 DEF LedgerInv, UsedByHolder
  <2>2. CASE stored'[o] = 0 /\ by'[o] = Nobody
    BY <1>1, <2>2
  <2>3. CASE stored'[o] \in Handed(w) /\ by'[o] = w
    BY <1>2, <2>3, HandedToOne
  <2>4. QED
    BY <2>1, <2>2, <2>3 DEF Turn, Uses, Uses
<1>4. ASSUME NEW entry \in removed'
      PROVE  /\ entry.version <= clock'
             /\ \A u \in Writers : entry.version \in held'[u] => entry.by = u
  <2>1. CASE entry \in removed
    <3>1. entry.version \in Nat /\ entry.version <= clock
      BY <2>1 DEF LedgerInv, LedgerTypeOK, UsedByHolder
    <3>2. entry.version \in Handed(w) => entry.version \in held[w]
      BY <1>1, <3>1 DEF Handed
    <3>3. \A u \in Writers : entry.version \in held'[u] => entry.version \in held[u]
      BY <3>2, HandedToOne
    <3>4. QED
      BY <1>1, <2>1, <3>1, <3>3 DEF LedgerInv, UsedByHolder
  <2>2. CASE entry \notin removed
    <3>1. entry.version \in Handed(w) /\ entry.by = w
      BY <2>2 DEF Turn, Uses, Uses
    <3>2. QED
      BY <1>2, <3>1, HandedToOne
  <2>3. QED
    BY <2>1, <2>2
<1>5. QED
  BY <1>3, <1>4 DEF UsedByHolder

(* Whatever was written before the turn under a version that w may use in *)
(* it was written by w.                                                    *)
LEMMA OldUseIsOwn ==
  ASSUME LedgerInv, NEW w \in Writers, Turn(w)
  PROVE  /\ \A o \in Objects : stored[o] \in Handed(w) => by[o] \in {w, Nobody}
         /\ \A entry \in removed : entry.version \in Handed(w) => entry.by = w
<1>1. clock \in Nat /\ clock' \in Nat /\ clock <= clock'
  BY DEF Turn, Uses, LedgerInv, LedgerTypeOK
<1>2. ASSUME NEW v \in Nat, v <= clock, v \in Handed(w) PROVE v \in held[w]
  BY <1>1, <1>2 DEF Handed
<1>3. \A o \in Objects : stored[o] \in Nat /\ stored[o] <= clock
  BY DEF LedgerInv, LedgerTypeOK, UsedByHolder
<1>4. \A entry \in removed : entry.version \in Nat /\ entry.version <= clock
  BY DEF LedgerInv, LedgerTypeOK, UsedByHolder
<1>5. QED
  BY <1>2, <1>3, <1>4 DEF LedgerInv, UsedByHolder

LEMMA TurnKeepsOneWriter ==
  ASSUME LedgerInv, NEW w \in Writers, Turn(w)
  PROVE  OneWriterPerVersion'
<1> DEFINE Mine(v, u) == v \in Handed(w) /\ u = w
           New(o)     == Mine(stored'[o], by'[o])
           Old(o)     == stored'[o] = stored[o] /\ by'[o] = by[o]
<1>1. \A o \in Objects : by'[o] # Nobody => Old(o) \/ New(o)
  BY DEF Turn, Uses, Uses
<1>2. \A entry \in removed' : entry \in removed \/ Mine(entry.version, entry.by)
  BY DEF Turn, Uses, Uses
<1>3. ASSUME NEW o \in Objects, NEW p \in Objects,
             stored'[o] = stored'[p], Nobody \notin {by'[o], by'[p]}
      PROVE  by'[o] = by'[p]
  <2>1. CASE Old(o) /\ Old(p)
    BY <1>3, <2>1 DEF LedgerInv, OneWriterPerVersion
  <2>2. CASE Old(o) /\ New(p)
    BY <1>3, <2>2, OldUseIsOwn
  <2>3. CASE New(o) /\ Old(p)
    BY <1>3, <2>3, OldUseIsOwn
  <2>4. QED
    BY <1>1, <1>3, <2>1, <2>2, <2>3
<1>4. ASSUME NEW o \in Objects, NEW entry \in removed',
             stored'[o] = entry.version, by'[o] # Nobody
      PROVE  by'[o] = entry.by
  <2>1. CASE Old(o) /\ entry \in removed
    BY <1>4, <2>1 DEF LedgerInv, OneWriterPerVersion
  <2>2. CASE Old(o) /\ Mine(entry.version, entry.by)
    BY <1>4, <2>2, OldUseIsOwn
  <2>3. CASE New(o) /\ entry \in removed
    BY <1>4, <2>3, OldUseIsOwn
  <2>4. QED
    BY <1>1, <1>2, <1>4, <2>1, <2>2, <2>3
<1>5. ASSUME NEW one \in removed', NEW other \in removed', one.version = other.version
      PROVE  one.by = other.by
  <2>1. CASE one \in removed /\ other \in removed
    BY <1>5, <2>1 DEF LedgerInv, OneWriterPerVersion
  <2>2. CASE one \in removed /\ Mine(other.version, other.by)
    BY <1>5, <2>2, OldUseIsOwn
  <2>3. CASE Mine(one.version, one.by) /\ other \in removed
    BY <1>5, <2>3, OldUseIsOwn
  <2>4. QED
    BY <1>2, <2>1, <2>2, <2>3
<1>6. QED
  BY <1>3, <1>4, <1>5 DEF OneWriterPerVersion

(* Until a writer is overtaken, no version of the ledger stands for the    *)
(* writes of two writers: the counter is raised before its versions are    *)
(* used, however late they are.                                            *)
THEOREM LedgerOneWriter == LedgerSpec => [](~overtaken => OneWriterPerVersion)
<1> DEFINE I == ~overtaken => LedgerInv
<1>1. LedgerInit => I
  BY LedgerInitially
<1>2. I /\ [LedgerNext]_ledgerVars => I'
  <2> SUFFICES ASSUME I, [LedgerNext]_ledgerVars, ~overtaken' PROVE LedgerInv'
    OBVIOUS
  <2>1. CASE UNCHANGED ledgerVars
    BY <2>1 DEF ledgerVars, LedgerInv, LedgerTypeOK, HeldByOne, UsedByHolder, OneWriterPerVersion
  <2>2. ASSUME NEW w \in Writers, Turn(w) PROVE LedgerInv'
    <3>1. LedgerInv
      BY <2>2 DEF Turn
    <3>2. QED
      BY <2>2, <3>1, TurnKeepsTypes, TurnKeepsHolders, TurnKeepsUse, TurnKeepsOneWriter
      DEF LedgerInv
  <2>3. ASSUME NEW w \in Writers, Overtaken(w) PROVE FALSE
    BY <2>3 DEF Overtaken
  <2>4. QED
    BY <2>1, <2>2, <2>3 DEF LedgerNext
<1>3. I => (~overtaken => OneWriterPerVersion)
  BY DEF LedgerInv
<1>4. QED
  BY <1>1, <1>2, <1>3, PTL DEF LedgerSpec
=============================================================================
