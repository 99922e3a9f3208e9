------------------------ MODULE ServerWritesProofs ------------------------
(***************************************************************************)
(* Proofs about ServerWrites, for any number of requests, objects and      *)
(* crashes:                                                                *)
(*   the requests of a library implement VersionLedger: every query of     *)
(*   theirs is a turn of the ledger, is overtaken, or leaves it alone;     *)
(*   requests, rows and log keep their types (TypeOK);                     *)
(*   a write token is used once (WriteTokenOnce);                          *)
(*   a list lacks only what it met (ListsLackOnlyWhatTheyMet);             *)
(*   guarded batches keep each other's edits (GuardedEditsKept).           *)
(* What is said of InTurn states is proved along InTurn, which no step     *)
(* restores once it is lost.                                               *)
(***************************************************************************)
EXTENDS ServerWrites, SequenceTheorems, FiniteSetTheorems, TLAPS

(* What the proof needs to know of a request: the fields that its steps    *)
(* change, and that it has a step left while it runs.                      *)
Proper(q) ==
  /\ {"steps", "outcome", "mine", "base", "seen", "met", "gone", "below", "late"} \subseteq DOMAIN q
  /\ q.steps \in Seq(Steps)
  /\ q.outcome = "running" => q.steps # <<>>
  /\ q.outcome = "waiting" => ~q.late
  /\ q.late \in BOOLEAN /\ q.seen \in Nat

ProperState ==
  /\ version \in Nat
  /\ DOMAIN request = Requests
  /\ \A r \in Requests : Proper(request[r])

(* ---------------------------- the programs ----------------------------- *)

LEMMA JoinedSteps == \A a, b \in Seq(Steps) : a \o b \in Seq(Steps)
  BY ConcatProperties

LEMMA NoStep == <<>> \in Seq(Steps)
  OBVIOUS

LEMMA StepsOfTwoOrThree ==
  \A a, b, c \in Steps : <<a, b>> \in Seq(Steps) /\ <<a, b, c>> \in Seq(Steps)
  OBVIOUS

LEMMA StepIsStep ==
  \A do \in Queries, on \in SUBSET Objects, rules \in SUBSET AllRules : Step(do, on, rules) \in Steps
  BY DEF Step, Steps

LEMMA OneStep ==
  \A do \in Queries, on \in SUBSET Objects, rules \in SUBSET AllRules :
     <<Step(do, on, rules)>> \in Seq(Steps)
<1>1. \A do \in Queries, on \in SUBSET Objects, rules \in SUBSET AllRules :
         Step(do, on, rules) \in Steps
  BY DEF Step, Steps
<1>2. QED
  BY <1>1

LEMMA KeysAreObjects == \A keys \in Seq(Objects) : Keys(keys) \subseteq Objects
  BY DEF Keys

LEMMA SimpleSteps ==
  ASSUME NEW on \in SUBSET Objects
  PROVE  /\ ReadRows(on) \in Seq(Steps) /\ ReadTargets(on) \in Seq(Steps)
         /\ ReadVersion \in Seq(Steps) /\ ReadExactVersion \in Seq(Steps)
         /\ ReadLaterVersion \in Seq(Steps) /\ ReadExpected(on) \in Seq(Steps)
         /\ Reserve(on) \in Seq(Steps) /\ ReserveOne(on) \in Seq(Steps)
         /\ Store(on) \in Seq(Steps) /\ Write(on) \in Seq(Steps)
<1>1. ReadRows(on) \in Seq(Steps) /\ ReadTargets(on) \in Seq(Steps) /\ ReadVersion \in Seq(Steps)
  BY OneStep DEF ReadRows, ReadTargets, ReadVersion, Queries, AllRules
<1>2. ReadExactVersion \in Seq(Steps) /\ ReadLaterVersion \in Seq(Steps) /\ ReadExpected(on) \in Seq(Steps)
  BY OneStep DEF ReadExactVersion, ReadLaterVersion, ReadExpected, Queries, AllRules
<1>3. Reserve(on) \in Seq(Steps) /\ ReserveOne(on) \in Seq(Steps) /\ Store(on) \in Seq(Steps)
  BY OneStep DEF Reserve, ReserveOne, Store, Queries, AllRules
<1>4. Write(on) \in Seq(Steps)
  BY DEF Write, Step, Steps, Queries, AllRules
<1>5. QED
  BY <1>1, <1>2, <1>3, <1>4

LEMMA WriteEachSteps == \A keys \in Seq(Objects) : WriteEach(keys) \in Seq(Steps)
<1> SUFFICES ASSUME NEW keys \in Seq(Objects) PROVE WriteEach(keys) \in Seq(Steps)
  OBVIOUS
<1>1. 2 * Len(keys) \in Nat
  OBVIOUS
<1>2. ASSUME NEW n \in 1 .. 2 * Len(keys)
      PROVE  Step(IF n % 2 = 1 THEN "reserve" ELSE "store", {keys[(n + 1) \div 2]}, {}) \in Steps
  <2>1. (n + 1) \div 2 \in 1 .. Len(keys)
    OBVIOUS
  <2>2. {keys[(n + 1) \div 2]} \in SUBSET Objects
    BY <2>1
  <2>3. QED
    BY <2>2 DEF Step, Steps, Queries, AllRules
<1>3. WriteEach(keys) \in [1 .. 2 * Len(keys) -> Steps]
  BY <1>2 DEF WriteEach
<1>4. QED
  BY <1>1, <1>3, IsASeq

LEMMA UnderIsObjects == \A q, key : Under(q, key) \in SUBSET Objects
  BY DEF Under

LEMMA MoveToRootSteps == \A on \in SUBSET Objects : MoveToRoot(on) \in Seq(Steps)
<1> SUFFICES ASSUME NEW on \in SUBSET Objects PROVE MoveToRoot(on) \in Seq(Steps)
  OBVIOUS
<1>1. Step("walk", on, {}) \in Steps /\ Step("move", on, {}) \in Steps
  BY StepIsStep DEF Queries, AllRules
<1>2. QED
  BY <1>1, StepsOfTwoOrThree DEF MoveToRoot

LEMMA WriteCollectionsSteps ==
  \A q : \A keys \in Seq(Objects) : WriteCollections(q, keys) \in Seq(Steps)
<1> SUFFICES ASSUME NEW q, NEW keys \in Seq(Objects)
             PROVE  WriteCollections(q, keys) \in Seq(Steps)
  OBVIOUS
<1>1. 4 * Len(keys) \in Nat
  OBVIOUS
<1> DEFINE step(n) == LET key == keys[(n + 3) \div 4]
                      IN  CASE n % 4 = 1 -> Step("reserve", {key}, {})
                            [] n % 4 = 2 -> Step("store", {key}, {})
                            [] n % 4 = 3 -> Step("walk", Under(q, key), {})
                            [] OTHER     -> Step("move", Under(q, key), {})
<1>2. ASSUME NEW n \in 1 .. 4 * Len(keys) PROVE step(n) \in Steps
  <2> DEFINE key == keys[(n + 3) \div 4]
  <2>1. (n + 3) \div 4 \in 1 .. Len(keys)
    OBVIOUS
  <2>2. {key} \in SUBSET Objects /\ Under(q, key) \in SUBSET Objects
    BY <2>1, UnderIsObjects
  <2> HIDE DEF key
  <2>3. /\ Step("reserve", {key}, {}) \in Steps /\ Step("store", {key}, {}) \in Steps
        /\ Step("walk", Under(q, key), {}) \in Steps /\ Step("move", Under(q, key), {}) \in Steps
    BY <2>2, StepIsStep DEF Queries, AllRules
  <2>4. QED
    BY <2>3 DEF key
<1>3. WriteCollections(q, keys) \in [1 .. 4 * Len(keys) -> Steps]
  <2>1. WriteCollections(q, keys) = [n \in 1 .. 4 * Len(keys) |-> step(n)]
    BY DEF WriteCollections
  <2> HIDE DEF step
  <2>2. QED
    BY <1>2, <2>1
<1>4. QED
  BY <1>1, <1>3, IsASeq

(* A program in which something is left to do. *)
Runs(steps) == steps \in Seq(Steps) /\ steps # <<>>

LEMMA RunsOn == \A a, b \in Seq(Steps) : a # <<>> => Runs(a \o b)
<1> SUFFICES ASSUME NEW a \in Seq(Steps), NEW b \in Seq(Steps), a # <<>> PROVE Runs(a \o b)
  OBVIOUS
<1>1. a \o b \in Seq(Steps) /\ Len(a \o b) = Len(a) + Len(b)
  BY ConcatProperties
<1>2. Len(a) > 0
  BY EmptySeq
<1>3. QED
  BY <1>1, <1>2 DEF Runs

LEMMA OneRuns ==
  \A do \in Queries, on \in SUBSET Objects, rules \in SUBSET AllRules :
     Runs(<<Step(do, on, rules)>>)
  BY OneStep DEF Runs

LEMMA SimpleRuns ==
  ASSUME NEW on \in SUBSET Objects
  PROVE  /\ Runs(ReadRows(on)) /\ Runs(ReadTargets(on)) /\ Runs(ReadVersion)
         /\ Runs(ReadExactVersion) /\ Runs(ReadLaterVersion) /\ Runs(ReadExpected(on))
  BY OneRuns DEF ReadRows, ReadTargets, ReadVersion, ReadExactVersion, ReadLaterVersion,
                 ReadExpected, Queries, AllRules

AllShapes ==
  [op : Ops, keys : Seq(Objects), conditional : BOOLEAN, token : Tokens \cup {NoToken},
   invalid : SUBSET Objects, related : Seq(Objects), under : SUBSET (Objects \X Objects)]

LEMMA ProgramRuns ==
  \A q \in AllShapes : (q.op = "post collections" => q.keys # <<>>) => Runs(Program(q))
<1> SUFFICES ASSUME NEW q \in AllShapes, q.op = "post collections" => q.keys # <<>>
             PROVE  Runs(Program(q))
  OBVIOUS
<1> DEFINE on == All(q)
<1>1. q.keys \in Seq(Objects) /\ q.related \in Seq(Objects)
  BY DEF AllShapes
<1>2. on \in SUBSET Objects /\ Keys(q.related) \in SUBSET Objects
  BY <1>1, KeysAreObjects DEF All
<1> HIDE DEF on
<1>3. \A o \in SUBSET Objects : Claim(q, o) \in Seq(Steps)
  <2> SUFFICES ASSUME NEW o \in SUBSET Objects PROVE Claim(q, o) \in Seq(Steps)
    OBVIOUS
  <2>1. <<Step("claim", o, {}), Step("reserve", o, {"exact"})>> \in Seq(Steps)
    <3>1. Step("claim", o, {}) \in Steps /\ Step("reserve", o, {"exact"}) \in Steps
      BY StepIsStep DEF Queries, AllRules
    <3>2. QED
      BY <3>1, StepsOfTwoOrThree
  <2>2. Reserve(o) \in Seq(Steps)
    BY SimpleSteps
  <2>3. QED
    BY <2>1, <2>2 DEF Claim
<1>4. SyncRelations(q) \in Seq(Steps)
  <2>1. ReadTargets(Keys(q.related)) \o Write(Keys(q.related)) \in Seq(Steps)
    BY <1>2, SimpleSteps, JoinedSteps
  <2>2. QED
    BY <2>1, NoStep DEF SyncRelations
<1>s. /\ ReadRows(on) \in Seq(Steps) /\ ReadTargets(on) \in Seq(Steps)
      /\ ReadVersion \in Seq(Steps) /\ ReadExactVersion \in Seq(Steps)
      /\ ReadLaterVersion \in Seq(Steps) /\ ReadExpected(on) \in Seq(Steps)
      /\ Reserve(on) \in Seq(Steps) /\ ReserveOne(on) \in Seq(Steps)
      /\ Store(on) \in Seq(Steps) /\ Write(on) \in Seq(Steps)
  BY <1>2, SimpleSteps DEF on
<1>r. /\ Runs(ReadRows(on)) /\ Runs(ReadTargets(on)) /\ Runs(ReadVersion)
      /\ Runs(ReadExactVersion) /\ Runs(ReadLaterVersion) /\ Runs(ReadExpected(on))
  BY <1>2, SimpleRuns DEF on
<1>o. \A do \in Queries, rules \in SUBSET AllRules :
         Runs(<<Step(do, on, rules)>>) /\ <<Step(do, on, rules)>> \in Seq(Steps)
  BY <1>2, OneRuns, OneStep DEF on
<1>j. \A a, b \in Seq(Steps) : Runs(a) => Runs(a \o b)
  BY RunsOn DEF Runs
<1>k. \A a, b \in Seq(Steps) : a \o b \in Seq(Steps)
  BY JoinedSteps
<1>u. UpsertSearches(q) \in Seq(Steps) /\ Runs(UpsertSearches(q))
  <2>1. <<Step("validate", on, {})>> \in Seq(Steps) /\ Runs(<<Step("validate", on, {})>>)
    BY <1>o DEF Queries
  <2>2. QED
    BY <1>1, <1>j, <1>k, <2>1, WriteEachSteps DEF UpsertSearches, on
<1>5. Runs(PostItems(q))
  <2>1. (IF q.token = NoToken THEN <<>> ELSE <<Step("find token", {}, {})>>) \in Seq(Steps)
    <3>1. <<Step("find token", {}, {})>> \in Seq(Steps)
      BY OneStep DEF Queries
    <3>2. QED
      BY <3>1, NoStep
  <2> DEFINE look == IF q.token = NoToken THEN <<>> ELSE <<Step("find token", {}, {})>>
  <2>2. look \in Seq(Steps)
    BY <2>1
  <2> HIDE DEF look
  <2>4. Claim(q, on) \in Seq(Steps)
    BY <1>2, <1>3 DEF on
  <2>5. Runs(ReadExactVersion \o ReadRows(on)) /\ ReadExactVersion \o ReadRows(on) \in Seq(Steps)
    BY <1>s, <1>r, <1>j, <1>k
  <2>6. Runs(ReadExactVersion \o ReadRows(on) \o look)
    BY <2>2, <2>5, <1>j
  <2>7. Runs(ReadExactVersion \o ReadRows(on) \o look \o Claim(q, on))
    BY <2>4, <2>6, <1>j DEF Runs
  <2> DEFINE store == <<Step("store", on, {"token"})>>
  <2>s. store \in Seq(Steps)
    BY <1>o DEF Queries, AllRules
  <2> HIDE DEF store
  <2>8. Runs(ReadExactVersion \o ReadRows(on) \o look \o Claim(q, on) \o store)
    BY <2>s, <2>7, <1>j DEF Runs
  <2>9. Runs(ReadExactVersion \o ReadRows(on) \o look \o Claim(q, on) \o store \o SyncRelations(q))
    BY <1>4, <2>8, <1>j DEF Runs
  <2>10. QED
    BY <2>9 DEF PostItems, look, store, on
<1>6. Runs(PutItem(q)) /\ Runs(MoveItems(q))
  <2>1. Runs(ReadExpected(on) \o Write(on)) /\ ReadExpected(on) \o Write(on) \in Seq(Steps)
    BY <1>s, <1>r, <1>j, <1>k
  <2>2. Runs(<<Step("rows", on, {"all"})>>) /\ <<Step("rows", on, {"all"})>> \in Seq(Steps)
    BY <1>o DEF Queries, AllRules
  <2>3. QED
    BY <1>4, <1>s, <1>j, <2>1, <2>2 DEF PutItem, MoveItems, on
<1>7. Runs(DeleteTag(q)) /\ Runs(DeleteItems(q))
  <2>1. /\ <<Step("log tag", on, {})>> \in Seq(Steps)
        /\ <<Step("rows", on, {"some", "unmodified"})>> \in Seq(Steps)
        /\ <<Step("erase items", on, {})>> \in Seq(Steps)
    BY <1>o DEF Queries, AllRules
  <2>2. Runs(ReadLaterVersion \o ReadTargets(on)) /\ ReadLaterVersion \o ReadTargets(on) \in Seq(Steps)
    BY <1>s, <1>r, <1>j, <1>k
  <2>3. Runs(ReadLaterVersion \o ReadTargets(on) \o Write(on))
    BY <1>s, <1>j, <2>2
  <2>4. Runs(DeleteTag(q))
    BY <1>j, <2>1, <2>3 DEF DeleteTag, Runs, on
  <2>5. Runs(ReadVersion \o <<Step("rows", on, {"some", "unmodified"})>>)
    BY <1>s, <1>r, <1>j, <2>1
  <2>6. Runs(ReadVersion \o <<Step("rows", on, {"some", "unmodified"})>> \o ReadRows(on))
    BY <1>s, <1>j, <2>5 DEF Runs
  <2>7. Runs(DeleteItems(q))
    BY <1>j, <2>1, <2>6 DEF DeleteItems, Runs, on
  <2>8. QED
    BY <2>4, <2>7
<1>8. ASSUME q.op = "post collections" PROVE Runs(PostCollections(q))
  <2> DEFINE first == {Head(q.keys)}
  <2>1. first \in SUBSET Objects /\ Tail(q.keys) \in Seq(Objects)
    <3>1. q.keys # <<>>
      BY <1>8
    <3>2. Head(q.keys) \in Objects /\ Tail(q.keys) \in Seq(Objects)
      BY <1>1, <3>1, HeadTailProperties
    <3>3. QED
      BY <3>2
  <2>2. /\ Claim(q, first) \in Seq(Steps) /\ Store(first) \in Seq(Steps)
        /\ WriteCollections(q, Tail(q.keys)) \in Seq(Steps)
    BY <2>1, <1>3, SimpleSteps, WriteCollectionsSteps
  <2>9. MoveToRoot(Under(q, Head(q.keys))) \in Seq(Steps)
    BY UnderIsObjects, MoveToRootSteps
  <2> HIDE DEF first
  <2>3. Runs(ReadRows(on) \o ReadExactVersion)
    BY <1>s, <1>r, <1>j
  <2>4. Runs(ReadRows(on) \o ReadExactVersion \o ReadExactVersion)
    BY <1>s, <1>j, <2>3 DEF Runs
  <2>5. Runs(ReadRows(on) \o ReadExactVersion \o ReadExactVersion \o Claim(q, first))
    BY <1>j, <2>2, <2>4 DEF Runs
  <2>6. Runs(ReadRows(on) \o ReadExactVersion \o ReadExactVersion \o Claim(q, first) \o Store(first))
    BY <1>j, <2>2, <2>5 DEF Runs
  <2>m. Runs(ReadRows(on) \o ReadExactVersion \o ReadExactVersion \o Claim(q, first) \o Store(first)
               \o MoveToRoot(Under(q, Head(q.keys))))
    BY <1>j, <2>9, <2>6 DEF Runs
  <2>7. Runs(ReadRows(on) \o ReadExactVersion \o ReadExactVersion \o Claim(q, first) \o Store(first)
               \o MoveToRoot(Under(q, Head(q.keys))) \o WriteCollections(q, Tail(q.keys)))
    BY <1>j, <2>2, <2>m DEF Runs
  <2>8. QED
    BY <2>7 DEF PostCollections, first, on
<1>9. Runs(PutCollection(q)) /\ Runs(DeleteCollections(q))
  <2>1. Runs(ReadExpected(on) \o ReadRows(on))
    BY <1>s, <1>r, <1>j
  <2> DEFINE under == UNION {Under(q, key) : key \in on}
  <2>u. MoveToRoot(under) \in Seq(Steps)
    <3>1. under \in SUBSET Objects
      BY UnderIsObjects
    <3>2. QED
      BY <3>1, MoveToRootSteps
  <2>w. Runs(ReadExpected(on) \o ReadRows(on) \o Write(on))
    BY <1>s, <1>j, <2>1 DEF Runs
  <2> HIDE DEF under
  <2>2. Runs(ReadExpected(on) \o ReadRows(on) \o Write(on) \o MoveToRoot(under))
    BY <1>j, <2>u, <2>w DEF Runs
  <2>3. <<Step("compare", on, {}), Step("reserve", on, {"one", "exact"}), Step("drop", on, {})>>
           \in Seq(Steps)
    <3>1. /\ Step("compare", on, {}) \in Steps /\ Step("reserve", on, {"one", "exact"}) \in Steps
          /\ Step("drop", on, {}) \in Steps
      BY <1>2, StepIsStep DEF Queries, AllRules, on
    <3>2. QED
      BY <3>1, StepsOfTwoOrThree
  <2>4. Runs(ReadTargets(on) \o <<Step("compare", on, {}), Step("reserve", on, {"one", "exact"}),
                                  Step("drop", on, {})>>)
    BY <1>s, <1>r, <1>j, <2>3
  <2>5. QED
    BY <2>2, <2>4 DEF PutCollection, DeleteCollections, under, on
<1>10. Runs(PostSettings(q)) /\ Runs(PutSetting(q)) /\ Runs(DeleteSettings(q))
  <2>1. /\ Runs(<<Step("rows", on, {"unmodified", "expected"})>>)
        /\ Runs(<<Step("rows", on, {"some", "unmodified"})>>)
        /\ <<Step("rows", on, {"unmodified", "expected"})>> \in Seq(Steps)
        /\ <<Step("rows", on, {"some", "unmodified"})>> \in Seq(Steps)
        /\ <<Step("erase", on, {})>> \in Seq(Steps)
    BY <1>o DEF Queries, AllRules
  <2>2. /\ Runs(ReadLaterVersion \o ReadRows(on))
        /\ Runs(<<Step("rows", on, {"unmodified", "expected"})>> \o ReadRows(on))
        /\ Runs(<<Step("rows", on, {"some", "unmodified"})>> \o ReserveOne(on))
    BY <1>s, <1>r, <1>j, <2>1
  <2>3. /\ Runs(ReadLaterVersion \o ReadRows(on) \o ReserveOne(on))
        /\ Runs(<<Step("rows", on, {"unmodified", "expected"})>> \o ReadRows(on) \o ReserveOne(on))
        /\ Runs(<<Step("rows", on, {"some", "unmodified"})>> \o ReserveOne(on) \o <<Step("erase", on, {})>>)
    BY <1>s, <1>j, <2>1, <2>2 DEF Runs
  <2>4. /\ Runs(ReadLaterVersion \o ReadRows(on) \o ReserveOne(on) \o Store(on))
        /\ Runs(<<Step("rows", on, {"unmodified", "expected"})>> \o ReadRows(on) \o ReserveOne(on) \o Store(on))
    BY <1>s, <1>j, <2>3 DEF Runs
  <2>5. QED
    BY <2>3, <2>4 DEF PostSettings, PutSetting, DeleteSettings, on
<1>11. Runs(PostSearches(q)) /\ Runs(PutSearch(q)) /\ Runs(DeleteSearches(q))
  <2> DEFINE claim == IF q.conditional THEN <<Step("claim", on, {})>> ELSE <<>>
  <2>1. claim \in Seq(Steps) /\ <<Step("erase", on, {})>> \in Seq(Steps)
    <3>1. <<Step("claim", on, {})>> \in Seq(Steps) /\ <<Step("erase", on, {})>> \in Seq(Steps)
      BY <1>o DEF Queries
    <3>2. QED
      BY <3>1, NoStep
  <2> HIDE DEF claim
  <2>2. Runs(ReadRows(on) \o ReadExactVersion) /\ Runs(ReadLaterVersion \o ReadTargets(on))
    BY <1>s, <1>r, <1>j
  <2>3. /\ Runs(ReadRows(on) \o ReadExactVersion \o ReadLaterVersion)
        /\ Runs(ReadLaterVersion \o ReadTargets(on) \o ReserveOne(on))
    BY <1>s, <1>j, <2>2 DEF Runs
  <2>4. /\ Runs(ReadRows(on) \o ReadExactVersion \o ReadLaterVersion \o claim)
        /\ Runs(ReadLaterVersion \o ReadTargets(on) \o ReserveOne(on) \o <<Step("erase", on, {})>>)
    BY <1>j, <2>1, <2>3 DEF Runs
  <2>5. Runs(ReadRows(on) \o ReadExactVersion \o ReadLaterVersion \o claim \o UpsertSearches(q))
    BY <1>j, <1>u, <2>4 DEF Runs
  <2>6. Runs(ReadExpected(on) \o UpsertSearches(q))
    BY <1>j, <1>r, <1>s, <1>u
  <2>7. QED
    BY <2>4, <2>5, <2>6 DEF PostSearches, PutSearch, DeleteSearches, claim, on
<1>12. Runs(ListItems(q)) /\ Runs(ListObjects(q)) /\ Runs(ListDeleted(q))
  <2>1. Runs(<<Step("log", {}, {})>>) /\ <<Step("log", {}, {})>> \in Seq(Steps)
    BY OneRuns, OneStep DEF Queries
  <2>2. QED
    BY <1>s, <1>r, <1>j, <2>1 DEF ListItems, ListObjects, ListDeleted, on
<1>13. QED
  BY <1>5, <1>6, <1>7, <1>8, <1>9, <1>10, <1>11, <1>12 DEF Program

(* ---------------------------- the requests ----------------------------- *)

NothingHeld == {Nothing[o] : o \in DOMAIN Nothing} = {}

LEMMA NothingIsHeld == NothingHeld
  BY DEF NothingHeld, Nothing

(* What a query that neither reserves nor writes makes of its request. *)
Onward(q, q1) == Proper(q1) /\ q1.mine \in {Nothing, q.mine} /\ q1.late = q.late

LEMMA EndedIsProper ==
  ASSUME NEW q, Proper(q), NEW outcome, outcome \notin {"running", "waiting"}
  PROVE  Onward(q, Ended(q, outcome))
<1> DEFINE done == [q EXCEPT !.outcome = outcome, !.steps = <<>>, !.mine = Nothing,
                             !.below = Nothing]
           Is(d) == /\ DOMAIN d = DOMAIN q /\ d.steps = <<>> /\ d.outcome = outcome
                    /\ d.mine = Nothing /\ d.late = q.late /\ d.seen \in Nat
<1>1. Is(done)
  BY DEF Proper
<1>2. \A d \in {done, [done EXCEPT !.base = Nothing],
                [done EXCEPT !.base = Nothing, !.seen = 0, !.met = {}]} : Is(d)
  <2> HIDE DEF done
  <2>1. {"steps", "outcome", "mine", "seen", "late"} \subseteq DOMAIN done
    BY <1>1 DEF Proper
  <2>2. Is([done EXCEPT !.base = Nothing])
    BY <1>1, <2>1
  <2>3. Is([done EXCEPT !.base = Nothing, !.seen = 0, !.met = {}])
    BY <1>1, <2>1
  <2>4. QED
    BY <1>1, <2>2, <2>3
<1>3. Ended(q, outcome) \in {done, [done EXCEPT !.base = Nothing],
                             [done EXCEPT !.base = Nothing, !.seen = 0, !.met = {}]}
  BY DEF Ended
<1> HIDE DEF done
<1>4. QED
  BY <1>2, <1>3, NoStep DEF Onward, Proper

LEMMA AdvancedIsProper ==
  ASSUME NEW q, Proper(q), q.outcome = "running"
  PROVE  Onward(q, Advanced(q))
<1>1. CASE Len(q.steps) = 1
  BY <1>1, EndedIsProper DEF Advanced
<1>2. CASE Len(q.steps) # 1
  <2> DEFINE next == [q EXCEPT !.steps = Tail(@)]
  <2>1. /\ DOMAIN next = DOMAIN q /\ next.steps = Tail(q.steps) /\ next.outcome = q.outcome
        /\ next.mine = q.mine /\ next.late = q.late /\ next.seen = q.seen
    BY DEF Proper
  <2>2. q.steps \in Seq(Steps) /\ q.steps # <<>>
    BY DEF Proper
  <2>3. Tail(q.steps) \in Seq(Steps) /\ Len(Tail(q.steps)) = Len(q.steps) - 1 /\ Len(q.steps) > 0
    BY <2>2, HeadTailProperties, EmptySeq
  <2>4. Tail(q.steps) # <<>>
    <3>1. Len(q.steps) \in Nat /\ Len(<<>>) = 0
      BY <2>2
    <3>2. Len(Tail(q.steps)) # 0
      BY <1>2, <2>3, <3>1
    <3>3. QED
      BY <3>1, <3>2
  <2> HIDE DEF next
  <2>5. Onward(q, next)
    BY <2>1, <2>3, <2>4 DEF Onward, Proper
  <2>6. QED
    BY <1>2, <2>5 DEF Advanced, next
<1>3. QED
  BY <1>1, <1>2

LEMMA NarrowedIsSteps ==
  ASSUME NEW steps \in Seq(Steps), NEW found
  PROVE  /\ Narrowed(steps, found) \in Seq(Steps)
         /\ steps # <<>> => Narrowed(steps, found) # <<>>
<1>1. \A n \in 1 .. Len(steps) : [steps[n] EXCEPT !.on = @ \cap found] \in Steps
  <2>1. \A n \in 1 .. Len(steps) : steps[n] \in Steps
    BY ElementOfSeq
  <2>2. \A step \in Steps : [step EXCEPT !.on = @ \cap found] \in Steps
    BY DEF Steps
  <2>3. QED
    BY <2>1, <2>2
<1>2. Narrowed(steps, found) \in [1 .. Len(steps) -> Steps]
  BY <1>1 DEF Narrowed
<1>3. Len(steps) \in Nat /\ (steps # <<>> => Len(steps) > 0)
  BY EmptySeq
<1>4. Narrowed(steps, found) \in Seq(Steps)
  BY <1>2, <1>3, IsASeq
<1>5. DOMAIN Narrowed(steps, found) = 1 .. Len(steps)
  BY <1>2
<1>6. QED
  BY <1>3, <1>4, <1>5

(* What the next query of a request is about. *)
LEMMA NextIsTyped ==
  ASSUME ProperState, NEW r \in Requests, NEW do, NextIs(r, do)
  PROVE  /\ Proper(request[r]) /\ request[r].outcome = "running"
         /\ On(r) \subseteq Objects
         /\ Cardinality(On(r)) \in Nat
<1>1. Proper(request[r]) /\ request[r].outcome = "running"
  BY DEF ProperState, NextIs, Underway
<1>2. Head(request[r].steps) \in Steps
  BY <1>1, HeadTailProperties DEF Proper
<1>3. On(r) \subseteq Objects
  BY <1>2 DEF On, Steps
<1>4. IsFiniteSet(On(r))
  BY <1>3, ServerAssumption, FS_Subset
<1>5. QED
  BY <1>1, <1>3, <1>4, FS_CardinalityType

(* ------------------------------ the turns ------------------------------ *)

Mine(r) == Held(r) \cup (version + 1) .. version'

(* A query uses only versions it may use when it changes nothing of the    *)
(* others' requests and writes under those.                                *)
LEMMA StepUses ==
  ASSUME NEW r \in Requests, NEW handed, version' \in Nat,
         \A s \in Requests : s # r => request'[s].mine = request[s].mine,
         {request'[r].mine[o] : o \in DOMAIN request'[r].mine} \subseteq handed,
         \A o \in Objects :
            \/ row'[o].version = row[o].version /\ row'[o].by = row[o].by
            \/ row'[o].version = 0 /\ row'[o].by = Nobody
            \/ row'[o].version \in handed /\ row'[o].by = r,
         log \subseteq log',
         \A entry \in log' \ log : entry.version \in handed /\ entry.by = r
  PROVE  Ledger!Uses(r, handed)
<1>3. Held(r)' \in SUBSET handed
  BY DEF Held
<1>4. [s \in Requests |-> Held(s)]' = [[s \in Requests |-> Held(s)] EXCEPT ![r] = Held(r)']
  <2>1. \A s \in Requests : s # r => Held(s)' = Held(s)
    BY DEF Held
  <2>2. [s \in Requests |-> Held(s)]' = [s \in Requests |-> Held(s)']
    OBVIOUS
  <2>3. QED
    BY <2>1, <2>2
<1>6. \E kept \in SUBSET handed :
         [s \in Requests |-> Held(s)]' = [[s \in Requests |-> Held(s)] EXCEPT ![r] = kept]
  BY <1>3, <1>4
<1> DEFINE removed == {[version |-> entry.version, by |-> entry.by] : entry \in log}
<1>7. removed \subseteq removed'
  OBVIOUS
<1>8. ASSUME NEW entry \in removed' \ removed
      PROVE  entry \in [version : handed, by : {r}]
  <2>1. PICK e \in log' : entry = [version |-> e.version, by |-> e.by]
    BY <1>8
  <2>2. e \notin log
    BY <1>8, <2>1
  <2>3. QED
    BY <2>1, <2>2
<1> DEFINE stored == [o \in Objects |-> row[o].version]
           by     == [o \in Objects |-> row[o].by]
<1>9. stored' = [o \in Objects |-> stored'[o]] /\ by' = [o \in Objects |-> by'[o]]
  OBVIOUS
<1>10. \A o \in Objects :
         \/ stored'[o] = stored[o] /\ by'[o] = by[o]
         \/ stored'[o] = 0 /\ by'[o] = Nobody
         \/ stored'[o] \in handed /\ by'[o] = r
  OBVIOUS
<1>11. \A entry \in removed' \ removed : entry \in [version : handed, by : {r}]
  BY <1>8
<1>12. QED
  BY <1>6, <1>7, <1>9, <1>10, <1>11, Zenon DEF Ledger!Uses

(* It is a turn of the ledger when the version grows and no deletion is    *)
(* overtaken.                                                              *)
LEMMA StepIsTurn ==
  ASSUME ProperState, NEW r \in Requests, ProperState',
         \A s \in Requests : s # r => request'[s].mine = request[s].mine,
         \A s \in Requests : request'[s].late = request[s].late,
         version' >= version,
         {request'[r].mine[o] : o \in DOMAIN request'[r].mine} \subseteq Mine(r),
         \A o \in Objects :
            \/ row'[o].version = row[o].version /\ row'[o].by = row[o].by
            \/ row'[o].version = 0 /\ row'[o].by = Nobody
            \/ row'[o].version \in Mine(r) /\ row'[o].by = r,
         log \subseteq log',
         \A entry \in log' \ log : entry.version \in Mine(r) /\ entry.by = r
  PROVE  Ledger!Turn(r)
<1>1. version' \in Nat
  BY DEF ProperState
<1>2. PICK handed : handed = Mine(r)
  OBVIOUS
<1>3. Ledger!Uses(r, handed)
  <2>1. /\ {request'[r].mine[o] : o \in DOMAIN request'[r].mine} \subseteq handed
        /\ \A o \in Objects :
              \/ row'[o].version = row[o].version /\ row'[o].by = row[o].by
              \/ row'[o].version = 0 /\ row'[o].by = Nobody
              \/ row'[o].version \in handed /\ row'[o].by = r
        /\ \A entry \in log' \ log : entry.version \in handed /\ entry.by = r
    BY <1>2
  <2>2. QED
    BY <1>1, <2>1, StepUses
<1>4. Ledger!Handed(r) = handed
  BY <1>2 DEF Ledger!Handed, Mine
<1>5. UNCHANGED ~InTurn
  BY DEF InTurn
<1>6. QED
  BY <1>3, <1>4, <1>5, Zenon DEF Ledger!Turn, Ledger!Uses

LEMMA QueryIsTurn ==
  ASSUME ProperState, NEW r \in Requests, NEW q1, Proper(q1), Becomes(r, q1),
         q1.late = request[r].late, version' \in Nat, version' >= version,
         {q1.mine[o] : o \in DOMAIN q1.mine} \subseteq Mine(r),
         \A o \in Objects :
            \/ row'[o].version = row[o].version /\ row'[o].by = row[o].by
            \/ row'[o].version = 0 /\ row'[o].by = Nobody
            \/ row'[o].version \in Mine(r) /\ row'[o].by = r,
         log \subseteq log',
         \A entry \in log' \ log : entry.version \in Mine(r) /\ entry.by = r
  PROVE  ProperState' /\ Ledger!Turn(r)
<1>1. /\ DOMAIN request' = Requests /\ request'[r] = q1
      /\ \A s \in Requests : s # r => request'[s] = request[s]
  BY DEF ProperState, Becomes
<1>2. ProperState'
  <2>1. \A s \in Requests : Proper(request'[s])
    BY <1>1 DEF ProperState
  <2>2. QED
    BY <1>1, <2>1 DEF ProperState, Proper
<1>3. {request'[r].mine[o] : o \in DOMAIN request'[r].mine} \subseteq Mine(r)
  BY <1>1
<1>4. \A s \in Requests : request'[s].late = request[s].late
  BY <1>1
<1>5. QED
  BY <1>1, <1>2, <1>3, <1>4, StepIsTurn

(* A query that reads, or only takes a token. *)
LEMMA QuietQuery ==
  ASSUME ProperState, NEW r \in Requests, NEW q1, Onward(request[r], q1), Becomes(r, q1),
         UNCHANGED <<version, row, log>>
  PROVE  ProperState' /\ Ledger!Turn(r)
<1>1. {q1.mine[o] : o \in DOMAIN q1.mine} \subseteq Held(r)
  <2>1. CASE q1.mine = Nothing
    BY <2>1, NothingIsHeld DEF NothingHeld
  <2>2. CASE q1.mine = request[r].mine
    BY <2>2 DEF Held
  <2>3. QED
    BY <2>1, <2>2 DEF Onward
<1>2. {q1.mine[o] : o \in DOMAIN q1.mine} \subseteq Mine(r)
  BY <1>1 DEF Mine
<1>3. Proper(q1) /\ q1.late = request[r].late
  BY DEF Onward
<1>4. version' \in Nat /\ version' >= version
  BY DEF ProperState
<1>5. QED
  BY <1>2, <1>3, <1>4, QueryIsTurn

(* A request that only changes what it read goes on or ends as it would.   *)
LEMMA SeenIsOnward ==
  ASSUME NEW q, Proper(q), NEW q0, Proper(q0), q0.mine = q.mine, q0.late = q.late,
         NEW q1, Onward(q0, q1)
  PROVE  Onward(q, q1)
  BY DEF Onward

LEMMA VersionIsNat == ProperState => version \in Nat
  BY DEF ProperState

LEMMA BeginIsTurn ==
  ASSUME ProperState, NEW r \in Requests, Begin(r)
  PROVE  ProperState' /\ Ledger!Turn(r)
<1>1. PICK shape \in Shapes[r] :
       request' = [s \in Requests |->
         IF s = r
         THEN [Idle EXCEPT
                 !.op      = shape.op,
                 !.keys    = shape.keys,
                 !.token   = shape.token,
                 !.invalid = shape.invalid,
                 !.header  = IF shape.conditional THEN version ELSE NoHeader,
                 !.steps   = Program(shape),
                 !.outcome = "running",
                 !.met     = {s2 \in Requests : Underway(s2)},
                 !.calm    = \A s2 \in Requests : ~Writing(s2)]
         ELSE [request[s] EXCEPT !.met = IF Underway(s) /\ request[s].op # "list items"
                                         THEN @ \cup {r} ELSE @]]
  BY DEF Begin
<1>2. UNCHANGED <<version, row, log>>
  BY DEF Begin
<1>3. Runs(Program(shape))
  BY ServerAssumption, ProgramRuns DEF AllShapes
<1>4. Proper(request'[r]) /\ request'[r].mine = Nothing /\ request'[r].late = request[r].late
  <2>1. ~request'[r].late /\ Proper(request'[r]) /\ request'[r].mine = Nothing
    BY <1>1, <1>3 DEF Idle, Proper, Runs
  <2>2. ~request[r].late /\ request[r].late \in BOOLEAN
    BY DEF Begin, ProperState, Proper
  <2>3. QED
    BY <2>1, <2>2 DEF Proper
<1>5. \A s \in Requests : s # r => /\ Proper(request'[s]) /\ request'[s].mine = request[s].mine
                                   /\ request'[s].late = request[s].late
  <2>1. \A s \in Requests : Proper(request[s])
    BY DEF ProperState
  <2>2. QED
    BY <1>1, <2>1 DEF Proper
<1>6. DOMAIN request' = Requests
  BY <1>1
<1>7. ProperState'
  <2>1. \A s \in Requests : Proper(request'[s])
    BY <1>4, <1>5
  <2>2. version' \in Nat
    BY <1>2 DEF ProperState
  <2>3. QED
    BY <1>6, <2>1, <2>2 DEF ProperState, Proper
<1>8. {request'[r].mine[o] : o \in DOMAIN request'[r].mine} \subseteq Mine(r)
  BY <1>4, NothingIsHeld DEF NothingHeld
<1>9. version' >= version
  BY <1>2 DEF ProperState
<1>10. \A s \in Requests : request'[s].late = request[s].late
  BY <1>4, <1>5
<1>11. QED
  BY <1>2, <1>5, <1>7, <1>8, <1>9, <1>10, StepIsTurn

LEMMA DieIsTurn ==
  ASSUME ProperState, NEW r \in Requests, Die(r)
  PROVE  ProperState' /\ Ledger!Turn(r)
<1>1. Proper(request[r])
  BY DEF ProperState
<1>2. Onward(request[r], Ended(request[r], "died"))
  BY <1>1, EndedIsProper
<1>3. QED
  BY <1>2, QuietQuery DEF Die

LEMMA ReadVersionIsTurn ==
  ASSUME ProperState, NEW r \in Requests, ReadTheVersion(r)
  PROVE  ProperState' /\ Ledger!Turn(r)
<1> DEFINE q == [request[r] EXCEPT !.seen = version,
                                   !.met  = IF request[r].op = "list items"
                                            THEN {s \in Requests : Writing(s)} ELSE @]
           q1 == IF VersionRefused(r) THEN Ended(q, "refused") ELSE Advanced(q)
<1>1. Proper(request[r]) /\ request[r].outcome = "running"
  BY NextIsTyped DEF ReadTheVersion
<1>2. Proper(q) /\ q.mine = request[r].mine /\ q.late = request[r].late /\ q.outcome = "running"
  BY <1>1, VersionIsNat DEF Proper
<1>3. Becomes(r, q1) /\ UNCHANGED <<version, row, log>>
  BY DEF ReadTheVersion
<1> HIDE DEF q
<1>4. Onward(q, q1)
  BY <1>2, EndedIsProper, AdvancedIsProper
<1>5. QED
  BY <1>1, <1>2, <1>3, <1>4, SeenIsOnward, QuietQuery

LEMMA ReadRowsIsTurn ==
  ASSUME ProperState, NEW r \in Requests, ReadTheRows(r)
  PROVE  ProperState' /\ Ledger!Turn(r)
<1> DEFINE on    == On(r)
           live  == {o \in on : row[o].live}
           q     == [request[r] EXCEPT !.base = [o \in on |-> row[o]]]
           late  == [q EXCEPT !.seen = version]
           less  == [q EXCEPT !.steps = Narrowed(@, live)]
<1>1. Proper(request[r]) /\ request[r].outcome = "running"
  BY NextIsTyped DEF ReadTheRows
<1>2. Proper(q) /\ q.mine = request[r].mine /\ q.late = request[r].late /\ q.outcome = "running"
  BY <1>1, VersionIsNat DEF Proper
<1>3. PICK q1 : /\ Becomes(r, q1)
                /\ q1 \in {Ended(late, "refused"), Ended(q, "failed"), Ended(q, "answered"),
                           Advanced(less), Advanced(q)}
  BY Zenon DEF ReadTheRows
<1>4. UNCHANGED <<version, row, log>>
  BY DEF ReadTheRows
<1> HIDE DEF q, live
<1>5. Proper(late) /\ late.mine = q.mine /\ late.late = q.late
  BY <1>2, VersionIsNat DEF Proper
<1>6. Proper(less) /\ less.mine = q.mine /\ less.late = q.late /\ less.outcome = "running"
  <2>1. /\ Narrowed(q.steps, live) \in Seq(Steps)
        /\ q.steps # <<>> => Narrowed(q.steps, live) # <<>>
    BY <1>2, NarrowedIsSteps DEF Proper
  <2>2. QED
    BY <1>2, <2>1 DEF Proper
<1> HIDE DEF late, less
<1>7. /\ Onward(late, Ended(late, "refused")) /\ Onward(q, Ended(q, "failed"))
      /\ Onward(q, Ended(q, "answered"))
  BY <1>2, <1>5, EndedIsProper
<1>8. Onward(less, Advanced(less)) /\ Onward(q, Advanced(q))
  BY <1>2, <1>6, AdvancedIsProper
<1>9. Onward(request[r], q1)
  BY <1>1, <1>2, <1>3, <1>5, <1>6, <1>7, <1>8, SeenIsOnward
<1>10. QED
  BY <1>3, <1>4, <1>9, QuietQuery

LEMMA ReadLogIsTurn ==
  ASSUME ProperState, NEW r \in Requests, ReadTheLog(r)
  PROVE  ProperState' /\ Ledger!Turn(r)
<1> DEFINE q == [request[r] EXCEPT !.gone = log]
<1>1. Proper(request[r]) /\ request[r].outcome = "running"
  BY NextIsTyped DEF ReadTheLog
<1>2. Proper(q) /\ q.mine = request[r].mine /\ q.late = request[r].late /\ q.outcome = "running"
  BY <1>1, VersionIsNat DEF Proper
<1>3. Becomes(r, Advanced(q)) /\ UNCHANGED <<version, row, log>>
  BY DEF ReadTheLog
<1> HIDE DEF q
<1>4. Onward(q, Advanced(q))
  BY <1>2, AdvancedIsProper
<1>5. QED
  BY <1>1, <1>2, <1>3, <1>4, SeenIsOnward, QuietQuery

LEMMA CompareIsTurn ==
  ASSUME ProperState, NEW r \in Requests, CompareRows(r)
  PROVE  ProperState' /\ Ledger!Turn(r)
<1> DEFINE q    == request[r]
           late == [q EXCEPT !.seen = version]
<1>1. Proper(q) /\ q.outcome = "running"
  BY NextIsTyped DEF CompareRows
<1>2. Proper(late) /\ late.mine = q.mine /\ late.late = q.late
  BY <1>1, VersionIsNat DEF Proper
<1>3. PICK q1 \in {Ended(late, "refused"), Advanced(q)} : Becomes(r, q1)
  BY DEF CompareRows
<1>4. UNCHANGED <<version, row, log>>
  BY DEF CompareRows
<1> HIDE DEF late
<1>5. Onward(late, Ended(late, "refused")) /\ Onward(q, Advanced(q))
  BY <1>1, <1>2, EndedIsProper, AdvancedIsProper
<1>6. Onward(q, q1)
  BY <1>1, <1>2, <1>3, <1>5, SeenIsOnward
<1>7. QED
  BY <1>3, <1>4, <1>6, QuietQuery

LEMMA ValidateIsTurn ==
  ASSUME ProperState, NEW r \in Requests, Validate(r)
  PROVE  ProperState' /\ Ledger!Turn(r)
<1> DEFINE q       == request[r]
           skipped == {o \in On(r) : row[o] # q.base[o]} \cup q.invalid
           rest    == On(r) \ skipped
           less    == [q EXCEPT !.steps = Narrowed(@, rest)]
<1>1. Proper(q) /\ q.outcome = "running"
  BY NextIsTyped DEF Validate
<1>2. PICK q1 \in {Ended(q, "answered"), Advanced(less)} : Becomes(r, q1)
  BY DEF Validate
<1>3. UNCHANGED <<version, row, log>>
  BY DEF Validate
<1> HIDE DEF rest
<1>4. Proper(less) /\ less.mine = q.mine /\ less.late = q.late /\ less.outcome = "running"
  <2>1. /\ Narrowed(q.steps, rest) \in Seq(Steps)
        /\ q.steps # <<>> => Narrowed(q.steps, rest) # <<>>
    BY <1>1, NarrowedIsSteps DEF Proper
  <2>2. QED
    BY <1>1, <2>1 DEF Proper
<1> HIDE DEF less
<1>5. Onward(q, Ended(q, "answered")) /\ Onward(less, Advanced(less))
  BY <1>1, <1>4, EndedIsProper, AdvancedIsProper
<1>6. Onward(q, q1)
  BY <1>1, <1>2, <1>4, <1>5, SeenIsOnward
<1>7. QED
  BY <1>2, <1>3, <1>6, QuietQuery

LEMMA FindTokenIsTurn ==
  ASSUME ProperState, NEW r \in Requests, FindToken(r)
  PROVE  ProperState' /\ Ledger!Turn(r)
<1>1. Proper(request[r]) /\ request[r].outcome = "running"
  BY NextIsTyped DEF FindToken
<1>2. PICK q1 \in {Ended(request[r], "duplicate"), Advanced(request[r])} : Becomes(r, q1)
  BY DEF FindToken
<1>3. Onward(request[r], q1)
  BY <1>1, <1>2, EndedIsProper, AdvancedIsProper
<1>4. QED
  BY <1>2, <1>3, QuietQuery DEF FindToken

LEMMA ClaimIsTurn ==
  ASSUME ProperState, NEW r \in Requests, ClaimVersion(r)
  PROVE  ProperState' /\ Ledger!Turn(r)
<1> DEFINE q    == request[r]
           late == [q EXCEPT !.seen = version]
<1>1. Proper(q) /\ q.outcome = "running"
  BY NextIsTyped DEF ClaimVersion
<1>2. Proper(late) /\ late.mine = q.mine /\ late.late = q.late
  BY <1>1, VersionIsNat DEF Proper
<1>3. PICK q1 \in {Ended(late, "refused"), Advanced(q)} : Becomes(r, q1)
  BY DEF ClaimVersion
<1>4. UNCHANGED <<version, row, log>>
  BY DEF ClaimVersion
<1> HIDE DEF late
<1>5. Onward(late, Ended(late, "refused")) /\ Onward(q, Advanced(q))
  BY <1>1, <1>2, EndedIsProper, AdvancedIsProper
<1>6. Onward(q, q1)
  BY <1>1, <1>2, <1>3, <1>5, SeenIsOnward
<1>7. QED
  BY <1>3, <1>4, <1>6, QuietQuery

LEMMA NumberedAbove ==
  ASSUME NEW on, Cardinality(on) \in Nat, NEW from \in Nat, NEW one \in BOOLEAN,
         NEW mine \in Numberings(on, from, one)
  PROVE  {mine[o] : o \in DOMAIN mine}
            \subseteq from + 1 .. from + (IF one THEN 1 ELSE Cardinality(on))
<1>1. CASE one
  BY <1>1 DEF Numberings
<1>2. CASE ~one
  BY <1>2 DEF Numberings
<1>3. QED
  BY <1>1, <1>2

LEMMA ReserveIsTurn ==
  ASSUME ProperState, NEW r \in Requests, ReserveVersions(r)
  PROVE  ProperState' /\ Ledger!Turn(r)
<1> DEFINE q   == request[r]
           one == "one" \in Rules(r)
           late == [q EXCEPT !.seen = version]
<1>1. Proper(q) /\ q.outcome = "running" /\ Cardinality(On(r)) \in Nat
  BY NextIsTyped DEF ReserveVersions
<1>2. CASE Becomes(r, Ended(late, "refused")) /\ UNCHANGED version
  <2>1. Proper(late) /\ late.mine = q.mine /\ late.late = q.late
    BY <1>1, VersionIsNat DEF Proper
  <2> HIDE DEF late
  <2>2. Onward(q, Ended(late, "refused"))
    BY <1>1, <2>1, EndedIsProper, SeenIsOnward
  <2>3. UNCHANGED <<version, row, log>>
    BY <1>2 DEF ReserveVersions
  <2>4. QED
    BY <1>2, <2>2, <2>3, QuietQuery
<1>3. ASSUME version' = version + (IF one THEN 1 ELSE Cardinality(On(r))),
             NEW mine \in Numberings(On(r), version, one),
             Becomes(r, Advanced([q EXCEPT !.mine = mine]))
      PROVE  ProperState' /\ Ledger!Turn(r)
  <2> DEFINE numbered == [q EXCEPT !.mine = mine]
             q1       == Advanced(numbered)
  <2>1. /\ Proper(numbered) /\ numbered.mine = mine /\ numbered.outcome = "running"
        /\ numbered.late = request[r].late
    BY <1>1 DEF Proper
  <2> HIDE DEF numbered
  <2>2. Proper(q1) /\ q1.mine \in {Nothing, mine} /\ q1.late = request[r].late
    BY <2>1, AdvancedIsProper DEF Onward
  <2>3. version \in Nat /\ version' \in Nat /\ version' >= version
    BY <1>1, <1>3 DEF ProperState
  <2>4. {mine[o] : o \in DOMAIN mine} \subseteq version + 1 .. version'
    <3>1. one \in BOOLEAN
      OBVIOUS
    <3> HIDE DEF one
    <3>2. {mine[o] : o \in DOMAIN mine}
             \subseteq version + 1 .. version + (IF one THEN 1 ELSE Cardinality(On(r)))
      BY <1>1, <1>3, <2>3, <3>1, NumberedAbove
    <3>3. QED
      BY <1>3, <3>2
  <2>5. {q1.mine[o] : o \in DOMAIN q1.mine} \subseteq Mine(r)
    <3> HIDE DEF q1
    <3>1. CASE q1.mine = Nothing
      BY <3>1, NothingIsHeld DEF NothingHeld
    <3>2. CASE q1.mine = mine
      BY <2>4, <3>2 DEF Mine
    <3>3. QED
      BY <2>2, <3>1, <3>2
  <2>6. row' = row /\ log' = log /\ Becomes(r, q1)
    BY <1>3 DEF ReserveVersions, numbered
  <2> HIDE DEF q1
  <2>7. QED
    BY <2>2, <2>3, <2>5, <2>6, QueryIsTurn
<1>4. QED
  BY <1>2, <1>3 DEF ReserveVersions

(* The versions a request still holds when it has written. *)
LEMMA WritersAdvance ==
  ASSUME ProperState, NEW r \in Requests, NEW do, NextIs(r, do)
  PROVE  /\ Proper(Advanced(request[r])) /\ Advanced(request[r]).late = request[r].late
         /\ {Advanced(request[r]).mine[o] : o \in DOMAIN Advanced(request[r]).mine} \subseteq Mine(r)
         /\ \A o \in DOMAIN request[r].mine : request[r].mine[o] \in Mine(r)
         /\ version \in Nat
<1>1. Onward(request[r], Advanced(request[r]))
  BY NextIsTyped, AdvancedIsProper
<1>2. \A o \in DOMAIN request[r].mine : request[r].mine[o] \in Held(r)
  BY DEF Held
<1> DEFINE q1 == Advanced(request[r])
<1>3. Proper(q1) /\ q1.mine \in {Nothing, request[r].mine} /\ q1.late = request[r].late
  BY <1>1 DEF Onward
<1> HIDE DEF q1
<1>4. {q1.mine[o] : o \in DOMAIN q1.mine} \subseteq Mine(r)
  <2>1. CASE q1.mine = Nothing
    BY <2>1, NothingIsHeld DEF NothingHeld
  <2>2. CASE q1.mine = request[r].mine
    BY <1>2, <2>2 DEF Mine
  <2>3. QED
    BY <1>3, <2>1, <2>2
<1>5. QED
  BY <1>2, <1>3, <1>4 DEF q1, Mine, ProperState

LEMMA StoreIsTurn ==
  ASSUME ProperState, NEW r \in Requests, StoreRows(r)
  PROVE  ProperState' /\ Ledger!Turn(r)
<1> DEFINE q == request[r]
<1>1. NextIs(r, "store") /\ Proper(q) /\ version' = version /\ log' = log
  BY NextIsTyped DEF StoreRows
<1>2. CASE Becomes(r, Ended(q, "failed")) /\ row' = row
  BY <1>1, <1>2, EndedIsProper, QuietQuery
<1>3. CASE /\ row' = [o \in Objects |->
                        IF o \in DOMAIN q.mine
                        THEN [version |-> q.mine[o], live |-> TRUE, edits |-> Edited(r, o), by |-> r]
                        ELSE row[o]]
           /\ Becomes(r, Advanced(q))
  <2>1. \A o \in Objects :
           \/ row'[o].version = row[o].version /\ row'[o].by = row[o].by
           \/ row'[o].version \in Mine(r) /\ row'[o].by = r
    BY <1>1, <1>3, WritersAdvance
  <2>2. version' \in Nat /\ version' >= version
    BY <1>1, WritersAdvance
  <2>3. QED
    BY <1>1, <1>3, <2>1, <2>2, WritersAdvance, QueryIsTurn
<1>4. QED
  BY <1>2, <1>3 DEF StoreRows

LEMMA WalkUpIsTurn ==
  ASSUME ProperState, NEW r \in Requests, WalkUp(r)
  PROVE  ProperState' /\ Ledger!Turn(r)
<1>1. PICK below \in SUBSET On(r) :
         Becomes(r, Advanced([request[r] EXCEPT !.below = [o \in below |-> row[o]]]))
  BY DEF WalkUp
<1> DEFINE q == [request[r] EXCEPT !.below = [o \in below |-> row[o]]]
<1>2. Proper(request[r]) /\ request[r].outcome = "running"
  BY NextIsTyped DEF WalkUp
<1>3. Proper(q) /\ q.mine = request[r].mine /\ q.late = request[r].late /\ q.outcome = "running"
  BY <1>2 DEF Proper
<1>4. Becomes(r, Advanced(q)) /\ UNCHANGED <<version, row, log>>
  BY <1>1 DEF WalkUp
<1> HIDE DEF q
<1>5. Onward(q, Advanced(q))
  BY <1>3, AdvancedIsProper
<1>6. QED
  BY <1>2, <1>3, <1>4, <1>5, SeenIsOnward, QuietQuery

LEMMA MoveUpIsTurn ==
  ASSUME ProperState, NEW r \in Requests, MoveUp(r)
  PROVE  ProperState' /\ Ledger!Turn(r)
<1> DEFINE q     == request[r]
           moved == {o \in DOMAIN q.below : q.below[o].live}
<1>1. NextIs(r, "move") /\ version' = version /\ log' = log /\ Becomes(r, Advanced(q))
  BY DEF MoveUp
<1>2. PICK v \in {q.mine[o] : o \in DOMAIN q.mine} :
         row' = [o \in Objects |->
                   IF o \in moved
                   THEN [version |-> v, live |-> row[o].live,
                         edits |-> {r} \cup q.below[o].edits, by |-> r]
                   ELSE row[o]]
  BY DEF MoveUp
<1>3. v \in Mine(r)
  BY <1>1, <1>2, WritersAdvance
<1>4. \A o \in Objects : \/ row'[o].version = row[o].version /\ row'[o].by = row[o].by
                         \/ row'[o].version \in Mine(r) /\ row'[o].by = r
  <2> HIDE DEF moved
  <2>1. QED
    BY <1>2, <1>3
<1>5. version' \in Nat /\ version' >= version
  BY <1>1, WritersAdvance
<1>6. QED
  BY <1>1, <1>4, <1>5, WritersAdvance, QueryIsTurn

LEMMA DropIsTurn ==
  ASSUME ProperState, NEW r \in Requests, DropCollections(r)
  PROVE  ProperState' /\ Ledger!Turn(r)
<1> DEFINE mine == request[r].mine
<1>1. NextIs(r, "drop") /\ version' = version /\ Becomes(r, Advanced(request[r]))
  BY DEF DropCollections
<1>2. \A o \in Objects : row'[o].version = row[o].version /\ row'[o].by = row[o].by
  BY DEF DropCollections
<1>3. log' = log \cup Deletions(r, mine)
  BY DEF DropCollections
<1>4. \A entry \in log' \ log : entry.version \in Mine(r) /\ entry.by = r
  BY <1>1, <1>3, WritersAdvance DEF Deletions
<1>5. version' \in Nat /\ version' >= version
  BY <1>1, WritersAdvance
<1>6. QED
  BY <1>1, <1>2, <1>3, <1>4, <1>5, WritersAdvance, QueryIsTurn

LEMMA EraseIsTurn ==
  ASSUME ProperState, NEW r \in Requests, EraseRows(r)
  PROVE  ProperState' /\ Ledger!Turn(r)
<1> DEFINE mine == request[r].mine
<1>1. NextIs(r, "erase") /\ version' = version /\ Becomes(r, Advanced(request[r]))
  BY DEF EraseRows
<1>2. \A o \in Objects : \/ row'[o].version = row[o].version /\ row'[o].by = row[o].by
                         \/ row'[o].version = 0 /\ row'[o].by = Nobody
  BY DEF EraseRows, NoRow
<1>3. log' = log \cup Deletions(r, mine)
  BY DEF EraseRows
<1>4. \A entry \in log' \ log : entry.version \in Mine(r) /\ entry.by = r
  BY <1>1, <1>3, WritersAdvance DEF Deletions
<1>5. version' \in Nat /\ version' >= version
  BY <1>1, WritersAdvance
<1>6. QED
  BY <1>1, <1>2, <1>3, <1>4, <1>5, WritersAdvance, QueryIsTurn

(* A deletion of items sets the version: a turn when the version it read   *)
(* is still the library's, and otherwise it is overtaken.                  *)
LEMMA EraseItemsIsTurn ==
  ASSUME ProperState, NEW r \in Requests, EraseItems(r)
  PROVE  ProperState' /\ (Ledger!Turn(r) \/ Ledger!Overtaken(r))
<1> DEFINE q     == request[r]
           found == {o \in On(r) : q.base[o].live}
           done  == [q EXCEPT !.late = @ \/ q.seen # version]
           q1    == Advanced(done)
<1>1. Proper(q) /\ q.outcome = "running" /\ version \in Nat
  BY NextIsTyped, VersionIsNat DEF EraseItems
<1>2. /\ Proper(done) /\ done.mine = q.mine /\ done.outcome = "running"
      /\ done.late = (q.late \/ q.seen # version)
  BY <1>1 DEF Proper
<1>3. version' = q.seen + 1 /\ Becomes(r, q1)
  BY DEF EraseItems, NextVersion
<1> HIDE DEF done
<1>4. Proper(q1) /\ q1.mine \in {Nothing, q.mine} /\ q1.late = (q.late \/ q.seen # version)
  BY <1>2, AdvancedIsProper DEF Onward
<1> HIDE DEF q1
<1>5. q.seen \in Nat /\ version' \in Nat
  BY <1>1, <1>3 DEF Proper
<1>6. {q1.mine[o] : o \in DOMAIN q1.mine} \subseteq Held(r)
  <2>1. CASE q1.mine = Nothing
    BY <2>1, NothingIsHeld DEF NothingHeld
  <2>2. CASE q1.mine = q.mine
    BY <2>2 DEF Held
  <2>3. QED
    BY <1>4, <2>1, <2>2
<1>7. \A o \in Objects : \/ row'[o].version = row[o].version /\ row'[o].by = row[o].by
                         \/ row'[o].version = version' /\ row'[o].by = r
  <2>1. row' = [o \in Objects |->
                  IF o \in found
                  THEN [version |-> version', live |-> FALSE, edits |-> row[o].edits, by |-> r]
                  ELSE row[o]]
    BY <1>3 DEF EraseItems, NextVersion
  <2>2. QED
    BY <2>1
<1>8. log \subseteq log' /\ \A entry \in log' \ log : entry.version = version' /\ entry.by = r
  <2>1. log' = log \cup Deletions(r, [o \in found |-> version'])
    BY <1>3 DEF EraseItems, NextVersion
  <2> HIDE DEF found
  <2>2. \A entry \in Deletions(r, [o \in found |-> version']) :
           entry.version = version' /\ entry.by = r
    BY DEF Deletions
  <2>3. QED
    BY <2>1, <2>2
<1>9. CASE q.seen = version
  <2>1. version' >= version /\ version' \in Mine(r)
    <3>1. version' >= version /\ version' \in version + 1 .. version'
      BY <1>1, <1>3, <1>9
    <3>2. QED
      BY <3>1 DEF Mine
  <2>2. {q1.mine[o] : o \in DOMAIN q1.mine} \subseteq Mine(r)
    BY <1>6 DEF Mine
  <2>3. q1.late = q.late
    <3>1. q.late \in BOOLEAN
      BY <1>1 DEF Proper
    <3>2. QED
      BY <1>4, <1>9, <3>1
  <2>4. \A o \in Objects : \/ row'[o].version = row[o].version /\ row'[o].by = row[o].by
                           \/ row'[o].version \in Mine(r) /\ row'[o].by = r
    BY <1>7, <2>1
  <2>5. \A entry \in log' \ log : entry.version \in Mine(r) /\ entry.by = r
    BY <1>8, <2>1
  <2>6. QED
    BY <1>3, <1>4, <1>5, <1>8, <2>1, <2>2, <2>3, <2>4, <2>5, QueryIsTurn
<1>10. CASE q.seen # version
  <2>1. /\ DOMAIN request' = Requests /\ request'[r] = q1
        /\ \A s \in Requests : s # r => request'[s] = request[s]
    BY <1>3 DEF ProperState, Becomes
  <2>2. ProperState'
    <3>1. \A s \in Requests : Proper(request'[s])
      BY <1>4, <2>1 DEF ProperState
    <3>2. QED
      BY <1>5, <2>1, <3>1 DEF ProperState, Proper
  <2>3. request'[r].late
    BY <1>4, <1>10, <2>1
  <2>4. (~InTurn)' = TRUE
    BY <2>3 DEF InTurn
  <2>p. PICK handed : handed = Held(r) \cup {version'}
    OBVIOUS
  <2>5. {request'[r].mine[o] : o \in DOMAIN request'[r].mine} \subseteq handed
    BY <1>6, <2>1, <2>p
  <2>6. /\ \A o \in Objects : \/ row'[o].version = row[o].version /\ row'[o].by = row[o].by
                              \/ row'[o].version \in handed /\ row'[o].by = r
        /\ \A entry \in log' \ log : entry.version \in handed /\ entry.by = r
    BY <1>7, <1>8, <2>p
  <2>7. Ledger!Uses(r, handed)
    BY <1>5, <1>8, <2>1, <2>5, <2>6, StepUses
  <2>8. Ledger!Overtaken(r)
    <3>1. handed = [s \in Requests |-> Held(s)][r] \cup {version'}
      BY <2>p
    <3>2. QED
      BY <2>4, <2>7, <3>1, Zenon DEF Ledger!Overtaken, Ledger!Uses
  <2>9. QED
    BY <2>2, <2>8
<1>11. QED
  BY <1>9, <1>10

LEMMA LogTagIsTurn ==
  ASSUME ProperState, NEW r \in Requests, LogTag(r)
  PROVE  ProperState' /\ Ledger!Turn(r)
<1>1. NextIs(r, "log tag") /\ Becomes(r, Advanced(request[r])) /\ version' = version /\ row' = row
  BY DEF LogTag
<1>2. PICK v \in {request[r].mine[o] : o \in DOMAIN request[r].mine} :
         log' = log \cup {[version |-> v, key |-> Tag, by |-> r]}
  BY DEF LogTag
<1>3. v \in Mine(r)
  BY <1>1, <1>2, WritersAdvance
<1>4. \A entry \in log' \ log : entry.version \in Mine(r) /\ entry.by = r
  BY <1>2, <1>3
<1>5. version' \in Nat /\ version' >= version
  <2>1. version \in Nat
    BY DEF ProperState
  <2>2. version' = version
    BY DEF LogTag
  <2>3. QED
    BY <2>1, <2>2
<1>6. QED
  BY <1>1, <1>2, <1>4, <1>5, WritersAdvance, QueryIsTurn

(* Every query of a request is a turn of the ledger, or a deletion that is *)
(* overtaken: the handlers keep the promise of the version counter, for    *)
(* any number of requests and objects, whatever they ask for and wherever  *)
(* they die.                                                               *)
THEOREM HandlersKeepLedger == Spec => KeepsLedger
<1>1. Init => ProperState /\ Ledger!LedgerInit
  <2> SUFFICES ASSUME Init PROVE ProperState /\ Ledger!LedgerInit
    OBVIOUS
  <2>1. ProperState
    BY NoStep DEF Init, ProperState, Proper, Idle
  <2>2. [r \in Requests |-> Held(r)] = [r \in Requests |-> {}]
    BY NothingIsHeld DEF Init, Held, Idle, NothingHeld
  <2>3. \A o \in Objects : row[o].version \in 0 .. version /\ row[o].by = Nobody
    BY DEF Init, NoRow
  <2>4. {[version |-> entry.version, by |-> entry.by] : entry \in log} = {}
    BY DEF Init
  <2>5. version \in Nat
    BY DEF Init
  <2>6. ~InTurn = FALSE
    BY DEF Init, Idle, InTurn
  <2>7. QED
    BY <2>1, <2>2, <2>3, <2>4, <2>5, <2>6 DEF Ledger!LedgerInit
<1>2. ProperState /\ [Next]_vars => ProperState' /\ [Ledger!LedgerNext]_(Ledger!ledgerVars)
  <2> SUFFICES ASSUME ProperState, [Next]_vars
               PROVE  ProperState' /\ [Ledger!LedgerNext]_(Ledger!ledgerVars)
    OBVIOUS
  <2>1. CASE UNCHANGED vars
    <3>1. ProperState'
      BY <2>1 DEF vars, ProperState, Proper
    <3>2. [r \in Requests |-> Held(r)]' = [r \in Requests |-> Held(r)]
      BY <2>1 DEF vars, Held
    <3>3. UNCHANGED ~InTurn
      BY <2>1 DEF vars, InTurn
    <3>4. UNCHANGED Ledger!ledgerVars
      BY <2>1, <3>2, <3>3 DEF vars, Ledger!ledgerVars
    <3>5. QED
      BY <3>1, <3>4
  <2>2. ASSUME NEW r \in Requests, Begin(r) \/ Query(r) \/ Die(r)
        PROVE  ProperState' /\ Ledger!LedgerNext
    <3>1. ProperState' /\ (Ledger!Turn(r) \/ Ledger!Overtaken(r))
      BY <2>2, BeginIsTurn, DieIsTurn, ReadVersionIsTurn, ReadRowsIsTurn, ReadLogIsTurn,
         CompareIsTurn, ValidateIsTurn, FindTokenIsTurn, ClaimIsTurn, ReserveIsTurn,
         StoreIsTurn, WalkUpIsTurn, MoveUpIsTurn, DropIsTurn, EraseIsTurn, EraseItemsIsTurn, LogTagIsTurn DEF Query
    <3>2. QED
      BY <3>1 DEF Ledger!LedgerNext
  <2>3. QED
    BY <2>1, <2>2 DEF Next
<1>3. QED
  BY <1>1, <1>2, PTL DEF Spec, KeepsLedger, Ledger!LedgerSpec

LedgerFacts == INSTANCE VersionLedgerProofs WITH
  Writers <- Requests,
  clock   <- version,
  held    <- [r \in Requests |-> Held(r)],
  stored  <- [o \in Objects |-> row[o].version],
  by      <- [o \in Objects |-> row[o].by],
  removed <- {[version |-> entry.version, by |-> entry.by] : entry \in log},
  overtaken <- ~InTurn

(* No version of the library stands for the writes of two requests, until  *)
(* a deletion of items is overtaken.                                       *)
THEOREM ServerOneWriter == Spec => [](InTurn => OneWriterPerVersion)
<1>1. LedgerFacts!LedgerSpec => [](~~InTurn => LedgerFacts!OneWriterPerVersion)
  BY LedgerFacts!LedgerOneWriter
<1>2. Ledger!LedgerInit <=> LedgerFacts!LedgerInit
  BY DEF Ledger!LedgerInit, LedgerFacts!LedgerInit
<1>3. [Ledger!LedgerNext]_(Ledger!ledgerVars) <=> [LedgerFacts!LedgerNext]_(LedgerFacts!ledgerVars)
  <2>1. \A r \in Requests : /\ Ledger!Turn(r) <=> LedgerFacts!Turn(r)
                            /\ Ledger!Overtaken(r) <=> LedgerFacts!Overtaken(r)
    BY Zenon DEF Ledger!Turn, LedgerFacts!Turn, Ledger!Handed, LedgerFacts!Handed,
                 Ledger!Uses, LedgerFacts!Uses, Ledger!Overtaken, LedgerFacts!Overtaken
  <2>2. Ledger!ledgerVars = LedgerFacts!ledgerVars
    BY DEF Ledger!ledgerVars, LedgerFacts!ledgerVars
  <2>3. Ledger!ledgerVars' = LedgerFacts!ledgerVars'
    BY DEF Ledger!ledgerVars, LedgerFacts!ledgerVars
  <2>4. QED
    BY <2>1, <2>2, <2>3, Zenon DEF Ledger!LedgerNext, LedgerFacts!LedgerNext
<1>4. OneWriterPerVersion <=> LedgerFacts!OneWriterPerVersion
  BY Zenon DEF OneWriterPerVersion, Ledger!OneWriterPerVersion, LedgerFacts!OneWriterPerVersion
<1>5. QED
  BY HandlersKeepLedger, <1>1, <1>2, <1>3, <1>4, PTL
     DEF KeepsLedger, Ledger!LedgerSpec, LedgerFacts!LedgerSpec

(* ------------------------ one query of a request ----------------------- *)

Fields == {"op", "keys", "header", "token", "invalid", "steps", "outcome", "seen", "base",
           "below", "gone", "mine", "met", "calm", "late"}

Same(q, q1) ==
  /\ DOMAIN q1 = Fields
  /\ q1.op = q.op /\ q1.keys = q.keys /\ q1.token = q.token
  /\ q1.header = q.header /\ q1.calm = q.calm

(* A request that ends: what was a list keeps what it read. *)
Stops(q, q1, outcome) ==
  /\ Same(q, q1)
  /\ q1.steps = <<>> /\ q1.outcome = outcome /\ q1.mine = Nothing
  /\ q1.below = Nothing /\ q1.late = q.late
  /\ q1.base \in {Nothing, q.base} /\ q1.seen \in {0, q.seen}
  /\ q.op \in Lists => /\ q1.base = q.base /\ q1.seen = q.seen
                       /\ q1.met = q.met /\ q1.gone = q.gone

(* A request that goes on to its next query, or is answered. *)
GoesOn(q, q1) ==
  /\ Same(q, q1)
  /\ q1.steps = Tail(q.steps) /\ q1.outcome = q.outcome /\ q1.mine = q.mine
  /\ q1.base = q.base /\ q1.seen = q.seen /\ q1.met = q.met /\ q1.gone = q.gone
  /\ q1.below = q.below /\ q1.late = q.late

Moves(q, q1) ==
  \/ Len(q.steps) = 1 /\ Stops(q, q1, "answered")
  \/ Len(q.steps) # 1 /\ GoesOn(q, q1)

LEMMA EndedStops ==
  ASSUME NEW q, DOMAIN q = Fields, NEW outcome
  PROVE  Stops(q, Ended(q, outcome), outcome)
<1> DEFINE done == [q EXCEPT !.outcome = outcome, !.steps = <<>>, !.mine = Nothing,
                             !.below = Nothing]
           less == [done EXCEPT !.base = Nothing]
           rest == [done EXCEPT !.base = Nothing, !.seen = 0, !.met = {}]
<1>1. /\ Same(q, done) /\ done.steps = <<>> /\ done.outcome = outcome /\ done.mine = Nothing
      /\ done.base = q.base /\ done.seen = q.seen /\ done.met = q.met /\ done.gone = q.gone
      /\ done.below = Nothing /\ done.late = q.late
  BY DEF Fields, Same
<1>2. Ended(q, outcome) = IF q.op \in Lists THEN done
                          ELSE IF outcome = "refused" THEN less ELSE rest
  <2>1. CASE q.op \in Lists
    BY <2>1 DEF Ended
  <2>2. CASE q.op \notin Lists /\ outcome = "refused"
    BY <2>2 DEF Ended
  <2>3. CASE q.op \notin Lists /\ outcome # "refused"
    BY <2>3 DEF Ended
  <2>4. QED
    BY <2>1, <2>2, <2>3
<1> HIDE DEF done
<1>3. /\ Same(q, less) /\ less.steps = <<>> /\ less.outcome = outcome /\ less.mine = Nothing
      /\ less.base = Nothing /\ less.seen = q.seen /\ less.below = Nothing /\ less.late = q.late
  BY <1>1 DEF Same, Fields
<1>4. /\ Same(q, rest) /\ rest.steps = <<>> /\ rest.outcome = outcome /\ rest.mine = Nothing
      /\ rest.base = Nothing /\ rest.seen = 0 /\ rest.below = Nothing /\ rest.late = q.late
  BY <1>1 DEF Same, Fields
<1> HIDE DEF less, rest
<1>5. QED
  BY <1>1, <1>2, <1>3, <1>4 DEF Stops

LEMMA AdvancedMoves ==
  ASSUME NEW q, DOMAIN q = Fields
  PROVE  Moves(q, Advanced(q))
<1>1. CASE Len(q.steps) = 1
  BY <1>1, EndedStops DEF Advanced, Moves
<1>2. CASE Len(q.steps) # 1
  <2> DEFINE next == [q EXCEPT !.steps = Tail(@)]
  <2>1. GoesOn(q, next)
    BY DEF GoesOn, Same, Fields
  <2> HIDE DEF next
  <2>2. QED
    BY <1>2, <2>1 DEF Advanced, Moves, next
<1>3. QED
  BY <1>1, <1>2

(* What a request is when all that its steps count on is there. *)
Sound(q) ==
  /\ DOMAIN q = Fields
  /\ q.outcome \in Outcomes
  /\ q.steps \in Seq(Steps)
  /\ (q.outcome = "running") <=> (q.steps # <<>>)
  /\ q.outcome # "running" => q.mine = Nothing
  /\ DOMAIN q.mine \subseteq Objects /\ DOMAIN q.base \subseteq Objects
  /\ \A o \in DOMAIN q.mine : q.mine[o] \in Nat \ {0} /\ (InTurn => q.mine[o] <= version)
  /\ q.seen \in Nat
  /\ q.late \in BOOLEAN
  /\ q.outcome = "waiting" => ~q.late

SoundState ==
  /\ version \in Nat
  /\ DOMAIN request = Requests
  /\ \A r \in Requests : Sound(request[r])

(* A query reads into its request, and the request ends or goes on.        *)
Prepared(r, q0) ==
  /\ request[r].outcome = "running"
  /\ Same(request[r], q0)
  /\ q0.outcome = "running"
  /\ \E found : q0.steps \in {request[r].steps, Narrowed(request[r].steps, found)}
  /\ q0.seen \in {request[r].seen, version}
  /\ DOMAIN q0.base \subseteq Objects
  /\ DOMAIN q0.mine \subseteq Objects
  /\ q0.late \in BOOLEAN /\ (request[r].late => q0.late)
  /\ \A o \in DOMAIN q0.below :
        \/ o \in Objects /\ q0.below[o] = row[o]
        \/ o \in DOMAIN request[r].below /\ q0.below[o] = request[r].below[o]
  /\ \/ q0.mine = request[r].mine
     \/ \A o \in DOMAIN q0.mine : q0.mine[o] \in (version + 1) .. version'

(* Where a request may be answered before its last query. *)
MayStopEarly(step) == "some" \in step.rules \/ step.do = "validate"

Went(r, q0, q1) ==
  \/ Moves(q0, q1)
  \/ \E outcome \in Outcomes \ {"waiting", "running", "answered"} : Stops(q0, q1, outcome)
  \/ Stops(q0, q1, "answered") /\ MayStopEarly(Head(request[r].steps))

(* Where it uses its write token, and goes on.                             *)
UsesToken(r) == "token" \in Rules(r) /\ request[r].token # NoToken

Did(r, q1) ==
  /\ Becomes(r, q1)
  /\ tokens \subseteq tokens'
  /\ \E q0 : Prepared(r, q0) /\ Went(r, q0, q1)
  /\ NextIs(r, "store") /\ UsesToken(r) /\ q1.outcome \in {"running", "answered"}
       => request[r].token \notin tokens /\ request[r].token \in tokens'

LEMMA RunningIsSound ==
  ASSUME SoundState, NEW r \in Requests, NEW do, NextIs(r, do)
  PROVE  /\ Sound(request[r]) /\ request[r].outcome = "running" /\ DOMAIN request[r] = Fields
         /\ Head(request[r].steps) \in Steps
         /\ On(r) \subseteq Objects /\ IsFiniteSet(On(r)) /\ Cardinality(On(r)) \in Nat
         /\ Prepared(r, request[r])
<1>1. Sound(request[r]) /\ request[r].outcome = "running"
  BY DEF SoundState, NextIs, Underway
<1>2. Head(request[r].steps) \in Steps
  BY <1>1, HeadTailProperties DEF Sound
<1>3. On(r) \subseteq Objects
  BY <1>2 DEF On, Steps
<1>4. IsFiniteSet(On(r)) /\ Cardinality(On(r)) \in Nat
  BY <1>3, ServerAssumption, FS_Subset, FS_CardinalityType
<1>5. Prepared(r, request[r])
  BY <1>1 DEF Prepared, Same, Sound
<1>6. QED
  BY <1>1, <1>2, <1>3, <1>4, <1>5 DEF Sound

(* A query that leaves the tokens alone. *)
LEMMA DidQuietly ==
  ASSUME NEW r \in Requests, NEW q0, NEW q1, Prepared(r, q0), Went(r, q0, q1), Becomes(r, q1),
         UNCHANGED tokens, NEW do, NextIs(r, do), do # "store"
  PROVE  Did(r, q1)
  BY DEF Did, NextIs

LEMMA ReadVersionDid ==
  ASSUME SoundState, NEW r \in Requests, ReadTheVersion(r)
  PROVE  \E q1 : Did(r, q1)
<1> DEFINE q == [request[r] EXCEPT !.seen = version,
                                   !.met  = IF request[r].op = "list items"
                                            THEN {s \in Requests : Writing(s)} ELSE @]
           q1 == IF VersionRefused(r) THEN Ended(q, "refused") ELSE Advanced(q)
<1>1. Sound(request[r]) /\ request[r].outcome = "running" /\ NextIs(r, "version")
  BY RunningIsSound DEF ReadTheVersion
<1>2. Prepared(r, q) /\ DOMAIN q = Fields
  BY <1>1 DEF Prepared, Same, Sound, Fields
<1>3. Becomes(r, q1) /\ UNCHANGED tokens
  BY DEF ReadTheVersion
<1> HIDE DEF q
<1>4. Went(r, q, q1)
  BY <1>2, EndedStops, AdvancedMoves DEF Went, Outcomes
<1> HIDE DEF q1
<1>5. QED
  BY <1>1, <1>2, <1>3, <1>4, DidQuietly

LEMMA ReadRowsDid ==
  ASSUME SoundState, NEW r \in Requests, ReadTheRows(r)
  PROVE  \E q1 : Did(r, q1)
<1> DEFINE on    == On(r)
           live  == {o \in on : row[o].live}
           some  == "some" \in Rules(r)
           q     == [request[r] EXCEPT !.base = [o \in on |-> row[o]]]
           late  == [q EXCEPT !.seen = version]
           less  == [q EXCEPT !.steps = Narrowed(@, live)]
<1>1. /\ Sound(request[r]) /\ request[r].outcome = "running" /\ NextIs(r, "rows")
      /\ on \subseteq Objects /\ DOMAIN request[r] = Fields
  BY RunningIsSound DEF ReadTheRows
<1>2. PICK q1 : /\ Becomes(r, q1)
                /\ \/ q1 \in {Ended(late, "refused"), Ended(q, "failed"),
                             Advanced(less), Advanced(q)}
                   \/ q1 = Ended(q, "answered") /\ some
  BY Zenon DEF ReadTheRows
<1>3. UNCHANGED tokens
  BY DEF ReadTheRows
<1>4. /\ DOMAIN q = Fields /\ q.outcome = "running" /\ q.steps = request[r].steps
      /\ q.seen = request[r].seen /\ q.base = [o \in on |-> row[o]] /\ q.mine = request[r].mine
      /\ q.late = request[r].late /\ q.below = request[r].below
      /\ Same(request[r], q)
  BY <1>1 DEF Same, Fields
<1> HIDE DEF q
<1>5. DOMAIN q.base \subseteq Objects /\ DOMAIN q.mine \subseteq Objects
  BY <1>1, <1>4 DEF Sound
<1>l. request[r].late \in BOOLEAN
  BY <1>1 DEF Sound
<1> HIDE DEF on
<1>6. Prepared(r, q)
  BY <1>1, <1>4, <1>5, <1>l DEF Prepared
<1>7. Prepared(r, late) /\ DOMAIN late = Fields
  BY <1>1, <1>4, <1>5, <1>l DEF Prepared, Same, Fields
<1>8. Prepared(r, less) /\ DOMAIN less = Fields
  <2> HIDE DEF live
  <2>1. /\ DOMAIN less = Fields /\ less.outcome = "running" /\ less.seen = q.seen
        /\ less.steps = Narrowed(request[r].steps, live)
        /\ less.base = q.base /\ less.mine = q.mine /\ less.late = q.late /\ less.below = q.below
        /\ Same(request[r], less)
    BY <1>4 DEF Same, Fields
  <2> HIDE DEF less
  <2>2. QED
    BY <1>1, <1>4, <1>5, <1>l, <2>1 DEF Prepared
<1> HIDE DEF late, less
<1>9. CASE q1 = Ended(late, "refused")
  <2>1. Went(r, late, q1)
    BY <1>7, <1>9, EndedStops DEF Went, Outcomes
  <2>2. QED
    BY <1>1, <1>2, <1>3, <1>7, <2>1, DidQuietly
<1>10. CASE q1 = Ended(q, "failed")
  <2>1. Went(r, q, q1)
    BY <1>4, <1>10, EndedStops DEF Went, Outcomes
  <2>2. QED
    BY <1>1, <1>2, <1>3, <1>6, <2>1, DidQuietly
<1>11. CASE q1 = Advanced(less)
  <2>1. Went(r, less, q1)
    BY <1>8, <1>11, AdvancedMoves DEF Went
  <2>2. QED
    BY <1>1, <1>2, <1>3, <1>8, <2>1, DidQuietly
<1>12. CASE q1 = Advanced(q)
  <2>1. Went(r, q, q1)
    BY <1>4, <1>12, AdvancedMoves DEF Went
  <2>2. QED
    BY <1>1, <1>2, <1>3, <1>6, <2>1, DidQuietly
<1>13. CASE q1 = Ended(q, "answered") /\ some
  <2>1. Went(r, q, q1)
    BY <1>4, <1>13, EndedStops DEF Went, MayStopEarly, Rules
  <2>2. QED
    BY <1>1, <1>2, <1>3, <1>6, <2>1, DidQuietly
<1>14. QED
  BY <1>2, <1>9, <1>10, <1>11, <1>12, <1>13

LEMMA ReadLogDid ==
  ASSUME SoundState, NEW r \in Requests, ReadTheLog(r)
  PROVE  \E q1 : Did(r, q1)
<1> DEFINE q == [request[r] EXCEPT !.gone = log]
<1>1. Sound(request[r]) /\ request[r].outcome = "running" /\ NextIs(r, "log")
  BY RunningIsSound DEF ReadTheLog
<1>2. Prepared(r, q) /\ DOMAIN q = Fields
  BY <1>1 DEF Prepared, Same, Sound, Fields
<1>3. Becomes(r, Advanced(q)) /\ UNCHANGED tokens
  BY DEF ReadTheLog
<1> HIDE DEF q
<1>4. Went(r, q, Advanced(q))
  BY <1>2, AdvancedMoves DEF Went
<1>5. QED
  BY <1>1, <1>2, <1>3, <1>4, DidQuietly

LEMMA CompareDid ==
  ASSUME SoundState, NEW r \in Requests, CompareRows(r)
  PROVE  \E q1 : Did(r, q1)
<1> DEFINE q    == request[r]
           late == [q EXCEPT !.seen = version]
<1>1. Sound(q) /\ q.outcome = "running" /\ NextIs(r, "compare") /\ Prepared(r, q) /\ DOMAIN q = Fields
  BY RunningIsSound DEF CompareRows
<1>2. Prepared(r, late) /\ DOMAIN late = Fields
  BY <1>1 DEF Prepared, Same, Sound, Fields
<1>3. PICK q1 \in {Ended(late, "refused"), Advanced(q)} : Becomes(r, q1)
  BY DEF CompareRows
<1>4. UNCHANGED tokens
  BY DEF CompareRows
<1> HIDE DEF late
<1>5. Went(r, late, Ended(late, "refused")) /\ Went(r, q, Advanced(q))
  BY <1>1, <1>2, EndedStops, AdvancedMoves DEF Went, Outcomes
<1> HIDE DEF q
<1>6. QED
  BY <1>1, <1>2, <1>3, <1>4, <1>5, DidQuietly

LEMMA ValidateDid ==
  ASSUME SoundState, NEW r \in Requests, Validate(r)
  PROVE  \E q1 : Did(r, q1)
<1> DEFINE q       == request[r]
           skipped == {o \in On(r) : row[o] # q.base[o]} \cup q.invalid
           rest    == On(r) \ skipped
           less    == [q EXCEPT !.steps = Narrowed(@, rest)]
<1>1. Sound(q) /\ q.outcome = "running" /\ NextIs(r, "validate") /\ Prepared(r, q) /\ DOMAIN q = Fields
  BY RunningIsSound DEF Validate
<1>2. PICK q1 \in {Ended(q, "answered"), Advanced(less)} : Becomes(r, q1)
  BY DEF Validate
<1>3. UNCHANGED tokens
  BY DEF Validate
<1> HIDE DEF rest
<1>4. Prepared(r, less) /\ DOMAIN less = Fields
  BY <1>1 DEF Prepared, Same, Sound, Fields
<1> HIDE DEF less
<1>5. Went(r, q, Ended(q, "answered")) /\ Went(r, less, Advanced(less))
  BY <1>1, <1>4, EndedStops, AdvancedMoves DEF Went, MayStopEarly, NextIs
<1> HIDE DEF q
<1>6. QED
  BY <1>1, <1>2, <1>3, <1>4, <1>5, DidQuietly

LEMMA FindTokenDid ==
  ASSUME SoundState, NEW r \in Requests, FindToken(r)
  PROVE  \E q1 : Did(r, q1)
<1> DEFINE q == request[r]
<1>1. NextIs(r, "find token") /\ Prepared(r, q) /\ DOMAIN q = Fields
  BY RunningIsSound DEF FindToken
<1>2. PICK q1 \in {Ended(q, "duplicate"), Advanced(q)} : Becomes(r, q1)
  BY DEF FindToken
<1>3. Went(r, q, Ended(q, "duplicate")) /\ Went(r, q, Advanced(q))
  BY <1>1, EndedStops, AdvancedMoves DEF Went, Outcomes
<1>4. UNCHANGED tokens
  BY DEF FindToken
<1>5. Went(r, q, q1) /\ ~NextIs(r, "store") /\ tokens \subseteq tokens'
  BY <1>1, <1>2, <1>3, <1>4 DEF NextIs
<1> HIDE DEF q
<1>6. Did(r, q1)
  BY <1>1, <1>2, <1>5 DEF Did
<1>7. QED
  BY <1>6

LEMMA ClaimDid ==
  ASSUME SoundState, NEW r \in Requests, ClaimVersion(r)
  PROVE  \E q1 : Did(r, q1)
<1> DEFINE q    == request[r]
           late == [q EXCEPT !.seen = version]
<1>1. Sound(q) /\ q.outcome = "running" /\ NextIs(r, "claim") /\ Prepared(r, q) /\ DOMAIN q = Fields
  BY RunningIsSound DEF ClaimVersion
<1>2. Prepared(r, late) /\ DOMAIN late = Fields
  BY <1>1 DEF Prepared, Same, Sound, Fields
<1>3. PICK q1 \in {Ended(late, "refused"), Advanced(q)} : Becomes(r, q1)
  BY DEF ClaimVersion
<1>4. tokens \subseteq tokens'
  BY DEF ClaimVersion
<1> HIDE DEF late
<1>5. Went(r, late, Ended(late, "refused")) /\ Went(r, q, Advanced(q))
  BY <1>1, <1>2, EndedStops, AdvancedMoves DEF Went, Outcomes
<1>6. ~NextIs(r, "store")
  BY <1>1 DEF NextIs
<1> HIDE DEF q
<1>7. Did(r, q1)
  BY <1>1, <1>2, <1>3, <1>4, <1>5, <1>6 DEF Did
<1>8. QED
  BY <1>7

LEMMA NumberingsOf ==
  ASSUME NEW on, Cardinality(on) \in Nat, NEW from \in Nat, NEW one \in BOOLEAN,
         NEW mine \in Numberings(on, from, one)
  PROVE  /\ DOMAIN mine = on
         /\ \A o \in on : mine[o] \in from + 1 .. from + (IF one THEN 1 ELSE Cardinality(on))
<1>1. CASE one
  BY <1>1 DEF Numberings
<1>2. CASE ~one
  BY <1>2 DEF Numberings
<1>3. QED
  BY <1>1, <1>2

LEMMA ReserveDid ==
  ASSUME SoundState, NEW r \in Requests, ReserveVersions(r)
  PROVE  \E q1 : Did(r, q1)
<1> DEFINE q    == request[r]
           late == [q EXCEPT !.seen = version]
           one  == "one" \in Rules(r)
<1>1. /\ Sound(q) /\ q.outcome = "running" /\ NextIs(r, "reserve") /\ Prepared(r, q)
      /\ DOMAIN q = Fields /\ On(r) \subseteq Objects /\ Cardinality(On(r)) \in Nat
  BY RunningIsSound DEF ReserveVersions
<1>2. UNCHANGED tokens
  BY DEF ReserveVersions
<1>3. CASE Becomes(r, Ended(late, "refused")) /\ UNCHANGED version
  <2>1. Prepared(r, late) /\ DOMAIN late = Fields
    BY <1>1 DEF Prepared, Same, Sound, Fields
  <2> HIDE DEF late
  <2>2. Went(r, late, Ended(late, "refused"))
    BY <2>1, EndedStops DEF Went, Outcomes
  <2>3. QED
    BY <1>1, <1>2, <1>3, <2>1, <2>2, DidQuietly
<1>4. ASSUME version' = version + (IF one THEN 1 ELSE Cardinality(On(r))),
             NEW mine \in Numberings(On(r), version, one),
             Becomes(r, Advanced([q EXCEPT !.mine = mine]))
      PROVE  \E q1 : Did(r, q1)
  <2> DEFINE numbered == [q EXCEPT !.mine = mine]
  <2>1. /\ DOMAIN numbered = Fields /\ Same(q, numbered) /\ numbered.outcome = "running"
        /\ numbered.steps = q.steps /\ numbered.seen = q.seen /\ numbered.base = q.base
        /\ numbered.mine = mine /\ numbered.late = q.late /\ numbered.below = q.below
    BY <1>1 DEF Same, Fields
  <2>2. DOMAIN mine \subseteq Objects /\ \A o \in DOMAIN mine : mine[o] \in (version + 1) .. version'
    <3>1. version \in Nat /\ one \in BOOLEAN
      BY DEF SoundState
    <3> HIDE DEF one
    <3>2. QED
      BY <1>1, <1>4, <3>1, NumberingsOf
  <2> HIDE DEF numbered
  <2>3. Prepared(r, numbered)
    BY <1>1, <2>1, <2>2 DEF Prepared, Sound
  <2>4. Went(r, numbered, Advanced(numbered))
    BY <2>1, AdvancedMoves DEF Went
  <2>5. Becomes(r, Advanced(numbered))
    BY <1>4 DEF numbered
  <2>6. QED
    BY <1>1, <1>2, <2>3, <2>4, <2>5, DidQuietly
<1>5. QED
  BY <1>3, <1>4 DEF ReserveVersions

LEMMA StoreDid ==
  ASSUME SoundState, NEW r \in Requests, StoreRows(r)
  PROVE  \E q1 : Did(r, q1)
<1> DEFINE q == request[r]
<1>1. NextIs(r, "store") /\ Prepared(r, q) /\ DOMAIN q = Fields
  BY RunningIsSound DEF StoreRows
<1>2. CASE Becomes(r, Ended(q, "failed")) /\ tokens' = tokens
  <2>1. Stops(q, Ended(q, "failed"), "failed")
    BY <1>1, EndedStops
  <2>2. Went(r, q, Ended(q, "failed")) /\ Ended(q, "failed").outcome = "failed"
    BY <2>1 DEF Went, Outcomes, Stops
  <2> HIDE DEF q
  <2>3. Did(r, Ended(q, "failed"))
    BY <1>1, <1>2, <2>2 DEF Did
  <2>4. QED
    BY <2>3
<1>3. CASE /\ UsesToken(r) => q.token \notin tokens
           /\ tokens' = IF UsesToken(r) THEN tokens \cup {q.token} ELSE tokens
           /\ Becomes(r, Advanced(q))
  <2>1. Went(r, q, Advanced(q))
    BY <1>1, AdvancedMoves DEF Went
  <2>2. Did(r, Advanced(q))
    BY <1>1, <1>3, <2>1 DEF Did
  <2>3. QED
    BY <2>2
<1>4. QED
  BY <1>2, <1>3 DEF StoreRows, UsesToken, TokenFree

LEMMA WalkUpDid ==
  ASSUME SoundState, NEW r \in Requests, WalkUp(r)
  PROVE  \E q1 : Did(r, q1)
<1>1. PICK below \in SUBSET On(r) :
         Becomes(r, Advanced([request[r] EXCEPT !.below = [o \in below |-> row[o]]]))
  BY DEF WalkUp
<1> DEFINE q == [request[r] EXCEPT !.below = [o \in below |-> row[o]]]
<1>2. /\ Sound(request[r]) /\ request[r].outcome = "running" /\ NextIs(r, "walk")
      /\ On(r) \subseteq Objects /\ DOMAIN request[r] = Fields
  BY RunningIsSound DEF WalkUp
<1>3. /\ DOMAIN q = Fields /\ q.outcome = "running" /\ q.steps = request[r].steps
      /\ q.seen = request[r].seen /\ q.base = request[r].base /\ q.mine = request[r].mine
      /\ q.late = request[r].late /\ q.below = [o \in below |-> row[o]]
      /\ Same(request[r], q)
  BY <1>2 DEF Same, Fields
<1> HIDE DEF q
<1>4. \A o \in DOMAIN q.below : o \in Objects /\ q.below[o] = row[o]
  BY <1>2, <1>3
<1>5. Prepared(r, q)
  BY <1>2, <1>3, <1>4 DEF Prepared, Sound
<1>6. Went(r, q, Advanced(q))
  BY <1>3, AdvancedMoves DEF Went
<1>7. Becomes(r, Advanced(q)) /\ UNCHANGED tokens
  BY <1>1 DEF WalkUp, q
<1>8. QED
  BY <1>2, <1>5, <1>6, <1>7, DidQuietly

LEMMA EraseItemsDid ==
  ASSUME SoundState, NEW r \in Requests, EraseItems(r)
  PROVE  \E q1 : Did(r, q1)
<1> DEFINE q == [request[r] EXCEPT !.late = @ \/ request[r].seen # version]
<1>1. Sound(request[r]) /\ request[r].outcome = "running" /\ NextIs(r, "erase items")
  BY RunningIsSound DEF EraseItems
<1>2. /\ DOMAIN q = Fields /\ q.outcome = "running" /\ q.steps = request[r].steps
      /\ q.seen = request[r].seen /\ q.base = request[r].base /\ q.mine = request[r].mine
      /\ q.late = (request[r].late \/ request[r].seen # version) /\ q.below = request[r].below
      /\ Same(request[r], q)
  BY <1>1 DEF Same, Fields, Sound
<1>3. Becomes(r, Advanced(q)) /\ UNCHANGED tokens
  BY DEF EraseItems
<1> HIDE DEF q
<1>4. q.late \in BOOLEAN /\ (request[r].late => q.late)
  <2>1. request[r].late = TRUE \/ request[r].late = FALSE
    BY <1>1 DEF Sound
  <2>2. CASE request[r].late = TRUE
    BY <1>2, <2>2
  <2>3. CASE request[r].late = FALSE
    BY <1>2, <2>3
  <2>4. QED
    BY <2>1, <2>2, <2>3
<1>5. Prepared(r, q)
  BY <1>1, <1>2, <1>4 DEF Prepared, Sound
<1>6. Went(r, q, Advanced(q))
  BY <1>2, AdvancedMoves DEF Went
<1> DEFINE q1 == Advanced(q)
<1>7. Went(r, q, q1) /\ Becomes(r, q1) /\ UNCHANGED tokens
  BY <1>3, <1>6
<1> HIDE DEF q1
<1>8. NextIs(r, "erase items") /\ "erase items" # "store"
  BY <1>1
<1>9. Did(r, q1)
  BY <1>5, <1>7, <1>8, DidQuietly
<1>10. QED
  BY <1>9

(* A query that writes, and goes on.                                       *)
LEMMA AdvancedDid ==
  ASSUME SoundState, NEW r \in Requests, NEW do, NextIs(r, do), do # "store",
         Becomes(r, Advanced(request[r])), UNCHANGED tokens
  PROVE  \E q1 : Did(r, q1)
<1>1. Prepared(r, request[r]) /\ DOMAIN request[r] = Fields
  BY RunningIsSound
<1>2. Went(r, request[r], Advanced(request[r]))
  BY <1>1, AdvancedMoves DEF Went
<1>3. QED
  BY <1>1, <1>2, DidQuietly

LEMMA DieDid ==
  ASSUME SoundState, NEW r \in Requests, Die(r)
  PROVE  \E q1 : Did(r, q1)
<1> DEFINE q == request[r]
<1>1. Sound(q) /\ q.outcome = "running" /\ DOMAIN q = Fields
  BY DEF SoundState, Sound, Die, Underway
<1>2. Prepared(r, q)
  BY <1>1 DEF Prepared, Same, Sound
<1>3. Stops(q, Ended(q, "died"), "died")
  BY <1>1, EndedStops
<1>4. Went(r, q, Ended(q, "died")) /\ Ended(q, "died").outcome = "died"
  BY <1>3 DEF Went, Outcomes, Stops
<1>5. Becomes(r, Ended(q, "died")) /\ tokens' = tokens
  BY DEF Die
<1> HIDE DEF q
<1>6. Did(r, Ended(q, "died"))
  BY <1>2, <1>4, <1>5 DEF Did
<1>7. QED
  BY <1>6

LEMMA QueryDid ==
  ASSUME SoundState, NEW r \in Requests, Query(r) \/ Die(r)
  PROVE  \E q1 : Did(r, q1)
<1>1. CASE DropCollections(r)
  BY <1>1, AdvancedDid DEF DropCollections
<1>2. CASE EraseRows(r)
  BY <1>2, AdvancedDid DEF EraseRows
<1>3. CASE MoveUp(r)
  BY <1>3, AdvancedDid DEF MoveUp
<1>4. CASE LogTag(r)
  BY <1>4, AdvancedDid DEF LogTag
<1>5. QED
  BY <1>1, <1>2, <1>3, <1>4, ReadVersionDid, ReadRowsDid, ReadLogDid, CompareDid, ValidateDid,
     FindTokenDid, ClaimDid, ReserveDid, StoreDid, WalkUpDid, EraseItemsDid, DieDid DEF Query

(* A library that is in turn after a step was so before. *)
LEMMA TurnsStay ==
  ASSUME SoundState, NEW r \in Requests, Begin(r) \/ Query(r) \/ Die(r), InTurn'
  PROVE  InTurn
<1> SUFFICES ASSUME NEW s \in Requests PROVE ~request[s].late
  BY DEF InTurn
<1>1. ~request'[s].late
  BY DEF InTurn
<1>2. CASE Begin(r)
  <2>1. CASE s = r
    BY <1>2, <2>1 DEF SoundState, Sound, Begin
  <2>2. CASE s # r
    <3>1. \E met : request'[s] = [request[s] EXCEPT !.met = met]
      BY <1>2, <2>2 DEF Begin
    <3>2. request'[s].late = request[s].late
      BY <3>1 DEF SoundState, Sound, Fields
    <3>3. QED
      BY <1>1, <3>2
  <2>3. QED
    BY <2>1, <2>2
<1>3. CASE Query(r) \/ Die(r)
  <2>1. PICK q1 : Did(r, q1)
    BY <1>3, QueryDid
  <2>2. PICK q0 : Prepared(r, q0) /\ Went(r, q0, q1)
    BY <2>1 DEF Did
  <2>3. q1.late = q0.late
    BY <2>2 DEF Went, Moves, Stops, GoesOn
  <2>4. request[r].late => q1.late
    BY <2>2, <2>3 DEF Prepared
  <2>5. request' = [request EXCEPT ![r] = q1] /\ DOMAIN request = Requests
    BY <2>1 DEF Did, Becomes, SoundState
  <2>6. CASE s = r
    BY <1>1, <2>4, <2>5, <2>6
  <2>7. CASE s # r
    BY <1>1, <2>5, <2>7
  <2>8. QED
    BY <2>6, <2>7
<1>4. QED
  BY <1>2, <1>3

(* -------------------------- type correctness --------------------------- *)

LEMMA TailGoesOn ==
  ASSUME NEW steps \in Seq(Steps), steps # <<>>, Len(steps) # 1
  PROVE  Tail(steps) \in Seq(Steps) /\ Tail(steps) # <<>>
<1>1. /\ Tail(steps) \in Seq(Steps) /\ Len(Tail(steps)) = Len(steps) - 1
      /\ Len(steps) \in Nat /\ Len(steps) > 0
  BY HeadTailProperties, EmptySeq
<1>2. Len(Tail(steps)) # Len(<<>>)
  BY <1>1
<1>3. QED
  BY <1>1, <1>2

(* Sound, with a version that may be a later one. *)
SoundAt(q, v, turn) ==
  /\ DOMAIN q = Fields
  /\ q.outcome \in Outcomes
  /\ q.steps \in Seq(Steps)
  /\ (q.outcome = "running") <=> (q.steps # <<>>)
  /\ q.outcome # "running" => q.mine = Nothing
  /\ DOMAIN q.mine \subseteq Objects /\ DOMAIN q.base \subseteq Objects
  /\ \A o \in DOMAIN q.mine : q.mine[o] \in Nat \ {0} /\ (turn => q.mine[o] <= v)
  /\ q.seen \in Nat
  /\ q.late \in BOOLEAN
  /\ q.outcome = "waiting" => ~q.late

LEMMA SoundOn ==
  ASSUME SoundState, NEW r \in Requests, NEW q1, Did(r, q1),
         version' \in Nat, InTurn' => InTurn /\ version' >= version
  PROVE  SoundState'
<1> DEFINE q == request[r]
<1>1. Sound(q) /\ version \in Nat
  BY DEF SoundState
<1>2. PICK q0 : Prepared(r, q0) /\ Went(r, q0, q1)
  BY DEF Did
<1>3. /\ Same(q, q0) /\ q0.outcome = "running" /\ q0.seen \in Nat
      /\ DOMAIN q0.base \subseteq Objects /\ DOMAIN q0.mine \subseteq Objects
      /\ q0.late \in BOOLEAN
  BY <1>1, <1>2 DEF Prepared, Sound
<1>4. q0.steps \in Seq(Steps) /\ q0.steps # <<>>
  <2>1. PICK found : q0.steps \in {q.steps, Narrowed(q.steps, found)}
    BY <1>2 DEF Prepared
  <2>2. q.steps \in Seq(Steps) /\ q.steps # <<>>
    BY <1>1, <1>2 DEF Sound, Prepared
  <2>3. QED
    BY <2>1, <2>2, NarrowedIsSteps
<1>5. \A o \in DOMAIN q0.mine : q0.mine[o] \in Nat \ {0} /\ (InTurn' => q0.mine[o] <= version')
  <2>1. CASE q0.mine = q.mine
    BY <1>1, <2>1 DEF Sound
  <2>2. CASE \A o \in DOMAIN q0.mine : q0.mine[o] \in (version + 1) .. version'
    BY <1>1, <2>2
  <2>3. QED
    BY <1>2, <2>1, <2>2 DEF Prepared
<1>6. ASSUME NEW outcome \in Outcomes \ {"waiting", "running"}, Stops(q0, q1, outcome)
      PROVE  SoundAt(q1, version', InTurn')
  <2>1. DOMAIN Nothing = {}
    BY DEF Nothing
  <2>2. q1.steps \in Seq(Steps) /\ q1.steps = <<>> /\ q1.mine = Nothing /\ q1.outcome = outcome
        /\ q1.late = q0.late
    BY <1>6, NoStep DEF Stops
  <2>3. DOMAIN q1.base \subseteq Objects /\ q1.seen \in Nat /\ DOMAIN q1 = Fields
    BY <1>3, <1>6, <2>1 DEF Stops, Same
  <2>4. QED
    BY <1>3, <2>1, <2>2, <2>3 DEF SoundAt
<1>7. ASSUME Len(q0.steps) # 1, GoesOn(q0, q1)
      PROVE  SoundAt(q1, version', InTurn')
  <2>1. q1.steps \in Seq(Steps) /\ q1.steps # <<>>
    BY <1>4, <1>7, TailGoesOn DEF GoesOn
  <2>2. /\ q1.outcome = "running" /\ q1.mine = q0.mine /\ q1.base = q0.base
        /\ q1.seen = q0.seen /\ DOMAIN q1 = Fields /\ q1.late = q0.late
    BY <1>3, <1>7 DEF GoesOn, Same
  <2>3. \A o \in DOMAIN q1.mine : q1.mine[o] \in Nat \ {0} /\ (InTurn' => q1.mine[o] <= version')
    BY <1>5, <2>2
  <2>4. DOMAIN q1.mine \subseteq Objects /\ DOMAIN q1.base \subseteq Objects /\ q1.seen \in Nat
    BY <1>3, <2>2
  <2>5. q1.outcome \in Outcomes /\ ((q1.outcome = "running") <=> (q1.steps # <<>>))
    BY <2>1, <2>2 DEF Outcomes
  <2>6. QED
    BY <1>3, <2>1, <2>2, <2>3, <2>4, <2>5 DEF SoundAt
<1>8. SoundAt(q1, version', InTurn')
  <2>a. "answered" \in Outcomes \ {"waiting", "running"}
    BY DEF Outcomes
  <2>1. CASE Moves(q0, q1)
    BY <1>6, <1>7, <2>1, <2>a DEF Moves
  <2>2. CASE Stops(q0, q1, "answered")
    BY <1>6, <2>2, <2>a
  <2>3. CASE \E outcome \in Outcomes \ {"waiting", "running", "answered"} : Stops(q0, q1, outcome)
    BY <1>6, <2>3
  <2>4. QED
    BY <1>2, <2>1, <2>2, <2>3 DEF Went
<1>9. ASSUME NEW s \in Requests, s # r PROVE SoundAt(request[s], version', InTurn')
  <2>1. Sound(request[s])
    BY DEF SoundState
  <2>2. QED
    BY <1>1, <2>1 DEF Sound, SoundAt
<1>10. request' = [request EXCEPT ![r] = q1] /\ DOMAIN request = Requests
  BY DEF Did, Becomes, SoundState
<1>11. \A s \in Requests : SoundAt(request'[s], version', InTurn')
  BY <1>8, <1>9, <1>10
<1>12. QED
  BY <1>10, <1>11 DEF SoundState, Sound, SoundAt

LEMMA BeginIsSound ==
  ASSUME SoundState, NEW r \in Requests, Begin(r)
  PROVE  SoundState' /\ request'[r].below = Nothing
<1>1. PICK shape \in Shapes[r] :
       request' = [s \in Requests |->
         IF s = r
         THEN [Idle EXCEPT
                 !.op      = shape.op,
                 !.keys    = shape.keys,
                 !.token   = shape.token,
                 !.invalid = shape.invalid,
                 !.header  = IF shape.conditional THEN version ELSE NoHeader,
                 !.steps   = Program(shape),
                 !.outcome = "running",
                 !.met     = {s2 \in Requests : Underway(s2)},
                 !.calm    = \A s2 \in Requests : ~Writing(s2)]
         ELSE [request[s] EXCEPT !.met = IF Underway(s) /\ request[s].op # "list items"
                                         THEN @ \cup {r} ELSE @]]
  BY DEF Begin
<1>2. version' = version /\ version \in Nat
  BY DEF Begin, SoundState
<1>3. Runs(Program(shape))
  BY ServerAssumption, ProgramRuns DEF AllShapes
<1>t. InTurn' => InTurn
  BY TurnsStay
<1>4. SoundAt(request'[r], version, InTurn')
  <2>1. /\ DOMAIN request'[r] = Fields /\ request'[r].steps = Program(shape)
        /\ request'[r].outcome = "running" /\ request'[r].mine = Nothing
        /\ request'[r].base = Nothing /\ request'[r].seen = 0 /\ request'[r].late = FALSE
        /\ request'[r].below = Nothing
    BY <1>1 DEF Idle, Fields
  <2>2. DOMAIN Nothing = {}
    BY DEF Nothing
  <2> DEFINE q == request'[r]
  <2>3. /\ q.outcome \in Outcomes /\ q.steps \in Seq(Steps) /\ q.steps # <<>> /\ q.seen \in Nat
        /\ q.outcome = "running" /\ q.outcome # "waiting" /\ q.late \in BOOLEAN
        /\ DOMAIN q.mine = {} /\ DOMAIN q.base = {} /\ DOMAIN q = Fields
    <3>1. /\ q.outcome = "running" /\ q.mine = Nothing /\ q.base = Nothing /\ q.seen = 0
          /\ q.late = FALSE /\ q.steps = Program(shape) /\ DOMAIN q = Fields
      BY <2>1
    <3> HIDE DEF q
    <3>2. q.outcome \in Outcomes /\ q.outcome = "running" /\ q.outcome # "waiting"
      BY <3>1 DEF Outcomes
    <3>3. q.steps \in Seq(Steps) /\ q.steps # <<>> /\ q.seen \in Nat
      BY <1>3, <3>1 DEF Runs
    <3>4. q.late \in BOOLEAN
      BY <3>1
    <3>5. DOMAIN q.mine = {} /\ DOMAIN q.base = {}
      BY <2>2, <3>1
    <3>6. QED
      BY <3>1, <3>2, <3>3, <3>4, <3>5
  <2> HIDE DEF q
  <2>4. SoundAt(q, version, InTurn')
    BY <2>3 DEF SoundAt
  <2>5. QED
    BY <2>4 DEF q
<1>b. request'[r].below = Nothing
  BY <1>1 DEF Idle
<1>5. ASSUME NEW s \in Requests, s # r PROVE SoundAt(request'[s], version, InTurn')
  <2>1. Sound(request[s])
    BY DEF SoundState
  <2>2. \E met : request'[s] = [request[s] EXCEPT !.met = met]
    BY <1>1, <1>5
  <2>3. /\ DOMAIN request'[s] = Fields /\ request'[s].outcome = request[s].outcome
        /\ request'[s].steps = request[s].steps /\ request'[s].mine = request[s].mine
        /\ request'[s].base = request[s].base /\ request'[s].seen = request[s].seen
        /\ request'[s].late = request[s].late
    BY <2>1, <2>2 DEF Sound, Fields
  <2>4. QED
    BY <1>t, <2>1, <2>3 DEF Sound, SoundAt
<1>6. DOMAIN request' = Requests
  BY <1>1
<1>7. \A s \in Requests : SoundAt(request'[s], version', InTurn')
  BY <1>2, <1>4, <1>5
<1>8. QED
  BY <1>2, <1>6, <1>7, <1>b DEF SoundState, Sound, SoundAt

(* A deletion of items that leaves the library in turn is numbered by its  *)
(* version.                                                                *)
LEMMA ErasedInTurn ==
  ASSUME SoundState, NEW r \in Requests, EraseItems(r), InTurn'
  PROVE  request[r].seen = version
<1> DEFINE q == [request[r] EXCEPT !.late = @ \/ request[r].seen # version]
<1>1. DOMAIN q = Fields /\ q.late = (request[r].late \/ request[r].seen # version)
  BY DEF SoundState, Sound, Fields
<1>2. Becomes(r, Advanced(q)) /\ DOMAIN request = Requests
  BY DEF EraseItems, SoundState
<1> HIDE DEF q
<1>3. Advanced(q).late = q.late
  BY <1>1, AdvancedMoves DEF Moves, Stops, GoesOn
<1>4. ~request'[r].late /\ request'[r] = Advanced(q)
  BY <1>2 DEF InTurn, Becomes
<1>5. QED
  BY <1>1, <1>3, <1>4

(* What the queries do to the library itself.                              *)
LEMMA VersionGrows ==
  ASSUME SoundState, NEW r \in Requests, Begin(r) \/ Query(r) \/ Die(r)
  PROVE  version' \in Nat /\ (InTurn' => InTurn /\ version' >= version)
<1>1. version \in Nat /\ (InTurn' => InTurn)
  BY TurnsStay DEF SoundState
<1>2. CASE ReserveVersions(r)
  <2>1. Cardinality(On(r)) \in Nat
    BY <1>2, RunningIsSound DEF ReserveVersions
  <2>2. version' = version \/ version' = version + 1 \/ version' = version + Cardinality(On(r))
    BY <1>2 DEF ReserveVersions
  <2>3. QED
    BY <1>1, <2>1, <2>2
<1>3. CASE EraseItems(r)
  <2>1. request[r].seen \in Nat
    BY DEF SoundState, Sound
  <2>2. version' = request[r].seen + 1
    BY <1>3 DEF EraseItems, NextVersion
  <2>3. InTurn' => request[r].seen = version
    BY <1>3, ErasedInTurn
  <2>4. QED
    BY <1>1, <2>1, <2>2, <2>3
<1>4. ASSUME ~ReserveVersions(r), ~EraseItems(r) PROVE version' = version
  BY <1>4 DEF Begin, Query, Die, ReadTheVersion, ReadTheRows, ReadTheLog, CompareRows, Validate,
              FindToken, ClaimVersion, StoreRows, WalkUp, MoveUp, DropCollections, EraseRows, LogTag
<1>5. QED
  BY <1>1, <1>2, <1>3, <1>4

LEMMA SoundStep ==
  SoundState /\ [Next]_vars => SoundState'
<1> SUFFICES ASSUME SoundState, [Next]_vars PROVE SoundState'
  OBVIOUS
<1>1. CASE UNCHANGED vars
  BY <1>1 DEF vars, SoundState, Sound, InTurn
<1>2. ASSUME NEW r \in Requests, Begin(r) \/ Query(r) \/ Die(r) PROVE SoundState'
  <2>1. CASE Begin(r)
    BY <2>1, BeginIsSound
  <2>2. CASE Query(r) \/ Die(r)
    BY <2>2, QueryDid, VersionGrows, SoundOn
  <2>3. QED
    BY <1>2, <2>1, <2>2
<1>3. QED
  BY <1>1, <1>2 DEF Next

LEMMA SoundAtFirst ==
  ASSUME Init PROVE SoundState
<1>1. DOMAIN Nothing = {}
  BY DEF Nothing
<1>2. \A r \in Requests : request[r] = Idle /\ DOMAIN request = Requests
  BY DEF Init
<1>3. Sound(Idle)
  BY <1>1, NoStep DEF Idle, Sound, Fields, Outcomes
<1>4. version \in Nat /\ DOMAIN request = Requests
  BY DEF Init
<1>5. QED
  BY <1>2, <1>3, <1>4 DEF SoundState

LibraryTyped ==
  /\ row \in [Objects -> Rows]
  /\ log \subseteq [version : Nat, key : Objects \cup {Tag}, by : Requests]
  /\ crashes \in 0 .. MaxCrashes
  /\ \A r \in Requests : \A o \in DOMAIN request[r].below : request[r].below[o] \in Rows

LEMMA BelowTyped ==
  ASSUME SoundState, LibraryTyped, NEW r \in Requests, Begin(r) \/ Query(r) \/ Die(r),
         NEW s \in Requests, NEW o \in DOMAIN request'[s].below
  PROVE  request'[s].below[o] \in Rows
<1>1. \A p \in DOMAIN request[s].below : request[s].below[p] \in Rows
  BY DEF LibraryTyped
<1>2. DOMAIN Nothing = {}
  BY DEF Nothing
<1>3. CASE Begin(r)
  <2>1. CASE s = r
    <3>1. request'[s].below = Nothing
      BY <1>3, <2>1, BeginIsSound
    <3>2. QED
      BY <1>2, <3>1
  <2>2. CASE s # r
    <3>1. \E met : request'[s] = [request[s] EXCEPT !.met = met]
      BY <1>3, <2>2 DEF Begin
    <3>2. request'[s].below = request[s].below
      BY <3>1 DEF SoundState, Sound, Fields
    <3>3. QED
      BY <1>1, <3>2
  <2>3. QED
    BY <2>1, <2>2
<1>4. CASE Query(r) \/ Die(r)
  <2>1. PICK q1 : Did(r, q1)
    BY <1>4, QueryDid
  <2>2. PICK q0 : Prepared(r, q0) /\ Went(r, q0, q1)
    BY <2>1 DEF Did
  <2>3. q1.below = Nothing \/ q1.below = q0.below
    BY <2>2 DEF Went, Moves, Stops, GoesOn
  <2>4. request' = [request EXCEPT ![r] = q1] /\ DOMAIN request = Requests
    BY <2>1 DEF Did, Becomes, SoundState
  <2>5. \A p \in DOMAIN q0.below : \/ p \in Objects /\ q0.below[p] = row[p]
                                  \/ /\ p \in DOMAIN request[r].below
                                     /\ q0.below[p] = request[r].below[p]
    BY <2>2 DEF Prepared
  <2>6. \A p \in Objects : row[p] \in Rows
    BY DEF LibraryTyped
  <2>7. CASE s = r
    BY <1>1, <1>2, <2>3, <2>4, <2>5, <2>6, <2>7
  <2>8. CASE s # r
    BY <1>1, <2>4, <2>8
  <2>9. QED
    BY <2>7, <2>8
<1>5. QED
  BY <1>3, <1>4

LEMMA RowsKept ==
  ASSUME NEW on, NEW new, row \in [Objects -> Rows],
         \A o \in Objects : o \in on => new[o] \in Rows,
         row' = [o \in Objects |-> IF o \in on THEN new[o] ELSE row[o]]
  PROVE  row' \in [Objects -> Rows]
<1> HIDE DEF Rows
<1>1. \A o \in Objects : (IF o \in on THEN new[o] ELSE row[o]) \in Rows
  OBVIOUS
<1>2. QED
  BY <1>1

LEMMA DeletionsTyped ==
  ASSUME NEW r \in Requests, NEW v, DOMAIN v \subseteq Objects, \A o \in DOMAIN v : v[o] \in Nat
  PROVE  Deletions(r, v) \subseteq [version : Nat, key : Objects \cup {Tag}, by : Requests]
  BY DEF Deletions

LEMMA LibraryStep ==
  ASSUME SoundState, LibraryTyped, NEW r \in Requests, Begin(r) \/ Query(r) \/ Die(r)
  PROVE  /\ row' \in [Objects -> Rows]
         /\ log' \subseteq [version : Nat, key : Objects \cup {Tag}, by : Requests]
         /\ crashes' \in 0 .. MaxCrashes
<1> DEFINE mine == request[r].mine
<1>1. DOMAIN mine \subseteq Objects /\ \A o \in DOMAIN mine : mine[o] \in Nat
  BY DEF SoundState, Sound
<1>2. NoRow \in Rows
  BY DEF NoRow, Rows
<1>3. CASE StoreRows(r)
  <2> DEFINE new == [o \in Objects |-> [version |-> mine[o], live |-> TRUE,
                                        edits |-> Edited(r, o), by |-> r]]
  <2>1. \A o \in Objects : o \in DOMAIN mine => new[o] \in Rows
    BY <1>1 DEF Rows, Edited
  <2>2. \/ row' = row
        \/ row' = [o \in Objects |-> IF o \in DOMAIN mine THEN new[o] ELSE row[o]]
    BY <1>3 DEF StoreRows
  <2> HIDE DEF new
  <2>3. row' \in [Objects -> Rows]
    BY <2>1, <2>2, RowsKept DEF LibraryTyped
  <2>4. UNCHANGED <<log, crashes>>
    BY <1>3 DEF StoreRows
  <2>5. QED
    BY <2>3, <2>4 DEF LibraryTyped
<1>4. CASE DropCollections(r)
  <2> DEFINE new == [o \in Objects |-> [row[o] EXCEPT !.live = FALSE]]
  <2>1. \A o \in Objects : o \in DOMAIN mine => new[o] \in Rows
    BY DEF Rows, LibraryTyped
  <2>2. row' = [o \in Objects |-> IF o \in DOMAIN mine THEN new[o] ELSE row[o]]
    BY <1>4 DEF DropCollections
  <2> HIDE DEF new
  <2>3. row' \in [Objects -> Rows]
    BY <2>1, <2>2, RowsKept DEF LibraryTyped
  <2>4. log' = log \cup Deletions(r, mine) /\ crashes' = crashes
    BY <1>4 DEF DropCollections
  <2>5. QED
    BY <1>1, <2>3, <2>4, DeletionsTyped DEF LibraryTyped
<1>5. CASE EraseRows(r)
  <2> DEFINE new == [o \in Objects |-> NoRow]
  <2>1. \A o \in Objects : o \in DOMAIN mine => new[o] \in Rows
    BY <1>2
  <2>2. row' = [o \in Objects |-> IF o \in DOMAIN mine THEN new[o] ELSE row[o]]
    BY <1>5 DEF EraseRows
  <2> HIDE DEF new
  <2>3. row' \in [Objects -> Rows]
    BY <2>1, <2>2, RowsKept DEF LibraryTyped
  <2>4. log' = log \cup Deletions(r, mine) /\ crashes' = crashes
    BY <1>5 DEF EraseRows
  <2>5. QED
    BY <1>1, <2>3, <2>4, DeletionsTyped DEF LibraryTyped
<1>6. CASE EraseItems(r)
  <2> DEFINE found == {o \in On(r) : request[r].base[o].live}
             next  == NextVersion(request[r].seen)
             new   == [o \in Objects |-> [version |-> next, live |-> FALSE,
                                          edits |-> row[o].edits, by |-> r]]
  <2>1. next \in Nat /\ found \subseteq Objects
    <3>1. request[r].seen \in Nat
      BY DEF SoundState, Sound
    <3>2. On(r) \subseteq Objects
      BY <1>6, RunningIsSound DEF EraseItems
    <3>3. QED
      BY <3>1, <3>2 DEF NextVersion
  <2>2. row' = [o \in Objects |-> IF o \in found THEN new[o] ELSE row[o]]
    BY <1>6 DEF EraseItems
  <2>3. log' = log \cup Deletions(r, [o \in found |-> next]) /\ crashes' = crashes
    BY <1>6 DEF EraseItems
  <2> HIDE DEF found, next
  <2>4. \A o \in Objects : o \in found => new[o] \in Rows
    BY <2>1 DEF Rows, LibraryTyped
  <2> HIDE DEF new
  <2>5. row' \in [Objects -> Rows]
    BY <2>2, <2>4, RowsKept DEF LibraryTyped
  <2>6. Deletions(r, [o \in found |-> next]) \subseteq [version : Nat, key : Objects \cup {Tag}, by : Requests]
    BY <2>1, DeletionsTyped
  <2>7. QED
    BY <2>3, <2>5, <2>6 DEF LibraryTyped
<1>7. CASE LogTag(r)
  <2>1. PICK v \in {mine[o] : o \in DOMAIN mine} :
           log' = log \cup {[version |-> v, key |-> Tag, by |-> r]}
    BY <1>7 DEF LogTag
  <2>2. v \in Nat
    BY <1>1, <2>1
  <2>3. UNCHANGED <<row, crashes>>
    BY <1>7 DEF LogTag
  <2>4. QED
    BY <2>1, <2>2, <2>3 DEF LibraryTyped
<1>8. CASE Die(r)
  <2>1. crashes \in 0 .. MaxCrashes /\ crashes < MaxCrashes /\ crashes' = crashes + 1
        /\ UNCHANGED <<row, log>>
    BY <1>8 DEF Die, LibraryTyped
  <2>2. MaxCrashes \in Nat
    BY ServerAssumption
  <2>3. crashes' \in 0 .. MaxCrashes
    BY <2>1, <2>2
  <2>4. QED
    BY <2>1, <2>3 DEF LibraryTyped
<1>m. CASE MoveUp(r)
  <2> DEFINE below == request[r].below
             moved == {o \in DOMAIN below : below[o].live}
  <2>1. PICK v \in {mine[o] : o \in DOMAIN mine} :
           row' = [o \in Objects |->
                     IF o \in moved
                     THEN [version |-> v, live |-> row[o].live,
                           edits |-> {r} \cup below[o].edits, by |-> r]
                     ELSE row[o]]
    BY <1>m DEF MoveUp
  <2>2. v \in Nat
    BY <1>1, <2>1
  <2> DEFINE new == [o \in Objects |-> [version |-> v, live |-> row[o].live,
                                        edits |-> {r} \cup below[o].edits, by |-> r]]
  <2>3. \A o \in Objects : o \in moved => new[o] \in Rows
    <3>1. \A o \in DOMAIN below : below[o] \in Rows
      BY DEF LibraryTyped
    <3>2. \A o \in Objects : row[o] \in Rows
      BY DEF LibraryTyped
    <3> HIDE DEF below
    <3>3. QED
      BY <2>2, <3>1, <3>2 DEF Rows
  <2>4. row' = [o \in Objects |-> IF o \in moved THEN new[o] ELSE row[o]]
    BY <2>1
  <2> HIDE DEF new, moved
  <2>5. row' \in [Objects -> Rows]
    BY <2>3, <2>4, RowsKept DEF LibraryTyped
  <2>6. UNCHANGED <<log, crashes>>
    BY <1>m DEF MoveUp
  <2>7. QED
    BY <2>5, <2>6 DEF LibraryTyped
<1>9. ASSUME ~StoreRows(r), ~MoveUp(r), ~DropCollections(r), ~EraseRows(r), ~EraseItems(r), ~LogTag(r), ~Die(r)
      PROVE  UNCHANGED <<row, log, crashes>>
  BY <1>9 DEF Begin, Query, ReadTheVersion, ReadTheRows, ReadTheLog, CompareRows, Validate,
              FindToken, ClaimVersion, ReserveVersions, WalkUp
<1>10. QED
  BY <1>3, <1>4, <1>5, <1>6, <1>7, <1>8, <1>m, <1>9 DEF LibraryTyped

LEMMA AlwaysSound == Spec => [](SoundState /\ LibraryTyped)
<1>1. Init => SoundState /\ LibraryTyped
  <2> SUFFICES ASSUME Init PROVE SoundState /\ LibraryTyped
    OBVIOUS
  <2>1. NoRow \in Rows /\ [NoRow EXCEPT !.version = 1, !.live = TRUE] \in Rows
    BY DEF NoRow, Rows
  <2> DEFINE first(o) == IF o \in Present THEN [NoRow EXCEPT !.version = 1, !.live = TRUE] ELSE NoRow
  <2>2. \A o \in Objects : first(o) \in Rows
    BY <2>1
  <2>3. row = [o \in Objects |-> first(o)] /\ log = {} /\ crashes = 0
    BY DEF Init
  <2> HIDE DEF first
  <2>4. row \in [Objects -> Rows]
    BY <2>2, <2>3
  <2>m. MaxCrashes \in Nat
    BY ServerAssumption
  <2>s. 0 \in 0 .. MaxCrashes
    BY <2>m
  <2>b. \A r \in Requests : DOMAIN request[r].below = {}
    BY DEF Init, Idle, Nothing
  <2>5. LibraryTyped
    BY <2>3, <2>4, <2>s, <2>b DEF LibraryTyped
  <2>6. QED
    BY <2>5, SoundAtFirst
<1>2. SoundState /\ LibraryTyped /\ [Next]_vars => (SoundState /\ LibraryTyped)'
  <2> SUFFICES ASSUME SoundState, LibraryTyped, [Next]_vars PROVE LibraryTyped'
    BY SoundStep
  <2>1. CASE UNCHANGED vars
    BY <2>1 DEF vars, LibraryTyped
  <2>2. ASSUME NEW r \in Requests, Begin(r) \/ Query(r) \/ Die(r) PROVE LibraryTyped'
    <3>1. \A s \in Requests : \A o \in DOMAIN request'[s].below : request'[s].below[o] \in Rows
      BY <2>2, BelowTyped
    <3>2. QED
      BY <2>2, <3>1, LibraryStep DEF LibraryTyped
  <2>3. QED
    BY <2>1, <2>2 DEF Next
<1>3. QED
  BY <1>1, <1>2, PTL DEF Spec

(* Type correctness of the server's requests: ServerWrites.TypeOK.         *)
THEOREM RequestsAreTyped == Spec => []TypeOK
<1>1. SoundState /\ LibraryTyped => TypeOK
  <2> SUFFICES ASSUME SoundState, LibraryTyped PROVE TypeOK
    OBVIOUS
  <2>1. version \in Nat
    BY DEF SoundState
  <2>2. ASSUME NEW r \in Requests
        PROVE  LET q == request[r]
               IN  /\ q.outcome \in Outcomes
                   /\ (q.outcome = "running") = (q.steps # <<>>)
                   /\ q.outcome # "running" => q.mine = Nothing
                   /\ DOMAIN q.mine \cup DOMAIN q.base \subseteq Objects
                   /\ \A o \in DOMAIN q.mine : InTurn => q.mine[o] \in 1 .. version
    BY <2>1 DEF SoundState, Sound
  <2>3. QED
    BY <2>1, <2>2 DEF TypeOK, LibraryTyped
<1>2. QED
  BY AlwaysSound, <1>1, PTL

(* ---------------------------- write tokens ----------------------------- *)

(* Where in its program a batch uses its token: in a batch of rows, and it *)
(* is not answered before.                                                 *)
TokenLeft(steps) == \E n \in DOMAIN steps : "token" \in steps[n].rules

TokenLined(steps) ==
  \A n \in DOMAIN steps : "token" \in steps[n].rules =>
     steps[n].do = "store" /\ \A m \in 1 .. n : ~MayStopEarly(steps[m])

Plain(steps) ==
  \A n \in DOMAIN steps : "token" \notin steps[n].rules /\ ~MayStopEarly(steps[n])

LEMMA PlainThenPlain ==
  ASSUME NEW a \in Seq(Steps), NEW b \in Seq(Steps), Plain(a), Plain(b)
  PROVE  Plain(a \o b)
<1>1. /\ a \o b \in Seq(Steps) /\ Len(a \o b) = Len(a) + Len(b)
      /\ \A n \in 1 .. Len(a) + Len(b) :
            (a \o b)[n] = IF n <= Len(a) THEN a[n] ELSE b[n - Len(a)]
  BY ConcatProperties
<1>2. ASSUME NEW n \in DOMAIN (a \o b)
      PROVE  "token" \notin (a \o b)[n].rules /\ ~MayStopEarly((a \o b)[n])
  <2>1. n \in 1 .. Len(a) + Len(b)
    BY <1>1
  <2>2. CASE n <= Len(a)
    BY <1>1, <2>1, <2>2 DEF Plain
  <2>3. CASE n > Len(a)
    <3>1. n - Len(a) \in DOMAIN b /\ (a \o b)[n] = b[n - Len(a)]
      BY <1>1, <2>1, <2>3
    <3>2. QED
      BY <3>1 DEF Plain
  <2>4. QED
    BY <2>1, <2>2, <2>3
<1>3. QED
  BY <1>2 DEF Plain

LEMMA PlainThenToken ==
  ASSUME NEW a \in Seq(Steps), NEW step \in Steps, Plain(a),
         step.do = "store", ~MayStopEarly(step), "token" \in step.rules
  PROVE  TokenLined(a \o <<step>>) /\ TokenLeft(a \o <<step>>)
<1> DEFINE s == a \o <<step>>
<1>1. /\ s \in Seq(Steps) /\ Len(s) = Len(a) + 1 /\ Len(a) \in Nat
      /\ \A n \in 1 .. Len(a) : s[n] = a[n]
      /\ s[Len(a) + 1] = step
  OBVIOUS
<1> HIDE DEF s
<1>2. \A n \in 1 .. Len(a) : "token" \notin s[n].rules /\ ~MayStopEarly(s[n])
  BY <1>1 DEF Plain
<1>3. DOMAIN s = 1 .. Len(a) + 1
  BY <1>1
<1>4. TokenLeft(s)
  BY <1>1, <1>3 DEF TokenLeft
<1>5. ASSUME NEW n \in DOMAIN s, "token" \in s[n].rules
      PROVE  s[n].do = "store" /\ \A m \in 1 .. n : ~MayStopEarly(s[m])
  <2>1. n = Len(a) + 1
    BY <1>1, <1>2, <1>3, <1>5
  <2>2. \A m \in 1 .. n : m \in 1 .. Len(a) \/ m = Len(a) + 1
    BY <1>1, <2>1
  <2>3. QED
    BY <1>1, <1>2, <2>1, <2>2
<1>6. QED
  BY <1>4, <1>5 DEF s, TokenLined

LEMMA TokenThenNone ==
  ASSUME NEW a \in Seq(Steps), NEW b \in Seq(Steps), TokenLined(a), TokenLeft(a), ~TokenLeft(b)
  PROVE  TokenLined(a \o b) /\ TokenLeft(a \o b)
<1> DEFINE s == a \o b
<1>1. /\ s \in Seq(Steps) /\ Len(s) = Len(a) + Len(b) /\ Len(a) \in Nat /\ Len(b) \in Nat
      /\ \A n \in 1 .. Len(a) : s[n] = a[n]
      /\ \A n \in 1 .. Len(b) : s[n + Len(a)] = b[n]
  <2>1. /\ s \in Seq(Steps) /\ Len(s) = Len(a) + Len(b)
        /\ \A n \in 1 .. Len(a) + Len(b) : s[n] = IF n <= Len(a) THEN a[n] ELSE b[n - Len(a)]
    BY ConcatProperties
  <2>2. Len(a) \in Nat /\ Len(b) \in Nat
    OBVIOUS
  <2> HIDE DEF s
  <2>3. \A n \in 1 .. Len(b) : n + Len(a) \in 1 .. Len(a) + Len(b) /\ ~(n + Len(a) <= Len(a))
                               /\ n + Len(a) - Len(a) = n
    BY <2>2
  <2>4. QED
    BY <2>1, <2>2, <2>3
<1> HIDE DEF s
<1>2. DOMAIN s = 1 .. Len(a) + Len(b) /\ DOMAIN a = 1 .. Len(a) /\ DOMAIN b = 1 .. Len(b)
  BY <1>1
<1>3. TokenLeft(s)
  BY <1>1, <1>2 DEF TokenLeft
<1>4. ASSUME NEW n \in DOMAIN s, "token" \in s[n].rules
      PROVE  s[n].do = "store" /\ \A m \in 1 .. n : ~MayStopEarly(s[m])
  <2>1. n \in 1 .. Len(a)
    <3>1. CASE n > Len(a)
      <4>1. n - Len(a) \in 1 .. Len(b) /\ n = (n - Len(a)) + Len(a)
        BY <1>1, <1>2, <3>1
      <4>2. s[n] = b[n - Len(a)]
        BY <1>1, <4>1
      <4>3. QED
        BY <1>2, <1>4, <4>1, <4>2 DEF TokenLeft
    <3>2. QED
      BY <1>1, <1>2, <3>1
  <2>2. \A m \in 1 .. n : m \in 1 .. Len(a)
    BY <1>1, <2>1
  <2>3. QED
    BY <1>1, <1>2, <1>4, <2>1, <2>2 DEF TokenLined
<1>5. QED
  BY <1>3, <1>4 DEF s, TokenLined

LEMMA OnePlain ==
  ASSUME NEW step \in Steps, "token" \notin step.rules, ~MayStopEarly(step)
  PROVE  Plain(<<step>>)
  BY DEF Plain

LEMMA PlainStep ==
  ASSUME NEW do \in Queries, NEW on \in SUBSET Objects, NEW rules \in SUBSET AllRules,
         "token" \notin rules, "some" \notin rules, do # "validate"
  PROVE  Plain(<<Step(do, on, rules)>>) /\ <<Step(do, on, rules)>> \in Seq(Steps)
<1>1. Step(do, on, rules) \in Steps
  BY StepIsStep
<1>2. Step(do, on, rules).do = do /\ Step(do, on, rules).rules = rules
  BY DEF Step
<1>3. QED
  BY <1>1, <1>2, OnePlain DEF MayStopEarly

LEMMA NoneThenNone ==
  ASSUME NEW a \in Seq(Steps), NEW b \in Seq(Steps), ~TokenLeft(a), ~TokenLeft(b)
  PROVE  ~TokenLeft(a \o b)
<1>1. /\ a \o b \in Seq(Steps) /\ Len(a \o b) = Len(a) + Len(b)
      /\ \A n \in 1 .. Len(a) + Len(b) :
            (a \o b)[n] = IF n <= Len(a) THEN a[n] ELSE b[n - Len(a)]
  BY ConcatProperties
<1>2. ASSUME NEW n \in DOMAIN (a \o b)
      PROVE  "token" \notin (a \o b)[n].rules
  <2>1. n \in 1 .. Len(a) + Len(b)
    BY <1>1
  <2>2. CASE n <= Len(a)
    BY <1>1, <2>1, <2>2 DEF TokenLeft
  <2>3. CASE n > Len(a)
    <3>1. n - Len(a) \in DOMAIN b /\ (a \o b)[n] = b[n - Len(a)]
      BY <1>1, <2>1, <2>3
    <3>2. QED
      BY <3>1 DEF TokenLeft
  <2>4. QED
    BY <2>1, <2>2, <2>3
<1>3. QED
  BY <1>2 DEF TokenLeft

LEMMA PostItemsLined ==
  ASSUME NEW q \in AllShapes
  PROVE  TokenLined(PostItems(q)) /\ TokenLeft(PostItems(q))
<1> DEFINE on    == All(q)
           look  == IF q.token = NoToken THEN <<>> ELSE <<Step("find token", {}, {})>>
           store == Step("store", on, {"token"})
<1>1. on \in SUBSET Objects /\ Keys(q.related) \in SUBSET Objects
  BY KeysAreObjects DEF All, AllShapes
<1> HIDE DEF on
<1>2. Plain(ReadExactVersion) /\ ReadExactVersion \in Seq(Steps)
  <2>1. Step("version", {}, {"exact"}) \in Steps
    BY StepIsStep DEF Queries, AllRules
  <2>2. QED
    BY <2>1, OnePlain DEF ReadExactVersion, Step, MayStopEarly
<1>3. Plain(ReadRows(on)) /\ ReadRows(on) \in Seq(Steps)
  <2>1. Step("rows", on, {}) \in Steps
    BY <1>1, StepIsStep DEF Queries, AllRules
  <2>2. QED
    BY <2>1, OnePlain DEF ReadRows, Step, MayStopEarly
<1>4. Plain(look) /\ look \in Seq(Steps)
  <2>2. Plain(<<Step("find token", {}, {})>>) /\ <<Step("find token", {}, {})>> \in Seq(Steps)
    BY PlainStep DEF Queries
  <2>3. Plain(<<>>)
    BY DEF Plain
  <2>4. QED
    BY <2>2, <2>3, NoStep
<1> HIDE DEF look
<1>5. Plain(Claim(q, on)) /\ Claim(q, on) \in Seq(Steps)
  <2>1. /\ Step("claim", on, {}) \in Steps /\ Step("reserve", on, {"exact"}) \in Steps
        /\ Step("reserve", on, {}) \in Steps
    BY <1>1, StepIsStep DEF Queries, AllRules
  <2>2. /\ Plain(<<Step("claim", on, {})>>) /\ Plain(<<Step("reserve", on, {"exact"})>>)
        /\ Plain(<<Step("reserve", on, {})>>)
    BY <2>1, OnePlain DEF Step, MayStopEarly
  <2> DEFINE claim == Step("claim", on, {})
             exact == Step("reserve", on, {"exact"})
             any   == Step("reserve", on, {})
  <2>3. Plain(<<claim, exact>>) /\ <<claim, exact>> \in Seq(Steps) /\ <<any>> \in Seq(Steps)
    <3>1. /\ "token" \notin claim.rules /\ ~MayStopEarly(claim)
          /\ "token" \notin exact.rules /\ ~MayStopEarly(exact)
      BY DEF Step, MayStopEarly
    <3>2. claim \in Steps /\ exact \in Steps /\ any \in Steps
      BY <2>1
    <3> HIDE DEF claim, exact, any
    <3>3. QED
      BY <3>1, <3>2 DEF Plain
  <2>4. Claim(q, on) = IF q.conditional THEN <<claim, exact>> ELSE <<any>>
    BY DEF Claim, Reserve
  <2>5. Plain(<<any>>)
    BY <2>2
  <2> HIDE DEF claim, exact, any
  <2>6. QED
    BY <2>3, <2>4, <2>5
<1>6. SyncRelations(q) \in Seq(Steps) /\ ~TokenLeft(SyncRelations(q))
  <2> DEFINE rel    == Keys(q.related)
             target == Step("rows", rel, {"some"})
             num    == Step("reserve", rel, {})
             put    == Step("store", rel, {})
  <2>1. target \in Steps /\ num \in Steps /\ put \in Steps
    BY <1>1, StepIsStep DEF Queries, AllRules
  <2>2. "token" \notin target.rules /\ "token" \notin num.rules /\ "token" \notin put.rules
    BY DEF Step
  <2>3. SyncRelations(q) = IF q.related = <<>> THEN <<>> ELSE <<target>> \o <<num, put>>
    BY DEF SyncRelations, ReadTargets, Write
  <2> HIDE DEF target, num, put
  <2>4. <<target>> \in Seq(Steps) /\ <<num, put>> \in Seq(Steps)
    BY <2>1
  <2>t. ~TokenLeft(<<target>>) /\ ~TokenLeft(<<num, put>>)
    BY <2>2 DEF TokenLeft
  <2>5. ~TokenLeft(<<target>> \o <<num, put>>) /\ <<target>> \o <<num, put>> \in Seq(Steps)
    BY <2>4, <2>t, NoneThenNone, JoinedSteps
  <2>6. ~TokenLeft(<<>>)
    BY DEF TokenLeft
  <2>7. QED
    BY <2>3, <2>4, <2>5, <2>6, NoStep
<1>7. store \in Steps /\ store.do = "store" /\ ~MayStopEarly(store) /\ "token" \in store.rules
  <2>1. store \in Steps
    BY <1>1, StepIsStep DEF Queries, AllRules
  <2>2. QED
    BY <2>1 DEF Step, MayStopEarly
<1> HIDE DEF store
<1>8. Plain(ReadExactVersion \o ReadRows(on)) /\ ReadExactVersion \o ReadRows(on) \in Seq(Steps)
  BY <1>2, <1>3, PlainThenPlain, JoinedSteps
<1>9. /\ Plain(ReadExactVersion \o ReadRows(on) \o look)
      /\ ReadExactVersion \o ReadRows(on) \o look \in Seq(Steps)
  BY <1>4, <1>8, PlainThenPlain, JoinedSteps
<1>10. /\ Plain(ReadExactVersion \o ReadRows(on) \o look \o Claim(q, on))
       /\ ReadExactVersion \o ReadRows(on) \o look \o Claim(q, on) \in Seq(Steps)
  BY <1>5, <1>9, PlainThenPlain, JoinedSteps
<1> DEFINE front == ReadExactVersion \o ReadRows(on) \o look \o Claim(q, on)
<1>11. Plain(front) /\ front \in Seq(Steps)
  BY <1>10
<1> HIDE DEF front
<1>12. /\ TokenLined(front \o <<store>>) /\ TokenLeft(front \o <<store>>)
       /\ front \o <<store>> \in Seq(Steps)
  BY <1>7, <1>11, PlainThenToken, JoinedSteps
<1>13. TokenLined(front \o <<store>> \o SyncRelations(q)) /\ TokenLeft(front \o <<store>> \o SyncRelations(q))
  BY <1>6, <1>12, TokenThenNone
<1>14. PostItems(q) = front \o <<store>> \o SyncRelations(q)
  BY DEF PostItems, front, look, store, on
<1>15. QED
  BY <1>13, <1>14

(* A request that is past the batch with its token, or was answered. *)
Spent(q) ==
  /\ q.token # NoToken
  /\ \/ q.outcome = "answered"
     \/ q.outcome = "running" /\ ~TokenLeft(q.steps)

Lined(q) == q.token # NoToken /\ q.outcome = "running" => TokenLined(q.steps)

TokensOnce ==
  /\ \A r \in Requests : Lined(request[r])
  /\ \A r \in Requests : Spent(request[r]) => request[r].token \in tokens
  /\ \A r, s \in Requests : r # s /\ Spent(request[r]) /\ Spent(request[s])
                              => request[r].token # request[s].token

LEMMA NarrowedTokens ==
  ASSUME NEW steps \in Seq(Steps), NEW found
  PROVE  LET less == Narrowed(steps, found)
         IN  /\ less \in Seq(Steps) /\ Len(less) = Len(steps)
             /\ \A n \in 1 .. Len(steps) : /\ less[n].rules = steps[n].rules
                                           /\ less[n].do = steps[n].do
<1> DEFINE less == Narrowed(steps, found)
<1>1. less = [n \in 1 .. Len(steps) |-> [steps[n] EXCEPT !.on = @ \cap found]]
  BY DEF Narrowed
<1>2. less \in Seq(Steps)
  BY NarrowedIsSteps
<1>3. \A n \in 1 .. Len(steps) : steps[n] \in Steps
  BY ElementOfSeq
<1>4. \A n \in 1 .. Len(steps) : less[n].rules = steps[n].rules /\ less[n].do = steps[n].do
  BY <1>1, <1>3 DEF Steps
<1>5. DOMAIN less = 1 .. Len(steps)
  BY <1>1
<1> HIDE DEF less
<1>6. Len(less) = Len(steps)
  BY <1>2, <1>5
<1>7. QED
  BY <1>2, <1>4, <1>6 DEF less

(* What a query does to the place of the token. *)
LEMMA TokenMoves ==
  ASSUME SoundState, TokensOnce, NEW r \in Requests, NEW q1, Did(r, q1)
  PROVE  /\ Lined(q1)
         /\ q1.token = request[r].token
         /\ Spent(q1) => \/ Spent(request[r])
                         \/ q1.token \notin tokens /\ q1.token \in tokens'
<1> DEFINE q == request[r]
<1>1. PICK q0 : Prepared(r, q0) /\ Went(r, q0, q1)
  BY DEF Did
<1>2. /\ q.outcome = "running" /\ q0.outcome = "running" /\ q0.token = q.token
      /\ q.steps \in Seq(Steps) /\ q.steps # <<>>
  BY <1>1 DEF Prepared, Same, SoundState, Sound
<1>3. q1.token = q.token
  BY <1>1, <1>2 DEF Went, Moves, Stops, GoesOn, Same
<1>4. /\ q0.steps \in Seq(Steps) /\ Len(q0.steps) = Len(q.steps)
      /\ \A n \in 1 .. Len(q.steps) : q0.steps[n].rules = q.steps[n].rules /\ q0.steps[n].do = q.steps[n].do
  <2>1. PICK found : q0.steps \in {q.steps, Narrowed(q.steps, found)}
    BY <1>1 DEF Prepared
  <2>2. QED
    BY <1>2, <2>1, NarrowedTokens
<1>5. q.token # NoToken => TokenLined(q.steps)
  BY <1>2 DEF TokensOnce, Lined
<1>6. Len(q.steps) \in Nat /\ Len(q.steps) > 0 /\ DOMAIN q.steps = 1 .. Len(q.steps)
      /\ Head(q.steps) = q.steps[1]
  BY <1>2, EmptySeq
<1>t. q.token # NoToken => \A n \in 1 .. Len(q.steps) : "token" \in q.steps[n].rules =>
         q.steps[n].do = "store" /\ \A m \in 1 .. n : ~MayStopEarly(q.steps[m])
  BY <1>5, <1>6 DEF TokenLined
(* the token is used in the query that was first *)
<1>7. ASSUME "token" \in q.steps[1].rules, q.token # NoToken, q1.outcome \in {"running", "answered"}
      PROVE  q1.token \notin tokens /\ q1.token \in tokens'
  <2>1. Head(q.steps).do = "store"
    BY <1>6, <1>7, <1>t
  <2>2. NextIs(r, "store") /\ UsesToken(r)
    BY <1>2, <1>6, <1>7, <2>1 DEF NextIs, Underway, UsesToken, Rules
  <2>3. QED
    BY <1>3, <1>7, <2>2 DEF Did
<1>8. CASE ~(Len(q0.steps) # 1 /\ GoesOn(q0, q1))
  <2>1. PICK outcome : Stops(q0, q1, outcome) /\ outcome \in Outcomes \ {"running"}
    BY <1>1, <1>8 DEF Went, Moves, Outcomes
  <2>2. q1.outcome = outcome /\ outcome # "running"
    BY <2>1 DEF Stops
  <2>3. Lined(q1)
    BY <2>2 DEF Lined
  <2>4. ASSUME Spent(q1), ~Spent(q)
        PROVE  q1.token \notin tokens /\ q1.token \in tokens'
    <3>1. q.token # NoToken /\ q1.outcome = "answered" /\ TokenLeft(q.steps)
      BY <1>2, <1>3, <2>2, <2>4 DEF Spent
    <3>2. PICK n \in 1 .. Len(q.steps) : "token" \in q.steps[n].rules
      BY <1>6, <3>1 DEF TokenLeft
    <3>3. ~MayStopEarly(Head(q.steps))
      BY <1>6, <1>t, <3>1, <3>2
    <3>4. Len(q0.steps) = 1
      <4>1. \A o : Stops(q0, q1, o) => o = "answered"
        BY <3>1 DEF Stops
      <4>2. QED
        BY <1>1, <1>8, <3>3, <4>1 DEF Went, Moves
    <3>5. n = 1
      BY <1>4, <3>2, <3>4
    <3>6. QED
      BY <1>7, <3>1, <3>2, <3>5
  <2>5. QED
    BY <1>3, <2>3, <2>4
<1>9. CASE Len(q0.steps) # 1 /\ GoesOn(q0, q1)
  <2> DEFINE rest == Tail(q0.steps)
  <2>1. q1.steps = rest /\ q1.outcome = "running"
    BY <1>2, <1>9 DEF GoesOn
  <2>2. /\ rest \in Seq(Steps) /\ Len(rest) = Len(q.steps) - 1
        /\ \A n \in 1 .. Len(q.steps) - 1 : rest[n] = q0.steps[n + 1]
    <3>1. q0.steps # <<>>
      <4>1. Len(q0.steps) # Len(<<>>)
        BY <1>4, <1>6
      <4>2. QED
        BY <4>1
    <3>2. QED
      BY <1>4, <3>1, HeadTailProperties
  <2> HIDE DEF rest
  <2>3. DOMAIN rest = 1 .. Len(q.steps) - 1
    BY <1>6, <2>2
  <2>4. \A n \in 1 .. Len(q.steps) - 1 :
           /\ n + 1 \in 1 .. Len(q.steps)
           /\ rest[n].rules = q.steps[n + 1].rules /\ rest[n].do = q.steps[n + 1].do
    BY <1>4, <1>6, <2>2
  <2>5. Lined(q1)
    <3>1. SUFFICES ASSUME q.token # NoToken PROVE TokenLined(rest)
      BY <1>3, <2>1 DEF Lined
    <3>2. ASSUME NEW n \in DOMAIN rest, "token" \in rest[n].rules
          PROVE  rest[n].do = "store" /\ \A m \in 1 .. n : ~MayStopEarly(rest[m])
      <4>1. /\ n \in 1 .. Len(q.steps) - 1 /\ n + 1 \in 1 .. Len(q.steps)
            /\ "token" \in q.steps[n + 1].rules
        BY <2>3, <2>4, <3>2
      <4>2. q.steps[n + 1].do = "store" /\ \A m \in 1 .. n + 1 : ~MayStopEarly(q.steps[m])
        BY <1>t, <3>1, <4>1
      <4>3. rest[n].do = "store"
        BY <2>4, <4>1, <4>2
      <4>4. ASSUME NEW m \in 1 .. n PROVE ~MayStopEarly(rest[m])
        <5>1. m \in 1 .. Len(q.steps) - 1 /\ m + 1 \in 1 .. n + 1
          BY <1>6, <4>1
        <5>2. ~MayStopEarly(q.steps[m + 1])
          BY <4>2, <5>1
        <5>3. QED
          BY <2>4, <5>1, <5>2 DEF MayStopEarly
      <4>5. QED
        BY <4>3, <4>4
    <3>3. QED
      BY <3>2 DEF TokenLined
  <2>6. ASSUME Spent(q1), ~Spent(q)
        PROVE  q1.token \notin tokens /\ q1.token \in tokens'
    <3>1. q.token # NoToken /\ TokenLeft(q.steps) /\ ~TokenLeft(rest)
      BY <1>2, <1>3, <2>1, <2>6 DEF Spent
    <3>2. PICK n \in 1 .. Len(q.steps) : "token" \in q.steps[n].rules
      BY <1>6, <3>1 DEF TokenLeft
    <3>3. n = 1
      <4>1. CASE n # 1
        <5>1. n - 1 \in 1 .. Len(q.steps) - 1 /\ (n - 1) + 1 = n
          BY <1>6, <3>2, <4>1
        <5>2. "token" \in rest[n - 1].rules
          BY <2>4, <3>2, <5>1
        <5>3. QED
          BY <2>3, <3>1, <5>1, <5>2 DEF TokenLeft
      <4>2. QED
        BY <4>1
    <3>4. QED
      BY <1>7, <2>1, <3>1, <3>2, <3>3
  <2>7. QED
    BY <1>3, <2>5, <2>6
<1>10. QED
  BY <1>8, <1>9

LEMMA TokensOnceStep ==
  ASSUME SoundState, TokensOnce, NEW r \in Requests, Begin(r) \/ Query(r) \/ Die(r)
  PROVE  TokensOnce'
<1>1. CASE Query(r) \/ Die(r)
  <2>1. PICK q1 : Did(r, q1)
    BY <1>1, QueryDid
  <2>2. /\ request'[r] = q1 /\ tokens \subseteq tokens'
        /\ \A s \in Requests : s # r => request'[s] = request[s]
    BY <2>1 DEF Did, Becomes, SoundState
  <2>3. /\ Lined(q1) /\ q1.token = request[r].token
        /\ Spent(q1) => \/ Spent(request[r])
                        \/ q1.token \notin tokens /\ q1.token \in tokens'
    BY <2>1, TokenMoves
  <2>4. \A s \in Requests : Lined(request'[s])
    BY <2>2, <2>3 DEF TokensOnce
  <2>5. \A s \in Requests : Spent(request'[s]) => request'[s].token \in tokens'
    BY <2>2, <2>3 DEF TokensOnce
  <2>6. \A s \in Requests : s # r /\ Spent(q1) /\ Spent(request[s]) => q1.token # request[s].token
    BY <2>3 DEF TokensOnce
  <2>7. \A t, s \in Requests : t # s /\ Spent(request'[t]) /\ Spent(request'[s])
                                 => request'[t].token # request'[s].token
    BY <2>2, <2>6 DEF TokensOnce
  <2>8. QED
    BY <2>4, <2>5, <2>7 DEF TokensOnce, Lined, Spent
<1>2. CASE Begin(r)
  <2>1. PICK shape \in Shapes[r] :
         request' = [s \in Requests |->
           IF s = r
           THEN [Idle EXCEPT
                   !.op      = shape.op,
                   !.keys    = shape.keys,
                   !.token   = shape.token,
                   !.invalid = shape.invalid,
                   !.header  = IF shape.conditional THEN version ELSE NoHeader,
                   !.steps   = Program(shape),
                   !.outcome = "running",
                   !.met     = {s2 \in Requests : Underway(s2)},
                   !.calm    = \A s2 \in Requests : ~Writing(s2)]
           ELSE [request[s] EXCEPT !.met = IF Underway(s) /\ request[s].op # "list items"
                                           THEN @ \cup {r} ELSE @]]
    BY <1>2 DEF Begin
  <2>2. shape \in AllShapes /\ (shape.token # NoToken => shape.op = "post items")
    BY ServerAssumption DEF AllShapes
  <2>3. /\ request'[r].token = shape.token /\ request'[r].steps = Program(shape)
        /\ request'[r].outcome = "running"
    BY <2>1 DEF Idle
  <2>4. shape.token # NoToken => TokenLined(Program(shape)) /\ TokenLeft(Program(shape))
    BY <2>2, PostItemsLined DEF Program
  <2>5. Lined(request'[r]) /\ ~Spent(request'[r])
    BY <2>3, <2>4 DEF Lined, Spent
  <2>6. ASSUME NEW s \in Requests, s # r
        PROVE  /\ Lined(request'[s]) /\ (Spent(request'[s]) <=> Spent(request[s]))
               /\ request'[s].token = request[s].token
    <3>1. \E met : request'[s] = [request[s] EXCEPT !.met = met]
      BY <2>1, <2>6
    <3>2. DOMAIN request[s] = Fields
      BY DEF SoundState, Sound
    <3>3. /\ request'[s].token = request[s].token /\ request'[s].steps = request[s].steps
          /\ request'[s].outcome = request[s].outcome
      BY <3>1, <3>2 DEF Fields
    <3>4. QED
      BY <3>3 DEF Lined, Spent, TokensOnce
  <2>7. tokens' = tokens
    BY <1>2 DEF Begin
  <2>8. \A s \in Requests : Lined(request'[s]) /\ (Spent(request'[s]) => request'[s].token \in tokens')
    BY <2>5, <2>6, <2>7 DEF TokensOnce
  <2>9. \A t, s \in Requests : t # s /\ Spent(request'[t]) /\ Spent(request'[s])
                                 => request'[t].token # request'[s].token
    BY <2>5, <2>6 DEF TokensOnce
  <2>10. QED
    BY <2>8, <2>9 DEF TokensOnce, Lined, Spent
<1>3. QED
  BY <1>1, <1>2

(* A batch that is sent under one write token more than once is answered   *)
(* once, whatever overlaps and whichever copy dies: the token is inserted  *)
(* with the rows.                                                          *)
THEOREM WriteTokensWork == Spec => []WriteTokenOnce
<1>1. Init => TokensOnce
  <2> SUFFICES ASSUME Init PROVE TokensOnce
    OBVIOUS
  <2>1. \A r \in Requests : request[r].outcome = "waiting"
    BY DEF Init, Idle
  <2>2. QED
    BY <2>1 DEF TokensOnce, Lined, Spent
<1>2. SoundState /\ TokensOnce /\ [Next]_vars => TokensOnce'
  <2> SUFFICES ASSUME SoundState, TokensOnce, [Next]_vars PROVE TokensOnce'
    OBVIOUS
  <2>1. CASE UNCHANGED vars
    BY <2>1 DEF vars, TokensOnce, Lined, Spent
  <2>2. QED
    BY <2>1, TokensOnceStep DEF Next
<1>3. TokensOnce => WriteTokenOnce
  BY DEF TokensOnce, WriteTokenOnce, Spent
<1>4. QED
  BY AlwaysSound, <1>1, <1>2, <1>3, PTL DEF Spec

(* ------------------------------- lists --------------------------------- *)

(* What is left of the program of a list.                                  *)
TheVersion == Step("version", {}, {})
TheRows(q) == Step("rows", All(q), {})
TheLog     == Step("log", {}, {})

ListSteps(q) ==
  /\ q.op = "list items"   => q.steps \in {<<TheVersion, TheRows(q)>>, <<TheRows(q)>>}
  /\ q.op = "list objects" => q.steps \in {<<TheRows(q), TheVersion>>, <<TheVersion>>}
  /\ q.op = "list deleted" => q.steps \in {<<TheLog, TheVersion>>, <<TheVersion>>}

(* A list writes nothing, and has read no version later than the library's. *)
OnlyReads(q) ==
  /\ q.mine = Nothing /\ q.seen <= version /\ Keys(q.keys) \subseteq Objects
  /\ q.outcome = "running" => ListSteps(q)

(* Until it is answered, a list that reads its version last has met every  *)
(* request that is under way.                                              *)
HasMet(t) ==
  request[t].outcome = "running" /\ request[t].op # "list items" =>
    \A s \in Requests : s # t /\ Underway(s) => s \in request[t].met

(* What other requests hold by then or reserve later is above the version. *)
VersionRead(q) ==
  \/ q.outcome = "answered"
  \/ q.outcome = "running" /\ q.op = "list items" /\ q.steps = <<TheRows(q)>>

HoldAbove(q) ==
  VersionRead(q) =>
    \A s \in Requests : s \notin q.met =>
      \A o \in DOMAIN request[s].mine : request[s].mine[o] > q.seen

RowsKnown(q) ==
  /\ q.outcome = "answered" /\ q.op \in {"list items", "list objects"} =>
       \A o \in Keys(q.keys) :
         row[o].live /\ row[o].version <= q.seen /\ row[o].by \notin q.met => q.base[o] = row[o]
  /\ q.outcome = "running" /\ q.op = "list objects" /\ q.steps = <<TheVersion>> =>
       \A o \in Keys(q.keys) : row[o].live /\ row[o].by \notin q.met => q.base[o] = row[o]

DeletionsKnown(q) ==
  /\ q.outcome = "answered" /\ q.op = "list deleted" =>
       \A entry \in log : entry.version <= q.seen /\ entry.by \notin q.met => entry \in q.gone
  /\ q.outcome = "running" /\ q.op = "list deleted" /\ q.steps = <<TheVersion>> =>
       \A entry \in log : entry.by \notin q.met => entry \in q.gone

ListsKnow ==
  \A t \in Requests : request[t].op \in Lists =>
    /\ OnlyReads(request[t]) /\ HasMet(t) /\ HoldAbove(request[t])
    /\ RowsKnown(request[t]) /\ DeletionsKnown(request[t])

LEMMA ListPrograms ==
  ASSUME NEW q, q.op \in Lists
  PROVE  /\ q.op = "list items"   => Program(q) = <<TheVersion, TheRows(q)>>
         /\ q.op = "list objects" => Program(q) = <<TheRows(q), TheVersion>>
         /\ q.op = "list deleted" => Program(q) = <<TheLog, TheVersion>>
<1>1. ASSUME NEW a, NEW b PROVE <<a>> \o <<b>> = <<a, b>>
  <2> DEFINE S == {a, b}
  <2>1. a \in S /\ b \in S
    OBVIOUS
  <2> HIDE DEF S
  <2>2. <<a>> \in Seq(S) /\ <<b>> \in Seq(S) /\ <<a, b>> \in Seq(S)
    BY <2>1
  <2>3. /\ <<a>> \o <<b>> \in Seq(S) /\ Len(<<a>> \o <<b>>) = Len(<<a>>) + Len(<<b>>)
        /\ \A n \in 1 .. Len(<<a>>) + Len(<<b>>) :
              (<<a>> \o <<b>>)[n] = IF n <= Len(<<a>>) THEN <<a>>[n] ELSE <<b>>[n - Len(<<a>>)]
    BY <2>2, ConcatProperties
  <2> DEFINE joined == <<a>> \o <<b>>
             pair   == <<a, b>>
  <2>4. Len(joined) = 2 /\ joined[1] = a /\ joined[2] = b
    <3>1. Len(<<a>>) = 1 /\ Len(<<b>>) = 1 /\ <<a>>[1] = a /\ <<b>>[1] = b
      OBVIOUS
    <3>2. Len(joined) = 2
      BY <2>3, <3>1
    <3>3. /\ 1 \in 1 .. Len(<<a>>) + Len(<<b>>) /\ 1 <= Len(<<a>>)
          /\ 2 \in 1 .. Len(<<a>>) + Len(<<b>>) /\ ~(2 <= Len(<<a>>)) /\ 2 - Len(<<a>>) = 1
      BY <3>1
    <3>4. joined[1] = <<a>>[1] /\ joined[2] = <<b>>[2 - Len(<<a>>)]
      BY <2>3, <3>3
    <3>5. QED
      BY <3>1, <3>2, <3>3, <3>4
  <2>5. Len(pair) = 2 /\ pair[1] = a /\ pair[2] = b /\ pair \in Seq(S)
    BY <2>2
  <2>6. joined \in Seq(S)
    BY <2>3
  <2> HIDE DEF joined, pair
  <2>7. \A n \in 1 .. 2 : joined[n] = pair[n]
    BY <2>4, <2>5
  <2>8. joined = pair
    BY <2>4, <2>5, <2>6, <2>7, SeqEqual
  <2>9. QED
    BY <2>8 DEF joined, pair
<1>2. /\ ListItems(q) = <<TheVersion>> \o <<TheRows(q)>>
      /\ ListObjects(q) = <<TheRows(q)>> \o <<TheVersion>>
      /\ ListDeleted(q) = <<TheLog>> \o <<TheVersion>>
  BY DEF ListItems, ListObjects, ListDeleted, ReadVersion, ReadRows, TheVersion, TheRows, TheLog
<1>3. /\ q.op = "list items"   => Program(q) = ListItems(q)
      /\ q.op = "list objects" => Program(q) = ListObjects(q)
      /\ q.op = "list deleted" => Program(q) = ListDeleted(q)
  BY DEF Program
<1>4. QED
  BY <1>1, <1>2, <1>3

(* What a query writes, it writes under its request's versions. *)
LEMMA WritesUnderOwn ==
  ASSUME SoundState, LibraryTyped, NEW r \in Requests, Query(r) \/ Die(r), InTurn'
  PROVE  /\ \A o \in Objects :
              \/ row'[o] = row[o] \/ ~row'[o].live
              \/ row'[o].by = r /\ \E p \in DOMAIN request[r].mine : row'[o].version = request[r].mine[p]
         /\ \A entry \in log' : entry \in log \/
              /\ entry.by = r
              /\ \/ entry.version = version + 1
                 \/ \E p \in DOMAIN request[r].mine : entry.version = request[r].mine[p]
<1> DEFINE mine == request[r].mine
<1>d. \A v : \A entry \in Deletions(r, v) :
         entry.by = r /\ \E p \in DOMAIN v : entry.version = v[p]
  BY DEF Deletions
<1>1. CASE StoreRows(r)
  <2>1. \/ row' = row
        \/ row' = [o \in Objects |-> IF o \in DOMAIN mine
                                     THEN [version |-> mine[o], live |-> TRUE,
                                           edits |-> Edited(r, o), by |-> r]
                                     ELSE row[o]]
    BY <1>1 DEF StoreRows
  <2>2. log' = log
    BY <1>1 DEF StoreRows
  <2>3. QED
    BY <2>1, <2>2
<1>2. CASE DropCollections(r)
  <2>1. \A o \in Objects : row'[o] = IF o \in DOMAIN mine THEN [row[o] EXCEPT !.live = FALSE] ELSE row[o]
    BY <1>2 DEF DropCollections
  <2>r. \A o \in Objects : [row[o] EXCEPT !.live = FALSE].live = FALSE
    BY DEF LibraryTyped, Rows
  <2>2. log' = log \cup Deletions(r, mine)
    BY <1>2 DEF DropCollections
  <2>3. QED
    BY <1>d, <2>1, <2>r, <2>2
<1>3. CASE EraseRows(r)
  <2>1. \A o \in Objects : row'[o] = row[o] \/ ~row'[o].live
    BY <1>3 DEF EraseRows, NoRow
  <2>2. log' = log \cup Deletions(r, mine)
    BY <1>3 DEF EraseRows
  <2>3. QED
    BY <1>d, <2>1, <2>2
<1>4. CASE EraseItems(r)
  <2> DEFINE found == {o \in On(r) : request[r].base[o].live}
  <2>1. \A o \in Objects : row'[o] = row[o] \/ ~row'[o].live
    BY <1>4 DEF EraseItems
  <2>2. log' = log \cup Deletions(r, [o \in found |-> version + 1])
    <3>1. request[r].seen = version
      BY <1>4, ErasedInTurn
    <3>2. QED
      BY <1>4, <3>1 DEF EraseItems, NextVersion
  <2> HIDE DEF found
  <2>3. \A entry \in Deletions(r, [o \in found |-> version + 1]) :
           entry.by = r /\ entry.version = version + 1
    BY DEF Deletions
  <2>4. QED
    BY <2>1, <2>2, <2>3
<1>5. CASE LogTag(r)
  <2>1. PICK v \in {mine[o] : o \in DOMAIN mine} :
           log' = log \cup {[version |-> v, key |-> Tag, by |-> r]}
    BY <1>5 DEF LogTag
  <2>2. row' = row
    BY <1>5 DEF LogTag
  <2>3. QED
    BY <2>1, <2>2
<1>6. CASE MoveUp(r)
  <2> DEFINE below == request[r].below
             moved == {o \in DOMAIN below : below[o].live}
  <2>1. PICK p \in DOMAIN mine :
           row' = [o \in Objects |->
                     IF o \in moved
                     THEN [version |-> mine[p], live |-> row[o].live,
                           edits |-> {r} \cup below[o].edits, by |-> r]
                     ELSE row[o]]
    BY <1>6 DEF MoveUp
  <2>2. log' = log
    BY <1>6 DEF MoveUp
  <2> HIDE DEF moved
  <2>3. QED
    BY <2>1, <2>2
<1>7. ASSUME ~StoreRows(r), ~DropCollections(r), ~EraseRows(r), ~EraseItems(r), ~LogTag(r),
             ~MoveUp(r)
      PROVE  row' = row /\ log' = log
  BY <1>7 DEF Query, Die, ReadTheVersion, ReadTheRows, ReadTheLog, CompareRows, Validate,
              FindToken, ClaimVersion, ReserveVersions, WalkUp
<1>8. QED
  BY <1>1, <1>2, <1>3, <1>4, <1>5, <1>6, <1>7

(* A query of one request leaves every other list what it was. *)
LEMMA OthersKnow ==
  ASSUME SoundState, LibraryTyped, InTurn', ListsKnow, NEW r \in Requests, Query(r) \/ Die(r),
         NEW t \in Requests, t # r, request[t].op \in Lists
  PROVE  /\ request'[t] = request[t]
         /\ OnlyReads(request[t])' /\ HasMet(t)' /\ HoldAbove(request[t])'
         /\ RowsKnown(request[t])' /\ DeletionsKnown(request[t])'
<1> DEFINE q == request[t]
<1>1. PICK q1 : Did(r, q1)
  BY QueryDid
<1>2. /\ request' = [request EXCEPT ![r] = q1] /\ DOMAIN request = Requests
      /\ request'[t] = q /\ request'[r] = q1
      /\ \A s \in Requests : s # r => request'[s] = request[s]
  BY <1>1 DEF Did, Becomes, SoundState
<1>3. /\ version \in Nat /\ version' \in Nat /\ version' >= version
      /\ q.seen \in Nat /\ q.seen <= version
  BY VersionGrows DEF SoundState, Sound, ListsKnow, OnlyReads
<1>4. /\ OnlyReads(q) /\ HasMet(t) /\ HoldAbove(q) /\ RowsKnown(q) /\ DeletionsKnown(q)
  BY DEF ListsKnow
<1>5. \A o \in DOMAIN request[r].mine : request[r].mine[o] \in Nat
  BY DEF SoundState, Sound
<1>6. Underway(r)
  BY DEF Query, Die, NextIs, ReadTheVersion, ReadTheRows, ReadTheLog, CompareRows, Validate,
         FindToken, ClaimVersion, ReserveVersions, StoreRows, WalkUp, MoveUp, DropCollections,
         EraseRows, EraseItems, LogTag
<1>7. \A o \in DOMAIN q1.mine :
         \/ o \in DOMAIN request[r].mine /\ q1.mine[o] = request[r].mine[o]
         \/ q1.mine[o] \in version + 1 .. version'
  <2>1. PICK q0 : Prepared(r, q0) /\ Went(r, q0, q1)
    BY <1>1 DEF Did
  <2>2. q1.mine \in {Nothing, q0.mine} /\ DOMAIN Nothing = {}
    BY <2>1 DEF Went, Moves, Stops, GoesOn, Nothing
  <2>3. QED
    BY <2>1, <2>2 DEF Prepared
<1>8. OnlyReads(q)'
  <2>1. q.seen <= version'
    BY <1>3
  <2>2. /\ q.mine = Nothing /\ Keys(q.keys) \subseteq Objects
        /\ q.outcome = "running" => ListSteps(q)
    BY <1>4 DEF OnlyReads
  <2>3. ListSteps(q)' <=> ListSteps(q)
    BY <1>2 DEF ListSteps, TheRows, All, TheVersion, TheLog
  <2> HIDE DEF q
  <2>4. q' = q
    BY <1>2 DEF q
  <2>5. QED
    BY <2>1, <2>2, <2>3, <2>4 DEF OnlyReads
<1>9. HasMet(t)'
  BY <1>2, <1>4, <1>6 DEF HasMet, Underway
<1>10. HoldAbove(q)'
  <2> SUFFICES ASSUME VersionRead(q), NEW s \in Requests, s \notin q.met,
                      NEW o \in DOMAIN request'[s].mine
               PROVE  request'[s].mine[o] > q.seen
    BY <1>2 DEF HoldAbove, VersionRead, TheRows, All
  <2>1. CASE s # r
    BY <1>2, <1>4, <2>1 DEF HoldAbove
  <2>2. CASE s = r
    <3>1. request'[s].mine = q1.mine
      BY <1>2, <2>2
    <3>2. CASE o \in DOMAIN request[r].mine /\ q1.mine[o] = request[r].mine[o]
      BY <1>4, <2>2, <3>1, <3>2 DEF HoldAbove
    <3>3. CASE q1.mine[o] \in version + 1 .. version'
      BY <1>3, <3>1, <3>3
    <3>4. QED
      BY <1>7, <3>1, <3>2, <3>3
  <2>3. QED
    BY <2>1, <2>2
<1>11. ASSUME q.outcome = "answered", r \notin q.met
       PROVE  /\ \A p \in DOMAIN request[r].mine : request[r].mine[p] > q.seen
              /\ version + 1 > q.seen
  BY <1>3, <1>4, <1>11 DEF HoldAbove, VersionRead
<1>12. q.outcome = "running" /\ q.op # "list items" => r \in q.met
  BY <1>4, <1>6 DEF HasMet
<1>13. Keys(q.keys) \subseteq Objects
  BY <1>4 DEF OnlyReads
<1>14. RowsKnown(q)'
  <2>1. ASSUME q.outcome = "answered", q.op \in {"list items", "list objects"},
               NEW o \in Keys(q.keys), row'[o].live, row'[o].version <= q.seen, row'[o].by \notin q.met
        PROVE  q.base[o] = row'[o]
    <3>1. o \in Objects
      BY <1>13
    <3>2. CASE row'[o] = row[o]
      BY <1>4, <2>1, <3>2 DEF RowsKnown
    <3>3. CASE row'[o].by = r /\ \E p \in DOMAIN request[r].mine : row'[o].version = request[r].mine[p]
      <4>1. PICK p \in DOMAIN request[r].mine : row'[o].version = request[r].mine[p]
        BY <3>3
      <4>m. q.outcome = "answered" /\ r \notin q.met
        BY <2>1, <3>3
      <4>2. request[r].mine[p] > q.seen /\ request[r].mine[p] \in Nat
        BY <1>5, <1>11, <4>m
      <4>s. q.seen \in Nat
        BY <1>3
      <4>3. ~(request[r].mine[p] <= q.seen)
        BY <4>2, <4>s
      <4>4. QED
        BY <2>1, <4>1, <4>3
    <3>4. QED
      BY <2>1, <3>1, <3>2, <3>3, WritesUnderOwn
  <2>2. ASSUME q.outcome = "running", q.op = "list objects", q.steps = <<TheVersion>>,
               NEW o \in Keys(q.keys), row'[o].live, row'[o].by \notin q.met
        PROVE  q.base[o] = row'[o]
    <3>1. o \in Objects
      BY <1>13
    <3>2. CASE row'[o] = row[o]
      BY <1>4, <2>2, <3>2 DEF RowsKnown
    <3>3. CASE row'[o].by = r
      BY <1>12, <2>2, <3>3
    <3>4. QED
      BY <2>2, <3>1, <3>2, <3>3, WritesUnderOwn
  <2>3. QED
    BY <1>2, <2>1, <2>2 DEF RowsKnown, TheVersion
<1>15. DeletionsKnown(q)'
  <2>1. ASSUME q.outcome = "answered", q.op = "list deleted",
               NEW entry \in log', entry.version <= q.seen, entry.by \notin q.met
        PROVE  entry \in q.gone
    <3>1. CASE entry \in log
      BY <1>4, <2>1, <3>1 DEF DeletionsKnown
    <3>2. CASE /\ entry.by = r
               /\ \/ entry.version = version + 1
                  \/ \E p \in DOMAIN request[r].mine : entry.version = request[r].mine[p]
      <4>m. q.outcome = "answered" /\ r \notin q.met
        BY <2>1, <3>2
      <4>a. \A p \in DOMAIN request[r].mine : request[r].mine[p] > q.seen /\ request[r].mine[p] \in Nat
        BY <1>5, <1>11, <4>m
      <4>b. version + 1 > q.seen /\ version + 1 \in Nat
        BY <1>3, <1>11, <4>m
      <4>1. entry.version \in Nat /\ entry.version > q.seen
        BY <3>2, <4>a, <4>b
      <4>s. q.seen \in Nat
        BY <1>3
      <4>2. ~(entry.version <= q.seen)
        BY <4>1, <4>s
      <4>3. QED
        BY <2>1, <4>2
    <3>3. QED
      BY <3>1, <3>2, WritesUnderOwn
  <2>2. ASSUME q.outcome = "running", q.op = "list deleted", q.steps = <<TheVersion>>,
               NEW entry \in log', entry.by \notin q.met
        PROVE  entry \in q.gone
    <3>1. CASE entry \in log
      BY <1>4, <2>2, <3>1 DEF DeletionsKnown
    <3>2. CASE entry.by = r
      BY <1>12, <2>2, <3>2
    <3>3. QED
      BY <3>1, <3>2, WritesUnderOwn
  <2>3. QED
    BY <1>2, <2>1, <2>2 DEF DeletionsKnown, TheVersion
<1>16. QED
  BY <1>2, <1>8, <1>9, <1>10, <1>14, <1>15

LEMMA HeadOfRow ==
  ASSUME NEW a, NEW b
  PROVE  /\ Head(<<a, b>>) = a /\ Tail(<<a, b>>) = <<b>> /\ Len(<<a, b>>) = 2
         /\ Head(<<a>>) = a /\ Len(<<a>>) = 1
  OBVIOUS

(* Which query a list that is under way is about to make. *)
LEMMA ListsNext ==
  ASSUME ListsKnow, NEW t \in Requests, request[t].op \in Lists, Query(t)
  PROVE  LET q == request[t]
         IN  /\ q.outcome = "running" /\ Rules(t) = {}
             /\ \/ /\ ReadTheVersion(t)
                   /\ \/ q.op = "list items" /\ q.steps = <<TheVersion, TheRows(q)>>
                      \/ q.op \in {"list objects", "list deleted"} /\ q.steps = <<TheVersion>>
                \/ /\ ReadTheRows(t) /\ On(t) = Keys(q.keys)
                   /\ \/ q.op = "list items" /\ q.steps = <<TheRows(q)>>
                      \/ q.op = "list objects" /\ q.steps = <<TheRows(q), TheVersion>>
                \/ ReadTheLog(t) /\ q.op = "list deleted" /\ q.steps = <<TheLog, TheVersion>>
<1> DEFINE q == request[t]
<1>1. PICK do : NextIs(t, do)
  BY DEF Query, ReadTheVersion, ReadTheRows, ReadTheLog, CompareRows, Validate, FindToken,
         ClaimVersion, ReserveVersions, StoreRows, WalkUp, MoveUp, DropCollections, EraseRows,
         EraseItems, LogTag
<1>2. q.outcome = "running"
  BY <1>1 DEF NextIs, Underway
<1>3. ListSteps(q)
  BY <1>2 DEF ListsKnow, OnlyReads
<1>4. /\ TheVersion.do = "version" /\ TheVersion.rules = {}
      /\ TheRows(q).do = "rows" /\ TheRows(q).rules = {} /\ TheRows(q).on = Keys(q.keys)
      /\ TheLog.do = "log" /\ TheLog.rules = {}
  BY DEF TheVersion, TheRows, TheLog, Step, All
<1> DEFINE first == Head(q.steps)
<1>5. \/ /\ first = TheVersion
         /\ \/ q.op = "list items" /\ q.steps = <<TheVersion, TheRows(q)>>
            \/ q.op \in {"list objects", "list deleted"} /\ q.steps = <<TheVersion>>
      \/ /\ first = TheRows(q)
         /\ \/ q.op = "list items" /\ q.steps = <<TheRows(q)>>
            \/ q.op = "list objects" /\ q.steps = <<TheRows(q), TheVersion>>
      \/ first = TheLog /\ q.op = "list deleted" /\ q.steps = <<TheLog, TheVersion>>
  <2>1. q.op \in {"list items", "list objects", "list deleted"}
    BY DEF Lists
  <2>2. CASE q.op = "list items"
    BY <1>3, <2>2, HeadOfRow DEF ListSteps
  <2>3. CASE q.op = "list objects"
    BY <1>3, <2>3, HeadOfRow DEF ListSteps
  <2>4. CASE q.op = "list deleted"
    BY <1>3, <2>4, HeadOfRow DEF ListSteps
  <2>5. QED
    BY <2>1, <2>2, <2>3, <2>4
<1>6. Rules(t) = first.rules /\ On(t) = first.on /\ \A d : NextIs(t, d) => first.do = d
  BY DEF Rules, On, NextIs
<1> HIDE DEF first
<1>7. first.do \in {"version", "rows", "log"}
  BY <1>4, <1>5
<1>8. \/ ReadTheVersion(t) /\ first.do = "version"
      \/ ReadTheRows(t) /\ first.do = "rows"
      \/ ReadTheLog(t) /\ first.do = "log"
  BY <1>6, <1>7 DEF Query, ReadTheVersion, ReadTheRows, ReadTheLog, CompareRows, Validate, FindToken,
         ClaimVersion, ReserveVersions, StoreRows, WalkUp, MoveUp, DropCollections, EraseRows,
         EraseItems, LogTag
<1>9. QED
  BY <1>2, <1>4, <1>5, <1>6, <1>8

LEMMA ListMoves ==
  ASSUME NEW q, NEW q1, Moves(q, q1), q.op \in Lists
  PROVE  /\ q1.op = q.op /\ q1.keys = q.keys /\ q1.base = q.base /\ q1.seen = q.seen
         /\ q1.met = q.met /\ q1.gone = q.gone /\ q1.mine \in {Nothing, q.mine}
         /\ Len(q.steps) = 1 => q1.outcome = "answered"
         /\ Len(q.steps) # 1 => q1.outcome = q.outcome /\ q1.steps = Tail(q.steps)
  BY DEF Moves, Stops, GoesOn, Same

LEMMA ListReadsVersion ==
  ASSUME SoundState, ListsKnow, NEW t \in Requests, request[t].op \in Lists,
         ReadTheVersion(t), Query(t)
  PROVE  /\ OnlyReads(request[t])' /\ HasMet(t)' /\ HoldAbove(request[t])'
         /\ RowsKnown(request[t])' /\ DeletionsKnown(request[t])'
<1> DEFINE p == request[t]
           met == IF p.op = "list items" THEN {s \in Requests : Writing(s)} ELSE p.met
           q  == [p EXCEPT !.seen = version, !.met = met]
           q1 == Advanced(q)
<1>1. /\ p.outcome = "running" /\ Rules(t) = {}
      /\ \/ p.op = "list items" /\ p.steps = <<TheVersion, TheRows(p)>>
         \/ p.op \in {"list objects", "list deleted"} /\ p.steps = <<TheVersion>>
  <2>1. ~ReadTheRows(t) /\ ~ReadTheLog(t)
    BY DEF ReadTheVersion, ReadTheRows, ReadTheLog, NextIs
  <2>2. QED
    BY <2>1, ListsNext
<1>2. /\ DOMAIN p = Fields /\ DOMAIN request = Requests /\ version \in Nat
      /\ OnlyReads(p) /\ HasMet(t) /\ RowsKnown(p) /\ DeletionsKnown(p)
  BY DEF SoundState, Sound, ListsKnow
<1>3. /\ DOMAIN q = Fields /\ q.op = p.op /\ q.keys = p.keys /\ q.base = p.base /\ q.gone = p.gone
      /\ q.mine = p.mine /\ q.steps = p.steps /\ q.outcome = p.outcome
      /\ q.seen = version /\ q.met = met
  BY <1>2 DEF Fields
<1>4. Becomes(t, q1) /\ UNCHANGED <<version, row, log>>
  <2>1. ~VersionRefused(t)
    BY <1>1 DEF VersionRefused
  <2>2. QED
    BY <2>1 DEF ReadTheVersion
<1>5. Moves(q, q1)
  BY <1>3, AdvancedMoves
<1> HIDE DEF q, q1, met
<1>6. /\ q1.op = p.op /\ q1.keys = p.keys /\ q1.base = p.base /\ q1.gone = p.gone
      /\ q1.mine = Nothing /\ q1.seen = version /\ q1.met = met
      /\ Len(p.steps) = 1 => q1.outcome = "answered"
      /\ Len(p.steps) # 1 => q1.outcome = "running" /\ q1.steps = Tail(p.steps)
  <2>1. p.mine = Nothing
    BY <1>2 DEF OnlyReads
  <2>2. q.op \in Lists
    BY <1>3
  <2>m. /\ q1.op = q.op /\ q1.keys = q.keys /\ q1.base = q.base /\ q1.seen = q.seen
        /\ q1.met = q.met /\ q1.gone = q.gone /\ q1.mine \in {Nothing, q.mine}
        /\ Len(q.steps) = 1 => q1.outcome = "answered"
        /\ Len(q.steps) # 1 => q1.outcome = q.outcome /\ q1.steps = Tail(q.steps)
    BY <1>5, <2>2, ListMoves
  <2>3. QED
    BY <1>1, <1>3, <2>1, <2>m
<1>7. \A s \in Requests : s # t => request'[s] = request[s]
  BY <1>2, <1>4 DEF Becomes
<1>8. request'[t] = q1
  BY <1>2, <1>4 DEF Becomes
<1>9. /\ request'[t].op = p.op /\ request'[t].keys = p.keys /\ request'[t].base = p.base
      /\ request'[t].gone = p.gone /\ request'[t].mine = Nothing
      /\ request'[t].seen = version /\ request'[t].met = met
      /\ \/ /\ p.op = "list items" /\ request'[t].outcome = "running"
            /\ request'[t].steps = <<TheRows(p)>>
         \/ /\ p.op \in {"list objects", "list deleted"} /\ p.steps = <<TheVersion>>
            /\ request'[t].outcome = "answered"
  <2>1. /\ Len(<<TheVersion, TheRows(p)>>) # 1 /\ Len(<<TheVersion>>) = 1
        /\ Tail(<<TheVersion, TheRows(p)>>) = <<TheRows(p)>>
    BY HeadOfRow
  <2>2. CASE p.op = "list items" /\ p.steps = <<TheVersion, TheRows(p)>>
    <3>1. Len(p.steps) # 1 /\ Tail(p.steps) = <<TheRows(p)>>
      BY <2>1, <2>2, Zenon
    <3>2. QED
      BY <1>6, <1>8, <2>2, <3>1
  <2>3. CASE p.op \in {"list objects", "list deleted"} /\ p.steps = <<TheVersion>>
    BY <1>6, <1>8, <2>1, <2>3
  <2>4. QED
    BY <1>1, <2>2, <2>3
<1>10. TheRows(request[t])' = TheRows(p)
  BY <1>9 DEF TheRows, All
<1>11. OnlyReads(request[t])'
  <2>1. version <= version
    BY <1>2
  <2>2. Keys(p.keys) \subseteq Objects
    BY <1>2 DEF OnlyReads
  <2>3. (request[t].outcome = "running" => ListSteps(request[t]))'
    BY <1>9, <1>10 DEF ListSteps
  <2>4. QED
    BY <1>4, <1>9, <2>1, <2>2, <2>3 DEF OnlyReads
<1>12. HasMet(t)'
  BY <1>9 DEF HasMet
<1>13. \A s \in Requests : s \notin met => request'[s].mine = Nothing
  <2> SUFFICES ASSUME NEW s \in Requests, s \notin met, s # t PROVE request[s].mine = Nothing
    BY <1>7, <1>9
  <2>1. ~Underway(s) => request[s].mine = Nothing
    BY DEF SoundState, Sound, Underway
  <2>2. CASE p.op = "list items"
    BY <2>1, <2>2 DEF met, Writing
  <2>3. CASE p.op # "list items"
    BY <1>1, <1>2, <2>1, <2>3 DEF met, HasMet
  <2>4. QED
    BY <2>2, <2>3
<1>14. HoldAbove(request[t])'
  <2>1. DOMAIN Nothing = {}
    BY DEF Nothing
  <2>2. QED
    BY <1>9, <1>13, <2>1 DEF HoldAbove
<1>15. RowsKnown(request[t])'
  BY <1>1, <1>2, <1>4, <1>9 DEF RowsKnown, met
<1>16. DeletionsKnown(request[t])'
  BY <1>1, <1>2, <1>4, <1>9 DEF DeletionsKnown, met
<1>17. QED
  BY <1>11, <1>12, <1>14, <1>15, <1>16

LEMMA ListReadsRows ==
  ASSUME SoundState, ListsKnow, NEW t \in Requests, request[t].op \in Lists,
         ReadTheRows(t), Query(t)
  PROVE  /\ OnlyReads(request[t])' /\ HasMet(t)' /\ HoldAbove(request[t])'
         /\ RowsKnown(request[t])' /\ DeletionsKnown(request[t])'
<1> DEFINE p  == request[t]
           q  == [p EXCEPT !.base = [o \in On(t) |-> row[o]]]
           q1 == Advanced(q)
<1>1. /\ p.outcome = "running" /\ Rules(t) = {} /\ On(t) = Keys(p.keys)
      /\ \/ p.op = "list items" /\ p.steps = <<TheRows(p)>>
         \/ p.op = "list objects" /\ p.steps = <<TheRows(p), TheVersion>>
  <2>1. ~ReadTheVersion(t) /\ ~ReadTheLog(t)
    BY DEF ReadTheVersion, ReadTheRows, ReadTheLog, NextIs
  <2>2. QED
    BY <2>1, ListsNext
<1>2. /\ DOMAIN p = Fields /\ DOMAIN request = Requests /\ version \in Nat
      /\ OnlyReads(p) /\ HasMet(t) /\ HoldAbove(p)
  BY DEF SoundState, Sound, ListsKnow
<1>3. /\ DOMAIN q = Fields /\ q.op = p.op /\ q.keys = p.keys /\ q.gone = p.gone
      /\ q.mine = p.mine /\ q.steps = p.steps /\ q.outcome = p.outcome
      /\ q.seen = p.seen /\ q.met = p.met /\ q.base = [o \in On(t) |-> row[o]]
  BY <1>2 DEF Fields
<1>4. Becomes(t, q1) /\ UNCHANGED <<version, row, log>>
  <2>1. \A o : ~RowRefused(t, o)
    BY <1>1 DEF RowRefused
  <2>2. "all" \notin Rules(t) /\ "some" \notin Rules(t)
    BY <1>1
  <2>3. Becomes(t, q1)
    BY <2>1, <2>2 DEF ReadTheRows
  <2>4. QED
    BY <2>3 DEF ReadTheRows
<1>5. Moves(q, q1)
  BY <1>3, AdvancedMoves
<1> HIDE DEF q, q1
<1>6. /\ q1.op = p.op /\ q1.keys = p.keys /\ q1.base = [o \in Keys(p.keys) |-> row[o]]
      /\ q1.gone = p.gone /\ q1.mine = Nothing /\ q1.seen = p.seen /\ q1.met = p.met
      /\ Len(p.steps) = 1 => q1.outcome = "answered"
      /\ Len(p.steps) # 1 => q1.outcome = "running" /\ q1.steps = Tail(p.steps)
  <2>1. p.mine = Nothing
    BY <1>2 DEF OnlyReads
  <2>2. q.op \in Lists
    BY <1>3
  <2>m. /\ q1.op = q.op /\ q1.keys = q.keys /\ q1.base = q.base /\ q1.seen = q.seen
        /\ q1.met = q.met /\ q1.gone = q.gone /\ q1.mine \in {Nothing, q.mine}
        /\ Len(q.steps) = 1 => q1.outcome = "answered"
        /\ Len(q.steps) # 1 => q1.outcome = q.outcome /\ q1.steps = Tail(q.steps)
    BY <1>5, <2>2, ListMoves
  <2>3. QED
    BY <1>1, <1>3, <2>1, <2>m
<1>7. \A s \in Requests : s # t => request'[s] = request[s]
  BY <1>2, <1>4 DEF Becomes
<1>8. request'[t] = q1
  BY <1>2, <1>4 DEF Becomes
<1>9. /\ request'[t].op = p.op /\ request'[t].keys = p.keys
      /\ request'[t].base = [o \in Keys(p.keys) |-> row[o]]
      /\ request'[t].mine = Nothing /\ request'[t].seen = p.seen /\ request'[t].met = p.met
      /\ \/ p.op = "list items" /\ p.steps = <<TheRows(p)>> /\ request'[t].outcome = "answered"
         \/ /\ p.op = "list objects" /\ request'[t].outcome = "running"
            /\ request'[t].steps = <<TheVersion>>
  <2>1. /\ Len(<<TheRows(p), TheVersion>>) # 1 /\ Len(<<TheRows(p)>>) = 1
        /\ Tail(<<TheRows(p), TheVersion>>) = <<TheVersion>>
    BY HeadOfRow
  <2>2. CASE p.op = "list items" /\ p.steps = <<TheRows(p)>>
    BY <1>6, <1>8, <2>1, <2>2
  <2>3. CASE p.op = "list objects" /\ p.steps = <<TheRows(p), TheVersion>>
    <3>1. Len(p.steps) # 1 /\ Tail(p.steps) = <<TheVersion>>
      BY <2>1, <2>3, Zenon
    <3>2. QED
      BY <1>6, <1>8, <2>3, <3>1
  <2>4. QED
    BY <1>1, <2>2, <2>3
<1>10. OnlyReads(request[t])'
  <2>1. p.seen <= version /\ Keys(p.keys) \subseteq Objects
    BY <1>2 DEF OnlyReads
  <2>2. (request[t].outcome = "running" => ListSteps(request[t]))'
    BY <1>9 DEF ListSteps, TheVersion
  <2>3. QED
    BY <1>4, <1>9, <2>1, <2>2 DEF OnlyReads
<1>11. HasMet(t)'
  BY <1>1, <1>2, <1>7, <1>9 DEF HasMet, Underway
<1>12. HoldAbove(request[t])'
  <2>1. DOMAIN Nothing = {}
    BY DEF Nothing
  <2>2. \A s \in Requests : s # t => request'[s].mine = request[s].mine
    BY <1>7
  <2>3. VersionRead(request[t])' => VersionRead(p)
    BY <1>1, <1>9 DEF VersionRead
  <2>4. QED
    BY <1>2, <1>9, <2>1, <2>2, <2>3 DEF HoldAbove
<1>13. RowsKnown(request[t])'
  BY <1>4, <1>9 DEF RowsKnown
<1>14. DeletionsKnown(request[t])'
  BY <1>9 DEF DeletionsKnown
<1>15. QED
  BY <1>10, <1>11, <1>12, <1>13, <1>14

LEMMA ListReadsLog ==
  ASSUME SoundState, ListsKnow, NEW t \in Requests, request[t].op \in Lists,
         ReadTheLog(t), Query(t)
  PROVE  /\ OnlyReads(request[t])' /\ HasMet(t)' /\ HoldAbove(request[t])'
         /\ RowsKnown(request[t])' /\ DeletionsKnown(request[t])'
<1> DEFINE p  == request[t]
           q  == [p EXCEPT !.gone = log]
           q1 == Advanced(q)
<1>1. p.outcome = "running" /\ p.op = "list deleted" /\ p.steps = <<TheLog, TheVersion>>
  <2>1. ~ReadTheVersion(t) /\ ~ReadTheRows(t)
    BY DEF ReadTheVersion, ReadTheRows, ReadTheLog, NextIs
  <2>2. QED
    BY <2>1, ListsNext
<1>2. DOMAIN p = Fields /\ DOMAIN request = Requests /\ OnlyReads(p) /\ HasMet(t)
  BY DEF SoundState, Sound, ListsKnow
<1>3. /\ DOMAIN q = Fields /\ q.op = p.op /\ q.keys = p.keys /\ q.gone = log
      /\ q.mine = p.mine /\ q.steps = p.steps /\ q.outcome = p.outcome
      /\ q.seen = p.seen /\ q.met = p.met
  BY <1>2 DEF Fields
<1>4. Becomes(t, q1) /\ UNCHANGED <<version, row, log>>
  BY DEF ReadTheLog
<1>5. Moves(q, q1)
  BY <1>3, AdvancedMoves
<1> HIDE DEF q, q1
<1>6. /\ q1.op = p.op /\ q1.keys = p.keys /\ q1.gone = log
      /\ q1.mine = Nothing /\ q1.seen = p.seen /\ q1.met = p.met
      /\ q1.outcome = "running" /\ q1.steps = <<TheVersion>>
  <2>1. p.mine = Nothing
    BY <1>2 DEF OnlyReads
  <2>2. q.op \in Lists
    BY <1>3
  <2>m. /\ q1.op = q.op /\ q1.keys = q.keys /\ q1.base = q.base /\ q1.seen = q.seen
        /\ q1.met = q.met /\ q1.gone = q.gone /\ q1.mine \in {Nothing, q.mine}
        /\ Len(q.steps) = 1 => q1.outcome = "answered"
        /\ Len(q.steps) # 1 => q1.outcome = q.outcome /\ q1.steps = Tail(q.steps)
    BY <1>5, <2>2, ListMoves
  <2>3. Len(p.steps) # 1 /\ Tail(p.steps) = <<TheVersion>>
    <3>1. /\ Len(<<TheLog, TheVersion>>) # 1
          /\ Tail(<<TheLog, TheVersion>>) = <<TheVersion>>
      BY HeadOfRow
    <3>2. QED
      BY <1>1, <3>1, Zenon
  <2>4. QED
    BY <1>1, <1>3, <2>1, <2>3, <2>m
<1>7. \A s \in Requests : s # t => request'[s] = request[s]
  BY <1>2, <1>4 DEF Becomes
<1>8. request'[t] = q1
  BY <1>2, <1>4 DEF Becomes
<1>9. OnlyReads(request[t])'
  <2>1. p.seen <= version /\ Keys(p.keys) \subseteq Objects
    BY <1>2 DEF OnlyReads
  <2>2. ListSteps(request[t])'
    BY <1>1, <1>6, <1>8 DEF ListSteps, TheVersion
  <2>3. QED
    BY <1>4, <1>6, <1>8, <2>1, <2>2 DEF OnlyReads
<1>10. HasMet(t)'
  BY <1>1, <1>2, <1>6, <1>7, <1>8 DEF HasMet, Underway
<1>11. HoldAbove(request[t])'
  BY <1>1, <1>6, <1>8 DEF HoldAbove, VersionRead
<1>12. RowsKnown(request[t])'
  BY <1>1, <1>6, <1>8 DEF RowsKnown
<1>13. DeletionsKnown(request[t])'
  BY <1>4, <1>6, <1>8 DEF DeletionsKnown
<1>14. QED
  BY <1>9, <1>10, <1>11, <1>12, <1>13

LEMMA ListDies ==
  ASSUME SoundState, ListsKnow, NEW t \in Requests, request[t].op \in Lists, Die(t)
  PROVE  /\ OnlyReads(request[t])' /\ HasMet(t)' /\ HoldAbove(request[t])'
         /\ RowsKnown(request[t])' /\ DeletionsKnown(request[t])'
<1> DEFINE p  == request[t]
           q1 == Ended(p, "died")
<1>1. DOMAIN p = Fields /\ DOMAIN request = Requests /\ OnlyReads(p)
  BY DEF SoundState, Sound, ListsKnow
<1>2. Becomes(t, q1) /\ version' = version
  BY DEF Die
<1>3. Stops(p, q1, "died")
  BY <1>1, EndedStops
<1> HIDE DEF q1
<1>4. request'[t] = q1
  BY <1>1, <1>2 DEF Becomes
<1>5. /\ request'[t].outcome = "died" /\ request'[t].mine = Nothing
      /\ request'[t].seen = p.seen /\ request'[t].keys = p.keys
  BY <1>3, <1>4 DEF Stops, Same
<1>6. OnlyReads(request[t])'
  BY <1>1, <1>2, <1>5 DEF OnlyReads
<1>7. QED
  BY <1>5, <1>6 DEF HasMet, HoldAbove, VersionRead, RowsKnown, DeletionsKnown

LEMMA BeginKnows ==
  ASSUME SoundState, ListsKnow, NEW r \in Requests, Begin(r)
  PROVE  ListsKnow'
<1>1. PICK shape \in Shapes[r] :
       request' = [s \in Requests |->
         IF s = r
         THEN [Idle EXCEPT
                 !.op      = shape.op,
                 !.keys    = shape.keys,
                 !.token   = shape.token,
                 !.invalid = shape.invalid,
                 !.header  = IF shape.conditional THEN version ELSE NoHeader,
                 !.steps   = Program(shape),
                 !.outcome = "running",
                 !.met     = {s2 \in Requests : Underway(s2)},
                 !.calm    = \A s2 \in Requests : ~Writing(s2)]
         ELSE [request[s] EXCEPT !.met = IF Underway(s) /\ request[s].op # "list items"
                                         THEN @ \cup {r} ELSE @]]
  BY DEF Begin
<1>2. UNCHANGED <<version, row, log>> /\ version \in Nat /\ request[r].outcome = "waiting"
  BY DEF Begin, SoundState
<1>3. shape \in AllShapes
  BY ServerAssumption DEF AllShapes
<1>4. /\ request'[r].op = shape.op /\ request'[r].keys = shape.keys
      /\ request'[r].steps = Program(shape) /\ request'[r].outcome = "running"
      /\ request'[r].mine = Nothing /\ request'[r].seen = 0
      /\ request'[r].met = {s2 \in Requests : Underway(s2)}
  BY <1>1 DEF Idle
<1>5. ASSUME NEW s \in Requests, s # r
      PROVE  /\ request'[s].op = request[s].op /\ request'[s].keys = request[s].keys
             /\ request'[s].steps = request[s].steps /\ request'[s].outcome = request[s].outcome
             /\ request'[s].mine = request[s].mine /\ request'[s].seen = request[s].seen
             /\ request'[s].base = request[s].base /\ request'[s].gone = request[s].gone
             /\ request'[s].met = IF Underway(s) /\ request[s].op # "list items"
                                  THEN request[s].met \cup {r} ELSE request[s].met
  <2>1. DOMAIN request[s] = Fields
    BY DEF SoundState, Sound
  <2>2. QED
    BY <1>1, <1>5, <2>1 DEF Fields
<1>6. DOMAIN Nothing = {}
  BY DEF Nothing
<1>7. ASSUME shape.op \in Lists
      PROVE  /\ OnlyReads(request[r])' /\ HasMet(r)' /\ HoldAbove(request[r])'
             /\ RowsKnown(request[r])' /\ DeletionsKnown(request[r])'
  <2>1. Keys(shape.keys) \subseteq Objects
    BY <1>3, KeysAreObjects DEF AllShapes
  <2>2. /\ shape.op = "list items"   => Program(shape) = <<TheVersion, TheRows(shape)>>
        /\ shape.op = "list objects" => Program(shape) = <<TheRows(shape), TheVersion>>
        /\ shape.op = "list deleted" => Program(shape) = <<TheLog, TheVersion>>
    BY <1>7, ListPrograms
  <2>3. TheRows(request[r])' = TheRows(shape)
    BY <1>4 DEF TheRows, All
  <2>4. ListSteps(request[r])'
    BY <1>4, <2>2, <2>3 DEF ListSteps, TheVersion, TheLog
  <2>5. OnlyReads(request[r])'
    BY <1>2, <1>4, <2>1, <2>4 DEF OnlyReads
  <2>6. HasMet(r)'
    BY <1>4, <1>5 DEF HasMet, Underway
  <2>7. Len(request'[r].steps) = 2
    <3>1. /\ Len(<<TheVersion, TheRows(shape)>>) = 2 /\ Len(<<TheRows(shape), TheVersion>>) = 2
          /\ Len(<<TheLog, TheVersion>>) = 2
      BY HeadOfRow
    <3>2. Len(Program(shape)) = 2
      BY <1>7, <2>2, <3>1, Zenon DEF Lists
    <3>3. QED
      BY <1>4, <3>2, Zenon
  <2>8. /\ request'[r].steps # <<TheRows(request[r])>>' /\ request'[r].steps # <<TheVersion>>
    BY <2>7, HeadOfRow
  <2>9. HoldAbove(request[r])'
    BY <1>4, <2>8 DEF HoldAbove, VersionRead
  <2>10. RowsKnown(request[r])' /\ DeletionsKnown(request[r])'
    BY <1>4, <2>8 DEF RowsKnown, DeletionsKnown, TheVersion
  <2>11. QED
    BY <2>5, <2>6, <2>9, <2>10
<1>8. ASSUME NEW t \in Requests, t # r, request[t].op \in Lists
      PROVE  /\ OnlyReads(request[t])' /\ HasMet(t)' /\ HoldAbove(request[t])'
             /\ RowsKnown(request[t])' /\ DeletionsKnown(request[t])'
  <2> DEFINE q == request[t]
  <2>1. /\ request'[t].op = q.op /\ request'[t].keys = q.keys
        /\ request'[t].steps = q.steps /\ request'[t].outcome = q.outcome
        /\ request'[t].mine = q.mine /\ request'[t].seen = q.seen
        /\ request'[t].base = q.base /\ request'[t].gone = q.gone
        /\ request'[t].met = IF Underway(t) /\ q.op # "list items"
                             THEN q.met \cup {r} ELSE q.met
    BY <1>5, <1>8
  <2>2. OnlyReads(q) /\ HasMet(t) /\ HoldAbove(q) /\ RowsKnown(q) /\ DeletionsKnown(q)
    BY <1>8 DEF ListsKnow
  <2>3. TheRows(request[t])' = TheRows(q)
    BY <2>1 DEF TheRows, All
  <2>4. OnlyReads(request[t])'
    <3>1. ListSteps(q) => ListSteps(request[t])'
      BY <2>1, <2>3 DEF ListSteps, TheVersion, TheLog
    <3>2. QED
      BY <1>2, <2>1, <2>2, <3>1 DEF OnlyReads
  <2>5. HasMet(t)'
    BY <1>5, <2>1, <2>2 DEF HasMet, Underway
  <2>6. HoldAbove(request[t])'
    <3>1. VersionRead(request[t])' => VersionRead(q)
      BY <2>1, <2>3 DEF VersionRead
    <3>2. \A s \in Requests : request'[s].mine = request[s].mine \/ request'[s].mine = Nothing
      BY <1>4, <1>5
    <3>3. q.met \subseteq request'[t].met
      BY <2>1
    <3>4. QED
      BY <1>6, <2>1, <2>2, <3>1, <3>2, <3>3 DEF HoldAbove
  <2>7. q.met \subseteq request'[t].met
    BY <2>1
  <2>8. RowsKnown(request[t])'
    BY <1>2, <2>1, <2>2, <2>7 DEF RowsKnown, TheVersion
  <2>9. DeletionsKnown(request[t])'
    BY <1>2, <2>1, <2>2, <2>7 DEF DeletionsKnown, TheVersion
  <2>10. QED
    BY <2>4, <2>5, <2>6, <2>8, <2>9
<1>9. QED
  BY <1>4, <1>5, <1>7, <1>8 DEF ListsKnow

LEMMA ListsKnowStep ==
  ASSUME SoundState, LibraryTyped, InTurn', ListsKnow, NEW r \in Requests,
         Begin(r) \/ Query(r) \/ Die(r)
  PROVE  ListsKnow'
<1>1. CASE Query(r) \/ Die(r)
  <2>1. PICK q1 : Did(r, q1)
    BY <1>1, QueryDid
  <2>2. /\ request'[r] = q1 /\ DOMAIN request = Requests
        /\ \A s \in Requests : s # r => request'[s] = request[s]
    BY <2>1 DEF Did, Becomes, SoundState
  <2>3. request'[r].op = request[r].op
    <3>1. PICK q0 : Prepared(r, q0) /\ Went(r, q0, q1)
      BY <2>1 DEF Did
    <3>2. q1.op = q0.op /\ q0.op = request[r].op
      BY <3>1 DEF Prepared, Went, Moves, Stops, GoesOn, Same
    <3>3. QED
      BY <2>2, <3>2
  <2>4. request[r].op \in Lists =>
           /\ OnlyReads(request[r])' /\ HasMet(r)' /\ HoldAbove(request[r])'
           /\ RowsKnown(request[r])' /\ DeletionsKnown(request[r])'
    <3>1. CASE Die(r)
      BY <3>1, ListDies
    <3>2. CASE Query(r)
      BY <3>2, ListsNext, ListReadsVersion, ListReadsRows, ListReadsLog
    <3>3. QED
      BY <1>1, <3>1, <3>2
  <2>5. \A t \in Requests : t # r /\ request[t].op \in Lists =>
           /\ OnlyReads(request[t])' /\ HasMet(t)' /\ HoldAbove(request[t])'
           /\ RowsKnown(request[t])' /\ DeletionsKnown(request[t])'
    BY <1>1, OthersKnow
  <2>6. QED
    BY <2>2, <2>3, <2>4, <2>5 DEF ListsKnow
<1>2. CASE Begin(r)
  BY <1>2, BeginKnows
<1>3. QED
  BY <1>1, <1>2

(* Until a deletion of items is overtaken, a list lacks, at or below the   *)
(* version it is answered with, only what a request wrote that it met: for *)
(* any number of requests, and wherever they die.                          *)
THEOREM ListsAreHonest == Spec => []ListsLackOnlyWhatTheyMet
<1>1. Init => (InTurn => ListsKnow)
  <2> SUFFICES ASSUME Init PROVE \A t \in Requests : request[t].op \notin Lists
    BY Zenon DEF ListsKnow
  <2>1. \A t \in Requests : request[t].op = "none"
    BY DEF Init, Idle
  <2>2. QED
    BY <2>1 DEF Lists
<1>2. SoundState /\ LibraryTyped /\ (InTurn => ListsKnow) /\ [Next]_vars => (InTurn => ListsKnow)'
  <2> SUFFICES ASSUME SoundState, LibraryTyped, InTurn => ListsKnow, [Next]_vars, InTurn'
               PROVE  ListsKnow'
    OBVIOUS
  <2>1. CASE UNCHANGED vars
    <3>1. ListsKnow
      BY <2>1 DEF vars, InTurn
    <3>2. QED
      BY <2>1, <3>1 DEF vars, ListsKnow, OnlyReads, ListSteps, HasMet, HoldAbove, VersionRead,
                RowsKnown, DeletionsKnown, TheRows, TheVersion, TheLog, All, Underway
  <2>2. CASE Next
    BY <2>2, TurnsStay, ListsKnowStep DEF Next
  <2>3. QED
    BY <2>1, <2>2
<1>3. (InTurn => ListsKnow) => ListsLackOnlyWhatTheyMet
  <2> SUFFICES ASSUME ListsKnow, NEW r \in Requests
               PROVE  LET q == request[r]
                      IN  /\ Answered(r, "list items") \/ Answered(r, "list objects") =>
                               \A o \in Keys(q.keys) :
                                 row[o].live /\ row[o].version <= q.seen /\ row[o].by \notin q.met
                                   => q.base[o] = row[o]
                          /\ Answered(r, "list deleted") =>
                               \A entry \in log : entry.version <= q.seen /\ entry.by \notin q.met
                                                    => entry \in q.gone
    BY DEF ListsLackOnlyWhatTheyMet
  <2>1. request[r].op \in Lists => RowsKnown(request[r]) /\ DeletionsKnown(request[r])
    BY DEF ListsKnow
  <2>2. QED
    BY <2>1 DEF Answered, RowsKnown, DeletionsKnown, Lists
<1>4. QED
  BY AlwaysSound, <1>1, <1>2, <1>3, PTL DEF Spec

(* --------------------------- guarded batches --------------------------- *)

(* The batches of Guarded. *)
Batch(q) ==
  q.op \in {"post items", "post collections"} /\ q.header # NoHeader /\ q.calm

(* What a batch reserves it has read, the settings are not among it, and   *)
(* it stores right after it has reserved: `held' is what it reserved last, *)
(* `read' what it read last.                                               *)
NoRows(steps, from, to) == \A k \in from .. to : steps[k].do # "rows"

ReadBefore(steps, n, on) ==
  \E m \in 1 .. n - 1 : /\ steps[m].do = "rows" /\ on \subseteq steps[m].on
                        /\ NoRows(steps, m + 1, n - 1)

StoreInOrder(steps, n, held, read) ==
  steps[n].do = "store" => \/ n > 1 /\ steps[n - 1].do = "reserve"
                           \/ n = 1 /\ held \subseteq read

ReserveInOrder(steps, n, read) ==
  steps[n].do = "reserve" =>
    /\ steps[n].on \cap Settings = {}
    /\ \/ ReadBefore(steps, n, steps[n].on)
       \/ steps[n].on \subseteq read /\ NoRows(steps, 1, n - 1)

InOrder(steps, held, read) ==
  \A n \in DOMAIN steps : StoreInOrder(steps, n, held, read) /\ ReserveInOrder(steps, n, read)

(* What it has not read since. *)
ReadLast(steps, on) == ReadBefore(steps, Len(steps) + 1, on)

(* It reserves under the precondition first. *)
Quiet(step) == step.do # "reserve" /\ ~MayStopEarly(step)

ExactFirst(steps) ==
  \E n \in DOMAIN steps :
    /\ steps[n].do = "reserve" /\ "exact" \in steps[n].rules /\ steps[n].on # {}
    /\ \A m \in 1 .. n - 1 : Quiet(steps[m])

(* It reserves for something; a query that narrows the rest to what it     *)
(* found, of what is reserved later.                                       *)
Whole(steps) ==
  \A n \in DOMAIN steps : steps[n].do = "reserve" =>
    /\ steps[n].on # {}
    /\ \A m \in 1 .. n - 1 : MayStopEarly(steps[m]) => steps[n].on = steps[m].on

Firm(steps) ==
  \A n \in DOMAIN steps : ~MayStopEarly(steps[n]) /\ (steps[n].do = "reserve" => steps[n].on # {})

LEMMA Joined ==
  ASSUME NEW a \in Seq(Steps), NEW b \in Seq(Steps)
  PROVE  /\ a \o b \in Seq(Steps)
         /\ Len(a) \in Nat /\ Len(b) \in Nat
         /\ DOMAIN a = 1 .. Len(a) /\ DOMAIN b = 1 .. Len(b)
         /\ DOMAIN (a \o b) = 1 .. Len(a) + Len(b) /\ Len(a \o b) = Len(a) + Len(b)
         /\ \A n \in 1 .. Len(a) : (a \o b)[n] = a[n]
         /\ \A n \in 1 .. Len(b) : (a \o b)[n + Len(a)] = b[n]
<1> DEFINE s == a \o b
<1>1. /\ s \in Seq(Steps) /\ Len(s) = Len(a) + Len(b)
      /\ \A n \in 1 .. Len(a) + Len(b) : s[n] = IF n <= Len(a) THEN a[n] ELSE b[n - Len(a)]
  BY ConcatProperties
<1>2. Len(a) \in Nat /\ Len(b) \in Nat /\ DOMAIN a = 1 .. Len(a) /\ DOMAIN b = 1 .. Len(b)
  OBVIOUS
<1> HIDE DEF s
<1>3. DOMAIN s = 1 .. Len(a) + Len(b)
  BY <1>1
<1>4. \A n \in 1 .. Len(b) : n + Len(a) \in 1 .. Len(a) + Len(b) /\ ~(n + Len(a) <= Len(a))
                             /\ n + Len(a) - Len(a) = n
  BY <1>2
<1>5. \A n \in 1 .. Len(a) : n \in 1 .. Len(a) + Len(b) /\ n <= Len(a)
  BY <1>2
<1>6. QED
  BY <1>1, <1>2, <1>3, <1>4, <1>5 DEF s

LEMMA StaysReadLast ==
  ASSUME NEW a \in Seq(Steps), NEW b \in Seq(Steps), NEW on, ReadLast(a, on), NoRows(b, 1, Len(b))
  PROVE  ReadLast(a \o b, on)
<1> DEFINE s == a \o b
<1>1. /\ Len(a) \in Nat /\ Len(b) \in Nat /\ Len(s) = Len(a) + Len(b)
      /\ \A n \in 1 .. Len(a) : s[n] = a[n]
      /\ \A n \in 1 .. Len(b) : s[n + Len(a)] = b[n]
  BY Joined
<1> HIDE DEF s
<1>2. PICK m \in 1 .. Len(a) : /\ a[m].do = "rows" /\ on \subseteq a[m].on
                               /\ NoRows(a, m + 1, Len(a))
  BY <1>1 DEF ReadLast, ReadBefore
<1>3. s[m].do = "rows" /\ on \subseteq s[m].on /\ m \in 1 .. Len(s) + 1 - 1
  BY <1>1, <1>2
<1>4. ASSUME NEW k \in m + 1 .. Len(s) + 1 - 1
      PROVE  s[k].do # "rows"
  <2>1. CASE k <= Len(a)
    BY <1>1, <1>2, <2>1 DEF NoRows
  <2>2. CASE k > Len(a)
    <3>1. k - Len(a) \in 1 .. Len(b) /\ k = (k - Len(a)) + Len(a)
      BY <1>1, <1>2, <2>2
    <3>2. s[k] = b[k - Len(a)]
      BY <1>1, <3>1
    <3>3. QED
      BY <3>1, <3>2 DEF NoRows
  <2>3. QED
    BY <1>1, <1>2, <2>1, <2>2
<1>5. QED
  BY <1>3, <1>4 DEF s, ReadLast, ReadBefore, NoRows

(* A request that reads rows, and none after it, has read them. *)
LEMMA ReadAt ==
    ASSUME NEW steps, NEW n, NEW on, NEW m \in 1 .. n - 1,
           steps[m].do = "rows", on \subseteq steps[m].on, NoRows(steps, m + 1, n - 1)
    PROVE  ReadBefore(steps, n, on)
BY DEF ReadBefore

LEMMA JoinedInOrder ==
  ASSUME NEW a \in Seq(Steps), NEW b \in Seq(Steps), NEW held, NEW read, NEW known,
         InOrder(a, held, read), InOrder(b, {}, known), ReadLast(a, known),
         Len(b) > 0 /\ b[1].do = "store" => Len(a) > 0 /\ a[Len(a)].do = "reserve"
  PROVE  InOrder(a \o b, held, read)
<1> DEFINE s == a \o b
<1>1. /\ Len(a) \in Nat /\ Len(b) \in Nat /\ DOMAIN s = 1 .. Len(a) + Len(b)
      /\ DOMAIN a = 1 .. Len(a) /\ DOMAIN b = 1 .. Len(b)
      /\ \A n \in 1 .. Len(a) : s[n] = a[n]
      /\ \A n \in 1 .. Len(b) : s[n + Len(a)] = b[n]
  BY Joined
<1> HIDE DEF s
<1>2. ASSUME NEW n \in 1 .. Len(a)
      PROVE  StoreInOrder(s, n, held, read) /\ ReserveInOrder(s, n, read)
  <2>1. \A k \in 1 .. n : s[k] = a[k]
    BY <1>1
  <2>2. StoreInOrder(a, n, held, read) /\ ReserveInOrder(a, n, read)
    BY <1>1 DEF InOrder
  <2>3. StoreInOrder(s, n, held, read)
    <3>1. n > 1 => n - 1 \in 1 .. n
      OBVIOUS
    <3>2. QED
      BY <2>1, <2>2, <3>1 DEF StoreInOrder
  <2>4. \A from \in 1 .. n : NoRows(a, from, n - 1) => NoRows(s, from, n - 1)
    BY <2>1 DEF NoRows
  <2>5. \A on : ReadBefore(a, n, on) => ReadBefore(s, n, on)
    <3> SUFFICES ASSUME NEW on, ReadBefore(a, n, on) PROVE ReadBefore(s, n, on)
      OBVIOUS
    <3>1. PICK m \in 1 .. n - 1 : /\ a[m].do = "rows" /\ on \subseteq a[m].on
                                  /\ NoRows(a, m + 1, n - 1)
      BY DEF ReadBefore
    <3>2. m + 1 \in 1 .. n /\ m \in 1 .. n
      OBVIOUS
    <3>3. QED
      BY <2>1, <2>4, <3>1, <3>2 DEF ReadBefore
  <2>6. s[n] = a[n] /\ 1 \in 1 .. n
    BY <1>1
  <2>7. QED
    BY <2>2, <2>3, <2>4, <2>5, <2>6 DEF ReserveInOrder
<1>3. ASSUME NEW n \in 1 .. Len(b)
      PROVE  StoreInOrder(s, n + Len(a), held, read) /\ ReserveInOrder(s, n + Len(a), read)
  <2>1. StoreInOrder(b, n, {}, known) /\ ReserveInOrder(b, n, known) /\ s[n + Len(a)] = b[n]
    BY <1>1 DEF InOrder
  <2>2. StoreInOrder(s, n + Len(a), held, read)
    <3> SUFFICES ASSUME b[n].do = "store"
                 PROVE  n + Len(a) > 1 /\ s[n + Len(a) - 1].do = "reserve"
      BY <2>1 DEF StoreInOrder
    <3>1. CASE n > 1 /\ b[n - 1].do = "reserve"
      <4>1. n - 1 \in 1 .. Len(b) /\ n + Len(a) - 1 = (n - 1) + Len(a) /\ n + Len(a) > 1
        BY <1>1, <3>1
      <4>2. s[n + Len(a) - 1] = b[n - 1]
        BY <1>1, <4>1
      <4>3. QED
        BY <3>1, <4>1, <4>2
    <3>2. CASE n = 1
      <4>1. Len(a) > 0 /\ a[Len(a)].do = "reserve"
        BY <1>1, <3>2
      <4>2. n + Len(a) - 1 = Len(a) /\ Len(a) \in 1 .. Len(a) /\ n + Len(a) > 1
        BY <1>1, <3>2, <4>1
      <4>3. QED
        BY <1>1, <4>1, <4>2
    <3>3. QED
      BY <2>1, <3>1, <3>2 DEF StoreInOrder
  <2>3. ASSUME b[n].do = "reserve"
        PROVE  ReadBefore(s, n + Len(a), b[n].on)
    <3>1. CASE ReadBefore(b, n, b[n].on)
      <4>1. PICK m \in 1 .. n - 1 : /\ b[m].do = "rows" /\ b[n].on \subseteq b[m].on
                                    /\ NoRows(b, m + 1, n - 1)
        BY <3>1 DEF ReadBefore
      <4>2. m \in 1 .. Len(b) /\ m + Len(a) \in 1 .. n + Len(a) - 1
        BY <1>1
      <4>3. s[m + Len(a)] = b[m]
        BY <1>1, <4>2
      <4>4. ASSUME NEW k \in m + Len(a) + 1 .. n + Len(a) - 1
            PROVE  s[k].do # "rows"
        <5>1. /\ k - Len(a) \in 1 .. Len(b) /\ k = (k - Len(a)) + Len(a)
              /\ k - Len(a) \in m + 1 .. n - 1
          BY <1>1
        <5>2. s[k] = b[k - Len(a)]
          BY <1>1, <5>1
        <5>3. QED
          BY <4>1, <5>1, <5>2 DEF NoRows
      <4>5. QED
        <5>1. NoRows(s, (m + Len(a)) + 1, (n + Len(a)) - 1)
          BY <4>4 DEF NoRows
        <5>2. s[m + Len(a)].do = "rows" /\ b[n].on \subseteq s[m + Len(a)].on
          BY <4>1, <4>3
        <5>3. QED
          BY <1>1, <4>2, <5>1, <5>2, ReadAt
    <3>2. CASE b[n].on \subseteq known /\ NoRows(b, 1, n - 1)
      <4>1. PICK m \in 1 .. Len(a) : /\ a[m].do = "rows" /\ known \subseteq a[m].on
                                     /\ NoRows(a, m + 1, Len(a))
        BY <1>1 DEF ReadLast, ReadBefore
      <4>2. m \in 1 .. n + Len(a) - 1 /\ s[m] = a[m]
        BY <1>1
      <4>3. ASSUME NEW k \in m + 1 .. n + Len(a) - 1
            PROVE  s[k].do # "rows"
        <5>1. CASE k <= Len(a)
          <6>1. k \in 1 .. Len(a) /\ k \in m + 1 .. Len(a)
            BY <1>1, <5>1
          <6>2. QED
            BY <1>1, <4>1, <6>1 DEF NoRows
        <5>2. CASE k > Len(a)
          <6>1. /\ k - Len(a) \in 1 .. Len(b) /\ k = (k - Len(a)) + Len(a)
                /\ k - Len(a) \in 1 .. n - 1
            BY <1>1, <5>2
          <6>2. s[k] = b[k - Len(a)]
            BY <1>1, <6>1
          <6>3. QED
            BY <3>2, <6>1, <6>2 DEF NoRows
        <5>3. QED
          BY <1>1, <5>1, <5>2
      <4>4. NoRows(s, m + 1, (n + Len(a)) - 1)
        BY <4>3 DEF NoRows
      <4>5. s[m].do = "rows" /\ b[n].on \subseteq s[m].on
        BY <3>2, <4>1, <4>2
      <4>6. n + Len(a) \in Nat /\ m \in Nat
        BY <1>1, <4>1
      <4>7. QED
        BY <4>2, <4>4, <4>5, <4>6, ReadAt
    <3>3. QED
      BY <2>1, <2>3, <3>1, <3>2 DEF ReserveInOrder
  <2>4. QED
    BY <2>1, <2>2, <2>3 DEF ReserveInOrder
<1>4. ASSUME NEW n \in DOMAIN s
      PROVE  StoreInOrder(s, n, held, read) /\ ReserveInOrder(s, n, read)
  <2>0. n \in 1 .. Len(a) + Len(b) /\ Len(a) \in Nat /\ Len(b) \in Nat
    BY <1>1
  <2>1. CASE n <= Len(a)
    BY <1>2, <2>0, <2>1
  <2>2. CASE n > Len(a)
    <3>1. n - Len(a) \in 1 .. Len(b) /\ n = (n - Len(a)) + Len(a)
      BY <2>0, <2>2
    <3> DEFINE k == n - Len(a)
    <3>2. StoreInOrder(s, k + Len(a), held, read) /\ ReserveInOrder(s, k + Len(a), read)
      BY <1>3, <3>1
    <3>3. QED
      BY <3>1, <3>2
  <2>3. QED
    BY <2>0, <2>1, <2>2
<1>5. QED
  BY <1>4 DEF InOrder, s

LEMMA JoinedExactFirst ==
  ASSUME NEW a \in Seq(Steps), NEW b \in Seq(Steps)
  PROVE  /\ ExactFirst(a) => ExactFirst(a \o b)
         /\ (\A n \in DOMAIN a : Quiet(a[n])) /\ ExactFirst(b) => ExactFirst(a \o b)
         /\ (\A n \in DOMAIN a : Quiet(a[n])) /\ (\A n \in DOMAIN b : Quiet(b[n]))
              => \A n \in DOMAIN (a \o b) : Quiet((a \o b)[n])
<1> DEFINE s == a \o b
<1>1. /\ Len(a) \in Nat /\ Len(b) \in Nat /\ DOMAIN s = 1 .. Len(a) + Len(b)
      /\ DOMAIN a = 1 .. Len(a) /\ DOMAIN b = 1 .. Len(b)
      /\ \A n \in 1 .. Len(a) : s[n] = a[n]
      /\ \A n \in 1 .. Len(b) : s[n + Len(a)] = b[n]
  BY Joined
<1> HIDE DEF s
<1>2. ASSUME ExactFirst(a) PROVE ExactFirst(s)
  <2>1. PICK n \in 1 .. Len(a) :
           /\ a[n].do = "reserve" /\ "exact" \in a[n].rules /\ a[n].on # {}
           /\ \A m \in 1 .. n - 1 : Quiet(a[m])
    BY <1>1, <1>2 DEF ExactFirst
  <2>2. n \in DOMAIN s /\ \A m \in 1 .. n : s[m] = a[m]
    BY <1>1
  <2>3. n \in 1 .. n /\ \A m \in 1 .. n - 1 : m \in 1 .. n
    OBVIOUS
  <2>4. QED
    BY <2>1, <2>2, <2>3 DEF ExactFirst
<1>3. ASSUME \A n \in DOMAIN a : Quiet(a[n]), NEW n \in 1 .. Len(b), \A m \in 1 .. n - 1 : Quiet(b[m])
      PROVE  /\ n + Len(a) \in DOMAIN s /\ s[n + Len(a)] = b[n]
             /\ \A m \in 1 .. n + Len(a) - 1 : Quiet(s[m])
  <2>1. n + Len(a) \in DOMAIN s /\ s[n + Len(a)] = b[n]
    BY <1>1
  <2>2. ASSUME NEW m \in 1 .. n + Len(a) - 1 PROVE Quiet(s[m])
    <3>1. CASE m <= Len(a)
      BY <1>1, <1>3, <3>1
    <3>2. CASE m > Len(a)
      <4>1. /\ m - Len(a) \in 1 .. Len(b) /\ m = (m - Len(a)) + Len(a)
            /\ m - Len(a) \in 1 .. n - 1
        BY <1>1, <3>2
      <4>2. s[m] = b[m - Len(a)]
        BY <1>1, <4>1
      <4>3. QED
        BY <1>3, <4>1, <4>2
    <3>3. QED
      BY <1>1, <3>1, <3>2
  <2>3. QED
    BY <2>1, <2>2
<1>4. ASSUME \A n \in DOMAIN a : Quiet(a[n]), ExactFirst(b) PROVE ExactFirst(s)
  <2>1. PICK n \in 1 .. Len(b) :
           /\ b[n].do = "reserve" /\ "exact" \in b[n].rules /\ b[n].on # {}
           /\ \A m \in 1 .. n - 1 : Quiet(b[m])
    BY <1>1, <1>4 DEF ExactFirst
  <2>2. /\ n + Len(a) \in DOMAIN s /\ s[n + Len(a)] = b[n]
        /\ \A m \in 1 .. n + Len(a) - 1 : Quiet(s[m])
    BY <1>3, <1>4, <2>1
  <2>3. QED
    BY <2>1, <2>2 DEF ExactFirst
<1>5. ASSUME \A n \in DOMAIN a : Quiet(a[n]), \A n \in DOMAIN b : Quiet(b[n]), NEW n \in DOMAIN s
      PROVE  Quiet(s[n])
  <2>1. CASE n <= Len(a)
    BY <1>1, <1>5, <2>1
  <2>2. CASE n > Len(a)
    <3>1. n - Len(a) \in 1 .. Len(b) /\ n = (n - Len(a)) + Len(a)
      BY <1>1, <1>5, <2>2
    <3>2. s[n] = b[n - Len(a)]
      BY <1>1, <3>1
    <3>3. QED
      BY <1>1, <1>5, <3>1, <3>2
  <2>3. QED
    BY <1>1, <1>5, <2>1, <2>2
<1>6. QED
  BY <1>2, <1>4, <1>5 DEF s

LEMMA JoinedFirm ==
  ASSUME NEW a \in Seq(Steps), NEW b \in Seq(Steps), Firm(a)
  PROVE  /\ Firm(b) => Firm(a \o b)
         /\ Whole(b) => Whole(a \o b)
<1> DEFINE s == a \o b
<1>1. /\ Len(a) \in Nat /\ Len(b) \in Nat /\ DOMAIN s = 1 .. Len(a) + Len(b)
      /\ DOMAIN a = 1 .. Len(a) /\ DOMAIN b = 1 .. Len(b)
      /\ \A n \in 1 .. Len(a) : s[n] = a[n]
      /\ \A n \in 1 .. Len(b) : s[n + Len(a)] = b[n]
  BY Joined
<1> HIDE DEF s
<1>2. \A n \in DOMAIN s :
         \/ n \in DOMAIN a /\ s[n] = a[n]
         \/ n > Len(a) /\ n - Len(a) \in DOMAIN b /\ s[n] = b[n - Len(a)]
  <2> SUFFICES ASSUME NEW n \in 1 .. Len(a) + Len(b), n > Len(a)
               PROVE  n - Len(a) \in 1 .. Len(b) /\ s[n] = b[n - Len(a)]
    BY <1>1
  <2>1. n - Len(a) \in 1 .. Len(b) /\ n = (n - Len(a)) + Len(a)
    BY <1>1
  <2>2. QED
    BY <1>1, <2>1
<1>3. Firm(b) => Firm(s)
  BY <1>2 DEF Firm
<1>4. ASSUME Whole(b), NEW n \in DOMAIN s, s[n].do = "reserve"
      PROVE  /\ s[n].on # {}
             /\ \A m \in 1 .. n - 1 : MayStopEarly(s[m]) => s[n].on = s[m].on
  <2>1. CASE n \in DOMAIN a /\ s[n] = a[n]
    <3>1. \A m \in 1 .. n - 1 : m \in DOMAIN a /\ s[m] = a[m]
      BY <1>1, <2>1
    <3>2. QED
      BY <1>4, <2>1, <3>1 DEF Firm
  <2>2. CASE n > Len(a) /\ n - Len(a) \in DOMAIN b /\ s[n] = b[n - Len(a)]
    <3> DEFINE k == n - Len(a)
    <3>1. /\ b[k].on # {}
          /\ \A m \in 1 .. k - 1 : MayStopEarly(b[m]) => b[k].on = b[m].on
      BY <1>4, <2>2 DEF Whole
    <3>2. ASSUME NEW m \in 1 .. n - 1, MayStopEarly(s[m]) PROVE s[n].on = s[m].on
      <4>1. m \in DOMAIN s
        BY <1>1, <1>4
      <4>2. CASE m \in DOMAIN a /\ s[m] = a[m]
        BY <3>2, <4>2 DEF Firm
      <4>3. CASE m > Len(a) /\ m - Len(a) \in DOMAIN b /\ s[m] = b[m - Len(a)]
        <5>1. m - Len(a) \in 1 .. k - 1
          BY <1>1, <1>4, <4>3
        <5>2. QED
          BY <2>2, <3>1, <3>2, <4>3, <5>1
      <4>4. QED
        BY <1>2, <4>1, <4>2, <4>3
    <3>3. QED
      BY <2>2, <3>1, <3>2
  <2>3. QED
    BY <1>2, <1>4, <2>1, <2>2
<1>5. Whole(b) => Whole(s)
  BY <1>4 DEF Whole
<1>6. QED
  BY <1>3, <1>5 DEF s

LEMMA QuietIsFirm ==
  ASSUME NEW s, \A n \in DOMAIN s : Quiet(s[n])
  PROVE  Firm(s)
  BY DEF Firm, Quiet

LEMMA FirmIsWhole ==
  ASSUME NEW s \in Seq(Steps), Firm(s)
  PROVE  Whole(s)
<1>1. \A n \in DOMAIN s : \A m \in 1 .. n - 1 : m \in DOMAIN s
  OBVIOUS
<1>2. QED
  BY <1>1 DEF Firm, Whole

(* Steps of one query each, by what they do. *)
LEMMA OneOfProgram ==
  ASSUME NEW do \in Queries, NEW on \in SUBSET Objects, NEW rules \in SUBSET AllRules
  PROVE  LET s == <<Step(do, on, rules)>>
         IN  /\ s \in Seq(Steps) /\ Len(s) = 1 /\ DOMAIN s = 1 .. 1
             /\ s[1].do = do /\ s[1].on = on /\ s[1].rules = rules
<1> DEFINE step == Step(do, on, rules)
<1>1. step \in Steps /\ step.do = do /\ step.on = on /\ step.rules = rules
  BY DEF Step, Steps
<1> HIDE DEF step
<1>2. LET s == <<step>>
      IN  s \in Seq(Steps) /\ Len(s) = 1 /\ DOMAIN s = 1 .. 1 /\ s[1] = step
  BY <1>1
<1>3. QED
  BY <1>1, <1>2 DEF step

LEMMA TwoOfProgram ==
  ASSUME NEW a \in Steps, NEW b \in Steps
  PROVE  LET s == <<a, b>>
         IN  s \in Seq(Steps) /\ Len(s) = 2 /\ DOMAIN s = 1 .. 2 /\ s[1] = a /\ s[2] = b
  OBVIOUS

(* Reading queries, which neither reserve nor store, fit in everywhere. *)
LEMMA ReadsInOrder ==
  ASSUME NEW s, NEW held, NEW read, \A n \in DOMAIN s : s[n].do \notin {"reserve", "store"}
  PROVE  InOrder(s, held, read)
  BY DEF InOrder, StoreInOrder, ReserveInOrder

LEMMA ClaimInOrder ==
  ASSUME NEW q, q.conditional, NEW on \in SUBSET Objects, NEW known, on \subseteq known,
         on # {}, on \cap Settings = {}
  PROVE  LET s == Claim(q, on)
         IN  /\ s \in Seq(Steps) /\ Len(s) = 2 /\ s[2].do = "reserve"
             /\ NoRows(s, 1, Len(s)) /\ s[1].do # "store"
             /\ InOrder(s, {}, known) /\ ExactFirst(s) /\ Firm(s)
<1> DEFINE claim == Step("claim", on, {})
           exact == Step("reserve", on, {"exact"})
           s     == <<claim, exact>>
<1>1. Claim(q, on) = s
  BY DEF Claim
<1>2. /\ claim \in Steps /\ claim.do = "claim" /\ claim.rules = {}
      /\ exact \in Steps /\ exact.do = "reserve" /\ exact.rules = {"exact"} /\ exact.on = on
  BY StepIsStep DEF Queries, AllRules, Step
<1> HIDE DEF claim, exact
<1>3. s \in Seq(Steps) /\ Len(s) = 2 /\ DOMAIN s = 1 .. 2 /\ s[1] = claim /\ s[2] = exact
  BY <1>2, TwoOfProgram
<1> HIDE DEF s
<1>4. NoRows(s, 1, 2) /\ NoRows(s, 1, 1)
  BY <1>2, <1>3 DEF NoRows
<1>5. InOrder(s, {}, known)
  <2>1. StoreInOrder(s, 1, {}, known) /\ ReserveInOrder(s, 1, known)
    BY <1>2, <1>3 DEF StoreInOrder, ReserveInOrder
  <2>2. StoreInOrder(s, 2, {}, known) /\ ReserveInOrder(s, 2, known)
    <3>1. 2 - 1 = 1
      OBVIOUS
    <3>2. QED
      BY <1>2, <1>3, <1>4, <3>1 DEF StoreInOrder, ReserveInOrder
  <2>3. \A n \in 1 .. 2 : n = 1 \/ n = 2
    OBVIOUS
  <2>4. QED
    BY <1>3, <2>1, <2>2, <2>3 DEF InOrder
<1>6. ExactFirst(s)
  <2>1. Quiet(s[1])
    BY <1>2, <1>3 DEF Quiet, MayStopEarly
  <2>2. \A m \in 1 .. 2 - 1 : m = 1
    OBVIOUS
  <2>3. 2 \in DOMAIN s
    BY <1>3
  <2>4. QED
    BY <1>2, <1>3, <2>1, <2>2, <2>3 DEF ExactFirst
<1>7. s[2].do = "reserve" /\ s[1].do # "store" /\ NoRows(s, 1, Len(s))
  BY <1>2, <1>3, <1>4
<1>8. Firm(s)
  <2>1. \A n \in 1 .. 2 : n = 1 \/ n = 2
    OBVIOUS
  <2>2. QED
    BY <1>2, <1>3, <2>1 DEF Firm, MayStopEarly
<1>9. QED
  BY <1>1, <1>3, <1>5, <1>6, <1>7, <1>8

(* What is stored under the versions that were reserved just before. *)
LEMMA StoreFollows ==
  ASSUME NEW a \in Seq(Steps), NEW on \in SUBSET Objects, NEW rules \in SUBSET AllRules, NEW known,
         "some" \notin rules, Firm(a), InOrder(a, {}, {}), ReadLast(a, known), Len(a) > 0, a[Len(a)].do = "reserve"
  PROVE  LET s == a \o <<Step("store", on, rules)>>
         IN  s \in Seq(Steps) /\ InOrder(s, {}, {}) /\ ReadLast(s, known) /\ Firm(s)
<1> DEFINE b == <<Step("store", on, rules)>>
<1>1. b \in Seq(Steps) /\ Len(b) = 1 /\ DOMAIN b = 1 .. 1 /\ b[1].do = "store" /\ b[1].rules = rules
  <2>1. "store" \in Queries
    BY DEF Queries
  <2>2. QED
    BY <2>1, OneOfProgram
<1> HIDE DEF b
<1>2. NoRows(b, 1, Len(b))
  <2>1. \A k \in 1 .. 1 : k = 1
    OBVIOUS
  <2>2. QED
    BY <1>1, <2>1 DEF NoRows
<1>3. InOrder(b, {}, known)
  <2>1. \A n \in 1 .. 1 : n = 1
    OBVIOUS
  <2>2. QED
    BY <1>1, <2>1 DEF InOrder, StoreInOrder, ReserveInOrder
<1>4. a \o b \in Seq(Steps)
  BY <1>1, JoinedSteps
<1>5. InOrder(a \o b, {}, {})
  BY <1>1, <1>3, JoinedInOrder
<1>6. ReadLast(a \o b, known)
  BY <1>1, <1>2, StaysReadLast
<1>7. Firm(a \o b)
  <2>1. \A n \in 1 .. 1 : n = 1
    OBVIOUS
  <2>2. Firm(b)
    BY <1>1, <2>1 DEF Firm, MayStopEarly
  <2>3. QED
    BY <1>1, <2>2, JoinedFirm
<1>8. QED
  BY <1>4, <1>5, <1>6, <1>7 DEF b

LEMMA RelationsInOrder ==
  ASSUME NEW q \in AllShapes, Keys(q.related) \cap Settings = {}
  PROVE  LET s == SyncRelations(q)
         IN  /\ s \in Seq(Steps) /\ InOrder(s, {}, {}) /\ Whole(s)
             /\ Len(s) > 0 => s[1].do # "store"
<1> DEFINE rel    == Keys(q.related)
           target == Step("rows", rel, {"some"})
           num    == Step("reserve", rel, {})
           put    == Step("store", rel, {})
           s      == <<target>> \o <<num, put>>
<1>1. /\ target \in Steps /\ num \in Steps /\ put \in Steps
      /\ target.do = "rows" /\ target.on = rel
      /\ num.do = "reserve" /\ num.on = rel /\ put.do = "store"
      /\ (q.related # <<>> => rel # {})
  <2>1. rel \in SUBSET Objects
    BY KeysAreObjects DEF AllShapes
  <2>2. target \in Steps /\ num \in Steps /\ put \in Steps
    BY <2>1, StepIsStep DEF Queries, AllRules
  <2>3. q.related # <<>> => 1 \in DOMAIN q.related
    <3>1. q.related \in Seq(Objects)
      BY DEF AllShapes
    <3>2. QED
      BY <3>1, EmptySeq
  <2>4. q.related # <<>> => rel # {}
    BY <2>3 DEF Keys
  <2>5. QED
    BY <2>2, <2>4 DEF Step
<1>2. SyncRelations(q) = IF q.related = <<>> THEN <<>> ELSE s
  BY DEF SyncRelations, ReadTargets, Write
<1> HIDE DEF target, num, put
<1>3. /\ s \in Seq(Steps) /\ DOMAIN s = 1 .. 3 /\ Len(s) = 3
      /\ s[1] = target /\ s[2] = num /\ s[3] = put
  <2>1. <<target>> \in Seq(Steps) /\ Len(<<target>>) = 1 /\ <<target>>[1] = target
    BY <1>1
  <2>2. <<num, put>> \in Seq(Steps) /\ Len(<<num, put>>) = 2
        /\ <<num, put>>[1] = num /\ <<num, put>>[2] = put
    BY <1>1
  <2>3. /\ s \in Seq(Steps) /\ Len(s) = 3
        /\ \A i \in 1 .. 3 : s[i] = IF i <= 1 THEN <<target>>[i] ELSE <<num, put>>[i - 1]
    BY <2>1, <2>2, ConcatProperties
  <2> HIDE DEF s
  <2>4. DOMAIN s = 1 .. 3
    BY <2>3
  <2>5. QED
    BY <2>1, <2>2, <2>3, <2>4
<1> HIDE DEF s, rel
<1>4. ASSUME rel \cap Settings = {} PROVE InOrder(s, {}, {})
  <2>1. StoreInOrder(s, 1, {}, {}) /\ ReserveInOrder(s, 1, {})
    BY <1>1, <1>3 DEF StoreInOrder, ReserveInOrder
  <2>2. StoreInOrder(s, 2, {}, {}) /\ ReserveInOrder(s, 2, {})
    <3>1. ReadBefore(s, 2, rel)
      BY <1>1, <1>3 DEF ReadBefore, NoRows
    <3>2. QED
      BY <1>1, <1>3, <1>4, <3>1 DEF StoreInOrder, ReserveInOrder
  <2>3. StoreInOrder(s, 3, {}, {}) /\ ReserveInOrder(s, 3, {})
    <3>1. 3 - 1 = 2 /\ 3 > 1
      OBVIOUS
    <3>2. QED
      BY <1>1, <1>3, <3>1 DEF StoreInOrder, ReserveInOrder
  <2>4. \A n \in 1 .. 3 : n = 1 \/ n = 2 \/ n = 3
    OBVIOUS
  <2>5. QED
    BY <1>3, <2>1, <2>2, <2>3, <2>4 DEF InOrder
<1>5. InOrder(<<>>, {}, {}) /\ Len(<<>>) = 0
  BY DEF InOrder
<1>6. rel \cap Settings = {}
  BY DEF rel
<1>7. Whole(<<>>) /\ (rel # {} => Whole(s))
  <2>1. Whole(<<>>)
    BY DEF Whole
  <2>2. \A n \in 1 .. 3 : n = 1 \/ n = 2 \/ n = 3
    OBVIOUS
  <2>3. \A m \in 1 .. 2 - 1 : m = 1
    OBVIOUS
  <2>4. rel # {} => Whole(s)
    BY <1>1, <1>3, <2>2, <2>3 DEF Whole
  <2>5. QED
    BY <2>1, <2>4
<1>8. QED
  BY <1>1, <1>2, <1>3, <1>4, <1>5, <1>6, <1>7, NoStep

(* A move to the root neither reserves nor stores.                         *)
LEMMA MoveToRootInOrder ==
  ASSUME NEW on \in SUBSET Objects, NEW known
  PROVE  LET s == MoveToRoot(on)
         IN  /\ s \in Seq(Steps) /\ InOrder(s, {}, known) /\ NoRows(s, 1, Len(s)) /\ Firm(s)
             /\ Len(s) > 0 => s[1].do # "store"
<1> DEFINE walk == Step("walk", on, {})
           move == Step("move", on, {})
           s    == <<walk, move>>
<1>1. /\ walk \in Steps /\ walk.do = "walk" /\ walk.rules = {}
      /\ move \in Steps /\ move.do = "move" /\ move.rules = {}
  BY StepIsStep DEF Queries, AllRules, Step
<1>2. MoveToRoot(on) = s
  BY DEF MoveToRoot
<1> HIDE DEF walk, move
<1>3. s \in Seq(Steps) /\ Len(s) = 2 /\ DOMAIN s = 1 .. 2 /\ s[1] = walk /\ s[2] = move
  BY <1>1, TwoOfProgram
<1> HIDE DEF s
<1>4. \A n \in 1 .. 2 : n = 1 \/ n = 2
  OBVIOUS
<1>5. \A n \in DOMAIN s : Quiet(s[n]) /\ s[n].do \notin {"reserve", "store", "rows"}
  BY <1>1, <1>3, <1>4 DEF Quiet, MayStopEarly
<1>6. InOrder(s, {}, known) /\ Firm(s)
  BY <1>5, ReadsInOrder, QuietIsFirm
<1>7. NoRows(s, 1, Len(s)) /\ s[1].do # "store"
  BY <1>1, <1>3, <1>5 DEF NoRows
<1>8. QED
  BY <1>2, <1>3, <1>6, <1>7

LEMMA WriteCollectionsInOrder ==
  ASSUME NEW q, NEW keys \in Seq(Objects), NEW known, Keys(keys) \subseteq known,
         Keys(keys) \cap Settings = {}
  PROVE  LET s == WriteCollections(q, keys)
         IN  /\ s \in Seq(Steps) /\ InOrder(s, {}, known) /\ Firm(s)
             /\ Len(s) > 0 => s[1].do # "store"
<1> DEFINE s      == WriteCollections(q, keys)
           key(n) == keys[(n + 3) \div 4]
           put(n) == Step("reserve", {key(n)}, {})
           set(n) == Step("store", {key(n)}, {})
           look(n) == Step("walk", Under(q, key(n)), {})
           move(n) == Step("move", Under(q, key(n)), {})
<1>1. s \in Seq(Steps) /\ DOMAIN s = 1 .. 4 * Len(keys)
  BY WriteCollectionsSteps DEF WriteCollections
<1>2. \A n \in 1 .. 4 * Len(keys) :
        s[n] = CASE n % 4 = 1 -> put(n) [] n % 4 = 2 -> set(n) [] n % 4 = 3 -> look(n) [] OTHER -> move(n)
  BY DEF WriteCollections
<1>k. \A n : /\ put(n).do = "reserve" /\ put(n).on = {key(n)} /\ put(n).rules = {}
             /\ set(n).do = "store" /\ set(n).rules = {}
             /\ look(n).do = "walk" /\ look(n).rules = {}
             /\ move(n).do = "move" /\ move(n).rules = {}
  BY DEF Step
<1> HIDE DEF s, key, put, set, look, move
<1>3. \A n \in 1 .. 4 * Len(keys) :
         /\ s[n].do \in {"reserve", "store", "walk", "move"} /\ s[n].rules = {}
         /\ s[n].do = "reserve" => n % 4 = 1 /\ s[n].on = {key(n)}
         /\ s[n].do = "store" => n % 4 = 2
         /\ n % 4 = 1 => s[n].do = "reserve"
  <2> SUFFICES ASSUME NEW n \in 1 .. 4 * Len(keys)
               PROVE  /\ s[n].do \in {"reserve", "store", "walk", "move"} /\ s[n].rules = {}
                      /\ s[n].do = "reserve" => n % 4 = 1 /\ s[n].on = {key(n)}
                      /\ s[n].do = "store" => n % 4 = 2
                      /\ n % 4 = 1 => s[n].do = "reserve"
    OBVIOUS
  <2>1. CASE n % 4 = 1
    BY <1>2, <1>k, <2>1
  <2>2. CASE n % 4 = 2
    BY <1>2, <1>k, <2>2
  <2>3. CASE n % 4 = 3
    BY <1>2, <1>k, <2>3
  <2>4. CASE n % 4 # 1 /\ n % 4 # 2 /\ n % 4 # 3
    BY <1>2, <1>k, <2>4
  <2>5. QED
    BY <2>1, <2>2, <2>3, <2>4
<1>5. ASSUME NEW n \in 1 .. 4 * Len(keys)
      PROVE  StoreInOrder(s, n, {}, known) /\ ReserveInOrder(s, n, known)
  <2>1. ReserveInOrder(s, n, known)
    <3> SUFFICES ASSUME s[n].do = "reserve"
                 PROVE  s[n].on \cap Settings = {} /\ s[n].on \subseteq known /\ NoRows(s, 1, n - 1)
      BY DEF ReserveInOrder
    <3>1. s[n].on = {key(n)}
      BY <1>3
    <3>2. (n + 3) \div 4 \in DOMAIN keys
      OBVIOUS
    <3>3. key(n) \in Keys(keys)
      BY <3>2 DEF Keys, key
    <3>4. \A k \in 1 .. n - 1 : k \in 1 .. 4 * Len(keys)
      OBVIOUS
    <3>5. NoRows(s, 1, n - 1)
      BY <1>3, <3>4 DEF NoRows
    <3>6. QED
      BY <3>1, <3>3, <3>5
  <2>2. StoreInOrder(s, n, {}, known)
    <3> SUFFICES ASSUME s[n].do = "store"
                 PROVE  n > 1 /\ s[n - 1].do = "reserve"
      BY DEF StoreInOrder
    <3>1. n % 4 = 2
      BY <1>3
    <3>2. n > 1 /\ (n - 1) % 4 = 1 /\ n - 1 \in 1 .. 4 * Len(keys)
      BY <3>1
    <3>3. QED
      BY <1>3, <3>2
  <2>3. QED
    BY <2>1, <2>2
<1>6. InOrder(s, {}, known)
  BY <1>1, <1>5 DEF InOrder
<1>7. Len(s) > 0 => s[1].do # "store"
  <2>1. Len(s) = 4 * Len(keys)
    BY <1>1
  <2>2. Len(s) > 0 => 1 \in 1 .. 4 * Len(keys) /\ 1 % 4 = 1
    BY <2>1
  <2>3. QED
    BY <1>3, <2>2
<1>8. Firm(s)
  BY <1>1, <1>3 DEF Firm, MayStopEarly
<1>9. QED
  BY <1>1, <1>6, <1>7, <1>8 DEF s

LEMMA OneQuiet ==
  ASSUME NEW step \in Steps, Quiet(step), NEW do, step.do = do
  PROVE  <<step>> \in Seq(Steps) /\ \A n \in DOMAIN <<step>> : <<step>>[n].do = do /\ Quiet(<<step>>[n])
<1> DEFINE s == <<step>>
<1>1. s \in Seq(Steps) /\ Len(s) = 1 /\ DOMAIN s = 1 .. 1 /\ s[1] = step
  OBVIOUS
<1> HIDE DEF s
<1>2. \A n \in 1 .. 1 : n = 1
  OBVIOUS
<1>3. \A n \in DOMAIN s : s[n].do = do /\ Quiet(s[n])
  BY <1>1, <1>2
<1>4. QED
  BY <1>1, <1>3 DEF s

LEMMA FindingToken ==
  LET s == <<Step("find token", {}, {})>>
  IN  s \in Seq(Steps) /\ \A n \in DOMAIN s : s[n].do = "find token" /\ Quiet(s[n])
<1> DEFINE step == Step("find token", {}, {})
<1>1. step \in Steps /\ step.do = "find token" /\ step.rules = {}
  BY StepIsStep DEF Queries, Step
<1>2. Quiet(step)
  BY <1>1 DEF Quiet, MayStopEarly
<1> HIDE DEF step
<1>3. LET s == <<step>>
      IN  s \in Seq(Steps) /\ \A n \in DOMAIN s : s[n].do = "find token" /\ Quiet(s[n])
  BY <1>1, <1>2, OneQuiet
<1>4. QED
  BY <1>3 DEF step

LEMMA PostItemsInOrder ==
  ASSUME NEW q \in AllShapes, q.conditional, q.keys # <<>>,
         Keys(q.keys) \cap Settings = {}, Keys(q.related) \cap Settings = {}
  PROVE  ExactFirst(PostItems(q)) /\ InOrder(PostItems(q), {}, {}) /\ Whole(PostItems(q))
<1> DEFINE on    == All(q)
           look  == IF q.token = NoToken THEN <<>> ELSE <<Step("find token", {}, {})>>
           store == Step("store", on, {"token"})
           read  == ReadExactVersion \o ReadRows(on)
           sync  == SyncRelations(q)
<1>1. on \in SUBSET Objects /\ on # {} /\ on \cap Settings = {}
  <2>1. q.keys \in Seq(Objects) /\ on = Keys(q.keys)
    BY DEF AllShapes, All
  <2>2. 1 \in DOMAIN q.keys
    BY <2>1, EmptySeq
  <2>3. QED
    BY <2>1, <2>2, KeysAreObjects DEF Keys
<1> HIDE DEF on
<1>2. /\ read \in Seq(Steps) /\ ReadLast(read, on) /\ InOrder(read, {}, {})
      /\ \A n \in DOMAIN read : Quiet(read[n])
  <2> DEFINE first == Step("version", {}, {"exact"})
             rows  == Step("rows", on, {})
  <2>1. /\ first \in Steps /\ first.do = "version" /\ first.rules = {"exact"}
        /\ rows \in Steps /\ rows.do = "rows" /\ rows.on = on /\ rows.rules = {}
    <3>1. first \in Steps /\ rows \in Steps
      BY <1>1, StepIsStep DEF Queries, AllRules
    <3>2. QED
      BY <3>1 DEF Step
  <2>2. read = <<first>> \o <<rows>>
    BY DEF ReadExactVersion, ReadRows
  <2> HIDE DEF first, rows, read
  <2>3. <<first>> \in Seq(Steps) /\ Len(<<first>>) = 1 /\ <<first>>[1] = first
    BY <2>1
  <2>4. <<rows>> \in Seq(Steps) /\ Len(<<rows>>) = 1 /\ <<rows>>[1] = rows
    BY <2>1
  <2>5. /\ read \in Seq(Steps) /\ Len(read) = 2 /\ DOMAIN read = 1 .. 2
        /\ read[1] = first /\ read[2] = rows
    <3>1. /\ read \in Seq(Steps) /\ Len(read) = 2
          /\ \A i \in 1 .. 2 : read[i] = IF i <= 1 THEN <<first>>[i] ELSE <<rows>>[i - 1]
      BY <2>2, <2>3, <2>4, ConcatProperties
    <3>2. QED
      BY <2>3, <2>4, <3>1
  <2>6. \A n \in DOMAIN read : n = 1 \/ n = 2
    BY <2>5
  <2>7. \A n \in DOMAIN read : Quiet(read[n]) /\ read[n].do \notin {"reserve", "store"}
    BY <2>1, <2>5, <2>6 DEF Quiet, MayStopEarly
  <2>8. ReadLast(read, on)
    <3>1. 2 \in 1 .. Len(read) + 1 - 1 /\ \A k \in 2 + 1 .. Len(read) + 1 - 1 : FALSE
      BY <2>5
    <3>2. QED
      BY <2>1, <2>5, <3>1 DEF ReadLast, ReadBefore, NoRows
  <2>9. QED
    BY <2>5, <2>7, <2>8, ReadsInOrder
<1> HIDE DEF read
<1>3. /\ look \in Seq(Steps) /\ \A n \in DOMAIN look : look[n].do = "find token" /\ Quiet(look[n])
  <2> DEFINE s == <<Step("find token", {}, {})>>
  <2>3. s \in Seq(Steps) /\ \A n \in DOMAIN s : s[n].do = "find token" /\ Quiet(s[n])
    BY FindingToken
  <2>4. look = <<>> \/ look = s
    OBVIOUS
  <2> HIDE DEF look, s
  <2>5. \A n \in DOMAIN <<>> : FALSE
    OBVIOUS
  <2>6. CASE look = s
    BY <2>3, <2>6
  <2>7. CASE look = <<>>
    BY <2>5, <2>7, NoStep
  <2>8. QED
    BY <2>4, <2>6, <2>7
<1> HIDE DEF look
<1> DEFINE looked == read \o look
<1>4. /\ looked \in Seq(Steps) /\ ReadLast(looked, on) /\ InOrder(looked, {}, {})
      /\ \A n \in DOMAIN looked : Quiet(looked[n])
  <2>1. looked \in Seq(Steps) /\ DOMAIN look = 1 .. Len(look)
    <3>1. looked \in Seq(Steps)
      BY <1>2, <1>3, JoinedSteps
    <3>2. DOMAIN look = 1 .. Len(look)
      BY <1>3, LenProperties
    <3>3. QED
      BY <3>1, <3>2
  <2>2. NoRows(look, 1, Len(look)) /\ InOrder(look, {}, on)
    BY <1>3, <2>1, ReadsInOrder DEF NoRows
  <2>3. ReadLast(looked, on)
    BY <1>2, <1>3, <2>2, StaysReadLast
  <2>4. Len(look) > 0 => look[1].do # "store"
    <3>1. Len(look) \in Nat
      BY <1>3, LenProperties
    <3>2. Len(look) > 0 => 1 \in DOMAIN look
      BY <2>1, <3>1
    <3>3. QED
      BY <1>3, <3>2
  <2>5. InOrder(looked, {}, {})
    BY <1>2, <1>3, <2>2, <2>4, JoinedInOrder
  <2>6. \A n \in DOMAIN looked : Quiet(looked[n])
    BY <1>2, <1>3, JoinedExactFirst
  <2>7. QED
    BY <2>1, <2>3, <2>5, <2>6
<1> HIDE DEF looked
<1> DEFINE claim   == Claim(q, on)
           claimed == looked \o claim
<1>5. /\ claimed \in Seq(Steps) /\ ReadLast(claimed, on) /\ InOrder(claimed, {}, {})
      /\ ExactFirst(claimed) /\ Len(claimed) > 0 /\ claimed[Len(claimed)].do = "reserve"
      /\ Firm(claimed)
  <2>1. /\ claim \in Seq(Steps) /\ Len(claim) = 2 /\ claim[2].do = "reserve"
        /\ NoRows(claim, 1, Len(claim)) /\ claim[1].do # "store"
        /\ InOrder(claim, {}, on) /\ ExactFirst(claim) /\ Firm(claim)
    BY <1>1, ClaimInOrder
  <2> HIDE DEF claim
  <2>2. claimed \in Seq(Steps) /\ ReadLast(claimed, on)
    BY <1>4, <2>1, JoinedSteps, StaysReadLast
  <2>3. InOrder(claimed, {}, {})
    BY <1>4, <2>1, JoinedInOrder
  <2>4. ExactFirst(claimed)
    BY <1>4, <2>1, JoinedExactFirst
  <2>5. /\ Len(claimed) = Len(looked) + 2 /\ Len(looked) \in Nat
        /\ claimed[2 + Len(looked)] = claim[2]
    <3>1. /\ Len(claimed) = Len(looked) + Len(claim) /\ Len(looked) \in Nat
          /\ \A n \in 1 .. Len(claim) : claimed[n + Len(looked)] = claim[n]
      BY <1>4, <2>1, Joined
    <3>2. 2 \in 1 .. Len(claim)
      BY <2>1
    <3>3. QED
      BY <2>1, <3>1, <3>2
  <2>6. Len(claimed) > 0 /\ claimed[Len(claimed)].do = "reserve"
    <3>1. Len(claimed) = 2 + Len(looked)
      BY <2>5
    <3>2. QED
      BY <2>1, <2>5, <3>1
  <2>7. Firm(claimed)
    BY <1>4, <2>1, QuietIsFirm, JoinedFirm
  <2>8. QED
    BY <2>2, <2>3, <2>4, <2>6, <2>7
<1> HIDE DEF claimed
<1> DEFINE stored == claimed \o <<store>>
<1>6. /\ stored \in Seq(Steps) /\ InOrder(stored, {}, {}) /\ ReadLast(stored, on)
      /\ ExactFirst(stored) /\ Firm(stored)
  <2>1. {"token"} \in SUBSET AllRules /\ "store" \in Queries /\ "some" \notin {"token"}
    BY DEF AllRules, Queries
  <2>2. stored \in Seq(Steps) /\ InOrder(stored, {}, {}) /\ ReadLast(stored, on) /\ Firm(stored)
    BY <1>1, <1>5, <2>1, StoreFollows
  <2>3. <<store>> \in Seq(Steps)
    BY <1>1, <2>1, OneOfProgram
  <2> HIDE DEF store
  <2>4. ExactFirst(stored)
    BY <1>5, <2>3, JoinedExactFirst
  <2>5. QED
    BY <2>2, <2>4
<1> HIDE DEF stored
<1>7. ReadLast(stored, {})
  BY <1>6 DEF ReadLast, ReadBefore
<1>8. sync \in Seq(Steps) /\ InOrder(sync, {}, {}) /\ Whole(sync) /\ (Len(sync) > 0 => sync[1].do # "store")
  BY RelationsInOrder
<1> HIDE DEF sync
<1>9. InOrder(stored \o sync, {}, {}) /\ ExactFirst(stored \o sync) /\ Whole(stored \o sync)
  BY <1>6, <1>7, <1>8, JoinedInOrder, JoinedExactFirst, JoinedFirm
<1>10. PostItems(q) = stored \o sync
  BY DEF PostItems, stored, claimed, looked, read, look, store, claim, sync, on
<1>11. QED
  BY <1>9, <1>10

LEMMA PostCollectionsInOrder ==
  ASSUME NEW q \in AllShapes, q.conditional, q.keys # <<>>, Keys(q.keys) \cap Settings = {}
  PROVE  /\ ExactFirst(PostCollections(q)) /\ InOrder(PostCollections(q), {}, {})
         /\ Whole(PostCollections(q))
<1> DEFINE on    == All(q)
           first == {Head(q.keys)}
           exact == ReadExactVersion
           rows  == ReadRows(on)
           move  == MoveToRoot(Under(q, Head(q.keys)))
           each  == WriteCollections(q, Tail(q.keys))
<1>1. /\ q.keys \in Seq(Objects) /\ on \in SUBSET Objects /\ on \cap Settings = {}
      /\ Head(q.keys) \in on /\ Tail(q.keys) \in Seq(Objects) /\ Keys(Tail(q.keys)) \subseteq on
  <2>1. q.keys \in Seq(Objects) /\ on = Keys(q.keys)
    BY DEF AllShapes, All
  <2>2. Len(q.keys) \in Nat \ {0} /\ DOMAIN q.keys = 1 .. Len(q.keys)
    BY <2>1, EmptySeq
  <2>3. /\ Head(q.keys) = q.keys[1] /\ Tail(q.keys) \in Seq(Objects)
        /\ Len(Tail(q.keys)) = Len(q.keys) - 1 /\ DOMAIN Tail(q.keys) = 1 .. Len(Tail(q.keys))
        /\ \A n \in 1 .. Len(Tail(q.keys)) : Tail(q.keys)[n] = q.keys[n + 1]
    BY <2>1, HeadTailProperties
  <2>4. Head(q.keys) \in Keys(q.keys)
    BY <2>2, <2>3 DEF Keys
  <2>5. ASSUME NEW n \in DOMAIN Tail(q.keys) PROVE Tail(q.keys)[n] \in Keys(q.keys)
    <3>1. n \in 1 .. Len(q.keys) - 1 /\ n + 1 \in 1 .. Len(q.keys) /\ Tail(q.keys)[n] = q.keys[n + 1]
      BY <2>2, <2>3
    <3>2. QED
      BY <2>2, <3>1 DEF Keys
  <2>6. Keys(Tail(q.keys)) \subseteq Keys(q.keys)
    BY <2>5 DEF Keys
  <2>7. QED
    BY <2>1, <2>3, <2>4, <2>6, KeysAreObjects
<1> HIDE DEF on
<1>2. /\ rows \in Seq(Steps) /\ ReadLast(rows, on) /\ InOrder(rows, {}, {})
      /\ \A n \in DOMAIN rows : Quiet(rows[n])
  <2>1. "rows" \in Queries /\ {} \in SUBSET AllRules
    BY DEF Queries
  <2> DEFINE s == <<Step("rows", on, {})>>
  <2>2. /\ s \in Seq(Steps) /\ Len(s) = 1 /\ DOMAIN s = 1 .. 1
        /\ s[1].do = "rows" /\ s[1].on = on /\ s[1].rules = {}
    BY <1>1, <2>1, OneOfProgram
  <2>3. rows = s
    BY DEF ReadRows
  <2> HIDE DEF s, rows
  <2>4. \A n \in DOMAIN s : Quiet(s[n]) /\ s[n].do \notin {"reserve", "store"}
    <3>1. \A n \in 1 .. 1 : n = 1
      OBVIOUS
    <3>2. QED
      BY <2>2, <3>1 DEF Quiet, MayStopEarly
  <2>5. ReadLast(s, on)
    <3>1. 1 \in 1 .. Len(s) + 1 - 1 /\ \A k \in 1 + 1 .. Len(s) + 1 - 1 : FALSE
      BY <2>2
    <3>2. QED
      BY <2>2, <3>1 DEF ReadLast, ReadBefore, NoRows
  <2>6. QED
    BY <2>2, <2>3, <2>4, <2>5, ReadsInOrder
<1> HIDE DEF rows
<1>3. /\ exact \in Seq(Steps) /\ NoRows(exact, 1, Len(exact)) /\ InOrder(exact, {}, on)
      /\ \A n \in DOMAIN exact : Quiet(exact[n])
      /\ (Len(exact) > 0 => exact[1].do # "store")
  <2>1. "version" \in Queries /\ {"exact"} \in SUBSET AllRules
    BY DEF Queries, AllRules
  <2> DEFINE s == <<Step("version", {}, {"exact"})>>
  <2>2. /\ s \in Seq(Steps) /\ Len(s) = 1 /\ DOMAIN s = 1 .. 1
        /\ s[1].do = "version" /\ s[1].rules = {"exact"}
    BY <2>1, OneOfProgram
  <2>3. exact = s
    BY DEF ReadExactVersion
  <2> HIDE DEF s, exact
  <2>4. \A n \in 1 .. 1 : n = 1
    OBVIOUS
  <2>5. /\ NoRows(s, 1, Len(s)) /\ s[1].do # "store"
        /\ \A n \in DOMAIN s : Quiet(s[n]) /\ s[n].do \notin {"reserve", "store"}
    BY <2>2, <2>4 DEF Quiet, MayStopEarly, NoRows
  <2>6. QED
    BY <2>2, <2>3, <2>5, ReadsInOrder
<1> HIDE DEF exact
<1> DEFINE read1 == rows \o exact
           read2 == read1 \o exact
<1>4. /\ read1 \in Seq(Steps) /\ ReadLast(read1, on) /\ InOrder(read1, {}, {})
      /\ \A n \in DOMAIN read1 : Quiet(read1[n])
  BY <1>2, <1>3, JoinedSteps, StaysReadLast, JoinedInOrder, JoinedExactFirst
<1> HIDE DEF read1
<1>5. /\ read2 \in Seq(Steps) /\ ReadLast(read2, on) /\ InOrder(read2, {}, {})
      /\ \A n \in DOMAIN read2 : Quiet(read2[n])
  BY <1>3, <1>4, JoinedSteps, StaysReadLast, JoinedInOrder, JoinedExactFirst
<1> HIDE DEF read2
<1> DEFINE claim   == Claim(q, first)
           claimed == read2 \o claim
<1>6. /\ claimed \in Seq(Steps) /\ ReadLast(claimed, on) /\ InOrder(claimed, {}, {})
      /\ ExactFirst(claimed) /\ Len(claimed) > 0 /\ claimed[Len(claimed)].do = "reserve"
      /\ Firm(claimed)
  <2>1. /\ claim \in Seq(Steps) /\ Len(claim) = 2 /\ claim[2].do = "reserve"
        /\ NoRows(claim, 1, Len(claim)) /\ claim[1].do # "store"
        /\ InOrder(claim, {}, on) /\ ExactFirst(claim) /\ Firm(claim)
    <3>1. first \in SUBSET Objects /\ first \subseteq on /\ first # {} /\ first \cap Settings = {}
      BY <1>1
    <3> HIDE DEF first
    <3>2. QED
      BY <3>1, ClaimInOrder
  <2> HIDE DEF claim
  <2>2. claimed \in Seq(Steps) /\ ReadLast(claimed, on)
    BY <1>5, <2>1, JoinedSteps, StaysReadLast
  <2>3. InOrder(claimed, {}, {})
    BY <1>5, <2>1, JoinedInOrder
  <2>4. ExactFirst(claimed)
    BY <1>5, <2>1, JoinedExactFirst
  <2>5. /\ Len(claimed) = Len(read2) + 2 /\ Len(read2) \in Nat
        /\ claimed[2 + Len(read2)] = claim[2]
    <3>1. /\ Len(claimed) = Len(read2) + Len(claim) /\ Len(read2) \in Nat
          /\ \A n \in 1 .. Len(claim) : claimed[n + Len(read2)] = claim[n]
      BY <1>5, <2>1, Joined
    <3>2. 2 \in 1 .. Len(claim)
      BY <2>1
    <3>3. QED
      BY <2>1, <3>1, <3>2
  <2>6. Len(claimed) > 0 /\ claimed[Len(claimed)].do = "reserve"
    <3>1. Len(claimed) = 2 + Len(read2)
      BY <2>5
    <3>2. QED
      BY <2>1, <2>5, <3>1
  <2>7. Firm(claimed)
    BY <1>5, <2>1, QuietIsFirm, JoinedFirm
  <2>8. QED
    BY <2>2, <2>3, <2>4, <2>6, <2>7
<1> HIDE DEF claimed
<1> DEFINE store  == Step("store", first, {})
           stored == claimed \o <<store>>
<1>7. /\ stored \in Seq(Steps) /\ InOrder(stored, {}, {}) /\ ReadLast(stored, on)
      /\ ExactFirst(stored) /\ Firm(stored)
  <2>1. {} \in SUBSET AllRules /\ "store" \in Queries /\ first \in SUBSET Objects
    BY <1>1 DEF Queries
  <2>2. stored \in Seq(Steps) /\ InOrder(stored, {}, {}) /\ ReadLast(stored, on) /\ Firm(stored)
    BY <1>6, <2>1, StoreFollows
  <2>3. <<store>> \in Seq(Steps)
    BY <2>1, OneOfProgram
  <2> HIDE DEF store
  <2>4. ExactFirst(stored)
    BY <1>6, <2>3, JoinedExactFirst
  <2>5. QED
    BY <2>2, <2>4
<1> HIDE DEF stored
<1>8. /\ move \in Seq(Steps) /\ InOrder(move, {}, on) /\ NoRows(move, 1, Len(move)) /\ Firm(move)
      /\ (Len(move) > 0 => move[1].do # "store")
  BY UnderIsObjects, MoveToRootInOrder
<1> HIDE DEF move
<1> DEFINE moved == stored \o move
<1>9. /\ moved \in Seq(Steps) /\ InOrder(moved, {}, {}) /\ ReadLast(moved, on)
      /\ ExactFirst(moved) /\ Firm(moved)
  BY <1>7, <1>8, JoinedSteps, StaysReadLast, JoinedInOrder, JoinedExactFirst, JoinedFirm
<1> HIDE DEF moved
<1>10. each \in Seq(Steps) /\ InOrder(each, {}, on) /\ Firm(each) /\ (Len(each) > 0 => each[1].do # "store")
  <2>1. Keys(Tail(q.keys)) \cap Settings = {}
    BY <1>1
  <2>2. QED
    BY <1>1, <2>1, WriteCollectionsInOrder
<1> HIDE DEF each
<1>11. InOrder(moved \o each, {}, {}) /\ ExactFirst(moved \o each) /\ Whole(moved \o each)
  BY <1>9, <1>10, JoinedInOrder, JoinedExactFirst, JoinedFirm, FirmIsWhole
<1>12. PostCollections(q) = moved \o each
  BY DEF PostCollections, Store, moved, stored, store, claimed, claim, read2, read1, rows, exact, move,
         each, first, on
<1>13. QED
  BY <1>11, <1>12

LEMMA KeysOf == ASSUME NEW S, NEW keys \in Seq(S) PROVE Keys(keys) \subseteq S
  BY DEF Keys

(* The program of a guarded batch. *)
LEMMA BatchPrograms ==
  ASSUME NEW r \in Requests, NEW q \in Shapes[r], q.op \in {"post items", "post collections"}, q.conditional
  PROVE  ExactFirst(Program(q)) /\ InOrder(Program(q), {}, {}) /\ Whole(Program(q))
<1>1. q \in AllShapes /\ q.keys # <<>> /\ Settings \cap (Items \cup Collections) = {}
  BY ServerAssumption DEF AllShapes
<1>3. CASE q.op = "post items"
  <2>1. q.keys \in Seq(Items) /\ q.related \in Seq(Items)
    BY <1>3, ServerAssumption
  <2>2. Keys(q.keys) \cap Settings = {} /\ Keys(q.related) \cap Settings = {}
    BY <1>1, <2>1, KeysOf
  <2>3. Program(q) = PostItems(q)
    BY <1>3 DEF Program
  <2>4. QED
    BY <1>1, <2>2, <2>3, PostItemsInOrder
<1>4. CASE q.op = "post collections"
  <2>1. q.keys \in Seq(Collections)
    BY <1>4, ServerAssumption
  <2>2. Keys(q.keys) \cap Settings = {}
    BY <1>1, <2>1, KeysOf
  <2>3. Program(q) = PostCollections(q)
    BY <1>4 DEF Program
  <2>4. QED
    BY <1>1, <2>2, <2>3, PostCollectionsInOrder
<1>5. QED
  BY <1>3, <1>4

(* What a request found below its collection, now or before.               *)
FoundBelow(r, below) ==
  \A o \in DOMAIN below :
    \/ below[o] = row[o]
    \/ o \in DOMAIN request[r].below /\ below[o] = request[r].below[o]

(* What a query of a request makes of the request. *)
Takes(r, q1) ==
  LET q    == request[r]
      step == Head(q.steps)
  IN  /\ Becomes(r, q1) /\ Same(q, q1) /\ q1.outcome # "waiting"
      /\ q1.outcome = "running" =>
           /\ \/ q1.steps = Tail(q.steps)
              \/ /\ MayStopEarly(step)
                 /\ \E found \in SUBSET step.on : found # {} /\ q1.steps = Tail(Narrowed(q.steps, found))
           /\ q1.base = IF step.do = "rows" THEN [o \in step.on |-> row[o]] ELSE q.base
           /\ FoundBelow(r, q1.below)
           /\ IF step.do = "reserve" THEN DOMAIN q1.mine = step.on ELSE q1.mine = q.mine
           /\ step.do = "reserve" /\ "exact" \in step.rules /\ q.header # NoHeader
                => q.header = version

LEMMA Onwards ==
  ASSUME NEW q0, DOMAIN q0 = Fields, q0.outcome = "running",
         NEW q1, \/ q1 = Advanced(q0)
                 \/ \E outcome \in Outcomes \ {"running", "waiting"} : q1 = Ended(q0, outcome)
  PROVE  /\ Same(q0, q1) /\ q1.outcome # "waiting"
         /\ q1.outcome = "running" =>
              /\ q1.steps = Tail(q0.steps) /\ q1.base = q0.base
              /\ q1.mine = q0.mine /\ q1.below = q0.below
<1>1. CASE q1 = Advanced(q0)
  <2>1. Moves(q0, q1)
    BY <1>1, AdvancedMoves
  <2>2. QED
    BY <2>1 DEF Moves, Stops, GoesOn
<1>2. ASSUME NEW outcome \in Outcomes \ {"running", "waiting"}, q1 = Ended(q0, outcome)
      PROVE  Same(q0, q1) /\ q1.outcome = outcome
  BY <1>2, EndedStops DEF Stops
<1>3. QED
  BY <1>1, <1>2

(* A query that leaves rows and versions of its request as they were. *)
LEMMA PlainTakes ==
  ASSUME SoundState, NEW r \in Requests, NEW do, NextIs(r, do), do \notin {"rows", "reserve"},
         NEW q0, Same(request[r], q0), q0.outcome = "running", q0.steps = request[r].steps,
         q0.base = request[r].base, q0.mine = request[r].mine, FoundBelow(r, q0.below),
         NEW q1, Becomes(r, q1),
         \/ q1 = Advanced(q0)
         \/ \E outcome \in Outcomes \ {"running", "waiting"} : q1 = Ended(q0, outcome)
  PROVE  Takes(r, q1)
<1>1. DOMAIN q0 = Fields
  BY DEF Same
<1>2. /\ Same(q0, q1) /\ q1.outcome # "waiting"
      /\ q1.outcome = "running" =>
           /\ q1.steps = Tail(q0.steps) /\ q1.base = q0.base
           /\ q1.mine = q0.mine /\ q1.below = q0.below
  BY <1>1, Onwards
<1>3. Head(request[r].steps).do = do
  BY DEF NextIs
<1>4. Same(request[r], q1)
  BY <1>2 DEF Same
<1>5. QED
  BY <1>2, <1>3, <1>4 DEF Takes

LEMMA SameBelow == ASSUME NEW r, NEW below, below = request[r].below PROVE FoundBelow(r, below)
  BY DEF FoundBelow

LEMMA ReadRowsTakes ==
  ASSUME SoundState, NEW r \in Requests, ReadTheRows(r)
  PROVE  \E q1 : Takes(r, q1)
<1> DEFINE on    == On(r)
           live  == {o \in on : row[o].live}
           some  == "some" \in Rules(r)
           base  == [o \in on |-> row[o]]
           q     == [request[r] EXCEPT !.base = base]
           late  == [q EXCEPT !.seen = version]
           less  == [q EXCEPT !.steps = Narrowed(@, live)]
<1>1. /\ Sound(request[r]) /\ request[r].outcome = "running" /\ NextIs(r, "rows")
      /\ DOMAIN request[r] = Fields
  BY RunningIsSound DEF ReadTheRows
<1>2. PICK q1 : /\ Becomes(r, q1)
                /\ \/ q1 \in {Ended(late, "refused"), Ended(q, "failed"),
                             Ended(q, "answered"), Advanced(q)}
                   \/ q1 = Advanced(less) /\ some /\ live # {}
  BY Zenon DEF ReadTheRows
<1>n. live \subseteq on
  OBVIOUS
<1> HIDE DEF live, base
<1>3. /\ DOMAIN q = Fields /\ q.outcome = "running" /\ q.steps = request[r].steps
      /\ q.base = base /\ q.mine = request[r].mine /\ q.below = request[r].below
      /\ Same(request[r], q)
  BY <1>1 DEF Same, Fields
<1> HIDE DEF q
<1>4. /\ DOMAIN late = Fields /\ late.outcome = "running" /\ Same(request[r], late)
  BY <1>3 DEF Same, Fields
<1>5. /\ DOMAIN less = Fields /\ less.outcome = "running" /\ Same(request[r], less)
      /\ less.steps = Narrowed(request[r].steps, live)
      /\ less.base = base /\ less.mine = request[r].mine /\ less.below = request[r].below
  BY <1>3 DEF Same, Fields
<1> HIDE DEF late, less
<1>6. Head(request[r].steps).do = "rows" /\ on = Head(request[r].steps).on
      /\ Rules(r) = Head(request[r].steps).rules
  BY <1>1 DEF NextIs, On, Rules
<1>7. {"refused", "failed", "answered"} \subseteq Outcomes \ {"running", "waiting"}
  BY DEF Outcomes
<1>8. CASE q1 = Ended(late, "refused")
  <2>1. Same(late, q1) /\ q1.outcome = "refused"
    BY <1>4, <1>8, EndedStops DEF Stops
  <2>2. Same(request[r], q1)
    BY <1>4, <2>1 DEF Same
  <2>3. QED
    BY <1>2, <2>1, <2>2 DEF Takes
<1>9. CASE q1 \in {Ended(q, "failed"), Ended(q, "answered"), Advanced(q)}
  <2>1. /\ Same(q, q1) /\ q1.outcome # "waiting"
        /\ q1.outcome = "running" =>
             /\ q1.steps = Tail(q.steps) /\ q1.base = q.base
             /\ q1.mine = q.mine /\ q1.below = q.below
    BY <1>3, <1>7, <1>9, Onwards
  <2>2. Same(request[r], q1)
    BY <1>3, <2>1 DEF Same
  <2>3. QED
    BY <1>2, <1>3, <1>6, <2>1, <2>2, SameBelow DEF Takes, base
<1>10. CASE q1 = Advanced(less) /\ some /\ live # {}
  <2>1. /\ Same(less, q1) /\ q1.outcome # "waiting"
        /\ q1.outcome = "running" =>
             /\ q1.steps = Tail(less.steps) /\ q1.base = less.base
             /\ q1.mine = less.mine /\ q1.below = less.below
    BY <1>5, <1>10, Onwards
  <2>2. Same(request[r], q1)
    BY <1>5, <2>1 DEF Same
  <2>3. MayStopEarly(Head(request[r].steps))
    BY <1>6, <1>10 DEF MayStopEarly
  <2>4. q1.outcome = "running" =>
           /\ \E found \in SUBSET Head(request[r].steps).on :
                 found # {} /\ q1.steps = Tail(Narrowed(request[r].steps, found))
           /\ q1.base = base /\ q1.mine = request[r].mine /\ FoundBelow(r, q1.below)
    BY <1>n, <1>5, <1>6, <1>10, <2>1, SameBelow
  <2>5. base = [o \in Head(request[r].steps).on |-> row[o]] /\ Becomes(r, q1)
    BY <1>2, <1>6 DEF base
  <2>6. QED
    BY <1>6, <2>1, <2>2, <2>3, <2>4, <2>5 DEF Takes
<1>11. QED
  BY <1>2, <1>8, <1>9, <1>10

LEMMA ValidateTakes ==
  ASSUME SoundState, NEW r \in Requests, Validate(r)
  PROVE  \E q1 : Takes(r, q1)
<1> DEFINE q       == request[r]
           skipped == {o \in On(r) : row[o] # q.base[o]} \cup q.invalid
           rest    == On(r) \ skipped
           less    == [q EXCEPT !.steps = Narrowed(@, rest)]
<1>1. Sound(q) /\ q.outcome = "running" /\ NextIs(r, "validate") /\ DOMAIN q = Fields
  BY RunningIsSound DEF Validate
<1>2. PICK q1 : /\ Becomes(r, q1)
                /\ \/ q1 = Ended(q, "answered")
                   \/ q1 = Advanced(less) /\ rest # {}
  BY DEF Validate
<1>n. rest \subseteq Head(q.steps).on
  BY DEF On
<1> HIDE DEF rest
<1>3. /\ DOMAIN less = Fields /\ less.outcome = "running" /\ Same(q, less) /\ Same(q, q)
      /\ less.steps = Narrowed(q.steps, rest) /\ less.base = q.base /\ less.mine = q.mine
      /\ less.below = q.below
  BY <1>1 DEF Same, Fields
<1> HIDE DEF less
<1>4. Head(q.steps).do = "validate" /\ MayStopEarly(Head(q.steps))
  BY <1>1 DEF NextIs, MayStopEarly
<1> HIDE DEF q
<1>5. CASE q1 = Ended(q, "answered")
  <2>1. Same(q, q1) /\ q1.outcome = "answered"
    BY <1>1, <1>5, EndedStops DEF Stops
  <2>2. QED
    BY <1>2, <2>1 DEF Takes, q
<1>6. CASE q1 = Advanced(less) /\ rest # {}
  <2>1. /\ Same(less, q1) /\ q1.outcome # "waiting"
        /\ q1.outcome = "running" =>
             /\ q1.steps = Tail(less.steps) /\ q1.base = less.base
             /\ q1.mine = less.mine /\ q1.below = less.below
    BY <1>3, <1>6, Onwards
  <2>2. Same(q, q1)
    BY <1>3, <2>1 DEF Same
  <2>3. q1.outcome = "running" => FoundBelow(r, q1.below)
    BY <1>3, <2>1, SameBelow DEF q
  <2>4. QED
    BY <1>n, <1>2, <1>3, <1>4, <1>6, <2>1, <2>2, <2>3 DEF Takes, q
<1>7. QED
  BY <1>2, <1>5, <1>6

LEMMA ReserveTakes ==
  ASSUME SoundState, NEW r \in Requests, ReserveVersions(r)
  PROVE  \E q1 : Takes(r, q1)
<1> DEFINE q    == request[r]
           late == [q EXCEPT !.seen = version]
           one  == "one" \in Rules(r)
<1>1. /\ Sound(q) /\ q.outcome = "running" /\ NextIs(r, "reserve") /\ DOMAIN q = Fields
      /\ Cardinality(On(r)) \in Nat
  BY RunningIsSound DEF ReserveVersions
<1>2. CASE Becomes(r, Ended(late, "refused"))
  <2>1. DOMAIN late = Fields /\ Same(q, late)
    BY <1>1 DEF Same, Fields
  <2> HIDE DEF late
  <2> DEFINE q1 == Ended(late, "refused")
  <2>2. Same(late, q1) /\ q1.outcome = "refused"
    BY <2>1, EndedStops DEF Stops
  <2> HIDE DEF q1
  <2>3. Same(q, q1)
    BY <2>1, <2>2 DEF Same
  <2>4. Becomes(r, q1)
    BY <1>2 DEF q1
  <2>5. QED
    BY <2>2, <2>3, <2>4 DEF Takes
<1>3. ASSUME ~("exact" \in Rules(r) /\ Given(r) /\ q.header # version),
             NEW mine \in Numberings(On(r), version, one),
             Becomes(r, Advanced([q EXCEPT !.mine = mine]))
      PROVE  \E q1 : Takes(r, q1)
  <2> DEFINE numbered == [q EXCEPT !.mine = mine]
             q1       == Advanced(numbered)
  <2>1. /\ DOMAIN numbered = Fields /\ Same(q, numbered) /\ numbered.outcome = "running"
        /\ numbered.steps = q.steps /\ numbered.base = q.base /\ numbered.mine = mine
        /\ numbered.below = q.below
    BY <1>1 DEF Same, Fields
  <2>2. DOMAIN mine = On(r)
    <3>1. version \in Nat /\ one \in BOOLEAN
      BY DEF SoundState
    <3> HIDE DEF one
    <3>2. QED
      BY <1>1, <1>3, <3>1, NumberingsOf
  <2>3. Becomes(r, q1)
    BY <1>3
  <2> HIDE DEF numbered
  <2>4. /\ Same(numbered, q1) /\ q1.outcome # "waiting"
        /\ q1.outcome = "running" =>
             /\ q1.steps = Tail(q.steps) /\ q1.base = q.base
             /\ q1.mine = mine /\ q1.below = q.below
    BY <2>1, Onwards
  <2> HIDE DEF q1
  <2>5. Same(q, q1)
    BY <2>1, <2>4 DEF Same
  <2>6. Head(q.steps).do = "reserve" /\ On(r) = Head(q.steps).on /\ Rules(r) = Head(q.steps).rules
    BY <1>1 DEF NextIs, On, Rules
  <2>7. Takes(r, q1)
    BY <1>3, <2>2, <2>3, <2>4, <2>5, <2>6, SameBelow DEF Takes, Given
  <2>8. QED
    BY <2>7
<1>4. QED
  BY <1>2, <1>3 DEF ReserveVersions

LEMMA QueryTakes ==
  ASSUME SoundState, NEW r \in Requests, Query(r)
  PROVE  \E q1 : Takes(r, q1)
<1> DEFINE q     == request[r]
           late  == [q EXCEPT !.seen = version]
           dated == [late EXCEPT !.met = IF q.op = "list items"
                                         THEN {s \in Requests : Writing(s)} ELSE @]
           told  == [q EXCEPT !.gone = log]
           erased == [q EXCEPT !.late = @ \/ q.seen # version]
           Kept(q0) == /\ Same(q, q0) /\ q0.outcome = "running" /\ q0.steps = q.steps
                       /\ q0.base = q.base /\ q0.mine = q.mine /\ FoundBelow(r, q0.below)
           Then(q0, q1) == \/ q1 = Advanced(q0)
                           \/ \E outcome \in Outcomes \ {"running", "waiting"} : q1 = Ended(q0, outcome)
<1>1. ASSUME NEW do, NextIs(r, do)
      PROVE  Kept(q) /\ Kept(late) /\ Kept(dated) /\ Kept(told) /\ Kept(erased)
  <2>1. DOMAIN q = Fields /\ q.outcome = "running" /\ FoundBelow(r, q.below)
    BY <1>1, RunningIsSound, SameBelow
  <2>2. Kept(late) /\ DOMAIN late = Fields /\ Kept(q) /\ Kept(told) /\ Kept(erased)
    BY <2>1 DEF Same, Fields
  <2> HIDE DEF q
  <2>3. Kept(dated)
    BY <2>2 DEF Same, Fields
  <2>4. QED
    BY <2>2, <2>3
<1>2. ASSUME NEW do, NextIs(r, do), do \notin {"rows", "reserve"}, NEW q0, Kept(q0),
             NEW q1, Becomes(r, q1), Then(q0, q1)
      PROVE  Takes(r, q1)
  BY <1>2, PlainTakes
<1>o. {"refused", "duplicate", "failed", "answered"} \subseteq Outcomes \ {"running", "waiting"}
  BY DEF Outcomes
<1>3. CASE ReadTheVersion(r)
  <2>1. NextIs(r, "version")
    BY <1>3 DEF ReadTheVersion
  <2>2. PICK q1 : Becomes(r, q1) /\ q1 \in {Ended(dated, "refused"), Advanced(dated)}
    BY <1>3 DEF ReadTheVersion
  <2>3. Then(dated, q1) /\ Kept(dated)
    BY <1>1, <1>o, <2>1, <2>2
  <2> HIDE DEF dated, Kept, Then
  <2>4. QED
    BY <1>2, <2>1, <2>2, <2>3
<1>4. CASE ReadTheLog(r)
  <2>1. NextIs(r, "log") /\ Becomes(r, Advanced(told))
    BY <1>4 DEF ReadTheLog
  <2>2. Then(told, Advanced(told)) /\ Kept(told)
    BY <1>1, <2>1
  <2> HIDE DEF told, Kept, Then
  <2>3. QED
    BY <1>2, <2>1, <2>2
<1>5. CASE CompareRows(r) \/ ClaimVersion(r)
  <2>1. PICK do \in {"compare", "claim"} : NextIs(r, do)
    BY <1>5 DEF CompareRows, ClaimVersion
  <2>2. PICK q1 : Becomes(r, q1) /\ q1 \in {Ended(late, "refused"), Advanced(q)}
    BY <1>5, Zenon DEF CompareRows, ClaimVersion
  <2>3. Kept(late) /\ Kept(q) /\ (Then(late, q1) \/ Then(q, q1))
    BY <1>1, <1>o, <2>1, <2>2
  <2> HIDE DEF late, q, Kept, Then
  <2>4. QED
    BY <1>2, <2>1, <2>2, <2>3
<1>6. CASE FindToken(r) \/ StoreRows(r) \/ MoveUp(r) \/ DropCollections(r) \/ EraseRows(r) \/ LogTag(r)
  <2>1. PICK do \in {"find token", "store", "move", "drop", "erase", "log tag"} : NextIs(r, do)
    BY <1>6 DEF FindToken, StoreRows, MoveUp, DropCollections, EraseRows, LogTag
  <2>2. PICK q1 : Becomes(r, q1) /\ q1 \in {Ended(q, "duplicate"), Ended(q, "failed"), Advanced(q)}
    BY <1>6, Zenon DEF FindToken, StoreRows, MoveUp, DropCollections, EraseRows, LogTag
  <2>3. Kept(q) /\ Then(q, q1)
    BY <1>1, <1>o, <2>1, <2>2
  <2> HIDE DEF q, Kept, Then
  <2>4. QED
    BY <1>2, <2>1, <2>2, <2>3
<1>7. CASE EraseItems(r)
  <2>1. NextIs(r, "erase items") /\ Becomes(r, Advanced(erased))
    BY <1>7 DEF EraseItems
  <2>2. Then(erased, Advanced(erased)) /\ Kept(erased)
    BY <1>1, <2>1
  <2> HIDE DEF erased, Kept, Then
  <2>3. QED
    BY <1>2, <2>1, <2>2
<1>8. CASE WalkUp(r)
  <2>1. NextIs(r, "walk") /\ DOMAIN q = Fields
    BY <1>8, RunningIsSound DEF WalkUp
  <2>2. PICK under \in SUBSET On(r) : Becomes(r, Advanced([q EXCEPT !.below = [o \in under |-> row[o]]]))
    BY <1>8 DEF WalkUp
  <2> DEFINE found  == [o \in under |-> row[o]]
             walked == [q EXCEPT !.below = found]
  <2>3. FoundBelow(r, found)
    BY DEF FoundBelow
  <2> HIDE DEF found
  <2>4. Kept(q)
    BY <1>1, <2>1
  <2>5. Kept(walked)
    BY <2>1, <2>3, <2>4 DEF Same, Fields
  <2>6. Then(walked, Advanced(walked)) /\ Becomes(r, Advanced(walked))
    BY <2>2 DEF found
  <2> HIDE DEF walked, Kept, Then
  <2>7. QED
    BY <1>2, <2>1, <2>5, <2>6
<1>9. QED
  BY <1>3, <1>4, <1>5, <1>6, <1>7, <1>8, ReadRowsTakes, ValidateTakes, ReserveTakes DEF Query

LEMMA DieTakes ==
  ASSUME SoundState, NEW r \in Requests, Die(r)
  PROVE  \E q1 : Takes(r, q1) /\ q1.outcome = "died"
<1>1. DOMAIN request[r] = Fields
  BY DEF SoundState, Sound
<1> DEFINE q1 == Ended(request[r], "died")
<1>2. Same(request[r], q1) /\ q1.outcome = "died"
  BY <1>1, EndedStops DEF Stops
<1>3. Becomes(r, q1)
  BY DEF Die
<1> HIDE DEF q1
<1>4. QED
  BY <1>2, <1>3 DEF Takes

(* What is left of a program after its first query, for what was found.    *)
Shorter(steps, rest, found) ==
  /\ DOMAIN rest = 1 .. Len(steps) - 1
  /\ \A n \in 1 .. Len(steps) - 1 :
       /\ rest[n].do = steps[n + 1].do /\ rest[n].rules = steps[n + 1].rules
       /\ rest[n].on = steps[n + 1].on \cap found

LEMMA TailIsShorter ==
  ASSUME NEW steps \in Seq(Steps), steps # <<>>
  PROVE  Shorter(steps, Tail(steps), Objects)
<1>1. /\ Len(steps) \in Nat \ {0} /\ DOMAIN Tail(steps) = 1 .. Len(steps) - 1
      /\ \A n \in 1 .. Len(steps) - 1 : Tail(steps)[n] = steps[n + 1]
  BY HeadTailProperties
<1>2. \A n \in 1 .. Len(steps) - 1 : n + 1 \in 1 .. Len(steps)
  BY <1>1
<1>3. \A n \in 1 .. Len(steps) : steps[n] \in Steps
  BY ElementOfSeq
<1>4. \A n \in 1 .. Len(steps) - 1 : steps[n + 1].on \subseteq Objects
  BY <1>2, <1>3 DEF Steps
<1>5. QED
  BY <1>1, <1>4 DEF Shorter

LEMMA NarrowedIsShorter ==
  ASSUME NEW steps \in Seq(Steps), steps # <<>>, NEW found
  PROVE  Shorter(steps, Tail(Narrowed(steps, found)), found)
<1> DEFINE less == Narrowed(steps, found)
           rest == Tail(less)
<1>1. /\ less \in Seq(Steps) /\ Len(less) = Len(steps)
      /\ \A n \in 1 .. Len(steps) : less[n].rules = steps[n].rules /\ less[n].do = steps[n].do
  BY NarrowedTokens
<1>2. \A n \in 1 .. Len(steps) : steps[n] \in Steps
  BY ElementOfSeq
<1>3. \A n \in 1 .. Len(steps) : less[n].on = steps[n].on \cap found
  BY <1>2 DEF Narrowed, Steps
<1>4. less # <<>>
  BY NarrowedIsSteps
<1> HIDE DEF less
<1>5. /\ Len(less) \in Nat \ {0} /\ DOMAIN rest = 1 .. Len(less) - 1
      /\ \A n \in 1 .. Len(less) - 1 : rest[n] = less[n + 1]
  BY <1>1, <1>4, HeadTailProperties
<1> HIDE DEF rest
<1>6. \A n \in 1 .. Len(steps) - 1 : n + 1 \in 1 .. Len(steps) /\ rest[n] = less[n + 1]
  BY <1>1, <1>5
<1>7. Shorter(steps, rest, found)
  BY <1>1, <1>3, <1>5, <1>6 DEF Shorter
<1>8. QED
  BY <1>7 DEF rest, less

LEMMA FirstOf ==
  ASSUME NEW steps \in Seq(Steps), steps # <<>>
  PROVE  /\ Len(steps) \in Nat \ {0} /\ DOMAIN steps = 1 .. Len(steps)
         /\ 1 \in DOMAIN steps /\ Head(steps) = steps[1]
  OBVIOUS

LEMMA RestInOrder ==
  ASSUME NEW steps \in Seq(Steps), steps # <<>>, NEW held, NEW read, InOrder(steps, held, read),
         NEW rest, NEW found, Shorter(steps, rest, found)
  PROVE  InOrder(rest, IF Head(steps).do = "reserve" THEN Head(steps).on ELSE held,
                       IF Head(steps).do = "rows" THEN Head(steps).on ELSE read)
<1> DEFINE held1 == IF Head(steps).do = "reserve" THEN Head(steps).on ELSE held
           read1 == IF Head(steps).do = "rows" THEN Head(steps).on ELSE read
<1>1. /\ Len(steps) \in Nat \ {0} /\ DOMAIN steps = 1 .. Len(steps)
      /\ 1 \in DOMAIN steps /\ Head(steps) = steps[1]
  BY FirstOf
<1>2. /\ DOMAIN rest = 1 .. Len(steps) - 1
      /\ \A n \in 1 .. Len(steps) - 1 :
           /\ rest[n].do = steps[n + 1].do /\ rest[n].on = steps[n + 1].on \cap found
  BY DEF Shorter
<1>3. \A n \in 1 .. Len(steps) : StoreInOrder(steps, n, held, read) /\ ReserveInOrder(steps, n, read)
  BY <1>1 DEF InOrder
<1>4. Head(steps).do = "reserve" => held1 \subseteq read1
  BY <1>1, <1>3 DEF ReserveInOrder, ReadBefore
<1>5. \A from, to \in Nat : to < Len(steps) /\ from > 0 /\ NoRows(steps, from + 1, to + 1) => NoRows(rest, from, to)
  <2> SUFFICES ASSUME NEW from \in Nat, NEW to \in Nat, to < Len(steps), from > 0,
                      NoRows(steps, from + 1, to + 1), NEW k \in from .. to, k < Len(steps)
               PROVE  rest[k].do # "rows"
    BY <1>1 DEF NoRows
  <2>1. k \in 1 .. Len(steps) - 1 /\ k + 1 \in from + 1 .. to + 1
    BY <1>1
  <2>2. QED
    BY <1>2, <2>1 DEF NoRows
<1> HIDE DEF held1, read1
<1>6. ASSUME NEW n \in 1 .. Len(steps) - 1
      PROVE  StoreInOrder(rest, n, held1, read1)
  <2> SUFFICES ASSUME rest[n].do = "store"
               PROVE  \/ n > 1 /\ rest[n - 1].do = "reserve"
                      \/ n = 1 /\ held1 \subseteq read1
    BY DEF StoreInOrder
  <2>1. n + 1 \in 1 .. Len(steps) /\ steps[n + 1].do = "store" /\ n + 1 # 1 /\ n + 1 - 1 = n
    BY <1>1, <1>2
  <2>2. steps[n].do = "reserve"
    BY <1>3, <2>1 DEF StoreInOrder
  <2>3. CASE n = 1
    BY <1>1, <1>4, <2>2, <2>3
  <2>4. CASE n > 1
    <3>1. n - 1 \in 1 .. Len(steps) - 1 /\ (n - 1) + 1 = n
      BY <1>1, <2>4
    <3>2. QED
      BY <1>2, <2>2, <2>4, <3>1
  <2>5. QED
    BY <2>3, <2>4
<1>7. ASSUME NEW n \in 1 .. Len(steps) - 1, rest[n].do = "reserve"
      PROVE  /\ rest[n].on \cap Settings = {}
             /\ \/ ReadBefore(rest, n, rest[n].on)
                \/ rest[n].on \subseteq read1 /\ NoRows(rest, 1, n - 1)
  <2>1. /\ n + 1 \in 1 .. Len(steps) /\ steps[n + 1].do = "reserve"
        /\ rest[n].on = steps[n + 1].on \cap found
    BY <1>1, <1>2, <1>7
  <2>2. /\ steps[n + 1].on \cap Settings = {}
        /\ \/ ReadBefore(steps, n + 1, steps[n + 1].on)
           \/ steps[n + 1].on \subseteq read /\ NoRows(steps, 1, n)
    <3>1. n + 1 - 1 = n
      OBVIOUS
    <3>2. QED
      BY <1>3, <2>1, <3>1 DEF ReserveInOrder
  <2>3. CASE steps[n + 1].on \subseteq read /\ NoRows(steps, 1, n)
    <3>1. Head(steps).do # "rows"
      BY <1>1, <2>3 DEF NoRows
    <3>2. NoRows(steps, 1 + 1, (n - 1) + 1)
      BY <2>3 DEF NoRows
    <3>3. NoRows(rest, 1, n - 1)
      <4>1. n - 1 \in Nat /\ n - 1 < Len(steps)
        BY <1>1
      <4>2. QED
        BY <1>5, <3>2, <4>1
    <3>4. QED
      BY <2>1, <2>2, <2>3, <3>1, <3>3 DEF read1
  <2>4. CASE ReadBefore(steps, n + 1, steps[n + 1].on)
    <3>1. PICK m \in 1 .. n : /\ steps[m].do = "rows" /\ steps[n + 1].on \subseteq steps[m].on
                              /\ NoRows(steps, m + 1, n)
      <4>1. n + 1 - 1 = n
        OBVIOUS
      <4>2. QED
        BY <2>4, <4>1 DEF ReadBefore
    <3>2. NoRows(rest, m, n - 1)
      <4>1. n - 1 \in Nat /\ n - 1 < Len(steps) /\ (n - 1) + 1 = n /\ m \in Nat /\ m > 0
        BY <1>1
      <4>2. QED
        BY <1>5, <3>1, <4>1
    <3>3. CASE m = 1
      <4>1. steps[n + 1].on \subseteq read1
        BY <1>1, <3>1, <3>3 DEF read1
      <4>2. NoRows(rest, 1, n - 1)
        BY <3>2, <3>3
      <4>3. QED
        BY <2>1, <2>2, <4>1, <4>2
    <3>4. CASE m > 1
      <4>1. m - 1 \in 1 .. Len(steps) - 1 /\ (m - 1) + 1 = m /\ m - 1 \in 1 .. n - 1
        BY <1>1, <3>4
      <4>2. rest[m - 1].do = "rows" /\ rest[m - 1].on = steps[m].on \cap found
        BY <1>2, <3>1, <4>1
      <4>3. rest[n].on \subseteq rest[m - 1].on /\ NoRows(rest, (m - 1) + 1, n - 1)
        BY <2>1, <3>1, <3>2, <4>1, <4>2
      <4>4. ReadBefore(rest, n, rest[n].on)
        BY <4>1, <4>2, <4>3 DEF ReadBefore
      <4>5. QED
        BY <2>1, <2>2, <4>4
    <3>5. QED
      BY <3>3, <3>4
  <2>5. QED
    BY <2>2, <2>3, <2>4
<1>8. InOrder(rest, held1, read1)
  BY <1>2, <1>6, <1>7 DEF InOrder, ReserveInOrder
<1>9. QED
  BY <1>8 DEF held1, read1

(* A narrowed rest is for some of what its first query was about.          *)
Finds(step, found) ==
  \/ found = Objects
  \/ MayStopEarly(step) /\ found \subseteq step.on /\ found # {}

LEMMA RestIsWhole ==
  ASSUME NEW steps \in Seq(Steps), steps # <<>>, Whole(steps),
         NEW rest, NEW found, Shorter(steps, rest, found), Finds(Head(steps), found)
  PROVE  Whole(rest)
<1>1. /\ Len(steps) \in Nat \ {0} /\ DOMAIN steps = 1 .. Len(steps)
      /\ 1 \in DOMAIN steps /\ Head(steps) = steps[1]
  BY FirstOf
<1>2. /\ DOMAIN rest = 1 .. Len(steps) - 1
      /\ \A n \in 1 .. Len(steps) - 1 :
           /\ rest[n].do = steps[n + 1].do /\ rest[n].rules = steps[n + 1].rules
           /\ rest[n].on = steps[n + 1].on \cap found
  BY DEF Shorter
<1>3. ASSUME NEW n \in 1 .. Len(steps) - 1, rest[n].do = "reserve"
      PROVE  /\ rest[n].on # {}
             /\ \A m \in 1 .. n - 1 : MayStopEarly(rest[m]) => rest[n].on = rest[m].on
  <2>1. /\ n + 1 \in 1 .. Len(steps) /\ steps[n + 1].do = "reserve"
        /\ rest[n].on = steps[n + 1].on \cap found
    BY <1>1, <1>2, <1>3
  <2>2. /\ steps[n + 1].on # {}
        /\ \A m \in 1 .. n : MayStopEarly(steps[m]) => steps[n + 1].on = steps[m].on
    <3>1. n + 1 - 1 = n
      OBVIOUS
    <3>2. QED
      BY <1>1, <2>1, <3>1 DEF Whole
  <2>3. rest[n].on # {}
    <3>1. CASE found = Objects
      <4>1. steps[n + 1] \in Steps
        BY <2>1, ElementOfSeq
      <4>2. QED
        BY <2>1, <2>2, <3>1, <4>1 DEF Steps
    <3>2. CASE MayStopEarly(Head(steps)) /\ found \subseteq Head(steps).on /\ found # {}
      <4>1. steps[n + 1].on = Head(steps).on
        BY <1>1, <2>2, <3>2
      <4>2. QED
        BY <2>1, <3>2, <4>1
    <3>3. QED
      BY <3>1, <3>2 DEF Finds
  <2>4. ASSUME NEW m \in 1 .. n - 1, MayStopEarly(rest[m]) PROVE rest[n].on = rest[m].on
    <3>1. m \in 1 .. Len(steps) - 1 /\ m + 1 \in 1 .. n
      BY <1>1
    <3>2. MayStopEarly(steps[m + 1]) /\ rest[m].on = steps[m + 1].on \cap found
      BY <1>2, <2>4, <3>1 DEF MayStopEarly
    <3>3. QED
      BY <2>1, <2>2, <3>1, <3>2
  <2>5. QED
    BY <2>3, <2>4
<1>4. QED
  BY <1>2, <1>3 DEF Whole

LEMMA RestExactFirst ==
  ASSUME NEW steps \in Seq(Steps), steps # <<>>, ExactFirst(steps),
         NEW rest, NEW found, Shorter(steps, rest, found), Finds(Head(steps), found)
  PROVE  \/ Head(steps).do = "reserve" /\ "exact" \in Head(steps).rules
         \/ Quiet(Head(steps)) /\ ExactFirst(rest)
<1>1. /\ Len(steps) \in Nat \ {0} /\ DOMAIN steps = 1 .. Len(steps)
      /\ 1 \in DOMAIN steps /\ Head(steps) = steps[1]
  BY FirstOf
<1>2. /\ DOMAIN rest = 1 .. Len(steps) - 1
      /\ \A n \in 1 .. Len(steps) - 1 :
           /\ rest[n].do = steps[n + 1].do /\ rest[n].rules = steps[n + 1].rules
           /\ rest[n].on = steps[n + 1].on \cap found
  BY DEF Shorter
<1>3. PICK n \in 1 .. Len(steps) :
           /\ steps[n].do = "reserve" /\ "exact" \in steps[n].rules /\ steps[n].on # {}
           /\ \A m \in 1 .. n - 1 : Quiet(steps[m])
  BY <1>1 DEF ExactFirst
<1>4. CASE n = 1
  BY <1>1, <1>3, <1>4
<1>5. CASE n > 1
  <2>1. n - 1 \in 1 .. Len(steps) - 1 /\ (n - 1) + 1 = n /\ 1 \in 1 .. n - 1
    BY <1>5
  <2>2. Quiet(Head(steps)) /\ found = Objects
    BY <1>1, <1>3, <2>1 DEF Quiet, Finds
  <2>3. steps[n].on \subseteq Objects
    <3>1. steps[n] \in Steps
      BY ElementOfSeq
    <3>2. QED
      BY <3>1 DEF Steps
  <2>4. rest[n - 1].do = "reserve" /\ "exact" \in rest[n - 1].rules /\ rest[n - 1].on # {}
    BY <1>2, <1>3, <2>1, <2>2, <2>3
  <2>5. ASSUME NEW m \in 1 .. (n - 1) - 1 PROVE Quiet(rest[m])
    <3>1. m \in 1 .. Len(steps) - 1 /\ m + 1 \in 1 .. n - 1
      BY <2>1
    <3>2. QED
      BY <1>2, <1>3, <3>1 DEF Quiet, MayStopEarly
  <2>6. ExactFirst(rest)
    BY <1>2, <2>1, <2>4, <2>5 DEF ExactFirst
  <2>7. QED
    BY <2>2, <2>6
<1>6. QED
  BY <1>4, <1>5

(* A batch knows what it stores before it reserves, and what it reserves   *)
(* first it reserves under its precondition.                               *)
Careful(q) ==
  /\ InOrder(q.steps, DOMAIN q.mine, DOMAIN q.base) /\ Whole(q.steps)
  /\ DOMAIN q.mine \cap Settings = {}
  /\ q.mine = Nothing => ExactFirst(q.steps)

LEMMA StaysCareful ==
  ASSUME SoundState, NEW r \in Requests, request[r].outcome = "running", Careful(request[r]),
         request[r].header # NoHeader, NEW q1, Takes(r, q1), q1.outcome = "running"
  PROVE  /\ Careful(q1)
         /\ q1.mine = Nothing => request[r].mine = Nothing
         /\ request[r].mine = Nothing /\ q1.mine # Nothing => request[r].header = version
<1> DEFINE q    == request[r]
           step == Head(q.steps)
<1>1. q.steps \in Seq(Steps) /\ q.steps # <<>> /\ step = q.steps[1] /\ 1 \in DOMAIN q.steps
  <2>1. Sound(q)
    BY DEF SoundState
  <2>2. q.steps \in Seq(Steps) /\ q.steps # <<>>
    BY <2>1 DEF Sound
  <2>3. QED
    BY <2>2, FirstOf
<1>2. PICK found : Shorter(q.steps, q1.steps, found) /\ Finds(step, found)
  BY <1>1, TailIsShorter, NarrowedIsShorter DEF Takes, Finds
<1>3. /\ q1.base = IF step.do = "rows" THEN [o \in step.on |-> row[o]] ELSE q.base
      /\ IF step.do = "reserve" THEN DOMAIN q1.mine = step.on ELSE q1.mine = q.mine
      /\ step.do = "reserve" /\ "exact" \in step.rules /\ q.header # NoHeader => q.header = version
  BY DEF Takes
<1>4. Careful(q) /\ q.header # NoHeader
  OBVIOUS
<1> HIDE DEF q, step
<1>5. InOrder(q1.steps, DOMAIN q1.mine, DOMAIN q1.base)
  <2>1. InOrder(q1.steps, IF step.do = "reserve" THEN step.on ELSE DOMAIN q.mine,
                          IF step.do = "rows" THEN step.on ELSE DOMAIN q.base)
    BY <1>1, <1>2, <1>4, RestInOrder DEF Careful, step
  <2>2. /\ DOMAIN q1.mine = IF step.do = "reserve" THEN step.on ELSE DOMAIN q.mine
        /\ DOMAIN q1.base = IF step.do = "rows" THEN step.on ELSE DOMAIN q.base
    BY <1>3
  <2>3. QED
    BY <2>1, <2>2
<1>6. Whole(q1.steps)
  BY <1>1, <1>2, <1>4, RestIsWhole DEF Careful, step
<1>7. step.do = "reserve" => step.on # {} /\ step.on \cap Settings = {}
  <2>1. Whole(q.steps) /\ ReserveInOrder(q.steps, 1, DOMAIN q.base)
    BY <1>1, <1>4 DEF Careful, InOrder
  <2>2. QED
    BY <1>1, <2>1 DEF Whole, ReserveInOrder
<1>8. DOMAIN q1.mine \cap Settings = {}
  BY <1>3, <1>4, <1>7 DEF Careful
<1>9. q1.mine = Nothing => step.do # "reserve" /\ q.mine = Nothing
  <2>1. DOMAIN Nothing = {}
    BY DEF Nothing
  <2>2. QED
    BY <1>3, <1>7, <2>1
<1>10. q.mine = Nothing => \/ step.do = "reserve" /\ "exact" \in step.rules
                           \/ Quiet(step) /\ ExactFirst(q1.steps)
  BY <1>1, <1>2, <1>4, RestExactFirst DEF Careful, step
<1>11. q1.mine = Nothing => ExactFirst(q1.steps)
  BY <1>9, <1>10
<1>12. q.mine = Nothing /\ q1.mine # Nothing => q.header = version
  BY <1>3, <1>4, <1>10 DEF Quiet
<1>13. QED
  BY <1>5, <1>6, <1>8, <1>9, <1>11, <1>12 DEF Careful, q

(* What a query, or the death of a request, does to the rows.              *)
LEMMA RowsAfter ==
  ASSUME SoundState, LibraryTyped, NEW r \in Requests, Query(r) \/ Die(r), NEW o \in Objects
  PROVE  /\ \/ row'[o] = row[o]
            \/ ~row'[o].live /\ row'[o].by \in {row[o].by, r, Nobody}
            \/ /\ NextIs(r, "store") /\ o \in DOMAIN request[r].mine
               /\ row'[o].by = r /\ row'[o].edits = Edited(r, o)
            \/ /\ o \in DOMAIN request[r].below /\ DOMAIN request[r].mine # {}
               /\ row'[o].by = r /\ row'[o].live = row[o].live
               /\ row'[o].edits = {r} \cup request[r].below[o].edits
         /\ row'[o] # row[o] => DOMAIN request[r].mine # {} \/ EraseItems(r)
<1> DEFINE mine == request[r].mine
<1>1. CASE StoreRows(r)
  <2>1. NextIs(r, "store")
    BY <1>1 DEF StoreRows
  <2>2. \/ row' = row
        \/ row' = [p \in Objects |-> IF p \in DOMAIN mine
                                     THEN [version |-> mine[p], live |-> TRUE,
                                           edits |-> Edited(r, p), by |-> r]
                                     ELSE row[p]]
    BY <1>1 DEF StoreRows
  <2>3. QED
    BY <2>1, <2>2
<1>2. CASE DropCollections(r)
  <2>1. row'[o] = IF o \in DOMAIN mine THEN [row[o] EXCEPT !.live = FALSE] ELSE row[o]
    BY <1>2 DEF DropCollections
  <2>2. LET gone == [row[o] EXCEPT !.live = FALSE] IN gone.live = FALSE /\ gone.by = row[o].by
    BY DEF LibraryTyped, Rows
  <2>3. QED
    BY <2>1, <2>2
<1>3. CASE EraseRows(r)
  <2>1. row'[o] = IF o \in DOMAIN mine THEN NoRow ELSE row[o]
    BY <1>3 DEF EraseRows
  <2>2. NoRow.live = FALSE /\ NoRow.by = Nobody
    BY DEF NoRow
  <2>3. CASE o \in DOMAIN mine
    BY <2>1, <2>2, <2>3
  <2>4. CASE o \notin DOMAIN mine
    BY <2>1, <2>4
  <2>5. QED
    BY <2>3, <2>4
<1>4. CASE EraseItems(r)
  <2>1. row'[o] = row[o] \/ (~row'[o].live /\ row'[o].by = r)
    BY <1>4 DEF EraseItems
  <2>2. QED
    BY <1>4, <2>1
<1>5. CASE MoveUp(r)
  <2> DEFINE below == request[r].below
             moved == {p \in DOMAIN below : below[p].live}
  <2>1. PICK k \in DOMAIN mine :
           row' = [p \in Objects |->
                     IF p \in moved
                     THEN [version |-> mine[k], live |-> row[p].live,
                           edits |-> {r} \cup below[p].edits, by |-> r]
                     ELSE row[p]]
    BY <1>5 DEF MoveUp
  <2>2. QED
    BY <2>1
<1>6. ASSUME ~StoreRows(r), ~MoveUp(r), ~DropCollections(r), ~EraseRows(r), ~EraseItems(r)
      PROVE  row' = row
  BY <1>6 DEF Query, Die, ReadTheVersion, ReadTheRows, ReadTheLog, CompareRows, Validate,
              FindToken, ClaimVersion, ReserveVersions, WalkUp, LogTag
<1>7. QED
  BY <1>1, <1>2, <1>3, <1>4, <1>5, <1>6

(* Whoever starts to write moves the library version on.                   *)
LEMMA FirstMovesVersion ==
  ASSUME SoundState, NEW r \in Requests, Query(r) \/ Die(r), NEW q1, Takes(r, q1),
         request[r].mine = Nothing, q1.outcome = "running", q1.mine # Nothing
  PROVE  version' > version
<1> DEFINE q == request[r]
<1>1. Head(q.steps).do = "reserve"
  BY DEF Takes
<1>2. Becomes(r, q1) /\ request'[r] = q1 /\ DOMAIN q = Fields /\ version \in Nat
  BY DEF Takes, Becomes, SoundState, Sound
<1>3. ~Die(r)
  <2> SUFFICES ASSUME Die(r) PROVE FALSE
    OBVIOUS
  <2>1. PICK q2 : Takes(r, q2) /\ q2.outcome = "died"
    BY DieTakes
  <2>2. request'[r] = q2
    BY <2>1 DEF Takes, Becomes, SoundState
  <2>3. QED
    BY <1>2, <2>1, <2>2
<1>4. ReserveVersions(r)
  BY <1>1, <1>3, Zenon
     DEF Query, ReadTheVersion, ReadTheRows, ReadTheLog, CompareRows, Validate, FindToken,
         ClaimVersion, StoreRows, WalkUp, MoveUp, DropCollections, EraseRows, EraseItems, LogTag, NextIs
<1>5. IsFiniteSet(On(r)) /\ Cardinality(On(r)) \in Nat
  BY <1>4, RunningIsSound DEF ReserveVersions
<1>6. CASE "one" \in Rules(r) /\ version' = version + 1
  BY <1>2, <1>6
<1>7. ASSUME version' = version + Cardinality(On(r)), "one" \notin Rules(r),
             NEW mine \in Numberings(On(r), version, FALSE),
             Becomes(r, Advanced([q EXCEPT !.mine = mine]))
      PROVE  version' > version
  <2> SUFFICES ASSUME Cardinality(On(r)) = 0 PROVE FALSE
    BY <1>2, <1>5, <1>7
  <2>1. On(r) = {}
    BY <1>5, FS_EmptySet
  <2>2. mine \in [On(r) -> version + 1 .. version + Cardinality(On(r))]
    BY <1>7 DEF Numberings
  <2>3. mine = Nothing
    BY <2>1, <2>2 DEF Nothing
  <2> DEFINE numbered == [q EXCEPT !.mine = mine]
             q2       == Advanced(numbered)
  <2>4. DOMAIN numbered = Fields /\ numbered.mine = mine
    BY <1>2 DEF Fields
  <2>5. q1 = q2
    BY <1>2, <1>7 DEF Becomes, SoundState
  <2> HIDE DEF numbered
  <2>6. Moves(numbered, q2)
    BY <2>4, AdvancedMoves
  <2>7. q2.mine = Nothing
    BY <2>3, <2>4, <2>6 DEF Moves, Stops, GoesOn
  <2>8. QED
    BY <2>5, <2>7
<1>8. CASE Becomes(r, Ended([q EXCEPT !.seen = version], "refused"))
  <2> DEFINE late == [q EXCEPT !.seen = version]
             q2   == Ended(late, "refused")
  <2>1. DOMAIN late = Fields
    BY <1>2 DEF Fields
  <2>2. q1 = q2
    BY <1>2, <1>8 DEF Becomes, SoundState
  <2> HIDE DEF late
  <2>3. q2.outcome = "refused"
    BY <2>1, EndedStops DEF Stops
  <2>4. QED
    BY <2>2, <2>3
<1>9. CASE "one" \in Rules(r) /\ ~Becomes(r, Ended([q EXCEPT !.seen = version], "refused"))
  <2>1. version' = version + 1
    BY <1>4, <1>9 DEF ReserveVersions
  <2>2. QED
    BY <1>6, <1>9, <2>1
<1>10. CASE "one" \notin Rules(r) /\ ~Becomes(r, Ended([q EXCEPT !.seen = version], "refused"))
  <2>1. ("one" \in Rules(r)) = FALSE
    BY <1>10
  <2>2. /\ version' = version + Cardinality(On(r))
        /\ \E mine \in Numberings(On(r), version, FALSE) :
              Becomes(r, Advanced([q EXCEPT !.mine = mine]))
    BY <1>4, <1>10, <2>1 DEF ReserveVersions
  <2>3. QED
    BY <1>7, <1>10, <2>2
<1>11. QED
  BY <1>8, <1>9, <1>10

BatchesCareful ==
  \A p \in Requests : Batch(request[p]) /\ Underway(p) =>
    Careful(request[p]) /\ request[p].header \in Nat /\ request[p].header <= version

(* While the library has the version a batch was prepared from, no one has *)
(* written, and the rows are the ones it read.                             *)
Unmoved ==
  \A p \in Requests :
    Batch(request[p]) /\ Underway(p) /\ request[p].mine = Nothing /\ request[p].header = version =>
      /\ \A s \in Requests : ~Writing(s)
      /\ \A o \in DOMAIN request[p].base : request[p].base[o] = row[o]
      /\ \A o \in Objects \cap DOMAIN request[p].below : request[p].below[o] = row[o]

(* So one batch writes at a time. *)
Serial ==
  \A p, s \in Requests :
    Batch(request[p]) /\ Batch(request[s]) /\ Writing(p) /\ Writing(s) => p = s

(* And it has read what another batch wrote last. *)
Informed ==
  \A p \in Requests : Batch(request[p]) /\ Writing(p) =>
    \A o \in Objects :
      row[o].live /\ row[o].by \in Requests \ {p} /\ Batch(request[row[o].by])
        => /\ o \in DOMAIN request[p].base => request[p].base[o] = row[o]
           /\ o \in DOMAIN request[p].below => request[p].below[o] = row[o]

Begun == \A o \in Objects : row[o].by \in Requests => request[row[o].by].outcome # "waiting"

BatchesSerial == BatchesCareful /\ Unmoved /\ Serial /\ Informed /\ Begun

LEMMA OneMoves ==
  ASSUME SoundState, LibraryTyped, BatchesSerial,
         NEW r \in Requests, Query(r) \/ Die(r), InTurn', NEW q1, Takes(r, q1)
  PROVE  BatchesSerial'
<1> DEFINE q == request[r]
<1>1. /\ request'[r] = q1 /\ DOMAIN request' = Requests
      /\ \A s \in Requests : s # r => request'[s] = request[s]
  BY DEF Takes, Becomes, SoundState
<1>2. q.outcome = "running" /\ q1.outcome # "waiting"
  BY DEF Query, Die, ReadTheVersion, ReadTheRows, ReadTheLog, CompareRows, Validate, FindToken,
         ClaimVersion, ReserveVersions, StoreRows, WalkUp, MoveUp, DropCollections, EraseRows,
         EraseItems, LogTag, NextIs, Underway, Takes
<1>3. version' \in Nat /\ version' >= version /\ version \in Nat
  BY VersionGrows DEF SoundState
<1>4. \A p \in Requests : Batch(request'[p]) <=> Batch(request[p])
  BY <1>1 DEF Takes, Same, Batch
<1>5. \A p \in Requests : request'[p].header = request[p].header
  BY <1>1 DEF Takes, Same
<1>6. Batch(q) /\ q1.outcome = "running" =>
        /\ Careful(q1) /\ (q1.mine = Nothing => q.mine = Nothing)
        /\ q.mine = Nothing /\ q1.mine # Nothing => q.header = version
  BY <1>2, StaysCareful DEF BatchesSerial, BatchesCareful, Underway, Batch
<1>7. q.mine = Nothing /\ q1.outcome = "running" /\ q1.mine # Nothing => version' > version
  BY FirstMovesVersion
<1>8. \A o \in Objects :
         /\ \/ row'[o] = row[o]
            \/ ~row'[o].live /\ row'[o].by \in {row[o].by, r, Nobody}
            \/ /\ NextIs(r, "store") /\ o \in DOMAIN q.mine
               /\ row'[o].by = r /\ row'[o].edits = Edited(r, o)
            \/ /\ o \in DOMAIN q.below /\ DOMAIN q.mine # {}
               /\ row'[o].by = r /\ row'[o].live = row[o].live
               /\ row'[o].edits = {r} \cup q.below[o].edits
         /\ row'[o] # row[o] => DOMAIN q.mine # {} \/ EraseItems(r)
  BY RowsAfter
<1>9. DOMAIN Nothing = {}
  BY DEF Nothing
<1>10. q.mine = Nothing /\ version' = version => \A o \in Objects : row'[o] = row[o]
  <2>1. EraseItems(r) => version' = version + 1
    BY ErasedInTurn DEF EraseItems, NextVersion
  <2>2. QED
    BY <1>3, <1>8, <1>9, <2>1
<1>11. q1.outcome = "running" =>
          /\ q1.base \in {q.base, [o \in Head(q.steps).on |-> row[o]]}
          /\ \A o \in DOMAIN q1.below :
                q1.below[o] = row[o] \/ (o \in DOMAIN q.below /\ q1.below[o] = q.below[o])
  BY DEF Takes, FoundBelow
<1>12. \A p \in Requests : DOMAIN request'[p].base \subseteq Objects
  <2>1. SoundState'
    BY SoundStep DEF Next
  <2>2. QED
    BY <2>1 DEF SoundState, Sound
<1>13. Nobody \notin Requests
  BY ServerAssumption
<1> HIDE DEF q
<1>14. BatchesCareful'
  <2> SUFFICES ASSUME NEW p \in Requests, Batch(request'[p]), request'[p].outcome = "running"
               PROVE  /\ Careful(request'[p])
                      /\ request'[p].header \in Nat /\ request'[p].header <= version'
    BY DEF BatchesCareful, Underway
  <2>1. request[p].outcome = "running"
    BY <1>1, <1>2 DEF q
  <2>2. Careful(request[p]) /\ request[p].header \in Nat /\ request[p].header <= version
    BY <1>4, <2>1 DEF BatchesSerial, BatchesCareful, Underway
  <2>3. Careful(request'[p])
    BY <1>1, <1>4, <1>6, <2>2 DEF q
  <2>4. QED
    BY <1>3, <1>5, <2>2, <2>3
<1>15. Unmoved'
  <2> SUFFICES ASSUME NEW p \in Requests, Batch(request'[p]), request'[p].outcome = "running",
                      request'[p].mine = Nothing, request'[p].header = version'
               PROVE  /\ \A s \in Requests : ~Writing(s)'
                      /\ \A o \in DOMAIN request'[p].base : request'[p].base[o] = row'[o]
                      /\ \A o \in Objects \cap DOMAIN request'[p].below : request'[p].below[o] = row'[o]
    BY DEF Unmoved, Underway
  <2>1. Batch(request[p]) /\ request[p].outcome = "running" /\ request[p].mine = Nothing
    BY <1>1, <1>2, <1>4, <1>6 DEF q
  <2>2. request[p].header = version /\ version' = version
    <3>1. request[p].header \in Nat /\ request[p].header <= version
      BY <2>1 DEF BatchesSerial, BatchesCareful, Underway
    <3>2. request[p].header = version'
      BY <1>5
    <3>3. QED
      BY <1>3, <3>1, <3>2
  <2>3. /\ \A s \in Requests : ~Writing(s)
        /\ \A o \in DOMAIN request[p].base : request[p].base[o] = row[o]
        /\ \A o \in Objects \cap DOMAIN request[p].below : request[p].below[o] = row[o]
    BY <2>1, <2>2 DEF BatchesSerial, Unmoved, Underway
  <2>4. q.mine = Nothing
    BY <1>2, <2>3 DEF Writing, Underway, q
  <2>5. \A s \in Requests : ~Writing(s)'
    BY <1>1, <1>3, <1>7, <2>2, <2>3, <2>4 DEF Writing, Underway
  <2>6. \A o \in Objects : row'[o] = row[o]
    BY <1>10, <2>2, <2>4
  <2>7. ASSUME NEW o \in DOMAIN request'[p].base PROVE request'[p].base[o] = row'[o]
    <3>1. o \in Objects
      BY <1>12
    <3>2. CASE request'[p].base = request[p].base
      BY <2>3, <2>6, <2>7, <3>1, <3>2
    <3>3. CASE request'[p].base = [x \in Head(q.steps).on |-> row[x]]
      BY <2>6, <2>7, <3>1, <3>3
    <3>4. QED
      BY <1>1, <1>11, <3>2, <3>3 DEF q
  <2>8. ASSUME NEW o \in Objects \cap DOMAIN request'[p].below PROVE request'[p].below[o] = row'[o]
    <3>1. row'[o] = row[o]
      BY <2>6
    <3>2. CASE p # r
      BY <1>1, <2>3, <2>8, <3>1, <3>2
    <3>3. CASE p = r
      <4>1. \/ q1.below[o] = row[o]
            \/ o \in DOMAIN q.below /\ q1.below[o] = q.below[o]
        BY <1>1, <1>11, <2>8, <3>3
      <4>2. QED
        BY <1>1, <2>3, <3>1, <3>3, <4>1 DEF q
    <3>4. QED
      BY <3>2, <3>3
  <2>9. QED
    BY <2>5, <2>7, <2>8
<1>16. \A p \in Requests : Batch(request'[p]) /\ Writing(p)' /\ ~Writing(p) =>
         /\ p = r /\ q1.outcome = "running" /\ q.mine = Nothing
         /\ \A s \in Requests : ~Writing(s)
         /\ \A o \in DOMAIN q.base : q.base[o] = row[o]
         /\ \A o \in Objects \cap DOMAIN q.below : q.below[o] = row[o]
  <2> SUFFICES ASSUME NEW p \in Requests, Batch(request'[p]), Writing(p)', ~Writing(p)
               PROVE  /\ p = r /\ q1.outcome = "running" /\ q.mine = Nothing
                      /\ \A s \in Requests : ~Writing(s)
                      /\ \A o \in DOMAIN q.base : q.base[o] = row[o]
                      /\ \A o \in Objects \cap DOMAIN q.below : q.below[o] = row[o]
    OBVIOUS
  <2>1. p = r /\ q1.outcome = "running" /\ q1.mine # Nothing
    BY <1>1 DEF Writing, Underway
  <2>2. q.mine = Nothing /\ Batch(q)
    BY <1>2, <1>4, <2>1 DEF Writing, Underway, q
  <2>3. q.header = version
    BY <1>6, <2>1, <2>2
  <2>4. QED
    BY <1>2, <2>1, <2>2, <2>3 DEF BatchesSerial, Unmoved, Underway, q
<1>17. Serial'
  <2> SUFFICES ASSUME NEW p \in Requests, NEW s \in Requests, Batch(request'[p]), Batch(request'[s]),
                      Writing(p)', Writing(s)', p # s
               PROVE  FALSE
    BY DEF Serial
  <2>1. Writing(p) \/ ~Writing(p)
    OBVIOUS
  <2>2. \A t \in Requests : t # r /\ Writing(t)' => Writing(t)
    BY <1>1 DEF Writing, Underway
  <2>3. Writing(p) /\ Writing(s)
    BY <1>16, <2>2
  <2>4. QED
    BY <1>4, <2>3 DEF BatchesSerial, Serial
<1>18. Informed'
  <2> SUFFICES ASSUME NEW p \in Requests, Batch(request'[p]), Writing(p)', NEW o \in Objects,
                      row'[o].live, row'[o].by \in Requests \ {p}, Batch(request'[row'[o].by])
               PROVE  /\ o \in DOMAIN request'[p].base => request'[p].base[o] = row'[o]
                      /\ o \in DOMAIN request'[p].below => request'[p].below[o] = row'[o]
    BY DEF Informed
  <2>1. row'[o] = row[o]
    <3> SUFFICES ASSUME row'[o] # row[o], row'[o].by = r PROVE FALSE
      BY <1>8
    <3>1. DOMAIN q.mine # {}
      BY <1>8
    <3>2. Writing(r) /\ p # r /\ Batch(q)
      BY <1>2, <1>4, <1>9, <3>1 DEF Writing, Underway, q
    <3>3. Writing(p)
      BY <1>16, <3>2
    <3>4. QED
      BY <1>4, <3>2, <3>3 DEF BatchesSerial, Serial, q
  <2>2. /\ o \in DOMAIN request[p].base => request[p].base[o] = row[o]
        /\ o \in DOMAIN request[p].below => request[p].below[o] = row[o]
    <3>1. CASE Writing(p)
      <4>1. /\ row[o].live /\ row[o].by \in Requests \ {p}
            /\ Batch(request[row[o].by]) /\ Batch(request[p])
        BY <1>4, <2>1
      <4>2. QED
        BY <3>1, <4>1 DEF BatchesSerial, Informed
    <3>2. CASE ~Writing(p)
      BY <1>16, <3>2 DEF q
    <3>3. QED
      BY <3>1, <3>2
  <2>3. CASE p # r
    BY <1>1, <2>1, <2>2, <2>3
  <2>4. CASE p = r
    <3>1. request'[p] = q1 /\ q1.outcome = "running"
      BY <1>1, <2>4 DEF Writing, Underway
    <3>2. o \in DOMAIN q1.base => q1.base[o] = row[o]
      <4>1. CASE q1.base = [x \in Head(q.steps).on |-> row[x]]
        BY <4>1
      <4>2. CASE q1.base = q.base
        BY <2>2, <2>4, <4>2 DEF q
      <4>3. QED
        BY <1>11, <3>1, <4>1, <4>2
    <3>3. o \in DOMAIN q1.below => q1.below[o] = row[o]
      BY <1>11, <2>2, <2>4, <3>1 DEF q
    <3>4. QED
      BY <2>1, <3>1, <3>2, <3>3
  <2>5. QED
    BY <2>3, <2>4
<1>19. Begun'
  <2> SUFFICES ASSUME NEW o \in Objects, row'[o].by \in Requests
               PROVE  request'[row'[o].by].outcome # "waiting"
    BY DEF Begun
  <2>1. row'[o].by = row[o].by \/ row'[o].by = r
    BY <1>8, <1>13
  <2>2. QED
    BY <1>1, <1>2, <2>1 DEF BatchesSerial, Begun
<1>20. QED
  BY <1>14, <1>15, <1>17, <1>18, <1>19 DEF BatchesSerial

LEMMA OneBegins ==
  ASSUME SoundState, LibraryTyped, BatchesSerial, NEW r \in Requests, Begin(r)
  PROVE  BatchesSerial'
<1>1. PICK shape \in Shapes[r] :
       request' = [s \in Requests |->
         IF s = r
         THEN [Idle EXCEPT
                 !.op      = shape.op,
                 !.keys    = shape.keys,
                 !.token   = shape.token,
                 !.invalid = shape.invalid,
                 !.header  = IF shape.conditional THEN version ELSE NoHeader,
                 !.steps   = Program(shape),
                 !.outcome = "running",
                 !.met     = {s2 \in Requests : Underway(s2)},
                 !.calm    = \A s2 \in Requests : ~Writing(s2)]
         ELSE [request[s] EXCEPT !.met = IF Underway(s) /\ request[s].op # "list items"
                                         THEN @ \cup {r} ELSE @]]
  BY DEF Begin
<1>2. /\ version' = version /\ row' = row /\ request[r].outcome = "waiting" /\ version \in Nat
  BY DEF Begin, SoundState
<1>3. LET q == request'[r]
      IN  /\ q.op = shape.op /\ q.header = (IF shape.conditional THEN version ELSE NoHeader)
          /\ q.steps = Program(shape) /\ q.outcome = "running"
          /\ q.calm = (\A s2 \in Requests : ~Writing(s2))
          /\ q.mine = Nothing /\ q.base = Nothing /\ q.below = Nothing
  BY <1>1 DEF Idle
<1>4. \A s \in Requests : s # r =>
        /\ request'[s].op = request[s].op /\ request'[s].header = request[s].header
        /\ request'[s].steps = request[s].steps /\ request'[s].outcome = request[s].outcome
        /\ request'[s].calm = request[s].calm
        /\ request'[s].mine = request[s].mine /\ request'[s].base = request[s].base
        /\ request'[s].below = request[s].below
  <2> SUFFICES ASSUME NEW s \in Requests, s # r
               PROVE  /\ request'[s].op = request[s].op /\ request'[s].header = request[s].header
                      /\ request'[s].steps = request[s].steps /\ request'[s].outcome = request[s].outcome
                      /\ request'[s].calm = request[s].calm
                      /\ request'[s].mine = request[s].mine /\ request'[s].base = request[s].base
                      /\ request'[s].below = request[s].below
    OBVIOUS
  <2>1. \E met : request'[s] = [request[s] EXCEPT !.met = met]
    BY <1>1
  <2>2. DOMAIN request[s] = Fields
    BY DEF SoundState, Sound
  <2>3. QED
    BY <2>1, <2>2 DEF Fields
<1>5. DOMAIN Nothing = {}
  BY DEF Nothing
<1>6. Batch(request'[r]) =>
        /\ Careful(request'[r]) /\ request'[r].header = version
        /\ \A s \in Requests : ~Writing(s)
  <2> SUFFICES ASSUME Batch(request'[r])
               PROVE  /\ Careful(request'[r]) /\ request'[r].header = version
                      /\ \A s \in Requests : ~Writing(s)
    OBVIOUS
  <2>1. /\ shape.op \in {"post items", "post collections"} /\ shape.conditional
        /\ request'[r].header = version /\ \A s \in Requests : ~Writing(s)
    BY <1>3 DEF Batch
  <2>2. ExactFirst(Program(shape)) /\ InOrder(Program(shape), {}, {}) /\ Whole(Program(shape))
    BY <2>1, BatchPrograms
  <2>3. Careful(request'[r])
    BY <1>3, <1>5, <2>2 DEF Careful
  <2>4. QED
    BY <2>1, <2>3
<1>7. \A s \in Requests : s # r => /\ Batch(request'[s]) <=> Batch(request[s])
                                   /\ Writing(s)' <=> Writing(s)
                                   /\ Underway(s)' <=> Underway(s)
                                   /\ Careful(request'[s]) <=> Careful(request[s])
  BY <1>4 DEF Batch, Writing, Underway, Careful
<1>8. ~Writing(r)' /\ ~Writing(r)
  BY <1>2, <1>3 DEF Writing, Underway
<1>9. BatchesCareful'
  <2> SUFFICES ASSUME NEW p \in Requests, Batch(request'[p]), Underway(p)'
               PROVE  /\ Careful(request'[p])
                      /\ request'[p].header \in Nat /\ request'[p].header <= version'
    BY DEF BatchesCareful
  <2>1. CASE p = r
    BY <1>2, <1>6, <2>1
  <2>2. CASE p # r
    BY <1>2, <1>4, <1>7, <2>2 DEF BatchesSerial, BatchesCareful
  <2>3. QED
    BY <2>1, <2>2
<1>10. Unmoved'
  <2> SUFFICES ASSUME NEW p \in Requests, Batch(request'[p]), Underway(p)',
                      request'[p].mine = Nothing, request'[p].header = version'
               PROVE  /\ \A s \in Requests : ~Writing(s)'
                      /\ \A o \in DOMAIN request'[p].base : request'[p].base[o] = row'[o]
                      /\ \A o \in Objects \cap DOMAIN request'[p].below : request'[p].below[o] = row'[o]
    BY DEF Unmoved
  <2>1. /\ \A s \in Requests : ~Writing(s)
        /\ \A o \in DOMAIN request'[p].base : request'[p].base[o] = row[o]
        /\ \A o \in Objects \cap DOMAIN request'[p].below : request'[p].below[o] = row[o]
    <3>1. CASE p = r
      BY <1>3, <1>5, <1>6, <3>1
    <3>2. CASE p # r
      BY <1>2, <1>4, <1>7, <3>2 DEF BatchesSerial, Unmoved
    <3>3. QED
      BY <3>1, <3>2
  <2>2. QED
    BY <1>2, <1>7, <1>8, <2>1
<1>11. Serial'
  BY <1>7, <1>8 DEF BatchesSerial, Serial
<1>12. Informed'
  <2> SUFFICES ASSUME NEW p \in Requests, Batch(request'[p]), Writing(p)', NEW o \in Objects,
                      row[o].live, row[o].by \in Requests \ {p}, Batch(request'[row[o].by])
               PROVE  /\ o \in DOMAIN request'[p].base => request'[p].base[o] = row[o]
                      /\ o \in DOMAIN request'[p].below => request'[p].below[o] = row[o]
    BY <1>2 DEF Informed
  <2>1. /\ p # r /\ Batch(request[p]) /\ Writing(p)
        /\ request'[p].base = request[p].base /\ request'[p].below = request[p].below
    BY <1>4, <1>7, <1>8
  <2>2. row[o].by # r
    BY <1>2 DEF BatchesSerial, Begun
  <2>3. Batch(request[row[o].by])
    BY <1>7, <2>2
  <2>4. QED
    BY <2>1, <2>3 DEF BatchesSerial, Informed
<1>13. Begun'
  <2> SUFFICES ASSUME NEW o \in Objects, row[o].by \in Requests
               PROVE  request'[row[o].by].outcome # "waiting"
    BY <1>2 DEF Begun
  <2>1. QED
    BY <1>3, <1>4 DEF BatchesSerial, Begun
<1>14. QED
  BY <1>9, <1>10, <1>11, <1>12, <1>13 DEF BatchesSerial

(* What a batch stores, it has merged with what is there. *)
LEMMA BatchKeepsEdits ==
  ASSUME SoundState, LibraryTyped, BatchesSerial, NEW r \in Requests, Begin(r) \/ Query(r) \/ Die(r),
         NEW o \in Objects, row[o].by \in Requests, row'[o].by \in Requests, row[o].by # row'[o].by,
         row[o].live, row'[o].live, Guarded(row[o].by), Guarded(row'[o].by)
  PROVE  row[o].edits \subseteq row'[o].edits
<1> DEFINE q == request[r]
<1>1. row'[o] # row[o]
  OBVIOUS
<1>2. Query(r) \/ Die(r)
  BY <1>1 DEF Begin
<1>3. /\ row'[o].by = r
      /\ \/ /\ NextIs(r, "store") /\ o \in DOMAIN q.mine
            /\ row'[o].edits = Edited(r, o)
         \/ /\ o \in DOMAIN q.below /\ DOMAIN q.mine # {}
            /\ row'[o].edits = {r} \cup q.below[o].edits
  BY <1>1, <1>2, RowsAfter
<1>4. Batch(q) /\ Batch(request[row[o].by])
  BY <1>3 DEF Guarded, Given, Batch
<1>5. Writing(r) /\ Underway(r)
  <2>1. DOMAIN Nothing = {}
    BY DEF Nothing
  <2>2. q.mine # Nothing
    BY <1>3, <2>1
  <2>3. q.outcome = "running"
    <3>1. SoundState /\ Sound(q)
      BY DEF SoundState
    <3>2. QED
      BY <2>2, <3>1 DEF Sound
  <2>4. QED
    BY <2>2, <2>3 DEF Writing, Underway
<1>6. Careful(q)
  BY <1>4, <1>5 DEF BatchesSerial, BatchesCareful
<1>7. /\ o \in DOMAIN q.base => q.base[o] = row[o]
      /\ o \in DOMAIN q.below => q.below[o] = row[o]
  BY <1>3, <1>4, <1>5 DEF BatchesSerial, Informed
<1>8. CASE NextIs(r, "store") /\ o \in DOMAIN q.mine /\ row'[o].edits = Edited(r, o)
  <2>1. q.steps \in Seq(Steps) /\ q.steps # <<>>
    BY <1>5 DEF SoundState, Sound, Underway
  <2>2. DOMAIN q.mine \subseteq DOMAIN q.base /\ o \notin Settings
    <3> HIDE DEF q
    <3>1. 1 \in DOMAIN q.steps /\ Head(q.steps) = q.steps[1]
      BY <2>1, FirstOf
    <3>2. q.steps[1].do = "store"
      BY <1>8, <3>1 DEF NextIs, q
    <3>3. StoreInOrder(q.steps, 1, DOMAIN q.mine, DOMAIN q.base)
      BY <1>6, <3>1 DEF Careful, InOrder
    <3>4. QED
      BY <1>6, <1>8, <3>2, <3>3 DEF StoreInOrder, Careful
  <2>3. row[o].edits \subseteq Requests
    BY DEF LibraryTyped, Rows
  <2>4. QED
    BY <1>7, <1>8, <2>2, <2>3 DEF Edited
<1>9. CASE o \in DOMAIN q.below /\ row'[o].edits = {r} \cup q.below[o].edits
  BY <1>7, <1>9
<1>10. QED
  BY <1>3, <1>8, <1>9

(* Where one guarded batch writes what another one wrote last, none of the *)
(* edits there is lost: what it was prepared from is what it read, since   *)
(* the version it named has not passed before it reserves, and no other    *)
(* guarded batch writes until it has ended.  InTurn: until a deletion of   *)
(* items is overtaken.                                                     *)
THEOREM GuardedBatchesKeepEdits == Spec => GuardedEditsKept
<1>1. Init => BatchesSerial
  <2> SUFFICES ASSUME Init PROVE BatchesSerial
    OBVIOUS
  <2>1. \A p \in Requests : request[p].outcome = "waiting"
    BY DEF Init, Idle
  <2>2. \A o \in Objects : row[o].by = Nobody
    <3>1. NoRow.by = Nobody /\ [NoRow EXCEPT !.version = 1, !.live = TRUE].by = Nobody
      BY DEF NoRow
    <3>2. QED
      BY <3>1 DEF Init
  <2>3. Nobody \notin Requests
    BY ServerAssumption
  <2>4. \A p \in Requests : ~Underway(p) /\ ~Writing(p)
    BY <2>1 DEF Underway, Writing
  <2>5. QED
    BY <2>2, <2>3, <2>4 DEF BatchesSerial, BatchesCareful, Unmoved, Serial, Informed, Begun
<1>2. SoundState /\ LibraryTyped /\ (InTurn => BatchesSerial) /\ [Next]_vars
        => (InTurn => BatchesSerial)'
  <2> SUFFICES ASSUME SoundState, LibraryTyped, InTurn => BatchesSerial, [Next]_vars, InTurn'
               PROVE  BatchesSerial'
    OBVIOUS
  <2>1. CASE UNCHANGED vars
    BY <2>1 DEF vars, InTurn, BatchesSerial, BatchesCareful, Unmoved, Serial, Informed, Begun,
                Underway, Writing
  <2>2. ASSUME NEW r \in Requests, Query(r) \/ Die(r) PROVE BatchesSerial'
    <3>1. \E q1 : Takes(r, q1)
      BY <2>2, QueryTakes, DieTakes
    <3>2. InTurn
      BY <2>2, TurnsStay
    <3>3. QED
      BY <2>2, <3>1, <3>2, OneMoves
  <2>3. ASSUME NEW r \in Requests, Begin(r) PROVE BatchesSerial'
    BY <2>3, TurnsStay, OneBegins
  <2>4. QED
    BY <2>1, <2>2, <2>3 DEF Next
<1>3. SoundState /\ LibraryTyped /\ (InTurn => BatchesSerial) /\ [Next]_vars =>
        [InTurn => \A o \in Objects :
           LET last == row[o].by
               next == row'[o].by
           IN  /\ last \in Requests /\ next \in Requests /\ last # next
               /\ row[o].live /\ row'[o].live
               /\ Guarded(last) /\ Guarded(next)
               => row[o].edits \subseteq row'[o].edits]_vars
  BY BatchKeepsEdits DEF Next
<1>4. QED
  BY AlwaysSound, <1>1, <1>2, <1>3, PTL DEF Spec, GuardedEditsKept
=============================================================================
