------------------------ MODULE ForegroundSyncProofs ------------------------
(***************************************************************************)
(* What ForegroundSync keeps for every number of tasks and every bound:    *)
(* one synchronization at a time, and no task asleep that nobody can       *)
(* cancel, with and without QuietRuns and PromptCancel.                    *)
(***************************************************************************)
EXTENDS ForegroundSync, FiniteSetTheorems, TLAPS

Tasked == [at : {"none", "sleeping"} \cup Requests, cancelled : BOOLEAN,
           carries : 0 .. MaxEdits, second : BOOLEAN]

(* The bounds are numbers, and what is pending was edited.                 *)
Counted ==
  /\ left \in [{"edits", "calls", "pulls", "faults"} -> Nat]
  /\ pending + left["edits"] <= MaxEdits

(* One task runs, and isSynchronizing says whether.                        *)
Exclusive ==
  /\ \A t, u \in Tasks : task[t].at \in Requests /\ task[u].at \in Requests => t = u
  /\ syncing <=> \E t \in Tasks : task[t].at \in Requests

(* What an upload carries is still pending.                                *)
Carried == \A t \in Tasks : task[t].at = "post" => task[t].carries <= pending

(* The invariant: one request at a time is what keeps pending from being   *)
(* counted down twice.                                                     *)
IInv == TypeOK /\ Counted /\ Exclusive /\ Carried /\ SleepersCancellable

(* What scheduling and stopping do to the tasks: none starts or ends to    *)
(* run, and the task that sleeps is the one that is referred to.           *)
Rescheduled ==
  /\ task' \in [Tasks -> Tasked]
  /\ scheduled' \in Tasks \cup {None}
  /\ SleepersCancellable'
  /\ \A t \in Tasks : task'[t].at \in Requests <=> task[t].at \in Requests
  /\ \A t \in Tasks : task[t].at \in Requests =>
       task'[t].at = task[t].at /\ task'[t].carries = task[t].carries

LEMMA NoTaskTasked == NoTask \in Tasked /\ [NoTask EXCEPT !.at = "sleeping"] \in Tasked
<1>1. MaxEdits \in Nat /\ 0 \in 0 .. MaxEdits
  BY ForegroundAssumption DEF ForegroundAssumption
<1>2. NoTask \in Tasked
  BY <1>1 DEF NoTask, Tasked
<1> QED
  BY <1>2 DEF Tasked

(* Cancelling changes nothing but the flag of one task.                    *)
LEMMA CancelledKeeps ==
  ASSUME task \in [Tasks -> Tasked], NEW t
  PROVE  /\ Cancelled(t, task) \in [Tasks -> Tasked]
         /\ \A u \in Tasks : /\ Cancelled(t, task)[u].at = task[u].at
                             /\ Cancelled(t, task)[u].carries = task[u].carries
                             /\ u # t => Cancelled(t, task)[u] = task[u]
         /\ t \in Tasks /\ task[t].at # "none" => Cancelled(t, task)[t].cancelled
  BY DEF Cancelled, Tasked

(* scheduleUpload cancels the task it replaces.                            *)
LEMMA ScheduleReschedules ==
  ASSUME TypeOK, SleepersCancellable, NEW count, Schedule(count)
  PROVE  Rescheduled
<1> DEFINE before == Cancelled(scheduled, task)
<1>1. task \in [Tasks -> Tasked] /\ scheduled \in Tasks \cup {None}
  BY DEF TypeOK, Tasked
<1>2. /\ before \in [Tasks -> Tasked]
      /\ \A u \in Tasks : /\ before[u].at = task[u].at
                          /\ before[u].carries = task[u].carries
                          /\ u # scheduled => before[u] = task[u]
      /\ scheduled \in Tasks /\ task[scheduled].at # "none" => before[scheduled].cancelled
  BY <1>1, CancelledKeeps
<1>3. \A u \in Tasks : before[u].at = "sleeping" => before[u].cancelled
  BY <1>1, <1>2 DEF SleepersCancellable, Tasked
<1> HIDE DEF before
<1>4. CASE count > 0 /\ connected
  <2>1. PICK t \in Free : /\ scheduled' = t
                          /\ task' = [before EXCEPT ![t] = [NoTask EXCEPT !.at = "sleeping"]]
    BY <1>4 DEF Schedule, before
  <2>2. t \in Tasks /\ task[t].at = "none"
    BY <2>1 DEF Free
  <2>3. task' \in [Tasks -> Tasked]
    BY <1>2, <2>1, <2>2, NoTaskTasked
  <2>4. \A u \in Tasks : u # t => task'[u] = before[u]
    BY <1>2, <2>1
  <2>5. task'[t].at = "sleeping"
    BY <1>2, <2>1, <2>2 DEF NoTask
  <2>6. SleepersCancellable'
    BY <1>3, <2>1, <2>4 DEF SleepersCancellable
  <2>7. \A u \in Tasks : task'[u].at \in Requests <=> task[u].at \in Requests
    BY <1>2, <2>2, <2>4, <2>5 DEF Requests
  <2>8. \A u \in Tasks : task[u].at \in Requests =>
          task'[u].at = task[u].at /\ task'[u].carries = task[u].carries
    BY <1>2, <2>2, <2>4 DEF Requests
  <2> QED
    BY <2>1, <2>2, <2>3, <2>6, <2>7, <2>8 DEF Rescheduled
<1>5. CASE ~(count > 0 /\ connected)
  <2>1. scheduled' = None /\ task' = before
    BY <1>5 DEF Schedule, before
  <2> QED
    BY <1>2, <1>3, <2>1 DEF Rescheduled, SleepersCancellable
<1> QED
  BY <1>4, <1>5

(* stop, and start, which stops first, cancel the task too.                *)
LEMMA StoppedReschedules ==
  ASSUME TypeOK, SleepersCancellable, Stopped
  PROVE  Rescheduled
<1>1. task \in [Tasks -> Tasked] /\ scheduled \in Tasks \cup {None}
  BY DEF TypeOK, Tasked
<1>2. scheduled' = None /\ task' = Cancelled(scheduled, task)
  BY DEF Stopped
<1>3. /\ task' \in [Tasks -> Tasked]
      /\ \A u \in Tasks : /\ task'[u].at = task[u].at
                          /\ task'[u].carries = task[u].carries
                          /\ u # scheduled => task'[u] = task[u]
      /\ scheduled \in Tasks /\ task[scheduled].at # "none" => task'[scheduled].cancelled
  BY <1>1, <1>2, CancelledKeeps
<1> QED
  BY <1>1, <1>2, <1>3 DEF Rescheduled, SleepersCancellable

(* So the parts of the invariant about running tasks survive both.         *)
LEMMA RescheduledKeeps ==
  ASSUME Exclusive, Carried, Rescheduled, UNCHANGED <<syncing, pending>>
  PROVE  Exclusive' /\ Carried'
<1>1. Exclusive'
  BY DEF Exclusive, Rescheduled
<1>2. Carried'
  <2> SUFFICES ASSUME NEW t \in Tasks, task'[t].at = "post"
               PROVE  task'[t].carries <= pending'
    BY DEF Carried
  <2>1. task[t].at \in Requests /\ task[t].at = "post"
    BY DEF Rescheduled, Requests
  <2> QED
    BY <2>1 DEF Rescheduled, Carried
<1> QED
  BY <1>1, <1>2

(* The end of a synchronization frees the task, unless it goes around.     *)
LEMMA EndRoundKeeps ==
  ASSUME IInv, NEW t \in Tasks, task[t].at \in Requests, EndRound(t),
         UNCHANGED <<scheduled, pending>> \/ (scheduled' = scheduled /\ task[t].at = "post")
  PROVE  /\ task' \in [Tasks -> Tasked] /\ {syncing', again'} \subseteq BOOLEAN
         /\ Exclusive' /\ Carried' /\ SleepersCancellable'
<1>1. /\ task \in [Tasks -> Tasked] /\ {syncing, again} \subseteq BOOLEAN
      /\ Exclusive /\ SleepersCancellable /\ scheduled' = scheduled
  BY DEF IInv, TypeOK, Tasked
<1>2. \A u \in Tasks : task[u].at \in Requests => u = t
  BY <1>1 DEF Exclusive
<1>3. CASE again /\ ~task[t].cancelled
  <2>1. /\ again' = FALSE /\ syncing' = syncing
        /\ task' = [task EXCEPT ![t] = [NoTask EXCEPT !.at = "key"]]
    BY <1>3 DEF EndRound
  <2>2. [NoTask EXCEPT !.at = "key"] \in Tasked /\ [NoTask EXCEPT !.at = "key"].at = "key"
    BY NoTaskTasked DEF NoTask, Tasked, Requests
  <2>3. /\ task' \in [Tasks -> Tasked] /\ task'[t].at = "key"
        /\ \A u \in Tasks : u # t => task'[u] = task[u]
    BY <1>1, <2>1, <2>2
  <2>4. Exclusive'
    BY <1>1, <1>2, <2>1, <2>3 DEF Exclusive, Requests
  <2>5. Carried' /\ SleepersCancellable'
    BY <1>1, <1>2, <2>3 DEF Carried, SleepersCancellable, Requests
  <2> QED
    BY <1>1, <2>1, <2>3, <2>4, <2>5
<1>4. CASE ~(again /\ ~task[t].cancelled)
  <2>1. again' = again /\ syncing' = FALSE /\ task' = [task EXCEPT ![t] = NoTask]
    BY <1>4 DEF EndRound
  <2>2. NoTask \in Tasked /\ NoTask.at = "none"
    BY NoTaskTasked DEF NoTask
  <2>3. /\ task' \in [Tasks -> Tasked] /\ task'[t].at = "none"
        /\ \A u \in Tasks : u # t => task'[u] = task[u]
    BY <1>1, <2>1, <2>2
  <2>4. Exclusive'
    BY <1>1, <1>2, <2>1, <2>3 DEF Exclusive, Requests
  <2>5. Carried' /\ SleepersCancellable'
    BY <1>1, <1>2, <2>3 DEF Carried, SleepersCancellable, Requests
  <2> QED
    BY <1>1, <2>1, <2>3, <2>4, <2>5
<1> QED
  BY <1>3, <1>4

(* A task that starts an upload is a task, and carries what is pending.    *)
LEMMA UploadTasked ==
  ASSUME NEW r \in Tasked, NEW n \in 0 .. MaxEdits, NEW b \in BOOLEAN
  PROVE  /\ [[[r EXCEPT !.at = "post"] EXCEPT !.carries = n] EXCEPT !.second = b] \in Tasked
         /\ [[[r EXCEPT !.at = "post"] EXCEPT !.carries = n] EXCEPT !.second = b].at = "post"
         /\ [[[r EXCEPT !.at = "post"] EXCEPT !.carries = n] EXCEPT !.second = b].carries = n
<1> DEFINE first == [r EXCEPT !.at = "post"]
           then == [first EXCEPT !.carries = n]
<1>1. first \in Tasked /\ first.at = "post"
  BY DEF Tasked, Requests
<1> HIDE DEF first
<1>2. then \in Tasked /\ then.at = "post" /\ then.carries = n
  BY <1>1 DEF Tasked
<1> HIDE DEF then
<1>3. /\ [then EXCEPT !.second = b] \in Tasked
      /\ [then EXCEPT !.second = b].at = "post"
      /\ [then EXCEPT !.second = b].carries = n
  BY <1>2 DEF Tasked
<1> QED
  BY <1>3 DEF then, first

(* A running task that goes on to its next request.                        *)
LEMMA GoingOnKeeps ==
  ASSUME IInv, NEW t \in Tasks, task[t].at \in Requests, NEW next \in Tasked,
         next.at \in Requests, next.at = "post" => next.carries <= pending',
         task' = [task EXCEPT ![t] = next], UNCHANGED <<scheduled, syncing>>,
         pending' = pending \/ task[t].at = "post"
  PROVE  task' \in [Tasks -> Tasked] /\ Exclusive' /\ Carried' /\ SleepersCancellable'
<1>1. task \in [Tasks -> Tasked] /\ Exclusive /\ SleepersCancellable
  BY DEF IInv, TypeOK, Tasked
<1>2. \A u \in Tasks : task[u].at \in Requests => u = t
  BY <1>1 DEF Exclusive
<1>3. /\ task' \in [Tasks -> Tasked] /\ task'[t] = next
      /\ \A u \in Tasks : u # t => task'[u] = task[u]
  BY <1>1
<1>4. Exclusive'
  BY <1>1, <1>2, <1>3 DEF Exclusive
<1>5. Carried'
  BY <1>2, <1>3 DEF Carried, Requests
<1>6. SleepersCancellable'
  BY <1>1, <1>3 DEF SleepersCancellable, Requests
<1> QED
  BY <1>3, <1>4, <1>5, <1>6

LEMMA InitIInv == Init => IInv
<1> SUFFICES ASSUME Init PROVE IInv
  OBVIOUS
<1>1. {MaxEdits, MaxCalls, MaxNotices, MaxPulls, MaxFaults} \subseteq Nat
  BY ForegroundAssumption DEF ForegroundAssumption
<1>2. /\ pending = 0 /\ shown = 0 /\ notices = <<>> /\ scheduled = None /\ starting = 0
      /\ touched = FALSE /\ connected = FALSE /\ syncing = FALSE /\ again = FALSE
      /\ task = [t \in Tasks |-> NoTask]
      /\ left = [edits |-> MaxEdits, calls |-> MaxCalls, pulls |-> MaxPulls,
                faults |-> MaxFaults]
  BY DEF Init
<1>3. task \in [Tasks -> Tasked] /\ \A t \in Tasks : task[t].at = "none"
  BY <1>2, NoTaskTasked DEF NoTask
<1>4. TypeOK
  <2>1. pending \in 0 .. MaxEdits /\ shown \in 0 .. MaxEdits /\ starting \in Nat
    BY <1>1, <1>2
  <2>2. notices \in Seq(0 .. MaxEdits) /\ Len(notices) <= MaxNotices
    BY <1>1, <1>2
  <2> QED
    BY <1>2, <1>3, <2>1, <2>2 DEF TypeOK, Tasked
<1>5. Counted
  <2>1. left \in [{"edits", "calls", "pulls", "faults"} -> Nat]
    BY <1>1, <1>2
  <2>2. left["edits"] = MaxEdits
    BY <1>2
  <2> QED
    BY <1>1, <1>2, <2>1, <2>2 DEF Counted
<1>6. Exclusive /\ Carried /\ SleepersCancellable
  BY <1>2, <1>3 DEF Exclusive, Carried, SleepersCancellable, Requests
<1> QED
  BY <1>4, <1>5, <1>6 DEF IInv

(* The parts of TypeOK that are not about the tasks.                       *)
Typed ==
  /\ pending \in 0 .. MaxEdits /\ shown \in 0 .. MaxEdits
  /\ notices \in Seq(0 .. MaxEdits) /\ Len(notices) <= MaxNotices
  /\ {touched, connected} \subseteq BOOLEAN
  /\ starting \in Nat

LEMMA TypedMeansType ==
  TypeOK <=> /\ Typed /\ task \in [Tasks -> Tasked] /\ scheduled \in Tasks \cup {None}
             /\ {syncing, again} \subseteq BOOLEAN
  BY DEF TypeOK, Typed, Tasked

(* A bound that is spent on something else leaves the count of the edits.  *)
LEMMA SpendingKeeps ==
  ASSUME Counted, NEW what \in {"calls", "pulls", "faults"}, Spends(what), UNCHANGED pending
  PROVE  Counted'
<1>1. left' = [left EXCEPT ![what] = @ - 1] /\ left[what] > 0
  BY DEF Spends
<1> QED
  BY <1>1 DEF Counted

(* Every step keeps the invariant.                                         *)
LEMMA NextIInv == IInv /\ [Next]_vars => IInv'
<1> SUFFICES ASSUME IInv, [Next]_vars PROVE IInv'
  OBVIOUS
<1> USE DEF coordinator
<1>0. /\ MaxEdits \in Nat /\ MaxNotices \in Nat
      /\ TypeOK /\ Counted /\ Exclusive /\ Carried /\ SleepersCancellable /\ Typed
      /\ task \in [Tasks -> Tasked] /\ scheduled \in Tasks \cup {None}
      /\ {syncing, again} \subseteq BOOLEAN
      /\ pending \in Nat /\ left \in [{"edits", "calls", "pulls", "faults"} -> Nat]
  BY TypedMeansType, ForegroundAssumption DEF IInv, Typed, Counted, ForegroundAssumption
<1> DEFINE TasksKept == /\ task' \in [Tasks -> Tasked] /\ {syncing', again'} \subseteq BOOLEAN
                        /\ Exclusive' /\ Carried' /\ SleepersCancellable'
<1>a. ASSUME UNCHANGED <<task, scheduled, syncing, again>>, pending' >= pending, pending' \in Nat
      PROVE  TasksKept /\ scheduled' \in Tasks \cup {None}
  BY <1>0, <1>a DEF Exclusive, Carried, SleepersCancellable, Tasked
<1>b. ASSUME Typed', Counted', TasksKept, scheduled' \in Tasks \cup {None}
      PROVE  IInv'
  <2>1. TypeOK'
    BY <1>b DEF TypeOK, Typed, Tasked
  <2> QED
    BY <1>b, <2>1 DEF IInv
<1>c. ASSUME Rescheduled, UNCHANGED <<syncing, pending>>, again' \in BOOLEAN
      PROVE  TasksKept /\ scheduled' \in Tasks \cup {None}
  BY <1>0, <1>c, RescheduledKeeps DEF Rescheduled
<1> HIDE DEF TasksKept
<1>1. CASE Edit
  <2>1. /\ pending' = pending + 1 /\ left["edits"] > 0 /\ touched' = TRUE
        /\ left' = [left EXCEPT !["edits"] = @ - 1]
        /\ UNCHANGED <<notices, shown, connected, starting, scheduled, syncing, again, task>>
    BY <1>1 DEF Edit, Spends
  <2>2. Counted' /\ pending' \in 0 .. MaxEdits
    BY <1>0, <2>1 DEF Counted
  <2>3. Typed'
    BY <1>0, <2>1, <2>2 DEF Typed
  <2> QED
    BY <1>0, <1>a, <1>b, <2>1, <2>2, <2>3
<1>2. CASE PullRemote
  <2>1. /\ Spends("pulls") /\ touched' = TRUE
        /\ UNCHANGED <<pending, notices, shown, connected, starting, scheduled, syncing, again, task>>
    BY <1>2 DEF PullRemote
  <2>2. Counted' /\ Typed'
    BY <1>0, <2>1, SpendingKeeps DEF Typed
  <2> QED
    BY <1>0, <1>a, <1>b, <2>1, <2>2
<1>3. CASE Observe
  <2>1. /\ Len(notices) < MaxNotices /\ notices' = Append(notices, pending)
        /\ touched' = FALSE /\ shown' = pending
        /\ UNCHANGED <<pending, connected, starting, scheduled, syncing, again, task, left>>
    BY <1>3 DEF Observe
  <2>2. notices' \in Seq(0 .. MaxEdits) /\ Len(notices') <= MaxNotices
    BY <1>0, <2>1 DEF Typed
  <2>3. Counted' /\ Typed'
    BY <1>0, <2>1, <2>2 DEF Typed, Counted
  <2> QED
    BY <1>0, <1>a, <1>b, <2>1, <2>3
<1>4. CASE ScheduleUpload
  <2>1. /\ notices # <<>> /\ notices' = Tail(notices) /\ Schedule(Head(notices))
        /\ UNCHANGED <<pending, touched, shown, connected, starting, syncing, again, left>>
    BY <1>4 DEF ScheduleUpload
  <2>2. notices' \in Seq(0 .. MaxEdits) /\ Len(notices') <= MaxNotices
    BY <1>0, <2>1 DEF Typed
  <2>3. Counted' /\ Typed'
    BY <1>0, <2>1, <2>2 DEF Typed, Counted
  <2>4. Rescheduled
    BY <1>0, <2>1, ScheduleReschedules
  <2> QED
    BY <1>0, <1>b, <1>c, <2>1, <2>3, <2>4
<1>5. CASE Stop
  <2>1. /\ Spends("calls") /\ Stopped /\ connected' = FALSE /\ again' = FALSE
        /\ UNCHANGED <<pending, touched, notices, shown, starting, syncing>>
    BY <1>5 DEF Stop, Stopped
  <2>2. Counted' /\ Typed'
    BY <1>0, <2>1, SpendingKeeps DEF Typed
  <2>3. Rescheduled
    BY <1>0, <2>1, StoppedReschedules
  <2> QED
    BY <1>0, <1>b, <1>c, <2>1, <2>2, <2>3
<1>6. CASE Start
  <2>1. /\ Spends("calls") /\ Stopped /\ connected' = FALSE /\ again' = FALSE
        /\ starting' = starting + 1
        /\ UNCHANGED <<pending, touched, notices, shown, syncing>>
    BY <1>6 DEF Start, Stopped
  <2>2. Counted' /\ Typed'
    <3>1. Counted'
      BY <1>0, <2>1, SpendingKeeps
    <3>2. starting' \in Nat
      BY <1>0, <2>1 DEF Typed
    <3>3. Typed'
      BY <1>0, <2>1, <3>2 DEF Typed
    <3> QED
      BY <3>1, <3>3
  <2>3. Rescheduled
    BY <1>0, <2>1, StoppedReschedules
  <2> QED
    BY <1>0, <1>b, <1>c, <2>1, <2>2, <2>3
<1>7. CASE Connect
  <2>1. /\ connected' = TRUE
        /\ UNCHANGED <<pending, touched, notices, shown, starting, scheduled, syncing, again,
                      task, left>>
    BY <1>7 DEF Connect
  <2>2. Counted' /\ Typed'
    BY <1>0, <2>1 DEF Typed, Counted
  <2> QED
    BY <1>0, <1>a, <1>b, <2>1, <2>2
<1>8. CASE FinishStart
  <2>1. /\ starting > 0 /\ starting' = starting - 1 /\ Schedule(shown)
        /\ UNCHANGED <<pending, touched, notices, shown, connected, syncing, again, left>>
    BY <1>8 DEF FinishStart, FirstUpload
  <2>2. Counted' /\ Typed'
    BY <1>0, <2>1 DEF Typed, Counted
  <2>3. Rescheduled
    BY <1>0, <2>1, ScheduleReschedules
  <2> QED
    BY <1>0, <1>b, <1>c, <2>1, <2>2, <2>3
<1>9. ASSUME NEW t \in Tasks, Wake(t) PROVE IInv'
  <2>1. /\ task[t].at = "sleeping"
        /\ UNCHANGED <<pending, touched, notices, shown, connected, starting, scheduled, left>>
    BY <1>9 DEF Wake
  <2>2. Counted' /\ Typed'
    BY <1>0, <2>1 DEF Typed, Counted
  <2>3. CASE ~task[t].cancelled /\ connected /\ ~syncing
    <3>1. syncing' = TRUE /\ again' = FALSE /\ task' = [task EXCEPT ![t].at = "key"]
      BY <1>9, <2>3 DEF Wake
    <3>2. \A u \in Tasks : task[u].at \notin Requests
      BY <1>0, <2>3 DEF Exclusive
    <3>3. /\ task' \in [Tasks -> Tasked] /\ task'[t].at = "key"
          /\ \A u \in Tasks : u # t => task'[u] = task[u]
      BY <1>0, <3>1 DEF Tasked, Requests
    <3>4. Exclusive'
      BY <3>1, <3>2, <3>3 DEF Exclusive, Requests
    <3>5. Carried' /\ SleepersCancellable'
      BY <1>0, <2>1, <3>2, <3>3 DEF Carried, SleepersCancellable, Requests
    <3> QED
      BY <1>0, <1>b, <2>1, <2>2, <3>1, <3>3, <3>4, <3>5 DEF TasksKept
  <2>4. CASE ~(~task[t].cancelled /\ connected /\ ~syncing)
    <3>1. /\ syncing' = syncing /\ again' \in BOOLEAN /\ task' = [task EXCEPT ![t] = NoTask]
      BY <1>0, <1>9, <2>4 DEF Wake
    <3>2. NoTask \in Tasked /\ NoTask.at = "none"
      BY NoTaskTasked DEF NoTask
    <3>3. /\ task' \in [Tasks -> Tasked] /\ task'[t].at = "none"
          /\ \A u \in Tasks : u # t => task'[u] = task[u]
      BY <1>0, <3>1, <3>2
    <3>4. Exclusive'
      BY <1>0, <2>1, <3>1, <3>3 DEF Exclusive, Requests
    <3>5. Carried' /\ SleepersCancellable'
      BY <1>0, <2>1, <3>3 DEF Carried, SleepersCancellable
    <3> QED
      BY <1>0, <1>b, <2>1, <2>2, <3>1, <3>3, <3>4, <3>5 DEF TasksKept
  <2> QED
    BY <2>3, <2>4
<1>10. ASSUME NEW t \in Tasks, OnKey(t) PROVE IInv'
  <2>1. /\ task[t].at = "key" /\ touched' = TRUE
        /\ UNCHANGED <<pending, notices, shown, connected, starting, scheduled, syncing, again, left>>
    BY <1>10 DEF OnKey
  <2>2. Counted' /\ Typed'
    BY <1>0, <2>1 DEF Typed, Counted
  <2>3. CASE pending > 0
    <3> DEFINE next == [[[task[t] EXCEPT !.at = "post"] EXCEPT !.carries = pending] EXCEPT !.second = FALSE]
    <3>1. task' = [task EXCEPT ![t] = next]
      BY <1>0, <1>10, <2>3 DEF OnKey, Uploads
    <3>2. next \in Tasked /\ next.at \in Requests /\ next.carries <= pending'
      <4>1. task[t] \in Tasked /\ pending \in 0 .. MaxEdits /\ pending' = pending
        BY <1>0, <2>1 DEF Typed
      <4>2. next \in Tasked /\ next.at = "post" /\ next.carries = pending
        BY <4>1, UploadTasked
      <4> HIDE DEF next
      <4> QED
        BY <4>1, <4>2 DEF Requests
    <3>3. TasksKept
      BY <1>0, <2>1, <3>1, <3>2, GoingOnKeeps DEF TasksKept, Requests
    <3> QED
      BY <1>0, <1>b, <2>1, <2>2, <3>3
  <2>4. CASE ~(pending > 0)
    <3> DEFINE next == [task[t] EXCEPT !.at = "pull"]
    <3>1. task' = [task EXCEPT ![t] = next]
      BY <1>0, <1>10, <2>4 DEF OnKey
    <3>2. next \in Tasked /\ next.at \in Requests /\ next.at # "post"
      BY <1>0 DEF Tasked, Requests
    <3>3. TasksKept
      BY <1>0, <2>1, <3>1, <3>2, GoingOnKeeps DEF TasksKept, Requests
    <3> QED
      BY <1>0, <1>b, <2>1, <2>2, <3>3
  <2> QED
    BY <2>3, <2>4
<1>11. ASSUME NEW t \in Tasks, OnPost(t) PROVE IInv'
  <2>1. /\ task[t].at = "post" /\ touched' = TRUE /\ pending' = pending - task[t].carries
        /\ UNCHANGED <<notices, shown, connected, starting, scheduled, left>>
    BY <1>11 DEF OnPost
  <2>2. task[t].carries \in 0 .. MaxEdits /\ task[t].carries <= pending
    BY <1>0, <2>1 DEF Tasked, Carried
  <2>3. Counted' /\ Typed'
    BY <1>0, <2>1, <2>2 DEF Typed, Counted
  <2>4. CASE task[t].second
    <3>1. EndRound(t)
      BY <1>11, <2>4 DEF OnPost
    <3>2. TasksKept
      BY <1>0, <2>1, <3>1, EndRoundKeeps DEF TasksKept, Requests
    <3> QED
      BY <1>0, <1>b, <2>1, <2>3, <3>2
  <2>5. CASE ~task[t].second
    <3> DEFINE next == [task[t] EXCEPT !.at = "pull"]
    <3>1. task' = [task EXCEPT ![t] = next] /\ UNCHANGED <<syncing, again>>
      BY <1>0, <1>11, <2>5 DEF OnPost
    <3>2. next \in Tasked /\ next.at \in Requests /\ next.at # "post"
      BY <1>0 DEF Tasked, Requests
    <3>3. TasksKept
      BY <1>0, <2>1, <3>1, <3>2, GoingOnKeeps DEF TasksKept, Requests
    <3> QED
      BY <1>0, <1>b, <2>1, <2>3, <3>3
  <2> QED
    BY <2>4, <2>5
<1>12. ASSUME NEW t \in Tasks, OnPull(t) PROVE IInv'
  <2>1. /\ task[t].at = "pull" /\ touched' = TRUE
        /\ UNCHANGED <<pending, notices, shown, connected, starting, scheduled, left>>
    BY <1>12 DEF OnPull
  <2>2. Counted' /\ Typed'
    BY <1>0, <2>1 DEF Typed, Counted
  <2>3. CASE pending > 0
    <3> DEFINE next == [[[task[t] EXCEPT !.at = "post"] EXCEPT !.carries = pending] EXCEPT !.second = TRUE]
    <3>1. task' = [task EXCEPT ![t] = next] /\ UNCHANGED <<syncing, again>>
      BY <1>0, <1>12, <2>3 DEF OnPull, Uploads
    <3>2. next \in Tasked /\ next.at \in Requests /\ next.carries <= pending'
      <4>1. task[t] \in Tasked /\ pending \in 0 .. MaxEdits /\ pending' = pending
        BY <1>0, <2>1 DEF Typed
      <4>2. next \in Tasked /\ next.at = "post" /\ next.carries = pending
        BY <4>1, UploadTasked
      <4> HIDE DEF next
      <4> QED
        BY <4>1, <4>2 DEF Requests
    <3>3. TasksKept
      BY <1>0, <2>1, <3>1, <3>2, GoingOnKeeps DEF TasksKept, Requests
    <3> QED
      BY <1>0, <1>b, <2>1, <2>2, <3>3
  <2>4. CASE ~(pending > 0)
    <3>1. EndRound(t)
      BY <1>12, <2>4 DEF OnPull
    <3>2. TasksKept
      BY <1>0, <2>1, <3>1, EndRoundKeeps DEF TasksKept, Requests
    <3> QED
      BY <1>0, <1>b, <2>1, <2>2, <3>2
  <2> QED
    BY <2>3, <2>4
<1>13. ASSUME NEW t \in Tasks, Interrupt(t) \/ FailRequest(t) PROVE IInv'
  <2>1. /\ task[t].at \in Requests /\ EndRound(t)
        /\ UNCHANGED <<pending, touched, notices, shown, connected, starting, scheduled>>
        /\ UNCHANGED left \/ Spends("faults")
    BY <1>13 DEF Interrupt, FailRequest, Running
  <2>2. Counted' /\ Typed'
    BY <1>0, <2>1, SpendingKeeps DEF Typed, Counted
  <2>3. TasksKept
    BY <1>0, <2>1, EndRoundKeeps DEF TasksKept
  <2> QED
    BY <1>0, <1>b, <2>1, <2>2, <2>3
<1>14. CASE UNCHANGED vars
  <2>1. UNCHANGED <<pending, touched, notices, shown, connected, starting, scheduled, syncing,
                    again, task, left>>
    BY <1>14 DEF vars
  <2>2. Counted' /\ Typed'
    BY <1>0, <2>1 DEF Typed, Counted
  <2> QED
    BY <1>0, <1>a, <1>b, <2>1, <2>2
<1> QED
  BY <1>1, <1>2, <1>3, <1>4, <1>5, <1>6, <1>7, <1>8, <1>9, <1>10, <1>11, <1>12, <1>13, <1>14
  DEF Next, Synchronize

LEMMA IInvMeans == IInv => TypeOK /\ OneAtATime /\ SleepersCancellable
<1> SUFFICES ASSUME IInv PROVE OneAtATime
  BY DEF IInv
<1>1. Exclusive
  BY DEF IInv
<1>2. syncing <=> Running # {}
  BY <1>1 DEF Exclusive, Running
<1>3. Cardinality(Running) <= 1
  <2>1. CASE Running = {}
    BY <2>1, FS_EmptySet
  <2>2. CASE Running # {}
    <3>1. PICK t \in Running : TRUE
      BY <2>2
    <3>2. Running = {t}
      BY <1>1, <3>1 DEF Exclusive, Running
    <3> QED
      BY <3>2, FS_Singleton
  <2> QED
    BY <2>1, <2>2
<1> QED
  BY <1>2, <1>3 DEF OneAtATime

(* The inductive invariant holds.                                          *)
THEOREM AlwaysExclusive == Spec => []IInv
  BY InitIInv, NextIInv, PTL DEF Spec

(* One synchronization runs at a time, and isSynchronizing is reset when   *)
(* it ends, whatever is scheduled, cancelled, stopped or started over, and *)
(* however late a cancelled task goes away.                                *)
THEOREM OneSynchronization == Spec => []OneAtATime
  BY AlwaysExclusive, IInvMeans, PTL

(* A task that sleeps and was not cancelled is the one scheduledUploadTask *)
(* refers to: nothing uploads that stop cannot reach.                      *)
THEOREM NoStraySleeper == Spec => []SleepersCancellable
  BY AlwaysExclusive, IInvMeans, PTL

(* In particular no change is counted as uploaded twice.                   *)
THEOREM ForegroundTypes == Spec => []TypeOK
  BY AlwaysExclusive, IInvMeans, PTL
=============================================================================
