---------------------------- MODULE ForegroundSync ----------------------------
(***************************************************************************)
(* ForegroundSyncCoordinator: when a device synchronizes by itself.        *)
(*                                                                         *)
(* Whatever touches the store makes the observation of the sync status     *)
(* deliver the number of pending changes, which schedules an upload.  The  *)
(* upload is a task that sleeps, then runs a synchronization, and whoever  *)
(* schedules another cancels it, asleep or running.  A synchronization is  *)
(* reduced to its requests and to the writes of the store between them;    *)
(* LibrarySync has what they do.                                           *)
(***************************************************************************)
EXTENDS Naturals, Sequences, FiniteSets

CONSTANTS
  Tasks,        \* names for tasks, reused when they have ended
  None,         \* no task
  MaxEdits,     \* bound: changes by the user
  MaxCalls,     \* bound: calls of start and of stop
  MaxNotices,   \* bound: statuses on their way; the observation coalesces others
  MaxPulls,     \* bound: pulls that the streaming subscription starts
  MaxFaults,    \* bound: requests that fail
  QuietRuns,    \* TRUE: no status is delivered while a synchronization runs
  PromptCancel  \* TRUE: what is cancelled has ended before another task wakes

ASSUME ForegroundAssumption ==
  /\ None \notin Tasks /\ Cardinality(Tasks) >= 2
  /\ {MaxEdits, MaxCalls, MaxNotices, MaxPulls, MaxFaults} \subseteq Nat /\ MaxNotices > 0
  /\ {QuietRuns, PromptCancel} \subseteq BOOLEAN

VARIABLES
  pending,    \* objects and deletions to be uploaded
  touched,    \* a transaction the observation has not seen
  notices,    \* pending counts on their way to scheduleUpload
  shown,      \* AppModel.syncStatus
  connected,  \* connectedProfile, with write access
  starting,   \* calls of start that await the connection manager
  scheduled,  \* scheduledUploadTask
  task,       \* the tasks: where they are and whether they are cancelled
  syncing,    \* isSynchronizing
  again,      \* synchronizeAgain
  left        \* what is left of each bound

coordinator == <<connected, starting, scheduled, syncing, again>>
vars == <<pending, touched, notices, shown, coordinator, task, left>>

NoTask == [at |-> "none", cancelled |-> FALSE, carries |-> 0, second |-> FALSE]
Requests == {"key", "post", "pull"}   \* keyInfo, writeObjects, pullReadOnly

Running == {t \in Tasks : task[t].at \in Requests}
Free == {t \in Tasks : task[t].at = "none" /\ t # scheduled}

Spends(what) == left[what] > 0 /\ left' = [left EXCEPT ![what] = @ - 1]

(* ---------------------- the store and its observer --------------------- *)

Edit ==
  /\ Spends("edits")
  /\ pending' = pending + 1
  /\ touched' = TRUE
  /\ UNCHANGED <<notices, shown, coordinator, task>>

(* A pull that a streaming notification started, or another write. *)
PullRemote ==
  /\ Spends("pulls")
  /\ touched' = TRUE
  /\ UNCHANGED <<pending, notices, shown, coordinator, task>>

(* observeSyncStatus: every transaction counts, changed status or not. *)
Observe ==
  /\ touched /\ Len(notices) < MaxNotices
  /\ touched' = FALSE
  /\ notices' = Append(notices, pending)
  /\ shown' = pending
  /\ UNCHANGED <<pending, coordinator, task, left>>

(* ------------------------------ scheduling ----------------------------- *)

(* Mutant of Cancelled: a task that has not started is let be. *)
CancelledIfRunning(t, tasks) ==
  IF t \in Tasks /\ tasks[t].at \in Requests THEN [tasks EXCEPT ![t].cancelled = TRUE] ELSE tasks

Cancelled(t, tasks) ==
  IF t \in Tasks /\ tasks[t].at # "none" THEN [tasks EXCEPT ![t].cancelled = TRUE] ELSE tasks

Schedule(count) ==
  LET before == Cancelled(scheduled, task)
  IN  IF count > 0 /\ connected
      THEN \E t \in Free :
             /\ scheduled' = t
             /\ task' = [before EXCEPT ![t] = [NoTask EXCEPT !.at = "sleeping"]]
      ELSE scheduled' = None /\ task' = before

ScheduleUpload ==
  /\ notices # <<>>
  /\ QuietRuns => ~syncing
  /\ Schedule(Head(notices))
  /\ notices' = Tail(notices)
  /\ UNCHANGED <<pending, touched, shown, connected, starting, syncing, again, left>>

(* Mutant of Stopped: a synchronization that goes on is forgotten. *)
StoppedForgetting ==
  /\ task' = Cancelled(scheduled, task)
  /\ scheduled' = None
  /\ connected' = FALSE
  /\ again' = FALSE
  /\ syncing' = FALSE

(* stop: the running synchronization is cancelled with its task. *)
Stopped ==
  /\ task' = Cancelled(scheduled, task)
  /\ scheduled' = None
  /\ connected' = FALSE
  /\ again' = FALSE
  /\ UNCHANGED syncing

Stop ==
  /\ Spends("calls")
  /\ Stopped
  /\ UNCHANGED <<pending, touched, notices, shown, starting>>

Start ==
  /\ Spends("calls")
  /\ Stopped
  /\ starting' = starting + 1
  /\ UNCHANGED <<pending, touched, notices, shown>>

(* The connection manager has answered: this is connected, whatever was    *)
(* called since.                                                           *)
Connect ==
  /\ starting > 0 /\ ~connected
  /\ connected' = TRUE
  /\ UNCHANGED <<pending, touched, notices, shown, starting, scheduled, syncing, again, task, left>>

(* Mutant of FirstUpload: what was pending before is left for later. *)
NoFirstUpload == UNCHANGED <<scheduled, task>>

FirstUpload == Schedule(shown)

(* The streaming subscription is there, and startAutomaticSynchronization  *)
(* schedules what is pending.                                              *)
FinishStart ==
  /\ starting > 0 /\ connected
  /\ starting' = starting - 1
  /\ FirstUpload
  /\ UNCHANGED <<pending, touched, notices, shown, connected, syncing, again, left>>

(* ---------------------------- synchronizing ---------------------------- *)

(* 750 milliseconds have passed; a cancelled task returns. *)
Wake(t) ==
  /\ task[t].at = "sleeping"
  /\ PromptCancel => \A u \in Running : ~task[u].cancelled
  /\ IF ~task[t].cancelled /\ connected /\ ~syncing
     THEN /\ syncing' = TRUE
          /\ again' = FALSE
          /\ task' = [task EXCEPT ![t].at = "key"]
     ELSE /\ again' = (again \/ (~task[t].cancelled /\ connected))
          /\ task' = [task EXCEPT ![t] = NoTask]
          /\ UNCHANGED syncing
  /\ UNCHANGED <<pending, touched, notices, shown, connected, starting, scheduled, left>>

(* The end of a synchronization, good or bad, is the end of the loop,      *)
(* unless another was asked for and this one is not cancelled.             *)
EndRound(t) ==
  IF again /\ ~task[t].cancelled
  THEN /\ again' = FALSE
       /\ task' = [task EXCEPT ![t] = [NoTask EXCEPT !.at = "key"]]
       /\ UNCHANGED syncing
  ELSE /\ syncing' = FALSE
       /\ task' = [task EXCEPT ![t] = NoTask]
       /\ UNCHANGED again

(* uploadPending starts, or there is nothing to upload. *)
Uploads(t, second) ==
  task' = [task EXCEPT ![t].at = "post", ![t].carries = pending, ![t].second = second]

(* The key is known: the library's row is written, then the first request  *)
(* of the upload goes out.                                                 *)
OnKey(t) ==
  /\ task[t].at = "key"
  /\ touched' = TRUE
  /\ IF pending > 0 THEN Uploads(t, FALSE) ELSE task' = [task EXCEPT ![t].at = "pull"]
  /\ UNCHANGED <<pending, notices, shown, coordinator, left>>

(* Mutant of OnPost: the second upload sends what the first one sent. *)
OnPostAgain(t) ==
  /\ task[t].at = "post"
  /\ pending' = pending - task[t].carries
  /\ touched' = TRUE
  /\ IF task[t].second THEN EndRound(t)
     ELSE task' = [task EXCEPT ![t].second = TRUE] /\ UNCHANGED <<syncing, again>>
  /\ UNCHANGED <<notices, shown, connected, starting, scheduled, left>>

OnPost(t) ==
  /\ task[t].at = "post"
  /\ pending' = pending - task[t].carries
  /\ touched' = TRUE
  /\ IF task[t].second THEN EndRound(t)
     ELSE task' = [task EXCEPT ![t].at = "pull"] /\ UNCHANGED <<syncing, again>>
  /\ UNCHANGED <<notices, shown, connected, starting, scheduled, left>>

(* What became pending since is uploaded once more. *)
OnPull(t) ==
  /\ task[t].at = "pull"
  /\ touched' = TRUE
  /\ IF pending > 0 THEN Uploads(t, TRUE) /\ UNCHANGED <<syncing, again>> ELSE EndRound(t)
  /\ UNCHANGED <<pending, notices, shown, connected, starting, scheduled, left>>

(* A request of a cancelled task may be answered in time or not at all. *)
Interrupt(t) ==
  /\ t \in Running /\ task[t].cancelled
  /\ EndRound(t)
  /\ UNCHANGED <<pending, touched, notices, shown, connected, starting, scheduled, left>>

FailRequest(t) ==
  /\ t \in Running /\ ~task[t].cancelled
  /\ Spends("faults")
  /\ EndRound(t)
  /\ UNCHANGED <<pending, touched, notices, shown, connected, starting, scheduled>>

(* ---------------------------- specification ---------------------------- *)

Synchronize(t) ==
  \/ OnKey(t)
  \/ OnPost(t)
  \/ OnPull(t)
  \/ Interrupt(t)

Next ==
  \/ Edit
  \/ PullRemote
  \/ Observe
  \/ ScheduleUpload
  \/ Stop
  \/ Start
  \/ Connect
  \/ FinishStart
  \/ \E t \in Tasks : Wake(t) \/ Synchronize(t) \/ FailRequest(t)

Init ==
  /\ pending = 0
  /\ touched = FALSE
  /\ notices = <<>>
  /\ shown = 0
  /\ connected = FALSE
  /\ starting = 0
  /\ scheduled = None
  /\ task = [t \in Tasks |-> NoTask]
  /\ syncing = FALSE
  /\ again = FALSE
  /\ left = [edits |-> MaxEdits, calls |-> MaxCalls, pulls |-> MaxPulls,
             faults |-> MaxFaults]

Spec == Init /\ [][Next]_vars

(* Statuses are delivered, calls answered, tasks wake and go on.           *)
FairSpec ==
  /\ Spec
  /\ WF_vars(Observe) /\ WF_vars(ScheduleUpload)
  /\ WF_vars(Connect) /\ WF_vars(FinishStart)
  /\ \A t \in Tasks : WF_vars(Wake(t)) /\ WF_vars(Synchronize(t))

(* ------------------------------ properties ----------------------------- *)

(* Tasks, counts and flags have their types.                               *)
TypeOK ==
  /\ pending \in 0 .. MaxEdits /\ shown \in 0 .. MaxEdits
  /\ notices \in Seq(0 .. MaxEdits) /\ Len(notices) <= MaxNotices
  /\ scheduled \in Tasks \cup {None}
  /\ task \in [Tasks -> [at : {"none", "sleeping"} \cup Requests, cancelled : BOOLEAN,
                         carries : 0 .. MaxEdits, second : BOOLEAN]]
  /\ {touched, connected, syncing, again} \subseteq BOOLEAN
  /\ starting \in Nat

(* One synchronization at a time, although tasks are scheduled, cancelled  *)
(* and started over while one runs; and the flag that keeps others out is  *)
(* not left behind.  (ForegroundSyncCoordinator.swift:104-133)             *)
OneAtATime ==
  /\ Cardinality(Running) <= 1
  /\ syncing <=> Running # {}

(* Only what is not asleep is ever left without a reference: a task that   *)
(* still sleeps and would upload is the one that can be cancelled.         *)
(* (ForegroundSyncCoordinator.swift:58-87)                                 *)
SleepersCancellable ==
  \A t \in Tasks : task[t].at = "sleeping" /\ ~task[t].cancelled => scheduled = t

(* While the coordinator is connected, what is pending is uploaded, not    *)
(* only scheduled, cancelled and scheduled again, until a request fails:   *)
(* after that it takes another write of the store.                         *)
(* (ForegroundSyncCoordinator.swift:26-56, 70-87, 104-133)                 *)
ChangesSent ==
  \A n \in 0 .. MaxFaults :
    pending > 0 /\ connected /\ left.faults = n /\ (n = MaxFaults \/ touched)
      ~> pending = 0 \/ ~connected \/ left.faults < n
===============================================================================
