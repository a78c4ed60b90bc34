-------------------------- MODULE BackgroundTasks --------------------------
(***************************************************************************)
(* BackgroundManager of one agent: tasks that a tool call waits for or     *)
(* that run on their own, how they end, what is written of them, who is    *)
(* told, and what a restart makes of the tasks it finds on disk.           *)
(***************************************************************************)
EXTENDS Integers, Sequences, FiniteSets

CONSTANTS
  Task,
  MaxCrashes, \* crashes of the process
  MaxFaults   \* failing writes and reads

ASSUME BackgroundAssumption == MaxCrashes \in Nat /\ MaxFaults \in Nat

VARIABLES
  life,    \* the process: down, marking and restoring (reconcile), up
  task,    \* the manager's entry of each task
  queue,   \* its persistWriteQueue
  disk,    \* its file, as a sequence of at most one record
  note,    \* its notification in this process
  caller,  \* the foreground tool call that waits for it
  asked,   \* tasks whose stop somebody waits for
  context, \* the notifications of each task that the agent has logged
  fresh,   \* tasks whose last notification may not be on disk yet
  exchange, \* the last tool exchange of the log: closed, open, or closing (closed by this
           \* process, which the log may not hold yet)
  placed,  \* how many of a task's notifications a replay of the log puts into the history;
           \* the others it defers behind the open exchange
  deferrals, \* how often a replay has deferred a notification of the task
  heard,   \* ends of each task that anybody outside was told of
  spoilt,  \* tasks of which a write has failed
  unread,  \* tasks whose output could not be read for the notification
  crashes, faults

history == <<context, fresh, exchange, placed, deferrals>>

vars == <<life, task, queue, disk, note, caller, asked, history, heard, spoilt,
          unread, crashes, faults>>

Verdict == {"ended", "killed", "timed_out", "lost"}
Status == {"running"} \cup Verdict

\* A completed and a failed task are told apart by nobody here: both have ended.
NoTask ==
  [phase |-> "none", status |-> "running", detached |-> FALSE,
   persist |-> FALSE, suppressed |-> FALSE, aborted |-> FALSE, outcome |-> "none",
   worker |-> "none"]

\* racing: the four promises of runTaskLifecycle; decided: one has settled; grace and
\* forcing: settlementForOutcome; writing: finalizeTask; ghost: loaded from disk.
Phase == {"none", "racing", "decided", "grace", "forcing", "writing", "written", "done", "ghost"}

Up == life = "up"
Live(t) == task[t].phase \notin {"none", "ghost"}
Running(t) == Live(t) /\ task[t].status = "running"

\* toInfo, as it is written.
Info(e) == [status |-> e.status, detached |-> e.detached, suppressed |-> e.suppressed]

Write(t, e) == queue' = [queue EXCEPT ![t] = Append(@, Info(e))]

Init ==
  /\ life = "up"
  /\ task = [t \in Task |-> NoTask]
  /\ queue = [t \in Task |-> <<>>] /\ disk = [t \in Task |-> <<>>]
  /\ note = [t \in Task |-> "none"] /\ caller = [t \in Task |-> "none"]
  /\ asked = {} /\ context = [t \in Task |-> <<>>] /\ fresh = {} /\ exchange = "closed"
  /\ placed = [t \in Task |-> 0] /\ deferrals = [t \in Task |-> 0]
  /\ heard = [t \in Task |-> {}] /\ spoilt = {} /\ unread = {}
  /\ crashes = 0 /\ faults = 0

---------------------------------------------------------------------------
\* registerTask, once admitted.  The ids are new: a task is registered once.
Register(t, detached) ==
  /\ Up /\ task[t] = NoTask /\ disk[t] = <<>> /\ heard[t] = {}
  /\ caller[t] = "none"
  /\ LET e == [NoTask EXCEPT !.phase = "racing", !.detached = detached, !.persist = detached]
     IN  /\ task' = [task EXCEPT ![t] = e]
         /\ IF detached THEN Write(t, e) ELSE UNCHANGED queue
  /\ caller' = [caller EXCEPT ![t] = IF detached THEN "detached" ELSE "waiting"]
  /\ UNCHANGED <<life, disk, note, asked, history, heard, spoilt, unread, crashes, faults>>

DetachedEntry(e) == [e EXCEPT !.detached = TRUE, !.persist = TRUE]

\* detach: the caller gets its answer, the task goes on and is written from now on.
Detach(t) ==
  /\ Up /\ Running(t) /\ ~task[t].detached
  /\ LET e == DetachedEntry(task[t])
     IN  task' = [task EXCEPT ![t] = e] /\ Write(t, e)
  /\ caller' = [caller EXCEPT ![t] = "detached"]
  /\ UNCHANGED <<life, disk, note, asked, history, heard, spoilt, unread, crashes, faults>>

\* startOutputPersist for a foreground task with much output: no record is written.
Spill(t) ==
  /\ Up /\ Running(t) /\ ~task[t].persist
  /\ task' = [task EXCEPT ![t].persist = TRUE]
  /\ UNCHANGED <<life, queue, disk, note, caller, asked, history, heard, spoilt,
                 unread, crashes, faults>>

\* suppressTerminalNotification, before a stop by TaskStop or the end of the session.
Suppress(t) ==
  /\ Up /\ Running(t) /\ ~task[t].suppressed
  /\ LET e == [task[t] EXCEPT !.suppressed = TRUE]
     IN  task' = [task EXCEPT ![t] = e] /\ Write(t, e)
  /\ UNCHANGED <<life, disk, note, caller, asked, history, heard, spoilt, unread,
                 crashes, faults>>

Entry(t, e) ==
  /\ task' = [task EXCEPT ![t] = e]
  /\ UNCHANGED <<life, queue, disk, note, caller, history, heard, spoilt, unread,
                 crashes, faults>>

\* One of the promises of the race settles; the first counts.
Settles(e, outcome) ==
  IF e.phase = "racing" THEN [e EXCEPT !.phase = "decided", !.outcome = outcome] ELSE e

Stop(t) ==
  /\ Up /\ Running(t) /\ t \notin asked
  /\ asked' = asked \cup {t}
  /\ Entry(t, Settles([task[t] EXCEPT !.aborted = TRUE], "stop"))

Timeout(t) ==
  /\ Up /\ task[t].phase = "racing"
  /\ Entry(t, Settles(task[t], "timeout")) /\ UNCHANGED asked

\* The signal of the tool call that waits; a detached task does not listen any more.
CallerAborts(t) ==
  /\ Up /\ task[t].phase = "racing" /\ ~task[t].detached
  /\ Entry(t, Settles(task[t], "stop")) /\ UNCHANGED asked

\* The task itself ends, or answers the abort.  Later than that nobody listens.
WorkerSettles(t, verdict) ==
  /\ Up /\ task[t].phase \in {"racing", "decided", "grace"} /\ task[t].worker = "none"
  /\ verdict = "killed" => task[t].aborted
  /\ Entry(t, Settles([task[t] EXCEPT !.worker = verdict], "worker")) /\ UNCHANGED asked

---------------------------------------------------------------------------
\* Mutant: everybody is told before the disk is.
ToldFirst(e) == "written"

\* What finalizeTask waits for before its effects.
Awaits(e) == IF e.persist THEN "writing" ELSE "written"

\* finalizeTask; what led to the verdict is not looked at any more.
Finalize(t, verdict) ==
  LET e == [task[t] EXCEPT !.status = verdict, !.phase = Awaits(task[t]),
                           !.aborted = FALSE, !.outcome = "none", !.worker = "none"]
  IN  /\ task' = [task EXCEPT ![t] = e]
      /\ IF e.persist THEN Write(t, e) ELSE UNCHANGED queue
      /\ UNCHANGED <<life, disk, note, caller, asked, history, heard, spoilt, unread,
                     crashes, faults>>

\* runTaskLifecycle goes on behind the race.
Decided(t) ==
  /\ Up /\ task[t].phase = "decided"
  /\ IF task[t].outcome = "worker" THEN Finalize(t, task[t].worker)
     ELSE Entry(t, [task[t] EXCEPT !.phase = "grace", !.aborted = TRUE]) /\ UNCHANGED asked

\* A stop gives way to what the worker made of it; a timeout does not.
Aborted(e) ==
  IF e.outcome = "timeout" THEN "timed_out" ELSE IF e.worker = "ended" THEN "ended" ELSE "killed"

WorkerAnswered(t) ==
  /\ Up /\ task[t].phase = "grace" /\ task[t].worker # "none"
  /\ Finalize(t, Aborted(task[t]))

\* Mutant: the grace period is not limited.
GraceOverOnly(e) == FALSE

GraceOver(e) == e.phase = "grace" /\ e.worker = "none"

GraceTimeout(t) ==
  /\ Up /\ GraceOver(task[t])
  /\ Entry(t, [task[t] EXCEPT !.phase = "forcing"]) /\ UNCHANGED asked

ForceStopped(t) ==
  /\ Up /\ task[t].phase = "forcing"
  /\ Finalize(t, IF task[t].outcome = "timeout" THEN "timed_out" ELSE "killed")

\* Mutant: the writes of a task are not queued.
NextWriteAny(t) == DOMAIN queue[t]

\* persistLive writes in the order of the calls.
NextWrite(t) == {1} \cap DOMAIN queue[t]

DiskWrite(t, ok) ==
  /\ Up
  /\ \E i \in NextWrite(t) :
       LET rest == SubSeq(queue[t], 1, i - 1) \o SubSeq(queue[t], i + 1, Len(queue[t])) IN
       /\ queue' = [queue EXCEPT ![t] = rest]
       /\ disk' = IF ok THEN [disk EXCEPT ![t] = <<queue[t][i]>>] ELSE disk
       /\ task' = IF rest = <<>> /\ task[t].phase = "writing"
                  THEN [task EXCEPT ![t].phase = "written"] ELSE task
  /\ IF ok THEN UNCHANGED <<faults, spoilt>>
     ELSE faults < MaxFaults /\ faults' = faults + 1 /\ spoilt' = spoilt \cup {t}
  /\ UNCHANGED <<life, note, caller, asked, history, heard, unread, crashes>>

\* buildBackgroundTaskNotificationContext: who is not waited for is announced.
MayNotify(e) == e.detached /\ ~e.suppressed

\* fireTerminalEffects, and the release of those who wait for the task or its stop.
Effects(t) ==
  /\ Up /\ task[t].phase = "written"
  /\ task' = [task EXCEPT ![t].phase = "done"]
  /\ heard' = [heard EXCEPT ![t] = @ \cup {task[t].status}]
  /\ note' = [note EXCEPT ![t] = IF MayNotify(task[t]) THEN "reading" ELSE @]
  /\ caller' = [caller EXCEPT ![t] = IF task[t].detached THEN @ ELSE "terminal"]
  /\ asked' = asked \ {t}
  /\ UNCHANGED <<life, queue, disk, history, spoilt, unread, crashes, faults>>

\* The output has been read and the notification is steered.
Notify(t) ==
  /\ Up /\ note[t] = "reading"
  /\ note' = [note EXCEPT ![t] = "steered"]
  /\ UNCHANGED <<life, task, queue, disk, caller, asked, history, heard, spoilt,
                 unread, crashes, faults>>

\* The output cannot be read: nobody hears of it in this process.
NotifyFails(t) ==
  /\ Up /\ note[t] = "reading" /\ faults < MaxFaults
  /\ faults' = faults + 1 /\ unread' = unread \cup {t}
  /\ note' = [note EXCEPT ![t] = "dropped"]
  /\ UNCHANGED <<life, task, queue, disk, caller, asked, history, heard, spoilt, crashes>>

\* appendMessage: the notification is logged, and it is put into the history at once unless
\* a tool exchange is open (pushHistory marks what it puts there as delivered).
Logged(t) ==
  /\ note' = [note EXCEPT ![t] = "delivered"]
  /\ context' = [context EXCEPT ![t] = Append(@, task[t].status)]
  /\ fresh' = fresh \cup {t}
  /\ placed' = IF exchange = "open" THEN placed
               ELSE [placed EXCEPT ![t] = Len(context[t]) + 1]
  /\ UNCHANGED <<life, task, queue, disk, caller, asked, exchange, deferrals, heard, spoilt,
                 unread, crashes, faults>>

\* The turn flow takes the steer into the history, between two tool exchanges.
Delivered(t) == Up /\ note[t] = "steered" /\ Logged(t)

---------------------------------------------------------------------------
Ghosts == {t \in Task : task[t].phase = "ghost"}

Smaller(m, n) == IF m < n THEN m ELSE n

\* Of what this process has restored nothing is left deferred: no exchange was open, or it has
\* been closed in what is left of the log.  Another one may have been opened since.
AllPlaced(gone) ==
  /\ exchange = "closed" \/ (exchange = "closing" /\ gone \cap Ghosts = {})
  /\ exchange' = "closed" \/ (Up /\ gone \cap Ghosts = {} /\ exchange' = "open")
  /\ placed' = [t \in Task |-> Len(context'[t])]

\* What is left of the log ends inside the exchange that the replay found open, and with it
\* goes all that this process has logged behind the closing.
StillOpen(gone) ==
  /\ exchange = "open" \/ (exchange = "closing" /\ fresh \ Ghosts \subseteq gone)
  /\ exchange' = "open"
  /\ placed' = [t \in Task |-> Smaller(placed[t], Len(context'[t]))]

\* The process dies, with what was to be written, steered or logged: the log loses its end.
Crash ==
  /\ life # "down" /\ crashes < MaxCrashes
  /\ crashes' = crashes + 1
  /\ life' = "down"
  /\ \E gone \in SUBSET fresh :
       /\ context' = [t \in Task |-> IF t \in gone THEN SubSeq(context[t], 1, Len(context[t]) - 1)
                                     ELSE context[t]]
       /\ AllPlaced(gone) \/ StillOpen(gone)
  /\ task' = [t \in Task |-> NoTask]
  /\ queue' = [t \in Task |-> <<>>] /\ note' = [t \in Task |-> "none"]
  /\ caller' = [t \in Task |-> IF caller[t] = "waiting" THEN "dead" ELSE caller[t]]
  /\ asked' = {} /\ fresh' = {} /\ unread' = {}
  /\ UNCHANGED <<disk, deferrals, heard, spoilt, faults>>

\* The replay of the log and loadFromDisk.
Load ==
  /\ life = "down" /\ life' = "marking"
  /\ task' = [t \in Task |->
        IF disk[t] = <<>> THEN NoTask
        ELSE [NoTask EXCEPT !.phase = "ghost", !.status = disk[t][1].status,
                            !.detached = disk[t][1].detached,
                            !.suppressed = disk[t][1].suppressed]]
  /\ deferrals' = [t \in Task |->
        IF placed[t] < Len(context[t]) THEN deferrals[t] + 1 ELSE deferrals[t]]
  /\ UNCHANGED <<queue, disk, note, caller, asked, context, fresh, exchange, placed, heard,
                 spoilt, unread, crashes, faults>>

Unmarked == {t \in Ghosts : task[t].status = "running"}

\* markLoadedTasksLost, one task.
MarkLost(t) ==
  /\ life = "marking" /\ t \in Unmarked
  /\ LET e == [task[t] EXCEPT !.status = "lost"]
     IN  task' = [task EXCEPT ![t] = e] /\ disk' = [disk EXCEPT ![t] = <<Info(e)>>]
  /\ note' = [note EXCEPT ![t] = "marked"]
  /\ UNCHANGED <<life, queue, caller, asked, history, heard, spoilt, unread, crashes, faults>>

\* The tasks that have just been lost are announced to the clients.
Marked ==
  /\ life = "marking" /\ Unmarked = {}
  /\ life' = "restoring"
  /\ heard' = [t \in Task |-> IF note[t] = "marked" THEN heard[t] \cup {"lost"} ELSE heard[t]]
  /\ UNCHANGED <<task, queue, disk, note, caller, asked, history, spoilt, unread,
                 crashes, faults>>

\* scheduledNotificationKeys, and deliveredNotificationKeys as the replay has rebuilt them:
\* what it has deferred is not among them.
NotDelivered(t) ==
  note[t] # "delivered" /\ \A i \in 1 .. placed[t] : context[t][i] # task[t].status

\* Mutant: only the tasks that have just been lost.
ToRestoreLost == {t \in Ghosts : MayNotify(task[t]) /\ NotDelivered(t) /\ note[t] = "marked"}

ToRestore == {t \in Ghosts : MayNotify(task[t]) /\ NotDelivered(t)}

\* restoreBackgroundTaskNotification.
Restore(t) == life = "restoring" /\ t \in ToRestore /\ Logged(t)

\* A write or a read of reconcile fails, for this or another task, and with it the resume.
ReconcileFails ==
  /\ life \in {"marking", "restoring"} /\ faults < MaxFaults
  /\ faults' = faults + 1 /\ life' = "down"
  /\ task' = [t \in Task |-> NoTask] /\ note' = [t \in Task |-> "none"]
  /\ UNCHANGED <<queue, disk, caller, asked, history, heard, spoilt, unread, crashes>>

\* reconcile is through, and finishResume closes what is left of a tool exchange: all that
\* was deferred comes into the history.
Restored ==
  /\ life = "restoring" /\ ToRestore = {}
  /\ life' = "up"
  /\ exchange' = IF exchange = "open" THEN "closing" ELSE exchange
  /\ UNCHANGED <<task, queue, disk, note, caller, asked, context, fresh, placed, deferrals,
                 heard, spoilt, unread, crashes, faults>>

TaskNext(t) ==
  \/ \E detached \in BOOLEAN : Register(t, detached)
  \/ Detach(t) \/ Spill(t) \/ Suppress(t) \/ Stop(t)
  \/ Timeout(t) \/ CallerAborts(t) \/ \E v \in {"ended", "killed"} : WorkerSettles(t, v)
  \/ Decided(t) \/ WorkerAnswered(t) \/ GraceTimeout(t) \/ ForceStopped(t)
  \/ \E ok \in BOOLEAN : DiskWrite(t, ok)
  \/ Effects(t) \/ Notify(t) \/ NotifyFails(t) \/ Delivered(t)
  \/ MarkLost(t) \/ Restore(t)

Next ==
  \/ \E t \in Task : TaskNext(t)
  \/ Crash \/ Load \/ Marked \/ ReconcileFails \/ Restored

\* Continuations, timers and file operations; tasks need not answer.
Fairness ==
  \A t \in Task :
    /\ WF_vars(Decided(t)) /\ WF_vars(WorkerAnswered(t)) /\ WF_vars(GraceTimeout(t))
    /\ WF_vars(ForceStopped(t)) /\ WF_vars(\E ok \in BOOLEAN : DiskWrite(t, ok))
    /\ WF_vars(Effects(t))

Spec == Init /\ [][Next]_vars /\ Fairness

---------------------------------------------------------------------------
Record == [status : Status, detached : BOOLEAN, suppressed : BOOLEAN]

\* The types; a task has ended when and only when its lifecycle is past its waits, and a
\* task nobody waits for is written to disk.
TypeOK ==
  /\ life \in {"down", "marking", "restoring", "up"}
  /\ task \in [Task -> [phase : Phase, status : Status,
                        detached : BOOLEAN, persist : BOOLEAN, suppressed : BOOLEAN,
                        aborted : BOOLEAN, outcome : {"none", "worker", "stop", "timeout"},
                        worker : {"none", "ended", "killed"}]]
  /\ \A t \in Task : Live(t) =>
       (task[t].status = "running") <=> task[t].phase \in {"racing", "decided", "grace", "forcing"}
  /\ \A t \in Task : Live(t) /\ task[t].detached => task[t].persist
  /\ queue \in [Task -> Seq(Record)]
  /\ disk \in [Task -> {<<>>} \cup {<<r>> : r \in Record}]
  /\ note \in [Task -> {"none", "marked", "reading", "steered", "delivered", "dropped"}]
  /\ caller \in [Task -> {"none", "waiting", "detached", "terminal", "dead"}]
  /\ asked \subseteq Task /\ fresh \subseteq Task /\ spoilt \subseteq Task /\ unread \subseteq Task
  /\ context \in [Task -> Seq(Verdict)] /\ heard \in [Task -> SUBSET Verdict]
  /\ exchange \in {"closed", "open", "closing"}
  /\ placed \in [Task -> Nat] /\ deferrals \in [Task -> Nat]
  /\ crashes \in 0 .. MaxCrashes /\ faults \in 0 .. MaxFaults

\* A task some tool call waited for when its record was written, before its end.
Stray(t) == disk[t] # <<>> /\ ~disk[t][1].detached /\ disk[t][1].status \in {"running", "lost"}

\* Nobody is told two ends of a task, over all crashes and restarts, unless a write of the
\* task has failed or it left a stray record; and the agent is told its end once, and once
\* more only for a replay that found it logged behind an open tool exchange.
ToldOnce ==
  \A t \in {u \in Task \ spoilt : ~Stray(u)} :
    /\ Len(context[t]) <= 1 + deferrals[t]
    /\ Cardinality(heard[t] \cup {context[t][i] : i \in DOMAIN context[t]}) <= 1

\* The end of a task nobody waits for is in the agent's history or on its way there,
\* after any crash, unless it was suppressed or its output could not be read.
NothingUntold ==
  Up => \A t \in Task \ unread :
    MayNotify(task[t]) /\ task[t].phase \in {"done", "ghost"} =>
      note[t] \in {"reading", "steered"} \/ context[t] # <<>>

\* What the tests say of restored tasks: the agent is not notified twice of an end.
NoDoubleNotify == \A t \in Task : Len(context[t]) <= 1

\* The caller gets the end of its task as a result or is told later that a detached task
\* has ended, never both and never neither.
HeardOneWay ==
  \A t \in Task :
    /\ caller[t] = "terminal" => note[t] \in {"none", "marked"} /\ context[t] = <<>>
    /\ caller[t] = "waiting" => Live(t) /\ ~task[t].detached /\ task[t].phase # "done"

\* One end of a task, told once and to the one who waits for it.
HeardOnce == TypeOK /\ ToldOnce /\ HeardOneWay

\* An end that is on disk stays: no earlier snapshot is written over it.
VerdictKept ==
  [][\A t \in Task : disk[t] # <<>> /\ disk[t][1].status # "running" => disk'[t] = disk[t]]_vars

\* A stop returns, though the task may never answer it.
StopEnds == \A t \in Task : (t \in asked) ~> (t \notin asked)
=============================================================================
