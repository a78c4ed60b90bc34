------------------------ MODULE BackgroundTasks_proofs -----------------------
(***************************************************************************)
(* Proofs about BackgroundTasks, for any tasks and any number of crashes   *)
(* and failing writes and reads: a task has one end, it is told once and   *)
(* one way, none is left untold, and an end on disk stays.                 *)
(***************************************************************************)
EXTENDS BackgroundTasks, SequenceTheorems, FiniteSetTheorems, TLAPS

USE DEF history

\* A record says that a task runs or tells the end it has come to.
Says(r, t) == r.status \in {"running", task[t].status}

\* The records of a task that are still to be written.
Queued(t) == {queue[t][i] : i \in DOMAIN queue[t]}

\* A task that runs in this process has its record to itself: nothing is on its way to
\* disk behind its end, and an end is written before anybody is told of it.
LiveRecords(t) ==
  Live(t) =>
    /\ \A i \in DOMAIN queue[t] : queue[t][i].status # "running" => i = Len(queue[t])
    /\ \A r \in Queued(t) : Says(r, t)
    /\ disk[t] # <<>> => Says(disk[t][1], t)
    /\ disk[t] # <<>> /\ disk[t][1].status # "running" => queue[t] = <<>>
    /\ task[t].persist /\ task[t].phase \in {"written", "done"} => queue[t] = <<>>
    /\ task[t].persist /\ task[t].phase \in {"written", "done"} /\ t \notin spoilt =>
         disk[t] # <<>> /\ disk[t][1].status = task[t].status
    /\ task[t].persist /\ task[t].phase = "writing" =>
         queue[t] # <<>> /\ queue[t][Len(queue[t])].status = task[t].status
    /\ ~task[t].persist => \A r \in Queued(t) : r.status = "running"
    /\ ~task[t].persist /\ disk[t] # <<>> => disk[t][1].status = "running"

\* A task that does not run in this process is as it is on disk.
GhostRecords(t) ==
  /\ ~Live(t) => queue[t] = <<>>
  /\ task[t].phase = "ghost" =>
       disk[t] # <<>> /\ disk[t][1] = Info(task[t])
  /\ life # "up" => ~Live(t)
  /\ life \in {"restoring", "up"} /\ task[t].phase = "ghost" => task[t].status # "running"
  /\ task[t].phase = "none" => task[t] = NoTask
  /\ task[t].phase = "none" /\ life # "down" => disk[t] = <<>>

\* Who has been told is known to the caller: only the end of a task that was never
\* detached is a result.
CallerKnows(t) ==
  /\ task[t].detached => caller[t] = "detached"
  /\ Live(t) /\ caller[t] = "detached" => task[t].detached
  /\ disk[t] # <<>> => caller[t] # "none"
  /\ \A r \in Queued(t) : r.detached => caller[t] = "detached"
  /\ disk[t] # <<>> /\ disk[t][1].detached => caller[t] = "detached"
  /\ caller[t] = "waiting" => Live(t) /\ task[t].phase # "done"
  /\ caller[t] = "none" => ~Live(t) /\ heard[t] = {}
  /\ caller[t] # "detached" => note[t] \in {"none", "marked"} /\ context[t] = <<>>

Told(t) == heard[t] \cup {context[t][i] : i \in DOMAIN context[t]}

\* What anybody has been told is what is on disk, or what a task that left no record, or a
\* stray one, came to.
OneEnd(t) ==
  /\ Live(t) /\ task[t].phase # "done" => Told(t) = {}
  /\ Live(t) /\ task[t].phase = "done" =>
       heard[t] = {task[t].status} /\ Told(t) = {task[t].status}
  /\ ~Live(t) /\ disk[t] = <<>> => \A v, w \in Told(t) : v = w
  /\ ~Live(t) /\ disk[t] # <<>> /\ t \notin spoilt /\ ~Stray(t) =>
       Told(t) \subseteq {disk[t][1].status} \ {"running"}
  /\ Len(context[t]) <= 1 + deferrals[t] \/ t \in spoilt
  /\ context[t] # <<>> => heard[t] # {} \/ disk[t] # <<>>

\* Where the notification of a task is.
Notes(t) ==
  /\ life = "down" => note[t] = "none"
  /\ life = "marking" => note[t] \in {"none", "marked"}
  /\ note[t] = "marked" => task[t].phase = "ghost" /\ task[t].status = "lost"
  /\ note[t] \in {"reading", "steered", "dropped"} => Live(t) /\ task[t].phase = "done"
  /\ note[t] \in {"reading", "steered"} => context[t] = <<>>
  /\ note[t] = "dropped" => t \in unread
  /\ note[t] = "delivered" => context[t] # <<>>
  /\ Live(t) /\ task[t].phase = "done" /\ MayNotify(task[t]) => note[t] # "none"
  /\ Live(t) /\ task[t].phase # "done" => note[t] = "none"
  /\ life = "up" /\ task[t].phase = "ghost" /\ MayNotify(task[t]) => context[t] # <<>>

\* While a process restores, what the replay has not put into the history has been counted.
Counted(t) ==
  /\ placed[t] <= Len(context[t])
  /\ life \in {"marking", "restoring"} /\ note[t] # "delivered" /\ placed[t] = 0 =>
       Len(context[t]) <= deferrals[t] \/ t \in spoilt

TaskInv(t) ==
  /\ LiveRecords(t) /\ GhostRecords(t) /\ CallerKnows(t) /\ OneEnd(t) /\ Notes(t)
  /\ Counted(t)
-----------------------------------------------------------------------------
\* The entry of one task, apart from its coherence.
TaskEntry ==
  [phase : Phase, status : Status, detached : BOOLEAN, persist : BOOLEAN,
   suppressed : BOOLEAN, aborted : BOOLEAN, outcome : {"none", "worker", "stop", "timeout"},
   worker : {"none", "ended", "killed"}]

\* The waits of runTaskLifecycle.
Waits == {"racing", "decided", "grace", "forcing"}

Coherent(e) ==
  /\ e \in TaskEntry
  /\ e.phase \notin {"none", "ghost"} =>
       (e.status = "running" <=> e.phase \in Waits) /\ (e.detached => e.persist)
  /\ e.outcome = "worker" => e.worker # "none"

\* The types of everything but the entries.
RestOK ==
  /\ life \in {"down", "marking", "restoring", "up"}
  /\ queue \in [Task -> Seq(Record)]
  /\ disk \in [Task -> {<<>>} \cup {<<r>> : r \in Record}]
  /\ note \in [Task -> {"none", "marked", "reading", "steered", "delivered", "dropped"}]
  /\ caller \in [Task -> {"none", "waiting", "detached", "terminal", "dead"}]
  /\ asked \subseteq Task /\ fresh \subseteq Task
  /\ spoilt \subseteq Task /\ unread \subseteq Task
  /\ context \in [Task -> Seq(Verdict)] /\ heard \in [Task -> SUBSET Verdict]
  /\ exchange \in {"closed", "open", "closing"}
  /\ placed \in [Task -> Nat] /\ deferrals \in [Task -> Nat]
  /\ crashes \in 0 .. MaxCrashes /\ faults \in 0 .. MaxFaults

EntriesOK == task \in [Task -> TaskEntry] /\ \A t \in Task : Coherent(task[t])

Types == RestOK /\ EntriesOK

\* The inductive invariant.
IInv == Types /\ \A t \in Task : TaskInv(t)

\* The types the runs check.
LEMMA TypesOK == Types => TypeOK
BY DEF Types, TypeOK, RestOK, EntriesOK, TaskEntry, Coherent, Waits, Live

\* Changing one entry.
LEMMA EntryChange ==
  ASSUME EntriesOK, NEW t \in Task, NEW e, Coherent(e), task' = [task EXCEPT ![t] = e]
  PROVE  EntriesOK'
<1>1. task' \in [Task -> TaskEntry]
  BY DEF EntriesOK, Coherent
<1>2. \A u \in Task : task'[u] = IF u = t THEN e ELSE task[u]
  BY DEF EntriesOK
<1> QED BY <1>1, <1>2 DEF EntriesOK

\* What is written of a task is a record.
LEMMA InfoType == ASSUME NEW e, Coherent(e) PROVE Info(e) \in Record
BY DEF Coherent, TaskEntry, Info, Record

\* Queueing a record.
LEMMA WriteType ==
  ASSUME RestOK, NEW t \in Task, NEW e, Coherent(e), Write(t, e)
  PROVE  queue' \in [Task -> Seq(Record)]
BY InfoType DEF RestOK, Write

\* The actions that change one entry and the stops waited for.
LEMMA EntryStep ==
  ASSUME Types, NEW t \in Task, NEW e, Coherent(e), Entry(t, e), asked' \subseteq Task
  PROVE  Types'
<1>1. EntriesOK'
  BY EntryChange DEF Types, Entry
<1>2. RestOK'
  BY DEF Types, Entry, RestOK
<1> QED BY <1>1, <1>2 DEF Types

\* An entry whose race is over.
LEMMA SettlesType ==
  ASSUME NEW e, Coherent(e), NEW outcome \in {"worker", "stop", "timeout"},
         outcome = "worker" => e.worker # "none"
  PROVE  Coherent(Settles(e, outcome))
<1>1. CASE e.phase = "racing"
  <2>1. [e EXCEPT !.phase = "decided", !.outcome = outcome] \in TaskEntry
    BY <1>1 DEF Coherent, TaskEntry, Phase
  <2> QED BY <1>1, <2>1 DEF Coherent, Settles, TaskEntry, Waits
<1>2. CASE e.phase # "racing"
  BY <1>2 DEF Settles
<1> QED BY <1>1, <1>2

\* The end of a lifecycle.
LEMMA FinalizeType ==
  ASSUME Types, NEW t \in Task, Live(t), NEW verdict \in Verdict, Finalize(t, verdict)
  PROVE  Types'
<1> DEFINE e == [task[t] EXCEPT !.status = verdict, !.phase = Awaits(task[t]),
                                !.aborted = FALSE, !.outcome = "none", !.worker = "none"]
<1>0. RestOK /\ EntriesOK /\ Coherent(task[t])
  BY DEF Types, EntriesOK
<1>1. Awaits(task[t]) \in {"writing", "written"}
  BY DEF Awaits
<1>2. e \in TaskEntry
  BY <1>0, <1>1 DEF Coherent, TaskEntry, Status, Phase
<1>3. Coherent(e)
  BY <1>0, <1>1, <1>2 DEF Coherent, TaskEntry, Waits, Verdict, Live
<1>4. EntriesOK'
  BY <1>0, <1>3, EntryChange DEF Finalize
<1>5. queue' \in [Task -> Seq(Record)]
  BY <1>0, <1>3, WriteType DEF Finalize, RestOK
<1>6. RestOK'
  BY <1>0, <1>5 DEF Finalize, RestOK
<1> QED BY <1>4, <1>6 DEF Types

\* A notification that is logged.
LEMMA LoggedType ==
  ASSUME Types, NEW t \in Task, task[t].status \in Verdict, Logged(t)
  PROVE  Types'
<1>1. context' \in [Task -> Seq(Verdict)]
  BY DEF Logged, Types, RestOK
<1>2. placed' \in [Task -> Nat]
  BY DEF Logged, Types, RestOK
<1> QED BY <1>1, <1>2 DEF Logged, Types, RestOK, EntriesOK

\* What is left of the log has lengths.
LEMMA LeftType ==
  ASSUME Types, context' \in [Task -> Seq(Verdict)], NEW gone,
         AllPlaced(gone) \/ StillOpen(gone)
  PROVE  placed' \in [Task -> Nat] /\ exchange' \in {"closed", "open", "closing"}
<1>1. \A t \in Task : Len(context'[t]) \in Nat
  OBVIOUS
<1>2. \A t \in Task : Smaller(placed[t], Len(context'[t])) \in Nat
  BY <1>1 DEF Smaller, Types, RestOK
<1> QED BY <1>1, <1>2 DEF AllPlaced, StillOpen

\* No action disturbs the types.
LEMMA TypeStep == Types /\ (\A t \in Task : TaskInv(t)) /\ [Next]_vars => Types'
<1> SUFFICES ASSUME Types, \A t \in Task : TaskInv(t), [Next]_vars PROVE Types'
  OBVIOUS
<1> USE BackgroundAssumption
<1>a. RestOK /\ EntriesOK /\ \A t \in Task : Coherent(task[t])
  BY DEF Types, EntriesOK
<1>b. NoTask \in TaskEntry
  BY DEF NoTask, TaskEntry, Phase, Status
<1>1. ASSUME NEW t \in Task, NEW detached \in BOOLEAN, Register(t, detached) PROVE Types'
  <2> DEFINE e == [NoTask EXCEPT !.phase = "racing", !.detached = detached,
                   !.persist = detached]
  <2>1. Coherent(e)
    BY DEF Coherent, NoTask, TaskEntry, Phase, Status, Waits
  <2>2. EntriesOK'
    BY <1>1, <1>a, <2>1, EntryChange DEF Register
  <2>3. queue' \in [Task -> Seq(Record)]
    BY <1>1, <1>a, <2>1, WriteType DEF Register, RestOK
  <2>4. RestOK'
    BY <1>1, <1>a, <2>3 DEF Register, RestOK
  <2> QED BY <2>2, <2>4 DEF Types
<1>2. ASSUME NEW t \in Task, Detach(t) PROVE Types'
  <2>1. Coherent(DetachedEntry(task[t]))
    BY <1>2, <1>a DEF Detach, DetachedEntry, Coherent, TaskEntry
  <2>2. EntriesOK'
    BY <1>2, <1>a, <2>1, EntryChange DEF Detach
  <2>3. queue' \in [Task -> Seq(Record)]
    BY <1>2, <1>a, <2>1, WriteType DEF Detach
  <2>4. RestOK'
    BY <1>2, <1>a, <2>3 DEF Detach, RestOK
  <2> QED BY <2>2, <2>4 DEF Types
<1>3. ASSUME NEW t \in Task, Spill(t) PROVE Types'
  <2> DEFINE e == [task[t] EXCEPT !.persist = TRUE]
  <2>1. Coherent(e)
    BY <1>a DEF Coherent, TaskEntry
  <2>2. EntriesOK'
    BY <1>3, <1>a, <2>1, EntryChange DEF Spill
  <2>3. RestOK'
    BY <1>3, <1>a DEF Spill, RestOK
  <2> QED BY <2>2, <2>3 DEF Types
<1>4. ASSUME NEW t \in Task, Suppress(t) PROVE Types'
  <2> DEFINE e == [task[t] EXCEPT !.suppressed = TRUE]
  <2>1. Coherent(e)
    BY <1>a DEF Coherent, TaskEntry
  <2>2. EntriesOK'
    BY <1>4, <1>a, <2>1, EntryChange DEF Suppress
  <2>3. queue' \in [Task -> Seq(Record)]
    BY <1>4, <1>a, <2>1, WriteType DEF Suppress
  <2>4. RestOK'
    BY <1>4, <1>a, <2>3 DEF Suppress, RestOK
  <2> QED BY <2>2, <2>4 DEF Types
<1>5. ASSUME NEW t \in Task, Stop(t) PROVE Types'
  <2>1. Coherent([task[t] EXCEPT !.aborted = TRUE])
    BY <1>a DEF Coherent, TaskEntry
  <2>2. asked' \subseteq Task
    BY <1>5, <1>a DEF Stop, RestOK
  <2> QED BY <1>5, <2>1, <2>2, SettlesType, EntryStep DEF Stop
<1>6. ASSUME NEW t \in Task, Timeout(t) \/ CallerAborts(t) PROVE Types'
  <2>1. asked' \subseteq Task
    BY <1>6, <1>a DEF Timeout, CallerAborts, RestOK
  <2> QED BY <1>6, <1>a, <2>1, SettlesType, EntryStep DEF Timeout, CallerAborts
<1>7. ASSUME NEW t \in Task, NEW v \in {"ended", "killed"}, WorkerSettles(t, v) PROVE Types'
  <2>1. /\ Coherent([task[t] EXCEPT !.worker = v])
        /\ [task[t] EXCEPT !.worker = v].worker # "none"
    BY <1>a DEF Coherent, TaskEntry
  <2>2. asked' \subseteq Task
    BY <1>7, <1>a DEF WorkerSettles, RestOK
  <2> QED BY <1>7, <2>1, <2>2, SettlesType, EntryStep DEF WorkerSettles
<1>8. ASSUME NEW t \in Task, Decided(t) PROVE Types'
  <2>0. task[t].phase = "decided" /\ Live(t)
    BY <1>8 DEF Decided, Live
  <2>1. CASE task[t].outcome = "worker"
    <3>1. task[t].worker \in Verdict
      BY <1>a, <2>1 DEF Coherent, TaskEntry, Verdict
    <3> QED BY <1>8, <2>0, <2>1, <3>1, FinalizeType DEF Decided
  <2>2. CASE task[t].outcome # "worker"
    <3>1. Coherent([task[t] EXCEPT !.phase = "grace", !.aborted = TRUE])
      BY <1>a, <2>0 DEF Coherent, TaskEntry, Phase, Waits
    <3>2. asked' \subseteq Task
      BY <1>8, <1>a, <2>2 DEF Decided, RestOK
    <3> QED BY <1>8, <2>2, <3>1, <3>2, EntryStep DEF Decided
  <2> QED BY <2>1, <2>2
<1>9. ASSUME NEW t \in Task, WorkerAnswered(t) \/ ForceStopped(t) PROVE Types'
  <2>1. Live(t) /\ Aborted(task[t]) \in Verdict
    BY <1>9 DEF WorkerAnswered, ForceStopped, Live, Aborted, Verdict
  <2>2. PICK v \in Verdict : Finalize(t, v)
    BY <1>9, <2>1 DEF WorkerAnswered, ForceStopped, Verdict
  <2> QED BY <2>1, <2>2, FinalizeType
<1>10. ASSUME NEW t \in Task, GraceTimeout(t) PROVE Types'
  <2>1. Coherent([task[t] EXCEPT !.phase = "forcing"])
    BY <1>10, <1>a DEF GraceTimeout, GraceOver, Coherent, TaskEntry, Phase, Waits
  <2>2. asked' \subseteq Task
    BY <1>10, <1>a DEF GraceTimeout, RestOK
  <2> QED BY <1>10, <2>1, <2>2, EntryStep DEF GraceTimeout
<1>11. ASSUME NEW t \in Task, NEW ok \in BOOLEAN, DiskWrite(t, ok) PROVE Types'
  <2> DEFINE rest == SubSeq(queue[t], 1, 0) \o SubSeq(queue[t], 2, Len(queue[t]))
  <2>0. queue[t] \in Seq(Record) /\ 1 \in DOMAIN queue[t]
    BY <1>11, <1>a DEF DiskWrite, NextWrite, RestOK
  <2>1. /\ queue' = [queue EXCEPT ![t] = rest]
        /\ disk' = IF ok THEN [disk EXCEPT ![t] = <<queue[t][1]>>] ELSE disk
        /\ task' = IF rest = <<>> /\ task[t].phase = "writing"
                   THEN [task EXCEPT ![t] = [@ EXCEPT !.phase = "written"]] ELSE task
    BY <1>11, <2>0 DEF DiskWrite, NextWrite
  <2>2. rest \in Seq(Record) /\ queue[t][1] \in Record
    BY <2>0
  <2>3. task[t].phase = "writing" => Coherent([task[t] EXCEPT !.phase = "written"])
    BY <1>a DEF Coherent, TaskEntry, Phase, Waits
  <2>4. EntriesOK'
    <3>1. CASE rest = <<>> /\ task[t].phase = "writing"
      BY <1>a, <2>1, <2>3, <3>1, EntryChange
    <3>2. CASE ~(rest = <<>> /\ task[t].phase = "writing")
      BY <1>a, <2>1, <3>2 DEF EntriesOK
    <3> QED BY <3>1, <3>2
  <2>5. /\ queue' \in [Task -> Seq(Record)]
        /\ disk' \in [Task -> {<<>>} \cup {<<r>> : r \in Record}]
    BY <1>a, <2>1, <2>2 DEF RestOK
  <2>6. faults' \in 0 .. MaxFaults /\ spoilt' \subseteq Task
    BY <1>11, <1>a DEF DiskWrite, RestOK
  <2>7. RestOK'
    BY <1>11, <1>a, <2>5, <2>6 DEF DiskWrite, RestOK
  <2> QED BY <2>4, <2>7 DEF Types
<1>12. ASSUME NEW t \in Task, Effects(t) PROVE Types'
  <2> DEFINE e == [task[t] EXCEPT !.phase = "done"]
  <2>1. Coherent(e)
    BY <1>12, <1>a DEF Effects, Coherent, TaskEntry, Phase, Waits
  <2>2. EntriesOK'
    BY <1>12, <1>a, <2>1, EntryChange DEF Effects
  <2>3. task[t].status \in Verdict
    BY <1>12, <1>a DEF Effects, Coherent, TaskEntry, Status, Waits
  <2>4. RestOK'
    BY <1>12, <1>a, <2>3 DEF Effects, RestOK
  <2> QED BY <2>2, <2>4 DEF Types
<1>13. ASSUME NEW t \in Task, Notify(t) \/ NotifyFails(t) PROVE Types'
  <2>1. EntriesOK'
    BY <1>13, <1>a DEF Notify, NotifyFails, EntriesOK
  <2>2. note' \in [Task -> {"none", "marked", "reading", "steered", "delivered", "dropped"}]
    BY <1>13, <1>a DEF Notify, NotifyFails, RestOK
  <2>3. RestOK'
    BY <1>13, <1>a, <2>2 DEF Notify, NotifyFails, RestOK
  <2> QED BY <2>1, <2>3 DEF Types
<1>14. ASSUME NEW t \in Task, Live(t), task[t].phase = "done", Delivered(t) PROVE Types'
  <2>1. task[t].status \in Verdict
    BY <1>14, <1>a DEF Coherent, TaskEntry, Status, Waits
  <2> QED BY <1>14, <2>1, LoggedType DEF Delivered
<1>15. ASSUME NEW t \in Task, MarkLost(t) PROVE Types'
  <2> DEFINE e == [task[t] EXCEPT !.status = "lost"]
  <2>1. Coherent(e) /\ Info(e) \in Record
    <3>1. Coherent(e)
      BY <1>15, <1>a DEF MarkLost, Unmarked, Ghosts, Coherent, TaskEntry, Status, Verdict
    <3> QED BY <3>1, InfoType
  <2>2. EntriesOK'
    BY <1>15, <1>a, <2>1, EntryChange DEF MarkLost
  <2>3. disk' \in [Task -> {<<>>} \cup {<<r>> : r \in Record}]
    BY <1>15, <1>a, <2>1 DEF MarkLost, RestOK
  <2>4. RestOK'
    BY <1>15, <1>a, <2>3 DEF MarkLost, RestOK
  <2> QED BY <2>2, <2>4 DEF Types
<1>16. ASSUME NEW t \in Task, Restore(t) PROVE Types'
  <2>1. task[t].status \in Verdict
    BY <1>16, <1>a DEF Restore, ToRestore, Ghosts, TaskInv, GhostRecords,
           Coherent, TaskEntry, Status
  <2> QED BY <1>16, <2>1, LoggedType DEF Restore
<1>17. CASE Crash
  <2>1. EntriesOK'
    BY <1>17, <1>b DEF Crash, EntriesOK, Coherent, NoTask
  <2>2. PICK gone \in SUBSET fresh :
          /\ context' = [t \in Task |-> IF t \in gone
                                        THEN SubSeq(context[t], 1, Len(context[t]) - 1)
                                        ELSE context[t]]
          /\ AllPlaced(gone) \/ StillOpen(gone)
    BY <1>17 DEF Crash
  <2>3. \A t \in Task : SubSeq(context[t], 1, Len(context[t]) - 1) \in Seq(Verdict)
    BY <1>a DEF RestOK
  <2>4. context' \in [Task -> Seq(Verdict)]
    BY <1>a, <2>2, <2>3 DEF RestOK
  <2>5. caller' \in [Task -> {"none", "waiting", "detached", "terminal", "dead"}]
    BY <1>17, <1>a DEF Crash, RestOK
  <2>6. placed' \in [Task -> Nat] /\ exchange' \in {"closed", "open", "closing"}
    BY <2>2, <2>4, LeftType
  <2>7. RestOK'
    BY <1>17, <1>a, <2>4, <2>5, <2>6 DEF Crash, RestOK
  <2> QED BY <2>1, <2>7 DEF Types
<1>18. CASE Load
  <2> DEFINE e(t) == [NoTask EXCEPT !.phase = "ghost", !.status = disk[t][1].status,
                                    !.detached = disk[t][1].detached,
                                    !.suppressed = disk[t][1].suppressed]
  <2>1. ASSUME NEW t \in Task, disk[t] # <<>> PROVE Coherent(e(t))
    <3>1. disk[t][1] \in Record
      BY <1>a, <2>1 DEF RestOK
    <3> QED BY <3>1, <1>b DEF Record, Coherent, NoTask, TaskEntry, Phase
  <2>2. Coherent(NoTask)
    BY <1>b DEF Coherent, NoTask
  <2>3. \A t \in Task : Coherent(IF disk[t] = <<>> THEN NoTask ELSE e(t))
    BY <2>1, <2>2
  <2>4. task' = [t \in Task |-> IF disk[t] = <<>> THEN NoTask ELSE e(t)]
    BY <1>18 DEF Load
  <2> HIDE DEF e
  <2>5. EntriesOK'
    BY <2>3, <2>4 DEF EntriesOK, Coherent
  <2>6. deferrals' \in [Task -> Nat]
    <3>1. \A t \in Task : deferrals[t] \in Nat /\ deferrals[t] + 1 \in Nat
      BY <1>a DEF RestOK
    <3>2. deferrals' = [t \in Task |-> IF placed[t] < Len(context[t])
                                       THEN deferrals[t] + 1 ELSE deferrals[t]]
      BY <1>18 DEF Load
    <3> QED BY <3>1, <3>2
  <2>7. RestOK'
    BY <1>18, <1>a, <2>6 DEF Load, RestOK
  <2> QED BY <2>5, <2>7 DEF Types
<1>19. CASE Marked
  BY <1>19, <1>a DEF Marked, Types, RestOK, EntriesOK, Verdict
<1>20. CASE ReconcileFails
  <2>1. EntriesOK'
    BY <1>20, <1>b DEF ReconcileFails, EntriesOK, Coherent, NoTask
  <2>2. RestOK'
    BY <1>20, <1>a DEF ReconcileFails, RestOK
  <2> QED BY <2>1, <2>2 DEF Types
<1>21. CASE Restored
  BY <1>21, <1>a DEF Restored, Types, RestOK, EntriesOK
<1>22. CASE UNCHANGED vars
  BY <1>22, <1>a DEF vars, Types, RestOK, EntriesOK
<1>23. ASSUME NEW t \in Task, Delivered(t) PROVE Types'
  BY <1>14, <1>23 DEF Delivered, TaskInv, Notes
<1> QED
  BY <1>1, <1>2, <1>3, <1>4, <1>5, <1>6, <1>7, <1>8, <1>9, <1>10, <1>11, <1>12, <1>13,
     <1>15, <1>16, <1>17, <1>18, <1>19, <1>20, <1>21, <1>22, <1>23 DEF Next, TaskNext

-----------------------------------------------------------------------------
\* A step leaves everything of a task alone but its entry.
SameRest(u) ==
  /\ life' = life
  /\ queue'[u] = queue[u] /\ disk'[u] = disk[u]
  /\ note'[u] = note[u] /\ caller'[u] = caller[u]
  /\ context'[u] = context[u] /\ heard'[u] = heard[u]
  /\ placed'[u] = placed[u] /\ deferrals'[u] = deferrals[u]
  /\ (u \in spoilt' <=> u \in spoilt) /\ (u \in unread' <=> u \in unread)

\* Who has been told depends on the history and the clients only.
LEMMA ToldKept ==
  ASSUME NEW u \in Task, context'[u] = context[u], heard'[u] = heard[u]
  PROVE  Told(u)' = Told(u)
BY DEF Told

\* The queued records depend on the queue only.
LEMMA QueuedKept ==
  ASSUME NEW u \in Task, queue'[u] = queue[u]
  PROVE  Queued(u)' = Queued(u)
BY DEF Queued

\* The invariant of a task speaks of nothing but what is that task's.
LEMMA Kept ==
  ASSUME NEW u \in Task, task'[u] = task[u], SameRest(u), TaskInv(u)
  PROVE  TaskInv(u)'
<1>1. Told(u)' = Told(u) /\ Queued(u)' = Queued(u)
  BY ToldKept, QueuedKept DEF SameRest
<1>2. /\ Live(u)' = Live(u) /\ Stray(u)' = Stray(u)
      /\ \A r : Says(r, u)' = Says(r, u)
  BY DEF SameRest, Live, Stray, Says
<1> USE <1>1, <1>2 DEF TaskInv, SameRest
<1>3. LiveRecords(u)'
  BY DEF LiveRecords
<1>4. GhostRecords(u)'
  BY DEF GhostRecords, Info
<1>5. CallerKnows(u)'
  BY DEF CallerKnows
<1>6. OneEnd(u)'
  BY DEF OneEnd
<1>7. Notes(u)'
  BY DEF Notes, MayNotify
<1>8. Counted(u)'
  BY DEF Counted
<1> QED BY <1>3, <1>4, <1>5, <1>6, <1>7, <1>8

\* Nothing is lost or told while a task waits for its end.
LEMMA Waiting ==
  ASSUME NEW t \in Task, TaskInv(t), SameRest(t),
         task[t].phase \in Waits, task'[t].phase \in Waits,
         task'[t].status = task[t].status, task'[t].detached = task[t].detached,
         task'[t].persist = task[t].persist, task'[t].suppressed = task[t].suppressed
  PROVE  TaskInv(t)'
<1>1. Told(t)' = Told(t) /\ Queued(t)' = Queued(t)
  BY ToldKept, QueuedKept DEF SameRest
<1>2. /\ Live(t) /\ Live(t)' /\ Stray(t)' = Stray(t)
      /\ \A r : Says(r, t)' = Says(r, t)
  BY DEF SameRest, Live, Stray, Says, Waits
<1> USE <1>1, <1>2 DEF TaskInv, SameRest, Waits
<1>3. LiveRecords(t)'
  BY DEF LiveRecords
<1>4. GhostRecords(t)'
  BY DEF GhostRecords
<1>5. CallerKnows(t)'
  BY DEF CallerKnows
<1>6. OneEnd(t)'
  BY DEF OneEnd
<1>7. Notes(t)'
  BY DEF Notes, MayNotify
<1>8. Counted(t)'
  BY DEF Counted
<1> QED BY <1>3, <1>4, <1>5, <1>6, <1>7, <1>8

\* What the queue of a task is when a record has been added.
LEMMA Added ==
  ASSUME RestOK, NEW t \in Task, NEW e, Coherent(e), Write(t, e)
  PROVE  /\ queue'[t] = Append(queue[t], Info(e))
         /\ Len(queue'[t]) = Len(queue[t]) + 1 /\ queue'[t] # <<>>
         /\ queue'[t][Len(queue'[t])] = Info(e)
         /\ Queued(t)' = Queued(t) \cup {Info(e)}
         /\ \A i \in DOMAIN queue'[t] :
              i = Len(queue'[t]) \/ (i \in DOMAIN queue[t] /\ queue'[t][i] = queue[t][i])
<1>1. Info(e) \in Record /\ queue[t] \in Seq(Record)
  BY InfoType DEF RestOK
<1>2. queue'[t] = Append(queue[t], Info(e))
  BY DEF Write, RestOK
<1> HIDE DEF Record
<1>3. /\ Len(queue'[t]) = Len(queue[t]) + 1 /\ queue'[t] # <<>>
      /\ queue'[t][Len(queue'[t])] = Info(e)
      /\ DOMAIN queue'[t] = 1 .. Len(queue[t]) + 1 /\ DOMAIN queue[t] = 1 .. Len(queue[t])
      /\ \A i \in 1 .. Len(queue[t]) : queue'[t][i] = queue[t][i]
      /\ Len(queue[t]) \in Nat
  BY <1>1, <1>2
<1>4. Queued(t)' = {queue'[t][i] : i \in DOMAIN queue'[t]}
  BY DEF Queued
<1>5. Queued(t)' = Queued(t) \cup {Info(e)}
  BY <1>3, <1>4 DEF Queued
<1> QED BY <1>2, <1>3, <1>5

\* The end of the lifecycle.
LEMMA FinalizeStep ==
  ASSUME Types, NEW t \in Task, TaskInv(t), task[t].phase \in Waits,
         NEW verdict \in Verdict, Finalize(t, verdict)
  PROVE  TaskInv(t)'
<1> DEFINE e == [task[t] EXCEPT !.status = verdict, !.phase = Awaits(task[t]),
                                !.aborted = FALSE, !.outcome = "none", !.worker = "none"]
<1>0. RestOK /\ EntriesOK /\ Coherent(task[t]) /\ task[t].status = "running"
      /\ task'[t] = e /\ task[t] \in TaskEntry
  BY DEF Types, EntriesOK, Coherent, Waits, Finalize
<1>1. /\ task'[t].status = verdict /\ task'[t].phase = Awaits(task[t])
      /\ task'[t].detached = task[t].detached /\ task'[t].persist = task[t].persist
      /\ task'[t].suppressed = task[t].suppressed
  BY <1>0 DEF TaskEntry
<1>2. Coherent(e) /\ Info(e).status = verdict /\ Info(e).detached = task[t].detached
  <2>1. e \in TaskEntry
    BY <1>0 DEF TaskEntry, Awaits, Status, Phase
  <2> QED BY <1>0, <2>1 DEF Coherent, TaskEntry, Waits, Verdict, Awaits, Info
<1>3. IF task[t].persist THEN Write(t, e) ELSE queue' = queue
  BY DEF Finalize
<1>4. /\ life' = life /\ disk' = disk /\ note' = note /\ caller' = caller
      /\ context' = context /\ heard' = heard /\ spoilt' = spoilt /\ unread' = unread
      /\ placed' = placed /\ deferrals' = deferrals
  BY DEF Finalize
<1> HIDE DEF e
<1>c. Counted(t)'
  BY <1>4 DEF TaskInv, Counted
<1>5. Told(t)' = Told(t) /\ Live(t) /\ Live(t)' /\ verdict # "running"
  BY <1>1, <1>4, ToldKept DEF Live, Awaits, Waits, Verdict
<1>6. /\ \A i \in DOMAIN queue[t] : queue[t][i].status = "running"
      /\ \A r \in Queued(t) : r.status = "running"
      /\ disk[t] # <<>> => disk[t][1].status = "running"
  BY <1>0, <1>5 DEF TaskInv, LiveRecords, Says, Queued
<1>7. CASE task[t].persist
  <2>0. Write(t, e)
    BY <1>3, <1>7
  <2>1. /\ Len(queue'[t]) = Len(queue[t]) + 1 /\ queue'[t] # <<>>
        /\ queue'[t][Len(queue'[t])] = Info(e)
        /\ Queued(t)' = Queued(t) \cup {Info(e)}
        /\ \A i \in DOMAIN queue'[t] :
             i = Len(queue'[t]) \/ (i \in DOMAIN queue[t] /\ queue'[t][i] = queue[t][i])
    BY <1>0, <1>2, <2>0, Added
  <2>2. task'[t].phase = "writing"
    BY <1>1, <1>7 DEF Awaits
  <2>3. LiveRecords(t)'
    <3>1. \A r \in Queued(t)' : Says(r, t)'
      BY <1>1, <1>2, <1>6, <2>1 DEF Says
    <3>2. \A i \in DOMAIN queue'[t] : queue'[t][i].status # "running" => i = Len(queue'[t])
      BY <1>6, <2>1
    <3> QED BY <1>1, <1>2, <1>4, <1>6, <1>7, <2>1, <2>2, <3>1, <3>2 DEF LiveRecords, Says
  <2>4. GhostRecords(t)'
    BY <1>1, <1>4, <1>5, <2>2 DEF TaskInv, GhostRecords
  <2>5. CallerKnows(t)'
    BY <1>1, <1>2, <1>4, <1>5, <2>1, <2>2 DEF TaskInv, CallerKnows
  <2>6. OneEnd(t)'
    BY <1>4, <1>5, <2>2 DEF TaskInv, OneEnd, Waits
  <2>7. Notes(t)'
    BY <1>1, <1>4, <1>5, <2>2 DEF TaskInv, Notes, Waits
  <2> QED BY <1>c, <2>3, <2>4, <2>5, <2>6, <2>7 DEF TaskInv
<1>8. CASE ~task[t].persist
  <2>1. queue' = queue /\ task'[t].phase = "written" /\ Queued(t)' = Queued(t)
    BY <1>1, <1>3, <1>8, QueuedKept DEF Awaits
  <2>3. LiveRecords(t)'
    BY <1>1, <1>4, <1>6, <1>8, <2>1 DEF LiveRecords, Says
  <2>4. GhostRecords(t)'
    BY <1>1, <1>4, <1>5, <2>1 DEF TaskInv, GhostRecords
  <2>5. CallerKnows(t)'
    BY <1>1, <1>4, <1>5, <2>1 DEF TaskInv, CallerKnows
  <2>6. OneEnd(t)'
    BY <1>4, <1>5, <2>1 DEF TaskInv, OneEnd, Waits
  <2>7. Notes(t)'
    BY <1>1, <1>4, <1>5, <2>1 DEF TaskInv, Notes, Waits
  <2> QED BY <1>c, <2>3, <2>4, <2>5, <2>6, <2>7 DEF TaskInv
<1> QED BY <1>7, <1>8

\* A record of a task that still waits for its end.
LEMMA Rewritten ==
  ASSUME Types, NEW t \in Task, TaskInv(t), task[t].phase \in Waits,
         NEW e, Coherent(e), e.phase \in Waits, Write(t, e), task'[t] = e,
         task[t].persist => e.persist,
         caller'[t] = IF e.detached THEN "detached" ELSE caller[t],
         task[t].detached => e.detached,
         life' = life, disk' = disk, note' = note, context' = context, heard' = heard,
         spoilt' = spoilt, unread' = unread, placed' = placed, deferrals' = deferrals
  PROVE  TaskInv(t)'
<1>0. RestOK /\ Coherent(task[t]) /\ task[t].status = "running" /\ e.status = "running"
  BY DEF Types, EntriesOK, Coherent, Waits
<1>1. /\ queue'[t] # <<>> /\ queue'[t][Len(queue'[t])] = Info(e)
      /\ Queued(t)' = Queued(t) \cup {Info(e)}
      /\ \A i \in DOMAIN queue'[t] :
           i = Len(queue'[t]) \/ (i \in DOMAIN queue[t] /\ queue'[t][i] = queue[t][i])
  BY <1>0, Added
<1>2. Info(e).status = "running" /\ Info(e).detached = e.detached
  BY <1>0 DEF Info
<1>3. Told(t)' = Told(t) /\ Live(t) /\ Live(t)'
  BY ToldKept DEF Live, Waits
<1>4. /\ \A i \in DOMAIN queue[t] : queue[t][i].status = "running"
      /\ \A r \in Queued(t) : r.status = "running"
      /\ disk[t] # <<>> => disk[t][1].status = "running"
  BY <1>0, <1>3 DEF TaskInv, LiveRecords, Says, Queued
<1>5. LiveRecords(t)'
  BY <1>0, <1>1, <1>2, <1>4 DEF LiveRecords, Says, Waits
<1>6. GhostRecords(t)'
  BY <1>3 DEF TaskInv, GhostRecords, Waits
<1>7. CallerKnows(t)'
  BY <1>1, <1>2, <1>3 DEF TaskInv, CallerKnows, Waits, Notes
<1>8. OneEnd(t)'
  BY <1>3 DEF TaskInv, OneEnd, Waits
<1>9. Notes(t)'
  BY <1>3 DEF TaskInv, Notes, Waits
<1>10. Counted(t)'
  BY DEF TaskInv, Counted
<1> QED BY <1>5, <1>6, <1>7, <1>8, <1>9, <1>10 DEF TaskInv

\* A record reaches the disk, or fails to.
LEMMA DiskWriteStep ==
  ASSUME Types, NEW t \in Task, TaskInv(t), NEW ok \in BOOLEAN, DiskWrite(t, ok)
  PROVE  TaskInv(t)'
<1> DEFINE q == queue[t]
           rest == SubSeq(q, 1, 0) \o SubSeq(q, 2, Len(q))
           ends == rest = <<>> /\ task[t].phase = "writing"
<1>0. RestOK /\ EntriesOK /\ Coherent(task[t]) /\ task[t] \in TaskEntry
  BY DEF Types, EntriesOK, Coherent
<1>1. q \in Seq(Record) /\ 1 \in DOMAIN q /\ q # <<>>
  BY <1>0 DEF DiskWrite, NextWrite, RestOK
<1>2. /\ queue'[t] = rest
      /\ disk'[t] = IF ok THEN <<q[1]>> ELSE disk[t]
      /\ task'[t] = IF ends THEN [task[t] EXCEPT !.phase = "written"] ELSE task[t]
      /\ ~ok => t \in spoilt'
      /\ t \in spoilt => t \in spoilt'
      /\ life' = life /\ life = "up" /\ note' = note /\ caller' = caller
      /\ context' = context /\ heard' = heard /\ unread' = unread
      /\ placed' = placed /\ deferrals' = deferrals
  BY <1>0, <1>1 DEF DiskWrite, NextWrite, RestOK, EntriesOK, Up
<1>3. Len(q) \in Nat /\ DOMAIN q = 1 .. Len(q) /\ Len(q) >= 1
  BY <1>1
<1>4. /\ Len(rest) = Len(q) - 1 /\ DOMAIN rest = 1 .. Len(q) - 1
      /\ \A i \in DOMAIN rest : rest[i] = q[i + 1]
      /\ rest = <<>> <=> Len(q) = 1
  <2> DEFINE s == SubSeq(q, 2, Len(q))
  <2>1. SubSeq(q, 1, 0) = <<>>
    BY <1>1
  <2>2. s \in Seq(Record) /\ Len(s) = Len(q) - 1 /\ \A i \in 1 .. Len(q) - 1 : s[i] = q[i + 1]
    BY <1>1, <1>3
  <2> HIDE DEF s
  <2>3. <<>> \o s = s
    BY <2>2
  <2>4. rest = s
    BY <2>1, <2>3 DEF s
  <2>5. DOMAIN s = 1 .. Len(q) - 1 /\ (s = <<>> <=> Len(q) = 1)
    <3>1. DOMAIN s = 1 .. Len(s)
      BY <2>2
    <3>2. s # <<>> => Len(s) # 0
      BY <2>2, EmptySeq
    <3>3. s = <<>> => Len(s) = 0
      OBVIOUS
    <3> QED BY <1>3, <2>2, <3>1, <3>2, <3>3
  <2> HIDE DEF rest
  <2> QED BY <2>2, <2>4, <2>5
<1>5. Live(t)
  BY <1>1 DEF TaskInv, GhostRecords
<1>6. /\ task'[t].status = task[t].status /\ task'[t].detached = task[t].detached
      /\ task'[t].persist = task[t].persist /\ task'[t].suppressed = task[t].suppressed
      /\ task'[t].phase = IF ends THEN "written" ELSE task[t].phase
  BY <1>0, <1>2 DEF TaskEntry
<1>7. Live(t)' /\ Told(t)' = Told(t)
  BY <1>2, <1>5, <1>6, ToldKept DEF Live
<1>8. Queued(t)' = {rest[i] : i \in DOMAIN rest} /\ Queued(t) = {q[i] : i \in DOMAIN q}
  BY <1>2 DEF Queued
<1> HIDE DEF q, rest
<1>9. Queued(t)' \subseteq Queued(t) /\ q[1] \in Queued(t)
  BY <1>3, <1>4, <1>8
<1>10. q[1].status # "running" => Len(q) = 1
  <2>1. \A i \in DOMAIN q : q[i].status # "running" => i = Len(q)
    BY <1>5 DEF TaskInv, LiveRecords, q
  <2> QED BY <1>3, <2>1
<1>11. LiveRecords(t)'
  <2>0. \A i \in DOMAIN q : q[i].status # "running" => i = Len(q)
    BY <1>5 DEF TaskInv, LiveRecords, q
  <2>1. \A i \in DOMAIN rest : rest[i].status # "running" => i = Len(rest)
    BY <1>3, <1>4, <2>0
  <2>2. \A r \in Queued(t)' : Says(r, t)'
    BY <1>5, <1>6, <1>9 DEF TaskInv, LiveRecords, Says
  <2>3. /\ (disk[t] # <<>> => Says(disk[t][1], t))'
        /\ disk'[t] # <<>> /\ disk'[t][1].status # "running" => queue'[t] = <<>>
    <3>1. Says(q[1], t) /\ (disk[t] # <<>> => Says(disk[t][1], t))
      BY <1>5, <1>9 DEF TaskInv, LiveRecords
    <3>2. disk[t] # <<>> /\ disk[t][1].status # "running" => q = <<>>
      BY <1>5 DEF TaskInv, LiveRecords, q
    <3>3. CASE ok
      <4>1. disk'[t] = <<q[1]>> /\ disk'[t][1] = q[1]
        BY <1>2, <3>3
      <4> QED BY <1>2, <1>4, <1>6, <1>10, <3>1, <4>1 DEF Says
    <3>4. CASE ~ok
      BY <1>1, <1>2, <1>6, <3>1, <3>2, <3>4 DEF Says
    <3> QED BY <3>3, <3>4
  <2>4. task'[t].persist /\ task'[t].phase \in {"written", "done"} =>
          /\ queue'[t] = <<>>
          /\ t \notin spoilt' => disk'[t] # <<>> /\ disk'[t][1].status = task'[t].status
    <3>1. CASE ends
      <4>1. task[t].persist => q[Len(q)].status = task[t].status /\ Len(q) = 1
        BY <1>4, <1>5, <3>1 DEF TaskInv, LiveRecords, q
      <4>2. ok => disk'[t] # <<>> /\ disk'[t][1] = q[1]
        BY <1>2
      <4> QED BY <1>2, <1>4, <1>6, <3>1, <4>1, <4>2
    <3>2. CASE ~ends
      BY <1>1, <1>2, <1>5, <1>6, <3>2 DEF TaskInv, LiveRecords, q
    <3> QED BY <3>1, <3>2
  <2>5. task'[t].persist /\ task'[t].phase = "writing" =>
          queue'[t] # <<>> /\ queue'[t][Len(queue'[t])].status = task'[t].status
    <3>1. CASE ends
      BY <1>6, <3>1
    <3>2. CASE task[t].persist /\ task[t].phase = "writing" /\ rest # <<>>
      <4>1. q[Len(q)].status = task[t].status
        BY <1>5, <3>2 DEF TaskInv, LiveRecords, q
      <4>2. Len(rest) \in DOMAIN rest /\ rest[Len(rest)] = q[Len(q)]
        BY <1>3, <1>4, <3>2
      <4> QED BY <1>2, <1>6, <3>2, <4>1, <4>2
    <3> QED BY <1>6, <3>1, <3>2
  <2>6. ~task'[t].persist =>
          /\ \A r \in Queued(t)' : r.status = "running"
          /\ disk'[t] # <<>> => disk'[t][1].status = "running"
    BY <1>2, <1>5, <1>6, <1>9 DEF TaskInv, LiveRecords
  <2>7. \A i \in DOMAIN queue'[t] : queue'[t][i].status # "running" => i = Len(queue'[t])
    BY <1>2, <2>1
  <2> QED BY <1>7, <2>2, <2>3, <2>4, <2>5, <2>6, <2>7 DEF LiveRecords
<1>12. GhostRecords(t)'
  BY <1>2, <1>5, <1>7 DEF TaskInv, GhostRecords, Live
<1>13. CallerKnows(t)'
  BY <1>2, <1>5, <1>6, <1>7, <1>9 DEF TaskInv, CallerKnows
<1>14. OneEnd(t)'
  BY <1>2, <1>5, <1>6, <1>7 DEF TaskInv, OneEnd
<1>15. Notes(t)'
  BY <1>2, <1>5, <1>6, <1>7 DEF TaskInv, Notes, MayNotify, Live
<1>16. Counted(t)'
  BY <1>2 DEF TaskInv, Counted
<1> QED BY <1>11, <1>12, <1>13, <1>14, <1>15, <1>16 DEF TaskInv

\* What is told, is told of a task that has ended and only once.
LEMMA EffectsStep ==
  ASSUME Types, NEW t \in Task, TaskInv(t), Effects(t)
  PROVE  TaskInv(t)'
<1>0. RestOK /\ EntriesOK /\ Coherent(task[t]) /\ task[t] \in TaskEntry
  BY DEF Types, EntriesOK, Coherent
<1>1. /\ task[t].phase = "written" /\ life = "up" /\ life' = life
      /\ task'[t] = [task[t] EXCEPT !.phase = "done"]
      /\ heard'[t] = heard[t] \cup {task[t].status}
      /\ note'[t] = IF MayNotify(task[t]) THEN "reading" ELSE note[t]
      /\ caller'[t] = IF task[t].detached THEN caller[t] ELSE "terminal"
      /\ queue' = queue /\ disk' = disk /\ context' = context
      /\ spoilt' = spoilt /\ unread' = unread /\ placed' = placed /\ deferrals' = deferrals
  BY <1>0 DEF Effects, Up, RestOK, EntriesOK
<1>2. /\ task'[t].status = task[t].status /\ task'[t].detached = task[t].detached
      /\ task'[t].persist = task[t].persist /\ task'[t].suppressed = task[t].suppressed
      /\ task'[t].phase = "done"
  BY <1>0, <1>1 DEF TaskEntry
<1>3. Live(t) /\ Live(t)' /\ Queued(t)' = Queued(t)
  BY <1>1, <1>2, QueuedKept DEF Live
<1>4. /\ Told(t) = {} /\ Told(t)' = {task[t].status}
      /\ heard[t] = {} /\ context[t] = <<>>
  <2>1. Told(t) = {} /\ note[t] = "none"
    BY <1>1, <1>3 DEF TaskInv, OneEnd, Notes
  <2>2. context[t] \in Seq(Verdict) /\ heard[t] = {}
      /\ {context[t][i] : i \in DOMAIN context[t]} = {}
    BY <1>0, <2>1 DEF Told, RestOK
  <2>3. context[t] = <<>>
    <3> SUFFICES ASSUME context[t] # <<>> PROVE FALSE
      OBVIOUS
    <3>1. Len(context[t]) \in Nat \ {0}
      BY <2>2, EmptySeq
    <3>2. 1 \in DOMAIN context[t]
      BY <2>2, <3>1
    <3> QED BY <2>2, <3>2
  <2>4. Told(t)' = heard'[t] \cup {context'[t][i] : i \in DOMAIN context'[t]}
    BY DEF Told
  <2> QED BY <1>1, <2>1, <2>2, <2>3, <2>4
<1>5. LiveRecords(t)'
  BY <1>1, <1>2, <1>3 DEF TaskInv, LiveRecords, Says
<1>6. GhostRecords(t)'
  BY <1>1, <1>2, <1>3 DEF TaskInv, GhostRecords
<1>7. CallerKnows(t)'
  BY <1>1, <1>2, <1>3, <1>4 DEF TaskInv, CallerKnows, MayNotify
<1>8. OneEnd(t)'
  BY <1>1, <1>2, <1>3, <1>4 DEF TaskInv, OneEnd
<1>9. Notes(t)'
  BY <1>1, <1>2, <1>3, <1>4 DEF TaskInv, Notes, MayNotify
<1>10. Counted(t)'
  BY <1>1 DEF TaskInv, Counted
<1> QED BY <1>5, <1>6, <1>7, <1>8, <1>9, <1>10 DEF TaskInv

\* A notification that has been given.
LEMMA GivenStep ==
  ASSUME Types, NEW t \in Task, TaskInv(t),
         task[t].detached, task[t].status # "running",
         Len(context[t]) <= deferrals[t] \/ t \in spoilt,
         Live(t) => task[t].phase = "done" /\ Up,
         ~Live(t) => task[t].phase = "ghost" /\ task[t].status \in Verdict,
         life \in {"restoring", "up"}, Logged(t)
  PROVE  TaskInv(t)'
<1>0. RestOK /\ EntriesOK /\ context[t] \in Seq(Verdict) /\ deferrals[t] \in Nat
  BY DEF Types, RestOK
<1>a. /\ note'[t] = "delivered" /\ context'[t] = Append(context[t], task[t].status)
      /\ life' = life /\ task' = task /\ queue' = queue /\ disk' = disk /\ caller' = caller
      /\ heard' = heard /\ spoilt' = spoilt /\ unread' = unread /\ deferrals' = deferrals
      /\ placed'[t] \in {placed[t], Len(context[t]) + 1}
  BY <1>0 DEF Logged, RestOK
<1>1. context'[t] # <<>> /\ Len(context'[t]) = Len(context[t]) + 1 /\ Len(context[t]) \in Nat
  BY <1>0, <1>a
<1>2. Told(t)' = Told(t) \cup {task[t].status}
  <2>1. /\ DOMAIN context'[t] = 1 .. Len(context[t]) + 1
        /\ context'[t][Len(context[t]) + 1] = task[t].status
        /\ \A i \in 1 .. Len(context[t]) : context'[t][i] = context[t][i]
        /\ DOMAIN context[t] = 1 .. Len(context[t]) /\ Len(context[t]) \in Nat
    BY <1>0, <1>a
  <2>2. Told(t)' = heard[t] \cup {context'[t][i] : i \in DOMAIN context'[t]}
    BY <1>a DEF Told
  <2>3. {context'[t][i] : i \in DOMAIN context'[t]}
          = {context[t][i] : i \in DOMAIN context[t]} \cup {task[t].status}
    BY <2>1
  <2> QED BY <2>2, <2>3 DEF Told
<1>3. Live(t)' = Live(t) /\ Queued(t)' = Queued(t) /\ Stray(t)' = Stray(t)
  BY <1>a, QueuedKept DEF Live, Stray
<1>4. ~Live(t) => disk[t] # <<>> /\ disk[t][1].status = task[t].status
  BY DEF TaskInv, GhostRecords, Info
<1>5. LiveRecords(t)'
  BY <1>3, <1>a DEF TaskInv, LiveRecords, Says
<1>6. GhostRecords(t)'
  BY <1>3, <1>a DEF TaskInv, GhostRecords, Info
<1>7. CallerKnows(t)'
  BY <1>3, <1>a DEF TaskInv, CallerKnows
<1>8. OneEnd(t)'
  <2>1. Live(t) => Told(t)' = {task[t].status} /\ heard[t] = {task[t].status}
    BY <1>2 DEF TaskInv, OneEnd
  <2>2. Len(context'[t]) <= 1 + deferrals[t] \/ t \in spoilt
    BY <1>0, <1>1
  <2> QED BY <1>1, <1>2, <1>3, <1>4, <1>a, <2>1, <2>2 DEF TaskInv, OneEnd
<1>9. Notes(t)'
  BY <1>1, <1>3, <1>a DEF TaskInv, Notes, MayNotify
<1>10. Counted(t)'
  <2>1. placed[t] \in Nat
    BY <1>0 DEF RestOK
  <2> QED BY <1>1, <1>a, <2>1 DEF TaskInv, Counted
<1> QED BY <1>5, <1>6, <1>7, <1>8, <1>9, <1>10 DEF TaskInv

\* A task that was running at the crash becomes lost.
LEMMA MarkLostStep ==
  ASSUME Types, NEW t \in Task, TaskInv(t), MarkLost(t)
  PROVE  TaskInv(t)'
<1> DEFINE e == [task[t] EXCEPT !.status = "lost"]
<1>0. RestOK /\ EntriesOK /\ task[t] \in TaskEntry
  BY DEF Types, EntriesOK, Coherent
<1>1. /\ task[t].phase = "ghost" /\ task[t].status = "running"
      /\ life = "marking" /\ life' = life
      /\ task'[t] = e /\ disk'[t] = <<Info(e)>> /\ note'[t] = "marked"
      /\ queue' = queue /\ caller' = caller /\ context' = context /\ heard' = heard
      /\ spoilt' = spoilt /\ unread' = unread /\ placed' = placed /\ deferrals' = deferrals
  BY <1>0 DEF MarkLost, Unmarked, Ghosts, RestOK, EntriesOK
<1>2. /\ e.status = "lost" /\ e.detached = task[t].detached /\ e.phase = "ghost"
      /\ e.suppressed = task[t].suppressed
  BY <1>0, <1>1 DEF TaskEntry
<1>3. ~Live(t) /\ ~Live(t)' /\ Told(t)' = Told(t) /\ Queued(t)' = Queued(t)
  BY <1>1, <1>2, ToldKept, QueuedKept DEF Live
<1>4. /\ disk'[t] # <<>> /\ disk'[t][1].status = "lost"
      /\ disk'[t][1].detached = task[t].detached /\ disk'[t][1] = Info(task[t])'
  BY <1>1, <1>2 DEF Info
<1>5. /\ disk[t] # <<>> /\ disk[t][1].status = "running"
      /\ disk[t][1].detached = task[t].detached
  BY <1>1 DEF TaskInv, GhostRecords, Info
<1> HIDE DEF e
<1>6. LiveRecords(t)'
  BY <1>3 DEF LiveRecords
<1>7. GhostRecords(t)'
  BY <1>1, <1>2, <1>3, <1>4 DEF TaskInv, GhostRecords
<1>8. CallerKnows(t)'
  BY <1>1, <1>2, <1>3, <1>4, <1>5 DEF TaskInv, CallerKnows
<1>9. OneEnd(t)'
  BY <1>1, <1>3, <1>4, <1>5 DEF TaskInv, OneEnd, Stray
<1>10. Notes(t)'
  BY <1>1, <1>2, <1>3 DEF TaskInv, Notes
<1>11. Counted(t)'
  BY <1>1 DEF TaskInv, Counted, Notes
<1> QED BY <1>6, <1>7, <1>8, <1>9, <1>10, <1>11 DEF TaskInv

\* A step of one task keeps that task's invariant.
LEMMA OwnStep ==
  ASSUME Types, NEW t \in Task, TaskInv(t), TaskNext(t)
  PROVE  TaskInv(t)'
<1>0. RestOK /\ EntriesOK /\ Coherent(task[t]) /\ task[t] \in TaskEntry
  BY DEF Types, EntriesOK, Coherent
<1>a. task[t].phase \in Waits => task[t].status = "running" /\ Live(t)
  BY <1>0 DEF Coherent, Waits, Live
<1>b. Running(t) => task[t].phase \in Waits
  BY <1>0 DEF Coherent, Running, Live
<1>1. ASSUME NEW detached \in BOOLEAN, Register(t, detached) PROVE TaskInv(t)'
  <2> DEFINE e == [NoTask EXCEPT !.phase = "racing", !.detached = detached,
                   !.persist = detached]
  <2>1. /\ task[t] = NoTask /\ disk[t] = <<>> /\ heard[t] = {} /\ caller[t] = "none"
        /\ task'[t] = e /\ life = "up" /\ life' = life
        /\ caller'[t] = IF detached THEN "detached" ELSE "waiting"
        /\ disk' = disk /\ note' = note /\ context' = context /\ heard' = heard
        /\ placed' = placed /\ deferrals' = deferrals /\ deferrals[t] \in Nat
        /\ IF detached THEN Write(t, e) ELSE queue' = queue
    BY <1>0, <1>1 DEF Register, Up, RestOK, EntriesOK
  <2>2. /\ e.phase = "racing" /\ e.status = "running" /\ e.detached = detached
        /\ e.persist = detached /\ Coherent(e) /\ Info(e).status = "running"
    BY DEF NoTask, Coherent, TaskEntry, Phase, Status, Waits, Info
  <2> HIDE DEF e
  <2>3. ~Live(t) /\ Live(t)' /\ Told(t)' = Told(t)
    BY <2>1, <2>2, ToldKept DEF Live, NoTask
  <2>4. queue[t] = <<>> /\ Queued(t) = {} /\ context[t] = <<>> /\ Told(t) = {}
      /\ note[t] = "none"
    <3>1. queue[t] = <<>> /\ context[t] = <<>>
      BY <2>1, <2>3 DEF TaskInv, GhostRecords, OneEnd
    <3>2. note[t] = "none"
      BY <2>1, <2>3 DEF TaskInv, CallerKnows, Notes, NoTask
    <3> QED BY <2>1, <3>1, <3>2 DEF Queued, Told
  <2>5. /\ \A r \in Queued(t)' : r.status = "running"
        /\ \A i \in DOMAIN queue'[t] : queue'[t][i].status = "running"
    <3>1. CASE detached
      BY <1>0, <2>1, <2>2, <2>4, <3>1, Added
    <3>2. CASE ~detached
      BY <2>1, <2>4, <3>2, QueuedKept
    <3> QED BY <3>1, <3>2
  <2>6. LiveRecords(t)'
    BY <2>1, <2>2, <2>3, <2>5 DEF LiveRecords, Says
  <2>7. GhostRecords(t)'
    BY <2>1, <2>2, <2>3 DEF GhostRecords
  <2>8. CallerKnows(t)'
    <3>1. \A r \in Queued(t)' : r.detached => caller'[t] = "detached"
      BY <2>1, <2>4, QueuedKept
    <3> QED BY <2>1, <2>2, <2>3, <2>4, <3>1 DEF CallerKnows
  <2>9. OneEnd(t)'
    BY <2>1, <2>2, <2>3, <2>4 DEF OneEnd
  <2>10. Notes(t)'
    BY <2>1, <2>2, <2>3, <2>4 DEF Notes
  <2>11. Counted(t)'
    BY <2>1 DEF TaskInv, Counted
  <2> QED BY <2>6, <2>7, <2>8, <2>9, <2>10, <2>11 DEF TaskInv
<1>2. CASE Detach(t)
  <2> DEFINE e == DetachedEntry(task[t])
  <2>1. Coherent(e) /\ e.phase \in Waits /\ e.detached /\ e.persist
    BY <1>0, <1>2, <1>b DEF Detach, DetachedEntry, Coherent, TaskEntry
  <2>2. task'[t] = e /\ caller'[t] = "detached" /\ Write(t, e)
    BY <1>0, <1>2 DEF Detach, EntriesOK, RestOK
  <2> HIDE DEF e
  <2> QED BY <1>2, <1>b, <2>1, <2>2, Rewritten DEF Detach
<1>3. CASE Spill(t)
  <2> DEFINE e == [task[t] EXCEPT !.persist = TRUE]
  <2>1. /\ task'[t] = e /\ e.phase = task[t].phase /\ e.status = task[t].status
        /\ e.detached = task[t].detached /\ e.suppressed = task[t].suppressed /\ e.persist
    BY <1>0, <1>3 DEF Spill, EntriesOK, TaskEntry
  <2> HIDE DEF e
  <2>2. SameRest(t) /\ task[t].phase \in Waits
    BY <1>3, <1>b DEF Spill, SameRest
  <2>3. /\ Live(t) /\ Live(t)' /\ Told(t)' = Told(t) /\ Queued(t)' = Queued(t)
        /\ Stray(t)' = Stray(t) /\ \A r : Says(r, t)' = Says(r, t)
    BY <1>a, <2>1, <2>2, ToldKept, QueuedKept DEF Live, Stray, Says, SameRest
  <2> USE <2>1, <2>2, <2>3 DEF SameRest, TaskInv, Waits
  <2>4. LiveRecords(t)'
    BY DEF LiveRecords
  <2>5. GhostRecords(t)' /\ CallerKnows(t)'
    BY DEF GhostRecords, CallerKnows
  <2>6. OneEnd(t)'
    BY DEF OneEnd
  <2>7. Notes(t)' /\ Counted(t)'
    BY DEF Notes, MayNotify, Counted
  <2> QED BY <2>4, <2>5, <2>6, <2>7
<1>4. CASE Suppress(t)
  <2> DEFINE e == [task[t] EXCEPT !.suppressed = TRUE]
  <2>1. /\ Coherent(e) /\ e.phase \in Waits /\ e.detached = task[t].detached
        /\ e.persist = task[t].persist
    BY <1>0, <1>4, <1>b DEF Suppress, Coherent, TaskEntry
  <2>2. task'[t] = e /\ Write(t, e)
    BY <1>0, <1>4 DEF Suppress, EntriesOK
  <2>3. caller'[t] = IF e.detached THEN "detached" ELSE caller[t]
    BY <1>4, <2>1 DEF Suppress, TaskInv, CallerKnows
  <2> HIDE DEF e
  <2> QED BY <1>4, <1>b, <2>1, <2>2, <2>3, Rewritten DEF Suppress
<1>5. ASSUME NEW e, NEW old, Entry(t, e), task[t].phase \in Waits, e.phase \in Waits,
             old = task[t], e.status = old.status, e.detached = old.detached,
             e.persist = old.persist, e.suppressed = old.suppressed
      PROVE  TaskInv(t)'
  <2>1. task'[t] = e /\ SameRest(t)
    BY <1>0, <1>5 DEF Entry, EntriesOK, SameRest
  <2> QED BY <1>5, <2>1, Waiting
<1>6. CASE Stop(t) \/ Timeout(t) \/ CallerAborts(t)
  <2>1. PICK e, outcome : Entry(t, Settles(e, outcome))
                         /\ e \in {task[t], [task[t] EXCEPT !.aborted = TRUE]}
    BY <1>6 DEF Stop, Timeout, CallerAborts
  <2>2. task[t].phase \in Waits
    BY <1>6, <1>b DEF Stop, Timeout, CallerAborts, Waits
  <2>3. e \in TaskEntry /\ e.phase = task[t].phase /\ e.status = task[t].status
        /\ e.detached = task[t].detached /\ e.persist = task[t].persist
        /\ e.suppressed = task[t].suppressed
    BY <1>0, <2>1 DEF TaskEntry
  <2>4. /\ Settles(e, outcome).phase \in Waits /\ Settles(e, outcome).status = e.status
        /\ Settles(e, outcome).detached = e.detached /\ Settles(e, outcome).persist = e.persist
        /\ Settles(e, outcome).suppressed = e.suppressed
    BY <2>2, <2>3 DEF Settles, TaskEntry, Waits
  <2> QED BY <1>5, <2>1, <2>2, <2>3, <2>4
<1>7. ASSUME NEW v \in {"ended", "killed"}, WorkerSettles(t, v) PROVE TaskInv(t)'
  <2> DEFINE e == [task[t] EXCEPT !.worker = v]
  <2>1. task[t].phase \in Waits /\ Entry(t, Settles(e, "worker"))
    BY <1>7 DEF WorkerSettles, Waits
  <2>2. e \in TaskEntry /\ e.phase = task[t].phase /\ e.status = task[t].status
        /\ e.detached = task[t].detached /\ e.persist = task[t].persist
        /\ e.suppressed = task[t].suppressed
    BY <1>0 DEF TaskEntry
  <2> HIDE DEF e
  <2>3. /\ Settles(e, "worker").phase \in Waits /\ Settles(e, "worker").status = e.status
        /\ Settles(e, "worker").detached = e.detached
        /\ Settles(e, "worker").persist = e.persist
        /\ Settles(e, "worker").suppressed = e.suppressed
    BY <2>1, <2>2 DEF Settles, TaskEntry, Waits
  <2> QED BY <1>5, <2>1, <2>2, <2>3
<1>8. CASE Decided(t)
  <2>1. task[t].phase \in Waits
    BY <1>8 DEF Decided, Waits
  <2>2. CASE task[t].outcome = "worker"
    <3>1. task[t].worker \in Verdict
      BY <1>0, <2>2 DEF Coherent, TaskEntry, Verdict
    <3> QED BY <1>8, <2>1, <2>2, <3>1, FinalizeStep DEF Decided
  <2>3. CASE task[t].outcome # "worker"
    <3> DEFINE e == [task[t] EXCEPT !.phase = "grace", !.aborted = TRUE]
    <3>1. /\ e.phase \in Waits /\ e.status = task[t].status /\ e.detached = task[t].detached
          /\ e.persist = task[t].persist /\ e.suppressed = task[t].suppressed
      BY <1>0 DEF TaskEntry, Waits
    <3>2. Entry(t, e)
      BY <1>8, <2>3 DEF Decided
    <3> HIDE DEF e
    <3> QED BY <1>5, <2>1, <3>1, <3>2
  <2> QED BY <2>2, <2>3
<1>9. CASE WorkerAnswered(t) \/ ForceStopped(t)
  <2>1. task[t].phase \in Waits
    BY <1>9 DEF WorkerAnswered, ForceStopped, Waits
  <2>2. PICK v \in Verdict : Finalize(t, v)
    BY <1>9 DEF WorkerAnswered, ForceStopped, Aborted, Verdict
  <2> QED BY <2>1, <2>2, FinalizeStep
<1>10. CASE GraceTimeout(t)
  <2> DEFINE e == [task[t] EXCEPT !.phase = "forcing"]
  <2>1. /\ e.phase \in Waits /\ e.status = task[t].status /\ e.detached = task[t].detached
        /\ e.persist = task[t].persist /\ e.suppressed = task[t].suppressed
    BY <1>0 DEF TaskEntry, Waits
  <2>2. Entry(t, e) /\ task[t].phase \in Waits
    BY <1>10 DEF GraceTimeout, GraceOver, Waits
  <2> HIDE DEF e
  <2> QED BY <1>5, <2>1, <2>2
<1>11. CASE Notify(t) \/ NotifyFails(t)
  <2>1. /\ note[t] = "reading" /\ life' = life /\ task' = task /\ queue' = queue /\ disk' = disk
        /\ caller' = caller /\ context' = context /\ heard' = heard /\ spoilt' = spoilt
        /\ note'[t] \in {"steered", "dropped"} /\ (t \in unread => t \in unread')
        /\ (note'[t] = "dropped" => t \in unread')
        /\ placed' = placed /\ deferrals' = deferrals /\ life = "up"
    BY <1>0, <1>11 DEF Notify, NotifyFails, RestOK, Up
  <2>2. /\ Live(t)' = Live(t) /\ Told(t)' = Told(t) /\ Queued(t)' = Queued(t)
        /\ Stray(t)' = Stray(t) /\ \A r : Says(r, t)' = Says(r, t)
    BY <2>1, ToldKept, QueuedKept DEF Live, Stray, Says
  <2>3. Live(t) /\ task[t].phase = "done" /\ caller[t] = "detached"
    BY <2>1 DEF TaskInv, Notes, CallerKnows
  <2>4. LiveRecords(t)' /\ OneEnd(t)'
    BY <2>1, <2>2 DEF TaskInv, LiveRecords, OneEnd
  <2>5. GhostRecords(t)' /\ CallerKnows(t)'
    BY <2>1, <2>2, <2>3 DEF TaskInv, GhostRecords, CallerKnows, Info
  <2>6. Notes(t)' /\ Counted(t)'
    BY <2>1, <2>2, <2>3 DEF TaskInv, Notes, MayNotify, Counted
  <2> QED BY <2>4, <2>5, <2>6 DEF TaskInv
<1>12. CASE Delivered(t)
  <2>1. Live(t) /\ task[t].phase = "done" /\ caller[t] = "detached" /\ context[t] = <<>>
    BY <1>12 DEF Delivered, TaskInv, Notes, CallerKnows
  <2>2. task[t].detached /\ task[t].status # "running"
    BY <1>0, <2>1 DEF TaskInv, CallerKnows, Coherent, Waits
  <2>3. Len(context[t]) <= deferrals[t]
    BY <1>0, <2>1 DEF RestOK
  <2> QED BY <1>12, <2>1, <2>2, <2>3, GivenStep DEF Delivered, Up
<1>13. CASE Restore(t)
  <2>1. task[t].phase = "ghost" /\ MayNotify(task[t]) /\ NotDelivered(t) /\ life = "restoring"
    BY <1>13 DEF Restore, ToRestore, Ghosts
  <2>2. task[t].status \in Verdict /\ task[t].detached /\ ~Live(t)
    BY <1>0, <2>1 DEF TaskInv, GhostRecords, TaskEntry, Status, Live, MayNotify
  <2>3. placed[t] = 0 \/ t \in spoilt
    <3> SUFFICES ASSUME t \notin spoilt, placed[t] # 0 PROVE FALSE
      OBVIOUS
    <3>1. disk[t] # <<>> /\ disk[t][1].status = task[t].status /\ ~Stray(t)
      BY <2>1, <2>2 DEF TaskInv, GhostRecords, Info, Stray
    <3>2. Told(t) \subseteq {task[t].status}
      BY <2>2, <3>1 DEF TaskInv, OneEnd
    <3>3. /\ placed[t] \in Nat \ {0} /\ placed[t] <= Len(context[t])
          /\ Len(context[t]) \in Nat /\ context[t] \in Seq(Verdict)
      BY <1>0 DEF RestOK, TaskInv, Counted
    <3>4. 1 \in DOMAIN context[t] /\ 1 \in 1 .. placed[t]
      BY <3>3
    <3> QED BY <2>1, <3>2, <3>4 DEF NotDelivered, Told
  <2>4. Len(context[t]) <= deferrals[t] \/ t \in spoilt
    BY <2>1, <2>3 DEF TaskInv, Counted, NotDelivered
  <2>5. task[t].status # "running"
    BY <2>2 DEF Verdict
  <2> QED BY <1>13, <2>1, <2>2, <2>3, <2>4, <2>5, GivenStep DEF Restore
<1> QED
  BY <1>1, <1>2, <1>3, <1>4, <1>6, <1>7, <1>8, <1>9, <1>10, <1>11, <1>12, <1>13,
     DiskWriteStep, EffectsStep, MarkLostStep DEF TaskNext

\* A step of one task leaves the others alone.
LEMMA OthersKept ==
  ASSUME Types, NEW t \in Task, TaskNext(t), NEW u \in Task, u # t
  PROVE  task'[u] = task[u] /\ SameRest(u)
<1> USE DEF Types, RestOK, EntriesOK, SameRest
<1>1. ASSUME NEW detached \in BOOLEAN, Register(t, detached)
      PROVE  task'[u] = task[u] /\ SameRest(u)
  BY <1>1 DEF Register, Write
<1>2. CASE Detach(t) \/ Spill(t) \/ Suppress(t)
  BY <1>2 DEF Detach, Spill, Suppress, Write
<1>3. ASSUME NEW v \in {"ended", "killed"},
             Stop(t) \/ Timeout(t) \/ CallerAborts(t) \/ WorkerSettles(t, v) \/ GraceTimeout(t)
      PROVE  task'[u] = task[u] /\ SameRest(u)
  BY <1>3 DEF Stop, Timeout, CallerAborts, WorkerSettles, GraceTimeout, Entry
<1>4. CASE Decided(t) \/ WorkerAnswered(t) \/ ForceStopped(t)
  <2>1. CASE \E e : Entry(t, e)
    BY <2>1 DEF Entry
  <2>2. CASE \E v : Finalize(t, v)
    BY <2>2 DEF Finalize, Write
  <2> QED BY <1>4, <2>1, <2>2 DEF Decided, WorkerAnswered, ForceStopped
<1>5. ASSUME NEW ok \in BOOLEAN, DiskWrite(t, ok)
      PROVE  task'[u] = task[u] /\ SameRest(u)
  <2>1. /\ life' = life /\ note' = note /\ caller' = caller /\ context' = context
        /\ placed' = placed /\ deferrals' = deferrals /\ heard' = heard /\ unread' = unread
        /\ spoilt' = spoilt \/ spoilt' = spoilt \cup {t}
    BY <1>5 DEF DiskWrite
  <2>2. PICK i \in NextWrite(t) :
          LET rest == SubSeq(queue[t], 1, i - 1) \o SubSeq(queue[t], i + 1, Len(queue[t])) IN
          /\ queue' = [queue EXCEPT ![t] = rest]
          /\ disk' = IF ok THEN [disk EXCEPT ![t] = <<queue[t][i]>>] ELSE disk
          /\ task' = IF rest = <<>> /\ task[t].phase = "writing"
                     THEN [task EXCEPT ![t].phase = "written"] ELSE task
    BY <1>5 DEF DiskWrite
  <2>3. queue'[u] = queue[u]
    BY <2>2
  <2>4. disk'[u] = disk[u]
    BY <2>2
  <2>5. task'[u] = task[u]
    BY <2>2
  <2> QED BY <2>1, <2>3, <2>4, <2>5
<1>6. CASE Effects(t) \/ Notify(t) \/ NotifyFails(t) \/ Delivered(t)
  BY <1>6 DEF Effects, Notify, NotifyFails, Delivered, Logged
<1>7. CASE MarkLost(t) \/ Restore(t)
  BY <1>7 DEF MarkLost, Restore, Logged
<1> QED BY <1>1, <1>2, <1>3, <1>4, <1>5, <1>6, <1>7 DEF TaskNext

\* The process dies, or its reconciliation fails: what is not on disk is gone.
LEMMA DownStep ==
  ASSUME Types, Types', NEW t \in Task, TaskInv(t), Crash \/ ReconcileFails
  PROVE  TaskInv(t)'
<1>0. RestOK /\ EntriesOK /\ Coherent(task[t]) /\ task[t] \in TaskEntry
  BY DEF Types, EntriesOK, Coherent
<1>a. Types'
  OBVIOUS
<1>1. /\ life' = "down" /\ task'[t] = NoTask /\ note'[t] = "none"
      /\ disk' = disk /\ heard' = heard /\ spoilt' = spoilt /\ deferrals' = deferrals
      /\ caller'[t] \in {caller[t], "dead"}
      /\ (caller'[t] = "dead" => caller[t] \in {"waiting", "dead"})
      /\ caller'[t] # "waiting"
  <2>1. CASE Crash
    BY <1>0, <2>1 DEF Crash, RestOK
  <2>2. CASE ReconcileFails
    BY <1>0, <2>2 DEF ReconcileFails, TaskInv, CallerKnows, GhostRecords
  <2> QED BY <2>1, <2>2
<1>2. queue'[t] = <<>> /\ ~Live(t)'
  BY <1>1 DEF Crash, ReconcileFails, TaskInv, GhostRecords, Live, NoTask
<1>3. /\ Told(t)' \subseteq Told(t)
      /\ Len(context'[t]) <= Len(context[t])
      /\ context[t] = <<>> => context'[t] = <<>>
  <2>1. CASE context'[t] = context[t]
    BY <1>1, <2>1, ToldKept
  <2>2. CASE context'[t] = SubSeq(context[t], 1, Len(context[t]) - 1)
    <3>1. context[t] \in Seq(Verdict) /\ Len(context[t]) \in Nat
      BY <1>0 DEF RestOK
    <3>2. /\ DOMAIN context'[t] = 1 .. Len(context[t]) - 1
          /\ \A i \in 1 .. Len(context[t]) - 1 : context'[t][i] = context[t][i]
      BY <2>2, <3>1
    <3>3. DOMAIN context[t] = 1 .. Len(context[t])
      BY <3>1
    <3>4. Told(t)' \subseteq Told(t)
      BY <1>1, <3>1, <3>2, <3>3 DEF Told
    <3>5. /\ Len(context'[t]) <= Len(context[t])
          /\ context[t] = <<>> => context'[t] = <<>>
      BY <2>2, <3>1
    <3> QED BY <3>4, <3>5
  <2>3. context'[t] = context[t] \/ context'[t] = SubSeq(context[t], 1, Len(context[t]) - 1)
    BY <1>0 DEF Crash, ReconcileFails, RestOK
  <2> QED BY <2>1, <2>2, <2>3
<1>4. LiveRecords(t)'
  BY <1>2 DEF LiveRecords
<1>5. GhostRecords(t)'
  BY <1>1, <1>2 DEF GhostRecords, NoTask
<1>6. CallerKnows(t)'
  BY <1>1, <1>2, <1>3 DEF TaskInv, CallerKnows, Queued, NoTask, Notes
<1>7. OneEnd(t)'
  <2>1. disk[t] = <<>> => \A v, w \in Told(t) : v = w
    BY DEF TaskInv, OneEnd
  <2>2. disk[t] # <<>> /\ t \notin spoilt /\ ~Stray(t) =>
       Told(t) \subseteq {disk[t][1].status} \ {"running"}
    <3>1. CASE ~Live(t) \/ task[t].phase # "done"
      BY <3>1 DEF TaskInv, OneEnd
    <3>2. CASE Live(t) /\ task[t].phase = "done" /\ task[t].persist
      BY <1>0, <3>2 DEF TaskInv, OneEnd, LiveRecords, Coherent, Waits
    <3>3. CASE Live(t) /\ task[t].phase = "done" /\ ~task[t].persist
      <4>1. disk[t] # <<>> => disk[t][1].status = "running" /\ ~disk[t][1].detached
        BY <1>0, <3>3 DEF TaskInv, LiveRecords, CallerKnows, Coherent, TaskEntry
      <4> QED BY <4>1 DEF Stray
    <3> QED BY <3>1, <3>2, <3>3 DEF TaskEntry
  <2>3. Stray(t)' = Stray(t)
    BY <1>1 DEF Stray
  <2>4. context'[t] # <<>> => heard[t] # {} \/ disk[t] # <<>>
    BY <1>3 DEF TaskInv, OneEnd
  <2>5. Len(context'[t]) <= 1 + deferrals[t] \/ t \in spoilt
    <3>1. Len(context'[t]) \in Nat /\ Len(context[t]) \in Nat /\ deferrals[t] \in Nat
      BY <1>0, <1>a DEF Types, RestOK
    <3> QED BY <1>3, <3>1 DEF TaskInv, OneEnd
  <2> QED BY <1>1, <1>2, <1>3, <2>1, <2>2, <2>3, <2>4, <2>5 DEF OneEnd
<1>8. Notes(t)'
  BY <1>1, <1>2 DEF Notes, NoTask
<1>9. Counted(t)'
  <2>1. CASE ReconcileFails
    BY <1>1, <2>1 DEF ReconcileFails, TaskInv, Counted
  <2>2. CASE Crash
    <3>1. Len(context'[t]) \in Nat /\ placed[t] \in Nat
      BY <1>0, <1>a DEF RestOK, Types
    <3>2. placed'[t] \in {Len(context'[t]), Smaller(placed[t], Len(context'[t]))}
      BY <2>2 DEF Crash, AllPlaced, StillOpen
    <3>3. placed'[t] <= Len(context'[t])
      BY <3>1, <3>2 DEF Smaller
    <3> QED BY <1>1, <3>3 DEF Counted
  <2> QED BY <2>1, <2>2
<1> QED BY <1>4, <1>5, <1>6, <1>7, <1>8, <1>9 DEF TaskInv

\* After loadFromDisk a task is what the disk says.
LEMMA LoadStep ==
  ASSUME Types, NEW t \in Task, TaskInv(t), Load
  PROVE  TaskInv(t)'
<1>0. RestOK /\ (disk[t] # <<>> => disk[t][1] \in Record)
  BY DEF Types, RestOK
<1>1. /\ life = "down" /\ life' = "marking" /\ queue' = queue /\ disk' = disk /\ note' = note
      /\ caller' = caller /\ context' = context /\ heard' = heard /\ spoilt' = spoilt
      /\ placed' = placed
      /\ deferrals'[t] = IF placed[t] < Len(context[t]) THEN deferrals[t] + 1 ELSE deferrals[t]
  BY <1>0 DEF Load, RestOK
<1>a. Len(context[t]) \in Nat /\ placed[t] \in Nat /\ deferrals[t] \in Nat
  BY <1>0 DEF RestOK
<1>2. disk[t] = <<>> => task'[t] = NoTask
  BY DEF Load
<1>3. disk[t] # <<>> => task'[t].phase = "ghost" /\ Info(task[t])' = disk[t][1]
                        /\ task'[t].detached = disk[t][1].detached
  <2> DEFINE e == [NoTask EXCEPT !.phase = "ghost", !.status = disk[t][1].status,
                                 !.detached = disk[t][1].detached,
                                 !.suppressed = disk[t][1].suppressed]
  <2>1. disk[t] # <<>> => task'[t] = e
    BY DEF Load
  <2>2. /\ e.phase = "ghost" /\ e.status = disk[t][1].status /\ e.detached = disk[t][1].detached
        /\ e.suppressed = disk[t][1].suppressed
    BY DEF NoTask
  <2> HIDE DEF e
  <2> QED BY <1>0, <2>1, <2>2 DEF Info, Record
<1>4. /\ ~Live(t) /\ ~Live(t)' /\ Told(t)' = Told(t) /\ Queued(t)' = Queued(t)
      /\ Stray(t)' = Stray(t) /\ note[t] = "none"
  BY <1>1, <1>2, <1>3, ToldKept, QueuedKept
     DEF TaskInv, GhostRecords, Notes, Live, Stray, NoTask
<1>5. LiveRecords(t)'
  BY <1>4 DEF LiveRecords
<1>6. GhostRecords(t)'
  BY <1>1, <1>2, <1>3, <1>4 DEF TaskInv, GhostRecords, NoTask
<1>7. CallerKnows(t)'
  BY <1>1, <1>2, <1>3, <1>4 DEF TaskInv, CallerKnows, NoTask
<1>8. OneEnd(t)'
  BY <1>1, <1>4, <1>a DEF TaskInv, OneEnd
<1>9. Notes(t)'
  BY <1>1, <1>4 DEF TaskInv, Notes
<1>10. Counted(t)'
  <2>1. Len(context[t]) <= 1 + deferrals[t] \/ t \in spoilt
    BY DEF TaskInv, OneEnd
  <2> QED BY <1>1, <1>a, <2>1 DEF TaskInv, Counted
<1> QED BY <1>5, <1>6, <1>7, <1>8, <1>9, <1>10 DEF TaskInv

\* The two announcements of reconcile.
LEMMA ReconcileStep ==
  ASSUME Types, NEW t \in Task, TaskInv(t), Marked \/ Restored
  PROVE  TaskInv(t)'
<1>0. RestOK /\ EntriesOK
  BY DEF Types
<1>1. /\ task' = task /\ queue' = queue /\ disk' = disk /\ note' = note /\ caller' = caller
      /\ context' = context /\ spoilt' = spoilt /\ unread' = unread
      /\ placed' = placed /\ deferrals' = deferrals
  BY DEF Marked, Restored
<1>2. ~Live(t) /\ ~Live(t)' /\ Queued(t)' = Queued(t) /\ Stray(t)' = Stray(t)
  BY <1>1, QueuedKept DEF Marked, Restored, TaskInv, GhostRecords, Live, Stray
<1>3. LiveRecords(t)'
  BY <1>2 DEF LiveRecords
<1>4. GhostRecords(t)'
  BY <1>1, <1>2 DEF Marked, Restored, Unmarked, Ghosts, TaskInv, GhostRecords, Info
<1>5. /\ heard'[t] = heard[t] \/ (note[t] = "marked" /\ heard'[t] = heard[t] \cup {"lost"})
      /\ disk[t] # <<>> \/ heard'[t] = heard[t]
  <2>1. CASE Marked
    BY <2>1 DEF Marked, TaskInv, Notes, GhostRecords
  <2>2. CASE Restored
    BY <2>2 DEF Restored
  <2> QED BY <2>1, <2>2
<1>6. CallerKnows(t)'
  BY <1>1, <1>2, <1>5 DEF TaskInv, CallerKnows
<1>7. OneEnd(t)'
  <2>1. Told(t)' = heard'[t] \cup {context[t][i] : i \in DOMAIN context[t]}
    BY <1>1 DEF Told
  <2>2. CASE heard'[t] = heard[t]
    BY <1>1, <1>2, <2>2, ToldKept DEF TaskInv, OneEnd
  <2>3. CASE note[t] = "marked" /\ heard'[t] = heard[t] \cup {"lost"} /\ disk[t] # <<>>
    <3>1. Told(t)' = Told(t) \cup {"lost"}
      BY <2>1, <2>3 DEF Told
    <3>2. disk[t][1].status = "lost"
      BY <2>3 DEF TaskInv, Notes, GhostRecords, Info
    <3> QED BY <1>1, <1>2, <2>3, <3>1, <3>2 DEF TaskInv, OneEnd
  <2> QED BY <1>5, <2>2, <2>3
<1>8. Notes(t)'
  <2>1. life' \in {"restoring", "up"} /\ (life' = "up" => Restored)
    BY DEF Marked, Restored
  <2>2. ASSUME Restored, task[t].phase = "ghost", MayNotify(task[t]) PROVE context[t] # <<>>
    <3>1. ~NotDelivered(t)
      BY <2>2 DEF Restored, ToRestore, Ghosts
    <3>2. CASE note[t] = "delivered"
      BY <3>2 DEF TaskInv, Notes
    <3>3. CASE \E i \in 1 .. placed[t] : context[t][i] = task[t].status
      <4>1. placed[t] \in Nat \ {0} /\ placed[t] <= Len(context[t])
        BY <1>0, <3>3 DEF RestOK, TaskInv, Counted
      <4> QED BY <4>1
    <3> QED BY <3>1, <3>2, <3>3 DEF NotDelivered
  <2> QED BY <1>1, <1>2, <2>1, <2>2 DEF TaskInv, Notes, MayNotify
<1>9. Counted(t)'
  BY <1>1 DEF Marked, Restored, TaskInv, Counted
<1> QED BY <1>3, <1>4, <1>6, <1>7, <1>8, <1>9 DEF TaskInv

\* No action disturbs the invariant of any task.
LEMMA Inductive ==
  Types /\ (\A t \in Task : TaskInv(t)) /\ [Next]_vars => \A t \in Task : TaskInv(t)'
<1> SUFFICES ASSUME Types, \A t \in Task : TaskInv(t), [Next]_vars, NEW u \in Task
             PROVE  TaskInv(u)'
  OBVIOUS
<1>1. ASSUME NEW t \in Task, TaskNext(t) PROVE TaskInv(u)'
  BY <1>1, OwnStep, OthersKept, Kept
<1>2. CASE UNCHANGED vars
  BY <1>2, Kept DEF vars, SameRest
<1>3. Types'
  BY TypeStep
<1> QED BY <1>1, <1>2, <1>3, DownStep, LoadStep, ReconcileStep DEF Next

\* Nobody has been told anything when the manager is new.
LEMMA InitIInv == Init => IInv
<1> SUFFICES ASSUME Init PROVE IInv
  OBVIOUS
<1> USE BackgroundAssumption DEF Init
<1>1. Coherent(NoTask)
  BY DEF Coherent, NoTask, TaskEntry, Phase, Status
<1>2. EntriesOK
  BY <1>1 DEF EntriesOK, Coherent
<1>3. RestOK
  BY DEF RestOK
<1>4. ASSUME NEW t \in Task PROVE TaskInv(t)
  <2>1. /\ task[t] = NoTask /\ task[t].phase = "none" /\ ~task[t].detached /\ ~Live(t)
        /\ Told(t) = {} /\ Queued(t) = {}
    BY DEF NoTask, Live, Told, Queued
  <2>2. LiveRecords(t) /\ GhostRecords(t)
    BY <2>1 DEF LiveRecords, GhostRecords
  <2>3. CallerKnows(t)
    BY <2>1 DEF CallerKnows
  <2>4. OneEnd(t) /\ Notes(t)
    BY <2>1 DEF OneEnd, Notes
  <2>5. Counted(t)
    BY DEF Counted
  <2> QED BY <2>2, <2>3, <2>4, <2>5 DEF TaskInv
<1> QED BY <1>2, <1>3, <1>4 DEF IInv, Types

\* The inductive invariant: the types, and of each task what its records, its caller and
\* its notification have to do with one another.
THEOREM Invariant == Spec => []IInv
<1>1. IInv /\ [Next]_vars => IInv'
  BY TypeStep, Inductive DEF IInv
<1> QED BY <1>1, InitIInv, PTL DEF Spec

\* Things that are all the same are one at most.
LEMMA AtMostOne ==
  ASSUME NEW S, \A v, w \in S : v = w
  PROVE  Cardinality(S) <= 1
<1>1. CASE S = {}
  BY <1>1, FS_EmptySet
<1>2. CASE S # {}
  <2>1. PICK v \in S : TRUE
    BY <1>2
  <2>2. S = {v}
    BY <2>1
  <2> QED BY <2>2, FS_Singleton
<1> QED BY <1>1, <1>2

\* A task has one end, told once, as a result or as a notification, however often the
\* process dies.
THEOREM OneHearing == Spec => []HeardOnce
<1>1. ASSUME IInv PROVE HeardOnce
  <2>1. TypeOK
    BY <1>1, TypesOK DEF IInv
  <2>2. ASSUME NEW t \in Task, t \notin spoilt, ~Stray(t)
        PROVE  Len(context[t]) <= 1 + deferrals[t] /\ Cardinality(Told(t)) <= 1
    <3>1. OneEnd(t)
      BY <1>1 DEF IInv, TaskInv
    <3>2. \A v, w \in Told(t) : v = w
      BY <2>2, <3>1 DEF OneEnd
    <3> QED BY <2>2, <3>1, <3>2, AtMostOne DEF OneEnd
  <2>3. ToldOnce
    BY <2>2 DEF ToldOnce, Told
  <2>4. HeardOneWay
    BY <1>1 DEF IInv, TaskInv, CallerKnows, HeardOneWay
  <2> QED BY <2>1, <2>3, <2>4 DEF HeardOnce
<1> QED BY <1>1, Invariant, PTL

\* The end of a task nobody waits for reaches the agent's history, after any crash.
THEOREM AllTold == Spec => []NothingUntold
<1>1. ASSUME IInv PROVE NothingUntold
  <2> SUFFICES ASSUME Up, NEW t \in Task, t \notin unread, MayNotify(task[t]),
                      task[t].phase \in {"done", "ghost"}
               PROVE  note[t] \in {"reading", "steered"} \/ context[t] # <<>>
    BY DEF NothingUntold
  <2>1. /\ Notes(t)
        /\ note[t] \in {"none", "marked", "reading", "steered", "delivered", "dropped"}
    BY <1>1 DEF IInv, TaskInv, Types, RestOK
  <2>2. CASE task[t].phase = "ghost"
    BY <2>1, <2>2 DEF Notes, Up
  <2>3. CASE task[t].phase = "done"
    BY <2>1, <2>3 DEF Notes, Live
  <2> QED BY <2>2, <2>3
<1> QED BY <1>1, Invariant, PTL

\* The end of a task that is on disk is never overwritten, whatever was queued before it.
THEOREM EndKept == Spec => VerdictKept
<1> DEFINE Kept1 == \A t \in Task : disk[t] # <<>> /\ disk[t][1].status # "running" =>
                                      disk'[t] = disk[t]
<1>1. ASSUME IInv, [Next]_vars PROVE Kept1
  <2> SUFFICES ASSUME NEW u \in Task, disk[u] # <<>>, disk[u][1].status # "running"
               PROVE  disk'[u] = disk[u]
    OBVIOUS
  <2>0. TaskInv(u) /\ RestOK
    BY <1>1 DEF IInv, Types
  <2>1. queue[u] = <<>>
    BY <2>0 DEF TaskInv, LiveRecords, GhostRecords
  <2>2. ASSUME NEW t \in Task, NEW ok \in BOOLEAN, DiskWrite(t, ok) PROVE disk'[u] = disk[u]
    <3>1. queue[t] # <<>>
      BY <2>2 DEF DiskWrite, NextWrite
    <3>2. disk' = disk \/ \E r : disk' = [disk EXCEPT ![t] = <<r>>]
      BY <2>2 DEF DiskWrite
    <3> QED BY <2>0, <2>1, <3>1, <3>2 DEF RestOK
  <2>3. ASSUME NEW t \in Task, MarkLost(t) PROVE disk'[u] = disk[u]
    <3>1. task[t].phase = "ghost" /\ task[t].status = "running"
      BY <2>3 DEF MarkLost, Unmarked, Ghosts
    <3>2. task[u].phase = "ghost" => task[u].status # "running"
      BY <2>0 DEF TaskInv, GhostRecords, Info
    <3> QED BY <2>0, <2>3, <3>1, <3>2 DEF MarkLost, RestOK
  <2>4. ASSUME NEW t \in Task, TaskNext(t) PROVE disk'[u] = disk[u]
    BY <2>2, <2>3, <2>4
       DEF TaskNext, Register, Detach, Spill, Suppress, Stop, Timeout, CallerAborts, Entry,
           WorkerSettles, Decided, WorkerAnswered, GraceTimeout, ForceStopped, Finalize,
           Effects, Notify, NotifyFails, Delivered, Restore, Logged
  <2> QED BY <1>1, <2>4 DEF Next, Crash, Load, Marked, ReconcileFails, Restored, vars
<1> QED BY <1>1, Invariant, PTL DEF Spec, VerdictKept
=============================================================================
