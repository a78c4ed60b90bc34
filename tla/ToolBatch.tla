------------------------------ MODULE ToolBatch ------------------------------
(***************************************************************************)
(* One step's tool calls: runToolCallBatch (loop/tool-call.ts) preparing   *)
(* the calls in provider order, the ToolScheduler (loop/tool-scheduler.ts) *)
(* overlapping those whose accesses do not conflict, the same-step         *)
(* deduplicator (agent/turn/tool-dedup.ts) answering repeats, and the      *)
(* abort signal with its grace timeout.                                    *)
(*                                                                         *)
(* Calls are numbered in provider order.  What a call resolves to (its     *)
(* dedup key, its accesses) and how its preparation and its execution end  *)
(* are chosen by the environment.  The stopTurn flag the batch returns, a  *)
(* disjunction of the flags of its results, is left out.                   *)
(***************************************************************************)
EXTENDS ToolAccess, FiniteSets

CONSTANTS N,          \* the number of tool calls in the response
          Key,        \* dedup keys: tool name with canonical arguments
          NoKey,      \* the key of a call the deduplicator has not seen
          AccessSets, \* the access declarations a call may resolve to
          Depth       \* the length of the paths that are compared with each other

ASSUME BatchAssumption ==
  /\ N \in Nat /\ Depth \in Nat
  /\ NoKey \notin Key
  /\ AccessSets \subseteq SUBSET Access

Call == 1 .. N

\* How the preparation of a call ended.
Fate == {"none", "rejected", "duplicate", "error", "aborted", "synthetic",
         "skipped", "run"}
\* Where the scheduler has a call.
Place == {"none", "queued", "active", "finished"}
\* What a call's task settled with, before and after finalizeToolResult.
Result == {"none", "ok", "error", "aborted", "placeholder", "hookfail"}
Stage == {"prepare", "authorize", "dispatch", "add", "drain",
          "unwind", "done", "thrown"}

VARIABLES
  access,    \* access[c]: what c's task declares; {} unless c runs a tool
  key,       \* key[c]: the dedup key c was registered with
  stage,     \* where runToolCallBatch is
  cursor,    \* the call being prepared, then the call whose result is next
  fate,      \* fate[c]: how the preparation of c ended
  stopping,  \* some prepared call said stopBatchAfterThis
  place,     \* place[c]: c in the scheduler's activeTasks or queuedTasks
  exec,      \* exec[c]: the tool itself: "no", "running" or "ended"
  result,    \* result[c]: what c's task promise settled with
  shown,     \* shown[c]: the result dispatched for c
  original,  \* original[k]: the first call of key k this step, 0 if none
  deferred,  \* deferred[k]: what the dedup deferred of k resolved to
  log,       \* the tool.call and tool.result events dispatched
  aborted    \* the turn's signal

loopVars  == <<stage, cursor, fate, stopping, log>>
schedVars == <<place, exec, result>>
dedupVars == <<key, original, deferred, shown>>
vars == <<access, key, stage, cursor, fate, stopping, place, exec, result,
          shown, original, deferred, log, aborted>>

TypeOK ==
  /\ access \in [Call -> AccessSets \cup {{}}]
  /\ key \in [Call -> Key \cup {NoKey}]
  /\ stage \in Stage
  /\ cursor \in 1 .. N + 1 /\ (stage # "done" => cursor <= N)
  /\ fate \in [Call -> Fate]
  /\ stopping \in BOOLEAN
  /\ place \in [Call -> Place]
  /\ exec \in [Call -> {"no", "running", "ended"}]
  /\ result \in [Call -> Result]
  /\ shown \in [Call -> Result]
  /\ original \in [Key -> 0 .. N]
  /\ deferred \in [Key -> Result]
  /\ log \in Seq([event : {"call", "result"}, id : Call])
  /\ aborted \in BOOLEAN

Init ==
  /\ access = [c \in Call |-> {}]
  /\ key = [c \in Call |-> NoKey]
  /\ stage = IF N = 0 THEN "done" ELSE "prepare"
  /\ cursor = 1
  /\ fate = [c \in Call |-> "none"]
  /\ stopping = FALSE
  /\ place = [c \in Call |-> "none"]
  /\ exec = [c \in Call |-> "no"]
  /\ result = [c \in Call |-> "none"]
  /\ shown = [c \in Call |-> "none"]
  /\ original = [k \in Key |-> 0]
  /\ deferred = [k \in Key |-> "none"]
  /\ log = <<>>
  /\ aborted = FALSE
-----------------------------------------------------------------------------
(* The scheduler.  Calls are added in provider order, so queuedTasks is    *)
(* the set of queued calls in the order of their numbers.                  *)

Queued == {c \in Call : place[c] = "queued"}
Active == {c \in Call : place[c] = "active"}

\* Only a call that was prepared to run declares accesses; every other task
\* is an already resolved promise that touches nothing.
Conflicts(c, d) == Conflict(access[c], access[d])

\* Mutant: only running calls hold c back.
IsBlockedByActive(c, active, queuedBefore) == \E d \in active : Conflicts(c, d)

\* isBlocked: c has to wait for a call that runs or that waits before it.
IsBlocked(c, active, queuedBefore) ==
  \E d \in active \cup queuedBefore : Conflicts(c, d)

\* Mutants: the queue is not looked at again; a queued call is held back by
\* itself.
StartNone(active, queued) == {}
StartableBeyondSelf(active, queued) ==
  {c \in queued : ~ IsBlocked(c, active, {d \in queued : d <= c})}

\* Which queued calls startQueuedTasks starts once the active set is given.
\* A queued call passed over stays ahead of the later ones, and one just
\* started has become active: either way the later ones are held behind it.
Startable(active, queued) ==
  {c \in queued : ~ IsBlocked(c, active, {d \in queued : d < c})}

\* Mutant: runRunnableToolCall does not look at the signal.
EntersAnyway(c) == fate[c] = "run"

\* A started call enters its tool in the same synchronous frame unless the
\* signal is already aborted (runRunnableToolCall, executeTool).
EntersTool(c) == fate[c] = "run" /\ ~ aborted

\* What a task that enters no tool settles with.
SettledAs(f) ==
  CASE f \in {"run", "aborted"} -> "aborted"
    [] f = "duplicate"          -> "placeholder"
    [] f = "synthetic"          -> "ok"
    [] OTHER                    -> "error"

\* start: the tool is entered, or the task settles at once (a promise that
\* is already resolved, a run that finds the signal aborted).
StartAll(started) ==
  /\ exec' = [c \in Call |->
       IF c \in started /\ EntersTool(c) THEN "running" ELSE exec[c]]
  /\ result' = [c \in Call |->
       IF c \notin started THEN result[c]
       ELSE IF EntersTool(c) THEN "none" ELSE SettledAs(fate[c])]
-----------------------------------------------------------------------------
(* Preparing the calls, in provider order.                                 *)

\* The call being prepared is settled without running its tool.
Settle(f) ==
  /\ fate' = [fate EXCEPT ![cursor] = f]
  /\ stage' = "dispatch"

\* preflightToolCall refused the call: unknown tool or invalid arguments.
\* The dedup hook never sees it.
Reject ==
  /\ stage = "prepare" /\ ~ stopping
  /\ Settle("rejected")
  /\ UNCHANGED <<cursor, stopping, log, aborted>>
  /\ UNCHANGED <<access, schedVars, dedupVars>>

\* prepareToolExecution: checkSameStep recognises a repeat of this step and
\* answers with the placeholder.
Deduplicate(k) ==
  /\ stage = "prepare" /\ ~ stopping
  /\ original[k] # 0
  /\ key' = [key EXCEPT ![cursor] = k]
  /\ Settle("duplicate")
  /\ UNCHANGED <<cursor, stopping, log, aborted, access>>
  /\ UNCHANGED <<schedVars, original, deferred, shown>>

\* checkSameStep finds no deferred for the key.
FirstOfKey(k) == original[k] = 0

\* prepareToolExecution registers the first call of its key, then the tool
\* resolves its execution: resolveExecution throws, or the abort is seen, or
\* it answers with an error result (which may stop the batch), or the call
\* goes on to be authorized.
Resolve(k) ==
  /\ stage = "prepare" /\ ~ stopping
  /\ FirstOfKey(k)
  /\ key' = [key EXCEPT ![cursor] = k]
  /\ original' = [original EXCEPT ![k] = cursor]
  /\ \/ Settle("error") /\ UNCHANGED stopping
     \/ aborted /\ Settle("aborted") /\ UNCHANGED stopping
     \/ ~ aborted /\ Settle("error") /\ stopping' = TRUE
     \/ ~ aborted /\ stage' = "authorize" /\ UNCHANGED <<fate, stopping>>
  /\ UNCHANGED <<cursor, log, aborted, access, deferred, shown>>
  /\ UNCHANGED schedVars

\* authorizeToolExecution (the permission check) answered: blocked, answered
\* with a synthetic result, or allowed.  An abort while it was awaited wins.
Authorize ==
  /\ stage = "authorize"
  /\ \/ /\ \/ aborted /\ Settle("aborted") /\ UNCHANGED stopping
           \/ ~ aborted /\ Settle("error") /\ UNCHANGED stopping
           \/ ~ aborted /\ Settle("synthetic") /\ stopping' \in BOOLEAN
        /\ UNCHANGED access
     \/ /\ ~ aborted
        /\ Settle("run")
        /\ stopping' \in BOOLEAN
        /\ \E declared \in AccessSets :
             access' = [access EXCEPT ![cursor] = declared]
  /\ UNCHANGED <<cursor, log, aborted>>
  /\ UNCHANGED <<schedVars, dedupVars>>

\* prepareSkippedToolCall: an earlier call stopped the batch.
Skip ==
  /\ stage = "prepare" /\ stopping
  /\ Settle("skipped")
  /\ UNCHANGED <<cursor, stopping, log, aborted>>
  /\ UNCHANGED <<access, schedVars, dedupVars>>

\* Mutant: skipped calls are not recorded.
RecordedUnlessSkipped ==
  IF fate[cursor] = "skipped" THEN log
  ELSE Append(log, [event |-> "call", id |-> cursor])

\* The transcript once tool.call is written for the current call.
Recorded == Append(log, [event |-> "call", id |-> cursor])

\* dispatchToolCall records tool.call before the call is scheduled.
DispatchCall ==
  /\ stage = "dispatch"
  /\ log' = Recorded
  /\ stage' = "add"
  /\ UNCHANGED <<cursor, fate, stopping, aborted>>
  /\ UNCHANGED <<access, schedVars, dedupVars>>

\* scheduler.add, then on to the next call or to draining the results.
Add ==
  /\ stage = "add"
  /\ LET blocked == IsBlocked(cursor, Active, Queued)
     IN  /\ place' = [place EXCEPT ![cursor] =
                        IF blocked THEN "queued" ELSE "active"]
         /\ StartAll(IF blocked THEN {} ELSE {cursor})
  /\ IF cursor = N
     THEN stage' = "drain" /\ cursor' = 1
     ELSE stage' = "prepare" /\ cursor' = cursor + 1
  /\ UNCHANGED <<fate, stopping, log, aborted>>
  /\ UNCHANGED <<dedupVars, access>>
-----------------------------------------------------------------------------
(* Running the tools.                                                      *)

\* The tool's promise settles.  If its task is still waiting for it this is
\* the task's result; after the grace timeout nobody listens any more.
ToolReturns(c) ==
  /\ exec[c] = "running"
  /\ exec' = [exec EXCEPT ![c] = "ended"]
  /\ IF result[c] = "none"
     THEN \/ result' = [result EXCEPT ![c] = "ok"]
          \/ result' = [result EXCEPT ![c] =
                          IF aborted THEN "aborted" ELSE "error"]
     ELSE UNCHANGED result
  /\ UNCHANGED <<place, loopVars, dedupVars, access, aborted>>

\* Mutant: nothing is raced against the tool.
NoGrace(c) == FALSE

\* The grace timer of c, armed by the abort, has not been cleared.
GraceArmed(c) == aborted /\ exec[c] = "running" /\ result[c] = "none"

\* raceExecuteWithGraceTimeout: the tool ignored the abort, so the task
\* settles with a synthetic error while the tool may still be running.
GraceTimeout(c) ==
  /\ GraceArmed(c)
  /\ result' = [result EXCEPT ![c] = "error"]
  /\ UNCHANGED <<place, exec, loopVars, dedupVars, access, aborted>>

\* finish: the settled task leaves activeTasks and the queued tasks it held
\* back are started, in the same frame.
Finish(c) ==
  /\ place[c] = "active" /\ result[c] # "none"
  /\ LET started == Startable(Active \ {c}, Queued)
     IN  /\ place' = [d \in Call |->
               IF d = c THEN "finished"
               ELSE IF d \in started THEN "active" ELSE place[d]]
         /\ StartAll(started)
  /\ UNCHANGED <<loopVars, dedupVars, access, aborted>>

\* The user, a deadline or a parent cancels the turn.
Abort ==
  /\ ~ aborted /\ stage \notin {"done", "thrown"}
  /\ aborted' = TRUE
  /\ UNCHANGED <<loopVars, schedVars, dedupVars, access>>
-----------------------------------------------------------------------------
(* Draining the results, in provider order.                                *)

\* finalizeResult of the deduplicator: a repeat takes the value its original
\* resolved the deferred with, everything else keeps its own result.
Finalized(c) ==
  IF fate[c] = "duplicate" THEN deferred[key[c]] ELSE result[c]

\* c is the first call of its key, whose deferred it resolves.
IsOriginal(c) == key[c] # NoKey /\ original[key[c]] = c

\* Mutant: the size budget is applied first and its failure skips the rest.
DeferredsAfterBudget(c, final) ==
  IF IsOriginal(c) /\ final # "hookfail"
  THEN [deferred EXCEPT ![key[c]] = result[c]] ELSE deferred

\* The deferreds once c has been finalized as final: an original resolves
\* its own before the size budget, which may fail, is applied.
Deferreds(c, final) ==
  IF IsOriginal(c) THEN [deferred EXCEPT ![key[c]] = result[c]] ELSE deferred

\* Mutant: the loop runs one call too far.
PastLast(c) == c > N

\* The result just dispatched was the last one.
LastResult(c) == c = N

\* finalizeToolResult and the dispatch of tool.result for the next call.
EmitResult ==
  /\ stage = "drain"
  /\ result[cursor] # "none"
  /\ Finalized(cursor) # "none"
  /\ \E final \in {Finalized(cursor), "hookfail"} :
       /\ shown' = [shown EXCEPT ![cursor] = final]
       /\ deferred' = Deferreds(cursor, final)
  /\ log' = Append(log, [event |-> "result", id |-> cursor])
  /\ cursor' = cursor + 1
  /\ stage' = IF LastResult(cursor) THEN "done" ELSE stage
  /\ UNCHANGED <<fate, stopping, key, original, aborted, access>>
  /\ UNCHANGED schedVars

\* Recording an event fails: the loop leaves through its finally block.
DispatchFails ==
  /\ \/ stage = "dispatch"
     \/ /\ stage = "drain"
        /\ result[cursor] # "none" /\ Finalized(cursor) # "none"
  /\ stage' = "unwind"
  /\ UNCHANGED <<cursor, fate, stopping, log, aborted>>
  /\ UNCHANGED <<access, schedVars, dedupVars>>

\* Every task that was added has settled.
AllSettled == \A c \in Call : place[c] # "none" => result[c] # "none"

\* Promise.allSettled over every task that was added, then rethrow.
Rethrow ==
  /\ stage = "unwind"
  /\ AllSettled
  /\ stage' = "thrown"
  /\ UNCHANGED <<cursor, fate, stopping, log, aborted>>
  /\ UNCHANGED <<access, schedVars, dedupVars>>
-----------------------------------------------------------------------------
Prepare == Reject \/ Skip \/ \E k \in Key : Deduplicate(k) \/ Resolve(k)

\* The batch's own continuations, which the event loop runs.
Loop == Prepare \/ DispatchCall \/ Add \/ EmitResult \/ DispatchFails \/ Rethrow

Next ==
  \/ Loop \/ Authorize \/ Abort
  \/ \E c \in Call : ToolReturns(c) \/ GraceTimeout(c) \/ Finish(c)

\* The event loop runs continuations and timers.  A tool is not assumed ever
\* to return, nor the user to answer a permission request unless the signal,
\* which the request is raced against, is aborted.
Fairness ==
  /\ WF_vars(Loop)
  /\ WF_vars(aborted /\ Authorize)
  /\ \A c \in Call : WF_vars(GraceTimeout(c)) /\ WF_vars(Finish(c))

Spec == Init /\ [][Next]_vars /\ Fairness
-----------------------------------------------------------------------------
(* Properties.                                                             *)

Running(c) == exec[c] = "running"
Ended == stage \in {"done", "thrown"}

\* Tools whose accesses conflict never execute at the same time, not even
\* when one was given up on at the grace timeout and is still running
\* (ToolScheduler, runRunnableToolCall).
NoConflictingExecutions ==
  \A c, d \in Call : c # d /\ Running(c) /\ Running(d) => ~ Conflicts(c, d)

\* Conflicting calls take effect in provider order: once the later one has
\* entered its tool, the earlier one's tool has returned (ToolScheduler).
ConflictOrder ==
  \A c, d \in Call :
    c < d /\ Conflicts(c, d) /\ exec[d] # "no" => exec[c] = "ended"

\* A queued task always waits for something that will release it: an active
\* task or an earlier queued one, so never with nothing active (finish).
NoLostWakeup ==
  /\ \A d \in Queued :
       \E c \in Active \cup {q \in Queued : q < d} : Conflicts(c, d)
  /\ Queued # {} => Active # {}

\* Paths as tools spell them, files as they are compared.
Paths == UNION {[1 .. len -> Name] : len \in 0 .. Depth}
Files == UNION {[1 .. len -> {Fold[n] : n \in Name}] : len \in 0 .. Depth + 1}

Accesses ==
  {FileAt(op, p, rec) : op \in Operation, p \in Paths, rec \in BOOLEAN}
    \cup {AccessAll}

Below(file, path) ==
  Len(path) <= Len(file) /\ SubSeq(file, 1, Len(path)) = path

\* The files an access touches.
Touched(x) ==
  IF x.kind = "all" THEN Files
  ELSE IF x.recursive THEN {f \in Files : Below(f, NormalizePath(x.path))}
  ELSE {NormalizePath(x.path)}

WritesFile(x) == x.kind = "all" \/ x.operation \in {"write", "readwrite"}

\* Two accesses conflict exactly when some file is touched by both and written by one
\* of them, in whatever case and order they are declared (ToolAccesses.conflict).  It is
\* asked where a batch begins: it does not depend on how the batch goes on.
ConflictIsSharedFile ==
  stage = "prepare" /\ cursor = 1 =>
    LET touched == [x \in Accesses |-> Touched(x)]
    IN  \A x, y \in Accesses :
          Conflict({x}, {y}) <=>
            (WritesFile(x) \/ WritesFile(y)) /\ touched[x] \cap touched[y] # {}

\* No two calls with the same arguments execute in one step (checkSameStep).
ExecutedOncePerKey ==
  \A c, d \in Call :
    key[c] = key[d] /\ exec[c] # "no" /\ exec[d] # "no" => c = d

\* A repeat is answered with its original's result or with the failure of
\* its own finalization; the placeholder never reaches the model
\* (finalizeResult).
RepeatShowsOriginal ==
  \A c \in Call :
    fate[c] = "duplicate" /\ shown[c] # "none" =>
      shown[c] \in {result[original[key[c]]], "hookfail"}

\* Draining never waits on a deferred nobody will resolve: when a repeat is
\* reached its original has been finalized (finalizeResult).
RepeatNeverStuck ==
  stage = "drain" /\ fate[cursor] = "duplicate" =>
    deferred[key[cursor]] # "none"

\* Calls with the same arguments share one execution and one result, and the
\* repeats are answered with it (tool-dedup).
RepeatsAnswered == ExecutedOncePerKey /\ RepeatShowsOriginal /\ RepeatNeverStuck

\* The events of the first k calls, then those of the first m results.
Transcript(k, m) ==
  [i \in 1 .. k + m |-> IF i <= k THEN [event |-> "call", id |-> i]
                        ELSE [event |-> "result", id |-> i - k]]

\* Every recorded tool.call gets exactly one tool.result, no result comes before all
\* calls are recorded, and both sequences are in provider order, whatever order the
\* tools finish in (runToolCallBatch).
PairedResults ==
  \E k, m \in 0 .. N :
    /\ log = Transcript(k, m)
    /\ m = 0 \/ k = N
    /\ stage = "done" => m = N

\* After the abort no tool is entered any more, queued or not.
NoStartAfterAbort ==
  [][aborted => \A c \in Call : exec[c] = "no" => exec'[c] = "no"]_vars

\* How far a call is for the caller, who does not see the scheduler.
Status(c) ==
  IF exec[c] # "no" THEN exec[c]
  ELSE IF result[c] # "none" THEN "declined"
  ELSE IF fate[c] = "run" THEN "waiting" ELSE "unknown"

Order == INSTANCE ToolOrder WITH
  declared <- access, status <- [c \in Call |-> Status(c)]

\* The scheduler implements the abstract promise: whatever overlaps does not
\* conflict and conflicting calls take their turns in provider order.
ImplementsOrder == Order!Spec

\* A cancelled batch ends although its tools may never return.
AbortEnds == aborted ~> Ended

\* A batch whose tools all return and whose permission requests are answered
\* ends: no task stays in the queue, no repeat waits for ever.
BatchEnds ==
  (\A c \in Call : []<> ~ Running(c)) /\ []<>(stage # "authorize") => <> Ended

\* The loop is never kept waiting by a batch, cancelled or not.
AlwaysEnds == AbortEnds /\ BatchEnds
=============================================================================
