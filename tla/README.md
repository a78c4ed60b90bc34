# Verification of the agent core

TLA+ models of the concurrent core of the repository and of the event stream its
server sends to clients, checked with TLC, and theorems about them checked with
TLAPS. Paths below are relative to `src/packages/agent-core/src/` unless they start
with the name of another package of `src/packages/`.
`PROJECT.json` gives, for every definition, the lines it stands for.

## 1. The system

A *session* owns *agents*. An agent runs *turns*; a turn is a series of *steps*;
a step is one model request and the *batch* of tool calls in its answer. A tool
call may start *subagents*, many at a time, as a *subagent batch*. Clients do not
talk to agents: a *prompt service* in the daemon queues prompts, speaks to the
core by RPC and learns of the core through events. Everything runs on one event
loop: code between two `await`s is atomic, and every hazard lies at an `await`, a
timer, an abort signal, an event or a crash.

| Component | State | Operations | Hard behaviour | What makes it correct |
|---|---|---|---|---|
| Tool batch (`loop/tool-call.ts`, `tool-scheduler.ts`, `tool-access.ts`) | active and queued tasks, accesses, signal | prepare, authorize, dispatch, add, finish, drain, grace timeout | tools end in any order; abort at any time; a recording fails | conflicting tools never overlap and keep their order; no lost wake-up; calls and results pair up; it ends |
| Same-step dedup (`agent/turn/tool-dedup.ts`) | first call and deferred per key | checkSameStep, finalizeResult | a repeat waits for its original | executed once; a repeat shows the original; never stuck |
| Subagent batch (`session/subagent-batch.ts`) | pending, active, results, two timers, capacity | ramp, rate-limited launch, requeue, cancel | timers against completions; cancel against spawn | every task in one place; never stalls; capped; complete; no orphan |
| Turn flow (`agent/turn/index.ts`, `loop/run-turn.ts`) | active turn, steer buffer, context, run per worker | prompt, steer, cancel, compaction hand-over, goal driving, Stop hook | a cancelled worker unwinds beside the next; steers during a compaction or a hook | one turn at a time; no input lost or doubled; nothing after a cancel; events pair up |
| Compaction (`agent/compaction/*`) | compacting, blockedByTurn | begin, block, cancel, complete | cancel, overflow and failure while a turn waits | the turn goes on or is failed; the context stays well formed |
| Goal (`agent/goal/index.ts`) | goal, status, budgets | create, pause, resume, block, complete | budgets between turns | status and records agree; a spent budget stops the driver |
| Prompt service (`services/prompt/*`) | active prompt, queue, records | submit, steer, abort, bus handler | calls, answers and events cross; calls fail | one place per prompt; told once; the queue moves |
| Background tasks (`agent/background/*`) | tasks, ghosts, notification keys, one write queue per task | register, detach, suppress, stop, wait, settle, reconcile | worker, timeout, stop and detach race; crash before, between and after the writes | one terminal outcome, told once and one way; none lost after a crash; an end on disk stays |
| Records (`agent/records/*`) | pending records, promise of the flush, sticky error, file | append, rewrite, flush, read, replay | crash in a write or between truncate and write, torn line | what was flushed is read back once and in order; no record is left pending |
| MCP connections (`mcp/connection-manager.ts`, `agent/tool`, `mcp/auth-tool.ts`) | entry and attempt per server, client, tools of each agent | connect, reconnect, authenticate, shutdown, unexpected close | entries replaced during an `await`; startup timeout; a server that dies unwatched | no client leaks; offered tools are backed; a stale attempt changes nothing |
| Cron (`tools/cron/*`, `agent/cron/manager.ts`) | tasks, cursors | tick, fire, advance, persist | coalescing with jitter; crash after delivery | every occurrence delivered or counted once |
| Approval and question brokers (`server/src/services/*`) | pending requests | request, resolve, dismiss | answers race dismissals | each request settles once |
| Event journal and broadcast (`server/src/services/gateway/*`) | seq, epoch, tail, pending lines, file, subscribers | dispatch, write behind, replay, resync | crash in or before a flush; live events during a replay; a lost connection | a client brought up to date has no gap; a journal is one incarnation |
| Server lock (`server/src/lock.ts`) | lock file | acquire, take over, release | two takers of one stale lock | one owner |
| OAuth manager (`oauth/src/oauth-manager.ts`) | token, in-flight refresh, file lock | ensureFresh, login, logout | two processes rotate one token | a valid token is not tombstoned |
| Permission, context, injection, plan, skills, memory, plugins, tools, REST/WS, SDK, providers, UI | mostly configuration, files, text | | | mostly conversions and I/O: see `PROJECT.json` |

How they interact: the prompt service *calls* the turn flow (prompt, steer,
cancel) and *observes* its events; the turn flow *awaits* the tool batch and the
compaction; background tasks, cron and goals *steer* the turn flow from outside;
the Agent tool *awaits* the subagent batch, whose launches run turn flows of
other agents; every part writes records; what an agent emits becomes an event of
the session, which the server numbers, journals and sends to its clients.

`PROJECT.json` lists the 40 hazards the code is exposed to at their lines. Those
without a property either do happen (section 5, *Met on the way*) or name the module
of section 7 that will cover them.

## 2. The modules

| Module | Models | Extends |
|---|---|---|
| `ToolAccess` | access declarations, path normalisation and conflicts (pure operators) | |
| `ToolBatch` | one step's calls: `runToolCallBatch`, `ToolScheduler`, same-step dedup, abort | `ToolAccess` |
| `ToolOrder` | abstract: what a step promises about overlap and order | `ToolAccess` |
| `MCToolBatch` | constants for TLC and the reference definition of a conflict | `ToolBatch` |
| `ToolBatch_proofs` | theorems about a step's calls | `ToolBatch`, `TLAPS` |
| `SubagentBatch` | the class of that name, with time | |
| `SubagentBatch_proofs` | theorems about subagent batches | `SubagentBatch`, `TLAPS` |
| `TurnFlow` | one agent's turns, with compaction, goal and hooks as it sees them | |
| `TurnFlow_proofs` | theorems about an agent's turns | `TurnFlow`, `TLAPS` |
| `PromptService` | the daemon's prompts and the RPC beside one `TurnFlow` | `TurnFlow` |
| `PromptService_proofs` | theorems about the daemon's prompts and the agent beside it | `PromptService`, `TurnFlow_proofs` |
| `LineFile` | a file of lines that is appended to, interrupted and read back (pure operators) | |
| `RecordLog` | the wire log of one agent through crashes, failing writes and restarts | instance of `LineFile` |
| `RecordLog_proofs` | theorems about the wire log | `RecordLog`, `TLAPS` |
| `BackgroundTasks` | `BackgroundManager` of one agent, through restarts | |
| `BackgroundTasks_proofs` | theorems about background tasks | `BackgroundTasks`, `TLAPS` |
| `McpConnections` | one server's attempts and clients, and the tools agents offer | |
| `McpConnections_proofs` | theorems about attempts and clients | `McpConnections`, `TLAPS` |
| `EventStream` | numbering, journal and resynchronisation of one session's events | instance of `LineFile` |
| `EventStream_proofs` | theorems about a session's events | `EventStream`, `TLAPS` |

**ToolBatch.** `stage` and `cursor` are the program counter of `runToolCallBatch`:
calls are prepared in order (`Reject`, `Deduplicate`, `Resolve`, `Authorize`,
`Skip`), recorded (`DispatchCall`), added to the scheduler (`Add`), and their
results finalised and recorded in order (`EmitResult`). `place` is membership in
the scheduler's two lists, `exec` the tool itself. `GraceTimeout` settles a call
whose tool goes on running, and `ToolReturns` ends the tool later. `DispatchFails`
and `Rethrow` are the error path with its `finally`. What a call resolves to and how
it ends is the environment's choice. Result contents and the stopTurn flag are
left out.

**SubagentBatch.** The class's fields are the record `b`; operators named for the
methods map one value of it to the next, and each action is one callback: a
launch settles (`Launched`), a first request is made (`Ready`), an end
(`Completes`, `Fails`, `RateLimited`), a timer (`RampFires`, `LimitFires`,
`Timeout`), one of the two aborts (`UserCancel`, `OtherAbort`), or time (`Tick`).
`live` and `told` are the world's: which subagents exist and whose signal is
aborted. A point in time is kept as the time left, since it is only compared with
now; a due timer may fire late.

**TurnFlow.** A *run* is one worker, named by its first turn id. `cancel` lets go of
it at once; it unwinds when it next looks at its signal, beside the run that
follows. `Launch`, `Flushed`, `AbortTurn`, `CompactionFinished`, `EndTurn` and
`Continue` are the methods; the worker's actions are the waits of `runOneTurn`
and of the step loop. `BeginStep` is the flush and what may have to wait for a
compaction, after which the step is `preparing`; `Requests` is the look at the signal
behind that, and the model request. `SpentTurn` is the turn that ends without a request because
the goal's budget is spent. The turn's memory is written synchronously, so it is
no wait of its own. Goals appear as active or not.

**PromptService.** The daemon's maps are the record `d`; `place` is where a
prompt is in the daemon's code. `calls`, `writing`, `answers` and `TurnFlow`'s
`events` are the FIFO channels between daemon and core: every call, answer and
event is delayed by one `setTimeout` of its own (`rpc/client.ts`), and a prompt
also waits for the metadata write, which steers and cancels do not.
`MetadataWritten` is in order because the write goes through one promise queue.

**LineFile.** A file is its lines that end in a newline and a last one that does
not. `Put` appends to it: the first line written goes on with an unfinished one, and
the two no longer parse (`Bad`). `Interrupted` is every file a write may leave when it
fails or the process dies: some whole lines, and possibly half of the next or all of
it but the newline. A flush is one `appendFile`, so a reader sees it whole or not
at all.

**RecordLog.** `p` is the fields of `FileSystemAgentRecordPersistence` with
`flushPromise` spread over `phase`: idle, a batch taken, the file open (truncated for a
rewrite), or between the last look of the drain loop and the `finally` of the promise
(`settling`). `LogRecord` is `AgentRecords.logRecord` and the append under it,
`Flush` the call and `FlushReturns`, `FlushThrows` its ends, `OpenFile` and `Synced` the
awaits of `drainBatch`, `BatchFails` any of them failing, `Settled` the `finally`.
`Start` reads the file; a log of an older version is migrated and written anew before
anything else (`ReplayDone`). `confirmed` is what some flush has vouched for; `cut`, `torn`
and `glued` remember what has happened to the file, for the properties only.

**BackgroundTasks.** `task` is the manager's entry with the place of
`runTaskLifecycle` (`phase`): racing its four promises, `decided`, waiting for the
worker after an abort (`grace`), forcing, writing, written, done, or a `ghost` read
from disk. `queue` is the entry's write queue, `disk` its file. `Register`,
`Detach`, `Spill`, `Suppress` and `Stop` are the calls, `Timeout`, `CallerAborts` and
`WorkerSettles` the other promises, `Effects` is `fireTerminalEffects`; a notification
is read, steered and delivered by steps of its own (`Notify`, `NotifyFails`,
`Delivered`). A restart loads the files, marks tasks that were running lost one
after the other (`MarkLost`), announces them (`Marked`) and restores the
notifications that the replayed history does not hold (`Restore`). `context` is the
notifications in the agent's log, of which a crash may take what was not flushed
(`fresh`); `heard` is what others were told. `Logged` is `appendMessage`: it logs first,
and while a tool exchange is open it defers the message and leaves it unmarked. `placed`
is how many of the logged notifications a replay puts into the history and so marks as
delivered; the others it defers behind the exchange that the log ends in
(`exchange`), until `finishResume` closes it, behind `reconcile` (`Restored`). The closing
is itself a record that a crash may take (`StillOpen`). `deferrals` counts, for the
properties only, how often a replay has deferred a notification of the task.

**McpConnections.** `entry` is the manager's entry, or closed; `call` is where the
call behind each attempt is: waiting for the old client's close, in the
connect-and-list race, waiting for a close after it, or done. `Start`, `Connected`,
`Fails`, `Overtaken` and `Ends` are `reconnect` and `connectOne` between their awaits;
`Ready`, `HandshakeFails`, `Lists`, `ListFails`, `Dies` are the server; `Timeout` is the
startup timeout. `Emit` calls every listener, and with it the agents' tool managers.
`Authenticate`, `AuthReconnect` and `AuthAnswers` are the authenticate tool.
Attempts are numbered, so a client has the number of its attempt.

**EventStream.** `journal` is `SessionEventJournal` with the batch being written,
`tail` the events in memory, `conn` where the request of a returning client is:
waiting for the session's queue, flushing, reading the journal, answering. `Dispatch`
numbers an event, appends it and sends it in one frame; `GetBufferedSince` decides
between resync, nothing, tail and journal; `Flush` and `ReadSince` are the
journal's part of it; `Acknowledge` sends the watermark. The client is modelled as the
server expects it: it drops what it has and what another epoch sends, asks from its
last number without a gap, and takes a snapshot when told to.

## 3. The runs

All times with two workers on a small machine.

| Run | Bounds | Question and answer |
|---|---|---|
| `tool_batch` | 3 calls, 3 keys (symmetric), tree searches and one write below the tree, in two letter cases | Scheduling, dedup and recording are safe in every interleaving; the batch implements `ToolOrder`; a conflict is exactly a shared file one of the two writes (all pairs of paths up to two names). 700 000 states |
| `tool_batch_live` | 3 calls, 2 keys, every call exclusive | The batch ends after an abort though tools hang, and without one if tools return and permission requests are answered (`AlwaysEnds`) |
| `subagent_batch` | 3 tasks, cap 2, at most 2 rate limits, short intervals | `BatchOK`: one place per task, every result, never more than the cap. `NoStall`, `NoneUnsupervised`. `StepsOK`: paced launches, no result dropped, the last task is not suspended. `BatchEnds`: the batch ends when subagents do. 990 000 states, 160 s |
| `turn_flow` | 2 inputs, 3 turns, Stop hook, goals | `TurnsOK`: one turn at a time, the current turn is the active one, events paired. `InputsOnce`, `NothingForgotten`: inputs kept once and handed on. `NoStepAfterCancel`: a cancelled run only ends. `WaitsEnd`: who waits for a compaction or in the buffer does not wait for ever. 43 000 states, 40 s |
| `prompt_service` | 2 prompts (one with controls, one steering), 2 turns, goals, interrupts, failing calls | `PromptsOK`: one place per prompt. `OnceEachWay`: said once and told over at most once. `QueueServed`: the queue is served. 1.6 million states, 75 s |
| `prompt_quiet` | 3 prompts, 3 turns, hook, compactions, failing calls, nobody else | Every started prompt is the active one, has its own turn (`ActiveIsItsTurn`) and goes on |
| `record_log` | 4 records, 2 crashes, 1 failing batch, an empty log or one of an older version | `NothingLost`: flushed records are read back and nothing pending is stranded. `LogOK`: read once, in order, behind the metadata, and a process never writes behind its own torn line. Every flush returns or throws |
| `background_tasks` | 1 task, 3 crashes, 2 failing writes or reads | `HeardOnce`: one end, told one way, and to the agent once, plus once for each replay that found its notification behind an open tool exchange. `NothingUntold`: no end of a detached task is lost. An end on disk is final; a stop returns. 29 000 states |
| `mcp_connections` | 3 attempts at one server, 1 agent | `ServerOK`: no client leaks. `ToolsOK`: offered tools are live and the newest attempt decides. Silence after the shutdown; every attempt ends |
| `event_stream` | 4 events, 2 of them in memory, 2 crashes, 1 failing write or read, 2 connections | `JournalOK`: what follows a header is one incarnation. `NoGap`: a client that was brought up to date holds what the server has. `SyncEnds`: no request is stuck; it is answered, its connection ends or the journal cannot be read. 660 000 states, 140 s |
| `record_torn` | 3 records, 2 crashes | *violation*: a finding of section 5 |
| `background_twice` | 1 task, 2 crashes, no failing writes or reads | *violation*: a finding of section 5 |

Why the bounds are enough. Three calls give every shape the scheduler knows: a
task blocked by an active one, by a queued one, and one that starts past a
blocked one; three keys let two repeat and one not. Three tasks give an
active, a waiting and a settled one, the requeue into a queue that is not empty,
the last-one rule, a cap and a rate-limit capacity below the number of active ones.
Every interval is one unit and the recovery window two or three: retry delays double
to two, so a delay can end before, with and after the other timers; larger values are
not checked. Three turns give a goal run of two turns beside a run that follows a
cancel. Two prompts give the active and the queued one; the third in `prompt_quiet`
gives a queue of two. Four records give the metadata, one record on its way, one
pending behind it and one logged by the next process, and one to write behind those;
two crashes give a torn line and a process that goes on with it. Background tasks
share nothing but the maps and the log they are in, and the proofs are for any number, so
one is enough; its three crashes let it die running, while it is being marked and after it was restored. Servers share nothing
but tool names; three attempts give one that is overtaken by one that is overtaken.
Four events give two in memory, one only on disk and one still pending; two crashes
give a torn journal and a third server that reads what the second wrote behind it; two
connections give a client that comes back.

The counters `MaxTurns`, `MaxLimits`, `MaxCrashes`, `MaxFaults` and `MaxConnects` bound
how often something happens; inputs and task ids come once; `AbortSession` is limited to
states without a call or an answer under way; an event published while a client waits
for the session's queue is counted as published after it, with which it commutes. No
other bound is put on behaviour. Deadlock is not checked: batches end, and the other
systems stop when their inputs, records or crashes are used up.

Fairness. The event loop runs every continuation and timer that is due: weak
fairness of each component's own steps, of due timers and of `Tick`, and file
operations end, well or badly. Tools, users, models, tasks, MCP servers and clients are
*not* assumed to answer. `AbortEnds` needs none of them: the grace timer and the
permission race settle what hangs. `BatchEnds` (tool batch) assumes, in the property,
that tools return and permissions are answered. `BatchEnds` (subagents) assumes that
every subagent ends, which its timeout and the provider enforce. `WaitsEnd` assumes that
hooks, model requests, tools and compactions settle, well or badly: they have timeouts
or a limit of retries, or take the signal. Its weak fairness is of a worker's moves
together (`Advances`), so which of them it makes stays open, and a goal's tool calls are not
counted among them. It also takes from the code that only the compaction's own signal
makes a summary end with an AbortError: such an error of a provider that nobody has
cancelled would leave `compacting` set (`agent/compaction/full.ts:379`). `SyncEnds` needs
only that file operations end. `StopEnds` needs no task: the grace
period of `background/index.ts` ends the wait. `AttemptsEnd` needs no server: the startup
timeout does; the close of a client is assumed to end, since transports give up on a
process that does not.

## 4. What is proved

`ToolBatch_proofs` holds for every number of calls, every set of keys and every
access declarations:

- `TypeCorrect`: `TypeOK`, strengthened by "a repeat has a key".
- `Ordered`, `Exclusive`: conflicting calls take their turns in provider order
  and never overlap, zombies of the grace timeout included. Neither is inductive:
  the scheduler looks at its lists, not at the tools. The inductive invariant
  `IInv` adds that calls are added in order (`AddedInOrder`), declare accesses only
  when they run (`DeclaredWhenRun`), that a tool runs only in the active list and
  has ended when its call leaves it (`PlaceAndTool`), that a call that has started
  had its earlier conflicting calls finished (`StartedInOrder`), and that a queued
  call is still held back by an active or an earlier queued one (`HeldBack`).
  `ConflictSymmetric` shows that the order of the arguments does not matter.
- `NeverLost`: `NoLostWakeup`, from `HeldBack` and the order of calls.
- `NoLateStart`: the action property, directly from the guard shared by all
  starts and the fact that an abort is never taken back.
- `Implements`: every step of the batch is a step of `ToolOrder` or leaves it
  alone, under `Status`; it needs `IInv` and that a call with a result has either
  run its tool or never will (`StatusInv`).
- `Answered`: `RepeatsAnswered`. `DedupInv` adds that a key belongs to the first call
  registered with it, that only that one runs (`KeysInv`, `OnlyRun`), and that when the
  results are drained every deferred of an earlier original is resolved with that call's
  result (`DeferredInv`), which a later finish or timeout no longer changes.
- `Paired`: `PairedResults`, from what the transcript is in each stage (`LogInv`) and
  the lemma that one more event gives the next transcript (`TranscriptGrows`).
- `ConflictMeans`: `ConflictIsSharedFile`, for paths of every length and every way of
  folding names. Two accesses overlap when one path is at or above the other; two trees
  that share a file lie on one line (`SameLine`), and a file shows it (`TouchedFiles`).

`TurnFlow_proofs` holds for any inputs, any number of turns, with and without a Stop
hook or goals. Its invariant `IInv` says of the agent as a whole what none of the
properties says alone: a run is over or under way, only the active run may be under way
without having been cancelled, and then it has the latest turn (`RunOK`); no turn
belongs to two runs (`OwnTurns`), without which the end of a cancelled run could be
taken for the end of the next one; an input is in one place (`Once`); and each turn up
to the last has started once and ended once, in this order, unless a run goes through
it (`Told`). One lemma per action shows how it changes the agent and what it emits
(`Follows`), whatever was emitted before, so that the same lemmas serve an agent whose
events are taken by a daemon.

- `OneAtATime`: `TurnsOK`, one turn at a time and events paired.
- `NeverRepeated`: `InputsOnce`; `AllKept`: `NothingForgotten`.
- `CancelHolds`: `NoStepAfterCancel`, a cancelled run only ends, wherever the cancel met
  it: `Follows` lets no action move a run that is aborted to anything but its end.

`PromptService_proofs` holds for any prompts, controls, services, interrupts and
failures, and any number of turns. `PInv` puts together the agent's invariant, for the
events taken and those on their way (`AgentOK`), what the daemon knows of each prompt
(`DaemonOK`), and what is on its way (`WireOK`): calls and answers are told apart by their
prompt and by whether they bring its words, each such key is on its way once, and what
arrives finds its prompt in the place it left it (`Right`) with its words unheard
(`Unheard`). Without it an answer could come for a prompt that has gone on, tell it a
second time or put it back into the queue. The lemmas `CallPosted` to `DaemonMoved` show
what each end of the wire may do to it; the daemon's methods are taken one by one.

- `InOnePlace`: `PromptsOK`; `OnceToAndFro`: `OnceEachWay`.
- `AlwaysServed`: `QueueServed`.
- `AgentUnharmed`, `AgentKeeps`: what `TurnFlow` promises of turns, inputs and cancelled
  runs also holds beside the daemon.

What the daemon believes of the turn holds under hypotheses of their own. `OnlySubmits`:
clients submit prompts without controls and nobody else talks to the agent, while any call
may fail and compactions and a Stop hook come as they like; TLC finds counterexamples once a
goal drives turns, a service or another prompt's steer starts one, or a cancel overtakes its
prompt. Then the agent is `Plain` (a run is one turn), what the daemon has mapped is true
(`Mapped`), and `Stage` says where the active prompt is: in a call, behind a compaction, in
its turn, or in the events of that turn that the daemon has not taken. The invariant
`Quiet` is these three beside `PInv`; the lemmas `PlainLaunch` to `PlainAlone` show what
a plain agent's steps come to.

- `FollowsItsTurn`: `ActiveIsItsTurn`; `NeverStuck`: `ActiveGoesOn`.
- `StartedIsActive`: the half of `ActiveIsItsTurn` that is about the daemon (`ActiveKnown`),
  with goals, services and users at work too: it needs that no prompt sets controls, and
  that users do not interrupt where calls fail, since a cancel that fails brings its prompt
  back when another one may have become active.

`BackgroundTasks_proofs` holds for any tasks and any number of crashes and faults. Its
invariant says for each task what its entry, write queue, file, notification, history
and caller have to do with one another, separately for a task that runs in this
process (`LiveRecords`: nothing waits behind an end that is being written) and one
that was read from disk (`GhostRecords`), with `CallerKnows`, `OneEnd` and `Notes`. It
is needed because a crash takes the entry, the queue and part of the history at once,
and what is told afterwards is decided from the file alone.

- `OneHearing`: `HeardOnce`. What makes it inductive is `Counted`: while a process
  restores, every logged notification that its replay did not place has been counted by a
  deferral. `AllTold`: `NothingUntold`.
- `EndKept`: `VerdictKept`, since a queue is empty once an end is on disk.

`McpConnections_proofs` holds for any number of attempts and agents. The entry looks
different in each wait of the newest call, and `WhileClosing`, `WhileStarting`,
`WhileEnding` and `WhenDone` say how; `CallsInOrder` says that attempts are overtaken in
order and that a client that died unwatched is remembered.

- `Supervised`: `ServerOK`; `NewestOnly`: `ToolsOK`.
- `Silence`: `SilentAfterShutdown`, from the types alone.

`SubagentBatch_proofs` holds for any number of tasks and rate limits and any intervals
and limits. Its properties speak of the batch after `schedule` has looked at it, and each
event runs `schedule`; so the lemmas `ScheduledLooks`, `LookAfter` and `EndAfter` show once
what any look does to a batch that is sound, and each action only what it does before the
look. The invariant says that a task waits once, is active or has its result (`Places`), that
during the ramp what is pending or active has not been tried before (`FirstAttempts`), and that
whatever is pending has a timer or fills the cap (`Awake`), which is what a lost wake-up
would break. `EligibleIn` and the launch of the first eligible task choose a least delay; that there
is one is the lemma `Least`.

- `Bookkeeping`: `BatchOK`, types, one place and complete results.
- `NeverStalls`: `NoStall`; `Supervised`: `NoneUnsupervised`.
- `Disciplined`: the action property `StepsOK`.

`RecordLog_proofs` holds for any number of records, crashes and failing batches. Neither
what is read back nor its order is inductive: a batch that is on its way will be part of
it. `IInv` therefore speaks of `Whole`, the file as it will be when all that is taken and
pending is written, and says that it is in order (`Order`) and has whatever the process
holds (`Holds`); `Phases` and `Rewrites` say where a batch can be and that a file is
truncated once, by the replay; `Tears` that a process ends the lines it writes. The lemmas
`CutWhole`, `CutGlued` and `WrittenOut` show for every batch and every place of an
interruption what a reader finds of it.

- `LogKept`: `LogOK`, types, order and what can make a log unreadable.
- `NothingGone`: `NothingLost`, what flushes vouched for and what is pending.

`EventStream_proofs` holds for any number of events, crashes, faults and connections and
any size of the tail. Its invariant says that everything in the file, the batch being
written and the lines pending (`Stream`) is in order (`Chain`: no header is followed by
another epoch, numbers and events ascend, lines that do not parse may be anywhere), that
the lines of the tail are consecutive and reach up to the journal's number (`Recent`), and
that a client served from one epoch holds nothing else (`OneEpoch`). `NoGap` is not
inductive: a client that reads the journal has gaps. `Supplied` says what it may lack in
each stage of its request: while it waits for the disk nothing above some number `w` that
one read of `maxBufferSize` lines can reach, when it reads nothing that is still pending,
and when it is answered nothing. That a read reaches `w` is an argument of counting, in
`FewBetween`: the events between two numbers of one epoch are no more than the numbers.
`PutWrote`, `WholeWrite` and `PartialWrite` show what a file is after a write that was
interrupted anywhere, glued lines included, and `OpenedIs` what the next server goes on with.

- `OneIncarnationHolds`: `JournalOK`, types and one incarnation behind every header.
- `NoGapHolds`: `NoGap`, for numbers that were given once.

Assumptions: `FoldAssumption`, `BatchAssumption`, `TurnAssumption`, `ServiceAssumption`,
`BackgroundAssumption`, `McpAssumption`, `SubagentAssumption`, `LogAssumption` and
`StreamAssumption`, which only give the constants their types and ask for one attempt, one
record, positive intervals and positive limits; the last three theorems of `PromptService_proofs`
also assume what is said with them.
Every safety property that a passing run checks is stated by one of these theorems. Only
model-checked are the liveness properties, since liveness under fairness is out of the
prover's reach, as is what recursive definitions compute on all inputs.

## 5. Findings

`record_torn` (agent/records/persistence.ts:213). Reading tolerates a last line that a
crash has cut off, but nothing ends or removes that line: the next record is written
behind it, and the read after that takes the joined line for corruption and refuses
the log. Two crashes are needed, and one record between them.

`background_twice` (agent/context/index.ts:476). A notification is logged before it is
known whether it can be put into the history, and only what is put there is marked as
delivered. When a log ends inside a tool exchange, the notifications that a resume
restores are logged and deferred, and `resume` closes the exchange only afterwards
(agent/index.ts:333-335). If the process dies before the closing is on disk, the next
replay defers them again, `reconcile` does not find them delivered and restores them a
second time, and the agent reads the end of its task twice, against the tests
`packages/agent-core/test/agent/background/rpc-events.test.ts:446` ("does not
double-notify newly lost restored agent tasks") and 421. Two crashes are needed, the first
one inside a tool exchange. `ToldOnce` allows as many more tellings as there were such
deferrals, and no others.

### Met on the way

These disagreements showed while the modules were written. No run is kept for
them; the properties named exclude them explicitly, by a premise or by a bound.

- A steer that arrives while the Stop hook runs stays in the buffer of an idle agent
  after `turn.ended` (agent/turn/index.ts:726), until another turn begins a step. `turn_flow`
  has the hook; its `WaitsEnd` excuses a steer whose run has ended.
- Two submits with runtime controls both pass the check for an active prompt, and the
  second makes the daemon forget the first (services/prompt/promptService.ts:347).
  `prompt_quiet` has no controls.
- A steer or an abort overtakes the prompt that waits for the metadata write, and
  another turn is taken for the prompt's (promptService.ts:811). `prompt_quiet` has no
  interrupts.
- The agent refuses a prompt while a goal holds the active turn, by an event the daemon
  ignores; the prompt stays active and blocks the queue (promptService.ts:862).
  `prompt_quiet` has no goals.
- A submitted prompt whose call fails leaves the queue standing until somebody submits
  again: only a failed start from the queue goes on to the next one
  (promptService.ts:453, 981). `QueueServed` excuses failed starts.
- The record of a completed prompt is deleted (promptService.ts:858) although the comment
  at lines 90-91 keeps it so that an abort answers 40903.
- `suppressTerminalNotification` writes the record of a foreground task
  (agent/background/index.ts:414) whose end is then never written (302-304, 853), so a
  restart finds it running and marks it lost (555-576); the end of a session does
  this to every task (session/index.ts:416-421). `ToldOnce` leaves such records out
  (`Stray`).
- The authenticate tool says that the server's real tools have replaced it
  (mcp/auth-tool.ts:142-150) although `reconnect` also returns when the server failed.
- After a crash that lost numbered events, numbers go on from what the disk has under
  the same epoch (server/src/services/gateway/sessionEventJournal.ts:68), against
  "monotonic across server restarts" at lines 11-12: a client may take a new event for
  one it has. `NoGap` excludes numbers that were given twice (`GivenTwice`).
- A request to be brought up to date is left without an answer when its journal cannot be
  read: `connection.ts:223` and 231 only log the rejection of the handler. `SyncEnds`
  names that outcome (`unanswered`) and shows that it takes a failing read or write.
- A rewrite truncates the file before it writes it (agent/records/persistence.ts:184), so a
  process that dies in between has lost the log. `NothingLost` excludes a rewrite that was
  cut short (`cut`).
- Lines appended during a flush are not followed by a flush of their own
  (sessionEventJournal.ts:166-176), against "picked up by the next flush round, never
  lost": they wait for the next event or for a reader.
- A journal whose header was torn or never written gets a second header behind the
  lines it has, under a new epoch. A later read takes the first header it finds, and the
  limit of `readSince` counts lines of the other epoch. `OneIncarnation` speaks of what follows a
  header, `NoGap` of files without another epoch's lines.
- The snapshot of a session reads the watermark and the transcript in parallel, so the
  transcript may be ahead of the watermark or behind it
  (server/src/services/snapshot); `Snapshot` takes them in one step.

## 6. What is not modelled

In the modelled parts: contents of messages and results, token counts, wording,
logging, usage; the streak of repeated calls across steps (`tool-dedup.ts`); retries
of one model request (`loop/retry.ts`); several steers in one request and side
channels of the prompt service; replay of records into the turn flow; blob
offloading and the replay builder; admission, output and question tasks of the
background manager; `connect` and `remove` of the MCP manager, which nothing calls,
disabled servers and tool-name collisions; events without a number of their own, the
tracker of turns under way, a journal that cannot be read when it is opened, and more
than one client of a session.

Other components are listed with their reason in `PROJECT.json`. Most of the
repository's lines are outside of what a model can say something about: generated
themes and catalogs, the terminal, web and desktop user interfaces, command-line
parsing, the conversions of the model providers, prompts, scripts, tests and
documentation. They compute text from text or draw it. What they keep over time is
kept by the components above. The mapped lines are therefore a small share of the
repository, and of the core they are the parts where steps of several actors meet.

## 7. Plan

In this order; each module gets a type invariant, its deepest properties and, where
the argument is inductive over steps, a proof module.

1. `CronScheduler`: coalescing against a reference definition of due occurrences;
   crash between delivery and cursor.
2. `ServerLock`, `OAuthRefresh`: two processes and one file. `Brokers`: answers
   against dismissals.
3. `Compaction` workers that outlive their compaction and `Goal` budgets, composed
   with `TurnFlow`; the context memory they share.
4. `EventStream` with the snapshot's two reads and the tracker.
5. Proofs: every safety property of the runs is proved; what the modules above add comes next.
