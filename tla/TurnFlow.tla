------------------------------ MODULE TurnFlow ------------------------------
(***************************************************************************)
(* TurnFlow (agent/turn/index.ts): at most one run of turns per agent.  A  *)
(* run is what launch starts: one turn, or the turns a goal drives.  It is *)
(* named by its first turn id and is a worker of its own: cancel lets go of *)
(* it at once, and it unwinds later, beside the next run.                  *)
(*                                                                         *)
(* A step is one model request with its tool calls.  Steers are buffered   *)
(* while a run or a compaction is active and flushed into the context      *)
(* before each step, which is then prepared (compaction, injections)       *)
(* before the request is made.  Only calls, hooks, compactions, injections *)
(* and model requests give way to other callbacks (the memory of a turn is *)
(* written to SQLite, which is synchronous); what happens between two of   *)
(* those is one action.                                                    *)
(***************************************************************************)
EXTENDS Naturals, Integers, FiniteSets, SequencesExt

CONSTANTS
  Input,      \* what users and the agent's own services have to say
  MaxTurns,   \* bound: turn ids given out
  StopHook,   \* a Stop hook is configured
  Goals       \* goals are used

ASSUME TurnAssumption ==
  MaxTurns \in Nat /\ StopHook \in BOOLEAN /\ Goals \in BOOLEAN

Turn == 0 .. MaxTurns - 1

NoTurn == -1

Reasons == {"completed", "cancelled", "failed", "filtered"}

VARIABLES
  a,       \* the agent
  events   \* the turn events emitted and not yet taken by a subscriber

turnVars == <<a, events>>

Event == [type : {"turn.started"}, turn : Turn]
           \cup [type : {"turn.ended"}, turn : Turn, reason : Reasons]

Run == [phase : {"none", "opening", "blocked", "preparing", "step", "stopping", "done"},
        turn : Turn \cup {NoTurn}, input : {<<>>} \cup {<<x>> : x \in Input},
        driven : BOOLEAN, aborted : BOOLEAN, hooked : BOOLEAN,
        reason : Reasons \cup {"blocked"}]

TypeOK ==
  /\ a.turnId \in Turn \cup {NoTurn} /\ a.activeTurn \in Turn \cup {NoTurn}
  /\ a.steerBuffer \in Seq(Input) /\ a.context \in Seq(Input)
  /\ a.refused \in SUBSET Input
  /\ a.compacting \in BOOLEAN /\ a.goal \in BOOLEAN
  /\ a.run \in [Turn -> Run]
  /\ events \in Seq(Event)

Idle == [phase |-> "none", turn |-> NoTurn, input |-> <<>>, driven |-> FALSE, aborted |-> FALSE,
         hooked |-> FALSE, reason |-> "completed"]

InitTurns ==
  /\ a = [turnId |-> NoTurn, activeTurn |-> NoTurn, steerBuffer |-> <<>>,
          context |-> <<>>, refused |-> {}, compacting |-> FALSE, goal |-> FALSE,
          run |-> [r \in Turn |-> Idle]]
  /\ events = <<>>
-----------------------------------------------------------------------------
(* An agent's step is a pair: the agent and the events it emits.           *)

Does(step) == a' = step.agent /\ events' = events \o step.emits

Quietly(s) == [agent |-> s, emits |-> <<>>]

StartedEvent(n) == [type |-> "turn.started", turn |-> n]
EndedEvent(n, reason) == [type |-> "turn.ended", turn |-> n, reason |-> reason]

CanAllocate(s) == s.turnId + 1 \in Turn

\* runOneTurn up to its first wait: the next turn of run r.
BeginTurn(s, r) ==
  LET n == s.turnId + 1
  IN  [agent |-> [s EXCEPT !.turnId = n, !.run[r].phase = "opening",
                           !.run[r].turn = n, !.run[r].hooked = FALSE],
       emits |-> <<StartedEvent(n)>>]

\* Mutant: whatever run is active is let go of.
FinishedAll(s, r) == [s EXCEPT !.run[r].phase = "done", !.activeTurn = NoTurn]

\* The finally of turnWorker: a run that follows is not touched.
Finished(s, r) ==
  [s EXCEPT !.run[r].phase = "done",
            !.activeTurn = IF @ = r THEN NoTurn ELSE @]

\* endGoalTurnWithoutModel: the goal's budget is spent before run r drives it.
SpentTurn(s, r) ==
  LET n == s.turnId + 1
  IN  [agent |-> Finished([s EXCEPT !.turnId = n, !.goal = FALSE,
                                    !.run[r].turn = n, !.run[r].reason = "completed"], r),
       emits |-> <<StartedEvent(n), EndedEvent(n, "completed")>>]

\* launch, once it is clear that a run may start: the worker begins at once.
StartRun(s, x) ==
  LET r == s.turnId + 1
      u == [s EXCEPT !.activeTurn = r, !.context = Append(@, x),
                     !.run[r].driven = s.goal, !.run[r].input = <<x>>]
  IN  {BeginTurn(u, r)} \cup (IF s.goal THEN {SpentTurn(u, r)} ELSE {})

Buffered(s, x) == [s EXCEPT !.steerBuffer = Append(@, x)]

\* launch: refused with turn.agent_busy, kept for later, or started.
Launch(s, x) ==
  IF s.activeTurn # NoTurn THEN {Quietly([s EXCEPT !.refused = @ \cup {x}])}
  ELSE IF s.compacting THEN {Quietly(Buffered(s, x))}
  ELSE StartRun(s, x)

Prompt(x) == CanAllocate(a) /\ \E step \in Launch(a, x) : Does(step)

Steer(x) ==
  IF a.activeTurn # NoTurn \/ a.compacting THEN Does(Quietly(Buffered(a, x)))
  ELSE Prompt(x)

\* Mutant: what was flushed is flushed again.
FlushedTwice(s) == [s EXCEPT !.context = @ \o s.steerBuffer]

\* flushSteerBuffer.
Flushed(s) == [s EXCEPT !.context = @ \o s.steerBuffer, !.steerBuffer = <<>>]

Blocked(s) == {r \in Turn : s.run[r].phase = "blocked"}

\* abortTurn.  The abort of a run that waits for a compaction cancels that
\* compaction, which flushes the buffer while the run is still the active one.
AbortTurn(s) ==
  LET r == s.activeTurn
      u == IF r \in Blocked(s) /\ s.compacting
           THEN Flushed([s EXCEPT !.compacting = FALSE]) ELSE s
  IN  IF r = NoTurn THEN s
      ELSE [u EXCEPT !.run[r].aborted = TRUE, !.activeTurn = NoTurn]

\* cancel of turn n, of whatever is active when n is NoTurn.
Cancel(n) ==
  Does(Quietly(IF n \in {NoTurn, a.turnId} THEN AbortTurn(a) ELSE a))
-----------------------------------------------------------------------------
(* Compaction and the goal.                                                *)

\* begin, by hand: refused while a turn is active.
CompactByHand ==
  /\ a.activeTurn = NoTurn /\ ~ a.compacting
  /\ Does(Quietly([a EXCEPT !.compacting = TRUE]))

\* Mutant: the buffer is cleared although only its head is launched.
FinishedWithHead(s) ==
  IF s.steerBuffer = <<>> THEN {Quietly(s)}
  ELSE IF s.activeTurn # NoTurn THEN {Quietly(Flushed(s))}
  ELSE Launch([s EXCEPT !.steerBuffer = <<>>], Head(s.steerBuffer))

\* onCompactionFinished.
CompactionFinished(s) ==
  IF s.steerBuffer = <<>> THEN {Quietly(s)}
  ELSE IF s.activeTurn # NoTurn THEN {Quietly(Flushed(s))}
  ELSE Launch([s EXCEPT !.steerBuffer = Tail(@)], Head(s.steerBuffer))

\* block returns: the step is prepared further.  A run that was cancelled has only the
\* check ahead of it that throws (UnwindsAborted).
Unblocked(s) ==
  [s EXCEPT !.run = [r \in Turn |-> IF r \in Blocked(s) /\ ~ s.run[r].aborted
                                   THEN [s.run[r] EXCEPT !.phase = "preparing"] ELSE s.run[r]]]

\* The compaction completes or is cancelled, or it fails and fails the run that
\* waits for it.
CompactionEnds ==
  /\ a.compacting
  /\ a.steerBuffer # <<>> /\ a.activeTurn = NoTurn => CanAllocate(a)
  /\ LET s == [a EXCEPT !.compacting = FALSE]
     IN  \E u \in {s, Unblocked(s)} : \E step \in CompactionFinished(u) : Does(step)

\* createGoal, resumeGoal; pauseGoal, cancelGoal: the goal as its owner sets it.
SetGoal == Goals /\ Does(Quietly([a EXCEPT !.goal = ~ @]))
-----------------------------------------------------------------------------
(* The worker of a run.                                                    *)

\* The goal's driver gives up: the goal is paused or blocked.
GivesUp(s, r) == Finished([s EXCEPT !.goal = FALSE], r)

\* driveGoal after a turn: the next one, or the end of the run.
DriveOn(s, r) ==
  IF s.run[r].reason # "completed" THEN {Quietly(GivesUp(s, r))}
  ELSE IF ~ s.goal THEN {Quietly(Finished(s, r))}
  ELSE {Quietly(GivesUp(s, r))} \cup (IF CanAllocate(s) THEN {BeginTurn(s, r)} ELSE {})

\* turnWorker after its turn: a goal that has become active is driven.
DriveNewGoal(s, r) ==
  LET u == [s EXCEPT !.run[r].driven = TRUE]
  IN  IF s.goal /\ s.run[r].reason \in {"completed", "blocked"} /\ CanAllocate(s)
      THEN {BeginTurn(u, r), SpentTurn(u, r)}
      ELSE {Quietly(Finished(s, r))}

Continue(s, r) == IF s.run[r].driven THEN DriveOn(s, r) ELSE DriveNewGoal(s, r)

\* A standalone turn releases the active turn in the frame of turn.ended,
\* unless it has made a goal active.
Released(s, r) ==
  IF ~ s.run[r].driven /\ s.run[r].turn = s.turnId /\ ~ s.goal
  THEN [s EXCEPT !.activeTurn = NoTurn] ELSE s

\* The turn of run r ends with turn.ended, and the run goes on or ends.
EndTurn(s, r, reason) ==
  LET u == Released([s EXCEPT !.run[r].reason = reason], r)
      ended == EndedEvent(s.run[r].turn, IF reason = "blocked" THEN "completed" ELSE reason)
  IN  {[agent |-> step.agent, emits |-> <<ended>> \o step.emits] : step \in Continue(u, r)}

Ends(s, r, reason) == \E step \in EndTurn(s, r, reason) : Does(step)

\* runTurn begins a step: the buffer is flushed, the context may need a
\* compaction, and a context that is full has to wait for it.
BeginStep(s, r) ==
  \E compact \in BOOLEAN, phase \in {"preparing", "blocked"} :
    /\ phase = "blocked" => compact \/ s.compacting
    /\ Does(Quietly([Flushed(s) EXCEPT !.compacting = @ \/ compact,
                                       !.run[r].phase = phase]))

Working(r) == a.run[r].phase \in {"opening", "preparing", "step", "stopping"}

\* Mutant: who waits for a compaction does not notice the cancel.
UnwindsWorking(r) ==
  /\ a.run[r].aborted /\ Working(r)
  /\ Ends(a, r, "cancelled")

\* A signal that is aborted is thrown at the next check.
UnwindsAborted(r) ==
  /\ a.run[r].aborted
  /\ Working(r) \/ r \in Blocked(a)
  /\ Ends(a, r, "cancelled")

\* The provider, the step limit or a compaction fails the turn.
Fails(r) ==
  /\ ~ a.run[r].aborted
  /\ Working(r) \/ (a.run[r].phase = "blocked" /\ ~ a.compacting)
  /\ Ends(a, r, "failed")

\* The UserPromptSubmit hook blocks the prompt.
PromptBlocked(r) ==
  /\ a.run[r].phase = "opening" /\ ~ a.run[r].aborted
  /\ a.run[r].turn = r  \* the goal's own prompts have no such hook
  /\ Ends(a, r, "blocked")

\* The turn's first step, or the next: there are tool results, steers, or the
\* outcome of a goal to answer.
NextStep(r) ==
  /\ a.run[r].phase \in {"opening", "step"} /\ ~ a.run[r].aborted
  /\ BeginStep(a, r)

\* Mutant: the signal is not looked at once the step is prepared.
RequestsAnyway(r) ==
  /\ a.run[r].phase = "preparing"
  /\ Does(Quietly([a EXCEPT !.run[r].phase = "step"]))

\* The step is prepared: the signal is looked at again and the model is asked.
Requests(r) ==
  /\ a.run[r].phase = "preparing" /\ ~ a.run[r].aborted
  /\ Does(Quietly([a EXCEPT !.run[r].phase = "step"]))

\* handleOverflowError: the request is too long, the run waits for a compaction.
Overflows(r) ==
  /\ a.run[r].phase = "step" /\ ~ a.run[r].aborted
  /\ Does(Quietly([a EXCEPT !.compacting = TRUE, !.run[r].phase = "blocked"]))

\* The model starts, resumes or ends a goal with a tool.
GoalTool(r) ==
  /\ a.run[r].phase = "step" /\ ~ a.run[r].aborted
  /\ SetGoal

\* shouldContinueAfterStop: not while there are steers to answer.
MayStop(s) == s.steerBuffer = <<>>

\* The model stops; without a Stop hook the turn ends at once.
Stops(r) ==
  /\ a.run[r].phase = "step" /\ ~ a.run[r].aborted
  /\ MayStop(a)
  /\ IF StopHook /\ ~ a.run[r].hooked
     THEN Does(Quietly([a EXCEPT !.run[r].phase = "stopping"]))
     ELSE \E reason \in {"completed", "filtered"} : Ends(a, r, reason)

\* The Stop hook answers: it may ask for more once.
StopHookAnswers(r) ==
  /\ a.run[r].phase = "stopping" /\ ~ a.run[r].aborted
  /\ \/ BeginStep([a EXCEPT !.run[r].hooked = TRUE], r)
     \/ \E reason \in {"completed", "filtered"} : Ends(a, r, reason)

Worker(r) ==
  \/ UnwindsAborted(r) \/ Fails(r) \/ PromptBlocked(r)
  \/ NextStep(r) \/ Requests(r) \/ Overflows(r) \/ GoalTool(r)
  \/ Stops(r) \/ StopHookAnswers(r)

AgentStep == CompactByHand \/ CompactionEnds \/ \E r \in Turn : Worker(r)
-----------------------------------------------------------------------------
(* The agent on its own: every input comes once, at any time.              *)

Heard == ToSet(a.context) \cup ToSet(a.steerBuffer) \cup a.refused

Calls ==
  \/ \E x \in Input \ Heard : Prompt(x) \/ Steer(x)
  \/ \E n \in {NoTurn} \cup Turn : n <= a.turnId /\ Cancel(n)
  \/ SetGoal

Next == Calls \/ AgentStep

\* The worker goes on: everything but a tool that only touches the goal.
Advances(r) ==
  \/ UnwindsAborted(r) \/ Fails(r) \/ PromptBlocked(r)
  \/ NextStep(r) \/ Requests(r) \/ Overflows(r) \/ Stops(r) \/ StopHookAnswers(r)

\* Hooks, requests, tools and compactions settle: they have timeouts, a limit of
\* retries, or end on the signal.  Nothing is assumed of users and models.
Fairness == WF_turnVars(CompactionEnds) /\ \A r \in Turn : WF_turnVars(Advances(r))

Spec == InitTurns /\ [][Next]_turnVars /\ Fairness
-----------------------------------------------------------------------------
(* Properties.                                                             *)

\* No input is lost or said twice: what was accepted is in the context, in
\* the buffer or was refused, once.
InputsOnce ==
  LET said == a.context \o a.steerBuffer
  IN  /\ \A i, j \in DOMAIN said : said[i] = said[j] => i = j
      /\ ToSet(said) \cap a.refused = {}

NothingForgotten == [][Heard \subseteq Heard']_turnVars

\* A run that was cancelled goes no further, wherever the cancel met it: it neither
\* asks the model again nor begins a step, a wait or a turn, it only ends.
NoStepAfterCancel ==
  [][\A r \in Turn : a.run[r].aborted
       => /\ a'.run[r].phase \in {a.run[r].phase, "done"}
          /\ a'.run[r].turn = a.run[r].turn]_turnVars

\* Runs that are going through a turn and were not cancelled.
Running == {r \in Turn : a.run[r].phase \notin {"none", "done"} /\ ~ a.run[r].aborted}

\* The single in-flight turn: no two runs work side by side, and the one that
\* works is the active one, so that it can be cancelled.
OneTurnAtATime == Running \subseteq {a.activeTurn}

\* A cancel is ignored for a turn that is not active only: the active run is
\* going through the turn that currentId names.
CurrentIsActive == a.activeTurn # NoTurn => a.run[a.activeTurn].turn = a.turnId

\* Clients follow the session by its events: every turn id is started once, and
\* ended once, when no run goes through it any more.
TurnsPaired ==
  \A n \in Turn :
    LET started == {i \in DOMAIN events : events[i] = StartedEvent(n)}
        ended == {i \in DOMAIN events : events[i].turn = n} \ started
        going == \E r \in Turn : a.run[r].turn = n /\ a.run[r].phase \notin {"none", "done"}
    IN  /\ Cardinality(started) = (IF n <= a.turnId THEN 1 ELSE 0)
        /\ Cardinality(ended) = (IF n <= a.turnId /\ ~ going THEN 1 ELSE 0)
        /\ \A i \in started, j \in ended : i < j

\* Turns are what clients and cancels take them for: one at a time, the one that is
\* active, announced and ended once.
TurnsOK == TypeOK /\ OneTurnAtATime /\ CurrentIsActive /\ TurnsPaired

\* Nobody waits for ever: a run that a compaction blocks goes on or ends, cancelled
\* or not, and a steer that is kept while there is a run or a compaction to hear it is
\* said, unless that run ends without it (bound: or the turn ids are used up).
WaitsEnd ==
  /\ \A r \in Turn : r \in Blocked(a) ~> r \notin Blocked(a)
  /\ \A x \in Input :
       x \in ToSet(a.steerBuffer)
         ~> \/ x \notin ToSet(a.steerBuffer)
            \/ a.activeTurn = NoTurn /\ (a.compacting => ~ CanAllocate(a))
=============================================================================
