--------------------------- MODULE PromptService ---------------------------
(***************************************************************************)
(* PromptService (services/prompt/promptService.ts) beside the TurnFlow of *)
(* its session's main agent: the daemon keeps one active prompt and a      *)
(* queue, and follows the agent by turn.started and turn.ended only.       *)
(*                                                                         *)
(* The two talk by RPC.  Every call, answer and event takes one setTimeout *)
(* of its own, so each direction is first in, first out.  A prompt waits   *)
(* in the core for the session's metadata to be written; steers and        *)
(* cancels do not wait.                                                    *)
(***************************************************************************)
EXTENDS TurnFlow

CONSTANTS
  Service,     \* inputs the agent's services may steer with (cron, background tasks)
  Controls,    \* prompts that also set a model, a mode or a goal
  Interrupts,  \* users abort and steer
  Failures,    \* calls may fail
  NoPrompt

ASSUME ServiceAssumption ==
  /\ Service \subseteq Input /\ Controls \subseteq Input
  /\ Interrupts \in BOOLEAN /\ Failures \in BOOLEAN /\ NoPrompt \notin Input

\* Every input is a client's prompt, unless a service steers with it.
Prompts == Input

VARIABLES
  d,         \* the daemon: its active prompt, its queue, what it knows of prompts
  calls,     \* calls on their way to the core
  writing,   \* prompts that wait in the core for the metadata
  answers    \* answers on their way to the daemon

wire == <<calls, writing, answers>>
vars == <<turnVars, d, wire>>

Call == [kind : {"prompt", "steer", "cancel"}, prompt : Prompts \cup {NoPrompt},
         turn : Turn \cup {NoTurn}, next : BOOLEAN]

Place == {"new", "starting", "next", "started", "queued", "steering", "steered", "refused"}

\* turnId is the turn a prompt was mapped to, told its terminal events.
ServiceTypeOK ==
  /\ TypeOK
  /\ d.active \in Prompts \cup {NoPrompt} /\ d.queue \in Seq(Prompts)
  /\ d.place \in [Prompts -> Place]
  /\ d.turnId \in [Prompts -> Turn \cup {NoTurn}]
  /\ d.aborted \in SUBSET Prompts
  /\ d.told \in [Prompts -> Seq({"completed", "aborted"})]
  /\ calls \in Seq(Call) /\ writing \in Seq(Call)
  /\ answers \in Seq([call : Call, ok : BOOLEAN])

Init ==
  /\ InitTurns
  /\ d = [active |-> NoPrompt, queue |-> <<>>, place |-> [p \in Prompts |-> "new"],
          turnId |-> [p \in Prompts |-> NoTurn], aborted |-> {},
          told |-> [p \in Prompts |-> <<>>]]
  /\ calls = <<>> /\ writing = <<>> /\ answers = <<>>
-----------------------------------------------------------------------------
(* A step of the daemon is a pair: the daemon and the calls it sends.      *)

Sends(step) == d' = step.daemon /\ calls' = calls \o step.sends

Only(s) == [daemon |-> s, sends |-> <<>>]

CallOf(kind, p, n, next) == [kind |-> kind, prompt |-> p, turn |-> n, next |-> next]

\* A prompt is active that was neither completed nor aborted.
Busy(s) == s.active # NoPrompt /\ s.active \notin s.aborted

\* _startPrompt from _active.set on.
Activate(s, p, next) ==
  [daemon |-> [s EXCEPT !.active = p, !.place[p] = "started"],
   sends |-> <<CallOf("prompt", p, NoTurn, next)>>]

\* _startPrompt: the controls are set first, which takes calls of its own.
StartPrompt(s, p, next) ==
  IF p \in Controls THEN Only([s EXCEPT !.place[p] = IF next THEN "next" ELSE "starting"])
  ELSE Activate(s, p, next)

\* Mutant: the head of the queue is started and stays there.
StartHead(s) ==
  IF Busy(s) \/ s.queue = <<>> THEN Only(s) ELSE StartPrompt(s, Head(s.queue), TRUE)

\* _startNextQueued.
StartNextQueued(s) ==
  IF Busy(s) \/ s.queue = <<>> THEN Only(s)
  ELSE StartPrompt([s EXCEPT !.queue = Tail(@)], Head(s.queue), TRUE)

\* The start of a prompt failed: the next one is tried only if it came from
\* the queue itself.
StartFailed(s, p, next) ==
  LET u == [s EXCEPT !.place[p] = "refused", !.active = IF @ = p THEN NoPrompt ELSE @]
  IN  IF next THEN StartNextQueued(u) ELSE Only(u)

Tell(s, p, what) == [s EXCEPT !.told[p] = Append(@, what)]
-----------------------------------------------------------------------------
(* The requests of clients.                                                *)

\* Mutant: only a queue makes a prompt wait.
SubmittedAtOnce(s, p) ==
  IF s.queue # <<>> THEN Only([s EXCEPT !.queue = Append(@, p), !.place[p] = "queued"])
  ELSE StartPrompt(s, p, FALSE)

\* submit, where it decides: behind the active prompt, or at once.
Submitted(s, p) ==
  IF Busy(s) THEN Only([s EXCEPT !.queue = Append(@, p), !.place[p] = "queued"])
  ELSE StartPrompt(s, p, FALSE)

\* submit.
Submit(p) ==
  /\ d.place[p] = "new" /\ p \notin Heard
  /\ Sends(Submitted(d, p))
  /\ UNCHANGED <<turnVars, writing, answers>>

\* _startPrompt after the controls are set, or could not be.
ControlsSet(p) ==
  /\ d.place[p] \in {"starting", "next"}
  /\ LET next == d.place[p] = "next"
     IN  \/ Sends(Activate(d, p, next))
         \/ Failures /\ Sends(StartFailed(d, p, next))
  /\ UNCHANGED <<turnVars, writing, answers>>

Marked(s) == [s EXCEPT !.aborted = @ \cup {s.active}]

\* abort of the active prompt: marked at once, told when the core has answered.
AbortActive ==
  /\ Interrupts /\ Busy(d)
  /\ Sends([daemon |-> Marked(d),
            sends |-> <<CallOf("cancel", d.active, d.turnId[d.active], FALSE)>>])
  /\ UNCHANGED <<turnVars, writing, answers>>

\* The queue without the prompt p.
Without(queue, p) == RemoveAt(queue, CHOOSE i \in DOMAIN queue : queue[i] = p)

\* abort of a queued prompt.
AbortQueued(p) ==
  /\ Interrupts /\ d.place[p] = "queued"
  /\ d' = [Tell(d, p, "aborted") EXCEPT !.queue = Without(@, p), !.place[p] = "refused"]
  /\ UNCHANGED <<turnVars, wire>>

\* abortBySession when no prompt is active: whatever turn runs is cancelled
\* (bound: not while calls or answers are on their way).
AbortSession ==
  /\ Interrupts /\ ~ Busy(d)
  /\ calls = <<>> /\ answers = <<>>
  /\ Sends([daemon |-> d, sends |-> <<CallOf("cancel", NoPrompt, NoTurn, FALSE)>>])
  /\ UNCHANGED <<turnVars, writing, answers>>

\* Mutant: what is steered is also left to its turn in the queue.
Left(s, p) == [s EXCEPT !.place[p] = "steering"]

\* The queue without a prompt that is steered.
Taken(s, p) == [s EXCEPT !.place[p] = "steering", !.queue = Without(@, p)]

\* steer of a queued prompt into the active turn.
SteerPrompt(p) ==
  /\ Interrupts /\ Busy(d) /\ d.place[p] = "queued"
  /\ Sends([daemon |-> Taken(d, p), sends |-> <<CallOf("steer", p, NoTurn, FALSE)>>])
  /\ UNCHANGED <<turnVars, writing, answers>>
-----------------------------------------------------------------------------
(* The core.                                                               *)

\* Nobody waits for the answer to a cancel without a prompt.
Answered(c, ok) ==
  answers' = IF c.prompt = NoPrompt THEN answers
             ELSE Append(answers, [call |-> c, ok |-> ok])

\* A call arrives: a prompt first has the session's metadata written.
CallArrives ==
  /\ calls # <<>> /\ calls' = Tail(calls) /\ d' = d
  /\ LET c == Head(calls)
     IN  \/ /\ c.kind = "prompt" /\ writing' = Append(writing, c)
            /\ UNCHANGED <<turnVars, answers>>
         \/ /\ c.kind = "steer" /\ Steer(c.prompt) /\ Answered(c, TRUE)
            /\ UNCHANGED writing
         \/ /\ c.kind = "cancel" /\ Cancel(c.turn) /\ Answered(c, TRUE)
            /\ UNCHANGED writing
         \/ /\ Failures /\ c.kind # "prompt" /\ Answered(c, FALSE)
            /\ UNCHANGED <<turnVars, writing>>

\* The metadata is written, in order, or cannot be.
MetadataWritten ==
  /\ writing # <<>> /\ writing' = Tail(writing)
  /\ LET c == Head(writing)
     IN  \/ Prompt(c.prompt) /\ UNCHANGED answers
         \/ Failures /\ Answered(c, FALSE) /\ UNCHANGED turnVars
  /\ UNCHANGED <<d, calls>>

\* The agent on its own, its services and its other clients.
AgentAlone ==
  /\ \/ AgentStep
     \/ SetGoal
     \/ \E p \in Service \ Heard : d.place[p] = "new" /\ Steer(p)
  /\ UNCHANGED <<d, wire>>
-----------------------------------------------------------------------------
(* What comes back.                                                        *)

\* _handleBusEvent for turn.started: the first one after the submit.
TurnStarted(s, n) ==
  IF s.active # NoPrompt /\ s.turnId[s.active] = NoTurn
  THEN [s EXCEPT !.turnId[s.active] = n] ELSE s

\* Mutant: nothing follows a prompt that was aborted.
TurnEndedLast(s, n, reason) ==
  LET p == s.active
      u == [s EXCEPT !.active = NoPrompt]
  IN  IF p = NoPrompt \/ s.turnId[p] # n THEN Only(s)
      ELSE IF p \in s.aborted THEN Only(u)
      ELSE StartNextQueued(Tell(u, p, "completed"))

\* Mutant: a turn that fails is not taken for the end of its prompt.
TurnEndedWell(s, n, reason) ==
  LET p == s.active
      u == [s EXCEPT !.active = NoPrompt]
  IN  IF p = NoPrompt \/ s.turnId[p] # n \/ reason = "failed" THEN Only(s)
      ELSE StartNextQueued(Tell(u, p, "completed"))

\* _handleBusEvent for turn.ended: the end of the active prompt's turn.
TurnEnded(s, n, reason) ==
  LET p == s.active
      u == [s EXCEPT !.active = NoPrompt]
  IN  IF p = NoPrompt \/ s.turnId[p] # n THEN Only(s)
      ELSE StartNextQueued(IF p \in s.aborted THEN u
                           ELSE Tell(u, p, IF reason = "cancelled" THEN "aborted"
                                           ELSE "completed"))

EventArrives ==
  /\ events # <<>> /\ events' = Tail(events)
  /\ LET e == Head(events)
     IN  Sends(IF e.type = "turn.started" THEN Only(TurnStarted(d, e.turn))
               ELSE TurnEnded(d, e.turn, e.reason))
  /\ UNCHANGED <<a, writing, answers>>

\* _restoreSteeredQueueItems.
Restored(s, p) == [s EXCEPT !.queue = <<p>> \o @, !.place[p] = "queued"]

\* The answer to a call: prompt.aborted and prompt.steered wait for it.
AnswerTo(s, c, ok) ==
  CASE c.kind = "prompt" -> StartFailed(s, c.prompt, c.next)
    [] c.kind = "steer" -> Only(IF ok THEN [s EXCEPT !.place[c.prompt] = "steered"]
                                ELSE Restored(s, c.prompt))
    [] c.kind = "cancel" -> Only(IF ok THEN Tell(s, c.prompt, "aborted")
                                  ELSE [s EXCEPT !.aborted = @ \ {c.prompt}])

AnswerArrives ==
  /\ answers # <<>> /\ answers' = Tail(answers)
  /\ Sends(AnswerTo(d, Head(answers).call, Head(answers).ok))
  /\ UNCHANGED <<turnVars, writing>>

ServiceNext ==
  \/ \E p \in Prompts : Submit(p) \/ ControlsSet(p) \/ AbortQueued(p) \/ SteerPrompt(p)
  \/ AbortActive \/ AbortSession
  \/ CallArrives \/ MetadataWritten \/ AgentAlone \/ EventArrives \/ AnswerArrives

ServiceSpec == Init /\ [][ServiceNext]_vars
-----------------------------------------------------------------------------
(* Properties.                                                             *)

\* A prompt is told once that it is over: an abort and the end of its turn are
\* not both published.
ToldOnce == \A p \in Prompts : Len(d.told[p]) <= 1

\* A prompt is in one place: the queue holds each queued prompt once and nothing
\* else, whatever is steered, restored, aborted or started meanwhile.
QueueIsPlace ==
  /\ \A i, j \in DOMAIN d.queue : d.queue[i] = d.queue[j] => i = j
  /\ ToSet(d.queue) = {p \in Prompts : d.place[p] = "queued"}

\* A prompt's words reach the agent once: they are in one call, wait for the
\* metadata, or were heard.
SaidOnce ==
  \A p \in Prompts :
    Cardinality({i \in DOMAIN calls : calls[i].prompt = p /\ calls[i].kind # "cancel"})
      + Cardinality({i \in DOMAIN writing : writing[i].prompt = p})
      + (IF p \in Heard THEN 1 ELSE 0) <= 1

\* The service's bookkeeping: types, places and the queue agree.
PromptsOK == ServiceTypeOK /\ QueueIsPlace

\* A prompt goes once to the agent and comes back once to the clients.
OnceEachWay == SaidOnce /\ ToldOnce

\* A prompt that was started and is not over is the active one: list, abort and
\* the end of its turn find it.
ActiveKnown ==
  \A p \in Prompts :
    d.place[p] = "started" /\ d.told[p] = <<>> /\ p \notin d.aborted => d.active = p

\* The queue is served: with no prompt active the next one is about to start, until a
\* call fails (a failed submit or steer leaves the queue alone).
Served(s) ==
  s.active = NoPrompt /\ s.queue # <<>> => \E p \in Prompts : s.place[p] \in {"starting", "next"}

QueueServed ==
  [][Served(d) /\ ~ Served(d') =>
       \/ answers # <<>> /\ answers' = Tail(answers) /\ ~ Head(answers).ok
       \/ \E p \in Prompts : d.place[p] = "starting" /\ d'.place[p] = "refused"]_vars

\* The active prompt goes on: its call is on its way, or its turn is, or the end
\* of that turn is on its way back.
ActiveGoesOn ==
  Busy(d) =>
    LET p == d.active
        n == d.turnId[p]
        moving == \/ \E i \in DOMAIN calls : calls[i].prompt = p
                  \/ \E i \in DOMAIN writing : writing[i].prompt = p
                  \/ \E i \in DOMAIN answers : answers[i].call.prompt = p /\ ~ answers[i].ok
                  \/ p \in ToSet(a.steerBuffer) /\ (a.compacting \/ a.activeTurn # NoTurn)
        going(t) == \/ \E r \in Turn : a.run[r].turn = t /\ a.run[r].phase # "done"
                    \/ \E i \in DOMAIN events : events[i].type = "turn.ended"
                                                  /\ events[i].turn = t
    IN  IF n # NoTurn THEN going(n)
        ELSE moving \/ \E i \in DOMAIN events : events[i].type = "turn.started"
                                                  /\ going(events[i].turn)

\* A prompt is followed by its own turn, the one that opens with its words: its
\* end is the prompt's, and an abort names it.
OwnTurn ==
  \A p \in Prompts : d.turnId[p] # NoTurn => a.run[d.turnId[p]].input = <<p>>

\* The daemon's view of the turn: the started prompt is the active one and its turn is
\* the turn that answers it.
ActiveIsItsTurn == ActiveKnown /\ OwnTurn
=============================================================================
