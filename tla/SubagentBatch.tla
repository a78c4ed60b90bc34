---------------------------- MODULE SubagentBatch ----------------------------
(***************************************************************************)
(* SubagentBatch (session/subagent-batch.ts): runs one subagent per task,  *)
(* ramping up launches until the provider answers a rate limit, then       *)
(* launching one at a time below a capacity that shrinks and recovers.     *)
(*                                                                         *)
(* The fields of the class are the record b.  A point in time is kept as   *)
(* the time left until it, at least 0: the code compares such a point only *)
(* with the present.  launcher.spawn, resume and retry are one launch; a   *)
(* subagent is what it reports: its handle, its first request, its end.    *)
(***************************************************************************)
EXTENDS Naturals, Integers, FiniteSets, SequencesExt

CONSTANTS
  N,                 \* the number of tasks
  LaunchLimit,       \* INITIAL_LAUNCH_LIMIT
  RampInterval,      \* INITIAL_LAUNCH_INTERVAL_MS
  RetryBase,         \* RATE_LIMIT_RETRY_BASE_MS
  ShrinkInterval,    \* RATE_LIMIT_CAPACITY_SHRINK_INTERVAL_MS
  RecoveryInterval,  \* RATE_LIMIT_CAPACITY_RECOVERY_INTERVAL_MS
  MaxConcurrency,    \* options.maxConcurrency, N + 1 when it is undefined
  MaxLimits          \* bound: rate limits the provider answers in all

ASSUME SubagentAssumption ==
  /\ {LaunchLimit, RampInterval, RetryBase, ShrinkInterval,
      RecoveryInterval, MaxConcurrency} \subseteq Nat \ {0}
  /\ N \in Nat /\ MaxLimits \in Nat

Task == 1 .. N

Off == -1  \* a timer that is not set

VARIABLES
  b,       \* the batch
  live,    \* live[t]: the subagent of t's last attempt
  told,    \* tasks whose live attempt's signal is aborted
  limits   \* how many rate limits the provider has answered

vars == <<b, live, told, limits>>

Results == {"none", "completed", "failed", "started", "not_started"}

TypeOK ==
  /\ b.pending \in Seq(Task)
  /\ b.active \in SUBSET Task
  /\ b.ready \in SUBSET Task /\ b.begun \in SUBSET Task
  /\ b.known \in SUBSET Task
  /\ b.retryDelay \in [Task -> Nat \ {0}] /\ b.retryIn \in [Task -> Nat]
  /\ b.result \in [Task -> Results]
  /\ b.launches \in Nat /\ b.readyCount \in 0 .. N
  /\ b.rampTimer \in Nat \cup {Off} /\ b.limitTimer \in Nat \cup {Off}
  /\ b.limited \in BOOLEAN
  /\ b.capacity \in Nat \ {0} /\ b.interval \in Nat \ {0}
  /\ b.launchIn \in Nat /\ b.shrinkIn \in Nat /\ b.recoverIn \in Nat
  /\ b.end \in {"no", "resolved", "rejected"}
  /\ live \in [Task -> {"none", "starting", "running"}]
  /\ told \in SUBSET Task
  /\ limits \in 0 .. MaxLimits

Minimum(x, y) == IF x < y THEN x ELSE y
Maximum(x, y) == IF x < y THEN y ELSE x
-----------------------------------------------------------------------------
(* Launching.                                                              *)

ActiveCount(s) == Cardinality(s.active)

\* startAttempt for tasks that have left pending.
Started(s, tasks) ==
  [s EXCEPT !.active = @ \cup tasks, !.ready = @ \ tasks]

\* Mutant: one more than the cap.
OverConcurrencyLimit(s) == ActiveCount(s) > MaxConcurrency

AtConcurrencyLimit(s) == ActiveCount(s) >= MaxConcurrency

\* How many tasks the while loop of scheduleNormalLaunch starts.
RampStep(s) ==
  LET room == Minimum(LaunchLimit - s.launches, MaxConcurrency - ActiveCount(s))
  IN  Maximum(0, Minimum(room, Len(s.pending)))

\* scheduleNormalLaunch.
RampUp(s) ==
  LET k == RampStep(s)
      u == [Started(s, {s.pending[i] : i \in 1 .. k}) EXCEPT
              !.pending = SubSeq(@, k + 1, Len(@)), !.launches = @ + k]
      wait == u.pending # <<>> /\ u.rampTimer = Off /\ ~ AtConcurrencyLimit(u)
  IN  IF wait THEN [u EXCEPT !.rampTimer = RampInterval] ELSE u

\* recoverRateLimitCapacity: one more slot after a quiet window.
Recovered(s) ==
  IF s.recoverIn > 0 THEN s
  ELSE [s EXCEPT !.capacity = @ + 1, !.recoverIn = RecoveryInterval,
                 !.launchIn = 0]

\* The earliest time a queued task may be launched (nextPendingReadyAt).
EligibleIn(s) ==
  LET times == {s.retryIn[s.pending[i]] : i \in DOMAIN s.pending}
  IN  CHOOSE x \in times : \A y \in times : x <= y

\* Mutant: at capacity, wait for an attempt to end.
NextWakeWhenRoom(s) ==
  IF ActiveCount(s) >= s.capacity THEN 0
  ELSE Minimum(Maximum(s.launchIn, EligibleIn(s)), s.recoverIn)

\* When a look at the queue can next lead to a launch.
NextWake(s) ==
  IF ActiveCount(s) >= s.capacity THEN s.recoverIn
  ELSE Minimum(Maximum(s.launchIn, EligibleIn(s)), s.recoverIn)

\* scheduleRateLimitWakeup, scheduleNextRateLimitWakeup.
Wake(s) ==
  IF s.pending # <<>> /\ NextWake(s) > 0
  THEN [s EXCEPT !.limitTimer = NextWake(s)] ELSE s

\* The first queued task whose own delay is over starts.
LaunchEligible(s) ==
  LET i == CHOOSE i \in DOMAIN s.pending :
             /\ s.retryIn[s.pending[i]] = 0
             /\ \A j \in 1 .. i - 1 : s.retryIn[s.pending[j]] > 0
  IN  [Started(s, {s.pending[i]}) EXCEPT
         !.pending = RemoveAt(@, i), !.launchIn = s.interval]

\* Nothing stands in the way of a launch now.
MayLaunch(s) ==
  ActiveCount(s) < s.capacity /\ s.launchIn = 0 /\ EligibleIn(s) = 0

\* scheduleRateLimitLaunch.
LimitedLaunch(s) ==
  LET u == Recovered([s EXCEPT !.limitTimer = Off])
  IN  IF s.pending = <<>> THEN [s EXCEPT !.limitTimer = Off]
      ELSE Wake(IF MayLaunch(u) THEN LaunchEligible(u) ELSE u)

\* cleanup: no timer and no attempt is listened to any more.
CleanedUp(s, end) ==
  [s EXCEPT !.end = end, !.rampTimer = Off, !.limitTimer = Off, !.active = {}]

AllSettled(s) == \A t \in Task : s.result[t] # "none"

\* schedule: finish, or launch what the phase allows.
Scheduled(s) ==
  IF AllSettled(s) THEN CleanedUp(s, "resolved")
  ELSE IF s.limited THEN LimitedLaunch(s) ELSE RampUp(s)

\* The subagents that run once the batch has gone from s to u.
Live(s, u) == [t \in Task |-> IF t \in u.active \ s.active THEN "starting" ELSE live[t]]

\* The subagent of t has got a first request accepted, or is known by its id.
WasStarted(s, t) == t \in s.begun \cup s.known

\* What finishWithUserCancellation reports for t.
CancelledResult(s, t) ==
  IF s.result[t] # "none" THEN s.result[t]
  ELSE IF WasStarted(s, t) THEN "started" ELSE "not_started"

\* finishWithUserCancellation: the results there are stay.
UserCancelled(s) ==
  CleanedUp([s EXCEPT !.result = [t \in Task |-> CancelledResult(s, t)]],
            "resolved")

NewBatch ==
  [pending |-> [i \in Task |-> i], active |-> {}, ready |-> {}, begun |-> {},
   known |-> {}, retryDelay |-> [t \in Task |-> RetryBase],
   retryIn |-> [t \in Task |-> 0], result |-> [t \in Task |-> "none"],
   launches |-> 0, readyCount |-> 0, rampTimer |-> Off, limitTimer |-> Off,
   limited |-> FALSE, capacity |-> 1, interval |-> RetryBase, launchIn |-> 0,
   shrinkIn |-> 0, recoverIn |-> 0, end |-> "no"]

\* run: its signal may be aborted already.
Init ==
  /\ b \in {Scheduled(NewBatch), UserCancelled(NewBatch),
            CleanedUp(NewBatch, "rejected")}
  /\ live = [t \in Task |-> IF t \in b.active THEN "starting" ELSE "none"]
  /\ told = {}
  /\ limits = 0
-----------------------------------------------------------------------------
(* What subagents report.  A report of an attempt the batch has let go of  *)
(* (releaseAttempt finds nothing to delete) changes nothing.               *)

Listening(t) == t \in b.active /\ b.end = "no"

\* The launcher's promise resolves with the handle of the subagent.
Launched(t) ==
  /\ live[t] = "starting"
  /\ live' = [live EXCEPT ![t] = "running"]
  /\ b' = [b EXCEPT !.known = @ \cup {t}]
  /\ UNCHANGED <<told, limits>>

\* markAttemptReady: the subagent's first request was accepted.
Ready(t) ==
  /\ live[t] = "running" /\ t \notin told
  /\ Listening(t) /\ t \notin b.ready
  /\ LET s == [b EXCEPT !.ready = @ \cup {t}, !.begun = @ \cup {t}]
     IN  b' = IF s.limited
              THEN Scheduled([s EXCEPT !.interval = RetryBase,
                                       !.launchIn = RetryBase])
              ELSE [s EXCEPT !.readyCount = @ + 1]
  /\ live' = Live(b, b')
  /\ UNCHANGED <<told, limits>>

\* The attempt of t is over; the batch takes note as s if it still listens.
Ends(t, s) ==
  /\ b' = IF Listening(t) THEN Scheduled([s EXCEPT !.active = @ \ {t}]) ELSE b
  /\ live' = [Live(b, b') EXCEPT ![t] = "none"]
  /\ told' = told \ {t}

\* The subagent completes.
Completes(t) ==
  /\ live[t] = "running" /\ t \notin told
  /\ Ends(t, [b EXCEPT !.result[t] = "completed"])
  /\ UNCHANGED limits

\* The launch or the subagent fails, its abort included.
Fails(t) ==
  /\ live[t] # "none"
  /\ Ends(t, [b EXCEPT !.result[t] = "failed"])
  /\ UNCHANGED limits

\* isOnlyUnfinishedTask.
OnlyUnfinished(t) == \A u \in Task \ {t} : b.result[u] # "none"

\* shrinkRateLimitCapacity.
Shrunk(s) ==
  [s EXCEPT !.capacity = Maximum(1, @ - 1), !.shrinkIn = ShrinkInterval]

\* enterRateLimitMode: the first rate limit ends the ramp.
Limited(s) ==
  IF s.limited
  THEN IF s.shrinkIn > 0 THEN s ELSE Shrunk(s)
  ELSE Shrunk([s EXCEPT !.limited = TRUE, !.rampTimer = Off,
                        !.capacity = Maximum(1, s.readyCount),
                        !.launchIn = Maximum(@, RetryBase)])

\* Mutant: the task keeps its result slot open but is not queued again.
PendingWithout(s, t) == s.pending

\* The task goes to the front of the queue.
PendingWith(s, t) == <<t>> \o s.pending

\* requeueRateLimited.  The delay of the next retry is kept instead of retryCount.
Requeued(s, t) ==
  LET delay == s.retryDelay[t]
      u == Limited([s EXCEPT !.retryDelay[t] = 2 * @, !.retryIn[t] = delay,
                             !.pending = PendingWith(s, t),
                             !.recoverIn = RecoveryInterval])
      interval == Maximum(u.interval * 2, delay)
  IN  IF t \in s.ready
      THEN [u EXCEPT !.launchIn = Maximum(@, RetryBase)]
      ELSE [u EXCEPT !.interval = interval, !.launchIn = Maximum(@, interval)]

\* Mutant: a rate-limited task waits whatever is left.
AlwaysRequeued(s, t) == Requeued(s, t)

\* handleAttemptOutcome for a rate limit: try again, unless nothing else is
\* left to wait for.
AfterLimit(s, t) ==
  IF OnlyUnfinished(t) THEN [s EXCEPT !.result[t] = "failed"] ELSE Requeued(s, t)

\* The provider answers the subagent with a rate limit.
RateLimited(t) ==
  /\ live[t] = "running" /\ t \notin told
  /\ limits < MaxLimits
  /\ limits' = limits + 1
  /\ Ends(t, AfterLimit(b, t))

\* The timeout of one task: its attempt is told to stop.
Timeout(t) ==
  /\ live[t] # "none" /\ t \notin told /\ Listening(t)
  /\ told' = told \cup {t}
  /\ UNCHANGED <<b, live, limits>>
-----------------------------------------------------------------------------
(* Cancellation, timers and time.                                          *)

\* Mutant: the batch lets go of its attempts before it aborts them.
ToldNobody(s) == told

\* The attempts controller.abort reaches: those that listen to the batch.
ToldAll(s) == told \cup s.active

\* batchAbortListener: a user cancellation keeps what is known, any other
\* abort rejects.
UserCancel ==
  /\ b.end = "no"
  /\ told' = ToldAll(b)
  /\ b' = UserCancelled(b)
  /\ UNCHANGED <<live, limits>>

OtherAbort ==
  /\ b.end = "no"
  /\ told' = ToldAll(b)
  /\ b' = CleanedUp(b, "rejected")
  /\ UNCHANGED <<live, limits>>

\* The timer of scheduleNormalLaunch.
RampFires ==
  /\ b.rampTimer = 0
  /\ LET s == [b EXCEPT !.rampTimer = Off]
     IN  b' = IF s.pending # <<>> /\ ~ AtConcurrencyLimit(s)
              THEN Scheduled([Started(s, {Head(s.pending)}) EXCEPT
                                !.pending = Tail(@), !.launches = @ + 1])
              ELSE s
  /\ live' = Live(b, b')
  /\ UNCHANGED <<told, limits>>

\* The timer of scheduleRateLimitWakeup.
LimitFires ==
  /\ b.limitTimer = 0
  /\ b' = Scheduled([b EXCEPT !.limitTimer = Off])
  /\ live' = Live(b, b')
  /\ UNCHANGED <<told, limits>>

Passed(x) == IF x > 0 THEN x - 1 ELSE x

\* One unit of time passes; a timer that is due may fire late.
Tick ==
  /\ b.end = "no"
  /\ b' = [b EXCEPT !.retryIn = [t \in Task |-> Passed(@[t])],
                    !.rampTimer = Passed(@), !.limitTimer = Passed(@),
                    !.launchIn = Passed(@), !.shrinkIn = Passed(@),
                    !.recoverIn = Passed(@)]
  /\ UNCHANGED <<live, told, limits>>

Over(t) == Completes(t) \/ Fails(t) \/ RateLimited(t)

Next ==
  \/ \E t \in Task : Launched(t) \/ Ready(t) \/ Over(t) \/ Timeout(t)
  \/ UserCancel \/ OtherAbort \/ RampFires \/ LimitFires \/ Tick

\* Time passes, timers fire and every subagent ends, aborted or not.
Fairness ==
  /\ WF_vars(Tick) /\ WF_vars(RampFires) /\ WF_vars(LimitFires)
  /\ \A t \in Task : WF_vars(Over(t))

Spec == Init /\ [][Next]_vars /\ Fairness
-----------------------------------------------------------------------------
(* Properties.                                                             *)

\* Until the batch ends every task is in one place only: queued once, in one
\* active attempt, or settled (pending, active and results).
OnePlace ==
  b.end = "no" =>
    \A t \in Task :
      LET queued == {i \in DOMAIN b.pending : b.pending[i] = t}
      IN  IF t \in b.active \/ b.result[t] # "none"
          THEN queued = {} /\ ~ (t \in b.active /\ b.result[t] # "none")
          ELSE Cardinality(queued) = 1

\* Queued work never waits for nothing: a timer will look at the queue, or
\* an attempt whose end will (scheduleNormalLaunch, scheduleRateLimitLaunch).
NoStall ==
  b.end = "no" /\ b.pending # <<>> =>
    IF b.limited THEN b.limitTimer # Off
    ELSE b.rampTimer # Off \/ AtConcurrencyLimit(b)

\* During the ramp no more subagents run than the configured cap allows.
ConcurrencyCap == b.end = "no" /\ ~ b.limited => ActiveCount(b) <= MaxConcurrency

\* A rate-limited launch adds one subagent, within the capacity, and a task
\* that was rate limited is not tried again before its own delay.
PacedLaunches ==
  [][b.limited /\ b.end = "no" =>
       \A t \in b'.active \ b.active :
         /\ b'.active \ b.active = {t}
         /\ ActiveCount(b') <= b'.capacity
         /\ b.retryIn[t] = 0]_vars

\* A settled task keeps its result, cancelled or not.
ResultsKept ==
  [][\A t \in Task : b.result[t] # "none" => b'.result[t] = b.result[t]]_vars

\* The last unfinished task never suspends the batch: whatever ends its
\* attempt, a rate limit included, ends the batch (isOnlyUnfinishedTask).
LastOneEnds ==
  [][\A t \in Task :
       /\ b.end = "no" /\ t \in b.active /\ t \notin b'.active
       /\ \A u \in Task \ {t} : b.result[u] # "none"
       => b'.end # "no"]_vars

\* A resolved batch has a result for every task, and none that was under way
\* is reported as not started.
CompleteResults ==
  b.end = "resolved" =>
    \A t \in Task : /\ b.result[t] # "none"
                    /\ t \in b.begun => b.result[t] # "not_started"

\* No subagent outlives its batch unsupervised: when the batch is over every
\* live one has been told to stop (batchAbortListener, cleanup).
NoneUnsupervised ==
  b.end # "no" => \A t \in Task : live[t] # "none" => t \in told

\* The bookkeeping of the batch: types, one place for every task, a result for each when
\* it is over, and never more subagents than the ramp's cap.
BatchOK == TypeOK /\ OnePlace /\ CompleteResults /\ ConcurrencyCap

\* What one step may never do: launch too many, drop a result, suspend the last task.
StepsOK == PacedLaunches /\ ResultsKept /\ LastOneEnds

\* The batch ends when subagents end: no task is suspended for ever while the
\* provider's rate limits are finitely many.
BatchEnds == <>(b.end # "no")
=============================================================================
