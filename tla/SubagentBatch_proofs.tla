------------------------ MODULE SubagentBatch_proofs ------------------------
(***************************************************************************)
(* Proofs about SubagentBatch, for any number of tasks and rate limits and *)
(* any intervals: every task is in one place and gets its result, queued   *)
(* work never waits for nothing, and no subagent outlives its batch        *)
(* unsupervised.                                                           *)
(***************************************************************************)
EXTENDS SubagentBatch, SequenceTheorems, FiniteSetTheorems, WellFoundedInduction, TLAPS

\* A batch, as a record.
Batch ==
  [pending : Seq(Task), active : SUBSET Task, ready : SUBSET Task, begun : SUBSET Task,
   known : SUBSET Task, retryDelay : [Task -> Nat \ {0}], retryIn : [Task -> Nat],
   result : [Task -> Results], launches : Nat, readyCount : 0 .. N,
   rampTimer : Nat \cup {Off}, limitTimer : Nat \cup {Off}, limited : BOOLEAN,
   capacity : Nat \ {0}, interval : Nat \ {0}, launchIn : Nat, shrinkIn : Nat,
   recoverIn : Nat, end : {"no", "resolved", "rejected"}]

\* Nothing waits twice in a queue.
Distinct(q) == \A i, j \in DOMAIN q : q[i] = q[j] => i = j

\* The tasks of a queue.
In(q) == {q[i] : i \in DOMAIN q}

\* The tasks that wait.
Waiting(s) == In(s.pending)

\* Every task waits once, is active or has its result.
Places(s) ==
  /\ Distinct(s.pending)
  /\ \A t \in Task : t \in Waiting(s) => t \notin s.active /\ s.result[t] = "none"
  /\ \A t \in Task : t \in s.active => s.result[t] = "none"
  /\ \A t \in Task : s.result[t] = "none" => t \in Waiting(s) \/ t \in s.active

\* During the ramp no task has been tried twice.
FirstAttempts(s) ==
  /\ s.ready = s.begun /\ s.readyCount = Cardinality(s.begun)
  /\ \A t \in s.begun : t \notin Waiting(s)

\* A batch that is not over, whether or not it has looked at its queue.
Sound(s) ==
  /\ s \in Batch /\ s.end = "no" /\ Places(s)
  /\ \A t \in Task : s.result[t] \notin {"started", "not_started"}
  /\ s.limited => s.rampTimer = Off
  /\ ~ s.limited => ActiveCount(s) <= MaxConcurrency /\ FirstAttempts(s)

\* It has looked at its queue: what is left will be looked at again.
Awake(s) ==
  s.pending # <<>> =>
    IF s.limited THEN s.limitTimer # Off
    ELSE s.rampTimer # Off \/ AtConcurrencyLimit(s)

\* A batch that is over.
Closed(s) ==
  /\ s \in Batch /\ s.end # "no" /\ s.active = {}
  /\ s.rampTimer = Off /\ s.limitTimer = Off
  /\ s.end = "resolved" =>
       \A t \in Task : s.result[t] # "none" /\ (t \in s.begun => s.result[t] # "not_started")

\* The inductive invariant: what the batch knows, and whom it has told to stop.
IInv ==
  /\ b \in Batch
  /\ live \in [Task -> {"none", "starting", "running"}] /\ told \in SUBSET Task
  /\ limits \in 0 .. MaxLimits
  /\ b.end = "no" => Sound(b) /\ Awake(b) /\ \A t \in Task : live[t] # "none" <=> t \in b.active
  /\ b.end # "no" => Closed(b) /\ \A t \in Task : live[t] # "none" => t \in told

-----------------------------------------------------------------------------
(* Numbers, sets and sequences.                                            *)

\* A set of numbers has a least one.
LEMMA Least ==
  ASSUME NEW S, S \subseteq Nat, S # {}
  PROVE  \E x \in S : \A y \in S : x <= y
<1> DEFINE R == OpToRel(<, Nat)
<1>1. IsWellFoundedOn(R, Nat)
  BY NatLessThanWellFounded
<1>2. \A y, z \in Nat : <<y, z>> \in R <=> y < z
  BY DEF OpToRel
<1> HIDE DEF R
<1>3. PICK x \in S : \A y \in S : ~ (<<y, x>> \in R)
  BY <1>1, WFMin
<1>4. \A y \in S : ~ (y < x)
  BY <1>2, <1>3, Zenon
<1> QED BY <1>3, <1>4

\* The constants are positive.
LEMMA Positive ==
  /\ N \in Nat /\ MaxLimits \in Nat
  /\ LaunchLimit \in Nat \ {0} /\ RampInterval \in Nat \ {0} /\ RetryBase \in Nat \ {0}
  /\ ShrinkInterval \in Nat \ {0} /\ RecoveryInterval \in Nat \ {0}
  /\ MaxConcurrency \in Nat \ {0}
BY SubagentAssumption

\* Tasks can be counted.
LEMMA TasksFinite ==
  ASSUME NEW S \in SUBSET Task
  PROVE  IsFiniteSet(S) /\ Cardinality(S) \in 0 .. N
<1>1. IsFiniteSet(Task) /\ Cardinality(Task) = N
  BY Positive, FS_Interval DEF Task
<1>2. IsFiniteSet(S) /\ Cardinality(S) <= N
  BY <1>1, FS_Subset
<1>3. Cardinality(S) \in Nat
  BY <1>2, FS_CardinalityType
<1> QED BY <1>2, <1>3, Positive

\* One task more.
LEMMA OneMore ==
  ASSUME NEW S \in SUBSET Task, NEW t \in Task, t \notin S
  PROVE  Cardinality(S \cup {t}) = Cardinality(S) + 1
BY TasksFinite, FS_AddElement

\* Some tasks more.
LEMMA SomeMore ==
  ASSUME NEW S \in SUBSET Task, NEW T \in SUBSET Task
  PROVE  Cardinality(S \cup T) <= Cardinality(S) + Cardinality(T)
<1>1. IsFiniteSet(S) /\ IsFiniteSet(T) /\ Cardinality(S \cap T) \in Nat
  BY TasksFinite
<1>2. Cardinality(S \cup T) = Cardinality(S) + Cardinality(T) - Cardinality(S \cap T)
  BY <1>1, FS_Union
<1> QED BY <1>1, <1>2, TasksFinite

\* The first k of a queue are k at most.
LEMMA FirstFew ==
  ASSUME NEW q \in Seq(Task), NEW k \in 0 .. Len(q)
  PROVE  /\ {q[i] : i \in 1 .. k} \in SUBSET Task
         /\ Cardinality({q[i] : i \in 1 .. k}) <= k
<1> DEFINE T == {q[i] : i \in 1 .. k}
           f == [i \in 1 .. k |-> q[i]]
<1>1. T \in SUBSET Task
  OBVIOUS
<1>2. f \in Surjection(1 .. k, T)
  BY DEF Surjection
<1>3. IsFiniteSet(1 .. k) /\ Cardinality(1 .. k) = k
  BY FS_Interval
<1> HIDE DEF T, f
<1>4. Cardinality(T) <= k
  BY <1>2, <1>3, FS_Surjection
<1> QED BY <1>1, <1>4 DEF T

\* A queue r that is q without its first k.
LEMMA Shifted ==
  ASSUME NEW q \in Seq(Task), Distinct(q), NEW k \in 0 .. Len(q), NEW r \in Seq(Task),
         Len(r) = Len(q) - k, \A i \in 1 .. Len(q) - k : r[i] = q[k + i]
  PROVE  Distinct(r) /\ In(r) = In(q) \ {q[i] : i \in 1 .. k}
<1> DEFINE n == Len(q)
<1>0. n \in Nat /\ DOMAIN r = 1 .. n - k /\ DOMAIN q = 1 .. n
  OBVIOUS
<1>1. \A i \in 1 .. n - k : r[i] = q[k + i] /\ k + i \in 1 .. n
  BY <1>0
<1>2. \A i, j \in 1 .. n : q[i] = q[j] => i = j
  BY <1>0 DEF Distinct
<1> HIDE DEF n
<1>3. Distinct(r)
  <2> SUFFICES ASSUME NEW i \in 1 .. n - k, NEW j \in 1 .. n - k, r[i] = r[j] PROVE i = j
    BY <1>0 DEF Distinct
  <2>1. k + i = k + j
    BY <1>1, <1>2
  <2> QED BY <2>1, <1>0
<1>4. ASSUME NEW x \in In(r) PROVE x \in In(q) /\ x \notin {q[i] : i \in 1 .. k}
  <2>1. PICK i \in 1 .. n - k : x = r[i]
    BY <1>0, <1>4 DEF In
  <2>2. x = q[k + i] /\ k + i \in 1 .. n
    BY <1>1, <2>1
  <2>3. ASSUME NEW j \in 1 .. k, q[j] = x PROVE FALSE
    <3>1. j = k + i
      BY <1>0, <1>2, <2>2, <2>3
    <3> QED BY <3>1
  <2> QED BY <1>0, <2>2, <2>3 DEF In
<1>5. ASSUME NEW x \in In(q), x \notin {q[i] : i \in 1 .. k} PROVE x \in In(r)
  <2>1. PICK i \in 1 .. n : x = q[i]
    BY <1>0, <1>5 DEF In
  <2>2. ~ (i \in 1 .. k)
    BY <1>5, <2>1
  <2>3. i - k \in 1 .. n - k /\ k + (i - k) = i
    BY <1>0, <2>2
  <2>4. r[i - k] = x
    BY <1>1, <2>1, <2>3
  <2> QED BY <1>0, <2>3, <2>4 DEF In
<1> QED BY <1>3, <1>4, <1>5

\* What is left of a queue without its first k.
LEMMA WithoutFirst ==
  ASSUME NEW q \in Seq(Task), Distinct(q), NEW k \in 0 .. Len(q)
  PROVE  LET r == SubSeq(q, k + 1, Len(q))
         IN  r \in Seq(Task) /\ Distinct(r) /\ In(r) = In(q) \ {q[i] : i \in 1 .. k}
<1> DEFINE r == SubSeq(q, k + 1, Len(q))
<1>1. /\ r \in Seq(Task) /\ Len(r) = Len(q) - k
      /\ \A i \in 1 .. Len(q) - k : r[i] = q[k + i]
  BY SubSeqProperties
<1> HIDE DEF r
<1>2. Distinct(r) /\ In(r) = In(q) \ {q[i] : i \in 1 .. k}
  BY <1>1, Shifted
<1> QED BY <1>1, <1>2 DEF r

\* A queue r that is q without its i-th.
LEMMA Skipped ==
  ASSUME NEW q \in Seq(Task), Distinct(q), NEW i \in 1 .. Len(q), NEW r \in Seq(Task),
         Len(r) = Len(q) - 1,
         \A j \in 1 .. Len(q) - 1 : r[j] = IF j < i THEN q[j] ELSE q[j + 1]
  PROVE  Distinct(r) /\ In(r) = In(q) \ {q[i]}
<1> DEFINE n == Len(q)
           from(j) == IF j < i THEN j ELSE j + 1
<1>0. n \in Nat /\ DOMAIN r = 1 .. n - 1 /\ DOMAIN q = 1 .. n /\ i \in 1 .. n
  OBVIOUS
<1>1. \A j \in 1 .. n - 1 : r[j] = q[from(j)]
  OBVIOUS
<1>2. \A j, k \in 1 .. n : q[j] = q[k] => j = k
  BY <1>0 DEF Distinct
<1> HIDE DEF n
<1>3. \A j \in 1 .. n - 1 : from(j) \in 1 .. n /\ from(j) # i
  BY <1>0
<1>4. \A j, k \in 1 .. n - 1 : from(j) = from(k) => j = k
  BY <1>0
<1>5. \A k \in 1 .. n : k # i => \E j \in 1 .. n - 1 : from(j) = k
  <2> SUFFICES ASSUME NEW k \in 1 .. n, k # i PROVE \E j \in 1 .. n - 1 : from(j) = k
    OBVIOUS
  <2>1. CASE k < i
    <3>1. k \in 1 .. n - 1 /\ from(k) = k
      BY <1>0, <2>1
    <3> QED BY <3>1
  <2>2. CASE k > i
    <3>1. k - 1 \in 1 .. n - 1 /\ from(k - 1) = k
      BY <1>0, <2>2
    <3> QED BY <3>1
  <2> QED BY <1>0, <2>1, <2>2
<1> HIDE DEF from
<1>6. Distinct(r)
  BY <1>0, <1>1, <1>2, <1>3, <1>4 DEF Distinct
<1>7. ASSUME NEW x \in In(r) PROVE x \in In(q) /\ x # q[i]
  <2>1. PICK j \in 1 .. n - 1 : x = r[j]
    BY <1>0, <1>7 DEF In
  <2>2. x = q[from(j)] /\ from(j) \in 1 .. n /\ from(j) # i
    BY <1>1, <1>3, <2>1
  <2> QED BY <1>0, <1>2, <2>2 DEF In
<1>8. ASSUME NEW x \in In(q), x # q[i] PROVE x \in In(r)
  <2>1. PICK k \in 1 .. n : x = q[k] /\ k # i
    BY <1>0, <1>8 DEF In
  <2>2. PICK j \in 1 .. n - 1 : from(j) = k
    BY <1>5, <2>1
  <2> QED BY <1>0, <1>1, <2>1, <2>2 DEF In
<1> QED BY <1>6, <1>7, <1>8

\* What is left of a queue without its i-th.
LEMMA WithoutOne ==
  ASSUME NEW q \in Seq(Task), Distinct(q), NEW i \in 1 .. Len(q)
  PROVE  LET r == RemoveAt(q, i)
         IN  r \in Seq(Task) /\ Distinct(r) /\ In(r) = In(q) \ {q[i]}
<1> DEFINE front == SubSeq(q, 1, i - 1)
           back == SubSeq(q, i + 1, Len(q))
           r == RemoveAt(q, i)
<1>1. /\ front \in Seq(Task) /\ Len(front) = i - 1
      /\ \A j \in 1 .. i - 1 : front[j] = q[j]
  BY SubSeqProperties
<1>2. /\ back \in Seq(Task) /\ Len(back) = Len(q) - i
      /\ \A j \in 1 .. Len(q) - i : back[j] = q[i + j]
  BY SubSeqProperties
<1>3. r = front \o back
  BY DEF RemoveAt
<1> HIDE DEF front, back, r
<1>4. /\ r \in Seq(Task) /\ Len(r) = (i - 1) + (Len(q) - i)
      /\ \A j \in 1 .. (i - 1) + (Len(q) - i) :
           r[j] = IF j <= i - 1 THEN front[j] ELSE back[j - (i - 1)]
  <2> DEFINE m == Len(front)
             l == Len(back)
  <2>1. /\ r \in Seq(Task) /\ Len(r) = m + l
        /\ \A j \in 1 .. m + l : r[j] = IF j <= m THEN front[j] ELSE back[j - m]
    BY <1>1, <1>2, <1>3, ConcatProperties
  <2>2. m = i - 1 /\ l = Len(q) - i
    BY <1>1, <1>2
  <2> HIDE DEF m, l
  <2> QED BY <2>1, <2>2
<1>5. Len(q) \in Nat /\ Len(r) = Len(q) - 1
  BY <1>4
<1>6. ASSUME NEW j \in 1 .. Len(q) - 1 PROVE r[j] = IF j < i THEN q[j] ELSE q[j + 1]
  <2>1. CASE j < i
    <3>1. j \in 1 .. i - 1 /\ j \in 1 .. (i - 1) + (Len(q) - i)
      BY <1>5, <2>1
    <3>2. r[j] = front[j] /\ front[j] = q[j]
      BY <1>1, <1>4, <3>1
    <3> QED BY <2>1, <3>2
  <2>2. CASE j >= i
    <3>1. j - (i - 1) \in 1 .. Len(q) - i /\ i + (j - (i - 1)) = j + 1
      BY <1>5, <2>2
    <3>2. back[j - (i - 1)] = q[j + 1]
      BY <1>2, <3>1
    <3> QED BY <1>4, <1>5, <2>2, <3>2
  <2> QED BY <2>1, <2>2
<1>7. Distinct(r) /\ In(r) = In(q) \ {q[i]}
  BY <1>4, <1>5, <1>6, Skipped
<1> QED BY <1>4, <1>7 DEF r

-----------------------------------------------------------------------------
(* Launching.                                                              *)

\* Some waiting tasks become active; nothing else that concerns a task changes.
Moves(s, u, T) ==
  /\ u \in Batch
  /\ T \subseteq Waiting(s) /\ Distinct(u.pending) /\ Waiting(u) = Waiting(s) \ T
  /\ u.active = s.active \cup T /\ u.ready = s.ready \ T
  /\ u.result = s.result /\ u.begun = s.begun /\ u.known = s.known
  /\ u.retryIn = s.retryIn /\ u.readyCount = s.readyCount
  /\ u.limited = s.limited /\ u.end = s.end

\* A queue holds tasks.
LEMMA WaitingTasks == ASSUME NEW s \in Batch PROVE Waiting(s) \subseteq Task
BY DEF Batch, Waiting, In

\* Tasks that move keep to one place.
LEMMA MovesSound ==
  ASSUME NEW s, Sound(s), NEW u, NEW T, Moves(s, u, T),
         u.limited => u.rampTimer = Off,
         ~ u.limited => ActiveCount(u) <= MaxConcurrency
  PROVE  Sound(u)
<1>1. Places(u)
  BY WaitingTasks DEF Sound, Moves, Places
<1>2. ~ u.limited => FirstAttempts(u)
  BY DEF Sound, Moves, FirstAttempts
<1> QED BY <1>1, <1>2 DEF Sound, Moves

\* The ramp starts no more than the cap allows, and leaves a timer behind or the cap.
LEMMA RampUpMoves ==
  ASSUME NEW s, Sound(s), ~ s.limited
  PROVE  \E T : Moves(s, RampUp(s), T) /\ Sound(RampUp(s)) /\ Awake(RampUp(s))
<1> DEFINE k == RampStep(s)
           T == {s.pending[i] : i \in 1 .. k}
           v == Started(s, T)
           rest == SubSeq(s.pending, k + 1, Len(s.pending))
           u == [v EXCEPT !.pending = SubSeq(@, k + 1, Len(@)), !.launches = @ + k]
           wait == u.pending # <<>> /\ u.rampTimer = Off /\ ~ AtConcurrencyLimit(u)
           w == [u EXCEPT !.rampTimer = RampInterval]
<1>0. s \in Batch /\ Places(s) /\ Distinct(s.pending) /\ s.pending \in Seq(Task)
  BY DEF Sound, Places, Batch
<1>1. s.active \in SUBSET Task /\ ActiveCount(s) \in 0 .. N /\ ActiveCount(s) <= MaxConcurrency
  BY <1>0, TasksFinite DEF Sound, Batch, ActiveCount
<1>2. /\ k \in 0 .. Len(s.pending)
      /\ k = 0 \/ k <= MaxConcurrency - ActiveCount(s)
  <2>1. s.launches \in Nat /\ Len(s.pending) \in Nat
    BY <1>0 DEF Batch
  <2> QED BY <1>1, <2>1, Positive DEF RampStep, Minimum, Maximum
<1>3. RampUp(s) = IF wait THEN w ELSE u
  BY DEF RampUp
<1> HIDE DEF k
<1>4. T \in SUBSET Task /\ Cardinality(T) <= k
  BY <1>0, <1>2, FirstFew
<1>5. rest \in Seq(Task) /\ Distinct(rest) /\ In(rest) = In(s.pending) \ T
  BY <1>0, <1>2, WithoutFirst
<1>6. T \subseteq In(s.pending)
  BY <1>0, <1>2 DEF In
<1> HIDE DEF T
<1>7. u = [s EXCEPT !.active = s.active \cup T, !.ready = s.ready \ T, !.pending = rest,
                    !.launches = s.launches + k]
  BY <1>0 DEF Started, Batch
<1> HIDE DEF u, rest
<1>8. u \in Batch
  <2>1. s.active \cup T \in SUBSET Task /\ s.ready \ T \in SUBSET Task
    BY <1>0, <1>4 DEF Batch
  <2>2. s.launches + k \in Nat
    BY <1>0, <1>2 DEF Batch
  <2> QED BY <1>0, <1>5, <1>7, <2>1, <2>2 DEF Batch
<1>9. Moves(s, u, T)
  BY <1>0, <1>5, <1>6, <1>7, <1>8 DEF Moves, Waiting, Batch
<1>10. ActiveCount(u) <= MaxConcurrency
  <2>1. Cardinality(s.active \cup T) <= Cardinality(s.active) + Cardinality(T)
    BY <1>1, <1>4, SomeMore
  <2>2. Cardinality(T) \in Nat /\ Cardinality(s.active \cup T) \in Nat
    BY <1>1, <1>4, TasksFinite
  <2>3. ActiveCount(u) = Cardinality(s.active \cup T) /\ ActiveCount(s) = Cardinality(s.active)
    BY <1>9 DEF ActiveCount, Moves
  <2>4. k \in Int /\ MaxConcurrency \in Int /\ ActiveCount(s) \in Int
    BY <1>1, <1>2, Positive
  <2> QED BY <1>1, <1>2, <1>4, <2>1, <2>2, <2>3, <2>4
<1>11. w \in Batch /\ w.pending = u.pending /\ w.active = u.active /\ w.rampTimer = RampInterval
  BY <1>8, Positive DEF Batch
<1>12. Moves(s, w, T)
  BY <1>8, <1>9, <1>11 DEF Moves, Waiting, Batch
<1>13. ActiveCount(w) <= MaxConcurrency
  BY <1>10, <1>11 DEF ActiveCount
<1>14. ~ u.limited /\ ~ w.limited
  BY <1>9, <1>12 DEF Moves
<1> HIDE DEF w
<1>15. Sound(u) /\ Sound(w)
  BY <1>9, <1>10, <1>12, <1>13, <1>14, MovesSound
<1>16. Awake(w)
  BY <1>11, <1>14, Positive DEF Awake, Off
<1>17. ~ wait => Awake(u)
  BY <1>14 DEF Awake
<1> HIDE DEF wait
<1>18. CASE wait
  BY <1>3, <1>12, <1>15, <1>16, <1>18
<1>19. CASE ~ wait
  BY <1>3, <1>9, <1>15, <1>17, <1>19
<1> QED BY <1>18, <1>19

\* The earliest time a queued task may be launched is that of some queued task.
LEMMA Eligible ==
  ASSUME NEW s \in Batch, s.pending # <<>>
  PROVE  /\ EligibleIn(s) \in Nat
         /\ \E i \in DOMAIN s.pending : s.retryIn[s.pending[i]] = EligibleIn(s)
<1> DEFINE times == {s.retryIn[s.pending[i]] : i \in DOMAIN s.pending}
<1>1. \A i \in DOMAIN s.pending : s.pending[i] \in Task
  BY DEF Batch
<1>2. times \subseteq Nat
  BY <1>1 DEF Batch
<1>3. times # {}
  <2>1. 1 \in DOMAIN s.pending
    BY DEF Batch
  <2> QED BY <2>1
<1>4. EligibleIn(s) = CHOOSE x \in times : \A y \in times : x <= y
  BY DEF EligibleIn
<1> HIDE DEF times
<1>5. \E x \in times : \A y \in times : x <= y
  BY <1>2, <1>3, Least
<1>6. EligibleIn(s) \in times
  BY <1>4, <1>5
<1> QED BY <1>2, <1>6 DEF times

\* A launch of the rate-limit phase takes one task, whose own delay is over.
LEMMA LaunchEligibleMoves ==
  ASSUME NEW s, Sound(s), s.limited, s.pending # <<>>, EligibleIn(s) = 0
  PROVE  /\ \E t \in Task : Moves(s, LaunchEligible(s), {t}) /\ s.retryIn[t] = 0
         /\ LaunchEligible(s).launchIn = s.interval
         /\ LaunchEligible(s).capacity = s.capacity
         /\ LaunchEligible(s).rampTimer = s.rampTimer
         /\ LaunchEligible(s).recoverIn = s.recoverIn
<1> DEFINE due == {i \in DOMAIN s.pending : s.retryIn[s.pending[i]] = 0}
           P(i) == /\ s.retryIn[s.pending[i]] = 0
                   /\ \A j \in 1 .. i - 1 : s.retryIn[s.pending[j]] > 0
           i == CHOOSE i \in DOMAIN s.pending : P(i)
<1>0. s \in Batch /\ Distinct(s.pending) /\ s.pending \in Seq(Task)
  BY DEF Sound, Places, Batch
<1>1. DOMAIN s.pending = 1 .. Len(s.pending)
  BY <1>0
<1>2. \E x \in DOMAIN s.pending : P(x)
  <2>1. due \subseteq Nat /\ due # {}
    BY <1>0, <1>1, Eligible
  <2> HIDE DEF due
  <2>2. PICK x \in due : \A y \in due : x <= y
    BY <2>1, Least
  <2>3. x \in DOMAIN s.pending /\ s.retryIn[s.pending[x]] = 0
    BY <2>2 DEF due
  <2>4. ASSUME NEW j \in 1 .. x - 1 PROVE s.retryIn[s.pending[j]] > 0
    <3>1. j \in DOMAIN s.pending /\ ~ (x <= j)
      BY <1>0, <1>1, <2>3, <2>4
    <3>2. s.retryIn[s.pending[j]] \in Nat \ {0}
      BY <1>0, <2>2, <3>1 DEF due, Batch
    <3> QED BY <3>2
  <2> QED BY <2>3, <2>4
<1>3. LaunchEligible(s) = [Started(s, {s.pending[i]}) EXCEPT
                             !.pending = RemoveAt(@, i), !.launchIn = s.interval]
  BY DEF LaunchEligible
<1>4. i \in 1 .. Len(s.pending) /\ s.retryIn[s.pending[i]] = 0
  <2> HIDE DEF P
  <2>1. i \in DOMAIN s.pending /\ P(i)
    BY <1>2
  <2> QED BY <1>1, <2>1 DEF P
<1> HIDE DEF i, P, due
<1> DEFINE t == s.pending[i]
           rest == RemoveAt(s.pending, i)
           u == LaunchEligible(s)
<1>5. rest \in Seq(Task) /\ Distinct(rest) /\ In(rest) = In(s.pending) \ {t}
  BY <1>0, <1>4, WithoutOne
<1>6. t \in Task /\ t \in In(s.pending)
  BY <1>0, <1>4 DEF In
<1>7. u = [s EXCEPT !.active = s.active \cup {t}, !.ready = s.ready \ {t}, !.pending = rest,
                    !.launchIn = s.interval]
  BY <1>0, <1>3 DEF Started, Batch
<1> HIDE DEF t, rest, u
<1>8. u \in Batch
  <2>1. s.active \cup {t} \in SUBSET Task /\ s.ready \ {t} \in SUBSET Task
    BY <1>0, <1>6 DEF Batch
  <2> QED BY <1>0, <1>5, <1>7, <2>1 DEF Batch
<1>9. Moves(s, u, {t})
  BY <1>0, <1>5, <1>6, <1>7, <1>8 DEF Moves, Waiting, Batch
<1>10. /\ u.launchIn = s.interval /\ u.capacity = s.capacity
       /\ u.rampTimer = s.rampTimer /\ u.recoverIn = s.recoverIn
  BY <1>0, <1>7 DEF Batch
<1> QED BY <1>4, <1>6, <1>9, <1>10 DEF t, u

\* Recovering capacity moves nothing.
LEMMA RecoveredMoves ==
  ASSUME NEW s, Sound(s), s.limited
  PROVE  LET u == Recovered([s EXCEPT !.limitTimer = Off])
         IN  Moves(s, u, {}) /\ u.recoverIn > 0 /\ u.pending = s.pending /\ u.rampTimer = Off
<1> DEFINE v == [s EXCEPT !.limitTimer = Off]
           w == [v EXCEPT !.capacity = @ + 1, !.recoverIn = RecoveryInterval, !.launchIn = 0]
<1>0. s \in Batch /\ Distinct(s.pending)
  BY DEF Sound, Places
<1>1. v \in Batch
  BY <1>0 DEF Batch
<1>2. w \in Batch
  <2> HIDE DEF v
  <2>1. v.capacity + 1 \in Nat \ {0}
    BY <1>1 DEF Batch
  <2> QED BY <1>1, <2>1, Positive DEF Batch
<1>3. Moves(s, v, {}) /\ v.pending = s.pending /\ v.rampTimer = Off /\ v.recoverIn = s.recoverIn
  BY <1>0, <1>1 DEF Moves, Waiting, Batch, Sound
<1>4. Moves(s, w, {}) /\ w.pending = s.pending /\ w.rampTimer = Off /\ w.recoverIn = RecoveryInterval
  BY <1>0, <1>2 DEF Moves, Waiting, Batch, Sound
<1>5. Recovered(v) = IF v.recoverIn > 0 THEN v ELSE w
  BY DEF Recovered
<1> HIDE DEF v, w
<1>6. Moves(s, Recovered(v), {}) /\ Recovered(v).recoverIn > 0
  BY <1>3, <1>4, <1>5, Positive
<1>7. Recovered(v).pending = s.pending /\ Recovered(v).rampTimer = Off
  BY <1>3, <1>4, <1>5
<1> QED BY <1>6, <1>7 DEF v

\* Waking moves nothing, and sets a timer when there is time left to wait.
LEMMA WakeMoves ==
  ASSUME NEW s, Sound(s), s.limited, s.pending # <<>> => NextWake(s) \in Nat \ {0}
  PROVE  /\ Moves(s, Wake(s), {}) /\ Wake(s).rampTimer = s.rampTimer /\ Awake(Wake(s))
         /\ Wake(s).capacity = s.capacity
<1>0. s \in Batch /\ Distinct(s.pending)
  BY DEF Sound, Places
<1> DEFINE u == [s EXCEPT !.limitTimer = NextWake(s)]
<1>1. CASE s.pending = <<>>
  BY <1>0, <1>1 DEF Wake, Moves, Awake
<1>2. CASE s.pending # <<>>
  <2>1. Wake(s) = u
    BY <1>2 DEF Wake
  <2>2. u \in Batch
    BY <1>0, <1>2 DEF Batch
  <2>3. Moves(s, u, {}) /\ u.rampTimer = s.rampTimer /\ u.capacity = s.capacity
    BY <1>0, <2>2 DEF Moves, Waiting, Batch
  <2>4. u.limitTimer # Off /\ u.limited
    BY <1>0, <1>2 DEF Batch, Off
  <2> HIDE DEF u
  <2> QED BY <2>1, <2>3, <2>4 DEF Awake
<1> QED BY <1>1, <1>2

\* One who moved and then moved again.
LEMMA MovesTwice ==
  ASSUME NEW s, NEW v, NEW u, NEW S, NEW T, Moves(s, v, S), Moves(v, u, T)
  PROVE  Moves(s, u, S \cup T)
BY DEF Moves

\* What looking at the queue may lead to in the rate-limit phase: at most one launch, of a
\* task whose delay is over, within the capacity.
OneLaunch(s, u, T) ==
  /\ Moves(s, u, T)
  /\ T = {} \/ \E t \in Task : T = {t} /\ s.retryIn[t] = 0 /\ ActiveCount(u) <= u.capacity

\* While queued work is left, something will look at it.
LEMMA SomethingWakes ==
  ASSUME NEW s \in Batch, s.pending # <<>>, s.recoverIn > 0,
         ActiveCount(s) >= s.capacity \/ s.launchIn > 0 \/ EligibleIn(s) > 0
  PROVE  NextWake(s) \in Nat \ {0}
<1>0. EligibleIn(s) \in Nat
  BY Eligible
<1>1. s.launchIn \in Nat /\ s.recoverIn \in Nat \ {0}
  BY DEF Batch
<1>2. s.capacity \in Nat /\ ActiveCount(s) \in Nat
  BY TasksFinite DEF Batch, ActiveCount
<1> QED BY <1>0, <1>1, <1>2 DEF NextWake, Minimum, Maximum

\* The rate-limit phase.
LEMMA LimitedLaunchMoves ==
  ASSUME NEW s, Sound(s), s.limited
  PROVE  /\ \E T : OneLaunch(s, LimitedLaunch(s), T)
         /\ Sound(LimitedLaunch(s)) /\ Awake(LimitedLaunch(s))
<1> DEFINE v == Recovered([s EXCEPT !.limitTimer = Off])
           q == [s EXCEPT !.limitTimer = Off]
           w == IF MayLaunch(v) THEN LaunchEligible(v) ELSE v
           u == Wake(w)
<1>0. LimitedLaunch(s) = IF s.pending = <<>> THEN q ELSE u
  BY DEF LimitedLaunch
<1>1. s \in Batch /\ Distinct(s.pending) /\ s.rampTimer = Off
  BY DEF Sound, Places
<1>2. CASE s.pending = <<>>
  <2>1. q \in Batch
    BY <1>1 DEF Batch
  <2>2. Moves(s, q, {}) /\ q.pending = <<>> /\ q.rampTimer = Off
    BY <1>1, <1>2, <2>1 DEF Moves, Waiting, Batch
  <2> HIDE DEF q
  <2>3. q.limited
    BY <2>2 DEF Moves
  <2>4. Sound(q) /\ Awake(q)
    BY <2>2, <2>3, MovesSound DEF Awake
  <2> QED BY <1>0, <1>2, <2>2, <2>4 DEF OneLaunch
<1>3. CASE s.pending # <<>>
  <2>1. Moves(s, v, {}) /\ v.recoverIn > 0 /\ v.pending = s.pending /\ v.rampTimer = Off
    BY RecoveredMoves
  <2> HIDE DEF v
  <2>2. v.limited /\ v \in Batch
    BY <2>1 DEF Moves
  <2>3. Sound(v)
    BY <2>1, <2>2, MovesSound
  <2>4. \E T : OneLaunch(s, w, T) /\ Sound(w) /\ w.limited /\ w.rampTimer = Off
                 /\ (w.pending # <<>> => NextWake(w) \in Nat \ {0})
    <3>1. CASE MayLaunch(v)
      <4>1. ActiveCount(v) < v.capacity /\ EligibleIn(v) = 0
        BY <3>1 DEF MayLaunch
      <4>2. PICK t \in Task : Moves(v, LaunchEligible(v), {t}) /\ v.retryIn[t] = 0
        BY <1>3, <2>1, <2>2, <2>3, <4>1, LaunchEligibleMoves
      <4>3. /\ LaunchEligible(v).launchIn = v.interval
            /\ LaunchEligible(v).capacity = v.capacity
            /\ LaunchEligible(v).rampTimer = v.rampTimer
            /\ LaunchEligible(v).recoverIn = v.recoverIn
        BY <1>3, <2>1, <2>2, <2>3, <4>1, LaunchEligibleMoves
      <4> DEFINE x == LaunchEligible(v)
      <4>4. w = x
        BY <3>1
      <4> HIDE DEF x, w
      <4>5. Moves(v, x, {t}) /\ x.limited /\ x.rampTimer = Off /\ x \in Batch
        BY <2>1, <2>2, <4>2, <4>3 DEF x, Moves
      <4>6. Sound(x)
        BY <2>3, <4>5, MovesSound
      <4>7. ActiveCount(x) <= x.capacity
        <5>1. t \in Waiting(v) /\ t \notin v.active
          BY <2>3, <4>5 DEF Moves, Sound, Places
        <5>2. ActiveCount(x) = ActiveCount(v) + 1
          BY <2>2, <4>5, <5>1, OneMore DEF Moves, ActiveCount, Batch
        <5>3. ActiveCount(v) \in Int /\ v.capacity \in Int /\ x.capacity = v.capacity
          BY <2>2, <4>3, TasksFinite DEF x, Batch, ActiveCount
        <5> QED BY <4>1, <5>2, <5>3
      <4>8. Moves(s, x, {t}) /\ s.retryIn[t] = 0
        <5>1. Moves(s, x, {} \cup {t})
          BY <2>1, <4>5, MovesTwice
        <5> QED BY <2>1, <4>2, <5>1 DEF Moves
      <4>9. OneLaunch(s, x, {t})
        BY <4>7, <4>8 DEF OneLaunch
      <4>10. x.pending # <<>> => NextWake(x) \in Nat \ {0}
        <5>1. x.launchIn > 0 /\ x.recoverIn > 0
          BY <2>1, <2>2, <4>3 DEF x, Batch
        <5> QED BY <4>5, <5>1, SomethingWakes
      <4> QED BY <4>4, <4>5, <4>6, <4>9, <4>10
    <3>2. CASE ~ MayLaunch(v)
      <4>1. w = v
        BY <3>2
      <4>2. ActiveCount(v) >= v.capacity \/ v.launchIn > 0 \/ EligibleIn(v) > 0
        <5>1. ActiveCount(v) \in Nat /\ v.capacity \in Nat /\ v.launchIn \in Nat
          BY <2>2, TasksFinite DEF Batch, ActiveCount
        <5>2. EligibleIn(v) \in Nat
          BY <1>3, <2>1, <2>2, Eligible
        <5> QED BY <3>2, <5>1, <5>2 DEF MayLaunch
      <4>3. NextWake(v) \in Nat \ {0}
        BY <1>3, <2>1, <2>2, <4>2, SomethingWakes
      <4> HIDE DEF w
      <4> QED BY <2>1, <2>2, <2>3, <4>1, <4>3 DEF OneLaunch
    <3> QED BY <3>1, <3>2
  <2> HIDE DEF w
  <2>5. PICK T : OneLaunch(s, w, T) /\ Sound(w) /\ w.limited /\ w.rampTimer = Off
                 /\ (w.pending # <<>> => NextWake(w) \in Nat \ {0})
    BY <2>4
  <2>6. /\ Moves(w, u, {}) /\ u.rampTimer = w.rampTimer /\ Awake(u)
        /\ u.capacity = w.capacity
    BY <2>5, WakeMoves
  <2> HIDE DEF u
  <2>7. u.limited
    BY <2>5, <2>6 DEF Moves
  <2>8. Sound(u)
    BY <2>5, <2>6, <2>7, MovesSound
  <2>9. Moves(s, u, T)
    <3>1. Moves(s, u, T \cup {})
      BY <2>5, <2>6, MovesTwice DEF OneLaunch
    <3> QED BY <3>1 DEF Moves
  <2>10. OneLaunch(s, u, T)
    BY <2>5, <2>6, <2>9 DEF OneLaunch, Moves, ActiveCount
  <2> QED BY <1>0, <1>3, <2>6, <2>8, <2>10
<1> QED BY <1>2, <1>3

\* What schedule makes of a batch: it is over when every task has its result, or it goes on
\* with some tasks launched.
Looks(s, u) ==
  \/ AllSettled(s) /\ u = CleanedUp(s, "resolved")
  \/ /\ ~ AllSettled(s) /\ Sound(u) /\ Awake(u)
     /\ \E T : Moves(s, u, T) /\ (s.limited => OneLaunch(s, u, T))

\* schedule does what Looks says.
LEMMA ScheduledLooks ==
  ASSUME NEW s, Sound(s)
  PROVE  Looks(s, Scheduled(s))
<1>1. CASE AllSettled(s)
  BY <1>1 DEF Scheduled, Looks
<1>2. CASE ~ AllSettled(s) /\ s.limited
  <2>1. Scheduled(s) = LimitedLaunch(s)
    BY <1>2 DEF Scheduled
  <2> QED BY <1>2, <2>1, LimitedLaunchMoves DEF Looks, OneLaunch
<1>3. CASE ~ AllSettled(s) /\ ~ s.limited
  <2>1. Scheduled(s) = RampUp(s)
    BY <1>3 DEF Scheduled
  <2> QED BY <1>3, <2>1, RampUpMoves DEF Looks
<1> QED BY <1>1, <1>2, <1>3

\* A batch in which nothing is active may be cleaned up.
LEMMA SettledClosed ==
  ASSUME NEW s, Sound(s), AllSettled(s)
  PROVE  Closed(CleanedUp(s, "resolved")) /\ s.active = {}
<1> DEFINE u == CleanedUp(s, "resolved")
<1>1. s \in Batch /\ Places(s) /\ \A t \in Task : s.result[t] \notin {"started", "not_started"}
  BY DEF Sound
<1>2. s.active = {}
  BY <1>1 DEF Places, AllSettled, Batch
<1>3. u \in Batch
  BY <1>1 DEF CleanedUp, Batch
<1>4. /\ u.result = s.result /\ u.active = {} /\ u.end = "resolved"
      /\ u.rampTimer = Off /\ u.limitTimer = Off
  BY <1>1 DEF CleanedUp, Batch
<1> HIDE DEF u
<1>5. Closed(u)
  BY <1>1, <1>3, <1>4 DEF Closed, AllSettled
<1> QED BY <1>2, <1>5 DEF u

-----------------------------------------------------------------------------
(* Steps.                                                                  *)

\* A launch of the rate-limit phase is one, within the capacity, of a task that has waited.
Paced ==
  b.limited /\ b.end = "no" =>
    \A t \in b'.active \ b.active :
      /\ b'.active \ b.active = {t}
      /\ ActiveCount(b') <= b'.capacity
      /\ b.retryIn[t] = 0

\* Results stay.
Kept == \A t \in Task : b.result[t] # "none" => b'.result[t] = b.result[t]

\* The end of the last attempt is the end of the batch.
LastEnds ==
  \A t \in Task :
    /\ b.end = "no" /\ t \in b.active /\ t \notin b'.active
    /\ \A u \in Task \ {t} : b.result[u] # "none"
    => b'.end # "no"

\* What every step does.
Stepped == IInv' /\ Paced /\ Kept /\ LastEnds

\* A batch that looks at its queue with everybody it had: whom it launches is alive.
LEMMA LookAfter ==
  ASSUME IInv, b.end = "no", NEW s, Sound(s), b.active \subseteq s.active,
         b' = Scheduled(s), live' = Live(b, b'), told' = told, limits' = limits,
         s.result = b.result,
         b.limited => s.limited /\ s.active = b.active /\ s.retryIn = b.retryIn
  PROVE  Stepped
<1>0. /\ Sound(b) /\ \A t \in Task : live[t] # "none" <=> t \in b.active
      /\ live \in [Task -> {"none", "starting", "running"}] /\ told \in SUBSET Task
      /\ limits \in 0 .. MaxLimits
  BY DEF IInv
<1>1. Looks(s, b')
  BY ScheduledLooks
<1>2. live' = [t \in Task |-> IF t \in b'.active \ b.active THEN "starting" ELSE live[t]]
  BY DEF Live
<1>3. live' \in [Task -> {"none", "starting", "running"}]
  BY <1>0, <1>2
<1>4. CASE AllSettled(s)
  <2>1. b' = CleanedUp(s, "resolved")
    BY <1>1, <1>4 DEF Looks
  <2>2. Closed(b') /\ s.active = {}
    BY <1>4, <2>1, SettledClosed
  <2>3. b.active = {} /\ b'.active = {} /\ b' \in Batch /\ b'.end # "no"
    BY <2>2 DEF Closed
  <2>4. \A t \in Task : live'[t] = "none"
    BY <1>0, <1>2, <2>3
  <2>5. IInv'
    BY <1>0, <1>3, <2>2, <2>3, <2>4 DEF IInv
  <2>6. b'.result = s.result
    BY <2>1 DEF CleanedUp, Sound, Batch
  <2> QED BY <2>3, <2>5, <2>6 DEF Stepped, Paced, Kept, LastEnds
<1>5. CASE ~ AllSettled(s)
  <2>1. PICK T : Moves(s, b', T) /\ (s.limited => OneLaunch(s, b', T))
    BY <1>1, <1>5 DEF Looks
  <2>2. Sound(b') /\ Awake(b') /\ b' \in Batch /\ b'.end = "no"
    BY <1>1, <1>5 DEF Looks, Sound
  <2>3. b'.active = s.active \cup T /\ b'.result = s.result
    BY <2>1 DEF Moves
  <2>4. \A t \in Task : live'[t] # "none" <=> t \in b'.active
    BY <1>0, <1>2, <2>3
  <2>5. IInv'
    BY <1>0, <1>3, <2>2, <2>4 DEF IInv
  <2>6. Kept /\ LastEnds
    BY <2>3 DEF Kept, LastEnds
  <2>7. Paced
    BY <2>1, <2>3 DEF Paced, OneLaunch
  <2> QED BY <2>5, <2>6, <2>7 DEF Stepped
<1> QED BY <1>4, <1>5

\* A batch that looks at its queue after the attempt of t: t is not launched again at once.
LEMMA EndAfter ==
  ASSUME IInv, b.end = "no", NEW t \in Task, NEW s, Sound(s), s.active = b.active \ {t},
         b' = Scheduled(s), live' = [Live(b, b') EXCEPT ![t] = "none"],
         told' = told \ {t}, limits' \in 0 .. MaxLimits, t \in b.active,
         s.result[t] # "none" \/ (s.limited /\ s.retryIn[t] # 0),
         \A u \in Task \ {t} : s.result[u] = b.result[u] /\ s.retryIn[u] = b.retryIn[u],
         b.limited => s.limited,
         (\A u \in Task \ {t} : b.result[u] # "none") => s.result[t] # "none"
  PROVE  Stepped
<1>0. /\ Sound(b) /\ \A u \in Task : live[u] # "none" <=> u \in b.active
      /\ live \in [Task -> {"none", "starting", "running"}] /\ told \in SUBSET Task
  BY DEF IInv
<1>1. Looks(s, b')
  BY ScheduledLooks
<1>2. live' = [u \in Task |-> IF u = t THEN "none"
                              ELSE IF u \in b'.active \ b.active THEN "starting" ELSE live[u]]
  BY DEF Live
<1>3. live' \in [Task -> {"none", "starting", "running"}] /\ told' \in SUBSET Task
  BY <1>0, <1>2
<1>4. b.result[t] = "none"
  BY <1>0 DEF Sound, Places
<1>5. CASE AllSettled(s)
  <2>1. b' = CleanedUp(s, "resolved")
    BY <1>1, <1>5 DEF Looks
  <2>2. Closed(b') /\ s.active = {}
    BY <1>5, <2>1, SettledClosed
  <2>3. b'.active = {} /\ b' \in Batch /\ b'.end # "no"
    BY <2>2 DEF Closed
  <2>4. \A u \in Task : live'[u] = "none"
    BY <1>0, <1>2, <2>2, <2>3
  <2>5. IInv'
    BY <1>3, <2>2, <2>3, <2>4 DEF IInv
  <2>6. b'.result = s.result
    BY <2>1 DEF CleanedUp, Sound, Batch
  <2> QED BY <1>4, <2>3, <2>5, <2>6 DEF Stepped, Paced, Kept, LastEnds
<1>6. CASE ~ AllSettled(s)
  <2>1. PICK T : Moves(s, b', T) /\ (s.limited => OneLaunch(s, b', T))
    BY <1>1, <1>6 DEF Looks
  <2>2. Sound(b') /\ Awake(b') /\ b' \in Batch /\ b'.end = "no"
    BY <1>1, <1>6 DEF Looks, Sound
  <2>3. b'.active = s.active \cup T /\ b'.result = s.result /\ T \subseteq Waiting(s)
    BY <2>1 DEF Moves
  <2>4. t \notin T
    <3>1. CASE s.result[t] # "none"
      BY <2>3, <3>1 DEF Sound, Places
    <3>2. CASE s.limited /\ s.retryIn[t] # 0
      BY <2>1, <3>2 DEF OneLaunch
    <3> QED BY <3>1, <3>2
  <2>5. \A u \in Task : live'[u] # "none" <=> u \in b'.active
    BY <1>0, <1>2, <2>3, <2>4
  <2>6. IInv'
    BY <1>3, <2>2, <2>5 DEF IInv
  <2>7. Kept
    BY <1>4, <2>3 DEF Kept
  <2>8. LastEnds
    <3> SUFFICES ASSUME NEW u \in Task, u \in b.active, u \notin b'.active,
                        \A v \in Task \ {u} : b.result[v] # "none"
                 PROVE  FALSE
      BY DEF LastEnds
    <3>1. u = t
      BY <2>3
    <3>2. AllSettled(s)
      BY <3>1 DEF AllSettled
    <3> QED BY <1>6, <3>2
  <2>9. Paced
    <3>1. T \subseteq Task /\ \A u \in T : u \notin s.active
      BY <2>3, WaitingTasks DEF Sound, Places
    <3>2. b'.active \ b.active = T
      BY <2>3, <2>4, <3>1
    <3> QED BY <2>1, <2>4, <3>1, <3>2 DEF Paced, OneLaunch
  <2> QED BY <2>6, <2>7, <2>8, <2>9 DEF Stepped
<1> QED BY <1>5, <1>6

-----------------------------------------------------------------------------
(* Attempts.                                                               *)

\* An attempt that reports after the batch is over changes nothing but itself.
LEMMA EndUnheard ==
  ASSUME IInv, NEW t \in Task, ~ Listening(t), live[t] # "none", b' = b,
         live' = [Live(b, b') EXCEPT ![t] = "none"], told' = told \ {t},
         limits' \in 0 .. MaxLimits
  PROVE  Stepped
<1>1. b.end # "no" /\ Closed(b) /\ b \in Batch
  BY DEF IInv, Listening
<1>2. live' = [u \in Task |-> IF u = t THEN "none" ELSE live[u]]
  BY DEF Live
<1>3. IInv'
  BY <1>1, <1>2 DEF IInv
<1> QED BY <1>1, <1>3 DEF Stepped, Paced, Kept, LastEnds

\* What is left when the attempt of t has its result.
LEMMA SettledSound ==
  ASSUME Sound(b), NEW t \in b.active, NEW x \in {"completed", "failed"}
  PROVE  LET s == [[b EXCEPT !.result[t] = x] EXCEPT !.active = @ \ {t}]
         IN  /\ Sound(s) /\ s.active = b.active \ {t} /\ s.limited = b.limited
             /\ s.result = [b.result EXCEPT ![t] = x] /\ s.retryIn = b.retryIn
<1> DEFINE s == [[b EXCEPT !.result[t] = x] EXCEPT !.active = @ \ {t}]
<1>0. b \in Batch /\ Places(b) /\ t \in Task
  BY DEF Sound, Batch
<1>1. s = [b EXCEPT !.result = [b.result EXCEPT ![t] = x], !.active = b.active \ {t}]
  BY <1>0 DEF Batch
<1> HIDE DEF s
<1>2. s \in Batch
  <2>1. [b.result EXCEPT ![t] = x] \in [Task -> Results] /\ b.active \ {t} \in SUBSET Task
    BY <1>0 DEF Batch, Results
  <2> QED BY <1>0, <1>1, <2>1 DEF Batch
<1>3. /\ s.pending = b.pending /\ s.active = b.active \ {t} /\ s.begun = b.begun
      /\ s.ready = b.ready /\ s.readyCount = b.readyCount /\ s.limited = b.limited
      /\ s.end = b.end /\ s.rampTimer = b.rampTimer /\ s.retryIn = b.retryIn
      /\ s.result = [b.result EXCEPT ![t] = x]
  BY <1>0, <1>1 DEF Batch
<1>4. \A u \in Task : s.result[u] = IF u = t THEN x ELSE b.result[u]
  BY <1>0, <1>3 DEF Batch
<1>5. Places(s)
  BY <1>0, <1>3, <1>4 DEF Places, Waiting
<1>6. ActiveCount(s) <= ActiveCount(b)
  <2>1. b.active \in SUBSET Task /\ s.active \in SUBSET b.active
    BY <1>0, <1>3 DEF Batch
  <2>2. IsFiniteSet(b.active)
    BY <2>1, TasksFinite
  <2> QED BY <2>1, <2>2, FS_Subset DEF ActiveCount
<1>7. ~ s.limited => ActiveCount(s) <= MaxConcurrency
  <2>0. s.active \in SUBSET Task /\ b.active \in SUBSET Task
    BY <1>0, <1>2 DEF Batch
  <2>1. ActiveCount(s) \in Int /\ ActiveCount(b) \in Int
    BY <2>0, TasksFinite DEF ActiveCount
  <2> QED BY <1>3, <1>6, <2>1, Positive DEF Sound
<1>8. ~ s.limited => FirstAttempts(s)
  BY <1>3 DEF Sound, FirstAttempts, Waiting
<1>9. Sound(s)
  BY <1>0, <1>2, <1>3, <1>4, <1>5, <1>7, <1>8 DEF Sound
<1> QED BY <1>3, <1>9 DEF s

\* An attempt that ends with a result.
LEMMA SettlesStep ==
  ASSUME IInv, NEW t \in Task, live[t] # "none", NEW x \in {"completed", "failed"},
         Ends(t, [b EXCEPT !.result[t] = x]), limits' \in 0 .. MaxLimits
  PROVE  Stepped
<1> DEFINE s == [[b EXCEPT !.result[t] = x] EXCEPT !.active = @ \ {t}]
<1>1. CASE Listening(t)
  <2>1. b.end = "no" /\ t \in b.active /\ Sound(b) /\ b \in Batch
    BY <1>1 DEF Listening, IInv
  <2>2. /\ b' = Scheduled(s) /\ live' = [Live(b, b') EXCEPT ![t] = "none"]
        /\ told' = told \ {t}
    BY <1>1 DEF Ends
  <2>3. /\ Sound(s) /\ s.active = b.active \ {t} /\ s.limited = b.limited
        /\ s.result = [b.result EXCEPT ![t] = x] /\ s.retryIn = b.retryIn
    BY <2>1, SettledSound
  <2> HIDE DEF s
  <2>4. s.result[t] = x /\ \A u \in Task \ {t} : s.result[u] = b.result[u]
    BY <2>1, <2>3 DEF Batch
  <2> QED BY <2>1, <2>2, <2>3, <2>4, EndAfter
<1>2. CASE ~ Listening(t)
  BY <1>2, EndUnheard DEF Ends
<1> QED BY <1>1, <1>2

\* The subagent of an attempt completes.
LEMMA CompletesStep == ASSUME IInv, NEW t \in Task, Completes(t) PROVE Stepped
BY SettlesStep DEF Completes, IInv

\* An attempt fails.
LEMMA FailsStep == ASSUME IInv, NEW t \in Task, Fails(t) PROVE Stepped
BY SettlesStep DEF Fails, IInv

\* A rate limit keeps the types and begins the rate-limit phase.
LEMMA LimitedKeeps ==
  ASSUME NEW s \in Batch, s.limited => s.rampTimer = Off
  PROVE  LET u == Limited(s)
         IN  /\ u \in Batch /\ u.limited /\ u.rampTimer = Off
             /\ u.pending = s.pending /\ u.active = s.active /\ u.ready = s.ready
             /\ u.result = s.result /\ u.retryIn = s.retryIn /\ u.end = s.end
             /\ u.begun = s.begun
<1> DEFINE v == [s EXCEPT !.limited = TRUE, !.rampTimer = Off,
                          !.capacity = Maximum(1, s.readyCount),
                          !.launchIn = Maximum(@, RetryBase)]
           Keeps(u) ==
             /\ u \in Batch /\ u.limited = v.limited /\ u.rampTimer = v.rampTimer
             /\ u.pending = s.pending /\ u.active = s.active /\ u.ready = s.ready
             /\ u.result = s.result /\ u.retryIn = s.retryIn /\ u.end = s.end
             /\ u.begun = s.begun
<1>1. v \in Batch
  <2>1. Maximum(1, s.readyCount) \in Nat \ {0} /\ Maximum(s.launchIn, RetryBase) \in Nat
    BY Positive DEF Batch, Maximum
  <2> QED BY <2>1 DEF Batch
<1>2. /\ v.limited /\ v.rampTimer = Off
      /\ v.pending = s.pending /\ v.active = s.active /\ v.ready = s.ready
      /\ v.result = s.result /\ v.retryIn = s.retryIn /\ v.end = s.end
      /\ v.begun = s.begun
  BY DEF Batch
<1>3. ASSUME NEW u \in Batch
      PROVE  /\ Shrunk(u) \in Batch /\ Shrunk(u).limited = u.limited
             /\ Shrunk(u).rampTimer = u.rampTimer
             /\ Shrunk(u).pending = u.pending /\ Shrunk(u).active = u.active
             /\ Shrunk(u).ready = u.ready /\ Shrunk(u).result = u.result
             /\ Shrunk(u).retryIn = u.retryIn /\ Shrunk(u).end = u.end
             /\ Shrunk(u).begun = u.begun
  <2>1. Maximum(1, u.capacity - 1) \in Nat \ {0}
    BY DEF Batch, Maximum
  <2> QED BY <2>1, Positive DEF Shrunk, Batch
<1>4. Limited(s) = IF s.limited THEN IF s.shrinkIn > 0 THEN s ELSE Shrunk(s) ELSE Shrunk(v)
  BY DEF Limited
<1> HIDE DEF v
<1>5. CASE s.limited
  BY <1>3, <1>4, <1>5
<1>6. CASE ~ s.limited
  BY <1>1, <1>2, <1>3, <1>4, <1>6
<1> QED BY <1>5, <1>6

\* A queue with one more task at its front.
LEMMA Unshifted ==
  ASSUME NEW q \in Seq(Task), Distinct(q), NEW t \in Task, t \notin In(q)
  PROVE  <<t>> \o q \in Seq(Task) /\ Distinct(<<t>> \o q) /\ In(<<t>> \o q) = In(q) \cup {t}
<1> DEFINE r == <<t>> \o q
           n == Len(q)
<1>1. /\ r \in Seq(Task) /\ Len(r) = 1 + n
      /\ \A i \in 1 .. 1 + n : r[i] = IF i = 1 THEN t ELSE q[i - 1]
  <2>1. <<t>> \in Seq(Task) /\ Len(<<t>>) = 1 /\ <<t>>[1] = t
    OBVIOUS
  <2> QED BY <2>1, ConcatProperties
<1>2. n \in Nat /\ DOMAIN q = 1 .. n /\ DOMAIN r = 1 .. 1 + n
  BY <1>1
<1> HIDE DEF r, n
<1>3. r[1] = t /\ 1 \in 1 .. 1 + n
  BY <1>1, <1>2
<1>4. \A i \in 1 .. n : i + 1 \in 1 .. 1 + n /\ r[i + 1] = q[i]
  <2> SUFFICES ASSUME NEW i \in 1 .. n PROVE i + 1 \in 1 .. 1 + n /\ r[i + 1] = q[i]
    OBVIOUS
  <2>1. i + 1 \in 1 .. 1 + n /\ i + 1 # 1 /\ (i + 1) - 1 = i
    BY <1>2
  <2> QED BY <1>1, <2>1
<1>5. \A j \in 1 .. 1 + n : j = 1 \/ \E i \in 1 .. n : j = i + 1
  <2> SUFFICES ASSUME NEW j \in 1 .. 1 + n, j # 1 PROVE \E i \in 1 .. n : j = i + 1
    OBVIOUS
  <2>1. j - 1 \in 1 .. n /\ j = (j - 1) + 1
    BY <1>2
  <2> QED BY <2>1
<1>6. In(r) = In(q) \cup {t}
  <2>1. ASSUME NEW x \in In(r) PROVE x \in In(q) \cup {t}
    <3>1. PICK j \in 1 .. 1 + n : x = r[j]
      BY <1>2, <2>1 DEF In
    <3>2. CASE j = 1
      BY <1>3, <3>1, <3>2
    <3>3. ASSUME NEW i \in 1 .. n, j = i + 1 PROVE x \in In(q)
      BY <1>2, <1>4, <3>1, <3>3 DEF In
    <3> QED BY <1>5, <3>2, <3>3
  <2>2. ASSUME NEW x \in In(q) PROVE x \in In(r)
    <3>1. PICK i \in 1 .. n : x = q[i]
      BY <1>2, <2>2 DEF In
    <3>2. i + 1 \in DOMAIN r /\ r[i + 1] = x
      BY <1>2, <1>4, <3>1
    <3> QED BY <3>2 DEF In
  <2>3. t \in In(r)
    BY <1>2, <1>3 DEF In
  <2> QED BY <2>1, <2>2, <2>3
<1>7. Distinct(r)
  <2> SUFFICES ASSUME NEW j \in 1 .. 1 + n, NEW k \in 1 .. 1 + n, r[j] = r[k] PROVE j = k
    BY <1>2 DEF Distinct
  <2>1. \A i \in 1 .. n : q[i] # t
    BY <1>2 DEF In
  <2>2. CASE j = 1
    BY <1>3, <1>4, <1>5, <2>1, <2>2
  <2>3. CASE k = 1
    BY <1>3, <1>4, <1>5, <2>1, <2>3
  <2>4. CASE j # 1 /\ k # 1
    <3>1. PICK i \in 1 .. n : j = i + 1
      BY <1>5, <2>4
    <3>2. PICK h \in 1 .. n : k = h + 1
      BY <1>5, <2>4
    <3>3. q[i] = q[h]
      BY <1>4, <3>1, <3>2
    <3>4. i = h
      BY <1>2, <3>3 DEF Distinct
    <3> QED BY <3>1, <3>2, <3>4
  <2> QED BY <2>2, <2>3, <2>4
<1> QED BY <1>1, <1>6, <1>7 DEF r

\* What is left when t is to be tried again: it waits for a delay of its own.
LEMMA RequeuedSound ==
  ASSUME Sound(b), NEW t \in b.active
  PROVE  LET s == [Requeued(b, t) EXCEPT !.active = @ \ {t}]
         IN  /\ Sound(s) /\ s.active = b.active \ {t} /\ s.limited /\ s.retryIn[t] # 0
             /\ s.result = b.result
             /\ \A u \in Task \ {t} : s.retryIn[u] = b.retryIn[u]
<1> DEFINE delay == b.retryDelay[t]
           q == [b EXCEPT !.retryDelay[t] = 2 * @, !.retryIn[t] = delay,
                          !.pending = PendingWith(b, t), !.recoverIn = RecoveryInterval]
           u == Limited(q)
           interval == Maximum(u.interval * 2, delay)
           calm == [u EXCEPT !.launchIn = Maximum(@, RetryBase)]
           busy == [u EXCEPT !.interval = interval, !.launchIn = Maximum(@, interval)]
           r == Requeued(b, t)
           s == [r EXCEPT !.active = @ \ {t}]
<1>0. b \in Batch /\ Places(b) /\ t \in Task /\ b.pending \in Seq(Task) /\ Distinct(b.pending)
  BY DEF Sound, Places, Batch
<1>1. delay \in Nat \ {0}
  BY <1>0 DEF Batch
<1>2. r = IF t \in b.ready THEN calm ELSE busy
  BY DEF Requeued
<1>3. /\ PendingWith(b, t) \in Seq(Task) /\ Distinct(PendingWith(b, t))
      /\ In(PendingWith(b, t)) = In(b.pending) \cup {t}
  <2>1. t \notin In(b.pending)
    BY <1>0 DEF Places, Waiting
  <2> QED BY <1>0, <2>1, Unshifted DEF PendingWith
<1> HIDE DEF delay
<1>4. q = [b EXCEPT !.retryDelay = [b.retryDelay EXCEPT ![t] = 2 * b.retryDelay[t]],
                    !.retryIn = [b.retryIn EXCEPT ![t] = delay],
                    !.pending = PendingWith(b, t), !.recoverIn = RecoveryInterval]
  BY <1>0 DEF Batch
<1> HIDE DEF q
<1>5. q \in Batch
  <2>1. 2 * b.retryDelay[t] \in Nat \ {0}
    BY <1>0 DEF Batch
  <2>2. /\ [b.retryDelay EXCEPT ![t] = 2 * b.retryDelay[t]] \in [Task -> Nat \ {0}]
        /\ [b.retryIn EXCEPT ![t] = delay] \in [Task -> Nat]
    BY <1>0, <1>1, <2>1 DEF Batch
  <2> QED BY <1>0, <1>3, <1>4, <2>2, Positive DEF Batch
<1>6. /\ q.active = b.active /\ q.ready = b.ready /\ q.result = b.result
      /\ q.end = b.end /\ q.begun = b.begun /\ q.limited = b.limited
      /\ q.rampTimer = b.rampTimer /\ q.pending = PendingWith(b, t)
      /\ q.retryIn = [b.retryIn EXCEPT ![t] = delay]
  BY <1>0, <1>4 DEF Batch
<1>7. /\ u \in Batch /\ u.limited /\ u.rampTimer = Off
      /\ u.pending = q.pending /\ u.active = q.active
      /\ u.result = q.result /\ u.retryIn = q.retryIn /\ u.end = q.end
  BY <1>5, <1>6, LimitedKeeps DEF Sound
<1> HIDE DEF u
<1>8. /\ calm \in Batch /\ calm.limited /\ calm.rampTimer = Off
      /\ calm.pending = u.pending /\ calm.active = u.active
      /\ calm.result = u.result /\ calm.retryIn = u.retryIn /\ calm.end = u.end
  <2>1. Maximum(u.launchIn, RetryBase) \in Nat
    BY <1>7, Positive DEF Batch, Maximum
  <2> QED BY <1>7, <2>1 DEF Batch
<1>9. /\ busy \in Batch /\ busy.limited /\ busy.rampTimer = Off
      /\ busy.pending = u.pending /\ busy.active = u.active
      /\ busy.result = u.result /\ busy.retryIn = u.retryIn /\ busy.end = u.end
  <2>1. u.interval * 2 \in Nat \ {0}
    BY <1>7 DEF Batch
  <2>2. interval \in Nat \ {0}
    BY <1>1, <2>1 DEF Maximum
  <2> HIDE DEF interval
  <2>3. Maximum(u.launchIn, interval) \in Nat
    BY <1>7, <2>2 DEF Batch, Maximum
  <2> QED BY <1>7, <2>2, <2>3 DEF Batch
<1> HIDE DEF calm, busy
<1>10. /\ r \in Batch /\ r.limited /\ r.rampTimer = Off
       /\ r.pending = u.pending /\ r.active = u.active
       /\ r.result = u.result /\ r.retryIn = u.retryIn /\ r.end = u.end
  BY <1>2, <1>8, <1>9
<1> HIDE DEF r
<1>11. /\ s \in Batch /\ s.limited /\ s.rampTimer = Off
       /\ s.pending = PendingWith(b, t) /\ s.active = b.active \ {t}
       /\ s.result = b.result /\ s.end = b.end
       /\ s.retryIn = [b.retryIn EXCEPT ![t] = delay]
  <2>1. r.active \ {t} \in SUBSET Task
    BY <1>10 DEF Batch
  <2> QED BY <1>6, <1>7, <1>10, <2>1 DEF Batch
<1> HIDE DEF s
<1>12. Places(s)
  BY <1>0, <1>3, <1>11 DEF Places, Waiting
<1>13. Sound(s)
  BY <1>11, <1>12 DEF Sound
<1>14. s.retryIn[t] # 0 /\ \A x \in Task \ {t} : s.retryIn[x] = b.retryIn[x]
  BY <1>0, <1>1, <1>11 DEF Batch
<1> QED BY <1>11, <1>13, <1>14 DEF s, r

\* A rate limit: the task is tried again, or is the last one.
LEMMA RateLimitedStep == ASSUME IInv, NEW t \in Task, RateLimited(t) PROVE Stepped
<1>1. /\ live[t] # "none" /\ limits' \in 0 .. MaxLimits /\ Ends(t, AfterLimit(b, t))
  BY Positive DEF RateLimited, IInv
<1>2. CASE OnlyUnfinished(t)
  <2>1. AfterLimit(b, t) = [b EXCEPT !.result[t] = "failed"]
    BY <1>2 DEF AfterLimit
  <2> QED BY <1>1, <2>1, SettlesStep
<1>3. CASE ~ OnlyUnfinished(t) /\ Listening(t)
  <2> DEFINE s == [Requeued(b, t) EXCEPT !.active = @ \ {t}]
  <2>1. b.end = "no" /\ t \in b.active /\ Sound(b)
    BY <1>3 DEF Listening, IInv
  <2>2. /\ b' = Scheduled(s) /\ live' = [Live(b, b') EXCEPT ![t] = "none"]
        /\ told' = told \ {t}
    BY <1>1, <1>3 DEF Ends, AfterLimit
  <2>3. /\ Sound(s) /\ s.active = b.active \ {t} /\ s.limited /\ s.retryIn[t] # 0
        /\ s.result = b.result
        /\ \A u \in Task \ {t} : s.retryIn[u] = b.retryIn[u]
    BY <2>1, RequeuedSound
  <2> HIDE DEF s
  <2>4. (\A u \in Task \ {t} : b.result[u] # "none") => s.result[t] # "none"
    BY <1>3 DEF OnlyUnfinished
  <2> QED BY <1>1, <2>1, <2>2, <2>3, <2>4, EndAfter
<1>4. CASE ~ Listening(t)
  BY <1>1, <1>4, EndUnheard DEF Ends
<1> QED BY <1>2, <1>3, <1>4

-----------------------------------------------------------------------------
(* First requests, timers, cancellations and time.                         *)

\* A first request is accepted.
LEMMA ReadyStep == ASSUME IInv, NEW t \in Task, Ready(t) PROVE Stepped
<1> DEFINE q == [b EXCEPT !.ready = @ \cup {t}, !.begun = @ \cup {t}]
           s == [q EXCEPT !.interval = RetryBase, !.launchIn = RetryBase]
           u == [q EXCEPT !.readyCount = @ + 1]
<1>0. /\ b.end = "no" /\ t \in b.active /\ t \notin b.ready
      /\ Sound(b) /\ Awake(b) /\ b \in Batch /\ told' = told /\ limits' = limits
      /\ live' = Live(b, b')
  BY DEF Ready, Listening, IInv
<1>1. b' = IF q.limited THEN Scheduled(s) ELSE u
  BY DEF Ready
<1>2. /\ q \in Batch /\ q.ready = b.ready \cup {t} /\ q.begun = b.begun \cup {t}
      /\ q.pending = b.pending /\ q.active = b.active /\ q.result = b.result
      /\ q.retryIn = b.retryIn /\ q.end = b.end /\ q.limited = b.limited
      /\ q.rampTimer = b.rampTimer /\ q.readyCount = b.readyCount
      /\ q.limitTimer = b.limitTimer
  BY <1>0 DEF Batch
<1> HIDE DEF q
<1>3. Places(q)
  BY <1>0, <1>2 DEF Sound, Places, Waiting
<1>4. CASE q.limited
  <2>1. /\ s \in Batch /\ s.pending = q.pending /\ s.active = q.active
        /\ s.result = q.result /\ s.retryIn = q.retryIn /\ s.end = q.end
        /\ s.limited = q.limited /\ s.rampTimer = q.rampTimer
    BY <1>2, Positive DEF Batch
  <2> HIDE DEF s
  <2>2. Sound(s)
    BY <1>0, <1>2, <1>3, <1>4, <2>1 DEF Sound, Places, Waiting
  <2> QED BY <1>0, <1>1, <1>2, <1>4, <2>1, <2>2, LookAfter
<1>5. CASE ~ q.limited
  <2>1. FirstAttempts(b) /\ ActiveCount(b) <= MaxConcurrency
    BY <1>0, <1>2, <1>5 DEF Sound
  <2>2. t \notin b.begun /\ b.begun \in SUBSET Task /\ b.begun \cup {t} \in SUBSET Task
    BY <1>0, <2>1 DEF FirstAttempts, Batch
  <2>3. /\ b.readyCount + 1 = Cardinality(b.begun \cup {t})
        /\ b.readyCount + 1 \in 0 .. N
    BY <2>1, <2>2, OneMore, TasksFinite DEF FirstAttempts
  <2>4. /\ u \in Batch /\ u.pending = q.pending /\ u.active = q.active
        /\ u.result = q.result /\ u.retryIn = q.retryIn /\ u.end = q.end
        /\ u.limited = q.limited /\ u.rampTimer = q.rampTimer /\ u.ready = q.ready
        /\ u.begun = q.begun /\ u.readyCount = b.readyCount + 1
        /\ u.limitTimer = q.limitTimer
    BY <1>2, <2>3 DEF Batch
  <2> HIDE DEF u
  <2>5. b' = u
    BY <1>1, <1>5
  <2>6. t \notin Waiting(b)
    BY <1>0 DEF Sound, Places
  <2>7. FirstAttempts(u)
    BY <1>2, <2>1, <2>3, <2>4, <2>6 DEF FirstAttempts, Waiting
  <2>8. Places(u)
    BY <1>3, <2>4 DEF Places, Waiting
  <2>9. Sound(u)
    BY <1>0, <1>2, <1>5, <2>1, <2>4, <2>7, <2>8 DEF Sound, ActiveCount
  <2>10. Awake(u)
    BY <1>0, <1>2, <2>4 DEF Awake, AtConcurrencyLimit, ActiveCount
  <2>11. live' = live
    BY <1>0, <1>2, <2>4, <2>5 DEF Live, IInv
  <2>12. IInv'
    BY <1>0, <1>2, <2>4, <2>5, <2>9, <2>10, <2>11 DEF IInv
  <2> QED BY <1>2, <2>4, <2>5, <2>12 DEF Stepped, Paced, Kept, LastEnds
<1> QED BY <1>4, <1>5

\* The timer of the rate-limit phase.
LEMMA LimitFiresStep == ASSUME IInv, LimitFires PROVE Stepped
<1> DEFINE s == [b EXCEPT !.limitTimer = Off]
<1>1. b.end = "no" /\ Sound(b) /\ b \in Batch
  BY DEF LimitFires, IInv, Closed, Off
<1>2. /\ s \in Batch /\ s.pending = b.pending /\ s.active = b.active /\ s.ready = b.ready
      /\ s.result = b.result /\ s.retryIn = b.retryIn /\ s.end = b.end
      /\ s.limited = b.limited /\ s.rampTimer = b.rampTimer /\ s.begun = b.begun
      /\ s.readyCount = b.readyCount
  BY <1>1 DEF Batch
<1>3. b' = Scheduled(s) /\ live' = Live(b, b') /\ told' = told /\ limits' = limits
  BY DEF LimitFires
<1> HIDE DEF s
<1>4. Sound(s)
  BY <1>1, <1>2 DEF Sound, Places, Waiting, FirstAttempts, ActiveCount
<1> QED BY <1>1, <1>2, <1>3, <1>4, LookAfter

\* The ramp's timer starts one task, if the cap allows it.
LEMMA RampFiresStep == ASSUME IInv, RampFires PROVE Stepped
<1> DEFINE s == [b EXCEPT !.rampTimer = Off]
           h == Head(s.pending)
           u == [Started(s, {h}) EXCEPT !.pending = Tail(@), !.launches = @ + 1]
           starts == s.pending # <<>> /\ ~ AtConcurrencyLimit(s)
<1>1. b.end = "no" /\ Sound(b) /\ b \in Batch /\ Places(b)
  BY DEF RampFires, IInv, Closed, Off, Sound
<1>2. ~ b.limited /\ FirstAttempts(b) /\ ActiveCount(b) <= MaxConcurrency
  BY <1>1 DEF RampFires, Sound, Off
<1>3. /\ s \in Batch /\ s.pending = b.pending /\ s.active = b.active /\ s.ready = b.ready
      /\ s.result = b.result /\ s.retryIn = b.retryIn /\ s.end = b.end
      /\ s.limited = b.limited /\ s.rampTimer = Off /\ s.begun = b.begun
      /\ s.readyCount = b.readyCount
  BY <1>1 DEF Batch
<1>4. /\ b' = IF starts THEN Scheduled(u) ELSE s
      /\ live' = Live(b, b') /\ told' = told /\ limits' = limits
  BY DEF RampFires
<1> HIDE DEF s
<1>5. Sound(s)
  BY <1>1, <1>2, <1>3 DEF Sound, Places, Waiting, FirstAttempts, ActiveCount
<1>6. CASE starts
  <2> DEFINE rest == Tail(s.pending)
  <2>0. s.pending \in Seq(Task) /\ s.pending # <<>> /\ Distinct(s.pending)
    BY <1>3, <1>5, <1>6 DEF Batch, Sound, Places
  <2>1. h \in Task /\ h \in In(s.pending)
    BY <2>0 DEF In
  <2>2. rest \in Seq(Task) /\ Distinct(rest) /\ In(rest) = In(s.pending) \ {h}
    <3>1. rest = RemoveAt(s.pending, 1)
      <4>1. SubSeq(s.pending, 1, 0) = <<>> /\ SubSeq(s.pending, 2, Len(s.pending)) = rest
        BY <2>0, SubSeqEmpty, TailIsSubSeq
      <4>2. rest \in Seq(Task)
        BY <2>0, HeadTailProperties
      <4>3. <<>> \o rest = rest
        BY <4>2, ConcatEmptySeq
      <4> QED BY <4>1, <4>3 DEF RemoveAt
    <3>2. s.pending[1] = h /\ 1 \in 1 .. Len(s.pending)
      BY <2>0
    <3> QED BY <2>0, <3>1, <3>2, WithoutOne
  <2>3. u = [s EXCEPT !.active = s.active \cup {h}, !.ready = s.ready \ {h}, !.pending = rest,
                      !.launches = s.launches + 1]
    BY <1>3 DEF Started, Batch
  <2> HIDE DEF h, rest, u
  <2>4. u \in Batch
    <3>1. s.active \cup {h} \in SUBSET Task /\ s.ready \ {h} \in SUBSET Task
      BY <1>3, <2>1 DEF Batch
    <3>2. s.launches + 1 \in Nat
      BY <1>3 DEF Batch
    <3> QED BY <1>3, <2>2, <2>3, <3>1, <3>2 DEF Batch
  <2>5. Moves(s, u, {h}) /\ u.rampTimer = Off
    BY <1>3, <2>1, <2>2, <2>3, <2>4 DEF Moves, Waiting, Batch
  <2>6. ActiveCount(u) <= MaxConcurrency
    <3>1. s.active \in SUBSET Task /\ h \notin s.active
      BY <1>3, <1>5, <2>1 DEF Batch, Sound, Places, Waiting
    <3>2. ActiveCount(u) = ActiveCount(s) + 1 /\ ActiveCount(s) \in Int
      BY <2>1, <2>5, <3>1, OneMore, TasksFinite DEF Moves, ActiveCount
    <3>3. ActiveCount(s) < MaxConcurrency
      BY <1>6, <3>2, Positive DEF AtConcurrencyLimit
    <3> QED BY <3>2, <3>3, Positive
  <2>7. Sound(u) /\ b.active \subseteq u.active /\ u.result = b.result
    BY <1>3, <1>5, <2>5, <2>6, MovesSound DEF Moves
  <2> QED BY <1>1, <1>2, <1>4, <1>6, <2>7, LookAfter
<1>7. CASE ~ starts
  <2>1. b' = s
    BY <1>4, <1>7
  <2>2. Awake(s)
    BY <1>2, <1>3, <1>7 DEF Awake
  <2>3. live' = live
    BY <1>3, <1>4, <2>1 DEF Live, IInv
  <2> HIDE DEF starts
  <2>4. IInv'
    BY <1>1, <1>3, <1>4, <1>5, <2>1, <2>2, <2>3 DEF IInv
  <2> QED BY <1>3, <2>1, <2>4 DEF Stepped, Paced, Kept, LastEnds
<1> QED BY <1>6, <1>7

\* The end of a batch whose attempts have been told to stop.
LEMMA ClosedAfter ==
  ASSUME IInv, b.end = "no", told' = ToldAll(b), live' = live, limits' = limits,
         Closed(b'), Kept
  PROVE  Stepped
<1>1. /\ Sound(b) /\ \A t \in Task : live[t] # "none" <=> t \in b.active
      /\ live \in [Task -> {"none", "starting", "running"}] /\ told \in SUBSET Task
      /\ limits \in 0 .. MaxLimits /\ b \in Batch
  BY DEF IInv
<1>2. told' \in SUBSET Task /\ \A t \in Task : live'[t] # "none" => t \in told'
  BY <1>1 DEF ToldAll, Batch
<1>3. b' \in Batch /\ b'.end # "no" /\ b'.active = {}
  BY DEF Closed
<1>4. IInv'
  BY <1>1, <1>2, <1>3 DEF IInv
<1> QED BY <1>3, <1>4 DEF Stepped, Paced, LastEnds

\* A cancelled batch reports every task.
LEMMA UserCancelledClosed ==
  ASSUME NEW s, Sound(s)
  PROVE  LET u == UserCancelled(s)
         IN  Closed(u) /\ \A t \in Task : s.result[t] # "none" => u.result[t] = s.result[t]
<1> DEFINE results == [t \in Task |-> CancelledResult(s, t)]
           v == [s EXCEPT !.result = results]
           u == UserCancelled(s)
<1>0. s \in Batch /\ \A t \in Task : s.result[t] \notin {"started", "not_started"}
  BY DEF Sound
<1>1. \A t \in Task : s.result[t] \in Results
  BY <1>0 DEF Batch
<1>2. /\ results \in [Task -> Results]
      /\ \A t \in Task : results[t] # "none" /\ (t \in s.begun => results[t] # "not_started")
      /\ \A t \in Task : s.result[t] # "none" => results[t] = s.result[t]
  BY <1>0, <1>1 DEF CancelledResult, WasStarted, Results
<1>3. u = CleanedUp(v, "resolved")
  BY DEF UserCancelled
<1> HIDE DEF results
<1>4. v \in Batch /\ v.result = results /\ v.begun = s.begun
  BY <1>0, <1>2 DEF Batch
<1> HIDE DEF v, u
<1>5. /\ u \in Batch /\ u.end = "resolved" /\ u.active = {} /\ u.rampTimer = Off
      /\ u.limitTimer = Off /\ u.result = results /\ u.begun = s.begun
  BY <1>3, <1>4 DEF CleanedUp, Batch
<1> QED BY <1>2, <1>5 DEF Closed, u

\* The user cancels.
LEMMA UserCancelStep == ASSUME IInv, UserCancel PROVE Stepped
<1>1. b.end = "no" /\ Sound(b)
  BY DEF UserCancel, IInv
<1>2. Closed(b') /\ Kept
  BY <1>1, UserCancelledClosed DEF UserCancel, Kept
<1> QED BY <1>1, <1>2, ClosedAfter DEF UserCancel

\* A batch that rejects has no attempts and no timers.
LEMMA RejectedClosed ==
  ASSUME NEW s \in Batch
  PROVE  Closed(CleanedUp(s, "rejected")) /\ CleanedUp(s, "rejected").result = s.result
<1> DEFINE u == CleanedUp(s, "rejected")
<1>1. /\ u \in Batch /\ u.end = "rejected" /\ u.active = {} /\ u.rampTimer = Off
      /\ u.limitTimer = Off /\ u.result = s.result
  BY DEF CleanedUp, Batch
<1> QED BY <1>1 DEF Closed

\* Any other abort.
LEMMA OtherAbortStep == ASSUME IInv, OtherAbort PROVE Stepped
<1>1. b.end = "no" /\ b \in Batch
  BY DEF OtherAbort, IInv
<1>2. Closed(b') /\ Kept
  BY <1>1, RejectedClosed DEF OtherAbort, Kept
<1> QED BY <1>1, <1>2, ClosedAfter DEF OtherAbort

\* A launch resolves: only the task is known by its subagent now.
LEMMA LaunchedStep == ASSUME IInv, NEW t \in Task, Launched(t) PROVE Stepped
<1>1. /\ b' \in Batch /\ b'.pending = b.pending /\ b'.active = b.active /\ b'.ready = b.ready
      /\ b'.result = b.result /\ b'.end = b.end /\ b'.limited = b.limited
      /\ b'.rampTimer = b.rampTimer /\ b'.begun = b.begun /\ b'.limitTimer = b.limitTimer
      /\ b'.readyCount = b.readyCount
  BY DEF Launched, IInv, Batch
<1>2. b.end = "no" => Sound(b') /\ Awake(b')
  BY <1>1 DEF IInv, Sound, Places, Waiting, FirstAttempts, ActiveCount, Awake, AtConcurrencyLimit
<1>3. b.end # "no" => Closed(b')
  BY <1>1 DEF IInv, Closed
<1>4. /\ live' \in [Task -> {"none", "starting", "running"}]
      /\ \A u \in Task : live'[u] # "none" <=> live[u] # "none"
      /\ told' = told /\ limits' = limits
  BY DEF Launched, IInv
<1>5. IInv'
  BY <1>1, <1>2, <1>3, <1>4 DEF IInv
<1> QED BY <1>1, <1>5 DEF Stepped, Paced, Kept, LastEnds

\* A task is told to stop.
LEMMA TimeoutStep == ASSUME IInv, NEW t \in Task, Timeout(t) PROVE Stepped
<1>1. b' = b /\ live' = live /\ limits' = limits /\ told' = told \cup {t} /\ b.end = "no"
  BY DEF Timeout, Listening
<1>2. IInv'
  BY <1>1 DEF IInv
<1> QED BY <1>1, <1>2 DEF Stepped, Paced, Kept, LastEnds

\* Time passes.
LEMMA TickStep == ASSUME IInv, Tick PROVE Stepped
<1> DEFINE retryIn == [t \in Task |-> Passed(b.retryIn[t])]
<1>0. b \in Batch /\ b.end = "no" /\ Sound(b) /\ Awake(b)
  BY DEF IInv, Tick
<1>1. \A x \in Nat : Passed(x) \in Nat
  BY DEF Passed
<1>2. \A x \in Nat \cup {Off} : Passed(x) \in Nat \cup {Off} /\ (Passed(x) = Off <=> x = Off)
  BY DEF Passed, Off
<1>3. b' = [b EXCEPT !.retryIn = retryIn, !.rampTimer = Passed(b.rampTimer),
                     !.limitTimer = Passed(b.limitTimer), !.launchIn = Passed(b.launchIn),
                     !.shrinkIn = Passed(b.shrinkIn), !.recoverIn = Passed(b.recoverIn)]
  BY <1>0 DEF Tick, Batch
<1>4. retryIn \in [Task -> Nat]
  BY <1>0, <1>1 DEF Batch
<1> HIDE DEF retryIn
<1>5. /\ Passed(b.rampTimer) \in Nat \cup {Off} /\ Passed(b.limitTimer) \in Nat \cup {Off}
      /\ Passed(b.launchIn) \in Nat /\ Passed(b.shrinkIn) \in Nat
      /\ Passed(b.recoverIn) \in Nat
      /\ Passed(b.rampTimer) = Off <=> b.rampTimer = Off
      /\ Passed(b.limitTimer) = Off <=> b.limitTimer = Off
  BY <1>0, <1>1, <1>2 DEF Batch
<1>6. /\ b' \in Batch /\ b'.pending = b.pending /\ b'.active = b.active /\ b'.ready = b.ready
      /\ b'.result = b.result /\ b'.end = b.end /\ b'.limited = b.limited
      /\ b'.begun = b.begun /\ b'.readyCount = b.readyCount
      /\ b'.rampTimer = Off <=> b.rampTimer = Off
      /\ b'.limitTimer = Off <=> b.limitTimer = Off
  BY <1>0, <1>3, <1>4, <1>5 DEF Batch
<1>7. Sound(b') /\ Awake(b')
  BY <1>0, <1>6 DEF Sound, Places, Waiting, FirstAttempts, ActiveCount, Awake, AtConcurrencyLimit
<1>8. IInv'
  BY <1>0, <1>6, <1>7 DEF IInv, Tick
<1> QED BY <1>6, <1>8 DEF Stepped, Paced, Kept, LastEnds

-----------------------------------------------------------------------------
(* Theorems.                                                               *)

\* A new batch: every task waits.
LEMMA NewBatchSound == Sound(NewBatch) /\ ~ NewBatch.limited /\ NewBatch.active = {}
<1> DEFINE s == NewBatch
<1>1. /\ s.pending = [i \in Task |-> i] /\ s.active = {} /\ s.ready = {} /\ s.begun = {}
      /\ s.result = [t \in Task |-> "none"] /\ s.readyCount = 0 /\ s.rampTimer = Off
      /\ ~ s.limited /\ s.end = "no"
  BY DEF NewBatch
<1>2. s.pending \in Seq(Task) /\ DOMAIN s.pending = Task /\ \A t \in Task : s.pending[t] = t
  <2>1. [i \in 1 .. N |-> i] \in Seq(1 .. N)
    BY Positive
  <2> QED BY <1>1, <2>1 DEF Task
<1>3. s \in Batch
  <2>1. 0 \in 0 .. N
    BY Positive
  <2> QED BY <1>1, <1>2, <2>1, Positive DEF NewBatch, Batch, Results
<1>4. Distinct(s.pending) /\ Waiting(s) = Task
  BY <1>2 DEF Distinct, Waiting, In
<1>5. Cardinality({}) = 0
  BY FS_EmptySet
<1> HIDE DEF s
<1>6. Places(s) /\ FirstAttempts(s) /\ ActiveCount(s) <= MaxConcurrency
  BY <1>1, <1>4, <1>5, Positive DEF Places, FirstAttempts, ActiveCount
<1>7. Sound(s)
  BY <1>1, <1>3, <1>6 DEF Sound
<1> QED BY <1>1, <1>7 DEF s

\* A batch that has just begun.
LEMMA InitIInv == Init => IInv
<1> SUFFICES ASSUME Init PROVE IInv
  OBVIOUS
<1>1. /\ live = [t \in Task |-> IF t \in b.active THEN "starting" ELSE "none"]
      /\ told = {} /\ limits = 0
  BY DEF Init
<1>2. /\ live \in [Task -> {"none", "starting", "running"}]
      /\ \A t \in Task : live[t] # "none" <=> t \in b.active
      /\ told \in SUBSET Task /\ limits \in 0 .. MaxLimits
  BY <1>1, Positive
<1>3. NewBatch \in Batch
  BY NewBatchSound DEF Sound
<1>4. CASE b = UserCancelled(NewBatch) \/ b = CleanedUp(NewBatch, "rejected")
  <2>1. Closed(b)
    BY <1>3, <1>4, NewBatchSound, UserCancelledClosed, RejectedClosed
  <2> QED BY <1>2, <2>1 DEF IInv, Closed
<1>5. CASE b = Scheduled(NewBatch)
  <2>1. Looks(NewBatch, b)
    BY <1>5, NewBatchSound, ScheduledLooks
  <2>2. CASE AllSettled(NewBatch)
    <3>1. Closed(b)
      BY <2>1, <2>2, NewBatchSound, SettledClosed DEF Looks
    <3> QED BY <1>2, <3>1 DEF IInv, Closed
  <2>3. CASE ~ AllSettled(NewBatch)
    <3>1. Sound(b) /\ Awake(b)
      BY <2>1, <2>3 DEF Looks
    <3> QED BY <1>2, <3>1 DEF IInv, Sound
  <2> QED BY <2>2, <2>3
<1> QED BY <1>4, <1>5 DEF Init

\* Every step keeps the invariant and the rules for steps.
LEMMA EveryStep == ASSUME IInv, [Next]_vars PROVE Stepped
<1>1. ASSUME NEW t \in Task, Launched(t) \/ Ready(t) \/ Over(t) \/ Timeout(t) PROVE Stepped
  BY <1>1, LaunchedStep, ReadyStep, CompletesStep, FailsStep, RateLimitedStep, TimeoutStep
     DEF Over
<1>2. CASE UserCancel \/ OtherAbort
  BY <1>2, UserCancelStep, OtherAbortStep
<1>3. CASE RampFires \/ LimitFires \/ Tick
  BY <1>3, RampFiresStep, LimitFiresStep, TickStep
<1>4. CASE UNCHANGED vars
  <2>1. b' = b /\ live' = live /\ told' = told /\ limits' = limits
    BY <1>4 DEF vars
  <2>2. IInv'
    BY <2>1 DEF IInv
  <2> QED BY <2>1, <2>2 DEF Stepped, Paced, Kept, LastEnds
<1> QED BY <1>1, <1>2, <1>3, <1>4 DEF Next

\* The inductive invariant: while the batch goes on every task waits once, has one live
\* attempt or has its result, and queued work has a timer or the end of an attempt to wake
\* it; when it is over nothing is listened to and whoever lives has been told to stop.
THEOREM Invariant == Spec => []IInv
<1>1. IInv /\ [Next]_vars => IInv'
  BY EveryStep DEF Stepped
<1> QED BY <1>1, InitIInv, PTL DEF Spec

\* Every task is in one place until it has its result, everybody gets one, and the ramp
\* keeps to the cap, for any number of tasks, limits and intervals.
THEOREM Bookkeeping == Spec => []BatchOK
<1>1. ASSUME IInv PROVE BatchOK
  <2>0. b \in Batch
    BY <1>1 DEF IInv
  <2>1. TypeOK
    BY <1>1 DEF IInv, Batch, TypeOK
  <2>2. OnePlace
    <3> SUFFICES ASSUME b.end = "no", NEW t \in Task,
                        NEW queued, queued = {i \in DOMAIN b.pending : b.pending[i] = t}
                 PROVE  IF t \in b.active \/ b.result[t] # "none"
                        THEN queued = {} /\ ~ (t \in b.active /\ b.result[t] # "none")
                        ELSE Cardinality(queued) = 1
      BY DEF OnePlace
    <3>1. Places(b) /\ Distinct(b.pending)
      BY <1>1 DEF IInv, Sound, Places
    <3>2. t \in Waiting(b) <=> queued # {}
      BY DEF Waiting, In
    <3>3. CASE t \in b.active \/ b.result[t] # "none"
      BY <3>1, <3>2, <3>3 DEF Places
    <3>4. CASE ~ (t \in b.active \/ b.result[t] # "none")
      <4>1. PICK i \in queued : TRUE
        BY <3>1, <3>2, <3>4 DEF Places
      <4>2. queued = {i}
        BY <3>1, <4>1 DEF Distinct
      <4> QED BY <3>4, <4>2, FS_Singleton
    <3> QED BY <3>3, <3>4
  <2>3. CompleteResults
    BY <1>1, <2>0 DEF IInv, Closed, CompleteResults
  <2>4. ConcurrencyCap
    BY <1>1 DEF IInv, Sound, ConcurrencyCap
  <2> QED BY <2>1, <2>2, <2>3, <2>4 DEF BatchOK
<1> QED BY <1>1, Invariant, PTL

\* Queued work never waits for nothing.
THEOREM NeverStalls == Spec => []NoStall
<1>1. IInv => NoStall
  BY DEF IInv, Awake, NoStall
<1> QED BY <1>1, Invariant, PTL

\* No subagent outlives its batch without having been told to stop.
THEOREM Supervised == Spec => []NoneUnsupervised
<1>1. IInv => NoneUnsupervised
  BY DEF IInv, NoneUnsupervised
<1> QED BY <1>1, Invariant, PTL

\* No step launches more than the provider allows, drops a result or suspends the last task.
THEOREM Disciplined == Spec => StepsOK
<1>1. IInv /\ [Next]_vars => Paced /\ Kept /\ LastEnds
  BY EveryStep DEF Stepped
<1>2. Spec => [][Paced]_vars /\ [][Kept]_vars /\ [][LastEnds]_vars
  BY <1>1, Invariant, PTL DEF Spec
<1> QED BY <1>2 DEF StepsOK, PacedLaunches, ResultsKept, LastOneEnds, Paced, Kept, LastEnds

=============================================================================
