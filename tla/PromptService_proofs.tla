------------------------ MODULE PromptService_proofs ------------------------
(***************************************************************************)
(* Proofs about PromptService beside the agent it talks to, for any        *)
(* prompts, any number of turns and whatever fails: a prompt is in one     *)
(* place, goes once to the agent and comes back once to the clients, and   *)
(* the queue is served.                                                    *)
(***************************************************************************)
EXTENDS PromptService, TurnFlow_proofs

\* The daemon, as a record.
Daemon ==
  [active : Prompts \cup {NoPrompt}, queue : Seq(Prompts), place : [Prompts -> Place],
   turnId : [Prompts -> Turn \cup {NoTurn}], aborted : SUBSET Prompts,
   told : [Prompts -> Seq({"completed", "aborted"})]]

Answer == [call : Call, ok : BOOLEAN]

\* The prompts that are queued.
Queued(s) == {p \in Prompts : s.place[p] = "queued"}

\* A prompt is told that it is over once, when it was started or refused; the active one
\* only by the abort it waits for.
PromptOK(s, p) ==
  /\ s.active = p => s.place[p] = "started"
  /\ p \in s.aborted => s.place[p] \in {"started", "refused"}
  /\ s.told[p] # <<>> => /\ Len(s.told[p]) = 1 /\ s.place[p] \in {"started", "refused"}
                         /\ s.active = p => p \in s.aborted

\* A prompt that waits to be started was not heard.
Unsaid(s, p, H) == s.place[p] \in {"starting", "next", "queued"} => p \notin H

\* The daemon, when the agent has heard H and the prompts in E have left the queue.
DaemonOK(s, H, E) ==
  /\ s \in Daemon /\ Distinct(s.queue) /\ ToSet(s.queue) = Queued(s) \ E
  /\ \A p \in Prompts : PromptOK(s, p) /\ Unsaid(s, p, H)

\* A cancel of p is on its way: p waits to be told.
CancelOK(s, p) == p \in s.aborted /\ s.told[p] = <<>>

\* What the daemon knows of a call on its way.
Right(s, c) ==
  /\ c.kind = "prompt" => c.prompt \in Prompts /\ s.place[c.prompt] = "started"
  /\ c.kind = "steer" => c.prompt \in Prompts /\ s.place[c.prompt] = "steering"
  /\ c.kind = "cancel" => c.prompt = NoPrompt \/ (c.prompt \in Prompts /\ CancelOK(s, c.prompt))

\* The words that a call brings were not heard.
Unheard(c, H) == c.kind # "cancel" => c.prompt \notin H

\* What a call that waits in the core, and an answer, have to be.
WritingOK(s, H, c) == c.kind = "prompt" /\ Right(s, c) /\ Unheard(c, H)
AnswerOK(s, H, e) ==
  /\ e.call.prompt \in Prompts /\ Right(s, e.call)
  /\ e.call.kind = "prompt" => ~ e.ok
  /\ ~ e.ok => Unheard(e.call, H)

\* Calls are told apart by the prompt and by whether they bring its words.
CallKey == [c \in Call |-> <<c.prompt, c.kind # "cancel">>]
AnswerKey == [e \in Answer |-> CallKey[e.call]]

\* The keys f in a sequence, each of which is there once.
KeysOf(f, seq) == {f[x] : x \in ToSet(seq)}
Keyed(f, seq) == \A i, j \in DOMAIN seq : f[seq[i]] = f[seq[j]] => i = j

\* Nothing with the key k is on its way.
Free(k, cs, ws, ans) ==
  k \notin KeysOf(CallKey, cs) /\ k \notin KeysOf(CallKey, ws) /\ k \notin KeysOf(AnswerKey, ans)

\* What is on its way between a daemon s and an agent that has heard H.
WireOK(s, H, cs, ws, ans) ==
  /\ cs \in Seq(Call) /\ ws \in Seq(Call) /\ ans \in Seq(Answer)
  /\ Keyed(CallKey, cs) /\ Keyed(CallKey, ws) /\ Keyed(AnswerKey, ans)
  /\ Apart(KeysOf(CallKey, cs), KeysOf(CallKey, ws))
  /\ Apart(KeysOf(CallKey, cs), KeysOf(AnswerKey, ans))
  /\ Apart(KeysOf(CallKey, ws), KeysOf(AnswerKey, ans))
  /\ \A c \in ToSet(cs) : Right(s, c) /\ Unheard(c, H)
  /\ \A c \in ToSet(ws) : WritingOK(s, H, c)
  /\ \A e \in ToSet(ans) : AnswerOK(s, H, e)

\* The agent, when told is what the daemon has taken of its events.
AgentOK == events \in Seq(Event) /\ \E told \in Seq(Event) : Good(a, told \o events)

\* The inductive invariant.
PInv ==
  /\ AgentOK
  /\ DaemonOK(d, Heard, {}) /\ WireOK(d, Heard, calls, writing, answers)

\* From s to u what is on its way stays right, but for the keys in K.
Steady(s, u, K) ==
  \A p \in Prompts :
    /\ <<p, TRUE>> \notin K /\ s.place[p] \in {"started", "steering"} => u.place[p] = s.place[p]
    /\ <<p, FALSE>> \notin K /\ CancelOK(s, p) => CancelOK(u, p)

\* Nothing like the call c is on its way while the daemon is s.
NewTo(s, c) ==
  /\ c.prompt \in Prompts
  /\ IF c.kind = "cancel" THEN c.prompt \notin s.aborted
     ELSE s.place[c.prompt] \notin {"started", "steering"}

\* What a step of the daemon s comes to.
Moves(s, H, step) ==
  /\ DaemonOK(step.daemon, H, {}) /\ Steady(s, step.daemon, {})
  /\ \/ step.sends = <<>>
     \/ \E c \in Call : /\ step.sends = <<c>> /\ NewTo(s, c)
                        /\ Right(step.daemon, c) /\ Unheard(c, H)
-----------------------------------------------------------------------------
(* Sequences.                                                              *)

\* One more that was not there.
LEMMA AppendOnce ==
  ASSUME NEW S, NEW seq \in Seq(S), NEW x \in S, Distinct(seq), x \notin ToSet(seq)
  PROVE  /\ Append(seq, x) \in Seq(S) /\ Distinct(Append(seq, x))
         /\ ToSet(Append(seq, x)) = ToSet(seq) \cup {x}
<1>1. Append(seq, x) = seq \o <<x>> /\ <<x>> \in Seq(S) /\ Append(seq, x) \in Seq(S)
  BY AppendIsConcat
<1>2. ToSet(<<x>>) = {x} /\ Distinct(<<x>>)
  BY Single
<1>3. Apart(ToSet(seq), ToSet(<<x>>))
  BY <1>2 DEF Apart
<1>4. ToSet(seq \o <<x>>) = ToSet(seq) \cup ToSet(<<x>>)
  BY <1>1, ConcatSet
<1>5. Distinct(seq \o <<x>>)
  BY <1>1, <1>2, <1>3, ConcatDistinct
<1> QED BY <1>1, <1>2, <1>4, <1>5

\* One more in front that was not there.
LEMMA ConsOnce ==
  ASSUME NEW S, NEW seq \in Seq(S), NEW x \in S, Distinct(seq), x \notin ToSet(seq)
  PROVE  /\ <<x>> \o seq \in Seq(S) /\ Distinct(<<x>> \o seq)
         /\ ToSet(<<x>> \o seq) = ToSet(seq) \cup {x}
<1> DEFINE one == <<x>>
<1>1. one \in Seq(S) /\ ToSet(one) = {x} /\ Distinct(one)
  BY Single
<1> HIDE DEF one
<1>2. Apart(ToSet(one), ToSet(seq))
  BY <1>1 DEF Apart
<1>3. ToSet(one \o seq) = ToSet(one) \cup ToSet(seq)
  BY <1>1, ConcatSet
<1>4. Distinct(one \o seq)
  BY <1>1, <1>2, ConcatDistinct
<1>5. one \o seq \in Seq(S)
  BY <1>1, ConcatProperties
<1> QED BY <1>1, <1>3, <1>4, <1>5 DEF one

\* One more with another key.
LEMMA AppendKeyed ==
  ASSUME NEW S, NEW f, NEW seq \in Seq(S), NEW x \in S, Keyed(f, seq), f[x] \notin KeysOf(f, seq)
  PROVE  /\ Append(seq, x) \in Seq(S) /\ Keyed(f, Append(seq, x))
         /\ KeysOf(f, Append(seq, x)) = KeysOf(f, seq) \cup {f[x]}
         /\ ToSet(Append(seq, x)) = ToSet(seq) \cup {x}
<1>1. Append(seq, x) = seq \o <<x>> /\ <<x>> \in Seq(S) /\ Append(seq, x) \in Seq(S)
  BY AppendIsConcat
<1>2. ToSet(Append(seq, x)) = ToSet(seq) \cup {x}
  <2>1. ToSet(seq \o <<x>>) = ToSet(seq) \cup ToSet(<<x>>)
    BY <1>1, ConcatSet
  <2>2. ToSet(<<x>>) = {x}
    BY Single
  <2> QED BY <1>1, <2>1, <2>2
<1>3. \A i \in DOMAIN Append(seq, x) :
        \/ i \in DOMAIN seq /\ Append(seq, x)[i] = seq[i] /\ f[seq[i]] \in KeysOf(f, seq)
        \/ i = Len(seq) + 1 /\ Append(seq, x)[i] = x
  BY DEF KeysOf, ToSet
<1>4. Keyed(f, Append(seq, x))
  BY <1>3 DEF Keyed
<1> QED BY <1>1, <1>2, <1>4 DEF KeysOf

\* One less, by its key.
LEMMA TailKeyed ==
  ASSUME NEW S, NEW f, NEW seq \in Seq(S), seq # <<>>, Keyed(f, seq)
  PROVE  /\ Head(seq) \in S /\ Tail(seq) \in Seq(S) /\ Keyed(f, Tail(seq))
         /\ KeysOf(f, seq) = KeysOf(f, Tail(seq)) \cup {f[Head(seq)]}
         /\ f[Head(seq)] \notin KeysOf(f, Tail(seq))
         /\ ToSet(seq) = {Head(seq)} \cup ToSet(Tail(seq))
<1>1. /\ Head(seq) \in S /\ Tail(seq) \in Seq(S)
      /\ ToSet(seq) = {Head(seq)} \cup ToSet(Tail(seq))
  BY TailSet
<1>2. /\ Head(seq) = seq[1] /\ 1 \in DOMAIN seq
      /\ \A i \in DOMAIN Tail(seq) : /\ i + 1 \in DOMAIN seq /\ Tail(seq)[i] = seq[i + 1]
                                     /\ i \in Nat \ {0}
  OBVIOUS
<1>3. Keyed(f, Tail(seq))
  <2> SUFFICES ASSUME NEW i \in DOMAIN Tail(seq), NEW j \in DOMAIN Tail(seq),
                      f[Tail(seq)[i]] = f[Tail(seq)[j]]
               PROVE  i = j
    BY DEF Keyed
  <2>1. i + 1 = j + 1
    BY <1>2 DEF Keyed
  <2> QED BY <1>2, <2>1
<1>4. f[Head(seq)] \notin KeysOf(f, Tail(seq))
  <2> SUFFICES ASSUME NEW i \in DOMAIN Tail(seq) PROVE f[Tail(seq)[i]] # f[Head(seq)]
    BY DEF KeysOf, ToSet
  <2>1. i + 1 # 1
    BY <1>2
  <2> QED BY <1>2, <2>1 DEF Keyed
<1> QED BY <1>1, <1>3, <1>4 DEF KeysOf

\* A sequence without one of its elements.
LEMMA WithoutOne ==
  ASSUME NEW S, NEW q \in Seq(S), Distinct(q), NEW p \in ToSet(q)
  PROVE  /\ Without(q, p) \in Seq(S) /\ Distinct(Without(q, p))
         /\ ToSet(Without(q, p)) = ToSet(q) \ {p}
<1> DEFINE k == CHOOSE i \in DOMAIN q : q[i] = p
           rest == [i \in 1 .. Len(q) - 1 |-> IF i < k THEN q[i] ELSE q[i + 1]]
<1>1. k \in 1 .. Len(q) /\ q[k] = p
  <2>1. \E i \in DOMAIN q : q[i] = p
    BY DEF ToSet
  <2> QED BY <2>1
<1>2. Without(q, p) = RemoveAt(q, k)
  BY DEF Without
<1> HIDE DEF k
<1>3. RemoveAt(q, k) = rest
  <2> DEFINE left == SubSeq(q, 1, k - 1)
             right == SubSeq(q, k + 1, Len(q))
  <2>1. /\ left \in Seq(S) /\ Len(left) = k - 1
        /\ \A i \in 1 .. k - 1 : left[i] = q[i]
    BY <1>1
  <2>2. /\ right \in Seq(S) /\ Len(right) = Len(q) - k
        /\ \A i \in 1 .. Len(q) - k : right[i] = q[k + i]
    BY <1>1
  <2>4. RemoveAt(q, k) = left \o right
    BY DEF RemoveAt
  <2> HIDE DEF left, right
  <2>3. /\ RemoveAt(q, k) \in Seq(S) /\ Len(RemoveAt(q, k)) = Len(q) - 1
        /\ \A i \in 1 .. Len(q) - 1 : RemoveAt(q, k)[i] = IF i < k THEN q[i] ELSE q[i + 1]
    <3>1. Len(q) \in Nat /\ k \in 1 .. Len(q)
      BY <1>1
    <3>2. /\ left \o right \in Seq(S) /\ Len(left \o right) = Len(left) + Len(right)
          /\ \A i \in 1 .. Len(left) + Len(right) :
               (left \o right)[i] = IF i <= Len(left) THEN left[i] ELSE right[i - Len(left)]
      BY <2>1, <2>2, ConcatProperties
    <3>3. ASSUME NEW i \in 1 .. Len(q) - 1
          PROVE  (left \o right)[i] = IF i < k THEN q[i] ELSE q[i + 1]
      <4>1. i \in 1 .. Len(left) + Len(right) /\ (i <= Len(left) <=> i < k)
        BY <2>1, <2>2, <3>1
      <4>2. CASE i < k
        BY <2>1, <3>1, <3>2, <4>1, <4>2
      <4>3. CASE ~ (i < k)
        <5>1. i - Len(left) \in 1 .. Len(q) - k /\ k + (i - Len(left)) = i + 1
          BY <2>1, <3>1, <4>3
        <5>2. (left \o right)[i] = right[i - Len(left)] /\ ~ (i < k)
          BY <3>1, <3>2, <4>1, <4>3, <5>1
        <5>3. right[i - Len(left)] = q[i + 1]
          BY <2>2, <3>1, <5>1
        <5>4. (left \o right)[i] = q[i + 1]
          BY <5>2, <5>3
        <5> QED BY <5>2, <5>4
      <4> QED BY <3>1, <4>2, <4>3
    <3>4. Len(left) + Len(right) = Len(q) - 1
      BY <2>1, <2>2, <3>1
    <3> QED BY <2>4, <3>2, <3>3, <3>4
  <2> QED BY <2>3
<1>4. rest \in Seq(S) /\ DOMAIN rest = 1 .. Len(q) - 1
  BY <1>1
<1>5. Distinct(rest)
  BY <1>1, <1>4 DEF Distinct
<1>6. ToSet(rest) = ToSet(q) \ {p}
  <2>1. ASSUME NEW i \in DOMAIN rest PROVE rest[i] \in ToSet(q) \ {p}
    BY <1>1, <1>4 DEF Distinct, ToSet
  <2>2. ASSUME NEW i \in DOMAIN q, q[i] # p PROVE q[i] \in ToSet(rest)
    <3>1. CASE i < k
      <4>1. i \in DOMAIN rest /\ rest[i] = q[i]
        BY <1>1, <1>4, <3>1
      <4> QED BY <4>1 DEF ToSet
    <3>2. CASE i > k
      <4>1. i - 1 \in DOMAIN rest /\ rest[i - 1] = q[i]
        BY <1>1, <1>4, <3>2
      <4> QED BY <4>1 DEF ToSet
    <3> QED BY <1>1, <2>2, <3>1, <3>2
  <2> QED BY <2>1, <2>2 DEF ToSet
<1> QED BY <1>2, <1>3, <1>4, <1>5, <1>6

-----------------------------------------------------------------------------
(* The wire.                                                               *)

\* The keys of calls and answers.
LEMMA KeyFields ==
  /\ \A c \in Call : /\ CallKey[c] = <<c.prompt, c.kind # "cancel">>
                     /\ c.prompt \in Prompts \cup {NoPrompt}
                     /\ c.kind \in {"prompt", "steer", "cancel"}
                     /\ c.turn \in Turn \cup {NoTurn} /\ c.next \in BOOLEAN
  /\ \A e \in Answer : AnswerKey[e] = CallKey[e.call] /\ e.call \in Call /\ e.ok \in BOOLEAN
BY DEF CallKey, AnswerKey, Call, Answer

\* What is on its way is made of calls and answers.
LEMMA WireTypes ==
  ASSUME NEW s, NEW H, NEW cs, NEW ws, NEW ans, WireOK(s, H, cs, ws, ans)
  PROVE  ToSet(cs) \subseteq Call /\ ToSet(ws) \subseteq Call /\ ToSet(ans) \subseteq Answer
<1>1. cs \in Seq(Call) /\ ws \in Seq(Call) /\ ans \in Seq(Answer)
  BY DEF WireOK
<1>2. ASSUME NEW S, NEW seq \in Seq(S) PROVE ToSet(seq) \subseteq S
  BY DEF ToSet
<1>3. ToSet(cs) \subseteq Call /\ ToSet(ws) \subseteq Call
  BY <1>1, <1>2
<1>4. ToSet(ans) \subseteq Answer
  BY <1>1, <1>2
<1> QED BY <1>3, <1>4

\* A call that is new to the daemon is not on its way.
LEMMA NewIsFree ==
  ASSUME NEW s, NEW H, NEW cs, NEW ws, NEW ans, WireOK(s, H, cs, ws, ans),
         NEW c \in Call, NewTo(s, c)
  PROVE  Free(CallKey[c], cs, ws, ans)
<1>1. /\ ToSet(cs) \subseteq Call /\ ToSet(ws) \subseteq Call /\ ToSet(ans) \subseteq Answer
      /\ NoPrompt \notin Prompts
  BY WireTypes, ServiceAssumption DEF Prompts
<1>2. ASSUME NEW m \in Call, Right(s, m) PROVE CallKey[m] # CallKey[c]
  <2>1. CallKey[m] = <<m.prompt, m.kind # "cancel">> /\ CallKey[c] = <<c.prompt, c.kind # "cancel">>
    BY KeyFields
  <2>2. m.kind \in {"prompt", "steer", "cancel"} /\ c.kind \in {"prompt", "steer", "cancel"}
    BY KeyFields
  <2>3. CASE m.prompt # c.prompt \/ ((m.kind = "cancel") # (c.kind = "cancel"))
    BY <2>1, <2>3
  <2>4. CASE m.prompt = c.prompt /\ ((m.kind = "cancel") <=> (c.kind = "cancel"))
    BY <1>1, <1>2, <2>2, <2>4 DEF NewTo, Right, CancelOK
  <2> QED BY <2>3, <2>4
<1>3. \A m \in ToSet(cs) \cup ToSet(ws) : m \in Call /\ Right(s, m)
  BY <1>1 DEF WireOK, WritingOK
<1>4. \A e \in ToSet(ans) : e.call \in Call /\ Right(s, e.call) /\ AnswerKey[e] = CallKey[e.call]
  BY <1>1, KeyFields DEF WireOK, AnswerOK
<1> QED BY <1>2, <1>3, <1>4 DEF Free, KeysOf

\* The daemon sends a call.
LEMMA CallPosted ==
  ASSUME NEW s, NEW H, NEW cs, NEW ws, NEW ans, WireOK(s, H, cs, ws, ans),
         NEW c \in Call, Free(CallKey[c], cs, ws, ans), Right(s, c), Unheard(c, H)
  PROVE  WireOK(s, H, Append(cs, c), ws, ans)
<1>1. /\ Append(cs, c) \in Seq(Call) /\ Keyed(CallKey, Append(cs, c))
      /\ KeysOf(CallKey, Append(cs, c)) = KeysOf(CallKey, cs) \cup {CallKey[c]}
      /\ ToSet(Append(cs, c)) = ToSet(cs) \cup {c}
  BY AppendKeyed DEF WireOK, Free
<1> QED BY <1>1 DEF WireOK, Free, Apart

\* A prompt begins to wait in the core.
LEMMA WritingPosted ==
  ASSUME NEW s, NEW H, NEW cs, NEW ws, NEW ans, WireOK(s, H, cs, ws, ans),
         NEW c \in Call, Free(CallKey[c], cs, ws, ans), WritingOK(s, H, c)
  PROVE  WireOK(s, H, cs, Append(ws, c), ans)
<1>1. /\ Append(ws, c) \in Seq(Call) /\ Keyed(CallKey, Append(ws, c))
      /\ KeysOf(CallKey, Append(ws, c)) = KeysOf(CallKey, ws) \cup {CallKey[c]}
      /\ ToSet(Append(ws, c)) = ToSet(ws) \cup {c}
  BY AppendKeyed DEF WireOK, Free
<1> QED BY <1>1 DEF WireOK, Free, Apart

\* The core answers.
LEMMA AnswerPosted ==
  ASSUME NEW s, NEW H, NEW cs, NEW ws, NEW ans, WireOK(s, H, cs, ws, ans),
         NEW e \in Answer, Free(AnswerKey[e], cs, ws, ans), AnswerOK(s, H, e)
  PROVE  WireOK(s, H, cs, ws, Append(ans, e))
<1>0. ans \in Seq(Answer) /\ Keyed(AnswerKey, ans) /\ AnswerKey[e] \notin KeysOf(AnswerKey, ans)
  BY DEF WireOK, Free
<1>1. /\ Append(ans, e) \in Seq(Answer) /\ Keyed(AnswerKey, Append(ans, e))
      /\ KeysOf(AnswerKey, Append(ans, e)) = KeysOf(AnswerKey, ans) \cup {AnswerKey[e]}
      /\ ToSet(Append(ans, e)) = ToSet(ans) \cup {e}
  <2> DEFINE f == AnswerKey
             S == Answer
  <2>1. ans \in Seq(S) /\ e \in S /\ Keyed(f, ans) /\ f[e] \notin KeysOf(f, ans)
    BY <1>0
  <2> HIDE DEF f, S
  <2>2. /\ Append(ans, e) \in Seq(S) /\ Keyed(f, Append(ans, e))
        /\ KeysOf(f, Append(ans, e)) = KeysOf(f, ans) \cup {f[e]}
        /\ ToSet(Append(ans, e)) = ToSet(ans) \cup {e}
    BY <2>1, AppendKeyed
  <2> QED BY <2>2 DEF f, S
<1> QED BY <1>1 DEF WireOK, Free, Apart

\* A call arrives.
LEMMA CallTaken ==
  ASSUME NEW s, NEW H, NEW cs, NEW ws, NEW ans, WireOK(s, H, cs, ws, ans), cs # <<>>
  PROVE  /\ WireOK(s, H, Tail(cs), ws, ans) /\ Head(cs) \in Call
         /\ Free(CallKey[Head(cs)], Tail(cs), ws, ans)
         /\ Right(s, Head(cs)) /\ Unheard(Head(cs), H)
<1>1. /\ Head(cs) \in Call /\ Tail(cs) \in Seq(Call) /\ Keyed(CallKey, Tail(cs))
      /\ KeysOf(CallKey, cs) = KeysOf(CallKey, Tail(cs)) \cup {CallKey[Head(cs)]}
      /\ CallKey[Head(cs)] \notin KeysOf(CallKey, Tail(cs))
      /\ ToSet(cs) = {Head(cs)} \cup ToSet(Tail(cs))
  BY TailKeyed DEF WireOK
<1> QED BY <1>1 DEF WireOK, Free, Apart

\* A prompt no longer waits in the core.
LEMMA WritingTaken ==
  ASSUME NEW s, NEW H, NEW cs, NEW ws, NEW ans, WireOK(s, H, cs, ws, ans), ws # <<>>
  PROVE  /\ WireOK(s, H, cs, Tail(ws), ans) /\ Head(ws) \in Call
         /\ Free(CallKey[Head(ws)], cs, Tail(ws), ans)
         /\ WritingOK(s, H, Head(ws))
<1>1. /\ Head(ws) \in Call /\ Tail(ws) \in Seq(Call) /\ Keyed(CallKey, Tail(ws))
      /\ KeysOf(CallKey, ws) = KeysOf(CallKey, Tail(ws)) \cup {CallKey[Head(ws)]}
      /\ CallKey[Head(ws)] \notin KeysOf(CallKey, Tail(ws))
      /\ ToSet(ws) = {Head(ws)} \cup ToSet(Tail(ws))
  BY TailKeyed DEF WireOK
<1> QED BY <1>1 DEF WireOK, Free, Apart

\* An answer arrives.
LEMMA AnswerTaken ==
  ASSUME NEW s, NEW H, NEW cs, NEW ws, NEW ans, WireOK(s, H, cs, ws, ans), ans # <<>>
  PROVE  /\ WireOK(s, H, cs, ws, Tail(ans)) /\ Head(ans) \in Answer
         /\ Free(AnswerKey[Head(ans)], cs, ws, Tail(ans))
         /\ AnswerOK(s, H, Head(ans))
<1>1. /\ Head(ans) \in Answer /\ Tail(ans) \in Seq(Answer) /\ Keyed(AnswerKey, Tail(ans))
      /\ KeysOf(AnswerKey, ans) = KeysOf(AnswerKey, Tail(ans)) \cup {AnswerKey[Head(ans)]}
      /\ AnswerKey[Head(ans)] \notin KeysOf(AnswerKey, Tail(ans))
      /\ ToSet(ans) = {Head(ans)} \cup ToSet(Tail(ans))
  BY TailKeyed DEF WireOK
<1> QED BY <1>1 DEF WireOK, Free, Apart

\* The agent hears words that are not on their way.
LEMMA HeardMore ==
  ASSUME NEW s, NEW H, NEW cs, NEW ws, NEW ans, WireOK(s, H, cs, ws, ans),
         NEW x, Free(<<x, TRUE>>, cs, ws, ans)
  PROVE  WireOK(s, H \cup {x}, cs, ws, ans)
<1>1. ToSet(cs) \subseteq Call /\ ToSet(ws) \subseteq Call /\ ToSet(ans) \subseteq Answer
  BY WireTypes
<1>2. ASSUME NEW c \in Call, CallKey[c] # <<x, TRUE>>, Unheard(c, H)
      PROVE  Unheard(c, H \cup {x})
  <2>1. c.kind # "cancel" => CallKey[c] = <<c.prompt, TRUE>>
    BY KeyFields
  <2> QED BY <1>2, <2>1 DEF Unheard
<1>3. /\ \A c \in ToSet(cs) \cup ToSet(ws) : CallKey[c] # <<x, TRUE>>
      /\ \A e \in ToSet(ans) : CallKey[e.call] # <<x, TRUE>> /\ e.call \in Call
  BY <1>1, KeyFields DEF Free, KeysOf
<1> QED BY <1>1, <1>2, <1>3 DEF WireOK, WritingOK, AnswerOK

\* The daemon changes, but what is on its way stays right.
LEMMA DaemonMoved ==
  ASSUME NEW s, NEW H, NEW cs, NEW ws, NEW ans, WireOK(s, H, cs, ws, ans),
         NEW u, NEW K, Steady(s, u, K), \A k \in K : Free(k, cs, ws, ans)
  PROVE  WireOK(u, H, cs, ws, ans)
<1>1. ToSet(cs) \subseteq Call /\ ToSet(ws) \subseteq Call /\ ToSet(ans) \subseteq Answer
  BY WireTypes
<1>2. ASSUME NEW c \in Call, Right(s, c), CallKey[c] \notin K PROVE Right(u, c)
  <2>1. c.kind # "cancel" => CallKey[c] = <<c.prompt, TRUE>>
    BY KeyFields
  <2>2. c.kind = "cancel" => CallKey[c] = <<c.prompt, FALSE>>
    BY KeyFields
  <2> QED BY <1>2, <2>1, <2>2 DEF Right, Steady
<1>3. \A c \in ToSet(cs) \cup ToSet(ws) : CallKey[c] \notin K
  BY DEF Free, KeysOf
<1>4. \A e \in ToSet(ans) : CallKey[e.call] \notin K /\ e.call \in Call
  <2>1. \A e \in ToSet(ans) : AnswerKey[e] \notin K
    BY DEF Free, KeysOf
  <2> QED BY <1>1, <2>1, KeyFields
<1> QED BY <1>1, <1>2, <1>3, <1>4 DEF WireOK, WritingOK, AnswerOK

\* A step of the daemon leaves what is on its way right.
LEMMA Sent ==
  ASSUME NEW s, NEW H, NEW cs, NEW ws, NEW ans, WireOK(s, H, cs, ws, ans),
         NEW step, Moves(s, H, step)
  PROVE  WireOK(step.daemon, H, cs \o step.sends, ws, ans)
<1>1. WireOK(step.daemon, H, cs, ws, ans)
  BY DaemonMoved DEF Moves
<1>2. cs \in Seq(Call)
  BY DEF WireOK
<1>3. CASE step.sends = <<>>
  <2>1. cs \o <<>> = cs
    BY <1>2, ConcatEmptySeq
  <2> QED BY <1>1, <1>3, <2>1
<1>4. ASSUME NEW c \in Call, step.sends = <<c>>, NewTo(s, c), Right(step.daemon, c), Unheard(c, H)
      PROVE  WireOK(step.daemon, H, cs \o step.sends, ws, ans)
  <2>1. Free(CallKey[c], cs, ws, ans)
    BY <1>4, NewIsFree
  <2>2. WireOK(step.daemon, H, Append(cs, c), ws, ans)
    BY <1>1, <1>4, <2>1, CallPosted
  <2>3. cs \o <<c>> = Append(cs, c)
    BY <1>2, AppendIsConcat
  <2> QED BY <1>4, <2>2, <2>3
<1> QED BY <1>3, <1>4 DEF Moves

-----------------------------------------------------------------------------
(* The daemon.                                                             *)

\* What the daemon keeps.
LEMMA DaemonFields ==
  ASSUME NEW s \in Daemon
  PROVE  /\ s.active \in Prompts \cup {NoPrompt} /\ s.queue \in Seq(Prompts)
         /\ s.aborted \in SUBSET Prompts /\ NoPrompt \notin Prompts
         /\ \A p \in Prompts : /\ s.place[p] \in Place
                               /\ s.turnId[p] \in Turn \cup {NoTurn}
                               /\ s.told[p] \in Seq({"completed", "aborted"})
BY ServiceAssumption DEF Daemon, Prompts

\* u is s where p was told what, and nothing else.
TellsOnly(s, p, what, u) ==
  /\ u \in Daemon /\ u.active = s.active /\ u.queue = s.queue /\ u.place = s.place
  /\ u.turnId = s.turnId /\ u.aborted = s.aborted
  /\ u.told[p] = Append(s.told[p], what)
  /\ \A q \in Prompts \ {p} : u.told[q] = s.told[q]

\* A prompt is told.
LEMMA TellFields ==
  \A s \in Daemon, p \in Prompts, what \in {"completed", "aborted"} :
    TellsOnly(s, p, what, Tell(s, p, what))
<1> SUFFICES ASSUME NEW s \in Daemon, NEW p \in Prompts, NEW what \in {"completed", "aborted"},
                    NEW u, u = Tell(s, p, what)
             PROVE  TellsOnly(s, p, what, u)
  OBVIOUS
<1>1. Append(s.told[p], what) \in Seq({"completed", "aborted"})
  BY DaemonFields, AppendProperties
<1>2. [s.told EXCEPT ![p] = Append(s.told[p], what)]
        \in [Prompts -> Seq({"completed", "aborted"})]
  BY <1>1 DEF Daemon
<1>3. u = [s EXCEPT !.told = [s.told EXCEPT ![p] = Append(s.told[p], what)]]
  BY DEF Tell, Daemon
<1> QED BY <1>2, <1>3 DEF Daemon, TellsOnly

\* A prompt leaves for another place: nothing else is touched.
LEMMA PlaceOK ==
  ASSUME NEW s, NEW H, NEW E, NEW p \in Prompts, DaemonOK(s, H, E), NEW u \in Daemon,
         \A q \in Prompts \ {p} : u.place[q] = s.place[q] /\ u.told[q] = s.told[q],
         u.aborted = s.aborted, u.told[p] = s.told[p],
         \A q \in Prompts \ {p} : u.active = q => s.active = q,
         PromptOK(u, p), Unsaid(u, p, H)
  PROVE  \A q \in Prompts : PromptOK(u, q) /\ Unsaid(u, q, H)
BY DEF DaemonOK, PromptOK, Unsaid

\* _startPrompt from _active.set on.
LEMMA ActivateMoves ==
  ASSUME NEW s, NEW H, NEW p \in Prompts, DaemonOK(s, H, {p}), p \notin ToSet(s.queue),
         p \notin H, NEW next \in BOOLEAN,
         s.place[p] \in {"new", "starting", "next", "queued"},
         NEW step, step = Activate(s, p, next)
  PROVE  Moves(s, H, step) /\ step.daemon.active = p
<1> DEFINE u == step.daemon
           c == CallOf("prompt", p, NoTurn, next)
<1>0. s \in Daemon /\ PromptOK(s, p)
  BY DEF DaemonOK
<1>1. u = [s EXCEPT !.active = p, !.queue = s.queue, !.place[p] = "started"] /\ step.sends = <<c>>
  BY <1>0 DEF Activate, Daemon
<1>2. /\ u \in Daemon /\ u.active = p /\ u.queue = s.queue
      /\ u.place[p] = "started" /\ \A q \in Prompts \ {p} : u.place[q] = s.place[q]
      /\ u.turnId = s.turnId /\ u.aborted = s.aborted /\ u.told = s.told
  <2>1. s.queue \in Seq(Prompts) /\ p \in Prompts \cup {NoPrompt} /\ "started" \in Place
    BY <1>0, DaemonFields DEF Place
  <2> HIDE DEF u
  <2> QED BY <1>0, <1>1, <2>1 DEF Daemon
<1>3. c \in Call /\ c.kind = "prompt" /\ c.prompt = p
  BY DEF CallOf, Call
<1> HIDE DEF u, c
<1>4. p \notin s.aborted /\ s.told[p] = <<>>
  BY <1>0 DEF PromptOK
<1>5. PromptOK(u, p) /\ Unsaid(u, p, H)
  BY <1>2, <1>4 DEF PromptOK, Unsaid
<1>6. \A q \in Prompts : PromptOK(u, q) /\ Unsaid(u, q, H)
  BY <1>2, <1>5, PlaceOK
<1>7. Queued(u) = Queued(s) \ {p}
  BY <1>2 DEF Queued
<1>8. DaemonOK(u, H, {})
  BY <1>2, <1>6, <1>7 DEF DaemonOK
<1>9. Steady(s, u, {})
  BY <1>2 DEF Steady, CancelOK
<1>10. NewTo(s, c) /\ Right(u, c) /\ Unheard(c, H)
  BY <1>2, <1>3 DEF NewTo, Right, Unheard
<1> QED BY <1>1, <1>2, <1>3, <1>8, <1>9, <1>10 DEF Moves, u

\* _startPrompt of a prompt that is not in the queue.
LEMMA StartMoves ==
  ASSUME NEW s, NEW H, NEW p \in Prompts, DaemonOK(s, H, {p}), p \notin ToSet(s.queue),
         p \notin H, ~ Busy(s), NEW next \in BOOLEAN,
         s.place[p] \in {"new", "queued"},
         NEW step, step = StartPrompt(s, p, next)
  PROVE  Moves(s, H, step) /\ Served(step.daemon)
<1>1. CASE p \notin Controls
  <2>1. Moves(s, H, step) /\ step.daemon.active = p
    BY <1>1, ActivateMoves DEF StartPrompt
  <2> QED BY <2>1, ServiceAssumption DEF Served, Prompts
<1>2. CASE p \in Controls
  <2> DEFINE u == step.daemon
             place == IF next THEN "next" ELSE "starting"
  <2>0. s \in Daemon /\ PromptOK(s, p)
    BY DEF DaemonOK
  <2>1. /\ u = [s EXCEPT !.active = s.active, !.queue = s.queue, !.place[p] = place]
        /\ step.sends = <<>>
    BY <1>2, <2>0 DEF StartPrompt, Only, Daemon
  <2>2. /\ u \in Daemon /\ u.active = s.active /\ u.queue = s.queue
        /\ u.place[p] = place /\ \A q \in Prompts \ {p} : u.place[q] = s.place[q]
        /\ u.turnId = s.turnId /\ u.aborted = s.aborted /\ u.told = s.told
    <3>1. s.queue \in Seq(Prompts) /\ s.active \in Prompts \cup {NoPrompt} /\ place \in Place
      BY <2>0, DaemonFields DEF Place
    <3> HIDE DEF u, place
    <3> QED BY <2>0, <2>1, <3>1 DEF Daemon
  <2>3. u.place[p] \in {"starting", "next"}
    BY <2>2
  <2> HIDE DEF u, place
  <2>4. PromptOK(u, p) /\ Unsaid(u, p, H)
    BY <2>0, <2>2, <2>3 DEF PromptOK, Unsaid
  <2>5. \A q \in Prompts : PromptOK(u, q) /\ Unsaid(u, q, H)
    BY <2>2, <2>4, PlaceOK
  <2>6. Queued(u) = Queued(s) \ {p}
    BY <2>2, <2>3 DEF Queued
  <2>7. DaemonOK(u, H, {})
    BY <2>2, <2>5, <2>6 DEF DaemonOK
  <2>8. Steady(s, u, {})
    BY <2>2 DEF Steady, CancelOK
  <2>9. Served(u)
    BY <2>3 DEF Served
  <2> QED BY <2>1, <2>7, <2>8, <2>9 DEF Moves, u
<1> QED BY <1>1, <1>2

\* _startNextQueued.
LEMMA StartNextMoves ==
  ASSUME NEW s, NEW H, DaemonOK(s, H, {}), NEW step, step = StartNextQueued(s)
  PROVE  Moves(s, H, step) /\ Served(step.daemon)
<1>0. s \in Daemon /\ Distinct(s.queue) /\ ToSet(s.queue) = Queued(s) /\ s.queue \in Seq(Prompts)
  BY DaemonFields DEF DaemonOK
<1>1. CASE Busy(s) \/ s.queue = <<>>
  <2>1. step.daemon = s /\ step.sends = <<>>
    BY <1>1 DEF StartNextQueued, Only
  <2>2. Steady(s, s, {})
    BY DEF Steady
  <2> QED BY <1>1, <2>1, <2>2 DEF Moves, Served, Busy
<1>2. CASE ~ Busy(s) /\ s.queue # <<>>
  <2> DEFINE v == [s EXCEPT !.queue = Tail(@)]
             p == Head(s.queue)
  <2>1. /\ p \in Prompts /\ Tail(s.queue) \in Seq(Prompts)
        /\ ToSet(s.queue) = {p} \cup ToSet(Tail(s.queue))
        /\ Distinct(Tail(s.queue)) /\ p \notin ToSet(Tail(s.queue))
    BY <1>0, <1>2, TailSet
  <2>2. /\ v \in Daemon /\ v.active = s.active /\ v.queue = Tail(s.queue) /\ v.place = s.place
        /\ v.turnId = s.turnId /\ v.aborted = s.aborted /\ v.told = s.told
    BY <1>0, <2>1 DEF Daemon
  <2>3. step = StartPrompt(v, p, TRUE)
    BY <1>2 DEF StartNextQueued
  <2> HIDE DEF v, p
  <2>4. s.place[p] = "queued" /\ p \notin H
    BY <1>0, <2>1 DEF Queued, DaemonOK, Unsaid
  <2>5. DaemonOK(v, H, {p})
    <3>1. ToSet(v.queue) = Queued(v) \ {p}
      BY <1>0, <2>1, <2>2 DEF Queued
    <3>2. \A q \in Prompts : PromptOK(v, q) /\ Unsaid(v, q, H)
      BY <2>2 DEF DaemonOK, PromptOK, Unsaid
    <3> QED BY <2>1, <2>2, <3>1, <3>2 DEF DaemonOK
  <2>6. ~ Busy(v)
    BY <1>2, <2>2 DEF Busy
  <2>7. Moves(v, H, step) /\ Served(step.daemon)
    BY <2>1, <2>2, <2>3, <2>4, <2>5, <2>6, StartMoves
  <2>8. Moves(s, H, step)
    BY <2>2, <2>7 DEF Moves, Steady, NewTo, CancelOK
  <2> QED BY <2>7, <2>8
<1> QED BY <1>1, <1>2

\* The prompt whose start failed is refused.
Refused(s, p) == [s EXCEPT !.place[p] = "refused", !.active = IF @ = p THEN NoPrompt ELSE @]

\* _startPrompt fails.
LEMMA RefusedOK ==
  ASSUME NEW s, NEW H, DaemonOK(s, H, {}), NEW p \in Prompts, s.place[p] # "queued",
         NEW u, u = Refused(s, p)
  PROVE  DaemonOK(u, H, {}) /\ Steady(s, u, {<<p, TRUE>>})
<1>0. s \in Daemon /\ PromptOK(s, p)
  BY DEF DaemonOK
<1>1. /\ u \in Daemon /\ u.active \in {s.active, NoPrompt} /\ u.active # p
      /\ u.queue = s.queue /\ u.place[p] = "refused"
      /\ \A q \in Prompts \ {p} : u.place[q] = s.place[q]
      /\ u.turnId = s.turnId /\ u.aborted = s.aborted /\ u.told = s.told
  <2> DEFINE active == IF s.active = p THEN NoPrompt ELSE s.active
  <2>1. active \in Prompts \cup {NoPrompt} /\ active \in {s.active, NoPrompt} /\ active # p
    BY <1>0, DaemonFields
  <2>2. u = [s EXCEPT !.place[p] = "refused", !.active = active] /\ "refused" \in Place
    BY <1>0 DEF Refused, Daemon, Place
  <2> HIDE DEF active
  <2>3. /\ u \in Daemon /\ u.active = active /\ u.queue = s.queue
        /\ u.turnId = s.turnId /\ u.aborted = s.aborted /\ u.told = s.told
    <3>1. [s.place EXCEPT ![p] = "refused"] \in [Prompts -> Place]
      BY <1>0, <2>2 DEF Daemon
    <3>2. u = [s EXCEPT !.place = [s.place EXCEPT ![p] = "refused"], !.active = active]
      BY <1>0, <2>2 DEF Daemon
    <3> QED BY <1>0, <2>1, <3>1, <3>2 DEF Daemon
  <2>4. u.place[p] = "refused" /\ \A q \in Prompts \ {p} : u.place[q] = s.place[q]
    BY <1>0, <2>2 DEF Daemon
  <2> QED BY <2>1, <2>3, <2>4
<1>2. NoPrompt \notin Prompts
  BY <1>0, DaemonFields
<1>3. PromptOK(u, p) /\ Unsaid(u, p, H)
  BY <1>0, <1>1 DEF PromptOK, Unsaid
<1>4. \A q \in Prompts : PromptOK(u, q) /\ Unsaid(u, q, H)
  <2>1. \A q \in Prompts \ {p} : u.active = q => s.active = q
    BY <1>1, <1>2
  <2> QED BY <1>1, <1>3, <2>1, PlaceOK
<1>5. Queued(u) = Queued(s)
  BY <1>1 DEF Queued
<1>6. DaemonOK(u, H, {})
  BY <1>1, <1>4, <1>5 DEF DaemonOK
<1> QED BY <1>1, <1>6 DEF Steady, CancelOK

\* A step that changes the daemon only.
LEMMA OnlyMoves ==
  ASSUME NEW s, NEW H, DaemonOK(s, H, {})
  PROVE  Moves(s, H, Only(s))
<1>1. Steady(s, s, {})
  BY DEF Steady
<1> QED BY <1>1 DEF Moves, Only

\* The start of a prompt failed, which was not waiting in the queue.
LEMMA StartFailedMoves ==
  ASSUME NEW s, NEW H, DaemonOK(s, H, {}), NEW p \in Prompts, s.place[p] # "queued",
         NEW next \in BOOLEAN, NEW step, step = StartFailed(s, p, next)
  PROVE  \E u : /\ DaemonOK(u, H, {}) /\ Steady(s, u, {<<p, TRUE>>}) /\ Moves(u, H, step)
                /\ next => Served(step.daemon)
                /\ ~ next => step.daemon.place[p] = "refused"
<1> DEFINE u == Refused(s, p)
<1>1. DaemonOK(u, H, {}) /\ Steady(s, u, {<<p, TRUE>>})
  BY RefusedOK
<1>2. step = IF next THEN StartNextQueued(u) ELSE Only(u)
  BY DEF StartFailed, Refused
<1>3. u.place[p] = "refused"
  BY DEF DaemonOK, Daemon, Refused
<1> HIDE DEF u
<1>4. next => Moves(u, H, step) /\ Served(step.daemon)
  BY <1>1, <1>2, StartNextMoves
<1>5. ~ next => Moves(u, H, step) /\ step.daemon = u
  BY <1>1, <1>2, OnlyMoves DEF Only
<1> QED BY <1>1, <1>3, <1>4, <1>5

\* submit.
LEMMA SubmitMoves ==
  ASSUME NEW s, NEW H, DaemonOK(s, H, {}), NEW p \in Prompts, s.place[p] = "new", p \notin H,
         NEW step, step = Submitted(s, p)
  PROVE  Moves(s, H, step) /\ Served(step.daemon)
<1>0. /\ s \in Daemon /\ PromptOK(s, p) /\ s.queue \in Seq(Prompts) /\ Distinct(s.queue)
      /\ ToSet(s.queue) = Queued(s)
  BY DaemonFields DEF DaemonOK
<1>1. p \notin ToSet(s.queue)
  BY <1>0 DEF Queued
<1>2. CASE ~ Busy(s)
  <2>1. DaemonOK(s, H, {p})
    BY <1>0, <1>1 DEF DaemonOK
  <2> QED BY <1>1, <1>2, <2>1, StartMoves DEF Submitted
<1>3. CASE Busy(s)
  <2> DEFINE u == [s EXCEPT !.queue = Append(@, p), !.place[p] = "queued"]
  <2>1. step.daemon = u /\ step.sends = <<>>
    BY <1>3 DEF Submitted, Only
  <2>2. /\ Append(s.queue, p) \in Seq(Prompts) /\ Distinct(Append(s.queue, p))
        /\ ToSet(Append(s.queue, p)) = ToSet(s.queue) \cup {p}
    BY <1>0, <1>1, AppendOnce
  <2>3. /\ u \in Daemon /\ u.active = s.active /\ u.queue = Append(s.queue, p)
        /\ u.place[p] = "queued" /\ \A q \in Prompts \ {p} : u.place[q] = s.place[q]
        /\ u.turnId = s.turnId /\ u.aborted = s.aborted /\ u.told = s.told
    BY <1>0, <2>2 DEF Daemon, Place
  <2> HIDE DEF u
  <2>4. PromptOK(u, p) /\ Unsaid(u, p, H)
    BY <1>0, <2>3 DEF PromptOK, Unsaid
  <2>5. \A q \in Prompts : PromptOK(u, q) /\ Unsaid(u, q, H)
    BY <2>3, <2>4, PlaceOK
  <2>6. Queued(u) = Queued(s) \cup {p}
    BY <2>3 DEF Queued
  <2>7. DaemonOK(u, H, {})
    BY <1>0, <2>2, <2>3, <2>5, <2>6 DEF DaemonOK
  <2>8. Steady(s, u, {}) /\ Served(u)
    BY <1>3, <2>3 DEF Steady, CancelOK, Served, Busy
  <2> QED BY <2>1, <2>7, <2>8 DEF Moves
<1> QED BY <1>2, <1>3

\* A prompt leaves the queue, for good or to be steered.
LEMMA TakenOK ==
  ASSUME NEW s, NEW H, DaemonOK(s, H, {}), NEW p \in Prompts, s.place[p] = "queued",
         NEW place \in {"refused", "steering"}, NEW u \in Daemon,
         u.active = s.active, u.queue = Without(s.queue, p), u.place[p] = place,
         \A q \in Prompts \ {p} : u.place[q] = s.place[q] /\ u.told[q] = s.told[q],
         u.aborted = s.aborted,
         u.told[p] # <<>> => Len(u.told[p]) = 1 /\ place = "refused"
  PROVE  /\ DaemonOK(u, H, {}) /\ Steady(s, u, {}) /\ (Served(s) => Served(u))
<1>0. /\ s \in Daemon /\ PromptOK(s, p) /\ s.queue \in Seq(Prompts) /\ Distinct(s.queue)
      /\ ToSet(s.queue) = Queued(s) /\ p \in ToSet(s.queue)
  BY DaemonFields DEF DaemonOK, Queued
<1>1. Distinct(u.queue) /\ ToSet(u.queue) = ToSet(s.queue) \ {p}
  BY <1>0, WithoutOne
<1>2. s.active # p /\ p \notin s.aborted
  BY <1>0 DEF PromptOK
<1>3. PromptOK(u, p) /\ Unsaid(u, p, H)
  BY <1>2 DEF PromptOK, Unsaid
<1>4. \A q \in Prompts : PromptOK(u, q) /\ Unsaid(u, q, H)
  BY <1>3 DEF DaemonOK, PromptOK, Unsaid
<1>5. Queued(u) = Queued(s) \ {p}
  BY DEF Queued
<1>6. DaemonOK(u, H, {})
  BY <1>0, <1>1, <1>4, <1>5 DEF DaemonOK
<1>7. Steady(s, u, {})
  BY <1>2 DEF Steady, CancelOK
<1>8. Served(s) => Served(u)
  <2>1. s.queue # <<>>
    BY <1>0 DEF ToSet
  <2> QED BY <2>1 DEF Served
<1> QED BY <1>6, <1>7, <1>8

\* turn.started arrives.
LEMMA TurnStartedOK ==
  ASSUME NEW s, NEW H, DaemonOK(s, H, {}), NEW n \in Turn, NEW u, u = TurnStarted(s, n)
  PROVE  DaemonOK(u, H, {}) /\ Steady(s, u, {}) /\ (Served(s) => Served(u))
<1>0. s \in Daemon
  BY DEF DaemonOK
<1>1. CASE u = s
  BY <1>1 DEF Steady
<1>2. CASE s.active # NoPrompt /\ u = [s EXCEPT !.turnId[s.active] = n]
  <2>1. [s.turnId EXCEPT ![s.active] = n] \in [Prompts -> Turn \cup {NoTurn}]
    BY <1>0 DEF Daemon
  <2>2. u = [s EXCEPT !.turnId = [s.turnId EXCEPT ![s.active] = n]]
    BY <1>0, <1>2 DEF Daemon
  <2>3. /\ u \in Daemon /\ u.active = s.active /\ u.queue = s.queue /\ u.place = s.place
        /\ u.aborted = s.aborted /\ u.told = s.told
    BY <1>0, <2>1, <2>2 DEF Daemon
  <2>4. Queued(u) = Queued(s)
    BY <2>3 DEF Queued
  <2>5. \A q \in Prompts : PromptOK(u, q) /\ Unsaid(u, q, H)
    BY <2>3 DEF DaemonOK, PromptOK, Unsaid
  <2>6. DaemonOK(u, H, {})
    BY <2>3, <2>4, <2>5 DEF DaemonOK
  <2> QED BY <2>3, <2>6 DEF Steady, CancelOK, Served
<1> QED BY <1>1, <1>2 DEF TurnStarted

\* The active prompt is over: it is told, unless its abort will tell it.
LEMMA OverOK ==
  ASSUME NEW s, NEW H, DaemonOK(s, H, {}), NEW p \in Prompts, s.active = p,
         NEW v, v = [s EXCEPT !.active = NoPrompt],
         NEW what \in {"completed", "aborted"},
         NEW u, u = IF p \in s.aborted THEN v ELSE Tell(v, p, what)
  PROVE  DaemonOK(u, H, {}) /\ Steady(s, u, {})
<1>0. s \in Daemon /\ PromptOK(s, p) /\ NoPrompt \notin Prompts
  BY DaemonFields DEF DaemonOK
<1>1. /\ v \in Daemon /\ v.active = NoPrompt /\ v.queue = s.queue /\ v.place = s.place
      /\ v.turnId = s.turnId /\ v.aborted = s.aborted /\ v.told = s.told
  BY <1>0 DEF Daemon
<1>2. /\ u \in Daemon /\ u.active = NoPrompt /\ u.queue = s.queue /\ u.place = s.place
      /\ u.aborted = s.aborted
      /\ \A q \in Prompts \ {p} : u.told[q] = s.told[q]
      /\ p \in s.aborted => u.told[p] = s.told[p]
      /\ p \notin s.aborted => u.told[p] = Append(s.told[p], what)
  <2>1. CASE p \in s.aborted
    BY <1>1, <2>1
  <2>2. CASE p \notin s.aborted
    <3>1. u = Tell(v, p, what) /\ v \in Daemon
      BY <1>1, <2>2
    <3>2. TellsOnly(v, p, what, u)
      BY <3>1, TellFields
    <3> QED BY <1>1, <2>2, <3>2 DEF TellsOnly
  <2> QED BY <2>1, <2>2
<1>3. p \notin s.aborted => s.told[p] = <<>>
  BY <1>0 DEF PromptOK
<1>4. p \notin s.aborted => Len(u.told[p]) = 1
  <2>1. Len(Append(<<>>, what)) = 1
    OBVIOUS
  <2> QED BY <1>2, <1>3, <2>1
<1>5. s.place[p] = "started"
  BY <1>0 DEF PromptOK
<1>6. PromptOK(u, p) /\ Unsaid(u, p, H)
  BY <1>0, <1>2, <1>4, <1>5 DEF PromptOK, Unsaid
<1>7. \A q \in Prompts : PromptOK(u, q) /\ Unsaid(u, q, H)
  BY <1>0, <1>2, <1>6 DEF DaemonOK, PromptOK, Unsaid
<1>8. Queued(u) = Queued(s)
  BY <1>2 DEF Queued
<1>9. DaemonOK(u, H, {})
  BY <1>2, <1>7, <1>8 DEF DaemonOK
<1> QED BY <1>2, <1>9 DEF Steady, CancelOK

\* turn.ended arrives.
LEMMA TurnEndedMoves ==
  ASSUME NEW s, NEW H, DaemonOK(s, H, {}), NEW n \in Turn, NEW reason,
         NEW step, step = TurnEnded(s, n, reason)
  PROVE  \E u : /\ DaemonOK(u, H, {}) /\ Steady(s, u, {}) /\ Moves(u, H, step)
                /\ Served(s) => Served(step.daemon)
<1>1. CASE step = Only(s)
  <2>1. Moves(s, H, step) /\ step.daemon = s /\ Steady(s, s, {})
    BY <1>1, OnlyMoves DEF Only, Steady
  <2> QED BY <2>1
<1>2. CASE /\ s.active # NoPrompt
           /\ LET p == s.active
                  v == [s EXCEPT !.active = NoPrompt]
              IN  step = StartNextQueued(IF p \in s.aborted THEN v
                                         ELSE Tell(v, p, IF reason = "cancelled" THEN "aborted"
                                                         ELSE "completed"))
  <2> DEFINE p == s.active
             v == [s EXCEPT !.active = NoPrompt]
             what == IF reason = "cancelled" THEN "aborted" ELSE "completed"
             u == IF p \in s.aborted THEN v ELSE Tell(v, p, what)
  <2>1. p \in Prompts
    BY <1>2, DaemonFields DEF DaemonOK
  <2>2. what \in {"completed", "aborted"} /\ step = StartNextQueued(u)
    BY <1>2
  <2>3. DaemonOK(u, H, {}) /\ Steady(s, u, {})
    <3> HIDE DEF what
    <3> QED BY <2>1, <2>2, OverOK
  <2> HIDE DEF u
  <2>4. Moves(u, H, step) /\ Served(step.daemon)
    BY <2>2, <2>3, StartNextMoves
  <2> QED BY <2>3, <2>4
<1> QED BY <1>1, <1>2 DEF TurnEnded

\* A steered prompt leaves "steering" for another place.
LEMMA LeftSteering ==
  ASSUME NEW s, NEW H, DaemonOK(s, H, {}), NEW p \in Prompts, s.place[p] = "steering",
         NEW place \in {"steered", "queued"}, place = "queued" => p \notin H,
         NEW queue \in Seq(Prompts), Distinct(queue),
         ToSet(queue) = ToSet(s.queue) \cup (IF place = "queued" THEN {p} ELSE {}),
         NEW u, u = [s EXCEPT !.queue = queue, !.place = [s.place EXCEPT ![p] = place]]
  PROVE  DaemonOK(u, H, {}) /\ Steady(s, u, {<<p, TRUE>>})
<1>0. s \in Daemon /\ PromptOK(s, p) /\ ToSet(s.queue) = Queued(s)
  BY DEF DaemonOK
<1>1. s.active # p /\ p \notin s.aborted /\ s.told[p] = <<>>
  BY <1>0 DEF PromptOK
<1>2. [s.place EXCEPT ![p] = place] \in [Prompts -> Place]
  BY <1>0 DEF Daemon, Place
<1>3. /\ u \in Daemon /\ u.active = s.active /\ u.aborted = s.aborted /\ u.told = s.told
      /\ u.queue = queue /\ u.place = [s.place EXCEPT ![p] = place]
  BY <1>0, <1>2 DEF Daemon
<1>4. u.place[p] = place /\ \A q \in Prompts \ {p} : u.place[q] = s.place[q]
  BY <1>0, <1>3 DEF Daemon
<1>5. ToSet(u.queue) = Queued(u)
  BY <1>0, <1>3, <1>4 DEF Queued
<1>6. PromptOK(u, p) /\ Unsaid(u, p, H)
  BY <1>1, <1>3, <1>4 DEF PromptOK, Unsaid
<1>7. \A q \in Prompts : PromptOK(u, q) /\ Unsaid(u, q, H)
  BY <1>3, <1>4, <1>6 DEF DaemonOK, PromptOK, Unsaid
<1>8. DaemonOK(u, H, {})
  BY <1>3, <1>5, <1>7 DEF DaemonOK
<1>9. Steady(s, u, {<<p, TRUE>>})
  BY <1>3, <1>4 DEF Steady, CancelOK
<1> QED BY <1>8, <1>9

\* A prompt is steered.
LEMMA SteeredOK ==
  ASSUME NEW s, NEW H, DaemonOK(s, H, {}), NEW p \in Prompts, s.place[p] = "steering",
         NEW u, u = [s EXCEPT !.place[p] = "steered"]
  PROVE  DaemonOK(u, H, {}) /\ Steady(s, u, {<<p, TRUE>>}) /\ (Served(s) => Served(u))
<1>0. s \in Daemon /\ s.queue \in Seq(Prompts) /\ Distinct(s.queue)
  BY DaemonFields DEF DaemonOK
<1> DEFINE queue == s.queue
           place == "steered"
<1>1. u = [s EXCEPT !.queue = queue, !.place = [s.place EXCEPT ![p] = place]]
  BY <1>0 DEF Daemon
<1>2. /\ place \in {"steered", "queued"} /\ place # "queued"
      /\ queue \in Seq(Prompts) /\ Distinct(queue)
      /\ ToSet(queue) = ToSet(s.queue) \cup (IF place = "queued" THEN {p} ELSE {})
  BY <1>0
<1>3. Served(s) => Served(u)
  BY <1>0 DEF Served, Daemon
<1> HIDE DEF queue, place
<1>4. DaemonOK(u, H, {}) /\ Steady(s, u, {<<p, TRUE>>})
  BY <1>1, <1>2, LeftSteering
<1> QED BY <1>3, <1>4

\* A prompt comes back to the queue because it could not be steered.
LEMMA RestoredOK ==
  ASSUME NEW s, NEW H, DaemonOK(s, H, {}), NEW p \in Prompts, s.place[p] = "steering",
         p \notin H, NEW u, u = Restored(s, p)
  PROVE  DaemonOK(u, H, {}) /\ Steady(s, u, {<<p, TRUE>>})
<1>0. /\ s \in Daemon /\ s.queue \in Seq(Prompts) /\ Distinct(s.queue) /\ p \notin ToSet(s.queue)
  BY DaemonFields DEF DaemonOK, Queued
<1> DEFINE queue == <<p>> \o s.queue
           place == "queued"
<1>1. u = [s EXCEPT !.queue = queue, !.place = [s.place EXCEPT ![p] = place]]
  BY <1>0 DEF Daemon, Restored
<1>2. queue \in Seq(Prompts) /\ Distinct(queue) /\ ToSet(queue) = ToSet(s.queue) \cup {p}
  BY <1>0, ConsOnce
<1> HIDE DEF queue
<1>3. /\ place \in {"steered", "queued"}
      /\ ToSet(queue) = ToSet(s.queue) \cup (IF place = "queued" THEN {p} ELSE {})
  BY <1>2
<1> HIDE DEF place
<1> QED BY <1>1, <1>2, <1>3, LeftSteering

\* The abort of a prompt is told, or taken back.
LEMMA AbortAnswered ==
  ASSUME NEW s, NEW H, DaemonOK(s, H, {}), NEW p \in Prompts, CancelOK(s, p),
         NEW u \in Daemon, u.active = s.active, u.queue = s.queue, u.place = s.place,
         \A q \in Prompts \ {p} : u.told[q] = s.told[q] /\ (q \in u.aborted <=> q \in s.aborted),
         p \in u.aborted => Len(u.told[p]) = 1, p \notin u.aborted => u.told[p] = <<>>
  PROVE  /\ DaemonOK(u, H, {}) /\ Steady(s, u, {<<p, FALSE>>})
         /\ Served(s) => Served(u)
<1>0. s \in Daemon /\ PromptOK(s, p) /\ p \in s.aborted /\ s.told[p] = <<>>
  BY DEF DaemonOK, CancelOK
<1>1. PromptOK(u, p) /\ Unsaid(u, p, H)
  BY <1>0 DEF DaemonOK, PromptOK, Unsaid
<1>2. \A q \in Prompts : PromptOK(u, q) /\ Unsaid(u, q, H)
  BY <1>1 DEF DaemonOK, PromptOK, Unsaid
<1>3. Queued(u) = Queued(s)
  BY DEF Queued
<1>4. DaemonOK(u, H, {})
  BY <1>2, <1>3 DEF DaemonOK
<1>5. Steady(s, u, {<<p, FALSE>>})
  BY DEF Steady, CancelOK
<1> QED BY <1>4, <1>5 DEF Served

\* The abort of a prompt is told.
LEMMA AbortedOK ==
  ASSUME NEW s, NEW H, DaemonOK(s, H, {}), NEW p \in Prompts, CancelOK(s, p),
         NEW u, u = Tell(s, p, "aborted")
  PROVE  /\ DaemonOK(u, H, {}) /\ Steady(s, u, {<<p, FALSE>>})
         /\ Served(s) => Served(u)
<1>0. s \in Daemon /\ p \in s.aborted /\ s.told[p] = <<>>
  BY DEF DaemonOK, CancelOK
<1>1. "aborted" \in {"completed", "aborted"} /\ Len(Append(<<>>, "aborted")) = 1
  OBVIOUS
<1>2. TellsOnly(s, p, "aborted", u)
  BY <1>0, <1>1, TellFields
<1>3. /\ u \in Daemon /\ u.active = s.active /\ u.queue = s.queue /\ u.place = s.place
      /\ \A q \in Prompts \ {p} :
           u.told[q] = s.told[q] /\ (q \in u.aborted <=> q \in s.aborted)
      /\ Len(u.told[p]) = 1 /\ p \in u.aborted
  BY <1>0, <1>1, <1>2 DEF TellsOnly
<1> QED BY <1>3, AbortAnswered

\* The prompt that is not aborted after all.
Resumed(s, p) == [s EXCEPT !.aborted = @ \ {p}]

\* The abort of a prompt is taken back.
LEMMA ResumedOK ==
  ASSUME NEW s, NEW H, DaemonOK(s, H, {}), NEW p \in Prompts, CancelOK(s, p),
         NEW u, u = Resumed(s, p)
  PROVE  /\ DaemonOK(u, H, {}) /\ Steady(s, u, {<<p, FALSE>>})
         /\ Served(s) => Served(u)
<1>0. s \in Daemon /\ s.told[p] = <<>>
  BY DEF DaemonOK, CancelOK
<1>1. u = [s EXCEPT !.aborted = s.aborted \ {p}] /\ s.aborted \ {p} \in SUBSET Prompts
  BY <1>0 DEF Daemon, Resumed
<1>2. /\ u \in Daemon /\ u.active = s.active /\ u.queue = s.queue /\ u.place = s.place
      /\ u.told = s.told /\ u.aborted = s.aborted \ {p}
  BY <1>0, <1>1 DEF Daemon
<1>3. /\ u \in Daemon /\ u.active = s.active /\ u.queue = s.queue /\ u.place = s.place
      /\ \A q \in Prompts \ {p} :
           u.told[q] = s.told[q] /\ (q \in u.aborted <=> q \in s.aborted)
      /\ p \in u.aborted => Len(u.told[p]) = 1
      /\ p \notin u.aborted => u.told[p] = <<>>
  BY <1>0, <1>2
<1> QED BY <1>3, AbortAnswered

\* The active prompt is marked as aborted.
LEMMA MarkedMoves ==
  ASSUME NEW s, NEW H, DaemonOK(s, H, {}), Busy(s), NEW step,
         step = [daemon |-> Marked(s),
                 sends |-> <<CallOf("cancel", s.active, s.turnId[s.active], FALSE)>>]
  PROVE  Moves(s, H, step) /\ (Served(s) => Served(step.daemon))
<1> DEFINE p == s.active
           u == Marked(s)
           c == CallOf("cancel", p, s.turnId[p], FALSE)
<1>0. s \in Daemon /\ p \in Prompts /\ p \notin s.aborted /\ PromptOK(s, p)
  BY DaemonFields DEF DaemonOK, Busy
<1>1. s.place[p] = "started" /\ s.told[p] = <<>>
  BY <1>0 DEF PromptOK
<1>2. c \in Call /\ c.kind = "cancel" /\ c.prompt = p
  BY <1>0, DaemonFields DEF CallOf, Call
<1>3. /\ u \in Daemon /\ u.active = p /\ u.queue = s.queue /\ u.place = s.place
      /\ u.told = s.told /\ u.aborted = s.aborted \cup {p}
  BY <1>0 DEF Marked, Daemon
<1>4. step.daemon = u /\ step.sends = <<c>>
  OBVIOUS
<1> HIDE DEF u, c, p
<1>5. \A q \in Prompts : PromptOK(u, q) /\ Unsaid(u, q, H)
  BY <1>1, <1>3 DEF DaemonOK, PromptOK, Unsaid
<1>6. Queued(u) = Queued(s)
  BY <1>3 DEF Queued
<1>7. DaemonOK(u, H, {})
  BY <1>3, <1>5, <1>6 DEF DaemonOK
<1>8. Steady(s, u, {}) /\ (Served(s) => Served(u))
  BY <1>3 DEF Steady, CancelOK, Served, p
<1>9. NewTo(s, c) /\ Right(u, c) /\ Unheard(c, H)
  BY <1>0, <1>1, <1>2, <1>3 DEF NewTo, Right, Unheard, CancelOK
<1> QED BY <1>2, <1>4, <1>7, <1>8, <1>9 DEF Moves

-----------------------------------------------------------------------------
(* The agent and the daemon together.                                      *)

\* The queue may stop being served: a call has failed.
Excused ==
  \/ answers # <<>> /\ answers' = Tail(answers) /\ ~ Head(answers).ok
  \/ \E p \in Prompts : d.place[p] = "starting" /\ d'.place[p] = "refused"

\* What every step preserves.
PAfter ==
  /\ PInv' /\ Heard \subseteq Heard' /\ Stays(a, a')
  /\ Served(d) /\ ~ Served(d') => Excused

\* The agent rests.
LEMMA AgentRests ==
  ASSUME AgentOK, UNCHANGED turnVars
  PROVE  AgentOK' /\ Stays(a, a') /\ Heard' = Heard
<1>1. a' = a /\ events' = events
  BY DEF turnVars
<1> QED BY <1>1 DEF AgentOK, Stays, Heard

\* The agent moves.
LEMMA AgentMoves ==
  ASSUME events \in Seq(Event), NEW told \in Seq(Event), NEW X, Doing(told \o events, X)
  PROVE  AgentOK' /\ Stays(a, a') /\ Heard' = Heard \cup X
<1>1. PICK step : Follows(a, told \o events, step, X) /\ Does(step)
  BY DEF Doing
<1>2. /\ a' = step.agent /\ events' = events \o step.emits /\ step.emits \in Seq(Event)
      /\ Good(step.agent, (told \o events) \o step.emits)
      /\ HeardBy(step.agent) = HeardBy(a) \cup X /\ Stays(a, step.agent)
  BY <1>1 DEF Follows, Does
<1> DEFINE emits == step.emits
           E == Event
<1>3. events \in Seq(E) /\ told \in Seq(E) /\ emits \in Seq(E)
  BY <1>2
<1> HIDE DEF emits, E
<1>4. events \o emits \in Seq(E) /\ (told \o events) \o emits = told \o (events \o emits)
  BY <1>3, ConcatAssociative, ConcatProperties
<1>5. events' \in Seq(Event) /\ Good(a', told \o events')
  BY <1>2, <1>4 DEF emits, E
<1>6. Heard' = Heard \cup X
  BY <1>2 DEF Heard, HeardBy
<1> QED BY <1>2, <1>5, <1>6 DEF AgentOK

\* The agent moves and hears nothing new.
LEMMA AgentWorks ==
  ASSUME events \in Seq(Event), NEW told \in Seq(Event), Doing(told \o events, {})
  PROVE  AgentOK' /\ Stays(a, a') /\ Heard' = Heard
<1> DEFINE X == {}
<1>1. Doing(told \o events, X) /\ Heard \cup X = Heard
  OBVIOUS
<1> HIDE DEF X
<1> QED BY <1>1, AgentMoves

\* An event is taken.
LEMMA AgentHeard ==
  ASSUME AgentOK, events # <<>>, events' = Tail(events), a' = a
  PROVE  /\ AgentOK' /\ Stays(a, a') /\ Heard' = Heard /\ Head(events) \in Event
<1>1. PICK told \in Seq(Event) : Good(a, told \o events)
  BY DEF AgentOK
<1> DEFINE E == Event
           one == <<Head(events)>>
<1>2. events \in Seq(E) /\ told \in Seq(E)
  BY DEF AgentOK
<1> HIDE DEF E
<1>3. Head(events) \in E /\ Tail(events) \in Seq(E) /\ events = one \o Tail(events)
  BY <1>2
<1>4. one \in Seq(E)
  BY <1>3
<1> HIDE DEF one
<1>5. told \o one \in Seq(E) /\ (told \o one) \o Tail(events) = told \o (one \o Tail(events))
  BY <1>2, <1>3, <1>4, ConcatAssociative, ConcatProperties
<1>6. Good(a', (told \o one) \o events') /\ told \o one \in Seq(Event) /\ events' \in Seq(Event)
  BY <1>1, <1>3, <1>5 DEF E
<1>7. Head(events) \in Event /\ AgentOK'
  BY <1>3, <1>6 DEF AgentOK, E
<1> QED BY <1>7 DEF Stays, Heard

\* The agent hears a prompt that does not wait to be started.
LEMMA DaemonHears ==
  ASSUME NEW s, NEW H, DaemonOK(s, H, {}), NEW x \in Prompts,
         s.place[x] \notin {"starting", "next", "queued"}
  PROVE  DaemonOK(s, H \cup {x}, {})
BY DEF DaemonOK, Unsaid

\* A step of the daemon alone.
LEMMA DaemonStep ==
  ASSUME PInv, UNCHANGED <<turnVars, writing, answers>>, NEW step, Sends(step),
         Moves(d, Heard, step), Served(d) /\ ~ Served(step.daemon) => Excused
  PROVE  PAfter
<1>1. AgentOK' /\ Stays(a, a') /\ Heard' = Heard
  BY AgentRests DEF PInv
<1>2. d' = step.daemon /\ calls' = calls \o step.sends /\ writing' = writing /\ answers' = answers
  BY DEF Sends
<1>3. WireOK(step.daemon, Heard, calls \o step.sends, writing, answers)
  BY Sent DEF PInv
<1>4. DaemonOK(step.daemon, Heard, {})
  BY DEF Moves
<1>5. PInv'
  BY <1>1, <1>2, <1>3, <1>4 DEF PInv
<1> QED BY <1>1, <1>2, <1>5 DEF PAfter

\* A step of the daemon after it has become u, for which the keys in K are free.
LEMMA DaemonStepFrom ==
  ASSUME DaemonOK(d, Heard, {}), AgentOK', Stays(a, a'), Heard' = Heard,
         NEW ans, WireOK(d, Heard, calls, writing, ans),
         writing' = writing, answers' = ans,
         NEW K, \A k \in K : Free(k, calls, writing, ans),
         NEW u, Steady(d, u, K), NEW step, Moves(u, Heard, step), Sends(step),
         Served(d) /\ ~ Served(step.daemon) => Excused
  PROVE  PAfter
<1>1. WireOK(u, Heard, calls, writing, ans)
  BY DaemonMoved
<1>2. WireOK(step.daemon, Heard, calls \o step.sends, writing, ans)
  BY <1>1, Sent
<1>3. d' = step.daemon /\ calls' = calls \o step.sends
  BY DEF Sends
<1>4. DaemonOK(step.daemon, Heard, {})
  BY DEF Moves
<1>5. PInv'
  BY <1>2, <1>3, <1>4 DEF PInv
<1> QED BY <1>3, <1>5 DEF PAfter

\* submit.
LEMMA SubmitStep ==
  ASSUME PInv, NEW p \in Prompts, Submit(p)
  PROVE  PAfter
<1>1. Moves(d, Heard, Submitted(d, p)) /\ Served(Submitted(d, p).daemon)
  BY SubmitMoves DEF PInv, Submit
<1> QED BY <1>1, DaemonStep DEF Submit

\* The controls are set, or could not be.
LEMMA ControlsStep ==
  ASSUME PInv, NEW p \in Prompts, ControlsSet(p)
  PROVE  PAfter
<1> DEFINE next == d.place[p] = "next"
<1>0. DaemonOK(d, Heard, {}) /\ d.place[p] \in {"starting", "next"} /\ next \in BOOLEAN
  BY DEF PInv, ControlsSet
<1>1. /\ AgentOK' /\ Stays(a, a') /\ Heard' = Heard
      /\ WireOK(d, Heard, calls, writing, answers) /\ writing' = writing /\ answers' = answers
  BY AgentRests DEF PInv, ControlsSet
<1>2. CASE Sends(Activate(d, p, next))
  <2>1. /\ d \in Daemon /\ ToSet(d.queue) = Queued(d) /\ p \notin Queued(d) /\ p \notin Heard
        /\ Distinct(d.queue)
    BY <1>0 DEF DaemonOK, Queued, Unsaid
  <2>2. DaemonOK(d, Heard, {p})
    BY <1>0, <2>1 DEF DaemonOK
  <2>3. Moves(d, Heard, Activate(d, p, next)) /\ Activate(d, p, next).daemon.active = p
    <3> HIDE DEF next
    <3>1. d.place[p] \in {"new", "starting", "next", "queued"} /\ p \notin ToSet(d.queue)
      BY <1>0, <2>1
    <3> QED BY <1>0, <2>1, <2>2, <3>1, ActivateMoves
  <2>4. Served(Activate(d, p, next).daemon)
    BY <2>3, ServiceAssumption DEF Served, Prompts
  <2> QED BY <1>2, <2>3, <2>4, DaemonStep DEF ControlsSet
<1>3. CASE Sends(StartFailed(d, p, next))
  <2> DEFINE step == StartFailed(d, p, next)
  <2>1. d.place[p] # "queued"
    BY <1>0
  <2> HIDE DEF next
  <2>2. PICK u : /\ DaemonOK(u, Heard, {}) /\ Steady(d, u, {<<p, TRUE>>}) /\ Moves(u, Heard, step)
                 /\ next => Served(step.daemon)
                 /\ ~ next => step.daemon.place[p] = "refused"
    BY <1>0, <2>1, StartFailedMoves
  <2> HIDE DEF step
  <2>3. Steady(d, u, {})
    BY <1>0, <2>2 DEF Steady
  <2>4. ~ next => d.place[p] = "starting"
    BY <1>0 DEF next
  <2>5. d' = step.daemon
    BY <1>3 DEF Sends, step
  <2>6. Served(d) /\ ~ Served(step.daemon) => Excused
    BY <2>2, <2>4, <2>5 DEF Excused
  <2> QED BY <1>0, <1>1, <1>3, <2>2, <2>3, <2>6, DaemonStepFrom DEF step
<1> QED BY <1>2, <1>3 DEF ControlsSet

\* abort of the active prompt.
LEMMA AbortActiveStep ==
  ASSUME PInv, AbortActive
  PROVE  PAfter
<1> DEFINE step == [daemon |-> Marked(d),
                    sends |-> <<CallOf("cancel", d.active, d.turnId[d.active], FALSE)>>]
<1>1. DaemonOK(d, Heard, {}) /\ Busy(d) /\ Sends(step)
  BY DEF PInv, AbortActive
<1>2. Moves(d, Heard, step) /\ (Served(d) => Served(step.daemon))
  BY <1>1, MarkedMoves
<1> HIDE DEF step
<1> QED BY <1>1, <1>2, DaemonStep DEF AbortActive

\* abort of a queued prompt.
LEMMA AbortQueuedStep ==
  ASSUME PInv, NEW p \in Prompts, AbortQueued(p)
  PROVE  PAfter
<1> DEFINE v == Tell(d, p, "aborted")
           u == [v EXCEPT !.queue = Without(@, p), !.place[p] = "refused"]
<1>0. /\ DaemonOK(d, Heard, {}) /\ d \in Daemon /\ PromptOK(d, p) /\ d.place[p] = "queued"
      /\ Distinct(d.queue) /\ p \in ToSet(d.queue) /\ d.queue \in Seq(Prompts)
  BY DaemonFields DEF PInv, AbortQueued, DaemonOK, Queued
<1>1. d.told[p] = <<>>
  BY <1>0 DEF PromptOK
<1>2. "aborted" \in {"completed", "aborted"}
  OBVIOUS
<1>3. TellsOnly(d, p, "aborted", v)
  BY <1>0, <1>2, TellFields
<1>4. d' = u
  BY DEF AbortQueued
<1> HIDE DEF v
<1>5. v \in Daemon /\ Without(v.queue, p) \in Seq(Prompts)
  BY <1>0, <1>3, WithoutOne DEF TellsOnly
<1>6. /\ u = [v EXCEPT !.queue = Without(v.queue, p), !.place = [v.place EXCEPT ![p] = "refused"]]
      /\ [v.place EXCEPT ![p] = "refused"] \in [Prompts -> Place]
  BY <1>5 DEF Daemon, Place
<1> HIDE DEF u
<1>7. /\ u \in Daemon /\ u.active = v.active /\ u.queue = Without(v.queue, p)
      /\ u.place = [v.place EXCEPT ![p] = "refused"] /\ u.aborted = v.aborted /\ u.told = v.told
  BY <1>5, <1>6 DEF Daemon
<1>8. u.place[p] = "refused" /\ \A q \in Prompts \ {p} : u.place[q] = v.place[q]
  BY <1>5, <1>7 DEF Daemon
<1>9. /\ u.active = d.active /\ u.queue = Without(d.queue, p) /\ u.aborted = d.aborted
      /\ \A q \in Prompts \ {p} : u.place[q] = d.place[q] /\ u.told[q] = d.told[q]
      /\ Len(u.told[p]) = 1
  <2>1. Len(Append(<<>>, "aborted")) = 1
    OBVIOUS
  <2> QED BY <1>1, <1>3, <1>7, <1>8, <2>1 DEF TellsOnly
<1>10. DaemonOK(u, Heard, {}) /\ Steady(d, u, {}) /\ (Served(d) => Served(u))
  BY <1>0, <1>7, <1>8, <1>9, TakenOK
<1>11. Moves(d, Heard, Only(u)) /\ Only(u).daemon = u
  BY <1>10 DEF Moves, Only
<1>12. Sends(Only(u)) /\ UNCHANGED <<turnVars, writing, answers>>
  <2>1. calls \o <<>> = calls
    BY ConcatEmptySeq DEF PInv, WireOK
  <2> QED BY <1>4, <2>1 DEF AbortQueued, Sends, Only, wire
<1> QED BY <1>10, <1>11, <1>12, DaemonStep

\* steer.
LEMMA SteerPromptStep ==
  ASSUME PInv, NEW p \in Prompts, SteerPrompt(p)
  PROVE  PAfter
<1> DEFINE u == Taken(d, p)
           c == CallOf("steer", p, NoTurn, FALSE)
           step == [daemon |-> u, sends |-> <<c>>]
<1>0. /\ DaemonOK(d, Heard, {}) /\ d \in Daemon /\ PromptOK(d, p) /\ d.place[p] = "queued"
      /\ Distinct(d.queue) /\ p \in ToSet(d.queue) /\ d.queue \in Seq(Prompts)
      /\ Unsaid(d, p, Heard)
  BY DaemonFields DEF PInv, SteerPrompt, DaemonOK, Queued
<1>1. d.told[p] = <<>> /\ p \notin Heard
  BY <1>0 DEF PromptOK, Unsaid
<1>2. Without(d.queue, p) \in Seq(Prompts)
  BY <1>0, WithoutOne
<1>3. /\ u = [d EXCEPT !.queue = Without(d.queue, p), !.place = [d.place EXCEPT ![p] = "steering"]]
      /\ [d.place EXCEPT ![p] = "steering"] \in [Prompts -> Place]
  BY <1>0 DEF Daemon, Place, Taken
<1>4. c \in Call /\ c.kind = "steer" /\ c.prompt = p
  BY DEF CallOf, Call
<1>5. Sends(step) /\ step.daemon = u /\ step.sends = <<c>>
  BY DEF SteerPrompt
<1> HIDE DEF u, c, step
<1>6. /\ u \in Daemon /\ u.active = d.active /\ u.queue = Without(d.queue, p)
      /\ u.place = [d.place EXCEPT ![p] = "steering"] /\ u.aborted = d.aborted /\ u.told = d.told
  BY <1>0, <1>2, <1>3 DEF Daemon
<1>7. u.place[p] = "steering" /\ \A q \in Prompts \ {p} : u.place[q] = d.place[q]
  BY <1>0, <1>6 DEF Daemon
<1>8. u.told[p] = <<>>
  BY <1>1, <1>6
<1>9. DaemonOK(u, Heard, {}) /\ Steady(d, u, {}) /\ (Served(d) => Served(u))
  BY <1>0, <1>6, <1>7, <1>8, TakenOK
<1>10. NewTo(d, c) /\ Right(u, c) /\ Unheard(c, Heard)
  BY <1>0, <1>1, <1>4, <1>7 DEF NewTo, Right, Unheard
<1>11. Moves(d, Heard, step)
  BY <1>4, <1>5, <1>9, <1>10 DEF Moves
<1> QED BY <1>5, <1>9, <1>11, DaemonStep DEF SteerPrompt

\* abortBySession without an active prompt.
LEMMA AbortSessionStep ==
  ASSUME PInv, AbortSession
  PROVE  PAfter
<1> DEFINE c == CallOf("cancel", NoPrompt, NoTurn, FALSE)
<1>1. /\ DaemonOK(d, Heard, {}) /\ WireOK(d, Heard, calls, writing, answers)
      /\ calls = <<>> /\ answers = <<>>
  BY DEF PInv, AbortSession
<1>2. d' = d /\ calls' = calls \o <<c>> /\ writing' = writing /\ answers' = answers
  BY DEF AbortSession, Sends
<1>3. c \in Call /\ c.kind = "cancel" /\ c.prompt = NoPrompt
  BY DEF CallOf, Call
<1> HIDE DEF c
<1>4. Free(CallKey[c], calls, writing, answers)
  <2>1. CallKey[c] = <<NoPrompt, FALSE>>
    BY <1>3, KeyFields
  <2>2. ToSet(writing) \subseteq Call
    BY <1>1, WireTypes
  <2>3. ASSUME NEW w \in ToSet(writing) PROVE CallKey[w] # CallKey[c]
    <3>1. w \in Call /\ w.kind = "prompt"
      BY <1>1, <2>2 DEF WireOK, WritingOK
    <3>2. CallKey[w] = <<w.prompt, TRUE>>
      BY <3>1, KeyFields
    <3> QED BY <2>1, <3>2
  <2>4. ToSet(calls) = {} /\ ToSet(answers) = {}
    BY <1>1 DEF ToSet
  <2> QED BY <2>3, <2>4 DEF Free, KeysOf
<1>5. Right(d, c) /\ Unheard(c, Heard)
  BY <1>3 DEF Right, Unheard
<1>6. WireOK(d, Heard, Append(calls, c), writing, answers)
  BY <1>1, <1>3, <1>4, <1>5, CallPosted
<1>7. Append(calls, c) = calls \o <<c>>
  BY <1>1, <1>3, AppendIsConcat DEF WireOK
<1>8. AgentOK' /\ Stays(a, a') /\ Heard' = Heard
  BY AgentRests DEF PInv, AbortSession
<1> QED BY <1>1, <1>2, <1>6, <1>7, <1>8 DEF PInv, PAfter

\* The core answers a call that has arrived.
LEMMA AnsweredOK ==
  ASSUME NEW s, NEW H, NEW cs, NEW ws, WireOK(s, H, cs, ws, answers),
         NEW c \in Call, Free(CallKey[c], cs, ws, answers), Right(s, c),
         NEW ok \in BOOLEAN, c.kind = "prompt" => ~ ok, ~ ok => Unheard(c, H), Answered(c, ok)
  PROVE  WireOK(s, H, cs, ws, answers')
<1>1. CASE c.prompt = NoPrompt
  BY <1>1 DEF Answered
<1>2. CASE c.prompt # NoPrompt
  <2> DEFINE e == [call |-> c, ok |-> ok]
  <2>1. answers' = Append(answers, e)
    BY <1>2 DEF Answered
  <2>2. e \in Answer /\ e.call = c /\ e.ok = ok
    BY DEF Answer
  <2> HIDE DEF e
  <2>3. Free(AnswerKey[e], cs, ws, answers)
    BY <2>2, KeyFields
  <2>4. c.prompt \in Prompts
    BY <1>2, KeyFields
  <2>5. AnswerOK(s, H, e)
    BY <2>2, <2>4 DEF AnswerOK
  <2> QED BY <2>1, <2>2, <2>3, <2>5, AnswerPosted
<1> QED BY <1>1, <1>2

\* The agent moves while the daemon rests.
LEMMA AgentPart ==
  ASSUME DaemonOK(d, Heard, {}), d' = d, AgentOK' /\ Stays(a, a'),
         \/ Heard' = Heard
         \/ \E x \in Prompts : /\ Heard' = Heard \cup {x}
                               /\ d.place[x] \notin {"starting", "next", "queued"},
         WireOK(d, Heard', calls', writing', answers')
  PROVE  PAfter
<1>1. DaemonOK(d, Heard', {})
  BY DaemonHears
<1> QED BY <1>1 DEF PInv, PAfter

\* A call arrives.
LEMMA CallStep ==
  ASSUME PInv, CallArrives
  PROVE  PAfter
<1> DEFINE c == Head(calls)
<1>0. /\ DaemonOK(d, Heard, {}) /\ AgentOK /\ WireOK(d, Heard, calls, writing, answers)
      /\ calls # <<>> /\ calls' = Tail(calls) /\ d' = d
  BY DEF PInv, CallArrives
<1>1. /\ WireOK(d, Heard, calls', writing, answers) /\ c \in Call
      /\ Free(CallKey[c], calls', writing, answers) /\ Right(d, c) /\ Unheard(c, Heard)
  BY <1>0, CallTaken
<1>2. CASE c.kind = "prompt" /\ writing' = Append(writing, c) /\ UNCHANGED <<turnVars, answers>>
  <2>1. AgentOK' /\ Stays(a, a') /\ Heard' = Heard
    BY <1>0, <1>2, AgentRests
  <2>2. WritingOK(d, Heard, c)
    BY <1>1, <1>2 DEF WritingOK
  <2> HIDE DEF c
  <2>3. WireOK(d, Heard, calls', Append(writing, c), answers)
    BY <1>1, <2>2, WritingPosted
  <2> QED BY <1>0, <1>2, <2>1, <2>3, AgentPart
<1>3. CASE c.kind = "steer" /\ Steer(c.prompt) /\ Answered(c, TRUE) /\ UNCHANGED writing
  <2> DEFINE x == c.prompt
  <2>1. x \in Prompts /\ d.place[x] = "steering" /\ x \in Input \ Heard
    BY <1>1, <1>3 DEF Right, Unheard, Prompts
  <2>2. CallKey[c] = <<x, TRUE>>
    BY <1>1, <1>3, KeyFields
  <2> HIDE DEF c
  <2>3. AgentOK' /\ Stays(a, a') /\ Heard' = Heard \cup {x}
    <3>1. PICK told \in Seq(Event) : Good(a, told \o events)
      BY <1>0 DEF AgentOK
    <3>2. Doing(told \o events, {x})
      BY <1>3, <2>1, <3>1, SteerStep
    <3> QED BY <1>0, <3>2, AgentMoves DEF AgentOK
  <2>4. WireOK(d, Heard \cup {x}, calls', writing, answers)
    BY <1>1, <2>2, HeardMore
  <2>5. WireOK(d, Heard \cup {x}, calls', writing, answers')
    BY <1>1, <1>3, <2>4, AnsweredOK
  <2>6. d.place[x] \notin {"starting", "next", "queued"}
    BY <2>1
  <2> QED BY <1>0, <1>3, <2>1, <2>3, <2>5, <2>6, AgentPart
<1>4. CASE c.kind = "cancel" /\ Cancel(c.turn) /\ Answered(c, TRUE) /\ UNCHANGED writing
  <2> HIDE DEF c
  <2>1. AgentOK' /\ Stays(a, a') /\ Heard' = Heard
    <3>1. PICK told \in Seq(Event) : Good(a, told \o events)
      BY <1>0 DEF AgentOK
    <3>2. Doing(told \o events, {})
      BY <1>4, <3>1, CancelStep
    <3> QED BY <1>0, <3>2, AgentWorks DEF AgentOK
  <2>2. WireOK(d, Heard, calls', writing, answers')
    BY <1>1, <1>4, AnsweredOK
  <2> QED BY <1>0, <1>4, <2>1, <2>2, AgentPart
<1>5. CASE c.kind # "prompt" /\ Answered(c, FALSE) /\ UNCHANGED <<turnVars, writing>>
  <2>1. AgentOK' /\ Stays(a, a') /\ Heard' = Heard
    BY <1>0, <1>5, AgentRests
  <2> HIDE DEF c
  <2>2. WireOK(d, Heard, calls', writing, answers')
    BY <1>1, <1>5, AnsweredOK
  <2> QED BY <1>0, <1>5, <2>1, <2>2, AgentPart
<1> QED BY <1>2, <1>3, <1>4, <1>5 DEF CallArrives

\* The metadata is written, or cannot be.
LEMMA MetadataStep ==
  ASSUME PInv, MetadataWritten
  PROVE  PAfter
<1> DEFINE c == Head(writing)
<1>0. /\ DaemonOK(d, Heard, {}) /\ AgentOK /\ WireOK(d, Heard, calls, writing, answers)
      /\ writing # <<>> /\ writing' = Tail(writing) /\ d' = d /\ calls' = calls
  BY DEF PInv, MetadataWritten
<1>1. /\ WireOK(d, Heard, calls, writing', answers) /\ c \in Call
      /\ Free(CallKey[c], calls, writing', answers) /\ WritingOK(d, Heard, c)
  BY <1>0, WritingTaken
<1>2. c.kind = "prompt" /\ Right(d, c) /\ Unheard(c, Heard)
  BY <1>1 DEF WritingOK
<1>3. CASE Prompt(c.prompt) /\ UNCHANGED answers
  <2> DEFINE x == c.prompt
  <2>1. x \in Prompts /\ d.place[x] = "started" /\ x \in Input \ Heard
    BY <1>2 DEF Right, Unheard, Prompts
  <2>2. CallKey[c] = <<x, TRUE>>
    BY <1>1, <1>2, KeyFields
  <2> HIDE DEF c
  <2>3. AgentOK' /\ Stays(a, a') /\ Heard' = Heard \cup {x}
    <3>1. PICK told \in Seq(Event) : Good(a, told \o events)
      BY <1>0 DEF AgentOK
    <3>2. Doing(told \o events, {x})
      BY <1>3, <2>1, <3>1, PromptStep
    <3> QED BY <1>0, <3>2, AgentMoves DEF AgentOK
  <2>4. WireOK(d, Heard \cup {x}, calls, writing', answers)
    BY <1>1, <2>2, HeardMore
  <2>6. d.place[x] \notin {"starting", "next", "queued"}
    BY <2>1
  <2> QED BY <1>0, <1>3, <2>1, <2>3, <2>4, <2>6, AgentPart
<1>4. CASE Answered(c, FALSE) /\ UNCHANGED turnVars
  <2>1. AgentOK' /\ Stays(a, a') /\ Heard' = Heard
    BY <1>0, <1>4, AgentRests
  <2> HIDE DEF c
  <2>2. WireOK(d, Heard, calls, writing', answers')
    BY <1>1, <1>2, <1>4, AnsweredOK
  <2> QED BY <1>0, <2>1, <2>2, AgentPart
<1> QED BY <1>3, <1>4 DEF MetadataWritten

\* The agent on its own.
LEMMA AgentAloneStep ==
  ASSUME PInv, AgentAlone
  PROVE  PAfter
<1>0. /\ DaemonOK(d, Heard, {}) /\ AgentOK /\ WireOK(d, Heard, calls, writing, answers)
      /\ calls' = calls /\ writing' = writing /\ answers' = answers /\ d' = d
  BY DEF PInv, AgentAlone, wire
<1>1. PICK told \in Seq(Event) : Good(a, told \o events)
  BY <1>0 DEF AgentOK
<1>2. CASE AgentStep \/ SetGoal
  <2>1. Doing(told \o events, {})
    BY <1>1, <1>2, AloneStep, FlagStep
  <2>2. AgentOK' /\ Stays(a, a') /\ Heard' = Heard
    BY <1>0, <2>1, AgentWorks DEF AgentOK
  <2> QED BY <1>0, <2>2, AgentPart
<1>3. ASSUME NEW p \in Service \ Heard, d.place[p] = "new", Steer(p) PROVE PAfter
  <2> DEFINE c == CallOf("steer", p, NoTurn, FALSE)
  <2>1. p \in Prompts /\ p \in Input \ Heard
    BY ServiceAssumption DEF Prompts
  <2>2. c \in Call /\ c.kind = "steer" /\ c.prompt = p
    BY <2>1 DEF CallOf, Call
  <2> HIDE DEF c
  <2>3. NewTo(d, c)
    BY <1>3, <2>1, <2>2 DEF NewTo
  <2>4. Free(CallKey[c], calls, writing, answers) /\ CallKey[c] = <<p, TRUE>>
    BY <1>0, <2>2, <2>3, NewIsFree, KeyFields
  <2>5. WireOK(d, Heard \cup {p}, calls, writing, answers)
    BY <1>0, <2>4, HeardMore
  <2>6. Doing(told \o events, {p})
    BY <1>1, <1>3, <2>1, SteerStep
  <2>7. AgentOK' /\ Stays(a, a') /\ Heard' = Heard \cup {p}
    BY <1>0, <2>6, AgentMoves DEF AgentOK
  <2>8. d.place[p] \notin {"starting", "next", "queued"}
    BY <1>3
  <2> QED BY <1>0, <2>1, <2>5, <2>7, <2>8, AgentPart
<1> QED BY <1>2, <1>3 DEF AgentAlone

\* An event arrives.
LEMMA EventStep ==
  ASSUME PInv, EventArrives
  PROVE  PAfter
<1> DEFINE e == Head(events)
<1>0. /\ DaemonOK(d, Heard, {}) /\ AgentOK /\ WireOK(d, Heard, calls, writing, answers)
      /\ writing' = writing /\ answers' = answers
  BY DEF PInv, EventArrives
<1>1. AgentOK' /\ Stays(a, a') /\ Heard' = Heard /\ e \in Event
  BY <1>0, AgentHeard DEF EventArrives
<1>2. e.turn \in Turn
  <2> HIDE DEF e
  <2> QED BY <1>1, EventFields
<1>3. CASE e.type = "turn.started"
  <2> DEFINE u == TurnStarted(d, e.turn)
  <2>1. Sends(Only(u))
    BY <1>3 DEF EventArrives
  <2> HIDE DEF e
  <2>2. DaemonOK(u, Heard, {}) /\ Steady(d, u, {}) /\ (Served(d) => Served(u))
    BY <1>0, <1>2, TurnStartedOK
  <2> HIDE DEF u
  <2>3. Moves(u, Heard, Only(u)) /\ Only(u).daemon = u
    BY <2>2, OnlyMoves DEF Only
  <2> QED BY <1>0, <1>1, <2>1, <2>2, <2>3, DaemonStepFrom
<1>4. CASE e.type # "turn.started"
  <2> DEFINE step == TurnEnded(d, e.turn, e.reason)
  <2>1. Sends(step)
    BY <1>4 DEF EventArrives
  <2> HIDE DEF e
  <2>2. PICK u : /\ DaemonOK(u, Heard, {}) /\ Steady(d, u, {}) /\ Moves(u, Heard, step)
                 /\ Served(d) => Served(step.daemon)
    BY <1>0, <1>2, TurnEndedMoves
  <2> HIDE DEF step
  <2> QED BY <1>0, <1>1, <2>1, <2>2, DaemonStepFrom
<1> QED BY <1>3, <1>4

\* An answer arrives.
LEMMA AnswerStep ==
  ASSUME PInv, AnswerArrives
  PROVE  PAfter
<1> DEFINE e == Head(answers)
           c == e.call
           p == c.prompt
           step == AnswerTo(d, c, e.ok)
           ans == Tail(answers)
<1>0. /\ DaemonOK(d, Heard, {}) /\ AgentOK /\ WireOK(d, Heard, calls, writing, answers)
      /\ answers # <<>> /\ answers' = ans /\ writing' = writing /\ Sends(step)
  BY DEF PInv, AnswerArrives
<1>1. AgentOK' /\ Stays(a, a') /\ Heard' = Heard
  BY <1>0, AgentRests DEF AnswerArrives
<1>2. /\ WireOK(d, Heard, calls, writing, ans) /\ e \in Answer
      /\ Free(AnswerKey[e], calls, writing, ans) /\ AnswerOK(d, Heard, e)
  BY <1>0, AnswerTaken
<1>3. ~ e.ok => Excused
  BY <1>0 DEF Excused
<1> HIDE DEF e, ans
<1>4. /\ c \in Call /\ e.ok \in BOOLEAN /\ AnswerKey[e] = CallKey[c]
      /\ CallKey[c] = <<p, c.kind # "cancel">> /\ c.next \in BOOLEAN
      /\ c.kind \in {"prompt", "steer", "cancel"}
  <2>1. c \in Call /\ e.ok \in BOOLEAN /\ AnswerKey[e] = CallKey[c]
    BY <1>2, KeyFields
  <2> HIDE DEF c
  <2> QED BY <2>1, KeyFields
<1>5. p \in Prompts /\ Right(d, c) /\ (c.kind = "prompt" => ~ e.ok) /\ (~ e.ok => Unheard(c, Heard))
  BY <1>2 DEF AnswerOK
<1> SUFFICES \E u, K : /\ \A k \in K : Free(k, calls, writing, ans)
                       /\ Steady(d, u, K) /\ Moves(u, Heard, step)
                       /\ Served(d) /\ ~ Served(step.daemon) => Excused
  <2> HIDE DEF step
  <2> QED BY <1>0, <1>1, <1>2, DaemonStepFrom
<1> HIDE DEF c, p
<1>6. CASE c.kind = "prompt"
  <2> DEFINE K == {<<p, TRUE>>}
  <2>1. \A k \in K : Free(k, calls, writing, ans)
    BY <1>2, <1>4, <1>6
  <2>2. step = StartFailed(d, p, c.next)
    BY <1>6 DEF AnswerTo, p
  <2>3. d.place[p] # "queued"
    BY <1>5, <1>6 DEF Right, p
  <2>4. \E u : Steady(d, u, K) /\ Moves(u, Heard, step)
    BY <1>0, <1>4, <1>5, <2>2, <2>3, StartFailedMoves
  <2>5. Excused
    BY <1>3, <1>5, <1>6
  <2> QED BY <2>1, <2>4, <2>5
<1>7. CASE c.kind = "steer"
  <2> DEFINE K == {<<p, TRUE>>}
  <2>1. \A k \in K : Free(k, calls, writing, ans)
    BY <1>2, <1>4, <1>7
  <2>2. d.place[p] = "steering" /\ (~ e.ok => p \notin Heard)
    BY <1>5, <1>7 DEF Right, Unheard, p
  <2>3. PICK u : /\ DaemonOK(u, Heard, {}) /\ Steady(d, u, K) /\ step = Only(u)
                 /\ e.ok => (Served(d) => Served(u))
    <3>1. CASE e.ok
      <4>1. step = Only([d EXCEPT !.place[p] = "steered"])
        BY <1>7, <3>1 DEF AnswerTo, p
      <4> QED BY <1>0, <1>5, <2>2, <4>1, SteeredOK
    <3>2. CASE ~ e.ok
      <4>1. step = Only(Restored(d, p))
        BY <1>7, <3>2 DEF AnswerTo, p
      <4> QED BY <1>0, <1>5, <2>2, <3>2, <4>1, RestoredOK
    <3> QED BY <3>1, <3>2
  <2> HIDE DEF step
  <2>4. Moves(u, Heard, step) /\ step.daemon = u
    BY <2>3, OnlyMoves DEF Only
  <2> HIDE DEF K
  <2>5. Served(d) /\ ~ Served(step.daemon) => Excused
    BY <1>3, <2>3, <2>4
  <2> QED BY <2>1, <2>3, <2>4, <2>5
<1>8. CASE c.kind = "cancel"
  <2> DEFINE K == {<<p, FALSE>>}
  <2>1. \A k \in K : Free(k, calls, writing, ans)
    BY <1>2, <1>4, <1>8
  <2>2. CancelOK(d, p)
    BY <1>5, <1>8, ServiceAssumption DEF Right, Prompts, p
  <2>3. PICK u : /\ DaemonOK(u, Heard, {}) /\ Steady(d, u, K) /\ step = Only(u)
                 /\ Served(d) => Served(u)
    <3>1. CASE e.ok
      <4>1. step = Only(Tell(d, p, "aborted"))
        BY <1>8, <3>1 DEF AnswerTo, p
      <4> QED BY <1>0, <1>5, <2>2, <4>1, AbortedOK
    <3>2. CASE ~ e.ok
      <4>1. step = Only(Resumed(d, p))
        BY <1>8, <3>2 DEF AnswerTo, Resumed, p
      <4> QED BY <1>0, <1>5, <2>2, <4>1, ResumedOK
    <3> QED BY <3>1, <3>2
  <2> HIDE DEF step
  <2>4. Moves(u, Heard, step) /\ step.daemon = u
    BY <2>3, OnlyMoves DEF Only
  <2> HIDE DEF K
  <2> QED BY <2>1, <2>3, <2>4
<1> QED BY <1>4, <1>6, <1>7, <1>8

\* Every step preserves the invariant.
LEMMA ServiceStep == PInv /\ [ServiceNext]_vars => PAfter
<1> SUFFICES ASSUME PInv, [ServiceNext]_vars PROVE PAfter
  OBVIOUS
<1>1. CASE UNCHANGED vars
  <2>1. /\ UNCHANGED turnVars
        /\ d' = d /\ calls' = calls /\ writing' = writing /\ answers' = answers
    BY <1>1 DEF vars, wire
  <2>2. AgentOK' /\ Stays(a, a') /\ Heard' = Heard
    BY <2>1, AgentRests DEF PInv
  <2> QED BY <2>1, <2>2 DEF PInv, PAfter
<1>2. CASE \E p \in Prompts : Submit(p) \/ ControlsSet(p) \/ AbortQueued(p) \/ SteerPrompt(p)
  BY <1>2, SubmitStep, ControlsStep, AbortQueuedStep, SteerPromptStep
<1>3. CASE AbortActive \/ AbortSession
  BY <1>3, AbortActiveStep, AbortSessionStep
<1>4. CASE CallArrives \/ MetadataWritten \/ AgentAlone \/ EventArrives \/ AnswerArrives
  BY <1>4, CallStep, MetadataStep, AgentAloneStep, EventStep, AnswerStep
<1> QED BY <1>1, <1>2, <1>3, <1>4 DEF ServiceNext

\* A new daemon beside a new agent.
LEMMA ServiceInit == Init => PInv
<1> SUFFICES ASSUME Init PROVE PInv
  OBVIOUS
<1>1. AgentOK
  <2>1. Good(a, events) /\ events = <<>>
    BY InitIInv DEF Init, InitTurns, IInv
  <2>2. events \in Seq(Event) /\ <<>> \in Seq(Event) /\ <<>> \o <<>> = <<>>
    BY <2>1, ConcatEmptySeq
  <2> QED BY <2>1, <2>2 DEF AgentOK
<1>2. Heard = {}
  BY DEF Init, InitTurns, Heard, ToSet
<1>3. /\ d.active = NoPrompt /\ d.queue = <<>> /\ d.aborted = {}
      /\ \A p \in Prompts : d.place[p] = "new" /\ d.told[p] = <<>>
      /\ d \in Daemon
  BY DEF Init, Daemon, Place
<1>4. NoPrompt \notin Prompts
  BY ServiceAssumption DEF Prompts
<1>5. DaemonOK(d, Heard, {})
  BY <1>2, <1>3, <1>4 DEF DaemonOK, PromptOK, Unsaid, Distinct, Queued, ToSet
<1>6. WireOK(d, Heard, <<>>, <<>>, <<>>)
  <2>1. ToSet(<<>>) = {} /\ DOMAIN <<>> = {}
    BY DEF ToSet
  <2>2. \A f : Keyed(f, <<>>) /\ KeysOf(f, <<>>) = {}
    BY <2>1 DEF Keyed, KeysOf
  <2>3. <<>> \in Seq(Call) /\ <<>> \in Seq(Answer)
    OBVIOUS
  <2> QED BY <2>1, <2>2, <2>3 DEF WireOK, Apart
<1>7. calls = <<>> /\ writing = <<>> /\ answers = <<>>
  BY DEF Init
<1> QED BY <1>1, <1>5, <1>6, <1>7 DEF PInv

\* The inductive invariant: what the daemon, the core and what is on its way between them
\* know of each prompt fits together.
THEOREM ServiceInvariant == ServiceSpec => []PInv
<1>1. PInv /\ [ServiceNext]_vars => PInv'
  BY ServiceStep DEF PAfter
<1> QED BY <1>1, ServiceInit, PTL DEF ServiceSpec

\* A prompt is in one place and the queue is what its place says, whatever is submitted,
\* steered, aborted, started or fails.
THEOREM InOnePlace == ServiceSpec => []PromptsOK
<1>1. ASSUME PInv PROVE PromptsOK
  <2>0. /\ d \in Daemon /\ Distinct(d.queue) /\ ToSet(d.queue) = Queued(d)
        /\ calls \in Seq(Call) /\ writing \in Seq(Call) /\ answers \in Seq(Answer)
        /\ a \in Agent /\ events \in Seq(Event)
    BY <1>1 DEF PInv, DaemonOK, WireOK, AgentOK, Good
  <2>1. TypeOK
    BY <2>0 DEF TypeOK, Agent
  <2>2. ServiceTypeOK
    BY <2>0, <2>1 DEF ServiceTypeOK, Daemon, Answer
  <2>3. QueueIsPlace
    BY <2>0 DEF QueueIsPlace, Distinct, Queued
  <2> QED BY <2>2, <2>3 DEF PromptsOK
<1> QED BY <1>1, ServiceInvariant, PTL

\* A prompt's words go once to the agent, and its end is told once to the clients.
THEOREM OnceToAndFro == ServiceSpec => []OnceEachWay
<1>1. ASSUME PInv PROVE SaidOnce
  <2> SUFFICES ASSUME NEW p \in Prompts,
                      NEW A, A = {i \in DOMAIN calls :
                                    calls[i].prompt = p /\ calls[i].kind # "cancel"},
                      NEW B, B = {i \in DOMAIN writing : writing[i].prompt = p}
               PROVE  Cardinality(A) + Cardinality(B) + (IF p \in Heard THEN 1 ELSE 0) <= 1
    BY DEF SaidOnce
  <2>0. WireOK(d, Heard, calls, writing, answers)
    BY <1>1 DEF PInv
  <2>1. ToSet(calls) \subseteq Call /\ ToSet(writing) \subseteq Call
    BY <2>0, WireTypes
  <2>2. /\ \A i \in DOMAIN calls : calls[i] \in ToSet(calls)
        /\ \A i \in DOMAIN writing : writing[i] \in ToSet(writing)
    BY DEF ToSet
  <2>3. \A i \in A : /\ i \in DOMAIN calls /\ CallKey[calls[i]] = <<p, TRUE>>
                     /\ p \notin Heard
    <3> SUFFICES ASSUME NEW i \in A
                 PROVE  /\ i \in DOMAIN calls /\ CallKey[calls[i]] = <<p, TRUE>>
                        /\ p \notin Heard
      OBVIOUS
    <3>1. calls[i] \in Call /\ calls[i].prompt = p /\ calls[i].kind # "cancel"
      BY <2>1, <2>2
    <3>2. CallKey[calls[i]] = <<p, TRUE>>
      BY <3>1, KeyFields
    <3>3. Unheard(calls[i], Heard)
      BY <2>0, <2>2 DEF WireOK
    <3> QED BY <3>1, <3>2, <3>3 DEF Unheard
  <2>4. \A i \in B : /\ i \in DOMAIN writing /\ CallKey[writing[i]] = <<p, TRUE>>
                     /\ p \notin Heard
    <3> SUFFICES ASSUME NEW i \in B
                 PROVE  /\ i \in DOMAIN writing /\ CallKey[writing[i]] = <<p, TRUE>>
                        /\ p \notin Heard
      OBVIOUS
    <3>1. writing[i] \in Call /\ writing[i].prompt = p /\ WritingOK(d, Heard, writing[i])
      BY <2>0, <2>1, <2>2 DEF WireOK
    <3>2. writing[i].kind = "prompt" /\ Unheard(writing[i], Heard)
      BY <3>1 DEF WritingOK
    <3>3. CallKey[writing[i]] = <<p, TRUE>>
      BY <3>1, <3>2, KeyFields
    <3> QED BY <3>1, <3>2, <3>3 DEF Unheard
  <2>5. \A i, j \in A : i = j
    BY <2>0, <2>3 DEF WireOK, Keyed
  <2>6. \A i, j \in B : i = j
    BY <2>0, <2>4 DEF WireOK, Keyed
  <2>7. ~ ((\E i \in A : TRUE) /\ (\E i \in B : TRUE))
    <3> SUFFICES ASSUME NEW i \in A, NEW j \in B PROVE FALSE
      OBVIOUS
    <3>1. <<p, TRUE>> \in KeysOf(CallKey, calls) /\ <<p, TRUE>> \in KeysOf(CallKey, writing)
      BY <2>2, <2>3, <2>4 DEF KeysOf
    <3> QED BY <2>0, <3>1 DEF WireOK, Apart
  <2>8. /\ Cardinality(A) = (IF \E i \in A : TRUE THEN 1 ELSE 0)
        /\ Cardinality(B) = (IF \E i \in B : TRUE THEN 1 ELSE 0)
    BY <2>5, <2>6, CountOne
  <2>9. CASE p \in Heard
    <3>1. Cardinality(A) = 0 /\ Cardinality(B) = 0
      BY <2>3, <2>4, <2>8, <2>9
    <3> QED BY <3>1
  <2>10. CASE p \notin Heard
    <3>1. /\ Cardinality(A) \in {0, 1} /\ Cardinality(B) \in {0, 1}
          /\ Cardinality(A) = 0 \/ Cardinality(B) = 0
      BY <2>7, <2>8
    <3> QED BY <2>10, <3>1
  <2> QED BY <2>9, <2>10
<1>2. ASSUME PInv PROVE ToldOnce
  <2> SUFFICES ASSUME NEW p \in Prompts PROVE Len(d.told[p]) <= 1
    BY DEF ToldOnce
  <2>1. PromptOK(d, p)
    BY <1>2 DEF PInv, DaemonOK
  <2>2. d.told[p] = <<>> \/ Len(d.told[p]) = 1
    BY <2>1 DEF PromptOK
  <2>3. CASE d.told[p] = <<>>
    BY <2>3
  <2>4. CASE Len(d.told[p]) = 1
    BY <2>4
  <2> QED BY <2>2, <2>3, <2>4
<1>3. PInv => OnceEachWay
  BY <1>1, <1>2 DEF OnceEachWay
<1> QED BY <1>3, ServiceInvariant, PTL

\* The queue is served until a call fails.
THEOREM AlwaysServed == ServiceSpec => QueueServed
<1>1. PInv /\ [ServiceNext]_vars =>
        (Served(d) /\ ~ Served(d') =>
           \/ answers # <<>> /\ answers' = Tail(answers) /\ ~ Head(answers).ok
           \/ \E p \in Prompts : d.place[p] = "starting" /\ d'.place[p] = "refused")
  BY ServiceStep DEF PAfter, Excused
<1> QED BY <1>1, ServiceInvariant, PTL DEF ServiceSpec, QueueServed

\* The daemon, its queue and its failures do not break what the agent promises: one turn
\* at a time, the active one, and no input twice.
THEOREM AgentUnharmed == ServiceSpec => [](OneTurnAtATime /\ CurrentIsActive /\ InputsOnce)
<1>1. ASSUME PInv PROVE OneTurnAtATime /\ CurrentIsActive /\ InputsOnce
  <2>0. a \in Agent /\ Runs(a) /\ Once(a)
    BY <1>1 DEF PInv, AgentOK, Good
  <2>1. OneTurnAtATime /\ CurrentIsActive
    BY <2>0 DEF OneTurnAtATime, CurrentIsActive, Running, Runs, RunOK, Going, Agent
  <2>2. a.context \in Seq(Input) /\ a.steerBuffer \in Seq(Input)
    BY <2>0 DEF Agent
  <2>3. Distinct(a.context \o a.steerBuffer)
    BY <2>0, <2>2, ConcatDistinct DEF Once
  <2>4. ToSet(a.context \o a.steerBuffer) = ToSet(a.context) \cup ToSet(a.steerBuffer)
    BY <2>2, ConcatSet
  <2>5. InputsOnce
    BY <2>0, <2>3, <2>4 DEF InputsOnce, Distinct, Once, Apart
  <2> QED BY <2>1, <2>5
<1> QED BY <1>1, ServiceInvariant, PTL

\* What the agent heard beside the daemon is not forgotten, and a run that the daemon, its
\* clients or anybody else cancelled only ends: no request, step, wait or turn follows.
THEOREM AgentKeeps == ServiceSpec => NothingForgotten /\ NoStepAfterCancel
<1>1. PInv /\ [ServiceNext]_vars => Heard \subseteq Heard'
  BY ServiceStep DEF PAfter
<1>2. PInv /\ [ServiceNext]_vars =>
        \A r \in Turn : a.run[r].aborted
          => /\ a'.run[r].phase \in {a.run[r].phase, "done"}
             /\ a'.run[r].turn = a.run[r].turn
  BY ServiceStep DEF PAfter, Stays
<1> QED BY <1>1, <1>2, ServiceInvariant, PTL DEF ServiceSpec, NothingForgotten, NoStepAfterCancel
-----------------------------------------------------------------------------
(* The agent where no goal drives a run and no run is cancelled.           *)

\* No goal drives a run and no run was cancelled: a run is one turn.
Plain(s) ==
  /\ ~ s.goal
  /\ \A r \in Turn : /\ ~ s.run[r].driven /\ ~ s.run[r].aborted
                     /\ s.run[r].phase # "none" => s.run[r].turn = r

\* The agent rests, keeps p for after the compaction, or works on p.
Rests(s) == s.activeTurn = NoTurn /\ s.steerBuffer = <<>>
Waits(s, p) == s.activeTurn = NoTurn /\ s.steerBuffer = <<p>> /\ s.compacting
Works(s, p) ==
  /\ s.turnId \in Turn /\ s.activeTurn = s.turnId /\ s.steerBuffer = <<>>
  /\ s.run[s.turnId].input = <<p>>

\* The turns there were keep what they answer.
Keeps(s, u) ==
  /\ s.turnId <= u.turnId
  /\ \A r \in Turn : r <= s.turnId => u.run[r].input = s.run[r].input

\* A step that takes the agent to p.
Opens(step, p) ==
  \/ Waits(step.agent, p) /\ step.emits = <<>>
  \/ Works(step.agent, p) /\ step.emits = <<StartedEvent(step.agent.turnId)>>

\* A step of an agent that works on p: it goes on, or the turn ends.
GoesOn(s, step, p) ==
  /\ step.agent.turnId = s.turnId
  /\ \/ Works(step.agent, p) /\ step.emits = <<>>
     \/ /\ Rests(step.agent)
        /\ \E reason \in Reasons : step.emits = <<EndedEvent(s.turnId, reason)>>

\* What a step of a plain agent comes to.
PlainStep(s, step) ==
  /\ Plain(step.agent) /\ Keeps(s, step.agent)
  /\ Rests(s) => Rests(step.agent) /\ step.emits = <<>> /\ step.agent.turnId = s.turnId
  /\ \A p \in Prompts : /\ Waits(s, p) => Opens(step, p)
                        /\ Works(s, p) => GoesOn(s, step, p)

\* A run that goes through a turn is the active one.
LEMMA OnlyActive ==
  ASSUME NEW s \in Agent, Runs(s), Plain(s), NEW r \in Turn, Going(s, r)
  PROVE  s.activeTurn = r /\ s.turnId = r /\ s.run[r].turn = r
BY DEF Plain, Runs, RunOK, Going, Agent

\* Phases, reasons and hooks are nothing to a plain agent.
LEMMA SamePlain ==
  ASSUME NEW s \in Agent, Plain(s), NEW u \in Agent, u.goal = s.goal, u.turnId = s.turnId,
         \A r \in Turn : /\ u.run[r].driven = s.run[r].driven
                         /\ u.run[r].aborted = s.run[r].aborted
                         /\ u.run[r].turn = s.run[r].turn /\ u.run[r].input = s.run[r].input
                         /\ u.run[r].phase # "none" => s.run[r].phase # "none"
  PROVE  Plain(u) /\ Keeps(s, u)
<1>1. s.turnId <= u.turnId
  BY TurnAssumption DEF Agent, Turn, NoTurn
<1> QED BY <1>1 DEF Plain, Keeps

\* A step that only changes phases and flags of the agent.
LEMMA SameWork ==
  ASSUME NEW s \in Agent, Plain(s), NEW u \in Agent, u.goal = s.goal, u.turnId = s.turnId,
         \A r \in Turn : /\ u.run[r].driven = s.run[r].driven
                         /\ u.run[r].aborted = s.run[r].aborted
                         /\ u.run[r].turn = s.run[r].turn /\ u.run[r].input = s.run[r].input
                         /\ u.run[r].phase # "none" => s.run[r].phase # "none",
         u.activeTurn = s.activeTurn, u.steerBuffer = s.steerBuffer,
         \A p : ~ Waits(s, p)
  PROVE  PlainStep(s, Quietly(u))
<1>1. Plain(u) /\ Keeps(s, u)
  BY SamePlain
<1> QED BY <1>1 DEF PlainStep, Quietly, Rests, Works, GoesOn

\* launch by a plain agent that rests.
LEMMA PlainLaunch ==
  ASSUME NEW s \in Agent, Runs(s), Plain(s), Rests(s), NEW p \in Prompts, CanAllocate(s),
         NEW step \in Launch(s, p)
  PROVE  Plain(step.agent) /\ Keeps(s, step.agent) /\ Opens(step, p)
<1>1. CASE s.compacting
  <2> DEFINE u == [s EXCEPT !.steerBuffer = Append(@, p)]
  <2>1. step = Quietly(u)
    BY <1>1 DEF Launch, Rests, Buffered
  <2>2. Append(s.steerBuffer, p) = <<p>>
    BY DEF Rests
  <2>3. <<p>> \in Seq(Input)
    BY DEF Prompts
  <2>4. /\ u \in Agent /\ u.goal = s.goal /\ u.turnId = s.turnId /\ u.run = s.run
        /\ u.steerBuffer = <<p>> /\ u.activeTurn = s.activeTurn /\ u.compacting
    BY <1>1, <2>2, <2>3 DEF Agent
  <2> HIDE DEF u
  <2>5. Plain(u) /\ Keeps(s, u)
    BY <2>4, SamePlain
  <2> QED BY <2>1, <2>4, <2>5 DEF Quietly, Opens, Waits, Rests
<1>2. CASE ~ s.compacting
  <2> DEFINE r == s.turnId + 1
             v == [s EXCEPT !.activeTurn = r, !.context = Append(@, p),
                            !.run[r].driven = s.goal, !.run[r].input = <<p>>]
             e == [s.run[r] EXCEPT !.driven = FALSE, !.input = <<p>>]
             f == [e EXCEPT !.phase = "opening", !.turn = r, !.hooked = FALSE]
  <2>1. step = BeginTurn(v, r) /\ r \in Turn
    BY <1>2 DEF Launch, StartRun, CanAllocate, Plain, Rests
  <2>2. s.run[r] \in Run /\ s.run[r].aborted = FALSE /\ s.goal = FALSE
    BY <2>1 DEF Plain, Agent, Run
  <2>3. /\ f.phase = "opening" /\ f.turn = r /\ f.input = <<p>> /\ f.driven = FALSE
        /\ f.aborted = FALSE
    BY <2>2 DEF Run
  <2>4. step.agent.run = [s.run EXCEPT ![r] = f]
    <3>1. v.run = [s.run EXCEPT ![r] = e]
      BY <2>1, <2>2 DEF Agent
    <3> HIDE DEF e, v
    <3>2. step.agent.run = [v.run EXCEPT ![r] = [v.run[r] EXCEPT !.phase = "opening", !.turn = r,
                                                                !.hooked = FALSE]]
      <4>1. v.turnId = s.turnId
        BY DEF v, Agent
      <4>2. r \in DOMAIN v.run /\ {"turnId", "run"} \subseteq DOMAIN v
        BY <2>1 DEF v, Agent
      <4> QED BY <2>1, <4>1, <4>2 DEF BeginTurn
    <3>3. v.run[r] = e
      BY <2>1, <3>1 DEF Agent
    <3>4. [v.run EXCEPT ![r] = f] = [s.run EXCEPT ![r] = f]
      <4> HIDE DEF f
      <4> QED BY <3>1 DEF Agent
    <3> QED BY <3>2, <3>3, <3>4
  <2>5. /\ step.agent.turnId = r /\ step.agent.activeTurn = r /\ step.agent.goal = FALSE
        /\ step.agent.steerBuffer = <<>> /\ step.emits = <<StartedEvent(r)>>
    BY <2>1, <2>2 DEF BeginTurn, Agent, Rests
  <2>6. step.agent.run[r] = f /\ \A q \in Turn \ {r} : step.agent.run[q] = s.run[q]
    BY <2>1, <2>4 DEF Agent
  <2> HIDE DEF f, e, v
  <2>7. Plain(step.agent)
    BY <2>3, <2>5, <2>6 DEF Plain
  <2>8. s.turnId \in Int /\ s.turnId < r /\ r \in Int
    BY TurnAssumption DEF Agent, Turn, NoTurn
  <2>9. Keeps(s, step.agent)
    BY <2>5, <2>6, <2>8 DEF Keeps
  <2>10. Works(step.agent, p)
    BY <2>1, <2>3, <2>5, <2>6 DEF Works
  <2> QED BY <2>5, <2>7, <2>9, <2>10 DEF Opens
<1> QED BY <1>1, <1>2

\* The end of a turn of a plain agent.
LEMMA PlainEnd ==
  ASSUME NEW s \in Agent, Runs(s), Plain(s), NEW r \in Turn, Going(s, r),
         s.steerBuffer = <<>>, NEW reason \in Reasons \cup {"blocked"},
         NEW step \in EndTurn(s, r, reason)
  PROVE  PlainStep(s, step)
<1> DEFINE v == Released([s EXCEPT !.run[r].reason = reason], r)
           u == Finished(v, r)
           what == IF reason = "blocked" THEN "completed" ELSE reason
<1>0. s.activeTurn = r /\ s.turnId = r /\ s.run[r].turn = r
  BY OnlyActive
<1>1. /\ Replaces(s, v, r) /\ v.turnId = s.turnId /\ v.goal = s.goal
      /\ v.run[r].phase = s.run[r].phase
      /\ v.run[r].turn = s.run[r].turn /\ v.run[r].aborted = s.run[r].aborted
      /\ v.run[r].driven = s.run[r].driven
      /\ v.activeTurn \in {r, NoTurn}
  BY <1>0, ReleasedFields
<1>2. v.run[r].input = s.run[r].input
  BY DEF Released, Agent
<1>3. step = [agent |-> u, emits |-> <<EndedEvent(r, what)>>]
  <2>1. Continue(v, r) = {Quietly(u)}
    BY <1>1 DEF Continue, DriveNewGoal, Plain
  <2>2. PICK st \in Continue(v, r) :
          step = [agent |-> st.agent, emits |-> <<EndedEvent(s.run[r].turn, what)>> \o st.emits]
    BY DEF EndTurn
  <2>3. st.agent = u /\ st.emits = <<>>
    <3> HIDE DEF u
    <3>1. st = Quietly(u)
      BY <2>1, <2>2
    <3> QED BY <3>1 DEF Quietly
  <2> HIDE DEF u, what
  <2> QED BY <1>0, <2>2, <2>3
<1> HIDE DEF v
<1>4. v \in Agent
  BY <1>1 DEF Replaces
<1>5. /\ Replaces(v, u, r) /\ u.turnId = v.turnId /\ u.activeTurn = NoTurn
      /\ u.run[r].turn = v.run[r].turn /\ u.run[r].aborted = v.run[r].aborted
  BY <1>1, <1>4, FinishedFields
<1>6. u.goal = v.goal /\ u.run[r].driven = v.run[r].driven /\ u.run[r].input = v.run[r].input
  BY <1>4 DEF Finished, Agent
<1> HIDE DEF u
<1>7. \A q \in Turn : /\ u.run[q].driven = s.run[q].driven
                      /\ u.run[q].aborted = s.run[q].aborted
                      /\ u.run[q].turn = s.run[q].turn /\ u.run[q].input = s.run[q].input
                      /\ u.run[q].phase # "none" => s.run[q].phase # "none"
  BY <1>1, <1>2, <1>5, <1>6 DEF Replaces, Going
<1>8. Plain(u) /\ Keeps(s, u)
  BY <1>1, <1>5, <1>6, <1>7, SamePlain DEF Replaces
<1>9. Rests(u)
  BY <1>1, <1>5 DEF Rests, Replaces
<1>10. what \in Reasons
  BY DEF Reasons
<1>11. ~ Rests(s) /\ \A p \in Prompts : ~ Waits(s, p)
  BY <1>0 DEF Rests, Waits, Turn, NoTurn
<1> HIDE DEF what
<1> QED BY <1>0, <1>1, <1>3, <1>5, <1>8, <1>9, <1>10, <1>11 DEF PlainStep, GoesOn

\* A worker of a plain agent.
LEMMA PlainWorker ==
  ASSUME a \in Agent, Runs(a), Plain(a), a.activeTurn # NoTurn => a.steerBuffer = <<>>,
         ~ Goals, NEW r \in Turn, Worker(r)
  PROVE  \E step : Does(step) /\ PlainStep(a, step)
<1>0. Going(a, r) /\ ~ a.run[r].aborted
  BY DEF Worker, UnwindsAborted, Fails, PromptBlocked, NextStep, Requests, Overflows, GoalTool,
         Stops, StopHookAnswers, Working, Blocked, Going, Plain
<1>1. /\ a.activeTurn = r /\ a.turnId = r /\ a.run[r].turn = r /\ a.steerBuffer = <<>>
      /\ a.activeTurn # NoTurn /\ a.context \in Seq(Input)
  BY <1>0, OnlyActive DEF Turn, NoTurn, Agent
<1>2. \A p : ~ Waits(a, p)
  BY <1>1 DEF Waits
<1>3. ASSUME NEW reason \in Reasons \cup {"blocked"}, Ends(a, r, reason)
      PROVE  \E step : Does(step) /\ PlainStep(a, step)
  BY <1>0, <1>1, <1>3, PlainEnd DEF Ends
<1>4. ASSUME NEW u, NEW phase \in {"preparing", "blocked", "step", "stopping"}, NEW hooked \in BOOLEAN,
             NEW compacting \in BOOLEAN,
             u = [a EXCEPT !.compacting = compacting, !.run[r].phase = phase,
                           !.run[r].hooked = hooked],
             Does(Quietly(u))
      PROVE  \E step : Does(step) /\ PlainStep(a, step)
  <2> DEFINE e == [a.run[r] EXCEPT !.phase = phase, !.hooked = hooked]
  <2>1. /\ e \in Run /\ e.turn = a.run[r].turn /\ e.aborted = a.run[r].aborted
        /\ e.driven = a.run[r].driven /\ e.input = a.run[r].input
    BY DEF Run, Agent
  <2>2. u = [a EXCEPT !.compacting = compacting, !.run = [a.run EXCEPT ![r] = e]]
    BY <1>4 DEF Agent
  <2>3. [a.run EXCEPT ![r] = e] \in [Turn -> Run]
    BY <2>1 DEF Agent
  <2> HIDE DEF e
  <2>4. /\ u \in Agent /\ u.goal = a.goal /\ u.turnId = a.turnId /\ u.activeTurn = a.activeTurn
        /\ u.steerBuffer = a.steerBuffer /\ u.run = [a.run EXCEPT ![r] = e]
    BY <2>2, <2>3 DEF Agent
  <2>5. \A q \in Turn : /\ u.run[q].driven = a.run[q].driven
                        /\ u.run[q].aborted = a.run[q].aborted
                        /\ u.run[q].turn = a.run[q].turn /\ u.run[q].input = a.run[q].input
                        /\ u.run[q].phase # "none" => a.run[q].phase # "none"
    BY <1>0, <2>1, <2>4 DEF Agent, Going
  <2>6. PlainStep(a, Quietly(u))
    BY <1>2, <2>4, <2>5, SameWork
  <2> QED BY <1>4, <2>6
<1>5. ASSUME NEW s, NEW hooked \in BOOLEAN, s = [a EXCEPT !.run[r].hooked = hooked],
             BeginStep(s, r)
      PROVE  \E step : Does(step) /\ PlainStep(a, step)
  <2>1. PICK compact \in BOOLEAN, phase \in {"preparing", "blocked"} :
          Does(Quietly([Flushed(s) EXCEPT !.compacting = @ \/ compact,
                                          !.run[r].phase = phase]))
    BY <1>5 DEF BeginStep
  <2> DEFINE u == [Flushed(s) EXCEPT !.compacting = @ \/ compact, !.run[r].phase = phase]
             c == a.compacting \/ compact
  <2>2. c \in BOOLEAN
    BY DEF Agent
  <2>3. Flushed(s) = s
    <3>1. a.context \o <<>> = a.context
      BY <1>1, ConcatEmptySeq
    <3>2. s.context = a.context /\ s.steerBuffer = <<>>
      BY <1>1, <1>5 DEF Agent
    <3>3. Flushed(s) = [s EXCEPT !.context = s.context, !.steerBuffer = s.steerBuffer]
      BY <3>1, <3>2 DEF Flushed
    <3> QED BY <1>5, <3>3 DEF Agent
  <2>4. u = [a EXCEPT !.compacting = c, !.run[r].phase = phase, !.run[r].hooked = hooked]
    <3> DEFINE e == [a.run[r] EXCEPT !.hooked = hooked]
               f == [e EXCEPT !.phase = phase]
    <3>1. s.compacting = a.compacting /\ s.run = [a.run EXCEPT ![r] = e]
      BY <1>5 DEF Agent
    <3>2. s.run[r] = e /\ s = [a EXCEPT !.run = s.run]
      BY <1>5, <3>1 DEF Agent
    <3>3. u = [s EXCEPT !.compacting = c, !.run[r].phase = phase]
      BY <2>3, <3>1
    <3>4. [s EXCEPT !.compacting = c, !.run[r].phase = phase]
            = [a EXCEPT !.compacting = c,
                        !.run = [s.run EXCEPT ![r] = [s.run[r] EXCEPT !.phase = phase]]]
      <4> HIDE DEF e, f, c
      <4> QED BY <3>2 DEF Agent
    <3>5. [s.run EXCEPT ![r] = f] = [a.run EXCEPT ![r] = f]
      <4> HIDE DEF e, f, c
      <4> QED BY <3>1 DEF Agent
    <3>6. [a EXCEPT !.compacting = c, !.run[r].phase = phase, !.run[r].hooked = hooked]
            = [a EXCEPT !.compacting = c, !.run = [a.run EXCEPT ![r] = f]]
      <4> HIDE DEF c
      <4> QED BY DEF Agent, Run
    <3> HIDE DEF e, u, c
    <3> QED BY <3>2, <3>3, <3>4, <3>5, <3>6
  <2> HIDE DEF c
  <2> QED BY <1>4, <2>1, <2>2, <2>4
<1>6. CASE UnwindsAborted(r) \/ Fails(r) \/ PromptBlocked(r)
  BY <1>3, <1>6 DEF UnwindsAborted, Fails, PromptBlocked, Reasons
<1>7. CASE NextStep(r)
  <2>1. [a EXCEPT !.run[r].hooked = a.run[r].hooked] = a /\ a.run[r].hooked \in BOOLEAN
    BY DEF Agent, Run
  <2> QED BY <1>5, <1>7, <2>1 DEF NextStep
<1>8. CASE Overflows(r)
  <2>1. /\ a.run[r].hooked \in BOOLEAN
        /\ [a EXCEPT !.compacting = TRUE, !.run[r].phase = "blocked"]
             = [a EXCEPT !.compacting = TRUE, !.run[r].phase = "blocked",
                         !.run[r].hooked = a.run[r].hooked]
    BY DEF Agent, Run
  <2> QED BY <1>4, <1>8, <2>1 DEF Overflows
<1>9. CASE Requests(r)
  <2>1. /\ a.run[r].hooked \in BOOLEAN /\ a.compacting \in BOOLEAN
        /\ [a EXCEPT !.run[r].phase = "step"]
             = [a EXCEPT !.compacting = a.compacting, !.run[r].phase = "step",
                         !.run[r].hooked = a.run[r].hooked]
    BY DEF Agent, Run
  <2> QED BY <1>4, <1>9, <2>1 DEF Requests
<1>10. CASE GoalTool(r)
  BY <1>10 DEF GoalTool, SetGoal
<1>11. CASE Stops(r)
  <2>1. CASE Does(Quietly([a EXCEPT !.run[r].phase = "stopping"]))
    <3>1. /\ a.run[r].hooked \in BOOLEAN /\ a.compacting \in BOOLEAN
          /\ [a EXCEPT !.run[r].phase = "stopping"]
               = [a EXCEPT !.compacting = a.compacting, !.run[r].phase = "stopping",
                           !.run[r].hooked = a.run[r].hooked]
      BY DEF Agent, Run
    <3> QED BY <1>4, <2>1, <3>1
  <2> QED BY <1>3, <1>11, <2>1 DEF Stops, Reasons
<1>12. CASE StopHookAnswers(r)
  BY <1>3, <1>5, <1>12 DEF StopHookAnswers, Reasons
<1> QED BY <1>6, <1>7, <1>8, <1>9, <1>10, <1>11, <1>12 DEF Worker

\* A compaction of a plain agent.
LEMMA PlainCompaction ==
  ASSUME a \in Agent, Runs(a), Plain(a), NEW p,
         Rests(a) \/ (p \in Prompts /\ (Waits(a, p) \/ Works(a, p))), CompactionEnds
  PROVE  \E step : Does(step) /\ PlainStep(a, step)
<1> DEFINE s == [a EXCEPT !.compacting = FALSE]
<1>1. PICK u \in {s, Unblocked(s)} : \E step \in CompactionFinished(u) : Does(step)
  BY DEF CompactionEnds
<1>2. PICK step \in CompactionFinished(u) : Does(step)
  BY <1>1
<1>3. /\ s \in Agent /\ s.run = a.run /\ s.goal = a.goal /\ s.turnId = a.turnId
      /\ s.activeTurn = a.activeTurn /\ s.steerBuffer = a.steerBuffer /\ ~ s.compacting
  BY DEF Agent
<1> HIDE DEF s
<1>4. /\ u \in Agent /\ u.goal = a.goal /\ u.turnId = a.turnId
      /\ u.activeTurn = a.activeTurn /\ u.steerBuffer = a.steerBuffer /\ ~ u.compacting
      /\ \A r \in Turn : /\ u.run[r].driven = a.run[r].driven
                         /\ u.run[r].aborted = a.run[r].aborted
                         /\ u.run[r].turn = a.run[r].turn /\ u.run[r].input = a.run[r].input
                         /\ u.run[r].phase # "none" => a.run[r].phase # "none"
                         /\ u.run[r] # a.run[r] => a.run[r].phase = "blocked"
  <2>1. CASE u = s
    BY <1>3, <2>1
  <2>2. CASE u = Unblocked(s)
    <3> DEFINE run == [r \in Turn |-> IF r \in Blocked(s) /\ ~ s.run[r].aborted
                                    THEN [s.run[r] EXCEPT !.phase = "preparing"] ELSE s.run[r]]
    <3>1. run \in [Turn -> Run]
      <4>1. ASSUME NEW r \in Turn PROVE run[r] \in Run
        <5>1. s.run[r] \in Run
          BY <1>3 DEF Agent
        <5>2. [s.run[r] EXCEPT !.phase = "preparing"] \in Run
          BY <5>1 DEF Run
        <5> QED BY <5>1, <5>2
      <4> HIDE DEF run
      <4>2. run = [r \in Turn |-> run[r]]
        BY DEF run
      <4> QED BY <4>1, <4>2
    <3>2. u = [s EXCEPT !.run = run]
      BY <2>2 DEF Unblocked
    <3>3. \A r \in Turn : /\ run[r].driven = a.run[r].driven
                          /\ run[r].aborted = a.run[r].aborted
                          /\ run[r].turn = a.run[r].turn /\ run[r].input = a.run[r].input
                          /\ run[r].phase # "none" => a.run[r].phase # "none"
                          /\ run[r] # a.run[r] => a.run[r].phase = "blocked"
      BY <1>3 DEF Agent, Run, Blocked
    <3> HIDE DEF run
    <3>4. /\ u \in Agent /\ u.run = run /\ u.goal = s.goal /\ u.turnId = s.turnId
          /\ u.activeTurn = s.activeTurn /\ u.steerBuffer = s.steerBuffer
          /\ u.compacting = s.compacting
      BY <1>3, <3>1, <3>2 DEF Agent
    <3> QED BY <1>3, <3>3, <3>4
  <2> QED BY <1>1, <2>1, <2>2
<1>5. CASE a.steerBuffer = <<>>
  <2>1. step = Quietly(u)
    BY <1>2, <1>4, <1>5 DEF CompactionFinished
  <2>2. \A q : ~ Waits(a, q)
    BY <1>5 DEF Waits
  <2>3. PlainStep(a, Quietly(u))
    BY <1>4, <2>2, SameWork
  <2> QED BY <1>2, <2>1, <2>3
<1>6. CASE a.steerBuffer # <<>>
  <2> DEFINE v == [u EXCEPT !.steerBuffer = <<>>]
  <2>1. p \in Prompts /\ Waits(a, p) /\ CanAllocate(a) /\ a.steerBuffer = <<p>>
    BY <1>6 DEF Rests, Waits, Works, CompactionEnds
  <2>2. step \in Launch(v, p)
    <3>1. Head(<<p>>) = p /\ Tail(<<p>>) = <<>>
      OBVIOUS
    <3> QED BY <1>2, <1>4, <2>1, <3>1 DEF CompactionFinished, Waits
  <2>3. /\ v \in Agent /\ v.goal = a.goal /\ v.turnId = a.turnId /\ v.activeTurn = NoTurn
        /\ v.steerBuffer = <<>> /\ v.run = u.run
    <3>1. u \in Agent /\ <<>> \in Seq(Input)
      BY <1>4
    <3>2. /\ v \in Agent /\ v.goal = u.goal /\ v.turnId = u.turnId /\ v.steerBuffer = <<>>
          /\ v.activeTurn = u.activeTurn /\ v.run = u.run
      BY <3>1 DEF Agent
    <3> HIDE DEF v
    <3> QED BY <1>4, <2>1, <3>2 DEF Waits
  <2>4. v.run = a.run
    <3>1. \A r \in Turn : u.run[r] = a.run[r]
      BY <1>4, <2>1, OnlyActive DEF Waits, Going, Turn, NoTurn
    <3> QED BY <1>4, <2>3, <3>1 DEF Agent
  <2> HIDE DEF v
  <2>5. Plain(v) /\ Keeps(a, v) /\ Runs(v) /\ Rests(v)
    <3>1. Plain(v) /\ Keeps(a, v)
      BY <2>3, <2>4, SamePlain
    <3>2. v.activeTurn = a.activeTurn
      BY <2>1, <2>3 DEF Waits
    <3>3. \A r \in Turn : RunOK(v, r)
      BY <2>3, <2>4, <3>2 DEF Runs, RunOK, Going
    <3>4. OwnTurns(v)
      BY <2>4 DEF Runs, OwnTurns
    <3> QED BY <2>3, <3>1, <3>3, <3>4 DEF Runs, Rests
  <2>6. Plain(step.agent) /\ Keeps(v, step.agent) /\ Opens(step, p)
    BY <2>1, <2>2, <2>3, <2>5, PlainLaunch DEF CanAllocate
  <2>7. ~ Rests(a) /\ \A q \in Prompts : ~ Works(a, q) /\ (Waits(a, q) => q = p)
    BY <2>1 DEF Rests, Works, Waits
  <2>8. Keeps(a, step.agent)
    BY <2>3, <2>4, <2>6 DEF Keeps
  <2> QED BY <1>2, <2>6, <2>7, <2>8 DEF PlainStep
<1> QED BY <1>5, <1>6

\* A plain agent on its own.
LEMMA PlainAlone ==
  ASSUME a \in Agent, Runs(a), Plain(a), NEW p,
         Rests(a) \/ (p \in Prompts /\ (Waits(a, p) \/ Works(a, p))), ~ Goals, AgentStep
  PROVE  \E step : Does(step) /\ PlainStep(a, step)
<1>1. CASE CompactByHand
  <2> DEFINE u == [a EXCEPT !.compacting = TRUE]
  <2>1. /\ u \in Agent /\ u.run = a.run /\ u.goal = a.goal /\ u.turnId = a.turnId
        /\ u.activeTurn = a.activeTurn /\ u.steerBuffer = a.steerBuffer
    BY DEF Agent
  <2>2. Does(Quietly(u)) /\ \A q : ~ Waits(a, q)
    BY <1>1 DEF CompactByHand, Waits
  <2> HIDE DEF u
  <2>3. PlainStep(a, Quietly(u))
    BY <2>1, <2>2, SameWork
  <2> QED BY <2>2, <2>3
<1>2. CASE CompactionEnds
  BY <1>2, PlainCompaction
<1>3. CASE \E r \in Turn : Worker(r)
  <2>1. a.activeTurn # NoTurn => a.steerBuffer = <<>>
    BY DEF Rests, Waits, Works
  <2> QED BY <1>3, <2>1, PlainWorker
<1> QED BY <1>1, <1>2, <1>3 DEF AgentStep
-----------------------------------------------------------------------------
(* Clients that only submit: the active prompt and its turn.               *)

\* Clients only submit plain prompts and nobody else talks to the agent; calls may fail.
OnlySubmits == ~ Interrupts /\ ~ Goals /\ Service = {} /\ Controls = {}

\* What the daemon s keeps of a prompt is true of the agent g, and a prompt that was
\* started and is not over is the active one.
Mapped(s, g) ==
  /\ s.aborted = {}
  /\ \A p \in Prompts :
       LET n == s.turnId[p]
       IN  /\ n # NoTurn => n <= g.turnId /\ g.run[n].input = <<p>>
           /\ s.place[p] \in {"new", "queued"} => n = NoTurn
           /\ s.place[p] \in {"new", "queued", "started", "refused"}
           /\ s.place[p] = "started" /\ s.told[p] = <<>> => s.active = p

\* The one call that is on its way brings p, waits in the core or has failed.
Carries(p, cs, ws, ans) ==
  \E c \in Call :
    /\ c.kind = "prompt" /\ c.prompt = p
    /\ \/ cs = <<c>> /\ ws = <<>> /\ ans = <<>>
       \/ cs = <<>> /\ ws = <<c>> /\ ans = <<>>
       \/ cs = <<>> /\ ws = <<>> /\ ans = <<[call |-> c, ok |-> FALSE]>>

\* The agent works on p, or has ended its turn; the daemon knows of it what it took.
Answers(p, m, g, evs) ==
  LET n == g.turnId
  IN  /\ n \in Turn /\ g.run[n].input = <<p>> /\ m \in {NoTurn, n}
      /\ \/ Works(g, p) /\ evs = IF m = NoTurn THEN <<StartedEvent(n)>> ELSE <<>>
         \/ /\ Rests(g)
            /\ \E reason \in Reasons :
                 evs = IF m = NoTurn THEN <<StartedEvent(n), EndedEvent(n, reason)>>
                       ELSE <<EndedEvent(n, reason)>>

\* Where the active prompt is.
Stage(s, g, evs, cs, ws, ans) ==
  LET p == s.active
  IN  \/ p = NoPrompt /\ Rests(g) /\ evs = <<>> /\ cs = <<>> /\ ws = <<>> /\ ans = <<>>
      \/ /\ p # NoPrompt /\ s.turnId[p] = NoTurn /\ Rests(g) /\ evs = <<>>
         /\ Carries(p, cs, ws, ans)
      \/ /\ p # NoPrompt /\ s.turnId[p] = NoTurn /\ Waits(g, p) /\ evs = <<>>
         /\ cs = <<>> /\ ws = <<>> /\ ans = <<>>
      \/ /\ p # NoPrompt /\ Answers(p, s.turnId[p], g, evs)
         /\ cs = <<>> /\ ws = <<>> /\ ans = <<>>

\* What holds beside PInv when clients only submit.
Quiet == Plain(a) /\ Mapped(d, a) /\ Stage(d, a, events, calls, writing, answers)

\* Short sequences.
LEMMA Short ==
  ASSUME NEW x, NEW y
  PROVE  /\ Head(<<x>>) = x /\ Tail(<<x>>) = <<>> /\ <<x>> # <<>>
         /\ <<>> \o <<x>> = <<x>> /\ Append(<<>>, x) = <<x>> /\ <<>> \o <<>> = <<>>
         /\ Head(<<x, y>>) = x /\ Tail(<<x, y>>) = <<y>> /\ <<x>> \o <<y>> = <<x, y>>
         /\ <<x, y>> # <<>> /\ <<x>> \o <<>> = <<x>>
<1> DEFINE S == {x, y}
<1>1. x \in S /\ y \in S /\ <<x>> \in Seq(S) /\ <<x, y>> \in Seq(S) /\ <<>> \in Seq(S)
  OBVIOUS
<1>2. Head(<<x>>) = x /\ <<x>> # <<>> /\ Head(<<x, y>>) = x /\ <<x, y>> # <<>>
  OBVIOUS
<1>3. Tail(<<x>>) = <<>>
  OBVIOUS
<1>4. Tail(<<x, y>>) = <<y>>
  OBVIOUS
<1>5. Append(<<>>, x) = <<x>>
  OBVIOUS
<1> HIDE DEF S
<1>6. <<x>> \o <<y>> = <<x, y>>
  BY <1>1, Pair
<1>7. <<>> \o <<x>> = <<x>> /\ <<x>> \o <<>> = <<x>> /\ <<>> \o <<>> = <<>>
  BY <1>1, ConcatEmptySeq
<1> QED BY <1>2, <1>3, <1>4, <1>5, <1>6, <1>7

\* The prompt p becomes active while nothing is on its way.
LEMMA QuietActivate ==
  ASSUME NEW s \in Daemon, NEW p \in Prompts, NEW next \in BOOLEAN, NEW g, Rests(g),
         Mapped(s, g), s.active = NoPrompt, s.place[p] \in {"new", "queued"},
         NEW step, step = Activate(s, p, next)
  PROVE  /\ Mapped(step.daemon, g)
         /\ Stage(step.daemon, g, <<>>, <<>> \o step.sends, <<>>, <<>>)
<1> DEFINE u == step.daemon
           c == CallOf("prompt", p, NoTurn, next)
<1>1. u = [s EXCEPT !.active = p, !.place = [s.place EXCEPT ![p] = "started"]] /\ step.sends = <<c>>
  BY DEF Activate, Daemon
<1>2. /\ u.active = p /\ u.turnId = s.turnId /\ u.aborted = s.aborted /\ u.told = s.told
      /\ u.place[p] = "started" /\ \A q \in Prompts \ {p} : u.place[q] = s.place[q]
  BY <1>1 DEF Daemon
<1>3. c \in Call /\ c.kind = "prompt" /\ c.prompt = p
  BY DEF CallOf, Call
<1>4. p # NoPrompt /\ NoPrompt \notin Prompts /\ <<>> \o <<c>> = <<c>>
  BY DaemonFields, Short
<1> HIDE DEF u, c
<1>5. s.turnId[p] = NoTurn
  BY DEF Mapped
<1>6. Mapped(u, g)
  <2> SUFFICES ASSUME NEW q \in Prompts
               PROVE  LET n == u.turnId[q]
                      IN  /\ n # NoTurn => n <= g.turnId /\ g.run[n].input = <<q>>
                          /\ u.place[q] \in {"new", "queued"} => n = NoTurn
                          /\ u.place[q] \in {"new", "queued", "started", "refused"}
                          /\ u.place[q] = "started" /\ u.told[q] = <<>> => u.active = q
    BY <1>2 DEF Mapped
  <2>1. CASE q = p
    <3>1. u.turnId[q] = NoTurn /\ u.place[q] = "started" /\ u.active = q
      BY <1>2, <1>5, <2>1
    <3> QED BY <3>1
  <2>2. CASE q # p
    BY <1>2, <1>4, <2>2 DEF Mapped
  <2> QED BY <2>1, <2>2
<1>7. Carries(p, <<c>>, <<>>, <<>>)
  BY <1>3 DEF Carries
<1> QED BY <1>1, <1>2, <1>4, <1>5, <1>6, <1>7 DEF Stage, u

\* _startNextQueued while nothing is on its way.
LEMMA QuietNext ==
  ASSUME Controls = {}, NEW s \in Daemon, NEW g, Rests(g), Mapped(s, g), s.active = NoPrompt,
         ToSet(s.queue) \subseteq Queued(s),
         NEW step, step = StartNextQueued(s)
  PROVE  /\ Mapped(step.daemon, g)
         /\ Stage(step.daemon, g, <<>>, <<>> \o step.sends, <<>>, <<>>)
<1>1. CASE s.queue = <<>>
  <2>1. step = Only(s)
    BY <1>1 DEF StartNextQueued
  <2> QED BY <2>1, Short DEF Only, Stage
<1>2. CASE s.queue # <<>>
  <2> DEFINE p == Head(s.queue)
             v == [s EXCEPT !.queue = Tail(@)]
  <2>1. step = Activate(v, p, TRUE)
    BY <1>2 DEF StartNextQueued, Busy, StartPrompt
  <2>2. p \in Prompts /\ Tail(s.queue) \in Seq(Prompts) /\ p \in ToSet(s.queue)
    BY <1>2, DaemonFields, TailSet
  <2>3. /\ v \in Daemon /\ v.active = NoPrompt /\ v.place = s.place /\ v.turnId = s.turnId
        /\ v.aborted = s.aborted /\ v.told = s.told
    BY <2>2 DEF Daemon
  <2> HIDE DEF v, p
  <2>4. s.place[p] = "queued"
    BY <2>2 DEF Queued
  <2>5. Mapped(v, g)
    BY <2>3 DEF Mapped
  <2> QED BY <2>1, <2>2, <2>3, <2>4, <2>5, QuietActivate
<1> QED BY <1>1, <1>2

\* submit.
LEMMA QuietSubmit ==
  ASSUME PInv, Quiet, OnlySubmits, NEW p \in Prompts, Submit(p)
  PROVE  Quiet'
<1>0. d \in Daemon /\ DaemonOK(d, Heard, {}) /\ a' = a /\ events' = events
  BY DEF PInv, DaemonOK, Submit, turnVars
<1>1. CASE Busy(d)
  <2> DEFINE u == [d EXCEPT !.queue = Append(@, p), !.place = [d.place EXCEPT ![p] = "queued"]]
  <2>1. d' = u /\ calls' = calls \o <<>>
    BY <1>0, <1>1 DEF Submit, Submitted, Sends, Only, Daemon
  <2>2. /\ u.active = d.active /\ u.turnId = d.turnId /\ u.aborted = d.aborted /\ u.told = d.told
        /\ u.place[p] = "queued" /\ \A q \in Prompts \ {p} : u.place[q] = d.place[q]
    BY <1>0 DEF Daemon
  <2> HIDE DEF u
  <2>3. calls' = calls /\ writing' = writing /\ answers' = answers
    <3>1. calls \in Seq(Call)
      BY DEF PInv, WireOK
    <3> QED BY <2>1, <3>1, ConcatEmptySeq DEF Submit
  <2>4. Mapped(u, a)
    BY <2>2 DEF Quiet, Mapped, Submit
  <2>5. Stage(u, a, events, calls, writing, answers)
    BY <2>2 DEF Quiet, Stage
  <2> QED BY <1>0, <2>1, <2>3, <2>4, <2>5 DEF Quiet
<1>2. CASE ~ Busy(d)
  <2> DEFINE step == Activate(d, p, FALSE)
  <2>1. d.active = NoPrompt
    BY <1>2 DEF Busy, Quiet, Mapped
  <2>2. Sends(step) /\ d.place[p] = "new"
    BY <1>2 DEF Submit, Submitted, StartPrompt, OnlySubmits
  <2>3. /\ Rests(a) /\ events = <<>> /\ calls = <<>> /\ writing = <<>> /\ answers = <<>>
        /\ Mapped(d, a)
    BY <2>1 DEF Quiet, Stage
  <2> HIDE DEF step
  <2>4. /\ Mapped(step.daemon, a)
        /\ Stage(step.daemon, a, <<>>, <<>> \o step.sends, <<>>, <<>>)
    BY <1>0, <2>1, <2>2, <2>3, QuietActivate DEF step
  <2> QED BY <1>0, <2>2, <2>3, <2>4 DEF Quiet, Sends, Submit
<1> QED BY <1>1, <1>2

\* A call arrives: it is a prompt, and waits for the metadata.
LEMMA QuietCall ==
  ASSUME PInv, Quiet, CallArrives
  PROVE  Quiet'
<1> DEFINE p == d.active
<1>1. /\ p # NoPrompt /\ d.turnId[p] = NoTurn /\ Rests(a) /\ events = <<>>
      /\ Carries(p, calls, writing, answers)
  BY DEF Quiet, Stage, CallArrives
<1>2. PICK c \in Call : /\ c.kind = "prompt" /\ c.prompt = p
                        /\ calls = <<c>> /\ writing = <<>> /\ answers = <<>>
  BY <1>1 DEF Carries, CallArrives
<1>3. Head(calls) = c /\ Tail(calls) = <<>> /\ Append(writing, c) = <<c>>
  BY <1>2, Short
<1>4. calls' = <<>> /\ writing' = <<c>> /\ answers' = <<>> /\ a' = a /\ events' = events /\ d' = d
  BY <1>2, <1>3 DEF CallArrives, turnVars
<1>5. Carries(p, <<>>, <<c>>, <<>>)
  BY <1>2 DEF Carries
<1> QED BY <1>1, <1>4, <1>5 DEF Quiet, Stage

\* The turns that the daemon knows stay what they are.
LEMMA KeepsMapped ==
  ASSUME NEW s \in Daemon, NEW g \in Agent, NEW h \in Agent, Mapped(s, g), Keeps(g, h)
  PROVE  Mapped(s, h)
<1>1. g.turnId \in Int /\ h.turnId \in Int /\ \A p \in Prompts : s.turnId[p] \in Int
  BY TurnAssumption, DaemonFields DEF Agent, Turn, NoTurn
<1>2. \A p \in Prompts : s.turnId[p] # NoTurn => s.turnId[p] \in Turn
  BY DaemonFields
<1> SUFFICES ASSUME NEW p \in Prompts, s.turnId[p] # NoTurn
             PROVE  s.turnId[p] <= h.turnId /\ h.run[s.turnId[p]].input = <<p>>
  BY DEF Mapped
<1>3. s.turnId[p] <= g.turnId /\ g.run[s.turnId[p]].input = <<p>>
  BY DEF Mapped
<1> QED BY <1>1, <1>2, <1>3 DEF Keeps

\* An agent that opens a turn for the active prompt.
LEMMA OpensStage ==
  ASSUME NEW s, NEW p, s.active = p, p # NoPrompt, s.turnId[p] = NoTurn,
         NEW step, Opens(step, p)
  PROVE  Stage(s, step.agent, <<>> \o step.emits, <<>>, <<>>, <<>>)
BY Short DEF Opens, Stage, Answers, Works

\* The metadata is written, or cannot be.
LEMMA QuietMetadata ==
  ASSUME PInv, a' \in Agent, Quiet, MetadataWritten
  PROVE  Quiet'
<1> DEFINE p == d.active
<1>0. d \in Daemon /\ a \in Agent /\ Runs(a) /\ a' \in Agent
  BY DEF PInv, DaemonOK, AgentOK, Good
<1>1. /\ p # NoPrompt /\ d.turnId[p] = NoTurn /\ Rests(a) /\ events = <<>>
      /\ Carries(p, calls, writing, answers) /\ p \in Prompts
  BY <1>0, DaemonFields DEF Quiet, Stage, MetadataWritten
<1>2. PICK c \in Call : /\ c.kind = "prompt" /\ c.prompt = p
                        /\ calls = <<>> /\ writing = <<c>> /\ answers = <<>>
  BY <1>1 DEF Carries, MetadataWritten
<1>3. /\ Head(writing) = c /\ writing' = <<>> /\ calls' = <<>> /\ d' = d
      /\ \/ Prompt(p) /\ answers' = <<>>
         \/ Answered(c, FALSE) /\ a' = a /\ events' = events
  BY <1>2, Short DEF MetadataWritten, turnVars
<1>4. CASE Prompt(p) /\ answers' = <<>>
  <2>1. PICK step \in Launch(a, p) : Does(step)
    BY <1>4 DEF Prompt
  <2>2. Plain(step.agent) /\ Keeps(a, step.agent) /\ Opens(step, p)
    BY <1>0, <1>1, <1>4, PlainLaunch DEF Quiet, Prompt
  <2>3. a' = step.agent /\ events' = <<>> \o step.emits
    BY <1>1, <2>1 DEF Does
  <2>4. Mapped(d, step.agent)
    BY <1>0, <2>2, <2>3, KeepsMapped DEF Quiet
  <2>5. Stage(d, step.agent, <<>> \o step.emits, <<>>, <<>>, <<>>)
    BY <1>1, <2>2, OpensStage
  <2> QED BY <1>3, <1>4, <2>2, <2>3, <2>4, <2>5 DEF Quiet
<1>5. CASE Answered(c, FALSE) /\ a' = a /\ events' = events
  <2>1. answers' = <<[call |-> c, ok |-> FALSE]>>
    BY <1>1, <1>2, <1>5, Short DEF Answered
  <2>2. Carries(p, <<>>, <<>>, answers')
    BY <1>2, <2>1 DEF Carries
  <2> QED BY <1>1, <1>3, <1>5, <2>2 DEF Quiet, Stage
<1> QED BY <1>3, <1>4, <1>5

\* The agent on its own.
LEMMA QuietAlone ==
  ASSUME PInv, a' \in Agent, Quiet, OnlySubmits, AgentAlone
  PROVE  Quiet'
<1> DEFINE p == d.active
<1>0. /\ d \in Daemon /\ a \in Agent /\ Runs(a) /\ a' \in Agent
      /\ d' = d /\ calls' = calls /\ writing' = writing /\ answers' = answers
  BY DEF PInv, DaemonOK, AgentOK, Good, AgentAlone, wire
<1>1. AgentStep
  BY DEF AgentAlone, SetGoal, OnlySubmits
<1>2. \/ Rests(a)
      \/ p \in Prompts /\ (Waits(a, p) \/ Works(a, p))
  BY <1>0, DaemonFields DEF Quiet, Stage, Answers
<1>5. PICK step : Does(step) /\ PlainStep(a, step)
  BY <1>0, <1>1, <1>2, PlainAlone DEF Quiet, OnlySubmits
<1>6. /\ a' = step.agent /\ events' = events \o step.emits
      /\ Plain(a') /\ Keeps(a, a')
  BY <1>5 DEF Does, PlainStep
<1>7. Mapped(d, a')
  BY <1>0, <1>6, KeepsMapped DEF Quiet
<1>8. CASE Rests(a)
  <2>1. Rests(a') /\ step.emits = <<>> /\ a'.turnId = a.turnId
    BY <1>5, <1>6, <1>8 DEF PlainStep
  <2>2. events' = events
    BY <1>0, <1>6, <2>1, ConcatEmptySeq DEF PInv, AgentOK
  <2>3. a.turnId \in Turn => a'.run[a.turnId].input = a.run[a.turnId].input
    BY <1>6, TurnAssumption DEF Keeps, Turn
  <2>4. ~ Works(a, p) /\ ~ Waits(a, p)
    BY <1>8 DEF Rests, Works, Waits, Turn, NoTurn
  <2>5. Answers(p, d.turnId[p], a, events) => Answers(p, d.turnId[p], a', events)
    BY <2>1, <2>3, <2>4 DEF Answers
  <2>6. Stage(d, a', events, calls, writing, answers)
    BY <2>1, <2>4, <2>5 DEF Quiet, Stage
  <2> QED BY <1>0, <1>6, <1>7, <2>2, <2>6 DEF Quiet
<1>9. CASE p \in Prompts /\ Waits(a, p)
  <2>1. Opens(step, p)
    BY <1>5, <1>9 DEF PlainStep
  <2>2. /\ p # NoPrompt /\ d.turnId[p] = NoTurn /\ events = <<>>
        /\ calls = <<>> /\ writing = <<>> /\ answers = <<>>
    BY <1>9 DEF Quiet, Stage, Rests, Waits, Answers, Works
  <2>3. Stage(d, step.agent, <<>> \o step.emits, <<>>, <<>>, <<>>)
    BY <2>1, <2>2, OpensStage
  <2> QED BY <1>0, <1>6, <1>7, <2>2, <2>3 DEF Quiet
<1>10. CASE p \in Prompts /\ Works(a, p)
  <2> DEFINE n == a.turnId
             m == d.turnId[p]
  <2>1. GoesOn(a, step, p)
    BY <1>5, <1>10 DEF PlainStep
  <2>2. /\ p # NoPrompt /\ n \in Turn /\ m \in {NoTurn, n} /\ a.run[n].input = <<p>>
        /\ events = IF m = NoTurn THEN <<StartedEvent(n)>> ELSE <<>>
        /\ calls = <<>> /\ writing = <<>> /\ answers = <<>>
    BY <1>10 DEF Quiet, Stage, Rests, Waits, Answers, Works, Turn, NoTurn
  <2>3. a'.turnId = n /\ a'.run[n].input = <<p>>
    BY <1>6, <2>1, <2>2, TurnAssumption DEF GoesOn, Keeps, Turn
  <2> HIDE DEF m, n
  <2>4. CASE Works(a', p) /\ step.emits = <<>>
    <3>1. events' = events
      BY <1>0, <1>6, <2>4, ConcatEmptySeq DEF PInv, AgentOK
    <3>2. Answers(p, m, a', events')
      BY <2>2, <2>3, <2>4, <3>1 DEF Answers
    <3> QED BY <1>0, <1>6, <1>7, <2>2, <3>2 DEF Quiet, Stage, m
  <2>5. ASSUME NEW reason \in Reasons, Rests(a'), step.emits = <<EndedEvent(n, reason)>>
        PROVE  Quiet'
    <3>1. events' = IF m = NoTurn THEN <<StartedEvent(n), EndedEvent(n, reason)>>
                    ELSE <<EndedEvent(n, reason)>>
      BY <1>6, <2>2, <2>5, Short
    <3>2. Answers(p, m, a', events')
      BY <2>2, <2>3, <2>5, <3>1 DEF Answers
    <3> QED BY <1>0, <1>6, <1>7, <2>2, <3>2 DEF Quiet, Stage, m
  <2> QED BY <1>6, <2>1, <2>4, <2>5 DEF GoesOn, n
<1> QED BY <1>2, <1>8, <1>9, <1>10

\* turn.started arrives.
LEMMA QuietStarted ==
  ASSUME PInv, Quiet, EventArrives, Head(events).type = "turn.started"
  PROVE  Quiet'
<1> DEFINE p == d.active
           n == a.turnId
           u == [d EXCEPT !.turnId = [d.turnId EXCEPT ![p] = n]]
<1>0. /\ d \in Daemon /\ events # <<>> /\ events' = Tail(events)
      /\ a' = a /\ writing' = writing /\ answers' = answers
  BY DEF PInv, DaemonOK, EventArrives
<1>1. p # NoPrompt /\ Answers(p, d.turnId[p], a, events) /\ p \in Prompts
  BY <1>0, DaemonFields DEF Quiet, Stage
<1>2. /\ n \in Turn /\ a.run[n].input = <<p>> /\ d.turnId[p] = NoTurn
      /\ \/ Works(a, p) /\ events = <<StartedEvent(n)>>
         \/ /\ Rests(a)
            /\ \E reason \in Reasons : events = <<StartedEvent(n), EndedEvent(n, reason)>>
  BY <1>0, <1>1, Short DEF Answers, EndedEvent
<1>3. Head(events) = StartedEvent(n)
  BY <1>2, Short
<1>4. d' = u /\ calls' = calls
  <2>1. TurnStarted(d, n) = u
    BY <1>0, <1>1, <1>2 DEF TurnStarted, Daemon
  <2>2. Sends(Only(u))
    BY <1>3, <2>1 DEF EventArrives, StartedEvent
  <2> HIDE DEF u
  <2>3. calls \in Seq(Call)
    BY DEF PInv, WireOK
  <2> QED BY <2>2, <2>3, ConcatEmptySeq DEF Sends, Only
<1>5. /\ u.active = p /\ u.turnId[p] = n /\ u.aborted = d.aborted /\ u.told = d.told
      /\ u.place = d.place /\ \A q \in Prompts \ {p} : u.turnId[q] = d.turnId[q]
      /\ d.place[p] = "started"
  BY <1>0, <1>1 DEF Daemon, PInv, DaemonOK, PromptOK
<1> HIDE DEF u
<1>6. Mapped(u, a)
  <2> SUFFICES ASSUME NEW q \in Prompts
               PROVE  LET m == u.turnId[q]
                      IN  /\ m # NoTurn => m <= a.turnId /\ a.run[m].input = <<q>>
                          /\ u.place[q] \in {"new", "queued"} => m = NoTurn
                          /\ u.place[q] \in {"new", "queued", "started", "refused"}
                          /\ u.place[q] = "started" /\ u.told[q] = <<>> => u.active = q
    BY <1>5 DEF Mapped, Quiet
  <2>1. CASE q = p
    <3>1. u.turnId[q] = n /\ u.place[q] = "started" /\ u.active = q /\ n <= a.turnId
      BY <1>2, <1>5, <2>1, TurnAssumption DEF Turn
    <3> QED BY <1>2, <2>1, <3>1
  <2>2. CASE q # p
    BY <1>5, <2>2 DEF Mapped, Quiet
  <2> QED BY <2>1, <2>2
<1>7. Answers(p, n, a, events')
  <2>1. n # NoTurn
    BY <1>2 DEF Turn, NoTurn
  <2> HIDE DEF n
  <2>2. CASE Works(a, p) /\ events = <<StartedEvent(n)>>
    <3>1. events' = <<>>
      BY <1>0, <2>2, Short
    <3> QED BY <1>2, <2>1, <2>2, <3>1 DEF Answers, n
  <2>3. ASSUME NEW reason \in Reasons, Rests(a),
               events = <<StartedEvent(n), EndedEvent(n, reason)>>
        PROVE  Answers(p, n, a, events')
    <3>1. events' = <<EndedEvent(n, reason)>>
      BY <1>0, <2>3, Short
    <3> QED BY <1>2, <2>1, <2>3, <3>1 DEF Answers, n
  <2> QED BY <1>2, <2>2, <2>3
<1>8. calls = <<>> /\ writing = <<>> /\ answers = <<>>
  BY <1>0, <1>1, <1>2, <1>3 DEF Quiet, Stage
<1> QED BY <1>0, <1>1, <1>4, <1>5, <1>6, <1>7, <1>8 DEF Quiet, Stage

\* turn.ended arrives.
LEMMA QuietEnded ==
  ASSUME PInv, Quiet, OnlySubmits, EventArrives, Head(events).type # "turn.started"
  PROVE  Quiet'
<1> DEFINE p == d.active
           n == a.turnId
<1>0. /\ d \in Daemon /\ events # <<>> /\ events' = Tail(events)
      /\ a' = a /\ writing' = writing /\ answers' = answers
      /\ ToSet(d.queue) = Queued(d)
  BY DEF PInv, DaemonOK, EventArrives
<1>1. p # NoPrompt /\ Answers(p, d.turnId[p], a, events) /\ p \in Prompts
  BY <1>0, DaemonFields DEF Quiet, Stage
<1>2. PICK reason \in Reasons :
        /\ n \in Turn /\ d.turnId[p] = n /\ Rests(a) /\ events = <<EndedEvent(n, reason)>>
  BY <1>0, <1>1, Short DEF Answers, StartedEvent
<1>3. Head(events) = EndedEvent(n, reason) /\ events' = <<>>
  BY <1>0, <1>2, Short
<1> DEFINE v == [d EXCEPT !.active = NoPrompt]
           what == IF reason = "cancelled" THEN "aborted" ELSE "completed"
           u == Tell(v, p, what)
           step == StartNextQueued(u)
<1>4. Sends(step)
  <2>1. TurnEnded(d, n, reason) = step
    BY <1>1, <1>2 DEF TurnEnded, Quiet, Mapped
  <2> HIDE DEF step
  <2> QED BY <1>3, <2>1 DEF EventArrives, EndedEvent
<1>5. what \in {"completed", "aborted"}
  OBVIOUS
<1>6. /\ v \in Daemon /\ v.active = NoPrompt /\ v.queue = d.queue /\ v.place = d.place
      /\ v.turnId = d.turnId /\ v.aborted = d.aborted /\ v.told = d.told
  BY <1>0 DEF Daemon
<1> HIDE DEF v, what
<1>7. TellsOnly(v, p, what, u)
  BY <1>1, <1>5, <1>6, TellFields
<1> HIDE DEF u
<1>8. u.told[p] # <<>>
  <2>1. d.told[p] \in Seq({"completed", "aborted"})
    BY <1>0, <1>1, DaemonFields
  <2>2. Append(d.told[p], what) # <<>>
    BY <2>1, <1>5
  <2> QED BY <1>6, <1>7, <2>2 DEF TellsOnly
<1>9. Mapped(u, a)
  <2>1. NoPrompt \notin Prompts
    BY <1>0, DaemonFields
  <2> SUFFICES ASSUME NEW q \in Prompts
               PROVE  ~ (u.place[q] = "started" /\ u.told[q] = <<>>)
    BY <1>6, <1>7 DEF Mapped, Quiet, TellsOnly
  <2>2. CASE q = p
    BY <1>8, <2>2
  <2>3. CASE q # p
    BY <1>6, <1>7, <2>3 DEF Mapped, Quiet, TellsOnly
  <2> QED BY <2>2, <2>3
<1>10. u \in Daemon /\ u.active = NoPrompt /\ ToSet(u.queue) \subseteq Queued(u)
  BY <1>0, <1>6, <1>7 DEF TellsOnly, Queued
<1> HIDE DEF step
<1>11. /\ Mapped(step.daemon, a)
       /\ Stage(step.daemon, a, <<>>, <<>> \o step.sends, <<>>, <<>>)
  BY <1>2, <1>9, <1>10, QuietNext DEF step, OnlySubmits
<1>12. calls = <<>> /\ writing = <<>> /\ answers = <<>>
  BY <1>0, <1>1, <1>2, <1>3 DEF Quiet, Stage
<1> QED BY <1>0, <1>3, <1>4, <1>11, <1>12 DEF Quiet, Sends

\* An answer arrives: the call of the active prompt has failed.
LEMMA QuietAnswer ==
  ASSUME PInv, Quiet, OnlySubmits, AnswerArrives
  PROVE  Quiet'
<1> DEFINE p == d.active
<1>0. d \in Daemon /\ a' = a /\ events' = events /\ ToSet(d.queue) = Queued(d)
  BY DEF PInv, DaemonOK, AnswerArrives, turnVars
<1>1. /\ p # NoPrompt /\ p \in Prompts /\ Rests(a) /\ events = <<>>
      /\ Carries(p, calls, writing, answers)
  BY <1>0, DaemonFields DEF Quiet, Stage, AnswerArrives
<1>2. PICK c \in Call : /\ c.kind = "prompt" /\ c.prompt = p /\ calls = <<>> /\ writing = <<>>
                        /\ answers = <<[call |-> c, ok |-> FALSE]>>
  BY <1>1 DEF Carries, AnswerArrives
<1> DEFINE u == [d EXCEPT !.place = [d.place EXCEPT ![p] = "refused"], !.active = NoPrompt]
           step == IF c.next THEN StartNextQueued(u) ELSE Only(u)
<1>3. Sends(step) /\ answers' = <<>> /\ writing' = <<>>
  <2>1. Head(answers) = [call |-> c, ok |-> FALSE] /\ Tail(answers) = <<>>
    BY <1>2, Short
  <2>2. [d EXCEPT !.place[p] = "refused", !.active = IF @ = p THEN NoPrompt ELSE @] = u
    BY <1>0, <1>1 DEF Daemon
  <2> HIDE DEF u
  <2>3. StartFailed(d, p, c.next) = step
    BY <2>2 DEF StartFailed
  <2> HIDE DEF step
  <2>4. AnswerTo(d, c, FALSE) = step
    BY <1>2, <2>3 DEF AnswerTo
  <2>5. Head(answers).call = c /\ Head(answers).ok = FALSE
    BY <2>1
  <2>6. AnswerTo(d, Head(answers).call, Head(answers).ok) = step
    BY <2>4, <2>5
  <2> QED BY <1>2, <2>1, <2>6 DEF AnswerArrives
<1>4. /\ u \in Daemon /\ u.active = NoPrompt /\ u.queue = d.queue /\ u.place[p] = "refused"
      /\ \A q \in Prompts \ {p} : u.place[q] = d.place[q]
      /\ u.turnId = d.turnId /\ u.aborted = d.aborted /\ u.told = d.told
  <2>1. [d.place EXCEPT ![p] = "refused"] \in [Prompts -> Place]
    BY <1>0 DEF Daemon, Place
  <2> QED BY <1>0, <1>1, <2>1 DEF Daemon
<1>5. d.place[p] = "started"
  BY <1>1 DEF PInv, DaemonOK, PromptOK
<1> HIDE DEF u
<1>6. Mapped(u, a)
  <2>1. NoPrompt \notin Prompts
    BY <1>0, DaemonFields
  <2> SUFFICES ASSUME NEW q \in Prompts
               PROVE  LET m == u.turnId[q]
                      IN  /\ m # NoTurn => m <= a.turnId /\ a.run[m].input = <<q>>
                          /\ u.place[q] \in {"new", "queued"} => m = NoTurn
                          /\ u.place[q] \in {"new", "queued", "started", "refused"}
                          /\ ~ (u.place[q] = "started" /\ u.told[q] = <<>>)
    BY <1>4 DEF Mapped, Quiet
  <2>2. CASE q = p
    BY <1>4, <2>2 DEF Mapped, Quiet
  <2>3. CASE q # p
    BY <1>4, <2>3 DEF Mapped, Quiet
  <2> QED BY <2>2, <2>3
<1>7. ToSet(u.queue) \subseteq Queued(u)
  BY <1>0, <1>4, <1>5 DEF Queued
<1>8. /\ Mapped(step.daemon, a)
      /\ Stage(step.daemon, a, <<>>, <<>> \o step.sends, <<>>, <<>>)
  <2>1. CASE c.next
    BY <1>1, <1>4, <1>6, <1>7, <2>1, QuietNext DEF OnlySubmits
  <2>2. CASE ~ c.next
    <3>1. step = Only(u)
      BY <2>2
    <3> QED BY <1>1, <1>4, <1>6, <3>1, Short DEF Stage, Only
  <2> QED BY <2>1, <2>2
<1> HIDE DEF step
<1> QED BY <1>0, <1>1, <1>2, <1>3, <1>8 DEF Quiet, Sends

\* Every step of a service to which clients only submit.
LEMMA SubmitsOnlyStep ==
  ASSUME OnlySubmits
  PROVE  PInv /\ Quiet /\ [ServiceNext]_vars => Quiet'
<1> SUFFICES ASSUME PInv, Quiet, [ServiceNext]_vars PROVE Quiet'
  OBVIOUS
<1>0. a' \in Agent
  BY ServiceStep DEF PAfter, PInv, AgentOK, Good
<1>1. CASE UNCHANGED vars
  BY <1>1 DEF vars, turnVars, wire, Quiet
<1>2. ASSUME NEW p \in Prompts, Submit(p) \/ ControlsSet(p) \/ AbortQueued(p) \/ SteerPrompt(p)
      PROVE  Quiet'
  <2>1. d.place[p] \in {"new", "queued", "started", "refused"}
    BY DEF Quiet, Mapped
  <2> QED BY <1>2, <2>1, QuietSubmit DEF OnlySubmits, ControlsSet, AbortQueued, SteerPrompt
<1>3. CASE AbortActive \/ AbortSession
  BY <1>3 DEF AbortActive, AbortSession, OnlySubmits
<1>4. CASE CallArrives \/ MetadataWritten \/ AgentAlone \/ EventArrives \/ AnswerArrives
  BY <1>0, <1>4, QuietCall, QuietMetadata, QuietAlone, QuietStarted, QuietEnded, QuietAnswer
<1> QED BY <1>1, <1>2, <1>3, <1>4 DEF ServiceNext

\* The inductive invariant of a service to which clients only submit.
LEMMA QuietInvariant ==
  ASSUME OnlySubmits
  PROVE  ServiceSpec => [](PInv /\ Quiet)
<1>1. Init => PInv /\ Quiet
  <2> SUFFICES ASSUME Init PROVE Quiet
    BY ServiceInit
  <2>1. Plain(a) /\ Rests(a)
    BY DEF Init, InitTurns, Plain, Rests, Idle
  <2>2. /\ d.active = NoPrompt /\ d.aborted = {}
        /\ \A p \in Prompts : d.place[p] = "new" /\ d.turnId[p] = NoTurn
    BY DEF Init
  <2>3. Mapped(d, a)
    BY <2>2 DEF Mapped
  <2>4. Stage(d, a, events, calls, writing, answers)
    BY <2>1, <2>2 DEF Stage, Init, InitTurns
  <2> QED BY <2>1, <2>3, <2>4 DEF Quiet
<1>2. PInv /\ Quiet /\ [ServiceNext]_vars => (PInv /\ Quiet)'
  BY ServiceStep, SubmitsOnlyStep DEF PAfter
<1> QED BY <1>1, <1>2, PTL DEF ServiceSpec

\* While clients only submit, and whatever calls fail, a started prompt that is not over is
\* the active one, and its turn is the turn that opens with its words.
THEOREM FollowsItsTurn ==
  ASSUME OnlySubmits
  PROVE  ServiceSpec => []ActiveIsItsTurn
<1>1. Quiet => ActiveIsItsTurn
  BY DEF Quiet, Mapped, ActiveIsItsTurn, ActiveKnown, OwnTurn
<1> QED BY <1>1, QuietInvariant, PTL

\* While clients only submit, and whatever calls fail, the active prompt goes on.
THEOREM NeverStuck ==
  ASSUME OnlySubmits
  PROVE  ServiceSpec => []ActiveGoesOn
<1>1. ASSUME PInv, Quiet, Busy(d) PROVE ActiveGoesOn
  <2> DEFINE p == d.active
             n == a.turnId
             m == d.turnId[p]
             going(t) == \/ \E r \in Turn : a.run[r].turn = t /\ a.run[r].phase # "done"
                         \/ \E i \in DOMAIN events : events[i].type = "turn.ended"
                                                       /\ events[i].turn = t
  <2>0. p # NoPrompt /\ Runs(a)
    BY <1>1 DEF Busy, PInv, AgentOK, Good
  <2>1. CASE m = NoTurn /\ Carries(p, calls, writing, answers)
    <3>1. PICK c \in Call : /\ c.prompt = p
                            /\ \/ calls = <<c>> \/ writing = <<c>>
                               \/ answers = <<[call |-> c, ok |-> FALSE]>>
      BY <2>1 DEF Carries
    <3>2. CASE calls = <<c>>
      <4>1. 1 \in DOMAIN calls /\ calls[1].prompt = p
        BY <3>1, <3>2
      <4> QED BY <2>1, <4>1 DEF ActiveGoesOn
    <3>3. CASE writing = <<c>>
      <4>1. 1 \in DOMAIN writing /\ writing[1].prompt = p
        BY <3>1, <3>3
      <4> QED BY <2>1, <4>1 DEF ActiveGoesOn
    <3>4. CASE answers = <<[call |-> c, ok |-> FALSE]>>
      <4>1. 1 \in DOMAIN answers /\ answers[1].call.prompt = p /\ ~ answers[1].ok
        BY <3>1, <3>4
      <4> QED BY <2>1, <4>1 DEF ActiveGoesOn
    <3> QED BY <3>1, <3>2, <3>3, <3>4
  <2>2. CASE m = NoTurn /\ Waits(a, p)
    <3>1. p \in ToSet(a.steerBuffer) /\ a.compacting
      BY <2>2, Single DEF Waits
    <3> QED BY <2>2, <3>1 DEF ActiveGoesOn
  <2>3. ASSUME Answers(p, m, a, events) PROVE ActiveGoesOn
    <3>1. n \in Turn /\ m \in {NoTurn, n} /\ n # NoTurn
      BY <2>3 DEF Answers, Turn, NoTurn
    <3>2. going(n)
      <4>1. CASE Works(a, p)
        <5>1. a.run[n].turn = n /\ Going(a, n)
          BY <2>0, <3>1, <4>1 DEF Works, Runs, RunOK
        <5> QED BY <3>1, <5>1 DEF Going
      <4>2. CASE ~ Works(a, p)
        <5>1. PICK reason \in Reasons :
                events = IF m = NoTurn THEN <<StartedEvent(n), EndedEvent(n, reason)>>
                         ELSE <<EndedEvent(n, reason)>>
          BY <2>3, <4>2 DEF Answers
        <5>2. EndedEvent(n, reason).type = "turn.ended" /\ EndedEvent(n, reason).turn = n
          BY DEF EndedEvent
        <5>3. \E i \in DOMAIN events : events[i] = EndedEvent(n, reason)
          <6> DEFINE x == StartedEvent(n)
                     y == EndedEvent(n, reason)
          <6> HIDE DEF x, y
          <6>1. events = <<x, y>> \/ events = <<y>>
            BY <5>1 DEF x, y
          <6>2. (1 \in DOMAIN events /\ events[1] = y) \/ (2 \in DOMAIN events /\ events[2] = y)
            BY <6>1
          <6> QED BY <6>2 DEF y
        <5> QED BY <5>2, <5>3
      <4> QED BY <4>1, <4>2
    <3>3. CASE m = n
      BY <3>1, <3>2, <3>3 DEF ActiveGoesOn
    <3>4. CASE m = NoTurn
      <4>1. 1 \in DOMAIN events /\ events[1] = StartedEvent(n)
        <5> DEFINE x == StartedEvent(n)
        <5> HIDE DEF x
        <5>1. events = <<x>> \/ \E y : events = <<x, y>>
          BY <2>3, <3>4 DEF Answers, x
        <5> QED BY <5>1 DEF x
      <4>2. events[1].type = "turn.started" /\ events[1].turn = n
        BY <4>1 DEF StartedEvent
      <4> QED BY <3>2, <3>4, <4>1, <4>2 DEF ActiveGoesOn
    <3> QED BY <3>1, <3>3, <3>4
  <2> QED BY <1>1, <2>0, <2>1, <2>2, <2>3 DEF Quiet, Stage
<1>2. PInv /\ Quiet => ActiveGoesOn
  BY <1>1 DEF ActiveGoesOn
<1> QED BY <1>2, QuietInvariant, PTL
-----------------------------------------------------------------------------
(* The started prompt and the active one, whoever talks to the agent.      *)

\* No prompt waits for its controls, and the started one that is not over is active.
KnownBy(s) ==
  /\ \A p \in Prompts : s.place[p] = "started" /\ s.told[p] = <<>> /\ p \notin s.aborted
                          => s.active = p
  /\ \A p \in Prompts : s.place[p] \notin {"starting", "next"}
  /\ ~ Interrupts => s.aborted = {}

\* Only where calls fail there are answers that say so.
Known == KnownBy(d) /\ (~ Failures => \A e \in ToSet(answers) : e.ok)

\* A prompt becomes the active one when nobody waits for the old one.
LEMMA KnownActivate ==
  ASSUME NEW s \in Daemon, KnownBy(s), ~ Busy(s), NEW p \in Prompts, NEW next
  PROVE  KnownBy(Activate(s, p, next).daemon)
<1> DEFINE u == Activate(s, p, next).daemon
<1>1. u = [s EXCEPT !.active = p, !.place = [s.place EXCEPT ![p] = "started"]]
  BY DEF Activate, Daemon
<1>2. /\ u.active = p /\ u.place[p] = "started" /\ u.told = s.told /\ u.aborted = s.aborted
      /\ \A q \in Prompts \ {p} : u.place[q] = s.place[q]
  BY <1>1 DEF Daemon
<1>3. \A q \in Prompts : ~ (s.place[q] = "started" /\ s.told[q] = <<>> /\ q \notin s.aborted)
  BY DaemonFields DEF KnownBy, Busy
<1> HIDE DEF u
<1>4. ASSUME NEW q \in Prompts
      PROVE  /\ u.place[q] = "started" /\ u.told[q] = <<>> /\ q \notin u.aborted => u.active = q
             /\ u.place[q] \notin {"starting", "next"}
  <2>1. CASE q = p
    BY <1>2, <2>1
  <2>2. CASE q # p
    BY <1>2, <1>3, <2>2 DEF KnownBy
  <2> QED BY <2>1, <2>2
<1>5. ~ Interrupts => u.aborted = {}
  BY <1>2 DEF KnownBy
<1> QED BY <1>4, <1>5 DEF KnownBy, u

\* _startNextQueued.
LEMMA KnownNext ==
  ASSUME Controls = {}, NEW s \in Daemon, KnownBy(s)
  PROVE  KnownBy(StartNextQueued(s).daemon)
<1>1. CASE Busy(s) \/ s.queue = <<>>
  BY <1>1 DEF StartNextQueued, Only
<1>2. CASE ~ (Busy(s) \/ s.queue = <<>>)
  <2> DEFINE p == Head(s.queue)
             v == [s EXCEPT !.queue = Tail(@)]
  <2>1. StartNextQueued(s) = Activate(v, p, TRUE)
    BY <1>2 DEF StartNextQueued, StartPrompt
  <2>2. p \in Prompts /\ Tail(s.queue) \in Seq(Prompts)
    BY <1>2, DaemonFields, TailSet
  <2>3. /\ v \in Daemon /\ v.active = s.active /\ v.place = s.place
        /\ v.aborted = s.aborted /\ v.told = s.told
    BY <2>2 DEF Daemon
  <2> HIDE DEF v, p
  <2>4. KnownBy(v) /\ ~ Busy(v)
    BY <1>2, <2>3 DEF KnownBy, Busy
  <2> QED BY <2>1, <2>2, <2>3, <2>4, KnownActivate
<1> QED BY <1>1, <1>2

\* The prompt p goes elsewhere, or is told that it is over; p may have been the active one.
LEMMA KnownMoved ==
  ASSUME NEW s \in Daemon, KnownBy(s), NEW p \in Prompts, NEW u \in Daemon,
         \A q \in Prompts \ {p} : u.place[q] = s.place[q] /\ u.told[q] = s.told[q],
         u.active = s.active \/ s.active = p,
         u.aborted = s.aborted,
         \/ u.place[p] \notin {"started", "starting", "next"}
         \/ u.place[p] = s.place[p] /\ (u.told[p] # <<>> \/ p \in s.aborted)
  PROVE  KnownBy(u)
<1> SUFFICES ASSUME NEW q \in Prompts
             PROVE  /\ u.place[q] = "started" /\ u.told[q] = <<>> /\ q \notin u.aborted
                         => u.active = q
                    /\ u.place[q] \notin {"starting", "next"}
  BY DEF KnownBy
<1>1. CASE q = p
  BY <1>1 DEF KnownBy
<1>2. CASE q # p
  BY <1>2 DEF KnownBy
<1> QED BY <1>1, <1>2

\* submit.
LEMMA KnownSubmit ==
  ASSUME Controls = {}, PInv, KnownBy(d), NEW p \in Prompts, Submit(p)
  PROVE  KnownBy(d')
<1>0. d \in Daemon
  BY DEF PInv, DaemonOK
<1>1. CASE Busy(d)
  <2> DEFINE u == [d EXCEPT !.queue = Append(@, p), !.place = [d.place EXCEPT ![p] = "queued"]]
  <2>1. d' = u
    BY <1>0, <1>1 DEF Submit, Submitted, Sends, Only, Daemon
  <2>2. /\ Append(d.queue, p) \in Seq(Prompts)
        /\ [d.place EXCEPT ![p] = "queued"] \in [Prompts -> Place]
    BY <1>0, AppendProperties DEF Daemon, Place
  <2>3. /\ u \in Daemon /\ u.active = d.active /\ u.aborted = d.aborted /\ u.told = d.told
        /\ u.place[p] = "queued" /\ \A q \in Prompts \ {p} : u.place[q] = d.place[q]
    BY <1>0, <2>2 DEF Daemon
  <2> HIDE DEF u
  <2>4. u.place[p] \notin {"started", "starting", "next"}
    BY <2>3
  <2>5. KnownBy(u)
    BY <1>0, <2>3, <2>4, KnownMoved
  <2> QED BY <2>1, <2>5
<1>2. CASE ~ Busy(d)
  <2>1. d' = Activate(d, p, FALSE).daemon
    BY <1>2 DEF Submit, Submitted, StartPrompt, Sends
  <2> QED BY <1>0, <1>2, <2>1, KnownActivate
<1> QED BY <1>1, <1>2

\* An abort or a steer by a user.
LEMMA KnownUser ==
  ASSUME PInv, KnownBy(d), NEW p \in Prompts, AbortQueued(p) \/ SteerPrompt(p) \/ AbortActive
  PROVE  KnownBy(d')
<1>0. d \in Daemon /\ Distinct(d.queue) /\ ToSet(d.queue) = Queued(d) /\ d.queue \in Seq(Prompts)
  BY DaemonFields DEF PInv, DaemonOK
<1>1. d.place[p] = "queued" => Without(d.queue, p) \in Seq(Prompts)
  BY <1>0, WithoutOne DEF Queued
<1>2. CASE AbortQueued(p)
  <2> DEFINE t == Tell(d, p, "aborted")
             u == [t EXCEPT !.queue = Without(t.queue, p),
                            !.place = [t.place EXCEPT ![p] = "refused"]]
  <2>1. d' = [t EXCEPT !.queue = Without(@, p), !.place[p] = "refused"] /\ d.place[p] = "queued"
    BY <1>2 DEF AbortQueued
  <2>2. TellsOnly(d, p, "aborted", t)
    BY <1>0, TellFields
  <2> HIDE DEF t
  <2>3. [t.place EXCEPT ![p] = "refused"] \in [Prompts -> Place] /\ t \in Daemon
    BY <2>2 DEF TellsOnly, Daemon, Place
  <2>4. d' = u /\ Without(t.queue, p) \in Seq(Prompts)
    BY <1>1, <2>1, <2>2, <2>3 DEF TellsOnly, Daemon
  <2>5. /\ u \in Daemon /\ u.active = t.active /\ u.aborted = t.aborted /\ u.told = t.told
        /\ u.place[p] = "refused" /\ \A q \in Prompts \ {p} : u.place[q] = t.place[q]
    BY <2>3, <2>4 DEF Daemon
  <2> HIDE DEF u
  <2>6. u.place[p] \notin {"started", "starting", "next"}
    BY <2>5
  <2>7. KnownBy(u)
    BY <1>0, <2>2, <2>5, <2>6, KnownMoved DEF TellsOnly
  <2> QED BY <2>4, <2>7
<1>3. CASE SteerPrompt(p)
  <2> DEFINE u == [d EXCEPT !.queue = Without(d.queue, p),
                            !.place = [d.place EXCEPT ![p] = "steering"]]
  <2>1. d' = u /\ d.place[p] = "queued"
    BY <1>0, <1>3 DEF SteerPrompt, Sends, Taken, Daemon
  <2>2. [d.place EXCEPT ![p] = "steering"] \in [Prompts -> Place]
    BY <1>0 DEF Daemon, Place
  <2>3. /\ u \in Daemon /\ u.active = d.active /\ u.aborted = d.aborted /\ u.told = d.told
        /\ u.place[p] = "steering" /\ \A q \in Prompts \ {p} : u.place[q] = d.place[q]
    BY <1>0, <1>1, <2>1, <2>2 DEF Daemon
  <2> HIDE DEF u
  <2>4. u.place[p] \notin {"started", "starting", "next"}
    BY <2>3
  <2>5. KnownBy(u)
    BY <1>0, <2>3, <2>4, KnownMoved
  <2> QED BY <2>1, <2>5
<1>4. CASE AbortActive
  <2> DEFINE u == Marked(d)
  <2>1. d' = u /\ Interrupts
    BY <1>4 DEF AbortActive, Sends
  <2>2. u.active = d.active /\ u.place = d.place /\ u.told = d.told /\ d.aborted \subseteq u.aborted
    BY <1>0 DEF Marked, Daemon
  <2> HIDE DEF u
  <2> QED BY <2>1, <2>2 DEF KnownBy
<1> QED BY <1>2, <1>3, <1>4

\* An event arrives.
LEMMA KnownEvent ==
  ASSUME Controls = {}, PInv, KnownBy(d), EventArrives
  PROVE  KnownBy(d')
<1> DEFINE e == Head(events)
           p == d.active
           v == [d EXCEPT !.active = NoPrompt]
           what == IF e.reason = "cancelled" THEN "aborted" ELSE "completed"
           u == IF p \in d.aborted THEN v ELSE Tell(v, p, what)
<1>0. d \in Daemon
  BY DEF PInv, DaemonOK
<1>1. \/ d' = TurnStarted(d, e.turn)
      \/ d' = d
      \/ p # NoPrompt /\ d' = StartNextQueued(u).daemon
  BY DEF EventArrives, Sends, Only, TurnEnded
<1>2. CASE d' = TurnStarted(d, e.turn)
  <2>1. /\ d'.place = d.place /\ d'.told = d.told /\ d'.aborted = d.aborted
        /\ d'.active = d.active
    BY <1>0, <1>2 DEF TurnStarted, Daemon
  <2> QED BY <2>1 DEF KnownBy
<1>3. CASE p # NoPrompt /\ d' = StartNextQueued(u).daemon
  <2>1. p \in Prompts /\ what \in {"completed", "aborted"}
    BY <1>0, <1>3, DaemonFields
  <2>2. /\ v \in Daemon /\ v.active = NoPrompt /\ v.place = d.place /\ v.aborted = d.aborted
        /\ v.told = d.told
    BY <1>0 DEF Daemon
  <2> HIDE DEF v, what
  <2>3. TellsOnly(v, p, what, Tell(v, p, what))
    BY <2>1, <2>2, TellFields
  <2>4. Append(v.told[p], what) # <<>>
    <3>1. v.told[p] \in Seq({"completed", "aborted"})
      BY <2>1, <2>2, DaemonFields
    <3> QED BY <2>1, <3>1
  <2>5. /\ u \in Daemon /\ u.place = d.place /\ u.aborted = d.aborted
        /\ \A q \in Prompts \ {p} : u.told[q] = d.told[q]
        /\ u.told[p] # <<>> \/ p \in d.aborted
    <3>1. CASE p \in d.aborted
      BY <2>2, <3>1
    <3>2. CASE p \notin d.aborted
      BY <2>2, <2>3, <2>4, <3>2 DEF TellsOnly
    <3> QED BY <3>1, <3>2
  <2> HIDE DEF u
  <2>6. KnownBy(u)
    BY <1>0, <2>1, <2>5, KnownMoved
  <2> QED BY <1>3, <2>5, <2>6, KnownNext
<1> QED BY <1>1, <1>2, <1>3

\* An answer arrives.
LEMMA KnownAnswer ==
  ASSUME Controls = {}, ~ Failures \/ ~ Interrupts, PInv, Known, AnswerArrives
  PROVE  KnownBy(d')
<1> DEFINE e == Head(answers)
           c == e.call
           p == c.prompt
<1>0. /\ d \in Daemon /\ WireOK(d, Heard, calls, writing, answers) /\ answers # <<>>
      /\ d' = AnswerTo(d, c, e.ok).daemon /\ KnownBy(d)
  BY DEF PInv, DaemonOK, AnswerArrives, Sends, Known
<1>1. e \in Answer /\ AnswerOK(d, Heard, e) /\ e \in ToSet(answers)
  <2>1. e \in ToSet(answers) /\ ToSet(answers) \subseteq Answer
    <3>1. answers \in Seq(Answer) /\ ToSet(answers) \subseteq Answer
      BY <1>0, WireTypes DEF WireOK
    <3>2. ToSet(answers) = {Head(answers)} \cup ToSet(Tail(answers))
      BY <1>0, <3>1, TailSet
    <3> QED BY <3>1, <3>2
  <2> QED BY <1>0, <2>1 DEF WireOK
<1>2. ~ Failures => e.ok
  BY <1>1 DEF Known
<1> HIDE DEF e
<1>3. /\ c \in Call /\ c.kind \in {"prompt", "steer", "cancel"}
      /\ p \in Prompts /\ Right(d, c) /\ (c.kind = "prompt" => ~ e.ok)
  BY <1>1, KeyFields DEF AnswerOK
<1> HIDE DEF c, p
<1>4. ASSUME NEW where \in {"refused", "steered"}, NEW active \in {d.active, NoPrompt},
             active = d.active \/ d.active = p
      PROVE  LET u == [d EXCEPT !.place = [d.place EXCEPT ![p] = where], !.active = active]
             IN  u \in Daemon /\ KnownBy(u)
  <2> DEFINE u == [d EXCEPT !.place = [d.place EXCEPT ![p] = where], !.active = active]
  <2>1. [d.place EXCEPT ![p] = where] \in [Prompts -> Place] /\ active \in Prompts \cup {NoPrompt}
    BY <1>0 DEF Daemon, Place
  <2>2. /\ u \in Daemon /\ u.active = active /\ u.aborted = d.aborted /\ u.told = d.told
        /\ u.place[p] = where /\ \A q \in Prompts \ {p} : u.place[q] = d.place[q]
    BY <1>0, <1>3, <2>1 DEF Daemon
  <2> HIDE DEF u
  <2>3. u.place[p] \notin {"started", "starting", "next"}
    BY <2>2
  <2> QED BY <1>0, <1>3, <1>4, <2>2, <2>3, KnownMoved DEF u
<1>5. CASE c.kind = "prompt"
  <2> DEFINE active == IF d.active = p THEN NoPrompt ELSE d.active
             u == [d EXCEPT !.place = [d.place EXCEPT ![p] = "refused"], !.active = active]
  <2>1. [d EXCEPT !.place[p] = "refused", !.active = IF @ = p THEN NoPrompt ELSE @] = u
    BY <1>0 DEF Daemon
  <2>2. u \in Daemon /\ KnownBy(u)
    BY <1>4
  <2> HIDE DEF u
  <2>3. d' = (IF c.next THEN StartNextQueued(u) ELSE Only(u)).daemon
    BY <1>0, <1>5, <2>1 DEF AnswerTo, StartFailed, p
  <2> QED BY <2>2, <2>3, KnownNext DEF Only
<1>6. CASE c.kind = "steer" /\ e.ok
  <2>1. d' = [d EXCEPT !.place = [d.place EXCEPT ![p] = "steered"], !.active = d.active]
    BY <1>0, <1>6 DEF AnswerTo, Only, Daemon, p
  <2> QED BY <1>4, <2>1
<1>7. CASE c.kind = "steer" /\ ~ e.ok
  <2> DEFINE u == Restored(d, p)
  <2>1. d' = u
    BY <1>0, <1>7 DEF AnswerTo, Only, p
  <2>2. /\ u.active = d.active /\ u.aborted = d.aborted /\ u.told = d.told
        /\ u.place[p] = "queued" /\ \A q \in Prompts \ {p} : u.place[q] = d.place[q]
    BY <1>0, <1>3 DEF Restored, Daemon
  <2> HIDE DEF u
  <2>3. \A q \in Prompts : q = p \/ u.place[q] = d.place[q]
    BY <2>2
  <2> QED BY <1>0, <2>1, <2>2, <2>3 DEF KnownBy
<1>8. CASE c.kind = "cancel" /\ e.ok
  <2> DEFINE u == Tell(d, p, "aborted")
  <2>1. d' = u
    BY <1>0, <1>8 DEF AnswerTo, Only, p
  <2>2. TellsOnly(d, p, "aborted", u)
    BY <1>0, <1>3, TellFields
  <2>3. p \in d.aborted
    BY <1>3, <1>8, ServiceAssumption DEF Right, CancelOK, Prompts, p
  <2> HIDE DEF u
  <2>4. \A q \in Prompts : q = p \/ u.told[q] = d.told[q]
    BY <2>2 DEF TellsOnly
  <2> QED BY <1>0, <2>1, <2>2, <2>3, <2>4 DEF KnownBy, TellsOnly
<1>9. CASE c.kind = "cancel" /\ ~ e.ok
  <2>1. p \in d.aborted
    BY <1>3, <1>9, ServiceAssumption DEF Right, CancelOK, Prompts, p
  <2>2. d.aborted = {}
    BY <1>0, <1>2, <1>9 DEF KnownBy
  <2> QED BY <2>1, <2>2
<1> QED BY <1>3, <1>5, <1>6, <1>7, <1>8, <1>9

\* The core answers: no answer says that a call has failed where calls do not fail.
LEMMA KnownCore ==
  ASSUME PInv, ~ Failures => \A e \in ToSet(answers) : e.ok,
         CallArrives \/ MetadataWritten \/ AnswerArrives
  PROVE  ~ Failures => \A e \in ToSet(answers') : e.ok
<1> SUFFICES ASSUME ~ Failures PROVE \A e \in ToSet(answers') : e.ok
  OBVIOUS
<1>0. answers \in Seq(Answer)
  BY DEF PInv, WireOK
<1>1. ASSUME NEW c \in Call, Answered(c, TRUE) PROVE \A e \in ToSet(answers') : e.ok
  <2> DEFINE e == [call |-> c, ok |-> TRUE]
  <2>1. answers' = answers \/ answers' = Append(answers, e)
    BY <1>1 DEF Answered
  <2>2. e \in Answer /\ e.ok
    BY DEF Answer
  <2> HIDE DEF e
  <2>3. Append(answers, e) = answers \o <<e>> /\ <<e>> \in Seq(Answer)
    BY <1>0, <2>2, AppendIsConcat
  <2>4. ToSet(<<e>>) = {e}
    BY Single
  <2>5. ToSet(answers \o <<e>>) = ToSet(answers) \cup ToSet(<<e>>)
    BY <1>0, <2>3, ConcatSet
  <2> QED BY <2>1, <2>2, <2>3, <2>4, <2>5
<1>2. CASE CallArrives
  <2>1. calls # <<>> => Head(calls) \in Call
    BY DEF PInv, WireOK
  <2> QED BY <1>1, <1>2, <2>1 DEF CallArrives
<1>3. CASE MetadataWritten
  BY <1>3 DEF MetadataWritten
<1>4. CASE AnswerArrives
  <2>1. answers # <<>> /\ answers' = Tail(answers)
    BY <1>4 DEF AnswerArrives
  <2>2. ToSet(answers) = {Head(answers)} \cup ToSet(answers')
    BY <1>0, <2>1, TailSet
  <2> QED BY <2>2
<1> QED BY <1>2, <1>3, <1>4

\* A prompt that was started and is not over is the active one whoever talks to the agent,
\* as long as no prompt sets controls, and users do not interrupt where calls may fail.
THEOREM StartedIsActive ==
  ASSUME Controls = {}, ~ Failures \/ ~ Interrupts
  PROVE  ServiceSpec => []ActiveKnown
<1>1. Init => Known
  BY DEF Init, Known, KnownBy, ToSet
<1>2. PInv /\ Known /\ [ServiceNext]_vars => Known'
  <2> SUFFICES ASSUME PInv, Known, [ServiceNext]_vars PROVE Known'
    OBVIOUS
  <2>0. KnownBy(d) /\ (~ Failures => \A e \in ToSet(answers) : e.ok)
    BY DEF Known
  <2>1. CASE d' = d /\ answers' = answers
    BY <2>1 DEF Known
  <2>2. ASSUME NEW p \in Prompts, Submit(p) \/ AbortQueued(p) \/ SteerPrompt(p) \/ AbortActive
        PROVE  Known'
    <3>1. answers' = answers
      BY <2>2 DEF Submit, AbortQueued, SteerPrompt, AbortActive, wire
    <3>2. KnownBy(d')
      BY <2>0, <2>2, KnownSubmit, KnownUser
    <3> QED BY <3>1, <3>2 DEF Known
  <2>3. ASSUME NEW p \in Prompts, ControlsSet(p) PROVE FALSE
    BY <2>3 DEF ControlsSet, Known, KnownBy
  <2>4. CASE AbortActive
    <3>1. d.active \in Prompts
      BY <2>4, DaemonFields DEF AbortActive, Busy, PInv, DaemonOK
    <3> QED BY <2>2, <2>4, <3>1
  <2>5. CASE CallArrives \/ MetadataWritten
    <3>1. d' = d
      BY <2>5 DEF CallArrives, MetadataWritten
    <3>2. ~ Failures => \A e \in ToSet(answers') : e.ok
      BY <2>0, <2>5, KnownCore
    <3> QED BY <3>1, <3>2 DEF Known
  <2>6. CASE EventArrives
    <3>1. answers' = answers
      BY <2>6 DEF EventArrives
    <3>2. KnownBy(d')
      BY <2>0, <2>6, KnownEvent
    <3> QED BY <3>1, <3>2 DEF Known
  <2>7. CASE AnswerArrives
    <3>1. ~ Failures => \A e \in ToSet(answers') : e.ok
      BY <2>0, <2>7, KnownCore
    <3>2. KnownBy(d')
      BY <2>7, KnownAnswer
    <3> QED BY <3>1, <3>2 DEF Known
  <2>8. CASE AbortSession \/ AgentAlone \/ UNCHANGED vars
    BY <2>1, <2>8 DEF AbortSession, AgentAlone, vars, wire, Sends
  <2> QED BY <2>2, <2>3, <2>4, <2>5, <2>6, <2>7, <2>8 DEF ServiceNext
<1>3. Known => ActiveKnown
  BY DEF Known, KnownBy, ActiveKnown
<1> QED BY <1>1, <1>2, <1>3, ServiceInvariant, PTL DEF ServiceSpec
=============================================================================
