--------------------------- MODULE TurnFlow_proofs ---------------------------
(***************************************************************************)
(* Proofs about TurnFlow, for any inputs and any number of turns: one turn *)
(* at a time, announced and ended once; no input lost or said twice;       *)
(* nothing but its end after the cancel of a run.                          *)
(***************************************************************************)
EXTENDS TurnFlow, SequenceTheorems, FiniteSetTheorems, TLAPS

\* An agent, as a record.
Agent ==
  [turnId : Turn \cup {NoTurn}, activeTurn : Turn \cup {NoTurn},
   steerBuffer : Seq(Input), context : Seq(Input), refused : SUBSET Input,
   compacting : BOOLEAN, goal : BOOLEAN, run : [Turn -> Run]]

\* A run that goes through a turn.
Going(s, r) == s.run[r].phase \notin {"none", "done"}

\* The turns that some run is going through.
GoingTurns(s) == {s.run[r].turn : r \in {q \in Turn : Going(s, q)}}

\* A run is named by its first turn and goes from turn to turn; only the active run may
\* go through a turn without having been cancelled, and then it is the latest turn.
RunOK(s, r) ==
  /\ s.run[r].phase = "none" => s.run[r].turn = NoTurn /\ ~ s.run[r].aborted
  /\ s.run[r].phase # "none" => r <= s.run[r].turn /\ s.run[r].turn <= s.turnId
  /\ Going(s, r) /\ ~ s.run[r].aborted => s.activeTurn = r
  /\ s.activeTurn = r => Going(s, r) /\ ~ s.run[r].aborted /\ s.run[r].turn = s.turnId

\* No turn belongs to two runs.
OwnTurns(s) ==
  \A q, r \in Turn :
    s.run[q].phase # "none" /\ s.run[r].phase # "none" /\ s.run[q].turn = s.run[r].turn => q = r

\* The runs of an agent.
Runs(s) == OwnTurns(s) /\ \A r \in Turn : RunOK(s, r)

\* Nothing is twice in a sequence.
Distinct(seq) == \A i, j \in DOMAIN seq : seq[i] = seq[j] => i = j

\* Two sets without a common element.
Apart(S, T) == \A x \in S : x \notin T

\* What was said is in one place.
Once(s) ==
  /\ Distinct(s.context) /\ Distinct(s.steerBuffer)
  /\ Apart(ToSet(s.context), ToSet(s.steerBuffer))
  /\ Apart(ToSet(s.context), s.refused) /\ Apart(ToSet(s.steerBuffer), s.refused)

\* What an agent has been told.
HeardBy(s) == ToSet(s.context) \cup ToSet(s.steerBuffer) \cup s.refused

\* The two events of a turn.
IsStart(e, n) == e.type = "turn.started" /\ e.turn = n
IsEnd(e, n) == e.type = "turn.ended" /\ e.turn = n

\* The events of the turns up to t, of which those in going have not ended.
Told(evs, t, going) ==
  /\ evs \in Seq(Event)
  /\ \A i \in DOMAIN evs : evs[i].turn <= t
  /\ \A n \in Turn : n <= t => \E i \in DOMAIN evs : IsStart(evs[i], n)
  /\ \A n \in Turn : n <= t /\ n \notin going => \E i \in DOMAIN evs : IsEnd(evs[i], n)
  /\ \A n \in going : \A i \in DOMAIN evs : ~ IsEnd(evs[i], n)
  /\ \A i, j \in DOMAIN evs :
       evs[i].turn = evs[j].turn /\ evs[i].type = evs[j].type => i = j
  /\ \A i, j \in DOMAIN evs :
       evs[i].turn = evs[j].turn /\ evs[i].type = "turn.started" /\ evs[j].type = "turn.ended"
         => i < j

\* The agent and the events it has emitted.
Good(s, evs) ==
  s \in Agent /\ Runs(s) /\ Once(s) /\ Told(evs, s.turnId, GoingTurns(s))

\* The inductive invariant.
IInv == Good(a, events)

\* A cancel is not taken back, and a cancelled run only ends.
Stays(s, u) ==
  \A r \in Turn :
    s.run[r].aborted =>
      /\ u.run[r].aborted /\ u.run[r].phase \in {s.run[r].phase, "done"}
      /\ u.run[r].turn = s.run[r].turn

\* What a step of the agent s comes to, after the events evs, when it hears X.
Follows(s, evs, step, X) ==
  /\ Good(step.agent, evs \o step.emits) /\ step.emits \in Seq(Event)
  /\ HeardBy(step.agent) = HeardBy(s) \cup X
  /\ Stays(s, step.agent)
-----------------------------------------------------------------------------
(* Sequences.                                                              *)

\* What is in two sequences is in the one behind the other.
LEMMA ConcatSet ==
  ASSUME NEW S, NEW s \in Seq(S), NEW t \in Seq(S)
  PROVE  ToSet(s \o t) = ToSet(s) \cup ToSet(t)
<1>1. ASSUME NEW i \in DOMAIN (s \o t) PROVE (s \o t)[i] \in ToSet(s) \cup ToSet(t)
  BY <1>1 DEF ToSet
<1>2. ASSUME NEW i \in DOMAIN s PROVE i \in DOMAIN (s \o t) /\ (s \o t)[i] = s[i]
  BY <1>2
<1>3. ASSUME NEW i \in DOMAIN t
      PROVE Len(s) + i \in DOMAIN (s \o t) /\ (s \o t)[Len(s) + i] = t[i]
  BY <1>3
<1>4. ToSet(s) \subseteq ToSet(s \o t)
  BY <1>2 DEF ToSet
<1>5. ToSet(t) \subseteq ToSet(s \o t)
  BY <1>3 DEF ToSet
<1>6. ToSet(s \o t) \subseteq ToSet(s) \cup ToSet(t)
  BY <1>1 DEF ToSet
<1> QED BY <1>4, <1>5, <1>6

\* Two sequences without repetition that share nothing.
LEMMA ConcatDistinct ==
  ASSUME NEW S, NEW s \in Seq(S), NEW t \in Seq(S),
         Distinct(s), Distinct(t), Apart(ToSet(s), ToSet(t))
  PROVE  Distinct(s \o t)
<1>1. \A i \in DOMAIN s, j \in DOMAIN t : s[i] # t[j]
  BY DEF Apart, ToSet
<1> SUFFICES ASSUME NEW i \in DOMAIN (s \o t), NEW j \in DOMAIN (s \o t),
                    (s \o t)[i] = (s \o t)[j]
             PROVE  i = j
  BY DEF Distinct
<1>2. ASSUME NEW k \in DOMAIN (s \o t)
      PROVE  k \in Int /\ IF k <= Len(s) THEN k \in DOMAIN s /\ (s \o t)[k] = s[k]
                         ELSE k - Len(s) \in DOMAIN t /\ (s \o t)[k] = t[k - Len(s)]
  OBVIOUS
<1>3. i \in Int /\ j \in Int /\ Len(s) \in Int
  BY <1>2
<1>4. CASE i <= Len(s) /\ j <= Len(s)
  BY <1>2, <1>4 DEF Distinct
<1>5. CASE i > Len(s) /\ j > Len(s)
  <2>1. i - Len(s) = j - Len(s)
    BY <1>2, <1>3, <1>5 DEF Distinct
  <2> QED BY <1>3, <2>1
<1>6. CASE i <= Len(s) /\ j > Len(s)
  BY <1>1, <1>2, <1>3, <1>6
<1>7. CASE i > Len(s) /\ j <= Len(s)
  BY <1>1, <1>2, <1>3, <1>7
<1> QED BY <1>3, <1>4, <1>5, <1>6, <1>7

\* A sequence of one.
LEMMA Single ==
  ASSUME NEW x
  PROVE  ToSet(<<x>>) = {x} /\ Distinct(<<x>>)
BY DEF ToSet, Distinct

\* What is in the rest of a sequence without repetition.
LEMMA TailSet ==
  ASSUME NEW S, NEW s \in Seq(S), s # <<>>
  PROVE  /\ Head(s) \in S /\ Tail(s) \in Seq(S)
         /\ ToSet(s) = {Head(s)} \cup ToSet(Tail(s))
         /\ Distinct(s) => Distinct(Tail(s)) /\ Head(s) \notin ToSet(Tail(s))
<1>0. Head(s) \in S /\ Tail(s) \in Seq(S) /\ Head(s) = s[1] /\ 1 \in DOMAIN s
  OBVIOUS
<1>1. \A i \in DOMAIN Tail(s) : i + 1 \in DOMAIN s /\ Tail(s)[i] = s[i + 1] /\ i \in Nat \ {0}
  OBVIOUS
<1>2. \A i \in DOMAIN s : i = 1 \/ (i - 1 \in DOMAIN Tail(s) /\ s[i] = Tail(s)[i - 1])
  OBVIOUS
<1>3. ToSet(s) = {Head(s)} \cup ToSet(Tail(s))
  <2>1. ToSet(s) \subseteq {Head(s)} \cup ToSet(Tail(s))
    BY <1>0, <1>2 DEF ToSet
  <2>2. {Head(s)} \cup ToSet(Tail(s)) \subseteq ToSet(s)
    BY <1>0, <1>1 DEF ToSet
  <2> QED BY <2>1, <2>2
<1>4. ASSUME Distinct(s) PROVE Distinct(Tail(s)) /\ Head(s) \notin ToSet(Tail(s))
  <2>1. ASSUME NEW i \in DOMAIN Tail(s), NEW j \in DOMAIN Tail(s), Tail(s)[i] = Tail(s)[j]
        PROVE  i = j
    <3>1. i + 1 = j + 1
      BY <1>1, <1>4, <2>1 DEF Distinct
    <3> QED BY <1>1, <3>1
  <2>2. ASSUME NEW i \in DOMAIN Tail(s) PROVE Tail(s)[i] # Head(s)
    <3>1. i + 1 # 1
      BY <1>1
    <3> QED BY <1>0, <1>1, <1>4, <3>1 DEF Distinct
  <2> QED BY <2>1, <2>2 DEF Distinct, ToSet
<1> QED BY <1>0, <1>3, <1>4

-----------------------------------------------------------------------------
(* Events.                                                                 *)

\* An event names a turn.
LEMMA EventFields ==
  /\ \A e \in Event : e.type \in {"turn.started", "turn.ended"} /\ e.turn \in Turn
  /\ \A n \in Turn : StartedEvent(n) \in Event /\ IsStart(StartedEvent(n), n)
  /\ \A n \in Turn, reason \in Reasons :
       EndedEvent(n, reason) \in Event /\ IsEnd(EndedEvent(n, reason), n)
  /\ \A e \in Event, n \in Turn : IsStart(e, n) <=> e = StartedEvent(n)
BY DEF Event, StartedEvent, EndedEvent, IsStart, IsEnd

\* One event more.
LEMMA OneMore ==
  ASSUME NEW evs \in Seq(Event), NEW e \in Event
  PROVE  /\ evs \o <<e>> \in Seq(Event)
         /\ \A i \in DOMAIN evs : i \in DOMAIN (evs \o <<e>>) /\ (evs \o <<e>>)[i] = evs[i]
         /\ Len(evs) + 1 \in DOMAIN (evs \o <<e>>) /\ (evs \o <<e>>)[Len(evs) + 1] = e
         /\ \A i \in DOMAIN (evs \o <<e>>) : i \in DOMAIN evs \/ i = Len(evs) + 1
         /\ \A i \in DOMAIN evs : i < Len(evs) + 1
<1> HIDE DEF Event
<1> QED OBVIOUS

\* The next turn is announced.
LEMMA TellStart ==
  ASSUME NEW evs, NEW t \in Turn \cup {NoTurn}, NEW going \in SUBSET Turn,
         \A n \in going : n <= t, t + 1 \in Turn, Told(evs, t, going)
  PROVE  Told(evs \o <<StartedEvent(t + 1)>>, t + 1, going \cup {t + 1})
<1> DEFINE e == StartedEvent(t + 1)
           more == evs \o <<e>>
<1>1. e \in Event /\ e.type = "turn.started" /\ e.turn = t + 1 /\ evs \in Seq(Event)
  BY EventFields DEF Told, IsStart
<1>2. /\ more \in Seq(Event)
      /\ \A i \in DOMAIN evs : i \in DOMAIN more /\ more[i] = evs[i]
      /\ Len(evs) + 1 \in DOMAIN more /\ more[Len(evs) + 1] = e
      /\ \A i \in DOMAIN more : i \in DOMAIN evs \/ i = Len(evs) + 1
      /\ \A i \in DOMAIN evs : i < Len(evs) + 1
  BY <1>1, OneMore
<1>3. t \in Int /\ \A n \in Turn : n \in Int /\ (n <= t + 1 <=> n <= t \/ n = t + 1)
  BY TurnAssumption DEF Turn, NoTurn
<1>4. \A i \in DOMAIN evs : evs[i].turn \in Turn /\ evs[i].turn <= t /\ evs[i].turn # t + 1
  BY <1>1, <1>3, EventFields DEF Told
<1> HIDE DEF e, more
<1>5. \A i \in DOMAIN more : more[i].turn <= t + 1
  BY <1>1, <1>2, <1>3, <1>4
<1>6. \A n \in Turn : n <= t + 1 => \E i \in DOMAIN more : IsStart(more[i], n)
  BY <1>1, <1>2, <1>3 DEF Told, IsStart
<1>7. \A n \in Turn : n <= t + 1 /\ n \notin going \cup {t + 1} =>
        \E i \in DOMAIN more : IsEnd(more[i], n)
  BY <1>1, <1>2, <1>3 DEF Told, IsEnd
<1>8. \A n \in going \cup {t + 1} : \A i \in DOMAIN more : ~ IsEnd(more[i], n)
  BY <1>1, <1>2, <1>3, <1>4 DEF Told, IsEnd
<1>9. \A i, j \in DOMAIN more :
        more[i].turn = more[j].turn /\ more[i].type = more[j].type => i = j
  BY <1>1, <1>2, <1>4 DEF Told
<1>10. \A i, j \in DOMAIN more :
         more[i].turn = more[j].turn /\ more[i].type = "turn.started"
           /\ more[j].type = "turn.ended" => i < j
  BY <1>1, <1>2, <1>4 DEF Told
<1>11. Told(more, t + 1, going \cup {t + 1})
  BY <1>2, <1>5, <1>6, <1>7, <1>8, <1>9, <1>10 DEF Told
<1> QED BY <1>11 DEF more, e

\* The end of a turn is announced.
LEMMA TellEnd ==
  ASSUME NEW evs, NEW t \in Turn \cup {NoTurn}, NEW going \in SUBSET Turn,
         NEW n \in going, n <= t, NEW reason \in Reasons, Told(evs, t, going)
  PROVE  Told(evs \o <<EndedEvent(n, reason)>>, t, going \ {n})
<1> DEFINE e == EndedEvent(n, reason)
           more == evs \o <<e>>
<1>1. e \in Event /\ e.type = "turn.ended" /\ e.turn = n /\ evs \in Seq(Event)
  BY EventFields DEF Told, IsEnd
<1>2. /\ more \in Seq(Event)
      /\ \A i \in DOMAIN evs : i \in DOMAIN more /\ more[i] = evs[i]
      /\ Len(evs) + 1 \in DOMAIN more /\ more[Len(evs) + 1] = e
      /\ \A i \in DOMAIN more : i \in DOMAIN evs \/ i = Len(evs) + 1
      /\ \A i \in DOMAIN evs : i < Len(evs) + 1
  BY <1>1, OneMore
<1>3. \A i \in DOMAIN evs : ~ (evs[i].turn = n /\ evs[i].type = "turn.ended")
  BY DEF Told, IsEnd
<1> HIDE DEF e, more
<1>5. \A i \in DOMAIN more : more[i].turn <= t
  BY <1>1, <1>2 DEF Told
<1>6. \A m \in Turn : m <= t => \E i \in DOMAIN more : IsStart(more[i], m)
  BY <1>1, <1>2 DEF Told, IsStart
<1>7. \A m \in Turn : m <= t /\ m \notin going \ {n} => \E i \in DOMAIN more : IsEnd(more[i], m)
  BY <1>1, <1>2 DEF Told, IsEnd
<1>8. \A m \in going \ {n} : \A i \in DOMAIN more : ~ IsEnd(more[i], m)
  BY <1>1, <1>2 DEF Told, IsEnd
<1>9. \A i, j \in DOMAIN more :
        more[i].turn = more[j].turn /\ more[i].type = more[j].type => i = j
  BY <1>1, <1>2, <1>3 DEF Told
<1>10. \A i, j \in DOMAIN more :
         more[i].turn = more[j].turn /\ more[i].type = "turn.started"
           /\ more[j].type = "turn.ended" => i < j
  BY <1>1, <1>2, <1>3 DEF Told
<1>11. Told(more, t, going \ {n})
  BY <1>2, <1>5, <1>6, <1>7, <1>8, <1>9, <1>10 DEF Told
<1> QED BY <1>11 DEF more, e

\* Two make a pair.
LEMMA Pair ==
  ASSUME NEW S, NEW x \in S, NEW y \in S
  PROVE  <<x>> \o <<y>> = <<x, y>>
<1>1. <<x>> \in Seq(S) /\ <<y>> \in Seq(S) /\ <<x, y>> \in Seq(S)
  OBVIOUS
<1>2. /\ <<x>> \o <<y>> \in Seq(S) /\ Len(<<x>> \o <<y>>) = 2
      /\ (<<x>> \o <<y>>)[1] = x /\ (<<x>> \o <<y>>)[2] = y
  BY <1>1, ConcatProperties
<1>3. Len(<<x, y>>) = 2 /\ <<x, y>>[1] = x /\ <<x, y>>[2] = y
  OBVIOUS
<1>4. Len(<<x>> \o <<y>>) = Len(<<x, y>>)
  BY <1>2, <1>3
<1>5. \A i \in 1 .. Len(<<x>> \o <<y>>) : (<<x>> \o <<y>>)[i] = <<x, y>>[i]
  BY <1>2, <1>3
<1> QED BY <1>1, <1>2, <1>4, <1>5, SeqEqual

\* Up to three in a row make a sequence.
LEMMA RowIsSeq ==
  ASSUME NEW S, NEW x \in S, NEW y \in S, NEW z \in S
  PROVE  /\ <<x>> \in Seq(S) /\ <<x, y>> \in Seq(S)
         /\ <<x>> \o <<>> \in Seq(S) /\ <<x>> \o <<y>> \in Seq(S)
         /\ <<x>> \o <<y, z>> \in Seq(S)
OBVIOUS

\* Events emitted together come one after the other.
LEMMA Emitted ==
  ASSUME NEW evs \in Seq(Event), NEW x \in Event, NEW y \in Event, NEW z \in Event
  PROVE  /\ evs \o <<>> = evs
         /\ evs \o (<<x>> \o <<>>) = evs \o <<x>>
         /\ evs \o <<x, y>> = (evs \o <<x>>) \o <<y>>
         /\ evs \o (<<x>> \o <<y>>) = (evs \o <<x>>) \o <<y>>
         /\ evs \o (<<x>> \o <<y, z>>) = ((evs \o <<x>>) \o <<y>>) \o <<z>>
<1> HIDE DEF Event
<1>1. <<x>> \o <<>> = <<x>> /\ <<x>> \o <<y>> = <<x, y>> /\ <<y>> \o <<z>> = <<y, z>>
  <2>1. <<x>> \o <<>> = <<x>>
    OBVIOUS
  <2>2. <<x>> \o <<y>> = <<x, y>> /\ <<y>> \o <<z>> = <<y, z>>
    BY Pair
  <2> QED BY <2>1, <2>2
<1>2. /\ <<x>> \in Seq(Event) /\ <<y>> \in Seq(Event) /\ <<z>> \in Seq(Event)
      /\ evs \o <<x>> \in Seq(Event) /\ <<y, z>> \in Seq(Event)
  OBVIOUS
<1>3. evs \o <<>> = evs
  OBVIOUS
<1>4. evs \o (<<x>> \o <<y>>) = (evs \o <<x>>) \o <<y>>
  BY <1>2, ConcatAssociative
<1>5. evs \o (<<x>> \o <<y, z>>) = (evs \o <<x>>) \o <<y, z>>
  BY <1>2, ConcatAssociative
<1>6. (evs \o <<x>>) \o (<<y>> \o <<z>>) = ((evs \o <<x>>) \o <<y>>) \o <<z>>
  BY <1>2, ConcatAssociative
<1> QED BY <1>1, <1>3, <1>4, <1>5, <1>6

-----------------------------------------------------------------------------
(* What was said.                                                          *)

\* Nothing is said.
LEMMA SameTexts ==
  ASSUME NEW s, NEW u, Once(s), u.context = s.context, u.steerBuffer = s.steerBuffer,
         u.refused = s.refused
  PROVE  Once(u) /\ HeardBy(u) = HeardBy(s)
BY DEF Once, HeardBy

\* What was buffered goes into the context.
LEMMA FlushedTexts ==
  ASSUME NEW s \in Agent, Once(s)
  PROVE  /\ Flushed(s) \in Agent /\ Once(Flushed(s)) /\ HeardBy(Flushed(s)) = HeardBy(s)
         /\ Flushed(s).run = s.run /\ Flushed(s).turnId = s.turnId
         /\ Flushed(s).activeTurn = s.activeTurn /\ Flushed(s).goal = s.goal
         /\ Flushed(s).compacting = s.compacting
<1> DEFINE u == Flushed(s)
<1> HIDE DEF Run, Turn
<1>1. s.context \in Seq(Input) /\ s.steerBuffer \in Seq(Input)
  BY DEF Agent
<1>2. /\ u.context = s.context \o s.steerBuffer /\ u.steerBuffer = <<>> /\ u.refused = s.refused
      /\ u.run = s.run /\ u.turnId = s.turnId /\ u.activeTurn = s.activeTurn /\ u.goal = s.goal
      /\ u.compacting = s.compacting
  BY DEF Agent, Flushed
<1>3. u \in Agent
  <2>1. s.context \o s.steerBuffer \in Seq(Input) /\ <<>> \in Seq(Input)
    BY <1>1
  <2> QED BY <2>1 DEF Agent, Flushed
<1>4. ToSet(s.context \o s.steerBuffer) = ToSet(s.context) \cup ToSet(s.steerBuffer)
  BY <1>1, ConcatSet
<1>5. Distinct(s.context \o s.steerBuffer)
  BY <1>1, ConcatDistinct DEF Once
<1>6. ToSet(<<>>) = {} /\ Distinct(<<>>)
  BY DEF ToSet, Distinct
<1> HIDE DEF u
<1>7. Once(u) /\ HeardBy(u) = HeardBy(s)
  BY <1>2, <1>4, <1>5, <1>6 DEF Once, HeardBy, Apart
<1> QED BY <1>2, <1>3, <1>7 DEF u

\* Something new is said: it goes into the buffer, into the context or is refused.
LEMMA NewText ==
  ASSUME NEW s \in Agent, Once(s), NEW u, NEW x \in Input, x \notin HeardBy(s),
         \/ /\ u.steerBuffer = Append(s.steerBuffer, x) /\ u.context = s.context
            /\ u.refused = s.refused
         \/ /\ u.context = Append(s.context, x) /\ u.steerBuffer = s.steerBuffer
            /\ u.refused = s.refused
         \/ /\ u.refused = s.refused \cup {x} /\ u.context = s.context
            /\ u.steerBuffer = s.steerBuffer
  PROVE  Once(u) /\ HeardBy(u) = HeardBy(s) \cup {x}
<1>1. ASSUME NEW seq \in Seq(Input), Distinct(seq), x \notin ToSet(seq)
      PROVE  Distinct(Append(seq, x)) /\ ToSet(Append(seq, x)) = ToSet(seq) \cup {x}
  <2>1. Append(seq, x) = seq \o <<x>> /\ <<x>> \in Seq(Input)
    BY AppendIsConcat
  <2>2. Distinct(<<x>>) /\ ToSet(<<x>>) = {x}
    BY Single
  <2>3. Apart(ToSet(seq), ToSet(<<x>>))
    BY <1>1, <2>2 DEF Apart
  <2>4. Distinct(seq \o <<x>>)
    BY <1>1, <2>1, <2>2, <2>3, ConcatDistinct
  <2>5. ToSet(seq \o <<x>>) = ToSet(seq) \cup ToSet(<<x>>)
    BY <2>1, ConcatSet
  <2> QED BY <2>1, <2>2, <2>4, <2>5
<1>2. s.context \in Seq(Input) /\ s.steerBuffer \in Seq(Input)
  BY DEF Agent
<1>3. x \notin ToSet(s.context) /\ x \notin ToSet(s.steerBuffer) /\ x \notin s.refused
  BY DEF HeardBy
<1>4. CASE u.steerBuffer = Append(s.steerBuffer, x) /\ u.context = s.context /\ u.refused = s.refused
  <2>1. Distinct(u.steerBuffer) /\ ToSet(u.steerBuffer) = ToSet(s.steerBuffer) \cup {x}
    BY <1>1, <1>2, <1>3, <1>4 DEF Once
  <2> QED BY <1>3, <1>4, <2>1 DEF Once, HeardBy, Apart
<1>5. CASE u.context = Append(s.context, x) /\ u.steerBuffer = s.steerBuffer /\ u.refused = s.refused
  <2>1. Distinct(u.context) /\ ToSet(u.context) = ToSet(s.context) \cup {x}
    BY <1>1, <1>2, <1>3, <1>5 DEF Once
  <2> QED BY <1>3, <1>5, <2>1 DEF Once, HeardBy, Apart
<1>6. CASE u.refused = s.refused \cup {x} /\ u.context = s.context /\ u.steerBuffer = s.steerBuffer
  BY <1>3, <1>6 DEF Once, HeardBy, Apart
<1> QED BY <1>4, <1>5, <1>6

-----------------------------------------------------------------------------
(* Runs.                                                                   *)

\* A turn that some run goes through is one that was begun.
LEMMA GoingBelow ==
  ASSUME NEW s \in Agent, Runs(s)
  PROVE  GoingTurns(s) \in SUBSET Turn /\ \A n \in GoingTurns(s) : n <= s.turnId
<1> SUFFICES ASSUME NEW r \in Turn, Going(s, r)
             PROVE  s.run[r].turn \in Turn /\ s.run[r].turn <= s.turnId
  BY DEF GoingTurns
<1>1. RunOK(s, r) /\ s.run[r].phase # "none"
  BY DEF Runs, Going
<1>2. s.run[r].turn \in Turn \cup {NoTurn} /\ s.turnId \in Turn \cup {NoTurn}
  BY DEF Agent, Run
<1> QED BY <1>1, <1>2 DEF RunOK, Turn, NoTurn

\* No run begins, ends or is cancelled.
LEMMA SameRuns ==
  ASSUME NEW s \in Agent, NEW u \in Agent, Runs(s),
         u.turnId = s.turnId, u.activeTurn = s.activeTurn,
         \A r \in Turn : /\ Going(u, r) <=> Going(s, r)
                         /\ u.run[r].phase = "none" <=> s.run[r].phase = "none"
                         /\ u.run[r].turn = s.run[r].turn /\ u.run[r].aborted = s.run[r].aborted
  PROVE  Runs(u) /\ GoingTurns(u) = GoingTurns(s)
<1>1. \A r \in Turn : RunOK(u, r)
  BY DEF Runs, RunOK
<1>2. OwnTurns(u)
  BY DEF Runs, OwnTurns
<1>3. {q \in Turn : Going(u, q)} = {q \in Turn : Going(s, q)}
  OBVIOUS
<1>4. GoingTurns(u) = GoingTurns(s)
  BY <1>3 DEF GoingTurns
<1> QED BY <1>1, <1>2, <1>4 DEF Runs

\* One run changes: it goes on with its turn, leaves it, or takes a new one.
LEMMA OneRun ==
  ASSUME NEW s \in Agent, NEW u \in Agent, Runs(s), NEW r \in Turn, NEW e \in Run,
         u.run = [s.run EXCEPT ![r] = e], e.phase # "none", RunOK(u, r),
         u.turnId = s.turnId \/ (u.turnId = s.turnId + 1 /\ s.activeTurn \in {r, NoTurn}),
         (e.turn = s.run[r].turn /\ s.run[r].phase # "none") \/ e.turn > s.turnId,
         \A q \in Turn \ {r} : u.activeTurn = q <=> s.activeTurn = q
  PROVE  /\ Runs(u)
         /\ GoingTurns(u) = (GoingTurns(s) \ (IF Going(s, r) THEN {s.run[r].turn} ELSE {}))
                              \cup (IF Going(u, r) THEN {e.turn} ELSE {})
<1>1. /\ \A q \in Turn \ {r} : u.run[q] = s.run[q]
      /\ u.run[r] = e
  BY DEF Agent
<1>2. /\ s.turnId \in Int /\ u.turnId \in Int /\ s.turnId <= u.turnId
      /\ \A q \in Turn : s.run[q].turn \in Int /\ q \in Int
  <2>1. Turn \subseteq Int /\ Turn \cup {NoTurn} \subseteq Int
    BY TurnAssumption DEF Turn, NoTurn
  <2>2. \A q \in Turn : s.run[q].turn \in Turn \cup {NoTurn}
    BY DEF Agent, Run
  <2>3. s.turnId \in Turn \cup {NoTurn} /\ u.turnId \in Turn \cup {NoTurn}
    BY DEF Agent
  <2> QED BY <2>1, <2>2, <2>3
<1>3. ASSUME NEW q \in Turn \ {r} PROVE RunOK(u, q)
  <2>1. RunOK(s, q) /\ (Going(u, q) <=> Going(s, q))
    BY <1>1 DEF Runs, Going
  <2>2. s.activeTurn = q => u.turnId = s.turnId
    BY DEF Turn, NoTurn
  <2> QED BY <1>1, <1>2, <2>1, <2>2 DEF RunOK
<1>4. OwnTurns(u)
  <2>1. ASSUME NEW q \in Turn \ {r}, u.run[q].phase # "none" PROVE u.run[q].turn # e.turn
    <3>1. s.run[q].phase # "none" /\ s.run[q].turn = u.run[q].turn /\ s.run[q].turn <= s.turnId
      BY <1>1, <2>1 DEF Runs, RunOK
    <3> QED BY <1>2, <3>1 DEF Runs, OwnTurns, Run, Turn, NoTurn
  <2> QED BY <1>1, <2>1 DEF Runs, OwnTurns
<1>5. Runs(u)
  BY <1>3, <1>4 DEF Runs
<1>6. GoingTurns(u) = (GoingTurns(s) \ (IF Going(s, r) THEN {s.run[r].turn} ELSE {}))
                        \cup (IF Going(u, r) THEN {e.turn} ELSE {})
  <2>1. \A q \in Turn \ {r} : Going(u, q) <=> Going(s, q)
    BY <1>1 DEF Going
  <2>2. \A q \in Turn \ {r} : Going(s, q) /\ Going(s, r) => s.run[q].turn # s.run[r].turn
    BY DEF Runs, OwnTurns, Going
  <2>3. \A n : n \in GoingTurns(u) <=>
          \/ Going(u, r) /\ n = e.turn
          \/ \E q \in Turn \ {r} : Going(s, q) /\ n = s.run[q].turn
    BY <1>1, <2>1 DEF GoingTurns
  <2>4. \A n : n \in GoingTurns(s) <=>
          \/ Going(s, r) /\ n = s.run[r].turn
          \/ \E q \in Turn \ {r} : Going(s, q) /\ n = s.run[q].turn
    BY DEF GoingTurns
  <2> QED BY <2>2, <2>3, <2>4
<1> QED BY <1>5, <1>6

-----------------------------------------------------------------------------
(* What the operators change.                                              *)

\* The run r of v becomes that of u; what was said is left alone.
Replaces(v, u, r) ==
  /\ u \in Agent /\ u.run[r] \in Run /\ u.run = [v.run EXCEPT ![r] = u.run[r]]
  /\ \A q \in Turn \ {r} : u.run[q] = v.run[q]
  /\ u.context = v.context /\ u.steerBuffer = v.steerBuffer /\ u.refused = v.refused

\* BeginTurn.
LEMMA BeginTurnFields ==
  ASSUME NEW v \in Agent, NEW r \in Turn, v.turnId + 1 \in Turn, NEW u,
         u = BeginTurn(v, r).agent
  PROVE  /\ BeginTurn(v, r) = [agent |-> u, emits |-> <<StartedEvent(u.turnId)>>]
         /\ Replaces(v, u, r) /\ u.turnId = v.turnId + 1 /\ u.activeTurn = v.activeTurn
         /\ u.run[r].phase = "opening" /\ u.run[r].turn = u.turnId
         /\ u.run[r].aborted = v.run[r].aborted
<1> DEFINE n == v.turnId + 1
           e == [v.run[r] EXCEPT !.phase = "opening", !.turn = n, !.hooked = FALSE]
<1>1. e \in Run /\ e.phase = "opening" /\ e.turn = n /\ e.aborted = v.run[r].aborted
  <2>1. v.run[r] \in Run
    BY DEF Agent
  <2>2. \A m \in Turn : LET f == [v.run[r] EXCEPT !.phase = "opening", !.turn = m, !.hooked = FALSE]
                        IN  /\ f \in Run /\ f.phase = "opening" /\ f.turn = m
                            /\ f.aborted = v.run[r].aborted
    BY <2>1 DEF Run
  <2> QED BY <2>2
<1>2. u.run = [v.run EXCEPT ![r] = e]
  BY DEF BeginTurn, Agent
<1>3. /\ u.turnId = n /\ u.activeTurn = v.activeTurn /\ u.context = v.context
      /\ u.steerBuffer = v.steerBuffer /\ u.refused = v.refused
      /\ BeginTurn(v, r).emits = <<StartedEvent(n)>>
  BY DEF BeginTurn, Agent
<1>4. [v.run EXCEPT ![r] = e] \in [Turn -> Run]
  BY <1>1 DEF Agent
<1>5. u \in Agent
  BY <1>2, <1>3, <1>4 DEF BeginTurn, Agent
<1>6. u.run[r] = e /\ \A q \in Turn \ {r} : u.run[q] = v.run[q]
  BY <1>2 DEF Agent
<1>7. BeginTurn(v, r) = [agent |-> u, emits |-> <<StartedEvent(u.turnId)>>]
  BY <1>3 DEF BeginTurn
<1> HIDE DEF e
<1> QED BY <1>1, <1>2, <1>3, <1>5, <1>6, <1>7 DEF Replaces

\* Finished.
LEMMA FinishedFields ==
  ASSUME NEW v \in Agent, NEW r \in Turn, NEW u, u = Finished(v, r)
  PROVE  /\ Replaces(v, u, r) /\ u.turnId = v.turnId
         /\ u.activeTurn = IF v.activeTurn = r THEN NoTurn ELSE v.activeTurn
         /\ u.run[r].phase = "done" /\ u.run[r].turn = v.run[r].turn
         /\ u.run[r].aborted = v.run[r].aborted /\ u.run[r].reason = v.run[r].reason
<1> DEFINE e == [v.run[r] EXCEPT !.phase = "done"]
<1>1. /\ e \in Run /\ e.phase = "done" /\ e.turn = v.run[r].turn
      /\ e.aborted = v.run[r].aborted /\ e.reason = v.run[r].reason
  BY DEF Agent, Run
<1>2. u.run = [v.run EXCEPT ![r] = e]
  BY DEF Finished, Agent
<1>3. /\ u.turnId = v.turnId /\ u.context = v.context
      /\ u.activeTurn = IF v.activeTurn = r THEN NoTurn ELSE v.activeTurn
      /\ u.steerBuffer = v.steerBuffer /\ u.refused = v.refused
  BY DEF Finished, Agent
<1>4. [v.run EXCEPT ![r] = e] \in [Turn -> Run]
  BY <1>1 DEF Agent
<1>5. u \in Agent
  BY <1>2, <1>3, <1>4 DEF Finished, Agent
<1>6. u.run[r] = e /\ \A q \in Turn \ {r} : u.run[q] = v.run[q]
  BY <1>2 DEF Agent
<1> HIDE DEF e
<1> QED BY <1>1, <1>2, <1>3, <1>5, <1>6 DEF Replaces

\* SpentTurn.
LEMMA SpentTurnFields ==
  ASSUME NEW v \in Agent, NEW r \in Turn, v.turnId + 1 \in Turn, NEW u,
         u = SpentTurn(v, r).agent
  PROVE  /\ SpentTurn(v, r) = [agent |-> u, emits |-> <<StartedEvent(u.turnId),
                                                        EndedEvent(u.turnId, "completed")>>]
         /\ Replaces(v, u, r) /\ u.turnId = v.turnId + 1
         /\ u.activeTurn = IF v.activeTurn = r THEN NoTurn ELSE v.activeTurn
         /\ u.run[r].phase = "done" /\ u.run[r].turn = u.turnId
         /\ u.run[r].aborted = v.run[r].aborted
<1> DEFINE n == v.turnId + 1
           w == [v EXCEPT !.turnId = n, !.goal = FALSE,
                          !.run[r].turn = n, !.run[r].reason = "completed"]
           e == [v.run[r] EXCEPT !.turn = n, !.reason = "completed"]
<1>1. e \in Run /\ e.turn = n /\ e.aborted = v.run[r].aborted
  BY DEF Agent, Run, Reasons
<1>2. w.run = [v.run EXCEPT ![r] = e]
  BY DEF Agent
<1>3. /\ w.turnId = n /\ w.activeTurn = v.activeTurn /\ w.context = v.context
      /\ w.steerBuffer = v.steerBuffer /\ w.refused = v.refused
  BY DEF Agent
<1>4. [v.run EXCEPT ![r] = e] \in [Turn -> Run]
  BY <1>1 DEF Agent
<1>5. w \in Agent
  BY <1>2, <1>3, <1>4 DEF Agent
<1>6. w.run[r] = e /\ \A q \in Turn \ {r} : w.run[q] = v.run[q]
  BY <1>2 DEF Agent
<1>7. u = Finished(w, r) /\ SpentTurn(v, r).emits = <<StartedEvent(n), EndedEvent(n, "completed")>>
  BY DEF SpentTurn
<1>8. SpentTurn(v, r) = [agent |-> u, emits |-> <<StartedEvent(n), EndedEvent(n, "completed")>>]
  BY <1>7 DEF SpentTurn
<1> HIDE DEF e, w
<1>9. /\ Replaces(w, u, r) /\ u.turnId = n
      /\ u.activeTurn = IF v.activeTurn = r THEN NoTurn ELSE v.activeTurn
      /\ u.run[r].phase = "done" /\ u.run[r].turn = n /\ u.run[r].aborted = v.run[r].aborted
  BY <1>1, <1>3, <1>5, <1>6, <1>7, FinishedFields
<1>10. Replaces(v, u, r)
  <2>1. u.run = [v.run EXCEPT ![r] = u.run[r]]
    BY <1>2, <1>9 DEF Replaces, Agent
  <2> QED BY <1>3, <1>6, <1>9, <2>1 DEF Replaces
<1> QED BY <1>8, <1>9, <1>10

-----------------------------------------------------------------------------
(* Steps.                                                                  *)

\* A step without an event.
LEMMA QuietStep ==
  ASSUME NEW s, NEW evs, Good(s, evs), NEW u \in Agent, Runs(u),
         GoingTurns(u) = GoingTurns(s), u.turnId = s.turnId,
         Once(u), NEW X, HeardBy(u) = HeardBy(s) \cup X, Stays(s, u)
  PROVE  Follows(s, evs, Quietly(u), X)
<1>1. Quietly(u).agent = u /\ evs \o Quietly(u).emits = evs /\ Quietly(u).emits \in Seq(Event)
  BY ConcatEmptySeq, EmptySeq DEF Quietly, Good, Told
<1> QED BY <1>1 DEF Follows, Good

\* A run begins a turn: its own first or the next one.
LEMMA BeginStepEvents ==
  ASSUME NEW s, NEW evs, Good(s, evs), NEW u \in Agent, s.turnId + 1 \in Turn,
         u.turnId = s.turnId + 1, Runs(u), GoingTurns(u) = GoingTurns(s) \cup {u.turnId},
         Once(u), NEW X, HeardBy(u) = HeardBy(s) \cup X, Stays(s, u)
  PROVE  Follows(s, evs, [agent |-> u, emits |-> <<StartedEvent(u.turnId)>>], X)
<1>1. GoingTurns(s) \in SUBSET Turn /\ \A n \in GoingTurns(s) : n <= s.turnId
  BY GoingBelow DEF Good
<1>2. s.turnId \in Turn \cup {NoTurn}
  BY DEF Good, Agent
<1>3. Told(evs \o <<StartedEvent(u.turnId)>>, u.turnId, GoingTurns(u))
  BY <1>1, <1>2, TellStart DEF Good
<1>4. <<StartedEvent(u.turnId)>> \in Seq(Event)
  BY EventFields, RowIsSeq
<1> QED BY <1>3, <1>4 DEF Follows, Good

\* A run begins a turn that ends before its first step.
LEMMA SpentStepEvents ==
  ASSUME NEW s, NEW evs, Good(s, evs), NEW u \in Agent, s.turnId + 1 \in Turn,
         u.turnId = s.turnId + 1, Runs(u), GoingTurns(u) = GoingTurns(s),
         Once(u), NEW X, HeardBy(u) = HeardBy(s) \cup X, Stays(s, u)
  PROVE  Follows(s, evs, [agent |-> u, emits |-> <<StartedEvent(u.turnId),
                                                   EndedEvent(u.turnId, "completed")>>], X)
<1> DEFINE n == u.turnId
           x == StartedEvent(n)
           y == EndedEvent(n, "completed")
<1>1. GoingTurns(s) \in SUBSET Turn /\ \A m \in GoingTurns(s) : m <= s.turnId
  BY GoingBelow DEF Good
<1>2. s.turnId \in Turn \cup {NoTurn} /\ n \in Turn /\ n \notin GoingTurns(s) /\ n <= n
  BY <1>1, TurnAssumption DEF Good, Agent, Turn, NoTurn
<1>3. Told(evs \o <<x>>, n, GoingTurns(s) \cup {n})
  BY <1>1, <1>2, TellStart DEF Good
<1>4. Told((evs \o <<x>>) \o <<y>>, n, (GoingTurns(s) \cup {n}) \ {n})
  <2>1. "completed" \in Reasons /\ n \in Turn \cup {NoTurn}
    BY <1>2 DEF Reasons
  <2>2. GoingTurns(s) \cup {n} \in SUBSET Turn /\ n \in GoingTurns(s) \cup {n}
    BY <1>1, <1>2
  <2> HIDE DEF n, x
  <2> QED BY <1>2, <1>3, <2>1, <2>2, TellEnd
<1>5. x \in Event /\ y \in Event /\ evs \in Seq(Event)
  BY <1>2, EventFields DEF Good, Told, Reasons
<1>6. evs \o <<x, y>> = (evs \o <<x>>) \o <<y>>
  BY <1>5, Emitted
<1>7. (GoingTurns(s) \cup {n}) \ {n} = GoingTurns(u)
  BY <1>2
<1>8. <<x, y>> \in Seq(Event)
  BY <1>5, RowIsSeq
<1> QED BY <1>4, <1>6, <1>7, <1>8 DEF Follows, Good

\* launch.
LEMMA LaunchStep ==
  ASSUME NEW s, NEW evs, Good(s, evs), NEW x \in Input, x \notin HeardBy(s), CanAllocate(s),
         NEW step \in Launch(s, x)
  PROVE  Follows(s, evs, step, {x})
<1>0. s \in Agent /\ Runs(s) /\ Once(s)
  BY DEF Good
<1>1. CASE s.activeTurn # NoTurn
  <2> DEFINE u == [s EXCEPT !.refused = @ \cup {x}]
  <2>1. step = Quietly(u)
    BY <1>1 DEF Launch
  <2>2. /\ u \in Agent /\ u.refused = s.refused \cup {x} /\ u.context = s.context
        /\ u.steerBuffer = s.steerBuffer /\ u.run = s.run /\ u.turnId = s.turnId
        /\ u.activeTurn = s.activeTurn
    BY <1>0 DEF Agent
  <2> HIDE DEF u
  <2>3. Once(u) /\ HeardBy(u) = HeardBy(s) \cup {x}
    BY <1>0, <2>2, NewText
  <2>4. Runs(u) /\ GoingTurns(u) = GoingTurns(s) /\ Stays(s, u)
    BY <1>0, <2>2, SameRuns DEF Going, Stays
  <2> QED BY <2>1, <2>2, <2>3, <2>4, QuietStep DEF Quietly
<1>2. CASE s.activeTurn = NoTurn /\ s.compacting
  <2> DEFINE u == Buffered(s, x)
  <2>1. step = Quietly(u)
    BY <1>2 DEF Launch
  <2>2. /\ u \in Agent /\ u.refused = s.refused /\ u.context = s.context
        /\ u.steerBuffer = Append(s.steerBuffer, x) /\ u.run = s.run /\ u.turnId = s.turnId
        /\ u.activeTurn = s.activeTurn
    <3>1. Append(s.steerBuffer, x) \in Seq(Input)
      BY <1>0, AppendProperties DEF Agent
    <3> QED BY <1>0, <3>1 DEF Agent, Buffered
  <2> HIDE DEF u
  <2>3. Once(u) /\ HeardBy(u) = HeardBy(s) \cup {x}
    BY <1>0, <2>2, NewText
  <2>4. Runs(u) /\ GoingTurns(u) = GoingTurns(s) /\ Stays(s, u)
    BY <1>0, <2>2, SameRuns DEF Going, Stays
  <2> QED BY <2>1, <2>2, <2>3, <2>4, QuietStep DEF Quietly
<1>3. CASE s.activeTurn = NoTurn /\ ~ s.compacting
  <2> DEFINE r == s.turnId + 1
             v == [s EXCEPT !.activeTurn = r, !.context = Append(@, x),
                            !.run[r].driven = s.goal, !.run[r].input = <<x>>]
  <2>1. /\ step \in {BeginTurn(v, r), SpentTurn(v, r)}
        /\ r \in Turn
    BY <1>3 DEF Launch, StartRun, CanAllocate
  <2>2. s.run[r].phase = "none" /\ ~ s.run[r].aborted /\ s.run[r] \in Run /\ ~ Going(s, r)
    <3>1. RunOK(s, r) /\ s.run[r] \in Run /\ s.turnId \in Turn \cup {NoTurn}
      BY <1>0, <2>1 DEF Runs, Agent
    <3>2. ~ (r <= s.run[r].turn /\ s.run[r].turn <= s.turnId)
      BY <2>1, <3>1, TurnAssumption DEF Run, Turn, NoTurn
    <3> QED BY <3>1, <3>2 DEF RunOK, Going
  <2>3. /\ v.turnId = s.turnId /\ v.activeTurn = r /\ v.context = Append(s.context, x)
        /\ v.steerBuffer = s.steerBuffer /\ v.refused = s.refused /\ v \in Agent
        /\ v.run = [s.run EXCEPT ![r] = [@ EXCEPT !.driven = s.goal, !.input = <<x>>]]
    <3>1. Append(s.context, x) \in Seq(Input)
      BY <1>0, AppendProperties DEF Agent
    <3>2. [s.run[r] EXCEPT !.driven = s.goal, !.input = <<x>>] \in Run
      BY <1>0, <2>2 DEF Agent, Run
    <3>3. [s.run EXCEPT ![r] = [@ EXCEPT !.driven = s.goal, !.input = <<x>>]] \in [Turn -> Run]
      BY <1>0, <2>1, <3>2 DEF Agent
    <3>4. v.run = [s.run EXCEPT ![r] = [@ EXCEPT !.driven = s.goal, !.input = <<x>>]]
      BY <1>0, <2>1 DEF Agent
    <3>5. /\ v.turnId = s.turnId /\ v.activeTurn = r /\ v.context = Append(s.context, x)
          /\ v.steerBuffer = s.steerBuffer /\ v.refused = s.refused
      BY <1>0 DEF Agent
    <3> QED BY <1>0, <2>1, <3>1, <3>3, <3>4, <3>5 DEF Agent
  <2> HIDE DEF v
  <2>4. \A q \in Turn \ {r} : v.run[q] = s.run[q]
    BY <1>0, <2>1, <2>3 DEF Agent
  <2>5. v.run[r].aborted = s.run[r].aborted
    BY <1>0, <2>1, <2>2, <2>3 DEF Agent, Run
  <2>6. r \in Int /\ r <= r /\ r > s.turnId /\ r # NoTurn
    <3>1. s.turnId \in Turn \cup {NoTurn}
      BY <1>0 DEF Agent
    <3> QED BY <2>1, <3>1, TurnAssumption DEF Turn, NoTurn
  <2> DEFINE u == step.agent
  <2>7. /\ Replaces(v, u, r) /\ u.turnId = r /\ u.run[r].turn = r /\ ~ u.run[r].aborted
        /\ \/ /\ u.run[r].phase = "opening" /\ u.activeTurn = r
              /\ step = [agent |-> u, emits |-> <<StartedEvent(u.turnId)>>]
           \/ /\ u.run[r].phase = "done" /\ u.activeTurn = NoTurn
              /\ step = [agent |-> u, emits |-> <<StartedEvent(u.turnId),
                                                  EndedEvent(u.turnId, "completed")>>]
    <3>1. CASE step = BeginTurn(v, r)
      <4>1. v \in Agent /\ v.turnId + 1 \in Turn /\ u = BeginTurn(v, r).agent
        BY <2>1, <2>3, <3>1
      <4>2. v.turnId + 1 = r /\ v.activeTurn = r /\ ~ v.run[r].aborted
        BY <2>2, <2>3, <2>5
      <4> HIDE DEF u, r
      <4> QED BY <2>1, <4>1, <4>2, <3>1, BeginTurnFields
    <3>2. CASE step = SpentTurn(v, r)
      <4>1. v \in Agent /\ v.turnId + 1 \in Turn /\ u = SpentTurn(v, r).agent
        BY <2>1, <2>3, <3>2
      <4>2. v.turnId + 1 = r /\ v.activeTurn = r /\ ~ v.run[r].aborted
        BY <2>2, <2>3, <2>5
      <4> HIDE DEF u, r
      <4> QED BY <2>1, <4>1, <4>2, <3>2, SpentTurnFields
    <3> QED BY <2>1, <3>1, <3>2
  <2> HIDE DEF u
  <2>8. u.run = [s.run EXCEPT ![r] = u.run[r]]
    BY <1>0, <2>3, <2>7 DEF Replaces, Agent
  <2>9. /\ Runs(u)
        /\ GoingTurns(u) = (GoingTurns(s) \ {}) \cup (IF Going(u, r) THEN {r} ELSE {})
    <3>1. RunOK(u, r)
      BY <2>6, <2>7 DEF RunOK, Going
    <3>2. u \in Agent /\ u.run[r] \in Run /\ u.run[r].phase # "none"
      BY <2>7 DEF Replaces
    <3>3. \A q \in Turn \ {r} : u.activeTurn = q <=> s.activeTurn = q
      BY <1>3, <2>7 DEF Turn, NoTurn
    <3>4. u.run[r].turn > s.turnId /\ u.turnId = s.turnId + 1 /\ s.activeTurn \in {r, NoTurn}
      BY <1>3, <2>6, <2>7
    <3> QED BY <1>0, <2>1, <2>2, <2>7, <2>8, <3>1, <3>2, <3>3, <3>4, OneRun
  <2>10. Once(u) /\ HeardBy(u) = HeardBy(s) \cup {x}
    <3>1. /\ u.context = Append(s.context, x) /\ u.steerBuffer = s.steerBuffer
          /\ u.refused = s.refused
      BY <2>3, <2>7 DEF Replaces
    <3> QED BY <1>0, <3>1, NewText
  <2>11. Stays(s, u)
    BY <2>2, <2>4, <2>7 DEF Stays, Replaces
  <2>12. u \in Agent /\ s.turnId + 1 \in Turn /\ u.turnId = s.turnId + 1
    BY <2>1, <2>7 DEF Replaces
  <2>13. Follows(s, evs, step, {x})
    <3>1. CASE u.run[r].phase = "opening"
      <4>1. GoingTurns(u) = GoingTurns(s) \cup {u.turnId}
        BY <2>7, <2>9, <3>1 DEF Going
      <4> QED BY <2>7, <2>9, <2>10, <2>11, <2>12, <3>1, <4>1, BeginStepEvents
    <3>2. CASE u.run[r].phase = "done"
      <4>1. GoingTurns(u) = GoingTurns(s)
        BY <2>9, <3>2 DEF Going
      <4> QED BY <2>7, <2>9, <2>10, <2>11, <2>12, <3>2, <4>1, SpentStepEvents
    <3> QED BY <2>7, <3>1, <3>2
  <2> QED BY <2>13
<1> QED BY <1>1, <1>2, <1>3

-----------------------------------------------------------------------------
(* The end of a turn.                                                      *)

\* The event a turn ends with: a blocked prompt counts as completed.
EndOf(s, r, reason) ==
  EndedEvent(s.run[r].turn, IF reason = "blocked" THEN "completed" ELSE reason)

\* What a run that is over looks like.
Over(s, u, r) ==
  /\ Replaces(s, u, r) /\ u.turnId = s.turnId
  /\ u.activeTurn = IF s.activeTurn = r THEN NoTurn ELSE s.activeTurn
  /\ u.run[r].phase = "done" /\ u.run[r].turn = s.run[r].turn
  /\ u.run[r].aborted = s.run[r].aborted

\* What a run that goes on with another turn looks like.
Onward(s, u, r) ==
  /\ Replaces(s, u, r) /\ s.turnId + 1 \in Turn /\ u.turnId = s.turnId + 1
  /\ s.activeTurn = r /\ ~ s.run[r].aborted /\ ~ u.run[r].aborted
  /\ u.run[r].turn = u.turnId
  /\ \/ u.run[r].phase = "opening" /\ u.activeTurn = r
     \/ u.run[r].phase = "done" /\ u.activeTurn = NoTurn

\* The events of the turn such a run goes on with.
OnwardEvents(u, r) ==
  IF u.run[r].phase = "opening" THEN <<StartedEvent(u.turnId)>>
  ELSE <<StartedEvent(u.turnId), EndedEvent(u.turnId, "completed")>>

\* Replacing a run that was replaced.
LEMMA ReplacesAgain ==
  ASSUME NEW s \in Agent, NEW v, NEW u, NEW r \in Turn, Replaces(s, v, r), Replaces(v, u, r)
  PROVE  Replaces(s, u, r)
<1>1. u.run = [s.run EXCEPT ![r] = u.run[r]]
  BY DEF Replaces, Agent
<1> QED BY <1>1 DEF Replaces

\* Setting the reason and letting go of the active turn.
LEMMA ReleasedFields ==
  ASSUME NEW s \in Agent, Runs(s), NEW r \in Turn, NEW reason \in Reasons \cup {"blocked"},
         Going(s, r), NEW v, v = Released([s EXCEPT !.run[r].reason = reason], r)
  PROVE  /\ Replaces(s, v, r) /\ v.turnId = s.turnId /\ v.goal = s.goal
         /\ v.run[r].reason = reason /\ v.run[r].phase = s.run[r].phase
         /\ v.run[r].turn = s.run[r].turn /\ v.run[r].aborted = s.run[r].aborted
         /\ v.run[r].driven = s.run[r].driven
         /\ v.activeTurn = s.activeTurn
              \/ (v.activeTurn = NoTurn /\ s.activeTurn \in {r, NoTurn} /\ ~ s.goal)
<1> DEFINE w == [s EXCEPT !.run[r].reason = reason]
           e == [s.run[r] EXCEPT !.reason = reason]
<1>1. /\ e \in Run /\ e.phase = s.run[r].phase /\ e.turn = s.run[r].turn
      /\ e.aborted = s.run[r].aborted /\ e.reason = reason /\ e.driven = s.run[r].driven
  BY DEF Agent, Run
<1>2. w.run = [s.run EXCEPT ![r] = e]
  BY DEF Agent
<1>3. /\ w.turnId = s.turnId /\ w.context = s.context /\ w.activeTurn = s.activeTurn
      /\ w.steerBuffer = s.steerBuffer /\ w.refused = s.refused /\ w.goal = s.goal
  BY DEF Agent
<1>4. [s.run EXCEPT ![r] = e] \in [Turn -> Run]
  BY <1>1 DEF Agent
<1>5. w \in Agent
  BY <1>2, <1>3, <1>4 DEF Agent
<1>6. w.run[r] = e /\ \A q \in Turn \ {r} : w.run[q] = s.run[q]
  BY <1>2 DEF Agent
<1> HIDE DEF e, w
<1>7. Replaces(s, w, r)
  BY <1>1, <1>2, <1>3, <1>5, <1>6 DEF Replaces
<1>8. CASE v = w
  BY <1>1, <1>3, <1>6, <1>7, <1>8
<1>9. CASE /\ v = [w EXCEPT !.activeTurn = NoTurn]
           /\ w.run[r].turn = w.turnId /\ ~ w.goal
  <2>1. /\ v \in Agent /\ v.run = w.run /\ v.turnId = w.turnId /\ v.goal = w.goal
        /\ v.context = w.context /\ v.steerBuffer = w.steerBuffer /\ v.refused = w.refused
        /\ v.activeTurn = NoTurn
    BY <1>5, <1>9 DEF Agent
  <2>2. Replaces(s, v, r)
    BY <1>7, <2>1 DEF Replaces
  <2>3. s.activeTurn \in {r, NoTurn}
    <3>1. s.activeTurn \in Turn \cup {NoTurn}
      BY DEF Agent
    <3>2. ASSUME s.activeTurn \in Turn PROVE s.activeTurn = r
      <4>1. Going(s, s.activeTurn) /\ s.run[s.activeTurn].turn = s.turnId
        BY <3>2 DEF Runs, RunOK
      <4>2. s.run[r].turn = s.turnId
        BY <1>1, <1>3, <1>6, <1>9
      <4> QED BY <3>2, <4>1, <4>2 DEF Runs, OwnTurns, Going
    <3> QED BY <3>1, <3>2
  <2> QED BY <1>1, <1>3, <1>6, <1>9, <2>1, <2>2, <2>3
<1>10. v = w \/ (/\ v = [w EXCEPT !.activeTurn = NoTurn]
                 /\ w.run[r].turn = w.turnId /\ ~ w.goal)
  BY DEF Released, w
<1> QED BY <1>8, <1>9, <1>10

\* The run is over, or goes on with a turn of its goal.
LEMMA Continues ==
  ASSUME NEW s \in Agent, Runs(s), NEW r \in Turn, NEW reason \in Reasons \cup {"blocked"},
         Going(s, r), reason \in {"completed", "blocked"} => ~ s.run[r].aborted,
         NEW step \in EndTurn(s, r, reason), NEW u, u = step.agent
  PROVE  \/ /\ Over(s, u, r) /\ u.run[r].reason = reason
            /\ step = [agent |-> u, emits |-> <<EndOf(s, r, reason)>> \o <<>>]
         \/ /\ Onward(s, u, r) /\ reason \in {"completed", "blocked"}
            /\ step = [agent |-> u, emits |-> <<EndOf(s, r, reason)>> \o OnwardEvents(u, r)]
<1> DEFINE v == Released([s EXCEPT !.run[r].reason = reason], r)
<1>1. PICK st \in Continue(v, r) :
        step = [agent |-> st.agent, emits |-> <<EndOf(s, r, reason)>> \o st.emits]
  BY DEF EndTurn, EndOf
<1>2. /\ Replaces(s, v, r) /\ v.turnId = s.turnId /\ v.goal = s.goal
      /\ v.run[r].reason = reason /\ v.run[r].phase = s.run[r].phase
      /\ v.run[r].turn = s.run[r].turn /\ v.run[r].aborted = s.run[r].aborted
      /\ v.run[r].driven = s.run[r].driven
      /\ v.activeTurn = s.activeTurn
           \/ (v.activeTurn = NoTurn /\ s.activeTurn \in {r, NoTurn} /\ ~ s.goal)
  BY ReleasedFields
<1> HIDE DEF v
<1>3. v \in Agent /\ r # NoTurn
  BY <1>2, TurnAssumption DEF Replaces, Turn, NoTurn
<1>4. CASE st = Quietly(Finished(v, r))
  <2>1. u = Finished(v, r) /\ st.emits = <<>>
    BY <1>1, <1>4 DEF Quietly
  <2>2. Over(v, u, r) /\ u.run[r].reason = reason
    BY <1>2, <1>3, <2>1, FinishedFields DEF Over
  <2>3. Over(s, u, r) /\ u.run[r].reason = reason
    BY <1>2, <1>3, <2>2, ReplacesAgain DEF Over
  <2> QED BY <1>1, <2>1, <2>3
<1>5. CASE st = Quietly(GivesUp(v, r))
  <2> DEFINE w == [v EXCEPT !.goal = FALSE]
  <2>1. u = Finished(w, r) /\ st.emits = <<>>
    BY <1>1, <1>5 DEF Quietly, GivesUp
  <2>2. /\ w \in Agent /\ w.turnId = v.turnId /\ w.activeTurn = v.activeTurn /\ w.run = v.run
        /\ w.context = v.context /\ w.steerBuffer = v.steerBuffer /\ w.refused = v.refused
    BY <1>3 DEF Agent
  <2> HIDE DEF w
  <2>3. Over(w, u, r) /\ u.run[r].reason = reason
    BY <1>2, <2>1, <2>2, FinishedFields DEF Over
  <2>4. Over(v, u, r) /\ u.run[r].reason = reason
    BY <2>2, <2>3 DEF Over, Replaces
  <2>5. Over(s, u, r) /\ u.run[r].reason = reason
    BY <1>2, <1>3, <2>4, ReplacesAgain DEF Over
  <2> QED BY <1>1, <2>1, <2>5
<1>6. ASSUME NEW w, w = v \/ w = [v EXCEPT !.run[r].driven = TRUE], s.goal,
             v.turnId + 1 \in Turn, reason \in {"completed", "blocked"},
             st = BeginTurn(w, r) \/ st = SpentTurn(w, r)
      PROVE  /\ Onward(s, u, r)
             /\ step = [agent |-> u, emits |-> <<EndOf(s, r, reason)>> \o OnwardEvents(u, r)]
  <2>1. /\ Replaces(v, w, r) /\ w.turnId = v.turnId /\ w.activeTurn = v.activeTurn
        /\ w.run[r].aborted = v.run[r].aborted
    <3>1. CASE w = v
      <4>1. v.run = [v.run EXCEPT ![r] = v.run[r]] /\ v.run[r] \in Run
        BY <1>3 DEF Agent
      <4> QED BY <1>3, <3>1, <4>1 DEF Replaces
    <3>2. CASE w = [v EXCEPT !.run[r].driven = TRUE]
      <4> DEFINE e == [v.run[r] EXCEPT !.driven = TRUE]
      <4>1. e \in Run /\ e.aborted = v.run[r].aborted
        <5>1. v.run[r] \in Run
          BY <1>3 DEF Agent
        <5> QED BY <5>1 DEF Run
      <4>2. w.run = [v.run EXCEPT ![r] = e]
        BY <1>3, <3>2 DEF Agent
      <4>3. /\ w.turnId = v.turnId /\ w.activeTurn = v.activeTurn /\ w.context = v.context
            /\ w.steerBuffer = v.steerBuffer /\ w.refused = v.refused
        BY <1>3, <3>2 DEF Agent
      <4>4. [v.run EXCEPT ![r] = e] \in [Turn -> Run]
        BY <1>3, <4>1 DEF Agent
      <4>5. w \in Agent
        BY <1>3, <3>2, <4>2, <4>4 DEF Agent
      <4>6. w.run[r] = e /\ \A q \in Turn \ {r} : w.run[q] = v.run[q]
        BY <1>3, <4>2 DEF Agent
      <4> HIDE DEF e
      <4> QED BY <4>1, <4>2, <4>3, <4>5, <4>6 DEF Replaces
    <3> QED BY <1>6, <3>1, <3>2
  <2>2. s.activeTurn = r /\ ~ s.run[r].aborted /\ w.activeTurn = r /\ ~ w.run[r].aborted
    <3>1. RunOK(s, r)
      BY DEF Runs
    <3> QED BY <1>2, <1>6, <2>1, <3>1 DEF RunOK
  <2>3. w \in Agent /\ w.turnId + 1 \in Turn /\ Replaces(s, w, r) /\ u = st.agent
    <3>1. w \in Agent /\ w.turnId + 1 \in Turn /\ u = st.agent
      BY <1>1, <1>6, <2>1 DEF Replaces
    <3> QED BY <1>2, <2>1, <3>1, ReplacesAgain
  <2>4. CASE st = BeginTurn(w, r)
    <3>1. /\ st = [agent |-> u, emits |-> <<StartedEvent(u.turnId)>>]
          /\ Replaces(w, u, r) /\ u.turnId = w.turnId + 1 /\ u.activeTurn = w.activeTurn
          /\ u.run[r].phase = "opening" /\ u.run[r].turn = u.turnId
          /\ u.run[r].aborted = w.run[r].aborted
      BY <2>3, <2>4, BeginTurnFields
    <3>2. Onward(s, u, r)
      BY <1>2, <2>1, <2>2, <2>3, <3>1, ReplacesAgain DEF Onward
    <3>3. st.emits = OnwardEvents(u, r)
      BY <3>1 DEF OnwardEvents
    <3>4. st.agent = u
      BY <3>1
    <3> QED BY <1>1, <3>2, <3>3, <3>4
  <2>5. CASE st = SpentTurn(w, r)
    <3>1. /\ st = [agent |-> u, emits |-> <<StartedEvent(u.turnId),
                                            EndedEvent(u.turnId, "completed")>>]
          /\ Replaces(w, u, r) /\ u.turnId = w.turnId + 1
          /\ u.activeTurn = IF w.activeTurn = r THEN NoTurn ELSE w.activeTurn
          /\ u.run[r].phase = "done" /\ u.run[r].turn = u.turnId
          /\ u.run[r].aborted = w.run[r].aborted
      BY <2>3, <2>5, SpentTurnFields
    <3>2. Onward(s, u, r)
      BY <1>2, <2>1, <2>2, <2>3, <3>1, ReplacesAgain DEF Onward
    <3>3. st.emits = OnwardEvents(u, r)
      BY <3>1 DEF OnwardEvents
    <3>4. st.agent = u
      BY <3>1
    <3> QED BY <1>1, <3>2, <3>3, <3>4
  <2> QED BY <1>6, <2>4, <2>5
<1>7. CASE v.run[r].driven
  BY <1>2, <1>4, <1>5, <1>6, <1>7 DEF Continue, DriveOn, CanAllocate
<1>8. CASE ~ v.run[r].driven
  BY <1>2, <1>4, <1>6, <1>8 DEF Continue, DriveNewGoal, CanAllocate
<1> QED BY <1>7, <1>8

\* What was said and what was cancelled stays when a run changes that was not cancelled or
\* is over.
LEMMA ReplacedStays ==
  ASSUME NEW s, NEW evs, Good(s, evs), NEW u, NEW r \in Turn, Replaces(s, u, r),
         s.run[r].aborted =>
           u.run[r].aborted /\ u.run[r].phase = "done" /\ u.run[r].turn = s.run[r].turn
  PROVE  Once(u) /\ HeardBy(u) = HeardBy(s) /\ Stays(s, u)
<1>1. Once(u) /\ HeardBy(u) = HeardBy(s)
  BY SameTexts DEF Good, Replaces
<1>2. Stays(s, u)
  BY DEF Stays, Replaces
<1> QED BY <1>1, <1>2

\* A turn of a run that goes through it ends.
LEMMA EndTurnStep ==
  ASSUME NEW s, NEW evs, Good(s, evs), NEW r \in Turn, NEW reason \in Reasons \cup {"blocked"},
         Going(s, r), reason \in {"completed", "blocked"} => ~ s.run[r].aborted,
         NEW step \in EndTurn(s, r, reason)
  PROVE  Follows(s, evs, step, {})
<1> DEFINE u == step.agent
           n == s.run[r].turn
           x == EndOf(s, r, reason)
           less == GoingTurns(s) \ {n}
<1>0. s \in Agent /\ Runs(s) /\ Once(s) /\ Told(evs, s.turnId, GoingTurns(s))
  BY DEF Good
<1>1. \/ /\ Over(s, u, r) /\ u.run[r].reason = reason
         /\ step = [agent |-> u, emits |-> <<x>> \o <<>>]
      \/ /\ Onward(s, u, r) /\ reason \in {"completed", "blocked"}
         /\ step = [agent |-> u, emits |-> <<x>> \o OnwardEvents(u, r)]
  BY <1>0, Continues
<1>2. /\ GoingTurns(s) \in SUBSET Turn /\ \A m \in GoingTurns(s) : m <= s.turnId
      /\ n \in GoingTurns(s) /\ s.turnId \in Turn \cup {NoTurn}
  <2>1. n \in GoingTurns(s)
    BY DEF GoingTurns
  <2> QED BY <1>0, <2>1, GoingBelow DEF Agent
<1>3. x \in Event /\ Told(evs \o <<x>>, s.turnId, less) /\ evs \in Seq(Event)
  <2>1. (IF reason = "blocked" THEN "completed" ELSE reason) \in Reasons
    BY DEF Reasons
  <2>2. n \in Turn /\ n <= s.turnId
    BY <1>2
  <2>3. x \in Event
    BY <2>1, <2>2, EventFields DEF EndOf
  <2>4. Told(evs \o <<x>>, s.turnId, less)
    BY <1>0, <1>2, <2>1, <2>2, TellEnd DEF EndOf
  <2> QED BY <1>0, <2>3, <2>4 DEF Told
<1>4. r <= n /\ n <= s.turnId /\ s.run[r].phase # "none" /\ RunOK(s, r)
  BY <1>0 DEF Runs, RunOK, Going
<1>5. r \in Int /\ n \in Int /\ s.turnId \in Int /\ r # NoTurn
  BY <1>2, TurnAssumption DEF Turn, NoTurn
<1> HIDE DEF u, n, x, less
<1>6. CASE /\ Over(s, u, r) /\ u.run[r].reason = reason
           /\ step = [agent |-> u, emits |-> <<x>> \o <<>>]
  <2>1. RunOK(u, r)
    BY <1>4, <1>5, <1>6 DEF Over, RunOK, Going, n
  <2>2. \A q \in Turn \ {r} : u.activeTurn = q <=> s.activeTurn = q
    BY <1>6, TurnAssumption DEF Over, Turn, NoTurn
  <2>3. /\ u \in Agent /\ u.run[r] \in Run /\ u.run = [s.run EXCEPT ![r] = u.run[r]]
        /\ u.run[r].phase = "done" /\ u.run[r].turn = n /\ u.turnId = s.turnId
    BY <1>6 DEF Over, Replaces, n
  <2>4. ~ Going(u, r) /\ u.run[r].phase # "none"
    BY <2>3 DEF Going
  <2>5. Runs(u) /\ GoingTurns(u) = less
    BY <1>0, <1>4, <2>1, <2>2, <2>3, <2>4, OneRun DEF n, less
  <2>6. Once(u) /\ HeardBy(u) = HeardBy(s) /\ Stays(s, u)
    BY <1>6, ReplacedStays DEF Over
  <2>7. evs \o (<<x>> \o <<>>) = evs \o <<x>> /\ <<x>> \o <<>> \in Seq(Event)
    BY <1>3, Emitted, RowIsSeq
  <2> QED BY <1>3, <1>6, <2>3, <2>5, <2>6, <2>7 DEF Follows, Good
<1>7. CASE /\ Onward(s, u, r) /\ reason \in {"completed", "blocked"}
           /\ step = [agent |-> u, emits |-> <<x>> \o OnwardEvents(u, r)]
  <2>0. /\ u \in Agent /\ u.run[r] \in Run /\ u.run = [s.run EXCEPT ![r] = u.run[r]]
        /\ u.run[r].turn = u.turnId /\ u.turnId = s.turnId + 1 /\ u.run[r].phase # "none"
        /\ s.turnId + 1 \in Turn /\ s.activeTurn = r /\ u.turnId \in Turn
    BY <1>7 DEF Onward, Replaces
  <2>1. RunOK(u, r)
    BY <1>4, <1>5, <1>7 DEF Onward, RunOK, Going
  <2>2. \A q \in Turn \ {r} : u.activeTurn = q <=> s.activeTurn = q
    BY <1>7, TurnAssumption DEF Onward, Turn, NoTurn
  <2>3. u.run[r].turn > s.turnId
    BY <1>5, <2>0
  <2>4. Runs(u) /\ GoingTurns(u) = less \cup (IF Going(u, r) THEN {u.turnId} ELSE {})
    BY <1>0, <2>0, <2>1, <2>2, <2>3, OneRun DEF n, less
  <2>5. Once(u) /\ HeardBy(u) = HeardBy(s) /\ Stays(s, u)
    BY <1>7, ReplacedStays DEF Onward
  <2> DEFINE m == u.turnId
             y == StartedEvent(m)
             z == EndedEvent(m, "completed")
  <2>6. Told((evs \o <<x>>) \o <<y>>, m, less \cup {m})
    <3>1. less \in SUBSET Turn /\ \A k \in less : k <= s.turnId
      BY <1>2 DEF less
    <3> QED BY <1>2, <1>3, <2>0, <3>1, TellStart
  <2>7. y \in Event /\ z \in Event /\ m \notin less
    <3>1. y \in Event /\ z \in Event
      BY <2>0, EventFields DEF Reasons
    <3>2. ~ (m <= s.turnId)
      BY <1>5, <2>0
    <3> QED BY <1>2, <3>1, <3>2 DEF less
  <2>8. CASE u.run[r].phase = "opening"
    <3>1. GoingTurns(u) = less \cup {m} /\ OnwardEvents(u, r) = <<y>>
      BY <2>4, <2>8 DEF Going, OnwardEvents
    <3>2. evs \o (<<x>> \o <<y>>) = (evs \o <<x>>) \o <<y>> /\ <<x>> \o <<y>> \in Seq(Event)
      BY <1>3, <2>7, Emitted, RowIsSeq
    <3> QED BY <1>7, <2>0, <2>4, <2>5, <2>6, <3>1, <3>2 DEF Follows, Good
  <2>9. CASE u.run[r].phase = "done"
    <3>1. GoingTurns(u) = less /\ OnwardEvents(u, r) = <<y, z>>
      BY <2>4, <2>9 DEF Going, OnwardEvents
    <3>2. /\ evs \o (<<x>> \o <<y, z>>) = ((evs \o <<x>>) \o <<y>>) \o <<z>>
          /\ <<x>> \o <<y, z>> \in Seq(Event)
      BY <1>3, <2>7, Emitted, RowIsSeq
    <3>3. Told(((evs \o <<x>>) \o <<y>>) \o <<z>>, m, (less \cup {m}) \ {m})
      <4>1. "completed" \in Reasons /\ m \in Turn \cup {NoTurn} /\ m <= m /\ m \in less \cup {m}
        BY <1>5, <2>0 DEF Reasons
      <4>2. less \cup {m} \in SUBSET Turn
        BY <1>2, <2>0 DEF less
      <4> HIDE DEF m, y
      <4> QED BY <2>6, <4>1, <4>2, TellEnd
    <3>4. (less \cup {m}) \ {m} = less
      BY <2>7
    <3> QED BY <1>7, <2>0, <2>4, <2>5, <3>1, <3>2, <3>3, <3>4 DEF Follows, Good
  <2> QED BY <1>7, <2>8, <2>9 DEF Onward
<1> QED BY <1>1, <1>6, <1>7

-----------------------------------------------------------------------------
(* The actions.                                                            *)

\* The agent does what follows on the events evs, and hears X.
Doing(evs, X) == \E step : Follows(a, evs, step, X) /\ Does(step)

\* One step after another.
LEMMA FollowsOn ==
  ASSUME NEW s, NEW evs, NEW u, NEW step, NEW X, HeardBy(u) = HeardBy(s), Stays(s, u),
         Follows(u, evs, step, X)
  PROVE  Follows(s, evs, step, X)
BY DEF Follows, Stays

\* Nothing happens to the runs and nothing is lost.
LEMMA CalmStep ==
  ASSUME NEW s, NEW evs, Good(s, evs), NEW u \in Agent, u.run = s.run, u.turnId = s.turnId,
         u.activeTurn = s.activeTurn, Once(u), NEW X, HeardBy(u) = HeardBy(s) \cup X
  PROVE  Follows(s, evs, Quietly(u), X)
<1>1. Runs(u) /\ GoingTurns(u) = GoingTurns(s) /\ Stays(s, u)
  BY SameRuns DEF Good, Going, Stays
<1> QED BY <1>1, QuietStep

\* A run that was not cancelled goes to another wait of its turn.
LEMMA PhaseStep ==
  ASSUME NEW s, NEW evs, Good(s, evs), NEW r \in Turn, Going(s, r), ~ s.run[r].aborted,
         NEW u \in Agent, NEW e \in Run, u.run = [s.run EXCEPT ![r] = e], Going(u, r),
         e.turn = s.run[r].turn, e.aborted = s.run[r].aborted,
         u.turnId = s.turnId, u.activeTurn = s.activeTurn, Once(u), HeardBy(u) = HeardBy(s)
  PROVE  Follows(s, evs, Quietly(u), {})
<1>0. s \in Agent /\ Runs(s)
  BY DEF Good
<1>1. u.run[r] = e /\ \A q \in Turn \ {r} : u.run[q] = s.run[q]
  BY <1>0 DEF Agent
<1>2. Runs(u) /\ GoingTurns(u) = GoingTurns(s)
  <2>1. \A q \in Turn :
          /\ Going(u, q) <=> Going(s, q)
          /\ u.run[q].phase = "none" <=> s.run[q].phase = "none"
          /\ u.run[q].turn = s.run[q].turn /\ u.run[q].aborted = s.run[q].aborted
    BY <1>1 DEF Going
  <2> QED BY <1>0, <2>1, SameRuns
<1>3. Stays(s, u)
  BY <1>1 DEF Stays, Going
<1> QED BY <1>2, <1>3, QuietStep

\* abortTurn.
LEMMA AbortStep ==
  ASSUME NEW s, NEW evs, Good(s, evs)
  PROVE  Follows(s, evs, Quietly(AbortTurn(s)), {})
<1>0. s \in Agent /\ Runs(s) /\ Once(s) /\ s.activeTurn \in Turn \cup {NoTurn}
  BY DEF Good, Agent
<1>1. CASE s.activeTurn = NoTurn
  <2>1. AbortTurn(s) = s
    BY <1>1 DEF AbortTurn
  <2> QED BY <1>0, <2>1, CalmStep
<1>2. CASE s.activeTurn # NoTurn
  <2> DEFINE r == s.activeTurn
             c == [s EXCEPT !.compacting = FALSE]
             w == IF r \in Blocked(s) /\ s.compacting THEN Flushed(c) ELSE s
             u == [w EXCEPT !.run[r].aborted = TRUE, !.activeTurn = NoTurn]
             e == [s.run[r] EXCEPT !.aborted = TRUE]
  <2>1. AbortTurn(s) = u /\ r \in Turn
    BY <1>0, <1>2 DEF AbortTurn
  <2>2. /\ c \in Agent /\ c.run = s.run /\ c.turnId = s.turnId /\ c.activeTurn = s.activeTurn
        /\ c.context = s.context /\ c.steerBuffer = s.steerBuffer /\ c.refused = s.refused
    BY <1>0 DEF Agent
  <2>3. Once(c) /\ HeardBy(c) = HeardBy(s)
    BY <1>0, <2>2, SameTexts
  <2>4. /\ w \in Agent /\ w.run = s.run /\ w.turnId = s.turnId
        /\ w.activeTurn = s.activeTurn /\ Once(w) /\ HeardBy(w) = HeardBy(s)
    <3> HIDE DEF c
    <3> QED BY <1>0, <2>2, <2>3, FlushedTexts
  <2> HIDE DEF w
  <2>5. /\ e \in Run /\ e.aborted /\ e.turn = s.run[r].turn /\ e.phase = s.run[r].phase
    <3>1. s.run[r] \in Run
      BY <1>0, <2>1 DEF Agent
    <3> QED BY <3>1 DEF Run
  <2>6. u.run = [s.run EXCEPT ![r] = e] /\ [s.run EXCEPT ![r] = e] \in [Turn -> Run]
    <3>1. u.run = [s.run EXCEPT ![r] = e]
      BY <2>4 DEF Agent
    <3> QED BY <1>0, <2>5, <3>1 DEF Agent
  <2>7. /\ u.turnId = w.turnId /\ u.activeTurn = NoTurn /\ u.context = w.context
        /\ u.steerBuffer = w.steerBuffer /\ u.refused = w.refused
    BY <2>4 DEF Agent
  <2>8. u \in Agent
    BY <2>4, <2>6, <2>7 DEF Agent
  <2>9. u.run[r] = e /\ \A q \in Turn \ {r} : u.run[q] = s.run[q]
    BY <1>0, <2>1, <2>6 DEF Agent
  <2> HIDE DEF u, e
  <2>10. Once(u) /\ HeardBy(u) = HeardBy(s)
    BY <2>4, <2>7, SameTexts
  <2>11. RunOK(s, r) /\ Going(s, r) /\ ~ s.run[r].aborted /\ s.run[r].phase # "none"
    BY <1>0, <2>1 DEF Runs, RunOK, Going
  <2>12. Runs(u) /\ GoingTurns(u) = GoingTurns(s)
    <3>1. Going(u, r) /\ e.phase # "none"
      BY <2>5, <2>9, <2>11 DEF Going
    <3>2. RunOK(u, r)
      BY <1>2, <2>4, <2>5, <2>7, <2>9, <2>11 DEF RunOK
    <3>3. \A q \in Turn \ {r} : u.activeTurn = q <=> s.activeTurn = q
      BY <1>2, <2>7, TurnAssumption DEF Turn, NoTurn
    <3>4. /\ Runs(u)
          /\ GoingTurns(u) = (GoingTurns(s) \ {s.run[r].turn}) \cup {s.run[r].turn}
      BY <1>0, <2>1, <2>4, <2>5, <2>6, <2>7, <2>8, <2>11, <3>1, <3>2, <3>3, OneRun
    <3>5. s.run[r].turn \in GoingTurns(s)
      BY <2>1, <2>11 DEF GoingTurns
    <3> QED BY <3>4, <3>5
  <2>13. Stays(s, u)
    BY <2>5, <2>9, <2>11 DEF Stays, Going
  <2> QED BY <2>1, <2>4, <2>7, <2>8, <2>10, <2>12, <2>13, QuietStep
<1> QED BY <1>1, <1>2

\* onCompactionFinished: the buffer goes into the context of the active turn, or its head
\* starts one.
LEMMA CompactionFinishedStep ==
  ASSUME NEW s, NEW evs, Good(s, evs),
         s.steerBuffer # <<>> /\ s.activeTurn = NoTurn => CanAllocate(s),
         NEW step \in CompactionFinished(s)
  PROVE  Follows(s, evs, step, {})
<1>0. s \in Agent /\ Runs(s) /\ Once(s)
  BY DEF Good
<1>1. CASE s.steerBuffer = <<>>
  BY <1>0, <1>1, CalmStep DEF CompactionFinished
<1>2. CASE s.steerBuffer # <<>> /\ s.activeTurn # NoTurn
  BY <1>0, <1>2, CalmStep, FlushedTexts DEF CompactionFinished
<1>3. CASE s.steerBuffer # <<>> /\ s.activeTurn = NoTurn
  <2> DEFINE v == [s EXCEPT !.steerBuffer = Tail(@)]
             x == Head(s.steerBuffer)
  <2>1. /\ x \in Input /\ Tail(s.steerBuffer) \in Seq(Input)
        /\ ToSet(s.steerBuffer) = {x} \cup ToSet(Tail(s.steerBuffer))
        /\ Distinct(Tail(s.steerBuffer)) /\ x \notin ToSet(Tail(s.steerBuffer))
    <3>1. s.steerBuffer \in Seq(Input) /\ Distinct(s.steerBuffer)
      BY <1>0 DEF Agent, Once
    <3> QED BY <1>3, <3>1, TailSet
  <2>2. /\ v \in Agent /\ v.run = s.run /\ v.turnId = s.turnId /\ v.activeTurn = s.activeTurn
        /\ v.context = s.context /\ v.steerBuffer = Tail(s.steerBuffer)
        /\ v.refused = s.refused
    BY <1>0, <2>1 DEF Agent
  <2>3. step \in Launch(v, x) /\ CanAllocate(s)
    BY <1>3 DEF CompactionFinished
  <2> HIDE DEF v, x
  <2>4. Once(v) /\ x \notin HeardBy(v) /\ HeardBy(s) = HeardBy(v) \cup {x}
    BY <1>0, <2>1, <2>2 DEF Once, HeardBy, Apart
  <2>5. Runs(v) /\ GoingTurns(v) = GoingTurns(s) /\ Stays(s, v)
    BY <1>0, <2>2, SameRuns DEF Going, Stays
  <2>6. Good(v, evs) /\ CanAllocate(v)
    BY <2>2, <2>3, <2>4, <2>5 DEF Good, CanAllocate
  <2>7. Follows(v, evs, step, {x})
    BY <2>1, <2>3, <2>4, <2>6, LaunchStep
  <2> QED BY <2>2, <2>4, <2>7 DEF Follows, Stays
<1> QED BY <1>1, <1>2, <1>3

\* Runs that wait for the compaction go on, unless they were cancelled.
LEMMA UnblockedStep ==
  ASSUME NEW s, NEW evs, Good(s, evs), NEW c, c = [s EXCEPT !.compacting = FALSE],
         NEW u \in {c, Unblocked(c)}
  PROVE  /\ Good(u, evs) /\ HeardBy(u) = HeardBy(s) /\ Stays(s, u)
         /\ u.steerBuffer = s.steerBuffer /\ u.activeTurn = s.activeTurn
         /\ u.turnId = s.turnId
<1>0. s \in Agent /\ Runs(s) /\ Once(s) /\ Told(evs, s.turnId, GoingTurns(s))
  BY DEF Good
<1>1. /\ c \in Agent /\ c.run = s.run /\ c.turnId = s.turnId /\ c.activeTurn = s.activeTurn
      /\ c.context = s.context /\ c.steerBuffer = s.steerBuffer /\ c.refused = s.refused
  BY <1>0 DEF Agent
<1> DEFINE freed == [r \in Turn |-> IF r \in Blocked(c) /\ ~ c.run[r].aborted
                                    THEN [c.run[r] EXCEPT !.phase = "preparing"] ELSE c.run[r]]
<1>2. \A r \in Turn :
        /\ freed[r] \in Run /\ freed[r].turn = s.run[r].turn
        /\ freed[r].aborted = s.run[r].aborted
        /\ \/ freed[r].phase = s.run[r].phase
           \/ /\ freed[r].phase = "preparing" /\ s.run[r].phase = "blocked"
              /\ ~ s.run[r].aborted
  <2> SUFFICES ASSUME NEW r \in Turn
               PROVE  /\ freed[r] \in Run /\ freed[r].turn = s.run[r].turn
                      /\ freed[r].aborted = s.run[r].aborted
                      /\ \/ freed[r].phase = s.run[r].phase
                         \/ /\ freed[r].phase = "preparing" /\ s.run[r].phase = "blocked"
                            /\ ~ s.run[r].aborted
    OBVIOUS
  <2>1. c.run[r] = s.run[r] /\ s.run[r] \in Run
    BY <1>0, <1>1 DEF Agent
  <2>2. CASE r \in Blocked(c) /\ ~ c.run[r].aborted
    <3>1. freed[r] = [s.run[r] EXCEPT !.phase = "preparing"] /\ s.run[r].phase = "blocked"
      BY <2>1, <2>2 DEF Blocked
    <3> QED BY <2>1, <2>2, <3>1 DEF Run
  <2>3. CASE ~ (r \in Blocked(c) /\ ~ c.run[r].aborted)
    BY <2>1, <2>3
  <2> QED BY <2>2, <2>3
<1>3. freed \in [Turn -> Run]
  BY <1>2
<1>4. /\ u \in Agent /\ u.turnId = s.turnId /\ u.activeTurn = s.activeTurn
      /\ u.context = s.context /\ u.steerBuffer = s.steerBuffer /\ u.refused = s.refused
      /\ u.run \in {s.run, freed}
  <2>1. CASE u = c
    BY <1>1, <2>1
  <2>2. CASE u = [c EXCEPT !.run = freed]
    <3> HIDE DEF freed
    <3> QED BY <1>1, <1>3, <2>2 DEF Agent
  <2> QED BY <2>1, <2>2 DEF Unblocked
<1> HIDE DEF freed
<1>5. Runs(u) /\ GoingTurns(u) = GoingTurns(s)
  BY <1>0, <1>2, <1>4, SameRuns DEF Going
<1>6. Once(u) /\ HeardBy(u) = HeardBy(s)
  BY <1>0, <1>4, SameTexts
<1>7. Stays(s, u)
  BY <1>2, <1>4 DEF Stays
<1> QED BY <1>0, <1>4, <1>5, <1>6, <1>7 DEF Good

\* A step of runTurn begins.
LEMMA BeginStepStep ==
  ASSUME NEW s, NEW evs, Good(s, evs), NEW r \in Turn, Going(s, r), ~ s.run[r].aborted,
         NEW compact \in BOOLEAN, NEW phase \in {"preparing", "blocked"}, NEW u,
         u = [Flushed(s) EXCEPT !.compacting = @ \/ compact, !.run[r].phase = phase]
  PROVE  Follows(s, evs, Quietly(u), {})
<1> DEFINE w == Flushed(s)
           e == [s.run[r] EXCEPT !.phase = phase]
<1>0. s \in Agent /\ Once(s) /\ s.run[r] \in Run
  BY DEF Good, Agent
<1>1. /\ w \in Agent /\ Once(w) /\ HeardBy(w) = HeardBy(s) /\ w.run = s.run
      /\ w.turnId = s.turnId /\ w.activeTurn = s.activeTurn /\ w.compacting = s.compacting
  BY <1>0, FlushedTexts
<1> HIDE DEF w
<1>2. /\ e \in Run /\ e.phase = phase /\ e.turn = s.run[r].turn /\ e.aborted = s.run[r].aborted
  BY <1>0 DEF Run
<1>3. u.run = [s.run EXCEPT ![r] = e]
  BY <1>1 DEF Agent, w
<1>4. /\ u.turnId = w.turnId /\ u.activeTurn = w.activeTurn /\ u.context = w.context
      /\ u.steerBuffer = w.steerBuffer /\ u.refused = w.refused
  BY <1>1 DEF Agent, w
<1>5. [s.run EXCEPT ![r] = e] \in [Turn -> Run]
  BY <1>0, <1>2 DEF Agent
<1>6. u \in Agent
  <2>1. u = [w EXCEPT !.compacting = @ \/ compact, !.run[r].phase = phase]
    BY DEF w
  <2> QED BY <1>1, <1>3, <1>4, <1>5, <2>1 DEF Agent
<1>7. Once(u) /\ HeardBy(u) = HeardBy(s)
  <2>1. Once(u) /\ HeardBy(u) = HeardBy(w)
    BY <1>1, <1>4 DEF Once, HeardBy
  <2> QED BY <1>1, <2>1
<1>8. Going(u, r)
  <2>1. u.run[r].phase = phase
    BY <1>0, <1>2, <1>3 DEF Agent
  <2> QED BY <2>1 DEF Going
<1> HIDE DEF e
<1> QED BY <1>0, <1>1, <1>2, <1>3, <1>4, <1>6, <1>7, <1>8, PhaseStep

\* The worker of a run.
LEMMA WorkerStep ==
  ASSUME NEW evs, Good(a, evs), NEW r \in Turn, Worker(r)
  PROVE  Doing(evs, {})
<1>0. a \in Agent /\ Once(a) /\ a.run[r] \in Run
  BY DEF Good, Agent
<1>1. ASSUME NEW reason \in Reasons \cup {"blocked"}, Going(a, r),
             reason \in {"completed", "blocked"} => ~ a.run[r].aborted,
             Ends(a, r, reason)
      PROVE  Doing(evs, {})
  BY <1>1, EndTurnStep DEF Ends, Doing
<1>2. ASSUME NEW s, Good(s, evs), Going(s, r), ~ s.run[r].aborted, BeginStep(s, r),
             HeardBy(s) = HeardBy(a), Stays(a, s)
      PROVE  Doing(evs, {})
  <2>1. PICK compact \in BOOLEAN, phase \in {"preparing", "blocked"} :
          Does(Quietly([Flushed(s) EXCEPT !.compacting = @ \/ compact,
                                          !.run[r].phase = phase]))
    BY <1>2 DEF BeginStep
  <2> DEFINE u == [Flushed(s) EXCEPT !.compacting = @ \/ compact, !.run[r].phase = phase]
  <2>2. Follows(s, evs, Quietly(u), {})
    BY <1>2, BeginStepStep
  <2> HIDE DEF u
  <2>3. Follows(a, evs, Quietly(u), {})
    BY <1>2, <2>2, FollowsOn
  <2> QED BY <2>1, <2>3 DEF u, Doing
<1>3. ASSUME NEW phase \in {"blocked", "step", "stopping"}, NEW compacting \in BOOLEAN,
             Going(a, r), ~ a.run[r].aborted, NEW u,
             u = [a EXCEPT !.compacting = compacting, !.run[r].phase = phase],
             Does(Quietly(u))
      PROVE  Doing(evs, {})
  <2> DEFINE e == [a.run[r] EXCEPT !.phase = phase]
  <2>1. /\ e \in Run /\ e.turn = a.run[r].turn /\ e.aborted = a.run[r].aborted
        /\ e.phase = phase
    BY <1>0 DEF Run
  <2>2. /\ u.run = [a.run EXCEPT ![r] = e] /\ [a.run EXCEPT ![r] = e] \in [Turn -> Run]
    <3>1. u.run = [a.run EXCEPT ![r] = e]
      BY <1>0, <1>3 DEF Agent
    <3> QED BY <1>0, <2>1, <3>1 DEF Agent
  <2>3. /\ u.turnId = a.turnId /\ u.activeTurn = a.activeTurn /\ u.context = a.context
        /\ u.steerBuffer = a.steerBuffer /\ u.refused = a.refused
    BY <1>0, <1>3 DEF Agent
  <2>4. u \in Agent
    BY <1>0, <1>3, <2>2, <2>3 DEF Agent
  <2>5. Going(u, r)
    BY <1>0, <2>1, <2>2 DEF Going, Agent
  <2>6. Once(u) /\ HeardBy(u) = HeardBy(a)
    BY <1>0, <2>3, SameTexts
  <2> HIDE DEF e
  <2>7. Follows(a, evs, Quietly(u), {})
    BY <1>0, <1>3, <2>1, <2>2, <2>3, <2>4, <2>5, <2>6, PhaseStep
  <2> QED BY <1>3, <2>7 DEF Doing
<1>4. CASE UnwindsAborted(r)
  BY <1>1, <1>4 DEF UnwindsAborted, Working, Blocked, Going, Reasons
<1>5. CASE Fails(r)
  BY <1>1, <1>5 DEF Fails, Working, Going, Reasons
<1>6. CASE PromptBlocked(r)
  BY <1>1, <1>6 DEF PromptBlocked, Going
<1>7. CASE NextStep(r)
  BY <1>0, <1>2, <1>7 DEF NextStep, Going, Stays
<1>8. CASE Overflows(r)
  BY <1>3, <1>8 DEF Overflows, Going
<1>9. CASE Requests(r)
  <2>1. [a EXCEPT !.compacting = a.compacting, !.run[r].phase = "step"]
          = [a EXCEPT !.run[r].phase = "step"]
    BY <1>0 DEF Agent
  <2> QED BY <1>0, <1>3, <1>9, <2>1 DEF Requests, Going, Agent
<1>10. CASE GoalTool(r)
  <2> DEFINE u == [a EXCEPT !.goal = ~ @]
  <2>1. /\ u \in Agent /\ u.run = a.run /\ u.turnId = a.turnId /\ u.activeTurn = a.activeTurn
        /\ u.context = a.context /\ u.steerBuffer = a.steerBuffer /\ u.refused = a.refused
    BY <1>0 DEF Agent
  <2> HIDE DEF u
  <2>2. Once(u) /\ HeardBy(u) = HeardBy(a)
    BY <1>0, <2>1, SameTexts
  <2>3. Does(Quietly(u))
    BY <1>10 DEF GoalTool, SetGoal, u
  <2>4. Follows(a, evs, Quietly(u), {})
    BY <2>1, <2>2, CalmStep
  <2> QED BY <2>3, <2>4 DEF Doing
<1>11. CASE Stops(r)
  <2>1. Going(a, r) /\ ~ a.run[r].aborted
    BY <1>11 DEF Stops, Going
  <2>2. CASE Does(Quietly([a EXCEPT !.run[r].phase = "stopping"]))
    <3>1. [a EXCEPT !.compacting = a.compacting, !.run[r].phase = "stopping"]
            = [a EXCEPT !.run[r].phase = "stopping"]
      BY <1>0 DEF Agent
    <3> QED BY <1>0, <1>3, <2>1, <2>2, <3>1 DEF Agent
  <2>3. CASE \E reason \in {"completed", "filtered"} : Ends(a, r, reason)
    BY <1>1, <2>1, <2>3 DEF Reasons
  <2> QED BY <1>11, <2>2, <2>3 DEF Stops
<1>12. CASE StopHookAnswers(r)
  <2>1. Going(a, r) /\ ~ a.run[r].aborted
    BY <1>12 DEF StopHookAnswers, Going
  <2>2. CASE BeginStep([a EXCEPT !.run[r].hooked = TRUE], r)
    <3> DEFINE s == [a EXCEPT !.run[r].hooked = TRUE]
               e == [a.run[r] EXCEPT !.hooked = TRUE]
    <3>1. /\ e \in Run /\ e.turn = a.run[r].turn /\ e.aborted = a.run[r].aborted
          /\ e.phase = a.run[r].phase
      BY <1>0 DEF Run
    <3>2. /\ s.run = [a.run EXCEPT ![r] = e] /\ [a.run EXCEPT ![r] = e] \in [Turn -> Run]
      <4>1. s.run = [a.run EXCEPT ![r] = e]
        BY <1>0 DEF Agent
      <4> QED BY <1>0, <3>1, <4>1 DEF Agent
    <3>3. /\ s.turnId = a.turnId /\ s.activeTurn = a.activeTurn /\ s.context = a.context
          /\ s.steerBuffer = a.steerBuffer /\ s.refused = a.refused
      BY <1>0 DEF Agent
    <3>4. s \in Agent
      BY <1>0, <3>2, <3>3 DEF Agent
    <3>5. Going(s, r) /\ ~ s.run[r].aborted
      BY <1>0, <2>1, <3>1, <3>2 DEF Going, Agent
    <3> HIDE DEF s, e
    <3>6. Once(s) /\ HeardBy(s) = HeardBy(a)
      BY <1>0, <3>3, SameTexts
    <3>7. Follows(a, evs, Quietly(s), {})
      BY <1>0, <2>1, <3>1, <3>2, <3>3, <3>4, <3>5, <3>6, PhaseStep
    <3>8. Good(s, evs) /\ HeardBy(s) = HeardBy(a) /\ Stays(a, s)
      <4>1. evs \o <<>> = evs
        BY ConcatEmptySeq DEF Good, Told
      <4> QED BY <3>7, <4>1 DEF Follows, Quietly
    <3> QED BY <1>2, <2>2, <3>5, <3>8 DEF s
  <2>3. CASE \E reason \in {"completed", "filtered"} : Ends(a, r, reason)
    BY <1>1, <2>1, <2>3 DEF Reasons
  <2> QED BY <1>12, <2>2, <2>3 DEF StopHookAnswers
<1> QED BY <1>4, <1>5, <1>6, <1>7, <1>8, <1>9, <1>10, <1>11, <1>12 DEF Worker

\* prompt: something is said that was not heard before.
LEMMA PromptStep ==
  ASSUME NEW evs, Good(a, evs), NEW x \in Input \ Heard, Prompt(x)
  PROVE  Doing(evs, {x})
<1>1. x \notin HeardBy(a)
  BY DEF Heard, HeardBy
<1> QED BY <1>1, LaunchStep DEF Prompt, Doing

\* steer.
LEMMA SteerStep ==
  ASSUME NEW evs, Good(a, evs), NEW x \in Input \ Heard, Steer(x)
  PROVE  Doing(evs, {x})
<1>0. a \in Agent /\ Once(a)
  BY DEF Good
<1>1. CASE Does(Quietly(Buffered(a, x)))
  <2> DEFINE u == Buffered(a, x)
  <2>1. Append(a.steerBuffer, x) \in Seq(Input)
    BY <1>0, AppendProperties DEF Agent
  <2>2. /\ u \in Agent /\ u.run = a.run /\ u.turnId = a.turnId
        /\ u.activeTurn = a.activeTurn /\ u.context = a.context
        /\ u.steerBuffer = Append(a.steerBuffer, x) /\ u.refused = a.refused
    BY <1>0, <2>1 DEF Agent, Buffered
  <2> HIDE DEF u
  <2>3. x \notin HeardBy(a)
    BY DEF Heard, HeardBy
  <2>4. Once(u) /\ HeardBy(u) = HeardBy(a) \cup {x}
    BY <1>0, <2>2, <2>3, NewText
  <2>5. Follows(a, evs, Quietly(u), {x})
    BY <2>2, <2>4, CalmStep
  <2> QED BY <1>1, <2>5 DEF u, Doing
<1>2. CASE Prompt(x)
  BY <1>2, PromptStep
<1> QED BY <1>1, <1>2 DEF Steer

\* cancel.
LEMMA CancelStep ==
  ASSUME NEW evs, Good(a, evs), NEW n, Cancel(n)
  PROVE  Doing(evs, {})
<1>0. a \in Agent /\ Once(a)
  BY DEF Good
<1>1. CASE Does(Quietly(AbortTurn(a)))
  BY <1>1, AbortStep DEF Doing
<1>2. CASE Does(Quietly(a))
  <2>1. Follows(a, evs, Quietly(a), {})
    BY <1>0, CalmStep
  <2> QED BY <1>2, <2>1 DEF Doing
<1> QED BY <1>1, <1>2 DEF Cancel

\* The goal is set, or a compaction begins.
LEMMA FlagStep ==
  ASSUME NEW evs, Good(a, evs), SetGoal \/ CompactByHand
  PROVE  Doing(evs, {})
<1>0. a \in Agent /\ Once(a)
  BY DEF Good
<1>1. PICK u \in {[a EXCEPT !.goal = ~ @], [a EXCEPT !.compacting = TRUE]} : Does(Quietly(u))
  BY DEF SetGoal, CompactByHand
<1>2. /\ u \in Agent /\ u.run = a.run /\ u.turnId = a.turnId /\ u.activeTurn = a.activeTurn
      /\ u.context = a.context /\ u.steerBuffer = a.steerBuffer /\ u.refused = a.refused
  BY <1>0 DEF Agent
<1>3. Once(u) /\ HeardBy(u) = HeardBy(a)
  BY <1>0, <1>2, SameTexts
<1>4. Follows(a, evs, Quietly(u), {})
  BY <1>2, <1>3, CalmStep
<1> QED BY <1>1, <1>4 DEF Doing

\* The compaction ends.
LEMMA CompactionStep ==
  ASSUME NEW evs, Good(a, evs), CompactionEnds
  PROVE  Doing(evs, {})
<1> DEFINE c == [a EXCEPT !.compacting = FALSE]
<1>1. PICK u \in {c, Unblocked(c)} : \E step \in CompactionFinished(u) : Does(step)
  BY DEF CompactionEnds
<1>2. PICK step \in CompactionFinished(u) : Does(step)
  BY <1>1
<1>3. /\ Good(u, evs) /\ HeardBy(u) = HeardBy(a) /\ Stays(a, u)
      /\ u.steerBuffer = a.steerBuffer /\ u.activeTurn = a.activeTurn /\ u.turnId = a.turnId
  BY UnblockedStep
<1>4. u.steerBuffer # <<>> /\ u.activeTurn = NoTurn => CanAllocate(u)
  BY <1>3 DEF CompactionEnds, CanAllocate
<1>5. Follows(u, evs, step, {})
  BY <1>3, <1>4, CompactionFinishedStep
<1>6. Follows(a, evs, step, {})
  BY <1>3, <1>5, FollowsOn
<1> QED BY <1>2, <1>6 DEF Doing

\* What the agent does on its own.
LEMMA AloneStep ==
  ASSUME NEW evs, Good(a, evs), AgentStep
  PROVE  Doing(evs, {})
BY FlagStep, CompactionStep, WorkerStep DEF AgentStep

-----------------------------------------------------------------------------
(* The agent on its own: nobody takes its events.                          *)

\* What every step preserves.
After == IInv' /\ HeardBy(a) \subseteq HeardBy(a') /\ Stays(a, a')

\* What the agent does preserves it.
LEMMA DoesStep ==
  ASSUME NEW X, Doing(events, X)
  PROVE  After
BY DEF Doing, Follows, Does, After, IInv

\* No action breaks the invariant, forgets an input or lets a cancelled run go on.
LEMMA Step == IInv /\ [Next]_turnVars => After
<1> SUFFICES ASSUME IInv, [Next]_turnVars PROVE After
  OBVIOUS
<1>0. Good(a, events)
  BY DEF IInv
<1>1. CASE UNCHANGED turnVars
  <2>1. a' = a /\ events' = events
    BY <1>1 DEF turnVars
  <2>2. Good(a', events') /\ HeardBy(a') = HeardBy(a) /\ Stays(a, a')
    BY <1>0, <2>1 DEF Stays
  <2> QED BY <2>2 DEF After, IInv
<1>2. CASE Calls
  BY <1>0, <1>2, PromptStep, SteerStep, CancelStep, FlagStep, DoesStep DEF Calls
<1>3. CASE AgentStep
  BY <1>0, <1>3, AloneStep, DoesStep
<1> QED BY <1>1, <1>2, <1>3 DEF Next

\* A new agent has said nothing and heard nothing.
LEMMA InitIInv == InitTurns => IInv
<1> SUFFICES ASSUME InitTurns PROVE IInv
  OBVIOUS
<1> USE TurnAssumption DEF InitTurns
<1>1. Idle \in Run
  BY DEF Idle, Run, NoTurn, Reasons
<1>2. a \in Agent
  BY <1>1 DEF Agent
<1>3. \A r \in Turn : a.run[r] = Idle /\ ~ Going(a, r) /\ r # NoTurn
  BY DEF Idle, Going, Turn, NoTurn
<1>4. Runs(a)
  BY <1>3 DEF Runs, RunOK, OwnTurns, Idle
<1>5. Once(a)
  BY DEF Once, Distinct, Apart, ToSet
<1>6. GoingTurns(a) = {}
  BY <1>3 DEF GoingTurns
<1>7. Told(<<>>, NoTurn, {})
  BY DEF Told, Turn, NoTurn
<1> QED BY <1>2, <1>4, <1>5, <1>6, <1>7 DEF IInv, Good

\* The inductive invariant.
THEOREM Invariant == Spec => []IInv
<1>1. IInv /\ [Next]_turnVars => IInv'
  BY Step DEF After
<1> QED BY <1>1, InitIInv, PTL DEF Spec

\* Indices that are all the same are one, if there is any.
LEMMA CountOne ==
  ASSUME NEW S, \A i, j \in S : i = j
  PROVE  Cardinality(S) = IF \E i \in S : TRUE THEN 1 ELSE 0
<1>1. CASE S = {}
  BY <1>1, FS_EmptySet
<1>2. CASE S # {}
  <2>1. PICK i \in S : TRUE
    BY <1>2
  <2>2. S = {i}
    BY <2>1
  <2> QED BY <2>1, <2>2, FS_Singleton
<1> QED BY <1>1, <1>2

\* One turn at a time, the active one, announced and ended once.
THEOREM OneAtATime == Spec => []TurnsOK
<1>1. ASSUME IInv PROVE TurnsOK
  <2>0. a \in Agent /\ Runs(a) /\ Told(events, a.turnId, GoingTurns(a))
    BY <1>1 DEF IInv, Good
  <2>1. TypeOK
    BY <2>0 DEF TypeOK, Agent, Told
  <2>2. OneTurnAtATime
    BY <2>0 DEF OneTurnAtATime, Running, Runs, RunOK, Going
  <2>3. CurrentIsActive
    BY <2>0 DEF CurrentIsActive, Runs, RunOK, Agent
  <2>4. TurnsPaired
    <3> SUFFICES ASSUME NEW n \in Turn,
                        NEW started, started = {i \in DOMAIN events : events[i] = StartedEvent(n)},
                        NEW ended, ended = {i \in DOMAIN events : events[i].turn = n} \ started,
                        NEW going, going = \E r \in Turn : a.run[r].turn = n /\ Going(a, r)
                 PROVE  /\ Cardinality(started) = (IF n <= a.turnId THEN 1 ELSE 0)
                        /\ Cardinality(ended) = (IF n <= a.turnId /\ ~ going THEN 1 ELSE 0)
                        /\ \A i \in started, j \in ended : i < j
      BY DEF TurnsPaired, Going
    <3>1. \A i \in DOMAIN events :
            /\ events[i] \in Event /\ events[i].turn <= a.turnId
            /\ i \in started <=> IsStart(events[i], n)
            /\ i \in ended <=> IsEnd(events[i], n)
      <4>1. \A i \in DOMAIN events : events[i] \in Event
        <5> HIDE DEF Event
        <5> QED BY <2>0 DEF Told
      <4> QED BY <2>0, <4>1, EventFields DEF Told, IsStart, IsEnd
    <3>2. started \subseteq DOMAIN events /\ ended \subseteq DOMAIN events
      OBVIOUS
    <3>3. going <=> n \in GoingTurns(a)
      BY DEF GoingTurns
    <3>4. \A i, j \in started : i = j
      BY <2>0, <3>1, <3>2 DEF Told, IsStart
    <3>5. \A i, j \in ended : i = j
      BY <2>0, <3>1, <3>2 DEF Told, IsEnd
    <3>6. (\E i \in started : TRUE) <=> n <= a.turnId
      BY <2>0, <3>1, <3>2 DEF Told, IsStart
    <3>7. (\E i \in ended : TRUE) <=> n <= a.turnId /\ ~ going
      BY <2>0, <3>1, <3>2, <3>3 DEF Told, IsEnd
    <3>8. Cardinality(started) = (IF n <= a.turnId THEN 1 ELSE 0)
      BY <3>4, <3>6, CountOne
    <3>9. Cardinality(ended) = (IF n <= a.turnId /\ ~ going THEN 1 ELSE 0)
      BY <3>5, <3>7, CountOne
    <3>10. \A i \in started, j \in ended : i < j
      BY <2>0, <3>1, <3>2 DEF Told, IsStart, IsEnd
    <3> QED BY <3>8, <3>9, <3>10
  <2> QED BY <2>1, <2>2, <2>3, <2>4 DEF TurnsOK
<1> QED BY <1>1, Invariant, PTL

\* No input is said twice, nor said and refused.
THEOREM NeverRepeated == Spec => []InputsOnce
<1>1. ASSUME IInv PROVE InputsOnce
  <2>0. Once(a) /\ a.context \in Seq(Input) /\ a.steerBuffer \in Seq(Input)
    BY <1>1 DEF IInv, Good, Agent
  <2>1. Distinct(a.context \o a.steerBuffer)
    BY <2>0, ConcatDistinct DEF Once
  <2>2. ToSet(a.context \o a.steerBuffer) = ToSet(a.context) \cup ToSet(a.steerBuffer)
    BY <2>0, ConcatSet
  <2>3. ToSet(a.context \o a.steerBuffer) \cap a.refused = {}
    BY <2>0, <2>2 DEF Once, Apart
  <2> QED BY <2>1, <2>3 DEF InputsOnce, Distinct
<1> QED BY <1>1, Invariant, PTL

\* No input is forgotten.
THEOREM AllKept == Spec => NothingForgotten
<1>1. IInv /\ [Next]_turnVars => Heard \subseteq Heard'
  BY Step DEF After, Heard, HeardBy
<1> QED BY <1>1, Invariant, PTL DEF Spec, NothingForgotten

\* A run that was cancelled goes no further: whatever it was at when the cancel met it,
\* all that it still does is end.
THEOREM CancelHolds == Spec => NoStepAfterCancel
<1>1. IInv /\ [Next]_turnVars =>
        \A r \in Turn : a.run[r].aborted
          => /\ a'.run[r].phase \in {a.run[r].phase, "done"}
             /\ a'.run[r].turn = a.run[r].turn
  BY Step DEF After, Stays
<1> QED BY <1>1, Invariant, PTL DEF Spec, NoStepAfterCancel

==============================================================================
