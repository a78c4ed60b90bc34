------------------------- MODULE EventStream_proofs -------------------------
(***************************************************************************)
(* Proofs about EventStream, for any number of events, crashes, faults and *)
(* connections and any size of the tail: what follows a header is one      *)
(* incarnation, and a client that was brought up to date has no gap.       *)
(***************************************************************************)
EXTENDS EventStream, SequenceTheorems, FiniteSetTheorems, WellFoundedInduction, TLAPS

\* The lines there can be: an event's number is not behind its place among all events.
Line ==
  {l \in [epoch : Nat, seq : Nat, event : Nat] :
     l = Torn \/ (l.epoch >= 1 /\ l.seq <= l.event /\ (l.seq = 0 <=> l.event = 0))}

LogFile == [lines : Seq(Line), tail : Seq(Line)]

Journal ==
  [epoch : Nat, seq : Nat, header : BOOLEAN, pending : Seq(Line), batch : Seq(Line),
   flushing : BOOLEAN]

Reader == [epoch : Nat, base : Nat, held : SUBSET Line, stale : BOOLEAN]

\* The line m may come after the line l in a file.
Follows(l, m) ==
  /\ IsEvent(m) => l.event < m.event /\ (l.epoch = m.epoch => l.seq < m.seq)
  /\ IsHeader(l) /\ m # Torn => l.epoch = m.epoch

Before(S, T) == \A l \in S, m \in T : Follows(l, m)

Chain(s) == \A i, k \in DOMAIN s : i < k => Follows(s[i], s[k])

\* What is in a file and on its way there.
Together(f, b, p) == (File!AllLines(f) \o b) \o p
Stream == Together(file, journal.batch, journal.pending)

Counters ==
  /\ published \in 0 .. N /\ taken \in 0 .. published /\ epochs \in Nat
  /\ crashes \in 0 .. MaxCrashes /\ faults \in 0 .. MaxFaults /\ connects \in 0 .. MaxConnects

Types ==
  /\ file \in LogFile /\ Len(file.tail) <= 1
  /\ session \in {"none", "opening", "open"}
  /\ journal \in Journal /\ journal.seq <= taken
  /\ journal.flushing <=> journal.batch # <<>>
  /\ session # "open" => journal = NoJournal /\ tail = <<>>
  /\ session = "open" => journal.epoch \in 1 .. epochs
  /\ tail \in Seq(Line) /\ given \subseteq Line
  /\ conn \in {"off", "draining", "flushing", "reading", "answering", "unanswered", "live"}
  /\ conn \notin {"off", "draining"} => session = "open"
  /\ client \in Reader /\ client.epoch <= epochs /\ client.base <= taken

\* Every event that was given a number, and every client's, is one of those.
Given ==
  /\ \A l \in given : IsEvent(l) /\ l.epoch <= epochs /\ l.event <= taken
  /\ client.held \subseteq given

\* What is in the file and on its way there is in order; an open journal goes on with the
\* epoch of its headers, and with numbers of its own.
Logged ==
  /\ Chain(Stream)
  /\ \A l \in ToSet(Stream) : l.epoch <= epochs /\ (IsEvent(l) => l \in given)
  /\ session = "open" =>
       \A l \in ToSet(Stream) :
         /\ IsHeader(l) => l.epoch = journal.epoch
         /\ l.epoch = journal.epoch => l.seq <= journal.seq
  /\ \A l \in ToSet(journal.batch) \cup ToSet(journal.pending) : l.epoch = journal.epoch

\* A header that was not written yet comes before the first event.
Unbegun ==
  journal.header =>
    /\ journal.pending = <<>> /\ journal.batch = <<>>
    /\ \A l \in ToSet(File!AllLines(file)) : ~IsHeader(l) /\ l.epoch # journal.epoch

\* The finished lines are of one epoch, and so is the unfinished one.
Whole(e) == \A l \in ToSet(file.lines) : l = Torn \/ l.epoch = e
EndsIn(e) == \A l \in ToSet(file.tail) : l = Torn \/ l.epoch = e

\* The tail in memory has the last numbers; a journal that has more than the tail was
\* opened from a file whose last line is its own.
Recent ==
  /\ Len(tail) <= Buffer
  /\ \A i \in DOMAIN tail :
       /\ tail[i] \in given /\ tail[i].epoch = journal.epoch
       /\ tail[i].seq = (journal.seq - Len(tail)) + i
  /\ session = "open" =>
       EndsIn(journal.epoch) \/ journal.seq = Len(tail) \/ Len(tail) = Buffer
  /\ conn \in {"flushing", "reading"} => EndsIn(journal.epoch)

\* What the client holds is of its epoch, unless it read a file of several.
OneEpoch ==
  /\ client.epoch = NoEpoch => client.held = {}
  /\ Whole(client.epoch) => \A l \in client.held : l.epoch = client.epoch
  /\ conn \notin {"off", "draining"} /\ ~client.stale /\ Whole(journal.epoch)
       => client.epoch \in {NoEpoch, journal.epoch}

\* The client lacks an event of the journal.
Due(l) ==
  IsEvent(l) /\ l.epoch = journal.epoch /\ l.seq > client.base /\ l \notin client.held

\* No number of the epoch was given twice, among the lines of G.
Unique(G, e) == \A l, m \in G : l.epoch = e /\ m.epoch = e /\ l.seq = m.seq => l = m

\* The case in which the client is served.
Served == ~client.stale /\ Whole(journal.epoch) /\ Unique(given, journal.epoch)

\* A client that waits for the disk lacks nothing above a number that one read reaches.
Reached(w) ==
  /\ w - Cursor(client) <= Buffer
  /\ \A l \in ToSet(Stream) : l.seq > w => ~Due(l)

Supplied ==
  Served =>
    /\ conn \in {"answering", "live"} => \A l \in ToSet(Stream) : ~Due(l)
    /\ conn \in {"flushing", "reading"} => \E w \in Nat : Reached(w)
    /\ conn = "reading" =>
         \A l \in ToSet(journal.batch) \cup ToSet(journal.pending) : ~Due(l)

\* The inductive invariant.
IInv == Counters /\ Types /\ Given /\ Logged /\ Unbegun /\ Recent /\ OneEpoch /\ Supplied

---------------------------------------------------------------------------
(* Lines and sequences of lines.                                           *)

\* The lines are what the code writes, or do not parse.
LEMMA Shapes ==
  /\ Torn \in Line /\ ~IsEvent(Torn) /\ ~IsHeader(Torn)
  /\ Torn.epoch = 0 /\ Torn.seq = 0 /\ Torn.event = 0
  /\ \A l \in Line :
       /\ l.epoch \in Nat /\ l.seq \in Nat /\ l.event \in Nat /\ l.seq <= l.event
       /\ IsEvent(l) => l.epoch >= 1 /\ l.seq >= 1
       /\ IsEvent(l) <=> l.event # 0
       /\ ~IsEvent(l) => l.seq = 0
       /\ l # Torn => l.epoch >= 1
       /\ l # Torn <=> IsEvent(l) \/ IsHeader(l)
       /\ ~(IsEvent(l) /\ IsHeader(l))
BY DEF Line, Torn, EventLine, NoEpoch, IsEvent, IsHeader

\* The lines that a journal writes.
LEMMA Made ==
  ASSUME NEW e \in Nat \ {0}, NEW n \in Nat \ {0}, NEW k \in Nat, n <= k
  PROVE  /\ EventLine(e, n, k) \in Line /\ IsEvent(EventLine(e, n, k)) /\ ~IsHeader(EventLine(e, n, k))
         /\ EventLine(e, n, k).epoch = e /\ EventLine(e, n, k).seq = n /\ EventLine(e, n, k).event = k
<1>1. EventLine(e, n, k) \in [epoch : Nat, seq : Nat, event : Nat] /\ k # 0
  BY DEF EventLine
<1> QED
  BY <1>1 DEF Line, EventLine, IsEvent, IsHeader, NoEpoch

\* The header that a journal begins with.
LEMMA MadeHeader ==
  ASSUME NEW e \in Nat \ {0}
  PROVE  /\ HeaderLine(e) \in Line /\ IsHeader(HeaderLine(e)) /\ ~IsEvent(HeaderLine(e))
         /\ HeaderLine(e).epoch = e /\ HeaderLine(e).seq = 0 /\ HeaderLine(e).event = 0
<1>1. HeaderLine(e) \in [epoch : Nat, seq : Nat, event : Nat]
  BY DEF HeaderLine, EventLine
<1> QED
  BY <1>1 DEF Line, HeaderLine, EventLine, IsEvent, IsHeader, NoEpoch

\* A line that does not parse may stand anywhere.
LEMMA TornAnywhere == \A l \in Line : Follows(l, Torn) /\ Follows(Torn, l)
BY Shapes DEF Follows

\* The lines of a sequence are lines.
LEMMA Members ==
  ASSUME NEW s \in Seq(Line)
  PROVE  /\ ToSet(s) \subseteq Line
         /\ Len(s) \in Nat /\ DOMAIN s = 1 .. Len(s)
         /\ \A i \in DOMAIN s : s[i] \in Line /\ s[i] \in ToSet(s)
         /\ s = <<>> <=> ToSet(s) = {}
<1>1. Len(s) \in Nat /\ DOMAIN s = 1 .. Len(s) /\ \A i \in DOMAIN s : s[i] \in Line
  BY LenProperties
<1>2. s # <<>> => 1 \in DOMAIN s
  BY <1>1, EmptySeq
<1>3. s = <<>> => DOMAIN s = {}
  BY <1>1
<1> QED
  BY <1>1, <1>2, <1>3 DEF ToSet

\* The empty sequence and those of one line.
LEMMA Short ==
  /\ <<>> \in Seq(Line) /\ ToSet(<<>>) = {} /\ Chain(<<>>)
  /\ \A x \in Line : <<x>> \in Seq(Line) /\ Len(<<x>>) = 1 /\ ToSet(<<x>>) = {x} /\ Chain(<<x>>)
BY DEF ToSet, Chain

\* The lines of a concatenation, and when it is in order.
LEMMA Joined ==
  ASSUME NEW a \in Seq(Line), NEW b \in Seq(Line)
  PROVE  /\ a \o b \in Seq(Line)
         /\ ToSet(a \o b) = ToSet(a) \cup ToSet(b)
         /\ Chain(a \o b) <=> Chain(a) /\ Chain(b) /\ Before(ToSet(a), ToSet(b))
<1> DEFINE c == a \o b
<1>1. /\ c \in Seq(Line) /\ Len(c) = Len(a) + Len(b) /\ Len(a) \in Nat /\ Len(b) \in Nat
      /\ \A i \in 1 .. Len(a) + Len(b) : c[i] = IF i <= Len(a) THEN a[i] ELSE b[i - Len(a)]
      /\ DOMAIN a = 1 .. Len(a) /\ DOMAIN b = 1 .. Len(b) /\ DOMAIN c = 1 .. (Len(a) + Len(b))
  BY ConcatProperties, LenProperties
<1>2. \A i \in DOMAIN a : i \in DOMAIN c /\ c[i] = a[i]
  BY <1>1
<1>3. \A i \in DOMAIN b : Len(a) + i \in DOMAIN c /\ c[Len(a) + i] = b[i]
  BY <1>1
<1>4. \A i \in DOMAIN c : \/ i \in DOMAIN a /\ c[i] = a[i]
                          \/ i - Len(a) \in DOMAIN b /\ c[i] = b[i - Len(a)]
  BY <1>1
<1>5. ToSet(c) = ToSet(a) \cup ToSet(b)
  <2>1. ToSet(c) \subseteq ToSet(a) \cup ToSet(b)
    BY <1>4 DEF ToSet
  <2>2. ToSet(a) \subseteq ToSet(c) /\ ToSet(b) \subseteq ToSet(c)
    BY <1>2, <1>3 DEF ToSet
  <2> QED
    BY <2>1, <2>2
<1>6. ASSUME Chain(c) PROVE Chain(a) /\ Chain(b) /\ Before(ToSet(a), ToSet(b))
  <2>1. Chain(a)
    BY <1>2, <1>6 DEF Chain
  <2>2. Chain(b)
    <3>1. SUFFICES ASSUME NEW i \in DOMAIN b, NEW k \in DOMAIN b, i < k
                   PROVE  Follows(b[i], b[k])
      BY DEF Chain
    <3>2. Len(a) + i < Len(a) + k
      BY <1>1, <3>1
    <3> QED
      BY <1>3, <1>6, <3>2 DEF Chain
  <2>3. Before(ToSet(a), ToSet(b))
    <3>1. SUFFICES ASSUME NEW i \in DOMAIN a, NEW k \in DOMAIN b
                   PROVE  Follows(a[i], b[k])
      BY DEF Before, ToSet
    <3>2. i < Len(a) + k
      BY <1>1, <3>1
    <3> QED
      BY <1>2, <1>3, <1>6, <3>2 DEF Chain
  <2> QED
    BY <2>1, <2>2, <2>3
<1>7. ASSUME Chain(a), Chain(b), Before(ToSet(a), ToSet(b)) PROVE Chain(c)
  <2>1. SUFFICES ASSUME NEW i \in DOMAIN c, NEW k \in DOMAIN c, i < k
                 PROVE  Follows(c[i], c[k])
    BY DEF Chain
  <2>2. CASE k <= Len(a)
    BY <1>1, <1>7, <2>1, <2>2 DEF Chain
  <2>3. CASE i > Len(a)
    <3>1. /\ i - Len(a) \in DOMAIN b /\ k - Len(a) \in DOMAIN b /\ i - Len(a) < k - Len(a)
          /\ c[i] = b[i - Len(a)] /\ c[k] = b[k - Len(a)]
      BY <1>1, <2>1, <2>3
    <3> QED
      BY <1>7, <3>1 DEF Chain
  <2>4. CASE i <= Len(a) /\ k > Len(a)
    <3>1. i \in DOMAIN a /\ c[i] = a[i] /\ k - Len(a) \in DOMAIN b /\ c[k] = b[k - Len(a)]
      BY <1>1, <2>1, <2>4
    <3> QED
      BY <1>7, <3>1 DEF Before, ToSet
  <2> QED
    BY <1>1, <2>1, <2>2, <2>3, <2>4
<1> QED
  BY <1>1, <1>5, <1>6, <1>7

\* Concatenation is associative.
LEMMA Grouping ==
  ASSUME NEW a \in Seq(Line), NEW b \in Seq(Line), NEW c \in Seq(Line)
  PROVE  (a \o b) \o c = a \o (b \o c)
BY ConcatAssociative

\* Appending a line is concatenating the sequence of that line.
LEMMA Appending ==
  ASSUME NEW s \in Seq(Line), NEW x \in Line
  PROVE  /\ Append(s, x) \in Seq(Line) /\ Append(s, x) # <<>> /\ Append(s, x) = s \o <<x>>
         /\ Len(Append(s, x)) = Len(s) + 1 /\ Append(s, x)[Len(s) + 1] = x
         /\ \A i \in 1 .. Len(s) : Append(s, x)[i] = s[i]
<1>1. /\ Append(s, x) \in Seq(Line) /\ Append(s, x) # <<>> /\ Len(Append(s, x)) = Len(s) + 1
      /\ Append(s, x)[Len(s) + 1] = x /\ \A i \in 1 .. Len(s) : Append(s, x)[i] = s[i]
  BY AppendProperties
<1>2. Append(s, x) = s \o <<x>>
  BY AppendIsConcat
<1> QED
  BY <1>1, <1>2

\* A beginning of a sequence, and the line behind it.
LEMMA Beginning ==
  ASSUME NEW s \in Seq(Line), NEW k \in 0 .. Len(s)
  PROVE  LET b == SubSeq(s, 1, k) IN
         /\ b \in Seq(Line) /\ ToSet(b) \subseteq ToSet(s) /\ (Chain(s) => Chain(b))
         /\ k < Len(s) => /\ s[k + 1] \in ToSet(s)
                          /\ Chain(s) => Before(ToSet(b), {s[k + 1]})
<1> DEFINE b == SubSeq(s, 1, k)
<1>1. /\ b \in Seq(Line) /\ Len(b) = k /\ k \in Nat /\ DOMAIN b = 1 .. k
      /\ \A i \in 1 .. k : b[i] = s[i] /\ i \in DOMAIN s
      /\ DOMAIN s = 1 .. Len(s) /\ Len(s) \in Nat
  <2>1. \A i \in 1 .. k : s[i] \in Line /\ i \in DOMAIN s
    BY Members
  <2>2. b \in Seq(Line) /\ Len(b) = k /\ \A i \in 1 .. k : b[i] = s[i]
    BY <2>1, SubSeqProperties, Members
  <2> QED
    BY <2>1, <2>2, Members
<1>2. ToSet(b) \subseteq ToSet(s)
  BY <1>1 DEF ToSet
<1>3. Chain(s) => Chain(b)
  BY <1>1 DEF Chain
<1>4. ASSUME k < Len(s)
      PROVE  s[k + 1] \in ToSet(s) /\ (Chain(s) => Before(ToSet(b), {s[k + 1]}))
  <2>1. k + 1 \in DOMAIN s /\ \A i \in 1 .. k : i < k + 1
    BY <1>1, <1>4
  <2> QED
    BY <1>1, <2>1 DEF ToSet, Before, Chain
<1> QED
  BY <1>1, <1>2, <1>3, <1>4

\* The rest of a sequence behind its first line.
LEMMA Remainder ==
  ASSUME NEW s \in Seq(Line), s # <<>>
  PROVE  /\ Head(s) \in ToSet(s) /\ Tail(s) \in Seq(Line)
         /\ ToSet(Tail(s)) \subseteq ToSet(s) /\ ToSet(s) \subseteq {Head(s)} \cup ToSet(Tail(s))
         /\ Chain(s) => Chain(Tail(s)) /\ Before({Head(s)}, ToSet(Tail(s)))
<1>1. /\ Tail(s) \in Seq(Line) /\ Len(Tail(s)) = Len(s) - 1 /\ Head(s) = s[1]
      /\ \A i \in 1 .. Len(Tail(s)) : Tail(s)[i] = s[i + 1]
      /\ Len(s) \in Nat \ {0} /\ DOMAIN s = 1 .. Len(s) /\ DOMAIN Tail(s) = 1 .. (Len(s) - 1)
  BY HeadTailProperties, EmptySeq, Members
<1>2. 1 \in DOMAIN s /\ \A i \in DOMAIN Tail(s) : i + 1 \in DOMAIN s /\ Tail(s)[i] = s[i + 1]
  BY <1>1
<1>3. \A i \in DOMAIN s : i = 1 \/ (i - 1 \in DOMAIN Tail(s) /\ Tail(s)[i - 1] = s[i])
  BY <1>1
<1>4. Head(s) \in ToSet(s) /\ ToSet(Tail(s)) \subseteq ToSet(s)
  BY <1>1, <1>2 DEF ToSet
<1>5. ToSet(s) \subseteq {Head(s)} \cup ToSet(Tail(s))
  BY <1>1, <1>3 DEF ToSet
<1>6. ASSUME Chain(s) PROVE Chain(Tail(s)) /\ Before({Head(s)}, ToSet(Tail(s)))
  <2>1. \A i, k \in DOMAIN Tail(s) : i < k => i + 1 < k + 1
    BY <1>1
  <2>2. \A i \in DOMAIN Tail(s) : 1 < i + 1
    BY <1>1
  <2>3. Chain(Tail(s))
    BY <1>2, <1>6, <2>1 DEF Chain
  <2>4. Before({Head(s)}, ToSet(Tail(s)))
    BY <1>1, <1>2, <1>6, <2>2 DEF Chain, Before, ToSet
  <2> QED
    BY <2>3, <2>4
<1> QED
  BY <1>1, <1>4, <1>5, <1>6

\* A set of numbers that is bounded and not empty has a greatest and a least one.
LEMMA Extremes ==
  ASSUME NEW S \in SUBSET Nat, S # {}, NEW b \in Nat, \A x \in S : x <= b
  PROVE  /\ Max(S) \in S /\ \A x \in S : x <= Max(S)
         /\ Min(S) \in S /\ \A x \in S : Min(S) <= x
<1> DEFINE R == OpToRel(<, Nat)
<1>1. IsWellFoundedOn(R, Nat)
  BY NatLessThanWellFounded
<1>0. \A y, z \in Nat : <<y, z>> \in R <=> y < z
  BY DEF OpToRel
<1> HIDE DEF R
<1>2. \A U \in SUBSET Nat : U # {} => \E x \in U : \A y \in U : x <= y
  <2>1. SUFFICES ASSUME NEW U \in SUBSET Nat, U # {} PROVE \E x \in U : \A y \in U : x <= y
    OBVIOUS
  <2>2. PICK x \in U : \A y \in U : ~(<<y, x>> \in R)
    BY <1>1, <2>1, WFMin
  <2>3. \A y \in U : ~(y < x)
    BY <1>0, <2>2, Zenon
  <2> QED
    BY <2>3
<1> DEFINE T == {b - x : x \in S}
<1>3. PICK x \in S : \A y \in S : x <= y
  BY <1>2
<1>4. T \in SUBSET Nat /\ T # {}
  OBVIOUS
<1>5. PICK u \in T : \A v \in T : u <= v
  BY <1>2, <1>4
<1>6. PICK z \in S : u = b - z
  BY <1>5
<1>7. \A y \in S : z >= y
  BY <1>5, <1>6
<1>8. Min(S) \in S /\ \A y \in S : Min(S) <= y
  BY <1>3 DEF Min
<1>9. Max(S) \in S /\ \A y \in S : Max(S) >= y
  BY <1>7 DEF Max
<1> QED
  BY <1>8, <1>9

---------------------------------------------------------------------------
(* Files.                                                                  *)

\* The file g is what f may have become when s was written, wholly or in part.
Wrote(f, s, g) ==
  /\ g \in LogFile /\ Len(g.tail) <= 1
  /\ ToSet(f.lines) \subseteq ToSet(g.lines)
  /\ ToSet(g.tail) \subseteq ToSet(f.tail) \cup ToSet(s) \cup {Torn}
  /\ ToSet(File!AllLines(g)) \subseteq ToSet(File!AllLines(f)) \cup ToSet(s) \cup {Torn}
  /\ Chain(File!AllLines(f) \o s) => Chain(File!AllLines(g))

\* The lines of a file.
LEMMA LinesOfFile ==
  ASSUME NEW f \in LogFile
  PROVE  LET a == File!AllLines(f) IN
         /\ f.lines \in Seq(Line) /\ f.tail \in Seq(Line) /\ a \in Seq(Line)
         /\ ToSet(a) = ToSet(f.lines) \cup ToSet(f.tail)
         /\ Chain(a) <=> Chain(f.lines) /\ Chain(f.tail) /\ Before(ToSet(f.lines), ToSet(f.tail))
BY Joined DEF LogFile, File!AllLines

\* What a file becomes when s and an unfinished line t are written.
LEMMA PutWrote ==
  ASSUME NEW f \in LogFile, Len(f.tail) <= 1,
         NEW s \in Seq(Line), NEW t \in Seq(Line), Len(t) <= 1
  PROVE  LET g == File!Put(f, s, t) IN
         /\ g \in LogFile /\ Len(g.tail) <= 1
         /\ ToSet(f.lines) \subseteq ToSet(g.lines)
         /\ ToSet(g.tail) \subseteq ToSet(f.tail) \cup ToSet(t) \cup {Torn}
         /\ ToSet(File!AllLines(g))
              \subseteq ToSet(File!AllLines(f)) \cup ToSet(s) \cup ToSet(t) \cup {Torn}
         /\ Chain((File!AllLines(f) \o s) \o t) => Chain(File!AllLines(g))
<1> DEFINE g == File!Put(f, s, t)
           F == ToSet(f.lines)
           U == ToSet(f.tail)
           InOrder == Chain((File!AllLines(f) \o s) \o t)
<1>1. /\ f.lines \in Seq(Line) /\ f.tail \in Seq(Line) /\ f = [lines |-> f.lines, tail |-> f.tail]
      /\ Torn \in Line /\ <<Torn>> \in Seq(Line) /\ ToSet(<<Torn>>) = {Torn} /\ Chain(<<Torn>>)
      /\ Len(<<Torn>>) = 1
  BY Shapes, Short DEF LogFile
<1>2. InOrder =>
        /\ Chain(f.lines) /\ Chain(f.tail) /\ Chain(s) /\ Chain(t)
        /\ Before(F, U) /\ Before(F \cup U, ToSet(s)) /\ Before(F \cup U \cup ToSet(s), ToSet(t))
  <2> DEFINE a == File!AllLines(f)
             c == a \o s
  <2>1. /\ a \in Seq(Line) /\ ToSet(a) = F \cup U
        /\ Chain(a) <=> Chain(f.lines) /\ Chain(f.tail) /\ Before(F, U)
    BY LinesOfFile
  <2> HIDE DEF a, F, U
  <2>2. /\ c \in Seq(Line) /\ ToSet(c) = ToSet(a) \cup ToSet(s)
        /\ Chain(c) <=> Chain(a) /\ Chain(s) /\ Before(ToSet(a), ToSet(s))
    BY <2>1, Joined
  <2> HIDE DEF c
  <2>3. Chain(c \o t) <=> Chain(c) /\ Chain(t) /\ Before(ToSet(c), ToSet(t))
    BY <2>2, Joined
  <2>4. InOrder <=> Chain(c \o t)
    BY DEF c, a
  <2> HIDE DEF InOrder
  <2> QED
    BY <2>1, <2>2, <2>3, <2>4
<1>3. CASE s = <<>>
  <2> DEFINE j == IF f.tail = <<>> THEN t ELSE IF t = <<>> THEN f.tail ELSE <<Torn>>
  <2>1. g = [lines |-> f.lines, tail |-> j]
    BY <1>1, <1>3 DEF File!Put
  <2>2. j \in Seq(Line) /\ Len(j) <= 1 /\ ToSet(j) \subseteq U \cup ToSet(t) \cup {Torn}
    BY <1>1
  <2>3. InOrder => Chain(j) /\ Before(F, ToSet(j))
    <3>1. Before(F, {Torn})
      BY <1>1, Members, TornAnywhere DEF Before
    <3> QED
      BY <1>1, <1>2, <3>1 DEF Before
  <2> HIDE DEF j
  <2>4. g \in LogFile /\ g.lines = f.lines /\ g.tail = j
    BY <1>1, <2>1, <2>2 DEF LogFile
  <2> HIDE DEF g
  <2>5. /\ ToSet(File!AllLines(g)) = F \cup ToSet(j) /\ ToSet(File!AllLines(f)) = F \cup U
        /\ Chain(File!AllLines(g)) <=> Chain(f.lines) /\ Chain(j) /\ Before(F, ToSet(j))
    BY <2>4, LinesOfFile
  <2> QED
    BY <1>2, <2>2, <2>3, <2>4, <2>5 DEF g
<1>4. CASE s # <<>>
  <2> DEFINE h == Head(s)
             r == Tail(s)
             j == IF f.tail = <<>> THEN <<h>> ELSE <<Torn>>
  <2>1. h \in Line /\ h \in ToSet(s) /\ r \in Seq(Line) /\ ToSet(r) \subseteq ToSet(s)
    BY <1>4, Remainder, Members
  <2>2. g = [lines |-> (f.lines \o j) \o r, tail |-> t]
    BY <1>1, <1>4 DEF File!Put
  <2>3. j \in Seq(Line) /\ ToSet(j) \subseteq {h, Torn} /\ Chain(j)
    BY <1>1, <2>1, Short
  <2>4. InOrder => /\ Chain(f.lines) /\ Before(F, ToSet(j)) /\ Chain(r) /\ Before(F \cup ToSet(j), ToSet(r))
                   /\ Chain(t) /\ Before(F \cup ToSet(j) \cup ToSet(r), ToSet(t))
    <3>1. /\ \A S \in SUBSET Line : Before(S, {Torn}) /\ Before({Torn}, S)
          /\ F \subseteq Line /\ ToSet(r) \subseteq Line /\ ToSet(t) \subseteq Line
      BY <1>1, <2>1, Members, TornAnywhere DEF Before
    <3>2. InOrder => Chain(r) /\ Before({h}, ToSet(r))
      BY <1>2, <1>4, Remainder
    <3> HIDE DEF h, r, j, InOrder, F, U
    <3>3. ASSUME InOrder PROVE Before(F, {h, Torn})
      BY <1>2, <2>1, <3>1, <3>3 DEF Before
    <3>4. ASSUME InOrder PROVE Before(F, ToSet(r)) /\ Before({h, Torn}, ToSet(r))
      BY <1>2, <2>1, <3>1, <3>2, <3>4 DEF Before
    <3>5. ASSUME InOrder
          PROVE Before(F, ToSet(t)) /\ Before({h, Torn}, ToSet(t)) /\ Before(ToSet(r), ToSet(t))
      BY <1>2, <2>1, <3>1, <3>5 DEF Before
    <3> QED
      BY <1>2, <2>3, <3>2, <3>3, <3>4, <3>5 DEF Before
  <2> HIDE DEF h, r, j
  <2>5. /\ f.lines \o j \in Seq(Line) /\ ToSet(f.lines \o j) = F \cup ToSet(j)
        /\ Chain(f.lines \o j) <=> Chain(f.lines) /\ Chain(j) /\ Before(F, ToSet(j))
    BY <1>1, <2>3, Joined
  <2> DEFINE l == f.lines \o j
  <2>6. /\ l \o r \in Seq(Line)
        /\ ToSet(l \o r) = F \cup ToSet(j) \cup ToSet(r)
        /\ Chain(l \o r) <=> Chain(l) /\ Chain(r) /\ Before(F \cup ToSet(j), ToSet(r))
    <3> HIDE DEF l
    <3>1. l \in Seq(Line) /\ ToSet(l) = F \cup ToSet(j)
      BY <2>5 DEF l
    <3>2. /\ l \o r \in Seq(Line) /\ ToSet(l \o r) = ToSet(l) \cup ToSet(r)
          /\ Chain(l \o r) <=> Chain(l) /\ Chain(r) /\ Before(ToSet(l), ToSet(r))
      BY <2>1, <3>1, Joined
    <3> QED
      BY <3>1, <3>2
  <2>7. g \in LogFile /\ g.lines = (f.lines \o j) \o r /\ g.tail = t
    BY <2>2, <2>6 DEF LogFile
  <2> HIDE DEF g
  <2>8. /\ ToSet(File!AllLines(g)) = F \cup ToSet(j) \cup ToSet(r) \cup ToSet(t)
        /\ ToSet(File!AllLines(f)) = F \cup U
        /\ Chain(File!AllLines(g)) <=> /\ Chain((f.lines \o j) \o r) /\ Chain(t)
                                       /\ Before(F \cup ToSet(j) \cup ToSet(r), ToSet(t))
    BY <2>6, <2>7, LinesOfFile
  <2>9. InOrder => Chain(File!AllLines(g))
    BY <2>3, <2>4, <2>5, <2>6, <2>8
  <2> QED
    BY <2>1, <2>3, <2>6, <2>7, <2>8, <2>9 DEF g
<1> QED
  BY <1>3, <1>4

\* A write that succeeds.
LEMMA WholeWrite ==
  ASSUME NEW f \in LogFile, Len(f.tail) <= 1, NEW s \in Seq(Line)
  PROVE  Wrote(f, s, File!Put(f, s, <<>>))
<1>1. <<>> \in Seq(Line) /\ Len(<<>>) <= 1 /\ ToSet(<<>>) = {}
  BY Short
<1>2. (File!AllLines(f) \o s) \o <<>> = File!AllLines(f) \o s
  BY LinesOfFile, Joined, ConcatEmptySeq
<1> QED
  BY <1>1, <1>2, PutWrote DEF Wrote

\* A write that is interrupted.
LEMMA PartialWrite ==
  ASSUME NEW f \in LogFile, Len(f.tail) <= 1, NEW s \in Seq(Line),
         NEW g \in File!Interrupted(f, s)
  PROVE  Wrote(f, s, g)
<1>1. PICK k \in 0 .. Len(s) :
        g \in {File!Put(f, SubSeq(s, 1, k), t) :
                 t \in {<<>>} \cup (IF k < Len(s) THEN {<<Torn>>, <<s[k + 1]>>} ELSE {})}
  BY DEF File!Interrupted
<1>2. PICK t \in {<<>>} \cup (IF k < Len(s) THEN {<<Torn>>, <<s[k + 1]>>} ELSE {}) :
        g = File!Put(f, SubSeq(s, 1, k), t)
  BY <1>1
<1> DEFINE b == SubSeq(s, 1, k)
           a == File!AllLines(f)
<1>3. /\ b \in Seq(Line) /\ ToSet(b) \subseteq ToSet(s) /\ (Chain(s) => Chain(b))
      /\ k < Len(s) => /\ s[k + 1] \in ToSet(s) /\ s[k + 1] \in Line
                       /\ Chain(s) => Before(ToSet(b), {s[k + 1]})
  BY Beginning, Members
<1> HIDE DEF b
<1>4. /\ t \in Seq(Line) /\ Len(t) <= 1 /\ ToSet(t) \subseteq ToSet(s) \cup {Torn} /\ Chain(t)
      /\ Chain(s) => Before(ToSet(b), ToSet(t))
  <2>1. CASE t = <<>>
    BY <2>1, Short DEF Before
  <2>2. CASE t = <<Torn>>
    <3>1. Before(ToSet(b), {Torn})
      BY <1>3, Members, TornAnywhere DEF Before
    <3>2. t \in Seq(Line) /\ Len(t) = 1 /\ ToSet(t) = {Torn} /\ Chain(t)
      BY <2>2, Shapes, Short
    <3> QED
      BY <3>1, <3>2
  <2>3. CASE k < Len(s) /\ t = <<s[k + 1]>>
    <3> DEFINE x == s[k + 1]
    <3>1. x \in ToSet(s) /\ x \in Line /\ (Chain(s) => Before(ToSet(b), {x}))
      BY <1>3, <2>3
    <3>2. t = <<x>>
      BY <2>3
    <3> HIDE DEF x
    <3>3. t \in Seq(Line) /\ Len(t) = 1 /\ ToSet(t) = {x} /\ Chain(t)
      BY <3>1, <3>2, Short
    <3> QED
      BY <3>1, <3>3
  <2> QED
    BY <2>1, <2>2, <2>3
<1>5. a \in Seq(Line) /\ ToSet(a) \subseteq Line
  BY LinesOfFile, Members
<1>7. /\ g \in LogFile /\ Len(g.tail) <= 1
      /\ ToSet(f.lines) \subseteq ToSet(g.lines)
      /\ ToSet(g.tail) \subseteq ToSet(f.tail) \cup ToSet(t) \cup {Torn}
      /\ ToSet(File!AllLines(g)) \subseteq ToSet(a) \cup ToSet(b) \cup ToSet(t) \cup {Torn}
      /\ Chain((a \o b) \o t) => Chain(File!AllLines(g))
  <2>1. g = File!Put(f, b, t)
    BY <1>2 DEF b
  <2> QED
    BY <1>3, <1>4, <2>1, PutWrote
<1> HIDE DEF a
<1>6. ASSUME Chain(a \o s) PROVE Chain((a \o b) \o t)
  <2>1. Chain(a) /\ Chain(s) /\ Before(ToSet(a), ToSet(s))
    BY <1>5, <1>6, Joined
  <2>2. a \o b \in Seq(Line) /\ ToSet(a \o b) = ToSet(a) \cup ToSet(b)
    BY <1>3, <1>5, Joined
  <2>3. Before(ToSet(a), ToSet(b)) /\ Before(ToSet(a), ToSet(t))
    BY <1>3, <1>4, <1>5, <2>1, TornAnywhere DEF Before
  <2>4. Before(ToSet(a) \cup ToSet(b), ToSet(t))
    BY <1>4, <2>1, <2>3 DEF Before
  <2>5. Chain(a \o b)
    BY <1>3, <1>5, <2>1, <2>3, Joined
  <2> QED
    BY <1>4, <2>2, <2>4, <2>5, Joined
<1> QED
  BY <1>3, <1>4, <1>6, <1>7 DEF Wrote, a

\* The lines that are there, in any order.
Present(f, b, p) == ToSet(File!AllLines(f)) \cup ToSet(b) \cup ToSet(p)

\* The lines in a file and on their way there, and when they are in order.
LEMMA TogetherIs ==
  ASSUME NEW f \in LogFile, NEW b \in Seq(Line), NEW p \in Seq(Line)
  PROVE  /\ Together(f, b, p) \in Seq(Line)
         /\ ToSet(Together(f, b, p)) = Present(f, b, p)
         /\ Chain(Together(f, b, p)) <=>
              /\ Chain(File!AllLines(f) \o b) /\ Chain(p)
              /\ Before(ToSet(File!AllLines(f)) \cup ToSet(b), ToSet(p))
         /\ Chain(File!AllLines(f) \o b) <=>
              /\ Chain(File!AllLines(f)) /\ Chain(b)
              /\ Before(ToSet(File!AllLines(f)), ToSet(b))
<1> DEFINE a == File!AllLines(f)
           c == a \o b
<1>1. a \in Seq(Line)
  BY LinesOfFile
<1> HIDE DEF a
<1>2. /\ c \in Seq(Line) /\ ToSet(c) = ToSet(a) \cup ToSet(b)
      /\ Chain(c) <=> Chain(a) /\ Chain(b) /\ Before(ToSet(a), ToSet(b))
  BY <1>1, Joined
<1> HIDE DEF c
<1>3. /\ c \o p \in Seq(Line) /\ ToSet(c \o p) = ToSet(c) \cup ToSet(p)
      /\ Chain(c \o p) <=> Chain(c) /\ Chain(p) /\ Before(ToSet(c), ToSet(p))
  BY <1>2, Joined
<1>4. Together(f, b, p) = c \o p
  BY DEF Together, c, a
<1> QED
  BY <1>2, <1>3, <1>4 DEF c, a, Present

\* What is in a file and on its way there when a batch was written.
LEMMA AfterWrite ==
  ASSUME NEW f \in LogFile, NEW b \in Seq(Line), NEW p \in Seq(Line), NEW g, Wrote(f, b, g),
         Chain(Together(f, b, p))
  PROVE  /\ Chain(Together(g, <<>>, p))
         /\ ToSet(Together(g, <<>>, p)) \subseteq ToSet(Together(f, b, p)) \cup {Torn}
<1> DEFINE a == File!AllLines(f)
           c == File!AllLines(g)
<1>1. /\ g \in LogFile /\ ToSet(c) \subseteq ToSet(a) \cup ToSet(b) \cup {Torn}
      /\ Chain(a \o b) => Chain(c)
  BY DEF Wrote
<1>2. /\ ToSet(Together(f, b, p)) = ToSet(a) \cup ToSet(b) \cup ToSet(p)
      /\ Chain(a \o b) /\ Chain(p) /\ Before(ToSet(a) \cup ToSet(b), ToSet(p))
  <2>1. ToSet(Together(f, b, p)) = ToSet(a) \cup ToSet(b) \cup ToSet(p)
    <3>1. ToSet(Together(f, b, p)) = Present(f, b, p)
      BY TogetherIs
    <3> QED
      BY <3>1 DEF Present
  <2>2. Chain(a \o b) /\ Chain(p) /\ Before(ToSet(a) \cup ToSet(b), ToSet(p))
    BY TogetherIs, Zenon
  <2> QED
    BY <2>1, <2>2
<1>3. c \in Seq(Line) /\ <<>> \in Seq(Line) /\ ToSet(<<>>) = {} /\ Chain(<<>>)
  BY <1>1, LinesOfFile, Short
<1>4. /\ ToSet(Together(g, <<>>, p)) = ToSet(c) \cup ToSet(<<>>) \cup ToSet(p)
      /\ Chain(Together(g, <<>>, p)) <=>
           /\ Chain(c \o <<>>) /\ Chain(p) /\ Before(ToSet(c) \cup ToSet(<<>>), ToSet(p))
      /\ Chain(c \o <<>>) <=> Chain(c) /\ Chain(<<>>) /\ Before(ToSet(c), ToSet(<<>>))
  <2> DEFINE e == <<>>
  <2>0. e \in Seq(Line) /\ g \in LogFile
    BY <1>1, <1>3
  <2> HIDE DEF e
  <2>1. ToSet(Together(g, e, p)) = ToSet(c) \cup ToSet(e) \cup ToSet(p)
    <3>1. ToSet(Together(g, e, p)) = Present(g, e, p)
      BY <2>0, TogetherIs
    <3> QED
      BY <3>1 DEF Present
  <2>2. Chain(Together(g, e, p)) <=>
           /\ Chain(c \o e) /\ Chain(p) /\ Before(ToSet(c) \cup ToSet(e), ToSet(p))
    BY <2>0, TogetherIs, Zenon
  <2>3. Chain(c \o e) <=> Chain(c) /\ Chain(e) /\ Before(ToSet(c), ToSet(e))
    BY <2>0, TogetherIs, Zenon
  <2> QED
    BY <2>1, <2>2, <2>3 DEF e
<1>5. Before({Torn}, ToSet(p))
  BY Members, TornAnywhere DEF Before
<1>6. Before(ToSet(c), ToSet(p)) /\ Before(ToSet(c), {})
  BY <1>1, <1>2, <1>5 DEF Before
<1> QED
  BY <1>1, <1>2, <1>3, <1>4, <1>6

---------------------------------------------------------------------------
(* The client.                                                             *)

\* What a client makes of the lines it is sent.
LEMMA ReceivedIs ==
  ASSUME NEW c \in Reader, NEW s \in Seq(Line), NEW I \in SUBSET (DOMAIN s)
  PROVE  LET d == Received(c, s, I) IN
         /\ d \in Reader /\ d.base = c.base /\ d.stale = c.stale /\ c.held \subseteq d.held
         /\ \A l \in d.held : l \in c.held \/ (l.epoch = d.epoch /\ \E i \in I : l = s[i])
         /\ IF c.epoch = NoEpoch /\ I # {} THEN \E i \in I : d.epoch = s[i].epoch
            ELSE d.epoch = c.epoch
         /\ \A i \in I : s[i].epoch = d.epoch /\ s[i].seq > c.base /\ s[i].seq \notin Known(c)
                           => s[i] \in d.held
<1> DEFINE e == IF c.epoch = NoEpoch /\ I # {} THEN s[Min(I)].epoch ELSE c.epoch
           new == {l \in {s[i] : i \in I} : l.epoch = e /\ l.seq > c.base /\ l.seq \notin Known(c)}
           d == Received(c, s, I)
<1>1. d = [c EXCEPT !.epoch = e, !.held = @ \cup new]
  BY DEF Received
<1>2. \A i \in I : i \in Nat /\ i <= Len(s) /\ s[i] \in Line
  BY Members
<1>3. I # {} => Min(I) \in I
  <2>1. I \in SUBSET Nat /\ Len(s) \in Nat
    BY <1>2, Members
  <2> QED
    BY <1>2, <2>1, Extremes
<1>4. /\ e \in Nat
      /\ IF c.epoch = NoEpoch /\ I # {} THEN \E i \in I : e = s[i].epoch ELSE e = c.epoch
  BY <1>2, <1>3, Shapes DEF Reader
<1> HIDE DEF e
<1>5. new \subseteq Line
  BY <1>2
<1>6. \A l \in new : l.epoch = e /\ \E i \in I : l = s[i]
  OBVIOUS
<1>7. \A i \in I : s[i].epoch = e /\ s[i].seq > c.base /\ s[i].seq \notin Known(c) => s[i] \in new
  OBVIOUS
<1> HIDE DEF new, d
<1>8. /\ d \in Reader /\ d.base = c.base /\ d.stale = c.stale
      /\ d.held = c.held \cup new /\ d.epoch = e
  BY <1>1, <1>4, <1>5 DEF Reader
<1> QED
  BY <1>4, <1>6, <1>7, <1>8 DEF d

\* A client knows every number from its snapshot up to its cursor.
LEMMA CursorIs ==
  ASSUME NEW c \in Reader
  PROVE  /\ Cursor(c) \in Nat /\ c.base <= Cursor(c)
         /\ \A n \in Nat : c.base < n /\ n <= Cursor(c) => n \in Known(c)
         /\ \A k \in c.base .. c.base + N : (c.base + 1) .. k \subseteq Known(c) => k <= Cursor(c)
         /\ Cursor(c) <= c.base + N
<1> DEFINE S == {k \in c.base .. c.base + N : (c.base + 1) .. k \subseteq Known(c)}
<1>1. c.base \in Nat /\ N \in Nat
  BY StreamAssumption DEF Reader
<1>2. (c.base + 1) .. c.base = {}
  BY <1>1
<1>3. c.base \in S /\ S \in SUBSET Nat /\ \A k \in S : k <= c.base + N
  BY <1>1, <1>2
<1>4. Cursor(c) = Max(S)
  BY DEF Cursor
<1>5. Max(S) \in S /\ \A k \in S : k <= Max(S)
  <2>1. c.base + N \in Nat /\ S # {}
    BY <1>1, <1>3
  <2> HIDE DEF S
  <2> QED
    BY <1>3, <2>1, Extremes
<1> QED
  BY <1>1, <1>4, <1>5

\* A client that knows more numbers is not behind.
LEMMA CursorGrows ==
  ASSUME NEW c \in Reader, NEW d \in Reader, c.base = d.base, c.held \subseteq d.held
  PROVE  Cursor(c) <= Cursor(d)
<1>1. Known(c) \subseteq Known(d)
  BY DEF Known
<1>2. c.base \in Nat /\ N \in Nat
  BY StreamAssumption DEF Reader
<1>3. Cursor(c) \in c.base .. c.base + N
  BY <1>2, CursorIs
<1>4. (d.base + 1) .. Cursor(c) \subseteq Known(d)
  <2>1. \A n \in (c.base + 1) .. Cursor(c) : n \in Nat /\ c.base < n /\ n <= Cursor(c)
    BY <1>2, <1>3
  <2> QED
    BY <1>1, <2>1, CursorIs
<1> QED
  BY <1>3, <1>4, CursorIs

\* A client has the line of every number of its epoch that it knows.
LEMMA KnownHeld ==
  ASSUME Types, Given, OneEpoch, Whole(journal.epoch), client.epoch \in {NoEpoch, journal.epoch},
         NEW G, given \subseteq G, Unique(G, journal.epoch),
         NEW l \in G, l.epoch = journal.epoch, l.seq \in Known(client)
  PROVE  l \in client.held
<1>1. PICK m \in client.held : m.seq = l.seq
  BY DEF Known
<1>2. client.epoch = journal.epoch
  BY <1>1 DEF OneEpoch
<1>3. m.epoch = journal.epoch /\ m \in G
  BY <1>1, <1>2 DEF OneEpoch, Given
<1> QED
  BY <1>1, <1>3 DEF Unique

\* The client has become d: it was sent the lines of s at the places I, which are of G.
Digested(G, s, I, d) ==
  /\ d \in Reader /\ d.base = client.base /\ d.stale = client.stale
  /\ client.held \subseteq d.held /\ d.held \subseteq G /\ d.epoch <= epochs
  /\ Cursor(client) <= Cursor(d)
  /\ d.epoch = NoEpoch => d.held = {}
  /\ Whole(d.epoch) => \A l \in d.held : l.epoch = d.epoch
  /\ client.epoch \in {NoEpoch, journal.epoch} /\ (\A i \in I : s[i].epoch = journal.epoch)
       => /\ d.epoch \in {NoEpoch, journal.epoch}
          /\ Whole(journal.epoch) /\ Unique(G, journal.epoch)
               => \A i \in I : s[i].seq > client.base => s[i] \in d.held

\* What a client that is sent events of G makes of them.
LEMMA Takes ==
  ASSUME Types, Given, OneEpoch, NEW G, given \subseteq G,
         NEW s \in Seq(Line), NEW I \in SUBSET (DOMAIN s),
         \A i \in I : s[i] \in G /\ IsEvent(s[i]) /\ s[i].epoch <= epochs
  PROVE  Digested(G, s, I, Received(client, s, I))
<1> DEFINE d == Received(client, s, I)
<1>1. client \in Reader /\ client.epoch <= epochs /\ client.held \subseteq G
  BY DEF Types, Given
<1>2. /\ d \in Reader /\ d.base = client.base /\ d.stale = client.stale /\ client.held \subseteq d.held
      /\ \A l \in d.held : l \in client.held \/ (l.epoch = d.epoch /\ \E i \in I : l = s[i])
      /\ IF client.epoch = NoEpoch /\ I # {} THEN \E i \in I : d.epoch = s[i].epoch
         ELSE d.epoch = client.epoch
      /\ \A i \in I : s[i].epoch = d.epoch /\ s[i].seq > client.base /\ s[i].seq \notin Known(client)
                        => s[i] \in d.held
  BY <1>1, ReceivedIs
<1> HIDE DEF d
<1>3. d.held \subseteq G /\ d.epoch <= epochs
  BY <1>1, <1>2
<1>4. Cursor(client) <= Cursor(d)
  BY <1>1, <1>2, CursorGrows
<1>5. \A i \in I : s[i].epoch # NoEpoch
  BY Members, Shapes DEF NoEpoch
<1>6. d.epoch = NoEpoch => d.held = {}
  BY <1>2, <1>5 DEF OneEpoch
<1>7. Whole(d.epoch) => \A l \in d.held : l.epoch = d.epoch
  BY <1>2 DEF OneEpoch
<1>8. ASSUME client.epoch \in {NoEpoch, journal.epoch}, \A i \in I : s[i].epoch = journal.epoch
      PROVE  /\ d.epoch \in {NoEpoch, journal.epoch}
             /\ Whole(journal.epoch) /\ Unique(G, journal.epoch)
                  => \A i \in I : s[i].seq > client.base => s[i] \in d.held
  <2>1. d.epoch \in {NoEpoch, journal.epoch} /\ (I # {} => d.epoch = journal.epoch)
    BY <1>2, <1>8
  <2>2. ASSUME Whole(journal.epoch), Unique(G, journal.epoch), NEW i \in I, s[i].seq > client.base
        PROVE  s[i] \in d.held
    <3>1. s[i].epoch = d.epoch /\ s[i].epoch = journal.epoch /\ s[i] \in G
      BY <1>8, <2>1
    <3>2. CASE s[i].seq \in Known(client)
      BY <1>2, <1>8, <2>2, <3>1, <3>2, KnownHeld
    <3>3. CASE s[i].seq \notin Known(client)
      BY <1>2, <2>2, <3>1, <3>3
    <3> QED
      BY <3>2, <3>3
  <2> QED
    BY <2>1, <2>2
<1> QED
  BY <1>2, <1>3, <1>4, <1>6, <1>7, <1>8 DEF d, Digested

---------------------------------------------------------------------------
(* The server.                                                             *)

\* The lines of the journal's stream.
LEMMA StreamIs ==
  ASSUME Types
  PROVE  /\ ToSet(Stream) = Present(file, journal.batch, journal.pending)
         /\ \A l \in ToSet(Stream) : l \in Line
         /\ ToSet(File!AllLines(file)) \subseteq ToSet(Stream)
         /\ ToSet(journal.batch) \subseteq ToSet(Stream)
         /\ ToSet(journal.pending) \subseteq ToSet(Stream)
         /\ ToSet(File!AllLines(file)) = ToSet(file.lines) \cup ToSet(file.tail)
<1>1. file \in LogFile /\ journal.batch \in Seq(Line) /\ journal.pending \in Seq(Line)
  BY DEF Types, Journal
<1>2. ToSet(Stream) = Present(file, journal.batch, journal.pending) /\ Stream \in Seq(Line)
  BY <1>1, TogetherIs DEF Stream
<1>3. ToSet(Stream) \subseteq Line
  BY <1>2, Members
<1>4. ToSet(File!AllLines(file)) = ToSet(file.lines) \cup ToSet(file.tail)
  BY <1>1, LinesOfFile
<1> QED
  BY <1>2, <1>3, <1>4 DEF Present

\* The beginning.
LEMMA Begins == Init => IInv
<1> SUFFICES ASSUME Init PROVE IInv
  OBVIOUS
<1>1. /\ <<>> \in Seq(Line) /\ ToSet(<<>>) = {} /\ Chain(<<>>) /\ Len(<<>>) = 0
      /\ DOMAIN <<>> = {}
  BY Short
<1>2. file \in LogFile /\ file = [lines |-> <<>>, tail |-> <<>>]
  BY <1>1 DEF Init, File!Empty, LogFile
<1>3. /\ journal \in Journal /\ journal = NoJournal /\ ~journal.header /\ journal.seq = 0
      /\ journal.epoch = 0 /\ journal.batch = <<>> /\ journal.pending = <<>> /\ ~journal.flushing
  BY <1>1 DEF Init, NoJournal, NewJournal, Journal, NoEpoch
<1>4. client \in Reader /\ client.epoch = 0 /\ client.base = 0 /\ client.held = {}
  BY DEF Init, NewClient, Reader, NoEpoch
<1>5. Stream = <<>>
  BY <1>2, <1>3 DEF Stream, Together, File!AllLines
<1>6. Counters
  BY StreamAssumption DEF Init, Counters
<1>7. Types
  BY <1>1, <1>2, <1>3, <1>4 DEF Init, Types
<1>8. Given /\ Unbegun /\ OneEpoch /\ Supplied
  BY <1>3, <1>4 DEF Init, Given, Unbegun, OneEpoch, Supplied
<1>9. Logged
  BY <1>1, <1>3, <1>5 DEF Init, Logged
<1>10. Recent
  BY <1>1, StreamAssumption DEF Init, Recent
<1> QED
  BY <1>6, <1>7, <1>8, <1>9, <1>10 DEF IInv

\* What stays true while the server does nothing.
LEMMA ServerRests ==
  ASSUME IInv, UNCHANGED <<file, journal, tail, given, epochs, taken>>,
         session' = session \/ (session = "none" /\ session' = "opening")
  PROVE  /\ Stream' = Stream /\ Logged' /\ Unbegun'
         /\ \A e : Whole(e)' <=> Whole(e)
         /\ (conn' \in {"flushing", "reading"} => EndsIn(journal.epoch)) => Recent'
<1>1. Stream' = Stream
  BY DEF Stream, Together
<1>2. Logged'
  BY <1>1 DEF IInv, Logged
<1>3. Unbegun'
  BY DEF IInv, Unbegun
<1>4. \A e : Whole(e)' <=> Whole(e)
  BY DEF Whole
<1>5. (conn' \in {"flushing", "reading"} => EndsIn(journal.epoch)) => Recent'
  BY DEF IInv, Recent, EndsIn
<1> QED
  BY <1>1, <1>2, <1>3, <1>4, <1>5

\* An event is published.
LEMMA PublishStep == ASSUME IInv, Publish PROVE IInv'
<1>1. /\ UNCHANGED <<file, journal, tail, taken, conn, client, given, epochs, bounds>>
      /\ published' = published + 1 /\ published < N
      /\ session' = session \/ (session = "none" /\ session' = "opening")
  BY DEF Publish, Needed
<1>2. Stream' = Stream /\ Logged' /\ Unbegun' /\ Recent' /\ \A e : Whole(e)' <=> Whole(e)
  BY <1>1, ServerRests DEF IInv, Recent
<1>3. Counters'
  BY <1>1, StreamAssumption DEF IInv, Counters, bounds
<1>4. Types' /\ Given'
  BY <1>1 DEF IInv, Types, Given
<1>5. OneEpoch'
  BY <1>1, <1>2 DEF IInv, OneEpoch
<1>6. Supplied'
  BY <1>1, <1>2 DEF IInv, Supplied, Served, Reached, Due
<1> QED
  BY <1>2, <1>3, <1>4, <1>5, <1>6 DEF IInv

\* A connection is made.
LEMMA ConnectStep == ASSUME IInv, Connect PROVE IInv'
<1>1. /\ UNCHANGED <<file, journal, tail, published, taken, client, given, epochs, crashes, faults>>
      /\ conn' = "draining" /\ connects' = connects + 1 /\ connects < MaxConnects
      /\ session' = session \/ (session = "none" /\ session' = "opening")
  BY DEF Connect, Needed
<1>2. Stream' = Stream /\ Logged' /\ Unbegun' /\ Recent' /\ \A e : Whole(e)' <=> Whole(e)
  BY <1>1, ServerRests
<1>3. Counters'
  BY <1>1, StreamAssumption DEF IInv, Counters
<1>4. Types' /\ Given'
  BY <1>1 DEF IInv, Types, Given
<1>5. OneEpoch'
  BY <1>1, <1>2 DEF IInv, OneEpoch
<1>6. Supplied'
  BY <1>1 DEF Supplied
<1> QED
  BY <1>2, <1>3, <1>4, <1>5, <1>6 DEF IInv

\* A connection ends, or its request fails.
LEMMA DropStep == ASSUME IInv, Drop \/ ReadFails PROVE IInv'
<1>1. /\ UNCHANGED <<file, session, journal, tail, published, taken, client, given, epochs, crashes,
                     connects>>
      /\ conn' = "off" \/ (conn = "reading" /\ conn' = "unanswered")
      /\ faults' = faults \/ (faults < MaxFaults /\ faults' = faults + 1)
  BY DEF Drop, ReadFails, bounds
<1>2. Stream' = Stream /\ Logged' /\ Unbegun' /\ Recent' /\ \A e : Whole(e)' <=> Whole(e)
  BY <1>1, ServerRests
<1>3. Counters'
  BY <1>1, StreamAssumption DEF IInv, Counters
<1>4. Types' /\ Given'
  BY <1>1 DEF IInv, Types, Given
<1>5. OneEpoch'
  BY <1>1, <1>2 DEF IInv, OneEpoch
<1>6. Supplied'
  BY <1>1 DEF Supplied
<1> QED
  BY <1>2, <1>3, <1>4, <1>5, <1>6 DEF IInv

\* The acknowledgement gives the client its epoch.
LEMMA AcknowledgeStep == ASSUME IInv, Acknowledge PROVE IInv'
<1>1. /\ UNCHANGED <<file, session, journal, tail, published, taken, given, epochs, bounds>>
      /\ conn = "answering" /\ conn' = "live" /\ session = "open"
      /\ client' = IF client.stale THEN client ELSE [client EXCEPT !.epoch = journal.epoch]
  BY DEF Acknowledge, Drained
<1>2. Stream' = Stream /\ Logged' /\ Unbegun' /\ Recent' /\ \A e : Whole(e)' <=> Whole(e)
  BY <1>1, ServerRests
<1>3. /\ client' \in Reader /\ client'.base = client.base /\ client'.held = client.held
      /\ client'.stale = client.stale
      /\ client.stale => client' = client
      /\ ~client.stale => client'.epoch = journal.epoch
      /\ journal.epoch \in 1 .. epochs /\ epochs \in Nat /\ journal.epoch \in Nat
  BY <1>1 DEF IInv, Types, Reader, Journal, Counters
<1>4. Counters'
  BY <1>1 DEF IInv, Counters, bounds
<1>5. Types' /\ Given'
  BY <1>1, <1>3 DEF IInv, Types, Given
<1>6. OneEpoch'
  BY <1>1, <1>2, <1>3 DEF IInv, OneEpoch, NoEpoch
<1>7. Supplied'
  BY <1>1, <1>2, <1>3 DEF IInv, Supplied, Served, Due
<1> QED
  BY <1>2, <1>4, <1>5, <1>6, <1>7 DEF IInv

\* A client that begins anew lacks nothing.
LEMMA SnapshotStep == ASSUME IInv, Snapshot PROVE IInv'
<1>1. /\ UNCHANGED <<file, session, journal, tail, published, taken, conn, given, epochs, bounds>>
      /\ conn = "live" /\ session = "open" /\ client' = NewClient(journal.epoch, journal.seq)
  BY DEF Snapshot, Drained
<1>2. Stream' = Stream /\ Logged' /\ Unbegun' /\ Recent' /\ \A e : Whole(e)' <=> Whole(e)
  BY <1>1, ServerRests
<1>3. /\ client' \in Reader /\ client'.base = journal.seq /\ client'.held = {}
      /\ client'.epoch = journal.epoch /\ ~client'.stale
      /\ journal.epoch \in 1 .. epochs /\ epochs \in Nat /\ journal.epoch \in Nat
      /\ journal.seq \in Nat /\ journal.seq <= taken
  BY <1>1 DEF IInv, Types, Reader, Journal, Counters, NewClient
<1>4. Counters'
  BY <1>1 DEF IInv, Counters, bounds
<1>5. Types' /\ Given'
  BY <1>1, <1>3 DEF IInv, Types, Given
<1>6. OneEpoch'
  BY <1>1, <1>3 DEF OneEpoch
<1>7. Supplied'
  <2>1. ASSUME NEW l \in ToSet(Stream)
        PROVE  ~(IsEvent(l) /\ l.epoch = journal.epoch /\ l.seq > journal.seq)
    <3>1. l.seq \in Nat
      BY <2>1, StreamIs, Shapes DEF IInv
    <3>2. l.epoch = journal.epoch => l.seq <= journal.seq
      BY <1>1, <2>1 DEF IInv, Logged
    <3> QED
      BY <1>3, <3>1, <3>2
  <2>2. \A l \in ToSet(Stream') : ~Due(l)'
    BY <1>1, <1>2, <1>3, <2>1 DEF Due
  <2> QED
    BY <1>1, <2>2 DEF Supplied
<1> QED
  BY <1>2, <1>4, <1>5, <1>6, <1>7 DEF IInv

\* A batch was written, wholly or in part.
LEMMA BatchWritten ==
  ASSUME IInv, journal.flushing, Wrote(file, journal.batch, file'),
         journal' = [journal EXCEPT !.flushing = FALSE, !.batch = <<>>],
         UNCHANGED <<session, tail, published, taken, conn, client, given, epochs, crashes, connects>>,
         faults' \in 0 .. MaxFaults
  PROVE  IInv'
<1>1. /\ file \in LogFile /\ journal.batch \in Seq(Line) /\ journal.pending \in Seq(Line)
      /\ journal \in Journal
  BY DEF IInv, Types, Journal
<1>2. /\ journal' \in Journal /\ journal'.epoch = journal.epoch /\ journal'.seq = journal.seq
      /\ journal'.batch = <<>> /\ journal'.pending = journal.pending /\ ~journal'.flushing
      /\ journal'.header = journal.header
      /\ <<>> \in Seq(Line) /\ ToSet(<<>>) = {}
  BY <1>1, Short DEF Journal
<1>3. /\ session = "open" /\ ~journal.header /\ journal.batch # <<>>
      /\ journal.epoch \in 1 .. epochs /\ epochs \in Nat /\ taken \in Nat
  <2>1. journal.batch # <<>>
    BY DEF IInv, Types
  <2>2. NoJournal.batch = <<>>
    BY DEF NoJournal, NewJournal
  <2> QED
    BY <2>1, <2>2, StreamAssumption DEF IInv, Types, Unbegun, Counters
<1>4. /\ file' \in LogFile /\ Len(file'.tail) <= 1 /\ ToSet(file.lines) \subseteq ToSet(file'.lines)
      /\ ToSet(file'.tail) \subseteq ToSet(file.tail) \cup ToSet(journal.batch) \cup {Torn}
  BY DEF Wrote
<1>5. Chain(Stream') /\ ToSet(Stream') \subseteq ToSet(Stream) \cup {Torn}
  <2>1. Chain(Together(file, journal.batch, journal.pending))
    BY DEF IInv, Logged, Stream
  <2>2. Stream' = Together(file', <<>>, journal.pending)
    BY <1>2 DEF Stream
  <2> QED
    BY <1>1, <2>1, <2>2, AfterWrite DEF Stream
<1>6. \A e : Whole(e)' => Whole(e)
  BY <1>4 DEF Whole
<1>7. \A l \in ToSet(journal.batch) \cup ToSet(journal.pending) : l.epoch = journal.epoch
  BY DEF IInv, Logged
<1>8. EndsIn(journal.epoch) => EndsIn(journal.epoch)'
  BY <1>2, <1>4, <1>7 DEF EndsIn
<1>9. Counters'
  BY DEF IInv, Counters
<1>10. Types' /\ Given'
  BY <1>2, <1>3, <1>4 DEF IInv, Types, Given
<1>11. Logged'
  <2>1. \A l \in ToSet(Stream') :
          /\ l.epoch <= epochs /\ (IsEvent(l) => l \in given)
          /\ IsHeader(l) => l.epoch = journal.epoch
          /\ l.epoch = journal.epoch => l.seq <= journal.seq
    BY <1>1, <1>3, <1>5, Shapes DEF IInv, Logged, Journal
  <2> QED
    BY <1>2, <1>3, <1>5, <1>7, <2>1 DEF Logged
<1>12. Unbegun'
  BY <1>2, <1>3 DEF Unbegun
<1>13. Recent'
  BY <1>2, <1>3, <1>8 DEF IInv, Recent
<1>14. OneEpoch'
  BY <1>2, <1>6 DEF IInv, OneEpoch
<1>15. Supplied'
  <2>1. Served' => Served
    BY <1>2, <1>6 DEF Served
  <2>2. \A l \in ToSet(Stream') : Due(l)' => l \in ToSet(Stream) /\ Due(l)
    BY <1>2, <1>5, Shapes DEF Due
  <2>3. \A w \in Nat : Reached(w) => Reached(w)'
    BY <2>2 DEF Reached
  <2>4. \A l \in ToSet(journal.pending) : Due(l)' => Due(l)
    BY <1>2 DEF Due
  <2> QED
    BY <1>2, <2>1, <2>2, <2>3, <2>4 DEF IInv, Supplied
<1> QED
  BY <1>9, <1>10, <1>11, <1>12, <1>13, <1>14, <1>15 DEF IInv

\* A flush ends, or fails.
LEMMA WriteStep == ASSUME IInv, Written \/ WriteFails PROVE IInv'
<1>1. file \in LogFile /\ Len(file.tail) <= 1 /\ journal.batch \in Seq(Line)
  BY DEF IInv, Types, Journal
<1>2. CASE Written
  <2>1. Wrote(file, journal.batch, file')
    BY <1>1, <1>2, WholeWrite DEF Written
  <2>2. faults' \in 0 .. MaxFaults
    BY <1>2 DEF Written, bounds, IInv, Counters
  <2> QED
    BY <1>2, <2>1, <2>2, BatchWritten DEF Written, bounds
<1>3. CASE WriteFails
  <2>1. Wrote(file, journal.batch, file')
    BY <1>1, <1>3, PartialWrite DEF WriteFails
  <2>2. faults' \in 0 .. MaxFaults
    BY <1>3, StreamAssumption DEF WriteFails, IInv, Counters
  <2> QED
    BY <1>3, <2>1, <2>2, BatchWritten DEF WriteFails
<1> QED
  BY <1>2, <1>3

\* Nothing is left of a server that crashes but its file.
LEMMA CrashStep == ASSUME IInv, Crash PROVE IInv'
<1>1. /\ UNCHANGED <<published, client, given, epochs, faults, connects>>
      /\ session' = "none" /\ journal' = NoJournal /\ tail' = <<>> /\ conn' = "off"
      /\ taken' = published /\ crashes' = crashes + 1 /\ crashes < MaxCrashes
      /\ file' \in IF journal.flushing THEN File!Interrupted(file, journal.batch) ELSE {file}
  BY DEF Crash
<1>2. /\ file \in LogFile /\ Len(file.tail) <= 1 /\ journal.batch \in Seq(Line)
      /\ journal.pending \in Seq(Line) /\ taken \in Nat /\ published \in Nat /\ taken <= published
      /\ epochs \in Nat
  BY StreamAssumption DEF IInv, Types, Journal, Counters
<1>3. /\ journal' \in Journal /\ ~journal'.header /\ journal'.seq = 0 /\ journal'.epoch = 0
      /\ journal'.batch = <<>> /\ journal'.pending = <<>> /\ ~journal'.flushing
      /\ <<>> \in Seq(Line) /\ ToSet(<<>>) = {} /\ Chain(<<>>) /\ Len(<<>>) = 0 /\ DOMAIN <<>> = {}
  BY <1>1, Short DEF NoJournal, NewJournal, Journal, NoEpoch
<1>4. /\ file' \in LogFile /\ Len(file'.tail) <= 1 /\ ToSet(file.lines) \subseteq ToSet(file'.lines)
      /\ ToSet(File!AllLines(file')) \subseteq ToSet(Stream) \cup {Torn}
      /\ Chain(File!AllLines(file'))
  <2>1. /\ Chain(File!AllLines(file) \o journal.batch) /\ Chain(File!AllLines(file))
        /\ ToSet(Stream) = Present(file, journal.batch, journal.pending)
    <3>1. Chain(Together(file, journal.batch, journal.pending))
      BY DEF IInv, Logged, Stream
    <3> QED
      BY <1>2, <3>1, TogetherIs, StreamIs DEF IInv
  <2>2. CASE journal.flushing
    <3>1. Wrote(file, journal.batch, file')
      BY <1>1, <1>2, <2>2, PartialWrite
    <3> QED
      BY <2>1, <3>1 DEF Wrote, Present
  <2>3. CASE ~journal.flushing
    BY <1>1, <1>2, <2>1, <2>3 DEF Present
  <2> QED
    BY <2>2, <2>3
<1>5. Chain(Stream') /\ ToSet(Stream') \subseteq ToSet(Stream) \cup {Torn}
  <2> DEFINE a == File!AllLines(file')
  <2>1. a \in Seq(Line)
    BY <1>4, LinesOfFile
  <2>2. Stream' = (a \o <<>>) \o <<>>
    BY <1>3 DEF Stream, Together
  <2> HIDE DEF a
  <2>3. Stream' = a
    BY <2>1, <2>2, ConcatEmptySeq
  <2> QED
    BY <1>4, <2>3 DEF a
<1>6. \A e : Whole(e)' => Whole(e)
  BY <1>4 DEF Whole
<1>7. Counters'
  BY <1>1, <1>2, StreamAssumption DEF IInv, Counters
<1>8. Types' /\ Given'
  <2>1. Types'
    BY <1>1, <1>2, <1>3, <1>4 DEF IInv, Types, Reader
  <2>2. \A l \in given : IsEvent(l) /\ l.epoch <= epochs /\ l.event <= published
    BY <1>2, Shapes DEF IInv, Given, Types
  <2> QED
    BY <1>1, <2>1, <2>2 DEF IInv, Given
<1>9. Logged'
  <2>1. \A l \in ToSet(Stream') : l.epoch <= epochs /\ (IsEvent(l) => l \in given)
    BY <1>2, <1>5, Shapes DEF IInv, Logged
  <2> QED
    BY <1>1, <1>3, <1>5, <2>1 DEF Logged
<1>10. Unbegun' /\ Recent'
  BY <1>1, <1>3, StreamAssumption DEF Unbegun, Recent
<1>11. OneEpoch'
  BY <1>1, <1>6 DEF IInv, OneEpoch
<1>12. Supplied'
  BY <1>1 DEF Supplied
<1> QED
  BY <1>7, <1>8, <1>9, <1>10, <1>11, <1>12 DEF IInv

\* What a journal is opened with: the epoch of its first header, which all that follows
\* has too, and its greatest number; or a new epoch.
LEMMA OpenedIs ==
  ASSUME NEW f \in LogFile, Len(f.tail) <= 1, Chain(File!AllLines(f)), NEW n \in Nat, epochs \in Nat,
         \A l \in ToSet(File!AllLines(f)) : l.epoch <= epochs /\ l.event <= n
  PROVE  LET q == Opened(f) IN
         /\ q \in Journal /\ q.batch = <<>> /\ q.pending = <<>> /\ ~q.flushing
         /\ q.epoch \in 1 .. epochs + 1 /\ q.seq <= n
         /\ \A l \in ToSet(File!AllLines(f)) :
              /\ IsHeader(l) => l.epoch = q.epoch
              /\ l.epoch = q.epoch => l.seq <= q.seq
         /\ q.header => \A l \in ToSet(File!AllLines(f)) : ~IsHeader(l) /\ l.epoch # q.epoch
         /\ q.seq = 0 \/ \A l \in ToSet(f.tail) : l = Torn \/ l.epoch = q.epoch
<1> DEFINE s == File!AllLines(f)
           H == {i \in DOMAIN s : IsHeader(s[i])}
           q == Opened(f)
<1>1. /\ f.lines \in Seq(Line) /\ f.tail \in Seq(Line) /\ s \in Seq(Line)
      /\ ToSet(s) = ToSet(f.lines) \cup ToSet(f.tail)
      /\ <<>> \in Seq(Line)
  BY LinesOfFile, Short
<1>2. /\ Len(s) \in Nat /\ DOMAIN s = 1 .. Len(s)
      /\ \A i \in DOMAIN s : s[i] \in Line /\ s[i] \in ToSet(s)
      /\ \A l \in ToSet(s) : l \in Line /\ \E i \in DOMAIN s : l = s[i]
  BY <1>1, Members DEF ToSet
<1>3. Chain(s) /\ \A l \in ToSet(s) : l.epoch <= epochs /\ l.event <= n
  OBVIOUS
<1>4. \A l \in ToSet(f.tail) : \E i \in DOMAIN s : l = s[i] /\ \A k \in DOMAIN s : k <= i
  <2>1. /\ Len(s) = Len(f.lines) + Len(f.tail) /\ Len(f.lines) \in Nat /\ Len(f.tail) \in Nat
        /\ \A i \in 1 .. Len(f.lines) + Len(f.tail) :
             s[i] = IF i <= Len(f.lines) THEN f.lines[i] ELSE f.tail[i - Len(f.lines)]
    BY <1>1, ConcatProperties, LenProperties DEF File!AllLines
  <2> HIDE DEF s
  <2>2. SUFFICES ASSUME NEW j \in DOMAIN f.tail
                 PROVE  \E i \in DOMAIN s : f.tail[j] = s[i] /\ \A k \in DOMAIN s : k <= i
    BY DEF ToSet
  <2>3. j = 1 /\ Len(f.tail) = 1
    <3> DEFINE z == f.tail
    <3>1. z \in Seq(Line) /\ Len(z) <= 1 /\ j \in DOMAIN z
      BY <1>1, <2>2
    <3> HIDE DEF z
    <3>2. j \in 1 .. Len(z) /\ Len(z) \in Nat
      BY <3>1, Members
    <3> DEFINE size == Len(z)
    <3>3. size <= 1 /\ j \in 1 .. size /\ size \in Nat
      BY <3>1, <3>2
    <3> HIDE DEF size
    <3>4. j = 1 /\ size = 1
      BY <3>3
    <3> QED
      BY <3>4 DEF size, z
  <2>4. Len(s) \in DOMAIN s /\ f.tail[j] = s[Len(s)]
    BY <1>2, <2>1, <2>3
  <2> QED
    BY <1>2, <2>4
<1>5. q = IF H # {} THEN NewJournal(s[Min(H)].epoch, LastSeq(s), FALSE)
          ELSE NewJournal(epochs + 1, 0, TRUE)
  BY DEF Opened
<1> HIDE DEF s, q
<1>6. CASE H = {}
  <2>1. q = NewJournal(epochs + 1, 0, TRUE)
    BY <1>5, <1>6
  <2>2. /\ q \in Journal /\ q.batch = <<>> /\ q.pending = <<>> /\ ~q.flushing
        /\ q.epoch = epochs + 1 /\ q.seq = 0
    BY <1>1, <2>1 DEF NewJournal, Journal
  <2>3. \A l \in ToSet(s) : ~IsHeader(l) /\ l.epoch # q.epoch
    <3>1. \A l \in ToSet(s) : ~IsHeader(l)
      BY <1>2, <1>6
    <3>2. \A l \in ToSet(s) : l.epoch \in Nat
      BY <1>2, Shapes
    <3> QED
      BY <1>3, <2>2, <3>1, <3>2
  <2> QED
    BY <2>2, <2>3 DEF q, s
<1>7. CASE H # {}
  <2> DEFINE h == Min(H)
             Seqs == {0} \cup {s[i].seq : i \in DOMAIN s}
  <2>1. h \in H /\ \A i \in H : h <= i
    <3>1. H \in SUBSET Nat /\ \A i \in H : i <= Len(s)
      BY <1>2
    <3> HIDE DEF H
    <3> QED
      BY <1>2, <1>7, <3>1, Extremes
  <2>2. Max(Seqs) \in Seqs /\ \A x \in Seqs : x <= Max(Seqs)
    <3>1. Seqs \in SUBSET Nat /\ \A x \in Seqs : x <= n
      BY <1>2, <1>3, Shapes
    <3>2. Seqs # {}
      OBVIOUS
    <3> HIDE DEF Seqs
    <3> QED
      BY <3>1, <3>2, Extremes
  <2>3. q = NewJournal(s[h].epoch, Max(Seqs), FALSE)
    BY <1>5, <1>7 DEF LastSeq
  <2>4. s[h] \in Line /\ IsHeader(s[h]) /\ h \in DOMAIN s /\ s[h].epoch \in 1 .. epochs
    BY <1>2, <1>3, <2>1, Shapes DEF IsHeader, NoEpoch
  <2>5. Max(Seqs) \in Nat /\ Max(Seqs) <= n
    BY <1>2, <1>3, <2>2, Shapes
  <2>6. \A i \in DOMAIN s : s[i].seq <= Max(Seqs)
    BY <2>2
  <2> HIDE DEF H, h, Seqs
  <2>7. /\ q \in Journal /\ q.batch = <<>> /\ q.pending = <<>> /\ ~q.flushing /\ ~q.header
        /\ q.epoch = s[h].epoch /\ q.seq = Max(Seqs)
    BY <1>1, <2>3, <2>4, <2>5 DEF NewJournal, Journal
  <2>8. \A i \in DOMAIN s : h <= i => s[i] = Torn \/ s[i].epoch = q.epoch
    <3>1. SUFFICES ASSUME NEW i \in DOMAIN s, h <= i, s[i] # Torn PROVE s[i].epoch = s[h].epoch
      BY <2>7
    <3>2. CASE h = i
      BY <3>2
    <3>3. CASE h < i
      BY <1>3, <2>4, <3>1, <3>3 DEF Chain, Follows
    <3> QED
      BY <1>2, <2>4, <3>1, <3>2, <3>3
  <2>9. \A i \in DOMAIN s : IsHeader(s[i]) => s[i].epoch = q.epoch
    BY <2>1, <2>8, Shapes DEF H
  <2>10. \A l \in ToSet(s) : (IsHeader(l) => l.epoch = q.epoch) /\ (l.epoch = q.epoch => l.seq <= q.seq)
    BY <1>2, <2>6, <2>7, <2>9
  <2>11. \A l \in ToSet(f.tail) : l = Torn \/ l.epoch = q.epoch
    BY <1>4, <2>4, <2>8
  <2>12. q.epoch \in 1 .. epochs + 1 /\ q.seq <= n
    BY <2>4, <2>5, <2>7
  <2> QED
    BY <2>7, <2>10, <2>11, <2>12 DEF q, s
<1> QED
  BY <1>6, <1>7

\* A session's journal is opened.
LEMMA OpenStep == ASSUME IInv, Open PROVE IInv'
<1>1. /\ UNCHANGED <<file, tail, published, taken, conn, client, given, bounds>>
      /\ session = "opening" /\ session' = "open"
      /\ journal' = Opened(file) /\ epochs' = Max({epochs, journal'.epoch})
  BY DEF Open
<1>2. /\ file \in LogFile /\ Len(file.tail) <= 1 /\ journal = NoJournal /\ tail = <<>>
      /\ conn \in {"off", "draining"} /\ taken \in Nat /\ epochs \in Nat
      /\ client \in Reader /\ client.epoch <= epochs
  BY <1>1, StreamAssumption DEF IInv, Types, Counters
<1> DEFINE a == File!AllLines(file)
<1>3. a \in Seq(Line) /\ \A l \in ToSet(a) : l \in Line
  BY <1>2, LinesOfFile, Members
<1>4. Stream = a
  <2>1. Stream = (a \o <<>>) \o <<>>
    BY <1>2 DEF Stream, Together, NoJournal, NewJournal
  <2> HIDE DEF a
  <2> QED
    BY <1>3, <2>1, ConcatEmptySeq
<1>5. Chain(a) /\ \A l \in ToSet(a) : l.epoch <= epochs /\ (IsEvent(l) => l \in given)
  BY <1>4 DEF IInv, Logged
<1>6. \A l \in ToSet(a) : l.event <= taken
  BY <1>2, <1>3, <1>5, Shapes DEF IInv, Given
<1>7. /\ journal' \in Journal /\ journal'.batch = <<>> /\ journal'.pending = <<>>
      /\ ~journal'.flushing /\ journal'.epoch \in 1 .. epochs + 1 /\ journal'.seq <= taken
      /\ \A l \in ToSet(a) :
           /\ IsHeader(l) => l.epoch = journal'.epoch
           /\ l.epoch = journal'.epoch => l.seq <= journal'.seq
      /\ journal'.header => \A l \in ToSet(a) : ~IsHeader(l) /\ l.epoch # journal'.epoch
      /\ journal'.seq = 0 \/ \A l \in ToSet(file.tail) : l = Torn \/ l.epoch = journal'.epoch
  BY <1>1, <1>2, <1>5, <1>6, OpenedIs
<1>8. Stream' = a
  <2>1. Stream' = (a \o <<>>) \o <<>>
    BY <1>1, <1>7 DEF Stream, Together
  <2> HIDE DEF a
  <2> QED
    BY <1>3, <2>1, ConcatEmptySeq
<1>9. epochs' \in Nat /\ epochs <= epochs' /\ journal'.epoch \in 1 .. epochs'
  <2> DEFINE S == {epochs, journal'.epoch}
  <2>1. S \in SUBSET Nat /\ S # {} /\ \A x \in S : x <= epochs + 1
    BY <1>2, <1>7
  <2>2. epochs + 1 \in Nat
    BY <1>2
  <2>3. Max(S) \in S /\ \A x \in S : x <= Max(S)
    <3> HIDE DEF S
    <3> QED
      BY <2>1, <2>2, Extremes
  <2> QED
    BY <1>1, <1>7, <2>1, <2>3
<1>10. Counters'
  BY <1>1, <1>9 DEF IInv, Counters, bounds
<1>11. Types'
  BY <1>1, <1>2, <1>7, <1>9 DEF IInv, Types, Reader
<1>12. Given'
  <2>1. \A l \in given : l.epoch \in Nat
    BY Shapes DEF IInv, Types
  <2> QED
    BY <1>1, <1>2, <1>9, <2>1 DEF IInv, Given
<1>13. Logged'
  <2>1. \A l \in ToSet(a) : l.epoch <= epochs'
    BY <1>2, <1>3, <1>5, <1>9, Shapes
  <2>2. ToSet(journal'.batch) = {} /\ ToSet(journal'.pending) = {}
    BY <1>7, Short
  <2> QED
    BY <1>1, <1>5, <1>7, <1>8, <2>1, <2>2 DEF Logged
<1>14. Unbegun'
  BY <1>1, <1>7 DEF Unbegun
<1>15. Recent'
  <2>1. Len(tail') = 0 /\ DOMAIN tail' = {} /\ 0 <= Buffer
    BY <1>1, <1>2, StreamAssumption
  <2> QED
    BY <1>1, <1>2, <1>7, <2>1 DEF Recent, EndsIn
<1>16. OneEpoch'
  <2>1. \A e : Whole(e)' <=> Whole(e)
    BY <1>1 DEF Whole
  <2> QED
    BY <1>1, <1>2, <2>1 DEF IInv, OneEpoch
<1>17. Supplied'
  BY <1>1, <1>2 DEF Supplied
<1> QED
  BY <1>10, <1>11, <1>12, <1>13, <1>14, <1>15, <1>16, <1>17 DEF IInv

\* A reader waits for the disk.
LEMMA FlushStep == ASSUME IInv, Flush PROVE IInv'
<1>1. /\ UNCHANGED <<file, session, tail, published, taken, client, given, epochs, bounds>>
      /\ conn = "flushing" /\ session = "open"
  BY DEF Flush, IInv, Types
<1>2. \A e : Whole(e)' <=> Whole(e)
  BY <1>1 DEF Whole
<1>3. Counters'
  BY <1>1 DEF IInv, Counters, bounds
<1>4. CASE AllFlushed(journal) /\ conn' = "reading" /\ UNCHANGED journal
  <2>1. Stream' = Stream /\ Logged' /\ Unbegun' /\ Recent'
    BY <1>1, <1>4, ServerRests DEF IInv, Recent
  <2>2. Types' /\ Given'
    BY <1>1, <1>4 DEF IInv, Types, Given
  <2>3. OneEpoch'
    BY <1>1, <1>2, <1>4 DEF IInv, OneEpoch
  <2>4. journal.pending = <<>> /\ journal.batch = <<>>
    BY <1>4 DEF AllFlushed, IInv, Types
  <2>5. ToSet(journal'.batch) \cup ToSet(journal'.pending) = {}
    BY <1>4, <2>4, Short
  <2>6. Supplied'
    BY <1>1, <1>2, <1>4, <2>1, <2>5 DEF IInv, Supplied, Served, Reached, Due
  <2> QED
    BY <1>3, <2>1, <2>2, <2>3, <2>6 DEF IInv
<1>5. CASE Flushed(journal) # journal /\ journal' = Flushed(journal) /\ UNCHANGED conn
  <2>1. ~journal.flushing /\ journal.pending # <<>> /\ journal' = Batched(journal)
    BY <1>5 DEF Flushed
  <2>2. ~journal.header /\ journal.batch = <<>> /\ journal \in Journal
    BY <2>1 DEF IInv, Types, Unbegun
  <2>3. journal.pending \in Seq(Line) /\ <<>> \o journal.pending = journal.pending
    <3>1. journal.pending \in Seq(Line)
      BY <2>2 DEF Journal
    <3> QED
      BY <3>1, ConcatEmptySeq
  <2>4. /\ journal' \in Journal /\ journal'.epoch = journal.epoch /\ journal'.seq = journal.seq
        /\ journal'.batch = journal.pending /\ journal'.pending = <<>> /\ journal'.flushing
        /\ ~journal'.header
    BY <2>1, <2>2, <2>3, Short DEF Batched, Journal
  <2>5. Stream' = Stream
    <3> DEFINE a == File!AllLines(file)
               p == journal.pending
    <3>1. a \in Seq(Line) /\ p \in Seq(Line)
      BY <2>3, LinesOfFile DEF IInv, Types
    <3>2. Stream = (a \o <<>>) \o p /\ Stream' = (a \o p) \o <<>>
      BY <1>1, <2>2, <2>4 DEF Stream, Together
    <3> HIDE DEF a, p
    <3>3. a \o <<>> = a /\ a \o p \in Seq(Line)
      BY <3>1, ConcatEmptySeq, Joined
    <3>4. (a \o p) \o <<>> = a \o p
      BY <3>3, ConcatEmptySeq
    <3> QED
      BY <3>2, <3>3, <3>4
  <2>6. Types' /\ Given'
    BY <1>1, <1>5, <2>1, <2>4 DEF IInv, Types, Given
  <2>7. Logged'
    BY <1>1, <2>2, <2>4, <2>5, Short DEF IInv, Logged
  <2>8. Unbegun'
    BY <2>4 DEF Unbegun
  <2>9. Recent'
    BY <1>1, <1>5, <2>4 DEF IInv, Recent, EndsIn
  <2>10. OneEpoch'
    BY <1>1, <1>2, <1>5, <2>4 DEF IInv, OneEpoch
  <2>11. Supplied'
    BY <1>1, <1>2, <1>5, <2>4, <2>5 DEF IInv, Supplied, Served, Reached, Due
  <2> QED
    BY <1>3, <2>6, <2>7, <2>8, <2>9, <2>10, <2>11 DEF IInv
<1> QED
  BY <1>4, <1>5 DEF Flush

\* The tail in memory is the end of what it was, with the line behind it.
LEMMA LastLines ==
  ASSUME NEW s \in Seq(Line), NEW x \in Line
  PROVE  LET t == LastOf(Append(s, x)) IN
         /\ t \in Seq(Line) /\ Len(t) <= Buffer
         /\ Len(t) = Len(s) + 1 \/ Len(t) = Buffer
         /\ Len(s) = Buffer => Len(t) = Buffer
         /\ \A i \in DOMAIN t : LET k == (i + (Len(s) + 1)) - Len(t) IN
              (k \in DOMAIN s /\ t[i] = s[k]) \/ (k = Len(s) + 1 /\ t[i] = x)
<1> DEFINE u == Append(s, x)
           m == IF Len(u) > Buffer THEN Len(u) - Buffer + 1 ELSE 1
           t == LastOf(u)
<1>1. /\ u \in Seq(Line) /\ Len(u) = Len(s) + 1 /\ Len(s) \in Nat /\ DOMAIN s = 1 .. Len(s)
      /\ \A i \in 1 .. Len(s) : u[i] = s[i]
      /\ u[Len(s) + 1] = x /\ DOMAIN u = 1 .. (Len(s) + 1)
  BY Appending, Members
<1>2. t = SubSeq(u, m, Len(u))
  BY DEF LastOf
<1> HIDE DEF u, t
<1>3. /\ Buffer \in Nat \ {0} /\ m \in 1 .. Len(u) /\ m \in Int /\ Len(u) \in Int
      /\ Len(u) > Buffer => m = (Len(u) - Buffer) + 1
      /\ Len(u) <= Buffer => m = 1
  BY <1>1, StreamAssumption
<1> HIDE DEF m
<1>4. \A i \in m .. Len(u) : u[i] \in Line
  <2>1. \A i \in m .. Len(u) : i \in DOMAIN u
    BY <1>1, <1>3
  <2> QED
    BY <1>1, <2>1, Members
<1>5. /\ t \in Seq(Line) /\ Len(t) = (Len(u) - m) + 1
      /\ \A i \in 1 .. ((Len(u) - m) + 1) : t[i] = u[(m + i) - 1]
  <2>1. /\ SubSeq(u, m, Len(u)) \in Seq(Line)
        /\ Len(SubSeq(u, m, Len(u))) = IF m <= Len(u) THEN (Len(u) - m) + 1 ELSE 0
        /\ \A i \in 1 .. (Len(u) - m) + 1 : SubSeq(u, m, Len(u))[i] = u[m + i - 1]
    BY <1>3, <1>4, SubSeqProperties
  <2> QED
    BY <1>2, <1>3, <2>1
<1>6. DOMAIN t = 1 .. Len(t)
  BY <1>5, Members
<1>7. Len(t) <= Buffer /\ (Len(t) = Len(s) + 1 \/ Len(t) = Buffer) /\ (Len(s) = Buffer => Len(t) = Buffer)
  <2> DEFINE n == Len(s)
             j == Len(u)
             v == Len(t)
  <2>1. /\ n \in Nat /\ j = n + 1 /\ v = (j - m) + 1 /\ Buffer \in Nat \ {0}
        /\ j > Buffer => m = (j - Buffer) + 1
        /\ j <= Buffer => m = 1
    BY <1>1, <1>3, <1>5
  <2> HIDE DEF n, j, v
  <2>2. v <= Buffer /\ (v = n + 1 \/ v = Buffer) /\ (n = Buffer => v = Buffer)
    BY <2>1
  <2> QED
    BY <2>2 DEF n, v
<1>8. ASSUME NEW i \in DOMAIN t
      PROVE  LET k == (i + (Len(s) + 1)) - Len(t) IN
             (k \in DOMAIN s /\ t[i] = s[k]) \/ (k = Len(s) + 1 /\ t[i] = x)
  <2> DEFINE k == (m + i) - 1
  <2>1. k = (i + (Len(s) + 1)) - Len(t) /\ k \in 1 .. (Len(s) + 1) /\ t[i] = u[k]
    <3>1. i \in 1 .. ((Len(u) - m) + 1) /\ t[i] = u[k]
      BY <1>5, <1>6
    <3>2. Len(s) \in Nat /\ Len(u) = Len(s) + 1 /\ Len(t) = (Len(u) - m) + 1 /\ m \in 1 .. Len(u)
      BY <1>1, <1>3, <1>5
    <3> QED
      BY <3>1, <3>2
  <2> HIDE DEF k
  <2>2. (k \in DOMAIN s /\ u[k] = s[k]) \/ (k = Len(s) + 1 /\ u[k] = x)
    BY <1>1, <2>1
  <2> QED
    BY <2>1, <2>2
<1> QED
  BY <1>5, <1>7, <1>8 DEF u, t

\* The journal q has become r: the line l goes to the file f behind all others, and the
\* header, if it was not written yet, before it.
Took(f, q, l, r) ==
  /\ r \in Journal /\ r.epoch = q.epoch /\ r.seq = q.seq /\ ~r.header
  /\ r.flushing /\ r.batch # <<>>
  /\ \E e \in {<<>>, <<HeaderLine(q.epoch)>>} :
       /\ q.header <=> e = <<HeaderLine(q.epoch)>>
       /\ ToSet(r.batch) \cup ToSet(r.pending) =
            (ToSet(q.batch) \cup ToSet(q.pending)) \cup (ToSet(e) \cup {l})
       /\ Together(f, r.batch, r.pending) =
            (Together(f, q.batch, q.pending) \o e) \o <<l>>

\* What a line behind all others does to the journal.
LEMMA AppendedIs ==
  ASSUME NEW f \in LogFile, NEW q \in Journal, NEW l \in Line, IsEvent(l), l.epoch = q.epoch,
         q.flushing <=> q.batch # <<>>,
         q.header => q.pending = <<>> /\ q.batch = <<>>
  PROVE  Took(f, q, l, Appended(q, l))
<1> DEFINE h == HeaderLine(q.epoch)
           r == Appended(q, l)
           p == Append(q.pending, l)
           a == File!AllLines(f)
<1>1. /\ q.epoch \in Nat /\ q.seq \in Nat /\ q.pending \in Seq(Line) /\ q.batch \in Seq(Line)
      /\ q.header \in BOOLEAN /\ q.flushing \in BOOLEAN
  BY DEF Journal
<1>2. /\ h \in Line /\ <<h>> \in Seq(Line) /\ ToSet(<<h>>) = {h} /\ <<h>> # <<>>
      /\ <<l>> \in Seq(Line) /\ ToSet(<<l>>) = {l}
      /\ <<>> \in Seq(Line) /\ ToSet(<<>>) = {}
  <2>1. h \in Line
    BY <1>1, Shapes DEF HeaderLine, EventLine, Line
  <2> QED
    BY <2>1, Short
<1>3. a \in Seq(Line)
  BY LinesOfFile
<1>4. p \in Seq(Line) /\ p = q.pending \o <<l>> /\ p # <<>> /\ ToSet(p) = ToSet(q.pending) \cup {l}
  <2> DEFINE z == q.pending
  <2>1. z \in Seq(Line)
    BY <1>1
  <2> HIDE DEF z
  <2>2. Append(z, l) \in Seq(Line) /\ Append(z, l) = z \o <<l>> /\ Append(z, l) # <<>>
    BY <2>1, Appending
  <2>3. ToSet(z \o <<l>>) = ToSet(z) \cup {l}
    BY <1>2, <2>1, Joined
  <2> QED
    BY <2>2, <2>3 DEF z
<1> DEFINE w == [q EXCEPT !.pending = p]
<1>5. /\ w \in Journal /\ w.epoch = q.epoch /\ w.seq = q.seq /\ w.header = q.header
      /\ w.batch = q.batch /\ w.flushing = q.flushing /\ w.pending = p
  BY <1>1, <1>4 DEF Journal
<1>6. r = IF q.flushing THEN w ELSE Batched(w)
  BY DEF Appended
<1> HIDE DEF h, r, p, a, w
<1>7. Together(f, q.batch, q.pending) = (a \o q.batch) \o q.pending
  BY DEF Together, a
<1>8. CASE q.flushing
  <2>1. r = w /\ ~q.header
    BY <1>6, <1>8
  <2>2. a \o q.batch \in Seq(Line)
    BY <1>1, <1>3, Joined
  <2>3. (a \o q.batch) \o (q.pending \o <<l>>) = ((a \o q.batch) \o q.pending) \o <<l>>
    BY <1>1, <1>2, <2>2, Grouping
  <2>4. Together(f, r.batch, r.pending) = (Together(f, q.batch, q.pending) \o <<>>) \o <<l>>
    <3>1. Together(f, r.batch, r.pending) = (a \o q.batch) \o (q.pending \o <<l>>)
      BY <1>4, <1>5, <2>1 DEF Together, a
    <3>2. ((a \o q.batch) \o q.pending) \o <<>> = (a \o q.batch) \o q.pending
      BY <1>1, <2>2, Joined, ConcatEmptySeq
    <3> QED
      BY <1>7, <2>3, <3>1, <3>2
  <2> QED
    BY <1>2, <1>4, <1>5, <1>8, <2>1, <2>4 DEF h, r, Took
<1>9. CASE ~q.flushing
  <2> DEFINE e == IF q.header THEN <<h>> ELSE <<>>
             b == e \o p
  <2>1. e \in Seq(Line) /\ e \in {<<>>, <<h>>} /\ (q.header <=> e = <<h>>)
    BY <1>2
  <2>2. r = [w EXCEPT !.batch = b, !.header = FALSE, !.pending = <<>>, !.flushing = TRUE]
    BY <1>5, <1>6, <1>9 DEF Batched, h
  <2>3. q.batch = <<>> /\ (q.pending = <<>> \/ e = <<>>)
    BY <1>9
  <2> HIDE DEF e
  <2>4. b \in Seq(Line) /\ ToSet(b) = ToSet(e) \cup ToSet(p) /\ b # <<>>
    <3>1. b \in Seq(Line) /\ ToSet(b) = ToSet(e) \cup ToSet(p)
      BY <1>4, <2>1, Joined
    <3> QED
      BY <1>4, <3>1, Members
  <2> HIDE DEF b
  <2>5. /\ r \in Journal /\ r.epoch = q.epoch /\ r.seq = q.seq /\ ~r.header /\ r.flushing
        /\ r.batch = b /\ r.pending = <<>>
    BY <1>2, <1>5, <2>2, <2>4 DEF Journal
  <2>6. ToSet(r.batch) \cup ToSet(r.pending) =
          (ToSet(q.batch) \cup ToSet(q.pending)) \cup (ToSet(e) \cup {l})
    BY <1>2, <1>4, <2>3, <2>4, <2>5
  <2>7. Together(f, r.batch, r.pending) = (Together(f, q.batch, q.pending) \o e) \o <<l>>
    <3>1. Together(f, r.batch, r.pending) = (a \o b) \o <<>>
      BY <2>5 DEF Together, a
    <3>2. (a \o b) \o <<>> = a \o b
      BY <1>3, <2>4, Joined, ConcatEmptySeq
    <3>3. a \o <<>> = a
      BY <1>3, ConcatEmptySeq
    <3>4. e \o (q.pending \o <<l>>) = (e \o q.pending) \o <<l>>
      <4> DEFINE z == q.pending
                 y == <<l>>
      <4>1. z \in Seq(Line) /\ y \in Seq(Line)
        BY <1>1, <1>2
      <4> HIDE DEF z, y
      <4>2. e \o (z \o y) = (e \o z) \o y
        BY <2>1, <4>1, Grouping
      <4> QED
        BY <4>2 DEF z, y
    <3>5. e \o q.pending = q.pending \o e /\ e \o q.pending \in Seq(Line)
      BY <1>1, <2>1, <2>3, ConcatEmptySeq, Joined
    <3>6. a \o ((q.pending \o e) \o <<l>>) = (a \o (q.pending \o e)) \o <<l>>
      BY <1>2, <1>3, <3>5, Grouping
    <3>7. a \o (q.pending \o e) = (a \o q.pending) \o e
      BY <1>1, <1>3, <2>1, Grouping
    <3> QED
      BY <1>4, <1>7, <2>3, <3>1, <3>2, <3>3, <3>4, <3>5, <3>6, <3>7 DEF b
  <2> QED
    BY <2>1, <2>4, <2>5, <2>6, <2>7 DEF h, r, Took
<1> QED
  BY <1>1, <1>8, <1>9

\* An event gets its number, and goes to the journal, to the tail and to the client.
LEMMA DispatchStep == ASSUME IInv, Dispatch PROVE IInv'
<1> DEFINE l == EventLine(journal.epoch, journal.seq + 1, taken + 1)
           h == HeaderLine(journal.epoch)
           q == [journal EXCEPT !.seq = @ + 1]
<1>1. /\ UNCHANGED <<file, session, published, conn, epochs, bounds>>
      /\ session = "open" /\ taken < published /\ taken' = taken + 1
      /\ journal' = Appended(q, l) /\ tail' = LastOf(Append(tail, l))
      /\ client' = IF conn = "off" THEN client ELSE Received(client, <<l>>, {1})
      /\ given' = given \cup {l}
  BY DEF Dispatch
<1>2. /\ journal \in Journal /\ journal.epoch \in 1 .. epochs /\ epochs \in Nat /\ taken \in Nat
      /\ journal.epoch \in Nat /\ journal.seq \in Nat /\ journal.seq <= taken /\ file \in LogFile
      /\ journal.pending \in Seq(Line) /\ journal.batch \in Seq(Line)
      /\ journal.flushing <=> journal.batch # <<>>
      /\ journal.header => journal.pending = <<>> /\ journal.batch = <<>>
      /\ tail \in Seq(Line) /\ given \subseteq Line /\ client \in Reader
      /\ published \in Nat /\ taken <= published
  BY <1>1, StreamAssumption DEF IInv, Types, Journal, Counters, Unbegun
<1>3. /\ l \in Line /\ IsEvent(l) /\ l.epoch = journal.epoch /\ l.seq = journal.seq + 1
      /\ l.event = taken + 1
      /\ h \in Line /\ IsHeader(h) /\ ~IsEvent(h) /\ h.epoch = journal.epoch /\ h.seq = 0
      /\ h.event = 0
  <2>1. /\ journal.epoch \in Nat \ {0} /\ journal.seq + 1 \in Nat \ {0} /\ taken + 1 \in Nat
        /\ journal.seq + 1 <= taken + 1
    BY <1>2
  <2>2. /\ l \in Line /\ IsEvent(l) /\ l.epoch = journal.epoch /\ l.seq = journal.seq + 1
        /\ l.event = taken + 1
    BY <2>1, Made
  <2>3. /\ h \in Line /\ IsHeader(h) /\ ~IsEvent(h) /\ h.epoch = journal.epoch /\ h.seq = 0
        /\ h.event = 0
    BY <2>1, MadeHeader
  <2> QED
    BY <2>2, <2>3
<1> HIDE DEF l, h
<1>4. /\ q \in Journal /\ q.epoch = journal.epoch /\ q.seq = journal.seq + 1
      /\ q.batch = journal.batch /\ q.pending = journal.pending /\ q.header = journal.header
      /\ q.flushing = journal.flushing
  <2>1. journal.seq + 1 \in Nat
    BY <1>2
  <2> QED
    BY <1>2, <2>1 DEF Journal
<1> HIDE DEF q
<1>5. /\ journal' \in Journal /\ journal'.epoch = journal.epoch /\ journal'.seq = journal.seq + 1
      /\ ~journal'.header /\ journal'.flushing /\ journal'.batch # <<>>
      /\ \E e \in {<<>>, <<h>>} :
           /\ journal.header <=> e = <<h>>
           /\ ToSet(journal'.batch) \cup ToSet(journal'.pending) =
                (ToSet(journal.batch) \cup ToSet(journal.pending)) \cup (ToSet(e) \cup {l})
           /\ Together(file, journal'.batch, journal'.pending) =
                (Together(file, journal.batch, journal.pending) \o e) \o <<l>>
  <2>1. HeaderLine(q.epoch) = h
    BY <1>4 DEF h
  <2>2. q.flushing <=> q.batch # <<>>
    BY <1>2, <1>4
  <2>3. q.header => q.pending = <<>> /\ q.batch = <<>>
    BY <1>2, <1>4
  <2>4. l.epoch = q.epoch
    BY <1>3, <1>4
  <2> DEFINE r == Appended(q, l)
  <2>5. Took(file, q, l, r)
    BY <1>2, <1>3, <1>4, <2>2, <2>3, <2>4, AppendedIs
  <2>6. r = journal'
    BY <1>1
  <2> HIDE DEF r
  <2> QED
    BY <1>4, <2>1, <2>5, <2>6 DEF Took
<1>6. PICK e \in {<<>>, <<h>>} :
        /\ journal.header <=> e = <<h>>
        /\ ToSet(journal'.batch) \cup ToSet(journal'.pending) =
             (ToSet(journal.batch) \cup ToSet(journal.pending)) \cup (ToSet(e) \cup {l})
        /\ Together(file, journal'.batch, journal'.pending) =
             (Together(file, journal.batch, journal.pending) \o e) \o <<l>>
  BY <1>5
<1>7. /\ e \in Seq(Line) /\ ToSet(e) \subseteq {h} /\ Chain(e) /\ (e # <<>> => journal.header)
      /\ <<l>> \in Seq(Line) /\ ToSet(<<l>>) = {l} /\ Chain(<<l>>)
      /\ DOMAIN <<l>> = {1} /\ <<l>>[1] = l
  <2>1. e = <<>> \/ (e = <<h>> /\ journal.header)
    BY <1>6
  <2>2. DOMAIN <<l>> = {1} /\ <<l>>[1] = l
    OBVIOUS
  <2> QED
    BY <1>3, <2>1, <2>2, Short
<1>8. /\ Stream \in Seq(Line) /\ \A x \in ToSet(Stream) : x \in Line
      /\ Chain(Stream)
      /\ \A x \in ToSet(Stream) :
           /\ x.epoch <= epochs /\ x.event <= taken /\ (IsEvent(x) => x \in given)
           /\ IsHeader(x) => x.epoch = journal.epoch
           /\ x.epoch = journal.epoch => x.seq <= journal.seq
      /\ journal.header => \A x \in ToSet(Stream) : ~IsHeader(x)
  <2>1. Stream \in Seq(Line)
    BY <1>2, TogetherIs DEF Stream
  <2>2. /\ Chain(Stream)
        /\ \A x \in ToSet(Stream) : x.epoch <= epochs /\ (IsEvent(x) => x \in given)
        /\ \A x \in ToSet(Stream) :
             /\ IsHeader(x) => x.epoch = journal.epoch
             /\ x.epoch = journal.epoch => x.seq <= journal.seq
    BY <1>1 DEF IInv, Logged
  <2>3. \A x \in ToSet(Stream) : x \in Line
    BY StreamIs DEF IInv
  <2>4. \A x \in ToSet(Stream) : x.event <= taken
    BY <1>2, <2>2, <2>3, Shapes DEF IInv, Given
  <2>5. journal.header => \A x \in ToSet(Stream) : ~IsHeader(x)
    <3>1. journal.header => ToSet(Stream) = ToSet(File!AllLines(file))
      BY <1>2, StreamIs, Short DEF IInv, Present
    <3> QED
      BY <3>1 DEF IInv, Unbegun
  <2> QED
    BY <2>1, <2>2, <2>3, <2>4, <2>5
<1>9. Stream' = (Stream \o e) \o <<l>>
  BY <1>1, <1>6 DEF Stream
<1>10. /\ Chain(Stream') /\ ToSet(Stream') = ToSet(Stream) \cup (ToSet(e) \cup {l})
  <2> DEFINE u == Stream \o e
  <2>1. Before(ToSet(Stream), ToSet(e))
    <3>1. e # <<>> => \A x \in ToSet(Stream) : Follows(x, h)
      BY <1>3, <1>7, <1>8 DEF Follows
    <3>2. e = <<>> => ToSet(e) = {}
      BY Short
    <3> QED
      BY <1>7, <3>1, <3>2 DEF Before
  <2>2. u \in Seq(Line) /\ ToSet(u) = ToSet(Stream) \cup ToSet(e) /\ Chain(u)
    BY <1>7, <1>8, <2>1, Joined
  <2> HIDE DEF u
  <2>3. Before(ToSet(u), {l})
    <3>1. \A x \in ToSet(Stream) : Follows(x, l)
      <4>1. \A x \in ToSet(Stream) : x.event < taken + 1
        BY <1>2, <1>8, Shapes
      <4>2. \A x \in ToSet(Stream) : x.epoch = journal.epoch => x.seq < journal.seq + 1
        BY <1>2, <1>8, Shapes
      <4> QED
        BY <1>3, <1>8, <4>1, <4>2 DEF Follows
    <3>2. Follows(h, l)
      BY <1>2, <1>3 DEF Follows
    <3> QED
      BY <1>7, <2>2, <3>1, <3>2 DEF Before
  <2>4. Chain(u \o <<l>>) /\ ToSet(u \o <<l>>) = ToSet(u) \cup {l}
    <3> DEFINE y == <<l>>
    <3>1. y \in Seq(Line) /\ ToSet(y) = {l} /\ Chain(y)
      BY <1>7
    <3> HIDE DEF y
    <3>2. Chain(u \o y) /\ ToSet(u \o y) = ToSet(u) \cup ToSet(y)
      BY <2>2, <2>3, <3>1, Joined
    <3> QED
      BY <3>1, <3>2 DEF y
  <2> QED
    BY <1>9, <2>2, <2>4 DEF u
<1>11. Counters'
  BY <1>1, <1>2 DEF IInv, Counters, bounds
<1>12. LET d == client' IN
       /\ d \in Reader /\ d.base = client.base /\ d.stale = client.stale
       /\ client.held \subseteq d.held /\ d.held \subseteq given' /\ d.epoch <= epochs
       /\ Cursor(client) <= Cursor(d)
       /\ d.epoch = NoEpoch => d.held = {}
       /\ Whole(d.epoch) => \A x \in d.held : x.epoch = d.epoch
       /\ conn # "off" /\ client.epoch \in {NoEpoch, journal.epoch} =>
            /\ d.epoch \in {NoEpoch, journal.epoch}
            /\ Whole(journal.epoch) /\ Unique(given', journal.epoch)
                 => (l.seq > client.base => l \in d.held)
       /\ conn = "off" => d = client
  <2>1. CASE conn = "off"
    <3>1. client' = client /\ client.held \subseteq given'
      BY <1>1, <2>1 DEF IInv, Given
    <3>2. Cursor(client) \in Nat
      BY <1>2, CursorIs
    <3> QED
      BY <1>2, <2>1, <3>1, <3>2 DEF IInv, Types, OneEpoch
  <2>2. CASE conn # "off"
    <3> DEFINE I == {1}
               s == <<l>>
    <3>1. /\ I \in SUBSET (DOMAIN s) /\ s \in Seq(Line) /\ 1 \in I
          /\ \A i \in I : s[i] = l /\ s[i] \in given' /\ IsEvent(s[i]) /\ s[i].epoch <= epochs
      BY <1>1, <1>2, <1>3, <1>7
    <3>2. given \subseteq given' /\ client' = Received(client, s, I)
      BY <1>1, <2>2
    <3> HIDE DEF I, s
    <3>3. Types /\ Given /\ OneEpoch
      BY DEF IInv
    <3> DEFINE d == Received(client, s, I)
    <3>4. Digested(given', s, I, d)
      BY <3>1, <3>2, <3>3, Takes
    <3> HIDE DEF d
    <3>5. d = client'
      BY <3>2 DEF d
    <3> QED
      BY <1>3, <2>2, <3>1, <3>4, <3>5 DEF Digested
  <2> QED
    BY <2>1, <2>2
<1>13. Types' /\ Given'
  <2>1. /\ tail' \in Seq(Line) /\ given' \subseteq Line
    BY <1>1, <1>2, <1>3, LastLines
  <2>2. Types'
    <3>1. journal'.seq <= taken'
      BY <1>1, <1>2, <1>5
    <3>2. client' \in Reader /\ client'.epoch <= epochs' /\ client'.base <= taken'
      <4>1. client.base \in Nat /\ client.base <= taken
        BY DEF IInv, Types, Reader
      <4> QED
        BY <1>1, <1>2, <1>12, <4>1
    <3>3. /\ file' \in LogFile /\ Len(file'.tail) <= 1 /\ session' = "open"
          /\ conn' \in {"off", "draining", "flushing", "reading", "answering", "unanswered", "live"}
      BY <1>1 DEF IInv, Types
    <3> QED
      BY <1>1, <1>2, <1>5, <2>1, <3>1, <3>2, <3>3 DEF Types
  <2>3. \A x \in given' : IsEvent(x) /\ x.epoch <= epochs /\ x.event <= taken + 1
    <3>1. \A x \in given : x.event \in Nat
      BY <1>2, Shapes
    <3> QED
      BY <1>1, <1>2, <1>3, <3>1 DEF IInv, Given
  <2> QED
    BY <1>1, <1>12, <2>2, <2>3 DEF Given
<1>14. Logged'
  <2>1. \A x \in ToSet(Stream') :
          /\ x.epoch <= epochs /\ (IsEvent(x) => x \in given')
          /\ IsHeader(x) => x.epoch = journal.epoch
          /\ x.epoch = journal.epoch => x.seq <= journal.seq + 1
    <3>1. \A x \in ToSet(Stream) : x.epoch = journal.epoch => x.seq <= journal.seq + 1
      BY <1>2, <1>8, Shapes
    <3>2. ~IsHeader(l)
      BY <1>3, Shapes
    <3> QED
      BY <1>1, <1>2, <1>3, <1>7, <1>8, <1>10, <3>1, <3>2
  <2>2. \A x \in ToSet(journal'.batch) \cup ToSet(journal'.pending) : x.epoch = journal.epoch
    <3>1. \A x \in ToSet(journal.batch) \cup ToSet(journal.pending) : x.epoch = journal.epoch
      BY DEF IInv, Logged
    <3> QED
      BY <1>3, <1>6, <1>7, <3>1
  <2> QED
    BY <1>1, <1>5, <1>10, <2>1, <2>2 DEF Logged
<1>15. Unbegun'
  BY <1>5 DEF Unbegun
<1>16. Recent'
  <2>1. /\ Len(tail) <= Buffer /\ Len(tail) \in Nat
        /\ \A i \in DOMAIN tail :
             /\ tail[i] \in given /\ tail[i].epoch = journal.epoch
             /\ tail[i].seq = (journal.seq - Len(tail)) + i
        /\ EndsIn(journal.epoch) \/ journal.seq = Len(tail) \/ Len(tail) = Buffer
        /\ conn \in {"flushing", "reading"} => EndsIn(journal.epoch)
    BY <1>1, <1>2, Members DEF IInv, Recent
  <2>2. /\ tail' \in Seq(Line) /\ Len(tail') <= Buffer
        /\ Len(tail') = Len(tail) + 1 \/ Len(tail') = Buffer
        /\ Len(tail) = Buffer => Len(tail') = Buffer
        /\ \A i \in DOMAIN tail' : LET k == (i + (Len(tail) + 1)) - Len(tail') IN
             (k \in DOMAIN tail /\ tail'[i] = tail[k]) \/ (k = Len(tail) + 1 /\ tail'[i] = l)
    <3> DEFINE t == LastOf(Append(tail, l))
    <3>1. /\ t \in Seq(Line) /\ Len(t) <= Buffer
          /\ Len(t) = Len(tail) + 1 \/ Len(t) = Buffer
          /\ Len(tail) = Buffer => Len(t) = Buffer
          /\ \A i \in DOMAIN t : LET k == (i + (Len(tail) + 1)) - Len(t) IN
               (k \in DOMAIN tail /\ t[i] = tail[k]) \/ (k = Len(tail) + 1 /\ t[i] = l)
      BY <1>2, <1>3, LastLines
    <3> HIDE DEF t
    <3>2. t = tail'
      BY <1>1 DEF t
    <3> QED
      BY <3>1, <3>2
  <2>3. ASSUME NEW i \in DOMAIN tail'
        PROVE  /\ tail'[i] \in given' /\ tail'[i].epoch = journal.epoch
               /\ tail'[i].seq = ((journal.seq + 1) - Len(tail')) + i
    <3> DEFINE k == (i + (Len(tail) + 1)) - Len(tail')
    <3>1. Len(tail') \in Nat /\ i \in Nat
      BY <2>2, Members
    <3>2. (k \in DOMAIN tail /\ tail'[i] = tail[k]) \/ (k = Len(tail) + 1 /\ tail'[i] = l)
      BY <2>2
    <3>3. /\ tail'[i] \in given' /\ tail'[i].epoch = journal.epoch
          /\ tail'[i].seq = (journal.seq - Len(tail)) + k
      <4>1. CASE k \in DOMAIN tail /\ tail'[i] = tail[k]
        BY <1>1, <2>1, <4>1
      <4>2. CASE k = Len(tail) + 1 /\ tail'[i] = l
        <5> HIDE DEF k
        <5>1. (journal.seq - Len(tail)) + k = journal.seq + 1
          <6> DEFINE n == Len(tail)
                     z == journal.seq
          <6>1. n \in Nat /\ z \in Nat /\ k = n + 1
            BY <1>2, <2>1, <4>2
          <6> HIDE DEF n, z
          <6>2. (z - n) + k = z + 1
            BY <6>1
          <6> QED
            BY <6>2 DEF n, z
        <5> QED
          BY <1>1, <1>3, <4>2, <5>1
      <4> QED
        BY <3>2, <4>1, <4>2
    <3>4. (journal.seq - Len(tail)) + k = ((journal.seq + 1) - Len(tail')) + i
      <4> DEFINE n == Len(tail)
                 v == Len(tail')
                 z == journal.seq
      <4>1. n \in Nat /\ v \in Nat /\ z \in Nat /\ i \in Nat /\ k = (i + (n + 1)) - v
        BY <1>2, <2>1, <3>1
      <4> HIDE DEF n, v, z, k
      <4>2. (z - n) + k = ((z + 1) - v) + i
        BY <4>1
      <4> QED
        BY <4>2 DEF n, v, z
    <3> QED
      BY <3>3, <3>4
  <2>4. EndsIn(journal.epoch)' <=> EndsIn(journal.epoch)
    BY <1>1, <1>5 DEF EndsIn
  <2>5. journal.seq = Len(tail) => journal.seq + 1 = Len(tail') \/ Len(tail') = Buffer
    BY <2>2
  <2> QED
    BY <1>1, <1>5, <2>1, <2>2, <2>3, <2>4, <2>5 DEF Recent
<1>17. \A x : Whole(x)' <=> Whole(x)
  BY <1>1 DEF Whole
<1>18. OneEpoch'
  BY <1>1, <1>5, <1>12, <1>17 DEF IInv, OneEpoch
<1>19. Supplied'
  <2>1. SUFFICES ASSUME Served', conn \in {"flushing", "reading", "answering", "live"}
                 PROVE  Supplied'
    BY <1>1 DEF Supplied
  <2>2. Served /\ Unique(given', journal.epoch) /\ client.epoch \in {NoEpoch, journal.epoch}
    <3>1. ~client.stale /\ Whole(journal.epoch) /\ Unique(given', journal.epoch)
      BY <1>5, <1>12, <1>17, <2>1 DEF Served
    <3>2. Unique(given, journal.epoch)
      BY <1>1, <3>1 DEF Unique
    <3> QED
      BY <2>1, <3>1, <3>2 DEF IInv, OneEpoch, Served
  <2>3. l.seq > client.base => l \in client'.held
    BY <1>12, <2>1, <2>2 DEF Served
  <2>4. \A x \in ToSet(Stream') \cup ToSet(journal'.batch) \cup ToSet(journal'.pending) :
          Due(x)' => x # l /\ ~(x = h)
    BY <1>3, <1>12, <2>3 DEF Due
  <2>5. \A x : Due(x)' => Due(x)
    BY <1>5, <1>12 DEF Due
  <2>6. \A x \in ToSet(Stream') : Due(x)' => x \in ToSet(Stream) /\ Due(x)
    BY <1>7, <1>10, <2>4, <2>5
  <2>7. \A x \in ToSet(journal'.batch) \cup ToSet(journal'.pending) :
          Due(x)' => x \in ToSet(journal.batch) \cup ToSet(journal.pending) /\ Due(x)
    BY <1>6, <1>7, <2>4, <2>5
  <2>8. ASSUME NEW w \in Nat, Reached(w) PROVE Reached(w)'
    <3>1. w - Cursor(client') <= Buffer
      <4>1. Cursor(client) \in Nat /\ Cursor(client') \in Nat /\ Cursor(client) <= Cursor(client')
        BY <1>2, <1>12, CursorIs
      <4> QED
        BY <2>8, <4>1, StreamAssumption DEF Reached
    <3> QED
      BY <2>6, <2>8, <3>1 DEF Reached
  <2> QED
    BY <1>1, <2>2, <2>6, <2>7, <2>8 DEF IInv, Supplied
<1> QED
  BY <1>11, <1>13, <1>14, <1>15, <1>16, <1>18, <1>19 DEF IInv

\* A client has every event up to its cursor.
LEMMA DueBehind ==
  ASSUME IInv, Served, client.epoch \in {NoEpoch, journal.epoch}, NEW x \in ToSet(Stream), Due(x)
  PROVE  x.seq > Cursor(client)
<1>1. /\ x \in given /\ x.seq \in Nat /\ x.epoch = journal.epoch /\ x.seq > client.base
      /\ client \in Reader /\ client.base \in Nat /\ Cursor(client) \in Nat
  <2>1. client \in Reader /\ x \in Line /\ x \in given
    BY StreamIs DEF IInv, Types, Logged, Due
  <2> QED
    BY <2>1, CursorIs, Shapes DEF Due, Reader
<1>2. SUFFICES ASSUME x.seq <= Cursor(client) PROVE FALSE
  BY <1>1
<1>3. x.seq \in Known(client)
  BY <1>1, <1>2, CursorIs
<1>4. x \in client.held
  BY <1>1, <1>3, KnownHeld DEF IInv, Served
<1> QED
  BY <1>4 DEF Due

\* The tail has every event behind its first number.
LEMMA TailHas ==
  ASSUME IInv, Unique(given, journal.epoch), TailReaches(tail, Cursor(client)), session = "open",
         NEW x \in ToSet(Stream), IsEvent(x), x.epoch = journal.epoch, x.seq > Cursor(client)
  PROVE  \E i \in DOMAIN tail : x = tail[i]
<1> DEFINE n == Len(tail)
           z == journal.seq
           i == (x.seq - z) + n
           c == Cursor(client)
<1>1. /\ tail \in Seq(Line) /\ n \in Nat /\ DOMAIN tail = 1 .. n /\ z \in Nat /\ c \in Nat
      /\ x \in given /\ x.seq \in Nat /\ x.seq <= z /\ x.seq > c
  <2>1. tail \in Seq(Line) /\ journal \in Journal /\ client \in Reader /\ x \in Line
    BY StreamIs DEF IInv, Types
  <2>2. x \in given /\ x.seq <= journal.seq
    BY DEF IInv, Logged
  <2> QED
    BY <2>1, <2>2, Members, CursorIs, Shapes DEF Journal
<1>2. \A k \in 1 .. n : tail[k] \in given /\ tail[k].epoch = journal.epoch /\ tail[k].seq = (z - n) + k
  BY <1>1 DEF IInv, Recent
<1>3. n # 0 /\ tail[1].seq <= c + 1
  BY <1>1, EmptySeq DEF TailReaches
<1> HIDE DEF n, z, c
<1>4. i \in 1 .. n
  <2>1. 1 \in 1 .. n
    BY <1>1, <1>3
  <2>2. (z - n) + 1 <= c + 1
    BY <1>2, <1>3, <2>1
  <2> DEFINE y == x.seq
  <2>3. y \in Nat /\ y <= z /\ y > c /\ i = (y - z) + n
    BY <1>1
  <2> HIDE DEF y, i
  <2> QED
    BY <1>1, <2>2, <2>3
<1>5. tail[i].seq = x.seq
  <2>1. (z - n) + i = x.seq
    BY <1>1
  <2> HIDE DEF i
  <2> QED
    BY <1>2, <1>4, <2>1
<1>6. tail[i] = x
  BY <1>1, <1>2, <1>4, <1>5 DEF Unique
<1> QED
  BY <1>1, <1>4, <1>6

\* A client is served from the tail, is sent to the disk or has to begin anew.
LEMMA AnswerStep == ASSUME IInv, GetBufferedSince PROVE IInv'
<1> DEFINE from == Cursor(client)
           I == {i \in DOMAIN tail : tail[i].seq > from}
<1>1. /\ UNCHANGED <<file, session, journal, tail, published, taken, given, epochs, bounds>>
      /\ conn = "draining" /\ session = "open"
  BY DEF GetBufferedSince, Drained
<1>2. /\ Stream' = Stream /\ Logged' /\ Unbegun' /\ \A e : Whole(e)' <=> Whole(e)
      /\ (conn' \in {"flushing", "reading"} => EndsIn(journal.epoch)) => Recent'
  BY <1>1, ServerRests
<1>3. /\ client \in Reader /\ client.epoch <= epochs /\ client.base <= taken /\ tail \in Seq(Line)
      /\ journal.epoch \in Nat /\ journal.seq \in Nat /\ from \in Nat /\ Buffer \in Nat \ {0}
      /\ given \subseteq Line
  <2>1. client \in Reader /\ journal \in Journal
    BY DEF IInv, Types
  <2> QED
    BY <2>1, CursorIs, StreamAssumption DEF IInv, Types, Journal
<1>4. Counters'
  BY <1>1 DEF IInv, Counters, bounds
<1>5. ASSUME client' \in Reader, client'.epoch <= epochs, client'.base = client.base,
             client'.held \subseteq given, conn' \in {"answering", "flushing"}
      PROVE  Types' /\ Given'
  BY <1>1, <1>3, <1>5 DEF IInv, Types, Given
<1>6. CASE MustResync(client) /\ conn' = "answering" /\ client' = [client EXCEPT !.stale = TRUE]
  <2>1. /\ client' \in Reader /\ client'.epoch = client.epoch /\ client'.base = client.base
        /\ client'.held = client.held /\ client'.stale
    BY <1>3, <1>6 DEF Reader
  <2>2. Types' /\ Given'
    BY <1>3, <1>5, <1>6, <2>1 DEF IInv, Given
  <2>3. OneEpoch'
    BY <1>1, <1>2, <2>1 DEF IInv, OneEpoch
  <2>4. Supplied'
    BY <2>1 DEF Supplied, Served
  <2> QED
    BY <1>2, <1>4, <1>6, <2>2, <2>3, <2>4 DEF IInv
<1>7. ASSUME ~MustResync(client)
      PROVE  /\ client.epoch \in {NoEpoch, journal.epoch} /\ from <= journal.seq
             /\ journal.seq - from <= Buffer
  BY <1>3, <1>7 DEF MustResync
<1>8. \A x \in ToSet(Stream) : x.epoch = journal.epoch => x.seq <= journal.seq /\ x.seq \in Nat
  <2>1. \A x \in ToSet(Stream) : x.seq \in Nat
    BY StreamIs, Shapes DEF IInv
  <2> QED
    BY <1>1, <2>1 DEF IInv, Logged
<1>9. ASSUME UNCHANGED client PROVE (Served' <=> Served) /\ \A x : Due(x)' <=> Due(x)
  BY <1>1, <1>2, <1>9 DEF Served, Due
<1>10. ASSUME UNCHANGED client, ~MustResync(client) PROVE OneEpoch'
  BY <1>1, <1>2, <1>7, <1>10 DEF IInv, OneEpoch
<1>11. CASE ~MustResync(client) /\ from = journal.seq /\ conn' = "answering" /\ UNCHANGED client
  <2>1. Types' /\ Given'
    BY <1>3, <1>5, <1>11 DEF IInv, Given
  <2>2. OneEpoch'
    BY <1>10, <1>11
  <2>3. Supplied'
    <3>1. SUFFICES ASSUME Served, NEW x \in ToSet(Stream), Due(x) PROVE FALSE
      BY <1>2, <1>9, <1>11 DEF Supplied
    <3>2. x.seq > from
      BY <1>7, <1>11, <3>1, DueBehind
    <3>3. x.seq <= journal.seq /\ x.seq \in Nat
      BY <1>8, <3>1 DEF Due
    <3> QED
      BY <1>3, <1>11, <3>2, <3>3
  <2> QED
    BY <1>2, <1>4, <1>11, <2>1, <2>2, <2>3 DEF IInv
<1>12. CASE /\ ~MustResync(client) /\ from < journal.seq /\ TailReaches(tail, from)
            /\ conn' = "answering" /\ client' = Received(client, tail, I)
  <2>1. \A i \in I : /\ tail[i] \in given /\ IsEvent(tail[i]) /\ tail[i].epoch <= epochs
                     /\ tail[i].epoch = journal.epoch
    BY DEF IInv, Recent, Given
  <2>2. LET d == client' IN
        /\ d \in Reader /\ d.base = client.base /\ d.stale = client.stale
        /\ client.held \subseteq d.held /\ d.held \subseteq given /\ d.epoch <= epochs
        /\ d.epoch = NoEpoch => d.held = {}
        /\ Whole(d.epoch) => \A l \in d.held : l.epoch = d.epoch
        /\ d.epoch \in {NoEpoch, journal.epoch}
        /\ Whole(journal.epoch) /\ Unique(given, journal.epoch)
             => \A i \in I : tail[i].seq > client.base => tail[i] \in d.held
    <3>1. Types /\ Given /\ OneEpoch /\ I \in SUBSET (DOMAIN tail) /\ given \subseteq given
      BY DEF IInv
    <3> HIDE DEF I
    <3> DEFINE d == Received(client, tail, I)
    <3>2. Digested(given, tail, I, d)
      <4>1. \A i \in I : tail[i] \in given /\ IsEvent(tail[i]) /\ tail[i].epoch <= epochs
        BY <2>1
      <4> QED
        BY <1>3, <3>1, <4>1, Takes
    <3> HIDE DEF d
    <3>3. d = client'
      BY <1>12 DEF d
    <3> QED
      BY <1>7, <1>12, <2>1, <3>2, <3>3 DEF Digested
  <2>3. Types' /\ Given'
    BY <1>5, <1>12, <2>2
  <2>4. OneEpoch'
    BY <1>1, <1>2, <2>2 DEF OneEpoch
  <2>5. Supplied'
    <3>1. SUFFICES ASSUME Served, NEW x \in ToSet(Stream), Due(x), x \notin client'.held PROVE FALSE
      BY <1>1, <1>2, <1>12, <2>2 DEF Supplied, Served, Due
    <3>2. x.seq > from
      BY <1>7, <1>12, <3>1, DueBehind
    <3>3. PICK i \in DOMAIN tail : x = tail[i]
      BY <1>1, <1>12, <3>1, <3>2, TailHas DEF Served, Due
    <3>4. i \in I
      BY <3>2, <3>3
    <3> HIDE DEF I
    <3> QED
      BY <2>2, <3>1, <3>3, <3>4 DEF Served, Due
  <2> QED
    BY <1>2, <1>4, <1>12, <2>3, <2>4, <2>5 DEF IInv
<1>13. CASE /\ ~MustResync(client) /\ from < journal.seq /\ ~TailReaches(tail, from)
            /\ conn' = "flushing" /\ UNCHANGED client
  <2>1. Types' /\ Given'
    BY <1>3, <1>5, <1>13 DEF IInv, Given
  <2>2. OneEpoch'
    BY <1>10, <1>13
  <2>3. EndsIn(journal.epoch)
    <3> DEFINE n == Len(tail)
               z == journal.seq
    <3>1. /\ n \in Nat /\ z \in Nat /\ from < z /\ z - from <= Buffer
          /\ n = 0 \/ (tail[1].seq = (z - n) + 1 /\ tail[1].seq > from + 1)
      <4>1. n \in Nat /\ (n # 0 => 1 \in DOMAIN tail /\ tail # <<>>)
        BY <1>3, Members, EmptySeq
      <4>2. n # 0 => tail[1].seq = (z - n) + 1
        BY <4>1 DEF IInv, Recent
      <4>3. n # 0 => ~(tail[1].seq <= from + 1)
        BY <1>13, <4>1 DEF TailReaches
      <4> HIDE DEF n, z, from
      <4>4. n # 0 => tail[1].seq > from + 1
        BY <1>3, <4>1, <4>2, <4>3 DEF z
      <4> QED
        BY <1>3, <1>7, <1>13, <4>1, <4>2, <4>4 DEF z, from
    <3> HIDE DEF n, z, from
    <3>2. z # n /\ n # Buffer
      BY <1>3, <3>1
    <3> QED
      BY <1>1, <3>2 DEF IInv, Recent, n, z
  <2>4. Supplied'
    <3>1. Reached(journal.seq)'
      <4>1. Cursor(client') = from
        BY <1>13
      <4>2. \A x \in ToSet(Stream) : x.seq > journal.seq => ~Due(x)
        BY <1>3, <1>8 DEF Due
      <4>3. journal.seq' = journal.seq /\ journal.seq - from <= Buffer
        BY <1>1, <1>7, <1>13
      <4>4. \A x \in ToSet(Stream') : x.seq > journal.seq => ~Due(x)'
        BY <1>2, <1>9, <1>13, <4>2
      <4> HIDE DEF from
      <4> QED
        BY <4>1, <4>3, <4>4 DEF Reached
    <3> QED
      BY <1>1, <1>3, <1>13, <3>1 DEF Supplied
  <2> QED
    BY <1>2, <1>4, <1>13, <2>1, <2>2, <2>3, <2>4 DEF IInv
<1> QED
  BY <1>6, <1>11, <1>12, <1>13 DEF GetBufferedSince

\* Few events of an epoch are between two numbers.
LEMMA FewBetween ==
  ASSUME NEW s \in Seq(Line), Chain(s), NEW e, NEW from \in Nat,
         NEW K \in SUBSET (DOMAIN s), NEW i \in DOMAIN s,
         \A k \in K : k < i /\ s[k].epoch = e /\ s[k].seq > from /\ IsEvent(s[k]),
         IsEvent(s[i]), s[i].epoch = e, s[i].seq > from
  PROVE  Cardinality(K) < s[i].seq - from
<1> DEFINE top == s[i].seq
           T == (from + 1) .. (top - 1)
           f == [k \in K |-> s[k].seq]
<1>1. top \in Nat /\ \A k \in K : s[k].seq \in Nat
  BY Members, Shapes
<1>2. \A k \in K : s[k].seq < top
  BY DEF Chain, Follows
<1>3. \A k, m \in K : k # m => s[k].seq # s[m].seq
  <2>1. \A k, m \in K : k < m => s[k].seq < s[m].seq
    BY DEF Chain, Follows
  <2>2. \A k \in K : k \in Nat
    BY Members
  <2>3. SUFFICES ASSUME NEW k \in K, NEW m \in K, k # m PROVE s[k].seq # s[m].seq
    OBVIOUS
  <2>4. k < m \/ m < k
    BY <2>2, <2>3
  <2> QED
    BY <1>1, <2>1, <2>4
<1> HIDE DEF top
<1>4. f \in Injection(K, T)
  <2>1. f \in [K -> T]
    BY <1>1, <1>2
  <2> QED
    BY <1>3, <2>1 DEF Injection, IsInjective
<1>5. top > from
  BY DEF top
<1>6. IsFiniteSet(T) /\ Cardinality(T) = (top - from) - 1
  <2>1. from + 1 \in Int /\ top - 1 \in Int
    BY <1>1
  <2>2. IsFiniteSet(T) /\ Cardinality(T) = IF from + 1 > top - 1 THEN 0 ELSE ((top - 1) - (from + 1)) + 1
    BY <2>1, FS_Interval
  <2> QED
    BY <1>1, <1>5, <2>2
<1> HIDE DEF T, f
<1>7. Cardinality(K) <= Cardinality(T) /\ IsFiniteSet(K)
  BY <1>4, <1>6, FS_Injection
<1>8. Cardinality(K) \in Nat
  BY <1>7, FS_CardinalityType
<1> QED
  BY <1>1, <1>6, <1>7, <1>8 DEF top

\* A client reads what it lacks from the disk.
LEMMA ReadStep == ASSUME IInv, ReadSince PROVE IInv'
<1> DEFINE s == File!AllLines(file)
           from == Cursor(client)
           I == Since(s, from)
<1>1. /\ UNCHANGED <<file, session, journal, tail, published, taken, given, epochs, bounds>>
      /\ conn = "reading" /\ conn' = "answering" /\ session = "open"
      /\ client' = Received(client, s, I)
  BY DEF ReadSince, IInv, Types
<1>2. /\ Stream' = Stream /\ Logged' /\ Unbegun' /\ Recent' /\ \A e : Whole(e)' <=> Whole(e)
  BY <1>1, ServerRests
<1>3. /\ client \in Reader /\ s \in Seq(Line) /\ from \in Nat /\ Buffer \in Nat \ {0}
      /\ \A l \in ToSet(s) : l \in ToSet(Stream)
      /\ Chain(s) /\ ToSet(s) = ToSet(file.lines) \cup ToSet(file.tail)
      /\ \A i \in DOMAIN s : s[i] \in ToSet(s) /\ s[i] \in Line
  <2>1. client \in Reader /\ file \in LogFile
    BY DEF IInv, Types
  <2>2. s \in Seq(Line) /\ from \in Nat /\ Buffer \in Nat \ {0}
    BY <2>1, CursorIs, LinesOfFile, StreamAssumption
  <2>3. ToSet(s) \subseteq ToSet(Stream) /\ ToSet(s) = ToSet(file.lines) \cup ToSet(file.tail)
    BY StreamIs DEF IInv
  <2>4. Chain(s)
    <3>1. journal.batch \in Seq(Line) /\ journal.pending \in Seq(Line)
      BY DEF IInv, Types, Journal
    <3>2. Chain(Together(file, journal.batch, journal.pending))
      BY DEF IInv, Logged, Stream
    <3> QED
      BY <2>1, <3>1, <3>2, TogetherIs
  <2> QED
    BY <2>1, <2>2, <2>3, <2>4, Members
<1>4. I \in SUBSET (DOMAIN s) /\ \A i \in I : IsEvent(s[i])
  BY DEF Since
<1> HIDE DEF s, from, I
<1>5. \A i \in I : s[i] \in given /\ IsEvent(s[i]) /\ s[i].epoch <= epochs
  BY <1>3, <1>4 DEF IInv, Logged
<1>6. ASSUME Whole(journal.epoch), NEW l \in ToSet(s), IsEvent(l) PROVE l.epoch = journal.epoch
  BY <1>1, <1>3, <1>6, Shapes DEF IInv, Recent, Whole, EndsIn
<1>7. LET d == client' IN
      /\ d \in Reader /\ d.base = client.base /\ d.stale = client.stale
      /\ client.held \subseteq d.held /\ d.held \subseteq given /\ d.epoch <= epochs
      /\ d.epoch = NoEpoch => d.held = {}
      /\ Whole(d.epoch) => \A l \in d.held : l.epoch = d.epoch
      /\ client.epoch \in {NoEpoch, journal.epoch} /\ Whole(journal.epoch)
           => /\ d.epoch \in {NoEpoch, journal.epoch}
              /\ Unique(given, journal.epoch)
                   => \A i \in I : s[i].seq > client.base => s[i] \in d.held
  <2>1. Types /\ Given /\ OneEpoch /\ given \subseteq given
    BY DEF IInv
  <2> DEFINE d == Received(client, s, I)
  <2>2. Digested(given, s, I, d)
    BY <1>3, <1>4, <1>5, <2>1, Takes
  <2> HIDE DEF d
  <2>3. d = client'
    BY <1>1 DEF d
  <2>4. Whole(journal.epoch) => \A i \in I : s[i].epoch = journal.epoch
    BY <1>3, <1>4, <1>6
  <2> QED
    BY <2>2, <2>3, <2>4 DEF Digested
<1>8. Counters'
  BY <1>1 DEF IInv, Counters, bounds
<1>9. Types' /\ Given'
  BY <1>1, <1>7 DEF IInv, Types, Given
<1>10. OneEpoch'
  BY <1>1, <1>2, <1>7 DEF IInv, OneEpoch
<1>11. Supplied'
  <2>1. SUFFICES ASSUME Served, NEW x \in ToSet(Stream), Due(x), x \notin client'.held PROVE FALSE
    BY <1>1, <1>2, <1>7 DEF Supplied, Served, Due
  <2>2. client.epoch \in {NoEpoch, journal.epoch}
    BY <1>1, <2>1 DEF IInv, OneEpoch, Served
  <2>3. x.seq > from /\ x.seq \in Nat
    BY <2>1, <2>2, DueBehind, StreamIs, Shapes DEF IInv, from
  <2>4. PICK w \in Nat : Reached(w)
    BY <1>1, <2>1 DEF IInv, Supplied
  <2>5. x.seq <= w /\ w - from <= Buffer
    BY <2>1, <2>3, <2>4 DEF Reached, from
  <2>6. x \in ToSet(s)
    <3>1. x \notin ToSet(journal.batch) \cup ToSet(journal.pending)
      BY <1>1, <2>1 DEF IInv, Supplied
    <3> QED
      BY <2>1, <3>1, StreamIs DEF IInv, Present, s
  <2>7. PICK i \in DOMAIN s : x = s[i]
    BY <2>6 DEF ToSet
  <2> DEFINE later == {k \in DOMAIN s : IsEvent(s[k]) /\ s[k].seq > from}
             K == {k \in later : k < i}
  <2>8. Cardinality(K) < x.seq - from
    <3>1. K \in SUBSET (DOMAIN s)
      OBVIOUS
    <3>2. \A k \in K : k < i /\ s[k].seq > from /\ IsEvent(s[k])
      OBVIOUS
    <3>3. \A k \in K : s[k].epoch = journal.epoch
      BY <1>3, <1>6, <2>1, <3>1, <3>2 DEF Served
    <3>4. IsEvent(s[i]) /\ s[i].epoch = journal.epoch /\ s[i].seq > from
      BY <2>1, <2>3, <2>7 DEF Due
    <3> HIDE DEF K
    <3> QED
      BY <1>3, <2>7, <3>1, <3>2, <3>3, <3>4, FewBetween
  <2>9. Cardinality(K) < Buffer
    <3>1. Cardinality(K) \in Nat
      <4>1. K \in SUBSET (1 .. Len(s)) /\ 1 \in Int /\ Len(s) \in Int
        BY <1>3, Members
      <4>2. IsFiniteSet(1 .. Len(s))
        BY <4>1, FS_Interval
      <4> HIDE DEF K
      <4> QED
        BY <4>1, <4>2, FS_Subset, FS_CardinalityType
    <3> HIDE DEF K
    <3> QED
      BY <1>3, <2>3, <2>5, <2>8, <3>1
  <2>10. i \in I
    BY <2>1, <2>3, <2>7, <2>9 DEF I, Since, Due
  <2> QED
    BY <1>7, <2>1, <2>2, <2>7, <2>10 DEF Served, Due
<1> QED
  BY <1>2, <1>8, <1>9, <1>10, <1>11 DEF IInv

---------------------------------------------------------------------------
(* The invariant, and what the runs check.                                 *)

\* A step that changes nothing keeps the invariant.
LEMMA IdleStep == ASSUME IInv, UNCHANGED vars PROVE IInv'
<1>1. /\ UNCHANGED <<file, journal, tail, given, epochs, taken>> /\ session' = session
      /\ published' = published /\ conn' = conn /\ client' = client /\ UNCHANGED bounds
  BY DEF vars, bounds
<1>2. Stream' = Stream /\ Logged' /\ Unbegun' /\ Recent' /\ \A e : Whole(e)' <=> Whole(e)
  BY <1>1, ServerRests DEF IInv, Recent
<1>3. Counters' /\ Types' /\ Given'
  BY <1>1 DEF IInv, Counters, Types, Given, bounds
<1>4. OneEpoch'
  BY <1>1, <1>2 DEF IInv, OneEpoch
<1>5. Supplied'
  BY <1>1, <1>2 DEF IInv, Supplied, Served, Reached, Due
<1> QED
  BY <1>2, <1>3, <1>4, <1>5 DEF IInv

\* The inductive invariant: the types, the order of what is in the file and on its way
\* there, what the tail in memory reaches, and what a client that is served may lack.
THEOREM StreamInvariant == Spec => []IInv
<1>1. Init => IInv
  BY Begins
<1>2. IInv /\ [Next]_vars => IInv'
  <2> SUFFICES ASSUME IInv, [Next]_vars PROVE IInv'
    OBVIOUS
  <2>1. CASE Publish
    BY <2>1, PublishStep
  <2>2. CASE Open
    BY <2>2, OpenStep
  <2>3. CASE Dispatch
    BY <2>3, DispatchStep
  <2>4. CASE Written \/ WriteFails
    BY <2>4, WriteStep
  <2>5. CASE Connect
    BY <2>5, ConnectStep
  <2>6. CASE GetBufferedSince
    BY <2>6, AnswerStep
  <2>7. CASE Flush
    BY <2>7, FlushStep
  <2>8. CASE ReadSince
    BY <2>8, ReadStep
  <2>9. CASE Drop \/ ReadFails
    BY <2>9, DropStep
  <2>10. CASE Acknowledge
    BY <2>10, AcknowledgeStep
  <2>11. CASE Snapshot
    BY <2>11, SnapshotStep
  <2>12. CASE Crash
    BY <2>12, CrashStep
  <2>13. CASE UNCHANGED vars
    BY <2>13, IdleStep
  <2> QED
    BY <2>1, <2>2, <2>3, <2>4, <2>5, <2>6, <2>7, <2>8, <2>9, <2>10, <2>11, <2>12, <2>13
       DEF Next
<1> QED
  BY <1>1, <1>2, PTL DEF Spec

\* The lines that there are stay in the bounds of the run.
LEMMA Bounded ==
  ASSUME Counters
  PROVE  /\ \A l \in Line : l.epoch <= epochs /\ (IsEvent(l) => l.event <= taken) => l \in Lines
         /\ \A s \in Seq(Line) : ToSet(s) \subseteq Lines => s \in Seq(Lines)
<1>1. \A l \in Line : l.epoch <= epochs /\ (IsEvent(l) => l.event <= taken) => l \in Lines
  <2> SUFFICES ASSUME NEW l \in Line, l.epoch <= epochs, IsEvent(l) => l.event <= taken
               PROVE  l \in Lines
    OBVIOUS
  <2>1. /\ l.epoch \in Nat /\ l.seq \in Nat /\ l.event \in Nat /\ l.seq <= l.event
        /\ IsEvent(l) <=> l.event # 0
    BY Shapes
  <2>2. l.event <= N /\ epochs \in Nat /\ N \in Nat
    BY <2>1, StreamAssumption DEF Counters
  <2>3. l.epoch \in 0 .. epochs /\ l.seq \in 0 .. N /\ l.event \in 0 .. N
    BY <2>1, <2>2
  <2>4. l \in [epoch : Nat, seq : Nat, event : Nat]
    BY DEF Line
  <2> QED
    BY <2>3, <2>4 DEF Lines
<1>2. ASSUME NEW s \in Seq(Line), ToSet(s) \subseteq Lines PROVE s \in Seq(Lines)
  <2>1. \A i \in 1 .. Len(s) : s[i] \in Lines
    BY <1>2, Members
  <2>2. Len(s) \in Nat /\ s = [i \in 1 .. Len(s) |-> s[i]]
    BY LenProperties, Members
  <2> QED
    BY <2>1, <2>2, SeqDef
<1> QED
  BY <1>1, <1>2

\* The types that the run checks follow from the invariant.
LEMMA TypesHold == ASSUME IInv PROVE TypeOK
<1>1. Counters /\ Types /\ Given /\ Logged /\ Recent
  BY DEF IInv
<1>2. /\ file.lines \in Seq(Line) /\ file.tail \in Seq(Line) /\ tail \in Seq(Line)
      /\ journal.batch \in Seq(Line) /\ journal.pending \in Seq(Line) /\ given \subseteq Line
  BY <1>1 DEF Types, LogFile, Journal
<1>3. given \subseteq Lines
  BY <1>1, <1>2, Bounded DEF Given
<1>4. \A l \in ToSet(Stream) : l \in Lines
  <2>1. \A l \in ToSet(Stream) :
          l \in Line /\ l.epoch <= epochs /\ (IsEvent(l) => l.event <= taken)
    BY <1>1, StreamIs DEF Logged, Given
  <2> QED
    BY <1>1, <2>1, Bounded
<1>5. /\ ToSet(file.lines) \subseteq ToSet(Stream) /\ ToSet(file.tail) \subseteq ToSet(Stream)
      /\ ToSet(journal.batch) \subseteq ToSet(Stream)
      /\ ToSet(journal.pending) \subseteq ToSet(Stream)
  BY <1>1, StreamIs
<1>6. /\ file.lines \in Seq(Lines) /\ file.tail \in Seq(Lines)
      /\ journal.batch \in Seq(Lines) /\ journal.pending \in Seq(Lines)
  BY <1>1, <1>2, <1>4, <1>5, Bounded
<1>7. tail \in Seq(Lines)
  <2>1. ToSet(tail) \subseteq Lines
    BY <1>1, <1>3 DEF Recent, ToSet
  <2> QED
    BY <1>1, <1>2, <2>1, Bounded
<1>8. journal.epoch \in 0 .. epochs /\ journal.seq \in 0 .. N
  <2>1. journal.epoch \in Nat /\ journal.seq \in Nat /\ journal.seq <= taken
    BY <1>1 DEF Types, Journal
  <2>2. /\ epochs \in Nat /\ taken \in Nat /\ taken <= N
    BY <1>1, StreamAssumption DEF Counters
  <2>3. session = "open" \/ journal.epoch = 0
    BY <1>1 DEF Types, NoJournal, NewJournal, NoEpoch
  <2>4. journal.epoch <= epochs
    BY <1>1, <2>1, <2>2, <2>3 DEF Types
  <2> QED
    BY <2>1, <2>2, <2>4, StreamAssumption
<1>9. client.epoch \in 0 .. epochs /\ client.base \in 0 .. N
  <2>1. /\ client.epoch \in Nat /\ client.base \in Nat /\ client.epoch <= epochs
        /\ client.base <= taken
    BY <1>1 DEF Types, Reader
  <2>2. epochs \in Nat /\ taken \in Nat /\ taken <= N
    BY <1>1, StreamAssumption DEF Counters
  <2> QED
    BY <2>1, <2>2, StreamAssumption
<1>10. client.held \subseteq Lines /\ client.stale \in BOOLEAN
  BY <1>1, <1>3 DEF Types, Given, Reader
<1>11. journal.flushing \in BOOLEAN /\ journal.header \in BOOLEAN
  BY <1>1 DEF Types, Journal
<1>12. taken <= published
  BY <1>1, StreamAssumption DEF Counters
<1>13. /\ Len(file.tail) <= 1 /\ session \in {"none", "opening", "open"}
       /\ (journal.flushing <=> journal.batch # <<>>)
       /\ (session # "open" => journal = NoJournal /\ tail = <<>>)
       /\ conn \in {"off", "draining", "flushing", "reading", "answering", "unanswered", "live"}
  BY <1>1 DEF Types
<1>14. /\ Len(tail) <= Buffer /\ published \in 0 .. N /\ crashes \in 0 .. MaxCrashes
       /\ faults \in 0 .. MaxFaults /\ connects \in 0 .. MaxConnects
  BY <1>1 DEF Recent, Counters
<1> QED
  BY <1>3, <1>6, <1>7, <1>8, <1>9, <1>10, <1>11, <1>12, <1>13, <1>14 DEF TypeOK

\* A sequence of lines that is in order is one incarnation behind any header in it.
LEMMA BehindHeader ==
  ASSUME NEW s \in Seq(Line), Chain(s), NEW h \in DOMAIN s, NEW i \in DOMAIN s,
         NEW k \in DOMAIN s, IsHeader(s[h]), h <= i, i < k, s[k] # Torn
  PROVE  /\ s[k].epoch = s[h].epoch
         /\ IsEvent(s[k]) => s[i].seq < s[k].seq /\ s[i].event < s[k].event
<1>1. h \in Int /\ i \in Int /\ k \in Int /\ h < k /\ s[h] \in Line /\ s[i] \in Line /\ s[k] \in Line
  BY Members
<1>2. Follows(s[h], s[k]) /\ Follows(s[i], s[k])
  BY <1>1 DEF Chain
<1>3. s[k].epoch = s[h].epoch
  BY <1>2 DEF Follows
<1>4. s[i] = Torn \/ s[i].epoch = s[h].epoch
  <2>1. CASE h = i
    BY <2>1
  <2>2. CASE h < i
    BY <2>2 DEF Chain, Follows
  <2> QED
    BY <1>1, <2>1, <2>2
<1>5. ASSUME IsEvent(s[k]) PROVE s[i].seq < s[k].seq /\ s[i].event < s[k].event
  <2>1. s[i].event < s[k].event
    BY <1>2, <1>5 DEF Follows
  <2>2. CASE s[i].epoch = s[h].epoch
    BY <1>2, <1>3, <1>5, <2>1, <2>2 DEF Follows
  <2>3. CASE s[i] = Torn
    <3>1. s[i].seq = 0 /\ s[k].seq \in Nat /\ s[k].seq >= 1
      BY <1>1, <1>5, <2>3, Shapes
    <3> QED
      BY <2>1, <3>1
  <2> QED
    BY <1>4, <2>2, <2>3
<1> QED
  BY <1>3, <1>5

\* What follows a header in the journal is one incarnation of the session, with ascending
\* numbers and events, after any crashes and failing writes and for any number of events.
THEOREM OneIncarnationHolds == Spec => []JournalOK
<1>1. IInv => JournalOK
  <2> SUFFICES ASSUME IInv PROVE JournalOK
    OBVIOUS
  <2>1. TypeOK
    BY TypesHold
  <2>2. OneIncarnation
    <3> DEFINE s == File!AllLines(file)
    <3>1. file \in LogFile /\ journal.batch \in Seq(Line) /\ journal.pending \in Seq(Line)
      BY DEF IInv, Types, Journal
    <3>2. s \in Seq(Line) /\ Chain(s)
      BY <3>1, LinesOfFile, TogetherIs DEF IInv, Logged, Stream
    <3> HIDE DEF s
    <3>3. \A h, i, k \in DOMAIN s : IsHeader(s[h]) /\ h <= i /\ i < k /\ s[k] # Torn =>
            /\ s[k].epoch = s[h].epoch
            /\ IsEvent(s[k]) => s[i].seq < s[k].seq /\ s[i].event < s[k].event
      BY <3>2, BehindHeader
    <3> QED
      BY <3>3 DEF s, OneIncarnation
  <2> QED
    BY <2>1, <2>2 DEF JournalOK
<1> QED
  BY <1>1, StreamInvariant, PTL

\* A client that was brought up to date has every event that the server still has, by way
\* of the tail, the journal or live, whatever was lost, failed or raced on the way.
THEOREM NoGapHolds == Spec => []NoGap
<1>1. IInv => NoGap
  <2> SUFFICES ASSUME IInv, conn = "live", ~client.stale, ~GivenTwice(journal.epoch),
                      \A l \in ToSet(File!AllLines(file)) : l # Torn => l.epoch = journal.epoch,
                      NEW l \in Kept, IsEvent(l), l.seq > client.base
               PROVE  l \in client.held
    BY DEF NoGap
  <2>1. Types /\ Logged /\ Supplied
    BY DEF IInv
  <2>2. /\ Kept = ToSet(Stream) /\ l \in Line
        /\ ToSet(File!AllLines(file)) = ToSet(file.lines) \cup ToSet(file.tail)
    BY <2>1, StreamIs DEF Kept, Present
  <2>3. Unique(given, journal.epoch)
    BY DEF Unique, GivenTwice
  <2>4. Whole(journal.epoch)
    BY <2>2 DEF Whole
  <2>5. ~Due(l)
    BY <2>1, <2>2, <2>3, <2>4 DEF Supplied, Served
  <2>6. l.epoch = journal.epoch
    <3>1. l # Torn
      BY Shapes
    <3> QED
      BY <2>1, <3>1 DEF Kept, Logged
  <2> QED
    BY <2>5, <2>6 DEF Due
<1> QED
  BY <1>1, StreamInvariant, PTL

=============================================================================
