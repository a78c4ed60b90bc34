-------------------------- MODULE RecordLog_proofs --------------------------
(***************************************************************************)
(* Proofs about RecordLog, for any number of records, crashes and failing  *)
(* batches: what a flush vouched for is read back, in order and once, and  *)
(* nothing pending is stranded.                                            *)
(***************************************************************************)
EXTENDS RecordLog, SequenceTheorems, FiniteSetTheorems, TLAPS

\* A file and a persistence, as records.
LogFile == [lines : Seq(Line), tail : {<<>>} \cup {<<x>> : x \in Line}]

Persistence ==
  [pending : Seq(Record), shouldClear : BOOLEAN, error : BOOLEAN, metadata : BOOLEAN,
   phase : {"idle", "taken", "open", "settling"}, batch : Seq(Record), wipe : BOOLEAN]

\* There is a process that reads or writes.
Alive == life \in {"replaying", "up"}

\* A line of the older version is in the file.
IsOld(f) ==
  (\E i \in DOMAIN f.lines : f.lines[i] = OldMetadata) \/ f.tail = <<OldMetadata>>

\* A log begins with its metadata and ascends; only its first line is no record.
InOrder(s) ==
  /\ s # <<>> => s[1] \in {Metadata, OldMetadata}
  /\ \A i \in DOMAIN s : i > 1 => s[i] >= 1
  /\ \A i, j \in DOMAIN s : i < j => s[i] < s[j]

\* No record of a log is newer than the last one.
UpTo(s, n) == \A i \in DOMAIN s : s[i] <= n

\* The file as it will be when all that is pending is written.
Whole(f, q) ==
  IF q.wipe THEN q.batch \o q.pending ELSE (ReadBack(f) \o q.batch) \o q.pending

Types ==
  /\ file \in LogFile
  /\ life \in {"down", "replaying", "up", "refused"}
  /\ waiting \subseteq 0 .. N /\ held \subseteq 1 .. N /\ confirmed \subseteq 1 .. N
  /\ last \in 0 .. N /\ cut \in BOOLEAN /\ torn \in BOOLEAN /\ glued \in BOOLEAN
  /\ crashes \in 0 .. MaxCrashes /\ faults \in 0 .. MaxFaults

\* Where a persistence can be: a rewrite is taken at once, an error ends all writing, and
\* what is pending is on its way.
Sane(q) ==
  /\ q \in Persistence /\ ~q.shouldClear
  /\ q.phase \in {"idle", "settling"} => q.batch = <<>> /\ ~q.wipe
  /\ q.error => q.phase \in {"idle", "settling"}
  /\ ~q.error /\ q.pending # <<>> => q.phase # "idle"

\* A rewrite belongs to the replay, and nothing is logged before that is over.
Phases ==
  /\ Sane(p)
  /\ life = "replaying" => p.pending = <<>> /\ p.metadata
  /\ p.phase \in {"taken", "open"} => (p.wipe <=> life = "replaying")
  /\ ~Alive => p = NewPersistence /\ held = {}

\* A file that could be read is written anew once; what is left of it is not of the older
\* version.
Rewrites ==
  /\ life = "replaying" => ~Corrupted(file)
  /\ cut => ~IsOld(file)
  /\ p.wipe => p.batch # <<>>
  /\ p.wipe /\ p.phase = "taken" => ~cut
  /\ p.wipe /\ p.phase = "open" => file = File!Empty

\* Only a line that was torn when a process began is written behind.
Tears ==
  /\ glued \/ Corrupted(file) => torn
  /\ life = "up" /\ ~p.error /\ file.tail # <<>> => torn
  /\ life = "replaying" /\ ~p.error /\ ~p.wipe => file.tail = <<>>

\* The file, and the file with what is pending, are in order.
Order ==
  ~Corrupted(file) =>
    /\ InOrder(ReadBack(file)) /\ UpTo(ReadBack(file), last)
    /\ Alive /\ ~p.error =>
         /\ InOrder(Whole(file, p)) /\ UpTo(Whole(file, p), last)
         /\ p.metadata <=> Whole(file, p) # <<>>

\* What a process holds is in its file or on its way there.
Holds ==
  ~glued =>
    /\ ~cut => confirmed \subseteq RecordsOf(ReadBack(file))
    /\ p.wipe => confirmed \cup held \subseteq RecordsOf(Whole(file, p))
    /\ ~cut /\ Alive /\ ~p.error => held \subseteq RecordsOf(Whole(file, p))

\* The inductive invariant.
IInv == Types /\ Phases /\ Rewrites /\ Tears /\ Order /\ Holds


---------------------------------------------------------------------------
(* Sequences of lines.                                                     *)

\* s is the beginning of t.
Begins(s, t) == Len(s) <= Len(t) /\ \A i \in 1 .. Len(s) : s[i] = t[i]

\* The lines of a log are numbers, and records are some of them.
LEMMA Numbers ==
  /\ N \in Nat \ {0} /\ MaxCrashes \in Nat /\ MaxFaults \in Nat
  /\ Record \subseteq Line /\ Line \subseteq Int /\ Bad \in Line
  /\ Bad \notin Record /\ OldMetadata \notin Record /\ Bad # OldMetadata
  /\ Metadata \in Record /\ 1 .. N \subseteq Record
BY LogAssumption DEF Record, Line, Bad, OldMetadata, Metadata

\* A batch is a sequence of lines.
LEMMA LinesOf == ASSUME NEW s \in Seq(Record) PROVE s \in Seq(Line)
BY Numbers, SeqMonotonic

\* A beginning of a log is in order, and its records are in the log.
LEMMA BeginsInOrder ==
  ASSUME NEW s \in Seq(Line), NEW t \in Seq(Line), Begins(s, t)
  PROVE  /\ InOrder(t) => InOrder(s)
         /\ \A n : UpTo(t, n) => UpTo(s, n)
         /\ RecordsOf(s) \subseteq RecordsOf(t)
<1>1. /\ Len(s) \in Nat /\ Len(t) \in Nat /\ Len(s) <= Len(t)
      /\ DOMAIN s = 1 .. Len(s) /\ DOMAIN t = 1 .. Len(t)
      /\ \A i \in 1 .. Len(s) : s[i] = t[i]
  BY LenProperties DEF Begins
<1>2. DOMAIN s \subseteq DOMAIN t
  BY <1>1
<1>3. ASSUME InOrder(t) PROVE InOrder(s)
  <2>1. ASSUME s # <<>> PROVE s[1] \in {Metadata, OldMetadata}
    <3>1. 1 \in DOMAIN s /\ t # <<>>
      BY <1>1, <2>1, EmptySeq
    <3> QED
      BY <3>1, <1>1, <1>3 DEF InOrder
  <2>2. ASSUME NEW i \in DOMAIN s, i > 1 PROVE s[i] >= 1
    BY <1>1, <1>2, <1>3, <2>2 DEF InOrder
  <2>3. ASSUME NEW i \in DOMAIN s, NEW j \in DOMAIN s, i < j PROVE s[i] < s[j]
    BY <1>1, <1>2, <1>3, <2>3 DEF InOrder
  <2> QED
    BY <2>1, <2>2, <2>3 DEF InOrder
<1>4. ASSUME NEW n, UpTo(t, n) PROVE UpTo(s, n)
  BY <1>1, <1>2, <1>4 DEF UpTo
<1>5. RecordsOf(s) \subseteq RecordsOf(t)
  BY <1>1, <1>2 DEF RecordsOf
<1> QED
  BY <1>3, <1>4, <1>5

\* What is written behind a log leaves the log and adds its records.
LEMMA ConcatLines ==
  ASSUME NEW s \in Seq(Line), NEW t \in Seq(Line)
  PROVE  s \o t \in Seq(Line) /\ Begins(s, s \o t)
         /\ RecordsOf(s \o t) = RecordsOf(s) \cup RecordsOf(t)
<1>1. /\ s \o t \in Seq(Line) /\ Len(s \o t) = Len(s) + Len(t)
      /\ \A i \in 1 .. Len(s) + Len(t) : (s \o t)[i] = IF i <= Len(s) THEN s[i] ELSE t[i - Len(s)]
  BY ConcatProperties
<1>2. /\ Len(s) \in Nat /\ Len(t) \in Nat /\ DOMAIN s = 1 .. Len(s) /\ DOMAIN t = 1 .. Len(t)
      /\ DOMAIN (s \o t) = 1 .. Len(s) + Len(t)
  BY <1>1, LenProperties
<1> DEFINE u == s \o t
<1>3. Begins(s, u)
  BY <1>1, <1>2 DEF Begins
<1>4. RecordsOf(s) \subseteq RecordsOf(u)
  BY <1>1, <1>3, BeginsInOrder
<1>5. ASSUME NEW j \in DOMAIN t PROVE t[j] \in RecordsOf(u)
  <2>1. Len(s) + j \in 1 .. Len(s) + Len(t) /\ ~(Len(s) + j <= Len(s)) /\ Len(s) + j - Len(s) = j
    BY <1>2
  <2>2. u[Len(s) + j] = t[j]
    BY <1>1, <2>1
  <2> QED
    BY <1>2, <2>1, <2>2 DEF RecordsOf
<1>6. ASSUME NEW i \in DOMAIN u PROVE u[i] \in RecordsOf(s) \cup RecordsOf(t)
  <2>1. CASE i <= Len(s)
    BY <1>1, <1>2, <2>1 DEF RecordsOf
  <2>2. CASE ~(i <= Len(s))
    <3>1. i - Len(s) \in DOMAIN t /\ u[i] = t[i - Len(s)]
      BY <1>1, <1>2, <2>2
    <3> QED
      BY <3>1 DEF RecordsOf
  <2> QED
    BY <2>1, <2>2
<1>7. RecordsOf(t) \subseteq RecordsOf(u)
  BY <1>5 DEF RecordsOf
<1>8. RecordsOf(u) \subseteq RecordsOf(s) \cup RecordsOf(t)
  BY <1>6 DEF RecordsOf
<1> QED
  BY <1>1, <1>3, <1>4, <1>7, <1>8

\* The log of a new agent.
LEMMA EmptyLog ==
  /\ <<>> \in Seq(Line) /\ Len(<<>>) = 0 /\ RecordsOf(<<>>) = {}
  /\ InOrder(<<>>) /\ \A n : UpTo(<<>>, n)
  /\ \A s \in Seq(Line) : Begins(<<>>, s)
BY EmptySeq, LenProperties DEF RecordsOf, InOrder, UpTo, Begins

\* A log of one line.
LEMMA OneLine ==
  ASSUME NEW x \in Line
  PROVE  <<x>> \in Seq(Line) /\ RecordsOf(<<x>>) = {x} /\ <<x>> # <<>>
<1>1. DOMAIN <<x>> = 1 .. 1 /\ <<x>>[1] = x /\ <<x>> \in Seq(Line) /\ Len(<<x>>) = 1
  OBVIOUS
<1> QED
  BY <1>1 DEF RecordsOf

\* Batches can be joined before they are written.
LEMMA Regrouped ==
  ASSUME NEW x \in Seq(Line), NEW y \in Seq(Line), NEW z \in Seq(Line)
  PROVE  (x \o y) \o z = x \o (y \o z)
BY ConcatAssociative

\* Unfinished lines are told apart by what they hold.
LEMMA Singles ==
  ASSUME NEW x, NEW y
  PROVE  <<x>> # <<>> /\ (<<x>> = <<y>> => x = y)
<1>1. <<x>>[1] = x /\ <<y>>[1] = y
  OBVIOUS
<1>2. Len(<<x>>) = 1 /\ Len(<<>>) = 0
  OBVIOUS
<1> QED
  BY <1>1, <1>2

\* The beginning of a beginning.
LEMMA BeginsTwice ==
  ASSUME NEW s \in Seq(Line), NEW t \in Seq(Line), NEW u \in Seq(Line), Begins(s, t), Begins(t, u)
  PROVE  Begins(s, u)
<1>1. Len(s) \in Nat /\ Len(t) \in Nat /\ Len(u) \in Nat
  BY LenProperties
<1> QED
  BY <1>1 DEF Begins

\* What is the same up to a beginning of the second part begins the whole.
LEMMA BeginsConcat ==
  ASSUME NEW s \in Seq(Line), NEW t \in Seq(Line), NEW u \in Seq(Line), Begins(t, u)
  PROVE  Begins(s \o t, s \o u)
<1>1. /\ Len(s) \in Nat /\ Len(t) \in Nat /\ Len(u) \in Nat
      /\ Len(t) <= Len(u) /\ \A i \in 1 .. Len(t) : t[i] = u[i]
  BY LenProperties DEF Begins
<1>2. /\ Len(s \o t) = Len(s) + Len(t) /\ Len(s \o u) = Len(s) + Len(u)
      /\ \A i \in 1 .. Len(s) + Len(t) : (s \o t)[i] = IF i <= Len(s) THEN s[i] ELSE t[i - Len(s)]
      /\ \A i \in 1 .. Len(s) + Len(u) : (s \o u)[i] = IF i <= Len(s) THEN s[i] ELSE u[i - Len(s)]
  BY ConcatProperties
<1>3. ASSUME NEW i \in 1 .. Len(s) + Len(t) PROVE (s \o t)[i] = (s \o u)[i]
  <2>1. i \in 1 .. Len(s) + Len(u)
    BY <1>1
  <2>2. CASE i <= Len(s)
    BY <1>2, <2>1, <2>2
  <2>3. CASE ~(i <= Len(s))
    <3>1. i - Len(s) \in 1 .. Len(t)
      BY <1>1, <2>3
    <3> QED
      BY <1>1, <1>2, <2>1, <2>3, <3>1
  <2> QED
    BY <2>2, <2>3
<1>4. Len(s) + Len(t) <= Len(s) + Len(u)
  BY <1>1
<1> QED
  BY <1>2, <1>3, <1>4 DEF Begins

\* A log goes on with the next record, or begins with the metadata.
LEMMA Longer ==
  ASSUME NEW s \in Seq(Line), InOrder(s), NEW n \in Nat, UpTo(s, n), NEW r \in Line, NEW m \in Nat,
         IF s = <<>> THEN r = Metadata /\ m >= 0 ELSE r = m /\ m > n
  PROVE  InOrder(Append(s, r)) /\ UpTo(Append(s, r), m) /\ RecordsOf(Append(s, r)) = RecordsOf(s) \cup {r}
<1> DEFINE u == Append(s, r)
           k == Len(s)
<1>1. /\ u \in Seq(Line) /\ u # <<>> /\ Len(u) = k + 1
      /\ \A i \in 1 .. k : u[i] = s[i]
      /\ u[k + 1] = r
  BY AppendProperties
<1>2. k \in Nat /\ DOMAIN s = 1 .. k /\ DOMAIN u = 1 .. k + 1 /\ s \in [1 .. k -> Line]
  BY <1>1, LenProperties
<1>3. \A i \in 1 .. k : s[i] \in Int /\ s[i] <= n
  BY <1>2, Numbers DEF UpTo
<1>4. k = 0 <=> s = <<>>
  BY EmptySeq
<1>5. u[1] \in {Metadata, OldMetadata}
  <2>1. CASE s = <<>>
    BY <1>1, <1>4, <2>1
  <2>2. CASE s # <<>>
    BY <1>1, <1>2, <1>4, <2>2 DEF InOrder
  <2> QED
    BY <2>1, <2>2
<1>6. ASSUME NEW i \in 1 .. k + 1, i > 1 PROVE u[i] >= 1
  <2>1. CASE i \in 1 .. k
    BY <1>1, <1>2, <1>6, <2>1 DEF InOrder
  <2>2. CASE i = k + 1
    BY <1>1, <1>2, <1>4, <1>6, <2>2
  <2> QED
    BY <1>2, <2>1, <2>2
<1>7. ASSUME NEW i \in 1 .. k + 1, NEW j \in 1 .. k + 1, i < j PROVE u[i] < u[j]
  <2>1. CASE j \in 1 .. k
    <3>1. i \in 1 .. k
      BY <1>2, <1>7, <2>1
    <3> QED
      BY <1>1, <1>2, <1>7, <2>1, <3>1 DEF InOrder
  <2>2. CASE j = k + 1
    <3>1. i \in 1 .. k /\ s # <<>>
      BY <1>2, <1>4, <1>7, <2>2
    <3> QED
      BY <1>1, <1>3, <2>2, <3>1
  <2> QED
    BY <1>2, <2>1, <2>2
<1>8. ASSUME NEW i \in 1 .. k + 1 PROVE u[i] <= m
  <2>1. CASE i \in 1 .. k
    <3>1. s # <<>>
      BY <1>2, <1>4, <2>1
    <3> QED
      BY <1>1, <1>3, <2>1, <3>1
  <2>2. CASE i = k + 1
    BY <1>1, <2>2 DEF Metadata
  <2> QED
    BY <1>2, <2>1, <2>2
<1>9. InOrder(u) /\ UpTo(u, m)
  <2> HIDE DEF u
  <2> QED
    BY <1>1, <1>2, <1>5, <1>6, <1>7, <1>8 DEF InOrder, UpTo
<1>10. RecordsOf(u) = RecordsOf(s) \cup {r}
  <2>1. u = s \o <<r>>
    BY AppendIsConcat
  <2>2. RecordsOf(s \o <<r>>) = RecordsOf(s) \cup RecordsOf(<<r>>)
    BY OneLine, ConcatLines
  <2> QED
    BY <2>1, <2>2, OneLine
<1> QED
  BY <1>9, <1>10


---------------------------------------------------------------------------
(* Files.                                                                  *)

\* The first k records of a batch.
LEMMA FirstRecords ==
  ASSUME NEW s \in Seq(Record), NEW k \in 0 .. Len(s)
  PROVE  /\ SubSeq(s, 1, k) \in Seq(Record) /\ Len(SubSeq(s, 1, k)) = k
         /\ Begins(SubSeq(s, 1, k), s)
         /\ k < Len(s) => s[k + 1] \in Record
<1>1. Len(s) \in Nat /\ \A i \in 1 .. Len(s) : s[i] \in Record
  BY LenProperties
<1>2. \A i \in 1 .. k : s[i] \in Record
  BY <1>1
<1>3. /\ SubSeq(s, 1, k) \in Seq(Record)
      /\ Len(SubSeq(s, 1, k)) = IF 1 <= k THEN k - 1 + 1 ELSE 0
      /\ \A i \in 1 .. k - 1 + 1 : SubSeq(s, 1, k)[i] = s[1 + i - 1]
  BY <1>2, SubSeqProperties
<1>4. Len(SubSeq(s, 1, k)) = k /\ \A i \in 1 .. k : SubSeq(s, 1, k)[i] = s[i]
  BY <1>1, <1>3
<1>5. k < Len(s) => k + 1 \in 1 .. Len(s)
  BY <1>1
<1>6. Len(SubSeq(s, 1, k)) <= Len(s)
  BY <1>1, <1>4
<1> QED
  BY <1>1, <1>3, <1>4, <1>5, <1>6 DEF Begins

\* What a file with no unfinished line becomes.
LEMMA PutWhole ==
  ASSUME NEW f \in LogFile, f.tail = <<>>, NEW s \in Seq(Record), NEW t
  PROVE  File!Put(f, s, t) = [lines |-> f.lines \o s, tail |-> t]
<1>1. f.lines \in Seq(Line) /\ s \in Seq(Line) /\ f = [lines |-> f.lines, tail |-> f.tail]
  BY LinesOf DEF LogFile
<1>2. CASE s = <<>>
  <2>1. f.lines \o s = f.lines
    BY <1>1, <1>2, ConcatEmptySeq
  <2> QED
    BY <1>1, <1>2, <2>1 DEF File!Put
<1>3. CASE s # <<>>
  <2>1. /\ Head(s) \in Record /\ Tail(s) \in Seq(Record) /\ Head(s) = s[1] /\ Tail(s) = SubSeq(s, 2, Len(s))
    BY <1>3, HeadTailProperties, TailIsSubSeq
  <2>2. Len(s) \in Nat \ {0}
    BY <1>3, EmptySeq
  <2>3. s = <<s[1]>> \o SubSeq(s, 2, Len(s))
    <3>1. 1 \in 1 .. Len(s) /\ Len(s) \in 1 .. Len(s)
      BY <2>2
    <3>2. SubSeq(s, 1, Len(s)) = <<s[1]>> \o SubSeq(s, 1 + 1, Len(s))
      BY <3>1, SubSeqRecursiveFirst
    <3>3. SubSeq(s, 1, Len(s)) = s
      BY SubSeqFull
    <3> QED
      BY <3>2, <3>3
  <2>4. <<Head(s)>> \in Seq(Line) /\ Tail(s) \in Seq(Line)
    BY <2>1, OneLine, LinesOf, Numbers
  <2>5. (f.lines \o <<Head(s)>>) \o Tail(s) = f.lines \o s
    BY <1>1, <2>1, <2>3, <2>4, ConcatAssociative
  <2> QED
    BY <1>3, <2>5 DEF File!Put
<1> QED
  BY <1>2, <1>3

\* What can be behind a batch that was interrupted.
Rests(s, k) == {<<>>} \cup (IF k < Len(s) THEN {<<Bad>>, <<s[k + 1]>>} ELSE {})

\* An interrupted batch is some of its records and one rest.
LEMMA Cut ==
  ASSUME NEW f \in LogFile, NEW s \in Seq(Record), NEW g \in File!Interrupted(f, s)
  PROVE  \E k \in 0 .. Len(s) : \E t \in Rests(s, k) : g = File!Put(f, SubSeq(s, 1, k), t)
BY DEF File!Interrupted, Rests

\* What a file that ended in a newline is like when a batch was interrupted.
LEMMA CutWhole ==
  ASSUME NEW f \in LogFile, f.tail = <<>>, NEW s \in Seq(Record), NEW g \in File!Interrupted(f, s)
  PROVE  /\ g \in LogFile /\ (IsOld(g) => IsOld(f)) /\ (Corrupted(g) <=> Corrupted(f))
         /\ Begins(ReadBack(f), ReadBack(g)) /\ Begins(ReadBack(g), ReadBack(f) \o s)
<1>1. PICK k \in 0 .. Len(s) : \E t \in Rests(s, k) : g = File!Put(f, SubSeq(s, 1, k), t)
  BY Cut
<1>2. PICK t \in Rests(s, k) : g = File!Put(f, SubSeq(s, 1, k), t)
  BY <1>1
<1> DEFINE h == SubSeq(s, 1, k)
<1>3. /\ h \in Seq(Record) /\ Len(h) = k /\ Begins(h, s) /\ (k < Len(s) => s[k + 1] \in Record)
  BY FirstRecords
<1>4. h \in Seq(Line) /\ s \in Seq(Line) /\ f.lines \in Seq(Line)
  BY <1>3, LinesOf DEF LogFile
<1> HIDE DEF h
<1>5. g = [lines |-> f.lines \o h, tail |-> t]
  BY <1>2, <1>3, PutWhole DEF h
<1>6. t = <<>> \/ t = <<Bad>> \/ (t = <<s[k + 1]>> /\ k < Len(s))
  BY DEF Rests
<1>7. g.lines = f.lines \o h /\ g.tail = t
  BY <1>5
<1>8. ReadBack(f) = f.lines
  BY <1>4, ConcatEmptySeq DEF ReadBack
<1>9. f.lines \o h \in Seq(Line) /\ Begins(f.lines, f.lines \o h)
      /\ RecordsOf(f.lines \o h) = RecordsOf(f.lines) \cup RecordsOf(h)
  BY <1>4, ConcatLines
<1>10. \A x \in RecordsOf(h) : x \in Record
  <2>1. \A i \in DOMAIN h : h[i] \in Record
    BY <1>3, LenProperties
  <2> QED
    BY <2>1 DEF RecordsOf
<1>11. Corrupted(g) <=> Corrupted(f)
  <2>1. \A x : Corrupted(x) <=> Bad \in RecordsOf(x.lines)
    BY DEF Corrupted, RecordsOf
  <2> QED
    BY <2>1, <1>7, <1>9, <1>10, Numbers
<1>12. ASSUME IsOld(g) PROVE IsOld(f)
  <2>1. \A x : IsOld(x) <=> OldMetadata \in RecordsOf(x.lines) \/ x.tail = <<OldMetadata>>
    BY DEF IsOld, RecordsOf
  <2>2. g.tail # <<OldMetadata>>
    <3>1. k < Len(s) => s[k + 1] # OldMetadata
      BY <1>3, Numbers
    <3>2. t # <<OldMetadata>>
      BY <1>6, <3>1, Singles, Numbers
    <3> QED
      BY <1>7, <3>2
  <2> QED
    BY <2>1, <2>2, <1>7, <1>9, <1>10, <1>12, Numbers
<1>13. g \in LogFile
  BY <1>3, <1>5, <1>6, <1>9, Numbers DEF LogFile
<1>14. Begins(ReadBack(f), ReadBack(g)) /\ Begins(ReadBack(g), ReadBack(f) \o s)
  <2>1. CASE t = <<>> \/ t = <<Bad>>
    <3>1. ReadBack(g) = f.lines \o h
      <4>1. (f.lines \o h) \o <<>> = f.lines \o h
        BY <1>9, ConcatEmptySeq
      <4>2. <<>> # <<Bad>>
        BY EmptyLog
      <4> QED
        BY <1>7, <2>1, <4>1, <4>2 DEF ReadBack
    <3> QED
      BY <1>3, <1>4, <1>8, <1>9, <3>1, BeginsConcat
  <2>2. CASE t = <<s[k + 1]>> /\ k < Len(s)
    <3>1. s[k + 1] \in Record /\ s[k + 1] # Bad /\ s[k + 1] \in Line
      BY <1>3, <2>2, Numbers
    <3>2. ReadBack(g) = (f.lines \o h) \o t
      BY <1>7, <2>2, <3>1 DEF ReadBack
    <3>3. t \in Seq(Line)
      BY <2>2, <3>1, OneLine
    <3>4. ReadBack(g) = f.lines \o (h \o t) /\ h \o t \in Seq(Line)
      <4>1. (f.lines \o h) \o t = f.lines \o (h \o t)
        <5>1. f.lines \in Seq(Line) /\ h \in Seq(Line) /\ t \in Seq(Line)
          BY <1>4, <3>3
        <5> QED
          BY <5>1, Regrouped
      <4>2. h \o t \in Seq(Line)
        BY <1>4, <3>3, ConcatLines
      <4> QED
        BY <3>2, <4>1, <4>2
    <3>5. Begins(h \o t, s)
      <4>1. /\ Len(h \o t) = Len(h) + Len(t)
            /\ \A i \in 1 .. Len(h) + Len(t) : (h \o t)[i] = IF i <= Len(h) THEN h[i] ELSE t[i - Len(h)]
        BY <1>4, <3>3, ConcatProperties
      <4>2. Len(t) = 1 /\ t[1] = s[k + 1]
        BY <2>2
      <4>3. k \in Nat /\ Len(s) \in Nat
        BY LenProperties
      <4>4. \A i \in 1 .. k : h[i] = s[i]
        BY <1>3 DEF Begins
      <4>5. Len(h \o t) = k + 1 /\ k + 1 <= Len(s)
        BY <1>3, <2>2, <4>1, <4>2, <4>3
      <4>6. ASSUME NEW i \in 1 .. k + 1 PROVE (h \o t)[i] = s[i]
        <5>1. CASE i \in 1 .. k
          BY <1>3, <4>1, <4>2, <4>3, <4>4, <5>1
        <5>2. CASE i = k + 1
          <6>1. i - Len(h) = 1 /\ ~(i <= Len(h)) /\ i \in 1 .. Len(h) + Len(t)
            BY <1>3, <4>2, <4>3, <5>2
          <6>2. (h \o t)[i] = t[1]
            BY <4>1, <6>1
          <6> QED
            BY <4>2, <5>2, <6>2
        <5>3. i \in 1 .. k \/ i = k + 1
          BY <4>3
        <5> QED
          BY <5>1, <5>2, <5>3, Zenon
      <4> QED
        BY <4>5, <4>6 DEF Begins
    <3>6. Begins(ReadBack(g), ReadBack(f) \o s)
      BY <1>4, <1>8, <3>4, <3>5, BeginsConcat
    <3>7. Begins(ReadBack(f), ReadBack(g))
      BY <1>4, <1>8, <3>4, ConcatLines
    <3> QED
      BY <3>6, <3>7
  <2> QED
    BY <1>6, <2>1, <2>2
<1> QED
  BY <1>11, <1>12, <1>13, <1>14

\* What a file with an unfinished line is like when a batch was interrupted.
LEMMA CutGlued ==
  ASSUME NEW f \in LogFile, f.tail # <<>>, NEW s \in Seq(Record), NEW g \in File!Interrupted(f, s)
  PROVE  /\ g \in LogFile /\ (IsOld(g) => IsOld(f)) /\ (Corrupted(f) => Corrupted(g))
         /\ ~Corrupted(g) => Begins(ReadBack(g), ReadBack(f) \o s)
<1>1. PICK k \in 0 .. Len(s) : \E t \in Rests(s, k) : g = File!Put(f, SubSeq(s, 1, k), t)
  BY Cut
<1>2. PICK t \in Rests(s, k) : g = File!Put(f, SubSeq(s, 1, k), t)
  BY <1>1
<1> DEFINE h == SubSeq(s, 1, k)
<1>3. /\ h \in Seq(Record) /\ Len(h) = k /\ (k < Len(s) => s[k + 1] \in Record)
  BY FirstRecords
<1>4. s \in Seq(Line) /\ f.lines \in Seq(Line) /\ f = [lines |-> f.lines, tail |-> f.tail]
  BY LinesOf DEF LogFile
<1> HIDE DEF h
<1>5. g = File!Put(f, h, t)
  BY <1>2 DEF h
<1>6. t \in {<<>>} \cup {<<x>> : x \in Line} /\ t # <<OldMetadata>>
  <2>1. k < Len(s) => s[k + 1] \in Line /\ s[k + 1] # OldMetadata
    BY <1>3, Numbers
  <2>2. t = <<>> \/ t = <<Bad>> \/ (t = <<s[k + 1]>> /\ k < Len(s))
    BY DEF Rests
  <2>3. t # <<OldMetadata>>
    BY <2>1, <2>2, Singles, Numbers
  <2> QED
    BY <2>1, <2>2, <2>3, Numbers
<1>7. CASE h = <<>>
  <2>1. g.lines = f.lines /\ g = [lines |-> f.lines, tail |-> IF t = <<>> THEN f.tail ELSE <<Bad>>]
    BY <1>4, <1>5, <1>7 DEF File!Put
  <2>2. g \in LogFile
    BY <1>4, <2>1, Numbers DEF LogFile
  <2>3. Corrupted(f) => Corrupted(g)
    BY <2>1 DEF Corrupted
  <2>4. IsOld(g) => IsOld(f)
    <3>1. <<Bad>> # <<OldMetadata>>
      BY Numbers
    <3> QED
      BY <2>1, <3>1 DEF IsOld
  <2>5. Begins(ReadBack(g), ReadBack(f) \o s)
    <3>1. ReadBack(f) \in Seq(Line) /\ Begins(f.lines, ReadBack(f))
      <4>1. (IF f.tail = <<Bad>> THEN <<>> ELSE f.tail) \in Seq(Line)
        BY OneLine, EmptyLog DEF LogFile
      <4> QED
        BY <1>4, <4>1, ConcatLines DEF ReadBack
    <3>2. ReadBack(f) \o s \in Seq(Line) /\ Begins(ReadBack(f), ReadBack(f) \o s)
      BY <1>4, <3>1, ConcatLines
    <3>3. CASE t = <<>>
      BY <1>4, <2>1, <3>2, <3>3
    <3>4. CASE t # <<>>
      <4>1. ReadBack(g) = f.lines
        BY <1>4, <2>1, <3>4, ConcatEmptySeq DEF ReadBack
      <4> QED
        BY <1>4, <3>1, <3>2, <4>1, BeginsTwice
    <3> QED
      BY <3>3, <3>4
  <2> QED
    BY <2>2, <2>3, <2>4, <2>5
<1>8. CASE h # <<>>
  <2>1. Head(h) \in Record /\ Tail(h) \in Seq(Record)
    BY <1>3, <1>8, HeadTailProperties
  <2>2. <<Head(h)>> # <<>>
    OBVIOUS
  <2>3. g = [lines |-> f.lines \o <<Bad>> \o Tail(h), tail |-> t]
    BY <1>5, <1>8, <2>2 DEF File!Put
  <2>4. <<Bad>> \in Seq(Line) /\ RecordsOf(<<Bad>>) = {Bad} /\ Tail(h) \in Seq(Line)
    BY <2>1, OneLine, LinesOf, Numbers
  <2>5. /\ f.lines \o <<Bad>> \o Tail(h) \in Seq(Line)
        /\ RecordsOf(f.lines \o <<Bad>> \o Tail(h)) = (RecordsOf(f.lines) \cup {Bad}) \cup RecordsOf(Tail(h))
    <3>1. f.lines \o <<Bad>> \in Seq(Line) /\ RecordsOf(f.lines \o <<Bad>>) = RecordsOf(f.lines) \cup {Bad}
      BY <1>4, <2>4, ConcatLines
    <3> QED
      BY <2>4, <3>1, ConcatLines
  <2>6. \A x \in RecordsOf(Tail(h)) : x \in Record
    <3>1. \A i \in DOMAIN Tail(h) : Tail(h)[i] \in Record
      BY <2>1, LenProperties
    <3> QED
      BY <3>1 DEF RecordsOf
  <2>7. Corrupted(g)
    <3>1. Bad \in RecordsOf(g.lines)
      BY <2>3, <2>5
    <3> QED
      BY <3>1 DEF Corrupted, RecordsOf
  <2>8. ASSUME IsOld(g) PROVE IsOld(f)
    <3>1. \A x : IsOld(x) <=> OldMetadata \in RecordsOf(x.lines) \/ x.tail = <<OldMetadata>>
      BY DEF IsOld, RecordsOf
    <3> QED
      BY <3>1, <1>6, <2>3, <2>5, <2>6, <2>8, Numbers
  <2>9. g \in LogFile
    BY <1>6, <2>3, <2>5 DEF LogFile
  <2> QED
    BY <2>7, <2>8, <2>9
<1> QED
  BY <1>7, <1>8

\* What is read back is a sequence of lines.
LEMMA ReadBackLines ==
  ASSUME NEW f \in LogFile
  PROVE  ReadBack(f) \in Seq(Line) /\ (f.tail = <<>> => ReadBack(f) = f.lines)
<1>1. (IF f.tail = <<Bad>> THEN <<>> ELSE f.tail) \in Seq(Line) /\ f.lines \in Seq(Line)
  BY OneLine, EmptyLog DEF LogFile
<1>2. f.tail = <<>> => ReadBack(f) = f.lines
  BY <1>1, ConcatEmptySeq DEF ReadBack
<1> QED
  BY <1>1, <1>2, ConcatLines DEF ReadBack

\* A batch that was written is read back, unless it goes on with an unfinished line.
LEMMA WrittenOut ==
  ASSUME NEW f \in LogFile, NEW s \in Seq(Record)
  PROVE  LET g == File!Put(f, s, <<>>) IN
         /\ g \in File!Interrupted(f, s)
         /\ f.tail = <<>> \/ s = <<>> =>
              ReadBack(g) = ReadBack(f) \o s /\ (Corrupted(g) <=> Corrupted(f))
         /\ f.tail # <<>> /\ s # <<>> => Corrupted(g)
         /\ f.tail = <<>> \/ s # <<>> => g.tail = <<>>
         /\ s = <<>> => g = f
<1> DEFINE g == File!Put(f, s, <<>>)
<1>1. /\ s \in Seq(Line) /\ f.lines \in Seq(Line) /\ f = [lines |-> f.lines, tail |-> f.tail]
      /\ ReadBack(f) \in Seq(Line)
  BY LinesOf, ReadBackLines DEF LogFile
<1>2. g \in File!Interrupted(f, s)
  <2>1. Len(s) \in 0 .. Len(s) /\ SubSeq(s, 1, Len(s)) = s
    BY LenProperties, SubSeqFull
  <2>2. g \in {File!Put(f, SubSeq(s, 1, Len(s)), t) : t \in Rests(s, Len(s))}
    BY <2>1 DEF Rests
  <2> QED
    BY <2>1, <2>2 DEF File!Interrupted, Rests
<1>3. CASE f.tail = <<>>
  <2>1. g = [lines |-> f.lines \o s, tail |-> <<>>]
    BY <1>3, PutWhole
  <2>2. g \in LogFile /\ (Corrupted(g) <=> Corrupted(f))
    BY <1>2, <1>3, CutWhole
  <2>3. ReadBack(g) = f.lines \o s /\ ReadBack(f) = f.lines
    BY <1>3, <2>1, <2>2, ReadBackLines
  <2>4. s = <<>> => g = f
    BY <1>1, <1>3, <2>1, ConcatEmptySeq
  <2> QED
    BY <1>2, <1>3, <2>1, <2>2, <2>3, <2>4
<1>4. CASE f.tail # <<>> /\ s = <<>>
  <2>1. g = f
    BY <1>1, <1>4 DEF File!Put
  <2>2. ReadBack(f) \o s = ReadBack(f)
    BY <1>1, <1>4, ConcatEmptySeq
  <2> QED
    BY <1>2, <1>4, <2>1, <2>2
<1>5. CASE f.tail # <<>> /\ s # <<>>
  <2>1. Head(s) \in Record /\ Tail(s) \in Seq(Record)
    BY <1>5, HeadTailProperties
  <2>2. <<Head(s)>> # <<>>
    OBVIOUS
  <2>3. g = [lines |-> f.lines \o <<Bad>> \o Tail(s), tail |-> <<>>]
    BY <1>5, <2>2 DEF File!Put
  <2>4. <<Bad>> \in Seq(Line) /\ RecordsOf(<<Bad>>) = {Bad} /\ Tail(s) \in Seq(Line)
    BY <2>1, OneLine, LinesOf, Numbers
  <2>5. Bad \in RecordsOf(f.lines \o <<Bad>> \o Tail(s))
    <3>1. f.lines \o <<Bad>> \in Seq(Line) /\ RecordsOf(f.lines \o <<Bad>>) = RecordsOf(f.lines) \cup {Bad}
      BY <1>1, <2>4, ConcatLines
    <3> QED
      BY <2>4, <3>1, ConcatLines
  <2>6. Corrupted(g)
    <3> HIDE DEF g
    <3>1. Bad \in RecordsOf(g.lines)
      BY <2>3, <2>5
    <3> QED
      BY <3>1 DEF Corrupted, RecordsOf
  <2> QED
    BY <1>2, <1>5, <2>3, <2>6
<1> QED
  BY <1>3, <1>4, <1>5


---------------------------------------------------------------------------
(* The persistence of a process.                                           *)

\* The whole of a file and a persistence, when some of its parts are empty.
LEMMA WholeLines ==
  ASSUME NEW f \in LogFile, NEW q \in Persistence
  PROVE  /\ q.pending \in Seq(Line) /\ q.batch \in Seq(Line) /\ ReadBack(f) \in Seq(Line)
         /\ ReadBack(f) \o q.batch \in Seq(Line)
         /\ Whole(f, q) \in Seq(Line)
         /\ q.pending = <<>> => Whole(f, q) = IF q.wipe THEN q.batch ELSE ReadBack(f) \o q.batch
         /\ ~q.wipe /\ q.batch = <<>> => Whole(f, q) = ReadBack(f) \o q.pending
<1>1. q.pending \in Seq(Line) /\ q.batch \in Seq(Line) /\ ReadBack(f) \in Seq(Line)
  BY LinesOf, ReadBackLines DEF Persistence
<1>2. ReadBack(f) \o q.batch \in Seq(Line) /\ q.batch \o q.pending \in Seq(Line)
  BY <1>1, ConcatLines
<1>3. (ReadBack(f) \o q.batch) \o q.pending \in Seq(Line)
  BY <1>1, <1>2, ConcatLines
<1>4. q.batch \o <<>> = q.batch /\ (ReadBack(f) \o q.batch) \o <<>> = ReadBack(f) \o q.batch
      /\ ReadBack(f) \o <<>> = ReadBack(f)
  BY <1>1, <1>2, ConcatEmptySeq
<1> QED
  BY <1>1, <1>2, <1>3, <1>4 DEF Whole

\* An append goes on the end of the whole.
LEMMA AppendedSane ==
  ASSUME NEW q, Sane(q), ~q.error, NEW r \in Record
  PROVE  LET u == Appended(q, r) IN
         /\ Sane(u) /\ u.phase = (IF q.phase = "idle" THEN "taken" ELSE q.phase)
         /\ u.wipe = q.wipe /\ u.error = q.error /\ u.metadata = q.metadata
         /\ q.phase # "idle" => u.batch = q.batch
         /\ \A f \in LogFile : Whole(f, u) = Append(Whole(f, q), r)
<1> DEFINE u == Appended(q, r)
           s == Append(q.pending, r)
<1>1. q \in Persistence /\ q.pending \in Seq(Record) /\ ~q.shouldClear
  BY DEF Sane, Persistence
<1>2. s \in Seq(Record) /\ s # <<>>
  BY <1>1, AppendProperties
<1>3. r \in Line /\ <<r>> \in Seq(Line)
  BY Numbers, OneLine
<1>4. CASE q.phase = "idle"
  <2>1. q.pending = <<>> /\ q.batch = <<>> /\ ~q.wipe
    BY <1>4 DEF Sane
  <2>2. u = [q EXCEPT !.pending = <<>>, !.shouldClear = FALSE, !.phase = "taken", !.batch = s, !.wipe = FALSE]
    BY <1>1, <1>2, <1>4 DEF Appended, EnsureFlush, Drain, HasWork, Taken, Persistence
  <2>3. u \in Persistence
    <3>1. <<>> \in Seq(Record)
      BY EmptySeq
    <3> QED
      BY <1>1, <1>2, <2>2, <3>1 DEF Persistence
  <2>4. /\ u.phase = "taken" /\ u.wipe = q.wipe /\ u.error = q.error /\ u.metadata = q.metadata
        /\ ~u.shouldClear /\ u.batch = s /\ u.pending = <<>>
    BY <1>1, <2>1, <2>2 DEF Persistence
  <2>5. ASSUME NEW f \in LogFile PROVE Whole(f, u) = Append(Whole(f, q), r)
    <3>1. Whole(f, u) = ReadBack(f) \o s /\ Whole(f, q) = ReadBack(f) \o <<>> /\ ReadBack(f) \in Seq(Line)
      BY <1>1, <2>1, <2>3, <2>4, WholeLines
    <3>2. s = <<r>>
      <4>1. s = q.pending \o <<r>>
        BY <1>1, AppendIsConcat
      <4> QED
        BY <1>3, <2>1, <4>1, ConcatEmptySeq
    <3>3. Append(ReadBack(f), r) = ReadBack(f) \o <<r>> /\ ReadBack(f) \o <<>> = ReadBack(f)
      BY <1>3, <3>1, AppendIsConcat, ConcatEmptySeq
    <3> QED
      BY <3>1, <3>2, <3>3
  <2> HIDE DEF u
  <2>6. Sane(u)
    BY <2>3, <2>4 DEF Sane
  <2> QED
    BY <1>4, <2>4, <2>5, <2>6 DEF u
<1>5. CASE q.phase # "idle"
  <2>1. u = [q EXCEPT !.pending = s]
    BY <1>1, <1>5 DEF Appended, EnsureFlush, Persistence
  <2>2. u \in Persistence
    BY <1>1, <1>2, <2>1 DEF Persistence
  <2>3. /\ u.phase = q.phase /\ u.wipe = q.wipe /\ u.error = q.error /\ u.metadata = q.metadata
        /\ ~u.shouldClear /\ u.batch = q.batch /\ u.pending = s
    BY <1>1, <2>1 DEF Persistence
  <2>4. ASSUME NEW f \in LogFile PROVE Whole(f, u) = Append(Whole(f, q), r)
    <3> DEFINE x == IF q.wipe THEN q.batch ELSE ReadBack(f) \o q.batch
    <3>1. x \in Seq(Line) /\ q.pending \in Seq(Line) /\ Whole(f, q) \in Seq(Line)
      BY <1>1, WholeLines
    <3>2. Whole(f, q) = x \o q.pending /\ Whole(f, u) = x \o s
      BY <2>3 DEF Whole
    <3> HIDE DEF x
    <3>3. s = q.pending \o <<r>> /\ Append(Whole(f, q), r) = Whole(f, q) \o <<r>>
      BY <1>3, <3>1, AppendIsConcat
    <3>4. x \o (q.pending \o <<r>>) = (x \o q.pending) \o <<r>>
      BY <1>3, <3>1, Regrouped
    <3> QED
      BY <3>2, <3>3, <3>4
  <2> HIDE DEF u
  <2>5. Sane(u)
    BY <1>5, <2>2, <2>3 DEF Sane
  <2> QED
    BY <1>5, <2>3, <2>4, <2>5 DEF u
<1> QED
  BY <1>4, <1>5

\* The drain loop takes what is pending or comes to its end.
LEMMA DrainIs ==
  ASSUME NEW q \in Persistence, ~q.shouldClear, ~q.error
  PROVE  LET u == Drain(q) IN
         /\ u = [q EXCEPT !.pending = <<>>, !.batch = q.pending, !.wipe = FALSE,
                          !.phase = IF q.pending = <<>> THEN "settling" ELSE "taken"]
         /\ Sane(u)
         /\ u.pending = <<>> /\ u.batch = q.pending /\ ~u.wipe /\ u.error = q.error
         /\ u.metadata = q.metadata
         /\ u.phase = IF q.pending = <<>> THEN "settling" ELSE "taken"
         /\ \A f \in LogFile : Whole(f, u) = ReadBack(f) \o q.pending
<1> DEFINE u == Drain(q)
<1>1. u = [q EXCEPT !.pending = <<>>, !.batch = q.pending, !.wipe = FALSE,
                    !.phase = IF q.pending = <<>> THEN "settling" ELSE "taken"]
  BY DEF Drain, HasWork, Taken, Persistence
<1>2. q.pending \in Seq(Record) /\ <<>> \in Seq(Record)
  BY EmptySeq DEF Persistence
<1>3. u \in Persistence
  BY <1>1, <1>2 DEF Persistence
<1>4. /\ u.pending = <<>> /\ u.batch = q.pending /\ ~u.wipe /\ u.error = q.error /\ ~u.shouldClear
      /\ u.metadata = q.metadata
      /\ u.phase = IF q.pending = <<>> THEN "settling" ELSE "taken"
  BY <1>1 DEF Persistence
<1> HIDE DEF u
<1>5. Sane(u)
  BY <1>3, <1>4 DEF Sane
<1>6. \A f \in LogFile : Whole(f, u) = ReadBack(f) \o q.pending
  BY <1>3, <1>4, WholeLines
<1> QED
  BY <1>1, <1>4, <1>5, <1>6 DEF u

\* The end of a flush leaves the whole alone and looks for more work.
LEMMA AfterFlushSane ==
  ASSUME NEW q, Sane(q), q.phase = "settling"
  PROVE  LET u == AfterFlush(q) IN
         /\ Sane(u) /\ ~u.wipe /\ u.error = q.error /\ u.metadata = q.metadata
         /\ u.phase = (IF q.error \/ q.pending = <<>> THEN "idle" ELSE "taken")
         /\ q.pending = <<>> => u.pending = <<>>
         /\ \A f \in LogFile : Whole(f, u) = Whole(f, q)
<1> DEFINE u == AfterFlush(q)
           free == [q EXCEPT !.phase = "idle"]
<1>1. q \in Persistence /\ ~q.shouldClear /\ q.batch = <<>> /\ ~q.wipe
  BY DEF Sane
<1>2. /\ free \in Persistence /\ ~free.shouldClear /\ free.batch = <<>> /\ ~free.wipe
      /\ free.pending = q.pending /\ free.error = q.error /\ free.phase = "idle"
      /\ free.metadata = q.metadata
  BY <1>1 DEF Persistence
<1>3. \A f \in LogFile : Whole(f, q) = ReadBack(f) \o q.pending
  BY <1>1, WholeLines
<1> HIDE DEF free
<1>4. CASE q.error \/ q.pending = <<>>
  <2>1. u = free
    BY <1>2, <1>4 DEF AfterFlush, MayWrite, HasWork, free
  <2>2. Sane(free)
    BY <1>2, <1>4 DEF Sane
  <2>3. \A f \in LogFile : Whole(f, free) = ReadBack(f) \o q.pending
    BY <1>2, WholeLines
  <2> QED
    BY <1>2, <1>3, <1>4, <2>1, <2>2, <2>3
<1>5. CASE ~(q.error \/ q.pending = <<>>)
  <2>1. u = Drain(free)
    BY <1>2, <1>5 DEF AfterFlush, MayWrite, HasWork, EnsureFlush, free
  <2>2. LET d == Drain(free) IN
        /\ Sane(d) /\ ~d.wipe /\ d.error = q.error /\ d.metadata = q.metadata /\ d.phase = "taken"
        /\ \A f \in LogFile : Whole(f, d) = ReadBack(f) \o q.pending
    BY <1>2, <1>5, DrainIs
  <2> QED
    BY <1>3, <1>5, <2>1, <2>2
<1> QED
  BY <1>4, <1>5

\* A new persistence has nothing to do.
LEMMA NewSane ==
  /\ Sane(NewPersistence) /\ ~NewPersistence.error /\ ~NewPersistence.wipe
  /\ NewPersistence.phase = "idle" /\ NewPersistence.pending = <<>>
  /\ NewPersistence.batch = <<>> /\ ~NewPersistence.metadata
<1>1. <<>> \in Seq(Record)
  BY EmptySeq
<1> QED
  BY <1>1 DEF Sane, NewPersistence, Persistence


---------------------------------------------------------------------------
(* Files and persistences of reachable states.                             *)

\* Behind what is read back, the file will have what is pending.
LEMMA FileBegins ==
  ASSUME NEW f \in LogFile, NEW q \in Persistence, q.wipe => f = File!Empty
  PROVE  Begins(ReadBack(f) \o q.batch, Whole(f, q))
<1>1. /\ q.pending \in Seq(Line) /\ q.batch \in Seq(Line) /\ ReadBack(f) \in Seq(Line)
      /\ ReadBack(f) \o q.batch \in Seq(Line)
  BY WholeLines
<1>2. CASE q.wipe
  <2>1. f.tail = <<>> /\ f.lines = <<>>
    BY <1>2 DEF File!Empty
  <2>2. ReadBack(f) = <<>>
    BY <2>1, ReadBackLines
  <2>3. ReadBack(f) \o q.batch = q.batch
    BY <1>1, <2>2, ConcatEmptySeq
  <2> QED
    BY <1>1, <1>2, <2>3, ConcatLines DEF Whole
<1>3. CASE ~q.wipe
  BY <1>1, <1>3, ConcatLines DEF Whole
<1> QED
  BY <1>2, <1>3

\* The file when a batch fails or the process dies.
LEMMA Dies ==
  ASSUME IInv, NEW g \in IF p.phase = "open" THEN File!Interrupted(file, p.batch) ELSE {file}
  PROVE  /\ g \in LogFile /\ (IsOld(g) => IsOld(file)) /\ (Corrupted(g) => torn)
         /\ g # file /\ file.tail # <<>> => torn
         /\ ~Corrupted(g) => InOrder(ReadBack(g)) /\ UpTo(ReadBack(g), last)
         /\ ~glued /\ ~cut /\ ~(g # file /\ file.tail # <<>>) => confirmed \subseteq RecordsOf(ReadBack(g))
<1>1. /\ file \in LogFile /\ Sane(p) /\ p \in Persistence
      /\ p.pending \in Seq(Record) /\ p.batch \in Seq(Record)
  BY DEF IInv, Types, Phases, Sane, Persistence
<1>2. CASE p.phase # "open"
  <2>1. g = file
    BY <1>2
  <2> QED
    BY <1>1, <2>1 DEF IInv, Tears, Order, Holds
<1>3. CASE p.phase = "open"
  <2>1. g \in File!Interrupted(file, p.batch)
    BY <1>3
  <2>2. ~p.error /\ Alive /\ (p.wipe => file = File!Empty)
    BY <1>1, <1>3, NewSane DEF IInv, Phases, Sane, Rewrites
  <2>3. g \in LogFile /\ (IsOld(g) => IsOld(file)) /\ (Corrupted(file) => Corrupted(g))
        /\ (~Corrupted(g) => Begins(ReadBack(g), ReadBack(file) \o p.batch))
        /\ (file.tail = <<>> => (Corrupted(g) => Corrupted(file)) /\ Begins(ReadBack(file), ReadBack(g)))
    BY <1>1, <2>1, CutWhole, CutGlued
  <2>4. file.tail # <<>> => torn
    <3>1. CASE life = "up"
      BY <2>2, <3>1 DEF IInv, Tears
    <3>2. CASE life = "replaying"
      <4>1. p.wipe
        BY <1>3, <3>2 DEF IInv, Phases
      <4> QED
        BY <2>2, <4>1 DEF File!Empty
    <3> QED
      BY <2>2, <3>1, <3>2 DEF Alive
  <2>5. Corrupted(g) => torn
    BY <2>3, <2>4 DEF IInv, Tears
  <2>6. ASSUME ~Corrupted(g) PROVE InOrder(ReadBack(g)) /\ UpTo(ReadBack(g), last)
    <3>1. InOrder(Whole(file, p)) /\ UpTo(Whole(file, p), last)
      BY <2>2, <2>3, <2>6 DEF IInv, Order
    <3>2. /\ Begins(ReadBack(g), ReadBack(file) \o p.batch)
          /\ Begins(ReadBack(file) \o p.batch, Whole(file, p))
      BY <1>1, <2>2, <2>3, <2>6, FileBegins
    <3>3. /\ ReadBack(g) \in Seq(Line) /\ ReadBack(file) \o p.batch \in Seq(Line)
          /\ Whole(file, p) \in Seq(Line)
      BY <1>1, <2>3, ReadBackLines, WholeLines
    <3>4. Begins(ReadBack(g), Whole(file, p))
      BY <3>2, <3>3, BeginsTwice
    <3> QED
      BY <3>1, <3>3, <3>4, BeginsInOrder
  <2>7. ASSUME ~glued, ~cut, ~(g # file /\ file.tail # <<>>)
        PROVE  confirmed \subseteq RecordsOf(ReadBack(g))
    <3>1. confirmed \subseteq RecordsOf(ReadBack(file))
      BY <2>7 DEF IInv, Holds
    <3>2. CASE g = file
      BY <3>1, <3>2
    <3>3. CASE file.tail = <<>>
      <4>1. RecordsOf(ReadBack(file)) \subseteq RecordsOf(ReadBack(g))
        BY <1>1, <2>3, <3>3, ReadBackLines, BeginsInOrder
      <4> QED
        BY <3>1, <4>1
    <3> QED
      BY <2>7, <3>2, <3>3
  <2> QED
    BY <2>3, <2>4, <2>5, <2>6, <2>7
<1> QED
  BY <1>2, <1>3

\* The log that a migration writes is the one it has read.
LEMMA MigratedLog ==
  ASSUME NEW s \in Seq(Line), InOrder(s), s # <<>>, s[1] = OldMetadata, NEW n, n \in Nat, UpTo(s, n)
  PROVE  /\ Migrated(s) \in Seq(Record) /\ Migrated(s) # <<>>
         /\ InOrder(Migrated(s)) /\ UpTo(Migrated(s), n)
         /\ RecordsOf(s) \cap 1 .. N \subseteq RecordsOf(Migrated(s))
<1> DEFINE u == Migrated(s)
           k == Len(s)
<1>1. k \in Nat /\ DOMAIN s = 1 .. k /\ s \in [1 .. k -> Line] /\ k # 0
  BY LenProperties, EmptySeq
<1>2. u = [i \in 1 .. k |-> IF s[i] = OldMetadata THEN Metadata ELSE s[i]]
  BY <1>1 DEF Migrated
<1>3. \A i \in 1 .. k : s[i] \in Int /\ s[i] <= N /\ s[i] <= n
  BY <1>1, LogAssumption DEF Line, UpTo
<1>4. \A i \in 1 .. k : i > 1 => s[i] >= 1
  BY <1>1 DEF InOrder
<1>5. \A i \in 1 .. k : u[i] = IF i = 1 THEN 0 ELSE s[i]
  <2>1. ASSUME NEW i \in 1 .. k PROVE u[i] = IF i = 1 THEN 0 ELSE s[i]
    <3>1. CASE i = 1
      BY <1>2, <3>1 DEF Metadata
    <3>2. CASE i # 1
      <4>1. s[i] # OldMetadata
        BY <1>3, <1>4, <3>2 DEF OldMetadata
      <4> QED
        BY <1>2, <3>2, <4>1
    <3> QED
      BY <3>1, <3>2
  <2> QED
    BY <2>1
<1> HIDE DEF u
<1>6. \A i \in 1 .. k : u[i] \in Record
  BY <1>3, <1>4, <1>5, LogAssumption DEF Record
<1>7. u \in [1 .. k -> Record]
  BY <1>2, <1>6
<1>8. u \in Seq(Record) /\ DOMAIN u = 1 .. k
  BY <1>1, <1>7
<1>9. u # <<>>
  BY <1>1, <1>8, EmptySeq
<1>10. InOrder(u)
  <2>1. u[1] = Metadata
    BY <1>1, <1>5 DEF Metadata
  <2>2. ASSUME NEW i \in 1 .. k, i > 1 PROVE u[i] >= 1
    BY <1>4, <1>5, <2>2
  <2>3. ASSUME NEW i \in 1 .. k, NEW j \in 1 .. k, i < j PROVE u[i] < u[j]
    <3>1. u[j] = s[j] /\ s[j] >= 1 /\ s[j] \in Int
      BY <1>3, <1>4, <1>5, <2>3
    <3>2. CASE i = 1
      BY <1>5, <3>1, <3>2
    <3>3. CASE i # 1
      BY <1>1, <1>5, <2>3, <3>1, <3>3 DEF InOrder
    <3> QED
      BY <3>2, <3>3
  <2> QED
    BY <1>8, <2>1, <2>2, <2>3 DEF InOrder
<1>11. UpTo(u, n)
  BY <1>3, <1>5, <1>8 DEF UpTo
<1>12. ASSUME NEW x \in RecordsOf(s) \cap 1 .. N PROVE x \in RecordsOf(u)
  <2>1. PICK i \in 1 .. k : s[i] = x
    BY <1>1 DEF RecordsOf
  <2>2. i # 1 /\ u[i] = x
    BY <1>5, <2>1 DEF OldMetadata
  <2> QED
    BY <1>8, <2>2 DEF RecordsOf
<1> QED
  BY <1>8, <1>9, <1>10, <1>11, <1>12 DEF u


---------------------------------------------------------------------------
(* One lemma per action.                                                   *)

\* A new log, or one of an older version.
LEMMA Initially == Init => IInv
<1> SUFFICES ASSUME Init PROVE IInv
  OBVIOUS
<1>1. PICK lines \in {<<>>, <<OldMetadata, 1>>} :
        /\ file = [lines |-> lines, tail |-> <<>>]
        /\ last = Cardinality(RecordsOf(lines) \cap 1 .. N)
        /\ confirmed = RecordsOf(lines) \cap 1 .. N
  BY DEF Init
<1>2. /\ life = "down" /\ p = NewPersistence /\ waiting = {} /\ held = {} /\ cut = FALSE
      /\ torn = FALSE /\ glued = FALSE /\ crashes = 0 /\ faults = 0
  BY DEF Init
<1>3. OldMetadata \in Line /\ 1 \in Line /\ 1 \in 1 .. N
  BY LogAssumption DEF OldMetadata, Line
<1>4. lines \in Seq(Line)
  <2>1. <<OldMetadata>> \in Seq(Line) /\ <<1>> \in Seq(Line)
    BY <1>3, OneLine
  <2>2. <<OldMetadata, 1>> \in Seq(Line)
    <3>1. <<OldMetadata, 1>> = <<OldMetadata>> \o <<1>>
      OBVIOUS
    <3> QED
      BY <2>1, <3>1, ConcatLines
  <2> QED
    BY <1>1, <2>2, EmptyLog
<1>5. file \in LogFile /\ file.tail = <<>> /\ file.lines = lines
  BY <1>1, <1>4 DEF LogFile
<1>6. ReadBack(file) = lines
  BY <1>5, ReadBackLines
<1>7. last \in 0 .. N /\ InOrder(lines) /\ UpTo(lines, last) /\ ~Corrupted(file)
  <2>1. CASE lines = <<>>
    <3>1. RecordsOf(lines) \cap 1 .. N = {}
      BY <2>1, EmptyLog
    <3>2. last = 0
      BY <1>1, <3>1, FS_EmptySet
    <3> QED
      BY <1>5, <2>1, <3>2, EmptyLog, Numbers DEF Corrupted
  <2>2. CASE lines = <<OldMetadata, 1>>
    <3>1. DOMAIN lines = 1 .. 2 /\ lines[1] = OldMetadata /\ lines[2] = 1
      BY <2>2
    <3>2. RecordsOf(lines) \cap 1 .. N = {1}
      BY <1>3, <3>1 DEF RecordsOf, OldMetadata
    <3>3. last = 1
      BY <1>1, <3>2, FS_Singleton
    <3>4. InOrder(lines) /\ UpTo(lines, last)
      BY <3>1, <3>3 DEF InOrder, UpTo, OldMetadata
    <3>5. ~Corrupted(file)
      BY <1>5, <3>1 DEF Corrupted, Bad, OldMetadata
    <3> QED
      BY <1>3, <3>3, <3>4, <3>5, LogAssumption
  <2> QED
    BY <1>1, <2>1, <2>2
<1>8. ~Alive
  BY <1>2 DEF Alive
<1>9. Types
  <2>1. confirmed \subseteq 1 .. N
    BY <1>1
  <2>2. crashes \in 0 .. MaxCrashes /\ faults \in 0 .. MaxFaults
    BY <1>2, LogAssumption
  <2> QED
    BY <1>2, <1>5, <1>7, <2>1, <2>2 DEF Types
<1>10. Phases /\ Rewrites /\ Tears
  BY <1>2, <1>5, <1>7, <1>8, NewSane DEF Phases, Rewrites, Tears
<1>11. Order
  BY <1>6, <1>7, <1>8 DEF Order
<1>12. Holds
  BY <1>1, <1>2, <1>6, <1>8, NewSane DEF Holds
<1> QED
  BY <1>9, <1>10, <1>11, <1>12 DEF IInv

\* What every state that is reached can be taken for.
LEMMA Reached ==
  ASSUME IInv
  PROVE  /\ file \in LogFile /\ Sane(p) /\ p \in Persistence
         /\ p.pending \in Seq(Record) /\ p.batch \in Seq(Record)
         /\ ReadBack(file) \in Seq(Line) /\ Whole(file, p) \in Seq(Line)
         /\ last \in Nat /\ held \subseteq 1 .. N /\ confirmed \subseteq 1 .. N
         /\ life = "up" => ~p.wipe /\ Alive
         /\ p.phase \in {"taken", "open"} => Alive /\ ~p.error
<1>1. file \in LogFile /\ Sane(p) /\ p \in Persistence /\ p.pending \in Seq(Record) /\ p.batch \in Seq(Record)
      /\ last \in Nat /\ held \subseteq 1 .. N /\ confirmed \subseteq 1 .. N
  BY DEF IInv, Types, Phases, Sane, Persistence
<1>2. life = "up" => ~p.wipe /\ Alive
  BY <1>1 DEF IInv, Phases, Sane, Persistence, Alive
<1>3. p.phase \in {"taken", "open"} => Alive /\ ~p.error
  BY <1>1, NewSane DEF IInv, Phases, Sane
<1> QED
  BY <1>1, <1>2, <1>3, ReadBackLines, WholeLines

\* A start reads the file and may begin to write it anew.
LEMMA StartKeeps == ASSUME IInv, Start PROVE IInv'
<1> DEFINE s == ReadBack(file)
           q == [NewPersistence EXCEPT !.metadata = s # <<>>]
<1>0. /\ life = "down" /\ ~Alive /\ p = NewPersistence /\ held = {}
      /\ file' = file /\ waiting' = waiting /\ last' = last /\ confirmed' = confirmed
      /\ cut' = cut /\ glued' = glued /\ crashes' = crashes /\ faults' = faults
  BY DEF Start, Alive, IInv, Phases
<1>1. s \in Seq(Line) /\ file \in LogFile /\ last \in Nat /\ confirmed \subseteq 1 .. N
  BY Reached
<1>2. s # <<>> => Head(s) = s[1]
  BY <1>1
<1>3. q \in Persistence /\ Sane(q) /\ ~q.error /\ ~q.wipe /\ q.phase = "idle" /\ q.pending = <<>>
      /\ q.batch = <<>> /\ ~q.shouldClear /\ (q.metadata <=> s # <<>>)
  <2>1. q \in Persistence /\ q.error = FALSE /\ q.wipe = FALSE /\ q.phase = "idle"
        /\ q.pending = <<>> /\ q.batch = <<>> /\ q.shouldClear = FALSE /\ q.metadata = (s # <<>>)
    <3>1. <<>> \in Seq(Record) /\ (s # <<>>) \in BOOLEAN
      BY EmptySeq
    <3> QED
      BY <3>1 DEF NewPersistence, Persistence
  <2> HIDE DEF q
  <2> QED
    BY <2>1 DEF Sane
<1>4. CASE Corrupted(file) \/ (s # <<>> /\ Head(s) \notin {Metadata, OldMetadata})
  <2>1. life' = "refused" /\ p' = p /\ held' = held /\ torn' = torn
    BY <1>4 DEF Start
  <2>2. ~Alive'
    BY <2>1 DEF Alive
  <2>3. Types'
    BY <1>0, <2>1 DEF IInv, Types
  <2>4. Phases'
    BY <1>0, <2>1, <2>2, NewSane DEF Phases
  <2>5. Rewrites'
    BY <1>0, <2>1 DEF IInv, Rewrites
  <2>6. Tears'
    BY <1>0, <2>1, NewSane DEF IInv, Tears
  <2>7. Order'
    BY <1>0, <2>1, <2>2 DEF IInv, Order
  <2>8. Holds'
    BY <1>0, <2>1, <2>2, NewSane DEF IInv, Holds
  <2> QED
    BY <2>3, <2>4, <2>5, <2>6, <2>7, <2>8 DEF IInv
<1>5. CASE /\ ~Corrupted(file) /\ (s # <<>> => Head(s) \in {Metadata, OldMetadata})
           /\ s # <<>> /\ Head(s) = OldMetadata
  <2> DEFINE u == Migrated(s)
  <2>1. /\ life' = "replaying" /\ p' = Rewritten(q, u) /\ torn' = torn
        /\ held' = RecordsOf(s) \cap 1 .. N
    BY <1>5 DEF Start
  <2>2. InOrder(s) /\ UpTo(s, last)
    BY <1>5 DEF IInv, Order
  <2>3. u \in Seq(Record) /\ u # <<>> /\ InOrder(u) /\ UpTo(u, last)
        /\ RecordsOf(s) \cap 1 .. N \subseteq RecordsOf(u)
    BY <1>1, <1>2, <1>5, <2>2, MigratedLog
  <2> HIDE DEF u, q
  <2>4. p' = [q EXCEPT !.shouldClear = FALSE, !.pending = <<>>, !.batch = u, !.wipe = TRUE,
                       !.phase = "taken"]
    BY <1>3, <2>1 DEF Rewritten, EnsureFlush, Drain, HasWork, Taken, Persistence
  <2>5. p' \in Persistence
    <3>1. <<>> \in Seq(Record)
      BY EmptySeq
    <3> QED
      BY <1>3, <2>3, <2>4, <3>1 DEF Persistence
  <2>6. /\ p'.wipe /\ p'.batch = u /\ p'.pending = <<>> /\ p'.phase = "taken" /\ ~p'.error
        /\ ~p'.shouldClear /\ p'.metadata
    BY <1>3, <1>5, <2>4 DEF Persistence
  <2>7. Whole(file', p') = u
    BY <1>0, <1>1, <2>5, <2>6, WholeLines
  <2>8. Alive'
    BY <2>1 DEF Alive
  <2>9. IsOld(file)
    <3>1. s[1] = OldMetadata /\ 1 \in DOMAIN s
      BY <1>1, <1>2, <1>5, EmptySeq, LenProperties
    <3>2. OldMetadata \in RecordsOf(s)
      BY <3>1 DEF RecordsOf
    <3>3. CASE file.tail = <<>>
      <4>1. s = file.lines
        BY <1>1, <3>3, ReadBackLines
      <4> QED
        BY <3>2, <4>1 DEF IsOld, RecordsOf
    <3>4. CASE file.tail # <<>>
      <4>1. PICK x \in Line : file.tail = <<x>>
        BY <1>1, <3>4 DEF LogFile
      <4>2. file.lines \in Seq(Line)
        BY <1>1 DEF LogFile
      <4>3. CASE file.tail = <<Bad>>
        <5>1. s = file.lines
          BY <4>2, <4>3, ConcatEmptySeq DEF ReadBack
        <5> QED
          BY <3>2, <5>1 DEF IsOld, RecordsOf
      <4>4. CASE file.tail # <<Bad>>
        <5>1. s = file.lines \o <<x>>
          BY <4>1, <4>4 DEF ReadBack
        <5>2. RecordsOf(s) = RecordsOf(file.lines) \cup {x}
          BY <4>2, <5>1, OneLine, ConcatLines
        <5>3. OldMetadata \in RecordsOf(file.lines) \/ OldMetadata = x
          BY <3>2, <5>2
        <5> QED
          BY <4>1, <5>3 DEF IsOld, RecordsOf
      <4> QED
        BY <4>3, <4>4
    <3> QED
      BY <3>3, <3>4
  <2>10. ~cut
    BY <2>9 DEF IInv, Rewrites
  <2>11. Types'
    BY <1>0, <2>1 DEF IInv, Types
  <2>12. Phases'
    BY <2>1, <2>5, <2>6, <2>8 DEF Phases, Sane
  <2>13. Rewrites'
    BY <1>0, <1>5, <2>3, <2>6, <2>10 DEF Rewrites
  <2>14. Tears'
    BY <1>0, <2>1, <2>6 DEF IInv, Tears
  <2>15. Order'
    BY <1>0, <2>2, <2>3, <2>6, <2>7 DEF Order
  <2>16. Holds'
    <3>1. ~glued => confirmed \subseteq RecordsOf(s)
      BY <2>10 DEF IInv, Holds
    <3>2. ~glued => confirmed \cup held' \subseteq RecordsOf(u)
      BY <1>1, <2>1, <2>3, <3>1
    <3> QED
      BY <1>0, <2>6, <2>7, <3>1, <3>2 DEF Holds
  <2> QED
    BY <2>11, <2>12, <2>13, <2>14, <2>15, <2>16 DEF IInv
<1>6. CASE /\ ~Corrupted(file) /\ (s # <<>> => Head(s) \in {Metadata, OldMetadata})
           /\ ~(s # <<>> /\ Head(s) = OldMetadata)
  <2>1. /\ life' = "up" /\ p' = q /\ torn' = (torn \/ file.tail # <<>>)
        /\ held' = RecordsOf(s) \cap 1 .. N
    BY <1>6 DEF Start
  <2>2. InOrder(s) /\ UpTo(s, last)
    BY <1>6 DEF IInv, Order
  <2> HIDE DEF q
  <2>3. Whole(file', p') = s
    <3>1. Whole(file, q) = s \o <<>>
      BY <1>1, <1>3, WholeLines
    <3> QED
      BY <1>0, <1>1, <2>1, <3>1, ConcatEmptySeq
  <2>4. Types'
    <3>1. torn' \in BOOLEAN
      BY <2>1 DEF IInv, Types
    <3> QED
      BY <1>0, <2>1, <3>1 DEF IInv, Types
  <2>5. Phases'
    BY <1>3, <2>1 DEF Phases, Alive
  <2>6. Rewrites'
    BY <1>0, <1>3, <2>1 DEF IInv, Rewrites
  <2>7. Tears'
    BY <1>0, <2>1 DEF IInv, Tears
  <2>8. Order'
    BY <1>0, <1>3, <2>1, <2>2, <2>3 DEF Order
  <2>9. Holds'
    BY <1>0, <1>3, <2>1, <2>3 DEF IInv, Holds
  <2> QED
    BY <2>4, <2>5, <2>6, <2>7, <2>8, <2>9 DEF IInv
<1> QED
  BY <1>4, <1>5, <1>6

\* The replay ends with its rewrite.
LEMMA ReplayDoneKeeps == ASSUME IInv, ReplayDone PROVE IInv'
<1>0. /\ life = "replaying" /\ Alive /\ p.phase = "idle" /\ ~p.wipe
      /\ file' = file /\ waiting' = waiting /\ last' = last /\ confirmed' = confirmed
      /\ cut' = cut /\ torn' = torn /\ glued' = glued /\ crashes' = crashes /\ faults' = faults
  BY DEF ReplayDone, Alive, IInv, Phases, Sane
<1>1. CASE p.error
  <2>1. life' = "down" /\ p' = NewPersistence /\ held' = {} /\ ~Alive'
    BY <1>1 DEF ReplayDone, Alive
  <2>2. Types'
    BY <1>0, <2>1 DEF IInv, Types
  <2>3. Phases'
    BY <2>1, NewSane DEF Phases
  <2>4. Rewrites' /\ Tears'
    BY <1>0, <2>1, NewSane DEF IInv, Rewrites, Tears
  <2>5. Order' /\ Holds'
    BY <1>0, <2>1, NewSane DEF IInv, Order, Holds
  <2> QED
    BY <2>2, <2>3, <2>4, <2>5 DEF IInv
<1>2. CASE ~p.error
  <2>1. life' = "up" /\ p' = p /\ held' = held /\ Alive'
    BY <1>2 DEF ReplayDone, Alive
  <2>2. Types'
    BY <1>0, <2>1 DEF IInv, Types
  <2>3. Phases'
    BY <1>0, <2>1 DEF IInv, Phases
  <2>4. Rewrites' /\ Tears'
    BY <1>0, <1>2, <2>1 DEF IInv, Rewrites, Tears
  <2>5. Order' /\ Holds'
    BY <1>0, <2>1 DEF IInv, Order, Holds
  <2> QED
    BY <2>2, <2>3, <2>4, <2>5 DEF IInv
<1> QED
  BY <1>1, <1>2


\* logRecord puts the record, after the metadata if it is the first, behind the whole.
LEMMA LoggedSane ==
  ASSUME NEW q, Sane(q), ~q.error, NEW r \in 1 .. N
  PROVE  LET u == Logged(q, r) IN
         /\ Sane(u) /\ u.phase = (IF q.phase = "idle" THEN "taken" ELSE q.phase)
         /\ u.wipe = q.wipe /\ u.error = q.error /\ u.metadata
         /\ q.phase # "idle" => u.batch = q.batch
         /\ \A f \in LogFile : Whole(f, u) =
              Append(IF q.metadata THEN Whole(f, q) ELSE Append(Whole(f, q), Metadata), r)
<1>1. r \in Record /\ Metadata \in Record
  BY Numbers
<1>2. CASE q.metadata
  <2>1. Logged(q, r) = Appended(q, r)
    BY <1>2 DEF Logged
  <2> QED
    BY <1>1, <1>2, <2>1, AppendedSane
<1>3. CASE ~q.metadata
  <2> DEFINE v == Appended(q, Metadata)
             w == [v EXCEPT !.metadata = TRUE]
             u == Appended(w, r)
  <2>1. Logged(q, r) = u
    BY <1>3 DEF Logged
  <2>2. /\ Sane(v) /\ v.phase = (IF q.phase = "idle" THEN "taken" ELSE q.phase)
        /\ v.wipe = q.wipe /\ v.error = q.error
        /\ q.phase # "idle" => v.batch = q.batch
        /\ \A f \in LogFile : Whole(f, v) = Append(Whole(f, q), Metadata)
    BY <1>1, AppendedSane
  <2> HIDE DEF v
  <2>3. v \in Persistence
    BY <2>2 DEF Sane
  <2>4. /\ w \in Persistence /\ w.pending = v.pending /\ w.shouldClear = v.shouldClear
        /\ w.error = v.error /\ w.phase = v.phase /\ w.batch = v.batch /\ w.wipe = v.wipe
        /\ w.metadata = TRUE
    BY <2>3 DEF Persistence
  <2> HIDE DEF w
  <2>5. Sane(w)
    BY <2>2, <2>4 DEF Sane
  <2>6. \A f \in LogFile : Whole(f, w) = Append(Whole(f, q), Metadata)
    <3>1. ASSUME NEW f \in LogFile PROVE Whole(f, w) = Whole(f, v)
      BY <2>4 DEF Whole
    <3> QED
      BY <2>2, <3>1
  <2>7. /\ Sane(u) /\ u.phase = (IF w.phase = "idle" THEN "taken" ELSE w.phase)
        /\ u.wipe = w.wipe /\ u.error = w.error /\ u.metadata = w.metadata
        /\ w.phase # "idle" => u.batch = w.batch
        /\ \A f \in LogFile : Whole(f, u) = Append(Whole(f, w), r)
    <3>1. ~w.error
      BY <2>2, <2>4
    <3> QED
      BY <1>1, <2>5, <3>1, AppendedSane
  <2> HIDE DEF u
  <2> QED
    BY <1>3, <2>1, <2>2, <2>4, <2>6, <2>7
<1> QED
  BY <1>2, <1>3

\* A record is logged behind all others.
LEMMA LogRecordKeeps == ASSUME IInv, LogRecord PROVE IInv'
<1> DEFINE r == last + 1
           u == Logged(p, r)
           base == IF p.metadata THEN Whole(file, p) ELSE Append(Whole(file, p), Metadata)
<1>0. /\ life = "up" /\ last < N /\ ~p.error /\ last' = r /\ p' = u /\ held' = held \cup {r}
      /\ file' = file /\ life' = life /\ waiting' = waiting /\ confirmed' = confirmed
      /\ cut' = cut /\ torn' = torn /\ glued' = glued /\ crashes' = crashes /\ faults' = faults
  BY DEF LogRecord, MayWrite
<1>1. /\ file \in LogFile /\ Sane(p) /\ Whole(file, p) \in Seq(Line) /\ last \in Nat /\ held \subseteq 1 .. N
      /\ ~p.wipe /\ Alive
  BY <1>0, Reached
<1>2. r \in 1 .. N /\ r \in Line /\ r \in Nat /\ r > last /\ r > 0
  BY <1>0, <1>1, LogAssumption DEF Line
<1>3. /\ Sane(u) /\ u.phase = (IF p.phase = "idle" THEN "taken" ELSE p.phase)
      /\ ~u.wipe /\ ~u.error /\ u.metadata
      /\ p.phase # "idle" => u.batch = p.batch
      /\ Whole(file, u) = Append(base, r)
  BY <1>0, <1>1, <1>2, LoggedSane
<1>4. Alive'
  BY <1>0 DEF Alive
<1>5. RecordsOf(Whole(file, p)) \cup {r} \subseteq RecordsOf(Append(base, r))
  <2>1. base \in Seq(Line) /\ RecordsOf(Whole(file, p)) \subseteq RecordsOf(base)
    <3>1. Append(Whole(file, p), Metadata) = Whole(file, p) \o <<Metadata>>
      BY <1>1, AppendIsConcat, Numbers
    <3>2. <<Metadata>> \in Seq(Line)
      BY OneLine, Numbers
    <3> QED
      BY <1>1, <3>1, <3>2, ConcatLines
  <2> HIDE DEF base
  <2>2. Append(base, r) = base \o <<r>>
    BY <1>2, <2>1, AppendIsConcat
  <2>3. RecordsOf(base \o <<r>>) = RecordsOf(base) \cup RecordsOf(<<r>>) /\ RecordsOf(<<r>>) = {r}
    BY <1>2, <2>1, OneLine, ConcatLines
  <2> QED
    BY <2>1, <2>2, <2>3
<1>6. ASSUME ~Corrupted(file)
      PROVE  /\ InOrder(Append(base, r)) /\ UpTo(Append(base, r), r) /\ Append(base, r) # <<>>
             /\ UpTo(ReadBack(file), r) /\ InOrder(ReadBack(file))
  <2>1. /\ InOrder(Whole(file, p)) /\ UpTo(Whole(file, p), last)
        /\ p.metadata <=> Whole(file, p) # <<>>
        /\ InOrder(ReadBack(file)) /\ UpTo(ReadBack(file), last)
    BY <1>0, <1>1, <1>6 DEF IInv, Order
  <2>2. UpTo(ReadBack(file), r)
    <3>1. ReadBack(file) \in Seq(Line)
      BY <1>1, ReadBackLines
    <3>2. \A i \in DOMAIN ReadBack(file) : ReadBack(file)[i] \in Int
      <4> DEFINE w == ReadBack(file)
      <4>1. w \in [1 .. Len(w) -> Line]
        BY <3>1, LenProperties
      <4> HIDE DEF w
      <4>2. \A i \in DOMAIN w : w[i] \in Int
        BY <4>1, Numbers
      <4> QED
        BY <4>2 DEF w
    <3> QED
      BY <1>1, <1>2, <2>1, <3>2 DEF UpTo
  <2>3. InOrder(base) /\ UpTo(base, last) /\ base # <<>> /\ base \in Seq(Line)
    <3>1. CASE p.metadata
      BY <1>1, <2>1, <3>1
    <3>2. CASE ~p.metadata
      <4>1. Whole(file, p) = <<>> /\ base = Append(Whole(file, p), Metadata)
        BY <2>1, <3>2
      <4>2. Metadata \in Line
        BY Numbers
      <4>3. InOrder(base) /\ UpTo(base, last)
        <5> DEFINE w == Whole(file, p)
        <5>1. w = <<>> /\ w \in Seq(Line) /\ InOrder(w) /\ UpTo(w, last) /\ last >= 0
          BY <1>1, <2>1, <4>1
        <5> HIDE DEF w
        <5>2. InOrder(Append(w, Metadata)) /\ UpTo(Append(w, Metadata), last)
          BY <1>1, <4>2, <5>1, Longer
        <5> QED
          BY <4>1, <5>2 DEF w
      <4>4. base # <<>> /\ base \in Seq(Line)
        BY <1>1, <4>1, <4>2, AppendProperties
      <4> QED
        BY <4>3, <4>4
    <3> QED
      BY <3>1, <3>2
  <2> HIDE DEF base
  <2>4. InOrder(Append(base, r)) /\ UpTo(Append(base, r), r)
    BY <1>1, <1>2, <2>3, Longer
  <2>5. Append(base, r) # <<>>
    BY <1>2, <2>3, AppendProperties
  <2> QED
    BY <2>1, <2>2, <2>4, <2>5
<1> HIDE DEF r, u, base
<1>7. Types'
  <2>1. last' \in 0 .. N /\ held' \subseteq 1 .. N
    BY <1>0, <1>1, <1>2
  <2> QED
    BY <1>0, <2>1 DEF IInv, Types
<1>8. Phases'
  BY <1>0, <1>3, <1>4 DEF Phases
<1>9. Rewrites'
  BY <1>0, <1>3 DEF IInv, Rewrites
<1>10. Tears'
  BY <1>0, <1>3 DEF IInv, Tears
<1>11. Order'
  BY <1>0, <1>3, <1>6 DEF Order
<1>12. Holds'
  BY <1>0, <1>1, <1>3, <1>5 DEF IInv, Holds
<1> QED
  BY <1>7, <1>8, <1>9, <1>10, <1>11, <1>12 DEF IInv

\* What a flush vouches for is in the file.
LEMMA VouchedKept ==
  ASSUME IInv, Flushed(p), ~p.error, NEW k
  PROVE  /\ Vouched(k) \subseteq 1 .. N
         /\ ~glued /\ ~cut => Vouched(k) \subseteq RecordsOf(ReadBack(file))
         /\ ~p.wipe
<1>1. /\ p.phase = "idle" /\ p.pending = <<>> /\ p.batch = <<>> /\ ~p.wipe
      /\ held \subseteq 1 .. N /\ confirmed \subseteq 1 .. N
      /\ file \in LogFile /\ p \in Persistence /\ ReadBack(file) \in Seq(Line)
  BY Reached DEF Flushed, HasWork, Sane
<1>2. Whole(file, p) = ReadBack(file)
  <2>1. Whole(file, p) = ReadBack(file) \o <<>>
    BY <1>1, WholeLines
  <2> QED
    BY <1>1, <2>1, ConcatEmptySeq
<1>3. ~glued /\ ~cut => held \subseteq RecordsOf(ReadBack(file)) /\ confirmed \subseteq RecordsOf(ReadBack(file))
  <2>1. CASE Alive
    BY <1>2, <2>1 DEF IInv, Holds
  <2>2. CASE ~Alive
    BY <2>2 DEF IInv, Holds, Phases
  <2> QED
    BY <2>1, <2>2
<1> QED
  BY <1>1, <1>3 DEF Vouched

\* A step that only a flush sees.
LEMMA OnlyWaits ==
  ASSUME IInv, file' = file, life' = life, p' = p, held' = held, last' = last, cut' = cut,
         torn' = torn, glued' = glued, crashes' = crashes, faults' = faults,
         waiting' \subseteq 0 .. N, confirmed' \subseteq 1 .. N,
         confirmed' = confirmed \/
           (~p.wipe /\ (~glued /\ ~cut => confirmed' \subseteq RecordsOf(ReadBack(file))))
  PROVE  IInv'
<1>1. Types'
  BY DEF IInv, Types
<1>2. Phases' /\ Rewrites' /\ Tears'
  BY DEF IInv, Phases, Rewrites, Tears, Alive
<1>3. Order'
  BY DEF IInv, Order, Alive
<1>4. Holds'
  BY DEF IInv, Holds, Alive
<1> QED
  BY <1>1, <1>2, <1>3, <1>4 DEF IInv

\* A flush vouches at once or waits.
LEMMA FlushKeeps == ASSUME IInv, Flush PROVE IInv'
<1>0. /\ life = "up" /\ ~p.error /\ file' = file /\ life' = life /\ held' = held /\ last' = last
      /\ cut' = cut /\ torn' = torn /\ glued' = glued /\ crashes' = crashes /\ faults' = faults
  BY DEF Flush
<1>1. last \in 0 .. N /\ waiting \subseteq 0 .. N /\ confirmed \subseteq 1 .. N
  BY DEF IInv, Types
<1>2. CASE Flushed(p)
  <2>1. confirmed' = Vouched(last) /\ p' = p /\ waiting' = waiting
    BY <1>2 DEF Flush
  <2>2. Vouched(last) \subseteq 1 .. N /\ ~p.wipe
        /\ (~glued /\ ~cut => Vouched(last) \subseteq RecordsOf(ReadBack(file)))
    BY <1>0, <1>2, VouchedKept
  <2> QED
    BY <1>0, <1>1, <2>1, <2>2, OnlyWaits
<1>3. CASE ~Flushed(p)
  <2>1. p' = EnsureFlush(p) /\ waiting' = waiting \cup {last} /\ confirmed' = confirmed
    BY <1>3 DEF Flush
  <2>2. p.phase # "idle"
    BY <1>0, <1>3, Reached DEF Flushed, HasWork, Sane
  <2>3. p' = p
    BY <2>1, <2>2 DEF EnsureFlush
  <2> QED
    BY <1>0, <1>1, <2>1, <2>3, OnlyWaits
<1> QED
  BY <1>2, <1>3

\* A flush that has waited vouches.
LEMMA FlushReturnsKeeps == ASSUME IInv, NEW k, FlushReturns(k) PROVE IInv'
<1>0. /\ Flushed(p) /\ ~p.error /\ waiting' = waiting \ {k} /\ confirmed' = Vouched(k)
      /\ file' = file /\ life' = life /\ p' = p /\ held' = held /\ last' = last
      /\ cut' = cut /\ torn' = torn /\ glued' = glued /\ crashes' = crashes /\ faults' = faults
  BY DEF FlushReturns
<1>1. waiting' \subseteq 0 .. N
  BY <1>0 DEF IInv, Types
<1> QED
  BY <1>0, <1>1, VouchedKept, OnlyWaits

\* A flush that throws vouches for nothing.
LEMMA FlushThrowsKeeps == ASSUME IInv, NEW k, FlushThrows(k) PROVE IInv'
<1>0. /\ waiting' = waiting \ {k} /\ confirmed' = confirmed
      /\ file' = file /\ life' = life /\ p' = p /\ held' = held /\ last' = last
      /\ cut' = cut /\ torn' = torn /\ glued' = glued /\ crashes' = crashes /\ faults' = faults
  BY DEF FlushThrows, history
<1>1. waiting' \subseteq 0 .. N /\ confirmed' \subseteq 1 .. N
  BY <1>0 DEF IInv, Types
<1> QED
  BY <1>0, <1>1, OnlyWaits


\* Opening may truncate; the batch holds what the file has held.
LEMMA OpenFileKeeps == ASSUME IInv, OpenFile PROVE IInv'
<1>0. /\ p.phase = "taken" /\ p' = [p EXCEPT !.phase = "open"]
      /\ life' = life /\ waiting' = waiting /\ glued' = glued
      /\ held' = held /\ last' = last /\ confirmed' = confirmed /\ torn' = torn
      /\ crashes' = crashes /\ faults' = faults
  BY DEF OpenFile, history
<1>1. /\ file \in LogFile /\ Sane(p) /\ p \in Persistence /\ Alive /\ ~p.error
      /\ (p.wipe <=> life = "replaying")
  BY <1>0, Reached DEF IInv, Phases
<1>2. /\ p' \in Persistence /\ p'.phase = "open" /\ p'.wipe = p.wipe /\ p'.batch = p.batch
      /\ p'.pending = p.pending /\ p'.error = p.error /\ p'.metadata = p.metadata
      /\ p'.shouldClear = p.shouldClear
  BY <1>0, <1>1 DEF Persistence
<1>3. Alive'
  BY <1>0, <1>1 DEF Alive
<1>4. Phases'
  <2>1. Sane(p')
    BY <1>0, <1>1, <1>2 DEF Sane
  <2> QED
    BY <1>0, <1>1, <1>2, <1>3, <2>1 DEF IInv, Phases
<1>5. CASE p.wipe
  <2>1. file' = File!Empty /\ cut' = TRUE
    BY <1>5 DEF OpenFile
  <2>2. file'.lines = <<>> /\ file'.tail = <<>> /\ file' \in LogFile
    <3>1. <<>> \in Seq(Line)
      BY EmptyLog
    <3> QED
      BY <2>1, <3>1 DEF File!Empty, LogFile
  <2>3. ReadBack(file') = <<>>
    BY <2>2, ReadBackLines
  <2>4. Whole(file', p') = Whole(file, p)
    BY <1>2, <1>5 DEF Whole
  <2>5. ~Corrupted(file') /\ ~IsOld(file')
    <3>1. DOMAIN file'.lines = {}
      BY <2>2
    <3>2. file'.tail # <<OldMetadata>>
      BY <2>2, Singles
    <3> QED
      BY <3>1, <3>2 DEF Corrupted, IsOld
  <2>6. Types'
    BY <1>0, <2>1, <2>2 DEF IInv, Types
  <2>7. Rewrites'
    BY <1>0, <1>2, <1>5, <2>1, <2>5 DEF IInv, Rewrites
  <2>8. Tears'
    BY <1>0, <1>1, <1>2, <1>5, <2>2, <2>5 DEF IInv, Tears
  <2>9. Order'
    <3>1. /\ InOrder(Whole(file, p)) /\ UpTo(Whole(file, p), last)
          /\ p.metadata <=> Whole(file, p) # <<>>
      BY <1>1, <1>5 DEF IInv, Rewrites, Order
    <3> QED
      BY <1>0, <1>2, <1>3, <2>3, <2>4, <3>1, EmptyLog DEF Order
  <2>10. Holds'
    BY <1>0, <1>2, <1>5, <2>1, <2>4 DEF IInv, Holds
  <2> QED
    BY <1>4, <2>6, <2>7, <2>8, <2>9, <2>10 DEF IInv
<1>6. CASE ~p.wipe
  <2>1. file' = file /\ cut' = cut
    BY <1>6 DEF OpenFile
  <2>2. Whole(file', p') = Whole(file, p)
    BY <1>2, <2>1 DEF Whole
  <2>3. Types'
    BY <1>0, <2>1 DEF IInv, Types
  <2>4. Rewrites' /\ Tears'
    BY <1>0, <1>2, <1>6, <2>1 DEF IInv, Rewrites, Tears
  <2>5. Order'
    BY <1>0, <1>1, <1>2, <2>1, <2>2 DEF IInv, Order
  <2>6. Holds'
    BY <1>0, <1>1, <1>2, <1>6, <2>1, <2>2 DEF IInv, Holds
  <2> QED
    BY <1>4, <2>3, <2>4, <2>5, <2>6 DEF IInv
<1> QED
  BY <1>5, <1>6

\* What was the batch is now in the file.
LEMMA SyncedKeeps == ASSUME IInv, Synced PROVE IInv'
<1> DEFINE g == File!Put(file, p.batch, <<>>)
           u == Drain(p)
<1>0. /\ p.phase = "open" /\ file' = g /\ cut' = (cut /\ ~p.wipe)
      /\ glued' = (glued \/ (file.tail # <<>> /\ p.batch # <<>>)) /\ p' = u
      /\ life' = life /\ waiting' = waiting /\ held' = held /\ last' = last
      /\ confirmed' = confirmed /\ torn' = torn /\ crashes' = crashes /\ faults' = faults
  BY DEF Synced, history, File!Glues
<1>1. /\ file \in LogFile /\ Sane(p) /\ p \in Persistence /\ p.batch \in Seq(Record)
      /\ p.pending \in Seq(Record) /\ Alive /\ ~p.error /\ ~p.shouldClear
      /\ (p.wipe <=> life = "replaying") /\ (p.wipe => file = File!Empty /\ p.batch # <<>>)
  BY <1>0, Reached DEF IInv, Phases, Sane, Rewrites
<1>2. /\ Sane(u) /\ u.pending = <<>> /\ u.batch = p.pending /\ ~u.wipe /\ u.error = p.error
      /\ u.metadata = p.metadata
      /\ u.phase = (IF p.pending = <<>> THEN "settling" ELSE "taken")
      /\ \A f \in LogFile : Whole(f, u) = ReadBack(f) \o p.pending
  BY <1>1, DrainIs
<1> HIDE DEF u
<1>3. /\ g \in File!Interrupted(file, p.batch)
      /\ file.tail = <<>> \/ p.batch = <<>> =>
           ReadBack(g) = ReadBack(file) \o p.batch /\ (Corrupted(g) <=> Corrupted(file))
      /\ file.tail # <<>> /\ p.batch # <<>> => Corrupted(g)
      /\ file.tail = <<>> \/ p.batch # <<>> => g.tail = <<>>
      /\ p.batch = <<>> => g = file
  BY <1>1, WrittenOut
<1> HIDE DEF g
<1>4. Alive'
  BY <1>0, <1>1 DEF Alive
<1>5. /\ g \in LogFile /\ (IsOld(g) => IsOld(file)) /\ (Corrupted(g) => torn)
      /\ ~Corrupted(g) => InOrder(ReadBack(g)) /\ UpTo(ReadBack(g), last)
  <2>1. g \in IF p.phase = "open" THEN File!Interrupted(file, p.batch) ELSE {file}
    BY <1>0, <1>3
  <2> QED
    BY <2>1, Dies
<1>6. file.tail # <<>> => torn /\ ~p.wipe
  <2>1. ASSUME file.tail # <<>> PROVE ~p.wipe
    BY <1>1, <2>1 DEF File!Empty
  <2>2. ASSUME file.tail # <<>> PROVE torn
    BY <1>1, <2>1, <2>2 DEF IInv, Tears, Alive
  <2> QED
    BY <2>1, <2>2
<1>7. ASSUME file.tail = <<>> \/ p.batch = <<>>
      PROVE  /\ Whole(g, u) = Whole(file, p)
             /\ ReadBack(g) = ReadBack(file) \o p.batch
             /\ p.wipe => ReadBack(g) = p.batch
  <2>1. Whole(g, u) = (ReadBack(file) \o p.batch) \o p.pending
    BY <1>2, <1>3, <1>5, <1>7
  <2>2. CASE p.wipe
    <3>1. file.tail = <<>> /\ file.lines = <<>>
      BY <1>1, <2>2 DEF File!Empty
    <3>2. ReadBack(file) = <<>>
      BY <1>1, <3>1, ReadBackLines
    <3>3. ReadBack(file) \o p.batch = p.batch
      BY <1>1, <3>2, ConcatEmptySeq, LinesOf
    <3> QED
      BY <1>3, <1>7, <2>1, <2>2, <3>3 DEF Whole
  <2>3. CASE ~p.wipe
    BY <1>3, <1>7, <2>1, <2>3 DEF Whole
  <2> QED
    BY <2>2, <2>3
<1>8. Types'
  <2>1. cut' \in BOOLEAN /\ glued' \in BOOLEAN
    BY <1>0 DEF IInv, Types
  <2> QED
    BY <1>0, <1>5, <2>1 DEF IInv, Types
<1>9. Phases'
  <2>1. life = "replaying" => p.pending = <<>> /\ p.metadata
    BY DEF IInv, Phases
  <2> QED
    BY <1>0, <1>2, <1>4, <2>1 DEF Phases
<1>10. Rewrites'
  <2>1. life = "replaying" => ~Corrupted(g)
    <3>1. ASSUME life = "replaying" PROVE file.tail = <<>> /\ ~Corrupted(file)
      BY <1>1, <1>6, <3>1 DEF IInv, Rewrites
    <3> QED
      BY <1>3, <3>1
  <2>2. cut' => ~IsOld(g)
    BY <1>0, <1>5 DEF IInv, Rewrites
  <2> QED
    BY <1>0, <1>2, <2>1, <2>2 DEF Rewrites
<1>11. Tears'
  <2>1. glued' => torn
    BY <1>0, <1>6 DEF IInv, Tears
  <2>2. life = "up" /\ g.tail # <<>> => torn
    BY <1>1, <1>3, <1>6
  <2>3. life = "replaying" => g.tail = <<>>
    BY <1>1, <1>3, <1>6
  <2> QED
    BY <1>0, <1>5, <2>1, <2>2, <2>3 DEF Tears
<1>12. Order'
  <2>1. ASSUME ~Corrupted(g)
        PROVE  /\ InOrder(Whole(g, u)) /\ UpTo(Whole(g, u), last)
               /\ u.metadata <=> Whole(g, u) # <<>>
    <3>1. file.tail = <<>> \/ p.batch = <<>>
      BY <1>3, <2>1
    <3>2. ~Corrupted(file)
      BY <1>3, <2>1, <3>1
    <3> QED
      BY <1>1, <1>2, <1>7, <3>1, <3>2 DEF IInv, Order
  <2> QED
    BY <1>0, <1>5, <2>1 DEF Order
<1>13. Holds'
  <2>1. ASSUME ~glued'
        PROVE  /\ ~cut' => confirmed \subseteq RecordsOf(ReadBack(g))
               /\ ~cut' => held \subseteq RecordsOf(Whole(g, u))
    <3>1. ~glued /\ (file.tail = <<>> \/ p.batch = <<>>)
      BY <1>0, <2>1
    <3>2. CASE p.wipe
      <4>1. p.pending = <<>>
        BY <1>1, <3>2 DEF IInv, Phases
      <4>2. Whole(file, p) = p.batch
        BY <1>1, <3>2, <4>1, WholeLines
      <4> QED
        BY <1>7, <3>1, <3>2, <4>2 DEF IInv, Holds
    <3>3. CASE ~p.wipe
      <4>1. RecordsOf(ReadBack(file)) \subseteq RecordsOf(ReadBack(file) \o p.batch)
        BY <1>1, ConcatLines, LinesOf, ReadBackLines
      <4> QED
        BY <1>0, <1>1, <1>7, <3>1, <3>3, <4>1 DEF IInv, Holds
    <3> QED
      BY <3>2, <3>3
  <2> QED
    BY <1>0, <1>2, <2>1 DEF Holds
<1> QED
  BY <1>8, <1>9, <1>10, <1>11, <1>12, <1>13 DEF IInv

\* After an error nothing is written any more.
LEMMA BatchFailsKeeps == ASSUME IInv, BatchFails PROVE IInv'
<1>0. /\ p.phase \in {"taken", "open"} /\ faults < MaxFaults /\ faults' = faults + 1
      /\ p' = [p EXCEPT !.phase = "settling", !.batch = <<>>, !.wipe = FALSE, !.error = TRUE]
      /\ file' \in (IF p.phase = "open" THEN File!Interrupted(file, p.batch) ELSE {file})
      /\ glued' = (glued \/ (file' # file /\ file.tail # <<>>))
      /\ life' = life /\ waiting' = waiting /\ held' = held /\ last' = last
      /\ confirmed' = confirmed /\ cut' = cut /\ torn' = torn /\ crashes' = crashes
  BY DEF BatchFails
<1>1. p \in Persistence /\ Sane(p) /\ Alive /\ ~p.error /\ file \in LogFile
  BY <1>0, Reached
<1>2. /\ p'.phase = "settling" /\ p'.batch = <<>> /\ ~p'.wipe /\ p'.error /\ p'.pending = p.pending
      /\ p'.metadata = p.metadata /\ p'.shouldClear = p.shouldClear /\ p' \in Persistence
  <2>1. <<>> \in Seq(Record)
    BY EmptySeq
  <2> QED
    BY <1>0, <1>1, <2>1 DEF Persistence
<1>3. /\ file' \in LogFile /\ (IsOld(file') => IsOld(file)) /\ (Corrupted(file') => torn)
      /\ file' # file /\ file.tail # <<>> => torn
      /\ ~Corrupted(file') => InOrder(ReadBack(file')) /\ UpTo(ReadBack(file'), last)
      /\ ~glued /\ ~cut /\ ~(file' # file /\ file.tail # <<>>) => confirmed \subseteq RecordsOf(ReadBack(file'))
  BY <1>0, Dies
<1>4. Alive'
  BY <1>0, <1>1 DEF Alive
<1>5. Types'
  <2>1. glued' \in BOOLEAN /\ faults' \in 0 .. MaxFaults
    <3>1. faults \in 0 .. MaxFaults /\ glued \in BOOLEAN
      BY DEF IInv, Types
    <3>2. faults' \in 0 .. MaxFaults
      BY <1>0, <3>1, LogAssumption
    <3>3. glued' \in BOOLEAN
      BY <1>0, <3>1
    <3> QED
      BY <3>2, <3>3
  <2> QED
    BY <1>0, <1>3, <2>1 DEF IInv, Types
<1>6. Phases'
  <2>1. Sane(p')
    BY <1>1, <1>2 DEF Sane
  <2> QED
    BY <1>0, <1>2, <1>4, <2>1 DEF IInv, Phases
<1>7. Rewrites'
  <2>1. life = "replaying" => ~Corrupted(file')
    <3>1. ASSUME life = "replaying" PROVE ~Corrupted(file')
      <4>1. ~Corrupted(file) /\ p.wipe
        BY <1>0, <3>1 DEF IInv, Rewrites, Phases
      <4>2. CASE p.phase = "open"
        <5>1. file.tail = <<>> /\ file' \in File!Interrupted(file, p.batch) /\ p.batch \in Seq(Record)
          BY <1>0, <1>1, <4>1, <4>2 DEF IInv, Rewrites, File!Empty, Persistence
        <5> QED
          BY <1>1, <4>1, <5>1, CutWhole
      <4>3. CASE p.phase # "open"
        BY <1>0, <4>1, <4>3
      <4> QED
        BY <4>2, <4>3
    <3> QED
      BY <3>1
  <2> QED
    BY <1>0, <1>2, <1>3, <2>1 DEF IInv, Rewrites
<1>8. Tears'
  BY <1>0, <1>2, <1>3 DEF IInv, Tears
<1>9. Order'
  BY <1>0, <1>2, <1>3 DEF Order
<1>10. Holds'
  BY <1>0, <1>2, <1>3 DEF Holds
<1> QED
  BY <1>5, <1>6, <1>7, <1>8, <1>9, <1>10 DEF IInv

\* The end of a flush takes what was added meanwhile.
LEMMA SettledKeeps == ASSUME IInv, Settled PROVE IInv'
<1>0. /\ p.phase = "settling" /\ p' = AfterFlush(p)
      /\ file' = file /\ life' = life /\ waiting' = waiting /\ cut' = cut /\ glued' = glued
      /\ held' = held /\ last' = last /\ confirmed' = confirmed /\ torn' = torn
      /\ crashes' = crashes /\ faults' = faults
  BY DEF Settled, history
<1>1. Sane(p) /\ file \in LogFile /\ ~p.wipe
  BY <1>0, Reached DEF Sane
<1>2. /\ Sane(p') /\ ~p'.wipe /\ p'.error = p.error /\ p'.metadata = p.metadata
      /\ p'.phase = (IF p.error \/ p.pending = <<>> THEN "idle" ELSE "taken")
      /\ p.pending = <<>> => p'.pending = <<>>
      /\ Whole(file, p') = Whole(file, p)
  BY <1>0, <1>1, AfterFlushSane
<1>3. Alive' = Alive /\ Alive
  <2>1. Alive
    BY <1>0, NewSane DEF IInv, Phases
  <2> QED
    BY <1>0, <2>1 DEF Alive
<1>4. Types'
  BY <1>0 DEF IInv, Types
<1>5. Phases'
  <2>1. life = "replaying" => p.pending = <<>> /\ p.metadata
    BY DEF IInv, Phases
  <2> QED
    BY <1>0, <1>2, <1>3, <2>1 DEF Phases
<1>6. Rewrites' /\ Tears'
  BY <1>0, <1>1, <1>2 DEF IInv, Rewrites, Tears
<1>7. Order'
  BY <1>0, <1>2, <1>3 DEF IInv, Order
<1>8. Holds'
  BY <1>0, <1>2, <1>3 DEF IInv, Holds
<1> QED
  BY <1>4, <1>5, <1>6, <1>7, <1>8 DEF IInv

\* A crash leaves the file and what flushes have vouched for.
LEMMA CrashKeeps == ASSUME IInv, Crash PROVE IInv'
<1>0. /\ crashes < MaxCrashes /\ crashes' = crashes + 1
      /\ life' = "down" /\ p' = NewPersistence /\ waiting' = {} /\ held' = {}
      /\ file' \in (IF p.phase = "open" THEN File!Interrupted(file, p.batch) ELSE {file})
      /\ glued' = (glued \/ (file' # file /\ file.tail # <<>>))
      /\ last' = last /\ confirmed' = confirmed /\ cut' = cut /\ torn' = torn /\ faults' = faults
  BY DEF Crash
<1>1. /\ file' \in LogFile /\ (IsOld(file') => IsOld(file)) /\ (Corrupted(file') => torn)
      /\ file' # file /\ file.tail # <<>> => torn
      /\ ~Corrupted(file') => InOrder(ReadBack(file')) /\ UpTo(ReadBack(file'), last)
      /\ ~glued /\ ~cut /\ ~(file' # file /\ file.tail # <<>>) => confirmed \subseteq RecordsOf(ReadBack(file'))
  BY <1>0, Dies
<1>2. ~Alive'
  BY <1>0 DEF Alive
<1>3. Types'
  <2>1. glued' \in BOOLEAN /\ crashes' \in 0 .. MaxCrashes
    <3>1. crashes \in 0 .. MaxCrashes /\ glued \in BOOLEAN
      BY DEF IInv, Types
    <3>2. crashes' \in 0 .. MaxCrashes
      BY <1>0, <3>1, LogAssumption
    <3>3. glued' \in BOOLEAN
      BY <1>0, <3>1
    <3> QED
      BY <3>2, <3>3
  <2> QED
    BY <1>0, <1>1, <2>1 DEF IInv, Types
<1>4. Phases'
  BY <1>0, <1>2, NewSane DEF Phases
<1>5. Rewrites'
  BY <1>0, <1>1, NewSane DEF IInv, Rewrites
<1>6. Tears'
  BY <1>0, <1>1 DEF IInv, Tears
<1>7. Order'
  BY <1>0, <1>1, <1>2 DEF Order
<1>8. Holds'
  BY <1>0, <1>1, <1>2, NewSane DEF Holds
<1> QED
  BY <1>3, <1>4, <1>5, <1>6, <1>7, <1>8 DEF IInv

---------------------------------------------------------------------------
(* The theorems.                                                           *)

\* The inductive invariant: where a batch is, what the file will be when all that is
\* pending is written, and which file has been written anew or behind a torn line.
THEOREM Invariant == Spec => []IInv
<1>1. Init => IInv
  BY Initially
<1>2. IInv /\ [Next]_vars => IInv'
  <2> SUFFICES ASSUME IInv, [Next]_vars PROVE IInv'
    OBVIOUS
  <2>1. CASE Start
    BY <2>1, StartKeeps
  <2>2. CASE ReplayDone
    BY <2>2, ReplayDoneKeeps
  <2>3. CASE LogRecord
    BY <2>3, LogRecordKeeps
  <2>4. CASE Flush
    BY <2>4, FlushKeeps
  <2>5. CASE \E k \in waiting : FlushReturns(k) \/ FlushThrows(k)
    BY <2>5, FlushReturnsKeeps, FlushThrowsKeeps
  <2>6. CASE OpenFile
    BY <2>6, OpenFileKeeps
  <2>7. CASE Synced
    BY <2>7, SyncedKeeps
  <2>8. CASE BatchFails
    BY <2>8, BatchFailsKeeps
  <2>9. CASE Settled
    BY <2>9, SettledKeeps
  <2>10. CASE Crash
    BY <2>10, CrashKeeps
  <2>11. CASE UNCHANGED vars
    <3>1. /\ file' = file /\ life' = life /\ p' = p /\ waiting' = waiting /\ held' = held
          /\ last' = last /\ confirmed' = confirmed /\ cut' = cut /\ torn' = torn
          /\ glued' = glued /\ crashes' = crashes /\ faults' = faults
      BY <2>11 DEF vars
    <3>2. waiting' \subseteq 0 .. N /\ confirmed' \subseteq 1 .. N
      BY <3>1 DEF IInv, Types
    <3> QED
      BY <3>1, <3>2, OnlyWaits
  <2> QED
    BY <2>1, <2>2, <2>3, <2>4, <2>5, <2>6, <2>7, <2>8, <2>9, <2>10, <2>11 DEF Next
<1> QED
  BY <1>1, <1>2, PTL DEF Spec

\* What a reader finds: the types; the metadata first and every record once and in the
\* order of the calls of logRecord; and nothing unreadable but behind a line that was torn
\* when a process began.
THEOREM LogKept == Spec => []LogOK
<1>1. IInv => LogOK
  <2> SUFFICES ASSUME IInv PROVE LogOK
    OBVIOUS
  <2>1. TypeOK
    BY DEF IInv, Types, Phases, Sane, LogFile, Persistence, TypeOK
  <2>2. ReadInOrder
    <3>1. ReadBack(file) \in Seq(Line)
      BY Reached
    <3> QED
      BY <3>1 DEF IInv, Order, InOrder, ReadInOrder
  <2>3. OwnLinesWhole
    BY DEF IInv, Tears, OwnLinesWhole
  <2> QED
    BY <2>1, <2>2, <2>3 DEF LogOK
<1> QED
  BY <1>1, Invariant, PTL

\* What a flush vouched for is read back after any crashes and failing batches, unless a
\* rewrite was cut off or a torn line was written behind; and what is pending is on its way.
THEOREM NothingGone == Spec => []NothingLost
<1>1. IInv => NothingLost
  <2> SUFFICES ASSUME IInv PROVE NothingLost
    OBVIOUS
  <2>1. Durable
    BY DEF IInv, Holds, Durable
  <2>2. NoStrandedRecord
    BY DEF IInv, Phases, Sane, HasWork, MayWrite, NoStrandedRecord
  <2> QED
    BY <2>1, <2>2 DEF NothingLost
<1> QED
  BY <1>1, Invariant, PTL

=============================================================================
