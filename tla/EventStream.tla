---------------------------- MODULE EventStream ----------------------------
(***************************************************************************)
(* The events of one session on their way to a client: WSBroadcastService  *)
(* numbers them, SessionEventJournal writes them behind, and a connection  *)
(* that comes back is brought up to date from the tail in memory or from   *)
(* the journal, while live events go on.  The server crashes, writes fail, *)
(* connections drop.  Volatile events, which have no number of their own,  *)
(* are left out.                                                           *)
(***************************************************************************)
EXTENDS Integers, Sequences, FiniteSets, SequencesExt

CONSTANTS
  N,          \* events published, by all server processes together
  Buffer,     \* maxBufferSize
  MaxCrashes, \* crashes of the server
  MaxFaults,  \* failing writes and reads of the journal
  MaxConnects \* connections of the client

ASSUME StreamAssumption ==
  /\ N \in Nat /\ Buffer \in Nat \ {0}
  /\ MaxCrashes \in Nat /\ MaxFaults \in Nat /\ MaxConnects \in Nat

NoEpoch == 0

\* A line of the journal: the header has no event, a line that does not parse no epoch.
EventLine(epoch, seq, e) == [epoch |-> epoch, seq |-> seq, event |-> e]
HeaderLine(epoch) == EventLine(epoch, 0, 0)
Torn == EventLine(NoEpoch, 0, 0)

File == INSTANCE LineFile WITH Bad <- Torn

VARIABLES
  file,      \* the journal on disk
  session,   \* the session's state in the server: none, opening or open
  journal,   \* its SessionEventJournal
  tail,      \* its most recent events
  published, \* events published so far
  taken,     \* those that have been dispatched, or were lost in a crash
  conn,      \* where the client's connection is
  client,    \* what the client knows
  given,     \* every number given to an event
  epochs,    \* epochs made so far
  crashes, faults, connects

vars == <<file, session, journal, tail, published, taken, conn, client, given, epochs,
          crashes, faults, connects>>
bounds == <<crashes, faults, connects>>

IsEvent(l) == l.event # 0
IsHeader(l) == l.epoch # NoEpoch /\ l.event = 0

---------------------------------------------------------------------------
\* SessionEventJournal.
NewJournal(epoch, seq, fresh) ==
  [epoch |-> epoch, seq |-> seq, header |-> fresh, pending |-> <<>>, batch |-> <<>>,
   flushing |-> FALSE]

NoJournal == NewJournal(NoEpoch, 0, FALSE)

\* Mutant: the numbers go on with the count of the events.
LastSeqCounted(s) == Cardinality({i \in DOMAIN s : IsEvent(s[i])})

\* open: the greatest number in the file.
LastSeq(s) == Max({0} \cup {s[i].seq : i \in DOMAIN s})

\* open: the epoch of the first header; without one the journal begins anew, behind
\* whatever is in the file.
Opened(f) ==
  LET s == File!AllLines(f)
      headers == {i \in DOMAIN s : IsHeader(s[i])}
  IN  IF headers # {} THEN NewJournal(s[Min(headers)].epoch, LastSeq(s), FALSE)
      ELSE NewJournal(epochs + 1, 0, TRUE)

\* flushOnce up to its first await.
Batched(q) ==
  [q EXCEPT !.batch = (IF q.header THEN <<HeaderLine(q.epoch)>> ELSE <<>>) \o q.pending,
            !.header = FALSE, !.pending = <<>>, !.flushing = TRUE]

\* append and scheduleFlush: nothing comes after a flush that is under way.
Appended(q, l) ==
  LET p == [q EXCEPT !.pending = Append(@, l)] IN IF q.flushing THEN p ELSE Batched(p)

\* Mutant: flush only waits for the flush under way.
FlushedOn(q) == q

\* The loop of flush starts another flush for lines that are pending.
Flushed(q) == IF ~q.flushing /\ q.pending # <<>> THEN Batched(q) ELSE q

AllFlushed(q) == ~q.flushing /\ q.pending = <<>>

\* readSince, after the flush: where the first Buffer events behind a number are.
Since(s, from) ==
  LET later == {i \in DOMAIN s : IsEvent(s[i]) /\ s[i].seq > from}
  IN  {i \in later : Cardinality({k \in later : k < i}) < Buffer}

---------------------------------------------------------------------------
\* The client, as the server expects it: it ignores what it has (connection.ts:295) and
\* what another epoch sends, and asks for what follows the numbers it has without a gap.
NewClient(epoch, seq) == [epoch |-> epoch, base |-> seq, held |-> {}, stale |-> FALSE]

Known(c) == {l.seq : l \in c.held}

\* It is sent the lines of s at the places I, in their order.
Received(c, s, I) ==
  LET epoch == IF c.epoch = NoEpoch /\ I # {} THEN s[Min(I)].epoch ELSE c.epoch
      new == {l \in {s[i] : i \in I} : l.epoch = epoch /\ l.seq > c.base /\ l.seq \notin Known(c)}
  IN  [c EXCEPT !.epoch = epoch, !.held = @ \cup new]

Cursor(c) == Max({k \in c.base .. c.base + N : (c.base + 1) .. k \subseteq Known(c)})

---------------------------------------------------------------------------
Init ==
  /\ file = File!Empty
  /\ session = "none" /\ journal = NoJournal /\ tail = <<>>
  /\ published = 0 /\ taken = 0
  /\ conn = "off" /\ client = NewClient(NoEpoch, 0)
  /\ given = {} /\ epochs = 0 /\ crashes = 0 /\ faults = 0 /\ connects = 0

\* _getOrCreateSession.
Needed == session' = IF session = "none" THEN "opening" ELSE session

\* _onEvent.
Publish ==
  /\ published < N
  /\ published' = published + 1
  /\ Needed
  /\ UNCHANGED <<file, journal, tail, taken, conn, client, given, epochs, bounds>>

Open ==
  /\ session = "opening"
  /\ session' = "open"
  /\ journal' = Opened(file)
  /\ epochs' = Max({epochs, journal'.epoch})
  /\ UNCHANGED <<file, tail, published, taken, conn, client, given, bounds>>

LastOf(s) == SubSeq(s, IF Len(s) > Buffer THEN Len(s) - Buffer + 1 ELSE 1, Len(s))

\* _dispatch: the number, the journal, the tail and the subscribers in one go.
Dispatch ==
  LET l == EventLine(journal.epoch, journal.seq + 1, taken + 1) IN
  /\ session = "open" /\ taken < published
  /\ taken' = taken + 1
  /\ journal' = Appended([journal EXCEPT !.seq = @ + 1], l)
  /\ tail' = LastOf(Append(tail, l))
  /\ client' = IF conn = "off" THEN client ELSE Received(client, <<l>>, {1})
  /\ given' = given \cup {l}
  /\ UNCHANGED <<file, session, published, conn, epochs, bounds>>

Written ==
  /\ journal.flushing
  /\ file' = File!Put(file, journal.batch, <<>>)
  /\ journal' = [journal EXCEPT !.flushing = FALSE, !.batch = <<>>]
  /\ UNCHANGED <<session, tail, published, taken, conn, client, given, epochs, bounds>>

\* The events of the batch remain live-only.
WriteFails ==
  /\ journal.flushing /\ faults < MaxFaults
  /\ faults' = faults + 1
  /\ file' \in File!Interrupted(file, journal.batch)
  /\ journal' = [journal EXCEPT !.flushing = FALSE, !.batch = <<>>]
  /\ UNCHANGED <<session, tail, published, taken, conn, client, given, epochs, crashes, connects>>

---------------------------------------------------------------------------
\* client_hello or subscribe: the subscription comes first.
Connect ==
  /\ conn = "off" /\ connects < MaxConnects
  /\ connects' = connects + 1
  /\ conn' = "draining"
  /\ Needed
  /\ UNCHANGED <<file, journal, tail, published, taken, client, given, epochs, crashes, faults>>

\* await state.ready and state.queue.  An event published while the queue runs dry may as
\* well have been published afterwards.
Drained == session = "open" /\ taken = published

\* Mutant: the tail is taken for the whole journal.
TailServes(s, from) == s # <<>>

TailReaches(s, from) == s # <<>> /\ s[1].seq <= from + 1

MustResync(c) ==
  \/ c.epoch # NoEpoch /\ c.epoch # journal.epoch
  \/ Cursor(c) > journal.seq
  \/ journal.seq - Cursor(c) > Buffer

\* getBufferedSince up to its disk read, and what syncSessions sends.
GetBufferedSince ==
  LET from == Cursor(client) IN
  /\ conn = "draining" /\ Drained
  /\ \/ /\ MustResync(client)
        /\ conn' = "answering" /\ client' = [client EXCEPT !.stale = TRUE]
     \/ /\ ~MustResync(client) /\ from = journal.seq
        /\ conn' = "answering" /\ UNCHANGED client
     \/ /\ ~MustResync(client) /\ from < journal.seq /\ TailReaches(tail, from)
        /\ conn' = "answering"
        /\ client' = Received(client, tail, {i \in DOMAIN tail : tail[i].seq > from})
     \/ /\ ~MustResync(client) /\ from < journal.seq /\ ~TailReaches(tail, from)
        /\ conn' = "flushing" /\ UNCHANGED client
  /\ UNCHANGED <<file, session, journal, tail, published, taken, given, epochs, bounds>>

Flush ==
  /\ conn = "flushing"
  /\ \/ AllFlushed(journal) /\ conn' = "reading" /\ UNCHANGED journal
     \/ Flushed(journal) # journal /\ journal' = Flushed(journal) /\ UNCHANGED conn
  /\ UNCHANGED <<file, session, tail, published, taken, client, given, epochs, bounds>>

\* A flush that has begun meanwhile is seen whole or not at all: it is one write.
ReadSince ==
  /\ conn = "reading"
  /\ LET s == File!AllLines(file) IN client' = Received(client, s, Since(s, Cursor(client)))
  /\ conn' = "answering"
  /\ UNCHANGED <<file, session, journal, tail, published, taken, given, epochs, bounds>>

\* The handler ends without an answer; the subscription stays.
ReadFails ==
  /\ conn = "reading" /\ faults < MaxFaults
  /\ faults' = faults + 1
  /\ conn' = "unanswered"
  /\ UNCHANGED <<file, session, journal, tail, published, taken, client, given, epochs,
                 crashes, connects>>

\* getCursor and the acknowledgement, from which the client takes the epoch.
Acknowledge ==
  /\ conn = "answering" /\ Drained
  /\ conn' = "live"
  /\ client' = IF client.stale THEN client ELSE [client EXCEPT !.epoch = journal.epoch]
  /\ UNCHANGED <<file, session, journal, tail, published, taken, given, epochs, bounds>>

\* getSnapshotState, and a client that begins anew.
Snapshot ==
  /\ conn = "live" /\ client.stale /\ Drained
  /\ client' = NewClient(journal.epoch, journal.seq)
  /\ UNCHANGED <<file, session, journal, tail, published, taken, conn, given, epochs, bounds>>

Drop ==
  /\ conn # "off"
  /\ conn' = "off"
  /\ UNCHANGED <<file, session, journal, tail, published, taken, client, given, epochs, bounds>>

Crash ==
  /\ session # "none" /\ crashes < MaxCrashes
  /\ crashes' = crashes + 1
  /\ file' \in IF journal.flushing THEN File!Interrupted(file, journal.batch) ELSE {file}
  /\ session' = "none" /\ journal' = NoJournal /\ tail' = <<>>
  /\ taken' = published /\ conn' = "off"
  /\ UNCHANGED <<published, client, given, epochs, faults, connects>>

Next ==
  \/ Publish \/ Open \/ Dispatch \/ Written \/ WriteFails
  \/ Connect \/ GetBufferedSince \/ Flush \/ ReadSince \/ ReadFails \/ Acknowledge
  \/ Snapshot \/ Drop \/ Crash

\* File operations end and continuations run.
Fairness ==
  /\ WF_vars(Open) /\ WF_vars(Dispatch) /\ WF_vars(Written)
  /\ WF_vars(GetBufferedSince) /\ WF_vars(Flush) /\ WF_vars(ReadSince) /\ WF_vars(Acknowledge)

Spec == Init /\ [][Next]_vars /\ Fairness

---------------------------------------------------------------------------
Lines == [epoch : 0 .. epochs, seq : 0 .. N, event : 0 .. N]

\* The types; lines are pending only in an open journal.
TypeOK ==
  /\ file.lines \in Seq(Lines) /\ file.tail \in Seq(Lines) /\ Len(file.tail) <= 1
  /\ session \in {"none", "opening", "open"}
  /\ journal.epoch \in 0 .. epochs /\ journal.seq \in 0 .. N
  /\ journal.pending \in Seq(Lines) /\ journal.batch \in Seq(Lines)
  /\ journal.flushing \in BOOLEAN /\ journal.header \in BOOLEAN
  /\ journal.flushing <=> journal.batch # <<>>
  /\ session # "open" => journal = NoJournal /\ tail = <<>>
  /\ tail \in Seq(Lines) /\ Len(tail) <= Buffer
  /\ taken <= published /\ published \in 0 .. N
  /\ conn \in {"off", "draining", "flushing", "reading", "answering", "unanswered", "live"}
  /\ client.epoch \in 0 .. epochs /\ client.base \in 0 .. N
  /\ client.held \subseteq Lines /\ client.stale \in BOOLEAN
  /\ given \subseteq Lines
  /\ crashes \in 0 .. MaxCrashes /\ faults \in 0 .. MaxFaults /\ connects \in 0 .. MaxConnects

\* What follows a header in the file is one incarnation: its events have the header's
\* epoch, and numbers and events ascend, whatever was torn, lost or written in part.
OneIncarnation ==
  LET s == File!AllLines(file) IN
  \A h, i, k \in DOMAIN s : IsHeader(s[h]) /\ h <= i /\ i < k /\ s[k] # Torn =>
    /\ s[k].epoch = s[h].epoch
    /\ IsEvent(s[k]) => s[i].seq < s[k].seq /\ s[i].event < s[k].event

JournalOK == TypeOK /\ OneIncarnation

\* Every line on the disk or under way to it; an event whose write has failed is live-only
\* by design.
Kept == ToSet(File!AllLines(file)) \cup ToSet(journal.batch) \cup ToSet(journal.pending)

\* A number of the epoch has been given to two events: a crash had lost the first.
GivenTwice(epoch) == \E l, m \in given : l.epoch = epoch /\ m.epoch = epoch /\ l.seq = m.seq /\ l # m

\* A client that was brought up to date holds every event behind its snapshot that the
\* server still has, whether it came from the tail, the journal or live: unless a number
\* was given twice, or the journal has lost its header and holds events of another epoch.
NoGap ==
  /\ conn = "live" /\ ~client.stale
  /\ ~GivenTwice(journal.epoch)
  /\ \A l \in ToSet(File!AllLines(file)) : l # Torn => l.epoch = journal.epoch
  => \A l \in Kept : IsEvent(l) /\ l.seq > client.base => l \in client.held

Waiting == conn \in {"draining", "flushing", "reading", "answering"}

\* A request to be brought up to date is not stuck behind the queue, the flush or the read:
\* it comes to its answer, to the end of its connection or to a journal that cannot be read,
\* which leaves it unanswered.  Once reads and writes no longer fail only the first two are
\* left.
SyncEnds ==
  /\ Waiting ~> conn \in {"off", "live", "unanswered"}
  /\ (Waiting /\ faults = MaxFaults) ~> conn \in {"off", "live"}

=============================================================================
