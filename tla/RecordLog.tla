----------------------------- MODULE RecordLog -----------------------------
(***************************************************************************)
(* The wire log of one agent: AgentRecords over                            *)
(* FileSystemAgentRecordPersistence, through crashes, failing writes and   *)
(* restarts.  Records are appended to memory and drained to a file of      *)
(* lines in batches; a restart reads the file back.                        *)
(***************************************************************************)
EXTENDS Integers, Sequences, FiniteSets

CONSTANTS
  N,          \* records logged, all processes together
  MaxCrashes, \* crashes of the process
  MaxFaults   \* failing batches

ASSUME LogAssumption == N \in Nat \ {0} /\ MaxCrashes \in Nat /\ MaxFaults \in Nat

\* A record is known by the order in which it was logged; three lines are none.
Metadata == 0
OldMetadata == -1   \* of an older protocol version
Bad == -2           \* a line that does not parse

Record == 0 .. N
Line == -2 .. N

File == INSTANCE LineFile

VARIABLES
  file,      \* lines that end in a newline, and what follows the last one
  life,      \* the process
  p,         \* its FileSystemAgentRecordPersistence
  waiting,   \* flush calls, by the last record logged before the call
  held,      \* records the process has read back or logged
  last,      \* records logged so far
  confirmed, \* records some flush has vouched for
  cut,       \* the file has been truncated for a rewrite that is not synced
  torn,      \* some process has begun with a file that does not end in a newline
  glued,     \* something has been written behind such a line
  crashes, faults

vars == <<file, life, p, waiting, held, last, confirmed, cut, torn, glued, crashes, faults>>
history == <<held, last, confirmed, torn, crashes, faults>>

---------------------------------------------------------------------------
\* A line that does not parse stops read().
Corrupted(f) == \E i \in DOMAIN f.lines : f.lines[i] = Bad

\* What read() yields of a file that is not corrupted: only the last line may be unfinished.
ReadBack(f) == f.lines \o (IF f.tail = <<Bad>> THEN <<>> ELSE f.tail)

RecordsOf(s) == {s[i] : i \in DOMAIN s}

---------------------------------------------------------------------------
NewPersistence ==
  [pending |-> <<>>, shouldClear |-> FALSE, error |-> FALSE, metadata |-> FALSE,
   phase |-> "idle", batch |-> <<>>, wipe |-> FALSE]

HasWork(q) == q.shouldClear \/ q.pending # <<>>

\* drainBatch up to its first await takes everything that is pending.
Taken(q) ==
  [q EXCEPT !.batch = q.pending, !.wipe = q.shouldClear, !.pending = <<>>,
            !.shouldClear = FALSE, !.phase = "taken"]

\* drainPendingRecords: the next batch, or the end of the promise.
Drain(q) ==
  IF HasWork(q) THEN Taken(q)
  ELSE [q EXCEPT !.batch = <<>>, !.wipe = FALSE, !.phase = "settling"]

\* ensureFlush: a flush that is under way takes what has been added as well.
EnsureFlush(q) == IF q.phase = "idle" THEN Drain(q) ELSE q

\* Mutant: a write goes on after an error.
MayWriteOn(q) == TRUE

\* throwIfError.
MayWrite(q) == ~q.error

Appended(q, r) == EnsureFlush([q EXCEPT !.pending = Append(@, r)])

\* logRecord: the metadata goes before the first record.
Logged(q, r) ==
  IF q.metadata THEN Appended(q, r)
  ELSE Appended([Appended(q, Metadata) EXCEPT !.metadata = TRUE], r)

Rewritten(q, s) == EnsureFlush([q EXCEPT !.shouldClear = TRUE, !.pending = s])

\* Mutant: the finally does not look for more work.
AfterFlushOnly(q) == [q EXCEPT !.phase = "idle"]

\* Mutant: a failed promise is kept.
AfterFlushWell(q) == IF q.error THEN q ELSE EnsureFlush([q EXCEPT !.phase = "idle"])

\* The finally of ensureFlush.
AfterFlush(q) ==
  LET free == [q EXCEPT !.phase = "idle"]
  IN  IF MayWrite(free) /\ HasWork(free) THEN EnsureFlush(free) ELSE free

\* The end of the loop in flush().
Flushed(q) == q.phase = "idle" /\ ~HasWork(q)

\* migrateWireRecord gives the metadata the current version.
Migrated(s) == [i \in DOMAIN s |-> IF s[i] = OldMetadata THEN Metadata ELSE s[i]]

---------------------------------------------------------------------------
\* A new agent, or one whose log an older version has written.
Init ==
  /\ \E lines \in {<<>>, <<OldMetadata, 1>>} :
       /\ file = [lines |-> lines, tail |-> <<>>]
       /\ last = Cardinality(RecordsOf(lines) \cap 1 .. N)
       /\ confirmed = RecordsOf(lines) \cap 1 .. N
  /\ life = "down" /\ p = NewPersistence
  /\ waiting = {} /\ held = {} /\ cut = FALSE /\ torn = FALSE /\ glued = FALSE
  /\ crashes = 0 /\ faults = 0

\* A process starts and replays the log: a corrupted line stops it, an old version
\* makes it write the log anew before it goes on.
Start ==
  LET s == ReadBack(file)
      q == [NewPersistence EXCEPT !.metadata = s # <<>>]
  IN
  /\ life = "down"
  /\ IF Corrupted(file) \/ (s # <<>> /\ Head(s) \notin {Metadata, OldMetadata})
     THEN life' = "refused" /\ UNCHANGED <<p, held, torn>>
     ELSE /\ held' = RecordsOf(s) \cap 1 .. N
          /\ IF s # <<>> /\ Head(s) = OldMetadata
             THEN life' = "replaying" /\ p' = Rewritten(q, Migrated(s)) /\ UNCHANGED torn
             ELSE life' = "up" /\ p' = q /\ torn' = (torn \/ file.tail # <<>>)
  /\ UNCHANGED <<file, waiting, last, confirmed, cut, glued, crashes, faults>>

ReplayDone ==
  /\ life = "replaying" /\ p.phase = "idle"
  /\ IF p.error THEN life' = "down" /\ p' = NewPersistence /\ held' = {}
     ELSE life' = "up" /\ UNCHANGED <<p, held>>
  /\ UNCHANGED <<file, waiting, last, confirmed, cut, torn, glued, crashes, faults>>

LogRecord ==
  /\ life = "up" /\ last < N /\ MayWrite(p)
  /\ last' = last + 1
  /\ p' = Logged(p, last + 1)
  /\ held' = held \cup {last + 1}
  /\ UNCHANGED <<file, life, waiting, confirmed, cut, torn, glued, crashes, faults>>

Vouched(k) == confirmed \cup {r \in held : r <= k}

\* flush() returns at once when there is nothing to wait for.
Flush ==
  /\ life = "up" /\ ~p.error
  /\ IF Flushed(p) THEN confirmed' = Vouched(last) /\ UNCHANGED <<p, waiting>>
     ELSE p' = EnsureFlush(p) /\ waiting' = waiting \cup {last} /\ UNCHANGED confirmed
  /\ UNCHANGED <<file, life, held, last, cut, torn, glued, crashes, faults>>

FlushReturns(k) ==
  /\ k \in waiting /\ Flushed(p) /\ ~p.error
  /\ waiting' = waiting \ {k}
  /\ confirmed' = Vouched(k)
  /\ UNCHANGED <<file, life, p, held, last, cut, torn, glued, crashes, faults>>

FlushThrows(k) ==
  /\ k \in waiting /\ p.phase = "idle" /\ p.error
  /\ waiting' = waiting \ {k}
  /\ UNCHANGED <<file, life, p, cut, glued, history>>

OpenFile ==
  /\ p.phase = "taken"
  /\ p' = [p EXCEPT !.phase = "open"]
  /\ IF p.wipe THEN file' = File!Empty /\ cut' = TRUE
     ELSE UNCHANGED <<file, cut>>
  /\ UNCHANGED <<life, waiting, glued, history>>

\* The batch is written and synced.
Synced ==
  /\ p.phase = "open"
  /\ file' = File!Put(file, p.batch, <<>>)
  /\ cut' = (cut /\ ~p.wipe)
  /\ glued' = (glued \/ File!Glues(file, p.batch))
  /\ p' = Drain(p)
  /\ UNCHANGED <<life, waiting, history>>

\* Any call of drainBatch fails: what had been written stays, the error is kept.
BatchFails ==
  /\ p.phase \in {"taken", "open"} /\ faults < MaxFaults
  /\ faults' = faults + 1
  /\ p' = [p EXCEPT !.phase = "settling", !.batch = <<>>, !.wipe = FALSE, !.error = TRUE]
  /\ file' \in IF p.phase = "open" THEN File!Interrupted(file, p.batch) ELSE {file}
  /\ glued' = (glued \/ (file' # file /\ file.tail # <<>>))
  /\ UNCHANGED <<life, waiting, held, last, confirmed, cut, torn, crashes>>

Settled ==
  /\ p.phase = "settling"
  /\ p' = AfterFlush(p)
  /\ UNCHANGED <<file, life, waiting, cut, glued, history>>

\* The process dies; a batch that is being written leaves some of its bytes.
Crash ==
  /\ life \in {"replaying", "up"} /\ crashes < MaxCrashes
  /\ crashes' = crashes + 1
  /\ life' = "down" /\ p' = NewPersistence /\ waiting' = {} /\ held' = {}
  /\ file' \in IF p.phase = "open" THEN File!Interrupted(file, p.batch) ELSE {file}
  /\ glued' = (glued \/ (file' # file /\ file.tail # <<>>))
  /\ UNCHANGED <<last, confirmed, cut, torn, faults>>

Next ==
  \/ Start \/ ReplayDone \/ LogRecord \/ Flush
  \/ \E k \in waiting : FlushReturns(k) \/ FlushThrows(k)
  \/ OpenFile \/ Synced \/ BatchFails \/ Settled \/ Crash

\* File operations end, well or badly, and continuations run.
Fairness ==
  /\ WF_vars(OpenFile) /\ WF_vars(Synced) /\ WF_vars(Settled)
  /\ WF_vars(\E k \in waiting : FlushReturns(k) \/ FlushThrows(k))

Spec == Init /\ [][Next]_vars /\ Fairness

---------------------------------------------------------------------------
\* The types; nothing of the older version is ever written, and a flush under way is
\* the only one that holds a batch.
TypeOK ==
  /\ file \in [lines : Seq(Line), tail : {<<>>} \cup {<<x>> : x \in Line}]
  /\ life \in {"down", "replaying", "up", "refused"}
  /\ p \in [pending : Seq(Record), shouldClear : BOOLEAN, error : BOOLEAN, metadata : BOOLEAN,
            phase : {"idle", "taken", "open", "settling"}, batch : Seq(Record), wipe : BOOLEAN]
  /\ p.phase \in {"idle", "settling"} => p.batch = <<>> /\ ~p.wipe
  /\ waiting \subseteq 0 .. N /\ held \subseteq 1 .. N /\ confirmed \subseteq 1 .. N
  /\ last \in 0 .. N /\ cut \in BOOLEAN /\ torn \in BOOLEAN /\ glued \in BOOLEAN
  /\ crashes \in 0 .. MaxCrashes /\ faults \in 0 .. MaxFaults

\* What a flush has vouched for is read back, whatever crashes and failures follow:
\* unless a rewrite was interrupted after its truncation, or something was written behind
\* an unfinished line.
Durable == ~cut /\ ~glued => confirmed \subseteq RecordsOf(ReadBack(file))

\* What is read back begins with the metadata and gives every record once, in the order
\* of the calls of logRecord: batches, rewrites and retries neither repeat nor reorder.
ReadInOrder ==
  ~Corrupted(file) =>
    LET s == ReadBack(file) IN
    /\ s # <<>> => Head(s) \in {Metadata, OldMetadata}
    /\ \A i, j \in DOMAIN s : i < j => s[i] < s[j]

\* A record that is pending is on its way to the disk: an append between the end of the
\* drain loop and the finally of its promise is not left behind.
NoStrandedRecord ==
  life \in {"replaying", "up"} /\ MayWrite(p) /\ HasWork(p) => p.phase # "idle"

\* A process does not write behind its own unfinished line: only a line that was torn
\* when a process began can be glued to.
OwnLinesWhole == glued \/ Corrupted(file) => torn

\* Nothing a flush vouched for is lost and nothing pending is forgotten.
NothingLost == Durable /\ NoStrandedRecord

\* The log as a reader finds it.
LogOK == TypeOK /\ ReadInOrder /\ OwnLinesWhole

\* Every flush returns or throws, unless the process dies.
FlushEnds == \A k \in 0 .. N : (k \in waiting) ~> (k \notin waiting)

\* persistence.ts:211-212: a last line that was cut off by a crash is tolerated, so that
\* a log can be read after a crash.
AlwaysReadable == life # "refused"

=============================================================================
