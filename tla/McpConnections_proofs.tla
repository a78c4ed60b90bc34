------------------------ MODULE McpConnections_proofs ------------------------
(***************************************************************************)
(* Proofs about McpConnections, for any number of attempts and any agents: *)
(* no client leaks, what agents offer is backed by the newest attempt's    *)
(* client, and listeners hear nothing after the shutdown.                  *)
(***************************************************************************)
EXTENDS McpConnections, TLAPS

\* A call that has not begun to connect has no client, and only one that connects waits
\* for an answer.  Attempts begin one after the other.
CallsInOrder ==
  \A a \in Attempt :
    /\ call[a] = "none" <=> a > entry.attempt
    /\ call[a] \in {"none", "closing"} => client[a] = "none"
    /\ call[a] # "starting" => answer[a] = "none"
    /\ a \in buffered => client[a] = "dead"

Newest == entry.attempt
Offers(S) == \A g \in Agent : tools[g] \in S \cup {Absent}

\* The newest call waits for the old client: the entry has none.
WhileClosing == entry.open /\ call[Newest] = "closing" => entry.client = 0

\* The newest call connects: it alone has a client, and a client that has listed its
\* tools is alive or known to be dead.
WhileStarting ==
  entry.open /\ call[Newest] = "starting" =>
    /\ entry.status = "pending" /\ told = "pending" /\ Offers({NoTools})
    /\ \/ entry.client = Newest /\ client[Newest] # "none"
       \/ entry.client = 0 /\ client[Newest] = "none" /\ answer[Newest] = "error"
    /\ answer[Newest] = "listed" => client[Newest] \in {"ready", "dead"}
    /\ client[Newest] = "dead" => Newest \in buffered

\* The newest call has failed and waits for its client to close, before it tells.
WhileEnding ==
  entry.open /\ call[Newest] = "ending" =>
    /\ entry.status \in {"failed", "needs-auth"} /\ told = "pending" /\ entry.client = 0
    /\ Offers({NoTools, AuthTool})

\* The newest call is over and everybody knows its outcome.
WhenDone ==
  entry.open /\ call[Newest] = "done" =>
    /\ told = entry.status /\ entry.status # "pending"
    /\ IF entry.status = "connected"
       THEN entry.client = Newest /\ client[Newest] = "ready" /\ Offers({Newest})
       ELSE entry.client = 0 /\ Offers({IF entry.status = "failed" THEN NoTools ELSE AuthTool})

\* What the calls under way say of the entry, the listeners and the clients.
Calls ==
  /\ NoLeak /\ CallsInOrder
  /\ WhileClosing /\ WhileStarting /\ WhileEnding /\ WhenDone

\* The inductive invariant.
IInv == TypeOK /\ Calls

-----------------------------------------------------------------------------
Entry == [open : BOOLEAN, attempt : Attempt, status : Status, client : {0} \cup Attempt]

\* Closing keeps the types, whether or not there is a client to close.
LEMMA CloseType ==
  ASSUME TypeOK, NEW c \in {0} \cup Attempt
  PROVE  CloseEffect(c) \in [Attempt -> ClientState] /\ Awaited(c) \in {0} \cup Attempt
BY McpAssumption DEF TypeOK, CloseEffect, Awaited, Open, ClientState, Attempt

\* Telling the listeners keeps the types.
LEMMA EmitType ==
  ASSUME TypeOK, NEW e \in Entry, Emit(e)
  PROVE  told' \in Status /\ tools' \in [Agent -> 0 .. N + 2]
<1>1. \A g \in Agent : ToolsFor(e, e.status, tools[g]) \in 0 .. N + 2
  BY McpAssumption DEF TypeOK, ToolsFor, Entry, Attempt, NoTools, AuthTool
<1> QED BY <1>1, McpAssumption DEF TypeOK, Emit, Entry, Absent

\* A server that is pending or has failed leaves the agents without its tools.
LEMMA EmitQuietens ==
  ASSUME NEW e, e.status \in {"pending", "failed"}, Emit(e)
  PROVE  told' = e.status /\ \A g \in Agent : tools'[g] \in {NoTools, Absent}
BY DEF Emit, ToolsFor

\* Every step keeps the types.
LEMMA TypeStep == TypeOK /\ [Next]_vars => TypeOK'
<1> SUFFICES ASSUME TypeOK, [Next]_vars PROVE TypeOK'
  OBVIOUS
<1> USE McpAssumption DEF Attempt, Status, CallState, Answer, ClientState, NoTools,
     AuthTool, Absent, Idle, Flow, TypeOK
<1>1. CASE Begin /\ auth' \in 0 .. N + 1
  <2>1. entry.client \in {0} \cup Attempt /\ entry.attempt + 1 \in Attempt
    BY <1>1 DEF Begin
  <2>2. entry' \in Entry
    BY <1>1, <2>1 DEF Begin, Entry
  <2> QED BY <1>1, <2>1, <2>2, CloseType DEF Begin, Go, Quiet, Entry
<1>2. CASE Authenticate
  BY <1>2, SMTT(20) DEF Authenticate
<1>3. CASE AuthAnswers
  BY <1>3, SMTT(20) DEF AuthAnswers
<1>4. CASE Shutdown
  <2>1. entry' \in Entry /\ entry.client \in {0} \cup Attempt
    BY <1>4 DEF Shutdown, Entry
  <2> QED BY <1>4, <2>1, CloseType DEF Shutdown, Quiet, Entry
<1>5. ASSUME NEW g \in Agent, Attach(g)
      PROVE  TypeOK'
  BY <1>5, SMTT(20) DEF Attach, ToolsFor
<1>6. ASSUME NEW a \in Attempt, NEW throws \in BOOLEAN, Start(a, throws)
      PROVE  TypeOK'
  <2>1. CASE ~IsCurrent(entry, a)
    BY <1>6, <2>1 DEF Start, Go, Quiet, Awaited, Open
  <2>2. CASE IsCurrent(entry, a)
    <3>1. [entry EXCEPT !.status = "pending"] \in Entry
      BY DEF Entry
    <3>2. told' \in Status /\ tools' \in [Agent -> 0 .. N + 2]
      BY <1>6, <2>2, <3>1, EmitType DEF Start
    <3>3. call' \in [Attempt -> CallState] /\ waits' \in [Attempt -> {0} \cup Attempt]
      BY <1>6, <2>2 DEF Start, Go, Awaited, Open
    <3>4. CASE throws
      BY <1>6, <2>2, <3>1, <3>2, <3>3, <3>4 DEF Start, Entry
    <3>5. CASE ~throws
      <4>1. [entry EXCEPT !.status = "pending", !.client = a] \in Entry
        BY DEF Entry
      <4> QED BY <1>6, <2>2, <3>2, <3>3, <3>5, <4>1 DEF Start, Entry
    <3> QED BY <3>4, <3>5
  <2> QED BY <2>1, <2>2
<1>7. ASSUME NEW a \in Attempt, ClosedUnder(a)
      PROVE  TypeOK'
  BY <1>7, SMTT(20) DEF ClosedUnder, Settles
<1>8. ASSUME NEW a \in Attempt, Timeout(a)
      PROVE  TypeOK'
  BY <1>8, CloseType DEF Timeout, Settles
<1>9. ASSUME NEW a \in Attempt, Overtaken(a)
      PROVE  TypeOK'
  BY <1>9, CloseType DEF Overtaken, Go, Used, Quiet
<1>10. ASSUME NEW a \in Attempt, Connected(a)
      PROVE  TypeOK'
  <2>1. entry' \in Entry
    BY <1>10 DEF Connected, Entry
  <2>2. told' \in Status /\ tools' \in [Agent -> 0 .. N + 2]
    BY <1>10, <2>1, EmitType DEF Connected
  <2> QED BY <1>10, <2>1, <2>2 DEF Connected, Go, Used, Awaited, Open, Entry
<1>11. ASSUME NEW a \in Attempt, Fails(a)
      PROVE  TypeOK'
  <2>1. entry' \in Entry /\ entry.client \in {0} \cup Attempt
    BY <1>11 DEF Fails, FailedEntry, Entry
  <2> QED BY <1>11, <2>1, CloseType DEF Fails, Go, Used, Quiet, Entry
<1>12. ASSUME NEW a \in Attempt, Ends(a)
      PROVE  TypeOK'
  <2>1. told' \in Status /\ tools' \in [Agent -> 0 .. N + 2]
    BY <1>12, EmitType DEF Ends, Quiet, Entry
  <2> QED BY <1>12, <2>1 DEF Ends, Go, Awaited, Open
<1>13. ASSUME NEW a \in Attempt, Closes(a)
      PROVE  TypeOK'
  BY <1>13, SMTT(20) DEF Closes
<1>14. ASSUME NEW a \in Attempt, Ready(a)
      PROVE  TypeOK'
  BY <1>14, SMTT(20) DEF Ready
<1>15. ASSUME NEW a \in Attempt, HandshakeFails(a)
      PROVE  TypeOK'
  BY <1>15, SMTT(20) DEF HandshakeFails, Settles
<1>16. ASSUME NEW a \in Attempt, Lists(a)
      PROVE  TypeOK'
  BY <1>16, SMTT(20) DEF Lists, Settles
<1>17. ASSUME NEW a \in Attempt, ListFails(a)
      PROVE  TypeOK'
  BY <1>17, SMTT(20) DEF ListFails, Settles
<1>18. ASSUME NEW a \in Attempt, Dies(a)
      PROVE  TypeOK'
  <2>1. entry' \in Entry
    BY <1>18 DEF Dies, Entry
  <2>2. told' \in Status /\ tools' \in [Agent -> 0 .. N + 2]
    BY <1>18, <2>1, EmitType DEF Dies, Quiet
  <2> QED BY <1>18, <2>1, <2>2 DEF Dies, Entry
<1>19. CASE UNCHANGED vars
  BY <1>19 DEF vars
<1> QED
  BY <1>1, <1>2, <1>3, <1>4, <1>5, <1>6, <1>7, <1>8, <1>9, <1>10, <1>11, <1>12, <1>13,
       <1>14, <1>15, <1>16, <1>17, <1>18, <1>19 DEF Next, Step, Reconnect, AuthReconnect

\* Every step keeps what the calls under way promise.
LEMMA CallsStep == TypeOK /\ Calls /\ [Next]_vars => Calls'
<1> SUFFICES ASSUME TypeOK, Calls, [Next]_vars PROVE Calls'
  OBVIOUS
<1> USE McpAssumption DEF Attempt, Status, CallState, Answer, ClientState, NoTools,
     AuthTool, Absent, Idle, Flow, CloseEffect, Awaited, Open, Newest, Offers, TypeOK,
     Calls, NoLeak, CallsInOrder, WhileClosing, WhileStarting, WhileEnding, WhenDone
<1>1. CASE Begin /\ auth' \in 0 .. N + 1
  BY <1>1, SMTT(20) DEF Begin, Go, Quiet
<1>2. CASE Authenticate
  BY <1>2, SMTT(20) DEF Authenticate
<1>3. CASE AuthAnswers
  BY <1>3, SMTT(20) DEF AuthAnswers
<1>4. CASE Shutdown
  BY <1>4, SMTT(20) DEF Shutdown, Quiet
<1>5. ASSUME NEW g \in Agent, Attach(g)
      PROVE  Calls'
  BY <1>5, SMTT(20) DEF Attach, ToolsFor
<1>6. ASSUME NEW a \in Attempt, NEW throws \in BOOLEAN, Start(a, throws)
      PROVE  Calls'
  <2>1. CASE ~IsCurrent(entry, a)
    BY <1>6, <2>1 DEF Start, Go, Quiet, IsCurrent
  <2>2. CASE IsCurrent(entry, a)
    <3>1. told' = "pending" /\ \A g \in Agent : tools'[g] \in {NoTools, Absent}
      BY <1>6, <2>2, EmitQuietens DEF Start
    <3>2. /\ call[a] = "closing" /\ call' = [call EXCEPT ![a] = "starting"]
          /\ buffered' = buffered
          /\ a = entry.attempt /\ entry.open /\ entry.client = 0
      BY <1>6, <2>2 DEF Start, Go, IsCurrent
    <3>3. CASE throws
      <4>1. /\ entry' = [entry EXCEPT !.status = "pending"] /\ client' = client
            /\ answer' = [answer EXCEPT ![a] = "error"]
        BY <1>6, <2>2, <3>3 DEF Start
      <4> QED BY <3>1, <3>2, <4>1
    <3>4. CASE ~throws
      <4>1. /\ entry' = [entry EXCEPT !.status = "pending", !.client = a]
            /\ client' = [client EXCEPT ![a] = "handshake"] /\ answer' = answer
        BY <1>6, <2>2, <3>4 DEF Start
      <4> QED BY <3>1, <3>2, <4>1
    <3> QED BY <3>3, <3>4
  <2> QED BY <2>1, <2>2
<1>7. ASSUME NEW a \in Attempt, ClosedUnder(a)
      PROVE  Calls'
  BY <1>7, SMTT(20) DEF ClosedUnder, Settles
<1>8. ASSUME NEW a \in Attempt, Timeout(a)
      PROVE  Calls'
  BY <1>8, SMTT(20) DEF Timeout, Settles
<1>9. ASSUME NEW a \in Attempt, Overtaken(a)
      PROVE  Calls'
  BY <1>9, SMTT(20) DEF Overtaken, Go, Used, Quiet, IsCurrent
<1>10. ASSUME NEW a \in Attempt, Connected(a)
      PROVE  Calls'
  BY <1>10, SMTT(20) DEF Connected, Go, Used, Emit, ToolsFor, IsCurrent
<1>11. ASSUME NEW a \in Attempt, Fails(a)
      PROVE  Calls'
  BY <1>11, SMTT(20) DEF Fails, FailedEntry, Go, Used, Quiet, IsCurrent
<1>12. ASSUME NEW a \in Attempt, Ends(a)
      PROVE  Calls'
  BY <1>12, SMTT(20) DEF Ends, Go, Emit, ToolsFor, Quiet, IsCurrent
<1>13. ASSUME NEW a \in Attempt, Closes(a)
      PROVE  Calls'
  BY <1>13, SMTT(20) DEF Closes
<1>14. ASSUME NEW a \in Attempt, Ready(a)
      PROVE  Calls'
  BY <1>14, SMTT(20) DEF Ready
<1>15. ASSUME NEW a \in Attempt, HandshakeFails(a)
      PROVE  Calls'
  BY <1>15, SMTT(20) DEF HandshakeFails, Settles
<1>16. ASSUME NEW a \in Attempt, Lists(a)
      PROVE  Calls'
  BY <1>16, SMTT(20) DEF Lists, Settles
<1>17. ASSUME NEW a \in Attempt, ListFails(a)
      PROVE  Calls'
  BY <1>17, SMTT(20) DEF ListFails, Settles
<1>18. ASSUME NEW a \in Attempt, Dies(a)
      PROVE  Calls'
  <2> DEFINE Seen == call[a] = "done" /\ IsCurrent(entry, a) /\ entry.client = a
  <2>0. client[a] = "ready" /\ client' = [client EXCEPT ![a] = "dead"]
        /\ call' = call /\ answer' = answer
    BY <1>18 DEF Dies
  <2>1. CASE Seen
    <3>1. /\ entry' = [entry EXCEPT !.status = "failed", !.client = 0] /\ Emit(entry')
          /\ buffered' = buffered
      BY <1>18, <2>1 DEF Dies
    <3>2. /\ entry'.open = entry.open /\ entry'.attempt = entry.attempt
          /\ entry'.status = "failed" /\ entry'.client = 0 /\ a = entry.attempt
      BY <2>1, <3>1 DEF IsCurrent
    <3>3. told' = "failed" /\ \A g \in Agent : tools'[g] \in {NoTools, Absent}
      BY <3>1, <3>2 DEF Emit, ToolsFor
    <3> QED BY <2>0, <2>1, <3>1, <3>2, <3>3
  <2>2. CASE ~Seen
    <3>1. /\ entry' = entry /\ told' = told /\ tools' = tools
          /\ buffered' = IF call[a] = "done" THEN buffered ELSE buffered \cup {a}
      BY <1>18, <2>2 DEF Dies, Quiet
    <3> QED BY <2>0, <2>2, <3>1 DEF IsCurrent
  <2> QED BY <2>1, <2>2
<1>19. CASE UNCHANGED vars
  BY <1>19 DEF vars
<1> QED
  BY <1>1, <1>2, <1>3, <1>4, <1>5, <1>6, <1>7, <1>8, <1>9, <1>10, <1>11, <1>12, <1>13,
       <1>14, <1>15, <1>16, <1>17, <1>18, <1>19 DEF Next, Step, Reconnect, AuthReconnect

\* The connection that connectAll has started satisfies the invariant.
LEMMA InitIInv == Init => IInv
<1> SUFFICES ASSUME Init PROVE IInv
  OBVIOUS
<1> USE McpAssumption DEF Init, Attempt, Status, CallState, Answer, ClientState, NoTools,
     AuthTool, Absent, Idle
<1>1. TypeOK
  BY DEF TypeOK
<1>2. Calls
  BY DEF Calls, NoLeak, CallsInOrder, WhileClosing, WhileStarting, WhileEnding,
       WhenDone, Newest, Offers
<1> QED BY <1>1, <1>2 DEF IInv

\* The inductive invariant holds in every reachable state.
THEOREM Invariant == Spec => []IInv
<1>1. IInv /\ [Next]_vars => IInv'
  BY TypeStep, CallsStep DEF IInv
<1> QED BY <1>1, InitIInv, PTL DEF Spec

\* No client is left running behind the manager's back, however attempts, timeouts,
\* deaths and the shutdown cross.
THEOREM Supervised == Spec => []ServerOK
<1>1. IInv => ServerOK
  BY DEF IInv, Calls, ServerOK
<1> QED BY <1>1, Invariant, PTL

\* What agents offer is backed by the newest attempt's client, and nothing an overtaken
\* attempt does later is seen.
THEOREM NewestOnly == Spec => []ToolsOK
<1>1. ASSUME IInv PROVE ToolsOK
  <2> USE McpAssumption DEF IInv, Calls, TypeOK, Newest, Offers, Attempt, NoTools,
       AuthTool, Absent
  <2> SUFFICES ASSUME entry.open, call[Newest] # "closing" PROVE ToolsOK
    BY DEF ToolsOK, ToolsAreLive, NewestDecides
  <2>1. CASE call[Newest] = "starting"
    BY <1>1, <2>1 DEF WhileStarting, ToolsOK, ToolsAreLive, NewestDecides
  <2>2. CASE call[Newest] = "ending"
    BY <1>1, <2>2 DEF WhileEnding, ToolsOK, ToolsAreLive, NewestDecides
  <2>3. CASE call[Newest] = "done"
    BY <1>1, <2>3 DEF WhenDone, ToolsOK, ToolsAreLive, NewestDecides, Status
  <2>4. call[Newest] # "none"
    BY <1>1 DEF CallsInOrder
  <2> QED BY <1>1, <2>1, <2>2, <2>3, <2>4 DEF CallState
<1> QED BY <1>1, Invariant, PTL

\* Nobody hears of a server after the shutdown.
THEOREM Silence == Spec => SilentAfterShutdown
<1> DEFINE Unheard ==
      ~entry.open => told' = told /\ \A g \in Agent : tools[g] # Absent => tools'[g] = tools[g]
<1>1. ASSUME TypeOK, [Next]_vars PROVE Unheard
  <2>1. ASSUME NEW g \in Agent, Attach(g) PROVE Unheard
    BY <1>1, <2>1 DEF Attach, TypeOK
  <2>2. ASSUME NEW a \in Attempt, NEW throws \in BOOLEAN, Start(a, throws) PROVE Unheard
    BY <2>2 DEF Start, IsCurrent, Quiet
  <2>3. ASSUME NEW a \in Attempt,
               ClosedUnder(a) \/ Timeout(a) \/ Lists(a) \/ ListFails(a) \/ HandshakeFails(a)
      PROVE  Unheard
    BY <2>3 DEF ClosedUnder, Timeout, Lists, ListFails, HandshakeFails, Settles
  <2>4. ASSUME NEW a \in Attempt, Overtaken(a) \/ Connected(a) \/ Fails(a) \/ Ends(a) \/ Dies(a)
      PROVE  Unheard
    BY <2>4 DEF Overtaken, Connected, Fails, Ends, Dies, IsCurrent, Quiet
  <2>5. ASSUME NEW a \in Attempt, Closes(a) \/ Ready(a) PROVE Unheard
    BY <2>5 DEF Closes, Ready
  <2>6. CASE Reconnect \/ AuthReconnect \/ Authenticate \/ AuthAnswers \/ Shutdown
    BY <2>6 DEF Reconnect, AuthReconnect, Begin, Authenticate, AuthAnswers, Shutdown, Quiet
  <2>7. CASE UNCHANGED vars
    BY <2>7 DEF vars
  <2> QED BY <1>1, <2>1, <2>2, <2>3, <2>4, <2>5, <2>6, <2>7 DEF Next, Step
<1>2. TypeOK /\ [Next]_vars => [Unheard]_vars
  BY <1>1
<1>3. Spec => []TypeOK
  <2>1. IInv => TypeOK
    BY DEF IInv
  <2> QED BY <2>1, Invariant, PTL
<1> QED BY <1>2, <1>3, PTL DEF Spec, SilentAfterShutdown
=============================================================================
