--------------------------- MODULE McpConnections ---------------------------
(***************************************************************************)
(* McpConnectionManager and the tools of one of its servers: attempts to   *)
(* connect that overtake one another, the clients they start, what the     *)
(* listeners are told and which tools the agents then offer, up to the     *)
(* shutdown.  Servers share nothing but the names of their tools, so the   *)
(* module has one; the one attempt of connectAll has started in Init.      *)
(***************************************************************************)
EXTENDS Integers

CONSTANTS
  N,    \* attempts: the one of connectAll and N - 1 calls of reconnect
  Agent \* agents whose tool manager listens

ASSUME McpAssumption == N \in Nat \ {0}

Attempt == 1 .. N

VARIABLES
  entry,    \* the entry of the server
  call,     \* where the call that made each attempt is
  answer,   \* what its connect-and-list promise settled with, or the timeout
  client,   \* the client of each attempt
  waits,    \* the client whose close each call waits for, 0 for none
  buffered, \* clients that died before anybody watched them
  told,     \* the last status the listeners heard
  tools,    \* the client behind each agent's tools, or the authenticate tool
  auth      \* the execution of the authenticate tool: Idle, Flow or its attempt

vars == <<entry, call, answer, client, waits, buffered, told, tools, auth>>

Status == {"pending", "connected", "failed", "needs-auth"}
CallState == {"none", "closing", "starting", "ending", "done"}
Answer == {"none", "listed", "error", "unauthorized"}
ClientState == {"none", "handshake", "ready", "dead", "closing", "closed"}
NoTools == 0
AuthTool == N + 1
Absent == N + 2
Idle == 0
Flow == N + 1

---------------------------------------------------------------------------
\* Mutant: a shutdown is not noticed.
IsNewest(e, a) == e.attempt = a

\* Mutant: attempts are not told apart.
IsOpen(e, a) == e.open

IsCurrent(e, a) == e.open /\ e.attempt = a

\* handleMcpServerStatusChange; resolved finds no client when the entry has none.
ToolsFor(e, status, old) ==
  CASE status = "connected" -> IF e.client # 0 THEN e.client ELSE old
    [] status = "needs-auth" -> AuthTool
    [] OTHER -> NoTools

Emit(e) ==
  /\ told' = e.status
  /\ tools' = [g \in Agent |->
                 IF tools[g] = Absent THEN Absent ELSE ToolsFor(e, e.status, tools[g])]

Quiet == UNCHANGED <<told, tools>>

Open(c) == c # 0 /\ client[c] \in {"handshake", "ready"}

\* close of a client: the first call does the work, later ones return at once.  There is
\* nothing to wait for when the server has died before.
CloseEffect(c) == IF Open(c) THEN [client EXCEPT ![c] = "closing"] ELSE client
\* Mutant: a client that is closed already is waited for, too.
AwaitedTwice(c) == c

Awaited(c) == IF Open(c) THEN c ELSE 0

Go(a, state, c) ==
  /\ call' = [call EXCEPT ![a] = state]
  /\ waits' = [waits EXCEPT ![a] = Awaited(c)]

Init ==
  /\ entry = [open |-> TRUE, attempt |-> 1, status |-> "pending", client |-> 1]
  /\ call = [a \in Attempt |-> IF a = 1 THEN "starting" ELSE "none"]
  /\ answer = [a \in Attempt |-> "none"]
  /\ client = [a \in Attempt |-> IF a = 1 THEN "handshake" ELSE "none"]
  /\ waits = [a \in Attempt |-> 0] /\ buffered = {}
  /\ told = "pending" /\ tools = [g \in Agent |-> Absent]
  /\ auth = Idle

---------------------------------------------------------------------------
\* attachMcpTools: an agent is created and takes the tools there are.
Attach(g) ==
  /\ tools[g] = Absent
  /\ tools' = [tools EXCEPT ![g] =
       IF entry.open THEN ToolsFor(entry, entry.status, NoTools) ELSE NoTools]
  /\ UNCHANGED <<entry, call, answer, client, waits, buffered, told, auth>>

\* reconnect, up to the wait for the old client's close.
Begin ==
  /\ entry.open /\ entry.attempt < N
  /\ LET a == entry.attempt + 1 IN
       /\ entry' = [entry EXCEPT !.attempt = a, !.client = 0]
       /\ client' = CloseEffect(entry.client)
       /\ Go(a, "closing", entry.client)
  /\ UNCHANGED <<answer, buffered>> /\ Quiet

Reconnect == Begin /\ UNCHANGED auth

\* The authenticate tool: the browser flow, then a reconnect of its own.
Authenticate ==
  /\ auth = Idle /\ \E g \in Agent : tools[g] = AuthTool
  /\ auth' = Flow
  /\ UNCHANGED <<entry, call, answer, client, waits, buffered, told, tools>>

AuthReconnect ==
  /\ auth = Flow /\ Begin
  /\ auth' = entry.attempt + 1

\* The flow fails, or reconnect has returned: it returns also when the server failed.
AuthAnswers ==
  /\ auth = Flow \/ \E a \in Attempt : auth = a /\ call[a] = "done"
  /\ auth' = Idle
  /\ UNCHANGED <<entry, call, answer, client, waits, buffered, told, tools>>

\* The close of a client comes to its end.
Closes(c) ==
  /\ client[c] = "closing"
  /\ client' = [client EXCEPT ![c] = "closed"]
  /\ waits' = [a \in Attempt |-> IF waits[a] = c THEN 0 ELSE waits[a]]
  /\ UNCHANGED <<entry, call, answer, buffered, told, tools, auth>>

\* The rest of reconnect and the first part of connectOne.  The client's constructor
\* may throw (a missing variable, an executor that is not implemented).
Start(a, throws) ==
  /\ call[a] = "closing" /\ waits[a] = 0
  /\ IF ~IsCurrent(entry, a)
     THEN Go(a, "done", 0) /\ UNCHANGED <<entry, answer, client>> /\ Quiet
     ELSE /\ Go(a, "starting", 0)
          /\ Emit([entry EXCEPT !.status = "pending"])
          /\ IF throws
             THEN /\ entry' = [entry EXCEPT !.status = "pending"]
                  /\ answer' = [answer EXCEPT ![a] = "error"] /\ UNCHANGED client
             ELSE /\ entry' = [entry EXCEPT !.status = "pending", !.client = a]
                  /\ client' = [client EXCEPT ![a] = "handshake"] /\ UNCHANGED answer
  /\ UNCHANGED <<buffered, auth>>

Settles(a, with) ==
  /\ call[a] = "starting" /\ answer[a] = "none"
  /\ answer' = [answer EXCEPT ![a] = with]
  /\ UNCHANGED <<entry, call, waits, buffered, told, tools, auth>>

Ready(a) ==
  /\ call[a] = "starting" /\ client[a] = "handshake"
  /\ client' = [client EXCEPT ![a] = "ready"]
  /\ UNCHANGED <<entry, call, answer, waits, buffered, told, tools, auth>>

\* The client closes what it had started before the error is thrown.
HandshakeFails(a) ==
  /\ client[a] = "handshake" /\ client' = [client EXCEPT ![a] = "closed"]
  /\ \E with \in {"error", "unauthorized"} : Settles(a, with)

Lists(a) == client[a] = "ready" /\ Settles(a, "listed") /\ UNCHANGED client

ListFails(a) ==
  /\ client[a] \in {"ready", "dead"}
  /\ \E with \in {"error", "unauthorized"} : Settles(a, with)
  /\ UNCHANGED client

\* Somebody else has closed the client.
ClosedUnder(a) ==
  client[a] \in {"closing", "closed"} /\ Settles(a, "error") /\ UNCHANGED client

Timeout(a) == Settles(a, "error") /\ client' = CloseEffect(a)

---------------------------------------------------------------------------
Used(a) == answer' = [answer EXCEPT ![a] = "none"]

\* connectOne goes on after its answer.
Overtaken(a) ==
  /\ call[a] = "starting" /\ answer[a] # "none" /\ ~IsCurrent(entry, a)
  /\ client' = CloseEffect(a) /\ Go(a, "ending", a) /\ Used(a)
  /\ UNCHANGED <<entry, buffered, auth>> /\ Quiet

\* watchForUnexpectedClose: the listener is installed, or told of what it has missed.
Connected(a) ==
  /\ call[a] = "starting" /\ answer[a] = "listed" /\ IsCurrent(entry, a)
  /\ entry' = IF a \in buffered THEN [entry EXCEPT !.status = "failed", !.client = 0]
              ELSE [entry EXCEPT !.status = "connected"]
  /\ buffered' = buffered \ {a}
  /\ Go(a, "done", 0) /\ Emit(entry') /\ Used(a)
  /\ UNCHANGED <<client, auth>>

FailedEntry(a) ==
  [entry EXCEPT !.client = 0,
                !.status = IF answer[a] = "unauthorized" THEN "needs-auth" ELSE "failed"]

Fails(a) ==
  /\ call[a] = "starting" /\ answer[a] \in {"error", "unauthorized"} /\ IsCurrent(entry, a)
  /\ entry' = FailedEntry(a)
  /\ client' = CloseEffect(entry.client) /\ Go(a, "ending", entry.client) /\ Used(a)
  /\ UNCHANGED <<buffered, auth>> /\ Quiet

\* Only the newest attempt still has something to tell.
Ends(a) ==
  /\ call[a] = "ending" /\ waits[a] = 0
  /\ IF IsCurrent(entry, a) THEN Emit(entry) ELSE Quiet
  /\ Go(a, "done", 0)
  /\ UNCHANGED <<entry, answer, client, buffered, auth>>

\* The server goes away: after the handshake and before any close of ours.
Dies(a) ==
  /\ client[a] = "ready"
  /\ IF call[a] = "done" /\ IsCurrent(entry, a) /\ entry.client = a
     THEN /\ entry' = [entry EXCEPT !.status = "failed", !.client = 0]
          /\ Emit(entry') /\ UNCHANGED buffered
     ELSE /\ buffered' = IF call[a] = "done" THEN buffered ELSE buffered \cup {a}
          /\ UNCHANGED entry /\ Quiet
  /\ client' = [client EXCEPT ![a] = "dead"]
  /\ UNCHANGED <<call, answer, waits, auth>>

Shutdown ==
  /\ entry.open
  /\ entry' = [entry EXCEPT !.open = FALSE, !.client = 0]
  /\ client' = CloseEffect(entry.client)
  /\ UNCHANGED <<call, answer, waits, buffered, auth>> /\ Quiet

---------------------------------------------------------------------------
Step(a) ==
  \/ \E throws \in BOOLEAN : Start(a, throws)
  \/ ClosedUnder(a)
  \/ Timeout(a)
  \/ Overtaken(a)
  \/ Connected(a)
  \/ Fails(a)
  \/ Ends(a)
  \/ Closes(a)

Next ==
  \/ \E a \in Attempt :
       Step(a) \/ Ready(a) \/ HandshakeFails(a) \/ Lists(a) \/ ListFails(a) \/ Dies(a)
  \/ \E g \in Agent : Attach(g)
  \/ Reconnect
  \/ Authenticate
  \/ AuthReconnect
  \/ AuthAnswers
  \/ Shutdown

Fairness == \A a \in Attempt : WF_vars(Step(a))

Spec == Init /\ [][Next]_vars /\ Fairness

---------------------------------------------------------------------------
TypeOK ==
  /\ entry \in [open : BOOLEAN, attempt : Attempt, status : Status, client : {0} \cup Attempt]
  /\ call \in [Attempt -> CallState] /\ answer \in [Attempt -> Answer]
  /\ client \in [Attempt -> ClientState] /\ waits \in [Attempt -> {0} \cup Attempt]
  /\ buffered \subseteq Attempt /\ told \in Status
  /\ tools \in [Agent -> 0 .. N + 2]
  /\ auth \in 0 .. N + 1

\* No server process is left running behind the manager's back: a client that has been
\* started and not closed is the one of the connected entry, or its own attempt is
\* still to look at it.
NoLeak ==
  \A a \in Attempt : client[a] \in {"handshake", "ready"} =>
    \/ entry.open /\ entry.client = a /\ entry.status = "connected"
    \/ call[a] = "starting"

\* The tools an agent offers are backed by the client of the connected entry, and a
\* connected or unauthorized server has its tools with every agent, whenever the agent
\* was created; but while a reconnect closes the old client they are still there.
ToolsAreLive ==
  entry.open /\ call[entry.attempt] # "closing" =>
    \A g \in Agent :
      /\ tools[g] \in Attempt =>
           entry.client = tools[g] /\ entry.status = "connected" /\ client[tools[g]] = "ready"
      /\ entry.status = "connected" /\ tools[g] # Absent => tools[g] = entry.client
      /\ told = "needs-auth" /\ tools[g] # Absent => tools[g] = AuthTool

\* The newest attempt decides: nothing an overtaken one does later is seen.  A server
\* is pending only while the newest attempt runs, connected only with its client, and
\* the listeners know the status once that attempt is over.
NewestDecides ==
  entry.open /\ call[entry.attempt] # "closing" =>
    /\ entry.status = "pending" => call[entry.attempt] = "starting"
    /\ entry.status = "connected" => entry.client = entry.attempt
    /\ call[entry.attempt] = "done" => told = entry.status

\* The manager's entry and what was started for it.
ServerOK == TypeOK /\ NoLeak

\* What the agents offer is what the newest attempt has left.
ToolsOK == ToolsAreLive /\ NewestDecides

\* After the shutdown the listeners hear no more, whatever attempts are under way.
SilentAfterShutdown ==
  [][~entry.open => /\ told' = told
                    /\ \A g \in Agent : tools[g] # Absent => tools'[g] = tools[g]]_vars

\* A server that never answers does not keep a call waiting: every attempt ends, and
\* once the manager is shut down its clients are closed for good.
AttemptsEnd ==
  /\ \A a \in Attempt : call[a] # "none" ~> call[a] = "done"
  /\ ~entry.open ~> [](\A a \in Attempt : client[a] \in {"none", "dead", "closed"})
=============================================================================
