------------------------------ MODULE ToolOrder ------------------------------
(***************************************************************************)
(* What a step promises about its tool calls (the header comment of        *)
(* loop/tool-scheduler.ts): calls that do not conflict may overlap, a call *)
(* that conflicts with earlier ones enters its tool when they are over.    *)
(***************************************************************************)
EXTENDS ToolAccess

CONSTANTS N, AccessSets

VARIABLES declared,  \* declared[c]: the accesses of call c
          status     \* status[c]: how far call c is

Call == 1 .. N

Over == {"ended", "declined"}

Init ==
  /\ declared = [c \in Call |-> {}]
  /\ status = [c \in Call |-> "unknown"]

\* Call c is going to run and says what it accesses.
Declare(c, accesses) ==
  /\ status[c] = "unknown"
  /\ \A d \in Call : d < c => status[d] # "unknown"
  /\ declared' = [declared EXCEPT ![c] = accesses]
  /\ status' = [status EXCEPT ![c] = "waiting"]

\* Calls that are answered without running their tool.
Decline(calls) ==
  /\ \A c \in calls : status[c] \in {"unknown", "waiting"}
  /\ status' = [c \in Call |-> IF c \in calls THEN "declined" ELSE status[c]]
  /\ UNCHANGED declared

\* Calls enter their tools together.
Start(calls) ==
  /\ \A c \in calls :
       /\ status[c] = "waiting"
       /\ \A d \in Call \ {c} :
            Conflict(declared[c], declared[d]) =>
              /\ d < c => status[d] \in Over
              /\ status[d] # "running" /\ d \notin calls
  /\ status' = [c \in Call |-> IF c \in calls THEN "running" ELSE status[c]]
  /\ UNCHANGED declared

End(c) ==
  /\ status[c] = "running"
  /\ status' = [status EXCEPT ![c] = "ended"]
  /\ UNCHANGED declared

Next ==
  \/ \E c \in Call : End(c) \/ \E accesses \in AccessSets : Declare(c, accesses)
  \/ \E calls \in SUBSET Call : Decline(calls) \/ Start(calls)

Spec == Init /\ [][Next]_<<declared, status>>
=============================================================================
