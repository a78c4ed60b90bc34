--------------------------- MODULE ToolBatch_proofs ---------------------------
(***************************************************************************)
(* Proofs about ToolBatch, for any number of calls, any accesses and any   *)
(* keys: the type invariant, the order of conflicting calls, their mutual  *)
(* exclusion, that a queued call is always held back by another one, the   *)
(* refinement of ToolOrder, that repeats are answered, that the transcript *)
(* pairs calls and results, and what a conflict of accesses means.         *)
(***************************************************************************)
EXTENDS ToolBatch, WellFoundedInduction, TLAPS

Preparing == {"prepare", "authorize", "dispatch", "add"}

\* The scheduler holds exactly the calls before the one being prepared, and
\* in every stage a prefix of the calls.
AddedInOrder ==
  /\ stage \in Preparing => \A c \in Call : place[c] # "none" <=> c < cursor
  /\ \A c, d \in Call : c < d /\ place[d] # "none" => place[c] # "none"

\* Only calls prepared to run declare accesses, and not before they are.
DeclaredWhenRun ==
  /\ \A c \in Call : access[c] # {} => fate[c] = "run"
  /\ stage \in Preparing => \A c \in Call : c > cursor => access[c] = {}
  /\ stage \in {"prepare", "authorize"} => access[cursor] = {}

\* What the scheduler's view of a call says of its tool.
PlaceAndTool ==
  \A c \in Call :
    /\ exec[c] # "no" => place[c] \in {"active", "finished"}
    /\ exec[c] = "running" /\ ~ aborted =>
         place[c] = "active" /\ result[c] = "none"
    /\ fate[c] = "run" /\ place[c] \in {"active", "finished"} /\ ~ aborted =>
         exec[c] # "no"

\* A task leaves the queue only when every earlier conflicting one is over.
StartedInOrder ==
  \A c, d \in Call :
    c < d /\ Conflicts(c, d) /\ place[d] \in {"active", "finished"} =>
      place[c] = "finished"

\* A queued task waits for an active one or an earlier queued one.
HeldBack ==
  \A d \in Queued : \E c \in Active \cup {q \in Queued : q < d} : Conflicts(c, d)

RepeatHasKey == \A c \in Call : fate[c] = "duplicate" => key[c] \in Key

-----------------------------------------------------------------------------
\* Which of two declarations comes first makes no difference to Conflict.
LEMMA ConflictSymmetric ==
  ASSUME NEW S, NEW T
  PROVE  Conflict(S, T) <=> Conflict(T, S)
<1>1. ASSUME NEW a, NEW b
      PROVE  AccessConflict(a, b) <=> AccessConflict(b, a)
  <2>1. AccessesOverlap(a, b) <=> AccessesOverlap(b, a)
    BY DEF AccessesOverlap
  <2>2. OperationsConflict(a.operation, b.operation)
          <=> OperationsConflict(b.operation, a.operation)
    BY DEF OperationsConflict
  <2> QED BY <2>1, <2>2 DEF AccessConflict
<1> QED BY <1>1 DEF Conflict

\* What starting tasks does to the tools and results of calls.
LEMMA StartAllType ==
  ASSUME TypeOK, NEW started \in SUBSET Call, StartAll(started)
  PROVE  /\ exec' \in [Call -> {"no", "running", "ended"}]
         /\ result' \in [Call -> Result]
<1>1. exec' \in [Call -> {"no", "running", "ended"}]
  BY DEF TypeOK, StartAll
<1>2. \A f : SettledAs(f) \in Result
  BY DEF SettledAs, Result
<1>3. result' \in [Call -> Result]
  BY <1>2 DEF TypeOK, StartAll, Result
<1> QED BY <1>1, <1>3

LEMMA StartAllEffect ==
  ASSUME NEW started, StartAll(started), NEW c \in Call
  PROVE  /\ c \notin started => exec'[c] = exec[c] /\ result'[c] = result[c]
         /\ c \in started /\ EntersTool(c) =>
              exec'[c] = "running" /\ result'[c] = "none"
         /\ c \in started /\ ~ EntersTool(c) => exec'[c] = exec[c]
<1>1. /\ exec'[c] = IF c \in started /\ EntersTool(c) THEN "running" ELSE exec[c]
      /\ c \notin started => result'[c] = result[c]
  BY DEF StartAll
<1>2. c \in started /\ EntersTool(c) => result'[c] = "none"
  BY DEF StartAll
<1> QED BY <1>1, <1>2

LEMMA TypeInit == Init => TypeOK /\ RepeatHasKey
<1> SUFFICES ASSUME Init PROVE TypeOK /\ RepeatHasKey
  OBVIOUS
<1> USE BatchAssumption DEF Init, Call
<1>1. stage \in Stage /\ cursor \in 1 .. N + 1 /\ (stage # "done" => cursor <= N)
  BY DEF Stage
<1>2. log \in Seq([event : {"call", "result"}, id : Call])
  OBVIOUS
<1>3. TypeOK
  <2>1. /\ access \in [Call -> AccessSets \cup {{}}]
        /\ key \in [Call -> Key \cup {NoKey}]
        /\ fate \in [Call -> Fate]
        /\ place \in [Call -> Place]
    BY DEF Fate, Place
  <2>2. /\ exec \in [Call -> {"no", "running", "ended"}]
        /\ result \in [Call -> Result]
        /\ shown \in [Call -> Result]
    BY DEF Result
  <2>3. /\ original \in [Key -> 0 .. N]
        /\ deferred \in [Key -> Result]
    BY DEF Result
  <2>4. stopping \in BOOLEAN /\ aborted \in BOOLEAN
    BY Zenon
  <2> QED BY <1>1, <1>2, <2>1, <2>2, <2>3, <2>4 DEF TypeOK
<1>4. RepeatHasKey
  BY DEF RepeatHasKey
<1> QED BY <1>3, <1>4

LEMMA TypeStep == TypeOK /\ RepeatHasKey /\ [Next]_vars => TypeOK' /\ RepeatHasKey'
<1> SUFFICES ASSUME TypeOK, RepeatHasKey, [Next]_vars
             PROVE  TypeOK' /\ RepeatHasKey'
  OBVIOUS
<1> USE BatchAssumption
<1> DEFINE Here == cursor \in Call
<1>0. stage # "done" => Here
  BY DEF TypeOK, Call
<1>1. CASE Reject
  BY <1>0, <1>1 DEF Reject, Settle, TypeOK, RepeatHasKey, Fate, Stage, schedVars, dedupVars
<1>2. CASE Skip
  BY <1>0, <1>2 DEF Skip, Settle, TypeOK, RepeatHasKey, Fate, Stage, schedVars, dedupVars
<1>3. ASSUME NEW k \in Key, Deduplicate(k)
      PROVE  TypeOK' /\ RepeatHasKey'
  BY <1>0, <1>3 DEF Deduplicate, Settle, TypeOK, RepeatHasKey, Fate, Stage, schedVars
<1>4. ASSUME NEW k \in Key, Resolve(k)
      PROVE  TypeOK' /\ RepeatHasKey'
  <2>1. /\ stage' \in Stage /\ stage' # "done"
        /\ stopping' \in BOOLEAN
        /\ fate' \in [Call -> Fate]
    BY <1>0, <1>4 DEF Resolve, Settle, TypeOK, Fate, Stage
  <2>2. \A c \in Call : fate'[c] = "duplicate" => fate[c] = "duplicate"
    BY <1>0, <1>4 DEF Resolve, Settle, TypeOK
  <2>3. /\ original' \in [Key -> 0 .. N]
        /\ key' = [key EXCEPT ![cursor] = k]
    BY <1>0, <1>4 DEF Resolve, TypeOK, Call
  <2> QED BY <1>0, <1>4, <2>1, <2>2, <2>3 DEF Resolve, TypeOK, RepeatHasKey, schedVars
<1>5. CASE Authorize
  <2>1. /\ stage' = "dispatch"
        /\ stopping' \in BOOLEAN
        /\ fate' \in [Call -> Fate]
        /\ \A c \in Call : fate'[c] = "duplicate" => fate[c] = "duplicate"
    BY <1>0, <1>5 DEF Authorize, Settle, TypeOK, Fate
  <2>2. access' \in [Call -> AccessSets \cup {{}}]
    BY <1>0, <1>5 DEF Authorize, TypeOK
  <2> QED BY <1>0, <1>5, <2>1, <2>2 DEF Authorize, TypeOK, RepeatHasKey, Stage, schedVars, dedupVars
<1>6. CASE DispatchCall
  BY <1>0, <1>6 DEF DispatchCall, Recorded, TypeOK, RepeatHasKey, Stage, schedVars, dedupVars
<1>7. CASE Add
  <2>1. /\ exec' \in [Call -> {"no", "running", "ended"}]
        /\ result' \in [Call -> Result]
    BY <1>0, <1>7, StartAllType DEF Add
  <2>2. place' \in [Call -> Place]
    BY <1>0, <1>7 DEF Add, TypeOK, Place
  <2>3. stage' \in Stage /\ stage' # "done" /\ cursor' \in 1 .. N + 1 /\ cursor' <= N
    BY <1>0, <1>7 DEF Add, TypeOK, Stage, Call
  <2> QED BY <1>7, <2>1, <2>2, <2>3 DEF Add, TypeOK, RepeatHasKey, dedupVars
<1>8. CASE EmitResult
  <2>1. PICK final \in {Finalized(cursor), "hookfail"} :
          /\ shown' = [shown EXCEPT ![cursor] = final]
          /\ deferred' = Deferreds(cursor, final)
    BY <1>8 DEF EmitResult
  <2>2. Finalized(cursor) \in Result
    BY <1>0, <1>8 DEF EmitResult, Finalized, TypeOK, RepeatHasKey
  <2>3. shown' \in [Call -> Result]
    BY <2>1, <2>2 DEF TypeOK, Result
  <2>4. deferred' \in [Key -> Result]
    BY <1>0, <1>8, <2>1 DEF EmitResult, Deferreds, IsOriginal, TypeOK
  <2>5. /\ stage' \in Stage /\ cursor' \in 1 .. N + 1
        /\ stage' # "done" => cursor' <= N
    BY <1>0, <1>8 DEF EmitResult, LastResult, TypeOK, Stage, Call
  <2>6. log' \in Seq([event : {"call", "result"}, id : Call])
    BY <1>0, <1>8 DEF EmitResult, TypeOK
  <2> QED BY <1>8, <2>3, <2>4, <2>5, <2>6 DEF EmitResult, TypeOK, RepeatHasKey, schedVars
<1>9. CASE DispatchFails
  BY <1>0, <1>9 DEF DispatchFails, TypeOK, RepeatHasKey, Stage, schedVars, dedupVars
<1>10. CASE Rethrow
  BY <1>0, <1>10 DEF Rethrow, TypeOK, RepeatHasKey, Stage, schedVars, dedupVars
<1>11. CASE Abort
  BY <1>11 DEF Abort, TypeOK, RepeatHasKey, loopVars, schedVars, dedupVars
<1>12. ASSUME NEW c \in Call, ToolReturns(c)
       PROVE  TypeOK' /\ RepeatHasKey'
  BY <1>12 DEF ToolReturns, TypeOK, RepeatHasKey, Result, loopVars, dedupVars
<1>13. ASSUME NEW c \in Call, GraceTimeout(c)
       PROVE  TypeOK' /\ RepeatHasKey'
  BY <1>13 DEF GraceTimeout, TypeOK, RepeatHasKey, Result, loopVars, dedupVars
<1>14. ASSUME NEW c \in Call, Finish(c)
       PROVE  TypeOK' /\ RepeatHasKey'
  <2>1. Startable(Active \ {c}, Queued) \in SUBSET Call
    BY DEF Startable, Queued
  <2>2. /\ exec' \in [Call -> {"no", "running", "ended"}]
        /\ result' \in [Call -> Result]
    BY <1>14, <2>1, StartAllType DEF Finish
  <2>3. place' \in [Call -> Place]
    BY <1>14 DEF Finish, TypeOK, Place
  <2> QED BY <1>14, <2>2, <2>3 DEF Finish, TypeOK, RepeatHasKey, loopVars, dedupVars
<1>15. CASE UNCHANGED vars
  BY <1>15 DEF vars, TypeOK, RepeatHasKey
<1> QED
  BY <1>1, <1>2, <1>3, <1>4, <1>5, <1>6, <1>7, <1>8, <1>9, <1>10, <1>11, <1>12,
     <1>13, <1>14, <1>15 DEF Next, Loop, Prepare

\* Every variable keeps its type in every behaviour, the index of the loop
\* included (runToolCallBatch).
THEOREM TypeCorrect == Spec => []TypeOK
<1>1. Init => TypeOK /\ RepeatHasKey
  BY TypeInit
<1>2. TypeOK /\ RepeatHasKey /\ [Next]_vars => TypeOK' /\ RepeatHasKey'
  BY TypeStep
<1> QED BY <1>1, <1>2, PTL DEF Spec
-----------------------------------------------------------------------------
(* The invariant of the scheduler.                                         *)

ScheduleInv ==
  /\ AddedInOrder
  /\ DeclaredWhenRun
  /\ PlaceAndTool
  /\ StartedInOrder
  /\ ConflictOrder
  /\ HeldBack

\* A step of the preparing loop: it settles the current call, which the
\* scheduler has not seen, and no other.
Prepares ==
  /\ stage \in {"prepare", "authorize"} /\ stage' \in {"authorize", "dispatch"}
  /\ UNCHANGED <<cursor, place, exec, result, aborted>>
  /\ \A c \in Call \ {cursor} : fate'[c] = fate[c] /\ access'[c] = access[c]
  /\ access'[cursor] # {} => fate'[cursor] = "run" /\ stage' = "dispatch"

\* A step that leaves the scheduler alone.
Quiet ==
  /\ UNCHANGED <<access, fate, place, exec, result>>
  /\ aborted => aborted'
  /\ stage' \in Preparing =>
       /\ stage \in Preparing /\ cursor' = cursor
       /\ stage' = stage \/ stage' = "add"

LEMMA ConflictNeedsAccess ==
  ASSUME NEW c \in Call, NEW d \in Call, Conflicts(c, d)
  PROVE  access[c] # {} /\ access[d] # {}
BY DEF Conflicts, Conflict

LEMMA ScheduleInit == Init => ScheduleInv
<1> SUFFICES ASSUME Init PROVE ScheduleInv
  OBVIOUS
<1>1. AddedInOrder
  BY BatchAssumption DEF Init, AddedInOrder, Call, Preparing
<1>2. \A c \in Call : access[c] = {} /\ place[c] = "none" /\ exec[c] = "no"
  BY DEF Init
<1>3. DeclaredWhenRun
  BY <1>2, BatchAssumption DEF Init, DeclaredWhenRun, Call, Preparing
<1>4. PlaceAndTool /\ StartedInOrder /\ ConflictOrder /\ HeldBack
  BY <1>2 DEF PlaceAndTool, StartedInOrder, ConflictOrder, HeldBack, Queued
<1> QED BY <1>1, <1>3, <1>4 DEF ScheduleInv

LEMMA PreparesKeeps ==
  ASSUME TypeOK, ScheduleInv, Prepares PROVE ScheduleInv'
<1> USE DEF ScheduleInv
<1>1. cursor \in Call /\ cursor' = cursor
  BY DEF TypeOK, Prepares, Call
<1>2. \A c \in Call : place[c] # "none" <=> c < cursor
  BY DEF AddedInOrder, Prepares, Preparing
<1>3. place[cursor] = "none" /\ \A c \in Call : place[c] # "none" => c # cursor
  BY <1>1, <1>2 DEF Call
<1>4. \A c \in Call \ {cursor} : fate'[c] = fate[c] /\ access'[c] = access[c]
  BY DEF Prepares
<1>5. place' = place /\ exec' = exec /\ result' = result /\ aborted' = aborted
  BY DEF Prepares
<1>6. AddedInOrder'
  BY <1>1, <1>2, <1>5 DEF AddedInOrder
<1>7. DeclaredWhenRun'
  <2>1. \A c \in Call : access'[c] # {} => fate'[c] = "run"
    BY <1>1, <1>4 DEF DeclaredWhenRun, Prepares
  <2>2. \A c \in Call : c > cursor' => access'[c] = {}
    BY <1>1, <1>4 DEF DeclaredWhenRun, Prepares, Preparing, Call
  <2>3. stage' \in {"prepare", "authorize"} => access'[cursor'] = {}
    BY <1>1 DEF Prepares
  <2> QED BY <2>1, <2>2, <2>3 DEF DeclaredWhenRun
<1>8. PlaceAndTool'
  BY <1>3, <1>4, <1>5 DEF PlaceAndTool
<1>9. \A c, d \in Call : c # cursor /\ d # cursor =>
        (Conflicts(c, d)' <=> Conflicts(c, d))
  BY <1>4 DEF Conflicts
<1>10. StartedInOrder'
  BY <1>1, <1>2, <1>3, <1>5, <1>9 DEF StartedInOrder, Call
<1>11. ConflictOrder'
  <2> SUFFICES ASSUME NEW c \in Call, NEW d \in Call,
                      c < d, Conflicts(c, d)', exec[d] # "no"
               PROVE  exec[c] = "ended"
    BY <1>5 DEF ConflictOrder
  <2>1. place[d] # "none"
    BY DEF PlaceAndTool
  <2>2. c # cursor /\ d # cursor
    BY <1>1, <1>2, <2>1 DEF Call
  <2> QED BY <1>9, <2>2 DEF ConflictOrder
<1>12. HeldBack'
  <2> SUFFICES ASSUME NEW d \in Call, place[d] = "queued"
               PROVE  \E c \in Call : /\ Conflicts(c, d)'
                                      /\ \/ place[c] = "active"
                                         \/ place[c] = "queued" /\ c < d
    BY <1>5 DEF HeldBack, Queued, Active
  <2>1. PICK c \in Call : /\ Conflicts(c, d)
                          /\ \/ place[c] = "active"
                             \/ place[c] = "queued" /\ c < d
    BY DEF HeldBack, Queued, Active
  <2> QED BY <1>3, <1>9, <2>1
<1> QED BY <1>6, <1>7, <1>8, <1>10, <1>11, <1>12

LEMMA QuietKeeps ==
  ASSUME TypeOK, ScheduleInv, Quiet PROVE ScheduleInv'
<1> USE DEF ScheduleInv, Quiet
<1>1. AddedInOrder'
  BY DEF AddedInOrder
<1>2. DeclaredWhenRun'
  BY DEF DeclaredWhenRun, Preparing
<1>3. PlaceAndTool'
  BY DEF PlaceAndTool
<1>4. \A c, d \in Call : Conflicts(c, d)' <=> Conflicts(c, d)
  BY DEF Conflicts
<1>5. StartedInOrder' /\ ConflictOrder'
  BY <1>4 DEF StartedInOrder, ConflictOrder
<1>6. HeldBack'
  BY <1>4 DEF HeldBack, Queued, Active
<1> QED BY <1>1, <1>2, <1>3, <1>5, <1>6

LEMMA SettlesKeeps ==
  ASSUME TypeOK, ScheduleInv, NEW c \in Call, ToolReturns(c) \/ GraceTimeout(c)
  PROVE  ScheduleInv'
<1> USE DEF ScheduleInv
<1>1. UNCHANGED <<place, aborted, access, fate, stage, cursor>>
  BY DEF ToolReturns, GraceTimeout, loopVars
<1>2. /\ \A d \in Call : d # c => exec'[d] = exec[d] /\ result'[d] = result[d]
      /\ exec[c] = "running"
      /\ exec'[c] = "ended" \/ (exec'[c] = "running" /\ aborted)
  BY DEF ToolReturns, GraceTimeout, GraceArmed, TypeOK
<1>3. AddedInOrder' /\ DeclaredWhenRun'
  BY <1>1 DEF AddedInOrder, DeclaredWhenRun
<1>4. PlaceAndTool'
  BY <1>1, <1>2 DEF PlaceAndTool
<1>5. \A d, e \in Call : Conflicts(d, e)' <=> Conflicts(d, e)
  BY <1>1 DEF Conflicts
<1>6. StartedInOrder'
  BY <1>1, <1>5 DEF StartedInOrder
<1>7. ConflictOrder'
  <2> SUFFICES ASSUME NEW d \in Call, NEW e \in Call,
                      d < e, Conflicts(d, e), exec'[e] # "no"
               PROVE  exec'[d] = "ended"
    BY <1>5 DEF ConflictOrder
  <2>1. exec[e] # "no"
    BY <1>2
  <2>2. exec[d] = "ended"
    BY <2>1 DEF ConflictOrder
  <2> QED BY <1>2, <2>2
<1>8. HeldBack'
  BY <1>1, <1>5 DEF HeldBack, Queued, Active
<1> QED BY <1>3, <1>4, <1>6, <1>7, <1>8

\* A tool is over once its task has left activeTasks, unless the signal is
\* aborted: what lets the next conflicting tool in.
LEMMA OverWhenFinished ==
  ASSUME TypeOK, ScheduleInv, ~ aborted,
         NEW c \in Call, place[c] = "finished", access[c] # {}
  PROVE  exec[c] = "ended"
<1>1. fate[c] = "run"
  BY DEF ScheduleInv, DeclaredWhenRun
<1>2. exec[c] # "no" /\ exec[c] # "running"
  BY <1>1 DEF ScheduleInv, PlaceAndTool
<1> QED BY <1>2 DEF TypeOK

LEMMA AddKeeps ==
  ASSUME TypeOK, ScheduleInv, Add PROVE ScheduleInv'
<1> USE DEF ScheduleInv
<1> DEFINE blocked == IsBlocked(cursor, Active, Queued)
           started == IF blocked THEN {} ELSE {cursor}
<1>1. /\ cursor \in Call
      /\ \A c \in Call : place[c] # "none" <=> c < cursor
  BY DEF TypeOK, Call, Add, AddedInOrder, Preparing
<1>2. place[cursor] = "none" /\ exec[cursor] = "no"
  BY <1>1 DEF PlaceAndTool, Call, TypeOK
<1>3. /\ \A c \in Call \ {cursor} : place'[c] = place[c]
      /\ place'[cursor] = IF blocked THEN "queued" ELSE "active"
      /\ StartAll(started)
      /\ UNCHANGED <<fate, access, aborted>>
  BY <1>1 DEF Add, TypeOK
<1>4. /\ \A c \in Call \ {cursor} : exec'[c] = exec[c] /\ result'[c] = result[c]
      /\ blocked => exec'[cursor] = "no"
      /\ ~ blocked /\ ~ EntersTool(cursor) => exec'[cursor] = "no"
      /\ ~ blocked /\ EntersTool(cursor) =>
           exec'[cursor] = "running" /\ result'[cursor] = "none"
  <2>1. ~ blocked => cursor \in started
    OBVIOUS
  <2>2. blocked => cursor \notin started
    OBVIOUS
  <2>3. \A c \in Call \ {cursor} : c \notin started
    OBVIOUS
  <2> HIDE DEF blocked, started
  <2> QED BY <1>1, <1>2, <1>3, <2>1, <2>2, <2>3, StartAllEffect
<1>5. AddedInOrder'
  <2>1. \A c \in Call : place'[c] # "none" <=> c <= cursor
    BY <1>1, <1>3 DEF Call
  <2>2. stage' \in Preparing => cursor' = cursor + 1
    BY DEF Add, Preparing
  <2> QED BY <1>1, <2>1, <2>2 DEF AddedInOrder, Call
<1>6. DeclaredWhenRun'
  <2>1. \A c \in Call : c > cursor => access[c] = {}
    BY DEF Add, DeclaredWhenRun, Preparing
  <2>2. stage' \in Preparing => cursor' = cursor + 1 /\ cursor # N
    BY DEF Add, Preparing
  <2>3. stage' \in {"prepare", "authorize"} => access[cursor'] = {}
    BY <1>1, <2>1, <2>2, BatchAssumption DEF Call, Preparing
  <2>4. stage' \in Preparing => \A c \in Call : c > cursor' => access[c] = {}
    BY <1>1, <2>1, <2>2 DEF Call
  <2>5. \A c \in Call : access[c] # {} => fate[c] = "run"
    BY DEF DeclaredWhenRun
  <2> QED BY <1>3, <2>3, <2>4, <2>5 DEF DeclaredWhenRun
<1>7. PlaceAndTool'
  BY <1>2, <1>3, <1>4 DEF PlaceAndTool, EntersTool
<1>8. \A c, d \in Call : Conflicts(c, d)' <=> Conflicts(c, d)
  BY <1>3 DEF Conflicts
<1>9. ~ blocked => \A c \in Call : c < cursor /\ Conflicts(c, cursor) =>
                      place[c] = "finished"
  <2> SUFFICES ASSUME ~ blocked, NEW c \in Call, c < cursor, Conflicts(c, cursor)
               PROVE  place[c] = "finished"
    OBVIOUS
  <2>1. Conflicts(cursor, c)
    BY ConflictSymmetric DEF Conflicts
  <2>2. c \notin Active /\ c \notin Queued
    BY <2>1 DEF IsBlocked
  <2> QED BY <1>1, <2>2 DEF Active, Queued, TypeOK, Place
<1>10. StartedInOrder'
  <2> SUFFICES ASSUME NEW c \in Call, NEW d \in Call, c < d, Conflicts(c, d),
                      place'[d] \in {"active", "finished"}
               PROVE  place'[c] = "finished"
    BY <1>8 DEF StartedInOrder
  <2>1. CASE d = cursor
    BY <1>1, <1>3, <1>9, <2>1 DEF Call
  <2>2. CASE d # cursor
    BY <1>1, <1>2, <1>3, <2>2 DEF StartedInOrder
  <2> QED BY <2>1, <2>2
<1>11. ConflictOrder'
  <2> SUFFICES ASSUME NEW c \in Call, NEW d \in Call, c < d, Conflicts(c, d),
                      exec'[d] # "no"
               PROVE  exec'[c] = "ended"
    BY <1>8 DEF ConflictOrder
  <2>1. CASE d = cursor
    <3>1. ~ blocked /\ EntersTool(cursor)
      BY <1>4, <2>1
    <3>2. place[c] = "finished" /\ access[c] # {} /\ ~ aborted
      BY <1>9, <2>1, <3>1, ConflictNeedsAccess DEF EntersTool
    <3>3. exec[c] = "ended"
      BY <3>2, OverWhenFinished
    <3> QED BY <1>4, <2>1, <3>3 DEF Call
  <2>2. CASE d # cursor
    <3>1. exec[d] # "no"
      BY <1>4, <2>2
    <3>2. exec[c] = "ended"
      BY <3>1 DEF ConflictOrder
    <3> QED BY <1>2, <1>4, <3>2
  <2> QED BY <2>1, <2>2
<1>12. HeldBack'
  <2> SUFFICES ASSUME NEW d \in Call, place'[d] = "queued"
               PROVE  \E c \in Call : /\ Conflicts(c, d)
                                      /\ \/ place'[c] = "active"
                                         \/ place'[c] = "queued" /\ c < d
    BY <1>8 DEF HeldBack, Queued, Active
  <2>1. CASE d = cursor
    <3>1. PICK c \in Active \cup Queued : Conflicts(d, c)
      BY <1>3, <2>1 DEF IsBlocked
    <3>2. c \in Call /\ place[c] \in {"active", "queued"} /\ Conflicts(c, d)
      BY <3>1, ConflictSymmetric DEF Active, Queued, Conflicts
    <3> QED BY <1>1, <1>3, <2>1, <3>2
  <2>2. CASE d # cursor
    <3>1. d \in Queued
      BY <1>3, <2>2 DEF Queued
    <3>2. PICK c \in Call : /\ Conflicts(c, d)
                            /\ \/ place[c] = "active"
                               \/ place[c] = "queued" /\ c < d
      BY <3>1 DEF HeldBack, Queued, Active
    <3> QED BY <1>2, <1>3, <3>2
  <2> QED BY <2>1, <2>2
<1> QED BY <1>5, <1>6, <1>7, <1>10, <1>11, <1>12

LEMMA FinishKeeps ==
  ASSUME TypeOK, ScheduleInv, NEW f \in Call, Finish(f) PROVE ScheduleInv'
<1> USE DEF ScheduleInv
<1> DEFINE started == Startable(Active \ {f}, Queued)
<1>1. /\ place[f] = "active" /\ result[f] # "none"
      /\ StartAll(started)
      /\ UNCHANGED <<fate, access, aborted, stage, cursor>>
  BY DEF Finish, loopVars
<1>2. started \in SUBSET Queued /\ f \notin Queued
  BY <1>1 DEF Startable, Queued
<1>3. /\ place'[f] = "finished"
      /\ \A c \in started : place'[c] = "active"
      /\ \A c \in Call : c # f /\ c \notin started => place'[c] = place[c]
  BY <1>2 DEF Finish, Queued
<1>4. \A c \in Call :
        /\ c \notin started => exec'[c] = exec[c] /\ result'[c] = result[c]
        /\ c \in started /\ EntersTool(c) =>
             exec'[c] = "running" /\ result'[c] = "none"
        /\ c \in started /\ ~ EntersTool(c) => exec'[c] = exec[c]
  BY <1>1, StartAllEffect
<1>5. \A c \in Queued : exec[c] = "no"
  BY DEF Queued, PlaceAndTool
<1>6. AddedInOrder' /\ DeclaredWhenRun'
  <2>1. \A c \in Call : place'[c] # "none" <=> place[c] # "none"
    BY <1>1, <1>2, <1>3 DEF Queued
  <2> QED BY <1>1, <2>1 DEF AddedInOrder, DeclaredWhenRun
<1>7. PlaceAndTool'
  <2> SUFFICES ASSUME NEW c \in Call
               PROVE  /\ exec'[c] # "no" => place'[c] \in {"active", "finished"}
                      /\ exec'[c] = "running" /\ ~ aborted =>
                           place'[c] = "active" /\ result'[c] = "none"
                      /\ fate[c] = "run" /\ place'[c] \in {"active", "finished"}
                           /\ ~ aborted => exec'[c] # "no"
    BY <1>1 DEF PlaceAndTool
  <2>1. CASE c = f
    BY <1>1, <1>2, <1>3, <1>4, <2>1 DEF PlaceAndTool
  <2>2. CASE c \in started
    BY <1>2, <1>3, <1>4, <1>5, <2>2 DEF EntersTool
  <2>3. CASE c # f /\ c \notin started
    BY <1>3, <1>4, <2>3 DEF PlaceAndTool
  <2> QED BY <2>1, <2>2, <2>3
<1>8. \A c, d \in Call : Conflicts(c, d)' <=> Conflicts(c, d)
  BY <1>1 DEF Conflicts
<1>9. \A d \in started : \A c \in Call :
        c < d /\ Conflicts(c, d) /\ c # f => place[c] = "finished"
  <2> SUFFICES ASSUME NEW d \in started, NEW c \in Call,
                      c < d, Conflicts(c, d), c # f
               PROVE  place[c] = "finished"
    OBVIOUS
  <2>1. Conflicts(d, c)
    BY ConflictSymmetric DEF Conflicts
  <2>2. c \notin Active \ {f} /\ c \notin Queued
    BY <2>1 DEF Startable, IsBlocked
  <2>3. place[d] # "none" /\ d \in Call
    BY <1>2 DEF Queued
  <2> QED BY <2>2, <2>3 DEF AddedInOrder, Active, Queued, TypeOK, Place
<1>10. StartedInOrder'
  <2> SUFFICES ASSUME NEW c \in Call, NEW d \in Call, c < d, Conflicts(c, d),
                      place'[d] \in {"active", "finished"}
               PROVE  place'[c] = "finished"
    BY <1>8 DEF StartedInOrder
  <2>1. CASE d \in started
    BY <1>2, <1>3, <1>9, <2>1 DEF Queued
  <2>2. CASE d \notin started
    <3>1. place[d] \in {"active", "finished"}
      BY <1>1, <1>3, <2>2
    <3>2. place[c] = "finished"
      BY <3>1 DEF StartedInOrder
    <3> QED BY <1>2, <1>3, <3>2 DEF Queued
  <2> QED BY <2>1, <2>2
<1>11. ConflictOrder'
  <2> SUFFICES ASSUME NEW c \in Call, NEW d \in Call, c < d, Conflicts(c, d),
                      exec'[d] # "no"
               PROVE  exec'[c] = "ended"
    BY <1>8 DEF ConflictOrder
  <2>1. CASE d \in started
    <3>1. EntersTool(d) /\ ~ aborted
      BY <1>2, <1>4, <1>5, <2>1 DEF EntersTool
    <3>2. access[c] # {}
      BY ConflictNeedsAccess
    <3>3. exec[c] = "ended"
      <4>1. CASE c = f
        <5>1. fate[c] = "run"
          BY <3>2 DEF DeclaredWhenRun
        <5>2. exec[c] # "no" /\ exec[c] # "running"
          BY <1>1, <3>1, <4>1, <5>1 DEF PlaceAndTool
        <5> QED BY <5>2 DEF TypeOK
      <4>2. CASE c # f
        BY <1>9, <2>1, <3>1, <3>2, <4>2, OverWhenFinished
      <4> QED BY <4>1, <4>2
    <3> QED BY <1>2, <1>4, <1>5, <3>3
  <2>2. CASE d \notin started
    <3>1. exec[d] # "no"
      BY <1>4, <2>2
    <3>2. exec[c] = "ended"
      BY <3>1 DEF ConflictOrder
    <3> QED BY <1>2, <1>4, <1>5, <3>2
  <2> QED BY <2>1, <2>2
<1>12. HeldBack'
  <2> SUFFICES ASSUME NEW d \in Call, place'[d] = "queued"
               PROVE  \E c \in Call : /\ Conflicts(c, d)
                                      /\ \/ place'[c] = "active"
                                         \/ place'[c] = "queued" /\ c < d
    BY <1>8 DEF HeldBack, Queued, Active
  <2>1. d \in Queued /\ d \notin started
    BY <1>3 DEF Queued
  <2>2. PICK c \in (Active \ {f}) \cup {q \in Queued : q < d} : Conflicts(d, c)
    BY <2>1 DEF Startable, IsBlocked
  <2>3. c \in Call /\ Conflicts(c, d) /\ c # f
    BY <1>2, <2>2, ConflictSymmetric DEF Conflicts, Active, Queued
  <2> QED BY <1>2, <1>3, <2>2, <2>3 DEF Active, Queued
<1> QED BY <1>6, <1>7, <1>10, <1>11, <1>12
-----------------------------------------------------------------------------
\* The inductive invariant.
IInv == TypeOK /\ RepeatHasKey /\ ScheduleInv

LEMMA IInvStep == IInv /\ [Next]_vars => IInv'
<1> SUFFICES ASSUME IInv, [Next]_vars PROVE ScheduleInv'
  BY TypeStep DEF IInv
<1> USE DEF IInv
<1>1. ASSUME Prepares PROVE ScheduleInv'
  BY <1>1, PreparesKeeps
<1>2. ASSUME Quiet PROVE ScheduleInv'
  BY <1>2, QuietKeeps
<1>3. stage \in {"prepare", "authorize"} =>
        cursor \in Call /\ access[cursor] = {}
  BY DEF TypeOK, Call, ScheduleInv, DeclaredWhenRun
<1>4. CASE Reject
  BY <1>1, <1>3, <1>4 DEF Reject, Settle, Prepares, schedVars, TypeOK
<1>5. CASE Skip
  BY <1>1, <1>3, <1>5 DEF Skip, Settle, Prepares, schedVars, TypeOK
<1>6. ASSUME NEW k \in Key, Deduplicate(k) PROVE ScheduleInv'
  BY <1>1, <1>3, <1>6 DEF Deduplicate, Settle, Prepares, schedVars, TypeOK
<1>7. ASSUME NEW k \in Key, Resolve(k) PROVE ScheduleInv'
  <2>1. /\ stage = "prepare" /\ stage' \in {"authorize", "dispatch"}
        /\ \A c \in Call \ {cursor} : fate'[c] = fate[c]
    BY <1>3, <1>7 DEF Resolve, Settle, TypeOK
  <2> QED BY <1>1, <1>3, <1>7, <2>1 DEF Resolve, Prepares, schedVars
<1>8. CASE Authorize
  <2>1. /\ stage = "authorize" /\ stage' = "dispatch"
        /\ \A c \in Call \ {cursor} : fate'[c] = fate[c]
    BY <1>3, <1>8 DEF Authorize, Settle, TypeOK
  <2>2. /\ \A c \in Call \ {cursor} : access'[c] = access[c]
        /\ access' = access \/ fate'[cursor] = "run"
    BY <1>3, <1>8 DEF Authorize, Settle, TypeOK
  <2> QED BY <1>1, <1>3, <1>8, <2>1, <2>2 DEF Authorize, Prepares, schedVars
<1>9. CASE DispatchCall
  BY <1>2, <1>9 DEF DispatchCall, Quiet, Preparing, schedVars
<1>10. CASE EmitResult
  BY <1>2, <1>10 DEF EmitResult, Quiet, Preparing, schedVars
<1>11. CASE DispatchFails
  BY <1>2, <1>11 DEF DispatchFails, Quiet, Preparing, schedVars
<1>12. CASE Rethrow
  BY <1>2, <1>12 DEF Rethrow, Quiet, Preparing, schedVars
<1>13. CASE Abort
  BY <1>2, <1>13 DEF Abort, Quiet, loopVars, schedVars
<1>14. CASE Add
  BY <1>14, AddKeeps
<1>15. ASSUME NEW c \in Call, ToolReturns(c) \/ GraceTimeout(c) \/ Finish(c)
       PROVE  ScheduleInv'
  BY <1>15, SettlesKeeps, FinishKeeps
<1>16. CASE UNCHANGED vars
  BY <1>2, <1>16 DEF vars, Quiet
<1> QED
  BY <1>4, <1>5, <1>6, <1>7, <1>8, <1>9, <1>10, <1>11, <1>12, <1>13, <1>14,
     <1>15, <1>16 DEF Next, Loop, Prepare

\* The inductive invariant holds in every behaviour: the scheduler holds a
\* prefix of the calls and lets each conflicting call wait for the earlier ones.
THEOREM ScheduleCorrect == Spec => []IInv
<1>1. Init => IInv
  BY TypeInit, ScheduleInit DEF IInv
<1> QED BY <1>1, IInvStep, PTL DEF Spec

\* Conflicting calls take effect in provider order (ToolScheduler).
THEOREM Ordered == Spec => []ConflictOrder
<1>1. IInv => ConflictOrder
  BY DEF IInv, ScheduleInv
<1> QED BY <1>1, ScheduleCorrect, PTL

\* Conflicting tools never execute at the same time, not even past the grace
\* timeout (ToolScheduler, runRunnableToolCall).
THEOREM Exclusive == Spec => []NoConflictingExecutions
<1>1. IInv => NoConflictingExecutions
  <2> SUFFICES ASSUME IInv, NEW c \in Call, NEW d \in Call, c # d,
                      Running(c), Running(d), Conflicts(c, d)
               PROVE  FALSE
    BY DEF NoConflictingExecutions
  <2>1. Conflicts(d, c)
    BY ConflictSymmetric DEF Conflicts
  <2>2. c < d \/ d < c
    BY DEF Call
  <2> QED BY <2>1, <2>2 DEF IInv, ScheduleInv, ConflictOrder, Running
<1> QED BY <1>1, ScheduleCorrect, PTL

\* No tool is entered after the abort, whatever was queued (runRunnableToolCall).
THEOREM NoLateStart == Spec => NoStartAfterAbort
<1> DEFINE Late == aborted => \A c \in Call : exec[c] = "no" => exec'[c] = "no"
<1>1. IInv /\ [Next]_vars => Late
  <2> SUFFICES ASSUME IInv, [Next]_vars, aborted, NEW c \in Call, exec[c] = "no"
               PROVE  exec'[c] = "no"
    OBVIOUS
  <2>1. ASSUME NEW started, StartAll(started) PROVE exec'[c] = "no"
    BY <2>1 DEF StartAll, EntersTool
  <2>2. CASE Add
    BY <2>1, <2>2 DEF Add
  <2>3. ASSUME NEW d \in Call, Finish(d) PROVE exec'[c] = "no"
    BY <2>1, <2>3 DEF Finish
  <2>4. ASSUME NEW d \in Call, ToolReturns(d) \/ GraceTimeout(d)
        PROVE  exec'[c] = "no"
    BY <2>4 DEF ToolReturns, GraceTimeout, IInv, TypeOK
  <2>5. CASE UNCHANGED exec
    BY <2>5
  <2>6. Add \/ UNCHANGED exec \/ \E d \in Call : ToolReturns(d) \/ GraceTimeout(d) \/ Finish(d)
    <3>1. CASE Loop
      BY <3>1 DEF Loop, Prepare, Reject, Skip, Deduplicate, Resolve, DispatchCall,
                  EmitResult, DispatchFails, Rethrow, schedVars
    <3>2. CASE Authorize \/ Abort
      BY <3>2 DEF Authorize, Abort, schedVars
    <3>3. CASE UNCHANGED vars
      BY <3>3 DEF vars
    <3> QED BY <3>1, <3>2, <3>3 DEF Next
  <2> QED BY <2>2, <2>3, <2>4, <2>5, <2>6
<1>2. []IInv /\ [][Next]_vars => [][Late]_vars
  BY <1>1, PTL
<1> QED BY <1>2, ScheduleCorrect, PTL DEF Spec, NoStartAfterAbort

\* No task is lost in the queue: each waits for an active or earlier queued
\* one, so something is active, and its finish looks at the queue (finish).
THEOREM NeverLost == Spec => []NoLostWakeup
<1>1. IInv => NoLostWakeup
  <2> SUFFICES ASSUME IInv, Queued # {} PROVE Active # {}
    BY DEF IInv, ScheduleInv, HeldBack, NoLostWakeup
  <2>1. Queued \subseteq Nat
    BY DEF Queued, Call
  <2> DEFINE Less == {ss \in Nat \X Nat : ss[1] < ss[2]}
  <2>2. IsWellFoundedOn(Less, Nat)
    BY NatLessThanWellFounded DEF OpToRel
  <2> HIDE DEF Less
  <2>3. PICK first \in Queued : \A q \in Queued : <<q, first>> \notin Less
    BY <2>1, <2>2, WFMin
  <2>4. \A q \in Queued : ~ (q < first)
    BY <2>1, <2>3 DEF Less
  <2> QED BY <2>4 DEF IInv, ScheduleInv, HeldBack
<1> QED BY <1>1, ScheduleCorrect, PTL
-----------------------------------------------------------------------------
(* ToolBatch implements ToolOrder.                                         *)

\* A call that has no task or a queued one has no result; a task that runs no
\* tool has one from the start; calls are prepared in turn.
StatusInv ==
  /\ \A c \in Call : place[c] \in {"none", "queued"} => result[c] = "none"
  /\ \A c \in Call : place[c] # "none" /\ fate[c] # "run" => result[c] # "none"
  /\ stage \in Preparing => \A c \in Call : c > cursor => fate[c] = "none"
  /\ stage \in {"prepare", "authorize"} => fate[cursor] = "none"

RInv == IInv /\ StatusInv

LEMMA SettledAsSome == \A f : SettledAs(f) # "none"
BY DEF SettledAs

LEMMA QueuedRuns ==
  ASSUME TypeOK, ScheduleInv, NEW c \in Queued
  PROVE  c \in Call /\ fate[c] = "run" /\ exec[c] = "no"
<1>1. PICK d \in Call : Conflicts(d, c)
  BY DEF ScheduleInv, HeldBack, Active, Queued
<1>2. c \in Call /\ access[c] # {}
  BY <1>1, ConflictNeedsAccess DEF Queued
<1> QED BY <1>2 DEF ScheduleInv, DeclaredWhenRun, PlaceAndTool, Queued

LEMMA StatusInit == Init => StatusInv
BY BatchAssumption DEF Init, StatusInv, Call, Preparing

LEMMA StatusStep == RInv /\ [Next]_vars => StatusInv'
<1> SUFFICES ASSUME RInv, [Next]_vars PROVE StatusInv'
  OBVIOUS
<1> USE DEF RInv, IInv
<1>1. stage # "done" => cursor \in Call
  BY DEF TypeOK, Call
<1>2. ASSUME /\ stage \in {"prepare", "authorize"}
             /\ stage' \in {"authorize", "dispatch"}
             /\ UNCHANGED <<cursor, place, result>>
             /\ fate' \in [Call -> Fate]
             /\ \A c \in Call \ {cursor} : fate'[c] = fate[c]
             /\ stage' = "authorize" => fate' = fate
      PROVE  StatusInv'
  <2>1. place[cursor] = "none" /\ result[cursor] = "none" /\ cursor \in Call
    BY <1>1, <1>2 DEF ScheduleInv, AddedInOrder, Preparing, StatusInv, TypeOK, Call
  <2>2. \A c \in Call : c > cursor => c # cursor
    BY <2>1 DEF Call
  <2> QED BY <1>2, <2>1, <2>2 DEF StatusInv, Preparing
<1>3. ASSUME /\ UNCHANGED <<fate, place>>
             /\ \A c \in Call : result'[c] = result[c]
                  \/ (place[c] \in {"active", "finished"} /\ result'[c] # "none")
             /\ stage' \in Preparing =>
                  /\ stage \in Preparing /\ cursor' = cursor
                  /\ stage' = stage \/ stage' = "add"
      PROVE  StatusInv'
  BY <1>3 DEF StatusInv, Preparing
<1>4. CASE Reject
  BY <1>1, <1>2, <1>4 DEF Reject, Settle, schedVars, TypeOK, Fate
<1>5. CASE Skip
  BY <1>1, <1>2, <1>5 DEF Skip, Settle, schedVars, TypeOK, Fate
<1>6. ASSUME NEW k \in Key, Deduplicate(k) PROVE StatusInv'
  BY <1>1, <1>2, <1>6 DEF Deduplicate, Settle, schedVars, TypeOK, Fate
<1>7. ASSUME NEW k \in Key, Resolve(k) PROVE StatusInv'
  <2>1. /\ stage = "prepare" /\ stage' \in {"authorize", "dispatch"}
        /\ fate' \in [Call -> Fate]
        /\ \A c \in Call \ {cursor} : fate'[c] = fate[c]
        /\ stage' = "authorize" => fate' = fate
    BY <1>1, <1>7 DEF Resolve, Settle, TypeOK, Fate
  <2> QED BY <1>2, <1>7, <2>1 DEF Resolve, schedVars
<1>8. CASE Authorize
  <2>1. /\ stage = "authorize" /\ stage' = "dispatch"
        /\ fate' \in [Call -> Fate]
        /\ \A c \in Call \ {cursor} : fate'[c] = fate[c]
    BY <1>1, <1>8 DEF Authorize, Settle, TypeOK, Fate
  <2> QED BY <1>2, <1>8, <2>1 DEF Authorize, schedVars
<1>9. CASE DispatchCall
  BY <1>3, <1>9 DEF DispatchCall, Preparing, schedVars
<1>10. CASE EmitResult
  BY <1>3, <1>10 DEF EmitResult, Preparing, schedVars
<1>11. CASE DispatchFails
  BY <1>3, <1>11 DEF DispatchFails, Preparing, schedVars
<1>12. CASE Rethrow
  BY <1>3, <1>12 DEF Rethrow, Preparing, schedVars
<1>13. CASE Abort
  BY <1>3, <1>13 DEF Abort, loopVars, schedVars
<1>14. CASE Add
  <2> DEFINE blocked == IsBlocked(cursor, Active, Queued)
             started == IF blocked THEN {} ELSE {cursor}
  <2>1. cursor \in Call /\ place[cursor] = "none"
    BY <1>1, <1>14 DEF Add, ScheduleInv, AddedInOrder, Preparing, TypeOK, Call
  <2>2. /\ \A c \in Call \ {cursor} : place'[c] = place[c]
        /\ place'[cursor] = IF blocked THEN "queued" ELSE "active"
        /\ StartAll(started)
        /\ fate' = fate
    BY <1>14, <2>1 DEF Add, TypeOK
  <2>3. fate[cursor] # "run" => ~ blocked
    BY <2>1 DEF IsBlocked, ScheduleInv, DeclaredWhenRun, Conflicts, Conflict
  <2>4. \A c \in Call : result'[c] = IF c \notin started THEN result[c]
                          ELSE IF EntersTool(c) THEN "none" ELSE SettledAs(fate[c])
    BY <2>2 DEF StartAll
  <2>5. \A c \in Call \ {cursor} : result'[c] = result[c]
    BY <2>4
  <2>6. /\ blocked => result'[cursor] = "none"
        /\ fate[cursor] # "run" => result'[cursor] # "none"
    BY <2>1, <2>3, <2>4, SettledAsSome DEF StatusInv, EntersTool
  <2>7. stage' \in Preparing =>
          /\ cursor' = cursor + 1 /\ cursor # N
          /\ \A c \in Call : c >= cursor + 1 => fate[c] = "none"
    BY <1>14, <2>1 DEF Add, StatusInv, Preparing, Call
  <2>8. stage' \in Preparing => cursor + 1 \in Call
    BY <2>1, <2>7, BatchAssumption DEF Call
  <2>9. /\ stage' \in Preparing => \A c \in Call : c > cursor' => fate'[c] = "none"
        /\ stage' \in {"prepare", "authorize"} => fate'[cursor'] = "none"
    BY <2>1, <2>2, <2>7, <2>8 DEF Preparing, Call
  <2>10. \A c \in Call : place'[c] \in {"none", "queued"} => result'[c] = "none"
    BY <2>1, <2>2, <2>5, <2>6 DEF StatusInv
  <2>11. \A c \in Call : place'[c] # "none" /\ fate[c] # "run" => result'[c] # "none"
    BY <2>1, <2>2, <2>5, <2>6 DEF StatusInv
  <2> QED BY <2>2, <2>9, <2>10, <2>11 DEF StatusInv
<1>15. ASSUME NEW c \in Call, ToolReturns(c) PROVE StatusInv'
  BY <1>3, <1>15 DEF ToolReturns, loopVars, ScheduleInv, PlaceAndTool, TypeOK
<1>16. ASSUME NEW c \in Call, GraceTimeout(c) PROVE StatusInv'
  BY <1>3, <1>16 DEF GraceTimeout, GraceArmed, loopVars, ScheduleInv, PlaceAndTool, TypeOK
<1>17. ASSUME NEW f \in Call, Finish(f) PROVE StatusInv'
  <2> DEFINE started == Startable(Active \ {f}, Queued)
  <2>1. /\ place[f] = "active" /\ result[f] # "none"
        /\ StartAll(started)
        /\ UNCHANGED <<fate, stage, cursor>>
    BY <1>17 DEF Finish, loopVars
  <2>2. started \in SUBSET Queued
    BY DEF Startable
  <2>3. \A c \in Call :
          place'[c] = IF c = f THEN "finished"
                      ELSE IF c \in started THEN "active" ELSE place[c]
    BY <1>17 DEF Finish
  <2>4. \A c \in Call : c \notin started => result'[c] = result[c]
    BY <2>1, StartAllEffect
  <2>5. \A c \in started : fate[c] = "run"
    BY <2>2, QueuedRuns
  <2> QED BY <2>1, <2>3, <2>4, <2>5 DEF StatusInv, Preparing
<1>18. CASE UNCHANGED vars
  BY <1>3, <1>18 DEF vars
<1> QED
  BY <1>4, <1>5, <1>6, <1>7, <1>8, <1>9, <1>10, <1>11, <1>12, <1>13, <1>14,
     <1>15, <1>16, <1>17, <1>18 DEF Next, Loop, Prepare

\* ToolOrder's Conflict, an instance with the same paths, is this one.
LEMMA SameConflict ==
  ASSUME NEW S, NEW T PROVE Order!Conflict(S, T) <=> Conflict(S, T)
<1>1. ASSUME NEW a, NEW b
      PROVE  Order!AccessConflict(a, b) <=> AccessConflict(a, b)
  <2>1. Order!AccessesOverlap(a, b) <=> AccessesOverlap(a, b)
    BY DEF Order!AccessesOverlap, AccessesOverlap, Order!NormalizePath,
           NormalizePath, Order!AtOrAbove, AtOrAbove
  <2>2. Order!OperationsConflict(a.operation, b.operation)
          <=> OperationsConflict(a.operation, b.operation)
    BY DEF Order!OperationsConflict, OperationsConflict,
           Order!OperationWrites, OperationWrites
  <2> QED BY <2>1, <2>2 DEF Order!AccessConflict, AccessConflict
<1> QED BY <1>1 DEF Order!Conflict, Conflict

\* The abstract state: what ToolOrder's status stands for.
Abstract == [c \in Call |-> Status(c)]

LEMMA Stutters ==
  ASSUME access' = access, \A c \in Call : Status(c)' = Status(c)
  PROVE  UNCHANGED <<access, [c \in Call |-> Status(c)]>>
OBVIOUS

\* Starting queued or new calls is ToolOrder's Start, or its Decline when no
\* tool is entered.
LEMMA StartRefines ==
  ASSUME RInv, NEW started \in SUBSET Call, StartAll(started),
         UNCHANGED <<access, fate>>,
         \A c \in started : exec[c] = "no" /\ result[c] = "none",
         \A c \in started : EntersTool(c) =>
           \A d \in Call \ {c} : Conflicts(c, d) =>
             d \notin started /\ (d < c => exec[d] = "ended")
               /\ exec[d] # "running",
         (\A c \in started : EntersTool(c)) \/ (\A c \in started : ~ EntersTool(c))
  PROVE  Order!Start(started) \/ Order!Decline(started)
<1> USE DEF Order!Call, Call
<1>1. \A c \in Call \ started : Status(c)' = Status(c)
  BY StartAllEffect DEF Status
<1>2. CASE \A c \in started : EntersTool(c)
  <2>1. \A c \in started : Status(c) = "waiting" /\ Status(c)' = "running"
    BY <1>2, StartAllEffect DEF Status, EntersTool
  <2>2. ASSUME NEW c \in started, NEW d \in Call \ {c},
               Order!Conflict(access[c], access[d])
        PROVE  /\ d < c => Status(d) = "ended"
               /\ Status(d) # "running" /\ d \notin started
    BY <1>2, <2>2, SameConflict DEF Conflicts, Status
  <2>3. Abstract' = [c \in Call |-> IF c \in started THEN "running" ELSE Abstract[c]]
    BY <1>1, <2>1 DEF Abstract
  <2> QED BY <2>1, <2>2, <2>3 DEF Order!Start, Order!Over, Abstract
<1>3. CASE \A c \in started : ~ EntersTool(c)
  <2>1. \A c \in started : exec'[c] = "no" /\ result'[c] # "none"
    BY <1>3, StartAllEffect, SettledAsSome DEF StartAll
  <2>2. \A c \in started : /\ Status(c) \in {"unknown", "waiting"}
                           /\ Status(c)' = "declined"
    BY <2>1 DEF Status
  <2>3. Abstract' = [c \in Call |-> IF c \in started THEN "declined" ELSE Abstract[c]]
    BY <1>1, <2>2 DEF Abstract
  <2> QED BY <2>2, <2>3 DEF Order!Decline, Abstract
<1> QED BY <1>2, <1>3

LEMMA StepRefines ==
  RInv /\ [Next]_vars => [Order!Next]_<<access, [c \in Call |-> Status(c)]>>
<1> SUFFICES ASSUME RInv, [Next]_vars
             PROVE  [Order!Next]_<<access, [c \in Call |-> Status(c)]>>
  OBVIOUS
<1> USE DEF RInv, IInv
<1>1. ASSUME access' = access, UNCHANGED <<exec, result>>,
             \A c \in Call : fate'[c] = "run" <=> fate[c] = "run"
      PROVE  UNCHANGED <<access, [c \in Call |-> Status(c)]>>
  BY <1>1, Stutters DEF Status
<1>2. stage # "done" => cursor \in Call
  BY DEF TypeOK, Call
<1>3. stage \in {"prepare", "authorize"} =>
        fate[cursor] = "none" /\ access[cursor] = {}
  BY DEF StatusInv, ScheduleInv, DeclaredWhenRun
<1>4. CASE Reject \/ Skip \/ \E k \in Key : Deduplicate(k) \/ Resolve(k)
  <2>1. /\ UNCHANGED <<access, exec, result>>
        /\ \E f \in Fate \ {"run"} : fate' \in {fate, [fate EXCEPT ![cursor] = f]}
        /\ stage = "prepare"
    BY <1>4 DEF Reject, Skip, Deduplicate, Resolve, Settle, schedVars, Fate
  <2>2. \A c \in Call : fate'[c] = "run" <=> fate[c] = "run"
    BY <1>2, <1>3, <2>1 DEF TypeOK
  <2> QED BY <1>1, <2>1, <2>2
<1>5. CASE Authorize
  <2>1. cursor \in Call /\ fate[cursor] = "none" /\ UNCHANGED <<cursor, exec, result>>
    BY <1>2, <1>3, <1>5 DEF Authorize, schedVars
  <2>2. CASE access' = access /\ fate'[cursor] # "run"
    <3>1. \A c \in Call : fate'[c] = "run" <=> fate[c] = "run"
      BY <1>5, <2>1, <2>2 DEF Authorize, Settle, TypeOK
    <3> QED BY <1>1, <2>1, <2>2, <3>1
  <2>3. ASSUME NEW new \in AccessSets, access' = [access EXCEPT ![cursor] = new],
               fate' = [fate EXCEPT ![cursor] = "run"]
        PROVE  Order!Declare(cursor, new)
    <3>1. place[cursor] = "none" /\ \A d \in Call : d < cursor => place[d] # "none"
      BY <1>5, <2>1 DEF Authorize, ScheduleInv, AddedInOrder, Preparing, Call
    <3>2. exec[cursor] = "no" /\ result[cursor] = "none"
      BY <2>1, <3>1 DEF ScheduleInv, PlaceAndTool, StatusInv, TypeOK
    <3>3. Status(cursor) = "unknown" /\ Status(cursor)' = "waiting"
      BY <2>1, <2>3, <3>2 DEF Status, TypeOK
    <3>4. \A d \in Call : d < cursor => Status(d) # "unknown"
      BY <3>1 DEF Status, StatusInv, ScheduleInv, PlaceAndTool, TypeOK
    <3>5. \A d \in Call \ {cursor} : Status(d)' = Status(d)
      BY <2>1, <2>3 DEF Status, TypeOK
    <3>6. Abstract' = [Abstract EXCEPT ![cursor] = "waiting"]
      BY <2>1, <3>3, <3>5 DEF Abstract
    <3> QED BY <2>1, <2>3, <3>3, <3>4, <3>6 DEF Order!Declare, Abstract, Order!Call, Call
  <2>4. \/ access' = access /\ fate'[cursor] # "run"
        \/ \E new \in AccessSets : /\ access' = [access EXCEPT ![cursor] = new]
                                   /\ fate' = [fate EXCEPT ![cursor] = "run"]
    BY <1>5, <2>1 DEF Authorize, Settle, TypeOK
  <2> QED BY <2>1, <2>2, <2>3, <2>4 DEF Order!Next, Order!Call, Call
<1>6. CASE DispatchCall \/ EmitResult \/ DispatchFails \/ Rethrow \/ Abort
  BY <1>1, <1>6 DEF DispatchCall, EmitResult, DispatchFails, Rethrow, Abort,
                    loopVars, schedVars
<1>7. CASE Add
  <2> DEFINE blocked == IsBlocked(cursor, Active, Queued)
             started == IF blocked THEN {} ELSE {cursor}
  <2>1. /\ cursor \in Call /\ place[cursor] = "none"
        /\ \A d \in Call : place[d] # "none" <=> d < cursor
    BY <1>2, <1>7 DEF Add, ScheduleInv, AddedInOrder, Preparing, TypeOK, Call
  <2>2. StartAll(started) /\ UNCHANGED <<access, fate>>
    BY <1>7 DEF Add
  <2>3. exec[cursor] = "no" /\ result[cursor] = "none"
    BY <2>1 DEF ScheduleInv, PlaceAndTool, StatusInv, TypeOK
  <2>4. CASE blocked
    <3>1. \A c \in Call : exec'[c] = exec[c] /\ result'[c] = result[c]
      BY <2>2, <2>4, StartAllEffect
    <3> QED BY <2>2, <3>1, Stutters DEF Status
  <2>5. CASE ~ blocked
    <3>1. ASSUME EntersTool(cursor), NEW d \in Call \ {cursor}, Conflicts(cursor, d)
          PROVE  (d < cursor => exec[d] = "ended") /\ exec[d] # "running"
      <4>1. d \notin Active /\ d \notin Queued
        BY <2>5, <3>1 DEF IsBlocked
      <4>2. CASE d < cursor
        <5>1. place[d] = "finished"
          BY <2>1, <4>1, <4>2 DEF Active, Queued, TypeOK, Place
        <5>2. access[d] # {}
          BY <2>1, <3>1, ConflictNeedsAccess
        <5> QED BY <3>1, <5>1, <5>2, OverWhenFinished DEF EntersTool
      <4>3. CASE ~ (d < cursor)
        BY <2>1, <4>3 DEF ScheduleInv, PlaceAndTool
      <4> QED BY <4>2, <4>3
    <3>2. started = {cursor} /\ started \in SUBSET Call
      BY <2>1, <2>5
    <3>3. Order!Start(started) \/ Order!Decline(started)
      <4> HIDE DEF started
      <4> QED BY <2>2, <2>3, <3>1, <3>2, StartRefines
    <3> QED BY <3>2, <3>3 DEF Order!Next, Order!Call, Call
  <2> QED BY <2>4, <2>5
<1>8. ASSUME NEW c \in Call, ToolReturns(c) PROVE Order!End(c)
  <2>1. /\ Status(c) = "running" /\ Status(c)' = "ended"
        /\ access' = access
        /\ \A d \in Call \ {c} : Status(d)' = Status(d)
    BY <1>8 DEF ToolReturns, Status, loopVars, TypeOK
  <2>2. Abstract' = [Abstract EXCEPT ![c] = "ended"]
    BY <2>1 DEF Abstract
  <2> QED BY <2>1, <2>2 DEF Order!End, Abstract
<1>9. ASSUME NEW c \in Call, GraceTimeout(c)
      PROVE  UNCHANGED <<access, [d \in Call |-> Status(d)]>>
  BY <1>9, Stutters DEF GraceTimeout, GraceArmed, Status, loopVars, TypeOK
<1>10. ASSUME NEW f \in Call, Finish(f)
       PROVE  \E calls \in SUBSET Call : Order!Start(calls) \/ Order!Decline(calls)
  <2> DEFINE started == Startable(Active \ {f}, Queued)
  <2>1. /\ place[f] = "active" /\ result[f] # "none"
        /\ StartAll(started) /\ UNCHANGED <<access, fate, aborted>>
    BY <1>10 DEF Finish, loopVars
  <2>2. started \in SUBSET Queued
    BY DEF Startable
  <2>3. \A c \in started : c \in Call /\ exec[c] = "no" /\ result[c] = "none"
                             /\ fate[c] = "run" /\ place[c] = "queued"
    BY <2>2, QueuedRuns DEF StatusInv, Queued
  <2>4. ASSUME NEW c \in started, ~ aborted, NEW d \in Call \ {c}, Conflicts(c, d)
        PROVE  d \notin started /\ (d < c => exec[d] = "ended") /\ exec[d] # "running"
    <3>1. d \notin Active \ {f} /\ ~ (d \in Queued /\ d < c)
      BY <2>4 DEF Startable, IsBlocked
    <3>2. Conflicts(d, c)
      BY <2>4, ConflictSymmetric DEF Conflicts
    <3>3. access[d] # {} /\ fate[d] = "run"
      BY <2>3, <3>2, ConflictNeedsAccess DEF ScheduleInv, DeclaredWhenRun
    <3>4. CASE d < c
      <4>1. place[d] \in {"active", "finished"} /\ (place[d] = "active" => d = f)
        BY <2>3, <3>1, <3>4 DEF ScheduleInv, AddedInOrder, Active, Queued, TypeOK, Place
      <4>2. exec[d] # "no" /\ exec[d] # "running"
        BY <2>1, <2>4, <3>3, <4>1 DEF ScheduleInv, PlaceAndTool
      <4>3. exec[d] = "ended" /\ d \notin started
        BY <2>2, <3>1, <3>4, <4>2 DEF TypeOK
      <4> QED BY <4>3
    <3>5. CASE ~ (d < c)
      <4>1. c < d
        BY <2>3, <3>5 DEF Call
      <4>2. exec[d] = "no"
        BY <2>3, <2>4, <4>1 DEF ScheduleInv, ConflictOrder
      <4>3. d \notin started
        BY <2>3, <2>4, <3>2, <4>1 DEF Startable, IsBlocked
      <4> QED BY <3>5, <4>2, <4>3
    <3> QED BY <3>4, <3>5
  <2>5. started \in SUBSET Call
    BY <2>3
  <2>6. \A c \in started : EntersTool(c) <=> ~ aborted
    BY <2>3 DEF EntersTool
  <2> HIDE DEF started
  <2>7. Order!Start(started) \/ Order!Decline(started)
    BY <2>1, <2>3, <2>4, <2>5, <2>6, StartRefines
  <2> QED BY <2>5, <2>7
<1>11. CASE UNCHANGED vars
  BY <1>1, <1>11 DEF vars
<1> QED
  BY <1>4, <1>5, <1>6, <1>7, <1>8, <1>9, <1>10, <1>11
     DEF Next, Loop, Prepare, Order!Next, Order!Call, Call

\* Every behaviour of the batch is one of the abstract promise: non-conflicting
\* calls may overlap, conflicting ones run one at a time in provider order.
THEOREM Implements == Spec => ImplementsOrder
<1>1. Init => RInv
  BY TypeInit, ScheduleInit, StatusInit DEF RInv, IInv
<1>2. RInv /\ [Next]_vars => RInv'
  BY IInvStep, StatusStep DEF RInv
<1>3. Init => Order!Init
  BY DEF Init, Order!Init, Status, Order!Call, Call
<1> QED BY <1>1, <1>2, <1>3, StepRefines, PTL DEF Spec, ImplementsOrder, Order!Spec
-----------------------------------------------------------------------------
(* The deduplicator.                                                       *)

\* A key belongs to the first call that was registered with it; only that one runs, and
\* its repeats come later.
KeysInv ==
  /\ \A k \in Key : original[k] # 0 => key[original[k]] = k
  /\ \A c \in Call : fate[c] = "run" => key[c] \in Key /\ original[key[c]] = c
  /\ \A c \in Call : fate[c] = "duplicate" =>
       key[c] \in Key /\ original[key[c]] # 0 /\ original[key[c]] < c
  /\ stage = "authorize" => key[cursor] \in Key /\ original[key[cursor]] = cursor
  /\ stage \in Preparing => \A k \in Key : original[k] <= cursor
  /\ stage = "prepare" => \A k \in Key : original[k] < cursor

\* Only a call that was prepared to run enters its tool.
OnlyRun == \A c \in Call : exec[c] # "no" => fate[c] = "run"

\* A deferred is resolved with the result of its original, when that is finalized, and its
\* repeats are shown nothing else.
DeferredInv ==
  /\ \A k \in Key : deferred[k] # "none" => original[k] # 0 /\ deferred[k] = result[original[k]]
  /\ \A c \in Call : fate[c] = "duplicate" /\ shown[c] # "none" =>
       shown[c] = "hookfail" \/ shown[c] = result[original[key[c]]]
  /\ stage \in Preparing => \A c \in Call : shown[c] = "none"
  /\ stage = "drain" =>
       \A k \in Key : original[k] # 0 /\ original[k] < cursor => deferred[k] # "none"

\* The inductive invariant of the deduplicator.
DedupInv == RInv /\ KeysInv /\ OnlyRun /\ DeferredInv

\* What a task has settled with stays: a start touches calls without a result only.
LEMMA SettledStays ==
  ASSUME RInv, Next, NEW c \in Call
  PROVE  result'[c] = result[c] \/ result[c] = "none"
<1> USE DEF RInv, IInv
<1>1. CASE Add
  <2>1. cursor \in Call /\ result[cursor] = "none"
    BY <1>1 DEF Add, ScheduleInv, AddedInOrder, StatusInv, Preparing, TypeOK, Call
  <2>2. PICK started \in SUBSET {cursor} : StartAll(started)
    BY <1>1 DEF Add
  <2>3. c \notin started => result'[c] = result[c]
    BY <2>2, StartAllEffect
  <2> QED BY <2>1, <2>2, <2>3
<1>2. ASSUME NEW d \in Call, Finish(d)
      PROVE  result'[c] = result[c] \/ result[c] = "none"
  <2>1. PICK started \in SUBSET Queued : StartAll(started)
    BY <1>2 DEF Finish, Startable
  <2>2. c \notin started => result'[c] = result[c]
    BY <2>1, StartAllEffect
  <2> QED BY <2>1, <2>2 DEF StatusInv, Queued
<1>3. ASSUME NEW d \in Call, ToolReturns(d) \/ GraceTimeout(d)
      PROVE  result'[c] = result[c] \/ result[c] = "none"
  BY <1>3 DEF ToolReturns, GraceTimeout, GraceArmed, TypeOK
<1>4. CASE UNCHANGED result
  BY <1>4
<1>5. \/ Add \/ UNCHANGED result
      \/ \E d \in Call : Finish(d) \/ ToolReturns(d) \/ GraceTimeout(d)
  <2>1. CASE Loop
    BY <2>1 DEF Loop, Prepare, Reject, Skip, Deduplicate, Resolve, DispatchCall,
                EmitResult, DispatchFails, Rethrow, schedVars
  <2>2. CASE Authorize \/ Abort
    BY <2>2 DEF Authorize, Abort, schedVars
  <2> QED BY <2>1, <2>2 DEF Next
<1> QED BY <1>1, <1>2, <1>3, <1>4, <1>5

\* A tool is entered by a start only.
LEMMA EnteredRuns ==
  ASSUME RInv, Next, OnlyRun
  PROVE  \A c \in Call : exec'[c] # "no" => fate[c] = "run"
<1> SUFFICES ASSUME NEW c \in Call, exec'[c] # "no", exec[c] = "no" PROVE fate[c] = "run"
  BY DEF OnlyRun
<1>1. ASSUME NEW started, StartAll(started) PROVE fate[c] = "run"
  BY <1>1 DEF StartAll, EntersTool
<1>2. CASE Add \/ \E d \in Call : Finish(d)
  BY <1>1, <1>2 DEF Add, Finish
<1>3. ASSUME NEW d \in Call, ToolReturns(d) \/ GraceTimeout(d) PROVE FALSE
  BY <1>3 DEF ToolReturns, GraceTimeout, GraceArmed, RInv, IInv, TypeOK
<1>4. \/ Add \/ UNCHANGED exec
      \/ \E d \in Call : Finish(d) \/ ToolReturns(d) \/ GraceTimeout(d)
  <2>1. CASE Loop
    BY <2>1 DEF Loop, Prepare, Reject, Skip, Deduplicate, Resolve, DispatchCall,
                EmitResult, DispatchFails, Rethrow, schedVars
  <2>2. CASE Authorize \/ Abort
    BY <2>2 DEF Authorize, Abort, schedVars
  <2> QED BY <2>1, <2>2 DEF Next
<1> QED BY <1>2, <1>3, <1>4

\* A step that leaves the deduplicator alone.
LEMMA DedupRests ==
  ASSUME DedupInv, UNCHANGED <<fate, key, original, deferred, shown>>,
         \A c \in Call : result'[c] = result[c] \/ result[c] = "none",
         stage' \in Preparing => stage \in Preparing /\ cursor <= cursor',
         stage' = "prepare" => (stage = "prepare" /\ cursor' = cursor) \/ cursor' = cursor + 1,
         stage' = "authorize" => stage = "authorize" /\ cursor' = cursor,
         stage' = "drain" => cursor' = 1 \/ (stage = "drain" /\ cursor' = cursor),
         cursor' \in Nat
  PROVE  KeysInv' /\ DeferredInv'
<1>0. TypeOK /\ KeysInv /\ DeferredInv
  BY DEF DedupInv, RInv, IInv
<1>1. \A k \in Key : original[k] \in 0 .. N /\ (original[k] # 0 => original[k] \in Call)
  BY <1>0 DEF TypeOK, Call
<1>2. cursor \in Nat
  BY <1>0, BatchAssumption DEF TypeOK
<1>3. KeysInv'
  <2>1. stage' \in Preparing => \A k \in Key : original[k] <= cursor'
    BY <1>0, <1>1, <1>2, BatchAssumption DEF KeysInv
  <2>2. stage' = "prepare" => \A k \in Key : original[k] < cursor'
    BY <1>0, <1>1, <1>2, BatchAssumption DEF KeysInv, Preparing
  <2> QED BY <1>0, <2>1, <2>2 DEF KeysInv
<1>4. DeferredInv'
  <2>1. \A k \in Key : deferred[k] # "none" => deferred[k] = result'[original[k]]
    BY <1>0, <1>1 DEF DeferredInv
  <2>2. ASSUME NEW c \in Call, fate[c] = "duplicate", shown[c] # "none"
        PROVE  shown[c] = "hookfail" \/ shown[c] = result'[original[key[c]]]
    BY <1>0, <1>1, <2>2 DEF DeferredInv, KeysInv
  <2>3. stage' = "drain" =>
          \A k \in Key : original[k] # 0 /\ original[k] < cursor' => deferred[k] # "none"
    BY <1>0, <1>1 DEF DeferredInv, Call
  <2> QED BY <1>0, <2>1, <2>2, <2>3 DEF DeferredInv
<1> QED BY <1>3, <1>4

\* A step that prepares the call at the cursor.
LEMMA DedupPrepares ==
  ASSUME DedupInv, stage \in {"prepare", "authorize"}, stage' \in {"authorize", "dispatch"},
         UNCHANGED <<cursor, result, shown, deferred>>,
         \A k \in Key : original[k] # 0 => original'[k] = original[k]
  PROVE  DeferredInv'
<1>0. TypeOK /\ KeysInv /\ DeferredInv /\ stage \in Preparing
  BY DEF DedupInv, RInv, IInv, Preparing
<1>1. \A c \in Call : shown'[c] = "none"
  BY <1>0 DEF DeferredInv
<1>2. \A k \in Key : deferred'[k] # "none" =>
        original'[k] # 0 /\ deferred'[k] = result'[original'[k]]
  BY <1>0 DEF DeferredInv
<1> QED BY <1>1, <1>2 DEF DeferredInv

\* A call whose result is dispatched: an original resolves its deferred, a repeat is shown
\* what its own was resolved with.
LEMMA DedupEmits ==
  ASSUME DedupInv, EmitResult
  PROVE  KeysInv' /\ DeferredInv'
<1>0. TypeOK /\ KeysInv /\ DeferredInv /\ stage = "drain" /\ cursor \in Call
  BY DEF DedupInv, RInv, IInv, EmitResult, TypeOK, Call
<1>1. UNCHANGED <<fate, key, original, result>> /\ cursor' = cursor + 1 /\ stage' \in {"drain", "done"}
  BY <1>0 DEF EmitResult, schedVars
<1>2. PICK final \in {Finalized(cursor), "hookfail"} :
        /\ shown' = [shown EXCEPT ![cursor] = final]
        /\ deferred' = Deferreds(cursor, final)
  BY DEF EmitResult
<1>3. KeysInv'
  BY <1>0, <1>1 DEF KeysInv, Preparing
<1>4. result[cursor] # "none" /\ Finalized(cursor) # "none"
  BY DEF EmitResult
<1>5. \A k \in Key :
        deferred'[k] = IF key[cursor] = k /\ original[k] = cursor THEN result[cursor] ELSE deferred[k]
  BY <1>0, <1>2, BatchAssumption DEF Deferreds, IsOriginal, TypeOK
<1>6. \A k \in Key : original[k] \in 0 .. N
  BY <1>0 DEF TypeOK
<1>7. \A k \in Key : deferred'[k] # "none" => original[k] # 0 /\ deferred'[k] = result[original[k]]
  BY <1>0, <1>5 DEF DeferredInv, Call
<1>8. ASSUME NEW c \in Call, fate[c] = "duplicate", shown'[c] # "none"
      PROVE  shown'[c] = "hookfail" \/ shown'[c] = result[original[key[c]]]
  <2>1. CASE c = cursor
    <3>1. key[c] \in Key /\ shown'[c] = final
      BY <1>0, <1>2, <1>8, <2>1 DEF KeysInv, TypeOK
    <3>2. Finalized(c) = deferred[key[c]] /\ deferred[key[c]] # "none"
      BY <1>4, <1>8, <2>1 DEF Finalized
    <3> QED BY <1>0, <2>1, <3>1, <3>2 DEF DeferredInv
  <2>2. CASE c # cursor
    BY <1>0, <1>2, <1>8, <2>2 DEF DeferredInv, TypeOK
  <2> QED BY <2>1, <2>2
<1>9. ASSUME NEW k \in Key, original[k] # 0, original[k] < cursor + 1
      PROVE  deferred'[k] # "none"
  <2>1. original[k] < cursor \/ original[k] = cursor
    BY <1>0, <1>6, <1>9, BatchAssumption DEF Call
  <2>2. CASE original[k] < cursor
    BY <1>0, <1>4, <1>5, <1>9, <2>2 DEF DeferredInv
  <2>3. CASE original[k] = cursor
    BY <1>0, <1>4, <1>5, <1>9, <2>3 DEF KeysInv
  <2> QED BY <2>1, <2>2, <2>3
<1>10. DeferredInv'
  BY <1>0, <1>1, <1>7, <1>8, <1>9 DEF DeferredInv, Preparing
<1> QED BY <1>3, <1>10

\* Every step keeps the deduplicator's invariant.
LEMMA DedupStep == DedupInv /\ [Next]_vars => DedupInv'
<1> SUFFICES ASSUME DedupInv, [Next]_vars PROVE DedupInv'
  OBVIOUS
<1>0. RInv /\ IInv /\ TypeOK /\ StatusInv /\ KeysInv /\ OnlyRun /\ DeferredInv
  BY DEF DedupInv, RInv, IInv
<1>1. RInv'
  BY <1>0, IInvStep, StatusStep DEF RInv
<1>2. stage # "done" => cursor \in Call
  BY <1>0 DEF TypeOK, Call
<1>3. cursor \in Nat /\ cursor' \in Nat
  BY <1>0, <1>1, BatchAssumption DEF RInv, IInv, TypeOK
<1>4. stage \in {"prepare", "authorize"} => fate[cursor] = "none"
  BY <1>0 DEF StatusInv
<1>5. \A k \in Key : original[k] \in 0 .. N
  BY <1>0 DEF TypeOK
<1>6. OnlyRun'
  <2>1. ASSUME Next, NEW c \in Call, fate[c] = "run" PROVE fate'[c] = "run"
    <3>1. CASE stage \in {"prepare", "authorize"} /\ \A d \in Call \ {cursor} : fate'[d] = fate[d]
      BY <1>4, <2>1, <3>1
    <3>2. CASE fate' = fate
      BY <2>1, <3>2
    <3>3. CASE Prepare \/ Authorize
      BY <1>0, <3>1, <3>2, <3>3 DEF Prepare, Reject, Skip, Deduplicate, Resolve, Authorize, Settle, TypeOK
    <3>4. CASE DispatchCall \/ Add \/ EmitResult \/ DispatchFails \/ Rethrow \/ Abort
      BY <3>2, <3>4 DEF DispatchCall, Add, EmitResult, DispatchFails, Rethrow, Abort, loopVars
    <3>5. CASE \E d \in Call : ToolReturns(d) \/ GraceTimeout(d) \/ Finish(d)
      BY <3>2, <3>5 DEF ToolReturns, GraceTimeout, Finish, loopVars
    <3> QED BY <2>1, <3>3, <3>4, <3>5 DEF Next, Loop
  <2>2. CASE Next
    BY <1>0, <2>1, <2>2, EnteredRuns DEF OnlyRun
  <2>3. CASE UNCHANGED vars
    BY <1>0, <2>3 DEF OnlyRun, vars
  <2> QED BY <2>2, <2>3
<1> SUFFICES KeysInv' /\ DeferredInv'
  BY <1>1, <1>6 DEF DedupInv
<1>7. ASSUME Prepare \/ Authorize, KeysInv',
             \A k \in Key : original[k] # 0 => original'[k] = original[k]
      PROVE  KeysInv' /\ DeferredInv'
  <2>1. /\ stage \in {"prepare", "authorize"} /\ stage' \in {"authorize", "dispatch"}
        /\ UNCHANGED <<cursor, result, shown, deferred>>
    BY <1>7 DEF Prepare, Reject, Skip, Deduplicate, Resolve, Authorize, Settle, schedVars, dedupVars
  <2> QED BY <1>7, <2>1, DedupPrepares
<1>8. CASE Reject \/ Skip
  <2>1. /\ stage = "prepare" /\ stage' = "dispatch" /\ UNCHANGED <<cursor, key, original>>
        /\ \A c \in Call \ {cursor} : fate'[c] = fate[c]
        /\ fate'[cursor] \in {"rejected", "skipped"}
    BY <1>0, <1>2, <1>8 DEF Reject, Skip, Settle, dedupVars, TypeOK
  <2>2. KeysInv'
    BY <1>0, <2>1 DEF KeysInv, Preparing
  <2> QED BY <1>7, <1>8, <2>1, <2>2 DEF Prepare
<1>9. ASSUME NEW k \in Key, Deduplicate(k) PROVE KeysInv' /\ DeferredInv'
  <2>1. /\ stage = "prepare" /\ stage' = "dispatch" /\ UNCHANGED <<cursor, original>>
        /\ cursor \in Call /\ original[k] # 0
        /\ \A c \in Call \ {cursor} : fate'[c] = fate[c] /\ key'[c] = key[c]
        /\ fate'[cursor] = "duplicate" /\ key'[cursor] = k
    BY <1>0, <1>2, <1>9 DEF Deduplicate, Settle, TypeOK
  <2>2. original[k] < cursor /\ original[k] # cursor
    BY <1>0, <1>3, <1>5, <2>1 DEF KeysInv
  <2>3. \A j \in Key : original[j] # 0 => key'[original[j]] = j
    <3> SUFFICES ASSUME NEW j \in Key, original[j] # 0 PROVE key'[original[j]] = j
      OBVIOUS
    <3>1. original[j] \in Call /\ original[j] # cursor
      BY <1>0, <1>3, <1>5, <2>1, BatchAssumption DEF KeysInv, Call
    <3> QED BY <1>0, <2>1, <3>1 DEF KeysInv
  <2>4. KeysInv'
    BY <1>0, <2>1, <2>2, <2>3 DEF KeysInv, Preparing
  <2> QED BY <1>7, <1>9, <2>1, <2>4 DEF Prepare
<1>10. ASSUME NEW k \in Key, Resolve(k) PROVE KeysInv' /\ DeferredInv'
  <2>1. /\ stage = "prepare" /\ stage' \in {"authorize", "dispatch"} /\ cursor' = cursor
        /\ cursor \in Call /\ original[k] = 0
        /\ original' = [original EXCEPT ![k] = cursor]
        /\ key' = [key EXCEPT ![cursor] = k]
    BY <1>2, <1>10 DEF Resolve, FirstOfKey, Settle
  <2>2. /\ \A c \in Call \ {cursor} : fate'[c] = fate[c]
        /\ fate'[cursor] \notin {"run", "duplicate"}
    BY <1>0, <1>4, <1>10, <2>1 DEF Resolve, Settle, TypeOK
  <2>3. /\ \A c \in Call \ {cursor} : key'[c] = key[c]
        /\ key'[cursor] = k /\ original'[k] = cursor /\ cursor # 0
        /\ \A j \in Key \ {k} : original'[j] = original[j]
    BY <1>0, <2>1 DEF TypeOK, Call
  <2>4. \A j \in Key : original'[j] # 0 => key'[original'[j]] = j
    <3> SUFFICES ASSUME NEW j \in Key, j # k, original[j] # 0 PROVE key'[original[j]] = j
      BY <2>3
    <3>1. original[j] \in Call /\ original[j] # cursor
      BY <1>0, <1>3, <1>5, <2>1, BatchAssumption DEF KeysInv, Call
    <3> QED BY <1>0, <2>3, <3>1 DEF KeysInv
  <2>5. ASSUME NEW c \in Call, fate'[c] = "run"
        PROVE  key'[c] \in Key /\ original'[key'[c]] = c
    <3>1. c # cursor /\ fate[c] = "run" /\ key'[c] = key[c]
      BY <2>2, <2>3, <2>5
    <3>2. key[c] \in Key /\ original[key[c]] = c /\ c # 0
      BY <1>0, <3>1 DEF KeysInv, Call
    <3> QED BY <2>1, <2>3, <3>1, <3>2
  <2>6. ASSUME NEW c \in Call, fate'[c] = "duplicate"
        PROVE  key'[c] \in Key /\ original'[key'[c]] # 0 /\ original'[key'[c]] < c
    <3>1. c # cursor /\ fate[c] = "duplicate" /\ key'[c] = key[c]
      BY <2>2, <2>3, <2>6
    <3>2. key[c] \in Key /\ original[key[c]] # 0 /\ original[key[c]] < c
      BY <1>0, <3>1 DEF KeysInv
    <3> QED BY <2>1, <2>3, <3>1, <3>2
  <2>7. \A j \in Key : original'[j] <= cursor
    BY <1>0, <1>3, <2>1, <2>3 DEF KeysInv, Preparing
  <2>8. KeysInv'
    BY <2>1, <2>3, <2>4, <2>5, <2>6, <2>7 DEF KeysInv
  <2>9. \A j \in Key : original[j] # 0 => original'[j] = original[j]
    BY <2>1, <2>3
  <2> QED BY <1>7, <1>10, <2>8, <2>9 DEF Prepare
<1>11. CASE Authorize
  <2>1. /\ stage = "authorize" /\ stage' = "dispatch" /\ UNCHANGED <<cursor, key, original>>
        /\ cursor \in Call
        /\ \A c \in Call \ {cursor} : fate'[c] = fate[c]
        /\ fate'[cursor] # "duplicate"
    BY <1>0, <1>2, <1>11 DEF Authorize, Settle, dedupVars, TypeOK
  <2>2. KeysInv'
    BY <1>0, <2>1 DEF KeysInv, Preparing
  <2> QED BY <1>7, <1>11, <2>1, <2>2
<1>12. CASE EmitResult
  BY <1>12, DedupEmits
<1>13. CASE \/ DispatchCall \/ Add \/ DispatchFails \/ Rethrow \/ Abort
            \/ \E c \in Call : ToolReturns(c) \/ GraceTimeout(c) \/ Finish(c)
  <2>1. \A c \in Call : result'[c] = result[c] \/ result[c] = "none"
    BY <1>0, <1>13, SettledStays DEF Next, Loop
  <2>2. UNCHANGED <<fate, key, original, deferred, shown>>
    BY <1>13 DEF DispatchCall, Add, DispatchFails, Rethrow, Abort, ToolReturns,
                 GraceTimeout, Finish, loopVars, dedupVars
  <2>3. CASE Add
    <3>1. /\ stage = "add"
          /\ \/ stage' = "drain" /\ cursor' = 1
             \/ stage' = "prepare" /\ cursor' = cursor + 1
      BY <2>3 DEF Add
    <3>2. cursor <= cursor + 1
      BY <1>3
    <3> QED BY <1>3, <2>1, <2>2, <3>1, <3>2, DedupRests DEF Preparing
  <2>4. CASE DispatchCall \/ DispatchFails \/ Rethrow
    <3>1. cursor' = cursor /\ stage' \in {"add", "unwind", "thrown"}
          /\ (stage' = "add" => stage = "dispatch")
      BY <2>4 DEF DispatchCall, DispatchFails, Rethrow
    <3> QED BY <1>3, <2>1, <2>2, <3>1, DedupRests DEF Preparing
  <2>5. CASE UNCHANGED <<stage, cursor>>
    BY <1>3, <2>1, <2>2, <2>5, DedupRests
  <2>6. CASE Abort \/ \E c \in Call : ToolReturns(c) \/ GraceTimeout(c) \/ Finish(c)
    BY <2>5, <2>6 DEF Abort, ToolReturns, GraceTimeout, Finish, loopVars
  <2> QED BY <1>13, <2>3, <2>4, <2>6
<1>14. CASE UNCHANGED vars
  <2>1. UNCHANGED <<fate, key, original, deferred, shown, result, stage, cursor>>
    BY <1>14 DEF vars
  <2> QED BY <1>3, <2>1, DedupRests
<1> QED
  BY <1>8, <1>9, <1>10, <1>11, <1>12, <1>13, <1>14 DEF Next, Loop, Prepare

\* Calls with the same arguments share one execution and one result: only the first runs,
\* its repeats are shown what it settled with and never wait for an answer nobody gives
\* (checkSameStep, finalizeResult).
THEOREM Answered == Spec => []RepeatsAnswered
<1>1. Init => DedupInv
  <2> SUFFICES ASSUME Init PROVE DedupInv
    OBVIOUS
  <2>1. RInv
    BY TypeInit, ScheduleInit, StatusInit DEF RInv, IInv
  <2>2. KeysInv
    BY DEF Init, KeysInv
  <2>3. OnlyRun /\ DeferredInv
    BY DEF Init, OnlyRun, DeferredInv
  <2> QED BY <2>1, <2>2, <2>3 DEF DedupInv
<1>2. DedupInv /\ [Next]_vars => DedupInv'
  BY DedupStep
<1>3. DedupInv => RepeatsAnswered
  <2> SUFFICES ASSUME DedupInv PROVE RepeatsAnswered
    OBVIOUS
  <2>0. TypeOK /\ KeysInv /\ OnlyRun /\ DeferredInv
    BY DEF DedupInv, RInv, IInv
  <2>1. ExecutedOncePerKey
    BY <2>0 DEF ExecutedOncePerKey, OnlyRun, KeysInv
  <2>2. RepeatShowsOriginal
    BY <2>0 DEF RepeatShowsOriginal, DeferredInv
  <2>3. RepeatNeverStuck
    BY <2>0 DEF RepeatNeverStuck, DeferredInv, KeysInv, TypeOK, Call
  <2> QED BY <2>1, <2>2, <2>3 DEF RepeatsAnswered
<1> QED BY <1>1, <1>2, <1>3, PTL DEF Spec
-----------------------------------------------------------------------------
(* The transcript.                                                         *)

\* One more call, or one more result, at the end of a transcript.
LEMMA TranscriptGrows ==
  ASSUME NEW k \in Nat, NEW m \in Nat
  PROVE  /\ m = 0 => Append(Transcript(k, m), [event |-> "call", id |-> k + 1])
                       = Transcript(k + 1, m)
         /\ Append(Transcript(k, m), [event |-> "result", id |-> m + 1])
              = Transcript(k, m + 1)
<1> DEFINE Entry == [event : {"call", "result"}, id : Nat]
           T == Transcript(k, m)
<1>1. /\ T \in Seq(Entry) /\ Len(T) = k + m
      /\ \A i \in 1 .. k + m : T[i] = IF i <= k THEN [event |-> "call", id |-> i]
                                      ELSE [event |-> "result", id |-> i - k]
  <2>1. T \in [1 .. k + m -> Entry]
    BY DEF Transcript
  <2> QED BY <2>1 DEF Transcript
<1> HIDE DEF T
<1>2. ASSUME NEW e \in Entry
      PROVE  /\ Append(T, e) \in Seq(Entry) /\ Len(Append(T, e)) = k + m + 1
             /\ \A i \in 1 .. k + m : Append(T, e)[i] = T[i]
             /\ Append(T, e)[k + m + 1] = e
  BY <1>1
<1>3. ASSUME m = 0
      PROVE  Append(T, [event |-> "call", id |-> k + 1]) = Transcript(k + 1, m)
  <2> DEFINE A == Append(T, [event |-> "call", id |-> k + 1])
  <2>1. /\ A \in Seq(Entry) /\ Len(A) = k + m + 1
        /\ \A i \in 1 .. k + m : A[i] = T[i]
        /\ A[k + m + 1] = [event |-> "call", id |-> k + 1]
    BY <1>2
  <2> HIDE DEF A
  <2>2. A = [i \in 1 .. k + m + 1 |-> A[i]]
    BY <2>1
  <2>3. \A i \in 1 .. k + m + 1 : A[i] = Transcript(k + 1, m)[i]
    BY <1>1, <1>3, <2>1 DEF Transcript
  <2>4. Transcript(k + 1, m) = [i \in 1 .. k + m + 1 |-> Transcript(k + 1, m)[i]]
    BY <1>3 DEF Transcript
  <2> QED BY <2>2, <2>3, <2>4 DEF A
<1>4. Append(T, [event |-> "result", id |-> m + 1]) = Transcript(k, m + 1)
  <2> DEFINE A == Append(T, [event |-> "result", id |-> m + 1])
  <2>1. /\ A \in Seq(Entry) /\ Len(A) = k + m + 1
        /\ \A i \in 1 .. k + m : A[i] = T[i]
        /\ A[k + m + 1] = [event |-> "result", id |-> m + 1]
    BY <1>2
  <2> HIDE DEF A
  <2>2. A = [i \in 1 .. k + m + 1 |-> A[i]]
    BY <2>1
  <2>3. ASSUME NEW i \in 1 .. k + m + 1 PROVE A[i] = Transcript(k, m + 1)[i]
    <3>1. Transcript(k, m + 1)[i] = IF i <= k THEN [event |-> "call", id |-> i]
                                    ELSE [event |-> "result", id |-> i - k]
      BY DEF Transcript
    <3>2. CASE i \in 1 .. k + m
      BY <1>1, <2>1, <3>1, <3>2
    <3>3. CASE i = k + m + 1
      <4>1. ~ (i <= k) /\ i - k = m + 1
        BY <3>3
      <4> QED BY <2>1, <3>1, <3>3, <4>1
    <3> QED BY <3>2, <3>3
  <2>4. Transcript(k, m + 1) = [i \in 1 .. k + m + 1 |-> Transcript(k, m + 1)[i]]
    BY DEF Transcript
  <2> QED BY <2>2, <2>3, <2>4 DEF A
<1> QED BY <1>3, <1>4 DEF T

\* How far the transcript is in each stage.
LogInv ==
  /\ stage \in {"prepare", "authorize", "dispatch"} => log = Transcript(cursor - 1, 0)
  /\ stage = "add" => log = Transcript(cursor, 0)
  /\ stage = "drain" => log = Transcript(N, cursor - 1)
  /\ PairedResults

\* Every step keeps the transcript in order.
LEMMA LogStep == TypeOK /\ LogInv /\ [Next]_vars => LogInv'
<1> SUFFICES ASSUME TypeOK, LogInv, [Next]_vars PROVE LogInv'
  OBVIOUS
<1>1. cursor \in Nat /\ 1 <= cursor /\ (stage # "done" => cursor <= N) /\ N \in Nat
  BY BatchAssumption DEF TypeOK
<1>2. CASE DispatchCall
  <2>1. log = Transcript(cursor - 1, 0) /\ cursor - 1 \in Nat
    BY <1>1, <1>2 DEF DispatchCall, LogInv
  <2>2. log' = Transcript(cursor, 0)
    <3>1. PICK k \in Nat : k = cursor - 1 /\ cursor = k + 1
      BY <1>1, <2>1
    <3>2. log' = Append(Transcript(k, 0), [event |-> "call", id |-> k + 1])
      BY <1>2, <2>1, <3>1 DEF DispatchCall, Recorded
    <3> QED BY <3>1, <3>2, TranscriptGrows
  <2>3. cursor \in 0 .. N /\ cursor' = cursor /\ stage' = "add"
    BY <1>1, <1>2 DEF DispatchCall
  <2>4. PairedResults'
    BY <1>1, <2>2, <2>3 DEF PairedResults
  <2> QED BY <2>2, <2>3, <2>4 DEF LogInv
<1>3. CASE EmitResult
  <2>1. log = Transcript(N, cursor - 1) /\ cursor - 1 \in Nat
    BY <1>1, <1>3 DEF EmitResult, LogInv
  <2>2. log' = Transcript(N, cursor)
    <3>1. PICK m \in Nat : m = cursor - 1 /\ cursor = m + 1
      BY <1>1, <2>1
    <3>2. log' = Append(Transcript(N, m), [event |-> "result", id |-> m + 1])
      BY <1>3, <2>1, <3>1 DEF EmitResult
    <3> QED BY <1>1, <3>1, <3>2, TranscriptGrows
  <2>3. /\ cursor \in 0 .. N /\ cursor' = cursor + 1 /\ cursor' - 1 = cursor
        /\ stage' \in {"drain", "done"} /\ (stage' = "done" => cursor = N)
    BY <1>1, <1>3 DEF EmitResult, LastResult
  <2>4. PairedResults'
    BY <1>1, <2>2, <2>3 DEF PairedResults
  <2> QED BY <2>2, <2>3, <2>4 DEF LogInv
<1>4. CASE Add
  <2>1. log = Transcript(cursor, 0) /\ log' = log /\ PairedResults
    BY <1>4 DEF Add, LogInv
  <2>2. \/ stage' = "drain" /\ cursor' = 1 /\ cursor' - 1 = 0 /\ cursor = N
        \/ stage' = "prepare" /\ cursor' - 1 = cursor
    BY <1>1, <1>4 DEF Add
  <2>3. PairedResults'
    BY <2>1, <2>2 DEF PairedResults
  <2> QED BY <2>1, <2>2, <2>3 DEF LogInv
<1>5. ASSUME log' = log, cursor' = cursor,
             \/ stage' = stage
             \/ stage \in {"prepare", "authorize"} /\ stage' \in {"authorize", "dispatch"}
             \/ stage' \in {"unwind", "thrown"}
      PROVE  LogInv'
  <2>1. PairedResults'
    BY <1>5 DEF LogInv, PairedResults
  <2> QED BY <1>5, <2>1 DEF LogInv
<1>6. CASE Prepare \/ Authorize
  BY <1>5, <1>6 DEF Prepare, Reject, Skip, Deduplicate, Resolve, Authorize, Settle
<1>7. CASE DispatchFails \/ Rethrow
  BY <1>5, <1>7 DEF DispatchFails, Rethrow
<1>8. CASE Abort \/ \E c \in Call : ToolReturns(c) \/ GraceTimeout(c) \/ Finish(c)
  BY <1>5, <1>8 DEF Abort, ToolReturns, GraceTimeout, Finish, loopVars
<1>9. CASE UNCHANGED vars
  BY <1>5, <1>9 DEF vars
<1> QED BY <1>2, <1>3, <1>4, <1>6, <1>7, <1>8, <1>9 DEF Next, Loop

\* The transcript of a step pairs its calls and results in provider order, whatever order
\* the tools finish in and wherever recording fails (runToolCallBatch).
THEOREM Paired == Spec => []PairedResults
<1>1. Init => TypeOK /\ RepeatHasKey /\ LogInv
  <2> SUFFICES ASSUME Init PROVE LogInv
    BY TypeInit
  <2>1. Transcript(0, 0) = <<>>
    BY DEF Transcript
  <2>2. log = Transcript(0, 0) /\ cursor - 1 = 0 /\ stage \in {"prepare", "done"}
    BY <2>1 DEF Init
  <2>3. PairedResults
    BY <2>2, BatchAssumption DEF Init, PairedResults
  <2> QED BY <2>2, <2>3 DEF LogInv
<1>2. TypeOK /\ RepeatHasKey /\ LogInv /\ [Next]_vars => TypeOK' /\ RepeatHasKey' /\ LogInv'
  BY TypeStep, LogStep
<1>3. LogInv => PairedResults
  BY DEF LogInv
<1> QED BY <1>1, <1>2, <1>3, PTL DEF Spec
-----------------------------------------------------------------------------
(* Conflicts.                                                              *)

\* What AtOrAbove compares name by name is a path that begins with the other one.
LEMMA AboveIsBelow ==
  ASSUME NEW p \in Path, NEW f \in Seq(Name)
  PROVE  AtOrAbove(p, f) <=> Below(f, p)
<1>1. ASSUME Len(p) <= Len(f)
      PROVE  (\A i \in 1 .. Len(p) : p[i] = f[i]) <=> SubSeq(f, 1, Len(p)) = p
  <2>1. SubSeq(f, 1, Len(p)) = [i \in 1 .. Len(p) |-> f[i]]
    BY <1>1 DEF Path
  <2>2. p = [i \in 1 .. Len(p) |-> p[i]]
    BY DEF Path
  <2> QED BY <2>1, <2>2
<1> QED BY <1>1 DEF AtOrAbove, Below

\* A path is a sequence of names, and normal paths are files.
LEMMA NormalPaths ==
  ASSUME NEW p \in Paths
  PROVE  /\ p \in Path /\ NormalizePath(p) \in Path
         /\ NormalizePath(p) \in Files
<1>1. PICK len \in 0 .. Depth : p \in [1 .. len -> Name]
  BY DEF Paths
<1>2. NormalizePath(p) \in [1 .. len -> {Fold[n] : n \in Name}]
  BY <1>1 DEF NormalizePath
<1>3. {Fold[n] : n \in Name} \subseteq Name
  BY FoldAssumption
<1>4. p \in Seq(Name) /\ NormalizePath(p) \in [1 .. len -> Name]
  BY <1>1, <1>2, <1>3, BatchAssumption
<1>5. NormalizePath(p) \in Seq(Name)
  BY <1>4, BatchAssumption
<1>6. len \in 0 .. Depth + 1
  BY BatchAssumption
<1>7. NormalizePath(p) \in Files
  BY <1>2, <1>6 DEF Files
<1> QED BY <1>4, <1>5, <1>7 DEF Path

\* Files are sequences of names.
LEMMA FilesAreSeq == Files \subseteq Seq(Name)
<1> SUFFICES ASSUME NEW len \in 0 .. Depth + 1, NEW f \in [1 .. len -> {Fold[n] : n \in Name}]
             PROVE  f \in Seq(Name)
  BY DEF Files
<1>1. f \in [1 .. len -> Name]
  BY FoldAssumption
<1> QED BY <1>1, BatchAssumption

\* A file access touches the file it names; a recursive one what is below it.
LEMMA TouchedFiles ==
  ASSUME NEW op \in Operation, NEW p \in Paths, NEW rec \in BOOLEAN
  PROVE  /\ NormalizePath(p) \in Touched(FileAt(op, p, rec))
         /\ \A f \in Files : f \in Touched(FileAt(op, p, rec)) <=>
              f = NormalizePath(p) \/ (rec /\ AtOrAbove(NormalizePath(p), f))
         /\ Touched(FileAt(op, p, rec)) \subseteq Files
<1> DEFINE x == FileAt(op, p, rec)
           n == NormalizePath(p)
<1>1. x.kind = "file" /\ x.path = p /\ x.recursive = rec
  BY DEF FileAt
<1>2. n \in Files /\ n \in Path /\ Files \subseteq Seq(Name)
  BY NormalPaths, FilesAreSeq
<1>3. Touched(x) = IF rec THEN {f \in Files : Below(f, n)} ELSE {n}
  BY <1>1 DEF Touched
<1> HIDE DEF x, n
<1>4. \A f \in Files : AtOrAbove(n, f) <=> Below(f, n)
  BY <1>2, AboveIsBelow
<1>5. AtOrAbove(n, n)
  BY <1>2 DEF AtOrAbove, Path
<1> QED BY <1>2, <1>3, <1>4, <1>5 DEF x, n

\* Two paths at or above the same file: one is at or above the other.
LEMMA SameLine ==
  ASSUME NEW p \in Path, NEW q \in Path, NEW f, AtOrAbove(p, f), AtOrAbove(q, f)
  PROVE  AtOrAbove(p, q) \/ AtOrAbove(q, p)
BY DEF AtOrAbove, Path

\* Accesses conflict exactly when they share a file that one of them writes, for paths of
\* any length (ToolAccesses.conflict).
LEMMA ConflictShares ==
  ASSUME NEW x \in Accesses, NEW y \in Accesses
  PROVE  Conflict({x}, {y}) <=>
           (WritesFile(x) \/ WritesFile(y)) /\ Touched(x) \cap Touched(y) # {}
<1>1. Conflict({x}, {y}) <=> AccessConflict(x, y)
  BY DEF Conflict
<1>2. PICK root \in Files : TRUE
  <2>1. 0 \in 0 .. Depth + 1
    BY BatchAssumption
  <2>2. <<>> \in [1 .. 0 -> {Fold[n] : n \in Name}]
    OBVIOUS
  <2> QED BY <2>1, <2>2 DEF Files
<1>3. ASSUME NEW z \in Accesses
      PROVE  Touched(z) \subseteq Files /\ Touched(z) # {}
  <2>1. CASE z = AccessAll
    BY <1>2, <2>1 DEF AccessAll, Touched
  <2>2. CASE z # AccessAll
    BY <1>3, <2>2, TouchedFiles DEF Accesses
  <2> QED BY <2>1, <2>2
<1>4. ASSUME NEW z \in {x, y}, z = AccessAll
      PROVE  /\ AccessConflict(x, y)
             /\ (WritesFile(x) \/ WritesFile(y)) /\ Touched(x) \cap Touched(y) # {}
  <2>1. z.kind = "all" /\ WritesFile(z) /\ Touched(z) = Files
    BY <1>4 DEF AccessAll, WritesFile, Touched
  <2> QED BY <1>3, <2>1 DEF AccessConflict
<1>5. ASSUME x # AccessAll, y # AccessAll
      PROVE  AccessConflict(x, y) <=>
               (WritesFile(x) \/ WritesFile(y)) /\ Touched(x) \cap Touched(y) # {}
  <2>1. PICK opx \in Operation, p \in Paths, recx \in BOOLEAN : x = FileAt(opx, p, recx)
    BY <1>5 DEF Accesses
  <2>2. PICK opy \in Operation, q \in Paths, recy \in BOOLEAN : y = FileAt(opy, q, recy)
    BY <1>5 DEF Accesses
  <2> DEFINE l == NormalizePath(p)
             r == NormalizePath(q)
  <2>3. AccessConflict(x, y) <=>
          /\ WritesFile(x) \/ WritesFile(y)
          /\ l = r \/ (recx /\ AtOrAbove(l, r)) \/ (recy /\ AtOrAbove(r, l))
    BY <2>1, <2>2 DEF AccessConflict, FileAt, OperationsConflict, OperationWrites, WritesFile,
                      AccessesOverlap
  <2>4. /\ l \in Files /\ l \in Path /\ l \in Touched(x)
        /\ \A f \in Files : f \in Touched(x) <=> f = l \/ (recx /\ AtOrAbove(l, f))
        /\ Touched(x) \subseteq Files
    BY <2>1, TouchedFiles, NormalPaths
  <2>5. /\ r \in Files /\ r \in Path /\ r \in Touched(y)
        /\ \A f \in Files : f \in Touched(y) <=> f = r \/ (recy /\ AtOrAbove(r, f))
        /\ Touched(y) \subseteq Files
    BY <2>2, TouchedFiles, NormalPaths
  <2> HIDE DEF l, r
  <2>6. ASSUME l = r \/ (recx /\ AtOrAbove(l, r)) \/ (recy /\ AtOrAbove(r, l))
        PROVE  Touched(x) \cap Touched(y) # {}
    BY <2>4, <2>5, <2>6
  <2>7. ASSUME NEW f \in Touched(x) \cap Touched(y)
        PROVE  l = r \/ (recx /\ AtOrAbove(l, r)) \/ (recy /\ AtOrAbove(r, l))
    <3>1. f \in Files
      BY <2>4
    <3>2. (f = l \/ (recx /\ AtOrAbove(l, f))) /\ (f = r \/ (recy /\ AtOrAbove(r, f)))
      BY <2>4, <2>5, <3>1
    <3>3. CASE f = l \/ f = r
      BY <3>2, <3>3
    <3>4. CASE recx /\ AtOrAbove(l, f) /\ recy /\ AtOrAbove(r, f)
      BY <2>4, <2>5, <3>4, SameLine
    <3> QED BY <3>2, <3>3, <3>4
  <2> QED BY <2>3, <2>6, <2>7
<1> QED BY <1>1, <1>4, <1>5

\* Declarations conflict exactly when they share a file that one of them writes, at every
\* depth and in every spelling (ToolAccesses.conflict, normalizePath).
THEOREM ConflictMeans == Spec => []ConflictIsSharedFile
<1>1. ConflictIsSharedFile
  BY ConflictShares DEF ConflictIsSharedFile
<1> QED BY <1>1, PTL
=============================================================================
