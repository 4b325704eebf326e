--------------------------- MODULE TaskSagaProofs ---------------------------
(***************************************************************************)
(* The task engine implements the saga it promises its callers, for every  *)
(* number of subtasks, retries and runs: its initial states are initial    *)
(* states of TaskSaga and each of its steps is a step of TaskSaga or none. *)
(***************************************************************************)
EXTENDS TaskEngineProofs

Opened == {"loop", "attempt", "select", "failed"}
Undoing == {"rollback", "finish"}

\* Only subtasks of the task are ever accepted, those of a dead run included.
AcceptedOK == accepted \subseteq DOMAIN subTasks

SagaInv == CompensationInv /\ AcceptedOK

LEMMA SagaInvInit == Init => SagaInv
BY CompensationInit DEF Init, SagaInv, AcceptedOK

LEMMA AcceptedStep == TypeInv /\ AcceptedOK /\ [Next]_vars => AcceptedOK'
<1> SUFFICES ASSUME TypeInv, AcceptedOK, [Next]_vars PROVE AcceptedOK'
  OBVIOUS
<1> USE DEF AcceptedOK, engine
<1>1. CASE NewTask \/ ReNewTask
  BY <1>1 DEF NewTask, ReNewTask, NewObject
<1>2. CASE AddSubTask \/ AddSubTaskWithOps \/ AddSubTaskWithIgnoreErr
  <2>1. PICK s : Append1(s)
    BY <1>2 DEF AddSubTask, AddSubTaskWithOps, AddSubTaskWithIgnoreErr
  <2>2. subTasks \in Seq(SubTask)
    BY DEF TypeInv, TypeOK
  <2>3. DOMAIN subTasks \subseteq DOMAIN Append(subTasks, s)
    BY <2>2
  <2> QED BY <2>1, <2>3 DEF Append1
<1>3. CASE SubTaskSucceeds
  <2>1. cur \in DOMAIN subTasks
    BY <1>3 DEF SubTaskSucceeds, Receives, TypeInv, PlaceOK, InSubTask
  <2> QED BY <1>3, <2>1 DEF SubTaskSucceeds
<1>4. CASE SubTaskFails \/ SubTaskTimesOut
  BY <1>4 DEF SubTaskFails, SubTaskTimesOut, AttemptFails
<1>5. CASE \E a \in running, res \in Results : ActionReturns(a, res)
  BY <1>5 DEF ActionReturns
<1>6. CASE Discard \/ Execute \/ BeginSubTask \/ StartAttempt \/ SubTaskShutDown
           \/ IgnoreError \/ FailTask
  BY <1>6 DEF Discard, Execute, BeginSubTask, StartAttempt, SubTaskShutDown,
              IgnoreError, FailTask
<1>7. CASE RunRollback \/ EndRollback \/ Finish \/ Stop \/ Crash \/ Restart
           \/ SyncTask \/ UNCHANGED vars
  BY <1>7 DEF RunRollback, EndRollback, Finish, Stop, Crash, Restart, SyncTask, vars
<1>8. CASE OtherObject
  BY <1>8, OtherEffect DEF TypeInv, TypeOK
<1> QED
  BY <1>1, <1>2, <1>3, <1>4, <1>5, <1>6, <1>7, <1>8 DEF Next, EngineStep

LEMMA SagaInvStep == SagaInv /\ [Next]_vars => SagaInv'
BY CompensationStep, AcceptedStep DEF SagaInv, CompensationInv, SuccessInv

-----------------------------------------------------------------------------
(* The refinement mapping, place by place. *)

\* Outside a run the saga sees nothing.
LEMMA MapNone ==
    ASSUME pc \in {"idle", "build"}
    PROVE  phase = "none" /\ plan = <<>> /\ done = {}
BY DEF phase, plan, done

\* From Execute to the failure of a subtask.
LEMMA MapOpen ==
    ASSUME pc \in Opened
    PROVE  /\ phase = "open" /\ plan = subTasks
           /\ done = {i \in accepted : undone[i] = 0}
BY DEF phase, plan, done, Opened

\* From there to the end of the calls of the Rollbacks.
LEMMA MapUndoing ==
    ASSUME pc \in Undoing
    PROVE  /\ phase = "undoing" /\ plan = subTasks
           /\ done = {i \in accepted : undone[i] = 0}
BY DEF phase, plan, done, Undoing

\* The end of a run.
LEMMA MapEnded ==
    ASSUME pc = "ended"
    PROVE  /\ phase = IF task.status = "Success" THEN "committed" ELSE "aborted"
           /\ plan = subTasks
           /\ done = {i \in accepted : undone[i] = 0}
BY DEF phase, plan, done

\* The same four, for the state after a step.
LEMMA MapNoneNext ==
    ASSUME pc' \in {"idle", "build"}
    PROVE  phase' = "none" /\ plan' = <<>> /\ done' = {}
BY DEF phase, plan, done

LEMMA MapOpenNext ==
    ASSUME pc' \in Opened
    PROVE  /\ phase' = "open" /\ plan' = subTasks'
           /\ done' = {i \in accepted' : undone'[i] = 0}
BY DEF phase, plan, done, Opened

LEMMA MapUndoingNext ==
    ASSUME pc' \in Undoing
    PROVE  /\ phase' = "undoing" /\ plan' = subTasks'
           /\ done' = {i \in accepted' : undone'[i] = 0}
BY DEF phase, plan, done, Undoing

LEMMA MapEndedNext ==
    ASSUME pc' = "ended"
    PROVE  /\ phase' = IF task'.status = "Success" THEN "committed" ELSE "aborted"
           /\ plan' = subTasks'
           /\ done' = {i \in accepted' : undone'[i] = 0}
BY DEF phase, plan, done

\* A step that keeps the place (or moves inside "open" or "undoing"), the
\* subtasks and what stands is not seen.
LEMMA Unseen ==
    ASSUME pc \in PCs,
           UNCHANGED <<subTasks, accepted>>,
           pc = "ended" => task' = task,
           \A i \in accepted : undone'[i] = undone[i],
           \/ pc' = pc
           \/ pc \in Opened /\ pc' \in Opened
           \/ pc \in Undoing /\ pc' \in Undoing
    PROVE  UNCHANGED Saga!vars
<1>1. {i \in accepted' : undone'[i] = 0} = {i \in accepted : undone[i] = 0}
  OBVIOUS
<1>2. phase' = phase
  <2>1. CASE pc' = pc /\ pc = "ended"
    BY <2>1 DEF phase
  <2>2. CASE pc' = pc /\ pc # "ended"
    BY <2>2 DEF phase, PCs, Executing
  <2>3. CASE pc \in Opened /\ pc' \in Opened
    BY <2>3, MapOpen, MapOpenNext
  <2>4. CASE pc \in Undoing /\ pc' \in Undoing
    BY <2>4, MapUndoing, MapUndoingNext
  <2> QED BY <2>1, <2>2, <2>3, <2>4
<1>3. plan' = plan /\ done' = done
  BY <1>1, <1>2 DEF plan, done
<1> QED
  BY <1>2, <1>3 DEF Saga!vars

-----------------------------------------------------------------------------
(* Each kind of step. *)

\* Outside a run nothing is seen; a run that ended is left for the next one.
LEMMA BetweenRuns ==
    ASSUME NewTask \/ ReNewTask \/ AddSubTask \/ AddSubTaskWithOps
           \/ AddSubTaskWithIgnoreErr \/ Discard
    PROVE  [Saga!Next]_Saga!vars
<1>1. pc' \in {"idle", "build"} /\ pc \in {"idle", "build", "ended"}
  BY DEF NewTask, ReNewTask, NewObject, AddSubTask, AddSubTaskWithOps,
         AddSubTaskWithIgnoreErr, Append1, Discard
<1>2. CASE pc \in {"idle", "build"}
  BY <1>1, <1>2, MapNone, MapNoneNext DEF Saga!vars
<1>3. CASE pc = "ended"
  BY <1>1, <1>3, MapEnded, MapNoneNext DEF Saga!Next, Saga!Leave
<1> QED
  BY <1>1, <1>2, <1>3

\* Execute begins the saga with the subtasks added so far, none of them done.
LEMMA ExecuteBegins ==
    ASSUME SagaInv, Execute
    PROVE  [Saga!Next]_Saga!vars
<1>1. /\ subTasks \in Seq(SubTask) /\ Len(subTasks) <= MaxSub
      /\ pc = "build" /\ pc' \in {"loop", "idle"} /\ accepted = {}
      /\ subTasks' = subTasks /\ accepted' = accepted
  BY DEF SagaInv, CompensationInv, SuccessInv, TypeInv, TypeOK, Progress, Execute
<1>2. DOMAIN subTasks \subseteq Subs
  BY <1>1, MaxSubAssumption DEF Subs
<1>3. CASE pc' = "idle"
  BY <1>1, <1>3, MapNone, MapNoneNext DEF Saga!vars
<1>4. CASE pc' = "loop"
  <2>1. phase = "none" /\ phase' = "open" /\ plan' = subTasks /\ done' = {}
    BY <1>1, <1>4, MapNone, MapOpenNext DEF Opened
  <2> QED BY <1>1, <1>2, <2>1 DEF Saga!Next, Saga!Begin
<1> QED
  BY <1>1, <1>3, <1>4

\* The success of a subtask is the next step of the saga: the ones before it
\* are done or may fail, and none after it was taken.
LEMMA SuccessDoes ==
    ASSUME SagaInv, SubTaskSucceeds
    PROVE  Saga!Next
<1>1. TypeInv /\ Progress /\ UndoneOK
  BY DEF SagaInv, CompensationInv, SuccessInv
<1>2. /\ pc = "select" /\ pc' = "loop" /\ accepted' = accepted \cup {cur}
      /\ subTasks' = subTasks /\ undone' = undone
  BY DEF SubTaskSucceeds, Receives
<1>3. cur \in DOMAIN subTasks /\ Untouched /\ ListOK
  BY <1>1, <1>2 DEF TypeInv, PlaceOK, InSubTask, Progress, UndoneOK
<1>4. cur \in Subs /\ accepted \subseteq Subs
  <2>1. /\ subTasks \in Seq(SubTask) /\ Len(subTasks) <= MaxSub
        /\ accepted \subseteq Subs
    BY <1>1 DEF TypeInv, TypeOK
  <2> QED BY <1>3, <2>1, MaxSubAssumption DEF Subs
<1>5. phase = "open" /\ plan = subTasks /\ done = accepted
  BY <1>2, <1>3, <1>4, MapOpen DEF Opened, Untouched
<1>6. phase' = "open" /\ plan' = subTasks /\ done' = accepted \cup {cur}
  BY <1>2, <1>3, <1>4, MapOpenNext DEF Opened, Untouched
<1>7. \A j \in DOMAIN plan : j < cur => j \in done \/ plan[j].ignoreErr
  BY <1>1, <1>2, <1>5 DEF Progress, Required
<1>8. \A j \in done : j < cur
  BY <1>3, <1>5 DEF ListOK
<1>9. Saga!Do(cur)
  BY <1>3, <1>5, <1>6, <1>7, <1>8 DEF Saga!Do
<1> QED
  BY <1>4, <1>9 DEF Saga!Next

\* The subtask's own Rollback after its last attempt is not seen: the subtask
\* did not succeed, so nothing of it stands.
LEMMA FailedAttemptIsUnseen ==
    ASSUME SagaInv, SubTaskFails \/ SubTaskTimesOut
    PROVE  UNCHANGED Saga!vars
<1>1. PICK e \in Errors : AttemptFails(e)
  BY DEF SubTaskFails, SubTaskTimesOut, Errors
<1>2. TypeInv /\ UndoneOK /\ pc = "select"
  BY DEF SagaInv, CompensationInv, SuccessInv, SubTaskFails, SubTaskTimesOut, Receives
<1>3. /\ undone \in [Subs -> Nat] /\ accepted \subseteq Subs
      /\ cur \in Nat /\ cur \notin accepted
  BY <1>2 DEF TypeInv, TypeOK, UndoneOK, ListOK
<1>4. undone' = undone \/ undone' = [undone EXCEPT ![cur] = @ + 1]
  BY <1>1 DEF AttemptFails
<1>5. \A i \in accepted : undone'[i] = undone[i]
  BY <1>3, <1>4
<1>6. pc' \in Opened /\ UNCHANGED <<subTasks, accepted, task>>
  BY <1>1 DEF AttemptFails, Opened
<1> QED
  BY <1>2, <1>5, <1>6, Unseen DEF Opened, PCs, Executing

\* Other steps inside SubTask.Execute and between two subtasks.
LEMMA InnerStepIsUnseen ==
    ASSUME TypeInv,
           BeginSubTask \/ StartAttempt \/ SubTaskShutDown \/ IgnoreError
           \/ EndRollback
    PROVE  UNCHANGED Saga!vars
<1>1. UNCHANGED <<subTasks, accepted, undone>> /\ pc # "ended"
  BY DEF BeginSubTask, StartAttempt, SubTaskShutDown, Receives, IgnoreError, EndRollback
<1>2. (pc \in Opened /\ pc' \in Opened) \/ (pc \in Undoing /\ pc' \in Undoing)
  BY DEF BeginSubTask, StartAttempt, SubTaskShutDown, Receives, IgnoreError,
         EndRollback, Opened, Undoing
<1> QED
  BY <1>1, <1>2, Unseen DEF TypeInv, TypeOK

\* Steps of others: the goroutine of an attempt, a stop request, the clean-up,
\* another object of the id.
LEMMA OtherStepIsUnseen ==
    ASSUME TypeInv,
           \/ \E a \in running, res \in Results : ActionReturns(a, res)
           \/ Stop \/ Restart \/ SyncTask \/ OtherObject \/ UNCHANGED vars
    PROVE  UNCHANGED Saga!vars
<1>1. UNCHANGED <<subTasks, accepted, undone, task, pc>>
  BY OtherEffect DEF ActionReturns, Stop, Restart, SyncTask, TypeInv, TypeOK, vars, engine
<1> QED
  BY <1>1, Unseen DEF TypeInv, TypeOK

\* The end of the loop over the subtasks after an error that counts.
LEMMA FailTaskFails ==
    ASSUME FailTask
    PROVE  Saga!Next
<1>1. pc = "failed" /\ pc' = "rollback" /\ UNCHANGED <<subTasks, accepted, undone>>
  BY DEF FailTask
<1> QED
  BY <1>1, MapOpen, MapUndoingNext DEF Opened, Undoing, Saga!Next, Saga!Fail

\* A call of a remembered Rollback takes back a step that still stands.
LEMMA RollbackUndoes ==
    ASSUME SagaInv, RunRollback
    PROVE  Saga!Next
<1>1. TypeInv /\ UndoneOK
  BY DEF SagaInv, CompensationInv, SuccessInv
<1>2. /\ pc = "rollback" /\ pc' = "rollback" /\ next \in DOMAIN rollbacks
      /\ undone' = [undone EXCEPT ![rollbacks[next]] = @ + 1]
      /\ UNCHANGED <<subTasks, accepted>>
      /\ rollbacks \in Seq(Subs) /\ undone \in [Subs -> Nat]
      /\ cur \in Nat /\ next \in Nat /\ accepted \subseteq Subs
  BY <1>1 DEF RunRollback, TypeInv, TypeOK
<1>3. ListOK
  BY <1>1, <1>2 DEF UndoneOK
<1> DEFINE k == rollbacks[next]
<1>4. k \in Subs /\ k \in accepted /\ k \in Reversible /\ k < cur
  BY <1>2, <1>3 DEF ListOK
<1>5. undone[k] = 0
  <2>1. \A j \in DOMAIN rollbacks : j < next => rollbacks[j] # k
    <3>1. \A j \in DOMAIN rollbacks : rollbacks[j] \in Subs
      BY <1>2
    <3>2. \A j \in DOMAIN rollbacks : rollbacks[j] \in Nat
      BY <3>1, MaxSubAssumption DEF Subs
    <3> QED BY <1>2, <1>3, <3>2 DEF ListOK
  <2>2. ~OwnRollback(k)
    BY <1>2, <1>4 DEF OwnRollback
  <2> QED BY <1>1, <1>2, <1>4, <2>1, <2>2 DEF UndoneOK
<1> HIDE DEF k
<1>6. undone'[k] = 1 /\ \A i \in Subs : i # k => undone'[i] = undone[i]
  BY <1>2, <1>4, <1>5 DEF k
<1>7. {i \in accepted : undone'[i] = 0} = {i \in accepted : undone[i] = 0} \ {k}
  BY <1>2, <1>4, <1>5, <1>6
<1>8. /\ phase = "undoing" /\ phase' = phase /\ plan = subTasks /\ plan' = plan
      /\ done = {i \in accepted : undone[i] = 0}
      /\ done' = done \ {k}
  BY <1>2, <1>7, MapUndoing, MapUndoingNext DEF Undoing
<1>9. k \in done /\ plan[k].rollback
  BY <1>4, <1>5, <1>8 DEF Reversible
<1>10. Saga!Undo(k)
  BY <1>8, <1>9 DEF Saga!Undo
<1> QED
  BY <1>4, <1>10 DEF Saga!Next

\* The end of a run is a commit with every required step done, or an abort
\* with nothing reversible left.
LEMMA FinishEnds ==
    ASSUME SagaInv, SagaInv', Finish
    PROVE  Saga!Next
<1>1. /\ TypeInv /\ StatusOK /\ UndoneOK /\ AcceptedOK
      /\ StatusOK' /\ UndoneOK' /\ undone \in [Subs -> Nat] /\ accepted \subseteq Subs
  BY DEF SagaInv, CompensationInv, SuccessInv, TypeInv, TypeOK
<1>2. /\ pc \in {"loop", "finish"} /\ pc' = "ended"
      /\ UNCHANGED <<subTasks, accepted, undone>>
      /\ task' = IF task.status = "Executing"
                 THEN [task EXCEPT !.status = "Success"] ELSE task
  BY DEF Finish
<1>3. CASE pc = "loop"
  <2>1. task'.status = "Success"
    BY <1>1, <1>2, <1>3 DEF StatusOK, TypeInv, PlaceOK, TaskRows
  <2>2. Complete'
    BY <1>1, <1>2, <2>1 DEF StatusOK
  <2>3. Required \subseteq accepted /\ Untouched
    BY <1>2, <2>2 DEF Complete, Required, Untouched
  <2>4. phase = "open" /\ phase' = "committed" /\ plan = subTasks
        /\ UNCHANGED <<plan, done>> /\ done = accepted
    BY <1>1, <1>2, <1>3, <2>1, <2>3, MapOpen, MapEndedNext DEF Opened, Untouched
  <2>5. \A i \in DOMAIN plan : i \in done \/ plan[i].ignoreErr
    BY <2>3, <2>4 DEF Required
  <2> QED BY <2>4, <2>5 DEF Saga!Next, Saga!Commit
<1>4. CASE pc = "finish"
  <2>1. Compensated /\ task'.status # "Success"
    BY <1>1, <1>2, <1>4 DEF UndoneOK, StatusOK
  <2>2. phase = "undoing" /\ phase' = "aborted" /\ plan = subTasks
        /\ UNCHANGED <<plan, done>> /\ done = {i \in accepted : undone[i] = 0}
    BY <1>2, <1>4, <2>1, MapUndoing, MapEndedNext DEF Undoing
  <2>3. \A i \in done : ~plan[i].rollback
    BY <1>1, <2>1, <2>2 DEF Compensated, AcceptedOK, Reversible
  <2> QED BY <2>2, <2>3 DEF Saga!Next, Saga!Abort
<1> QED
  BY <1>2, <1>3, <1>4

\* The death of the process ends whatever there was.
LEMMA CrashLeaves ==
    ASSUME TypeInv, Crash
    PROVE  [Saga!Next]_Saga!vars
<1>1. pc' = "idle" /\ pc \in PCs
  BY DEF Crash, TypeInv, TypeOK
<1>2. CASE pc \in {"idle", "build"}
  BY <1>1, <1>2, MapNone, MapNoneNext DEF Saga!vars
<1>3. CASE pc \notin {"idle", "build"}
  <2>1. phase # "none"
    BY <1>1, <1>3 DEF phase, PCs, Executing
  <2> QED BY <1>1, <2>1, MapNoneNext DEF Saga!Next, Saga!Leave
<1> QED
  BY <1>2, <1>3

LEMMA SagaInit == Init => Saga!Init
BY MapNone DEF Init, NoObject, Saga!Init

LEMMA SagaStep == SagaInv /\ SagaInv' /\ [Next]_vars => [Saga!Next]_Saga!vars
<1> SUFFICES ASSUME SagaInv, SagaInv', [Next]_vars PROVE [Saga!Next]_Saga!vars
  OBVIOUS
<1>1. TypeInv
  BY DEF SagaInv, CompensationInv, SuccessInv
<1>2. CASE NewTask \/ ReNewTask \/ AddSubTask \/ AddSubTaskWithOps
           \/ AddSubTaskWithIgnoreErr \/ Discard
  BY <1>2, BetweenRuns
<1>3. CASE Execute
  BY <1>3, ExecuteBegins
<1>4. CASE SubTaskSucceeds
  BY <1>4, SuccessDoes
<1>5. CASE SubTaskFails \/ SubTaskTimesOut
  BY <1>5, FailedAttemptIsUnseen
<1>6. CASE BeginSubTask \/ StartAttempt \/ SubTaskShutDown \/ IgnoreError
           \/ EndRollback
  BY <1>1, <1>6, InnerStepIsUnseen
<1>7. CASE \/ \E a \in running, res \in Results : ActionReturns(a, res)
           \/ Stop \/ Restart \/ SyncTask \/ OtherObject \/ UNCHANGED vars
  BY <1>1, <1>7, OtherStepIsUnseen
<1>8. CASE FailTask
  BY <1>8, FailTaskFails
<1>9. CASE RunRollback
  BY <1>9, RollbackUndoes
<1>10. CASE Finish
  BY <1>10, FinishEnds
<1>11. CASE Crash
  BY <1>1, <1>11, CrashLeaves
<1> QED
  BY <1>2, <1>3, <1>4, <1>5, <1>6, <1>7, <1>8, <1>9, <1>10, <1>11 DEF Next, EngineStep

\* Every run of the task engine is a saga: its steps succeed in order, it
\* commits only when all that may not fail is done, and aborts only when
\* nothing that can be taken back is left, whatever times out, is stopped or
\* lost on the way; only the death of the process ends a run without either.
THEOREM EngineImplementsSaga == Spec => ImplementsSaga
<1> QED
  BY SagaInvInit, SagaInvStep, SagaInit, SagaStep, PTL
     DEF Spec, ImplementsSaga, Saga!Spec
=============================================================================
