-------------------------- MODULE TaskEngineProofs --------------------------
(***************************************************************************)
(* Proofs about the task engine, for every number of subtasks, retries and *)
(* runs, and whether or not updates of the row can be lost and other Task  *)
(* objects of the id are made.                                             *)
(***************************************************************************)
EXTENDS TaskEngine, TLAPS

(* The type invariant, with what it needs to be inductive. *)

InSubTask == {"attempt", "select", "failed"}

\* Inside SubTask.Execute there is a current subtask, and the attempts made so
\* far do not exceed its Retry; a Task object holds a proper record; another one is
\* made beside one of these runs.
PlaceOK ==
    /\ pc \in InSubTask => cur \in DOMAIN subTasks /\ try <= subTasks[cur].retry
    /\ pc # "idle" => task \in TaskRows
    /\ pc # "idle" \/ other => run > 0

TypeInv == TypeOK /\ PlaceOK

\* The ways the engine changes a record give records.
LEMMA RecordUpdates ==
    /\ [NoRow EXCEPT !.status = "Executing"] \in TaskRows
    /\ \A t \in TaskRows, i \in 0..MaxSub : [t EXCEPT !.step = i] \in TaskRows
    /\ \A t \in TaskRows, s \in Statuses : [t EXCEPT !.status = s] \in TaskRows
    /\ \A t \in TaskRows, s \in Statuses, e \in Errors :
          [t EXCEPT !.err = e, !.status = s] \in TaskRows
    /\ \A t \in TaskRows, s \in Statuses, e \in Errors :
          [t EXCEPT !.status = s, !.err = e] \in TaskRows
<1>1. [NoRow EXCEPT !.status = "Executing"] \in TaskRows
  BY MaxSubAssumption DEF TaskRows, NoRow, Statuses, Errors
<1>2. ASSUME NEW t \in TaskRows, NEW i \in 0..MaxSub
      PROVE  [t EXCEPT !.step = i] \in TaskRows
  BY DEF TaskRows
<1>3. ASSUME NEW t \in TaskRows, NEW s \in Statuses
      PROVE  [t EXCEPT !.status = s] \in TaskRows
  BY DEF TaskRows
<1>4. ASSUME NEW t \in TaskRows, NEW s \in Statuses, NEW e \in Errors
      PROVE  /\ [t EXCEPT !.err = e, !.status = s] \in TaskRows
             /\ [t EXCEPT !.status = s, !.err = e] \in TaskRows
  BY DEF TaskRows
<1> QED
  BY <1>1, <1>2, <1>3, <1>4

\* Another object leaves alone what belongs to these runs, but for their row.
LEMMA OtherEffect ==
    ASSUME OtherObject, row \in TaskRows \cup {NoRow}
    PROVE  /\ UNCHANGED <<up, syncPending, engine, running, sending, run, accepted, undone>>
           /\ token' \in {token, FALSE} /\ other' \in BOOLEAN
           /\ other \/ pc # "idle"
           /\ UNCHANGED <<row, writer>> \/ (row' \in TaskRows /\ writer' = 0)
<1>1. ASSUME NEW S \in SUBSET Statuses, OtherSaves(S) PROVE row' \in TaskRows /\ writer' = 0
  <2>1. PICK t \in S :
          row' = [status |-> t, step |-> 0, err |-> IF t = "Failed" THEN "fail" ELSE "none"]
    BY <1>1 DEF OtherSaves
  <2>2. t \in Statuses /\ 0 \in 0..MaxSub
        /\ (IF t = "Failed" THEN "fail" ELSE "none") \in Errors
    BY MaxSubAssumption DEF Errors
  <2>3. row' \in TaskRows
    BY <2>1, <2>2 DEF TaskRows
  <2> QED BY <1>1, <2>3 DEF OtherSaves
<1>2. CASE OtherNewTask
  BY <1>2 DEF OtherNewTask, OtherKeeps
<1>3. CASE OtherReNewTask
  <2>1. [row EXCEPT !.status = "Executing"] \in TaskRows
    BY RecordUpdates DEF Statuses
  <2> QED BY <1>3, <2>1 DEF OtherReNewTask, OtherKeeps, OtherLoses
<1>4. CASE OtherUpdates
  <2>1. {"Executing", "Failed"} \in SUBSET Statuses
    BY DEF Statuses
  <2> QED BY <1>1, <1>4, <2>1 DEF OtherUpdates, OtherKeeps
<1>5. CASE OtherEnds
  <2>1. {"Success", "Failed"} \in SUBSET Statuses
    BY DEF Statuses
  <2> QED BY <1>1, <1>5, <2>1 DEF OtherEnds, OtherKeeps, OtherLoses
<1> QED
  BY <1>2, <1>3, <1>4, <1>5 DEF OtherObject

LEMMA TypeInit == Init => TypeInv
<1> SUFFICES ASSUME Init PROVE TypeInv
    OBVIOUS
<1>1. undone \in [Subs -> Nat]
  BY DEF Init
<1>2. subTasks \in Seq(SubTask) /\ Len(subTasks) <= MaxSub /\ rollbacks \in Seq(Subs)
  BY MaxSubAssumption DEF Init, NoObject
<1>3. cur \in 1..MaxSub + 1 /\ try \in 0..MaxRetry /\ next \in Nat \ {0}
  BY MaxSubAssumption, MaxRetryAssumption DEF Init, NoObject
<1> QED
  BY <1>1, <1>2, <1>3
     DEF Init, NoObject, TypeInv, TypeOK, PlaceOK, InSubTask, Errors, PCs, Executing

LEMMA TypeStep == TypeInv /\ [Next]_vars => TypeInv'
<1> SUFFICES ASSUME TypeInv, [Next]_vars PROVE TypeInv'
    OBVIOUS
<1> USE MaxSubAssumption, MaxRetryAssumption DEF TypeInv, TypeOK, PlaceOK, InSubTask,
        Subs, PCs, Executing, engine
<1>1. CASE NewTask
  <2>1. task' \in TaskRows
    BY <1>1, RecordUpdates DEF NewTask, NewObject
  <2>2. subTasks' \in Seq(SubTask) /\ Len(subTasks') <= MaxSub
        /\ rollbacks' \in Seq(Subs) /\ undone' \in [Subs -> Nat]
    BY <1>1 DEF NewTask, NewObject
  <2> QED BY <1>1, <2>1, <2>2 DEF NewTask, NewObject, Errors
<1>2. CASE ReNewTask
  <2>1. task' \in TaskRows
    BY <1>2, RecordUpdates DEF ReNewTask, NewObject, Statuses
  <2>2. subTasks' \in Seq(SubTask) /\ Len(subTasks') <= MaxSub
        /\ rollbacks' \in Seq(Subs) /\ undone' \in [Subs -> Nat]
    BY <1>2 DEF ReNewTask, NewObject
  <2>3. row' \in TaskRows \cup {NoRow} /\ writer' \in Nat /\ run' \in Nat
    <3>1. run' \in Nat
      BY <1>2 DEF ReNewTask, NewObject
    <3>2. UpdateTask
      BY <1>2 DEF ReNewTask
    <3> QED BY <2>1, <3>1, <3>2 DEF UpdateTask
  <2> QED BY <1>2, <2>1, <2>2, <2>3 DEF ReNewTask, NewObject, Errors
<1>3. CASE AddSubTask \/ AddSubTaskWithOps \/ AddSubTaskWithIgnoreErr
  <2>1. PICK s \in SubTask : Append1(s)
    <3>1. \A r \in 0..MaxRetry, t, b, g \in BOOLEAN :
            [retry |-> r, timed |-> t, rollback |-> b, ignoreErr |-> g] \in SubTask
      BY DEF SubTask
    <3>0. 0 \in 0..MaxRetry
      OBVIOUS
    <3>2. CASE AddSubTask
      <4>1. PICK b \in BOOLEAN :
              Append1([retry |-> 0, timed |-> TRUE, rollback |-> b, ignoreErr |-> FALSE])
        BY <3>2 DEF AddSubTask
      <4>2. [retry |-> 0, timed |-> TRUE, rollback |-> b, ignoreErr |-> FALSE] \in SubTask
        BY <3>0 DEF SubTask
      <4> QED BY <4>1, <4>2
    <3>3. CASE AddSubTaskWithOps
      BY <3>1, <3>3 DEF AddSubTaskWithOps
    <3>4. CASE AddSubTaskWithIgnoreErr
      <4>1. [retry |-> 0, timed |-> TRUE, rollback |-> FALSE, ignoreErr |-> TRUE] \in SubTask
        BY <3>0 DEF SubTask
      <4> QED BY <3>4, <4>1 DEF AddSubTaskWithIgnoreErr
    <3> QED BY <1>3, <3>2, <3>3, <3>4
  <2>2. subTasks' \in Seq(SubTask) /\ Len(subTasks') <= MaxSub
    BY <2>1 DEF Append1
  <2> QED BY <2>1, <2>2 DEF Append1
<1>4. CASE Discard
  BY <1>4 DEF Discard
<1>5. CASE Execute
  BY <1>5 DEF Execute
<1>6. CASE BeginSubTask
  <2>1. cur \in DOMAIN subTasks /\ subTasks[cur] \in SubTask
    BY <1>6 DEF BeginSubTask
  <2>2. 0 <= subTasks[cur].retry
    BY <2>1 DEF SubTask
  <2>3. task' \in TaskRows
    <3>1. cur \in 0..MaxSub /\ task \in TaskRows
      BY <1>6 DEF BeginSubTask
    <3> QED BY <1>6, <3>1, RecordUpdates DEF BeginSubTask
  <2>4. row' \in TaskRows \cup {NoRow} /\ writer' \in Nat
    BY <1>6, <2>3 DEF BeginSubTask, UpdateTask
  <2> QED BY <1>6, <2>1, <2>2, <2>3, <2>4 DEF BeginSubTask
<1>7. CASE StartAttempt
  <2>1. subTasks[cur] \in SubTask /\ cur \in Subs
    BY <1>7 DEF StartAttempt
  <2>2. Current \in Attempts
    BY <2>1 DEF Current, Attempts, SubTask
  <2> QED BY <1>7, <2>2 DEF StartAttempt
<1>8. CASE \E a \in running, res \in Results : ActionReturns(a, res)
  BY <1>8 DEF ActionReturns
<1>9. CASE SubTaskSucceeds
  <2>1. cur \in Subs /\ subTasks[cur] \in SubTask
    BY <1>9 DEF SubTaskSucceeds, Receives
  <2>2. rollbacks' \in Seq(Subs)
    <3>1. Append(rollbacks, cur) \in Seq(Subs)
      BY <2>1
    <3> QED BY <1>9, <3>1 DEF SubTaskSucceeds, Remember
  <2>3. sending' \subseteq sending /\ accepted' \subseteq Subs /\ token' \in BOOLEAN
    BY <1>9, <2>1 DEF SubTaskSucceeds, Receives, RemoveTaskCancel
  <2> QED BY <1>9, <2>1, <2>2, <2>3 DEF SubTaskSucceeds, Receives
<1>10. CASE SubTaskShutDown
  BY <1>10 DEF SubTaskShutDown, Receives, RemoveTaskCancel, Errors
<1>11. CASE SubTaskFails \/ SubTaskTimesOut
  <2>1. PICK e \in Errors : AttemptFails(e)
    BY <1>11 DEF SubTaskFails, SubTaskTimesOut, Errors
  <2>2. pc = "select" /\ sending' \subseteq sending
    BY <1>11 DEF SubTaskFails, SubTaskTimesOut, Receives
  <2>3. subTasks[cur] \in SubTask /\ cur \in Subs
    BY <2>2
  <2>4. try' \in 0..MaxRetry /\ try' <= subTasks[cur].retry
    <3>1. subTasks[cur].retry \in 0..MaxRetry /\ try <= subTasks[cur].retry
      BY <2>2, <2>3 DEF SubTask
    <3>2. CASE try = subTasks[cur].retry
      BY <2>1, <3>1, <3>2 DEF AttemptFails, NoMoreTries
    <3>3. CASE try # subTasks[cur].retry
      <4>1. try' = try + 1 /\ UNCHANGED <<subTasks, cur>>
        BY <2>1, <3>3 DEF AttemptFails, NoMoreTries
      <4> QED BY <3>1, <3>3, <4>1
    <3> QED BY <3>2, <3>3
  <2>5. undone' \in [Subs -> Nat]
    BY <2>1, <2>3 DEF AttemptFails
  <2> QED BY <2>1, <2>2, <2>4, <2>5 DEF AttemptFails, RemoveTaskCancel
<1>12. CASE IgnoreError
  <2>1. cur \in Subs
    BY <1>12 DEF IgnoreError
  <2> QED BY <1>12, <2>1 DEF IgnoreError, Errors
<1>13. CASE FailTask
  <2>1. task' \in TaskRows
    BY <1>13, RecordUpdates DEF FailTask, Statuses
  <2> QED BY <1>13, <2>1 DEF FailTask
<1>14. CASE RunRollback
  <2>1. rollbacks[next] \in Subs
    BY <1>14 DEF RunRollback
  <2>2. undone' \in [Subs -> Nat]
    BY <1>14, <2>1 DEF RunRollback
  <2> QED BY <1>14, <2>2 DEF RunRollback
<1>15. CASE EndRollback
  BY <1>15 DEF EndRollback, UpdateTask
<1>16. CASE Finish
  <2>1. task' \in TaskRows
    BY <1>16, RecordUpdates DEF Finish, Statuses
  <2> QED BY <1>16, <2>1 DEF Finish, UpdateTask
<1>17. CASE Stop
  BY <1>17 DEF Stop
<1>18. CASE Crash
  <2>1. rollbacks' \in Seq(Subs)
    BY <1>18 DEF Crash
  <2>2. try' \in 0..MaxRetry /\ next' \in Nat \ {0} /\ err' \in Errors
    BY <1>18 DEF Crash, Errors
  <2>3. running' \subseteq Attempts
        /\ sending' \subseteq [attempt : Attempts, res : Results]
    BY <1>18 DEF Crash
  <2> QED BY <1>18, <2>1, <2>2, <2>3 DEF Crash
<1>19. CASE Restart \/ UNCHANGED vars
  <2>1. CASE Restart
    BY <2>1 DEF Restart
  <2>2. CASE UNCHANGED vars
    BY <2>2 DEF vars
  <2> QED BY <1>19, <2>1, <2>2
<1>20. CASE SyncTask
  <2>1. row' \in TaskRows \cup {NoRow}
    <3>1. NoRow.status # "Executing" /\ {"Failed"} \subseteq Statuses
      BY DEF NoRow, Statuses
    <3> QED BY <1>20, <3>1, RecordUpdates DEF SyncTask, LeftExecuting, Errors
  <2> QED BY <1>20, <2>1 DEF SyncTask, LeftExecuting
<1>21. CASE OtherObject
  <2>1. /\ UNCHANGED <<up, syncPending, engine, running, sending, run, accepted, undone>>
        /\ token' \in BOOLEAN /\ other' \in BOOLEAN
        /\ other \/ pc # "idle"
    BY <1>21, OtherEffect
  <2>2. row' \in TaskRows \cup {NoRow} /\ writer' \in Nat
    <3>1. (row' = row /\ writer' = writer) \/ (row' \in TaskRows /\ writer' = 0)
      BY <1>21, OtherEffect
    <3> QED BY <3>1
  <2>3. run > 0 /\ PlaceOK'
    BY <2>1
  <2>4. TypeOK'
    BY <2>1, <2>2
  <2> QED BY <2>3, <2>4
<1> QED
  BY <1>1, <1>2, <1>3, <1>4, <1>5, <1>6, <1>7, <1>8, <1>9, <1>10, <1>11, <1>12,
     <1>13, <1>14, <1>15, <1>16, <1>17, <1>18, <1>19, <1>20, <1>21 DEF Next, EngineStep

\* Every variable keeps its type: in particular no attempt beyond Retry is ever
\* made and the engine never looks at a subtask the task does not have.
THEOREM TypeCorrect == Spec => []TypeOK
<1>1. TypeInv => TypeOK
  BY DEF TypeInv
<1> QED
  BY <1>1, TypeInit, TypeStep, PTL DEF Spec

-----------------------------------------------------------------------------
(* Success is never claimed for less than every required subtask. *)

Untouched == \A i \in Subs : undone[i] = 0
Complete == Required \subseteq accepted /\ Untouched

\* While the loop over the subtasks runs, the required ones before the current
\* one are accepted and nothing is undone, except by a subtask that has just
\* failed for good; such a subtask is not one whose error is ignored, because
\* AddSubTaskWithIgnoreErr takes no Rollback.
Progress ==
    /\ \A i \in DOMAIN subTasks : ~(subTasks[i].ignoreErr /\ subTasks[i].rollback)
    /\ pc = "build" => cur = 1 /\ accepted = {}
    /\ pc \in {"build", "loop", "attempt", "select"} => Untouched
    /\ pc = "failed" /\ Ignored => Untouched
    /\ pc \in {"loop", "attempt", "select", "failed"} =>
          \A i \in Required : i < cur => i \in accepted

\* The status of the Task object, and what Success means for it.
StatusOK ==
    /\ pc \in {"build", "loop", "attempt", "select", "failed"} =>
          task.status = "Executing"
    /\ pc \in {"rollback", "finish"} => task.status \in {"Failed", "Canceled"}
    /\ pc = "ended" /\ task.status = "Success" => Complete

\* Only an ended run has left Success in the row.
RowOK ==
    /\ writer <= run
    /\ row.status = "Success" /\ writer = run =>
          Complete /\ pc \in {"ended", "idle"}

SuccessInv == TypeInv /\ Progress /\ StatusOK /\ RowOK

LEMMA SuccessInit == Init => SuccessInv
<1> SUFFICES ASSUME Init PROVE Progress /\ StatusOK /\ RowOK
  BY TypeInit DEF SuccessInv
<1> QED
  BY DEF Init, NoObject, NoRow, Progress, StatusOK, RowOK, Required, Untouched

LEMMA SuccessStep == SuccessInv /\ [Next]_vars => SuccessInv'
<1> SUFFICES ASSUME SuccessInv, [Next]_vars PROVE SuccessInv'
  OBVIOUS
<1>0. TypeInv' /\ TypeInv
  BY TypeStep DEF SuccessInv
<1>t. /\ subTasks \in Seq(SubTask) /\ cur \in Nat /\ run \in Nat /\ writer \in Nat
      /\ undone \in [Subs -> Nat] /\ accepted \subseteq Subs
  BY <1>0 DEF TypeInv, TypeOK, Subs
<1>p. Progress /\ StatusOK /\ RowOK
  BY DEF SuccessInv
<1> SUFFICES Progress' /\ StatusOK' /\ RowOK'
  BY <1>0 DEF SuccessInv
<1> USE <1>t, <1>p DEF engine
<1>1. CASE NewTask \/ ReNewTask
  <2>1. PICK t, c : NewObject(t, c) /\ t.status = "Executing"
    <3>1. \A r \in TaskRows \cup {NoRow} : [r EXCEPT !.status = "Executing"].status = "Executing"
      BY DEF TaskRows, NoRow
    <3>2. row \in TaskRows \cup {NoRow}
      BY <1>0 DEF TypeInv, TypeOK
    <3> QED BY <1>1, <3>1, <3>2 DEF NewTask, ReNewTask
  <2>2. Progress' /\ StatusOK'
    BY <2>1 DEF NewObject, Progress, StatusOK, Required, Untouched
  <2>3. run' = run + 1 /\ task'.status = "Executing"
    BY <2>1 DEF NewObject
  <2>4. CASE UNCHANGED <<row, writer>>
    <3>1. writer <= run
      BY DEF RowOK
    <3>2. writer' <= run' /\ writer' # run'
      BY <2>3, <2>4, <3>1
    <3> QED BY <2>2, <3>2 DEF RowOK
  <2>5. CASE row' = task' /\ writer' = run'
    <3>1. writer' <= run' /\ row'.status = "Executing"
      BY <2>3, <2>5
    <3> QED BY <2>2, <3>1 DEF RowOK
  <2>6. UNCHANGED <<row, writer>> \/ (row' = task' /\ writer' = run')
    BY <1>1 DEF NewTask, ReNewTask, UpdateTask
  <2> QED BY <2>2, <2>4, <2>5, <2>6
<1>2. CASE AddSubTask \/ AddSubTaskWithOps \/ AddSubTaskWithIgnoreErr
  <2>1. PICK s : Append1(s) /\ ~(s.ignoreErr /\ s.rollback)
    <3>1. CASE AddSubTask
      BY <3>1 DEF AddSubTask
    <3>2. CASE AddSubTaskWithOps
      BY <3>2 DEF AddSubTaskWithOps
    <3>3. CASE AddSubTaskWithIgnoreErr
      BY <3>3 DEF AddSubTaskWithIgnoreErr
    <3> QED BY <1>2, <3>1, <3>2, <3>3
  <2>2. Progress'
    BY <2>1 DEF Append1, Progress, Untouched
  <2> QED BY <2>1, <2>2 DEF Append1, StatusOK, RowOK
<1>3. CASE Discard
  BY <1>3 DEF Discard, Progress, StatusOK, RowOK
<1>4. CASE Execute
  <2>1. Progress' /\ StatusOK'
    BY <1>4 DEF Execute, Progress, StatusOK, Required, Untouched
  <2>2. RowOK'
    BY <1>4 DEF Execute, StatusOK, RowOK
  <2> QED BY <2>1, <2>2
<1>5. CASE BeginSubTask
  <2>1. task'.status = task.status
    BY <1>0, <1>5 DEF BeginSubTask, TypeInv, PlaceOK, TaskRows
  <2>2. Progress' /\ StatusOK'
    BY <1>5, <2>1 DEF BeginSubTask, Progress, StatusOK, Required, Untouched
  <2>3. RowOK'
    <3>1. task'.status = "Executing" /\ pc = "loop" /\ run' = run
      BY <1>5, <2>1 DEF BeginSubTask, StatusOK
    <3>2. CASE row' = task' /\ writer' = run'
      <4>1. writer' <= run' /\ row'.status = "Executing"
        BY <3>1, <3>2
      <4> QED BY <4>1 DEF RowOK
    <3>3. CASE UNCHANGED <<row, writer>>
      BY <3>1, <3>3 DEF RowOK
    <3> QED BY <1>5, <3>2, <3>3 DEF BeginSubTask, UpdateTask
  <2> QED BY <2>2, <2>3
<1>6. CASE StartAttempt
  BY <1>6 DEF StartAttempt, Progress, StatusOK, RowOK, Required, Untouched
<1>7. CASE \E a \in running, res \in Results : ActionReturns(a, res)
  BY <1>7 DEF ActionReturns, Progress, StatusOK, RowOK, Required, Untouched, Complete, Ignored
<1>8. CASE SubTaskSucceeds
  <2>1. Progress'
    BY <1>8 DEF SubTaskSucceeds, Receives, Progress, Required, Untouched
  <2> QED BY <1>8, <2>1 DEF SubTaskSucceeds, Receives, StatusOK, RowOK
<1>9. CASE SubTaskShutDown
  BY <1>9 DEF SubTaskShutDown, Receives, Progress, StatusOK, RowOK, Required, Untouched
<1>10. CASE SubTaskFails \/ SubTaskTimesOut
  <2>1. PICK e \in Errors : AttemptFails(e)
    BY <1>10 DEF SubTaskFails, SubTaskTimesOut, Errors
  <2>2. pc = "select" /\ pc' \in {"attempt", "failed"}
    BY <1>10, <2>1 DEF SubTaskFails, SubTaskTimesOut, Receives, AttemptFails
  <2>3. cur \in DOMAIN subTasks
    BY <1>0, <2>2 DEF TypeInv, PlaceOK, InSubTask
  <2>4. pc' = "attempt" => undone' = undone
    BY <2>1 DEF AttemptFails, LastAttempt, NoMoreTries
  <2>5. Ignored => undone' = undone
    BY <2>1, <2>3 DEF AttemptFails, Ignored, Progress
  <2>6. UNCHANGED <<subTasks, cur, accepted, task, row, writer, run>>
    BY <2>1 DEF AttemptFails
  <2>7. Progress'
    BY <2>2, <2>4, <2>5, <2>6 DEF Progress, Required, Untouched, Ignored
  <2> QED BY <2>2, <2>6, <2>7 DEF StatusOK, RowOK
<1>11. CASE IgnoreError
  <2>1. Progress'
    BY <1>11 DEF IgnoreError, Progress, Required, Untouched, Ignored
  <2> QED BY <1>11, <2>1 DEF IgnoreError, StatusOK, RowOK
<1>12. CASE FailTask
  <2>1. task'.status \in {"Failed", "Canceled"}
    BY <1>0, <1>12 DEF FailTask, TypeInv, PlaceOK, TaskRows
  <2> QED BY <1>12, <2>1 DEF FailTask, Progress, StatusOK, RowOK
<1>13. CASE RunRollback
  BY <1>13 DEF RunRollback, Progress, StatusOK, RowOK
<1>14. CASE EndRollback
  BY <1>14 DEF EndRollback, UpdateTask, Progress, StatusOK, RowOK
<1>15. CASE Finish
  <2>1. pc = "loop" => Complete
    BY <1>15 DEF Finish, Progress, Complete, Required
  <2>2. task'.status = "Success" => Complete
    <3>1. CASE pc = "loop"
      BY <2>1, <3>1
    <3>2. CASE pc = "finish"
      BY <1>15, <3>2 DEF Finish, StatusOK
    <3> QED BY <1>15, <3>1, <3>2 DEF Finish
  <2>3. Complete => Complete'
    BY <1>15 DEF Finish, Complete, Required, Untouched
  <2>4. Progress' /\ StatusOK'
    BY <1>15, <2>2, <2>3 DEF Finish, Progress, StatusOK
  <2>5. RowOK'
    <3>1. pc' = "ended" /\ run' = run
      BY <1>15 DEF Finish
    <3>2. CASE row' = task' /\ writer' = run'
      BY <2>2, <2>3, <3>1, <3>2 DEF RowOK
    <3>3. CASE UNCHANGED <<row, writer>>
      BY <2>3, <3>1, <3>3 DEF RowOK
    <3> QED BY <1>15, <3>2, <3>3 DEF Finish, UpdateTask
  <2> QED BY <2>4, <2>5
<1>16. CASE Stop
  BY <1>16 DEF Stop, Progress, StatusOK, RowOK, Required, Untouched, Complete, Ignored
<1>17. CASE Crash
  <2>1. Complete => Complete'
    BY <1>17 DEF Crash, Complete, Required, Untouched
  <2> QED BY <1>17, <2>1 DEF Crash, Progress, StatusOK, RowOK
<1>18. CASE Restart \/ UNCHANGED vars
  BY <1>18 DEF Restart, vars, Progress, StatusOK, RowOK, Required, Untouched, Complete,
               Ignored
<1>19. CASE SyncTask
  <2>1. row'.status = "Success" => row.status = "Success"
    BY <1>0, <1>19 DEF SyncTask, LeftExecuting, TypeInv, TypeOK, TaskRows
  <2>2. RowOK'
    BY <1>19, <2>1 DEF SyncTask, LeftExecuting, RowOK, Complete, Required, Untouched
  <2> QED BY <1>19, <2>2 DEF SyncTask, LeftExecuting, Progress, StatusOK, Required, Untouched, Complete,
                             Ignored
<1>20. CASE OtherObject
  <2>1. /\ UNCHANGED <<engine, run, accepted, undone>>
        /\ UNCHANGED <<row, writer>> \/ writer' = 0
        /\ run > 0
    BY <1>0, <1>20, OtherEffect DEF TypeInv, TypeOK, PlaceOK
  <2>2. Progress' /\ StatusOK' /\ Complete' = Complete
    BY <2>1 DEF Progress, StatusOK, Required, Untouched, Complete, Ignored
  <2>3. writer' <= run' /\ (writer' = run' => row' = row /\ writer = run)
    BY <2>1 DEF RowOK
  <2>4. RowOK'
    BY <2>1, <2>2, <2>3 DEF RowOK
  <2> QED BY <2>2, <2>4
<1> QED
  BY <1>1, <1>2, <1>3, <1>4, <1>5, <1>6, <1>7, <1>8, <1>9, <1>10, <1>11, <1>12,
     <1>13, <1>14, <1>15, <1>16, <1>17, <1>18, <1>19, <1>20 DEF Next, EngineStep

\* A row this run left as Success stands for a run in which every subtask whose
\* error is not ignored was completed and nothing was rolled back, whatever
\* updates of the row were lost and whenever the agent crashed.
THEOREM SuccessMeansDoneHolds == Spec => []SuccessMeansDone
<1>1. SuccessInv => SuccessMeansDone
  BY DEF SuccessInv, RowOK, Complete, Untouched, SuccessMeansDone
<1> QED
  BY <1>1, SuccessInit, SuccessStep, PTL DEF Spec

-----------------------------------------------------------------------------
(* Compensation. *)

OwnRollback(i) == i = cur /\ i \in Reversible /\ err # "shutdown"
Compensated ==
    \A i \in Subs :
        undone[i] = IF i \in accepted \cap Reversible \/ OwnRollback(i) THEN 1 ELSE 0

\* t.Rollbacks lists the completed reversible subtasks, in order, once each.
ListOK ==
    /\ accepted \subseteq {i \in DOMAIN subTasks : i < cur}
    /\ {rollbacks[j] : j \in DOMAIN rollbacks} = accepted \cap Reversible
    /\ \A j, k \in DOMAIN rollbacks : j < k => rollbacks[j] < rollbacks[k]

\* How far the calls of the Rollbacks have come.
UndoneOK ==
    /\ pc = "build" => rollbacks = <<>>
    /\ pc \in {"loop", "attempt", "select", "failed", "rollback"} => ListOK
    /\ pc = "failed" =>
          \A i \in Subs : undone[i] = IF OwnRollback(i) THEN 1 ELSE 0
    /\ pc = "rollback" =>
          /\ next <= Len(rollbacks) + 1
          /\ \A i \in Subs :
                undone[i] = IF OwnRollback(i)
                               \/ (\E j \in DOMAIN rollbacks : j < next /\ rollbacks[j] = i)
                            THEN 1 ELSE 0
    /\ pc = "finish" => Compensated
    /\ pc = "ended" /\ task.status # "Success" => Compensated

CompensationInv == SuccessInv /\ UndoneOK

LEMMA CompensationInit == Init => CompensationInv
BY SuccessInit DEF Init, NoObject, CompensationInv, UndoneOK

\* The completion of a subtask extends the list as it should be.
LEMMA ListGrows ==
    ASSUME TypeInv, pc = "select", ListOK, SubTaskSucceeds
    PROVE  ListOK'
<1>1. /\ cur \in DOMAIN subTasks /\ subTasks \in Seq(SubTask) /\ cur \in Subs
      /\ rollbacks \in Seq(Subs)
  <2>1. /\ subTasks \in Seq(SubTask) /\ Len(subTasks) <= MaxSub /\ rollbacks \in Seq(Subs)
        /\ cur \in DOMAIN subTasks
    BY DEF TypeInv, TypeOK, PlaceOK, InSubTask
  <2>2. cur \in 1..MaxSub
    BY <2>1, MaxSubAssumption
  <2> QED BY <2>1, <2>2 DEF Subs
<1>2. /\ accepted' = accepted \cup {cur} /\ cur' = cur + 1 /\ subTasks' = subTasks
      /\ rollbacks' = IF subTasks[cur].rollback THEN Append(rollbacks, cur) ELSE rollbacks
  BY DEF SubTaskSucceeds, Remember
<1>3. accepted' \subseteq {i \in DOMAIN subTasks' : i < cur'}
  BY <1>1, <1>2 DEF ListOK
<1>4. \A j \in DOMAIN rollbacks : rollbacks[j] < cur
  BY DEF ListOK
<1>5. CASE subTasks[cur].rollback
  <2>1. rollbacks' = Append(rollbacks, cur)
    BY <1>2, <1>5
  <2>2. /\ DOMAIN rollbacks' = DOMAIN rollbacks \cup {Len(rollbacks) + 1}
        /\ \A j \in DOMAIN rollbacks : rollbacks'[j] = rollbacks[j] /\ j < Len(rollbacks) + 1
        /\ rollbacks'[Len(rollbacks) + 1] = cur
    BY <1>1, <2>1
  <2>3. {rollbacks'[j] : j \in DOMAIN rollbacks'} = {rollbacks[j] : j \in DOMAIN rollbacks} \cup {cur}
    BY <2>2
  <2>4. accepted' \cap Reversible' = (accepted \cap Reversible) \cup {cur}
    BY <1>1, <1>2, <1>5 DEF Reversible
  <2>5. \A j, k \in DOMAIN rollbacks' : j < k => rollbacks'[j] < rollbacks'[k]
    <3>1. SUFFICES ASSUME NEW j \in DOMAIN rollbacks', NEW k \in DOMAIN rollbacks', j < k
                   PROVE  rollbacks'[j] < rollbacks'[k]
      OBVIOUS
    <3>2. j \in DOMAIN rollbacks
      BY <1>1, <2>2, <3>1
    <3>3. CASE k \in DOMAIN rollbacks
      BY <2>2, <3>1, <3>2, <3>3 DEF ListOK
    <3>4. CASE k = Len(rollbacks) + 1
      BY <1>4, <2>2, <3>2, <3>4
    <3> QED BY <2>2, <3>3, <3>4
  <2> QED BY <1>3, <2>3, <2>4, <2>5 DEF ListOK
<1>6. CASE ~subTasks[cur].rollback
  <2>1. rollbacks' = rollbacks
    BY <1>2, <1>6
  <2>2. accepted' \cap Reversible' = accepted \cap Reversible
    BY <1>2, <1>6 DEF Reversible
  <2> QED BY <1>3, <2>1, <2>2 DEF ListOK
<1> QED
  BY <1>5, <1>6

\* One call of a remembered Rollback: it is of a completed subtask, which has
\* not been undone before.
LEMMA RollbackAdvances ==
    ASSUME TypeInv, UndoneOK, RunRollback
    PROVE  UndoneOK'
<1>1. /\ pc = "rollback" /\ next \in DOMAIN rollbacks /\ next \in Nat
      /\ rollbacks \in Seq(Subs) /\ undone \in [Subs -> Nat] /\ cur \in Nat
  BY DEF RunRollback, TypeInv, TypeOK
<1>2. UNCHANGED <<pc, cur, err, subTasks, accepted, rollbacks, task>>
  BY DEF RunRollback
<1>3. next' = next + 1 /\ undone' = [undone EXCEPT ![rollbacks[next]] = @ + 1]
  BY DEF RunRollback
<1>4. ListOK
  BY <1>1 DEF UndoneOK
<1>5. ListOK'
  BY <1>2, <1>4 DEF ListOK, Reversible
<1>6. rollbacks[next] \in Subs /\ rollbacks[next] \in accepted /\ rollbacks[next] < cur
  BY <1>1, <1>4 DEF ListOK
<1>7. \A j \in DOMAIN rollbacks : j < next => rollbacks[j] # rollbacks[next]
  <2>1. \A j \in DOMAIN rollbacks : rollbacks[j] \in Nat
    BY <1>1 DEF Subs
  <2> QED BY <1>1, <1>4, <2>1 DEF ListOK
<1>8. \A i : OwnRollback(i)' <=> OwnRollback(i)
  BY <1>2 DEF OwnRollback, Reversible
<1>9. ASSUME NEW i \in Subs
      PROVE  undone'[i] = IF OwnRollback(i)'
                             \/ (\E j \in DOMAIN rollbacks' : j < next' /\ rollbacks'[j] = i)
                          THEN 1 ELSE 0
  <2>1. undone[i] = IF OwnRollback(i)
                       \/ (\E j \in DOMAIN rollbacks : j < next /\ rollbacks[j] = i)
                    THEN 1 ELSE 0
    BY <1>1 DEF UndoneOK
  <2>2. CASE i = rollbacks[next]
    <3>1. ~OwnRollback(i)
      BY <1>1, <1>6, <2>2 DEF OwnRollback
    <3>2. undone[i] = 0
      BY <1>7, <2>1, <2>2, <3>1
    <3>3. undone'[i] = 1
      BY <1>1, <1>3, <1>6, <2>2, <3>2
    <3>4. next \in DOMAIN rollbacks' /\ next < next' /\ rollbacks'[next] = i
      BY <1>1, <1>2, <1>3, <2>2
    <3> QED BY <3>3, <3>4
  <2>3. CASE i # rollbacks[next]
    <3>1. undone'[i] = undone[i]
      BY <1>1, <1>3, <2>3
    <3>2. \A j \in DOMAIN rollbacks : rollbacks[j] = i => (j < next' <=> j < next)
      BY <1>1, <1>3, <2>3
    <3>3. (\E j \in DOMAIN rollbacks' : j < next' /\ rollbacks'[j] = i)
          <=> (\E j \in DOMAIN rollbacks : j < next /\ rollbacks[j] = i)
      BY <1>2, <3>2
    <3> QED BY <1>8, <2>1, <3>1, <3>3
  <2> QED BY <2>2, <2>3
<1>10. next' <= Len(rollbacks') + 1
  BY <1>1, <1>2, <1>3
<1> QED
  BY <1>1, <1>2, <1>5, <1>9, <1>10 DEF UndoneOK

LEMMA CompensationStep == CompensationInv /\ [Next]_vars => CompensationInv'
<1> SUFFICES ASSUME CompensationInv, [Next]_vars PROVE UndoneOK'
  BY SuccessStep DEF CompensationInv
<1>0. SuccessInv /\ TypeInv /\ Progress /\ StatusOK /\ UndoneOK
  BY DEF CompensationInv, SuccessInv
<1>t. /\ subTasks \in Seq(SubTask) /\ cur \in Nat /\ undone \in [Subs -> Nat]
      /\ accepted \subseteq Subs /\ rollbacks \in Seq(Subs) /\ next \in Nat
  BY <1>0 DEF TypeInv, TypeOK, Subs
<1> USE <1>0, <1>t DEF engine
<1>1. CASE NewTask \/ ReNewTask
  BY <1>1 DEF NewTask, ReNewTask, NewObject, UndoneOK
<1>2. CASE AddSubTask \/ AddSubTaskWithOps \/ AddSubTaskWithIgnoreErr
  <2>1. PICK s : Append1(s)
    BY <1>2 DEF AddSubTask, AddSubTaskWithOps, AddSubTaskWithIgnoreErr
  <2> QED BY <2>1 DEF Append1, UndoneOK
<1>3. CASE Discard
  BY <1>3 DEF Discard, UndoneOK
<1>4. CASE Execute
  <2>1. accepted' = {} /\ rollbacks' = <<>>
    BY <1>4 DEF Execute, Progress, UndoneOK
  <2>2. ListOK'
    BY <2>1 DEF ListOK
  <2> QED BY <1>4, <2>2 DEF Execute, UndoneOK
<1>5. CASE BeginSubTask \/ StartAttempt
  <2>1. UNCHANGED <<cur, subTasks, accepted, rollbacks>> /\ pc' \in {"attempt", "select"} /\ ListOK
    BY <1>5 DEF BeginSubTask, StartAttempt, UndoneOK
  <2>2. ListOK'
    BY <2>1 DEF ListOK, Reversible
  <2> QED BY <2>1, <2>2 DEF UndoneOK
<1>6. CASE \E a \in running, res \in Results : ActionReturns(a, res)
  BY <1>6 DEF ActionReturns, UndoneOK, ListOK, OwnRollback, Compensated, Reversible
<1>7. CASE SubTaskSucceeds
  <2>1. pc = "select" /\ pc' = "loop"
    BY <1>7 DEF SubTaskSucceeds, Receives
  <2>2. ListOK'
    BY <1>7, <2>1, ListGrows DEF UndoneOK
  <2> QED BY <2>1, <2>2 DEF UndoneOK
<1>8. CASE SubTaskShutDown
  <2>1. /\ pc = "select" /\ pc' = "failed" /\ err' = "shutdown"
        /\ UNCHANGED <<cur, subTasks, accepted, rollbacks, undone>>
    BY <1>8 DEF SubTaskShutDown, Receives
  <2>2. ListOK /\ Untouched
    BY <2>1 DEF UndoneOK, Progress
  <2>3. ListOK'
    BY <2>1, <2>2 DEF ListOK, Reversible
  <2>4. \A i \in Subs : ~OwnRollback(i)' /\ undone'[i] = 0
    BY <2>1, <2>2 DEF OwnRollback, Untouched
  <2> QED BY <2>1, <2>3, <2>4 DEF UndoneOK
<1>9. CASE SubTaskFails \/ SubTaskTimesOut
  <2>1. PICK e \in {"fail", "canceled", "timeout"} : AttemptFails(e)
    BY <1>9 DEF SubTaskFails, SubTaskTimesOut
  <2>2. pc = "select" /\ cur \in DOMAIN subTasks
    BY <1>9 DEF SubTaskFails, SubTaskTimesOut, Receives, TypeInv, PlaceOK, InSubTask
  <2>3. UNCHANGED <<cur, subTasks, accepted, rollbacks>> /\ err' = e
    BY <2>1 DEF AttemptFails
  <2>4. ListOK /\ Untouched
    BY <2>2 DEF UndoneOK, Progress
  <2>5. ListOK'
    BY <2>3, <2>4 DEF ListOK, Reversible
  <2>6. CASE try = subTasks[cur].retry
    <3>1. /\ pc' = "failed"
          /\ undone' = IF subTasks[cur].rollback THEN [undone EXCEPT ![cur] = @ + 1] ELSE undone
      BY <2>1, <2>6 DEF AttemptFails, LastAttempt, NoMoreTries
    <3>2. ASSUME NEW i \in Subs
          PROVE  undone'[i] = IF OwnRollback(i)' THEN 1 ELSE 0
      <4>1. OwnRollback(i)' <=> (i = cur /\ subTasks[cur].rollback)
        BY <2>1, <2>2, <2>3 DEF OwnRollback, Reversible
      <4>2. undone[i] = 0
        BY <2>4 DEF Untouched
      <4> QED BY <3>1, <4>1, <4>2
    <3> QED BY <2>5, <3>1, <3>2 DEF UndoneOK
  <2>7. CASE try # subTasks[cur].retry
    BY <2>1, <2>5, <2>7 DEF AttemptFails, NoMoreTries, UndoneOK
  <2> QED BY <2>6, <2>7
<1>10. CASE IgnoreError
  <2>1. pc = "failed" /\ pc' = "loop" /\ cur' = cur + 1
        /\ UNCHANGED <<subTasks, accepted, rollbacks>> /\ ListOK
    BY <1>10 DEF IgnoreError, UndoneOK
  <2>2. ListOK'
    BY <2>1 DEF ListOK, Reversible
  <2> QED BY <2>1, <2>2 DEF UndoneOK
<1>11. CASE FailTask
  <2>1. /\ pc = "failed" /\ pc' = "rollback" /\ next' = 1
        /\ UNCHANGED <<cur, err, subTasks, accepted, rollbacks, undone>>
        /\ ListOK
    BY <1>11 DEF FailTask, UndoneOK
  <2>2. ListOK'
    BY <2>1 DEF ListOK, Reversible
  <2>3. ASSUME NEW i \in Subs
        PROVE  undone'[i] = IF OwnRollback(i)'
                               \/ (\E j \in DOMAIN rollbacks' : j < next' /\ rollbacks'[j] = i)
                            THEN 1 ELSE 0
    <3>1. undone[i] = IF OwnRollback(i) THEN 1 ELSE 0
      BY <2>1 DEF UndoneOK
    <3>2. OwnRollback(i)' <=> OwnRollback(i)
      BY <2>1 DEF OwnRollback, Reversible
    <3>3. \A j \in DOMAIN rollbacks' : ~(j < next')
      BY <2>1
    <3> QED BY <2>1, <3>1, <3>2, <3>3
  <2>4. next' <= Len(rollbacks') + 1
    BY <2>1
  <2> QED BY <2>1, <2>2, <2>3, <2>4 DEF UndoneOK
<1>12. CASE RunRollback
  BY <1>12, RollbackAdvances
<1>13. CASE EndRollback
  <2>1. /\ pc = "rollback" /\ pc' = "finish" /\ next > Len(rollbacks)
        /\ UNCHANGED <<cur, err, subTasks, accepted, rollbacks, undone>>
        /\ ListOK
    BY <1>13 DEF EndRollback, UndoneOK
  <2>2. ASSUME NEW i \in Subs
        PROVE  undone'[i] = IF i \in accepted' \cap Reversible' \/ OwnRollback(i)'
                            THEN 1 ELSE 0
    <3>1. undone[i] = IF OwnRollback(i)
                         \/ (\E j \in DOMAIN rollbacks : j < next /\ rollbacks[j] = i)
                      THEN 1 ELSE 0
      BY <2>1 DEF UndoneOK
    <3>2. (\E j \in DOMAIN rollbacks : j < next /\ rollbacks[j] = i)
          <=> i \in accepted \cap Reversible
      <4>1. \A j \in DOMAIN rollbacks : j < next
        BY <2>1
      <4> QED BY <2>1, <4>1 DEF ListOK
    <3>3. Reversible' = Reversible /\ (OwnRollback(i)' <=> OwnRollback(i))
      BY <2>1 DEF OwnRollback, Reversible
    <3> QED BY <2>1, <3>1, <3>2, <3>3
  <2> QED BY <2>1, <2>2 DEF UndoneOK, Compensated
<1>14. CASE Finish
  <2>1. UNCHANGED <<cur, err, subTasks, accepted, undone>> /\ pc' = "ended"
    BY <1>14 DEF Finish
  <2>2. CASE pc = "finish"
    <3>1. Compensated'
      BY <2>1, <2>2 DEF UndoneOK, Compensated, OwnRollback, Reversible
    <3> QED BY <2>1, <3>1 DEF UndoneOK
  <2>3. CASE pc = "loop"
    <3>1. task'.status = "Success"
      BY <1>14, <2>3 DEF Finish, StatusOK, TypeInv, PlaceOK, TaskRows
    <3> QED BY <2>1, <3>1 DEF UndoneOK
  <2> QED BY <1>14, <2>2, <2>3 DEF Finish
<1>15. CASE Crash
  BY <1>15 DEF Crash, UndoneOK
<1>16. CASE Stop \/ Restart \/ SyncTask \/ UNCHANGED vars
  BY <1>16 DEF Stop, Restart, SyncTask, vars, UndoneOK, ListOK, OwnRollback, Compensated,
               Reversible
<1>17. CASE OtherObject
  <2>1. UNCHANGED <<engine, run, accepted, undone>>
    BY <1>17, OtherEffect DEF TypeInv, TypeOK
  <2> QED BY <2>1 DEF UndoneOK, ListOK, OwnRollback, Compensated, Reversible
<1> QED
  BY <1>1, <1>2, <1>3, <1>4, <1>5, <1>6, <1>7, <1>8, <1>9, <1>10, <1>11, <1>12,
     <1>13, <1>14, <1>15, <1>16, <1>17 DEF Next, EngineStep

\* A run that ends without success has called the Rollback of every completed
\* subtask once, that of the subtask that failed once unless it was shut down,
\* and no other.
THEOREM CompensationHolds == Spec => []Compensation
<1>1. CompensationInv => Compensation
  BY DEF CompensationInv, UndoneOK, Compensated, OwnRollback, Compensation
<1> QED
  BY <1>1, CompensationInit, CompensationStep, PTL DEF Spec
=============================================================================
