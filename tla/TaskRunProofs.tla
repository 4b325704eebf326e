---------------------------- MODULE TaskRunProofs ----------------------------
(***************************************************************************)
(* What a run of the task engine leaves behind: goroutines that still      *)
(* execute an Action, the registered cancel function, the row.             *)
(***************************************************************************)
EXTENDS TaskEngineProofs

-----------------------------------------------------------------------------
(* What a run leaves behind: goroutines, the cancel function, the row. *)

\* The attempts whose goroutine has not ended, by the subtask's timeout.
Untimed(a) == ~a.timed
Pending == running \cup {s.attempt : s \in sending}

\* An attempt without a timeout is one goroutine: it executes or it waits to
\* send one result.
OneGoroutine ==
    /\ \A s \in sending : Untimed(s.attempt) => s.attempt \notin running
    /\ \A s, t \in sending : Untimed(s.attempt) /\ s.attempt = t.attempt => s = t

OutliveInv == OnlyTimedActionsOutlive /\ OneGoroutine

\* Where the select is not waiting, or waits for an attempt with a timeout, no
\* attempt without one is left.
LEMMA NoUntimed ==
    ASSUME OnlyTimedActionsOutlive, pc # "select" \/ subTasks[cur].timed
    PROVE  /\ \A a \in running : ~Untimed(a)
           /\ \A s \in sending : ~Untimed(s.attempt)
BY DEF OnlyTimedActionsOutlive, Current, Untimed

\* Where none is left, nothing is to be shown.
LEMMA NoneUntimedNext ==
    ASSUME \A a \in running' : ~Untimed(a), \A s \in sending' : ~Untimed(s.attempt)
    PROVE  OutliveInv'
BY DEF OutliveInv, OnlyTimedActionsOutlive, OneGoroutine, Untimed

\* Losing a goroutine while the select keeps waiting keeps the invariant; so
\* does changing none of what it speaks of.
LEMMA ShrinkKeepsOutlive ==
    ASSUME OutliveInv, running' \subseteq running, sending' \subseteq sending,
           UNCHANGED <<pc, run, cur, try, subTasks>>
    PROVE  OutliveInv'
BY DEF OutliveInv, OnlyTimedActionsOutlive, OneGoroutine, Current, Untimed

\* The same without a select to wait.
LEMMA ShrinkOutsideSelect ==
    ASSUME OutliveInv, running' \subseteq running, sending' \subseteq sending,
           pc # "select"
    PROVE  OutliveInv'
BY NoUntimed, NoneUntimedNext DEF OutliveInv

\* The goroutine of an attempt comes to its send.
LEMMA ReturnKeepsOutlive ==
    ASSUME OutliveInv, NEW a \in running, NEW res \in Results, ActionReturns(a, res)
    PROVE  OutliveInv'
<1> DEFINE m == [attempt |-> a, res |-> res]
<1>1. /\ running' = running \ {a} /\ sending' = sending \cup {m} /\ m.attempt = a
      /\ UNCHANGED <<pc, run, cur, try, subTasks>>
  BY DEF ActionReturns, engine
<1> HIDE DEF m
<1>2. Current' = Current
  BY <1>1 DEF Current
<1>3. OnlyTimedActionsOutlive'
  BY <1>1, <1>2 DEF OutliveInv, OnlyTimedActionsOutlive
<1>4. \A s \in sending' : Untimed(s.attempt) => s.attempt \notin running'
  BY <1>1 DEF OutliveInv, OneGoroutine
<1>5. \A s, t \in sending' : Untimed(s.attempt) /\ s.attempt = t.attempt => s = t
  BY <1>1 DEF OutliveInv, OneGoroutine
<1> QED
  BY <1>3, <1>4, <1>5 DEF OutliveInv, OneGoroutine

\* The select takes the result of the current attempt: when that attempt has no
\* timeout, it was the only such goroutine, and it is gone.
LEMMA ReceiveEndsUntimed ==
    ASSUME OutliveInv, NEW res, Receives(res), running' = running
    PROVE  OutliveInv'
<1> DEFINE m == [attempt |-> Current, res |-> res]
<1>1. m \in sending /\ sending' = sending \ {m} /\ m.attempt = Current /\ pc = "select"
  BY DEF Receives
<1> HIDE DEF m
<1>2. CASE Untimed(Current)
  <2>1. Current \notin running /\ \A s \in sending : s.attempt = Current => s = m
    BY <1>1, <1>2 DEF OutliveInv, OneGoroutine
  <2>2. \A a \in running : ~Untimed(a)
    BY <2>1 DEF OutliveInv, OnlyTimedActionsOutlive, Untimed
  <2>3. \A s \in sending' : ~Untimed(s.attempt)
    BY <1>1, <2>1 DEF OutliveInv, OnlyTimedActionsOutlive, Untimed
  <2> QED BY <2>2, <2>3, NoneUntimedNext
<1>3. CASE ~Untimed(Current)
  <2>1. /\ \A a \in running : ~Untimed(a)
        /\ \A s \in sending : ~Untimed(s.attempt)
    BY <1>3 DEF OutliveInv, OnlyTimedActionsOutlive, Untimed
  <2> QED BY <1>1, <2>1, NoneUntimedNext
<1> QED
  BY <1>2, <1>3

\* A new attempt starts where none without a timeout is left.
LEMMA StartKeepsOutlive ==
    ASSUME OutliveInv, StartAttempt
    PROVE  OutliveInv'
<1>1. /\ pc = "attempt" /\ pc' = "select" /\ running' = running \cup {Current}
      /\ sending' = sending /\ UNCHANGED <<run, cur, try, subTasks>>
  BY DEF StartAttempt
<1>2. /\ \A a \in running : ~Untimed(a)
      /\ \A s \in sending : ~Untimed(s.attempt)
  BY <1>1, NoUntimed DEF OutliveInv
<1>3. Current' = Current
  BY <1>1 DEF Current
<1>4. OnlyTimedActionsOutlive'
  BY <1>1, <1>2, <1>3 DEF OnlyTimedActionsOutlive, Untimed
<1>5. OneGoroutine'
  BY <1>1, <1>2 DEF OneGoroutine, Untimed
<1> QED
  BY <1>4, <1>5 DEF OutliveInv

LEMMA OutliveInit == Init => OutliveInv
BY DEF Init, OutliveInv, OnlyTimedActionsOutlive, OneGoroutine

LEMMA OutliveStep == TypeInv /\ OutliveInv /\ [Next]_vars => OutliveInv'
<1> SUFFICES ASSUME TypeInv, OutliveInv, [Next]_vars PROVE OutliveInv'
  OBVIOUS
<1> USE DEF engine
<1>1. CASE NewTask \/ ReNewTask
  BY <1>1, ShrinkOutsideSelect DEF NewTask, ReNewTask, NewObject
<1>2. CASE AddSubTask \/ AddSubTaskWithOps \/ AddSubTaskWithIgnoreErr
  <2>1. PICK s : Append1(s)
    BY <1>2 DEF AddSubTask, AddSubTaskWithOps, AddSubTaskWithIgnoreErr
  <2> QED BY <2>1, ShrinkOutsideSelect DEF Append1
<1>3. CASE Discard \/ Execute \/ BeginSubTask
  BY <1>3, ShrinkOutsideSelect DEF Discard, Execute, BeginSubTask
<1>4. CASE IgnoreError \/ FailTask \/ RunRollback \/ EndRollback \/ Finish
  BY <1>4, ShrinkOutsideSelect
     DEF IgnoreError, FailTask, RunRollback, EndRollback, Finish
<1>5. CASE StartAttempt
  BY <1>5, StartKeepsOutlive
<1>6. CASE SubTaskSucceeds \/ SubTaskShutDown
  BY <1>6, ReceiveEndsUntimed DEF SubTaskSucceeds, SubTaskShutDown
<1>7. CASE SubTaskFails
  <2>1. PICK res \in {"fail", "canceled"} : Receives(res) /\ AttemptFails(res)
    BY <1>7 DEF SubTaskFails
  <2> QED BY <2>1, ReceiveEndsUntimed DEF AttemptFails
<1>8. CASE SubTaskTimesOut
  <2>1. subTasks[cur].timed /\ UNCHANGED <<running, sending>>
    BY <1>8 DEF SubTaskTimesOut, HasTimeout, AttemptFails
  <2> QED BY <2>1, NoUntimed, NoneUntimedNext DEF OutliveInv
<1>9. CASE \E a \in running, res \in Results : ActionReturns(a, res)
  BY <1>9, ReturnKeepsOutlive
<1>10. CASE Stop \/ Restart \/ SyncTask \/ UNCHANGED vars
  BY <1>10, ShrinkKeepsOutlive DEF Stop, Restart, SyncTask, vars
<1>11. CASE Crash
  BY <1>11, NoneUntimedNext DEF Crash
<1>12. CASE OtherObject
  BY <1>12, OtherEffect, ShrinkKeepsOutlive DEF TypeInv, TypeOK
<1> QED
  BY <1>1, <1>2, <1>3, <1>4, <1>5, <1>6, <1>7, <1>8, <1>9, <1>10, <1>11, <1>12
     DEF Next, EngineStep

\* An Action outlives the engine's interest in it only when its subtask has a
\* timeout: whatever is retried, stopped, ignored or run again, two attempts of
\* a subtask without one never overlap, nor does one overlap a later subtask.
THEOREM OnlyTimedActionsOutliveHolds == Spec => []OnlyTimedActionsOutlive
<1>1. OutliveInv => OnlyTimedActionsOutlive
  BY DEF OutliveInv
<1> QED
  BY <1>1, TypeInit, TypeStep, OutliveInit, OutliveStep, PTL DEF Spec

\* The cancel function is registered only before the return of the first
\* SubTask.Execute.
LEMMA StopInit == Init => StopReachesFirstSubTask
BY DEF Init, StopReachesFirstSubTask

LEMMA StopStep ==
    SuccessInv /\ StopReachesFirstSubTask /\ [Next]_vars => StopReachesFirstSubTask'
<1> SUFFICES ASSUME SuccessInv, StopReachesFirstSubTask, [Next]_vars, token'
             PROVE  StopReachesFirstSubTask'
  BY DEF StopReachesFirstSubTask
<1> USE DEF engine, StopReachesFirstSubTask
<1>1. CASE NewTask \/ ReNewTask
  BY <1>1 DEF NewTask, ReNewTask, NewObject
<1>2. CASE AddSubTask \/ AddSubTaskWithOps \/ AddSubTaskWithIgnoreErr
  BY <1>2 DEF AddSubTask, AddSubTaskWithOps, AddSubTaskWithIgnoreErr, Append1
<1>3. CASE Execute
  BY <1>3 DEF Execute, SuccessInv, Progress
<1>4. CASE Discard \/ BeginSubTask \/ StartAttempt
  BY <1>4 DEF Discard, BeginSubTask, StartAttempt
<1>5. CASE SubTaskSucceeds \/ SubTaskShutDown
  BY <1>5 DEF SubTaskSucceeds, SubTaskShutDown, RemoveTaskCancel
<1>6. CASE SubTaskFails \/ SubTaskTimesOut
  <2>1. PICK e \in Errors : AttemptFails(e)
    BY <1>6 DEF SubTaskFails, SubTaskTimesOut, Errors
  <2>2. pc = "select"
    BY <1>6 DEF SubTaskFails, SubTaskTimesOut, Receives
  <2> QED BY <2>1, <2>2 DEF AttemptFails, RemoveTaskCancel
<1>7. CASE IgnoreError \/ FailTask \/ RunRollback \/ EndRollback
  BY <1>7 DEF IgnoreError, FailTask, RunRollback, EndRollback
<1>8. CASE Finish
  <2>1. subTasks \in Seq(SubTask)
    BY DEF SuccessInv, TypeInv, TypeOK
  <2>2. cur = 1 /\ cur > Len(subTasks) => subTasks = <<>>
    BY <2>1
  <2> QED BY <1>8, <2>2 DEF Finish
<1>9. CASE \E a \in running, res \in Results : ActionReturns(a, res)
  BY <1>9 DEF ActionReturns
<1>10. CASE Stop \/ Crash \/ Restart \/ SyncTask \/ UNCHANGED vars
  BY <1>10 DEF Stop, Crash, Restart, SyncTask, vars
<1>11. CASE OtherObject
  BY <1>11, OtherEffect DEF SuccessInv, TypeInv, TypeOK
<1> QED
  BY <1>1, <1>2, <1>3, <1>4, <1>5, <1>6, <1>7, <1>8, <1>9, <1>10, <1>11 DEF Next, EngineStep

\* A stop request reaches a run only while its first subtask is the current
\* one: every return of SubTask.Execute takes the cancel function away.
THEOREM StopReachesFirstSubTaskHolds == Spec => []StopReachesFirstSubTask
<1> QED
  BY SuccessInit, SuccessStep, StopInit, StopStep, PTL DEF Spec

\* An ended Task object is not Executing, so the clean-up cannot touch its row;
\* another object touches it in its own name.
Settled ==
    /\ pc = "ended" => task.status # "Executing"
    /\ RowSettled

LEMMA SettledInit == Init => Settled
BY DEF Init, NoObject, Settled, RowSettled

LEMMA SettledStep == TypeInv /\ Settled /\ [Next]_vars => Settled'
<1> SUFFICES ASSUME TypeInv, Settled, [Next]_vars, pc' = "ended" PROVE Settled'
  BY DEF Settled, RowSettled
<1> USE DEF engine, Settled, RowSettled
<1>1. CASE Finish
  <2>1. pc # "idle"
    BY <1>1 DEF Finish
  <2>2. task \in TaskRows
    BY <2>1 DEF TypeInv, PlaceOK
  <2>3. task'.status # "Executing"
    BY <1>1, <2>2 DEF Finish, TaskRows
  <2>4. ~DbMayFail => row' = task'
    BY <1>1 DEF Finish, UpdateTask
  <2> QED BY <2>3, <2>4
<1>2. CASE SyncTask
  <2>1. UNCHANGED <<pc, task>>
    BY <1>2 DEF SyncTask
  <2>2. row.status # "Executing" => row' = row
    BY <1>2 DEF SyncTask, LeftExecuting
  <2>3. writer' = writer
    BY <1>2 DEF SyncTask
  <2> QED BY <2>1, <2>2, <2>3
<1>3. CASE Stop \/ Restart \/ UNCHANGED vars
  BY <1>3 DEF Stop, Restart, vars
<1>4. CASE \E a \in running, res \in Results : ActionReturns(a, res)
  BY <1>4 DEF ActionReturns
<1>5. CASE NewTask \/ ReNewTask \/ AddSubTask \/ AddSubTaskWithOps
           \/ AddSubTaskWithIgnoreErr \/ Discard \/ Execute
  BY <1>5 DEF NewTask, ReNewTask, NewObject, AddSubTask, AddSubTaskWithOps,
              AddSubTaskWithIgnoreErr, Append1, Discard, Execute
<1>6. CASE BeginSubTask \/ StartAttempt \/ SubTaskSucceeds \/ SubTaskShutDown
           \/ IgnoreError \/ FailTask
  BY <1>6 DEF BeginSubTask, StartAttempt, SubTaskSucceeds, SubTaskShutDown,
              IgnoreError, FailTask
<1>7. CASE SubTaskFails \/ SubTaskTimesOut
  BY <1>7 DEF SubTaskFails, SubTaskTimesOut, AttemptFails
<1>8. CASE RunRollback \/ EndRollback \/ Crash
  BY <1>8 DEF RunRollback, EndRollback, Crash
<1>9. CASE OtherObject
  BY <1>9, OtherEffect DEF TypeInv, TypeOK
<1> QED
  BY <1>1, <1>2, <1>3, <1>4, <1>5, <1>6, <1>7, <1>8, <1>9 DEF Next, EngineStep

\* Where the database accepts every update, the row of an ended run is what its
\* Task object says, even if the clean-up of the restart overwrote it midway, unless
\* another object of the id has written it last.
THEOREM RowSettledHolds == Spec => []RowSettled
<1>1. Settled => RowSettled
  BY DEF Settled
<1> QED
  BY <1>1, TypeInit, TypeStep, SettledInit, SettledStep, PTL DEF Spec
=============================================================================
