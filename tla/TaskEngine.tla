----------------------------- MODULE TaskEngine -----------------------------
(***************************************************************************)
(* The task engine of the agent (agent/app/task/task.go): one task id, its *)
(* row in the task database, the Task object that runs it, the goroutine   *)
(* every attempt of a subtask runs in, the cancel function registered for  *)
(* the id (agent/global/global.go), and the restart of the agent with the  *)
(* clean-up of rows it left Executing (agent/init/business/business.go).   *)
(*                                                                         *)
(* Times are abstracted: a subtask either has a timeout, which may expire  *)
(* at any moment while the engine waits, or has none.  The one second      *)
(* sleep between attempts and the log file are left out.                   *)
(***************************************************************************)
EXTENDS Naturals, Sequences, FiniteSets

CONSTANTS
    MaxSub,     \* bound on the subtasks of one task
    MaxRetry,   \* bound on the Retry of a subtask
    MaxRuns,    \* bound on the Task objects built for the id
    DbMayFail,  \* may an update of the row fail? (updateTask drops the error)
    Others      \* may another Task object of the id be made beside this one?

ASSUME MaxSubAssumption == MaxSub \in Nat
ASSUME MaxRetryAssumption == MaxRetry \in Nat
ASSUME MaxRunsAssumption == MaxRuns \in Nat
ASSUME DbMayFailAssumption == DbMayFail \in BOOLEAN
ASSUME OthersAssumption == Others \in BOOLEAN

VARIABLES
    up,          \* is the agent process running?
    syncPending, \* has the goroutine "go syncTask()" of this boot still to run?
    row,         \* the row of the id in the task database
    task,        \* t.Task, the row as the Task object holds it
    ctx,         \* t.TaskCtx: "nil", "live" or "canceled"
    token,       \* does TaskCtxMap hold a cancel function of these runs for the id?
    other,       \* is another Task object of the id under way?
    subTasks,    \* t.SubTasks
    pc,          \* where the goroutine that runs Execute is
    cur,         \* the loop variable of Task.Execute, from 1
    try,         \* the loop variable of SubTask.Execute, from 0
    err,         \* the error SubTask.Execute returned
    rollbacks,   \* t.Rollbacks, as the indices of the subtasks they belong to
    next,        \* the next entry of t.Rollbacks to call
    running,     \* attempts whose Action is executing in its goroutine
    sending,     \* attempts whose Action returned, blocked on "done <-"
    run,         \* number of Task objects built so far (names the attempts)
    writer,      \* ghost: the run whose write to the row succeeded last, 0: the other's
    accepted,    \* ghost: subtasks of this run whose success was received
    undone       \* ghost: how often each subtask's Rollback was called

engine == <<task, ctx, subTasks, pc, cur, try, err, rollbacks, next>>
vars == <<up, syncPending, row, engine, token, other, running, sending, run,
          writer, accepted, undone>>

Subs == 1..MaxSub
Statuses == {"Executing", "Success", "Failed", "Canceled"}
Results == {"ok", "fail", "canceled", "shutdown"}
Errors == {"none", "fail", "canceled", "shutdown", "timeout", "restart"}

\* model.Task: the fields the engine decides on or the user reads.
TaskRows == [status : Statuses, step : 0..MaxSub, err : Errors]
NoRow == [status |-> "None", step |-> 0, err |-> "none"]

SubTask == [retry : 0..MaxRetry, timed : BOOLEAN, rollback : BOOLEAN,
            ignoreErr : BOOLEAN]

\* An attempt is named by the run, the subtask and the try it belongs to;
\* timed tells whether the engine may give up on it.
Attempts == [run : Nat, sub : Subs, try : 0..MaxRetry, timed : BOOLEAN]
Current == [run |-> run, sub |-> cur, try |-> try, timed |-> subTasks[cur].timed]

Executing == {"loop", "attempt", "select", "failed", "rollback", "finish"}
PCs == {"idle", "build", "ended"} \cup Executing

-----------------------------------------------------------------------------
NoObject ==
    /\ task = NoRow /\ ctx = "nil" /\ subTasks = <<>> /\ pc = "idle"
    /\ cur = 1 /\ try = 0 /\ err = "none" /\ rollbacks = <<>> /\ next = 1

Init ==
    /\ up = TRUE /\ syncPending = TRUE
    /\ row = NoRow
    /\ NoObject
    /\ token = FALSE /\ other = FALSE
    /\ running = {} /\ sending = {}
    /\ run = 0 /\ writer = 0
    /\ accepted = {} /\ undone = [i \in Subs |-> 0]

\* Mutant: only a row that is still Executing is overwritten.
UpdateTaskIfExecuting ==
    IF row.status = "Executing" THEN row' = task' /\ writer' = run'
                                ELSE UNCHANGED <<row, writer>>

\* updateTask saves the whole record, whatever the row holds by now, and drops
\* the error of the save.
UpdateTask ==
    \/ row' = task' /\ writer' = run'
    \/ DbMayFail /\ UNCHANGED <<row, writer>>

\* The Task object both constructors return: no subtask yet, no rollback.
NewObject(t, c) ==
    /\ up /\ pc \in {"idle", "ended"} /\ run < MaxRuns
    /\ task' = t /\ ctx' = c
    /\ subTasks' = <<>> /\ pc' = "build" /\ cur' = 1 /\ try' = 0
    /\ err' = "none" /\ rollbacks' = <<>> /\ next' = 1
    /\ run' = run + 1 /\ accepted' = {} /\ undone' = [i \in Subs |-> 0]
    /\ UNCHANGED <<up, other, syncPending, running, sending>>

\* NewTask registers the cancel function; it neither reads nor writes the row,
\* which exists already when a recovery is started afresh under its old id.
NewTask ==
    /\ NewObject([NoRow EXCEPT !.status = "Executing"], "live")
    /\ token' = TRUE
    /\ UNCHANGED <<row, writer>>

\* ReNewTask of an id that has a row (else it is NewTask): the row becomes
\* Executing at once and keeps its error message and step; no context, no
\* cancel function.
ReNewTask ==
    /\ row # NoRow
    /\ NewObject([row EXCEPT !.status = "Executing"], "nil")
    /\ UpdateTask
    /\ UNCHANGED token

Append1(s) ==
    /\ up /\ pc = "build" /\ Len(subTasks) < MaxSub
    /\ subTasks' = Append(subTasks, s)
    /\ UNCHANGED <<up, other, syncPending, row, task, ctx, pc, cur, try, err,
                   rollbacks, next, token, running, sending, run, writer,
                   accepted, undone>>

\* AddSubTask and AddSubTaskWithAlias: no retry, half an hour.
AddSubTask ==
    \E rb \in BOOLEAN :
        Append1([retry |-> 0, timed |-> TRUE, rollback |-> rb, ignoreErr |-> FALSE])

\* AddSubTaskWithOps and AddSubTaskWithAliasAndOps.
AddSubTaskWithOps ==
    \E rb \in BOOLEAN, r \in 0..MaxRetry, timed \in BOOLEAN :
        Append1([retry |-> r, timed |-> timed, rollback |-> rb, ignoreErr |-> FALSE])

AddSubTaskWithIgnoreErr ==
    Append1([retry |-> 0, timed |-> TRUE, rollback |-> FALSE, ignoreErr |-> TRUE])

\* The caller of NewTask returns before Execute (HandleJob, when loadTask finds
\* an empty script or url): nothing takes the cancel function back.  The callers
\* of ReNewTask always go on to Execute.
Discard ==
    /\ up /\ pc = "build" /\ ctx # "nil"
    /\ pc' = "idle"
    /\ UNCHANGED <<up, other, syncPending, row, task, ctx, subTasks, cur, try,
                   err, rollbacks, next, token, running, sending, run, writer,
                   accepted, undone>>

-----------------------------------------------------------------------------
(* SubTask.Execute and Task.Execute *)

\* Mutant: no such call.
KeepTaskCancel == UNCHANGED token

\* The deferred call of SubTask.Execute, at each of its returns.
RemoveTaskCancel == token' = FALSE

\* Mutant: the attempt's context never gets a deadline.
NeverTimesOut == FALSE

\* Mutant: a timeout of zero is a timeout that has expired.
ZeroTimesOut == TRUE

\* A timeout of zero is replaced by a context without a deadline.
HasTimeout == subTasks[cur].timed

\* Mutant: one attempt too many.
OneMoreTry == try > subTasks[cur].retry

\* The end of the loop over the attempts.
NoMoreTries == try = subTasks[cur].retry

\* Mutant: every failed attempt counts as the last one for the Rollback.
AnyAttempt == TRUE

\* The attempt after which the subtask's own Rollback is called.
LastAttempt == try = subTasks[cur].retry

\* Mutant: the error of any subtask is passed over.
PassedOver == TRUE

Ignored == subTasks[cur].ignoreErr

\* Mutant: the Rollback of the first subtask is lost.
RememberLater ==
    IF subTasks[cur].rollback /\ cur > 1 THEN Append(rollbacks, cur) ELSE rollbacks

\* t.Rollbacks after the success of the current subtask.
Remember ==
    IF subTasks[cur].rollback THEN Append(rollbacks, cur) ELSE rollbacks

\* The first Save of the row; when it fails Execute returns at once and the
\* cancel function stays registered.
Execute ==
    /\ up /\ pc = "build"
    /\ \/ row' = task /\ writer' = run /\ pc' = "loop"
       \/ DbMayFail /\ pc' = "idle" /\ UNCHANGED <<row, writer>>
    /\ UNCHANGED <<up, other, syncPending, task, ctx, subTasks, cur, try, err,
                   rollbacks, next, token, running, sending, run, accepted,
                   undone>>

\* Top of the loop over the subtasks: record the step, enter SubTask.Execute.
BeginSubTask ==
    /\ up /\ pc = "loop" /\ cur <= Len(subTasks)
    /\ task' = [task EXCEPT !.step = cur]
    /\ pc' = "attempt" /\ try' = 0
    /\ UNCHANGED run /\ UpdateTask
    /\ UNCHANGED <<up, other, syncPending, ctx, subTasks, cur, err, rollbacks,
                   next, token, running, sending, accepted, undone>>

\* "go func() { done <- s.Action(s.RootTask) }()"
StartAttempt ==
    /\ up /\ pc = "attempt"
    /\ running' = running \cup {Current}
    /\ pc' = "select"
    /\ UNCHANGED <<up, other, syncPending, row, task, ctx, subTasks, cur, try,
                   err, rollbacks, next, token, sending, run, writer, accepted,
                   undone>>

\* An Action returns.  It reports a cancellation only when its context was
\* canceled: as ErrShutDown from a command, as context.Canceled elsewhere.
ActionReturns(a, res) ==
    /\ up /\ a \in running
    /\ res \in {"canceled", "shutdown"} => ctx = "canceled" /\ a.run = run
    /\ ~(pc = "select" /\ a = Current) => res = "ok" \* nobody will look at it
    /\ running' = running \ {a}
    /\ sending' = sending \cup {[attempt |-> a, res |-> res]}
    /\ UNCHANGED <<up, other, syncPending, row, engine, token, run, writer,
                   accepted, undone>>

\* The select receives from the channel of the current attempt.
Receives(res) ==
    /\ up /\ pc = "select"
    /\ [attempt |-> Current, res |-> res] \in sending
    /\ sending' = sending \ {[attempt |-> Current, res |-> res]}

\* Success: the deferred RemoveTaskCancel runs, the Rollback is remembered.
SubTaskSucceeds ==
    /\ Receives("ok")
    /\ RemoveTaskCancel
    /\ accepted' = accepted \cup {cur}
    /\ rollbacks' = Remember
    /\ cur' = cur + 1 /\ pc' = "loop"
    /\ UNCHANGED <<up, other, syncPending, row, task, ctx, subTasks, try, err,
                   next, running, run, writer, undone>>

\* ErrShutDown returns at once: no further attempt, no Rollback of its own.
SubTaskShutDown ==
    /\ Receives("shutdown")
    /\ RemoveTaskCancel
    /\ err' = "shutdown" /\ pc' = "failed"
    /\ UNCHANGED <<up, other, syncPending, row, task, ctx, subTasks, cur, try,
                   rollbacks, next, running, run, writer, accepted, undone>>

\* The end of a failed attempt: another one, or after the last one the
\* subtask's own Rollback and the return of the error.
AttemptFails(e) ==
    /\ err' = e
    /\ IF NoMoreTries
       THEN pc' = "failed" /\ RemoveTaskCancel /\ UNCHANGED try
       ELSE pc' = "attempt" /\ try' = try + 1 /\ UNCHANGED token
    /\ undone' = IF LastAttempt /\ subTasks[cur].rollback
                 THEN [undone EXCEPT ![cur] = @ + 1] ELSE undone
    /\ UNCHANGED <<up, other, syncPending, row, task, ctx, subTasks, cur,
                   rollbacks, next, running, run, writer, accepted>>

SubTaskFails ==
    \E res \in {"fail", "canceled"} : Receives(res) /\ AttemptFails(res)

\* The timeout expires first: the goroutine of the attempt is left behind.
SubTaskTimesOut ==
    /\ up /\ pc = "select" /\ HasTimeout
    /\ AttemptFails("timeout")
    /\ UNCHANGED sending

\* SubTask.Execute returned an error that is ignored.
IgnoreError ==
    /\ up /\ pc = "failed" /\ Ignored
    /\ err' = "none" /\ cur' = cur + 1 /\ pc' = "loop"
    /\ UNCHANGED <<up, other, syncPending, row, task, ctx, subTasks, try,
                   rollbacks, next, token, running, sending, run, writer,
                   accepted, undone>>

\* ... or fails the task.
FailTask ==
    /\ up /\ pc = "failed" /\ ~Ignored
    /\ task' = [task EXCEPT !.err = err,
                    !.status = IF err = "canceled" THEN "Canceled" ELSE "Failed"]
    /\ pc' = "rollback" /\ next' = 1
    /\ UNCHANGED <<up, other, syncPending, row, ctx, subTasks, cur, try, err,
                   rollbacks, token, running, sending, run, writer, accepted,
                   undone>>

\* One call of the loop over t.Rollbacks, in the order of completion.
RunRollback ==
    /\ up /\ pc = "rollback" /\ next <= Len(rollbacks)
    /\ undone' = [undone EXCEPT ![rollbacks[next]] = @ + 1]
    /\ next' = next + 1
    /\ UNCHANGED <<up, other, syncPending, row, task, ctx, subTasks, pc, cur,
                   try, err, rollbacks, token, running, sending, run, writer,
                   accepted>>

EndRollback ==
    /\ up /\ pc = "rollback" /\ next > Len(rollbacks)
    /\ pc' = "finish"
    /\ UNCHANGED <<task, run>> /\ UpdateTask
    /\ UNCHANGED <<up, other, syncPending, ctx, subTasks, cur, try, err,
                   rollbacks, next, token, running, sending, accepted, undone>>

\* After the loop: a status nobody changed becomes Success.
Finish ==
    /\ up
    /\ pc = "finish" \/ (pc = "loop" /\ cur > Len(subTasks))
    /\ task' = IF task.status = "Executing" THEN [task EXCEPT !.status = "Success"]
                                            ELSE task
    /\ pc' = "ended"
    /\ UNCHANGED run /\ UpdateTask
    /\ UNCHANGED <<up, other, syncPending, ctx, subTasks, cur, try, err,
                   rollbacks, next, token, running, sending, accepted, undone>>

-----------------------------------------------------------------------------
\* HandleStop, StopCompress and StopDeCompress call the registered cancel
\* function, which belongs to the context of the object NewTask returned.
Stop ==
    /\ up /\ token /\ ctx = "live"
    /\ ctx' = "canceled"
    /\ UNCHANGED <<up, other, syncPending, row, task, subTasks, pc, cur, try,
                   err, rollbacks, next, token, running, sending, run, writer,
                   accepted, undone>>

\* The process dies: every goroutine and the map of cancel functions go.
Crash ==
    /\ up /\ run > 0
    /\ up' = FALSE /\ syncPending' = FALSE
    /\ task' = NoRow /\ ctx' = "nil" /\ pc' = "idle" /\ try' = 0
    /\ err' = "none" /\ rollbacks' = <<>> /\ next' = 1
    /\ token' = FALSE /\ other' = FALSE /\ running' = {} /\ sending' = {}
    /\ UNCHANGED <<row, subTasks, cur, run, writer, accepted, undone>>

\* server.Start reaches business.Init, which starts "go syncTask()".
Restart ==
    /\ ~up
    /\ up' = TRUE /\ syncPending' = TRUE
    /\ UNCHANGED <<row, engine, token, other, running, sending, run, writer,
                   accepted, undone>>

\* Mutant: the status job records have while they run.
LeftRunning == row.status = "Running"

LeftExecuting == row.status = "Executing"

\* SyncForRestart: every Executing row becomes Failed, whoever runs it.
SyncTask ==
    /\ up /\ syncPending
    /\ syncPending' = FALSE
    /\ row' = IF LeftExecuting
              THEN [row EXCEPT !.status = "Failed", !.err = "restart"] ELSE row
    /\ UNCHANGED <<up, other, engine, token, running, sending, run, writer,
                   accepted, undone>>

-----------------------------------------------------------------------------
(* Another Task object of the same id.  Neither constructor asks whether the id *)
(* is in use, and the recovery and the rollback of a snapshot build each object *)
(* under the id of the one before, which may be under way.  What it shares with *)
(* this one are the row and the entry of TaskCtxMap.  What it writes leaves out  *)
(* its step, and tells a cancellation from no other failure.                    *)

OtherSaves(statuses) ==
    /\ \E s \in statuses :
          row' = [status |-> s, step |-> 0,
                  err |-> IF s = "Failed" THEN "fail" ELSE "none"]
    /\ writer' = 0

OtherLoses == DbMayFail /\ UNCHANGED <<row, writer>>

OtherKeeps == UNCHANGED <<up, syncPending, engine, running, sending, run, accepted, undone>>

\* NewTask, beside an object that is being built, executed or has ended: its cancel
\* function takes the place of that of this one.  It may be dropped at once.
OtherNewTask ==
    /\ Others /\ up /\ pc # "idle" /\ ~other
    /\ other' \in BOOLEAN /\ token' = FALSE
    /\ UNCHANGED <<row, writer>> /\ OtherKeeps

\* ReNewTask writes the row at once.
OtherReNewTask ==
    /\ Others /\ up /\ pc # "idle" /\ ~other /\ row # NoRow
    /\ other' = TRUE
    /\ (row' = [row EXCEPT !.status = "Executing"] /\ writer' = 0) \/ OtherLoses
    /\ UNCHANGED token /\ OtherKeeps

\* Execute saves the row at its beginning and at each subtask, the return of which
\* removes the cancel function of the id, and with a failure after the rollbacks.
OtherUpdates ==
    /\ other /\ OtherSaves({"Executing", "Failed"})
    /\ token' \in {token, FALSE}
    /\ UNCHANGED other /\ OtherKeeps

\* The last update of its Execute, with a final status.
OtherEnds ==
    /\ other /\ other' = FALSE
    /\ OtherSaves({"Success", "Failed"}) \/ OtherLoses
    /\ token' \in {token, FALSE}
    /\ OtherKeeps

OtherObject == OtherNewTask \/ OtherReNewTask \/ OtherUpdates \/ OtherEnds

-----------------------------------------------------------------------------
\* The steps of the goroutine that runs Execute.
EngineStep ==
    \/ Execute \/ BeginSubTask \/ StartAttempt \/ SubTaskSucceeds
    \/ SubTaskShutDown \/ SubTaskFails \/ IgnoreError \/ FailTask
    \/ RunRollback \/ EndRollback \/ Finish

UntimedActionReturns ==
    \E a \in running, res \in Results : ~a.timed /\ ActionReturns(a, res)

Next ==
    \/ NewTask \/ ReNewTask
    \/ AddSubTask \/ AddSubTaskWithOps \/ AddSubTaskWithIgnoreErr \/ Discard
    \/ EngineStep \/ SubTaskTimesOut
    \/ \E a \in running, res \in Results : ActionReturns(a, res)
    \/ Stop \/ Crash \/ Restart \/ SyncTask
    \/ OtherObject

Spec == Init /\ [][Next]_vars

\* The scheduler runs the engine's goroutine, timers fire, a restarted agent
\* runs its clean-up.  An Action may hang for ever, unless it has no timeout:
\* then nothing but its return can end the task, so its return is assumed.
Fairness ==
    /\ WF_vars(EngineStep)
    /\ WF_vars(SubTaskTimesOut)
    /\ WF_vars(UntimedActionReturns)
    /\ WF_vars(Restart)
    /\ WF_vars(SyncTask)

FairSpec == Spec /\ Fairness

-----------------------------------------------------------------------------
(* Properties *)

TypeOK ==
    /\ up \in BOOLEAN /\ syncPending \in BOOLEAN
    /\ row \in TaskRows \cup {NoRow} /\ task \in TaskRows \cup {NoRow}
    /\ ctx \in {"nil", "live", "canceled"} /\ token \in BOOLEAN
    /\ other \in BOOLEAN
    /\ subTasks \in Seq(SubTask) /\ Len(subTasks) <= MaxSub
    /\ pc \in PCs /\ cur \in 1..MaxSub + 1 /\ try \in 0..MaxRetry
    /\ err \in Errors /\ rollbacks \in Seq(Subs) /\ next \in Nat \ {0}
    /\ running \subseteq Attempts
    /\ sending \subseteq [attempt : Attempts, res : Results]
    /\ run \in Nat /\ writer \in Nat
    /\ accepted \subseteq Subs /\ undone \in [Subs -> Nat]

Required == {i \in DOMAIN subTasks : ~subTasks[i].ignoreErr}
Reversible == {i \in DOMAIN subTasks : subTasks[i].rollback}

\* A row that this run left as Success stands for a run in which every subtask
\* that may not fail reported success, within its timeout, to the engine, and
\* in which nothing was rolled back: neither a lost update of the row, nor the
\* restart's clean-up, nor a crash makes a Success of anything less.
SuccessMeansDone ==
    row.status = "Success" /\ writer = run =>
        /\ Required \subseteq accepted
        /\ \A i \in Subs : undone[i] = 0

\* A run that ends without success has called the Rollback of every completed
\* subtask exactly once, and that of the subtask that failed once, unless the
\* subtask was shut down (its own Rollback is then skipped); no other.
Compensation ==
    pc = "ended" /\ task.status # "Success" =>
        \A i \in Subs :
            undone[i] = IF i \in accepted \cap Reversible
                           \/ (i = cur /\ i \in Reversible /\ err # "shutdown")
                        THEN 1 ELSE 0

\* The engine leaves an Action executing, or blocked on its channel, only when
\* the subtask has a timeout: two attempts of a subtask without one, or such an
\* attempt and a later subtask, never overlap.
OnlyTimedActionsOutlive ==
    \A a \in running \cup {s.attempt : s \in sending} :
        a.timed \/ (pc = "select" /\ a = Current)

\* A stop request can reach a run only while its first subtask is the current
\* one (every return of SubTask.Execute takes the cancel function away), and an
\* ended run leaves the function behind only if it had no subtask.
StopReachesFirstSubTask ==
    token => \/ pc \in {"idle", "build"}
             \/ cur = 1 /\ pc \in {"loop", "attempt", "select"}
             \/ subTasks = <<>>

\* Where the database accepts every update, the row of an ended run is what its
\* Task object says, even if the clean-up of the restart overwrote it midway, unless
\* another object of the id has written it last.
RowSettled == pc = "ended" /\ ~DbMayFail => row = task \/ writer = 0

\* A row that says "1Panel restart causes failure" (UpdateRunningTaskToFailed)
\* belongs to a task the restart killed, not to one that is being executed.
RestartFailureIsReal ==
    row.status = "Failed" /\ row.err = "restart" => pc \notin Executing

\* Every run comes to its end (or dies with the process), although the Actions
\* of subtasks with a timeout may hang for ever.
RunEnds == pc \in Executing ~> pc \in {"ended", "idle"}

\* If the agent stays up from some moment on, a row does not stay Executing
\* without a run, of this object or another: the clean-up after the last restart
\* has settled it.
Unattended == pc \in {"idle", "ended"} /\ ~other
NoStaleExecuting ==
    <>[]up => [](row.status = "Executing" /\ Unattended =>
                    <>(row.status # "Executing" \/ ~Unattended))

\* What the engine promises its callers: see TaskSaga.
phase ==
    CASE pc \in {"idle", "build"} -> "none"
      [] pc \in {"loop", "attempt", "select", "failed"} -> "open"
      [] pc \in {"rollback", "finish"} -> "undoing"
      [] pc = "ended" -> IF task.status = "Success" THEN "committed" ELSE "aborted"
plan == IF phase = "none" THEN <<>> ELSE subTasks
done == IF phase = "none" THEN {} ELSE {i \in accepted : undone[i] = 0}

Saga == INSTANCE TaskSaga WITH Subs <- Subs, SubTask <- SubTask
ImplementsSaga == Saga!Spec
=============================================================================
