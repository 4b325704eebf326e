# ViPanel: specifications, model checking and proofs

ViPanel (a fork of 1Panel) is a server administration panel: a Go *core* that
serves the web frontend and the login, and a Go *agent* that does the work on the
machine: it installs apps, runs cronjobs, takes and restores snapshots, edits
files, drives docker, nginx, databases and firewalls.

This directory holds TLA+ models of the parts whose control is hard to test: in the
agent the task engine, cronjobs, snapshots, the upgrade of an app, and the restart of
the agent in the middle of each; in the frontend the store behind the process page.
With them are the TLC configurations that check them on small instances, and
proofs for every value of the constants that the TLA+ proof system checks. Paths
below are relative to the repository.

Contents: [inventory](#1-inventory), [modules](#2-modules),
[runs](#3-runs-and-what-they-show), [bounds](#4-bounds), [fairness](#5-fairness),
[proofs](#6-proofs), [findings](#7-disagreements-between-the-code-and-what-it-says),
[limits](#8-what-is-not-modelled-and-why), [plan](#9-plan).

How to run, in this directory:

    tlc -workers 2 -config TaskSagaRun.cfg TaskEngine
    tlapm TaskEngineProofs.tla

## 1. Inventory

### Modelled

**Task engine** (`agent/app/task/task.go`, `agent/global/global.go`,
`agent/app/repo/task.go`). Every longer operation of the agent is a *Task*: a list
of subtasks, each an action with an optional rollback, a retry count and a timeout.
- State: the Task object (subtasks, rollbacks, context), the row of the task in
  the task database, the map `TaskCtxMap` of cancel functions by task id.
- Operations: `NewTask`, `ReNewTask`, the `AddSubTask...` family, `Execute`, the
  stop request (`StopCompress`, `StopDeCompress`), `UpdateRunningTaskToFailed`.
- Interaction: services build and execute tasks in goroutines of their own; each
  attempt of a subtask is one more goroutine; `business.Init` cleans up the rows
  of killed tasks concurrently with everything else.
- Hard: an attempt that times out goes on executing; its goroutine blocks on an
  unbuffered channel; failed subtasks are compensated by two different pieces of
  code; the saves of the row drop their errors; the clean-up runs beside new tasks;
  nothing stops a second Task object of the same id (a recovery or a rollback started
  again while one is under way), which takes the row and the cancel function over.
- Correct when: success means that everything that must be done is done;
  failure means that all that was done and can be undone is undone, once; the row
  settles; every run ends.

**Cronjob execution** (`agent/app/service/cronjob_helper.go`,
`agent/app/repo/cronjob.go`). What happens when a cronjob is triggered.
- State: `is_executing` of the job row, the job records with their status, the
  goroutines that execute.
- Operations: `HandleJob` (from the scheduler or, through `HandleOnce`, from a
  request), `StartRecords`, `EndRecords`, `AddFailedRecord`, `loadTask`,
  `removeExpiredLog`, `CleanRecord`, and `handleCronjobStatus` after a restart.
- Interaction: the scheduler starts *before* the hook that repairs flag and
  records; every job is a Task.
- Hard: the flag is checked in one statement and set two writes later; the starter
  may return early; the errors of all these reads and writes are dropped or only
  logged; an action that timed out goes on when its execution has ended; the repair
  runs beside jobs that have started already.
- Correct when: a set flag and a waiting record always have somebody to settle
  them; the record tells the outcome; a job acts twice at a time only for named
  reasons.

**Cronjob scheduling** (`agent/app/service/cronjob.go`, `agent/cron/cron.go`).
- State: the cronjob rows with their `entry_ids`, the entries of `global.Cron`.
- Operations: `Create`, `Import`, `Update`, `UpdateStatus`, `Delete`, and
  `cron.Run` at the start.
- Interaction: each request changes the scheduler, then the row; nothing locks.
- Hard: a spec with a part that is refused; a row write that fails after the
  scheduler was changed; ids of an earlier process in the rows; overlapping
  requests; names that are looked up and inserted later, or not looked up at all.
- Correct when: the scheduler runs exactly what the rows say, a request never
  removes the entry of another job, and no two jobs share a name by surprise.

**Snapshots** (`agent/app/service/snapshot.go`, `snapshot_create.go`,
`snapshot_recover.go`, `snapshot_rollback.go`). A copy of the whole panel, restored in
a list of steps.
- State: the row (`status`, `recover_status`, `rollback_status`,
  `interrupt_step`), the temporary directory and archive, the archive in the
  backup account, the files of the panel, and the copy `1panel_original`.
- Operations: create, re-create, recover, roll back, import, delete;
  `handleSnapStatus` after a restart.
- Interaction: the first four are Tasks; a recovery ends by restarting the panel and
  replaces the very database that holds its row.
- Hard: work is resumed at `interrupt_step`, one column for two tasks, on the
  assumption that what the earlier steps made is still there; copies take the exit
  status 1 of `cp` for success; the last update of a row drops its error; the page
  offers another recovery, a rollback and the deletion while a task of the row is under
  way, and nothing in the agent refuses them.
- Correct when: a snapshot that says Success is complete; a row that waits has a task
  that will settle it; a resumed task resumes at a step of its own kind; the database
  is replaced last; there is a way back, and a rollback restores.

**App upgrade** (`agent/app/service/app_upgrade.go`, with the operations of
`app_install.go` that touch the same row). An installed app is replaced by another
version of itself, or put back.
- State: the row of the app (`version`, `status`), its files, its containers, the data
  they keep, the images on the host, the lock `appUpgradeLocks`, the context of the
  upgrade (snapshot of the files, backup, how far it got).
- Operations: `upgradeInstall` and the task it starts (prepare, cutover, rollback);
  `Operate` (start, stop, favourite); `SyncAll(true)`, in the background of the start.
- Interaction: the upgrade is a Task with subtasks that call docker compose; the
  other operations read the row, call compose, and write the whole row back.
- Hard: each of a dozen steps may fail, and so may each step of the way back; the
  lock binds upgrades only; a row that was read minutes ago is saved as a whole, also
  by the synchronisation of the start; the last save drops its error; the agent may die
  anywhere.
- Correct when: a row that shows no error describes what is on the disk; a failed
  upgrade shows; what a rollback needs is still there; no app is upgrading for ever.

**Process page store** (`frontend/src/store/modules/process.ts`). The process page
and the network page share one WebSocket and one store.
- State: the socket, the token and the flag of the connection under way, the request
  that is pending and the one that is queued, the timers, the rows of both pages.
- Operations: a page is mounted or left, a filter is entered, a timer fires, the
  authentication of the stream returns, a socket opens, answers, or closes.
- Interaction: answers carry no type, so the store attributes each to the request it
  believes is pending; the close of the socket is delayed by a timer, and its close
  event comes later still.
- Hard: everything is a callback, of old and new sockets, pages and timers, in any
  order; one await lies between the decision to connect and the socket.
- Correct when: no page shows the rows of the other; no socket is left behind; the
  page on screen gets the rows of its filter.

**Agent start** (`agent/server/server.go`, `agent/init/hook/hook.go`,
`agent/init/business/business.go`): the order *cron.Run, hook, listener,
`SyncAll` and `syncTask` in the background* is part of all the models of the agent above.

### Not modelled

| Component | State | Why |
|---|---|---|
| App store, install, uninstall; container update | the list of apps, compose files, docker | after the pattern of the upgrade, with fewer steps and no way back |
| Core sessions, login, expiring store | sessions in memory and database, failed logins by address | short critical sections under one mutex each |
| Core upgrade | binaries, backup of the old version | a straight line of steps; see [plan](#9-plan) |
| File history, alerts | versions of files; counters of alerts | see [plan](#9-plan) |
| File management, command runner, terminals | none of their own between calls | I/O |
| Firewall, forwarding, websites, databases, runtimes, cloud storage | held by external programs | wide and thin: adapters |
| Migrations | one-time list | run in order by a library |
| Rest of the frontend | pages, forms, translations | no control of its own; used for which requests it offers (guards of `Snapshot`) |

`PROJECT.json` lists every component with its sources, and under `hazards` what
in this code is hard to test, each at its line and with the properties for it.

## 2. Modules

| Module | Models | Role |
|---|---|---|
| `TaskSaga` | what the engine promises | abstract specification |
| `TaskEngine` | `task.go`, the row, the restart | detailed specification, implements `TaskSaga` |
| `TaskEngineProofs` | | theorems about `TaskEngine`: types, success, compensation |
| `TaskSagaProofs` | | theorem: `TaskEngine` implements `TaskSaga` |
| `TaskRunProofs` | | theorems about what a run leaves: goroutines, cancel function, row |
| `CronjobExec` | the executions of one job | specification |
| `CronjobExecProofs` | | theorems about `CronjobExec` |
| `CronjobSchedule`, `MCCronjobSchedule` | rows against the scheduler | specification; symmetry for TLC |
| `CronjobScheduleProofs` | | theorems about `CronjobSchedule` |
| `SnapshotSteps` | the lists of steps and where they resume | operators |
| `Snapshot`, `MCSnapshot` | one snapshot: create, recover, roll back, import, delete, restart | specification, uses `SnapshotSteps`; symmetry for TLC |
| `SnapshotProofs` | | theorems about `Snapshot` |
| `AppUpgrade` | the upgrades of one app, other operations, restart | specification |
| `AppUpgradeProofs` | | theorems about `AppUpgrade` |
| `ProcessStore` | the store of the process and network pages | specification |
| `ProcessStoreProofs` | | theorems about `ProcessStore` |

### TaskEngine

One task id, over several Task objects. `pc` is the place of the goroutine in
`Execute`; `running` and `sending` are the goroutines of the attempts: executing
their action, or blocked on `done <- err` because the engine gave up on them.
`NewTask`/`ReNewTask` differ as in the code: only the first registers a cancel
function, only the second writes the row. `StartAttempt` ... `SubTaskTimesOut` are
`SubTask.Execute`; `BeginSubTask`, `IgnoreError`, `FailTask`, `RunRollback`,
`EndRollback`, `Finish` are `Task.Execute`. `UpdateTask` saves the whole record
whatever the row says, or is lost (`DbMayFail`). `Stop` cancels the context when
there is a cancel function; `ActionReturns` lets an action return whatever it
returns. Times are abstracted: a timeout may expire at any moment while the engine
waits. `OtherNewTask`, `OtherReNewTask`, `OtherUpdates` and `OtherEnds` are another
Task object of the id (`Others`), which neither constructor refuses: of it the model has
the writes of the row and what it does to the cancel function. The variables `writer`,
`accepted` and `undone` are ghosts that only the properties read.

`TaskSaga` is the same thing as its callers see it: steps done in order, then a
commit, or the taking back of what can be taken back, and an abort. The refinement
mapping (`phase`, `plan`, `done`) is at the end of `TaskEngine`.

### CronjobExec

Callers are the entries of the scheduler and the requests; `pc[c]` is where a
caller is in `HandleJob`, one step per access to the database: `ReadFlag`,
`AddFailedRecord`, `CreateRecord`, `MarkExecuting`, then `NewTaskFails`,
`LoadTask` or `LoadTaskFails`. `run[r]` is the goroutine that executes for record
`r`: `SaveTask` (snapshots), `ExecuteReturns`, and the two writes of `EndRecords`,
`SettleRecord` and `ClearFlag`. `outliving` has the executions of which an attempt that
timed out still acts, also after the execution has ended (`AttemptTimesOut`,
`ActionEnds`). `Crash`, `CronRun` and the three statements of the
hook (`ClearExecuting`, `ListWaiting`, `FlagWaiting`) are the restart; between
`CronRun` and the end of the hook entries may already tick. Each access to the database
whose error the code drops or logs may fail (`DbMayFail`). `kind` distinguishes
the job types only as far as `HandleJob` does. The ghosts `abandoned`, `unsettled`,
`unguarded` and `stuck` record which of the named exceptions has happened.

### CronjobSchedule

A request is read / schedule / write: `Begin...` reads the row and validates, `StartJob`
or `StopJob` changes the scheduler, `Write...` changes the row (`WriteUpdate` its name
too, which the request has not looked up); `WriteFails` is a failed row write. A spec
has parts, of which the first `registers` are accepted. `StartRow`, `SkipRow`,
`StartRowUnsaved` are `cron.Run`. Entry ids start again with each process, as in the
cron library. The ghosts `spoiled`, `tainted`, `edited`, `twins` record which of the
named exceptions has happened.

### SnapshotSteps and Snapshot

`Plan(steps, always, from)` is the set of subtasks the handlers add when they resume at
step `from`: the conditions in the code blank the step once it has matched, so all later
ones match; the unconditional steps are always there. `jobs[w]` is a task under way with
the subtasks it still has to run, which it takes in the order of the list: it is `At`
the one that all the others are `Onwards` of. `StepGoesOn` is a step half way,
`StepDone` its whole effect on the disk; `StepMisses` ends well without having copied
everything (`cp` ended with 1, or docker did not answer); `StepFails` may come after
half of it, after all of it (the action outlives its timeout) or before any; so may
`Crash`. A task knows the id of its row, which may be deleted meanwhile, and its last
update may be lost (`Save`). On a `Master` node the panel has the binary `1panel-core`,
which the copy for the rollback keeps under a name the rollback does not look for; with
`SitesInside` the copy has no `www`, which the rollback asks for. `panel` says of each
group of files whether it is as *before* the recovery, as *after* it, or *mixed*; the
database is one of these groups, and `file`/`kept` say which row the replaced or copied
database would show. Which requests are possible follows the snapshot pages of the
frontend: a recovery and a rollback are offered while another is under way, and so is
the deletion. The `SystemStatus` a recovery sets is in the agent's database and is read
by nobody there. The ghost `history` holds the causes that the properties name as
exceptions.

### AppUpgrade

A *version* stands for the content of a file, of the containers or of the data. `pc[p]`
is the place of upgrade request `p`: `Read`, `Lock`, `Launch` are `upgradeInstall`,
whose reading of the row precedes its lock and which refuses no version but the present
one; `Start` ... `Release` the goroutine. Each step of the cutover (`Stop`, `Secure`,
`Down`, `ApplyStagedFiles`, `WriteFile`, `RunScript`, `Up`, `Commit`) succeeds, or fails
with what it may have done, and then the rollback starts; `Rollback` chooses by how far
the cutover got (`downAttempted`, `mutated`), as the code does, and its own steps fail
too. `End` is the last `Save`, which may be lost. `OpRead`, `OpCompose`, `OpSave` are
another operation, which saves what it read. `Restart` starts the process, which serves
requests at once; `SyncList` and `SyncSave` are `SyncAll(true)` beside them: it lists
the rows once (`listed`) and saves each as a whole when its turn comes. New containers,
and the upgrade script, *may* migrate the data. Whether a backup was asked for, and
whether old images are to be deleted, is chosen where the code looks at it.

### ProcessStore

The browser runs one callback at a time: an action is one callback. `Mount`,
`Unmount`, `Search` are the user; `DisconnectTimeout`, `PollTimeout`, `CheckFinds`,
`CheckExpires`, `InitialTimeout` the timers; `AuthReturns` is the continuation of the
await in `initWebSocket`; `OnOpen`, `OnMessage`, `OnClose` are the events of a socket
`s`, which is not always the one the store refers to. `Send` is `sendPsMessage` and
`sendNetMessage` with their early returns. `wire[s]` is what was sent on `s` and not
answered; an answer is known to the model by the request it answers, never to the
store. The server may answer, drop a request (the agent sends nothing when it cannot
gather what was asked), or close.

## 3. Runs and what they show

| Run | cfg | Question |
|---|---|---|
| `task_saga` | `TaskSagaRun` | Is a run of the engine a saga, whatever retries, timeouts, stops, crashes and lost updates do? |
| `task_restart` | `TaskRestartRun` | Do runs end and rows settle, across restarts? |
| `task_clean_up` | `TaskCleanUp` | Does the clean-up only touch tasks the restart killed? **No.** |
| `cronjob_exec` | `CronjobExecRun` | Do flag, records and executions of a job stay consistent, across a restart? |
| `cronjob_overlap` | `CronjobOverlap` | Does a job execute once at a time? **No.** |
| `cronjob_schedule` | `CronjobScheduleRun` | Does the scheduler run what the rows say? |
| `cronjob_disabled` | `CronjobDisabled` | Does a disabled job not run? **No.** |
| `snapshot` | `SnapshotRun` | Do success, resumption and rollback mean what they say? |
| `snapshot_incomplete` | `SnapshotIncomplete` | Can a snapshot that says Success always be restored? **No.** |
| `snapshot_rollback` | `SnapshotRollback` | Does a rollback always replace all files of the recovery? **No.** |
| `app_upgrade` | `AppUpgradeRun` | Does the row of an app tell the truth, whatever fails in an upgrade or beside it? |
| `process_store` | `ProcessStoreRun` | Do rows, requests and sockets stay together, in whatever order callbacks come? |

The properties, stated in full where they are defined:

- *task_saga*: `TypeOK`; `SuccessMeansDone` (a row left as Success stands for a run
  whose required subtasks all reported success in time and of which nothing was
  rolled back); `Compensation` (an unsuccessful end has called exactly the right
  rollbacks, each once); `OnlyTimedActionsOutlive` (two attempts overlap only after
  a timeout); `StopReachesFirstSubTask` (a stop request reaches a run only during
  its first subtask, since every `SubTask.Execute` takes the cancel function away);
  `ImplementsSaga`.
- *task_restart*: `RowSettled` (the row of an ended run says what its Task object
  says, unless another object of the id wrote it last), `RunEnds`, `NoStaleExecuting`.
- *cronjob_exec*: `FlagHasOwner`, `WaitingHasOwner` (a set flag, a waiting record
  have somebody who will settle them, unless a starter returned early or a write that
  settles them failed); `OverlapHasCause` (a job acts twice at a time only after two
  callers were between check and mark, after the hook cleared a flag just set, when the
  flag could not be read or set, or beside an attempt that timed out and goes on after
  its execution has cleared the flag); `RecordTellsOutcome` (or, when the settling write
  failed, it claims none); `WaitingSettles`.
- *cronjob_schedule*: `NoOrphans`, `EnabledIsScheduled`, `OthersKeepRunning`,
  `NamesAreUnique` (two rows have one name only when `Update` gave it to a row while
  another had it, or two requests served at one time wanted it).
- *snapshot*: `CompleteUnlessGap`, `StepIsOfTheRightTask`, `WaitingHasTask` (a waiting
  row has a task of its own, but for a task that could not be made and a last update that
  was lost), `DbIsReplacedLast`, `WayBack` (whichever step of a
  recovery failed, a rollback is offered and has a copy complete but for `1panel-core`),
  `RollbackRestores`. Those about the files hold as long as no copy has missed any.
- *app_upgrade*: `OneUpgradeAtATime`; `RowTellsTheTruth` (with no upgrade under way, a
  row that shows no error has files and containers of its version, and no data of a
  later one, but for two named causes); `ImagesKept` (the images of the row's version,
  and of the version a rollback would start, are there, unless an old row was saved
  back); `UpgradeSettles`.
- *process_store*: `OneRequestAtATime` (what is under way on any socket, old or new,
  is alone and is what the store believes is pending); `RowsMatchTable`;
  `SocketsAreOwned` (no socket is left open with nobody to close it);
  `SearchIsAnswered`.

Several properties name exceptions (`unguarded`, `stuck`, `abandoned`, `unsettled`,
`spoiled`, `twins`, and the `Causes` of `Snapshot`, `AppUpgrade` and `ProcessStore`).
Each exception is a thing the code really does, and the property says that it is the
*only* way the promise fails; after an exception the property says nothing of what it
touched. The runs that end in a violation show the most important exceptions as
promises broken, and section 8 lists what each stands for.

Each property of a passing run has a mutant in `PROJECT.json`: a plausible bug,
written next to the definition it would change, with which the same run fails.

## 4. Bounds

Every bound is a constant and a guard.

| Run | Bounds | Distinct states | Why enough |
|---|---|---|---|
| `task_saga` | 2 subtasks, 1 retry, 1 object beside others, lost updates | 2.07 M | a completed subtask before a failing one, a second attempt beside a first that outlived its timeout, a rollback of each; the other object writes the row and takes the cancel function at any place |
| `task_restart` | 1 subtask, no retry, 2 objects in turn beside others, any number of crashes | 100 k | the clean-up of the first object's row races the second object, and a third that writes the same row |
| `cronjob_exec` | 1 entry, 1 request, 2 records, 2 crashes, 1 copy retained, failing accesses | 767 k | two executions, a refused trigger, a record that expires while its job executes; the repair beside a fresh start, and a second repair after one that failed |
| `cronjob_schedule` | 2 requests at a time, 4 in all, 2 rows, 1 crash | 1.13 M, up to symmetry | overlapping requests on one row and on two; an update to the name of the other row; a stale id of the earlier process naming the other row's entry |
| `snapshot` | 2 tasks at a time, 3 in all, 1 row, 1 crash; a master node; a copy misses files, or a last update is lost, only while no other cause has occurred (`MaxCauses`), and of the files only the group `base` (`MayMiss`) | 6.86 M, up to symmetry | create, re-create, recover; or recover (of an imported row), fail, and another recovery or a rollback, one after the other or two at a time; with a restart anywhere and the row deleted under any of them. The theorems have neither `MayMiss` nor `MaxCauses` fixed |
| `app_upgrade` | 2 versions, 2 upgrades, 1 other operation, 1 crash | 2.30 M | (the cause *behind* takes a third version, and with it this run takes too long; the theorem covers it) two requests that race for the lock, or one after the failure of the other, or beside the synchronisation of the start; an operation that reads before, writes during or after; a crash in the cutover or in the rollback |
| `process_store` | 3 visits, 1 change of a filter | 1.18 M | a page is left and opened again while events of the sockets of two earlier visits are still to come |
| violations | the smallest instance that shows it | | |

`CHECK_DEADLOCK FALSE` is set where the bounds end every behaviour (`CronjobSchedule`,
`Snapshot`, `AppUpgrade`, `ProcessStore`). `MCCronjobSchedule` uses symmetry of the
requests and the names, `MCSnapshot` of the workers; neither checks liveness. `kind` in
`CronjobExec`, and the shape of each subtask in `TaskEngine`, are chosen by the model
checker.

## 5. Fairness

- `TaskEngine!Fairness`: the engine's goroutine is scheduled, the timer of a
  `select` with a timeout fires, `systemd` restarts the agent, and the restarted
  agent runs its clean-up. An action *without* a timeout is assumed to return: the
  engine has nothing else to wait for, as the context of the attempt is cancelled
  only by the engine's own return; an action *with* one may hang for ever.
- `CronjobExec!FairSpec`: every caller in `HandleJob` and every execution goes on
  (the subtasks of a job have its timeout, at least 1 second by the validation of
  the request; an import brings the value of an exported job), the agent is
  restarted, its hook runs. No tick, request or crash is ever forced, nor the end of an
  action whose attempt timed out, nor does a database access have to succeed.
- `CronjobSchedule`, `Snapshot`: safety only, no fairness.
- `AppUpgrade!FairSpec`: a request and its goroutine go on, since compose commands, the
  script and the wait for the containers have timeouts, the agent is restarted by
  systemd, and the goroutine of `SyncAll` is scheduled. All these take finitely many
  steps, so one weak fairness over them is as good as one for each. Other operations and
  crashes are never forced.
- `ProcessStore!Fairness`: the browser runs a callback that is due, the network opens
  or ends a connection, the agent answers or drops a request. The user, the server
  that closes and the agent that fails owe nothing. Callbacks that are due once each
  share one weak fairness; the repeating timer and the answers have their own.

## 6. Proofs

Checked by `tlapm`, for every value of the constants that satisfies the named
assumptions of the modules (the bounds are naturals; entries and requests are
disjoint finite sets; the requests of `CronjobSchedule` are a finite set; at least one
copy is retained; an app has a version).

| Theorem | Property | Inductive invariant |
|---|---|---|
| `TaskEngineProofs!TypeCorrect` | `TypeOK` | `TypeInv` |
| `TaskEngineProofs!SuccessMeansDoneHolds` | `SuccessMeansDone` | `SuccessInv` |
| `TaskEngineProofs!CompensationHolds` | `Compensation` | `CompensationInv` |
| `TaskSagaProofs!EngineImplementsSaga` | `ImplementsSaga` | `SagaInv` |
| `TaskRunProofs!OnlyTimedActionsOutliveHolds` | `OnlyTimedActionsOutlive` | `OutliveInv` |
| `TaskRunProofs!StopReachesFirstSubTaskHolds` | `StopReachesFirstSubTask` | itself, with `SuccessInv` |
| `TaskRunProofs!RowSettledHolds` | `RowSettled` | `Settled` |
| `CronjobExecProofs!TypeCorrect` | `TypeOK` | `TypeInv` |
| `CronjobExecProofs!FlagHasOwnerHolds` | `FlagHasOwner` | `FlagInv` |
| `CronjobExecProofs!WaitingHasOwnerHolds` | `WaitingHasOwner` | `WaitingInv` |
| `CronjobExecProofs!RecordTellsOutcomeHolds` | `RecordTellsOutcome` | `OutcomeInv` |
| `CronjobExecProofs!OverlapHasCauseHolds` | `OverlapHasCause` | `OverlapInv` |
| `CronjobScheduleProofs!TypeCorrect` | `TypeOK` | `TypeInv` |
| `CronjobScheduleProofs!NamesAreUniqueHolds` | `NamesAreUnique` | `NameInv` |
| `CronjobScheduleProofs!NoOrphansHolds` | `NoOrphans` | `ScheduleInv` |
| `CronjobScheduleProofs!OthersKeepRunningHolds` | `OthersKeepRunning` (of each step) | `ScheduleInv` |
| `CronjobScheduleProofs!EnabledIsScheduledHolds` | `EnabledIsScheduled` | `ScheduleInv` |
| `ProcessStoreProofs!TypeCorrect` | `TypeOK` | `TypeInv` |
| `ProcessStoreProofs!OneRequestAtATimeHolds` | `OneRequestAtATime` | itself, with `TypeInv` |
| `ProcessStoreProofs!RowsMatchTableHolds` | `RowsMatchTable` | itself, with the two above |
| `ProcessStoreProofs!SocketsAreOwnedHolds` | `SocketsAreOwned` | `OwnedInv` |
| `AppUpgradeProofs!TypeCorrect` | `TypeOK` | `TypeInv` |
| `AppUpgradeProofs!OneUpgradeAtATimeHolds` | `OneUpgradeAtATime` | `LockInv` |
| `AppUpgradeProofs!ImagesKeptHolds` | `ImagesKept` | `ImagesInv` |
| `AppUpgradeProofs!RowTellsTheTruthHolds` | `RowTellsTheTruth` | `TruthInv` |
| `SnapshotProofs!TypeCorrect` | `TypeOK` | `TypeInv` |
| `SnapshotProofs!StepIsOfTheRightTaskHolds` | `StepIsOfTheRightTask` | `TypeInv` |
| `SnapshotProofs!RollbackRestoresHolds` | `RollbackRestores` (of each step) | `OriginalInv` |
| `SnapshotProofs!WaitingHasTaskHolds` | `WaitingHasTask` | `IdsInv`, `RecoverWaits`, `CreateWaits` |
| `SnapshotProofs!CompleteUnlessGapHolds` | `CompleteUnlessGap` | `PartsInv` |
| `SnapshotProofs!DbIsReplacedLastHolds` | `DbIsReplacedLast` | `OrderInv` |
| `SnapshotProofs!WayBackHolds` | `WayBack` | `WayInv` |

*Task engine.* `TypeInv` adds to the types where the indices point: inside
`SubTask.Execute` there is a current subtask with a try left. `SuccessInv` adds `Progress`
(all required subtasks before `cur` are accepted), `StatusOK` (the status the Task
object holds at each place of `Execute`) and `RowOK` (a Success that this run wrote
to the row is that of an ended run with everything done; the writes of an earlier
run have an earlier `writer`). `CompensationInv` adds `UndoneOK`: until the rollback
loop nothing but the failed subtask's own rollback was called, in the loop exactly
the entries before `next` are, and the list holds each accepted reversible subtask
once.

*The engine is a saga.* Under the refinement mapping each action of the engine is a
step of `TaskSaga` or changes nothing of it. What a subtask's success adds to `done` is
a `Step` because the required subtasks before it are done (`Progress`); the engine's
own call of the failed subtask's rollback and the loop over the list are both `Undo`,
and the loop's end is `Abort`, because by `UndoneOK` nothing reversible is left. The
proof needs one fact more than `CompensationInv`, and `SagaInv` adds it: only subtasks
of the task are ever accepted (`AcceptedOK`).

*What a run leaves behind.* `OutliveInv` adds that an attempt without a timeout is one
goroutine, which executes or waits to send one result. `Settled` adds that an ended Task
object is not Executing, so the clean-up of the start cannot touch its row later, and
what another object writes it writes in its own name (`writer`).
`StopReachesFirstSubTask` is inductive once `SuccessInv` tells where `cur` is.

*Cronjob execution.* `TypeInv` needs `RoomOK`, an invariant on cardinalities: the
records written, and one for each caller on its way to write one, fit the bound. It is
where a *finite* set of callers is used. `BootOK` says that a stopped process has its
hook still to run, and that the hook's loop has a turn left; `HasRecord` that callers
past `CreateRecord` and executions have a record that exists. With these,
`FlagHasOwner`, `WaitingHasOwner` and `RecordTellsOutcome` are each inductive:
`HasRecord` passes ownership from caller to execution, and a new record never has the
number of an execution. `HoldOK` says who holds a record, so that a repair of the hook
that fails abandons exactly the records nobody has; `PendingOK` that no record claims an
outcome before `EndRecords`. `OverlapInv` says what the flag guards while nothing has
made it guard nothing: at most one caller is between check and mark, and past the mark
there is one caller or one execution, under a set flag (`Alone`). What outlives an
attempt is of an execution that has begun (`OutlivingOK`), so of two that act at once
one is of an execution that is over.

*Cronjob scheduling.* No lock is held, so the invariant has to say what each request
knows at each of its three places. `AloneInv`: as long as no overlap was recorded, a
request is the only one at its row, and what it read is still there. `IdsInv`: the ids a
request got are new, its own, and name entries of its job. `OrphanInv`: every entry is
listed by its row or held by a request that will write it, and before `cron.Run` is
through, the entries are those of rows it has passed. `OwnInv`: the ids of a row name no
other job's entry, which needs that rows that are not enabled hold none. `BackedInv`: a
settled enabled row has all entries of its spec. `NameInv`: beside the names of the
rows, those the requests are about to write are unique too, or among the `twins`.
`Create` and `Import` are the hard cases: the id of the row that is inserted must not be
known to anything before. The finiteness of the requests is used for the bound on the
rows: the rows made, and one for each request about to insert one, fit it.

*Process page store.* `TypeInv` needs `PageOK` (a page is counted exactly while it is
on screen, and the timer that closes the socket runs only without one) and `TokenOK`
(two tokens for each visit are enough), which bounds the names of the sockets. A
request is put on a wire only when none is pending, and then every wire is empty, old
sockets included: so `OneRequestAtATime` is inductive, and from it an answer is of the
type of the table it is put into (`RowsMatchTable`). `OwnedInv` adds `Awaited`: while
the current token is awaited the store has no socket, so the one it makes does not
replace another.

*App upgrade.* `TypeInv` adds `PhaseOK`: a snapshot is there from the moment files may
change until they are restored, a backup while it is recovered, so a rollback never
reads what was not taken. `LockInv` says that a request past `Lock` is the only one in
`appUpgradeLocks`; the crash empties the map and ends the requests in one step.
`ImagesInv` adds what `ImagesKept` leaves unsaid: the target's images are there from
the end of `Prepare`, the row names the target when the old images are deleted, the
two versions differ, and a failed upgrade may still write its old row at `End`. With
`LockInv`, the request that deletes images is the only one that needs any. What the
synchronisation of the start listed before an upgrade may be saved after it: the theorem
has that as *reverted*, and shows that as long as the row listed has the version of the
row, saving it costs no image.

`TruthInv` tells, for each of the places of an upgrade, what the row says (`RowOf`:
Upgrading, or Error where the synchronisation has taken it for a remainder of the last
process), what the context says (`Flags`), how much of the new version is there
(`Ahead`) and what is kept of the old one (`Behind`): until `Prepare` has ended well and
the containers are stopped the application is as the row said; from the snapshot on,
what is secured is of the old version; files, containers and data turn to the new
version in the order of the cutover; a rollback that reports no error has put everything
back. `Aside` is about the time without an upgrade: an operation that reads and writes
beside none changes nothing the row says, or the row has turned to Error meanwhile.
`Grows` says that no cause is forgotten, but that an overlap stands for those it
includes (`Record`). The proof found a case the run cannot reach: with three versions,
an upgrade to the third that dies after the data were migrated, and then an upgrade to
the second, which commits. The row says Running, the data are of a later version. The
code has no guard against it, so the model names it as the cause *behind*.

*Snapshots.* The lemmas at the head of `SnapshotProofs` are about `Plan` and `Onwards`:
the lists of steps have no step twice, `Onwards` is transitive, a recovery that is taken
up has the end of its list (and `ReadJson`), and what a set of steps still has to change
(`Left`) grows with the set. The actions are then read twice: `Cases` says what each is to
a recovery (one of nine views, from `Quiet` to `Reopened`), `CreateCases` what it is to
a creation. Both lead a request, a step, a failure or a restart to its view once, and
each invariant is proved against the views and not against the actions.

What a step that misses files does is a view of its own (`MissesFiles`, `CreateMisses`),
and the loss of the last update is in those that settle the row (`SavedCauses`).

`TypeInv` needs that each task has steps of its kind, that a row which a task has is in
the state that task left it in, that no two creations have one row, and that the rows in
the copied and in the replaced database are rows of a snapshot that succeeded; the kind
of the step in `interrupt_step` comes with it. `OriginalInv`: while no recovery was
started over, none ran beside another and no copy missed files, at most one task
restores, the copy is made while the panel is untouched, and a rollback that is through
has brought all of it back (`Returned`), but for single files that a copy cut short did
not get to. `IdsInv`: what restores has the row of the panel, and so has the copy it
made, which is why a restart with a database that came back finds its own row.
`PartsInv`: each part is in the folder, in the archive or in the account, or a step that
will bring it there is still to be done (`~Misses`), as long as no step missed files.
`OrderInv` is about the step at which a recovery would be taken up, in every row that
could come back: that step and those after it change all files that are not recovered.
It has to say it of the row of the panel, of the copy, and of the database whose file is
gone, since each of these is the row after some restart or rollback; `1panel-core`,
which no rollback brings back, is replaced in the same step as the single files
(`CoreIsWithBase`). `WayInv` adds that whatever is past the step `BackupBeforeRecover`
has a complete copy (`Kept`, of what a rollback can bring back), and that a panel
changed by a recovery that has ended has the row that says so.

Two proofs failed for good reasons and changed the model: the cause *behind* of
`AppUpgrade`, above, and `AllBack` of `Snapshot`. With four tasks a rollback that puts
all files back may leave a row, in the database or in the copy of it, with the step of a
recovery that no longer stands; that is why a rollback ends the causes *anew*, *beside*,
*halfBack* and *killed* only when the rows came back too (section 8).

Only model-checked: everything temporal under fairness (`RunEnds`,
`NoStaleExecuting`, `WaitingSettles`, `UpgradeSettles`, `SearchIsAnswered`), which
needs ENABLED and is out of the prover's reach. Every invariant and every action property
of a passing run is a theorem.

## 7. Disagreements between the code and what it says

1. `task_clean_up`: `go syncTask()` runs while requests are served; it marks a task
   that was started since the restart as failed *by the restart*.
2. `cronjob_overlap`: two triggers pass the check of `is_executing` before either
   sets it, and the job executes twice.
3. `cronjob_disabled`: enabling a job whose second spec part is refused returns an
   error, the row stays Disable, and the entry of the first part keeps running.
4. `snapshot_incomplete`: a creation that failed in `SnapDBInfo` (or
   `SnapCloseDBConn`), retried, skips every conditional step and says Success with
   nothing in the account.
5. `snapshot_rollback`: a recovery retried with a fresh download copies the half
   recovered panel over the good copy; the rollback restores that.

`PROJECT.json` has the lines of each, and the line it contradicts.

## 8. What is not modelled, and why

- Contents: scripts, archives, files and messages are atoms. The log file of a task
  and every wording are left out.
- Times: the one second between attempts, the schedule of a cronjob. Whatever may
  be due may be due at any time.
- What an action does: it returns ok, an error, a cancellation or a shutdown.
- Rotation of the backup files of a cronjob (`removeExpiredBackup`): it deletes in
  external accounts.
- Task engine: of a second Task object of an id only what it writes to the row and does
  to the cancel function; its subtasks are not modelled, it tells no cancellation from
  another failure, and that the end of *this* object's subtasks takes the cancel
  function of the other away as well has no effect on the other in the model.
- Snapshots: the marks at the head of a request (`status` in `SnapshotReCreate`,
  `recover_status` in `SnapshotRecover`) and the updates of `handleSnapStatus` are taken
  not to be lost; an exit status 1 of `tar` is taken to mean what its manual says, that
  a file changed while it was read. `cp -rfp` merges, so what a recovery added stays
  after a rollback: *before* means that what was there is back. Two tasks that copy the
  same files do so one after the other, not file by file; two snapshots with copies of
  the panel of their own; an archive of another architecture, which is refused. The
  agent's own database file is never among the files missed: it is there, and the agent
  may read it. The images loaded and the containers restarted by a recovery cannot be
  rolled back by the code either, and are no files of the model.
- The scripts of cronjobs: a second row of a name (`NamesAreUnique`) would share the
  script file of the first, and its deletion remove it.
- The entry that `clam.go` keeps in the same scheduler, with an id it stores in a row
  of its own and removes by: its stale id may name the entry of a job.
- A script taken from the library, which `loadTask` writes into the job that the
  entry keeps.
- App upgrades: OpenResty, OpenClaw and vLLM, which prepare or snapshot more files by
  the same steps; uninstall, rebuild and parameter updates, which write the same row;
  the restart operation, which makes no containers; several apps that depend on each
  other; rows that a recovered snapshot left waiting for a restart. A crash is modelled
  only with an upgrade under way: otherwise it only loses the save of another operation.
  The rows of killed tasks are repaired at once at the restart, where `TaskEngine` has
  the clean-up beside new tasks.
- Process store: the flags that are written for display only (`isConnected`,
  `psLoading`, `netLoading`), and the content of filters and rows.

What the causes named by the properties stand for. Of `CronjobExec`:
- `abandoned`, `stuck`: `HandleJob` or the goroutine of a snapshot returned after
  `StartRecords` because its task could not be made or saved; or `EndRecords` failed to
  write the record (then it is `unsettled` too), or the flag; or a statement of the hook
  failed. The record waits, or the flag refuses every trigger, until the next restart.
- `unguarded`: two callers were between check and mark at once, the flag could not be read
  or set, or the hook cleared it after a job had set it.
- `outliving`: an action goes on after its attempt timed out; the flag guards the
  execution and not the action.

Of `Snapshot`:
- *gap*: a re-creation passed over a part it does not have, or a step that made a part
  ended well with files missing: `cp` ended with 1, or docker did not answer and
  `snapAppImage` saved no images. *imported*: the archive of an imported row is not
  looked into.
- *skipped*: the same of a copy made by a recovery or a rollback.
- *anew*, *beside*: a recovery was started over on a half recovered panel, or beside
  another task on it. These, *halfBack* and *killed* are over when a rollback has
  brought everything back, the rows of both databases included (`AllBack`): with four
  tasks, a copy of the database made beside a rollback holds the step at which
  the other recovery failed, and the retry after the next restart passes over files
  that are not restored. Putting the files back is not enough to end that.
- *killed*: `interrupt_step` is saved when a recovery fails, not when it is killed: the
  page then offers no rollback, and the retry copies the half recovered panel.
- *halfBack*: a rollback ended half way. *forgotten*: the row was deleted while its
  task was under way or the panel was half recovered.
- *reopened*: what was saved after the database directory was removed is lost when the
  next process opens the copy that was put back.
- *taskless*: the task could not be made after the row was marked, or its last update
  was lost; the row waits until the agent restarts. *unsaved*: the last update of a
  recovery or a rollback was lost, so the row does not have the step to resume at.

Two things of a rollback are no cause but simply so, and the properties say so. On a
master node `1panel-core` is copied under that name, and looked for as `1panel`; `cp` ends
with 1, which is no error, so the binary of the recovery stays. When the sites are in the
data directory, `www` is not in the copy, and every rollback fails when it comes to it,
before the data and the database (`WayBack` therefore assumes `~SitesInside`). And a
copy that was cut short before the single files lets the rollback end well without them
(`original["base"] # "none"` in `RollbackRestores`).

Of `AppUpgrade` and `ProcessStore`:
- *early*: `handleAppRecover` saves the row as Running in the middle of a rollback. If
  the agent then dies, or the last save of the upgrade is lost, the row stays Running
  on a mixture of versions.
- *unbacked*: an upgrade without a backup was rolled back: files and containers are put
  back, migrated data are not. *behind*: an upgrade that failed left the data of its
  version, and a later one went to a version below that.
- *overlap*, *operated*: an operation ran beside an upgrade; start, stop or a failed
  operation replaces the UpgradeErr or Error of a half-made upgrade by what the
  containers show.
- *stale*, *reverted*, *resurrected*: the row is saved as it was read before another
  request changed it; *reverted* also by `SyncAll`, which lists a row that says Upgrading,
  and saves it when an upgrade requested since has replaced the version. An upgrade whose
  last save is dropped (*unsaved*) stays Upgrading until the agent is restarted, and so
  does one that `SyncAll` fails to save.
- *displaced*: `onClose` sets `websocket` to null whichever socket has closed, so the
  late close event of an old socket takes the reference to a newer one away; that one
  stays open and is never closed by the store.
- *lost*: only an answer clears `pendingRequestType`, and `onClose` does not
  reconnect, so an answer that never comes stops both pages. To open them again does not
  help, as `closeWebSocket` leaves `pendingRequestType` as it is: only to reload the
  application in the browser does.

## 9. Plan

Proofs: every safety property a run checks is proved, and the refinement. What is left
is to say more: that the cancel function and the row of a Task object follow each other
in `TaskEngine`, and abstract specifications of a recovery and of an upgrade for
`Snapshot` and `AppUpgrade` to implement, as `TaskEngine` does `TaskSaga`.

Models, if more room is made: the core upgrade (the replacement of the binaries and
the way back), the update of a container after the pattern of `AppUpgrade`, the core
sessions with their copy in the database.
