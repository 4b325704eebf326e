----------------------------- MODULE CronjobExec -----------------------------
(***************************************************************************)
(* The executions of one cronjob (agent/app/service/cronjob_helper.go,     *)
(* HandleJob): the entries of the scheduler and the "execute now" requests *)
(* that trigger it, the is_executing flag of its row, its job records, the *)
(* goroutines that execute, and the restart of the agent, where the        *)
(* scheduler is started (agent/cron/cron.go) before the hook that repairs  *)
(* the flag and the records (agent/init/hook/hook.go).                     *)
(*                                                                         *)
(* No lock guards any of this: each access to the database is a step of    *)
(* its own, and its error is dropped or only logged: any of them may fail. *)
(* What the task does while it executes is the module TaskEngine; here it  *)
(* ends well or badly, and an attempt that timed out may outlive it.       *)
(***************************************************************************)
EXTENDS Naturals, FiniteSets

CONSTANTS
    Entries,    \* the entries of the job in global.Cron, one per spec
    Requests,   \* API requests that may be served at the same time
    MaxRecords, \* bound on the records created
    MaxCrash,   \* bound on the crashes of the agent
    Retain,     \* RetainCopies of the job, at least 1 (dto.CronjobOperate)
    DbMayFail   \* may the accesses to the database whose error is dropped fail?

ASSUME CallersAssumption == /\ Entries \cap Requests = {}
                            /\ IsFiniteSet(Entries) /\ IsFiniteSet(Requests)
ASSUME MaxRecordsAssumption == MaxRecords \in Nat
ASSUME MaxCrashAssumption == MaxCrash \in Nat
ASSUME RetainAssumption == Retain \in Nat \ {0}
ASSUME DbMayFailAssumption == DbMayFail \in BOOLEAN

VARIABLES
    kind,       \* the type of the job, as far as HandleJob tells types apart
    up,         \* is the agent process running?
    boot,       \* how far hook.handleCronjobStatus has got since the start
    left,       \* turns of its loop over the Waiting records still to do
    crashes,    \* number of crashes so far
    executing,  \* is_executing of the row of the job
    records,    \* the status of every record
    created,    \* number of records created: the newest has this number
    pc,         \* where each caller is in HandleJob
    rec,        \* the record each caller started, 0 for none
    run,        \* where the execution of each record is
    result,     \* what each execution returned
    outliving,  \* executions of which an attempt that timed out still acts
    abandoned,  \* ghost: records that nobody in this process will settle
    unsettled,  \* ghost: records whose settling write was lost
    unguarded,  \* ghost: the flag did not keep a second trigger out
    stuck       \* ghost: the flag was left without an owner

vars == <<kind, up, boot, left, crashes, executing, records, created, pc, rec,
          run, result, outliving, abandoned, unsettled, unguarded, stuck>>

Callers == Entries \cup Requests
Records == 1..MaxRecords

\* "log": shell, curl, ntp and clean, which remove expired records in loadTask.
\* "snapshot" has a branch of its own; all the other types are "backup".
Kinds == {"log", "backup", "snapshot"}

\* "Interrupted" is Failed with the message constant.InterruptedMsg.
Statuses == {"None", "Waiting", "Success", "Failed", "Interrupted", "Unexecuted",
             "Deleted"}
Present == {r \in Records : records[r] \notin {"None", "Deleted"}}

\* "read": about to look at the flag; "refuse": it was set; "create", "mark":
\* the two writes of StartRecords; "prepare": NewTask and loadTask are next;
\* "failing": EndRecords after loadTask failed.
PCs == {"idle", "read", "refuse", "create", "mark", "prepare", "failing"}
Window == {"create", "mark"}

\* "save": the task row of a snapshot; "settle", "clear": the two writes of
\* EndRecords.
Runs == {"none", "save", "run", "settle", "clear", "done"}
InProgress == {"save", "run", "settle", "clear"}

-----------------------------------------------------------------------------
Init ==
    /\ kind \in Kinds
    /\ up = TRUE /\ boot = "served" /\ left = 0 /\ crashes = 0
    /\ executing = FALSE
    /\ records = [r \in Records |-> "None"] /\ created = 0
    /\ pc = [c \in Callers |-> "idle"] /\ rec = [c \in Callers |-> 0]
    /\ run = [r \in Records |-> "none"] /\ result = [r \in Records |-> "none"]
    /\ outliving = {} /\ abandoned = {} /\ unsettled = {}
    /\ unguarded = FALSE /\ stuck = FALSE

\* A job record is inserted, or the insertion of the "None" fails.
AddRecord(status) ==
    /\ created' = created + 1
    /\ records' = [records EXCEPT ![created + 1] = status]

Goto(c, place) == pc' = [pc EXCEPT ![c] = place]

bootVars == <<kind, up, boot, left, crashes>>
recordVars == <<records, created>>
execVars == <<run, result, outliving>>
ghosts == <<abandoned, unsettled, unguarded, stuck>>

\* The bound on records: each caller on its way will write one.
Coming == {c \in Callers : pc[c] \in {"read", "refuse", "create"}}
Room == created + Cardinality(Coming) < MaxRecords

\* The scheduler runs an entry whenever it is due, from cron.Start on, that is
\* before the hook too.  DelayIfStillRunning keeps one HandleJob per entry.
Tick(c) ==
    /\ up /\ c \in Entries /\ pc[c] = "idle" /\ Room
    /\ Goto(c, "read")
    /\ UNCHANGED <<bootVars, executing, recordVars, rec, execVars, ghosts>>

\* HandleOnce answers a request: it looks at the flag itself, and refuses when it
\* cannot, then calls HandleJob.  The listener opens after the hook.
HandleOnce(c) ==
    /\ up /\ boot = "served" /\ c \in Requests /\ pc[c] = "idle" /\ Room
    /\ ~executing
    /\ Goto(c, "read")
    /\ UNCHANGED <<bootVars, executing, recordVars, rec, execVars, ghosts>>

\* Mutant: HandleJob trusts the caller to have looked at the flag.
Unchecked(flag) == FALSE
\* The check at the head of HandleJob.
Refused(flag) == flag

\* The error of the Get is dropped: of an empty row the flag is not set.  The flag
\* guards nothing when it is set and could not be read, nor between the check and the
\* mark of another caller.
ReadFlag(c) ==
    /\ up /\ pc[c] = "read"
    /\ \E unread \in {FALSE, DbMayFail /\ executing} :
          /\ Goto(c, IF Refused(executing /\ ~unread) THEN "refuse" ELSE "create")
          /\ unguarded' = (unguarded \/ unread
                             \/ (~executing /\ \E d \in Callers : pc[d] \in Window))
    /\ UNCHANGED <<bootVars, executing, recordVars, rec, execVars, abandoned, unsettled,
                   stuck>>

AddFailedRecord(c) ==
    /\ up /\ pc[c] = "refuse"
    /\ AddRecord("Unexecuted") \/ (DbMayFail /\ UNCHANGED recordVars)
    /\ Goto(c, "idle")
    /\ UNCHANGED <<bootVars, executing, rec, execVars, ghosts>>

\* StartRecords, first write.  When it fails the execution goes on without a row.
CreateRecord(c) ==
    /\ up /\ pc[c] = "create"
    /\ AddRecord("Waiting") \/ (DbMayFail /\ AddRecord("None"))
    /\ rec' = [rec EXCEPT ![c] = created + 1]
    /\ Goto(c, "mark")
    /\ UNCHANGED <<bootVars, executing, execVars, ghosts>>

\* StartRecords, second write.
MarkExecuting(c) ==
    /\ up /\ pc[c] = "mark"
    /\ \/ executing' = TRUE /\ UNCHANGED unguarded
       \/ DbMayFail /\ UNCHANGED executing /\ unguarded' = TRUE
    /\ Goto(c, "prepare")
    /\ UNCHANGED <<bootVars, recordVars, rec, execVars, abandoned, unsettled, stuck>>

\* NewTaskWithOps cannot create its log file: HandleJob logs that and returns,
\* the record Waiting and the flag set.
NewTaskFails(c) ==
    /\ up /\ pc[c] = "prepare"
    /\ abandoned' = abandoned \cup {rec[c]} /\ stuck' = TRUE
    /\ Goto(c, "idle") /\ rec' = [rec EXCEPT ![c] = 0]
    /\ UNCHANGED <<bootVars, executing, recordVars, execVars, unsettled, unguarded>>

\* removeExpiredLog deletes what comes after the first Retain, newest first.
Expired == {r \in Present : Cardinality({s \in Present : s > r}) >= Retain}

\* removeExpiredLog reads the list once; a record added meanwhile is newer than
\* all it deletes, so the read and the deletions are one step.  Each may fail.
RemoveExpiredLog ==
    \E gone \in IF DbMayFail THEN SUBSET Expired ELSE {Expired} :
       records' = [r \in Records |-> IF r \in gone THEN "Deleted" ELSE records[r]]

\* loadTask succeeds (or the type is snapshot): the goroutine is started and
\* HandleJob returns.
LoadTask(c) ==
    /\ up /\ pc[c] = "prepare"
    /\ run' = [run EXCEPT ![rec[c]] = IF kind = "snapshot" THEN "save" ELSE "run"]
    /\ IF kind = "log" THEN RemoveExpiredLog ELSE UNCHANGED records
    /\ Goto(c, "idle") /\ rec' = [rec EXCEPT ![c] = 0]
    /\ UNCHANGED <<bootVars, executing, created, result, outliving, ghosts>>

\* loadTask fails (an empty script or url, a website that is gone ...): HandleJob
\* calls EndRecords itself.
LoadTaskFails(c) ==
    /\ up /\ pc[c] = "prepare" /\ kind # "snapshot"
    /\ run' = [run EXCEPT ![rec[c]] = "settle"]
    /\ result' = [result EXCEPT ![rec[c]] = "fail"]
    /\ Goto(c, "failing")
    /\ UNCHANGED <<bootVars, executing, recordVars, rec, outliving, ghosts>>

-----------------------------------------------------------------------------
\* The goroutine of a snapshot saves the row of its task first, and returns when
\* that fails.
SaveTask(r) ==
    /\ up /\ run[r] = "save"
    /\ \/ run' = [run EXCEPT ![r] = "run"] /\ UNCHANGED <<abandoned, stuck>>
       \/ /\ run' = [run EXCEPT ![r] = "none"]
          /\ abandoned' = abandoned \cup {r} /\ stuck' = TRUE
    /\ UNCHANGED <<bootVars, executing, recordVars, pc, rec, result, outliving, unsettled,
                   unguarded>>

\* SubTask.Execute gives up on an attempt; the action and its script go on, beside
\* the next attempt or after Task.Execute has returned.
AttemptTimesOut(r) ==
    /\ up /\ run[r] = "run" /\ r \notin outliving
    /\ outliving' = outliving \cup {r}
    /\ UNCHANGED <<bootVars, executing, recordVars, pc, rec, run, result, ghosts>>

ActionEnds(r) ==
    /\ up /\ r \in outliving
    /\ outliving' = outliving \ {r}
    /\ UNCHANGED <<bootVars, executing, recordVars, pc, rec, run, result, ghosts>>

\* Task.Execute (handleSnapshot) returns.
ExecuteReturns(r) ==
    /\ up /\ run[r] = "run"
    /\ \E res \in {"ok", "fail"} : result' = [result EXCEPT ![r] = res]
    /\ run' = [run EXCEPT ![r] = "settle"]
    /\ UNCHANGED <<bootVars, executing, recordVars, pc, rec, outliving, ghosts>>

\* Mutant: only a record that is still Waiting is updated.
WaitingRow(r) == records[r] = "Waiting"
\* EndRecords updates by id: a deleted record stays deleted, one that was never
\* inserted stays away, whatever the row says else is overwritten.
HasRow(r) == records[r] \notin {"None", "Deleted"}

Outcome(res) == IF res = "ok" THEN "Success" ELSE "Failed"

\* EndRecords, first write; its failure is only logged.
SettleRecord(r) ==
    /\ up /\ run[r] = "settle"
    /\ \/ /\ records' = [records EXCEPT ![r] = IF HasRow(r) THEN Outcome(result[r]) ELSE @]
          /\ UNCHANGED <<abandoned, unsettled>>
       \/ /\ DbMayFail /\ UNCHANGED records
          /\ abandoned' = abandoned \cup {r} /\ unsettled' = unsettled \cup {r}
    /\ run' = [run EXCEPT ![r] = "clear"]
    /\ UNCHANGED <<bootVars, executing, created, pc, rec, result, outliving, unguarded,
                   stuck>>

\* Mutant: the flag is cleared after a success only.
ClearedOnSuccess(r) == IF result[r] = "ok" THEN FALSE ELSE executing
Cleared(r) == FALSE

\* EndRecords, second write, its error dropped; it ends HandleJob too when loadTask
\* had failed.
ClearFlag(r) ==
    /\ up /\ run[r] = "clear"
    /\ \/ executing' = Cleared(r) /\ UNCHANGED stuck
       \/ DbMayFail /\ UNCHANGED executing /\ stuck' = (stuck \/ executing)
    /\ run' = [run EXCEPT ![r] = "done"]
    /\ pc' = [c \in Callers |->
                IF pc[c] = "failing" /\ rec[c] = r THEN "idle" ELSE pc[c]]
    /\ rec' = [c \in Callers |->
                IF pc[c] = "failing" /\ rec[c] = r THEN 0 ELSE rec[c]]
    /\ UNCHANGED <<bootVars, recordVars, result, outliving, abandoned, unsettled,
                   unguarded>>

\* CleanRecord deletes every record of the job, also of one that executes.
CleanRecord ==
    /\ up /\ boot = "served"
    /\ records' = [r \in Records |-> IF r \in Present THEN "Deleted" ELSE records[r]]
    /\ UNCHANGED <<bootVars, executing, created, pc, rec, execVars, ghosts>>

-----------------------------------------------------------------------------
\* All goroutines are gone, and the scripts with the service; the database stays.
Crash ==
    /\ up /\ crashes < MaxCrash
    /\ up' = FALSE /\ crashes' = crashes + 1 /\ boot' = "clear" /\ left' = 0
    /\ pc' = [c \in Callers |-> "idle"] /\ rec' = [c \in Callers |-> 0]
    /\ run' = [r \in Records |-> IF run[r] = "done" THEN "done" ELSE "none"]
    /\ outliving' = {} /\ abandoned' = {} /\ unguarded' = FALSE /\ stuck' = FALSE
    /\ UNCHANGED <<kind, executing, recordVars, result, unsettled>>

\* cron.Run: records whose status is Running become Failed (no record ever has
\* that status), the entries are added, the scheduler starts.
CronRun ==
    /\ ~up
    /\ up' = TRUE
    /\ UNCHANGED <<kind, boot, left, crashes, executing, recordVars, pc, rec, execVars,
                   ghosts>>

\* A caller or an execution that is past its mark.
Marked == \/ \E c \in Callers : pc[c] \in {"prepare", "failing"}
          \/ \E r \in Records : run[r] \in InProgress

\* handleCronjobStatus, first statement: it clears the flag of a job that has started
\* since too, which is then unguarded.
ClearExecuting ==
    /\ up /\ boot = "clear"
    /\ boot' = "list"
    /\ \/ executing' = FALSE /\ unguarded' = (unguarded \/ Marked) /\ UNCHANGED stuck
       \/ DbMayFail /\ UNCHANGED <<executing, unguarded>> /\ stuck' = (stuck \/ executing)
    /\ UNCHANGED <<kind, up, left, crashes, recordVars, pc, rec, execVars, abandoned,
                   unsettled>>

\* Mutant: the hook looks for the status cron.Run looks for.
RunningRecords == {}
WaitingRecords == {r \in Records : records[r] = "Waiting"}

\* Waiting records of an earlier process: no caller and no execution has them.
Orphans == {r \in Records : /\ records[r] = "Waiting" /\ run[r] \in {"none", "done"}
                            /\ \A c \in Callers : rec[c] # r}

\* handleCronjobStatus, second statement: one turn of the loop per record.
ListWaiting ==
    /\ up /\ boot = "list"
    /\ \/ /\ left' = Cardinality(WaitingRecords)
          /\ boot' = IF WaitingRecords = {} THEN "served" ELSE "flag"
          /\ UNCHANGED abandoned
       \/ /\ DbMayFail /\ boot' = "served" /\ UNCHANGED left
          /\ abandoned' = abandoned \cup Orphans
    /\ UNCHANGED <<kind, up, crashes, executing, recordVars, pc, rec, execVars, unsettled,
                   unguarded, stuck>>

\* Mutant: the loop makes one turn too many.
LastTurnLate == left = 0
LastTurn == left = 1

\* Each turn updates every Waiting record of the table, those started since too;
\* one that fails is passed over.
FlagWaiting ==
    /\ up /\ boot = "flag"
    /\ \/ /\ records' = [r \in Records |->
                          IF records[r] = "Waiting" THEN "Interrupted" ELSE records[r]]
          /\ UNCHANGED abandoned
       \/ DbMayFail /\ UNCHANGED records /\ abandoned' = abandoned \cup Orphans
    /\ left' = left - 1
    /\ boot' = IF LastTurn THEN "served" ELSE "flag"
    /\ UNCHANGED <<kind, up, crashes, executing, created, pc, rec, execVars, unsettled,
                   unguarded, stuck>>

-----------------------------------------------------------------------------
HandleJob(c) ==
    \/ ReadFlag(c) \/ AddFailedRecord(c) \/ CreateRecord(c) \/ MarkExecuting(c)
    \/ NewTaskFails(c) \/ LoadTask(c) \/ LoadTaskFails(c)

Execution(r) == SaveTask(r) \/ ExecuteReturns(r) \/ SettleRecord(r) \/ ClearFlag(r)

Hook == ClearExecuting \/ ListWaiting \/ FlagWaiting

Next ==
    \/ \E c \in Callers : Tick(c) \/ HandleOnce(c) \/ HandleJob(c)
    \/ \E r \in Records : Execution(r) \/ AttemptTimesOut(r) \/ ActionEnds(r)
    \/ CleanRecord
    \/ Crash \/ CronRun \/ Hook

Spec == Init /\ [][Next]_vars

\* The Go scheduler runs every goroutine that can run, a cronjob task ends by its
\* timeout at the latest (dto: Timeout at least 1), and 1panel-agent is a service
\* that systemd restarts.  Nothing forces a tick, a request or a crash, nor the
\* end of an action whose attempt timed out.
FairSpec ==
    /\ Spec
    /\ \A c \in Callers : WF_vars(HandleJob(c))
    /\ \A r \in Records : WF_vars(Execution(r))
    /\ WF_vars(CronRun) /\ WF_vars(Hook)

-----------------------------------------------------------------------------
\* The types of the variables.
TypeOK ==
    /\ kind \in Kinds
    /\ up \in BOOLEAN /\ boot \in {"clear", "list", "flag", "served"}
    /\ left \in 0..MaxRecords /\ crashes \in 0..MaxCrash
    /\ executing \in BOOLEAN
    /\ records \in [Records -> Statuses] /\ created \in 0..MaxRecords
    /\ pc \in [Callers -> PCs] /\ rec \in [Callers -> 0..MaxRecords]
    /\ run \in [Records -> Runs] /\ result \in [Records -> {"none", "ok", "fail"}]
    /\ outliving \subseteq Records /\ abandoned \subseteq Records
    /\ unsettled \subseteq Records /\ unguarded \in BOOLEAN /\ stuck \in BOOLEAN

\* A set flag has an owner who will clear it: a caller past its mark, an execution
\* in progress, or the hook of the next start.  Two causes leave it without one: a
\* starter that returned early (NewTask or the save of a snapshot's task failed),
\* and a write that clears it and failed.  Then every later trigger is refused
\* until the agent restarts.
FlagHasOwner ==
    executing => ~up \/ boot = "clear" \/ Marked \/ stuck

\* A Waiting record has somebody who will settle it, the hook included, unless it
\* was abandoned: its starter returned early, the write that settles it failed, or
\* the repair of the hook failed when nobody else had the record.
WaitingHasOwner ==
    \A r \in Records : records[r] = "Waiting" =>
        \/ ~up \/ boot # "served" \/ r \in abandoned
        \/ \E c \in Callers : rec[c] = r /\ pc[c] \in {"mark", "prepare"}
        \/ run[r] \in {"save", "run", "settle"}

\* The job acts twice at a time only when two triggers passed the check of HandleJob
\* before either had set the flag, when the hook cleared the flag of an execution that
\* the scheduler had started before it, when the flag could not be read or set, or when
\* one of the two is what an attempt that timed out still does after EndRecords has
\* cleared the flag: until then the flag keeps other executions away from it too.
Running == {r \in Records : run[r] = "run"}
Acting == Running \cup outliving
OverlapHasCause ==
    \A r, s \in Acting : r # s =>
        unguarded \/ \E t \in {r, s} : t \in outliving /\ run[t] = "done"

\* What the record says in the end is what the execution returned, though the hook
\* may have called it interrupted in between, unless it was deleted or could not be
\* inserted; one whose settling write failed claims no outcome.
RecordTellsOutcome ==
    \A r \in Records : run[r] \in {"clear", "done"} =>
        \/ records[r] \in {Outcome(result[r]), "None", "Deleted"}
        \/ r \in unsettled /\ records[r] \in {"Waiting", "Interrupted"}

\* Every record that waits is settled in the end, by its execution or, after a
\* restart, by the hook; only an abandoned one may wait until the next restart.
WaitingSettles ==
    \A r \in Records :
        (records[r] = "Waiting") ~> (records[r] # "Waiting" \/ r \in abandoned)

\* i18n InExecuting: "Task is already running": who triggers a job that executes
\* is told so, and the job is not executed a second time meanwhile.
OneAtATime == Cardinality(Running) <= 1
=============================================================================
