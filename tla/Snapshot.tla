------------------------------ MODULE Snapshot ------------------------------
(***************************************************************************)
(* One snapshot: its creation and re-creation (snapshot_create.go), the    *)
(* recovery of the panel from it (snapshot_recover.go), the rollback of a  *)
(* recovery (snapshot_rollback.go), its import and deletion (snapshot.go), *)
(* and the restart of the agent in the middle of each                      *)
(* (agent/init/hook/hook.go, handleSnapStatus).                            *)
(*                                                                         *)
(* Each runs as a task whose subtasks are the steps of SnapshotSteps; a    *)
(* step ends well, or fails after its last retry with its effect half done *)
(* or not. A request is one the pages offer for the row.  They offer a     *)
(* recovery or a rollback while another one is under way, and the deletion *)
(* at any time: the SystemStatus that a recovery sets in the agent's       *)
(* database is never read. Two tasks that copy the same files do so one    *)
(* after the other here.                                                   *)
(***************************************************************************)
EXTENDS SnapshotSteps, FiniteSets

CONSTANTS
    Workers,   \* the tasks that can be under way at a time (bound)
    MaxTasks,  \* bound on the tasks started
    MaxRows,   \* bound on the rows of this snapshot's name, one after the other
    MaxCrash,  \* bound on the crashes of the agent
    Master,       \* is this the master node, which has the binary 1panel-core?
    SitesInside,  \* is the WEBSITE_DIR inside the panel's data directory?
    MayMiss,      \* the files, and parts, that a copy may miss and end well (bound)
    DbMayFail,    \* may the last update of a row fail?
    MaxCauses     \* bound on the causes, before a copy misses files or an update fails

ASSUME MaxTasksAssumption == MaxTasks \in Nat
ASSUME MaxRowsAssumption == MaxRows \in Nat
ASSUME MaxCrashAssumption == MaxCrash \in Nat
ASSUME NodeAssumption == Master \in BOOLEAN /\ SitesInside \in BOOLEAN
ASSUME DbMayFailAssumption == DbMayFail \in BOOLEAN
ASSUME MaxCausesAssumption == MaxCauses \in Nat

VARIABLES
    up,       \* is the agent process running?
    row,      \* the row of the snapshot
    jobs,     \* the tasks under way: kind, subtasks still to run, id of their row
    work,     \* create: the parts in the temporary directory rootDir
    archive,  \* create: the parts in the temporary archive rootDir.tar.gz
    remote,   \* the parts in the archive of the backup account
    fetched,  \* recover: what rootDir holds of the remote archive
    panel,    \* the files of the panel against the start of the first recovery
    original, \* the copy in 1panel_original, made before a recovery
    kept,     \* the row in the database of that copy
    dbGone,   \* was the live database directory removed since the start?
    file,     \* then: the row in the database that a restart will open
    tasks, crashes,
    history   \* which of the named causes has occurred

vars == <<up, row, jobs, work, archive, remote, fetched, panel, original, kept,
          dbGone, file, tasks, crashes, history>>

(***************************************************************************)
(* "gap": a creation passed over a part, or made it with files missing.    *)
(* "imported": the row was made for an archive nobody looked into.         *)
(* "anew": a recovery started over while the panel was, or was being, half *)
(* recovered.  "beside": a recovery or rollback ran beside another.        *)
(* "halfBack": a rollback ended half way.  "killed": a recovery was        *)
(* killed, and its step not saved.  "forgotten": the row of a recovery was *)
(* deleted.  "reopened": the agent started with the copy of its database,  *)
(* without what it had saved since in the one removed under it.            *)
(* "taskless": a row was marked and its task could not be made, or the     *)
(* task ended and its last update was lost; "unsaved": the last update of  *)
(* a recovery or a rollback was lost.  "skipped": a copy of a recovery or  *)
(* a rollback ended well with files missing.                               *)
(***************************************************************************)
Causes == {"gap", "imported", "anew", "beside", "halfBack", "killed",
           "forgotten", "reopened", "taskless", "unsaved", "skipped"}

PartOf(s) == CASE s = "SnapDBInfo" -> "db" [] s = "SnapBaseInfo" -> "base"
               [] s = "SnapInstallApp" -> "apps" [] s = "SnapLocalBackup" -> "backups"
               [] s = "SnapPanelData" -> "data"
PartSteps == {"SnapDBInfo", "SnapBaseInfo", "SnapInstallApp", "SnapLocalBackup",
              "SnapPanelData"}
Parts == {PartOf(s) : s \in PartSteps}

\* The files a recovery changes: not the images that RecoverApp loads nor the
\* containers that RecoverCompose restarts.  A rollback brings them back but for
\* 1panel-core, which it looks for under another name than the copy has.
Restorable == {"base", "backups", "website", "data", "db"}
Files == Restorable \cup IF Master THEN {"core"} ELSE {}
\* Those that BackupBeforeRecover copies to where the rollback looks for them: sites
\* in the data directory are copied with that and not as www.
Findable == Restorable \ IF SitesInside THEN {"website"} ELSE {}
States == {"before", "mixed", "after"}
FilesOf(s) == CASE s = "RecoverBaseData" -> Files \cap {"base", "core"}
                [] s = "RecoverBackups" -> {"backups"} [] s = "RecoverWebsite" -> {"website"}
                [] s = "RecoverPanelData" -> {"data", "website"}
                [] s = "RecoverDBData" -> {"db"}
                [] OTHER -> {}

Untouched == [f \in Files |-> "before"]
\* Has the panel no file of a recovery, but what no rollback brings back?
Restored == \A f \in Restorable : panel[f] = "before"
NoOriginal == [f \in Restorable |-> "none"]
NoRow == [id |-> 0, status |-> "None", recover |-> "", rollback |-> "", step |-> ""]
Idle == [kind |-> "none", todo |-> {}, id |-> 0]

temporary == <<work, archive, remote, fetched>>
db == <<dbGone, file>>
disk == <<temporary, panel, original, kept, db>>

Busy(w) == jobs[w] # Idle
Kinds == {jobs[w].kind : w \in Workers} \ {"none"}

-----------------------------------------------------------------------------
Init ==
    /\ up = TRUE /\ row = NoRow /\ jobs = [w \in Workers |-> Idle]
    /\ work = {} /\ archive = {} /\ remote = {} /\ fetched = {}
    /\ panel = Untouched /\ original = NoOriginal /\ kept = NoRow
    /\ dbGone = FALSE /\ file = NoRow
    /\ tasks = 0 /\ crashes = 0 /\ history = {}

\* Ids are never used again: not while a task or a copy of the database has them.
NewIds == (1..MaxRows) \ ({jobs[w].id : w \in Workers} \cup {kept.id, file.id})

\* A request for the row with this id starts a task in a goroutine of its own.
Begin(kind, plan, id) ==
    \E w \in Workers :
        /\ ~Busy(w)
        /\ jobs' = [jobs EXCEPT ![w] = [kind |-> kind, todo |-> plan, id |-> id]]

Accept ==
    /\ up /\ tasks < MaxTasks
    /\ tasks' = tasks + 1
    /\ UNCHANGED <<up, disk, crashes>>

\* SnapshotCreate, from the page or from a cronjob, which brings its own task: the
\* row is made before a task that may not be had.
BeginCreate ==
    /\ row = NoRow /\ tasks = 0 /\ remote = {}
    /\ Accept
    /\ \E id \in NewIds :
          /\ row' = [NoRow EXCEPT !.id = id, !.status = "Waiting"]
          /\ \/ /\ \E kind \in {"create", "cronjob"} :
                      Begin(kind, Plan(CreateSteps, CreateAlways, ""), id)
                /\ UNCHANGED history
             \/ /\ history' = history \cup {"taskless"}
                /\ UNCHANGED jobs

\* The parts a plan relies on having: those whose step it leaves out, or all of
\* them in the archive, or in the account, when it does not even compress or upload.
Misses(plan) ==
    IF "SnapCompress" \in plan THEN \E s \in PartSteps \ plan : PartOf(s) \notin work
    ELSE IF "SnapUpload" \in plan THEN archive # Parts
    ELSE remote # Parts

\* SnapshotReCreate: offered for a Failed row, which is marked after the task is made.
BeginReCreate ==
    LET plan == Plan(CreateSteps, CreateAlways, row.step) IN
    /\ row.status = "Failed"
    /\ Accept /\ Begin("create", plan, row.id)
    /\ row' = [row EXCEPT !.status = "Waiting"]
    /\ history' = IF Misses(plan) THEN history \cup {"gap"} ELSE history \ {"gap"}

Beside == IF Kinds = {} THEN {} ELSE {"beside"}

\* The page sends isNew for a row without recover_status; SnapshotRecover sets it
\* after a failed rollback, without an interrupt_step, and for an early one.
IsNew == \/ row.recover = "" \/ row.rollback # ""
         \/ row.step \in BeforeChange \cup {""}

\* SnapshotRecover: offered for a row whose status is Success, which is marked
\* before the task is made.  To download again is offered with a retry, and starts
\* every later step too.
BeginRecover ==
    \E reDownload \in BOOLEAN :
    LET all == IsNew \/ reDownload IN
    /\ row.status = "Success"
    /\ reDownload => row.recover # ""
    /\ Accept
    /\ row' = [row EXCEPT !.recover = "Waiting"]
    /\ LET over == all /\ (~Restored \/ "recover" \in Kinds)
           causes == IF over THEN {"anew"} ELSE {}
       IN
       \/ /\ Begin("recover",
                   Plan(RecoverSteps, RecoverAlways, IF all THEN "" ELSE row.step),
                   row.id)
          /\ history' = history \cup causes \cup Beside
       \/ /\ history' = history \cup causes \cup {"taskless"}
          /\ UNCHANGED jobs

RollbackOffered ==
    \/ row.recover # "" /\ row.step \notin BeforeChange \cup {""}
    \/ row.rollback = "Failed"

\* SnapshotRollback: offered with the retry of a recovery that was interrupted
\* after the copy was made, and again after it failed.  Its status does not change
\* until it ends.
BeginRollback ==
    /\ RollbackOffered
    /\ Accept /\ Begin("rollback", {"Rollback"}, row.id)
    /\ history' = history \cup Beside
    /\ UNCHANGED row

\* SnapshotImport makes a row for an archive in an account, which is one of this
\* name that is there or one that somebody has brought; nothing looks into it.
Import ==
    /\ up /\ row = NoRow
    /\ \E id \in NewIds : row' = [NoRow EXCEPT !.id = id, !.status = "Success"]
    /\ remote' = IF remote = {} THEN Parts ELSE remote
    /\ history' = history \cup {"imported"}
    /\ UNCHANGED <<up, jobs, work, archive, fetched, panel, original, kept, db, tasks,
                   crashes>>

\* Delete asks no task: a local archive goes, and the one in the account if wished.
Delete ==
    /\ up /\ row # NoRow
    /\ row' = NoRow
    /\ archive' = {}
    /\ remote' \in {remote, {}}
    /\ history' = history \cup IF Kinds # {} \/ ~Restored THEN {"forgotten"} ELSE {}
    /\ UNCHANGED <<up, jobs, work, fetched, panel, original, kept, db, tasks, crashes>>

-----------------------------------------------------------------------------
\* The row in the database file, which is not the one the agent has open when the
\* directory was removed under it.
RowOnDisk == IF dbGone THEN file ELSE row

\* BackupBeforeRecover for some of the files, some of them with gaps.  The database
\* file of the agent itself, which is there and its own, is never in a gap.
Keep(files, missed) ==
    /\ original' = [f \in Restorable |-> CASE f \in missed -> "mixed"
                                          [] f \in files \ missed -> panel[f]
                                          [] OTHER -> original[f]]
    /\ kept' = IF "db" \in files THEN RowOnDisk ELSE kept
    /\ UNCHANGED <<temporary, panel, db>>

\* A step of the recovery on its files; the restored database has no row.
Overwrite(files, state) ==
    /\ panel' = [f \in Files |-> IF f \in files THEN state ELSE panel[f]]
    /\ dbGone' = (dbGone \/ "db" \in files)
    /\ file' = IF "db" \in files THEN NoRow ELSE file
    /\ UNCHANGED <<temporary, original, kept>>

\* SnapshotRollback copies some of the files back, some of them with gaps.  What is
\* not in the copy ends it, except single files.  The agent goes on with the database
\* it has open, which the copy may replace when its files are in place.
PutBack(files, missed) ==
    /\ \A f \in files \ {"base"} : original[f] # "none"
    /\ panel' = [f \in Files |-> IF f \in missed THEN "mixed"
                                ELSE IF f \in files /\ original[f] # "none" THEN original[f]
                                ELSE panel[f]]
    /\ file' = IF "db" \in files /\ dbGone THEN kept ELSE file
    /\ row' \in {row} \cup IF "db" \in files /\ ~dbGone THEN {kept} ELSE {}
    /\ UNCHANGED <<temporary, original, kept, dbGone>>

\* What a step of a creation or a recovery does to the disk.
Effect(s) ==
    CASE s \in PartSteps ->
            /\ work' = work \cup {PartOf(s)}
            /\ UNCHANGED <<archive, remote, fetched, panel, original, kept, db>>
      [] s = "SnapCompress" ->
            /\ archive' = work /\ work' = {} /\ fetched' = {}
            /\ UNCHANGED <<remote, panel, original, kept, db>>
      [] s = "SnapUpload" ->
            /\ remote' = archive /\ archive' = {}
            /\ UNCHANGED <<work, fetched, panel, original, kept, db>>
      [] s \in {"RecoverDownload", "RecoverDecompress"} ->
            /\ fetched' = fetched \cup {IF s = "RecoverDownload" THEN "archive" ELSE "open"}
            /\ UNCHANGED <<work, archive, remote, panel, original, kept, db>>
      [] s = "BackupBeforeRecover" -> Keep(Findable, {})
      [] FilesOf(s) # {} -> Overwrite(FilesOf(s), "after")
      [] OTHER -> UNCHANGED disk

\* How far a copy can be: the panel's directory, with the database, is copied
\* first by the backup and last by the rollback.
KeptSoFar == {{"data"}, {"db"}, {"data", "db"}, {"data", "db", "website"},
              {"data", "db", "website", "backups"}, Restorable}
PutBackSoFar == {{"base"}, {"base", "backups"}, {"base", "backups", "website"},
                 {"base", "backups", "website", "data"},
                 {"base", "backups", "website", "db"}, Restorable}

\* What it does while it is at work.
HalfEffect(s) ==
    \/ s = "BackupBeforeRecover" /\ \E files \in KeptSoFar : Keep(files \cap Findable, {})
    \/ FilesOf(s) # {} /\ Overwrite(FilesOf(s), "mixed")
    \/ /\ s = "RecoverDownload"
       /\ fetched' = fetched \ {"archive"}
       /\ UNCHANGED <<work, archive, remote, panel, original, kept, db>>

\* Can the step end well?  The upload needs the archive, the decompression the
\* download, ReadJson the snapshot.json of SnapBaseInfo, which is there too when that
\* missed other files.
Possible(s) ==
    /\ s = "SnapUpload" => archive # {}
    /\ s = "RecoverDownload" => remote # {}
    /\ s = "RecoverDecompress" => "archive" \in fetched
    /\ s = "ReadJson" => "open" \in fetched /\ ("base" \in remote \/ "gap" \in history)

\* Is step s the one the task is at?
At(w, s) == up /\ jobs[w].todo \subseteq Onwards[s]

StepGoesOn(w) == \E s \in jobs[w].todo :
    /\ At(w, s)
    /\ \/ HalfEffect(s) /\ UNCHANGED row
       \/ s = "Rollback" /\ \E files \in PutBackSoFar : PutBack(files, {})
    /\ UNCHANGED <<up, jobs, tasks, crashes, history>>

StepDone(w) == \E s \in jobs[w].todo :
    /\ At(w, s)
    /\ \/ s # "Rollback" /\ Possible(s) /\ Effect(s) /\ UNCHANGED row
       \/ s = "Rollback" /\ PutBack(Restorable, {})
    /\ jobs' = [jobs EXCEPT ![w].todo = @ \ {s}]
    /\ UNCHANGED <<up, tasks, crashes, history>>

\* The steps that copy with cp, whose exit status 1 is no error, and the one that
\* saves no images when docker does not answer.
PartsWithGaps == {"SnapDBInfo", "SnapBaseInfo", "SnapInstallApp"}
StepsWithGaps == {"RecoverBaseData", "RecoverDBData"}

\* A step ends well and has missed some of its files.
StepMisses(w) == \E s \in jobs[w].todo :
    /\ At(w, s) /\ Cardinality(history) < MaxCauses
    /\ \/ /\ s \in PartsWithGaps /\ PartOf(s) \in MayMiss
          /\ work' = work \ {PartOf(s)}
          /\ history' = history \cup {"gap"}
          /\ UNCHANGED <<row, archive, remote, fetched, panel, original, kept, db>>
       \/ /\ \/ s = "BackupBeforeRecover" /\ UNCHANGED row
                /\ \E missed \in SUBSET (Findable \cap MayMiss) \ {{}} : Keep(Findable, missed)
             \/ s \in StepsWithGaps /\ FilesOf(s) \cap MayMiss # {} /\ UNCHANGED row
                /\ Overwrite(FilesOf(s), "mixed")
             \/ /\ s = "Rollback"
                /\ \E missed \in SUBSET (Restorable \cap MayMiss) \ {{}} :
                      PutBack(Restorable, missed)
          /\ history' = history \cup {"skipped"}
    /\ jobs' = [jobs EXCEPT ![w].todo = @ \ {s}]
    /\ UNCHANGED <<up, tasks, crashes>>

-----------------------------------------------------------------------------
\* cleanupFailedCronjobSnapshot: the directory and both archives are removed.
CleanUp == /\ work' = {} /\ archive' = {} /\ remote' = {} /\ fetched' = {}
           /\ UNCHANGED <<panel, original, kept, db>>

\* Mutant: a rollback saves its current step too.
FailedRowWithStep(kind, s) ==
    CASE kind \in {"create", "cronjob"} -> [row EXCEPT !.status = "Failed", !.step = s]
      [] kind = "recover" -> [row EXCEPT !.recover = "Failed", !.step = s]
      [] kind = "rollback" -> [row EXCEPT !.rollback = "Failed", !.step = s]
\* Mutant: the failure of a recovery saves no step.
FailedRowNoStep(kind, s) ==
    CASE kind \in {"create", "cronjob"} -> [row EXCEPT !.status = "Failed", !.step = s]
      [] kind = "recover" -> [row EXCEPT !.recover = "Failed"]
      [] kind = "rollback" -> [row EXCEPT !.rollback = "Failed"]
\* What the row says after a failure in step s.
FailedRow(kind, s) ==
    CASE kind \in {"create", "cronjob"} -> [row EXCEPT !.status = "Failed", !.step = s]
      [] kind = "recover" -> [row EXCEPT !.recover = "Failed", !.step = s]
      [] kind = "rollback" -> [row EXCEPT !.rollback = "Failed"]

\* The last update of a task, by id: of the row it was started for, if that is still
\* there.  Its error is dropped.
Save(w, new, causes) ==
    \/ /\ row' = IF row.id = jobs[w].id THEN new ELSE row
       /\ history' = causes
    \/ /\ DbMayFail /\ Cardinality(history) < MaxCauses
       /\ history' = causes \cup {"taskless"}
                         \cup IF jobs[w].kind \in {"recover", "rollback"} THEN {"unsaved"} ELSE {}
       /\ UNCHANGED row

Ends(w) == jobs' = [jobs EXCEPT ![w] = Idle]

\* Task.Execute returns an error: the status and the current step are saved.  The
\* step may have its whole effect all the same: it outlives its timeout.
StepFails(w) == \E s \in jobs[w].todo :
    LET kind == jobs[w].kind IN
    /\ At(w, s)
    /\ \/ kind = "cronjob" /\ CleanUp
       \/ kind # "cronjob" /\ UNCHANGED disk
       \/ kind \in {"create", "recover"} /\ Possible(s) /\ Effect(s)
    /\ Save(w, FailedRow(kind, s),
            history \cup IF kind = "rollback" THEN {"halfBack"} ELSE {})
    /\ Ends(w)
    /\ UNCHANGED <<up, tasks, crashes>>

\* Mutant: the interrupt_step of an earlier attempt stays.
StepKept == row.step
\* The interrupt_step after a success.
StepAfterSuccess == ""

Completes(w, kinds) == up /\ jobs[w].kind \in kinds /\ jobs[w].todo = {}

CreateSucceeds(w) ==
    /\ Completes(w, {"create", "cronjob"})
    /\ Save(w, [row EXCEPT !.status = "Success", !.step = StepAfterSuccess], history)
    /\ work' = {} /\ fetched' = {}
    /\ Ends(w)
    /\ UNCHANGED <<up, archive, remote, panel, original, kept, db, tasks, crashes>>

\* What the end of the process does to these tasks: none saves its step.
Lost(kinds) == (IF "recover" \in kinds THEN {"killed"} ELSE {})
                  \cup IF "rollback" \in kinds THEN {"halfBack"} ELSE {}

\* A recovery that succeeds saves nothing: the restored database knows no such row.
\* It restarts the panel, whatever else is under way.
RecoverSucceeds(w) ==
    /\ Completes(w, {"recover"})
    /\ work' = {} /\ fetched' = {}
    /\ up' = FALSE /\ jobs' = [v \in Workers |-> Idle]
    /\ history' = history \cup Lost({jobs[v].kind : v \in Workers \ {w}})
    /\ UNCHANGED <<row, archive, remote, panel, original, kept, db, tasks, crashes>>

\* Is all as before the recovery, the rows of the open database and of the one on
\* disk included, and nobody else at work?
AllBack(w) ==
    /\ Restored /\ \A v \in Workers \ {w} : ~Busy(v)
    /\ row.id = jobs[w].id /\ (dbGone => file.step = "")

RollbackSucceeds(w) ==
    /\ Completes(w, {"rollback"})
    /\ Save(w, [row EXCEPT !.recover = "", !.rollback = "", !.step = ""],
            IF AllBack(w)
            THEN history \ {"anew", "beside", "halfBack", "killed", "skipped"} ELSE history)
    /\ original' = NoOriginal
    /\ Ends(w)
    /\ UNCHANGED <<up, temporary, panel, kept, db, tasks, crashes>>

-----------------------------------------------------------------------------
\* The agent stops, also in the middle of a step.
Crash ==
    /\ up /\ crashes < MaxCrash
    /\ up' = FALSE /\ crashes' = crashes + 1
    /\ jobs' = [w \in Workers |-> Idle]
    /\ history' = history \cup Lost(Kinds)
    /\ UNCHANGED <<row, disk, tasks>>

\* Mutant: what was under way when the agent stopped is taken to go on.
StillWaiting(status) == status
FailedIfWaiting(status) == IF status = "Waiting" THEN "Failed" ELSE status

\* handleSnapStatus; the process opens the database that is there now.
Restart ==
    /\ ~up
    /\ up' = TRUE /\ dbGone' = FALSE /\ file' = NoRow
    /\ row' = [RowOnDisk EXCEPT !.status = FailedIfWaiting(@),
                                !.recover = FailedIfWaiting(@)]
    /\ history' = (history \ {"taskless"})
                      \cup IF dbGone /\ file # NoRow THEN {"reopened"} ELSE {}
    /\ UNCHANGED <<jobs, temporary, panel, original, kept, tasks, crashes>>

Next ==
    \/ BeginCreate \/ BeginReCreate \/ BeginRecover \/ BeginRollback
    \/ Import \/ Delete
    \/ \E w \in Workers :
          \/ StepGoesOn(w) \/ StepDone(w) \/ StepMisses(w) \/ StepFails(w)
          \/ CreateSucceeds(w) \/ RecoverSucceeds(w) \/ RollbackSucceeds(w)
    \/ Crash \/ Restart

Spec == Init /\ [][Next]_vars

-----------------------------------------------------------------------------
RowType == [id : 0..MaxRows, status : {"None", "Waiting", "Failed", "Success"},
            recover : {"", "Waiting", "Failed"}, rollback : {"", "Failed"},
            step : (Steps \ {"Rollback"}) \cup {""}]

\* The types of the variables.
TypeOK ==
    /\ up \in BOOLEAN /\ dbGone \in BOOLEAN /\ history \subseteq Causes
    /\ row \in RowType /\ kept \in RowType /\ file \in RowType
    /\ jobs \in [Workers -> [kind : {"none", "create", "cronjob", "recover", "rollback"},
                             todo : SUBSET Steps, id : 0..MaxRows]]
    /\ work \subseteq Parts /\ archive \subseteq Parts /\ remote \subseteq Parts
    /\ fetched \subseteq {"archive", "open"}
    /\ panel \in [Files -> States] /\ original \in [Restorable -> States \cup {"none"}]
    /\ tasks \in 0..MaxTasks /\ crashes \in 0..MaxCrash

\* A snapshot that says Success has all its parts in the backup account.  The code
\* breaks that when it takes a re-creation up at a step whose earlier parts are gone:
\* after a failure of an unconditional step, after the clean-up of a cronjob's
\* snapshot, or after a restart that left an older interrupt_step; when a copy misses
\* files, or docker does not answer, and the step ends well all the same; when an
\* archive is imported that is not complete; and when a rollback brings a deleted row
\* back.
CompleteUnlessGap ==
    /\ row.status = "Success"
    /\ history \cap {"gap", "imported", "forgotten", "reopened"} = {}
    => remote = Parts

\* interrupt_step is one column for two tasks: a row that can be recovered never
\* holds a step of the creation, nor the other way round.
StepIsOfTheRightTask ==
    /\ row.status = "Success" => row.step \in StepsOf(RecoverSteps) \cup {""}
    /\ row.status # "Success" => row.step \in StepsOf(CreateSteps) \cup {""}

\* A row that waits has a task of its own that will settle it, unless a task could
\* not be made, the last update of one was lost, or a rollback copied the old database
\* back and then failed, or its row was deleted meanwhile: what a restart, a failure
\* or another task does never leaves a row waiting.
WaitingHasTask ==
    LET Has(kinds) == \E w \in Workers : jobs[w].kind \in kinds /\ jobs[w].id = row.id IN
    up => /\ row.status = "Waiting" =>
                Has({"create", "cronjob"}) \/ "taskless" \in history
          /\ row.recover = "Waiting" =>
                \/ Has({"recover", "rollback"})
                \/ history \cap {"taskless", "halfBack", "forgotten"} # {}

\* The database of the panel is replaced only when all its other files are: no
\* restored database ever describes files that are not, on any path of failures,
\* restarts and retries, but for a recovery started over, two at a time, a rollback
\* half done, which a restart forgets, as its status was never Waiting, a copy that
\* missed files, and a last update that was lost.
DbIsReplacedLast ==
    /\ history \cap {"anew", "halfBack", "beside", "unsaved", "skipped"} = {}
    /\ "rollback" \notin Kinds /\ panel["db"] # "before"
    => \A f \in Files \ {"db"} : panel[f] = "after"

\* There is a way back: whichever step of a recovery failed after it began to change
\* the panel, the rollback is offered and has a copy of the panel as it was, complete
\* but for 1panel-core, where it looks for it.  Not so when the recovery was started
\* over, killed or deleted, there were two at a time, a copy missed files, a last
\* update was lost, or a restart opened the copy of the database a rollback had
\* brought back; and never when the sites are in the data directory, as then no
\* rollback finds them.
WayBack ==
    /\ ~SitesInside
    /\ up /\ Kinds = {} /\ row.recover = "Failed" /\ ~Restored
    /\ history \cap {"anew", "halfBack", "beside", "killed", "forgotten", "reopened",
                     "unsaved", "skipped"} = {}
    => RollbackOffered /\ \A f \in Restorable : original[f] = "before"

\* A rollback that ends well has every file back as it was, but for 1panel-core,
\* unless a recovery was started over on a half recovered panel and copied that, or
\* ran beside it, a copy missed files, or the copy was cut short before the single
\* files, which a rollback does not notice.  (What a recovery added is not removed.)
RollbackRestores ==
    [][\A w \in Workers :
         /\ RollbackSucceeds(w) /\ original["base"] # "none"
         /\ history \cap {"anew", "beside", "skipped"} = {}
         => Restored']_vars

\* README: "Restore any snapshot in one click": a snapshot that says Success can be
\* restored, so its archive is in the account and holds all parts.
SuccessIsComplete == row.status = "Success" => remote = Parts

\* The rollback dialog: "Rolling back this recovery will replace all files from this
\* recovery": none is left when it has ended well.
RollbackReplacesAll ==
    [][\A w \in Workers : RollbackSucceeds(w) => panel' = Untouched]_vars
=============================================================================
