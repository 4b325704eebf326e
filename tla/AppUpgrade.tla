----------------------------- MODULE AppUpgrade -----------------------------
(***************************************************************************)
(* The upgrade of one installed application                                *)
(* (agent/app/service/app_upgrade.go): preparation beside the application, *)
(* a cutover that stops it, replaces its files and starts the new          *)
(* containers, and the rollback of a cutover that failed.  Upgrades run    *)
(* beside the start, stop, restart and favourite operations of             *)
(* app_install.go, which read and write the same row without the upgrade's *)
(* lock, as does the synchronisation of the rows in the background of the  *)
(* agent's start, and the agent may die between any two steps.             *)
(*                                                                         *)
(* A version stands for the content of a file, of the containers or of the *)
(* application's data.  OpenResty, OpenClaw and vLLM, which prepare or     *)
(* snapshot more files by the same steps, are left out, and so are the     *)
(* uninstall, rebuild and parameter updates of the same row, and rows that *)
(* a recovered snapshot has left waiting for a restart.                    *)
(***************************************************************************)
EXTENDS Integers, Sequences, FiniteSets

CONSTANTS MaxVersion,     \* the newest version of the application (bound)
          MaxUpgrades,    \* how many upgrades are requested (bound)
          MaxOps,         \* how many other operations are requested (bound)
          MaxCrashes      \* how often the agent dies (bound)

ASSUME BoundsAssumption ==
    /\ MaxVersion \in Nat \ {0}
    /\ MaxUpgrades \in Nat /\ MaxOps \in Nat /\ MaxCrashes \in Nat

Requests == 1 .. MaxUpgrades

Labels ==
    {"idle", "read", "locked", "start", "prepare", "stop", "snapshot", "down",
     "apply", "env", "script", "compose", "up", "commit", "images", "rollback",
     "restore", "recover", "reup", "upafter", "uplast", "recheck", "end",
     "release", "done"}

Versions == 1 .. MaxVersion
Gone == 0               \* no such file or container
Mixed == -1             \* made from files of different versions

(***************************************************************************)
(* What an upgrade replaces, in the order the snapshot lists it.           *)
(* "scripts" stands for all that applyStagedFiles places in the            *)
(* application's directory.                                                *)
(***************************************************************************)
Managed == <<"env", "compose", "scripts">>
Parts == {"env", "compose", "scripts"}
Files == [Parts -> Versions \cup {Gone}]

Statuses == {"Running", "Stopped", "UpErr", "Error", "Upgrading", "UpgradeErr"}
Rows == [version : Versions, status : Statuses]
None == [none |-> TRUE]

\* appUpgradeContext: what an upgrade carries from its request to its end.  The
\* options Backup and DeleteImage are each looked at once, and chosen there.
Contexts ==
    [original : Rows, target : Versions,
     stopAttempted : BOOLEAN, downAttempted : BOOLEAN, mutated : BOOLEAN,
     snapshot : Files \cup {None},
     backupFile : [files : Files, data : Versions] \cup {None},
     failed : BOOLEAN, rollbackErr : BOOLEAN]

VARIABLES
    row,            \* the application's row
    files,          \* the managed files on disk
    containers,     \* the version the containers were made of, and if they run
    data,           \* the newest version that has migrated the application's data
    images,         \* the versions whose images are on the host
    pc, ctx,        \* per upgrade request, where it is and its context
    lock,           \* the requests that hold the application in appUpgradeLocks
    executing,      \* the upgrades whose task row is Executing
    op, ops,        \* the other operation in flight, and how many were requested
    up, crashes,    \* the agent runs; how often it died
    starting,       \* it has started, and SyncAll has yet to list the rows
    listed,         \* a row that SyncAll found under way and has not saved yet
    history         \* which of the named causes has occurred

hostVars == <<files, containers, data, images>>
opVars == <<op, ops>>
lifeVars == <<up, crashes, starting, listed>>
vars == <<row, hostVars, pc, ctx, lock, executing, opVars, lifeVars, history>>

(***************************************************************************)
(* "overlap": another operation was in flight during an upgrade.  "stale": *)
(* an upgrade took the lock with a row that had changed since it read it.  *)
(* "reverted": another operation, or the synchronisation of the start,     *)
(* wrote back a version that was replaced.  "resurrected": another         *)
(* operation wrote back the status of an upgrade that had ended.           *)
(* "operated": another operation replaced the status that an upgrade that  *)
(* failed had left.  "unsaved": the last Save of an upgrade, or the one of *)
(* the synchronisation, failed.  "unbacked": files were rolled back        *)
(* without a backup.  "behind": an upgrade took the lock for a version     *)
(* older than one that had already migrated the data.  "early": an upgrade *)
(* whose rollback had already saved the old row ended without its last     *)
(* Save.                                                                   *)
(***************************************************************************)
Causes == {"overlap", "stale", "reverted", "resurrected", "operated",
           "unsaved", "unbacked", "behind", "early"}

\* Those that only RowTellsTheTruth names, which an overlap is enough for.
Minor == {"operated", "unbacked", "behind", "early"}

Record(causes) ==
    LET all == history \cup causes
    IN  history' = IF "overlap" \in all THEN all \ Minor ELSE all

NoContext ==
    [original |-> [version |-> 1, status |-> "Running"], target |-> 1,
     stopAttempted |-> FALSE, downAttempted |-> FALSE, mutated |-> FALSE,
     snapshot |-> None, backupFile |-> None, failed |-> FALSE, rollbackErr |-> FALSE]

Idle == [kind |-> "idle"]

Init ==
    /\ row = [version |-> 1, status |-> "Running"]
    /\ files = [f \in Parts |-> 1]
    /\ containers = [of |-> 1, on |-> TRUE]
    /\ data = 1 /\ images = {1}
    /\ pc = [p \in Requests |-> "idle"]
    /\ ctx = [p \in Requests |-> NoContext]
    /\ lock = {} /\ executing = {}
    /\ op = Idle /\ ops = 0
    /\ up = TRUE /\ crashes = 0 /\ starting = FALSE /\ listed = None
    /\ history = {}

Active(p) == pc[p] \notin {"idle", "done"}

-----------------------------------------------------------------------------
(* Docker compose on the application's compose file *)

\* The version of the containers that the files on disk describe.
Described ==
    IF Gone \in {files["env"], files["compose"]} THEN Gone
    ELSE IF files["env"] = files["compose"] THEN files["compose"] ELSE Mixed

\* The images that are needed are on the host (--pull never).
CanUp ==
    /\ Described # Gone
    /\ files["compose"] \in images

\* New containers may migrate the data once they run.
Migrated(v) == {data} \cup IF v > data THEN {v} ELSE {}

Contain(v) ==
    /\ containers' = [of |-> v, on |-> TRUE]
    /\ data' \in Migrated(v)

UpSucceeds == CanUp /\ Contain(Described)

\* A failed up leaves what was there, or containers that do not all run.
UpFails ==
    \/ UNCHANGED <<containers, data>>
    \/ /\ CanUp
       /\ containers' = [of |-> Described, on |-> FALSE]
       /\ data' \in Migrated(Described)

DownSucceeds == files["compose"] # Gone /\ containers' = [of |-> Gone, on |-> FALSE]
HaltFails == containers' \in {containers, [containers EXCEPT !.on = FALSE]}

StartSucceeds ==
    /\ files["compose"] # Gone
    /\ containers' = [containers EXCEPT !.on = (@ \/ containers.of # Gone)]

-----------------------------------------------------------------------------
(* Requesting an upgrade *)

Goto(p, step) == pc' = [pc EXCEPT ![p] = step]

\* A step of the cutover fails: Execute calls the rollback.
CutoverFails(p) ==
    /\ Goto(p, "rollback")
    /\ ctx' = [ctx EXCEPT ![p].failed = TRUE]

\* upgradeInstall reads the row, refuses one that is being upgraded (requests
\* are numbered in the order they come),
Read(p) ==
    /\ up /\ pc[p] = "idle" /\ row.status # "Upgrading"
    /\ \A q \in 1 .. p - 1 : pc[q] # "idle"
    /\ \E target \in Versions :
          /\ target # row.version
          /\ ctx' = [ctx EXCEPT ![p] = [NoContext EXCEPT !.original = row, !.target = target]]
    /\ Goto(p, "read")
    /\ Record(IF op # Idle THEN {"overlap"} ELSE {})
    /\ UNCHANGED <<row, hostVars, lock, executing, opVars, lifeVars>>

\* Mutant: whoever asks gets the lock.
NoLock == TRUE

\* appUpgradeLocks.LoadOrStore finds nothing.
LockIsFree == lock = {}

\* refuses an application with a task, takes the lock or is refused,
Lock(p) ==
    /\ pc[p] = "read"
    /\ \/ /\ executing = {} /\ LockIsFree
          /\ lock' = lock \cup {p}
          /\ Goto(p, "locked")
          /\ UNCHANGED ctx
          /\ Record((IF row # ctx[p].original THEN {"stale"} ELSE {})
                       \cup IF data > ctx[p].target THEN {"behind"} ELSE {})
       \/ /\ ~(executing = {} /\ LockIsFree)
          /\ Goto(p, "done")
          /\ ctx' = [ctx EXCEPT ![p] = NoContext]
          /\ UNCHANGED <<lock, history>>
    /\ UNCHANGED <<row, hostVars, executing, opVars, lifeVars>>

\* marks the row and starts the goroutine, or gives up.
Launch(p) ==
    /\ pc[p] = "locked"
    /\ \/ /\ row' = [ctx[p].original EXCEPT !.status = "Upgrading"]
          /\ Goto(p, "start")
          /\ UNCHANGED <<ctx, lock>>
       \/ /\ Goto(p, "done")
          /\ ctx' = [ctx EXCEPT ![p] = NoContext]
          /\ lock' = lock \ {p}
          /\ UNCHANGED row
    /\ UNCHANGED <<hostVars, executing, opVars, lifeVars, history>>

\* Task.Execute saves its row.
Start(p) ==
    /\ pc[p] = "start"
    /\ \/ executing' = executing \cup {p} /\ Goto(p, "prepare") /\ UNCHANGED ctx
       \/ /\ ctx' = [ctx EXCEPT ![p].failed = TRUE]
          /\ Goto(p, "end")
          /\ UNCHANGED executing
    /\ UNCHANGED <<row, hostVars, lock, opVars, lifeVars, history>>

-----------------------------------------------------------------------------
(* prepare and cutover; every step may fail *)

\* Mutant: the old images are deleted as soon as the new ones are there.
ReplacedImages(p) == {ctx[p].target}

PreparedImages(p) == images \cup {ctx[p].target}

\* Everything is staged beside the application, and the images are fetched.
Prepare(p) ==
    /\ pc[p] = "prepare"
    /\ \/ /\ images' = PreparedImages(p)
          /\ Goto(p, "stop")
          /\ UNCHANGED <<ctx, executing>>
       \/ /\ UNCHANGED images
          /\ ctx' = [ctx EXCEPT ![p].failed = TRUE]
          /\ executing' = executing \ {p}
          /\ Goto(p, "end")
    /\ UNCHANGED <<row, files, containers, data, lock, opVars, lifeVars, history>>

Stop(p) ==
    /\ pc[p] = "stop"
    /\ \/ /\ files["compose"] # Gone
          /\ containers' = [containers EXCEPT !.on = FALSE]
          /\ ctx' = [ctx EXCEPT ![p].stopAttempted = TRUE]
          /\ Goto(p, "snapshot")
       \/ /\ HaltFails
          /\ ctx' = [ctx EXCEPT ![p].stopAttempted = TRUE, ![p].failed = TRUE]
          /\ Goto(p, "rollback")
    /\ UNCHANGED <<row, files, data, images, lock, executing, opVars, lifeVars, history>>

\* createUpgradeFileSnapshot, and the backup that was asked for: its file is
\* known even when it turns out to be incomplete.
Secure(p) ==
    /\ pc[p] = "snapshot"
    /\ LET taken == [ctx EXCEPT ![p].snapshot = files]
           saved == [taken EXCEPT ![p].backupFile = [files |-> files, data |-> data]]
       IN \/ CutoverFails(p)
          \/ ctx' \in {taken, saved} /\ Goto(p, "down")
          \/ /\ \E c \in {taken, saved} : ctx' = [c EXCEPT ![p].failed = TRUE]
             /\ Goto(p, "rollback")
    /\ UNCHANGED <<row, hostVars, lock, executing, opVars, lifeVars, history>>

Down(p) ==
    /\ pc[p] = "down"
    /\ \/ /\ DownSucceeds
          /\ ctx' = [ctx EXCEPT ![p].downAttempted = TRUE, ![p].mutated = TRUE]
          /\ Goto(p, "apply")
       \/ /\ HaltFails
          /\ ctx' = [ctx EXCEPT ![p].downAttempted = TRUE, ![p].failed = TRUE]
          /\ Goto(p, "rollback")
    /\ UNCHANGED <<row, files, data, images, lock, executing, opVars, lifeVars, history>>

\* replaceUpgradePath removes before it copies.
ApplyStagedFiles(p) ==
    /\ pc[p] = "apply"
    /\ \/ /\ files' = [files EXCEPT !["scripts"] = ctx[p].target]
          /\ Goto(p, "env")
          /\ UNCHANGED ctx
       \/ /\ files' \in {files, [files EXCEPT !["scripts"] = Gone]}
          /\ CutoverFails(p)
    /\ UNCHANGED <<row, containers, data, images, lock, executing, opVars, lifeVars, history>>

\* writeUpgradeFile renames a finished file over the old one.
WriteFile(p, here, part, next) ==
    /\ pc[p] = here
    /\ \/ /\ files' = [files EXCEPT ![part] = ctx[p].target]
          /\ Goto(p, next)
          /\ UNCHANGED ctx
       \/ /\ CutoverFails(p)
          /\ UNCHANGED files
    /\ UNCHANGED <<row, containers, data, images, lock, executing, opVars, lifeVars, history>>

\* upgrade.sh of the new version works on the data.
RunScript(p) ==
    /\ pc[p] = "script"
    /\ data' \in Migrated(ctx[p].target)
    /\ \/ Goto(p, "compose") /\ UNCHANGED ctx
       \/ CutoverFails(p)
    /\ UNCHANGED <<row, files, containers, images, lock, executing, opVars, lifeVars, history>>

Up(p) ==
    /\ pc[p] = "up"
    /\ \/ UpSucceeds /\ Goto(p, "commit") /\ UNCHANGED ctx
       \/ UpFails /\ CutoverFails(p)
    /\ UNCHANGED <<row, files, images, lock, executing, opVars, lifeVars, history>>

\* The containers are waited for and the row of the new version is saved.
Commit(p) ==
    /\ pc[p] = "commit"
    /\ \/ /\ containers.on
          /\ row' = [version |-> ctx[p].target, status |-> "Running"]
          /\ Goto(p, "images")
          /\ UNCHANGED ctx
       \/ /\ CutoverFails(p)
          /\ UNCHANGED row
    /\ UNCHANGED <<hostVars, lock, executing, opVars, lifeVars, history>>

\* Errors are only logged; the task ends.
DeleteOldImages(p) ==
    /\ pc[p] = "images"
    /\ images' \in {images, images \ {ctx[p].original.version}}
    /\ executing' = executing \ {p}
    /\ Goto(p, "end")
    /\ UNCHANGED <<row, files, containers, data, ctx, lock, opVars, lifeVars, history>>

-----------------------------------------------------------------------------
(* rollback *)

\* The end of a rollback: the task fails, and rollbackErr is kept.
RollbackEnds(p, err) ==
    /\ Goto(p, "end")
    /\ executing' = executing \ {p}
    /\ ctx' = [ctx EXCEPT ![p].rollbackErr = @ \/ err]

\* Mutant: the phase that tells whether files changed is not looked at.
NeverMutated(p) == TRUE

FilesUntouched(p) == ~ctx[p].mutated

\* Containers that were only stopped are started, those that were taken down
\* are made again, and those of the new version are taken down.
Rollback(p) ==
    /\ pc[p] = "rollback"
    /\ \/ /\ ~ctx[p].downAttempted
          /\ \/ StartSucceeds /\ Goto(p, "recheck") /\ UNCHANGED <<ctx, executing>>
             \/ UNCHANGED containers /\ RollbackEnds(p, TRUE)
          /\ UNCHANGED data
       \/ /\ ctx[p].downAttempted /\ FilesUntouched(p)
          /\ \/ UpSucceeds /\ Goto(p, "recheck") /\ UNCHANGED <<ctx, executing>>
             \/ UpFails /\ RollbackEnds(p, TRUE)
       \/ /\ ctx[p].downAttempted /\ ~FilesUntouched(p)
          /\ \/ DownSucceeds /\ UNCHANGED ctx
             \/ HaltFails /\ ctx' = [ctx EXCEPT ![p].rollbackErr = TRUE]
          /\ Goto(p, "restore")
          /\ UNCHANGED <<data, executing>>
    /\ UNCHANGED <<row, files, images, lock, opVars, lifeVars, history>>

\* snapshot.Restore gives up at the first part it cannot copy, having removed it.
RestoreFails(p) ==
    \E k \in 1 .. Len(Managed) :
        files' = [f \in Parts |->
                    IF \E i \in 1 .. k - 1 : Managed[i] = f THEN ctx[p].snapshot[f]
                    ELSE IF f = Managed[k] THEN Gone ELSE files[f]]

\* restoreManagedFiles, whose error counts only when there is no backup.
RestoreManagedFiles(p) ==
    /\ pc[p] = "restore"
    /\ LET backed == ctx[p].backupFile # None IN
       \/ /\ files' = ctx[p].snapshot
          /\ Goto(p, IF backed THEN "recover" ELSE "reup")
          /\ Record(IF backed THEN {} ELSE {"unbacked"})
          /\ UNCHANGED <<ctx, executing>>
       \/ /\ backed /\ RestoreFails(p)
          /\ Goto(p, "recover")
          /\ UNCHANGED <<ctx, executing, history>>
       \/ /\ ~backed /\ RestoreFails(p)
          /\ RollbackEnds(p, TRUE)
          /\ UNCHANGED history
    /\ UNCHANGED <<row, containers, data, images, lock, opVars, lifeVars>>

\* handleAppRecover, with the backup it is given.
Recover(p) ==
    /\ pc[p] = "recover"
    /\ LET b == ctx[p].backupFile IN
       \/ /\ files["env"] # Gone
          /\ files' = b.files
          /\ data' = b.data
          /\ row' = [ctx[p].original EXCEPT !.status = "Running"]
          /\ Goto(p, "upafter")
       \/ /\ \/ UNCHANGED files /\ data' \in {data, b.data}
             \/ files' = b.files /\ data' = b.data
          /\ UNCHANGED row
          /\ Goto(p, "uplast")
    /\ UNCHANGED <<containers, images, ctx, lock, executing, opVars, lifeVars, history>>

\* The containers are made again; after a recovery whether that works is not asked.
UpAgain(p) ==
    /\ \/ /\ pc[p] = "reup"
          /\ \/ UpSucceeds /\ Goto(p, "recheck") /\ UNCHANGED <<ctx, executing>>
             \/ UpFails /\ RollbackEnds(p, TRUE)
       \/ /\ pc[p] = "upafter"
          /\ UpSucceeds \/ UpFails
          /\ Goto(p, "recheck")
          /\ UNCHANGED <<ctx, executing>>
       \/ /\ pc[p] = "uplast"
          /\ UpSucceeds \/ UpFails
          /\ RollbackEnds(p, TRUE)
    /\ UNCHANGED <<row, files, images, lock, opVars, lifeVars, history>>

\* finishRollback: wait for the old containers and save the row that was read.
FinishRollback(p) ==
    /\ pc[p] = "recheck"
    /\ \/ /\ containers.on
          /\ row' = ctx[p].original
          /\ RollbackEnds(p, FALSE)
       \/ RollbackEnds(p, TRUE) /\ UNCHANGED row
    /\ UNCHANGED <<hostVars, lock, opVars, lifeVars, history>>

\* Mutant: a failed rollback is not told from a successful one.
RestoredAnyway(p) == ctx[p].original

\* The row of an upgrade that failed.
FailedRow(p) ==
    IF ctx[p].stopAttempted /\ ctx[p].rollbackErr
      THEN [ctx[p].original EXCEPT !.status = "UpgradeErr"]
      ELSE ctx[p].original

Early(p) ==
    IF row.status \notin {"Upgrading", "Error"} /\ ctx[p].stopAttempted /\ ctx[p].failed
      THEN {"early"} ELSE {}

\* The goroutine of upgradeInstall after Execute; its Save may fail.
End(p) ==
    /\ pc[p] = "end"
    /\ Goto(p, "release")
    /\ \/ /\ row' = IF ctx[p].failed THEN FailedRow(p) ELSE row
          /\ UNCHANGED history
       \/ /\ ctx[p].failed
          /\ UNCHANGED row
          /\ Record({"unsaved"} \cup Early(p))
    /\ UNCHANGED <<hostVars, ctx, lock, executing, opVars, lifeVars>>

\* The deferred cleanup and the release of the lock.
Release(p) ==
    /\ pc[p] = "release"
    /\ Goto(p, "done")
    /\ ctx' = [ctx EXCEPT ![p] = NoContext]
    /\ lock' = lock \ {p}
    /\ UNCHANGED <<row, hostVars, executing, opVars, lifeVars, history>>

-----------------------------------------------------------------------------
(* Other operations on the application: none of them asks for the lock *)

\* Operate reads the row.
OpRead ==
    /\ up /\ op = Idle /\ ops < MaxOps
    /\ \E kind \in {"start", "stop", "favorite"} : op' = [kind |-> kind, read |-> row]
    /\ ops' = ops + 1
    /\ Record(IF \E p \in Requests : Active(p) THEN {"overlap"} ELSE {})
    /\ UNCHANGED <<row, hostVars, pc, ctx, lock, executing, lifeVars>>

\* Up, which pulls the images it misses, or Stop of the compose project
\* (Restart, which makes no containers, is left out).
OpCompose ==
    /\ \/ /\ op.kind = "start"
          /\ \/ /\ Described # Gone
                /\ images' = images \cup {files["compose"]}
                /\ Contain(Described)
                /\ op' = [op EXCEPT !.kind = "sync"]
             \/ /\ UpFails
                /\ op' = [op EXCEPT !.kind = "error"]
                /\ UNCHANGED images
       \/ /\ op.kind = "stop"
          /\ \/ /\ files["compose"] # Gone
                /\ containers' = [containers EXCEPT !.on = FALSE]
                /\ op' = [op EXCEPT !.kind = "sync"]
             \/ HaltFails /\ op' = [op EXCEPT !.kind = "error"]
          /\ UNCHANGED <<data, images>>
    /\ UNCHANGED <<row, files, pc, ctx, lock, executing, ops, lifeVars, history>>

\* Mutant: the state of the containers is taken as it is.
ContainerState ==
    IF containers.of = Gone THEN "missing"
    ELSE IF containers.on THEN "running" ELSE "exited"

\* synAppInstall: the status that the containers show.
Observed ==
    IF containers.of = Gone THEN "Error"
    ELSE IF containers.on THEN "Running" ELSE "Stopped"

\* What the operation saves: syncAppInstallStatus leaves the row of an upgrade
\* and one that was and is Running alone, handleErr and Favorite save always.
OpRow ==
    CASE op.kind = "favorite" -> op.read
      [] op.kind = "error" -> [op.read EXCEPT !.status = "UpErr"]
      [] op.kind = "sync" ->
           IF \/ op.read.status = "Upgrading"
              \/ op.read.status = "Running" /\ Observed = "Running"
              \/ op.read.status = "UpErr" /\ Observed = "Error"
             THEN row
           ELSE [op.read EXCEPT !.status = Observed]

\* The row that was read at the beginning is written back as a whole.
OpSave ==
    /\ op.kind \in {"favorite", "sync", "error"}
    /\ row' = OpRow
    /\ op' = Idle
    /\ Record(
         (IF row'.version # row.version THEN {"reverted"} ELSE {})
         \cup (IF row.status # "Upgrading" /\ row'.status = "Upgrading"
                 THEN {"resurrected"} ELSE {})
         \cup (IF row.status \in {"Error", "UpgradeErr", "Upgrading"} /\ row' # row
                 THEN {"operated"} ELSE {}))
    /\ UNCHANGED <<hostVars, pc, ctx, lock, executing, ops, lifeVars>>

-----------------------------------------------------------------------------
(* The agent dies, and starts again *)

\* Dying with no upgrade under way would only lose another operation's save.
Crash ==
    /\ up /\ crashes < MaxCrashes
    /\ \E p \in Requests : Active(p)
    /\ up' = FALSE /\ crashes' = crashes + 1
    /\ starting' = FALSE /\ listed' = None
    /\ pc' = [p \in Requests |-> IF Active(p) THEN "done" ELSE pc[p]]
    /\ ctx' = [p \in Requests |-> NoContext]
    /\ lock' = {} /\ op' = Idle
    /\ Record(UNION {Early(p) : p \in Requests})
    /\ UNCHANGED <<row, hostVars, executing, ops>>

\* The process serves requests while a goroutine still repairs what the last one left.
\* (The task rows are repaired at once here; TaskEngine has that beside new tasks.)
Restart ==
    /\ ~up
    /\ up' = TRUE /\ starting' = TRUE
    /\ executing' = {}
    /\ UNCHANGED <<row, hostVars, pc, ctx, lock, opVars, crashes, listed, history>>

\* SyncAll(true) lists all rows: one that is under way is taken for a remainder,
SyncList ==
    /\ starting
    /\ starting' = FALSE
    /\ listed' = IF row.status = "Upgrading" THEN row ELSE None
    /\ UNCHANGED <<row, hostVars, pc, ctx, lock, executing, opVars, up, crashes, history>>

\* Mutant: an upgrade that was under way is taken to go on.
StillUpgrading == listed

SyncedRow == [listed EXCEPT !.status = "Error"]

\* and saved as a whole when its turn comes, if that does not fail: other rows of the
\* list may first have their containers made again.
SyncSave ==
    /\ listed # None
    /\ listed' = None
    /\ \/ /\ row' = SyncedRow
          /\ Record(IF listed.version # row.version THEN {"reverted"} ELSE {})
       \/ /\ Record({"unsaved"})
          /\ UNCHANGED row
    /\ UNCHANGED <<hostVars, pc, ctx, lock, executing, opVars, up, crashes, starting>>

Step(p) ==
    \/ Lock(p) \/ Launch(p) \/ Start(p) \/ Prepare(p)
    \/ Stop(p) \/ Secure(p) \/ Down(p) \/ ApplyStagedFiles(p)
    \/ WriteFile(p, "env", "env", "script") \/ RunScript(p)
    \/ WriteFile(p, "compose", "compose", "up") \/ Up(p)
    \/ Commit(p) \/ DeleteOldImages(p)
    \/ Rollback(p) \/ RestoreManagedFiles(p) \/ Recover(p)
    \/ UpAgain(p) \/ FinishRollback(p) \/ End(p) \/ Release(p)

Next ==
    \/ \E p \in Requests : Read(p) \/ Step(p)
    \/ OpRead \/ OpCompose \/ OpSave
    \/ Crash \/ Restart \/ SyncList \/ SyncSave

(***************************************************************************)
(* Fairness: a request and its goroutine go on (compose commands, the      *)
(* script and the wait for the containers all have timeouts), and an agent *)
(* that died is started again by systemd.  Requests take finitely many     *)
(* steps, so it is enough that some step is taken while one can be.        *)
(***************************************************************************)
Spec == Init /\ [][Next]_vars

FairSpec == Spec /\ WF_vars(Restart \/ SyncList \/ SyncSave \/ \E p \in Requests : Step(p))

-----------------------------------------------------------------------------
(* Properties *)

TypeOK ==
    /\ row \in Rows
    /\ files \in Files
    /\ containers \in [of : Versions \cup {Gone, Mixed}, on : BOOLEAN]
    /\ data \in Versions
    /\ images \subseteq Versions
    /\ pc \in [Requests -> Labels]
    /\ ctx \in [Requests -> Contexts]
    /\ lock \subseteq Requests /\ executing \subseteq Requests
    /\ \/ op = Idle
       \/ op \in [kind : {"start", "stop", "favorite", "sync", "error"}, read : Rows]
    /\ ops \in 0 .. MaxOps /\ crashes \in 0 .. MaxCrashes
    /\ up \in BOOLEAN
    /\ starting \in BOOLEAN /\ listed \in Rows \cup {None}
    /\ history \subseteq Causes

(***************************************************************************)
(* While an upgrade may change the application, no other one does, and an  *)
(* upgrade that could still be rolled back finds the files it would put    *)
(* back: the lock is held from before the row is marked until after the    *)
(* last Save, whatever other operations write over the status in between.  *)
(***************************************************************************)
OneUpgradeAtATime ==
    \A p, q \in Requests :
        pc[p] \notin {"idle", "read", "done"} /\ pc[q] \notin {"idle", "read", "done"}
            => p = q

(***************************************************************************)
(* The row tells the truth about the disk: when no upgrade is under way    *)
(* and the row shows no error, the files and the containers are of the     *)
(* row's version and, unless an upgrade without a backup was rolled back   *)
(* or one went to a version behind the data that a failed one had left,    *)
(* no later version has migrated the data.  So a half-made upgrade -       *)
(* whatever step failed, whatever the rollback then failed at, wherever    *)
(* the agent died - always shows as UpgradeErr or Error, until an          *)
(* operation overlaps or overrides it.                                     *)
(***************************************************************************)
RowTellsTheTruth ==
    /\ up
    /\ \A p \in Requests : pc[p] \in {"idle", "read", "done"}
    /\ row.status \in {"Running", "Stopped", "UpErr"}
    /\ history \cap {"overlap", "stale", "operated", "early"} = {}
    =>
    /\ \A f \in Parts : files[f] = row.version
    /\ containers.of \in {Gone, row.version}
    /\ data <= row.version \/ history \cap {"unbacked", "behind"} # {}

(***************************************************************************)
(* The images of a version are deleted only once nothing can need them:    *)
(* those of the row's version, and of the version an upgrade would roll    *)
(* back to, are on the host (compose is told not to pull) - unless a stale *)
(* row brought back a version that was replaced, be it one that SyncAll    *)
(* had listed before the upgrade ended.                                    *)
(***************************************************************************)
ImagesKept ==
    history \cap {"stale", "reverted"} = {} =>
        /\ row.version \in images
        /\ \A p \in Requests :
              pc[p] \notin {"idle", "read", "images", "end", "release", "done"} =>
                  ctx[p].original.version \in images

(***************************************************************************)
(* No application is upgrading for ever: an upgrade ends, or the restart   *)
(* of the agent that died turns its status into an error, unless the last  *)
(* Save failed or another operation wrote the status back.                 *)
(***************************************************************************)
UpgradeSettles ==
    row.status = "Upgrading" ~>
        row.status # "Upgrading" \/ history \cap {"unsaved", "resurrected"} # {}
=============================================================================
