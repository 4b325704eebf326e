---------------------------- MODULE SnapshotSteps ----------------------------
(***************************************************************************)
(* The steps of a snapshot and of a recovery, in the order in which        *)
(* agent/app/service/snapshot_create.go and snapshot_recover.go add them   *)
(* as subtasks, and which of them run when the work is taken up again at   *)
(* the interrupt_step of the row.                                          *)
(***************************************************************************)
EXTENDS Naturals, Sequences

\* Steps added without a condition.
CreateAlways == {"SnapDBInfo", "SnapCloseDBConn"}
\* Mutant: the archive is made before the data of the panel is there.
CreateStepsCompressEarly ==
    <<"SnapDBInfo", "SnapBaseInfo", "SnapInstallApp", "SnapLocalBackup",
      "SnapCloseDBConn", "SnapCompress", "SnapPanelData", "SnapUpload">>
CreateSteps == <<"SnapDBInfo", "SnapBaseInfo", "SnapInstallApp", "SnapLocalBackup",
                 "SnapPanelData", "SnapCloseDBConn", "SnapCompress", "SnapUpload">>

\* Mutant: the database is replaced before the panel's own data.
RecoverStepsDbFirst ==
    <<"RecoverDownload", "RecoverDecompress", "BackupBeforeRecover", "ReadJson",
      "RecoverApp", "RecoverBaseData", "RecoverBackups", "RecoverWebsite",
      "RecoverDBData", "RecoverPanelData", "RecoverCompose">>
\* Mutant: the panel is copied after its first files were replaced.
RecoverStepsBackupLate ==
    <<"RecoverDownload", "RecoverDecompress", "ReadJson", "RecoverApp",
      "RecoverBaseData", "BackupBeforeRecover", "RecoverBackups", "RecoverWebsite",
      "RecoverPanelData", "RecoverCompose", "RecoverDBData">>
RecoverAlways == {"ReadJson"}
RecoverSteps ==
    <<"RecoverDownload", "RecoverDecompress", "BackupBeforeRecover", "ReadJson",
      "RecoverApp", "RecoverBaseData", "RecoverBackups", "RecoverWebsite",
      "RecoverPanelData", "RecoverCompose", "RecoverDBData">>

\* SnapshotRecover starts over when it was interrupted before the panel changed.
BeforeChange == {"RecoverDownload", "RecoverDecompress", "BackupBeforeRecover"}

StepsOf(steps) == {steps[i] : i \in DOMAIN steps}

\* A condition that held once makes every later one hold: the handlers blank the
\* step they compare with (create), or set IsNew (recover).
NotBefore(steps, from, s) ==
    \E i, j \in DOMAIN steps : i <= j /\ steps[i] = from /\ steps[j] = s

Steps == StepsOf(CreateSteps) \cup StepsOf(RecoverSteps) \cup {"Rollback"}

\* What a task that is at a step may still have to do.
Onwards == [s \in Steps |->
    {s} \cup {t \in Steps : NotBefore(CreateSteps, s, t) \/ NotBefore(RecoverSteps, s, t)}]

\* The subtasks added for a run that starts at from ("": at the beginning).  An
\* unconditional step does not start the others.
Plan(steps, always, from) ==
    {s \in StepsOf(steps) : \/ s \in always \/ from = ""
                            \/ from \notin always /\ NotBefore(steps, from, s)}
=============================================================================
