--------------------------- MODULE SnapshotProofs ---------------------------
(***************************************************************************)
(* Proofs about the snapshots, for every number of rows, of tasks at once, *)
(* of requests and of crashes: the types, the copy a rollback puts back,   *)
(* the rows that wait, the parts of a snapshot, the order in which a       *)
(* recovery replaces the files of the panel, and the way back from one.    *)
(* The steps of the model are seen twice, with what matters to a recovery  *)
(* (Cases) and with what matters to a creation (CreateCases): the proofs   *)
(* of the invariants go through these views and not through the actions.   *)
(***************************************************************************)
EXTENDS Snapshot, TLAPS

-----------------------------------------------------------------------------
(* The lists of steps. *)

\* The steps of a creation, and of a recovery, by name.
CreateNames == {"SnapDBInfo", "SnapBaseInfo", "SnapInstallApp", "SnapLocalBackup",
                "SnapPanelData", "SnapCloseDBConn", "SnapCompress", "SnapUpload"}

RecoverNames == {"RecoverDownload", "RecoverDecompress", "BackupBeforeRecover", "ReadJson",
                 "RecoverApp", "RecoverBaseData", "RecoverBackups", "RecoverWebsite",
                 "RecoverPanelData", "RecoverCompose", "RecoverDBData"}

\* The names of the steps, which are each in one list only and once.
LEMMA Names ==
    /\ DOMAIN CreateSteps = 1..8 /\ StepsOf(CreateSteps) = CreateNames
    /\ DOMAIN RecoverSteps = 1..11 /\ StepsOf(RecoverSteps) = RecoverNames
    /\ \A i, j \in 1..8 : CreateSteps[i] = CreateSteps[j] => i = j
    /\ \A i, j \in 1..11 : RecoverSteps[i] = RecoverSteps[j] => i = j
<1>1. DOMAIN CreateSteps = 1..8 /\ DOMAIN RecoverSteps = 1..11
  BY DEF CreateSteps, RecoverSteps
<1>2. /\ 1..8 = {1, 2, 3, 4, 5, 6, 7, 8}
      /\ 1..11 = {1, 2, 3, 4, 5, 6, 7, 8, 9, 10, 11}
  OBVIOUS
<1>3. StepsOf(CreateSteps) = {CreateSteps[i] : i \in {1, 2, 3, 4, 5, 6, 7, 8}}
  BY <1>1, <1>2 DEF StepsOf
<1>4. StepsOf(RecoverSteps) = {RecoverSteps[i] : i \in {1, 2, 3, 4, 5, 6, 7, 8, 9, 10, 11}}
  BY <1>1, <1>2 DEF StepsOf
<1>5. StepsOf(CreateSteps) = CreateNames
  BY <1>3 DEF CreateSteps, CreateNames
<1>6. StepsOf(RecoverSteps) = RecoverNames
  BY <1>4 DEF RecoverSteps, RecoverNames
<1>7. \A i, j \in 1..8 : CreateSteps[i] = CreateSteps[j] => i = j
  BY <1>2 DEF CreateSteps
<1>8. \A i, j \in 1..11 : RecoverSteps[i] = RecoverSteps[j] => i = j
  BY <1>2 DEF RecoverSteps
<1> QED
  BY <1>1, <1>5, <1>6, <1>7, <1>8

\* What may be left at a step: the rest of its list.
LEMMA Rest ==
    /\ \A i \in 1..8 : Onwards[CreateSteps[i]] = {CreateSteps[j] : j \in i..8}
    /\ \A i \in 1..11 : Onwards[RecoverSteps[i]] = {RecoverSteps[j] : j \in i..11}
    /\ Onwards["Rollback"] = {"Rollback"}
<1>1. StepsOf(CreateSteps) \cap StepsOf(RecoverSteps) = {}
  BY Names DEF CreateNames, RecoverNames
<1>2. ASSUME NEW i \in 1..8 PROVE Onwards[CreateSteps[i]] = {CreateSteps[j] : j \in i..8}
  <2>1. CreateSteps[i] \in StepsOf(CreateSteps) /\ CreateSteps[i] \in Steps
    BY Names DEF StepsOf, Steps
  <2>2. \A t : ~NotBefore(RecoverSteps, CreateSteps[i], t)
    BY <1>1, <2>1, Names DEF NotBefore, StepsOf
  <2>3. \A t : NotBefore(CreateSteps, CreateSteps[i], t) <=> \E j \in i..8 : t = CreateSteps[j]
    BY Names DEF NotBefore
  <2>4. \A j \in i..8 : CreateSteps[j] \in Steps
    BY Names DEF StepsOf, Steps
  <2> QED
    BY <2>1, <2>2, <2>3, <2>4 DEF Onwards
<1>3. ASSUME NEW i \in 1..11 PROVE Onwards[RecoverSteps[i]] = {RecoverSteps[j] : j \in i..11}
  <2>1. RecoverSteps[i] \in StepsOf(RecoverSteps) /\ RecoverSteps[i] \in Steps
    BY Names DEF StepsOf, Steps
  <2>2. \A t : ~NotBefore(CreateSteps, RecoverSteps[i], t)
    BY <1>1, <2>1, Names DEF NotBefore, StepsOf
  <2>3. \A t : NotBefore(RecoverSteps, RecoverSteps[i], t)
                  <=> \E j \in i..11 : t = RecoverSteps[j]
    BY Names DEF NotBefore
  <2>4. \A j \in i..11 : RecoverSteps[j] \in Steps
    BY Names DEF StepsOf, Steps
  <2> QED
    BY <2>1, <2>2, <2>3, <2>4 DEF Onwards
<1>4. Onwards["Rollback"] = {"Rollback"}
  <2>1. "Rollback" \notin StepsOf(CreateSteps) /\ "Rollback" \notin StepsOf(RecoverSteps)
    BY Names DEF CreateNames, RecoverNames
  <2>2. \A t : ~NotBefore(CreateSteps, "Rollback", t) /\ ~NotBefore(RecoverSteps, "Rollback", t)
    BY <2>1 DEF NotBefore, StepsOf
  <2>3. "Rollback" \in Steps
    BY DEF Steps
  <2> QED
    BY <2>2, <2>3 DEF Onwards
<1> QED
  BY <1>2, <1>3, <1>4

\* A step is on the list after it only once.
LEMMA Ordered ==
    /\ \A s \in Steps : s \in Onwards[s] /\ Onwards[s] \subseteq Steps
    /\ \A s, t \in Steps : t \in Onwards[s] /\ s \in Onwards[t] => s = t
<1>1. \A s \in Steps : \/ \E i \in 1..8 : s = CreateSteps[i]
                       \/ \E i \in 1..11 : s = RecoverSteps[i]
                       \/ s = "Rollback"
  BY Names DEF Steps, StepsOf
<1>2. \A s \in Steps : s \in Onwards[s] /\ Onwards[s] \subseteq Steps
  BY DEF Onwards
<1>3. \A i, j \in 1..8 : CreateSteps[j] \in Onwards[CreateSteps[i]] => i <= j
  BY Names, Rest
<1>4. \A i, j \in 1..11 : RecoverSteps[j] \in Onwards[RecoverSteps[i]] => i <= j
  BY Names, Rest
<1>5. /\ \A i \in 1..8 : Onwards[CreateSteps[i]] \subseteq CreateNames
      /\ \A i \in 1..11 : Onwards[RecoverSteps[i]] \subseteq RecoverNames
  BY Names, Rest DEF StepsOf
<1> QED
  <2> SUFFICES ASSUME NEW s \in Steps, NEW t \in Steps, t \in Onwards[s], s \in Onwards[t]
               PROVE  s = t
    BY <1>2
  <2>1. CASE \E i \in 1..8 : s = CreateSteps[i]
    <3>1. PICK i \in 1..8 : s = CreateSteps[i]
      BY <2>1
    <3>2. t \in CreateNames
      BY <3>1, <1>5
    <3>3. PICK j \in 1..8 : t = CreateSteps[j]
      BY <3>2, Names DEF StepsOf
    <3> QED BY <3>1, <3>3, <1>3
  <2>2. CASE \E i \in 1..11 : s = RecoverSteps[i]
    <3>1. PICK i \in 1..11 : s = RecoverSteps[i]
      BY <2>2
    <3>2. t \in RecoverNames
      BY <3>1, <1>5
    <3>3. PICK j \in 1..11 : t = RecoverSteps[j]
      BY <3>2, Names DEF StepsOf
    <3> QED BY <3>1, <3>3, <1>4
  <2>3. CASE s = "Rollback"
    BY <2>3, Rest
  <2> QED BY <1>1, <2>1, <2>2, <2>3

\* What comes after a step comes after every step before it.
LEMMA Transitive ==
    \A s \in Steps : \A t \in Onwards[s] : Onwards[t] \subseteq Onwards[s]
<1>1. \A s \in Steps : \/ \E i \in 1..8 : s = CreateSteps[i]
                       \/ \E i \in 1..11 : s = RecoverSteps[i]
                       \/ s = "Rollback"
  BY Names DEF Steps, StepsOf
<1> SUFFICES ASSUME NEW s \in Steps, NEW t \in Onwards[s] PROVE Onwards[t] \subseteq Onwards[s]
  OBVIOUS
<1>2. CASE \E i \in 1..8 : s = CreateSteps[i]
  <2>1. PICK i \in 1..8 : s = CreateSteps[i]
    BY <1>2
  <2>2. PICK j \in i..8 : t = CreateSteps[j]
    BY <2>1, Rest
  <2>3. j \in 1..8 /\ j..8 \subseteq i..8
    OBVIOUS
  <2> QED
    BY <2>1, <2>2, <2>3, Rest
<1>3. CASE \E i \in 1..11 : s = RecoverSteps[i]
  <2>1. PICK i \in 1..11 : s = RecoverSteps[i]
    BY <1>3
  <2>2. PICK j \in i..11 : t = RecoverSteps[j]
    BY <2>1, Rest
  <2>3. j \in 1..11 /\ j..11 \subseteq i..11
    OBVIOUS
  <2> QED
    BY <2>1, <2>2, <2>3, Rest
<1>4. CASE s = "Rollback"
  BY <1>4, Rest
<1> QED
  BY <1>1, <1>2, <1>3, <1>4

\* The lists do not meet, and neither has the one step of a rollback.
LEMMA Apart ==
    /\ CreateNames \cap RecoverNames = {}
    /\ "Rollback" \notin CreateNames \cup RecoverNames
    /\ Steps = CreateNames \cup RecoverNames \cup {"Rollback"}
    /\ \A s \in CreateNames : Onwards[s] \subseteq CreateNames
    /\ \A s \in RecoverNames : Onwards[s] \subseteq RecoverNames
<1>1. /\ CreateNames \cap RecoverNames = {}
      /\ "Rollback" \notin CreateNames \cup RecoverNames
  BY DEF CreateNames, RecoverNames
<1>2. Steps = CreateNames \cup RecoverNames \cup {"Rollback"}
  BY Names DEF Steps
<1>3. \A s \in CreateNames : \E i \in 1..8 : s = CreateSteps[i]
  BY Names DEF StepsOf
<1>4. \A s \in RecoverNames : \E i \in 1..11 : s = RecoverSteps[i]
  BY Names DEF StepsOf
<1>5. \A i \in 1..8 : Onwards[CreateSteps[i]] \subseteq CreateNames
  BY Names, Rest DEF StepsOf
<1>6. \A i \in 1..11 : Onwards[RecoverSteps[i]] \subseteq RecoverNames
  BY Names, Rest DEF StepsOf
<1> QED
  BY <1>1, <1>2, <1>3, <1>4, <1>5, <1>6

\* The last steps of a creation and of a recovery.
LEMMA LastSteps ==
    /\ Onwards["SnapCompress"] = {"SnapCompress", "SnapUpload"}
    /\ Onwards["SnapUpload"] = {"SnapUpload"}
    /\ Onwards["RecoverDBData"] = {"RecoverDBData"}
    /\ \A s \in RecoverNames : "RecoverDBData" \in Onwards[s]
<1>1. /\ CreateSteps[7] = "SnapCompress" /\ CreateSteps[8] = "SnapUpload"
      /\ RecoverSteps[11] = "RecoverDBData"
  BY DEF CreateSteps, RecoverSteps
<1>2. /\ \A j : j \in 7..8 <=> j = 7 \/ j = 8
      /\ \A j : j \in 8..8 <=> j = 8
      /\ \A j : j \in 11..11 <=> j = 11
      /\ 7 \in 1..8 /\ 8 \in 1..8 /\ 11 \in 1..11
      /\ \A i \in 1..11 : 11 \in i..11
  OBVIOUS
<1>3. Onwards["SnapCompress"] = {CreateSteps[j] : j \in 7..8}
  BY <1>1, <1>2, Rest
<1>4. Onwards["SnapUpload"] = {CreateSteps[j] : j \in 8..8}
  BY <1>1, <1>2, Rest
<1>5. Onwards["RecoverDBData"] = {RecoverSteps[j] : j \in 11..11}
  BY <1>1, <1>2, Rest
<1>6. Onwards["SnapCompress"] = {"SnapCompress", "SnapUpload"}
  BY <1>1, <1>2, <1>3
<1>7. Onwards["SnapUpload"] = {"SnapUpload"}
  BY <1>1, <1>2, <1>4
<1>8. Onwards["RecoverDBData"] = {"RecoverDBData"}
  BY <1>1, <1>2, <1>5
<1>9. ASSUME NEW s \in RecoverNames PROVE "RecoverDBData" \in Onwards[s]
  <2>1. PICK i \in 1..11 : s = RecoverSteps[i]
    BY Names DEF StepsOf
  <2> QED
    BY <2>1, <1>1, <1>2, Rest
<1> QED
  BY <1>6, <1>7, <1>8, <1>9

\* The copy of the panel is still to be made exactly at the first three steps.
LEMMA FirstSteps ==
    \A s \in RecoverNames : "BackupBeforeRecover" \in Onwards[s] <=> s \in BeforeChange
<1>1. /\ RecoverSteps[1] = "RecoverDownload" /\ RecoverSteps[2] = "RecoverDecompress"
      /\ RecoverSteps[3] = "BackupBeforeRecover"
  BY DEF RecoverSteps
<1>2. /\ \A i \in 1..11 : 3 \in i..11 <=> i = 1 \/ i = 2 \/ i = 3
      /\ 1 \in 1..11 /\ 2 \in 1..11 /\ 3 \in 1..11
  OBVIOUS
<1> SUFFICES ASSUME NEW s \in RecoverNames
             PROVE  "BackupBeforeRecover" \in Onwards[s] <=> s \in BeforeChange
  OBVIOUS
<1>3. PICK i \in 1..11 : s = RecoverSteps[i]
  BY Names DEF StepsOf
<1>4. "BackupBeforeRecover" \in Onwards[s] <=> 3 \in i..11
  <2>1. \A j \in i..11 : j \in 1..11
    OBVIOUS
  <2> QED
    BY <1>1, <1>2, <1>3, <2>1, Names, Rest
<1>5. s \in BeforeChange <=> i = 1 \/ i = 2 \/ i = 3
  BY <1>1, <1>2, <1>3, Names DEF BeforeChange
<1> QED
  BY <1>2, <1>4, <1>5

\* The files the steps still to run would change.
Left(todo) == UNION {FilesOf(s) : s \in todo}
Remaining(s) == Left(Onwards[s])

\* Every file of the panel is changed by some step, and more steps change more.
LEMMA LeftFacts ==
    /\ Left(RecoverNames) = Files
    /\ \A todo \in SUBSET Steps : \A s \in todo : FilesOf(s) \subseteq Left(todo)
    /\ \A todo, more \in SUBSET Steps : todo \subseteq more => Left(todo) \subseteq Left(more)
    /\ \A todo \in SUBSET Steps : Left(todo) \subseteq Files
    /\ Left({}) = {} /\ Remaining("RecoverDBData") = {"db"}
<1>1. \A s \in Steps : FilesOf(s) \subseteq Files
  BY DEF FilesOf, Files, Restorable
<1>2. Left(RecoverNames) = Files
  <2>1. /\ FilesOf("RecoverBaseData") = Files \cap {"base", "core"}
        /\ FilesOf("RecoverBackups") = {"backups"}
        /\ FilesOf("RecoverWebsite") = {"website"} /\ FilesOf("RecoverDBData") = {"db"}
        /\ FilesOf("RecoverPanelData") = {"data", "website"}
    BY DEF FilesOf
  <2>2. {"RecoverBaseData", "RecoverBackups", "RecoverWebsite", "RecoverDBData",
         "RecoverPanelData"} \subseteq RecoverNames
    BY DEF RecoverNames
  <2>3. Files \subseteq Left(RecoverNames)
    <3>1. \A s \in RecoverNames : FilesOf(s) \subseteq Left(RecoverNames)
      BY DEF Left
    <3> QED
      BY <2>1, <2>2, <3>1 DEF Files, Restorable
  <2>4. Left(RecoverNames) \subseteq Files
    BY <1>1, Apart DEF Left
  <2> QED
    BY <2>3, <2>4
<1>3. Remaining("RecoverDBData") = {"db"}
  BY LastSteps DEF Remaining, Left, FilesOf
<1> QED
  BY <1>1, <1>2, <1>3 DEF Left

\* A task can be resumed at the later steps of a recovery.
Later == RecoverNames \ BeforeChange
Resumes(s) == s \in Later \ RecoverAlways

\* The steps of a recovery that starts over or is taken up.
LEMMA RecoverPlan ==
    /\ Plan(RecoverSteps, RecoverAlways, "") = RecoverNames
    /\ Plan(RecoverSteps, RecoverAlways, "ReadJson") = {"ReadJson"}
    /\ \A s \in RecoverNames \ RecoverAlways :
          Plan(RecoverSteps, RecoverAlways, s) = Onwards[s] \cup {"ReadJson"}
<1>1. Plan(RecoverSteps, RecoverAlways, "") = RecoverNames
  BY Names DEF Plan
<1>2. "ReadJson" \in RecoverNames
  BY DEF RecoverNames
<1>3. Plan(RecoverSteps, RecoverAlways, "ReadJson") = {"ReadJson"}
  BY <1>2, Names DEF Plan, RecoverAlways
<1>4. ASSUME NEW s \in RecoverNames \ RecoverAlways
      PROVE  Plan(RecoverSteps, RecoverAlways, s) = Onwards[s] \cup {"ReadJson"}
  <2>1. s # "" /\ s \notin CreateNames /\ s \in Steps
    BY Apart DEF RecoverNames
  <2>2. \A t : ~NotBefore(CreateSteps, s, t)
    BY <2>1, Names DEF NotBefore, StepsOf
  <2>3. s \in StepsOf(RecoverSteps) /\ \A t : NotBefore(RecoverSteps, s, t) => t \in RecoverNames
    BY Names DEF NotBefore, StepsOf
  <2>4. NotBefore(RecoverSteps, s, s)
    <3>1. PICK i \in 1..11 : s = RecoverSteps[i]
      BY <2>3, Names DEF StepsOf
    <3> QED
      BY <3>1, Names DEF NotBefore
  <2>5. Onwards[s] = {t \in RecoverNames : NotBefore(RecoverSteps, s, t)}
    BY <2>1, <2>2, <2>3, <2>4, Apart DEF Onwards
  <2> QED
    BY <2>1, <2>5, <1>2, Names DEF Plan, RecoverAlways
<1> QED
  BY <1>1, <1>3, <1>4

\* The steps of a creation that starts, or is taken up.
LEMMA CreatePlan ==
    /\ Plan(CreateSteps, CreateAlways, "") = CreateNames
    /\ \A s : Plan(CreateSteps, CreateAlways, s) \subseteq CreateNames
BY Names DEF Plan

-----------------------------------------------------------------------------
(* The types. *)

\* The kinds of a task.
Creating(w) == jobs[w].kind \in {"create", "cronjob"}
Recovering(w) == jobs[w].kind = "recover"
RollingBack(w) == jobs[w].kind = "rollback"
Restoring(w) == Recovering(w) \/ RollingBack(w)

\* The type of a task.
JobType == [kind : {"none", "create", "cronjob", "recover", "rollback"},
            todo : SUBSET Steps, id : 0..MaxRows]

\* What is left of a recovery is the end of its list, but for the step that is always
\* added.
Shape(todo) == \A s \in todo \ RecoverAlways : Onwards[s] \subseteq todo

\* A task has steps of its kind and an id, and when the row it was started for is
\* still there, that says what it said.
JobOK(w) ==
    /\ jobs[w].kind = "none" => jobs[w] = Idle
    /\ Creating(w) => jobs[w].todo \subseteq CreateNames
    /\ Recovering(w) => jobs[w].todo \subseteq RecoverNames /\ Shape(jobs[w].todo)
    /\ RollingBack(w) => jobs[w].todo \subseteq {"Rollback"}
    /\ Busy(w) => up /\ tasks # 0 /\ jobs[w].id # 0
    /\ Creating(w) => jobs[w].id \notin {kept.id, file.id}
    /\ jobs[w].id = row.id => /\ Creating(w) => row.status = "Waiting"
                              /\ Restoring(w) => row.status = "Success"

\* A row is there or it is not; it tells of a recovery only after a creation that
\* succeeded, and its step is of the task that can be taken up.
RowOK(r) ==
    /\ r.id = 0 \/ r.status = "None" => r = NoRow
    /\ r.recover # "" \/ r.rollback # "" => r.status = "Success"
    /\ r.status = "Success" => r.step \in RecoverNames \cup {""}
    /\ r.status # "Success" => r.step \in CreateNames \cup {""}

\* The panel while it was never recovered.
Pristine ==
    panel = Untouched /\ original = NoOriginal /\ kept = NoRow /\ file = NoRow /\ ~dbGone

\* The rows in the two databases that are not open.
CopiesOK ==
    /\ RowOK(kept) /\ RowOK(file) /\ kept.status \in {"None", "Success"}
    /\ file = NoRow \/ (dbGone /\ file = kept)

\* The row is as its copies are, and while the snapshot was never complete, or nothing ran
\* yet, nothing was recovered.
RowsOK ==
    /\ RowOK(row) /\ CopiesOK
    /\ row.status \in {"Waiting", "Failed"} \/ tasks = 0 =>
          Pristine /\ \A w \in Workers : ~Restoring(w)

\* The invariant of the types: each task fits its kind and its row, and two creations
\* never have one row.
TypeInv ==
    /\ TypeOK /\ RowsOK
    /\ \A w \in Workers : JobOK(w)
    /\ \A w, v \in Workers :
          Creating(w) /\ Creating(v) /\ jobs[w].id = jobs[v].id => w = v

-----------------------------------------------------------------------------
(* What the steps of the tasks do to the disk. *)

\* The files of the panel, the copy of them, and the databases.
panelVars == <<panel, original, kept, dbGone, file>>

\* What a step of a recovery may do to the panel, whole or cut short,
Touches(s) ==
    \/ UNCHANGED panelVars
    \/ s = "BackupBeforeRecover" /\ \E files \in SUBSET Restorable : Keep(files, {})
    \/ FilesOf(s) # {} /\ \E state \in {"mixed", "after"} : Overwrite(FilesOf(s), state)

\* or when it misses files.
MissesFiles(s) ==
    \/ s = "BackupBeforeRecover" /\ \E missed \in SUBSET Findable : Keep(Findable, missed)
    \/ FilesOf(s) # {} /\ Overwrite(FilesOf(s), "mixed")
Changes(s) == Touches(s) \/ MissesFiles(s)

\* Only steps of a recovery, after the copy, change files of the panel.
LEMMA NamesOfFiles ==
    /\ FilesOf("BackupBeforeRecover") = {}
    /\ \A s \in CreateNames : FilesOf(s) = {} /\ s # "BackupBeforeRecover"
    /\ PartSteps \subseteq CreateNames
    /\ \A s \in PartSteps : s \notin {"SnapCompress", "SnapUpload", "SnapCloseDBConn"}
    /\ CreateNames = PartSteps \cup {"SnapCompress", "SnapUpload", "SnapCloseDBConn"}
    /\ \A s \in Steps : FilesOf(s) # {} => s \in RecoverNames \ {"BackupBeforeRecover",
                                             "RecoverDownload", "RecoverDecompress"}
<1>1. PartSteps \subseteq CreateNames
  BY DEF PartSteps, CreateNames
<1>2. CreateNames = PartSteps \cup {"SnapCompress", "SnapUpload", "SnapCloseDBConn"}
  BY DEF PartSteps, CreateNames
<1>3. \A s \in CreateNames : FilesOf(s) = {} /\ s # "BackupBeforeRecover"
  BY DEF FilesOf, CreateNames
<1>4. \A s \in PartSteps : s \notin {"SnapCompress", "SnapUpload", "SnapCloseDBConn"}
  BY DEF PartSteps
<1>5. \A s : FilesOf(s) # {} => s \in RecoverNames \ {"BackupBeforeRecover",
                                             "RecoverDownload", "RecoverDecompress"}
  BY DEF FilesOf, RecoverNames
<1> QED
  BY <1>1, <1>2, <1>3, <1>4, <1>5 DEF FilesOf

\* The whole effect of a step.
LEMMA EffectIs ==
    ASSUME NEW s \in CreateNames \cup RecoverNames, Effect(s)
    PROVE  /\ s = "BackupBeforeRecover" => Keep(Findable, {})
           /\ FilesOf(s) # {} => Overwrite(FilesOf(s), "after")
           /\ s # "BackupBeforeRecover" /\ FilesOf(s) = {} => UNCHANGED panelVars
           /\ s \in RecoverNames => UNCHANGED <<work, archive, remote>>
           /\ s \in PartSteps => work' = work \cup {PartOf(s)} /\ UNCHANGED <<archive, remote>>
           /\ s = "SnapCompress" => archive' = work /\ work' = {} /\ UNCHANGED remote
           /\ s = "SnapUpload" => remote' = archive /\ archive' = {} /\ UNCHANGED work
           /\ s = "SnapCloseDBConn" => UNCHANGED <<work, archive, remote>>
           /\ fetched' \in {fetched, {}, fetched \cup {"archive"}, fetched \cup {"open"}}
<1> USE DEF panelVars, db, temporary, disk
<1>1. CASE s \in PartSteps
  <2>1. FilesOf(s) = {} /\ s # "BackupBeforeRecover" /\ s \notin RecoverNames
        /\ s \notin {"SnapCompress", "SnapUpload", "SnapCloseDBConn"}
    BY <1>1, NamesOfFiles, Apart
  <2>2. s \notin {"RecoverDownload", "RecoverDecompress", "BackupBeforeRecover"}
    BY <2>1 DEF RecoverNames
  <2>3. /\ work' = work \cup {PartOf(s)}
        /\ UNCHANGED <<archive, remote, fetched, panel, original, kept, db>>
    BY <1>1, <2>1, <2>2 DEF Effect
  <2> QED
    BY <1>1, <2>1, <2>3
<1>2. CASE s = "SnapCompress"
  BY <1>2, NamesOfFiles, Apart DEF Effect, PartSteps
<1>3. CASE s = "SnapUpload"
  BY <1>3, NamesOfFiles, Apart DEF Effect, PartSteps
<1>4. CASE s = "SnapCloseDBConn"
  <2>1. s \in CreateNames /\ s \notin RecoverNames /\ s \notin PartSteps /\ FilesOf(s) = {}
    BY <1>4, NamesOfFiles, Apart
  <2> QED
    BY <1>4, <2>1 DEF Effect
<1>5. CASE s \in {"RecoverDownload", "RecoverDecompress"}
  <2>1. s \in RecoverNames /\ s \notin CreateNames /\ s \notin PartSteps /\ FilesOf(s) = {}
    BY <1>5, NamesOfFiles, Apart DEF RecoverNames, FilesOf
  <2>2. /\ fetched' = fetched \cup {IF s = "RecoverDownload" THEN "archive" ELSE "open"}
        /\ UNCHANGED <<work, archive, remote, panel, original, kept, db>>
    BY <1>5, <2>1 DEF Effect
  <2> QED
    BY <1>5, <2>1, <2>2
<1>6. CASE s = "BackupBeforeRecover"
  <2>1. s \in RecoverNames /\ s \notin CreateNames /\ s \notin PartSteps /\ FilesOf(s) = {}
    BY <1>6, NamesOfFiles, Apart DEF RecoverNames
  <2>2. Keep(Findable, {})
    BY <1>6, <2>1 DEF Effect
  <2> QED
    BY <1>6, <2>1, <2>2 DEF Keep
<1>7. CASE FilesOf(s) # {}
  <2>1. s \in RecoverNames \ {"BackupBeforeRecover", "RecoverDownload", "RecoverDecompress"}
        /\ s \notin CreateNames /\ s \notin PartSteps
    BY <1>7, NamesOfFiles, Apart
  <2>2. Overwrite(FilesOf(s), "after")
    BY <1>7, <2>1 DEF Effect, CreateNames, PartSteps
  <2>3. UNCHANGED <<work, archive, remote, fetched>>
    BY <2>2 DEF Overwrite
  <2> QED
    BY <1>7, <2>1, <2>2, <2>3 DEF CreateNames
<1>8. CASE s \in RecoverNames /\ FilesOf(s) = {}
           /\ s \notin {"RecoverDownload", "RecoverDecompress", "BackupBeforeRecover"}
  <2>1. s \notin CreateNames /\ s \notin PartSteps
    BY <1>8, NamesOfFiles, Apart
  <2>2. UNCHANGED disk
    BY <1>8, <2>1 DEF Effect, CreateNames
  <2> QED
    BY <1>8, <2>1, <2>2 DEF CreateNames
<1> QED
  BY <1>1, <1>2, <1>3, <1>4, <1>5, <1>6, <1>7, <1>8, NamesOfFiles

\* The whole effect of a step touches the panel in one of three ways.
LEMMA EffectTouches ==
    ASSUME NEW s \in CreateNames \cup RecoverNames, Effect(s)
    PROVE  Touches(s)
<1>1. Findable \in SUBSET Restorable
  BY DEF Findable
<1> QED
  BY <1>1, EffectIs DEF Touches

\* The effect of a step half way.
LEMMA HalfTouches ==
    ASSUME NEW s \in Steps, HalfEffect(s)
    PROVE  /\ Touches(s) /\ s \in RecoverNames
           /\ UNCHANGED <<work, archive, remote>> /\ fetched' \in SUBSET fetched
<1> USE DEF panelVars, db, temporary
<1>1. \A files \in KeptSoFar : files \cap Findable \in SUBSET Restorable
  BY DEF Findable
<1>2. ASSUME s = "BackupBeforeRecover", NEW files \in KeptSoFar,
             Keep(files \cap Findable, {})
      PROVE  /\ Touches(s) /\ s \in RecoverNames
             /\ UNCHANGED <<work, archive, remote>> /\ fetched' \in SUBSET fetched
  BY <1>1, <1>2 DEF Touches, Keep, RecoverNames
<1>3. ASSUME FilesOf(s) # {}, Overwrite(FilesOf(s), "mixed")
      PROVE  /\ Touches(s) /\ s \in RecoverNames
             /\ UNCHANGED <<work, archive, remote>> /\ fetched' \in SUBSET fetched
  BY <1>3, NamesOfFiles DEF Touches, Overwrite
<1>4. ASSUME s = "RecoverDownload", fetched' = fetched \ {"archive"},
             UNCHANGED <<work, archive, remote, panel, original, kept, db>>
      PROVE  /\ Touches(s) /\ s \in RecoverNames
             /\ UNCHANGED <<work, archive, remote>> /\ fetched' \in SUBSET fetched
  BY <1>4 DEF Touches, RecoverNames
<1> QED
  BY <1>2, <1>3, <1>4 DEF HalfEffect

\* The types of the variables that a recovery changes.
FilesTyped ==
    /\ panel \in [Files -> States] /\ original \in [Restorable -> States \cup {"none"}]
    /\ dbGone \in BOOLEAN /\ kept \in RowType /\ file \in RowType

\* The row that is not there is well formed.
LEMMA NoRowTyped ==
    NoRow \in RowType /\ RowOK(NoRow) /\ NoRow.id = 0 /\ NoRow.status = "None"
BY MaxRowsAssumption DEF NoRow, RowType, RowOK

\* What a step does to the panel keeps the types and the copies of the row in order.
LEMMA TouchTyped ==
    ASSUME TypeOK, RowOK(row), CopiesOK, NEW s \in Steps, Changes(s),
           row.status \in {"None", "Success"} \/ UNCHANGED panelVars
    PROVE  /\ FilesTyped' /\ CopiesOK'
           /\ kept' \in {kept, row, file} /\ file' \in {file, NoRow}
           /\ kept' = row /\ kept' # kept => row.status \in {"None", "Success"}
<1>1. CASE UNCHANGED panelVars
  BY <1>1 DEF panelVars, TypeOK, FilesTyped, CopiesOK, RowOK
<1>2. CASE \E files \in SUBSET Restorable : \E missed \in SUBSET files : Keep(files, missed)
  <2>0. PICK files \in SUBSET Restorable : \E missed \in SUBSET files : Keep(files, missed)
    BY <1>2
  <2>1. PICK missed \in SUBSET files : Keep(files, missed)
    BY <2>0
  <2>2. /\ kept' \in {kept, row, file} /\ file' = file /\ dbGone' = dbGone /\ panel' = panel
        /\ kept' # kept => kept' = RowOnDisk
    BY <2>1 DEF Keep, RowOnDisk, db
  <2>3. original' \in [Restorable -> States \cup {"none"}]
    <3>1. \A f \in Restorable : f \in Files
      BY DEF Files
    <3>2. original' = [f \in Restorable |-> CASE f \in missed -> "mixed"
                                             [] f \in files \ missed -> panel[f]
                                             [] OTHER -> original[f]]
      BY <2>1 DEF Keep
    <3> QED
      BY <3>1, <3>2 DEF TypeOK, States
  <2>4. row.status \in {"None", "Success"} \/ UNCHANGED panelVars
    OBVIOUS
  <2>5. CASE kept' = kept
    BY <2>2, <2>3, <2>5 DEF TypeOK, FilesTyped, CopiesOK, RowOK
  <2>6. CASE kept' # kept /\ dbGone
    <3>1. kept' = file
      BY <2>2, <2>6 DEF RowOnDisk
    <3>2. file.status \in {"None", "Success"}
      BY NoRowTyped DEF CopiesOK
    <3> QED
      BY <2>2, <2>3, <2>6, <3>1, <3>2, <1>1 DEF TypeOK, FilesTyped, CopiesOK, RowOK
  <2>7. CASE kept' # kept /\ ~dbGone
    <3>1. kept' = row /\ file = NoRow
      BY <2>2, <2>7 DEF RowOnDisk, CopiesOK
    <3> QED
      BY <2>2, <2>3, <2>7, <3>1, <1>1 DEF TypeOK, FilesTyped, CopiesOK, RowOK
  <2> QED
    BY <2>5, <2>6, <2>7 DEF TypeOK
<1>3. CASE \E state \in {"mixed", "after"} : Overwrite(FilesOf(s), state)
  <2>1. PICK state \in {"mixed", "after"} : Overwrite(FilesOf(s), state)
    BY <1>3
  <2>2. panel' \in [Files -> States]
    BY <2>1 DEF Overwrite, TypeOK, States
  <2>3. /\ original' = original /\ kept' = kept
        /\ \/ file' = NoRow
           \/ file' = file /\ dbGone' = dbGone
        /\ dbGone' \in BOOLEAN
    BY <2>1 DEF Overwrite, TypeOK
  <2> QED
    <3>1. FilesTyped'
      BY <2>2, <2>3, NoRowTyped DEF TypeOK, FilesTyped
    <3>2. RowOK(kept)' /\ (kept.status \in {"None", "Success"})'
      BY <2>3 DEF CopiesOK, RowOK
    <3>3. RowOK(file)'
      BY <2>3, NoRowTyped DEF CopiesOK, RowOK
    <3>4. (file = NoRow \/ (dbGone /\ file = kept))'
      BY <2>3 DEF CopiesOK
    <3> QED
      BY <2>3, <3>1, <3>2, <3>3, <3>4 DEF CopiesOK
<1>4. ASSUME NEW files \in SUBSET Restorable, Keep(files, {})
      PROVE  \E missed \in SUBSET files : Keep(files, missed)
  BY <1>4
<1>5. ASSUME NEW missed \in SUBSET Findable, Keep(Findable, missed)
      PROVE  \E files \in SUBSET Restorable : \E more \in SUBSET files : Keep(files, more)
  BY <1>5 DEF Findable
<1>6. Touches(s) => \/ UNCHANGED panelVars
                    \/ \E files \in SUBSET Restorable : Keep(files, {})
                    \/ \E state \in {"mixed", "after"} : Overwrite(FilesOf(s), state)
  BY DEF Touches
<1>7. MissesFiles(s) => \/ \E missed \in SUBSET Findable : Keep(Findable, missed)
                        \/ \E state \in {"mixed", "after"} : Overwrite(FilesOf(s), state)
  BY DEF MissesFiles
<1> QED
  BY <1>1, <1>2, <1>3, <1>4, <1>5, <1>6, <1>7 DEF Changes

\* A rollback may open the row of the copy.
LEMMA PutBackTyped ==
    ASSUME TypeOK, RowOK(row), CopiesOK, NEW files \in SUBSET Restorable,
           NEW missed \in SUBSET files, PutBack(files, missed)
    PROVE  /\ FilesTyped' /\ CopiesOK' /\ kept' = kept /\ original' = original
           /\ file' \in {file, kept} /\ row' \in {row, kept}
           /\ UNCHANGED <<work, archive, remote, fetched, dbGone>>
<1>1. /\ panel' = [f \in Files |-> IF f \in missed THEN "mixed"
                                   ELSE IF f \in files /\ original[f] # "none"
                                        THEN original[f] ELSE panel[f]]
      /\ file' = file \/ (file' = kept /\ dbGone)
      /\ row' \in {row, kept}
      /\ UNCHANGED <<work, archive, remote, fetched, original, kept, dbGone>>
  BY DEF PutBack, temporary
<1>2. panel' \in [Files -> States]
  <2>1. \A f \in files : original[f] \in States \cup {"none"}
    BY DEF TypeOK
  <2> QED
    BY <1>1, <2>1 DEF TypeOK, States
<1> QED
  BY <1>1, <1>2 DEF TypeOK, FilesTyped, CopiesOK, RowOK

\* A request starts one task, or none.
LEMMA BeginIs ==
    ASSUME TypeOK, NEW kind \in {"create", "cronjob", "recover", "rollback"},
           NEW plan \in SUBSET Steps, NEW id \in 0..MaxRows, Begin(kind, plan, id)
    PROVE  \E w \in Workers :
              /\ jobs[w] = Idle
              /\ jobs' \in [Workers -> JobType]
              /\ jobs'[w] = [kind |-> kind, todo |-> plan, id |-> id]
              /\ \A v \in Workers \ {w} : jobs'[v] = jobs[v]
<1>1. jobs \in [Workers -> JobType]
  BY DEF TypeOK, JobType
<1>2. PICK w \in Workers :
        /\ ~Busy(w)
        /\ jobs' = [jobs EXCEPT ![w] = [kind |-> kind, todo |-> plan, id |-> id]]
  BY DEF Begin
<1> DEFINE new == [kind |-> kind, todo |-> plan, id |-> id]
<1>3. new \in JobType
  BY DEF JobType
<1>4. jobs' = [jobs EXCEPT ![w] = new] /\ jobs[w] = Idle
  BY <1>2 DEF Busy
<1> HIDE DEF new
<1>5. /\ jobs' \in [Workers -> JobType] /\ jobs'[w] = new
      /\ \A v \in Workers \ {w} : jobs'[v] = jobs[v]
  BY <1>1, <1>3, <1>4
<1> QED
  BY <1>4, <1>5 DEF new

\* A task that ends leaves the others alone.
LEMMA EndsIs ==
    ASSUME TypeOK, NEW w \in Workers, Ends(w)
    PROVE  /\ jobs' \in [Workers -> JobType] /\ jobs'[w] = Idle
           /\ \A v \in Workers \ {w} : jobs'[v] = jobs[v]
<1>1. jobs \in [Workers -> JobType] /\ Idle \in JobType
  BY MaxRowsAssumption DEF TypeOK, JobType, Idle
<1> QED
  BY <1>1 DEF Ends

\* The fields of a task that is not there.
LEMMA IdleIs == Idle.kind = "none" /\ Idle.todo = {} /\ Idle.id = 0
BY DEF Idle

-----------------------------------------------------------------------------
(* Each action keeps the invariant of the types. *)

\* The invariant of the types holds at the start.
LEMMA TypeInit == Init => TypeInv
<1> SUFFICES ASSUME Init PROVE TypeInv
  OBVIOUS
<1>1. jobs \in [Workers -> JobType] /\ \A w \in Workers : jobs[w] = Idle
  BY MaxRowsAssumption DEF Init, JobType, Idle
<1>2. TypeOK
  <2>1. panel \in [Files -> States] /\ original \in [Restorable -> States \cup {"none"}]
    BY DEF Init, Untouched, NoOriginal, States
  <2>2. row \in RowType /\ kept \in RowType /\ file \in RowType
    BY NoRowTyped DEF Init
  <2>3. tasks \in 0..MaxTasks /\ crashes \in 0..MaxCrash
    BY MaxTasksAssumption, MaxCrashAssumption DEF Init
  <2> QED
    BY <1>1, <2>1, <2>2, <2>3 DEF Init, TypeOK, JobType
<1>3. Pristine
  BY DEF Init, Pristine
<1>4. RowsOK
  BY <1>1, <1>3, NoRowTyped, IdleIs
     DEF Init, RowsOK, CopiesOK, Restoring, Recovering, RollingBack
<1>5. \A w \in Workers : JobOK(w)
  BY <1>1, IdleIs DEF JobOK, Creating, Recovering, RollingBack, Restoring, Busy
<1> QED
  BY <1>1, <1>2, <1>4, <1>5, IdleIs DEF TypeInv, Creating

\* A task that is not touched is as good as its row.
LEMMA OtherJob ==
    ASSUME NEW v \in Workers, JobOK(v), jobs'[v] = jobs[v],
           jobs[v] # Idle => up' /\ tasks' # 0,
           Creating(v) => jobs[v].id \notin {kept'.id, file'.id},
           jobs[v].id = row'.id => /\ Creating(v) => row'.status = "Waiting"
                                   /\ Restoring(v) => row'.status = "Success"
    PROVE  JobOK(v)'
BY DEF JobOK, Busy, Creating, Restoring, Recovering, RollingBack

\* The kinds of a task exclude each other.
LEMMA KindIs ==
    \A w \in Workers : TypeOK => /\ jobs[w] \in JobType
                                 /\ jobs[w] = Idle => ~Creating(w) /\ ~Restoring(w)
                                 /\ Creating(w) => ~Restoring(w)
                                 /\ ~Creating(w) /\ ~Restoring(w) => jobs[w].kind = "none"
BY IdleIs DEF TypeOK, JobType, Creating, Restoring, Recovering, RollingBack

\* The steps that touch no file but those of the snapshot.
LEMMA CopiesKept ==
    ASSUME CopiesOK, UNCHANGED panelVars
    PROVE  CopiesOK' /\ (Pristine => Pristine')
BY DEF CopiesOK, RowOK, panelVars, Pristine

\* A task that has just been started.
LEMMA NewJob ==
    ASSUME NEW w \in Workers, NEW kind, NEW plan, NEW id,
           jobs'[w] = [kind |-> kind, todo |-> plan, id |-> id],
           up', tasks' # 0, id # 0,
           \/ /\ kind \in {"create", "cronjob"} /\ plan \subseteq CreateNames
              /\ id \notin {kept'.id, file'.id} /\ row'.status = "Waiting"
           \/ /\ kind = "recover" /\ row'.status = "Success"
              /\ plan \subseteq RecoverNames /\ Shape(plan)
           \/ kind = "rollback" /\ plan \subseteq {"Rollback"} /\ row'.status = "Success"
    PROVE  JobOK(w)'
<1>1. jobs'[w].kind = kind /\ jobs'[w].todo = plan /\ jobs'[w].id = id
  OBVIOUS
<1>2. CASE kind \in {"create", "cronjob"}
  BY <1>1, <1>2 DEF JobOK, Busy, Creating, Restoring, Recovering, RollingBack
<1>3. CASE kind = "recover"
  BY <1>1, <1>3 DEF JobOK, Busy, Creating, Restoring, Recovering, RollingBack
<1>4. CASE kind = "rollback"
  BY <1>1, <1>4 DEF JobOK, Busy, Creating, Restoring, Recovering, RollingBack
<1> QED
  BY <1>2, <1>3, <1>4

\* Two creations have two rows.
TwoRows == \A w, v \in Workers :
    Creating(w) /\ Creating(v) /\ jobs[w].id = jobs[v].id => w = v

\* Two creations have two rows, also after one task has changed.
LEMMA StillTwoRows ==
    ASSUME TypeInv, NEW w \in Workers, \A v \in Workers \ {w} : jobs'[v] = jobs[v],
           Creating(w)' => \/ Creating(w) /\ jobs'[w].id = jobs[w].id
                           \/ \A v \in Workers \ {w} : Creating(v) => jobs[v].id # jobs'[w].id
    PROVE  TwoRows'
BY DEF TypeInv, TwoRows, Creating

\* The subtasks of a recovery that is started or taken up.
RecoverTodo(all) == Plan(RecoverSteps, RecoverAlways, IF all THEN "" ELSE row.step)

\* The steps of a recovery that is offered are a proper end of its list.
LEMMA RecoverPlanOK ==
    ASSUME TypeInv, NEW all \in BOOLEAN, row.status = "Success", ~all => ~IsNew
    PROVE  /\ RecoverTodo(all) \subseteq RecoverNames /\ Shape(RecoverTodo(all))
           /\ RecoverTodo(all) \in SUBSET Steps
           /\ all => RecoverTodo(all) = RecoverNames
           /\ ~all => /\ row.step \in Later
                      /\ RecoverTodo(all) = IF row.step \in RecoverAlways THEN RecoverAlways
                                            ELSE Onwards[row.step] \cup RecoverAlways
<1>1. row.step \in RecoverNames \cup {""}
  BY DEF TypeInv, RowsOK, RowOK
<1>2. RecoverAlways = {"ReadJson"} /\ "ReadJson" \in RecoverNames
  BY DEF RecoverAlways, RecoverNames
<1>3. ~all => row.step \in Later
  BY <1>1 DEF IsNew, Later
<1>4. all => RecoverTodo(all) = RecoverNames
  BY RecoverPlan DEF RecoverTodo
<1>5. ~all => RecoverTodo(all) = IF row.step \in RecoverAlways THEN RecoverAlways
                                 ELSE Onwards[row.step] \cup RecoverAlways
  BY <1>2, <1>3, RecoverPlan DEF Later, RecoverTodo
<1>6. CASE all
  BY <1>4, <1>6, Apart DEF Shape
<1>7. CASE ~all
  <2>1. row.step \in RecoverNames /\ row.step \in Steps
    BY <1>3, <1>7, Apart DEF Later
  <2>2. Onwards[row.step] \subseteq RecoverNames
    BY <2>1, Apart
  <2>3. RecoverTodo(all) \subseteq RecoverNames
    BY <1>2, <1>5, <1>7, <2>2
  <2>4. ASSUME NEW t \in RecoverTodo(all) \ RecoverAlways
        PROVE  Onwards[t] \subseteq RecoverTodo(all)
    <3>1. t \in Onwards[row.step] /\ RecoverTodo(all) = Onwards[row.step] \cup RecoverAlways
      BY <1>5, <1>7, <2>4
    <3> QED
      BY <3>1, <2>1, Transitive
  <2>5. Shape(RecoverTodo(all))
    BY <2>4 DEF Shape
  <2> QED
    BY <1>3, <1>5, <1>7, <2>3, <2>5, Apart
<1> QED
  BY <1>3, <1>4, <1>5, <1>6, <1>7

\* A request to create keeps the invariant of the types.
LEMMA BeginCreateTyped == TypeInv /\ BeginCreate => TypeInv'
<1> SUFFICES ASSUME TypeInv, BeginCreate PROVE TypeInv'
  OBVIOUS
<1>1. /\ tasks = 0 /\ tasks' = 1 /\ tasks < MaxTasks
      /\ up /\ UNCHANGED <<up, work, archive, remote, fetched, panel, original, kept, dbGone,
                            file, crashes>>
  <2>1. tasks = 0 /\ Accept
    BY DEF BeginCreate
  <2> QED
    BY <2>1 DEF Accept, disk, temporary, db
<1>2. PICK id \in NewIds :
        /\ row' = [NoRow EXCEPT !.id = id, !.status = "Waiting"]
        /\ \/ /\ \E kind \in {"create", "cronjob"} :
                   Begin(kind, Plan(CreateSteps, CreateAlways, ""), id)
              /\ UNCHANGED history
           \/ /\ history' = history \cup {"taskless"}
              /\ UNCHANGED jobs
  BY DEF BeginCreate
<1>3. id \in 1..MaxRows /\ id # 0 /\ id \in 0..MaxRows
  BY DEF NewIds
<1>4. /\ row' \in RowType /\ RowOK(row)' /\ row'.id = id /\ row'.status = "Waiting"
      /\ row'.recover = "" /\ row'.rollback = ""
  BY <1>2, <1>3 DEF NoRow, RowType, RowOK
<1>5. \A w \in Workers : jobs[w] = Idle
  BY <1>1 DEF TypeInv, JobOK, Busy
<1>6. Pristine /\ CopiesOK /\ Pristine' /\ CopiesOK'
  BY <1>1, CopiesKept DEF TypeInv, RowsOK, panelVars
<1>7. /\ jobs' \in [Workers -> JobType]
      /\ \/ \A w \in Workers : jobs'[w] = Idle
         \/ \E w \in Workers, kind \in {"create", "cronjob"} :
               /\ jobs'[w] = [kind |-> kind, todo |-> CreateNames, id |-> id]
               /\ \A v \in Workers \ {w} : jobs'[v] = Idle
  <2>1. CASE UNCHANGED jobs
    BY <2>1, <1>5 DEF TypeInv, TypeOK, JobType
  <2>2. CASE \E kind \in {"create", "cronjob"} :
                Begin(kind, Plan(CreateSteps, CreateAlways, ""), id)
    <3>1. PICK kind \in {"create", "cronjob"} : Begin(kind, CreateNames, id)
      BY <2>2, CreatePlan
    <3>2. CreateNames \in SUBSET Steps /\ TypeOK
      BY Apart DEF TypeInv
    <3> QED
      BY <3>1, <3>2, <1>3, <1>5, BeginIs
  <2> QED
    BY <1>2, <2>1, <2>2
<1>8. TypeOK'
  <2>1. history' \subseteq Causes
    BY <1>2 DEF TypeInv, TypeOK, Causes
  <2>2. tasks' \in 0..MaxTasks
    BY <1>1, MaxTasksAssumption
  <2> QED
    BY <1>1, <1>4, <1>7, <2>1, <2>2 DEF TypeInv, TypeOK, JobType
<1>9. \A w \in Workers : jobs'[w] # Idle => /\ jobs'[w].kind \in {"create", "cronjob"}
                                            /\ jobs'[w].todo = CreateNames /\ jobs'[w].id = id
  BY <1>7
<1>10. \A w \in Workers : JobOK(w)'
  <2> SUFFICES ASSUME NEW w \in Workers PROVE JobOK(w)'
    OBVIOUS
  <2>1. kept'.id = 0 /\ file'.id = 0
    BY <1>6, NoRowTyped DEF Pristine
  <2>2. CASE jobs'[w] = Idle
    BY <2>2, IdleIs DEF JobOK, Creating, Restoring, Recovering, RollingBack, Busy
  <2>3. CASE jobs'[w] # Idle
    <3>1. PICK kind \in {"create", "cronjob"} :
            jobs'[w] = [kind |-> kind, todo |-> CreateNames, id |-> id]
      BY <2>3, <1>7
    <3>2. up' /\ tasks' # 0 /\ id \notin {kept'.id, file'.id}
      BY <1>1, <1>3, <2>1
    <3> QED
      BY <3>1, <3>2, <1>3, <1>4, NewJob
  <2> QED
    BY <2>2, <2>3
<1>11. RowsOK'
  <2>1. \A w \in Workers : ~Restoring(w)'
    BY <1>9, IdleIs DEF Restoring, Recovering, RollingBack
  <2> QED
    BY <1>4, <1>6, <2>1 DEF RowsOK
<1>12. \A w, v \in Workers : Creating(w)' /\ Creating(v)' => w = v
  BY <1>7, IdleIs DEF Creating
<1> QED
  BY <1>8, <1>10, <1>11, <1>12 DEF TypeInv

\* What every request does to the rest.
LEMMA AcceptIs ==
    ASSUME TypeInv, Accept
    PROVE  /\ up /\ up' = up
           /\ tasks' \in 0..MaxTasks /\ tasks' # 0
           /\ UNCHANGED <<work, archive, remote, fetched, panel, original, kept, dbGone, file,
                          crashes>>
           /\ UNCHANGED panelVars
<1>1. up /\ up' = up
  BY DEF Accept
<1>2. tasks' = tasks + 1 /\ tasks < MaxTasks
  BY DEF Accept
<1>3. tasks' \in 0..MaxTasks /\ tasks' # 0
  BY <1>2, MaxTasksAssumption DEF TypeInv, TypeOK
<1>4. UNCHANGED <<work, archive, remote, fetched, panel, original, kept, dbGone, file, crashes>>
  BY DEF Accept, disk, temporary, db
<1> QED
  BY <1>1, <1>3, <1>4 DEF panelVars

\* A request that starts a task, or none, for the row that is there.
LEMMA RequestTyped ==
    ASSUME TypeInv, Accept, history' \subseteq Causes,
           row' \in RowType, RowOK(row)', row'.id = row.id, row.id # 0,
           NEW kind \in {"create", "cronjob", "recover", "rollback"}, NEW plan \in SUBSET Steps,
           Begin(kind, plan, row.id) \/ UNCHANGED jobs,
           \/ /\ row.status = "Success" /\ row'.status = "Success"
              /\ \/ kind = "recover" /\ plan \subseteq RecoverNames /\ Shape(plan)
                 \/ kind = "rollback" /\ plan \subseteq {"Rollback"}
           \/ /\ row.status = "Failed" /\ row'.status = "Waiting"
              /\ kind = "create" /\ plan \subseteq CreateNames
    PROVE  TypeInv'
<1> USE AcceptIs
<1>1. TypeOK /\ RowsOK /\ CopiesOK /\ CopiesOK' /\ RowOK(row)
  BY CopiesKept DEF TypeInv, RowsOK
<1>2. jobs' \in [Workers -> JobType]
  <2>1. jobs \in [Workers -> JobType]
    BY <1>1 DEF TypeOK, JobType
  <2>2. row.id \in 0..MaxRows
    BY <1>1 DEF TypeOK, RowType
  <2> QED
    BY <1>1, <2>1, <2>2, BeginIs
<1>3. TypeOK'
  BY <1>1, <1>2 DEF TypeOK, JobType
<1>4. row.status = "Failed" => /\ Pristine /\ Pristine' /\ \A w \in Workers : ~Restoring(w)
                               /\ \A w \in Workers : Creating(w) => jobs[w].id # row.id
                               /\ row.id \notin {kept.id, file.id}
  <2>1. row.status = "Failed" => Pristine /\ Pristine' /\ \A w \in Workers : ~Restoring(w)
    BY <1>1, CopiesKept DEF RowsOK
  <2>2. row.status = "Failed" => \A w \in Workers : Creating(w) => jobs[w].id # row.id
    BY DEF TypeInv, JobOK
  <2>3. Pristine => kept.id = 0 /\ file.id = 0
    BY NoRowTyped DEF Pristine
  <2> QED
    BY <2>1, <2>2, <2>3
<1>5. ASSUME NEW v \in Workers, jobs'[v] = jobs[v] PROVE JobOK(v)'
  <2>1. JobOK(v)
    BY DEF TypeInv
  <2>2. Creating(v) => jobs[v].id \notin {kept'.id, file'.id}
    BY <2>1 DEF JobOK
  <2>3. jobs[v].id = row'.id => /\ Creating(v) => row'.status = "Waiting"
                                /\ Restoring(v) => row'.status = "Success"
    BY <2>1 DEF JobOK
  <2> QED
    BY <1>5, <2>1, <2>2, <2>3, OtherJob
<1>6. CASE UNCHANGED jobs
  <2>1. \A w \in Workers : JobOK(w)'
    BY <1>5, <1>6
  <2>2. \A w \in Workers : Restoring(w)' = Restoring(w)
    BY <1>6 DEF Restoring, Recovering, RollingBack
  <2>3. RowsOK'
    BY <1>1, <1>4, <2>2 DEF RowsOK
  <2>4. TwoRows'
    BY <1>6 DEF TypeInv, TwoRows, Creating
  <2> QED
    BY <1>3, <2>1, <2>3, <2>4 DEF TypeInv, TwoRows
<1>7. CASE Begin(kind, plan, row.id)
  <2>0. row.id \in 0..MaxRows
    BY <1>1 DEF TypeOK, RowType
  <2>1. PICK w \in Workers :
          /\ jobs[w] = Idle
          /\ jobs'[w] = [kind |-> kind, todo |-> plan, id |-> row.id]
          /\ \A v \in Workers \ {w} : jobs'[v] = jobs[v]
    BY <1>1, <1>7, <2>0, BeginIs
  <2>2. JobOK(w)'
    BY <1>4, <2>1, NewJob
  <2>3. \A v \in Workers : JobOK(v)'
    BY <1>5, <2>1, <2>2
  <2>4. jobs'[w].kind = kind /\ jobs'[w].id = row.id
    BY <2>1
  <2>5. Creating(w)' => row.status = "Failed"
    BY <2>4 DEF Creating
  <2>6. TwoRows'
    BY <1>4, <2>1, <2>4, <2>5, StillTwoRows
  <2>7. row'.status = "Waiting" => \A v \in Workers : ~Restoring(v)'
    BY <1>4, <2>1, <2>4 DEF Restoring, Recovering, RollingBack
  <2>8. RowsOK'
    BY <1>1, <1>4, <2>7 DEF RowsOK
  <2> QED
    BY <1>3, <2>3, <2>6, <2>8 DEF TypeInv, TwoRows
<1> QED
  BY <1>6, <1>7

\* So does one to create again,
LEMMA BeginReCreateTyped == TypeInv /\ BeginReCreate => TypeInv'
<1> SUFFICES ASSUME TypeInv, BeginReCreate PROVE TypeInv'
  OBVIOUS
<1>1. row \in RowType /\ RowOK(row) /\ history \subseteq Causes
  BY DEF TypeInv, TypeOK, RowsOK
<1>2. /\ row.status = "Failed" /\ Accept
      /\ Begin("create", Plan(CreateSteps, CreateAlways, row.step), row.id)
      /\ row' = [row EXCEPT !.status = "Waiting"]
      /\ history' \subseteq history \cup {"gap"}
  BY DEF BeginReCreate
<1>3. row' \in RowType /\ row'.id = row.id /\ row'.status = "Waiting"
  BY <1>1, <1>2 DEF RowType
<1>4. row.id # 0
  BY <1>1, <1>2, NoRowTyped DEF RowOK
<1>5. RowOK(row)'
  BY <1>1, <1>2, <1>3, <1>4 DEF RowOK, RowType
<1>6. history' \subseteq Causes
  BY <1>1, <1>2 DEF Causes
<1>7. Plan(CreateSteps, CreateAlways, row.step) \subseteq CreateNames
  BY CreatePlan
<1>8. Plan(CreateSteps, CreateAlways, row.step) \in SUBSET Steps
  BY <1>7, Apart
<1> QED
  BY <1>2, <1>3, <1>4, <1>5, <1>6, <1>7, <1>8, RequestTyped

\* one to recover,
LEMMA BeginRecoverTyped == TypeInv /\ BeginRecover => TypeInv'
<1> SUFFICES ASSUME TypeInv, BeginRecover PROVE TypeInv'
  OBVIOUS
<1>1. row \in RowType /\ RowOK(row) /\ history \subseteq Causes
  BY DEF TypeInv, TypeOK, RowsOK
<1>2. PICK reDownload \in BOOLEAN :
        /\ row.status = "Success"
        /\ Accept
        /\ row' = [row EXCEPT !.recover = "Waiting"]
        /\ Begin("recover", RecoverTodo(IsNew \/ reDownload), row.id) \/ UNCHANGED jobs
        /\ history' \subseteq history \cup {"anew", "beside", "taskless"}
  BY DEF BeginRecover, RecoverTodo, Beside
<1> DEFINE all == IsNew \/ reDownload
<1>3. row' \in RowType /\ row'.id = row.id /\ row'.status = "Success"
  BY <1>1, <1>2 DEF RowType
<1>4. row.id # 0
  BY <1>1, <1>2, NoRowTyped DEF RowOK
<1>5. RowOK(row)'
  BY <1>1, <1>2, <1>3, <1>4 DEF RowOK, RowType
<1>6. history' \subseteq Causes
  BY <1>1, <1>2 DEF Causes
<1>7. all \in BOOLEAN /\ (~all => ~IsNew)
  BY DEF IsNew
<1> HIDE DEF all
<1>8. /\ RecoverTodo(all) \subseteq RecoverNames /\ Shape(RecoverTodo(all))
      /\ RecoverTodo(all) \in SUBSET Steps
  BY <1>2, <1>7, RecoverPlanOK
<1>9. Begin("recover", RecoverTodo(all), row.id) \/ UNCHANGED jobs
  BY <1>2 DEF all
<1> QED
  BY <1>2, <1>3, <1>4, <1>5, <1>6, <1>8, <1>9, RequestTyped

\* one to roll back,
LEMMA BeginRollbackTyped == TypeInv /\ BeginRollback => TypeInv'
<1> SUFFICES ASSUME TypeInv, BeginRollback PROVE TypeInv'
  OBVIOUS
<1>1. row \in RowType /\ RowOK(row) /\ history \subseteq Causes
  BY DEF TypeInv, TypeOK, RowsOK
<1>2. /\ RollbackOffered /\ Accept /\ Begin("rollback", {"Rollback"}, row.id)
      /\ row' = row /\ history' \subseteq history \cup {"beside"}
  BY DEF BeginRollback, Beside
<1>3. row.status = "Success"
  BY <1>1, <1>2 DEF RollbackOffered, RowOK
<1>4. row.id # 0 /\ row' \in RowType /\ RowOK(row)'
  BY <1>1, <1>2, <1>3, NoRowTyped DEF RowOK
<1>5. history' \subseteq Causes
  BY <1>1, <1>2 DEF Causes
<1>6. {"Rollback"} \in SUBSET Steps
  BY Apart
<1> QED
  BY <1>2, <1>3, <1>4, <1>5, <1>6, RequestTyped

\* the import of an archive,
LEMMA ImportTyped == TypeInv /\ Import => TypeInv'
<1> SUFFICES ASSUME TypeInv, Import PROVE TypeInv'
  OBVIOUS
<1>1. TypeOK /\ RowsOK /\ CopiesOK
  BY DEF TypeInv, RowsOK
<1>2. /\ row = NoRow /\ up' = up /\ tasks' = tasks /\ jobs' = jobs /\ crashes' = crashes
      /\ UNCHANGED <<work, archive, fetched, panel, original, kept, dbGone, file>>
      /\ remote' \in {remote, Parts} /\ history' = history \cup {"imported"}
  BY DEF Import, db
<1>3. PICK id \in NewIds : row' = [NoRow EXCEPT !.id = id, !.status = "Success"]
  BY DEF Import
<1>4. id \in 1..MaxRows /\ id # 0 /\ id \in 0..MaxRows /\ \A w \in Workers : jobs[w].id # id
  BY DEF NewIds
<1>5. row' \in RowType /\ RowOK(row)' /\ row'.id = id /\ row'.status = "Success"
  BY <1>3, <1>4 DEF NoRow, RowType, RowOK
<1>6. TypeOK'
  <2>1. history' \subseteq Causes
    BY <1>1, <1>2 DEF TypeOK, Causes
  <2> QED
    BY <1>1, <1>2, <1>5, <2>1 DEF TypeOK
<1>7. CopiesOK' /\ (Pristine => Pristine')
  BY <1>1, <1>2, CopiesKept DEF panelVars
<1>8. \A w \in Workers : JobOK(w)'
  BY <1>2, <1>4, <1>5 DEF TypeInv, JobOK, Busy, Creating, Restoring, Recovering, RollingBack
<1>9. RowsOK'
  BY <1>1, <1>2, <1>5, <1>7 DEF RowsOK, Restoring, Recovering, RollingBack
<1> QED
  BY <1>2, <1>6, <1>8, <1>9 DEF TypeInv, Creating

\* and the deletion of the row.
LEMMA DeleteTyped == TypeInv /\ Delete => TypeInv'
<1> SUFFICES ASSUME TypeInv, Delete PROVE TypeInv'
  OBVIOUS
<1>1. TypeOK /\ RowsOK /\ CopiesOK
  BY DEF TypeInv, RowsOK
<1>2. /\ row' = NoRow /\ up' = up /\ tasks' = tasks /\ jobs' = jobs /\ crashes' = crashes
      /\ UNCHANGED <<work, fetched, panel, original, kept, dbGone, file>>
      /\ archive' = {} /\ remote' \in {remote, {}}
      /\ history' \subseteq history \cup {"forgotten"}
  BY DEF Delete, db
<1>3. row' \in RowType /\ RowOK(row)' /\ row'.id = 0 /\ row'.status = "None"
  BY <1>2, NoRowTyped DEF RowOK
<1>4. TypeOK'
  <2>1. history' \subseteq Causes
    BY <1>1, <1>2 DEF TypeOK, Causes
  <2> QED
    BY <1>1, <1>2, <1>3, <2>1 DEF TypeOK
<1>5. CopiesOK' /\ (Pristine => Pristine')
  BY <1>1, <1>2, CopiesKept DEF panelVars
<1>6. \A w \in Workers : JobOK(w)'
  <2> SUFFICES ASSUME NEW w \in Workers PROVE JobOK(w)'
    OBVIOUS
  <2>1. JobOK(w)
    BY DEF TypeInv
  <2>2. Creating(w) \/ Restoring(w) => jobs[w].id # 0
    BY <1>1, <2>1, KindIs DEF JobOK, Busy
  <2> QED
    BY <1>2, <1>3, <2>1, <2>2 DEF JobOK, Busy, Creating, Restoring, Recovering, RollingBack
<1>7. RowsOK'
  BY <1>1, <1>2, <1>3, <1>5 DEF RowsOK, Restoring, Recovering, RollingBack
<1> QED
  BY <1>2, <1>4, <1>6, <1>7 DEF TypeInv, Creating

\* The types of the variables that a creation changes.
SnapTyped ==
    /\ work \subseteq Parts /\ archive \subseteq Parts /\ remote \subseteq Parts
    /\ fetched \subseteq {"archive", "open"}

\* The effect of a step on the parts of the snapshot is well typed.
LEMMA EffectTyped ==
    ASSUME SnapTyped, NEW s \in CreateNames \cup RecoverNames, Effect(s)
    PROVE  SnapTyped'
<1>1. fetched' \subseteq {"archive", "open"}
  BY EffectIs DEF SnapTyped
<1>2. s \in PartSteps => PartOf(s) \in Parts
  BY DEF Parts
<1>3. s \in CreateNames \/ s \in RecoverNames
  OBVIOUS
<1>4. \/ work' = work /\ archive' = archive /\ remote' = remote
      \/ /\ work' = work \cup {PartOf(s)} /\ s \in PartSteps
         /\ archive' = archive /\ remote' = remote
      \/ work' = {} /\ archive' = work /\ remote' = remote
      \/ work' = work /\ archive' = {} /\ remote' = archive
  BY <1>3, EffectIs, NamesOfFiles
<1> QED
  BY <1>1, <1>2, <1>4 DEF SnapTyped

\* The row while something is restored.
LEMMA RestoringRow ==
    ASSUME TypeInv, NEW w \in Workers, Restoring(w)
    PROVE  up /\ tasks # 0 /\ row.status \in {"None", "Success"} /\ jobs[w].id # 0
<1>1. row.status \notin {"Waiting", "Failed"} /\ tasks # 0
  BY DEF TypeInv, RowsOK
<1>2. row.status \in {"None", "Waiting", "Failed", "Success"}
  BY DEF TypeInv, TypeOK, RowType
<1>3. Busy(w) /\ JobOK(w)
  BY KindIs DEF TypeInv, Busy
<1> QED
  BY <1>1, <1>2, <1>3 DEF JobOK

\* A task at a step.
LEMMA AtStep ==
    ASSUME TypeInv, NEW w \in Workers, NEW s \in jobs[w].todo
    PROVE  /\ s \in Steps /\ Busy(w) /\ up /\ tasks # 0 /\ jobs[w].id # 0
           /\ jobs[w].kind \in {"create", "cronjob", "recover", "rollback"}
           /\ Creating(w) <=> s \in CreateNames
           /\ Recovering(w) <=> s \in RecoverNames
           /\ RollingBack(w) <=> s = "Rollback"
<1>1. JobOK(w) /\ jobs[w] \in JobType
  BY KindIs DEF TypeInv
<1>2. jobs[w] # Idle /\ s \in Steps
  BY <1>1, IdleIs DEF JobType
<1>3. jobs[w].kind \in {"create", "cronjob", "recover", "rollback"}
  BY <1>1, <1>2 DEF JobOK, JobType
<1>4. /\ Creating(w) => s \in CreateNames
      /\ Recovering(w) => s \in RecoverNames
      /\ RollingBack(w) => s = "Rollback"
  BY <1>1 DEF JobOK
<1>5. Creating(w) \/ Recovering(w) \/ RollingBack(w)
  BY <1>3 DEF Creating, Recovering, RollingBack
<1> QED
  BY <1>1, <1>2, <1>3, <1>4, <1>5, Apart DEF JobOK, Busy

\* When a step has been done, the rest of the list is left.
LEMMA ShapeKept ==
    ASSUME NEW todo \in SUBSET RecoverNames, Shape(todo), NEW s \in todo,
           todo \subseteq Onwards[s]
    PROVE  Shape(todo \ {s})
<1> SUFFICES ASSUME NEW t \in (todo \ {s}) \ RecoverAlways PROVE Onwards[t] \subseteq todo \ {s}
  BY DEF Shape
<1>1. Onwards[t] \subseteq todo
  BY DEF Shape
<1>2. s \in Steps /\ t \in Steps /\ t \in Onwards[s]
  BY Apart
<1> QED
  BY <1>1, <1>2, Ordered

\* A task has taken this step, or half of it, and no other task has moved.
StepTaken(w, s) ==
    /\ jobs' \in [Workers -> JobType]
    /\ \A v \in Workers \ {w} : jobs'[v] = jobs[v]
    /\ jobs'[w].kind = jobs[w].kind /\ jobs'[w].id = jobs[w].id
    /\ jobs'[w].todo \in {jobs[w].todo, jobs[w].todo \ {s}}

\* The task that took a step, and every other, is still in order.
LEMMA StepJob ==
    ASSUME TypeInv, NEW w \in Workers, NEW s \in jobs[w].todo, jobs[w].todo \subseteq Onwards[s],
           StepTaken(w, s), up' = up, tasks' = tasks, NEW v \in Workers,
           Creating(v) => jobs[v].id \notin {kept'.id, file'.id},
           jobs[v].id = row'.id => /\ Creating(v) => row'.status = "Waiting"
                                   /\ Restoring(v) => row'.status = "Success"
    PROVE  JobOK(v)'
<1>1. JobOK(v)
  BY DEF TypeInv
<1>2. CASE v # w
  <2>1. jobs'[v] = jobs[v]
    BY <1>2 DEF StepTaken
  <2>2. jobs[v] # Idle => up' /\ tasks' # 0
    BY <1>1 DEF JobOK, Busy
  <2> QED
    BY <1>1, <2>1, <2>2, OtherJob
<1>3. CASE v = w
  <2>1. /\ jobs[w].kind \in {"create", "cronjob", "recover", "rollback"}
        /\ up' /\ tasks' # 0 /\ jobs[w].id # 0
    BY AtStep
  <2>2. /\ jobs'[w].kind = jobs[w].kind /\ jobs'[w].id = jobs[w].id
        /\ jobs'[w].todo \subseteq jobs[w].todo
    BY DEF StepTaken
  <2>3. Recovering(w) => Shape(jobs'[w].todo)
    <3>1. Recovering(w) => jobs[w].todo \in SUBSET RecoverNames /\ Shape(jobs[w].todo)
      BY <1>1, <1>3 DEF JobOK
    <3> QED
      BY <3>1, ShapeKept DEF StepTaken
  <2> QED
    BY <1>1, <1>3, <2>1, <2>2, <2>3
       DEF JobOK, Busy, Creating, Restoring, Recovering, RollingBack
<1> QED
  BY <1>2, <1>3

\* A step of a creation or a recovery, done or half way.
LEMMA TouchStepTyped ==
    ASSUME TypeInv, NEW w \in Workers, NEW s \in jobs[w].todo, jobs[w].todo \subseteq Onwards[s],
           StepTaken(w, s), Changes(s), SnapTyped', history' \subseteq Causes,
           UNCHANGED <<up, row, tasks, crashes>>
    PROVE  TypeInv'
<1>1. TypeOK /\ RowsOK /\ CopiesOK /\ RowOK(row)
  BY DEF TypeInv, RowsOK
<1>2. UNCHANGED panelVars \/ Restoring(w)
  <2>1. s \in CreateNames => UNCHANGED panelVars
    BY NamesOfFiles DEF Changes, Touches, MissesFiles
  <2>2. s \in Steps
    BY AtStep
  <2> QED
    BY <2>1, <2>2, AtStep, Apart DEF Restoring
<1>3. row.status \in {"None", "Success"} \/ UNCHANGED panelVars
  BY <1>2, RestoringRow
<1>4. /\ FilesTyped' /\ CopiesOK'
      /\ kept' \in {kept, row, file} /\ file' \in {file, NoRow}
      /\ kept' = row /\ kept' # kept => row.status \in {"None", "Success"}
  BY <1>1, <1>3, AtStep, TouchTyped
<1>5. TypeOK'
  <2>1. jobs' \in [Workers -> JobType]
    BY DEF StepTaken
  <2> QED
    BY <1>1, <1>4, <2>1 DEF TypeOK, JobType, FilesTyped, SnapTyped
<1>6. \A v \in Workers : JobOK(v)'
  <2> SUFFICES ASSUME NEW v \in Workers PROVE JobOK(v)'
    OBVIOUS
  <2>1. JobOK(v)
    BY DEF TypeInv
  <2>2. Creating(v) => jobs[v].id # 0
    BY <1>1, <2>1, KindIs DEF JobOK, Busy
  <2>3. Creating(v) => jobs[v].id \notin {kept'.id, file'.id}
    BY <1>4, <2>1, <2>2, NoRowTyped DEF JobOK
  <2> QED
    BY <2>1, <2>3, StepJob DEF JobOK
<1>7. \A v \in Workers : Restoring(v)' = Restoring(v) /\ Creating(v)' = Creating(v)
                         /\ jobs'[v].id = jobs[v].id
  BY DEF StepTaken, Creating, Restoring, Recovering, RollingBack
<1>8. RowsOK'
  <2>1. RowOK(row)'
    BY <1>1 DEF RowOK
  <2>2. row.status \in {"Waiting", "Failed"} \/ tasks = 0 => UNCHANGED panelVars
    BY <1>2, RestoringRow
  <2>3. Pristine /\ UNCHANGED panelVars => Pristine'
    BY DEF Pristine, panelVars
  <2> QED
    BY <1>1, <1>4, <1>7, <2>1, <2>2, <2>3 DEF RowsOK
<1> QED
  BY <1>5, <1>6, <1>7, <1>8 DEF TypeInv

\* The step of a rollback, done or half way.
LEMMA PutBackStepTyped ==
    ASSUME TypeInv, NEW w \in Workers, "Rollback" \in jobs[w].todo, StepTaken(w, "Rollback"),
           NEW files \in SUBSET Restorable, NEW missed \in SUBSET files,
           PutBack(files, missed), history' \subseteq Causes, UNCHANGED <<up, tasks, crashes>>
    PROVE  TypeInv'
<1>1. TypeOK /\ RowsOK /\ CopiesOK /\ RowOK(row)
  BY DEF TypeInv, RowsOK
<1>2. /\ FilesTyped' /\ CopiesOK' /\ kept' = kept /\ original' = original
      /\ file' \in {file, kept} /\ row' \in {row, kept}
      /\ UNCHANGED <<work, archive, remote, fetched, dbGone>>
  BY <1>1, PutBackTyped
<1>3. RollingBack(w) /\ Restoring(w)
  BY AtStep DEF Restoring
<1>4. row.status \in {"None", "Success"} /\ tasks # 0
  BY <1>3, RestoringRow
<1>5. TypeOK'
  <2>1. jobs' \in [Workers -> JobType]
    BY DEF StepTaken
  <2>2. row' \in RowType
    BY <1>1, <1>2 DEF TypeOK
  <2> QED
    BY <1>1, <1>2, <2>1, <2>2 DEF TypeOK, JobType, FilesTyped
<1>6. jobs[w].todo \subseteq Onwards["Rollback"]
  BY <1>3, Rest DEF TypeInv, JobOK
<1>7. \A v \in Workers : JobOK(v)'
  <2> SUFFICES ASSUME NEW v \in Workers PROVE JobOK(v)'
    OBVIOUS
  <2>1. JobOK(v)
    BY DEF TypeInv
  <2>2. Creating(v) \/ Restoring(v) => jobs[v].id # 0
    BY <1>1, <2>1, KindIs DEF JobOK, Busy
  <2>3. Creating(v) => jobs[v].id \notin {kept'.id, file'.id}
    BY <1>2, <2>1 DEF JobOK
  <2>4. kept.id # 0 => kept.status = "Success"
    BY <1>1, NoRowTyped DEF CopiesOK, RowOK
  <2>5. jobs[v].id = row'.id => /\ Creating(v) => row'.status = "Waiting"
                                /\ Restoring(v) => row'.status = "Success"
    BY <1>2, <2>1, <2>2, <2>4 DEF JobOK
  <2> QED
    BY <1>6, <2>3, <2>5, StepJob
<1>8. \A v \in Workers : Creating(v)' = Creating(v) /\ jobs'[v].id = jobs[v].id
  BY DEF StepTaken, Creating
<1>9. RowsOK'
  <2>1. RowOK(row)'
    BY <1>1, <1>2 DEF RowOK, CopiesOK
  <2>2. row'.status \in {"None", "Success"} /\ tasks' # 0
    BY <1>1, <1>2, <1>4 DEF CopiesOK
  <2> QED
    BY <1>2, <2>1, <2>2 DEF RowsOK
<1> QED
  BY <1>5, <1>7, <1>8, <1>9 DEF TypeInv

\* A step half way keeps the invariant of the types,
LEMMA StepGoesOnTyped ==
    ASSUME TypeInv, NEW w \in Workers, StepGoesOn(w)
    PROVE  TypeInv'
<1>1. PICK s \in jobs[w].todo :
        /\ up /\ jobs[w].todo \subseteq Onwards[s]
        /\ \/ HalfEffect(s) /\ UNCHANGED row
           \/ s = "Rollback" /\ \E files \in PutBackSoFar : PutBack(files, {})
        /\ UNCHANGED <<up, jobs, tasks, crashes, history>>
  BY DEF StepGoesOn, At
<1>2. StepTaken(w, s) /\ history' \subseteq Causes
  BY <1>1 DEF StepTaken, TypeInv, TypeOK, JobType
<1>3. CASE HalfEffect(s) /\ UNCHANGED row
  <2>1. Touches(s) /\ UNCHANGED <<work, archive, remote>> /\ fetched' \in SUBSET fetched
    BY <1>3, AtStep, HalfTouches
  <2>2. SnapTyped'
    BY <2>1 DEF SnapTyped, TypeInv, TypeOK
  <2> QED
    BY <1>1, <1>2, <1>3, <2>1, <2>2, TouchStepTyped DEF Changes
<1>4. CASE s = "Rollback" /\ \E files \in PutBackSoFar : PutBack(files, {})
  <2>1. PICK files \in PutBackSoFar : PutBack(files, {})
    BY <1>4
  <2>2. files \in SUBSET Restorable /\ {} \in SUBSET files
    BY DEF PutBackSoFar, Restorable
  <2> QED
    BY <1>1, <1>2, <1>4, <2>1, <2>2, PutBackStepTyped
<1> QED
  BY <1>1, <1>3, <1>4

\* What is left when a step is done.
LEMMA DoneIs ==
    ASSUME TypeInv, NEW w \in Workers, NEW s \in jobs[w].todo,
           jobs' = [jobs EXCEPT ![w].todo = @ \ {s}]
    PROVE  StepTaken(w, s) /\ jobs'[w].todo = jobs[w].todo \ {s}
<1>1. jobs \in [Workers -> JobType]
  BY DEF TypeInv, TypeOK, JobType
<1> DEFINE new == [jobs[w] EXCEPT !.todo = @ \ {s}]
<1>2. jobs[w] \in JobType
  BY <1>1
<1>3. /\ new \in JobType /\ new.kind = jobs[w].kind /\ new.id = jobs[w].id
      /\ new.todo = jobs[w].todo \ {s}
  BY <1>2 DEF JobType
<1>4. jobs' = [jobs EXCEPT ![w] = new]
  BY <1>1
<1> HIDE DEF new
<1>5. /\ jobs' \in [Workers -> JobType] /\ jobs'[w] = new
      /\ \A v \in Workers \ {w} : jobs'[v] = jobs[v]
  BY <1>1, <1>3, <1>4
<1> QED
  BY <1>3, <1>5 DEF StepTaken

\* a step that ends well,
LEMMA StepDoneTyped ==
    ASSUME TypeInv, NEW w \in Workers, StepDone(w)
    PROVE  TypeInv'
<1>1. PICK s \in jobs[w].todo :
        /\ up /\ jobs[w].todo \subseteq Onwards[s]
        /\ \/ s # "Rollback" /\ Effect(s) /\ UNCHANGED row
           \/ s = "Rollback" /\ PutBack(Restorable, {})
        /\ jobs' = [jobs EXCEPT ![w].todo = @ \ {s}]
        /\ UNCHANGED <<up, tasks, crashes, history>>
  BY DEF StepDone, At
<1>2. StepTaken(w, s) /\ history' \subseteq Causes
  BY <1>1, DoneIs DEF TypeInv, TypeOK
<1>3. CASE s # "Rollback" /\ Effect(s) /\ UNCHANGED row
  <2>1. s \in CreateNames \cup RecoverNames
    BY <1>3, AtStep, Apart
  <2>2. Touches(s)
    BY <1>3, <2>1, EffectTouches
  <2>3. SnapTyped'
    BY <1>3, <2>1, EffectTyped DEF SnapTyped, TypeInv, TypeOK
  <2> QED
    BY <1>1, <1>2, <1>3, <2>2, <2>3, TouchStepTyped DEF Changes
<1>4. CASE s = "Rollback" /\ PutBack(Restorable, {})
  <2>1. Restorable \in SUBSET Restorable /\ {} \in SUBSET Restorable
    OBVIOUS
  <2> QED
    BY <1>1, <1>2, <1>4, <2>1, PutBackStepTyped
<1> QED
  BY <1>1, <1>3, <1>4

\* A step that ends well with something missing is one of a creation, of a recovery or
\* the one of a rollback.
LEMMA MissesIs ==
    ASSUME TypeInv, NEW w \in Workers, StepMisses(w)
    PROVE  \E s \in jobs[w].todo :
              /\ jobs[w].todo \subseteq Onwards[s] /\ StepTaken(w, s)
              /\ jobs'[w].todo = jobs[w].todo \ {s} /\ UNCHANGED <<up, tasks, crashes>>
              /\ \/ /\ s \in PartSteps /\ work' = work \ {PartOf(s)}
                    /\ history' = history \cup {"gap"}
                    /\ UNCHANGED <<row, archive, remote, fetched>> /\ UNCHANGED panelVars
                 \/ /\ s \in RecoverNames /\ MissesFiles(s)
                    /\ history' = history \cup {"skipped"}
                    /\ UNCHANGED <<row, work, archive, remote, fetched>>
                 \/ /\ s = "Rollback" /\ history' = history \cup {"skipped"}
                    /\ \E missed \in SUBSET Restorable : PutBack(Restorable, missed)
<1>1. PICK s \in jobs[w].todo :
        /\ jobs[w].todo \subseteq Onwards[s]
        /\ \/ /\ s \in PartsWithGaps /\ work' = work \ {PartOf(s)}
              /\ history' = history \cup {"gap"}
              /\ UNCHANGED <<row, archive, remote, fetched, panel, original, kept, db>>
           \/ /\ \/ s = "BackupBeforeRecover" /\ UNCHANGED row
                    /\ \E missed \in SUBSET (Findable \cap MayMiss) \ {{}} :
                          Keep(Findable, missed)
                 \/ s \in StepsWithGaps /\ FilesOf(s) \cap MayMiss # {} /\ UNCHANGED row
                    /\ Overwrite(FilesOf(s), "mixed")
                 \/ /\ s = "Rollback"
                    /\ \E missed \in SUBSET (Restorable \cap MayMiss) \ {{}} :
                          PutBack(Restorable, missed)
              /\ history' = history \cup {"skipped"}
        /\ jobs' = [jobs EXCEPT ![w].todo = @ \ {s}]
        /\ UNCHANGED <<up, tasks, crashes>>
  BY DEF StepMisses, At
<1>2. StepTaken(w, s) /\ jobs'[w].todo = jobs[w].todo \ {s}
  BY <1>1, DoneIs
<1> DEFINE Part == /\ s \in PartSteps /\ work' = work \ {PartOf(s)}
                   /\ history' = history \cup {"gap"}
                   /\ UNCHANGED <<row, archive, remote, fetched>> /\ UNCHANGED panelVars
           Recovered == /\ s \in RecoverNames /\ MissesFiles(s)
                        /\ history' = history \cup {"skipped"}
                        /\ UNCHANGED <<row, work, archive, remote, fetched>>
           RolledBack == /\ s = "Rollback" /\ history' = history \cup {"skipped"}
                         /\ \E missed \in SUBSET Restorable : PutBack(Restorable, missed)
<1>3. ASSUME s \in PartsWithGaps, work' = work \ {PartOf(s)},
             history' = history \cup {"gap"},
             UNCHANGED <<row, archive, remote, fetched, panel, original, kept, db>>
      PROVE  Part
  BY <1>3 DEF PartsWithGaps, PartSteps, panelVars, db
<1>4. ASSUME s = "BackupBeforeRecover", UNCHANGED row, history' = history \cup {"skipped"},
             \E missed \in SUBSET (Findable \cap MayMiss) \ {{}} : Keep(Findable, missed)
      PROVE  Recovered
  <2>1. PICK missed \in SUBSET Findable : Keep(Findable, missed)
    BY <1>4
  <2>2. MissesFiles(s) /\ s \in RecoverNames
    BY <1>4, <2>1 DEF MissesFiles, RecoverNames
  <2>3. UNCHANGED <<work, archive, remote, fetched>>
    BY <2>1 DEF Keep, temporary
  <2> QED
    BY <1>4, <2>2, <2>3
<1>5. ASSUME s \in StepsWithGaps, FilesOf(s) \cap MayMiss # {}, UNCHANGED row,
             Overwrite(FilesOf(s), "mixed"), history' = history \cup {"skipped"}
      PROVE  Recovered
  <2>1. MissesFiles(s) /\ s \in RecoverNames
    BY <1>5 DEF MissesFiles, StepsWithGaps, RecoverNames
  <2>2. UNCHANGED <<work, archive, remote, fetched>>
    BY <1>5 DEF Overwrite, temporary
  <2> QED
    BY <1>5, <2>1, <2>2
<1>6. ASSUME s = "Rollback", history' = history \cup {"skipped"},
             \E missed \in SUBSET (Restorable \cap MayMiss) \ {{}} :
                PutBack(Restorable, missed)
      PROVE  RolledBack
  BY <1>6
<1>7. Part \/ Recovered \/ RolledBack
  BY <1>1, <1>3, <1>4, <1>5, <1>6
<1> QED
  BY <1>1, <1>2, <1>7

\* a step that ends well with something missing,
LEMMA StepMissesTyped ==
    ASSUME TypeInv, NEW w \in Workers, StepMisses(w)
    PROVE  TypeInv'
<1>1. PICK s \in jobs[w].todo :
        /\ jobs[w].todo \subseteq Onwards[s] /\ StepTaken(w, s)
        /\ jobs'[w].todo = jobs[w].todo \ {s} /\ UNCHANGED <<up, tasks, crashes>>
        /\ \/ /\ s \in PartSteps /\ work' = work \ {PartOf(s)}
              /\ history' = history \cup {"gap"}
              /\ UNCHANGED <<row, archive, remote, fetched>> /\ UNCHANGED panelVars
           \/ /\ s \in RecoverNames /\ MissesFiles(s)
              /\ history' = history \cup {"skipped"}
              /\ UNCHANGED <<row, work, archive, remote, fetched>>
           \/ /\ s = "Rollback" /\ history' = history \cup {"skipped"}
              /\ \E missed \in SUBSET Restorable : PutBack(Restorable, missed)
  BY MissesIs
<1>2. history' \subseteq Causes
  BY <1>1 DEF TypeInv, TypeOK, Causes
<1>3. ASSUME s \in PartSteps, work' = work \ {PartOf(s)}, UNCHANGED panelVars,
             UNCHANGED <<row, archive, remote, fetched>>
      PROVE  TypeInv'
  <2>1. SnapTyped'
    BY <1>3 DEF SnapTyped, TypeInv, TypeOK
  <2>2. Changes(s)
    BY <1>3 DEF Changes, Touches
  <2> QED
    BY <1>1, <1>2, <1>3, <2>1, <2>2, TouchStepTyped
<1>4. ASSUME s \in RecoverNames, MissesFiles(s), UNCHANGED <<row, work, archive, remote, fetched>>
      PROVE  TypeInv'
  <2>1. SnapTyped'
    BY <1>4 DEF SnapTyped, TypeInv, TypeOK
  <2>2. Changes(s)
    BY <1>4 DEF Changes
  <2> QED
    BY <1>1, <1>2, <1>4, <2>1, <2>2, TouchStepTyped
<1>5. ASSUME s = "Rollback", \E missed \in SUBSET Restorable : PutBack(Restorable, missed)
      PROVE  TypeInv'
  <2>1. PICK missed \in SUBSET Restorable : PutBack(Restorable, missed)
    BY <1>5
  <2>2. Restorable \in SUBSET Restorable
    OBVIOUS
  <2> QED
    BY <1>1, <1>2, <1>5, <2>1, <2>2, PutBackStepTyped
<1> QED
  BY <1>1, <1>3, <1>4, <1>5

\* The last update of a task is made or lost.
LEMMA SaveIs ==
    ASSUME NEW w \in Workers, NEW new, NEW causes, Save(w, new, causes)
    PROVE  \/ row.id = jobs[w].id /\ row' = new /\ history' = causes
           \/ row.id # jobs[w].id /\ row' = row /\ history' = causes
           \/ /\ row' = row
              /\ history' = causes \cup {"taskless"}
                                \cup IF Restoring(w) THEN {"unsaved"} ELSE {}
BY DEF Save, Restoring, Recovering, RollingBack

\* A task that ends, and may save its row.
LEMMA JobEnds ==
    ASSUME TypeInv, NEW w \in Workers, Busy(w), Ends(w), UNCHANGED <<up, tasks, crashes>>,
           history' \subseteq Causes, SnapTyped', FilesTyped', CopiesOK',
           Creating(w) => UNCHANGED panelVars,
           \A v \in Workers : Creating(v) => jobs[v].id \notin {kept'.id, file'.id},
           \/ row' = row
           \/ /\ row.id = jobs[w].id /\ row' \in RowType /\ RowOK(row)' /\ row'.id = row.id
              /\ Restoring(w) => row'.status = row.status
    PROVE  TypeInv'
<1>1. TypeOK /\ RowsOK /\ CopiesOK /\ RowOK(row) /\ JobOK(w)
  BY DEF TypeInv, RowsOK
<1>2. /\ jobs' \in [Workers -> JobType] /\ jobs'[w] = Idle
      /\ \A v \in Workers \ {w} : jobs'[v] = jobs[v]
  BY <1>1, EndsIs
<1>3. up /\ tasks # 0 /\ (Creating(w) \/ Restoring(w))
  BY <1>1, KindIs DEF JobOK, Busy
<1>4. row' \in RowType /\ RowOK(row)' /\ row'.id = row.id
  BY <1>1 DEF TypeOK, RowOK
<1>5. TypeOK'
  BY <1>1, <1>2, <1>4 DEF TypeOK, JobType, FilesTyped, SnapTyped
<1>6. \A v \in Workers : JobOK(v)'
  <2> SUFFICES ASSUME NEW v \in Workers PROVE JobOK(v)'
    OBVIOUS
  <2>1. CASE v = w
    BY <1>2, <2>1, IdleIs DEF JobOK, Busy, Creating, Restoring, Recovering, RollingBack
  <2>2. CASE v # w
    <3>1. JobOK(v) /\ jobs'[v] = jobs[v]
      BY <1>2, <2>2 DEF TypeInv
    <3>2. jobs[v].id = row.id /\ (Creating(v) \/ Restoring(v)) => row'.status = row.status
      <4>1. ASSUME row.id = jobs[w].id, Creating(w), jobs[v].id = row.id
            PROVE  ~Creating(v) /\ ~Restoring(v)
        <5>1. ~Creating(v)
          BY <2>2, <4>1 DEF TypeInv
        <5>2. row.status = "Waiting"
          BY <1>1, <4>1 DEF JobOK
        <5> QED
          BY <3>1, <4>1, <5>1, <5>2 DEF JobOK
      <4> QED
        BY <1>3, <4>1
    <3>3. jobs[v].id = row'.id => /\ Creating(v) => row'.status = "Waiting"
                                  /\ Restoring(v) => row'.status = "Success"
      BY <1>4, <3>1, <3>2 DEF JobOK
    <3>4. up' /\ tasks' # 0
      BY <1>3
    <3> QED
      BY <3>1, <3>3, <3>4, OtherJob
  <2> QED
    BY <2>1, <2>2
<1>7. ~Creating(w)' /\ ~Restoring(w)'
  BY <1>2, IdleIs DEF Creating, Restoring, Recovering, RollingBack
<1>8. TwoRows'
  BY <1>2, <1>7, StillTwoRows
<1>9. RowsOK'
  <2>1. CASE Creating(w) /\ row' # row
    <3>1. row.status = "Waiting"
      BY <1>1, <2>1 DEF JobOK
    <3>2. Pristine' /\ \A v \in Workers : ~Restoring(v)
      BY <1>1, <2>1, <3>1, CopiesKept DEF RowsOK
    <3>3. \A v \in Workers : ~Restoring(v)'
      BY <1>2, <1>7, <3>2 DEF Restoring, Recovering, RollingBack
    <3> QED
      BY <1>4, <3>2, <3>3 DEF RowsOK
  <2>2. CASE Restoring(w)
    <3>1. row.status \in {"None", "Success"}
      BY <2>2, RestoringRow
    <3>2. row'.status \in {"None", "Success"}
      BY <2>2, <3>1
    <3> QED
      BY <1>3, <1>4, <3>2 DEF RowsOK
  <2>3. CASE Creating(w) /\ row' = row
    <3>1. row'.status \in {"Waiting", "Failed"} =>
            Pristine' /\ \A v \in Workers : ~Restoring(v)
      BY <1>1, <2>3, CopiesKept DEF RowsOK
    <3>2. row'.status \in {"Waiting", "Failed"} => \A v \in Workers : ~Restoring(v)'
      BY <1>2, <1>7, <3>1 DEF Restoring, Recovering, RollingBack
    <3> QED
      BY <1>3, <1>4, <3>1, <3>2 DEF RowsOK
  <2> QED
    BY <1>3, <2>1, <2>2, <2>3
<1> QED
  BY <1>5, <1>6, <1>8, <1>9 DEF TypeInv, TwoRows

\* The row after a failure.
LEMMA FailedRowOK ==
    ASSUME TypeInv, NEW w \in Workers, NEW s \in jobs[w].todo, row.id = jobs[w].id
    PROVE  /\ FailedRow(jobs[w].kind, s) \in RowType
           /\ FailedRow(jobs[w].kind, s).id = row.id
           /\ RowOK(FailedRow(jobs[w].kind, s))
           /\ Restoring(w) => FailedRow(jobs[w].kind, s).status = row.status
<1>1. row \in RowType /\ RowOK(row) /\ JobOK(w) /\ jobs[w].id # 0
  BY AtStep DEF TypeInv, RowsOK, TypeOK
<1>2. CASE Creating(w)
  <2>1. s \in CreateNames /\ row.status = "Waiting" /\ ~Restoring(w)
    BY <1>1, <1>2, AtStep DEF JobOK, Creating, Restoring, Recovering, RollingBack
  <2>2. FailedRow(jobs[w].kind, s) = [row EXCEPT !.status = "Failed", !.step = s]
    BY <1>2 DEF FailedRow, Creating
  <2>3. s \in Steps \ {"Rollback"}
    BY <2>1, Apart
  <2> QED
    BY <1>1, <2>1, <2>2, <2>3 DEF RowType, RowOK
<1>3. CASE Recovering(w)
  <2>1. s \in RecoverNames /\ row.status = "Success"
    BY <1>1, <1>3, AtStep DEF JobOK, Restoring
  <2>2. FailedRow(jobs[w].kind, s) = [row EXCEPT !.recover = "Failed", !.step = s]
    BY <1>3 DEF FailedRow, Recovering
  <2>3. s \in Steps \ {"Rollback"}
    BY <2>1, Apart
  <2> QED
    BY <1>1, <2>1, <2>2, <2>3 DEF RowType, RowOK
<1>4. CASE RollingBack(w)
  <2>1. row.status = "Success"
    BY <1>1, <1>4 DEF JobOK, Restoring
  <2>2. FailedRow(jobs[w].kind, s) = [row EXCEPT !.rollback = "Failed"]
    BY <1>4 DEF FailedRow, RollingBack
  <2> QED
    BY <1>1, <2>1, <2>2 DEF RowType, RowOK
<1> QED
  BY <1>2, <1>3, <1>4, AtStep, Apart

\* a step that fails,
LEMMA StepFailsTyped ==
    ASSUME TypeInv, NEW w \in Workers, StepFails(w)
    PROVE  TypeInv'
<1>1. PICK s \in jobs[w].todo :
        /\ \/ jobs[w].kind = "cronjob" /\ CleanUp
           \/ UNCHANGED disk
           \/ jobs[w].kind \in {"create", "recover"} /\ Effect(s)
        /\ row' = row \/ (row.id = jobs[w].id /\ row' = FailedRow(jobs[w].kind, s))
        /\ Ends(w)
        /\ history' \subseteq history \cup {"halfBack", "taskless", "unsaved"}
        /\ UNCHANGED <<up, tasks, crashes>>
  BY DEF StepFails, Save
<1>2. TypeOK /\ CopiesOK /\ RowOK(row) /\ SnapTyped /\ FilesTyped
  BY DEF TypeInv, RowsOK, TypeOK, SnapTyped, FilesTyped
<1>3. Busy(w)
  BY AtStep
<1>4. /\ SnapTyped' /\ Touches(s)
      /\ Creating(w) => UNCHANGED panelVars
  <2>1. CASE CleanUp
    BY <2>1 DEF CleanUp, SnapTyped, Touches, panelVars, db
  <2>2. CASE UNCHANGED disk
    BY <1>2, <2>2 DEF disk, temporary, db, SnapTyped, Touches, panelVars
  <2>3. CASE jobs[w].kind \in {"create", "recover"} /\ Effect(s)
    <3>1. s \in CreateNames \cup RecoverNames
      BY <2>3, AtStep DEF Creating, Recovering
    <3>2. SnapTyped' /\ Touches(s)
      BY <1>2, <2>3, <3>1, EffectTyped, EffectTouches
    <3>3. Creating(w) => UNCHANGED panelVars
      BY <3>2, AtStep, NamesOfFiles DEF Touches
    <3> QED
      BY <3>2, <3>3
  <2> QED
    BY <1>1, <2>1, <2>2, <2>3
<1>5. row.status \in {"None", "Success"} \/ UNCHANGED panelVars
  <2>1. Creating(w) \/ Restoring(w)
    BY AtStep, Apart DEF Restoring
  <2> QED
    BY <1>4, <2>1, RestoringRow
<1>6. /\ FilesTyped' /\ CopiesOK'
      /\ kept' \in {kept, row, file} /\ file' \in {file, NoRow}
      /\ kept' = row /\ kept' # kept => row.status \in {"None", "Success"}
  BY <1>2, <1>4, <1>5, AtStep, TouchTyped DEF Changes
<1>7. \A v \in Workers : Creating(v) => jobs[v].id \notin {kept'.id, file'.id}
  <2> SUFFICES ASSUME NEW v \in Workers, Creating(v) PROVE jobs[v].id \notin {kept'.id, file'.id}
    OBVIOUS
  <2>1. JobOK(v)
    BY DEF TypeInv
  <2>2. jobs[v].id # 0
    BY <1>2, <2>1, KindIs DEF JobOK, Busy
  <2> QED
    BY <1>6, <2>1, <2>2, NoRowTyped DEF JobOK
<1>8. history' \subseteq Causes
  BY <1>1, <1>2 DEF TypeOK, Causes
<1>9. \/ row' = row
      \/ /\ row.id = jobs[w].id /\ row' \in RowType /\ RowOK(row)' /\ row'.id = row.id
         /\ Restoring(w) => row'.status = row.status
  <2>1. CASE row' = row
    BY <2>1
  <2>2. CASE row.id = jobs[w].id /\ row' = FailedRow(jobs[w].kind, s)
    BY <2>2, FailedRowOK DEF RowOK
  <2> QED
    BY <1>1, <2>1, <2>2
<1> QED
  BY <1>1, <1>3, <1>4, <1>6, <1>7, <1>8, <1>9, JobEnds

\* the end of a creation,
LEMMA CreateSucceedsTyped ==
    ASSUME TypeInv, NEW w \in Workers, CreateSucceeds(w)
    PROVE  TypeInv'
<1>1. /\ Creating(w) /\ Ends(w)
      /\ \/ row' = row
         \/ row.id = jobs[w].id /\ row' = [row EXCEPT !.status = "Success", !.step = ""]
      /\ work' = {} /\ fetched' = {} /\ UNCHANGED <<archive, remote>>
      /\ UNCHANGED panelVars /\ UNCHANGED <<up, tasks, crashes>>
      /\ history' \subseteq history \cup {"taskless", "unsaved"}
  BY DEF CreateSucceeds, Completes, Save, StepAfterSuccess, db, panelVars, Creating
<1>2. TypeOK /\ CopiesOK /\ row \in RowType /\ RowOK(row) /\ JobOK(w)
  BY DEF TypeInv, RowsOK, TypeOK
<1>3. Busy(w) /\ ~Restoring(w)
  BY <1>1, <1>2, KindIs DEF Busy
<1>4. SnapTyped' /\ FilesTyped' /\ CopiesOK' /\ history' \subseteq Causes
  <2>1. SnapTyped' /\ history' \subseteq Causes
    BY <1>1, <1>2 DEF SnapTyped, TypeOK, Causes
  <2>2. FilesTyped'
    BY <1>1, <1>2 DEF FilesTyped, TypeOK, panelVars
  <2> QED
    BY <1>1, <1>2, <2>1, <2>2, CopiesKept
<1>5. \A v \in Workers : Creating(v) => jobs[v].id \notin {kept'.id, file'.id}
  BY <1>1 DEF TypeInv, JobOK, panelVars
<1>6. \/ row' = row
      \/ /\ row.id = jobs[w].id /\ row' \in RowType /\ RowOK(row)' /\ row'.id = row.id
  <2>1. CASE row' = row
    BY <2>1
  <2>2. CASE row.id = jobs[w].id /\ row' = [row EXCEPT !.status = "Success", !.step = ""]
    <3>1. row.id # 0
      BY <1>2, <1>3, <2>2 DEF JobOK
    <3>2. row' \in RowType /\ row'.id = row.id /\ row'.status = "Success" /\ row'.step = ""
      BY <1>2, <2>2 DEF RowType
    <3> QED
      BY <2>2, <3>1, <3>2 DEF RowOK
  <2> QED
    BY <1>1, <2>1, <2>2
<1> QED
  BY <1>1, <1>3, <1>4, <1>5, <1>6, JobEnds

\* the end of a rollback,
LEMMA RollbackSucceedsTyped ==
    ASSUME TypeInv, NEW w \in Workers, RollbackSucceeds(w)
    PROVE  TypeInv'
<1>1. /\ RollingBack(w) /\ Ends(w)
      /\ \/ row' = row
         \/ /\ row.id = jobs[w].id
            /\ row' = [row EXCEPT !.recover = "", !.rollback = "", !.step = ""]
      /\ original' = NoOriginal /\ UNCHANGED <<work, archive, remote, fetched>>
      /\ UNCHANGED <<panel, kept, dbGone, file>> /\ UNCHANGED <<up, tasks, crashes>>
      /\ history' \subseteq history \cup {"taskless", "unsaved"}
  BY DEF RollbackSucceeds, Completes, Save, db, temporary, RollingBack
<1>2. TypeOK /\ CopiesOK /\ row \in RowType /\ RowOK(row) /\ JobOK(w)
  BY DEF TypeInv, RowsOK, TypeOK
<1>3. Busy(w) /\ ~Creating(w) /\ Restoring(w)
  BY <1>1, <1>2, KindIs DEF Busy, Restoring
<1>4. SnapTyped' /\ FilesTyped' /\ CopiesOK' /\ history' \subseteq Causes
  <2>1. SnapTyped' /\ history' \subseteq Causes
    BY <1>1, <1>2 DEF SnapTyped, TypeOK, Causes
  <2>2. NoOriginal \in [Restorable -> States \cup {"none"}]
    BY DEF NoOriginal
  <2>3. FilesTyped'
    BY <1>1, <1>2, <2>2 DEF FilesTyped, TypeOK
  <2>4. CopiesOK'
    BY <1>1, <1>2 DEF CopiesOK, RowOK
  <2> QED
    BY <2>1, <2>3, <2>4
<1>5. \A v \in Workers : Creating(v) => jobs[v].id \notin {kept'.id, file'.id}
  BY <1>1 DEF TypeInv, JobOK
<1>6. \/ row' = row
      \/ /\ row.id = jobs[w].id /\ row' \in RowType /\ RowOK(row)' /\ row'.id = row.id
         /\ row'.status = row.status
  <2>1. CASE row' = row
    BY <2>1
  <2>2. CASE /\ row.id = jobs[w].id
             /\ row' = [row EXCEPT !.recover = "", !.rollback = "", !.step = ""]
    <3>1. row.id # 0 /\ row.status = "Success"
      BY <1>2, <1>3, <2>2 DEF JobOK
    <3>2. /\ row' \in RowType /\ row'.id = row.id /\ row'.status = row.status
          /\ row'.recover = "" /\ row'.rollback = "" /\ row'.step = ""
      BY <1>2, <2>2 DEF RowType
    <3> QED
      BY <2>2, <3>1, <3>2 DEF RowOK
  <2> QED
    BY <1>1, <2>1, <2>2
<1> QED
  BY <1>1, <1>3, <1>4, <1>5, <1>6, JobEnds

\* The process ends, and with it every task.
LEMMA AllStopTyped ==
    ASSUME TypeInv, jobs' = [w \in Workers |-> Idle], UNCHANGED <<row, tasks>>,
           up' \in BOOLEAN, crashes' \in 0..MaxCrash,
           UNCHANGED panelVars, SnapTyped', history' \subseteq Causes
    PROVE  TypeInv'
<1>1. TypeOK /\ RowsOK /\ CopiesOK /\ RowOK(row)
  BY DEF TypeInv, RowsOK
<1>2. Idle \in JobType
  BY MaxRowsAssumption DEF JobType, Idle
<1>3. jobs' \in [Workers -> JobType] /\ \A w \in Workers : jobs'[w] = Idle
  BY <1>2
<1>4. TypeOK'
  BY <1>1, <1>3 DEF TypeOK, JobType, SnapTyped, panelVars
<1>5. \A w \in Workers : JobOK(w)' /\ ~Restoring(w)' /\ ~Creating(w)'
  BY <1>3, IdleIs DEF JobOK, Busy, Creating, Restoring, Recovering, RollingBack
<1>6. RowsOK'
  BY <1>1, <1>5, CopiesKept DEF RowsOK, RowOK
<1> QED
  BY <1>4, <1>5, <1>6 DEF TypeInv

\* the end of a recovery, which stops everything,
LEMMA RecoverSucceedsTyped ==
    ASSUME TypeInv, NEW w \in Workers, RecoverSucceeds(w)
    PROVE  TypeInv'
<1>1. /\ jobs' = [v \in Workers |-> Idle] /\ up' = FALSE
      /\ UNCHANGED <<row, tasks>> /\ crashes' = crashes /\ UNCHANGED panelVars
      /\ work' = {} /\ fetched' = {} /\ UNCHANGED <<archive, remote>>
      /\ history' \subseteq history \cup {"killed", "halfBack"}
  BY DEF RecoverSucceeds, Lost, panelVars, db
<1>2. SnapTyped' /\ history' \subseteq Causes /\ crashes' \in 0..MaxCrash
  BY <1>1 DEF TypeInv, TypeOK, SnapTyped, Causes
<1> QED
  BY <1>1, <1>2, AllStopTyped

\* a crash,
LEMMA CrashTyped == TypeInv /\ Crash => TypeInv'
<1> SUFFICES ASSUME TypeInv, Crash PROVE TypeInv'
  OBVIOUS
<1>1. /\ jobs' = [v \in Workers |-> Idle] /\ up' = FALSE
      /\ UNCHANGED <<row, tasks>> /\ crashes < MaxCrash /\ crashes' = crashes + 1
      /\ UNCHANGED panelVars /\ UNCHANGED <<work, archive, remote, fetched>>
      /\ history' \subseteq history \cup {"killed", "halfBack"}
  BY DEF Crash, Lost, panelVars, db, disk, temporary
<1>2. crashes' \in 0..MaxCrash
  BY <1>1, MaxCrashAssumption DEF TypeInv, TypeOK
<1>3. SnapTyped' /\ history' \subseteq Causes
  BY <1>1 DEF TypeInv, TypeOK, SnapTyped, Causes
<1> QED
  BY <1>1, <1>2, <1>3, AllStopTyped

\* The row that the next process opens.
LEMMA Opened ==
    ASSUME TypeInv, Restart
    PROVE  /\ row' \in RowType /\ RowOK(row)' /\ row'.id = RowOnDisk.id
           /\ row'.step = RowOnDisk.step /\ row'.rollback = RowOnDisk.rollback
           /\ row'.status \in {RowOnDisk.status, "Failed"}
           /\ row'.recover \in {"", "Failed"}
           /\ row'.recover = "" <=> RowOnDisk.recover = ""
           /\ row'.status = "Failed" => RowOnDisk.status \in {"Waiting", "Failed"}
           /\ row'.status # "Waiting"
           /\ RowOnDisk = NoRow => row' = NoRow
<1>1. RowOnDisk \in RowType /\ RowOK(RowOnDisk)
  BY DEF TypeInv, TypeOK, RowsOK, CopiesOK, RowOnDisk
<1>2. row' = [RowOnDisk EXCEPT !.status = FailedIfWaiting(@), !.recover = FailedIfWaiting(@)]
  BY DEF Restart
<1> HIDE DEF RowOnDisk
<1>3. /\ row' \in RowType /\ row'.id = RowOnDisk.id
      /\ row'.step = RowOnDisk.step /\ row'.rollback = RowOnDisk.rollback
      /\ row'.status = FailedIfWaiting(RowOnDisk.status)
      /\ row'.recover = FailedIfWaiting(RowOnDisk.recover)
  BY <1>1, <1>2 DEF RowType, FailedIfWaiting
<1>4. /\ row'.status \in {RowOnDisk.status, "Failed"}
      /\ row'.recover \in {"", "Failed"}
      /\ row'.recover = "" <=> RowOnDisk.recover = ""
      /\ row'.status = "Failed" => RowOnDisk.status \in {"Waiting", "Failed"}
      /\ row'.status # "Waiting"
      /\ row'.status = "None" => RowOnDisk.status = "None"
      /\ row'.status = "Success" <=> RowOnDisk.status = "Success"
  BY <1>1, <1>3 DEF RowType, FailedIfWaiting
<1>5. ASSUME RowOnDisk = NoRow PROVE row' = NoRow
  <2>1. NoRow.status = "None" /\ NoRow.recover = ""
    BY DEF NoRow
  <2>2. FailedIfWaiting(NoRow.status) = "None" /\ FailedIfWaiting(NoRow.recover) = ""
    BY <2>1 DEF FailedIfWaiting
  <2>3. row' = [NoRow EXCEPT !.status = FailedIfWaiting(NoRow.status),
                             !.recover = FailedIfWaiting(NoRow.recover)]
    BY <1>2, <1>5
  <2>4. row' = [NoRow EXCEPT !.status = "None", !.recover = ""]
    BY <2>2, <2>3
  <2> QED
    BY <2>4 DEF NoRow
<1>6. RowOK(row)'
  BY <1>1, <1>3, <1>4, <1>5 DEF RowOK
<1> QED
  BY <1>3, <1>4, <1>5, <1>6

\* and a restart.
LEMMA RestartTyped == TypeInv /\ Restart => TypeInv'
<1> SUFFICES ASSUME TypeInv, Restart PROVE TypeInv'
  OBVIOUS
<1>1. TypeOK /\ RowsOK /\ CopiesOK /\ RowOK(row)
  BY DEF TypeInv, RowsOK
<1>2. /\ ~up /\ up' = TRUE /\ dbGone' = FALSE /\ file' = NoRow
      /\ UNCHANGED <<jobs, work, archive, remote, fetched, panel, original, kept, tasks, crashes>>
      /\ history' \subseteq history \cup {"reopened"}
  BY DEF Restart, temporary
<1>3. \A w \in Workers : jobs[w] = Idle /\ jobs'[w] = Idle
  BY <1>2 DEF TypeInv, JobOK, Busy
<1>4. TypeOK'
  <2>1. history' \subseteq Causes
    BY <1>1, <1>2 DEF TypeOK, Causes
  <2>2. row' \in RowType
    BY Opened
  <2>3. kept' \in RowType /\ file' \in RowType
    BY <1>1, <1>2, NoRowTyped DEF TypeOK
  <2> QED
    BY <1>1, <1>2, <2>1, <2>2, <2>3 DEF TypeOK
<1>5. \A w \in Workers : JobOK(w)' /\ ~Restoring(w)' /\ ~Creating(w)'
  BY <1>3, IdleIs DEF JobOK, Busy, Creating, Restoring, Recovering, RollingBack
<1>6. CopiesOK'
  BY <1>1, <1>2, NoRowTyped DEF CopiesOK, RowOK
<1>7. row'.status \in {"Waiting", "Failed"} \/ tasks' = 0 => Pristine'
  <2>1. Pristine => Pristine'
    BY <1>2 DEF Pristine
  <2>2. row'.status \in {"Waiting", "Failed"} => RowOnDisk.status \in {"Waiting", "Failed"}
    BY Opened
  <2>3. file.status \in {"None", "Success"}
    BY <1>1, NoRowTyped DEF CopiesOK
  <2>4. RowOnDisk.status \in {"Waiting", "Failed"} => row.status \in {"Waiting", "Failed"}
    BY <2>3 DEF RowOnDisk
  <2> QED
    BY <1>1, <1>2, <2>1, <2>2, <2>4 DEF RowsOK
<1>8. RowsOK'
  BY <1>5, <1>6, <1>7, Opened DEF RowsOK
<1> QED
  BY <1>4, <1>5, <1>8 DEF TypeInv

\* Every step keeps the invariant of the types.
LEMMA TypeStep == TypeInv /\ [Next]_vars => TypeInv'
<1> SUFFICES ASSUME TypeInv, [Next]_vars PROVE TypeInv'
  OBVIOUS
<1>1. CASE UNCHANGED vars
  <2>1. TypeOK' /\ UNCHANGED panelVars /\ row' = row /\ tasks' = tasks /\ jobs' = jobs /\ up' = up
    BY <1>1 DEF vars, panelVars, TypeInv, TypeOK
  <2>2. CopiesOK' /\ (Pristine => Pristine')
    BY <2>1, CopiesKept DEF TypeInv, RowsOK
  <2>3. RowsOK'
    BY <2>1, <2>2 DEF TypeInv, RowsOK, RowOK, Restoring, Recovering, RollingBack
  <2>4. \A w \in Workers : JobOK(w)'
    BY <2>1 DEF panelVars, TypeInv, JobOK, Busy, Creating, Restoring, Recovering, RollingBack
  <2> QED
    BY <2>1, <2>3, <2>4 DEF TypeInv, Creating
<1>2. CASE Next
  BY <1>2, BeginCreateTyped, BeginReCreateTyped, BeginRecoverTyped, BeginRollbackTyped,
     ImportTyped, DeleteTyped, StepGoesOnTyped, StepDoneTyped, StepMissesTyped,
     StepFailsTyped, CreateSucceedsTyped, RecoverSucceedsTyped, RollbackSucceedsTyped, CrashTyped,
     RestartTyped DEF Next
<1> QED
  BY <1>1, <1>2

\* The invariant of the types holds in every reachable state.
THEOREM TypeInvariant == Spec => []TypeInv
BY TypeInit, TypeStep, PTL DEF Spec

\* The variables keep their types, the step and the id of every row included.
THEOREM TypeCorrect == Spec => []TypeOK
<1>1. TypeInv => TypeOK
  BY DEF TypeInv
<1> QED
  BY <1>1, TypeInvariant, PTL

\* The interrupt_step of a row that can be recovered is a step of a recovery, and that
\* of any other a step of a creation, although both tasks save theirs in one column.
THEOREM StepIsOfTheRightTaskHolds == Spec => []StepIsOfTheRightTask
<1>1. TypeInv => StepIsOfTheRightTask
  BY Names DEF TypeInv, RowsOK, RowOK, StepIsOfTheRightTask
<1> QED
  BY <1>1, TypeInvariant, PTL

-----------------------------------------------------------------------------
(* The steps as the proofs about a recovery see them. *)

\* Nothing that a recovery or a rollback depends on.
Quiet ==
    /\ UNCHANGED <<up, row>> /\ UNCHANGED panelVars
    /\ history \subseteq history' /\ history' \subseteq history \cup {"gap", "taskless"}
    /\ \A v \in Workers : Restoring(v) \/ Restoring(v)' => jobs'[v] = jobs[v]

\* Nothing was ever recovered.
Fresh ==
    /\ Pristine' /\ \A v \in Workers : ~Restoring(v)'
    /\ row'.step \notin RecoverNames /\ row'.recover = "" /\ row'.rollback = ""

\* A task of this kind is queued for the row.
AddsJob(kind, todo) ==
    \E w \in Workers :
        /\ jobs[w] = Idle
        /\ jobs'[w].kind = kind /\ jobs'[w].todo = todo /\ jobs'[w].id = row.id
        /\ \A v \in Workers \ {w} : jobs'[v] = jobs[v]

\* No task is there; no recovery was started over or ran beside another, and no copy
\* missed files.
Alone == \A w \in Workers : ~Busy(w)
Orderly == history \cap {"anew", "beside", "skipped"} = {}

\* A recovery is asked for, from the beginning or from the step of the row; it may find no
\* task that takes it.
RecoverBegins(all) ==
    /\ row.status = "Success" /\ (~all => ~IsNew)
    /\ row' = [row EXCEPT !.recover = "Waiting"]
    /\ up /\ up' = up /\ UNCHANGED panelVars
    /\ history \subseteq history'
    /\ Orderly' /\ all => Restored
    /\ \/ jobs' = jobs /\ "taskless" \in history'
       \/ AddsJob("recover", RecoverTodo(all)) /\ (Orderly' => Alone)

\* A rollback is asked for.
RollbackBegins ==
    /\ RollbackOffered /\ row.status = "Success"
    /\ up /\ up' = up /\ row' = row /\ UNCHANGED panelVars
    /\ history \subseteq history'
    /\ AddsJob("rollback", {"Rollback"})
    /\ Orderly' => Alone

\* The whole effect of a step.
Whole(s) ==
    /\ s = "BackupBeforeRecover" => Keep(Findable, {})
    /\ FilesOf(s) # {} => Overwrite(FilesOf(s), "after")
    /\ s # "BackupBeforeRecover" /\ FilesOf(s) = {} => UNCHANGED panelVars

\* The task has reached this step of its recovery.
AtStepOf(w, s) == Recovering(w) /\ s \in jobs[w].todo /\ jobs[w].todo \subseteq Onwards[s]

\* A recovery does a step, or half of it, or misses files.
RecoverStep(w, s) ==
    /\ AtStepOf(w, s) /\ StepTaken(w, s) /\ Changes(s)
    /\ \/ history' = history /\ Touches(s) /\ (jobs'[w].todo = jobs[w].todo \/ Whole(s))
       \/ history' = history \cup {"skipped"} /\ MissesFiles(s)
    /\ UNCHANGED <<up, row>>

\* A rollback puts back these files, or misses some of them.
RollbackStep(w, files) ==
    /\ RollingBack(w) /\ jobs[w].todo = {"Rollback"} /\ StepTaken(w, "Rollback")
    /\ \/ /\ PutBack(files, {}) /\ history' = history
          /\ jobs'[w].todo = jobs[w].todo \/ files = Restorable
       \/ /\ \E missed \in SUBSET files : PutBack(files, missed)
          /\ history' = history \cup {"skipped"}
    /\ up' = up

\* The task has ended.
JobGone(w) == jobs'[w] = Idle /\ \A v \in Workers \ {w} : jobs'[v] = jobs[v]

\* A recovery ends at a step that failed, and the row keeps the step, if it is saved.
RecoverFails(w, s) ==
    /\ AtStepOf(w, s) /\ JobGone(w)
    /\ UNCHANGED panelVars \/ Whole(s)
    /\ Save(w, [row EXCEPT !.recover = "Failed", !.step = s], history)
    /\ up' = up

\* A rollback fails on its way.
RollbackFails(w) ==
    /\ RollingBack(w) /\ JobGone(w) /\ UNCHANGED panelVars
    /\ Save(w, [row EXCEPT !.rollback = "Failed"], history \cup {"halfBack"})
    /\ up' = up

\* A rollback ends well and removes the copy.
RollbackEnds(w) ==
    /\ RollingBack(w) /\ jobs[w].todo = {} /\ JobGone(w)
    /\ Save(w, [row EXCEPT !.recover = "", !.rollback = "", !.step = ""],
            IF AllBack(w)
            THEN history \ {"anew", "beside", "halfBack", "killed", "skipped"} ELSE history)
    /\ original' = NoOriginal
    /\ UNCHANGED <<up, panel, kept, dbGone, file>>

\* The process stops, and every task with it.
AllStop ==
    /\ up' = FALSE /\ row' = row /\ UNCHANGED panelVars
    /\ \A v \in Workers : jobs'[v] = Idle
    /\ history \subseteq history'
    /\ \A v \in Workers : /\ RollingBack(v) => "halfBack" \in history'
                          /\ Recovering(v) => jobs[v].todo = {} \/ "killed" \in history'

\* The row of an archive from elsewhere is added.
RowImported ==
    /\ row = NoRow /\ row'.id # 0 /\ row'.status = "Success"
    /\ row'.recover = "" /\ row'.rollback = "" /\ row'.step = ""
    /\ \A w \in Workers : row'.id # jobs[w].id
    /\ row'.id \notin {kept.id, file.id}
    /\ UNCHANGED <<up, jobs>> /\ UNCHANGED panelVars
    /\ history' = history \cup {"imported"}

\* The row is deleted.
RowDeleted ==
    /\ row' = NoRow
    /\ UNCHANGED <<up, jobs>> /\ UNCHANGED panelVars
    /\ history' = history \/ history' = history \cup {"forgotten"}
    /\ "forgotten" \notin history' => Alone /\ Restored

\* The process is back, with the row the database on the disk has.
Reopened ==
    /\ ~up /\ up' = TRUE /\ ~dbGone' /\ file' = NoRow
    /\ UNCHANGED <<jobs, panel, original, kept>>
    /\ Alone
    /\ row'.id = RowOnDisk.id /\ row'.step = RowOnDisk.step /\ row'.rollback = RowOnDisk.rollback
    /\ row'.status \in {RowOnDisk.status, "Failed"} \ {"Waiting"}
    /\ row'.recover \in {"", "Failed"}
    /\ row'.recover = "" <=> RowOnDisk.recover = ""
    /\ history' \ {"taskless", "reopened"} = history \ {"taskless", "reopened"}
    /\ "reopened" \notin history' => "reopened" \notin history /\ (dbGone => file = NoRow)

-----------------------------------------------------------------------------
(* Each action is one of these views. *)

\* A request to create, again or not, finds a panel that was never recovered.
LEMMA CreateBegins == TypeInv /\ (BeginCreate \/ BeginReCreate) => Fresh
<1> SUFFICES ASSUME TypeInv, BeginCreate \/ BeginReCreate PROVE Fresh
  OBVIOUS
<1>1. TypeInv'
  BY BeginCreateTyped, BeginReCreateTyped
<1>2. row'.status = "Waiting"
  <2>1. CASE BeginCreate
    BY <2>1 DEF BeginCreate, NoRow
  <2>2. CASE BeginReCreate
    BY <2>2 DEF BeginReCreate, TypeInv, TypeOK, RowType
  <2> QED
    BY <2>1, <2>2
<1>3. RowOK(row)' /\ Pristine' /\ \A v \in Workers : ~Restoring(v)'
  BY <1>1, <1>2 DEF TypeInv, RowsOK
<1>4. row'.step \in CreateNames \cup {""} /\ row'.recover = "" /\ row'.rollback = ""
  BY <1>2, <1>3 DEF RowOK
<1> QED
  BY <1>3, <1>4, Apart DEF Fresh, RecoverNames

\* The end of a creation, good or bad, or a step of it.
LEMMA CreationGoesOn ==
    ASSUME TypeInv, TypeInv', NEW w \in Workers, Creating(w), UNCHANGED panelVars,
           up' = up, history \subseteq history',
           history' \subseteq history \cup {"gap", "taskless"},
           \A v \in Workers \ {w} : jobs'[v] = jobs[v], ~Restoring(w)',
           row' = row \/ (row.id = jobs[w].id /\ row'.recover = row.recover
                            /\ row'.rollback = row.rollback
                            /\ row'.step \in CreateNames \cup {""})
    PROVE  Quiet \/ Fresh
<1>1. ~Restoring(w)
  BY KindIs DEF TypeInv
<1>2. CASE row' = row
  BY <1>1, <1>2 DEF Quiet
<1>3. CASE row' # row
  <2>1. row.status = "Waiting"
    BY <1>3 DEF TypeInv, JobOK
  <2>2. Pristine /\ \A v \in Workers : ~Restoring(v)
    BY <2>1 DEF TypeInv, RowsOK
  <2>3. RowOK(row)
    BY DEF TypeInv, RowsOK
  <2>4. Pristine'
    BY <2>2, CopiesKept DEF TypeInv, RowsOK
  <2>5. \A v \in Workers : ~Restoring(v)'
    BY <2>2 DEF Restoring, Recovering, RollingBack
  <2>6. row'.step \notin RecoverNames
    BY <1>3, Apart DEF RecoverNames
  <2> QED
    BY <1>3, <2>1, <2>3, <2>4, <2>5, <2>6 DEF Fresh, RowOK
<1> QED
  BY <1>2, <1>3

\* A request to recover is seen as RecoverBegins.
LEMMA RecoverBeginIs == TypeInv /\ BeginRecover => \E all \in BOOLEAN : RecoverBegins(all)
<1> SUFFICES ASSUME TypeInv, BeginRecover PROVE \E all \in BOOLEAN : RecoverBegins(all)
  OBVIOUS
<1>1. PICK reDownload \in BOOLEAN :
        /\ row.status = "Success"
        /\ Accept
        /\ row' = [row EXCEPT !.recover = "Waiting"]
        /\ history \subseteq history'
        /\ (IsNew \/ reDownload) /\ ~Restored => "anew" \in history'
        /\ \/ /\ Begin("recover", RecoverTodo(IsNew \/ reDownload), row.id)
              /\ Beside \subseteq history'
           \/ "taskless" \in history' /\ UNCHANGED jobs
  BY DEF BeginRecover, RecoverTodo
<1> DEFINE all == IsNew \/ reDownload
<1>2. all \in BOOLEAN /\ (~all => ~IsNew)
  BY DEF IsNew
<1>3. up /\ up' = up /\ UNCHANGED panelVars
  BY <1>1, AcceptIs
<1>4. \/ Begin("recover", RecoverTodo(all), row.id) /\ Beside \subseteq history'
      \/ "taskless" \in history' /\ UNCHANGED jobs
  BY <1>1
<1>5. Orderly' /\ all => Restored
  BY <1>1 DEF Orderly
<1> HIDE DEF all
<1>6. CASE "taskless" \in history' /\ UNCHANGED jobs
  BY <1>1, <1>2, <1>3, <1>6, <1>5 DEF RecoverBegins
<1>7. CASE Begin("recover", RecoverTodo(all), row.id) /\ Beside \subseteq history'
  <2>1. RecoverTodo(all) \in SUBSET Steps /\ row.id \in 0..MaxRows /\ TypeOK
    BY <1>1, <1>2, RecoverPlanOK DEF TypeInv, TypeOK, RowType
  <2>2. PICK w \in Workers :
          /\ jobs[w] = Idle
          /\ jobs'[w] = [kind |-> "recover", todo |-> RecoverTodo(all), id |-> row.id]
          /\ \A v \in Workers \ {w} : jobs'[v] = jobs[v]
    BY <1>7, <2>1, BeginIs
  <2>3. AddsJob("recover", RecoverTodo(all))
    BY <2>2 DEF AddsJob
  <2>4. Orderly' => Kinds = {}
    BY <1>7 DEF Orderly, Beside
  <2>5. Kinds = {} => Alone
    BY DEF Kinds, Alone, Busy, TypeInv, JobOK
  <2>6. history \subseteq history'
    BY <1>1
  <2>7. /\ row.status = "Success" /\ (~all => ~IsNew)
        /\ row' = [row EXCEPT !.recover = "Waiting"]
    BY <1>1, <1>2
  <2> QED
    BY <1>2, <1>3, <1>5, <2>3, <2>4, <2>5, <2>6, <2>7 DEF RecoverBegins
<1> QED
  BY <1>4, <1>6, <1>7

\* A request to roll back is seen as RollbackBegins.
LEMMA RollbackBeginIs == TypeInv /\ BeginRollback => RollbackBegins
<1> SUFFICES ASSUME TypeInv, BeginRollback PROVE RollbackBegins
  OBVIOUS
<1>1. /\ RollbackOffered /\ Accept /\ Begin("rollback", {"Rollback"}, row.id)
      /\ row' = row /\ history' = history \cup Beside
  BY DEF BeginRollback
<1>2. up /\ up' = up /\ UNCHANGED panelVars
  BY <1>1, AcceptIs
<1>3. {"Rollback"} \in SUBSET Steps /\ row.id \in 0..MaxRows /\ TypeOK /\ RowOK(row)
  BY Apart DEF TypeInv, TypeOK, RowType, RowsOK
<1>4. row.status = "Success"
  BY <1>1, <1>3 DEF RollbackOffered, RowOK
<1>5. PICK w \in Workers :
        /\ jobs[w] = Idle
        /\ jobs'[w] = [kind |-> "rollback", todo |-> {"Rollback"}, id |-> row.id]
        /\ \A v \in Workers \ {w} : jobs'[v] = jobs[v]
  BY <1>1, <1>3, BeginIs
<1>6. AddsJob("rollback", {"Rollback"})
  BY <1>5 DEF AddsJob
<1>7. Orderly' => Kinds = {}
  BY <1>1 DEF Orderly, Beside
<1>8. Kinds = {} => Alone
  BY DEF Kinds, Alone, Busy, TypeInv, JobOK
<1> QED
  BY <1>1, <1>2, <1>4, <1>6, <1>7, <1>8 DEF RollbackBegins

\* The step of a rollback is its only one.
LEMMA TodoOfRollback ==
    ASSUME TypeInv, NEW w \in Workers, "Rollback" \in jobs[w].todo
    PROVE  RollingBack(w) /\ jobs[w].todo = {"Rollback"}
<1>1. RollingBack(w) /\ JobOK(w)
  BY AtStep DEF TypeInv
<1> QED
  BY <1>1 DEF JobOK

\* A step half way is seen as one of a recovery or of a rollback.
LEMMA StepGoesOnIs ==
    ASSUME TypeInv, NEW w \in Workers, StepGoesOn(w)
    PROVE  \/ \E s \in RecoverNames : RecoverStep(w, s)
           \/ \E files \in SUBSET Restorable : RollbackStep(w, files)
<1>1. PICK s \in jobs[w].todo :
        /\ jobs[w].todo \subseteq Onwards[s]
        /\ \/ HalfEffect(s) /\ UNCHANGED row
           \/ s = "Rollback" /\ \E files \in PutBackSoFar : PutBack(files, {})
        /\ UNCHANGED <<up, jobs, history>>
  BY DEF StepGoesOn, At
<1>2. StepTaken(w, s) /\ jobs'[w].todo = jobs[w].todo
  BY <1>1 DEF StepTaken, TypeInv, TypeOK, JobType
<1>3. CASE HalfEffect(s) /\ UNCHANGED row
  <2>1. Touches(s) /\ s \in RecoverNames
    BY <1>3, AtStep, HalfTouches
  <2>2. Recovering(w)
    BY <2>1, AtStep
  <2>3. RecoverStep(w, s)
    BY <1>1, <1>2, <1>3, <2>1, <2>2 DEF RecoverStep, AtStepOf, Changes
  <2> QED
    BY <2>1, <2>3
<1>4. CASE s = "Rollback" /\ \E files \in PutBackSoFar : PutBack(files, {})
  <2>1. PICK files \in PutBackSoFar : PutBack(files, {})
    BY <1>4
  <2>2. files \in SUBSET Restorable
    BY DEF PutBackSoFar, Restorable
  <2>3. RollbackStep(w, files)
    BY <1>1, <1>2, <1>4, <2>1, TodoOfRollback DEF RollbackStep
  <2> QED
    BY <2>2, <2>3
<1> QED
  BY <1>1, <1>3, <1>4

\* A step that ends well is one of a recovery or of a rollback, or nothing to them.
LEMMA StepDoneIs ==
    ASSUME TypeInv, TypeInv', NEW w \in Workers, StepDone(w)
    PROVE  \/ Quiet \/ Fresh
           \/ \E s \in RecoverNames : RecoverStep(w, s)
           \/ \E files \in SUBSET Restorable : RollbackStep(w, files)
<1>1. PICK s \in jobs[w].todo :
        /\ jobs[w].todo \subseteq Onwards[s]
        /\ \/ s # "Rollback" /\ Effect(s) /\ UNCHANGED row
           \/ s = "Rollback" /\ PutBack(Restorable, {})
        /\ jobs' = [jobs EXCEPT ![w].todo = @ \ {s}]
        /\ UNCHANGED <<up, tasks, crashes, history>>
  BY DEF StepDone, At
<1>2. StepTaken(w, s) /\ jobs'[w].todo = jobs[w].todo \ {s}
  BY <1>1, DoneIs
<1>3. CASE s \in CreateNames
  <2>1. Creating(w) /\ ~Restoring(w) /\ UNCHANGED row /\ Effect(s)
    BY <1>1, <1>3, AtStep, Apart DEF Restoring
  <2>2. UNCHANGED panelVars
    BY <1>3, <2>1, EffectTouches, NamesOfFiles DEF Touches
  <2>3. ~Restoring(w)' /\ \A v \in Workers \ {w} : jobs'[v] = jobs[v]
    BY <1>2, <2>1 DEF StepTaken, Restoring, Recovering, RollingBack
  <2> QED
    BY <1>1, <2>1, <2>2, <2>3, CreationGoesOn
<1>4. CASE s \in RecoverNames
  <2>1. Recovering(w) /\ UNCHANGED row /\ Effect(s)
    BY <1>1, <1>4, AtStep, Apart
  <2>2. Touches(s) /\ Whole(s)
    BY <1>4, <2>1, EffectTouches, EffectIs DEF Whole
  <2>3. RecoverStep(w, s)
    BY <1>1, <1>2, <2>1, <2>2 DEF RecoverStep, AtStepOf, Changes
  <2> QED
    BY <1>4, <2>3
<1>5. CASE s = "Rollback"
  <2>1. RollbackStep(w, Restorable)
    BY <1>1, <1>2, <1>5, TodoOfRollback DEF RollbackStep
  <2>2. Restorable \in SUBSET Restorable
    OBVIOUS
  <2> QED
    BY <2>1, <2>2
<1> QED
  BY <1>3, <1>4, <1>5, AtStep, Apart

\* A step that misses something is seen as one of a recovery or of a rollback that skips
\* files, or as nothing to them.
LEMMA StepMissesIs ==
    ASSUME TypeInv, TypeInv', NEW w \in Workers, StepMisses(w)
    PROVE  \/ Quiet \/ Fresh
           \/ \E s \in RecoverNames : RecoverStep(w, s)
           \/ \E files \in SUBSET Restorable : RollbackStep(w, files)
<1>1. PICK s \in jobs[w].todo :
        /\ jobs[w].todo \subseteq Onwards[s] /\ StepTaken(w, s)
        /\ jobs'[w].todo = jobs[w].todo \ {s} /\ UNCHANGED <<up, tasks, crashes>>
        /\ \/ /\ s \in PartSteps /\ work' = work \ {PartOf(s)}
              /\ history' = history \cup {"gap"}
              /\ UNCHANGED <<row, archive, remote, fetched>> /\ UNCHANGED panelVars
           \/ /\ s \in RecoverNames /\ MissesFiles(s)
              /\ history' = history \cup {"skipped"}
              /\ UNCHANGED <<row, work, archive, remote, fetched>>
           \/ /\ s = "Rollback" /\ history' = history \cup {"skipped"}
              /\ \E missed \in SUBSET Restorable : PutBack(Restorable, missed)
  BY MissesIs
<1>2. ASSUME s \in PartSteps, history' = history \cup {"gap"}, row' = row,
             UNCHANGED panelVars
      PROVE  Quiet \/ Fresh
  <2>1. Creating(w) /\ ~Restoring(w)
    BY <1>2, AtStep, NamesOfFiles, Apart DEF Restoring
  <2>2. ~Restoring(w)' /\ \A v \in Workers \ {w} : jobs'[v] = jobs[v]
    BY <1>1, <2>1 DEF StepTaken, Restoring, Recovering, RollingBack
  <2> QED
    BY <1>1, <1>2, <2>1, <2>2, CreationGoesOn
<1>3. ASSUME s \in RecoverNames, MissesFiles(s), history' = history \cup {"skipped"},
             row' = row
      PROVE  RecoverStep(w, s)
  <2>1. Recovering(w)
    BY <1>3, AtStep
  <2>2. Changes(s)
    BY <1>3 DEF Changes
  <2> QED
    BY <1>1, <1>3, <2>1, <2>2 DEF RecoverStep, AtStepOf
<1>4. ASSUME s = "Rollback", history' = history \cup {"skipped"},
             \E missed \in SUBSET Restorable : PutBack(Restorable, missed)
      PROVE  RollbackStep(w, Restorable)
  BY <1>1, <1>4, TodoOfRollback DEF RollbackStep
<1>5. Restorable \in SUBSET Restorable
  OBVIOUS
<1> QED
  BY <1>1, <1>2, <1>3, <1>4, <1>5

\* So is a step that fails.
LEMMA StepFailsIs ==
    ASSUME TypeInv, TypeInv', NEW w \in Workers, StepFails(w)
    PROVE  \/ Quiet \/ Fresh
           \/ \E s \in RecoverNames : RecoverFails(w, s)
           \/ RollbackFails(w)
<1>1. PICK s \in jobs[w].todo :
        /\ jobs[w].todo \subseteq Onwards[s]
        /\ \/ jobs[w].kind = "cronjob" /\ CleanUp
           \/ UNCHANGED disk
           \/ jobs[w].kind \in {"create", "recover"} /\ Effect(s)
        /\ Save(w, FailedRow(jobs[w].kind, s),
                history \cup IF jobs[w].kind = "rollback" THEN {"halfBack"} ELSE {})
        /\ Ends(w)
        /\ UNCHANGED <<up, tasks, crashes>>
  BY DEF StepFails, At
<1>2. JobGone(w) /\ TypeOK
  BY <1>1, EndsIs DEF JobGone, TypeInv
<1>3. CASE s \in CreateNames
  <2>1. Creating(w) /\ ~Restoring(w)
    BY <1>3, AtStep, Apart DEF Restoring
  <2>2. UNCHANGED panelVars
    <3>1. CASE CleanUp
      BY <3>1 DEF CleanUp, panelVars, db
    <3>2. CASE UNCHANGED disk
      BY <3>2 DEF disk, panelVars, db
    <3>3. CASE Effect(s)
      BY <1>3, <3>3, EffectTouches, NamesOfFiles DEF Touches
    <3> QED
      BY <1>1, <3>1, <3>2, <3>3
  <2>3. row \in RowType /\ RowOK(row) /\ JobOK(w)
    BY DEF TypeInv, TypeOK, RowsOK
  <2>4. FailedRow(jobs[w].kind, s) = [row EXCEPT !.status = "Failed", !.step = s]
    BY <2>1 DEF FailedRow, Creating
  <2>0. Save(w, [row EXCEPT !.status = "Failed", !.step = s], history)
    BY <1>1, <2>1, <2>4 DEF Creating
  <2>5. row' = row \/ (row.id = jobs[w].id /\ row'.recover = row.recover
                         /\ row'.rollback = row.rollback
                         /\ row'.step \in CreateNames \cup {""})
    BY <1>3, <2>0, <2>3, SaveIs DEF RowType
  <2>6. ~Restoring(w)' /\ \A v \in Workers \ {w} : jobs'[v] = jobs[v]
    BY <1>2, IdleIs DEF JobGone, Restoring, Recovering, RollingBack
  <2>7. /\ up' = up /\ history \subseteq history'
        /\ history' \subseteq history \cup {"gap", "taskless"}
    BY <1>1, <2>0, <2>1, SaveIs
  <2> QED
    BY <2>1, <2>2, <2>5, <2>6, <2>7, CreationGoesOn
<1>4. CASE s \in RecoverNames
  <2>1. Recovering(w)
    BY <1>4, AtStep
  <2>2. UNCHANGED panelVars \/ Whole(s)
    <3>1. CASE UNCHANGED disk
      BY <3>1 DEF disk, panelVars, db
    <3>2. CASE Effect(s)
      BY <1>4, <3>2, EffectIs DEF Whole
    <3> QED
      BY <1>1, <2>1, <3>1, <3>2 DEF Recovering
  <2>3. Save(w, [row EXCEPT !.recover = "Failed", !.step = s], history)
    BY <1>1, <2>1 DEF FailedRow, Recovering
  <2>4. up' = up
    BY <1>1
  <2> QED
    BY <1>1, <1>2, <1>4, <2>1, <2>2, <2>3, <2>4 DEF RecoverFails, AtStepOf
<1>5. CASE s = "Rollback"
  <2>1. RollingBack(w)
    BY <1>5, AtStep
  <2>2. UNCHANGED panelVars
    BY <1>1, <2>1 DEF RollingBack, disk, panelVars, db
  <2>3. Save(w, [row EXCEPT !.rollback = "Failed"], history \cup {"halfBack"})
    BY <1>1, <2>1 DEF FailedRow, RollingBack
  <2>4. up' = up
    BY <1>1
  <2> QED
    BY <1>2, <2>1, <2>2, <2>3, <2>4 DEF RollbackFails
<1> QED
  BY <1>3, <1>4, <1>5, AtStep, Apart

\* The end of a creation is nothing to a recovery.
LEMMA CreateSucceedsIs ==
    ASSUME TypeInv, TypeInv', NEW w \in Workers, CreateSucceeds(w)
    PROVE  Quiet \/ Fresh
<1>1. /\ Creating(w) /\ Ends(w) /\ TypeOK /\ row \in RowType /\ RowOK(row)
      /\ Save(w, [row EXCEPT !.status = "Success", !.step = ""], history)
      /\ UNCHANGED panelVars /\ up' = up
  BY DEF CreateSucceeds, Completes, StepAfterSuccess, db, panelVars, Creating, TypeInv,
         TypeOK, RowsOK
<1>2. JobGone(w)
  BY <1>1, EndsIs DEF JobGone
<1>3. ~Restoring(w)' /\ \A v \in Workers \ {w} : jobs'[v] = jobs[v]
  BY <1>2, IdleIs DEF JobGone, Restoring, Recovering, RollingBack
<1>4. row' = row \/ (row.id = jobs[w].id /\ row'.recover = row.recover
                       /\ row'.rollback = row.rollback
                       /\ row'.step \in CreateNames \cup {""})
  BY <1>1, SaveIs DEF RowType
<1>5. history \subseteq history' /\ history' \subseteq history \cup {"gap", "taskless"}
  <2>1. ~Restoring(w)
    BY <1>1, KindIs
  <2> QED
    BY <1>1, <2>1, SaveIs
<1> QED
  BY <1>1, <1>3, <1>4, <1>5, CreationGoesOn

\* The end of a rollback is seen as RollbackEnds.
LEMMA RollbackSucceedsIs ==
    ASSUME TypeInv, NEW w \in Workers, RollbackSucceeds(w)
    PROVE  RollbackEnds(w)
<1>1. RollingBack(w) /\ jobs[w].todo = {} /\ Ends(w) /\ TypeOK
  BY DEF RollbackSucceeds, Completes, RollingBack, TypeInv
<1>2. JobGone(w)
  BY <1>1, EndsIs DEF JobGone
<1>3. UNCHANGED <<up, panel, kept, dbGone, file>>
  BY DEF RollbackSucceeds, db
<1> QED
  BY <1>1, <1>2, <1>3 DEF RollbackSucceeds, RollbackEnds

\* A crash and the end of a recovery stop all tasks.
LEMMA AllStopIs ==
    ASSUME TypeInv, Crash \/ \E w \in Workers : RecoverSucceeds(w)
    PROVE  AllStop
<1>1. CASE Crash
  <2>1. /\ jobs' = [v \in Workers |-> Idle] /\ up' = FALSE /\ row' = row /\ UNCHANGED panelVars
        /\ history' = history \cup Lost(Kinds)
    BY <1>1 DEF Crash, panelVars, db, disk
  <2>2. \A v \in Workers : /\ RollingBack(v) => "halfBack" \in Lost(Kinds)
                           /\ Recovering(v) => "killed" \in Lost(Kinds)
    BY DEF Lost, Kinds, RollingBack, Recovering
  <2> QED
    BY <2>1, <2>2 DEF AllStop
<1>2. CASE \E w \in Workers : RecoverSucceeds(w)
  <2>1. PICK w \in Workers : RecoverSucceeds(w)
    BY <1>2
  <2> DEFINE lost == Lost({jobs[v].kind : v \in Workers \ {w}})
  <2>2. /\ jobs' = [v \in Workers |-> Idle] /\ up' = FALSE /\ row' = row /\ UNCHANGED panelVars
        /\ history' = history \cup lost
        /\ jobs[w].kind = "recover" /\ jobs[w].todo = {}
    BY <2>1 DEF RecoverSucceeds, Completes, panelVars, db
  <2>3. \A v \in Workers \ {w} : /\ RollingBack(v) => "halfBack" \in lost
                                 /\ Recovering(v) => "killed" \in lost
    BY DEF Lost, RollingBack, Recovering
  <2> HIDE DEF lost
  <2>4. ~RollingBack(w)
    BY <2>2 DEF RollingBack
  <2> QED
    BY <2>2, <2>3, <2>4 DEF AllStop
<1> QED
  BY <1>1, <1>2

\* An import is seen as RowImported.
LEMMA ImportIs == TypeInv /\ Import => RowImported
<1> SUFFICES ASSUME TypeInv, Import PROVE RowImported
  OBVIOUS
<1>1. PICK id \in NewIds : row' = [NoRow EXCEPT !.id = id, !.status = "Success"]
  BY DEF Import
<1>2. id # 0 /\ id \notin {kept.id, file.id} /\ \A w \in Workers : jobs[w].id # id
  BY DEF NewIds
<1>3. /\ row'.id = id /\ row'.status = "Success" /\ row'.recover = "" /\ row'.rollback = ""
      /\ row'.step = ""
  BY <1>1 DEF NoRow
<1>4. /\ row = NoRow /\ UNCHANGED <<up, jobs>> /\ UNCHANGED panelVars
      /\ history' = history \cup {"imported"}
  BY DEF Import, panelVars, db
<1> QED
  BY <1>2, <1>3, <1>4 DEF RowImported

\* A deletion is seen as RowDeleted.
LEMMA DeleteIs == TypeInv /\ Delete => RowDeleted
<1> SUFFICES ASSUME TypeInv, Delete PROVE RowDeleted
  OBVIOUS
<1>1. /\ row' = NoRow /\ UNCHANGED <<up, jobs>> /\ UNCHANGED panelVars
      /\ history' = history \cup IF Kinds # {} \/ ~Restored THEN {"forgotten"} ELSE {}
  BY DEF Delete, panelVars, db
<1>2. "forgotten" \notin history' => Kinds = {} /\ Restored
  BY <1>1
<1>3. Kinds = {} => Alone
  BY DEF Kinds, Alone, Busy, TypeInv, JobOK
<1>4. history' = history \/ history' = history \cup {"forgotten"}
  BY <1>1
<1> QED
  BY <1>1, <1>2, <1>3, <1>4 DEF RowDeleted

\* A restart is seen as Reopened.
LEMMA RestartIs == TypeInv /\ Restart => Reopened
<1> SUFFICES ASSUME TypeInv, Restart PROVE Reopened
  OBVIOUS
<1>1. /\ ~up /\ up' = TRUE /\ ~dbGone' /\ file' = NoRow
      /\ UNCHANGED <<jobs, panel, original, kept>>
      /\ history' = (history \ {"taskless"})
                      \cup IF dbGone /\ file # NoRow THEN {"reopened"} ELSE {}
  BY DEF Restart
<1>2. Alone
  BY <1>1 DEF TypeInv, JobOK, Alone
<1>3. /\ history' \ {"taskless", "reopened"} = history \ {"taskless", "reopened"}
      /\ "reopened" \notin history' => "reopened" \notin history /\ (dbGone => file = NoRow)
  BY <1>1
<1>4. /\ row'.id = RowOnDisk.id /\ row'.step = RowOnDisk.step
      /\ row'.rollback = RowOnDisk.rollback
      /\ row'.status \in {RowOnDisk.status, "Failed"} \ {"Waiting"}
      /\ row'.recover \in {"", "Failed"}
      /\ row'.recover = "" <=> RowOnDisk.recover = ""
  BY Opened
<1> QED
  BY <1>1, <1>2, <1>3, <1>4 DEF Reopened

\* Something that a recovery or a rollback does.
RestoreStep(w) ==
    \/ \E s \in RecoverNames : RecoverStep(w, s) \/ RecoverFails(w, s)
    \/ \E files \in SUBSET Restorable : RollbackStep(w, files)
    \/ RollbackFails(w) \/ RollbackEnds(w)

\* Every step is one of those views.
LEMMA Cases ==
    ASSUME TypeInv, [Next]_vars
    PROVE  /\ TypeInv'
           /\ \/ Quiet \/ Fresh \/ RowImported \/ RowDeleted \/ RollbackBegins \/ AllStop
              \/ Reopened
              \/ \E all \in BOOLEAN : RecoverBegins(all)
              \/ \E w \in Workers : RestoreStep(w)
<1>1. TypeInv'
  BY TypeStep
<1>2. CASE UNCHANGED vars
  <2>1. UNCHANGED <<up, row, history, jobs>> /\ UNCHANGED panelVars
    BY <1>2 DEF vars, panelVars
  <2>2. Quiet
    BY <2>1 DEF Quiet
  <2> QED
    BY <1>1, <2>2
<1>3. CASE Next
  <2>1. CASE BeginCreate \/ BeginReCreate
    BY <1>1, <2>1, CreateBegins
  <2>2. CASE BeginRecover \/ BeginRollback
    BY <1>1, <2>2, RecoverBeginIs, RollbackBeginIs
  <2>3. CASE Import \/ Delete \/ Restart
    BY <1>1, <2>3, ImportIs, DeleteIs, RestartIs
  <2>4. ASSUME NEW w \in Workers,
               \/ StepGoesOn(w) \/ StepDone(w) \/ StepMisses(w) \/ StepFails(w)
               \/ CreateSucceeds(w) \/ RollbackSucceeds(w)
        PROVE  Quiet \/ Fresh \/ RestoreStep(w)
    <3>1. CASE StepGoesOn(w)
      BY <3>1, StepGoesOnIs DEF RestoreStep
    <3>2. CASE StepDone(w)
      BY <1>1, <3>2, StepDoneIs DEF RestoreStep
    <3>3. CASE StepFails(w)
      BY <1>1, <3>3, StepFailsIs DEF RestoreStep
    <3>4. CASE CreateSucceeds(w)
      BY <1>1, <3>4, CreateSucceedsIs
    <3>5. CASE RollbackSucceeds(w)
      BY <3>5, RollbackSucceedsIs DEF RestoreStep
    <3>6. CASE StepMisses(w)
      BY <1>1, <3>6, StepMissesIs DEF RestoreStep
    <3> QED
      BY <2>4, <3>1, <3>2, <3>3, <3>4, <3>5, <3>6
  <2>5. CASE \E w \in Workers : \/ StepGoesOn(w) \/ StepDone(w) \/ StepMisses(w)
                                \/ StepFails(w) \/ CreateSucceeds(w) \/ RollbackSucceeds(w)
    BY <1>1, <2>4, <2>5
  <2>6. CASE Crash \/ \E w \in Workers : RecoverSucceeds(w)
    BY <1>1, <2>6, AllStopIs
  <2> QED
    BY <1>3, <2>1, <2>2, <2>3, <2>5, <2>6 DEF Next
<1> QED
  BY <1>2, <1>3

-----------------------------------------------------------------------------
(* The copy that a rollback puts back. *)

\* All that the copy has is back; only the single files can be missing from it.
Returned == \A f \in Restorable :
    panel[f] = "before" \/ (f = "base" /\ original["base"] = "none")

\* The invariant of the copy. At most one task restores; the copy holds nothing of the
\* recovery; it is made before the panel changes and, once a rollback is through, the panel
\* is as it was.
OriginalInv == Orderly =>
    /\ \A w, v \in Workers : Restoring(w) /\ Restoring(v) => w = v
    /\ \A f \in Restorable : original[f] \in {"none", "before"}
    /\ \A w \in Workers : Recovering(w) /\ "BackupBeforeRecover" \in jobs[w].todo => Restored
    /\ \A w \in Workers : RollingBack(w) /\ jobs[w].todo = {} => Returned

\* While the copy of the panel is still to be made, no file of it is changed.
LEMMA CopyFirst ==
    ASSUME NEW w \in Workers, NEW s \in RecoverNames, AtStepOf(w, s)
    PROVE  "BackupBeforeRecover" \in jobs[w].todo => s \in BeforeChange /\ FilesOf(s) = {}
<1>1. "BackupBeforeRecover" \in jobs[w].todo => s \in BeforeChange
  BY FirstSteps DEF AtStepOf
<1>2. s \in BeforeChange => FilesOf(s) = {}
  BY DEF BeforeChange, FilesOf
<1> QED
  BY <1>1, <1>2

\* The kinds of the tasks that a step leaves.
LEMMA Same == \A w \in Workers : jobs'[w] = jobs[w] =>
    /\ Restoring(w)' = Restoring(w) /\ Recovering(w)' = Recovering(w)
    /\ RollingBack(w)' = RollingBack(w)
BY DEF Restoring, Recovering, RollingBack

\* A task that is not there restores nothing, and one that restores is of one kind.
LEMMA IdleKinds == \A w \in Workers :
    /\ jobs[w] = Idle => ~Restoring(w) /\ ~Recovering(w) /\ ~RollingBack(w)
    /\ jobs'[w] = Idle => ~Restoring(w)' /\ ~Recovering(w)' /\ ~RollingBack(w)'
    /\ Restoring(w) <=> Recovering(w) \/ RollingBack(w)
    /\ Restoring(w)' <=> Recovering(w)' \/ RollingBack(w)'
    /\ ~(Recovering(w) /\ RollingBack(w)) /\ ~(Recovering(w)' /\ RollingBack(w)')
BY IdleIs DEF Restoring, Recovering, RollingBack

\* A step leaves the kinds and the ids of the tasks, and adds no step to one.
LEMMA TakenKinds == \A w \in Workers : \A s : StepTaken(w, s) =>
    /\ \A v \in Workers : /\ Restoring(v)' = Restoring(v) /\ Recovering(v)' = Recovering(v)
                          /\ RollingBack(v)' = RollingBack(v) /\ jobs'[v].id = jobs[v].id
                          /\ jobs'[v].todo \subseteq jobs[v].todo
    /\ \A v \in Workers \ {w} : jobs'[v] = jobs[v]
BY DEF StepTaken, Restoring, Recovering, RollingBack

\* The invariant of the copy holds at the start.
LEMMA OriginalInit == Init => OriginalInv
BY IdleIs DEF Init, OriginalInv, Restoring, Recovering, RollingBack, NoOriginal

\* The invariant when one task, or none, is left that restores.
LEMMA OriginalOne ==
    ASSUME NEW w \in Workers, \A v \in Workers : Restoring(v)' => v = w,
           \A f \in Restorable : original'[f] \in {"none", "before"},
           Recovering(w)' /\ "BackupBeforeRecover" \in jobs'[w].todo => Restored',
           RollingBack(w)' /\ jobs'[w].todo = {} => Returned'
    PROVE  OriginalInv'
<1>1. \A v \in Workers : Recovering(v)' \/ RollingBack(v)' => v = w
  BY IdleKinds
<1> QED
  BY <1>1 DEF OriginalInv

\* The invariant when no task is left that restores.
LEMMA OriginalNone ==
    ASSUME \A v \in Workers : ~Restoring(v)',
           \A f \in Restorable : original'[f] \in {"none", "before"}
    PROVE  OriginalInv'
<1>1. \A v \in Workers : ~Recovering(v)' /\ ~RollingBack(v)'
  BY IdleKinds
<1> QED
  BY <1>1 DEF OriginalInv

\* The invariant when panel and copy stay, and no task is added.
LEMMA OriginalSame ==
    ASSUME OriginalInv, Orderly, panel' = panel, original' = original,
           \A v \in Workers : Restoring(v)' => Restoring(v) /\ jobs'[v] = jobs[v]
    PROVE  OriginalInv'
<1>1. \A v \in Workers : /\ Recovering(v)' => Recovering(v) /\ jobs'[v] = jobs[v]
                         /\ RollingBack(v)' => RollingBack(v) /\ jobs'[v] = jobs[v]
  BY IdleKinds, Same
<1>2. (Restored => Restored') /\ (Returned => Returned')
  BY DEF Restored, Returned
<1> QED
  BY <1>1, <1>2 DEF OriginalInv

\* Every step keeps the invariant of the copy.
LEMMA OriginalStep == TypeInv /\ OriginalInv /\ [Next]_vars => OriginalInv'
<1> SUFFICES ASSUME TypeInv, OriginalInv, [Next]_vars, Orderly' PROVE OriginalInv'
  BY DEF OriginalInv
<1>0. TypeOK
  BY DEF TypeInv
<1>1. CASE Quiet
  <2>1. Orderly /\ panel' = panel /\ original' = original
    BY <1>1 DEF Quiet, Orderly, panelVars
  <2>2. \A v \in Workers : Restoring(v)' => jobs'[v] = jobs[v] /\ Restoring(v)
    BY <1>1, Same DEF Quiet
  <2> QED
    BY <2>1, <2>2, OriginalSame
<1>2. CASE Fresh
  BY <1>2, OriginalNone DEF Fresh, Pristine, NoOriginal
<1>3. CASE RowImported \/ RowDeleted
  <2>1. Orderly /\ panel' = panel /\ original' = original /\ jobs' = jobs
    BY <1>3 DEF RowImported, RowDeleted, Orderly, panelVars
  <2> QED
    BY <2>1, Same, OriginalSame
<1>4. CASE AllStop
  <2>1. Orderly /\ original' = original /\ \A v \in Workers : jobs'[v] = Idle
    BY <1>4 DEF AllStop, Orderly, panelVars
  <2> QED
    BY <2>1, IdleKinds, OriginalNone DEF OriginalInv
<1>5. CASE Reopened
  <2>1. Orderly /\ panel' = panel /\ original' = original /\ jobs' = jobs
    BY <1>5 DEF Reopened, Orderly
  <2> QED
    BY <2>1, Same, OriginalSame
<1>6. ASSUME NEW all \in BOOLEAN, RecoverBegins(all) PROVE OriginalInv'
  <2>1. Orderly /\ panel' = panel /\ original' = original
    BY <1>6 DEF RecoverBegins, Orderly, panelVars
  <2>2. CASE jobs' = jobs
    BY <2>1, <2>2, Same, OriginalSame
  <2>3. CASE jobs' # jobs
    <3>1. AddsJob("recover", RecoverTodo(all)) /\ Alone /\ (all => Restored')
      BY <1>6, <2>1, <2>3 DEF RecoverBegins, Restored
    <3>2. PICK w \in Workers :
            /\ jobs'[w].kind = "recover" /\ jobs'[w].todo = RecoverTodo(all)
            /\ \A v \in Workers \ {w} : jobs'[v] = jobs[v]
      BY <3>1 DEF AddsJob
    <3>3. \A v \in Workers : Restoring(v)' => v = w
      BY <3>1, <3>2, IdleKinds DEF Alone, Busy
    <3>4. Recovering(w)' /\ ~RollingBack(w)'
      BY <3>2 DEF Recovering, RollingBack
    <3>5. "BackupBeforeRecover" \in RecoverTodo(all) => all
      <4> SUFFICES ASSUME ~all PROVE "BackupBeforeRecover" \notin RecoverTodo(all)
        OBVIOUS
      <4>1. /\ row.step \in Later
            /\ RecoverTodo(all) \subseteq Onwards[row.step] \cup RecoverAlways
        BY <1>6, RecoverPlanOK DEF RecoverBegins
      <4>2. "BackupBeforeRecover" \notin Onwards[row.step]
        BY <4>1, FirstSteps DEF Later
      <4> QED
        BY <4>1, <4>2 DEF RecoverAlways
    <3> QED
      <4>1. \A f \in Restorable : original'[f] \in {"none", "before"}
        BY <2>1 DEF OriginalInv
      <4> QED
        BY <2>1, <3>1, <3>2, <3>3, <3>4, <3>5, <4>1, OriginalOne
  <2> QED
    BY <2>2, <2>3
<1>7. CASE RollbackBegins
  <2>1. Orderly /\ panel' = panel /\ original' = original /\ Alone
    BY <1>7 DEF RollbackBegins, Orderly, panelVars
  <2>2. PICK w \in Workers :
          /\ jobs'[w].kind = "rollback" /\ jobs'[w].todo = {"Rollback"}
          /\ \A v \in Workers \ {w} : jobs'[v] = jobs[v]
    BY <1>7 DEF RollbackBegins, AddsJob
  <2>3. \A v \in Workers : Restoring(v)' => v = w
    BY <2>1, <2>2, IdleKinds DEF Alone, Busy
  <2>4. ~Recovering(w)' /\ jobs'[w].todo # {}
    BY <2>2 DEF Recovering
  <2> QED
    <3>1. \A f \in Restorable : original'[f] \in {"none", "before"}
      BY <2>1 DEF OriginalInv
    <3> QED
      BY <2>3, <2>4, <3>1, OriginalOne
<1>8. ASSUME NEW w \in Workers, NEW s \in RecoverNames, RecoverStep(w, s) PROVE OriginalInv'
  <2>1. Orderly /\ Recovering(w) /\ AtStepOf(w, s) /\ StepTaken(w, s) /\ Touches(s)
    BY <1>8 DEF RecoverStep, AtStepOf, Orderly
  <2>2. s = "BackupBeforeRecover" => Restored
    BY <2>1 DEF OriginalInv, AtStepOf
  <2>3. \A f \in Restorable : original'[f] \in {"none", "before"}
    BY <2>1, <2>2 DEF Touches, panelVars, Keep, Overwrite, Restored, OriginalInv
  <2>4. "BackupBeforeRecover" \in jobs[w].todo => panel' = panel
    BY <2>1, CopyFirst DEF Touches, panelVars, Keep
  <2>5. \A v \in Workers : Restoring(v) => v = w
    BY <2>1, IdleKinds DEF OriginalInv
  <2> QED
    <3>1. \A v \in Workers : Restoring(v)' => v = w
      BY <2>1, <2>5, TakenKinds
    <3>2. /\ Recovering(w)' /\ ~RollingBack(w)'
          /\ "BackupBeforeRecover" \in jobs'[w].todo => Restored'
      BY <2>1, <2>4, TakenKinds, IdleKinds DEF OriginalInv, Restored
    <3> QED
      BY <2>3, <3>1, <3>2, OriginalOne
<1>9. ASSUME NEW w \in Workers, NEW s \in RecoverNames, RecoverFails(w, s) PROVE OriginalInv'
  <2>1. /\ Orderly /\ Recovering(w) /\ AtStepOf(w, s) /\ JobGone(w)
        /\ UNCHANGED panelVars \/ Whole(s)
    BY <1>9, SaveIs DEF RecoverFails, AtStepOf, Orderly
  <2>2. s = "BackupBeforeRecover" => Restored
    BY <2>1 DEF OriginalInv, AtStepOf
  <2>3. \A f \in Restorable : original'[f] \in {"none", "before"}
    BY <2>1, <2>2, NamesOfFiles DEF Whole, panelVars, Keep, Overwrite, Restored, OriginalInv
  <2>4. \A v \in Workers : Restoring(v) => v = w
    BY <2>1, IdleKinds DEF OriginalInv
  <2>5. \A v \in Workers : ~Restoring(v)'
    BY <2>1, <2>4, IdleKinds, Same DEF JobGone
  <2> QED
    BY <2>3, <2>5, OriginalNone
<1>10. ASSUME NEW w \in Workers, NEW files \in SUBSET Restorable, RollbackStep(w, files)
       PROVE  OriginalInv'
  <2>1. /\ Orderly /\ RollingBack(w) /\ StepTaken(w, "Rollback") /\ PutBack(files, {})
        /\ jobs[w].todo = {"Rollback"}
        /\ jobs'[w].todo = jobs[w].todo \/ files = Restorable
    BY <1>10 DEF RollbackStep, Orderly
  <2>2. /\ original' = original
        /\ panel' = [f \in Files |-> IF f \in files /\ original[f] # "none"
                                      THEN original[f] ELSE panel[f]]
        /\ \A f \in files \ {"base"} : original[f] # "none"
    BY <2>1 DEF PutBack
  <2>3. jobs'[w].todo = {} => Returned'
    <3> SUFFICES ASSUME jobs'[w].todo = {}, NEW f \in Restorable,
                        f # "base" \/ original["base"] # "none"
                 PROVE  panel'[f] = "before"
      BY <2>2 DEF Returned
    <3>1. files = Restorable
      BY <2>1
    <3>2. original[f] = "before" /\ f \in Files
      BY <2>1, <2>2, <3>1 DEF OriginalInv, Files
    <3> QED
      BY <2>2, <3>1, <3>2
  <2>4. \A v \in Workers : Restoring(v) => v = w
    BY <2>1, IdleKinds DEF OriginalInv
  <2> QED
    <3>1. \A v \in Workers : Restoring(v)' => v = w
      BY <2>1, <2>4, TakenKinds
    <3>2. ~Recovering(w)'
      BY <2>1, TakenKinds, IdleKinds
    <3>3. \A f \in Restorable : original'[f] \in {"none", "before"}
      BY <2>1, <2>2 DEF OriginalInv
    <3> QED
      BY <2>3, <3>1, <3>2, <3>3, OriginalOne
<1>11. ASSUME NEW w \in Workers, RollbackFails(w) PROVE OriginalInv'
  <2>1. Orderly /\ RollingBack(w) /\ JobGone(w) /\ original' = original
    BY <1>11, SaveIs DEF RollbackFails, Orderly, panelVars
  <2>2. \A v \in Workers : ~Restoring(v)'
    BY <2>1, IdleKinds, Same DEF JobGone, OriginalInv
  <2> QED
    BY <2>1, <2>2, OriginalNone DEF OriginalInv
<1>12. ASSUME NEW w \in Workers, RollbackEnds(w) PROVE OriginalInv'
  <2>1. /\ RollingBack(w) /\ JobGone(w) /\ original' = NoOriginal /\ panel' = panel
        /\ Orderly \/ AllBack(w)
    BY <1>12, SaveIs DEF RollbackEnds, Orderly
  <2>2. \A v \in Workers : ~Restoring(v)'
    BY <2>1, IdleKinds, Same DEF JobGone, OriginalInv, AllBack, Busy
  <2> QED
    BY <2>1, <2>2, OriginalNone DEF NoOriginal
<1> QED
  BY <1>1, <1>2, <1>3, <1>4, <1>5, <1>6, <1>7, <1>8, <1>9, <1>10, <1>11, <1>12, Cases
     DEF RestoreStep

\* The invariant of the copy holds in every reachable state.
THEOREM OriginalInvariant == Spec => []OriginalInv
BY TypeInvariant, OriginalInit, OriginalStep, PTL DEF Spec

\* A rollback that ends well has every file back as it was but for 1panel-core, whatever
\* failed or crashed before it, unless the copy was cut short before the single files, a
\* copy missed files, or a recovery was started over or ran beside it.
THEOREM RollbackRestoresHolds == Spec => RollbackRestores
<1>1. OriginalInv => [\A w \in Workers :
         /\ RollbackSucceeds(w) /\ original["base"] # "none"
         /\ history \cap {"anew", "beside", "skipped"} = {}
         => Restored']_vars
  <2> SUFFICES ASSUME OriginalInv, NEW w \in Workers, RollbackSucceeds(w),
                      original["base"] # "none",
                      history \cap {"anew", "beside", "skipped"} = {}
               PROVE  Restored'
    OBVIOUS
  <2>1. RollingBack(w) /\ jobs[w].todo = {} /\ panel' = panel
    BY DEF RollbackSucceeds, Completes, RollingBack
  <2>2. Returned
    BY <2>1 DEF OriginalInv, Orderly
  <2> QED
    BY <2>1, <2>2 DEF Restored, Returned
<1> QED
  BY <1>1, OriginalInvariant, PTL DEF RollbackRestores

-----------------------------------------------------------------------------
(* The steps as the proofs about a creation see them. *)

\* The parts of the snapshot, and the creations, stay.
SnapKept == UNCHANGED <<work, archive, remote>>
CreatesSame == \A v \in Workers : Creating(v) \/ Creating(v)' => jobs'[v] = jobs[v]

\* Nothing that a creation depends on.
CreateQuiet ==
    /\ SnapKept /\ CreatesSame /\ up' = up
    /\ row'.id = row.id /\ row'.status = row.status
    /\ history \subseteq history' \cup {"anew", "beside", "halfBack", "killed", "skipped"}

\* A creation is asked for, and may find no task that takes it.
CreateStarts ==
    /\ \A w \in Workers : jobs[w] = Idle
    /\ row'.status = "Waiting"
    /\ \/ \E w \in Workers : /\ Creating(w)' /\ jobs'[w].todo = CreateNames
                             /\ jobs'[w].id = row'.id
                             /\ \A v \in Workers \ {w} : jobs'[v] = Idle
       \/ jobs' = jobs /\ "taskless" \in history'

\* The creation that failed is taken up at its step; what it misses from the folder that a
\* new process has cleaned up is a gap.
CreateStartsAgain ==
    LET plan == Plan(CreateSteps, CreateAlways, row.step) IN
    /\ row.status = "Failed" /\ row'.status = "Waiting" /\ row'.id = row.id
    /\ SnapKept /\ AddsJob("create", plan)
    /\ history' = IF Misses(plan) THEN history \cup {"gap"} ELSE history \ {"gap"}

\* A creation does a step.
CreateStep(w, s) ==
    /\ Creating(w) /\ s \in jobs[w].todo /\ jobs[w].todo \subseteq Onwards[s]
    /\ StepTaken(w, s) /\ jobs'[w].todo = jobs[w].todo \ {s}
    /\ UNCHANGED <<up, row, history>>
    /\ s \in PartSteps => work' = work \cup {PartOf(s)} /\ UNCHANGED <<archive, remote>>
    /\ s = "SnapCompress" => archive' = work
    /\ s = "SnapUpload" => remote' = archive
    /\ s = "SnapCloseDBConn" => SnapKept

\* A step of a creation ends well without its part.
CreateMisses(w, s) ==
    /\ Creating(w) /\ s \in jobs[w].todo /\ StepTaken(w, s)
    /\ jobs'[w].todo = jobs[w].todo \ {s}
    /\ UNCHANGED <<up, row>> /\ history' = history \cup {"gap"}

\* A creation saves this status, if its row is still there and the update is not lost.
Settles(w, status) ==
    \/ /\ history' = history
       /\ IF row.id = jobs[w].id THEN row'.id = row.id /\ row'.status = status ELSE row' = row
    \/ row' = row /\ history' = history \cup {"taskless"}

\* A creation fails.
CreateFails(w) == Creating(w) /\ JobGone(w) /\ up' = up /\ Settles(w, "Failed")

\* A creation ends well.
CreateEnds(w) ==
    /\ Creating(w) /\ jobs[w].todo = {} /\ JobGone(w) /\ UNCHANGED <<up, remote>>
    /\ Settles(w, "Success")

\* A task that is not there creates nothing.
LEMMA NoneCreates == \A w \in Workers : jobs'[w] = Idle => ~Creating(w)'
BY IdleIs DEF Creating

\* A request to create is seen as CreateStarts.
LEMMA CreateStartsIs == TypeInv /\ BeginCreate => CreateStarts
<1> SUFFICES ASSUME TypeInv, BeginCreate PROVE CreateStarts
  OBVIOUS
<1>1. PICK id \in NewIds :
        /\ row' = [NoRow EXCEPT !.id = id, !.status = "Waiting"]
        /\ \/ \E kind \in {"create", "cronjob"} :
                 Begin(kind, Plan(CreateSteps, CreateAlways, ""), id)
           \/ "taskless" \in history' /\ UNCHANGED jobs
  BY DEF BeginCreate
<1>2. row'.status = "Waiting" /\ row'.id = id /\ id \in 0..MaxRows
  <2>1. row'.status = "Waiting" /\ row'.id = id
    BY <1>1 DEF NoRow
  <2>2. id \in 1..MaxRows
    BY DEF NewIds
  <2> QED
    BY <2>1, <2>2
<1>3. \A w \in Workers : jobs[w] = Idle
  BY DEF BeginCreate, TypeInv, JobOK, Busy
<1>4. CASE \E kind \in {"create", "cronjob"} :
              Begin(kind, Plan(CreateSteps, CreateAlways, ""), id)
  <2>1. PICK kind \in {"create", "cronjob"} : Begin(kind, CreateNames, id)
    BY <1>4, CreatePlan
  <2>2. CreateNames \in SUBSET Steps /\ TypeOK
    BY Apart DEF TypeInv
  <2>3. PICK w \in Workers : /\ jobs'[w] = [kind |-> kind, todo |-> CreateNames, id |-> id]
                             /\ \A v \in Workers \ {w} : jobs'[v] = jobs[v]
    BY <2>1, <2>2, <1>2, BeginIs
  <2>4. Creating(w)' /\ jobs'[w].todo = CreateNames /\ jobs'[w].id = row'.id
    BY <1>2, <2>3 DEF Creating
  <2> QED
    BY <1>2, <1>3, <2>3, <2>4 DEF CreateStarts
<1> QED
  BY <1>1, <1>2, <1>3, <1>4 DEF CreateStarts

\* A request to create again is seen as CreateStartsAgain.
LEMMA CreateStartsAgainIs == TypeInv /\ BeginReCreate => CreateStartsAgain
<1> SUFFICES ASSUME TypeInv, BeginReCreate PROVE CreateStartsAgain
  OBVIOUS
<1> DEFINE plan == Plan(CreateSteps, CreateAlways, row.step)
<1>1. /\ row.status = "Failed" /\ Accept /\ Begin("create", plan, row.id)
      /\ row' = [row EXCEPT !.status = "Waiting"]
      /\ history' = IF Misses(plan) THEN history \cup {"gap"} ELSE history \ {"gap"}
  BY DEF BeginReCreate
<1>2. row \in RowType /\ TypeOK
  BY DEF TypeInv, TypeOK
<1>3. row'.status = "Waiting" /\ row'.id = row.id /\ row.id \in 0..MaxRows
  BY <1>1, <1>2 DEF RowType
<1>4. plan \in SUBSET Steps
  BY CreatePlan, Apart
<1>5. SnapKept
  BY <1>1, AcceptIs DEF SnapKept
<1> HIDE DEF plan
<1>6. PICK w \in Workers : /\ jobs[w] = Idle
                           /\ jobs'[w] = [kind |-> "create", todo |-> plan, id |-> row.id]
                           /\ \A v \in Workers \ {w} : jobs'[v] = jobs[v]
  BY <1>1, <1>2, <1>3, <1>4, BeginIs
<1>7. AddsJob("create", plan)
  BY <1>6 DEF AddsJob
<1> QED
  BY <1>1, <1>3, <1>5, <1>7 DEF CreateStartsAgain, plan

\* A step, whole or half, is one of a creation, or nothing to it, or puts a row back.
LEMMA CreateStepIs ==
    ASSUME TypeInv, NEW w \in Workers, StepGoesOn(w) \/ StepDone(w)
    PROVE  \/ \E s \in CreateNames : CreateStep(w, s)
           \/ CreateQuiet
           \/ /\ SnapKept /\ CreatesSame
              /\ \E files \in SUBSET Restorable : RollbackStep(w, files)
<1>1. CASE StepGoesOn(w)
  <2>1. /\ UNCHANGED <<up, jobs, history>>
        /\ \E s \in jobs[w].todo :
              \/ HalfEffect(s) /\ UNCHANGED row
              \/ s = "Rollback" /\ \E files \in PutBackSoFar : PutBack(files, {})
    BY <1>1 DEF StepGoesOn
  <2>2. SnapKept
    BY <2>1, AtStep, HalfTouches DEF SnapKept, PutBack, temporary
  <2>3. CASE UNCHANGED row
    BY <2>1, <2>2, <2>3 DEF CreateQuiet, CreatesSame
  <2>4. CASE row' # row
    <3>1. \E files \in SUBSET Restorable : RollbackStep(w, files)
      BY <1>1, <2>4, StepGoesOnIs DEF RecoverStep
    <3> QED
      BY <2>1, <2>2, <3>1 DEF CreatesSame
  <2> QED
    BY <2>3, <2>4
<1>2. CASE StepDone(w)
  <2>1. PICK s \in jobs[w].todo :
          /\ jobs[w].todo \subseteq Onwards[s]
          /\ \/ s # "Rollback" /\ Effect(s) /\ UNCHANGED row
             \/ s = "Rollback" /\ PutBack(Restorable, {})
          /\ jobs' = [jobs EXCEPT ![w].todo = @ \ {s}]
          /\ UNCHANGED <<up, history>>
    BY <1>2 DEF StepDone, At
  <2>2. StepTaken(w, s) /\ jobs'[w].todo = jobs[w].todo \ {s}
    BY <2>1, DoneIs
  <2>3. CASE s \in CreateNames
    <3>1. Creating(w) /\ UNCHANGED row /\ Effect(s)
      BY <2>1, <2>3, AtStep, Apart
    <3>2. /\ s \in PartSteps => work' = work \cup {PartOf(s)} /\ UNCHANGED <<archive, remote>>
          /\ s = "SnapCompress" => archive' = work
          /\ s = "SnapUpload" => remote' = archive
          /\ s = "SnapCloseDBConn" => SnapKept
      BY <2>3, <3>1, EffectIs DEF SnapKept
    <3>3. CreateStep(w, s)
      BY <2>1, <2>2, <3>1, <3>2 DEF CreateStep
    <3> QED
      BY <2>3, <3>3
  <2>4. CASE s \notin CreateNames
    <3>1. CreatesSame
      <4>1. ~Creating(w) /\ ~Creating(w)'
        BY <2>2, <2>4, AtStep DEF StepTaken, Creating
      <4> QED
        BY <2>2, <4>1 DEF StepTaken, CreatesSame
    <3>2. CASE s \in RecoverNames
      <4>1. UNCHANGED row /\ Effect(s)
        BY <2>1, <3>2, Apart
      <4>2. SnapKept
        BY <3>2, <4>1, EffectIs DEF SnapKept
      <4> QED
        BY <2>1, <3>1, <4>1, <4>2 DEF CreateQuiet
    <3>3. CASE s = "Rollback"
      <4>1. SnapKept
        BY <2>1, <3>3 DEF PutBack, SnapKept, temporary
      <4>2. RollbackStep(w, Restorable)
        BY <2>1, <2>2, <3>3, TodoOfRollback DEF RollbackStep
      <4>3. Restorable \in SUBSET Restorable
        OBVIOUS
      <4> QED
        BY <3>1, <4>1, <4>2, <4>3
    <3> QED
      BY <2>4, <3>2, <3>3, AtStep, Apart
  <2> QED
    BY <2>3, <2>4
<1> QED
  BY <1>1, <1>2

\* So is a step that misses something.
LEMMA CreateMissesIs ==
    ASSUME TypeInv, NEW w \in Workers, StepMisses(w)
    PROVE  \/ \E s \in PartSteps : CreateMisses(w, s)
           \/ CreateQuiet
           \/ /\ SnapKept /\ CreatesSame
              /\ \E files \in SUBSET Restorable : RollbackStep(w, files)
<1>1. PICK s \in jobs[w].todo :
        /\ jobs[w].todo \subseteq Onwards[s] /\ StepTaken(w, s)
        /\ jobs'[w].todo = jobs[w].todo \ {s} /\ UNCHANGED <<up, tasks, crashes>>
        /\ \/ /\ s \in PartSteps /\ work' = work \ {PartOf(s)}
              /\ history' = history \cup {"gap"}
              /\ UNCHANGED <<row, archive, remote, fetched>> /\ UNCHANGED panelVars
           \/ /\ s \in RecoverNames /\ MissesFiles(s)
              /\ history' = history \cup {"skipped"}
              /\ UNCHANGED <<row, work, archive, remote, fetched>>
           \/ /\ s = "Rollback" /\ history' = history \cup {"skipped"}
              /\ \E missed \in SUBSET Restorable : PutBack(Restorable, missed)
  BY MissesIs
<1>2. ASSUME s \in PartSteps, history' = history \cup {"gap"}, row' = row
      PROVE  CreateMisses(w, s)
  BY <1>1, <1>2, AtStep, NamesOfFiles DEF CreateMisses
<1>3. s \notin CreateNames => CreatesSame
  <2>1. s \notin CreateNames => ~Creating(w) /\ ~Creating(w)'
    BY <1>1, AtStep DEF StepTaken, Creating
  <2> QED
    BY <1>1, <2>1 DEF StepTaken, CreatesSame
<1>4. ASSUME s \in RecoverNames, history' = history \cup {"skipped"},
             UNCHANGED <<row, work, archive, remote, fetched>>
      PROVE  CreateQuiet
  BY <1>1, <1>3, <1>4, Apart DEF CreateQuiet, SnapKept
<1>5. ASSUME s = "Rollback", history' = history \cup {"skipped"},
             \E missed \in SUBSET Restorable : PutBack(Restorable, missed)
      PROVE  SnapKept /\ CreatesSame /\ RollbackStep(w, Restorable)
  <2>1. SnapKept
    BY <1>5 DEF PutBack, SnapKept, temporary
  <2>2. RollbackStep(w, Restorable)
    BY <1>1, <1>5, TodoOfRollback DEF RollbackStep
  <2> QED
    BY <1>3, <1>5, <2>1, <2>2, Apart
<1>6. Restorable \in SUBSET Restorable
  OBVIOUS
<1> QED
  BY <1>1, <1>2, <1>4, <1>5, <1>6

\* What a creation saves at its end settles its row, or is lost.
LEMMA SettlesIs ==
    ASSUME NEW w \in Workers, ~Restoring(w), NEW status, NEW new, new.id = row.id,
           new.status = status, Save(w, new, history)
    PROVE  Settles(w, status)
BY SaveIs DEF Settles

\* A step that fails ends a creation or is nothing to it.
LEMMA CreateFailsIs ==
    ASSUME TypeInv, NEW w \in Workers, StepFails(w)
    PROVE  CreateFails(w) \/ CreateQuiet
<1>1. PICK s \in jobs[w].todo :
        /\ \/ jobs[w].kind = "cronjob" /\ CleanUp
           \/ UNCHANGED disk
           \/ jobs[w].kind \in {"create", "recover"} /\ Effect(s)
        /\ Save(w, FailedRow(jobs[w].kind, s),
                history \cup IF jobs[w].kind = "rollback" THEN {"halfBack"} ELSE {})
        /\ Ends(w)
        /\ up' = up
  BY DEF StepFails
<1>2. JobGone(w) /\ TypeOK /\ row \in RowType
  BY <1>1, EndsIs DEF JobGone, TypeInv, TypeOK
<1>3. CASE Creating(w)
  <2>1. FailedRow(jobs[w].kind, s) = [row EXCEPT !.status = "Failed", !.step = s]
    BY <1>3 DEF FailedRow, Creating
  <2>2. Save(w, [row EXCEPT !.status = "Failed", !.step = s], history) /\ ~Restoring(w)
    BY <1>1, <1>2, <1>3, <2>1, KindIs DEF Creating
  <2> DEFINE new == [row EXCEPT !.status = "Failed", !.step = s]
  <2>4. new.id = row.id /\ new.status = "Failed"
    BY <1>2 DEF RowType
  <2> HIDE DEF new
  <2>3. Settles(w, "Failed")
    BY <2>2, <2>4, SettlesIs DEF new
  <2> QED
    BY <1>1, <1>2, <1>3, <2>3 DEF CreateFails
<1>4. CASE ~Creating(w)
  <2>1. Recovering(w) \/ RollingBack(w)
    BY <1>4, AtStep DEF Creating, Recovering, RollingBack
  <2>2. CreatesSame
    BY <1>2, <1>4, NoneCreates DEF JobGone, CreatesSame
  <2>3. SnapKept
    <3>1. CASE UNCHANGED disk
      BY <3>1 DEF disk, temporary, SnapKept
    <3>2. CASE Recovering(w) /\ Effect(s)
      <4>1. s \in RecoverNames
        BY <3>2, AtStep
      <4> QED
        BY <3>2, <4>1, EffectIs DEF SnapKept
    <3> QED
      BY <1>1, <2>1, <3>1, <3>2 DEF Recovering, RollingBack
  <2>4. row'.id = row.id /\ row'.status = row.status
    <3>1. row.id = jobs[w].id => FailedRow(jobs[w].kind, s).id = row.id
                                 /\ FailedRow(jobs[w].kind, s).status = row.status
      BY <2>1, FailedRowOK DEF Restoring
    <3> QED
      BY <1>1, <3>1, SaveIs
  <2>5. history \subseteq history'
    BY <1>1, SaveIs
  <2> QED
    BY <1>1, <2>2, <2>3, <2>4, <2>5 DEF CreateQuiet
<1> QED
  BY <1>3, <1>4

\* The end of a creation is seen as CreateEnds.
LEMMA CreateEndsIs ==
    ASSUME TypeInv, NEW w \in Workers, CreateSucceeds(w)
    PROVE  CreateEnds(w)
<1>1. /\ Creating(w) /\ jobs[w].todo = {} /\ Ends(w) /\ TypeOK /\ row \in RowType
      /\ Save(w, [row EXCEPT !.status = "Success", !.step = ""], history)
      /\ UNCHANGED <<up, remote>>
  BY DEF CreateSucceeds, Completes, StepAfterSuccess, Creating, TypeInv, TypeOK
<1>2. JobGone(w)
  BY <1>1, EndsIs DEF JobGone
<1> DEFINE new == [row EXCEPT !.status = "Success", !.step = ""]
<1>4. new.id = row.id /\ new.status = "Success"
  BY <1>1 DEF RowType
<1>5. Save(w, new, history) /\ ~Restoring(w)
  BY <1>1, KindIs
<1> HIDE DEF new
<1>3. Settles(w, "Success")
  BY <1>4, <1>5, SettlesIs
<1> QED
  BY <1>1, <1>2, <1>3 DEF CreateEnds

\* The end of a rollback is nothing to a creation.
LEMMA RollbackSeen ==
    ASSUME TypeInv, NEW w \in Workers, RollbackSucceeds(w)
    PROVE  CreateQuiet
<1>1. RollbackEnds(w) /\ SnapKept /\ row \in RowType
  BY RollbackSucceedsIs DEF RollbackSucceeds, temporary, SnapKept, TypeInv, TypeOK
<1>2. ~Creating(w) /\ JobGone(w) /\ up' = up
  BY <1>1, KindIs DEF RollbackEnds, TypeInv, Restoring
<1>3. CreatesSame
  BY <1>2, NoneCreates DEF JobGone, CreatesSame
<1>4. row'.id = row.id /\ row'.status = row.status
  BY <1>1, SaveIs DEF RollbackEnds, RowType
<1>5. history \subseteq history' \cup {"anew", "beside", "halfBack", "killed", "skipped"}
  BY <1>1, SaveIs DEF RollbackEnds
<1> QED
  BY <1>1, <1>2, <1>3, <1>4, <1>5 DEF CreateQuiet

\* Nor is a request to recover or to roll back.
LEMMA RecoverSeen == TypeInv /\ (BeginRecover \/ BeginRollback) => CreateQuiet
<1> SUFFICES ASSUME TypeInv, BeginRecover \/ BeginRollback PROVE CreateQuiet
  OBVIOUS
<1>1. SnapKept /\ row \in RowType
  BY AcceptIs DEF BeginRecover, BeginRollback, SnapKept, TypeInv, TypeOK
<1>2. /\ up' = up /\ history \subseteq history'
      /\ row' = row \/ row' = [row EXCEPT !.recover = "Waiting"]
      /\ \/ jobs' = jobs
         \/ \E kind \in {"recover", "rollback"} : \E todo : AddsJob(kind, todo)
  <2>1. CASE BeginRecover
    BY <2>1, RecoverBeginIs DEF RecoverBegins
  <2>2. CASE BeginRollback
    BY <2>2, RollbackBeginIs DEF RollbackBegins
  <2> QED
    BY <2>1, <2>2
<1>3. CreatesSame
  <2>1. CASE jobs' = jobs
    BY <2>1 DEF CreatesSame
  <2>2. ASSUME NEW kind \in {"recover", "rollback"}, NEW todo, AddsJob(kind, todo)
        PROVE  CreatesSame
    BY <2>2, IdleIs DEF AddsJob, CreatesSame, Creating
  <2> QED
    BY <1>2, <2>1, <2>2
<1>4. row'.id = row.id /\ row'.status = row.status
  BY <1>1, <1>2 DEF RowType
<1> QED
  BY <1>1, <1>2, <1>3, <1>4 DEF CreateQuiet

\* Something that a creation does, or that a rollback does beside it.
CreateCase(w) ==
    \/ \E s \in CreateNames : CreateStep(w, s)
    \/ \E s \in PartSteps : CreateMisses(w, s)
    \/ CreateFails(w) \/ CreateEnds(w)
    \/ SnapKept /\ CreatesSame /\ \E files \in SUBSET Restorable : RollbackStep(w, files)

\* Every step is one of those views.
LEMMA CreateCases ==
    ASSUME TypeInv, [Next]_vars
    PROVE  \/ CreateQuiet \/ CreateStarts \/ CreateStartsAgain
           \/ RowImported \/ RowDeleted
           \/ AllStop /\ remote' = remote
           \/ Reopened /\ SnapKept
           \/ \E w \in Workers : CreateCase(w)
<1>1. CASE UNCHANGED vars
  <2>1. UNCHANGED <<up, row, history, jobs>> /\ SnapKept
    BY <1>1 DEF vars, SnapKept
  <2> QED
    BY <2>1 DEF CreateQuiet, CreatesSame
<1>2. CASE Next
  <2>1. CASE BeginCreate \/ BeginReCreate
    BY <2>1, CreateStartsIs, CreateStartsAgainIs
  <2>2. CASE BeginRecover \/ BeginRollback
    BY <2>2, RecoverSeen
  <2>3. CASE Import \/ Delete
    BY <2>3, ImportIs, DeleteIs
  <2>4. CASE Restart
    BY <2>4, RestartIs DEF Restart, temporary, SnapKept
  <2>5. ASSUME NEW w \in Workers,
               \/ StepGoesOn(w) \/ StepDone(w) \/ StepMisses(w) \/ StepFails(w)
               \/ CreateSucceeds(w) \/ RollbackSucceeds(w)
        PROVE  CreateQuiet \/ CreateCase(w)
    <3>1. CASE StepGoesOn(w) \/ StepDone(w)
      BY <3>1, CreateStepIs DEF CreateCase
    <3>2. CASE StepFails(w)
      BY <3>2, CreateFailsIs DEF CreateCase
    <3>3. CASE CreateSucceeds(w)
      BY <3>3, CreateEndsIs DEF CreateCase
    <3>4. CASE RollbackSucceeds(w)
      BY <3>4, RollbackSeen
    <3>5. CASE StepMisses(w)
      BY <3>5, CreateMissesIs DEF CreateCase
    <3> QED
      BY <2>5, <3>1, <3>2, <3>3, <3>4, <3>5
  <2>6. CASE \E w \in Workers : \/ StepGoesOn(w) \/ StepDone(w) \/ StepMisses(w)
                                \/ StepFails(w) \/ CreateSucceeds(w) \/ RollbackSucceeds(w)
    BY <2>5, <2>6
  <2>7. CASE Crash \/ \E w \in Workers : RecoverSucceeds(w)
    <3>1. remote' = remote
      BY <2>7 DEF Crash, RecoverSucceeds, disk, temporary
    <3> QED
      BY <2>7, <3>1, AllStopIs
  <2> QED
    BY <1>2, <2>1, <2>2, <2>3, <2>4, <2>6, <2>7 DEF Next
<1> QED
  BY <1>1, <1>2

-----------------------------------------------------------------------------
(* The row that a task works for. *)

\* A recovery that has made its copy, and when the way back depends on one.
Copied(w) == Recovering(w) /\ "BackupBeforeRecover" \notin jobs[w].todo
PastCopy ==
    \/ row.step \in Later \/ row.rollback # ""
    \/ \E w \in Workers : Copied(w) \/ RollingBack(w)

\* The invariant of the ids: while no row in use was deleted, what restores has the row of
\* the panel, and so has the copy that it made.
IdsInv == "forgotten" \notin history =>
    /\ \A w \in Workers : Restoring(w) => jobs[w].id = row.id
    /\ PastCopy /\ ~dbGone => kept.id = row.id

\* What the last update of a task adds to the causes.
LEMMA SavedCauses ==
    ASSUME NEW w \in Workers, NEW new, NEW causes, Save(w, new, causes)
    PROVE  causes \subseteq history' /\ history' \subseteq causes \cup {"taskless", "unsaved"}
BY DEF Save

\* What a step of a recovery may do to the copies of the row.
LEMMA CopyOfRow ==
    ASSUME NEW s \in RecoverNames, Changes(s) \/ UNCHANGED panelVars \/ Whole(s)
    PROVE  /\ ~dbGone' => ~dbGone /\ kept' \in {kept, row}
           /\ s # "BackupBeforeRecover" => kept' = kept
<1>1. CASE UNCHANGED panelVars
  BY <1>1 DEF panelVars
<1>2. CASE /\ s = "BackupBeforeRecover"
           /\ \E files, missed \in SUBSET Restorable : Keep(files, missed)
  BY <1>2 DEF Keep, RowOnDisk, db
<1>3. CASE /\ s # "BackupBeforeRecover"
           /\ \E state \in {"mixed", "after"} : Overwrite(FilesOf(s), state)
  BY <1>3 DEF Overwrite
<1>4. s = "BackupBeforeRecover" => FilesOf(s) = {}
  BY NamesOfFiles
<1>5. {} \in SUBSET Restorable /\ Findable \in SUBSET Restorable
  BY DEF Findable
<1>6. SUBSET Findable \subseteq SUBSET Restorable
  BY <1>5
<1> DEFINE Copies == /\ s = "BackupBeforeRecover"
                     /\ \E files, missed \in SUBSET Restorable : Keep(files, missed)
           Writes == /\ s # "BackupBeforeRecover"
                     /\ \E state \in {"mixed", "after"} : Overwrite(FilesOf(s), state)
<1>7. Touches(s) \/ Whole(s) => UNCHANGED panelVars \/ Copies \/ Writes
  BY <1>4, <1>5 DEF Touches, Whole
<1>8. MissesFiles(s) => Copies \/ Writes
  BY <1>4, <1>5, <1>6 DEF MissesFiles
<1> QED
  BY <1>1, <1>2, <1>3, <1>7, <1>8 DEF Changes

\* A recovery at a later step has its copy.
LEMMA CopiedIs ==
    ASSUME NEW w \in Workers, NEW s \in RecoverNames, AtStepOf(w, s)
    PROVE  /\ s \in Later => Copied(w)
           /\ s \in BeforeChange \/ s \in Later
BY CopyFirst DEF Copied, AtStepOf, Later

\* The invariant of the ids holds at the start.
LEMMA IdsInit == Init => IdsInv
<1> SUFFICES ASSUME Init PROVE IdsInv
  OBVIOUS
<1>1. \A w \in Workers : ~Restoring(w) /\ ~Recovering(w) /\ ~RollingBack(w)
  BY IdleKinds DEF Init
<1>2. row.step \notin Later /\ row.rollback = ""
  BY DEF Init, NoRow, Later, RecoverNames
<1> QED
  BY <1>1, <1>2 DEF IdsInv, PastCopy, Copied

\* When nothing is restored and the row tells of no recovery, there is nothing to say.
LEMMA IdsNone ==
    ASSUME \A w \in Workers : ~Restoring(w)',
           row'.step \in Later \/ row'.rollback # "" => dbGone' \/ kept'.id = row'.id
    PROVE  IdsInv'
<1>1. \A w \in Workers : ~Recovering(w)' /\ ~RollingBack(w)'
  BY IdleKinds
<1> QED
  BY <1>1 DEF IdsInv, PastCopy, Copied

\* What is left by one task.
LEMMA IdsOne ==
    ASSUME IdsInv, "forgotten" \notin history, NEW w \in Workers, row'.id = row.id,
           \A v \in Workers \ {w} : jobs'[v] = jobs[v],
           Restoring(w)' => jobs'[w].id = row'.id,
           \/ dbGone'
           \/ kept'.id = row'.id
           \/ /\ ~dbGone /\ kept' = kept
              /\ Recovering(w)' \/ RollingBack(w)' \/ row'.step \in Later \/ row'.rollback # ""
                     => PastCopy \/ (Recovering(w)' /\ "BackupBeforeRecover" \in jobs'[w].todo
                                        /\ row'.step \notin Later /\ row'.rollback = "")
    PROVE  IdsInv'
<1>1. \A v \in Workers : Restoring(v)' => jobs'[v].id = row'.id
  BY Same DEF IdsInv
<1>2. CASE dbGone'
  BY <1>1, <1>2 DEF IdsInv
<1>3. CASE kept'.id = row'.id
  BY <1>1, <1>3 DEF IdsInv
<1>4. CASE /\ ~dbGone /\ kept' = kept
           /\ Recovering(w)' \/ RollingBack(w)' \/ row'.step \in Later \/ row'.rollback # ""
                  => PastCopy \/ (Recovering(w)' /\ "BackupBeforeRecover" \in jobs'[w].todo
                                     /\ row'.step \notin Later /\ row'.rollback = "")
  <2>1. PastCopy' => PastCopy
    <3>1. \A v \in Workers \ {w} : /\ Copied(v)' => Copied(v)
                                   /\ RollingBack(v)' => RollingBack(v)
      BY DEF Copied, Recovering, RollingBack
    <3>2. ~(Recovering(w)' /\ RollingBack(w)')
      BY IdleKinds
    <3> QED
      BY <1>4, <3>1, <3>2 DEF PastCopy, Copied
  <2> QED
    BY <1>1, <1>4, <2>1 DEF IdsInv
<1> QED
  BY <1>2, <1>3, <1>4

\* Every step keeps the invariant of the ids.
LEMMA IdsStep == TypeInv /\ IdsInv /\ [Next]_vars => IdsInv'
<1> SUFFICES ASSUME TypeInv, IdsInv, [Next]_vars, "forgotten" \notin history' PROVE IdsInv'
  BY DEF IdsInv
<1>0. row \in RowType /\ RowOK(row) /\ CopiesOK /\ dbGone \in BOOLEAN
  BY DEF TypeInv, TypeOK, RowsOK
<1>1. CASE Quiet
  <2>1. "forgotten" \notin history /\ row' = row /\ kept' = kept /\ dbGone' = dbGone
    BY <1>1 DEF Quiet, panelVars
  <2>2. \A v \in Workers : Restoring(v)' => Restoring(v) /\ jobs'[v] = jobs[v]
    BY <1>1, Same DEF Quiet
  <2>3. PastCopy' => PastCopy
    <3>1. \A v \in Workers : Copied(v)' \/ RollingBack(v)' => Copied(v) \/ RollingBack(v)
      BY <2>2, Same, IdleKinds DEF Copied
    <3> QED
      BY <2>1, <3>1 DEF PastCopy
  <2> QED
    BY <2>1, <2>2, <2>3 DEF IdsInv
<1>2. CASE Fresh
  BY <1>2, IdsNone DEF Fresh, Later
<1>3. CASE RowImported
  <2>1. "forgotten" \notin history /\ row = NoRow /\ jobs' = jobs
    BY <1>3 DEF RowImported
  <2>2. \A w \in Workers : ~Restoring(w)
    BY <2>1, RestoringRow, NoRowTyped DEF IdsInv
  <2>3. \A w \in Workers : ~Restoring(w)'
    BY <2>1, <2>2, Same
  <2>4. row'.step \notin Later /\ row'.rollback = ""
    BY <1>3 DEF RowImported, Later, RecoverNames
  <2> QED
    BY <2>3, <2>4, IdsNone
<1>4. CASE RowDeleted
  <2>1. \A w \in Workers : ~Restoring(w)'
    BY <1>4, IdleKinds DEF RowDeleted, Alone, Busy
  <2>2. row'.step \notin Later /\ row'.rollback = ""
    BY <1>4 DEF RowDeleted, NoRow, Later, RecoverNames
  <2> QED
    BY <2>1, <2>2, IdsNone
<1>5. CASE AllStop
  <2>1. /\ "forgotten" \notin history /\ row' = row /\ kept' = kept /\ dbGone' = dbGone
        /\ \A w \in Workers : ~Restoring(w)'
    BY <1>5, IdleKinds DEF AllStop, panelVars
  <2> QED
    BY <1>0, <2>1, IdsNone DEF IdsInv, PastCopy
<1>6. CASE Reopened
  <2>1. /\ "forgotten" \notin history /\ kept' = kept /\ \A w \in Workers : ~Restoring(w)'
        /\ row'.id = RowOnDisk.id /\ row'.step = RowOnDisk.step
        /\ row'.rollback = RowOnDisk.rollback
    BY <1>6, IdleKinds DEF Reopened, Alone, Busy
  <2>2. CASE dbGone
    <3>1. CASE file = NoRow
      <4>1. row'.step \notin Later /\ row'.rollback = ""
        BY <2>1, <2>2, <3>1 DEF RowOnDisk, NoRow, Later, RecoverNames
      <4> QED
        BY <2>1, <4>1, IdsNone
    <3>2. CASE file = kept
      BY <2>1, <2>2, <3>2, IdsNone DEF RowOnDisk
    <3> QED
      BY <1>0, <3>1, <3>2 DEF CopiesOK
  <2>3. CASE ~dbGone
    <3>1. row'.step \in Later \/ row'.rollback # "" => kept'.id = row'.id
      BY <2>1, <2>3 DEF RowOnDisk, IdsInv, PastCopy
    <3> QED
      BY <2>1, <3>1, IdsNone
  <2> QED
    BY <1>0, <2>2, <2>3
<1>7. ASSUME NEW all \in BOOLEAN, RecoverBegins(all) PROVE IdsInv'
  <2>1. /\ "forgotten" \notin history /\ kept' = kept /\ dbGone' = dbGone
        /\ row' = [row EXCEPT !.recover = "Waiting"]
    BY <1>7 DEF RecoverBegins, panelVars
  <2>2. row'.id = row.id /\ row'.step = row.step /\ row'.rollback = row.rollback
    BY <1>0, <2>1 DEF RowType
  <2>3. CASE jobs' = jobs
    <3>1. PastCopy' => PastCopy
      BY <2>2, <2>3 DEF PastCopy, Copied, Recovering, RollingBack
    <3> QED
      BY <2>1, <2>2, <2>3, <3>1, Same DEF IdsInv
  <2>4. CASE jobs' # jobs
    <3>1. PICK w \in Workers :
            /\ jobs'[w].kind = "recover" /\ jobs'[w].todo = RecoverTodo(all)
            /\ jobs'[w].id = row.id
            /\ \A v \in Workers \ {w} : jobs'[v] = jobs[v]
      BY <1>7, <2>4 DEF RecoverBegins, AddsJob
    <3>2. Recovering(w)' /\ ~RollingBack(w)'
      BY <3>1 DEF Recovering, RollingBack
    <3>3. row.step \in Later \/ row.rollback # "" => PastCopy
      BY DEF PastCopy
    <3>4. ~all => row.step \in Later
      BY <1>7, RecoverPlanOK DEF RecoverBegins
    <3>5. all => "BackupBeforeRecover" \in RecoverTodo(all)
      BY <1>7, RecoverPlanOK DEF RecoverBegins, RecoverNames
    <3> QED
      BY <1>0, <2>1, <2>2, <3>1, <3>2, <3>3, <3>4, <3>5, IdsOne
  <2> QED
    BY <2>3, <2>4
<1>8. CASE RollbackBegins
  <2>1. /\ "forgotten" \notin history /\ kept' = kept /\ dbGone' = dbGone /\ row' = row
        /\ RollbackOffered /\ row.status = "Success"
    BY <1>8 DEF RollbackBegins, panelVars
  <2>2. PastCopy
    BY <1>0, <2>1 DEF RollbackOffered, PastCopy, RowOK, Later
  <2>3. PICK w \in Workers :
          /\ jobs'[w].id = row.id
          /\ \A v \in Workers \ {w} : jobs'[v] = jobs[v]
    BY <1>8 DEF RollbackBegins, AddsJob
  <2> QED
    BY <1>0, <2>1, <2>2, <2>3, IdsOne
<1>9. ASSUME NEW w \in Workers, NEW s \in RecoverNames, RecoverStep(w, s) PROVE IdsInv'
  <2>1. /\ "forgotten" \notin history /\ row' = row /\ AtStepOf(w, s) /\ StepTaken(w, s)
        /\ Changes(s) /\ Recovering(w)
        /\ jobs'[w].todo = jobs[w].todo \/ Whole(s) \/ MissesFiles(s)
    BY <1>9 DEF RecoverStep, AtStepOf
  <2>2. /\ ~dbGone' => ~dbGone /\ kept' \in {kept, row}
        /\ s # "BackupBeforeRecover" => kept' = kept
    BY <2>1, CopyOfRow
  <2>3. Restoring(w)' => jobs'[w].id = row'.id
    BY <2>1, TakenKinds DEF IdsInv
  <2>4. \A v \in Workers \ {w} : jobs'[v] = jobs[v]
    BY <2>1 DEF StepTaken
  <2>5. CASE dbGone' \/ kept' = row
    BY <2>1, <2>3, <2>4, <2>5, IdsOne
  <2>6. CASE ~dbGone' /\ kept' # row
    <3>1. ~dbGone /\ kept' = kept
      BY <2>2, <2>6
    <3>2. ~(s = "BackupBeforeRecover" /\ (Whole(s) \/ MissesFiles(s)))
      BY <2>6, <3>1, NamesOfFiles DEF Whole, MissesFiles, Keep, RowOnDisk, Findable, Restorable
    <3>3. "BackupBeforeRecover" \notin jobs'[w].todo => Copied(w)
      BY <2>1, <3>2 DEF Copied, StepTaken
    <3>4. row.step \in Later \/ row.rollback # "" \/ Copied(w) => PastCopy
      BY DEF PastCopy
    <3>5. Recovering(w)' /\ ~RollingBack(w)'
      BY <2>1, TakenKinds, IdleKinds
    <3> QED
      BY <2>1, <2>3, <2>4, <3>1, <3>3, <3>4, <3>5, IdsOne
  <2> QED
    BY <2>5, <2>6
<1>10. ASSUME NEW w \in Workers, NEW s \in RecoverNames, RecoverFails(w, s) PROVE IdsInv'
  <2>1. /\ "forgotten" \notin history /\ AtStepOf(w, s) /\ JobGone(w)
        /\ UNCHANGED panelVars \/ Whole(s)
        /\ Save(w, [row EXCEPT !.recover = "Failed", !.step = s], history) /\ Recovering(w)
    BY <1>10, SavedCauses DEF RecoverFails, AtStepOf
  <2>3. row'.id = row.id /\ row'.step \in {s, row.step} /\ row'.rollback = row.rollback
    <3>1. row' = [row EXCEPT !.recover = "Failed", !.step = s] \/ row' = row
      BY <2>1, SaveIs
    <3> QED
      BY <1>0, <3>1 DEF RowType
  <2>4. /\ ~dbGone' => ~dbGone /\ kept' \in {kept, row}
        /\ s # "BackupBeforeRecover" => kept' = kept
    BY <2>1, CopyOfRow
  <2>5. (\A v \in Workers \ {w} : jobs'[v] = jobs[v]) /\ ~Restoring(w)'
    BY <2>1, IdleKinds DEF JobGone
  <2>6. s \in Later \/ row.step \in Later \/ row.rollback # "" => PastCopy
    BY <2>1, CopiedIs DEF PastCopy
  <2>7. ~Recovering(w)' /\ ~RollingBack(w)'
    BY <2>5, IdleKinds
  <2> QED
    BY <2>1, <2>3, <2>4, <2>5, <2>6, <2>7, IdsOne
<1>11. ASSUME NEW w \in Workers, NEW files \in SUBSET Restorable, RollbackStep(w, files)
       PROVE  IdsInv'
  <2>1. /\ "forgotten" \notin history /\ RollingBack(w) /\ StepTaken(w, "Rollback")
        /\ kept' = kept /\ dbGone' = dbGone
        /\ row' = row \/ (row' = kept /\ ~dbGone)
    BY <1>11 DEF RollbackStep, PutBack
  <2>2. PastCopy
    BY <2>1 DEF PastCopy
  <2>3. row'.id = row.id
    BY <2>1, <2>2 DEF IdsInv
  <2>4. Restoring(w)' => jobs'[w].id = row'.id
    BY <2>1, <2>3, TakenKinds DEF IdsInv
  <2>5. \A v \in Workers \ {w} : jobs'[v] = jobs[v]
    BY <2>1 DEF StepTaken
  <2> QED
    BY <1>0, <2>1, <2>2, <2>3, <2>4, <2>5, IdsOne
<1>12. ASSUME NEW w \in Workers, RollbackFails(w) \/ RollbackEnds(w) PROVE IdsInv'
  <2>1. /\ "forgotten" \notin history /\ RollingBack(w) /\ JobGone(w)
        /\ kept' = kept /\ dbGone' = dbGone
        /\ \/ row' = row \/ row' = [row EXCEPT !.rollback = "Failed"]
           \/ row' = [row EXCEPT !.recover = "", !.rollback = "", !.step = ""]
    <3>1. CASE RollbackFails(w)
      <4>1. Save(w, [row EXCEPT !.rollback = "Failed"], history \cup {"halfBack"})
        BY <3>1 DEF RollbackFails
      <4>2. /\ history' \in {history \cup {"halfBack"}, history \cup {"halfBack"} \cup
                              {"taskless"} \cup IF Restoring(w) THEN {"unsaved"} ELSE {}}
            /\ row' = row \/ row' = [row EXCEPT !.rollback = "Failed"]
        BY <4>1, SaveIs
      <4> QED
        BY <3>1, <4>2 DEF RollbackFails, panelVars
    <3>2. CASE RollbackEnds(w)
      <4> DEFINE causes == IF AllBack(w)
                           THEN history \ {"anew", "beside", "halfBack", "killed", "skipped"}
                           ELSE history
      <4>1. Save(w, [row EXCEPT !.recover = "", !.rollback = "", !.step = ""], causes)
        BY <3>2 DEF RollbackEnds
      <4>2. "forgotten" \in history => "forgotten" \in causes
        OBVIOUS
      <4> HIDE DEF causes
      <4>3. /\ history' \in {causes, causes \cup
                              {"taskless"} \cup IF Restoring(w) THEN {"unsaved"} ELSE {}}
            /\ row' = row \/ row' = [row EXCEPT !.recover = "", !.rollback = "", !.step = ""]
        BY <4>1, SaveIs
      <4> QED
        BY <3>2, <4>2, <4>3 DEF RollbackEnds
    <3> QED
      BY <1>12, <3>1, <3>2
  <2>2. PastCopy
    BY <2>1 DEF PastCopy
  <2>3. row'.id = row.id
    BY <1>0, <2>1 DEF RowType
  <2>4. (\A v \in Workers \ {w} : jobs'[v] = jobs[v]) /\ ~Restoring(w)'
    BY <2>1, IdleKinds DEF JobGone
  <2> QED
    BY <1>0, <2>1, <2>2, <2>3, <2>4, IdsOne
<1> QED
  BY <1>1, <1>2, <1>3, <1>4, <1>5, <1>6, <1>7, <1>8, <1>9, <1>10, <1>11, <1>12, Cases
     DEF RestoreStep

-----------------------------------------------------------------------------
(* A row that waits has a task. *)

\* The row that is not there waits for nothing.
LEMMA NoRowSays == NoRow.status = "None" /\ NoRow.recover = ""
BY DEF NoRow

\* A row whose recovery is said to wait has a task for it.
RecoverWaits ==
    up /\ row.recover = "Waiting" /\ history \cap {"taskless", "halfBack", "forgotten"} = {}
    => \E w \in Workers : Restoring(w)

\* Every step keeps RecoverWaits.
LEMMA RecoverWaitsStep ==
    TypeInv /\ IdsInv /\ RecoverWaits /\ [Next]_vars => RecoverWaits'
<1> SUFFICES ASSUME TypeInv, IdsInv, RecoverWaits, [Next]_vars, up', row'.recover = "Waiting",
                    history' \cap {"taskless", "halfBack", "forgotten"} = {}
             PROVE  \E w \in Workers : Restoring(w)'
  BY DEF RecoverWaits
<1>0. row \in RowType
  BY DEF TypeInv, TypeOK
<1>1. CASE Quiet
  <2>1. PICK w \in Workers : Restoring(w)
    BY <1>1 DEF Quiet, RecoverWaits
  <2> QED
    BY <1>1, <2>1, Same DEF Quiet
<1>2. ~Fresh /\ ~RowImported /\ ~RowDeleted /\ ~AllStop /\ ~Reopened
  <2>1. ~Fresh
    BY DEF Fresh
  <2>2. ~RowImported
    BY DEF RowImported
  <2>3. ~RowDeleted
    BY NoRowSays DEF RowDeleted
  <2>4. ~AllStop
    BY DEF AllStop
  <2>5. ~Reopened
    BY DEF Reopened
  <2> QED
    BY <2>1, <2>2, <2>3, <2>4, <2>5
<1>3. ASSUME NEW all \in BOOLEAN, RecoverBegins(all)
      PROVE  \E w \in Workers : Restoring(w)'
  <2>1. AddsJob("recover", RecoverTodo(all))
    BY <1>3 DEF RecoverBegins
  <2> QED
    BY <2>1 DEF AddsJob, Restoring, Recovering
<1>4. CASE RollbackBegins
  BY <1>4 DEF RollbackBegins, AddsJob, Restoring, RollingBack
<1>5. ASSUME NEW w \in Workers, NEW s \in RecoverNames, RecoverStep(w, s)
      PROVE  \E v \in Workers : Restoring(v)'
  BY <1>5, TakenKinds, IdleKinds DEF RecoverStep, AtStepOf
<1>6. ASSUME NEW w \in Workers, NEW files \in SUBSET Restorable, RollbackStep(w, files)
      PROVE  \E v \in Workers : Restoring(v)'
  BY <1>6, TakenKinds, IdleKinds DEF RollbackStep
<1>7. ASSUME NEW w \in Workers, NEW s \in RecoverNames, RecoverFails(w, s)
      PROVE  FALSE
  <2>1. /\ Restoring(w) /\ "forgotten" \notin history
        /\ Save(w, [row EXCEPT !.recover = "Failed", !.step = s], history)
    BY <1>7, IdleKinds, SavedCauses DEF RecoverFails, AtStepOf
  <2>2. jobs[w].id = row.id
    BY <2>1 DEF IdsInv
  <2>3. row' = [row EXCEPT !.recover = "Failed", !.step = s]
    BY <2>1, <2>2, SaveIs
  <2> QED
    BY <1>0, <2>3 DEF RowType
<1>8. ASSUME NEW w \in Workers, RollbackFails(w) \/ RollbackEnds(w)
      PROVE  FALSE
  <2>1. CASE RollbackFails(w)
    BY <2>1, SavedCauses DEF RollbackFails
  <2>2. CASE RollbackEnds(w)
    <3> DEFINE causes == IF AllBack(w)
                         THEN history \ {"anew", "beside", "halfBack", "killed", "skipped"}
                         ELSE history
    <3>1. /\ Restoring(w)
          /\ Save(w, [row EXCEPT !.recover = "", !.rollback = "", !.step = ""], causes)
      BY <2>2, IdleKinds DEF RollbackEnds
    <3>2. "forgotten" \notin history
      <4>1. "forgotten" \in history => "forgotten" \in causes
        OBVIOUS
      <4> HIDE DEF causes
      <4> QED
        BY <3>1, <4>1, SavedCauses
    <3>3. jobs[w].id = row.id
      BY <3>1, <3>2 DEF IdsInv
    <3> HIDE DEF causes
    <3>4. row' = [row EXCEPT !.recover = "", !.rollback = "", !.step = ""]
      BY <3>1, <3>3, SaveIs
    <3> QED
      BY <1>0, <3>4 DEF RowType
  <2> QED
    BY <1>8, <2>1, <2>2
<1> QED
  BY <1>1, <1>2, <1>3, <1>4, <1>5, <1>6, <1>7, <1>8, Cases DEF RestoreStep

\* A row whose creation is said to wait has its task.
CreateWaits ==
    up /\ row.status = "Waiting" /\ "taskless" \notin history
    => \E w \in Workers : Creating(w) /\ jobs[w].id = row.id

\* Every step keeps CreateWaits.
LEMMA CreateWaitsStep == TypeInv /\ CreateWaits /\ [Next]_vars => CreateWaits'
<1> SUFFICES ASSUME TypeInv, CreateWaits, [Next]_vars, up', row'.status = "Waiting",
                    "taskless" \notin history'
             PROVE  \E w \in Workers : Creating(w)' /\ jobs'[w].id = row'.id
  BY DEF CreateWaits
<1>1. CASE CreateQuiet
  <2>1. PICK w \in Workers : Creating(w) /\ jobs[w].id = row.id
    BY <1>1 DEF CreateQuiet, CreateWaits
  <2> QED
    BY <1>1, <2>1 DEF CreateQuiet, CreatesSame, Creating
<1>2. CASE CreateStarts
  BY <1>2 DEF CreateStarts
<1>3. CASE CreateStartsAgain
  BY <1>3 DEF CreateStartsAgain, AddsJob, Creating
<1>4. ~RowImported /\ ~RowDeleted /\ ~AllStop /\ ~Reopened
  <2>1. ~RowImported
    BY DEF RowImported
  <2>2. ~RowDeleted
    BY NoRowSays DEF RowDeleted
  <2>3. ~AllStop
    BY DEF AllStop
  <2>4. ~Reopened
    BY DEF Reopened
  <2> QED
    BY <2>1, <2>2, <2>3, <2>4
<1>5. ASSUME NEW w \in Workers, NEW s \in CreateNames, CreateStep(w, s)
      PROVE  \E v \in Workers : Creating(v)' /\ jobs'[v].id = row'.id
  <2>1. PICK v \in Workers : Creating(v) /\ jobs[v].id = row.id
    BY <1>5 DEF CreateStep, CreateWaits
  <2> QED
    BY <1>5, <2>1 DEF CreateStep, StepTaken, Creating
<1>6. ASSUME NEW w \in Workers, CreateFails(w) \/ CreateEnds(w)
      PROVE  \E v \in Workers : Creating(v)' /\ jobs'[v].id = row'.id
  <2>1. row.id # jobs[w].id /\ row' = row /\ history' = history /\ up' = up /\ JobGone(w)
    BY <1>6 DEF CreateFails, CreateEnds, Settles
  <2>2. PICK v \in Workers : Creating(v) /\ jobs[v].id = row.id
    BY <2>1 DEF CreateWaits
  <2> QED
    BY <2>1, <2>2 DEF JobGone, Creating
<1>7. ASSUME NEW w \in Workers, NEW files \in SUBSET Restorable, RollbackStep(w, files)
      PROVE  FALSE
  <2>1. RollingBack(w) /\ row' \in {row, kept}
    BY <1>7 DEF RollbackStep, PutBack
  <2> QED
    BY <2>1, RestoringRow, IdleKinds DEF TypeInv, RowsOK, CopiesOK
<1>8. ASSUME NEW w \in Workers, NEW s \in PartSteps, CreateMisses(w, s)
      PROVE  \E v \in Workers : Creating(v)' /\ jobs'[v].id = row'.id
  <2>1. PICK v \in Workers : Creating(v) /\ jobs[v].id = row.id
    BY <1>8 DEF CreateMisses, CreateWaits
  <2> QED
    BY <1>8, <2>1 DEF CreateMisses, StepTaken, Creating
<1> QED
  BY <1>1, <1>2, <1>3, <1>4, <1>5, <1>6, <1>7, <1>8, CreateCases DEF CreateCase

\* The invariant of the ids holds in every reachable state.
THEOREM IdsInvariant == Spec => []IdsInv
BY TypeInvariant, IdsInit, IdsStep, PTL DEF Spec

\* A row that waits has a task that will settle it, but for the causes named there.
THEOREM WaitingHasTaskHolds == Spec => []WaitingHasTask
<1>1. Init => RecoverWaits /\ CreateWaits
  <2>1. Init => row.status # "Waiting" /\ row.recover # "Waiting"
    BY NoRowSays DEF Init
  <2> QED
    BY <2>1 DEF RecoverWaits, CreateWaits
<1>2. Spec => [](RecoverWaits /\ CreateWaits)
  BY <1>1, TypeInvariant, IdsInvariant, RecoverWaitsStep, CreateWaitsStep, PTL DEF Spec
<1>3. IdsInv /\ RecoverWaits /\ CreateWaits => WaitingHasTask
  <2> SUFFICES ASSUME IdsInv, RecoverWaits, CreateWaits, up
               PROVE  /\ row.status = "Waiting" =>
                            \/ \E w \in Workers : jobs[w].kind \in {"create", "cronjob"}
                                                    /\ jobs[w].id = row.id
                            \/ "taskless" \in history
                      /\ row.recover = "Waiting" =>
                            \/ \E w \in Workers : jobs[w].kind \in {"recover", "rollback"}
                                                    /\ jobs[w].id = row.id
                            \/ history \cap {"taskless", "halfBack", "forgotten"} # {}
    BY DEF WaitingHasTask
  <2>1. ASSUME row.recover = "Waiting", history \cap {"taskless", "halfBack", "forgotten"} = {}
        PROVE  \E w \in Workers : jobs[w].kind \in {"recover", "rollback"} /\ jobs[w].id = row.id
    BY <2>1 DEF IdsInv, RecoverWaits, Restoring, Recovering, RollingBack
  <2> QED
    BY <2>1 DEF CreateWaits, Creating
<1> QED
  BY <1>2, <1>3, IdsInvariant, PTL

-----------------------------------------------------------------------------
(* The parts of a snapshot. *)

\* The invariant of the parts: each part is in the folder, the archive or the account, or a
\* step still to be done will bring it there.
PartsInv ==
    history \cap {"imported", "forgotten", "reopened"} = {} =>
        /\ \A w \in Workers : Creating(w) => jobs[w].id = row.id
        /\ \A w \in Workers : Creating(w) /\ "SnapCompress" \in jobs[w].todo =>
              "SnapUpload" \in jobs[w].todo
        /\ "gap" \notin history =>
              /\ \A w \in Workers : Creating(w) => ~Misses(jobs[w].todo)
              /\ row.status = "Success" => remote = Parts

Accounted == history \cap {"imported", "forgotten", "reopened"} = {}

\* An archive that is made is uploaded.
LEMMA CompressUpload ==
    \A from : LET plan == Plan(CreateSteps, CreateAlways, from) IN
        "SnapCompress" \in plan => "SnapUpload" \in plan
<1>1. CreateSteps[7] = "SnapCompress" /\ CreateSteps[8] = "SnapUpload"
  BY DEF CreateSteps
<1>2. "SnapCompress" \notin CreateAlways /\ "SnapUpload" \in CreateNames
  BY DEF CreateAlways, CreateNames
<1>3. ASSUME NEW from, NotBefore(CreateSteps, from, "SnapCompress")
      PROVE  NotBefore(CreateSteps, from, "SnapUpload")
  <2>1. PICK i, j \in 1..8 : i <= j /\ CreateSteps[i] = from /\ CreateSteps[j] = "SnapCompress"
    BY <1>3, Names DEF NotBefore
  <2>2. i <= 8 /\ 8 \in 1..8
    BY <2>1
  <2> QED
    BY <1>1, <2>1, <2>2, Names DEF NotBefore
<1> QED
  BY <1>2, <1>3, Names DEF Plan

\* What a creation does in one step, it does not miss afterwards.
LEMMA NothingMissed ==
    ASSUME TypeInv, NEW w \in Workers, NEW s \in CreateNames, CreateStep(w, s),
           "SnapCompress" \in jobs[w].todo => "SnapUpload" \in jobs[w].todo,
           ~Misses(jobs[w].todo)
    PROVE  ~Misses(jobs[w].todo)'
<1>1. /\ jobs'[w].todo = jobs[w].todo \ {s} /\ s \in jobs[w].todo
      /\ jobs[w].todo \subseteq Onwards[s]
  BY DEF CreateStep
<1>2. /\ "SnapUpload" # "SnapCompress"
      /\ "SnapCompress" \notin PartSteps /\ "SnapUpload" \notin PartSteps
      /\ "SnapCloseDBConn" \notin PartSteps
      /\ "SnapCloseDBConn" \notin {"SnapCompress", "SnapUpload"}
  BY DEF PartSteps
<1>3. CASE s \in PartSteps
  <2>1. work' = work \cup {PartOf(s)} /\ archive' = archive /\ remote' = remote
    BY <1>3 DEF CreateStep
  <2>2. s # "SnapCompress" /\ s # "SnapUpload"
    BY <1>2, <1>3
  <2> QED
    BY <1>1, <2>1, <2>2 DEF Misses
<1>4. CASE s = "SnapCompress"
  <2>1. archive' = work
    BY <1>4 DEF CreateStep
  <2>2. "SnapUpload" \in jobs[w].todo /\ jobs[w].todo \subseteq {"SnapCompress", "SnapUpload"}
    BY <1>1, <1>4, LastSteps
  <2>3. \A t \in PartSteps : PartOf(t) \in work
    BY <1>1, <1>2, <1>4, <2>2 DEF Misses
  <2>4. work = Parts
    BY <2>3 DEF Parts, TypeInv, TypeOK
  <2> QED
    BY <1>1, <1>2, <1>4, <2>1, <2>2, <2>4 DEF Misses
<1>5. CASE s = "SnapUpload"
  <2>1. remote' = archive
    BY <1>5 DEF CreateStep
  <2>2. jobs[w].todo = {"SnapUpload"}
    BY <1>1, <1>5, LastSteps
  <2>3. archive = Parts
    BY <1>2, <2>2 DEF Misses
  <2> QED
    BY <1>1, <1>2, <1>5, <2>1, <2>2, <2>3 DEF Misses
<1>6. CASE s = "SnapCloseDBConn"
  <2>1. work' = work /\ archive' = archive /\ remote' = remote
    BY <1>6 DEF CreateStep, SnapKept
  <2> QED
    BY <1>1, <1>2, <1>6, <2>1 DEF Misses
<1> QED
  BY <1>3, <1>4, <1>5, <1>6, NamesOfFiles

\* Without a creation, only the row matters.
LEMMA PartsNone ==
    ASSUME \A w \in Workers : ~Creating(w)',
           Accounted' /\ "gap" \notin history' /\ row'.status = "Success" => remote' = Parts
    PROVE  PartsInv'
BY DEF PartsInv, Accounted

\* The invariant of the parts holds at the start.
LEMMA PartsInit == Init => PartsInv
<1> SUFFICES ASSUME Init PROVE PartsInv
  OBVIOUS
<1>1. row.status # "Success" /\ \A w \in Workers : ~Creating(w)
  BY NoRowTyped, IdleIs DEF Init, Creating
<1> QED
  BY <1>1 DEF PartsInv

\* Every step keeps the invariant of the parts.
LEMMA PartsStep == TypeInv /\ IdsInv /\ PartsInv /\ [Next]_vars => PartsInv'
<1> SUFFICES ASSUME TypeInv, IdsInv, PartsInv, [Next]_vars, Accounted' PROVE PartsInv'
  BY DEF PartsInv, Accounted
<1>0. TypeInv'
  BY TypeStep
<1>1. CASE CreateQuiet
  <2>1. Accounted /\ ("gap" \notin history' => "gap" \notin history)
    BY <1>1 DEF CreateQuiet, Accounted
  <2>2. /\ work' = work /\ archive' = archive /\ remote' = remote
        /\ row'.id = row.id /\ row'.status = row.status
        /\ \A v \in Workers : Creating(v)' => Creating(v) /\ jobs'[v] = jobs[v]
    BY <1>1 DEF CreateQuiet, SnapKept, CreatesSame, Creating
  <2>3. \A v \in Workers : Creating(v)' =>
          /\ ~Misses(jobs[v].todo) => ~Misses(jobs[v].todo)'
          /\ jobs'[v].todo = jobs[v].todo /\ jobs'[v].id = jobs[v].id
    BY <2>2 DEF Misses
  <2>4. \A v \in Workers : Creating(v)' =>
          /\ jobs'[v].id = row'.id
          /\ "SnapCompress" \in jobs'[v].todo => "SnapUpload" \in jobs'[v].todo
          /\ "gap" \notin history' => ~Misses(jobs[v].todo)'
    BY <2>1, <2>2, <2>3 DEF PartsInv, Accounted
  <2>5. "gap" \notin history' /\ row'.status = "Success" => remote' = Parts
    BY <2>1, <2>2 DEF PartsInv, Accounted
  <2> QED
    BY <2>4, <2>5 DEF PartsInv
<1>2. CASE CreateStarts
  <2>1. CASE jobs' = jobs
    <3>1. \A v \in Workers : ~Creating(v)'
      BY <1>2, <2>1, IdleIs DEF CreateStarts, Creating
    <3> QED
      BY <1>2, <3>1, PartsNone DEF CreateStarts
  <2>2. CASE jobs' # jobs
    <3>1. PICK w \in Workers : /\ Creating(w)' /\ jobs'[w].todo = CreateNames
                               /\ jobs'[w].id = row'.id
                               /\ \A v \in Workers \ {w} : jobs'[v] = Idle
      BY <1>2, <2>2 DEF CreateStarts
    <3>2. \A v \in Workers : Creating(v)' => v = w
      BY <3>1, NoneCreates
    <3>3. "SnapUpload" \in CreateNames /\ ~Misses(jobs[w].todo)'
      BY <3>1, NamesOfFiles DEF Misses, CreateNames
    <3> QED
      BY <1>2, <3>1, <3>2, <3>3 DEF PartsInv, CreateStarts
  <2> QED
    BY <2>1, <2>2
<1>3. CASE CreateStartsAgain
  <2> DEFINE plan == Plan(CreateSteps, CreateAlways, row.step)
  <2>1. /\ row.status = "Failed" /\ row'.status = "Waiting" /\ row'.id = row.id
        /\ work' = work /\ archive' = archive /\ remote' = remote /\ AddsJob("create", plan)
        /\ history' = IF Misses(plan) THEN history \cup {"gap"} ELSE history \ {"gap"}
    BY <1>3 DEF CreateStartsAgain, SnapKept
  <2>2. "SnapCompress" \in plan => "SnapUpload" \in plan
    BY CompressUpload
  <2> HIDE DEF plan
  <2>3. PICK w \in Workers :
          /\ jobs'[w].kind = "create" /\ jobs'[w].todo = plan /\ jobs'[w].id = row.id
          /\ \A v \in Workers \ {w} : jobs'[v] = jobs[v]
    BY <2>1 DEF AddsJob
  <2>4. Accounted
    BY <2>1 DEF Accounted
  <2>5. \A v \in Workers : ~Creating(v)
    BY <2>1, <2>4 DEF TypeInv, JobOK, PartsInv, Accounted
  <2>6. \A v \in Workers : Creating(v)' => v = w
    BY <2>3, <2>5 DEF Creating
  <2>7. "gap" \notin history' => ~Misses(jobs[w].todo)'
    <3>1. "gap" \notin history' => ~Misses(plan)
      BY <2>1
    <3> QED
      BY <2>1, <2>3, <3>1 DEF Misses
  <2> QED
    BY <2>1, <2>2, <2>3, <2>6, <2>7 DEF PartsInv
<1>4. CASE RowImported
  BY <1>4 DEF RowImported, Accounted
<1>5. CASE RowDeleted
  <2>1. \A w \in Workers : ~Creating(w)'
    BY <1>5, IdleIs DEF RowDeleted, Accounted, Alone, Busy, Creating
  <2>2. row'.status # "Success"
    BY <1>5, NoRowTyped DEF RowDeleted
  <2> QED
    BY <2>1, <2>2, PartsNone
<1>6. CASE AllStop /\ remote' = remote
  <2>1. \A w \in Workers : ~Creating(w)'
    BY <1>6, NoneCreates DEF AllStop
  <2>2. /\ Accounted /\ ("gap" \notin history' => "gap" \notin history)
        /\ row' = row
    BY <1>6 DEF AllStop, Accounted
  <2> QED
    BY <1>6, <2>1, <2>2, PartsNone DEF PartsInv, Accounted
<1>7. CASE Reopened /\ SnapKept
  <2>1. \A w \in Workers : ~Creating(w)'
    BY <1>7, IdleIs DEF Reopened, Alone, Busy, Creating
  <2>2. Accounted /\ ("gap" \notin history' => "gap" \notin history) /\ (dbGone => file = NoRow)
    BY <1>7 DEF Reopened, Accounted
  <2>3. row'.status = "Success" => row.status = "Success"
    <3>1. CASE dbGone
      <4>1. RowOnDisk = NoRow
        BY <2>2, <3>1 DEF RowOnDisk
      <4>2. RowOK(row)' /\ row'.id = 0
        BY <1>0, <1>7, <4>1, NoRowTyped DEF TypeInv, RowsOK, Reopened
      <4> QED
        BY <4>2, NoRowTyped DEF RowOK
    <3>2. CASE ~dbGone
      BY <1>7, <3>2 DEF RowOnDisk, Reopened
    <3> QED
      BY <3>1, <3>2
  <2> QED
    BY <1>7, <2>1, <2>2, <2>3, PartsNone DEF PartsInv, Accounted, SnapKept
<1>8. ASSUME NEW w \in Workers, NEW s \in CreateNames, CreateStep(w, s) PROVE PartsInv'
  <2>1. /\ Accounted /\ row' = row /\ history' = history /\ StepTaken(w, s)
        /\ jobs'[w].todo = jobs[w].todo \ {s} /\ Creating(w)
    BY <1>8 DEF CreateStep, Accounted
  <2>2. \A v \in Workers : Creating(v)' => v = w
    BY <2>1 DEF PartsInv, Accounted, TypeInv, StepTaken, Creating
  <2>3. Creating(w) /\ jobs'[w].id = row'.id
    BY <2>1 DEF PartsInv, Accounted, StepTaken
  <2>4. s = "SnapUpload" => "SnapCompress" \notin jobs[w].todo
    BY <1>8, LastSteps DEF CreateStep
  <2>5. "SnapCompress" \in jobs'[w].todo => "SnapUpload" \in jobs'[w].todo
    BY <2>1, <2>4 DEF PartsInv, Accounted
  <2>6. "gap" \notin history' => ~Misses(jobs[w].todo)'
    BY <1>8, <2>1, NothingMissed DEF PartsInv, Accounted
  <2>7. row'.status = "Waiting"
    BY <2>1 DEF PartsInv, Accounted, TypeInv, JobOK
  <2> QED
    BY <2>2, <2>3, <2>5, <2>6, <2>7 DEF PartsInv
<1>9. ASSUME NEW w \in Workers, CreateFails(w) PROVE PartsInv'
  <2>1. Accounted /\ JobGone(w) /\ Creating(w)
    BY <1>9 DEF CreateFails, Settles, Accounted
  <2>2. \A v \in Workers : ~Creating(v)'
    BY <2>1, NoneCreates DEF PartsInv, Accounted, TypeInv, JobGone, Creating
  <2>3. row.status = "Waiting" /\ jobs[w].id = row.id
    BY <2>1 DEF PartsInv, Accounted, TypeInv, JobOK
  <2>4. row'.status \in {"Failed", "Waiting"}
    BY <1>9, <2>3 DEF CreateFails, Settles
  <2> QED
    BY <2>2, <2>4, PartsNone
<1>10. ASSUME NEW w \in Workers, CreateEnds(w) PROVE PartsInv'
  <2>1. /\ Accounted /\ JobGone(w) /\ Creating(w) /\ remote' = remote
        /\ history \subseteq history' /\ jobs[w].todo = {}
    BY <1>10 DEF CreateEnds, Settles, Accounted
  <2>2. \A v \in Workers : ~Creating(v)'
    BY <2>1, NoneCreates DEF PartsInv, Accounted, TypeInv, JobGone, Creating
  <2>3. "gap" \notin history => remote = Parts
    BY <2>1 DEF PartsInv, Accounted, Misses
  <2> QED
    BY <2>1, <2>2, <2>3, PartsNone
<1>11. ASSUME NEW w \in Workers, SnapKept, CreatesSame, NEW files \in SUBSET Restorable,
              RollbackStep(w, files)
       PROVE  PartsInv'
  <2>1. /\ Accounted /\ RollingBack(w) /\ history \subseteq history' /\ remote' = remote
        /\ row' = row \/ (row' = kept /\ ~dbGone)
    BY <1>11 DEF RollbackStep, PutBack, SnapKept, Accounted
  <2>2. row.status \in {"None", "Success"} /\ jobs[w].id # 0 /\ Restoring(w)
    BY <2>1, RestoringRow, IdleKinds
  <2>3. \A v \in Workers : ~Creating(v)
    BY <2>1, <2>2 DEF PartsInv, Accounted, TypeInv, JobOK
  <2>4. \A v \in Workers : ~Creating(v)'
    BY <1>11, <2>3 DEF CreatesSame, Creating
  <2>5. row.status = "Success"
    <3>1. row.id = jobs[w].id /\ RowOK(row)
      BY <2>1, <2>2 DEF IdsInv, Accounted, TypeInv, RowsOK
    <3> QED
      BY <2>2, <3>1, NoRowTyped DEF RowOK
  <2> QED
    BY <2>1, <2>4, <2>5, PartsNone DEF PartsInv, Accounted
<1>12. ASSUME NEW w \in Workers, NEW s \in PartSteps, CreateMisses(w, s) PROVE PartsInv'
  <2>1. /\ Accounted /\ row' = row /\ "gap" \in history' /\ StepTaken(w, s)
        /\ jobs'[w].todo = jobs[w].todo \ {s} /\ Creating(w)
    BY <1>12 DEF CreateMisses, Accounted
  <2>2. \A v \in Workers : Creating(v)' => v = w
    BY <2>1 DEF PartsInv, Accounted, TypeInv, StepTaken, Creating
  <2>3. jobs'[w].id = row'.id
    BY <2>1 DEF PartsInv, Accounted, StepTaken
  <2>4. s # "SnapUpload"
    BY <1>12, NamesOfFiles
  <2>5. "SnapCompress" \in jobs'[w].todo => "SnapUpload" \in jobs'[w].todo
    BY <2>1, <2>4 DEF PartsInv, Accounted
  <2> QED
    BY <2>1, <2>2, <2>3, <2>5 DEF PartsInv
<1> QED
  BY <1>1, <1>2, <1>3, <1>4, <1>5, <1>6, <1>7, <1>8, <1>9, <1>10, <1>11, <1>12, CreateCases
     DEF CreateCase

\* The invariant of the parts holds in every reachable state.
THEOREM PartsInvariant == Spec => []PartsInv
BY TypeInvariant, IdsInvariant, PartsInit, PartsStep, PTL DEF Spec

\* A snapshot that says Success is complete in the account, whatever failed, crashed or
\* was created again, but for the causes named there.
THEOREM CompleteUnlessGapHolds == Spec => []CompleteUnlessGap
<1>1. PartsInv => CompleteUnlessGap
  BY DEF PartsInv, CompleteUnlessGap
<1> QED
  BY <1>1, PartsInvariant, PTL

-----------------------------------------------------------------------------
(* The order in which a recovery replaces the files of the panel. *)

\* When the order can be told: no rollback stopped half way, and no last update was lost.
NoRollback == \A w \in Workers : ~RollingBack(w)
Sound == Orderly /\ history \cap {"halfBack", "unsaved"} = {}

\* A row that would take a recovery up again at this step would do all of it.
Harmless(s) == Resumes(s) => Remaining(s) = Files

\* All files but these are recovered.
DoneBut(files) == \A f \in Files \ files : panel[f] = "after"

\* When the database is not as it was, it is the only one of these files.
DbLast(files) == panel["db"] # "before" => files \subseteq {"db"}

\* The rows that could come back, from the copy or from a database whose file is gone, would
\* take a recovery up at no step that leaves files out.
CopyHarmless == original["db"] # "none" => Harmless(kept.step)
FileHarmless == dbGone => Harmless(file.step)

\* A recovery that has still to replace the database has replaced what it will not do again.
TodoOrder == \A w \in Workers : Recovering(w) =>
    /\ "RecoverDBData" \in jobs[w].todo =>
          DoneBut(Left(jobs[w].todo)) /\ DbLast(Left(jobs[w].todo))
    /\ Resumes(row.step) => /\ jobs[w].id = row.id
                            /\ Left(jobs[w].todo) \subseteq Remaining(row.step)

\* A rollback of another row leaves this one with nothing to take up half way.
BackHarmless == \A w \in Workers : RollingBack(w) /\ jobs[w].id # row.id => Harmless(row.step)

\* The database is replaced when the others are; one whose file is gone, but not its row, is
\* not replaced yet.
DbAfterOthers == panel["db"] # "before" => DoneBut({"db"})
FileBefore == dbGone /\ file # NoRow => panel["db"] = "before"

\* The step of the row leaves to a recovery that takes it up all that is not recovered.
RowOrder == Resumes(row.step) =>
    /\ DoneBut(Remaining(row.step))
    /\ ~dbGone \/ (up /\ \A w \in Workers : ~Recovering(w)) => DbLast(Remaining(row.step))

\* The invariant of the order.
OrderInv == Sound =>
    /\ CopyHarmless /\ FileHarmless /\ TodoOrder /\ BackHarmless
    /\ NoRollback => DbAfterOthers /\ FileBefore /\ RowOrder

\* The database is changed by the last step only, and ReadJson changes nothing.
LEMMA FilesOfStep ==
    /\ \A s \in RecoverNames : "db" \in FilesOf(s) => s = "RecoverDBData"
    /\ FilesOf("RecoverDBData") = {"db"} /\ FilesOf("ReadJson") = {}
    /\ \A s \in RecoverNames : FilesOf(s) \subseteq Files
    /\ "db" \in Files /\ "db" \in Restorable /\ "ReadJson" \in RecoverNames
<1>1. \A s \in RecoverNames : "db" \in FilesOf(s) => s = "RecoverDBData"
  BY DEF FilesOf
<1>2. FilesOf("RecoverDBData") = {"db"} /\ FilesOf("ReadJson") = {}
  BY DEF FilesOf
<1>3. \A s \in RecoverNames : FilesOf(s) \subseteq Files
  BY DEF FilesOf, Files, Restorable
<1> QED
  BY <1>1, <1>2, <1>3 DEF Files, Restorable, RecoverNames

\* What a step that is done leaves to the others.
LEMMA LeftLess ==
    \A todo, s : /\ Left(todo \ {s}) \subseteq Left(todo)
                 /\ s \in todo => FilesOf(s) \subseteq Left(todo)
                 /\ Left(todo) \subseteq Left(todo \ {s}) \cup FilesOf(s)
BY DEF Left

\* What a step of a recovery does to the files.
LEMMA StepFiles ==
    ASSUME TypeOK, NEW s \in RecoverNames, Touches(s)
    PROVE  /\ \A f \in Files \ FilesOf(s) : panel'[f] = panel[f]
           /\ Whole(s) => \A f \in FilesOf(s) : panel'[f] = "after"
           /\ s # "RecoverDBData" => dbGone' = dbGone /\ file' = file
           /\ UNCHANGED <<dbGone, file, panel>> \/ (dbGone' /\ file' = NoRow)
                 \/ (dbGone' = dbGone /\ file' = file /\ panel'["db"] = panel["db"])
           /\ \/ kept' = kept /\ original'["db"] = original["db"]
              \/ kept' = RowOnDisk /\ s = "BackupBeforeRecover"
           /\ dbGone => dbGone'
<1>0. TypeOK => panel \in [Files -> States] /\ dbGone \in BOOLEAN
                  /\ original \in [Restorable -> States \cup {"none"}]
  BY DEF TypeOK
<1>1. Whole(s) => \A f \in FilesOf(s) : panel'[f] = "after"
  BY FilesOfStep DEF Whole, Overwrite
<1>2. CASE UNCHANGED panelVars
  BY <1>1, <1>2 DEF panelVars
<1>3. CASE s = "BackupBeforeRecover" /\ \E files \in SUBSET Restorable : Keep(files, {})
  <2>1. PICK files \in SUBSET Restorable : Keep(files, {})
    BY <1>3
  <2>2. UNCHANGED <<panel, dbGone, file>>
    BY <2>1 DEF Keep, db
  <2>3. (kept' = kept /\ original'["db"] = original["db"]) \/ kept' = RowOnDisk
    BY <2>1, FilesOfStep DEF Keep
  <2> QED
    BY <1>1, <1>3, <2>2, <2>3
<1>4. CASE FilesOf(s) # {} /\ \E state \in {"mixed", "after"} : Overwrite(FilesOf(s), state)
  <2>1. PICK state \in {"mixed", "after"} : Overwrite(FilesOf(s), state)
    BY <1>4
  <2>2. /\ \A f \in Files \ FilesOf(s) : panel'[f] = panel[f]
        /\ kept' = kept /\ original' = original
    BY <2>1 DEF Overwrite
  <2>3. CASE s = "RecoverDBData"
    <3>1. dbGone' /\ file' = NoRow
      BY <2>1, <2>3, FilesOfStep DEF Overwrite
    <3> QED
      BY <1>1, <2>2, <2>3, <3>1
  <2>4. CASE s # "RecoverDBData"
    <3>1. "db" \notin FilesOf(s)
      BY <2>4, FilesOfStep
    <3>2. dbGone' = dbGone /\ file' = file
      BY <1>0, <2>1, <3>1 DEF Overwrite
    <3> QED
      BY <1>1, <2>2, <2>4, <3>1, <3>2, FilesOfStep
  <2> QED
    BY <2>3, <2>4
<1> QED
  BY <1>2, <1>3, <1>4 DEF Touches

\* Every step that changes files comes after the copy.
LEMMA CopyIsBeforeAll == Remaining("BackupBeforeRecover") = Files
<1>1. RecoverSteps[3] = "BackupBeforeRecover"
  BY DEF RecoverSteps
<1>2. Onwards["BackupBeforeRecover"] = {RecoverSteps[j] : j \in 3..11}
  <2>1. 3 \in 1..11
    OBVIOUS
  <2> QED
    BY <1>1, <2>1, Rest
<1>3. /\ RecoverSteps[6] = "RecoverBaseData" /\ RecoverSteps[7] = "RecoverBackups"
      /\ RecoverSteps[8] = "RecoverWebsite" /\ RecoverSteps[9] = "RecoverPanelData"
      /\ RecoverSteps[11] = "RecoverDBData"
  BY DEF RecoverSteps
<1>4. 6 \in 3..11 /\ 7 \in 3..11 /\ 8 \in 3..11 /\ 9 \in 3..11 /\ 11 \in 3..11
  OBVIOUS
<1>5. {"RecoverBaseData", "RecoverBackups", "RecoverWebsite", "RecoverPanelData",
       "RecoverDBData"} \subseteq Onwards["BackupBeforeRecover"]
  BY <1>2, <1>3, <1>4
<1>6. /\ FilesOf("RecoverBaseData") = Files \cap {"base", "core"}
      /\ FilesOf("RecoverBackups") = {"backups"}
      /\ FilesOf("RecoverWebsite") = {"website"} /\ FilesOf("RecoverDBData") = {"db"}
      /\ FilesOf("RecoverPanelData") = {"data", "website"}
  BY DEF FilesOf
<1>7. Files \subseteq Remaining("BackupBeforeRecover")
  <2>1. \A s \in Onwards["BackupBeforeRecover"] :
           FilesOf(s) \subseteq Remaining("BackupBeforeRecover")
    BY DEF Remaining, Left
  <2> QED
    BY <1>5, <1>6, <2>1 DEF Files, Restorable
<1>8. Remaining("BackupBeforeRecover") \subseteq Files
  <2>1. "BackupBeforeRecover" \in RecoverNames
    BY DEF RecoverNames
  <2>2. Onwards["BackupBeforeRecover"] \subseteq RecoverNames
    BY <2>1, Apart
  <2> QED
    BY <2>2, FilesOfStep DEF Remaining, Left
<1> QED
  BY <1>7, <1>8

\* The binary 1panel-core is replaced with the other single files.
LEMMA CoreIsWithBase ==
    \A s \in Steps : "base" \in Remaining(s) => Files \cap {"core"} \subseteq Remaining(s)
<1>1. \A s : "base" \in FilesOf(s) => Files \cap {"core"} \subseteq FilesOf(s)
  BY DEF FilesOf
<1> QED
  BY <1>1 DEF Remaining, Left

\* At a step that changes files, and at the copy, all that follows is still to be done.
LEMMA AllAhead ==
    ASSUME TypeInv, NEW w \in Workers, NEW s \in RecoverNames, AtStepOf(w, s),
           s \notin RecoverAlways
    PROVE  /\ jobs[w].todo = Onwards[s] /\ "RecoverDBData" \in jobs[w].todo
           /\ Left(jobs[w].todo) = Remaining(s)
           /\ s = "RecoverDBData" => Left(jobs[w].todo) = {"db"}
           /\ s = "BackupBeforeRecover" => Left(jobs[w].todo) = Files
<1>1. Shape(jobs[w].todo) /\ s \in jobs[w].todo /\ jobs[w].todo \subseteq Onwards[s]
  BY DEF AtStepOf, TypeInv, JobOK
<1>2. jobs[w].todo = Onwards[s]
  BY <1>1 DEF Shape
<1>3. "RecoverDBData" \in Onwards[s]
  BY LastSteps
<1>4. s = "BackupBeforeRecover" => Remaining(s) = Files
  BY CopyIsBeforeAll
<1> QED
  BY <1>2, <1>3, <1>4, LeftFacts DEF Remaining

\* A recovery is not taken up at no step.
LEMMA NoRowHarmless == Harmless("") /\ Harmless(NoRow.step) /\ ~Resumes("") /\ NoRow.step = ""
<1>1. "" \notin RecoverNames /\ NoRow.step = ""
  BY DEF RecoverNames, NoRow
<1> QED
  BY <1>1 DEF Harmless, Resumes, Later

\* The invariant when nothing is restored any more, or by one task.
LEMMA OrderNone ==
    ASSUME \A w \in Workers : ~Restoring(w)',
           CopyHarmless', FileHarmless', DbAfterOthers', FileBefore', RowOrder'
    PROVE  OrderInv'
<1>1. \A w \in Workers : ~Recovering(w)' /\ ~RollingBack(w)'
  BY IdleKinds
<1> QED
  BY <1>1 DEF OrderInv, TodoOrder, BackHarmless

\* The invariant of the order when one recovery is all that restores,
LEMMA OrderRecovering ==
    ASSUME NEW w \in Workers, \A v \in Workers : Restoring(v)' => v = w, Recovering(w)',
           CopyHarmless', FileHarmless', DbAfterOthers', FileBefore', RowOrder',
           "RecoverDBData" \in jobs'[w].todo =>
              /\ \A f \in Files \ Left(jobs'[w].todo) : panel'[f] = "after"
              /\ panel'["db"] # "before" => Left(jobs'[w].todo) \subseteq {"db"},
           Resumes(row'.step) => /\ jobs'[w].id = row'.id
                                 /\ Left(jobs'[w].todo) \subseteq Remaining(row'.step)
    PROVE  OrderInv'
<1>1. \A v \in Workers : /\ Recovering(v)' => v = w
                         /\ ~RollingBack(v)'
  BY IdleKinds
<1>2. TodoOrder'
  BY <1>1 DEF TodoOrder, DoneBut, DbLast
<1>3. BackHarmless'
  BY <1>1 DEF BackHarmless
<1> QED
  BY <1>2, <1>3 DEF OrderInv

\* and when one rollback is.
LEMMA OrderRollingBack ==
    ASSUME NEW w \in Workers, \A v \in Workers : Restoring(v)' => v = w, RollingBack(w)',
           CopyHarmless', FileHarmless',
           jobs'[w].id # row'.id => Harmless(row'.step)
    PROVE  OrderInv'
<1>1. \A v \in Workers : /\ RollingBack(v)' => v = w
                         /\ ~Recovering(v)'
  BY IdleKinds
<1>2. TodoOrder'
  BY <1>1 DEF TodoOrder
<1>3. BackHarmless'
  BY <1>1 DEF BackHarmless, Harmless
<1>4. ~NoRollback'
  BY DEF NoRollback
<1> QED
  BY <1>2, <1>3, <1>4 DEF OrderInv

\* While the files stay as they are, so does what is said of them.
LEMMA FilesSame ==
    ASSUME UNCHANGED panelVars
    PROVE  /\ CopyHarmless => CopyHarmless'
           /\ FileHarmless => FileHarmless'
           /\ DbAfterOthers => DbAfterOthers'
           /\ FileBefore => FileBefore'
           /\ \A files : DoneBut(files) => \A f \in Files \ files : panel'[f] = "after"
           /\ \A files : DbLast(files) => (panel'["db"] # "before" => files \subseteq {"db"})
<1>1. panel' = panel /\ original' = original /\ kept' = kept /\ dbGone' = dbGone /\ file' = file
  BY DEF panelVars
<1>2. CopyHarmless => CopyHarmless'
  BY <1>1 DEF CopyHarmless, Harmless
<1>3. FileHarmless => FileHarmless'
  BY <1>1 DEF FileHarmless, Harmless
<1>4. DbAfterOthers => DbAfterOthers'
  BY <1>1 DEF DbAfterOthers, DoneBut
<1>5. FileBefore => FileBefore'
  BY <1>1 DEF FileBefore
<1> QED
  BY <1>1, <1>2, <1>3, <1>4, <1>5 DEF DoneBut, DbLast

\* A step that leaves the files and the tasks, and the step of the row or puts it off.
LEMMA OrderKept ==
    ASSUME OrderInv, Sound, UNCHANGED panelVars, up' = up,
           (row'.step = row.step /\ row'.id = row.id) \/ ~Resumes(row'.step),
           \A v \in Workers : Restoring(v) \/ Restoring(v)' => jobs'[v] = jobs[v]
    PROVE  OrderInv'
<1>1. panel' = panel /\ dbGone' = dbGone
  BY DEF panelVars
<1>2. \A v \in Workers : /\ Recovering(v)' = Recovering(v) /\ RollingBack(v)' = RollingBack(v)
                         /\ Recovering(v) \/ RollingBack(v) => jobs'[v] = jobs[v]
  BY DEF Restoring, Recovering, RollingBack
<1>3. TodoOrder => TodoOrder'
  BY <1>1, <1>2 DEF TodoOrder, DoneBut, DbLast
<1>4. BackHarmless => BackHarmless'
  BY <1>2 DEF BackHarmless, Harmless
<1>5. RowOrder => RowOrder'
  BY <1>1, <1>2 DEF RowOrder, DoneBut, DbLast
<1>6. NoRollback' => NoRollback
  BY <1>2 DEF NoRollback
<1> QED
  BY <1>3, <1>4, <1>5, <1>6, FilesSame DEF OrderInv

\* The invariant of the order holds at the start.
LEMMA OrderInit == Init => OrderInv
<1> SUFFICES ASSUME Init PROVE OrderInv
  OBVIOUS
<1>1. panel["db"] = "before" /\ original["db"] = "none" /\ ~dbGone
  BY FilesOfStep DEF Init, Untouched, NoOriginal
<1>2. \A w \in Workers : ~Recovering(w) /\ ~RollingBack(w)
  BY IdleKinds DEF Init
<1>3. ~Resumes(row.step)
  BY NoRowHarmless DEF Init
<1> QED
  BY <1>1, <1>2, <1>3 DEF OrderInv, CopyHarmless, FileHarmless, TodoOrder, BackHarmless,
                          DbAfterOthers, FileBefore, RowOrder

\* What a step of a recovery, whole or half, does to the parts about the files.
LEMMA OrderFiles ==
    ASSUME TypeInv, Sound, OrderInv, NoRollback,
           NEW w \in Workers, NEW s \in RecoverNames, AtStepOf(w, s), Touches(s)
    PROVE  CopyHarmless' /\ FileHarmless' /\ DbAfterOthers' /\ FileBefore'
<1>1. /\ \A f \in Files \ FilesOf(s) : panel'[f] = panel[f]
      /\ UNCHANGED <<dbGone, file, panel>> \/ (dbGone' /\ file' = NoRow)
            \/ (dbGone' = dbGone /\ file' = file /\ panel'["db"] = panel["db"])
      /\ \/ kept' = kept /\ original'["db"] = original["db"]
         \/ kept' = RowOnDisk /\ s = "BackupBeforeRecover"
  BY StepFiles DEF TypeInv
<1>2. Recovering(w) /\ s \in jobs[w].todo
  BY DEF AtStepOf
<1>3. CopyHarmless'
  <2>1. CASE kept' = kept /\ original'["db"] = original["db"]
    BY <2>1 DEF OrderInv, CopyHarmless, Harmless
  <2>2. CASE kept' = RowOnDisk /\ s = "BackupBeforeRecover"
    <3>1. Harmless(RowOnDisk.step)
      <4>1. CASE dbGone
        BY <4>1 DEF RowOnDisk, OrderInv, FileHarmless
      <4>2. CASE ~dbGone
        <5>1. Left(jobs[w].todo) = Files
          BY <2>2, AllAhead DEF RecoverAlways
        <5>2. Resumes(row.step) => Files \subseteq Remaining(row.step)
          BY <1>2, <5>1 DEF OrderInv, TodoOrder
        <5>3. Resumes(row.step) => Remaining(row.step) \subseteq Files
          BY Apart, LeftFacts, Ordered DEF Remaining, Resumes, Later
        <5> QED
          BY <4>2, <5>2, <5>3 DEF RowOnDisk, Harmless
      <4> QED
        BY <4>1, <4>2
    <3> QED
      BY <2>2, <3>1 DEF CopyHarmless, Harmless
  <2> QED
    BY <1>1, <2>1, <2>2
<1>4. FileHarmless'
  BY <1>1, NoRowHarmless DEF OrderInv, FileHarmless, Harmless
<1>5. FileBefore'
  BY <1>1 DEF OrderInv, FileBefore
<1>6. DbAfterOthers'
  <2>1. CASE "db" \in FilesOf(s)
    <3>1. s = "RecoverDBData" /\ FilesOf(s) = {"db"}
      BY <2>1, FilesOfStep
    <3>2. "RecoverDBData" \in jobs[w].todo /\ Left(jobs[w].todo) = {"db"}
      BY <3>1, AllAhead DEF RecoverAlways
    <3>3. DoneBut({"db"})
      BY <1>2, <3>2 DEF OrderInv, TodoOrder
    <3> QED
      BY <1>1, <3>1, <3>3 DEF DoneBut, DbAfterOthers
  <2>2. CASE FilesOf(s) # {} /\ "db" \notin FilesOf(s)
    <3>1. s \notin RecoverAlways
      BY <2>2, FilesOfStep DEF RecoverAlways
    <3>2. "RecoverDBData" \in jobs[w].todo
      BY <3>1, AllAhead
    <3>3. panel["db"] # "before" => FilesOf(s) \subseteq {"db"}
      BY <1>2, <3>2, LeftLess DEF OrderInv, TodoOrder, DbLast
    <3>4. panel'["db"] = panel["db"]
      BY <1>1, <2>2, FilesOfStep
    <3> QED
      BY <2>2, <3>3, <3>4 DEF DbAfterOthers
  <2>3. CASE FilesOf(s) = {}
    BY <1>1, <2>3, FilesOfStep DEF OrderInv, DbAfterOthers, DoneBut
  <2> QED
    BY <2>1, <2>2, <2>3
<1> QED
  BY <1>3, <1>4, <1>5, <1>6

\* A recovery begins, with nothing else under way.
LEMMA OrderBegins ==
    ASSUME TypeInv, OrderInv, Sound, Alone, NEW all \in BOOLEAN, RecoverBegins(all),
           all => Restored, AddsJob("recover", RecoverTodo(all))
    PROVE  OrderInv'
<1>1. row \in RowType /\ row' = [row EXCEPT !.recover = "Waiting"] /\ up /\ up' = up
      /\ UNCHANGED panelVars
  BY DEF TypeInv, TypeOK, RecoverBegins
<1>2. row'.id = row.id /\ row'.step = row.step
  BY <1>1 DEF RowType
<1>3. panel' = panel /\ dbGone' = dbGone
  BY <1>1 DEF panelVars
<1>4. \A v \in Workers : ~Recovering(v) /\ ~RollingBack(v)
  BY IdleKinds DEF Alone, Busy
<1>5. CopyHarmless /\ FileHarmless /\ DbAfterOthers /\ FileBefore /\ RowOrder
  BY <1>4 DEF OrderInv, NoRollback
<1>6. CopyHarmless' /\ FileHarmless' /\ DbAfterOthers' /\ FileBefore'
  BY <1>1, <1>5, FilesSame
<1>7. RowOrder'
  BY <1>1, <1>2, <1>3, <1>4, <1>5 DEF RowOrder, DoneBut, DbLast
<1>8. PICK w \in Workers :
        /\ jobs'[w].kind = "recover" /\ jobs'[w].todo = RecoverTodo(all)
        /\ jobs'[w].id = row.id
        /\ \A v \in Workers \ {w} : jobs'[v] = jobs[v]
  BY DEF AddsJob
<1>9. Recovering(w)' /\ \A v \in Workers : Restoring(v)' => v = w
  <2>1. Recovering(w)'
    BY <1>8 DEF Recovering
  <2>2. \A v \in Workers \ {w} : jobs'[v] = Idle
    BY <1>8 DEF Alone, Busy
  <2> QED
    BY <2>1, <2>2, IdleKinds
<1>10. /\ "RecoverDBData" \in jobs'[w].todo =>
              /\ \A f \in Files \ Left(jobs'[w].todo) : panel'[f] = "after"
              /\ panel'["db"] # "before" => Left(jobs'[w].todo) \subseteq {"db"}
       /\ Resumes(row'.step) => Left(jobs'[w].todo) \subseteq Remaining(row'.step)
  <2>1. CASE all
    <3>1. Left(jobs'[w].todo) = Files /\ Restored
      BY <1>8, <2>1, RecoverPlanOK, LeftFacts DEF RecoverBegins
    <3>2. panel["db"] = "before" /\ \A f \in Restorable : panel[f] # "after"
      BY <3>1, FilesOfStep DEF Restored
    <3>3. Resumes(row.step) => Files \subseteq Remaining(row.step)
      <4> SUFFICES ASSUME Resumes(row.step) PROVE Files \subseteq Remaining(row.step)
        OBVIOUS
      <4>1. Restorable \subseteq Remaining(row.step)
        BY <1>5, <3>2 DEF RowOrder, DoneBut, Files
      <4>2. row.step \in Steps
        BY Apart DEF Resumes, Later
      <4> QED
        BY <4>1, <4>2, CoreIsWithBase DEF Files, Restorable
    <3> QED
      BY <1>2, <1>3, <3>1, <3>2, <3>3
  <2>2. CASE ~all
    <3>1. /\ row.step \in Later
          /\ RecoverTodo(all) = IF row.step \in RecoverAlways THEN RecoverAlways
                                ELSE Onwards[row.step] \cup RecoverAlways
      BY <2>2, RecoverPlanOK DEF RecoverBegins
    <3>2. CASE row.step \in RecoverAlways
      <4>1. "RecoverDBData" \notin jobs'[w].todo
        BY <1>8, <3>1, <3>2 DEF RecoverAlways
      <4> QED
        BY <1>2, <3>2, <4>1 DEF Resumes
    <3>3. CASE row.step \notin RecoverAlways
      <4>1. Resumes(row.step) /\ Left(jobs'[w].todo) = Remaining(row.step)
        <5>1. jobs'[w].todo = Onwards[row.step] \cup {"ReadJson"}
          BY <1>8, <3>1, <3>3 DEF RecoverAlways
        <5> QED
          BY <3>1, <3>3, <5>1, FilesOfStep DEF Resumes, Left, Remaining
      <4>2. DoneBut(Remaining(row.step)) /\ DbLast(Remaining(row.step))
        BY <1>1, <1>4, <1>5, <4>1 DEF RowOrder
      <4> QED
        BY <1>2, <1>3, <4>1, <4>2 DEF DoneBut, DbLast
    <3> QED
      BY <3>2, <3>3
  <2> QED
    BY <2>1, <2>2
<1> QED
  BY <1>2, <1>6, <1>7, <1>8, <1>9, <1>10, OrderRecovering

\* A step of a recovery.
LEMMA OrderAtStep ==
    ASSUME TypeInv, OrderInv, Sound, Sound', NEW w \in Workers,
           \A v \in Workers : Restoring(v) => v = w,
           NEW s \in RecoverNames, RecoverStep(w, s)
    PROVE  OrderInv'
<1>1. /\ AtStepOf(w, s) /\ StepTaken(w, s) /\ Touches(s) /\ Recovering(w) /\ s \in jobs[w].todo
      /\ jobs'[w].todo = jobs[w].todo \/ Whole(s)
      /\ UNCHANGED <<up, row, history>>
  BY DEF RecoverStep, AtStepOf, Sound, Orderly
<1>2. \A v \in Workers : Recovering(v) \/ RollingBack(v) => v = w
  BY IdleKinds
<1>3. NoRollback
  BY <1>1, <1>2, IdleKinds DEF NoRollback
<1>4. CopyHarmless' /\ FileHarmless' /\ DbAfterOthers' /\ FileBefore'
  BY <1>1, <1>3, OrderFiles
<1>5. Recovering(w)' /\ jobs'[w].id = jobs[w].id /\ jobs'[w].todo \subseteq jobs[w].todo
      /\ \A v \in Workers : Restoring(v)' => v = w
  BY <1>1, TakenKinds
<1>6. /\ \A f \in Files \ FilesOf(s) : panel'[f] = panel[f]
      /\ Whole(s) => \A f \in FilesOf(s) : panel'[f] = "after"
      /\ s # "RecoverDBData" => dbGone' = dbGone /\ file' = file
      /\ UNCHANGED <<dbGone, file, panel>> \/ (dbGone' /\ file' = NoRow)
            \/ (dbGone' = dbGone /\ file' = file /\ panel'["db"] = panel["db"])
      /\ dbGone => dbGone'
  BY <1>1, StepFiles DEF TypeInv
<1>7. Left(jobs'[w].todo) \subseteq Left(jobs[w].todo) /\ FilesOf(s) \subseteq Left(jobs[w].todo)
  BY <1>1, <1>5, LeftLess DEF Left
<1>8. Resumes(row.step) => /\ jobs[w].id = row.id
                           /\ Left(jobs[w].todo) \subseteq Remaining(row.step)
  BY <1>1 DEF OrderInv, TodoOrder
<1>9. RowOrder'
  <2> SUFFICES ASSUME Resumes(row.step)
               PROVE  /\ \A f \in Files \ Remaining(row.step) : panel'[f] = "after"
                      /\ ~dbGone' /\ panel'["db"] # "before" =>
                            Remaining(row.step) \subseteq {"db"}
    BY <1>1, <1>5 DEF RowOrder, DoneBut, DbLast
  <2>1. DoneBut(Remaining(row.step)) /\ (~dbGone => DbLast(Remaining(row.step)))
    BY <1>3 DEF OrderInv, RowOrder
  <2>2. \A f \in Files \ Remaining(row.step) : panel'[f] = "after"
    BY <1>6, <1>7, <1>8, <2>1 DEF DoneBut
  <2>3. ~dbGone' => (panel'["db"] # "before" => Remaining(row.step) \subseteq {"db"})
    BY <1>6, <2>1 DEF DbLast
  <2> QED
    BY <2>2, <2>3
<1>10. "RecoverDBData" \in jobs'[w].todo =>
          /\ \A f \in Files \ Left(jobs'[w].todo) : panel'[f] = "after"
          /\ panel'["db"] # "before" => Left(jobs'[w].todo) \subseteq {"db"}
  <2> SUFFICES ASSUME "RecoverDBData" \in jobs'[w].todo
               PROVE  /\ \A f \in Files \ Left(jobs'[w].todo) : panel'[f] = "after"
                      /\ panel'["db"] # "before" => Left(jobs'[w].todo) \subseteq {"db"}
    OBVIOUS
  <2>1. DoneBut(Left(jobs[w].todo)) /\ DbLast(Left(jobs[w].todo))
    BY <1>1, <1>5 DEF OrderInv, TodoOrder
  <2>2. \A f \in Files \ Left(jobs'[w].todo) : panel'[f] = "after"
    <3>1. CASE jobs'[w].todo = jobs[w].todo
      BY <1>6, <1>7, <2>1, <3>1 DEF DoneBut
    <3>2. CASE Whole(s) /\ jobs'[w].todo = jobs[w].todo \ {s}
      <4>1. Left(jobs[w].todo) \subseteq Left(jobs'[w].todo) \cup FilesOf(s)
        BY <3>2, LeftLess
      <4> QED
        BY <1>6, <2>1, <3>2, <4>1 DEF DoneBut
    <3> QED
      BY <1>1, <3>1, <3>2 DEF StepTaken
  <2>3. panel'["db"] # "before" => Left(jobs'[w].todo) \subseteq {"db"}
    <3>1. CASE "db" \in FilesOf(s)
      <4>1. s = "RecoverDBData"
        BY <3>1, FilesOfStep
      <4>2. Left(jobs[w].todo) = {"db"}
        BY <1>1, <4>1, AllAhead DEF RecoverAlways
      <4> QED
        BY <1>7, <4>2
    <3>2. CASE "db" \notin FilesOf(s)
      <4>1. panel'["db"] = panel["db"]
        BY <1>6, <3>2, FilesOfStep
      <4> QED
        BY <1>7, <2>1, <4>1 DEF DbLast
    <3> QED
      BY <3>1, <3>2
  <2> QED
    BY <2>2, <2>3
<1> QED
  BY <1>1, <1>4, <1>5, <1>7, <1>8, <1>9, <1>10, OrderRecovering

\* The whole effect of a step is one way to touch the panel.
LEMMA WholeTouches == ASSUME NEW s, Whole(s) PROVE Touches(s)
<1>1. CASE s = "BackupBeforeRecover"
  <2>1. Keep(Findable, {}) /\ Findable \in SUBSET Restorable
    BY <1>1 DEF Whole, Findable
  <2> QED
    BY <1>1, <2>1 DEF Touches
<1>2. CASE FilesOf(s) # {}
  <2>1. Overwrite(FilesOf(s), "after")
    BY <1>2 DEF Whole
  <2> QED
    BY <1>2, <2>1 DEF Touches
<1>3. CASE s # "BackupBeforeRecover" /\ FilesOf(s) = {}
  BY <1>3 DEF Whole, Touches
<1> QED
  BY <1>1, <1>2, <1>3

\* A recovery fails.
LEMMA OrderFails ==
    ASSUME TypeInv, OrderInv, Sound, Sound', NEW w \in Workers,
           \A v \in Workers : Restoring(v) => v = w,
           NEW s \in RecoverNames, RecoverFails(w, s)
    PROVE  OrderInv'
<1>1. /\ AtStepOf(w, s) /\ JobGone(w) /\ Recovering(w)
      /\ UNCHANGED panelVars \/ Whole(s)
      /\ \/ row.id = jobs[w].id /\ row' = [row EXCEPT !.recover = "Failed", !.step = s]
         \/ row.id # jobs[w].id /\ row' = row
  <2>1. AtStepOf(w, s) /\ JobGone(w) /\ Recovering(w) /\ (UNCHANGED panelVars \/ Whole(s))
        /\ Save(w, [row EXCEPT !.recover = "Failed", !.step = s], history) /\ Restoring(w)
    BY DEF RecoverFails, AtStepOf, Restoring
  <2>2. "unsaved" \notin history'
    BY DEF Sound
  <2> QED
    BY <2>1, <2>2, SaveIs
<1>2. Touches(s)
  <2>1. UNCHANGED panelVars => Touches(s)
    BY DEF Touches
  <2> QED
    BY <1>1, <2>1, WholeTouches
<1>3. \A v \in Workers : Recovering(v) \/ RollingBack(v) => v = w
  BY IdleKinds
<1>4. NoRollback
  BY <1>1, <1>3, IdleKinds DEF NoRollback
<1>5. CopyHarmless' /\ FileHarmless' /\ DbAfterOthers' /\ FileBefore'
  BY <1>1, <1>2, <1>4, OrderFiles
<1>6. \A v \in Workers : ~Restoring(v)'
  BY <1>1, IdleKinds, Same DEF JobGone
<1>7. row \in RowType
  BY DEF TypeInv, TypeOK
<1>8. RowOrder'
  <2> SUFFICES ASSUME Resumes(row'.step)
               PROVE  /\ \A f \in Files \ Remaining(row'.step) : panel'[f] = "after"
                      /\ panel'["db"] # "before" => Remaining(row'.step) \subseteq {"db"}
    BY DEF RowOrder, DoneBut, DbLast
  <2>1. row'.step = s
    <3>1. CASE row.id = jobs[w].id
      BY <1>1, <1>7, <3>1 DEF RowType
    <3>2. CASE row.id # jobs[w].id
      <4>1. row' = row
        BY <1>1, <3>2
      <4> QED
        BY <1>1, <3>2, <4>1 DEF OrderInv, TodoOrder
    <3> QED
      BY <3>1, <3>2
  <2>2. s \notin RecoverAlways
    BY <2>1 DEF Resumes
  <2>3. /\ Left(jobs[w].todo) = Remaining(s) /\ "RecoverDBData" \in jobs[w].todo
        /\ s = "RecoverDBData" => Left(jobs[w].todo) = {"db"}
    BY <1>1, <2>2, AllAhead
  <2>4. DoneBut(Remaining(s)) /\ DbLast(Remaining(s))
    BY <1>1, <2>3 DEF OrderInv, TodoOrder
  <2>5. \A f \in Files \ FilesOf(s) : panel'[f] = panel[f]
    BY <1>2, StepFiles DEF TypeInv
  <2>6. FilesOf(s) \subseteq Remaining(s)
    <3>1. s \in jobs[w].todo
      BY DEF RecoverFails, AtStepOf
    <3>2. FilesOf(s) \subseteq Left(jobs[w].todo)
      BY <3>1 DEF Left
    <3> QED
      BY <2>3, <3>2
  <2>7. "db" \in FilesOf(s) => Remaining(s) = {"db"}
    BY <2>3, FilesOfStep
  <2> QED
    <3>1. \A f \in Files \ Remaining(s) : panel'[f] = "after"
      BY <2>4, <2>5, <2>6 DEF DoneBut
    <3>2. panel'["db"] # "before" => Remaining(s) \subseteq {"db"}
      BY <2>4, <2>5, <2>7, FilesOfStep DEF DbLast
    <3> QED
      BY <2>1, <3>1, <3>2
<1> QED
  BY <1>5, <1>6, <1>8, OrderNone

\* Every step keeps the invariant of the order.
LEMMA OrderStep == TypeInv /\ OriginalInv /\ OrderInv /\ [Next]_vars => OrderInv'
<1> SUFFICES ASSUME TypeInv, OriginalInv, OrderInv, [Next]_vars, Sound' PROVE OrderInv'
  BY DEF OrderInv
<1>0. /\ row \in RowType /\ CopiesOK
      /\ Orderly => \A v, w \in Workers : Restoring(v) /\ Restoring(w) => v = w
  BY DEF TypeInv, TypeOK, RowsOK, OriginalInv
<1>1. CASE Quiet
  <2>1. Sound
    BY <1>1 DEF Quiet, Sound, Orderly
  <2> QED
    BY <1>1, <2>1, OrderKept DEF Quiet
<1>2. CASE Fresh
  <2>1. /\ panel'["db"] = "before" /\ original'["db"] = "none" /\ ~dbGone'
        /\ ~Resumes(row'.step)
    BY <1>2, FilesOfStep DEF Fresh, Pristine, Untouched, NoOriginal, Resumes, Later
  <2>2. CopyHarmless' /\ FileHarmless' /\ DbAfterOthers' /\ FileBefore' /\ RowOrder'
    BY <2>1 DEF CopyHarmless, FileHarmless, DbAfterOthers, FileBefore, RowOrder
  <2> QED
    BY <1>2, <2>2, OrderNone DEF Fresh
<1>3. CASE RowImported
  <2>1. Sound /\ row'.step = "" /\ UNCHANGED panelVars /\ up' = up /\ jobs' = jobs
    BY <1>3 DEF RowImported, Sound, Orderly
  <2> QED
    BY <2>1, NoRowHarmless, OrderKept
<1>4. CASE RowDeleted
  <2>1. Sound /\ row' = NoRow /\ UNCHANGED panelVars /\ up' = up /\ jobs' = jobs
    BY <1>4 DEF RowDeleted, Sound, Orderly
  <2> QED
    BY <2>1, NoRowHarmless, OrderKept
<1>5. CASE AllStop
  <2>1. Sound /\ NoRollback
    BY <1>5 DEF AllStop, Sound, Orderly, NoRollback
  <2>2. up' = FALSE /\ row' = row /\ UNCHANGED panelVars /\ panel' = panel /\ dbGone' = dbGone
    BY <1>5 DEF AllStop, panelVars
  <2>3. CopyHarmless' /\ FileHarmless' /\ DbAfterOthers' /\ FileBefore'
    BY <2>1, <2>2, FilesSame DEF OrderInv
  <2>4. RowOrder'
    BY <2>1, <2>2 DEF OrderInv, RowOrder, DoneBut, DbLast
  <2>5. \A v \in Workers : ~Restoring(v)'
    BY <1>5, IdleKinds DEF AllStop
  <2> QED
    BY <2>3, <2>4, <2>5, OrderNone
<1>6. CASE Reopened
  <2>1. Sound /\ \A v \in Workers : ~Recovering(v) /\ ~RollingBack(v)
    BY <1>6, IdleKinds DEF Reopened, Sound, Orderly, Alone, Busy
  <2>2. /\ ~dbGone' /\ jobs' = jobs /\ panel' = panel /\ original' = original /\ kept' = kept
        /\ row'.step = RowOnDisk.step /\ Alone
    BY <1>6 DEF Reopened
  <2>3. /\ CopyHarmless /\ FileHarmless /\ DbAfterOthers /\ FileBefore /\ RowOrder
    BY <2>1 DEF OrderInv, NoRollback
  <2>4. CopyHarmless' /\ FileHarmless' /\ DbAfterOthers' /\ FileBefore'
    BY <2>2, <2>3 DEF CopyHarmless, Harmless, FileHarmless, DbAfterOthers, DoneBut, FileBefore
  <2>5. RowOrder'
    <3> SUFFICES ASSUME Resumes(row'.step)
                 PROVE  /\ \A f \in Files \ Remaining(row'.step) : panel'[f] = "after"
                        /\ panel'["db"] # "before" => Remaining(row'.step) \subseteq {"db"}
      BY DEF RowOrder, DoneBut, DbLast
    <3>1. CASE dbGone
      <4>1. row'.step = file.step /\ Resumes(file.step)
        BY <2>2, <3>1 DEF RowOnDisk
      <4>2. Remaining(file.step) = Files /\ panel["db"] = "before"
        BY <2>3, <3>1, <4>1, NoRowHarmless DEF FileHarmless, Harmless, FileBefore
      <4> QED
        BY <2>2, <4>1, <4>2
    <3>2. CASE ~dbGone
      <4>1. row'.step = row.step
        BY <2>2, <3>2 DEF RowOnDisk
      <4>2. DoneBut(Remaining(row.step)) /\ DbLast(Remaining(row.step))
        BY <2>3, <3>2, <4>1 DEF RowOrder
      <4> QED
        BY <2>2, <4>1, <4>2 DEF DoneBut, DbLast
    <3> QED
      BY <3>1, <3>2
  <2>6. \A v \in Workers : ~Restoring(v)'
    BY <2>1, <2>2, Same, IdleKinds
  <2> QED
    BY <2>4, <2>5, <2>6, OrderNone
<1>7. ASSUME NEW all \in BOOLEAN, RecoverBegins(all) PROVE OrderInv'
  <2>1. Sound /\ row' = [row EXCEPT !.recover = "Waiting"] /\ UNCHANGED panelVars /\ up' = up
    BY <1>7 DEF RecoverBegins, Sound, Orderly
  <2>2. CASE jobs' = jobs
    <3>1. row'.id = row.id /\ row'.step = row.step
      BY <1>0, <2>1 DEF RowType
    <3> QED
      BY <2>1, <2>2, <3>1, OrderKept
  <2>3. CASE jobs' # jobs
    <3>1. AddsJob("recover", RecoverTodo(all)) /\ Alone /\ (all => Restored)
      BY <1>7, <2>3 DEF RecoverBegins, Sound
    <3> QED
      BY <1>7, <2>1, <3>1, OrderBegins
  <2> QED
    BY <2>2, <2>3
<1>8. CASE RollbackBegins
  <2>1. Sound /\ Alone /\ UNCHANGED panelVars /\ row' = row
    BY <1>8 DEF RollbackBegins, Sound, Orderly
  <2>2. PICK w \in Workers :
          /\ jobs'[w].kind = "rollback" /\ jobs'[w].id = row.id
          /\ \A v \in Workers \ {w} : jobs'[v] = jobs[v]
    BY <1>8 DEF RollbackBegins, AddsJob
  <2>3. RollingBack(w)'
    BY <2>2 DEF RollingBack
  <2>4. \A v \in Workers : Restoring(v)' => v = w
    BY <2>1, <2>2, IdleKinds DEF Alone, Busy
  <2>5. CopyHarmless' /\ FileHarmless'
    BY <2>1, FilesSame DEF OrderInv
  <2> QED
    BY <2>1, <2>2, <2>3, <2>4, <2>5, OrderRollingBack
<1>9. ASSUME NEW w \in Workers, NEW s \in RecoverNames, RecoverStep(w, s) \/ RecoverFails(w, s)
      PROVE  OrderInv'
  <2>1. Sound /\ Recovering(w)
    BY <1>9, SavedCauses DEF RecoverStep, RecoverFails, AtStepOf, Sound, Orderly
  <2>2. \A v \in Workers : Restoring(v) => v = w
    BY <1>0, <2>1, IdleKinds DEF Sound
  <2> QED
    BY <1>9, <2>1, <2>2, OrderAtStep, OrderFails
<1>10. ASSUME NEW w \in Workers, NEW files \in SUBSET Restorable, RollbackStep(w, files)
       PROVE  OrderInv'
  <2>1. /\ Sound /\ RollingBack(w) /\ StepTaken(w, "Rollback") /\ PutBack(files, {})
    BY <1>10 DEF RollbackStep, Sound, Orderly
  <2>2. /\ "db" \in files => original["db"] # "none"
        /\ file' = file \/ (file' = kept /\ "db" \in files)
        /\ row' = row \/ (row' = kept /\ "db" \in files)
        /\ original' = original /\ kept' = kept /\ dbGone' = dbGone
    BY <2>1 DEF PutBack
  <2>3. CopyHarmless /\ FileHarmless /\ BackHarmless
    BY <2>1 DEF OrderInv
  <2>4. CopyHarmless' /\ FileHarmless'
    BY <2>2, <2>3 DEF CopyHarmless, FileHarmless, Harmless
  <2>5. jobs'[w].id # row'.id => Harmless(row'.step)
    <3>1. jobs'[w].id = jobs[w].id
      BY <2>1, TakenKinds
    <3> QED
      BY <2>1, <2>2, <2>3, <3>1 DEF BackHarmless, CopyHarmless
  <2>6. RollingBack(w)' /\ \A v \in Workers : Restoring(v)' => v = w
    BY <1>0, <2>1, TakenKinds, IdleKinds DEF Sound
  <2> QED
    BY <2>4, <2>5, <2>6, OrderRollingBack
<1>11. ASSUME NEW w \in Workers, RollbackFails(w) PROVE OrderInv'
  BY <1>11, SavedCauses DEF RollbackFails, Sound
<1>12. ASSUME NEW w \in Workers, RollbackEnds(w) PROVE OrderInv'
  <2>1. /\ RollingBack(w) /\ jobs[w].todo = {} /\ JobGone(w)
        /\ \/ row.id # jobs[w].id /\ row' = row
           \/ /\ row.id = jobs[w].id
              /\ row' = [row EXCEPT !.recover = "", !.rollback = "", !.step = ""]
        /\ original' = NoOriginal
        /\ UNCHANGED <<up, panel, kept, dbGone, file>>
        /\ AllBack(w) \/ Sound
    <3> DEFINE causes == IF AllBack(w)
                         THEN history \ {"anew", "beside", "halfBack", "killed", "skipped"}
                         ELSE history
    <3>1. /\ RollingBack(w) /\ Restoring(w) /\ jobs[w].todo = {} /\ JobGone(w)
          /\ Save(w, [row EXCEPT !.recover = "", !.rollback = "", !.step = ""], causes)
          /\ original' = NoOriginal
          /\ UNCHANGED <<up, panel, kept, dbGone, file>>
      BY <1>12 DEF RollbackEnds, Restoring
    <3>2. ~AllBack(w) => causes = history
      OBVIOUS
    <3>3. "unsaved" \notin history'
      BY DEF Sound
    <3> HIDE DEF causes
    <3>4. \/ row.id # jobs[w].id /\ row' = row /\ history' = causes
          \/ /\ row.id = jobs[w].id /\ history' = causes
             /\ row' = [row EXCEPT !.recover = "", !.rollback = "", !.step = ""]
      BY <3>1, <3>3, SaveIs
    <3> QED
      BY <3>1, <3>2, <3>4 DEF Sound, Orderly
  <2>2. panel["db"] = "before" /\ \A v \in Workers : Restoring(v) => v = w
    <3>1. CASE AllBack(w)
      BY <3>1, FilesOfStep, IdleKinds DEF AllBack, Busy, Restored
    <3>2. CASE Sound
      BY <1>0, <2>1, <3>2, FilesOfStep, IdleKinds DEF OriginalInv, Returned, Sound
    <3> QED
      BY <2>1, <3>1, <3>2
  <2>3. panel'["db"] = "before"
    BY <2>1, <2>2
  <2>4. \A v \in Workers : ~Restoring(v)'
    BY <2>1, <2>2, IdleKinds, Same DEF JobGone
  <2>5. CopyHarmless' /\ DbAfterOthers' /\ FileBefore'
    BY <2>1, <2>3, FilesOfStep DEF CopyHarmless, DbAfterOthers, FileBefore, NoOriginal
  <2>6. FileHarmless'
    <3>1. CASE AllBack(w)
      BY <2>1, <3>1, NoRowHarmless DEF AllBack, FileHarmless
    <3>2. CASE Sound
      BY <2>1, <3>2 DEF OrderInv, FileHarmless, Harmless
    <3> QED
      BY <2>1, <3>1, <3>2
  <2>7. RowOrder'
    <3>1. CASE row.id = jobs[w].id
      <4>1. row'.step = ""
        BY <1>0, <2>1, <3>1 DEF RowType
      <4> QED
        BY <4>1, NoRowHarmless DEF RowOrder
    <3>2. CASE row.id # jobs[w].id
      <4>1. row' = row /\ Sound
        BY <2>1, <3>2 DEF AllBack
      <4>2. Resumes(row.step) => Remaining(row.step) = Files
        BY <2>1, <3>2, <4>1 DEF OrderInv, BackHarmless, Harmless
      <4> QED
        BY <2>3, <4>1, <4>2 DEF RowOrder, DoneBut, DbLast
    <3> QED
      BY <3>1, <3>2
  <2> QED
    BY <2>4, <2>5, <2>6, <2>7, OrderNone
<1> QED
  BY <1>1, <1>2, <1>3, <1>4, <1>5, <1>6, <1>7, <1>8, <1>9, <1>10, <1>11, <1>12, Cases
     DEF RestoreStep

\* The invariant of the order holds in every reachable state.
THEOREM OrderInvariant == Spec => []OrderInv
BY TypeInvariant, OriginalInvariant, OrderInit, OrderStep, PTL DEF Spec

\* The database of the panel is replaced only when all its other files are, on every path
\* of failures, crashes, restarts and retries but for the causes named there.
THEOREM DbIsReplacedLastHolds == Spec => []DbIsReplacedLast
<1>1. OrderInv => DbIsReplacedLast
  <2> SUFFICES ASSUME OrderInv,
                      history \cap {"anew", "halfBack", "beside", "unsaved", "skipped"} = {},
                      "rollback" \notin Kinds, panel["db"] # "before"
               PROVE  \A f \in Files \ {"db"} : panel[f] = "after"
    BY DEF DbIsReplacedLast
  <2>1. Sound /\ NoRollback
    BY DEF Sound, Orderly, NoRollback, RollingBack, Kinds
  <2> QED
    BY <2>1 DEF OrderInv, DbAfterOthers, DoneBut
<1> QED
  BY <1>1, OrderInvariant, PTL

-----------------------------------------------------------------------------
(* The way back from a recovery that failed. *)

\* When the way back can be told: also a rollback finds all of the copy, no task was killed,
\* no row in use deleted and no database opened anew.
Known == ~SitesInside /\ Sound /\ history \cap {"killed", "forgotten", "reopened"} = {}

\* The copy is complete.
Kept == \A f \in Restorable : original[f] = "before"

\* The invariant of the way back: what is past the copy has a complete one, a rollback that
\* failed is not in question, and a panel that a failed recovery has changed has a row that
\* says from which step on.
WayInv == Known =>
    /\ row.rollback = ""
    /\ PastCopy => Kept
    /\ PastCopy /\ ~dbGone => kept.rollback = ""
    /\ \A w \in Workers : Recovering(w) =>
          "RecoverDBData" \in jobs[w].todo \/ dbGone \/ row.step \in Later
    /\ /\ ~Restored /\ row.recover # "" /\ (up \/ ~dbGone)
       /\ \A w \in Workers : ~Restoring(w)
       => row.step \in Later

\* The row that is not there tells of no recovery.
LEMMA NoRowRests ==
    NoRow.recover = "" /\ NoRow.rollback = "" /\ NoRow.step = "" /\ "" \notin Later
BY DEF NoRow, Later, RecoverNames

\* A row that tells of no recovery.
LEMMA WayBlank ==
    ASSUME \A w \in Workers : ~Restoring(w)',
           row'.rollback = "", row'.step \notin Later,
           row'.recover = "" \/ Restored'
    PROVE  WayInv'
<1>1. \A w \in Workers : ~Recovering(w)' /\ ~RollingBack(w)'
  BY IdleKinds
<1>2. ~PastCopy'
  BY <1>1 DEF PastCopy, Copied
<1> QED
  BY <1>1, <1>2 DEF WayInv

\* Nothing is restored any more.
LEMMA WayNone ==
    ASSUME \A w \in Workers : ~Restoring(w)', row'.rollback = "",
           row'.step \in Later => /\ \A f \in Restorable : original'[f] = "before"
                                  /\ ~dbGone' => kept'.rollback = "",
           ~Restored' /\ row'.recover # "" /\ (up' \/ ~dbGone') => row'.step \in Later
    PROVE  WayInv'
<1>1. \A w \in Workers : ~Recovering(w)' /\ ~RollingBack(w)'
  BY IdleKinds
<1>2. PastCopy' => row'.step \in Later
  BY <1>1 DEF PastCopy, Copied
<1> QED
  BY <1>1, <1>2 DEF WayInv, Kept

\* One task is at it.
LEMMA WayOne ==
    ASSUME NEW w \in Workers, \A v \in Workers : Restoring(v)' => v = w, Restoring(w)',
           row'.rollback = "",
           PastCopy' => /\ \A f \in Restorable : original'[f] = "before"
                        /\ ~dbGone' => kept'.rollback = "",
           Recovering(w)' => "RecoverDBData" \in jobs'[w].todo \/ dbGone' \/ row'.step \in Later
    PROVE  WayInv'
<1>1. \A v \in Workers : Recovering(v)' => v = w
  BY IdleKinds
<1> QED
  BY <1>1 DEF WayInv, Kept

\* The invariant of the way back holds at the start.
LEMMA WayInit == Init => WayInv
<1> SUFFICES ASSUME Init PROVE WayInv
  OBVIOUS
<1>1. \A w \in Workers : ~Restoring(w) /\ ~Recovering(w) /\ ~RollingBack(w)
  BY IdleKinds DEF Init
<1>2. row.step \notin Later /\ row.rollback = "" /\ row.recover = ""
  BY NoRowRests DEF Init
<1> QED
  BY <1>1, <1>2 DEF WayInv, PastCopy, Copied

\* A recovery begins, or cannot.
LEMMA WayBegins ==
    ASSUME TypeInv, WayInv, Known, Orderly', NEW all \in BOOLEAN, RecoverBegins(all)
    PROVE  WayInv'
<1>1. row \in RowType /\ row' = [row EXCEPT !.recover = "Waiting"] /\ up /\ up' = up
      /\ panel' = panel /\ dbGone' = dbGone /\ kept' = kept /\ original' = original
  BY DEF TypeInv, TypeOK, RecoverBegins, panelVars
<1>2. row'.id = row.id /\ row'.step = row.step /\ row'.rollback = row.rollback
  BY <1>1 DEF RowType
<1>3. (all => Restored) /\ (~all => row.step \in Later)
  BY RecoverPlanOK DEF RecoverBegins
<1>4. row.rollback = "" /\ (PastCopy => Kept) /\ (PastCopy /\ ~dbGone => kept.rollback = "")
  BY DEF WayInv
<1>5. CASE jobs' = jobs
  <2>1. \A v \in Workers : /\ Recovering(v)' = Recovering(v) /\ RollingBack(v)' = RollingBack(v)
                           /\ Restoring(v)' = Restoring(v)
    BY <1>5, Same
  <2>2. PastCopy' => PastCopy
    BY <1>2, <1>5, <2>1 DEF PastCopy, Copied
  <2>3. ~Restored' => row'.step \in Later
    BY <1>1, <1>2, <1>3 DEF Restored
  <2> QED
    BY <1>1, <1>2, <1>4, <1>5, <2>1, <2>2, <2>3 DEF WayInv, Kept
<1>6. CASE jobs' # jobs
  <2>1. Alone
    BY <1>6 DEF RecoverBegins
  <2>2. PICK w \in Workers :
          /\ jobs'[w].kind = "recover" /\ jobs'[w].todo = RecoverTodo(all)
          /\ \A v \in Workers \ {w} : jobs'[v] = jobs[v]
    BY <1>6 DEF RecoverBegins, AddsJob
  <2>3. Recovering(w)' /\ ~RollingBack(w)'
    BY <2>2 DEF Recovering, RollingBack
  <2>4. \A v \in Workers \ {w} : ~Restoring(v)'
    BY <2>1, <2>2, IdleKinds DEF Alone, Busy
  <2>5. all => RecoverTodo(all) = RecoverNames
    BY RecoverPlanOK DEF RecoverBegins
  <2>6. "RecoverDBData" \in RecoverNames /\ "BackupBeforeRecover" \in RecoverNames
    BY DEF RecoverNames
  <2>7. PastCopy' => PastCopy
    <3>1. Copied(w)' => row.step \in Later
      BY <1>3, <2>2, <2>5, <2>6 DEF Copied
    <3>2. \A v \in Workers : Copied(v)' \/ RollingBack(v)' => v = w
      BY <2>4, IdleKinds DEF Copied
    <3> QED
      BY <1>2, <2>3, <3>1, <3>2 DEF PastCopy
  <2>8. PastCopy' => /\ \A f \in Restorable : original'[f] = "before"
                     /\ ~dbGone' => kept'.rollback = ""
    BY <1>1, <1>4, <2>7 DEF Kept
  <2>9. "RecoverDBData" \in jobs'[w].todo \/ row'.step \in Later
    BY <1>2, <1>3, <2>2, <2>5, <2>6
  <2> QED
    BY <1>2, <1>4, <2>3, <2>4, <2>8, <2>9, IdleKinds, WayOne
<1> QED
  BY <1>5, <1>6

\* What a step of a recovery does to the copy of the panel.
LEMMA CopyOfPanel ==
    ASSUME OriginalInv, Orderly, ~SitesInside,
           NEW w \in Workers, NEW s \in RecoverNames, AtStepOf(w, s), Touches(s)
    PROVE  /\ Kept => \A f \in Restorable : original'[f] = "before"
           /\ s = "BackupBeforeRecover" /\ Whole(s) =>
                 \A f \in Restorable : original'[f] = "before"
<1>1. s = "BackupBeforeRecover" => \A f \in Restorable : panel[f] = "before"
  BY DEF OriginalInv, AtStepOf, Restored
<1>2. Kept => \A f \in Restorable : original'[f] = "before"
  <2>1. CASE UNCHANGED panelVars
    BY <2>1 DEF panelVars, Kept
  <2>2. CASE s = "BackupBeforeRecover" /\ \E files \in SUBSET Restorable : Keep(files, {})
    BY <1>1, <2>2 DEF Keep, Kept
  <2>3. CASE \E state \in {"mixed", "after"} : Overwrite(FilesOf(s), state)
    BY <2>3 DEF Overwrite, Kept
  <2> QED
    BY <2>1, <2>2, <2>3 DEF Touches
<1>3. s = "BackupBeforeRecover" /\ Whole(s) => \A f \in Restorable : original'[f] = "before"
  BY <1>1 DEF Whole, Keep, Findable
<1> QED
  BY <1>2, <1>3

\* A step of a recovery, whole or half, keeps the way back,
LEMMA WayAtStep ==
    ASSUME TypeInv, OriginalInv, WayInv, Known, Known',
           NEW w \in Workers, NEW s \in RecoverNames, RecoverStep(w, s)
    PROVE  WayInv'
<1>1. /\ AtStepOf(w, s) /\ StepTaken(w, s) /\ Touches(s) /\ Recovering(w)
      /\ jobs'[w].todo = jobs[w].todo \/ (Whole(s) /\ jobs'[w].todo = jobs[w].todo \ {s})
      /\ row' = row
  BY DEF RecoverStep, AtStepOf, StepTaken, Known, Sound, Orderly
<1>2. Orderly /\ \A v \in Workers : Restoring(v) => v = w
  BY <1>1, IdleKinds DEF OriginalInv, Known, Sound
<1>3. Restoring(w)' /\ Recovering(w)' /\ \A v \in Workers : Restoring(v)' => v = w
  BY <1>1, <1>2, TakenKinds, IdleKinds
<1>4. /\ row.rollback = "" /\ (PastCopy => Kept) /\ (PastCopy /\ ~dbGone => kept.rollback = "")
      /\ "RecoverDBData" \in jobs[w].todo \/ dbGone \/ row.step \in Later
  BY <1>1 DEF WayInv
<1>5. /\ ~dbGone' => ~dbGone /\ kept' \in {kept, row}
      /\ s # "BackupBeforeRecover" => kept' = kept
  BY <1>1, CopyOfRow DEF Changes
<1>6. PastCopy' => PastCopy \/ (s = "BackupBeforeRecover" /\ Whole(s))
  <2>1. Copied(w)' => Copied(w) \/ (s = "BackupBeforeRecover" /\ Whole(s))
    BY <1>1 DEF Copied
  <2>2. \A v \in Workers : Copied(v)' \/ RollingBack(v)' => v = w /\ ~RollingBack(w)'
    BY <1>3, IdleKinds DEF Copied
  <2> QED
    BY <1>1, <2>1, <2>2 DEF PastCopy
<1>7. PastCopy' => \A f \in Restorable : original'[f] = "before"
  BY <1>1, <1>2, <1>4, <1>6, CopyOfPanel DEF Known
<1>8. PastCopy' /\ ~dbGone' => kept'.rollback = ""
  <2>1. CASE PastCopy
    BY <1>4, <1>5, <2>1
  <2>2. CASE s = "BackupBeforeRecover" /\ Whole(s)
    <3>1. kept' = RowOnDisk
      BY <2>2 DEF Whole, Keep, Findable, Restorable
    <3> QED
      BY <1>4, <1>5, <3>1 DEF RowOnDisk
  <2> QED
    BY <1>6, <2>1, <2>2
<1>9. "RecoverDBData" \in jobs'[w].todo \/ dbGone' \/ row'.step \in Later
  <2>1. dbGone => dbGone'
    BY <1>1, StepFiles DEF TypeInv
  <2>2. s = "RecoverDBData" /\ Whole(s) => dbGone'
    BY FilesOfStep DEF Whole, Overwrite
  <2> QED
    BY <1>1, <1>4, <2>1, <2>2
<1> QED
  BY <1>1, <1>3, <1>4, <1>7, <1>8, <1>9, WayOne

\* a recovery that fails does,
LEMMA WayFails ==
    ASSUME TypeInv, OriginalInv, IdsInv, WayInv, Known, Known',
           NEW w \in Workers, NEW s \in RecoverNames, RecoverFails(w, s)
    PROVE  WayInv'
<1>1. AtStepOf(w, s) /\ JobGone(w) /\ Recovering(w) /\ (UNCHANGED panelVars \/ Whole(s))
  BY DEF RecoverFails, AtStepOf
<1>2. Save(w, [row EXCEPT !.recover = "Failed", !.step = s], history) /\ row \in RowType
  BY DEF RecoverFails, TypeInv, TypeOK
<1>3. Orderly /\ \A v \in Workers : Restoring(v) => v = w
  BY <1>1, IdleKinds DEF OriginalInv, Known, Sound
<1>4. jobs[w].id = row.id
  BY <1>1, IdleKinds DEF IdsInv, Known
<1>5. row'.step = s /\ row'.rollback = row.rollback
  <2>1. "unsaved" \notin history' /\ Restoring(w)
    BY <1>1 DEF Known, Sound, Restoring
  <2>2. row' = [row EXCEPT !.recover = "Failed", !.step = s]
    BY <1>2, <1>4, <2>1, SaveIs
  <2> QED
    BY <1>2, <2>2 DEF RowType
<1>6. \A v \in Workers : ~Restoring(v)'
  BY <1>1, <1>3, IdleKinds, Same DEF JobGone
<1>7. row.rollback = "" /\ (PastCopy => Kept) /\ (PastCopy /\ ~dbGone => kept.rollback = "")
  BY DEF WayInv
<1>8. CASE s \in Later
  <2>1. PastCopy
    BY <1>1, <1>8, CopiedIs DEF PastCopy
  <2>2. s # "BackupBeforeRecover"
    BY <1>8 DEF Later, BeforeChange
  <2>3. original' = original
    <3>1. CASE UNCHANGED panelVars
      BY <3>1 DEF panelVars
    <3>2. CASE Whole(s)
      BY <2>2, <3>2 DEF Whole, Overwrite, panelVars
    <3> QED
      BY <1>1, <3>1, <3>2
  <2>4. ~dbGone' => kept'.rollback = ""
    BY <1>1, <1>7, <2>1, <2>2, CopyOfRow
  <2> QED
    BY <1>5, <1>6, <1>7, <1>8, <2>1, <2>3, <2>4, WayNone DEF Kept
<1>9. CASE s \in BeforeChange
  <2>1. s \notin RecoverAlways /\ FilesOf(s) = {} /\ s \notin Later
    BY <1>9 DEF BeforeChange, RecoverAlways, FilesOf, Later
  <2>2. "BackupBeforeRecover" \in jobs[w].todo
    BY <1>1, <1>9, <2>1, AllAhead, FirstSteps
  <2>3. Restored
    BY <1>1, <1>3, <2>2 DEF OriginalInv
  <2>4. Restored'
    BY <1>1, <2>1, <2>3 DEF Whole, panelVars, Keep, Restored
  <2> QED
    BY <1>5, <1>6, <1>7, <2>1, <2>4, WayNone
<1> QED
  BY <1>1, <1>8, <1>9, CopiedIs

\* The steps of a rollback.
LEMMA WayBackwards ==
    ASSUME TypeInv, OriginalInv, WayInv, Known,
           NEW w \in Workers, NEW files \in SUBSET Restorable, RollbackStep(w, files)
    PROVE  WayInv'
<1>1. /\ RollingBack(w) /\ StepTaken(w, "Rollback")
      /\ row' = row \/ (row' = kept /\ ~dbGone)
      /\ original' = original /\ kept' = kept /\ dbGone' = dbGone
  BY DEF RollbackStep, PutBack
<1>2. \A v \in Workers : Restoring(v) => v = w
  BY <1>1, IdleKinds DEF OriginalInv, Known, Sound
<1>3. PastCopy
  BY <1>1 DEF PastCopy
<1>4. row.rollback = "" /\ Kept /\ (~dbGone => kept.rollback = "")
  BY <1>3 DEF WayInv
<1>5. Restoring(w)' /\ ~Recovering(w)' /\ \A v \in Workers : Restoring(v)' => v = w
  BY <1>1, <1>2, TakenKinds, IdleKinds
<1>6. row'.rollback = ""
  BY <1>1, <1>4
<1> QED
  BY <1>1, <1>4, <1>5, <1>6, WayOne DEF Kept

\* and the end of a rollback needs none.
LEMMA WayEnds ==
    ASSUME TypeInv, OriginalInv, IdsInv, WayInv, Known', NEW w \in Workers, RollbackEnds(w)
    PROVE  WayInv'
<1>1. /\ RollingBack(w) /\ jobs[w].todo = {} /\ JobGone(w)
      /\ panel' = panel /\ row \in RowType
      /\ row.id = jobs[w].id =>
            row' = [row EXCEPT !.recover = "", !.rollback = "", !.step = ""]
      /\ AllBack(w) \/ Known
  <2> DEFINE causes == IF AllBack(w)
                       THEN history \ {"anew", "beside", "halfBack", "killed", "skipped"}
                       ELSE history
  <2>1. /\ RollingBack(w) /\ Restoring(w) /\ jobs[w].todo = {} /\ JobGone(w)
        /\ Save(w, [row EXCEPT !.recover = "", !.rollback = "", !.step = ""], causes)
        /\ panel' = panel /\ row \in RowType
    BY DEF RollbackEnds, Restoring, TypeInv, TypeOK
  <2>2. ~AllBack(w) => causes = history
    OBVIOUS
  <2>3. "unsaved" \notin history'
    BY DEF Known, Sound
  <2> HIDE DEF causes
  <2>4. \/ row.id # jobs[w].id /\ row' = row /\ history' = causes
        \/ /\ row.id = jobs[w].id /\ history' = causes
           /\ row' = [row EXCEPT !.recover = "", !.rollback = "", !.step = ""]
    BY <2>1, <2>3, SaveIs
  <2> QED
    BY <2>1, <2>2, <2>4 DEF Known, Sound, Orderly
<1>2. Restored /\ row.id = jobs[w].id /\ \A v \in Workers : Restoring(v) => v = w
  <2>1. CASE AllBack(w)
    BY <2>1, IdleKinds DEF AllBack, Busy
  <2>2. CASE Known
    <3>1. Kept /\ Returned
      BY <1>1, <2>2 DEF WayInv, PastCopy, OriginalInv, Known, Sound
    <3>2. Restored
      BY <3>1 DEF Kept, Returned, Restored, Restorable
    <3> QED
      BY <1>1, <2>2, <3>2, IdleKinds DEF OriginalInv, IdsInv, Known, Sound
  <2> QED
    BY <1>1, <2>1, <2>2
<1>3. row'.rollback = "" /\ row'.step = "" /\ Restored'
  BY <1>1, <1>2 DEF RowType, Restored
<1>4. \A v \in Workers : ~Restoring(v)'
  BY <1>1, <1>2, IdleKinds, Same DEF JobGone
<1> QED
  BY <1>3, <1>4, NoRowRests, WayBlank

\* Every step keeps the invariant of the way back.
LEMMA WayStep == TypeInv /\ OriginalInv /\ IdsInv /\ WayInv /\ [Next]_vars => WayInv'
<1> SUFFICES ASSUME TypeInv, OriginalInv, IdsInv, WayInv, [Next]_vars, Known' PROVE WayInv'
  BY DEF WayInv
<1>1. CASE Quiet
  <2>1. /\ Known /\ row' = row /\ up' = up /\ panel' = panel /\ original' = original
        /\ kept' = kept /\ dbGone' = dbGone
    BY <1>1 DEF Quiet, Known, Sound, Orderly, panelVars
  <2>2. \A v \in Workers : /\ Restoring(v)' = Restoring(v) /\ Recovering(v)' = Recovering(v)
                           /\ RollingBack(v)' = RollingBack(v)
                           /\ Restoring(v) => jobs'[v] = jobs[v]
    BY <1>1 DEF Quiet, Restoring, Recovering, RollingBack
  <2>3. \A v \in Workers : Copied(v)' = Copied(v)
    BY <2>2 DEF Copied, Restoring
  <2>4. PastCopy' = PastCopy
    BY <2>1, <2>2, <2>3 DEF PastCopy
  <2>5. \A v \in Workers : Recovering(v)' => Recovering(v) /\ jobs'[v] = jobs[v]
    BY <2>2, IdleKinds
  <2>6. Restored' <=> Restored
    BY <2>1 DEF Restored
  <2> QED
    BY <2>1, <2>2, <2>4, <2>5, <2>6 DEF WayInv, Kept
<1>2. CASE Fresh
  <2>1. Restored' /\ row'.step \notin Later
    BY <1>2 DEF Fresh, Pristine, Later, Restored, Untouched, Files
  <2> QED
    BY <1>2, <2>1, WayBlank DEF Fresh
<1>3. CASE RowImported
  <2>1. Known /\ row = NoRow /\ jobs' = jobs
    BY <1>3 DEF RowImported, Known, Sound, Orderly
  <2>2. \A v \in Workers : ~Restoring(v)'
    BY <2>1, RestoringRow, NoRowTyped, Same DEF IdsInv, Known
  <2> QED
    BY <1>3, <2>2, NoRowRests, WayBlank DEF RowImported
<1>4. CASE RowDeleted
  <2>1. row' = NoRow /\ \A v \in Workers : ~Restoring(v)'
    BY <1>4, IdleKinds DEF RowDeleted, Known, Alone, Busy
  <2> QED
    BY <2>1, NoRowRests, WayBlank
<1>5. CASE AllStop
  <2>1. /\ Known /\ NoRollback /\ \A v \in Workers : Recovering(v) => jobs[v].todo = {}
        /\ up' = FALSE /\ row' = row /\ panel' = panel /\ original' = original
        /\ kept' = kept /\ dbGone' = dbGone
    BY <1>5 DEF AllStop, Known, Sound, Orderly, NoRollback, panelVars
  <2>2. \A v \in Workers : ~Restoring(v)'
    BY <1>5, IdleKinds DEF AllStop
  <2>3. row.step \in Later => PastCopy
    BY DEF PastCopy
  <2>4. ~Restored /\ row.recover # "" /\ ~dbGone => row.step \in Later
    <3>1. CASE \E v \in Workers : Recovering(v)
      BY <2>1, <3>1 DEF WayInv
    <3>2. CASE \A v \in Workers : ~Recovering(v)
      BY <2>1, <3>2, IdleKinds DEF WayInv, NoRollback
    <3> QED
      BY <3>1, <3>2
  <2> QED
    BY <2>1, <2>2, <2>3, <2>4, WayNone DEF WayInv, Kept, Restored
<1>6. CASE Reopened
  <2>1. /\ Known /\ (dbGone => file = NoRow) /\ ~dbGone' /\ up' = TRUE /\ jobs' = jobs
        /\ panel' = panel /\ original' = original /\ kept' = kept
        /\ row'.step = RowOnDisk.step /\ row'.rollback = RowOnDisk.rollback
        /\ row'.recover = "" <=> RowOnDisk.recover = ""
    BY <1>6 DEF Reopened, Known, Sound, Orderly
  <2>2. \A v \in Workers : ~Restoring(v) /\ ~Restoring(v)'
    BY <1>6, IdleKinds, Same DEF Reopened, Alone, Busy
  <2>3. CASE dbGone
    <3>1. row'.step = "" /\ row'.rollback = "" /\ row'.recover = ""
      BY <2>1, <2>3, NoRowRests DEF RowOnDisk
    <3> QED
      BY <2>2, <3>1, NoRowRests, WayBlank
  <2>4. CASE ~dbGone
    <3>1. row'.step = row.step /\ row'.rollback = row.rollback
          /\ (row'.recover = "" <=> row.recover = "")
      BY <2>1, <2>4 DEF RowOnDisk
    <3>2. row.step \in Later => PastCopy
      BY DEF PastCopy
    <3> QED
      BY <2>1, <2>2, <2>4, <3>1, <3>2, WayNone DEF WayInv, Kept, Restored
  <2> QED
    BY <2>3, <2>4
<1>7. ASSUME NEW all \in BOOLEAN, RecoverBegins(all) PROVE WayInv'
  <2>1. Known /\ Orderly'
    BY <1>7 DEF RecoverBegins, Known, Sound, Orderly
  <2> QED
    BY <1>7, <2>1, WayBegins
<1>8. CASE RollbackBegins
  <2>1. /\ Known /\ Alone /\ row' = row /\ panel' = panel /\ original' = original
        /\ kept' = kept /\ dbGone' = dbGone /\ RollbackOffered /\ RowOK(row)
        /\ row.status = "Success"
    BY <1>8 DEF RollbackBegins, Known, Sound, Orderly, panelVars, TypeInv, RowsOK
  <2>2. PICK w \in Workers :
          /\ jobs'[w].kind = "rollback" /\ \A v \in Workers \ {w} : jobs'[v] = jobs[v]
    BY <1>8 DEF RollbackBegins, AddsJob
  <2>3. RollingBack(w)' /\ ~Recovering(w)' /\ Restoring(w)'
    BY <2>2 DEF RollingBack, Recovering, Restoring
  <2>4. \A v \in Workers : Restoring(v)' => v = w
    BY <2>1, <2>2, IdleKinds DEF Alone, Busy
  <2>5. row.rollback = "" /\ row.step \in Later
    BY <2>1 DEF WayInv, RollbackOffered, RowOK, Later
  <2>6. Kept /\ (~dbGone => kept.rollback = "")
    BY <2>1, <2>5 DEF WayInv, PastCopy
  <2> QED
    BY <2>1, <2>3, <2>4, <2>5, <2>6, WayOne DEF Kept
<1>9. ASSUME NEW w \in Workers, NEW s \in RecoverNames, RecoverStep(w, s) \/ RecoverFails(w, s)
      PROVE  WayInv'
  <2>1. Known
    BY <1>9, SavedCauses DEF RecoverStep, RecoverFails, Known, Sound, Orderly
  <2> QED
    BY <1>9, <2>1, WayAtStep, WayFails
<1>10. ASSUME NEW w \in Workers, NEW files \in SUBSET Restorable, RollbackStep(w, files)
       PROVE  WayInv'
  <2>1. Known
    BY <1>10 DEF RollbackStep, Known, Sound, Orderly
  <2> QED
    BY <1>10, <2>1, WayBackwards
<1>11. ASSUME NEW w \in Workers, RollbackFails(w) PROVE WayInv'
  BY <1>11, SavedCauses DEF RollbackFails, Known, Sound
<1>12. ASSUME NEW w \in Workers, RollbackEnds(w) PROVE WayInv'
  BY <1>12, WayEnds
<1> QED
  BY <1>1, <1>2, <1>3, <1>4, <1>5, <1>6, <1>7, <1>8, <1>9, <1>10, <1>11, <1>12, Cases
     DEF RestoreStep

\* The invariant of the way back holds in every reachable state.
THEOREM WayInvariant == Spec => []WayInv
BY TypeInvariant, OriginalInvariant, IdsInvariant, WayInit, WayStep, PTL DEF Spec

\* Whichever step of a recovery failed after it began to change the panel, the rollback is
\* offered and has a complete copy, where it looks for it, but for the causes named there.
THEOREM WayBackHolds == Spec => []WayBack
<1>1. TypeInv /\ WayInv => WayBack
  <2> SUFFICES ASSUME TypeInv, WayInv, ~SitesInside, up, Kinds = {},
                      row.recover = "Failed", ~Restored,
                      history \cap {"anew", "halfBack", "beside", "killed", "forgotten",
                                    "reopened", "unsaved", "skipped"} = {}
               PROVE  RollbackOffered /\ \A f \in Restorable : original[f] = "before"
    BY DEF WayBack
  <2>1. Known
    BY DEF Known, Sound, Orderly
  <2>2. \A w \in Workers : ~Restoring(w)
    BY DEF Kinds, Restoring, Recovering, RollingBack
  <2>3. row.step \in Later
    BY <2>1, <2>2 DEF WayInv
  <2>4. Kept
    BY <2>1, <2>3 DEF WayInv, PastCopy
  <2>5. row.step # ""
    BY <2>3, NoRowRests
  <2> QED
    BY <2>3, <2>4, <2>5 DEF Kept, RollbackOffered, Later
<1> QED
  BY <1>1, TypeInvariant, WayInvariant, PTL
=============================================================================
