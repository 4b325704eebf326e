------------------------- MODULE CronjobExecProofs -------------------------
(***************************************************************************)
(* Proofs about the executions of a cronjob, for all sets of entries and   *)
(* requests, every number of records and crashes, every type of job and    *)
(* every number of copies to retain.                                       *)
(***************************************************************************)
EXTENDS CronjobExec, FiniteSetTheorems, TLAPS

(* The type invariant, with what it needs to be inductive. *)

\* Records are numbered by created, and each caller on its way has room for its own.
RoomOK == created + Cardinality(Coming) <= MaxRecords

\* A process that is not running has its hook to run; the loop of the hook has a
\* turn left.
BootOK == /\ ~up => boot = "clear"
          /\ boot = "flag" => left >= 1

\* Callers past CreateRecord have a record, executions belong to records.
HasRecord ==
    /\ \A c \in Callers : pc[c] \in {"mark", "prepare", "failing"} => rec[c] \in 1..created
    /\ \A r \in Records : run[r] # "none" => r <= created

TypeInv == TypeOK /\ RoomOK /\ BootOK /\ HasRecord

\* The callers on their way are finitely many.
LEMMA ComingIsFinite ==
    /\ IsFiniteSet(Callers)
    /\ IsFiniteSet(Coming) /\ Cardinality(Coming) \in Nat
<1>1. IsFiniteSet(Callers)
  BY CallersAssumption, FS_Union DEF Callers
<1>2. IsFiniteSet(Coming)
  BY <1>1, FS_Subset DEF Coming
<1> QED
  BY <1>1, <1>2, FS_CardinalityType

\* A caller sets out.
LEMMA OneMoreComing ==
    ASSUME TypeInv, NEW c \in Callers, pc[c] = "idle", Room,
           pc' = [pc EXCEPT ![c] = "read"], created' = created
    PROVE  RoomOK'
<1>1. Coming' = Coming \cup {c}
  BY DEF TypeInv, TypeOK, Coming
<1>2. c \notin Coming
  BY DEF Coming
<1>3. Cardinality(Coming \cup {c}) = Cardinality(Coming) + 1
  BY <1>2, ComingIsFinite, FS_AddElement
<1> QED
  BY <1>1, <1>3, ComingIsFinite, MaxRecordsAssumption
     DEF TypeInv, TypeOK, RoomOK, Room

\* A caller writes its record.
LEMMA OneLessComing ==
    ASSUME TypeInv, NEW c \in Callers, NEW place, c \in Coming,
           place \notin {"read", "refuse", "create"},
           pc' = [pc EXCEPT ![c] = place], created' = created + 1
    PROVE  RoomOK' /\ created + 1 \in Records
<1>1. Coming' = Coming \ {c}
  BY DEF TypeInv, TypeOK, Coming
<1>2. /\ IsFiniteSet(Coming \ {c})
      /\ Cardinality(Coming \ {c}) = Cardinality(Coming) - 1
  BY ComingIsFinite, FS_RemoveElement
<1>3. Cardinality(Coming \ {c}) \in Nat
  BY <1>2, FS_CardinalityType
<1> QED
  BY <1>1, <1>2, <1>3, ComingIsFinite, MaxRecordsAssumption
     DEF TypeInv, TypeOK, RoomOK, Records

\* No other step changes who is coming.
LEMMA SameComing ==
    ASSUME TypeInv, Coming' = Coming, created' = created
    PROVE  RoomOK'
  BY DEF TypeInv, RoomOK

LEMMA TypeInit == Init => TypeInv
<1> SUFFICES ASSUME Init PROVE TypeInv
    OBVIOUS
<1>1. Coming = {}
  BY DEF Init, Coming
<1>2. RoomOK
  BY <1>1, FS_EmptySet, MaxRecordsAssumption DEF Init, RoomOK
<1>3. left \in 0..MaxRecords /\ crashes \in 0..MaxCrash /\ created \in 0..MaxRecords
  BY MaxRecordsAssumption, MaxCrashAssumption DEF Init
<1>4. /\ records \in [Records -> Statuses] /\ pc \in [Callers -> PCs]
      /\ rec \in [Callers -> 0..MaxRecords]
      /\ run \in [Records -> Runs] /\ result \in [Records -> {"none", "ok", "fail"}]
  BY MaxRecordsAssumption DEF Init, Statuses, PCs, Runs
<1>5. TypeOK
  BY <1>3, <1>4 DEF Init, TypeOK
<1>6. BootOK /\ HasRecord
  BY DEF Init, BootOK, HasRecord
<1> QED
  BY <1>2, <1>5, <1>6 DEF TypeInv

LEMMA TypeStep == TypeInv /\ [Next]_vars => TypeInv'
<1> SUFFICES ASSUME TypeInv, [Next]_vars PROVE TypeInv'
    OBVIOUS
<1> USE MaxRecordsAssumption DEF Records
<1>1. ASSUME NEW c \in Callers, Tick(c) \/ HandleOnce(c) PROVE TypeInv'
  <2>1. RoomOK'
    BY <1>1, OneMoreComing DEF Tick, HandleOnce, Goto, recordVars
  <2>2. TypeOK'
    BY <1>1 DEF TypeInv, TypeOK, Tick, HandleOnce, Goto, recordVars, bootVars, execVars,
                ghosts, PCs
  <2>3. BootOK' /\ HasRecord'
    BY <1>1 DEF TypeInv, TypeOK, BootOK, HasRecord, Tick, HandleOnce, Goto, recordVars,
                bootVars, execVars, ghosts
  <2> QED
    BY <2>1, <2>2, <2>3 DEF TypeInv
<1>2. ASSUME NEW c \in Callers, ReadFlag(c) PROVE TypeInv'
  <2>1. Coming' = Coming
    BY <1>2 DEF TypeInv, TypeOK, ReadFlag, Goto, Coming
  <2>2. RoomOK'
    BY <1>2, <2>1, SameComing DEF ReadFlag, recordVars
  <2>3. TypeOK'
    BY <1>2 DEF TypeInv, TypeOK, ReadFlag, Goto, recordVars, bootVars, execVars, PCs
  <2>4. BootOK' /\ HasRecord'
    BY <1>2 DEF TypeInv, TypeOK, BootOK, HasRecord, ReadFlag, Goto, recordVars,
                bootVars, execVars
  <2> QED
    BY <2>2, <2>3, <2>4 DEF TypeInv
<1>3. ASSUME NEW c \in Callers, AddFailedRecord(c) PROVE TypeInv'
  <2>1. CASE AddRecord("Unexecuted")
    <3>1. RoomOK' /\ created + 1 \in Records
      BY <1>3, <2>1, OneLessComing DEF AddFailedRecord, AddRecord, Goto, Coming
    <3>2. TypeOK'
      BY <1>3, <2>1, <3>1 DEF TypeInv, TypeOK, AddFailedRecord, AddRecord, Goto, bootVars,
                  execVars, ghosts, PCs, Statuses
    <3>3. BootOK' /\ HasRecord'
      BY <1>3, <2>1 DEF TypeInv, TypeOK, BootOK, HasRecord, AddFailedRecord, AddRecord, Goto,
                  bootVars, execVars
    <3> QED
      BY <3>1, <3>2, <3>3 DEF TypeInv
  <2>2. CASE UNCHANGED recordVars
    <3>1. Coming' = Coming \ {c} /\ c \in Coming
      BY <1>3 DEF TypeInv, TypeOK, AddFailedRecord, Goto, Coming
    <3>2. Cardinality(Coming \ {c}) = Cardinality(Coming) - 1
      BY <3>1, ComingIsFinite, FS_RemoveElement
    <3>3. RoomOK'
      BY <2>2, <3>1, <3>2, ComingIsFinite DEF TypeInv, TypeOK, RoomOK, recordVars
    <3>4. TypeOK' /\ BootOK' /\ HasRecord'
      BY <1>3, <2>2 DEF TypeInv, TypeOK, BootOK, HasRecord, AddFailedRecord, Goto,
                  recordVars, bootVars, execVars, ghosts, PCs
    <3> QED
      BY <3>3, <3>4 DEF TypeInv
  <2> QED
    BY <1>3, <2>1, <2>2 DEF AddFailedRecord
<1>4. ASSUME NEW c \in Callers, CreateRecord(c) PROVE TypeInv'
  <2>1. RoomOK' /\ created + 1 \in Records
    BY <1>4, OneLessComing DEF CreateRecord, AddRecord, Goto, Coming
  <2>2. TypeOK'
    BY <1>4, <2>1 DEF TypeInv, TypeOK, CreateRecord, AddRecord, Goto, bootVars,
                execVars, ghosts, PCs, Statuses
  <2>3. BootOK' /\ HasRecord'
    BY <1>4 DEF TypeInv, TypeOK, BootOK, HasRecord, CreateRecord, AddRecord, Goto,
                bootVars, execVars
  <2> QED
    BY <2>1, <2>2, <2>3 DEF TypeInv
<1>5. ASSUME NEW c \in Callers, MarkExecuting(c) PROVE TypeInv'
  <2>1. Coming' = Coming
    BY <1>5 DEF TypeInv, TypeOK, MarkExecuting, Goto, Coming
  <2>2. RoomOK'
    BY <1>5, <2>1, SameComing DEF MarkExecuting, recordVars
  <2>3. TypeOK' /\ BootOK' /\ HasRecord'
    BY <1>5 DEF TypeInv, TypeOK, BootOK, HasRecord, MarkExecuting, Goto, recordVars,
                bootVars, execVars, ghosts, PCs
  <2> QED
    BY <2>2, <2>3 DEF TypeInv
<1>6. ASSUME NEW c \in Callers, NewTaskFails(c) PROVE TypeInv'
  <2>1. Coming' = Coming
    BY <1>6 DEF TypeInv, TypeOK, NewTaskFails, Goto, Coming
  <2>2. RoomOK'
    BY <1>6, <2>1, SameComing DEF NewTaskFails, recordVars
  <2>3. rec[c] \in Records
    BY <1>6 DEF TypeInv, TypeOK, HasRecord, NewTaskFails
  <2>4. abandoned' \subseteq Records
    BY <1>6, <2>3 DEF TypeInv, TypeOK, NewTaskFails
  <2>5. pc' \in [Callers -> PCs] /\ rec' \in [Callers -> 0..MaxRecords]
    BY <1>6 DEF TypeInv, TypeOK, NewTaskFails, Goto, PCs
  <2>6. /\ run' \in [Records -> Runs] /\ result' \in [Records -> {"none", "ok", "fail"}]
        /\ records' \in [Records -> Statuses] /\ created' \in 0..MaxRecords
    BY <1>6 DEF TypeInv, TypeOK, NewTaskFails, recordVars, execVars
  <2>7. TypeOK'
    BY <1>6, <2>4, <2>5, <2>6 DEF TypeInv, TypeOK, NewTaskFails, bootVars, execVars, ghosts
  <2>8. BootOK' /\ HasRecord'
    BY <1>6 DEF TypeInv, TypeOK, BootOK, HasRecord, NewTaskFails, Goto, recordVars,
                bootVars, execVars
  <2> QED
    BY <2>2, <2>7, <2>8 DEF TypeInv
<1>7. ASSUME NEW c \in Callers, LoadTask(c) PROVE TypeInv'
  <2>1. Coming' = Coming
    BY <1>7 DEF TypeInv, TypeOK, LoadTask, Goto, Coming
  <2>2. RoomOK'
    BY <1>7, <2>1, SameComing DEF LoadTask
  <2>3. records' \in [Records -> Statuses]
    BY <1>7 DEF TypeInv, TypeOK, LoadTask, RemoveExpiredLog, Statuses
  <2>4. TypeOK' /\ BootOK' /\ HasRecord'
    BY <1>7, <2>3 DEF TypeInv, TypeOK, BootOK, HasRecord, LoadTask, Goto,
                bootVars, ghosts, PCs, Runs
  <2> QED
    BY <2>2, <2>4 DEF TypeInv
<1>8. ASSUME NEW c \in Callers, LoadTaskFails(c) PROVE TypeInv'
  <2>1. Coming' = Coming
    BY <1>8 DEF TypeInv, TypeOK, LoadTaskFails, Goto, Coming
  <2>2. RoomOK'
    BY <1>8, <2>1, SameComing DEF LoadTaskFails, recordVars
  <2>3. TypeOK' /\ BootOK' /\ HasRecord'
    BY <1>8 DEF TypeInv, TypeOK, BootOK, HasRecord, LoadTaskFails, Goto, recordVars,
                bootVars, ghosts, PCs, Runs
  <2> QED
    BY <2>2, <2>3 DEF TypeInv
<1>9. ASSUME NEW r \in Records, \/ SaveTask(r) \/ ExecuteReturns(r) \/ SettleRecord(r)
                                \/ AttemptTimesOut(r) \/ ActionEnds(r)
      PROVE  TypeInv'
  <2>1. Coming' = Coming /\ created' = created
    BY <1>9 DEF SaveTask, ExecuteReturns, SettleRecord, AttemptTimesOut, ActionEnds, Coming,
                recordVars
  <2>2. RoomOK'
    BY <2>1, SameComing
  <2>3. TypeOK' /\ BootOK' /\ HasRecord'
    BY <1>9 DEF TypeInv, TypeOK, BootOK, HasRecord, SaveTask, ExecuteReturns, SettleRecord,
                AttemptTimesOut, ActionEnds, recordVars, bootVars, ghosts, Runs, Outcome, Statuses
  <2> QED
    BY <2>2, <2>3 DEF TypeInv
<1>10. ASSUME NEW r \in Records, ClearFlag(r) PROVE TypeInv'
  <2>1. Coming' = Coming /\ created' = created
    BY <1>10 DEF TypeInv, TypeOK, ClearFlag, Coming, recordVars
  <2>2. RoomOK'
    BY <2>1, SameComing
  <2>3. /\ pc' \in [Callers -> PCs] /\ rec' \in [Callers -> 0..MaxRecords]
        /\ run' \in [Records -> Runs]
    BY <1>10 DEF TypeInv, TypeOK, ClearFlag, Runs, PCs
  <2>4. TypeOK'
    BY <1>10, <2>3 DEF TypeInv, TypeOK, ClearFlag, Cleared, recordVars, bootVars, ghosts
  <2>5. BootOK' /\ HasRecord'
    BY <1>10 DEF TypeInv, TypeOK, BootOK, HasRecord, ClearFlag, recordVars, bootVars
  <2> QED
    BY <2>2, <2>4, <2>5 DEF TypeInv
<1>11. ASSUME CleanRecord \/ CronRun \/ ClearExecuting PROVE TypeInv'
  <2>1. Coming' = Coming /\ created' = created
    BY <1>11 DEF CleanRecord, CronRun, ClearExecuting, Coming, recordVars
  <2>2. RoomOK'
    BY <2>1, SameComing
  <2>3. records' \in [Records -> Statuses]
    BY <1>11 DEF TypeInv, TypeOK, CleanRecord, CronRun, ClearExecuting, recordVars, Statuses
  <2>4. TypeOK' /\ BootOK' /\ HasRecord'
    BY <1>11, <2>3 DEF TypeInv, TypeOK, BootOK, HasRecord, CleanRecord, CronRun,
                ClearExecuting, recordVars, bootVars, execVars, ghosts
  <2> QED
    BY <2>2, <2>4 DEF TypeInv
<1>12. ASSUME Crash PROVE TypeInv'
  <2>1. Coming' = {}
    BY <1>12 DEF Crash, Coming
  <2>2. RoomOK'
    BY <1>12, <2>1, FS_EmptySet DEF TypeInv, TypeOK, RoomOK, Crash, recordVars
  <2>3. crashes' \in 0..MaxCrash
    BY <1>12, MaxCrashAssumption DEF TypeInv, TypeOK, Crash
  <2>4. /\ pc' \in [Callers -> PCs] /\ rec' \in [Callers -> 0..MaxRecords]
        /\ run' \in [Records -> Runs]
    BY <1>12 DEF TypeInv, TypeOK, Crash, PCs, Runs
  <2>5. /\ left' \in 0..MaxRecords /\ abandoned' \subseteq Records
        /\ records' \in [Records -> Statuses] /\ created' \in 0..MaxRecords
        /\ result' \in [Records -> {"none", "ok", "fail"}]
    BY <1>12 DEF TypeInv, TypeOK, Crash, recordVars
  <2>6. TypeOK'
    BY <1>12, <2>3, <2>4, <2>5, Zenon DEF TypeInv, TypeOK, Crash
  <2>7. BootOK' /\ HasRecord'
    BY <1>12 DEF TypeInv, TypeOK, BootOK, HasRecord, Crash, recordVars
  <2> QED
    BY <2>2, <2>6, <2>7 DEF TypeInv
<1>13. ASSUME ListWaiting PROVE TypeInv'
  <2>1. IsFiniteSet(Records) /\ Cardinality(Records) = MaxRecords
    BY FS_Interval
  <2>2. /\ IsFiniteSet(WaitingRecords) /\ Cardinality(WaitingRecords) <= MaxRecords
        /\ Cardinality(WaitingRecords) = 0 <=> WaitingRecords = {}
    BY <2>1, FS_Subset, FS_EmptySet DEF WaitingRecords
  <2>3. Cardinality(WaitingRecords) \in 0..MaxRecords
    BY <2>2, FS_CardinalityType
  <2>4. Coming' = Coming /\ created' = created
    BY <1>13 DEF ListWaiting, Coming, recordVars
  <2>5. RoomOK'
    BY <2>4, SameComing
  <2>6. abandoned' \subseteq Records
    BY <1>13 DEF TypeInv, TypeOK, ListWaiting, Orphans
  <2>7. TypeOK' /\ BootOK' /\ HasRecord'
    BY <1>13, <2>2, <2>3, <2>6 DEF TypeInv, TypeOK, BootOK, HasRecord, ListWaiting, recordVars,
                execVars
  <2> QED
    BY <2>5, <2>7 DEF TypeInv
<1>14. ASSUME FlagWaiting PROVE TypeInv'
  <2>1. Coming' = Coming /\ created' = created
    BY <1>14 DEF FlagWaiting, Coming
  <2>2. RoomOK'
    BY <2>1, SameComing
  <2>3. records' \in [Records -> Statuses]
    BY <1>14 DEF TypeInv, TypeOK, FlagWaiting, Statuses
  <2>4. abandoned' \subseteq Records
    BY <1>14 DEF TypeInv, TypeOK, FlagWaiting, Orphans
  <2>5. TypeOK' /\ BootOK' /\ HasRecord'
    BY <1>14, <2>3, <2>4 DEF TypeInv, TypeOK, BootOK, HasRecord, FlagWaiting, LastTurn,
                execVars
  <2> QED
    BY <2>2, <2>5 DEF TypeInv
<1>15. CASE UNCHANGED vars
  <2>1. Coming' = Coming /\ created' = created
    BY <1>15 DEF vars, Coming
  <2>2. RoomOK'
    BY <2>1, SameComing
  <2>3. TypeOK' /\ BootOK' /\ HasRecord'
    BY <1>15 DEF TypeInv, TypeOK, BootOK, HasRecord, vars
  <2> QED
    BY <2>2, <2>3 DEF TypeInv
<1> QED
  BY <1>1, <1>2, <1>3, <1>4, <1>5, <1>6, <1>7, <1>8, <1>9, <1>10, <1>11, <1>12, <1>13,
     <1>14, <1>15 DEF Next, HandleJob, Execution, Hook

\* The types of the variables: every step of HandleJob, the goroutines, the hook and
\* a crash keeps them, and never more records are written than there is room for.
THEOREM TypeCorrect == Spec => []TypeOK
<1>1. TypeInv => TypeOK
  BY DEF TypeInv
<1> QED
  BY <1>1, TypeInit, TypeStep, PTL DEF Spec

-----------------------------------------------------------------------------
\* The flag.

FlagInv == TypeInv /\ FlagHasOwner

LEMMA FlagStep == TypeInv /\ FlagHasOwner /\ [Next]_vars => FlagHasOwner'
<1> SUFFICES ASSUME TypeInv, FlagHasOwner, [Next]_vars PROVE FlagHasOwner'
    OBVIOUS
<1> USE DEF TypeInv, FlagHasOwner, Marked
<1>1. ASSUME NEW c \in Callers, Tick(c) \/ HandleOnce(c) \/ ReadFlag(c)
      PROVE  FlagHasOwner'
  BY <1>1 DEF TypeOK, Tick, HandleOnce, ReadFlag, Goto, bootVars, execVars, ghosts
<1>2. ASSUME NEW c \in Callers, AddFailedRecord(c) \/ CreateRecord(c)
      PROVE  FlagHasOwner'
  BY <1>2 DEF TypeOK, AddFailedRecord, CreateRecord, Goto, bootVars, execVars, ghosts
<1>3. ASSUME NEW c \in Callers, MarkExecuting(c) PROVE FlagHasOwner'
  BY <1>3 DEF TypeOK, MarkExecuting, Goto
<1>4. ASSUME NEW c \in Callers, NewTaskFails(c) PROVE FlagHasOwner'
  BY <1>4 DEF NewTaskFails
<1>5. ASSUME NEW c \in Callers, LoadTask(c) \/ LoadTaskFails(c) PROVE FlagHasOwner'
  <2>1. rec[c] \in Records
    BY <1>5, MaxRecordsAssumption DEF TypeOK, HasRecord, LoadTask, LoadTaskFails, Records
  <2>2. run'[rec[c]] \in InProgress
    BY <1>5, <2>1 DEF TypeOK, LoadTask, LoadTaskFails, InProgress
  <2> QED
    BY <2>1, <2>2
<1>6. ASSUME NEW r \in Records, SaveTask(r) \/ ExecuteReturns(r) \/ SettleRecord(r)
      PROVE  FlagHasOwner'
  BY <1>6 DEF TypeOK, SaveTask, ExecuteReturns, SettleRecord, InProgress, bootVars, Runs
<1>7. ASSUME NEW r \in Records, ClearFlag(r) PROVE FlagHasOwner'
  BY <1>7 DEF ClearFlag, Cleared
<1>8. ASSUME CleanRecord \/ \E r \in Records : AttemptTimesOut(r) \/ ActionEnds(r)
      PROVE  FlagHasOwner'
  BY <1>8 DEF CleanRecord, AttemptTimesOut, ActionEnds, bootVars, execVars, ghosts
<1>9. CASE Crash \/ CronRun \/ Hook
  BY <1>9 DEF BootOK, Crash, CronRun, Hook, ClearExecuting, ListWaiting, FlagWaiting, execVars
<1>10. CASE UNCHANGED vars
  BY <1>10 DEF vars
<1> QED
  BY <1>1, <1>2, <1>3, <1>4, <1>5, <1>6, <1>7, <1>8, <1>9, <1>10 DEF Next, HandleJob, Execution

\* A set is_executing flag always has somebody who will clear it, whatever the
\* triggers, restarts, time-outs and clean-ups in between, unless a starter returned
\* early (HandleJob after a failed NewTask, handleSnapshot's goroutine after a failed
\* save) or a write that clears it failed (EndRecords, handleCronjobStatus).
THEOREM FlagHasOwnerHolds == Spec => []FlagHasOwner
<1>1. Init => FlagInv
  BY TypeInit DEF Init, FlagInv, FlagHasOwner
<1>2. FlagInv /\ [Next]_vars => FlagInv'
  BY TypeStep, FlagStep DEF FlagInv
<1>3. FlagInv => FlagHasOwner
  BY DEF FlagInv
<1> QED
  BY <1>1, <1>2, <1>3, PTL DEF Spec

-----------------------------------------------------------------------------
\* The records that wait.

\* Who holds a record: callers hold different ones, from CreateRecord to the end of
\* HandleJob, and a failing one holds that of an execution that is ending.  A record
\* that still waits after EndRecords wrote it was abandoned.
HoldOK ==
    /\ \A c \in Callers : rec[c] # 0 => pc[c] \in {"mark", "prepare", "failing"}
    /\ \A c \in Callers : pc[c] = "failing" => run[rec[c]] \in {"settle", "clear"}
    /\ \A c, d \in Callers : rec[c] = rec[d] /\ rec[c] # 0 => c = d
    /\ \A r \in Records : run[r] = "clear" /\ records[r] = "Waiting" => r \in abandoned

WaitingInv == TypeInv /\ HoldOK /\ WaitingHasOwner

LEMMA HoldStep == TypeInv /\ HoldOK /\ [Next]_vars => HoldOK'
<1> SUFFICES ASSUME TypeInv, HoldOK, [Next]_vars PROVE HoldOK'
    OBVIOUS
<1> USE MaxRecordsAssumption DEF TypeInv, HoldOK, Records
<1>1. ASSUME NEW c \in Callers,
             \/ Tick(c) \/ HandleOnce(c) \/ ReadFlag(c) \/ MarkExecuting(c)
      PROVE  HoldOK'
  BY <1>1 DEF TypeOK, Tick, HandleOnce, ReadFlag, MarkExecuting, Goto, recordVars, execVars,
              ghosts
<1>2. ASSUME NEW c \in Callers, AddFailedRecord(c) PROVE HoldOK'
  BY <1>2 DEF TypeOK, HasRecord, AddFailedRecord, AddRecord, Goto, recordVars, execVars,
              ghosts
<1>3. ASSUME NEW c \in Callers, CreateRecord(c) PROVE HoldOK'
  \* The number of the new record is greater than that of any other.
  BY <1>3 DEF TypeOK, HasRecord, CreateRecord, AddRecord, Goto, execVars, ghosts
<1>4. ASSUME NEW c \in Callers, NewTaskFails(c) PROVE HoldOK'
  BY <1>4 DEF TypeOK, NewTaskFails, Goto, recordVars, execVars
<1>5. ASSUME NEW c \in Callers, LoadTask(c) \/ LoadTaskFails(c) PROVE HoldOK'
  <2>1. rec[c] \in Records /\ pc[c] = "prepare"
    BY <1>5 DEF TypeOK, HasRecord, LoadTask, LoadTaskFails
  <2>2. \A d \in Callers \ {c} : /\ rec[d] # rec[c]
                                 /\ pc'[d] = pc[d] /\ rec'[d] = rec[d]
    BY <1>5, <2>1 DEF TypeOK, LoadTask, LoadTaskFails, Goto
  <2>3. /\ \A r \in Records : records'[r] = "Waiting" => records[r] = "Waiting"
        /\ abandoned' = abandoned
        /\ \A r \in Records \ {rec[c]} : run'[r] = run[r]
        /\ run'[rec[c]] # "clear"
    BY <1>5, <2>1 DEF TypeOK, LoadTask, LoadTaskFails, RemoveExpiredLog, recordVars, ghosts
  <2>4. \/ pc'[c] = "idle" /\ rec'[c] = 0
        \/ pc'[c] = "failing" /\ rec'[c] = rec[c] /\ run'[rec[c]] = "settle"
    BY <1>5, <2>1 DEF TypeOK, LoadTask, LoadTaskFails, Goto
  <2>5. \A d \in Callers \ {c} : pc[d] = "failing" => rec[d] \in Records
    BY DEF TypeOK, HasRecord
  <2> QED
    BY <2>1, <2>2, <2>3, <2>4, <2>5
<1>6. ASSUME NEW r \in Records, \/ SaveTask(r) \/ ExecuteReturns(r) \/ SettleRecord(r)
                                \/ AttemptTimesOut(r) \/ ActionEnds(r)
      PROVE  HoldOK'
  <2>1. /\ UNCHANGED <<pc, rec>> /\ \A s \in Records \ {r} : run'[s] = run[s]
        /\ \A s \in Records \ {r} : records'[s] = records[s]
        /\ \A s \in abandoned : s \in abandoned'
    BY <1>6 DEF TypeOK, SaveTask, ExecuteReturns, SettleRecord, AttemptTimesOut, ActionEnds,
                recordVars, ghosts
  <2>2. \A c \in Callers : pc[c] = "failing" => rec[c] \in Records
    BY DEF TypeOK, HasRecord
  <2>3. \/ run'[r] = run[r] /\ records'[r] = records[r]
        \/ run[r] \notin {"settle", "clear"} /\ run'[r] # "clear"
        \/ /\ run'[r] = "clear"
           /\ records'[r] = "Waiting" => r \in abandoned'
    BY <1>6 DEF TypeOK, SaveTask, ExecuteReturns, SettleRecord, AttemptTimesOut, ActionEnds,
                recordVars, HasRow, Outcome
  <2> QED
    BY <2>1, <2>2, <2>3
<1>7. ASSUME NEW r \in Records, ClearFlag(r) PROVE HoldOK'
  <2>1. /\ \A c \in Callers : \/ pc'[c] = "idle" /\ rec'[c] = 0
                              \/ /\ pc'[c] = pc[c] /\ rec'[c] = rec[c]
                                 /\ ~(pc[c] = "failing" /\ rec[c] = r)
        /\ UNCHANGED <<records, abandoned>> /\ run'[r] = "done"
        /\ \A s \in Records \ {r} : run'[s] = run[s]
    BY <1>7 DEF TypeOK, ClearFlag, recordVars
  <2>2. \A c \in Callers : pc[c] = "failing" => rec[c] \in Records
    BY DEF TypeOK, HasRecord
  <2> QED
    BY <2>1, <2>2
<1>8. CASE CleanRecord \/ FlagWaiting
  BY <1>8 DEF TypeOK, CleanRecord, FlagWaiting, recordVars, execVars, ghosts
<1>9. CASE Crash
  BY <1>9 DEF TypeOK, Crash, recordVars
<1>10. CASE CronRun \/ ClearExecuting \/ ListWaiting
  BY <1>10 DEF CronRun, ClearExecuting, ListWaiting, recordVars, execVars, ghosts
<1>11. CASE UNCHANGED vars
  BY <1>11 DEF vars
<1> QED
  BY <1>1, <1>2, <1>3, <1>4, <1>5, <1>6, <1>7, <1>8, <1>9, <1>10, <1>11
     DEF Next, HandleJob, Execution, Hook

\* When the repair of the hook fails, a record that waits has a caller or an
\* execution, or it is one of the orphans.
LEMMA OrphansAreTheRest ==
    ASSUME TypeInv, HoldOK, NEW r \in Records, records[r] = "Waiting", r \notin abandoned
    PROVE  \/ r \in Orphans
           \/ \E c \in Callers : rec[c] = r /\ pc[c] \in {"mark", "prepare"}
           \/ run[r] \in {"save", "run", "settle"}
<1>1. run[r] \in {"none", "done", "save", "run", "settle"}
  BY DEF TypeInv, TypeOK, HoldOK, Runs
<1>2. ASSUME NEW c \in Callers, rec[c] = r
      PROVE  pc[c] \in {"mark", "prepare"} \/ run[r] = "settle"
  BY <1>1, <1>2, MaxRecordsAssumption DEF HoldOK, Records
<1> QED
  BY <1>1, <1>2 DEF Orphans

LEMMA WaitingStep == WaitingInv /\ [Next]_vars => WaitingHasOwner'
<1> SUFFICES ASSUME TypeInv, HoldOK, WaitingHasOwner, [Next]_vars PROVE WaitingHasOwner'
    BY DEF WaitingInv
<1> USE DEF TypeInv, WaitingHasOwner
<1>1. ASSUME NEW c \in Callers, Tick(c) \/ HandleOnce(c) \/ ReadFlag(c)
      PROVE  WaitingHasOwner'
  BY <1>1 DEF TypeOK, Tick, HandleOnce, ReadFlag, Goto, bootVars, execVars, recordVars, ghosts
<1>2. ASSUME NEW c \in Callers, AddFailedRecord(c) PROVE WaitingHasOwner'
  BY <1>2 DEF TypeOK, AddFailedRecord, AddRecord, Goto, bootVars, execVars, recordVars,
              ghosts
<1>3. ASSUME NEW c \in Callers, CreateRecord(c) PROVE WaitingHasOwner'
  <2>1. \A d \in Callers \ {c} : rec'[d] = rec[d] /\ pc'[d] = pc[d]
    BY <1>3 DEF TypeOK, CreateRecord, Goto
  <2>2. rec'[c] = created + 1 /\ pc'[c] = "mark"
    BY <1>3 DEF TypeOK, CreateRecord, Goto
  <2>3. \A r \in Records : r # created + 1 => records'[r] = records[r]
    BY <1>3 DEF TypeOK, CreateRecord, AddRecord
  <2>4. UNCHANGED <<up, boot, run, abandoned>> /\ pc[c] = "create"
    BY <1>3 DEF CreateRecord, bootVars, execVars, ghosts
  <2> QED
    BY <2>1, <2>2, <2>3, <2>4
<1>4. ASSUME NEW c \in Callers, MarkExecuting(c) PROVE WaitingHasOwner'
  BY <1>4 DEF TypeOK, MarkExecuting, Goto, bootVars, execVars, recordVars
<1>5. ASSUME NEW c \in Callers, NewTaskFails(c) PROVE WaitingHasOwner'
  BY <1>5 DEF TypeOK, NewTaskFails, Goto, bootVars, recordVars, execVars
<1>6. ASSUME NEW c \in Callers, LoadTask(c) \/ LoadTaskFails(c) PROVE WaitingHasOwner'
  <2> SUFFICES ASSUME NEW r \in Records, records'[r] = "Waiting", up', boot' = "served",
                      r \notin abandoned'
               PROVE  \/ \E d \in Callers : rec'[d] = r /\ pc'[d] \in {"mark", "prepare"}
                      \/ run'[r] \in {"save", "run", "settle"}
    BY Zenon
  <2>1. records[r] = "Waiting"
    BY <1>6 DEF TypeOK, LoadTask, LoadTaskFails, RemoveExpiredLog, recordVars
  <2>2. up /\ boot = "served" /\ r \notin abandoned
    BY <1>6, Zenon DEF LoadTask, LoadTaskFails, bootVars, ghosts
  <2>3. CASE rec[c] = r
    BY <1>6, <2>3 DEF TypeOK, LoadTask, LoadTaskFails
  <2>4. CASE rec[c] # r
    BY <1>6, <2>1, <2>2, <2>4 DEF TypeOK, LoadTask, LoadTaskFails, Goto
  <2> QED
    BY <2>3, <2>4
<1>7. ASSUME NEW r \in Records, \/ SaveTask(r) \/ ExecuteReturns(r) \/ AttemptTimesOut(r)
                                \/ ActionEnds(r)
      PROVE  WaitingHasOwner'
  BY <1>7 DEF TypeOK, SaveTask, ExecuteReturns, AttemptTimesOut, ActionEnds, bootVars,
              recordVars, ghosts, Runs
<1>8. ASSUME NEW r \in Records, SettleRecord(r) PROVE WaitingHasOwner'
  BY <1>8 DEF TypeOK, SettleRecord, HasRow, Outcome, bootVars, Runs
<1>9. ASSUME NEW r \in Records, ClearFlag(r) PROVE WaitingHasOwner'
  BY <1>9 DEF TypeOK, ClearFlag, bootVars, recordVars, Runs
<1>10. CASE CleanRecord
  BY <1>10 DEF TypeOK, CleanRecord, bootVars, execVars, ghosts
<1>11. CASE Crash \/ CronRun \/ ClearExecuting
  BY <1>11 DEF BootOK, Crash, CronRun, ClearExecuting
<1>12. CASE ListWaiting
  <2>1. CASE WaitingRecords = {} /\ UNCHANGED records
    BY <2>1 DEF WaitingRecords
  <2>2. CASE boot' = "flag"
    BY <2>2
  <2>3. CASE abandoned' = abandoned \cup Orphans
    BY <1>12, <2>3, OrphansAreTheRest DEF ListWaiting, recordVars, execVars
  <2> QED
    BY <1>12, <2>1, <2>2, <2>3 DEF ListWaiting, recordVars
<1>13. CASE FlagWaiting
  <2>1. CASE \A r \in Records : records'[r] # "Waiting"
    BY <2>1
  <2>2. CASE UNCHANGED records /\ abandoned' = abandoned \cup Orphans
    BY <1>13, <2>2, OrphansAreTheRest DEF FlagWaiting, execVars
  <2> QED
    BY <1>13, <2>1, <2>2 DEF FlagWaiting
<1>14. CASE UNCHANGED vars
  BY <1>14 DEF vars
<1> QED
  BY <1>1, <1>2, <1>3, <1>4, <1>5, <1>6, <1>7, <1>8, <1>9, <1>10, <1>11, <1>12, <1>13, <1>14
     DEF Next, HandleJob, Execution, Hook

\* A Waiting job record always has somebody who will settle it: the caller that
\* created it, its execution, or the hook of the start; the exceptions are the records
\* that a starter, a failed write of EndRecords or a failed repair of the hook left.
THEOREM WaitingHasOwnerHolds == Spec => []WaitingHasOwner
<1>1. Init => WaitingInv
  BY TypeInit DEF Init, WaitingInv, WaitingHasOwner, HoldOK
<1>2. WaitingInv /\ [Next]_vars => WaitingInv'
  BY TypeStep, HoldStep, WaitingStep DEF WaitingInv
<1>3. WaitingInv => WaitingHasOwner
  BY DEF WaitingInv
<1> QED
  BY <1>1, <1>2, <1>3, PTL DEF Spec

-----------------------------------------------------------------------------
\* The records of executions that ended.

\* Until EndRecords writes it, the record of an execution, or of a caller that is
\* about to start one, claims no outcome.
Pending(r) == records[r] \in {"None", "Waiting", "Interrupted", "Deleted"}
PendingOK ==
    /\ \A c \in Callers : pc[c] \in {"mark", "prepare"} =>
          run[rec[c]] = "none" /\ Pending(rec[c])
    /\ \A r \in Records : run[r] \in {"save", "run", "settle"} => Pending(r)

OutcomeInv == TypeInv /\ HoldOK /\ PendingOK /\ RecordTellsOutcome

LEMMA PendingStep == TypeInv /\ HoldOK /\ PendingOK /\ [Next]_vars => PendingOK'
<1> SUFFICES ASSUME TypeInv, HoldOK, PendingOK, [Next]_vars PROVE PendingOK'
    OBVIOUS
<1> USE MaxRecordsAssumption DEF TypeInv, PendingOK, Pending, Records
<1>0. /\ \A c \in Callers : pc[c] \in {"mark", "prepare"} => rec[c] \in Records /\ rec[c] # 0
      /\ \A c, d \in Callers : rec[c] = rec[d] /\ rec[c] # 0 => c = d
      /\ records \in [Records -> Statuses]
  BY DEF TypeOK, HasRecord, HoldOK
<1>1. ASSUME NEW c \in Callers, \/ Tick(c) \/ HandleOnce(c) \/ ReadFlag(c) \/ MarkExecuting(c)
                                \/ NewTaskFails(c)
      PROVE  PendingOK'
  BY <1>1 DEF TypeOK, Tick, HandleOnce, ReadFlag, MarkExecuting, NewTaskFails, Goto, recordVars,
              execVars
<1>2. ASSUME NEW c \in Callers, AddFailedRecord(c) PROVE PendingOK'
  BY <1>2 DEF TypeOK, HasRecord, AddFailedRecord, AddRecord, Goto, recordVars, execVars
<1>3. ASSUME NEW c \in Callers, CreateRecord(c) PROVE PendingOK'
  <2>1. /\ created + 1 \in Records
        /\ \A r \in Records : r # created + 1 => records'[r] = records[r]
        /\ records'[created + 1] \in {"Waiting", "None"} /\ run' = run
        /\ run[created + 1] = "none" /\ created \in Nat
    <3>1. created + 1 \in Records
      BY <1>3, OneLessComing DEF CreateRecord, AddRecord, Goto, Coming
    <3> QED
      BY <1>3, <3>1 DEF TypeOK, HasRecord, CreateRecord, AddRecord, execVars
  <2>2. /\ pc'[c] = "mark" /\ rec'[c] = created + 1
        /\ \A d \in Callers \ {c} : pc'[d] = pc[d] /\ rec'[d] = rec[d]
    BY <1>3 DEF TypeOK, CreateRecord, Goto
  <2>3. \A d \in Callers : pc[d] \in {"mark", "prepare"} => rec[d] # created + 1
    BY <2>1 DEF HasRecord
  <2> QED
    BY <1>0, <2>1, <2>2, <2>3
<1>4. ASSUME NEW c \in Callers, LoadTask(c) \/ LoadTaskFails(c) PROVE PendingOK'
  <2>1. /\ pc[c] = "prepare" /\ pc'[c] \notin {"mark", "prepare"}
        /\ \A d \in Callers \ {c} : pc'[d] = pc[d] /\ rec'[d] = rec[d]
        /\ \A r \in Records \ {rec[c]} : run'[r] = run[r]
        /\ \A r \in Records : records'[r] \in {records[r], "Deleted"}
    BY <1>0, <1>4 DEF TypeOK, LoadTask, LoadTaskFails, RemoveExpiredLog, Goto, recordVars
  <2> QED
    BY <1>0, <2>1
<1>5. ASSUME NEW r \in Records, \/ SaveTask(r) \/ ExecuteReturns(r) \/ AttemptTimesOut(r)
                                \/ ActionEnds(r)
      PROVE  PendingOK'
  BY <1>0, <1>5 DEF TypeOK, SaveTask, ExecuteReturns, AttemptTimesOut, ActionEnds, recordVars
<1>6. ASSUME NEW r \in Records, SettleRecord(r) PROVE PendingOK'
  BY <1>0, <1>6 DEF TypeOK, SettleRecord
<1>7. ASSUME NEW r \in Records, ClearFlag(r) PROVE PendingOK'
  BY <1>0, <1>7 DEF TypeOK, ClearFlag, recordVars
<1>8. CASE CleanRecord \/ FlagWaiting
  BY <1>0, <1>8 DEF CleanRecord, FlagWaiting, execVars
<1>9. CASE Crash
  BY <1>9 DEF TypeOK, Crash, recordVars
<1>10. CASE CronRun \/ ClearExecuting \/ ListWaiting \/ UNCHANGED vars
  BY <1>10 DEF CronRun, ClearExecuting, ListWaiting, vars, recordVars, execVars
<1> QED
  BY <1>1, <1>2, <1>3, <1>4, <1>5, <1>6, <1>7, <1>8, <1>9, <1>10
     DEF Next, HandleJob, Execution, Hook

LEMMA OutcomeStep == OutcomeInv /\ [Next]_vars => RecordTellsOutcome'
<1> SUFFICES ASSUME TypeInv, PendingOK, RecordTellsOutcome, [Next]_vars
             PROVE  RecordTellsOutcome'
    BY DEF OutcomeInv
<1> USE DEF TypeInv, RecordTellsOutcome, Outcome
<1>1. ASSUME NEW c \in Callers,
             Tick(c) \/ HandleOnce(c) \/ ReadFlag(c) \/ MarkExecuting(c) \/ NewTaskFails(c)
      PROVE  RecordTellsOutcome'
  BY <1>1 DEF Tick, HandleOnce, ReadFlag, MarkExecuting, NewTaskFails, execVars, recordVars,
              ghosts
<1>2. ASSUME NEW c \in Callers, AddFailedRecord(c) \/ CreateRecord(c)
      PROVE  RecordTellsOutcome'
  \* The number of a new record is greater than that of any execution.
  BY <1>2, MaxRecordsAssumption
     DEF TypeOK, HasRecord, AddFailedRecord, CreateRecord, AddRecord, execVars, recordVars,
         ghosts, Records
<1>3. ASSUME NEW c \in Callers, LoadTask(c) \/ LoadTaskFails(c) PROVE RecordTellsOutcome'
  BY <1>3 DEF TypeOK, LoadTask, LoadTaskFails, RemoveExpiredLog, recordVars, ghosts, Runs
<1>4. ASSUME NEW r \in Records, \/ SaveTask(r) \/ ExecuteReturns(r) \/ ClearFlag(r)
                                \/ AttemptTimesOut(r) \/ ActionEnds(r)
      PROVE  RecordTellsOutcome'
  BY <1>4 DEF TypeOK, SaveTask, ExecuteReturns, ClearFlag, AttemptTimesOut, ActionEnds,
              recordVars, ghosts, Runs
<1>5. ASSUME NEW r \in Records, SettleRecord(r) PROVE RecordTellsOutcome'
  <2>1. /\ \A s \in Records \ {r} : records'[s] = records[s] /\ run'[s] = run[s]
        /\ \A s \in Records \ {r} : s \in unsettled => s \in unsettled'
    BY <1>5 DEF TypeOK, SettleRecord
  <2>2. \/ records'[r] \in {Outcome(result[r]), "None", "Deleted"}
        \/ records'[r] = records[r] /\ r \in unsettled'
    BY <1>5 DEF TypeOK, SettleRecord, HasRow
  <2>3. /\ Pending(r) /\ result' = result
        /\ \A s \in Records \ {r} : run'[s] \in {"clear", "done"} => run[s] \in {"clear", "done"}
    BY <1>5, <2>1 DEF SettleRecord, PendingOK
  <2>4. ASSUME NEW s \in Records \ {r}, run'[s] \in {"clear", "done"}
        PROVE  \/ records'[s] \in {Outcome(result'[s]), "None", "Deleted"}
               \/ s \in unsettled' /\ records'[s] \in {"Waiting", "Interrupted"}
    <3>1. /\ s \in Records /\ run[s] \in {"clear", "done"} /\ result'[s] = result[s]
          /\ records'[s] = records[s]
          /\ s \in unsettled => s \in unsettled'
      BY <2>1, <2>3, <2>4
    <3>2. \/ records[s] \in {Outcome(result[s]), "None", "Deleted"}
          \/ s \in unsettled /\ records[s] \in {"Waiting", "Interrupted"}
      BY <3>1
    <3> QED
      BY <3>1, <3>2
  <2>5. \/ records'[r] \in {Outcome(result'[r]), "None", "Deleted"}
        \/ r \in unsettled' /\ records'[r] \in {"Waiting", "Interrupted"}
    <3>1. records[r] \in {"None", "Waiting", "Interrupted", "Deleted"}
      BY <2>3 DEF Pending
    <3>2. CASE records'[r] = records[r] /\ r \in unsettled'
      BY <3>1, <3>2
    <3>3. CASE records'[r] \in {Outcome(result[r]), "None", "Deleted"}
      BY <2>3, <3>3
    <3> QED
      BY <2>2, <3>2, <3>3
  <2> QED
    BY <2>4, <2>5
<1>6. CASE CleanRecord \/ FlagWaiting
  BY <1>6 DEF TypeOK, CleanRecord, FlagWaiting, execVars, ghosts
<1>7. CASE Crash \/ CronRun \/ ClearExecuting \/ ListWaiting
  BY <1>7 DEF TypeOK, Crash, CronRun, ClearExecuting, ListWaiting, execVars, recordVars,
              ghosts
<1>8. CASE UNCHANGED vars
  BY <1>8 DEF vars
<1> QED
  BY <1>1, <1>2, <1>3, <1>4, <1>5, <1>6, <1>7, <1>8 DEF Next, HandleJob, Execution, Hook

\* The record of an execution that ended says what the execution returned, unless it
\* was deleted or never inserted: neither the hook, nor removeExpiredLog, nor another
\* execution overwrites what EndRecords wrote.  Where the write of EndRecords failed
\* the record still waits or was called interrupted; it claims no other outcome.
THEOREM RecordTellsOutcomeHolds == Spec => []RecordTellsOutcome
<1>1. Init => OutcomeInv
  BY TypeInit DEF Init, OutcomeInv, RecordTellsOutcome, HoldOK, PendingOK, Pending
<1>2. OutcomeInv /\ [Next]_vars => OutcomeInv'
  BY TypeStep, HoldStep, PendingStep, OutcomeStep DEF OutcomeInv
<1>3. OutcomeInv => RecordTellsOutcome
  BY DEF OutcomeInv
<1> QED
  BY <1>1, <1>2, <1>3, PTL DEF Spec

-----------------------------------------------------------------------------
\* One execution at a time.

\* While no cause for an overlap has occurred, one caller at most is between the check
\* and the mark, when the flag is not set; past the mark there is one caller, one
\* execution, or a caller that is ending its own; and then the flag is set.
Alone ==
    /\ Marked => executing
    /\ \A c \in Callers : pc[c] \in Window => ~executing
    /\ \A c, d \in Callers : pc[c] \in Window /\ pc[d] \in Window => c = d
    /\ \A c, d \in Callers : {pc[c], pc[d]} \subseteq {"prepare", "failing"} => c = d
    /\ \A r, s \in Records : {run[r], run[s]} \subseteq InProgress => r = s
    /\ \A c \in Callers, r \in Records :
          pc[c] \in {"prepare", "failing"} /\ run[r] \in InProgress =>
             pc[c] = "failing" /\ rec[c] = r

\* What outlives its attempt is of an execution that has begun.
OutlivingOK == \A r \in outliving : run[r] \in {"run", "settle", "clear", "done"}

OverlapInv == TypeInv /\ HoldOK /\ PendingOK /\ OutlivingOK /\ (~unguarded => Alone)

LEMMA OutlivingStep == OverlapInv /\ [Next]_vars => OutlivingOK'
<1> SUFFICES ASSUME OverlapInv, [Next]_vars PROVE OutlivingOK'
    OBVIOUS
<1>0. /\ OutlivingOK /\ run \in [Records -> Runs]
      /\ \A c \in Callers : pc[c] = "prepare" => run[rec[c]] = "none"
  BY DEF OverlapInv, TypeInv, TypeOK, PendingOK
<1>1. ASSUME NEW c \in Callers, LoadTask(c) \/ LoadTaskFails(c) PROVE OutlivingOK'
  <2>1. /\ rec[c] \notin outliving /\ outliving' = outliving
        /\ \A r \in Records \ {rec[c]} : run'[r] = run[r]
    BY <1>0, <1>1 DEF LoadTask, LoadTaskFails, OutlivingOK
  <2>2. outliving \subseteq Records
    BY DEF OverlapInv, TypeInv, TypeOK
  <2> QED
    BY <1>0, <2>1, <2>2 DEF OutlivingOK
<1>2. ASSUME NEW c \in Callers,
             \/ Tick(c) \/ HandleOnce(c) \/ ReadFlag(c) \/ AddFailedRecord(c)
             \/ CreateRecord(c) \/ MarkExecuting(c) \/ NewTaskFails(c)
      PROVE  OutlivingOK'
  BY <1>0, <1>2 DEF Tick, HandleOnce, ReadFlag, AddFailedRecord, CreateRecord, MarkExecuting,
     NewTaskFails, OutlivingOK, execVars
<1>3. ASSUME NEW r \in Records, Execution(r) \/ AttemptTimesOut(r) \/ ActionEnds(r)
      PROVE  OutlivingOK'
  <2>1. CASE Execution(r)
    <3>1. /\ outliving' = outliving /\ \A s \in Records \ {r} : run'[s] = run[s]
          /\ run[r] \in {"run", "settle", "clear"} =>
                run'[r] \in {"run", "settle", "clear", "done"}
          /\ run[r] # "done"
      BY <1>0, <2>1 DEF Execution, SaveTask, ExecuteReturns, SettleRecord, ClearFlag, execVars
    <3>2. outliving \subseteq Records
      BY DEF OverlapInv, TypeInv, TypeOK
    <3> QED
      BY <1>0, <3>1, <3>2 DEF OutlivingOK
  <2>2. CASE AttemptTimesOut(r) \/ ActionEnds(r)
    BY <1>0, <2>2 DEF AttemptTimesOut, ActionEnds, OutlivingOK
  <2> QED
    BY <1>3, <2>1, <2>2
<1>4. CASE Crash
  BY <1>4 DEF Crash, OutlivingOK
<1>5. CASE CleanRecord \/ CronRun \/ Hook \/ UNCHANGED vars
  BY <1>0, <1>5 DEF CleanRecord, CronRun, Hook, ClearExecuting, ListWaiting, FlagWaiting, vars,
     OutlivingOK, execVars
<1> QED
  BY <1>1, <1>2, <1>3, <1>4, <1>5 DEF Next, HandleJob

\* A second execution needs a flag that guards nothing.
LEMMA OverlapStep == OverlapInv /\ [Next]_vars /\ ~unguarded' => Alone'
<1> SUFFICES ASSUME OverlapInv, [Next]_vars, ~unguarded' PROVE Alone'
    OBVIOUS
<1>0. /\ TypeInv /\ pc \in [Callers -> PCs] /\ run \in [Records -> Runs]
      /\ rec \in [Callers -> 0..MaxRecords] /\ executing \in BOOLEAN
      /\ unguarded \in BOOLEAN
  BY DEF OverlapInv, TypeInv, TypeOK
<1>n. Crash \/ Alone
  <2>1. CASE ~unguarded
    BY <2>1 DEF OverlapInv
  <2>2. CASE unguarded
    <3>1. ASSUME NEW c \in Callers, Tick(c) \/ HandleOnce(c) \/ HandleJob(c) PROVE FALSE
      BY <1>0, <2>2, <3>1 DEF Tick, HandleOnce, HandleJob, ReadFlag, AddFailedRecord,
         CreateRecord, MarkExecuting, NewTaskFails, LoadTask, LoadTaskFails, ghosts
    <3>2. ASSUME NEW r \in Records, Execution(r) \/ AttemptTimesOut(r) \/ ActionEnds(r)
          PROVE FALSE
      BY <2>2, <3>2 DEF Execution, SaveTask, ExecuteReturns, SettleRecord, ClearFlag,
         AttemptTimesOut, ActionEnds, ghosts
    <3>3. CASE CleanRecord \/ CronRun \/ Hook \/ UNCHANGED vars
      BY <1>0, <2>2, <3>3 DEF CleanRecord, CronRun, Hook, ClearExecuting, ListWaiting,
         FlagWaiting, vars, ghosts
    <3> QED
      BY <3>1, <3>2, <3>3 DEF Next
  <2> QED
    BY <2>1, <2>2
<1>1. CASE Crash
  BY <1>0, <1>1 DEF Crash, Alone, Marked, Window, InProgress
<1>2. ASSUME Alone, UNCHANGED <<pc, rec, run, executing>> PROVE Alone'
  BY <1>2 DEF Alone, Marked
<1>3. ASSUME Alone, NEW c \in Callers, Tick(c) \/ HandleOnce(c) \/ AddFailedRecord(c)
      PROVE  Alone'
  <2>1. /\ \E place \in {"read", "idle"} : pc' = [pc EXCEPT ![c] = place]
        /\ pc[c] \in {"idle", "refuse"} /\ UNCHANGED <<rec, run, executing>>
    BY <1>3 DEF Tick, HandleOnce, AddFailedRecord, Goto, execVars
  <2> QED
    BY <1>0, <1>3, <2>1 DEF Alone, Marked, Window
<1>4. ASSUME Alone, NEW c \in Callers, ReadFlag(c) PROVE Alone'
  <2>1. /\ UNCHANGED <<rec, run, executing>> /\ pc[c] = "read"
        /\ \/ executing /\ pc' = [pc EXCEPT ![c] = "refuse"]
           \/ ~executing /\ pc' = [pc EXCEPT ![c] = "create"]
    BY <1>0, <1>4 DEF ReadFlag, Refused, Goto, execVars
  <2>2. ~executing => \A d \in Callers : pc[d] \notin Window
    BY <1>0, <1>4 DEF ReadFlag
  <2> QED
    BY <1>0, <1>4, <2>1, <2>2 DEF Alone, Marked, Window
<1>5. ASSUME Alone, NEW c \in Callers, CreateRecord(c) PROVE Alone'
  <2>1. /\ pc' = [pc EXCEPT ![c] = "mark"] /\ UNCHANGED <<run, executing>>
        /\ pc[c] = "create" /\ \A d \in Callers \ {c} : rec'[d] = rec[d]
    BY <1>0, <1>5 DEF CreateRecord, Goto, execVars
  <2> QED
    BY <1>0, <1>4, <1>5, <2>1 DEF Alone, Marked, Window
<1>6. ASSUME Alone, NEW c \in Callers, MarkExecuting(c) PROVE Alone'
  <2>1. /\ pc' = [pc EXCEPT ![c] = "prepare"] /\ UNCHANGED <<rec, run>> /\ executing'
        /\ pc[c] = "mark"
    BY <1>0, <1>6 DEF MarkExecuting, Goto, execVars
  <2>2. ~Marked /\ \A d \in Callers \ {c} : pc[d] \notin Window
    BY <1>6, <2>1 DEF Alone, Window
  <2> QED
    BY <1>0, <2>1, <2>2 DEF Alone, Marked, Window
<1>7. ASSUME Alone, NEW c \in Callers, NewTaskFails(c) PROVE Alone'
  <2>1. /\ pc' = [pc EXCEPT ![c] = "idle"] /\ UNCHANGED <<run, executing>>
        /\ \A d \in Callers \ {c} : rec'[d] = rec[d]
    BY <1>0, <1>7 DEF NewTaskFails, Goto, execVars
  <2> QED
    BY <1>0, <1>7, <2>1 DEF Alone, Marked, Window
<1>8. ASSUME Alone, NEW c \in Callers, LoadTask(c) \/ LoadTaskFails(c) PROVE Alone'
  <2>1. /\ pc[c] = "prepare" /\ executing' = executing /\ rec[c] \in Records
        /\ \A d \in Callers \ {c} : rec'[d] = rec[d] /\ pc'[d] = pc[d]
        /\ pc'[c] = "idle" \/ (pc'[c] = "failing" /\ rec'[c] = rec[c])
        /\ \A r \in Records \ {rec[c]} : run'[r] = run[r]
    BY <1>0, <1>8, MaxRecordsAssumption
       DEF LoadTask, LoadTaskFails, Goto, TypeInv, HasRecord, Records, TypeOK
  <2>2. /\ executing /\ \A d \in Callers \ {c} : pc[d] \notin {"prepare", "failing"}
        /\ \A d \in Callers : pc[d] \notin Window
        /\ \A r \in Records : run[r] \notin InProgress
    BY <1>8, <2>1 DEF Alone, Marked
  <2> QED
    BY <1>8, <2>1, <2>2 DEF Alone, Marked, Window
<1>9. ASSUME Alone, NEW r \in Records, SaveTask(r) \/ ExecuteReturns(r) \/ SettleRecord(r)
      PROVE  Alone'
  <2>1. /\ UNCHANGED <<pc, rec, executing>> /\ run[r] \in InProgress
        /\ \A s \in Records \ {r} : run'[s] = run[s]
    BY <1>0, <1>9 DEF SaveTask, ExecuteReturns, SettleRecord, InProgress
  <2> QED
    BY <1>9, <2>1 DEF Alone, Marked
<1>10. ASSUME Alone, NEW r \in Records, ClearFlag(r) PROVE Alone'
  <2>1. /\ run[r] \in InProgress /\ run'[r] = "done"
        /\ \A s \in Records \ {r} : run'[s] = run[s]
        /\ \A c \in Callers : pc'[c] = IF pc[c] = "failing" /\ rec[c] = r THEN "idle" ELSE pc[c]
    BY <1>0, <1>10 DEF ClearFlag, InProgress
  <2>2. /\ executing /\ (\A s \in Records \ {r} : run[s] \notin InProgress)
        /\ \A c \in Callers : pc[c] \in {"prepare", "failing"} => pc[c] = "failing" /\ rec[c] = r
    BY <1>10, <2>1 DEF Alone, Marked
  <2>3. /\ \A s \in Records : run'[s] \notin InProgress
        /\ \A c \in Callers : pc'[c] \notin {"prepare", "failing"} /\ pc'[c] \notin Window
    BY <1>10, <2>1, <2>2 DEF Alone, InProgress, Window
  <2> QED
    BY <2>1, <2>3 DEF Alone, Marked
<1>11. ASSUME Alone, ClearExecuting PROVE Alone'
  <2>1. UNCHANGED <<pc, rec, run>>
    BY <1>11 DEF ClearExecuting, execVars
  <2>2. CASE executing' = executing
    BY <1>2, <1>11, <2>1, <2>2
  <2>3. CASE executing' = FALSE /\ ~Marked
    BY <1>11, <2>1, <2>3 DEF Alone, Marked
  <2> QED
    BY <1>0, <1>11, <2>2, <2>3 DEF ClearExecuting
<1>12. ASSUME Alone, \/ CleanRecord \/ CronRun \/ ListWaiting \/ FlagWaiting \/ UNCHANGED vars
                     \/ \E r \in Records : AttemptTimesOut(r) \/ ActionEnds(r)
       PROVE  Alone'
  BY <1>2, <1>12 DEF CleanRecord, CronRun, ListWaiting, FlagWaiting, AttemptTimesOut, ActionEnds,
     vars, execVars
<1> QED
  BY <1>n, <1>1, <1>3, <1>4, <1>5, <1>6, <1>7, <1>8, <1>9, <1>10, <1>11, <1>12
     DEF Next, HandleJob, Execution, Hook

\* A cronjob acts twice at a time only when two triggers passed the check of HandleJob
\* before either had set the flag, when handleCronjobStatus cleared the flag of an
\* execution the scheduler had started before it, when the flag could not be read or set,
\* or when one of the two is what an attempt that timed out still does after EndRecords
\* has cleared the flag.
THEOREM OverlapHasCauseHolds == Spec => []OverlapHasCause
<1>1. Init => OverlapInv
  BY TypeInit DEF Init, OverlapInv, OutlivingOK, HoldOK, PendingOK, Alone, Marked, Window,
     InProgress
<1>2. OverlapInv /\ [Next]_vars => OverlapInv'
  BY TypeStep, HoldStep, PendingStep, OutlivingStep, OverlapStep DEF OverlapInv
<1>3. OverlapInv => OverlapHasCause
  <2> SUFFICES ASSUME OverlapInv, ~unguarded, NEW r \in Acting, NEW s \in Acting, r # s
               PROVE  \E t \in {r, s} : t \in outliving /\ run[t] = "done"
      BY DEF OverlapHasCause
  <2>1. r \in Records /\ s \in Records
    BY DEF Acting, Running, OverlapInv, TypeInv, TypeOK
  <2>2. PICK t \in {r, s} : run[t] \notin InProgress
    BY <2>1 DEF OverlapInv, Alone
  <2>3. t \in outliving
    BY <2>2 DEF Acting, Running, InProgress
  <2>4. run[t] = "done"
    BY <2>2, <2>3 DEF OverlapInv, OutlivingOK, InProgress
  <2> QED
    BY <2>3, <2>4
<1> QED
  BY <1>1, <1>2, <1>3, PTL DEF Spec
=============================================================================
