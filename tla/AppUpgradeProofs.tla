-------------------------- MODULE AppUpgradeProofs --------------------------
(***************************************************************************)
(* Proofs about the upgrades of one application, for every number of       *)
(* versions, of upgrades, of other operations and of crashes.              *)
(***************************************************************************)
EXTENDS AppUpgrade, TLAPS

Backups == [files : Files, data : Versions]

(* The type invariant, with what it needs to be inductive. *)

\* What a rollback reads is there: the snapshot from the moment it is taken until it
\* is restored, and the backup while it is recovered.
PhaseOK ==
    \A p \in Requests :
        /\ pc[p] \in {"down", "restore"} \/ ctx[p].mutated => ctx[p].snapshot \in Files
        /\ pc[p] = "recover" => ctx[p].backupFile \in Backups

TypeInv == TypeOK /\ PhaseOK

(* A context remains one, whichever field an upgrade sets. *)

LEMMA FlagsType ==
    ASSUME NEW c \in Contexts, NEW b \in BOOLEAN
    PROVE  /\ [c EXCEPT !.failed = b] \in Contexts
           /\ [c EXCEPT !.rollbackErr = b] \in Contexts
           /\ [c EXCEPT !.stopAttempted = b] \in Contexts
           /\ [c EXCEPT !.downAttempted = b] \in Contexts
           /\ [c EXCEPT !.mutated = b] \in Contexts
  BY DEF Contexts

\* A snapshot and a backup fit into a context.
LEMMA SecuredType ==
    ASSUME NEW c \in Contexts, NEW s \in Files, NEW b \in Backups
    PROVE  /\ [c EXCEPT !.snapshot = s] \in Contexts
           /\ [c EXCEPT !.backupFile = b] \in Contexts
  BY DEF Contexts, Backups

\* What a context holds.
LEMMA FieldsType ==
    ASSUME NEW c \in Contexts
    PROVE  /\ c.original \in Rows /\ c.target \in Versions
           /\ c.failed \in BOOLEAN /\ c.rollbackErr \in BOOLEAN
           /\ c.mutated \in BOOLEAN /\ c.downAttempted \in BOOLEAN
           /\ c.stopAttempted \in BOOLEAN
           /\ c.snapshot \in Files \cup {None}
           /\ c.backupFile \in Backups \cup {None}
  BY DEF Contexts, Backups

\* An upgrade that is over has an empty context.
LEMMA NoContextType == NoContext \in Contexts
  BY BoundsAssumption DEF NoContext, Contexts, Rows, Versions, Statuses

\* An upgrade that is requested has a context.
LEMMA ChosenType ==
    ASSUME NEW r \in Rows, NEW t \in Versions
    PROVE  [NoContext EXCEPT !.original = r, !.target = t] \in Contexts
  BY BoundsAssumption DEF NoContext, Contexts, Rows, Versions, Statuses

HostOK == /\ files \in Files
          /\ containers \in [of : Versions \cup {Gone, Mixed}, on : BOOLEAN]
          /\ data \in Versions /\ images \subseteq Versions

\* Docker leaves containers and data of known versions.
LEMMA ComposeType ==
    ASSUME HostOK
    PROVE  /\ Described \in Versions \cup {Gone, Mixed}
           /\ \A v \in Versions \cup {Gone, Mixed} : Migrated(v) \subseteq Versions
<1>1. Described \in Versions \cup {Gone, Mixed}
  BY DEF HostOK, Described, Files, Parts
<1>2. ASSUME NEW v \in Versions \cup {Gone, Mixed}
      PROVE  Migrated(v) \subseteq Versions
  BY DEF HostOK, Migrated, Versions, Gone, Mixed
<1> QED
  BY <1>1, <1>2

ContainersOK == /\ containers' \in [of : Versions \cup {Gone, Mixed}, on : BOOLEAN]
                /\ data' \in Versions

\* compose up, whether it succeeds or fails.
LEMMA UpType ==
    ASSUME HostOK, UpSucceeds \/ UpFails \/ Contain(Described)
    PROVE  ContainersOK
<1>0. /\ Described \in Versions \cup {Gone, Mixed}
      /\ Migrated(Described) \subseteq Versions
  BY ComposeType
<1>1. ASSUME Contain(Described) PROVE ContainersOK
  <2>1. containers' = [of |-> Described, on |-> TRUE]
    BY <1>1 DEF Contain
  <2>2. data' \in Migrated(Described)
    BY <1>1 DEF Contain
  <2> QED
    BY <1>0, <2>1, <2>2 DEF ContainersOK
<1>2. ASSUME CanUp, containers' = [of |-> Described, on |-> FALSE],
             data' \in Migrated(Described)
      PROVE  ContainersOK
  BY <1>0, <1>2 DEF ContainersOK
<1>3. ASSUME UNCHANGED <<containers, data>> PROVE ContainersOK
  BY <1>3 DEF HostOK, ContainersOK
<1> QED
  BY <1>1, <1>2, <1>3 DEF UpSucceeds, UpFails

\* compose down, stop and start.
LEMMA HaltType ==
    ASSUME HostOK, DownSucceeds \/ HaltFails \/ StartSucceeds
    PROVE  containers' \in [of : Versions \cup {Gone, Mixed}, on : BOOLEAN]
<1>1. CASE DownSucceeds
  BY <1>1 DEF HostOK, DownSucceeds
<1>2. CASE HaltFails
  BY <1>2 DEF HostOK, HaltFails
<1>3. CASE StartSucceeds
  BY <1>3 DEF HostOK, StartSucceeds
<1> QED
  BY <1>1, <1>2, <1>3

\* The application as it was installed.
LEMMA TypeInit == Init => TypeInv
<1> SUFFICES ASSUME Init PROVE TypeInv
    OBVIOUS
<1>1. 1 \in Versions
  BY BoundsAssumption DEF Versions
<1>2. row \in Rows /\ HostOK
  BY <1>1 DEF Init, Rows, Statuses, HostOK, Files, Parts
<1>3. /\ pc \in [Requests -> Labels] /\ ctx \in [Requests -> Contexts]
      /\ lock \subseteq Requests /\ executing \subseteq Requests
  BY NoContextType DEF Init, Labels
<1>4. /\ op = Idle /\ ops \in 0 .. MaxOps /\ crashes \in 0 .. MaxCrashes
      /\ up \in BOOLEAN /\ history \subseteq Causes
  BY BoundsAssumption DEF Init
<1>6. starting \in BOOLEAN /\ listed \in Rows \cup {None}
  <2>1. starting = FALSE /\ listed = None
    BY DEF Init
  <2> QED BY <2>1
<1>5. PhaseOK
  BY DEF Init, PhaseOK, NoContext
<1> QED
  BY <1>2, <1>3, <1>4, <1>5, <1>6 DEF TypeInv, TypeOK, HostOK

(***************************************************************************)
(* Where the upgrades are and what they carry.                             *)
(***************************************************************************)
Control == pc \in [Requests -> Labels] /\ ctx \in [Requests -> Contexts] /\ PhaseOK

\* An upgrade that goes on with a context fit for its next step.
LEMMA Moved ==
    ASSUME Control, NEW p \in Requests, NEW step \in Labels, NEW c \in Contexts,
           Goto(p, step), ctx' = [ctx EXCEPT ![p] = c],
           step \in {"down", "restore"} \/ c.mutated => c.snapshot \in Files,
           step = "recover" => c.backupFile \in Backups
    PROVE  Control'
<1>1. pc' \in [Requests -> Labels] /\ ctx' \in [Requests -> Contexts]
  BY DEF Control, Goto
<1>2. ASSUME NEW q \in Requests
      PROVE  /\ pc'[q] \in {"down", "restore"} \/ ctx'[q].mutated => ctx'[q].snapshot \in Files
             /\ pc'[q] = "recover" => ctx'[q].backupFile \in Backups
  <2>1. CASE q = p
    <3>1. pc'[p] = step /\ ctx'[p] = c
      BY DEF Control, Goto
    <3> QED
      BY <2>1, <3>1
  <2>2. CASE q # p
    <3>1. pc'[q] = pc[q] /\ ctx'[q] = ctx[q]
      BY <2>2 DEF Control, Goto
    <3> QED
      BY <3>1 DEF Control, PhaseOK
  <2> QED
    BY <2>1, <2>2
<1> QED
  BY <1>1, <1>2 DEF Control, PhaseOK

\* An upgrade that goes on with the context it had.
LEMMA MovedOn ==
    ASSUME Control, NEW p \in Requests, NEW step \in Labels,
           Goto(p, step), UNCHANGED ctx,
           step \in {"down", "restore"} => ctx[p].snapshot \in Files,
           step = "recover" => ctx[p].backupFile \in Backups
    PROVE  Control'
<1>1. ctx' = [ctx EXCEPT ![p] = ctx[p]] /\ ctx[p] \in Contexts
  BY DEF Control
<1>2. ctx[p].mutated => ctx[p].snapshot \in Files
  BY DEF Control, PhaseOK
<1> QED
  BY <1>1, <1>2, Moved

\* An upgrade some step of which failed.
LEMMA MovedFailed ==
    ASSUME Control, NEW p \in Requests, NEW step \in Labels \ {"down", "restore", "recover"},
           Goto(p, step), ctx' = [ctx EXCEPT ![p].failed = TRUE]
    PROVE  Control'
<1>1. ctx' = [ctx EXCEPT ![p] = [ctx[p] EXCEPT !.failed = TRUE]] /\ ctx[p] \in Contexts
  BY DEF Control
<1>2. [ctx[p] EXCEPT !.failed = TRUE] \in Contexts
  BY <1>1, FlagsType
<1>3. ctx[p].mutated => ctx[p].snapshot \in Files
  BY DEF Control, PhaseOK
<1>4. /\ [ctx[p] EXCEPT !.failed = TRUE].mutated = ctx[p].mutated
      /\ [ctx[p] EXCEPT !.failed = TRUE].snapshot = ctx[p].snapshot
  BY <1>1 DEF Contexts
<1> QED
  BY <1>1, <1>2, <1>3, <1>4, Moved

\* An upgrade whose rollback has ended.
LEMMA MovedToEnd ==
    ASSUME Control, NEW p \in Requests, NEW err \in BOOLEAN, RollbackEnds(p, err)
    PROVE  Control'
<1> DEFINE c == [ctx[p] EXCEPT !.rollbackErr = @ \/ err]
<1>1. ctx' = [ctx EXCEPT ![p] = c] /\ ctx[p] \in Contexts
  BY DEF Control, RollbackEnds
<1>2. c = [ctx[p] EXCEPT !.rollbackErr = ctx[p].rollbackErr \/ err]
  OBVIOUS
<1>3. (ctx[p].rollbackErr \/ err) \in BOOLEAN
  OBVIOUS
<1>4. c \in Contexts
  BY <1>1, <1>2, <1>3, FlagsType
<1>5. ctx[p].mutated => ctx[p].snapshot \in Files
  BY DEF Control, PhaseOK
<1>6. c.mutated = ctx[p].mutated /\ c.snapshot = ctx[p].snapshot
  BY <1>1 DEF Contexts
<1>7. Goto(p, "end") /\ "end" \in Labels
  BY DEF RollbackEnds, Labels
<1> HIDE DEF c
<1> QED
  BY <1>1, <1>4, <1>5, <1>6, <1>7, Moved

\* An upgrade that is over.
LEMMA MovedToDone ==
    ASSUME Control, NEW p \in Requests, Goto(p, "done"), ctx' = [ctx EXCEPT ![p] = NoContext]
    PROVE  Control'
<1>1. "done" \in Labels /\ NoContext.mutated = FALSE
  BY DEF Labels, NoContext
<1> QED
  BY <1>1, NoContextType, Moved

\* Every step of an upgrade leaves it with a context fit for the next one.
LEMMA ControlStep == TypeInv /\ [Next]_vars => Control'
<1> SUFFICES ASSUME TypeInv, [Next]_vars PROVE Control'
    OBVIOUS
<1>0. /\ Control /\ HostOK /\ row \in Rows
      /\ pc \in [Requests -> Labels] /\ ctx \in [Requests -> Contexts]
  BY DEF TypeInv, TypeOK, Control, HostOK
<1>1. ASSUME NEW p \in Requests, Read(p) PROVE Control'
  <2>1. PICK target \in Versions :
           ctx' = [ctx EXCEPT ![p] = [NoContext EXCEPT !.original = row, !.target = target]]
    BY <1>1 DEF Read
  <2> DEFINE c == [NoContext EXCEPT !.original = row, !.target = target]
  <2>2. c \in Contexts
    BY <1>0, <2>1, ChosenType
  <2>3. c.mutated = FALSE
    BY DEF NoContext
  <2>4. Goto(p, "read") /\ "read" \in Labels
    BY <1>1 DEF Read, Labels
  <2>5. ctx' = [ctx EXCEPT ![p] = c]
    BY <2>1
  <2> HIDE DEF c
  <2> QED
    BY <1>0, <2>2, <2>3, <2>4, <2>5, Moved
<1>2. ASSUME NEW p \in Requests, Lock(p) PROVE Control'
  <2>1. \/ Goto(p, "locked") /\ UNCHANGED ctx
        \/ Goto(p, "done") /\ ctx' = [ctx EXCEPT ![p] = NoContext]
    BY <1>2 DEF Lock
  <2> QED
    BY <1>0, <2>1, MovedOn, MovedToDone DEF Labels
<1>3. ASSUME NEW p \in Requests, Launch(p) PROVE Control'
  <2>1. \/ Goto(p, "start") /\ UNCHANGED ctx
        \/ Goto(p, "done") /\ ctx' = [ctx EXCEPT ![p] = NoContext]
    BY <1>3 DEF Launch
  <2> QED
    BY <1>0, <2>1, MovedOn, MovedToDone DEF Labels
<1>4. ASSUME NEW p \in Requests, Start(p) PROVE Control'
  <2>1. \/ Goto(p, "prepare") /\ UNCHANGED ctx
        \/ Goto(p, "end") /\ ctx' = [ctx EXCEPT ![p].failed = TRUE]
    BY <1>4 DEF Start
  <2> QED
    BY <1>0, <2>1, MovedOn, MovedFailed DEF Labels
<1>5. ASSUME NEW p \in Requests, Prepare(p) PROVE Control'
  <2>1. \/ Goto(p, "stop") /\ UNCHANGED ctx
        \/ Goto(p, "end") /\ ctx' = [ctx EXCEPT ![p].failed = TRUE]
    BY <1>5 DEF Prepare
  <2> QED
    BY <1>0, <2>1, MovedOn, MovedFailed DEF Labels
<1>6. ASSUME NEW p \in Requests, CutoverFails(p) PROVE Control'
  BY <1>0, <1>6, MovedFailed DEF CutoverFails, Labels
<1>7. ASSUME NEW p \in Requests, NEW err \in BOOLEAN, RollbackEnds(p, err) PROVE Control'
  BY <1>0, <1>7, MovedToEnd
<1>8. ASSUME NEW p \in Requests, Stop(p) PROVE Control'
  <2> DEFINE c == [ctx[p] EXCEPT !.stopAttempted = TRUE]
             d == [c EXCEPT !.failed = TRUE]
  <2>1. c \in Contexts /\ d \in Contexts
    BY <1>0, FlagsType
  <2>2. /\ c.mutated = ctx[p].mutated /\ c.snapshot = ctx[p].snapshot
        /\ d.mutated = ctx[p].mutated /\ d.snapshot = ctx[p].snapshot
    BY <1>0 DEF Contexts
  <2>3. \/ Goto(p, "snapshot") /\ ctx' = [ctx EXCEPT ![p] = c]
        \/ Goto(p, "rollback") /\ ctx' = [ctx EXCEPT ![p] = d]
    BY <1>0, <1>8 DEF Stop
  <2>4. ctx[p].mutated => ctx[p].snapshot \in Files
    BY <1>0 DEF Control, PhaseOK
  <2>5. "snapshot" \in Labels /\ "rollback" \in Labels
    BY DEF Labels
  <2> HIDE DEF c, d
  <2> QED
    BY <1>0, <2>1, <2>2, <2>3, <2>4, <2>5, Moved
<1>9. ASSUME NEW p \in Requests, Secure(p) PROVE Control'
  <2> DEFINE bk == [files |-> files, data |-> data]
             c == [ctx[p] EXCEPT !.snapshot = files]
             d == [c EXCEPT !.backupFile = bk]
             cf == [c EXCEPT !.failed = TRUE]
             df == [d EXCEPT !.failed = TRUE]
  <2>1. bk \in Backups /\ files \in Files
    BY <1>0 DEF Backups, HostOK
  <2>2. c \in Contexts /\ d \in Contexts
    BY <1>0, <2>1, SecuredType
  <2>3. cf \in Contexts /\ df \in Contexts
    BY <2>2, FlagsType
  <2>4. c.snapshot = files /\ d.snapshot = files /\ cf.snapshot = files /\ df.snapshot = files
    BY <1>0 DEF Contexts
  <2>5. \/ CutoverFails(p)
        \/ Goto(p, "down") /\ ctx' = [ctx EXCEPT ![p] = c]
        \/ Goto(p, "down") /\ ctx' = [ctx EXCEPT ![p] = d]
        \/ Goto(p, "rollback") /\ ctx' = [ctx EXCEPT ![p] = cf]
        \/ Goto(p, "rollback") /\ ctx' = [ctx EXCEPT ![p] = df]
    <3> DEFINE taken == [ctx EXCEPT ![p].snapshot = files]
               saved == [taken EXCEPT ![p].backupFile = bk]
    <3>1. taken = [ctx EXCEPT ![p] = c] /\ saved = [ctx EXCEPT ![p] = d]
      BY <1>0
    <3>2. \/ CutoverFails(p)
          \/ ctx' \in {taken, saved} /\ Goto(p, "down")
          \/ (\E t \in {taken, saved} : ctx' = [t EXCEPT ![p].failed = TRUE]) /\ Goto(p, "rollback")
      BY <1>9 DEF Secure
    <3>3. /\ [taken EXCEPT ![p].failed = TRUE] = [ctx EXCEPT ![p] = cf]
          /\ [saved EXCEPT ![p].failed = TRUE] = [ctx EXCEPT ![p] = df]
      BY <1>0
    <3> HIDE DEF taken, saved, c, d, cf, df
    <3> QED
      BY <3>1, <3>2, <3>3
  <2>6. "down" \in Labels /\ "rollback" \in Labels
    BY DEF Labels
  <2> HIDE DEF c, d, cf, df
  <2> QED
    BY <1>0, <1>6, <2>1, <2>2, <2>3, <2>4, <2>5, <2>6, Moved
<1>10. ASSUME NEW p \in Requests, Down(p) PROVE Control'
  <2> DEFINE c == [ctx[p] EXCEPT !.downAttempted = TRUE]
             d == [c EXCEPT !.mutated = TRUE]
             f == [c EXCEPT !.failed = TRUE]
  <2>1. c \in Contexts /\ d \in Contexts /\ f \in Contexts
    BY <1>0, FlagsType
  <2>2. d.snapshot = ctx[p].snapshot /\ f.snapshot = ctx[p].snapshot
    BY <1>0 DEF Contexts
  <2>3. \/ Goto(p, "apply") /\ ctx' = [ctx EXCEPT ![p] = d]
        \/ Goto(p, "rollback") /\ ctx' = [ctx EXCEPT ![p] = f]
    BY <1>0, <1>10 DEF Down
  <2>4. ctx[p].snapshot \in Files
    BY <1>0, <1>10 DEF Down, Control, PhaseOK
  <2>5. "apply" \in Labels /\ "rollback" \in Labels
    BY DEF Labels
  <2> HIDE DEF c, d, f
  <2> QED
    BY <1>0, <2>1, <2>2, <2>3, <2>4, <2>5, Moved
<1>11. ASSUME NEW p \in Requests, ApplyStagedFiles(p) PROVE Control'
  <2>1. (Goto(p, "env") /\ UNCHANGED ctx) \/ CutoverFails(p)
    BY <1>11 DEF ApplyStagedFiles
  <2> QED
    BY <1>0, <1>6, <2>1, MovedOn DEF Labels
<1>12. ASSUME NEW p \in Requests,
              WriteFile(p, "env", "env", "script") \/ WriteFile(p, "compose", "compose", "up")
       PROVE  Control'
  <2>1. ((Goto(p, "script") \/ Goto(p, "up")) /\ UNCHANGED ctx) \/ CutoverFails(p)
    BY <1>12 DEF WriteFile
  <2> QED
    BY <1>0, <1>6, <2>1, MovedOn DEF Labels
<1>13. ASSUME NEW p \in Requests, RunScript(p) PROVE Control'
  <2>1. (Goto(p, "compose") /\ UNCHANGED ctx) \/ CutoverFails(p)
    BY <1>13 DEF RunScript
  <2> QED
    BY <1>0, <1>6, <2>1, MovedOn DEF Labels
<1>14. ASSUME NEW p \in Requests, Up(p) PROVE Control'
  <2>1. (Goto(p, "commit") /\ UNCHANGED ctx) \/ CutoverFails(p)
    BY <1>14 DEF Up
  <2> QED
    BY <1>0, <1>6, <2>1, MovedOn DEF Labels
<1>15. ASSUME NEW p \in Requests, Commit(p) PROVE Control'
  <2>1. (Goto(p, "images") /\ UNCHANGED ctx) \/ CutoverFails(p)
    BY <1>15 DEF Commit
  <2> QED
    BY <1>0, <1>6, <2>1, MovedOn DEF Labels
<1>16. ASSUME NEW p \in Requests, DeleteOldImages(p) PROVE Control'
  BY <1>0, <1>16, MovedOn DEF DeleteOldImages, Labels
<1>17. ASSUME NEW p \in Requests, Rollback(p) PROVE Control'
  <2> DEFINE c == [ctx[p] EXCEPT !.rollbackErr = TRUE]
  <2>1. \/ Goto(p, "recheck") /\ UNCHANGED ctx
        \/ RollbackEnds(p, TRUE)
        \/ /\ ~FilesUntouched(p) /\ Goto(p, "restore")
           /\ UNCHANGED ctx \/ ctx' = [ctx EXCEPT ![p].rollbackErr = TRUE]
    BY <1>17 DEF Rollback
  <2>2. ctx[p].mutated => ctx[p].snapshot \in Files
    BY <1>0 DEF Control, PhaseOK
  <2>3. c \in Contexts
    BY <1>0, FlagsType
  <2>4. c.snapshot = ctx[p].snapshot
    BY <1>0 DEF Contexts
  <2>5. ctx' = [ctx EXCEPT ![p].rollbackErr = TRUE] => ctx' = [ctx EXCEPT ![p] = c]
    BY <1>0
  <2>6. "recheck" \in Labels /\ "restore" \in Labels
    BY DEF Labels
  <2> HIDE DEF c
  <2>7. CASE ~FilesUntouched(p) /\ Goto(p, "restore") /\ ctx' = [ctx EXCEPT ![p] = c]
    BY <1>0, <2>2, <2>3, <2>4, <2>6, <2>7, Moved DEF FilesUntouched
  <2>8. CASE ~FilesUntouched(p) /\ Goto(p, "restore") /\ UNCHANGED ctx
    BY <1>0, <2>2, <2>6, <2>8, MovedOn DEF FilesUntouched
  <2>9. CASE (Goto(p, "recheck") /\ UNCHANGED ctx) \/ RollbackEnds(p, TRUE)
    BY <1>0, <1>7, <2>6, <2>9, MovedOn
  <2> QED
    BY <2>1, <2>5, <2>7, <2>8, <2>9
<1>18. ASSUME NEW p \in Requests, RestoreManagedFiles(p) PROVE Control'
  <2>1. \/ /\ ctx[p].backupFile # None
           /\ Goto(p, "recover") /\ UNCHANGED ctx
        \/ Goto(p, "reup") /\ UNCHANGED ctx
        \/ RollbackEnds(p, TRUE)
    BY <1>18 DEF RestoreManagedFiles
  <2>2. ctx[p].backupFile \in Backups \cup {None}
    BY <1>0, FieldsType
  <2>3. "recover" \in Labels /\ "reup" \in Labels
    BY DEF Labels
  <2> QED
    BY <1>0, <1>7, <2>1, <2>2, <2>3, MovedOn
<1>19. ASSUME NEW p \in Requests, Recover(p) PROVE Control'
  <2>1. (Goto(p, "upafter") \/ Goto(p, "uplast")) /\ UNCHANGED ctx
    BY <1>19 DEF Recover
  <2> QED
    BY <1>0, <2>1, MovedOn DEF Labels
<1>20. ASSUME NEW p \in Requests, UpAgain(p) PROVE Control'
  <2>1. (Goto(p, "recheck") /\ UNCHANGED ctx) \/ RollbackEnds(p, TRUE)
    BY <1>20 DEF UpAgain
  <2> QED
    BY <1>0, <1>7, <2>1, MovedOn DEF Labels
<1>21. ASSUME NEW p \in Requests, FinishRollback(p) PROVE Control'
  BY <1>7, <1>21 DEF FinishRollback
<1>22. ASSUME NEW p \in Requests, End(p) PROVE Control'
  BY <1>0, <1>22, MovedOn DEF End, Labels
<1>23. ASSUME NEW p \in Requests, Release(p) PROVE Control'
  BY <1>0, <1>23, MovedToDone DEF Release
<1>24. CASE Crash
  <2>1. ctx' = [p \in Requests |-> NoContext] /\ NoContext.mutated = FALSE
    BY <1>24 DEF Crash, NoContext
  <2>2. pc' = [p \in Requests |-> IF Active(p) THEN "done" ELSE pc[p]]
    BY <1>24 DEF Crash
  <2>3. \A p \in Requests : pc'[p] \in {"idle", "done"}
    BY <1>0, <2>2 DEF Active
  <2>4. pc' \in [Requests -> Labels]
    BY <1>0, <2>2 DEF Labels
  <2> QED
    BY <2>1, <2>3, <2>4, NoContextType DEF Control, PhaseOK
<1>25. CASE UNCHANGED <<pc, ctx>>
  BY <1>0, <1>25 DEF Control, PhaseOK
<1>26. CASE \/ OpRead \/ OpCompose \/ OpSave \/ Restart \/ SyncList \/ SyncSave
            \/ UNCHANGED vars
  BY <1>25, <1>26 DEF OpRead, OpCompose, OpSave, Restart, SyncList, SyncSave, vars
<1>27. ASSUME NEW p \in Requests, Step(p) PROVE Control'
  BY <1>2, <1>3, <1>4, <1>5, <1>8, <1>9, <1>10, <1>11, <1>12, <1>13, <1>14, <1>15, <1>16,
     <1>17, <1>18, <1>19, <1>20, <1>21, <1>22, <1>23, <1>27 DEF Step
<1> QED
  BY <1>1, <1>24, <1>26, <1>27 DEF Next

(* The row, the host and the rest. *)

RowsOK ==
    /\ row \in Rows
    /\ \/ op = Idle
       \/ op \in [kind : {"start", "stop", "favorite", "sync", "error"}, read : Rows]

\* Whoever writes the row writes a row.
LEMMA RowsStep == TypeInv /\ [Next]_vars => RowsOK'
<1> SUFFICES ASSUME TypeInv, [Next]_vars PROVE RowsOK'
    OBVIOUS
<1>0. /\ RowsOK /\ ctx \in [Requests -> Contexts]
  BY DEF TypeInv, TypeOK, RowsOK
<1>1. ASSUME NEW p \in Requests, NEW s \in Statuses
      PROVE  /\ ctx[p].original \in Rows /\ [ctx[p].original EXCEPT !.status = s] \in Rows
             /\ [version |-> ctx[p].target, status |-> s] \in Rows
  BY <1>0, FieldsType DEF Rows
<1>2. ASSUME NEW p \in Requests, Read(p) \/ Step(p) PROVE op' = op
  BY <1>2 DEF Read, Step, Lock, Launch, Start, Prepare, Stop, Secure, Down, ApplyStagedFiles,
         WriteFile, RunScript, Up, Commit, DeleteOldImages, Rollback, RestoreManagedFiles,
         Recover, UpAgain, FinishRollback, End, Release, opVars
<1>3. ASSUME NEW p \in Requests, Read(p) \/ Step(p)
      PROVE  \/ row' = row
             \/ Launch(p) \/ Commit(p) \/ Recover(p) \/ FinishRollback(p) \/ End(p)
  BY <1>3 DEF Read, Step, Lock, Start, Prepare, Stop, Secure, Down, ApplyStagedFiles,
         WriteFile, RunScript, Up, DeleteOldImages, Rollback, RestoreManagedFiles,
         UpAgain, Release
<1>4. ASSUME NEW p \in Requests,
             Launch(p) \/ Commit(p) \/ Recover(p) \/ FinishRollback(p) \/ End(p)
      PROVE  row' \in Rows
  <2>1. \/ row' = row \/ row' = ctx[p].original
        \/ \E s \in Statuses : \/ row' = [ctx[p].original EXCEPT !.status = s]
                               \/ row' = [version |-> ctx[p].target, status |-> s]
    <3>1. CASE Launch(p)
      BY <3>1 DEF Launch, Statuses
    <3>2. CASE Commit(p)
      BY <3>2 DEF Commit, Statuses
    <3>3. CASE Recover(p)
      BY <3>3 DEF Recover, Statuses
    <3>4. CASE FinishRollback(p)
      BY <3>4 DEF FinishRollback
    <3>5. CASE End(p)
      BY <3>5 DEF End, FailedRow, Statuses
    <3> QED
      BY <1>4, <3>1, <3>2, <3>3, <3>4, <3>5
  <2>2. CASE row' = row \/ row' = ctx[p].original
    BY <1>0, <2>2, FieldsType DEF RowsOK
  <2>3. CASE \E s \in Statuses : \/ row' = [ctx[p].original EXCEPT !.status = s]
                                 \/ row' = [version |-> ctx[p].target, status |-> s]
    <3>1. PICK s \in Statuses : \/ row' = [ctx[p].original EXCEPT !.status = s]
                               \/ row' = [version |-> ctx[p].target, status |-> s]
      BY <2>3
    <3> QED
      BY <1>1, <3>1
  <2> QED
    BY <2>1, <2>2, <2>3
<1>5. ASSUME NEW p \in Requests, Read(p) \/ Step(p) PROVE RowsOK'
  BY <1>0, <1>2, <1>3, <1>4, <1>5 DEF RowsOK
<1>6. CASE OpRead
  <2>1. row' = row /\ \E kind \in {"start", "stop", "favorite"} : op' = [kind |-> kind, read |-> row]
    BY <1>6 DEF OpRead
  <2> QED
    BY <1>0, <2>1 DEF RowsOK
<1>7. CASE OpCompose
  <2>1. op.kind \in {"start", "stop"}
    BY <1>7 DEF OpCompose
  <2>2. op \in [kind : {"start", "stop", "favorite", "sync", "error"}, read : Rows]
    BY <1>0, <2>1 DEF RowsOK, Idle
  <2>3. row' = row /\ op' \in {[op EXCEPT !.kind = "sync"], [op EXCEPT !.kind = "error"]}
    BY <1>7 DEF OpCompose
  <2> QED
    BY <1>0, <2>2, <2>3 DEF RowsOK
<1>8. CASE OpSave
  <2>1. op.kind \in {"favorite", "sync", "error"}
    BY <1>8 DEF OpSave
  <2>2. op \in [kind : {"start", "stop", "favorite", "sync", "error"}, read : Rows]
    BY <1>0, <2>1 DEF RowsOK, Idle
  <2>3. row' = OpRow /\ op' = Idle
    BY <1>8 DEF OpSave
  <2>4. Observed \in Statuses /\ "UpErr" \in Statuses
    BY DEF Observed, Statuses
  <2>5. op.read \in Rows /\ \A s \in Statuses : [op.read EXCEPT !.status = s] \in Rows
    BY <2>2 DEF Rows
  <2>6. OpRow \in Rows
    BY <1>0, <2>1, <2>4, <2>5 DEF OpRow, RowsOK
  <2> QED
    BY <2>3, <2>6 DEF RowsOK
<1>9. CASE Crash
  BY <1>0, <1>9 DEF Crash, RowsOK
<1>10. CASE SyncSave
  <2>1. (row' = SyncedRow \/ row' = row) /\ op' = op
    BY <1>10 DEF SyncSave, opVars
  <2>2. listed \in Rows
    BY <1>10 DEF SyncSave, TypeInv, TypeOK
  <2>3. SyncedRow \in Rows
    BY <2>2 DEF SyncedRow, Rows, Statuses
  <2> QED
    BY <1>0, <2>1, <2>3 DEF RowsOK
<1>11. CASE Restart \/ SyncList \/ UNCHANGED vars
  BY <1>0, <1>11 DEF RowsOK, Restart, SyncList, vars, opVars
<1> QED
  BY <1>5, <1>6, <1>7, <1>8, <1>9, <1>10, <1>11 DEF Next

\* Files, containers, data and images are of known versions.
LEMMA HostStep == TypeInv /\ [Next]_vars => HostOK'
<1> SUFFICES ASSUME TypeInv, [Next]_vars PROVE HostOK'
    OBVIOUS
<1>0. HostOK /\ PhaseOK /\ ctx \in [Requests -> Contexts]
  BY DEF TypeInv, TypeOK, HostOK
<1>1. CASE UNCHANGED hostVars
  BY <1>0, <1>1 DEF HostOK, hostVars
<1>2. ASSUME UNCHANGED <<files, images>>, UpSucceeds \/ UpFails PROVE HostOK'
  BY <1>0, <1>2, UpType DEF HostOK, ContainersOK
<1>3. ASSUME UNCHANGED <<files, data, images>>, DownSucceeds \/ HaltFails \/ StartSucceeds
      PROVE  HostOK'
  BY <1>0, <1>3, HaltType DEF HostOK
<1>4. ASSUME UNCHANGED <<files, data, images>>, containers' = [containers EXCEPT !.on = FALSE]
      PROVE  HostOK'
  BY <1>0, <1>4 DEF HostOK
<1>5. ASSUME UNCHANGED <<containers, data, images>>, files' \in Files PROVE HostOK'
  BY <1>0, <1>5 DEF HostOK
<1>6. ASSUME NEW p \in Requests, Prepare(p) PROVE HostOK'
  <2>1. /\ UNCHANGED <<files, containers, data>>
        /\ images' = images \cup {ctx[p].target} \/ UNCHANGED images
    BY <1>6 DEF Prepare, PreparedImages
  <2> QED
    BY <1>0, <2>1, FieldsType DEF HostOK
<1>7. ASSUME NEW p \in Requests, Stop(p) PROVE HostOK'
  BY <1>3, <1>4, <1>7 DEF Stop
<1>8. ASSUME NEW p \in Requests, Down(p) PROVE HostOK'
  BY <1>3, <1>8 DEF Down
<1>9. ASSUME NEW p \in Requests, ApplyStagedFiles(p) PROVE HostOK'
  <2>1. /\ UNCHANGED <<containers, data, images>>
        /\ files' \in {files, [files EXCEPT !["scripts"] = Gone],
                       [files EXCEPT !["scripts"] = ctx[p].target]}
    BY <1>9 DEF ApplyStagedFiles
  <2> QED
    BY <1>0, <1>5, <2>1, FieldsType DEF HostOK, Files
<1>10. ASSUME NEW p \in Requests,
              WriteFile(p, "env", "env", "script") \/ WriteFile(p, "compose", "compose", "up")
       PROVE  HostOK'
  <2>1. /\ UNCHANGED <<containers, data, images>>
        /\ files' \in {files, [files EXCEPT !["env"] = ctx[p].target],
                       [files EXCEPT !["compose"] = ctx[p].target]}
    BY <1>10 DEF WriteFile
  <2> QED
    BY <1>0, <1>5, <2>1, FieldsType DEF HostOK, Files
<1>11. ASSUME NEW p \in Requests, RunScript(p) PROVE HostOK'
  <2>1. UNCHANGED <<files, containers, images>> /\ data' \in Migrated(ctx[p].target)
    BY <1>11 DEF RunScript
  <2>2. Migrated(ctx[p].target) \subseteq Versions
    BY <1>0, FieldsType, ComposeType
  <2> QED
    BY <1>0, <2>1, <2>2 DEF HostOK
<1>12. ASSUME NEW p \in Requests, Up(p) \/ UpAgain(p) PROVE HostOK'
  BY <1>2, <1>12 DEF Up, UpAgain
<1>13. ASSUME NEW p \in Requests, DeleteOldImages(p) PROVE HostOK'
  BY <1>0, <1>13 DEF DeleteOldImages, HostOK
<1>14. ASSUME NEW p \in Requests, Rollback(p) PROVE HostOK'
  <2>1. \/ UNCHANGED hostVars
        \/ UNCHANGED <<files, images>> /\ (UpSucceeds \/ UpFails)
        \/ UNCHANGED <<files, data, images>> /\ (DownSucceeds \/ HaltFails \/ StartSucceeds)
    BY <1>14 DEF Rollback, hostVars
  <2> QED
    BY <1>1, <1>2, <1>3, <2>1
<1>15. ASSUME NEW p \in Requests, RestoreManagedFiles(p) PROVE HostOK'
  <2>1. UNCHANGED <<containers, data, images>> /\ (files' = ctx[p].snapshot \/ RestoreFails(p))
    BY <1>15 DEF RestoreManagedFiles
  <2>2. ctx[p].snapshot \in Files
    BY <1>0, <1>15 DEF RestoreManagedFiles, PhaseOK
  <2>3. RestoreFails(p) => files' \in Files
    BY <1>0, <2>2 DEF RestoreFails, HostOK, Files
  <2> QED
    BY <1>5, <2>1, <2>2, <2>3
<1>16. ASSUME NEW p \in Requests, Recover(p) PROVE HostOK'
  <2>1. ctx[p].backupFile.files \in Files /\ ctx[p].backupFile.data \in Versions
    BY <1>0, <1>16 DEF Recover, PhaseOK, Backups
  <2>2. /\ UNCHANGED <<containers, images>>
        /\ files' \in {files, ctx[p].backupFile.files}
        /\ data' \in {data, ctx[p].backupFile.data}
    BY <1>16 DEF Recover
  <2> QED
    BY <1>0, <2>1, <2>2 DEF HostOK
<1>17. CASE OpCompose
  <2>1. \/ /\ Described # Gone /\ Contain(Described)
           /\ images' = images \cup {files["compose"]} /\ UNCHANGED files
        \/ UNCHANGED <<files, images>> /\ UpFails
        \/ UNCHANGED <<files, data, images>> /\ containers' = [containers EXCEPT !.on = FALSE]
        \/ UNCHANGED <<files, data, images>> /\ HaltFails
    BY <1>17 DEF OpCompose
  <2>2. Described # Gone => files["compose"] \in Versions
    BY <1>0 DEF Described, HostOK, Files, Parts
  <2>3. Contain(Described) => ContainersOK
    BY <1>0, UpType
  <2>4. ASSUME Described # Gone, Contain(Described),
               images' = images \cup {files["compose"]}, UNCHANGED files
        PROVE  HostOK'
    BY <1>0, <2>2, <2>3, <2>4 DEF HostOK, ContainersOK
  <2> QED
    BY <1>2, <1>3, <1>4, <2>1, <2>4
<1>18. ASSUME NEW p \in Requests,
              \/ Read(p) \/ Lock(p) \/ Launch(p) \/ Start(p) \/ Secure(p) \/ Commit(p)
              \/ FinishRollback(p) \/ End(p) \/ Release(p)
       PROVE  HostOK'
  BY <1>1, <1>18 DEF Read, Lock, Launch, Start, Secure, Commit, FinishRollback, End, Release
<1>19. CASE \/ OpRead \/ OpSave \/ Crash \/ Restart \/ SyncList \/ SyncSave
            \/ UNCHANGED vars
  BY <1>1, <1>19 DEF OpRead, OpSave, Crash, Restart, SyncList, SyncSave, vars
<1>20. ASSUME NEW p \in Requests, Step(p) PROVE HostOK'
  BY <1>6, <1>7, <1>8, <1>9, <1>10, <1>11, <1>12, <1>13, <1>14, <1>15, <1>16, <1>18, <1>20
     DEF Step
<1> QED
  BY <1>17, <1>18, <1>19, <1>20 DEF Next

RestOK ==
    /\ lock \subseteq Requests /\ executing \subseteq Requests
    /\ ops \in 0 .. MaxOps /\ crashes \in 0 .. MaxCrashes
    /\ up \in BOOLEAN
    /\ starting \in BOOLEAN /\ listed \in Rows \cup {None}
    /\ history \subseteq Causes

\* What is recorded stays; only an overlap makes some of it superfluous.
LEMMA Recorded ==
    ASSUME NEW causes, Record(causes)
    PROVE  /\ history' \subseteq history \cup causes
           /\ (history \cup causes) \ Minor \subseteq history'
           /\ "overlap" \notin history' => history' = history \cup causes
BY DEF Record, Minor

\* The lock, the task rows and the counters.
LEMMA RestStep == TypeInv /\ [Next]_vars => RestOK'
<1> SUFFICES ASSUME TypeInv, [Next]_vars PROVE RestOK'
    OBVIOUS
<1>0. RestOK
  BY DEF TypeInv, TypeOK, RestOK
<1>1. ASSUME NEW p \in Requests, Read(p) \/ Step(p)
      PROVE  /\ UNCHANGED <<ops, lifeVars>>
             /\ lock' \subseteq Requests /\ executing' \subseteq Requests
  <2>1. UNCHANGED <<ops, lifeVars>>
    BY <1>1 DEF Read, Step, Lock, Launch, Start, Prepare, Stop, Secure, Down, ApplyStagedFiles,
           WriteFile, RunScript, Up, Commit, DeleteOldImages, Rollback, RestoreManagedFiles,
           Recover, UpAgain, FinishRollback, End, Release, opVars
  <2>2. lock' \in {lock, lock \cup {p}, lock \ {p}}
    BY <1>1 DEF Read, Step, Lock, Launch, Start, Prepare, Stop, Secure, Down, ApplyStagedFiles,
           WriteFile, RunScript, Up, Commit, DeleteOldImages, Rollback, RestoreManagedFiles,
           Recover, UpAgain, FinishRollback, End, Release
  <2>3. executing' \in {executing, executing \cup {p}, executing \ {p}}
    BY <1>1 DEF Read, Step, Lock, Launch, Start, Prepare, Stop, Secure, Down, ApplyStagedFiles,
           WriteFile, RunScript, Up, Commit, DeleteOldImages, Rollback, RestoreManagedFiles,
           Recover, UpAgain, FinishRollback, End, Release, RollbackEnds
  <2> QED
    BY <1>0, <2>1, <2>2, <2>3 DEF RestOK
<1>2. ASSUME NEW p \in Requests PROVE Early(p) \subseteq Causes
  BY DEF Early, Causes
<1>a. ASSUME NEW causes, causes \subseteq Causes, Record(causes) PROVE history' \subseteq Causes
  BY <1>0, <1>a, Recorded DEF RestOK
<1>3. ASSUME NEW p \in Requests, Read(p) \/ Step(p) PROVE history' \subseteq Causes
  <2>1. \/ history' = history \/ Read(p) \/ Lock(p) \/ RestoreManagedFiles(p) \/ End(p)
    BY <1>3 DEF Step, Launch, Start, Prepare, Stop, Secure, Down, ApplyStagedFiles,
           WriteFile, RunScript, Up, Commit, DeleteOldImages, Rollback,
           Recover, UpAgain, FinishRollback, Release
  <2>2. CASE Read(p) \/ Lock(p) \/ RestoreManagedFiles(p)
    <3>1. history' = history \/ \E causes \in SUBSET Causes : Record(causes)
      BY <2>2 DEF Read, Lock, RestoreManagedFiles, Causes
    <3> QED BY <1>0, <1>a, <3>1 DEF RestOK
  <2>3. CASE End(p)
    <3>1. history' = history \/ Record({"unsaved"} \cup Early(p))
      BY <2>3 DEF End
    <3>2. {"unsaved"} \cup Early(p) \subseteq Causes
      BY <1>2 DEF Causes
    <3> QED BY <1>0, <1>a, <3>1, <3>2 DEF RestOK
  <2> QED
    BY <1>0, <2>1, <2>2, <2>3 DEF RestOK
<1>4. ASSUME NEW p \in Requests, Read(p) \/ Step(p) PROVE RestOK'
  BY <1>0, <1>1, <1>3, <1>4 DEF RestOK, lifeVars
<1>5. CASE OpRead
  <2>1. \E causes \in SUBSET Causes : Record(causes)
    BY <1>5 DEF OpRead, Causes
  <2> QED BY <1>0, <1>5, <1>a, <2>1, BoundsAssumption DEF OpRead, RestOK, lifeVars
<1>6. CASE OpCompose
  BY <1>0, <1>6 DEF OpCompose, RestOK, lifeVars
<1>7. CASE OpSave
  <2>1. \E causes \in SUBSET Causes : Record(causes)
    BY <1>7 DEF OpSave, Causes
  <2> QED BY <1>0, <1>7, <1>a, <2>1 DEF OpSave, RestOK, lifeVars
<1>8. CASE Crash
  <2>1. /\ lock' = {} /\ executing' = executing /\ ops' = ops /\ up' = FALSE
        /\ crashes < MaxCrashes /\ crashes' = crashes + 1
        /\ starting' = FALSE /\ listed' = None
        /\ Record(UNION {Early(p) : p \in Requests})
    BY <1>8 DEF Crash
  <2>2. UNION {Early(p) : p \in Requests} \subseteq Causes
    BY <1>2
  <2>3. crashes' \in 0 .. MaxCrashes
    BY <1>0, <2>1, BoundsAssumption DEF RestOK
  <2> QED
    BY <1>0, <1>a, <2>1, <2>2, <2>3 DEF RestOK
<1>9. CASE Restart \/ SyncList
  BY <1>0, <1>9 DEF Restart, SyncList, RestOK, opVars, TypeInv, TypeOK
<1>b. CASE SyncSave
  <2>1. \E causes \in SUBSET Causes : Record(causes)
    BY <1>b DEF SyncSave, Causes
  <2> QED BY <1>0, <1>a, <1>b, <2>1 DEF SyncSave, RestOK, opVars
<1>10. CASE UNCHANGED vars
  BY <1>0, <1>10 DEF RestOK, vars, opVars, lifeVars
<1> QED
  BY <1>4, <1>5, <1>6, <1>7, <1>8, <1>9, <1>b, <1>10 DEF Next

\* Every step preserves the types.
LEMMA TypeStep == TypeInv /\ [Next]_vars => TypeInv'
  BY ControlStep, RowsStep, HostStep, RestStep
     DEF TypeInv, TypeOK, Control, RowsOK, HostOK, RestOK

\* The variables have their types in every reachable state; what a rollback reads has
\* been taken before.
THEOREM TypeCorrect == Spec => []TypeOK
<1>1. TypeInv => TypeOK
  BY DEF TypeInv
<1> QED
  BY <1>1, TypeInit, TypeStep, PTL DEF Spec

(***************************************************************************)
(* One upgrade at a time.  The requests that have the lock are in it, and  *)
(* it never holds two.                                                     *)
(***************************************************************************)
Holding(p) == pc[p] \notin {"idle", "read", "done"}

LockInv == /\ pc \in [Requests -> Labels]
           /\ \A p \in Requests : Holding(p) => lock = {p}

\* A step of the request that holds the lock, and does not release it.
LEMMA HeldStep ==
    ASSUME LockInv, NEW p \in Requests, Holding(p), NEW step \in Labels, Goto(p, step),
           UNCHANGED lock
    PROVE  LockInv'
  BY DEF LockInv, Holding, Goto

\* A request that is over has given the lock back.
LEMMA LockGivenBack ==
    ASSUME LockInv, NEW p \in Requests, Holding(p), Goto(p, "done"), lock' = lock \ {p}
    PROVE  LockInv'
  BY DEF LockInv, Holding, Goto, Labels

\* Every step preserves it: only a free lock is taken.
LEMMA LockStep == LockInv /\ [Next]_vars => LockInv'
<1> SUFFICES ASSUME LockInv, [Next]_vars PROVE LockInv'
    OBVIOUS
<1>1. ASSUME NEW p \in Requests, Read(p) PROVE LockInv'
  BY <1>1 DEF Read, LockInv, Holding, Goto, Labels
<1>2. ASSUME NEW p \in Requests, Lock(p) PROVE LockInv'
  <2>1. \/ LockIsFree /\ lock' = lock \cup {p} /\ Goto(p, "locked")
        \/ pc[p] = "read" /\ UNCHANGED lock /\ Goto(p, "done")
    BY <1>2 DEF Lock
  <2> QED
    BY <2>1 DEF LockInv, LockIsFree, Holding, Goto, Labels
<1>3. ASSUME NEW p \in Requests, Launch(p) PROVE LockInv'
  <2>1. Holding(p)
    BY <1>3 DEF Launch, Holding
  <2>2. \/ Goto(p, "start") /\ UNCHANGED lock
        \/ Goto(p, "done") /\ lock' = lock \ {p}
    BY <1>3 DEF Launch
  <2> QED
    BY <2>1, <2>2, HeldStep, LockGivenBack DEF Labels
<1>4. ASSUME NEW p \in Requests,
             \/ Start(p) \/ Prepare(p) \/ Stop(p) \/ Secure(p) \/ Down(p)
             \/ ApplyStagedFiles(p) \/ WriteFile(p, "env", "env", "script") \/ RunScript(p)
             \/ WriteFile(p, "compose", "compose", "up") \/ Up(p)
      PROVE  LockInv'
  <2>1. Holding(p) /\ UNCHANGED lock
    BY <1>4 DEF Holding, Start, Prepare, Stop, Secure, Down, ApplyStagedFiles, WriteFile,
           RunScript, Up
  <2>2. \E step \in Labels : Goto(p, step)
    BY <1>4 DEF Start, Prepare, Stop, Secure, Down, ApplyStagedFiles, WriteFile,
           RunScript, Up, CutoverFails, Labels
  <2> QED
    BY <2>1, <2>2, HeldStep
<1>5. ASSUME NEW p \in Requests,
             \/ Commit(p) \/ DeleteOldImages(p) \/ Rollback(p) \/ RestoreManagedFiles(p)
             \/ Recover(p) \/ UpAgain(p) \/ FinishRollback(p) \/ End(p)
      PROVE  LockInv'
  <2>1. Holding(p) /\ UNCHANGED lock
    BY <1>5 DEF Holding, Commit, DeleteOldImages, Rollback, RestoreManagedFiles, Recover,
           UpAgain, FinishRollback, End
  <2>2. \E step \in Labels : Goto(p, step)
    BY <1>5 DEF Commit, DeleteOldImages, Rollback, RestoreManagedFiles, Recover,
           UpAgain, FinishRollback, End, CutoverFails, RollbackEnds, Labels
  <2> QED
    BY <2>1, <2>2, HeldStep
<1>6. ASSUME NEW p \in Requests, Release(p) PROVE LockInv'
  BY <1>6, LockGivenBack DEF Release, Holding
<1>7. CASE Crash
  BY <1>7 DEF Crash, LockInv, Holding, Active, Labels
<1>8. CASE OpRead \/ OpCompose \/ OpSave \/ Restart \/ SyncList \/ SyncSave \/ UNCHANGED vars
  BY <1>8 DEF OpRead, OpCompose, OpSave, Restart, SyncList, SyncSave, vars, LockInv, Holding
<1> QED
  BY <1>1, <1>2, <1>3, <1>4, <1>5, <1>6, <1>7, <1>8 DEF Next, Step

\* While an upgrade may change the application no other one does, and one that could
\* still be rolled back finds the files it would put back.
THEOREM OneUpgradeAtATimeHolds == Spec => []OneUpgradeAtATime
<1>1. Init => LockInv
  BY DEF Init, LockInv, Holding, Labels
<1>2. LockInv => OneUpgradeAtATime
  BY DEF LockInv, Holding, OneUpgradeAtATime
<1> QED
  BY <1>1, <1>2, LockStep, PTL DEF Spec

(***************************************************************************)
(* The images.  Unless a stale row came into play, what the row names is   *)
(* on the host, and so is what an upgrade would go back to and, once       *)
(* fetched, what it goes to; it deletes the old images when the row names  *)
(* the new ones, which are others.                                         *)
(***************************************************************************)
Sound == history \cap {"stale", "reverted"} = {}

Fetched == {"stop", "snapshot", "down", "apply", "env", "script", "compose", "up", "commit"}
Unfailed == {"read", "locked", "start", "prepare", "images"} \cup Fetched

\* The upgrade may still save the row it had read.
MayRevert(p) ==
    \/ pc[p] \notin {"idle", "read", "images", "end", "release", "done"}
    \/ pc[p] = "end" /\ ctx[p].failed

Plain(p) ==
    /\ pc[p] \notin {"idle", "done"} => ctx[p].target # ctx[p].original.version
    /\ pc[p] \in Unfailed => ~ctx[p].failed

Kept(p) ==
    /\ MayRevert(p) => ctx[p].original.version \in images
    /\ pc[p] \in Fetched => ctx[p].target \in images
    /\ pc[p] = "images" => row.version = ctx[p].target

ImagesInv ==
    /\ TypeInv /\ LockInv
    /\ \A p \in Requests : Plain(p)
    /\ Sound => row.version \in images /\ \A p \in Requests : Kept(p)

\* What an upgrade has from its request stays with it, and a failure is not forgotten.
Carries(p) ==
    /\ \A q \in Requests \ {p} : pc'[q] = pc[q] /\ ctx'[q] = ctx[q]
    /\ \/ pc'[p] = "done"
       \/ /\ ctx'[p].original = ctx[p].original /\ ctx'[p].target = ctx[p].target
          /\ \/ ctx'[p].failed = ctx[p].failed
             \/ ctx'[p].failed = TRUE /\ pc'[p] \in {"end", "rollback"}

\* Every step of an upgrade does.
LEMMA Carried ==
    ASSUME TypeInv, NEW p \in Requests, Step(p)
    PROVE  Carries(p)
<1>0. pc \in [Requests -> Labels] /\ ctx \in [Requests -> Contexts] /\ ctx[p] \in Contexts
  BY DEF TypeInv, TypeOK
<1>1. ASSUME NEW step, Goto(p, step), UNCHANGED ctx PROVE Carries(p)
  BY <1>0, <1>1 DEF Goto, Carries
<1>2. ASSUME Goto(p, "done"), ctx' = [ctx EXCEPT ![p] = NoContext] PROVE Carries(p)
  BY <1>0, <1>2 DEF Goto, Carries
<1>3. ASSUME NEW step \in {"end", "rollback"}, Goto(p, step), ctx' = [ctx EXCEPT ![p].failed = TRUE]
      PROVE  Carries(p)
  BY <1>0, <1>3 DEF Goto, Contexts, Carries
<1>4. ASSUME RollbackEnds(p, TRUE) \/ RollbackEnds(p, FALSE) PROVE Carries(p)
  <2>1. /\ Goto(p, "end")
        /\ \E err \in BOOLEAN : ctx' = [ctx EXCEPT ![p].rollbackErr = @ \/ err]
    BY <1>4 DEF RollbackEnds
  <2> QED
    BY <1>0, <2>1 DEF Goto, Contexts, Carries
<1>5. ASSUME CutoverFails(p) PROVE Carries(p)
  BY <1>3, <1>5 DEF CutoverFails
<1>6. CASE Lock(p) \/ Launch(p) \/ Start(p) \/ Prepare(p)
  <2>1. \/ \E step \in Labels : Goto(p, step) /\ UNCHANGED ctx
        \/ Goto(p, "done") /\ ctx' = [ctx EXCEPT ![p] = NoContext]
        \/ Goto(p, "end") /\ ctx' = [ctx EXCEPT ![p].failed = TRUE]
    BY <1>6 DEF Lock, Launch, Start, Prepare, Labels
  <2> QED
    BY <1>1, <1>2, <1>3, <2>1
<1>7. CASE Stop(p)
  <2>1. \/ Goto(p, "snapshot") /\ ctx' = [ctx EXCEPT ![p].stopAttempted = TRUE]
        \/ /\ Goto(p, "rollback")
           /\ ctx' = [ctx EXCEPT ![p].stopAttempted = TRUE, ![p].failed = TRUE]
    BY <1>7 DEF Stop
  <2> QED
    BY <1>0, <2>1 DEF Goto, Contexts, Carries
<1>8. CASE Secure(p)
  <2> DEFINE taken == [ctx EXCEPT ![p].snapshot = files]
             saved == [taken EXCEPT ![p].backupFile = [files |-> files, data |-> data]]
  <2>1. \/ CutoverFails(p)
        \/ ctx' \in {taken, saved} /\ Goto(p, "down")
        \/ (\E t \in {taken, saved} : ctx' = [t EXCEPT ![p].failed = TRUE]) /\ Goto(p, "rollback")
    BY <1>8 DEF Secure
  <2>2. CASE ctx' \in {taken, saved} /\ Goto(p, "down")
    BY <1>0, <2>2 DEF Goto, Contexts, Carries
  <2>3. CASE ctx' = [taken EXCEPT ![p].failed = TRUE] /\ Goto(p, "rollback")
    BY <1>0, <2>3 DEF Goto, Contexts, Carries
  <2>4. CASE ctx' = [saved EXCEPT ![p].failed = TRUE] /\ Goto(p, "rollback")
    BY <1>0, <2>4 DEF Goto, Contexts, Carries
  <2> HIDE DEF taken, saved
  <2> QED
    BY <1>5, <2>1, <2>2, <2>3, <2>4
<1>9. CASE Down(p)
  <2>1. \/ /\ Goto(p, "apply")
           /\ ctx' = [ctx EXCEPT ![p].downAttempted = TRUE, ![p].mutated = TRUE]
        \/ /\ Goto(p, "rollback")
           /\ ctx' = [ctx EXCEPT ![p].downAttempted = TRUE, ![p].failed = TRUE]
    BY <1>9 DEF Down
  <2> QED
    BY <1>0, <2>1 DEF Goto, Contexts, Carries
<1>10. CASE \/ ApplyStagedFiles(p) \/ WriteFile(p, "env", "env", "script") \/ RunScript(p)
            \/ WriteFile(p, "compose", "compose", "up") \/ Up(p) \/ Commit(p)
  <2>1. CutoverFails(p) \/ \E step \in Labels : Goto(p, step) /\ UNCHANGED ctx
    BY <1>10 DEF ApplyStagedFiles, WriteFile, RunScript, Up, Commit, Labels
  <2> QED
    BY <1>1, <1>5, <2>1
<1>11. CASE DeleteOldImages(p) \/ Recover(p) \/ End(p)
  <2>1. \E step \in Labels : Goto(p, step) /\ UNCHANGED ctx
    BY <1>11 DEF DeleteOldImages, Recover, End, Labels
  <2> QED
    BY <1>1, <2>1
<1>12. CASE Rollback(p)
  <2>1. \/ \E step \in Labels : Goto(p, step) /\ UNCHANGED ctx
        \/ RollbackEnds(p, TRUE)
        \/ Goto(p, "restore") /\ ctx' = [ctx EXCEPT ![p].rollbackErr = TRUE]
    BY <1>12 DEF Rollback, Labels
  <2>2. CASE Goto(p, "restore") /\ ctx' = [ctx EXCEPT ![p].rollbackErr = TRUE]
    BY <1>0, <2>2 DEF Goto, Contexts, Carries
  <2> QED
    BY <1>1, <1>4, <2>1, <2>2
<1>13. CASE RestoreManagedFiles(p) \/ UpAgain(p) \/ FinishRollback(p)
  <2>1. \/ \E step \in Labels : Goto(p, step) /\ UNCHANGED ctx
        \/ RollbackEnds(p, TRUE) \/ RollbackEnds(p, FALSE)
    BY <1>13 DEF RestoreManagedFiles, UpAgain, FinishRollback, Labels
  <2> QED
    BY <1>1, <1>4, <2>1
<1>14. CASE Release(p)
  BY <1>2, <1>14 DEF Release
<1> QED
  BY <1>6, <1>7, <1>8, <1>9, <1>10, <1>11, <1>12, <1>13, <1>14 DEF Step

\* Where a step can lead to.
Leads(p) ==
    /\ pc[p] \notin {"idle", "done"} /\ pc'[p] # "idle"
    /\ pc'[p] \in Unfailed => pc[p] \in Unfailed
    /\ pc'[p] \in Fetched => pc[p] \in Fetched \/ images' = images \cup {ctx[p].target}
    /\ pc'[p] = "images" => Commit(p) /\ row'.version = ctx[p].target
    /\ MayRevert(p)' => MayRevert(p) \/ (Lock(p) /\ pc'[p] = "locked")

\* Every step of an upgrade leads there.
LEMMA StepLeads ==
    ASSUME TypeInv, NEW p \in Requests, Plain(p), Step(p)
    PROVE  Leads(p)
<1>0. pc \in [Requests -> Labels]
  BY DEF TypeInv, TypeOK
<1>1. ASSUME NEW step, Goto(p, step) PROVE pc'[p] = step
  BY <1>0, <1>1 DEF Goto
<1> DEFINE Back == {"rollback", "restore", "recover", "reup", "upafter", "uplast", "recheck"}
<1>2. ASSUME pc[p] \in Fetched, pc'[p] \in Fetched \cup Back PROVE Leads(p)
  BY <1>2 DEF Leads, Unfailed, Fetched, MayRevert
<1>3. ASSUME pc[p] \in Back, pc'[p] \in Back \cup {"end"} PROVE Leads(p)
  BY <1>3 DEF Leads, Unfailed, Fetched, MayRevert
<1>4. CASE Lock(p)
  <2>1. pc[p] = "read" /\ pc'[p] \in {"locked", "done"}
    BY <1>1, <1>4 DEF Lock
  <2> QED
    BY <1>4, <2>1 DEF Leads, Unfailed, Fetched, MayRevert
<1>5. CASE Launch(p) \/ Start(p)
  <2>1. pc[p] \in {"locked", "start"} /\ pc'[p] \in {"start", "done", "prepare", "end"}
    BY <1>1, <1>5 DEF Launch, Start
  <2> QED
    BY <2>1 DEF Leads, Unfailed, Fetched, MayRevert
<1>6. CASE Prepare(p)
  <2>1. /\ pc[p] = "prepare"
        /\ pc'[p] = "end" \/ (pc'[p] = "stop" /\ images' = images \cup {ctx[p].target})
    BY <1>1, <1>6 DEF Prepare, PreparedImages
  <2> QED
    BY <2>1 DEF Leads, Unfailed, Fetched, MayRevert
<1>7. CASE \/ Stop(p) \/ Secure(p) \/ Down(p) \/ ApplyStagedFiles(p)
           \/ WriteFile(p, "env", "env", "script") \/ RunScript(p)
           \/ WriteFile(p, "compose", "compose", "up") \/ Up(p)
  <2>1. \E step \in Fetched \cup Back : Goto(p, step)
    BY <1>7 DEF Stop, Secure, Down, ApplyStagedFiles, WriteFile, RunScript, Up, CutoverFails,
           Fetched
  <2>2. pc[p] \in Fetched
    BY <1>7 DEF Stop, Secure, Down, ApplyStagedFiles, WriteFile, RunScript, Up, Fetched
  <2> QED
    BY <1>1, <1>2, <2>1, <2>2
<1>8. CASE Commit(p)
  <2>1. /\ pc[p] = "commit"
        /\ Goto(p, "rollback") \/ (Goto(p, "images") /\ row'.version = ctx[p].target)
    BY <1>8 DEF Commit, CutoverFails
  <2> QED
    BY <1>1, <1>8, <2>1 DEF Leads, Unfailed, Fetched, MayRevert
<1>9. CASE DeleteOldImages(p)
  <2>1. pc[p] = "images" /\ pc'[p] = "end" /\ ctx' = ctx
    BY <1>1, <1>9 DEF DeleteOldImages
  <2>2. ~ctx[p].failed
    BY <2>1 DEF Plain, Unfailed
  <2> QED
    BY <2>1, <2>2 DEF Leads, Unfailed, Fetched, MayRevert
<1>10. CASE Rollback(p) \/ RestoreManagedFiles(p) \/ Recover(p) \/ UpAgain(p) \/ FinishRollback(p)
  <2>1. \E step \in Back \cup {"end"} : Goto(p, step)
    BY <1>10 DEF Rollback, RestoreManagedFiles, Recover, UpAgain, FinishRollback, RollbackEnds
  <2>2. pc[p] \in Back
    BY <1>10 DEF Rollback, RestoreManagedFiles, Recover, UpAgain, FinishRollback
  <2> QED
    BY <1>1, <1>3, <2>1, <2>2
<1>11. CASE End(p) \/ Release(p)
  <2>1. pc[p] \in {"end", "release"} /\ pc'[p] \in {"release", "done"}
    BY <1>1, <1>11 DEF End, Release
  <2> QED
    BY <2>1 DEF Leads, Unfailed, Fetched, MayRevert
<1> QED
  BY <1>4, <1>5, <1>6, <1>7, <1>8, <1>9, <1>10, <1>11 DEF Step

\* How a step changes the row and the images.
Changes(p) ==
    /\ \/ row' = row
       \/ MayRevert(p) /\ row'.version = ctx[p].original.version
       \/ pc[p] \in Fetched /\ row'.version = ctx[p].target
    /\ \/ images \subseteq images'
       \/ /\ pc[p] = "images" /\ pc'[p] = "end" /\ row' = row
          /\ images \ {ctx[p].original.version} \subseteq images'

\* Every step of an upgrade changes no more.
LEMMA StepChanges ==
    ASSUME TypeInv, NEW p \in Requests, Step(p)
    PROVE  Changes(p)
<1>0. /\ pc \in [Requests -> Labels]
      /\ ctx[p].original \in Rows /\ row \in Rows
  BY FieldsType DEF TypeInv, TypeOK
<1>1. CASE Launch(p)
  <2>1. /\ pc[p] = "locked" /\ images' = images
        /\ row' = row \/ row' = [ctx[p].original EXCEPT !.status = "Upgrading"]
    BY <1>1 DEF Launch, hostVars
  <2> QED
    BY <1>0, <2>1 DEF Changes, MayRevert, Rows
<1>2. CASE Commit(p)
  <2>1. /\ pc[p] = "commit" /\ images' = images
        /\ row' = row \/ row'.version = ctx[p].target
    BY <1>2 DEF Commit, hostVars
  <2> QED
    BY <2>1 DEF Changes, Fetched
<1>3. CASE Recover(p)
  <2>1. /\ pc[p] = "recover" /\ images' = images
        /\ row' = row \/ row' = [ctx[p].original EXCEPT !.status = "Running"]
    BY <1>3 DEF Recover
  <2> QED
    BY <1>0, <2>1 DEF Changes, MayRevert, Rows
<1>4. CASE FinishRollback(p)
  <2>1. /\ pc[p] = "recheck" /\ images' = images
        /\ row' = row \/ row' = ctx[p].original
    BY <1>4 DEF FinishRollback, hostVars
  <2> QED
    BY <2>1 DEF Changes, MayRevert
<1>5. CASE End(p)
  <2>1. /\ pc[p] = "end" /\ images' = images
        /\ row' = row \/ (ctx[p].failed /\ row' = FailedRow(p))
    BY <1>5 DEF End, hostVars
  <2>2. FailedRow(p).version = ctx[p].original.version
    BY <1>0 DEF FailedRow, Rows
  <2> QED
    BY <2>1, <2>2 DEF Changes, MayRevert
<1>6. CASE DeleteOldImages(p)
  <2>1. /\ pc[p] = "images" /\ pc' = [pc EXCEPT ![p] = "end"] /\ row' = row
        /\ images \ {ctx[p].original.version} \subseteq images'
    BY <1>6 DEF DeleteOldImages, Goto
  <2> QED
    BY <1>0, <2>1 DEF Changes
<1>7. CASE \/ Lock(p) \/ Start(p) \/ Prepare(p) \/ Stop(p) \/ Secure(p) \/ Down(p)
           \/ ApplyStagedFiles(p) \/ WriteFile(p, "env", "env", "script") \/ RunScript(p)
           \/ WriteFile(p, "compose", "compose", "up") \/ Up(p) \/ Rollback(p)
           \/ RestoreManagedFiles(p) \/ UpAgain(p) \/ Release(p)
  <2>1. row' = row
    BY <1>7 DEF Lock, Start, Prepare, Stop, Secure, Down, ApplyStagedFiles, WriteFile,
           RunScript, Up, Rollback, RestoreManagedFiles, UpAgain, Release
  <2>2. images \subseteq images'
    BY <1>7 DEF Lock, Start, Prepare, PreparedImages, Stop, Secure, Down, ApplyStagedFiles,
           WriteFile, RunScript, Up, Rollback, RestoreManagedFiles, UpAgain, Release, hostVars
  <2> QED
    BY <2>1, <2>2 DEF Changes
<1> QED
  BY <1>1, <1>2, <1>3, <1>4, <1>5, <1>6, <1>7 DEF Step

\* What has happened has happened; only an overlap lets some of it be forgotten.
Grows == /\ history \ Minor \subseteq history'
         /\ "overlap" \notin history' => history \subseteq history'

LEMMA HistoryGrows == [Next]_vars => Grows
<1>1. ASSUME NEW causes, Record(causes) PROVE Grows
  BY <1>1, Recorded DEF Grows
<1>2. ASSUME history' = history PROVE Grows
  BY <1>2 DEF Grows
<1>3. ASSUME NEW p \in Requests, Read(p) \/ Step(p) PROVE Grows
  <2>1. \/ history' = history \/ Read(p) \/ Lock(p) \/ RestoreManagedFiles(p) \/ End(p)
    BY <1>3 DEF Step, Launch, Start, Prepare, Stop, Secure, Down, ApplyStagedFiles,
           WriteFile, RunScript, Up, Commit, DeleteOldImages, Rollback,
           Recover, UpAgain, FinishRollback, Release
  <2> QED
    BY <1>1, <1>2, <2>1 DEF Read, Lock, RestoreManagedFiles, End
<1>4. CASE Crash \/ OpRead \/ OpSave \/ SyncSave
  BY <1>1, <1>4 DEF Crash, OpRead, OpSave, SyncSave
<1>5. CASE OpCompose \/ Restart \/ SyncList \/ UNCHANGED vars
  BY <1>2, <1>5 DEF OpCompose, Restart, SyncList, vars
<1> QED
  BY <1>3, <1>4, <1>5 DEF Next

\* Each upgrade goes to another version, and none has failed before its rollback.
LEMMA PlainStep ==
    ASSUME ImagesInv, [Next]_vars, NEW q \in Requests
    PROVE  Plain(q)'
<1>0. /\ pc \in [Requests -> Labels] /\ ctx \in [Requests -> Contexts] /\ row \in Rows
      /\ TypeInv /\ \A p \in Requests : Plain(p)
  BY DEF ImagesInv, TypeInv, TypeOK
<1>1. ASSUME NEW p \in Requests, Read(p) PROVE Plain(q)'
  <2>1. PICK target \in Versions :
           /\ target # row.version
           /\ ctx' = [ctx EXCEPT ![p] = [NoContext EXCEPT !.original = row, !.target = target]]
    BY <1>1 DEF Read
  <2>2. pc' = [pc EXCEPT ![p] = "read"]
    BY <1>1 DEF Read, Goto
  <2>3. CASE q = p
    <3>1. /\ ctx'[q].original = row /\ ctx'[q].target = target /\ ~ctx'[q].failed
      BY <1>0, <2>1, <2>3 DEF NoContext
    <3> QED
      BY <2>1, <3>1 DEF Plain
  <2>4. CASE q # p
    BY <1>0, <2>1, <2>2, <2>4 DEF Plain
  <2> QED
    BY <2>3, <2>4
<1>2. ASSUME NEW p \in Requests, Step(p) PROVE Plain(q)'
  <2>1. Carries(p) /\ Leads(p)
    BY <1>0, <1>2, Carried, StepLeads
  <2>2. CASE q = p
    BY <1>0, <2>1, <2>2 DEF Carries, Leads, Plain, Unfailed, Fetched
  <2>3. CASE q # p
    BY <1>0, <2>1, <2>3 DEF Carries, Plain
  <2> QED
    BY <2>2, <2>3
<1>3. CASE Crash
  <2>1. pc' = [p \in Requests |-> IF Active(p) THEN "done" ELSE pc[p]]
    BY <1>3 DEF Crash
  <2>2. pc'[q] \in {"idle", "done"}
    BY <2>1 DEF Active
  <2> QED
    BY <2>2 DEF Plain, Unfailed, Fetched
<1>4. CASE OpRead \/ OpCompose \/ OpSave \/ Restart \/ SyncList \/ SyncSave \/ UNCHANGED vars
  <2>1. pc' = pc /\ ctx' = ctx
    BY <1>4 DEF OpRead, OpCompose, OpSave, Restart, SyncList, SyncSave, vars
  <2> QED
    BY <1>0, <2>1 DEF Plain
<1> QED
  BY <1>1, <1>2, <1>3, <1>4 DEF Next

\* No step removes an image that is needed.
LEMMA KeptStep ==
    ASSUME ImagesInv, [Next]_vars, Sound'
    PROVE  row'.version \in images' /\ \A q \in Requests : Kept(q)'
<1>0. /\ pc \in [Requests -> Labels] /\ ctx \in [Requests -> Contexts] /\ row \in Rows
      /\ TypeInv /\ LockInv /\ \A p \in Requests : Plain(p)
  BY DEF ImagesInv, TypeInv, TypeOK
<1>1. row.version \in images /\ \A p \in Requests : Kept(p)
  BY HistoryGrows DEF ImagesInv, Sound, Grows, Minor
<1>2. ASSUME UNCHANGED <<pc, ctx>>, row'.version = row.version, images \subseteq images'
      PROVE  row'.version \in images' /\ \A q \in Requests : Kept(q)'
  BY <1>1, <1>2 DEF Kept, MayRevert
<1>3. ASSUME NEW p \in Requests, Read(p)
      PROVE  row'.version \in images' /\ \A q \in Requests : Kept(q)'
  <2>1. row' = row /\ images' = images
    BY <1>3 DEF Read, hostVars
  <2>2. \A q \in Requests \ {p} : pc'[q] = pc[q] /\ ctx'[q] = ctx[q]
    BY <1>0, <1>3 DEF Read, Goto
  <2>3. pc'[p] = "read"
    BY <1>0, <1>3 DEF Read, Goto
  <2> QED
    BY <1>1, <2>1, <2>2, <2>3 DEF Kept, MayRevert, Fetched
<1>4. ASSUME NEW p \in Requests, Step(p)
      PROVE  row'.version \in images' /\ \A q \in Requests : Kept(q)'
  <2>1. Carries(p) /\ Leads(p) /\ Changes(p) /\ Plain(p) /\ Kept(p)
    BY <1>0, <1>1, <1>4, Carried, StepLeads, StepChanges
  <2>2. row'.version \in images'
    BY <1>1, <2>1 DEF Changes, Plain, Kept, MayRevert, Fetched
  <2>3. Kept(p)'
    <3>1. MayRevert(p)' => ctx'[p].original.version \in images'
      <4>1. CASE MayRevert(p)
        BY <2>1, <4>1 DEF Carries, Changes, Kept, MayRevert
      <4>2. CASE Lock(p) /\ pc'[p] = "locked"
        <5>1. /\ ctx[p].original = row \/ "stale" \in history'
              /\ ctx' = ctx /\ images' = images
          <6>1. ctx[p].original # row =>
                   \E causes : "stale" \in causes /\ Record(causes)
            BY <1>0, <4>2 DEF Lock, Goto
          <6>2. ctx' = ctx /\ images' = images
            BY <1>0, <4>2 DEF Lock, Goto, hostVars
          <6> QED BY <6>1, <6>2, Recorded DEF Minor
        <5>2. "stale" \notin history'
          BY DEF Sound
        <5> QED
          BY <1>1, <5>1, <5>2
      <4> QED
        BY <2>1, <4>1, <4>2 DEF Leads
    <3>2. pc'[p] \in Fetched => ctx'[p].target \in images'
      BY <2>1 DEF Carries, Changes, Leads, Kept, Fetched
    <3>3. pc'[p] = "images" => row'.version = ctx'[p].target
      BY <2>1 DEF Carries, Leads
    <3> QED
      BY <3>1, <3>2, <3>3 DEF Kept
  <2>4. ASSUME NEW q \in Requests \ {p} PROVE Kept(q)'
    <3>1. pc'[q] = pc[q] /\ ctx'[q] = ctx[q] /\ Kept(q)
      BY <1>1, <2>1 DEF Carries
    <3>2. MayRevert(q) \/ pc[q] \in Fetched \/ pc[q] = "images" => Holding(q)
      BY DEF MayRevert, Fetched, Holding
    <3>3. row' # row \/ ~(images \subseteq images') => Holding(p)
      BY <2>1 DEF Changes, MayRevert, Fetched, Holding
    <3>4. ~(Holding(p) /\ Holding(q))
      BY <1>0 DEF LockInv
    <3> QED
      BY <3>1, <3>2, <3>3, <3>4 DEF Kept, MayRevert
  <2> QED
    BY <2>2, <2>3, <2>4
<1>5. CASE OpRead \/ OpCompose \/ Restart \/ SyncList \/ UNCHANGED vars
  <2>1. UNCHANGED <<pc, ctx, row>> /\ images \subseteq images'
    BY <1>5 DEF OpRead, OpCompose, Restart, SyncList, vars, hostVars
  <2> QED
    BY <1>2, <2>1
<1>6. CASE OpSave
  <2>1. /\ UNCHANGED <<pc, ctx, images>>
        /\ row'.version = row.version \/ "reverted" \in history'
    <3>1. row'.version # row.version => \E causes : "reverted" \in causes /\ Record(causes)
      BY <1>6 DEF OpSave
    <3> QED BY <1>6, <3>1, Recorded DEF OpSave, hostVars, Minor
  <2>2. "reverted" \notin history'
    BY DEF Sound
  <2> QED
    BY <1>2, <2>1, <2>2
<1>7. CASE SyncSave
  <2>1. /\ UNCHANGED <<pc, ctx, images>>
        /\ \/ row' = row
           \/ row' = SyncedRow /\ (listed.version = row.version \/ "reverted" \in history')
    <3>1. \/ row' = row
          \/ row' = SyncedRow
             /\ listed.version # row.version => Record({"reverted"})
      BY <1>7 DEF SyncSave
    <3> QED BY <1>7, <3>1, Recorded DEF SyncSave, hostVars, Minor
  <2>2. "reverted" \notin history' /\ SyncedRow.version = listed.version
    BY <1>0, <1>7 DEF Sound, SyncSave, SyncedRow, TypeInv, TypeOK, Rows
  <2> QED
    BY <1>2, <2>1, <2>2
<1>8. CASE Crash
  <2>1. /\ pc' = [p \in Requests |-> IF Active(p) THEN "done" ELSE pc[p]]
        /\ row' = row /\ images' = images
    BY <1>8 DEF Crash, hostVars
  <2>2. \A q \in Requests : pc'[q] \in {"idle", "done"}
    BY <2>1 DEF Active
  <2> QED
    BY <1>1, <2>1, <2>2 DEF Kept, MayRevert, Fetched
<1> QED
  BY <1>3, <1>4, <1>5, <1>6, <1>7, <1>8 DEF Next

\* Only what was installed is there in the beginning.
LEMMA ImagesInit == Init => ImagesInv
<1>1. Init => LockInv /\ (\A p \in Requests : Plain(p) /\ Kept(p)) /\ row.version \in images
  BY DEF Init, LockInv, Holding, Labels, Plain, Kept, MayRevert, Unfailed, Fetched
<1> QED
  BY <1>1, TypeInit DEF ImagesInv

\* Every step preserves all of it.
LEMMA ImagesStep == ImagesInv /\ [Next]_vars => ImagesInv'
<1> SUFFICES ASSUME ImagesInv, [Next]_vars PROVE ImagesInv'
    OBVIOUS
<1>1. TypeInv' /\ LockInv'
  BY TypeStep, LockStep DEF ImagesInv
<1> QED
  BY <1>1, PlainStep, KeptStep DEF ImagesInv

\* The images of a version are deleted only once nothing can need them: those of the
\* row's version, and of the version an upgrade would roll back to, are on the host.
THEOREM ImagesKeptHolds == Spec => []ImagesKept
<1>1. ImagesInv => ImagesKept
  BY DEF ImagesInv, ImagesKept, Sound, Kept, MayRevert
<1> QED
  BY <1>1, ImagesInit, ImagesStep, PTL DEF Spec

(***************************************************************************)
(* The row tells the truth.  What each phase of a cutover and of its       *)
(* rollback has made of the application: the row says Upgrading, or Error, *)
(* while it is neither of the old version nor of the new one.              *)
(***************************************************************************)
Clean == history \cap {"overlap", "stale", "operated", "early"} = {}
Tolerated == history \cap {"unbacked", "behind"} # {}
Good == {"Running", "Stopped", "UpErr"}

Honest(v) ==
    /\ \A f \in Parts : files[f] = v
    /\ containers.of \in {Gone, v}
    /\ data <= v \/ Tolerated

RowHonest == row.status \in Good => Honest(row.version)

Unsecured == {"locked", "start", "prepare", "stop"}
Prelude == Unsecured \cup {"snapshot", "down"}
Taken == {"apply", "env", "script", "compose", "up"}
Back == {"rollback", "restore", "recover", "reup", "upafter", "uplast", "recheck"}
Marked == {"start", "prepare", "stop", "snapshot", "down", "commit",
           "rollback", "restore", "recover", "reup", "uplast"} \cup Taken

\* What the row says in each phase: nothing untrue that a crash would leave.  It says
\* Error where SyncAll has taken an upgrade for one that the last crash left.
RowOf(p) ==
    /\ pc[p] = "locked" => row = ctx[p].original \/ row.status = "Error"
    /\ pc[p] \in Marked => row.status \in {"Upgrading", "Error"}
    /\ pc[p] \in {"images", "release"} => RowHonest
    /\ pc[p] = "end" /\ ctx[p].failed =>
          row.status \in {"Upgrading", "Error"} \/ ctx[p].stopAttempted
    /\ pc[p] = "end" /\ ~ctx[p].failed => RowHonest

\* What the context says.
Flags(p) ==
    /\ pc[p] \in {"read"} \cup Unsecured => ctx[p].snapshot = None /\ ctx[p].backupFile = None
    /\ pc[p] \in {"read"} \cup Prelude => ~ctx[p].mutated
    /\ pc[p] \in Taken \cup {"commit"} => ctx[p].mutated /\ ctx[p].downAttempted
    /\ pc[p] = "rollback" /\ ctx[p].mutated => ctx[p].downAttempted
    /\ pc[p] \in {"snapshot", "down", "commit"} \cup Taken \cup Back => ctx[p].stopAttempted
    /\ pc[p] \in Back => ctx[p].failed
    /\ pc[p] \in {"restore", "recover", "reup", "upafter"} =>
          containers.of = Gone \/ ctx[p].rollbackErr

\* How much of the new version is there.
Ahead(p) ==
    /\ pc[p] \in Prelude \cup Taken \cup {"commit"} => data <= ctx[p].target \/ Tolerated
    /\ pc[p] \in Taken => containers.of = Gone
    /\ pc[p] = "commit" => containers.of = ctx[p].target
    /\ pc[p] \in {"env", "script", "compose", "up", "commit"} => files["scripts"] = ctx[p].target
    /\ pc[p] \in {"script", "compose", "up", "commit"} => files["env"] = ctx[p].target
    /\ pc[p] \in {"up", "commit"} => files["compose"] = ctx[p].target

\* What is kept of the old version.
Secured(p) ==
    /\ ctx[p].snapshot # None => \A f \in Parts : ctx[p].snapshot[f] = ctx[p].original.version
    /\ ctx[p].backupFile # None =>
          /\ \A f \in Parts : ctx[p].backupFile.files[f] = ctx[p].original.version
          /\ ctx[p].backupFile.data <= ctx[p].original.version \/ Tolerated

\* An application that was well at its request is so until its files change, and
\* again when a rollback has succeeded.
Restored(p) ==
    /\ pc[p] \in Prelude => Honest(ctx[p].original.version)
    /\ pc[p] = "rollback" /\ ~ctx[p].mutated => Honest(ctx[p].original.version)
    /\ pc[p] \in {"reup", "upafter"} =>
          /\ \A f \in Parts : files[f] = ctx[p].original.version
          /\ data <= ctx[p].original.version \/ Tolerated
    /\ pc[p] = "recheck" /\ ~ctx[p].rollbackErr => Honest(ctx[p].original.version)
    /\ pc[p] = "end" /\ ctx[p].failed /\ ~(ctx[p].stopAttempted /\ ctx[p].rollbackErr) =>
          Honest(ctx[p].original.version)

Behind(p) ==
    Holding(p) /\ ctx[p].original.status \in Good => Secured(p) /\ Restored(p)

Phase(p) == RowOf(p) /\ Flags(p) /\ Ahead(p) /\ Behind(p)

\* Operations beside the upgrades find nothing under way, nor does the restart.
Aside ==
    /\ op # Idle => /\ op.read = row \/ row.status = "Error"
                    /\ \A p \in Requests : ~Active(p)
    /\ (\A p \in Requests : ~Holding(p)) => RowHonest

TruthInv ==
    /\ ~up => op = Idle /\ \A p \in Requests : ~Active(p)
    /\ Clean => Aside /\ \A p \in Requests : Phase(p)

\* At the start the row is honest and nothing is under way.
LEMMA TruthInit == Init => TruthInv
<1> SUFFICES ASSUME Init PROVE TruthInv
  OBVIOUS
<1>1. RowHonest /\ \A p \in Requests : ~Holding(p) /\ pc[p] = "idle"
  BY DEF Init, RowHonest, Honest, Parts, Holding
<1>2. \A p \in Requests : Phase(p)
  BY <1>1 DEF Phase, RowOf, Flags, Ahead, Behind, Unsecured, Prelude, Taken, Back, Marked
<1> QED
  BY <1>1, <1>2 DEF Init, TruthInv, Aside

\* Requests that are not under way promise nothing.
LEMMA NoPhase ==
    ASSUME NEW q \in Requests, pc'[q] \in {"idle", "done"}
    PROVE  Phase(q)'
BY DEF Phase, RowOf, Flags, Ahead, Behind, Holding, Unsecured, Prelude, Taken, Back, Marked

\* What is tolerated remains so, and a step after which all is clean began so.
LEMMA Remembered ==
    ASSUME [Next]_vars, Clean'
    PROVE  (Tolerated => Tolerated') /\ Clean
BY HistoryGrows DEF Grows, Tolerated, Clean

\* A step that touches neither the application nor the request.
LEMMA PhaseKept ==
    ASSUME NEW q \in Requests, Phase(q), Tolerated => Tolerated',
           pc'[q] = pc[q], ctx'[q] = ctx[q], UNCHANGED <<row, files, containers, data>>
    PROVE  Phase(q)'
<1>1. /\ \A v : Honest(v) => /\ \A f \in Parts : files'[f] = v
                             /\ containers'.of \in {Gone, v}
                             /\ data' <= v \/ Tolerated'
      /\ RowHonest => RowHonest'
  BY DEF Honest, RowHonest
<1>2. RowOf(q)'
  BY <1>1 DEF Phase, RowOf
<1>3. Flags(q)' /\ Ahead(q)'
  BY DEF Phase, Flags, Ahead
<1>4. Secured(q) => Secured(q)'
  BY DEF Secured
<1>5. Restored(q) => Restored(q)'
  BY DEF Restored, Honest
<1> QED
  BY <1>2, <1>3, <1>4, <1>5 DEF Phase, Behind, Holding

\* The containers after up, when the files are all of one version.
LEMMA UpHonest ==
    ASSUME HostOK, NEW v \in Versions, \A f \in Parts : files[f] = v
    PROVE  /\ Described = v /\ v # Gone
           /\ Contain(v) => containers'.of = v /\ data' \in {data, v}
           /\ UpSucceeds => containers'.of = v /\ data' \in {data, v}
           /\ UpFails => containers'.of \in {containers.of, v} /\ data' \in {data, v}
<1>1. Described = v /\ v # Gone
  BY DEF Described, Parts, Versions, Gone
<1>2. Migrated(v) \subseteq {data, v}
  BY DEF Migrated
<1>3. Contain(v) => containers'.of = v /\ data' \in {data, v}
  BY <1>2 DEF Contain
<1> QED
  BY <1>1, <1>2, <1>3 DEF UpSucceeds, UpFails

\* Stopping, starting and taking containers down makes none of another version.
LEMMA HaltHonest ==
    ASSUME HostOK, DownSucceeds \/ HaltFails \/ StartSucceeds
    PROVE  /\ DownSucceeds => containers'.of = Gone
           /\ HaltFails \/ StartSucceeds => containers'.of = containers.of
BY DEF HostOK, DownSucceeds, HaltFails, StartSucceeds

(* The fields of a context, by the way a step changes it. *)

Keeps(p) ==
    /\ ctx'[p].original = ctx[p].original /\ ctx'[p].target = ctx[p].target
    /\ ctx'[p].snapshot = ctx[p].snapshot /\ ctx'[p].backupFile = ctx[p].backupFile
    /\ ctx'[p].mutated = ctx[p].mutated
    /\ ctx[p].downAttempted => ctx'[p].downAttempted

\* A step that only goes on keeps what the request knows.
LEMMA AfterGoto ==
    ASSUME TypeInv, NEW p \in Requests, NEW step, Goto(p, step)
    PROVE  /\ pc'[p] = step
           /\ ctx' = ctx => /\ Keeps(p) /\ ctx'[p].failed = ctx[p].failed
                            /\ ctx'[p].stopAttempted = ctx[p].stopAttempted
                            /\ ctx'[p].rollbackErr = ctx[p].rollbackErr
BY DEF TypeInv, TypeOK, Goto, Keeps

\* A step that fails keeps what was secured, and says that it failed.
LEMMA AfterFailure ==
    ASSUME TypeInv, NEW p \in Requests,
           \/ ctx' = [ctx EXCEPT ![p].failed = TRUE]
           \/ ctx' = [ctx EXCEPT ![p].stopAttempted = TRUE, ![p].failed = TRUE]
           \/ ctx' = [ctx EXCEPT ![p].downAttempted = TRUE, ![p].failed = TRUE]
    PROVE  /\ Keeps(p) /\ ctx'[p].failed
           /\ ctx'[p].stopAttempted = ctx[p].stopAttempted \/ ctx'[p].stopAttempted
<1>1. ctx \in [Requests -> Contexts]
  BY DEF TypeInv, TypeOK
<1>2. CASE ctx' = [ctx EXCEPT ![p].failed = TRUE]
  BY <1>1, <1>2 DEF Contexts, Keeps
<1>3. CASE ctx' = [ctx EXCEPT ![p].stopAttempted = TRUE, ![p].failed = TRUE]
  BY <1>1, <1>3 DEF Contexts, Keeps
<1>4. CASE ctx' = [ctx EXCEPT ![p].downAttempted = TRUE, ![p].failed = TRUE]
  BY <1>1, <1>4 DEF Contexts, Keeps
<1> QED
  BY <1>2, <1>3, <1>4

\* The end of a rollback remembers whether it went wrong.
LEMMA AfterRollback ==
    ASSUME TypeInv, NEW p \in Requests, NEW err \in BOOLEAN, RollbackEnds(p, err)
    PROVE  /\ pc'[p] = "end" /\ Keeps(p) /\ ctx'[p].failed = ctx[p].failed
           /\ ctx'[p].stopAttempted = ctx[p].stopAttempted
           /\ ctx'[p].rollbackErr = (ctx[p].rollbackErr \/ err)
<1>1. ctx \in [Requests -> Contexts] /\ pc \in [Requests -> Labels]
  BY DEF TypeInv, TypeOK
<1> QED
  BY <1>1 DEF RollbackEnds, Goto, Contexts, Keeps

\* What was secured is not lost.
LEMMA StaysSecured ==
    ASSUME NEW p \in Requests, Keeps(p), Tolerated => Tolerated', Secured(p)
    PROVE  Secured(p)'
BY DEF Keeps, Secured

\* A cutover that fails: the old version is there, or the snapshot of it.
LEMMA FailedCutover ==
    ASSUME NEW p \in Requests, Phase(p), Tolerated => Tolerated',
           pc[p] \in {"stop", "snapshot", "down", "commit"} \cup Taken, pc'[p] = "rollback",
           ctx'[p].original = ctx[p].original, ctx'[p].mutated = ctx[p].mutated,
           ctx[p].downAttempted => ctx'[p].downAttempted,
           ctx'[p].failed, ctx'[p].stopAttempted, row' = row,
           ctx[p].original.status \in Good => Secured(p)',
           ~ctx[p].mutated =>
              files' = files /\ containers'.of = containers.of /\ data' = data
    PROVE  Phase(p)'
<1>1. RowOf(p)' /\ Flags(p)' /\ Ahead(p)'
  BY DEF Phase, RowOf, Flags, Ahead, Unsecured, Prelude, Taken, Back, Marked
<1>2. ASSUME ctx[p].original.status \in Good, ~ctx[p].mutated
      PROVE  Honest(ctx[p].original.version)'
  BY <1>2 DEF Phase, Flags, Behind, Restored, Honest, Holding, Prelude, Taken, Unsecured
<1>3. Behind(p)'
  BY <1>2 DEF Behind, Restored, Prelude, Unsecured
<1> QED
  BY <1>1, <1>3 DEF Phase

\* A rollback that gives up ends in UpgradeErr.
LEMMA RollbackGivesUp ==
    ASSUME TypeInv, NEW p \in Requests, Phase(p), Tolerated => Tolerated', pc[p] \in Back,
           RollbackEnds(p, TRUE)
    PROVE  Phase(p)'
<1>1. /\ pc'[p] = "end" /\ Keeps(p) /\ ctx'[p].failed = ctx[p].failed
      /\ ctx'[p].stopAttempted = ctx[p].stopAttempted /\ ctx'[p].rollbackErr
  BY AfterRollback
<1>2. ctx[p].failed /\ ctx[p].stopAttempted
  BY DEF Phase, Flags, Back
<1>3. RowOf(p)' /\ Flags(p)' /\ Ahead(p)'
  BY <1>1, <1>2 DEF RowOf, Flags, Ahead, Unsecured, Prelude, Taken, Back, Marked
<1>4. ASSUME ctx[p].original.status \in Good PROVE Secured(p)'
  BY <1>1, <1>4, StaysSecured DEF Phase, Behind, Holding, Back
<1>5. Behind(p)'
  BY <1>1, <1>2, <1>4 DEF Behind, Restored, Keeps, Prelude, Unsecured
<1> QED
  BY <1>3, <1>5 DEF Phase

(* The phases an upgrade may move between. *)

\* While it prepares, the old version is untouched.
LEMMA StillOld ==
    ASSUME NEW p \in Requests, Phase(p), Tolerated => Tolerated',
           pc[p] \in Prelude, pc'[p] \in Prelude \ {"locked"},
           row'.status \in {"Upgrading", "Error"},
           ctx'[p].original = ctx[p].original, ctx'[p].target = ctx[p].target,
           ~ctx'[p].mutated,
           pc'[p] \in Unsecured => ctx'[p].snapshot = None /\ ctx'[p].backupFile = None,
           pc'[p] \in {"snapshot", "down"} => ctx'[p].stopAttempted,
           ctx[p].original.status \in Good => Secured(p)',
           files' = files, containers'.of = containers.of, data' = data
    PROVE  Phase(p)'
<1>1. RowOf(p)' /\ Flags(p)'
  BY DEF RowOf, Flags, Unsecured, Prelude, Taken, Back, Marked
<1>2. Ahead(p)'
  BY DEF Phase, Ahead, Unsecured, Prelude, Taken
<1>3. ASSUME ctx[p].original.status \in Good PROVE Honest(ctx[p].original.version)'
  BY <1>3 DEF Phase, Behind, Restored, Honest, Holding, Prelude, Unsecured
<1>4. Behind(p)'
  BY <1>3 DEF Behind, Restored, Prelude, Unsecured
<1> QED
  BY <1>1, <1>2, <1>4 DEF Phase

\* When that fails, its end finds the old version.
LEMMA EndsBefore ==
    ASSUME NEW p \in Requests, Phase(p), Tolerated => Tolerated',
           pc[p] \in Prelude \ {"locked"}, pc'[p] = "end", row' = row, Keeps(p),
           ctx'[p].failed, UNCHANGED <<files, containers, data>>
    PROVE  Phase(p)'
<1>1. RowOf(p)' /\ Flags(p)' /\ Ahead(p)'
  BY DEF Phase, RowOf, Flags, Ahead, Unsecured, Prelude, Taken, Back, Marked
<1>2. ASSUME ctx[p].original.status \in Good
      PROVE  Honest(ctx[p].original.version)' /\ Secured(p)'
  <2>1. Secured(p) /\ Honest(ctx[p].original.version)
    BY <1>2 DEF Phase, Behind, Restored, Holding, Prelude, Unsecured
  <2> QED BY <2>1, StaysSecured DEF Keeps, Honest
<1>3. Behind(p)'
  BY <1>2 DEF Behind, Restored, Keeps, Prelude, Unsecured
<1> QED
  BY <1>1, <1>3 DEF Phase

\* During the cutover the new version takes its place.
LEMMA GoesAhead ==
    ASSUME NEW p \in Requests, Phase(p),
           pc[p] \in {"down"} \cup Taken, pc'[p] \in Taken \cup {"commit"}, row' = row,
           ctx'[p].original = ctx[p].original, ctx'[p].mutated, ctx'[p].downAttempted,
           ctx'[p].stopAttempted,
           ctx[p].original.status \in Good => Secured(p)', Ahead(p)'
    PROVE  Phase(p)'
<1>1. RowOf(p)' /\ Flags(p)'
  BY DEF Phase, RowOf, Flags, Unsecured, Prelude, Taken, Back, Marked
<1>2. Behind(p)'
  BY DEF Behind, Restored, Prelude, Unsecured, Taken
<1> QED
  BY <1>1, <1>2 DEF Phase

\* During the rollback the old one does.
LEMMA GoesBack ==
    ASSUME NEW p \in Requests, Phase(p), pc[p] \in Back, pc'[p] \in Back \ {"rollback"},
           ctx'[p].original = ctx[p].original, ctx'[p].failed, ctx'[p].stopAttempted,
           pc'[p] \in Marked => row'.status \in {"Upgrading", "Error"},
           pc'[p] \in {"restore", "recover", "reup", "upafter"} =>
              containers'.of = Gone \/ ctx'[p].rollbackErr,
           ctx[p].original.status \in Good => Secured(p)' /\ Restored(p)'
    PROVE  Phase(p)'
<1>1. RowOf(p)' /\ Flags(p)' /\ Ahead(p)'
  BY DEF RowOf, Flags, Ahead, Unsecured, Prelude, Taken, Back
<1>2. Behind(p)'
  BY DEF Behind
<1> QED
  BY <1>1, <1>2 DEF Phase

\* What the steps below preserve.
Truly(p) == Phase(p)' /\ (~Holding(p)' => RowHonest')

\* The steps up to the removal of the containers.
LEMMA PreludeTruth ==
    ASSUME TypeInv, NEW p \in Requests, Plain(p), Phase(p), Tolerated => Tolerated',
           Launch(p) \/ Start(p) \/ Prepare(p) \/ Stop(p) \/ Secure(p) \/ Down(p)
    PROVE  Truly(p)
<1>t. /\ ctx[p] \in Contexts /\ ctx[p].original \in Rows /\ row \in Rows /\ HostOK
      /\ ctx \in [Requests -> Contexts]
  BY FieldsType DEF TypeInv, TypeOK, HostOK
<1>w. ASSUME ctx[p].original.status \in Good, pc[p] \in Prelude
      PROVE  Secured(p) /\ Honest(ctx[p].original.version)
  BY <1>w DEF Phase, Behind, Restored, Holding, Prelude, Unsecured
<1>k. ASSUME Keeps(p), pc[p] \in Prelude
      PROVE  ctx[p].original.status \in Good => Secured(p)'
  BY <1>k, <1>w, StaysSecured
<1>h. ASSUME pc'[p] \notin {"idle", "read", "done"}, Phase(p)' PROVE Truly(p)
  BY <1>h DEF Truly, Holding
<1>1. CASE Launch(p)
  <2>1. /\ pc[p] = "locked" /\ UNCHANGED <<files, containers, data>>
        /\ row = ctx[p].original \/ row.status = "Error"
    BY <1>1 DEF Launch, hostVars, Phase, RowOf
  <2>2. CASE row' = [ctx[p].original EXCEPT !.status = "Upgrading"] /\ Goto(p, "start")
             /\ UNCHANGED <<ctx, lock>>
    <3>1. pc'[p] = "start" /\ Keeps(p) /\ ctx'[p].stopAttempted = ctx[p].stopAttempted
      BY <2>2, AfterGoto
    <3>2. row'.status = "Upgrading"
      BY <1>t, <2>2 DEF Rows
    <3>3. /\ ctx[p].snapshot = None /\ ctx[p].backupFile = None /\ ~ctx[p].mutated
          /\ ctx[p].original.status \in Good => Secured(p)'
      BY <1>k, <2>1, <3>1 DEF Phase, Flags, Unsecured, Prelude
    <3>4. Phase(p)'
      BY <2>1, <3>1, <3>2, <3>3, StillOld DEF Prelude, Unsecured, Keeps
    <3> QED BY <1>h, <3>1, <3>4
  <2>3. CASE Goto(p, "done") /\ UNCHANGED row
    <3>1. pc'[p] = "done"
      BY <2>3, AfterGoto
    <3>2. RowHonest'
      BY <1>w, <2>1, <2>3 DEF RowHonest, Honest, Good, Prelude, Unsecured
    <3> QED BY <3>1, <3>2, NoPhase DEF Truly
  <2> QED BY <1>1, <2>2, <2>3 DEF Launch
<1>2. CASE Start(p) \/ Prepare(p)
  <2>1. /\ pc[p] \in {"start", "prepare"} /\ UNCHANGED <<row, files, containers, data>>
        /\ row.status \in {"Upgrading", "Error"}
    BY <1>2 DEF Start, Prepare, hostVars, Phase, RowOf, Marked
  <2>2. CASE (Goto(p, "prepare") \/ Goto(p, "stop")) /\ UNCHANGED ctx
    <3>1. pc'[p] \in {"prepare", "stop"} /\ Keeps(p)
      BY <2>2, AfterGoto
    <3>2. /\ ctx[p].snapshot = None /\ ctx[p].backupFile = None /\ ~ctx[p].mutated
          /\ ctx[p].original.status \in Good => Secured(p)'
      BY <1>k, <2>1, <3>1 DEF Phase, Flags, Unsecured, Prelude
    <3>3. Phase(p)'
      BY <2>1, <3>1, <3>2, StillOld DEF Prelude, Unsecured, Keeps
    <3> QED BY <1>h, <3>1, <3>3
  <2>3. CASE Goto(p, "end") /\ ctx' = [ctx EXCEPT ![p].failed = TRUE]
    <3>1. pc'[p] = "end" /\ Keeps(p) /\ ctx'[p].failed
      BY <2>3, AfterGoto, AfterFailure
    <3>2. Phase(p)'
      BY <2>1, <3>1, EndsBefore DEF Prelude, Unsecured
    <3> QED BY <1>h, <3>1, <3>2
  <2> QED BY <1>2, <2>2, <2>3 DEF Start, Prepare
<1>3. CASE Stop(p)
  <2>1. /\ pc[p] = "stop" /\ UNCHANGED <<row, files, data>>
        /\ row.status \in {"Upgrading", "Error"}
        /\ ~ctx[p].mutated
    BY <1>3 DEF Stop, Phase, RowOf, Marked, Flags, Prelude, Unsecured
  <2>2. containers'.of = containers.of
    BY <1>3, <1>t DEF Stop, HaltFails, HostOK
  <2>3. CASE Goto(p, "snapshot") /\ ctx' = [ctx EXCEPT ![p].stopAttempted = TRUE]
    <3>1. pc'[p] = "snapshot" /\ Keeps(p) /\ ctx'[p].stopAttempted
      BY <1>t, <2>3, AfterGoto DEF Contexts, Keeps
    <3>2. ctx[p].original.status \in Good => Secured(p)'
      BY <1>k, <2>1, <3>1 DEF Unsecured, Prelude
    <3>3. Phase(p)'
      BY <2>1, <2>2, <3>1, <3>2, StillOld DEF Prelude, Unsecured, Keeps
    <3> QED BY <1>h, <3>1, <3>3
  <2>4. CASE /\ Goto(p, "rollback")
             /\ ctx' = [ctx EXCEPT ![p].stopAttempted = TRUE, ![p].failed = TRUE]
    <3>1. pc'[p] = "rollback" /\ Keeps(p) /\ ctx'[p].failed
      BY <2>4, AfterGoto, AfterFailure
    <3>2. ctx'[p].stopAttempted
      BY <1>t, <2>4 DEF Contexts
    <3>3. ctx[p].original.status \in Good => Secured(p)'
      BY <1>k, <2>1, <3>1 DEF Unsecured, Prelude
    <3>4. Phase(p)'
      BY <2>1, <2>2, <3>1, <3>2, <3>3, FailedCutover DEF Keeps
    <3> QED BY <1>h, <3>1, <3>4
  <2> QED BY <1>3, <2>3, <2>4 DEF Stop
<1>4. CASE Secure(p)
  <2>1. /\ pc[p] = "snapshot" /\ UNCHANGED <<row, files, containers, data>>
        /\ row.status \in {"Upgrading", "Error"} /\ ~ctx[p].mutated /\ ctx[p].stopAttempted
    BY <1>4 DEF Secure, hostVars, Phase, RowOf, Marked, Flags, Prelude
  <2> DEFINE taken == [ctx EXCEPT ![p].snapshot = files]
             saved == [taken EXCEPT ![p].backupFile = [files |-> files, data |-> data]]
             Kept4(c) ==
                /\ c[p].original = ctx[p].original /\ c[p].target = ctx[p].target
                /\ c[p].mutated = ctx[p].mutated /\ c[p].stopAttempted = ctx[p].stopAttempted
                /\ c[p].downAttempted = ctx[p].downAttempted
                /\ c[p].snapshot \in {files, ctx[p].snapshot}
                /\ c[p].backupFile \in {[files |-> files, data |-> data], ctx[p].backupFile}
  <2>2. \A c \in {taken, saved} : Kept4(c) /\ c \in [Requests -> [
           original : Rows, target : Versions, stopAttempted : BOOLEAN,
           downAttempted : BOOLEAN, mutated : BOOLEAN, snapshot : Files \cup {None},
           backupFile : [files : Files, data : Versions] \cup {None},
           failed : BOOLEAN, rollbackErr : BOOLEAN]]
    BY <1>t DEF Contexts, HostOK
  <2>3. \A c \in {taken, saved} : Kept4([c EXCEPT ![p].failed = TRUE])
                                  /\ [c EXCEPT ![p].failed = TRUE][p].failed
    BY <2>2
  <2> HIDE DEF taken, saved
  <2>4. ASSUME Kept4(ctx') PROVE ctx[p].original.status \in Good => Secured(p)'
    <3>1. ASSUME ctx[p].original.status \in Good PROVE Secured(p)'
      <4>1. Secured(p) /\ Honest(ctx[p].original.version)
        BY <1>w, <2>1, <3>1 DEF Prelude
      <4> QED BY <2>4, <4>1 DEF Secured, Honest
    <3> QED BY <3>1
  <2>5. CASE ctx' \in {taken, saved} /\ Goto(p, "down")
    <3>1. pc'[p] = "down" /\ Kept4(ctx')
      BY <2>2, <2>5, AfterGoto
    <3>2. Phase(p)'
      BY <2>1, <2>4, <3>1, StillOld DEF Prelude, Unsecured
    <3> QED BY <1>h, <3>1, <3>2
  <2>6. CASE Goto(p, "rollback") /\ \E c \in {taken, saved} : ctx' = [c EXCEPT ![p].failed = TRUE]
    <3>1. pc'[p] = "rollback" /\ Kept4(ctx') /\ ctx'[p].failed
      BY <2>3, <2>6, AfterGoto
    <3>2. Phase(p)'
      BY <2>1, <2>4, <3>1, FailedCutover
    <3> QED BY <1>h, <3>1, <3>2
  <2>7. CASE CutoverFails(p)
    <3>1. pc'[p] = "rollback" /\ Keeps(p) /\ ctx'[p].failed /\ ctx'[p].stopAttempted
      BY <2>1, <2>7, AfterGoto, AfterFailure DEF CutoverFails
    <3>2. ctx[p].original.status \in Good => Secured(p)'
      BY <1>k, <2>1, <3>1 DEF Prelude
    <3>3. Phase(p)'
      BY <2>1, <3>1, <3>2, FailedCutover DEF Keeps
    <3> QED BY <1>h, <3>1, <3>3
  <2> QED BY <1>4, <2>5, <2>6, <2>7 DEF Secure, taken, saved
<1>5. CASE Down(p)
  <2>1. /\ pc[p] = "down" /\ UNCHANGED <<row, files, data>>
        /\ row.status \in {"Upgrading", "Error"}
        /\ ~ctx[p].mutated /\ ctx[p].stopAttempted
    BY <1>5 DEF Down, Phase, RowOf, Marked, Flags, Prelude
  <2>2. CASE /\ DownSucceeds /\ Goto(p, "apply")
             /\ ctx' = [ctx EXCEPT ![p].downAttempted = TRUE, ![p].mutated = TRUE]
    <3>1. pc'[p] = "apply" /\ containers'.of = Gone
      BY <1>t, <2>2, AfterGoto, HaltHonest
    <3>2. /\ ctx'[p].original = ctx[p].original /\ ctx'[p].target = ctx[p].target
          /\ ctx'[p].snapshot = ctx[p].snapshot /\ ctx'[p].backupFile = ctx[p].backupFile
          /\ ctx'[p].mutated /\ ctx'[p].stopAttempted /\ ctx'[p].downAttempted
      BY <1>t, <2>1, <2>2 DEF Contexts
    <3>3. ASSUME ctx[p].original.status \in Good PROVE Secured(p)'
      <4>1. Secured(p)
        BY <1>w, <2>1, <3>3 DEF Prelude
      <4> QED BY <3>2, <4>1 DEF Secured
    <3>4. Ahead(p)'
      BY <2>1, <3>1, <3>2 DEF Phase, Ahead, Prelude, Unsecured, Taken
    <3>5. Phase(p)'
      BY <2>1, <3>1, <3>2, <3>3, <3>4, GoesAhead DEF Taken
    <3> QED BY <1>h, <3>1, <3>5
  <2>3. CASE /\ HaltFails /\ Goto(p, "rollback")
             /\ ctx' = [ctx EXCEPT ![p].downAttempted = TRUE, ![p].failed = TRUE]
    <3>1. /\ pc'[p] = "rollback" /\ Keeps(p) /\ ctx'[p].failed /\ ctx'[p].stopAttempted
      BY <2>1, <2>3, AfterGoto, AfterFailure
    <3>2. containers'.of = containers.of
      BY <1>t, <2>3, HaltHonest
    <3>3. ctx[p].original.status \in Good => Secured(p)'
      BY <1>k, <2>1, <3>1 DEF Prelude
    <3>4. Phase(p)'
      BY <2>1, <3>1, <3>2, <3>3, FailedCutover DEF Keeps
    <3> QED BY <1>h, <3>1, <3>4
  <2> QED BY <1>5, <2>2, <2>3 DEF Down
<1> QED
  BY <1>1, <1>2, <1>3, <1>4, <1>5

\* The cutover: the new version takes its place, and once it is there the row names it.
LEMMA CutoverTruth ==
    ASSUME TypeInv, NEW p \in Requests, Plain(p), Phase(p), Tolerated => Tolerated',
           \/ ApplyStagedFiles(p) \/ WriteFile(p, "env", "env", "script") \/ RunScript(p)
           \/ WriteFile(p, "compose", "compose", "up") \/ Up(p) \/ Commit(p)
           \/ DeleteOldImages(p)
    PROVE  Truly(p)
<1>t. /\ ctx[p] \in Contexts /\ ctx[p].target \in Versions /\ HostOK /\ data \in Nat
      /\ ctx[p].target \in Nat
  BY FieldsType DEF TypeInv, TypeOK, HostOK, Versions
<1>f. ASSUME CutoverFails(p), pc[p] \in Taken \cup {"commit"}, row' = row PROVE Truly(p)
  <2>1. /\ ctx[p].mutated /\ ctx[p].stopAttempted
        /\ ctx[p].original.status \in Good => Secured(p)
    BY <1>f DEF Phase, Flags, Behind, Holding, Taken
  <2>2. pc'[p] = "rollback" /\ Keeps(p) /\ ctx'[p].failed /\ ctx'[p].stopAttempted
    BY <1>f, <2>1, AfterGoto, AfterFailure DEF CutoverFails
  <2>3. Phase(p)'
    BY <1>f, <2>1, <2>2, StaysSecured, FailedCutover DEF Keeps
  <2> QED BY <2>2, <2>3 DEF Truly, Holding
<1>a. ASSUME NEW step \in Taken \cup {"commit"}, Goto(p, step), ctx' = ctx, pc[p] \in Taken,
             row' = row, pc'[p] = step => Ahead(p)'
      PROVE  Truly(p)
  <2>1. /\ ctx[p].mutated /\ ctx[p].stopAttempted /\ ctx[p].downAttempted
        /\ ctx[p].original.status \in Good => Secured(p)
    BY <1>a DEF Phase, Flags, Behind, Holding, Taken
  <2>2. pc'[p] = step /\ Keeps(p)
    BY <1>a, AfterGoto
  <2>3. Phase(p)'
    BY <1>a, <2>1, <2>2, StaysSecured, GoesAhead DEF Keeps
  <2> QED BY <1>a, <2>2, <2>3 DEF Truly, Holding, Taken
<1>1. CASE ApplyStagedFiles(p)
  <2>1. /\ pc[p] = "apply" /\ row' = row /\ UNCHANGED <<containers, data>>
    BY <1>1 DEF ApplyStagedFiles
  <2>2. CASE /\ files' = [files EXCEPT !["scripts"] = ctx[p].target] /\ Goto(p, "env")
             /\ UNCHANGED ctx
    <3>1. pc'[p] = "env" => Ahead(p)'
      BY <1>t, <2>1, <2>2 DEF Phase, Ahead, HostOK, Files, Parts, Taken, Prelude, Unsecured
    <3> QED BY <1>a, <2>1, <2>2, <3>1 DEF Taken
  <2> QED BY <1>1, <1>f, <2>1, <2>2 DEF ApplyStagedFiles, Taken
<1>2. CASE WriteFile(p, "env", "env", "script")
  <2>1. /\ pc[p] = "env" /\ row' = row /\ UNCHANGED <<containers, data>>
    BY <1>2 DEF WriteFile
  <2>2. CASE /\ files' = [files EXCEPT !["env"] = ctx[p].target] /\ Goto(p, "script")
             /\ UNCHANGED ctx
    <3>1. pc'[p] = "script" => Ahead(p)'
      BY <1>t, <2>1, <2>2 DEF Phase, Ahead, HostOK, Files, Parts, Taken, Prelude, Unsecured
    <3> QED BY <1>a, <2>1, <2>2, <3>1 DEF Taken
  <2> QED BY <1>2, <1>f, <2>1, <2>2 DEF WriteFile, Taken
<1>3. CASE RunScript(p)
  <2>1. /\ pc[p] = "script" /\ row' = row /\ UNCHANGED <<containers, files>>
        /\ data' \in {data, ctx[p].target}
    BY <1>3 DEF RunScript, Migrated
  <2>2. CASE Goto(p, "compose") /\ UNCHANGED ctx
    <3>1. data' <= ctx[p].target \/ Tolerated'
      BY <1>t, <2>1 DEF Phase, Ahead, Taken
    <3>2. pc'[p] = "compose" => Ahead(p)'
      BY <2>1, <2>2, <3>1 DEF Phase, Ahead, Taken, Prelude, Unsecured
    <3> QED BY <1>a, <2>1, <2>2, <3>2 DEF Taken
  <2> QED BY <1>3, <1>f, <2>1, <2>2 DEF RunScript, Taken
<1>4. CASE WriteFile(p, "compose", "compose", "up")
  <2>1. /\ pc[p] = "compose" /\ row' = row /\ UNCHANGED <<containers, data>>
    BY <1>4 DEF WriteFile
  <2>2. CASE /\ files' = [files EXCEPT !["compose"] = ctx[p].target] /\ Goto(p, "up")
             /\ UNCHANGED ctx
    <3>1. pc'[p] = "up" => Ahead(p)'
      BY <1>t, <2>1, <2>2 DEF Phase, Ahead, HostOK, Files, Parts, Taken, Prelude, Unsecured
    <3> QED BY <1>a, <2>1, <2>2, <3>1 DEF Taken
  <2> QED BY <1>4, <1>f, <2>1, <2>2 DEF WriteFile, Taken
<1>5. CASE Up(p)
  <2>1. pc[p] = "up" /\ row' = row /\ UNCHANGED files
    BY <1>5 DEF Up
  <2>2. CASE UpSucceeds /\ Goto(p, "commit") /\ UNCHANGED ctx
    <3>1. \A f \in Parts : files[f] = ctx[p].target
      BY <2>1 DEF Phase, Ahead, Parts
    <3>2. containers'.of = ctx[p].target /\ data' \in {data, ctx[p].target}
      BY <1>t, <2>2, <3>1, UpHonest
    <3>3. data' <= ctx[p].target \/ Tolerated'
      BY <1>t, <2>1, <3>2 DEF Phase, Ahead, Taken
    <3>4. pc'[p] = "commit" => Ahead(p)'
      BY <2>1, <2>2, <3>1, <3>2, <3>3 DEF Ahead, Parts, Taken, Prelude, Unsecured
    <3> QED BY <1>a, <2>1, <2>2, <3>4 DEF Taken
  <2> QED BY <1>5, <1>f, <2>1, <2>2 DEF Up, Taken
<1>6. CASE Commit(p)
  <2>1. pc[p] = "commit" /\ UNCHANGED <<files, containers, data>>
    BY <1>6 DEF Commit, hostVars
  <2>2. CASE /\ row' = [version |-> ctx[p].target, status |-> "Running"]
             /\ Goto(p, "images") /\ UNCHANGED ctx
    <3>1. pc'[p] = "images" /\ Keeps(p)
      BY <2>2, AfterGoto
    <3>2. Honest(ctx[p].target)
      BY <2>1 DEF Phase, Ahead, Honest, Parts
    <3>3. row'.version = ctx[p].target
      BY <2>2
    <3>4. RowHonest'
      BY <2>1, <3>2, <3>3 DEF RowHonest, Honest
    <3>5. ctx[p].original.status \in Good => Secured(p)
      BY <2>1 DEF Phase, Behind, Holding
    <3>6. RowOf(p)' /\ Flags(p)' /\ Ahead(p)'
      BY <3>1, <3>4 DEF RowOf, Flags, Ahead, Unsecured, Prelude, Taken, Back, Marked
    <3>7. ctx[p].original.status \in Good => Secured(p)'
      BY <3>1, <3>5, StaysSecured
    <3>8. Behind(p)'
      BY <3>1, <3>7 DEF Behind, Restored, Keeps, Prelude, Unsecured
    <3> QED BY <3>1, <3>6, <3>8 DEF Truly, Phase, Holding
  <2> QED BY <1>6, <1>f, <2>1, <2>2 DEF Commit
<1>7. CASE DeleteOldImages(p)
  <2>1. /\ pc[p] = "images" /\ UNCHANGED <<row, files, containers, data, ctx>>
        /\ pc'[p] = "end" /\ Keeps(p) /\ ctx'[p].failed = ctx[p].failed
    BY <1>7, AfterGoto DEF DeleteOldImages
  <2>2. ~ctx[p].failed /\ RowHonest
    BY <2>1 DEF Plain, Unfailed, Phase, RowOf
  <2>3. RowHonest'
    BY <2>1, <2>2 DEF RowHonest, Honest
  <2>4. RowOf(p)' /\ Flags(p)' /\ Ahead(p)'
    BY <2>1, <2>2, <2>3 DEF RowOf, Flags, Ahead, Unsecured, Prelude, Taken, Back, Marked
  <2>5. ctx[p].original.status \in Good => Secured(p)'
    BY <2>1, StaysSecured DEF Phase, Behind, Holding
  <2>6. Behind(p)'
    BY <2>1, <2>2, <2>5 DEF Behind, Restored, Keeps, Prelude, Unsecured
  <2> QED BY <2>1, <2>4, <2>6 DEF Truly, Phase, Holding
<1> QED
  BY <1>1, <1>2, <1>3, <1>4, <1>5, <1>6, <1>7

\* The rollback: the old version is put back, and the row that was read says so only if
\* nothing of it failed.
LEMMA RollbackTruth ==
    ASSUME TypeInv, Clean', NEW p \in Requests, Phase(p), Tolerated => Tolerated',
           \/ Rollback(p) \/ RestoreManagedFiles(p) \/ Recover(p) \/ UpAgain(p)
           \/ FinishRollback(p)
    PROVE  Truly(p)
<1> DEFINE v == ctx[p].original.version
<1>t. /\ ctx[p].original \in Rows /\ HostOK /\ ctx \in [Requests -> Contexts]
      /\ v \in Versions /\ v \in Nat /\ data \in Nat
      /\ ctx[p].rollbackErr \in BOOLEAN
  BY FieldsType DEF TypeInv, TypeOK, HostOK, Rows, Versions
<1>b. pc[p] \in Back
  BY DEF Rollback, RestoreManagedFiles, Recover, UpAgain, FinishRollback, Back
<1>s. /\ ctx[p].failed /\ ctx[p].stopAttempted
      /\ ctx[p].original.status \in Good => Secured(p) /\ Restored(p)
  BY <1>b DEF Phase, Flags, Behind, Holding, Back
<1>e. ASSUME RollbackEnds(p, TRUE) PROVE Truly(p)
  <2>1. Phase(p)' /\ pc'[p] = "end"
    BY <1>b, <1>e, RollbackGivesUp, AfterRollback
  <2> QED BY <2>1 DEF Truly, Holding
<1>g. ASSUME NEW step \in Back \ {"rollback"}, Goto(p, step), ctx' = ctx,
             step \in Marked => row'.status \in {"Upgrading", "Error"},
             step \in {"restore", "recover", "reup", "upafter"} =>
                containers'.of = Gone \/ ctx[p].rollbackErr,
             ctx[p].original.status \in Good /\ pc'[p] = step => Restored(p)'
      PROVE  Truly(p)
  <2>1. /\ pc'[p] = step /\ Keeps(p) /\ ctx'[p].failed /\ ctx'[p].stopAttempted
        /\ ctx'[p].rollbackErr = ctx[p].rollbackErr
    BY <1>g, <1>s, AfterGoto
  <2>2. Phase(p)'
    BY <1>b, <1>g, <1>s, <2>1, StaysSecured, GoesBack DEF Keeps
  <2> QED BY <2>1, <2>2 DEF Truly, Holding, Back
<1>r. ASSUME Goto(p, "recheck"), ctx' = ctx,
             ctx[p].original.status \in Good /\ ~ctx[p].rollbackErr => Honest(v)'
      PROVE  Truly(p)
  <2>1. pc'[p] = "recheck" /\ Keeps(p) /\ ctx'[p].rollbackErr = ctx[p].rollbackErr
    BY <1>r, AfterGoto
  <2>2. ctx[p].original.status \in Good => Restored(p)'
    BY <1>r, <2>1 DEF Restored, Keeps, Prelude, Unsecured
  <2> QED BY <1>g, <1>r, <2>2 DEF Back, Marked, Taken
<1>u. ASSUME \A f \in Parts : files[f] = v, data <= v \/ Tolerated, files' = files,
             UpSucceeds \/ UpFails
      PROVE  /\ \A f \in Parts : files'[f] = v
             /\ data' <= v \/ Tolerated'
             /\ containers'.of \in {containers.of, v} /\ (UpSucceeds => containers'.of = v)
  BY <1>t, <1>u, UpHonest
<1>1. CASE Rollback(p)
  <2>0. /\ pc[p] = "rollback" /\ UNCHANGED <<row, files>> /\ row.status \in {"Upgrading", "Error"}
        /\ ctx[p].mutated => ctx[p].downAttempted
    BY <1>1 DEF Rollback, Phase, RowOf, Marked, Flags
  <2>1. ASSUME ctx[p].original.status \in Good, ~ctx[p].mutated PROVE Honest(v)
    BY <1>s, <2>0, <2>1 DEF Restored
  <2>2. CASE ~ctx[p].downAttempted /\ StartSucceeds /\ Goto(p, "recheck") /\ UNCHANGED <<ctx, data>>
    <3>1. containers'.of = containers.of
      BY <1>t, <2>2, HaltHonest
    <3>2. ctx[p].original.status \in Good => Honest(v)'
      BY <2>0, <2>1, <2>2, <3>1 DEF Honest
    <3> QED BY <1>r, <2>2, <3>2
  <2>3. CASE /\ FilesUntouched(p) /\ UpSucceeds /\ Goto(p, "recheck") /\ UNCHANGED ctx
    <3>1. ctx[p].original.status \in Good => Honest(v)'
      BY <1>u, <2>0, <2>1, <2>3 DEF Honest, FilesUntouched
    <3> QED BY <1>r, <2>3, <3>1
  <2>4. CASE /\ DownSucceeds /\ Goto(p, "restore") /\ UNCHANGED ctx
    <3>1. containers'.of = Gone
      BY <1>t, <2>4, HaltHonest
    <3>2. pc'[p] = "restore" => Restored(p)'
      BY DEF Restored, Prelude, Unsecured
    <3> QED BY <1>g, <2>0, <2>4, <3>1, <3>2 DEF Back
  <2>5. CASE /\ ctx' = [ctx EXCEPT ![p].rollbackErr = TRUE] /\ Goto(p, "restore")
    <3>1. /\ pc'[p] = "restore" /\ Keeps(p) /\ ctx'[p].failed /\ ctx'[p].stopAttempted
          /\ ctx'[p].rollbackErr
      BY <1>s, <1>t, <2>5, AfterGoto DEF Contexts, Keeps
    <3>2. ctx[p].original.status \in Good => Secured(p)' /\ Restored(p)'
      BY <1>s, <3>1, StaysSecured DEF Restored, Prelude, Unsecured
    <3>3. Phase(p)'
      BY <1>b, <2>0, <3>1, <3>2, GoesBack DEF Keeps, Back
    <3> QED BY <3>1, <3>3 DEF Truly, Holding
  <2> QED BY <1>1, <1>e, <2>2, <2>3, <2>4, <2>5 DEF Rollback
<1>2. CASE RestoreManagedFiles(p)
  <2>0. /\ pc[p] = "restore" /\ UNCHANGED <<row, containers, data>>
        /\ row.status \in {"Upgrading", "Error"} /\ (containers.of = Gone \/ ctx[p].rollbackErr)
    BY <1>2 DEF RestoreManagedFiles, Phase, RowOf, Marked, Flags
  <2>1. pc'[p] = "recover" => Restored(p)'
    BY DEF Restored, Prelude, Unsecured
  <2>2. CASE Goto(p, "recover") /\ UNCHANGED ctx
    BY <1>g, <2>0, <2>1, <2>2 DEF Back
  <2>3. CASE /\ files' = ctx[p].snapshot /\ Record({"unbacked"}) /\ Goto(p, "reup")
             /\ UNCHANGED ctx
    <3>1. ctx[p].snapshot \in Files
      BY <2>0 DEF TypeInv, PhaseOK
    <3>2. None \notin Files
      <4>1. DOMAIN None = {"none"}
        BY DEF None
      <4>2. \A x \in Files : DOMAIN x = Parts
        BY DEF Files
      <4> QED BY <4>1, <4>2 DEF Parts
    <3>3. ctx[p].original.status \in Good => \A f \in Parts : files'[f] = v
      BY <1>s, <2>3, <3>1, <3>2 DEF Secured
    <3>4. pc'[p] = "reup" /\ Keeps(p) /\ Tolerated'
      <4>1. "unbacked" \in history'
        BY <2>3, Recorded DEF Clean
      <4> QED BY <2>3, <4>1, AfterGoto DEF Tolerated
    <3>5. ctx[p].original.status \in Good => Restored(p)'
      BY <3>3, <3>4 DEF Restored, Keeps, Prelude, Unsecured
    <3> QED BY <1>g, <2>0, <2>3, <3>5 DEF Back
  <2> QED BY <1>2, <1>e, <2>2, <2>3 DEF RestoreManagedFiles
<1>3. CASE Recover(p)
  <2> DEFINE b == ctx[p].backupFile
  <2>0. /\ pc[p] = "recover" /\ UNCHANGED <<containers, ctx>>
        /\ row.status \in {"Upgrading", "Error"} /\ (containers.of = Gone \/ ctx[p].rollbackErr)
    BY <1>3 DEF Recover, Phase, RowOf, Marked, Flags
  <2>1. CASE files' = b.files /\ data' = b.data /\ Goto(p, "upafter")
    <3>1. b \in Backups
      BY <2>0 DEF TypeInv, PhaseOK
    <3>2. b # None
      <4>1. DOMAIN None = {"none"}
        BY DEF None
      <4>2. DOMAIN b = {"files", "data"}
        BY <3>1 DEF Backups
      <4> QED BY <4>1, <4>2
    <3>3. ctx[p].original.status \in Good =>
            (\A f \in Parts : files'[f] = v) /\ (data' <= v \/ Tolerated')
      BY <1>s, <2>1, <3>2 DEF Secured
    <3>4. pc'[p] = "upafter" /\ Keeps(p)
      BY <2>0, <2>1, AfterGoto
    <3>5. ctx[p].original.status \in Good => Restored(p)'
      BY <3>3, <3>4 DEF Restored, Keeps, Prelude, Unsecured
    <3> QED BY <1>g, <2>0, <2>1, <3>5 DEF Back, Marked, Taken
  <2>2. CASE UNCHANGED row /\ Goto(p, "uplast")
    <3>1. pc'[p] = "uplast" => Restored(p)'
      BY DEF Restored, Prelude, Unsecured
    <3> QED BY <1>g, <2>0, <2>2, <3>1 DEF Back
  <2> QED BY <1>3, <2>1, <2>2 DEF Recover
<1>4. CASE UpAgain(p)
  <2>0. files' = files
    BY <1>4 DEF UpAgain
  <2>1. ASSUME pc[p] \in {"reup", "upafter"}, ctx[p].original.status \in Good
        PROVE  (\A f \in Parts : files[f] = v) /\ (data <= v \/ Tolerated)
    BY <1>s, <2>1 DEF Restored
  <2>2. CASE pc[p] = "reup" /\ UpSucceeds /\ Goto(p, "recheck") /\ UNCHANGED ctx
    <3>1. ctx[p].original.status \in Good => Honest(v)'
      BY <1>u, <2>0, <2>1, <2>2 DEF Honest
    <3> QED BY <1>r, <2>2, <3>1
  <2>3. CASE pc[p] = "upafter" /\ (UpSucceeds \/ UpFails) /\ Goto(p, "recheck") /\ UNCHANGED ctx
    <3>1. containers.of = Gone \/ ctx[p].rollbackErr
      BY <2>3 DEF Phase, Flags
    <3>2. ctx[p].original.status \in Good /\ ~ctx[p].rollbackErr => Honest(v)'
      BY <1>u, <2>0, <2>1, <2>3, <3>1 DEF Honest
    <3> QED BY <1>r, <2>3, <3>2
  <2> QED BY <1>4, <1>e, <2>2, <2>3 DEF UpAgain
<1>5. CASE FinishRollback(p)
  <2>0. pc[p] = "recheck" /\ UNCHANGED <<files, containers, data>>
    BY <1>5 DEF FinishRollback, hostVars
  <2>1. CASE RollbackEnds(p, FALSE)
    <3>1. /\ pc'[p] = "end" /\ Keeps(p) /\ ctx'[p].failed /\ ctx'[p].stopAttempted
          /\ ctx'[p].rollbackErr = ctx[p].rollbackErr
      BY <1>s, <1>t, <2>1, AfterRollback
    <3>2. RowOf(p)' /\ Flags(p)' /\ Ahead(p)'
      BY <3>1 DEF RowOf, Flags, Ahead, Unsecured, Prelude, Taken, Back, Marked
    <3>3. ASSUME ctx[p].original.status \in Good, ~ctx[p].rollbackErr PROVE Honest(v)'
      BY <1>s, <2>0, <3>1, <3>3 DEF Restored, Honest, Keeps
    <3>4. ctx[p].original.status \in Good => Secured(p)'
      BY <1>s, <3>1, StaysSecured
    <3>5. Behind(p)'
      BY <3>1, <3>3, <3>4 DEF Behind, Restored, Keeps, Prelude, Unsecured
    <3> QED BY <3>1, <3>2, <3>5 DEF Truly, Phase, Holding
  <2> QED BY <1>5, <1>e, <2>1 DEF FinishRollback
<1> QED
  BY <1>1, <1>2, <1>3, <1>4, <1>5

\* The end: the last Save leaves a row that is true, or an error.
LEMMA EndTruth ==
    ASSUME TypeInv, Clean', NEW p \in Requests, Phase(p), Tolerated => Tolerated',
           End(p) \/ Release(p)
    PROVE  Truly(p)
<1>1. CASE End(p)
  <2>1. /\ pc[p] = "end" /\ UNCHANGED <<files, containers, data, ctx>>
        /\ pc'[p] = "release" /\ Keeps(p)
    BY <1>1, AfterGoto DEF End, hostVars
  <2>2. ctx[p].original \in Rows /\ ctx[p].failed \in BOOLEAN
    BY FieldsType DEF TypeInv, TypeOK
  <2>3. ASSUME ~ctx[p].failed
       PROVE  RowHonest'
    <3>1. row' = row /\ RowHonest
      BY <1>1, <2>1, <2>3 DEF End, Phase, RowOf
    <3> QED BY <2>1, <3>1 DEF RowHonest, Honest
  <2>4. ASSUME ctx[p].failed /\ row' = FailedRow(p)
       PROVE  RowHonest'
    <3>1. ASSUME row'.status \in Good
          PROVE  row' = ctx[p].original /\ ~(ctx[p].stopAttempted /\ ctx[p].rollbackErr)
      BY <2>2, <2>4, <3>1 DEF FailedRow, Rows, Good
    <3>2. ASSUME row'.status \in Good PROVE Honest(ctx[p].original.version)
      BY <2>1, <2>4, <3>1, <3>2 DEF Phase, Behind, Restored, Holding
    <3>3. RowHonest'
      BY <2>1, <3>1, <3>2 DEF RowHonest, Honest
    <3> QED BY <3>3
  <2>5. ASSUME ctx[p].failed /\ row' = row /\ Record({"unsaved"} \cup Early(p))
       PROVE  RowHonest'
    <3>1. row.status \in {"Upgrading", "Error"} \/ ctx[p].stopAttempted
      BY <2>1, <2>5 DEF Phase, RowOf
    <3>2. "early" \notin history' /\ history' = history \cup {"unsaved"} \cup Early(p)
      BY <2>5, Recorded DEF Clean
    <3>3. row.status \in {"Upgrading", "Error"}
      BY <2>5, <3>1, <3>2 DEF Early
    <3> QED BY <2>5, <3>3 DEF RowHonest, Good
  <2>6. RowHonest'
    BY <1>1, <2>2, <2>3, <2>4, <2>5 DEF End, RowHonest, Honest
  <2>7. RowOf(p)' /\ Flags(p)' /\ Ahead(p)'
    BY <2>1, <2>6 DEF RowOf, Flags, Ahead, Unsecured, Prelude, Taken, Back, Marked
  <2>8. ctx[p].original.status \in Good => Secured(p)'
    BY <2>1, StaysSecured DEF Phase, Behind, Holding
  <2>9. Behind(p)'
    BY <2>1, <2>8 DEF Behind, Restored, Keeps, Prelude, Unsecured
  <2> QED BY <2>1, <2>7, <2>9 DEF Truly, Phase, Holding
<1>2. CASE Release(p)
  <2>1. pc[p] = "release" /\ UNCHANGED <<row, files, containers, data>> /\ pc'[p] = "done"
    BY <1>2, AfterGoto DEF Release, hostVars
  <2>2. RowHonest'
    BY <2>1 DEF Phase, RowOf, RowHonest, Honest
  <2> QED BY <2>1, <2>2, NoPhase DEF Truly
<1> QED
  BY <1>1, <1>2

(* The steps together. *)

\* A request that only waits is not disturbed by what another one does.
LEMMA Waiting ==
    ASSUME NEW q \in Requests, ~Holding(q), Phase(q), pc'[q] = pc[q], ctx'[q] = ctx[q]
    PROVE  Phase(q)'
<1>1. CASE pc[q] = "read"
  BY <1>1 DEF Phase, RowOf, Flags, Ahead, Behind, Holding, Unsecured, Prelude, Taken, Back, Marked
<1>2. CASE pc[q] \in {"idle", "done"}
  BY <1>2, NoPhase
<1> QED
  BY <1>1, <1>2 DEF Holding

\* An upgrade leaves the other operations and the agent alone.
LEMMA StepAside ==
    ASSUME NEW p \in Requests, Read(p) \/ Step(p)
    PROVE  op' = op /\ up' = up
BY DEF Read, Step, Lock, Launch, Start, Prepare, Stop, Secure, Down, ApplyStagedFiles,
       WriteFile, RunScript, Up, Commit, DeleteOldImages, Rollback, RestoreManagedFiles,
       Recover, UpAgain, FinishRollback, End, Release, opVars, lifeVars

\* What holds of the row holds as long as nothing changes.
LEMMA StillHonest ==
    ASSUME Tolerated => Tolerated', UNCHANGED <<row, files, containers, data>>, RowHonest
    PROVE  RowHonest'
BY DEF RowHonest, Honest

\* A request takes the lock with a row that tells the truth, and goes on to a version
\* that the data can be used with.
LEMMA LockTruth ==
    ASSUME ImagesInv, NEW p \in Requests, Lock(p), Clean', Tolerated => Tolerated',
           Aside, \A q \in Requests : Phase(q)
    PROVE  Phase(p)' /\ ((\A q \in Requests : ~Holding(q)') => RowHonest')
<1>0. /\ TypeInv /\ LockInv /\ ctx[p].target \in Nat /\ data \in Nat
  BY FieldsType DEF ImagesInv, TypeInv, TypeOK, Versions
<1>1. pc[p] = "read" /\ UNCHANGED <<row, files, containers, data>>
  BY DEF Lock, hostVars
<1>2. CASE /\ LockIsFree /\ Goto(p, "locked") /\ UNCHANGED ctx
           /\ row # ctx[p].original => \E c : "stale" \in c /\ Record(c)
           /\ data > ctx[p].target => \E c : "behind" \in c /\ Record(c)
  <2>1. pc'[p] = "locked" /\ Keeps(p)
    BY <1>0, <1>2, AfterGoto
  <2>2. \A q \in Requests : ~Holding(q)
    BY <1>0, <1>2 DEF LockInv, LockIsFree
  <2>3. RowHonest
    BY <2>2 DEF Aside
  <2>4. row = ctx[p].original
    BY <1>2, Recorded DEF Clean
  <2>5. data <= ctx[p].target \/ Tolerated'
    BY <1>0, <1>2, Recorded DEF Tolerated, Clean
  <2>6. ctx[p].snapshot = None /\ ctx[p].backupFile = None /\ ~ctx[p].mutated
    BY <1>1 DEF Phase, Flags
  <2>7. RowOf(p)' /\ Flags(p)' /\ Ahead(p)'
    BY <1>1, <1>2, <2>1, <2>4, <2>5, <2>6
       DEF RowOf, Flags, Ahead, Unsecured, Prelude, Taken, Back, Marked
  <2>8. ctx[p].original.status \in Good => Honest(ctx[p].original.version)
    BY <2>3, <2>4 DEF RowHonest
  <2>9. Behind(p)'
    BY <1>1, <1>2, <2>1, <2>6, <2>8 DEF Behind, Restored, Secured, Honest
  <2> QED BY <2>1, <2>7, <2>9 DEF Phase, Holding
<1>3. CASE Goto(p, "done")
  <2>1. pc'[p] = "done" /\ \A q \in Requests \ {p} : pc'[q] = pc[q]
    BY <1>0, <1>3 DEF TypeInv, TypeOK, Goto
  <2>2. (\A q \in Requests : ~Holding(q)') => \A q \in Requests : ~Holding(q)
    BY <1>1, <2>1 DEF Holding
  <2> QED BY <1>1, <2>1, <2>2, NoPhase, StillHonest DEF Aside
<1> QED
  BY <1>2, <1>3 DEF Lock

\* Every step of an upgrade leaves the truth.
LEMMA StepTruth ==
    ASSUME ImagesInv, TruthInv, [Next]_vars, NEW p \in Requests, Step(p)
    PROVE  TruthInv'
<1>1. /\ TypeInv /\ LockInv /\ Plain(p) /\ Carries(p)
      /\ Active(p) /\ op' = op /\ up' = up
  BY Carried, StepLeads, StepAside DEF ImagesInv, Leads, Active
<1>2. up'
  BY <1>1 DEF TruthInv
<1>3. ASSUME Clean' PROVE Aside' /\ \A q \in Requests : Phase(q)'
  <2>1. (Tolerated => Tolerated') /\ Aside /\ \A q \in Requests : Phase(q)
    BY <1>3, Remembered DEF TruthInv
  <2>2. op' = Idle
    BY <1>1, <2>1 DEF Aside
  <2>3. ASSUME NEW q \in Requests \ {p} PROVE pc'[q] = pc[q] /\ ctx'[q] = ctx[q]
    BY <1>1 DEF Carries
  <2>4. CASE Lock(p)
    <3>1. UNCHANGED <<row, files, containers, data>>
      BY <2>4 DEF Lock, hostVars
    <3>2. \A q \in Requests \ {p} : Phase(q)'
      BY <2>1, <2>3, <3>1, PhaseKept
    <3>3. Phase(p)' /\ ((\A q \in Requests : ~Holding(q)') => RowHonest')
      BY <1>3, <2>1, <2>4, LockTruth
    <3> QED BY <2>2, <3>2, <3>3 DEF Aside
  <2>5. CASE ~Lock(p)
    <3>1. Truly(p)
      BY <1>1, <1>3, <2>1, <2>5, PreludeTruth, CutoverTruth, RollbackTruth, EndTruth DEF Step
    <3>2. Holding(p)
      BY <2>5 DEF Step, Launch, Start, Prepare, Stop, Secure, Down, ApplyStagedFiles,
         WriteFile, RunScript, Up, Commit, DeleteOldImages, Rollback, RestoreManagedFiles,
         Recover, UpAgain, FinishRollback, End, Release, Holding
    <3>3. \A q \in Requests \ {p} : ~Holding(q)
      BY <1>1, <3>2 DEF LockInv
    <3>4. \A q \in Requests \ {p} : Phase(q)'
      BY <2>1, <2>3, <3>3, Waiting
    <3> QED BY <2>2, <3>1, <3>4 DEF Truly, Aside
  <2> QED BY <2>4, <2>5
<1> QED
  BY <1>2, <1>3 DEF TruthInv

\* The agent dies: an upgrade that it leaves half-made is marked in the row.
LEMMA DiesHonest ==
    ASSUME NEW p \in Requests, pc[p] \in Labels, Holding(p), Phase(p), Early(p) = {}
    PROVE  RowHonest
<1>1. CASE pc[p] = "locked"
  <2>1. row = ctx[p].original \/ row.status = "Error"
    BY <1>1 DEF Phase, RowOf
  <2>2. ctx[p].original.status \in Good => Honest(ctx[p].original.version)
    BY <1>1 DEF Phase, Behind, Restored, Prelude, Unsecured
  <2> QED BY <2>1, <2>2 DEF RowHonest, Good
<1>2. CASE pc[p] \in Marked
  BY <1>2 DEF Phase, RowOf, RowHonest, Good
<1>3. CASE pc[p] \in {"images", "release"} \/ (pc[p] = "end" /\ ~ctx[p].failed)
  BY <1>3 DEF Phase, RowOf
<1>4. CASE pc[p] \in {"upafter", "recheck"} \/ (pc[p] = "end" /\ ctx[p].failed)
  <2>1. row.status \in {"Upgrading", "Error"} \/ (ctx[p].failed /\ ctx[p].stopAttempted)
    BY <1>4 DEF Phase, RowOf, Flags, Back
  <2>2. row.status \in {"Upgrading", "Error"}
    BY <2>1 DEF Early
  <2> QED BY <2>2 DEF RowHonest, Good
<1> QED
  BY <1>1, <1>2, <1>3, <1>4 DEF Labels, Holding, Marked, Taken

\* A new request finds nothing else under way, or it overlaps.
LEMMA ReadTruth ==
    ASSUME ImagesInv, TruthInv, [Next]_vars, NEW p \in Requests, Read(p)
    PROVE  TruthInv'
<1>1. /\ TypeInv /\ pc[p] = "idle" /\ Goto(p, "read") /\ up
      /\ UNCHANGED <<row, files, containers, data>>
      /\ Record(IF op # Idle THEN {"overlap"} ELSE {})
  BY DEF Read, ImagesInv, hostVars
<1>2. PICK target \in Versions :
         ctx' = [ctx EXCEPT ![p] = [NoContext EXCEPT !.original = row, !.target = target]]
  BY DEF Read
<1>3. pc \in [Requests -> Labels] /\ ctx \in [Requests -> Contexts]
  BY <1>1 DEF TypeInv, TypeOK
<1>4. /\ pc'[p] = "read" /\ \A q \in Requests \ {p} : pc'[q] = pc[q] /\ ctx'[q] = ctx[q]
      /\ ctx'[p].snapshot = None /\ ctx'[p].backupFile = None /\ ~ctx'[p].mutated
  BY <1>1, <1>2, <1>3 DEF Goto, NoContext
<1>5. op' = op /\ up'
  BY <1>1, StepAside
<1>6. ASSUME Clean' PROVE Aside' /\ \A q \in Requests : Phase(q)'
  <2>1. (Tolerated => Tolerated') /\ Aside /\ \A q \in Requests : Phase(q)
    BY <1>6, Remembered DEF TruthInv
  <2>2. op' = Idle
    BY <1>1, <1>5, <1>6, Recorded DEF Clean
  <2>3. Phase(p)'
    BY <1>4 DEF Phase, RowOf, Flags, Ahead, Behind, Holding, Unsecured, Prelude, Taken,
           Back, Marked
  <2>4. \A q \in Requests \ {p} : Phase(q)'
    BY <1>1, <1>4, <2>1, PhaseKept
  <2>5. (\A q \in Requests : ~Holding(q)') => \A q \in Requests : ~Holding(q)
    BY <1>1, <1>4 DEF Holding
  <2>6. (\A q \in Requests : ~Holding(q)') => RowHonest'
    BY <1>1, <2>1, <2>5, StillHonest DEF Aside
  <2> QED BY <2>2, <2>3, <2>4, <2>6 DEF Aside
<1> QED
  BY <1>5, <1>6 DEF TruthInv

\* Compose commands of other operations make no containers but of the files' version.
LEMMA OpComposeHonest ==
    ASSUME TypeInv, OpCompose, RowHonest, Tolerated => Tolerated'
    PROVE  RowHonest'
<1>1. /\ HostOK /\ row \in Rows /\ row' = row /\ files' = files
      /\ row.version \in Versions /\ row.version \in Nat /\ data \in Nat
  BY DEF TypeInv, TypeOK, HostOK, OpCompose, Rows, Versions
<1>2. SUFFICES ASSUME row.status \in Good PROVE Honest(row.version)'
  BY <1>1 DEF RowHonest
<1>3. Honest(row.version)
  BY <1>2 DEF RowHonest
<1>4. CASE Contain(Described) \/ UpFails
  <2>1. containers'.of \in {containers.of, row.version} /\ data' \in {data, row.version}
    BY <1>1, <1>3, <1>4, UpHonest DEF Honest
  <2> QED BY <1>1, <1>3, <2>1 DEF Honest
<1>5. CASE /\ data' = data
           /\ HaltFails \/ containers' = [containers EXCEPT !.on = FALSE]
  <2>1. containers'.of = containers.of
    BY <1>1, <1>5 DEF HaltFails, HostOK
  <2> QED BY <1>1, <1>3, <1>5, <2>1 DEF Honest
<1> QED
  BY <1>4, <1>5 DEF OpCompose

\* The row that is written back is of the version it names.
LEMMA OpSaveHonest ==
    ASSUME TypeInv, OpSave, RowHonest, op.read = row \/ row.status = "Error", Clean',
           Tolerated => Tolerated'
    PROVE  RowHonest'
<1>1. /\ row \in Rows /\ UNCHANGED <<files, containers, data>> /\ row' = OpRow
      /\ op.kind \in {"favorite", "sync", "error"}
  BY DEF TypeInv, TypeOK, OpSave, hostVars
<1>3. row.status \in {"Error", "UpgradeErr", "Upgrading"} => row' = row
  <2>1. row.status \in {"Error", "UpgradeErr", "Upgrading"} /\ row' # row =>
           \E c : "operated" \in c /\ Record(c)
    BY DEF OpSave
  <2> QED BY <2>1, Recorded DEF Clean
<1>2. row'.version = row.version
  <2>1. \A st : [row EXCEPT !.status = st].version = row.version
    BY <1>1 DEF Rows
  <2> QED BY <1>1, <1>3, <2>1 DEF OpRow
<1>4. row'.status \in Good => row.status \in Good
  BY <1>1, <1>3 DEF Rows, Statuses, Good
<1> QED
  BY <1>1, <1>2, <1>4 DEF RowHonest, Honest

\* Operations beside the upgrades, or nothing at all.
LEMMA OthersTruth ==
    ASSUME ImagesInv, TruthInv, [Next]_vars, OpRead \/ OpCompose \/ OpSave \/ UNCHANGED vars
    PROVE  TruthInv'
<1>1. /\ TypeInv /\ UNCHANGED <<pc, ctx>> /\ up' = up
  BY DEF ImagesInv, OpRead, OpCompose, OpSave, vars, lifeVars
<1>2. \A p \in Requests : Active(p)' = Active(p) /\ Holding(p)' = Holding(p)
  BY <1>1 DEF Active, Holding
<1>3. ~up' => op' = Idle /\ \A p \in Requests : ~Active(p)'
  <2>1. CASE OpCompose \/ OpSave
    <3>1. op # Idle
      BY <2>1 DEF OpCompose, OpSave, Idle
    <3> QED BY <1>1, <3>1 DEF TruthInv
  <2>2. CASE OpRead
    BY <1>1, <2>2 DEF OpRead
  <2>3. CASE UNCHANGED vars
    BY <1>1, <1>2, <2>3 DEF TruthInv, vars, opVars
  <2> QED BY <2>1, <2>2, <2>3
<1>4. ASSUME Clean' PROVE Aside' /\ \A q \in Requests : Phase(q)'
  <2>1. (Tolerated => Tolerated') /\ Aside /\ \A q \in Requests : Phase(q)
    BY <1>4, Remembered DEF TruthInv
  <2>2. CASE OpRead
    <3>1. /\ op'.read = row' /\ UNCHANGED <<row, files, containers, data>>
          /\ \A p \in Requests : ~Active(p)
      <4>1. (\E p \in Requests : Active(p)) => Record({"overlap"})
        BY <2>2 DEF OpRead
      <4> QED BY <1>4, <2>2, <4>1, Recorded DEF OpRead, Clean, Minor, hostVars
    <3>2. \A q \in Requests : Phase(q)'
      BY <1>1, <2>1, <3>1, PhaseKept
    <3> QED BY <1>2, <2>1, <3>1, <3>2, StillHonest DEF Aside
  <2>3. CASE UNCHANGED vars
    <3>1. op' = op /\ UNCHANGED <<row, files, containers, data>>
      BY <2>3 DEF vars, hostVars, opVars
    <3>2. \A q \in Requests : Phase(q)'
      BY <1>1, <2>1, <3>1, PhaseKept
    <3> QED BY <1>2, <2>1, <3>1, <3>2, StillHonest DEF Aside
  <2>4. CASE OpCompose \/ OpSave
    <3>1. op # Idle
      BY <2>4 DEF OpCompose, OpSave, Idle
    <3>2. /\ op.read = row \/ row.status = "Error"
          /\ \A p \in Requests : ~Active(p)
      BY <2>1, <3>1 DEF Aside
    <3>3. \A q \in Requests : pc'[q] \in {"idle", "done"}
      BY <1>1, <3>2 DEF Active
    <3>4. RowHonest
      BY <2>1, <3>2 DEF Aside, Active, Holding
    <3>5. RowHonest'
      BY <1>1, <1>4, <2>1, <2>4, <3>2, <3>4, OpComposeHonest, OpSaveHonest
    <3>6. op' = Idle \/ op'.read = row' \/ row'.status = "Error"
      <4>1. CASE OpCompose
        <5>1. op \in [kind : {"start", "stop", "favorite", "sync", "error"}, read : Rows]
          BY <1>1, <3>1 DEF TypeInv, TypeOK
        <5>2. row' = row /\ \E k \in {"sync", "error"} : op' = [op EXCEPT !.kind = k]
          BY <4>1 DEF OpCompose
        <5> QED BY <3>2, <5>1, <5>2
      <4>2. CASE OpSave
        BY <4>2 DEF OpSave
      <4> QED BY <2>4, <4>1, <4>2
    <3> QED BY <1>2, <3>2, <3>3, <3>5, <3>6, NoPhase DEF Aside
  <2> QED BY <2>2, <2>3, <2>4
<1> QED
  BY <1>3, <1>4 DEF TruthInv

\* The agent dies and starts again: nothing is under way, and what was shows.
LEMMA LifeTruth ==
    ASSUME ImagesInv, TruthInv, [Next]_vars, Crash \/ Restart
    PROVE  TruthInv'
<1>1. /\ UNCHANGED <<row, files, containers, data>> /\ op' = Idle
      /\ \A q \in Requests : pc'[q] \in {"idle", "done"}
  BY DEF Crash, Restart, Active, TruthInv, hostVars, opVars
<1>2. \A q \in Requests : Phase(q)' /\ ~Active(q)'
  BY <1>1, NoPhase DEF Active
<1>3. ASSUME Clean' PROVE RowHonest'
  <2>1. (Tolerated => Tolerated') /\ Aside /\ \A q \in Requests : Phase(q)
    BY <1>3, Remembered DEF TruthInv
  <2>2. CASE \A q \in Requests : ~Holding(q)
    BY <1>1, <2>1, <2>2, StillHonest DEF Aside
  <2>3. ASSUME NEW p \in Requests, Holding(p) PROVE RowHonest'
    <3>1. Active(p) /\ pc[p] \in Labels
      BY <2>3 DEF Holding, Active, ImagesInv, TypeInv, TypeOK
    <3>2. Record(UNION {Early(q) : q \in Requests})
      BY <3>1 DEF TruthInv, Crash, Restart
    <3>3. "early" \notin Early(p)
      BY <1>3, <3>2, Recorded DEF Clean
    <3>4. Early(p) = {}
      BY <3>3 DEF Early
    <3>5. RowHonest
      BY <2>1, <2>3, <3>1, <3>4, DiesHonest
    <3> QED BY <1>1, <2>1, <3>5, StillHonest
  <2> QED BY <2>2, <2>3
<1> QED
  BY <1>1, <1>2, <1>3 DEF TruthInv, Aside

\* A row that says Error says nothing untrue in any phase.
LEMMA PhaseInError ==
    ASSUME NEW q \in Requests, Phase(q), Tolerated => Tolerated', row'.status = "Error",
           pc'[q] = pc[q], ctx'[q] = ctx[q], UNCHANGED <<files, containers, data>>
    PROVE  Phase(q)'
<1>1. RowHonest'
  BY DEF RowHonest, Good
<1>2. RowOf(q)'
  BY <1>1 DEF RowOf
<1>3. Flags(q)' /\ Ahead(q)'
  BY DEF Phase, Flags, Ahead
<1>4. Secured(q) => Secured(q)'
  BY DEF Secured
<1>5. Restored(q) => Restored(q)'
  BY DEF Restored, Honest
<1> QED
  BY <1>2, <1>3, <1>4, <1>5 DEF Phase, Behind, Holding

\* SyncAll changes a row to Error, also when what it listed is no longer so.
LEMMA SyncTruth ==
    ASSUME ImagesInv, TruthInv, [Next]_vars, SyncList \/ SyncSave
    PROVE  TruthInv'
<1>1. UNCHANGED <<files, containers, data, pc, ctx, op, up>>
  BY DEF SyncList, SyncSave, hostVars, opVars
<1>2. row' = row \/ row'.status = "Error"
  <2>1. SyncSave => listed \in Rows
    BY DEF SyncSave, ImagesInv, TypeInv, TypeOK
  <2>2. listed \in Rows => SyncedRow.status = "Error"
    BY DEF SyncedRow, Rows
  <2> QED BY <2>1, <2>2 DEF SyncList, SyncSave
<1>3. \A p \in Requests : Active(p)' = Active(p) /\ Holding(p)' = Holding(p)
  BY <1>1 DEF Active, Holding
<1>4. ASSUME Clean' PROVE Aside' /\ \A q \in Requests : Phase(q)'
  <2>1. (Tolerated => Tolerated') /\ Aside /\ \A q \in Requests : Phase(q)
    BY <1>4, Remembered DEF TruthInv
  <2>2. \A q \in Requests : Phase(q)'
    BY <1>1, <1>2, <2>1, PhaseKept, PhaseInError
  <2>3. RowHonest => RowHonest'
    BY <1>1, <1>2, <2>1 DEF RowHonest, Good, Honest
  <2>4. Aside'
    BY <1>1, <1>2, <1>3, <2>1, <2>3 DEF Aside
  <2> QED BY <2>2, <2>4
<1> QED
  BY <1>1, <1>3, <1>4 DEF TruthInv

\* When no upgrade is under way and the row shows no error, the files and the containers
\* are of the row's version and no later one has migrated the data: a half-made upgrade,
\* whatever failed and wherever the agent died, always shows.
THEOREM RowTellsTheTruthHolds == Spec => []RowTellsTheTruth
<1>1. ImagesInv /\ TruthInv /\ [Next]_vars => TruthInv'
  <2> SUFFICES ASSUME ImagesInv, TruthInv, [Next]_vars PROVE TruthInv'
      OBVIOUS
  <2>1. CASE \E p \in Requests : Read(p) \/ Step(p)
    BY <2>1, ReadTruth, StepTruth
  <2>2. CASE OpRead \/ OpCompose \/ OpSave \/ UNCHANGED vars
    BY <2>2, OthersTruth
  <2>3. CASE Crash \/ Restart
    BY <2>3, LifeTruth
  <2>4. CASE SyncList \/ SyncSave
    BY <2>4, SyncTruth
  <2> QED BY <2>1, <2>2, <2>3, <2>4 DEF Next
<1>2. TruthInv => RowTellsTheTruth
  <2> SUFFICES ASSUME TruthInv, \A p \in Requests : pc[p] \in {"idle", "read", "done"},
                      row.status \in Good, Clean
               PROVE  Honest(row.version)
    BY DEF RowTellsTheTruth, Clean, Good, Honest, Tolerated
  <2> QED BY DEF TruthInv, Aside, Holding, RowHonest
<1> QED
  BY <1>1, <1>2, TruthInit, ImagesInit, ImagesStep, PTL DEF Spec

=============================================================================
