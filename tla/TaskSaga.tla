------------------------------ MODULE TaskSaga ------------------------------
(***************************************************************************)
(* What the task engine promises the services that hand it subtasks: a run *)
(* is a saga.  It takes its steps in order and commits when every step     *)
(* that may not fail is done; or it takes back, step by step, what can be  *)
(* taken back, and aborts only when nothing reversible is left.  The death *)
(* of the process ends a run without either.                               *)
(***************************************************************************)
EXTENDS Naturals, Sequences

CONSTANTS Subs,     \* the numbers of the steps
          SubTask   \* what a step is: at least the fields ignoreErr and rollback

VARIABLES plan,     \* the steps of the run
          phase,    \* "none", "open", "undoing", "committed" or "aborted"
          done      \* the steps whose effect stands

vars == <<plan, phase, done>>

Init == plan = <<>> /\ phase = "none" /\ done = {}

\* A run begins with all of its steps.
Begin ==
    /\ phase = "none" /\ phase' = "open"
    /\ plan' \in Seq(SubTask) /\ DOMAIN plan' \subseteq Subs
    /\ done' = {}

\* A step succeeds: no step before it is missing, no later one was taken.
Do(i) ==
    /\ phase = "open" /\ i \in DOMAIN plan
    /\ \A j \in DOMAIN plan : j < i => j \in done \/ plan[j].ignoreErr
    /\ \A j \in done : j < i
    /\ done' = done \cup {i}
    /\ UNCHANGED <<plan, phase>>

\* Some step failed for good.
Fail == phase = "open" /\ phase' = "undoing" /\ UNCHANGED <<plan, done>>

Undo(i) ==
    /\ phase = "undoing" /\ i \in done /\ plan[i].rollback
    /\ done' = done \ {i}
    /\ UNCHANGED <<plan, phase>>

Commit ==
    /\ phase = "open" /\ phase' = "committed"
    /\ \A i \in DOMAIN plan : i \in done \/ plan[i].ignoreErr
    /\ UNCHANGED <<plan, done>>

Abort ==
    /\ phase = "undoing" /\ phase' = "aborted"
    /\ \A i \in done : ~plan[i].rollback
    /\ UNCHANGED <<plan, done>>

\* The result is dropped for the next run, or the process dies.
Leave ==
    /\ phase # "none" /\ phase' = "none"
    /\ plan' = <<>> /\ done' = {}

Next ==
    \/ Begin \/ Fail \/ Commit \/ Abort \/ Leave
    \/ \E i \in Subs : Do(i) \/ Undo(i)

Spec == Init /\ [][Next]_vars
=============================================================================
