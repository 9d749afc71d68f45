----------------------------- MODULE MCRunHost -----------------------------
(***************************************************************************)
(* One host, two start requests, and up to two executions, in three parts: *)
(*   "tasks"  two tasks that a process runs, started at once;              *)
(*   "joined" the same request sent twice, with a slot of its own each,    *)
(*            and a cancellation by run id;                                *)
(*   "shell"  one task that a managed shell runs, with forced closes and   *)
(*            the death of the worker that prepares shells.                *)
(* No task is bound to a worktree, so the gate stays out of the way.       *)
(***************************************************************************)
EXTENDS RunHostParts

CONSTANTS j1, j2, o1, o2, build, r1, r2

MCJobOperation == [j \in Jobs |-> IF j = j1 THEN o1 ELSE o2]
MCJobRun == [j \in Jobs |-> IF j = j1 THEN r1 ELSE r2]
MCJobTask == [j \in Jobs |-> build]
MCSourceOf == [t \in Tasks |-> NoSource]

OneOperation == [j \in Jobs |-> o1]
Joined == INSTANCE RunHost WITH JobOperation <- OneOperation, AskedRuns <- {r2}
Shell == INSTANCE RunHost WITH
           ShellTasks <- Tasks, Forces <- BOOLEAN, LaunchMayDie <- TRUE, AskedRuns <- {r1}

partVars == <<part, runHostVars>>
PartInit == part \in {"tasks", "joined", "shell"} /\ RunHostInit
PartNext ==
  /\ \/ part = "tasks" /\ RunHostNext
     \/ part = "joined" /\ Joined!RunHostNext
     \/ part = "shell" /\ Shell!RunHostNext /\ jobs'[j2] = jobs[j2]
  /\ UNCHANGED part

PartSpec == PartInit /\ [][PartNext]_partVars
TaskSpec == PartInit /\ part = "tasks" /\ [][PartNext]_partVars
=============================================================================
