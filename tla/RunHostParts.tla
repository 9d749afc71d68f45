---------------------------- MODULE RunHostParts ----------------------------
(***************************************************************************)
(* The properties of a host by the part it plays in a run of the model     *)
(* checker: "shell" is the one with managed shells, whose bootstrap and    *)
(* whose preparing worker may fail (MCRunHost.tla); in every other part    *)
(* ShellTasks is empty and LaunchMayDie is FALSE.                          *)
(***************************************************************************)
EXTENDS RunHost

VARIABLE part

\* Runs that need no shell keep someone who owes their end; with a shell they
\* do not when the preparing worker dies (actor.rs:1838, see README.md).
TaskOwedFinish == part # "shell" => OwedFinish

\* The same of signals: a shell that refuses its bootstrap is signalled
\* without a durable cancellation (actor.rs:1944, see README.md).
TaskSignalAfterDurableCancel == part # "shell" => SignalAfterDurableCancel

\* A host that ends leaves nothing of a run behind, save a shell task whose
\* preparing worker died (Actor::finished).
TaskFinishedLosesNothing == part # "shell" => FinishedLosesNothing

\* The actor and the worker agree on the jobs under way: the ones outstanding
\* are counted, none is forgotten, and an end is reported after the last
\* process is reaped (run_jobs.rs:250, run_jobs.rs:1063, actor.rs:1626).
HostBookkeeping ==
  OutstandingCounts /\ JobsNotForgotten /\ FinishAfterReap /\ TaskFinishedLosesNothing
=============================================================================
