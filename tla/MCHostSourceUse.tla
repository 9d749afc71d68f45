-------------------------- MODULE MCHostSourceUse --------------------------
(***************************************************************************)
(* One worktree with a task, a pull and a fetch, one reconnection of its   *)
(* root, and hosts that crash and start again, in two parts:               *)
(*   "use"  two execution workers for Git, none of which panics;           *)
(*   "pool" one, with which the pool dies, and no reconnection.            *)
(***************************************************************************)
EXTENDS HostSourceUse, TLC

CONSTANTS MaxGeneration,  \* mutations completed on the worktree in one host
          MaxRoot,        \* reconnections
          build, worktree

MCSourceOf == build :> worktree
MCRepoOf == [g \in Plans |-> worktree]

VARIABLE part
OneWorker == 1
Pool == INSTANCE HostSourceUse WITH GitExecutors <- OneWorker

MCInit ==
    /\ part \in {"use", "pool"}
    /\ IF part = "pool" THEN Pool!HostInit ELSE HostInit

MCNext ==
    /\ \/ part = "use" /\ HostNext /\ executeAlive' = GitExecutors
       \/ part = "pool" /\ Pool!HostNext /\ rebind' = "idle"
    /\ UNCHANGED part
    /\ \A s \in Sources : gate'[s].generation <= MaxGeneration
    /\ root' <= MaxRoot

MCSpec == MCInit /\ [][MCNext]_<<part, hostVars>>
=============================================================================
