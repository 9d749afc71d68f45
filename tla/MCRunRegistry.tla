--------------------------- MODULE MCRunRegistry ---------------------------
(***************************************************************************)
(* Two tasks of one worktree, one of them with build outputs, a task of no *)
(* repository, and a Git mutation beside them, through crashes and saves   *)
(* that fail or half fail.                                                 *)
(***************************************************************************)
EXTENDS RunRegistry, TLC

CONSTANTS MaxGeneration,   \* mutations completed on the worktree
          build, lint, notes, \* tasks
          worktree

MCSourceOf == build :> worktree @@ lint :> worktree @@ notes :> NoSource
MCOverlaps == {<<build, build>>}

MCNext == RegistryNext /\ \A s \in Sources : gate'[s].generation <= MaxGeneration
MCSpec == RegistryInit /\ [][MCNext]_vars
Symmetry == Permutations(RunIds) \union Permutations(RunOperations)
=============================================================================
