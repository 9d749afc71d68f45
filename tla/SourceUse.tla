----------------------------- MODULE SourceUse -----------------------------
(***************************************************************************)
(* What the source-use contract promises (model.rs: "Host-owned source-use *)
(* contract shared by Git mutations and run startup"): on one worktree     *)
(* either any number of task executions are at work, or one Git mutation,  *)
(* never both.  The gate and the whole host are shown to implement it.     *)
(***************************************************************************)
CONSTANTS Sources,   \* worktree identities
          Users      \* executions and Git operations that may use one

VARIABLES readers,   \* readers[s]: the executions using worktree s
          writer     \* writer[s]: the mutation of s, as a set of at most one

useVars == <<readers, writer>>

UseInit ==
    /\ readers = [s \in Sources |-> {}]
    /\ writer = [s \in Sources |-> {}]

BeginRun(s, u) ==
    /\ writer[s] = {}
    /\ readers' = [readers EXCEPT ![s] = @ \union {u}]
    /\ UNCHANGED writer

BeginMutation(s, u) ==
    /\ readers[s] = {}
    /\ writer[s] = {}
    /\ writer' = [writer EXCEPT ![s] = {u}]
    /\ UNCHANGED readers

\* Any number of users may stop at once: a host that dies drops every lease.
End(gone) ==
    /\ readers' = [s \in Sources |-> readers[s] \ gone]
    /\ writer' = [s \in Sources |-> writer[s] \ gone]

UseNext ==
    \/ \E s \in Sources, u \in Users : BeginRun(s, u) \/ BeginMutation(s, u)
    \/ \E gone \in SUBSET Users : End(gone)

UseSpec == UseInit /\ [][UseNext]_useVars

(***************************************************************************)
(* Readers and a writer exclude each other, and writers are single.        *)
(***************************************************************************)
UseExclusion ==
    \A s \in Sources :
        /\ writer[s] # {} => readers[s] = {}
        /\ \A u, v \in writer[s] : u = v
=============================================================================
