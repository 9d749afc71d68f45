--------------------------- MODULE HostSourceUse ---------------------------
(***************************************************************************)
(* The host around one SourceGate: the run registry, the Git operations,   *)
(* the crash and restart of the host they live in, and root reconnection   *)
(* by another process (project.rs rebind_root), which shares the files     *)
(* host.lock, run-use.lock, runs.json and git-operations.json with them.   *)
(*                                                                         *)
(* An operator named ...Mutant is a plausible defect of the definition     *)
(* after it; no action uses it, the properties are tested against it.      *)
(***************************************************************************)
EXTENDS RunRegistry, GitOperations

\* Plans, executions and start requests take their ids from new_id().
ASSUME HostAssumption == Plans \intersect RunIds = {} /\ Plans \intersect RunOperations = {}

VARIABLES host,     \* "down", or "up" once its locks are taken
          rebind,   \* where a root reconnection is
          root,     \* how often roots were reconnected: the saved binding
          runRoot,  \* the binding each reserved run was planned from
          gitRoot   \* the binding each queued operation was checked against

useFileVars == <<host, rebind, root, runRoot, gitRoot>>
hostVars == <<gateVars, registryVars, gitVars, useFileVars>>

RebindState == {"idle", "locked", "runs_read", "checked"}

HostTypeOK ==
    /\ RegistryTypeOK /\ GitTypeOK
    /\ host \in {"down", "up"} /\ rebind \in RebindState
    /\ root \in Nat
    /\ runRoot \in [RunIds -> Nat] /\ gitRoot \in [Plans -> Nat]

HostInit ==
    /\ RegistryInit /\ GitInit
    /\ host = "down" /\ rebind = "idle" /\ root = 0
    /\ runRoot = [r \in RunIds |-> 0] /\ gitRoot = [g \in Plans |-> 0]
-----------------------------------------------------------------------------
\* host.lock is taken exclusively, then shared, before anything is read; a
\* reconnection that holds it shared makes the start fail.
StartHost ==
    /\ host = "down" /\ rebind = "idle"
    /\ host' = "up"
    /\ UNCHANGED <<gateVars, registryVars, gitVars, rebind, root, runRoot, gitRoot>>

\* Actor::new: the Git side first, then the run registry.
OpenGit(ok) ==
    /\ host = "up" /\ registry = "down"
    /\ GitOpen(ok)
    /\ UNCHANGED <<registryVars, useFileVars>>

OpenRuns(gone, ok) ==
    /\ gitUp
    /\ Open(gone, ok)
    /\ UNCHANGED <<gitVars, useFileVars>>

\* Also the exit of a host whose start failed.
CrashHost ==
    /\ host = "up"
    /\ host' = "down"
    /\ RegistryLost /\ GitLost
    /\ gate' = [s \in Sources |-> DefaultGate]
    /\ lease' = [h \in Holders |-> NoLease]
    /\ UNCHANGED <<rebind, root, runRoot, gitRoot>>

RunUseFreeMutant == TRUE
\* The shared side of run-use.lock.
RunUseFree == rebind = "idle"

\* begin_reserve derives the plan again under the lock.
BeginRun ==
    /\ RunUseFree
    /\ BeginStep
    /\ runRoot' = [r \in RunIds |->
                     IF pending[r] = NoTicket /\ pending'[r] # NoTicket THEN root ELSE runRoot[r]]
    /\ UNCHANGED <<gitVars, host, rebind, root, gitRoot>>

RunWork == WorkerStep /\ UNCHANGED <<gitVars, useFileVars>>

\* execute compares the context with the saved binding under the lock.
BeginGit ==
    /\ RunUseFree /\ registry # "down"
    /\ ExecuteStep
    /\ gitRoot' = [g \in Plans |->
                     IF ~GitInUse(g) /\ GitInUse(g)' THEN root ELSE gitRoot[g]]
    /\ UNCHANGED <<registryVars, host, rebind, root, runRoot>>

GitWork ==
    /\ registry # "down"
    /\ GitStep
    /\ UNCHANGED <<registryVars, useFileVars>>

ProcessesExit ==
    \/ /\ \E r \in RunIds : ChildExits(r)
       /\ UNCHANGED <<gitVars, useFileVars>>
    \/ /\ \E g \in Plans : GitProcessExits(g)
       /\ UNCHANGED <<registryVars, useFileVars>>
-----------------------------------------------------------------------------
(* rebind_root, in the process of a client. *)

Rebinding(from, to) ==
    /\ rebind = from /\ rebind' = to
    /\ UNCHANGED <<gateVars, registryVars, gitVars, host, runRoot, gitRoot>>

RebindLock ==
    /\ \A r \in RunIds : ~InUse(r)
    /\ \A g \in Plans : ~GitInUse(g)
    /\ Rebinding("idle", "locked") /\ UNCHANGED root

RunsSettled == \A r \in Recorded(ledger) : ~Live(ledger[r]) /\ ledger[r].cleanup_confirmed
GitSettled == \A g \in Plans : gitLedger[g] # NoOp => Settled(gitLedger[g])

RebindReadRuns == RunsSettled /\ Rebinding("locked", "runs_read") /\ UNCHANGED root
RebindReadGit == GitSettled /\ Rebinding("runs_read", "checked") /\ UNCHANGED root
\* The rename of the new workspace; a later sync error changes nothing more.
RebindCommit == Rebinding("checked", "idle") /\ root' = root + 1

\* Refused by a ledger, by the revision, or killed: the locks go.
RebindEnds ==
    /\ \E from \in RebindState \ {"idle"} : Rebinding(from, "idle")
    /\ UNCHANGED root

Rebind == RebindLock \/ RebindReadRuns \/ RebindReadGit \/ RebindCommit \/ RebindEnds

HostNext ==
    \/ StartHost \/ CrashHost
    \/ \E ok \in BOOLEAN : OpenGit(ok) \/ \E gone \in SUBSET RunIds : OpenRuns(gone, ok)
    \/ BeginRun \/ RunWork \/ BeginGit \/ GitWork \/ ProcessesExit \/ Rebind

HostSpec == HostInit /\ [][HostNext]_hostVars
-----------------------------------------------------------------------------
(***************************************************************************)
(* A run or operation in use, or one whose processes still live, was       *)
(* planned from the binding that is saved now: roots are not reconnected   *)
(* under it, and no plan from before a reconnection is started after it    *)
(* (rebind_root, begin_reserve, execute).                                  *)
(***************************************************************************)
BindingCurrent ==
    /\ \A r \in RunIds : (InUse(r) \/ child[r] # NoTask) => runRoot[r] = root
    /\ \A g \in Plans : (GitInUse(g) \/ g \in gitProcess) => gitRoot[g] = root

\* The processes at work in a worktree, of this host and of earlier ones.
Processes == INSTANCE SourceUse WITH
    Users <- RunIds \union Plans,
    readers <- [s \in Sources |-> {r \in RunIds : child[r] # NoTask /\ SourceOf[child[r]] = s}],
    writer <- [s \in Sources |-> {g \in gitProcess \intersect Mutating : RepoOf[g] = s}]

(***************************************************************************)
(* The processes themselves obey the source-use contract, in every         *)
(* interleaving of starts, ends, failed saves, crashes, restarts and       *)
(* acknowledgements: no run is spawned while a switch or pull is at work   *)
(* in its worktree and none is spawned while a run is.                     *)
(***************************************************************************)
ProcessesObeyUse == Processes!UseSpec
=============================================================================
