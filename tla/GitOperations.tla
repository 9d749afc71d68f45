--------------------------- MODULE GitOperations ---------------------------
(***************************************************************************)
(* Git operations of the host: the actor's Bridge (host/git_bridge.rs,     *)
(* host/git_operation.rs) with the durable git-operations.json, and the    *)
(* execution workers (host/git_jobs.rs) inside GitService::execute_with    *)
(* (git/service.rs), which hold the source lease of a mutation.  A plan id *)
(* is the operation id, the lease's operation and the id of a block.       *)
(*                                                                         *)
(* An operator named ...Mutant is a plausible defect of the definition     *)
(* after it; no action uses it, the properties are tested against it.      *)
(***************************************************************************)
EXTENDS SourceGate, FiniteSets

CONSTANTS Plans,           \* sealed operation plans
          RepoOf,          \* the worktree of each plan's repository binding
          Mutating,        \* plans with requires_source_lease: switch and pull
          MaxActive,       \* operations in flight at once (4 in execute)
          GitExecutors,    \* execution workers (4 in workers)
          GitHistoryLimit, \* MAX_OPERATIONS
          NoOp             \* no operation under this id

ASSUME GitAssumption ==
    /\ Plans \subseteq Holders /\ Plans \subseteq Operations /\ Plans \subseteq BlockIds
    /\ RepoOf \in [Plans -> Sources]
    /\ Mutating \subseteq Plans
    /\ MaxActive \in Nat \ {0} /\ GitHistoryLimit \in Nat \ {0} /\ GitExecutors \in Nat \ {0}

VARIABLES plans,       \* Bridge.plans: plans that may still be executed
          operations,  \* Bridge.operations
          gitLedger,   \* git-operations.json
          executor,    \* executor[g]: where an execution worker is with g
          event,       \* event[g]: the event of g in the workers' channel
          gitProcess,  \* operations whose process tree lives
          gitUp,       \* the Bridge exists
          executeAlive,   \* execution workers that have not panicked
          executionsDead  \* the Bridge knows that none is left

poolVars == <<executeAlive, executionsDead>>
gitVars == <<plans, operations, gitLedger, executor, event, gitProcess, gitUp, poolVars>>

GitState == {"Pending", "Running", "Cancelling", "Complete", "Unknown"}

\* GitOperationInfo and Operation: active is finished_at.is_none(), terminal
\* is terminal.is_some(), executed is set when a terminal was installed.
Operation == [state : GitState, acknowledged : BOOLEAN, active : BOOLEAN,
              executed : BOOLEAN, terminal : BOOLEAN, cancelled : BOOLEAN]
GitRecord == [state : GitState, acknowledged : BOOLEAN]

ASSUME GitSentinelAssumption == NoOp \notin Operation \union GitRecord

\* What execute_with returns: an outcome, Unknown, or an error.
Results == {"known", "unknown", "error"}
Returned == {<<"returned", result>> : result \in Results}
GitEvent == {<<"terminal">>} \union {<<"executed", result>> : result \in Results}
NoEvent == <<>>

\* "sent" is between the Executed event and the drop of the file lock.
ExecutorState ==
    {<<"none">>, <<"queued">>, <<"leased">>, <<"spawned">>, <<"reaped">>, <<"sent">>}
        \union Returned

GitTypeOK ==
    /\ plans \subseteq Plans
    /\ operations \in [Plans -> Operation \union {NoOp}]
    /\ gitLedger \in [Plans -> GitRecord \union {NoOp}]
    /\ executor \in [Plans -> ExecutorState]
    /\ event \in [Plans -> GitEvent \union {NoEvent}]
    /\ gitProcess \subseteq Plans
    /\ gitUp \in BOOLEAN
    /\ executeAlive \in 0..GitExecutors /\ executionsDead \in BOOLEAN

GitInit ==
    /\ plans = {}
    /\ operations = [g \in Plans |-> NoOp]
    /\ gitLedger = [g \in Plans |-> NoOp]
    /\ executor = [g \in Plans |-> <<"none">>]
    /\ event = [g \in Plans |-> NoEvent]
    /\ gitProcess = {}
    /\ gitUp = FALSE
    /\ executeAlive = GitExecutors /\ executionsDead = FALSE
-----------------------------------------------------------------------------
Known == {g \in Plans : operations[g] # NoOp}
ActiveOps == {g \in Known : operations[g].active}

\* Complete, or unknown and acknowledged: what rotation and reconnection
\* take for harmless.
Settled(record) ==
    record.state = "Complete" \/ (record.state = "Unknown" /\ record.acknowledged)

\* The worker's shared run-use lock, from before Pending until after Executed.
GitInUse(g) == executor[g] # <<"none">>

WrittenMutant(ops) ==
    [g \in Plans |-> IF ops[g] = NoOp \/ ops[g].active THEN NoOp
                     ELSE [state |-> ops[g].state, acknowledged |-> ops[g].acknowledged]]
\* The records persist writes, of operations in flight too.
Written(ops) ==
    [g \in Plans |-> IF ops[g] = NoOp THEN NoOp
                     ELSE [state |-> ops[g].state, acknowledged |-> ops[g].acknowledged]]

\* Bridge::persist: an error leaves the old content or the attempted one.
SaveGit(ops, ok) ==
    IF ok THEN gitLedger' = Written(ops) ELSE gitLedger' \in {gitLedger, Written(ops)}

\* Saves whose error is only reported: memory keeps the change.
SaveAnyway(ops) ==
    /\ operations' = ops
    /\ gitLedger' \in {gitLedger, Written(ops)}

Fresh == [state |-> "Pending", acknowledged |-> FALSE, active |-> TRUE,
          executed |-> FALSE, terminal |-> FALSE, cancelled |-> FALSE]

\* Operation::finish.
Finished(op, result) ==
    IF op.terminal THEN [op EXCEPT !.state = "Unknown"]
    ELSE [op EXCEPT !.active = FALSE,
                    !.state = IF result = "known" \/ (result = "error" /\ ~op.executed)
                              THEN "Complete" ELSE "Unknown"]

\* Repo.busy, from execute to Executed.
RepoBusy(s) == \E g \in ActiveOps : RepoOf[g] = s

\* A worker has nothing in its hands.
FreeWorker ==
    Cardinality({g \in Plans : executor[g] \notin {<<"none">>, <<"queued">>}}) < executeAlive
-----------------------------------------------------------------------------
\* A preparation job published a plan under a fresh id.
Plan(g) ==
    /\ gitUp /\ g \notin plans
    /\ operations[g] = NoOp /\ gitLedger[g] = NoOp
    /\ g \notin gitProcess /\ ~GitInUse(g)
    /\ plans' = plans \union {g}
    /\ UNCHANGED <<gateVars, operations, gitLedger, executor, event, gitProcess, gitUp, poolVars>>

\* The one operation that makes room at the history limit.
Forgettable(gone) ==
    \E k \in Known : gone = {k} /\ ~operations[k].active /\ Settled(operations[k])

\* execute: at the history limit one settled operation makes room; the
\* record is durable before the work is queued, and the plan is used up.
\* Without a worker the channel takes no work and the operation ends at once.
Execute(g, gone, ok) ==
    LET kept == [k \in Plans |-> IF k \in gone THEN NoOp ELSE operations[k]]
        begun == [kept EXCEPT ![g] = Fresh]
        refused == [kept EXCEPT ![g] = Finished(Fresh, "error")]
    IN
    /\ gitUp /\ ~executionsDead /\ g \in plans /\ g \notin Known
    /\ Cardinality(ActiveOps) < MaxActive
    /\ IF Cardinality(Known) < GitHistoryLimit THEN gone = {} ELSE Forgettable(gone)
    /\ ~RepoBusy(RepoOf[g])
    /\ plans' = IF ok THEN plans \ {g} ELSE plans
    /\ \/ /\ ok => executeAlive > 0
          /\ SaveGit(begun, ok)
          /\ operations' = IF ok THEN begun ELSE kept
          /\ executor' = IF ok THEN [executor EXCEPT ![g] = <<"queued">>] ELSE executor
       \/ /\ ok /\ executeAlive = 0
          /\ operations' = refused /\ gitLedger' \in {Written(begun), Written(refused)}
          /\ UNCHANGED executor
    /\ UNCHANGED <<gateVars, event, gitProcess, gitUp, poolVars>>

\* execute refuses the plan after it made room, without a save.
ExecuteRefused(gone) ==
    /\ gitUp /\ ~executionsDead /\ Cardinality(ActiveOps) < MaxActive
    /\ Cardinality(Known) >= GitHistoryLimit /\ Forgettable(gone)
    /\ operations' = [k \in Plans |-> IF k \in gone THEN NoOp ELSE operations[k]]
    /\ UNCHANGED <<gateVars, plans, gitLedger, executor, event, gitProcess, gitUp, poolVars>>

\* execute_with up to the reservation; operations that leave the worktree
\* alone take no lease.
Reserve(g) ==
    /\ executor[g] = <<"queued">> /\ FreeWorker
    /\ executor' = [executor EXCEPT ![g] = <<"leased">>]
    /\ IF g \in Mutating THEN ReserveMutation(g, RepoOf[g], g) ELSE UNCHANGED gateVars
    /\ UNCHANGED <<plans, operations, gitLedger, event, gitProcess, gitUp, poolVars>>

ReserveRefused(g) ==
    /\ executor[g] = <<"queued">> /\ FreeWorker
    /\ g \in Mutating /\ ~MutationAdmitted(gate[RepoOf[g]])
    /\ executor' = [executor EXCEPT ![g] = <<"returned", "error">>]
    /\ UNCHANGED <<gateVars, plans, operations, gitLedger, event, gitProcess, gitUp, poolVars>>

\* The return of execute_with, which drops the lease.
Return(g, result) ==
    /\ executor' = [executor EXCEPT ![g] = <<"returned", result>>]
    /\ IF Holds(g) THEN DropLease(g) ELSE UNCHANGED gateVars
    /\ UNCHANGED <<plans, operations, gitLedger, event, gitProcess, gitUp, poolVars>>

\* Revalidation fails ("error"), the process cannot be created ("unknown"),
\* or the runner finds the operation cancelled.
ReturnUnspawned(g) ==
    /\ executor[g] = <<"leased">>
    /\ \/ \E result \in {"error", "unknown"} : Return(g, result)
       \/ operations[g].cancelled /\ Return(g, "known")

\* The runner creates the process and hands its terminal to the actor.
SpawnGit(g) ==
    /\ executor[g] = <<"leased">> /\ ~operations[g].cancelled
    /\ executor' = [executor EXCEPT ![g] = <<"spawned">>]
    /\ event' = [event EXCEPT ![g] = <<"terminal">>]
    /\ gitProcess' = gitProcess \union {g}
    /\ UNCHANGED <<gateVars, plans, operations, gitLedger, gitUp, poolVars>>

\* The outcome arrives and the repository is read again.
ReturnReaped(g) ==
    /\ executor[g] = <<"reaped">>
    /\ \E result \in {"known", "unknown"} : Return(g, result)

SendExecuted(g) ==
    /\ \E result \in Results :
          /\ executor[g] = <<"returned", result>>
          /\ event' = [event EXCEPT ![g] = <<"executed", result>>]
    /\ executor' = [executor EXCEPT ![g] = <<"sent">>]
    /\ UNCHANGED <<gateVars, plans, operations, gitLedger, gitProcess, gitUp, poolVars>>

DropRunUse(g) ==
    /\ executor[g] = <<"sent">>
    /\ executor' = [executor EXCEPT ![g] = <<"none">>]
    /\ UNCHANGED <<gateVars, plans, operations, gitLedger, event, gitProcess, gitUp, poolVars>>

\* A worker panics in execute_with, before it has created a process or after
\* the outcome arrived: what it holds is dropped.  In between it only waits.
\* The last one takes the channel with it, and the work queued there.
ExecutorPanics(g) ==
    /\ \/ executor[g] \in {<<"leased">>, <<"reaped">>}
       \/ executor[g] = <<"queued">> /\ FreeWorker
    /\ executeAlive' = executeAlive - 1
    /\ executor' = [k \in Plans |->
          IF k = g \/ (executeAlive = 1 /\ executor[k] = <<"queued">>) THEN <<"none">> ELSE executor[k]]
    /\ IF Holds(g) THEN DropLease(g) ELSE UNCHANGED gateVars
    /\ UNCHANGED <<plans, operations, gitLedger, event, gitProcess, gitUp, executionsDead>>
-----------------------------------------------------------------------------
\* Event::Terminal in tick: the actor owns the process from here on.
TerminalArrives(g) ==
    /\ gitUp /\ event[g] = <<"terminal">>
    /\ event' = [event EXCEPT ![g] = NoEvent]
    /\ SaveAnyway([operations EXCEPT ![g] =
          [@ EXCEPT !.terminal = TRUE, !.executed = TRUE,
                    !.state = IF operations[g].cancelled THEN "Cancelling" ELSE "Running"]])
    /\ UNCHANGED <<gateVars, plans, executor, gitProcess, gitUp, poolVars>>

\* Operation::tick after the whole process tree was found gone.
Reap(g) ==
    /\ gitUp /\ operations[g] # NoOp /\ operations[g].terminal /\ g \notin gitProcess
    /\ executor[g] = <<"spawned">>
    /\ operations' = [operations EXCEPT ![g].terminal = FALSE]
    /\ executor' = [executor EXCEPT ![g] = <<"reaped">>]
    /\ UNCHANGED <<gateVars, plans, gitLedger, event, gitProcess, gitUp, poolVars>>

\* Event::Executed in tick.
ExecutedArrives(g) ==
    /\ gitUp
    /\ \E result \in Results :
          /\ event[g] = <<"executed", result>>
          /\ IF g \in Known THEN SaveAnyway([operations EXCEPT ![g] = Finished(@, result)])
             ELSE UNCHANGED <<operations, gitLedger>>
    /\ event' = [event EXCEPT ![g] = NoEvent]
    /\ UNCHANGED <<gateVars, plans, executor, gitProcess, gitUp, poolVars>>

\* What the death of the pool ends: operations without a process, and those
\* whose process was reaped. A result may still be on its way.
EndedByDeath ==
    [g \in Plans |-> IF g \in ActiveOps /\ ~operations[g].terminal
                     THEN Finished(operations[g], "error") ELSE operations[g]]

\* tick finds the pool dead.
ExecutionsDie ==
    /\ gitUp /\ ~executionsDead /\ executeAlive = 0
    /\ executionsDead' = TRUE
    /\ IF EndedByDeath # operations THEN SaveAnyway(EndedByDeath)
       ELSE UNCHANGED <<operations, gitLedger>>
    /\ UNCHANGED <<gateVars, plans, executor, event, gitProcess, gitUp, executeAlive>>

\* GitOperationCancel by the owner of the operation's input.
CancelGit(g) ==
    /\ gitUp /\ g \in ActiveOps
    /\ SaveAnyway([operations EXCEPT ![g] = [@ EXCEPT !.cancelled = TRUE, !.state = "Cancelling"]])
    /\ UNCHANGED <<gateVars, plans, executor, event, gitProcess, gitUp, poolVars>>

\* GitOperationReconcile; its premise is that the user found no process left.
ReconcileGit(g, ok) ==
    LET acknowledged == [operations EXCEPT ![g].acknowledged = TRUE] IN
    /\ gitUp /\ g \in Known
    /\ operations[g].state = "Unknown" /\ ~operations[g].active
    /\ g \notin gitProcess
    /\ SaveGit(acknowledged, ok)
    /\ operations' = IF ok THEN acknowledged ELSE operations
    /\ IF ok THEN Unblock(RepoOf[g], g) ELSE UNCHANGED gateVars
    /\ UNCHANGED <<plans, executor, event, gitProcess, gitUp, poolVars>>

GitProcessExits(g) ==
    /\ g \in gitProcess
    /\ gitProcess' = gitProcess \ {g}
    /\ UNCHANGED <<gateVars, plans, operations, gitLedger, executor, event, gitUp, poolVars>>
-----------------------------------------------------------------------------
\* Bridge::new: whatever is not complete is of unknown fate.
Restored(record) ==
    [state |-> IF record.state = "Complete" THEN "Complete" ELSE "Unknown",
     acknowledged |-> record.acknowledged,
     active |-> FALSE, executed |-> FALSE, terminal |-> FALSE, cancelled |-> FALSE]

RestoredAll == [g \in Plans |-> IF gitLedger[g] = NoOp THEN NoOp ELSE Restored(gitLedger[g])]

\* unresolved_sources
UnresolvedSources(ops) ==
    {g \in Plans : ops[g] # NoOp /\ ops[g].state = "Unknown" /\ ~ops[g].acknowledged}

\* Bridge::new and the blocks Actor::new sets before any run can start.
GitOpen(ok) ==
    /\ ~gitUp
    /\ SaveGit(RestoredAll, ok)
    /\ gitUp' = ok
    /\ executeAlive' = GitExecutors /\ executionsDead' = FALSE
    /\ IF ok
       THEN /\ operations' = RestoredAll
            /\ gate' = [s \in Sources |->
                 [gate[s] EXCEPT !.blocks = @ \union {g \in UnresolvedSources(RestoredAll) : RepoOf[g] = s}]]
       ELSE UNCHANGED <<operations, gate>>
    /\ UNCHANGED <<lease, plans, executor, event, gitProcess>>

\* The host process ends.
GitLost ==
    /\ plans' = {}
    /\ operations' = [g \in Plans |-> NoOp]
    /\ executor' = [g \in Plans |-> <<"none">>]
    /\ event' = [g \in Plans |-> NoEvent]
    /\ gitUp' = FALSE
    /\ executeAlive' = GitExecutors /\ executionsDead' = FALSE
    /\ UNCHANGED <<gitLedger, gitProcess>>

\* Requests that first take the shared run-use lock.
ExecuteStep ==
    \/ \E g \in Plans, gone \in SUBSET Plans, ok \in BOOLEAN : Execute(g, gone, ok)
    \/ \E gone \in SUBSET Plans : ExecuteRefused(gone)

GitStep ==
    \/ ExecutionsDie
    \/ \E g \in Plans, ok \in BOOLEAN : ReconcileGit(g, ok)
    \/ \E g \in Plans :
          \/ Plan(g) \/ Reserve(g) \/ ReserveRefused(g) \/ ReturnUnspawned(g) \/ SpawnGit(g)
          \/ ReturnReaped(g) \/ SendExecuted(g) \/ DropRunUse(g) \/ ExecutorPanics(g)
          \/ TerminalArrives(g) \/ Reap(g) \/ ExecutedArrives(g) \/ CancelGit(g)
-----------------------------------------------------------------------------
(***************************************************************************)
(* The process tree of a Git operation never lives without a durable       *)
(* record that keeps its worktree closed in the next host (Pending before  *)
(* the work is queued, Complete only after reaping).                       *)
(***************************************************************************)
GitDurableCover ==
    \A g \in gitProcess : gitLedger[g] # NoOp /\ ~Settled(gitLedger[g])

(***************************************************************************)
(* The lease of a switch or pull outlives its process: "No timeout or      *)
(* optimistic cancellation result releases the service's source lease      *)
(* while the owned child is still alive" (git_jobs.rs).                    *)
(***************************************************************************)
LeaseOverProcess ==
    \A g \in gitProcess \intersect Mutating :
        (gitUp /\ g \in ActiveOps) => lease[g] = MutationLease(RepoOf[g], g)

(***************************************************************************)
(* One repository has one operation in flight (Repo.busy in execute).      *)
(***************************************************************************)
OneOperationPerRepository ==
    \A g, k \in ActiveOps : g # k => RepoOf[g] # RepoOf[k]

(***************************************************************************)
(* The actor still knows every operation whose events the workers will     *)
(* send: rotation never takes one (execute, MAX_OPERATIONS).  Only results *)
(* that are on their way when the pool is found dead come too late.        *)
(***************************************************************************)
EventsHaveOperation ==
    \A g \in Plans :
        \/ g \in ActiveOps
        \/ executionsDead /\ event[g] # <<"terminal">>
        \/ event[g] = NoEvent /\ executor[g] \in {<<"none">>, <<"sent">>}

(***************************************************************************)
(* A worktree with an operation left by an earlier host stays blocked      *)
(* until that operation is acknowledged, whatever runs are finished,       *)
(* published or acknowledged meanwhile (Actor::new, GitOperationReconcile).*)
(***************************************************************************)
UnknownStaysBlocked ==
    gitUp => \A g \in gitProcess :
        g \notin ActiveOps => g \in gate[RepoOf[g]].blocks

(***************************************************************************)
(* Once the workers are known to be dead no operation waits for them: its  *)
(* repository would stay busy and the host could not be closed             *)
(* (git_bridge.rs:1172, check_close).                                      *)
(***************************************************************************)
DeadPoolOwesNothing == executionsDead => ActiveOps = {}

\* Around the process of a Git operation: a record that keeps its worktree
\* closed in the next host, the lease, one operation per repository, none
\* forgotten while its events are on their way, none waiting for workers that
\* died, and a block until an unknown fate is acknowledged (git_bridge.rs:863,
\* git_bridge.rs:1110, git_bridge.rs:1172, actor.rs:220).
GitSafety ==
  /\ GitDurableCover /\ LeaseOverProcess /\ UnknownStaysBlocked
  /\ OneOperationPerRepository /\ EventsHaveOperation /\ DeadPoolOwesNothing
=============================================================================
