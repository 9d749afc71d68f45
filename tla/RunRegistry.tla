---------------------------- MODULE RunRegistry ----------------------------
(***************************************************************************)
(* The RunRegistry of run.rs as its one worker thread (host/run_jobs.rs)   *)
(* drives it: reserved starts, the records in memory, the durable          *)
(* runs.json, the source leases of the shared SourceGate, and the process  *)
(* trees of the runs, which outlive a host that dies.                      *)
(*                                                                         *)
(* Every write goes through Store::write_state, which renames the new file *)
(* into place and then syncs the directory: an error may come back before  *)
(* or after the new content became visible.                                *)
(*                                                                         *)
(* An operator named ...Mutant is a plausible defect of the definition     *)
(* after it; no action uses it, the properties are tested against it.      *)
(***************************************************************************)
EXTENDS SourceGate, FiniteSets

CONSTANTS RunIds,        \* ids new_id() gives to executions
          RunOperations, \* operation ids of start requests; the rest are Git plans
          Tasks,         \* registered tasks, each with its launch digest
          SourceOf,      \* the worktree a task's project is bound to, or NoSource
          NoSource,
          Overlaps,      \* pairs of tasks whose build outputs contain one another
          HistoryLimit,  \* HISTORY_LIMIT: unpinned records and pending starts
          NoRun,         \* no record under this id
          NoTicket,      \* no reserved start under this id
          NoTask         \* no process under this id

ASSUME RegistryAssumption ==
    /\ RunIds \subseteq Holders
    /\ RunOperations \subseteq Operations
    /\ NoSource \notin Sources
    /\ SourceOf \in [Tasks -> Sources \union {NoSource}]
    /\ Overlaps \subseteq Tasks \X Tasks
    /\ \A t, u \in Tasks : <<t, u>> \in Overlaps => <<u, t>> \in Overlaps
    /\ HistoryLimit \in Nat \ {0}
    /\ NoTask \notin Tasks

VARIABLES runs,       \* RunRegistry.runs: the record of each execution
          ledger,     \* the records in runs.json
          pending,    \* pending_starts, with the BeginTicket in the worker
          active,     \* RunRegistry.active
          published,  \* worktrees this registry made ready
          starting,   \* where in spawn_start the worker is, or NoRun
          registry,   \* life of the registry in this host
          child       \* child[r]: the task whose processes live under run r

registryVars == <<runs, ledger, pending, active, published, starting, registry, child>>
vars == <<gateVars, registryVars>>

LiveState == {"Preparing", "Running", "Cancelling"}
RunState == LiveState \union {"Succeeded", "Failed", "Cancelled", "Unknown"}

RunRecord == [operation : RunOperations, task : Tasks, state : RunState,
              cancel_requested : BOOLEAN, cleanup_confirmed : BOOLEAN]
Ticket == [operation : RunOperations, task : Tasks]

\* An Active entry: "owned" with its lease, "finishing" with its lease and
\* an end the host has reported, "released" after the durable outcome.
ActiveState == {"none", "owned", "finishing", "released"}

\* spawn_start before and after the process of its run exists, or after its
\* creation failed.
StartStep == [run : RunIds, step : {"begun", "spawned", "failed"}]
At(r, step) == starting = [run |-> r, step |-> step]

ASSUME SentinelAssumption ==
    /\ NoRun \notin RunRecord \union StartStep
    /\ NoTicket \notin Ticket

\* "dying" and "unlisted" are the points inside Drop for RunRegistry.
RegistryState == {"down", "open", "dying", "unlisted", "lost"}

RegistryTypeOK ==
    /\ GateTypeOK
    /\ runs \in [RunIds -> RunRecord \union {NoRun}]
    /\ ledger \in [RunIds -> RunRecord \union {NoRun}]
    /\ pending \in [RunIds -> Ticket \union {NoTicket}]
    /\ active \in [RunIds -> ActiveState]
    /\ published \in SUBSET Sources
    /\ starting \in StartStep \union {NoRun}
    /\ registry \in RegistryState
    /\ child \in [RunIds -> Tasks \union {NoTask}]

RegistryInit ==
    /\ GateInit
    /\ runs = [r \in RunIds |-> NoRun]
    /\ ledger = [r \in RunIds |-> NoRun]
    /\ pending = [r \in RunIds |-> NoTicket]
    /\ active = [r \in RunIds |-> "none"]
    /\ published = {}
    /\ starting = NoRun
    /\ registry = "down"
    /\ child = [r \in RunIds |-> NoTask]
-----------------------------------------------------------------------------
Recorded(book) == {r \in RunIds : book[r] # NoRun}
Live(run) == run.state \in LiveState
Unresolved(run) == run.state = "Unknown" /\ ~run.cleanup_confirmed
PendingIds == {r \in RunIds : pending[r] # NoTicket}

\* The worker handles one thing at a time.
Idle == registry = "open" /\ starting = NoRun

\* The file locks and leases of a run: its ticket, or its Active entry.
InUse(r) == pending[r] # NoTicket \/ active[r] \in {"owned", "finishing"}

\* write_state: an error leaves the old content or the attempted one.
Save(attempt, ok) == IF ok THEN ledger' = attempt ELSE ledger' \in {ledger, attempt}

Without(book, gone) == [r \in RunIds |-> IF r \in gone THEN NoRun ELSE book[r]]

\* can_rotate; a record without Active entry or with a finished one.
CanRotate(r) ==
    /\ runs[r] # NoRun
    /\ ~Live(runs[r]) /\ runs[r].cleanup_confirmed
    /\ active[r] # "finishing"

PublishableMutant(book, s) ==
    ~\E r \in Recorded(book) : Live(book[r]) /\ SourceOf[book[r].task] = s
\* publish_source: an execution of unknown fate keeps its worktree closed.
Publishable(book, s) ==
    ~\E r \in Recorded(book) : Unresolved(book[r]) /\ SourceOf[book[r].task] = s

ReadyFor(g, s) == [g EXCEPT ![s] = WithProvider(@, TRUE)]

\* Dropping the lease of one holder, or of nobody when it has none.
DropOne(h) ==
    /\ gate' = IF Holds(h) THEN AfterDrop(gate, lease[h]) ELSE gate
    /\ lease' = [lease EXCEPT ![h] = NoLease]

\* Dropping the run leases of several holders of one map.
DropRuns(hs) ==
    /\ gate' = [s \in Sources |->
                  [gate[s] EXCEPT !.runs = @ \ {lease[h].operation :
                      h \in {k \in hs : Holds(k) /\ lease[k].identity = s}}]]
    /\ lease' = [h \in Holders |-> IF h \in hs THEN NoLease ELSE lease[h]]
-----------------------------------------------------------------------------
(* RunRegistry::begin_reserve *)

\* A repeated operation id finds its record, or its start being prepared.
OperationNew(op) ==
    /\ \A r \in Recorded(runs) : runs[r].operation # op
    /\ \A r \in PendingIds : pending[r].operation # op

\* Without parallel a live or prepared execution of the task is joined; one
\* of unknown fate refuses the task in any case.
TaskFreeMutant(t, parallel) ==
    ~parallel => /\ \A r \in Recorded(runs) : runs[r].task = t => ~Live(runs[r])
                 /\ \A r \in PendingIds : pending[r].task # t
TaskFree(t, parallel) ==
    /\ ~parallel => /\ \A r \in Recorded(runs) : runs[r].task = t => ~Live(runs[r])
                    /\ \A r \in PendingIds : pending[r].task # t
    /\ \A r \in Recorded(runs) : runs[r].task = t => ~Unresolved(runs[r])

OutputsFreeMutant(t) ==
    \A r \in Recorded(runs) : Live(runs[r]) => <<t, runs[r].task>> \notin Overlaps
OutputsFree(t) ==
    /\ \A r \in Recorded(runs) : (Live(runs[r]) \/ Unresolved(runs[r]))
            => <<t, runs[r].task>> \notin Overlaps
    /\ \A r \in PendingIds : <<t, pending[r].task>> \notin Overlaps

\* The refusals that change nothing.
BeginAdmitted(op, t, parallel) == OperationNew(op) /\ TaskFree(t, parallel) /\ OutputsFree(t)

\* cleanup_retired, expire_history and the rotation that makes room: any
\* finished records may go, and each removal is saved before it counts.
HistoryCut(gone) ==
    /\ gone \subseteq {r \in RunIds : CanRotate(r)}
    /\ runs' = Without(runs, gone)
    /\ active' = [r \in RunIds |-> IF r \in gone THEN "none" ELSE active[r]]
    /\ IF gone = {} THEN ledger' \in {ledger, runs} ELSE ledger' = runs'

RoomAfter(gone) ==
    Cardinality(Recorded(runs) \ gone) + Cardinality(PendingIds) < HistoryLimit

Unissued(r) ==
    /\ runs[r] = NoRun /\ ledger[r] = NoRun /\ pending[r] = NoTicket
    /\ active[r] = "none" /\ child[r] = NoTask /\ ~Holds(r)

BeginReserve(r, op, t, parallel, gone) ==
    LET s == SourceOf[t] IN
    /\ Idle /\ Unissued(r)
    /\ BeginAdmitted(op, t, parallel)
    /\ HistoryCut(gone) /\ RoomAfter(gone)
    /\ IF s = NoSource
       THEN UNCHANGED <<gateVars, published>>
       ELSE /\ Publishable(runs, s)
            /\ RunAdmitted(ReadyFor(gate, s)[s], op)
            /\ published' = published \union {s}
            /\ gate' = [ReadyFor(gate, s) EXCEPT ![s] = WithRun(@, op)]
            /\ lease' = [lease EXCEPT ![r] = RunLease(s, op)]
    /\ pending' = [pending EXCEPT ![r] = [operation |-> op, task |-> t]]
    /\ UNCHANGED <<starting, registry, child>>

\* Refused after the history was cut: no room, a repository that cannot be
\* verified or has an execution of unknown fate, or a gate that a Git mutation
\* or block holds closed.  A request that fails at a later removal is refused
\* here for the removals before it.
BeginRefused(op, t, parallel, gone) ==
    LET s == SourceOf[t] IN
    /\ Idle
    /\ BeginAdmitted(op, t, parallel)
    /\ HistoryCut(gone)
    /\ \/ /\ ~RoomAfter(gone) \/ s # NoSource
          /\ UNCHANGED <<gate, published>>
       \/ /\ RoomAfter(gone) /\ s # NoSource /\ Publishable(runs, s)
          /\ ~RunAdmitted(ReadyFor(gate, s)[s], op)
          /\ gate' = ReadyFor(gate, s)
          /\ published' = published \union {s}
    /\ UNCHANGED <<lease, pending, starting, registry, child>>

\* remove_history: the record comes back when its removal is not saved.
HistoryCutFails(op, t, parallel, r) ==
    /\ Idle
    /\ BeginAdmitted(op, t, parallel)
    /\ CanRotate(r)
    /\ Save(Without(runs, {r}), FALSE)
    /\ UNCHANGED <<gateVars, runs, pending, active, published, starting, registry, child>>

\* begin_abandon: cancelled while the source observation was out.
BeginAbandon(r) ==
    /\ Idle /\ pending[r] # NoTicket
    /\ pending' = [pending EXCEPT ![r] = NoTicket]
    /\ DropOne(r)
    /\ UNCHANGED <<runs, ledger, active, published, starting, registry, child>>

\* begin_commit: the durable Preparing record comes before any process.
BeginCommit(r, ok) ==
    LET run == [operation |-> pending[r].operation, task |-> pending[r].task,
                state |-> "Preparing", cancel_requested |-> FALSE,
                cleanup_confirmed |-> FALSE]
    IN
    /\ Idle /\ pending[r] # NoTicket
    /\ pending' = [pending EXCEPT ![r] = NoTicket]
    /\ Save([runs EXCEPT ![r] = run], ok)
    /\ IF ok
       THEN /\ runs' = [runs EXCEPT ![r] = run]
            /\ active' = [active EXCEPT ![r] = "owned"]
            /\ starting' = [run |-> r, step |-> "begun"]
            /\ UNCHANGED gateVars
       ELSE /\ DropOne(r)
            /\ UNCHANGED <<runs, active, starting>>
    /\ UNCHANGED <<published, registry, child>>
-----------------------------------------------------------------------------
(* spawn_start: the worker goes on with the run it has just committed. *)

\* process_plan and shell_plan admit only a run that is still Preparing.
SpawnProcess(r) ==
    /\ registry = "open" /\ At(r, "begun") /\ runs[r].state = "Preparing"
    /\ starting' = [run |-> r, step |-> "spawned"]
    /\ child' = [child EXCEPT ![r] = runs[r].task]
    /\ UNCHANGED <<gateVars, runs, ledger, pending, active, published, registry>>

Marked(run) == [run EXCEPT !.state = "Running"]

\* mark_running keeps Running in memory even when the save fails; the error
\* then makes the host cancel the process it was given.
MarkRunning(r, ok) ==
    /\ registry = "open" /\ At(r, "spawned")
    /\ runs' = [runs EXCEPT ![r] = Marked(@)]
    /\ Save(runs', ok)
    /\ starting' = NoRun
    /\ UNCHANGED <<gateVars, pending, active, published, registry, child>>

\* What finish_observed makes of the exit the host reports, and makes of it
\* again when the host repeats a report that could not be saved.
Outcomes(run) ==
    IF run.cancel_requested THEN {"Cancelled"}
    ELSE IF Live(run) THEN {"Succeeded", "Failed", "Unknown"}
    ELSE {run.state}

Ended(run, outcome) ==
    [run EXCEPT !.state = outcome, !.cleanup_confirmed = TRUE]

\* finish_observed: outcome in memory, then on disk, then lease and locks.
Finalize(r, book, ok) ==
    /\ runs' = book
    /\ Save(book, ok)
    /\ IF ok
       THEN /\ active' = [active EXCEPT ![r] = "released"]
            /\ DropOne(r)
       ELSE /\ active' = [active EXCEPT ![r] = "finishing"]
            /\ UNCHANGED gateVars

-----------------------------------------------------------------------------
\* A change of one record that memory keeps only when it was saved.
SaveOrRollBack(book, ok) ==
    /\ Save(book, ok)
    /\ runs' = IF ok THEN book ELSE runs

Cancelled(run) == [run EXCEPT !.state = "Cancelling", !.cancel_requested = TRUE]

\* No process was created; a cancellation that arrived meanwhile is recorded before the outcome,
\* unless its save fails, which is ignored.
PreparationFails(r, cancelled, ok) ==
    /\ registry = "open" /\ At(r, "begun")
    /\ IF cancelled
       THEN SaveOrRollBack([runs EXCEPT ![r] = Cancelled(@)], ok)
       ELSE UNCHANGED <<runs, ledger>>
    /\ starting' = [run |-> r, step |-> "failed"]
    /\ UNCHANGED <<gateVars, pending, active, published, registry, child>>

FinishUnspawned(r, ok) ==
    /\ registry = "open" /\ At(r, "failed")
    /\ Finalize(r, [runs EXCEPT ![r] =
          Ended(@, IF @.cancel_requested THEN "Cancelled" ELSE "Failed")], ok)
    /\ starting' = NoRun
    /\ UNCHANGED <<pending, published, registry, child>>

Cancellable(r) == runs[r] # NoRun /\ Live(runs[r]) /\ active[r] # "finishing"

\* cancel, on request or after the task's timeout.
Cancel(r, ok) ==
    /\ Idle /\ Cancellable(r)
    /\ SaveOrRollBack([runs EXCEPT ![r] = Cancelled(@)], ok)
    /\ UNCHANGED <<gateVars, pending, active, published, starting, registry, child>>

\* The host reports an end only after the process tree is reaped.
FinishProbe(r) ==
    /\ Idle /\ active[r] \in {"owned", "finishing"} /\ child[r] = NoTask
    /\ active' = [active EXCEPT ![r] = "finishing"]
    /\ UNCHANGED <<gateVars, runs, ledger, pending, published, starting, registry, child>>

FinishObserved(r, ok) ==
    /\ Idle /\ active[r] = "finishing"
    /\ \E outcome \in Outcomes(runs[r]) :
          Finalize(r, [runs EXCEPT ![r] = Ended(@, outcome)], ok)
    /\ UNCHANGED <<pending, published, starting, registry, child>>

Acknowledged(run) == [run EXCEPT !.cleanup_confirmed = TRUE]

\* acknowledge_unknown_cleanup and the publication that follows it.  The user
\* has inspected the old processes: that is the premise of the request.
Reconcile(r, ok) ==
    LET book == [runs EXCEPT ![r] = Acknowledged(@)]
        s == SourceOf[runs[r].task]
    IN
    /\ Idle /\ runs[r] # NoRun /\ active[r] = "none"
    /\ runs[r].state = "Unknown" /\ child[r] = NoTask
    /\ SaveOrRollBack(book, ok)
    /\ IF ok /\ s # NoSource /\ Publishable(book, s)
       THEN gate' = ReadyFor(gate, s) /\ published' = published \union {s}
       ELSE UNCHANGED <<gate, published>>
    /\ UNCHANGED <<lease, pending, active, starting, registry, child>>

\* One worktree of publish_registered_sources, at opening and every second.
PublishSource(s) ==
    /\ Idle /\ Publishable(runs, s)
    /\ gate' = ReadyFor(gate, s)
    /\ published' = published \union {s}
    /\ UNCHANGED <<lease, runs, ledger, pending, active, starting, registry, child>>
-----------------------------------------------------------------------------
\* RunRegistry::open: what was live is of unknown fate; the result is saved
\* before the host may go on, and expired history goes.
InterruptedMutant(run) == [run EXCEPT !.state = "Unknown", !.cleanup_confirmed = TRUE]
Interrupted(run) == [run EXCEPT !.state = "Unknown"]
Recovered ==
    [r \in RunIds |-> IF ledger[r] # NoRun /\ Live(ledger[r])
                      THEN Interrupted(ledger[r]) ELSE ledger[r]]

Open(gone, ok) ==
    /\ registry = "down"
    /\ gone \subseteq {r \in Recorded(Recovered) : Recovered[r].cleanup_confirmed}
    /\ gate' = [s \in Sources |-> WithProvider(gate[s], FALSE)]
    /\ Save(Without(Recovered, gone), ok)
    /\ IF ok
       THEN runs' = Without(Recovered, gone) /\ registry' = "open"
       ELSE UNCHANGED <<runs, registry>>
    /\ UNCHANGED <<lease, pending, active, published, starting, child>>

\* The worker thread ends without its host: first its tickets go, ...
WorkerEnds ==
    /\ registry = "open"
    /\ registry' = "dying"
    /\ pending' = [r \in RunIds |-> NoTicket]
    /\ DropRuns(PendingIds)
    /\ UNCHANGED <<runs, ledger, active, published, starting, child>>

\* ... then Drop for RunRegistry closes the worktrees, ...
CloseSources ==
    /\ registry = "dying"
    /\ registry' = "unlisted"
    /\ gate' = [s \in Sources |->
                 IF s \in published \union
                      {SourceOf[runs[r].task] : r \in {q \in RunIds : active[q] # "none"}}
                 THEN WithProvider(gate[s], FALSE) ELSE gate[s]]
    /\ UNCHANGED <<lease, runs, ledger, pending, active, published, starting, child>>

\* ... and the Active entries drop their leases and file locks.
DropActive ==
    /\ registry = "unlisted"
    /\ registry' = "lost"
    /\ DropRuns({r \in RunIds : active[r] \in {"owned", "finishing"}})
    /\ runs' = [r \in RunIds |-> NoRun]
    /\ active' = [r \in RunIds |-> "none"]
    /\ published' = {}
    /\ starting' = NoRun
    /\ UNCHANGED <<ledger, pending, child>>

\* The host process ends: memory goes, runs.json and the processes stay.
RegistryLost ==
    /\ runs' = [r \in RunIds |-> NoRun]
    /\ pending' = [r \in RunIds |-> NoTicket]
    /\ active' = [r \in RunIds |-> "none"]
    /\ published' = {}
    /\ starting' = NoRun
    /\ registry' = "down"
    /\ UNCHANGED <<ledger, child>>

Crash ==
    /\ registry # "down"
    /\ RegistryLost
    /\ gate' = [s \in Sources |-> DefaultGate]
    /\ lease' = [h \in Holders |-> NoLease]

ChildExits(r) ==
    /\ child[r] # NoTask
    /\ child' = [child EXCEPT ![r] = NoTask]
    /\ UNCHANGED <<gateVars, runs, ledger, pending, active, published, starting, registry>>
-----------------------------------------------------------------------------
\* Requests that first take the shared run-use lock.
BeginStep ==
    \/ \E op \in RunOperations, t \in Tasks, parallel \in BOOLEAN, gone \in SUBSET RunIds :
          \/ \E r \in RunIds : BeginReserve(r, op, t, parallel, gone)
          \/ BeginRefused(op, t, parallel, gone)
    \/ \E op \in RunOperations, t \in Tasks, parallel \in BOOLEAN, r \in RunIds :
          HistoryCutFails(op, t, parallel, r)

WorkerStep ==
    \/ \E r \in RunIds : BeginAbandon(r) \/ SpawnProcess(r) \/ FinishProbe(r)
    \/ \E r \in RunIds, ok \in BOOLEAN :
          \/ BeginCommit(r, ok) \/ MarkRunning(r, ok) \/ Cancel(r, ok)
          \/ FinishObserved(r, ok) \/ Reconcile(r, ok)
          \/ FinishUnspawned(r, ok)
          \/ \E cancelled \in BOOLEAN : PreparationFails(r, cancelled, ok)
    \/ \E s \in Sources : PublishSource(s)
    \/ WorkerEnds \/ CloseSources \/ DropActive

HostStep ==
    \/ \E gone \in SUBSET RunIds, ok \in BOOLEAN : Open(gone, ok)
    \/ Crash
    \/ \E r \in RunIds : ChildExits(r)

\* The Git side of the same gate (git/service.rs, host/git_bridge.rs).
GateUsers ==
    /\ \E h \in Holders \ RunIds :
          \/ \E s \in Sources, op \in Operations \ RunOperations : ReserveMutation(h, s, op)
          \/ DropLease(h)
    /\ registry # "down"
    /\ UNCHANGED registryVars

RegistryNext == BeginStep \/ WorkerStep \/ HostStep \/ GateUsers

RegistrySpec == RegistryInit /\ [][RegistryNext]_vars
-----------------------------------------------------------------------------
Final(run) == ~Live(run) /\ ~Unresolved(run)

(***************************************************************************)
(* A process tree never lives without a durable record that a later host   *)
(* will treat as live or of unknown fate, whichever save failed or         *)
(* half-succeeded and wherever the host died (begin_commit before spawn,   *)
(* finish_observed after reaping, RunRegistry::open).                      *)
(***************************************************************************)
DurableCover ==
    \A r \in RunIds : child[r] # NoTask =>
        /\ ledger[r] # NoRun /\ ledger[r].task = child[r]
        /\ ~Final(ledger[r])

(***************************************************************************)
(* A Git mutation never holds a worktree in which a run's processes live:  *)
(* not while the run is owned, not after its worker died, not in the next  *)
(* host (reserve, Drop for RunRegistry, publish_source).                   *)
(***************************************************************************)
MutationExclusion ==
    \A h \in Holders : (Holds(h) /\ lease[h].mutation) =>
        \A r \in RunIds : child[r] # NoTask => SourceOf[child[r]] # lease[h].identity

(***************************************************************************)
(* Processes whose build outputs contain one another never live together,  *)
(* in one host or across a restart (begin_reserve's two output checks).    *)
(***************************************************************************)
OutputsDisjoint ==
    \A q, r \in RunIds : (q # r /\ child[q] # NoTask /\ child[r] # NoTask)
        => <<child[q], child[r]>> \notin Overlaps

(***************************************************************************)
(* One operation id names one execution: a repeated request finds the      *)
(* record or is told that the start is being prepared (begin_reserve).     *)
(***************************************************************************)
OperationOf(r) == IF pending[r] # NoTicket THEN pending[r].operation ELSE runs[r].operation
OncePerOperation ==
    \A q, r \in Recorded(runs) \union PendingIds :
        q # r => OperationOf(q) # OperationOf(r)

(***************************************************************************)
(* Every live record of an open registry has its Active entry, so that it  *)
(* can be cancelled, timed out and finished; a record without one would    *)
(* stay live, and refuse starts and rotation, until the host ends.         *)
(***************************************************************************)
LiveIsOwned ==
    registry = "open" => \A r \in Recorded(runs) : Live(runs[r]) => active[r] \in {"owned", "finishing"}

(***************************************************************************)
(* A run's lease and locks are gone only once no later host can take the   *)
(* run for live: "Persist actual outcome BEFORE allowing source mutation   *)
(* again" (finish_observed).                                               *)
(***************************************************************************)
ReleasedIsDurable ==
    registry = "open" => \A r \in Recorded(runs) :
        (active[r] = "released" /\ ledger[r] # NoRun) => Final(ledger[r])

(***************************************************************************)
(* No lease outlives its ticket or Active entry, and none is dropped       *)
(* before: rotation and refusals touch only executions that ended.         *)
(***************************************************************************)
LeaseIffInUse ==
    \A r \in RunIds : Holds(r) <=>
        /\ InUse(r)
        /\ SourceOf[IF pending[r] # NoTicket THEN pending[r].task ELSE runs[r].task] # NoSource

(***************************************************************************)
(* Records and reserved starts together never exceed the history, so a     *)
(* commit never fails for want of room after its lease was taken.          *)
(***************************************************************************)
HistoryBounded == Cardinality(Recorded(runs)) + Cardinality(PendingIds) <= HistoryLimit

(***************************************************************************)
(* A durable outcome is never rewritten: not by a repeated report, by a    *)
(* reconciliation or by a restart.                                         *)
(***************************************************************************)
OutcomeStays ==
    [][\A r \in RunIds :
         (ledger[r] # NoRun /\ ~Live(ledger[r]) /\ ledger'[r] # NoRun)
            => ledger'[r].state = ledger[r].state]_vars

(***************************************************************************)
(* A start that did not ask for parallel execution is reserved only when   *)
(* no process of its task lives, one left by an earlier host included.     *)
(***************************************************************************)
SoleUnlessParallel ==
    [][\A r \in RunIds : (pending[r] = NoTicket /\ pending'[r] # NoTicket) =>
         LET op == pending'[r].operation
             t == pending'[r].task
         IN  (\E gone \in SUBSET RunIds : BeginReserve(r, op, t, FALSE, gone))
                 => \A q \in RunIds : child[q] # t]_vars

\* What records, leases and locks say of each other while the registry works:
\* no execution beside a mutation of its worktree or beside another one with
\* its outputs, one record for a start that is repeated, live records only of
\* this host, nothing released before its outcome is durable, a lease exactly
\* while it is needed, and a bounded history (run.rs:499-600, run.rs:1059).
RegistrySafety ==
  /\ MutationExclusion /\ OutputsDisjoint /\ OncePerOperation
  /\ LiveIsOwned /\ ReleasedIsDurable /\ LeaseIffInUse /\ HistoryBounded

\* A recorded outcome is never replaced, and a task that is not parallel is
\* not started beside an execution of it (run.rs:540, run.rs:1040).
RegistryHistory == OutcomeStays /\ SoleUnlessParallel
=============================================================================
