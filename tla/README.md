# idk: specifications of the host, its files and its terminal UI

idk keeps, for each user, one host process that owns terminals, task
executions ("Runs") and Git operations, and serves command lines and terminal
UIs over a Unix socket. The modules here model the parts of the program whose
correctness depends on interleavings, late answers, failing saves, crashes and
restarts; TLC checks them on small instances and TLAPS proves the core for
every value of the constants. Sources are named relative to
`src/crates/idk/src/`, documents relative to `src/`.

## The system

| part | state | operations | talks to |
|---|---|---|---|
| source gate, `model.rs` | per worktree: readiness, blocks, run leases, one mutation lease, generation | `block`, `unblock`, `ready`, `unavailable`, `reserve_run`, `reserve_mutation`, drop of a lease | shared under one mutex by run worker, Git executors and actor |
| run registry, `run.rs` | run records, reserved starts, `Active` entries with leases and file locks, `runs.json` | `begin_reserve`, `begin_commit`, `begin_abandon`, `mark_running`, `cancel`, `finish_probe`, `finish_observed`, acknowledgement, rotation, publication, `open`, `Drop` | gate, store, run worker |
| run worker, `host/run_jobs.rs` | two channels of 32, jobs of clients, deferred observations with their waiting starts | take work, complete a deferred entry, sweep timeouts, send events | registry, observer thread, actor |
| actor, `host/actor.rs`, `host/launch.rs` | slots (terminals, Runs, editors), batches, answers to mutations, client identities, tombstones | requests, `tick`, start, attach, input, close, shutdown, inventory, retirement | everything in the host |
| Git bridge, `host/git_bridge.rs`, `git_operation.rs`, `git_jobs.rs`, `git/service.rs` | contexts, plans, operations, `git-operations.json`, two worker pools | prepare, plan, execute, input, cancel, reconcile | gate, store, actor |
| host life, `host.rs` | `host-owner.lock`, `host.lock`, socket, `host-exit.json` | start, accept, loop, exit | clients, root reconnection, older hosts |
| client, `client.rs`, `protocol.rs` | connection, envelope with ids and deadline | start a host, send, retry | host |
| projects, `project.rs`, `portable.rs`, `task.rs` | `workspace.json`, approvals, bindings | edit, review, approve, plan a launch, synchronise with `idk.toml`, reconnect a root | store, file locks shared with the host |
| store, `store.rs`, `saved_state.rs` | JSON and TOML files, file locks, copies | load, save, compare and swap, `write_state` | all |
| processes, `terminal.rs`, `host/children.rs` | PTY, screen, input queue, process session, exit | spawn, collect, write, freeze, inventory, reap, signal | actor, kernel |
| results and retention, `result_store.rs`, `run.rs` | result bodies, logs, pins, journal of retired Runs | capture, verify, pin, rotate, remove | registry |
| installation, `install.rs`, `package.rs` | generations, links, inventory, journal | install, recover, uninstall | file system, programs that start through the launcher |
| UI runtime, `ui/runtime.rs`, `ui/live.rs` | host and client identity, online, active terminal, buffered input, jobs of the request worker | submit, flush, drain, reconnect | client |
| UI tabs, `ui/runs.rs`, `ui/run_log.rs`, `ui/git.rs` | view, dialogs, intents, jobs under way, log, raw pages, baseline, Git pages, drafts, operations | keys, replies, polls | UI runtime |
| discovery, editor, shell, doctor, Git porcelain, command line | none of their own | parse, build commands, probe, print | the parts above |

What is hard. The actor and the run worker learn of one another only through
bounded channels and two flags. Every save can fail, and can fail after the new
content is already visible. The worker may die while the host goes on, and the
host while processes go on. Several clients start hosts at once, older hosts
know only one of the two lock files, and a root reconnection shares only files
with the host. The processes of a terminal fork, exit, are adopted and leave
the session while `/proc` is walked, and pids are reused. Each step of a start,
a rotation or an activation can be the last one. The UI learns of everything
late: what the user asked for may no longer be what he looks at, and the host
that answers may no longer be the one he looked at.

What makes each part correct:

- gate: one kind of use of a worktree at a time, and bookkeeping that names
  exactly the leases that exist;
- registry: a process tree is never without a durable record or its lease; an
  outcome is durable before anything is released; one execution for one
  operation id; overlapping outputs never run together;
- worker and actor: every request answered once, every Run ended by somebody,
  no signal before its durable cancellation, a shutdown that loses nothing and
  always completes;
- terminals: what is typed reaches the shell it was typed for, nothing is
  reopened silently, a terminal is over only when its session is empty, and
  only its own processes are signalled;
- output: the screen a revision names is the current one, and a log never
  claims what it lost;
- Git bridge: a durable record around each process, the lease kept until the
  process is gone, one operation in a repository, unknown outcomes blocking
  their worktree;
- reconnection: no Run or operation under a binding that is not the saved one;
- requests: a mutation is executed only by the host it names, and not repeated
  while it may still be retried;
- host life: one host works, its endpoint stays, clients find it;
- projects: no acknowledged edit is lost, nothing is executed that the user did
  not confirm in this form, a synchronisation leaves his edits alone;
- retention and installation: no record without its files, no file nobody
  answers for, no launcher that leads nowhere, nothing unverified active;
- UI: an answer changes only what it was asked for; what the user confirmed is
  what is carried out; what he typed is neither torn nor lost; no flag is left
  behind that blocks his keys.

## Modules

| module | models | explored by |
|---|---|---|
| `SourceUse` | the reader/writer contract on a worktree, abstractly | property of `SourceGate` and of the processes in `HostSourceUse` |
| `SourceGate` | `model.rs` SourceGate, one action per method, leases held by arbitrary holders | `MCSourceGate` |
| `RunRegistry` | the registry as its one worker drives it, with ledger, locks, leases and the processes of Runs | `MCRunRegistry` |
| `GitOperations` | bridge, execution workers and `execute_with` around the lease of a mutation | in `HostSourceUse` |
| `HostSourceUse` | both around one gate, with crash, restart and root reconnection | `MCHostSourceUse` |
| `RunHost` | actor and run worker around the registry: slots, queues, deferred and shared starts, closing, shutdown | `MCRunHost`, `MCLiveness` |
| `RequestCache` | envelope, deadline and retry between clients and `respond_checked` of the actor | `MCHost` |
| `HostStart` | `serve`, `serve_owned` and `ensure_host`: both locks, socket, `host-exit.json`, older hosts, reconnection | `MCHost`, `MCLiveness` |
| `Terminals` | terminals of the actor: start, preparation worker, ownership epochs of input, reopening, batches, tombstones, crashes | `MCHost` |
| `ChildInventory` | the process session of a terminal against the kernel's process table: walk, signals, reaping | `MCHost`, `MCLiveness` |
| `TerminalIO` | collector, screen revision, input queue with partial writes, log sink and its writer thread | `MCTerminalIO` |
| `WorkspaceRegister` | a register with compare-and-swap by revision, abstractly | property of `WorkspaceStore` |
| `WorkspaceStore` | `Store::load`, `save`, `update` by several processes, with copies and failing writes | `MCDisk` |
| `ProjectTrust` | edits, reviews, approvals, plans, and synchronisation with `idk.toml` | `MCDisk` |
| `Retention` | logs, result bodies, pins, and the journal of retired Runs | `MCDisk` |
| `Install` | install, recover, uninstall, step by step, with readers | `MCDisk` |
| `UiRuntime` | the runtime of the UI: request worker, buffered input, replies, hosts that are replaced | `MCUi` |
| `UiAttach` | attachments of shells and of Run terminals, and the questions before a takeover | `MCUi` |
| `UiGit` | the Git tab: questions, dialogs, plans, commit messages, the operation shown | `MCUi` |
| `UiRuns` | tasks and Runs tab: reviews, starts, followed log, raw pages, comparisons | `MCUiRuns` |
| `RunHostParts` | the properties of `RunHost` by the part of the system a run starts in | `MCRunHost` |
| `RunRegistryProofs`, `HostSourceUseProofs`, `RunHostProofs`, `RunHostDutyProofs`, `HostProofs`, `DiskProofs`, `ScreenProofs`, `UiProofs` | theorems; `RunRegistryProofs` those of `SourceGate` and `RunRegistry`, `HostProofs` those of `RequestCache`, `HostStart`, `ChildInventory` and `Terminals`, `DiskProofs` those of `WorkspaceStore`, `Install`, `Retention` and `ProjectTrust`, `ScreenProofs` those of `TerminalIO` and `UiRuns`, `UiProofs` those of `UiRuntime`, `UiAttach` and `UiGit` | TLAPS |

`RunRegistry` and `GitOperations` extend `SourceGate`; `HostSourceUse` extends
both; `RunHost` extends `RunRegistry`. Names follow the code: `BeginReserve` is
`begin_reserve`, `FinishObserved` is `finish_observed`, and so on; comments say
which handler an action is where the name does not. `PROJECT.json` maps every
definition to its lines. Operators named `...Mutant` are plausible defects of
the definition after them; no action uses them, the properties are tested
against them.

### How state and actions correspond

*Run side.* `gate`/`lease` are `SourceGate.states` and the `GateLease` values;
`runs`, `pending`, `active` are the registry's maps; `ledger` and `gitLedger`
are the two JSON files; `child[r]` is the process tree of Run `r`, which
outlives the host; `starting` is where `spawn_start` stands; `slots`, `jobs`,
`works`, `events` are the actor's slots, the bridge's jobs and the two
channels; `outbox` holds the events of the item the worker is sending; `busy`
is a start or end it handles without the observer; `deferred` are the entries
waiting for an observation, each with the starts that joined.

*Host side.* In `HostStart`, `pc` of a process is the statement of `serve` it
is at; `owner`, `exclusive` and `shared` are who holds the two locks, and the
conversion of `host.lock` passes through a state in which nobody holds it.
`path` is the process whose socket the file is, `record` is `host-exit.json`;
writing it may fail, which the code ignores, and `noted` remembers the hosts
whose running note was written.
In `Terminals`, `slot[s]` is the actor's slot, `stage[s]` where its preparation
stands, `process[s]` the leader, `ledger` the tombstones on disk, `era` counts
ownerships of a terminal, so that an epoch can be compared with what the client
saw. In `ChildInventory` the process table is a function of pids to session,
parent and life, and `own` is the truth the host cannot read: which processes
were born into the terminal. In `TerminalIO` output is a sequence of numbered
chunks and input a sequence of numbered bytes.

*Files.* In `WorkspaceStore` `file` is the definition, `previous` and `migrated`
are the copies beside it, and `job` is where each process stands in `update`. In
`ProjectTrust` a digest is the record of what is hashed. In `Retention` `mem`
and `disk` are registry and `runs.json`, `log[r]` and `body[r]` what is at the
paths of a Run, possibly a foreign file, and `starting` counts the starts that
have a reserved place in the history and are not committed. In `Install` `state`, `journal`,
`current`, `launcher` and `directory` are what is under the prefix, `op` the
operation under way with its next statement.

*UI.* The queue of the request worker carries requests in order; an intent
remembers, for each request under way, the view in which it was asked
(`epoch`, `run`, dialog). The variables of `UiRuns`, `UiAttach` and `UiGit` are
fields of their structs, but for the histories; `cut` of `UiAttach` remembers
that the follow-up of an attachment was refused or its question replaced. The host is what answers: it may answer anything its
state allows, refuse, or be replaced.

A save has three outcomes: done, failed with the old content, failed with the
new content visible (`store.rs` renames and then syncs). Where the code rolls
memory back the model does; where it only reports, memory keeps the change.

Deliberate abstractions. Identities, names, digests and logs are model values
or absent; the generation of a source observation is the gate's; any finished
record may be the one rotated where the code takes the oldest; sequence numbers
of observations are the rule that an entry leaves the list once; sections of a
tick are separate steps, which allows more interleavings than the code; the
acknowledgement of an unknown outcome has its premise, that the processes are
gone, as a guard; `FinishProbe` has the contract of its caller as a guard, and
`RunHost` checks that contract. `RunRegistry` has no pins: its `HistoryBounded`
is about Runs that are not pinned, and what an unpin does to a start with a
reserved place is in `Retention`. The metadata check and the unlink of
`remove_stale_socket` are one step. What a bundle must contain is the set
`Verified`. A Git command may end in any way. In `UiGit` an expired plan is a
refusal, which may come at any time.

## Runs

Several modules share no state, so that exploring them as a product would only
multiply what each of them shows. `MCHost`, `MCDisk`, `MCUi`, `MCTerminalIO`,
`MCUiRuns`, `MCRunHost` and `MCLiveness` therefore hold `part`, chosen in the
initial state: the variables of the chosen part move and the others stay where
they began. The reachable states are the sum of the parts. A property of one
module holds trivially in the other parts, and it has a mutant of its own that
breaks it in its part. TLC reports the steps of such a run under the name of
the part; that every action of every component fires was checked with the
components run one by one with `-coverage`.

| run | parts and instance | properties |
|---|---|---|
| `source_gate` | two worktrees, three holders, generation up to 2 | `GenerationWitnessesMutation`: two equal generations around a use mean no mutation between them; `GateImplementsUse`: the gate is the reader/writer contract |
| `run_registry` | three tasks (two in one worktree, one with outputs), three run ids, a Git mutation, history of 2 | `DurableCover`; `RegistrySafety`: exclusion, outputs, one run per operation, live runs owned, releases durable, leases in use, history bounded; `RegistryHistory`: an outcome once recorded stays, no task runs beside itself unless parallel |
| `host_source_use` | a Run, a pull and a fetch on a worktree and crashes: with two Git workers and one reconnection; with one worker that may panic, so that the pool dies | `ProcessesObeyUse`: the processes themselves implement `SourceUse`; `GitSafety`: durable cover, lease over process, one operation per repository, unknown stays blocked, events of live operations, none waiting for dead workers; `BindingCurrent` |
| `run_host` | two tasks started at once; one start sent twice, with a cancellation by run id; a shell task with forced closes and death of the preparing worker; queues of 1, one deferred entry | `TaskOwedFinish`, `TaskSignalAfterDurableCancel`, `HostBookkeeping` |
| `liveness` | one start; three hosts and two clients; a leader and two more pids | `JobsAnswered`, `RunsFinalized`, `CloseReachesProcess`, `ShutdownCompletes`, `HostComesUp`, `ForcedCloseEnds` |
| `host` | the cache with two contents under one request id and a cache of 1; three hosts, one of an older version, two clients, a reconnection; two terminals with reopening; one terminal that two clients take over; a session with four pids | `CacheSafety`, `OnceWhileLive`; `StartSafety`; `ReopenSafety`; `InputUnderAttachment`; `EmptySession`; `NothingForeignTaken` |
| `disk` | two processes and edits for each of three schemas; a project with shells, tasks and startup files; declarations that come and go; three Runs with a history of 2 and a pin; four bundles of three versions | `StoreImplementsRegister`, `BackupsRecoverable`; `OnlyConfirmedLaunches`; `SyncKeepsUserTasks`; `RetentionSafety`; `InstallSafety` |
| `terminal_io` | three chunks of output with a log of two and a channel of one; three typed bytes with partial and failing writes | `OutputRevisionNamesScreen`, `OutputLogTruthful`; `TypedInOrder` |
| `ui_runs` | two Runs and two tasks: reviews and starts; a followed log; raw pages; comparisons | `PiecesFit`, `StartFollowsConfirmation` |
| `ui` | the runtime over two hosts and a takeover; a shell, a Run's terminal and another client; the Git tab in two parts | `ActsOnTheHostSeen`, `TypedIsKept`, `TakeoverWasConfirmed`, `NothingLeftBehind`, `ExecutedWasConfirmed` |
| `bootstrap_signal`, `resurrected_draft` | a shell task; declarations | two of the disagreements below |

Bounds. Two Runs and one mutation suffice for every pairwise property, and
three run ids let a history of two overflow. Queues of one item make every send
meet a full queue; a deferred limit of one makes the second start take the
synchronous path. Two starts for one task make one join the other, find it
live, or find it ended. Three hosts are the least with which one works, one
waits and one has died. Four pids let a child, its child and a stranger that
reuses a pid meet the leader. In `WorkspaceStore` four revisions let a
migration fail and be repeated; in `Install` three versions, two of one number,
let an upgrade fail, be undone and be repeated. Two hosts one after the other
are all a UI needs to mistake one for the other, and an intent limit of two or
three lets answers overtake the user. Larger instances that were run by hand:
`ChildInventory` with four further pids, `Retention` with four Runs,
`RequestCache` up to time 3, `RunHost` with two tasks and a cancellation by run
id, `HostStart` with three clients, `UiRuntime` with three keys, `HostSourceUse`
with panics and reconnections at once. Bounds on counters (`Max...`) only end
behaviours early, and no deadlock is checked where they do, or where a host
whose clients are done may stop.

In `RequestCache` time is a counter of ticks: deadlines lie one or two ticks
ahead, identities are forgotten after one. A tick may fall between the actor's
validation of a copy and its purge of the cache, because `respond_checked`
reads the clock at both places. One copy of an envelope is in flight at a time,
which with sending again after each still gives every copy its own fate.

Fairness (`liveness` only). `RunFairness`: the host loop ticks every 10 ms and
each section visits every slot, so its steps are weakly fair, and strongly
where the section needs room in the queue, which the worker empties; the worker
takes an item in every iteration and completes entries by result, by the loss
of their observer, or by the end of their budget; a save that is retried for
ever succeeds at last; a killed process ends, while one that merely received
SIGTERM or SIGHUP need not. Clients that keep cancelling for ever are left out:
they could keep the host from ever being idle. `StartFairness`: a host process
runs to its accept loop or its end and a client keeps trying until its time is
up. `InventoryFairness`: scan thread, actor and waiting parents run on, and no
scan of all pids reaches its limit, since nothing is known of a session whose
scans are all abandoned.

## Disagreements found

Two are runs that expect a violation: `bootstrap_signal` and
`resurrected_draft`. The others are reproduced by adding the property named to
the cfg named.

| what | where | to see it |
|---|---|---|
| a shell task whose terminal refuses its bootstrap is signalled without a durable cancellation, against `cancel` in `run.rs` | `host/actor.rs:1944` | run `bootstrap_signal` |
| a draft of a task the declaration dropped is saved and silently removed by the next synchronisation | `portable.rs:856` | run `resurrected_draft` |
| the death of the shell-preparation worker fails slots of Runs too, whose unsaved failure is then owed by nobody; the host can also end without finishing such a Run | `host/actor.rs:1838` | `MCRunHost.cfg`, INVARIANT `OwedFinish` or `FinishedLosesNothing` |
| a close that waits for its durable cancellation is lost when the run worker dies, for shell tasks and forced closes | `host/actor.rs:1475` | `MCLiveness.cfg` with `ShellTasks = {build}`, PROPERTY `CloseReachesProcess` |
| a retry validated just before its deadline may purge the cached answer of its first copy and run the mutation again; `OnceWhileLive` shows that it takes the deadline passing between the two clock reads, and nothing else | `host/actor.rs:322` | `MCHost.cfg`, INVARIANT `ExecutedOnce` |
| a migration repeated after a failed one keeps the older copy | `store.rs:130` | `MCDisk.cfg`, PROPERTY `MigrationKeepsOriginal` |
| a client that looks at the socket before its mode is narrowed fails although its host comes up | `host.rs:188` | `MCLiveness.cfg`, INVARIANT `RacingClientsConnect` |
| a root reconnection that holds `host.lock` does not keep a new host from starting | `host.rs:79` | `MCHost.cfg`, PROPERTY `ReconnectBlocksStart` |
| a child that left the session and exits during the walk hides its children, which are still in the session | `host/children.rs:108` | `MCHost.cfg` with `LateDetach = TRUE`, INVARIANT `EmptySession` |
| output queued between the timeout and the flag of the log writer is dropped and the log is called complete | `run.rs:90` | `MCTerminalIO.cfg` with `LateWriter = TRUE`, INVARIANT `OutputLogTruthful` |
| a reader that fails between two looks of one tick does not mark the log | `host/actor.rs:1518` | `MCTerminalIO.cfg` with `ReadErrors = TRUE`, INVARIANT `OutputLogTruthful` |
| the answer of a read that `x` cancelled too late is applied to the Run selected now | `ui/runs.rs:1275` | `MCUiRuns` with `PageKeys == {"open", "raw", "cancel"}` and in its `Pages` `Limit <- 4, CancelLimit <- 5, MaxEpoch <- 5`, INVARIANT `LateReplyKeepsRun`; with `MaxNonce <- 8, MaxEpoch <- 4` also INVARIANT `BackIsThePath` |
| a stale chunk of a followed log takes the UI offline and drops buffered input | `ui/runs.rs:613` | `MCUiRuns.cfg`, PROPERTY `StaleChunkOnlyDiscarded` |
| giving back a late attachment can end the attachment the user looks at | `ui/runs.rs:330` | `MCUi.cfg`, PROPERTY `AttachmentKept` |
| a start that has a reserved place in the history is refused at its commit when a Run was unpinned meanwhile: the unpin counts only the recorded Runs, and `validate` of the ledger then rejects the one too many. The comment at `run.rs:577` says that the capacity is reserved | `run.rs:1435`, `run.rs:1503` | `Retention`: a `Commit` that does not `Fits`; dropping `Fits` there breaks `HistoryFits` of `RetentionSafety` |
| a file action of the Git tab that is refused blocks all later ones | `ui/git.rs:442` | `MCUi.cfg`, INVARIANT `FileActionNotBlocked` |

What else a reader of the code may want to know, none of it contradicted by a
document:

- The death of a Git execution worker is noticed only when it was the last one.
  Until then the operation it had stays active, its repository busy and the
  host cannot be closed, whatever is cancelled. A worker that panics is taken
  to do so before it creates a process or after that was reaped; in between it
  only waits, so that the branch of `Operation::tick` for a disconnected
  executor, which leaves `busy` set, is not reached.
- A client that finds no socket while the old host is between removing it and
  releasing its locks spawns a host that loses the owner lock, and waits its
  five seconds in vain.
- Adopted children of other sessions are never reaped by the host.
- With pipes instead of a PTY, a read error changes the status without a new
  revision until the pipes end, and replies of the terminal that cannot be
  written make the log of a task partial.
- A result body captured just before a crash stays as a file no record names,
  and counts against the budget. A foreign file in place of a journalled log
  blocks later starts, and opening, until somebody looks.
- A damaged generation that a recovery needs stops the installation until
  somebody looks; that is why no deadlock check is made there. When an
  activation over a damaged generation fails its health check there is nothing
  to go back to, and `recover` refuses.
- Late answers of previews, starts and Run attachments replace an open dialog
  of the UI; those of reviews do not. Any refused request makes the UI offline
  until another one succeeds. When it is the look at the terminal of a Run that
  was just started, the wish to attach to it is lost; when it is the attachment
  that follows such a look (`ui/runs.rs:369`), or when another dialog takes the
  place of the question before a takeover (`ui/live.rs:311`), `a` stays without
  effect until the user moves (`cut`).
- A host ignores a failure to write `host-exit.json` (`host.rs:135`,
  `host.rs:146`). The record then names an earlier host while this one serves,
  which only the doctor reads (`doctor.rs:181`). `RecordNamesHost` therefore
  speaks of the hosts whose note was written.
- When one of the two pipes of a task fails, the other is read on
  (`terminal.rs:1334`), so that the log of the task has a gap; it is marked, but
  for the race above.
- An answer of the Git tab that is stale leaves its waiting dialog open until
  Esc, which then leaves its nonce in `cancelled`.

## Proofs

Every theorem holds for every value of the constants that the assumptions of
the modules allow. Each invariant that is proved was first checked by TLC, with
its strengthening, on the instance of its run.

Of `SourceGate`, `RunRegistryProofs` assumes only `GateAssumption` (sentinels are no operations
or leases). The inductive invariant of the gate is its type, the two directions
of the bookkeeping (every lease recorded, every record leased), that a worktree
with a mutation has no runs, and that two leases never share an entry: without
the last conjunct a drop, which names its entry by operation id alone, could
free another's. From it follow `LeasesAlwaysRecorded`, `LeaseExclusionHolds`,
the refinement `GateRefinesUse`, where each step of the gate maps to a
beginning, an end, or a stutter of `SourceUse`, and `GenerationWitnesses`: a
drop of a mutation moves the generation only because the entry it finds is its
own, and no run can hold the worktree then.

Of `RunRegistry` it assumes `RegistryAssumption` and `SentinelAssumption` (the
values for "no record", "no ticket" and "no process" are none) besides the
gate's. It proves the types and `DurableCover`, for all runs, tasks and
worktrees. `DurableCover` is not inductive by itself: every save writes the
whole memory over `runs.json`, so while the registry is open the memory must
cover the processes too; what may be rotated, acknowledged or given an outcome
must have no process; `spawn_start` must find memory and ledger equal before it
creates one; and no live record may count as cleaned up, or the record that a
restart makes of it could be rotated under a living process. The steps are
grouped by what they do to the books: cutting the history, replacing one
record, a save that fails before or after it became visible, and recovery.

Its second part goes on from there to `RegistrySafety` and
`RegistryHistory`. The invariant `SafetyInv` adds what records say of each
other (`BooksInv`: distinct operations, disjoint outputs while processes may
live, tickets apart from all records), of the `Active` entries (`EntriesInv`),
of the number of records (`BoundedInv`: the ledger, too, is bounded, or a
restart would begin above the limit), of the leases (`LeasesInv`), and of the
states in which the worker has ended (`Stopped`). What makes `MutationExclusion`
hold across the death of a worker and a restart is `SourcesShut`: a worktree
with an execution of unknown fate, and after the worker's death every worktree
with a process, has its provider withdrawn and no mutation, until somebody
acknowledges. `OutcomeStays` needs `OutcomeAgrees`: an outcome that became
durable though its save was reported as failed is the one in memory, so that
the save that is repeated writes the same.

`RunHostProofs` and `RunHostDutyProofs` compose the registry with the actor
and the worker of `RunHost`. They assume `RunHostAssumption` (ranges; every
request has a Run of its own, from `new_id`; finitely many requests) and
`RunHostSentinels` (no slot, item or Run is the value for none) besides the
registry's. A step of `RunHost` is a step of the registry, which keeps
`SafetyInv`, so `HostBase` adds the shapes of what the two sides exchange:
whom a message names has a slot, only the answer to a start carries a process,
and a slot that is being prepared has no Run (`RunHostInvariance`).

For `TaskSignalAfterDurableCancel` the invariant follows one cancellation from
`runs.json` to the slot. `NamesInv` says that a Run nobody has named to the
other side has no record, or only a ticket: so the record that a start makes is
new, and no earlier message can be about it. `SignalInv` says that whatever the
actor may take for durable, in a slot or in a message on its way, is on record;
no later save, report or restart takes it back (`CancelStays`).

For the other two, `DutyInv` says where each request is. `Once`: a start or an
end is in one place of the channel of work, the worker's hand, the list of
deferred entries with the starts that joined, the outbox and the channel of
events. `Entries`: what the worker holds has the entry of its Run in the
registry, made for the first of the requests that share it. `Counted`: nobody
owes more answers than `outstanding` says, and while the worker is there
exactly as many (`OutstandingCounts`), which is an induction over cardinalities:
an item that moves from one place to another changes two of them by one. Each
step of `RunHostNext` is one of eleven moves of errands (`Moves`), and the rest
is proved of the moves. As long as the worker lives and nothing was lost with it
(`Whole`), `SlotsAwait` says that the slot of a request under way waits for just
that answer, `PendingPlaced` that a job a client still polls is somewhere under
way, `RunsFollowed` that a process is known to the worker, to an answer on its
way, or to a slot, and that a Run the registry settles is in use no more, and
`EndsOwed` that a Run in use has someone who owes its end. `TaskOwedFinish` and
`HostBookkeeping` follow.

The premises are the divergences that the runs show. `TaskOwedFinishHolds` and
`HostBookkeepingHolds` have `~LaunchMayDie`, that the worker which prepares a
shell does not die, and `TaskSignalAfterDurableCancelHolds` that no task uses a
managed shell, whose bootstrap may refuse. Both hold in the parts the properties
speak of: `part` is `"shell"` in the others. `HostAccounts` has the three
conjuncts of `HostBookkeeping` that need neither.

`HostSourceUseProofs` composes the registry with the Git side and with root
reconnection, up to `ProcessesObeyUse`. It assumes `GitAssumption` (ranges,
and pools of at least one), `GitSentinelAssumption` (the value for "no
operation" is none) and `HostAssumption` (plans, Runs and start requests have
different ids, all from `new_id`) besides the registry's. A step of the host is
a step of the registry, which keeps `SafetyInv`, or changes nothing of the gate
but blocks, which `SafetyInv` does not depend on; so `RegistrySafety` and
`DurableCover` hold with the real Git side as they do with the arbitrary users
of the gate in `RunRegistry` (`RunsSafeInHost`). `HostInv` adds two parts:

- `GitInv`. `PlanSound` says, for each place a worker can be at with an
  operation, what memory, `git-operations.json`, the channel and the process
  then are: a process, or a worker on its way to one, has a record that is not
  settled, on disk and in memory; a mutation has its lease from the reservation
  until the worker returns; a result is on its way only when the process is
  gone. `PoolSound` counts the operations in the hands of workers against the
  workers that are left, so that after the last panic nothing is in flight and
  what is ended then has no process. `LeftBehindShut` says that a worktree with
  a process of an earlier host is blocked under that operation and has neither
  Runs nor a mutation: the block alone would not exclude the Runs that were
  admitted before it, and what makes it true is that `Actor::new` blocks before
  the registry opens. `GitSafety` follows (`GitAlwaysSafe`).
- `BindInv`. What a reconnection has found out stays so until it ends: nothing
  is in use since it took the lock, no Run has a process since it read
  `runs.json`, no operation since it read `git-operations.json`. The two
  ledgers are enough because `DurableCover` and `GitDurableCover` hold for the
  processes of earlier hosts as well. `BindingCurrent` follows
  (`BindingAlwaysCurrent`).

For `ProcessesObeySource` the creation of a Run's process maps to `BeginRun`,
that of a switch or pull to `BeginMutation`, an exit to `End`, everything else,
the crash of the host included, to a stutter. A Run that is spawned is in use,
so the gate has an entry of it, and then neither a mutation of this host nor
one left by an earlier host can be at work there.

Of `RequestCache`, `HostProofs` assumes `CacheAssumption` (ranges of the
constants) and proves the types, `OnlyAddressedHost`, `CacheCoversRetry`, their conjunction
`CacheSafety` and `OnceWhileLive` for every number of clients, envelopes and
hosts. That an envelope without a host has not been executed comes from
`OnlyAddressedHost`, and a new host has executed nothing because instances are
never reused. The two defences of the code against a second host, the
comparison of `host_instance` and identities that only a handshake registers,
are each enough; the model has both.

Of `HostStart` it assumes `StartAssumption` (hosts, older hosts and the
sentinels are distinct). That one host works follows from what each statement of
`serve` holds: the owner lock keeps out the hosts of this version, and
`host.lock` an older one, because its exclusive and its shared holders never
meet, in spite of the moment in its conversion when nobody holds it. Endpoint
and `host-exit.json` follow from the one host that works: only it binds,
unlinks and records, so that a record it has written stays (`noted`), and what it takes for stale was bound by a process whose
socket is closed, unless somebody put something else there since. The action
property `EndpointPreserved` comes from the same invariant.

Of `ChildInventory` it assumes `InventoryAssumption` (host and init are no pids
of the table) and, for `EmptySession`, that a process does not leave its session
after it forked (`~LateDetach`; the divergence above shows that the property is
false otherwise). `TreeInv` says what the process table then is: a parent in the
table lives, the parent of a process in the session is in it or is the host, and
each set of processes has one whose parent is outside it, which is how acyclic
is said without an induction. `ScanInv` says what a scan that found nothing has
`Ahead` of it: if anything is in the session, then a child of the host that
stays, because it has forked or ended and only the host, which does not reap
during a scan, could give its pid away; or everything in the session is a child
of the host still to be visited. So the order of the visits, forks behind the
walk and reused pids do not matter, and an empty frontier means an empty
session (`SessionAlwaysEmpty`). That signals hit only processes of the terminal
(`OnlyOwnAlwaysSignalled`) needs neither: what `verify_child` confirmed is a
child of the host, and the host signals it before it reaps anything. With
`EndpointAlwaysPreserved` that is `NothingForeignTaken`.

Of `Terminals`, `HostProofs` assumes `TerminalsAssumption` (keys come in an
order, bounds are numbers). An input is typed only where its sender is the owner in its
epoch; that this is the attachment it was sent under needs that the epoch of a
live session counts every change of hands, and that a session is not live any
more when a restart resets it. What lives stays live on disk because every save
writes all slots, and the slot of a shell is live until the shell is gone. A
terminal that was opened is not opened again because a key is never dropped
from the slots or from the tombstones.

`DiskProofs` holds four components. It proves that the store implements
`WorkspaceRegister` for every number of processes, edits and revisions. The invariant says that the
holder of the lock has the current definition as its base from the comparison
of revisions on, and that only the holder writes; the step that replaces the
file is then the compare-and-swap of the register and every other step a
stutter, a failed synchronisation after the rename included. The same
invariant, with what each step of a save has already copied, gives
`BackupsRecoverable`.

For `Install` it assumes `InstallAssumption`
(verified generations are generations, versions and binaries are numbers).
`InstallInv` says of each statement of an activation what has been done before
it, what the journal needs to finish or to undo it, and what holds of links,
launcher and inventory once nobody is at work; `InstallSafety` follows, and
with it `NoDowngrade`, which no run spends a property on. For `Retention` it
assumes `LimitsAssumption` (the limits are numbers). `HistoryFits`, that ledger
and memory hold no more ordinary and pinned Runs than the limits allow, follows
from what each step checks before it saves (`Bounded`). It does not need that
reserved places are kept, which they are not: a start is refused instead (see
the divergence at `run.rs:1435`). `RetentionInv` says that the ledger on disk, and while a
host is there the one in memory, is `Sound`: no run is both recorded and
retired, every record that ended has its files, a body that was ever charged is
still named, and every charged file that is there is answered for. Memory must
be sound on its own, because a save that failed leaves the two apart and
the next one writes memory; and no retired run may still be recorded on disk,
since its files are being removed.

For `ProjectTrust`, `DiskProofs` assumes `TrustAssumption` (ranges of the constants; the
keys of declarations are no IDs of the user's own tasks; `Nothing` is no
binding). `DefinitionInv` says that a definition is sound (`DefinitionSound`): whatever edits and
synchronisations did to it, each approval in it is one that a user confirmed,
and it manages only keys that declarations have. So `LaunchTask`, and a
terminal whose approval matches, execute what was confirmed. A terminal that
needs no approval of its own is left: it starts natively where the user chose,
and `ShellInv` says that a declared program is in use only by the declaration
that is bound, which asks for the review of the shell. The theorem
`OnlyConfirmedAlwaysLaunched` therefore has a premise: no declaration names the
default shell. The property knows a declared program by its name alone, and a
project without a declaration starts the default shell unasked, as it should.
The lemma `LaunchReviewed` says what holds without the premise: whenever the
binding asks for the review, it was given. `SyncInv` says that a resolution
that is still current has no conflict; an edit after it raises the revision,
and then `apply` refuses. `SyncAlwaysKeepsUserTasks` follows from what
`resolve_for` makes of such a definition.

`ScreenProofs` assumes nothing of the bounds and capacities of `TerminalIO`.
Its three properties have invariants of their own. `ViewInv`: nobody's
revision is ahead of the screen, and the view of the current revision is the
current one, because whatever changes a view raises the revision
(`ScreenStep`). `TypingInv` names, for every packet queued for the PTY, the
first user byte not yet written before it: the packets continue what arrived
without a gap and, while input is accepted, reach to the last byte accepted. It
needs no premise, so `TypedAlwaysInOrder` covers failing writes. `PrefixInv`
numbers the chunks in the file, in the writer's hand, in the channel and in the
collector's hand; it holds however threads are scheduled, and however reads
fail with `NothingSkipped` as its premise: what a pipe that failed had left is
skipped when the other is read on (`LogAlwaysPrefix`). `EndSound` and `WriterSound` say that a collection ends by
reading everything or is called partial, and that the writer ends after it with
an empty channel. They need the premises that reads do not fail
(`~ReadErrors`) and that the log writer is not preempted between its timeout
and its look at the run (`~LateWriter`); the divergences above show that
`OutputLogTruthful` is false without either.

`UiProofs` holds three parts of the UI. The runtime is proved for every number
of hosts, clients and keys, from no assumption. A request is carried out only
by the host it was meant for (`ActsOnlyOnTheHostSeen`) because what the UI
knows, the answers on their way and the worker never go back to an earlier host
(`HostsOrdered`), and because no answer of another host comes before one that
attaches a terminal (`AttachedInOrder`). For `GapsAlwaysSeen` the invariant says
of each lost key that nothing typed after it is ahead of the news of the loss:
the input that follows is still held back in the queue, or the answer that tells
comes first, or the UI knows.

The Git tab assumes `PagesAssumption` and `TextsAssumption` (which pages there
are; 0 is the empty message). Its answers may come in any order, so everything
hangs on the nonces: `GitInv` says that each is used for one question, that the
plan asked for under a nonce is the confirmed one as long as its dialog was not
left, and that a message with a commit under way is the text of that commit,
because it cannot be edited while it is waited for. `OnlyConfirmedPlansExecuted`,
`BusyAlwaysMatches` and `DraftAlwaysKept` follow.

Attachments assume `NothingAssumption` (the sentinel is no question). The
history variable `agreed` counts, for each session, the takeovers the user
confirmed and the host has not carried out; `Confirmed` says that the takeovers
in the queue are never more. That is why no repeated, late or dropped request
takes a terminal over unasked (`TakeoversAlwaysConfirmed`). The key that waits
for an attachment waits for the last request of the present view, which is in
the queue, on its way back, or the question on the screen, unless it was `cut`
off from them (`Waits`):
`NothingAlwaysLeftBehind`.

Of `UiRuns`, `ScreenProofs` assumes `LimitsAssumption` (the limits of the queue are numbers).
An answer is applied by the intent of its request, so its lemmas say how a step
changes the intents: some are forgotten, those kept say the same, and a new one
says what was asked where the user now is (`Sends`). `RunsInv` has that nothing
but reads are cancelled, so that the answer to a cancellation can not be taken
for an approval, and that a start that waits for an approval of the present
visit is consented to: every way of leaving raises the epoch or drops the start.
With it `StartsAlwaysConfirmed` holds for every order of answers and jobs. The
log on the screen has no hole whatever is asked twice, late or cancelled
(`LogAlwaysContiguous`), because `Continues` looks at the position and not at the
request. The way back through raw pages rests on the requests instead: one page
is asked for in a visit, a neighbour of the one shown (`PagesInv`). The answer
to a cancelled read comes under a later visit, so `PagesInvariance` and
`PiecesAlwaysFit` have the premise `PageReadsNotCancelled`, that `x` is not
pressed while a raw page is read; without it TLC shows `BackIsThePath` to be
false (see the divergence at `ui/runs.rs:1275`).

Not proved. Liveness, with ENABLED, is out of the prover's reach: the six
properties of the run `liveness` are model-checked only. Every other property of
a passing run is proved, some under a premise named above; where a premise
fails, what the model checker then shows is among the divergences.
Type invariants are proved where an induction needs them and otherwise written
beside the variables as their documentation; runs spend their properties
elsewhere.

## Not modelled

- Contexts and read jobs of the host's Git bridge with the workers that read,
  and the expiry of plans there.
- The accept loop and the pool of IPC workers: requests reach the actor one at
  a time. Framing and peer credentials are I/O.
- Editor slots, search and resize of terminals; the emulation of cells and
  modes, which a library does.
- In the UI: project switches, the Problems, Search and Events pages, findings
  (paged like raw results), selection and marking in the Git tab, more than one
  repository, forms, drawing, and attaching from the command line, the takeover
  of a Run's terminal without a question (`ui/runs.rs:589`) included.
- Measurement of artifacts, comparison of results, and the byte budget of
  result bodies.
- Parsing and formatting (Git output, declarations, problems, packages,
  manifests), discovery, doctor, command construction and the command line:
  they have no state that outlives a call.

## Plan

What could come next: the contexts and read jobs of the Git bridge with the
expiry of plans, a composition of `RunHost` with `HostSourceUse`, so that the
end of a host covers both of its workers at once, and the order of editor slots
in `Terminals`.
