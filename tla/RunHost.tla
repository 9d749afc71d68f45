------------------------------ MODULE RunHost ------------------------------
(***************************************************************************)
(* The host actor and its run worker in one host: session slots and their  *)
(* closing (host/actor.rs), the two bounded queues between actor and       *)
(* worker, deferred source observations and shared starts (host/           *)
(* run_jobs.rs), around the run registry that the worker owns.  The actor  *)
(* learns of a run only from events and the worker of a process only from  *)
(* what the actor submits; each step below is one section of Actor::tick,  *)
(* one request, or one stretch of the worker between two looks at anything *)
(* the other side can change.                                              *)
(*                                                                         *)
(* An operator named ...Mutant is a plausible defect of the definition     *)
(* after it; no action uses it, the properties are tested against it.      *)
(***************************************************************************)
EXTENDS RunRegistry, SequencesExt

CONSTANTS Jobs,           \* start requests, each with the session slot made for it
          JobOperation, JobTask,
          JobRun,         \* the id new_id() gives to the execution it reserves
          ParallelJobs,   \* requests with parallel set
          ShellTasks,     \* tasks run by a managed shell: bootstrap input, SIGHUP
          QueueLimit,     \* the work and event channels (32)
          DeferredLimit,  \* LIMIT_DEFERRED
          AskedRuns,      \* runs whose cancellation clients ask for by run id
          Forces,         \* force flags clients send with a close
          LaunchMayDie,   \* the shell-preparation worker may die
          NoJob, NoSlot

ASSUME RunHostAssumption ==
    /\ JobOperation \in [Jobs -> RunOperations] /\ JobTask \in [Jobs -> Tasks]
    /\ JobRun \in [Jobs -> RunIds]
    /\ \A i, j \in Jobs : JobRun[i] = JobRun[j] => i = j
    /\ ParallelJobs \subseteq Jobs /\ ShellTasks \subseteq Tasks
    /\ QueueLimit \in Nat \ {0} /\ DeferredLimit \in Nat
    /\ AskedRuns \subseteq RunIds /\ Forces \subseteq BOOLEAN /\ LaunchMayDie \in BOOLEAN
    /\ IsFiniteSet(Jobs) /\ NoJob \notin Jobs

VARIABLES slots,       \* Actor.slots, by the job that made them
          jobs,        \* Bridge.jobs: what a client polling its job is told
          works,       \* the channel of Work
          events,      \* the channel of Event
          outbox,      \* events the worker has yet to send
          busy,        \* the start or end the worker is in the middle of
          deferred,    \* deferred[r]: slots waiting for r's observation
          outstanding, \* Bridge.pending
          runsDead, launchDead, quiescing,
          signalled    \* runs whose processes the host has signalled

actorVars == <<slots, jobs, runsDead, launchDead, quiescing, signalled>>
workerVars == <<outbox, busy, deferred>>
runHostVars == <<vars, actorVars, works, events, workerVars, outstanding>>

\* preparing outlives the state "preparing" of a slot closed meanwhile.
\* final is RunFinalization.
Slot == [state : {"preparing", "running", "closing", "ended"}, preparing : BOOLEAN,
         run : RunIds \union {NoRun}, runtime : BOOLEAN,
         cancel : BOOLEAN, requested : BOOLEAN, force : BOOLEAN,
         durable : BOOLEAN, cancelling : BOOLEAN,
         final : {"pending", "inflight", "done"}]

Work == [kind : {"start", "cancel", "ask", "finish"},
         job : Jobs \union {NoJob}, run : RunIds \union {NoRun}]

\* runtime: it carries the process.  existing: it names another's run.
\* confirmed and requested: cleanup_confirmed and cancel_requested of its run.
Event == [kind : {"start", "finish", "cancel", "ask", "timeout"},
          job : Jobs \union {NoJob}, run : RunIds \union {NoRun},
          ok : BOOLEAN, runtime : BOOLEAN, existing : BOOLEAN,
          confirmed : BOOLEAN, requested : BOOLEAN]

Busy == [run : RunIds, jobs : Seq(Jobs)]
JobState == {"none", "pending", "answered", "lost"}

ASSUME RunHostSentinels == NoSlot \notin Slot /\ NoRun \notin RunIds \union Busy

RunHostTypeOK ==
    /\ RegistryTypeOK
    /\ slots \in [Jobs -> Slot \union {NoSlot}]
    /\ jobs \in [Jobs -> JobState]
    /\ works \in Seq(Work) /\ Len(works) <= QueueLimit
    /\ events \in Seq(Event) /\ Len(events) <= QueueLimit
    /\ outbox \in Seq(Event)
    /\ busy \in Busy \union {NoRun}
    /\ deferred \in [RunIds -> Seq(Jobs)]
    /\ outstanding \in Nat
    /\ runsDead \in BOOLEAN /\ launchDead \in BOOLEAN /\ quiescing \in BOOLEAN
    /\ signalled \subseteq RunIds

RunHostInit ==
    /\ RegistryInit
    /\ slots = [j \in Jobs |-> NoSlot]
    /\ jobs = [j \in Jobs |-> "none"]
    /\ works = <<>> /\ events = <<>> /\ outbox = <<>>
    /\ busy = NoRun
    /\ deferred = [r \in RunIds |-> <<>>]
    /\ outstanding = 0
    /\ runsDead = FALSE /\ launchDead = FALSE /\ quiescing = FALSE
    /\ signalled = {}
-----------------------------------------------------------------------------
Opened == {j \in Jobs : slots[j] # NoSlot}
SlotLive(slot) == slot.state # "ended"
Owners(r) == {j \in Opened : slots[j].run = r}
Deferred == {r \in RunIds : deferred[r] # <<>>}
Connected == registry = "open"

\* try_send of the Bridge: refused when the channel is full or the worker gone.
CanSend == Connected /\ ~runsDead /\ Len(works) < QueueLimit
Send(work) == works' = Append(works, work)
SendIfPossible(work) == IF CanSend THEN Send(work) ELSE UNCHANGED works

\* Work is counted when it is sent and when its event has been received.
Count(received) == outstanding' = outstanding + (Len(works') - Len(works)) - received

CancelWork(r) == [kind |-> "cancel", job |-> NoJob, run |-> r]

NeedsCancelMutant(slot) == FALSE
\* request_close: the process of a run is closed by way of the registry,
\* until the cancellation is durable or nobody can record it.
NeedsCancel(slot) ==
    slot.run # NoRun /\ ~slot.durable /\ ~runsDead /\ SlotLive(slot)

Closing(slot, force, sent) ==
    [slot EXCEPT !.state = "closing", !.cancel = TRUE, !.requested = TRUE,
                 !.force = @ \/ force, !.cancelling = @ \/ sent]

\* request_close of several slots, in one handler of the actor.  A slot whose
\* cancellation does not fit in the queue is left alone.
CloseSlots(targets, force) ==
    LET asking == {j \in targets : NeedsCancel(slots[j]) /\ ~slots[j].cancelling}
        room == IF Connected /\ ~runsDead THEN QueueLimit - Len(works) ELSE 0
    IN
    \E sent \in SUBSET asking :
        /\ Cardinality(sent) = Min({room, Cardinality(asking)})
        /\ slots' = [j \in Jobs |->
              IF j \in targets \ (asking \ sent) /\ SlotLive(slots[j])
              THEN Closing(slots[j], force, j \in sent) ELSE slots[j]]
        /\ works' = works \o SetToSeq({CancelWork(slots[j].run) : j \in sent})
        /\ Count(0)
        /\ signalled' = signalled \union {slots[j].run : j \in
              {k \in targets : SlotLive(slots[k]) /\ ~NeedsCancel(slots[k]) /\ slots[k].runtime}}
-----------------------------------------------------------------------------
(* Requests to the actor. *)

NewSlot == [state |-> "preparing", preparing |-> TRUE, run |-> NoRun, runtime |-> FALSE,
            cancel |-> FALSE, requested |-> FALSE, force |-> FALSE,
            durable |-> FALSE, cancelling |-> FALSE, final |-> "pending"]

\* run_request for a start; a request that cannot be queued leaves no slot.
SubmitStart(j) ==
    /\ Connected /\ ~quiescing /\ jobs[j] = "none" /\ CanSend
    /\ slots' = [slots EXCEPT ![j] = NewSlot]
    /\ jobs' = [jobs EXCEPT ![j] = "pending"]
    /\ Send([kind |-> "start", job |-> j, run |-> NoRun]) /\ Count(0)
    /\ UNCHANGED <<vars, events, workerVars, runsDead, launchDead, quiescing, signalled>>

\* RunRequest::Cancel from any client that knows the run.
AskCancel(r) ==
    /\ r \in AskedRuns /\ CanSend /\ runs[r] # NoRun
    /\ Send([kind |-> "ask", job |-> NoJob, run |-> r]) /\ Count(0)
    /\ UNCHANGED <<vars, actorVars, events, workerVars>>

\* Close
CloseSession(j, force) ==
    /\ j \in Opened /\ SlotLive(slots[j])
    /\ CloseSlots({j}, force)
    /\ UNCHANGED <<vars, jobs, events, workerVars, runsDead, launchDead, quiescing>>

\* CancelJob: the flag reaches the worker even when the slot has ended.
CancelJob(j) ==
    /\ jobs[j] = "pending"
    /\ IF SlotLive(slots[j])
       THEN CloseSlots({j}, FALSE)
       ELSE /\ slots' = [slots EXCEPT ![j].cancel = TRUE]
            /\ UNCHANGED <<works, outstanding, signalled>>
    /\ UNCHANGED <<vars, jobs, events, workerVars, runsDead, launchDead, quiescing>>

\* close_many for the whole host: shutdown begins.
CloseAll(force) ==
    /\ Connected \/ runsDead
    /\ quiescing' = TRUE
    /\ CloseSlots({j \in Opened : SlotLive(slots[j])}, force)
    /\ UNCHANGED <<vars, jobs, events, workerVars, runsDead, launchDead>>
-----------------------------------------------------------------------------
(* accept_run_event *)

\* accept_prepared, for the process of a run.  recorded: the session ledger
\* was saved; refused: the terminal did not take the bootstrap input.
Accept(e, recorded, refused) ==
    LET slot == [slots[e.job] EXCEPT !.run = e.run, !.durable = e.requested,
                     !.cancel = @ \/ ~e.ok, !.preparing = FALSE, !.runtime = TRUE]
        stop == slot.cancel \/ quiescing \/ ~recorded
        stopped == [slot EXCEPT !.state = "closing", !.requested = TRUE]
    IN
    \/ /\ stop
       /\ slots' = [slots EXCEPT ![e.job] = stopped]
       /\ IF slot.durable
          THEN signalled' = signalled \union {e.run} /\ UNCHANGED works
          ELSE SendIfPossible(CancelWork(e.run)) /\ UNCHANGED signalled
    \/ /\ ~stop /\ ~refused
       /\ slots' = [slots EXCEPT ![e.job] = [slot EXCEPT !.state = "running"]]
       /\ UNCHANGED <<works, signalled>>
    \/ /\ ~stop /\ refused /\ JobTask[e.job] \in ShellTasks
       /\ slots' = [slots EXCEPT ![e.job] = stopped]
       /\ signalled' = signalled \union {e.run}
       /\ UNCHANGED works

\* The answer to a start that made no process.
Answered(slot, e) ==
    IF e.ok /\ e.existing
    THEN [slot EXCEPT !.preparing = FALSE, !.state = "ended", !.final = "done"]
    ELSE IF slot.preparing
    THEN [slot EXCEPT !.preparing = FALSE, !.state = "ended", !.run = e.run,
                      !.final = IF e.run # NoRun /\ ~e.confirmed THEN "pending" ELSE "done"]
    ELSE slot

\* A cancellation is durable: the process may be signalled.
CancelRecorded(slot) ==
    [IF SlotLive(slot) THEN Closing(slot, FALSE, FALSE) ELSE slot
        EXCEPT !.durable = TRUE, !.cancelling = FALSE]

ReceiveStart(e) ==
    /\ jobs' = [jobs EXCEPT ![e.job] = "answered"]
    /\ IF e.runtime
       THEN \E recorded, refused \in BOOLEAN : Accept(e, recorded, refused)
       ELSE /\ slots' = [slots EXCEPT ![e.job] = Answered(@, e)]
            /\ UNCHANGED <<works, signalled>>

CancelFailedMutant(slot) == slot
CancelFailed(slot) == [slot EXCEPT !.cancelling = FALSE]

ReceiveCancel(e) ==
    /\ IF e.ok
       THEN /\ slots' = [j \in Jobs |-> IF j \in Owners(e.run)
                                        THEN CancelRecorded(slots[j]) ELSE slots[j]]
            /\ signalled' = IF \E j \in Owners(e.run) : SlotLive(slots[j]) /\ slots[j].runtime
                            THEN signalled \union {e.run} ELSE signalled
       ELSE /\ slots' = [j \in Jobs |-> IF e.kind # "ask" /\ j \in Owners(e.run)
                                        THEN CancelFailed(slots[j]) ELSE slots[j]]
            /\ UNCHANGED signalled
    /\ UNCHANGED <<jobs, works>>

FinalizationMutant(ok) == "done"
FinalizationStuckMutant(ok) == IF ok THEN "done" ELSE "inflight"
Finalization(ok) == IF ok THEN "done" ELSE "pending"

ReceiveFinish(e) ==
    /\ slots' = [slots EXCEPT ![e.job].final = Finalization(e.ok)]
    /\ UNCHANGED <<jobs, works, signalled>>

\* Bridge::poll and accept_run_event.
Receive ==
    /\ events # <<>>
    /\ events' = Tail(events)
    /\ LET e == Head(events) IN
       /\ \/ e.kind = "start" /\ ReceiveStart(e)
          \/ e.kind \in {"cancel", "ask", "timeout"} /\ ReceiveCancel(e)
          \/ e.kind = "finish" /\ ReceiveFinish(e)
       /\ Count(IF e.kind = "timeout" THEN 0 ELSE 1)
    /\ UNCHANGED <<vars, workerVars, runsDead, launchDead, quiescing>>
-----------------------------------------------------------------------------
(* The rest of Actor::tick. *)

LostMutant(job) == job
Lost(job) == IF job = "pending" THEN "lost" ELSE job

OrphanedMutant(slot) ==
    IF slot.run = NoRun /\ slot.preparing
    THEN [slot EXCEPT !.preparing = FALSE, !.state = "ended", !.final = "done"]
    ELSE slot
\* Nobody is left to record the end of its run, or to answer its start.
Orphaned(slot) ==
    IF slot.run # NoRun
    THEN [slot EXCEPT !.final = "done", !.cancelling = @ /\ ~SlotLive(slot)]
    ELSE IF slot.preparing
    THEN [slot EXCEPT !.preparing = FALSE, !.state = "ended", !.final = "done"]
    ELSE slot

\* mark_dead and mark_runs_dead, once every event has been received.
MarkRunsDead ==
    /\ registry \in {"dying", "unlisted", "lost"} /\ events = <<>> /\ ~runsDead
    /\ runsDead' = TRUE
    /\ jobs' = [j \in Jobs |-> Lost(jobs[j])]
    /\ slots' = [j \in Jobs |-> IF j \in Opened THEN Orphaned(slots[j]) ELSE NoSlot]
    /\ UNCHANGED <<vars, works, events, workerVars, outstanding, launchDead, quiescing, signalled>>

RetryCancel(j) ==
    /\ j \in Opened /\ NeedsCancel(slots[j])
    /\ slots[j].requested /\ ~slots[j].cancelling /\ CanSend
    /\ slots' = [slots EXCEPT ![j].cancelling = TRUE]
    /\ Send(CancelWork(slots[j].run)) /\ Count(0)
    /\ UNCHANGED <<vars, jobs, events, workerVars, runsDead, launchDead, quiescing, signalled>>

\* fail_pending_prepares
LaunchDies ==
    /\ LaunchMayDie /\ ~launchDead
    /\ launchDead' = TRUE
    /\ slots' = [j \in Jobs |->
          IF j \in Opened /\ slots[j].preparing
          THEN [slots[j] EXCEPT !.preparing = FALSE, !.state = "ended"] ELSE slots[j]]
    /\ UNCHANGED <<vars, jobs, works, events, workerVars, outstanding, runsDead, quiescing, signalled>>

\* Two seconds after the close of a process task.
ForceAfterGrace(j) ==
    /\ j \in Opened /\ slots[j].runtime /\ slots[j].requested /\ ~slots[j].force
    /\ JobTask[j] \notin ShellTasks
    /\ slots[j].durable \/ runsDead
    /\ slots' = [slots EXCEPT ![j].force = TRUE]
    /\ signalled' = signalled \union {slots[j].run}
    /\ UNCHANGED <<vars, jobs, works, events, workerVars, outstanding, runsDead, launchDead, quiescing>>

\* The leader of the process tree was found to have exited.
ObserveExit(j) ==
    /\ j \in Opened /\ slots[j].runtime /\ slots[j].state = "running"
    /\ slots' = [slots EXCEPT ![j].state = "closing"]
    /\ UNCHANGED <<vars, jobs, works, events, workerVars, outstanding, runsDead, launchDead, quiescing, signalled>>

\* The inventory of the leader's session is empty and the leader is reaped.
Reap(j) ==
    /\ j \in Opened /\ slots[j].runtime /\ slots[j].state = "closing"
    /\ child[slots[j].run] = NoTask
    /\ slots' = [slots EXCEPT ![j].runtime = FALSE, ![j].state = "ended"]
    /\ UNCHANGED <<vars, jobs, works, events, workerVars, outstanding, runsDead, launchDead, quiescing, signalled>>

\* final_runs
SendFinish(j) ==
    /\ j \in Opened /\ slots[j].run # NoRun
    /\ ~SlotLive(slots[j]) /\ ~slots[j].preparing /\ ~slots[j].runtime
    /\ slots[j].final = "pending" /\ CanSend
    /\ slots' = [slots EXCEPT ![j].final = "inflight"]
    /\ Send([kind |-> "finish", job |-> j, run |-> slots[j].run]) /\ Count(0)
    /\ UNCHANGED <<vars, jobs, events, workerVars, runsDead, launchDead, quiescing, signalled>>

\* Actor::finished, but for the Git side.
Finished ==
    /\ quiescing /\ (outstanding = 0 \/ runsDead)
    /\ \A j \in Opened :
          /\ ~SlotLive(slots[j]) /\ ~slots[j].preparing /\ ~slots[j].runtime
          /\ slots[j].final = "done" \/ slots[j].run = NoRun
-----------------------------------------------------------------------------
(* The worker. *)

\* Between two items of work.
WorkerFree == Idle /\ busy = NoRun /\ outbox = <<>>
Taking(kind) == WorkerFree /\ works # <<>> /\ Head(works).kind = kind /\ works' = Tail(works)

Reply(kind, j, r, ok) ==
    [kind |-> kind, job |-> j, run |-> r, ok |-> ok, runtime |-> FALSE,
     existing |-> FALSE, confirmed |-> FALSE, requested |-> FALSE]

\* What the requests that joined a start are told; they own nothing.
Shared(waiters, ok) ==
    [i \in DOMAIN waiters |->
        LET told == ok /\ ~slots[waiters[i]].cancel IN
        [Reply("start", waiters[i], NoRun, told) EXCEPT !.existing = told]]

\* The worker's own state when an item of work is done with one reply.
Replying(reply) == outbox' = <<reply>> /\ UNCHANGED <<busy, deferred>>

\* The end of the start in hand.
StartEnds(reply, waiting) ==
    /\ outbox' = <<reply>> \o Shared(waiting, reply.ok)
    /\ busy' = NoRun

\* A deferred start that the request repeats or would duplicate.
Joins(j, r) ==
    /\ pending[r] # NoTicket
    /\ \/ pending[r].operation = JobOperation[j]
       \/ pending[r].task = JobTask[j] /\ j \notin ParallelJobs
Joinable(j) == \E r \in Deferred : Joins(j, r)

\* request_events: it joins, or its digest or intent is not the same.
JoinStart ==
    /\ Taking("start")
    /\ LET j == Head(works).job IN
       \E r \in Deferred :
          /\ Joins(j, r)
          /\ \/ /\ pending[r].task = JobTask[j]
                /\ deferred' = [deferred EXCEPT ![r] = Append(@, j)]
                /\ UNCHANGED <<outbox, busy>>
             \/ Replying(Reply("start", j, NoRun, FALSE))
    /\ UNCHANGED <<vars, actorVars, events, outstanding>>

\* BeginReservation::Existing
Existing(op, t, parallel) ==
    \E r \in Recorded(runs) :
        /\ runs[r].task = t
        /\ runs[r].operation = op \/ (~parallel /\ Live(runs[r]))

\* A start that reserves nothing.
RefuseStart ==
    /\ Taking("start")
    /\ LET j == Head(works).job
           op == JobOperation[j]
           t == JobTask[j]
           parallel == j \in ParallelJobs
       IN
       /\ ~Joinable(j)
       /\ \/ slots[j].cancel /\ Replying(Reply("start", j, NoRun, FALSE)) /\ UNCHANGED vars
          \/ /\ ~slots[j].cancel /\ ~BeginAdmitted(op, t, parallel)
             /\ \E ok \in BOOLEAN :
                   /\ ok => Existing(op, t, parallel)
                   /\ Replying([Reply("start", j, NoRun, ok) EXCEPT !.existing = ok])
             /\ UNCHANGED vars
          \/ /\ ~slots[j].cancel
             /\ \E gone \in SUBSET RunIds :
                   \/ BeginRefused(op, t, parallel, gone)
                   \/ \E r \in RunIds : gone = {} /\ HistoryCutFails(op, t, parallel, r)
             /\ Replying(Reply("start", j, NoRun, FALSE))
    /\ UNCHANGED <<actorVars, events, outstanding>>

\* A reserved start waits for its observation, or the worker makes the
\* observation itself: no room, or no live observer.
ReserveStart ==
    /\ Taking("start")
    /\ LET j == Head(works).job
           r == JobRun[j]
       IN
       /\ ~Joinable(j) /\ ~slots[j].cancel
       /\ \E gone \in SUBSET RunIds :
             BeginReserve(r, JobOperation[j], JobTask[j], j \in ParallelJobs, gone)
       /\ \/ /\ Cardinality(Deferred) < DeferredLimit
             /\ deferred' = [deferred EXCEPT ![r] = <<j>>]
             /\ UNCHANGED busy
          \/ /\ busy' = [run |-> r, jobs |-> <<j>>]
             /\ UNCHANGED deferred
    /\ UNCHANGED <<actorVars, events, outbox, outstanding>>

InHand(r) == busy # NoRun /\ busy.run = r
Waiting(r) == IF InHand(r) THEN busy.jobs ELSE deferred[r]

CompletingMutant(r) == WorkerFree /\ r \in Deferred /\ UNCHANGED deferred
\* An entry leaves the list exactly once: its result, the end of its budget
\* and the loss of the observer all come here.
Completing(r) ==
    \/ WorkerFree /\ r \in Deferred /\ deferred' = [deferred EXCEPT ![r] = <<>>]
    \/ InHand(r) /\ UNCHANGED deferred

\* complete_start up to the durable record.
CommitStart(r, ok) ==
    /\ pending[r] # NoTicket
    /\ Completing(r)
    /\ LET j == Head(Waiting(r))
           waiters == Tail(Waiting(r))
       IN
       \/ /\ slots[j].cancel /\ BeginAbandon(r)
          /\ StartEnds(Reply("start", j, NoRun, FALSE), waiters)
       \/ /\ ~slots[j].cancel /\ BeginCommit(r, ok)
          /\ IF ok THEN busy' = [run |-> r, jobs |-> Waiting(r)] /\ UNCHANGED outbox
                   ELSE StartEnds(Reply("start", j, NoRun, FALSE), waiters)
    /\ UNCHANGED <<actorVars, works, events, outstanding>>

\* The check of the cancel flag and the creation of the process.
CreateProcess(r) ==
    /\ InHand(r) /\ ~slots[Head(busy.jobs)].cancel
    /\ SpawnProcess(r)
    /\ UNCHANGED <<actorVars, works, events, workerVars, outstanding>>

FailPreparation(r, ok) ==
    /\ InHand(r)
    /\ PreparationFails(r, slots[Head(busy.jobs)].cancel, ok)
    /\ UNCHANGED <<actorVars, works, events, workerVars, outstanding>>

\* The run in the reply is the final one, or the one from before a failed save.
ReportUnspawned(r, ok) ==
    /\ InHand(r)
    /\ FinishUnspawned(r, ok)
    /\ StartEnds([Reply("start", Head(busy.jobs), r, FALSE) EXCEPT !.confirmed = ok], Tail(busy.jobs))
    /\ UNCHANGED <<actorVars, works, events, deferred, outstanding>>

Spawned(j, r, ok, requested) ==
    [Reply("start", j, r, ok) EXCEPT !.runtime = TRUE, !.requested = requested]

\* mark_running; a save error cancels the process that the reply hands over.
RecordRunning(r, ok) ==
    /\ InHand(r)
    /\ MarkRunning(r, ok)
    /\ IF ok
       THEN UNCHANGED <<slots, outbox, busy>>
       ELSE /\ slots' = [slots EXCEPT ![Head(busy.jobs)].cancel = TRUE]
            /\ StartEnds(Spawned(Head(busy.jobs), r, FALSE, FALSE), Tail(busy.jobs))
    /\ UNCHANGED <<jobs, runsDead, launchDead, quiescing, signalled, works, events, deferred, outstanding>>

\* spawn_start after mark_running: the cancel flag is looked at once more.
ReportSpawned(r, ok) ==
    /\ InHand(r) /\ starting = NoRun /\ active[r] = "owned"
    /\ LET j == Head(busy.jobs) IN
       IF slots[j].cancel
       THEN Cancel(r, ok) /\ StartEnds(Spawned(j, r, ok, ok), Tail(busy.jobs))
       ELSE ok /\ UNCHANGED vars /\ StartEnds(Spawned(j, r, TRUE, FALSE), Tail(busy.jobs))
    /\ UNCHANGED <<actorVars, works, events, deferred, outstanding>>

\* Work::Cancel and RunRequest::Cancel.
HandleCancel(ok) ==
    /\ \/ Taking("cancel")
       \/ Taking("ask")
    /\ LET r == Head(works).run IN
       /\ IF Cancellable(r) THEN Cancel(r, ok) ELSE ~ok /\ UNCHANGED vars
       /\ Replying(Reply(Head(works).kind, NoJob, r, ok))
    /\ UNCHANGED <<actorVars, events, outstanding>>

\* The sweep for tasks whose time is up.
TimeOut(r, ok) ==
    /\ WorkerFree
    /\ active[r] = "owned" /\ runs[r].state \in {"Preparing", "Running"}
    /\ Cancel(r, ok)
    /\ Replying(Reply("timeout", NoJob, r, ok))
    /\ UNCHANGED <<actorVars, works, events, outstanding>>

\* finish_events: the end is deferred or observed at once.
BeginFinish ==
    /\ Taking("finish")
    /\ LET j == Head(works).job
           r == Head(works).run
       IN
       IF active[r] = "none"
       THEN UNCHANGED vars /\ Replying(Reply("finish", j, r, FALSE))
       ELSE /\ FinishProbe(r)
            /\ \/ /\ Cardinality(Deferred) < DeferredLimit
                  /\ deferred' = [deferred EXCEPT ![r] = <<j>>]
                  /\ UNCHANGED busy
               \/ busy' = [run |-> r, jobs |-> <<j>>] /\ UNCHANGED deferred
            /\ UNCHANGED outbox
    /\ UNCHANGED <<actorVars, events, outstanding>>

CompleteFinish(r, ok) ==
    /\ pending[r] = NoTicket /\ Completing(r)
    /\ FinishObserved(r, ok)
    /\ StartEnds(Reply("finish", Head(Waiting(r)), r, ok), <<>>)
    /\ UNCHANGED <<actorVars, works, events, outstanding>>

\* The worker waits here while the actor does not empty the channel.
SendEvent ==
    /\ Connected /\ outbox # <<>> /\ Len(events) < QueueLimit
    /\ events' = Append(events, Head(outbox))
    /\ outbox' = Tail(outbox)
    /\ UNCHANGED <<vars, actorVars, works, busy, deferred, outstanding>>

\* The thread ends; what it held goes, and what it sent stays.
WorkerDies ==
    /\ WorkerEnds
    /\ works' = <<>> /\ outbox' = <<>> /\ busy' = NoRun
    /\ deferred' = [r \in RunIds |-> <<>>]
    /\ UNCHANGED <<actorVars, events, outstanding>>

WorkerUnwinds ==
    /\ CloseSources \/ DropActive
    /\ UNCHANGED <<actorVars, works, events, workerVars, outstanding>>

HostStarts ==
    /\ Open({}, TRUE)
    /\ UNCHANGED <<actorVars, works, events, workerVars, outstanding>>

ProcessesEnd(r) ==
    /\ ChildExits(r)
    /\ UNCHANGED <<actorVars, works, events, workerVars, outstanding>>
-----------------------------------------------------------------------------
ClientStep ==
    \/ \E j \in Jobs : SubmitStart(j) \/ CancelJob(j)
    \/ \E r \in RunIds : AskCancel(r)
    \/ \E force \in Forces : CloseAll(force) \/ \E j \in Jobs : CloseSession(j, force)

TickStep ==
    \/ Receive \/ MarkRunsDead \/ LaunchDies
    \/ \E j \in Jobs : RetryCancel(j) \/ ForceAfterGrace(j) \/ ObserveExit(j) \/ Reap(j) \/ SendFinish(j)

AdvanceStart(r) ==
    \/ \E ok \in BOOLEAN : CommitStart(r, ok) \/ FailPreparation(r, ok) \/ ReportUnspawned(r, ok)
                           \/ RecordRunning(r, ok) \/ ReportSpawned(r, ok)
    \/ CreateProcess(r)

TakeWork ==
    \/ JoinStart \/ RefuseStart \/ ReserveStart \/ BeginFinish
    \/ \E ok \in BOOLEAN : HandleCancel(ok)

WorkerLoop ==
    \/ TakeWork \/ SendEvent
    \/ \E r \in RunIds : AdvanceStart(r)
    \/ \E r \in RunIds, ok \in BOOLEAN : TimeOut(r, ok) \/ CompleteFinish(r, ok)
    \/ WorkerDies \/ WorkerUnwinds

RunHostNext ==
    \/ HostStarts \/ ClientStep \/ TickStep \/ WorkerLoop
    \/ \E r \in RunIds : ProcessesEnd(r)

RunHostSafety == RunHostInit /\ [][RunHostNext]_runHostVars
-----------------------------------------------------------------------------
(***************************************************************************)
(* Fairness.  The host loop ticks every 10 ms and each section of a tick   *)
(* looks at every slot; the worker takes one item of work and sweeps its   *)
(* deferred entries in every iteration, and every entry has a budget.      *)
(* What a section wants to send needs room in the queue, and what the      *)
(* worker sweeps needs it to be between items: strong fairness.            *)
(***************************************************************************)
LeaderGone(j) == ObserveExit(j) /\ child[slots[j].run] = NoTask

ActorFairness ==
    /\ WF_runHostVars(Receive) /\ WF_runHostVars(MarkRunsDead)
    /\ \A j \in Jobs :
          /\ SF_runHostVars(RetryCancel(j)) /\ SF_runHostVars(SendFinish(j))
          /\ WF_runHostVars(ForceAfterGrace(j))
          /\ WF_runHostVars(LeaderGone(j)) /\ WF_runHostVars(Reap(j))

WorkerFairness ==
    /\ WF_runHostVars(SendEvent) /\ WF_runHostVars(WorkerUnwinds)
    /\ SF_runHostVars(TakeWork)
    /\ \A r \in RunIds :
          /\ WF_runHostVars(AdvanceStart(r))
          /\ SF_runHostVars(\E ok \in BOOLEAN : CommitStart(r, ok))

\* A save that is tried again and again succeeds at last.
DiskFairness ==
    \A r \in RunIds :
        /\ SF_runHostVars(HandleCancel(TRUE) /\ Head(works).run = r)
        /\ SF_runHostVars(CompleteFinish(r, TRUE))

\* Killed processes end; nothing else has to.
Killed(r) == r \in signalled /\ \E j \in Owners(r) : slots[j].force
KillFairness == \A r \in RunIds : WF_runHostVars(Killed(r) /\ ProcessesEnd(r))

RunFairness == ActorFairness /\ WorkerFairness /\ DiskFairness /\ KillFairness
RunHostSpec == RunHostSafety /\ RunFairness
-----------------------------------------------------------------------------
InFlight(kinds, r) ==
    \/ \E i \in DOMAIN outbox : outbox[i].kind \in kinds /\ outbox[i].run = r
    \/ \E i \in DOMAIN events : events[i].kind \in kinds /\ events[i].run = r

Answers(e) == e.kind # "timeout"
Answering(channel) == {i \in DOMAIN channel : Answers(channel[i])}

\* What the worker holds: the entry in its hand and those deferred.
HandJobs == IF busy = NoRun THEN <<>> ELSE busy.jobs
WaitPlaces == UNION {{r} \X DOMAIN deferred[r] : r \in RunIds}

(***************************************************************************)
(* Bridge.pending is the number of items the worker has yet to answer,     *)
(* whichever start they were joined to: one too few and a host that is     *)
(* shutting down leaves work behind, one too many and it never leaves.     *)
(***************************************************************************)
OutstandingCounts ==
    registry = "open" /\ ~runsDead =>
        outstanding = Len(works) + Len(HandJobs) + Cardinality(WaitPlaces)
            + Cardinality(Answering(outbox)) + Cardinality(Answering(events))

(***************************************************************************)
(* The actor reports the end of a run only when none of its processes is   *)
(* left: the worker takes the report for a confirmed cleanup.              *)
(***************************************************************************)
FinishAfterReap ==
    \A i \in DOMAIN works : works[i].kind = "finish" => child[works[i].run] = NoTask

(***************************************************************************)
(* A host whose worker lived does not end (Actor::finished) while a start  *)
(* is prepared, a process lives, or an outcome is not on disk.             *)
(***************************************************************************)
FinishedLosesNothing ==
    Finished /\ ~runsDead =>
        \A r \in RunIds :
            /\ pending[r] = NoTicket /\ child[r] = NoTask
            /\ active[r] \in {"none", "released"}
            /\ runs[r] # NoRun => ~Live(runs[r]) /\ ledger[r] \in {runs[r], NoRun}

(***************************************************************************)
(* While the worker lives, every run it holds has someone who will end it: *)
(* the start in hand, an event on its way to the actor, or a slot that     *)
(* still owes the Finish ("the original owner still owes Finish").         *)
(***************************************************************************)
OwedFinish ==
    registry = "open" => \A r \in RunIds : active[r] \in {"owned", "finishing"} =>
        \/ InHand(r) \/ InFlight({"start"}, r)
        \/ \E j \in Owners(r) : slots[j].final # "done"

(***************************************************************************)
(* No process of a run is signalled before its cancellation is durable,    *)
(* while there is a worker to record it ("Cancellation request is durable  *)
(* before the caller attempts owned process cleanup").                     *)
(***************************************************************************)
SignalAfterDurableCancel ==
    ~runsDead => \A r \in signalled : ledger[r] # NoRun => ledger[r].cancel_requested

(***************************************************************************)
(* While a client's job is pending someone still has it to answer: also a  *)
(* request that joined the start of another (request_events, Shared).      *)
(***************************************************************************)
JobsNotForgotten ==
    registry = "open" => \A j \in Jobs : jobs[j] = "pending" =>
        \/ \E i \in DOMAIN works : works[i].job = j
        \/ \E r \in RunIds : \E i \in DOMAIN Waiting(r) : Waiting(r)[i] = j
        \/ \E i \in DOMAIN (outbox \o events) : (outbox \o events)[i].job = j

(***************************************************************************)
(* Every start request gets its answer, or is told that the worker died.   *)
(***************************************************************************)
JobsAnswered == \A j \in Jobs : jobs[j] = "pending" ~> jobs[j] # "pending"

(***************************************************************************)
(* A session that ended with a run gets its outcome recorded, whichever    *)
(* saves fail on the way and whether or not the worker survives.           *)
(***************************************************************************)
Ending(j) == j \in Opened /\ slots[j].state = "ended" /\ slots[j].run # NoRun
RunsFinalized == \A j \in Jobs : Ending(j) ~> (j \in Opened /\ slots[j].final = "done")

(***************************************************************************)
(* A requested close reaches the processes of a run: through the durable   *)
(* cancellation, or without it once the worker is dead.                    *)
(***************************************************************************)
CloseWanted(j) == j \in Opened /\ slots[j].runtime /\ slots[j].requested
CloseReachesProcess ==
    \A j \in Jobs : CloseWanted(j) ~> (~CloseWanted(j) \/ slots[j].run \in signalled)

(***************************************************************************)
(* Shutdown completes once no session is left that was not asked to close: *)
(* work that a dead worker never did does not hold the host back.          *)
(***************************************************************************)
ShuttingDown ==
    /\ quiescing
    /\ \A j \in Opened : SlotLive(slots[j]) => slots[j].requested
ShutdownCompletes == ShuttingDown ~> Finished
=============================================================================
