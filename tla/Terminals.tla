----------------------------- MODULE Terminals -----------------------------
(***************************************************************************)
(* The terminals of one user host (host/actor.rs): starting and reopening, *)
(* the shell-preparation worker (host/launch.rs), input ownership, closing *)
(* one terminal or all that were reviewed, the default-open batch, and the *)
(* durable tombstones that the next host starts from.  A session stands    *)
(* for its random identity; the descendants of a shell are in              *)
(* ChildInventory.                                                         *)
(*                                                                         *)
(* An operator named ...Mutant is a plausible defect of the definition     *)
(* after it; no action uses it, the properties are tested against it.      *)
(***************************************************************************)
EXTENDS FiniteSets, Naturals, Sequences

CONSTANTS Keys,         \* saved terminals of the project, in their order
          Viewers,
          MaxSessions,  \* bound on the sessions ever created
          MaxEpoch,     \* bound on the ownership changes of a session
          MaxLive,      \* MAX_TERMINALS
          None

ASSUME TerminalsAssumption ==
    /\ Keys \in Seq({Keys[i] : i \in DOMAIN Keys})
    /\ MaxSessions \in Nat /\ MaxEpoch \in Nat

VARIABLES slot,       \* the sessions the actor tracks
          ledger,     \* their durable tombstones
          next,       \* the next session identity
          up, quiescing, launchDead,
          stage,      \* what the launch worker has of a session
          process,    \* the shell of a session
          bootstrapped, \* sessions whose bootstrap input was written
          batch,      \* the default-open batch
          opened,    \* the sessions ever scheduled: their key, and whether a reopening was asked for
          known,      \* what a client learnt when it attached
          inputs,     \* inputs on their way to the host
          era,        \* how often a session changed hands
          typed       \* the last input that reached a shell

actorVars == <<slot, ledger, next, up, quiescing, launchDead>>
shellVars == <<stage, process, bootstrapped, opened>>
viewerVars == <<known, inputs, era, typed>>
terminalVars == <<actorVars, shellVars, viewerVars, batch>>

Sessions == 1..MaxSessions
Live == {"preparing", "running", "closing"}
Ended == {"exited", "closed", "failed", "unknown"}
NoBatch == [state |-> "none", remaining |-> <<>>, waiting |-> None]
Slot == [key : {Keys[i] : i \in DOMAIN Keys}, state : Live \cup Ended,
         owner : Viewers \cup {None}, epoch : 0..MaxEpoch,
         preparing : BOOLEAN, runtime : BOOLEAN, cancel : BOOLEAN, requested : BOOLEAN, exit : BOOLEAN, settled : BOOLEAN]

KeySet == {Keys[i] : i \in DOMAIN Keys}
Tracked == DOMAIN slot
IsLive(s) == slot[s].state \in Live
LiveSessions == {s \in Tracked : IsLive(s)}
OfKey(k) == {s \in Tracked : slot[s].key = k}

\* What the ledger keeps of a slot.
Tombstones(slots) == [s \in DOMAIN slots |-> [key |-> slots[s].key, state |-> slots[s].state]]

\* A save that fails may have become visible (store.rs write_state).
Persisted(slots, ok) ==
    IF ok THEN ledger' = Tombstones(slots) ELSE ledger' \in {ledger, Tombstones(slots)}

TerminalsInit ==
    /\ slot = <<>> /\ ledger = <<>> /\ next = 1
    /\ up = TRUE /\ quiescing = FALSE /\ launchDead = FALSE
    /\ stage = [s \in Sessions |-> "none"]
    /\ process = [s \in Sessions |-> "none"]
    /\ bootstrapped = {} /\ opened = <<>>
    /\ batch = NoBatch
    /\ known = [c \in Viewers |-> [session |-> 0, epoch |-> 0, era |-> 0]]
    /\ inputs = {} /\ era = [s \in Sessions |-> 0] /\ typed = None
-----------------------------------------------------------------------------
(* Starting. *)
FreshSlot(k) ==
    [key |-> k, state |-> "preparing", owner |-> None, epoch |-> 0,
     preparing |-> TRUE, runtime |-> FALSE, cancel |-> FALSE, requested |-> FALSE, exit |-> FALSE, settled |-> FALSE]
With(k) ==
    [x \in (Tracked \ OfKey(k)) \cup {next} |-> IF x = next THEN FreshSlot(k) ELSE slot[x]]

\* A key that was ever tracked is opened again only on explicit request; one
\* that lives is given back as it is.
AdmittedMutant(k, reopen) ==
    /\ up /\ ~quiescing /\ ~launchDead /\ next \in Sessions
    /\ \A s \in OfKey(k) :
         ~IsLive(s) /\ (reopen \/ slot[s].state # "unknown") /\ ~slot[s].runtime
    /\ Cardinality(LiveSessions) < MaxLive
Admitted(k, reopen) ==
    /\ up /\ ~quiescing /\ ~launchDead /\ next \in Sessions
    /\ \A s \in OfKey(k) : ~IsLive(s) /\ reopen /\ ~slot[s].runtime
    /\ Cardinality(LiveSessions) < MaxLive

\* The Preparing record is durable before the job is queued.
Scheduled(k, reopen) ==
    /\ slot' = With(k) /\ Persisted(With(k), TRUE)
    /\ next' = next + 1
    /\ stage' = [stage EXCEPT ![next] = "queued"]
    /\ opened' = [s \in DOMAIN opened \cup {next} |->
                   IF s = next THEN [key |-> k, reopen |-> reopen] ELSE opened[s]]

\* A failed save or a full queue: the previous slot comes back, and a second
\* save is tried.
NotScheduled(k) ==
    /\ ledger' \in {ledger, Tombstones(With(k)), Tombstones(slot)}
    /\ next' = next + 1
    /\ UNCHANGED <<slot, stage, opened>>

StartTerminal(k, reopen) ==
    /\ Admitted(k, reopen)
    /\ Scheduled(k, reopen) \/ NotScheduled(k)
    /\ UNCHANGED <<up, quiescing, launchDead, process, bootstrapped, batch, viewerVars>>
-----------------------------------------------------------------------------
(* The launch worker. *)
\* A plan is checked and a shell created, unless the start was cancelled or
\* the plan is refused.
Prepare(s) ==
    /\ up /\ ~launchDead /\ stage[s] = "queued"
    /\ \/ stage' = [stage EXCEPT ![s] = "refused"] /\ UNCHANGED process
       \/ /\ ~slot[s].cancel
          /\ stage' = [stage EXCEPT ![s] = "spawned"]
          /\ process' = [process EXCEPT ![s] = "alive"]
    /\ UNCHANGED <<actorVars, bootstrapped, opened, batch, viewerVars>>

\* The worker ends; what it had not handed over is lost (fail_pending_prepares).
LaunchWorkerDies(ok) ==
    /\ up /\ ~launchDead /\ launchDead' = TRUE
    /\ stage' = [s \in Sessions |-> "none"]
    /\ process' = [s \in Sessions |-> IF stage[s] = "spawned" THEN "gone" ELSE process[s]]
    /\ slot' = [s \in Tracked |->
                  IF slot[s].preparing
                  THEN [slot[s] EXCEPT !.preparing = FALSE, !.state = "failed", !.owner = None]
                  ELSE slot[s]]
    /\ Persisted(slot', ok)
    /\ UNCHANGED <<next, up, quiescing, bootstrapped, opened, batch, viewerVars>>

AcceptRefused(s, ok) ==
    /\ up /\ stage[s] = "refused"
    /\ stage' = [stage EXCEPT ![s] = "none"]
    /\ slot' = [slot EXCEPT ![s].preparing = FALSE, ![s].owner = None,
                            ![s].state = IF slot[s].cancel THEN "closed" ELSE "failed"]
    /\ Persisted(slot', ok)
    /\ UNCHANGED <<next, up, quiescing, launchDead, process, bootstrapped, opened, batch, viewerVars>>

\* The bootstrap is written only when the running record is durable and
\* nobody cancelled; otherwise the untouched shell is closed again.
MayBootstrap(s, ok) == ~slot[s].cancel /\ ~quiescing /\ ok

AcceptRuntime(s, ok, write, again) ==
    /\ up /\ stage[s] = "spawned"
    /\ stage' = [stage EXCEPT ![s] = "none"]
    /\ LET runs == MayBootstrap(s, ok)
           cancelled == slot[s].cancel \/ quiescing
           first == [slot EXCEPT ![s].preparing = FALSE, ![s].runtime = TRUE,
                                 ![s].state = IF cancelled THEN "closing" ELSE "running"]
           closing == [first EXCEPT ![s].state = "closing", ![s].requested = TRUE]
           final == IF runs /\ write THEN first ELSE closing
       IN /\ slot' = final
          /\ bootstrapped' = IF runs /\ write THEN bootstrapped \cup {s} ELSE bootstrapped
          /\ IF again THEN ledger' = Tombstones(final)
             ELSE ledger' \in {Tombstones(first), Tombstones(final)} \cup (IF ok THEN {} ELSE {ledger})
    /\ UNCHANGED <<next, up, quiescing, launchDead, process, opened, batch, viewerVars>>

\* tick: the shell has reported the end of its initialization, or its failure.
Settles(s) ==
    /\ up /\ s \in Tracked /\ slot[s].runtime /\ slot[s].state = "running" /\ ~slot[s].settled
    /\ slot' = [slot EXCEPT ![s].settled = TRUE]
    /\ UNCHANGED <<ledger, next, up, quiescing, launchDead, shellVars, batch, viewerVars>>
-----------------------------------------------------------------------------
(* Exits. *)
\* A shell ends of itself or by the signal of a close.
ShellExits(s) ==
    /\ process[s] = "alive"
    /\ process' = [process EXCEPT ![s] = "exited"]
    /\ UNCHANGED <<actorVars, stage, bootstrapped, opened, batch, viewerVars>>

\* tick: the leader stays unreaped while its descendants are accounted for.
ObserveShellExit(s, ok) ==
    /\ up /\ s \in Tracked /\ slot[s].runtime /\ process[s] = "exited" /\ ~slot[s].exit
    /\ slot' = [slot EXCEPT ![s].exit = TRUE, ![s].state = "closing"]
    /\ Persisted(slot', ok)
    /\ UNCHANGED <<next, up, quiescing, launchDead, shellVars, batch, viewerVars>>

ReapShell(s, ok) ==
    /\ up /\ s \in Tracked /\ slot[s].runtime /\ slot[s].exit
    /\ process' = [process EXCEPT ![s] = "gone"]
    /\ slot' = [slot EXCEPT ![s].runtime = FALSE, ![s].owner = None,
                            ![s].state = IF slot[s].requested THEN "closed" ELSE "exited"]
    /\ Persisted(slot', ok)
    /\ UNCHANGED <<next, up, quiescing, launchDead, stage, bootstrapped, opened, batch, viewerVars>>
-----------------------------------------------------------------------------
(* Closing. *)
Closed(s) == [s EXCEPT !.state = "closing", !.cancel = TRUE, !.requested = TRUE]
CancelledBatch ==
    IF batch.state \in {"running", "paused"}
    THEN [state |-> "cancelled", remaining |-> <<>>, waiting |-> None]
    ELSE [batch EXCEPT !.remaining = <<>>, !.waiting = None]

Owns(c, s, epoch) == slot[s].owner = c /\ slot[s].epoch = epoch

CloseTerminal(c, s, ok) ==
    /\ up /\ s \in LiveSessions /\ known[c].session = s /\ Owns(c, s, known[c].epoch)
    /\ slot[s].state # "closing"
    /\ slot' = [slot EXCEPT ![s] = Closed(@)]
    /\ Persisted(slot', ok)
    /\ UNCHANGED <<next, up, quiescing, launchDead, shellVars, batch, viewerVars>>

\* close_many with the targets of a review that still holds.
CloseReviewed(shutdown, ok) ==
    /\ up /\ ~quiescing
    /\ LiveSessions # {} \/ shutdown \/ batch.state \in {"running", "paused"}
    /\ slot' = [s \in Tracked |-> IF IsLive(s) THEN Closed(slot[s]) ELSE slot[s]]
    /\ batch' = CancelledBatch
    /\ quiescing' = shutdown
    /\ Persisted(slot', ok)
    /\ UNCHANGED <<next, up, launchDead, shellVars, viewerVars>>
-----------------------------------------------------------------------------
(* Input. *)
AttachMutant(c, s, takeover) ==
    /\ up /\ s \in LiveSessions
    /\ slot[s].owner \in {None, c} \/ takeover
    /\ IF slot[s].owner = c
       THEN UNCHANGED <<slot, era>>
       ELSE /\ slot[s].epoch < MaxEpoch
            /\ slot' = [slot EXCEPT ![s].owner = c]
            /\ era' = [era EXCEPT ![s] = @ + 1]
    /\ known' = [known EXCEPT ![c] = [session |-> s, epoch |-> slot'[s].epoch, era |-> era'[s]]]
    /\ UNCHANGED <<ledger, next, up, quiescing, launchDead, shellVars, inputs, typed, batch>>
Attach(c, s, takeover) ==
    /\ up /\ s \in LiveSessions
    /\ slot[s].owner \in {None, c} \/ takeover
    /\ IF slot[s].owner = c
       THEN UNCHANGED <<slot, era>>
       ELSE /\ slot[s].epoch < MaxEpoch
            /\ slot' = [slot EXCEPT ![s].owner = c, ![s].epoch = @ + 1]
            /\ era' = [era EXCEPT ![s] = @ + 1]
    /\ known' = [known EXCEPT ![c] = [session |-> s, epoch |-> slot'[s].epoch, era |-> era'[s]]]
    /\ UNCHANGED <<ledger, next, up, quiescing, launchDead, shellVars, inputs, typed, batch>>

DetachTerminal(c, s) ==
    /\ up /\ s \in LiveSessions /\ known[c].session = s /\ Owns(c, s, known[c].epoch)
    /\ slot[s].epoch < MaxEpoch
    /\ slot' = [slot EXCEPT ![s].owner = None, ![s].epoch = @ + 1]
    /\ era' = [era EXCEPT ![s] = @ + 1]
    /\ UNCHANGED <<ledger, next, up, quiescing, launchDead, shellVars, known, inputs, typed, batch>>

\* A request may arrive long after it was sent, after later ones, or never.
SendInput(c) ==
    /\ known[c].session # 0
    /\ inputs' = inputs \cup {[client |-> c, seen |-> known[c]]}
    /\ UNCHANGED <<actorVars, shellVars, known, era, typed, batch>>

Input(m) ==
    LET s == m.seen.session
    IN /\ up /\ m \in inputs /\ inputs' = inputs \ {m}
       /\ typed' = IF /\ s \in Tracked /\ Owns(m.client, s, m.seen.epoch)
                      /\ slot[s].state = "running" /\ process[s] = "alive"
                   THEN [sent |-> m.seen.era, arrived |-> era[s]] ELSE typed
       /\ UNCHANGED <<actorVars, shellVars, known, era, batch>>
-----------------------------------------------------------------------------
(* The default-open batch: one terminal after the other. *)
StartDefaults ==
    /\ up /\ ~quiescing /\ batch.state \notin {"running", "paused"}
    /\ batch' = [state |-> "running", remaining |-> Keys, waiting |-> None]
    /\ UNCHANGED <<actorVars, shellVars, viewerVars>>

\* The next terminal waits until the last one is ready or has failed, or the
\* user continues after a pause.
BatchWaits ==
    /\ batch.waiting # None /\ batch.waiting \in Tracked
    /\ IsLive(batch.waiting) /\ ~slot[batch.waiting].settled

BatchPauses ==
    /\ up /\ ~quiescing /\ batch.state = "running" /\ BatchWaits
    /\ batch' = [batch EXCEPT !.state = "paused"]
    /\ UNCHANGED <<actorVars, shellVars, viewerVars>>

ContinueDefaults ==
    /\ up /\ batch.state = "paused"
    /\ batch' = [batch EXCEPT !.state = "running", !.waiting = None]
    /\ UNCHANGED <<actorVars, shellVars, viewerVars>>

CancelDefaults ==
    /\ up /\ batch.state \in {"running", "paused"} /\ batch' = CancelledBatch
    /\ UNCHANGED <<actorVars, shellVars, viewerVars>>

Given(k) == {s \in OfKey(k) : slot[s].state \in {"preparing", "running"}}
BatchStep ==
    /\ up /\ ~quiescing /\ batch.state = "running" /\ ~BatchWaits
    /\ IF batch.remaining = <<>>
       THEN /\ batch' = [batch EXCEPT !.state = "complete", !.waiting = None]
            /\ UNCHANGED <<slot, ledger, next, stage, opened>>
       ELSE LET k == Head(batch.remaining)
                rest == [batch EXCEPT !.remaining = Tail(@), !.waiting = None]
            IN \/ /\ Admitted(k, FALSE) /\ Scheduled(k, FALSE)
                  /\ batch' = [rest EXCEPT !.waiting = next]
               \/ /\ Admitted(k, FALSE) /\ NotScheduled(k) /\ batch' = rest
               \/ /\ ~Admitted(k, FALSE)
                  /\ batch' = IF Given(k) = {} THEN rest
                              ELSE [rest EXCEPT !.waiting = CHOOSE s \in Given(k) : TRUE]
                  /\ UNCHANGED <<slot, ledger, next, stage, opened>>
    /\ UNCHANGED <<up, quiescing, launchDead, process, bootstrapped, viewerVars>>
-----------------------------------------------------------------------------
(* The host. *)
\* The end of the host takes its terminals along, as far as it knows.
HostEnds ==
    /\ up /\ up' = FALSE
    /\ slot' = <<>> /\ quiescing' = FALSE /\ launchDead' = FALSE /\ batch' = NoBatch
    /\ stage' = [s \in Sessions |-> "none"]
    /\ process' = [s \in Sessions |-> IF process[s] = "none" THEN "none" ELSE "gone"]
    /\ UNCHANGED <<ledger, next, bootstrapped, opened, viewerVars>>

\* Actor::new: what was live is of unknown fate, and saved so.
Restored(t) ==
    [key |-> t.key, state |-> IF t.state \in Live THEN "unknown" ELSE t.state, owner |-> None, epoch |-> 0,
     preparing |-> FALSE, runtime |-> FALSE, cancel |-> FALSE, requested |-> FALSE, exit |-> FALSE, settled |-> FALSE]

HostStarts ==
    /\ ~up /\ up' = TRUE
    /\ slot' = [s \in DOMAIN ledger |-> Restored(ledger[s])]
    /\ ledger' = Tombstones(slot')
    /\ UNCHANGED <<next, quiescing, launchDead, shellVars, viewerVars, batch>>
-----------------------------------------------------------------------------
SessionStep(s) ==
    \/ Prepare(s) \/ Settles(s) \/ ShellExits(s)
    \/ \E ok \in BOOLEAN : AcceptRefused(s, ok) \/ ObserveShellExit(s, ok) \/ ReapShell(s, ok)
    \/ \E ok, write, again \in BOOLEAN : AcceptRuntime(s, ok, write, again)

ViewerStep(c) ==
    \/ SendInput(c)
    \/ \E s \in Sessions :
         \/ \E takeover \in BOOLEAN : Attach(c, s, takeover)
         \/ DetachTerminal(c, s)
         \/ \E ok \in BOOLEAN : CloseTerminal(c, s, ok)

BatchNext ==
    StartDefaults \/ BatchPauses \/ ContinueDefaults \/ CancelDefaults \/ BatchStep

TerminalsNext ==
    \/ \E k \in KeySet, reopen \in BOOLEAN : StartTerminal(k, reopen)
    \/ \E s \in Sessions : SessionStep(s)
    \/ \E c \in Viewers : ViewerStep(c)
    \/ \E m \in inputs : Input(m)
    \/ \E shutdown, ok \in BOOLEAN : CloseReviewed(shutdown, ok)
    \/ \E ok \in BOOLEAN : LaunchWorkerDies(ok)
    \/ BatchNext \/ HostEnds \/ HostStarts

TerminalsSpec == TerminalsInit /\ [][TerminalsNext]_terminalVars
-----------------------------------------------------------------------------
\* What a client types reaches a shell only while the attachment it was typed
\* under still holds: not after a takeover, a detach, or another attach of the
\* same client (actor.rs:105-115).
InputUnderAttachment == typed # None => typed.sent = typed.arrived

\* A terminal that was opened before, by any host, is not opened again by
\* the default-open batch or by a plain start (actor.rs:1668-1669, 911-913).
NeverSilentlyReopened ==
    \A s, t \in DOMAIN opened :
        s < t /\ opened[s].key = opened[t].key => opened[t].reopen

\* What lives is live on disk, so that the next host reports it as unknown;
\* a shell was given its bootstrap only when that was so (actor.rs:1907).
TombstonesCover ==
    \A s \in DOMAIN stage :
      /\ up /\ (stage[s] # "none" \/ process[s] \in {"alive", "exited"}) =>
           s \in DOMAIN ledger /\ ledger[s].state \in Live
      /\ s \in bootstrapped /\ s \in DOMAIN ledger => ledger[s].state # "preparing"

\* No terminal runs unless it is recorded, and none is opened by the default
\* batch when an earlier host already started it (actor.rs:911, actor.rs:1907).
ReopenSafety == NeverSilentlyReopened /\ TombstonesCover
=============================================================================
