----------------------------- MODULE UiRuntime -----------------------------
(***************************************************************************)
(* The runtime of the terminal UI (ui/runtime.rs) with the replies that    *)
(* change it (ui/live.rs): a worker thread sends the UI's requests to the  *)
(* host one after the other, the UI buffers what is typed, applies the     *)
(* answers at its ticks, and follows the host through failures, takeovers  *)
(* of the terminal by another client, and hosts that end and are replaced. *)
(*                                                                         *)
(* One terminal per host.  A key is a packet of input.                     *)
(***************************************************************************)
EXTENDS Naturals, Sequences

CONSTANTS
  QueueLimit,    \* requests not answered (16)
  FlushBelow,    \* input is sent while fewer are (4)
  MaxKeys, MaxHosts, MaxEpoch, MaxOrders   \* bounds of the exploration

VARIABLES
  host,      \* [id, up, epoch, owner]: the running host, and the epoch and
             \* the owner of its terminal, 0 for nobody and for others
  worker,    \* [host, client, failed]: the host it talks to, as which client
  jobs,      \* requests the worker has not taken
  replies,   \* its answers the UI has not drained
  ui,        \* [host, client, online, active]: what the UI knows; 0 for no host
  buffer,    \* input not submitted
  typed,     \* number of keys typed
  orders,    \* number of requests the user made
  delivered, \* history: keys that reached the terminal
  lost,      \* history: [key, since]: keys refused since the last refresh;
             \* since is the first key typed after the user was told, 0 before
  executed   \* history: [host, seen] of the last action the host carried out

runtimeHistory == <<delivered, lost, executed>>
runtimeVars == <<host, worker, jobs, replies, ui, buffer, typed, orders, runtimeHistory>>

NotAttached == [host |-> 0, epoch |-> 0, owner |-> 0]
TerminalOf(h) == [host |-> h.id, epoch |-> h.epoch, owner |-> h.owner]

\* What the user does, and what the runtime asks for by itself.
\* "Ack" is the tag of scrolling, resizing and detaching.
Orders == {"Connect", "Start", "Attached", "Close", "Ack"}
Actions == {"Start", "Attached", "Input", "Close", "Ack"}
OwnersOnly == {"Input", "Close", "Ack"}

\* A request goes to the host the UI knows, h; connecting goes to any.
JobFor(h, tag, epoch, key) ==
  [host |-> IF tag = "Connect" THEN 0 ELSE h, tag |-> tag, epoch |-> epoch, key |-> key, seen |-> h]

\* The UI connects, and attaches what `idk attach` names (run_screen).
FirstJob(tag) == JobFor(0, tag, 0, 0)

RuntimeInit ==
  /\ host = [id |-> 1, up |-> TRUE, epoch |-> 1, owner |-> 0]
  /\ worker = [host |-> 0, client |-> 0, failed |-> FALSE]
  /\ jobs \in {<<FirstJob("Connect")>>, <<FirstJob("Connect"), FirstJob("Attached")>>}
  /\ replies = << >>
  /\ ui = [host |-> 0, client |-> 0, online |-> FALSE, active |-> NotAttached]
  /\ buffer = << >> /\ typed = 0 /\ orders = Len(jobs) - 1
  /\ delivered = << >> /\ lost = {} /\ executed = [host |-> 0, seen |-> 0]

-----------------------------------------------------------------------------
(* The UI's side: submit, the input buffer, poll.                          *)

Pending == {jobs[k].tag : k \in DOMAIN jobs} \union {replies[k].tag : k \in DOMAIN replies}
Count == Len(jobs) + Len(replies)

Job(tag, epoch, key) == JobFor(ui.host, tag, epoch, key)

Submit(job) == Count < QueueLimit /\ jobs' = Append(jobs, job)

\* The user is told: what was typed is not sent.
ClearInput == buffer' = << >>
Told == lost' = {[l EXCEPT !.since = IF @ = 0 THEN typed + 1 ELSE @] : l \in lost}

\* Whether the terminal shown is this client's.
Mine == ui.active # NotAttached /\ ui.active.owner = ui.client

\* connect (F5), and opening, attaching, closing and scrolling terminals: only
\* those a host has listed are attached or closed (live.rs:478, 614-641).
Order(tag) ==
  /\ orders < MaxOrders /\ orders' = orders + 1
  /\ tag \in Orders
  /\ tag = "Attached" => ui.host # 0
  /\ tag = "Close" => Mine
  /\ tag = "Ack" => ui.online /\ Mine
  /\ Submit(Job(tag, ui.active.epoch, 0))
  /\ UNCHANGED <<host, worker, replies, ui, buffer, typed, runtimeHistory>>

CanInput == ui.online /\ Mine /\ ui.active.host = ui.host

\* buffer_input: for this terminal, at this epoch, of this host.
Type ==
  /\ CanInput /\ typed < MaxKeys
  /\ typed' = typed + 1
  /\ buffer' = Append(buffer, [host |-> ui.host, epoch |-> ui.active.epoch, key |-> typed'])
  /\ UNCHANGED <<host, worker, jobs, replies, ui, orders, runtimeHistory>>

\* flush_input: submit before dequeuing; what was typed for another host is
\* dropped and the user is told.
Flush ==
  /\ ui.online /\ buffer # << >> /\ Count < FlushBelow
  /\ LET input == Head(buffer) IN
     IF input.host # ui.host
       THEN ClearInput /\ ui' = [ui EXCEPT !.online = FALSE] /\ Told /\ UNCHANGED jobs
     ELSE /\ Submit(Job("Input", input.epoch, input.key))
          /\ buffer' = Tail(buffer) /\ UNCHANGED <<ui, lost>>
  /\ UNCHANGED <<host, worker, replies, typed, orders, delivered, executed>>

\* poll: the list and the screen, one request of each at a time.
Refresh(tag) ==
  /\ ui.online /\ Count <= FlushBelow /\ tag \notin Pending
  /\ tag = "Snapshot" => ui.active # NotAttached
  /\ Submit(Job(tag, 0, 0))
  /\ UNCHANGED <<host, worker, replies, ui, buffer, typed, orders, runtimeHistory>>

-----------------------------------------------------------------------------
(* The worker's side: one job at a time.                                   *)

\* The answer to the job, from a worker that goes on as w.
AnswerJob(job, w, ok) ==
  /\ worker' = w /\ jobs' = Tail(jobs)
  /\ replies' = Append(replies,
       [tag |-> job.tag, ok |-> ok, host |-> w.host, client |-> w.client,
        terminal |-> IF ok THEN TerminalOf(host') ELSE NotAttached])

Refused(job, w) ==
  /\ AnswerJob(job, w, FALSE) /\ UNCHANGED <<host, delivered, executed>>
  /\ lost' = IF job.key = 0 THEN lost ELSE lost \union {[key |-> job.key, since |-> 0]}

\* Mutant: refused input is like any other refused request.
FailingMutant(w, job, transport) == [w EXCEPT !.failed = @ \/ transport]

\* Errors of input, and of the transport, need an explicit refresh; those of
\* a close do not.
Failing(w, job, transport) == [w EXCEPT !.failed = @ \/ transport \/ job.tag \in {"Input", "Ack"}]

ExpectedHostMutant(job, w) == TRUE        \* mutant: whatever host there is by now

\* A request for another host than the one it was made for.
ExpectedHost(job, w) == job.host # 0 => job.host = w.host

\* The host carries out what the owner asks for; attaching takes over.
Carries(job, w) ==
  CASE job.tag \in OwnersOnly -> host.owner = w.client /\ job.epoch = host.epoch
    [] job.tag = "Attached" -> host.owner = w.client \/ host.epoch < MaxEpoch
    [] OTHER -> TRUE

Effect(job, w) ==
  /\ host' = IF job.tag = "Attached" /\ host.owner # w.client
               THEN [host EXCEPT !.owner = w.client, !.epoch = @ + 1] ELSE host
  /\ delivered' = IF job.tag = "Input" THEN Append(delivered, job.key) ELSE delivered
  /\ executed' = IF job.tag \in Actions THEN [host |-> host.id, seen |-> job.seen] ELSE executed
  /\ UNCHANGED lost

\* client.request: the running host answers its own clients only.
Request(job, w) ==
  \/ ~host.up /\ Refused(job, Failing(w, job, TRUE))
  \/ host.up /\ host.id # w.host /\ Refused(job, Failing(w, job, FALSE))
  \/ host.up /\ host.id = w.host /\ Carries(job, w) /\ Effect(job, w) /\ AnswerJob(job, w, TRUE)
  \/ /\ host.up /\ host.id = w.host /\ Carries(job, w)      \* no answer in time
     /\ Effect(job, w) /\ AnswerJob(job, Failing(w, job, TRUE), FALSE)
  \/ /\ host.up /\ host.id = w.host                         \* busy, or the wrong epoch
     /\ Refused(job, Failing(w, job, FALSE))

\* A new client of the running host.
NewClient(w) == [host |-> host.id, client |-> w.client + 1, failed |-> FALSE]

\* Connect keeps a client that still lists its host, and makes a new one.
Connected(job) ==
  \/ /\ host.up /\ UNCHANGED <<host, delivered, executed>> /\ lost' = {}
     /\ \/ worker.host = host.id /\ AnswerJob(job, [worker EXCEPT !.failed = FALSE], TRUE)
        \/ AnswerJob(job, NewClient(worker), TRUE)
  \/ ~host.up /\ Refused(job, worker)

\* A start makes a client when there is none, and waits for a host.
Ordinary(job) ==
  IF job.tag = "Start" /\ worker.host = 0
    THEN IF host.up THEN Request(job, NewClient(worker)) ELSE Refused(job, worker)
  ELSE IF worker.host = 0 \/ ~ExpectedHost(job, worker) \/ worker.failed
    THEN Refused(job, worker)
  ELSE Request(job, worker)

Work ==
  /\ jobs # << >>
  /\ LET job == Head(jobs) IN
       IF job.tag = "Connect" THEN Connected(job) ELSE Ordinary(job)
  /\ UNCHANGED <<ui, buffer, typed, orders>>

-----------------------------------------------------------------------------
(* The UI's tick: one reply.                                               *)

Changed(reply) == reply.host # 0 /\ ui.host \notin {0, reply.host}

Known(reply) ==
  IF reply.host = 0 THEN ui
  ELSE [ui EXCEPT !.host = reply.host, !.client = reply.client,
                  !.active = IF Changed(reply) THEN NotAttached ELSE @]

\* A new connection asks for the list, an opened terminal is attached, and
\* the screen of an attached one is asked for.
FollowUp(reply) ==
  CASE reply.tag = "Connect" -> "List" [] reply.tag = "Start" -> "Attached"
    [] reply.tag = "Attached" -> "Snapshot" [] OTHER -> "none"

\* Answers about the terminal shown refresh it.
Shown(reply, known) ==
  IF \/ reply.tag = "Attached"
     \/ reply.tag \in {"Snapshot", "List"} /\ known.active.host = reply.terminal.host
    THEN [known EXCEPT !.active = reply.terminal] ELSE known

\* accept_reply, or an error: then the input is dropped and the user is told.
Accepts(reply) == reply.ok /\ (FollowUp(reply) = "none" \/ Count - 1 < QueueLimit)

Drain ==
  /\ replies # << >> /\ replies' = Tail(replies)
  /\ LET reply == Head(replies)
         known == IF reply.ok THEN Shown(reply, Known(reply)) ELSE Known(reply)
         more == FollowUp(reply)
     IN /\ ui' = [known EXCEPT !.online = Accepts(reply)]
        /\ jobs' = IF ~Accepts(reply) \/ more = "none" THEN jobs
                   ELSE Append(jobs, JobFor(known.host, more, 0, 0))
        /\ IF Accepts(reply) THEN UNCHANGED lost ELSE Told
        /\ buffer' = IF Accepts(reply) /\ ~Changed(reply) THEN buffer ELSE << >>
  /\ UNCHANGED <<host, worker, typed, orders, delivered, executed>>

-----------------------------------------------------------------------------
(* Hosts and other clients                                                 *)

TakenOver ==
  /\ host.up /\ host.epoch < MaxEpoch
  /\ host' = [host EXCEPT !.epoch = @ + 1, !.owner = 0]
  /\ UNCHANGED <<worker, jobs, replies, ui, buffer, typed, orders, runtimeHistory>>

HostEnds ==
  /\ host.up /\ host' = [host EXCEPT !.up = FALSE]
  /\ UNCHANGED <<worker, jobs, replies, ui, buffer, typed, orders, runtimeHistory>>

AnotherHost ==
  /\ ~host.up /\ host.id < MaxHosts
  /\ host' = [id |-> host.id + 1, up |-> TRUE, epoch |-> 1, owner |-> 0]
  /\ UNCHANGED <<worker, jobs, replies, ui, buffer, typed, orders, runtimeHistory>>

RuntimeNext ==
  \/ \E tag \in Orders : Order(tag)
  \/ Type \/ Flush \/ \E tag \in {"List", "Snapshot"} : Refresh(tag)
  \/ Work \/ Drain
  \/ TakenOver \/ HostEnds \/ AnotherHost

RuntimeSpec == RuntimeInit /\ [][RuntimeNext]_runtimeVars

-----------------------------------------------------------------------------
(* What is promised                                                        *)

\* Nothing the user asked of one host is done by another one (runtime.rs:108):
\* not by the host that replaced it while the request was on its way.
ActsOnTheHostSeen == executed.seen \in {0, executed.host}

\* What is typed after a lost key reaches the terminal only when the user had
\* been told before he typed it, or has refreshed (runtime.rs:112): a command
\* line never runs with a hole in it that nobody saw.
NoSilentGap ==
  [][\A j \in DOMAIN delivered' \ DOMAIN delivered : \A l \in lost :
       l.key < delivered'[j] => l.since \in 1..delivered'[j]]_runtimeVars
=============================================================================
