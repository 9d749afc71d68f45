------------------------------ MODULE UiProofs ------------------------------
(***************************************************************************)
(* What the terminal UI promises, for all numbers of hosts, requests,      *)
(* keys, terminals and pages: its runtime (UiRuntime), the attachments     *)
(* (UiAttach) and the Git tab (UiGit).                                     *)
(***************************************************************************)
EXTENDS MCUi, Integers, FiniteSetTheorems, FunctionTheorems, WellFoundedInduction, TLAPS

-----------------------------------------------------------------------------
(***************************************************************************)
(* The runtime.  Hosts are replaced by later ones and the answers arrive   *)
(* in order, so what the UI knows, the answers and the worker never go     *)
(* back to an earlier host (HostsOrdered), and no answer of another host   *)
(* comes before one that attaches a terminal (AttachedInOrder).            *)
(* A request for another host is then not acted upon (ActsOnTheHostSeen).  *)
(* That no key follows a lost one needs that while input for a former host *)
(* waits, nothing can be typed for the present one (FormerInput).          *)
(***************************************************************************)

JobTags == {"Connect", "Start", "Attached", "Close", "Ack", "Input", "List", "Snapshot"}
RuntimeJob == [host : Nat, tag : JobTags, epoch : Nat, key : Nat, seen : Nat]
HostTerminal == [host : Nat, epoch : Nat, owner : Nat]
RuntimeReply ==
  [tag : JobTags, ok : BOOLEAN, host : Nat, client : Nat, terminal : HostTerminal]
TypedKey == [host : Nat, epoch : Nat, key : Nat]

RuntimeTypes ==
  /\ host \in [id : Nat \ {0}, up : BOOLEAN, epoch : Nat, owner : Nat]
  /\ worker \in [host : Nat, client : Nat, failed : BOOLEAN]
  /\ jobs \in Seq(RuntimeJob) /\ replies \in Seq(RuntimeReply)
  /\ ui \in [host : Nat, client : Nat, online : BOOLEAN, active : HostTerminal]
  /\ buffer \in Seq(TypedKey) /\ typed \in Nat
  /\ delivered \in Seq(Nat) /\ lost \subseteq [key : Nat, since : Nat]

HostsOrdered ==
  /\ ui.host <= worker.host /\ worker.host <= host.id
  /\ \A r \in DOMAIN replies : ui.host <= replies[r].host /\ replies[r].host <= worker.host
  /\ \A r, t \in DOMAIN replies : r <= t => replies[r].host <= replies[t].host
  /\ \A p \in DOMAIN jobs : jobs[p].host <= ui.host
  /\ \A p, q \in DOMAIN jobs :
        p <= q /\ jobs[q].tag # "Connect" => jobs[p].host <= jobs[q].host

JobSound(job) ==
  /\ job.tag # "Connect" => job.host = job.seen
  /\ IF job.tag = "Input" THEN job.host # 0 /\ job.key \in 1..typed ELSE job.key = 0
  /\ job.tag = "Connect" => job.host = 0

ReplySound(reply) ==
  reply.ok => reply.host # 0 /\ reply.terminal.host = reply.host

KnownSound ==
  /\ ui.active.host \in {0, ui.host}
  /\ ui.active.host = 0 => ui.active = NotAttached
  /\ typed # 0 => ui.host # 0

KeySound(input) == input.host = ui.host /\ input.key \in 1..typed
LossSound(l) == typed # 0 /\ l.since <= typed + 1

RuntimeShape ==
  /\ \A p \in DOMAIN jobs : JobSound(jobs[p])
  /\ \A r \in DOMAIN replies : ReplySound(replies[r])
  /\ \A b \in DOMAIN buffer : KeySound(buffer[b])
  /\ KnownSound
  /\ \A l \in lost : LossSound(l)

Attaches(r) == replies[r].ok /\ replies[r].tag = "Attached"

\* The terminal that the command line names is attached after connecting.
NamedFirst ==
  \A p \in DOMAIN jobs : jobs[p].tag = "Attached" /\ jobs[p].host = 0 =>
    /\ p <= 2 /\ (p = 2 => jobs[1].tag = "Connect" /\ worker.host = 0)
    /\ ui.host \in {0, worker.host} /\ ui.active = NotAttached /\ typed = 0
    /\ \A r \in DOMAIN replies : replies[r].host \in {0, worker.host} /\ ~Attaches(r)

AttachedInOrder ==
  \A r \in DOMAIN replies : Attaches(r) =>
    /\ ui.host \in {0, replies[r].host}
    /\ \A t \in DOMAIN replies : t <= r => replies[t].host \in {0, replies[r].host}

NothingNow ==
  /\ \A q \in DOMAIN jobs : jobs[q].tag = "Input" => jobs[q].host # worker.host
  /\ \A b \in DOMAIN buffer : buffer[b].host # worker.host
  /\ ui.active.host # worker.host
  /\ \A r \in DOMAIN replies : Attaches(r) => replies[r].host # worker.host

FormerInput ==
  (\E p \in DOMAIN jobs : jobs[p].tag = "Input" /\ jobs[p].host # worker.host) => NothingNow

\* Input for this host waits for a refresh, or is refused.
HeldBack(h) == worker.failed \/ worker.host # h

\* The user is told of the refusal before he can type for this host.
TellsFirst ==
  /\ ui.active.host # worker.host
  /\ \E r \in DOMAIN replies :
       /\ ~replies[r].ok
       /\ \A t \in DOMAIN replies : t <= r /\ Attaches(t) => replies[t].host # worker.host

Follows(l, input) ==
  l.key < input.key => l.since \in 1..input.key \/ HeldBack(input.host)

GapSeen(l) ==
  /\ \A p \in DOMAIN jobs : jobs[p].tag = "Input" => Follows(l, jobs[p])
  /\ \A b \in DOMAIN buffer : Follows(l, buffer[b])
  /\ l.since = 0 => worker.failed \/ TellsFirst

GapsSeen == \A l \in lost : GapSeen(l)

RuntimeInv ==
  /\ RuntimeTypes /\ HostsOrdered /\ RuntimeShape
  /\ NamedFirst /\ AttachedInOrder /\ FormerInput /\ GapsSeen
  /\ ActsOnTheHostSeen

-----------------------------------------------------------------------------
(* Sequences                                                               *)

\* The first of a sequence, and what comes after it.
LEMMA TailFacts ==
  ASSUME NEW S, NEW s \in Seq(S), s # << >>
  PROVE  /\ 1 \in DOMAIN s /\ Head(s) = s[1] /\ Head(s) \in S
         /\ Tail(s) \in Seq(S) /\ DOMAIN Tail(s) \subseteq Nat \ {0}
         /\ \A i \in DOMAIN Tail(s) : i + 1 \in DOMAIN s /\ Tail(s)[i] = s[i + 1]
OBVIOUS

\* A sequence and one element more.
LEMMA AppendFacts ==
  ASSUME NEW S, NEW s \in Seq(S), NEW e \in S
  PROVE  /\ Append(s, e) \in Seq(S)
         /\ \A i \in DOMAIN s : i \in DOMAIN Append(s, e) /\ Append(s, e)[i] = s[i]
         /\ \A i \in DOMAIN Append(s, e) :
               \/ i \in DOMAIN s /\ Append(s, e)[i] = s[i]
               \/ i = Len(s) + 1 /\ Append(s, e)[i] = e
         /\ Len(s) + 1 \in DOMAIN Append(s, e) /\ Append(s, e)[Len(s) + 1] = e
         /\ \A i \in DOMAIN s : i \in Nat \ {0} /\ i <= Len(s)
OBVIOUS

\* The elements of a sequence.
LEMMA ElementFacts ==
  ASSUME NEW S, NEW s \in Seq(S)
  PROVE  /\ Len(s) \in Nat /\ DOMAIN s = 1..Len(s)
         /\ \A i \in DOMAIN s : s[i] \in S /\ i \in Nat \ {0} /\ i <= Len(s)
OBVIOUS

-----------------------------------------------------------------------------
(* What the worker does with a request                                     *)

HostType == [id : Nat \ {0}, up : BOOLEAN, epoch : Nat, owner : Nat]
WorkerType == [host : Nat, client : Nat, failed : BOOLEAN]

LostWith(job) == IF job.key = 0 THEN {} ELSE {[key |-> job.key, since |-> 0]}

\* It is connected to the running host.
Connects(job, w) ==
  job.tag = "Connect" /\ w.host = host.id /\ lost' = {} /\ UNCHANGED <<delivered, executed>>

\* The request is refused, and later ones are too if it carries input.
TurnsDown(job, w, reply) ==
  /\ ~reply.ok /\ lost' = lost \union LostWith(job) /\ UNCHANGED <<delivered, executed>>
  /\ w.host = worker.host \/ (worker.host = 0 /\ w.host = host.id /\ job.tag = "Start")
  /\ worker.failed => w.failed \/ worker.host = 0
  /\ job.key # 0 /\ worker.host # 0 => w.failed \/ (job.host # w.host /\ w.host = worker.host)

\* The host has carried it out.
Obeys(job, w) ==
  /\ job.tag # "Connect" /\ w.host = host.id /\ lost' = lost
  /\ \/ worker.host = 0 /\ job.tag = "Start"
     \/ worker.host # 0 /\ w.host = worker.host /\ ~worker.failed /\ job.host \in {0, w.host}
  /\ delivered' = IF job.tag = "Input" THEN Append(delivered, job.key) ELSE delivered
  /\ executed' \in {executed, [host |-> host.id, seen |-> job.seen]}

Handles(job, w, reply) ==
  /\ jobs' = Tail(jobs) /\ replies' = Append(replies, reply) /\ worker' = w
  /\ reply.tag = job.tag /\ reply.host = w.host /\ ReplySound(reply)
  /\ host' \in HostType /\ host'.id = host.id
  /\ Connects(job, w) \/ TurnsDown(job, w, reply) \/ Obeys(job, w)

\* The answer that is sent (events.try_send in ui/runtime.rs).
LEMMA AnswerSent ==
  ASSUME NEW job \in RuntimeJob, NEW w \in WorkerType, NEW ok \in BOOLEAN,
         host' \in HostType, ok => w.host = host'.id, AnswerJob(job, w, ok)
  PROVE  \E reply \in RuntimeReply :
           /\ jobs' = Tail(jobs) /\ replies' = Append(replies, reply) /\ worker' = w
           /\ reply.tag = job.tag /\ reply.host = w.host /\ ReplySound(reply) /\ reply.ok = ok
<1> DEFINE t == IF ok THEN TerminalOf(host') ELSE NotAttached
           reply == [tag |-> job.tag, ok |-> ok, host |-> w.host, client |-> w.client,
                     terminal |-> t]
<1>1. t \in HostTerminal
  BY DEF HostTerminal, HostType, TerminalOf, NotAttached
<1>2. reply \in RuntimeReply
  BY <1>1 DEF RuntimeReply, RuntimeJob, WorkerType
<1>3. ok => t.host = host'.id /\ host'.id # 0
  BY DEF TerminalOf, HostType
<1>4. ReplySound(reply)
  BY <1>3 DEF ReplySound
<1> QED BY <1>2, <1>4 DEF AnswerJob

\* A request refused with a worker that goes on as w.
LEMMA RefusedHandled ==
  ASSUME NEW job \in RuntimeJob, NEW w \in WorkerType, host \in HostType, Refused(job, w),
         w.host = worker.host \/ (worker.host = 0 /\ w.host = host.id /\ job.tag = "Start"),
         worker.failed => w.failed \/ worker.host = 0,
         job.key # 0 /\ worker.host # 0 => w.failed \/ (job.host # w.host /\ w.host = worker.host)
  PROVE  \E reply \in RuntimeReply : Handles(job, w, reply)
<1>1. /\ AnswerJob(job, w, FALSE) /\ UNCHANGED <<host, delivered, executed>>
      /\ lost' = lost \union LostWith(job)
  BY DEF Refused, LostWith
<1>2. PICK reply \in RuntimeReply :
           /\ jobs' = Tail(jobs) /\ replies' = Append(replies, reply) /\ worker' = w
           /\ reply.tag = job.tag /\ reply.host = w.host /\ ReplySound(reply) /\ reply.ok = FALSE
  BY <1>1, AnswerSent
<1>3. TurnsDown(job, w, reply)
  BY <1>1, <1>2 DEF TurnsDown
<1> QED BY <1>1, <1>2, <1>3 DEF Handles

\* What changes on the host keeps its identity and its type.
LEMMA EffectOnHost ==
  ASSUME NEW job \in RuntimeJob, NEW w \in WorkerType, host \in HostType, Effect(job, w)
  PROVE  host' \in HostType /\ host'.id = host.id
<1>1. CASE host' = host
  BY <1>1
<1>2. CASE host' = [host EXCEPT !.owner = w.client, !.epoch = @ + 1]
  <2>1. w.client \in Nat /\ host.epoch + 1 \in Nat
    BY DEF HostType, WorkerType
  <2>2. host' = [id |-> host.id, up |-> host.up, epoch |-> host.epoch + 1, owner |-> w.client]
    BY <1>2 DEF HostType
  <2> QED BY <2>1, <2>2 DEF HostType
<1>3. host' \in {host, [host EXCEPT !.owner = w.client, !.epoch = @ + 1]}
  BY DEF Effect
<1> QED BY <1>1, <1>2, <1>3

\* A request carried out, answered or not.
LEMMA ObeyedHandled ==
  ASSUME NEW job \in RuntimeJob, NEW w \in WorkerType, NEW ok \in BOOLEAN, host \in HostType,
         NEW v \in WorkerType, v.host = w.host,
         Effect(job, v), AnswerJob(job, w, ok), job.tag # "Connect", w.host = host.id,
         \/ worker.host = 0 /\ job.tag = "Start"
         \/ worker.host # 0 /\ w.host = worker.host /\ ~worker.failed /\ job.host \in {0, w.host}
  PROVE  \E reply \in RuntimeReply : Handles(job, w, reply)
<1>1. host' \in HostType /\ host'.id = host.id
  BY EffectOnHost
<1>2. PICK reply \in RuntimeReply :
           /\ jobs' = Tail(jobs) /\ replies' = Append(replies, reply) /\ worker' = w
           /\ reply.tag = job.tag /\ reply.host = w.host /\ ReplySound(reply) /\ reply.ok = ok
  BY <1>1, AnswerSent
<1>3. /\ lost' = lost /\ executed' \in {executed, [host |-> host.id, seen |-> job.seen]}
      /\ delivered' = IF job.tag = "Input" THEN Append(delivered, job.key) ELSE delivered
  BY DEF Effect
<1>4. Obeys(job, w)
  BY <1>3 DEF Obeys
<1> QED BY <1>1, <1>2, <1>4 DEF Handles

\* How a worker goes on after a failure (`failed` in ui/runtime.rs).
LEMMA FailingFacts ==
  ASSUME NEW w \in WorkerType, NEW job \in RuntimeJob, NEW transport \in BOOLEAN
  PROVE  /\ Failing(w, job, transport) \in WorkerType
         /\ Failing(w, job, transport).host = w.host
         /\ w.failed => Failing(w, job, transport).failed
         /\ job.tag = "Input" => Failing(w, job, transport).failed
<1> DEFINE f == w.failed \/ transport \/ job.tag \in {"Input", "Ack"}
<1>1. Failing(w, job, transport) = [w EXCEPT !.failed = f]
  BY DEF Failing
<1>2. f \in BOOLEAN /\ (w.failed => f) /\ (job.tag = "Input" => f)
  BY DEF WorkerType
<1> HIDE DEF f
<1> QED BY <1>1, <1>2 DEF WorkerType

\* client.request, by a worker that is connected or starts a host.
LEMMA RequestHandled ==
  ASSUME NEW job \in RuntimeJob, NEW w \in WorkerType, host \in HostType, JobSound(job),
         worker \in WorkerType, Request(job, w), job.tag # "Connect",
         \/ worker.host = 0 /\ job.tag = "Start" /\ w.host = host.id
         \/ worker.host # 0 /\ w = worker /\ ~worker.failed /\ job.host \in {0, w.host}
  PROVE  \E v \in WorkerType, reply \in RuntimeReply : Handles(job, v, reply)
<1>1. CASE \E transport \in BOOLEAN : Refused(job, Failing(w, job, transport))
  <2>1. PICK transport \in BOOLEAN : Refused(job, Failing(w, job, transport))
    BY <1>1
  <2>2. /\ Failing(w, job, transport) \in WorkerType
        /\ Failing(w, job, transport).host = w.host
        /\ w.failed => Failing(w, job, transport).failed
        /\ job.tag = "Input" => Failing(w, job, transport).failed
    BY FailingFacts
  <2>3. job.key # 0 => job.tag = "Input"
    BY DEF JobSound
  <2> QED BY <2>1, <2>2, <2>3, RefusedHandled
<1>2. CASE host.id = w.host /\ Effect(job, w) /\ AnswerJob(job, w, TRUE)
  BY <1>2, ObeyedHandled
<1>3. CASE host.id = w.host /\ Effect(job, w) /\ AnswerJob(job, Failing(w, job, TRUE), FALSE)
  <2>1. Failing(w, job, TRUE) \in WorkerType /\ Failing(w, job, TRUE).host = w.host
    BY FailingFacts
  <2> QED BY <1>3, <2>1, ObeyedHandled
<1> QED BY <1>1, <1>2, <1>3 DEF Request

\* The loop of the worker thread: one request, one answer.
LEMMA WorkDone ==
  ASSUME RuntimeTypes, RuntimeShape, Work
  PROVE  \E w \in WorkerType, reply \in RuntimeReply :
           jobs # << >> /\ Head(jobs) \in RuntimeJob /\ Handles(Head(jobs), w, reply)
<1> DEFINE job == Head(jobs)
<1>1. job \in RuntimeJob /\ JobSound(job) /\ jobs # << >>
  BY TailFacts DEF RuntimeTypes, RuntimeShape, Work
<1>2. host \in HostType /\ worker \in WorkerType
  BY DEF RuntimeTypes, HostType, WorkerType
<1>3. NewClient(worker) \in WorkerType /\ NewClient(worker).host = host.id
  BY <1>2 DEF NewClient, WorkerType, HostType
<1>4. CASE job.tag = "Connect"
  <2>1. Connected(job)
    BY <1>4 DEF Work
  <2>2. ASSUME NEW w \in WorkerType, w.host = host.id, AnswerJob(job, w, TRUE), lost' = {},
               UNCHANGED <<host, delivered, executed>>
        PROVE  \E reply \in RuntimeReply : Handles(job, w, reply)
    <3>1. PICK reply \in RuntimeReply :
           /\ jobs' = Tail(jobs) /\ replies' = Append(replies, reply) /\ worker' = w
           /\ reply.tag = job.tag /\ reply.host = w.host /\ ReplySound(reply) /\ reply.ok = TRUE
      BY <1>1, <1>2, <2>2, AnswerSent
    <3> QED BY <1>2, <1>4, <2>2, <3>1 DEF Handles, Connects
  <2>3. CASE Refused(job, worker)
    <3>1. job.key = 0
      BY <1>1, <1>4 DEF JobSound
    <3> QED BY <1>1, <1>2, <2>3, <3>1, RefusedHandled
  <2>4. [worker EXCEPT !.failed = FALSE] \in WorkerType
        /\ [worker EXCEPT !.failed = FALSE].host = worker.host
    BY <1>2 DEF WorkerType
  <2> QED BY <1>1, <1>3, <2>1, <2>2, <2>3, <2>4 DEF Connected
<1>5. CASE job.tag # "Connect"
  <2>1. Ordinary(job)
    BY <1>5 DEF Work
  <2>2. CASE job.tag = "Start" /\ worker.host = 0 /\ host.up
    <3>1. Request(job, NewClient(worker))
      BY <2>1, <2>2 DEF Ordinary
    <3> QED BY <1>1, <1>2, <1>3, <1>5, <2>2, <3>1, RequestHandled
  <2>3. CASE Refused(job, worker) /\ (worker.host = 0 \/ ~ExpectedHost(job, worker) \/ worker.failed)
    BY <1>1, <1>2, <2>3, RefusedHandled DEF ExpectedHost
  <2>4. CASE worker.host # 0 /\ ExpectedHost(job, worker) /\ ~worker.failed /\ Request(job, worker)
    <3>1. job.host \in {0, worker.host}
      BY <2>4 DEF ExpectedHost
    <3> QED BY <1>1, <1>2, <1>5, <2>4, <3>1, RequestHandled
  <2> QED BY <2>1, <2>2, <2>3, <2>4 DEF Ordinary
<1> QED BY <1>1, <1>4, <1>5

-----------------------------------------------------------------------------
(* The steps of the UI and of the hosts                                    *)

\* The UI has just been started.
LEMMA RuntimeStart == RuntimeInit => RuntimeInv
<1> SUFFICES ASSUME RuntimeInit PROVE RuntimeInv
  OBVIOUS
<1>1. FirstJob("Connect") \in RuntimeJob /\ FirstJob("Attached") \in RuntimeJob
  BY DEF FirstJob, JobFor, RuntimeJob, JobTags
<1>2. /\ jobs \in Seq(RuntimeJob) /\ DOMAIN jobs \subseteq 1..2 /\ jobs[1] = FirstJob("Connect")
      /\ \A p \in DOMAIN jobs : p # 1 => jobs[p] = FirstJob("Attached")
  <2>1. CASE jobs = <<FirstJob("Connect")>>
    BY <1>1, <2>1
  <2>2. CASE jobs = <<FirstJob("Connect"), FirstJob("Attached")>>
    BY <1>1, <2>2
  <2> QED BY <2>1, <2>2 DEF RuntimeInit
<1>3. \A p \in DOMAIN jobs : /\ jobs[p].host = 0 /\ jobs[p].seen = 0 /\ jobs[p].key = 0
                             /\ jobs[p].tag \in {"Connect", "Attached"}
                             /\ jobs[1].tag = "Connect" /\ (p = 1 => jobs[p].tag = "Connect")
  BY <1>2 DEF FirstJob, JobFor
<1>4. NotAttached \in HostTerminal
  BY DEF NotAttached, HostTerminal
<1>5. RuntimeTypes
  BY <1>2, <1>4 DEF RuntimeInit, RuntimeTypes
<1>6. HostsOrdered
  BY <1>3 DEF RuntimeInit, HostsOrdered
<1>7. RuntimeShape
  BY <1>3 DEF RuntimeInit, RuntimeShape, JobSound, KnownSound, NotAttached
<1>8. NamedFirst
  BY <1>2, <1>3 DEF RuntimeInit, NamedFirst
<1>9. AttachedInOrder /\ FormerInput /\ GapsSeen
  BY <1>3 DEF RuntimeInit, AttachedInOrder, FormerInput, GapsSeen, GapSeen
<1>10. ActsOnTheHostSeen
  BY DEF RuntimeInit, ActsOnTheHostSeen
<1> QED BY <1>5, <1>6, <1>7, <1>8, <1>9, <1>10 DEF RuntimeInv

\* One more request that carries no input (Runtime::submit).
LEMMA JobAdded ==
  ASSUME RuntimeInv, NEW job \in RuntimeJob, JobSound(job), job.tag # "Input",
         job.tag # "Connect" => job.host = ui.host,
         job.tag = "Attached" => job.host # 0,
         jobs' = Append(jobs, job),
         UNCHANGED <<host, worker, replies, ui, buffer, typed, runtimeHistory>>
  PROVE  RuntimeInv'
<1> USE DEF RuntimeInv
<1>1. /\ jobs' \in Seq(RuntimeJob)
      /\ \A p \in DOMAIN jobs : p \in DOMAIN jobs' /\ jobs'[p] = jobs[p]
      /\ \A p \in DOMAIN jobs' : \/ p \in DOMAIN jobs /\ jobs'[p] = jobs[p]
                                 \/ p = Len(jobs) + 1 /\ jobs'[p] = job
      /\ \A p \in DOMAIN jobs : p \in Nat \ {0} /\ p <= Len(jobs)
  BY AppendFacts DEF RuntimeTypes
<1>2. UNCHANGED <<delivered, lost, executed>>
  BY DEF runtimeHistory
<1>3. job.tag = "Connect" => job.host = 0
  BY DEF JobSound
<1>4. ui.host \in Nat /\ \A p \in DOMAIN jobs : jobs[p].host \in Nat
  <2>1. ui.host \in Nat
    BY DEF RuntimeTypes
  <2>2. \A p \in DOMAIN jobs : jobs[p] \in RuntimeJob
    BY ElementFacts DEF RuntimeTypes
  <2> QED BY <2>1, <2>2 DEF RuntimeJob
<1>5. RuntimeTypes'
  BY <1>1, <1>2 DEF RuntimeTypes
<1>6. HostsOrdered'
  <2>1. \A p \in DOMAIN jobs' : jobs'[p].host <= ui.host
    BY <1>1, <1>3, <1>4 DEF HostsOrdered
  <2>2. ASSUME NEW p \in DOMAIN jobs', NEW q \in DOMAIN jobs', p <= q, jobs'[q].tag # "Connect"
        PROVE  jobs'[p].host <= jobs'[q].host
    <3>1. CASE q \in DOMAIN jobs /\ jobs'[q] = jobs[q]
      <4>1. p \in DOMAIN jobs /\ jobs'[p] = jobs[p]
        <5>1. q <= Len(jobs) /\ q \in Nat /\ Len(jobs) \in Nat
          BY <1>1, <3>1 DEF RuntimeTypes
        <5> QED BY <1>1, <2>2, <5>1
      <4> QED BY <2>2, <3>1, <4>1 DEF HostsOrdered
    <3>2. CASE jobs'[q] = job
      BY <1>4, <2>1, <2>2, <3>2
    <3> QED BY <1>1, <3>1, <3>2
  <2> QED BY <2>1, <2>2 DEF HostsOrdered
<1>7. RuntimeShape'
  <2>1. \A p \in DOMAIN jobs' : JobSound(jobs'[p])
    BY <1>1 DEF RuntimeShape
  <2>2. JobSound(job)' <=> JobSound(job)
    BY DEF JobSound
  <2> QED BY <1>2, <2>1 DEF RuntimeShape, JobSound, ReplySound, KnownSound, KeySound, LossSound
<1>8. NamedFirst'
  <2> SUFFICES ASSUME NEW p \in DOMAIN jobs', jobs'[p].tag = "Attached", jobs'[p].host = 0
               PROVE  /\ p <= 2 /\ (p = 2 => jobs'[1].tag = "Connect" /\ worker.host = 0)
                      /\ ui.host \in {0, worker.host} /\ ui.active = NotAttached /\ typed = 0
                      /\ \A r \in DOMAIN replies : replies[r].host \in {0, worker.host} /\ ~Attaches(r)
    BY DEF NamedFirst, Attaches
  <2>1. p \in DOMAIN jobs /\ jobs[p] = jobs'[p]
    BY <1>1
  <2>2. p = 2 => 1 \in DOMAIN jobs
    BY <2>1 DEF RuntimeTypes
  <2> QED BY <1>1, <2>1, <2>2 DEF NamedFirst
<1>9. AttachedInOrder'
  BY DEF AttachedInOrder, Attaches
<1>10. FormerInput'
  <2> SUFFICES ASSUME NEW p \in DOMAIN jobs', jobs'[p].tag = "Input", jobs'[p].host # worker.host
               PROVE  NothingNow'
    BY DEF FormerInput
  <2>1. NothingNow
    BY <1>1 DEF FormerInput
  <2> QED BY <1>1, <2>1 DEF NothingNow, Attaches
<1>11. GapsSeen'
  BY <1>1, <1>2 DEF GapsSeen, GapSeen, Follows, HeldBack, TellsFirst, Attaches
<1>12. ActsOnTheHostSeen'
  BY <1>2 DEF ActsOnTheHostSeen
<1> QED BY <1>5, <1>6, <1>7, <1>8, <1>9, <1>10, <1>11, <1>12

\* A host that ends, is replaced by a later one, or has another owner.
LEMMA HostMoves ==
  ASSUME RuntimeInv, host' \in HostType, host.id <= host'.id,
         UNCHANGED <<worker, jobs, replies, ui, buffer, typed, runtimeHistory>>
  PROVE  RuntimeInv'
<1> USE DEF RuntimeInv
<1>1. UNCHANGED <<delivered, lost, executed>>
  BY DEF runtimeHistory
<1>2. RuntimeTypes'
  BY <1>1 DEF RuntimeTypes, HostType
<1>3. HostsOrdered'
  <2>1. worker.host <= host'.id
    BY DEF HostsOrdered, RuntimeTypes, HostType
  <2> QED BY <2>1 DEF HostsOrdered
<1>4. RuntimeShape'
  BY <1>1 DEF RuntimeShape, JobSound, ReplySound, KnownSound, KeySound, LossSound
<1>5. NamedFirst' /\ AttachedInOrder' /\ FormerInput'
  BY DEF NamedFirst, AttachedInOrder, FormerInput, NothingNow, Attaches
<1>6. GapsSeen' /\ ActsOnTheHostSeen'
  BY <1>1 DEF GapsSeen, GapSeen, Follows, HeldBack, TellsFirst, Attaches, ActsOnTheHostSeen
<1> QED BY <1>2, <1>3, <1>4, <1>5, <1>6

\* A key is typed (buffer_input).
LEMMA KeyTyped == ASSUME RuntimeInv, Type PROVE RuntimeInv'
<1> USE DEF RuntimeInv
<1> DEFINE input == [host |-> ui.host, epoch |-> ui.active.epoch, key |-> typed + 1]
<1>1. /\ ui.active # NotAttached /\ ui.active.host = ui.host
      /\ typed' = typed + 1 /\ buffer' = Append(buffer, input)
      /\ UNCHANGED <<host, worker, jobs, replies, ui>> /\ UNCHANGED <<delivered, lost, executed>>
  BY DEF Type, CanInput, Mine, runtimeHistory
<1>2. typed \in Nat /\ ui.host # 0 /\ ui.host \in Nat
  BY <1>1 DEF RuntimeTypes, RuntimeShape, KnownSound
<1>3. input \in TypedKey
  <2>1. ui.active \in HostTerminal
    BY DEF RuntimeTypes
  <2> QED BY <1>2, <2>1 DEF TypedKey, HostTerminal
<1>4. /\ buffer' \in Seq(TypedKey)
      /\ \A b \in DOMAIN buffer' : \/ b \in DOMAIN buffer /\ buffer'[b] = buffer[b]
                                   \/ buffer'[b] = input
  BY <1>1, <1>3, AppendFacts DEF RuntimeTypes
<1>5. RuntimeTypes'
  BY <1>1, <1>2, <1>4 DEF RuntimeTypes
<1>6. HostsOrdered' /\ AttachedInOrder'
  BY <1>1 DEF HostsOrdered, AttachedInOrder, Attaches
<1>7. RuntimeShape'
  <2>1. \A k \in 1..typed : k \in 1..typed'
    BY <1>1, <1>2
  <2>2. (\A p \in DOMAIN jobs : JobSound(jobs[p]))'
    BY <1>1, <2>1 DEF RuntimeShape, JobSound
  <2>3. (\A b \in DOMAIN buffer : KeySound(buffer[b]))'
    BY <1>1, <1>2, <1>4, <2>1 DEF RuntimeShape, KeySound
  <2>4. (\A l \in lost : LossSound(l))'
    <3>1. \A l \in lost : l.since \in Nat
      BY DEF RuntimeTypes
    <3> QED BY <1>1, <1>2, <3>1 DEF RuntimeShape, LossSound
  <2>5. KnownSound'
    BY <1>1, <1>2 DEF RuntimeShape, KnownSound
  <2> QED BY <1>1, <2>2, <2>3, <2>4, <2>5 DEF RuntimeShape, ReplySound
<1>8. NamedFirst'
  BY <1>1 DEF NamedFirst
<1>9. FormerInput'
  <2> SUFFICES ASSUME NEW p \in DOMAIN jobs, jobs[p].tag = "Input", jobs[p].host # worker.host
               PROVE  NothingNow'
    BY <1>1 DEF FormerInput
  <2>1. NothingNow
    BY DEF FormerInput
  <2> QED BY <1>1, <1>4, <2>1 DEF NothingNow, Attaches
<1>10. GapsSeen'
  <2> SUFFICES ASSUME NEW l \in lost
               PROVE  GapSeen(l)'
    BY <1>1 DEF GapsSeen, GapSeen
  <2>1. l.since \in Nat /\ l.since <= typed + 1
    BY DEF RuntimeTypes, RuntimeShape, LossSound
  <2>2. l.since = 0 => HeldBack(ui.host)
    BY <1>1 DEF GapsSeen, GapSeen, TellsFirst, HeldBack
  <2>3. Follows(l, input)
    BY <1>2, <2>1, <2>2 DEF Follows
  <2>4. \A b \in DOMAIN buffer' : Follows(l, buffer'[b])
    BY <1>4, <2>3 DEF GapsSeen, GapSeen
  <2> QED BY <1>1, <2>4 DEF GapsSeen, GapSeen, Follows, HeldBack, TellsFirst, Attaches
<1>11. ActsOnTheHostSeen'
  BY <1>1 DEF ActsOnTheHostSeen
<1> QED BY <1>5, <1>6, <1>7, <1>8, <1>9, <1>10, <1>11

\* The oldest key is submitted (flush_input).
LEMMA KeyFlushed == ASSUME RuntimeInv, Flush PROVE RuntimeInv'
<1> USE DEF RuntimeInv
<1> DEFINE input == Head(buffer)
           job == Job("Input", input.epoch, input.key)
<1>1. /\ 1 \in DOMAIN buffer /\ input = buffer[1] /\ input \in TypedKey
      /\ Tail(buffer) \in Seq(TypedKey) /\ DOMAIN Tail(buffer) \subseteq Nat \ {0}
      /\ \A b \in DOMAIN Tail(buffer) : b + 1 \in DOMAIN buffer /\ Tail(buffer)[b] = buffer[b + 1]
  BY TailFacts DEF Flush, RuntimeTypes
<1>2. KeySound(input)
  BY <1>1 DEF RuntimeShape
<1>3. /\ jobs' = Append(jobs, job) /\ buffer' = Tail(buffer)
      /\ UNCHANGED <<host, worker, replies, ui, typed, delivered, lost, executed>>
  BY <1>2 DEF Flush, Submit, KeySound
<1> HIDE DEF input
<1>4. /\ job \in RuntimeJob /\ job.tag = "Input" /\ job.host = ui.host /\ job.key = input.key
      /\ JobSound(job) /\ ui.host \in Nat \ {0} /\ typed # 0 /\ worker.host \in Nat
  <2>1. typed # 0 /\ ui.host # 0 /\ ui.host \in Nat /\ typed \in Nat /\ worker.host \in Nat
    BY <1>2 DEF KeySound, RuntimeShape, KnownSound, RuntimeTypes
  <2> QED BY <1>1, <1>2, <2>1 DEF Job, JobFor, RuntimeJob, JobTags, TypedKey, JobSound, KeySound
<1> HIDE DEF job
<1>5. /\ jobs' \in Seq(RuntimeJob)
      /\ \A p \in DOMAIN jobs' : \/ p \in DOMAIN jobs /\ jobs'[p] = jobs[p]
                                 \/ p = Len(jobs) + 1 /\ jobs'[p] = job
      /\ \A p \in DOMAIN jobs : p \in Nat \ {0} /\ p <= Len(jobs)
  BY <1>3, <1>4, AppendFacts DEF RuntimeTypes
<1>6. \A p \in DOMAIN jobs : jobs[p].host \in Nat
  <2>1. \A p \in DOMAIN jobs : jobs[p] \in RuntimeJob
    BY ElementFacts DEF RuntimeTypes
  <2> QED BY <2>1 DEF RuntimeJob
<1>7. RuntimeTypes'
  BY <1>1, <1>3, <1>5 DEF RuntimeTypes
<1>8. HostsOrdered'
  <2>1. \A p \in DOMAIN jobs' : jobs'[p].host <= ui.host
    BY <1>4, <1>5, <1>6 DEF HostsOrdered
  <2>2. ASSUME NEW p \in DOMAIN jobs', NEW q \in DOMAIN jobs', p <= q, jobs'[q].tag # "Connect"
        PROVE  jobs'[p].host <= jobs'[q].host
    <3>1. CASE q \in DOMAIN jobs /\ jobs'[q] = jobs[q]
      <4>1. p \in DOMAIN jobs /\ jobs'[p] = jobs[p]
        <5>1. q <= Len(jobs) /\ q \in Nat /\ Len(jobs) \in Nat
          BY <1>5, <3>1 DEF RuntimeTypes
        <5> QED BY <1>5, <2>2, <5>1
      <4> QED BY <2>2, <3>1, <4>1 DEF HostsOrdered
    <3>2. CASE jobs'[q] = job
      BY <1>4, <2>1, <3>2
    <3> QED BY <1>5, <3>1, <3>2
  <2> QED BY <1>3, <2>1, <2>2 DEF HostsOrdered
<1>9. RuntimeShape'
  <2>1. \A p \in DOMAIN jobs' : JobSound(jobs'[p])
    BY <1>4, <1>5 DEF RuntimeShape
  <2>2. \A b \in DOMAIN buffer' : KeySound(buffer'[b])
    BY <1>1, <1>3 DEF RuntimeShape
  <2> QED BY <1>3, <2>1, <2>2 DEF RuntimeShape, JobSound, ReplySound, KnownSound, KeySound, LossSound
<1>10. NamedFirst'
  BY <1>3, <1>4, <1>5 DEF NamedFirst
<1>11. AttachedInOrder' /\ ActsOnTheHostSeen'
  BY <1>3 DEF AttachedInOrder, Attaches, ActsOnTheHostSeen
<1>12. FormerInput'
  <2> SUFFICES ASSUME NEW p \in DOMAIN jobs', jobs'[p].tag = "Input", jobs'[p].host # worker.host
               PROVE  NothingNow'
    BY <1>3 DEF FormerInput
  <2>1. CASE p \in DOMAIN jobs /\ jobs'[p] = jobs[p]
    <3>1. NothingNow
      BY <2>1 DEF FormerInput
    <3>2. job.host # worker.host
      BY <1>1, <1>2, <1>4, <3>1 DEF NothingNow, KeySound
    <3> QED BY <1>1, <1>3, <1>5, <3>1, <3>2 DEF NothingNow, Attaches
  <2>2. CASE jobs'[p] = job
    <3>1. ui.host < worker.host
      BY <1>4, <2>2 DEF HostsOrdered
    <3>2. \A q \in DOMAIN jobs : jobs[q].host # worker.host
      BY <1>4, <1>6, <3>1 DEF HostsOrdered
    <3>3. \A b \in DOMAIN buffer' : buffer'[b].host # worker.host
      BY <1>1, <1>3, <1>4, <2>2 DEF RuntimeShape, KeySound
    <3>4. ui.active.host # worker.host
      BY <1>4, <3>1 DEF RuntimeShape, KnownSound
    <3>5. \A r \in DOMAIN replies : Attaches(r) => replies[r].host # worker.host
      BY <1>4, <3>1 DEF AttachedInOrder
    <3> QED BY <1>3, <1>4, <1>5, <2>2, <3>2, <3>3, <3>4, <3>5 DEF NothingNow, Attaches
  <2> QED BY <1>5, <2>1, <2>2
<1>13. GapsSeen'
  <2> SUFFICES ASSUME NEW l \in lost
               PROVE  GapSeen(l)'
    BY <1>3 DEF GapsSeen, GapSeen
  <2>1. Follows(l, input)
    BY <1>1 DEF GapsSeen, GapSeen
  <2>2. Follows(l, job)
    BY <1>2, <1>4, <2>1 DEF Follows, KeySound
  <2>3. \A p \in DOMAIN jobs' : jobs'[p].tag = "Input" => Follows(l, jobs'[p])
    BY <1>5, <2>2 DEF GapsSeen, GapSeen
  <2>4. \A b \in DOMAIN buffer' : Follows(l, buffer'[b])
    BY <1>1, <1>3 DEF GapsSeen, GapSeen
  <2> QED BY <1>3, <2>3, <2>4 DEF GapsSeen, GapSeen, Follows, HeldBack, TellsFirst, Attaches
<1> QED BY <1>7, <1>8, <1>9, <1>10, <1>11, <1>12, <1>13

-----------------------------------------------------------------------------
(* The worker answers a request                                            *)

WorkFrame(job, w, reply) ==
  /\ job = jobs[1] /\ 1 \in DOMAIN jobs /\ job \in RuntimeJob /\ JobSound(job)
  /\ w \in WorkerType /\ worker' = w /\ reply \in RuntimeReply /\ ReplySound(reply)
  /\ reply.tag = job.tag /\ reply.host = w.host
  /\ jobs' \in Seq(RuntimeJob) /\ replies' \in Seq(RuntimeReply)
  /\ \A p \in DOMAIN jobs' : p \in Nat \ {0} /\ p + 1 \in DOMAIN jobs /\ jobs'[p] = jobs[p + 1]
  /\ \A r \in DOMAIN replies : /\ r \in DOMAIN replies' /\ replies'[r] = replies[r]
                               /\ r \in Nat \ {0} /\ r <= Len(replies)
  /\ \A r \in DOMAIN replies' : \/ r \in DOMAIN replies /\ replies'[r] = replies[r]
                                \/ r = Len(replies) + 1 /\ replies'[r] = reply
  /\ Len(replies) + 1 \in DOMAIN replies' /\ replies'[Len(replies) + 1] = reply
  /\ UNCHANGED <<ui, buffer, typed>>
  /\ host' \in HostType /\ host'.id = host.id
  /\ Connects(job, w) \/ TurnsDown(job, w, reply) \/ Obeys(job, w)

\* One request and its answer, what is left and what has been answered.
LEMMA WorkFrames ==
  ASSUME RuntimeInv, Work
  PROVE  \E job \in RuntimeJob, w \in WorkerType, reply \in RuntimeReply : WorkFrame(job, w, reply)
<1>1. RuntimeTypes /\ RuntimeShape
  BY DEF RuntimeInv
<1>2. PICK w \in WorkerType, reply \in RuntimeReply :
           jobs # << >> /\ Head(jobs) \in RuntimeJob /\ Handles(Head(jobs), w, reply)
  BY <1>1, WorkDone
<1> DEFINE job == Head(jobs)
<1>3. /\ 1 \in DOMAIN jobs /\ job = jobs[1]
      /\ Tail(jobs) \in Seq(RuntimeJob) /\ DOMAIN Tail(jobs) \subseteq Nat \ {0}
      /\ \A i \in DOMAIN Tail(jobs) : i + 1 \in DOMAIN jobs /\ Tail(jobs)[i] = jobs[i + 1]
  BY <1>1, <1>2, TailFacts DEF RuntimeTypes
<1>4. JobSound(job)
  BY <1>1, <1>3 DEF RuntimeShape
<1> HIDE DEF job
<1>5. Handles(job, w, reply) /\ job \in RuntimeJob /\ jobs' = Tail(jobs)
  BY <1>2 DEF job, Handles
<1>6. /\ Append(replies, reply) \in Seq(RuntimeReply) /\ replies' = Append(replies, reply)
      /\ \A i \in DOMAIN replies : i \in DOMAIN Append(replies, reply)
                                   /\ Append(replies, reply)[i] = replies[i]
      /\ \A i \in DOMAIN Append(replies, reply) :
            \/ i \in DOMAIN replies /\ Append(replies, reply)[i] = replies[i]
            \/ i = Len(replies) + 1 /\ Append(replies, reply)[i] = reply
      /\ Len(replies) + 1 \in DOMAIN Append(replies, reply)
      /\ Append(replies, reply)[Len(replies) + 1] = reply
      /\ \A i \in DOMAIN replies : i \in Nat \ {0} /\ i <= Len(replies)
  BY <1>1, <1>5, AppendFacts DEF RuntimeTypes, Handles
<1>7. UNCHANGED <<ui, buffer, typed>>
  BY DEF Work
<1>8. WorkFrame(job, w, reply)
  BY <1>3, <1>4, <1>5, <1>6, <1>7 DEF WorkFrame, Handles
<1> QED BY <1>5, <1>8

\* The worker is connected to the same host, or to a later one.
LEMMA WorkerForward ==
  ASSUME RuntimeInv, NEW job, NEW w, NEW reply, WorkFrame(job, w, reply)
  PROVE  /\ w.host \in Nat /\ worker.host \in Nat /\ host.id \in Nat \ {0} /\ ui.host \in Nat
         /\ worker.host <= w.host /\ w.host <= host.id /\ job.host \in Nat /\ job.key \in Nat
         /\ w.host # worker.host => w.host = host.id /\ (worker.host = 0 \/ job.tag = "Connect")
<1>1. w.host \in Nat /\ worker.host \in Nat /\ host.id \in Nat \ {0} /\ ui.host \in Nat
  BY DEF WorkFrame, WorkerType, RuntimeInv, RuntimeTypes
<1>2. worker.host <= host.id
  BY DEF RuntimeInv, HostsOrdered
<1>3. job.host \in Nat /\ job.key \in Nat
  BY DEF WorkFrame, RuntimeJob
<1> QED BY <1>1, <1>2, <1>3 DEF WorkFrame, Connects, TurnsDown, Obeys

\* What was answered has the type of what is answered.
LEMMA WorkTypes ==
  ASSUME RuntimeInv, NEW job, NEW w, NEW reply, WorkFrame(job, w, reply)
  PROVE  RuntimeTypes' /\ HostsOrdered' /\ RuntimeShape' /\ ActsOnTheHostSeen'
<1> USE DEF RuntimeInv
<1>1. /\ w.host \in Nat /\ worker.host \in Nat /\ host.id \in Nat \ {0} /\ ui.host \in Nat
      /\ worker.host <= w.host /\ w.host <= host.id /\ job.host \in Nat /\ job.key \in Nat
  BY WorkerForward
<1>2. lost' \subseteq lost \union LostWith(job) /\ delivered' \in {delivered, Append(delivered, job.key)}
  BY DEF WorkFrame, Connects, TurnsDown, Obeys
<1>3. \A l \in LostWith(job) : /\ l \in [key : Nat, since : Nat] /\ l.since = 0
                               /\ l.key = job.key /\ typed # 0
  <2>1. job.key # 0 => job.key \in 1..typed /\ typed \in Nat
    BY DEF WorkFrame, JobSound, RuntimeTypes
  <2> QED BY <1>1, <2>1 DEF LostWith
<1>4. RuntimeTypes'
  <2>1. lost' \subseteq [key : Nat, since : Nat]
    BY <1>2, <1>3 DEF RuntimeTypes
  <2>2. delivered' \in Seq(Nat)
    <3>1. delivered \in Seq(Nat) /\ job.key \in Nat
      BY <1>1 DEF RuntimeTypes
    <3>2. Append(delivered, job.key) \in Seq(Nat)
      BY <3>1
    <3> QED BY <1>2, <3>1, <3>2
  <2> QED BY <2>1, <2>2 DEF RuntimeTypes, WorkFrame, HostType, WorkerType
<1>5. HostsOrdered'
  <2>1. \A r \in DOMAIN replies : replies[r].host \in Nat
    <3>1. \A r \in DOMAIN replies : replies[r] \in RuntimeReply
      BY ElementFacts DEF RuntimeTypes
    <3> QED BY <3>1 DEF RuntimeReply
  <2>2. ui.host <= worker.host
    BY DEF HostsOrdered
  <2>3. ASSUME NEW r \in DOMAIN replies'
        PROVE  ui.host <= replies'[r].host /\ replies'[r].host <= w.host
    <3>1. CASE r \in DOMAIN replies /\ replies'[r] = replies[r]
      <4>1. ui.host <= replies[r].host /\ replies[r].host <= worker.host
        BY <3>1 DEF HostsOrdered
      <4> QED BY <1>1, <2>1, <3>1, <4>1
    <3>2. CASE replies'[r] = reply
      <4>1. reply.host = w.host
        BY DEF WorkFrame
      <4> QED BY <1>1, <2>2, <3>2, <4>1
    <3> QED BY <3>1, <3>2 DEF WorkFrame
  <2>4. ASSUME NEW r \in DOMAIN replies', NEW t \in DOMAIN replies', r <= t
        PROVE  replies'[r].host <= replies'[t].host
    <3>1. CASE t \in DOMAIN replies /\ replies'[t] = replies[t]
      <4>1. r \in DOMAIN replies /\ replies'[r] = replies[r]
        <5>1. t <= Len(replies) /\ t \in Nat /\ Len(replies) \in Nat
          BY <3>1, ElementFacts DEF WorkFrame, RuntimeTypes
        <5> QED BY <2>4, <5>1 DEF WorkFrame
      <4> QED BY <2>4, <3>1, <4>1 DEF HostsOrdered
    <3>2. CASE replies'[t] = reply
      BY <2>3, <3>2 DEF WorkFrame
    <3> QED BY <3>1, <3>2 DEF WorkFrame
  <2>5. \A p \in DOMAIN jobs' : jobs'[p].host <= ui.host
    BY DEF HostsOrdered, WorkFrame
  <2>6. \A p, q \in DOMAIN jobs' :
           p <= q /\ jobs'[q].tag # "Connect" => jobs'[p].host <= jobs'[q].host
    BY DEF HostsOrdered, WorkFrame
  <2> QED BY <1>1, <2>2, <2>3, <2>4, <2>5, <2>6 DEF HostsOrdered, WorkFrame
<1>6. RuntimeShape'
  <2>1. (\A p \in DOMAIN jobs : JobSound(jobs[p]))'
    BY DEF RuntimeShape, JobSound, WorkFrame
  <2>2. (\A r \in DOMAIN replies : ReplySound(replies[r]))'
    BY DEF RuntimeShape, ReplySound, WorkFrame
  <2>3. (\A b \in DOMAIN buffer : KeySound(buffer[b]))' /\ KnownSound'
    BY DEF RuntimeShape, KeySound, KnownSound, WorkFrame
  <2>4. (\A l \in lost : LossSound(l))'
    <3> SUFFICES ASSUME NEW l \in lost' PROVE typed # 0 /\ l.since <= typed + 1
      BY DEF LossSound, WorkFrame
    <3>1. CASE l \in lost
      BY <3>1 DEF RuntimeShape, LossSound
    <3>2. CASE l \in LostWith(job)
      <4>1. typed \in Nat
        BY DEF RuntimeTypes
      <4> QED BY <1>3, <3>2, <4>1
    <3> QED BY <1>2, <3>1, <3>2
  <2> QED BY <2>1, <2>2, <2>3, <2>4 DEF RuntimeShape
<1>7. ActsOnTheHostSeen'
  <2>1. CASE executed' = executed
    BY <2>1 DEF ActsOnTheHostSeen
  <2>2. CASE Obeys(job, w) /\ executed' = [host |-> host.id, seen |-> job.seen]
    <3>1. job.host <= ui.host /\ ui.host <= worker.host
      BY DEF WorkFrame, HostsOrdered
    <3>2. job.seen = job.host /\ job.host \in {0, host.id}
      BY <1>1, <2>2, <3>1 DEF Obeys, WorkFrame, JobSound
    <3> QED BY <2>2, <3>2 DEF ActsOnTheHostSeen
  <2> QED BY <2>1, <2>2 DEF WorkFrame, Connects, TurnsDown, Obeys
<1> QED BY <1>4, <1>5, <1>6, <1>7

\* An answer that attaches is from the host its request was made for, or
\* from the first one.
LEMMA AttachesHere ==
  ASSUME RuntimeInv, NEW job, NEW w, NEW reply, WorkFrame(job, w, reply),
         reply.ok, reply.tag = "Attached"
  PROVE  /\ worker.host # 0 /\ w.host = worker.host
         /\ job.host = 0 => NamedFirst /\ jobs[1].tag = "Attached" /\ jobs[1].host = 0
         /\ job.host # 0 => job.host = worker.host /\ ui.host = worker.host
<1>1. Obeys(job, w) /\ job.tag = "Attached"
  BY DEF WorkFrame, Connects, TurnsDown
<1>2. job.host <= ui.host /\ ui.host <= worker.host
  BY DEF WorkFrame, RuntimeInv, HostsOrdered
<1>3. job.host \in Nat /\ ui.host \in Nat /\ worker.host \in Nat
  BY WorkerForward
<1> QED BY <1>1, <1>2, <1>3 DEF Obeys, WorkFrame, RuntimeInv

\* What answers attach, and what is typed for a former host.
LEMMA WorkAttaches ==
  ASSUME RuntimeInv, NEW job, NEW w, NEW reply, WorkFrame(job, w, reply)
  PROVE  NamedFirst' /\ AttachedInOrder' /\ FormerInput'
<1> USE DEF RuntimeInv
<1>1. /\ w.host \in Nat /\ worker.host \in Nat /\ host.id \in Nat \ {0} /\ ui.host \in Nat
      /\ worker.host <= w.host /\ w.host <= host.id /\ job.host \in Nat
      /\ w.host # worker.host => w.host = host.id /\ (worker.host = 0 \/ job.tag = "Connect")
  BY WorkerForward
<1>2. \A r \in DOMAIN replies : replies[r].host \in Nat
  <2>1. \A r \in DOMAIN replies : replies[r] \in RuntimeReply
    BY ElementFacts DEF RuntimeTypes
  <2> QED BY <2>1 DEF RuntimeReply
<1>3. \A p \in DOMAIN jobs : jobs[p].host \in Nat
  <2>1. \A p \in DOMAIN jobs : jobs[p] \in RuntimeJob
    BY ElementFacts DEF RuntimeTypes
  <2> QED BY <2>1 DEF RuntimeJob
<1>4. \A r \in DOMAIN replies : Attaches(r)' <=> Attaches(r)
  BY DEF Attaches, WorkFrame
<1>5. ASSUME NEW r \in DOMAIN replies', Attaches(r)', replies'[r] = reply
      PROVE  reply.ok /\ reply.tag = "Attached"
  BY <1>5 DEF Attaches
<1>6. NamedFirst'
  <2> SUFFICES ASSUME NEW p \in DOMAIN jobs', jobs'[p].tag = "Attached", jobs'[p].host = 0
               PROVE  (/\ p <= 2 /\ (p = 2 => jobs[1].tag = "Connect" /\ worker.host = 0)
                       /\ ui.host \in {0, worker.host} /\ ui.active = NotAttached /\ typed = 0
                       /\ \A r \in DOMAIN replies : replies[r].host \in {0, worker.host} /\ ~Attaches(r))'
    BY DEF NamedFirst
  <2>1. p \in Nat \ {0} /\ p + 1 \in DOMAIN jobs /\ jobs[p + 1] = jobs'[p]
    BY DEF WorkFrame
  <2>2. /\ p = 1 /\ job.tag = "Connect" /\ worker.host = 0 /\ ui.host = 0
        /\ ui.active = NotAttached /\ typed = 0
        /\ \A r \in DOMAIN replies : replies[r].host = 0 /\ ~Attaches(r)
    <3>1. /\ p + 1 <= 2 /\ (p + 1 = 2 => jobs[1].tag = "Connect" /\ worker.host = 0)
          /\ ui.host \in {0, worker.host} /\ ui.active = NotAttached /\ typed = 0
          /\ \A r \in DOMAIN replies : replies[r].host \in {0, worker.host} /\ ~Attaches(r)
      BY <2>1 DEF NamedFirst
    <3>2. p = 1
      BY <2>1, <3>1
    <3> QED BY <3>1, <3>2 DEF WorkFrame
  <2>3. ASSUME NEW r \in DOMAIN replies' PROVE replies'[r].host \in {0, w.host} /\ ~Attaches(r)'
    BY <1>4, <1>5, <2>2 DEF WorkFrame
  <2> QED BY <2>2, <2>3 DEF WorkFrame
<1>7. AttachedInOrder'
  <2> SUFFICES ASSUME NEW r \in DOMAIN replies', Attaches(r)'
               PROVE  /\ ui.host \in {0, replies'[r].host}
                      /\ \A t \in DOMAIN replies' : t <= r => replies'[t].host \in {0, replies'[r].host}
    BY DEF AttachedInOrder, WorkFrame
  <2>1. CASE r \in DOMAIN replies /\ replies'[r] = replies[r]
    <3>1. r <= Len(replies) /\ r \in Nat /\ Len(replies) \in Nat
      BY <2>1, ElementFacts DEF WorkFrame, RuntimeTypes
    <3>2. \A t \in DOMAIN replies' : t <= r => t \in DOMAIN replies /\ replies'[t] = replies[t]
      BY <3>1 DEF WorkFrame
    <3> QED BY <1>4, <2>1, <3>2 DEF AttachedInOrder
  <2>2. CASE replies'[r] = reply
    <3>1. reply.ok /\ reply.tag = "Attached" /\ reply.host = w.host
      BY <1>5, <2>2 DEF WorkFrame
    <3>2. /\ w.host = worker.host
          /\ job.host = 0 => NamedFirst /\ jobs[1].tag = "Attached" /\ jobs[1].host = 0
          /\ job.host # 0 => job.host = worker.host /\ ui.host = worker.host
      BY <3>1, AttachesHere
    <3>3. ui.host \in {0, worker.host} /\ \A t \in DOMAIN replies : replies[t].host \in {0, worker.host}
      <4>1. CASE job.host = 0
        BY <3>2, <4>1 DEF NamedFirst, WorkFrame
      <4>2. CASE job.host # 0
        BY <1>1, <1>2, <3>2, <4>2 DEF HostsOrdered
      <4> QED BY <4>1, <4>2
    <3> QED BY <2>2, <3>1, <3>2, <3>3 DEF WorkFrame
  <2> QED BY <2>1, <2>2 DEF WorkFrame
<1>8. FormerInput'
  <2> SUFFICES ASSUME NEW p \in DOMAIN jobs', jobs'[p].tag = "Input", jobs'[p].host # w.host
               PROVE  NothingNow'
    BY DEF FormerInput, WorkFrame
  <2>1. /\ p \in Nat \ {0} /\ p + 1 \in DOMAIN jobs /\ jobs[p + 1] = jobs'[p]
        /\ JobSound(jobs[p + 1])
    BY DEF WorkFrame, RuntimeShape
  <2>2. typed # 0
    BY <2>1 DEF JobSound, RuntimeTypes
  <2>3. CASE w.host = worker.host
    <3>1. NothingNow
      BY <2>1, <2>3 DEF FormerInput
    <3>2. ~(reply.ok /\ reply.tag = "Attached")
      <4> SUFFICES ASSUME reply.ok, reply.tag = "Attached" PROVE FALSE
        OBVIOUS
      <4>1. /\ job.host = 0 => NamedFirst /\ jobs[1].tag = "Attached" /\ jobs[1].host = 0
            /\ job.host # 0 => job.host = worker.host /\ ui.host = worker.host
        BY AttachesHere
      <4>2. job.host # 0
        BY <2>2, <4>1 DEF NamedFirst, WorkFrame
      <4>3. jobs[1].host <= jobs[p + 1].host /\ jobs[p + 1].host <= ui.host
        <5>1. /\ 1 \in DOMAIN jobs /\ 1 <= p + 1 /\ jobs[p + 1].tag # "Connect"
          BY <2>1 DEF WorkFrame
        <5>2. /\ \A q \in DOMAIN jobs : jobs[q].host <= ui.host
              /\ \A k, q \in DOMAIN jobs :
                    k <= q /\ jobs[q].tag # "Connect" => jobs[k].host <= jobs[q].host
          BY Zenon DEF HostsOrdered
        <5> HIDE DEF RuntimeInv
        <5> QED BY <2>1, <5>1, <5>2
      <4>4. jobs[p + 1].host \in Nat /\ jobs[1].host = job.host
        BY <1>3, <2>1 DEF WorkFrame
      <4> QED BY <1>1, <2>1, <2>3, <4>1, <4>2, <4>3, <4>4
    <3>3. \A r \in DOMAIN replies' : Attaches(r)' => replies'[r].host # w.host
      BY <1>4, <1>5, <2>3, <3>1, <3>2 DEF NothingNow, WorkFrame
    <3> QED BY <2>3, <3>1, <3>3 DEF NothingNow, WorkFrame
  <2>4. CASE w.host # worker.host
    <3>1. worker.host < w.host /\ w.host = host.id /\ ui.host <= worker.host /\ ui.host < w.host
      BY <1>1, <2>4 DEF HostsOrdered
    <3>2. \A q \in DOMAIN jobs : jobs[q].host # w.host
      BY <1>1, <1>3, <3>1 DEF HostsOrdered
    <3>3. \A b \in DOMAIN buffer : buffer[b].host # w.host
      BY <1>1, <3>1 DEF RuntimeShape, KeySound
    <3>4. ui.active.host # w.host
      BY <1>1, <3>1 DEF RuntimeShape, KnownSound
    <3>5. \A r \in DOMAIN replies : replies[r].host # w.host
      BY <1>1, <1>2, <3>1 DEF HostsOrdered
    <3>6. ~(reply.ok /\ reply.tag = "Attached")
      BY <2>4, AttachesHere
    <3>7. \A r \in DOMAIN replies' : Attaches(r)' => replies'[r].host # w.host
      BY <1>4, <1>5, <3>5, <3>6 DEF WorkFrame
    <3> QED BY <3>2, <3>3, <3>4, <3>7 DEF NothingNow, WorkFrame
  <2> QED BY <2>3, <2>4
<1> QED BY <1>6, <1>7, <1>8

\* What was lost, and what may still be delivered.
LEMMA WorkGaps ==
  ASSUME RuntimeInv, NEW job, NEW w, NEW reply, WorkFrame(job, w, reply)
  PROVE  GapsSeen'
<1> USE DEF RuntimeInv
<1>1. /\ worker.host \in Nat /\ ui.host \in Nat /\ ui.host <= worker.host /\ job.key \in Nat
      /\ job = jobs[1] /\ 1 \in DOMAIN jobs
  BY WorkerForward DEF HostsOrdered, WorkFrame
<1>2. CASE job.tag = "Connect" /\ lost' = {}
  BY <1>2 DEF GapsSeen, GapSeen
<1>3. CASE worker.host = 0
  <2>1. typed = 0
    BY <1>1, <1>3 DEF RuntimeShape, KnownSound
  <2>2. lost = {} /\ job.key = 0
    BY <2>1 DEF RuntimeShape, LossSound, WorkFrame, JobSound
  <2>3. lost' = {}
    BY <2>2 DEF LostWith, WorkFrame, Connects, TurnsDown, Obeys
  <2> QED BY <2>3 DEF GapsSeen, GapSeen
<1>4. CASE worker.host # 0 /\ (TurnsDown(job, w, reply) \/ Obeys(job, w))
  <2>1. w.host = worker.host /\ (worker.failed => w.failed) /\ worker' = w
    BY <1>4 DEF TurnsDown, Obeys, WorkFrame
  <2>2. \A h : HeldBack(h) => HeldBack(h)'
    BY <2>1 DEF HeldBack
  <2>3. \A r \in DOMAIN replies : Attaches(r)' <=> Attaches(r)
    BY DEF Attaches, WorkFrame
  <2>4. \A r \in DOMAIN replies, t \in DOMAIN replies' :
           t <= r => t \in DOMAIN replies /\ replies'[t] = replies[t]
    <3>1. \A r \in DOMAIN replies : r <= Len(replies) /\ r \in Nat /\ Len(replies) \in Nat
      BY ElementFacts DEF RuntimeTypes
    <3> QED BY <3>1 DEF WorkFrame
  <2>5. ASSUME NEW l \in lost
        PROVE  GapSeen(l)'
    <3>1. \A input : Follows(l, input) => Follows(l, input)'
      BY <2>2 DEF Follows
    <3>2. TellsFirst => TellsFirst'
      <4> SUFFICES ASSUME TellsFirst PROVE TellsFirst'
        OBVIOUS
      <4>1. PICK r \in DOMAIN replies :
               /\ ~replies[r].ok
               /\ \A t \in DOMAIN replies : t <= r /\ Attaches(t) => replies[t].host # worker.host
        BY DEF TellsFirst
      <4>2. r \in DOMAIN replies' /\ replies'[r] = replies[r]
        BY DEF WorkFrame
      <4>3. \A t \in DOMAIN replies' : t <= r /\ Attaches(t)' => replies'[t].host # worker'.host
        BY <2>1, <2>3, <2>4, <4>1
      <4> QED BY <2>1, <4>1, <4>2, <4>3 DEF TellsFirst, WorkFrame
    <3>3. GapSeen(l)
      BY DEF GapsSeen
    <3>4. /\ worker.failed => worker'.failed
          /\ UNCHANGED buffer /\ \A p \in DOMAIN jobs' : p + 1 \in DOMAIN jobs /\ jobs'[p] = jobs[p + 1]
      BY <2>1 DEF WorkFrame
    <3> HIDE DEF TellsFirst, Follows
    <3> QED BY <3>1, <3>2, <3>3, <3>4 DEF GapSeen
  <2>6. ASSUME NEW l \in lost', l \notin lost
        PROVE  GapSeen(l)'
    <3>1. TurnsDown(job, w, reply) /\ job.key # 0 /\ l = [key |-> job.key, since |-> 0]
      BY <1>4, <2>6 DEF TurnsDown, Obeys, LostWith
    <3>2. CASE w.failed
      BY <2>1, <3>2 DEF Follows, HeldBack, GapSeen
    <3>3. CASE job.host # w.host
      <4>1. job.tag = "Input"
        BY <3>1 DEF WorkFrame, JobSound
      <4>2. NothingNow
        BY <1>1, <2>1, <3>3, <4>1 DEF FormerInput
      <4>3. \A p \in DOMAIN jobs' : jobs'[p].tag = "Input" => jobs'[p].host # w.host
        BY <2>1, <4>2 DEF NothingNow, WorkFrame
      <4>4. \A b \in DOMAIN buffer' : buffer'[b].host # w.host
        BY <2>1, <4>2 DEF NothingNow, WorkFrame
      <4>5. TellsFirst'
        <5>1. ~reply.ok
          BY <3>1 DEF TurnsDown
        <5>2. ui'.active.host # worker'.host
          BY <2>1, <4>2 DEF NothingNow, WorkFrame
        <5>3. \A t \in DOMAIN replies' : Attaches(t)' => replies'[t].host # worker'.host
          BY <2>1, <2>3, <4>2, <5>1 DEF NothingNow, Attaches, WorkFrame
        <5> QED BY <5>1, <5>2, <5>3 DEF TellsFirst, WorkFrame
      <4>6. (\A p \in DOMAIN jobs : jobs[p].tag = "Input" => HeldBack(jobs[p].host))'
        BY <2>1, <4>3 DEF HeldBack
      <4>7. (\A b \in DOMAIN buffer : HeldBack(buffer[b].host))'
        BY <2>1, <4>4 DEF HeldBack
      <4> QED BY <4>5, <4>6, <4>7 DEF Follows, GapSeen
    <3> QED BY <1>4, <3>1, <3>2, <3>3 DEF TurnsDown
  <2> QED BY <2>5, <2>6 DEF GapsSeen
<1> QED BY <1>2, <1>3, <1>4 DEF WorkFrame, Connects

\* The worker thread keeps the invariant.
LEMMA WorkKeeps == ASSUME RuntimeInv, Work PROVE RuntimeInv'
<1>1. PICK job \in RuntimeJob, w \in WorkerType, reply \in RuntimeReply : WorkFrame(job, w, reply)
  BY WorkFrames
<1> QED BY <1>1, WorkTypes, WorkAttaches, WorkGaps DEF RuntimeInv

\* What it delivers follows no loss that the user has not been told of.
LEMMA WorkDelivers ==
  ASSUME RuntimeInv, Work, NEW j \in DOMAIN delivered' \ DOMAIN delivered, NEW l \in lost,
         l.key < delivered'[j]
  PROVE  l.since \in 1..delivered'[j]
<1>1. PICK job \in RuntimeJob, w \in WorkerType, reply \in RuntimeReply : WorkFrame(job, w, reply)
  BY WorkFrames
<1>2. Obeys(job, w) /\ job.tag = "Input" /\ delivered' = Append(delivered, job.key)
  BY <1>1 DEF WorkFrame, Connects, TurnsDown, Obeys
<1>3. delivered \in Seq(Nat) /\ job.key \in Nat
  BY <1>1 DEF RuntimeInv, RuntimeTypes, RuntimeJob, WorkFrame
<1>4. delivered'[j] = job.key
  BY <1>2, <1>3
<1>5. /\ jobs[1] = job /\ 1 \in DOMAIN jobs /\ job.host # 0
      /\ worker.host # 0 /\ ~worker.failed /\ job.host = worker.host
  BY <1>1, <1>2 DEF WorkFrame, Obeys, JobSound
<1>6. Follows(l, job)
  BY <1>2, <1>5 DEF RuntimeInv, GapsSeen, GapSeen
<1> QED BY <1>4, <1>5, <1>6 DEF Follows, HeldBack

-----------------------------------------------------------------------------
(* The UI takes an answer                                                  *)

\* What the UI then shows: what it did, nothing, or what the answer says.
ShownNow(reply) ==
  \/ ui'.active = NotAttached
  \/ ui'.active = ui.active /\ ui.host \in {0, reply.host}
  \/ /\ ui'.active = reply.terminal /\ reply.ok
     /\ (reply.tag = "Attached" \/ ui.active.host = reply.terminal.host)

DrainFrame(reply) ==
  /\ reply = replies[1] /\ 1 \in DOMAIN replies /\ reply \in RuntimeReply /\ ReplySound(reply)
  /\ replies' \in Seq(RuntimeReply)
  /\ \A r \in DOMAIN replies' : r \in Nat \ {0} /\ r + 1 \in DOMAIN replies /\ replies'[r] = replies[r + 1]
  /\ \A r \in DOMAIN replies : r # 1 => r - 1 \in DOMAIN replies'
  /\ ui' \in [host : Nat, client : Nat, online : BOOLEAN, active : HostTerminal]
  /\ ui'.host = reply.host /\ ShownNow(reply)
  /\ ((lost' = lost /\ reply.ok) \/ Told)
  /\ buffer' = << >> \/ (buffer' = buffer /\ ui.host \in {0, reply.host})
  /\ \/ jobs' = jobs
     \/ \E tag \in {"List", "Attached", "Snapshot"} :
          jobs' = Append(jobs, [host |-> reply.host, tag |-> tag, epoch |-> 0, key |-> 0,
                                seen |-> reply.host]) /\ reply.ok
  /\ UNCHANGED <<host, worker, typed, delivered, executed>>

\* What the UI knows after an answer.
LEMMA KnownFacts ==
  ASSUME RuntimeInv, NEW reply \in RuntimeReply, ReplySound(reply), ui.host <= reply.host
  PROVE  /\ Known(reply) \in [host : Nat, client : Nat, online : BOOLEAN, active : HostTerminal]
         /\ Known(reply).host = reply.host
         /\ \/ Known(reply).active = NotAttached
            \/ Known(reply).active = ui.active /\ ui.host \in {0, reply.host}
         /\ ui.host \notin {0, reply.host} => Changed(reply)
<1>1. /\ ui \in [host : Nat, client : Nat, online : BOOLEAN, active : HostTerminal]
      /\ reply.host \in Nat /\ reply.client \in Nat /\ ui.host \in Nat
  BY DEF RuntimeInv, RuntimeTypes, RuntimeReply
<1>2. NotAttached \in HostTerminal
  BY DEF NotAttached, HostTerminal
<1>3. CASE reply.host = 0
  <2>1. ui.host = 0 /\ Known(reply) = ui
    BY <1>1, <1>3 DEF Known
  <2> QED BY <1>1, <1>3, <2>1
<1>4. CASE reply.host # 0
  <2> DEFINE a == IF Changed(reply) THEN NotAttached ELSE ui.active
  <2>1. a \in HostTerminal
    BY <1>1, <1>2
  <2>2. Known(reply) = [ui EXCEPT !.host = reply.host, !.client = reply.client, !.active = a]
    BY <1>1, <1>4 DEF Known
  <2>3. a = NotAttached \/ (a = ui.active /\ ui.host \in {0, reply.host})
    BY <1>4 DEF Changed
  <2> HIDE DEF a
  <2>4. Known(reply) = [host |-> reply.host, client |-> reply.client, online |-> ui.online, active |-> a]
    BY <1>1, <2>2
  <2> QED BY <1>1, <1>4, <2>1, <2>3, <2>4 DEF Changed
<1> QED BY <1>3, <1>4

\* What the UI takes of an answer (App::tick).
LEMMA DrainFrames ==
  ASSUME RuntimeInv, Drain
  PROVE  \E reply \in RuntimeReply : DrainFrame(reply)
<1> DEFINE reply == Head(replies)
           k == IF reply.ok THEN Shown(reply, Known(reply)) ELSE Known(reply)
           State == [host : Nat, client : Nat, online : BOOLEAN, active : HostTerminal]
<1>1. /\ 1 \in DOMAIN replies /\ reply = replies[1] /\ reply \in RuntimeReply
      /\ Tail(replies) \in Seq(RuntimeReply) /\ DOMAIN Tail(replies) \subseteq Nat \ {0}
      /\ \A i \in DOMAIN Tail(replies) : i + 1 \in DOMAIN replies /\ Tail(replies)[i] = replies[i + 1]
  BY TailFacts DEF Drain, RuntimeInv, RuntimeTypes
<1>2. ReplySound(reply) /\ ui.host <= reply.host
  BY <1>1 DEF RuntimeInv, RuntimeShape, HostsOrdered
<1>3. \A r \in DOMAIN replies : r # 1 => r - 1 \in DOMAIN Tail(replies)
  <2>1. replies \in Seq(RuntimeReply) /\ replies # << >>
    BY DEF Drain, RuntimeInv, RuntimeTypes
  <2> QED BY <2>1
<1>4. /\ replies' = Tail(replies) /\ ui' = [k EXCEPT !.online = Accepts(reply)]
      /\ jobs' = IF ~Accepts(reply) \/ FollowUp(reply) = "none" THEN jobs
                 ELSE Append(jobs, JobFor(k.host, FollowUp(reply), 0, 0))
      /\ IF Accepts(reply) THEN UNCHANGED lost ELSE Told
      /\ buffer' = IF Accepts(reply) /\ ~Changed(reply) THEN buffer ELSE << >>
      /\ UNCHANGED <<host, worker, typed, delivered, executed>>
  BY DEF Drain
<1> HIDE DEF reply
<1>5. /\ Known(reply) \in State /\ Known(reply).host = reply.host
      /\ \/ Known(reply).active = NotAttached
         \/ Known(reply).active = ui.active /\ ui.host \in {0, reply.host}
      /\ ui.host \notin {0, reply.host} => Changed(reply)
  BY <1>1, <1>2, KnownFacts
<1>6. /\ k \in State /\ k.host = reply.host
      /\ \/ k.active = Known(reply).active
         \/ /\ k.active = reply.terminal /\ reply.ok
            /\ (reply.tag = "Attached" \/ Known(reply).active.host = reply.terminal.host)
  <2>1. CASE reply.ok /\ Shown(reply, Known(reply)) = [Known(reply) EXCEPT !.active = reply.terminal]
             /\ (reply.tag = "Attached" \/ Known(reply).active.host = reply.terminal.host)
    <3>1. reply.terminal \in HostTerminal
      BY <1>1 DEF RuntimeReply
    <3> QED BY <1>5, <2>1, <3>1
  <2>2. CASE k = Known(reply)
    BY <1>5, <2>2
  <2> QED BY <2>1, <2>2 DEF Shown
<1>7. Accepts(reply) \in BOOLEAN /\ (Accepts(reply) => reply.ok)
  <2>1. reply.ok \in BOOLEAN
    BY <1>1 DEF RuntimeReply
  <2> QED BY <2>1 DEF Accepts
<1> HIDE DEF k
<1>8. ui' \in State /\ ui'.host = reply.host /\ ui'.active = k.active
  BY <1>4, <1>6, <1>7
<1>9. ShownNow(reply)
  <2>1. CASE k.active = Known(reply).active
    BY <1>5, <1>8, <2>1 DEF ShownNow
  <2>2. CASE /\ k.active = reply.terminal /\ reply.ok
             /\ (reply.tag = "Attached" \/ Known(reply).active.host = reply.terminal.host)
    <3>1. CASE Known(reply).active = NotAttached
      <4>1. Known(reply).active.host = 0 /\ reply.terminal.host # 0
        BY <1>2, <2>2, <3>1 DEF NotAttached, ReplySound
      <4> QED BY <1>8, <2>2, <4>1 DEF ShownNow
    <3>2. CASE Known(reply).active = ui.active
      BY <1>8, <2>2, <3>2 DEF ShownNow
    <3> QED BY <1>5, <3>1, <3>2
  <2> QED BY <1>6, <2>1, <2>2
<1>10. \/ jobs' = jobs
       \/ \E tag \in {"List", "Attached", "Snapshot"} :
            jobs' = Append(jobs, [host |-> reply.host, tag |-> tag, epoch |-> 0, key |-> 0,
                                  seen |-> reply.host]) /\ reply.ok
  <2> SUFFICES ASSUME Accepts(reply), FollowUp(reply) # "none"
               PROVE  \E tag \in {"List", "Attached", "Snapshot"} :
                        jobs' = Append(jobs, [host |-> reply.host, tag |-> tag, epoch |-> 0,
                                              key |-> 0, seen |-> reply.host])
    BY <1>4, <1>7
  <2>1. FollowUp(reply) \in {"List", "Attached", "Snapshot"}
    BY DEF FollowUp
  <2>2. JobFor(k.host, FollowUp(reply), 0, 0)
          = [host |-> reply.host, tag |-> FollowUp(reply), epoch |-> 0, key |-> 0, seen |-> reply.host]
    BY <1>6, <2>1 DEF JobFor
  <2> QED BY <1>4, <2>1, <2>2
<1>11. (lost' = lost /\ reply.ok) \/ Told
  BY <1>4, <1>7
<1>12. buffer' = << >> \/ (buffer' = buffer /\ ui.host \in {0, reply.host})
  BY <1>4, <1>5
<1>13. DrainFrame(reply)
  BY <1>1, <1>2, <1>3, <1>4, <1>8, <1>9, <1>10, <1>11, <1>12 DEF DrainFrame
<1> QED BY <1>1, <1>13

\* What follows an answer that was taken.
LEMMA DrainMoves ==
  ASSUME RuntimeInv, NEW reply, DrainFrame(reply)
  PROVE  /\ reply.host \in Nat /\ ui.host \in Nat /\ worker.host \in Nat
         /\ ui.host <= reply.host /\ reply.host <= worker.host
         /\ jobs' \in Seq(RuntimeJob)
         /\ \A p \in DOMAIN jobs' :
              \/ p \in DOMAIN jobs /\ jobs'[p] = jobs[p]
              \/ /\ p = Len(jobs) + 1 /\ jobs'[p].host = reply.host /\ reply.host # 0
                 /\ jobs'[p].tag # "Input" /\ JobSound(jobs'[p])
         /\ \A p \in DOMAIN jobs : p \in DOMAIN jobs' /\ jobs'[p] = jobs[p]
         /\ \A p \in DOMAIN jobs : p \in Nat \ {0} /\ p <= Len(jobs) /\ jobs[p].host \in Nat
         /\ Len(jobs) \in Nat
         /\ \A r \in DOMAIN replies' : Attaches(r)' => Attaches(r + 1)
         /\ \A b \in DOMAIN buffer' : b \in DOMAIN buffer /\ buffer'[b] = buffer[b]
                                      /\ ui.host \in {0, reply.host}
         /\ \/ ui'.active = NotAttached
            \/ ui'.active = ui.active /\ ui.host \in {0, reply.host}
            \/ /\ ui'.active.host = reply.host /\ reply.host # 0
               /\ (Attaches(1) \/ ui.active.host = reply.host)
<1> USE DEF RuntimeInv
<1>1. reply.host \in Nat /\ ui.host \in Nat /\ worker.host \in Nat
  BY DEF DrainFrame, RuntimeReply, RuntimeTypes
<1>2. ui.host <= reply.host /\ reply.host <= worker.host
  BY DEF DrainFrame, HostsOrdered
<1>3. /\ \A p \in DOMAIN jobs : p \in Nat \ {0} /\ p <= Len(jobs) /\ jobs[p].host \in Nat
      /\ Len(jobs) \in Nat
  <2>1. /\ Len(jobs) \in Nat
        /\ \A p \in DOMAIN jobs : p \in Nat \ {0} /\ p <= Len(jobs) /\ jobs[p] \in RuntimeJob
    BY ElementFacts DEF RuntimeTypes
  <2> QED BY <2>1 DEF RuntimeJob
<1>4. /\ jobs' \in Seq(RuntimeJob)
      /\ \A p \in DOMAIN jobs : p \in DOMAIN jobs' /\ jobs'[p] = jobs[p]
      /\ \A p \in DOMAIN jobs' :
           \/ p \in DOMAIN jobs /\ jobs'[p] = jobs[p]
           \/ /\ p = Len(jobs) + 1 /\ jobs'[p].host = reply.host /\ reply.host # 0
              /\ jobs'[p].tag # "Input" /\ JobSound(jobs'[p])
  <2>1. CASE jobs' = jobs
    BY <2>1 DEF RuntimeTypes
  <2>2. CASE jobs' # jobs
    <3>1. PICK tag \in {"List", "Attached", "Snapshot"} :
            jobs' = Append(jobs, [host |-> reply.host, tag |-> tag, epoch |-> 0, key |-> 0,
                                  seen |-> reply.host]) /\ reply.ok
      BY <2>2 DEF DrainFrame
    <3> DEFINE job == [host |-> reply.host, tag |-> tag, epoch |-> 0, key |-> 0, seen |-> reply.host]
    <3>2. /\ job \in RuntimeJob /\ job.host = reply.host /\ job.tag # "Input" /\ JobSound(job)
          /\ reply.host # 0
      BY <1>1, <3>1 DEF RuntimeJob, JobTags, JobSound, DrainFrame, ReplySound
    <3> HIDE DEF job
    <3>3. jobs' = Append(jobs, job) /\ jobs \in Seq(RuntimeJob)
      BY <3>1 DEF job, RuntimeTypes
    <3> QED BY <3>2, <3>3, AppendFacts
  <2> QED BY <2>1, <2>2
<1>5. \A r \in DOMAIN replies' : Attaches(r)' => Attaches(r + 1)
  BY DEF DrainFrame, Attaches
<1>6. \A b \in DOMAIN buffer' : b \in DOMAIN buffer /\ buffer'[b] = buffer[b]
                                /\ ui.host \in {0, reply.host}
  BY DEF DrainFrame
<1>7. \/ ui'.active = NotAttached
      \/ ui'.active = ui.active /\ ui.host \in {0, reply.host}
      \/ /\ ui'.active.host = reply.host /\ reply.host # 0
         /\ (Attaches(1) \/ ui.active.host = reply.host)
  BY DEF DrainFrame, ShownNow, ReplySound, Attaches
<1> QED BY <1>1, <1>2, <1>3, <1>4, <1>5, <1>6, <1>7

\* The losses after the user has been told.
LEMMA ToldFacts ==
  ASSUME RuntimeTypes, Told, NEW m \in lost'
  PROVE  /\ m \in [key : Nat, since : Nat]
         /\ \E l \in lost : m.key = l.key /\ m.since = (IF l.since = 0 THEN typed + 1 ELSE l.since)
<1>1. PICK l \in lost : m = [l EXCEPT !.since = IF @ = 0 THEN typed + 1 ELSE @]
  BY DEF Told
<1> DEFINE since == IF l.since = 0 THEN typed + 1 ELSE l.since
<1>2. l \in [key : Nat, since : Nat] /\ typed + 1 \in Nat /\ m = [l EXCEPT !.since = since]
  BY <1>1 DEF RuntimeTypes
<1>3. since \in Nat
  BY <1>2
<1> HIDE DEF since
<1>4. m \in [key : Nat, since : Nat] /\ m.key = l.key /\ m.since = since
  BY <1>2, <1>3
<1> QED BY <1>4 DEF since

\* The types, and the order of the hosts.
LEMMA DrainTypes ==
  ASSUME RuntimeInv, NEW reply, DrainFrame(reply)
  PROVE  RuntimeTypes' /\ HostsOrdered' /\ RuntimeShape' /\ ActsOnTheHostSeen'
<1>1. /\ reply.host \in Nat /\ ui.host \in Nat /\ worker.host \in Nat
      /\ ui.host <= reply.host /\ reply.host <= worker.host
      /\ jobs' \in Seq(RuntimeJob)
      /\ Len(jobs) \in Nat
      /\ \A p \in DOMAIN jobs : p \in Nat \ {0} /\ p <= Len(jobs) /\ jobs[p].host \in Nat
      /\ \A p \in DOMAIN jobs' :
           \/ p \in DOMAIN jobs /\ jobs'[p] = jobs[p]
           \/ /\ p = Len(jobs) + 1 /\ jobs'[p].host = reply.host /\ reply.host # 0
              /\ jobs'[p].tag # "Input" /\ JobSound(jobs'[p])
      /\ \A b \in DOMAIN buffer' : b \in DOMAIN buffer /\ buffer'[b] = buffer[b]
                                   /\ ui.host \in {0, reply.host}
      /\ \/ ui'.active = NotAttached
         \/ ui'.active = ui.active /\ ui.host \in {0, reply.host}
         \/ ui'.active.host = reply.host /\ reply.host # 0
  BY DrainMoves
<1>2. /\ ui'.host = reply.host /\ reply = replies[1] /\ 1 \in DOMAIN replies
      /\ \A r \in DOMAIN replies' : /\ r \in Nat \ {0} /\ r + 1 \in DOMAIN replies
                                    /\ replies'[r] = replies[r + 1]
      /\ UNCHANGED <<host, worker, typed, delivered, executed>>
  BY DEF DrainFrame
<1>3. RuntimeTypes /\ HostsOrdered /\ RuntimeShape /\ ActsOnTheHostSeen
  BY DEF RuntimeInv
<1>4. typed \in Nat
  BY <1>3 DEF RuntimeTypes
<1>5. \A m \in lost' : m \in [key : Nat, since : Nat] /\ typed # 0 /\ m.since <= typed + 1
  <2>1. \A l \in lost : l \in [key : Nat, since : Nat] /\ typed # 0 /\ l.since <= typed + 1
    BY <1>3 DEF RuntimeTypes, RuntimeShape, LossSound
  <2>2. CASE Told
    <3> SUFFICES ASSUME NEW m \in lost'
                 PROVE  m \in [key : Nat, since : Nat] /\ typed # 0 /\ m.since <= typed + 1
      OBVIOUS
    <3>1. m \in [key : Nat, since : Nat]
      BY <1>3, <2>2, ToldFacts
    <3>2. PICK l \in lost : m.key = l.key /\ m.since = (IF l.since = 0 THEN typed + 1 ELSE l.since)
      BY <1>3, <2>2, ToldFacts
    <3> QED BY <1>4, <2>1, <3>1, <3>2
  <2> QED BY <2>1, <2>2 DEF DrainFrame
<1>6. RuntimeTypes'
  <2>1. buffer' \in Seq(TypedKey)
    <3>1. buffer \in Seq(TypedKey) /\ (buffer' = << >> \/ buffer' = buffer)
      BY <1>3 DEF RuntimeTypes, DrainFrame
    <3>2. << >> \in Seq(TypedKey)
      OBVIOUS
    <3> QED BY <3>1, <3>2
  <2>2. lost' \subseteq [key : Nat, since : Nat]
    BY <1>5
  <2> QED BY <1>1, <1>2, <1>3, <2>1, <2>2 DEF RuntimeTypes, DrainFrame
<1>7. HostsOrdered'
  <2>1. \A p \in DOMAIN jobs' : jobs'[p].host <= reply.host
    BY <1>1, <1>3 DEF HostsOrdered
  <2>2. ASSUME NEW p \in DOMAIN jobs', NEW q \in DOMAIN jobs', p <= q, jobs'[q].tag # "Connect"
        PROVE  jobs'[p].host <= jobs'[q].host
    <3>1. CASE q \in DOMAIN jobs /\ jobs'[q] = jobs[q]
      <4>1. p \in DOMAIN jobs /\ jobs'[p] = jobs[p]
        <5>1. q <= Len(jobs) /\ q \in Nat /\ Len(jobs) \in Nat
          BY <1>1, <3>1
        <5> QED BY <1>1, <2>2, <5>1
      <4> QED BY <1>3, <2>2, <3>1, <4>1 DEF HostsOrdered
    <3>2. CASE jobs'[q].host = reply.host
      BY <2>1, <3>2
    <3> QED BY <1>1, <3>1, <3>2
  <2>3. \A r \in DOMAIN replies' : reply.host <= replies'[r].host /\ replies'[r].host <= worker.host
    <3>1. \A r \in DOMAIN replies' : 1 <= r + 1
      BY <1>2
    <3> QED BY <1>2, <1>3, <3>1 DEF HostsOrdered
  <2>4. \A r, t \in DOMAIN replies' : r <= t => replies'[r].host <= replies'[t].host
    <3>1. \A r, t \in DOMAIN replies' : r <= t => r + 1 <= t + 1
      BY <1>2
    <3> QED BY <1>2, <1>3, <3>1 DEF HostsOrdered
  <2> QED BY <1>1, <1>2, <1>3, <2>1, <2>2, <2>3, <2>4 DEF HostsOrdered
<1>8. RuntimeShape'
  <2>1. (\A p \in DOMAIN jobs : JobSound(jobs[p]))'
    BY <1>1, <1>2, <1>3 DEF RuntimeShape, JobSound
  <2>2. (\A r \in DOMAIN replies : ReplySound(replies[r]))'
    BY <1>2, <1>3 DEF RuntimeShape, ReplySound
  <2>3. (\A b \in DOMAIN buffer : KeySound(buffer[b]))'
    <3> SUFFICES ASSUME NEW b \in DOMAIN buffer'
                 PROVE  KeySound(buffer[b])'
      OBVIOUS
    <3>1. /\ buffer'[b] = buffer[b] /\ buffer[b].host = ui.host /\ buffer[b].key \in 1..typed
          /\ ui.host \in {0, reply.host}
      BY <1>1, <1>3 DEF RuntimeShape, KeySound
    <3>2. ui.host # 0
      BY <1>3, <1>4, <3>1 DEF RuntimeShape, KnownSound
    <3> QED BY <1>2, <3>1, <3>2 DEF KeySound
  <2>4. KnownSound'
    <3>1. typed # 0 => reply.host # 0
      BY <1>1, <1>3 DEF RuntimeShape, KnownSound
    <3>2. ui'.active.host \in {0, reply.host}
      BY <1>1, <1>3 DEF RuntimeShape, KnownSound, NotAttached
    <3>3. ui'.active.host = 0 => ui'.active = NotAttached
      BY <1>1, <1>3 DEF RuntimeShape, KnownSound
    <3> QED BY <1>2, <3>1, <3>2, <3>3 DEF KnownSound
  <2>5. (\A l \in lost : LossSound(l))'
    BY <1>2, <1>5 DEF LossSound
  <2> QED BY <2>1, <2>2, <2>3, <2>4, <2>5 DEF RuntimeShape
<1>9. ActsOnTheHostSeen'
  BY <1>2, <1>3 DEF ActsOnTheHostSeen
<1> QED BY <1>6, <1>7, <1>8, <1>9

\* What waits for a host, or attaches its terminal.
LEMMA DrainAttaches ==
  ASSUME RuntimeInv, NEW reply, DrainFrame(reply)
  PROVE  NamedFirst' /\ AttachedInOrder' /\ FormerInput'
<1>1. /\ reply.host \in Nat /\ ui.host \in Nat /\ worker.host \in Nat
      /\ ui.host <= reply.host /\ reply.host <= worker.host
      /\ \A p \in DOMAIN jobs : p \in DOMAIN jobs' /\ jobs'[p] = jobs[p]
      /\ \A p \in DOMAIN jobs' :
           \/ p \in DOMAIN jobs /\ jobs'[p] = jobs[p]
           \/ jobs'[p].host = reply.host /\ reply.host # 0 /\ jobs'[p].tag # "Input"
      /\ \A r \in DOMAIN replies' : Attaches(r)' => Attaches(r + 1)
      /\ \A b \in DOMAIN buffer' : b \in DOMAIN buffer /\ buffer'[b] = buffer[b]
      /\ \/ ui'.active = NotAttached
         \/ ui'.active = ui.active /\ ui.host \in {0, reply.host}
         \/ /\ ui'.active.host = reply.host /\ reply.host # 0
            /\ (Attaches(1) \/ ui.active.host = reply.host)
  BY DrainMoves
<1>2. /\ ui'.host = reply.host /\ reply = replies[1] /\ 1 \in DOMAIN replies
      /\ \A r \in DOMAIN replies' : /\ r \in Nat \ {0} /\ r + 1 \in DOMAIN replies
                                    /\ replies'[r] = replies[r + 1]
      /\ UNCHANGED <<host, worker, typed>>
  BY DEF DrainFrame
<1>3. RuntimeTypes /\ RuntimeShape /\ NamedFirst /\ AttachedInOrder /\ FormerInput
  BY DEF RuntimeInv
<1>4. NotAttached.host = 0
  BY DEF NotAttached
<1>5. NamedFirst'
  <2> SUFFICES ASSUME NEW p \in DOMAIN jobs', jobs'[p].tag = "Attached", jobs'[p].host = 0
               PROVE  /\ p <= 2 /\ (p = 2 => jobs'[1].tag = "Connect" /\ worker.host = 0)
                      /\ reply.host \in {0, worker.host} /\ ui'.active = NotAttached /\ typed = 0
                      /\ \A r \in DOMAIN replies' :
                            replies'[r].host \in {0, worker.host} /\ ~Attaches(r)'
    BY <1>2 DEF NamedFirst
  <2>1. p \in DOMAIN jobs /\ jobs[p] = jobs'[p]
    BY <1>1
  <2>2. p = 2 => 1 \in DOMAIN jobs
    BY <1>3, <2>1 DEF RuntimeTypes
  <2>3. /\ p <= 2 /\ (p = 2 => jobs[1].tag = "Connect" /\ worker.host = 0)
        /\ ui.active = NotAttached /\ typed = 0
        /\ \A r \in DOMAIN replies : replies[r].host \in {0, worker.host} /\ ~Attaches(r)
    BY <1>3, <2>1 DEF NamedFirst
  <2>4. ui'.active = NotAttached
    BY <1>1, <1>2, <1>4, <2>3
  <2>5. p = 2 => jobs'[1].tag = "Connect" /\ worker.host = 0
    BY <1>1, <2>2, <2>3
  <2>6. reply.host \in {0, worker.host}
    BY <1>2, <2>3
  <2>7. \A r \in DOMAIN replies' : replies'[r].host \in {0, worker.host} /\ ~Attaches(r)'
    BY <1>1, <1>2, <2>3
  <2> QED BY <2>3, <2>4, <2>5, <2>6, <2>7
<1>6. AttachedInOrder'
  <2> SUFFICES ASSUME NEW r \in DOMAIN replies', Attaches(r)'
               PROVE  /\ reply.host \in {0, replies'[r].host}
                      /\ \A t \in DOMAIN replies' : t <= r => replies'[t].host \in {0, replies'[r].host}
    BY <1>2 DEF AttachedInOrder
  <2>1. r + 1 \in DOMAIN replies /\ Attaches(r + 1) /\ replies'[r] = replies[r + 1] /\ 1 <= r + 1
    BY <1>1, <1>2
  <2>2. \A t \in DOMAIN replies : t <= r + 1 => replies[t].host \in {0, replies[r + 1].host}
    BY <1>3, <2>1 DEF AttachedInOrder
  <2>3. reply.host \in {0, replies'[r].host}
    BY <1>2, <2>1, <2>2
  <2>4. \A t \in DOMAIN replies' : t <= r => t + 1 <= r + 1
    BY <1>2
  <2> QED BY <1>2, <2>1, <2>2, <2>3, <2>4
<1>7. FormerInput'
  <2> SUFFICES ASSUME NEW p \in DOMAIN jobs', jobs'[p].tag = "Input", jobs'[p].host # worker.host
               PROVE  NothingNow'
    BY <1>2 DEF FormerInput
  <2>1. p \in DOMAIN jobs /\ jobs[p] = jobs'[p] /\ NothingNow
    BY <1>1, <1>3 DEF FormerInput
  <2>2. worker.host # 0
    <3>1. JobSound(jobs[p])
      BY <1>3, <2>1 DEF RuntimeShape
    <3>2. typed # 0
      BY <1>3, <2>1, <3>1 DEF JobSound, RuntimeTypes
    <3> QED BY <1>1, <1>3, <3>2 DEF RuntimeShape, KnownSound
  <2>3. ui'.active.host # worker.host
    BY <1>1, <1>2, <1>4, <2>1, <2>2 DEF NothingNow
  <2>4. \A q \in DOMAIN jobs' : jobs'[q].tag = "Input" => jobs'[q].host # worker.host
    BY <1>1, <2>1 DEF NothingNow
  <2>5. \A b \in DOMAIN buffer' : buffer'[b].host # worker.host
    BY <1>1, <2>1 DEF NothingNow
  <2>6. \A r \in DOMAIN replies' : Attaches(r)' => replies'[r].host # worker.host
    BY <1>1, <1>2, <2>1 DEF NothingNow
  <2> QED BY <1>2, <2>3, <2>4, <2>5, <2>6 DEF NothingNow
<1> QED BY <1>5, <1>6, <1>7

\* The user has been told of every loss before the terminal is his again.
LEMMA DrainGaps ==
  ASSUME RuntimeInv, NEW reply, DrainFrame(reply)
  PROVE  GapsSeen'
<1>1. /\ ui.host \in Nat /\ worker.host \in Nat /\ ui.host <= worker.host
      /\ \A p \in DOMAIN jobs' :
           (p \in DOMAIN jobs /\ jobs'[p] = jobs[p]) \/ jobs'[p].tag # "Input"
      /\ \A r \in DOMAIN replies' : Attaches(r)' => Attaches(r + 1)
      /\ \A b \in DOMAIN buffer' : b \in DOMAIN buffer /\ buffer'[b] = buffer[b]
      /\ \/ ui'.active = NotAttached
         \/ ui'.active = ui.active
         \/ /\ ui'.active.host = reply.host
            /\ (Attaches(1) \/ ui.active.host = reply.host)
  BY DrainMoves
<1>2. /\ reply = replies[1] /\ 1 \in DOMAIN replies
      /\ \A r \in DOMAIN replies' : /\ r \in Nat \ {0} /\ r + 1 \in DOMAIN replies
                                    /\ replies'[r] = replies[r + 1]
      /\ \A r \in DOMAIN replies : r # 1 => r - 1 \in DOMAIN replies'
      /\ UNCHANGED <<worker, typed>>
  BY DEF DrainFrame
<1>3. RuntimeTypes /\ RuntimeShape /\ GapsSeen
  BY DEF RuntimeInv
<1>4. NotAttached.host = 0
  BY DEF NotAttached
<1>5. \A l, m, input : Follows(l, input) /\ m.key = l.key /\ m.since = l.since => Follows(m, input)
  BY DEF Follows
<1>6. CASE lost' = lost /\ reply.ok
  <2> SUFFICES ASSUME NEW l \in lost PROVE GapSeen(l)'
    BY <1>6 DEF GapsSeen
  <2>1. GapSeen(l)
    BY <1>3 DEF GapsSeen
  <2>2. TellsFirst => TellsFirst'
    <3> SUFFICES ASSUME TellsFirst PROVE TellsFirst'
      OBVIOUS
    <3>1. PICK r \in DOMAIN replies :
             /\ ~replies[r].ok
             /\ \A t \in DOMAIN replies : t <= r /\ Attaches(t) => replies[t].host # worker.host
      BY DEF TellsFirst
    <3>2. r \in Nat /\ r # 1 /\ 1 <= r /\ r - 1 \in DOMAIN replies' /\ (r - 1) + 1 = r
      <4>1. r \in Nat \ {0}
        BY <1>3, ElementFacts DEF RuntimeTypes
      <4> QED BY <1>2, <1>6, <3>1, <4>1
    <3>3. ~replies'[r - 1].ok
      BY <1>2, <3>1, <3>2
    <3>4. \A t \in DOMAIN replies' : t <= r - 1 => t + 1 <= r
      BY <1>2, <3>2
    <3>5. \A t \in DOMAIN replies' : t <= r - 1 /\ Attaches(t)' => replies'[t].host # worker.host
      BY <1>1, <1>2, <3>1, <3>4
    <3>6. worker.host # 0
      <4>1. typed # 0
        BY <1>3 DEF RuntimeShape, LossSound
      <4> QED BY <1>1, <1>3, <4>1 DEF RuntimeShape, KnownSound
    <3>7. ui'.active.host # worker.host
      BY <1>1, <1>2, <1>4, <3>1, <3>2, <3>6 DEF TellsFirst
    <3> QED BY <1>2, <3>2, <3>3, <3>5, <3>7 DEF TellsFirst
  <2>3. \A p \in DOMAIN jobs' : jobs'[p].tag = "Input" => Follows(l, jobs'[p])
    BY <1>1, <1>5, <2>1 DEF GapSeen
  <2>4. \A b \in DOMAIN buffer' : Follows(l, buffer'[b])
    BY <1>1, <1>5, <2>1 DEF GapSeen
  <2> QED BY <1>2, <2>1, <2>2, <2>3, <2>4 DEF GapSeen, Follows, HeldBack
<1>7. CASE Told
  <2> SUFFICES ASSUME NEW m \in lost' PROVE GapSeen(m)'
    BY DEF GapsSeen
  <2>1. m \in [key : Nat, since : Nat]
    BY <1>3, <1>7, ToldFacts
  <2>2. PICK l \in lost : m.key = l.key /\ m.since = (IF l.since = 0 THEN typed + 1 ELSE l.since)
    BY <1>3, <1>7, ToldFacts
  <2>3. GapSeen(l) /\ typed \in Nat /\ l.since \in Nat
    BY <1>3 DEF GapsSeen, RuntimeTypes
  <2>4. m.since # 0
    BY <2>2, <2>3
  <2>5. \A input : Follows(l, input) => Follows(m, input)
    <3>1. CASE l.since = 0
      BY <2>2, <2>3, <3>1 DEF Follows
    <3>2. CASE l.since # 0
      BY <1>5, <2>2, <3>2
    <3> QED BY <3>1, <3>2
  <2>6. \A p \in DOMAIN jobs' : jobs'[p].tag = "Input" => Follows(m, jobs'[p])
    BY <1>1, <2>3, <2>5 DEF GapSeen
  <2>7. \A b \in DOMAIN buffer' : Follows(m, buffer'[b])
    BY <1>1, <2>3, <2>5 DEF GapSeen
  <2> QED BY <1>2, <2>4, <2>6, <2>7 DEF GapSeen, Follows, HeldBack
<1> QED BY <1>6, <1>7 DEF DrainFrame

\* The UI's tick keeps the invariant.
LEMMA DrainKeeps == ASSUME RuntimeInv, Drain PROVE RuntimeInv'
<1>1. PICK reply \in RuntimeReply : DrainFrame(reply)
  BY DrainFrames
<1> QED BY <1>1, DrainTypes, DrainAttaches, DrainGaps DEF RuntimeInv

-----------------------------------------------------------------------------
(* Every step of the runtime                                               *)

\* A request the user makes, or a refresh.
LEMMA OrderKeeps ==
  ASSUME RuntimeInv, NEW tag \in JobTags \ {"Input"},
         jobs' = Append(jobs, Job(tag, ui.active.epoch, 0)) \/ jobs' = Append(jobs, Job(tag, 0, 0)),
         tag = "Attached" => ui.host # 0,
         UNCHANGED <<host, worker, replies, ui, buffer, typed, runtimeHistory>>
  PROVE  RuntimeInv'
<1>1. ui.host \in Nat /\ ui.active.epoch \in Nat
  BY DEF RuntimeInv, RuntimeTypes, HostTerminal
<1>2. ASSUME NEW epoch \in Nat
      PROVE  /\ Job(tag, epoch, 0) \in RuntimeJob /\ JobSound(Job(tag, epoch, 0))
             /\ Job(tag, epoch, 0).tag = tag
             /\ tag # "Connect" => Job(tag, epoch, 0).host = ui.host
  BY <1>1 DEF Job, JobFor, RuntimeJob, JobTags, JobSound
<1>3. PICK epoch \in Nat : jobs' = Append(jobs, Job(tag, epoch, 0))
  BY <1>1
<1> QED BY <1>2, <1>3, JobAdded

\* Whatever the user, the worker, the hosts and the other clients do next.
LEMMA RuntimeStepKeeps == ASSUME RuntimeInv, [RuntimeNext]_runtimeVars PROVE RuntimeInv'
<1>1. host \in HostType /\ host.id \in Nat
  BY DEF RuntimeInv, RuntimeTypes, HostType
<1>2. ASSUME NEW tag \in Orders, Order(tag)
      PROVE  RuntimeInv'
  <2>1. jobs' = Append(jobs, Job(tag, ui.active.epoch, 0))
    BY <1>2 DEF Order, Submit
  <2>2. tag \in JobTags \ {"Input"}
    BY DEF JobTags, Orders
  <2>3. /\ UNCHANGED <<host, worker, replies, ui, buffer, typed, runtimeHistory>>
        /\ tag = "Attached" => ui.host # 0
    BY <1>2 DEF Order
  <2> QED BY <2>1, <2>2, <2>3, OrderKeeps
<1>3. ASSUME NEW tag \in {"List", "Snapshot"}, Refresh(tag)
      PROVE  RuntimeInv'
  <2>1. jobs' = Append(jobs, Job(tag, 0, 0))
    BY <1>3 DEF Refresh, Submit
  <2>2. tag \in JobTags \ {"Input"} /\ tag # "Attached"
    BY DEF JobTags
  <2>3. UNCHANGED <<host, worker, replies, ui, buffer, typed, runtimeHistory>>
    BY <1>3 DEF Refresh
  <2> QED BY <2>1, <2>2, <2>3, OrderKeeps
<1>4. ASSUME TakenOver \/ HostEnds \/ AnotherHost
      PROVE  RuntimeInv'
  <2>1. UNCHANGED <<worker, jobs, replies, ui, buffer, typed, runtimeHistory>>
    BY <1>4 DEF TakenOver, HostEnds, AnotherHost
  <2>2. host' \in HostType /\ host.id <= host'.id
    <3>1. CASE TakenOver
      <4>1. host' = [id |-> host.id, up |-> host.up, epoch |-> host.epoch + 1, owner |-> 0]
        BY <1>1, <3>1 DEF TakenOver, HostType
      <4> QED BY <1>1, <4>1 DEF HostType
    <3>2. CASE HostEnds
      <4>1. host' = [id |-> host.id, up |-> FALSE, epoch |-> host.epoch, owner |-> host.owner]
        BY <1>1, <3>2 DEF HostEnds, HostType
      <4> QED BY <1>1, <4>1 DEF HostType
    <3>3. CASE AnotherHost
      BY <1>1, <3>3 DEF AnotherHost, HostType
    <3> QED BY <1>4, <3>1, <3>2, <3>3
  <2> QED BY <2>1, <2>2, HostMoves
<1>5. ASSUME UNCHANGED runtimeVars
      PROVE  RuntimeInv'
  BY <1>1, <1>5, HostMoves DEF runtimeVars
<1> QED BY <1>2, <1>3, <1>4, <1>5, KeyTyped, KeyFlushed, WorkKeeps, DrainKeeps DEF RuntimeNext

\* The invariant of the runtime (ui/runtime.rs with the replies of ui/live.rs).
THEOREM RuntimeInvariance == RuntimeSpec => []RuntimeInv
<1>1. RuntimeInit => RuntimeInv
  BY RuntimeStart
<1>2. RuntimeInv /\ [RuntimeNext]_runtimeVars => RuntimeInv'
  BY RuntimeStepKeeps
<1> QED BY <1>1, <1>2, PTL DEF RuntimeSpec

\* No host carries out what the user asked of another one, whatever the worker
\* and the hosts do while the request waits (the check of job.host in
\* ui/runtime.rs, for any number of hosts, requests and clients).
THEOREM ActsOnlyOnTheHostSeen == RuntimeSpec => []ActsOnTheHostSeen
<1>1. RuntimeInv => ActsOnTheHostSeen
  BY DEF RuntimeInv
<1> QED BY <1>1, RuntimeInvariance, PTL

\* No key reaches a terminal after a lost one unless the user was told of the
\* loss before he typed it, or refreshed (`failed` in ui/runtime.rs).
THEOREM GapsAlwaysSeen == RuntimeSpec => NoSilentGap
<1> DEFINE Seen == \A j \in DOMAIN delivered' \ DOMAIN delivered : \A l \in lost :
                      l.key < delivered'[j] => l.since \in 1..delivered'[j]
<1>1. ASSUME RuntimeInv, [RuntimeNext]_runtimeVars
      PROVE  [Seen]_runtimeVars
  <2>1. CASE Work
    BY <1>1, <2>1, WorkDelivers
  <2>2. CASE UNCHANGED delivered
    BY <2>2
  <2>3. Work \/ UNCHANGED delivered
    <3>1. ASSUME Drain \/ Flush PROVE UNCHANGED delivered
      BY <3>1 DEF Drain, Flush
    <3>2. ASSUME UNCHANGED runtimeHistory PROVE UNCHANGED delivered
      BY <3>2 DEF runtimeHistory
    <3>3. Work \/ Drain \/ Flush \/ UNCHANGED runtimeHistory
      BY <1>1 DEF RuntimeNext, Order, Refresh, Type, TakenOver, HostEnds, AnotherHost, runtimeVars
    <3> QED BY <3>1, <3>2, <3>3
  <2> QED BY <2>1, <2>2, <2>3
<1>2. RuntimeSpec => [][Seen]_runtimeVars
  BY <1>1, RuntimeInvariance, PTL DEF RuntimeSpec
<1> QED BY <1>2 DEF NoSilentGap

-----------------------------------------------------------------------------
(***************************************************************************)
(* The Git tab.  A nonce is used once: by a question until it is answered, *)
(* and then by the plan, the operation and the message sent with it        *)
(* (Fresh).  The plan of a question that nobody gave up is confirmed       *)
(* (QuestionSound), and while it is waited for the draft it commits cannot *)
(* be edited (DialogSound); so the message of a successful commit is the   *)
(* text that was committed (OpSound).                                      *)
(***************************************************************************)

Words == Texts \union {0}
Purposes == Topics \union {"ReviewPlan", "CommitReview", "ExecutePlan"}
WireTags == Tags \union {"Connect"}
OpStates == {"none", "Running", "Succeeded", "Failed", "Unknown", "Acknowledged"}
Operation == [nonce : Nat, text : Words, state : OpStates, owner : {"none", "ui", "other"}]
WireMessage ==
  [tag : WireTags, nonce : Nat, text : Words, host : Nat, answer : {"none", "ok", "refused"},
   from : Nat, state : {"none", "pending", "ready", "failed"}, ops : SUBSET Operation]
Intent == [nonce : Nat, purpose : Purposes, text : Words, job : BOOLEAN, context : Nat]
Repo ==
  [context : Nat, status : BOOLEAN, page : Pages \union {"Changes"}, busy : Int, error : BOOLEAN,
   latest : [Topics -> Nat], draft : Words]
Dialog ==
  [kind : {"none", "Message", "Branch", "Remote", "Operations", "Takeover", "Reconcile",
           "Waiting", "CommitReview", "Plan"}, nonce : Nat, text : Words]

GitTypes ==
  /\ gitHost \in [id : Nat, ops : SUBSET Operation]
  /\ gitWorker \in [host : Nat, failed : BOOLEAN]
  /\ wire \in Seq(WireMessage) /\ seen \in Nat
  /\ repo \in Repo /\ intents \subseteq Intent /\ next \in Nat /\ dialog \in Dialog
  /\ messages \subseteq [nonce : Nat, text : Words]
  /\ known \subseteq Operation /\ operation \in Operation
  /\ confirmed \subseteq Nat /\ committed \subseteq Texts

\* No question that waits for its answer has this nonce.
Fresh(n) == n <= next /\ \A i \in intents : i.nonce # n

\* The operation of a plan, wherever it is shown: what it commits is what the
\* message it was sent with says.
OpSound(o) ==
  /\ Fresh(o.nonce)
  /\ o.state = "Succeeded" /\ o.text # 0 => o.text \in committed
  /\ \A m \in messages : m.nonce = o.nonce /\ m.text # 0 => m.text = o.text

\* The plan the user is shown.
Planned(n) == dialog.kind = "Plan" /\ dialog.nonce = n

ExecuteSound(m) ==
  /\ Fresh(m.nonce) /\ m.nonce # 0 /\ m.nonce \in confirmed
  /\ ~Waiting(m.nonce) /\ ~Planned(m.nonce)
  /\ \A x \in messages : x.nonce = m.nonce /\ x.text # 0 => x.text = m.text

WireSound(m) ==
  /\ m.tag = "Execute" => ExecuteSound(m)
  /\ \A o \in m.ops : OpSound(o)

OpsSound ==
  /\ \A k \in DOMAIN wire : WireSound(wire[k])
  /\ \A o \in gitHost.ops : OpSound(o)
  /\ \A o \in known : OpSound(o)
  /\ OpSound(operation)
  /\ \A m \in messages : Fresh(m.nonce)

QuestionSound(i) ==
  /\ i.nonce # 0 /\ i.nonce <= next
  /\ i.purpose = "ExecutePlan" =>
       /\ i.nonce \in confirmed \union cancelled
       /\ i.text # 0 => i.nonce \in cancelled \/ Waiting(i.nonce)
  /\ Waiting(i.nonce) => i.text = dialog.text

QuestionsSound ==
  /\ \A i \in intents : QuestionSound(i)
  /\ \A i, j \in intents : i.nonce = j.nonce => i = j
  /\ IsFiniteSet(intents) /\ BusyMatches

DialogSound ==
  /\ dialog.kind = "Waiting" => dialog.nonce <= next
  /\ dialog.kind = "Plan" =>
       Fresh(dialog.nonce) /\ dialog.nonce # 0 /\ \A m \in messages : m.nonce # dialog.nonce
  /\ dialog.kind \in {"Waiting", "CommitReview"} /\ dialog.text # 0 => repo.draft \in {0, dialog.text}
  /\ dialog.kind \notin {"Waiting", "CommitReview"} => dialog.text = 0

GitInv == GitTypes /\ OpsSound /\ QuestionsSound /\ DialogSound

-----------------------------------------------------------------------------
(* What every step keeps of the operations, plans and messages             *)

\* Nonces are new, and what the user confirmed stays confirmed, unless it is
\* what he waits for.
Calm ==
  /\ next' \in {next, next + 1} /\ committed \subseteq committed'
  /\ \A i \in intents' :
       (\E j \in intents : j.nonce = i.nonce) \/ (i.nonce = next + 1 /\ next' = next + 1)
  /\ \A m \in messages' : m \in messages \/ \E i \in intents : i.nonce = m.nonce
  /\ dialog'.kind = "Waiting" => dialog' = dialog \/ dialog'.nonce = next + 1
  /\ dialog'.kind = "Plan" => dialog' = dialog \/ \E i \in intents : i.nonce = dialog'.nonce
  /\ \A n \in confirmed : n \in confirmed' \/ Waiting(n)

\* What is sound stays so in a calm step.
LEMMA CalmKeeps ==
  ASSUME next \in Nat, Calm
  PROVE  /\ \A n \in Nat : Fresh(n) => Fresh(n)'
         /\ \A o \in Operation : OpSound(o) => OpSound(o)'
         /\ \A m \in WireMessage : WireSound(m) => WireSound(m)'
<1>1. ASSUME NEW n \in Nat, Fresh(n)
      PROVE  Fresh(n)'
  BY <1>1 DEF Calm, Fresh
<1>2. ASSUME NEW o \in Operation, OpSound(o)
      PROVE  OpSound(o)'
  <2>1. o.nonce \in Nat /\ Fresh(o.nonce)
    BY <1>2 DEF Operation, OpSound
  <2>2. Fresh(o.nonce)'
    BY <1>1, <2>1
  <2>3. \A m \in messages' : m.nonce = o.nonce /\ m.text # 0 => m.text = o.text
    BY <1>2, <2>1 DEF Calm, OpSound, Fresh
  <2> QED BY <1>2, <2>2, <2>3 DEF Calm, OpSound
<1>3. ASSUME NEW m \in WireMessage, WireSound(m)
      PROVE  WireSound(m)'
  <2>1. \A o \in m.ops : OpSound(o)'
    BY <1>2, <1>3 DEF WireMessage, WireSound
  <2>2. ASSUME m.tag = "Execute"
        PROVE  ExecuteSound(m)'
    <3>1. m.nonce \in Nat /\ ExecuteSound(m)
      BY <1>3, <2>2 DEF WireMessage, WireSound
    <3>2. Fresh(m.nonce)'
      BY <1>1, <3>1 DEF ExecuteSound
    <3>3. \A x \in messages' : x.nonce = m.nonce /\ x.text # 0 => x.text = m.text
      BY <3>1 DEF Calm, ExecuteSound, Fresh
    <3>4. ~Waiting(m.nonce)'
      BY <3>1 DEF Calm, ExecuteSound, Fresh, Waiting
    <3>5. m.nonce \in confirmed'
      BY <3>1 DEF Calm, ExecuteSound
    <3>6. ~Planned(m.nonce)'
      BY <3>1 DEF Calm, ExecuteSound, Fresh, Planned
    <3> QED BY <3>1, <3>2, <3>3, <3>4, <3>5, <3>6 DEF ExecuteSound
  <2> QED BY <2>1, <2>2 DEF WireSound
<1> QED BY <1>1, <1>2, <1>3

WiresSound(w) == w \in Seq(WireMessage) /\ \A k \in DOMAIN w : WireSound(w[k])

\* A request with nothing to execute.
LEMMA MessageSound ==
  ASSUME GitTypes, NEW tag \in WireTags, NEW n \in Nat, NEW t \in Words
  PROVE  /\ Message(tag, n, t) \in WireMessage
         /\ Message(tag, n, t).tag = tag /\ Message(tag, n, t).nonce = n
         /\ Message(tag, n, t).text = t /\ Message(tag, n, t).ops = {}
         /\ tag # "Execute" => WireSound(Message(tag, n, t))
<1>1. seen \in Nat
  BY DEF GitTypes
<1>2. /\ Message(tag, n, t) \in WireMessage
      /\ Message(tag, n, t).tag = tag /\ Message(tag, n, t).nonce = n
      /\ Message(tag, n, t).text = t /\ Message(tag, n, t).ops = {}
  BY <1>1 DEF Message, WireMessage
<1> QED BY <1>2 DEF WireSound

\* One request more, or the first answer taken.
LEMMA WireFacts ==
  /\ \A w, m : WiresSound(w) /\ m \in WireMessage /\ WireSound(m) => WiresSound(Append(w, m))
  /\ GitInv => WiresSound(wire)
  /\ GitInv /\ wire # << >> =>
       /\ WiresSound(Rest) /\ Reply \in WireMessage /\ WireSound(Reply)
       /\ 1 \in DOMAIN wire /\ Reply = wire[1]
<1>1. ASSUME NEW w, NEW m, WiresSound(w), m \in WireMessage, WireSound(m)
      PROVE  WiresSound(Append(w, m))
  <2>1. w \in Seq(WireMessage) /\ \A k \in DOMAIN w : WireSound(w[k])
    BY <1>1 DEF WiresSound
  <2>2. /\ Append(w, m) \in Seq(WireMessage)
        /\ \A k \in DOMAIN Append(w, m) :
             (k \in DOMAIN w /\ Append(w, m)[k] = w[k]) \/ Append(w, m)[k] = m
    BY <1>1, <2>1, AppendFacts
  <2>3. \A k \in DOMAIN Append(w, m) : WireSound(Append(w, m)[k])
    BY <1>1, <2>1, <2>2
  <2> QED BY <2>2, <2>3 DEF WiresSound
<1>2. GitInv => WiresSound(wire)
  BY DEF GitInv, GitTypes, OpsSound, WiresSound
<1>3. ASSUME GitInv, wire # << >>
      PROVE  /\ WiresSound(Rest) /\ Reply \in WireMessage /\ WireSound(Reply)
             /\ 1 \in DOMAIN wire /\ Reply = wire[1]
  <2>1. wire \in Seq(WireMessage) /\ \A k \in DOMAIN wire : WireSound(wire[k])
    BY <1>3 DEF GitInv, GitTypes, OpsSound
  <2>2. /\ 1 \in DOMAIN wire /\ Reply = wire[1] /\ Reply \in WireMessage
        /\ Rest \in Seq(WireMessage)
        /\ \A k \in DOMAIN Rest : k + 1 \in DOMAIN wire /\ Rest[k] = wire[k + 1]
    BY <1>3, <2>1, TailFacts DEF Reply, Rest
  <2>3. \A k \in DOMAIN Rest : WireSound(Rest[k])
    BY <2>1, <2>2
  <2> QED BY <2>1, <2>2, <2>3 DEF WiresSound
<1> QED BY <1>1, <1>2, <1>3

\* The requests and answers there were, after a calm step.
LEMMA WiresKept ==
  ASSUME GitInv, Calm, NEW w, WiresSound(w)
  PROVE  \A k \in DOMAIN w : WireSound(w[k])'
<1>1. \A m \in WireMessage : WireSound(m) => WireSound(m)'
  BY CalmKeeps DEF GitInv, GitTypes
<1>2. \A k \in DOMAIN w : w[k] \in WireMessage /\ WireSound(w[k])
  BY ElementFacts DEF WiresSound
<1> QED BY <1>1, <1>2

\* What was asked, told and listed, after a calm step.
LEMMA OpsKept ==
  ASSUME GitInv, Calm,
         (\A k \in DOMAIN wire : WireSound(wire[k]))',
         \A o \in gitHost'.ops : o \in Operation /\ OpSound(o)',
         \A o \in known' : o \in Operation /\ OpSound(o),
         operation' \in Operation /\ OpSound(operation)',
         \A m \in messages' : m \in messages \/ (m.nonce \in Nat /\ Fresh(m.nonce)')
  PROVE  OpsSound'
<1>1. next \in Nat /\ \A m \in messages : m.nonce \in Nat /\ Fresh(m.nonce)
  BY DEF GitInv, GitTypes, OpsSound
<1>2. /\ \A n \in Nat : Fresh(n) => Fresh(n)'
      /\ \A o \in Operation : OpSound(o) => OpSound(o)'
  BY <1>1, CalmKeeps
<1>3. (\A o \in known : OpSound(o))'
  BY <1>2
<1>4. (\A m \in messages : Fresh(m.nonce))'
  BY <1>1, <1>2
<1>5. (\A o \in gitHost.ops : OpSound(o))'
  OBVIOUS
<1> QED BY <1>3, <1>4, <1>5 DEF OpsSound

-----------------------------------------------------------------------------
(* Questions asked and settled                                             *)

\* The question on top of the view r, the questions is and the requests w.
AskFrame(r, is, w, purpose, text) ==
  /\ r \in Repo /\ is \subseteq intents /\ WiresSound(w) /\ purpose \in Purposes /\ text \in Words
  /\ r.busy = Cardinality(is) /\ r.draft = repo.draft
  /\ Ask(r, is, w, purpose, text)
  /\ \/ dialog' = dialog
     \/ /\ dialog.kind # "Waiting" /\ (text # 0 => repo.draft \in {0, text})
        /\ dialog' = [kind |-> "Waiting", nonce |-> next', text |-> text]
  /\ purpose = "ExecutePlan" => next' \in confirmed' /\ (text # 0 => dialog' # dialog)
  /\ confirmed \subseteq confirmed' /\ confirmed' \subseteq Nat
  /\ \A i \in is : i.nonce \in cancelled => i.nonce \in cancelled'
  /\ messages' \subseteq messages /\ known' \subseteq known
  /\ operation' \in Operation /\ OpSound(operation')
  /\ seen' \in Nat /\ UNCHANGED <<gitHost, gitWorker, committed>>

\* What is left of the view.
LEMMA AskedRepo ==
  ASSUME NEW r \in Repo, NEW is, NEW w, NEW purpose \in Purposes, NEW text, next \in Nat,
         Ask(r, is, w, purpose, text)
  PROVE  repo' \in Repo /\ repo'.busy = r.busy + 1 /\ repo'.draft = r.draft
<1> DEFINE busy == r.busy + 1
           page == IF purpose \in Pages THEN purpose ELSE r.page
           latest == [t \in Topics |-> IF t = purpose THEN next' ELSE r.latest[t]]
<1>1. next' = next + 1
  BY DEF Ask
<1>2. busy \in Int /\ page \in Pages \union {"Changes"} /\ latest \in [Topics -> Nat]
  BY <1>1 DEF Repo
<1>3. repo' = [r EXCEPT !.busy = busy, !.page = page, !.latest = latest]
  BY DEF Ask
<1> HIDE DEF busy, page, latest
<1>4. repo' \in Repo /\ repo'.busy = busy /\ repo'.draft = r.draft
  BY <1>2, <1>3 DEF Repo
<1> QED BY <1>4 DEF busy

\* git_request keeps the invariant.
LEMMA AskKeeps ==
  ASSUME GitInv, NEW r, NEW is, NEW w, NEW purpose, NEW text, AskFrame(r, is, w, purpose, text)
  PROVE  GitInv'
<1> DEFINE m0 == Message("Submit", next', 0)
<1>1. GitTypes /\ OpsSound /\ QuestionsSound /\ DialogSound
  BY DEF GitInv
<1>2. /\ next \in Nat /\ next' = next + 1 /\ next' \in Nat /\ next' > next /\ next' # 0
      /\ wire' = Append(w, m0)
  BY <1>1 DEF AskFrame, Ask, GitTypes
<1>3. repo' \in Repo /\ repo'.busy = Cardinality(is) + 1 /\ repo'.draft = repo.draft
  BY <1>2, AskedRepo DEF AskFrame
<1>4. \E i \in Intent : /\ intents' = is \union {i} /\ i.nonce = next'
                        /\ i.purpose = purpose /\ i.text = text
  <2> DEFINE i == [nonce |-> next', purpose |-> purpose, text |-> text, job |-> FALSE,
                   context |-> IF purpose = "Open" THEN 0 ELSE r.context]
  <2>1. i \in Intent
    BY <1>2 DEF AskFrame, Repo, Intent
  <2>2. intents' = is \union {i}
    BY DEF AskFrame, Ask
  <2> QED BY <2>1, <2>2
<1>5. PICK i0 \in Intent : /\ intents' = is \union {i0} /\ i0.nonce = next'
                          /\ i0.purpose = purpose /\ i0.text = text
  BY <1>4
<1>6. m0 \in WireMessage /\ WireSound(m0)
  <2>1. "Submit" \in WireTags /\ 0 \in Words /\ "Submit" # "Execute"
    BY DEF WireTags, Tags, Words
  <2> QED BY <1>1, <1>2, <2>1, MessageSound
<1> HIDE DEF m0
<1>7. dialog' \in Dialog
  <2>1. [kind |-> "Waiting", nonce |-> next', text |-> text] \in Dialog
    BY <1>2 DEF AskFrame, Dialog
  <2> QED BY <1>1, <2>1 DEF AskFrame, GitTypes
<1>8. GitTypes'
  <2>1. wire' \in Seq(WireMessage)
    BY <1>2, <1>6, WireFacts DEF AskFrame, WiresSound
  <2>2. intents' \subseteq Intent
    BY <1>1, <1>5 DEF AskFrame, GitTypes
  <2>3. /\ messages' \subseteq [nonce : Nat, text : Words] /\ known' \subseteq Operation
        /\ operation' \in Operation /\ seen' \in Nat /\ confirmed' \subseteq Nat
        /\ gitHost' \in [id : Nat, ops : SUBSET Operation]
        /\ gitWorker' \in [host : Nat, failed : BOOLEAN] /\ committed' \subseteq Texts
    BY <1>1 DEF AskFrame, GitTypes
  <2> QED BY <1>2, <1>3, <1>7, <2>1, <2>2, <2>3 DEF GitTypes
<1>9. Calm
  <2>1. \A i \in intents' : (\E j \in intents : j.nonce = i.nonce) \/ i.nonce = next + 1
    BY <1>2, <1>5 DEF AskFrame
  <2>2. dialog' = dialog \/ (dialog'.kind = "Waiting" /\ dialog'.nonce = next + 1)
    BY <1>2 DEF AskFrame
  <2> QED BY <1>2, <2>1, <2>2 DEF AskFrame, Calm
<1>10. OpsSound'
  <2>1. WiresSound(Append(w, m0))
    BY <1>6, WireFacts DEF AskFrame
  <2>2. \A o \in Operation : OpSound(o) => OpSound(o)'
    BY <1>2, <1>9, CalmKeeps
  <2>3. \A o \in gitHost'.ops : o \in Operation /\ OpSound(o)'
    BY <1>1, <2>2 DEF AskFrame, GitTypes, OpsSound
  <2>4. \A o \in known' : o \in Operation /\ OpSound(o)
    BY <1>1 DEF AskFrame, GitTypes, OpsSound
  <2>5. operation' \in Operation /\ OpSound(operation)'
    BY <2>2 DEF AskFrame
  <2>6. \A m \in messages' : m \in messages
    BY DEF AskFrame
  <2>7. (\A k \in DOMAIN wire : WireSound(wire[k]))'
    BY <1>2, <1>9, <2>1, WiresKept
  <2> QED BY <1>9, <2>3, <2>4, <2>5, <2>6, <2>7, OpsKept
<1>11. QuestionsSound'
  <2>1. \A i \in is : QuestionSound(i) /\ i.nonce \in Nat /\ i.nonce # next'
    <3>1. \A i \in is : QuestionSound(i) /\ i.nonce \in Nat
      BY <1>1 DEF AskFrame, QuestionsSound, GitTypes, Intent
    <3> QED BY <1>2, <3>1 DEF QuestionSound
  <2>2. dialog.kind = "Waiting" => dialog.nonce <= next /\ dialog.nonce \in Nat
    BY <1>1 DEF DialogSound, GitTypes, Dialog
  <2>3. ASSUME NEW i \in is
        PROVE  QuestionSound(i)'
    <3>1. i.nonce <= next' /\ i.nonce # 0
      BY <1>2, <2>1 DEF QuestionSound
    <3>2. Waiting(i.nonce)' <=> Waiting(i.nonce) /\ dialog' = dialog
      BY <2>1 DEF AskFrame, Waiting
    <3>3. Waiting(i.nonce) => dialog' = dialog
      BY DEF AskFrame, Waiting
    <3> QED BY <2>1, <3>1, <3>2, <3>3 DEF QuestionSound, AskFrame
  <2>4. QuestionSound(i0)'
    <3>1. dialog'.kind = "Waiting" /\ dialog'.nonce = next' => text = dialog'.text
      BY <1>2, <2>2 DEF AskFrame
    <3>2. purpose = "ExecutePlan" /\ text # 0 => dialog'.kind = "Waiting" /\ dialog'.nonce = next'
      BY DEF AskFrame
    <3>3. purpose = "ExecutePlan" => next' \in confirmed'
      BY DEF AskFrame
    <3> QED BY <1>2, <1>5, <3>1, <3>2, <3>3 DEF QuestionSound, Waiting
  <2>5. (\A i, j \in intents : i.nonce = j.nonce => i = j)'
    BY <1>1, <1>5, <2>1 DEF QuestionsSound, AskFrame
  <2>6. IsFiniteSet(is) /\ i0 \notin is
    BY <1>1, <1>5, <2>1, FS_Subset DEF QuestionsSound, AskFrame
  <2>7. IsFiniteSet(intents') /\ Cardinality(intents') = Cardinality(is) + 1
    BY <1>5, <2>6, FS_AddElement
  <2> QED BY <1>3, <1>5, <2>3, <2>4, <2>5, <2>7 DEF QuestionsSound, BusyMatches
<1>12. DialogSound'
  <2>1. CASE dialog' = dialog
    <3>1. dialog.nonce \in Nat
      BY <1>1 DEF GitTypes, Dialog
    <3>2. dialog.kind = "Plan" => Fresh(dialog.nonce)'
      BY <1>1, <1>2, <1>9, <2>1, <3>1, CalmKeeps DEF DialogSound
    <3> QED BY <1>1, <1>2, <1>3, <2>1, <3>1, <3>2 DEF DialogSound, AskFrame
  <2>2. CASE dialog' # dialog
    BY <1>2, <1>3, <2>2 DEF DialogSound, AskFrame
  <2> QED BY <2>1, <2>2
<1> QED BY <1>8, <1>10, <1>11, <1>12 DEF GitInv

\* Questions that are settled, requests that are sent, answers that are taken
\* and operations that change: the view r, the requests w and the dialog d.
Settles(r, w, d) ==
  /\ repo' = r /\ r \in Repo /\ r.draft \in {0, repo.draft} /\ r.busy = Cardinality(intents')
  /\ wire' = w /\ WiresSound(w)
  /\ intents' \subseteq intents /\ next' = next /\ confirmed' = confirmed
  /\ \A i \in intents' : i.nonce \in cancelled => i.nonce \in cancelled'
  /\ messages' \subseteq messages /\ committed \subseteq committed' /\ committed' \subseteq Texts
  /\ known' \subseteq Operation /\ \A o \in known' : OpSound(o)
  /\ operation' \in Operation /\ OpSound(operation')
  /\ gitHost' \in [id : Nat, ops : SUBSET Operation]
  /\ \A o \in gitHost'.ops :
       OpSound([o EXCEPT !.state = "Running"]) /\ (o.state = "Succeeded" /\ o.text # 0 => o.text \in committed')
  /\ gitWorker' \in [host : Nat, failed : BOOLEAN] /\ seen' \in Nat
  /\ dialog' = d /\ d \in Dialog
  /\ \/ d = dialog
     \/ /\ d.kind # "Waiting" /\ \A i \in intents' : ~Waiting(i.nonce)
        /\ d.kind = "Plan" => \E i \in intents \ intents' : i.nonce = d.nonce
        /\ IF d.kind = "CommitReview" THEN dialog.kind = "Waiting" /\ d.text = dialog.text
           ELSE d.text = 0

\* Such a step keeps the invariant.
LEMMA SettlesKeeps ==
  ASSUME GitInv, NEW r, NEW w, NEW d, Settles(r, w, d)
  PROVE  GitInv'
<1>1. GitTypes /\ OpsSound /\ QuestionsSound /\ DialogSound /\ next \in Nat
  BY DEF GitInv, GitTypes
<1>2. \A i \in intents : i.nonce \in Nat /\ QuestionSound(i)
  BY <1>1 DEF QuestionsSound, GitTypes, Intent
<1>3. GitTypes'
  <2>1. wire' \in Seq(WireMessage)
    BY DEF Settles, WiresSound
  <2>2. intents' \subseteq Intent /\ next' \in Nat /\ messages' \subseteq [nonce : Nat, text : Words]
        /\ confirmed' \subseteq Nat
    BY <1>1 DEF Settles, GitTypes
  <2> QED BY <2>1, <2>2 DEF Settles, GitTypes
<1>4. Calm
  BY <1>1 DEF Settles, Calm
<1>5. OpsSound'
  <2>1. \A o \in Operation : OpSound(o) => OpSound(o)'
    BY <1>1, <1>4, CalmKeeps
  <2>2. ASSUME NEW o \in gitHost'.ops
        PROVE  o \in Operation /\ OpSound(o)'
    <3> DEFINE u == [o EXCEPT !.state = "Running"]
    <3>1. o \in Operation
      BY DEF Settles
    <3>2. u \in Operation /\ u.nonce = o.nonce /\ u.text = o.text
      BY <3>1 DEF Operation, OpStates
    <3>3. OpSound(u) /\ (o.state = "Succeeded" /\ o.text # 0 => o.text \in committed')
      BY DEF Settles
    <3> HIDE DEF u
    <3>4. OpSound(u)'
      BY <2>1, <3>2, <3>3
    <3> QED BY <3>1, <3>2, <3>3, <3>4 DEF OpSound
  <2>3. (\A k \in DOMAIN wire : WireSound(wire[k]))'
    BY <1>4, WiresKept DEF Settles
  <2>4. operation' \in Operation /\ OpSound(operation)'
    BY <2>1 DEF Settles
  <2>5. \A o \in known' : o \in Operation /\ OpSound(o)
    BY DEF Settles
  <2>6. \A m \in messages' : m \in messages
    BY DEF Settles
  <2> QED BY <1>4, <2>2, <2>3, <2>4, <2>5, <2>6, OpsKept
<1>6. QuestionsSound'
  <2>1. ASSUME NEW i \in intents'
        PROVE  QuestionSound(i)'
    <3>1. i \in intents /\ QuestionSound(i)
      BY <1>2 DEF Settles
    <3>2. Waiting(i.nonce)' <=> Waiting(i.nonce)
      BY DEF Settles, Waiting
    <3>3. Waiting(i.nonce) => dialog' = dialog
      BY DEF Settles
    <3> QED BY <3>1, <3>2, <3>3 DEF QuestionSound, Settles
  <2>2. IsFiniteSet(intents')
    BY <1>1, FS_Subset DEF QuestionsSound, Settles
  <2> QED BY <1>1, <2>1, <2>2 DEF QuestionsSound, BusyMatches, Settles
<1>7. DialogSound'
  <2>1. dialog'.kind = "Plan" => /\ Fresh(dialog'.nonce) \/ \E i \in intents \ intents' : i.nonce = dialog'.nonce
                                 /\ dialog'.nonce # 0 /\ \A m \in messages' : m.nonce # dialog'.nonce
    <3>1. CASE d = dialog
      BY <1>1, <3>1 DEF Settles, DialogSound
    <3>2. CASE d # dialog
      <4> SUFFICES ASSUME d.kind = "Plan"
                   PROVE  /\ \E i \in intents \ intents' : i.nonce = d.nonce
                          /\ d.nonce # 0 /\ \A m \in messages' : m.nonce # d.nonce
        BY DEF Settles
      <4>1. PICK i \in intents \ intents' : i.nonce = d.nonce
        BY <3>2 DEF Settles
      <4>2. \A m \in messages : m.nonce # i.nonce
        BY <1>1 DEF OpsSound, Fresh
      <4>3. i.nonce # 0
        BY <1>2 DEF QuestionSound
      <4> QED BY <4>1, <4>2, <4>3 DEF Settles
    <3> QED BY <3>1, <3>2
  <2>2. ASSUME dialog'.kind = "Plan" PROVE Fresh(dialog.nonce)'
    <3>1. \A j \in intents' : j.nonce # dialog'.nonce
      BY <1>1, <2>1, <2>2 DEF Settles, QuestionsSound, Fresh
    <3>2. dialog'.nonce <= next
      BY <1>2, <2>1, <2>2 DEF Fresh, QuestionSound
    <3> QED BY <3>1, <3>2 DEF Settles, Fresh
  <2>3. dialog'.kind = "Waiting" => dialog'.nonce <= next
    BY <1>1 DEF Settles, DialogSound
  <2>4. dialog'.kind \in {"Waiting", "CommitReview"} /\ dialog'.text # 0 => repo'.draft \in {0, dialog'.text}
    BY <1>1 DEF Settles, DialogSound
  <2>5. dialog'.kind \notin {"Waiting", "CommitReview"} => dialog'.text = 0
    BY <1>1 DEF Settles, DialogSound
  <2>6. next' = next
    BY DEF Settles
  <2> QED BY <2>1, <2>2, <2>3, <2>4, <2>5, <2>6 DEF DialogSound
<1> QED BY <1>3, <1>5, <1>6, <1>7 DEF GitInv

-----------------------------------------------------------------------------
(* Keys and ticks of the Git tab                                           *)

\* The views of the repository that the steps leave.
LEMMA RepoFacts ==
  ASSUME GitTypes, NEW n \in Nat
  PROVE  /\ \A error \in BOOLEAN : LET r == [repo EXCEPT !.error = error]
                                   IN r \in Repo /\ r.busy = repo.busy /\ r.draft = repo.draft
         /\ LET r == [repo EXCEPT !.page = "Changes"]
            IN r \in Repo /\ r.busy = repo.busy /\ r.draft = repo.draft
         /\ \A draft \in Words : LET r == [repo EXCEPT !.draft = draft]
                                 IN r \in Repo /\ r.busy = repo.busy /\ r.draft = draft
         /\ LET r == Settled(repo)
            IN r \in Repo /\ r.busy = repo.busy - 1 /\ r.draft = repo.draft
         /\ \A error \in BOOLEAN :
              LET r == [Settled(repo) EXCEPT !.error = error]
              IN r \in Repo /\ r.busy = repo.busy - 1 /\ r.draft = repo.draft
         /\ LET r == [Fine EXCEPT !.context = n, !.status = FALSE]
            IN r \in Repo /\ r.busy = repo.busy - 1 /\ r.draft = repo.draft
         /\ LET r == [Fine EXCEPT !.status = TRUE]
            IN r \in Repo /\ r.busy = repo.busy - 1 /\ r.draft = repo.draft
         /\ LET r == [repo EXCEPT !.context = 0, !.status = FALSE, !.busy = 0, !.error = TRUE]
            IN r \in Repo /\ r.busy = 0 /\ r.draft = repo.draft
<1>1. repo \in Repo /\ repo.busy \in Int /\ repo.busy - 1 \in Int
  BY DEF GitTypes, Repo
<1>2. \A e \in BOOLEAN : LET r == [repo EXCEPT !.error = e]
                         IN r \in Repo /\ r.busy = repo.busy /\ r.draft = repo.draft
  BY <1>1 DEF Repo
<1>3. LET r == [repo EXCEPT !.page = "Changes"]
      IN r \in Repo /\ r.busy = repo.busy /\ r.draft = repo.draft
  BY <1>1 DEF Repo
<1>4. \A draft \in Words : LET r == [repo EXCEPT !.draft = draft]
                           IN r \in Repo /\ r.busy = repo.busy /\ r.draft = draft
  BY <1>1 DEF Repo
<1> DEFINE b == repo.busy - 1
<1>5. b \in Int /\ Settled(repo) = [repo EXCEPT !.busy = b]
  BY <1>1 DEF Settled
<1> HIDE DEF b
<1>6. Settled(repo) \in Repo /\ Settled(repo).busy = b /\ Settled(repo).draft = repo.draft
  BY <1>1, <1>5 DEF Repo
<1>7. \A e \in BOOLEAN : LET r == [Settled(repo) EXCEPT !.error = e]
                         IN r \in Repo /\ r.busy = b /\ r.draft = repo.draft
  BY <1>6 DEF Repo
<1>8. Fine \in Repo /\ Fine.busy = b /\ Fine.draft = repo.draft
  BY <1>7 DEF Fine
<1>9. LET r == [Fine EXCEPT !.context = n, !.status = FALSE]
      IN r \in Repo /\ r.busy = b /\ r.draft = repo.draft
  BY <1>8 DEF Repo
<1>10. LET r == [Fine EXCEPT !.status = TRUE]
       IN r \in Repo /\ r.busy = b /\ r.draft = repo.draft
  BY <1>8 DEF Repo
<1>11. LET r == [repo EXCEPT !.context = 0, !.status = FALSE, !.busy = 0, !.error = TRUE]
       IN r \in Repo /\ r.busy = 0 /\ r.draft = repo.draft
  <2> DEFINE q == [repo EXCEPT !.context = 0, !.status = FALSE]
  <2>1. q \in Repo /\ q.draft = repo.draft
    BY <1>1 DEF Repo
  <2> DEFINE p == [q EXCEPT !.busy = 0]
  <2>2. [repo EXCEPT !.context = 0, !.status = FALSE, !.busy = 0, !.error = TRUE]
          = [p EXCEPT !.error = TRUE]
    BY Zenon
  <2> HIDE DEF q
  <2>3. p \in Repo /\ p.busy = 0 /\ p.draft = repo.draft
    BY <2>1 DEF Repo
  <2> HIDE DEF p
  <2>4. LET r == [p EXCEPT !.error = TRUE] IN r \in Repo /\ r.busy = 0 /\ r.draft = repo.draft
    BY <2>3 DEF Repo
  <2> QED BY <2>2, <2>4
<1> QED BY <1>2, <1>3, <1>4, <1>6, <1>7, <1>9, <1>10, <1>11 DEF b

\* A question, beside the ones that wait.
LEMMA QuestionKeeps ==
  ASSUME GitInv, NEW r \in Repo, NEW purpose \in Purposes, NEW text \in Words,
         r.busy = repo.busy, r.draft = repo.draft, Ask(r, intents, wire, purpose, text),
         \/ dialog' = dialog
         \/ /\ dialog.kind # "Waiting" /\ (text # 0 => repo.draft \in {0, text})
            /\ dialog' = [kind |-> "Waiting", nonce |-> next', text |-> text],
         confirmed' = confirmed \union {next'} \/ (confirmed' = confirmed /\ purpose # "ExecutePlan"),
         text # 0 => dialog' # dialog,
         UNCHANGED <<gitHost, gitWorker, seen, cancelled, messages, known, operation, committed>>
  PROVE  GitInv'
<1>1. /\ repo.busy = Cardinality(intents) /\ WiresSound(wire) /\ confirmed \subseteq Nat /\ seen \in Nat
      /\ operation \in Operation /\ OpSound(operation) /\ next \in Nat
  BY WireFacts DEF GitInv, GitTypes, QuestionsSound, BusyMatches, OpsSound
<1>2. next' \in Nat
  BY <1>1 DEF Ask
<1>3. AskFrame(r, intents, wire, purpose, text)
  BY <1>1, <1>2 DEF AskFrame
<1> QED BY <1>3, AskKeeps

\* A request, or an answer, that settles at most questions.
LEMMA QuietKeeps ==
  ASSUME GitInv, NEW r \in Repo, NEW w, NEW d \in Dialog,
         repo' = r, r.draft = repo.draft, r.busy = Cardinality(intents'),
         wire' = w, WiresSound(w), intents' \subseteq intents, dialog' = d,
         \A i \in intents' : i.nonce \in cancelled => i.nonce \in cancelled',
         \/ d = dialog
         \/ /\ d.kind # "Waiting" /\ \A i \in intents' : ~Waiting(i.nonce)
            /\ d.kind = "Plan" => \E i \in intents \ intents' : i.nonce = d.nonce
            /\ IF d.kind = "CommitReview" THEN dialog.kind = "Waiting" /\ d.text = dialog.text
               ELSE d.text = 0,
         operation' \in Operation, OpSound(operation'),
         UNCHANGED <<gitHost, gitWorker, seen, next, messages, known, confirmed, committed>>
  PROVE  GitInv'
<1>1. /\ gitHost \in [id : Nat, ops : SUBSET Operation] /\ gitWorker \in [host : Nat, failed : BOOLEAN]
      /\ seen \in Nat /\ known \subseteq Operation /\ committed \subseteq Texts
      /\ \A o \in known : OpSound(o)
      /\ \A o \in gitHost.ops : o \in Operation /\ OpSound(o)
  BY DEF GitInv, GitTypes, OpsSound
<1>2. ASSUME NEW o \in gitHost.ops
      PROVE  /\ OpSound([o EXCEPT !.state = "Running"])
             /\ o.state = "Succeeded" /\ o.text # 0 => o.text \in committed
  <2> DEFINE u == [o EXCEPT !.state = "Running"]
  <2>1. u.nonce = o.nonce /\ u.text = o.text /\ u.state = "Running" /\ OpSound(o)
    BY <1>1 DEF Operation
  <2> HIDE DEF u
  <2>2. OpSound(u) /\ (o.state = "Succeeded" /\ o.text # 0 => o.text \in committed)
    BY <2>1 DEF OpSound
  <2> QED BY <2>2 DEF u
<1>3. Settles(r, w, d)
  BY <1>1, <1>2 DEF Settles
<1> QED BY <1>3, SettlesKeeps

\* tick_git: the questions of the page, and the polls.
LEMMA TickKeeps == ASSUME GitInv, Tick PROVE GitInv'
<1>1. GitTypes /\ repo \in Repo /\ dialog \in Dialog /\ operation \in Operation /\ OpSound(operation)
      /\ repo.busy = Cardinality(intents) /\ intents \subseteq Intent
  BY DEF GitInv, GitTypes, OpsSound, QuestionsSound, BusyMatches
<1>2. "Open" \in Purposes /\ "Status" \in Purposes /\ 0 \in Words
  BY DEF Purposes, Topics, Words
<1>3. CASE AutoRefresh
  <2>1. /\ Ask(repo, intents, wire, Refreshes(repo), 0) /\ UNCHANGED <<dialog, confirmed>>
        /\ UNCHANGED <<gitHost, gitWorker, seen, cancelled, messages, known, operation, committed>>
    BY <1>3 DEF AutoRefresh, Question, gitHistory
  <2>2. Refreshes(repo) \in Purposes /\ Refreshes(repo) # "ExecutePlan"
    BY <1>2 DEF Refreshes
  <2> QED BY <1>1, <1>2, <2>1, <2>2, QuestionKeeps
<1>4. ASSUME NEW tag \in {"Job", "Snapshot", "Operations"}, NEW n \in Nat,
             wire' = Append(wire, Message(tag, n, 0)),
             UNCHANGED <<gitHost, gitWorker, seen, repo, intents, next, dialog, cancelled, messages,
                         known, operation, gitHistory>>
      PROVE  GitInv'
  <2>1. Message(tag, n, 0) \in WireMessage /\ WireSound(Message(tag, n, 0))
    BY <1>1, <1>2, MessageSound DEF WireTags, Tags
  <2>2. WiresSound(Append(wire, Message(tag, n, 0)))
    BY <2>1, WireFacts
  <2> QED BY <1>1, <1>4, <2>2, QuietKeeps DEF gitHistory
<1>5. CASE PollJob
  <2>1. PICK i \in intents : wire' = Append(wire, Message("Job", i.nonce, 0))
    BY <1>5 DEF PollJob
  <2>2. i.nonce \in Nat
    BY <1>1 DEF Intent
  <2>3. UNCHANGED <<gitHost, gitWorker, seen, repo, intents, next, dialog, cancelled, messages,
                    known, operation, gitHistory>>
    BY <1>5 DEF PollJob
  <2> QED BY <1>4, <2>1, <2>2, <2>3
<1>6. ASSUME NEW tag \in {"Snapshot", "Operations"}, PollOperation(tag)
      PROVE  GitInv'
  <2>1. operation.nonce \in Nat
    BY <1>1 DEF Operation
  <2>2. UNCHANGED <<gitHost, gitWorker, seen, repo, intents, next, dialog, cancelled, messages,
                    known, operation, gitHistory>>
    BY <1>6 DEF PollOperation, gitUi
  <2> QED BY <1>4, <1>6, <2>1, <2>2 DEF PollOperation
<1> QED BY <1>3, <1>5, <1>6 DEF Tick

\* Keys that ask: opening, pages, file actions, reviews, and dialogs that go on.
LEMMA AskingKeysKeep ==
  ASSUME GitInv,
         \/ Reopen /\ online
         \/ \E p \in Pages : OpenPage(p)
         \/ BackToChanges \/ FileAction \/ ReviewAction \/ Proceed
  PROVE  GitInv'
<1>1. GitTypes /\ repo \in Repo /\ dialog \in Dialog /\ DialogSound
  BY DEF GitInv, GitTypes
<1>2. /\ {"Open", "Status", "ExecutePlan", "CommitReview", "ReviewPlan"} \subseteq Purposes
      /\ Pages \subseteq Purposes /\ "ExecutePlan" \notin Pages /\ 0 \in Words
  BY PagesAssumption DEF Purposes, Topics, Words
<1>3. /\ [repo EXCEPT !.error = FALSE] \in Repo /\ [repo EXCEPT !.error = FALSE].busy = repo.busy
      /\ [repo EXCEPT !.error = FALSE].draft = repo.draft
      /\ [repo EXCEPT !.page = "Changes"] \in Repo /\ [repo EXCEPT !.page = "Changes"].busy = repo.busy
      /\ [repo EXCEPT !.page = "Changes"].draft = repo.draft
  BY <1>1, RepoFacts
<1>4. ASSUME Untouched PROVE UNCHANGED <<gitHost, gitWorker, seen, cancelled, messages, known, operation>>
  BY <1>4 DEF Untouched
<1>5. CASE Reopen /\ online
  <2>1. /\ Ask([repo EXCEPT !.error = FALSE], intents, wire, "Open", 0)
        /\ UNCHANGED <<dialog, confirmed, committed>> /\ Untouched
    BY <1>5 DEF Reopen, gitHistory
  <2> QED BY <1>2, <1>3, <1>4, <2>1, QuestionKeeps
<1>6. ASSUME NEW p \in Pages, OpenPage(p)
      PROVE  GitInv'
  <2>1. Ask(repo, intents, wire, p, 0) /\ UNCHANGED <<dialog, confirmed, committed>> /\ Untouched
    BY <1>6 DEF OpenPage, Question, gitHistory
  <2> QED BY <1>1, <1>2, <1>4, <2>1, QuestionKeeps
<1>7. CASE BackToChanges
  <2>1. /\ Ask([repo EXCEPT !.page = "Changes"], intents, wire, "Status", 0)
        /\ UNCHANGED <<dialog, confirmed, committed>> /\ Untouched
    BY <1>7 DEF BackToChanges, gitHistory
  <2> QED BY <1>2, <1>3, <1>4, <2>1, QuestionKeeps
<1>8. CASE FileAction
  <2>1. /\ Ask(repo, intents, wire, "ExecutePlan", 0) /\ confirmed' = confirmed \union {next'}
        /\ UNCHANGED <<dialog, committed>> /\ Untouched
    BY <1>8 DEF FileAction, Question
  <2> QED BY <1>1, <1>2, <1>4, <2>1, QuestionKeeps
<1>9. CASE ReviewAction
  <2>1. /\ Ask(repo, intents, wire, "ReviewPlan", 0) /\ UNCHANGED <<confirmed, committed>> /\ Untouched
        /\ dialog.kind # "Waiting"
        /\ dialog' = [kind |-> "Waiting", nonce |-> next', text |-> 0]
    BY <1>9 DEF ReviewAction, Question, AtMenu, NoDialog, gitHistory
  <2> QED BY <1>1, <1>2, <1>4, <2>1, QuestionKeeps
<1>10. CASE Proceed
  <2> DEFINE purpose == NextPurpose(dialog.kind)
             text == IF dialog.kind = "Message" THEN repo.draft ELSE dialog.text
  <2>1. /\ dialog.kind \in {"Message", "CommitReview", "Branch", "Remote"}
        /\ Ask(repo, intents, wire, purpose, text)
        /\ dialog' = [kind |-> "Waiting", nonce |-> next', text |-> text]
        /\ confirmed' = IF purpose = "ExecutePlan" THEN confirmed \union {next'} ELSE confirmed
        /\ UNCHANGED committed /\ Untouched
    BY <1>10 DEF Proceed, Question
  <2>2. purpose \in Purposes
    BY <1>2, <2>1 DEF NextPurpose
  <2>3. text \in Words /\ (text # 0 => repo.draft \in {0, text})
    BY <1>1, <2>1 DEF DialogSound, Dialog, Repo
  <2>4. dialog' # dialog /\ dialog.kind # "Waiting"
    BY <2>1
  <2> HIDE DEF purpose, text
  <2>5. confirmed' = confirmed \union {next'} \/ (confirmed' = confirmed /\ purpose # "ExecutePlan")
    BY <2>1
  <2> QED BY <1>1, <1>4, <2>1, <2>2, <2>3, <2>4, <2>5, QuestionKeeps
<1> QED BY <1>5, <1>6, <1>7, <1>8, <1>9, <1>10

\* Keys that send a request about an operation, or open a dialog.
LEMMA QuietKeysKeep ==
  ASSUME GitInv,
         \/ Reopen /\ ~online
         \/ \E kind \in {"Message", "Branch", "Remote", "Operations"} : OpenDialog(kind)
         \/ CancelOperation \/ ActOnOperation
  PROVE  GitInv'
<1>1. /\ GitTypes /\ repo \in Repo /\ dialog \in Dialog /\ operation \in Operation /\ OpSound(operation)
      /\ repo.busy = Cardinality(intents) /\ WiresSound(wire) /\ known \subseteq Operation
      /\ NoDialog \in Dialog /\ 0 \in Words
  BY WireFacts DEF GitInv, GitTypes, OpsSound, QuestionsSound, BusyMatches, NoDialog, Dialog, Words
<1>2. ASSUME NEW tag \in WireTags \ {"Execute"}, NEW n \in Nat
      PROVE  WiresSound(Append(wire, Message(tag, n, 0)))
  BY <1>1, MessageSound, WireFacts
<1>3. ASSUME NEW kind \in {"none", "Message", "Branch", "Remote", "Operations", "Takeover", "Reconcile"},
             NEW n \in Nat
      PROVE  LET d == [kind |-> kind, nonce |-> n, text |-> 0]
             IN d \in Dialog /\ d.kind \notin {"Waiting", "Plan", "CommitReview"} /\ d.text = 0
  BY <1>1 DEF Dialog
<1>4. ASSUME NEW kind \in {"none", "Message", "Branch", "Remote", "Operations", "Takeover", "Reconcile"},
             NEW n \in Nat, dialog.kind # "Waiting",
             dialog' = [kind |-> kind, nonce |-> n, text |-> 0],
             WiresSound(wire'), UNCHANGED <<repo, intents, next, cancelled, operation>>,
             UNCHANGED <<gitHost, gitWorker, seen, messages, known, confirmed, committed>>
      PROVE  GitInv'
  <2>1. \A i \in intents : ~Waiting(i.nonce)
    BY <1>4 DEF Waiting
  <2>2. /\ dialog' \in Dialog /\ dialog'.kind \notin {"Waiting", "Plan", "CommitReview"}
        /\ dialog'.text = 0
    BY <1>3, <1>4
  <2> QED BY <1>1, <1>4, <2>1, <2>2, QuietKeeps
<1>5. CASE Reopen /\ ~online
  <2>1. /\ repo' = [repo EXCEPT !.error = FALSE] /\ wire' = Append(wire, Message("Connect", 0, 0))
        /\ UNCHANGED <<intents, next, dialog, cancelled, operation>>
        /\ UNCHANGED <<gitHost, gitWorker, seen, messages, known, confirmed, committed>>
    BY <1>5 DEF Reopen, Untouched, gitHistory
  <2>2. repo' \in Repo /\ repo'.busy = repo.busy /\ repo'.draft = repo.draft
    BY <1>1, <2>1, RepoFacts
  <2>3. WiresSound(wire')
    BY <1>2, <2>1 DEF WireTags
  <2> QED BY <1>1, <2>1, <2>2, <2>3, QuietKeeps
<1>6. ASSUME NEW kind \in {"Message", "Branch", "Remote", "Operations"}, OpenDialog(kind)
      PROVE  GitInv'
  <2>1. /\ dialog.kind # "Waiting" /\ dialog' = [kind |-> kind, nonce |-> 0, text |-> 0]
        /\ wire' \in {wire, Append(wire, Message("Operations", 0, 0))}
        /\ UNCHANGED <<repo, intents, next, cancelled, operation>>
        /\ UNCHANGED <<gitHost, gitWorker, seen, messages, known, confirmed, committed>>
    BY <1>6 DEF OpenDialog, AtMenu, NoDialog, Untouched, gitHistory
  <2>2. WiresSound(wire')
    BY <1>1, <1>2, <2>1 DEF WireTags, Tags
  <2> QED BY <1>4, <2>1, <2>2
<1>7. CASE CancelOperation
  <2>1. /\ wire' = Append(wire, Message("Cancel", operation.nonce, 0))
        /\ UNCHANGED <<repo, intents, next, dialog, cancelled, operation>>
        /\ UNCHANGED <<gitHost, gitWorker, seen, messages, known, confirmed, committed>>
    BY <1>7 DEF CancelOperation, gitUi, gitHistory
  <2>2. operation.nonce \in Nat
    BY <1>1 DEF Operation
  <2>3. WiresSound(wire')
    BY <1>2, <2>1, <2>2 DEF WireTags, Tags
  <2> QED BY <1>1, <2>1, <2>3, QuietKeeps
<1>8. CASE ActOnOperation
  <2>1. PICK op \in known :
          /\ \/ dialog' = [NoDialog EXCEPT !.kind = "Reconcile", !.nonce = op.nonce] /\ UNCHANGED wire
             \/ dialog' = [NoDialog EXCEPT !.kind = "Takeover", !.nonce = op.nonce] /\ UNCHANGED wire
             \/ /\ dialog' = NoDialog
                /\ \E tag \in {"Reconcile", "Takeover", "Attached"} :
                     wire' = Append(wire, Message(tag, op.nonce, 0))
    BY <1>8 DEF ActOnOperation
  <2>2. /\ dialog.kind # "Waiting"
        /\ UNCHANGED <<repo, intents, next, cancelled, operation>>
        /\ UNCHANGED <<gitHost, gitWorker, seen, messages, known, confirmed, committed>>
    BY <1>8 DEF ActOnOperation, Untouched, gitHistory
  <2>3. op.nonce \in Nat
    BY <1>1 DEF Operation
  <2>4. \E kind \in {"none", "Reconcile", "Takeover"}, n \in Nat :
          dialog' = [kind |-> kind, nonce |-> n, text |-> 0]
    BY <2>1, <2>3 DEF NoDialog
  <2>5. WiresSound(wire')
    BY <1>1, <1>2, <2>1, <2>3 DEF WireTags, Tags
  <2> QED BY <1>4, <2>2, <2>4, <2>5
<1> QED BY <1>5, <1>6, <1>7, <1>8

\* A confirmed plan n, with the message t when it is a commit, is sent for
\* execution: over the requests w, with the view r and the dialog d after it.
SendsPlan(n, t, r, w, d) ==
  /\ wire' = Append(w, Message("Execute", n, t)) /\ WiresSound(w)
  /\ n \in Nat \ {0} /\ t \in Words /\ n <= next /\ \A i \in intents' : i.nonce # n
  /\ n \in confirmed' /\ confirmed \subseteq confirmed' /\ confirmed' \subseteq Nat
  /\ \A m \in messages : m.nonce # n
  /\ \/ messages' = messages
     \/ /\ messages' = messages \union {[nonce |-> n, text |-> repo.draft]} /\ repo.draft \in {0, t}
        /\ \E i \in intents : i.nonce = n
  /\ repo' = r /\ r \in Repo /\ r.draft = repo.draft /\ r.busy = Cardinality(intents')
  /\ intents' \subseteq intents /\ next' = next /\ cancelled' = cancelled
  /\ dialog' = d /\ d \in Dialog /\ ~(d.kind \in {"Waiting", "Plan"} /\ d.nonce = n)
  /\ d = dialog \/ (d = NoDialog /\ \A i \in intents' : ~Waiting(i.nonce))
  /\ UNCHANGED <<gitHost, gitWorker, seen, known, operation, committed>>

\* Sending it keeps the invariant.
LEMMA PlanSendingKeeps ==
  ASSUME GitInv, NEW n, NEW t, NEW r, NEW w, NEW d, SendsPlan(n, t, r, w, d)
  PROVE  GitInv'
<1>1. /\ GitTypes /\ OpsSound /\ QuestionsSound /\ DialogSound /\ next \in Nat
      /\ repo \in Repo /\ repo.draft \in Words
  BY DEF GitInv, GitTypes, Repo
<1>2. /\ n \in Nat \ {0} /\ t \in Words /\ n <= next /\ n \in confirmed'
      /\ wire' = Append(w, Message("Execute", n, t)) /\ WiresSound(w)
      /\ \A m \in messages : m.nonce # n
  BY DEF SendsPlan
<1>3. PICK m0 \in WireMessage :
        /\ m0.tag = "Execute" /\ m0.nonce = n /\ m0.text = t /\ m0.ops = {} /\ wire' = Append(w, m0)
  <2>1. LET m == Message("Execute", n, t)
        IN m \in WireMessage /\ m.tag = "Execute" /\ m.nonce = n /\ m.text = t /\ m.ops = {}
    BY <1>1, <1>2, MessageSound DEF WireTags, Tags
  <2> QED BY <1>2, <2>1
<1>4. \A m \in messages' : m \in messages \/
        (m = [nonce |-> n, text |-> repo.draft] /\ repo.draft \in {0, t} /\ \E i \in intents : i.nonce = n)
  BY DEF SendsPlan
<1>5. Calm
  <2>1. d.kind # "none" => d = dialog
    BY DEF SendsPlan, NoDialog
  <2> QED BY <1>4, <2>1 DEF SendsPlan, Calm
<1>6. WireSound(m0)'
  <2>1. Fresh(n)' /\ ~Waiting(n)' /\ ~Planned(n)'
    BY <1>2 DEF SendsPlan, Fresh, Waiting, Planned
  <2>2. \A x \in messages' : x.nonce = n /\ x.text # 0 => x.text = t
    BY <1>2, <1>4
  <2>3. ExecuteSound(m0)'
    BY <1>2, <1>3, <2>1, <2>2 DEF ExecuteSound
  <2> QED BY <1>3, <2>3 DEF WireSound
<1>7. wire' \in Seq(WireMessage) /\ (\A k \in DOMAIN wire : WireSound(wire[k]))'
  <2>1. w \in Seq(WireMessage) /\ \A k \in DOMAIN w : WireSound(w[k])'
    BY <1>2, <1>5, WiresKept DEF WiresSound
  <2>2. /\ Append(w, m0) \in Seq(WireMessage)
        /\ \A k \in DOMAIN Append(w, m0) :
             (k \in DOMAIN w /\ Append(w, m0)[k] = w[k]) \/ Append(w, m0)[k] = m0
    BY <1>3, <2>1, AppendFacts
  <2>3. \A k \in DOMAIN Append(w, m0) : WireSound(Append(w, m0)[k])'
    BY <1>6, <2>1, <2>2
  <2> QED BY <1>3, <2>2, <2>3
<1>8. GitTypes'
  <2>1. messages' \subseteq [nonce : Nat, text : Words]
    BY <1>1, <1>2, <1>4 DEF GitTypes
  <2>2. intents' \subseteq Intent
    BY <1>1 DEF SendsPlan, GitTypes
  <2> QED BY <1>1, <1>7, <2>1, <2>2 DEF SendsPlan, GitTypes
<1>9. OpsSound'
  <2>1. \A o \in Operation : OpSound(o) => OpSound(o)'
    BY <1>1, <1>5, CalmKeeps
  <2>2. UNCHANGED <<gitHost, known, operation>>
    BY DEF SendsPlan
  <2>3. \A o \in gitHost'.ops : o \in Operation /\ OpSound(o)'
    BY <1>1, <2>1, <2>2 DEF GitTypes, OpsSound
  <2>4. \A o \in known' : o \in Operation /\ OpSound(o)
    BY <1>1, <2>2 DEF GitTypes, OpsSound
  <2>5. operation' \in Operation /\ OpSound(operation)'
    BY <1>1, <2>1, <2>2 DEF GitTypes, OpsSound
  <2>6. \A m \in messages' : m \in messages \/ (m.nonce \in Nat /\ Fresh(m.nonce)')
    <3>1. Fresh(n)'
      BY <1>2 DEF SendsPlan, Fresh
    <3> QED BY <1>2, <1>4, <3>1
  <2> QED BY <1>5, <1>7, <2>3, <2>4, <2>5, <2>6, OpsKept
<1>10. QuestionsSound'
  <2>1. ASSUME NEW i \in intents'
        PROVE  QuestionSound(i)'
    <3>1. i \in intents /\ QuestionSound(i)
      BY <1>1 DEF SendsPlan, QuestionsSound
    <3>2. Waiting(i.nonce)' <=> Waiting(i.nonce)
      BY DEF SendsPlan, Waiting, NoDialog
    <3>3. Waiting(i.nonce) => dialog' = dialog
      BY DEF SendsPlan
    <3> QED BY <3>1, <3>2, <3>3 DEF QuestionSound, SendsPlan
  <2>2. IsFiniteSet(intents')
    BY <1>1, FS_Subset DEF QuestionsSound, SendsPlan
  <2> QED BY <1>1, <2>1, <2>2 DEF QuestionsSound, BusyMatches, SendsPlan
<1>11. DialogSound'
  <2>1. CASE d = dialog
    <3>1. dialog' = dialog /\ dialog.nonce \in Nat /\ repo'.draft = repo.draft /\ next' = next
      BY <1>1, <2>1 DEF SendsPlan, GitTypes, Dialog
    <3>2. dialog.kind = "Plan" => Fresh(dialog.nonce)'
      BY <1>1, <1>5, <3>1, CalmKeeps DEF DialogSound
    <3>3. dialog.kind = "Plan" => dialog.nonce # n
      BY <2>1 DEF SendsPlan
    <3>4. dialog.kind = "Plan" => \A m \in messages' : m.nonce # dialog.nonce
      BY <1>1, <1>4, <3>3 DEF DialogSound
    <3> QED BY <1>1, <3>1, <3>2, <3>4 DEF DialogSound
  <2>2. CASE d = NoDialog
    <3>1. dialog'.kind = "none" /\ dialog'.text = 0
      BY <2>2 DEF SendsPlan, NoDialog
    <3> QED BY <3>1 DEF DialogSound
  <2> QED BY <2>1, <2>2 DEF SendsPlan
<1> QED BY <1>8, <1>9, <1>10, <1>11 DEF GitInv

\* F2 on a plan.
LEMMA ConfirmKeeps == ASSUME GitInv, ConfirmPlan PROVE GitInv'
<1>1. /\ GitTypes /\ OpsSound /\ QuestionsSound /\ DialogSound /\ WiresSound(wire)
      /\ dialog \in Dialog /\ confirmed \subseteq Nat /\ repo \in Repo
  BY WireFacts DEF GitInv, GitTypes
<1>2. /\ dialog.kind = "Plan" /\ messages' = messages
      /\ wire' = Append(wire, Message("Execute", dialog.nonce, 0))
      /\ confirmed' = confirmed \union {dialog.nonce} /\ dialog' = NoDialog
      /\ UNCHANGED <<repo, intents, next, cancelled>>
      /\ UNCHANGED <<gitHost, gitWorker, seen, known, operation, committed>>
  BY DEF ConfirmPlan, Execute
<1>3. /\ dialog.nonce \in Nat \ {0} /\ dialog.nonce <= next /\ \A i \in intents : i.nonce # dialog.nonce
      /\ \A m \in messages : m.nonce # dialog.nonce
  BY <1>1, <1>2 DEF DialogSound, Fresh, Dialog
<1>4. \A i \in intents' : ~Waiting(i.nonce)
  BY <1>2 DEF Waiting
<1>5. NoDialog \in Dialog /\ NoDialog.kind = "none" /\ 0 \in Words
  BY DEF NoDialog, Dialog, Words
<1>6. repo.busy = Cardinality(intents')
  BY <1>1, <1>2 DEF QuestionsSound, BusyMatches
<1>7. SendsPlan(dialog.nonce, 0, repo, wire, NoDialog)
  BY <1>1, <1>2, <1>3, <1>4, <1>5, <1>6 DEF SendsPlan
<1> QED BY <1>7, PlanSendingKeeps

\* The message is edited, or what is waited for is given up.
LEMMA DialogKeysKeep == ASSUME GitInv, Edit \/ Escape PROVE GitInv'
<1>1. /\ GitTypes /\ OpsSound /\ QuestionsSound /\ DialogSound /\ next \in Nat
      /\ repo \in Repo /\ dialog \in Dialog /\ confirmed \subseteq Nat
  BY DEF GitInv, GitTypes
<1>2. ASSUME NEW draft \in Words, repo' = [repo EXCEPT !.draft = draft], Calm,
             confirmed' \subseteq confirmed, \A n \in confirmed \ confirmed' : Waiting(n),
             cancelled \subseteq cancelled', \A n \in confirmed \ confirmed' : n \in cancelled',
             dialog'.kind \notin {"Waiting", "Plan", "CommitReview"}, dialog'.text = 0, dialog' \in Dialog,
             \A n \in Nat : Waiting(n) => n \in cancelled',
             UNCHANGED <<gitHost, gitWorker, wire, seen, intents, next, messages, known, operation, committed>>
      PROVE  GitInv'
  <2>1. repo' \in Repo /\ repo'.busy = repo.busy
    BY <1>1, <1>2, RepoFacts
  <2>2. GitTypes'
    BY <1>1, <1>2, <2>1 DEF GitTypes
  <2>3. OpsSound'
    <3>1. \A o \in Operation : OpSound(o) => OpSound(o)'
      BY <1>1, <1>2, CalmKeeps
    <3>2. (\A k \in DOMAIN wire : WireSound(wire[k]))'
      BY <1>2, WireFacts, WiresKept
    <3>3. \A o \in gitHost'.ops : o \in Operation /\ OpSound(o)'
      BY <1>1, <1>2, <3>1 DEF GitTypes, OpsSound
    <3>4. \A o \in known' : o \in Operation /\ OpSound(o)
      BY <1>1, <1>2 DEF GitTypes, OpsSound
    <3>5. operation' \in Operation /\ OpSound(operation)'
      BY <1>1, <1>2, <3>1 DEF GitTypes, OpsSound
    <3>6. \A m \in messages' : m \in messages
      BY <1>2
    <3> QED BY <1>2, <3>2, <3>3, <3>4, <3>5, <3>6, OpsKept
  <2>4. QuestionsSound'
    <3>1. ASSUME NEW i \in intents
          PROVE  QuestionSound(i)'
      <4>1. QuestionSound(i) /\ i.nonce \in Nat
        BY <1>1 DEF QuestionsSound, GitTypes, Intent
      <4>2. ~Waiting(i.nonce)'
        BY <1>2 DEF Waiting
      <4>3. i.nonce # 0 /\ i.nonce <= next'
        BY <1>2, <4>1 DEF QuestionSound
      <4>4. i.purpose = "ExecutePlan" => i.nonce \in confirmed' \union cancelled'
        BY <1>2, <4>1 DEF QuestionSound
      <4>5. i.purpose = "ExecutePlan" /\ i.text # 0 => i.nonce \in cancelled'
        BY <1>2, <4>1 DEF QuestionSound
      <4> QED BY <4>2, <4>3, <4>4, <4>5 DEF QuestionSound
    <3> QED BY <1>1, <1>2, <2>1, <3>1 DEF QuestionsSound, BusyMatches
  <2>5. DialogSound'
    BY <1>2 DEF DialogSound
  <2> QED BY <2>2, <2>3, <2>4, <2>5 DEF GitInv
<1>3. CASE Edit
  <2>1. PICK t \in Texts : repo' = [repo EXCEPT !.draft = t]
    BY <1>3 DEF Edit
  <2>2. /\ dialog.kind = "Message"
        /\ UNCHANGED <<gitHost, gitWorker, wire, seen, intents, next, messages, known, operation, committed>>
        /\ UNCHANGED <<dialog, cancelled, confirmed>>
    BY <1>3 DEF Edit, Untouched, gitHistory
  <2>3. Calm
    BY <1>1, <2>2 DEF Calm
  <2>4. dialog.text = 0
    BY <1>1, <2>2 DEF DialogSound
  <2>5. t \in Words /\ \A n \in Nat : ~Waiting(n)
    BY <2>2 DEF Words, Waiting
  <2> QED BY <1>1, <1>2, <2>1, <2>2, <2>3, <2>4, <2>5
<1>4. CASE Escape
  <2>1. /\ dialog' = NoDialog /\ repo' = repo
        /\ UNCHANGED <<gitHost, gitWorker, wire, seen, intents, next, messages, known, operation, committed>>
        /\ IF dialog.kind = "Waiting"
             THEN cancelled' = cancelled \union {dialog.nonce} /\ confirmed' = confirmed \ {dialog.nonce}
           ELSE UNCHANGED <<cancelled, confirmed>>
    BY <1>4 DEF Escape
  <2>2. /\ confirmed' \subseteq confirmed /\ \A n \in confirmed \ confirmed' : Waiting(n) /\ n \in cancelled'
        /\ cancelled \subseteq cancelled'
    BY <2>1 DEF Waiting
  <2>3. NoDialog \in Dialog /\ NoDialog.kind = "none" /\ NoDialog.text = 0
    BY DEF NoDialog, Dialog, Words
  <2>4. Calm
    BY <1>1, <2>1, <2>2, <2>3 DEF Calm
  <2>5. repo.draft \in Words /\ repo' = [repo EXCEPT !.draft = repo.draft]
    BY <1>1, <2>1 DEF Repo
  <2>6. \A n \in Nat : Waiting(n) => n \in cancelled'
    BY <2>1 DEF Waiting
  <2> QED BY <1>2, <2>1, <2>2, <2>3, <2>4, <2>5, <2>6
<1> QED BY <1>3, <1>4

\* z leaves the terminal of the operation, and reads the changes if it can.
LEMMA LeavingKeeps == ASSUME GitInv, LeaveOperation PROVE GitInv'
<1> DEFINE r == [repo EXCEPT !.page = "Changes"]
<1>1. /\ r \in Repo /\ r.busy = repo.busy /\ r.draft = repo.draft /\ dialog \in Dialog
      /\ operation \in Operation /\ OpSound(operation) /\ repo.busy = Cardinality(intents)
      /\ WiresSound(wire)
  BY RepoFacts, WireFacts DEF GitInv, GitTypes, OpsSound, QuestionsSound, BusyMatches
<1>2. /\ UNCHANGED <<dialog, confirmed, cancelled>>
      /\ UNCHANGED <<gitHost, gitWorker, seen, messages, known, operation, committed>>
      /\ \/ Ask(r, intents, wire, Refreshes(r), 0)
         \/ repo' = r /\ UNCHANGED <<intents, wire, next>>
  BY DEF LeaveOperation, gitHistory
<1>3. Refreshes(r) \in Purposes /\ Refreshes(r) # "ExecutePlan" /\ 0 \in Words
  BY DEF Refreshes, Purposes, Topics, Words
<1> HIDE DEF r
<1>4. CASE Ask(r, intents, wire, Refreshes(r), 0)
  BY <1>1, <1>2, <1>3, <1>4, QuestionKeeps
<1>5. CASE repo' = r /\ UNCHANGED <<intents, wire, next>>
  BY <1>1, <1>2, <1>5, QuietKeeps
<1> QED BY <1>2, <1>4, <1>5

\* Every key does.
LEMMA KeyKeeps == ASSUME GitInv, Key PROVE GitInv'
<1>1. CASE \/ Reopen /\ online
           \/ \E p \in Pages : OpenPage(p)
           \/ BackToChanges \/ FileAction \/ ReviewAction \/ Proceed
  BY <1>1, AskingKeysKeep
<1>2. CASE \/ Reopen /\ ~online
           \/ \E kind \in {"Message", "Branch", "Remote", "Operations"} : OpenDialog(kind)
           \/ CancelOperation \/ ActOnOperation
  BY <1>2, QuietKeysKeep
<1>3. CASE LeaveOperation \/ ConfirmPlan \/ Edit \/ Escape
  BY <1>3, LeavingKeeps, ConfirmKeeps, DialogKeysKeep
<1> QED BY <1>1, <1>2, <1>3 DEF Key

-----------------------------------------------------------------------------
(* The worker and the host                                                 *)

\* The request served is one that was not answered.
LEMMA FirstIsUnanswered ==
  ASSUME wire \in Seq(WireMessage), Unanswered # {}
  PROVE  FirstUnanswered \in Unanswered
<1> DEFINE less == OpToRel(<, Nat)
<1>1. Unanswered \subseteq Nat
  BY ElementFacts DEF Unanswered
<1>2. IsWellFoundedOn(less, Nat)
  BY NatLessThanWellFounded
<1>3. \A x, y \in Nat : x < y => <<x, y>> \in less
  BY DEF OpToRel
<1> HIDE DEF less
<1>4. \E k \in Unanswered : \A l \in Unanswered : <<l, k>> \notin less
  BY <1>1, <1>2, WFMin, Zenon
<1>5. PICK k \in Unanswered : \A l \in Unanswered : <<l, k>> \notin less
  BY <1>4
<1>6. \A l \in Unanswered : k <= l
  <2> TAKE l \in Unanswered
  <2>1. k \in Nat /\ l \in Nat /\ ~(l < k)
    BY <1>1, <1>3, <1>5
  <2> QED BY <2>1
<1>7. \E j \in Unanswered : \A l \in Unanswered : j <= l
  BY <1>6
<1> QED BY <1>7 DEF FirstUnanswered

\* The operation x goes by the plan of p, and has committed only what p or
\* what was noted in the set texts says.
SamePlan(x, p, texts) ==
  /\ x \in Operation /\ p \in Operation /\ OpSound(p) /\ x.nonce = p.nonce /\ x.text = p.text
  /\ x.state = "Succeeded" => p.state = "Succeeded" \/ x.text \in texts \union {0}

\* An operation is known by its plan.
LEMMA SameOperation ==
  ASSUME NEW x, NEW p, NEW texts, SamePlan(x, p, texts)
  PROVE  /\ OpSound([x EXCEPT !.state = "Running"])
         /\ x.state = "Succeeded" /\ x.text # 0 => x.text \in committed \union texts
         /\ texts \subseteq committed => OpSound(x)
<1> DEFINE u == [x EXCEPT !.state = "Running"]
<1>1. u.nonce = x.nonce /\ u.text = x.text /\ u.state = "Running"
  BY DEF SamePlan, Operation
<1> HIDE DEF u
<1>2. OpSound(u)
  BY <1>1 DEF OpSound, SamePlan
<1>3. x.state = "Succeeded" /\ x.text # 0 => x.text \in committed \union texts
  BY DEF OpSound, SamePlan
<1>4. ASSUME texts \subseteq committed PROVE OpSound(x)
  BY <1>3, <1>4 DEF OpSound, SamePlan
<1> QED BY <1>2, <1>3, <1>4 DEF u

\* A step of the worker or of the host.
LEMMA HostStepKeeps ==
  ASSUME GitInv, UNCHANGED <<gitUi, confirmed>>, WiresSound(wire'),
         committed \subseteq committed', committed' \subseteq Texts,
         gitWorker' \in [host : Nat, failed : BOOLEAN],
         gitHost' \in [id : Nat, ops : SUBSET Operation],
         \A x \in gitHost'.ops : \E p \in Operation : SamePlan(x, p, committed')
  PROVE  GitInv'
<1>1. /\ GitTypes /\ repo \in Repo /\ dialog \in Dialog /\ operation \in Operation /\ OpSound(operation)
      /\ seen \in Nat /\ known \subseteq Operation /\ \A o \in known : OpSound(o)
      /\ repo.busy = Cardinality(intents)
  BY DEF GitInv, GitTypes, OpsSound, QuestionsSound, BusyMatches
<1>2. ASSUME NEW o \in gitHost'.ops
      PROVE  /\ OpSound([o EXCEPT !.state = "Running"])
             /\ o.state = "Succeeded" /\ o.text # 0 => o.text \in committed'
  <2>1. PICK p \in Operation : SamePlan(o, p, committed')
    OBVIOUS
  <2> QED BY <2>1, SameOperation
<1>3. UNCHANGED <<seen, repo, intents, next, dialog, cancelled, messages, known, operation, confirmed>>
  BY DEF gitUi
<1>4. Settles(repo, wire', dialog)
  BY <1>1, <1>2, <1>3 DEF Settles
<1> QED BY <1>4, SettlesKeeps

\* The answer to request k, with operations that are sound.
LEMMA AnswerKeeps ==
  ASSUME GitInv, NEW k \in DOMAIN wire, NEW w \in [host : Nat, failed : BOOLEAN],
         NEW answer \in {"ok", "refused"}, NEW state \in {"none", "pending", "ready", "failed"},
         NEW ops \in SUBSET Operation, \A o \in ops : OpSound(o),
         AnswerGit(k, w, answer, state, ops)
  PROVE  WiresSound(wire') /\ gitWorker' = w
<1> DEFINE a == [wire[k] EXCEPT !.answer = answer]
           b == [a EXCEPT !.from = w.host]
           c == [b EXCEPT !.state = state]
           e == [c EXCEPT !.ops = ops]
<1>1. wire \in Seq(WireMessage) /\ wire[k] \in WireMessage /\ WireSound(wire[k])
  BY WireFacts, ElementFacts DEF GitInv, GitTypes, OpsSound
<1>2. a \in WireMessage /\ a.tag = wire[k].tag /\ a.nonce = wire[k].nonce /\ a.text = wire[k].text
  BY <1>1 DEF WireMessage
<1>3. wire' = [wire EXCEPT ![k] = e] /\ gitWorker' = w
  <2>1. [wire[k] EXCEPT !.answer = answer, !.from = w.host, !.state = state, !.ops = ops] = e
    BY Zenon
  <2>2. wire' = [wire EXCEPT ![k] = [wire[k] EXCEPT !.answer = answer, !.from = w.host,
                                                    !.state = state, !.ops = ops]]
    BY DEF AnswerGit
  <2> QED BY <2>1, <2>2 DEF AnswerGit
<1> HIDE DEF a
<1>4. b \in WireMessage /\ b.tag = a.tag /\ b.nonce = a.nonce /\ b.text = a.text
  BY <1>2 DEF WireMessage
<1> HIDE DEF b
<1>5. c \in WireMessage /\ c.tag = b.tag /\ c.nonce = b.nonce /\ c.text = b.text
  BY <1>4 DEF WireMessage
<1> HIDE DEF c
<1>6. e \in WireMessage /\ e.tag = c.tag /\ e.nonce = c.nonce /\ e.text = c.text /\ e.ops = ops
  BY <1>5 DEF WireMessage
<1> HIDE DEF e
<1>7. WireSound(e)
  BY <1>1, <1>2, <1>4, <1>5, <1>6 DEF WireSound, ExecuteSound
<1>8. wire' \in Seq(WireMessage) /\ \A l \in DOMAIN wire' : wire'[l] \in {wire[l], e} /\ l \in DOMAIN wire
  <2>1. wire' = [wire EXCEPT ![k] = e] /\ wire \in Seq(WireMessage) /\ e \in WireMessage
    BY <1>1, <1>3, <1>6
  <2>2. wire' \in Seq(WireMessage)
    BY <2>1
  <2>3. DOMAIN wire' = DOMAIN wire /\ \A l \in DOMAIN wire : wire'[l] \in {wire[l], e}
    BY <2>1
  <2> QED BY <2>2, <2>3
<1>9. \A l \in DOMAIN wire' : wire'[l] = e \/ (wire'[l] = wire[l] /\ l \in DOMAIN wire)
  BY <1>8
<1>10. \A l \in DOMAIN wire' : WireSound(wire'[l])
  BY <1>1, <1>7, <1>9, WireFacts DEF WiresSound
<1> QED BY <1>3, <1>8, <1>10 DEF WiresSound

\* Operations of the host, and what a request makes of one, keep their plan.
LEMMA OperatedFacts ==
  ASSUME GitInv, NEW o \in gitHost.ops
  PROVE  /\ \A texts : SamePlan(o, o, texts) /\ SamePlan(Orphaned(o), o, texts)
         /\ \A m, texts : SamePlan(Operated(m, o), o, texts)
         /\ \A texts : \A owner \in {"none", "ui", "other"} :
              SamePlan([o EXCEPT !.owner = owner], o, texts)
         /\ \A texts : \A state \in {"Succeeded", "Failed", "Unknown"} :
              (state = "Succeeded" => o.text \in texts \union {0})
                => SamePlan([o EXCEPT !.state = state], o, texts)
<1>1. o \in Operation /\ OpSound(o)
  BY DEF GitInv, GitTypes, OpsSound
<1>2. ASSUME NEW state \in OpStates
      PROVE  LET u == [o EXCEPT !.state = state]
             IN u \in Operation /\ u.nonce = o.nonce /\ u.text = o.text /\ u.state = state
  BY <1>1 DEF Operation
<1>3. ASSUME NEW owner \in {"none", "ui", "other"}
      PROVE  LET u == [o EXCEPT !.owner = owner]
             IN u \in Operation /\ u.nonce = o.nonce /\ u.text = o.text /\ u.state = o.state
  BY <1>1 DEF Operation
<1>4. ASSUME NEW texts
      PROVE  SamePlan(o, o, texts) /\ SamePlan(Orphaned(o), o, texts)
  <2>1. SamePlan(o, o, texts)
    BY <1>1 DEF SamePlan
  <2> DEFINE st == IF o.state = "Running" THEN "Unknown" ELSE o.state
             u == [o EXCEPT !.state = st]
  <2>2. st \in OpStates /\ (st = "Succeeded" => o.state = "Succeeded")
    BY <1>1 DEF Operation, OpStates
  <2>3. Orphaned(o) = [u EXCEPT !.owner = "none"]
    BY Zenon DEF Orphaned
  <2> HIDE DEF st
  <2>4. u \in Operation /\ u.nonce = o.nonce /\ u.text = o.text /\ u.state = st
    BY <1>2, <2>2
  <2> HIDE DEF u
  <2>5. LET v == [u EXCEPT !.owner = "none"]
        IN v \in Operation /\ v.nonce = u.nonce /\ v.text = u.text /\ v.state = u.state
    BY <2>4 DEF Operation
  <2>6. SamePlan(Orphaned(o), o, texts)
    BY <1>1, <2>2, <2>3, <2>4, <2>5 DEF SamePlan
  <2> QED BY <2>1, <2>6
<1>5. ASSUME NEW owner \in {"none", "ui", "other"}, NEW texts
      PROVE  SamePlan([o EXCEPT !.owner = owner], o, texts)
  BY <1>1, <1>3 DEF SamePlan
<1>6. ASSUME NEW state \in {"Succeeded", "Failed", "Unknown"}, NEW texts,
             state = "Succeeded" => o.text \in texts \union {0}
      PROVE  SamePlan([o EXCEPT !.state = state], o, texts)
  <2>1. state \in OpStates
    BY DEF OpStates
  <2> QED BY <1>1, <1>2, <1>6, <2>1 DEF SamePlan
<1>7. ASSUME NEW m, NEW texts
      PROVE  SamePlan(Operated(m, o), o, texts)
  <2>1. Operated(m, o) \in {o, [o EXCEPT !.owner = "ui"], [o EXCEPT !.state = "Acknowledged"]}
    BY DEF Operated
  <2>2. "Acknowledged" \in OpStates
    BY DEF OpStates
  <2>3. SamePlan([o EXCEPT !.state = "Acknowledged"], o, texts)
    BY <1>1, <1>2, <2>2 DEF SamePlan
  <2> QED BY <1>4, <1>5, <2>1, <2>3
<1> QED BY <1>4, <1>5, <1>6, <1>7

\* Steps of the host by itself.
LEMMA HostKeeps == ASSUME GitInv, EndOperation \/ OperationTakenOver \/ HostReplaced PROVE GitInv'
<1>1. /\ gitHost \in [id : Nat, ops : SUBSET Operation] /\ gitWorker \in [host : Nat, failed : BOOLEAN]
      /\ committed \subseteq Texts /\ WiresSound(wire)
  BY WireFacts DEF GitInv, GitTypes
<1>2. UNCHANGED <<gitUi, confirmed, gitWorker, wire>>
  BY DEF EndOperation, OperationTakenOver, HostReplaced, gitHistory
<1>3. ASSUME NEW ops, gitHost' = [gitHost EXCEPT !.ops = ops],
             \A x \in ops : \E p \in Operation : SamePlan(x, p, committed'),
             committed \subseteq committed', committed' \subseteq Texts
      PROVE  GitInv'
  <2>1. ops \subseteq Operation
    BY <1>3 DEF SamePlan
  <2>2. gitHost' \in [id : Nat, ops : SUBSET Operation] /\ gitHost'.ops = ops
    BY <1>1, <1>3, <2>1
  <2> QED BY <1>1, <1>2, <1>3, <2>2, HostStepKeeps
<1>4. CASE EndOperation
  <2>1. PICK o \in gitHost.ops, state \in {"Succeeded", "Failed", "Unknown"} :
          /\ gitHost' = [gitHost EXCEPT !.ops = (@ \ {o}) \union {[o EXCEPT !.state = state]}]
          /\ committed' = IF state = "Succeeded" /\ o.text # 0 THEN committed \union {o.text} ELSE committed
    BY <1>4 DEF EndOperation
  <2> DEFINE ops == (gitHost.ops \ {o}) \union {[o EXCEPT !.state = state]}
  <2>2. gitHost' = [gitHost EXCEPT !.ops = ops]
    BY <2>1
  <2>3. o \in Operation /\ o.text \in Words
    BY <1>1 DEF Operation
  <2>4. committed \subseteq committed' /\ committed' \subseteq Texts
        /\ (state = "Succeeded" => o.text \in committed' \union {0})
    BY <1>1, <2>1, <2>3 DEF Words
  <2>5. SamePlan([o EXCEPT !.state = state], o, committed')
    BY <2>4, OperatedFacts
  <2>6. \A x \in ops : \E p \in Operation : SamePlan(x, p, committed')
    BY <1>1, <2>3, <2>5, OperatedFacts
  <2> HIDE DEF ops
  <2> QED BY <1>3, <2>2, <2>4, <2>6
<1>5. CASE OperationTakenOver
  <2>1. PICK o \in gitHost.ops :
          gitHost' = [gitHost EXCEPT !.ops = (@ \ {o}) \union {[o EXCEPT !.owner = "other"]}]
    BY <1>5 DEF OperationTakenOver
  <2> DEFINE ops == (gitHost.ops \ {o}) \union {[o EXCEPT !.owner = "other"]}
  <2>2. gitHost' = [gitHost EXCEPT !.ops = ops] /\ committed' = committed
    BY <1>5, <2>1 DEF OperationTakenOver, gitHistory
  <2>3. o \in Operation /\ SamePlan([o EXCEPT !.owner = "other"], o, committed')
    BY <1>1, OperatedFacts
  <2>4. \A x \in ops : \E p \in Operation : SamePlan(x, p, committed')
    BY <1>1, <2>3, OperatedFacts
  <2> HIDE DEF ops
  <2> QED BY <1>1, <1>3, <2>2, <2>4
<1>6. CASE HostReplaced
  <2> DEFINE ops == {Orphaned(o) : o \in gitHost.ops}
  <2>1. gitHost' = [id |-> gitHost.id + 1, ops |-> ops] /\ committed' = committed
    BY <1>6 DEF HostReplaced, gitHistory
  <2>2. ASSUME NEW x \in ops
        PROVE  \E p \in Operation : SamePlan(x, p, committed')
    <3>1. PICK o \in gitHost.ops : x = Orphaned(o)
      OBVIOUS
    <3>2. SamePlan(x, o, committed') /\ o \in Operation
      BY <1>1, <3>1, OperatedFacts
    <3> QED BY <3>2
  <2> HIDE DEF ops
  <2>3. ops \subseteq Operation
    BY <2>2 DEF SamePlan
  <2>4. gitHost' \in [id : Nat, ops : SUBSET Operation] /\ gitHost'.ops = ops
    BY <1>1, <2>1, <2>3
  <2> QED BY <1>1, <1>2, <2>1, <2>2, <2>4, HostStepKeeps
<1> QED BY <1>4, <1>5, <1>6

\* A request is refused, or there is nothing to tell.
LEMMA PlainAnswerKeeps ==
  ASSUME GitInv, NEW k \in DOMAIN wire, NEW w \in [host : Nat, failed : BOOLEAN],
         NEW answer \in {"ok", "refused"}, NEW state \in {"none", "pending", "ready", "failed"},
         AnswerGit(k, w, answer, state, {}),
         UNCHANGED <<gitHost, committed, gitUi, confirmed>>
  PROVE  GitInv'
<1>1. /\ gitHost \in [id : Nat, ops : SUBSET Operation] /\ committed \subseteq Texts
  BY DEF GitInv, GitTypes
<1>2. {} \in SUBSET Operation /\ \A o \in {} : OpSound(o)
  OBVIOUS
<1>3. WiresSound(wire') /\ gitWorker' = w
  BY <1>2, AnswerKeeps
<1>4. \A x \in gitHost'.ops : \E p \in Operation : SamePlan(x, p, committed')
  BY <1>1, OperatedFacts
<1> QED BY <1>1, <1>3, <1>4, HostStepKeeps

\* Executing a plan makes its operation, once; attaching, cancelling and
\* acknowledging change it.
LEMMA CarryingOutKeeps ==
  ASSUME GitInv, NEW k \in DOMAIN wire, CarryOut(k, wire[k]), UNCHANGED <<committed, gitUi, confirmed>>
  PROVE  GitInv'
<1> DEFINE m == wire[k]
           op == {o \in gitHost.ops : o.nonce = m.nonce}
           made == [nonce |-> m.nonce, text |-> m.text, state |-> "Running", owner |-> "none"]
<1>1. /\ gitHost \in [id : Nat, ops : SUBSET Operation] /\ committed \subseteq Texts
      /\ gitWorker \in [host : Nat, failed : BOOLEAN] /\ \A o \in gitHost.ops : OpSound(o)
      /\ wire \in Seq(WireMessage) /\ m \in WireMessage /\ WireSound(m)
  BY WireFacts, ElementFacts DEF GitInv, GitTypes, OpsSound
<1>2. ASSUME NEW ops, gitHost' = [gitHost EXCEPT !.ops = ops],
             \A x \in ops : \E p \in Operation : SamePlan(x, p, committed),
             NEW told \in SUBSET Operation, \A x \in told : OpSound(x),
             AnswerOrLose(k, "none", told)
      PROVE  GitInv'
  <2>1. ops \subseteq Operation
    BY <1>2 DEF SamePlan
  <2>2. gitHost' \in [id : Nat, ops : SUBSET Operation] /\ gitHost'.ops = ops
    BY <1>1, <1>2, <2>1
  <2>3. WiresSound(wire') /\ gitWorker' \in [host : Nat, failed : BOOLEAN]
    <3>1. [gitWorker EXCEPT !.failed = TRUE] \in [host : Nat, failed : BOOLEAN]
      BY <1>1
    <3>2. CASE AnswerGit(k, gitWorker, "ok", "none", told)
      BY <1>1, <1>2, <3>2, AnswerKeeps
    <3>3. CASE AnswerGit(k, [gitWorker EXCEPT !.failed = TRUE], "refused", "none", {})
      <4>1. {} \in SUBSET Operation /\ \A o \in {} : OpSound(o)
        OBVIOUS
      <4> QED BY <3>1, <3>3, <4>1, AnswerKeeps
    <3> QED BY <1>2, <3>2, <3>3 DEF AnswerOrLose
  <2> QED BY <1>1, <1>2, <2>2, <2>3, HostStepKeeps
<1>3. \A x \in gitHost.ops : x \in Operation /\ SamePlan(x, x, committed)
  BY <1>1, OperatedFacts
<1>4. gitHost = [gitHost EXCEPT !.ops = gitHost.ops]
  BY <1>1
<1>5. CASE m.tag \in {"Submit", "Job"}
  <2>1. /\ UNCHANGED gitHost
        /\ \E state \in {"none", "pending", "ready", "failed"} : AnswerOrLose(k, state, {})
    BY <1>5 DEF CarryOut
  <2>2. [gitWorker EXCEPT !.failed = TRUE] \in [host : Nat, failed : BOOLEAN]
    BY <1>1
  <2> QED BY <1>1, <2>1, <2>2, PlainAnswerKeeps DEF AnswerOrLose
<1>6. CASE m.tag = "Execute"
  <2> DEFINE new == IF op # {} THEN op ELSE {made}
             ops == gitHost.ops \union new
  <2>1. gitHost' = [gitHost EXCEPT !.ops = ops] /\ AnswerOrLose(k, "none", new)
    BY <1>6 DEF CarryOut
  <2>2. made \in Operation /\ OpSound(made)
    <3>1. ExecuteSound(m) /\ m.nonce \in Nat /\ m.text \in Words
      BY <1>1, <1>6 DEF WireSound, WireMessage
    <3>2. made \in Operation /\ made.nonce = m.nonce /\ made.text = m.text /\ made.state = "Running"
      BY <3>1 DEF Operation, OpStates
    <3> HIDE DEF made
    <3> QED BY <3>1, <3>2 DEF ExecuteSound, OpSound
  <2>3. SamePlan(made, made, committed)
    BY <2>2 DEF SamePlan
  <2>4. \A x \in new : x \in Operation /\ OpSound(x) /\ SamePlan(x, x, committed)
    BY <1>1, <1>3, <2>2, <2>3
  <2>5. \A x \in ops : \E p \in Operation : SamePlan(x, p, committed)
    BY <1>3, <2>4
  <2> HIDE DEF new, ops
  <2>6. new \in SUBSET Operation
    BY <2>4
  <2> QED BY <1>2, <2>1, <2>4, <2>5, <2>6
<1>7. CASE m.tag = "Operations"
  <2>1. UNCHANGED gitHost /\ AnswerOrLose(k, "none", gitHost.ops)
    BY <1>7 DEF CarryOut
  <2> DEFINE ops == gitHost.ops
  <2>2. /\ gitHost' = [gitHost EXCEPT !.ops = ops] /\ ops \in SUBSET Operation
        /\ AnswerOrLose(k, "none", ops)
    BY <1>1, <1>4, <2>1
  <2>3. /\ \A x \in ops : \E p \in Operation : SamePlan(x, p, committed)
        /\ \A x \in ops : OpSound(x)
    BY <1>1, <1>3
  <2> DEFINE told == ops
  <2>4. told \in SUBSET Operation /\ (\A x \in told : OpSound(x)) /\ AnswerOrLose(k, "none", told)
    BY <2>2, <2>3
  <2> HIDE DEF ops, told, m, op, made
  <2> QED BY <1>2, <2>2, <2>3, <2>4
<1>8. CASE m.tag \notin {"Submit", "Job", "Execute", "Operations"}
  <2>1. PICK o \in op : /\ gitHost' = [gitHost EXCEPT !.ops = (@ \ {o}) \union {Operated(m, o)}]
                        /\ AnswerOrLose(k, "none", {Operated(m, o)})
    BY <1>8 DEF CarryOut
  <2> DEFINE ops == (gitHost.ops \ {o}) \union {Operated(m, o)}
  <2>2. SamePlan(Operated(m, o), o, committed) /\ o \in Operation
    BY <1>3, OperatedFacts
  <2>3. Operated(m, o) \in Operation /\ OpSound(Operated(m, o))
    BY <2>2, SameOperation DEF SamePlan
  <2>4. \A x \in ops : \E p \in Operation : SamePlan(x, p, committed)
    BY <1>3, <2>2
  <2>5. gitHost' = [gitHost EXCEPT !.ops = ops]
    BY <2>1
  <2> DEFINE told == {Operated(m, o)}
  <2>6. told \in SUBSET Operation /\ (\A x \in told : OpSound(x)) /\ AnswerOrLose(k, "none", told)
    BY <2>1, <2>3
  <2> HIDE DEF ops, told, m, op, made
  <2> QED BY <1>2, <2>4, <2>5, <2>6
<1> QED BY <1>5, <1>6, <1>7, <1>8

\* The worker serves the first request.
LEMMA ServeKeeps == ASSUME GitInv, Serve PROVE GitInv'
<1> DEFINE k == FirstUnanswered
<1>1. /\ gitHost \in [id : Nat, ops : SUBSET Operation] /\ gitWorker \in [host : Nat, failed : BOOLEAN]
      /\ wire \in Seq(WireMessage)
  BY DEF GitInv, GitTypes
<1>2. k \in DOMAIN wire
  BY <1>1, FirstIsUnanswered DEF Serve, Unanswered
<1>3. UNCHANGED <<gitUi, confirmed>>
  BY DEF Serve
<1>4. \/ /\ AnswerGit(k, [host |-> gitHost.id, failed |-> FALSE], "ok", "none", {})
         /\ UNCHANGED <<gitHost, committed>>
      \/ \E failed \in BOOLEAN : AnswerRefused(k, failed)
      \/ CarryOut(k, wire[k]) /\ UNCHANGED committed
  BY DEF Serve
<1> HIDE DEF k
<1>5. CASE /\ AnswerGit(k, [host |-> gitHost.id, failed |-> FALSE], "ok", "none", {})
           /\ UNCHANGED <<gitHost, committed>>
  <2>1. [host |-> gitHost.id, failed |-> FALSE] \in [host : Nat, failed : BOOLEAN]
    BY <1>1
  <2> QED BY <1>2, <1>3, <1>5, <2>1, PlainAnswerKeeps
<1>6. ASSUME NEW failed \in BOOLEAN, AnswerRefused(k, failed)
      PROVE  GitInv'
  <2>1. [gitWorker EXCEPT !.failed = @ \/ failed] \in [host : Nat, failed : BOOLEAN]
    <3>1. (gitWorker.failed \/ failed) \in BOOLEAN
      BY Zenon
    <3> QED BY <1>1, <3>1
  <2>2. /\ AnswerGit(k, [gitWorker EXCEPT !.failed = @ \/ failed], "refused", "none", {})
        /\ UNCHANGED <<gitHost, committed>>
    BY <1>6 DEF AnswerRefused
  <2> QED BY <1>2, <1>3, <2>1, <2>2, PlainAnswerKeeps
<1>7. CASE CarryOut(k, wire[k]) /\ UNCHANGED committed
  BY <1>2, <1>3, <1>7, CarryingOutKeeps
<1> QED BY <1>4, <1>5, <1>6, <1>7

-----------------------------------------------------------------------------
(* Answers about questions                                                 *)

\* The question that is answered leaves the others.
LEMMA OneSettled ==
  ASSUME GitInv, NEW i \in intents
  PROVE  /\ Cardinality(intents \ {i}) = repo.busy - 1
         /\ \A j \in intents \ {i} : j.nonce # i.nonce
         /\ Waiting(i.nonce) => \A j \in intents \ {i} : ~Waiting(j.nonce)
         /\ \A j \in intents \ {i} : j.nonce \in cancelled => j.nonce \in cancelled \ {i.nonce}
         /\ i \in Intent
<1>1. /\ IsFiniteSet(intents) /\ repo.busy = Cardinality(intents)
      /\ \A j, k \in intents : j.nonce = k.nonce => j = k
  BY DEF GitInv, QuestionsSound, BusyMatches
<1>2. Cardinality(intents \ {i}) = repo.busy - 1
  BY <1>1, FS_RemoveElement
<1>3. i \in Intent
  BY DEF GitInv, GitTypes
<1>4. \A j \in intents \ {i} : j.nonce # i.nonce
  BY <1>1
<1> QED BY <1>2, <1>3, <1>4 DEF Waiting

\* What the answers about questions keep.
SettledFrame ==
  /\ wire # << >> /\ wire' = Rest
  /\ UNCHANGED <<gitHost, gitWorker, seen, next, messages, known, operation, confirmed, committed>>

\* Question i is settled with the view r and the dialog d.
LEMMA SettlingKeeps ==
  ASSUME GitInv, SettledFrame, NEW i \in intents, NEW r \in Repo, NEW d \in Dialog,
         r.busy = repo.busy - 1, r.draft = repo.draft, repo' = r, dialog' = d,
         intents' = intents \ {i}, cancelled' \in {cancelled, cancelled \ {i.nonce}},
         \/ d = dialog
         \/ /\ Waiting(i.nonce) /\ d.kind # "Waiting" /\ (d.kind = "Plan" => d.nonce = i.nonce)
            /\ d.text = IF d.kind = "CommitReview" THEN i.text ELSE 0
  PROVE  GitInv'
<1>1. operation \in Operation /\ OpSound(operation) /\ QuestionSound(i)
  BY DEF GitInv, GitTypes, OpsSound, QuestionsSound
<1>2. WiresSound(Rest) /\ wire' = Rest
  BY WireFacts DEF SettledFrame
<1>3. r.busy = Cardinality(intents') /\ intents' \subseteq intents
  BY OneSettled
<1>4. \A j \in intents' : j.nonce \in cancelled => j.nonce \in cancelled'
  BY OneSettled
<1>5. \/ d = dialog
      \/ /\ d.kind # "Waiting" /\ \A j \in intents' : ~Waiting(j.nonce)
         /\ d.kind = "Plan" => \E j \in intents \ intents' : j.nonce = d.nonce
         /\ IF d.kind = "CommitReview" THEN dialog.kind = "Waiting" /\ d.text = dialog.text
            ELSE d.text = 0
  <2>1. CASE d = dialog
    BY <2>1
  <2>2. CASE d # dialog
    <3>1. Waiting(i.nonce) /\ dialog.kind = "Waiting" /\ i.text = dialog.text
      BY <1>1, <2>2 DEF QuestionSound, Waiting
    <3>2. \A j \in intents' : ~Waiting(j.nonce)
      BY <3>1, OneSettled
    <3>3. i \in intents \ intents'
      OBVIOUS
    <3> QED BY <2>2, <3>1, <3>2, <3>3
  <2> QED BY <2>1, <2>2
<1> QED BY <1>1, <1>2, <1>3, <1>4, <1>5, QuietKeeps DEF SettledFrame

\* It has failed.
LEMMA FailingKeeps ==
  ASSUME GitInv, SettledFrame, NEW i \in intents, Fails(i)
  PROVE  GitInv'
<1> DEFINE r == [Settled(repo) EXCEPT !.error = TRUE]
           kind == IF i.purpose = "CommitReview" THEN "Message" ELSE "none"
           d == [kind |-> kind, nonce |-> 0, text |-> 0]
<1>1. r \in Repo /\ r.busy = repo.busy - 1 /\ r.draft = repo.draft /\ dialog \in Dialog
  BY RepoFacts DEF GitInv, GitTypes
<1>2. d \in Dialog /\ d.kind \notin {"Waiting", "Plan", "CommitReview"} /\ d.text = 0
  BY DEF Dialog, Words
<1>3. /\ repo' = r /\ intents' = intents \ {i} /\ cancelled' = cancelled \ {i.nonce}
      /\ dialog' = IF ~Waiting(i.nonce) THEN dialog ELSE d
  BY DEF Fails, NoDialog
<1> HIDE DEF r, d
<1>4. CASE Waiting(i.nonce)
  BY <1>1, <1>2, <1>3, <1>4, SettlingKeeps
<1>5. CASE ~Waiting(i.nonce)
  BY <1>1, <1>3, <1>5, SettlingKeeps
<1> QED BY <1>4, <1>5

\* Answers that settle a question and ask nothing else.
LEMMA SettlingAnswersKeep ==
  ASSUME GitInv, StaleAnswer \/ JobFails \/ AnswerGivenUp \/ ReviewArrives
  PROVE  GitInv'
<1>1. /\ repo \in Repo /\ dialog \in Dialog
      /\ Settled(repo) \in Repo /\ Settled(repo).busy = repo.busy - 1 /\ Settled(repo).draft = repo.draft
      /\ Fine \in Repo /\ Fine.busy = repo.busy - 1 /\ Fine.draft = repo.draft
  BY RepoFacts DEF GitInv, GitTypes, Fine
<1>2. SettledFrame /\ Asked \subseteq intents
  BY DEF StaleAnswer, JobFails, AnswerGivenUp, ReviewArrives, SettledFrame, Answered, Arrived,
         OthersKept, gitHistory, Asked
<1>3. CASE StaleAnswer \/ AnswerGivenUp
  <2>1. PICK i \in intents : /\ intents' = intents \ {i} /\ cancelled' = cancelled \ {i.nonce}
                             /\ repo' = Settled(repo) /\ dialog' = dialog
    BY <1>2, <1>3 DEF StaleAnswer, AnswerGivenUp, SettledStale
  <2> QED BY <1>1, <1>2, <2>1, SettlingKeeps
<1>4. CASE JobFails
  <2>1. PICK i \in intents : Fails(i)
    BY <1>2, <1>4 DEF JobFails
  <2> QED BY <1>2, <2>1, FailingKeeps
<1>5. CASE ReviewArrives
  <2>1. PICK i \in intents :
          /\ intents' = intents \ {i} /\ repo' = Fine /\ cancelled' = cancelled
          /\ dialog' = IF ~Waiting(i.nonce) THEN dialog
                       ELSE IF i.purpose = "ReviewPlan"
                         THEN [kind |-> "Plan", nonce |-> i.nonce, text |-> 0]
                       ELSE [kind |-> "CommitReview", nonce |-> 0, text |-> i.text]
    BY <1>2, <1>5 DEF ReviewArrives, Taken
  <2>2. i.nonce \in Nat /\ i.text \in Words
    BY OneSettled DEF Intent
  <2>3. /\ [kind |-> "Plan", nonce |-> i.nonce, text |-> 0] \in Dialog
        /\ [kind |-> "CommitReview", nonce |-> 0, text |-> i.text] \in Dialog
    BY <2>2 DEF Dialog, Words
  <2>4. CASE ~Waiting(i.nonce)
    BY <1>1, <1>2, <2>1, <2>4, SettlingKeeps
  <2>5. CASE Waiting(i.nonce)
    <3>1. /\ dialog' \in Dialog /\ dialog'.kind # "Waiting"
          /\ (dialog'.kind = "Plan" => dialog'.nonce = i.nonce)
          /\ dialog'.text = IF dialog'.kind = "CommitReview" THEN i.text ELSE 0
      BY <2>1, <2>3, <2>5
    <3> QED BY <1>1, <1>2, <2>1, <2>5, <3>1, SettlingKeeps
  <2> QED BY <2>4, <2>5
<1> QED BY <1>3, <1>4, <1>5

\* A refused request takes the UI offline.
LEMMA RefusalKeeps == ASSUME GitInv, RequestFails PROVE GitInv'
<1>1. SettledFrame /\ Asked \subseteq intents
  BY DEF RequestFails, SettledFrame, Arrived, gitHistory, Asked
<1>2. CASE \E i \in Asked : Fails(i)
  BY <1>1, <1>2, FailingKeeps
<1>3. CASE UNCHANGED <<intents, cancelled, repo, dialog>>
  <2>1. /\ repo \in Repo /\ dialog \in Dialog /\ repo.busy = Cardinality(intents)
        /\ operation \in Operation /\ OpSound(operation) /\ WiresSound(Rest)
    BY <1>1, WireFacts DEF GitInv, GitTypes, OpsSound, QuestionsSound, BusyMatches, SettledFrame
  <2> QED BY <1>1, <1>3, <2>1, QuietKeeps DEF SettledFrame
<1> QED BY <1>2, <1>3 DEF RequestFails

\* A plan that was confirmed is made, and executed at once.
LEMMA PlanArrivalKeeps == ASSUME GitInv, PlanArrives PROVE GitInv'
<1>1. /\ repo \in Repo /\ dialog \in Dialog /\ confirmed \subseteq Nat /\ OpsSound /\ DialogSound
      /\ Fine \in Repo /\ Fine.busy = repo.busy - 1 /\ Fine.draft = repo.draft
      /\ \A i \in intents : QuestionSound(i)
  BY RepoFacts DEF GitInv, GitTypes, QuestionsSound, Fine
<1>2. PICK i \in intents :
        /\ i.purpose = "ExecutePlan" /\ i.nonce \notin cancelled
        /\ intents' = intents \ {i} /\ Execute(i.nonce, i.text, messages, Rest)
        /\ dialog' = IF Waiting(i.nonce) THEN NoDialog ELSE dialog
  BY DEF PlanArrives, Taken, Asked, GivenUp
<1>3. /\ wire # << >> /\ repo' = Fine /\ UNCHANGED <<next, cancelled>>
      /\ UNCHANGED <<gitHost, gitWorker, seen, known, operation, confirmed, committed>>
  BY DEF PlanArrives, Answered, Arrived, OthersKept, gitHistory
<1>4. i.nonce \in Nat \ {0} /\ i.nonce <= next /\ i.text \in Words /\ i.nonce \in confirmed
      /\ (i.text # 0 => Waiting(i.nonce) /\ i.text = dialog.text)
  BY <1>1, <1>2, OneSettled DEF QuestionSound, Intent
<1>5. /\ \A m \in messages : m.nonce # i.nonce
      /\ ~(dialog.kind = "Plan" /\ dialog.nonce = i.nonce)
  BY <1>1 DEF OpsSound, DialogSound, Fresh
<1>6. /\ wire' = Append(Rest, Message("Execute", i.nonce, i.text)) /\ WiresSound(Rest)
      /\ messages' = IF i.text = 0 THEN messages
                     ELSE messages \union {[nonce |-> i.nonce, text |-> repo.draft]}
  BY <1>2, <1>3, WireFacts DEF Execute
<1>7. \/ messages' = messages
      \/ /\ messages' = messages \union {[nonce |-> i.nonce, text |-> repo.draft]}
         /\ repo.draft \in {0, i.text} /\ \E j \in intents : j.nonce = i.nonce
  <2>1. i.text # 0 => repo.draft \in {0, i.text}
    BY <1>1, <1>4 DEF DialogSound, Waiting
  <2> QED BY <1>6, <2>1
<1>8. /\ Fine.busy = Cardinality(intents') /\ intents' \subseteq intents
      /\ \A j \in intents' : j.nonce # i.nonce
      /\ Waiting(i.nonce) => \A j \in intents' : ~Waiting(j.nonce)
  BY <1>1, <1>2, OneSettled
<1>9. NoDialog \in Dialog /\ NoDialog.kind = "none"
  BY DEF NoDialog, Dialog, Words
<1> DEFINE d == IF Waiting(i.nonce) THEN NoDialog ELSE dialog
<1>10. d \in Dialog /\ ~(d.kind \in {"Waiting", "Plan"} /\ d.nonce = i.nonce)
       /\ (d = dialog \/ (d = NoDialog /\ \A j \in intents' : ~Waiting(j.nonce)))
  BY <1>1, <1>5, <1>8, <1>9 DEF Waiting
<1> HIDE DEF d
<1>11. SendsPlan(i.nonce, i.text, Fine, Rest, d)
  BY <1>1, <1>2, <1>3, <1>4, <1>5, <1>6, <1>7, <1>8, <1>10 DEF SendsPlan, d
<1> QED BY <1>11, PlanSendingKeeps

\* Something read, which may ask on.
LEMMA ReadingKeeps ==
  ASSUME GitInv, wire # << >>, NEW i \in intents, NEW r \in Repo, NEW more \in {"none", "Status", "Diff"},
         r.busy = repo.busy - 1, r.draft = repo.draft, ReadOn(i, r, more), more \in Purposes \union {"none"},
         UNCHANGED <<gitHost, gitWorker, seen, dialog, cancelled, messages, known, operation,
                     confirmed, committed>>
  PROVE  GitInv'
<1>1. /\ dialog \in Dialog /\ operation \in Operation /\ OpSound(operation) /\ seen \in Nat
      /\ confirmed \subseteq Nat /\ WiresSound(Rest) /\ r.busy = Cardinality(intents \ {i})
  BY WireFacts, OneSettled DEF GitInv, GitTypes, OpsSound
<1>2. CASE Ask(r, intents \ {i}, Rest, more, 0) /\ more # "none"
  <2>1. 0 \in Words /\ more # "ExecutePlan" /\ more \in Purposes
    BY <1>2 DEF Words
  <2>2. AskFrame(r, intents \ {i}, Rest, more, 0)
    BY <1>1, <1>2, <2>1 DEF AskFrame
  <2> QED BY <2>2, AskKeeps
<1>3. CASE repo' = r /\ intents' = intents \ {i} /\ wire' = Rest /\ UNCHANGED next
  BY <1>1, <1>3, SettlingKeeps DEF SettledFrame
<1> QED BY <1>2, <1>3 DEF ReadOn

\* A repository, its changes or a page has been read.
LEMMA ReadArrivalKeeps == ASSUME GitInv, ReadArrives PROVE GitInv'
<1>1. /\ wire # << >> /\ Asked \subseteq intents
      /\ UNCHANGED <<gitHost, gitWorker, seen, dialog, cancelled, messages, known, operation,
                     confirmed, committed>>
  BY DEF ReadArrives, Answered, Arrived, OthersKept, gitHistory, Asked
<1>2. PICK i \in intents :
        CASE i.purpose = "Open" ->
               ReadOn(i, [Fine EXCEPT !.context = i.nonce, !.status = FALSE], "Status")
          [] i.purpose = "Status" ->
               i.purpose \in Topics
               /\ ReadOn(i, [Fine EXCEPT !.status = TRUE], IF repo.page = "Diff" THEN "Diff" ELSE "none")
          [] OTHER -> ReadOn(i, Fine, "none")
  BY <1>1 DEF ReadArrives, Taken
<1>3. i.nonce \in Nat
  BY OneSettled DEF Intent
<1>4. /\ repo \in Repo /\ Fine \in Repo /\ Fine.busy = repo.busy - 1 /\ Fine.draft = repo.draft
  BY RepoFacts DEF GitInv, GitTypes, Fine
<1>5. CASE i.purpose = "Open"
  <2> DEFINE r == [Fine EXCEPT !.context = i.nonce, !.status = FALSE]
  <2>1. r \in Repo /\ r.busy = repo.busy - 1 /\ r.draft = repo.draft
    BY <1>3, RepoFacts DEF GitInv
  <2>2. ReadOn(i, r, "Status") /\ "Status" \in Purposes
    BY <1>2, <1>5 DEF Purposes, Topics
  <2> HIDE DEF r
  <2> QED BY <1>1, <2>1, <2>2, ReadingKeeps
<1>6. CASE i.purpose = "Status"
  <2> DEFINE r == [Fine EXCEPT !.status = TRUE]
             more == IF repo.page = "Diff" THEN "Diff" ELSE "none"
  <2>1. r \in Repo /\ r.busy = repo.busy - 1 /\ r.draft = repo.draft
    BY <1>3, RepoFacts DEF GitInv
  <2>2. ReadOn(i, r, more)
    BY <1>2, <1>6
  <2>3. more \in {"none", "Status", "Diff"} /\ more \in Purposes \union {"none"}
    BY <1>4 DEF Repo, Purposes, Topics
  <2> HIDE DEF r, more
  <2> QED BY <1>1, <2>1, <2>2, <2>3, ReadingKeeps
<1>7. CASE i.purpose \notin {"Open", "Status"}
  <2>1. ReadOn(i, Fine, "none")
    BY <1>2, <1>7
  <2> QED BY <1>1, <1>4, <2>1, ReadingKeeps
<1> QED BY <1>5, <1>6, <1>7

\* The question goes on as a job.
LEMMA PendingKeeps == ASSUME GitInv, StillPending PROVE GitInv'
<1>1. /\ GitTypes /\ OpsSound /\ QuestionsSound /\ DialogSound /\ next \in Nat
      /\ IsFiniteSet(intents) /\ repo.busy = Cardinality(intents) /\ intents \subseteq Intent
      /\ \A i, j \in intents : i.nonce = j.nonce => i = j
      /\ \A i \in intents : QuestionSound(i)
  BY DEF GitInv, GitTypes, QuestionsSound, BusyMatches
<1>2. PICK a \in intents : Asked = {a}
  BY <1>1 DEF StillPending, Answered, Asked
<1> DEFINE b == [a EXCEPT !.job = TRUE]
<1>3. b \in Intent /\ b.nonce = a.nonce /\ b.purpose = a.purpose /\ b.text = a.text
  BY <1>1 DEF Intent
<1>4. intents' = (intents \ {a}) \union {b}
  BY <1>2 DEF StillPending
<1>5. /\ wire # << >> /\ wire' = Rest /\ UNCHANGED <<repo, next, dialog, cancelled, messages>>
      /\ UNCHANGED <<gitHost, gitWorker, seen, known, operation, confirmed, committed>>
  BY DEF StillPending, Answered, Arrived, OthersKept, gitHistory
<1> HIDE DEF b
<1>6. b \notin intents \ {a} /\ \A i \in intents \ {a} : i.nonce # b.nonce
  BY <1>1, <1>3
<1>7. Calm
  BY <1>1, <1>3, <1>4, <1>5 DEF Calm
<1>8. GitTypes'
  BY <1>1, <1>3, <1>4, <1>5, WireFacts DEF GitTypes, WiresSound
<1>9. OpsSound'
  <2>1. \A o \in Operation : OpSound(o) => OpSound(o)'
    BY <1>1, <1>7, CalmKeeps
  <2>2. (\A k \in DOMAIN wire : WireSound(wire[k]))'
    BY <1>5, <1>7, WireFacts, WiresKept
  <2>3. \A o \in gitHost'.ops : o \in Operation /\ OpSound(o)'
    BY <1>1, <1>5, <2>1 DEF GitTypes, OpsSound
  <2>4. \A o \in known' : o \in Operation /\ OpSound(o)
    BY <1>1, <1>5 DEF GitTypes, OpsSound
  <2>5. operation' \in Operation /\ OpSound(operation)'
    BY <1>1, <1>5, <2>1 DEF GitTypes, OpsSound
  <2>6. \A m \in messages' : m \in messages
    BY <1>5
  <2> QED BY <1>7, <2>2, <2>3, <2>4, <2>5, <2>6, OpsKept
<1>10. QuestionsSound'
  <2>1. \A i : QuestionSound(i) => QuestionSound(i)'
    BY <1>5 DEF QuestionSound, Waiting
  <2>2. QuestionSound(b)'
    <3>1. QuestionSound(b)
      BY <1>1, <1>3 DEF QuestionSound
    <3> QED BY <1>5, <3>1 DEF QuestionSound, Waiting
  <2>3. IsFiniteSet(intents \ {a}) /\ Cardinality(intents \ {a}) = repo.busy - 1
    BY <1>1, OneSettled, FS_Subset
  <2>4. IsFiniteSet(intents') /\ Cardinality(intents') = repo.busy - 1 + 1
    BY <1>4, <1>6, <2>3, FS_AddElement
  <2>5. repo.busy \in Int
    BY <1>1 DEF GitTypes, Repo
  <2>6. BusyMatches'
    BY <1>5, <2>4, <2>5 DEF BusyMatches
  <2>7. (\A i, j \in intents : i.nonce = j.nonce => i = j)'
    BY <1>1, <1>4, <1>6
  <2>8. (\A i \in intents : QuestionSound(i))'
    BY <1>1, <1>4, <2>1, <2>2
  <2> QED BY <2>4, <2>6, <2>7, <2>8 DEF QuestionsSound
<1>11. DialogSound'
  BY <1>1, <1>3, <1>4, <1>5 DEF DialogSound, Fresh
<1> QED BY <1>8, <1>9, <1>10, <1>11 DEF GitInv

\* A connection made again, to this host or to another.
LEMMA ConnectionKeeps == ASSUME GitInv, GitConnected PROVE GitInv'
<1> DEFINE r == IF HostChanged THEN [repo EXCEPT !.context = 0, !.status = FALSE, !.busy = 0,
                                                 !.error = TRUE]
                ELSE repo
           is == IF HostChanged THEN {} ELSE intents
<1>1. /\ repo \in Repo /\ dialog \in Dialog /\ operation \in Operation /\ OpSound(operation)
      /\ confirmed \subseteq Nat /\ repo.busy = Cardinality(intents)
      /\ committed \subseteq Texts /\ known \subseteq Operation /\ \A o \in known : OpSound(o)
      /\ gitHost \in [id : Nat, ops : SUBSET Operation] /\ \A o \in gitHost.ops : OpSound(o)
      /\ gitWorker \in [host : Nat, failed : BOOLEAN]
  BY DEF GitInv, GitTypes, OpsSound, QuestionsSound, BusyMatches
<1>2. /\ wire # << >> /\ seen' = Reply.from
      /\ \/ Ask(r, is, Rest, "Open", 0)
         \/ repo' = r /\ intents' = is /\ wire' = Rest /\ UNCHANGED next
      /\ UNCHANGED <<gitHost, gitWorker, dialog, confirmed, committed>>
  BY DEF GitConnected, Arrived, gitHistory
<1>3. WiresSound(Rest) /\ seen' \in Nat
  BY <1>2, WireFacts DEF WireMessage
<1>4. r \in Repo /\ r.busy = Cardinality(is) /\ r.draft = repo.draft /\ is \subseteq intents
  <2>1. CASE HostChanged
    BY <2>1, RepoFacts, FS_EmptySet DEF GitInv
  <2>2. CASE ~HostChanged
    BY <1>1, <2>2
  <2> QED BY <2>1, <2>2
<1>5. /\ messages' \subseteq messages /\ known' \subseteq known
      /\ \A i \in is : i.nonce \in cancelled => i.nonce \in cancelled'
      /\ operation' \in {operation, [operation EXCEPT !.state = "Unknown"]}
  BY DEF GitConnected
<1>6. operation' \in Operation /\ OpSound(operation')
  <2> DEFINE u == [operation EXCEPT !.state = "Unknown"]
  <2>1. u \in Operation /\ u.nonce = operation.nonce /\ u.text = operation.text /\ u.state = "Unknown"
    BY <1>1 DEF Operation, OpStates
  <2> HIDE DEF u
  <2>2. OpSound(u)
    BY <1>1, <2>1 DEF OpSound
  <2> QED BY <1>1, <1>5, <2>1, <2>2 DEF u
<1> HIDE DEF r, is
<1>7. CASE Ask(r, is, Rest, "Open", 0)
  <2>1. "Open" \in Purposes /\ 0 \in Words
    BY DEF Purposes, Topics, Words
  <2>2. AskFrame(r, is, Rest, "Open", 0)
    BY <1>1, <1>2, <1>3, <1>4, <1>5, <1>6, <1>7, <2>1 DEF AskFrame
  <2> QED BY <2>2, AskKeeps
<1>8. CASE repo' = r /\ intents' = is /\ wire' = Rest /\ UNCHANGED next
  <2>1. \A o \in gitHost'.ops :
          OpSound([o EXCEPT !.state = "Running"]) /\ (o.state = "Succeeded" /\ o.text # 0 => o.text \in committed')
    BY <1>1, <1>2, OperatedFacts, SameOperation
  <2>2. Settles(r, Rest, dialog)
    BY <1>1, <1>2, <1>3, <1>4, <1>5, <1>6, <1>8, <2>1 DEF Settles
  <2> QED BY <2>2, SettlesKeeps
<1> QED BY <1>2, <1>7, <1>8

\* Answers about operations: the draft goes with what was committed.
LEMMA OperationAnswersKeep ==
  ASSUME GitInv, Executed \/ Attached \/ OperationRead \/ OperationsListed
  PROVE  GitInv'
<1>1. /\ repo \in Repo /\ dialog \in Dialog /\ operation \in Operation /\ OpSound(operation)
      /\ seen \in Nat /\ repo.busy = Cardinality(intents) /\ known \subseteq Operation
      /\ committed \subseteq Texts /\ \A o \in known : OpSound(o)
      /\ gitHost \in [id : Nat, ops : SUBSET Operation] /\ \A o \in gitHost.ops : OpSound(o)
      /\ gitWorker \in [host : Nat, failed : BOOLEAN]
  BY DEF GitInv, GitTypes, OpsSound, QuestionsSound, BusyMatches
<1>2. /\ wire # << >>
      /\ UNCHANGED <<gitHost, gitWorker, seen, intents, next, dialog, cancelled, confirmed, committed>>
  BY DEF Executed, Attached, OperationRead, OperationsListed, ToldOf, Arrived, OthersSame, gitHistory
<1>3. WiresSound(Rest) /\ \A o \in Reply.ops : o \in Operation /\ OpSound(o)
  BY <1>2, WireFacts DEF WireMessage, WireSound
<1>4. CASE Executed \/ Attached
  <2>1. PICK o \in Reply.ops :
          operation' = o /\ wire' \in {Rest, Append(Rest, Message("Attached", o.nonce, 0))}
    BY <1>4 DEF Executed, Attached
  <2>2. UNCHANGED <<repo, messages, known>>
    BY <1>4 DEF Executed, Attached
  <2>3. o.nonce \in Nat /\ 0 \in Words /\ "Attached" \in WireTags /\ "Attached" # "Execute"
    BY <1>3 DEF Operation, Words, WireTags, Tags
  <2>4. LET m == Message("Attached", o.nonce, 0) IN m \in WireMessage /\ WireSound(m)
    BY <2>3, MessageSound DEF GitInv
  <2>5. WiresSound(Append(Rest, Message("Attached", o.nonce, 0)))
    BY <1>3, <2>4, WireFacts
  <2>6. WiresSound(wire')
    BY <1>3, <2>1, <2>5
  <2> QED BY <1>1, <1>2, <1>3, <2>1, <2>2, <2>6, QuietKeeps
<1>5. CASE OperationRead \/ OperationsListed
  <2>1. /\ wire' = Rest /\ messages' \subseteq messages
        /\ repo' = repo \/ \E draft \in {0, repo.draft} : repo' = [repo EXCEPT !.draft = draft]
        /\ known' = known \/ known' = Reply.ops
        /\ operation' = operation \/ operation' \in Reply.ops
    BY <1>5 DEF OperationRead, OperationsListed, Note
  <2>2. 0 \in Words /\ repo.draft \in Words
    BY <1>1 DEF Words, Repo
  <2>3. repo' \in Repo /\ repo'.busy = repo.busy /\ repo'.draft \in {0, repo.draft}
    <3>1. ASSUME NEW draft \in Words, NEW r, r = [repo EXCEPT !.draft = draft]
          PROVE  r \in Repo /\ r.busy = repo.busy /\ r.draft = draft
      BY <1>1, <3>1 DEF Repo
    <3>2. repo' = repo \/ \E draft \in {0, repo.draft} : repo' = [repo EXCEPT !.draft = draft]
      BY <2>1
    <3>3. CASE repo' = repo
      BY <1>1, <3>3
    <3>4. ASSUME NEW draft \in {0, repo.draft}, repo' = [repo EXCEPT !.draft = draft]
          PROVE  repo' \in Repo /\ repo'.busy = repo.busy /\ repo'.draft \in {0, repo.draft}
      <4>1. draft \in Words
        BY <2>2
      <4> QED BY <3>1, <3>4, <4>1
    <3> QED BY <3>2, <3>3, <3>4
  <2>4. \A o \in gitHost'.ops :
          OpSound([o EXCEPT !.state = "Running"]) /\ (o.state = "Succeeded" /\ o.text # 0 => o.text \in committed')
    BY <1>1, <1>2, OperatedFacts, SameOperation
  <2>5. known' \subseteq Operation /\ \A o \in known' : OpSound(o)
    BY <1>1, <1>3, <2>1
  <2>6. operation' \in Operation /\ OpSound(operation')
    BY <1>1, <1>3, <2>1
  <2>7. Settles(repo', Rest, dialog)
    BY <1>1, <1>2, <1>3, <2>1, <2>3, <2>4, <2>5, <2>6 DEF Settles
  <2> QED BY <2>7, SettlesKeeps
<1> QED BY <1>4, <1>5

-----------------------------------------------------------------------------
(* The theorems about the Git tab                                          *)

\* Nothing has been asked when the UI has connected.
LEMMA GitStart == GitInit => GitInv
<1> SUFFICES ASSUME GitInit PROVE GitInv
  OBVIOUS
<1>1. /\ wire = << >> /\ intents = {} /\ messages = {} /\ known = {} /\ confirmed = {} /\ committed = {}
      /\ next = 0 /\ seen = 1 /\ repo = FreshRepo(0) /\ dialog = NoDialog /\ operation = NoOperation
      /\ gitHost = [id |-> 1, ops |-> {}] /\ gitWorker = [host |-> 1, failed |-> FALSE]
  BY DEF GitInit
<1>2. NoOperation \in Operation /\ NoOperation.state = "none" /\ NoOperation.nonce = 0
  BY DEF NoOperation, Operation, OpStates, Words
<1>3. NoDialog \in Dialog /\ NoDialog.kind = "none" /\ NoDialog.text = 0
  BY DEF NoDialog, Dialog, Words
<1>4. FreshRepo(0) \in Repo /\ FreshRepo(0).busy = 0
  BY DEF FreshRepo, Repo, Words
<1>5. GitTypes
  <2>1. << >> \in Seq(WireMessage)
    OBVIOUS
  <2> QED BY <1>1, <1>2, <1>3, <1>4, <2>1 DEF GitTypes
<1>6. OpSound(NoOperation)
  BY <1>1, <1>2 DEF OpSound, Fresh
<1>7. OpsSound
  BY <1>1, <1>6 DEF OpsSound
<1>8. QuestionsSound
  BY <1>1, <1>4, FS_EmptySet DEF QuestionsSound, BusyMatches
<1>9. DialogSound
  BY <1>1, <1>3 DEF DialogSound
<1> QED BY <1>5, <1>7, <1>8, <1>9 DEF GitInv

\* Every step of the Git tab keeps its invariant.
LEMMA GitStepKeeps == ASSUME GitInv, [GitNext]_gitVars PROVE GitInv'
<1>1. CASE GitDrain
  <2>1. CASE StaleAnswer \/ JobFails \/ AnswerGivenUp \/ ReviewArrives
    BY <2>1, SettlingAnswersKeep
  <2>2. CASE Executed \/ Attached \/ OperationRead \/ OperationsListed
    BY <2>2, OperationAnswersKeep
  <2>3. CASE RequestFails \/ GitConnected \/ StillPending \/ ReadArrives \/ PlanArrives
    BY <2>3, RefusalKeeps, ConnectionKeeps, PendingKeeps, ReadArrivalKeeps, PlanArrivalKeeps
  <2> QED BY <1>1, <2>1, <2>2, <2>3 DEF GitDrain
<1>2. CASE Key \/ Tick
  BY <1>2, KeyKeeps, TickKeeps
<1>3. CASE Serve \/ EndOperation \/ OperationTakenOver \/ HostReplaced
  BY <1>3, ServeKeeps, HostKeeps
<1>4. CASE UNCHANGED gitVars
  <2>1. /\ repo \in Repo /\ dialog \in Dialog /\ repo.busy = Cardinality(intents)
        /\ operation \in Operation /\ OpSound(operation) /\ WiresSound(wire)
    BY WireFacts DEF GitInv, GitTypes, OpsSound, QuestionsSound, BusyMatches
  <2> QED BY <1>4, <2>1, QuietKeeps DEF gitVars, gitUi, gitHistory
<1> QED BY <1>1, <1>2, <1>3, <1>4 DEF GitNext

\* The invariant of the Git tab.
THEOREM GitInvariance == GitSpec => []GitInv
<1>1. GitInit => GitInv
  BY GitStart
<1>2. GitInv /\ [GitNext]_gitVars => GitInv'
  BY GitStepKeeps
<1> QED BY <1>1, <1>2, PTL DEF GitSpec

\* Every plan on its way to be executed was confirmed by the user and not
\* given up with Esc while it was made (execute_git_plan, git.rs:590).
THEOREM OnlyConfirmedPlansExecuted == GitSpec => []ExecutedWasConfirmed
<1>1. GitInv => ExecutedWasConfirmed
  BY DEF GitInv, OpsSound, WireSound, ExecuteSound, ExecutedWasConfirmed
<1> QED BY <1>1, GitInvariance, PTL

\* The repository counts as busy exactly for the questions not answered
\* (git_request and accept_git_reply): its changes go on being read.
THEOREM BusyAlwaysMatches == GitSpec => []BusyMatches
<1>1. GitInv => BusyMatches
  BY DEF GitInv, QuestionsSound
<1> QED BY <1>1, GitInvariance, PTL

\* Only the news of operations clears the draft.
LEMMA DraftCarried ==
  ASSUME GitInv, [GitNext]_gitVars
  PROVE  repo'.draft = repo.draft \/ repo'.draft # 0 \/ OperationRead \/ OperationsListed
<1>1. /\ GitTypes /\ repo \in Repo /\ 0 \in Nat
      /\ Settled(repo) \in Repo /\ Settled(repo).draft = repo.draft
      /\ Fine \in Repo /\ Fine.draft = repo.draft
  BY RepoFacts DEF GitInv, GitTypes, Fine
<1>2. ASSUME NEW r \in Repo, NEW is, NEW w, NEW purpose, NEW text, Ask(r, is, w, purpose, text)
      PROVE  repo'.draft = r.draft
  BY <1>2 DEF Ask, Repo
<1>3. /\ LET r == [repo EXCEPT !.error = FALSE] IN r \in Repo /\ r.draft = repo.draft
      /\ LET r == [repo EXCEPT !.page = "Changes"] IN r \in Repo /\ r.draft = repo.draft
      /\ LET r == [Settled(repo) EXCEPT !.error = TRUE] IN r \in Repo /\ r.draft = repo.draft
      /\ LET r == [Fine EXCEPT !.status = TRUE] IN r \in Repo /\ r.draft = repo.draft
      /\ LET r == [repo EXCEPT !.context = 0, !.status = FALSE, !.busy = 0, !.error = TRUE]
         IN r \in Repo /\ r.draft = repo.draft
  BY <1>1, RepoFacts
<1>4. \A n \in Nat : LET r == [Fine EXCEPT !.context = n, !.status = FALSE]
                     IN r \in Repo /\ r.draft = repo.draft
  BY <1>1, RepoFacts
<1>5. CASE Key
  <2>1. CASE \/ ConfirmPlan \/ ActOnOperation \/ Escape \/ CancelOperation
             \/ \E kind \in {"Message", "Branch", "Remote", "Operations"} : OpenDialog(kind)
    BY <2>1 DEF ConfirmPlan, ActOnOperation, Escape, CancelOperation, OpenDialog, gitUi
  <2>2. CASE (\E p \in Pages : OpenPage(p)) \/ FileAction \/ ReviewAction \/ Proceed
    BY <1>1, <1>2, <2>2 DEF OpenPage, FileAction, ReviewAction, Proceed, Question
  <2>3. CASE Reopen
    BY <1>2, <1>3, <2>3 DEF Reopen
  <2>4. CASE BackToChanges
    BY <1>2, <1>3, <2>4 DEF BackToChanges
  <2>5. CASE LeaveOperation
    BY <1>2, <1>3, <2>5 DEF LeaveOperation
  <2>6. CASE Edit
    <3>1. PICK t \in Texts : repo' = [repo EXCEPT !.draft = t]
      BY <2>6 DEF Edit
    <3>2. repo'.draft = t
      BY <1>1, <3>1 DEF Repo
    <3> QED BY <3>2, TextsAssumption
  <2> QED BY <1>5, <2>1, <2>2, <2>3, <2>4, <2>5, <2>6 DEF Key
<1>6. CASE Tick
  <2>1. CASE AutoRefresh
    BY <1>1, <1>2, <2>1 DEF AutoRefresh, Question
  <2> QED BY <1>6, <2>1 DEF Tick, PollJob, PollOperation, gitUi
<1>7. CASE GitDrain
  <2>1. CASE StillPending \/ Executed \/ Attached
    BY <2>1 DEF StillPending, Executed, Attached
  <2>2. CASE StaleAnswer \/ AnswerGivenUp \/ ReviewArrives \/ PlanArrives
    BY <1>1, <2>2 DEF StaleAnswer, AnswerGivenUp, ReviewArrives, PlanArrives, SettledStale
  <2>3. CASE RequestFails \/ JobFails
    BY <1>3, <2>3 DEF RequestFails, JobFails, Fails
  <2>4. CASE GitConnected
    <3> DEFINE r == IF HostChanged THEN [repo EXCEPT !.context = 0, !.status = FALSE, !.busy = 0,
                                                     !.error = TRUE]
                    ELSE repo
               is == IF HostChanged THEN {} ELSE intents
    <3>1. Ask(r, is, Rest, "Open", 0) \/ repo' = r
      BY <2>4 DEF GitConnected
    <3>2. r \in Repo /\ r.draft = repo.draft
      BY <1>1, <1>3
    <3> HIDE DEF r, is
    <3> QED BY <1>2, <3>1, <3>2
  <2>5. CASE ReadArrives
    <3>1. ASSUME NEW i, NEW r \in Repo, r.draft = repo.draft, NEW more, ReadOn(i, r, more)
          PROVE  repo'.draft = repo.draft
      BY <1>2, <3>1 DEF ReadOn
    <3>2. PICK i \in intents :
            \/ ReadOn(i, [Fine EXCEPT !.context = i.nonce, !.status = FALSE], "Status")
            \/ ReadOn(i, [Fine EXCEPT !.status = TRUE], IF repo.page = "Diff" THEN "Diff" ELSE "none")
            \/ ReadOn(i, Fine, "none")
      BY <2>5 DEF ReadArrives, Taken, Asked
    <3>3. i.nonce \in Nat
      BY OneSettled DEF Intent
    <3> QED BY <1>1, <1>3, <1>4, <3>1, <3>2, <3>3
  <2> QED BY <1>7, <2>1, <2>2, <2>3, <2>4, <2>5 DEF GitDrain
<1>8. CASE Serve \/ EndOperation \/ OperationTakenOver \/ HostReplaced \/ UNCHANGED gitVars
  BY <1>8 DEF Serve, EndOperation, OperationTakenOver, HostReplaced, gitUi, gitVars
<1> QED BY <1>5, <1>6, <1>7, <1>8 DEF GitNext

\* A commit message is cleared only when a commit of just this text succeeded
\* (note_git_result, git.rs:756).
THEOREM DraftAlwaysKept == GitSpec => DraftKept
<1> DEFINE Kept == repo.draft # 0 /\ repo'.draft = 0 => repo.draft \in committed
<1>1. ASSUME GitInv, [GitNext]_gitVars, repo.draft # 0, repo'.draft = 0
      PROVE  repo.draft \in committed
  <2>1. repo \in Repo
    BY <1>1 DEF GitInv, GitTypes
  <2>2. ASSUME NEW ops, ops \subseteq Reply.ops, wire # << >>, Note(ops)
        PROVE  repo.draft \in committed
    <3>1. PICK o \in ops : \E m \in SentFor(o) : Clears(o, m)
      BY <1>1, <2>1, <2>2 DEF Note, Repo
    <3>2. PICK m \in messages : m.nonce = o.nonce /\ o.state = "Succeeded" /\ m.text = repo.draft
      BY <3>1 DEF SentFor, Clears
    <3>3. OpSound(o)
      BY <1>1, <2>2, <3>1, WireFacts DEF WireSound
    <3> QED BY <1>1, <3>2, <3>3 DEF OpSound
  <2>3. (OperationRead \/ OperationsListed) /\ wire # << >>
    BY <1>1, DraftCarried DEF OperationRead, OperationsListed, ToldOf, Arrived
  <2>4. repo' # repo
    BY <1>1
  <2>5. CASE OperationRead
    <3>1. PICK o \in Reply.ops : UNCHANGED repo \/ Note({o})
      BY <2>5 DEF OperationRead
    <3> QED BY <2>2, <2>3, <2>4, <3>1
  <2>6. CASE OperationsListed
    BY <2>2, <2>3, <2>6 DEF OperationsListed
  <2> QED BY <2>3, <2>5, <2>6
<1>2. GitInv /\ [GitNext]_gitVars => Kept
  BY <1>1
<1>3. GitSpec => [][Kept]_gitVars
  BY <1>2, GitInvariance, PTL DEF GitSpec
<1> QED BY <1>3 DEF DraftKept

\* What the user typed is neither torn nor lost (runtime.rs:112, git.rs:756).
THEOREM TypedAlwaysKept == RuntimeSpec /\ GitSpec => TypedIsKept
  BY GapsAlwaysSeen, DraftAlwaysKept DEF TypedIsKept

-----------------------------------------------------------------------------
(***************************************************************************)
(* Attaching.  A takeover asked for was confirmed, once each (Takeovers);  *)
(* and the last look or attachment of this visit that is under way is the  *)
(* one the key waits for, until the question it leads to (Waits).          *)
(***************************************************************************)

Asking == {"List", "RunAttachInfo", "Attached", "RunAttached", "Detach"}
IsSeq(w) == \E S : w \in Seq(S)

\* What a request has, and its answer still.
AskShape(m) == m.tag \in Asking /\ (m.tag # "List" => m.session \in Sessions)

Shaped(w) == IsSeq(w) /\ \A k \in DOMAIN w : AskShape(w[k])

Takes(m, s) == m.tag \in {"Attached", "RunAttached"} /\ m.session = s /\ m.about.takeover
Takeovers(w, s) == {k \in DOMAIN w : Takes(w[k], s)}

\* A look or an attachment that the user, who has moved n times, waits for.
Current(m, n) == m.tag \in {"RunAttachInfo", "RunAttached"} /\ m.about.moves = n
NoCurrent(w, n) == \A k \in DOMAIN w : ~Current(w[k], n)
LastCurrent(w, n, s) ==
  \E k \in DOMAIN w : /\ Current(w[k], n) /\ w[k].session = s
                      /\ \A l \in DOMAIN w : l > k => ~Current(w[l], n)

\* The last of them among the requests a and the answers b is about the
\* session s; or there is none, and s is asked about.
Waits(a, b, q, n, s) ==
  \/ LastCurrent(a, n, s)
  \/ NoCurrent(a, n) /\ LastCurrent(b, n, s)
  \/ NoCurrent(a, n) /\ NoCurrent(b, n) /\ q = [kind |-> "run", session |-> s]

AttachTypes ==
  /\ terminal \in [Sessions -> [owner : {Me, Other, Nobody}, epoch : Nat]]
  /\ Shaped(asks) /\ Shaped(answers)
  /\ moves \in Nat /\ agreed \in [Sessions -> Int]
  /\ inflight = Nothing \/ (inflight \in [session : Sessions, moves : Nat] /\ inflight.moves <= moves)
  /\ question = Nothing \/ question \in Questions
  /\ cut \in BOOLEAN

Confirmed == \A s \in Sessions : Cardinality(Takeovers(asks, s)) <= agreed[s]

AttachInv ==
  /\ AttachTypes /\ Confirmed
  /\ inflight # Nothing /\ inflight.moves = moves /\ ~cut =>
       Waits(asks, answers, question, moves, inflight.session)

\* A sequence with one element more, and without its first one.
LEMMA SeqSteps ==
  /\ \A w : IsSeq(w) => Len(w) \in Nat /\ DOMAIN w = 1..Len(w)
  /\ \A w, m : IsSeq(w) =>
       /\ IsSeq(Append(w, m)) /\ Len(Append(w, m)) = Len(w) + 1
       /\ \A k \in DOMAIN w : Append(w, m)[k] = w[k]
       /\ Append(w, m)[Len(w) + 1] = m
  /\ \A w : IsSeq(w) /\ w # << >> =>
       /\ IsSeq(Tail(w)) /\ Len(w) > 0 /\ Len(Tail(w)) = Len(w) - 1 /\ Head(w) = w[1]
       /\ \A k \in DOMAIN Tail(w) : Tail(w)[k] = w[k + 1]
<1>1. ASSUME NEW w, IsSeq(w)
      PROVE  Len(w) \in Nat /\ DOMAIN w = 1..Len(w)
  BY <1>1 DEF IsSeq
<1>2. ASSUME NEW w, NEW m, IsSeq(w)
      PROVE  /\ IsSeq(Append(w, m)) /\ Len(Append(w, m)) = Len(w) + 1
             /\ \A k \in DOMAIN w : Append(w, m)[k] = w[k]
             /\ Append(w, m)[Len(w) + 1] = m
  <2>1. PICK S : w \in Seq(S)
    BY <1>2 DEF IsSeq
  <2>2. w \in Seq(S \union {m})
    <3>1. \A k \in 1..Len(w) : w[k] \in S \union {m}
      BY <2>1
    <3> QED BY <2>1, <3>1
  <2>3. Append(w, m) \in Seq(S \union {m})
    BY <2>2
  <2> QED BY <2>2, <2>3 DEF IsSeq
<1>3. ASSUME NEW w, IsSeq(w), w # << >>
      PROVE  /\ IsSeq(Tail(w)) /\ Len(w) > 0 /\ Len(Tail(w)) = Len(w) - 1 /\ Head(w) = w[1]
             /\ \A k \in DOMAIN Tail(w) : Tail(w)[k] = w[k + 1]
  <2>1. PICK S : w \in Seq(S)
    BY <1>3 DEF IsSeq
  <2>2. Tail(w) \in Seq(S) /\ Len(w) > 0 /\ Len(Tail(w)) = Len(w) - 1 /\ Head(w) = w[1]
    BY <1>3, <2>1
  <2>3. \A k \in DOMAIN Tail(w) : Tail(w)[k] = w[k + 1]
    BY <1>3, <2>1
  <2> QED BY <2>2, <2>3 DEF IsSeq
<1> QED BY <1>1, <1>2, <1>3

\* Numbers of a set, each one less.
LEMMA ShiftedCount ==
  ASSUME NEW S \in SUBSET Nat, IsFiniteSet(S)
  PROVE  LET T == {k \in Nat : k + 1 \in S}
         IN IsFiniteSet(T) /\ (0 \notin S => Cardinality(T) = Cardinality(S))
<1> DEFINE T == {k \in Nat : k + 1 \in S}
           U == S \ {0}
           f == [k \in U |-> k - 1]
<1>1. IsFiniteSet(U) /\ (0 \notin S => U = S)
  BY FS_RemoveElement
<1>2. f \in Bijection(U, T)
  <2>1. f \in [U -> T]
    <3>1. ASSUME NEW k \in U
          PROVE  k - 1 \in T
      <4>1. k \in Nat /\ k # 0 /\ k - 1 \in Nat /\ (k - 1) + 1 = k
        OBVIOUS
      <4> QED BY <4>1
    <3> QED BY <3>1
  <2>2. \A k, l \in U : f[k] = f[l] => k = l
    <3>1. ASSUME NEW k \in U, NEW l \in U, f[k] = f[l]
          PROVE  k = l
      <4>1. k \in Nat /\ l \in Nat /\ k - 1 = l - 1
        BY <3>1
      <4> QED BY <4>1
    <3> QED BY <3>1
  <2>3. \A n \in T : \E k \in U : f[k] = n
    <3>1. ASSUME NEW n \in T
          PROVE  \E k \in U : f[k] = n
      <4>1. n \in Nat /\ n + 1 \in U /\ (n + 1) - 1 = n
        OBVIOUS
      <4> QED BY <4>1
    <3> QED BY <3>1
  <2> HIDE DEF f, T, U
  <2> QED BY <2>1, <2>2, <2>3, Fun_IsBij
<1>3. IsFiniteSet(T) /\ Cardinality(T) = Cardinality(U)
  BY <1>1, <1>2, FS_Bijection DEF ExistsBijection
<1> QED BY <1>1, <1>3

\* Takeovers asked for, after one request more and one served.
LEMMA TakeoverCounts ==
  ASSUME NEW w, IsSeq(w), NEW s
  PROVE  /\ IsFiniteSet(Takeovers(w, s)) /\ Cardinality(Takeovers(w, s)) \in Nat
         /\ \A m : Cardinality(Takeovers(Append(w, m), s)) =
                     IF Takes(m, s) THEN Cardinality(Takeovers(w, s)) + 1
                     ELSE Cardinality(Takeovers(w, s))
         /\ w # << >> =>
              Cardinality(Takeovers(Tail(w), s)) =
                IF Takes(Head(w), s) THEN Cardinality(Takeovers(w, s)) - 1
                ELSE Cardinality(Takeovers(w, s))
<1> DEFINE T == Takeovers(w, s)
<1>1. Len(w) \in Nat /\ DOMAIN w = 1..Len(w)
  BY SeqSteps
<1>2. IsFiniteSet(T) /\ T \subseteq 1..Len(w)
  <2>1. T \subseteq 1..Len(w)
    BY <1>1 DEF Takeovers
  <2>2. IsFiniteSet(1..Len(w))
    BY <1>1, FS_Interval
  <2> HIDE DEF T
  <2> QED BY <2>1, <2>2, FS_Subset
<1>3. ASSUME NEW m
      PROVE  Cardinality(Takeovers(Append(w, m), s)) = IF Takes(m, s) THEN Cardinality(T) + 1
                                                      ELSE Cardinality(T)
  <2> DEFINE n == Len(w) + 1
             v == Append(w, m)
  <2>1. /\ n \in Nat /\ DOMAIN v = 1..n /\ v[n] = m /\ \A k \in DOMAIN w : v[k] = w[k]
        /\ 1..n = (1..Len(w)) \union {n} /\ n \notin 1..Len(w)
    BY <1>1, SeqSteps
  <2> HIDE DEF n, v
  <2>2. Takeovers(v, s) = IF Takes(m, s) THEN T \union {n} ELSE T
    BY <1>1, <2>1 DEF Takeovers
  <2>3. n \notin T
    BY <1>2, <2>1
  <2>4. Cardinality(T \union {n}) = Cardinality(T) + 1
    BY <1>2, <2>3, FS_AddElement
  <2> QED BY <2>2, <2>4 DEF v
<1>4. ASSUME w # << >>
      PROVE  Cardinality(Takeovers(Tail(w), s)) = IF Takes(Head(w), s) THEN Cardinality(T) - 1
                                                 ELSE Cardinality(T)
  <2> DEFINE S == T \ {1}
  <2>1. /\ IsSeq(Tail(w)) /\ Len(w) > 0 /\ DOMAIN Tail(w) = 1..(Len(w) - 1) /\ Head(w) = w[1]
        /\ \A k \in DOMAIN Tail(w) : Tail(w)[k] = w[k + 1]
    BY <1>4, SeqSteps
  <2>2. 1 \in T <=> Takes(Head(w), s)
    BY <1>1, <2>1 DEF Takeovers
  <2>3. IsFiniteSet(S) /\ Cardinality(S) = IF Takes(Head(w), s) THEN Cardinality(T) - 1
                                           ELSE Cardinality(T)
    BY <1>2, <2>2, FS_RemoveElement
  <2>4. Takeovers(Tail(w), s) = {k \in Nat : k + 1 \in S}
    <3>1. ASSUME NEW k \in Takeovers(Tail(w), s)
          PROVE  k \in Nat /\ k + 1 \in S
      <4>1. k \in 1..(Len(w) - 1) /\ Takes(w[k + 1], s)
        BY <2>1, <3>1 DEF Takeovers
      <4>2. k \in Nat /\ k + 1 \in 1..Len(w) /\ k + 1 # 1
        BY <1>1, <4>1
      <4> QED BY <1>1, <4>1, <4>2 DEF Takeovers
    <3>2. ASSUME NEW k \in Nat, k + 1 \in S
          PROVE  k \in Takeovers(Tail(w), s)
      <4>1. k + 1 \in 1..Len(w) /\ k + 1 # 1 /\ Takes(w[k + 1], s)
        BY <1>1, <3>2 DEF Takeovers
      <4>2. k \in 1..(Len(w) - 1)
        BY <1>1, <4>1
      <4> QED BY <2>1, <4>1, <4>2 DEF Takeovers
    <3> QED BY <3>1, <3>2
  <2>5. S \in SUBSET Nat /\ 0 \notin S
    BY <1>2
  <2> HIDE DEF S, T
  <2> QED BY <2>3, <2>4, <2>5, ShiftedCount
<1>5. Cardinality(T) \in Nat
  BY <1>2, FS_CardinalityType
<1> QED BY <1>2, <1>3, <1>4, <1>5

\* The last one waited for, after one element more and without the first.
LEMMA CurrentSteps ==
  ASSUME NEW w, IsSeq(w), NEW n, NEW s
  PROVE  /\ \A m : ~Current(m, n) =>
              /\ NoCurrent(w, n) => NoCurrent(Append(w, m), n)
              /\ LastCurrent(w, n, s) => LastCurrent(Append(w, m), n, s)
         /\ \A m : Current(m, n) /\ m.session = s => LastCurrent(Append(w, m), n, s)
         /\ w # << >> =>
              /\ NoCurrent(w, n) => NoCurrent(Tail(w), n) /\ ~Current(Head(w), n)
              /\ LastCurrent(w, n, s) =>
                   \/ LastCurrent(Tail(w), n, s)
                   \/ NoCurrent(Tail(w), n) /\ Current(Head(w), n) /\ Head(w).session = s
<1>1. Len(w) \in Nat /\ DOMAIN w = 1..Len(w)
  BY SeqSteps
<1>2. ASSUME NEW m
      PROVE  /\ Len(w) + 1 \in DOMAIN Append(w, m) /\ Append(w, m)[Len(w) + 1] = m
             /\ \A k \in DOMAIN Append(w, m) : k \in DOMAIN w \/ k = Len(w) + 1
             /\ \A k \in DOMAIN w : /\ k \in DOMAIN Append(w, m) /\ Append(w, m)[k] = w[k]
                                    /\ k \in Nat /\ k < Len(w) + 1
  BY <1>1, SeqSteps
<1>3. ASSUME NEW m, ~Current(m, n), NoCurrent(w, n)
      PROVE  NoCurrent(Append(w, m), n)
  BY <1>2, <1>3 DEF NoCurrent
<1>4. ASSUME NEW m, ~Current(m, n), LastCurrent(w, n, s)
      PROVE  LastCurrent(Append(w, m), n, s)
  <2>1. PICK k \in DOMAIN w : /\ Current(w[k], n) /\ w[k].session = s
                              /\ \A l \in DOMAIN w : l > k => ~Current(w[l], n)
    BY <1>4 DEF LastCurrent
  <2>2. k \in DOMAIN Append(w, m) /\ Append(w, m)[k] = w[k]
    BY <1>2
  <2>3. \A l \in DOMAIN Append(w, m) : l > k => ~Current(Append(w, m)[l], n)
    BY <1>2, <1>4, <2>1
  <2> QED BY <2>1, <2>2, <2>3 DEF LastCurrent
<1>5. ASSUME NEW m, Current(m, n), m.session = s
      PROVE  LastCurrent(Append(w, m), n, s)
  <2>1. \A l \in DOMAIN Append(w, m) : ~(l > Len(w) + 1)
    BY <1>1, <1>2
  <2> QED BY <1>2, <1>5, <2>1 DEF LastCurrent
<1>6. ASSUME w # << >>
      PROVE  /\ NoCurrent(w, n) => NoCurrent(Tail(w), n) /\ ~Current(Head(w), n)
             /\ LastCurrent(w, n, s) =>
                  \/ LastCurrent(Tail(w), n, s)
                  \/ NoCurrent(Tail(w), n) /\ Current(Head(w), n) /\ Head(w).session = s
  <2>1. /\ DOMAIN Tail(w) = 1..(Len(w) - 1) /\ Head(w) = w[1] /\ 1 \in DOMAIN w
        /\ \A k \in DOMAIN Tail(w) : k \in Nat /\ k + 1 \in DOMAIN w /\ Tail(w)[k] = w[k + 1] /\ k + 1 > 1
        /\ \A k \in DOMAIN w : k \in Nat /\ (k = 1 \/ (k - 1 \in DOMAIN Tail(w) /\ (k - 1) + 1 = k))
    BY <1>1, <1>6, SeqSteps
  <2>2. NoCurrent(w, n) => NoCurrent(Tail(w), n) /\ ~Current(Head(w), n)
    BY <2>1 DEF NoCurrent
  <2>3. ASSUME LastCurrent(w, n, s)
        PROVE  \/ LastCurrent(Tail(w), n, s)
               \/ NoCurrent(Tail(w), n) /\ Current(Head(w), n) /\ Head(w).session = s
    <3>1. PICK k \in DOMAIN w : /\ Current(w[k], n) /\ w[k].session = s
                                /\ \A l \in DOMAIN w : l > k => ~Current(w[l], n)
      BY <2>3 DEF LastCurrent
    <3>2. CASE k = 1
      BY <2>1, <3>1, <3>2 DEF NoCurrent
    <3>3. CASE k # 1
      <4>1. k - 1 \in DOMAIN Tail(w) /\ Tail(w)[k - 1] = w[k]
        BY <2>1, <3>3
      <4>2. \A l \in DOMAIN Tail(w) : l > k - 1 => ~Current(Tail(w)[l], n)
        <5> TAKE l \in DOMAIN Tail(w)
        <5> HAVE l > k - 1
        <5>1. l + 1 > k /\ l + 1 \in DOMAIN w
          BY <2>1
        <5> QED BY <2>1, <3>1, <5>1
      <4> QED BY <3>1, <4>1, <4>2 DEF LastCurrent
    <3> QED BY <3>2, <3>3
  <2> QED BY <2>2, <2>3
<1> QED BY <1>3, <1>4, <1>5, <1>6

\* How what is waited for goes on.
LEMMA WaitingSteps ==
  ASSUME NEW a, NEW b, IsSeq(a), IsSeq(b), NEW q, NEW n, NEW s
  PROVE  /\ \A m : Waits(a, b, q, n, s) /\ ~Current(m, n) => Waits(Append(a, m), b, q, n, s)
         /\ \A m, p : Current(m, n) /\ m.session = s => Waits(Append(a, m), b, p, n, s)
         /\ \A m : /\ Waits(a, b, q, n, s) /\ a # << >> /\ m.session = Head(a).session
                   /\ Current(m, n) <=> Current(Head(a), n)
                   => Waits(Tail(a), Append(b, m), q, n, s)
         /\ \A p : /\ Waits(a, b, q, n, s) /\ b # << >>
                   /\ p = q \/ q # [kind |-> "run", session |-> s] \/ Current(Head(b), n)
                   => \/ Waits(a, Tail(b), p, n, s)
                      \/ /\ Current(Head(b), n) /\ Head(b).session = s
                         /\ NoCurrent(a, n) /\ NoCurrent(Tail(b), n)
         /\ \A p : Waits(a, b, q, n, s) /\ q # [kind |-> "run", session |-> s] => Waits(a, b, p, n, s)
<1>2. ASSUME NEW m, Waits(a, b, q, n, s), ~Current(m, n)
      PROVE  Waits(Append(a, m), b, q, n, s)
  BY <1>2, CurrentSteps DEF Waits
<1>3. ASSUME NEW m, NEW p, Current(m, n), m.session = s
      PROVE  Waits(Append(a, m), b, p, n, s)
  BY <1>3, CurrentSteps DEF Waits
<1>4. ASSUME NEW m, Waits(a, b, q, n, s), a # << >>, m.session = Head(a).session,
             Current(m, n) <=> Current(Head(a), n)
      PROVE  Waits(Tail(a), Append(b, m), q, n, s)
  <2>1. CASE LastCurrent(a, n, s)
    BY <1>4, <2>1, CurrentSteps DEF Waits
  <2>2. CASE NoCurrent(a, n)
    <3>1. NoCurrent(Tail(a), n) /\ ~Current(m, n)
      BY <1>4, <2>2, CurrentSteps
    <3>2. /\ LastCurrent(b, n, s) => LastCurrent(Append(b, m), n, s)
          /\ NoCurrent(b, n) => NoCurrent(Append(b, m), n)
      BY <3>1, CurrentSteps
    <3>3. LastCurrent(a, n, s) => FALSE
      BY <2>2 DEF LastCurrent, NoCurrent
    <3> QED BY <1>4, <3>1, <3>2, <3>3 DEF Waits
  <2> QED BY <1>4, <2>1, <2>2 DEF Waits
<1>5. ASSUME NEW p, Waits(a, b, q, n, s), b # << >>,
             p = q \/ q # [kind |-> "run", session |-> s] \/ Current(Head(b), n)
      PROVE  \/ Waits(a, Tail(b), p, n, s)
             \/ /\ Current(Head(b), n) /\ Head(b).session = s
                /\ NoCurrent(a, n) /\ NoCurrent(Tail(b), n)
  <2>1. /\ NoCurrent(b, n) => NoCurrent(Tail(b), n) /\ ~Current(Head(b), n)
        /\ LastCurrent(b, n, s) =>
             \/ LastCurrent(Tail(b), n, s)
             \/ NoCurrent(Tail(b), n) /\ Current(Head(b), n) /\ Head(b).session = s
    BY <1>5, CurrentSteps
  <2> QED BY <1>5, <2>1 DEF Waits
<1>6. ASSUME NEW p, Waits(a, b, q, n, s), q # [kind |-> "run", session |-> s]
      PROVE  Waits(a, b, p, n, s)
  BY <1>6 DEF Waits
<1> QED BY <1>2, <1>3, <1>4, <1>5, <1>6

\* Requests and answers, one more and one less.
LEMMA ShapedSteps ==
  /\ \A w, m : Shaped(w) /\ AskShape(m) => Shaped(Append(w, m))
  /\ \A w : Shaped(w) /\ w # << >> => Shaped(Tail(w)) /\ AskShape(Head(w))
<1>1. ASSUME NEW w, NEW m, Shaped(w), AskShape(m)
      PROVE  Shaped(Append(w, m))
  <2>1. IsSeq(w) /\ Len(w) \in Nat /\ DOMAIN w = 1..Len(w) /\ \A k \in DOMAIN w : AskShape(w[k])
    BY <1>1, SeqSteps DEF Shaped
  <2>2. /\ IsSeq(Append(w, m)) /\ DOMAIN Append(w, m) = 1..(Len(w) + 1)
        /\ \A k \in DOMAIN w : Append(w, m)[k] = w[k]
        /\ Append(w, m)[Len(w) + 1] = m
    BY <2>1, SeqSteps
  <2>3. ASSUME NEW k \in DOMAIN Append(w, m)
        PROVE  AskShape(Append(w, m)[k])
    <3>1. k \in DOMAIN w \/ k = Len(w) + 1
      BY <2>1, <2>2
    <3> QED BY <1>1, <2>1, <2>2, <3>1
  <2> QED BY <2>2, <2>3 DEF Shaped
<1>2. ASSUME NEW w, Shaped(w), w # << >>
      PROVE  Shaped(Tail(w)) /\ AskShape(Head(w))
  <2>1. IsSeq(w) /\ Len(w) \in Nat /\ DOMAIN w = 1..Len(w) /\ \A k \in DOMAIN w : AskShape(w[k])
    BY <1>2, SeqSteps DEF Shaped
  <2>2. /\ IsSeq(Tail(w)) /\ Len(w) > 0 /\ DOMAIN Tail(w) = 1..(Len(w) - 1) /\ Head(w) = w[1]
        /\ \A k \in DOMAIN Tail(w) : Tail(w)[k] = w[k + 1]
    BY <1>2, <2>1, SeqSteps
  <2>3. \A k \in DOMAIN Tail(w) : k + 1 \in DOMAIN w
    BY <2>1, <2>2
  <2>4. 1 \in DOMAIN w
    BY <2>1, <2>2
  <2> QED BY <2>1, <2>2, <2>3, <2>4 DEF Shaped
<1> QED BY <1>1, <1>2

\* What the UI sends.
LEMMA SendingKeeps ==
  ASSUME AttachInv, (\E s \in Sessions : AttachRun(s) \/ OpenShell(s)) \/ ConfirmTakeover \/ Poll
  PROVE  AttachInv'
<1>1. /\ AttachTypes /\ Confirmed /\ IsSeq(asks) /\ IsSeq(answers) /\ moves \in Nat
      /\ agreed \in [Sessions -> Int]
  BY DEF AttachInv, AttachTypes, Shaped
<1>2. \A s \in Sessions : Nothing # [kind |-> "run", session |-> s]
  <2>1. \A s \in Sessions : [kind |-> "run", session |-> s] \in Questions
    BY DEF Questions
  <2> QED BY <2>1, NothingAssumption
<1>3. UNCHANGED <<terminal, answers, moves>>
  BY DEF AttachRun, OpenShell, ConfirmTakeover, Poll, attachUi
<1>4. ASSUME NEW s \in Sessions, NEW tag \in Asking, NEW about, Send(tag, s, about),
             agreed' = [agreed EXCEPT ![s] = @ + 1]
             \/ (agreed' = agreed /\ (tag \in {"Attached", "RunAttached"} => ~about.takeover))
      PROVE  Shaped(asks)' /\ Confirmed'
  <2> DEFINE m == [tag |-> tag, session |-> s, about |-> about]
  <2>1. asks' = Append(asks, m) /\ AskShape(m) /\ m.session = s /\ m.tag = tag /\ m.about = about
    BY <1>4 DEF Send, AskShape
  <2> HIDE DEF m
  <2>2. Shaped(Append(asks, m))
    BY <1>1, <2>1, ShapedSteps DEF AttachTypes
  <2>3. ASSUME NEW u \in Sessions
        PROVE  Cardinality(Takeovers(Append(asks, m), u)) <= agreed'[u]
    <3>1. /\ Cardinality(Takeovers(Append(asks, m), u)) =
               IF Takes(m, u) THEN Cardinality(Takeovers(asks, u)) + 1 ELSE Cardinality(Takeovers(asks, u))
          /\ Cardinality(Takeovers(asks, u)) \in Nat /\ agreed[u] \in Int
          /\ Cardinality(Takeovers(asks, u)) <= agreed[u]
      BY <1>1, TakeoverCounts DEF Confirmed
    <3>2. CASE Takes(m, u)
      <4>1. agreed'[u] = agreed[u] + 1
        BY <1>1, <1>4, <2>1, <3>2 DEF Takes
      <4> QED BY <3>1, <3>2, <4>1
    <3>3. CASE ~Takes(m, u)
      <4>1. agreed'[u] = agreed[u] \/ agreed'[u] = agreed[u] + 1
        BY <1>1, <1>4
      <4> QED BY <3>1, <3>3, <4>1
    <3> QED BY <3>2, <3>3
  <2>4. \A u \in Sessions : Cardinality(Takeovers(asks', u)) <= agreed'[u]
    BY <2>1, <2>3
  <2> QED BY <2>1, <2>2, <2>4 DEF Confirmed, Takeovers
<1>5. ASSUME Shaped(asks)', agreed' \in [Sessions -> Int],
             inflight' = Nothing \/ (inflight' \in [session : Sessions, moves : Nat] /\ inflight'.moves <= moves),
             question' = Nothing \/ question' \in Questions, cut' = FALSE \/ cut' = cut
      PROVE  AttachTypes'
  BY <1>1, <1>3, <1>5 DEF AttachTypes, Shaped
<1>6. ASSUME NEW s \in Sessions, AttachRun(s)
      PROVE  AttachInv'
  <2> DEFINE m == [tag |-> "RunAttachInfo", session |-> s, about |-> [moves |-> moves]]
  <2>1. /\ Send("RunAttachInfo", s, [moves |-> moves]) /\ asks' = Append(asks, m)
        /\ inflight' = [session |-> s, moves |-> moves]
        /\ cut' = FALSE /\ UNCHANGED <<question, agreed>>
    BY <1>6 DEF AttachRun, Send, Inflight
  <2>2. Shaped(asks)' /\ Confirmed'
    BY <1>4, <2>1 DEF Asking
  <2>3. AttachTypes'
    <3>1. /\ inflight' \in [session : Sessions, moves : Nat] /\ inflight'.moves <= moves
          /\ agreed' \in [Sessions -> Int]
      BY <1>1, <2>1
    <3>2. question' = Nothing \/ question' \in Questions
      BY <1>1, <2>1 DEF AttachTypes
    <3> QED BY <1>5, <2>1, <2>2, <3>1, <3>2
  <2>4. Current(m, moves) /\ m.session = s
    BY DEF Current
  <2> HIDE DEF m
  <2>5. Waits(Append(asks, m), answers, question, moves, s)
    BY <1>1, <2>4, WaitingSteps
  <2>6. inflight'.session = s
    BY <2>1
  <2> QED BY <1>3, <2>1, <2>2, <2>3, <2>5, <2>6 DEF AttachInv
<1>7. ASSUME NEW s \in Sessions, OpenShell(s)
      PROVE  AttachInv'
  <2>1. question = Nothing /\ UNCHANGED <<inflight, agreed, cut>>
    BY <1>7 DEF OpenShell, Controls
  <2>2. CASE question' = [kind |-> "shell", session |-> s] /\ UNCHANGED asks
    <3>1. AttachTypes' /\ Confirmed'
      <4>1. question' \in Questions
        BY <2>2 DEF Questions
      <4>2. AttachTypes'
        BY <1>1, <1>5, <2>1, <2>2, <4>1 DEF AttachTypes, Shaped
      <4> QED BY <1>1, <2>1, <2>2, <4>2 DEF Confirmed
    <3>2. ASSUME inflight # Nothing, inflight.moves = moves, ~cut
          PROVE  Waits(asks, answers, question', moves, inflight.session)
      <4>1. inflight.session \in Sessions
        BY <1>1, <3>2 DEF AttachTypes
      <4>2. Waits(asks, answers, question, moves, inflight.session)
        BY <3>2 DEF AttachInv
      <4>3. question # [kind |-> "run", session |-> inflight.session]
        BY <1>2, <2>1, <4>1
      <4> QED BY <1>1, <4>2, <4>3, WaitingSteps
    <3> QED BY <1>3, <2>1, <2>2, <3>1, <3>2 DEF AttachInv
  <2>3. CASE Send("Attached", s, [takeover |-> FALSE]) /\ UNCHANGED question
    <3> DEFINE m == [tag |-> "Attached", session |-> s, about |-> [takeover |-> FALSE]]
    <3>1. asks' = Append(asks, m) /\ ~Current(m, moves)
      BY <2>3 DEF Send, Current
    <3> HIDE DEF m
    <3>2. Shaped(asks)' /\ Confirmed'
      BY <1>4, <2>1, <2>3 DEF Asking
    <3>3. AttachTypes'
      BY <1>1, <1>5, <2>1, <2>3, <3>2 DEF AttachTypes
    <3>4. Waits(asks, answers, question, moves, inflight.session)
          => Waits(Append(asks, m), answers, question, moves, inflight.session)
      BY <1>1, <3>1, WaitingSteps
    <3> QED BY <1>3, <2>1, <2>3, <3>1, <3>2, <3>3, <3>4 DEF AttachInv
  <2> QED BY <1>7, <2>2, <2>3 DEF OpenShell
<1>8. ASSUME ConfirmTakeover
      PROVE  AttachInv'
  <2>1. PICK s : s \in Sessions /\ s = question.session
    BY <1>1, <1>8 DEF ConfirmTakeover, AttachTypes, Questions
  <2>2. question' = Nothing /\ agreed' = [agreed EXCEPT ![s] = @ + 1] /\ agreed' \in [Sessions -> Int]
    BY <1>1, <1>8, <2>1 DEF ConfirmTakeover
  <2>3. CASE /\ question.kind = "shell" /\ UNCHANGED <<inflight, cut>>
             /\ Send("Attached", s, [takeover |-> TRUE])
    <3> DEFINE m == [tag |-> "Attached", session |-> s, about |-> [takeover |-> TRUE]]
    <3>1. asks' = Append(asks, m) /\ ~Current(m, moves)
      BY <2>3 DEF Send, Current
    <3> HIDE DEF m
    <3>2. Shaped(asks)' /\ Confirmed'
      BY <1>4, <2>1, <2>2, <2>3 DEF Asking
    <3>3. AttachTypes'
      BY <1>1, <1>5, <2>2, <2>3, <3>2 DEF AttachTypes
    <3>4. ASSUME inflight # Nothing, inflight.moves = moves, ~cut
          PROVE  Waits(Append(asks, m), answers, Nothing, moves, inflight.session)
      <4>1. Waits(asks, answers, question, moves, inflight.session)
        BY <3>4 DEF AttachInv
      <4>2. question # [kind |-> "run", session |-> inflight.session]
        BY <2>3
      <4>3. Waits(asks, answers, Nothing, moves, inflight.session)
        BY <1>1, <4>1, <4>2, WaitingSteps
      <4> QED BY <1>1, <3>1, <4>3, WaitingSteps
    <3> QED BY <1>3, <2>2, <2>3, <3>1, <3>2, <3>3, <3>4 DEF AttachInv
  <2>4. CASE /\ Send("RunAttached", s, [takeover |-> TRUE, moves |-> moves])
             /\ inflight' = Inflight(s) /\ cut' = FALSE
    <3> DEFINE m == [tag |-> "RunAttached", session |-> s, about |-> [takeover |-> TRUE, moves |-> moves]]
    <3>1. /\ asks' = Append(asks, m) /\ Current(m, moves) /\ m.session = s
          /\ inflight' = [session |-> s, moves |-> moves]
      BY <2>4 DEF Send, Current, Inflight
    <3> HIDE DEF m
    <3>2. Shaped(asks)' /\ Confirmed'
      BY <1>4, <2>1, <2>2, <2>4 DEF Asking
    <3>3. AttachTypes'
      <4>1. inflight' \in [session : Sessions, moves : Nat] /\ inflight'.moves <= moves
        BY <1>1, <2>1, <3>1
      <4> QED BY <1>5, <2>2, <2>4, <3>2, <4>1
    <3>4. Waits(Append(asks, m), answers, Nothing, moves, s)
      BY <1>1, <3>1, WaitingSteps
    <3>5. inflight'.session = s
      BY <3>1
    <3> QED BY <1>3, <2>2, <3>1, <3>2, <3>3, <3>4, <3>5 DEF AttachInv
  <2> QED BY <1>8, <2>1, <2>3, <2>4 DEF ConfirmTakeover
<1>9. ASSUME Poll
      PROVE  AttachInv'
  <2> DEFINE m == [tag |-> "List", session |-> Nothing, about |-> Nothing]
  <2>1. /\ asks' = Append(asks, m) /\ ~Current(m, moves) /\ AskShape(m) /\ \A u : ~Takes(m, u)
        /\ UNCHANGED <<inflight, question, agreed, cut>>
    BY <1>9 DEF Poll, Send, Current, AskShape, Asking, Takes, attachUi
  <2> HIDE DEF m
  <2>2. Shaped(Append(asks, m))
    BY <1>1, <2>1, ShapedSteps DEF AttachTypes
  <2>3. AttachTypes'
    BY <1>1, <1>5, <2>1, <2>2 DEF AttachTypes, Shaped
  <2>4. Confirmed'
    <3>1. \A u \in Sessions : Cardinality(Takeovers(Append(asks, m), u)) = Cardinality(Takeovers(asks, u))
      BY <1>1, <2>1, TakeoverCounts
    <3> QED BY <1>1, <2>1, <3>1 DEF Confirmed
  <2>5. Waits(asks, answers, question, moves, inflight.session)
        => Waits(Append(asks, m), answers, question, moves, inflight.session)
    BY <1>1, <2>1, WaitingSteps
  <2> QED BY <1>3, <2>1, <2>3, <2>4, <2>5 DEF AttachInv
<1> QED BY <1>6, <1>7, <1>8, <1>9

\* What the user and the other client do without asking the host.
LEMMA MovingKeeps ==
  ASSUME AttachInv,
         \/ EscapeQuestion \/ AnotherDialog \/ Move \/ ToggleMenu \/ UNCHANGED attachVars
         \/ \E s \in Sessions : OtherAttaches(s) \/ OtherDetaches(s)
  PROVE  AttachInv'
<1>1. /\ AttachTypes /\ Confirmed /\ IsSeq(asks) /\ IsSeq(answers) /\ moves \in Nat
      /\ terminal \in [Sessions -> [owner : {Me, Other, Nobody}, epoch : Nat]]
  BY DEF AttachInv, AttachTypes, Shaped
<1>2. UNCHANGED <<asks, answers, agreed>>
  BY DEF EscapeQuestion, AnotherDialog, Move, ToggleMenu, OtherAttaches, OtherDetaches, attachVars, attachUi
<1>3. Confirmed'
  BY <1>1, <1>2 DEF Confirmed
<1>4. CASE \/ ToggleMenu \/ UNCHANGED attachVars
           \/ \E s \in Sessions : OtherAttaches(s) \/ OtherDetaches(s)
  <2>1. UNCHANGED <<moves, inflight, question, cut>>
    BY <1>4 DEF ToggleMenu, OtherAttaches, OtherDetaches, attachVars, attachUi
  <2>2. terminal' \in [Sessions -> [owner : {Me, Other, Nobody}, epoch : Nat]]
    <3>1. CASE ToggleMenu \/ UNCHANGED attachVars
      BY <1>1, <3>1 DEF ToggleMenu, attachVars
    <3>2. ASSUME NEW s \in Sessions, OtherAttaches(s) \/ OtherDetaches(s)
          PROVE  terminal' \in [Sessions -> [owner : {Me, Other, Nobody}, epoch : Nat]]
      <4>1. terminal[s].epoch + 1 \in Nat
        BY <1>1
      <4>2. CASE OtherAttaches(s)
        BY <1>1, <4>1, <4>2 DEF OtherAttaches
      <4>3. CASE OtherDetaches(s)
        BY <1>1, <4>1, <4>3 DEF OtherDetaches
      <4> QED BY <3>2, <4>2, <4>3
    <3> QED BY <1>4, <3>1, <3>2
  <2>3. AttachTypes'
    BY <1>1, <1>2, <2>1, <2>2 DEF AttachTypes, Shaped
  <2> QED BY <1>2, <1>3, <2>1, <2>3 DEF AttachInv
<1>5. CASE moves' = moves + 1 /\ inflight' \in {Nothing, inflight}
           /\ UNCHANGED <<terminal, cut>> /\ question' \in {Nothing, question}
  <2>1. AttachTypes'
    <3>1. moves' \in Nat /\ moves <= moves'
      BY <1>1, <1>5
    <3>2. inflight' = Nothing \/ (inflight' \in [session : Sessions, moves : Nat] /\ inflight'.moves <= moves')
      <4>1. CASE inflight' = Nothing
        BY <4>1
      <4>2. CASE inflight' = inflight /\ inflight # Nothing
        <5>1. inflight \in [session : Sessions, moves : Nat] /\ inflight.moves <= moves /\ inflight.moves \in Nat
          BY <1>1, <4>2 DEF AttachTypes
        <5> QED BY <1>1, <3>1, <4>2, <5>1
      <4> QED BY <1>5, <4>1, <4>2
    <3> QED BY <1>1, <1>2, <1>5, <3>1, <3>2 DEF AttachTypes, Shaped
  <2>2. ~(inflight' # Nothing /\ inflight'.moves = moves')
    <3>1. ASSUME inflight' # Nothing, inflight'.moves = moves'
          PROVE  FALSE
      <4>1. inflight' = inflight /\ inflight.moves <= moves /\ inflight.moves \in Nat
        BY <1>1, <1>5, <3>1 DEF AttachTypes
      <4> QED BY <1>1, <1>5, <3>1, <4>1
    <3> QED BY <3>1
  <2> QED BY <1>3, <2>1, <2>2 DEF AttachInv
<1>6. CASE EscapeQuestion /\ question.kind # "run" /\ UNCHANGED <<moves, inflight>>
  <2>1. question' = Nothing /\ UNCHANGED <<terminal, cut>>
    BY <1>6 DEF EscapeQuestion
  <2>2. AttachTypes'
    BY <1>1, <1>2, <1>6, <2>1 DEF AttachTypes, Shaped
  <2>3. question # [kind |-> "run", session |-> inflight.session]
    BY <1>6
  <2>4. Waits(asks, answers, question, moves, inflight.session)
        => Waits(asks, answers, Nothing, moves, inflight.session)
    BY <1>1, <2>3, WaitingSteps
  <2> QED BY <1>2, <1>3, <1>6, <2>1, <2>2, <2>4 DEF AttachInv
<1>7. CASE EscapeQuestion
  BY <1>5, <1>6, <1>7 DEF EscapeQuestion
<1>8. CASE Move
  BY <1>5, <1>8 DEF Move
<1>9. CASE AnotherDialog
  <2>1. /\ question' = [kind |-> "other", session |-> Nothing]
        /\ cut' = (cut \/ \E s \in Sessions : AskedFor(s))
        /\ UNCHANGED <<terminal, moves, inflight>>
    BY <1>9 DEF AnotherDialog
  <2>2. question' \in Questions
    BY <2>1 DEF Questions
  <2>3. AttachTypes'
    BY <1>1, <1>2, <2>1, <2>2 DEF AttachTypes, Shaped
  <2>4. ASSUME inflight # Nothing, inflight.moves = moves, ~cut'
        PROVE  Waits(asks, answers, question', moves, inflight.session)
    <3>1. inflight.session \in Sessions /\ inflight = Inflight(inflight.session)
      BY <1>1, <2>4 DEF AttachTypes, Inflight
    <3>2. question # [kind |-> "run", session |-> inflight.session]
      BY <2>1, <2>4, <3>1 DEF AskedFor
    <3>3. Waits(asks, answers, question, moves, inflight.session)
      BY <2>1, <2>4 DEF AttachInv
    <3> QED BY <1>1, <3>2, <3>3, WaitingSteps
  <2> QED BY <1>2, <1>3, <2>1, <2>3, <2>4 DEF AttachInv
<1> QED BY <1>4, <1>7, <1>8, <1>9

\* What the host answers: takeovers carried out are no longer agreed to.
LEMMA ServingKeeps ==
  ASSUME AttachInv, ServeTerminal
  PROVE  AttachInv'
<1> DEFINE job == Head(asks)
<1>1. /\ AttachTypes /\ Confirmed /\ IsSeq(asks) /\ IsSeq(answers) /\ moves \in Nat
      /\ terminal \in [Sessions -> [owner : {Me, Other, Nobody}, epoch : Nat]]
      /\ agreed \in [Sessions -> Int] /\ Shaped(asks) /\ Shaped(answers) /\ asks # << >>
  BY DEF AttachInv, AttachTypes, Shaped, ServeTerminal
<1>2. UNCHANGED <<moves, inflight, question, cut>>
  BY DEF ServeTerminal, attachUi
<1>3. Shaped(Tail(asks)) /\ AskShape(job)
  BY <1>1, ShapedSteps
<1>4. PICK ok, value : ReplyTo(job, ok, value)
  BY DEF ServeTerminal
<1> DEFINE m == [tag |-> job.tag, session |-> job.session, about |-> job.about,
                 ok |-> ok, value |-> value]
<1>5. /\ asks' = Tail(asks) /\ answers' = Append(answers, m)
      /\ m.tag = job.tag /\ m.session = job.session /\ m.about = job.about
  BY <1>4 DEF ReplyTo
<1>6. /\ \A s \in Sessions : agreed'[s] = IF Takes(job, s) THEN agreed[s] - 1 ELSE agreed[s]
      /\ agreed' \in [Sessions -> Int]
  <2>1. CASE /\ job.tag \in {"Attached", "RunAttached"}
             /\ agreed' = IF job.about.takeover THEN [agreed EXCEPT ![job.session] = @ - 1] ELSE agreed
    <3>1. job.session \in Sessions
      BY <1>3, <2>1 DEF AskShape
    <3>2. CASE job.about.takeover
      <4>1. agreed' = [agreed EXCEPT ![job.session] = agreed[job.session] - 1]
        BY <2>1, <3>2
      <4>2. \A s \in Sessions : Takes(job, s) <=> s = job.session
        BY <2>1, <3>2 DEF Takes
      <4>3. agreed[job.session] - 1 \in Int
        BY <1>1, <3>1
      <4> HIDE DEF job
      <4> QED BY <1>1, <3>1, <4>1, <4>2, <4>3
    <3>3. CASE ~job.about.takeover
      BY <1>1, <2>1, <3>3 DEF Takes
    <3> QED BY <3>2, <3>3
  <2>2. CASE job.tag \in {"List", "RunAttachInfo", "Detach"} /\ UNCHANGED agreed
    <3>1. \A s : ~Takes(job, s)
      BY <2>2 DEF Takes
    <3> QED BY <1>1, <2>2, <3>1
  <2>3. CASE /\ job.tag \in {"Attached", "RunAttached"} /\ UNCHANGED agreed
             /\ ~MayAttach(terminal[job.session], job.about.takeover)
    <3>1. \A s : ~Takes(job, s)
      BY <2>3 DEF Takes, MayAttach
    <3> QED BY <1>1, <2>3, <3>1
  <2> QED BY <2>1, <2>2, <2>3 DEF ServeTerminal
<1>7. terminal' \in [Sessions -> [owner : {Me, Other, Nobody}, epoch : Nat]]
  <2>1. CASE UNCHANGED terminal
    BY <1>1, <2>1
  <2>2. CASE /\ job.tag \in {"Attached", "RunAttached"}
             /\ terminal' = [terminal EXCEPT ![job.session] = AfterAttach(@)]
    <3>1. job.session \in Sessions
      BY <1>3, <2>2 DEF AskShape
    <3>2. AfterAttach(terminal[job.session]) \in [owner : {Me, Other, Nobody}, epoch : Nat]
      <4>1. /\ terminal[job.session] \in [owner : {Me, Other, Nobody}, epoch : Nat]
            /\ terminal[job.session].epoch + 1 \in Nat
        BY <1>1, <3>1
      <4> QED BY <4>1 DEF AfterAttach
    <3> HIDE DEF job
    <3> QED BY <1>1, <2>2, <3>1, <3>2
  <2>3. CASE /\ job.tag = "Detach"
             /\ terminal' = [terminal EXCEPT ![job.session] = [owner |-> Nobody, epoch |-> @.epoch + 1]]
    <3>1. job.session \in Sessions
      BY <1>3, <2>3 DEF AskShape
    <3>2. [owner |-> Nobody, epoch |-> terminal[job.session].epoch + 1]
            \in [owner : {Me, Other, Nobody}, epoch : Nat]
      <4>1. terminal[job.session].epoch + 1 \in Nat
        BY <1>1, <3>1
      <4> QED BY <4>1
    <3> HIDE DEF job
    <3> QED BY <1>1, <2>3, <3>1, <3>2
  <2> QED BY <2>1, <2>2, <2>3 DEF ServeTerminal
<1>8. Shaped(answers)' /\ Shaped(asks)'
  <2>1. AskShape(m)
    BY <1>3, <1>5 DEF AskShape
  <2> HIDE DEF m
  <2>2. Shaped(Append(answers, m))
    BY <1>1, <2>1, ShapedSteps
  <2> QED BY <1>3, <1>5, <2>2 DEF Shaped
<1>9. AttachTypes'
  BY <1>1, <1>2, <1>6, <1>7, <1>8 DEF AttachTypes, Shaped
<1>10. Confirmed'
  <2>1. ASSUME NEW s \in Sessions
        PROVE  Cardinality(Takeovers(Tail(asks), s)) <= agreed'[s]
    <3>1. /\ Cardinality(Takeovers(Tail(asks), s)) =
               IF Takes(job, s) THEN Cardinality(Takeovers(asks, s)) - 1 ELSE Cardinality(Takeovers(asks, s))
          /\ Cardinality(Takeovers(asks, s)) \in Nat /\ agreed[s] \in Int
          /\ Cardinality(Takeovers(asks, s)) <= agreed[s]
      BY <1>1, TakeoverCounts DEF Confirmed
    <3> HIDE DEF job
    <3>2. CASE Takes(job, s)
      BY <1>6, <3>1, <3>2
    <3>3. CASE ~Takes(job, s)
      BY <1>6, <3>1, <3>3
    <3> QED BY <3>2, <3>3
  <2> QED BY <1>5, <2>1 DEF Confirmed
<1>11. Waits(asks, answers, question, moves, inflight.session)
       => Waits(Tail(asks), Append(answers, m), question, moves, inflight.session)
  <2>1. Current(m, moves) <=> Current(Head(asks), moves)
    BY <1>5 DEF Current
  <2>2. m.session = Head(asks).session
    BY <1>5
  <2> HIDE DEF m
  <2> QED BY <1>1, <2>1, <2>2, WaitingSteps
<1> QED BY <1>2, <1>5, <1>9, <1>10, <1>11 DEF AttachInv

\* What an answer means for what is waited for.
LEMMA AnswersKeep ==
  ASSUME AttachInv,
         Listed \/ Reviewed \/ ShellShown \/ RunShown \/ Failed \/ Acknowledged
  PROVE  AttachInv'
<1> DEFINE reply == Head(answers)
<1>1. /\ AttachTypes /\ Confirmed /\ IsSeq(asks) /\ IsSeq(answers) /\ moves \in Nat
      /\ terminal \in [Sessions -> [owner : {Me, Other, Nobody}, epoch : Nat]]
      /\ agreed \in [Sessions -> Int] /\ Shaped(asks) /\ Shaped(answers)
  BY DEF AttachInv, AttachTypes, Shaped
<1>2. UNCHANGED <<terminal, moves, agreed>> /\ answers # << >> /\ answers' = Tail(answers)
  BY DEF Listed, Reviewed, ShellShown, RunShown, Failed, Acknowledged, NextAnswer
<1>3. Shaped(Tail(answers)) /\ AskShape(reply) /\ IsSeq(Tail(answers))
  BY <1>1, <1>2, ShapedSteps DEF Shaped
<1>4. ASSUME Shaped(asks'),
             \/ inflight' \in {Nothing, inflight}
             \/ (inflight' \in [session : Sessions, moves : Nat] /\ inflight'.moves = moves),
             question' = question \/ question' \in Questions, cut' \in BOOLEAN
      PROVE  AttachTypes'
  <2>1. inflight' = Nothing \/ (inflight' \in [session : Sessions, moves : Nat] /\ inflight'.moves <= moves)
    BY <1>1, <1>4 DEF AttachTypes
  <2> QED BY <1>1, <1>2, <1>3, <1>4, <2>1 DEF AttachTypes, Shaped
<1>5. ASSUME NEW s
      PROVE  /\ Waits(asks, answers, question, moves, s) /\ ~Current(reply, moves)
                => Waits(asks, Tail(answers), question, moves, s)
             /\ \A p : Waits(asks, answers, question, moves, s) /\ Current(reply, moves)
                => \/ Waits(asks, Tail(answers), p, moves, s)
                   \/ reply.session = s /\ NoCurrent(asks, moves) /\ NoCurrent(Tail(answers), moves)
  <2>1. \A p : /\ Waits(asks, answers, question, moves, s)
               /\ p = question \/ Current(reply, moves)
               => \/ Waits(asks, Tail(answers), p, moves, s)
                  \/ /\ Current(reply, moves) /\ reply.session = s
                     /\ NoCurrent(asks, moves) /\ NoCurrent(Tail(answers), moves)
    BY <1>1, <1>2, WaitingSteps
  <2> HIDE DEF reply
  <2> QED BY <2>1
<1>6. CASE ~Current(reply, moves) /\ UNCHANGED <<asks, question, cut>> /\ inflight' \in {Nothing, inflight}
  <2>1. AttachTypes'
    BY <1>1, <1>4, <1>6 DEF AttachTypes
  <2>2. Confirmed'
    BY <1>1, <1>2, <1>6 DEF Confirmed
  <2>3. ASSUME inflight' # Nothing, inflight'.moves = moves, ~cut
        PROVE  Waits(asks, Tail(answers), question, moves, inflight'.session)
    <3>1. inflight' = inflight
      BY <1>6, <2>3
    <3>2. Waits(asks, answers, question, moves, inflight.session)
      BY <2>3, <3>1 DEF AttachInv
    <3> HIDE DEF reply
    <3> QED BY <1>5, <1>6, <3>1, <3>2
  <2> QED BY <1>2, <1>6, <2>1, <2>2, <2>3 DEF AttachInv
<1>7. CASE Listed \/ ShellShown \/ Acknowledged
  BY <1>6, <1>7 DEF Listed, ShellShown, Acknowledged, NextAnswer, Current
<1>8. CASE Failed
  <2>1. CASE reply.tag \in {"RunAttached", "RunAttachInfo"}
    <3>1. inflight' = Nothing /\ UNCHANGED <<asks, question, cut>>
      BY <1>8, <2>1 DEF Failed, AfterFailure
    <3>2. AttachTypes' /\ Confirmed'
      BY <1>1, <1>2, <1>4, <3>1 DEF Confirmed, AttachTypes
    <3> QED BY <3>1, <3>2 DEF AttachInv
  <2>2. CASE reply.tag \notin {"RunAttached", "RunAttachInfo"}
    BY <1>6, <1>8, <2>2 DEF Failed, AfterFailure, Current
  <2> QED BY <2>1, <2>2
<1>9. CASE Reviewed
  <2>1. reply.tag = "RunAttachInfo" /\ reply.session \in Sessions
    BY <1>3, <1>9 DEF Reviewed, NextAnswer, AskShape
  <2> DEFINE s == reply.session
  <2>2. CASE reply.about.moves # moves
    BY <1>6, <1>9, <2>2 DEF Reviewed, Current
  <2>3. CASE /\ reply.about.moves = moves /\ question' = [kind |-> "run", session |-> s]
             /\ UNCHANGED <<asks, inflight, cut>>
    <3>1. Current(reply, moves)
      BY <2>1, <2>3 DEF Current
    <3>2. question' \in Questions
      BY <2>1, <2>3 DEF Questions
    <3>3. AttachTypes' /\ Confirmed'
      BY <1>1, <1>2, <1>4, <2>3, <3>2 DEF Confirmed, AttachTypes
    <3>4. ASSUME inflight # Nothing, inflight.moves = moves, ~cut
          PROVE  Waits(asks, Tail(answers), question', moves, inflight.session)
      <4>1. Waits(asks, answers, question, moves, inflight.session)
        BY <3>4 DEF AttachInv
      <4>2. \/ Waits(asks, Tail(answers), question', moves, inflight.session)
            \/ /\ s = inflight.session
               /\ NoCurrent(asks, moves) /\ NoCurrent(Tail(answers), moves)
        BY <1>5, <3>1, <4>1
      <4> HIDE DEF s
      <4> QED BY <2>3, <4>2 DEF Waits
    <3> QED BY <1>2, <2>3, <3>3, <3>4 DEF AttachInv
  <2>4. CASE reply.about.moves = moves /\ AttachSeen(s) /\ inflight' = Inflight(s) /\ UNCHANGED question
             /\ cut' = FALSE
    <3> DEFINE m == [tag |-> "RunAttached", session |-> s, about |-> [takeover |-> FALSE, moves |-> moves]]
    <3>1. /\ asks' = Append(asks, m) /\ Current(m, moves) /\ m.session = s
          /\ AskShape(m) /\ \A u : ~Takes(m, u)
      BY <2>1, <2>4 DEF AttachSeen, Send, Current, AskShape, Asking, Takes
    <3>2. inflight' = [session |-> s, moves |-> moves]
      BY <2>4 DEF Inflight
    <3>3. inflight' \in [session : Sessions, moves : Nat] /\ inflight'.moves = moves /\ inflight'.session = s
      BY <1>1, <2>1, <3>2
    <3> HIDE DEF m, s
    <3>4. Shaped(Append(asks, m))
      BY <1>1, <3>1, ShapedSteps
    <3>5. AttachTypes'
      BY <1>4, <2>4, <3>1, <3>3, <3>4
    <3>6. \A u \in Sessions : Cardinality(Takeovers(Append(asks, m), u)) = Cardinality(Takeovers(asks, u))
      BY <1>1, <3>1, TakeoverCounts
    <3>7. Confirmed'
      BY <1>1, <1>2, <3>1, <3>6 DEF Confirmed
    <3>8. Waits(Append(asks, m), Tail(answers), question, moves, s)
      BY <1>1, <1>3, <3>1, WaitingSteps
    <3> QED BY <1>2, <2>4, <3>1, <3>3, <3>5, <3>7, <3>8 DEF AttachInv
  <2>5. CASE /\ reply.about.moves = moves /\ UNCHANGED <<asks, inflight, question>>
             /\ cut' = (cut \/ inflight = Inflight(s))
    <3>1. Current(reply, moves)
      BY <2>1, <2>5 DEF Current
    <3>2. cut' \in BOOLEAN
      BY <2>5
    <3>3. AttachTypes' /\ Confirmed'
      BY <1>1, <1>2, <1>4, <2>5, <3>2 DEF Confirmed, AttachTypes
    <3>4. ASSUME inflight # Nothing, inflight.moves = moves, ~cut'
          PROVE  Waits(asks, Tail(answers), question, moves, inflight.session)
      <4>1. Waits(asks, answers, question, moves, inflight.session)
        BY <2>5, <3>4 DEF AttachInv
      <4>2. inflight # Inflight(s)
        BY <2>5, <3>4
      <4>3. s # inflight.session
        BY <1>1, <3>4, <4>2 DEF AttachTypes, Inflight
      <4> QED BY <1>5, <3>1, <4>1, <4>3
    <3> QED BY <1>2, <2>5, <3>3, <3>4 DEF AttachInv
  <2> QED BY <1>9, <2>2, <2>3, <2>4, <2>5 DEF Reviewed
<1>10. CASE RunShown
  <2>1. /\ reply.tag = "RunAttached" /\ reply.session \in Sessions /\ UNCHANGED <<question, cut>>
        /\ inflight' = IF inflight = [session |-> reply.session, moves |-> reply.about.moves]
                         THEN Nothing ELSE inflight
    BY <1>3, <1>10 DEF RunShown, NextAnswer, AskShape
  <2>2. CASE reply.about.moves # moves /\ Send("Detach", reply.session, [epoch |-> reply.value.epoch])
    <3> DEFINE m == [tag |-> "Detach", session |-> reply.session, about |-> [epoch |-> reply.value.epoch]]
    <3>1. /\ asks' = Append(asks, m) /\ ~Current(m, moves) /\ AskShape(m) /\ \A u : ~Takes(m, u)
          /\ ~Current(reply, moves)
      BY <2>1, <2>2 DEF Send, Current, AskShape, Asking, Takes
    <3> HIDE DEF m
    <3>2. Shaped(Append(asks, m))
      BY <1>1, <3>1, ShapedSteps
    <3>3. inflight' \in {Nothing, inflight}
      BY <2>1
    <3>4. AttachTypes'
      BY <1>1, <1>4, <2>1, <3>1, <3>2, <3>3 DEF AttachTypes
    <3>5. \A u \in Sessions : Cardinality(Takeovers(Append(asks, m), u)) = Cardinality(Takeovers(asks, u))
      BY <1>1, <3>1, TakeoverCounts
    <3>6. Confirmed'
      BY <1>1, <1>2, <3>1, <3>5 DEF Confirmed
    <3>7. ASSUME inflight' # Nothing, inflight'.moves = moves, ~cut
          PROVE  Waits(Append(asks, m), Tail(answers), question, moves, inflight'.session)
      <4>1. inflight' = inflight
        BY <3>3, <3>7
      <4>2. Waits(asks, answers, question, moves, inflight.session)
        BY <3>7, <4>1 DEF AttachInv
      <4>3. Waits(asks, Tail(answers), question, moves, inflight.session)
        BY <1>5, <3>1, <4>2
      <4> QED BY <1>1, <1>3, <3>1, <4>1, <4>3, WaitingSteps
    <3> QED BY <1>2, <2>1, <3>1, <3>4, <3>6, <3>7 DEF AttachInv
  <2>3. CASE reply.about.moves = moves /\ UNCHANGED asks
    <3>1. Current(reply, moves)
      BY <2>1, <2>3 DEF Current
    <3>2. inflight' \in {Nothing, inflight}
      BY <2>1
    <3>3. AttachTypes' /\ Confirmed'
      BY <1>1, <1>2, <1>4, <2>1, <2>3, <3>2 DEF Confirmed, AttachTypes
    <3>4. ASSUME inflight' # Nothing, inflight'.moves = moves, ~cut
          PROVE  Waits(asks, Tail(answers), question, moves, inflight'.session)
      <4>1. inflight' = inflight /\ inflight # Nothing
        BY <3>2, <3>4
      <4>2. Waits(asks, answers, question, moves, inflight.session)
        BY <3>4, <4>1 DEF AttachInv
      <4>3. reply.session # inflight.session
        <5>1. ASSUME reply.session = inflight.session
              PROVE  FALSE
          <6>1. inflight \in [session : Sessions, moves : Nat]
            BY <1>1, <4>1 DEF AttachTypes
          <6>2. inflight = [session |-> reply.session, moves |-> reply.about.moves]
            BY <2>3, <3>4, <4>1, <5>1, <6>1
          <6> QED BY <2>1, <3>4, <6>2
        <5> QED BY <5>1
      <4> QED BY <1>5, <3>1, <4>1, <4>2, <4>3
    <3> QED BY <1>2, <2>1, <2>3, <3>3, <3>4 DEF AttachInv
  <2>4. CASE reply.about.moves # moves /\ UNCHANGED asks
    <3>1. ~Current(reply, moves)
      BY <2>4 DEF Current
    <3> QED BY <1>6, <2>1, <2>4, <3>1
  <2> QED BY <1>10, <2>2, <2>3, <2>4 DEF RunShown
<1> QED BY <1>7, <1>8, <1>9, <1>10

\* Of every way to attach (ui/live.rs, ui/runs.rs): the takeovers asked for are
\* among those agreed to, and what the key waits for is under way or asked.
THEOREM AttachInvariance == AttachSpec => []AttachInv
<1>1. AttachInit => AttachInv
  <2> SUFFICES ASSUME AttachInit PROVE AttachInv
    OBVIOUS
  <2>1. IsSeq(<< >>) /\ DOMAIN << >> = {}
    <3>1. << >> \in Seq({})
      OBVIOUS
    <3> QED BY <3>1 DEF IsSeq
  <2>2. AttachTypes
    <3>1. Shaped(asks) /\ Shaped(answers) /\ inflight = Nothing /\ question = Nothing
      BY <2>1 DEF AttachInit, Shaped
    <3>2. /\ terminal \in [Sessions -> [owner : {Me, Other, Nobody}, epoch : Nat]]
          /\ moves \in Nat /\ agreed \in [Sessions -> Int]
      BY DEF AttachInit
    <3>3. cut \in BOOLEAN
      BY DEF AttachInit
    <3> QED BY <3>1, <3>2, <3>3 DEF AttachTypes
  <2>3. Confirmed
    <3>1. \A s : Takeovers(<< >>, s) = {}
      BY <2>1 DEF Takeovers
    <3>2. Cardinality({}) = 0
      BY FS_EmptySet
    <3>3. ASSUME NEW s \in Sessions PROVE Cardinality(Takeovers(asks, s)) <= agreed[s]
      <4>1. asks = << >> /\ agreed[s] = 0
        BY DEF AttachInit
      <4>2. Cardinality(Takeovers(asks, s)) = 0
        BY <3>1, <3>2, <4>1
      <4> QED BY <4>1, <4>2
    <3> QED BY <3>3 DEF Confirmed
  <2> QED BY <2>2, <2>3 DEF AttachInit, AttachInv
<1>2. AttachInv /\ [AttachNext]_attachVars => AttachInv'
  BY SendingKeeps, MovingKeeps, ServingKeeps, AnswersKeep DEF AttachNext
<1> QED BY <1>1, <1>2, PTL DEF AttachSpec

\* A terminal another client owns becomes this UI's only when its user has
\* confirmed as many takeovers of it as the host has carried out, and one more
\* (workspace-guide.md:79), whoever took and released it in between.
THEOREM TakeoversAlwaysConfirmed == AttachSpec => TakeoverWasConfirmed
<1>1. ASSUME AttachInv, [AttachNext]_attachVars, NEW s \in Sessions,
             terminal[s].owner = Other, terminal'[s].owner = Me
      PROVE  agreed[s] > 0
  <2>1. /\ AttachTypes /\ Confirmed /\ IsSeq(asks)
        /\ terminal \in [Sessions -> [owner : {Me, Other, Nobody}, epoch : Nat]]
    BY <1>1 DEF AttachInv, AttachTypes, Shaped
  <2>2. Me # Other /\ Nobody # Me
    BY DEF Me, Other, Nobody
  <2>3. ServeTerminal
    <3>1. ASSUME NEW u \in Sessions, OtherAttaches(u) \/ OtherDetaches(u)
          PROVE  FALSE
      <4>1. \E o \in {Other, Nobody} :
              terminal' = [terminal EXCEPT ![u] = [owner |-> o, epoch |-> @.epoch + 1]]
        BY <3>1 DEF OtherAttaches, OtherDetaches
      <4>2. terminal'[s].owner \in {Other, Nobody, terminal[s].owner}
        BY <2>1, <4>1
      <4> QED BY <1>1, <2>2, <4>2
    <3>2. UNCHANGED terminal => FALSE
      BY <1>1, <2>2
    <3> QED BY <1>1, <3>1, <3>2 DEF AttachNext, AttachRun, OpenShell, ConfirmTakeover, EscapeQuestion, AnotherDialog, Move,
              ToggleMenu, Poll, Listed, Reviewed, ShellShown, RunShown, Failed, Acknowledged, attachVars
  <2> DEFINE job == Head(asks)
  <2>4. Takes(job, s)
    <3>1. terminal' # terminal
      BY <1>1, <2>2
    <3>2. CASE /\ job.tag \in {"Attached", "RunAttached"}
               /\ MayAttach(terminal[job.session], job.about.takeover)
               /\ terminal' = [terminal EXCEPT ![job.session] = AfterAttach(@)]
      <4>1. job.session = s
        BY <1>1, <2>1, <2>2, <3>2
      <4> QED BY <1>1, <2>2, <3>2, <4>1 DEF MayAttach, Takes
    <3>3. CASE terminal' = [terminal EXCEPT ![job.session] = [owner |-> Nobody, epoch |-> @.epoch + 1]]
      <4>1. terminal'[s].owner \in {Nobody, terminal[s].owner}
        BY <2>1, <3>3
      <4> QED BY <1>1, <2>2, <4>1
    <3> QED BY <2>3, <3>1, <3>2, <3>3 DEF ServeTerminal
  <2>5. asks # << >> /\ DOMAIN asks = 1..Len(asks) /\ Len(asks) \in Nat /\ Len(asks) > 0 /\ job = asks[1]
    BY <2>1, <2>3, SeqSteps DEF ServeTerminal
  <2>6. Takeovers(asks, s) # {}
    BY <2>4, <2>5 DEF Takeovers
  <2>7. /\ IsFiniteSet(Takeovers(asks, s)) /\ Cardinality(Takeovers(asks, s)) \in Nat
        /\ Cardinality(Takeovers(asks, s)) # 0
    BY <2>1, <2>6, TakeoverCounts, FS_EmptySet
  <2>8. agreed[s] \in Int /\ Cardinality(Takeovers(asks, s)) <= agreed[s]
    BY <2>1 DEF AttachTypes, Confirmed
  <2> QED BY <2>7, <2>8
<1>2. AttachInv /\ [AttachNext]_attachVars
      => [\A s \in Sessions :
            terminal[s].owner = Other /\ terminal'[s].owner = Me => agreed[s] > 0]_attachVars
  BY <1>1
<1> QED BY <1>2, AttachInvariance, PTL DEF AttachSpec, TakeoverWasConfirmed

\* The key that attaches a Run is ignored only while its answer or its question
\* is still to come (runs.rs:735), or when the attachment was cut off by a
\* refused request (runs.rs:369) or another dialog; together with the requests of the Git tab,
\* nothing the user waits for is left behind.
THEOREM NothingAlwaysLeftBehind == AttachSpec /\ GitSpec => []NothingLeftBehind
<1>1. AttachInv => AttachNotBlocked
  <2> SUFFICES ASSUME AttachInv, inflight # Nothing, inflight.moves = moves, ~cut
               PROVE  AttachNotBlocked
    BY DEF AttachNotBlocked
  <2>1. inflight.session \in Sessions
    BY DEF AttachInv, AttachTypes
  <2>2. Waits(asks, answers, question, moves, inflight.session)
    BY DEF AttachInv
  <2>3. CASE LastCurrent(asks, moves, inflight.session)
    BY <2>3 DEF AttachNotBlocked, LastCurrent, Current
  <2>4. CASE LastCurrent(answers, moves, inflight.session)
    BY <2>4 DEF AttachNotBlocked, LastCurrent, Current
  <2>5. CASE question = [kind |-> "run", session |-> inflight.session]
    <3>1. question \in Questions /\ question.session = inflight.session /\ question.kind = "run"
      BY <2>1, <2>5 DEF Questions
    <3>2. question # Nothing
      BY <3>1, NothingAssumption
    <3> QED BY <3>1, <3>2 DEF AttachNotBlocked
  <2> QED BY <2>2, <2>3, <2>4, <2>5 DEF Waits
<1> QED BY <1>1, AttachInvariance, BusyAlwaysMatches, PTL DEF NothingLeftBehind
=============================================================================
