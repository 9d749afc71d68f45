--------------------------- MODULE RunHostProofs ---------------------------
(***************************************************************************)
(* What the host actor and its run worker keep true between them, for any  *)
(* number of requests, runs and tasks and any length of the queues: the    *)
(* shapes of what they exchange, and no signal before the cancellation is  *)
(* in runs.json.  RunHostDutyProofs has who owes whom what.                *)
(***************************************************************************)
EXTENDS RunHostParts, RunRegistryProofs, SequenceTheorems

(***************************************************************************)
(* The shapes of what the two exchange: a start or an end names a request  *)
(* that has its slot, every other item a run; only the answer to a start   *)
(* carries a process, and the cancellation recorded with it.               *)
(***************************************************************************)
KnownJobs == {j \in Jobs : jobs[j] # "none"}

GoodWork ==
    {w \in Work : /\ w.kind \in {"start", "finish"} => w.job \in KnownJobs
                  /\ w.kind # "start" => w.run \in RunIds}

GoodEvent ==
    {e \in Event : /\ e.kind \in {"start", "finish"} => e.job \in KnownJobs
                   /\ e.kind # "start" => e.run \in RunIds /\ ~e.runtime /\ ~e.requested
                   /\ e.runtime => e.run \in RunIds
                   /\ e.requested => e.runtime}

GoodBusy == [run : RunIds, jobs : Seq(KnownJobs) \ {<<>>}]

\* A slot that is being prepared has no run yet; what was closed durably or
\* has a process has one.
SlotFine(slot) ==
    /\ slot \in Slot
    /\ slot.preparing => slot.run = NoRun
    /\ slot.durable \/ slot.runtime => slot.run \in RunIds

SlotsShape ==
    /\ slots \in [Jobs -> Slot \union {NoSlot}] /\ jobs \in [Jobs -> JobState]
    /\ \A j \in Jobs : jobs[j] # "none" => SlotFine(slots[j])
    /\ \A j \in Jobs : jobs[j] = "none" => slots[j] = NoSlot

WorkerShape ==
    /\ outbox \in Seq(GoodEvent)
    /\ busy \in GoodBusy \union {NoRun}
    /\ deferred \in [RunIds -> Seq(KnownJobs)]

HostShape ==
    /\ SlotsShape /\ WorkerShape
    /\ works \in Seq(GoodWork) /\ events \in Seq(GoodEvent)
    /\ runsDead \in BOOLEAN /\ launchDead \in BOOLEAN /\ quiescing \in BOOLEAN
    /\ signalled \subseteq RunIds
-----------------------------------------------------------------------------
\* A known request stays known, and with it what names it.
LEMMA ShapesGrow ==
    ASSUME KnownJobs \subseteq KnownJobs'
    PROVE  /\ Seq(GoodWork) \subseteq Seq(GoodWork')
           /\ Seq(GoodEvent) \subseteq Seq(GoodEvent')
           /\ GoodBusy \subseteq GoodBusy'
           /\ Seq(KnownJobs) \subseteq Seq(KnownJobs')
           /\ [RunIds -> Seq(KnownJobs)] \subseteq [RunIds -> Seq(KnownJobs')]
<1>1. GoodWork \subseteq GoodWork'
  BY DEF GoodWork
<1>2. GoodEvent \subseteq GoodEvent'
  BY DEF GoodEvent
<1>3. Seq(KnownJobs) \subseteq Seq(KnownJobs')
  BY SeqMonotonic
<1>4. Seq(GoodWork) \subseteq Seq(GoodWork')
  BY <1>1, SeqMonotonic
<1>5. Seq(GoodEvent) \subseteq Seq(GoodEvent')
  BY <1>2, SeqMonotonic
<1>6. GoodBusy \subseteq GoodBusy'
  BY <1>3 DEF GoodBusy
<1> QED BY <1>3, <1>4, <1>5, <1>6

\* What the operators on slots keep: request_close, ...
LEMMA ClosingFine ==
    ASSUME NEW slot, SlotFine(slot), NEW force \in BOOLEAN, NEW sent \in BOOLEAN
    PROVE  LET to == Closing(slot, force, sent) IN
           /\ SlotFine(to) /\ to.run = slot.run /\ to.durable = slot.durable
           /\ to.runtime = slot.runtime /\ to.preparing = slot.preparing
           /\ to.final = slot.final /\ to.state = "closing"
BY DEF SlotFine, Slot, Closing

\* ... a recorded cancellation, ...
LEMMA CancelRecordedFine ==
    ASSUME NEW slot, SlotFine(slot), slot.run \in RunIds
    PROVE  LET to == CancelRecorded(slot) IN
           /\ SlotFine(to) /\ to.run = slot.run /\ to.durable
           /\ to.runtime = slot.runtime /\ to.preparing = slot.preparing
           /\ to.final = slot.final /\ (to.state = "ended" <=> slot.state = "ended")
<1> DEFINE closed == IF SlotLive(slot) THEN Closing(slot, FALSE, FALSE) ELSE slot
<1>1. /\ SlotFine(closed) /\ closed.run = slot.run
      /\ closed.runtime = slot.runtime /\ closed.preparing = slot.preparing
      /\ closed.final = slot.final /\ (closed.state = "ended" <=> slot.state = "ended")
  BY ClosingFine DEF SlotLive
<1>2. CancelRecorded(slot) = [closed EXCEPT !.durable = TRUE, !.cancelling = FALSE]
  BY DEF CancelRecorded
<1> HIDE DEF closed
<1> DEFINE marked == [closed EXCEPT !.durable = TRUE]
<1>3. /\ marked \in Slot /\ marked.durable /\ marked.state = closed.state
      /\ marked.run = closed.run /\ marked.runtime = closed.runtime
      /\ marked.preparing = closed.preparing /\ marked.final = closed.final
  BY <1>1 DEF SlotFine, Slot
<1>4. CancelRecorded(slot) = [marked EXCEPT !.cancelling = FALSE]
  BY <1>2, <1>3
<1> HIDE DEF marked
<1> DEFINE to == CancelRecorded(slot)
<1>5. /\ to \in Slot /\ to.durable /\ to.state = marked.state /\ to.run = marked.run
      /\ to.runtime = marked.runtime /\ to.preparing = marked.preparing /\ to.final = marked.final
  BY <1>3, <1>4 DEF Slot
<1> HIDE DEF to
<1>6. /\ to.run = slot.run /\ to.runtime = slot.runtime /\ to.preparing = slot.preparing
      /\ to.final = slot.final /\ (to.state = "ended" <=> slot.state = "ended")
  BY <1>1, <1>3, <1>5
<1>7. SlotFine(to)
  BY <1>5, <1>6 DEF SlotFine
<1> QED BY <1>5, <1>6, <1>7 DEF to

\* ... and one that was not.
LEMMA CancelFailedFine ==
    ASSUME NEW slot, SlotFine(slot)
    PROVE  LET to == CancelFailed(slot) IN
           /\ SlotFine(to) /\ to.run = slot.run /\ to.durable = slot.durable
           /\ to.runtime = slot.runtime /\ to.preparing = slot.preparing
           /\ to.final = slot.final /\ to.state = slot.state
BY DEF SlotFine, Slot, CancelFailed

\* The answer to a start without a process gives its slot a run, if any.
LEMMA AnsweredFine ==
    ASSUME NEW slot, SlotFine(slot), NEW e \in GoodEvent
    PROVE  LET to == Answered(slot, e) IN
           /\ SlotFine(to) /\ to.durable = slot.durable
           /\ to.run \in {slot.run, e.run} /\ to.runtime = slot.runtime
           /\ slot.preparing => ~to.preparing /\ to.state = "ended"
           /\ ~slot.preparing => to.run = slot.run
<1>0. /\ slot \in Slot /\ (slot.preparing => ~slot.durable /\ ~slot.runtime)
      /\ e.run \in RunIds \union {NoRun}
  BY RunHostSentinels DEF SlotFine, GoodEvent, Event
<1>1. CASE e.ok /\ e.existing
  BY <1>0, <1>1 DEF SlotFine, Slot, Answered
<1>2. CASE ~(e.ok /\ e.existing) /\ slot.preparing
  BY <1>0, <1>2 DEF SlotFine, Slot, Answered
<1>3. CASE ~(e.ok /\ e.existing) /\ ~slot.preparing
  <2>1. Answered(slot, e) = slot
    BY <1>3 DEF Answered
  <2> QED BY <1>3, <2>1
<1> QED BY <1>1, <1>2, <1>3

\* Nobody is left to answer it, or to record its end.
LEMMA OrphanedFine ==
    ASSUME NEW slot, SlotFine(slot)
    PROVE  LET to == Orphaned(slot) IN
           /\ SlotFine(to) /\ to.durable = slot.durable
           /\ to.run = slot.run /\ to.runtime = slot.runtime
           /\ to.final \in {"done", slot.final}
<1> slot \in Slot
  BY DEF SlotFine
<1>1. CASE slot.run # NoRun
  BY <1>1 DEF SlotFine, Slot, Orphaned, SlotLive
<1>2. CASE slot.run = NoRun /\ slot.preparing
  BY <1>2 DEF SlotFine, Slot, Orphaned
<1>3. CASE slot.run = NoRun /\ ~slot.preparing
  <2>1. Orphaned(slot) = slot
    BY <1>3 DEF Orphaned
  <2> QED BY <2>1
<1> QED BY <1>1, <1>2, <1>3

\* SetToSeq lists every element of a finite set, and nothing else.
LEMMA Listed ==
    ASSUME NEW S, IsFiniteSet(S)
    PROVE  /\ SetToSeq(S) \in Seq(S) /\ Len(SetToSeq(S)) = Cardinality(S)
           /\ \A x \in S : \E i \in 1..Len(SetToSeq(S)) : SetToSeq(S)[i] = x
           /\ \A i, k \in 1..Len(SetToSeq(S)) : SetToSeq(S)[i] = SetToSeq(S)[k] => i = k
<1> DEFINE n == Cardinality(S)
           s == SetToSeq(S)
<1>1. n \in Nat /\ \E f \in Bijection(1..n, S) : TRUE
  BY FS_CardinalityType DEF ExistsBijection
<1>2. \E f \in [1..n -> S] : IsInjective(f)
  BY <1>1 DEF Bijection, Injection
<1>3. s \in [1..n -> S] /\ IsInjective(s)
  BY <1>2 DEF SetToSeq
<1> HIDE DEF s
<1>4. s \in Seq(S) /\ Len(s) = n /\ DOMAIN s = 1..n
  BY <1>1, <1>3
<1>5. IsFiniteSet(1..n) /\ Cardinality(1..n) = n
  BY <1>1, FS_Interval
<1>6. s \in Injection(1..n, S)
  BY <1>3 DEF Injection
<1>7. s \in Surjection(1..n, S)
  BY <1>5, <1>6, FS_Injection
<1> QED BY <1>3, <1>4, <1>7 DEF Surjection, IsInjective, s

\* request_close of some slots: each is closed or left alone, the work sent
\* is the cancellation of some of their runs, and the processes signalled are
\* those that nobody has to be asked about.
LEMMA Closings ==
    ASSUME HostShape, NEW targets \in SUBSET Opened, NEW force \in BOOLEAN,
           CloseSlots(targets, force)
    PROVE  /\ slots' = [j \in Jobs |-> slots'[j]]
           /\ \A j \in Jobs : \/ slots'[j] = slots[j]
                              \/ /\ j \in targets /\ SlotLive(slots[j])
                                 /\ \E sent \in BOOLEAN :
                                       slots'[j] = Closing(slots[j], force, sent)
           /\ \E more \in Seq({CancelWork(slots[j].run) :
                                 j \in {k \in targets : NeedsCancel(slots[k])}}) :
                 works' = works \o more
           /\ signalled' = signalled \union {slots[j].run : j \in
                 {k \in targets : SlotLive(slots[k]) /\ ~NeedsCancel(slots[k]) /\ slots[k].runtime}}
           /\ Count(0)
<1> DEFINE asking == {j \in targets : NeedsCancel(slots[j]) /\ ~slots[j].cancelling}
           Sent(s) == {CancelWork(slots[j].run) : j \in s}
           Asking == {k \in targets : NeedsCancel(slots[k])}
<1>1. PICK sent \in SUBSET asking :
        /\ slots' = [j \in Jobs |->
              IF j \in targets \ (asking \ sent) /\ SlotLive(slots[j])
              THEN Closing(slots[j], force, j \in sent) ELSE slots[j]]
        /\ works' = works \o SetToSeq(Sent(sent))
        /\ Count(0)
        /\ signalled' = signalled \union {slots[j].run : j \in
              {k \in targets : SlotLive(slots[k]) /\ ~NeedsCancel(slots[k]) /\ slots[k].runtime}}
  BY DEF CloseSlots
<1>2. IsFiniteSet(sent)
  BY FS_Subset, RunHostAssumption DEF Opened
<1>3. IsFiniteSet(Sent(sent))
  <2> DEFINE f == [j \in sent |-> CancelWork(slots[j].run)]
  <2>1. f \in Surjection(sent, Sent(sent))
    BY DEF Surjection
  <2> QED BY <1>2, <2>1, FS_Surjection
<1>4. SetToSeq(Sent(sent)) \in Seq(Sent(sent))
  BY <1>3, Listed
<1>5. Sent(sent) \subseteq Sent(Asking)
  OBVIOUS
<1>6. SetToSeq(Sent(sent)) \in Seq(Sent(Asking))
  BY <1>4, <1>5, SeqMonotonic
<1>7. \A j \in Jobs : \/ slots'[j] = slots[j]
                      \/ /\ j \in targets /\ SlotLive(slots[j])
                         /\ \E b \in BOOLEAN : slots'[j] = Closing(slots[j], force, b)
  <2> TAKE j \in Jobs
  <2> DEFINE b == j \in sent
  <2>1. b \in BOOLEAN
    OBVIOUS
  <2>2. slots'[j] = IF j \in targets \ (asking \ sent) /\ SlotLive(slots[j])
                    THEN Closing(slots[j], force, b) ELSE slots[j]
    BY <1>1
  <2> HIDE DEF b
  <2> QED BY <2>1, <2>2
<1> QED BY <1>1, <1>6, <1>7
-----------------------------------------------------------------------------
(* The shapes are kept.                                                    *)

\* Slots that stay or become fine ones keep the shape of the table.
LEMMA SlotsKept ==
    ASSUME SlotsShape, UNCHANGED jobs, slots' = [j \in Jobs |-> slots'[j]],
           \A j \in Jobs : slots'[j] = slots[j] \/ (jobs[j] # "none" /\ SlotFine(slots'[j]))
    PROVE  SlotsShape'
<1>1. \A j \in Jobs : slots'[j] \in Slot \union {NoSlot}
  BY DEF SlotsShape, SlotFine
<1>2. slots' \in [Jobs -> Slot \union {NoSlot}]
  BY <1>1
<1> QED BY <1>2 DEF SlotsShape

\* A slot that is there is one that was made.
LEMMA OpenedFine ==
    ASSUME SlotsShape
    PROVE  Opened = KnownJobs /\ \A j \in Opened : SlotFine(slots[j])
<1>1. \A j \in Jobs : SlotFine(slots[j]) => slots[j] # NoSlot
  BY RunHostSentinels DEF SlotFine
<1> QED BY <1>1 DEF SlotsShape, Opened, KnownJobs

\* The shapes hold after a step that keeps each of them.
LEMMA ShapeKept ==
    ASSUME KnownJobs \subseteq KnownJobs', SlotsShape',
           works' \in Seq(GoodWork) \union Seq(GoodWork'),
           events' \in Seq(GoodEvent), outbox' \in Seq(GoodEvent),
           busy' \in GoodBusy \union {NoRun}, deferred' \in [RunIds -> Seq(KnownJobs)],
           runsDead' \in BOOLEAN, launchDead' \in BOOLEAN, quiescing' \in BOOLEAN,
           signalled' \subseteq RunIds
    PROVE  HostShape'
BY ShapesGrow DEF HostShape, WorkerShape

\* A request to close slots.
LEMMA ClosingsShape ==
    ASSUME HostShape, NEW targets \in SUBSET Opened, NEW force \in BOOLEAN,
           CloseSlots(targets, force),
           UNCHANGED <<jobs, events, workerVars, runsDead, launchDead>>, quiescing' \in BOOLEAN
    PROVE  HostShape'
<1>0. SlotsShape /\ Opened = KnownJobs /\ \A j \in Opened : SlotFine(slots[j])
  BY OpenedFine DEF HostShape
<1>1. SlotsShape'
  <2>1. ASSUME NEW j \in Jobs, slots'[j] # slots[j]
        PROVE  jobs[j] # "none" /\ SlotFine(slots'[j])
    <3>1. j \in KnownJobs /\ \E sent \in BOOLEAN : slots'[j] = Closing(slots[j], force, sent)
      BY <1>0, <2>1, Closings
    <3> QED BY <1>0, <3>1, ClosingFine DEF KnownJobs
  <2>2. slots' = [j \in Jobs |-> slots'[j]]
    BY Closings
  <2> QED BY <1>0, <2>1, <2>2, SlotsKept
<1>2. works' \in Seq(GoodWork)
  <2> DEFINE Asking == {k \in targets : NeedsCancel(slots[k])}
             S == {CancelWork(slots[j].run) : j \in Asking}
  <2>1. PICK more \in Seq(S) : works' = works \o more
    BY Closings
  <2>2. \A j \in Asking : CancelWork(slots[j].run) \in GoodWork
    BY <1>0 DEF NeedsCancel, CancelWork, GoodWork, Work, SlotFine, Slot
  <2>3. more \in Seq(GoodWork)
    BY <2>2, SeqMonotonic
  <2> QED BY <2>1, <2>3, ConcatProperties DEF HostShape
<1>3. signalled' \subseteq RunIds
  <2>1. \A k \in targets : slots[k].runtime => slots[k].run \in RunIds
    BY <1>0 DEF SlotFine
  <2>2. signalled' = signalled \union {slots[j].run : j \in
           {k \in targets : SlotLive(slots[k]) /\ ~NeedsCancel(slots[k]) /\ slots[k].runtime}}
    BY Closings
  <2> QED BY <2>1, <2>2 DEF HostShape
<1>4. KnownJobs \subseteq KnownJobs'
  BY DEF KnownJobs
<1> QED BY <1>1, <1>2, <1>3, <1>4, ShapeKept DEF HostShape, WorkerShape, workerVars

\* The slot a start is given.
LEMMA NewSlotFine == SlotFine(NewSlot)
BY DEF SlotFine, NewSlot, Slot

\* The requests of clients.
LEMMA ClientShape ==
    ASSUME HostShape, ClientStep PROVE HostShape'
<1>0. SlotsShape /\ Opened = KnownJobs /\ \A j \in Opened : SlotFine(slots[j])
  BY OpenedFine DEF HostShape
<1>1. ASSUME NEW j \in Jobs, SubmitStart(j) PROVE HostShape'
  <2>1. /\ slots' = [slots EXCEPT ![j] = NewSlot] /\ jobs' = [jobs EXCEPT ![j] = "pending"]
        /\ works' = Append(works, [kind |-> "start", job |-> j, run |-> NoRun])
        /\ UNCHANGED <<events, outbox, busy, deferred, runsDead, launchDead, quiescing, signalled>>
    BY <1>1 DEF SubmitStart, Send, workerVars
  <2>2. KnownJobs \subseteq KnownJobs' /\ j \in KnownJobs'
    BY <1>0, <2>1 DEF KnownJobs, SlotsShape
  <2>3. SlotsShape'
    BY <1>0, <2>1, NewSlotFine DEF SlotsShape, JobState, SlotFine
  <2>4. works \in Seq(GoodWork')
    BY <2>2, ShapesGrow DEF HostShape
  <2>5. [kind |-> "start", job |-> j, run |-> NoRun] \in GoodWork'
    BY <2>2 DEF GoodWork, Work
  <2>6. works' \in Seq(GoodWork')
    BY <2>1, <2>4, <2>5, AppendProperties
  <2> QED BY <2>1, <2>2, <2>3, <2>6, ShapeKept DEF HostShape, WorkerShape
<1>2. ASSUME NEW r \in RunIds, AskCancel(r) PROVE HostShape'
  <2>1. /\ works' = Append(works, [kind |-> "ask", job |-> NoJob, run |-> r])
        /\ UNCHANGED <<slots, jobs, events, outbox, busy, deferred, runsDead, launchDead,
                       quiescing, signalled>>
    BY <1>2 DEF AskCancel, Send, actorVars, workerVars
  <2>2. [kind |-> "ask", job |-> NoJob, run |-> r] \in GoodWork
    BY DEF GoodWork, Work
  <2>3. works' \in Seq(GoodWork)
    BY <2>1, <2>2, AppendProperties DEF HostShape
  <2>4. KnownJobs \subseteq KnownJobs' /\ SlotsShape'
    BY <1>0, <2>1 DEF KnownJobs, SlotsShape
  <2> QED BY <2>1, <2>3, <2>4, ShapeKept DEF HostShape, WorkerShape
<1>3. ASSUME NEW j \in Jobs, NEW force \in BOOLEAN, CloseSession(j, force) PROVE HostShape'
  <2>1. /\ {j} \in SUBSET Opened /\ CloseSlots({j}, force)
        /\ UNCHANGED <<jobs, events, workerVars, runsDead, launchDead, quiescing>>
    BY <1>3 DEF CloseSession
  <2> QED BY <2>1, ClosingsShape DEF HostShape
<1>4. ASSUME NEW j \in Jobs, CancelJob(j) PROVE HostShape'
  <2>0. j \in Opened /\ SlotFine(slots[j])
    BY <1>0, <1>4 DEF CancelJob, KnownJobs
  <2>1. CASE SlotLive(slots[j])
    <3>1. /\ {j} \in SUBSET Opened /\ CloseSlots({j}, FALSE)
          /\ UNCHANGED <<jobs, events, workerVars, runsDead, launchDead, quiescing>>
      BY <1>4, <2>0, <2>1 DEF CancelJob
    <3> QED BY <3>1, ClosingsShape DEF HostShape
  <2>2. CASE ~SlotLive(slots[j])
    <3>1. /\ slots' = [slots EXCEPT ![j].cancel = TRUE]
          /\ UNCHANGED <<works, jobs, events, outbox, busy, deferred, runsDead, launchDead,
                         quiescing, signalled>>
      BY <1>4, <2>2 DEF CancelJob, workerVars
    <3>2. SlotFine([slots[j] EXCEPT !.cancel = TRUE])
      BY <2>0 DEF SlotFine, Slot
    <3>3. SlotsShape' /\ KnownJobs \subseteq KnownJobs'
      BY <1>0, <2>0, <3>1, <3>2 DEF SlotsShape, SlotFine, KnownJobs, Opened
    <3> QED BY <3>1, <3>3, ShapeKept DEF HostShape, WorkerShape
  <2> QED BY <2>1, <2>2
<1>5. ASSUME NEW force \in BOOLEAN, CloseAll(force) PROVE HostShape'
  <2>1. /\ {j \in Opened : SlotLive(slots[j])} \in SUBSET Opened
        /\ CloseSlots({j \in Opened : SlotLive(slots[j])}, force)
        /\ UNCHANGED <<jobs, events, workerVars, runsDead, launchDead>> /\ quiescing' = TRUE
    BY <1>5 DEF CloseAll
  <2> QED BY <2>1, ClosingsShape
<1>6. Forces \subseteq BOOLEAN
  BY RunHostAssumption
<1> QED BY <1>1, <1>2, <1>3, <1>4, <1>5, <1>6 DEF ClientStep

\* What the actor makes of the process of a run (accept_prepared): it goes to
\* the slot of its request, and is signalled at once only if its cancellation
\* is recorded, or if it is a shell.
LEMMA AcceptEffect ==
    ASSUME SlotsShape, NEW e \in GoodEvent, e.kind = "start", e.runtime,
           NEW recorded \in BOOLEAN, NEW refused \in BOOLEAN, Accept(e, recorded, refused)
    PROVE  /\ \E to : /\ slots' = [slots EXCEPT ![e.job] = to]
                      /\ SlotFine(to) /\ to.run = e.run /\ to.durable = e.requested
                      /\ to.runtime /\ ~to.preparing /\ to.final = slots[e.job].final
                      /\ to.state \in {"closing", "running"}
           /\ works' \in {works, Append(works, CancelWork(e.run))}
           /\ \/ UNCHANGED signalled
              \/ /\ signalled' = signalled \union {e.run}
                 /\ e.requested \/ JobTask[e.job] \in ShellTasks
<1> DEFINE was == slots[e.job]
           slot == [was EXCEPT !.run = e.run, !.durable = e.requested,
                     !.cancel = @ \/ ~e.ok, !.preparing = FALSE, !.runtime = TRUE]
           stopped == [slot EXCEPT !.state = "closing", !.requested = TRUE]
           runs2 == [slot EXCEPT !.state = "running"]
           Good(to) == /\ SlotFine(to) /\ to.run = e.run /\ to.durable = e.requested
                       /\ to.runtime /\ ~to.preparing /\ to.final = slots[e.job].final
                       /\ to.state \in {"closing", "running"}
<1>1. SlotFine(was) /\ e.run \in RunIds /\ e.ok \in BOOLEAN /\ e.requested \in BOOLEAN
  BY DEF SlotsShape, GoodEvent, KnownJobs, Event
<1>2. /\ slot \in Slot /\ slot.run = e.run /\ slot.durable = e.requested
      /\ slot.runtime /\ slot.preparing = FALSE /\ slot.final = was.final
  BY <1>1 DEF SlotFine, Slot
<1>3. \/ slots' = [slots EXCEPT ![e.job] = stopped]
      \/ slots' = [slots EXCEPT ![e.job] = runs2]
  BY DEF Accept
<1>4. works' \in {works, Append(works, CancelWork(e.run))}
  BY DEF Accept, SendIfPossible, Send
<1>5. \/ UNCHANGED signalled
      \/ /\ signalled' = signalled \union {e.run}
         /\ slot.durable \/ JobTask[e.job] \in ShellTasks
  BY DEF Accept
<1>6. Good(stopped) /\ Good(runs2)
  <2> HIDE DEF slot
  <2> QED BY <1>1, <1>2 DEF SlotFine, Slot
<1>7. \E to : slots' = [slots EXCEPT ![e.job] = to] /\ Good(to)
  BY <1>3, <1>6
<1>8. \/ UNCHANGED signalled
      \/ /\ signalled' = signalled \union {e.run}
         /\ e.requested \/ JobTask[e.job] \in ShellTasks
  BY <1>2, <1>5
<1> QED BY <1>4, <1>7, <1>8

\* The actor receives one event (accept_run_event).
LEMMA HeadEvent ==
    ASSUME HostShape, events # <<>>
    PROVE  Head(events) \in GoodEvent /\ Tail(events) \in Seq(GoodEvent)
BY HeadTailProperties DEF HostShape

\* A step that changes the slot of one known request.
LEMMA OneSlotShape ==
    ASSUME SlotsShape, NEW j \in KnownJobs, NEW to, SlotFine(to),
           slots' = [slots EXCEPT ![j] = to], jobs' \in [Jobs -> JobState], KnownJobs' = KnownJobs
    PROVE  SlotsShape'
<1>1. \A i \in Jobs : jobs'[i] # "none" <=> jobs[i] # "none"
  BY DEF KnownJobs
<1>2. \A i \in Jobs : slots'[i] = IF i = j THEN to ELSE slots[i]
  BY DEF SlotsShape
<1>3. slots' \in [Jobs -> Slot \union {NoSlot}]
  BY DEF SlotsShape, SlotFine, KnownJobs
<1> QED BY <1>1, <1>2, <1>3 DEF SlotsShape, KnownJobs

\* An answer is applied to the slot it names (accept_run_event).
LEMMA ReceiveShape ==
    ASSUME HostShape, Receive PROVE HostShape'
<1> DEFINE e == Head(events)
<1>0. /\ SlotsShape /\ Opened = KnownJobs /\ \A j \in Opened : SlotFine(slots[j])
      /\ events # <<>> /\ e \in GoodEvent /\ events' \in Seq(GoodEvent)
      /\ UNCHANGED <<outbox, busy, deferred, runsDead, launchDead, quiescing>>
  BY OpenedFine, HeadEvent DEF HostShape, Receive, workerVars
<1>s. SUFFICES ASSUME SlotsShape' /\ KnownJobs \subseteq KnownJobs'
                      /\ works' \in Seq(GoodWork) /\ signalled' \subseteq RunIds
                      => HostShape'
               PROVE  HostShape'
  BY <1>0, ShapeKept DEF HostShape, WorkerShape
<1>1. CASE e.kind = "start" /\ ReceiveStart(e)
  <2>0. /\ e.job \in KnownJobs /\ jobs' = [jobs EXCEPT ![e.job] = "answered"]
        /\ KnownJobs' = KnownJobs /\ jobs' \in [Jobs -> JobState]
    BY <1>0, <1>1 DEF ReceiveStart, GoodEvent, SlotsShape, KnownJobs, JobState
  <2>1. CASE e.runtime
    <3>1. PICK recorded \in BOOLEAN, refused \in BOOLEAN : Accept(e, recorded, refused)
      BY <1>1, <2>1 DEF ReceiveStart
    <3>2. PICK to : slots' = [slots EXCEPT ![e.job] = to] /\ SlotFine(to)
      BY <1>0, <1>1, <2>1, <3>1, AcceptEffect
    <3>3. SlotsShape'
      BY <1>0, <2>0, <3>2, OneSlotShape
    <3>4. e.run \in RunIds /\ CancelWork(e.run) \in GoodWork
      BY <1>0, <2>1 DEF GoodEvent, CancelWork, GoodWork, Work
    <3>5. works' \in {works, Append(works, CancelWork(e.run))}
      BY <1>0, <1>1, <2>1, <3>1, AcceptEffect
    <3>6. works' \in Seq(GoodWork)
      BY <3>4, <3>5, AppendProperties DEF HostShape
    <3>7. UNCHANGED signalled \/ signalled' = signalled \union {e.run}
      BY <1>0, <1>1, <2>1, <3>1, AcceptEffect
    <3>8. signalled' \subseteq RunIds
      BY <3>4, <3>7 DEF HostShape
    <3> QED BY <1>s, <2>0, <3>3, <3>6, <3>8
  <2>2. CASE ~e.runtime
    <3>1. slots' = [slots EXCEPT ![e.job] = Answered(slots[e.job], e)]
          /\ UNCHANGED <<works, signalled>>
      BY <1>1, <2>2 DEF ReceiveStart
    <3>2. SlotFine(Answered(slots[e.job], e))
      BY <1>0, <2>0, AnsweredFine
    <3>3. SlotsShape'
      BY <1>0, <2>0, <3>1, <3>2, OneSlotShape
    <3> QED BY <1>s, <2>0, <3>1, <3>3 DEF HostShape
  <2> QED BY <2>1, <2>2
<1>2. CASE e.kind \in {"cancel", "ask", "timeout"} /\ ReceiveCancel(e)
  <2>0. e.run \in RunIds /\ UNCHANGED <<jobs, works>> /\ KnownJobs \subseteq KnownJobs'
    BY <1>0, <1>2 DEF GoodEvent, ReceiveCancel, KnownJobs
  <2>1. \A j \in Owners(e.run) : /\ j \in KnownJobs /\ SlotFine(slots[j]) /\ slots[j].run = e.run
                                 /\ SlotFine(CancelRecorded(slots[j]))
                                 /\ SlotFine(CancelFailed(slots[j]))
    BY <1>0, <2>0, CancelRecordedFine, CancelFailedFine DEF Owners
  <2>2. /\ slots' = [j \in Jobs |-> slots'[j]]
        /\ \A j \in Jobs : \/ slots'[j] = slots[j]
                           \/ j \in Owners(e.run) /\ slots'[j] \in {CancelRecorded(slots[j]), CancelFailed(slots[j])}
    BY <1>2 DEF ReceiveCancel
  <2>3. \A j \in Jobs : slots'[j] = slots[j] \/ (jobs[j] # "none" /\ SlotFine(slots'[j]))
    BY <2>1, <2>2 DEF KnownJobs
  <2>4. SlotsShape'
    BY <1>0, <2>0, <2>2, <2>3, SlotsKept
  <2>5. signalled' \in {signalled, signalled \union {e.run}}
    BY <1>2 DEF ReceiveCancel
  <2> QED BY <1>s, <2>0, <2>4, <2>5 DEF HostShape
<1>3. CASE e.kind = "finish" /\ ReceiveFinish(e)
  <2>0. /\ e.job \in KnownJobs /\ e.ok \in BOOLEAN /\ UNCHANGED <<jobs, works, signalled>>
        /\ slots' = [slots EXCEPT ![e.job].final = Finalization(e.ok)]
    BY <1>0, <1>3 DEF GoodEvent, ReceiveFinish, Event
  <2>1. SlotFine([slots[e.job] EXCEPT !.final = Finalization(e.ok)])
    <3>1. SlotFine(slots[e.job]) /\ Finalization(e.ok) \in {"done", "pending"}
      BY <1>0, <2>0 DEF Finalization
    <3> QED BY <3>1 DEF SlotFine, Slot
  <2>2. slots' = [slots EXCEPT ![e.job] = [slots[e.job] EXCEPT !.final = Finalization(e.ok)]]
    BY <2>0
  <2>3. KnownJobs' = KnownJobs /\ jobs' \in [Jobs -> JobState]
    BY <1>0, <2>0 DEF KnownJobs, SlotsShape
  <2>4. SlotsShape'
    BY <1>0, <2>0, <2>1, <2>2, <2>3, OneSlotShape
  <2> QED BY <1>s, <2>0, <2>3, <2>4 DEF HostShape
<1> QED BY <1>1, <1>2, <1>3 DEF Receive

\* A slot whose preparing worker died (fail_pending_prepares).
LEMMA UnpreparedFine ==
    ASSUME NEW slot, SlotFine(slot)
    PROVE  LET to == [slot EXCEPT !.preparing = FALSE, !.state = "ended"] IN
           /\ SlotFine(to) /\ to.run = slot.run /\ to.durable = slot.durable
           /\ to.runtime = slot.runtime /\ to.final = slot.final
BY DEF SlotFine, Slot

\* A tick of the actor.
LEMMA TickShape ==
    ASSUME HostShape, TickStep PROVE HostShape'
<1>0. /\ SlotsShape /\ Opened = KnownJobs /\ Opened \subseteq Jobs
      /\ \A j \in Opened : SlotFine(slots[j]) /\ slots[j] \in Slot
      /\ runsDead \in BOOLEAN /\ launchDead \in BOOLEAN /\ signalled \subseteq RunIds
  BY OpenedFine DEF HostShape, SlotFine, Opened
<1>1. CASE Receive
  BY <1>1, ReceiveShape
<1>2. CASE MarkRunsDead
  <2>1. /\ jobs' = [j \in Jobs |-> Lost(jobs[j])]
        /\ slots' = [j \in Jobs |-> IF j \in Opened THEN Orphaned(slots[j]) ELSE NoSlot]
        /\ runsDead' = TRUE
        /\ UNCHANGED <<works, events, outbox, busy, deferred, launchDead, quiescing, signalled>>
    BY <1>2 DEF MarkRunsDead, workerVars
  <2>2. /\ jobs' \in [Jobs -> JobState] /\ \A j \in Jobs : jobs'[j] = "none" <=> jobs[j] = "none"
    BY <1>0, <2>1 DEF SlotsShape, JobState, Lost
  <2>3. \A j \in Opened : SlotFine(Orphaned(slots[j])) /\ Orphaned(slots[j]) \in Slot
    BY <1>0, OrphanedFine DEF SlotFine
  <2>4. SlotsShape'
    BY <1>0, <2>1, <2>2, <2>3 DEF SlotsShape, KnownJobs
  <2>5. KnownJobs \subseteq KnownJobs'
    BY <2>2 DEF KnownJobs
  <2> QED BY <2>1, <2>4, <2>5, ShapeKept DEF HostShape, WorkerShape
<1>3. CASE LaunchDies
  <2> DEFINE to(j) == IF j \in Opened /\ slots[j].preparing
                      THEN [slots[j] EXCEPT !.preparing = FALSE, !.state = "ended"] ELSE slots[j]
  <2>1. /\ slots' = [j \in Jobs |-> to(j)] /\ launchDead' = TRUE
        /\ UNCHANGED <<jobs, works, events, outbox, busy, deferred, runsDead, quiescing, signalled>>
    BY <1>3 DEF LaunchDies, workerVars
  <2>2. \A j \in Opened : SlotFine([slots[j] EXCEPT !.preparing = FALSE, !.state = "ended"])
    BY <1>0, UnpreparedFine
  <2>3. \A j \in Jobs : to(j) = slots[j] \/ (jobs[j] # "none" /\ SlotFine(to(j)))
    BY <1>0, <2>2 DEF KnownJobs
  <2>4. \A j \in Jobs : slots'[j] = slots[j] \/ (jobs[j] # "none" /\ SlotFine(slots'[j]))
    BY <2>1, <2>3
  <2>5. slots' = [j \in Jobs |-> slots'[j]]
    BY <2>1
  <2>6. SlotsShape' /\ KnownJobs \subseteq KnownJobs'
    BY <1>0, <2>1, <2>4, <2>5, SlotsKept DEF KnownJobs
  <2> QED BY <2>1, <2>6, ShapeKept DEF HostShape, WorkerShape
<1> DEFINE Changed(j, to) ==
        /\ j \in Opened /\ SlotFine(to) /\ slots' = [slots EXCEPT ![j] = to]
        /\ UNCHANGED <<jobs, events, outbox, busy, deferred, runsDead, launchDead, quiescing>>
<1>4. ASSUME NEW j \in Jobs, NEW to, Changed(j, to), works' \in Seq(GoodWork),
             signalled' \subseteq RunIds
      PROVE  HostShape'
  <2>1. SlotsShape' /\ KnownJobs \subseteq KnownJobs'
    BY <1>0, <1>4, OneSlotShape DEF KnownJobs, SlotsShape
  <2> QED BY <1>4, <2>1, ShapeKept DEF HostShape, WorkerShape
<1>5. ASSUME NEW j \in Jobs, RetryCancel(j) PROVE HostShape'
  <2> DEFINE to == [slots[j] EXCEPT !.cancelling = TRUE]
  <2>1. /\ j \in Opened /\ SlotFine(slots[j]) /\ slots[j].run \in RunIds
        /\ slots' = [slots EXCEPT ![j] = to] /\ works' = Append(works, CancelWork(slots[j].run))
        /\ UNCHANGED signalled
    BY <1>0, <1>5 DEF RetryCancel, NeedsCancel, Send, Slot
  <2>2. SlotFine(to)
    BY <2>1 DEF SlotFine, Slot
  <2>3. Changed(j, to)
    BY <1>5, <2>1, <2>2 DEF RetryCancel, workerVars
  <2>4. CancelWork(slots[j].run) \in GoodWork
    BY <2>1 DEF CancelWork, GoodWork, Work
  <2>5. works' \in Seq(GoodWork)
    BY <2>1, <2>4, AppendProperties DEF HostShape
  <2> HIDE DEF Changed
  <2> QED BY <1>0, <1>4, <2>1, <2>3, <2>5
<1>6. ASSUME NEW j \in Jobs, ForceAfterGrace(j) PROVE HostShape'
  <2> DEFINE to == [slots[j] EXCEPT !.force = TRUE]
  <2>1. /\ j \in Opened /\ SlotFine(slots[j]) /\ slots[j].run \in RunIds
        /\ slots' = [slots EXCEPT ![j] = to]
        /\ signalled' = signalled \union {slots[j].run} /\ UNCHANGED works
    BY <1>0, <1>6 DEF ForceAfterGrace, SlotFine
  <2>2. SlotFine(to)
    BY <2>1 DEF SlotFine, Slot
  <2>3. Changed(j, to)
    BY <1>6, <2>1, <2>2 DEF ForceAfterGrace, workerVars
  <2>4. works' \in Seq(GoodWork) /\ signalled' \subseteq RunIds
    BY <1>0, <2>1 DEF HostShape
  <2> HIDE DEF Changed
  <2> QED BY <1>4, <2>3, <2>4
<1>7. ASSUME NEW j \in Jobs, ObserveExit(j) \/ Reap(j) PROVE HostShape'
  <2> DEFINE seen == [slots[j] EXCEPT !.state = "closing"]
             gone == [slots[j] EXCEPT !.runtime = FALSE, !.state = "ended"]
  <2>1. /\ j \in Opened /\ SlotFine(slots[j])
        /\ slots' = [slots EXCEPT ![j] = seen] \/ slots' = [slots EXCEPT ![j] = gone]
        /\ UNCHANGED <<works, signalled>>
        /\ UNCHANGED <<jobs, events, outbox, busy, deferred, runsDead, launchDead, quiescing>>
    BY <1>0, <1>7 DEF ObserveExit, Reap, workerVars
  <2>2. SlotFine(seen) /\ SlotFine(gone)
    BY <2>1 DEF SlotFine, Slot
  <2>3. Changed(j, seen) \/ Changed(j, gone)
    <3> HIDE DEF seen, gone
    <3> QED BY <2>1, <2>2
  <2>4. works' \in Seq(GoodWork) /\ signalled' \subseteq RunIds
    BY <1>0, <2>1 DEF HostShape
  <2> HIDE DEF Changed
  <2> QED BY <1>4, <2>3, <2>4
<1>8. ASSUME NEW j \in Jobs, SendFinish(j) PROVE HostShape'
  <2> DEFINE to == [slots[j] EXCEPT !.final = "inflight"]
             w == [kind |-> "finish", job |-> j, run |-> slots[j].run]
  <2>1. /\ j \in Opened /\ SlotFine(slots[j]) /\ slots[j].run \in RunIds
        /\ slots' = [slots EXCEPT ![j] = to] /\ works' = Append(works, w)
        /\ UNCHANGED signalled
    BY <1>0, <1>8 DEF SendFinish, Send, Slot
  <2>2. SlotFine(to)
    BY <2>1 DEF SlotFine, Slot
  <2>3. Changed(j, to)
    BY <1>8, <2>1, <2>2 DEF SendFinish, workerVars
  <2>4. w \in GoodWork
    BY <1>0, <2>1 DEF GoodWork, Work
  <2>5. works' \in Seq(GoodWork)
    BY <2>1, <2>4, AppendProperties DEF HostShape
  <2> HIDE DEF Changed
  <2> QED BY <1>0, <1>4, <2>1, <2>3, <2>5
<1> HIDE DEF Changed
<1> QED BY <1>1, <1>2, <1>3, <1>5, <1>6, <1>7, <1>8 DEF TickStep

\* The replies of the worker.
LEMMA RepliesGood ==
    ASSUME NEW kind \in {"start", "finish", "cancel", "ask", "timeout"},
           NEW j \in Jobs \union {NoJob}, NEW r \in RunIds \union {NoRun}, NEW ok \in BOOLEAN,
           kind \in {"start", "finish"} => j \in KnownJobs, kind # "start" => r \in RunIds
    PROVE  /\ Reply(kind, j, r, ok) \in GoodEvent
           /\ kind = "start" =>
                 \A b \in BOOLEAN : /\ [Reply(kind, j, r, ok) EXCEPT !.existing = b] \in GoodEvent
                                    /\ [Reply(kind, j, r, ok) EXCEPT !.confirmed = b] \in GoodEvent
                                    /\ r \in RunIds => Spawned(j, r, ok, b) \in GoodEvent
<1> DEFINE e == Reply(kind, j, r, ok)
<1>1. /\ e \in Event /\ e.kind = kind /\ e.job = j /\ e.run = r /\ ~e.runtime /\ ~e.requested
  BY DEF Reply, Event
<1>2. e \in GoodEvent
  BY <1>1 DEF GoodEvent
<1>3. ASSUME kind = "start", NEW b \in BOOLEAN, r \in RunIds PROVE Spawned(j, r, ok, b) \in GoodEvent
  <2> DEFINE x == Spawned(j, r, ok, b)
  <2>1. x \in Event /\ x.kind = "start" /\ x.job = j /\ x.run = r /\ x.runtime
    BY <1>3 DEF Spawned, Reply, Event
  <2> HIDE DEF x
  <2>2. x \in GoodEvent
    BY <1>3, <2>1 DEF GoodEvent
  <2> QED BY <2>2 DEF x
<1> HIDE DEF e
<1>4. ASSUME NEW b \in BOOLEAN, NEW x \in {[e EXCEPT !.existing = b], [e EXCEPT !.confirmed = b]}
      PROVE  x \in GoodEvent
  <2>1. /\ x \in Event /\ x.kind = e.kind /\ x.job = e.job /\ x.run = e.run
        /\ x.runtime = e.runtime /\ x.requested = e.requested
    BY <1>1 DEF Event
  <2> QED BY <1>2, <2>1 DEF GoodEvent
<1> QED BY <1>2, <1>3, <1>4 DEF e

\* Each of the requests that joined a start is told of it.
LEMMA SharedGood ==
    ASSUME NEW waiting \in Seq(KnownJobs), NEW ok \in BOOLEAN
    PROVE  /\ Shared(waiting, ok) \in Seq(GoodEvent) /\ Len(Shared(waiting, ok)) = Len(waiting)
           /\ \A i \in 1..Len(waiting) :
                 /\ Shared(waiting, ok)[i].kind = "start"
                 /\ Shared(waiting, ok)[i].job = waiting[i]
                 /\ Shared(waiting, ok)[i].run = NoRun
                 /\ ~Shared(waiting, ok)[i].runtime /\ ~Shared(waiting, ok)[i].requested
                 /\ Shared(waiting, ok)[i].existing = Shared(waiting, ok)[i].ok
<1> DEFINE told(i) == ok /\ ~slots[waiting[i]].cancel
           item(i) == [Reply("start", waiting[i], NoRun, told(i)) EXCEPT !.existing = told(i)]
<1>1. DOMAIN waiting = 1..Len(waiting) /\ Len(waiting) \in Nat
  OBVIOUS
<1>2. Shared(waiting, ok) = [i \in 1..Len(waiting) |-> item(i)]
  BY <1>1 DEF Shared
<1>3. \A i \in 1..Len(waiting) :
        /\ item(i) \in GoodEvent /\ item(i).kind = "start" /\ item(i).job = waiting[i]
        /\ item(i).run = NoRun /\ ~item(i).runtime /\ ~item(i).requested
        /\ item(i).existing = item(i).ok
  <2> TAKE i \in 1..Len(waiting)
  <2>1. told(i) \in BOOLEAN /\ waiting[i] \in KnownJobs /\ waiting[i] \in Jobs \union {NoJob}
    BY ElementOfSeq DEF KnownJobs
  <2> HIDE DEF told
  <2>2. item(i) \in GoodEvent
    BY <2>1, RepliesGood
  <2> QED BY <2>1, <2>2 DEF Reply
<1> HIDE DEF item
<1> QED BY <1>1, <1>2, <1>3

\* The end of the start in hand.
LEMMA StartEndsShape ==
    ASSUME NEW reply \in GoodEvent, reply.ok \in BOOLEAN, NEW waiting \in Seq(KnownJobs),
           StartEnds(reply, waiting)
    PROVE  outbox' \in Seq(GoodEvent) /\ busy' = NoRun
<1>1. <<reply>> \in Seq(GoodEvent)
  OBVIOUS
<1> QED BY <1>1, SharedGood, ConcatProperties DEF StartEnds

\* An item of work is taken.
LEMMA WorkTaken ==
    ASSUME HostShape, NEW kind, Taking(kind)
    PROVE  /\ works # <<>> /\ Head(works) \in GoodWork /\ Head(works).kind = kind
           /\ works' = Tail(works) /\ works' \in Seq(GoodWork)
BY HeadTailProperties DEF HostShape, Taking

\* A start in hand, or one that waits, has the requests that wait for it.
LEMMA WaitingShape ==
    ASSUME WorkerShape, NEW r \in RunIds, InHand(r) \/ r \in Deferred
    PROVE  /\ Waiting(r) \in Seq(KnownJobs) /\ Waiting(r) # <<>>
           /\ Head(Waiting(r)) \in KnownJobs /\ Tail(Waiting(r)) \in Seq(KnownJobs)
           /\ InHand(r) => Waiting(r) = busy.jobs
<1>1. Waiting(r) \in Seq(KnownJobs) /\ Waiting(r) # <<>>
  BY DEF WorkerShape, GoodBusy, InHand, Waiting, Deferred
<1>2. InHand(r) => Waiting(r) = busy.jobs
  BY DEF Waiting
<1> QED BY <1>1, <1>2, HeadTailProperties

\* A step of the worker changes no slot and nothing of the actor but its queues.
LEMMA WorkerMoves ==
    ASSUME HostShape, UNCHANGED <<jobs, runsDead, launchDead, quiescing, signalled>>,
           UNCHANGED slots \/ SlotsShape',
           works' \in Seq(GoodWork), events' \in Seq(GoodEvent), outbox' \in Seq(GoodEvent),
           busy' \in GoodBusy \union {NoRun}, deferred' \in [RunIds -> Seq(KnownJobs)]
    PROVE  HostShape'
<1>1. SlotsShape' /\ KnownJobs \subseteq KnownJobs'
  BY DEF HostShape, SlotsShape, KnownJobs
<1> QED BY <1>1, ShapeKept DEF HostShape

\* The run in hand with the requests that wait for it.
LEMMA BusyGood ==
    ASSUME NEW r \in RunIds, NEW waiting \in Seq(KnownJobs), waiting # <<>>
    PROVE  [run |-> r, jobs |-> waiting] \in GoodBusy
BY DEF GoodBusy

\* An item of work is taken and answered, or a start is reserved with it.
LEMMA TakeShape ==
    ASSUME HostShape, TakeWork PROVE HostShape'
<1>0. /\ works \in Seq(GoodWork) /\ outbox \in Seq(GoodEvent)
      /\ deferred \in [RunIds -> Seq(KnownJobs)] /\ busy \in GoodBusy \union {NoRun}
      /\ events \in Seq(GoodEvent) /\ NoRun \in RunIds \union {NoRun}
      /\ KnownJobs \subseteq Jobs
  BY DEF HostShape, WorkerShape, KnownJobs
<1>a. \A w \in GoodWork : /\ w.kind \in {"start", "finish"} => w.job \in KnownJobs
                          /\ w.kind # "start" => w.run \in RunIds
                          /\ w.job \in Jobs \union {NoJob}
  BY DEF GoodWork, Work
<1>b. \A e \in GoodEvent : <<e>> \in Seq(GoodEvent)
  OBVIOUS
<1>c. \A j \in KnownJobs : <<j>> \in Seq(KnownJobs) /\ <<j>> # <<>>
  OBVIOUS
<1>1. CASE JoinStart
  <2> DEFINE j == Head(works).job
  <2>1. /\ works' \in Seq(GoodWork) /\ j \in KnownJobs
    BY <1>1, <1>a, WorkTaken DEF JoinStart
  <2>2. PICK r \in RunIds :
           \/ deferred' = [deferred EXCEPT ![r] = Append(@, j)] /\ UNCHANGED <<outbox, busy>>
           \/ Replying(Reply("start", j, NoRun, FALSE))
    BY <1>1 DEF JoinStart, Deferred
  <2>3. UNCHANGED <<slots, jobs, runsDead, launchDead, quiescing, signalled, events>>
    BY <1>1 DEF JoinStart, actorVars
  <2>4. Reply("start", j, NoRun, FALSE) \in GoodEvent
    BY <2>1, RepliesGood DEF KnownJobs
  <2>5. Append(deferred[r], j) \in Seq(KnownJobs)
    BY <1>0, <2>1, AppendProperties
  <2>6. /\ outbox' \in Seq(GoodEvent) /\ busy' \in GoodBusy \union {NoRun}
        /\ deferred' \in [RunIds -> Seq(KnownJobs)]
    BY <1>0, <1>b, <2>2, <2>4, <2>5 DEF Replying
  <2> QED BY <1>0, <2>1, <2>3, <2>6, WorkerMoves
<1>2. CASE RefuseStart
  <2> DEFINE j == Head(works).job
  <2>1. /\ works' \in Seq(GoodWork) /\ j \in KnownJobs
    BY <1>2, <1>a, WorkTaken DEF RefuseStart
  <2>2. \/ Replying(Reply("start", j, NoRun, FALSE))
        \/ \E ok \in BOOLEAN : Replying([Reply("start", j, NoRun, ok) EXCEPT !.existing = ok])
    BY <1>2 DEF RefuseStart
  <2>3. UNCHANGED <<slots, jobs, runsDead, launchDead, quiescing, signalled, events>>
    BY <1>2 DEF RefuseStart, actorVars
  <2>4. /\ Reply("start", j, NoRun, FALSE) \in GoodEvent
        /\ \A ok \in BOOLEAN : [Reply("start", j, NoRun, ok) EXCEPT !.existing = ok] \in GoodEvent
    BY <2>1, RepliesGood DEF KnownJobs
  <2>5. outbox' \in Seq(GoodEvent) /\ UNCHANGED <<busy, deferred>>
    BY <1>b, <2>2, <2>4 DEF Replying
  <2> QED BY <1>0, <2>1, <2>3, <2>5, WorkerMoves
<1>3. CASE ReserveStart
  <2> DEFINE j == Head(works).job
             r == JobRun[j]
  <2>1. /\ works' \in Seq(GoodWork) /\ j \in KnownJobs /\ r \in RunIds
    BY <1>0, <1>3, <1>a, WorkTaken, RunHostAssumption DEF ReserveStart
  <2>2. \/ deferred' = [deferred EXCEPT ![r] = <<j>>] /\ UNCHANGED busy
        \/ busy' = [run |-> r, jobs |-> <<j>>] /\ UNCHANGED deferred
    BY <1>3 DEF ReserveStart
  <2>3. UNCHANGED <<slots, jobs, runsDead, launchDead, quiescing, signalled, events, outbox>>
    BY <1>3 DEF ReserveStart, actorVars
  <2>c. <<j>> \in Seq(KnownJobs) /\ [run |-> r, jobs |-> <<j>>] \in GoodBusy
    BY <1>c, <2>1, BusyGood
  <2>4. busy' \in GoodBusy \union {NoRun} /\ deferred' \in [RunIds -> Seq(KnownJobs)]
    BY <1>0, <2>c, <2>1, <2>2
  <2> QED BY <1>0, <2>1, <2>3, <2>4, WorkerMoves
<1>4. CASE BeginFinish
  <2> DEFINE j == Head(works).job
             r == Head(works).run
  <2>1. /\ works' \in Seq(GoodWork) /\ j \in KnownJobs /\ r \in RunIds
    BY <1>4, <1>a, WorkTaken DEF BeginFinish
  <2>2. \/ Replying(Reply("finish", j, r, FALSE))
        \/ deferred' = [deferred EXCEPT ![r] = <<j>>] /\ UNCHANGED <<busy, outbox>>
        \/ busy' = [run |-> r, jobs |-> <<j>>] /\ UNCHANGED <<deferred, outbox>>
    BY <1>4 DEF BeginFinish
  <2>3. UNCHANGED <<slots, jobs, runsDead, launchDead, quiescing, signalled, events>>
    BY <1>4 DEF BeginFinish, actorVars
  <2>4. Reply("finish", j, r, FALSE) \in GoodEvent
    BY <2>1, RepliesGood DEF KnownJobs
  <2>c. <<j>> \in Seq(KnownJobs) /\ [run |-> r, jobs |-> <<j>>] \in GoodBusy
    BY <1>c, <2>1, BusyGood
  <2>5. /\ outbox' \in Seq(GoodEvent) /\ busy' \in GoodBusy \union {NoRun}
        /\ deferred' \in [RunIds -> Seq(KnownJobs)]
    BY <1>0, <1>b, <2>c, <2>1, <2>2, <2>4 DEF Replying
  <2> QED BY <1>0, <2>1, <2>3, <2>5, WorkerMoves
<1>5. ASSUME NEW ok \in BOOLEAN, HandleCancel(ok) PROVE HostShape'
  <2> DEFINE w == Head(works)
  <2>1. /\ works' \in Seq(GoodWork) /\ w.kind \in {"cancel", "ask"} /\ w.run \in RunIds
    BY <1>5, <1>a, WorkTaken DEF HandleCancel
  <2>2. Replying(Reply(w.kind, NoJob, w.run, ok))
    BY <1>5 DEF HandleCancel
  <2>3. UNCHANGED <<slots, jobs, runsDead, launchDead, quiescing, signalled, events>>
    BY <1>5 DEF HandleCancel, actorVars
  <2>4. Reply(w.kind, NoJob, w.run, ok) \in GoodEvent
    BY <2>1, RepliesGood
  <2>5. outbox' \in Seq(GoodEvent) /\ UNCHANGED <<busy, deferred>>
    BY <1>b, <2>2, <2>4 DEF Replying
  <2> QED BY <1>0, <2>1, <2>3, <2>5, WorkerMoves
<1> QED BY <1>1, <1>2, <1>3, <1>4, <1>5 DEF TakeWork

\* A start that is under way, or an end.
LEMMA StartShape ==
    ASSUME HostShape, NEW r \in RunIds, NEW ok \in BOOLEAN,
           \/ CommitStart(r, ok) \/ FailPreparation(r, ok) \/ ReportUnspawned(r, ok)
           \/ RecordRunning(r, ok) \/ ReportSpawned(r, ok) \/ CreateProcess(r)
           \/ TimeOut(r, ok) \/ CompleteFinish(r, ok)
    PROVE  HostShape'
<1>0. /\ works \in Seq(GoodWork) /\ outbox \in Seq(GoodEvent)
      /\ deferred \in [RunIds -> Seq(KnownJobs)] /\ busy \in GoodBusy \union {NoRun}
      /\ events \in Seq(GoodEvent) /\ WorkerShape /\ SlotsShape
      /\ KnownJobs \subseteq Jobs /\ NoRun \in RunIds \union {NoRun}
  BY DEF HostShape, WorkerShape, KnownJobs
<1> DEFINE j == Head(Waiting(r))
<1>1. InHand(r) => /\ busy \in GoodBusy /\ busy.run = r /\ busy.jobs = Waiting(r)
                   /\ j \in KnownJobs /\ Tail(Waiting(r)) \in Seq(KnownJobs)
                   /\ Head(busy.jobs) = j /\ Tail(busy.jobs) = Tail(Waiting(r))
  BY <1>0, WaitingShape DEF InHand
<1>2. Completing(r) => /\ Waiting(r) \in Seq(KnownJobs) /\ Waiting(r) # <<>>
                       /\ j \in KnownJobs /\ Tail(Waiting(r)) \in Seq(KnownJobs)
                       /\ deferred' \in [RunIds -> Seq(KnownJobs)]
  <2> SUFFICES ASSUME Completing(r) PROVE /\ InHand(r) \/ r \in Deferred
                                          /\ deferred' \in [RunIds -> Seq(KnownJobs)]
    BY <1>0, WaitingShape
  <2>1. \/ r \in Deferred /\ deferred' = [deferred EXCEPT ![r] = <<>>]
        \/ InHand(r) /\ UNCHANGED deferred
    BY DEF Completing
  <2>2. <<>> \in Seq(KnownJobs)
    OBVIOUS
  <2> QED BY <1>0, <2>1, <2>2
<1>3. j \in KnownJobs =>
        /\ \A b \in BOOLEAN : /\ Reply("start", j, NoRun, b) \in GoodEvent
                              /\ Reply("finish", j, r, b) \in GoodEvent
                              /\ [Reply("start", j, r, FALSE) EXCEPT !.confirmed = b] \in GoodEvent
                              /\ \A c \in BOOLEAN : Spawned(j, r, b, c) \in GoodEvent
        /\ \A b \in BOOLEAN : Reply("start", j, NoRun, b).ok = b /\ Reply("finish", j, r, b).ok = b
        /\ \A b \in BOOLEAN : [Reply("start", j, r, FALSE) EXCEPT !.confirmed = b].ok = FALSE
        /\ \A b, c \in BOOLEAN : Spawned(j, r, b, c).ok = b
  <2>1. \A b \in BOOLEAN : Reply("start", j, NoRun, b).ok = b /\ Reply("finish", j, r, b).ok = b
    BY DEF Reply
  <2>2. /\ \A b \in BOOLEAN : [Reply("start", j, r, FALSE) EXCEPT !.confirmed = b].ok = FALSE
        /\ \A b, c \in BOOLEAN : Spawned(j, r, b, c).ok = b
    BY DEF Reply, Spawned
  <2> QED BY <1>0, <2>1, <2>2, RepliesGood
<1>s. ASSUME UNCHANGED actorVars, UNCHANGED works, UNCHANGED events,
             outbox' \in Seq(GoodEvent), busy' \in GoodBusy \union {NoRun},
             deferred' \in [RunIds -> Seq(KnownJobs)]
      PROVE  HostShape'
  <2>1. UNCHANGED <<slots, jobs, runsDead, launchDead, quiescing, signalled, works, events>>
    BY <1>s DEF actorVars
  <2> QED BY <1>0, <1>s, <2>1, WorkerMoves
<1>e. <<>> \in Seq(KnownJobs)
  OBVIOUS
<1>4. CASE CommitStart(r, ok)
  <2>1. Completing(r) /\ UNCHANGED <<actorVars, works, events>>
    BY <1>4 DEF CommitStart
  <2>2. \/ StartEnds(Reply("start", j, NoRun, FALSE), Tail(Waiting(r)))
        \/ busy' = [run |-> r, jobs |-> Waiting(r)] /\ UNCHANGED outbox
    BY <1>4 DEF CommitStart
  <2>a. [run |-> r, jobs |-> Waiting(r)] \in GoodBusy
    BY <1>2, <2>1, BusyGood
  <2>b. /\ Tail(Waiting(r)) \in Seq(KnownJobs) /\ Reply("start", j, NoRun, FALSE) \in GoodEvent
        /\ Reply("start", j, NoRun, FALSE).ok \in BOOLEAN
    BY <1>2, <1>3, <2>1
  <2>3. outbox' \in Seq(GoodEvent) /\ busy' \in GoodBusy \union {NoRun}
    BY <1>0, <2>a, <2>b, <2>2, StartEndsShape
  <2> QED BY <1>2, <1>s, <2>1, <2>3
<1>5. CASE FailPreparation(r, ok) \/ CreateProcess(r)
  <2>1. UNCHANGED <<actorVars, works, events, outbox, busy, deferred>>
    BY <1>5 DEF FailPreparation, CreateProcess, workerVars
  <2> QED BY <1>0, <1>s, <2>1
<1>6. CASE ReportUnspawned(r, ok)
  <2>1. /\ InHand(r) /\ UNCHANGED <<actorVars, works, events, deferred>>
        /\ StartEnds([Reply("start", j, r, FALSE) EXCEPT !.confirmed = ok], Tail(Waiting(r)))
    BY <1>1, <1>6 DEF ReportUnspawned
  <2>2. outbox' \in Seq(GoodEvent) /\ busy' = NoRun
    BY <1>1, <1>3, <2>1, StartEndsShape
  <2> QED BY <1>0, <1>s, <2>1, <2>2
<1>7. CASE RecordRunning(r, ok)
  <2>0. /\ InHand(r) /\ UNCHANGED <<jobs, runsDead, launchDead, quiescing, signalled, works,
                                    events, deferred>>
    BY <1>7 DEF RecordRunning
  <2>1. CASE ok
    BY <1>0, <1>7, <2>0, <2>1, WorkerMoves DEF RecordRunning
  <2>2. CASE ~ok
    <3>1. /\ slots' = [slots EXCEPT ![j].cancel = TRUE]
          /\ StartEnds(Spawned(j, r, FALSE, FALSE), Tail(Waiting(r)))
      BY <1>1, <1>7, <2>0, <2>2 DEF RecordRunning
    <3>2. outbox' \in Seq(GoodEvent) /\ busy' = NoRun
      BY <1>1, <1>3, <2>0, <3>1, StartEndsShape
    <3>3. SlotFine([slots[j] EXCEPT !.cancel = TRUE])
      <4> DEFINE s == slots[j]
      <4>1. SlotFine(s)
        BY <1>0, <1>1, <2>0 DEF SlotsShape, KnownJobs
      <4> HIDE DEF s
      <4>2. SlotFine([s EXCEPT !.cancel = TRUE])
        BY <4>1 DEF SlotFine, Slot
      <4> QED BY <4>2 DEF s
    <3>4. slots' = [slots EXCEPT ![j] = [slots[j] EXCEPT !.cancel = TRUE]]
      BY <3>1
    <3>5. jobs' \in [Jobs -> JobState] /\ KnownJobs' = KnownJobs
      BY <1>0, <2>0 DEF SlotsShape, KnownJobs
    <3>6. SlotsShape'
      BY <1>0, <1>1, <2>0, <3>3, <3>4, <3>5, OneSlotShape
    <3> QED BY <1>0, <2>0, <3>2, <3>6, WorkerMoves
  <2> QED BY <2>1, <2>2
<1>8. CASE ReportSpawned(r, ok)
  <2>1. /\ InHand(r) /\ UNCHANGED <<actorVars, works, events, deferred>>
        /\ \/ StartEnds(Spawned(j, r, ok, ok), Tail(Waiting(r)))
           \/ StartEnds(Spawned(j, r, TRUE, FALSE), Tail(Waiting(r)))
    BY <1>1, <1>8 DEF ReportSpawned
  <2>a. \A b, c \in BOOLEAN : Spawned(j, r, b, c) \in GoodEvent /\ Spawned(j, r, b, c).ok \in BOOLEAN
    BY <1>1, <1>3, <2>1
  <2>2. outbox' \in Seq(GoodEvent) /\ busy' = NoRun
    BY <1>1, <2>a, <2>1, StartEndsShape
  <2> QED BY <1>0, <1>s, <2>1, <2>2
<1>9. CASE TimeOut(r, ok)
  <2>1. /\ UNCHANGED <<actorVars, works, events, busy, deferred>>
        /\ outbox' = <<Reply("timeout", NoJob, r, ok)>>
    BY <1>9 DEF TimeOut, Replying
  <2>2. Reply("timeout", NoJob, r, ok) \in GoodEvent
    BY RepliesGood
  <2>3. outbox' \in Seq(GoodEvent)
    BY <2>1, <2>2
  <2> QED BY <1>0, <1>s, <2>1, <2>3
<1>10. CASE CompleteFinish(r, ok)
  <2>1. /\ Completing(r) /\ UNCHANGED <<actorVars, works, events>>
        /\ StartEnds(Reply("finish", j, r, ok), <<>>)
    BY <1>10 DEF CompleteFinish
  <2>2. outbox' \in Seq(GoodEvent) /\ busy' = NoRun
    BY <1>2, <1>3, <1>e, <2>1, StartEndsShape
  <2> QED BY <1>2, <1>s, <2>1, <2>2
<1> QED BY <1>4, <1>5, <1>6, <1>7, <1>8, <1>9, <1>10

\* Every step keeps the shapes.
LEMMA HostShapeStep ==
    ASSUME HostShape, [RunHostNext]_runHostVars PROVE HostShape'
<1>0. /\ works \in Seq(GoodWork) /\ outbox \in Seq(GoodEvent)
      /\ deferred \in [RunIds -> Seq(KnownJobs)] /\ busy \in GoodBusy \union {NoRun}
      /\ events \in Seq(GoodEvent)
  BY DEF HostShape, WorkerShape
<1>1. CASE ClientStep
  BY <1>1, ClientShape
<1>2. CASE TickStep
  BY <1>2, TickShape
<1>3. CASE TakeWork
  BY <1>3, TakeShape
<1>4. ASSUME NEW r \in RunIds, AdvanceStart(r) PROVE HostShape'
  <2>1. TRUE \in BOOLEAN
    OBVIOUS
  <2> QED BY <1>4, <2>1, StartShape DEF AdvanceStart
<1>5. ASSUME NEW r \in RunIds, NEW ok \in BOOLEAN, TimeOut(r, ok) \/ CompleteFinish(r, ok)
      PROVE  HostShape'
  BY <1>5, StartShape
<1>6. CASE SendEvent
  <2>1. /\ outbox # <<>> /\ events' = Append(events, Head(outbox)) /\ outbox' = Tail(outbox)
        /\ UNCHANGED <<slots, jobs, runsDead, launchDead, quiescing, signalled, works, busy,
                       deferred>>
    BY <1>6 DEF SendEvent, actorVars
  <2>2. Head(outbox) \in GoodEvent /\ outbox' \in Seq(GoodEvent)
    BY <1>0, <2>1, HeadTailProperties
  <2>3. events' \in Seq(GoodEvent)
    BY <1>0, <2>1, <2>2, AppendProperties
  <2> QED BY <1>0, <2>1, <2>2, <2>3, WorkerMoves
<1>7. CASE WorkerDies
  <2>1. /\ works' = <<>> /\ outbox' = <<>> /\ busy' = NoRun
        /\ deferred' = [r \in RunIds |-> <<>>]
        /\ UNCHANGED <<slots, jobs, runsDead, launchDead, quiescing, signalled, events>>
    BY <1>7 DEF WorkerDies, actorVars
  <2>2. <<>> \in Seq(GoodWork) /\ <<>> \in Seq(GoodEvent) /\ <<>> \in Seq(KnownJobs)
    OBVIOUS
  <2>3. deferred' \in [RunIds -> Seq(KnownJobs)]
    BY <2>1, <2>2
  <2> QED BY <1>0, <2>1, <2>2, <2>3, WorkerMoves
<1>8. CASE WorkerUnwinds \/ HostStarts \/ (\E r \in RunIds : ProcessesEnd(r)) \/ UNCHANGED runHostVars
  <2>1. UNCHANGED <<slots, jobs, runsDead, launchDead, quiescing, signalled, works, events,
                    outbox, busy, deferred>>
    BY <1>8 DEF WorkerUnwinds, HostStarts, ProcessesEnd, runHostVars, actorVars, workerVars
  <2> QED BY <1>0, <2>1, WorkerMoves
<1> QED BY <1>1, <1>2, <1>3, <1>4, <1>5, <1>6, <1>7, <1>8 DEF RunHostNext, WorkerLoop

\* At first there is nothing in any queue.
LEMMA HostShapeInit == RunHostInit => HostShape
<1> SUFFICES ASSUME RunHostInit PROVE HostShape
  OBVIOUS
<1>1. /\ slots = [j \in Jobs |-> NoSlot] /\ jobs = [j \in Jobs |-> "none"]
      /\ works = <<>> /\ events = <<>> /\ outbox = <<>> /\ busy = NoRun
      /\ deferred = [r \in RunIds |-> <<>>]
      /\ runsDead = FALSE /\ launchDead = FALSE /\ quiescing = FALSE /\ signalled = {}
  BY DEF RunHostInit
<1>2. SlotsShape
  BY <1>1 DEF SlotsShape, JobState
<1>3. <<>> \in Seq(GoodWork) /\ <<>> \in Seq(GoodEvent) /\ <<>> \in Seq(KnownJobs)
  OBVIOUS
<1>4. deferred \in [RunIds -> Seq(KnownJobs)]
  BY <1>1, <1>3
<1> QED BY <1>1, <1>2, <1>3, <1>4 DEF HostShape, WorkerShape
-----------------------------------------------------------------------------
(* The registry under the worker.                                          *)

\* Whatever the host does is one step of the registry, or none.
LEMMA HostRegistryStep ==
    ASSUME HostShape, [RunHostNext]_runHostVars PROVE [RegistryNext]_vars
<1>0. \A w \in GoodWork : w.kind = "start" => /\ w.job \in Jobs /\ JobRun[w.job] \in RunIds
                                              /\ JobOperation[w.job] \in RunOperations
                                              /\ JobTask[w.job] \in Tasks
  BY RunHostAssumption DEF GoodWork, KnownJobs
<1>b. \A w \in GoodWork : w.kind # "start" => w.run \in RunIds
  BY DEF GoodWork
<1>1. CASE ClientStep \/ TickStep \/ JoinStart \/ SendEvent \/ UNCHANGED runHostVars
  BY <1>1 DEF ClientStep, SubmitStart, CancelJob, AskCancel, CloseAll, CloseSession, TickStep,
     Receive, MarkRunsDead, LaunchDies, RetryCancel, ForceAfterGrace, ObserveExit, Reap,
     SendFinish, JoinStart, SendEvent, runHostVars
<1>2. CASE RefuseStart
  <2> DEFINE j == Head(works).job
             op == JobOperation[j]
             t == JobTask[j]
             parallel == j \in ParallelJobs
  <2>1. op \in RunOperations /\ t \in Tasks /\ parallel \in BOOLEAN
    BY <1>0, <1>2, WorkTaken DEF RefuseStart
  <2>2. \/ UNCHANGED vars
        \/ \E gone \in SUBSET RunIds :
              \/ BeginRefused(op, t, parallel, gone)
              \/ \E r \in RunIds : HistoryCutFails(op, t, parallel, r)
    BY <1>2 DEF RefuseStart
  <2> HIDE DEF op, t, parallel
  <2> QED BY <2>1, <2>2 DEF RegistryNext, BeginStep
<1>3. CASE ReserveStart
  <2> DEFINE j == Head(works).job
             op == JobOperation[j]
             t == JobTask[j]
             parallel == j \in ParallelJobs
             r == JobRun[j]
  <2>1. op \in RunOperations /\ t \in Tasks /\ parallel \in BOOLEAN /\ r \in RunIds
    BY <1>0, <1>3, WorkTaken DEF ReserveStart
  <2>2. \E gone \in SUBSET RunIds : BeginReserve(r, op, t, parallel, gone)
    BY <1>3 DEF ReserveStart
  <2> HIDE DEF op, t, parallel, r
  <2> QED BY <2>1, <2>2 DEF RegistryNext, BeginStep
<1>4. CASE BeginFinish
  <2>1. Head(works).run \in RunIds
    BY <1>b, <1>4, WorkTaken DEF BeginFinish
  <2>2. UNCHANGED vars \/ FinishProbe(Head(works).run)
    BY <1>4 DEF BeginFinish
  <2> QED BY <2>1, <2>2 DEF RegistryNext, WorkerStep
<1>5. ASSUME NEW ok \in BOOLEAN, HandleCancel(ok) PROVE [RegistryNext]_vars
  <2>1. Head(works).run \in RunIds
    BY <1>b, <1>5, WorkTaken DEF HandleCancel
  <2>2. UNCHANGED vars \/ Cancel(Head(works).run, ok)
    BY <1>5 DEF HandleCancel
  <2> QED BY <2>1, <2>2 DEF RegistryNext, WorkerStep
<1>6. ASSUME NEW r \in RunIds, NEW ok \in BOOLEAN,
             \/ CommitStart(r, ok) \/ FailPreparation(r, ok) \/ ReportUnspawned(r, ok)
             \/ RecordRunning(r, ok) \/ ReportSpawned(r, ok) \/ CreateProcess(r)
             \/ TimeOut(r, ok) \/ CompleteFinish(r, ok)
      PROVE  [RegistryNext]_vars
  <2>1. CASE CommitStart(r, ok)
    BY <2>1 DEF CommitStart, RegistryNext, WorkerStep
  <2>2. CASE FailPreparation(r, ok)
    <3> DEFINE cancelled == slots[Head(busy.jobs)].cancel
    <3>1. cancelled \in BOOLEAN
      <4>1. SlotsShape /\ WorkerShape /\ InHand(r)
        BY <2>2 DEF HostShape, FailPreparation
      <4>2. Head(busy.jobs) \in KnownJobs
        BY <4>1, WaitingShape
      <4> QED BY <4>1, <4>2 DEF SlotsShape, KnownJobs, SlotFine, Slot
    <3>2. PreparationFails(r, cancelled, ok)
      BY <2>2 DEF FailPreparation
    <3> HIDE DEF cancelled
    <3> QED BY <3>1, <3>2 DEF RegistryNext, WorkerStep
  <2>3. CASE ReportUnspawned(r, ok)
    BY <2>3 DEF ReportUnspawned, RegistryNext, WorkerStep
  <2>4. CASE RecordRunning(r, ok)
    BY <2>4 DEF RecordRunning, RegistryNext, WorkerStep
  <2>5. CASE ReportSpawned(r, ok)
    BY <2>5 DEF ReportSpawned, RegistryNext, WorkerStep
  <2>6. CASE CreateProcess(r)
    BY <2>6 DEF CreateProcess, RegistryNext, WorkerStep
  <2>7. CASE TimeOut(r, ok)
    BY <2>7 DEF TimeOut, RegistryNext, WorkerStep
  <2>8. CASE CompleteFinish(r, ok)
    BY <2>8 DEF CompleteFinish, RegistryNext, WorkerStep
  <2> QED BY <1>6, <2>1, <2>2, <2>3, <2>4, <2>5, <2>6, <2>7, <2>8
<1>7. CASE WorkerDies \/ WorkerUnwinds
  BY <1>7 DEF WorkerDies, WorkerUnwinds, RegistryNext, WorkerStep
<1>8. CASE HostStarts
  <2>1. {} \in SUBSET RunIds /\ TRUE \in BOOLEAN
    OBVIOUS
  <2> QED BY <1>8, <2>1 DEF HostStarts, RegistryNext, HostStep
<1>9. ASSUME NEW r \in RunIds, ProcessesEnd(r) PROVE [RegistryNext]_vars
  BY <1>9 DEF ProcessesEnd, RegistryNext, HostStep
<1>10. TRUE \in BOOLEAN
  OBVIOUS
<1> QED
  BY <1>1, <1>2, <1>3, <1>4, <1>5, <1>6, <1>7, <1>8, <1>9, <1>10
  DEF RunHostNext, WorkerLoop, TakeWork, AdvanceStart

\* So the registry keeps what it promises under this worker, too.
HostBase == HostShape /\ SafetyInv

\* The shapes and the registry at first.
LEMMA HostBaseInit == RunHostInit => HostBase
BY HostShapeInit, SafetyInvInit DEF RunHostInit, HostBase

\* The shapes and what the registry keeps of its records are inductive together.
LEMMA HostBaseStep ==
    ASSUME HostBase, [RunHostNext]_runHostVars PROVE HostBase'
BY HostShapeStep, HostRegistryStep, SafetyInvStep DEF HostBase
-----------------------------------------------------------------------------
(* Which runs the two sides have named to each other.                      *)

Told == Range(outbox) \union Range(events)
Asked == Range(works)

Named(r) ==
    \/ r \in signalled
    \/ \E e \in Told : e.run = r
    \/ \E w \in Asked : w.run = r
    \/ \E j \in KnownJobs : slots[j].run = r

\* A run that is signalled, whose cancellation a slot takes for durable, or
\* will when it has received what the worker has already said.
DurablyClosed(r) ==
    \/ r \in signalled
    \/ \E e \in Told : /\ e.run = r
                       /\ e.requested \/ (e.kind \in {"cancel", "ask", "timeout"} /\ e.ok)
    \/ \E j \in KnownJobs : slots[j].run = r /\ slots[j].durable

\* Its cancellation is recorded, in memory and in runs.json.
CancelOnRecord(r) ==
    /\ runs[r] # NoRun => runs[r].cancel_requested
    /\ ledger[r] # NoRun => ledger[r].cancel_requested

\* What the operations on channels do to the items in them.
LEMMA RangeAppend ==
    ASSUME NEW S, NEW s \in Seq(S), NEW x \in S
    PROVE  Range(Append(s, x)) = Range(s) \union {x}
<1> DEFINE a == Append(s, x)
<1>1. /\ DOMAIN a = 1..(Len(s) + 1) /\ a[Len(s) + 1] = x /\ Len(s) \in Nat
      /\ DOMAIN s = 1..Len(s) /\ \A i \in 1..Len(s) : a[i] = s[i]
  BY AppendProperties
<1> HIDE DEF a
<1>2. Range(a) = Range(s) \union {x}
  BY <1>1 DEF Range
<1> QED BY <1>2 DEF a

\* What is in a sequence, in two joined ones, and in what is left of one.
LEMMA SequenceRange ==
    ASSUME NEW S, NEW s \in Seq(S)
    PROVE  /\ Range(s) \subseteq S
           /\ \A x \in S : Range(<<x>>) = {x}
           /\ \A t \in Seq(S) : Range(s \o t) = Range(s) \union Range(t)
           /\ s # <<>> => /\ Head(s) \in Range(s) /\ Range(Tail(s)) \subseteq Range(s)
                          /\ Range(s) = Range(Tail(s)) \union {Head(s)}
           /\ Range(<<>>) = {}
<1>1. DOMAIN s = 1..Len(s) /\ Len(s) \in Nat
  OBVIOUS
<1>2. Range(s) \subseteq S
  BY <1>1, ElementOfSeq DEF Range
<1>3. ASSUME NEW x \in S PROVE Range(<<x>>) = {x}
  BY DEF Range
<1>4. ASSUME NEW t \in Seq(S) PROVE Range(s \o t) = Range(s) \union Range(t)
  <2> DEFINE a == s \o t
  <2>1. /\ DOMAIN t = 1..Len(t) /\ Len(t) \in Nat /\ DOMAIN a = 1..(Len(s) + Len(t))
        /\ \A i \in 1..(Len(s) + Len(t)) : a[i] = IF i <= Len(s) THEN s[i] ELSE t[i - Len(s)]
    BY ConcatProperties
  <2> HIDE DEF a
  <2>2. Range(a) \subseteq Range(s) \union Range(t)
    <3>1. ASSUME NEW x \in Range(a) PROVE x \in Range(s) \union Range(t)
      <4>1. PICK i \in 1..(Len(s) + Len(t)) : x = a[i]
        BY <2>1 DEF Range
      <4>2. CASE i <= Len(s)
        <5>1. i \in DOMAIN s /\ x = s[i]
          BY <1>1, <2>1, <4>1, <4>2
        <5> QED BY <5>1 DEF Range
      <4>3. CASE ~(i <= Len(s))
        <5>1. i - Len(s) \in DOMAIN t /\ x = t[i - Len(s)]
          BY <1>1, <2>1, <4>1, <4>3
        <5> QED BY <5>1 DEF Range
      <4> QED BY <4>2, <4>3
    <3> QED BY <3>1
  <2>3. Range(s) \subseteq Range(a)
    <3>1. \A i \in 1..Len(s) : i \in DOMAIN a /\ a[i] = s[i]
      BY <1>1, <2>1
    <3>2. ASSUME NEW x \in Range(s) PROVE x \in Range(a)
      <4>1. PICK i \in 1..Len(s) : x = s[i]
        BY <1>1 DEF Range
      <4> QED BY <3>1, <4>1 DEF Range
    <3> QED BY <3>2
  <2>4. \A i \in 1..Len(t) : Len(s) + i \in DOMAIN a /\ a[Len(s) + i] = t[i]
    BY <1>1, <2>1
  <2>5. Range(t) \subseteq Range(a)
    BY <2>1, <2>4 DEF Range
  <2> QED BY <2>2, <2>3, <2>5 DEF a
<1>5. ASSUME s # <<>>
      PROVE  /\ Head(s) \in Range(s) /\ Range(Tail(s)) \subseteq Range(s)
             /\ Range(s) = Range(Tail(s)) \union {Head(s)}
  <2> DEFINE a == Tail(s)
  <2>1. /\ Len(s) >= 1 /\ Head(s) = s[1] /\ DOMAIN a = 1..(Len(s) - 1)
        /\ \A i \in 1..(Len(s) - 1) : a[i] = s[i + 1]
    BY <1>5, HeadTailProperties, EmptySeq
  <2> HIDE DEF a
  <2>2. Range(a) \subseteq Range(s)
    <3>1. \A i \in 1..(Len(s) - 1) : i + 1 \in DOMAIN s
      BY <1>1
    <3> QED BY <2>1, <3>1 DEF Range
  <2>3. \A i \in 2..Len(s) : i - 1 \in DOMAIN a /\ a[i - 1] = s[i]
    BY <1>1, <2>1
  <2>4. \A i \in 2..Len(s) : s[i] \in Range(a)
    BY <2>3 DEF Range
  <2>5. Range(s) \subseteq Range(a) \union {Head(s)}
    BY <1>1, <2>1, <2>4 DEF Range
  <2>6. Head(s) \in Range(s)
    BY <1>1, <2>1 DEF Range
  <2> QED BY <2>2, <2>5, <2>6 DEF a
<1>6. Range(<<>>) = {}
  BY DEF Range
<1> QED BY <1>2, <1>3, <1>4, <1>5, <1>6

\* What the worker is asked after one more item.
LEMMA WorkAdded ==
    ASSUME NEW S, works \in Seq(S), NEW w \in S, works' = Append(works, w)
    PROVE  Asked' = Asked \union {w}
<1>1. Range(Append(works, w)) = Range(works) \union {w}
  BY RangeAppend
<1> QED BY <1>1 DEF Asked

\* What the worker is asked once it took an item.
LEMMA WorkGone ==
    ASSUME HostShape, NEW kind, Taking(kind)
    PROVE  /\ Asked' \subseteq Asked /\ Head(works) \in Asked
           /\ Asked = Asked' \union {Head(works)}
BY WorkTaken, SequenceRange DEF Asked, HostShape

\* An event that lets the actor take a cancellation for durable.
SaysDurable(e) == e.requested \/ (e.kind \in {"cancel", "ask", "timeout"} /\ e.ok)

\* What a step may do to these: a run that is named for the first time has a
\* record, and what is taken for durable is on record.
NamesSoundly(r) ==
    /\ Named(r)' => Named(r) \/ runs[r] # NoRun
    /\ (ShellTasks = {} /\ ~runsDead /\ DurablyClosed(r)') => DurablyClosed(r) \/ CancelOnRecord(r)'

\* A step of the actor names no run that was not named.
LEMMA ActorNames ==
    ASSUME NEW r \in RunIds, Told' \subseteq Told,
           \A w \in Asked' : w \in Asked \/ w.run # r \/ Named(r) \/ runs[r] # NoRun,
           \A j \in KnownJobs' : slots'[j].run # r
                                 \/ (Named(r) /\ (slots'[j].durable => DurablyClosed(r))),
           r \in signalled' => Named(r) /\ (ShellTasks = {} /\ ~runsDead => DurablyClosed(r))
    PROVE  NamesSoundly(r)
BY DEF NamesSoundly, Named, DurablyClosed

\* A step of the worker names the runs it has, and says durable only what is on record.
LEMMA WorkerNames ==
    ASSUME NEW r \in RunIds, UNCHANGED <<jobs, signalled>>, Asked' \subseteq Asked,
           \A j \in KnownJobs : slots'[j].run = slots[j].run /\ slots'[j].durable = slots[j].durable,
           NEW New, Told' \subseteq Told \union New,
           \A e \in New : e.run # r \/ /\ Named(r) \/ runs[r] # NoRun
                                       /\ SaysDurable(e) => CancelOnRecord(r)'
    PROVE  NamesSoundly(r)
<1>1. KnownJobs' = KnownJobs
  BY DEF KnownJobs
<1> QED BY <1>1 DEF NamesSoundly, Named, DurablyClosed, SaysDurable

\* A request to close slots.
LEMMA ClosingsName ==
    ASSUME HostShape, NEW r \in RunIds, NEW targets \in SUBSET Opened, NEW force \in BOOLEAN,
           CloseSlots(targets, force), UNCHANGED <<jobs, events, outbox>>
    PROVE  NamesSoundly(r)
<1>0. SlotsShape /\ Opened = KnownJobs /\ \A j \in Opened : SlotFine(slots[j])
  BY OpenedFine DEF HostShape
<1>1. Told' \subseteq Told /\ KnownJobs' = KnownJobs
  BY DEF Told, KnownJobs
<1>2. \A w \in Asked' : w \in Asked \/ w.run # r \/ Named(r)
  <2> DEFINE Asking == {k \in targets : NeedsCancel(slots[k])}
             S == {CancelWork(slots[j].run) : j \in Asking}
  <2>1. PICK more \in Seq(S) : works' = works \o more
    BY Closings
  <2>2. S \subseteq GoodWork
    BY <1>0 DEF NeedsCancel, CancelWork, GoodWork, Work, SlotFine, Slot
  <2>3. more \in Seq(GoodWork) /\ Range(more) \subseteq S
    BY <2>2, SeqMonotonic, SequenceRange
  <2>4. Asked' = Asked \union Range(more)
    BY <2>1, <2>3, SequenceRange DEF HostShape, Asked
  <2>5. \A w \in S : w.run # r \/ Named(r)
    BY <1>0 DEF CancelWork, Named
  <2> QED BY <2>3, <2>4, <2>5
<1>3. \A j \in KnownJobs : slots'[j].run = slots[j].run /\ slots'[j].durable = slots[j].durable
  <2> TAKE j \in KnownJobs
  <2>1. j \in Jobs /\ SlotFine(slots[j])
    BY <1>0 DEF KnownJobs
  <2>2. slots'[j] = slots[j] \/ \E sent \in BOOLEAN : slots'[j] = Closing(slots[j], force, sent)
    BY <2>1, Closings
  <2> QED BY <2>1, <2>2, ClosingFine
<1>4. r \in signalled' => Named(r) /\ (~runsDead => DurablyClosed(r))
  <2>1. signalled' = signalled \union {slots[j].run : j \in
           {k \in targets : SlotLive(slots[k]) /\ ~NeedsCancel(slots[k]) /\ slots[k].runtime}}
    BY Closings
  <2>2. ASSUME NEW k \in targets, SlotLive(slots[k]), ~NeedsCancel(slots[k]), slots[k].run = r,
               ~runsDead
        PROVE  k \in KnownJobs /\ slots[k].durable
    BY <1>0, <2>2, RunHostSentinels DEF NeedsCancel
  <2>3. r \in signalled => Named(r) /\ DurablyClosed(r)
    BY DEF Named, DurablyClosed
  <2>4. (\E j \in KnownJobs : slots[j].run = r) => Named(r)
    BY DEF Named
  <2>5. (\E j \in KnownJobs : slots[j].run = r /\ slots[j].durable) => DurablyClosed(r)
    BY DEF DurablyClosed
  <2> QED BY <1>0, <2>1, <2>2, <2>3, <2>4, <2>5
<1>5. \A j \in KnownJobs' : slots'[j].run # r
                            \/ (Named(r) /\ (slots'[j].durable => DurablyClosed(r)))
  BY <1>1, <1>3 DEF Named, DurablyClosed
<1> QED BY <1>1, <1>2, <1>4, <1>5, ActorNames

\* The requests of clients.
LEMMA ClientNames ==
    ASSUME HostShape, NEW r \in RunIds, ClientStep PROVE NamesSoundly(r)
<1>0. /\ SlotsShape /\ Opened = KnownJobs /\ \A j \in Opened : SlotFine(slots[j])
      /\ works \in Seq(GoodWork)
  BY OpenedFine DEF HostShape
<1>n. /\ \A j \in KnownJobs : slots[j].run = r => Named(r) /\ (slots[j].durable => DurablyClosed(r))
      /\ r \in signalled => Named(r) /\ DurablyClosed(r)
  BY DEF Named, DurablyClosed
<1>1. ASSUME NEW j \in Jobs, SubmitStart(j) PROVE NamesSoundly(r)
  <2> DEFINE w == [kind |-> "start", job |-> j, run |-> NoRun]
  <2>1. /\ slots' = [slots EXCEPT ![j] = NewSlot] /\ jobs' = [jobs EXCEPT ![j] = "pending"]
        /\ works' = Append(works, w) /\ UNCHANGED <<events, outbox, signalled>>
    BY <1>1 DEF SubmitStart, Send, workerVars
  <2>2. w \in Work /\ w.run # r
    BY RunHostSentinels DEF Work
  <2>3. works \in Seq(Work)
    BY <1>0, SeqMonotonic DEF GoodWork
  <2>4. Told' = Told /\ Asked' = Asked \union {w}
    BY <2>1, <2>2, <2>3, WorkAdded DEF Told
  <2>5. NewSlot.run # r
    BY RunHostSentinels DEF NewSlot
  <2>6. \A i \in KnownJobs' : i = j \/ (i \in KnownJobs /\ slots'[i] = slots[i])
    <3> HIDE DEF w
    <3> QED BY <1>0, <2>1 DEF KnownJobs, SlotsShape
  <2>7. slots'[j] = NewSlot
    BY <1>0, <2>1 DEF SlotsShape
  <2>8. \A i \in KnownJobs' : slots'[i].run # r
                              \/ (Named(r) /\ (slots'[i].durable => DurablyClosed(r)))
    BY <1>n, <2>5, <2>6, <2>7
  <2>9. \A v \in Asked' : v \in Asked \/ v.run # r
    BY <2>2, <2>4
  <2> HIDE DEF w
  <2> QED BY <1>n, <2>1, <2>4, <2>8, <2>9, ActorNames
<1>2. ASSUME NEW q \in RunIds, AskCancel(q) PROVE NamesSoundly(r)
  <2> DEFINE w == [kind |-> "ask", job |-> NoJob, run |-> q]
  <2>1. /\ runs[q] # NoRun /\ works' = Append(works, w)
        /\ UNCHANGED <<slots, jobs, events, outbox, signalled>>
    BY <1>2 DEF AskCancel, Send, actorVars, workerVars
  <2>2. w \in GoodWork /\ w.run = q
    BY DEF GoodWork, Work
  <2>3. Told' = Told /\ Asked' = Asked \union {w} /\ KnownJobs' = KnownJobs
    BY <1>0, <2>1, <2>2, WorkAdded DEF Told, KnownJobs
  <2>4. \A v \in Asked' : v \in Asked \/ v.run # r \/ runs[r] # NoRun
    BY <2>1, <2>2, <2>3
  <2> HIDE DEF w
  <2> QED BY <1>n, <2>1, <2>3, <2>4, ActorNames
<1>3. ASSUME NEW j \in Jobs, NEW force \in BOOLEAN, CloseSession(j, force) PROVE NamesSoundly(r)
  <2>1. /\ {j} \in SUBSET Opened /\ CloseSlots({j}, force) /\ UNCHANGED <<jobs, events, outbox>>
    BY <1>3 DEF CloseSession, workerVars
  <2> QED BY <2>1, ClosingsName
<1>4. ASSUME NEW j \in Jobs, CancelJob(j) PROVE NamesSoundly(r)
  <2>0. j \in Opened /\ SlotFine(slots[j])
    BY <1>0, <1>4 DEF CancelJob, KnownJobs
  <2>1. CASE SlotLive(slots[j])
    <3>1. {j} \in SUBSET Opened /\ CloseSlots({j}, FALSE) /\ UNCHANGED <<jobs, events, outbox>>
      BY <1>4, <2>0, <2>1 DEF CancelJob, workerVars
    <3>2. FALSE \in BOOLEAN
      OBVIOUS
    <3> QED BY <3>1, <3>2, ClosingsName
  <2>2. CASE ~SlotLive(slots[j])
    <3>1. /\ slots' = [slots EXCEPT ![j].cancel = TRUE]
          /\ UNCHANGED <<works, jobs, events, outbox, signalled>>
      BY <1>4, <2>2 DEF CancelJob, workerVars
    <3>2. Told' = Told /\ Asked' = Asked /\ KnownJobs' = KnownJobs
      BY <3>1 DEF Told, Asked, KnownJobs
    <3>3. \A i \in KnownJobs : slots'[i].run = slots[i].run /\ slots'[i].durable = slots[i].durable
      BY <1>0, <3>1 DEF SlotsShape, KnownJobs, SlotFine, Slot
    <3> QED BY <1>n, <3>1, <3>2, <3>3, ActorNames
  <2> QED BY <2>1, <2>2
<1>5. ASSUME NEW force \in BOOLEAN, CloseAll(force) PROVE NamesSoundly(r)
  <2>1. /\ {j \in Opened : SlotLive(slots[j])} \in SUBSET Opened
        /\ CloseSlots({j \in Opened : SlotLive(slots[j])}, force)
        /\ UNCHANGED <<jobs, events, outbox>>
    BY <1>5 DEF CloseAll, workerVars
  <2> QED BY <2>1, ClosingsName
<1>6. Forces \subseteq BOOLEAN
  BY RunHostAssumption
<1> QED BY <1>1, <1>2, <1>3, <1>4, <1>5, <1>6 DEF ClientStep

\* The event received was told before.
LEMMA HeadTold ==
    ASSUME HostShape, Receive
    PROVE  /\ Head(events) \in Told /\ Head(events) \in GoodEvent /\ Told' \subseteq Told
           /\ Told = Told' \union {Head(events)}
<1>1. events # <<>> /\ events' = Tail(events) /\ UNCHANGED outbox
  BY DEF Receive, workerVars
<1> QED BY <1>1, HeadEvent, SequenceRange DEF Told, HostShape

\* An answer names its run to the slot it is for.
LEMMA ReceiveNames ==
    ASSUME HostShape, NEW r \in RunIds, Receive PROVE NamesSoundly(r)
<1> DEFINE e == Head(events)
           Kept(j) == slots'[j].run # r \/ (Named(r) /\ (slots'[j].durable => DurablyClosed(r)))
<1>0. /\ SlotsShape /\ Opened = KnownJobs /\ \A j \in Opened : SlotFine(slots[j])
      /\ e \in GoodEvent /\ e \in Told /\ Told' \subseteq Told /\ KnownJobs \subseteq Jobs
  BY OpenedFine, HeadTold DEF HostShape, KnownJobs
<1>n. /\ \A j \in KnownJobs : slots[j].run = r => Named(r) /\ (slots[j].durable => DurablyClosed(r))
      /\ r \in signalled => Named(r) /\ DurablyClosed(r)
      /\ e.run = r => Named(r) /\ (SaysDurable(e) => DurablyClosed(r))
  BY <1>0 DEF Named, DurablyClosed, SaysDurable
<1>1. CASE e.kind = "start" /\ ReceiveStart(e)
  <2>0. e.job \in KnownJobs /\ KnownJobs' = KnownJobs
    BY <1>0, <1>1 DEF ReceiveStart, GoodEvent, SlotsShape, KnownJobs
  <2>1. CASE e.runtime
    <3>1. PICK recorded \in BOOLEAN, refused \in BOOLEAN : Accept(e, recorded, refused)
      BY <1>1, <2>1 DEF ReceiveStart
    <3>2. PICK to : slots' = [slots EXCEPT ![e.job] = to] /\ to.run = e.run /\ to.durable = e.requested
      BY <1>0, <1>1, <2>1, <3>1, AcceptEffect
    <3>3. /\ works' \in {works, Append(works, CancelWork(e.run))}
          /\ \/ UNCHANGED signalled
             \/ signalled' = signalled \union {e.run} /\ (e.requested \/ ShellTasks # {})
      BY <1>0, <1>1, <2>1, <3>1, AcceptEffect
    <3>4. CancelWork(e.run) \in GoodWork /\ CancelWork(e.run).run = e.run
      BY <1>0, <2>1 DEF GoodEvent, CancelWork, GoodWork, Work
    <3>5. \A w \in Asked' : w \in Asked \/ w.run # r \/ Named(r)
      <4>1. Asked' \subseteq Asked \union {CancelWork(e.run)}
        BY <3>3, <3>4, WorkAdded DEF HostShape, Asked
      <4> QED BY <1>n, <3>4, <4>1
    <3>6. \A j \in KnownJobs : Kept(j)
      BY <1>0, <1>n, <2>0, <3>2 DEF SlotsShape, SaysDurable
    <3>7. r \in signalled' => Named(r) /\ (ShellTasks = {} => DurablyClosed(r))
      BY <1>n, <3>3 DEF SaysDurable
    <3> QED BY <1>0, <2>0, <3>5, <3>6, <3>7, ActorNames
  <2>2. CASE ~e.runtime
    <3>1. slots' = [slots EXCEPT ![e.job] = Answered(slots[e.job], e)]
          /\ UNCHANGED <<works, signalled>>
      BY <1>1, <2>2 DEF ReceiveStart
    <3>2. LET to == Answered(slots[e.job], e) IN
          /\ to.durable = slots[e.job].durable
          /\ to.run = slots[e.job].run \/ (to.run = e.run /\ slots[e.job].preparing)
      BY <1>0, <2>0, AnsweredFine
    <3>3. slots[e.job].preparing => slots[e.job].durable = FALSE
      BY <1>0, <2>0, RunHostSentinels DEF SlotFine, Slot
    <3>4. Asked' = Asked
      BY <3>1 DEF Asked
    <3> DEFINE to == Answered(slots[e.job], e)
    <3>5. to.run = r => Named(r) /\ (to.durable => DurablyClosed(r))
      BY <1>n, <2>0, <3>2, <3>3
    <3> HIDE DEF to
    <3>6. \A j \in KnownJobs : Kept(j)
      BY <1>0, <1>n, <2>0, <3>1, <3>5 DEF SlotsShape, to
    <3> QED BY <1>0, <1>n, <2>0, <3>1, <3>4, <3>6, ActorNames
  <2> QED BY <2>1, <2>2
<1>2. CASE e.kind \in {"cancel", "ask", "timeout"} /\ ReceiveCancel(e)
  <2>0. e.run \in RunIds /\ Asked' = Asked /\ KnownJobs' = KnownJobs
    BY <1>0, <1>2 DEF GoodEvent, ReceiveCancel, KnownJobs, Asked
  <2>1. \A j \in Owners(e.run) : /\ j \in KnownJobs /\ slots[j].run = e.run
                                 /\ CancelRecorded(slots[j]).run = e.run
                                 /\ CancelFailed(slots[j]).run = e.run
                                 /\ CancelFailed(slots[j]).durable = slots[j].durable
    BY <1>0, <2>0, CancelRecordedFine, CancelFailedFine DEF Owners
  <2>2. \A j \in Jobs : \/ slots'[j] = slots[j]
                        \/ j \in Owners(e.run) /\ slots'[j] = CancelFailed(slots[j])
                        \/ j \in Owners(e.run) /\ e.ok /\ slots'[j] = CancelRecorded(slots[j])
    BY <1>2 DEF ReceiveCancel
  <2>3. e.ok => SaysDurable(e)
    BY <1>2 DEF SaysDurable
  <2>4. ASSUME NEW j \in KnownJobs PROVE Kept(j)
    <3>1. CASE slots'[j] = slots[j]
      BY <1>n, <3>1
    <3>2. CASE j \in Owners(e.run) /\ slots'[j] = CancelFailed(slots[j])
      BY <1>n, <2>1, <3>2
    <3>3. CASE j \in Owners(e.run) /\ e.ok /\ slots'[j] = CancelRecorded(slots[j])
      BY <1>n, <2>1, <2>3, <3>3
    <3> QED BY <1>0, <2>2, <3>1, <3>2, <3>3
  <2>5. UNCHANGED signalled \/ (e.ok /\ signalled' = signalled \union {e.run})
    BY <1>2 DEF ReceiveCancel
  <2>6. r \in signalled' => Named(r) /\ DurablyClosed(r)
    BY <1>n, <2>3, <2>5
  <2> QED BY <1>0, <2>0, <2>4, <2>6, ActorNames
<1>3. CASE e.kind = "finish" /\ ReceiveFinish(e)
  <2>0. /\ e.job \in KnownJobs /\ UNCHANGED <<jobs, works, signalled>>
        /\ slots' = [slots EXCEPT ![e.job].final = Finalization(e.ok)]
    BY <1>0, <1>3 DEF GoodEvent, ReceiveFinish
  <2>1. Asked' = Asked /\ KnownJobs' = KnownJobs
    BY <2>0 DEF Asked, KnownJobs
  <2>2. \A j \in KnownJobs : slots'[j].run = slots[j].run /\ slots'[j].durable = slots[j].durable
    BY <1>0, <2>0 DEF SlotsShape, SlotFine, Slot
  <2> QED BY <1>0, <1>n, <2>0, <2>1, <2>2, ActorNames
<1> QED BY <1>1, <1>2, <1>3 DEF Receive

\* What a tick names: the runs of the slots.
LEMMA TickNames ==
    ASSUME HostShape, NEW r \in RunIds, TickStep PROVE NamesSoundly(r)
<1>0. /\ SlotsShape /\ Opened = KnownJobs /\ KnownJobs \subseteq Jobs
      /\ \A j \in Opened : SlotFine(slots[j]) /\ slots[j] \in Slot
  BY OpenedFine DEF HostShape, SlotFine, KnownJobs
<1>n. /\ \A j \in KnownJobs : slots[j].run = r => Named(r) /\ (slots[j].durable => DurablyClosed(r))
      /\ r \in signalled => Named(r) /\ DurablyClosed(r)
  BY DEF Named, DurablyClosed
<1>s. ASSUME UNCHANGED <<outbox, events>>, KnownJobs' = KnownJobs,
             \A j \in KnownJobs : slots'[j].run = slots[j].run
                                  /\ slots'[j].durable = slots[j].durable,
             \A w \in Asked' : w \in Asked \/ w.run # r \/ Named(r),
             r \in signalled' => r \in signalled \/ (Named(r) /\ (~runsDead => DurablyClosed(r)))
      PROVE  NamesSoundly(r)
  <2>1. Told' = Told
    BY <1>s DEF Told
  <2> QED BY <1>n, <1>s, <2>1, ActorNames
<1>1. CASE Receive
  BY <1>1, ReceiveNames
<1>2. CASE MarkRunsDead
  <2>1. /\ jobs' = [j \in Jobs |-> Lost(jobs[j])]
        /\ slots' = [j \in Jobs |-> IF j \in Opened THEN Orphaned(slots[j]) ELSE NoSlot]
        /\ UNCHANGED <<works, events, outbox, signalled>>
    BY <1>2 DEF MarkRunsDead, workerVars
  <2>2. KnownJobs' = KnownJobs /\ Asked' = Asked
    BY <1>0, <2>1 DEF SlotsShape, JobState, Lost, KnownJobs, Asked
  <2>3. \A j \in KnownJobs : slots'[j].run = slots[j].run /\ slots'[j].durable = slots[j].durable
    BY <1>0, <2>1, OrphanedFine
  <2> QED BY <1>s, <2>1, <2>2, <2>3
<1>3. CASE LaunchDies
  <2>1. /\ \A j \in Jobs : slots'[j] \in {slots[j], [slots[j] EXCEPT !.preparing = FALSE, !.state = "ended"]}
        /\ UNCHANGED <<jobs, works, events, outbox, signalled>>
    BY <1>3 DEF LaunchDies, workerVars
  <2>2. KnownJobs' = KnownJobs /\ Asked' = Asked
    BY <2>1 DEF KnownJobs, Asked
  <2>3. \A j \in KnownJobs : slots'[j].run = slots[j].run /\ slots'[j].durable = slots[j].durable
    BY <1>0, <2>1, UnpreparedFine
  <2> QED BY <1>s, <2>1, <2>2, <2>3
<1>4. ASSUME NEW j \in Jobs, RetryCancel(j) PROVE NamesSoundly(r)
  <2>1. /\ j \in KnownJobs /\ slots[j].run \in RunIds
        /\ slots' = [slots EXCEPT ![j].cancelling = TRUE]
        /\ works' = Append(works, CancelWork(slots[j].run))
        /\ UNCHANGED <<jobs, events, outbox, signalled>>
    BY <1>0, <1>4 DEF RetryCancel, NeedsCancel, Send, Slot, workerVars
  <2>2. CancelWork(slots[j].run) \in GoodWork /\ CancelWork(slots[j].run).run = slots[j].run
    BY <2>1 DEF CancelWork, GoodWork, Work
  <2>3. KnownJobs' = KnownJobs /\ Asked' = Asked \union {CancelWork(slots[j].run)}
    BY <2>1, <2>2, WorkAdded DEF KnownJobs, HostShape
  <2>4. \A i \in KnownJobs : slots'[i].run = slots[i].run /\ slots'[i].durable = slots[i].durable
    BY <1>0, <2>1 DEF SlotsShape, Slot
  <2>5. \A w \in Asked' : w \in Asked \/ w.run # r \/ Named(r)
    BY <1>n, <2>1, <2>2, <2>3
  <2> QED BY <1>s, <2>1, <2>3, <2>4, <2>5
<1>5. ASSUME NEW j \in Jobs, ForceAfterGrace(j) PROVE NamesSoundly(r)
  <2>1. /\ j \in KnownJobs /\ (slots[j].durable \/ runsDead)
        /\ slots' = [slots EXCEPT ![j].force = TRUE]
        /\ signalled' = signalled \union {slots[j].run}
        /\ UNCHANGED <<jobs, works, events, outbox>>
    BY <1>0, <1>5 DEF ForceAfterGrace, workerVars
  <2>2. KnownJobs' = KnownJobs /\ Asked' = Asked
    BY <2>1 DEF KnownJobs, Asked
  <2>3. \A i \in KnownJobs : slots'[i].run = slots[i].run /\ slots'[i].durable = slots[i].durable
    BY <1>0, <2>1 DEF SlotsShape, Slot
  <2>4. r \in signalled' => r \in signalled \/ (Named(r) /\ (~runsDead => DurablyClosed(r)))
    BY <1>n, <2>1
  <2> QED BY <1>s, <2>1, <2>2, <2>3, <2>4
<1>6. ASSUME NEW j \in Jobs, ObserveExit(j) \/ Reap(j) PROVE NamesSoundly(r)
  <2>1. /\ \/ slots' = [slots EXCEPT ![j].state = "closing"]
           \/ slots' = [slots EXCEPT ![j].runtime = FALSE, ![j].state = "ended"]
        /\ UNCHANGED <<jobs, works, events, outbox, signalled>>
    BY <1>6 DEF ObserveExit, Reap, workerVars
  <2>2. KnownJobs' = KnownJobs /\ Asked' = Asked
    BY <2>1 DEF KnownJobs, Asked
  <2>3. \A i \in KnownJobs : slots'[i].run = slots[i].run /\ slots'[i].durable = slots[i].durable
    <3>1. CASE slots' = [slots EXCEPT ![j].state = "closing"]
      BY <1>0, <3>1 DEF SlotsShape, Slot
    <3>2. CASE slots' = [slots EXCEPT ![j].runtime = FALSE, ![j].state = "ended"]
      BY <1>0, <3>2 DEF SlotsShape, Slot
    <3> QED BY <2>1, <3>1, <3>2
  <2> QED BY <1>s, <2>1, <2>2, <2>3
<1>7. ASSUME NEW j \in Jobs, SendFinish(j) PROVE NamesSoundly(r)
  <2> DEFINE w == [kind |-> "finish", job |-> j, run |-> slots[j].run]
  <2>1. /\ j \in KnownJobs /\ slots[j].run \in RunIds
        /\ slots' = [slots EXCEPT ![j].final = "inflight"] /\ works' = Append(works, w)
        /\ UNCHANGED <<jobs, events, outbox, signalled>>
    BY <1>0, <1>7 DEF SendFinish, Send, Slot, workerVars
  <2>2. w \in GoodWork /\ w.run = slots[j].run
    BY <2>1 DEF GoodWork, Work
  <2>3. KnownJobs' = KnownJobs /\ Asked' = Asked \union {w}
    BY <2>1, <2>2, WorkAdded DEF KnownJobs, HostShape
  <2>4. \A i \in KnownJobs : slots'[i].run = slots[i].run /\ slots'[i].durable = slots[i].durable
    BY <1>0, <2>1 DEF SlotsShape, Slot
  <2> HIDE DEF w
  <2>5. \A v \in Asked' : v \in Asked \/ v.run # r \/ Named(r)
    BY <1>n, <2>1, <2>2, <2>3
  <2> QED BY <1>s, <2>1, <2>3, <2>4, <2>5
<1> QED BY <1>1, <1>2, <1>3, <1>4, <1>5, <1>6, <1>7 DEF TickStep

\* A cancellation that was saved is on record.
LEMMA CancelRecords ==
    ASSUME SafetyInv, NEW r \in RunIds, Cancel(r, TRUE)
    PROVE  CancelOnRecord(r)'
<1>1. runs[r] \in RunRecord /\ runs \in [RunIds -> RunRecord \union {NoRun}]
  BY DEF SafetyInv, RegistryInv, RecordsInv, RecordsTypeOK, Cancel, Cancellable
<1>2. Cancelled(runs[r]).cancel_requested
  BY <1>1, UpdatesKeepOperation
<1>3. runs' = [runs EXCEPT ![r] = Cancelled(runs[r])] /\ ledger' = runs'
  BY DEF Cancel, SaveOrRollBack, Save
<1>4. runs'[r].cancel_requested /\ ledger'[r].cancel_requested
  BY <1>1, <1>2, <1>3
<1> QED BY <1>4 DEF CancelOnRecord

\* What a reply adds.
LEMMA ReplyTold ==
    ASSUME NEW reply \in GoodEvent, outbox' = <<reply>>, UNCHANGED events
    PROVE  Told' \subseteq Told \union {reply}
<1>1. Range(<<reply>>) = {reply}
  BY DEF Range
<1> QED BY <1>1 DEF Told

\* The requests that joined a start are told of no run.
SharedReply(e) == e.kind = "start" /\ e.run = NoRun /\ ~e.runtime /\ ~e.requested /\ e.existing = e.ok

\* The end of a start is told to the requests that shared it, and to nobody else.
LEMMA StartTold ==
    ASSUME NEW reply \in GoodEvent, reply.ok \in BOOLEAN, NEW waiting \in Seq(KnownJobs),
           StartEnds(reply, waiting), UNCHANGED events
    PROVE  \A e \in Told' : e \in Told \/ e = reply \/ SharedReply(e)
<1> DEFINE shared == Shared(waiting, reply.ok)
<1>1. /\ shared \in Seq(GoodEvent) /\ Len(shared) = Len(waiting)
      /\ \A i \in 1..Len(waiting) : SharedReply(shared[i])
  BY SharedGood DEF SharedReply
<1>2. outbox' = <<reply>> \o shared /\ <<reply>> \in Seq(GoodEvent)
  BY DEF StartEnds
<1> HIDE DEF shared
<1>3. Range(<<reply>> \o shared) = Range(<<reply>>) \union Range(shared)
  <2> DEFINE one == <<reply>>
  <2>1. one \in Seq(GoodEvent) /\ shared \in Seq(GoodEvent)
    BY <1>1, <1>2
  <2> HIDE DEF one
  <2>2. Range(one \o shared) = Range(one) \union Range(shared)
    BY <2>1, SequenceRange
  <2> QED BY <2>2 DEF one
<1>5. Range(<<reply>>) = {reply}
  BY DEF Range
<1>4. \A e \in Range(shared) : SharedReply(e)
  BY <1>1 DEF Range
<1> QED BY <1>2, <1>3, <1>4, <1>5 DEF Told

\* The worker answers an item of work, or ends by itself.
LEMMA TakeNames ==
    ASSUME HostBase, NEW r \in RunIds, TakeWork PROVE NamesSoundly(r)
<1>0. HostShape /\ SafetyInv /\ works \in Seq(GoodWork) /\ KnownJobs \subseteq Jobs
  BY DEF HostBase, HostShape, KnownJobs
<1>a. \A w \in GoodWork : /\ w.kind \in {"start", "finish"} => w.job \in KnownJobs
                          /\ w.kind # "start" => w.run \in RunIds
  BY DEF GoodWork
<1>n. \A w \in Asked : w.run = r => Named(r)
  BY DEF Named
<1>s. ASSUME UNCHANGED <<slots, jobs, signalled>>, Asked' \subseteq Asked,
             Told' = Told \/ \E e : /\ Told' \subseteq Told \union {e}
                                    /\ e.run # r \/ (Named(r) /\ (SaysDurable(e) => CancelOnRecord(r)'))
      PROVE  NamesSoundly(r)
  <2>0. \A j \in KnownJobs : slots'[j].run = slots[j].run /\ slots'[j].durable = slots[j].durable
    BY <1>s
  <2>1. CASE Told' = Told
    <3> DEFINE New == {}
    <3>1. /\ Told' \subseteq Told \union New
          /\ \A e \in New : e.run # r \/ /\ Named(r) \/ runs[r] # NoRun
                                         /\ SaysDurable(e) => CancelOnRecord(r)'
      BY <2>1
    <3> HIDE DEF New
    <3> QED BY <1>s, <2>0, <3>1, WorkerNames
  <2>2. ASSUME NEW e, Told' \subseteq Told \union {e},
               e.run # r \/ (Named(r) /\ (SaysDurable(e) => CancelOnRecord(r)'))
        PROVE  NamesSoundly(r)
    <3> DEFINE New == {e}
    <3>1. /\ Told' \subseteq Told \union New
          /\ \A x \in New : x.run # r \/ /\ Named(r) \/ runs[r] # NoRun
                                         /\ SaysDurable(x) => CancelOnRecord(r)'
      BY <2>2
    <3> HIDE DEF New
    <3> QED BY <1>s, <2>0, <3>1, WorkerNames
  <2> QED BY <1>s, <2>1, <2>2
<1>1. CASE JoinStart
  <2> DEFINE reply == Reply("start", Head(works).job, NoRun, FALSE)
  <2>1. /\ Asked' \subseteq Asked /\ reply \in GoodEvent /\ reply.run = NoRun
        /\ UNCHANGED <<slots, jobs, signalled, events>>
        /\ UNCHANGED outbox \/ outbox' = <<reply>>
    <3>1. Asked' \subseteq Asked /\ Head(works).job \in KnownJobs
      BY <1>0, <1>1, <1>a, WorkGone, WorkTaken DEF JoinStart
    <3>2. UNCHANGED <<slots, jobs, signalled, events>> /\ (UNCHANGED outbox \/ outbox' = <<reply>>)
      BY <1>1 DEF JoinStart, actorVars, Replying
    <3>3. reply \in GoodEvent /\ reply.run = NoRun
      BY <1>0, <3>1, RepliesGood DEF Reply
    <3> QED BY <3>1, <3>2, <3>3
  <2> HIDE DEF reply
  <2>2. Told' = Told \/ Told' \subseteq Told \union {reply}
    BY <2>1, ReplyTold DEF Told
  <2> QED BY <1>s, <2>1, <2>2, RunHostSentinels
<1>2. CASE RefuseStart
  <2> DEFINE reply(ok) == [Reply("start", Head(works).job, NoRun, ok) EXCEPT !.existing = ok]
  <2>1. Asked' \subseteq Asked /\ Head(works).job \in KnownJobs
    BY <1>0, <1>2, <1>a, WorkGone, WorkTaken DEF RefuseStart
  <2>2. /\ UNCHANGED <<slots, jobs, signalled, events>>
        /\ \/ outbox' = <<Reply("start", Head(works).job, NoRun, FALSE)>>
           \/ \E ok \in BOOLEAN : outbox' = <<reply(ok)>>
    BY <1>2 DEF RefuseStart, actorVars, Replying
  <2> DEFINE plain == Reply("start", Head(works).job, NoRun, FALSE)
  <2>3. /\ plain \in GoodEvent /\ plain.run = NoRun
        /\ \A ok \in BOOLEAN : reply(ok) \in GoodEvent /\ reply(ok).run = NoRun
    BY <1>0, <2>1, RepliesGood DEF Reply
  <2>4. CASE outbox' = <<plain>>
    <3> HIDE DEF plain
    <3>1. Told' \subseteq Told \union {plain}
      BY <2>2, <2>3, <2>4, ReplyTold
    <3> QED BY <1>s, <2>1, <2>2, <2>3, <3>1, RunHostSentinels
  <2>5. ASSUME NEW ok \in BOOLEAN, outbox' = <<reply(ok)>> PROVE NamesSoundly(r)
    <3> HIDE DEF reply
    <3>1. Told' \subseteq Told \union {reply(ok)}
      BY <2>2, <2>3, <2>5, ReplyTold
    <3> QED BY <1>s, <2>1, <2>2, <2>3, <3>1, RunHostSentinels
  <2> QED BY <2>2, <2>4, <2>5
<1>3. CASE ReserveStart
  <2>1. Asked' \subseteq Asked
    BY <1>0, <1>3, WorkGone DEF ReserveStart
  <2>2. UNCHANGED <<slots, jobs, signalled, events, outbox>>
    BY <1>3 DEF ReserveStart, actorVars
  <2> QED BY <1>s, <2>1, <2>2 DEF Told
<1>4. CASE BeginFinish
  <2> DEFINE q == Head(works).run
             reply == Reply("finish", Head(works).job, q, FALSE)
  <2>1. /\ Asked' \subseteq Asked /\ Head(works).job \in KnownJobs /\ q \in RunIds
        /\ q = r => Named(r)
    BY <1>0, <1>4, <1>a, <1>n, WorkGone, WorkTaken DEF BeginFinish
  <2>2. UNCHANGED <<slots, jobs, signalled, events>> /\ (UNCHANGED outbox \/ outbox' = <<reply>>)
    BY <1>4 DEF BeginFinish, actorVars, Replying
  <2>3. reply \in GoodEvent /\ reply.run = q /\ ~SaysDurable(reply)
    BY <1>0, <2>1, RepliesGood DEF Reply, SaysDurable
  <2> HIDE DEF reply
  <2>4. Told' = Told \/ Told' \subseteq Told \union {reply}
    BY <2>2, <2>3, ReplyTold DEF Told
  <2> QED BY <1>s, <2>1, <2>2, <2>3, <2>4
<1>5. ASSUME NEW ok \in BOOLEAN, HandleCancel(ok) PROVE NamesSoundly(r)
  <2>1. /\ Asked' \subseteq Asked /\ Head(works).kind \in {"cancel", "ask"}
        /\ Head(works).run \in RunIds
        /\ Head(works).run = r => Named(r)
    BY <1>0, <1>5, <1>a, <1>n, WorkGone, WorkTaken DEF HandleCancel
  <2> PICK q \in RunIds, kind \in {"cancel", "ask"} : q = Head(works).run /\ kind = Head(works).kind
    BY <2>1
  <2> DEFINE reply == Reply(kind, NoJob, q, ok)
  <2>2. /\ UNCHANGED <<slots, jobs, signalled, events>> /\ outbox' = <<reply>>
        /\ ok => Cancel(q, ok)
    BY <1>5 DEF HandleCancel, actorVars, Replying
  <2>3. reply \in GoodEvent /\ reply.run = q /\ reply.ok = ok /\ ~reply.requested
    BY <2>1, RepliesGood DEF Reply
  <2>4. SaysDurable(reply) => CancelOnRecord(q)'
    <3> SUFFICES ASSUME ok PROVE CancelOnRecord(q)'
      BY <2>3 DEF SaysDurable
    <3>1. Cancel(q, TRUE)
      BY <2>2
    <3> QED BY <1>0, <3>1, CancelRecords
  <2> HIDE DEF reply
  <2>5. Told' \subseteq Told \union {reply}
    BY <2>2, <2>3, ReplyTold
  <2>6. reply.run # r \/ (Named(r) /\ (SaysDurable(reply) => CancelOnRecord(r)'))
    <3>1. CASE q = r
      BY <2>1, <2>3, <2>4, <3>1
    <3>2. CASE q # r
      BY <2>3, <3>2
    <3> QED BY <3>1, <3>2
  <2> QED BY <1>s, <2>1, <2>2, <2>5, <2>6
<1> QED BY <1>1, <1>2, <1>3, <1>4, <1>5 DEF TakeWork

\* An answer that names a run with a record, and no cancellation that is not on
\* record.
LEMMA AnswerNames ==
    ASSUME NEW r \in RunIds, UNCHANGED <<jobs, signalled>>, Asked' \subseteq Asked,
           \A j \in KnownJobs : slots'[j].run = slots[j].run /\ slots'[j].durable = slots[j].durable,
           NEW reply, \A e \in Told' : e \in Told \/ e = reply \/ SharedReply(e),
           reply.run # r \/ /\ Named(r) \/ runs[r] # NoRun
                            /\ SaysDurable(reply) => CancelOnRecord(r)'
    PROVE  NamesSoundly(r)
<1> DEFINE New == {e \in Told' : e = reply \/ SharedReply(e)}
<1>1. Told' \subseteq Told \union New
  OBVIOUS
<1>2. \A e \in New : e.run # r \/ /\ Named(r) \/ runs[r] # NoRun
                                  /\ SaysDurable(e) => CancelOnRecord(r)'
  BY RunHostSentinels DEF SharedReply
<1> HIDE DEF New
<1> QED BY <1>1, <1>2, WorkerNames

\* The stretches of a start, and the end of a run.
LEMMA StartNames ==
    ASSUME HostBase, NEW r \in RunIds, NEW q \in RunIds, NEW ok \in BOOLEAN,
           \/ CommitStart(q, ok) \/ FailPreparation(q, ok) \/ ReportUnspawned(q, ok)
           \/ RecordRunning(q, ok) \/ ReportSpawned(q, ok) \/ CreateProcess(q)
           \/ TimeOut(q, ok) \/ CompleteFinish(q, ok)
    PROVE  NamesSoundly(r)
<1>0. /\ HostShape /\ SafetyInv /\ SlotsShape /\ WorkerShape /\ KnownJobs \subseteq Jobs
      /\ registry = "open" => StartSound
      /\ EntryMatches(q)
  BY DEF HostBase, HostShape, SafetyInv, RegistryInv, RecordsInv, EntriesInv, KnownJobs
<1>b. ASSUME InHand(q)
      PROVE  /\ busy.jobs \in Seq(KnownJobs) /\ busy.jobs # <<>> /\ Head(busy.jobs) \in KnownJobs
             /\ Tail(busy.jobs) \in Seq(KnownJobs)
  BY <1>0, <1>b, WaitingShape
<1>s. ASSUME UNCHANGED <<slots, jobs, signalled, works, events>>,
             UNCHANGED outbox \/ \E reply :
                /\ \A e \in Told' : e \in Told \/ e = reply \/ SharedReply(e)
                /\ reply.run # r \/ /\ Named(r) \/ runs[r] # NoRun
                                    /\ SaysDurable(reply) => CancelOnRecord(r)'
      PROVE  NamesSoundly(r)
  <2>0. /\ \A j \in KnownJobs : slots'[j].run = slots[j].run /\ slots'[j].durable = slots[j].durable
        /\ Asked' \subseteq Asked
    BY <1>s DEF Asked
  <2>1. CASE UNCHANGED outbox
    <3> DEFINE reply == Reply("start", NoJob, NoRun, FALSE)
    <3>1. reply.run # r
      BY RunHostSentinels DEF Reply
    <3>2. \A e \in Told' : e \in Told \/ e = reply \/ SharedReply(e)
      BY <1>s, <2>1 DEF Told
    <3> HIDE DEF reply
    <3> QED BY <1>s, <2>0, <3>1, <3>2, AnswerNames
  <2>2. ASSUME NEW reply, \A e \in Told' : e \in Told \/ e = reply \/ SharedReply(e),
               reply.run # r \/ /\ Named(r) \/ runs[r] # NoRun
                                /\ SaysDurable(reply) => CancelOnRecord(r)'
        PROVE  NamesSoundly(r)
    BY <1>s, <2>0, <2>2, AnswerNames
  <2> QED BY <1>s, <2>1, <2>2
<1>1. CASE CommitStart(q, ok)
  <2>1. UNCHANGED <<slots, jobs, signalled, works, events>>
    BY <1>1 DEF CommitStart, actorVars
  <2> PICK job \in KnownJobs, waiters \in Seq(KnownJobs) :
              job = Head(Waiting(q)) /\ waiters = Tail(Waiting(q))
    BY <1>0, <1>1, WaitingShape DEF CommitStart, Completing
  <2> DEFINE reply == Reply("start", job, NoRun, FALSE)
  <2>2. UNCHANGED outbox \/ StartEnds(reply, waiters)
    BY <1>1 DEF CommitStart
  <2>3. reply \in GoodEvent /\ reply.ok \in BOOLEAN /\ reply.run # r
    BY <1>0, RepliesGood, RunHostSentinels DEF Reply
  <2> HIDE DEF reply
  <2>4. CASE UNCHANGED outbox
    BY <1>s, <2>1, <2>4
  <2>5. CASE StartEnds(reply, waiters)
    <3>1. \A e \in Told' : e \in Told \/ e = reply \/ SharedReply(e)
      BY <2>1, <2>3, <2>5, StartTold
    <3> QED BY <1>s, <2>1, <2>3, <3>1
  <2> QED BY <2>2, <2>4, <2>5
<1>2. CASE FailPreparation(q, ok) \/ CreateProcess(q)
  BY <1>2, <1>s DEF FailPreparation, CreateProcess, actorVars, workerVars
<1>3. CASE ReportUnspawned(q, ok)
  <2>1. /\ UNCHANGED <<slots, jobs, signalled, works, events>> /\ InHand(q)
        /\ registry = "open" /\ At(q, "failed")
    BY <1>3 DEF ReportUnspawned, FinishUnspawned, actorVars
  <2>2. runs[q] # NoRun
    BY <1>0, <2>1 DEF StartSound
  <2> PICK job \in KnownJobs, waiters \in Seq(KnownJobs) :
              job = Head(busy.jobs) /\ waiters = Tail(busy.jobs)
    BY <1>b, <2>1
  <2> DEFINE reply == [Reply("start", job, q, FALSE) EXCEPT !.confirmed = ok]
  <2>3. StartEnds(reply, waiters)
    BY <1>3 DEF ReportUnspawned
  <2>4. /\ reply \in GoodEvent /\ reply.ok \in BOOLEAN /\ reply.run = q
        /\ ~SaysDurable(reply)
    BY <1>0, RepliesGood DEF Reply, SaysDurable
  <2> HIDE DEF reply
  <2>5. \A e \in Told' : e \in Told \/ e = reply \/ SharedReply(e)
    BY <2>1, <2>3, <2>4, StartTold
  <2> QED BY <1>s, <2>1, <2>2, <2>4, <2>5
<1>4. CASE RecordRunning(q, ok)
  <2>1. /\ UNCHANGED <<jobs, signalled, works, events>> /\ InHand(q)
        /\ registry = "open" /\ At(q, "spawned")
    BY <1>4 DEF RecordRunning, MarkRunning
  <2>2. runs[q] # NoRun
    BY <1>0, <2>1 DEF StartSound
  <2> PICK job \in KnownJobs, waiters \in Seq(KnownJobs) :
              job = Head(busy.jobs) /\ waiters = Tail(busy.jobs)
    BY <1>b, <2>1
  <2> DEFINE reply == Spawned(job, q, FALSE, FALSE)
  <2>3. \/ UNCHANGED <<slots, outbox>>
        \/ slots' = [slots EXCEPT ![job].cancel = TRUE] /\ StartEnds(reply, waiters)
    BY <1>4 DEF RecordRunning
  <2>4. /\ reply \in GoodEvent /\ reply.ok \in BOOLEAN /\ reply.run = q
        /\ ~SaysDurable(reply)
    BY <1>0, RepliesGood DEF Reply, SaysDurable, Spawned
  <2> HIDE DEF reply
  <2>5. CASE UNCHANGED <<slots, outbox>>
    BY <1>s, <2>1, <2>5
  <2>6. CASE slots' = [slots EXCEPT ![job].cancel = TRUE] /\ StartEnds(reply, waiters)
    <3>1. \A e \in Told' : e \in Told \/ e = reply \/ SharedReply(e)
      BY <2>1, <2>4, <2>6, StartTold
    <3>2. /\ \A j \in KnownJobs : slots'[j].run = slots[j].run /\ slots'[j].durable = slots[j].durable
          /\ Asked' \subseteq Asked
      BY <1>0, <2>1, <2>6 DEF SlotsShape, SlotFine, Slot, Asked, KnownJobs
    <3>3. reply.run # r \/ /\ Named(r) \/ runs[r] # NoRun
                           /\ SaysDurable(reply) => CancelOnRecord(r)'
      BY <2>2, <2>4
    <3> QED BY <2>1, <3>1, <3>2, <3>3, AnswerNames
  <2> QED BY <2>3, <2>5, <2>6
<1>5. CASE ReportSpawned(q, ok)
  <2>1. /\ UNCHANGED <<slots, jobs, signalled, works, events>> /\ InHand(q) /\ active[q] = "owned"
    BY <1>5 DEF ReportSpawned, actorVars
  <2>2. runs[q] # NoRun
    BY <1>0, <2>1 DEF EntryMatches
  <2> PICK job \in KnownJobs, waiters \in Seq(KnownJobs) :
              job = Head(busy.jobs) /\ waiters = Tail(busy.jobs)
    BY <1>b, <2>1
  <2> DEFINE reply(done, asked) == Spawned(job, q, done, asked)
  <2>3. \/ Cancel(q, ok) /\ StartEnds(reply(ok, ok), waiters)
        \/ StartEnds(reply(TRUE, FALSE), waiters)
    BY <1>5 DEF ReportSpawned
  <2>4. \A done \in BOOLEAN, asked \in BOOLEAN :
           /\ reply(done, asked) \in GoodEvent /\ reply(done, asked).ok \in BOOLEAN
           /\ reply(done, asked).run = q /\ (SaysDurable(reply(done, asked)) => asked)
    <3> TAKE done \in BOOLEAN, asked \in BOOLEAN
    <3> DEFINE e == reply(done, asked)
    <3>1. /\ e.kind = "start" /\ e.ok = done /\ e.run = q /\ e.requested = asked
      BY DEF Reply, Spawned
    <3>2. e \in GoodEvent
      <4>1. job \in Jobs \union {NoJob} /\ q \in RunIds \union {NoRun} /\ "start" \in {"start", "finish"}
        BY DEF KnownJobs
      <4>2. Spawned(job, q, done, asked) \in GoodEvent
        BY <4>1, RepliesGood
      <4> QED BY <4>2
    <3> HIDE DEF e
    <3>3. e.ok \in BOOLEAN /\ (SaysDurable(e) => asked)
      BY <3>1 DEF SaysDurable
    <3> QED BY <3>1, <3>2, <3>3 DEF e
  <2> HIDE DEF reply
  <2>5. ASSUME NEW done \in BOOLEAN, NEW asked \in BOOLEAN, StartEnds(reply(done, asked), waiters),
               asked => CancelOnRecord(q)'
        PROVE  NamesSoundly(r)
    <3>1. \A e \in Told' : e \in Told \/ e = reply(done, asked) \/ SharedReply(e)
      BY <2>1, <2>4, <2>5, StartTold
    <3>2. reply(done, asked).run # r \/ /\ Named(r) \/ runs[r] # NoRun
                                        /\ SaysDurable(reply(done, asked)) => CancelOnRecord(r)'
      BY <2>2, <2>4, <2>5
    <3> QED BY <1>s, <2>1, <3>1, <3>2
  <2>6. CASE Cancel(q, ok) /\ StartEnds(reply(ok, ok), waiters)
    <3>1. ok => CancelOnRecord(q)'
      <4> SUFFICES ASSUME ok PROVE CancelOnRecord(q)'
        OBVIOUS
      <4>1. Cancel(q, TRUE)
        BY <2>6
      <4> QED BY <1>0, <4>1, CancelRecords
    <3> QED BY <2>5, <2>6, <3>1
  <2>7. CASE StartEnds(reply(TRUE, FALSE), waiters)
    BY <2>5, <2>7
  <2> QED BY <2>3, <2>6, <2>7
<1>6. CASE TimeOut(q, ok)
  <2> DEFINE reply == Reply("timeout", NoJob, q, ok)
  <2>1. /\ UNCHANGED <<slots, jobs, signalled, works, events>> /\ outbox' = <<reply>>
        /\ active[q] = "owned" /\ Cancel(q, ok)
    BY <1>6 DEF TimeOut, actorVars, Replying
  <2>2. runs[q] # NoRun
    BY <1>0, <2>1 DEF EntryMatches
  <2>3. reply \in GoodEvent /\ reply.run = q /\ (SaysDurable(reply) => ok)
    BY RepliesGood DEF Reply, SaysDurable
  <2>4. ok => CancelOnRecord(q)'
    <4> SUFFICES ASSUME ok PROVE CancelOnRecord(q)'
      OBVIOUS
    <4>1. Cancel(q, TRUE)
      BY <2>1
    <4> QED BY <1>0, <4>1, CancelRecords
  <2> HIDE DEF reply
  <2>5. \A e \in Told' : e \in Told \/ e = reply \/ SharedReply(e)
    BY <2>1, <2>3, ReplyTold
  <2>6. reply.run # r \/ /\ Named(r) \/ runs[r] # NoRun
                         /\ SaysDurable(reply) => CancelOnRecord(r)'
    BY <2>2, <2>3, <2>4
  <2> QED BY <1>s, <2>1, <2>5, <2>6
<1>7. CASE CompleteFinish(q, ok)
  <2>1. /\ UNCHANGED <<slots, jobs, signalled, works, events>> /\ active[q] = "finishing"
    BY <1>7 DEF CompleteFinish, FinishObserved, actorVars
  <2>2. runs[q] # NoRun
    BY <1>0, <2>1 DEF EntryMatches
  <2> PICK job \in KnownJobs : job = Head(Waiting(q))
    BY <1>0, <1>7, WaitingShape DEF CompleteFinish, Completing
  <2> DEFINE reply == Reply("finish", job, q, ok)
  <2>3. StartEnds(reply, <<>>) /\ <<>> \in Seq(KnownJobs)
    BY <1>7 DEF CompleteFinish
  <2>4. /\ reply \in GoodEvent /\ reply.ok \in BOOLEAN /\ reply.run = q /\ ~SaysDurable(reply)
    BY <1>0, RepliesGood DEF Reply, SaysDurable
  <2> HIDE DEF reply
  <2>5. \A e \in Told' : e \in Told \/ e = reply \/ SharedReply(e)
    BY <2>1, <2>3, <2>4, StartTold
  <2> QED BY <1>s, <2>1, <2>2, <2>4, <2>5
<1> QED BY <1>1, <1>2, <1>3, <1>4, <1>5, <1>6, <1>7

\* Whatever the host does, it names runs soundly.
LEMMA NamesStep ==
    ASSUME HostBase, NEW r \in RunIds, [RunHostNext]_runHostVars PROVE NamesSoundly(r)
<1>0. HostShape /\ outbox \in Seq(GoodEvent) /\ events \in Seq(GoodEvent)
  BY DEF HostBase, HostShape, WorkerShape
<1>s. ASSUME UNCHANGED <<slots, jobs, signalled>>, Asked' \subseteq Asked, Told' \subseteq Told
      PROVE  NamesSoundly(r)
  <2> DEFINE reply == Reply("start", NoJob, NoRun, FALSE)
  <2>1. reply.run # r
    BY RunHostSentinels DEF Reply
  <2>2. /\ \A e \in Told' : e \in Told \/ e = reply \/ SharedReply(e)
        /\ \A j \in KnownJobs : slots'[j].run = slots[j].run /\ slots'[j].durable = slots[j].durable
    BY <1>s
  <2> HIDE DEF reply
  <2> QED BY <1>s, <2>1, <2>2, AnswerNames
<1>1. CASE ClientStep
  BY <1>0, <1>1, ClientNames
<1>2. CASE TickStep
  BY <1>0, <1>2, TickNames
<1>3. CASE TakeWork
  BY <1>3, TakeNames
<1>4. ASSUME NEW q \in RunIds, AdvanceStart(q) PROVE NamesSoundly(r)
  <2>1. TRUE \in BOOLEAN
    OBVIOUS
  <2> QED BY <1>4, <2>1, StartNames DEF AdvanceStart
<1>5. ASSUME NEW q \in RunIds, NEW ok \in BOOLEAN, TimeOut(q, ok) \/ CompleteFinish(q, ok)
      PROVE  NamesSoundly(r)
  BY <1>5, StartNames
<1>6. CASE SendEvent
  <2>1. /\ outbox # <<>> /\ events' = Append(events, Head(outbox)) /\ outbox' = Tail(outbox)
        /\ UNCHANGED <<slots, jobs, signalled, works>>
    BY <1>6 DEF SendEvent, actorVars
  <2>2. Head(outbox) \in GoodEvent
    BY <1>0, <2>1, HeadTailProperties
  <2>3. Range(events') = Range(events) \union {Head(outbox)}
    BY <1>0, <2>1, <2>2, RangeAppend
  <2>4. Head(outbox) \in Range(outbox) /\ Range(outbox') \subseteq Range(outbox)
    BY <1>0, <2>1, SequenceRange
  <2> QED BY <1>s, <2>1, <2>3, <2>4 DEF Told, Asked
<1>7. CASE WorkerDies
  <2>1. /\ works' = <<>> /\ outbox' = <<>> /\ UNCHANGED <<slots, jobs, signalled, events>>
    BY <1>7 DEF WorkerDies, actorVars
  <2>2. Range(works') = {} /\ Range(outbox') = {}
    BY <2>1 DEF Range
  <2> QED BY <1>s, <2>1, <2>2 DEF Told, Asked
<1>8. CASE WorkerUnwinds \/ HostStarts \/ (\E q \in RunIds : ProcessesEnd(q)) \/ UNCHANGED runHostVars
  <2>1. UNCHANGED <<slots, jobs, signalled, works, events, outbox>>
    BY <1>8 DEF WorkerUnwinds, HostStarts, ProcessesEnd, runHostVars, actorVars, workerVars
  <2> QED BY <1>s, <2>1 DEF Told, Asked
<1> QED BY <1>1, <1>2, <1>3, <1>4, <1>5, <1>6, <1>7, <1>8 DEF RunHostNext, WorkerLoop
-----------------------------------------------------------------------------
(* A run that is being prepared is one that nobody has heard of.           *)

Fresh(r) ==
    /\ ~Named(r) /\ runs[r] = NoRun /\ ledger[r] = NoRun
    /\ pending[r] = NoTicket /\ active[r] = "none"

\* No two start requests in the channel are for the same slot.
StartsApart ==
    \A i, k \in 1..Len(works) :
        (i # k /\ works[i].kind = "start" /\ works[k].kind = "start")
            => works[i].job # works[k].job

NamesInv ==
    /\ \A r \in RunIds : pending[r] # NoTicket => ~Named(r)
    /\ \A w \in Asked : w.kind = "start" => Fresh(JobRun[w.job])
    /\ \A j \in Jobs : jobs[j] = "none" => Fresh(JobRun[j])
    /\ StartsApart

\* How the channel of work changes: a request of a new slot comes in, requests
\* that start nothing do, the first item is taken, or the worker is gone.
WorkStep ==
    \/ works' = works \/ works' = <<>>
    \/ works # <<>> /\ works' = Tail(works)
    \/ \E more \in Seq({w \in GoodWork : w.kind # "start"}) : works' = works \o more
    \/ \E j \in Jobs : /\ jobs[j] = "none" /\ jobs'[j] # "none"
                       /\ works' = Append(works, [kind |-> "start", job |-> j, run |-> NoRun])

\* Adding one item that starts nothing.
LEMMA OneMore ==
    ASSUME HostShape, NEW w \in GoodWork, w.kind # "start", works' = Append(works, w)
    PROVE  WorkStep
<1> DEFINE S == {v \in GoodWork : v.kind # "start"}
           more == <<w>>
<1>1. more \in Seq(S)
  OBVIOUS
<1>2. works' = works \o more
  BY <1>1 DEF HostShape
<1> HIDE DEF more
<1> QED BY <1>1, <1>2 DEF WorkStep

\* The cancellations that closing the slots sends.
LEMMA ClosingWorkStep ==
    ASSUME HostShape, NEW targets \in SUBSET Opened, NEW force \in BOOLEAN,
           CloseSlots(targets, force)
    PROVE  WorkStep
<1> DEFINE S == {CancelWork(slots[j].run) : j \in {k \in targets : NeedsCancel(slots[k])}}
<1>1. PICK more \in Seq(S) : works' = works \o more
  BY Closings
<1>2. \A j \in Opened : SlotFine(slots[j])
  BY OpenedFine DEF HostShape
<1>3. S \subseteq {w \in GoodWork : w.kind # "start"}
  BY <1>2 DEF NeedsCancel, CancelWork, GoodWork, Work, SlotFine, Slot
<1>4. more \in Seq({w \in GoodWork : w.kind # "start"})
  BY <1>3, SeqMonotonic
<1> QED BY <1>1, <1>4 DEF WorkStep

\* Every step changes the channel of work in one of these ways.
LEMMA WorkSteps ==
    ASSUME HostShape, [RunHostNext]_runHostVars PROVE WorkStep
<1>0. /\ SlotsShape /\ Opened = KnownJobs /\ \A j \in Opened : SlotFine(slots[j])
      /\ events # <<>> => Head(events) \in GoodEvent
  BY OpenedFine, HeadEvent DEF HostShape
<1>1. ASSUME NEW j \in Jobs, SubmitStart(j) PROVE WorkStep
  <2>1. /\ jobs[j] = "none" /\ jobs'[j] = "pending"
        /\ works' = Append(works, [kind |-> "start", job |-> j, run |-> NoRun])
    BY <1>0, <1>1 DEF SubmitStart, Send, SlotsShape
  <2> QED BY <2>1 DEF WorkStep
<1>2. ASSUME NEW q \in RunIds, AskCancel(q) PROVE WorkStep
  <2> DEFINE w == [kind |-> "ask", job |-> NoJob, run |-> q]
  <2>1. w \in GoodWork /\ w.kind # "start" /\ works' = Append(works, w)
    BY <1>2 DEF AskCancel, Send, GoodWork, Work
  <2> HIDE DEF w
  <2> QED BY <2>1, OneMore
<1>3. ASSUME NEW j \in Jobs, NEW force \in BOOLEAN, CloseSession(j, force) PROVE WorkStep
  <2>1. {j} \in SUBSET Opened /\ CloseSlots({j}, force)
    BY <1>3 DEF CloseSession
  <2> QED BY <2>1, ClosingWorkStep
<1>4. ASSUME NEW j \in Jobs, CancelJob(j) PROVE WorkStep
  <2>1. j \in Opened
    BY <1>0, <1>4 DEF CancelJob, KnownJobs
  <2>2. CASE SlotLive(slots[j])
    <3>1. {j} \in SUBSET Opened /\ CloseSlots({j}, FALSE)
      BY <1>4, <2>1, <2>2 DEF CancelJob
    <3>2. FALSE \in BOOLEAN
      OBVIOUS
    <3> QED BY <3>1, <3>2, ClosingWorkStep
  <2>3. CASE ~SlotLive(slots[j])
    BY <1>4, <2>3 DEF CancelJob, WorkStep
  <2> QED BY <2>2, <2>3
<1>5. ASSUME NEW force \in BOOLEAN, CloseAll(force) PROVE WorkStep
  <2> DEFINE all == {j \in Opened : SlotLive(slots[j])}
  <2>1. all \in SUBSET Opened /\ CloseSlots(all, force)
    BY <1>5 DEF CloseAll
  <2> HIDE DEF all
  <2> QED BY <2>1, ClosingWorkStep
<1>6. CASE ClientStep
  <2>1. Forces \subseteq BOOLEAN
    BY RunHostAssumption
  <2> QED BY <1>1, <1>2, <1>3, <1>4, <1>5, <1>6, <2>1 DEF ClientStep
<1>7. CASE Receive
  <2> DEFINE e == Head(events)
  <2>1. e \in GoodEvent
    BY <1>0, <1>7 DEF Receive
  <2>2. CASE e.kind = "start" /\ ReceiveStart(e)
    <3>1. CASE e.runtime
      <4>1. PICK recorded \in BOOLEAN, refused \in BOOLEAN : Accept(e, recorded, refused)
        BY <2>2, <3>1 DEF ReceiveStart
      <4>2. works' \in {works, Append(works, CancelWork(e.run))}
        BY <1>0, <2>1, <2>2, <3>1, <4>1, AcceptEffect
      <4>3. CancelWork(e.run) \in GoodWork /\ CancelWork(e.run).kind # "start"
        BY <2>1, <3>1 DEF CancelWork, GoodWork, Work, GoodEvent
      <4>4. CASE works' = works
        BY <4>4 DEF WorkStep
      <4>5. CASE works' = Append(works, CancelWork(e.run))
        BY <4>3, <4>5, OneMore
      <4> QED BY <4>2, <4>4, <4>5
    <3>2. CASE ~e.runtime
      BY <2>2, <3>2 DEF ReceiveStart, WorkStep
    <3> QED BY <3>1, <3>2
  <2>3. CASE ReceiveCancel(e) \/ ReceiveFinish(e)
    BY <2>3 DEF ReceiveCancel, ReceiveFinish, WorkStep
  <2> QED BY <1>7, <2>2, <2>3 DEF Receive
<1>8. ASSUME NEW j \in Jobs, RetryCancel(j) PROVE WorkStep
  <2>1. slots[j].run \in RunIds /\ works' = Append(works, CancelWork(slots[j].run))
    BY <1>0, <1>8 DEF RetryCancel, NeedsCancel, Send, SlotFine, Slot
  <2>2. CancelWork(slots[j].run) \in GoodWork /\ CancelWork(slots[j].run).kind # "start"
    BY <2>1 DEF CancelWork, GoodWork, Work
  <2> QED BY <2>1, <2>2, OneMore
<1>9. ASSUME NEW j \in Jobs, SendFinish(j) PROVE WorkStep
  <2> DEFINE w == [kind |-> "finish", job |-> j, run |-> slots[j].run]
  <2>1. j \in KnownJobs /\ slots[j].run \in RunIds /\ works' = Append(works, w)
    BY <1>0, <1>9 DEF SendFinish, Send, SlotFine, Slot
  <2>2. w \in GoodWork /\ w.kind # "start"
    BY <2>1 DEF GoodWork, Work
  <2> HIDE DEF w
  <2> QED BY <2>1, <2>2, OneMore
<1>10. CASE TickStep
  <2>1. CASE MarkRunsDead \/ LaunchDies
              \/ (\E j \in Jobs : ForceAfterGrace(j) \/ ObserveExit(j) \/ Reap(j))
    BY <2>1 DEF MarkRunsDead, LaunchDies, ForceAfterGrace, ObserveExit, Reap, WorkStep
  <2> QED BY <1>7, <1>8, <1>9, <1>10, <2>1 DEF TickStep
<1>11. CASE TakeWork
  BY <1>11 DEF TakeWork, JoinStart, RefuseStart, ReserveStart, BeginFinish, HandleCancel, Taking,
     WorkStep
<1>12. ASSUME NEW q \in RunIds, AdvanceStart(q) PROVE WorkStep
  BY <1>12 DEF AdvanceStart, CommitStart, FailPreparation, ReportUnspawned, RecordRunning,
     ReportSpawned, CreateProcess, WorkStep
<1>13. CASE \/ SendEvent \/ WorkerDies \/ WorkerUnwinds \/ HostStarts
            \/ (\E q \in RunIds : ProcessesEnd(q))
            \/ (\E q \in RunIds, ok \in BOOLEAN : TimeOut(q, ok) \/ CompleteFinish(q, ok))
            \/ UNCHANGED runHostVars
  BY <1>13 DEF SendEvent, WorkerDies, WorkerUnwinds, HostStarts, ProcessesEnd, TimeOut,
     CompleteFinish, runHostVars, WorkStep
<1> QED BY <1>6, <1>10, <1>11, <1>12, <1>13 DEF RunHostNext, WorkerLoop

\* A request once known stays known.
LEMMA JobsKnown ==
    ASSUME HostShape, [RunHostNext]_runHostVars PROVE KnownJobs \subseteq KnownJobs'
<1>0. jobs \in [Jobs -> JobState]
  BY DEF HostShape, SlotsShape
<1>1. CASE UNCHANGED jobs
  BY <1>1 DEF KnownJobs
<1>2. ASSUME NEW j \in Jobs, NEW state, state # "none", jobs' = [jobs EXCEPT ![j] = state]
      PROVE  KnownJobs \subseteq KnownJobs'
  BY <1>0, <1>2 DEF KnownJobs
<1>3. CASE \E j \in Jobs : SubmitStart(j)
  BY <1>2, <1>3 DEF SubmitStart
<1>4. CASE Receive
  <2>1. Head(events) \in GoodEvent
    BY <1>4, HeadEvent DEF Receive
  <2>2. CASE Head(events).kind = "start" /\ ReceiveStart(Head(events))
    <3>1. Head(events).job \in Jobs
      BY <2>1, <2>2 DEF GoodEvent, KnownJobs
    <3> QED BY <1>2, <2>2, <3>1 DEF ReceiveStart
  <2>3. CASE ReceiveCancel(Head(events)) \/ ReceiveFinish(Head(events))
    BY <1>1, <2>3 DEF ReceiveCancel, ReceiveFinish
  <2> QED BY <1>4, <2>2, <2>3 DEF Receive
<1>5. CASE MarkRunsDead
  BY <1>0, <1>5 DEF MarkRunsDead, Lost, KnownJobs, JobState
<1>6. CASE \/ (ClientStep /\ ~\E j \in Jobs : SubmitStart(j))
           \/ (TickStep /\ ~Receive /\ ~MarkRunsDead)
           \/ WorkerLoop \/ HostStarts \/ (\E q \in RunIds : ProcessesEnd(q))
           \/ UNCHANGED runHostVars
  <2>1. CASE ClientStep /\ ~\E j \in Jobs : SubmitStart(j)
    BY <1>1, <2>1 DEF ClientStep, CancelJob, AskCancel, CloseAll, CloseSession, actorVars
  <2>2. CASE TickStep /\ ~Receive /\ ~MarkRunsDead
    BY <1>1, <2>2 DEF TickStep, LaunchDies, RetryCancel, ForceAfterGrace, ObserveExit, Reap,
       SendFinish
  <2>3. CASE WorkerLoop
    BY <1>1, <2>3 DEF WorkerLoop, TakeWork, JoinStart, RefuseStart, ReserveStart, BeginFinish,
       HandleCancel, SendEvent, AdvanceStart, CommitStart, FailPreparation, ReportUnspawned,
       RecordRunning, ReportSpawned, CreateProcess, TimeOut, CompleteFinish, WorkerDies,
       WorkerUnwinds, actorVars
  <2>4. CASE HostStarts \/ (\E q \in RunIds : ProcessesEnd(q)) \/ UNCHANGED runHostVars
    BY <1>1, <2>4 DEF HostStarts, ProcessesEnd, runHostVars, actorVars
  <2> QED BY <1>6, <2>1, <2>2, <2>3, <2>4
<1> QED BY <1>3, <1>4, <1>5, <1>6 DEF RunHostNext

\* The slots for which a start is reserved are those of requests it takes.
LEMMA Reserves ==
    ASSUME HostShape, [RunHostNext]_runHostVars,
           NEW r \in RunIds, pending[r] = NoTicket, pending'[r] # NoTicket
    PROVE  /\ Taking("start") /\ r = JobRun[Head(works).job]
           /\ UNCHANGED <<slots, jobs, signalled, events, outbox>>
<1>1. CASE ReserveStart
  <2>1. Taking("start") /\ UNCHANGED <<slots, jobs, signalled, events, outbox>>
    BY <1>1 DEF ReserveStart, actorVars
  <2> PICK q, op, t, parallel, gone : BeginReserve(q, op, t, parallel, gone) /\ q = JobRun[Head(works).job]
    BY <1>1 DEF ReserveStart
  <2>2. pending' = [pending EXCEPT ![q] = [operation |-> op, task |-> t]]
    BY DEF BeginReserve
  <2>3. q = r
    BY <2>2
  <2> QED BY <2>1, <2>3
<1>2. CASE UNCHANGED vars
  BY <1>2 DEF vars, registryVars
<1>3. CASE RefuseStart
  <2>1. UNCHANGED vars \/ UNCHANGED pending
    BY <1>3 DEF RefuseStart, BeginRefused, HistoryCutFails
  <2> QED BY <2>1 DEF vars, registryVars
<1>4. CASE BeginFinish \/ (\E ok \in BOOLEAN : HandleCancel(ok))
  <2>1. UNCHANGED vars \/ UNCHANGED pending
    BY <1>4 DEF BeginFinish, FinishProbe, HandleCancel, Cancel
  <2> QED BY <2>1 DEF vars, registryVars
<1>5. ASSUME NEW q \in RunIds, NEW ok \in BOOLEAN, CommitStart(q, ok) PROVE FALSE
  <2>1. pending' = [pending EXCEPT ![q] = NoTicket]
    BY <1>5 DEF CommitStart, BeginAbandon, BeginCommit
  <2> QED BY <2>1
<1>6. ASSUME NEW q \in RunIds, AdvanceStart(q), ~\E ok \in BOOLEAN : CommitStart(q, ok) PROVE FALSE
  <2>1. UNCHANGED vars \/ UNCHANGED pending
    BY <1>6 DEF AdvanceStart, FailPreparation, ReportUnspawned, RecordRunning, ReportSpawned,
       CreateProcess, PreparationFails, FinishUnspawned, MarkRunning, Cancel, SpawnProcess
  <2> QED BY <2>1 DEF vars, registryVars
<1>7. ASSUME NEW q \in RunIds, NEW ok \in BOOLEAN, TimeOut(q, ok) \/ CompleteFinish(q, ok) PROVE FALSE
  BY <1>7 DEF TimeOut, CompleteFinish, Cancel, FinishObserved
<1>8. CASE WorkerDies \/ WorkerUnwinds \/ HostStarts \/ (\E q \in RunIds : ProcessesEnd(q))
  BY <1>8 DEF WorkerDies, WorkerEnds, WorkerUnwinds, CloseSources, DropActive, HostStarts, Open,
     ProcessesEnd, ChildExits
<1>9. CASE ClientStep \/ TickStep \/ JoinStart \/ SendEvent \/ UNCHANGED runHostVars
  BY <1>2, <1>9 DEF ClientStep, SubmitStart, CancelJob, AskCancel, CloseAll, CloseSession, TickStep,
     Receive, MarkRunsDead, LaunchDies, RetryCancel, ForceAfterGrace, ObserveExit, Reap,
     SendFinish, JoinStart, SendEvent, runHostVars
<1> QED
  BY <1>1, <1>3, <1>4, <1>5, <1>6, <1>7, <1>8, <1>9 DEF RunHostNext, WorkerLoop, TakeWork

\* A run without record, ticket or entry gets a ticket first.
LEMMA BlankStays ==
    ASSUME RegistryInv, EntriesInv, [RegistryNext]_vars, NEW r \in RunIds,
           runs[r] = NoRun, ledger[r] = NoRun, active[r] = "none",
           pending[r] = NoTicket, pending'[r] = NoTicket
    PROVE  runs'[r] = NoRun /\ ledger'[r] = NoRun /\ active'[r] = "none"
<1>0. /\ runs \in [RunIds -> RunRecord \union {NoRun}]
      /\ ledger \in [RunIds -> RunRecord \union {NoRun}]
      /\ active \in [RunIds -> ActiveState]
  BY DEF RegistryInv, RecordsInv, RecordsTypeOK
<1>1. CASE Quiet
  BY <1>1, QuietKeeps
<1>2. ASSUME NEW q \in RunIds, NEW run \in RunRecord, Rewrites(q, run)
      PROVE  runs'[r] = NoRun /\ ledger'[r] = NoRun /\ active'[r] = "none"
  <2>1. q # r /\ runs' \in {runs, [runs EXCEPT ![q] = run]} /\ ledger' \in {ledger, [runs EXCEPT ![q] = run]}
    BY <1>2 DEF Rewrites
  <2>2. \/ UNCHANGED active \/ active' = [active EXCEPT ![q] = "finishing"]
        \/ active' = [active EXCEPT ![q] = "released"]
    BY <1>2 DEF Rewrites
  <2>3. runs'[r] = NoRun /\ ledger'[r] = NoRun
    BY <1>0, <2>1
  <2>4. active'[r] = "none"
    BY <1>0, <2>1, <2>2
  <2> QED BY <2>3, <2>4
<1>3. ASSUME NEW gone \in SUBSET RunIds, HistoryCut(gone)
      PROVE  runs'[r] = NoRun /\ ledger'[r] = NoRun /\ active'[r] = "none"
  <2>1. /\ runs'[r] = NoRun /\ active'[r] = "none" /\ ledger' \in {ledger, runs, runs'}
    BY <1>0, <1>3 DEF HistoryCut, Without
  <2> QED BY <2>1
<1>4. ASSUME NEW q \in RunIds, NEW op \in RunOperations, NEW t \in Tasks,
             NEW parallel \in BOOLEAN, HistoryCutFails(op, t, parallel, q)
      PROVE  runs'[r] = NoRun /\ ledger'[r] = NoRun /\ active'[r] = "none"
  BY <1>0, <1>4 DEF HistoryCutFails, Save, Without
<1>5. ASSUME NEW q \in RunIds, BeginAbandon(q) \/ FinishProbe(q)
      PROVE  runs'[r] = NoRun /\ ledger'[r] = NoRun /\ active'[r] = "none"
  BY <1>0, <1>5 DEF BeginAbandon, FinishProbe
<1>6. ASSUME NEW q \in RunIds, NEW ok \in BOOLEAN, BeginCommit(q, ok)
      PROVE  runs'[r] = NoRun /\ ledger'[r] = NoRun /\ active'[r] = "none"
  <2>1. q # r
    BY <1>6 DEF BeginCommit
  <2> DEFINE run == [operation |-> pending[q].operation, task |-> pending[q].task,
                     state |-> "Preparing", cancel_requested |-> FALSE,
                     cleanup_confirmed |-> FALSE]
  <2>2. /\ ledger' \in {ledger, [runs EXCEPT ![q] = run]}
        /\ runs' \in {runs, [runs EXCEPT ![q] = run]}
        /\ active' \in {active, [active EXCEPT ![q] = "owned"]}
    BY <1>6 DEF BeginCommit, Save
  <2> HIDE DEF run
  <2>3. runs'[r] = NoRun /\ ledger'[r] = NoRun
    BY <1>0, <2>1, <2>2
  <2>4. active'[r] = "none"
    BY <1>0, <2>1, <2>2
  <2> QED BY <2>3, <2>4
<1>7. ASSUME NEW gone \in SUBSET RunIds, NEW ok \in BOOLEAN, Open(gone, ok)
      PROVE  runs'[r] = NoRun /\ ledger'[r] = NoRun /\ active'[r] = "none"
  BY <1>0, <1>7 DEF Open, Save, Without, Recovered
<1>8. CASE WorkerEnds \/ DropActive \/ Crash
  BY <1>8 DEF WorkerEnds, DropActive, Crash, RegistryLost
<1>9. ASSUME NEW q \in RunIds, NEW op \in RunOperations, NEW t \in Tasks,
             NEW parallel \in BOOLEAN, NEW gone \in SUBSET RunIds,
             BeginReserve(q, op, t, parallel, gone) \/ BeginRefused(op, t, parallel, gone)
      PROVE  runs'[r] = NoRun /\ ledger'[r] = NoRun /\ active'[r] = "none"
  BY <1>3, <1>9 DEF BeginReserve, BeginRefused
<1> QED BY <1>1, <1>2, <1>4, <1>5, <1>6, <1>7, <1>8, <1>9, StepKinds

\* A run without any record keeps none until its start is reserved.
LEMMA FreshStays ==
    ASSUME HostBase, [RunHostNext]_runHostVars, NEW r \in RunIds, Fresh(r), pending'[r] = NoTicket
    PROVE  Fresh(r)'
<1>1. /\ NamesSoundly(r) /\ [RegistryNext]_vars /\ RegistryInv /\ EntriesInv
  BY NamesStep, HostRegistryStep DEF HostBase, SafetyInv
<1>2. runs'[r] = NoRun /\ ledger'[r] = NoRun /\ active'[r] = "none"
  BY <1>1, BlankStays DEF Fresh
<1> QED BY <1>1, <1>2 DEF Fresh, NamesSoundly

\* What was said of the items of the channel of work stays said of the rest.
LEMMA StartsStayApart ==
    ASSUME HostShape, StartsApart, WorkStep PROVE StartsApart'
<1>0. /\ works \in Seq(GoodWork) /\ Len(works) \in Nat
      /\ \A i \in 1..Len(works) : works[i] \in GoodWork
      /\ \A w \in GoodWork : w.kind = "start" => jobs[w.job] # "none"
  BY ElementOfSeq DEF HostShape, GoodWork, KnownJobs
<1>1. CASE works' = works
  BY <1>1 DEF StartsApart
<1>2. CASE works' = <<>>
  <2>1. 1..Len(works') = {}
    BY <1>2
  <2> QED BY <2>1 DEF StartsApart
<1>3. CASE works # <<>> /\ works' = Tail(works)
  <2>1. Len(works') = Len(works) - 1 /\ \A i \in 1..Len(works') : works'[i] = works[i + 1]
    BY <1>0, <1>3, HeadTailProperties
  <2>2. ASSUME NEW i \in 1..Len(works'), NEW k \in 1..Len(works'), i # k,
               works'[i].kind = "start", works'[k].kind = "start"
        PROVE  works'[i].job # works'[k].job
    <3>1. i + 1 \in 1..Len(works) /\ k + 1 \in 1..Len(works) /\ i + 1 # k + 1
      BY <1>0, <2>1, <2>2
    <3> QED BY <2>1, <2>2, <3>1 DEF StartsApart
  <2> QED BY <2>2 DEF StartsApart
<1>4. ASSUME NEW more \in Seq({w \in GoodWork : w.kind # "start"}), works' = works \o more
      PROVE  StartsApart'
  <2>0. more \in Seq(GoodWork) /\ \A i \in 1..Len(more) : more[i].kind # "start"
    BY ElementOfSeq, SeqMonotonic
  <2>1. /\ Len(works') = Len(works) + Len(more) /\ Len(more) \in Nat
        /\ \A i \in 1..Len(works') :
              works'[i] = IF i <= Len(works) THEN works[i] ELSE more[i - Len(works)]
    BY <1>0, <1>4, <2>0, ConcatProperties
  <2>2. ASSUME NEW i \in 1..Len(works'), works'[i].kind = "start"
        PROVE  i \in 1..Len(works) /\ works'[i] = works[i]
    <3>1. i > Len(works) => i - Len(works) \in 1..Len(more)
      BY <1>0, <2>1
    <3>2. i \in Nat
      BY <1>0, <2>1
    <3> QED BY <1>0, <2>0, <2>1, <2>2, <3>1, <3>2
  <2> QED BY <2>2 DEF StartsApart
<1>5. ASSUME NEW j \in Jobs, jobs[j] = "none",
             works' = Append(works, [kind |-> "start", job |-> j, run |-> NoRun])
      PROVE  StartsApart'
  <2> DEFINE w == [kind |-> "start", job |-> j, run |-> NoRun]
  <2>0. GoodWork \subseteq Work
    BY DEF GoodWork
  <2>1. w \in Work /\ works \in Seq(Work) /\ w.job = j
    <3>1. works \in Seq(Work)
      BY <1>0, <2>0, SeqMonotonic
    <3> QED BY <3>1 DEF Work
  <2> HIDE DEF w
  <2>2. /\ Len(works') = Len(works) + 1 /\ works'[Len(works) + 1] = w
        /\ \A i \in 1..Len(works) : works'[i] = works[i]
    <3>1. works' = Append(works, w)
      BY <1>5 DEF w
    <3> QED BY <2>1, <3>1, AppendProperties
  <2>3. \A i \in 1..Len(works) : works[i].kind = "start" => works[i].job # j
    BY <1>0, <1>5
  <2>4. \A i \in 1..Len(works') : i \in 1..Len(works) \/ i = Len(works) + 1
    BY <1>0, <2>2
  <2> QED BY <1>0, <2>1, <2>2, <2>3, <2>4 DEF StartsApart
<1> QED BY <1>1, <1>2, <1>3, <1>4, <1>5 DEF WorkStep

\* At first no run is named.
LEMMA NamesInvInit == RunHostInit => NamesInv
<1> SUFFICES ASSUME RunHostInit PROVE NamesInv
  OBVIOUS
<1>1. /\ slots = [j \in Jobs |-> NoSlot] /\ jobs = [j \in Jobs |-> "none"]
      /\ works = <<>> /\ events = <<>> /\ outbox = <<>> /\ signalled = {}
      /\ runs = [r \in RunIds |-> NoRun] /\ ledger = [r \in RunIds |-> NoRun]
      /\ pending = [r \in RunIds |-> NoTicket] /\ active = [r \in RunIds |-> "none"]
  BY DEF RunHostInit, RegistryInit
<1>2. Range(<<>>) = {} /\ 1..Len(works) = {}
  BY <1>1 DEF Range
<1>3. KnownJobs = {} /\ Told = {} /\ Asked = {}
  BY <1>1, <1>2 DEF KnownJobs, Told, Asked
<1>4. \A r \in RunIds : Fresh(r)
  BY <1>1, <1>3 DEF Fresh, Named
<1>5. \A j \in Jobs : JobRun[j] \in RunIds
  BY RunHostAssumption
<1> QED BY <1>1, <1>2, <1>3, <1>4, <1>5 DEF NamesInv, StartsApart

\* Every step leaves a run that was not named or reserved without any record.
LEMMA NamesInvStep ==
    ASSUME HostBase, NamesInv, [RunHostNext]_runHostVars PROVE NamesInv'
<1>0. /\ HostShape /\ SafetyInv /\ TicketsSound /\ KnownJobs \subseteq Jobs
      /\ \A r \in RunIds : NamesSoundly(r)
      /\ WorkStep /\ KnownJobs \subseteq KnownJobs'
      /\ JobRun \in [Jobs -> RunIds] /\ \A i, j \in Jobs : JobRun[i] = JobRun[j] => i = j
  BY NamesStep, WorkSteps, JobsKnown, RunHostAssumption
  DEF HostBase, SafetyInv, BooksInv, KnownJobs
<1>w. /\ works \in Seq(GoodWork) /\ \A w \in GoodWork : w.kind = "start" => w.job \in KnownJobs
  BY <1>0 DEF HostShape, GoodWork

\* A start that is reserved in this step was the one at the head.
<1>h. ASSUME NEW j \in Jobs, pending[JobRun[j]] = NoTicket, pending'[JobRun[j]] # NoTicket
      PROVE  /\ Taking("start") /\ Head(works) \in Asked /\ Head(works).kind = "start"
             /\ j = Head(works).job
  <2>1. JobRun[j] \in RunIds
    BY <1>0
  <2>2. Taking("start") /\ JobRun[j] = JobRun[Head(works).job]
    BY <1>0, <1>h, <2>1, Reserves
  <2>3. Head(works) \in Asked /\ Head(works) \in GoodWork /\ Head(works).kind = "start"
    BY <1>0, <2>2, WorkTaken, WorkGone
  <2>4. Head(works).job \in Jobs
    BY <1>0, <1>w, <2>3
  <2> QED BY <1>0, <2>2, <2>3, <2>4
<1>1. ASSUME NEW r \in RunIds, pending'[r] # NoTicket PROVE ~Named(r)'
  <2>1. CASE pending[r] # NoTicket
    BY <1>0, <2>1 DEF NamesInv, TicketsSound, NamesSoundly
  <2>2. CASE pending[r] = NoTicket
    <3>1. Taking("start") /\ r = JobRun[Head(works).job]
      BY <1>0, <1>1, <2>2, Reserves
    <3>2. Head(works) \in Asked /\ Head(works).kind = "start"
      BY <1>0, <3>1, WorkTaken, WorkGone
    <3>3. Fresh(r)
      BY <3>1, <3>2 DEF NamesInv
    <3> QED BY <1>0, <3>3 DEF Fresh, NamesSoundly
  <2> QED BY <2>1, <2>2
<1>3. ASSUME NEW j \in Jobs, jobs'[j] = "none" PROVE Fresh(JobRun[j])'
  <2>1. jobs[j] = "none" /\ j \notin KnownJobs /\ JobRun[j] \in RunIds
    BY <1>0, <1>3 DEF KnownJobs
  <2>2. Fresh(JobRun[j]) /\ pending[JobRun[j]] = NoTicket
    BY <2>1 DEF NamesInv, Fresh
  <2>3. pending'[JobRun[j]] = NoTicket
    <3> SUFFICES ASSUME pending'[JobRun[j]] # NoTicket PROVE FALSE
      OBVIOUS
    <3>1. Head(works) \in Asked /\ Head(works).kind = "start" /\ j = Head(works).job
      BY <1>h, <2>2
    <3>2. Asked \subseteq GoodWork
      BY <1>w, SequenceRange DEF Asked
    <3> QED BY <1>w, <2>1, <3>1, <3>2
  <2> PICK r \in RunIds : r = JobRun[j]
    BY <2>1
  <2>4. Fresh(r)'
    BY <2>2, <2>3, FreshStays
  <2> QED BY <2>4
<1>4. StartsApart'
  BY <1>0, StartsStayApart DEF NamesInv
<1>2. ASSUME NEW w \in Asked', w.kind = "start" PROVE Fresh(JobRun[w.job])'
  <2>1. CASE w \in Asked
    <3>1. w \in GoodWork /\ w.job \in Jobs
      BY <1>0, <1>w, <1>2, <2>1, SequenceRange DEF Asked
    <3>2. JobRun[w.job] \in RunIds /\ Fresh(JobRun[w.job]) /\ pending[JobRun[w.job]] = NoTicket
      BY <1>0, <1>2, <2>1, <3>1 DEF NamesInv, Fresh
    <3>3. pending'[JobRun[w.job]] = NoTicket
      <4> SUFFICES ASSUME pending'[JobRun[w.job]] # NoTicket PROVE FALSE
        OBVIOUS
      <4>1. Taking("start") /\ Head(works).kind = "start" /\ w.job = Head(works).job
        BY <1>h, <3>1, <3>2
      <4>2. /\ works # <<>> /\ works' = Tail(works) /\ Len(works) \in Nat /\ Head(works) = works[1]
            /\ Len(works') = Len(works) - 1 /\ \A i \in 1..Len(works') : works'[i] = works[i + 1]
            /\ DOMAIN works' = 1..Len(works')
        BY <1>w, <4>1, HeadTailProperties DEF Taking
      <4>3. PICK i \in 1..Len(works') : w = works'[i]
        BY <4>2 DEF Asked, Range
      <4>4. i + 1 \in 1..Len(works) /\ i + 1 # 1 /\ 1 \in 1..Len(works) /\ w = works[i + 1]
        BY <4>2, <4>3
      <4> QED BY <1>2, <4>1, <4>2, <4>4 DEF NamesInv, StartsApart
    <3> PICK r \in RunIds : r = JobRun[w.job]
      BY <3>2
    <3>4. Fresh(r)'
      BY <3>2, <3>3, FreshStays
    <3> QED BY <3>4
  <2>2. CASE w \notin Asked
    <3>1. PICK j \in Jobs : /\ jobs[j] = "none" /\ works' = Append(works, [kind |-> "start", job |-> j, run |-> NoRun])
      <4>1. works' # works /\ ~(works # <<>> /\ works' = Tail(works)) /\ works' # <<>>
        <5>1. Range(<<>>) = {}
          BY DEF Range
        <5> QED BY <1>w, <2>2, <5>1, SequenceRange DEF Asked
      <4>2. ASSUME NEW more \in Seq({v \in GoodWork : v.kind # "start"}), works' = works \o more
            PROVE  FALSE
        <5>1. more \in Seq(GoodWork) /\ Range(more) \subseteq {v \in GoodWork : v.kind # "start"}
          BY SeqMonotonic, SequenceRange
        <5>2. Asked' = Asked \union Range(more)
          BY <1>w, <4>2, <5>1, SequenceRange DEF Asked
        <5> QED BY <1>2, <2>2, <5>1, <5>2
      <4> QED BY <1>0, <4>1, <4>2 DEF WorkStep
    <3> DEFINE v == [kind |-> "start", job |-> j, run |-> NoRun]
    <3>2. v \in Work /\ works \in Seq(Work) /\ v.job = j /\ works' = Append(works, v)
      <4>1. GoodWork \subseteq Work
        BY DEF GoodWork
      <4>2. works \in Seq(Work)
        BY <1>w, <4>1, SeqMonotonic
      <4> QED BY <3>1, <4>2 DEF Work
    <3> HIDE DEF v
    <3>3. w = v
      BY <2>2, <3>2, WorkAdded
    <3>4. JobRun[j] \in RunIds /\ Fresh(JobRun[j]) /\ pending[JobRun[j]] = NoTicket
      BY <1>0, <3>1 DEF NamesInv, Fresh
    <3>5. pending'[JobRun[j]] = NoTicket
      <4> SUFFICES ASSUME pending'[JobRun[j]] # NoTicket PROVE FALSE
        OBVIOUS
      <4>1. Taking("start")
        BY <1>h, <3>4
      <4>2. Asked' \subseteq Asked
        BY <1>0, <4>1, WorkGone
      <4> QED BY <2>2, <4>2
    <3> PICK r \in RunIds : r = JobRun[j]
      BY <3>4
    <3>6. Fresh(r)'
      BY <3>4, <3>5, FreshStays
    <3> QED BY <3>2, <3>3, <3>6
  <2> QED BY <2>1, <2>2
<1> QED BY <1>1, <1>2, <1>3, <1>4 DEF NamesInv
-----------------------------------------------------------------------------
(* No signal before the cancellation is on disk.                           *)

\* While there is a worker, whatever the actor may take for durable is.
SignalInv ==
    /\ NamesInv
    /\ ShellTasks = {} /\ ~runsDead =>
          \A r \in RunIds : DurablyClosed(r) => CancelOnRecord(r)

\* A cancellation on record stays there: no save of an older memory, no restart
\* and no later report of the run takes it back.
LEMMA CancelStays ==
    ASSUME RegistryInv, EntriesInv, [RegistryNext]_vars, NEW r \in RunIds,
           pending[r] = NoTicket, CancelOnRecord(r)
    PROVE  CancelOnRecord(r)'
<1>0. /\ runs \in [RunIds -> RunRecord \union {NoRun}]
      /\ ledger \in [RunIds -> RunRecord \union {NoRun}]
      /\ NoRun \notin RunRecord
  BY SentinelAssumption DEF RegistryInv, RecordsInv, RecordsTypeOK
<1>s. ASSUME runs'[r] \in {runs[r], ledger[r], NoRun}, ledger'[r] \in {runs[r], ledger[r], NoRun}
      PROVE  CancelOnRecord(r)'
  BY <1>s DEF CancelOnRecord
<1>1. CASE Quiet
  BY <1>1, <1>s, QuietKeeps
<1>2. ASSUME NEW q \in RunIds, NEW run \in RunRecord, Rewrites(q, run)
      PROVE  CancelOnRecord(r)'
  <2>1. /\ runs' \in {runs, [runs EXCEPT ![q] = run]}
        /\ ledger' \in {ledger, [runs EXCEPT ![q] = run]}
        /\ runs[q] # NoRun /\ (runs[q].cancel_requested => run.cancel_requested)
    BY <1>2 DEF Rewrites
  <2>2. CASE q = r
    <3>1. runs'[r] \in {runs[r], run} /\ ledger'[r] \in {ledger[r], run}
      BY <1>0, <2>1, <2>2
    <3> QED BY <2>1, <2>2, <3>1 DEF CancelOnRecord
  <2>3. CASE q # r
    <3>1. runs'[r] = runs[r] /\ ledger'[r] \in {ledger[r], runs[r]}
      BY <1>0, <2>1, <2>3
    <3> QED BY <1>s, <3>1
  <2> QED BY <2>2, <2>3
<1>3. ASSUME NEW gone \in SUBSET RunIds, HistoryCut(gone) PROVE CancelOnRecord(r)'
  <2>1. runs'[r] \in {runs[r], NoRun} /\ ledger' \in {ledger, runs, runs'}
    BY <1>0, <1>3 DEF HistoryCut, Without
  <2> QED BY <1>s, <2>1
<1>4. ASSUME NEW q \in RunIds, NEW op \in RunOperations, NEW t \in Tasks,
             NEW parallel \in BOOLEAN, HistoryCutFails(op, t, parallel, q)
      PROVE  CancelOnRecord(r)'
  BY <1>0, <1>4, <1>s DEF HistoryCutFails, Save, Without
<1>5. ASSUME NEW q \in RunIds, BeginAbandon(q) \/ FinishProbe(q) PROVE CancelOnRecord(r)'
  BY <1>5, <1>s DEF BeginAbandon, FinishProbe
<1>6. ASSUME NEW q \in RunIds, NEW ok \in BOOLEAN, BeginCommit(q, ok) PROVE CancelOnRecord(r)'
  <2>1. q # r
    BY <1>6 DEF BeginCommit
  <2> DEFINE run == [operation |-> pending[q].operation, task |-> pending[q].task,
                     state |-> "Preparing", cancel_requested |-> FALSE,
                     cleanup_confirmed |-> FALSE]
  <2>2. /\ ledger' \in {ledger, [runs EXCEPT ![q] = run]}
        /\ runs' \in {runs, [runs EXCEPT ![q] = run]}
    BY <1>6 DEF BeginCommit, Save
  <2> HIDE DEF run
  <2>3. runs'[r] = runs[r] /\ ledger'[r] \in {ledger[r], runs[r]}
    BY <1>0, <2>1, <2>2
  <2> QED BY <1>s, <2>3
<1>7. ASSUME NEW gone \in SUBSET RunIds, NEW ok \in BOOLEAN, Open(gone, ok) PROVE CancelOnRecord(r)'
  <2> DEFINE found == Recovered[r]
  <2>1. \/ found = ledger[r]
        \/ ledger[r] # NoRun /\ found = Interrupted(ledger[r])
    BY DEF Recovered
  <2>2. found # NoRun => ledger[r] # NoRun /\ found.cancel_requested = ledger[r].cancel_requested
    <3>1. ledger[r] # NoRun =>
             Interrupted(ledger[r]).cancel_requested = ledger[r].cancel_requested
      BY <1>0, UpdatesKeepOperation
    <3> QED BY <2>1, <3>1
  <2>3. runs'[r] \in {runs[r], found, NoRun} /\ ledger'[r] \in {ledger[r], found, NoRun}
    BY <1>7 DEF Open, Save, Without
  <2> HIDE DEF found
  <2> QED BY <2>2, <2>3 DEF CancelOnRecord
<1>8. CASE WorkerEnds \/ DropActive \/ Crash
  BY <1>8, <1>s DEF WorkerEnds, DropActive, Crash, RegistryLost
<1>9. ASSUME NEW q \in RunIds, NEW op \in RunOperations, NEW t \in Tasks,
             NEW parallel \in BOOLEAN, NEW gone \in SUBSET RunIds,
             BeginReserve(q, op, t, parallel, gone) \/ BeginRefused(op, t, parallel, gone)
      PROVE  CancelOnRecord(r)'
  BY <1>3, <1>9 DEF BeginReserve, BeginRefused
<1> QED BY <1>1, <1>2, <1>4, <1>5, <1>6, <1>7, <1>8, <1>9, StepKinds

\* A worker that was found dead stays dead.
LEMMA DeadStays ==
    ASSUME runsDead, [RunHostNext]_runHostVars PROVE runsDead'
<1>1. CASE ClientStep
  BY <1>1 DEF ClientStep, SubmitStart, CancelJob, AskCancel, CloseAll, CloseSession, actorVars
<1>2. CASE TickStep
  BY <1>2 DEF TickStep, Receive, MarkRunsDead, LaunchDies, RetryCancel, ForceAfterGrace,
     ObserveExit, Reap, SendFinish
<1>3. CASE WorkerLoop
  BY <1>3 DEF WorkerLoop, TakeWork, JoinStart, RefuseStart, ReserveStart, BeginFinish,
     HandleCancel, SendEvent, AdvanceStart, CommitStart, FailPreparation, ReportUnspawned,
     RecordRunning, ReportSpawned, CreateProcess, TimeOut, CompleteFinish, WorkerDies,
     WorkerUnwinds, actorVars
<1>4. CASE HostStarts \/ (\E r \in RunIds : ProcessesEnd(r)) \/ UNCHANGED runHostVars
  BY <1>4 DEF HostStarts, ProcessesEnd, runHostVars, actorVars
<1> QED BY <1>1, <1>2, <1>3, <1>4 DEF RunHostNext

\* At first no cancellation is taken for durable.
LEMMA SignalInvInit == RunHostInit => SignalInv
<1> SUFFICES ASSUME RunHostInit PROVE SignalInv
  OBVIOUS
<1>1. \A r \in RunIds : runs[r] = NoRun /\ ledger[r] = NoRun
  BY DEF RunHostInit, RegistryInit
<1> QED BY <1>1, NamesInvInit DEF SignalInv, CancelOnRecord

\* What the actor takes for durable is on record, and stays there.
LEMMA SignalInvStep ==
    ASSUME HostBase, SignalInv, [RunHostNext]_runHostVars PROVE SignalInv'
<1>1. NamesInv'
  BY NamesInvStep DEF SignalInv
<1>2. ASSUME NEW r \in RunIds, ShellTasks = {}, ~runsDead', DurablyClosed(r)'
      PROVE  CancelOnRecord(r)'
  <2>0. /\ ~runsDead /\ NamesSoundly(r) /\ RegistryInv /\ EntriesInv /\ [RegistryNext]_vars
    BY <1>2, DeadStays, NamesStep, HostRegistryStep DEF HostBase, SafetyInv
  <2>1. CASE DurablyClosed(r)
    <3>1. Named(r) /\ CancelOnRecord(r)
      BY <1>2, <2>0, <2>1 DEF SignalInv, DurablyClosed, Named
    <3>2. pending[r] = NoTicket
      BY <3>1 DEF SignalInv, NamesInv
    <3> QED BY <2>0, <3>1, <3>2, CancelStays
  <2> QED BY <1>2, <2>0, <2>1 DEF NamesSoundly
<1> QED BY <1>1, <1>2 DEF SignalInv

\* The host's inductive invariant: what the two sides exchange, the registry
\* under them, and who has been told of which run.
THEOREM RunHostInvariance == RunHostSafety => [](HostBase /\ SignalInv)
<1>1. RunHostInit => HostBase /\ SignalInv
  BY HostBaseInit, SignalInvInit
<1>2. (HostBase /\ SignalInv) /\ [RunHostNext]_runHostVars => (HostBase /\ SignalInv)'
  BY HostBaseStep, SignalInvStep
<1> QED BY <1>1, <1>2, PTL DEF RunHostSafety

\* No process of a run is signalled before its cancellation is in runs.json,
\* while there is a worker to record it and no shell refuses its bootstrap
\* (request_close, accept_run_event, RunRegistry::cancel).
THEOREM TaskSignalAfterDurableCancelHolds ==
    ShellTasks = {} => (RunHostSafety => []TaskSignalAfterDurableCancel)
<1> SUFFICES ASSUME ShellTasks = {} PROVE RunHostSafety => []TaskSignalAfterDurableCancel
  OBVIOUS
<1>1. HostBase /\ SignalInv => TaskSignalAfterDurableCancel
  <2> SUFFICES ASSUME HostBase, SignalInv, ~runsDead, NEW r \in signalled
               PROVE  ledger[r] # NoRun => ledger[r].cancel_requested
    BY DEF TaskSignalAfterDurableCancel, SignalAfterDurableCancel
  <2>1. r \in RunIds /\ DurablyClosed(r)
    BY DEF HostBase, HostShape, DurablyClosed
  <2> QED BY <2>1 DEF SignalInv, CancelOnRecord
<1> QED BY <1>1, RunHostInvariance, PTL
=============================================================================
