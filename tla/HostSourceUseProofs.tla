------------------------ MODULE HostSourceUseProofs ------------------------
(***************************************************************************)
(* GitSafety, BindingCurrent and the source-use contract of the processes, *)
(* for all runs, plans, worktrees and worker pools, on top of SafetyInv:   *)
(* a step of the host is a step of the registry, or leaves it alone, or    *)
(* changes nothing of the gate but blocks.  None is inductive by itself.   *)
(* They need to know where in its life an operation is when its worker is  *)
(* at a given place (PlanSound), that the pool has no more work in hand    *)
(* than workers (PoolSound), that a worktree with a process of an earlier  *)
(* host is blocked and used by nobody (LeftBehindShut), and what a root    *)
(* reconnection has already excluded (RebindSound).                        *)
(***************************************************************************)
EXTENDS HostSourceUse, RunRegistryProofs

\* Where the worker owes the operation a durable record, has taken its lease,
\* or has nothing more to do with it.
Owing == {<<"queued">>, <<"leased">>, <<"spawned">>}
Leased == {<<"leased">>, <<"spawned">>, <<"reaped">>}
Done == {<<"none">>, <<"sent">>}

Quiescent == {NoEvent, <<"terminal">>}

\* What the Bridge's record, the worker, the events and the process of one
\* operation say of each other.
ExecutorSound(g) ==
    /\ executor[g] \notin Done => g \in ActiveOps
    /\ executor[g] = <<"spawned">>
          => event[g] = IF operations[g].terminal THEN NoEvent ELSE <<"terminal">>
    /\ executor[g] # <<"spawned">>
          => event[g] # <<"terminal">> /\ (g \in Known => ~operations[g].terminal)
    /\ executor[g] \notin Done \union {<<"spawned">>} => g \notin gitProcess
    /\ event[g] \notin Quiescent
          => /\ g \in Known /\ g \notin gitProcess /\ executor[g] \in Done
             /\ g \in ActiveOps \/ executionsDead
    /\ g \in gitProcess /\ g \in ActiveOps => executor[g] = <<"spawned">>

Owed(g) == g \in gitProcess \/ executor[g] \in Owing

PlanSound(g) ==
    /\ ExecutorSound(g)
    /\ g \in plans => /\ g \notin Known /\ executor[g] = <<"none">>
                      /\ event[g] = NoEvent /\ g \notin gitProcess
    /\ Owed(g) => /\ gitLedger[g] # NoOp /\ ~Settled(gitLedger[g])
                  /\ gitUp => g \in Known /\ ~Settled(operations[g])
    /\ g \in Known /\ operations[g].acknowledged
          => ~operations[g].active /\ operations[g].state \in {"Unknown", "Complete"}
    /\ gitLedger[g] # NoOp /\ gitLedger[g].acknowledged
          => gitLedger[g].state \in {"Unknown", "Complete"}
    /\ g \in Mutating /\ executor[g] \in Leased => lease[g] = MutationLease(RepoOf[g], g)

Busy == {g \in Plans : executor[g] \notin {<<"none">>, <<"queued">>}}

PoolSound ==
    /\ IsFiniteSet(Busy) /\ Cardinality(Busy) <= executeAlive
    /\ executeAlive = 0 => \A g \in Plans : executor[g] # <<"queued">>
    /\ executionsDead => executeAlive = 0 /\ ActiveOps = {}

\* A Bridge that is not there knows nothing, and there is no registry and no
\* run yet.
DownSound ==
    ~gitUp => /\ registry = "down" /\ Known = {} /\ plans = {}
              /\ \A g \in Plans : executor[g] = <<"none">> /\ event[g] = NoEvent
              /\ \A s \in Sources : gate[s].runs = {}

LeftBehindShut ==
    gitUp => \A g \in gitProcess \ ActiveOps :
        /\ g \in gate[RepoOf[g]].blocks
        /\ gate[RepoOf[g]].runs = {} /\ gate[RepoOf[g]].mutation = NoOperation

GitInv ==
    /\ GitTypeOK /\ (\A g \in Plans : PlanSound(g))
    /\ PoolSound /\ DownSound /\ OneOperationPerRepository /\ LeftBehindShut

\* What a reconnection has found out stays so until it ends.
RebindSound ==
    /\ rebind # "idle" => /\ \A r \in RunIds : ~InUse(r)
                          /\ \A g \in Plans : ~GitInUse(g)
    /\ rebind \in {"runs_read", "checked"} => \A r \in RunIds : child[r] = NoTask
    /\ rebind = "checked" => gitProcess = {}

BindInv ==
    /\ rebind \in RebindState
    /\ root \in Nat /\ runRoot \in [RunIds -> Nat] /\ gitRoot \in [Plans -> Nat]
    /\ RebindSound /\ BindingCurrent

HostInv == SafetyInv /\ GitInv /\ BindInv
-----------------------------------------------------------------------------
(* The places of a worker, and the records.                                *)

\* The places are different ones (tuples are told apart by their first element).
LEMMA Places ==
    /\ <<"none">> # <<"queued">> /\ <<"none">> # <<"leased">> /\ <<"none">> # <<"spawned">>
    /\ <<"none">> # <<"reaped">> /\ <<"none">> # <<"sent">>
    /\ <<"queued">> # <<"leased">> /\ <<"queued">> # <<"spawned">>
    /\ <<"queued">> # <<"reaped">> /\ <<"queued">> # <<"sent">>
    /\ <<"leased">> # <<"spawned">> /\ <<"leased">> # <<"reaped">> /\ <<"leased">> # <<"sent">>
    /\ <<"spawned">> # <<"reaped">> /\ <<"spawned">> # <<"sent">>
    /\ <<"reaped">> # <<"sent">>
    /\ \A result : /\ <<"returned", result>> # <<"none">> /\ <<"returned", result>> # <<"sent">>
                   /\ <<"returned", result>> # <<"queued">>
                   /\ <<"returned", result>> # <<"leased">>
                   /\ <<"returned", result>> # <<"spawned">>
                   /\ <<"returned", result>> # <<"reaped">>
                   /\ <<"executed", result>> # <<"terminal">>
                   /\ <<"executed", result>> # NoEvent
    /\ <<"terminal">> # NoEvent
<1>1. \A result : /\ <<"returned", result>>[1] = "returned"
                  /\ <<"executed", result>>[1] = "executed"
                  /\ <<"executed", result>> # <<>>
  OBVIOUS
<1>2. /\ <<"none">>[1] = "none" /\ <<"queued">>[1] = "queued" /\ <<"leased">>[1] = "leased"
      /\ <<"spawned">>[1] = "spawned" /\ <<"reaped">>[1] = "reaped" /\ <<"sent">>[1] = "sent"
      /\ <<"terminal">>[1] = "terminal" /\ <<"terminal">> # <<>>
  OBVIOUS
<1> QED BY <1>1, <1>2 DEF NoEvent

\* The updates of a record that the Bridge makes.
Arrived(op, state) == [op EXCEPT !.terminal = TRUE, !.executed = TRUE, !.state = state]
Cancelling(op) == [op EXCEPT !.cancelled = TRUE, !.state = "Cancelling"]
Reaped(op) == [op EXCEPT !.terminal = FALSE]
Confirmed(op) == [op EXCEPT !.acknowledged = TRUE]

\* Each keeps the type, and leaves or gives what the invariant looks at
\* (Operation::finish, Event::Terminal, GitOperationCancel, Operation::tick,
\* GitOperationReconcile).
LEMMA OperationUpdates ==
    ASSUME NEW op \in Operation
    PROVE  /\ \A result \in Results :
                 /\ Finished(op, result) \in Operation
                 /\ Finished(op, result).terminal = op.terminal
                 /\ Finished(op, result).acknowledged = op.acknowledged
                 /\ ~op.terminal => /\ ~Finished(op, result).active
                                    /\ Finished(op, result).state \in {"Unknown", "Complete"}
           /\ \A state \in {"Running", "Cancelling"} :
                 /\ Arrived(op, state) \in Operation
                 /\ Arrived(op, state).terminal /\ Arrived(op, state).active = op.active
                 /\ Arrived(op, state).acknowledged = op.acknowledged
                 /\ ~Settled(Arrived(op, state))
           /\ /\ Cancelling(op) \in Operation /\ ~Settled(Cancelling(op))
              /\ Cancelling(op).terminal = op.terminal /\ Cancelling(op).active = op.active
              /\ Cancelling(op).acknowledged = op.acknowledged
           /\ /\ Reaped(op) \in Operation
              /\ ~Reaped(op).terminal
              /\ Reaped(op).active = op.active
              /\ Reaped(op).state = op.state
              /\ Reaped(op).acknowledged = op.acknowledged
           /\ /\ Confirmed(op) \in Operation
              /\ Confirmed(op).terminal = op.terminal
              /\ Confirmed(op).active = op.active
              /\ Confirmed(op).state = op.state
<1>1. \A result \in Results :
                 /\ Finished(op, result) \in Operation
                 /\ Finished(op, result).terminal = op.terminal
                 /\ Finished(op, result).acknowledged = op.acknowledged
                 /\ ~op.terminal => /\ ~Finished(op, result).active
                                    /\ Finished(op, result).state \in {"Unknown", "Complete"}
  BY DEF Operation, GitState, Results, Finished
<1>2. \A state \in {"Running", "Cancelling"} :
                 /\ Arrived(op, state) \in Operation
                 /\ Arrived(op, state).terminal /\ Arrived(op, state).active = op.active
                 /\ Arrived(op, state).acknowledged = op.acknowledged
                 /\ ~Settled(Arrived(op, state))
  BY DEF Operation, GitState, Arrived, Settled
<1>3. /\ Cancelling(op) \in Operation /\ ~Settled(Cancelling(op))
      /\ Cancelling(op).terminal = op.terminal /\ Cancelling(op).active = op.active
      /\ Cancelling(op).acknowledged = op.acknowledged
  BY DEF Operation, GitState, Cancelling, Settled
<1>4. /\ Reaped(op) \in Operation
      /\ ~Reaped(op).terminal
      /\ Reaped(op).active = op.active
      /\ Reaped(op).state = op.state
      /\ Reaped(op).acknowledged = op.acknowledged
      /\ Confirmed(op) \in Operation
      /\ Confirmed(op).terminal = op.terminal
      /\ Confirmed(op).active = op.active
      /\ Confirmed(op).state = op.state
  BY DEF Operation, GitState, Reaped, Confirmed
<1> QED BY <1>1, <1>2, <1>3, <1>4

LEMMA FreshOperation ==
    /\ Fresh \in Operation /\ Fresh.active /\ ~Fresh.terminal /\ ~Fresh.acknowledged
    /\ ~Settled(Fresh)
BY DEF Fresh, Operation, GitState, Settled

\* What persist writes of one operation.
LEMMA WrittenRecord ==
    ASSUME NEW ops \in [Plans -> Operation \union {NoOp}]
    PROVE  /\ Written(ops) \in [Plans -> GitRecord \union {NoOp}]
           /\ \A g \in Plans :
                 /\ Written(ops)[g] = NoOp <=> ops[g] = NoOp
                 /\ ops[g] # NoOp => /\ Written(ops)[g].state = ops[g].state
                                     /\ Written(ops)[g].acknowledged = ops[g].acknowledged
<1>1. \A op \in Operation : /\ [state |-> op.state, acknowledged |-> op.acknowledged] \in GitRecord
                            /\ [state |-> op.state, acknowledged |-> op.acknowledged] # NoOp
  BY GitSentinelAssumption DEF Operation, GitRecord
<1> QED BY <1>1 DEF Written

\* What Bridge::new makes of a record.
LEMMA RestoredRecord ==
    ASSUME NEW record \in GitRecord,
           record.acknowledged => record.state \in {"Unknown", "Complete"}
    PROVE  /\ Restored(record) \in Operation
           /\ ~Restored(record).active /\ ~Restored(record).terminal
           /\ Restored(record).acknowledged = record.acknowledged
           /\ Restored(record).state \in {"Unknown", "Complete"}
           /\ Settled(Restored(record)) <=> Settled(record)
BY DEF GitRecord, Operation, GitState, Restored, Settled
-----------------------------------------------------------------------------
(* One operation at a time.                                                *)

\* A step that leaves operation g alone, whatever it saves and whichever
\* processes end.
Untouched(g) ==
    /\ executor'[g] = executor[g] /\ event'[g] = event[g] /\ operations'[g] = operations[g]
    /\ g \in gitProcess' => g \in gitProcess
    /\ g \in plans' => g \in plans
    /\ gitLedger'[g] \in {gitLedger[g], Written(operations')[g]}
    /\ lease'[g] = lease[g]

\* What is in the ledger after a save stands for what is in memory.
LEMMA SavedOpen ==
    ASSUME operations' \in [Plans -> Operation \union {NoOp}], NEW g \in Plans,
           gitLedger'[g] = Written(operations')[g],
           operations'[g] # NoOp, ~Settled(operations'[g])
    PROVE  gitLedger'[g] # NoOp /\ ~Settled(gitLedger'[g])
BY WrittenRecord DEF Settled

LEMMA SavedAcknowledged ==
    ASSUME operations' \in [Plans -> Operation \union {NoOp}], NEW g \in Plans,
           gitLedger'[g] = Written(operations')[g],
           operations'[g] # NoOp /\ operations'[g].acknowledged
               => operations'[g].state \in {"Unknown", "Complete"},
           gitLedger'[g] # NoOp, gitLedger'[g].acknowledged
    PROVE  gitLedger'[g].state \in {"Unknown", "Complete"}
BY WrittenRecord

LEMMA PlanKept ==
    ASSUME gitUp, gitUp' = gitUp, executionsDead => executionsDead',
           operations' \in [Plans -> Operation \union {NoOp}],
           NEW g \in Plans, PlanSound(g), Untouched(g)
    PROVE  PlanSound(g)'
<1>1. /\ g \in Known' <=> g \in Known
      /\ g \in ActiveOps' <=> g \in ActiveOps
      /\ Owed(g)' => Owed(g)
  BY DEF Known, ActiveOps, Owed, Untouched
<1>2. ExecutorSound(g)'
  BY <1>1 DEF PlanSound, ExecutorSound, Untouched
<1>3. Owed(g)' => /\ gitLedger'[g] # NoOp /\ ~Settled(gitLedger'[g])
                  /\ gitUp' => g \in Known' /\ ~Settled(operations'[g])
  <2>1. CASE gitLedger'[g] = gitLedger[g]
    BY <1>1, <2>1 DEF PlanSound, Untouched
  <2>2. CASE gitLedger'[g] = Written(operations')[g]
    BY <1>1, <2>2, SavedOpen DEF PlanSound, Untouched, Known
  <2> QED BY <2>1, <2>2 DEF Untouched
<1>4. g \in Known' /\ operations'[g].acknowledged
          => ~operations'[g].active /\ operations'[g].state \in {"Unknown", "Complete"}
  BY <1>1 DEF PlanSound, Untouched
<1>5. gitLedger'[g] # NoOp /\ gitLedger'[g].acknowledged
          => gitLedger'[g].state \in {"Unknown", "Complete"}
  <2>1. CASE gitLedger'[g] = gitLedger[g]
    BY <2>1 DEF PlanSound
  <2>2. CASE gitLedger'[g] = Written(operations')[g]
    BY <1>4, <2>2, SavedAcknowledged DEF Known
  <2> QED BY <2>1, <2>2 DEF Untouched
<1>6. g \in plans' => /\ g \notin Known' /\ executor'[g] = <<"none">>
                      /\ event'[g] = NoEvent /\ g \notin gitProcess'
  BY <1>1 DEF PlanSound, Untouched
<1>7. g \in Mutating /\ executor'[g] \in Leased => lease'[g] = MutationLease(RepoOf[g], g)
  BY DEF PlanSound, Untouched
<1> QED BY <1>2, <1>3, <1>4, <1>5, <1>6, <1>7 DEF PlanSound

\* Nothing saved: the Bridge need not be there.
LEMMA PlanKeptUnsaved ==
    ASSUME NEW g \in Plans, PlanSound(g), Untouched(g), gitUp' = gitUp,
           executionsDead' = executionsDead, gitLedger'[g] = gitLedger[g]
    PROVE  PlanSound(g)'
BY DEF PlanSound, Untouched, ExecutorSound, Owed, Known, ActiveOps

\* Steps of a worker: the Bridge and its file stay as they are.
LEMMA OtherLeases ==
    ASSUME GateTypeOK, NEW g \in Plans,
           \/ ReserveMutation(g, RepoOf[g], g)
           \/ IF Holds(g) THEN DropLease(g) ELSE UNCHANGED gateVars
           \/ UNCHANGED gateVars
    PROVE  \A k \in Plans : k # g => lease'[k] = lease[k]
<1>1. Plans \subseteq Holders /\ lease \in [Holders -> GateLease \union {NoLease}]
  BY GitAssumption DEF GateTypeOK
<1> QED BY <1>1 DEF ReserveMutation, DropLease, gateVars

LEMMA WorkerMoves ==
    ASSUME GitTypeOK, NEW g \in Plans, PlanSound(g), executor[g] # <<"none">>,
           UNCHANGED <<operations, gitLedger, plans, gitUp, executionsDead>>,
           ExecutorSound(g)', Owed(g)' => Owed(g),
           g \in Mutating /\ executor'[g] \in Leased => lease'[g] = MutationLease(RepoOf[g], g)
    PROVE  PlanSound(g)'
<1>1. g \notin plans /\ (g \in Known' <=> g \in Known) /\ g \notin plans'
  BY DEF PlanSound, Known
<1> QED BY <1>1 DEF PlanSound

LEMMA WorkerPlanStep ==
    ASSUME GitTypeOK, GateTypeOK, \A k \in Plans : PlanSound(k), NEW g \in Plans,
           \/ Reserve(g) \/ ReserveRefused(g) \/ ReturnUnspawned(g) \/ SpawnGit(g)
           \/ ReturnReaped(g) \/ SendExecuted(g) \/ DropRunUse(g)
    PROVE  \A k \in Plans : PlanSound(k)'
<1>0. /\ executor \in [Plans -> ExecutorState] /\ event \in [Plans -> GitEvent \union {NoEvent}]
      /\ PlanSound(g) /\ ExecutorSound(g) /\ g \in Holders
  BY GitAssumption DEF GitTypeOK, PlanSound
<1>1. /\ UNCHANGED <<operations, gitLedger, plans, gitUp, executionsDead>>
      /\ g \in Known' <=> g \in Known
      /\ g \in ActiveOps' <=> g \in ActiveOps
  BY DEF Reserve, ReserveRefused, ReturnUnspawned, Return, SpawnGit, ReturnReaped,
         SendExecuted, DropRunUse, poolVars, Known, ActiveOps
<1>2. ASSUME NEW k \in Plans, k # g PROVE PlanSound(k)'
  <2>1. lease'[k] = lease[k]
    BY <1>2, OtherLeases
    DEF Reserve, ReserveRefused, ReturnUnspawned, Return, SpawnGit, ReturnReaped,
        SendExecuted, DropRunUse, gateVars
  <2>2. /\ executor'[k] = executor[k] /\ event'[k] = event[k]
        /\ k \in gitProcess' => k \in gitProcess
    BY <1>0, <1>2 DEF Reserve, ReserveRefused, ReturnUnspawned, Return, SpawnGit, ReturnReaped,
         SendExecuted, DropRunUse
  <2>3. Untouched(k)
    BY <1>1, <2>1, <2>2 DEF Untouched
  <2> QED BY <1>1, <2>3, PlanKeptUnsaved
<1>3. CASE Reserve(g)
  <2>1. /\ executor[g] = <<"queued">> /\ executor'[g] = <<"leased">>
        /\ UNCHANGED <<event, gitProcess>>
    BY <1>0, <1>3 DEF Reserve
  <2>2. ExecutorSound(g)'
    BY <1>0, <1>1, <2>1 DEF ExecutorSound, Done
  <2>3. g \in Mutating => lease'[g] = MutationLease(RepoOf[g], g)
    BY <1>0, <1>3 DEF Reserve, ReserveMutation, GateTypeOK
  <2>4. Owed(g)
    BY <2>1 DEF Owed, Owing
  <2> QED BY <1>0, <1>1, <1>2, <2>1, <2>2, <2>3, <2>4, WorkerMoves
<1>4. ASSUME executor[g] \in {<<"queued">>, <<"leased">>, <<"reaped">>},
             NEW result \in Results, executor'[g] = <<"returned", result>>,
             UNCHANGED <<event, gitProcess>>
      PROVE  PlanSound(g)'
  <2>1. ExecutorSound(g)'
    BY <1>0, <1>1, <1>4 DEF ExecutorSound, Done
  <2>2. Owed(g)' => Owed(g)
    BY <1>4 DEF Owed, Owing
  <2>3. executor'[g] \notin Leased
    BY <1>4 DEF Leased
  <2> QED BY <1>0, <1>1, <1>4, <2>1, <2>2, <2>3, WorkerMoves
<1>5. CASE ReserveRefused(g) \/ ReturnUnspawned(g) \/ ReturnReaped(g)
  <2>1. /\ executor[g] \in {<<"queued">>, <<"leased">>, <<"reaped">>}
        /\ \E result \in Results : executor'[g] = <<"returned", result>>
        /\ UNCHANGED <<event, gitProcess>>
    BY <1>0, <1>5 DEF ReserveRefused, ReturnUnspawned, ReturnReaped, Return, Results
  <2> QED BY <1>2, <1>4, <2>1
<1>6. CASE SpawnGit(g)
  <2>1. /\ executor[g] = <<"leased">> /\ executor'[g] = <<"spawned">>
        /\ event'[g] = <<"terminal">> /\ lease' = lease
    BY <1>0, <1>6 DEF SpawnGit, gateVars
  <2>2. ExecutorSound(g)'
    BY <1>0, <1>1, <2>1 DEF ExecutorSound, Done, Quiescent, ActiveOps
  <2>3. Owed(g)
    BY <2>1 DEF Owed, Owing
  <2>4. g \in Mutating => lease'[g] = MutationLease(RepoOf[g], g)
    BY <1>0, <2>1 DEF PlanSound, Leased
  <2> QED BY <1>0, <1>1, <1>2, <2>1, <2>2, <2>3, <2>4, WorkerMoves
<1>7. CASE SendExecuted(g)
  <2>1. PICK result \in Results : /\ executor[g] = <<"returned", result>>
                                  /\ event' = [event EXCEPT ![g] = <<"executed", result>>]
    BY <1>7 DEF SendExecuted
  <2>2. /\ event'[g] = <<"executed", result>> /\ executor'[g] = <<"sent">>
        /\ UNCHANGED gitProcess
    BY <1>0, <1>7, <2>1 DEF SendExecuted
  <2>3. ExecutorSound(g)'
    BY <1>0, <1>1, <2>1, <2>2, Places DEF ExecutorSound, Done, Quiescent, ActiveOps
  <2>4. (Owed(g)' => Owed(g)) /\ executor'[g] \notin Leased
    BY <2>2 DEF Owed, Owing, Leased
  <2> QED BY <1>0, <1>1, <1>2, <2>1, <2>3, <2>4, WorkerMoves
<1>8. CASE DropRunUse(g)
  <2>1. /\ executor[g] = <<"sent">> /\ executor'[g] = <<"none">>
        /\ UNCHANGED <<event, gitProcess>>
    BY <1>0, <1>8 DEF DropRunUse
  <2>2. ExecutorSound(g)'
    BY <1>0, <1>1, <2>1 DEF ExecutorSound, Done
  <2>3. (Owed(g)' => Owed(g)) /\ executor'[g] \notin Leased
    BY <2>1 DEF Owed, Owing, Leased
  <2> QED BY <1>0, <1>1, <1>2, <2>1, <2>2, <2>3, WorkerMoves
<1> QED BY <1>3, <1>5, <1>6, <1>7, <1>8

\* A worker panics, and the last one takes the queued work along.
LEMMA PanicPlanStep ==
    ASSUME GitTypeOK, GateTypeOK, \A k \in Plans : PlanSound(k), NEW g \in Plans,
           ExecutorPanics(g)
    PROVE  \A k \in Plans : PlanSound(k)'
<1>0. executor \in [Plans -> ExecutorState]
  BY DEF GitTypeOK
<1>1. /\ UNCHANGED <<operations, gitLedger, plans, gitUp, executionsDead, event, gitProcess>>
      /\ executor[g] \in {<<"queued">>, <<"leased">>, <<"reaped">>} /\ executor'[g] = <<"none">>
      /\ \A k \in Plans : \/ executor'[k] = executor[k] /\ k # g
                          \/ k = g
                          \/ executor[k] = <<"queued">> /\ executor'[k] = <<"none">>
  BY <1>0 DEF ExecutorPanics
<1>2. ASSUME NEW k \in Plans,
             executor[k] \in {<<"queued">>, <<"leased">>, <<"reaped">>}, executor'[k] = <<"none">>
      PROVE  PlanSound(k)'
  <2>1. ExecutorSound(k) /\ PlanSound(k)
    BY DEF PlanSound
  <2>2. ExecutorSound(k)'
    BY <1>1, <1>2, <2>1 DEF ExecutorSound, Done, Known, ActiveOps
  <2>3. (Owed(k)' => Owed(k)) /\ executor'[k] \notin Leased
    BY <1>1, <1>2 DEF Owed, Owing, Leased
  <2> QED BY <1>1, <1>2, <2>1, <2>2, <2>3, WorkerMoves
<1>3. ASSUME NEW k \in Plans, executor'[k] = executor[k], k # g PROVE PlanSound(k)'
  <2>1. lease'[k] = lease[k]
    BY <1>3, OtherLeases DEF ExecutorPanics
  <2>2. Untouched(k)
    BY <1>1, <1>3, <2>1 DEF Untouched
  <2> QED BY <1>1, <2>2, PlanKeptUnsaved
<1> QED BY <1>1, <1>2, <1>3

\* A step of the Bridge that changes the record of one operation.
LEMMA BridgeMoves ==
    ASSUME gitUp, gitUp' = gitUp, operations' \in [Plans -> Operation \union {NoOp}],
           NEW g \in Plans, PlanSound(g), ExecutorSound(g)', g \in Known, UNCHANGED plans,
           gitLedger'[g] \in {gitLedger[g], Written(operations')[g]},
           Owed(g)' => Owed(g) /\ g \in Known' /\ ~Settled(operations'[g]),
           operations'[g].acknowledged
               => ~operations'[g].active /\ operations'[g].state \in {"Unknown", "Complete"},
           executor'[g] \in Leased => executor[g] \in Leased /\ lease'[g] = lease[g]
    PROVE  PlanSound(g)'
<1>1. g \notin plans'
  BY DEF PlanSound
<1>2. Owed(g)' => gitLedger'[g] # NoOp /\ ~Settled(gitLedger'[g])
  BY SavedOpen DEF PlanSound, Known
<1>3. gitLedger'[g] # NoOp /\ gitLedger'[g].acknowledged
          => gitLedger'[g].state \in {"Unknown", "Complete"}
  BY SavedAcknowledged DEF PlanSound
<1> QED BY <1>1, <1>2, <1>3 DEF PlanSound

LEMMA BridgePlanStep ==
    ASSUME GitTypeOK, \A k \in Plans : PlanSound(k), NEW g \in Plans,
           TerminalArrives(g) \/ Reap(g) \/ ExecutedArrives(g) \/ CancelGit(g)
    PROVE  /\ \A k \in Plans : PlanSound(k)'
           /\ operations' \in [Plans -> Operation \union {NoOp}]
<1>0. /\ operations \in [Plans -> Operation \union {NoOp}]
      /\ executor \in [Plans -> ExecutorState]
      /\ event \in [Plans -> GitEvent \union {NoEvent}]
      /\ PlanSound(g) /\ ExecutorSound(g) /\ NoOp \notin Operation
  BY GitSentinelAssumption DEF GitTypeOK, PlanSound
<1>1. /\ gitUp /\ gitUp' = gitUp /\ UNCHANGED <<plans, lease, gitProcess, executionsDead>>
      /\ \A k \in Plans : k # g => executor'[k] = executor[k] /\ event'[k] = event[k]
  BY <1>0 DEF TerminalArrives, Reap, ExecutedArrives, CancelGit, gateVars, poolVars
\* It is enough to look at the operation itself.
<1>2. ASSUME NEW op \in Operation, g \in Known,
             operations' = [operations EXCEPT ![g] = op],
             gitLedger' \in {gitLedger, Written(operations')},
             ExecutorSound(g)', Owed(g)' => Owed(g) /\ ~Settled(op),
             op.acknowledged => ~op.active /\ op.state \in {"Unknown", "Complete"},
             executor'[g] \in Leased => executor[g] \in Leased
      PROVE  /\ \A k \in Plans : PlanSound(k)'
             /\ operations' \in [Plans -> Operation \union {NoOp}]
  <2>1. /\ operations' \in [Plans -> Operation \union {NoOp}]
        /\ operations'[g] = op /\ g \in Known'
        /\ \A k \in Plans : k # g => operations'[k] = operations[k]
    BY <1>0, <1>2 DEF Known
  <2>2. PlanSound(g)'
    BY <1>0, <1>1, <1>2, <2>1, BridgeMoves
  <2>3. ASSUME NEW k \in Plans, k # g PROVE PlanSound(k)'
    <3>1. Untouched(k)
      BY <1>1, <1>2, <2>1, <2>3 DEF Untouched
    <3> QED BY <1>1, <2>1, <3>1, PlanKept
  <2> QED BY <2>1, <2>2, <2>3
<1>3. CASE TerminalArrives(g)
  <2> DEFINE state == IF operations[g].cancelled THEN "Cancelling" ELSE "Running"
             op == Arrived(operations[g], state)
  <2>1. /\ event[g] = <<"terminal">> /\ event'[g] = NoEvent /\ executor' = executor
        /\ operations' = [operations EXCEPT ![g] = op]
        /\ gitLedger' \in {gitLedger, Written(operations')}
    BY <1>0, <1>3 DEF TerminalArrives, SaveAnyway, Arrived
  <2>2. executor[g] = <<"spawned">> /\ g \in ActiveOps /\ g \in Known
    BY <1>0, <2>1 DEF ExecutorSound, Done, ActiveOps
  <2>3. operations[g] \in Operation /\ operations[g].active /\ state \in {"Running", "Cancelling"}
    BY <1>0, <2>2 DEF Known, ActiveOps
  <2>4. /\ op \in Operation /\ op.terminal /\ op.active /\ ~Settled(op)
        /\ op.acknowledged = operations[g].acknowledged
    BY <2>3, OperationUpdates
  <2>5. Owed(g) /\ ~operations[g].acknowledged
    BY <1>0, <2>2, <2>3 DEF Owed, Owing, PlanSound
  <2> HIDE DEF op, state
  <2>6. operations'[g] = op /\ op # NoOp
    BY <1>0, <2>1, <2>4
  <2>7. ExecutorSound(g)'
    BY <2>1, <2>2, <2>4, <2>6 DEF ExecutorSound, Done, Quiescent, Known, ActiveOps
  <2> QED BY <1>2, <2>1, <2>2, <2>4, <2>5, <2>7
<1>4. CASE CancelGit(g)
  <2> DEFINE op == Cancelling(operations[g])
  <2>1. /\ g \in ActiveOps /\ g \in Known /\ event' = event /\ executor' = executor
        /\ operations' = [operations EXCEPT ![g] = op]
        /\ gitLedger' \in {gitLedger, Written(operations')}
    BY <1>0, <1>4 DEF CancelGit, SaveAnyway, Cancelling, ActiveOps
  <2>2. operations[g] \in Operation /\ operations[g].active
    BY <1>0, <2>1 DEF Known, ActiveOps
  <2>3. /\ op \in Operation /\ op.active /\ ~Settled(op)
        /\ op.terminal = operations[g].terminal /\ op.acknowledged = operations[g].acknowledged
    BY <2>2, OperationUpdates
  <2>4. ~operations[g].acknowledged
    BY <1>0, <2>1, <2>2 DEF PlanSound
  <2> HIDE DEF op
  <2>5. operations'[g] = op /\ op # NoOp
    BY <1>0, <2>1, <2>3
  <2>6. ExecutorSound(g)' /\ (Owed(g)' => Owed(g))
    BY <1>0, <1>1, <2>1, <2>3, <2>5 DEF ExecutorSound, Known, ActiveOps, Owed
  <2> QED BY <1>2, <2>1, <2>3, <2>4, <2>6
<1>5. CASE Reap(g)
  <2> DEFINE op == Reaped(operations[g])
  <2>1. /\ g \in Known /\ g \notin gitProcess /\ operations[g].terminal
        /\ executor[g] = <<"spawned">> /\ executor'[g] = <<"reaped">>
        /\ event' = event /\ operations' = [operations EXCEPT ![g] = op]
        /\ gitLedger' \in {gitLedger, Written(operations')}
    BY <1>0, <1>5 DEF Reap, Reaped, Known
  <2>2. operations[g] \in Operation /\ g \in ActiveOps /\ operations[g].active
    BY <1>0, <2>1 DEF Known, ExecutorSound, Done, ActiveOps
  <2>3. /\ op \in Operation /\ op.active /\ ~op.terminal
        /\ op.acknowledged = operations[g].acknowledged
    BY <2>2, OperationUpdates
  <2>4. ~operations[g].acknowledged /\ event[g] = NoEvent
    BY <1>0, <2>1, <2>2 DEF PlanSound, ExecutorSound
  <2> HIDE DEF op
  <2>5. operations'[g] = op /\ op # NoOp
    BY <1>0, <2>1, <2>3
  <2>6. ExecutorSound(g)'
    BY <1>1, <2>1, <2>3, <2>4, <2>5, Places
    DEF ExecutorSound, Known, ActiveOps, Done, Quiescent
  <2>7. ~Owed(g)' /\ executor[g] \in Leased
    BY <1>1, <2>1 DEF Owed, Owing, Leased
  <2> QED BY <1>2, <2>1, <2>3, <2>4, <2>6, <2>7
<1>6. CASE ExecutedArrives(g)
  <2>1. PICK result \in Results :
           /\ event[g] = <<"executed", result>>
           /\ IF g \in Known THEN SaveAnyway([operations EXCEPT ![g] = Finished(@, result)])
              ELSE UNCHANGED <<operations, gitLedger>>
    BY <1>6 DEF ExecutedArrives
  <2> DEFINE op == Finished(operations[g], result)
  <2>2. event[g] \notin Quiescent /\ event'[g] = NoEvent /\ executor' = executor
    BY <1>0, <1>6, <2>1, Places DEF Quiescent, ExecutedArrives
  <2>3. /\ g \in Known /\ g \notin gitProcess /\ executor[g] \in Done
        /\ operations[g] \in Operation /\ ~operations[g].terminal
    BY <1>0, <2>2 DEF ExecutorSound, Known, Done
  <2>4. /\ operations' = [operations EXCEPT ![g] = op]
        /\ gitLedger' \in {gitLedger, Written(operations')}
    BY <2>1, <2>3 DEF SaveAnyway
  <2>5. /\ op \in Operation /\ ~op.active /\ ~op.terminal
        /\ op.state \in {"Unknown", "Complete"}
    <3>1. result \in Results /\ operations[g] \in Operation
      BY <2>1, <2>3
    <3> QED BY <2>3, <3>1, OperationUpdates
  <2> HIDE DEF op
  <2>6. operations'[g] = op /\ op # NoOp
    BY <1>0, <2>4, <2>5
  <2>7. ExecutorSound(g)'
    BY <1>1, <2>2, <2>3, <2>5, <2>6, Places
    DEF ExecutorSound, Known, ActiveOps, Done, Quiescent
  <2>8. ~Owed(g)'
    BY <1>1, <2>2, <2>3 DEF Owed, Owing, Done
  <2>9. executor'[g] \in Leased => executor[g] \in Leased
    BY <2>2
  <2> QED BY <1>2, <2>3, <2>4, <2>5, <2>7, <2>8, <2>9
<1> QED BY <1>3, <1>4, <1>5, <1>6

\* A settled operation owes nothing, so it may make room (MAX_OPERATIONS).
LEMMA ForgottenSound ==
    ASSUME gitUp, ~executionsDead, NEW g \in Plans, PlanSound(g), g \in Known,
           ~operations[g].active, Settled(operations[g]), operations'[g] = NoOp,
           UNCHANGED gitProcess, executor'[g] = executor[g], event'[g] = event[g],
           g \in plans' => g \in plans, gitLedger'[g] \in {gitLedger[g], NoOp}
    PROVE  PlanSound(g)'
<1>1. /\ executor[g] \in Done /\ g \notin ActiveOps /\ ~Owed(g) /\ event[g] \in Quiescent
      /\ g \notin plans /\ event[g] # <<"terminal">>
  BY DEF PlanSound, ExecutorSound, ActiveOps, Done
<1>2. g \notin Known' /\ g \notin ActiveOps' /\ ~Owed(g)'
  BY <1>1 DEF Known, ActiveOps, Owed
<1>3. ExecutorSound(g)'
  BY <1>1, <1>2 DEF ExecutorSound, Quiescent, Done
<1>4. executor'[g] \notin Leased
  BY <1>1 DEF Done, Leased
<1> QED BY <1>1, <1>2, <1>3, <1>4 DEF PlanSound

\* Several records change: what the step gives is Untouched or Forgotten for
\* each of the others.
Kept(gone) == [k \in Plans |-> IF k \in gone THEN NoOp ELSE operations[k]]

LEMMA KeptOthers ==
    ASSUME GitTypeOK, NEW gone, Forgettable(gone)
    PROVE  /\ Kept(gone) \in [Plans -> Operation \union {NoOp}]
           /\ \A k \in gone : k \in Known /\ ~operations[k].active /\ Settled(operations[k])
BY DEF GitTypeOK, Forgettable, Kept

LEMMA RoomPlanStep ==
    ASSUME GitTypeOK, gitUp, UNCHANGED <<gitUp, executionsDead, event, gitProcess, lease>>,
           ~executionsDead, NEW gone, gone = {} \/ Forgettable(gone), NEW k \in Plans, PlanSound(k),
           operations' \in [Plans -> Operation \union {NoOp}],
           operations'[k] = Kept(gone)[k], executor'[k] = executor[k],
           k \in plans' => k \in plans,
           gitLedger'[k] \in {gitLedger[k], Written(operations')[k]}
    PROVE  PlanSound(k)'
<1>1. CASE k \in gone
  <2>1. k \in Known /\ ~operations[k].active /\ Settled(operations[k]) /\ operations'[k] = NoOp
    BY <1>1, KeptOthers DEF Kept
  <2>2. gitLedger'[k] \in {gitLedger[k], NoOp}
    BY <2>1, WrittenRecord
  <2> QED BY <2>1, <2>2, ForgottenSound
<1>2. CASE k \notin gone
  <2>1. operations'[k] = operations[k]
    BY <1>2 DEF Kept
  <2>2. Untouched(k)
    BY <2>1 DEF Untouched
  <2> QED BY <2>2, PlanKept
<1> QED BY <1>1, <1>2

LEMMA ExecutePlanStep ==
    ASSUME GitTypeOK, \A k \in Plans : PlanSound(k), NEW g \in Plans, NEW gone, NEW ok \in BOOLEAN,
           Execute(g, gone, ok)
    PROVE  /\ \A k \in Plans : PlanSound(k)'
           /\ operations' \in [Plans -> Operation \union {NoOp}]
           /\ gitLedger' \in [Plans -> GitRecord \union {NoOp}]
<1> DEFINE kept == Kept(gone)
           begun == [kept EXCEPT ![g] = Fresh]
           refused == [kept EXCEPT ![g] = Finished(Fresh, "error")]
<1>0. /\ operations \in [Plans -> Operation \union {NoOp}]
      /\ executor \in [Plans -> ExecutorState]
      /\ gitLedger \in [Plans -> GitRecord \union {NoOp}]
      /\ PlanSound(g) /\ ExecutorSound(g) /\ NoOp \notin Operation
  BY GitSentinelAssumption DEF GitTypeOK, PlanSound
<1>1. /\ gitUp /\ UNCHANGED <<gitUp, executionsDead, event, gitProcess, lease>>
      /\ ~executionsDead /\ g \in plans /\ g \notin Known
      /\ gone = {} \/ Forgettable(gone)
      /\ plans' = IF ok THEN plans \ {g} ELSE plans
  BY DEF Execute, gateVars, poolVars
<1>2. \/ /\ ok /\ operations' = begun /\ executor' = [executor EXCEPT ![g] = <<"queued">>]
         /\ gitLedger' = Written(begun)
      \/ /\ ~ok /\ operations' = kept /\ executor' = executor
         /\ gitLedger' \in {gitLedger, Written(begun)}
      \/ /\ ok /\ operations' = refused /\ executor' = executor
         /\ gitLedger' \in {Written(begun), Written(refused)}
  BY DEF Execute, SaveGit, Kept
<1>3. /\ kept \in [Plans -> Operation \union {NoOp}]
      /\ kept[g] = NoOp
  <2>1. kept \in [Plans -> Operation \union {NoOp}]
    BY <1>0 DEF Kept
  <2> QED BY <1>1, <2>1 DEF Kept, Known
<1>4. /\ Fresh \in Operation /\ Fresh.active /\ ~Fresh.terminal /\ ~Fresh.acknowledged
      /\ ~Settled(Fresh)
      /\ Finished(Fresh, "error") \in Operation /\ ~Finished(Fresh, "error").active
      /\ ~Finished(Fresh, "error").terminal /\ ~Finished(Fresh, "error").acknowledged
  <2>1. "error" \in Results
    BY DEF Results
  <2> QED BY <2>1, FreshOperation, OperationUpdates
<1> HIDE DEF kept
<1>5. /\ begun \in [Plans -> Operation \union {NoOp}] /\ begun[g] = Fresh
      /\ refused \in [Plans -> Operation \union {NoOp}] /\ refused[g] = Finished(Fresh, "error")
      /\ \A k \in Plans : k # g => begun[k] = kept[k] /\ refused[k] = kept[k]
  BY <1>3, <1>4
<1> HIDE DEF begun, refused
<1>6. operations' \in [Plans -> Operation \union {NoOp}]
  BY <1>2, <1>3, <1>5
<1>7. \A k \in Plans : k # g => /\ Written(begun)[k] = Written(kept)[k]
                                /\ Written(refused)[k] = Written(kept)[k]
  BY <1>5 DEF Written
<1>8. ASSUME NEW k \in Plans, k # g PROVE PlanSound(k)'
  <2>1. operations'[k] = kept[k] /\ executor'[k] = executor[k] /\ (k \in plans' => k \in plans)
    BY <1>0, <1>1, <1>2, <1>5, <1>8
  <2>2. Written(operations')[k] = Written(kept)[k]
    BY <2>1 DEF Written
  <2>3. gitLedger'[k] \in {gitLedger[k], Written(operations')[k]}
    BY <1>2, <1>7, <1>8, <2>2
  <2>4. operations'[k] = Kept(gone)[k]
    BY <2>1 DEF kept
  <2> QED BY <1>1, <1>6, <2>1, <2>3, <2>4, RoomPlanStep
\* The operation itself.
<1>9. /\ executor[g] = <<"none">> /\ event[g] = NoEvent /\ g \notin gitProcess
  BY <1>0, <1>1 DEF PlanSound
<1>10. /\ Written(begun)[g] # NoOp /\ ~Written(begun)[g].acknowledged
       /\ ~Settled(Written(begun)[g])
       /\ Written(refused)[g] # NoOp /\ ~Written(refused)[g].acknowledged
  BY <1>0, <1>4, <1>5, WrittenRecord DEF Settled
<1>11. PlanSound(g)'
  <2>1. CASE /\ ok /\ operations' = begun /\ executor' = [executor EXCEPT ![g] = <<"queued">>]
             /\ gitLedger' = Written(begun)
    <3>1. operations'[g] = Fresh /\ executor'[g] = <<"queued">> /\ g \notin plans' /\ g \in Known'
          /\ g \in ActiveOps' /\ g \notin gitProcess' /\ event'[g] = NoEvent
      BY <1>0, <1>1, <1>4, <1>5, <1>9, <2>1 DEF Known, ActiveOps
    <3>2. ExecutorSound(g)'
      BY <1>4, <3>1, Places DEF ExecutorSound, Done, Quiescent
    <3>3. executor'[g] \notin Leased
      BY <3>1 DEF Leased
    <3> QED BY <1>4, <1>10, <2>1, <3>1, <3>2, <3>3 DEF PlanSound
  <2>2. CASE executor' = executor /\ operations' \in {kept, refused}
             /\ gitLedger' \in {gitLedger, Written(begun), Written(refused)}
             /\ (ok => operations' = refused)
    <3>1. /\ executor'[g] = <<"none">> /\ event'[g] = NoEvent /\ g \notin gitProcess'
          /\ operations'[g] \in {NoOp, Finished(Fresh, "error")}
      BY <1>1, <1>3, <1>5, <1>9, <2>2
    <3>2. /\ g \notin ActiveOps'
          /\ g \in Known' => ~operations'[g].terminal /\ ~operations'[g].acknowledged
      BY <1>4, <3>1 DEF Known, ActiveOps
    <3>3. ExecutorSound(g)'
      BY <3>1, <3>2, Places DEF ExecutorSound, Done, Quiescent
    <3>4. ~Owed(g)' /\ executor'[g] \notin Leased
      BY <3>1 DEF Owed, Owing, Leased
    <3>5. gitLedger'[g] # NoOp /\ gitLedger'[g].acknowledged
              => gitLedger'[g].state \in {"Unknown", "Complete"}
      BY <1>0, <1>10, <2>2 DEF PlanSound
    <3>6. g \in plans' => g \notin Known'
      <4>1. CASE ok
        BY <1>1, <4>1
      <4>2. CASE ~ok
        <5>1. operations' = kept
          BY <1>2, <4>2
        <5> QED BY <1>3, <5>1 DEF Known
      <4> QED BY <4>1, <4>2
    <3> QED BY <3>1, <3>2, <3>3, <3>4, <3>5, <3>6 DEF PlanSound
  <2> QED BY <1>2, <2>1, <2>2
<1>12. gitLedger' \in [Plans -> GitRecord \union {NoOp}]
  BY <1>0, <1>2, <1>5, WrittenRecord
<1> QED BY <1>6, <1>8, <1>11, <1>12

LEMMA QuietPlanStep ==
    ASSUME GitTypeOK, \A k \in Plans : PlanSound(k), NEW g \in Plans,
           \/ Plan(g) \/ GitProcessExits(g)
           \/ \E gone \in SUBSET Plans : ExecuteRefused(gone)
    PROVE  /\ \A k \in Plans : PlanSound(k)'
           /\ operations' \in [Plans -> Operation \union {NoOp}]
<1>0. operations \in [Plans -> Operation \union {NoOp}]
  BY DEF GitTypeOK
<1>1. CASE Plan(g)
  <2>1. /\ UNCHANGED <<operations, gitLedger, executor, event, gitProcess, gitUp, executionsDead, lease>>
        /\ plans' = plans \union {g} /\ g \notin Known /\ g \notin gitProcess
        /\ executor[g] = <<"none">>
    BY <1>1 DEF Plan, gateVars, poolVars, Known, GitInUse
  <2>2. ASSUME NEW k \in Plans, k # g PROVE PlanSound(k)'
    <3>1. Untouched(k)
      BY <2>1, <2>2 DEF Untouched
    <3> QED BY <2>1, <3>1, PlanKeptUnsaved
  <2>3. event[g] = NoEvent
    BY <2>1, Places DEF PlanSound, ExecutorSound, Quiescent
  <2>4. PlanSound(g)'
    BY <2>1, <2>3 DEF PlanSound, ExecutorSound, Owed, Known, ActiveOps
  <2> QED BY <1>0, <2>1, <2>2, <2>4
<1>2. CASE GitProcessExits(g)
  <2>1. /\ UNCHANGED <<operations, gitLedger, executor, event, plans, gitUp, executionsDead, lease>>
        /\ gitProcess' = gitProcess \ {g}
    BY <1>2 DEF GitProcessExits, gateVars, poolVars
  <2>2. ASSUME NEW k \in Plans PROVE PlanSound(k)'
    <3>1. Untouched(k)
      BY <2>1 DEF Untouched
    <3> QED BY <2>1, <3>1, PlanKeptUnsaved
  <2> QED BY <1>0, <2>1, <2>2
<1>3. ASSUME NEW gone \in SUBSET Plans, ExecuteRefused(gone)
      PROVE  /\ \A k \in Plans : PlanSound(k)'
             /\ operations' \in [Plans -> Operation \union {NoOp}]
  <2>1. /\ gitUp /\ UNCHANGED <<gitUp, executionsDead, event, gitProcess, lease, plans, executor>>
        /\ UNCHANGED gitLedger /\ ~executionsDead /\ Forgettable(gone)
        /\ operations' = Kept(gone)
    BY <1>3 DEF ExecuteRefused, Kept, gateVars, poolVars
  <2>2. operations' \in [Plans -> Operation \union {NoOp}]
    BY <2>1, KeptOthers
  <2> QED BY <2>1, <2>2, RoomPlanStep
<1> QED BY <1>1, <1>2, <1>3

LEMMA ReconcilePlanStep ==
    ASSUME GitTypeOK, \A k \in Plans : PlanSound(k), NEW g \in Plans, NEW ok \in BOOLEAN,
           ReconcileGit(g, ok)
    PROVE  /\ \A k \in Plans : PlanSound(k)'
           /\ operations' \in [Plans -> Operation \union {NoOp}]
           /\ gitLedger' \in [Plans -> GitRecord \union {NoOp}]
<1> DEFINE op == Confirmed(operations[g])
           book == [operations EXCEPT ![g] = op]
<1>0. /\ operations \in [Plans -> Operation \union {NoOp}]
      /\ gitLedger \in [Plans -> GitRecord \union {NoOp}]
      /\ PlanSound(g) /\ ExecutorSound(g) /\ NoOp \notin Operation
  BY GitSentinelAssumption DEF GitTypeOK, PlanSound
<1>1. /\ gitUp /\ UNCHANGED <<gitUp, executionsDead, event, gitProcess, lease, plans, executor>>
      /\ g \in Known /\ operations[g].state = "Unknown" /\ ~operations[g].active
      /\ g \notin gitProcess
      /\ operations' \in {operations, book} /\ gitLedger' \in {gitLedger, Written(book)}
  BY DEF ReconcileGit, SaveGit, Unblock, Confirmed, gateVars, poolVars
<1>2. operations[g] \in Operation
  BY <1>0, <1>1 DEF Known
<1>3. /\ op \in Operation /\ ~op.active /\ op.terminal = operations[g].terminal
      /\ op.state = "Unknown"
  BY <1>1, <1>2, OperationUpdates
<1> HIDE DEF op
<1>4. /\ book \in [Plans -> Operation \union {NoOp}] /\ book[g] = op
      /\ \A k \in Plans : k # g => book[k] = operations[k]
  BY <1>0, <1>3
<1> HIDE DEF book
<1>5. ASSUME NEW k \in Plans, k # g PROVE PlanSound(k)'
  <2>1. operations'[k] = operations[k] /\ Written(book)[k] = Written(operations')[k]
    BY <1>1, <1>4, <1>5 DEF Written
  <2>2. Untouched(k)
    BY <1>1, <2>1 DEF Untouched
  <2> QED BY <1>0, <1>1, <1>4, <2>2, PlanKept
<1>6. PlanSound(g)'
  <2>1. /\ g \in Known' /\ g \notin ActiveOps' /\ g \notin ActiveOps
        /\ operations'[g].terminal = operations[g].terminal
        /\ ~operations'[g].active /\ operations'[g].state = "Unknown"
    BY <1>0, <1>1, <1>3, <1>4 DEF Known, ActiveOps
  <2>2. ExecutorSound(g)'
    BY <1>0, <1>1, <2>1 DEF ExecutorSound
  <2>3. executor[g] \in Done
    BY <1>0, <2>1 DEF ExecutorSound
  <2>4. ~Owed(g)' /\ executor'[g] \notin Leased
    BY <1>1, <2>3 DEF Owed, Owing, Leased, Done
  <2>5. Written(book)[g].state = "Unknown"
    BY <1>0, <1>3, <1>4, WrittenRecord
  <2>6. gitLedger'[g] # NoOp /\ gitLedger'[g].acknowledged
            => gitLedger'[g].state \in {"Unknown", "Complete"}
    BY <1>0, <1>1, <2>5 DEF PlanSound
  <2>7. g \notin plans'
    BY <1>0, <1>1 DEF PlanSound
  <2> QED BY <2>1, <2>2, <2>4, <2>6, <2>7 DEF PlanSound
<1>7. gitLedger' \in [Plans -> GitRecord \union {NoOp}]
  BY <1>0, <1>1, <1>4, WrittenRecord
<1> QED BY <1>0, <1>1, <1>4, <1>5, <1>6, <1>7

\* A pool without workers has nothing in hand.
LEMMA DeadPoolIdle ==
    ASSUME GitTypeOK, PoolSound, executeAlive = 0
    PROVE  \A g \in Plans : executor[g] = <<"none">>
<1>1. Cardinality(Busy) = 0
  <2>1. Cardinality(Busy) \in Nat
    BY FS_CardinalityType DEF PoolSound
  <2> QED BY <2>1 DEF PoolSound
<1>2. Busy = {}
  BY <1>1, FS_EmptySet DEF PoolSound
<1> QED BY <1>2 DEF Busy, PoolSound

LEMMA DeathPlanStep ==
    ASSUME GitTypeOK, \A k \in Plans : PlanSound(k), PoolSound, ExecutionsDie
    PROVE  /\ \A k \in Plans : PlanSound(k)'
           /\ operations' \in [Plans -> Operation \union {NoOp}]
           /\ ActiveOps' = {} /\ executeAlive' = 0
<1>0. /\ operations \in [Plans -> Operation \union {NoOp}] /\ NoOp \notin Operation
      /\ \A k \in Plans : executor[k] = <<"none">>
  BY GitSentinelAssumption, DeadPoolIdle DEF GitTypeOK, ExecutionsDie
<1>1. /\ gitUp /\ UNCHANGED <<gitUp, event, gitProcess, lease, plans, executor, executeAlive>>
      /\ executionsDead' /\ executeAlive = 0
      /\ operations' = EndedByDeath /\ gitLedger' \in {gitLedger, Written(operations')}
  BY DEF ExecutionsDie, SaveAnyway, gateVars
<1>2. operations' \in [Plans -> Operation \union {NoOp}]
  <2>1. \A j \in Plans : operations'[j] \in {operations[j], Finished(operations[j], "error")}
    BY <1>1 DEF EndedByDeath
  <2>2. \A j \in Plans : operations'[j] = operations[j] \/ operations[j] \in Operation
    BY <1>0, <1>1 DEF EndedByDeath, Known, ActiveOps
  <2>3. "error" \in Results
    BY DEF Results
  <2>4. \A j \in Plans : operations'[j] \in Operation \union {NoOp}
    BY <1>0, <2>1, <2>2, <2>3, OperationUpdates
  <2> QED BY <1>1, <2>4 DEF EndedByDeath
<1>3. ASSUME NEW k \in Plans, k \in ActiveOps
      PROVE  /\ operations'[k] \in Operation /\ ~operations'[k].active
             /\ PlanSound(k)'
  <2>1. ExecutorSound(k) /\ executor[k] = <<"none">> /\ PlanSound(k)
    BY <1>0 DEF PlanSound
  <2>2. k \in Known /\ ~operations[k].terminal /\ operations[k].active /\ k \notin gitProcess
    BY <1>3, <2>1, Places DEF ExecutorSound, ActiveOps
  <2>3. operations'[k] = Finished(operations[k], "error") /\ operations[k] \in Operation
    BY <1>0, <1>1, <1>3, <2>2 DEF EndedByDeath, Known
  <2>4. "error" \in Results
    BY DEF Results
  <2>5. /\ operations'[k] \in Operation /\ ~operations'[k].active /\ ~operations'[k].terminal
        /\ operations'[k].state \in {"Unknown", "Complete"}
    BY <2>2, <2>3, <2>4, OperationUpdates
  <2>6. k \in Known' /\ k \notin ActiveOps'
    BY <1>0, <2>5 DEF Known, ActiveOps
  <2>7. ExecutorSound(k)'
    BY <1>1, <2>1, <2>2, <2>5, <2>6 DEF ExecutorSound, Done
  <2>8. ~Owed(k)' /\ executor'[k] \notin Leased
    BY <1>1, <2>1, <2>2 DEF Owed, Owing, Leased
  <2>9. gitLedger'[k] # NoOp /\ gitLedger'[k].acknowledged
            => gitLedger'[k].state \in {"Unknown", "Complete"}
    <3>1. CASE gitLedger' = gitLedger
      BY <2>1, <3>1 DEF PlanSound
    <3>2. CASE gitLedger' = Written(operations')
      BY <1>2, <2>5, <3>2, SavedAcknowledged
    <3> QED BY <1>1, <3>1, <3>2
  <2>10. k \notin plans'
    BY <1>1, <2>1, <2>2 DEF PlanSound
  <2> QED BY <2>5, <2>7, <2>8, <2>9, <2>10 DEF PlanSound
<1>4. \A k \in Plans : k \notin ActiveOps => operations'[k] = operations[k]
  BY <1>1 DEF EndedByDeath
<1>5. ASSUME NEW k \in Plans, k \notin ActiveOps PROVE PlanSound(k)'
  <2>1. Untouched(k)
    BY <1>1, <1>4, <1>5 DEF Untouched
  <2> QED BY <1>1, <1>2, <2>1, PlanKept
<1>6. ActiveOps' = {}
  BY <1>3, <1>4 DEF ActiveOps, Known
<1> QED BY <1>1, <1>3, <1>2, <1>5, <1>6

\* The next host takes over what the ledger says, and the processes.
LEMMA OpenPlanStep ==
    ASSUME GitTypeOK, \A k \in Plans : PlanSound(k), DownSound, NEW ok \in BOOLEAN, GitOpen(ok)
    PROVE  /\ \A k \in Plans : PlanSound(k)'
           /\ operations' \in [Plans -> Operation \union {NoOp}]
           /\ gitLedger' \in [Plans -> GitRecord \union {NoOp}]
           /\ ActiveOps' = {}
<1>0. /\ operations \in [Plans -> Operation \union {NoOp}] /\ NoOp \notin Operation
      /\ gitLedger \in [Plans -> GitRecord \union {NoOp}]
      /\ Known = {} /\ plans = {}
      /\ \A k \in Plans : executor[k] = <<"none">> /\ event[k] = NoEvent
  BY GitSentinelAssumption DEF GitTypeOK, GitOpen, DownSound
<1>1. /\ ~gitUp /\ gitUp' = ok /\ UNCHANGED <<event, gitProcess, lease, plans, executor>>
      /\ operations' = IF ok THEN RestoredAll ELSE operations
      /\ gitLedger' \in {gitLedger, Written(RestoredAll)}
      /\ ok => gitLedger' = Written(RestoredAll)
  BY DEF GitOpen, SaveGit
<1>2. ASSUME NEW k \in Plans, gitLedger[k] # NoOp
      PROVE  /\ RestoredAll[k] \in Operation
             /\ ~RestoredAll[k].active /\ ~RestoredAll[k].terminal
             /\ RestoredAll[k].state \in {"Unknown", "Complete"}
             /\ Settled(RestoredAll[k]) <=> Settled(gitLedger[k])
  <2>1. gitLedger[k] \in GitRecord /\ RestoredAll[k] = Restored(gitLedger[k])
    BY <1>0, <1>2 DEF RestoredAll
  <2>2. gitLedger[k].acknowledged => gitLedger[k].state \in {"Unknown", "Complete"}
    BY <1>2 DEF PlanSound
  <2> QED BY <2>1, <2>2, RestoredRecord
<1>3. \A k \in Plans : gitLedger[k] = NoOp => RestoredAll[k] = NoOp
  BY DEF RestoredAll
<1>4. RestoredAll \in [Plans -> Operation \union {NoOp}]
  <2>1. \A k \in Plans : RestoredAll[k] \in Operation \union {NoOp}
    BY <1>2, <1>3
  <2> QED BY <2>1 DEF RestoredAll
<1>5. \A k \in Plans :
        /\ Written(RestoredAll)[k] = NoOp <=> gitLedger[k] = NoOp
        /\ gitLedger[k] # NoOp =>
              /\ Written(RestoredAll)[k].state \in {"Unknown", "Complete"}
              /\ Settled(Written(RestoredAll)[k]) <=> Settled(gitLedger[k])
  BY <1>0, <1>2, <1>3, <1>4, WrittenRecord DEF Settled
<1>6. operations' \in [Plans -> Operation \union {NoOp}]
  BY <1>0, <1>1, <1>4
<1>7. ASSUME NEW k \in Plans
      PROVE  PlanSound(k)' /\ k \notin ActiveOps'
  <2>1. k \in Known' => /\ ok /\ gitLedger[k] # NoOp /\ operations'[k] = RestoredAll[k]
    BY <1>0, <1>1, <1>3, <1>7 DEF Known
  <2>2. k \in Known' => /\ ~operations'[k].active /\ ~operations'[k].terminal
                        /\ operations'[k].state \in {"Unknown", "Complete"}
    BY <1>2, <2>1
  <2>3. k \notin ActiveOps'
    BY <2>2 DEF ActiveOps
  <2>4. executor'[k] = <<"none">> /\ event'[k] = NoEvent /\ k \notin plans'
    BY <1>0, <1>1
  <2>5. ExecutorSound(k)'
    BY <2>2, <2>3, <2>4, Places DEF ExecutorSound, Done, Quiescent
  <2>6. executor'[k] \notin Leased
    BY <2>4 DEF Leased
  <2>7. ASSUME Owed(k)'
        PROVE  /\ gitLedger'[k] # NoOp /\ ~Settled(gitLedger'[k])
               /\ gitUp' => k \in Known' /\ ~Settled(operations'[k])
    <3>1. Owed(k)
      BY <1>0, <1>1, <2>4, <2>7 DEF Owed
    <3>2. gitLedger[k] # NoOp /\ ~Settled(gitLedger[k])
      BY <3>1 DEF PlanSound
    <3>3. gitLedger'[k] # NoOp /\ ~Settled(gitLedger'[k])
      BY <1>1, <1>5, <3>2
    <3>4. gitUp' => k \in Known' /\ ~Settled(operations'[k])
      BY <1>0, <1>1, <1>2, <3>2 DEF Known
    <3> QED BY <3>3, <3>4
  <2>8. gitLedger'[k] # NoOp /\ gitLedger'[k].acknowledged
            => gitLedger'[k].state \in {"Unknown", "Complete"}
    BY <1>1, <1>5 DEF PlanSound
  <2> QED BY <2>2, <2>3, <2>4, <2>5, <2>6, <2>7, <2>8 DEF PlanSound
<1>8. gitLedger' \in [Plans -> GitRecord \union {NoOp}]
  BY <1>0, <1>1, <1>4, WrittenRecord
<1> QED BY <1>6, <1>7, <1>8 DEF ActiveOps, Known

\* The host ends: only the ledger and the processes are left.
LEMMA LostPlanStep ==
    ASSUME GitTypeOK, \A k \in Plans : PlanSound(k), GitLost
    PROVE  \A k \in Plans : PlanSound(k)'
<1> SUFFICES ASSUME NEW k \in Plans PROVE PlanSound(k)'
  OBVIOUS
<1>1. /\ executor'[k] = <<"none">> /\ event'[k] = NoEvent /\ k \notin plans' /\ ~gitUp'
      /\ gitLedger'[k] = gitLedger[k] /\ gitProcess' = gitProcess
      /\ k \notin Known' /\ k \notin ActiveOps'
  BY DEF GitLost, Known, ActiveOps
<1>2. ExecutorSound(k)'
  BY <1>1, Places DEF ExecutorSound, Done, Quiescent
<1>3. (Owed(k)' => Owed(k)) /\ executor'[k] \notin Leased
  BY <1>1 DEF Owed, Owing, Leased
<1> QED BY <1>1, <1>2, <1>3 DEF PlanSound
-----------------------------------------------------------------------------
(* The pool, the operations in flight, and what an earlier host left.      *)

\* Only execute begins an operation, and no operation in flight is given up
\* while its process lives.
LEMMA ActivityStep ==
    ASSUME GitTypeOK, \A k \in Plans : PlanSound(k), PoolSound,
           GitStep \/ (\E gone \in SUBSET Plans : ExecuteRefused(gone))
                   \/ (\E g \in Plans : GitProcessExits(g))
    PROVE  /\ ActiveOps' \subseteq ActiveOps
           /\ gitProcess' \ ActiveOps' \subseteq gitProcess \ ActiveOps
<1>0. /\ operations \in [Plans -> Operation \union {NoOp}] /\ NoOp \notin Operation
      /\ \A k \in Plans : ExecutorSound(k)
  BY GitSentinelAssumption DEF GitTypeOK, PlanSound
<1> SUFFICES ASSUME NEW k \in Plans
             PROVE  /\ k \in ActiveOps' => k \in ActiveOps
                    /\ k \in gitProcess' /\ k \notin ActiveOps'
                          => k \in gitProcess /\ k \notin ActiveOps
  <2>1. ActiveOps' \subseteq Plans /\ gitProcess' \subseteq Plans
    <3>1. gitProcess' \subseteq gitProcess \union Plans
      BY DEF GitStep, ExecuteRefused, GitProcessExits, ExecutionsDie, ReconcileGit, Plan, Reserve,
             ReserveRefused, ReturnUnspawned, Return, SpawnGit, ReturnReaped, SendExecuted,
             DropRunUse, ExecutorPanics, TerminalArrives, Reap, ExecutedArrives, CancelGit
    <3> QED BY <3>1 DEF ActiveOps, Known, GitTypeOK
  <2> QED BY <2>1
<1>1. ASSUME operations' = operations, gitProcess' \subseteq gitProcess
      PROVE  /\ k \in ActiveOps' => k \in ActiveOps
             /\ k \in gitProcess' /\ k \notin ActiveOps'
                   => k \in gitProcess /\ k \notin ActiveOps
  BY <1>1 DEF ActiveOps, Known
<1>2. ASSUME NEW g \in Plans,
             \/ Plan(g) \/ Reserve(g) \/ ReserveRefused(g) \/ ReturnUnspawned(g)
             \/ ReturnReaped(g) \/ SendExecuted(g) \/ DropRunUse(g) \/ ExecutorPanics(g)
             \/ GitProcessExits(g)
      PROVE  operations' = operations /\ gitProcess' \subseteq gitProcess
  BY <1>2 DEF Plan, Reserve, ReserveRefused, ReturnUnspawned, Return, ReturnReaped,
              SendExecuted, DropRunUse, ExecutorPanics, GitProcessExits
<1>3. ASSUME NEW g \in Plans, SpawnGit(g)
      PROVE  /\ k \in ActiveOps' => k \in ActiveOps
             /\ k \in gitProcess' /\ k \notin ActiveOps'
                   => k \in gitProcess /\ k \notin ActiveOps
  <2>1. /\ operations' = operations /\ gitProcess' = gitProcess \union {g}
        /\ executor[g] = <<"leased">>
    BY <1>3 DEF SpawnGit
  <2>2. g \in ActiveOps
    BY <1>0, <2>1 DEF ExecutorSound, Done
  <2> QED BY <2>1, <2>2 DEF ActiveOps, Known
<1>4. ASSUME NEW g \in Plans, NEW op \in Operation, g \in Known,
             operations' = [operations EXCEPT ![g] = op], gitProcess' = gitProcess,
             op.active => operations[g].active,
             operations[g].active /\ ~op.active => g \notin gitProcess
      PROVE  /\ k \in ActiveOps' => k \in ActiveOps
             /\ k \in gitProcess' /\ k \notin ActiveOps'
                   => k \in gitProcess /\ k \notin ActiveOps
  <2>1. CASE k # g
    BY <1>0, <1>4, <2>1 DEF ActiveOps, Known
  <2>2. CASE k = g
    <3>1. operations'[g] = op /\ op # NoOp
      BY <1>0, <1>4
    <3> QED BY <1>4, <2>2, <3>1 DEF ActiveOps, Known
  <2> QED BY <2>1, <2>2
<1>5. ASSUME NEW g \in Plans, TerminalArrives(g) \/ CancelGit(g) \/ Reap(g)
      PROVE  /\ k \in ActiveOps' => k \in ActiveOps
             /\ k \in gitProcess' /\ k \notin ActiveOps'
                   => k \in gitProcess /\ k \notin ActiveOps
  <2>1. g \in Known /\ gitProcess' = gitProcess
    BY <1>0, <1>5, Places
    DEF TerminalArrives, CancelGit, Reap, ExecutorSound, ActiveOps, Known, Done
  <2>2. operations[g] \in Operation
    BY <1>0, <2>1 DEF Known
  <2>3. \E op \in {Arrived(operations[g], "Running"), Arrived(operations[g], "Cancelling"),
                   Cancelling(operations[g]), Reaped(operations[g])} :
           operations' = [operations EXCEPT ![g] = op]
    BY <1>5 DEF TerminalArrives, CancelGit, Reap, SaveAnyway, Arrived, Cancelling, Reaped
  <2>4. \A op \in {Arrived(operations[g], "Running"), Arrived(operations[g], "Cancelling"),
                   Cancelling(operations[g]), Reaped(operations[g])} :
           op \in Operation /\ op.active = operations[g].active
    BY <2>2, OperationUpdates
  <2> QED BY <1>4, <2>1, <2>3, <2>4
<1>6. ASSUME NEW g \in Plans, ExecutedArrives(g)
      PROVE  /\ k \in ActiveOps' => k \in ActiveOps
             /\ k \in gitProcess' /\ k \notin ActiveOps'
                   => k \in gitProcess /\ k \notin ActiveOps
  <2>1. PICK result \in Results :
           /\ event[g] = <<"executed", result>>
           /\ IF g \in Known THEN SaveAnyway([operations EXCEPT ![g] = Finished(@, result)])
              ELSE UNCHANGED <<operations, gitLedger>>
    BY <1>6 DEF ExecutedArrives
  <2>2. event[g] \notin Quiescent /\ gitProcess' = gitProcess
    BY <1>6, <2>1, Places DEF Quiescent, ExecutedArrives
  <2>3. g \in Known /\ g \notin gitProcess /\ operations[g] \in Operation
    BY <1>0, <2>2 DEF ExecutorSound, Known
  <2>4. operations' = [operations EXCEPT ![g] = Finished(operations[g], result)]
    BY <2>1, <2>3 DEF SaveAnyway
  <2>5. /\ Finished(operations[g], result) \in Operation
        /\ Finished(operations[g], result).active => operations[g].active
    <3>1. result \in Results
      BY <2>1
    <3>2. ~operations[g].terminal
      BY <1>0, <2>2, <2>3, Places DEF ExecutorSound, Done
    <3> QED BY <2>3, <3>1, <3>2, OperationUpdates
  <2> QED BY <1>4, <2>2, <2>3, <2>4, <2>5
<1>7. ASSUME NEW g \in Plans, NEW ok \in BOOLEAN, ReconcileGit(g, ok)
      PROVE  /\ k \in ActiveOps' => k \in ActiveOps
             /\ k \in gitProcess' /\ k \notin ActiveOps'
                   => k \in gitProcess /\ k \notin ActiveOps
  <2>1. /\ g \in Known /\ ~operations[g].active /\ gitProcess' = gitProcess
        /\ \/ operations' = operations
           \/ operations' = [operations EXCEPT ![g] = Confirmed(operations[g])]
    BY <1>7 DEF ReconcileGit, Confirmed
  <2>2. operations[g] \in Operation
    BY <1>0, <2>1 DEF Known
  <2>3. /\ Confirmed(operations[g]) \in Operation
        /\ Confirmed(operations[g]).active = operations[g].active
    BY <2>2, OperationUpdates
  <2> QED BY <1>1, <1>4, <2>1, <2>3
<1>8. ASSUME NEW gone \in SUBSET Plans, ExecuteRefused(gone)
      PROVE  /\ k \in ActiveOps' => k \in ActiveOps
             /\ k \in gitProcess' /\ k \notin ActiveOps'
                   => k \in gitProcess /\ k \notin ActiveOps
  <2>1. /\ operations' = Kept(gone) /\ gitProcess' = gitProcess
        /\ \A j \in gone : ~operations[j].active
    BY <1>8, KeptOthers DEF ExecuteRefused, Kept
  <2>2. k \in gone => k \notin ActiveOps
    BY <2>1 DEF ActiveOps
  <2> QED BY <2>1, <2>2 DEF Kept, ActiveOps, Known
<1>9. ASSUME ExecutionsDie
      PROVE  /\ k \in ActiveOps' => k \in ActiveOps
             /\ k \in gitProcess' /\ k \notin ActiveOps'
                   => k \in gitProcess /\ k \notin ActiveOps
  <2>1. ActiveOps' = {} /\ gitProcess' = gitProcess /\ executeAlive = 0
    BY <1>9, DeathPlanStep DEF ExecutionsDie
  <2>2. k \in gitProcess => k \notin ActiveOps
    BY <1>0, <2>1, DeadPoolIdle, Places DEF ExecutorSound
  <2> QED BY <2>1, <2>2
<1> QED BY <1>1, <1>2, <1>3, <1>5, <1>6, <1>7, <1>8, <1>9 DEF GitStep

\* Work begins and ends within the number of workers.
LEMMA BusySound ==
    ASSUME GitTypeOK, PoolSound, NEW g \in Plans,
           \/ Busy' \subseteq Busy /\ executeAlive' = executeAlive
           \/ Busy' \subseteq Busy \union {g} /\ FreeWorker /\ executeAlive' = executeAlive
           \/ Busy' \subseteq Busy \ {g} /\ g \in Busy /\ executeAlive' = executeAlive - 1
           \/ Busy' \subseteq Busy /\ FreeWorker /\ executeAlive' = executeAlive - 1
    PROVE  /\ IsFiniteSet(Busy') /\ Cardinality(Busy') <= executeAlive'
           /\ executeAlive' \in Nat /\ executeAlive' <= executeAlive
<1>0. executeAlive \in Nat /\ IsFiniteSet(Busy) /\ Cardinality(Busy) <= executeAlive
  BY GitAssumption DEF GitTypeOK, PoolSound
<1>1. FreeWorker => Cardinality(Busy) < executeAlive
  BY DEF FreeWorker, Busy
<1>2. Cardinality(Busy) \in Nat
  BY <1>0, FS_CardinalityType
<1>3. /\ IsFiniteSet(Busy \union {g}) /\ IsFiniteSet(Busy \ {g})
      /\ Cardinality(Busy \union {g}) <= Cardinality(Busy) + 1
      /\ g \in Busy => Cardinality(Busy \ {g}) = Cardinality(Busy) - 1
                       /\ Cardinality(Busy \ {g}) \in Nat
  BY <1>0, <1>2, FS_AddElement, FS_RemoveElement, FS_CardinalityType
<1>4. \A T, S : IsFiniteSet(T) /\ S \subseteq T
          => /\ IsFiniteSet(S) /\ Cardinality(S) <= Cardinality(T)
             /\ Cardinality(S) \in Nat /\ Cardinality(T) \in Nat
  BY FS_Subset, FS_CardinalityType
<1> DEFINE busy == Busy'
<1>5. CASE busy \subseteq Busy /\ executeAlive' = executeAlive
  BY <1>0, <1>2, <1>4, <1>5
<1>6. CASE busy \subseteq Busy \union {g} /\ FreeWorker /\ executeAlive' = executeAlive
  BY <1>0, <1>1, <1>2, <1>3, <1>4, <1>6
<1>7. CASE busy \subseteq Busy \ {g} /\ g \in Busy /\ executeAlive' = executeAlive - 1
  BY <1>0, <1>2, <1>3, <1>4, <1>7
<1>8. CASE busy \subseteq Busy /\ FreeWorker /\ executeAlive' = executeAlive - 1
  BY <1>0, <1>1, <1>2, <1>4, <1>8
<1> QED BY <1>5, <1>6, <1>7, <1>8

LEMMA PanicPool ==
    ASSUME GitTypeOK, PoolSound, NEW g \in Plans, ExecutorPanics(g)
    PROVE  PoolSound' /\ executeAlive' \in 0..GitExecutors
<1>0. /\ executor \in [Plans -> ExecutorState] /\ executeAlive \in 0..GitExecutors
      /\ GitExecutors \in Nat
  BY GitAssumption DEF GitTypeOK
<1>1. /\ executeAlive' = executeAlive - 1 /\ UNCHANGED <<operations, executionsDead>>
      /\ executor[g] \in {<<"leased">>, <<"reaped">>}
            \/ (executor[g] = <<"queued">> /\ FreeWorker)
      /\ executor'[g] = <<"none">>
      /\ \A k \in Plans : executor'[k] \in {<<"none">>, executor[k]}
      /\ executeAlive = 1 => \A k \in Plans : executor'[k] # <<"queued">>
  BY Places DEF ExecutorPanics
<1>2. Busy' \subseteq Busy \ {g}
  BY <1>1 DEF Busy
<1>3. \/ g \in Busy
      \/ FreeWorker
  BY <1>1, Places DEF Busy
<1>4. IsFiniteSet(Busy') /\ Cardinality(Busy') <= executeAlive' /\ executeAlive' \in Nat
  BY <1>1, <1>2, <1>3, BusySound
<1>5. executeAlive' = 0 => \A k \in Plans : executor'[k] # <<"queued">>
  BY <1>0, <1>1
<1>6. ~executionsDead'
  BY <1>0, <1>1, <1>4 DEF PoolSound
<1> QED BY <1>0, <1>1, <1>4, <1>5, <1>6 DEF PoolSound

LEMMA PoolStep ==
    ASSUME GitTypeOK, \A k \in Plans : PlanSound(k), PoolSound,
           \/ GitStep \/ ExecuteStep \/ \E g \in Plans : GitProcessExits(g)
    PROVE  PoolSound' /\ executeAlive' \in 0..GitExecutors
<1>0. /\ executor \in [Plans -> ExecutorState] /\ executeAlive \in 0..GitExecutors
  BY DEF GitTypeOK
\* Most steps move one worker, or none.
<1>1. ASSUME NEW g \in Plans, UNCHANGED <<executeAlive, executionsDead>>,
             \A k \in Plans : k # g => executor'[k] = executor[k],
             \/ executor'[g] = executor[g]
             \/ executor'[g] # <<"queued">> /\ (g \in Busy \/ FreeWorker)
             \/ executor'[g] = <<"queued">> /\ executeAlive > 0,
             executionsDead => ActiveOps' \subseteq ActiveOps
      PROVE  PoolSound' /\ executeAlive' \in 0..GitExecutors
  <2>1. Busy' \subseteq Busy \/ (Busy' \subseteq Busy \union {g} /\ FreeWorker)
    BY <1>1 DEF Busy
  <2>2. IsFiniteSet(Busy') /\ Cardinality(Busy') <= executeAlive'
    BY <1>1, <2>1, BusySound
  <2>3. executeAlive' = 0 => \A k \in Plans : executor'[k] # <<"queued">>
    BY <1>1 DEF PoolSound
  <2>4. executionsDead' => executeAlive' = 0 /\ ActiveOps' = {}
    BY <1>1 DEF PoolSound
  <2> QED BY <1>0, <1>1, <2>2, <2>3, <2>4 DEF PoolSound
<1>2. ASSUME NEW g \in Plans,
             \/ Plan(g) \/ TerminalArrives(g) \/ ExecutedArrives(g) \/ CancelGit(g)
             \/ GitProcessExits(g) \/ (\E ok \in BOOLEAN : ReconcileGit(g, ok))
      PROVE  PoolSound' /\ executeAlive' \in 0..GitExecutors
  <2>1. UNCHANGED <<executor, executeAlive, executionsDead>>
    BY <1>2 DEF Plan, TerminalArrives, ExecutedArrives, CancelGit, GitProcessExits,
                ReconcileGit, poolVars
  <2>2. GitStep \/ \E k \in Plans : GitProcessExits(k)
    BY <1>2 DEF GitStep
  <2> QED BY <1>1, <2>1, <2>2, ActivityStep
<1>3. ASSUME NEW gone \in SUBSET Plans, ExecuteRefused(gone)
      PROVE  PoolSound' /\ executeAlive' \in 0..GitExecutors
  <2>1. UNCHANGED <<executor, executeAlive, executionsDead>>
    BY <1>3 DEF ExecuteRefused, poolVars
  <2>2. ActiveOps' \subseteq ActiveOps
    BY <1>3, ActivityStep
  <2>3. PICK g \in gone : g \in Plans
    BY <1>3 DEF ExecuteRefused, Forgettable, Known
  <2> QED BY <1>1, <2>1, <2>2, <2>3
<1>4. ASSUME NEW g \in Plans,
             \/ Reserve(g) \/ ReserveRefused(g) \/ ReturnUnspawned(g) \/ SpawnGit(g)
             \/ ReturnReaped(g) \/ SendExecuted(g) \/ DropRunUse(g) \/ Reap(g)
      PROVE  PoolSound' /\ executeAlive' \in 0..GitExecutors
  <2>1. UNCHANGED <<executeAlive, executionsDead>>
    BY <1>4 DEF Reserve, ReserveRefused, ReturnUnspawned, Return, SpawnGit, ReturnReaped,
                SendExecuted, DropRunUse, Reap, poolVars
  <2>2. /\ \A k \in Plans : k # g => executor'[k] = executor[k]
        /\ executor'[g] # <<"queued">>
    BY <1>0, <1>4, Places
    DEF Reserve, ReserveRefused, ReturnUnspawned, Return, SpawnGit, ReturnReaped,
        SendExecuted, DropRunUse, Reap
  <2>3. g \in Busy \/ FreeWorker
    BY <1>4, Places
    DEF Reserve, ReserveRefused, ReturnUnspawned, SpawnGit, ReturnReaped,
        SendExecuted, DropRunUse, Reap, Busy
  <2>4. GitStep
    BY <1>4 DEF GitStep
  <2> QED BY <1>1, <2>1, <2>2, <2>3, <2>4, ActivityStep
<1>5. ASSUME NEW g \in Plans, NEW gone \in SUBSET Plans, NEW ok \in BOOLEAN, Execute(g, gone, ok)
      PROVE  PoolSound' /\ executeAlive' \in 0..GitExecutors
  <2>1. UNCHANGED <<executeAlive, executionsDead>> /\ ~executionsDead
    BY <1>5 DEF Execute, poolVars
  <2>2. executor' = executor \/ (executor' = [executor EXCEPT ![g] = <<"queued">>] /\ executeAlive > 0)
    BY <1>5 DEF Execute
  <2> QED BY <1>0, <1>1, <2>1, <2>2
<1>6. CASE ExecutionsDie
  <2>1. /\ executor' = executor /\ executeAlive' = 0 /\ executeAlive = 0 /\ ActiveOps' = {}
    BY <1>6, DeathPlanStep DEF ExecutionsDie
  <2>2. Busy' = Busy
    BY <2>1 DEF Busy
  <2> QED BY <1>0, <2>1, <2>2 DEF PoolSound
<1> QED BY <1>2, <1>3, <1>4, <1>5, <1>6, PanicPool DEF GitStep, ExecuteStep

LEMMA PoolRenewed ==
    ASSUME \A g \in Plans : executor'[g] = <<"none">>, executeAlive' = GitExecutors,
           ~executionsDead'
    PROVE  PoolSound' /\ executeAlive' \in 0..GitExecutors
<1>1. Busy' = {}
  BY DEF Busy
<1>2. IsFiniteSet(Busy') /\ Cardinality(Busy') = 0 /\ GitExecutors \in Nat \ {0}
  BY <1>1, FS_EmptySet, GitAssumption
<1> QED BY <1>2, Places DEF PoolSound
-----------------------------------------------------------------------------
(* The steps of the Git side, and the next host.                           *)

\* What every step of the Git side leaves as it is.
LEMMA GitFrame ==
    ASSUME GitTypeOK, \/ GitStep \/ ExecuteStep \/ \E g \in Plans : GitProcessExits(g)
    PROVE  /\ gitUp' = gitUp /\ executionsDead' \in BOOLEAN
           /\ plans' \subseteq Plans /\ gitProcess' \subseteq Plans
           /\ executor' \in [Plans -> ExecutorState]
           /\ event' \in [Plans -> GitEvent \union {NoEvent}]
<1>0. /\ executor \in [Plans -> ExecutorState] /\ event \in [Plans -> GitEvent \union {NoEvent}]
      /\ plans \subseteq Plans /\ gitProcess \subseteq Plans /\ executionsDead \in BOOLEAN
  BY DEF GitTypeOK
<1>1. /\ {<<"none">>, <<"queued">>, <<"leased">>, <<"spawned">>, <<"reaped">>, <<"sent">>}
            \subseteq ExecutorState
      /\ \A result \in Results : /\ <<"returned", result>> \in ExecutorState
                                 /\ <<"executed", result>> \in GitEvent
      /\ <<"terminal">> \in GitEvent
      /\ "error" \in Results /\ "unknown" \in Results /\ "known" \in Results
  BY DEF ExecutorState, Returned, GitEvent, Results
<1>2. ASSUME NEW g \in Plans, Plan(g) \/ GitProcessExits(g)
      PROVE  /\ gitUp' = gitUp /\ executionsDead' \in BOOLEAN
             /\ plans' \subseteq Plans /\ gitProcess' \subseteq Plans
             /\ executor' = executor /\ event' = event
  BY <1>0, <1>2 DEF Plan, GitProcessExits, poolVars
<1>3. ASSUME NEW g \in Plans,
             \/ Reserve(g) \/ ReserveRefused(g) \/ ReturnUnspawned(g)
             \/ ReturnReaped(g) \/ DropRunUse(g) \/ ExecutorPanics(g)
      PROVE  /\ UNCHANGED <<gitUp, executionsDead, plans, gitProcess, event>>
             /\ executor' \in [Plans -> ExecutorState]
  <2>1. UNCHANGED <<gitUp, executionsDead, plans, gitProcess, event>>
    BY <1>3 DEF Reserve, ReserveRefused, ReturnUnspawned, Return, ReturnReaped, DropRunUse,
                ExecutorPanics, poolVars
  <2>2. CASE Reserve(g) \/ ReserveRefused(g) \/ DropRunUse(g)
    BY <1>0, <1>1, <2>1, <2>2 DEF Reserve, ReserveRefused, DropRunUse
  <2>3. CASE ReturnUnspawned(g) \/ ReturnReaped(g)
    <3>1. \E result \in Results : executor' = [executor EXCEPT ![g] = <<"returned", result>>]
      BY <1>1, <2>3 DEF ReturnUnspawned, ReturnReaped, Return
    <3> QED BY <1>0, <1>1, <2>1, <3>1
  <2>4. CASE ExecutorPanics(g)
    BY <1>0, <1>1, <2>1, <2>4 DEF ExecutorPanics
  <2> QED BY <1>3, <2>2, <2>3, <2>4
<1>4. ASSUME NEW g \in Plans, SpawnGit(g)
      PROVE  /\ UNCHANGED <<gitUp, executionsDead, plans>> /\ gitProcess' \subseteq Plans
             /\ executor' \in [Plans -> ExecutorState]
             /\ event' \in [Plans -> GitEvent \union {NoEvent}]
  BY <1>0, <1>1, <1>4, Places DEF SpawnGit, poolVars
<1>5. ASSUME NEW g \in Plans, SendExecuted(g)
      PROVE  /\ UNCHANGED <<gitUp, executionsDead, plans, gitProcess>>
             /\ executor' \in [Plans -> ExecutorState]
             /\ event' \in [Plans -> GitEvent \union {NoEvent}]
  <2>1. PICK result \in Results : /\ executor[g] = <<"returned", result>>
                                  /\ event' = [event EXCEPT ![g] = <<"executed", result>>]
    BY <1>5 DEF SendExecuted
  <2>2. event' \in [Plans -> GitEvent \union {NoEvent}]
    BY <1>0, <1>1, <2>1
  <2> QED BY <1>0, <1>1, <1>5, <2>1, <2>2, Places DEF SendExecuted, poolVars
<1>6. ASSUME NEW g \in Plans,
             \/ TerminalArrives(g) \/ Reap(g) \/ ExecutedArrives(g) \/ CancelGit(g)
             \/ \E ok \in BOOLEAN : ReconcileGit(g, ok)
      PROVE  /\ UNCHANGED <<gitUp, executionsDead, plans, gitProcess>>
             /\ executor' \in [Plans -> ExecutorState]
             /\ event' \in [Plans -> GitEvent \union {NoEvent}]
  BY <1>0, <1>1, <1>6
  DEF TerminalArrives, Reap, ExecutedArrives, CancelGit, ReconcileGit, poolVars
<1>7. CASE ExecutionsDie
  BY <1>0, <1>7 DEF ExecutionsDie
<1>8. ASSUME NEW gone \in SUBSET Plans, ExecuteRefused(gone)
      PROVE  /\ UNCHANGED <<gitUp, executionsDead, plans, gitProcess, executor, event>>
  BY <1>8 DEF ExecuteRefused, poolVars
<1>9. ASSUME NEW g \in Plans, NEW gone \in SUBSET Plans, NEW ok \in BOOLEAN, Execute(g, gone, ok)
      PROVE  /\ UNCHANGED <<gitUp, executionsDead, gitProcess, event>>
             /\ executor' \in [Plans -> ExecutorState] /\ plans' \subseteq Plans
  BY <1>0, <1>1, <1>9 DEF Execute, poolVars
<1>10. ASSUME NEW g \in Plans,
             \/ Plan(g) \/ Reserve(g) \/ ReserveRefused(g) \/ ReturnUnspawned(g) \/ SpawnGit(g)
             \/ ReturnReaped(g) \/ SendExecuted(g) \/ DropRunUse(g) \/ ExecutorPanics(g)
             \/ TerminalArrives(g) \/ Reap(g) \/ ExecutedArrives(g) \/ CancelGit(g)
             \/ GitProcessExits(g) \/ (\E ok \in BOOLEAN : ReconcileGit(g, ok))
      PROVE  /\ gitUp' = gitUp /\ executionsDead' \in BOOLEAN
             /\ plans' \subseteq Plans /\ gitProcess' \subseteq Plans
             /\ executor' \in [Plans -> ExecutorState]
             /\ event' \in [Plans -> GitEvent \union {NoEvent}]
  BY <1>0, <1>2, <1>3, <1>4, <1>5, <1>6, <1>10
<1> QED BY <1>0, <1>7, <1>8, <1>9, <1>10 DEF GitStep, ExecuteStep

\* The records of the Git side keep their type, and what they say holds on.
LEMMA GitRecords ==
    ASSUME GitTypeOK, GateTypeOK, \A k \in Plans : PlanSound(k), PoolSound,
           \/ GitStep \/ ExecuteStep \/ \E g \in Plans : GitProcessExits(g)
    PROVE  /\ \A k \in Plans : PlanSound(k)'
           /\ operations' \in [Plans -> Operation \union {NoOp}]
           /\ gitLedger' \in [Plans -> GitRecord \union {NoOp}]
<1>0. /\ operations \in [Plans -> Operation \union {NoOp}]
      /\ gitLedger \in [Plans -> GitRecord \union {NoOp}]
  BY DEF GitTypeOK
<1>a. ASSUME operations' \in [Plans -> Operation \union {NoOp}],
             gitLedger' \in {gitLedger, Written(operations')}
      PROVE  gitLedger' \in [Plans -> GitRecord \union {NoOp}]
  BY <1>0, <1>a, WrittenRecord
<1>1. ASSUME NEW g \in Plans,
             \/ Reserve(g) \/ ReserveRefused(g) \/ ReturnUnspawned(g) \/ SpawnGit(g)
             \/ ReturnReaped(g) \/ SendExecuted(g) \/ DropRunUse(g) \/ ExecutorPanics(g)
      PROVE  (\A k \in Plans : PlanSound(k)') /\ operations' = operations /\ gitLedger' = gitLedger
  <2>1. operations' = operations /\ gitLedger' = gitLedger
    BY <1>1 DEF Reserve, ReserveRefused, ReturnUnspawned, Return, SpawnGit, ReturnReaped,
                SendExecuted, DropRunUse, ExecutorPanics
  <2>2. CASE ExecutorPanics(g)
    BY <2>1, <2>2, PanicPlanStep
  <2>3. CASE ~ExecutorPanics(g)
    BY <1>1, <2>1, <2>3, WorkerPlanStep
  <2> QED BY <2>2, <2>3
<1>2. ASSUME NEW g \in Plans,
             TerminalArrives(g) \/ Reap(g) \/ ExecutedArrives(g) \/ CancelGit(g)
      PROVE  /\ \A k \in Plans : PlanSound(k)'
             /\ operations' \in [Plans -> Operation \union {NoOp}]
             /\ gitLedger' \in {gitLedger, Written(operations')}
  <2>1. gitLedger' \in {gitLedger, Written(operations')}
    BY <1>2 DEF TerminalArrives, Reap, ExecutedArrives, CancelGit, SaveAnyway
  <2> QED BY <1>2, <2>1, BridgePlanStep
<1>3. ASSUME NEW g \in Plans, Plan(g) \/ GitProcessExits(g)
      PROVE  /\ \A k \in Plans : PlanSound(k)'
             /\ operations' \in [Plans -> Operation \union {NoOp}]
             /\ gitLedger' = gitLedger
  <2>1. gitLedger' = gitLedger
    BY <1>3 DEF Plan, GitProcessExits
  <2> QED BY <1>3, <2>1, QuietPlanStep
<1>4. ASSUME NEW gone \in SUBSET Plans, ExecuteRefused(gone)
      PROVE  /\ \A k \in Plans : PlanSound(k)'
             /\ operations' \in [Plans -> Operation \union {NoOp}]
             /\ gitLedger' = gitLedger
  <2>1. gitLedger' = gitLedger /\ \E g : g \in Plans
    BY <1>4 DEF ExecuteRefused, Forgettable, Known
  <2> QED BY <1>4, <2>1, QuietPlanStep
<1>5. CASE ExecutionsDie
  <2>1. gitLedger' \in {gitLedger, Written(operations')}
    BY <1>5 DEF ExecutionsDie, SaveAnyway
  <2> QED BY <1>5, <1>a, <2>1, DeathPlanStep
<1>6. ASSUME NEW g \in Plans, NEW ok \in BOOLEAN, ReconcileGit(g, ok)
      PROVE  /\ \A k \in Plans : PlanSound(k)'
             /\ operations' \in [Plans -> Operation \union {NoOp}]
             /\ gitLedger' \in [Plans -> GitRecord \union {NoOp}]
  BY <1>6, ReconcilePlanStep
<1>7. ASSUME NEW g \in Plans, NEW gone \in SUBSET Plans, NEW ok \in BOOLEAN, Execute(g, gone, ok)
      PROVE  /\ \A k \in Plans : PlanSound(k)'
             /\ operations' \in [Plans -> Operation \union {NoOp}]
             /\ gitLedger' \in [Plans -> GitRecord \union {NoOp}]
  BY <1>7, ExecutePlanStep
<1>8. CASE ExecuteStep
  BY <1>0, <1>4, <1>7, <1>8 DEF ExecuteStep
<1>9. ASSUME NEW g \in Plans,
             \/ Plan(g) \/ Reserve(g) \/ ReserveRefused(g) \/ ReturnUnspawned(g) \/ SpawnGit(g)
             \/ ReturnReaped(g) \/ SendExecuted(g) \/ DropRunUse(g) \/ ExecutorPanics(g)
             \/ TerminalArrives(g) \/ Reap(g) \/ ExecutedArrives(g) \/ CancelGit(g)
             \/ GitProcessExits(g)
      PROVE  /\ \A k \in Plans : PlanSound(k)'
             /\ operations' \in [Plans -> Operation \union {NoOp}]
             /\ gitLedger' \in [Plans -> GitRecord \union {NoOp}]
  BY <1>0, <1>a, <1>1, <1>2, <1>3, <1>9
<1> QED BY <1>5, <1>6, <1>8, <1>9 DEF GitStep

LEMMA GitTypeStep ==
    ASSUME GitTypeOK, GateTypeOK, \A k \in Plans : PlanSound(k), PoolSound,
           \/ GitStep \/ ExecuteStep \/ \E g \in Plans : GitProcessExits(g)
    PROVE  GitTypeOK'
<1>1. gitUp \in BOOLEAN
  BY DEF GitTypeOK
<1> QED BY <1>1, GitFrame, GitRecords, PoolStep DEF GitTypeOK
-----------------------------------------------------------------------------
(* The gate that both sides share.                                         *)

\* A blocked worktree gets no new user, and stays blocked.
KeptOut(s) ==
    gate[s].blocks # {} => /\ gate'[s].blocks = gate[s].blocks
                           /\ gate'[s].runs \subseteq gate[s].runs
                           /\ gate'[s].mutation \in {gate[s].mutation, NoOperation}

\* Nothing but reservations adds an entry, and nothing of these changes blocks.
LEMMA EffectsOnBlocked ==
    ASSUME NEW state \in GateState
    PROVE  /\ \A up \in BOOLEAN : /\ WithProvider(state, up).blocks = state.blocks
                                  /\ WithProvider(state, up).runs = state.runs
                                  /\ WithProvider(state, up).mutation = state.mutation
           /\ \A l \in GateLease :
                 /\ Released(state, l).blocks = state.blocks
                 /\ Released(state, l).runs \subseteq state.runs
                 /\ Released(state, l).mutation \in {state.mutation, NoOperation}
BY DEF GateState, GateLease, WithProvider, Released

LEMMA DropOneKeepsOut ==
    ASSUME GateTypeOK, NEW h \in Holders, DropOne(h), NEW s \in Sources
    PROVE  KeptOut(s)
<1>1. CASE Holds(h)
  <2>1. /\ lease[h] \in GateLease /\ lease[h].identity \in Sources
        /\ gate' = AfterDrop(gate, lease[h]) /\ gate \in [Sources -> GateState]
    BY <1>1 DEF DropOne, Holds, GateTypeOK, GateLease
  <2>2. gate'[s] = IF s = lease[h].identity THEN Released(gate[s], lease[h]) ELSE gate[s]
    BY <2>1 DEF AfterDrop
  <2> QED BY <2>1, <2>2, EffectsOnBlocked DEF KeptOut
<1>2. CASE ~Holds(h)
  BY <1>2 DEF DropOne, KeptOut
<1> QED BY <1>1, <1>2

LEMMA ReservedElsewhere ==
    ASSUME GateTypeOK, NEW h \in Holders, NEW p \in Sources, NEW op \in Operations,
           ReserveMutation(h, p, op), NEW s \in Sources
    PROVE  KeptOut(s)
<1>1. gate[p].blocks = {} /\ (p # s => gate'[s] = gate[s])
  BY DEF ReserveMutation, MutationAdmitted, Ready, GateTypeOK
<1> QED BY <1>1 DEF KeptOut

\* No step of the registry but the end of its host disturbs a blocked worktree
\* or the lease of a Git operation.
LEMMA RegistryKeepsOut ==
    ASSUME RegistryInv, EntriesInv, BeginStep \/ WorkerStep \/ HostStep, ~Crash
    PROVE  /\ \A s \in Sources : KeptOut(s)
           /\ \A h \in Holders \ RunIds : lease'[h] = lease[h]
<1> DEFINE Apart == \A h \in Holders \ RunIds : lease'[h] = lease[h]
<1>0. /\ GateTypeOK /\ gate \in [Sources -> GateState] /\ lease \in [Holders -> GateLease \union {NoLease}]
      /\ RunIds \subseteq Holders /\ RunOperations \subseteq Operations
      /\ SourceOf \in [Tasks -> Sources \union {NoSource}]
  BY RegistryAssumption DEF RegistryInv, GateTypeOK
<1> SUFFICES ASSUME NEW s PROVE (s \in Sources => KeptOut(s)) /\ Apart
  OBVIOUS
<1> DEFINE Fine == (s \in Sources => KeptOut(s)) /\ Apart
<1>a. ASSUME gate' = gate, lease' = lease PROVE Fine
  BY <1>a DEF KeptOut
<1>b. ASSUME NEW up \in BOOLEAN,
             s \in Sources => gate'[s] \in {gate[s], WithProvider(gate[s], up)}
      PROVE  s \in Sources => KeptOut(s)
  BY <1>0, <1>b, EffectsOnBlocked DEF KeptOut
<1>c. ASSUME NEW p \in Sources, gate' = ReadyFor(gate, p) PROVE s \in Sources => KeptOut(s)
  <2>1. s \in Sources => gate'[s] \in {gate[s], WithProvider(gate[s], TRUE)}
    BY <1>0, <1>c DEF ReadyFor
  <2> QED BY <1>b, <2>1
<1>d. ASSUME NEW r \in RunIds, DropOne(r) PROVE Fine
  BY <1>0, <1>d, DropOneKeepsOut, DropOneLease
<1>e. ASSUME NEW hs \in SUBSET RunIds, DropRuns(hs) PROVE Fine
  <2> DEFINE removed == {lease[h].operation : h \in {k \in hs : Holds(k) /\ lease[k].identity = s}}
  <2>1. s \in Sources => gate'[s] = [gate[s] EXCEPT !.runs = @ \ removed]
    BY <1>e DEF DropRuns
  <2>2. Apart
    BY <1>0, <1>e DEF DropRuns
  <2> HIDE DEF removed, Apart
  <2>3. ASSUME s \in Sources PROVE KeptOut(s)
    <3>1. gate[s] \in GateState
      BY <1>0, <2>3
    <3> QED BY <2>1, <2>3, <3>1 DEF KeptOut, GateState
  <2> QED BY <2>2, <2>3
<1>1. ASSUME NEW r \in RunIds, SpawnProcess(r) \/ ChildExits(r) \/ FinishProbe(r)
      PROVE  Fine
  BY <1>1, <1>a DEF SpawnProcess, ChildExits, FinishProbe, gateVars
<1>2. ASSUME NEW r \in RunIds, BeginAbandon(r) PROVE Fine
  BY <1>2, <1>d DEF BeginAbandon
<1>3. ASSUME NEW r \in RunIds, NEW ok \in BOOLEAN, BeginCommit(r, ok) PROVE Fine
  BY <1>3, <1>a, <1>d DEF BeginCommit, gateVars
<1>4. ASSUME NEW r \in RunIds, NEW ok \in BOOLEAN,
             \/ MarkRunning(r, ok) \/ Cancel(r, ok)
             \/ \E cancelled \in BOOLEAN : PreparationFails(r, cancelled, ok)
      PROVE  Fine
  BY <1>4, <1>a DEF MarkRunning, Cancel, PreparationFails, gateVars
<1>5. ASSUME NEW r \in RunIds, NEW ok \in BOOLEAN, FinishObserved(r, ok) \/ FinishUnspawned(r, ok)
      PROVE  Fine
  <2>1. DropOne(r) \/ UNCHANGED gateVars
    BY <1>5 DEF FinishObserved, FinishUnspawned, Finalize
  <2> QED BY <1>a, <1>d, <2>1 DEF gateVars
<1>6. ASSUME NEW r \in RunIds, NEW ok \in BOOLEAN, Reconcile(r, ok) PROVE Fine
  <2>1. runs[r] \in RunRecord
    BY <1>6 DEF Reconcile, RegistryInv, RecordsInv, RecordsTypeOK
  <2>2. SourceOf[runs[r].task] \in Sources \union {NoSource}
    BY <1>0, <2>1 DEF RunRecord
  <2>3. /\ lease' = lease
        /\ gate' = gate \/ \E p \in Sources : gate' = ReadyFor(gate, p)
    BY <1>6, <2>2 DEF Reconcile
  <2> QED BY <1>a, <1>c, <2>3
<1>7. ASSUME NEW p \in Sources, PublishSource(p) PROVE Fine
  BY <1>7, <1>c DEF PublishSource
<1>8. CASE WorkerEnds
  BY <1>8, <1>e DEF WorkerEnds, PendingIds
<1>9. CASE DropActive
  <2>1. {r \in RunIds : active[r] \in {"owned", "finishing"}} \in SUBSET RunIds
    OBVIOUS
  <2> QED BY <1>9, <1>e, <2>1 DEF DropActive
<1>10. CASE CloseSources
  BY <1>10, <1>b DEF CloseSources
<1>11. ASSUME NEW gone \in SUBSET RunIds, NEW ok \in BOOLEAN, Open(gone, ok)
       PROVE  Fine
  BY <1>11, <1>b DEF Open
<1>12. ASSUME NEW r \in RunIds, NEW op \in RunOperations, NEW t \in Tasks,
              NEW parallel \in BOOLEAN, NEW gone \in SUBSET RunIds,
              BeginReserve(r, op, t, parallel, gone)
       PROVE  Fine
  <2> DEFINE p == SourceOf[t]
  <2>1. CASE p = NoSource
    BY <1>12, <1>a, <2>1 DEF BeginReserve, gateVars
  <2>2. CASE p # NoSource
    <3>1. /\ p \in Sources /\ Ready(ReadyFor(gate, p)[p])
          /\ gate' = [ReadyFor(gate, p) EXCEPT ![p] = WithRun(@, op)]
          /\ lease' = [lease EXCEPT ![r] = RunLease(p, op)]
      BY <1>0, <1>12, <2>2 DEF BeginReserve, RunAdmitted
    <3>2. ReadyFor(gate, p)[p] = WithProvider(gate[p], TRUE) /\ (s \in Sources \ {p} => gate'[s] = gate[s])
      BY <1>0, <3>1 DEF ReadyFor
    <3>3. gate[p].blocks = {}
      <4>1. WithProvider(gate[p], TRUE).blocks = {}
        BY <3>1, <3>2 DEF Ready
      <4>2. gate[p] \in GateState
        BY <1>0, <3>1
      <4> QED BY <4>1, <4>2, EffectsOnBlocked
    <3>4. s \in Sources => KeptOut(s)
      BY <3>2, <3>3 DEF KeptOut
    <3>5. Apart
      BY <1>0, <3>1
    <3> QED BY <3>4, <3>5
  <2> QED BY <2>1, <2>2
<1>13. ASSUME NEW op \in RunOperations, NEW t \in Tasks, NEW parallel \in BOOLEAN,
              NEW gone \in SUBSET RunIds, BeginRefused(op, t, parallel, gone)
       PROVE  Fine
  <2>1. /\ lease' = lease
        /\ gate' = gate \/ \E p \in Sources : gate' = ReadyFor(gate, p)
    BY <1>0, <1>13 DEF BeginRefused
  <2> QED BY <1>a, <1>c, <2>1
<1>14. ASSUME NEW r \in RunIds, NEW op \in RunOperations, NEW t \in Tasks,
              NEW parallel \in BOOLEAN, HistoryCutFails(op, t, parallel, r)
       PROVE  Fine
  BY <1>14, <1>a DEF HistoryCutFails, gateVars
<1>15. CASE BeginStep
  BY <1>12, <1>13, <1>14, <1>15 DEF BeginStep
<1>16. CASE WorkerStep
  BY <1>1, <1>2, <1>3, <1>4, <1>5, <1>6, <1>7, <1>8, <1>9, <1>10, <1>16 DEF WorkerStep
<1>17. CASE HostStep
  BY <1>1, <1>11, <1>17 DEF HostStep
<1> QED BY <1>15, <1>16, <1>17

\* A step of the Git side reserves or drops the lease of one operation, or
\* takes away the block of one whose process is gone, or leaves the gate alone.
LEMMA GitGateStep ==
    ASSUME GateTypeOK, registry # "down", UNCHANGED registryVars, GitStep
    PROVE  \/ UNCHANGED gateVars
           \/ GateUsers
           \/ /\ UNCHANGED lease
              /\ \E g \in Plans : /\ g \notin gitProcess /\ gitProcess' = gitProcess
                                  /\ gate' = [gate EXCEPT ![RepoOf[g]] = WithoutBlock(@, g)]
<1>0. \A g \in Plans : /\ g \in Holders \ RunIds /\ g \in Operations \ RunOperations
                       /\ RepoOf[g] \in Sources
  BY GitAssumption, HostAssumption
<1>1. ASSUME NEW g \in Plans, Reserve(g) PROVE UNCHANGED gateVars \/ GateUsers
  <2>1. ReserveMutation(g, RepoOf[g], g) \/ UNCHANGED gateVars
    BY <1>1 DEF Reserve
  <2> QED BY <1>0, <2>1 DEF GateUsers
<1>2. ASSUME NEW g \in Plans, ReturnUnspawned(g) \/ ReturnReaped(g) \/ ExecutorPanics(g)
      PROVE  UNCHANGED gateVars \/ GateUsers
  <2>1. DropLease(g) \/ UNCHANGED gateVars
    BY <1>2 DEF ReturnUnspawned, ReturnReaped, Return, ExecutorPanics
  <2> QED BY <1>0, <2>1 DEF GateUsers
<1>3. ASSUME NEW g \in Plans,
             \/ Plan(g) \/ ReserveRefused(g) \/ SpawnGit(g) \/ SendExecuted(g) \/ DropRunUse(g)
             \/ TerminalArrives(g) \/ Reap(g) \/ ExecutedArrives(g) \/ CancelGit(g)
      PROVE  UNCHANGED gateVars
  BY <1>3 DEF Plan, ReserveRefused, SpawnGit, SendExecuted, DropRunUse, TerminalArrives, Reap,
              ExecutedArrives, CancelGit
<1>4. CASE ExecutionsDie
  BY <1>4 DEF ExecutionsDie
<1>5. ASSUME NEW g \in Plans, NEW ok \in BOOLEAN, ReconcileGit(g, ok)
      PROVE  \/ UNCHANGED gateVars
             \/ /\ UNCHANGED lease
                /\ g \notin gitProcess /\ gitProcess' = gitProcess
                /\ gate' = [gate EXCEPT ![RepoOf[g]] = WithoutBlock(@, g)]
  BY <1>5 DEF ReconcileGit, Unblock
<1> QED BY <1>1, <1>2, <1>3, <1>4, <1>5 DEF GitStep

LEMMA UsersKeepOut ==
    ASSUME GateTypeOK, GateUsers PROVE \A s \in Sources : KeptOut(s)
<1>1. ASSUME NEW h \in Holders, DropLease(h), NEW s \in Sources PROVE KeptOut(s)
  <2>1. DropOne(h)
    BY <1>1 DEF DropLease, DropOne
  <2> QED BY <2>1, DropOneKeepsOut
<1> QED BY <1>1, ReservedElsewhere DEF GateUsers

\* SafetyInv looks at the gate only for what a step that gives nobody a lease
\* leaves as it is.
LEMMA SafetyFrame ==
    ASSUME SafetyInv, UNCHANGED <<registryVars, lease>>, GateInv',
           \A s \in Sources : /\ gate[s].mutation = NoOperation => gate'[s].mutation = NoOperation
                              /\ ~gate[s].provider_ready => ~gate'[s].provider_ready
    PROVE  SafetyInv'
<1>0. /\ RegistryInv /\ RecordsInv /\ BooksInv /\ EntriesInv /\ BoundedInv /\ Stopped /\ LeasesInv
      /\ UNCHANGED <<runs, ledger, pending, active, published, starting, registry, child>>
      /\ SourceOf \in [Tasks -> Sources \union {NoSource}]
      /\ runs \in [RunIds -> RunRecord \union {NoRun}]
      /\ child \in [RunIds -> Tasks \union {NoTask}]
  BY RegistryAssumption DEF SafetyInv, RegistryInv, RecordsInv, RecordsTypeOK, registryVars
<1>1. RegistryInv'
  BY <1>0, RegistryUntouched DEF RegistryInv, GateInv
<1>2. BooksInv'
  BY <1>0 DEF BooksInv, BookDisjoint, TicketsSound
<1>3. EntriesInv'
  BY <1>0 DEF EntriesInv, EntryMatches, OutcomeAgrees
<1>4. BoundedInv'
  BY <1>0 DEF BoundedInv, BookBounded, HistoryBounded, Recorded, PendingIds
<1>5. Stopped'
  BY <1>0 DEF Stopped, MemoryCover, Covers, Holds
<1>6. (LeaseIffInUse /\ LeasesMatch)'
  BY <1>0 DEF LeasesInv, LeaseIffInUse, LeasesMatch, Holds, InUse, TaskOf, OperationOf
<1>7. SourcesShut'
  <2>1. \A s \in Sources : Shut(s) => Shut(s)'
    BY DEF Shut
  <2>2. \A r \in RunIds : /\ runs[r] # NoRun => SourceOf[runs[r].task] \in Sources \union {NoSource}
                          /\ child[r] # NoTask => SourceOf[child[r]] \in Sources \union {NoSource}
    BY <1>0 DEF RunRecord
  <2>3. ASSUME NEW r \in RunIds, registry' \in {"open", "dying"}, runs'[r] # NoRun,
               Unresolved(runs'[r]), SourceOf[runs'[r].task] # NoSource
        PROVE  Shut(SourceOf[runs[r].task]) /\ SourceOf[runs[r].task] \in Sources
    BY <1>0, <2>2, <2>3 DEF LeasesInv, SourcesShut
  <2>4. ASSUME NEW r \in RunIds, registry' \in {"unlisted", "lost"}, child'[r] # NoTask,
               SourceOf[child'[r]] # NoSource
        PROVE  Shut(SourceOf[child[r]]) /\ SourceOf[child[r]] \in Sources
    BY <1>0, <2>2, <2>4 DEF LeasesInv, SourcesShut
  <2> QED BY <1>0, <2>1, <2>3, <2>4 DEF SourcesShut, Shut
<1> QED BY <1>1, <1>2, <1>3, <1>4, <1>5, <1>6, <1>7 DEF SafetyInv, LeasesInv

\* Blocks are none of its business.
BlocksOnly ==
    /\ gate' \in [Sources -> GateState] /\ UNCHANGED lease
    /\ \A s \in Sources : /\ gate'[s].runs = gate[s].runs
                          /\ gate'[s].mutation = gate[s].mutation
                          /\ gate'[s].provider_ready = gate[s].provider_ready

LEMMA BlocksFrame ==
    ASSUME SafetyInv, UNCHANGED registryVars, BlocksOnly
    PROVE  SafetyInv'
<1>1. GateInv /\ lease \in [Holders -> GateLease \union {NoLease}]
  BY DEF SafetyInv, LeasesInv, GateInv, GateTypeOK
<1>2. GateTypeOK'
  BY <1>1 DEF GateTypeOK, BlocksOnly
<1>3. GateInv'
  BY <1>1, <1>2, GateInvBookkeeping DEF BlocksOnly
<1> QED BY <1>3, SafetyFrame DEF BlocksOnly

\* GitOperationReconcile takes its own block away, and Actor::new adds one for
\* each operation of unknown fate.
LEMMA Unblocked ==
    ASSUME GateTypeOK, NEW g \in Plans, UNCHANGED lease,
           gate' = [gate EXCEPT ![RepoOf[g]] = WithoutBlock(@, g)]
    PROVE  BlocksOnly /\ \A s \in Sources : gate[s].blocks \ {g} \subseteq gate'[s].blocks
<1>1. gate \in [Sources -> GateState] /\ RepoOf[g] \in Sources /\ g \in BlockIds
  BY GitAssumption DEF GateTypeOK
<1>2. ASSUME NEW state \in GateState
      PROVE  /\ WithoutBlock(state, g) \in GateState
             /\ WithoutBlock(state, g).blocks = state.blocks \ {g}
             /\ WithoutBlock(state, g).runs = state.runs
             /\ WithoutBlock(state, g).mutation = state.mutation
             /\ WithoutBlock(state, g).provider_ready = state.provider_ready
  BY <1>1 DEF GateState, WithoutBlock
<1>3. ASSUME NEW s \in Sources
      PROVE  gate'[s] \in GateState /\ gate'[s] \in {gate[s], WithoutBlock(gate[s], g)}
  BY <1>1, <1>2
<1>4. gate' \in [Sources -> GateState]
  BY <1>1, <1>2
<1> QED BY <1>1, <1>2, <1>3, <1>4 DEF BlocksOnly

WithBlocks(state, more) == [state EXCEPT !.blocks = @ \union more]

LEMMA BlockedAtOpen ==
    ASSUME GateTypeOK, NEW unknown \in SUBSET Plans, UNCHANGED lease,
           gate' = [s \in Sources |->
               [gate[s] EXCEPT !.blocks = @ \union {g \in unknown : RepoOf[g] = s}]]
    PROVE  BlocksOnly /\ \A g \in unknown : g \in gate'[RepoOf[g]].blocks
<1>1. gate \in [Sources -> GateState] /\ Plans \subseteq BlockIds
      /\ \A g \in Plans : RepoOf[g] \in Sources
  BY GitAssumption DEF GateTypeOK
<1>2. ASSUME NEW state \in GateState, NEW more \in SUBSET BlockIds
      PROVE  /\ WithBlocks(state, more) \in GateState
             /\ WithBlocks(state, more).blocks = state.blocks \union more
             /\ WithBlocks(state, more).runs = state.runs
             /\ WithBlocks(state, more).mutation = state.mutation
             /\ WithBlocks(state, more).provider_ready = state.provider_ready
  BY DEF GateState, WithBlocks
<1>3. ASSUME NEW s \in Sources
      PROVE  /\ gate'[s] \in GateState
             /\ gate'[s].blocks = gate[s].blocks \union {g \in unknown : RepoOf[g] = s}
             /\ gate'[s].runs = gate[s].runs /\ gate'[s].mutation = gate[s].mutation
             /\ gate'[s].provider_ready = gate[s].provider_ready
  <2> DEFINE more == {g \in unknown : RepoOf[g] = s}
  <2>1. more \in SUBSET BlockIds /\ gate[s] \in GateState
    BY <1>1
  <2>2. gate'[s] = WithBlocks(gate[s], more)
    BY DEF WithBlocks
  <2> HIDE DEF more
  <2>3. /\ gate'[s] \in GateState
        /\ gate'[s].blocks = gate[s].blocks \union more
        /\ gate'[s].runs = gate[s].runs /\ gate'[s].mutation = gate[s].mutation
        /\ gate'[s].provider_ready = gate[s].provider_ready
    BY <1>2, <2>1, <2>2
  <2> QED BY <2>3 DEF more
<1>4. gate' \in [Sources -> GateState]
  BY <1>3
<1> QED BY <1>1, <1>3, <1>4 DEF BlocksOnly
-----------------------------------------------------------------------------
(* A step of the host keeps the registry's invariant.                      *)

LEMMA CrashKeepsSafety ==
    ASSUME SafetyInv, CrashHost PROVE SafetyInv'
<1>1. CASE registry # "down"
  <2>1. Crash
    BY <1>1 DEF CrashHost, Crash
  <2> QED BY <2>1, SafetyInvStep DEF RegistryNext, HostStep
<1>2. CASE registry = "down"
  <2>1. /\ RegistryInv /\ RecordsInv /\ Stopped /\ GateInv
        /\ gate \in [Sources -> GateState] /\ lease \in [Holders -> GateLease \union {NoLease}]
        /\ runs \in [RunIds -> RunRecord \union {NoRun}]
        /\ pending \in [RunIds -> Ticket \union {NoTicket}]
        /\ active \in [RunIds -> ActiveState]
    BY DEF SafetyInv, LeasesInv, GateInv, GateTypeOK, RegistryInv, RecordsInv, RecordsTypeOK
  <2>2. /\ starting = NoRun /\ published = {}
        /\ \A r \in RunIds : pending[r] = NoTicket /\ active[r] = "none" /\ runs[r] = NoRun
        /\ \A h \in Holders : lease[h] = NoLease
    BY <1>2, <2>1 DEF RecordsInv, NothingKept, Stopped, Holds
  <2>3. /\ runs' = runs /\ pending' = pending /\ active' = active /\ lease' = lease
    BY <2>1, <2>2 DEF CrashHost, RegistryLost
  <2>4. UNCHANGED registryVars
    BY <1>2, <2>2, <2>3 DEF CrashHost, RegistryLost, registryVars
  <2>5. \A s \in Sources : /\ gate'[s] \in GateState /\ gate'[s].mutation = NoOperation
                           /\ gate'[s].runs = {} /\ ~gate'[s].provider_ready
    BY DEF CrashHost, DefaultGate, GateState
  <2>6. GateTypeOK'
    <3>1. gate' \in [Sources -> GateState]
      BY <2>5 DEF CrashHost
    <3> QED BY <2>1, <2>3, <3>1 DEF GateTypeOK
  <2>7. GateInv'
    BY <2>2, <2>3, <2>5, <2>6
    DEF GateInv, LeasesRecorded, LeasesDistinct, EntriesExclusive, Holds
  <2> QED BY <2>3, <2>4, <2>5, <2>7, SafetyFrame
<1> QED BY <1>1, <1>2

LEMMA OpenGitGate ==
    ASSUME GateTypeOK, NEW ok \in BOOLEAN, OpenGit(ok)
    PROVE  /\ UNCHANGED registryVars
           /\ UNCHANGED gateVars \/ (ok /\ BlocksOnly)
           /\ ok => \A g \in UnresolvedSources(RestoredAll) : g \in gate'[RepoOf[g]].blocks
<1>1. UNCHANGED registryVars /\ lease' = lease /\ UnresolvedSources(RestoredAll) \in SUBSET Plans
  BY DEF OpenGit, GitOpen, UnresolvedSources
<1>2. CASE ok
  <2>1. gate' = [s \in Sources |->
                   [gate[s] EXCEPT !.blocks = @ \union {g \in UnresolvedSources(RestoredAll) : RepoOf[g] = s}]]
    BY <1>2 DEF OpenGit, GitOpen
  <2> DEFINE unknown == UnresolvedSources(RestoredAll)
  <2>2. unknown \in SUBSET Plans /\ gate' = [s \in Sources |->
                   [gate[s] EXCEPT !.blocks = @ \union {g \in unknown : RepoOf[g] = s}]]
    BY <1>1, <2>1
  <2> HIDE DEF unknown
  <2>3. BlocksOnly /\ \A g \in unknown : g \in gate'[RepoOf[g]].blocks
    BY <1>1, <2>2, BlockedAtOpen
  <2> QED BY <1>1, <1>2, <2>3 DEF unknown
<1>3. CASE ~ok
  BY <1>1, <1>3 DEF OpenGit, GitOpen, gateVars
<1> QED BY <1>2, <1>3

LEMMA SafetyHostStep ==
    ASSUME SafetyInv, GitInv, [HostNext]_hostVars PROVE SafetyInv'
<1>0. GateTypeOK
  BY DEF SafetyInv, RegistryInv
<1>1. CASE UNCHANGED <<gateVars, registryVars>>
  BY <1>1, SafetyInvStep DEF vars
<1>2. CASE StartHost \/ Rebind \/ BeginGit \/ UNCHANGED hostVars
  <2>1. BeginGit => UNCHANGED gateVars
    BY DEF BeginGit, ExecuteStep, Execute, ExecuteRefused
  <2>2. Rebind => UNCHANGED <<gateVars, registryVars>>
    BY DEF Rebind, RebindLock, RebindReadRuns, RebindReadGit, RebindCommit, RebindEnds, Rebinding
  <2> QED BY <1>1, <1>2, <2>1, <2>2 DEF StartHost, BeginGit, hostVars
<1>3. CASE BeginRun \/ RunWork
  BY <1>3, SafetyInvStep DEF BeginRun, RunWork, RegistryNext
<1>4. ASSUME NEW ok \in BOOLEAN, NEW gone \in SUBSET RunIds, OpenRuns(gone, ok)
      PROVE  SafetyInv'
  BY <1>4, SafetyInvStep DEF OpenRuns, RegistryNext, HostStep
<1>5. ASSUME NEW ok \in BOOLEAN, OpenGit(ok) PROVE SafetyInv'
  BY <1>0, <1>1, <1>5, OpenGitGate, BlocksFrame
<1>6. CASE GitWork
  <2>1. /\ registry # "down" /\ UNCHANGED registryVars /\ GitStep
    BY <1>6 DEF GitWork
  <2>2. CASE GateUsers
    BY <2>2, SafetyInvStep DEF RegistryNext
  <2>3. CASE \E g \in Plans : gate' = [gate EXCEPT ![RepoOf[g]] = WithoutBlock(@, g)]
             /\ UNCHANGED lease
    BY <1>0, <2>1, <2>3, Unblocked, BlocksFrame
  <2> QED BY <1>0, <1>1, <2>1, <2>2, <2>3, GitGateStep
<1>7. CASE ProcessesExit
  <2>1. ASSUME NEW g \in Plans, GitProcessExits(g) PROVE UNCHANGED gateVars
    BY <2>1 DEF GitProcessExits
  <2> QED BY <1>1, <1>7, <2>1, SafetyInvStep DEF ProcessesExit, RegistryNext, HostStep
<1> QED
  BY <1>2, <1>3, <1>4, <1>5, <1>6, <1>7, CrashKeepsSafety DEF HostNext
-----------------------------------------------------------------------------
(* A step of the host keeps the invariant of the Git side.                 *)

\* execute begins its operation and gives up none in flight.
LEMMA ExecuteActivity ==
    ASSUME GitTypeOK, NEW g \in Plans, NEW gone, NEW ok \in BOOLEAN, Execute(g, gone, ok)
    PROVE  /\ ActiveOps \subseteq ActiveOps' /\ ActiveOps' \subseteq ActiveOps \union {g}
           /\ ~RepoBusy(RepoOf[g]) /\ g \notin ActiveOps /\ gitProcess' = gitProcess
<1>0. operations \in [Plans -> Operation \union {NoOp}]
  BY DEF GitTypeOK
<1>1. /\ gone = {} \/ Forgettable(gone)
      /\ g \notin Known /\ ~RepoBusy(RepoOf[g]) /\ gitProcess' = gitProcess
  BY DEF Execute
<1>2. /\ Kept(gone) \in [Plans -> Operation \union {NoOp}]
      /\ \A k \in gone : k \notin ActiveOps
  <2>1. CASE gone = {}
    BY <1>0, <2>1 DEF Kept
  <2>2. CASE Forgettable(gone)
    BY <2>2, KeptOthers DEF ActiveOps
  <2> QED BY <1>1, <2>1, <2>2
<1>3. \A k \in Plans : k # g => operations'[k] = Kept(gone)[k]
  <2>1. \E op : operations' \in {Kept(gone), [Kept(gone) EXCEPT ![g] = op]}
    BY DEF Execute, Kept
  <2> QED BY <1>2, <2>1
<1>4. \A k \in Plans : k # g => (k \in ActiveOps' <=> k \in ActiveOps)
  BY <1>2, <1>3 DEF Kept, ActiveOps, Known
<1>5. g \notin ActiveOps
  BY <1>1 DEF ActiveOps
<1>6. ActiveOps \subseteq Plans /\ ActiveOps' \subseteq Plans
  BY DEF ActiveOps, Known
<1> QED BY <1>1, <1>4, <1>5, <1>6

LEMMA OnePerRepositoryStep ==
    ASSUME GitInv, \/ GitStep \/ ExecuteStep \/ \E g \in Plans : GitProcessExits(g)
    PROVE  OneOperationPerRepository'
<1>0. GitTypeOK /\ (\A k \in Plans : PlanSound(k)) /\ PoolSound /\ OneOperationPerRepository
  BY DEF GitInv
<1>1. ASSUME ActiveOps' \subseteq ActiveOps PROVE OneOperationPerRepository'
  BY <1>0, <1>1 DEF OneOperationPerRepository
<1>2. ASSUME NEW g \in Plans, NEW gone \in SUBSET Plans, NEW ok \in BOOLEAN, Execute(g, gone, ok)
      PROVE  OneOperationPerRepository'
  <2>1. ActiveOps' \subseteq ActiveOps \union {g} /\ ~RepoBusy(RepoOf[g])
    BY <1>0, <1>2, ExecuteActivity
  <2>2. \A k \in ActiveOps : RepoOf[k] # RepoOf[g]
    BY <2>1 DEF RepoBusy
  <2> QED BY <1>0, <2>1, <2>2 DEF OneOperationPerRepository
<1> QED BY <1>0, <1>1, <1>2, ActivityStep DEF ExecuteStep

\* What an earlier host left stays shut while this one works.
LEMMA LeftBehindKept ==
    ASSUME GateTypeOK', LeftBehindShut, gitUp, gitProcess' \subseteq Plans,
           gitProcess' \ ActiveOps' \subseteq gitProcess \ ActiveOps,
           \A s \in Sources : KeptOut(s)
    PROVE  LeftBehindShut'
<1>1. \A g \in Plans : RepoOf[g] \in Sources
  BY GitAssumption
<1> SUFFICES ASSUME NEW g \in gitProcess' \ ActiveOps', NEW s \in Sources, s = RepoOf[g]
             PROVE  g \in gate'[s].blocks /\ gate'[s].runs = {} /\ gate'[s].mutation = NoOperation
  BY <1>1 DEF LeftBehindShut
<1>2. g \in gate[s].blocks /\ gate[s].runs = {} /\ gate[s].mutation = NoOperation
  BY DEF LeftBehindShut
<1> QED BY <1>2 DEF KeptOut

LEMMA RegistrySideKeepsGit ==
    ASSUME SafetyInv, GitInv, GateTypeOK', UNCHANGED gitVars, BeginStep \/ WorkerStep \/ HostStep, ~Crash,
           gitUp \/ (registry' = registry /\ UNCHANGED gateVars)
    PROVE  GitInv'
<1>0. /\ GitTypeOK /\ (\A k \in Plans : PlanSound(k)) /\ PoolSound /\ DownSound
      /\ OneOperationPerRepository /\ LeftBehindShut /\ RegistryInv /\ EntriesInv
      /\ UNCHANGED <<plans, operations, gitLedger, executor, event, gitProcess, gitUp,
                     executeAlive, executionsDead>>
  BY DEF GitInv, SafetyInv, gitVars, poolVars
<1>1. /\ \A s \in Sources : KeptOut(s)
      /\ \A g \in Plans : lease'[g] = lease[g]
  <2>1. Plans \subseteq Holders \ RunIds
    BY GitAssumption, HostAssumption
  <2> QED BY <1>0, <2>1, RegistryKeepsOut
<1>2. GitTypeOK'
  BY <1>0 DEF GitTypeOK
<1>3. \A k \in Plans : PlanSound(k)'
  BY <1>0, <1>1, PlanKeptUnsaved DEF Untouched
<1>4. PoolSound' /\ OneOperationPerRepository'
  BY <1>0 DEF PoolSound, Busy, OneOperationPerRepository, ActiveOps, Known
<1>5. DownSound'
  BY <1>0 DEF DownSound, Known, gateVars
<1>6. LeftBehindShut'
  <2>1. gitProcess' \ ActiveOps' \subseteq gitProcess \ ActiveOps /\ gitProcess' \subseteq Plans
    BY <1>0 DEF ActiveOps, Known, GitTypeOK
  <2>2. CASE gitUp
    BY <1>0, <1>1, <2>1, <2>2, LeftBehindKept
  <2>3. CASE ~gitUp
    BY <1>0, <2>3 DEF LeftBehindShut
  <2> QED BY <2>2, <2>3
<1> QED BY <1>2, <1>3, <1>4, <1>5, <1>6 DEF GitInv

\* Steps of this host's Git side, and exits of processes.
LEMMA GitSideKeepsGit ==
    ASSUME SafetyInv, GitInv, GateTypeOK', UNCHANGED registryVars,
           \/ registry # "down" /\ (GitStep \/ ExecuteStep)
           \/ \E g \in Plans : GitProcessExits(g)
    PROVE  GitInv'
<1>0. /\ GitTypeOK /\ (\A k \in Plans : PlanSound(k)) /\ PoolSound /\ DownSound
      /\ LeftBehindShut /\ GateTypeOK
  BY DEF GitInv, SafetyInv, RegistryInv
<1>1. /\ GitTypeOK' /\ (\A k \in Plans : PlanSound(k)') /\ PoolSound' /\ OneOperationPerRepository'
      /\ gitUp' = gitUp
  BY <1>0, GitTypeStep, GitRecords, PoolStep, OnePerRepositoryStep, GitFrame
<1>2. registry # "down" => gitUp
  BY <1>0 DEF DownSound
<1>3. DownSound'
  <2>1. CASE gitUp
    BY <1>1, <2>1 DEF DownSound
  <2>2. CASE ~gitUp
    <3>1. PICK g \in Plans : GitProcessExits(g)
      BY <1>2, <2>2
    <3> QED BY <1>0, <3>1 DEF GitProcessExits, DownSound, Known, registryVars, gateVars
  <2> QED BY <2>1, <2>2
<1>4. gitProcess' \subseteq Plans
  BY <1>1 DEF GitTypeOK
<1>5. CASE ~gitUp
  BY <1>1, <1>3, <1>5 DEF LeftBehindShut, GitInv
<1>6. ASSUME gitUp, \A s \in Sources : KeptOut(s),
             gitProcess' \ ActiveOps' \subseteq gitProcess \ ActiveOps
      PROVE  GitInv'
  BY <1>0, <1>1, <1>3, <1>4, <1>6, LeftBehindKept DEF GitInv
<1>7. UNCHANGED gateVars => \A s \in Sources : KeptOut(s)
  BY DEF gateVars, KeptOut
<1>8. CASE gitUp /\ ExecuteStep
  <2>1. UNCHANGED gateVars
    BY <1>8 DEF ExecuteStep, Execute, ExecuteRefused
  <2>2. ASSUME NEW g \in Plans, NEW gone \in SUBSET Plans, NEW ok \in BOOLEAN, Execute(g, gone, ok)
        PROVE  gitProcess' \ ActiveOps' \subseteq gitProcess \ ActiveOps
    BY <1>0, <2>2, ExecuteActivity
  <2>3. gitProcess' \ ActiveOps' \subseteq gitProcess \ ActiveOps
    BY <1>0, <1>8, <2>2, ActivityStep DEF ExecuteStep
  <2> QED BY <1>6, <1>7, <1>8, <2>1, <2>3
<1>9. CASE gitUp /\ \E g \in Plans : GitProcessExits(g)
  <2>1. UNCHANGED gateVars
    BY <1>9 DEF GitProcessExits
  <2> QED BY <1>0, <1>6, <1>7, <1>9, <2>1, ActivityStep
<1>10. CASE gitUp /\ registry # "down" /\ GitStep
  <2>1. gitProcess' \ ActiveOps' \subseteq gitProcess \ ActiveOps
    BY <1>0, <1>10, ActivityStep
  <2>2. CASE UNCHANGED gateVars \/ GateUsers
    BY <1>0, <1>6, <1>7, <1>10, <2>1, <2>2, UsersKeepOut
  <2>3. ASSUME NEW g \in Plans, g \notin gitProcess, gitProcess' = gitProcess, UNCHANGED lease,
               gate' = [gate EXCEPT ![RepoOf[g]] = WithoutBlock(@, g)]
        PROVE  LeftBehindShut'
    <3>1. BlocksOnly /\ \A s \in Sources : gate[s].blocks \ {g} \subseteq gate'[s].blocks
      BY <1>0, <2>3, Unblocked
    <3> SUFFICES ASSUME NEW k \in gitProcess' \ ActiveOps', NEW s \in Sources, s = RepoOf[k]
                 PROVE  k \in gate'[s].blocks /\ gate'[s].runs = {} /\ gate'[s].mutation = NoOperation
      BY <1>4, GitAssumption DEF LeftBehindShut
    <3>2. k # g /\ k \in gate[s].blocks /\ gate[s].runs = {} /\ gate[s].mutation = NoOperation
      BY <1>0, <1>10, <2>1, <2>3 DEF LeftBehindShut
    <3> QED BY <3>1, <3>2 DEF BlocksOnly
  <2> QED BY <1>0, <1>1, <1>3, <1>10, <2>2, <2>3, GitGateStep DEF GitInv
<1> QED BY <1>2, <1>5, <1>8, <1>9, <1>10

\* The next host blocks the worktree of every operation of unknown fate before
\* anything can use it.
LEMMA OpenGitKeepsGit ==
    ASSUME SafetyInv, GitInv, NEW ok \in BOOLEAN, OpenGit(ok)
    PROVE  GitInv'
<1>0. /\ GitTypeOK /\ (\A k \in Plans : PlanSound(k)) /\ DownSound /\ GateTypeOK /\ Stopped
  BY DEF GitInv, SafetyInv, RegistryInv
<1>1. /\ GitOpen(ok) /\ ~gitUp /\ registry = "down" /\ gitUp' = ok
      /\ UNCHANGED <<plans, executor, event, gitProcess, registry>>
      /\ executeAlive' = GitExecutors /\ executionsDead' = FALSE
  BY DEF OpenGit, GitOpen, registryVars
<1>2. /\ \A k \in Plans : PlanSound(k)'
      /\ operations' \in [Plans -> Operation \union {NoOp}]
      /\ gitLedger' \in [Plans -> GitRecord \union {NoOp}]
      /\ ActiveOps' = {}
  BY <1>0, <1>1, OpenPlanStep
<1>3. /\ \A g \in Plans : executor'[g] = <<"none">> /\ event'[g] = NoEvent
      /\ Known = {} /\ plans' = {} /\ \A s \in Sources : gate[s].runs = {}
  BY <1>0, <1>1 DEF DownSound
<1>4. PoolSound' /\ executeAlive' \in 0..GitExecutors
  BY <1>1, <1>3, PoolRenewed
<1>5. GitTypeOK'
  BY <1>0, <1>1, <1>2, <1>4 DEF GitTypeOK
<1>6. \A s \in Sources : gate'[s].runs = {} /\ gate'[s].mutation = NoOperation
  BY <1>0, <1>1, <1>3, OpenGitGate DEF BlocksOnly, Stopped, gateVars
<1>7. DownSound'
  <2>1. ~ok => operations' = operations
    BY <1>1 DEF GitOpen
  <2> QED BY <1>1, <1>3, <1>6, <2>1 DEF DownSound, Known
<1>8. OneOperationPerRepository'
  BY <1>2 DEF OneOperationPerRepository
<1>9. ASSUME ok, NEW g \in gitProcess'
      PROVE  g \in gate'[RepoOf[g]].blocks
  <2>1. g \in Plans /\ g \in gitProcess' /\ gitUp' /\ operations' = RestoredAll
    BY <1>0, <1>1, <1>9 DEF GitTypeOK, GitOpen
  <2>2. g \in Known' /\ ~Settled(operations'[g]) /\ PlanSound(g)'
    BY <1>2, <2>1 DEF PlanSound, Owed
  <2>3. operations'[g].state \in {"Unknown", "Complete"}
    <3>1. gitLedger[g] # NoOp /\ RestoredAll[g] = Restored(gitLedger[g])
      BY <2>1, <2>2 DEF RestoredAll, Known
    <3> QED BY <2>1, <3>1 DEF Restored
  <2>4. g \in UnresolvedSources(RestoredAll)
    BY <2>1, <2>2, <2>3 DEF UnresolvedSources, Settled, Known
  <2> QED BY <1>0, <1>9, <2>4, OpenGitGate
<1>10. LeftBehindShut'
  <2>1. \A g \in gitProcess' : RepoOf[g] \in Sources
    BY <1>5, GitAssumption DEF GitTypeOK
  <2> QED BY <1>1, <1>6, <1>9, <2>1 DEF LeftBehindShut
<1> QED BY <1>2, <1>4, <1>5, <1>7, <1>8, <1>10 DEF GitInv

LEMMA CrashKeepsGit ==
    ASSUME SafetyInv, GitInv, CrashHost
    PROVE  GitInv'
<1>0. /\ GitTypeOK /\ (\A k \in Plans : PlanSound(k))
  BY DEF GitInv
<1>1. /\ GitLost /\ ~gitUp' /\ registry' = "down" /\ plans' = {}
      /\ \A g \in Plans : executor'[g] = <<"none">> /\ event'[g] = NoEvent /\ operations'[g] = NoOp
      /\ \A s \in Sources : gate'[s].runs = {}
      /\ executeAlive' = GitExecutors /\ executionsDead' = FALSE
  BY DEF CrashHost, GitLost, RegistryLost, DefaultGate
<1>2. Known' = {} /\ ActiveOps' = {}
  BY <1>1 DEF Known, ActiveOps
<1>3. PoolSound' /\ executeAlive' \in 0..GitExecutors
  BY <1>1, PoolRenewed
<1>4. GitTypeOK'
  <2>1. <<"none">> \in ExecutorState
    BY DEF ExecutorState
  <2> QED BY <1>0, <1>1, <1>3, <2>1 DEF GitTypeOK, GitLost
<1>5. \A k \in Plans : PlanSound(k)'
  BY <1>0, <1>1, LostPlanStep
<1>6. DownSound' /\ OneOperationPerRepository' /\ LeftBehindShut'
  BY <1>1, <1>2 DEF DownSound, OneOperationPerRepository, LeftBehindShut
<1> QED BY <1>3, <1>4, <1>5, <1>6 DEF GitInv

\* What no first step of a run touches.
LEMMA BeginStepFrame ==
    ASSUME BeginStep PROVE registry # "down" /\ UNCHANGED <<registry, child>>
<1>1. ASSUME NEW op \in RunOperations, NEW t \in Tasks, NEW parallel \in BOOLEAN,
             NEW gone \in SUBSET RunIds, NEW r \in RunIds, BeginReserve(r, op, t, parallel, gone)
      PROVE  registry # "down" /\ UNCHANGED <<registry, child>>
  BY <1>1 DEF BeginReserve, Idle
<1>2. ASSUME NEW op \in RunOperations, NEW t \in Tasks, NEW parallel \in BOOLEAN,
             NEW gone \in SUBSET RunIds, BeginRefused(op, t, parallel, gone)
      PROVE  registry # "down" /\ UNCHANGED <<registry, child>>
  BY <1>2 DEF BeginRefused, Idle
<1>3. ASSUME NEW op \in RunOperations, NEW t \in Tasks, NEW parallel \in BOOLEAN,
             NEW r \in RunIds, HistoryCutFails(op, t, parallel, r)
      PROVE  registry # "down" /\ UNCHANGED <<registry, child>>
  BY <1>3 DEF HistoryCutFails, Idle
<1> QED BY <1>1, <1>2, <1>3 DEF BeginStep

\* What no later step of the worker touches.
LEMMA WorkerStepFrame ==
    ASSUME WorkerStep
    PROVE  /\ registry # "down" /\ registry' # "down"
           /\ UNCHANGED child \/ \E r \in RunIds : SpawnProcess(r)
<1> DEFINE Framed == registry # "down" /\ registry' # "down" /\ UNCHANGED child
<1>1. ASSUME NEW r \in RunIds, BeginAbandon(r) PROVE Framed
  BY <1>1 DEF BeginAbandon, Idle
<1>2. ASSUME NEW r \in RunIds, FinishProbe(r) PROVE Framed
  BY <1>2 DEF FinishProbe, Idle
<1>3. ASSUME NEW r \in RunIds, NEW ok \in BOOLEAN, BeginCommit(r, ok) PROVE Framed
  BY <1>3 DEF BeginCommit, Idle
<1>4. ASSUME NEW r \in RunIds, NEW ok \in BOOLEAN, MarkRunning(r, ok) PROVE Framed
  BY <1>4 DEF MarkRunning
<1>5. ASSUME NEW r \in RunIds, NEW ok \in BOOLEAN, Cancel(r, ok) PROVE Framed
  BY <1>5 DEF Cancel, Idle
<1>6. ASSUME NEW r \in RunIds, NEW ok \in BOOLEAN, FinishObserved(r, ok) PROVE Framed
  BY <1>6 DEF FinishObserved, Idle
<1>7. ASSUME NEW r \in RunIds, NEW ok \in BOOLEAN, Reconcile(r, ok) PROVE Framed
  BY <1>7 DEF Reconcile, Idle
<1>8. ASSUME NEW r \in RunIds, NEW ok \in BOOLEAN, FinishUnspawned(r, ok) PROVE Framed
  BY <1>8 DEF FinishUnspawned
<1>9. ASSUME NEW r \in RunIds, NEW ok \in BOOLEAN, NEW cancelled \in BOOLEAN,
             PreparationFails(r, cancelled, ok)
      PROVE  Framed
  BY <1>9 DEF PreparationFails
<1>10. ASSUME NEW s \in Sources, PublishSource(s) PROVE Framed
  BY <1>10 DEF PublishSource, Idle
<1>11. CASE WorkerEnds \/ CloseSources \/ DropActive
  BY <1>11 DEF WorkerEnds, CloseSources, DropActive
<1>12. ASSUME NEW r \in RunIds, SpawnProcess(r)
       PROVE  registry # "down" /\ registry' # "down"
  BY <1>12 DEF SpawnProcess
<1> QED
  BY <1>1, <1>2, <1>3, <1>4, <1>5, <1>6, <1>7, <1>8, <1>9, <1>10, <1>11, <1>12 DEF WorkerStep

\* What no first step of a Git mutation touches.
LEMMA ExecuteStepFrame ==
    ASSUME ExecuteStep PROVE UNCHANGED gitProcess
<1>1. ASSUME NEW g, NEW gone, NEW ok, Execute(g, gone, ok) PROVE UNCHANGED gitProcess
  BY <1>1 DEF Execute
<1>2. ASSUME NEW gone, ExecuteRefused(gone) PROVE UNCHANGED gitProcess
  BY <1>2 DEF ExecuteRefused
<1> QED BY <1>1, <1>2 DEF ExecuteStep

\* The Git side is sound as long as nothing it looks at changes.
LEMMA GitInvStutter ==
    ASSUME GitInv, UNCHANGED <<gateVars, registryVars, gitVars>> PROVE GitInv'
<1> USE DEF gateVars, registryVars, gitVars, poolVars
<1>1. GitTypeOK'
  BY DEF GitInv, GitTypeOK
<1>2. \A k \in Plans : PlanSound(k)'
  BY DEF GitInv, PlanSound, ExecutorSound, Owed, ActiveOps, Known
<1>3. PoolSound'
  <2>1. Busy' = Busy /\ ActiveOps' = ActiveOps
    BY DEF Busy, ActiveOps, Known
  <2> QED BY <2>1 DEF GitInv, PoolSound
<1>4. DownSound'
  BY DEF GitInv, DownSound, ActiveOps, Known
<1>5. OneOperationPerRepository' /\ LeftBehindShut'
  BY DEF GitInv, OneOperationPerRepository, LeftBehindShut, ActiveOps, Known
<1> QED BY <1>1, <1>2, <1>3, <1>4, <1>5 DEF GitInv

LEMMA GitHostStep ==
    ASSUME SafetyInv, GitInv, [HostNext]_hostVars PROVE GitInv'
<1>0. GateTypeOK' /\ GateTypeOK /\ DownSound
  BY SafetyHostStep DEF SafetyInv, RegistryInv, GitInv
<1>1. CASE UNCHANGED <<gateVars, registryVars, gitVars>>
  BY <1>1, GitInvStutter
<1>2. CASE StartHost \/ Rebind \/ UNCHANGED hostVars
  <2>1. Rebind => UNCHANGED <<gateVars, registryVars, gitVars>>
    BY DEF Rebind, RebindLock, RebindReadRuns, RebindReadGit, RebindCommit, RebindEnds, Rebinding
  <2> QED BY <1>1, <1>2, <2>1 DEF StartHost, hostVars
<1>3. CASE BeginRun \/ RunWork
  <2>1. /\ BeginStep \/ WorkerStep
        /\ UNCHANGED gitVars
    BY <1>3 DEF BeginRun, RunWork
  <2>2. registry # "down"
    <3>1. BeginStep => registry # "down"
      BY BeginStepFrame
    <3>2. WorkerStep => registry # "down"
      BY WorkerStepFrame
    <3> QED BY <2>1, <3>1, <3>2
  <2>3. gitUp
    BY <1>0, <2>2 DEF DownSound
  <2>4. ~Crash
    <3>1. BeginStep => registry' = registry
      BY BeginStepFrame
    <3>2. WorkerStep => registry' # "down"
      BY WorkerStepFrame
    <3> QED BY <2>1, <2>2, <3>1, <3>2 DEF Crash, RegistryLost
  <2> QED BY <1>0, <2>1, <2>3, <2>4, RegistrySideKeepsGit
<1>4. ASSUME NEW ok \in BOOLEAN, NEW gone \in SUBSET RunIds, OpenRuns(gone, ok)
      PROVE  GitInv'
  <2>1. HostStep /\ UNCHANGED gitVars /\ gitUp /\ registry = "down"
    BY <1>4 DEF OpenRuns, HostStep, Open
  <2> QED BY <1>0, <2>1, RegistrySideKeepsGit DEF Crash
<1>5. CASE BeginGit \/ GitWork
  <2>1. registry # "down" /\ UNCHANGED registryVars /\ (GitStep \/ ExecuteStep)
    BY <1>5 DEF BeginGit, GitWork
  <2> QED BY <1>0, <2>1, GitSideKeepsGit
<1>6. CASE ProcessesExit
  <2>1. ASSUME NEW r \in RunIds, ChildExits(r), UNCHANGED gitVars PROVE GitInv'
    <3>1. CASE Crash
      <4>1. registry' = registry /\ registry # "down"
        BY <2>1, <3>1 DEF ChildExits, Crash
      <4> QED BY <3>1, <4>1 DEF Crash, RegistryLost
    <3>2. HostStep /\ registry' = registry /\ UNCHANGED gateVars
      BY <2>1 DEF HostStep, ChildExits
    <3> QED BY <1>0, <2>1, <3>1, <3>2, RegistrySideKeepsGit
  <2>2. CASE \E g \in Plans : GitProcessExits(g) /\ UNCHANGED registryVars
    BY <1>0, <2>2, GitSideKeepsGit
  <2> QED BY <1>6, <2>1, <2>2 DEF ProcessesExit
<1> QED
  BY <1>2, <1>3, <1>4, <1>5, <1>6, OpenGitKeepsGit, CrashKeepsGit DEF HostNext
-----------------------------------------------------------------------------
(* What is in use, and the bindings it was planned from.                   *)

\* Of the steps of a registry only a reservation begins a use, and only a run
\* in use gets a process.
LEMMA RunUseStep ==
    ASSUME RegistryInv, EntriesInv, [RegistryNext]_vars, NEW r \in RunIds
    PROVE  /\ InUse(r)' => InUse(r) \/ (BeginStep /\ pending[r] = NoTicket /\ pending'[r] # NoTicket)
           /\ child'[r] # NoTask => child[r] # NoTask \/ InUse(r)
<1> DEFINE Fine == /\ InUse(r)' => \/ InUse(r)
                                   \/ BeginStep /\ pending[r] = NoTicket /\ pending'[r] # NoTicket
                   /\ child'[r] # NoTask => child[r] # NoTask \/ InUse(r)
<1> SUFFICES Fine
  OBVIOUS
<1>0. /\ pending \in [RunIds -> Ticket \union {NoTicket}]
      /\ active \in [RunIds -> ActiveState]
      /\ child \in [RunIds -> Tasks \union {NoTask}]
  BY DEF RegistryInv, RecordsInv, RecordsTypeOK
<1>a. ASSUME InUse(r)' => InUse(r), child'[r] \in {NoTask, child[r]} PROVE Fine
  BY <1>a
<1>1. CASE Quiet
  <2>1. InUse(r)' = InUse(r)
    BY <1>1, QuietKeeps DEF InUse
  <2>2. ASSUME NEW q \in RunIds, SpawnProcess(q) PROVE Fine
    <3>1. active[q] = "owned"
      BY <2>2 DEF SpawnProcess, RegistryInv, RecordsInv, StartSound
    <3>2. child'[r] = child[r] \/ r = q
      BY <1>0, <2>2 DEF SpawnProcess
    <3> QED BY <2>1, <3>1, <3>2 DEF InUse
  <2>3. ASSUME NEW q \in RunIds, ChildExits(q) PROVE Fine
    <3>1. child'[r] \in {NoTask, child[r]}
      BY <1>0, <2>3 DEF ChildExits
    <3> QED BY <1>a, <2>1, <3>1
  <2>4. CASE UNCHANGED child
    BY <1>a, <2>1, <2>4
  <2>5. \/ UNCHANGED child
        \/ \E q \in RunIds : SpawnProcess(q) \/ ChildExits(q)
    BY <1>1 DEF Quiet, vars, registryVars, PublishSource, CloseSources, GateUsers
  <2> QED BY <2>2, <2>3, <2>4, <2>5
<1>2. ASSUME NEW q \in RunIds, NEW run \in RunRecord, Rewrites(q, run) PROVE Fine
  <2>1. child' = child /\ pending' = pending
    BY <1>2 DEF Rewrites
  <2>2. active[q] \in {"none", "owned", "finishing"}
    BY <1>0, <1>2 DEF Rewrites, ActiveState
  <2>3. active'[r] \in {"owned", "finishing"} => active[r] \in {"owned", "finishing"}
    BY <1>0, <1>2, <2>2 DEF Rewrites
  <2> QED BY <1>a, <2>1, <2>3 DEF InUse
<1>3. ASSUME NEW gone \in SUBSET RunIds, HistoryCut(gone)
      PROVE  active'[r] \in {active[r], "none"}
  BY <1>3 DEF HistoryCut
<1>4. ASSUME NEW q \in RunIds, NEW op \in RunOperations, NEW t \in Tasks,
             NEW parallel \in BOOLEAN, NEW gone \in SUBSET RunIds,
             BeginReserve(q, op, t, parallel, gone)
      PROVE  Fine
  <2>1. BeginStep
    BY <1>4 DEF BeginStep
  <2>2. child' = child
    BY <1>4 DEF BeginReserve
  <2>3. active'[r] \in {active[r], "none"}
    BY <1>3, <1>4 DEF BeginReserve
  <2> QED BY <2>1, <2>2, <2>3 DEF InUse
<1>5. ASSUME NEW op \in RunOperations, NEW t \in Tasks, NEW parallel \in BOOLEAN,
             NEW gone \in SUBSET RunIds, BeginRefused(op, t, parallel, gone)
      PROVE  Fine
  <2>1. active'[r] \in {active[r], "none"}
    BY <1>3, <1>5 DEF BeginRefused
  <2> QED BY <1>5, <1>a, <2>1 DEF BeginRefused, InUse
<1>6. ASSUME NEW q \in RunIds, NEW op \in RunOperations, NEW t \in Tasks,
             NEW parallel \in BOOLEAN, HistoryCutFails(op, t, parallel, q)
      PROVE  Fine
  BY <1>6, <1>a DEF HistoryCutFails, InUse
<1>7. ASSUME NEW q \in RunIds, BeginAbandon(q) \/ FinishProbe(q) PROVE Fine
  BY <1>0, <1>7, <1>a DEF BeginAbandon, FinishProbe, InUse
<1>8. ASSUME NEW q \in RunIds, NEW ok \in BOOLEAN, BeginCommit(q, ok) PROVE Fine
  BY <1>0, <1>8, <1>a DEF BeginCommit, InUse
<1>9. ASSUME NEW gone \in SUBSET RunIds, NEW ok \in BOOLEAN, Open(gone, ok) PROVE Fine
  BY <1>9, <1>a DEF Open, InUse
<1>10. CASE WorkerEnds \/ DropActive \/ Crash
  BY <1>0, <1>10, <1>a DEF WorkerEnds, DropActive, Crash, RegistryLost, InUse
<1> QED
  BY <1>1, <1>2, <1>4, <1>5, <1>6, <1>7, <1>8, <1>9, <1>10, StepKinds

\* The same of the Git side.
LEMMA GitUseStep ==
    ASSUME GitTypeOK, NEW g \in Plans, GitStep \/ \E k \in Plans : GitProcessExits(k)
    PROVE  /\ GitInUse(g)' => GitInUse(g)
           /\ g \in gitProcess' => g \in gitProcess \/ GitInUse(g)
<1>0. executor \in [Plans -> ExecutorState]
  BY DEF GitTypeOK
<1>1. ASSUME NEW k \in Plans,
             \/ Plan(k) \/ TerminalArrives(k) \/ ExecutedArrives(k) \/ CancelGit(k)
             \/ GitProcessExits(k) \/ \E ok \in BOOLEAN : ReconcileGit(k, ok)
      PROVE  executor' = executor /\ gitProcess' \subseteq gitProcess
  BY <1>1 DEF Plan, TerminalArrives, ExecutedArrives, CancelGit, GitProcessExits, ReconcileGit
<1>2. CASE ExecutionsDie
  BY <1>2 DEF ExecutionsDie, GitInUse
<1>3. ASSUME NEW k \in Plans,
             \/ Reserve(k) \/ ReserveRefused(k) \/ ReturnUnspawned(k) \/ ReturnReaped(k)
             \/ SendExecuted(k) \/ DropRunUse(k) \/ Reap(k)
      PROVE  /\ executor[k] # <<"none">> /\ (k # g => executor'[g] = executor[g])
             /\ gitProcess' = gitProcess
  BY <1>0, <1>3, Places
  DEF Reserve, ReserveRefused, ReturnUnspawned, Return, ReturnReaped, SendExecuted, DropRunUse, Reap
<1>4. ASSUME NEW k \in Plans, ExecutorPanics(k)
      PROVE  executor'[g] \in {executor[g], <<"none">>} /\ gitProcess' = gitProcess
  BY <1>4 DEF ExecutorPanics
<1>5. ASSUME NEW k \in Plans, SpawnGit(k)
      PROVE  /\ executor[k] # <<"none">> /\ (k # g => executor'[g] = executor[g])
             /\ gitProcess' = gitProcess \union {k}
  BY <1>0, <1>5, Places DEF SpawnGit
<1> QED BY <1>1, <1>2, <1>3, <1>4, <1>5 DEF GitStep, GitInUse

\* A step that moves no reconnection: a use begins only while none is under
\* way, with the binding of that moment, and a process only in a use.
LEMMA BindingKept ==
    ASSUME BindInv, UNCHANGED <<rebind, root>>,
           runRoot' \in [RunIds -> Nat], gitRoot' \in [Plans -> Nat],
           \A r \in RunIds :
              /\ InUse(r)' => InUse(r) \/ (rebind = "idle" /\ runRoot'[r] = root)
              /\ child'[r] # NoTask => child[r] # NoTask \/ InUse(r)
              /\ runRoot'[r] \in {runRoot[r], root},
           \A g \in Plans :
              /\ GitInUse(g)' => GitInUse(g) \/ (rebind = "idle" /\ gitRoot'[g] = root)
              /\ g \in gitProcess' => g \in gitProcess \/ GitInUse(g)
              /\ gitRoot'[g] \in {gitRoot[g], root},
           gitProcess' \subseteq Plans
    PROVE  BindInv'
<1>0. RebindSound /\ BindingCurrent
  BY DEF BindInv
<1>1. RebindSound'
  <2>1. rebind' # "idle" => /\ \A r \in RunIds : ~InUse(r)'
                            /\ \A g \in Plans : ~GitInUse(g)'
    BY <1>0 DEF RebindSound
  <2>2. rebind' \in {"runs_read", "checked"} => \A r \in RunIds : child'[r] = NoTask
    BY <1>0 DEF RebindSound
  <2>3. rebind' = "checked" => gitProcess' = {}
    BY <1>0 DEF RebindSound
  <2> QED BY <2>1, <2>2, <2>3 DEF RebindSound
<1>2. \A r \in RunIds : (InUse(r)' \/ child'[r] # NoTask) => runRoot'[r] = root'
  BY <1>0 DEF BindingCurrent
<1>3. \A g \in Plans : (GitInUse(g)' \/ g \in gitProcess') => gitRoot'[g] = root'
  BY <1>0 DEF BindingCurrent
<1>4. BindingCurrent'
  BY <1>2, <1>3 DEF BindingCurrent
<1> QED BY <1>1, <1>4 DEF BindInv

\* The two sides, when the bindings are left alone.
LEMMA BindingUsed ==
    ASSUME BindInv, UNCHANGED useFileVars, gitProcess' \subseteq Plans,
           \A r \in RunIds : /\ InUse(r)' => InUse(r)
                             /\ child'[r] # NoTask => child[r] # NoTask \/ InUse(r),
           \A g \in Plans : /\ GitInUse(g)' => GitInUse(g)
                            /\ g \in gitProcess' => g \in gitProcess \/ GitInUse(g)
    PROVE  BindInv'
<1>1. runRoot' = runRoot /\ gitRoot' = gitRoot /\ UNCHANGED <<rebind, root>>
  BY DEF useFileVars
<1>2. runRoot' \in [RunIds -> Nat] /\ gitRoot' \in [Plans -> Nat]
  BY <1>1 DEF BindInv
<1> QED BY <1>1, <1>2, BindingKept

\* A reconnection reads both ledgers: with a settled record there is no
\* process, of this host or of an earlier one.
LEMMA RebindStep ==
    ASSUME SafetyInv, GitInv, BindInv, Rebind
    PROVE  BindInv'
<1>0. /\ RebindSound /\ BindingCurrent /\ Covers(ledger) /\ root \in Nat
      /\ (\A g \in Plans : PlanSound(g)) /\ gitProcess \subseteq Plans
  BY DEF BindInv, SafetyInv, RegistryInv, RecordsInv, GitInv, GitTypeOK
<1>1. /\ UNCHANGED <<registryVars, gitVars, runRoot, gitRoot>>
      /\ UNCHANGED <<pending, active, child, executor, gitProcess>>
  BY DEF Rebind, RebindLock, RebindReadRuns, RebindReadGit, RebindCommit, RebindEnds, Rebinding,
         registryVars, gitVars
<1>2. /\ \A r \in RunIds : InUse(r)' = InUse(r) /\ child'[r] = child[r]
      /\ \A g \in Plans : GitInUse(g)' = GitInUse(g)
  BY <1>1 DEF InUse, GitInUse
<1>3. CASE RebindCommit
  <2>1. rebind = "checked" /\ rebind' = "idle" /\ root' = root + 1
    BY <1>3 DEF RebindCommit, Rebinding
  <2>2. /\ \A r \in RunIds : ~InUse(r)' /\ child'[r] = NoTask
        /\ \A g \in Plans : ~GitInUse(g)'
        /\ gitProcess' = {}
    BY <1>0, <1>1, <1>2, <2>1 DEF RebindSound
  <2>3. BindingCurrent' /\ RebindSound'
    BY <2>1, <2>2 DEF BindingCurrent, RebindSound
  <2> QED BY <1>0, <1>1, <2>1, <2>3 DEF BindInv, RebindState
<1>4. ASSUME UNCHANGED root PROVE BindingCurrent'
  BY <1>0, <1>1, <1>2, <1>4 DEF BindingCurrent
<1>5. ASSUME UNCHANGED root, RebindSound', rebind' \in RebindState PROVE BindInv'
  BY <1>1, <1>4, <1>5 DEF BindInv
<1>6. CASE RebindLock
  <2>1. /\ UNCHANGED root /\ rebind' = "locked"
        /\ \A r \in RunIds : ~InUse(r)'
        /\ \A g \in Plans : ~GitInUse(g)'
    BY <1>2, <1>6 DEF RebindLock, Rebinding
  <2> QED BY <1>5, <2>1 DEF RebindSound, RebindState
<1>7. CASE RebindReadRuns
  <2>1. UNCHANGED root /\ rebind = "locked" /\ rebind' = "runs_read" /\ RunsSettled
    BY <1>7 DEF RebindReadRuns, Rebinding
  <2>2. \A r \in RunIds : child'[r] = NoTask
    BY <1>0, <1>2, <2>1 DEF Covers, RunsSettled, Recorded, Final, Unresolved
  <2> QED BY <1>0, <1>2, <1>5, <2>1, <2>2 DEF RebindSound, RebindState
<1>8. CASE RebindReadGit
  <2>1. UNCHANGED root /\ rebind = "runs_read" /\ rebind' = "checked" /\ GitSettled
    BY <1>8 DEF RebindReadGit, Rebinding
  <2>2. gitProcess' = {}
    BY <1>0, <1>1, <2>1 DEF GitSettled, PlanSound, Owed
  <2> QED BY <1>0, <1>2, <1>5, <2>1, <2>2 DEF RebindSound, RebindState
<1>9. CASE RebindEnds
  <2>1. UNCHANGED root /\ rebind' = "idle"
    BY <1>9 DEF RebindEnds, Rebinding
  <2> QED BY <1>5, <2>1 DEF RebindSound, RebindState
<1> QED BY <1>3, <1>6, <1>7, <1>8, <1>9 DEF Rebind

LEMMA BindHostStep ==
    ASSUME SafetyInv, GitInv, BindInv, [HostNext]_hostVars
    PROVE  BindInv'
<1>0. /\ GitTypeOK /\ GitTypeOK' /\ gitProcess' \subseteq Plans
      /\ RegistryInv /\ EntriesInv
      /\ runRoot \in [RunIds -> Nat] /\ gitRoot \in [Plans -> Nat] /\ root \in Nat
  BY GitHostStep DEF GitInv, GitTypeOK, SafetyInv, BindInv
<1>1. ASSUME UNCHANGED <<pending, active, child>>
      PROVE  \A r \in RunIds : /\ InUse(r)' => InUse(r)
                               /\ child'[r] # NoTask => child[r] # NoTask \/ InUse(r)
  BY <1>1 DEF InUse
<1>2. ASSUME UNCHANGED <<executor, gitProcess>>
      PROVE  \A g \in Plans : /\ GitInUse(g)' => GitInUse(g)
                              /\ g \in gitProcess' => g \in gitProcess \/ GitInUse(g)
  BY <1>2 DEF GitInUse
<1>3. UNCHANGED registryVars => UNCHANGED <<pending, active, child>>
  BY DEF registryVars
<1>4. UNCHANGED gitVars => UNCHANGED <<executor, gitProcess>>
  BY DEF gitVars
<1>5. ASSUME NEW r \in RunIds, [RegistryNext]_vars, ~BeginStep
      PROVE  /\ InUse(r)' => InUse(r)
             /\ child'[r] # NoTask => child[r] # NoTask \/ InUse(r)
  BY <1>0, <1>5, RunUseStep
<1>6. CASE StartHost
  <2>1. /\ UNCHANGED <<pending, active, child, executor, gitProcess>>
        /\ UNCHANGED <<rebind, root, runRoot, gitRoot>>
    BY <1>3, <1>4, <1>6 DEF StartHost
  <2> QED BY <1>0, <1>1, <1>2, <2>1, BindingKept
<1>7. CASE UNCHANGED hostVars
  BY <1>0, <1>1, <1>2, <1>3, <1>4, <1>7, BindingUsed DEF hostVars
<1>8. CASE CrashHost
  <2>1. /\ \A r \in RunIds : ~InUse(r)' /\ child'[r] = child[r]
        /\ \A g \in Plans : ~GitInUse(g)'
        /\ gitProcess' = gitProcess
        /\ UNCHANGED <<rebind, root, runRoot, gitRoot>>
    BY <1>8 DEF CrashHost, RegistryLost, GitLost, InUse, GitInUse
  <2> QED BY <1>0, <2>1, BindingKept
<1>9. ASSUME NEW ok \in BOOLEAN, OpenGit(ok) PROVE BindInv'
  <2>1. UNCHANGED <<executor, gitProcess>> /\ UNCHANGED useFileVars /\ UNCHANGED registryVars
    BY <1>9 DEF OpenGit, GitOpen
  <2> QED BY <1>0, <1>1, <1>2, <1>3, <2>1, BindingUsed
<1>10. ASSUME NEW ok \in BOOLEAN, NEW gone \in SUBSET RunIds, OpenRuns(gone, ok)
       PROVE  BindInv'
  <2>1. UNCHANGED gitVars /\ UNCHANGED useFileVars
    BY <1>10 DEF OpenRuns
  <2>2. /\ UNCHANGED <<pending, active, child>>
    BY <1>10 DEF OpenRuns, Open
  <2> QED BY <1>0, <1>1, <1>2, <1>4, <2>1, <2>2, BindingUsed
<1>11. CASE BeginRun
  <2>1. /\ BeginStep /\ rebind = "idle"
        /\ UNCHANGED gitVars /\ UNCHANGED <<rebind, root, gitRoot>>
        /\ \A r \in RunIds : runRoot'[r] = IF pending[r] = NoTicket /\ pending'[r] # NoTicket
                                           THEN root ELSE runRoot[r]
        /\ runRoot' \in [RunIds -> Nat]
    BY <1>0, <1>11 DEF BeginRun, RunUseFree
  <2>2. [RegistryNext]_vars
    BY <2>1 DEF RegistryNext
  <2>3. \A r \in RunIds :
          /\ InUse(r)' => InUse(r) \/ (rebind = "idle" /\ runRoot'[r] = root)
          /\ child'[r] # NoTask => child[r] # NoTask \/ InUse(r)
          /\ runRoot'[r] \in {runRoot[r], root}
    BY <1>0, <2>1, <2>2, RunUseStep
  <2>4. \A g \in Plans : /\ GitInUse(g)' => GitInUse(g)
                         /\ g \in gitProcess' => g \in gitProcess \/ GitInUse(g)
    BY <1>2, <1>4, <2>1
  <2> QED BY <1>0, <2>1, <2>3, <2>4, BindingKept
<1>12. CASE RunWork
  <2>1. [RegistryNext]_vars /\ UNCHANGED gitVars /\ UNCHANGED useFileVars
    BY <1>12 DEF RunWork, RegistryNext
  <2>2. ASSUME NEW r \in RunIds, InUse(r)' PROVE InUse(r)
    <3>1. UNCHANGED pending \/ pending'[r] = NoTicket \/ pending'[r] = pending[r]
      BY <1>0, <1>12
      DEF RunWork, WorkerStep, BeginAbandon, SpawnProcess, FinishProbe, BeginCommit, MarkRunning, Cancel,
          FinishObserved, Reconcile, FinishUnspawned, PreparationFails, PublishSource, WorkerEnds,
          CloseSources, DropActive, RegistryInv, RecordsInv, RecordsTypeOK
    <3> QED BY <1>0, <2>1, <2>2, <3>1, RunUseStep
  <2>3. \A r \in RunIds : child'[r] # NoTask => child[r] # NoTask \/ InUse(r)
    BY <1>0, <2>1, RunUseStep
  <2> QED BY <1>0, <1>2, <1>4, <2>1, <2>2, <2>3, BindingUsed
<1>13. CASE BeginGit
  <2>1. /\ rebind = "idle" /\ gitProcess' = gitProcess
        /\ UNCHANGED registryVars /\ UNCHANGED <<rebind, root, runRoot>>
        /\ \A g \in Plans : gitRoot'[g] = IF ~GitInUse(g) /\ GitInUse(g)' THEN root ELSE gitRoot[g]
        /\ gitRoot' \in [Plans -> Nat]
    BY <1>0, <1>13 DEF BeginGit, RunUseFree, ExecuteStep, Execute, ExecuteRefused
  <2>2. \A g \in Plans :
          /\ GitInUse(g)' => GitInUse(g) \/ (rebind = "idle" /\ gitRoot'[g] = root)
          /\ g \in gitProcess' => g \in gitProcess \/ GitInUse(g)
          /\ gitRoot'[g] \in {gitRoot[g], root}
    BY <2>1
  <2>3. \A r \in RunIds : /\ InUse(r)' => InUse(r)
                          /\ child'[r] # NoTask => child[r] # NoTask \/ InUse(r)
    BY <1>1, <1>3, <2>1
  <2> QED BY <1>0, <2>1, <2>2, <2>3, BindingKept
<1>14. CASE GitWork
  <2>1. GitStep /\ UNCHANGED registryVars /\ UNCHANGED useFileVars
    BY <1>14 DEF GitWork
  <2> QED BY <1>0, <1>1, <1>3, <2>1, GitUseStep, BindingUsed
<1>15. CASE ProcessesExit
  <2>1. ASSUME NEW r \in RunIds, ChildExits(r), UNCHANGED gitVars, UNCHANGED useFileVars
        PROVE  BindInv'
    <3>1. /\ UNCHANGED <<pending, active>>
          /\ \A q \in RunIds : child'[q] \in {NoTask, child[q]}
      BY <1>0, <2>1 DEF ChildExits, RegistryInv, RecordsInv, RecordsTypeOK
    <3>2. \A q \in RunIds : /\ InUse(q)' => InUse(q)
                            /\ child'[q] # NoTask => child[q] # NoTask \/ InUse(q)
      BY <3>1 DEF InUse
    <3> QED BY <1>0, <1>2, <1>4, <2>1, <3>2, BindingUsed
  <2>2. ASSUME NEW g \in Plans, GitProcessExits(g), UNCHANGED registryVars, UNCHANGED useFileVars
        PROVE  BindInv'
    BY <1>0, <1>1, <1>3, <2>2, GitUseStep, BindingUsed
  <2> QED BY <1>15, <2>1, <2>2 DEF ProcessesExit
<1> QED
  BY <1>6, <1>7, <1>8, <1>9, <1>10, <1>11, <1>12, <1>13, <1>14, <1>15, RebindStep DEF HostNext
-----------------------------------------------------------------------------
(* The invariant.                                                          *)

LEMMA HostInvInit == HostInit => HostInv
<1> SUFFICES ASSUME HostInit PROVE HostInv
  OBVIOUS
<1>0. /\ RegistryInit /\ GitInit /\ GateInit
      /\ registry = "down" /\ ~gitUp /\ gitProcess = {} /\ plans = {}
      /\ executeAlive = GitExecutors /\ executionsDead = FALSE
      /\ \A g \in Plans : /\ executor[g] = <<"none">> /\ event[g] = NoEvent
                          /\ operations[g] = NoOp /\ gitLedger[g] = NoOp
      /\ \A r \in RunIds : pending[r] = NoTicket /\ active[r] = "none" /\ child[r] = NoTask
      /\ \A s \in Sources : gate[s].runs = {}
  BY DEF HostInit, RegistryInit, GitInit, GateInit, DefaultGate
<1>1. SafetyInv
  BY <1>0, SafetyInvInit
<1>2. Known = {} /\ ActiveOps = {}
  BY <1>0 DEF Known, ActiveOps
<1>3. GitTypeOK
  <2>1. <<"none">> \in ExecutorState
    BY DEF ExecutorState
  <2>2. executeAlive \in 0..GitExecutors
    BY <1>0, GitAssumption
  <2> QED BY <1>0, <2>1, <2>2 DEF GitInit, GitTypeOK
<1>4. \A g \in Plans : PlanSound(g)
  BY <1>0, <1>2, Places DEF PlanSound, ExecutorSound, Owed, Owing, Leased, Done, Quiescent
<1>5. PoolSound
  <2>1. Busy = {}
    BY <1>0 DEF Busy
  <2>2. IsFiniteSet(Busy) /\ Cardinality(Busy) = 0 /\ GitExecutors \in Nat \ {0}
    BY <2>1, FS_EmptySet, GitAssumption
  <2> QED BY <1>0, <2>2 DEF PoolSound
<1>6. GitInv
  BY <1>0, <1>2, <1>3, <1>4, <1>5 DEF GitInv, DownSound, OneOperationPerRepository, LeftBehindShut
<1>7. BindInv
  BY <1>0 DEF HostInit, BindInv, RebindState, RebindSound, BindingCurrent, InUse, GitInUse
<1> QED BY <1>1, <1>6, <1>7 DEF HostInv

(***************************************************************************)
(* The inductive invariant of the whole host: the executions, the Git      *)
(* operations and a root reconnection by another process, through saves    *)
(* that fail, panics of the workers, crashes and restarts.                 *)
(***************************************************************************)
THEOREM HostInvariance == HostSpec => []HostInv
<1>1. HostInit => HostInv
  BY HostInvInit
<1>2. HostInv /\ [HostNext]_hostVars => HostInv'
  BY SafetyHostStep, GitHostStep, BindHostStep DEF HostInv
<1> QED BY <1>1, <1>2, PTL DEF HostSpec

LEMMA GitSafetyFollows == SafetyInv /\ GitInv => GitSafety
<1> SUFFICES ASSUME SafetyInv, GitInv PROVE GitSafety
  OBVIOUS
<1>0. /\ GitTypeOK /\ (\A g \in Plans : PlanSound(g)) /\ PoolSound
      /\ OneOperationPerRepository /\ LeftBehindShut /\ gitProcess \subseteq Plans
  BY DEF GitInv, GitTypeOK
<1>1. GitDurableCover
  BY <1>0 DEF GitDurableCover, PlanSound, Owed
<1>2. LeaseOverProcess
  BY <1>0 DEF LeaseOverProcess, PlanSound, ExecutorSound, Leased
<1>3. UnknownStaysBlocked
  BY <1>0 DEF UnknownStaysBlocked, LeftBehindShut
<1>4. EventsHaveOperation
  BY <1>0, Places DEF EventsHaveOperation, PlanSound, ExecutorSound, Done, Quiescent
<1>5. DeadPoolOwesNothing
  BY <1>0 DEF DeadPoolOwesNothing, PoolSound
<1> QED BY <1>0, <1>1, <1>2, <1>3, <1>4, <1>5 DEF GitSafety

(***************************************************************************)
(* Around the process of every Git operation of every host: a durable      *)
(* record that keeps its worktree closed in the next host, the lease of a  *)
(* switch or pull, one operation per repository, none forgotten while its  *)
(* events are on their way, none waiting for workers that died, and a      *)
(* block until an unknown fate is acknowledged (git_bridge.rs execute and  *)
(* tick, git_jobs.rs, Actor::new).                                         *)
(***************************************************************************)
THEOREM GitAlwaysSafe == HostSpec => []GitSafety
<1>1. HostInv => GitSafety
  BY GitSafetyFollows DEF HostInv
<1> QED BY <1>1, HostInvariance, PTL

(***************************************************************************)
(* RegistrySafety and DurableCover hold with the real Git side and with    *)
(* root reconnection, too: the blocks that Actor::new sets and an          *)
(* acknowledgement removes, the panics of the execution workers and a Git  *)
(* side that opens before the registry change nothing of them.             *)
(***************************************************************************)
THEOREM RunsSafeInHost == HostSpec => [](RegistrySafety /\ DurableCover)
<1>1. HostInv => RegistrySafety
  BY RegistrySafetyFollows DEF HostInv
<1>2. HostInv => DurableCover
  BY DEF HostInv, SafetyInv, RegistryInv, RecordsInv, Covers, DurableCover
<1> QED BY <1>1, <1>2, HostInvariance, PTL

(***************************************************************************)
(* No root is reconnected under a run or a Git operation that is in use or *)
(* whose processes live, and none is started from a binding that a         *)
(* reconnection replaced (project.rs rebind_root, begin_reserve, execute). *)
(***************************************************************************)
THEOREM BindingAlwaysCurrent == HostSpec => []BindingCurrent
<1>1. HostInv => BindingCurrent
  BY DEF HostInv, BindInv
<1> QED BY <1>1, HostInvariance, PTL
-----------------------------------------------------------------------------
(* The processes implement the source-use contract.                        *)

RunsIn(s) == {r \in RunIds : child[r] # NoTask /\ SourceOf[child[r]] = s}
MutationsIn(s) == {g \in gitProcess \intersect Mutating : RepoOf[g] = s}

\* A plan's mutation lease, recorded in the gate.
LEMMA MutationRecorded ==
    ASSUME GateInv, NEW g \in Plans, NEW s \in Sources, lease[g] = MutationLease(s, g)
    PROVE  /\ Holds(g) /\ lease[g].mutation /\ lease[g].identity = s
           /\ gate[s].mutation = g /\ g # NoOperation
<1>1. g \in Holders /\ g \in Operations /\ g # NoOperation
  BY GitAssumption, GateAssumption
<1>2. MutationLease(s, g) \in GateLease
  BY <1>1 DEF MutationLease, GateLease
<1>3. lease[g] # NoLease
  BY <1>2, GateAssumption DEF GateLease
<1>4. lease[g].mutation /\ lease[g].identity = s /\ lease[g].operation = g
  BY DEF MutationLease
<1>5. gate[lease[g].identity].mutation = lease[g].operation
  BY <1>1, <1>3, <1>4 DEF GateInv, LeasesRecorded, Holds
<1> QED BY <1>1, <1>3, <1>4, <1>5 DEF Holds

\* A mutation at work in a worktree that this host uses is one of this host,
\* which has the lease; one of an earlier host has the worktree shut.
LEMMA MutationsHoldTheGate ==
    ASSUME SafetyInv, GitInv, gitUp, NEW g \in gitProcess \intersect Mutating
    PROVE  /\ RepoOf[g] \in Sources
           /\ gate[RepoOf[g]].runs = {}
           /\ gate[RepoOf[g]].mutation # NoOperation => g \in ActiveOps
<1>0. /\ g \in Plans /\ PlanSound(g) /\ LeftBehindShut /\ GateInv /\ RepoOf[g] \in Sources
  BY GitAssumption DEF GitInv, GitTypeOK, SafetyInv, LeasesInv
<1>1. CASE g \in ActiveOps
  <2>1. lease[g] = MutationLease(RepoOf[g], g)
    BY <1>0, <1>1 DEF PlanSound, ExecutorSound, Leased
  <2>2. gate[RepoOf[g]].mutation = g /\ g # NoOperation
    BY <1>0, <2>1, MutationRecorded
  <2> QED BY <1>0, <1>1, <2>2 DEF GateInv, EntriesExclusive
<1>2. CASE g \notin ActiveOps
  BY <1>0, <1>2 DEF LeftBehindShut
<1> QED BY <1>1, <1>2

\* The gate entry of a run in use.
LEMMA RunsHoldTheGate ==
    ASSUME SafetyInv, NEW r \in RunIds, InUse(r), SourceOf[TaskOf(r)] \in Sources
    PROVE  gate[SourceOf[TaskOf(r)]].runs # {}
<1>0. LeaseIffInUse /\ LeasesMatch /\ GateInv /\ r \in Holders /\ NoSource \notin Sources
  BY RegistryAssumption DEF SafetyInv, LeasesInv
<1>1. Holds(r)
  BY <1>0 DEF LeaseIffInUse, TaskOf
<1>2. lease[r] = RunLease(SourceOf[TaskOf(r)], OperationOf(r))
  BY <1>0, <1>1 DEF LeasesMatch
<1>3. lease[r].identity = SourceOf[TaskOf(r)] /\ ~lease[r].mutation
  BY <1>2 DEF RunLease
<1> QED BY <1>0, <1>1, <1>3 DEF GateInv, LeasesRecorded

LEMMA SpawnedBesideNoMutation ==
    ASSUME SafetyInv, GitInv, NEW r \in RunIds, SpawnProcess(r),
           NEW s \in Sources, SourceOf[runs[r].task] = s
    PROVE  MutationsIn(s) = {}
<1>0. /\ registry = "open" /\ gitUp /\ StartSound /\ At(r, "begun")
  BY DEF SafetyInv, RegistryInv, RecordsInv, GitInv, DownSound, SpawnProcess
<1>1. active[r] = "owned" /\ pending[r] = NoTicket
  BY <1>0 DEF StartSound
<1>2. InUse(r) /\ TaskOf(r) = runs[r].task
  BY <1>1 DEF InUse, TaskOf
<1>3. gate[s].runs # {}
  BY <1>2, RunsHoldTheGate
<1> QED BY <1>0, <1>3, MutationsHoldTheGate DEF MutationsIn

LEMMA SpawnedAlone ==
    ASSUME SafetyInv, GitInv, gitUp, NEW g \in Mutating, SpawnGit(g)
    PROVE  /\ RepoOf[g] \in Sources
           /\ MutationsIn(RepoOf[g]) = {} /\ RunsIn(RepoOf[g]) = {}
<1>0. /\ g \in Plans /\ PlanSound(g) /\ GateInv /\ RepoOf[g] \in Sources /\ g \in Holders
      /\ OneOperationPerRepository /\ MutationExclusion
      /\ executor[g] = <<"leased">>
  BY GitAssumption, MutationExcluded
  DEF GitInv, SafetyInv, LeasesInv, SpawnGit
<1>1. g \in ActiveOps /\ g \notin gitProcess
  BY <1>0, Places DEF PlanSound, ExecutorSound, Done
<1>2. lease[g] = MutationLease(RepoOf[g], g)
  BY <1>0 DEF PlanSound, Leased
<1>3. /\ Holds(g) /\ lease[g].mutation /\ lease[g].identity = RepoOf[g]
      /\ gate[RepoOf[g]].mutation # NoOperation
  BY <1>0, <1>2, MutationRecorded
<1>4. RunsIn(RepoOf[g]) = {}
  BY <1>0, <1>3 DEF MutationExclusion, RunsIn
<1>5. MutationsIn(RepoOf[g]) = {}
  BY <1>0, <1>1, <1>3, MutationsHoldTheGate DEF MutationsIn, OneOperationPerRepository
<1> QED BY <1>0, <1>4, <1>5

\* Every step that creates no process.
LEMMA NoProcessCreated ==
    ASSUME HostNext
    PROVE  \/ UNCHANGED <<child, gitProcess>>
           \/ (\E r \in RunIds : SpawnProcess(r) \/ ChildExits(r)) /\ UNCHANGED gitProcess
           \/ \E g \in Plans : SpawnGit(g) /\ registry # "down" /\ UNCHANGED child
           \/ \E g \in Plans : GitProcessExits(g) /\ UNCHANGED child
<1> DEFINE Fine == \/ UNCHANGED <<child, gitProcess>>
                   \/ (\E r \in RunIds : SpawnProcess(r) \/ ChildExits(r)) /\ UNCHANGED gitProcess
                   \/ \E g \in Plans : SpawnGit(g) /\ registry # "down" /\ UNCHANGED child
                   \/ \E g \in Plans : GitProcessExits(g) /\ UNCHANGED child
<1>1. CASE StartHost \/ CrashHost \/ Rebind
  BY <1>1 DEF StartHost, CrashHost, RegistryLost, GitLost, Rebind, RebindLock, RebindReadRuns,
              RebindReadGit, RebindCommit, RebindEnds, Rebinding, registryVars, gitVars
<1>2. ASSUME NEW ok \in BOOLEAN,
             OpenGit(ok) \/ \E gone \in SUBSET RunIds : OpenRuns(gone, ok)
      PROVE  UNCHANGED <<child, gitProcess>>
  BY <1>2 DEF OpenGit, GitOpen, OpenRuns, Open, registryVars, gitVars
<1>3. CASE BeginRun \/ BeginGit
  <2>1. CASE BeginRun
    BY <2>1, BeginStepFrame DEF BeginRun, gitVars
  <2>2. CASE BeginGit
    BY <2>2, ExecuteStepFrame DEF BeginGit, registryVars
  <2> QED BY <1>3, <2>1, <2>2
<1>4. CASE RunWork
  <2>1. WorkerStep => UNCHANGED child \/ \E r \in RunIds : SpawnProcess(r)
    BY WorkerStepFrame
  <2> QED BY <1>4, <2>1 DEF RunWork, gitVars
<1>5. CASE GitWork
  <2>1. GitStep => UNCHANGED gitProcess \/ \E g \in Plans : SpawnGit(g)
    BY DEF GitStep, ExecutionsDie, ReconcileGit, Plan, Reserve, ReserveRefused, ReturnUnspawned, Return,
           ReturnReaped, SendExecuted, DropRunUse, ExecutorPanics, TerminalArrives, Reap,
           ExecutedArrives, CancelGit
  <2> QED BY <1>5, <2>1 DEF GitWork, registryVars
<1>6. CASE ProcessesExit
  BY <1>6 DEF ProcessesExit, registryVars, gitVars
<1> QED BY <1>1, <1>2, <1>3, <1>4, <1>5, <1>6 DEF HostNext

LEMMA ProcessesStep ==
    ASSUME SafetyInv, GitInv, HostNext
    PROVE  [Processes!UseNext]_(Processes!useVars)
<1>0. /\ child \in [RunIds -> Tasks \union {NoTask}] /\ gitProcess \subseteq Plans
      /\ StartSound \/ registry # "open"
      /\ Plans \intersect RunIds = {} /\ Mutating \subseteq Plans
      /\ runs \in [RunIds -> RunRecord \union {NoRun}]
      /\ NoTask \notin Tasks /\ NoRun \notin RunRecord
      /\ SourceOf \in [Tasks -> Sources \union {NoSource}] /\ NoSource \notin Sources
  BY HostAssumption, GitAssumption, RegistryAssumption, SentinelAssumption
  DEF SafetyInv, RegistryInv, RecordsInv, RecordsTypeOK, GitInv, GitTypeOK
<1>1. ASSUME UNCHANGED <<child, gitProcess>> PROVE UNCHANGED Processes!useVars
  BY <1>1 DEF Processes!useVars
<1>2. ASSUME NEW r \in RunIds, ChildExits(r), UNCHANGED gitProcess PROVE Processes!End({r})
  <2>1. child'[r] = NoTask /\ \A q \in RunIds : q # r => child'[q] = child[q]
    BY <1>0, <1>2 DEF ChildExits
  <2>2. \A s \in Sources : RunsIn(s)' = RunsIn(s) \ {r} /\ MutationsIn(s)' = MutationsIn(s) \ {r}
    BY <1>0, <1>2, <2>1 DEF RunsIn, MutationsIn
  <2> QED BY <2>2 DEF Processes!End, RunsIn, MutationsIn
<1>3. ASSUME NEW g \in Plans, GitProcessExits(g), UNCHANGED child PROVE Processes!End({g})
  <2>1. gitProcess' = gitProcess \ {g}
    BY <1>3 DEF GitProcessExits
  <2>2. \A s \in Sources : RunsIn(s)' = RunsIn(s) \ {g} /\ MutationsIn(s)' = MutationsIn(s) \ {g}
    BY <1>0, <1>3, <2>1 DEF RunsIn, MutationsIn
  <2> QED BY <2>2 DEF Processes!End, RunsIn, MutationsIn
<1>4. ASSUME NEW r \in RunIds, SpawnProcess(r), UNCHANGED gitProcess
      PROVE  [Processes!UseNext]_(Processes!useVars)
  <2> DEFINE t == runs[r].task
  <2>1. /\ child' = [child EXCEPT ![r] = t] /\ t \in Tasks /\ child[r] = NoTask
    BY <1>0, <1>4 DEF SpawnProcess, StartSound, RunRecord
  <2>2. child'[r] = t /\ t # NoTask /\ \A q \in RunIds : q # r => child'[q] = child[q]
    BY <1>0, <2>1
  <2> HIDE DEF t
  <2>3. \A s \in Sources : /\ RunsIn(s)' = IF s = SourceOf[t] THEN RunsIn(s) \union {r} ELSE RunsIn(s)
                           /\ MutationsIn(s)' = MutationsIn(s)
    BY <1>0, <1>4, <2>1, <2>2 DEF RunsIn, MutationsIn
  <2>4. CASE SourceOf[t] = NoSource
    <3>1. \A s \in Sources : RunsIn(s)' = RunsIn(s) /\ MutationsIn(s)' = MutationsIn(s)
      BY <1>0, <2>3, <2>4
    <3> QED BY <3>1 DEF Processes!useVars, RunsIn, MutationsIn
  <2>5. ASSUME NEW s \in Sources, SourceOf[t] = s PROVE Processes!BeginRun(s, r)
    <3>1. MutationsIn(s) = {}
      BY <1>4, <2>5, SpawnedBesideNoMutation DEF t
    <3>2. \A x \in Sources : /\ RunsIn(x)' = IF x = s THEN RunsIn(x) \union {r} ELSE RunsIn(x)
                             /\ MutationsIn(x)' = MutationsIn(x)
      BY <2>3, <2>5
    <3> QED BY <3>1, <3>2 DEF Processes!BeginRun, RunsIn, MutationsIn
  <2>6. SourceOf[t] = NoSource \/ SourceOf[t] \in Sources
    BY <1>0, <2>1
  <2> QED BY <2>4, <2>5, <2>6 DEF Processes!UseNext
<1>5. ASSUME NEW g \in Plans, SpawnGit(g), registry # "down", UNCHANGED child
      PROVE  [Processes!UseNext]_(Processes!useVars)
  <2>1. gitProcess' = gitProcess \union {g} /\ gitUp
    BY <1>5 DEF SpawnGit, GitInv, DownSound
  <2>2. CASE g \notin Mutating
    <3>1. gitProcess' \intersect Mutating = gitProcess \intersect Mutating
      BY <2>1, <2>2
    <3> QED BY <1>5, <3>1 DEF Processes!useVars
  <2>3. CASE g \in Mutating
    <3>1. /\ RepoOf[g] \in Sources
          /\ MutationsIn(RepoOf[g]) = {} /\ RunsIn(RepoOf[g]) = {}
      BY <1>5, <2>1, <2>3, SpawnedAlone
    <3>2. \A s \in Sources : /\ RunsIn(s)' = RunsIn(s)
                             /\ MutationsIn(s)' = IF s = RepoOf[g] THEN {g} ELSE MutationsIn(s)
      BY <1>0, <1>5, <2>1, <2>3, <3>1 DEF RunsIn, MutationsIn
    <3>3. Processes!BeginMutation(RepoOf[g], g)
      BY <3>1, <3>2 DEF Processes!BeginMutation, RunsIn, MutationsIn
    <3> QED BY <3>1, <3>3 DEF Processes!UseNext
  <2> QED BY <2>2, <2>3
<1>6. \A u \in RunIds \union Plans : Processes!End({u}) => Processes!UseNext
  BY DEF Processes!UseNext
<1> QED BY <1>1, <1>2, <1>3, <1>4, <1>5, <1>6, NoProcessCreated

LEMMA ProcessesInitially == HostInit => Processes!UseInit
BY DEF HostInit, RegistryInit, GitInit, Processes!UseInit

(***************************************************************************)
(* The processes themselves, of this host and of earlier ones, obey the    *)
(* source-use contract: no run is spawned while a switch or pull is at     *)
(* work in its worktree, and no switch or pull while a run or another one  *)
(* is (model.rs SourceGate, with the blocks of Actor::new and the          *)
(* worktrees that Drop for RunRegistry closes).                            *)
(***************************************************************************)
THEOREM ProcessesObeySource == HostSpec => ProcessesObeyUse
<1>1. HostInv /\ [HostNext]_hostVars => [Processes!UseNext]_(Processes!useVars)
  <2>1. ASSUME UNCHANGED hostVars PROVE UNCHANGED Processes!useVars
    <3>1. UNCHANGED <<child, gitProcess>>
      BY <2>1 DEF hostVars, registryVars, gitVars
    <3> QED BY <3>1 DEF Processes!useVars
  <2> QED BY <2>1, ProcessesStep DEF HostInv
<1> QED
  BY <1>1, ProcessesInitially, HostInvariance, PTL
  DEF HostSpec, ProcessesObeyUse, Processes!UseSpec
=============================================================================
