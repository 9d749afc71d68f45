-------------------------- MODULE RunRegistryProofs --------------------------
(***************************************************************************)
(* Theorems about the source gate and the run registry that takes its      *)
(* leases, for every set of sources, holders, operation ids, runs, tasks   *)
(* and history limits.                                                     *)
(***************************************************************************)
EXTENDS RunRegistry, FiniteSetTheorems, TLAPS

(***************************************************************************)
(* The source gate: what the run MCSourceGate checks for three holders.    *)
(***************************************************************************)
\* Two leases of one source never own the same entry.
LeasesDistinct ==
    \A h, k \in Holders : (Holds(h) /\ Holds(k) /\ h # k) => lease[h] # lease[k]

\* The recorded half of the exclusion, which reserve tests before it records.
EntriesExclusive ==
    \A s \in Sources : gate[s].mutation # NoOperation => gate[s].runs = {}

GateInv == GateTypeOK /\ LeasesRecorded /\ LeasesDistinct /\ EntriesExclusive

USE GateAssumption

(***************************************************************************)
(* Every method leaves a well-formed GateState.                            *)
(***************************************************************************)
LEMMA GateStateClosed ==
    ASSUME NEW state \in GateState
    PROVE  /\ \A id \in BlockIds : /\ WithBlock(state, id) \in GateState
                                   /\ WithoutBlock(state, id) \in GateState
           /\ \A up \in BOOLEAN : WithProvider(state, up) \in GateState
           /\ \A op \in Operations : /\ WithRun(state, op) \in GateState
                                     /\ WithMutation(state, op) \in GateState
           /\ \A l \in GateLease : Released(state, l) \in GateState
<1> USE DEF GateState
<1>1. \A id \in BlockIds : WithBlock(state, id) \in GateState /\ WithoutBlock(state, id) \in GateState
  BY DEF WithBlock, WithoutBlock
<1>2. \A up \in BOOLEAN : WithProvider(state, up) \in GateState
  BY DEF WithProvider
<1>3. \A op \in Operations : WithRun(state, op) \in GateState /\ WithMutation(state, op) \in GateState
  BY DEF WithRun, WithMutation
<1>4. \A l \in GateLease : Released(state, l) \in GateState
  <2> TAKE l \in GateLease
  <2>1. CASE l.mutation /\ state.mutation = l.operation
    <3>1. state.generation + 1 \in Nat
      OBVIOUS
    <3>2. QED
      BY <2>1, <3>1 DEF Released
  <2>2. CASE l.mutation /\ state.mutation # l.operation
    BY <2>2 DEF Released
  <2>3. CASE ~l.mutation
    BY <2>3 DEF Released
  <2>4. QED
    BY <2>1, <2>2, <2>3
<1>5. QED
  BY <1>1, <1>2, <1>3, <1>4

(***************************************************************************)
(* What each method leaves of the recorded runs and mutation, and that     *)
(* only the release of the recorded mutation moves the generation.         *)
(***************************************************************************)
LEMMA GateStateEffects ==
    ASSUME NEW state \in GateState
    PROVE  /\ \A id \in BlockIds :
                 /\ WithBlock(state, id).runs = state.runs
                 /\ WithBlock(state, id).mutation = state.mutation
                 /\ WithoutBlock(state, id).runs = state.runs
                 /\ WithoutBlock(state, id).mutation = state.mutation
           /\ \A up \in BOOLEAN :
                 /\ WithProvider(state, up).runs = state.runs
                 /\ WithProvider(state, up).mutation = state.mutation
           /\ \A op \in Operations :
                 /\ WithRun(state, op).runs = state.runs \union {op}
                 /\ WithRun(state, op).mutation = state.mutation
                 /\ WithMutation(state, op).runs = state.runs
                 /\ WithMutation(state, op).mutation = op
           /\ \A l \in GateLease :
                 /\ l.mutation => Released(state, l).runs = state.runs
                 /\ (l.mutation /\ state.mutation = l.operation)
                        => Released(state, l).mutation = NoOperation
                 /\ (~l.mutation \/ state.mutation # l.operation)
                        => Released(state, l).mutation = state.mutation
                 /\ ~l.mutation => Released(state, l).runs = state.runs \ {l.operation}
BY DEF GateState, GateLease, WithBlock, WithoutBlock, WithProvider, WithRun,
       WithMutation, Released

(***************************************************************************)
(* Type correctness of the gate is kept by every method.                   *)
(***************************************************************************)
LEMMA GateTypeStep ==
    ASSUME GateTypeOK, GateNext PROVE GateTypeOK'
<1> USE GateStateClosed DEF GateTypeOK
<1>1. ASSUME NEW s \in Sources, NEW id \in BlockIds, Block(s, id) \/ Unblock(s, id)
      PROVE  GateTypeOK'
  BY <1>1 DEF Block, Unblock
<1>2. ASSUME NEW s \in Sources, ProviderReady(s) \/ ProviderUnavailable(s)
      PROVE  GateTypeOK'
  BY <1>2 DEF ProviderReady, ProviderUnavailable
<1>3. ASSUME NEW h \in Holders, NEW s \in Sources, NEW op \in Operations, ReserveRun(h, s, op)
      PROVE  GateTypeOK'
  BY <1>3 DEF ReserveRun, RunLease, GateLease
<1>4. ASSUME NEW h \in Holders, NEW s \in Sources, NEW op \in Operations, ReserveMutation(h, s, op)
      PROVE  GateTypeOK'
  BY <1>4 DEF ReserveMutation, MutationLease, GateLease
<1>5. ASSUME NEW h \in Holders, DropLease(h)
      PROVE  GateTypeOK'
  <2>1. lease[h] \in GateLease /\ lease[h].identity \in Sources
    BY <1>5 DEF DropLease, Holds, GateLease
  <2>2. Released(gate[lease[h].identity], lease[h]) \in GateState
    BY <2>1
  <2>3. QED
    BY <1>5, <2>1, <2>2 DEF DropLease, AfterDrop
<1>6. QED
  BY <1>1, <1>2, <1>3, <1>4, <1>5 DEF GateNext

-----------------------------------------------------------------------------
(***************************************************************************)
(* The inductive invariant.  LeasesRecorded alone is not inductive: a drop *)
(* keeps it only because no second lease names the same entry, and that    *)
(* holds only because reserve refuses an operation id that is recorded.    *)
(***************************************************************************)
LEMMA GateInvInit == GateInit => GateInv
BY DEF GateInit, GateInv, GateTypeOK, GateState, DefaultGate, LeasesRecorded,
       LeasesDistinct, EntriesExclusive, Holds

\* Steps that change no lease and no recorded entry.
LEMMA GateInvBookkeeping ==
    ASSUME GateInv, GateTypeOK', UNCHANGED lease,
           \A s \in Sources : /\ gate'[s].runs = gate[s].runs
                              /\ gate'[s].mutation = gate[s].mutation
    PROVE  GateInv'
<1>1. \A h \in Holders : Holds(h) => lease[h].identity \in Sources
  BY DEF GateInv, GateTypeOK, GateLease, Holds
<1>2. LeasesRecorded'
  BY <1>1 DEF GateInv, LeasesRecorded, Holds
<1>3. LeasesDistinct'
  BY DEF GateInv, LeasesDistinct, Holds
<1>4. EntriesExclusive'
  BY DEF GateInv, EntriesExclusive
<1>5. QED
  BY <1>2, <1>3, <1>4 DEF GateInv

\* A run entry and its lease are added together, to a worktree without a
\* mutation and under an operation id that has no entry (SourceGate::reserve).
LEMMA GateInvAddsRun ==
    ASSUME NEW h \in Holders, NEW s \in Sources, NEW op \in Operations,
           GateInv, GateTypeOK', ~Holds(h),
           lease' = [lease EXCEPT ![h] = RunLease(s, op)],
           gate[s].mutation = NoOperation, op \notin gate[s].runs,
           gate'[s].runs = gate[s].runs \union {op},
           \A t \in Sources : gate'[t].mutation = gate[t].mutation,
           \A t \in Sources : t # s => gate'[t].runs = gate[t].runs
    PROVE  GateInv'
<1> DEFINE new == RunLease(s, op)
<1>1. /\ new \in GateLease
      /\ new.identity = s /\ new.operation = op /\ ~new.mutation
  BY DEF RunLease, GateLease
<1>2. /\ lease[h] = NoLease
      /\ lease'[h] = new
      /\ \A k \in Holders : k # h => lease'[k] = lease[k]
  BY DEF Holds, GateInv, GateTypeOK
<1>5. \A k \in Holders : (Holds(k) => lease[k] \in GateLease)
  BY DEF GateInv, GateTypeOK, Holds
<1>6. \A k \in Holders : Holds(k) => lease[k] # new
  BY <1>1, <1>5 DEF GateInv, LeasesRecorded
<1>7. LeasesRecorded'
  <2> SUFFICES ASSUME NEW k \in Holders, Holds(k)'
               PROVE  IF lease'[k].mutation
                      THEN gate'[lease'[k].identity].mutation = lease'[k].operation
                      ELSE lease'[k].operation \in gate'[lease'[k].identity].runs
    BY DEF LeasesRecorded
  <2>1. CASE k = h
    BY <2>1, <1>1, <1>2
  <2>2. CASE k # h
    <3>1. Holds(k) /\ lease'[k] = lease[k] /\ lease[k].identity \in Sources
      BY <2>2, <1>2, <1>5 DEF Holds, GateLease
    <3>2. QED
      BY <3>1 DEF GateInv, LeasesRecorded
  <2>3. QED
    BY <2>1, <2>2
<1>8. LeasesDistinct'
  BY <1>2, <1>6 DEF GateInv, LeasesDistinct, Holds
<1>9. EntriesExclusive'
  BY DEF GateInv, EntriesExclusive
<1>10. QED
  BY <1>7, <1>8, <1>9 DEF GateInv

LEMMA GateInvReserveRun ==
    ASSUME NEW h \in Holders, NEW s \in Sources, NEW op \in Operations,
           GateInv, GateTypeOK', ReserveRun(h, s, op)
    PROVE  GateInv'
<1>1. ~Holds(h) /\ lease' = [lease EXCEPT ![h] = RunLease(s, op)]
  BY DEF ReserveRun
<1>2. gate[s].mutation = NoOperation /\ op \notin gate[s].runs
  BY DEF ReserveRun, RunAdmitted
<1>3. /\ gate'[s].runs = gate[s].runs \union {op}
      /\ gate'[s].mutation = gate[s].mutation
      /\ \A t \in Sources : t # s => gate'[t] = gate[t]
  BY GateStateEffects DEF ReserveRun, GateInv, GateTypeOK
<1>4. QED
  BY <1>1, <1>2, <1>3, GateInvAddsRun

LEMMA GateInvReserveMutation ==
    ASSUME NEW h \in Holders, NEW s \in Sources, NEW op \in Operations,
           GateInv, GateTypeOK', ReserveMutation(h, s, op)
    PROVE  GateInv'
<1> DEFINE new == MutationLease(s, op)
<1>1. /\ new \in GateLease
      /\ new.identity = s /\ new.operation = op /\ new.mutation
  BY DEF MutationLease, GateLease
<1>2. /\ lease[h] = NoLease
      /\ lease'[h] = new
      /\ \A k \in Holders : k # h => lease'[k] = lease[k]
  BY DEF ReserveMutation, Holds, GateInv, GateTypeOK
<1>3. gate[s].mutation = NoOperation /\ gate[s].runs = {}
  BY DEF ReserveMutation, MutationAdmitted
<1>4. /\ gate'[s].runs = gate[s].runs
      /\ gate'[s].mutation = op
      /\ \A t \in Sources : t # s => gate'[t] = gate[t]
  BY GateStateEffects DEF ReserveMutation, GateInv, GateTypeOK
<1>5. \A k \in Holders : (Holds(k) => lease[k] \in GateLease)
  BY DEF GateInv, GateTypeOK, Holds
<1>6. \A k \in Holders : Holds(k) => lease[k].identity # s
  BY <1>3, <1>5 DEF GateInv, LeasesRecorded, GateLease
<1>7. LeasesRecorded'
  <2> SUFFICES ASSUME NEW k \in Holders, Holds(k)'
               PROVE  IF lease'[k].mutation
                      THEN gate'[lease'[k].identity].mutation = lease'[k].operation
                      ELSE lease'[k].operation \in gate'[lease'[k].identity].runs
    BY DEF LeasesRecorded
  <2>1. CASE k = h
    BY <2>1, <1>1, <1>2, <1>4
  <2>2. CASE k # h
    <3>1. Holds(k) /\ lease'[k] = lease[k] /\ lease[k].identity \in Sources \ {s}
      BY <2>2, <1>2, <1>5, <1>6 DEF Holds, GateLease
    <3>2. QED
      BY <3>1, <1>4 DEF GateInv, LeasesRecorded
  <2>3. QED
    BY <2>1, <2>2
<1>8. LeasesDistinct'
  BY <1>1, <1>2, <1>6 DEF GateInv, LeasesDistinct, Holds
<1>9. EntriesExclusive'
  BY <1>3, <1>4 DEF GateInv, EntriesExclusive
<1>10. QED
  BY <1>7, <1>8, <1>9 DEF GateInv

LEMMA GateInvDrop ==
    ASSUME NEW h \in Holders, GateInv, GateTypeOK', DropLease(h)
    PROVE  GateInv'
<1> DEFINE old == lease[h]
           s == old.identity
<1>1. old \in GateLease /\ s \in Sources /\ Holds(h)
  BY DEF DropLease, Holds, GateInv, GateTypeOK, GateLease
<1>2. /\ lease'[h] = NoLease
      /\ \A k \in Holders : k # h => lease'[k] = lease[k]
  BY DEF DropLease, GateInv, GateTypeOK
<1>3. /\ gate'[s] = Released(gate[s], old)
      /\ \A t \in Sources : t # s => gate'[t] = gate[t]
  BY <1>1 DEF DropLease, AfterDrop, GateInv, GateTypeOK
<1>4. gate[s] \in GateState
  BY <1>1 DEF GateInv, GateTypeOK
<1>5. \A k \in Holders : (Holds(k) => lease[k] \in GateLease)
  BY DEF GateInv, GateTypeOK, Holds
<1>6. IF old.mutation THEN gate[s].mutation = old.operation
                      ELSE old.operation \in gate[s].runs
  BY <1>1 DEF GateInv, LeasesRecorded
<1>7. LeasesRecorded'
  <2> SUFFICES ASSUME NEW k \in Holders, Holds(k)'
               PROVE  IF lease'[k].mutation
                      THEN gate'[lease'[k].identity].mutation = lease'[k].operation
                      ELSE lease'[k].operation \in gate'[lease'[k].identity].runs
    BY DEF LeasesRecorded
  <2>1. k # h /\ Holds(k) /\ lease'[k] = lease[k] /\ lease[k].identity \in Sources
    BY <1>2, <1>5 DEF Holds, GateLease
  <2>2. IF lease[k].mutation THEN gate[lease[k].identity].mutation = lease[k].operation
                             ELSE lease[k].operation \in gate[lease[k].identity].runs
    BY <2>1 DEF GateInv, LeasesRecorded
  <2>3. CASE lease[k].identity # s
    BY <2>1, <2>2, <2>3, <1>3
  <2>4. CASE lease[k].identity = s /\ lease[k].mutation
    <3>1. lease[k] # old
      BY <2>1, <1>1 DEF GateInv, LeasesDistinct
    <3>2. lease[k].operation # old.operation \/ ~old.mutation
      BY <3>1, <2>1, <2>4, <1>1, <1>5 DEF GateLease
    <3>3. gate'[s].mutation = gate[s].mutation
      BY <3>2, <2>2, <2>4, <1>1, <1>3, <1>4, GateStateEffects
    <3>4. QED
      BY <3>3, <2>1, <2>2, <2>4
  <2>5. CASE lease[k].identity = s /\ ~lease[k].mutation
    <3>1. lease[k] # old
      BY <2>1, <1>1 DEF GateInv, LeasesDistinct
    <3>2. lease[k].operation # old.operation \/ old.mutation
      BY <3>1, <2>1, <2>5, <1>1, <1>5 DEF GateLease
    <3>3. lease[k].operation \in gate'[s].runs
      <4>1. CASE old.mutation
        BY <4>1, <2>2, <2>5, <1>1, <1>3, <1>4, GateStateEffects
      <4>2. CASE ~old.mutation
        BY <4>2, <3>2, <2>2, <2>5, <1>1, <1>3, <1>4, GateStateEffects
      <4>3. QED
        BY <4>1, <4>2
    <3>4. QED
      BY <3>3, <2>1, <2>5
  <2>6. QED
    BY <2>3, <2>4, <2>5
<1>8. LeasesDistinct'
  BY <1>2 DEF GateInv, LeasesDistinct, Holds
<1>9. EntriesExclusive'
  <2> SUFFICES ASSUME NEW t \in Sources, gate'[t].mutation # NoOperation
               PROVE  gate'[t].runs = {}
    BY DEF EntriesExclusive
  <2>1. CASE t # s
    BY <2>1, <1>3 DEF GateInv, EntriesExclusive
  <2>2. CASE t = s /\ old.mutation
    BY <2>2, <1>1, <1>3, <1>4, <1>6, GateStateEffects
  <2>3. CASE t = s /\ ~old.mutation
    <3>1. gate[s].mutation # NoOperation
      BY <2>3, <1>1, <1>3, <1>4, GateStateEffects
    <3>2. QED
      BY <3>1, <2>3, <1>1, <1>6 DEF GateInv, EntriesExclusive
  <2>4. QED
    BY <2>1, <2>2, <2>3
<1>10. QED
  BY <1>7, <1>8, <1>9 DEF GateInv

LEMMA GateInvStep ==
    ASSUME GateInv, GateNext PROVE GateInv'
<1>1. GateTypeOK'
  BY GateTypeStep DEF GateInv
<1>2. ASSUME NEW s \in Sources, NEW id \in BlockIds, Block(s, id) \/ Unblock(s, id)
      PROVE  GateInv'
  <2>1. /\ UNCHANGED lease
        /\ \A t \in Sources : /\ gate'[t].runs = gate[t].runs
                              /\ gate'[t].mutation = gate[t].mutation
    BY <1>2, GateStateEffects DEF Block, Unblock, GateInv, GateTypeOK
  <2>2. QED
    BY <1>1, <2>1, GateInvBookkeeping
<1>3. ASSUME NEW s \in Sources, ProviderReady(s) \/ ProviderUnavailable(s)
      PROVE  GateInv'
  <2>1. /\ UNCHANGED lease
        /\ \A t \in Sources : /\ gate'[t].runs = gate[t].runs
                              /\ gate'[t].mutation = gate[t].mutation
    <3>1. PICK up \in BOOLEAN : gate' = [gate EXCEPT ![s] = WithProvider(@, up)]
      BY <1>3 DEF ProviderReady, ProviderUnavailable
    <3>2. QED
      BY <1>3, <3>1, GateStateEffects
         DEF ProviderReady, ProviderUnavailable, GateInv, GateTypeOK
  <2>2. QED
    BY <1>1, <2>1, GateInvBookkeeping
<1>4. QED
  BY <1>1, <1>2, <1>3, GateInvReserveRun, GateInvReserveMutation, GateInvDrop DEF GateNext

(***************************************************************************)
(* Type correctness: the gate and the leases always have the shape of      *)
(* GateState and GateLease, for every set of callers.                      *)
(***************************************************************************)
THEOREM GateTypeCorrect == GateSpec => []GateTypeOK
<1>1. GateInit => GateTypeOK
  BY DEF GateInit, GateTypeOK, GateState, DefaultGate
<1>2. GateTypeOK /\ [GateNext]_gateVars => GateTypeOK'
  BY GateTypeStep DEF gateVars, GateTypeOK
<1>3. QED
  BY <1>1, <1>2, PTL DEF GateSpec

(***************************************************************************)
(* A held lease is always recorded in the gate, whatever the other callers *)
(* of reserve, block, ready and GateLease::drop do.                        *)
(***************************************************************************)
THEOREM GateInvariance == GateSpec => []GateInv
<1>1. GateInv /\ [GateNext]_gateVars => GateInv'
  <2>1. ASSUME GateInv, UNCHANGED gateVars PROVE GateInv'
    BY <2>1 DEF gateVars, GateInv, GateTypeOK, LeasesRecorded, LeasesDistinct,
                EntriesExclusive, Holds
  <2>2. QED
    BY <2>1, GateInvStep
<1>2. QED
  BY <1>1, GateInvInit, PTL DEF GateSpec

\* Every lease that is held is in the entry of its worktree, of which there is
\* one (SourceGate::reserve, GateLease::drop).
THEOREM LeasesAlwaysRecorded == GateSpec => []LeasesRecorded
<1>1. GateInv => LeasesRecorded
  BY DEF GateInv
<1>2. QED
  BY <1>1, GateInvariance, PTL

(***************************************************************************)
(* A mutation lease never coexists with another lease of its worktree      *)
(* (SourceGate::reserve).                                                  *)
(***************************************************************************)
LEMMA GateInvExcludes == GateInv => LeaseExclusion
<1> SUFFICES ASSUME GateInv, NEW h \in Holders, NEW k \in Holders,
                    Holds(h), Holds(k), h # k, lease[h].identity = lease[k].identity,
                    lease[h].mutation
             PROVE  FALSE
  BY DEF LeaseExclusion
<1> DEFINE s == lease[h].identity
<1>1. lease[h] \in GateLease /\ lease[k] \in GateLease /\ s \in Sources
  BY DEF GateInv, GateTypeOK, Holds, GateLease
<1>2. gate[s].mutation = lease[h].operation /\ gate[s].mutation # NoOperation
  BY <1>1 DEF GateInv, LeasesRecorded, GateLease
<1>3. gate[s].runs = {}
  BY <1>1, <1>2 DEF GateInv, EntriesExclusive
<1>4. lease[k].mutation /\ gate[s].mutation = lease[k].operation
  BY <1>3 DEF GateInv, LeasesRecorded
<1>5. lease[h] = lease[k]
  <2>1. lease[h].mutation = lease[k].mutation
    BY <1>1, <1>4, Zenon DEF GateLease
  <2>2. lease[h].operation = lease[k].operation
    BY <1>2, <1>4
  <2>3. \A a, b \in GateLease :
          (a.identity = b.identity /\ a.operation = b.operation /\ a.mutation = b.mutation)
              => a = b
    BY DEF GateLease
  <2>4. QED
    BY <1>1, <2>1, <2>2, <2>3
<1>6. QED
  BY <1>5 DEF GateInv, LeasesDistinct

\* A mutation of a worktree holds its lease alone (SourceGate::reserve).
THEOREM LeaseExclusionHolds == GateSpec => []LeaseExclusion
BY GateInvariance, GateInvExcludes, PTL

\* Only the release of the recorded mutation moves the generation.
LEMMA GenerationEffects ==
    ASSUME NEW state \in GateState
    PROVE  /\ \A id \in BlockIds :
                 /\ WithBlock(state, id).generation = state.generation
                 /\ WithoutBlock(state, id).generation = state.generation
           /\ \A up \in BOOLEAN : WithProvider(state, up).generation = state.generation
           /\ \A op \in Operations :
                 /\ WithRun(state, op).generation = state.generation
                 /\ WithMutation(state, op).generation = state.generation
           /\ \A l \in GateLease :
                 /\ ~l.mutation => Released(state, l).generation = state.generation
                 /\ (l.mutation /\ state.mutation = l.operation)
                        => Released(state, l).generation > state.generation
<1>1. state.generation \in Nat
  BY DEF GateState
<1>2. \A l \in GateLease : ~l.mutation => Released(state, l).generation = state.generation
  BY DEF GateState, Released
<1>3. ASSUME NEW l \in GateLease, l.mutation, state.mutation = l.operation
      PROVE  Released(state, l).generation > state.generation
  <2>1. Released(state, l).generation = state.generation + 1
    BY <1>3 DEF GateState, Released
  <2>2. QED
    BY <1>1, <2>1
<1>4. QED
  BY <1>2, <1>3 DEF GateState, WithBlock, WithoutBlock, WithProvider, WithRun, WithMutation

\* What one step may do to the generation of a worktree in use.
GenerationMoves ==
    \A h \in Holders : Holds(h) =>
       LET s == lease[h].identity IN
       /\ (~lease[h].mutation /\ lease'[h] = lease[h])
              => gate'[s].generation = gate[s].generation
       /\ (lease[h].mutation /\ lease'[h] # lease[h])
              => gate'[s].generation > gate[s].generation

LEMMA GenerationStep ==
    ASSUME GateInv, GateNext PROVE GenerationMoves
<1>0. \A h \in Holders : Holds(h) => lease[h] \in GateLease /\ lease[h].identity \in Sources
  BY DEF GateInv, GateTypeOK, Holds, GateLease
<1>t. \A s \in Sources : gate[s] \in GateState
  BY DEF GateInv, GateTypeOK
<1>a. ASSUME \A s \in Sources : gate'[s].generation = gate[s].generation,
             \A h \in Holders : Holds(h) => lease'[h] = lease[h]
      PROVE  GenerationMoves
  BY <1>0, <1>a DEF GenerationMoves
<1>1. ASSUME NEW s \in Sources, NEW id \in BlockIds, Block(s, id) \/ Unblock(s, id)
      PROVE  GenerationMoves
  BY <1>1, <1>a, <1>t, GenerationEffects DEF Block, Unblock, GateInv, GateTypeOK
<1>2. ASSUME NEW s \in Sources, ProviderReady(s) \/ ProviderUnavailable(s)
      PROVE  GenerationMoves
  <2>1. PICK up \in BOOLEAN : gate' = [gate EXCEPT ![s] = WithProvider(gate[s], up)] /\ lease' = lease
    BY <1>2 DEF ProviderReady, ProviderUnavailable
  <2>2. WithProvider(gate[s], up).generation = gate[s].generation
    BY <1>t, GenerationEffects
  <2>3. \A t \in Sources : gate'[t].generation = gate[t].generation
    BY <2>1, <2>2 DEF GateInv, GateTypeOK
  <2> QED BY <1>a, <2>1, <2>3
<1>3. ASSUME NEW h \in Holders, NEW s \in Sources, NEW op \in Operations,
             ReserveRun(h, s, op) \/ ReserveMutation(h, s, op)
      PROVE  GenerationMoves
  <2>1. \A k \in Holders : Holds(k) => lease'[k] = lease[k]
    BY <1>3 DEF ReserveRun, ReserveMutation, GateInv, GateTypeOK, Holds
  <2>2. \A t \in Sources : gate'[t].generation = gate[t].generation
    BY <1>3, <1>t, GenerationEffects DEF ReserveRun, ReserveMutation, GateInv, GateTypeOK
  <2>3. QED
    BY <1>a, <2>1, <2>2
<1>4. ASSUME NEW k \in Holders, DropLease(k) PROVE GenerationMoves
  <2> DEFINE old == lease[k]
  <2>1. Holds(k) /\ old \in GateLease /\ old.identity \in Sources
    BY <1>0, <1>4 DEF DropLease
  <2>2. /\ gate'[old.identity] = Released(gate[old.identity], old)
        /\ \A t \in Sources : t # old.identity => gate'[t] = gate[t]
        /\ \A h \in Holders : h # k => lease'[h] = lease[h]
    BY <1>4, <2>1 DEF DropLease, AfterDrop, GateInv, GateTypeOK
  <2>3. old.mutation => gate[old.identity].mutation = old.operation
    BY <2>1 DEF GateInv, LeasesRecorded
  <2> SUFFICES ASSUME NEW h \in Holders, Holds(h)
               PROVE  /\ (~lease[h].mutation /\ lease'[h] = lease[h])
                            => gate'[lease[h].identity].generation
                                  = gate[lease[h].identity].generation
                      /\ (lease[h].mutation /\ lease'[h] # lease[h])
                            => gate'[lease[h].identity].generation
                                  > gate[lease[h].identity].generation
    BY DEF GenerationMoves
  <2>4. ASSUME ~lease[h].mutation
        PROVE  gate'[lease[h].identity].generation = gate[lease[h].identity].generation
    <3>1. CASE lease[h].identity # old.identity
      BY <1>0, <2>2, <3>1
    <3>2. CASE lease[h].identity = old.identity /\ ~old.mutation
      BY <1>t, <2>1, <2>2, <3>2, GenerationEffects
    <3>3. CASE lease[h].identity = old.identity /\ old.mutation
      <4>1. lease[h].operation \in gate[old.identity].runs
        BY <2>4, <3>3 DEF GateInv, LeasesRecorded
      <4>2. gate[old.identity].mutation # NoOperation
        BY <2>1, <2>3, <3>3 DEF GateLease
      <4>3. QED
        BY <2>1, <4>1, <4>2 DEF GateInv, EntriesExclusive
    <3>4. QED
      BY <3>1, <3>2, <3>3
  <2>5. ASSUME lease[h].mutation, lease'[h] # lease[h]
        PROVE  gate'[lease[h].identity].generation > gate[lease[h].identity].generation
    BY <1>t, <2>1, <2>2, <2>3, <2>5, GenerationEffects
  <2>6. QED
    BY <2>4, <2>5
<1>5. QED
  BY <1>1, <1>2, <1>3, <1>4 DEF GateNext

(***************************************************************************)
(* A run sees the generation of its worktree stand still, and every        *)
(* mutation that ends moves it: what observe_source compares at the start  *)
(* and at the end of a run (SourceGate::generation, GateLease::drop).      *)
(***************************************************************************)
THEOREM GenerationWitnesses == GateSpec => GenerationWitnessesMutation
<1>1. GateInv /\ [GateNext]_gateVars => [GenerationMoves]_gateVars
  BY GenerationStep
<1>2. QED
  BY <1>1, GateInvariance, PTL DEF GateSpec, GenerationWitnessesMutation, GenerationMoves
-----------------------------------------------------------------------------
(* The gate implements the source-use contract. *)

LEMMA UseInitially == GateInit => Use!UseInit
BY DEF GateInit, Use!UseInit, RunHolders, MutationHolders, Holds

\* A reservation of h adds h to its own side of its own worktree.
LEMMA HoldersAfterReserve ==
    ASSUME NEW h \in Holders, NEW l \in GateLease, GateTypeOK,
           lease[h] = NoLease, lease' = [lease EXCEPT ![h] = l]
    PROVE  \A t \in Sources :
              /\ RunHolders(t)' = RunHolders(t)
                     \union (IF t = l.identity /\ ~l.mutation THEN {h} ELSE {})
              /\ MutationHolders(t)' = MutationHolders(t)
                     \union (IF t = l.identity /\ l.mutation THEN {h} ELSE {})
<1>1. l # NoLease
  BY DEF GateLease
<1>2. lease'[h] = l /\ \A k \in Holders : k # h => lease'[k] = lease[k]
  BY DEF GateTypeOK
<1>3. QED
  BY <1>1, <1>2 DEF RunHolders, MutationHolders, Holds

\* A worktree without a recorded mutation, or run, has no holder of that side.
LEMMA HoldersRecorded ==
    ASSUME GateInv, NEW s \in Sources
    PROVE  /\ gate[s].mutation = NoOperation => MutationHolders(s) = {}
           /\ gate[s].runs = {} => RunHolders(s) = {}
<1>1. \A k \in Holders : Holds(k) => lease[k] \in GateLease
  BY DEF GateInv, GateTypeOK, Holds
<1>2. QED
  BY <1>1 DEF GateInv, LeasesRecorded, RunHolders, MutationHolders, GateLease

LEMMA UseStep ==
    ASSUME GateInv, GateNext PROVE [Use!UseNext]_(Use!useVars)
<1> USE DEF Use!useVars
<1>1. ASSUME UNCHANGED lease PROVE UNCHANGED Use!useVars
  BY <1>1 DEF RunHolders, MutationHolders, Holds
<1>2. ASSUME NEW h \in Holders, NEW s \in Sources, NEW op \in Operations, ReserveRun(h, s, op)
      PROVE  Use!BeginRun(s, h)
  <2>1. /\ RunLease(s, op) \in GateLease
        /\ RunLease(s, op).identity = s /\ ~RunLease(s, op).mutation
    BY DEF RunLease, GateLease
  <2>2. lease[h] = NoLease /\ lease' = [lease EXCEPT ![h] = RunLease(s, op)]
    BY <1>2 DEF ReserveRun, Holds
  <2>3. \A t \in Sources : /\ RunHolders(t)' = RunHolders(t) \union (IF t = s THEN {h} ELSE {})
                           /\ MutationHolders(t)' = MutationHolders(t)
    <3> DEFINE l == RunLease(s, op)
    <3>1. l \in GateLease /\ l.identity = s /\ ~l.mutation
      BY <2>1
    <3>2. GateTypeOK /\ lease[h] = NoLease /\ lease' = [lease EXCEPT ![h] = l]
      BY <2>2 DEF GateInv
    <3> HIDE DEF l, Use!useVars
    <3>3. \A t \in Sources :
             /\ RunHolders(t)' = RunHolders(t)
                    \union (IF t = l.identity /\ ~l.mutation THEN {h} ELSE {})
             /\ MutationHolders(t)' = MutationHolders(t)
                    \union (IF t = l.identity /\ l.mutation THEN {h} ELSE {})
      BY <3>1, <3>2, HoldersAfterReserve
    <3>4. \A t \in Sources : /\ (t = l.identity /\ ~l.mutation) = (t = s)
                             /\ (t = l.identity /\ l.mutation) = FALSE
      BY <3>1
    <3>5. QED
      BY <3>3, <3>4
  <2>4. MutationHolders(s) = {}
    BY <1>2, HoldersRecorded DEF ReserveRun, RunAdmitted
  <2>5. QED
    BY <2>3, <2>4 DEF Use!BeginRun
<1>3. ASSUME NEW h \in Holders, NEW s \in Sources, NEW op \in Operations, ReserveMutation(h, s, op)
      PROVE  Use!BeginMutation(s, h)
  <2>1. /\ MutationLease(s, op) \in GateLease
        /\ MutationLease(s, op).identity = s /\ MutationLease(s, op).mutation
    BY DEF MutationLease, GateLease
  <2>2. lease[h] = NoLease /\ lease' = [lease EXCEPT ![h] = MutationLease(s, op)]
    BY <1>3 DEF ReserveMutation, Holds
  <2>3. \A t \in Sources : /\ RunHolders(t)' = RunHolders(t)
                           /\ MutationHolders(t)' =
                                 MutationHolders(t) \union (IF t = s THEN {h} ELSE {})
    <3> DEFINE l == MutationLease(s, op)
    <3>1. l \in GateLease /\ l.identity = s /\ l.mutation
      BY <2>1
    <3>2. GateTypeOK /\ lease[h] = NoLease /\ lease' = [lease EXCEPT ![h] = l]
      BY <2>2 DEF GateInv
    <3> HIDE DEF l, Use!useVars
    <3>3. \A t \in Sources :
             /\ RunHolders(t)' = RunHolders(t)
                    \union (IF t = l.identity /\ ~l.mutation THEN {h} ELSE {})
             /\ MutationHolders(t)' = MutationHolders(t)
                    \union (IF t = l.identity /\ l.mutation THEN {h} ELSE {})
      BY <3>1, <3>2, HoldersAfterReserve
    <3>4. \A t \in Sources :
             (IF t = l.identity /\ ~l.mutation THEN {h} ELSE {}) = {}
      BY <3>1
    <3>5. \A t \in Sources :
             (IF t = l.identity /\ l.mutation THEN {h} ELSE {}) = (IF t = s THEN {h} ELSE {})
      BY <3>1
    <3> TAKE t \in Sources
    <3>6. RunHolders(t)' = RunHolders(t) \union {}
      BY <3>3, <3>4, Zenon
    <3>7. MutationHolders(t)' = MutationHolders(t) \union (IF t = s THEN {h} ELSE {})
      BY <3>3, <3>5, Zenon
    <3>8. QED
      BY <3>6, <3>7
  <2>4. MutationHolders(s) = {} /\ RunHolders(s) = {}
    BY <1>3, HoldersRecorded DEF ReserveMutation, MutationAdmitted
  <2>5. QED
    BY <2>3, <2>4 DEF Use!BeginMutation
<1>4. ASSUME NEW h \in Holders, DropLease(h) PROVE Use!End({h})
  <2>1. lease'[h] = NoLease /\ \A k \in Holders : k # h => lease'[k] = lease[k]
    BY <1>4 DEF DropLease, GateInv, GateTypeOK
  <2>2. \A t \in Sources : /\ RunHolders(t)' = RunHolders(t) \ {h}
                           /\ MutationHolders(t)' = MutationHolders(t) \ {h}
    BY <2>1 DEF RunHolders, MutationHolders, Holds
  <2>3. QED
    BY <2>2 DEF Use!End
<1>5. ASSUME NEW s \in Sources, NEW id \in BlockIds, Block(s, id) \/ Unblock(s, id)
      PROVE  UNCHANGED lease
  BY <1>5 DEF Block, Unblock
<1>6. ASSUME NEW s \in Sources, ProviderReady(s) \/ ProviderUnavailable(s)
      PROVE  UNCHANGED lease
  BY <1>6 DEF ProviderReady, ProviderUnavailable
<1>7. QED
  BY <1>1, <1>2, <1>3, <1>4, <1>5, <1>6 DEF GateNext, Use!UseNext

(***************************************************************************)
(* The gate implements SourceUse: its leases are readers and writers of    *)
(* each worktree under the exclusion the contract states.                  *)
(***************************************************************************)
THEOREM GateRefinesUse == GateSpec => GateImplementsUse
<1>1. GateInv /\ [GateNext]_gateVars => [Use!UseNext]_(Use!useVars)
  <2>1. ASSUME UNCHANGED gateVars PROVE UNCHANGED Use!useVars
    BY <2>1 DEF gateVars, Use!useVars, RunHolders, MutationHolders, Holds
  <2>2. QED
    BY <2>1, UseStep
<1>2. QED
  BY <1>1, UseInitially, GateInvariance, PTL DEF GateSpec, GateImplementsUse, Use!UseSpec

HIDE GateAssumption
-----------------------------------------------------------------------------
(***************************************************************************)
(* The types of RunRegistry and DurableCover, for all runs, tasks and      *)
(* worktrees.  DurableCover alone is not inductive: a save writes the whole *)
(* memory over the ledger, so while the registry is open the memory must   *)
(* cover the processes as well (MemoryCover); a record that may be rotated *)
(* or given an outcome must have no process (EntriesSound); and the step   *)
(* between the durable record and the process must find the two equal      *)
(* (StartSound).  A restart turns live records into unknown ones, which    *)
(* covers a process only if no live record counts as cleaned up.           *)
(***************************************************************************)

\* A set of records that covers the processes, in memory or in runs.json.
Covers(book) ==
    \A r \in RunIds : child[r] # NoTask =>
        book[r] # NoRun /\ book[r].task = child[r] /\ ~Final(book[r])

LiveUncleaned(book) ==
    \A r \in RunIds : (book[r] # NoRun /\ Live(book[r])) => ~book[r].cleanup_confirmed

MemoryCover == Covers(runs)

EntriesSound ==
    \A r \in RunIds :
        /\ pending[r] # NoTicket => child[r] = NoTask
        /\ active[r] \in {"owned", "finishing"} => runs[r] # NoRun
        /\ active[r] = "finishing" => child[r] = NoTask

StartSound ==
    \A r \in RunIds :
        /\ \A step \in {"begun", "spawned", "failed"} : At(r, step) =>
              runs[r] # NoRun /\ active[r] = "owned" /\ pending[r] = NoTicket
        /\ At(r, "begun") \/ At(r, "spawned") => Live(runs[r])
        /\ At(r, "begun") \/ At(r, "failed") => child[r] = NoTask
        /\ At(r, "begun") => ledger[r] = runs[r]

\* A host begins with an empty memory.
NothingKept ==
    /\ starting = NoRun /\ published = {}
    /\ \A r \in RunIds : pending[r] = NoTicket /\ active[r] = "none"
-----------------------------------------------------------------------------
(* What the operators on records do.                                       *)

\* The updates of one record keep its task and its type, and each gives the
\* state that the properties look at (mark_running, cancel, finish_observed,
\* acknowledge_unknown_cleanup, open).
LEMMA RecordUpdates ==
    ASSUME NEW run \in RunRecord
    PROVE  /\ Marked(run) \in RunRecord /\ Marked(run).task = run.task
           /\ Live(Marked(run))
           /\ Marked(run).cleanup_confirmed = run.cleanup_confirmed
           /\ Cancelled(run) \in RunRecord /\ Cancelled(run).task = run.task
           /\ Live(Cancelled(run))
           /\ Cancelled(run).cleanup_confirmed = run.cleanup_confirmed
           /\ Acknowledged(run) \in RunRecord /\ Acknowledged(run).task = run.task
           /\ Acknowledged(run).state = run.state
           /\ Interrupted(run) \in RunRecord /\ Interrupted(run).task = run.task
           /\ ~Live(Interrupted(run))
           /\ Interrupted(run).state = "Unknown"
           /\ Interrupted(run).cleanup_confirmed = run.cleanup_confirmed
BY DEF RunRecord, RunState, LiveState, Live, Marked, Cancelled, Acknowledged, Interrupted

\* An end is recorded with an outcome and as cleaned up (finish_observed).
LEMMA RecordEnds ==
    ASSUME NEW run \in RunRecord, NEW outcome \in RunState \ LiveState
    PROVE  /\ Ended(run, outcome) \in RunRecord
           /\ ~Live(Ended(run, outcome))
BY DEF RunRecord, RunState, LiveState, Live, Ended

\* Replacing one record by one that covers its process keeps a book sound.
LEMMA BookUpdate ==
    ASSUME NEW book \in [RunIds -> RunRecord \union {NoRun}], NEW r \in RunIds,
           NEW run \in RunRecord, LiveUncleaned(book),
           Live(run) => ~run.cleanup_confirmed
    PROVE  /\ [book EXCEPT ![r] = run] \in [RunIds -> RunRecord \union {NoRun}]
           /\ LiveUncleaned([book EXCEPT ![r] = run])
           /\ Covers(book) /\ (child[r] # NoTask => run.task = child[r] /\ ~Final(run))
                 => Covers([book EXCEPT ![r] = run])
<1>1. run # NoRun
  BY SentinelAssumption
<1> QED BY <1>1 DEF LiveUncleaned, Covers

\* Removing records that cover nothing keeps a book sound.
LEMMA BookWithout ==
    ASSUME NEW book \in [RunIds -> RunRecord \union {NoRun}], NEW gone \in SUBSET RunIds,
           LiveUncleaned(book)
    PROVE  /\ Without(book, gone) \in [RunIds -> RunRecord \union {NoRun}]
           /\ LiveUncleaned(Without(book, gone))
           /\ Covers(book) /\ (\A r \in gone : child[r] = NoTask)
                 => Covers(Without(book, gone))
BY DEF Without, LiveUncleaned, Covers

\* A write that succeeds, fails, or fails after becoming visible leaves sound
\* content when the old and the attempted content are sound (write_state).
LEMMA SaveSound ==
    ASSUME NEW attempt, NEW ok \in BOOLEAN, Save(attempt, ok), UNCHANGED child,
           ledger \in [RunIds -> RunRecord \union {NoRun}],
           attempt \in [RunIds -> RunRecord \union {NoRun}],
           LiveUncleaned(ledger), LiveUncleaned(attempt),
           Covers(ledger), Covers(attempt)
    PROVE  /\ ledger' \in [RunIds -> RunRecord \union {NoRun}]
           /\ LiveUncleaned(ledger)' /\ Covers(ledger)'
           /\ ok => ledger' = attempt
<1>1. ledger' \in {ledger, attempt}
  BY DEF Save
<1>2. CASE ledger' = ledger
  BY <1>2 DEF LiveUncleaned, Covers, Save
<1>3. CASE ledger' = attempt
  BY <1>3 DEF LiveUncleaned, Covers, Save
<1> QED BY <1>1, <1>2, <1>3
-----------------------------------------------------------------------------
(* The gate keeps its type.                                                *)

\* Opening every worktree or one of them (publish_source, RunRegistry::open).
LEMMA ProviderType ==
    ASSUME GateTypeOK, NEW up \in BOOLEAN
    PROVE  /\ \A s \in Sources : WithProvider(gate[s], up) \in GateState
           /\ [s \in Sources |-> WithProvider(gate[s], up)] \in [Sources -> GateState]
           /\ \A s \in Sources : ReadyFor(gate, s) \in [Sources -> GateState]
<1>1. \A s \in Sources : WithProvider(gate[s], up) \in GateState
  BY GateStateClosed DEF GateTypeOK
<1>2. \A s \in Sources : WithProvider(gate[s], TRUE) \in GateState
  BY GateStateClosed DEF GateTypeOK
<1> QED BY <1>1, <1>2 DEF GateTypeOK, ReadyFor

\* Dropping the lease of one holder (GateLease::drop).
LEMMA DropOneType ==
    ASSUME GateTypeOK, NEW h \in Holders, DropOne(h)
    PROVE  GateTypeOK'
<1>1. lease' \in [Holders -> GateLease \union {NoLease}]
  BY DEF DropOne, GateTypeOK
<1>2. CASE Holds(h)
  <2>1. lease[h] \in GateLease
    BY <1>2 DEF Holds, GateTypeOK
  <2>2. lease[h].identity \in Sources
    BY <2>1 DEF GateLease
  <2>3. Released(gate[lease[h].identity], lease[h]) \in GateState
    BY <2>1, <2>2, GateStateClosed DEF GateTypeOK
  <2>4. gate' = [gate EXCEPT ![lease[h].identity]
                    = Released(gate[lease[h].identity], lease[h])]
    BY <1>2, <2>2 DEF DropOne, AfterDrop, GateTypeOK
  <2> QED BY <1>1, <2>2, <2>3, <2>4 DEF GateTypeOK
<1>3. CASE ~Holds(h)
  BY <1>1, <1>3 DEF DropOne, GateTypeOK
<1> QED BY <1>2, <1>3

\* Dropping the leases of all tickets or Active entries (Drop for RunRegistry).
LEMMA DropRunsType ==
    ASSUME GateTypeOK, NEW hs, DropRuns(hs)
    PROVE  GateTypeOK'
<1>1. lease' \in [Holders -> GateLease \union {NoLease}]
  BY DEF DropRuns, GateTypeOK
<1>2. ASSUME NEW s \in Sources, NEW removed
      PROVE  [gate[s] EXCEPT !.runs = @ \ removed] \in GateState
  <2>1. gate[s] \in GateState
    BY DEF GateTypeOK
  <2> QED BY <2>1 DEF GateState
<1>3. gate' \in [Sources -> GateState]
  BY <1>2 DEF DropRuns
<1> QED BY <1>1, <1>3 DEF GateTypeOK

\* The mutations of other users of the gate (git/service.rs).
LEMMA GateUsersType ==
    ASSUME GateTypeOK, GateUsers PROVE GateTypeOK'
<1>1. ASSUME NEW h \in Holders, NEW s \in Sources, NEW op \in Operations,
             ReserveMutation(h, s, op)
      PROVE  GateTypeOK'
  BY <1>1, GateTypeStep DEF GateNext
<1>2. ASSUME NEW h \in Holders, DropLease(h) PROVE GateTypeOK'
  BY <1>2, GateTypeStep DEF GateNext
<1> QED BY <1>1, <1>2 DEF GateUsers

\* Every step of the registry and of the Git side keeps the type of the gate.
LEMMA GateTypeKept ==
    ASSUME RegistryTypeOK, RegistryNext PROVE GateTypeOK'
<1> USE RegistryAssumption
<1>0. GateTypeOK
  BY DEF RegistryTypeOK
<1>a. UNCHANGED gateVars => GateTypeOK'
  BY <1>0 DEF gateVars, GateTypeOK
<1>b. ASSUME NEW r \in RunIds, DropOne(r) PROVE GateTypeOK'
  BY <1>0, <1>b, DropOneType
<1>c. ASSUME NEW s \in Sources, gate' = ReadyFor(gate, s), UNCHANGED lease
      PROVE  GateTypeOK'
  BY <1>0, <1>c, ProviderType DEF GateTypeOK
<1>d. ASSUME UNCHANGED gate, UNCHANGED lease PROVE GateTypeOK'
  BY <1>0, <1>d DEF GateTypeOK
<1>1. ASSUME NEW op \in RunOperations, NEW t \in Tasks, NEW parallel \in BOOLEAN,
             NEW gone \in SUBSET RunIds, NEW r \in RunIds,
             BeginReserve(r, op, t, parallel, gone)
      PROVE  GateTypeOK'
  <2>1. CASE SourceOf[t] = NoSource
    BY <1>1, <2>1, <1>a DEF BeginReserve
  <2>2. CASE SourceOf[t] # NoSource
    <3> DEFINE s == SourceOf[t]
    <3>1. s \in Sources /\ op \in Operations /\ r \in Holders
      BY <2>2
    <3>2. ReadyFor(gate, s) \in [Sources -> GateState]
      BY <1>0, <3>1, ProviderType
    <3>3. WithRun(ReadyFor(gate, s)[s], op) \in GateState
      BY <3>1, <3>2, GateStateClosed
    <3>4. gate' = [ReadyFor(gate, s) EXCEPT ![s] = WithRun(ReadyFor(gate, s)[s], op)]
      BY <1>1, <2>2, <3>1, <3>2 DEF BeginReserve
    <3>5. RunLease(s, op) \in GateLease
      BY <3>1 DEF RunLease, GateLease
    <3>6. lease' \in [Holders -> GateLease \union {NoLease}]
      BY <1>0, <1>1, <2>2, <3>5 DEF BeginReserve, GateTypeOK
    <3> QED BY <3>1, <3>2, <3>3, <3>4, <3>6 DEF GateTypeOK
  <2> QED BY <2>1, <2>2
<1>2. ASSUME NEW op \in RunOperations, NEW t \in Tasks, NEW parallel \in BOOLEAN,
             NEW gone \in SUBSET RunIds, BeginRefused(op, t, parallel, gone)
      PROVE  GateTypeOK'
  BY <1>2, <1>c, <1>d DEF BeginRefused
<1>3. ASSUME NEW r \in RunIds, NEW ok \in BOOLEAN, NEW book, Finalize(r, book, ok)
      PROVE  GateTypeOK'
  BY <1>3, <1>a, <1>b DEF Finalize
<1>4. ASSUME NEW r \in RunIds, NEW ok \in BOOLEAN,
             BeginCommit(r, ok) \/ FinishObserved(r, ok) \/ FinishUnspawned(r, ok)
      PROVE  GateTypeOK'
  <2>1. CASE BeginCommit(r, ok)
    BY <2>1, <1>a, <1>b DEF BeginCommit
  <2>2. CASE FinishObserved(r, ok)
    BY <2>2, <1>3 DEF FinishObserved
  <2>3. CASE FinishUnspawned(r, ok)
    BY <2>3, <1>3 DEF FinishUnspawned
  <2> QED BY <1>4, <2>1, <2>2, <2>3
<1>5. ASSUME NEW r \in RunIds, NEW ok \in BOOLEAN, Reconcile(r, ok)
      PROVE  GateTypeOK'
  <2>1. SourceOf[runs[r].task] # NoSource => SourceOf[runs[r].task] \in Sources
    <3>1. runs[r] \in RunRecord
      BY <1>5 DEF Reconcile, RegistryTypeOK
    <3> QED BY <3>1 DEF RunRecord
  <2> QED BY <1>5, <1>c, <1>d, <2>1 DEF Reconcile
<1>6. ASSUME NEW s \in Sources, PublishSource(s) PROVE GateTypeOK'
  BY <1>6, <1>c DEF PublishSource
<1>7. ASSUME NEW gone \in SUBSET RunIds, NEW ok \in BOOLEAN, Open(gone, ok)
      PROVE  GateTypeOK'
  BY <1>0, <1>7, ProviderType DEF Open, GateTypeOK
<1>8. CASE CloseSources
  <2>1. \A s \in Sources : gate'[s] \in GateState
    BY <1>0, <1>8, ProviderType DEF CloseSources, GateTypeOK
  <2> QED BY <1>0, <1>8, <2>1 DEF CloseSources, GateTypeOK
<1>9. CASE WorkerEnds \/ DropActive
  BY <1>0, <1>9, DropRunsType DEF WorkerEnds, DropActive
<1>10. CASE Crash
  BY <1>10 DEF Crash, GateTypeOK, GateState, DefaultGate
<1>11. CASE GateUsers
  BY <1>0, <1>11, GateUsersType
<1>12. ASSUME NEW r \in RunIds, BeginAbandon(r) PROVE GateTypeOK'
  BY <1>12, <1>b DEF BeginAbandon
<1>13. ASSUME NEW r \in RunIds, NEW ok \in BOOLEAN,
              \/ SpawnProcess(r) \/ FinishProbe(r) \/ ChildExits(r)
              \/ MarkRunning(r, ok) \/ Cancel(r, ok)
              \/ \E cancelled \in BOOLEAN : PreparationFails(r, cancelled, ok)
              \/ \E op \in RunOperations, t \in Tasks, parallel \in BOOLEAN :
                    HistoryCutFails(op, t, parallel, r)
       PROVE  GateTypeOK'
  BY <1>13, <1>a DEF SpawnProcess, FinishProbe, ChildExits, MarkRunning, Cancel,
                     PreparationFails, HistoryCutFails
<1>14. CASE BeginStep
  BY <1>1, <1>2, <1>13, <1>14 DEF BeginStep
<1>15. CASE WorkerStep
  BY <1>4, <1>5, <1>6, <1>8, <1>9, <1>12, <1>13, <1>15 DEF WorkerStep
<1>16. CASE HostStep
  BY <1>7, <1>10, <1>13, <1>16 DEF HostStep
<1> QED
  BY <1>11, <1>14, <1>15, <1>16 DEF RegistryNext
-----------------------------------------------------------------------------
(* The records, the ledger and the processes.                              *)

\* The part of the types that is not the gate's.
RecordsTypeOK ==
    /\ runs \in [RunIds -> RunRecord \union {NoRun}]
    /\ ledger \in [RunIds -> RunRecord \union {NoRun}]
    /\ pending \in [RunIds -> Ticket \union {NoTicket}]
    /\ active \in [RunIds -> ActiveState]
    /\ published \in SUBSET Sources
    /\ starting \in StartStep \union {NoRun}
    /\ registry \in RegistryState
    /\ child \in [RunIds -> Tasks \union {NoTask}]

RecordsInv ==
    /\ RecordsTypeOK
    /\ Covers(ledger)
    /\ LiveUncleaned(ledger) /\ LiveUncleaned(runs)
    /\ registry = "open" => MemoryCover /\ EntriesSound /\ StartSound
    /\ registry = "down" => NothingKept

\* Cutting the history removes only records without a process, and no record
\* of a run that is in use (can_rotate, remove_history).
LEMMA HistoryCutSound ==
    ASSUME RecordsInv, registry = "open", UNCHANGED child,
           NEW gone \in SUBSET RunIds, HistoryCut(gone)
    PROVE  /\ runs' \in [RunIds -> RunRecord \union {NoRun}]
           /\ ledger' \in [RunIds -> RunRecord \union {NoRun}]
           /\ active' \in [RunIds -> ActiveState]
           /\ LiveUncleaned(ledger)' /\ LiveUncleaned(runs)'
           /\ Covers(ledger)' /\ Covers(runs)'
           /\ \A r \in RunIds : active'[r] \in {"owned", "finishing"}
                 => active'[r] = active[r] /\ runs'[r] = runs[r]
<1>1. \A r \in gone : child[r] = NoTask
  BY DEF HistoryCut, CanRotate, RecordsInv, MemoryCover, Covers, Final, Unresolved
<1>2. /\ runs' \in [RunIds -> RunRecord \union {NoRun}]
      /\ LiveUncleaned(Without(runs, gone)) /\ Covers(Without(runs, gone))
      /\ runs' = Without(runs, gone)
  BY <1>1, BookWithout DEF HistoryCut, RecordsInv, RecordsTypeOK, MemoryCover
<1>3. Covers(runs)' /\ LiveUncleaned(runs)'
  BY <1>2 DEF Covers, LiveUncleaned
<1>4. ledger' = ledger \/ ledger' = runs \/ ledger' = runs'
  BY DEF HistoryCut
<1>5. /\ ledger' \in [RunIds -> RunRecord \union {NoRun}]
      /\ LiveUncleaned(ledger)' /\ Covers(ledger)'
  <2>1. CASE ledger' = ledger
    BY <2>1 DEF RecordsInv, RecordsTypeOK, LiveUncleaned, Covers
  <2>2. CASE ledger' = runs
    BY <2>2 DEF RecordsInv, RecordsTypeOK, LiveUncleaned, Covers, MemoryCover
  <2>3. CASE ledger' = runs'
    BY <2>3, <1>2, <1>3 DEF LiveUncleaned, Covers
  <2> QED BY <1>4, <2>1, <2>2, <2>3
<1>6. /\ active' \in [RunIds -> ActiveState]
      /\ \A r \in RunIds : active'[r] \in {"owned", "finishing"}
            => active'[r] = active[r] /\ runs'[r] = runs[r]
  BY <1>2 DEF HistoryCut, RecordsInv, RecordsTypeOK, ActiveState, Without
<1> QED BY <1>2, <1>3, <1>5, <1>6

\* Requests to start a run keep the records sound (begin_reserve).
LEMMA BeginStepSound ==
    ASSUME RecordsInv, BeginStep PROVE RecordsInv'
<1>s. starting' = NoRun => StartSound'
  BY SentinelAssumption DEF StartSound, At, StartStep
<1>1. ASSUME NEW op \in RunOperations, NEW t \in Tasks, NEW parallel \in BOOLEAN,
             NEW gone \in SUBSET RunIds, NEW r \in RunIds,
             BeginReserve(r, op, t, parallel, gone)
      PROVE  RecordsInv'
  <2>1. /\ registry = "open" /\ UNCHANGED <<starting, registry, child>>
        /\ starting = NoRun /\ HistoryCut(gone) /\ child[r] = NoTask
    BY <1>1 DEF BeginReserve, Idle, Unissued
  <2>2. pending' = [pending EXCEPT ![r] = [operation |-> op, task |-> t]]
    BY <1>1 DEF BeginReserve
  <2>3. pending' \in [RunIds -> Ticket \union {NoTicket}]
    BY <2>2 DEF Ticket, RecordsInv, RecordsTypeOK
  <2>4. published' \in SUBSET Sources
    BY <1>1, RegistryAssumption DEF BeginReserve, RecordsInv, RecordsTypeOK
  <2>5. EntriesSound'
    BY <2>1, <2>2, HistoryCutSound DEF EntriesSound, RecordsInv, RecordsTypeOK
  <2> QED
    BY <1>s, <2>1, <2>3, <2>4, <2>5, HistoryCutSound
    DEF RecordsInv, RecordsTypeOK, MemoryCover
<1>2. ASSUME NEW op \in RunOperations, NEW t \in Tasks, NEW parallel \in BOOLEAN,
             NEW gone \in SUBSET RunIds, BeginRefused(op, t, parallel, gone)
      PROVE  RecordsInv'
  <2>1. /\ registry = "open" /\ UNCHANGED <<starting, registry, child, pending>>
        /\ starting = NoRun /\ HistoryCut(gone)
    BY <1>2 DEF BeginRefused, Idle
  <2>2. published' \in SUBSET Sources
    BY <1>2, RegistryAssumption DEF BeginRefused, RecordsInv, RecordsTypeOK
  <2>3. EntriesSound'
    BY <2>1, HistoryCutSound DEF EntriesSound, RecordsInv, RecordsTypeOK
  <2> QED
    BY <1>s, <2>1, <2>2, <2>3, HistoryCutSound
    DEF RecordsInv, RecordsTypeOK, MemoryCover
<1>3. ASSUME NEW op \in RunOperations, NEW t \in Tasks, NEW parallel \in BOOLEAN,
             NEW r \in RunIds, HistoryCutFails(op, t, parallel, r)
      PROVE  RecordsInv'
  <2>1. /\ registry = "open" /\ starting = NoRun /\ CanRotate(r)
        /\ Save(Without(runs, {r}), FALSE)
        /\ UNCHANGED <<runs, pending, active, published, starting, registry, child>>
    BY <1>3 DEF HistoryCutFails, Idle
  <2>2. child[r] = NoTask
    BY <2>1 DEF CanRotate, RecordsInv, MemoryCover, Covers, Final, Unresolved
  <2>3. /\ Without(runs, {r}) \in [RunIds -> RunRecord \union {NoRun}]
        /\ LiveUncleaned(Without(runs, {r})) /\ Covers(Without(runs, {r}))
    BY <2>1, <2>2, BookWithout DEF RecordsInv, RecordsTypeOK, MemoryCover
  <2>4. /\ ledger' \in [RunIds -> RunRecord \union {NoRun}]
        /\ LiveUncleaned(ledger)' /\ Covers(ledger)'
    BY <2>1, <2>3, SaveSound DEF RecordsInv, RecordsTypeOK
  <2>5. LiveUncleaned(runs)' /\ MemoryCover' /\ EntriesSound'
    BY <2>1 DEF RecordsInv, LiveUncleaned, MemoryCover, Covers, EntriesSound
  <2> QED BY <1>s, <2>1, <2>4, <2>5 DEF RecordsInv, RecordsTypeOK
<1> QED BY <1>1, <1>2, <1>3 DEF BeginStep
\* A run's end is recorded as an outcome once its processes are gone, and the
\* Active entry goes only when that was saved (finish_observed).
LEMMA FinalizeSound ==
    ASSUME RecordsInv, registry = "open", UNCHANGED child,
           NEW r \in RunIds, NEW outcome \in RunState \ LiveState, NEW ok \in BOOLEAN,
           runs[r] # NoRun, child[r] = NoTask,
           Finalize(r, [runs EXCEPT ![r] = Ended(@, outcome)], ok)
    PROVE  /\ runs' \in [RunIds -> RunRecord \union {NoRun}]
           /\ ledger' \in [RunIds -> RunRecord \union {NoRun}]
           /\ active' \in [RunIds -> ActiveState]
           /\ LiveUncleaned(ledger)' /\ LiveUncleaned(runs)'
           /\ Covers(ledger)' /\ Covers(runs)'
           /\ UNCHANGED pending => EntriesSound'
<1> DEFINE book == [runs EXCEPT ![r] = Ended(runs[r], outcome)]
<1>1. Ended(runs[r], outcome) \in RunRecord /\ ~Live(Ended(runs[r], outcome))
  BY RecordEnds DEF RecordsInv, RecordsTypeOK
<1>2. /\ book \in [RunIds -> RunRecord \union {NoRun}]
      /\ LiveUncleaned(book) /\ Covers(book)
  BY <1>1, BookUpdate DEF RecordsInv, RecordsTypeOK, MemoryCover
<1>3. runs' = book /\ Save(book, ok)
  BY DEF Finalize
<1>4. /\ ledger' \in [RunIds -> RunRecord \union {NoRun}]
      /\ LiveUncleaned(ledger)' /\ Covers(ledger)'
  BY <1>2, <1>3, SaveSound DEF RecordsInv, RecordsTypeOK
<1>5. LiveUncleaned(runs)' /\ Covers(runs)'
  BY <1>2, <1>3 DEF LiveUncleaned, Covers
<1>6. /\ active' \in [RunIds -> ActiveState]
      /\ \A q \in RunIds : q # r => active'[q] = active[q] /\ runs'[q] = runs[q]
  BY <1>3 DEF Finalize, RecordsInv, RecordsTypeOK, ActiveState
<1>7. runs'[r] # NoRun
  BY <1>1, <1>3, SentinelAssumption DEF RecordsInv, RecordsTypeOK
<1>8. UNCHANGED pending => EntriesSound'
  BY <1>6, <1>7 DEF EntriesSound, RecordsInv
<1> QED BY <1>2, <1>3, <1>4, <1>5, <1>6, <1>8

\* A change of one record that is taken back when its save fails keeps the
\* books sound (cancel, acknowledge_unknown_cleanup).
LEMMA RollBackSound ==
    ASSUME RecordsInv, registry = "open", UNCHANGED child,
           NEW r \in RunIds, NEW run \in RunRecord, NEW ok \in BOOLEAN,
           Live(run) => ~run.cleanup_confirmed,
           child[r] # NoTask => run.task = child[r] /\ ~Final(run),
           SaveOrRollBack([runs EXCEPT ![r] = run], ok)
    PROVE  /\ runs' \in [RunIds -> RunRecord \union {NoRun}]
           /\ ledger' \in [RunIds -> RunRecord \union {NoRun}]
           /\ LiveUncleaned(ledger)' /\ LiveUncleaned(runs)'
           /\ Covers(ledger)' /\ Covers(runs)'
           /\ UNCHANGED <<pending, active>> => EntriesSound'
           /\ \A q \in RunIds : runs[q] # NoRun => runs'[q] # NoRun
<1> DEFINE book == [runs EXCEPT ![r] = run]
<1>1. /\ book \in [RunIds -> RunRecord \union {NoRun}]
      /\ LiveUncleaned(book) /\ Covers(book)
  BY BookUpdate DEF RecordsInv, RecordsTypeOK, MemoryCover
<1>2. Save(book, ok) /\ (runs' = book \/ runs' = runs)
  BY DEF SaveOrRollBack
<1>3. /\ ledger' \in [RunIds -> RunRecord \union {NoRun}]
      /\ LiveUncleaned(ledger)' /\ Covers(ledger)'
  BY <1>1, <1>2, SaveSound DEF RecordsInv, RecordsTypeOK
<1>4. /\ runs' \in [RunIds -> RunRecord \union {NoRun}]
      /\ LiveUncleaned(runs)' /\ Covers(runs)'
  <2>1. CASE runs' = book
    BY <1>1, <2>1 DEF LiveUncleaned, Covers
  <2>2. CASE runs' = runs
    BY <2>2 DEF LiveUncleaned, Covers, RecordsInv, RecordsTypeOK, MemoryCover
  <2> QED BY <1>2, <2>1, <2>2
<1>5. \A q \in RunIds : runs[q] # NoRun => runs'[q] # NoRun
  BY <1>2, SentinelAssumption DEF RecordsInv, RecordsTypeOK
<1>6. UNCHANGED <<pending, active>> => EntriesSound'
  BY <1>5 DEF EntriesSound, RecordsInv
<1> QED BY <1>3, <1>4, <1>5, <1>6

\* The steps of spawn_start keep the records sound: no process before its
\* record, no outcome while a process lives.
LEMMA StartStepSound ==
    ASSUME RecordsInv, NEW r \in RunIds, NEW ok \in BOOLEAN,
           \/ BeginCommit(r, ok) \/ SpawnProcess(r) \/ MarkRunning(r, ok)
           \/ \E cancelled \in BOOLEAN : PreparationFails(r, cancelled, ok)
           \/ FinishUnspawned(r, ok)
    PROVE  RecordsInv'
<1>s. starting' = NoRun => StartSound'
  BY SentinelAssumption DEF StartSound, At, StartStep
<1>t. \A step \in {"begun", "spawned", "failed"} :
         [run |-> r, step |-> step] \in StartStep /\ [run |-> r, step |-> step] # NoRun
  BY SentinelAssumption DEF StartStep
<1>1. CASE BeginCommit(r, ok)
  <2> DEFINE run == [operation |-> pending[r].operation, task |-> pending[r].task,
                     state |-> "Preparing", cancel_requested |-> FALSE,
                     cleanup_confirmed |-> FALSE]
             book == [runs EXCEPT ![r] = run]
  <2>1. /\ registry = "open" /\ starting = NoRun /\ pending[r] \in Ticket
        /\ pending' = [pending EXCEPT ![r] = NoTicket]
        /\ Save(book, ok) /\ UNCHANGED <<published, registry, child>>
    BY <1>1 DEF BeginCommit, Idle, RecordsInv, RecordsTypeOK
  <2>2. child[r] = NoTask
    BY <1>1 DEF BeginCommit, Idle, RecordsInv, EntriesSound
  <2>3. run \in RunRecord /\ Live(run) /\ ~run.cleanup_confirmed
    BY <2>1 DEF Ticket, RunRecord, RunState, LiveState, Live
  <2>4. run # NoRun
    BY <2>3, SentinelAssumption
  <2>5. /\ book \in [RunIds -> RunRecord \union {NoRun}]
        /\ LiveUncleaned(book) /\ Covers(book) /\ book[r] = run
        /\ \A q \in RunIds : q # r => book[q] = runs[q]
    <3> HIDE DEF run
    <3> QED BY <2>1, <2>2, <2>3, BookUpdate DEF RecordsInv, RecordsTypeOK, MemoryCover
  <2>6. /\ ledger' \in [RunIds -> RunRecord \union {NoRun}]
        /\ LiveUncleaned(ledger)' /\ Covers(ledger)'
        /\ ok => ledger' = book
    BY <2>1, <2>5, SaveSound DEF RecordsInv, RecordsTypeOK
  <2>7. pending' \in [RunIds -> Ticket \union {NoTicket}]
    BY <2>1 DEF RecordsInv, RecordsTypeOK
  <2>8. CASE ok
    <3>1. /\ runs' = book /\ active' = [active EXCEPT ![r] = "owned"]
          /\ starting' = [run |-> r, step |-> "begun"]
      BY <1>1, <2>8 DEF BeginCommit
    <3> HIDE DEF run, book
    <3>2. /\ runs' \in [RunIds -> RunRecord \union {NoRun}]
          /\ LiveUncleaned(runs)' /\ Covers(runs)'
      BY <2>1, <2>5, <3>1 DEF LiveUncleaned, Covers
    <3>3. active' \in [RunIds -> ActiveState]
      BY <3>1 DEF RecordsInv, RecordsTypeOK, ActiveState
    <3>4. EntriesSound'
      BY <2>1, <2>2, <2>4, <2>5, <3>1 DEF EntriesSound, RecordsInv, RecordsTypeOK
    <3>5. StartSound'
      <4>1. \A q \in RunIds, step \in {"begun", "spawned", "failed"} :
               At(q, step)' => q = r /\ step = "begun"
        BY <3>1 DEF At
      <4>2. /\ runs'[r] = run /\ ledger'[r] = run /\ active'[r] = "owned"
            /\ pending'[r] = NoTicket /\ child'[r] = NoTask
        BY <2>1, <2>2, <2>5, <2>6, <2>8, <3>1 DEF RecordsInv, RecordsTypeOK
      <4> QED BY <2>3, <2>4, <4>1, <4>2 DEF StartSound
    <3> QED
      BY <1>t, <2>1, <2>6, <2>7, <3>1, <3>2, <3>3, <3>4, <3>5
      DEF RecordsInv, RecordsTypeOK, MemoryCover
  <2>9. CASE ~ok
    <3>1. UNCHANGED <<runs, active, starting>>
      BY <1>1, <2>9 DEF BeginCommit
    <3> HIDE DEF run, book
    <3>2. LiveUncleaned(runs)' /\ Covers(runs)' /\ EntriesSound'
      BY <2>1, <3>1 DEF RecordsInv, RecordsTypeOK, LiveUncleaned, Covers, MemoryCover,
                       EntriesSound
    <3> QED
      BY <1>s, <2>1, <2>6, <2>7, <3>1, <3>2 DEF RecordsInv, RecordsTypeOK, MemoryCover
  <2> QED BY <2>8, <2>9
<1>2. CASE SpawnProcess(r)
  <2>1. /\ registry = "open" /\ At(r, "begun") /\ runs[r].state = "Preparing"
        /\ starting' = [run |-> r, step |-> "spawned"]
        /\ child' = [child EXCEPT ![r] = runs[r].task]
        /\ UNCHANGED <<runs, ledger, pending, active, published, registry>>
    BY <1>2 DEF SpawnProcess
  <2>2. /\ runs[r] \in RunRecord /\ ledger[r] = runs[r] /\ Live(runs[r])
        /\ active[r] = "owned" /\ pending[r] = NoTicket /\ runs[r] # NoRun
    BY <2>1 DEF RecordsInv, RecordsTypeOK, StartSound
  <2>3. child' \in [RunIds -> Tasks \union {NoTask}]
    BY <2>1, <2>2 DEF RunRecord, RecordsInv, RecordsTypeOK
  <2>4. Covers(ledger)' /\ Covers(runs)'
    BY <2>1, <2>2 DEF Covers, MemoryCover, RecordsInv, RecordsTypeOK, Final
  <2>5. EntriesSound' /\ LiveUncleaned(ledger)' /\ LiveUncleaned(runs)'
    BY <2>1, <2>2 DEF EntriesSound, LiveUncleaned, RecordsInv, RecordsTypeOK
  <2>6. StartSound'
    <3>1. \A q \in RunIds, step \in {"begun", "spawned", "failed"} :
             At(q, step)' => q = r /\ step = "spawned"
      BY <2>1 DEF At
    <3> QED BY <2>1, <2>2, <3>1 DEF StartSound
  <2> QED
    BY <1>t, <2>1, <2>3, <2>4, <2>5, <2>6 DEF RecordsInv, RecordsTypeOK, MemoryCover
<1>3. CASE MarkRunning(r, ok)
  <2>1. /\ registry = "open" /\ At(r, "spawned")
        /\ runs' = [runs EXCEPT ![r] = Marked(runs[r])]
        /\ Save(runs', ok) /\ starting' = NoRun
        /\ UNCHANGED <<pending, active, published, registry, child>>
    BY <1>3 DEF MarkRunning
  <2>2. runs[r] \in RunRecord /\ Live(runs[r]) /\ runs[r] # NoRun
    BY <2>1 DEF RecordsInv, RecordsTypeOK, StartSound
  <2>3. /\ Marked(runs[r]) \in RunRecord /\ Marked(runs[r]).task = runs[r].task
        /\ Live(Marked(runs[r])) /\ ~Marked(runs[r]).cleanup_confirmed
        /\ ~Final(Marked(runs[r]))
    BY <2>2, RecordUpdates DEF RecordsInv, LiveUncleaned, Final
  <2>4. child[r] # NoTask => runs[r].task = child[r]
    BY <2>1 DEF RecordsInv, MemoryCover, Covers
  <2>5. /\ runs' \in [RunIds -> RunRecord \union {NoRun}]
        /\ LiveUncleaned(runs') /\ Covers(runs')
    BY <2>1, <2>3, <2>4, BookUpdate DEF RecordsInv, RecordsTypeOK, MemoryCover
  <2>6. /\ ledger' \in [RunIds -> RunRecord \union {NoRun}]
        /\ LiveUncleaned(ledger)' /\ Covers(ledger)'
    BY <2>1, <2>5, SaveSound DEF RecordsInv, RecordsTypeOK
  <2>7. LiveUncleaned(runs)' /\ Covers(runs)'
    BY <2>1, <2>5 DEF LiveUncleaned, Covers
  <2>8. EntriesSound'
    BY <2>1, <2>3, SentinelAssumption DEF EntriesSound, RecordsInv, RecordsTypeOK
  <2> QED
    BY <1>s, <2>1, <2>5, <2>6, <2>7, <2>8 DEF RecordsInv, RecordsTypeOK, MemoryCover
<1>4. ASSUME NEW cancelled \in BOOLEAN, PreparationFails(r, cancelled, ok)
      PROVE  RecordsInv'
  <2>1. /\ registry = "open" /\ At(r, "begun")
        /\ starting' = [run |-> r, step |-> "failed"]
        /\ UNCHANGED <<pending, active, published, registry, child>>
    BY <1>4 DEF PreparationFails
  <2>2. /\ runs[r] \in RunRecord /\ Live(runs[r]) /\ runs[r] # NoRun
        /\ child[r] = NoTask /\ active[r] = "owned" /\ pending[r] = NoTicket
    BY <2>1 DEF RecordsInv, RecordsTypeOK, StartSound
  <2>3. /\ Cancelled(runs[r]) \in RunRecord
        /\ ~Cancelled(runs[r]).cleanup_confirmed
    BY <2>2, RecordUpdates DEF RecordsInv, LiveUncleaned
  <2>4. cancelled => SaveOrRollBack([runs EXCEPT ![r] = Cancelled(runs[r])], ok)
    BY <1>4 DEF PreparationFails
  <2>5. ~cancelled => UNCHANGED <<runs, ledger>>
    BY <1>4 DEF PreparationFails
  <2>6. /\ runs' \in [RunIds -> RunRecord \union {NoRun}]
        /\ ledger' \in [RunIds -> RunRecord \union {NoRun}]
        /\ LiveUncleaned(ledger)' /\ LiveUncleaned(runs)'
        /\ Covers(ledger)' /\ Covers(runs)' /\ EntriesSound'
        /\ runs'[r] # NoRun
    <3>1. CASE cancelled
      BY <2>1, <2>2, <2>3, <2>4, <3>1, RollBackSound
    <3>2. CASE ~cancelled
      BY <2>1, <2>2, <2>5, <3>2
      DEF RecordsInv, RecordsTypeOK, LiveUncleaned, Covers, MemoryCover, EntriesSound
    <3> QED BY <3>1, <3>2
  <2>7. StartSound'
    <3>1. \A q \in RunIds, step \in {"begun", "spawned", "failed"} :
             At(q, step)' => q = r /\ step = "failed"
      BY <2>1 DEF At
    <3> QED BY <2>1, <2>2, <2>6, <3>1 DEF StartSound
  <2> QED BY <1>t, <2>1, <2>6, <2>7 DEF RecordsInv, RecordsTypeOK, MemoryCover
<1>5. CASE FinishUnspawned(r, ok)
  <2> DEFINE outcome == IF runs[r].cancel_requested THEN "Cancelled" ELSE "Failed"
  <2>1. /\ registry = "open" /\ At(r, "failed") /\ starting' = NoRun
        /\ Finalize(r, [runs EXCEPT ![r] = Ended(@, outcome)], ok)
        /\ UNCHANGED <<pending, published, registry, child>>
    BY <1>5 DEF FinishUnspawned
  <2>2. runs[r] # NoRun /\ child[r] = NoTask
    BY <2>1 DEF RecordsInv, StartSound
  <2>3. outcome \in RunState \ LiveState
    BY DEF RunState, LiveState
  <2> HIDE DEF outcome
  <2>4. /\ runs' \in [RunIds -> RunRecord \union {NoRun}]
        /\ ledger' \in [RunIds -> RunRecord \union {NoRun}]
        /\ active' \in [RunIds -> ActiveState]
        /\ LiveUncleaned(ledger)' /\ LiveUncleaned(runs)'
        /\ Covers(ledger)' /\ Covers(runs)' /\ EntriesSound'
    BY <2>1, <2>2, <2>3, FinalizeSound
  <2>5. StartSound' /\ starting' = NoRun
    BY <1>s, <2>1
  <2> QED BY <2>1, <2>4, <2>5 DEF RecordsInv, RecordsTypeOK, MemoryCover
<1> QED BY <1>1, <1>2, <1>3, <1>4, <1>5
\* Between two starts the worker keeps the records sound: requests and
\* reported ends.
LEMMA IdleStepSound ==
    ASSUME RecordsInv, NEW r \in RunIds, NEW ok \in BOOLEAN,
           \/ BeginAbandon(r) \/ Cancel(r, ok) \/ FinishProbe(r)
           \/ FinishObserved(r, ok) \/ Reconcile(r, ok)
    PROVE  RecordsInv'
<1>s. starting' = NoRun => StartSound'
  BY SentinelAssumption DEF StartSound, At, StartStep
<1>0. registry = "open" /\ starting = NoRun /\ UNCHANGED <<starting, registry, child>>
  BY DEF BeginAbandon, Cancel, FinishProbe, FinishObserved, Reconcile, Idle
<1>1. CASE BeginAbandon(r)
  <2>1. /\ pending' = [pending EXCEPT ![r] = NoTicket]
        /\ UNCHANGED <<runs, ledger, active, published>>
    BY <1>1 DEF BeginAbandon
  <2>2. EntriesSound' /\ Covers(ledger)' /\ Covers(runs)'
    BY <1>0, <2>1 DEF EntriesSound, Covers, MemoryCover, RecordsInv, RecordsTypeOK
  <2>3. LiveUncleaned(ledger)' /\ LiveUncleaned(runs)'
    BY <2>1 DEF LiveUncleaned, RecordsInv
  <2> QED BY <1>s, <1>0, <2>1, <2>2, <2>3 DEF RecordsInv, RecordsTypeOK, MemoryCover
<1>2. CASE Cancel(r, ok)
  <2>1. /\ Cancellable(r) /\ SaveOrRollBack([runs EXCEPT ![r] = Cancelled(runs[r])], ok)
        /\ UNCHANGED <<pending, active, published>>
    BY <1>2 DEF Cancel, RecordsInv, RecordsTypeOK
  <2>2. runs[r] \in RunRecord /\ Live(runs[r]) /\ runs[r] # NoRun
    BY <2>1 DEF Cancellable, RecordsInv, RecordsTypeOK
  <2>3. /\ Cancelled(runs[r]) \in RunRecord /\ Cancelled(runs[r]).task = runs[r].task
        /\ Live(Cancelled(runs[r])) /\ ~Cancelled(runs[r]).cleanup_confirmed
    BY <2>2, RecordUpdates DEF RecordsInv, LiveUncleaned
  <2>4. child[r] # NoTask => runs[r].task = child[r]
    BY <1>0 DEF RecordsInv, MemoryCover, Covers
  <2>5. /\ runs' \in [RunIds -> RunRecord \union {NoRun}]
        /\ ledger' \in [RunIds -> RunRecord \union {NoRun}]
        /\ LiveUncleaned(ledger)' /\ LiveUncleaned(runs)'
        /\ Covers(ledger)' /\ Covers(runs)' /\ EntriesSound'
    BY <1>0, <2>1, <2>3, <2>4, RollBackSound DEF Final
  <2> QED BY <1>s, <1>0, <2>1, <2>5 DEF RecordsInv, RecordsTypeOK, MemoryCover
<1>3. CASE FinishProbe(r)
  <2>1. /\ active' = [active EXCEPT ![r] = "finishing"]
        /\ active[r] \in {"owned", "finishing"} /\ child[r] = NoTask
        /\ UNCHANGED <<runs, ledger, pending, published>>
    BY <1>3 DEF FinishProbe
  <2>2. active' \in [RunIds -> ActiveState]
    BY <2>1 DEF RecordsInv, RecordsTypeOK, ActiveState
  <2>3. EntriesSound' /\ Covers(ledger)' /\ Covers(runs)'
    BY <1>0, <2>1 DEF EntriesSound, Covers, MemoryCover, RecordsInv, RecordsTypeOK
  <2>4. LiveUncleaned(ledger)' /\ LiveUncleaned(runs)'
    BY <2>1 DEF LiveUncleaned, RecordsInv
  <2> QED
    BY <1>s, <1>0, <2>1, <2>2, <2>3, <2>4 DEF RecordsInv, RecordsTypeOK, MemoryCover
<1>4. CASE FinishObserved(r, ok)
  <2>1. /\ active[r] = "finishing" /\ UNCHANGED <<pending, published>>
    BY <1>4 DEF FinishObserved
  <2>2. runs[r] \in RunRecord /\ runs[r] # NoRun /\ child[r] = NoTask
    BY <1>0, <2>1 DEF RecordsInv, RecordsTypeOK, EntriesSound
  <2>3. PICK outcome \in Outcomes(runs[r]) :
           Finalize(r, [runs EXCEPT ![r] = Ended(@, outcome)], ok)
    BY <1>4 DEF FinishObserved
  <2>4. outcome \in RunState \ LiveState
    BY <2>2, <2>3 DEF Outcomes, RunRecord, RunState, LiveState, Live
  <2> QED
    BY <1>s, <1>0, <2>1, <2>2, <2>3, <2>4, FinalizeSound
    DEF RecordsInv, RecordsTypeOK, MemoryCover
<1>5. CASE Reconcile(r, ok)
  <2> DEFINE run == Acknowledged(runs[r])
             s == SourceOf[runs[r].task]
  <2>1. /\ runs[r] # NoRun /\ runs[r].state = "Unknown" /\ child[r] = NoTask
        /\ SaveOrRollBack([runs EXCEPT ![r] = Acknowledged(runs[r])], ok)
        /\ published' = published \/ (s # NoSource /\ published' = published \union {s})
        /\ UNCHANGED <<pending, active>>
    BY <1>5 DEF Reconcile, RecordsInv, RecordsTypeOK
  <2>2. runs[r] \in RunRecord
    BY <2>1 DEF RecordsInv, RecordsTypeOK
  <2>3. run \in RunRecord /\ ~Live(run)
    BY <2>1, <2>2, RecordUpdates DEF Live, LiveState
  <2>4. s # NoSource => s \in Sources
    BY <2>2, RegistryAssumption DEF RunRecord
  <2>5. published' \in SUBSET Sources
    BY <2>1, <2>4 DEF RecordsInv, RecordsTypeOK
  <2>6. /\ runs' \in [RunIds -> RunRecord \union {NoRun}]
        /\ ledger' \in [RunIds -> RunRecord \union {NoRun}]
        /\ LiveUncleaned(ledger)' /\ LiveUncleaned(runs)'
        /\ Covers(ledger)' /\ Covers(runs)' /\ EntriesSound'
    BY <1>0, <2>1, <2>3, RollBackSound
  <2> QED BY <1>s, <1>0, <2>1, <2>5, <2>6 DEF RecordsInv, RecordsTypeOK, MemoryCover
<1> QED BY <1>1, <1>2, <1>3, <1>4, <1>5

\* Publication of a worktree touches no record (publish_registered_sources).
LEMMA PublishSound ==
    ASSUME RecordsInv, NEW s \in Sources, PublishSource(s) PROVE RecordsInv'
<1>s. starting' = NoRun => StartSound'
  BY SentinelAssumption DEF StartSound, At, StartStep
<1>1. /\ registry = "open" /\ starting = NoRun /\ UNCHANGED <<starting, registry, child>>
      /\ published' = published \union {s}
      /\ UNCHANGED <<runs, ledger, pending, active>>
  BY DEF PublishSource, Idle
<1>2. EntriesSound' /\ Covers(ledger)' /\ Covers(runs)'
  BY <1>1 DEF EntriesSound, Covers, MemoryCover, RecordsInv
<1>3. LiveUncleaned(ledger)' /\ LiveUncleaned(runs)'
  BY <1>1 DEF LiveUncleaned, RecordsInv
<1> QED BY <1>s, <1>1, <1>2, <1>3 DEF RecordsInv, RecordsTypeOK, MemoryCover

\* What a new host makes of runs.json covers every process that outlived the
\* old one: a live record becomes one of unknown fate (RunRegistry::open).
LEMMA RecoveredSound ==
    ASSUME RecordsInv
    PROVE  /\ Recovered \in [RunIds -> RunRecord \union {NoRun}]
           /\ LiveUncleaned(Recovered) /\ Covers(Recovered)
           /\ \A r \in RunIds : Recovered[r] # NoRun /\ Recovered[r].cleanup_confirmed
                 => child[r] = NoTask
<1>1. ASSUME NEW r \in RunIds, ledger[r] # NoRun, Live(ledger[r])
      PROVE  /\ Recovered[r] = Interrupted(ledger[r]) /\ Recovered[r] \in RunRecord
             /\ Recovered[r].task = ledger[r].task /\ ~Live(Recovered[r])
             /\ ~Recovered[r].cleanup_confirmed /\ ~Final(Recovered[r])
  <2>1. ledger[r] \in RunRecord /\ ~ledger[r].cleanup_confirmed
    BY <1>1 DEF RecordsInv, RecordsTypeOK, LiveUncleaned
  <2>2. Recovered[r] = Interrupted(ledger[r])
    BY <1>1 DEF Recovered
  <2> QED BY <2>1, <2>2, RecordUpdates DEF Final, Unresolved
<1>2. ASSUME NEW r \in RunIds, ~(ledger[r] # NoRun /\ Live(ledger[r]))
      PROVE  Recovered[r] = ledger[r]
  BY <1>2 DEF Recovered
<1>3. Recovered \in [RunIds -> RunRecord \union {NoRun}]
  <2>1. \A r \in RunIds : Recovered[r] \in RunRecord \union {NoRun}
    BY <1>1, <1>2 DEF RecordsInv, RecordsTypeOK
  <2>2. Recovered = [r \in RunIds |-> Recovered[r]]
    BY DEF Recovered
  <2> QED BY <2>1, <2>2
<1>4. LiveUncleaned(Recovered)
  BY <1>1, <1>2 DEF LiveUncleaned
<1>5. Covers(Recovered)
  <2> SUFFICES ASSUME NEW r \in RunIds, child[r] # NoTask
               PROVE  Recovered[r] # NoRun /\ Recovered[r].task = child[r]
                      /\ ~Final(Recovered[r])
    BY DEF Covers
  <2>1. ledger[r] # NoRun /\ ledger[r].task = child[r] /\ ~Final(ledger[r])
    BY DEF RecordsInv, Covers
  <2>2. CASE Live(ledger[r])
    BY <1>1, <2>1, <2>2, SentinelAssumption
  <2>3. CASE ~Live(ledger[r])
    BY <1>2, <2>1, <2>3
  <2> QED BY <2>2, <2>3
<1>6. ASSUME NEW r \in RunIds, Recovered[r] # NoRun, Recovered[r].cleanup_confirmed
      PROVE  child[r] = NoTask
  <2>1. ~Live(Recovered[r])
    BY <1>4, <1>6 DEF LiveUncleaned
  <2> QED BY <1>5, <1>6, <2>1 DEF Covers, Final, Unresolved
<1> QED BY <1>3, <1>4, <1>5, <1>6

\* The end of the worker or of the host, a restart and the end of processes
\* keep the records sound.
LEMMA HostStepSound ==
    ASSUME RecordsInv, HostStep \/ WorkerEnds \/ CloseSources \/ DropActive
    PROVE  RecordsInv'
<1>s. starting' = NoRun => StartSound'
  BY SentinelAssumption DEF StartSound, At, StartStep
<1>1. ASSUME NEW gone \in SUBSET RunIds, NEW ok \in BOOLEAN, Open(gone, ok)
      PROVE  RecordsInv'
  <2> DEFINE book == Without(Recovered, gone)
  <2>1. /\ registry = "down" /\ Save(book, ok)
        /\ \A r \in gone : Recovered[r] # NoRun /\ Recovered[r].cleanup_confirmed
        /\ UNCHANGED <<pending, active, published, starting, child>>
    BY <1>1 DEF Open, Recorded
  <2>2. \A r \in gone : child[r] = NoTask
    BY <2>1, RecoveredSound
  <2>3. /\ book \in [RunIds -> RunRecord \union {NoRun}]
        /\ LiveUncleaned(book) /\ Covers(book)
    BY <2>2, RecoveredSound, BookWithout
  <2>4. /\ ledger' \in [RunIds -> RunRecord \union {NoRun}]
        /\ LiveUncleaned(ledger)' /\ Covers(ledger)'
    BY <2>1, <2>3, SaveSound DEF RecordsInv, RecordsTypeOK
  <2>5. CASE ok
    <3>1. runs' = book /\ registry' = "open"
      BY <1>1, <2>5 DEF Open
    <3>2. LiveUncleaned(runs)' /\ Covers(runs)'
      BY <2>1, <2>3, <3>1 DEF LiveUncleaned, Covers
    <3>3. EntriesSound'
      BY <2>1 DEF EntriesSound, RecordsInv, NothingKept
    <3>4. starting' = NoRun
      BY <2>1 DEF RecordsInv, NothingKept
    <3> QED
      BY <1>s, <2>1, <2>3, <2>4, <3>1, <3>2, <3>3, <3>4
      DEF RecordsInv, RecordsTypeOK, MemoryCover, RegistryState, NothingKept
  <2>6. CASE ~ok
    <3>1. UNCHANGED <<runs, registry>>
      BY <1>1, <2>6 DEF Open
    <3>2. LiveUncleaned(runs)'
      BY <3>1 DEF LiveUncleaned, RecordsInv
    <3> QED BY <2>1, <2>4, <3>1, <3>2 DEF RecordsInv, RecordsTypeOK, NothingKept
  <2> QED BY <2>5, <2>6
<1>2. CASE WorkerEnds \/ CloseSources \/ DropActive \/ Crash
  <2>1. /\ registry' # "open" /\ registry' \in RegistryState
        /\ UNCHANGED <<ledger, child>>
    BY <1>2 DEF WorkerEnds, CloseSources, DropActive, Crash, RegistryLost, RegistryState
  <2>2. Covers(ledger)' /\ LiveUncleaned(ledger)'
    BY <2>1 DEF Covers, LiveUncleaned, RecordsInv
  <2>3. /\ pending' \in [RunIds -> Ticket \union {NoTicket}]
        /\ active' \in [RunIds -> ActiveState]
        /\ published' \in SUBSET Sources
        /\ starting' \in StartStep \union {NoRun}
    BY <1>2 DEF WorkerEnds, CloseSources, DropActive, Crash, RegistryLost, RecordsInv,
                RecordsTypeOK, ActiveState
  <2>4. runs' \in [RunIds -> RunRecord \union {NoRun}] /\ LiveUncleaned(runs)'
    <3>1. CASE UNCHANGED runs
      BY <3>1 DEF RecordsInv, RecordsTypeOK, LiveUncleaned
    <3>2. CASE runs' = [r \in RunIds |-> NoRun]
      BY <3>2 DEF LiveUncleaned
    <3> QED
      BY <1>2, <3>1, <3>2 DEF WorkerEnds, CloseSources, DropActive, Crash, RegistryLost
  <2>5. registry' = "down" => NothingKept'
    BY <1>2 DEF WorkerEnds, CloseSources, DropActive, Crash, RegistryLost, NothingKept
  <2> QED BY <2>1, <2>2, <2>3, <2>4, <2>5 DEF RecordsInv, RecordsTypeOK
<1>3. ASSUME NEW r \in RunIds, ChildExits(r) PROVE RecordsInv'
  <2>1. /\ child' = [child EXCEPT ![r] = NoTask]
        /\ UNCHANGED <<runs, ledger, pending, active, published, starting, registry>>
    BY <1>3 DEF ChildExits
  <2>2. child' \in [RunIds -> Tasks \union {NoTask}]
    BY <2>1 DEF RecordsInv, RecordsTypeOK
  <2>3. Covers(ledger)' /\ LiveUncleaned(ledger)' /\ LiveUncleaned(runs)'
    BY <2>1 DEF Covers, LiveUncleaned, RecordsInv, RecordsTypeOK
  <2>4. registry = "open" => MemoryCover' /\ EntriesSound'
    BY <2>1 DEF MemoryCover, Covers, EntriesSound, RecordsInv, RecordsTypeOK
  <2>5. registry = "open" => StartSound'
    BY <2>1 DEF StartSound, At, RecordsInv, RecordsTypeOK
  <2>6. NothingKept' <=> NothingKept
    BY <2>1 DEF NothingKept
  <2> QED BY <2>1, <2>2, <2>3, <2>4, <2>5, <2>6 DEF RecordsInv, RecordsTypeOK
<1> QED BY <1>1, <1>2, <1>3 DEF HostStep-----------------------------------------------------------------------------
(* The theorems.                                                           *)

RegistryInv == GateTypeOK /\ RecordsInv

LEMMA RegistryInvInit == RegistryInit => RegistryInv
BY SentinelAssumption
   DEF RegistryInit, RegistryInv, GateInit, GateTypeOK, GateState, DefaultGate,
       RecordsInv, RecordsTypeOK, Covers, LiveUncleaned, NothingKept, ActiveState,
       RegistryState

\* The Git side and stuttering leave the registry alone.
LEMMA RegistryUntouched ==
    ASSUME RecordsInv, UNCHANGED registryVars PROVE RecordsInv'
BY DEF registryVars, RecordsInv, RecordsTypeOK, Covers, LiveUncleaned, NothingKept,
       MemoryCover, EntriesSound, StartSound, At

LEMMA RegistryInvStep ==
    ASSUME RegistryInv, [RegistryNext]_vars PROVE RegistryInv'
<1>1. CASE RegistryNext
  <2>0. RegistryTypeOK
    BY DEF RegistryInv, RecordsInv, RecordsTypeOK, RegistryTypeOK
  <2>1. GateTypeOK'
    BY <1>1, <2>0, GateTypeKept
  <2>2. RecordsInv
    BY DEF RegistryInv
  <2> SUFFICES RecordsInv'
    BY <2>1 DEF RegistryInv
  <2>3. CASE BeginStep
    BY <2>2, <2>3, BeginStepSound
  <2>4. CASE WorkerStep
    <3>1. ASSUME NEW r \in RunIds,
                 BeginAbandon(r) \/ SpawnProcess(r) \/ FinishProbe(r)
          PROVE  RecordsInv'
      <4>1. TRUE \in BOOLEAN
        OBVIOUS
      <4> QED BY <2>2, <3>1, <4>1, StartStepSound, IdleStepSound
    <3>2. ASSUME NEW r \in RunIds, NEW ok \in BOOLEAN,
                 \/ BeginCommit(r, ok) \/ MarkRunning(r, ok)
                 \/ FinishUnspawned(r, ok)
                 \/ \E cancelled \in BOOLEAN : PreparationFails(r, cancelled, ok)
          PROVE  RecordsInv'
      BY <2>2, <3>2, StartStepSound
    <3>3. ASSUME NEW r \in RunIds, NEW ok \in BOOLEAN,
                 Cancel(r, ok) \/ FinishObserved(r, ok) \/ Reconcile(r, ok)
          PROVE  RecordsInv'
      BY <2>2, <3>3, IdleStepSound
    <3>4. ASSUME NEW s \in Sources, PublishSource(s) PROVE RecordsInv'
      BY <2>2, <3>4, PublishSound
    <3>5. CASE WorkerEnds \/ CloseSources \/ DropActive
      BY <2>2, <3>5, HostStepSound
    <3> QED BY <2>4, <3>1, <3>2, <3>3, <3>4, <3>5 DEF WorkerStep
  <2>5. CASE HostStep
    BY <2>2, <2>5, HostStepSound
  <2>6. CASE GateUsers
    BY <2>2, <2>6, RegistryUntouched DEF GateUsers
  <2> QED BY <1>1, <2>3, <2>4, <2>5, <2>6 DEF RegistryNext
<1>2. CASE UNCHANGED vars
  <2>1. UNCHANGED <<gate, lease>> /\ UNCHANGED registryVars
    BY <1>2 DEF vars, gateVars, registryVars
  <2>2. GateTypeOK'
    BY <2>1 DEF RegistryInv, GateTypeOK
  <2>3. RecordsInv'
    BY <2>1, RegistryUntouched DEF RegistryInv
  <2> QED BY <2>2, <2>3 DEF RegistryInv
<1> QED BY <1>1, <1>2

(***************************************************************************)
(* The inductive invariant: types, and records that cover the processes in *)
(* runs.json and, while the registry is open, in memory.                   *)
(***************************************************************************)
THEOREM RegistryInvariance == RegistrySpec => []RegistryInv
BY RegistryInvInit, RegistryInvStep, PTL DEF RegistrySpec

(***************************************************************************)
(* Every variable of the registry has its type, whatever saves fail and    *)
(* wherever the host or its worker ends.                                   *)
(***************************************************************************)
THEOREM RegistryTypeCorrect == RegistrySpec => []RegistryTypeOK
<1>1. RegistryInv => RegistryTypeOK
  BY DEF RegistryInv, RecordsInv, RecordsTypeOK, RegistryTypeOK
<1> QED BY <1>1, RegistryInvariance, PTL

(***************************************************************************)
(* A process tree never lives without a durable record that a later host   *)
(* will take for live or of unknown fate (begin_commit, finish_observed,   *)
(* RunRegistry::open).                                                     *)
(***************************************************************************)
THEOREM DurableCoverHolds == RegistrySpec => []DurableCover
<1>1. RegistryInv => DurableCover
  BY DEF RegistryInv, RecordsInv, Covers, DurableCover
<1> QED BY <1>1, RegistryInvariance, PTL
-----------------------------------------------------------------------------
(***************************************************************************)
(* RegistrySafety and RegistryHistory, for all runs, tasks, worktrees and  *)
(* history limits, on top of RegistryInv.  None of their conjuncts is      *)
(* inductive.  A save writes the memory over the ledger and a restart      *)
(* reads the ledger back, so whatever must hold of the records of a host   *)
(* must hold of runs.json as well (BookDisjoint, BookBounded), and a       *)
(* ticket must already have what its record will need (TicketsSound).  A   *)
(* lease must be the one its run reserved (LeasesMatch), or dropping it    *)
(* would free another's.  And a worktree with an execution of unknown fate *)
(* must stay shut from the restart on, without any lease (SourcesShut).    *)
(***************************************************************************)

\* Records of different runs have different operation ids, and disjoint
\* outputs while their processes may live.
Compatible(a, b) ==
    /\ a.operation # b.operation
    /\ ~Final(a) /\ ~Final(b) => <<a.task, b.task>> \notin Overlaps

BookDisjoint(book) ==
    \A q, r \in RunIds : (q # r /\ book[q] # NoRun /\ book[r] # NoRun)
        => Compatible(book[q], book[r])

\* A reserved start is fresh, and apart from every record and other start.
TicketsSound ==
    \A q \in RunIds : pending[q] # NoTicket =>
        /\ runs[q] = NoRun /\ ledger[q] = NoRun /\ active[q] = "none"
        /\ \A r \in RunIds \ {q} :
              /\ pending[r] # NoTicket =>
                    /\ pending[q].operation # pending[r].operation
                    /\ <<pending[q].task, pending[r].task>> \notin Overlaps
              /\ runs[r] # NoRun =>
                    /\ pending[q].operation # runs[r].operation
                    /\ ~Final(runs[r]) => <<pending[q].task, runs[r].task>> \notin Overlaps

BooksInv == BookDisjoint(runs) /\ BookDisjoint(ledger) /\ TicketsSound

\* What the Active entry says of its record, and what runs.json must already
\* say of a record whose entry was released.
EntryMatches(r) ==
    /\ active[r] # "none" => runs[r] # NoRun
    /\ active[r] = "owned" => Live(runs[r])
    /\ active[r] = "released" => Final(runs[r]) /\ (ledger[r] # NoRun => Final(ledger[r]))
    /\ runs[r] # NoRun /\ Live(runs[r]) => active[r] \in {"owned", "finishing"}
    /\ active[r] = "finishing" /\ ~Live(runs[r]) /\ runs[r].cancel_requested
          => runs[r].state = "Cancelled"

\* An outcome that became durable is the one in memory, even when its save
\* was reported as failed.
OutcomeAgrees(r) ==
    (ledger[r] # NoRun /\ ~Live(ledger[r]) /\ runs[r] # NoRun)
        => runs[r].state = ledger[r].state

EntriesInv == \A r \in RunIds : EntryMatches(r) /\ OutcomeAgrees(r)

BookBounded(book) ==
    IsFiniteSet(Recorded(book)) /\ Cardinality(Recorded(book)) <= HistoryLimit

BoundedInv ==
    /\ BookBounded(ledger)
    /\ IsFiniteSet(Recorded(runs)) /\ IsFiniteSet(PendingIds)
    /\ HistoryBounded

TaskOf(r) == IF pending[r] # NoTicket THEN pending[r].task ELSE runs[r].task

LeasesMatch ==
    \A r \in RunIds : Holds(r) => lease[r] = RunLease(SourceOf[TaskOf(r)], OperationOf(r))

\* A worktree that no Git mutation holds or can take.
Shut(s) == ~gate[s].provider_ready /\ gate[s].mutation = NoOperation

\* Shut because of an execution of unknown fate; and once the entries of a
\* worker that ended are gone, because of every process that is left.
SourcesShut ==
    /\ registry \in {"open", "dying"} =>
          \A r \in RunIds : (runs[r] # NoRun /\ Unresolved(runs[r])
                             /\ SourceOf[runs[r].task] # NoSource)
              => Shut(SourceOf[runs[r].task])
    /\ registry \in {"unlisted", "lost"} =>
          \A r \in RunIds : (child[r] # NoTask /\ SourceOf[child[r]] # NoSource)
              => Shut(SourceOf[child[r]])

Stopped ==
    /\ registry \in {"dying", "unlisted", "lost"} => \A r \in RunIds : pending[r] = NoTicket
    /\ registry = "dying" => MemoryCover
    /\ registry = "lost" => \A r \in RunIds : active[r] = "none"
    /\ registry = "down" =>
          /\ \A h \in Holders : ~Holds(h)
          /\ \A s \in Sources : gate[s].mutation = NoOperation
    /\ registry \in {"lost", "down"} => \A r \in RunIds : runs[r] = NoRun

LeasesInv == GateInv /\ LeaseIffInUse /\ LeasesMatch /\ SourcesShut

SafetyInv == RegistryInv /\ BooksInv /\ EntriesInv /\ BoundedInv /\ Stopped /\ LeasesInv
-----------------------------------------------------------------------------
(* What the steps do to the records.                                       *)

\* Every update of a record keeps its operation id, and a cancellation that
\* was asked for.
LEMMA UpdatesKeepOperation ==
    ASSUME NEW run \in RunRecord
    PROVE  /\ Marked(run).operation = run.operation
           /\ Cancelled(run).operation = run.operation
           /\ Acknowledged(run).operation = run.operation
           /\ Interrupted(run).operation = run.operation
           /\ Acknowledged(run).cleanup_confirmed
           /\ Marked(run).cancel_requested = run.cancel_requested
           /\ Acknowledged(run).cancel_requested = run.cancel_requested
           /\ Interrupted(run).cancel_requested = run.cancel_requested
           /\ Cancelled(run).cancel_requested
           /\ \A outcome : /\ Ended(run, outcome).operation = run.operation
                           /\ Ended(run, outcome).task = run.task
                           /\ Ended(run, outcome).state = outcome
                           /\ Ended(run, outcome).cleanup_confirmed
                           /\ Ended(run, outcome).cancel_requested = run.cancel_requested
BY DEF RunRecord, Marked, Cancelled, Acknowledged, Interrupted, Ended

\* One record is replaced by a later form of itself, in memory and perhaps on
\* disk, and its entry stays, ends with it, or is released once that is durable.
Rewrites(r, run) ==
    LET book == [runs EXCEPT ![r] = run] IN
    /\ runs[r] # NoRun /\ run \in RunRecord
    /\ run.operation = runs[r].operation /\ run.task = runs[r].task
    /\ runs[r].cancel_requested => run.cancel_requested
    /\ Live(run) => Live(runs[r])
    /\ ~Live(runs[r]) => run.state = runs[r].state
    /\ Final(runs[r]) => Final(run)
    /\ Unresolved(run) => Unresolved(runs[r])
    /\ active[r] # "released"
    /\ runs' \in {runs, book} /\ ledger' \in {ledger, book}
    /\ registry = "open" /\ UNCHANGED <<pending, child, registry>>
    /\ \/ /\ UNCHANGED active /\ active[r] # "finishing" /\ (Live(runs[r]) => Live(run))
          /\ \/ UNCHANGED gateVars
             \/ /\ UNCHANGED lease
                /\ \E s \in Sources : gate' = ReadyFor(gate, s) /\ Publishable(runs', s)
       \/ /\ active' = [active EXCEPT ![r] = "finishing"] /\ active[r] # "none"
          /\ Final(run) /\ runs' = book
          /\ run.cancel_requested => run.state = "Cancelled"
          /\ UNCHANGED gateVars
       \/ /\ active' = [active EXCEPT ![r] = "released"] /\ active[r] # "none"
          /\ Final(run) /\ runs' = book /\ ledger' = book
          /\ DropOne(r)

\* An end is recorded as such: with the outcome the record already had, if any,
\* and as cancelled if a cancellation was recorded (finish_observed).
LEMMA FinalizeRewrites ==
    ASSUME RegistryInv, NEW r \in RunIds, NEW outcome \in RunState \ LiveState,
           NEW ok \in BOOLEAN, runs[r] # NoRun, active[r] \in {"owned", "finishing"},
           runs[r].cancel_requested => outcome = "Cancelled",
           ~Live(runs[r]) => outcome = runs[r].state,
           Finalize(r, [runs EXCEPT ![r] = Ended(@, outcome)], ok),
           registry = "open", UNCHANGED <<pending, child, registry>>
    PROVE  Rewrites(r, Ended(runs[r], outcome))
<1> DEFINE run == Ended(runs[r], outcome)
           book == [runs EXCEPT ![r] = run]
<1>1. runs[r] \in RunRecord
  BY DEF RegistryInv, RecordsInv, RecordsTypeOK
<1>2. /\ run \in RunRecord /\ ~Live(run) /\ run.state = outcome
      /\ run.operation = runs[r].operation /\ run.task = runs[r].task
      /\ run.cleanup_confirmed /\ run.cancel_requested = runs[r].cancel_requested
  BY <1>1, RecordEnds, UpdatesKeepOperation
<1>3. Final(run) /\ ~Unresolved(run)
  BY <1>2 DEF Final, Unresolved
<1>4. /\ runs' = book /\ ledger' \in {ledger, book}
      /\ \/ /\ active' = [active EXCEPT ![r] = "released"] /\ ledger' = book
            /\ DropOne(r)
         \/ active' = [active EXCEPT ![r] = "finishing"] /\ UNCHANGED gateVars
  BY DEF Finalize, Save
<1> SUFFICES Rewrites(r, run)
  OBVIOUS
<1> HIDE DEF run
<1> QED BY <1>2, <1>3, <1>4 DEF Rewrites

\* The steps that change one record (mark_running, cancel, finish_observed,
\* acknowledge_unknown_cleanup, and the failures of a start).
LEMMA RecordSteps ==
    ASSUME RegistryInv, EntriesInv, NEW r \in RunIds, NEW ok \in BOOLEAN,
           \/ MarkRunning(r, ok) \/ Cancel(r, ok) \/ FinishObserved(r, ok)
           \/ Reconcile(r, ok) \/ FinishUnspawned(r, ok)
           \/ \E cancelled \in BOOLEAN : PreparationFails(r, cancelled, ok)
    PROVE  \E run \in RunRecord : Rewrites(r, run)
<1>0. /\ runs \in [RunIds -> RunRecord \union {NoRun}]
      /\ active \in [RunIds -> ActiveState]
      /\ registry = "open" => StartSound /\ EntriesSound
      /\ EntryMatches(r)
  BY DEF RegistryInv, RecordsInv, RecordsTypeOK, EntriesInv
<1>1. CASE MarkRunning(r, ok)
  <2> DEFINE run == Marked(runs[r])
  <2>1. /\ runs[r] \in RunRecord /\ runs[r] # NoRun /\ Live(runs[r]) /\ active[r] = "owned"
        /\ runs' = [runs EXCEPT ![r] = run] /\ ledger' \in {ledger, runs'}
        /\ registry = "open" /\ UNCHANGED <<pending, child, registry, active>>
        /\ UNCHANGED gateVars
    BY <1>0, <1>1 DEF MarkRunning, Save, StartSound
  <2>2. /\ run \in RunRecord /\ Live(run) /\ run.task = runs[r].task
        /\ run.operation = runs[r].operation
        /\ run.cancel_requested = runs[r].cancel_requested
    BY <2>1, RecordUpdates, UpdatesKeepOperation
  <2> HIDE DEF run
  <2>3. ~Final(runs[r]) /\ ~Unresolved(run)
    BY <2>1, <2>2 DEF Final, Unresolved, Live, LiveState
  <2>4. Rewrites(r, run)
    BY <2>1, <2>2, <2>3 DEF Rewrites
  <2> QED BY <2>2, <2>4
<1>2. ASSUME runs[r] # NoRun, Live(runs[r]), active[r] = "owned",
             SaveOrRollBack([runs EXCEPT ![r] = Cancelled(@)], ok),
             registry = "open", UNCHANGED <<pending, child, registry, active>>,
             UNCHANGED gateVars
      PROVE  \E run \in RunRecord : Rewrites(r, run)
  <2> DEFINE run == Cancelled(runs[r])
  <2>0. runs[r] \in RunRecord
    BY <1>0, <1>2
  <2>1. /\ run \in RunRecord /\ Live(run) /\ run.task = runs[r].task
        /\ run.operation = runs[r].operation /\ run.cancel_requested
    BY <2>0, RecordUpdates, UpdatesKeepOperation
  <2>2. runs' \in {runs, [runs EXCEPT ![r] = run]} /\ ledger' \in {ledger, [runs EXCEPT ![r] = run]}
    BY <1>2 DEF SaveOrRollBack, Save
  <2> HIDE DEF run
  <2> QED BY <1>2, <2>1, <2>2 DEF Rewrites, Final, Unresolved, Live, LiveState
<1>3. CASE Cancel(r, ok)
  BY <1>0, <1>2, <1>3 DEF Cancel, Idle, Cancellable, EntryMatches
<1>4. ASSUME NEW cancelled \in BOOLEAN, PreparationFails(r, cancelled, ok)
      PROVE  \E run \in RunRecord : Rewrites(r, run)
  <2>1. /\ runs[r] \in RunRecord /\ runs[r] # NoRun /\ Live(runs[r]) /\ active[r] = "owned"
        /\ registry = "open" /\ UNCHANGED <<pending, child, registry, active>>
        /\ UNCHANGED gateVars
    BY <1>0, <1>4 DEF PreparationFails, StartSound
  <2>2. CASE cancelled
    BY <1>2, <1>4, <2>1, <2>2 DEF PreparationFails
  <2>3. CASE ~cancelled
    <3>1. UNCHANGED <<runs, ledger>>
      BY <1>4, <2>3 DEF PreparationFails
    <3>2. Rewrites(r, runs[r])
      BY <2>1, <3>1 DEF Rewrites
    <3> QED BY <2>1, <3>2
  <2> QED BY <2>2, <2>3
<1>5. CASE FinishUnspawned(r, ok)
  <2> DEFINE outcome == IF runs[r].cancel_requested THEN "Cancelled" ELSE "Failed"
  <2>1. runs[r] # NoRun /\ active[r] = "owned" /\ Live(runs[r])
    BY <1>0, <1>5 DEF FinishUnspawned, StartSound, EntryMatches
  <2>2. /\ Finalize(r, [runs EXCEPT ![r] = Ended(@, outcome)], ok)
        /\ registry = "open" /\ UNCHANGED <<pending, child, registry>>
    BY <1>5 DEF FinishUnspawned
  <2>3. outcome \in RunState \ LiveState /\ (runs[r].cancel_requested => outcome = "Cancelled")
    BY DEF RunState, LiveState
  <2>4. Ended(runs[r], outcome) \in RunRecord
    BY <1>0, <2>1, <2>3, RecordEnds
  <2> HIDE DEF outcome
  <2> QED BY <2>1, <2>2, <2>3, <2>4, FinalizeRewrites
<1>6. CASE FinishObserved(r, ok)
  <2>1. /\ active[r] = "finishing" /\ runs[r] # NoRun /\ runs[r] \in RunRecord
        /\ registry = "open" /\ UNCHANGED <<pending, child, registry>>
    BY <1>0, <1>6 DEF FinishObserved, Idle, EntryMatches
  <2>2. PICK outcome \in Outcomes(runs[r]) :
           Finalize(r, [runs EXCEPT ![r] = Ended(@, outcome)], ok)
    BY <1>6 DEF FinishObserved
  <2>3. outcome \in RunState \ LiveState
    BY <2>1, <2>2 DEF Outcomes, RunRecord, RunState, LiveState, Live
  <2>4. /\ runs[r].cancel_requested => outcome = "Cancelled"
        /\ ~Live(runs[r]) => outcome = runs[r].state
    BY <1>0, <2>1, <2>2 DEF Outcomes, EntryMatches
  <2>5. Ended(runs[r], outcome) \in RunRecord
    BY <2>1, <2>3, RecordEnds
  <2> QED BY <2>1, <2>2, <2>3, <2>4, <2>5, FinalizeRewrites
<1>7. CASE Reconcile(r, ok)
  <2> DEFINE run == Acknowledged(runs[r])
  <2>1. /\ runs[r] # NoRun /\ runs[r] \in RunRecord /\ active[r] = "none"
        /\ runs[r].state = "Unknown" /\ UNCHANGED <<pending, child, registry, active>>
        /\ runs' \in {runs, [runs EXCEPT ![r] = run]}
        /\ ledger' \in {ledger, [runs EXCEPT ![r] = run]}
        /\ registry = "open" /\ UNCHANGED lease
    BY <1>0, <1>7 DEF Reconcile, Idle, SaveOrRollBack, Save
  <2>a. SourceOf[runs[r].task] # NoSource => SourceOf[runs[r].task] \in Sources
    BY <2>1, RegistryAssumption DEF RunRecord
  <2>b. \/ UNCHANGED gate
        \/ \E s \in Sources : gate' = ReadyFor(gate, s) /\ Publishable(runs', s)
    BY <1>7, <2>a DEF Reconcile, SaveOrRollBack
  <2>2. /\ run \in RunRecord /\ run.state = "Unknown" /\ run.task = runs[r].task
        /\ run.operation = runs[r].operation /\ run.cleanup_confirmed
        /\ run.cancel_requested = runs[r].cancel_requested
    BY <2>1, RecordUpdates, UpdatesKeepOperation
  <2> HIDE DEF run
  <2> QED BY <2>1, <2>2, <2>b DEF Rewrites, Final, Unresolved, Live, LiveState, gateVars
<1> QED BY <1>1, <1>3, <1>4, <1>5, <1>6, <1>7
-----------------------------------------------------------------------------
(* Records with different operation ids and disjoint outputs.              *)

\* A book that lost records, or whose records were rewritten, stays disjoint.
LEMMA BookKept ==
    ASSUME NEW book, NEW later, BookDisjoint(book),
           \A r \in RunIds : later[r] # NoRun =>
              /\ book[r] # NoRun
              /\ later[r].operation = book[r].operation /\ later[r].task = book[r].task
              /\ Final(book[r]) => Final(later[r])
    PROVE  BookDisjoint(later)
<1> SUFFICES ASSUME NEW q \in RunIds, NEW r \in RunIds, q # r,
                    later[q] # NoRun, later[r] # NoRun
             PROVE  Compatible(later[q], later[r])
  BY DEF BookDisjoint
<1>1. Compatible(book[q], book[r])
  BY DEF BookDisjoint
<1> QED BY <1>1 DEF Compatible

\* Steps that only take records and tickets away, and the saves among them.
LEMMA BooksFrame ==
    ASSUME BooksInv, NEW base \in {runs, ledger},
           \A r \in RunIds : runs'[r] \in {NoRun, runs[r]},
           \A r \in RunIds : ledger'[r] \in {NoRun, base[r]},
           \A r \in RunIds : pending'[r] \in {NoTicket, pending[r]},
           \A r \in RunIds : pending'[r] # NoTicket => active'[r] = "none"
    PROVE  BooksInv'
<1>1. BookDisjoint(runs)'
  BY BookKept DEF BooksInv
<1>2. BookDisjoint(ledger)'
  <2>1. BookDisjoint(base)
    BY DEF BooksInv
  <2> QED BY <2>1, BookKept
<1>3. TicketsSound'
  <2> SUFFICES ASSUME NEW q \in RunIds, pending'[q] # NoTicket
               PROVE  /\ runs'[q] = NoRun /\ ledger'[q] = NoRun /\ active'[q] = "none"
                      /\ \A r \in RunIds \ {q} :
                            /\ pending'[r] # NoTicket =>
                                  /\ pending'[q].operation # pending'[r].operation
                                  /\ <<pending'[q].task, pending'[r].task>> \notin Overlaps
                            /\ runs'[r] # NoRun =>
                                  /\ pending'[q].operation # runs'[r].operation
                                  /\ ~Final(runs'[r])
                                        => <<pending'[q].task, runs'[r].task>> \notin Overlaps
    BY DEF TicketsSound
  <2>1. pending'[q] = pending[q] /\ pending[q] # NoTicket
    OBVIOUS
  <2>2. runs[q] = NoRun /\ ledger[q] = NoRun
    BY <2>1 DEF BooksInv, TicketsSound
  <2> QED BY <2>1, <2>2 DEF BooksInv, TicketsSound
<1> QED BY <1>1, <1>2, <1>3 DEF BooksInv

LEMMA BooksRewritten ==
    ASSUME RegistryInv, BooksInv, NEW r \in RunIds, NEW run \in RunRecord, Rewrites(r, run)
    PROVE  BooksInv'
<1> DEFINE book == [runs EXCEPT ![r] = run]
<1>0. runs \in [RunIds -> RunRecord \union {NoRun}]
  BY DEF RegistryInv, RecordsInv, RecordsTypeOK
<1>1. BookDisjoint(book)
  BY <1>0, BookKept DEF Rewrites, BooksInv
<1>2. BookDisjoint(runs)' /\ BookDisjoint(ledger)'
  BY <1>1 DEF Rewrites, BooksInv
<1>3. TicketsSound'
  <2>1. pending[r] = NoTicket
    BY DEF Rewrites, BooksInv, TicketsSound
  <2>2. /\ \A q \in RunIds : q # r => /\ runs'[q] = runs[q] /\ active'[q] = active[q]
                                      /\ ledger'[q] \in {ledger[q], runs[q]}
        /\ pending' = pending
    BY <1>0 DEF Rewrites, RegistryInv, RecordsInv, RecordsTypeOK
  <2>3. runs'[r] \in {runs[r], run}
    BY <1>0 DEF Rewrites
  <2>4. /\ runs'[r].operation = runs[r].operation /\ runs'[r].task = runs[r].task
        /\ Final(runs[r]) => Final(runs'[r])
        /\ runs[r] # NoRun
    BY <2>3 DEF Rewrites
  <2> QED BY <2>1, <2>2, <2>4 DEF BooksInv, TicketsSound
<1> QED BY <1>2, <1>3 DEF BooksInv

\* A record that is cut from the history is final, and its entry holds nothing.
LEMMA CutEffect ==
    ASSUME RegistryInv, EntriesInv, NEW gone \in SUBSET RunIds, HistoryCut(gone)
    PROVE  /\ runs' = Without(runs, gone)
           /\ ledger' \in {ledger, runs, Without(runs, gone)}
           /\ \A r \in RunIds : r \notin gone => runs'[r] = runs[r] /\ active'[r] = active[r]
           /\ \A r \in gone : /\ runs'[r] = NoRun /\ active'[r] = "none"
                              /\ runs[r] # NoRun /\ Final(runs[r])
                              /\ active[r] \in {"none", "released"}
<1>1. ASSUME NEW r \in gone
      PROVE  runs[r] # NoRun /\ Final(runs[r]) /\ active[r] \in {"none", "released"}
  <2>1. CanRotate(r) /\ EntryMatches(r) /\ active[r] \in ActiveState
    BY DEF HistoryCut, EntriesInv, RegistryInv, RecordsInv, RecordsTypeOK
  <2> QED BY <2>1 DEF CanRotate, EntryMatches, ActiveState, Final, Unresolved
<1> QED BY <1>1 DEF HistoryCut, Without

LEMMA BooksReserve ==
    ASSUME RegistryInv, EntriesInv, BooksInv, NEW r \in RunIds, NEW op \in RunOperations,
           NEW t \in Tasks, NEW parallel \in BOOLEAN, NEW gone \in SUBSET RunIds,
           BeginReserve(r, op, t, parallel, gone)
    PROVE  BooksInv'
<1>1. /\ HistoryCut(gone) /\ Unissued(r) /\ BeginAdmitted(op, t, parallel)
      /\ pending' = [pending EXCEPT ![r] = [operation |-> op, task |-> t]]
  BY DEF BeginReserve
<1>2. /\ \A q \in RunIds : runs'[q] \in {NoRun, runs[q]}
      /\ \E base \in {runs, ledger} : \A q \in RunIds : ledger'[q] \in {NoRun, base[q]}
      /\ \A q \in RunIds : active[q] = "none" => active'[q] = "none"
  BY <1>1, CutEffect DEF Without
<1>3. BookDisjoint(runs)' /\ BookDisjoint(ledger)'
  BY <1>2, BookKept DEF BooksInv
<1>4. /\ pending'[r].operation = op /\ pending'[r].task = t
      /\ \A q \in RunIds : q # r => pending'[q] = pending[q]
  BY <1>1 DEF RegistryInv, RecordsInv, RecordsTypeOK
<1>5. /\ runs[r] = NoRun /\ ledger[r] = NoRun /\ active[r] = "none"
  BY <1>1 DEF Unissued
<1>6. \A q \in RunIds \ {r} :
         /\ pending[q] # NoTicket =>
               /\ op # pending[q].operation /\ <<t, pending[q].task>> \notin Overlaps
               /\ <<pending[q].task, t>> \notin Overlaps
         /\ runs[q] # NoRun =>
               /\ op # runs[q].operation
               /\ ~Final(runs[q]) => <<t, runs[q].task>> \notin Overlaps
  <2>1. \A q \in RunIds : pending[q] # NoTicket => pending[q].task \in Tasks
    BY DEF RegistryInv, RecordsInv, RecordsTypeOK, Ticket
  <2> QED BY <1>1, <2>1, RegistryAssumption
          DEF BeginAdmitted, OperationNew, OutputsFree, Recorded, PendingIds, Final
<1>7. TicketsSound'
  <2> SUFFICES ASSUME NEW q \in RunIds, pending'[q] # NoTicket
               PROVE  /\ runs'[q] = NoRun /\ ledger'[q] = NoRun /\ active'[q] = "none"
                      /\ \A k \in RunIds \ {q} :
                            /\ pending'[k] # NoTicket =>
                                  /\ pending'[q].operation # pending'[k].operation
                                  /\ <<pending'[q].task, pending'[k].task>> \notin Overlaps
                            /\ runs'[k] # NoRun =>
                                  /\ pending'[q].operation # runs'[k].operation
                                  /\ ~Final(runs'[k])
                                        => <<pending'[q].task, runs'[k].task>> \notin Overlaps
    BY DEF TicketsSound
  <2>1. CASE q = r
    <3>1. runs'[r] = NoRun /\ ledger'[r] = NoRun /\ active'[r] = "none"
      BY <1>2, <1>5
    <3>2. ASSUME NEW k \in RunIds \ {r}
          PROVE  /\ pending'[k] # NoTicket =>
                       /\ op # pending'[k].operation
                       /\ <<t, pending'[k].task>> \notin Overlaps
                 /\ runs'[k] # NoRun =>
                       /\ op # runs'[k].operation
                       /\ ~Final(runs'[k]) => <<t, runs'[k].task>> \notin Overlaps
      BY <1>2, <1>4, <1>6
    <3> QED BY <1>4, <2>1, <3>1, <3>2
  <2>2. CASE q # r
    <3>1. /\ pending[q] # NoTicket /\ pending'[q] = pending[q]
          /\ runs[q] = NoRun /\ ledger[q] = NoRun /\ active[q] = "none"
      BY <1>4, <2>2 DEF BooksInv, TicketsSound
    <3>2. runs'[q] = NoRun /\ ledger'[q] = NoRun /\ active'[q] = "none"
      BY <1>2, <3>1
    <3>3. ASSUME NEW k \in RunIds \ {q}
          PROVE  /\ pending'[k] # NoTicket =>
                       /\ pending'[q].operation # pending'[k].operation
                       /\ <<pending'[q].task, pending'[k].task>> \notin Overlaps
                 /\ runs'[k] # NoRun =>
                       /\ pending'[q].operation # runs'[k].operation
                       /\ ~Final(runs'[k])
                             => <<pending'[q].task, runs'[k].task>> \notin Overlaps
      <4>1. runs'[k] # NoRun => runs'[k] = runs[k]
        BY <1>2
      <4>2. CASE k = r
        BY <1>2, <1>4, <1>5, <1>6, <2>2, <3>1, <4>2
      <4>3. CASE k # r
        BY <1>4, <3>1, <4>1, <4>3 DEF BooksInv, TicketsSound
      <4> QED BY <4>2, <4>3
    <3> QED BY <3>2, <3>3
  <2> QED BY <2>1, <2>2
<1> QED BY <1>3, <1>7 DEF BooksInv

\* The record of a start takes the place of its ticket.
LEMMA BooksCommit ==
    ASSUME RegistryInv, BooksInv, NEW r \in RunIds, NEW ok \in BOOLEAN, BeginCommit(r, ok)
    PROVE  BooksInv'
<1> DEFINE run == [operation |-> pending[r].operation, task |-> pending[r].task,
                   state |-> "Preparing", cancel_requested |-> FALSE,
                   cleanup_confirmed |-> FALSE]
           book == [runs EXCEPT ![r] = run]
<1>0. /\ runs \in [RunIds -> RunRecord \union {NoRun}]
      /\ pending \in [RunIds -> Ticket \union {NoTicket}]
      /\ active \in [RunIds -> ActiveState]
  BY DEF RegistryInv, RecordsInv, RecordsTypeOK
<1>1. /\ pending[r] # NoTicket /\ pending' = [pending EXCEPT ![r] = NoTicket]
      /\ ledger' \in {ledger, book}
      /\ \/ runs' = book /\ active' = [active EXCEPT ![r] = "owned"]
         \/ UNCHANGED <<runs, active>>
  BY DEF BeginCommit, Save
<1>2. /\ run.operation = pending[r].operation /\ run.task = pending[r].task
      /\ ~Final(run)
  BY DEF Final, Live, LiveState
<1> HIDE DEF run
<1>3. /\ book[r] = run /\ \A q \in RunIds : q # r => book[q] = runs[q]
  BY <1>0
<1> HIDE DEF book
<1>4. \A q \in RunIds \ {r} : runs[q] # NoRun =>
         /\ run.operation # runs[q].operation
         /\ ~Final(runs[q]) => /\ <<run.task, runs[q].task>> \notin Overlaps
                               /\ <<runs[q].task, run.task>> \notin Overlaps
  <2>1. \A q \in RunIds \ {r} : runs[q] # NoRun =>
           /\ run.operation # runs[q].operation
           /\ ~Final(runs[q]) => <<run.task, runs[q].task>> \notin Overlaps
    BY <1>1, <1>2 DEF BooksInv, TicketsSound
  <2>2. \A q \in RunIds : runs[q] # NoRun => runs[q].task \in Tasks
    BY <1>0 DEF RunRecord
  <2>3. run.task \in Tasks
    BY <1>0, <1>1, <1>2 DEF Ticket
  <2> QED BY <2>1, <2>2, <2>3, RegistryAssumption
<1>5. BookDisjoint(book)
  <2> SUFFICES ASSUME NEW q \in RunIds, NEW k \in RunIds, q # k,
                      book[q] # NoRun, book[k] # NoRun
               PROVE  Compatible(book[q], book[k])
    BY DEF BookDisjoint
  <2>1. CASE q # r /\ k # r
    BY <1>3, <2>1 DEF BooksInv, BookDisjoint
  <2>2. CASE q = r \/ k = r
    BY <1>3, <1>4, <2>2 DEF Compatible
  <2> QED BY <2>1, <2>2
<1>6. BookDisjoint(runs)' /\ BookDisjoint(ledger)'
  BY <1>1, <1>5 DEF BooksInv
<1>7. TicketsSound'
  <2> SUFFICES ASSUME NEW q \in RunIds, pending'[q] # NoTicket
               PROVE  /\ runs'[q] = NoRun /\ ledger'[q] = NoRun /\ active'[q] = "none"
                      /\ \A k \in RunIds \ {q} :
                            /\ pending'[k] # NoTicket =>
                                  /\ pending'[q].operation # pending'[k].operation
                                  /\ <<pending'[q].task, pending'[k].task>> \notin Overlaps
                            /\ runs'[k] # NoRun =>
                                  /\ pending'[q].operation # runs'[k].operation
                                  /\ ~Final(runs'[k])
                                        => <<pending'[q].task, runs'[k].task>> \notin Overlaps
    BY DEF TicketsSound
  <2>1. q # r /\ pending'[q] = pending[q] /\ pending[q] # NoTicket
    BY <1>0, <1>1
  <2>2. runs[q] = NoRun /\ ledger[q] = NoRun /\ active[q] = "none"
    BY <2>1 DEF BooksInv, TicketsSound
  <2>3. runs'[q] = NoRun /\ ledger'[q] = NoRun /\ active'[q] = "none"
    BY <1>0, <1>1, <1>3, <2>1, <2>2
  <2>4. ASSUME NEW k \in RunIds \ {q}
        PROVE  /\ pending'[k] # NoTicket =>
                     /\ pending'[q].operation # pending'[k].operation
                     /\ <<pending'[q].task, pending'[k].task>> \notin Overlaps
               /\ runs'[k] # NoRun =>
                     /\ pending'[q].operation # runs'[k].operation
                     /\ ~Final(runs'[k])
                           => <<pending'[q].task, runs'[k].task>> \notin Overlaps
    <3>1. pending'[k] # NoTicket => pending'[k] = pending[k]
      BY <1>0, <1>1
    <3>2. CASE runs'[k] = runs[k]
      BY <2>1, <3>1, <3>2 DEF BooksInv, TicketsSound
    <3>3. CASE k = r /\ runs'[k] = run
      <4>1. /\ pending[r] # NoTicket => /\ pending[q].operation # pending[r].operation
                                        /\ <<pending[q].task, pending[r].task>> \notin Overlaps
            /\ pending'[k] # NoTicket => /\ pending[q].operation # pending[k].operation
                                         /\ <<pending[q].task, pending[k].task>> \notin Overlaps
        BY <2>1, <3>1 DEF BooksInv, TicketsSound
      <4>2. run.operation = pending[r].operation /\ run.task = pending[r].task /\ pending[r] # NoTicket
        BY <1>1, <1>2
      <4> QED BY <2>1, <3>1, <3>3, <4>1, <4>2
    <3> QED BY <1>1, <1>3, <3>2, <3>3
  <2> QED BY <2>3, <2>4
<1> QED BY <1>6, <1>7 DEF BooksInv

\* A restart keeps operation ids and tasks, and makes no record less final.
LEMMA BooksOpen ==
    ASSUME RegistryInv, BooksInv, NEW gone \in SUBSET RunIds, NEW ok \in BOOLEAN,
           Open(gone, ok)
    PROVE  BooksInv'
<1> DEFINE book == Without(Recovered, gone)
<1>1. /\ ledger' \in {ledger, book} /\ runs' \in {runs, book}
      /\ UNCHANGED <<pending, active>> /\ \A r \in RunIds : pending[r] = NoTicket
  BY DEF Open, Save, RegistryInv, RecordsInv, NothingKept
<1>2. ASSUME NEW r \in RunIds, book[r] # NoRun
      PROVE  /\ ledger[r] # NoRun
             /\ book[r].operation = ledger[r].operation /\ book[r].task = ledger[r].task
             /\ Final(ledger[r]) => Final(book[r])
  <2>1. book[r] = Recovered[r] /\ ledger[r] # NoRun
    BY <1>2 DEF Without, Recovered
  <2>2. ledger[r] \in RunRecord
    BY <2>1 DEF RegistryInv, RecordsInv, RecordsTypeOK
  <2>3. CASE Live(ledger[r])
    <3>1. book[r] = Interrupted(ledger[r])
      BY <2>1, <2>3 DEF Recovered
    <3>2. ~Final(ledger[r])
      BY <2>3 DEF Final
    <3>3. /\ Interrupted(ledger[r]).operation = ledger[r].operation
          /\ Interrupted(ledger[r]).task = ledger[r].task
      BY <2>2, RecordUpdates, UpdatesKeepOperation
    <3> QED BY <2>1, <3>1, <3>2, <3>3
  <2>4. CASE ~Live(ledger[r])
    BY <2>1, <2>4 DEF Recovered
  <2> QED BY <2>1, <2>3, <2>4
<1> HIDE DEF book
<1>3. BookDisjoint(book)
  BY <1>2, BookKept DEF BooksInv
<1> QED BY <1>1, <1>3 DEF BooksInv, TicketsSound

\* Steps that touch neither records nor tickets nor entries.
Quiet ==
    \/ UNCHANGED vars
    \/ \E r \in RunIds : SpawnProcess(r) \/ ChildExits(r)
    \/ \E s \in Sources : PublishSource(s)
    \/ CloseSources \/ GateUsers

LEMMA QuietKeeps ==
    ASSUME Quiet PROVE UNCHANGED <<runs, ledger, pending, active>>
BY DEF Quiet, vars, registryVars, SpawnProcess, ChildExits, PublishSource, CloseSources,
       GateUsers

\* Every step changes one record, or is one of a few others.
LEMMA StepKinds ==
    ASSUME RegistryInv, EntriesInv, [RegistryNext]_vars
    PROVE  \/ Quiet
           \/ \E r \in RunIds, run \in RunRecord : Rewrites(r, run)
           \/ \E r \in RunIds, op \in RunOperations, t \in Tasks, parallel \in BOOLEAN,
                 gone \in SUBSET RunIds : BeginReserve(r, op, t, parallel, gone)
           \/ \E op \in RunOperations, t \in Tasks, parallel \in BOOLEAN,
                 gone \in SUBSET RunIds : BeginRefused(op, t, parallel, gone)
           \/ \E r \in RunIds, op \in RunOperations, t \in Tasks, parallel \in BOOLEAN :
                 HistoryCutFails(op, t, parallel, r)
           \/ \E r \in RunIds : BeginAbandon(r) \/ FinishProbe(r)
           \/ \E r \in RunIds, ok \in BOOLEAN : BeginCommit(r, ok)
           \/ \E gone \in SUBSET RunIds, ok \in BOOLEAN : Open(gone, ok)
           \/ WorkerEnds \/ DropActive \/ Crash
<1>1. CASE UNCHANGED vars
  BY <1>1 DEF Quiet
<1>2. CASE BeginStep
  BY <1>2 DEF BeginStep
<1>3. CASE WorkerStep
  <2>1. ASSUME NEW r \in RunIds, NEW ok \in BOOLEAN,
               \/ MarkRunning(r, ok) \/ Cancel(r, ok) \/ FinishObserved(r, ok)
               \/ Reconcile(r, ok) \/ FinishUnspawned(r, ok)
               \/ \E cancelled \in BOOLEAN : PreparationFails(r, cancelled, ok)
        PROVE  \E run \in RunRecord : Rewrites(r, run)
    BY <2>1, RecordSteps
  <2> QED BY <1>3, <2>1 DEF WorkerStep, Quiet
<1>4. CASE HostStep
  BY <1>4 DEF HostStep, Quiet
<1>5. CASE GateUsers
  BY <1>5 DEF Quiet
<1> QED BY <1>1, <1>2, <1>3, <1>4, <1>5 DEF RegistryNext

LEMMA BooksStep ==
    ASSUME RegistryInv, EntriesInv, BooksInv, [RegistryNext]_vars
    PROVE  BooksInv'
<1>0. /\ runs \in [RunIds -> RunRecord \union {NoRun}]
      /\ pending \in [RunIds -> Ticket \union {NoTicket}]
      /\ active \in [RunIds -> ActiveState]
  BY DEF RegistryInv, RecordsInv, RecordsTypeOK
<1>1. CASE Quiet
  BY <1>1, QuietKeeps DEF BooksInv, TicketsSound
<1>2. ASSUME NEW r \in RunIds, NEW run \in RunRecord, Rewrites(r, run) PROVE BooksInv'
  BY <1>2, BooksRewritten
<1>3. ASSUME NEW r \in RunIds, NEW op \in RunOperations, NEW t \in Tasks,
             NEW parallel \in BOOLEAN, NEW gone \in SUBSET RunIds,
             BeginReserve(r, op, t, parallel, gone)
      PROVE  BooksInv'
  BY <1>3, BooksReserve
<1>4. ASSUME NEW op \in RunOperations, NEW t \in Tasks, NEW parallel \in BOOLEAN,
             NEW gone \in SUBSET RunIds, BeginRefused(op, t, parallel, gone)
      PROVE  BooksInv'
  <2>1. HistoryCut(gone) /\ pending' = pending
    BY <1>4 DEF BeginRefused
  <2>2. /\ \A r \in RunIds : runs'[r] \in {NoRun, runs[r]}
        /\ \E base \in {runs, ledger} : \A r \in RunIds : ledger'[r] \in {NoRun, base[r]}
        /\ \A r \in RunIds : active[r] = "none" => active'[r] = "none"
    BY <2>1, CutEffect DEF Without
  <2>3. \A r \in RunIds : pending'[r] # NoTicket => active'[r] = "none"
    BY <2>1, <2>2 DEF BooksInv, TicketsSound
  <2> QED BY <2>1, <2>2, <2>3, BooksFrame
<1>5. ASSUME NEW r \in RunIds, NEW op \in RunOperations, NEW t \in Tasks,
             NEW parallel \in BOOLEAN, HistoryCutFails(op, t, parallel, r)
      PROVE  BooksInv'
  <2>1. UNCHANGED <<runs, pending, active>> /\ ledger' \in {ledger, Without(runs, {r})}
    BY <1>5 DEF HistoryCutFails, Save
  <2>2. \E base \in {runs, ledger} : \A q \in RunIds : ledger'[q] \in {NoRun, base[q]}
    BY <2>1 DEF Without
  <2>3. \A q \in RunIds : pending'[q] # NoTicket => active'[q] = "none"
    BY <2>1 DEF BooksInv, TicketsSound
  <2> QED BY <2>1, <2>2, <2>3, BooksFrame
<1>6. ASSUME NEW r \in RunIds, BeginAbandon(r) \/ FinishProbe(r) PROVE BooksInv'
  <2>1. /\ UNCHANGED <<runs, ledger>>
        /\ \A q \in RunIds : pending'[q] \in {NoTicket, pending[q]}
        /\ \A q \in RunIds : active[q] = "none" => active'[q] = "none"
    BY <1>0, <1>6 DEF BeginAbandon, FinishProbe
  <2>2. \A q \in RunIds : pending'[q] # NoTicket => active'[q] = "none"
    BY <2>1 DEF BooksInv, TicketsSound
  <2> QED BY <2>1, <2>2, BooksFrame
<1>7. ASSUME NEW r \in RunIds, NEW ok \in BOOLEAN, BeginCommit(r, ok) PROVE BooksInv'
  BY <1>7, BooksCommit
<1>8. ASSUME NEW gone \in SUBSET RunIds, NEW ok \in BOOLEAN, Open(gone, ok)
      PROVE  BooksInv'
  BY <1>8, BooksOpen
<1>9. CASE WorkerEnds \/ DropActive \/ Crash
  <2>1. /\ ledger' = ledger /\ \A q \in RunIds : runs'[q] \in {NoRun, runs[q]}
        /\ \A q \in RunIds : pending'[q] \in {NoTicket, pending[q]}
        /\ \A q \in RunIds : active[q] = "none" => active'[q] = "none"
    BY <1>9 DEF WorkerEnds, DropActive, Crash, RegistryLost
  <2>2. \A q \in RunIds : pending'[q] # NoTicket => active'[q] = "none"
    BY <2>1 DEF BooksInv, TicketsSound
  <2> QED BY <2>1, <2>2, BooksFrame
<1> QED
  BY <1>1, <1>2, <1>3, <1>4, <1>5, <1>6, <1>7, <1>8, <1>9, StepKinds
-----------------------------------------------------------------------------
(* Entries, outcomes and what is durable.                                  *)

\* A run whose record and entry stay, or go together, keeps them matching,
\* whatever save of the memory, or of less, happens meanwhile.
LEMMA EntryFrame ==
    ASSUME NEW r \in RunIds, EntryMatches(r), OutcomeAgrees(r),
           ledger'[r] \in {NoRun, ledger[r], runs[r], runs'[r]},
           \/ runs'[r] = runs[r] /\ active'[r] = active[r]
           \/ runs'[r] = NoRun /\ active'[r] = "none"
    PROVE  EntryMatches(r)' /\ OutcomeAgrees(r)'
BY DEF EntryMatches, OutcomeAgrees

LEMMA EntriesRewritten ==
    ASSUME RegistryInv, EntriesInv, NEW r \in RunIds, NEW run \in RunRecord, Rewrites(r, run)
    PROVE  EntriesInv'
<1> SUFFICES ASSUME NEW q \in RunIds PROVE EntryMatches(q)' /\ OutcomeAgrees(q)'
  BY DEF EntriesInv
<1>0. /\ runs \in [RunIds -> RunRecord \union {NoRun}] /\ active \in [RunIds -> ActiveState]
      /\ EntryMatches(q) /\ OutcomeAgrees(q) /\ EntryMatches(r) /\ OutcomeAgrees(r)
  BY DEF RegistryInv, RecordsInv, RecordsTypeOK, EntriesInv
<1>1. CASE q # r
  <2>1. runs'[q] = runs[q] /\ active'[q] = active[q] /\ ledger'[q] \in {ledger[q], runs[q]}
    BY <1>0, <1>1 DEF Rewrites
  <2> QED BY <1>0, <2>1, EntryFrame
<1>2. CASE q = r
  <2>1. /\ runs'[r] \in {runs[r], run} /\ ledger'[r] \in {ledger[r], run}
        /\ run # NoRun /\ runs[r] # NoRun
        /\ Live(run) => Live(runs[r])
        /\ ~Live(runs[r]) => run.state = runs[r].state
        /\ active[r] # "released"
    BY <1>0, SentinelAssumption DEF Rewrites
  <2>2. \/ /\ active'[r] = active[r] /\ active[r] # "finishing"
           /\ Live(runs[r]) => Live(run)
        \/ /\ active'[r] = "finishing" /\ active[r] # "none"
           /\ Final(run) /\ runs'[r] = run
           /\ run.cancel_requested => run.state = "Cancelled"
        \/ /\ active'[r] = "released" /\ active[r] # "none"
           /\ Final(run) /\ runs'[r] = run /\ ledger'[r] = run
    BY <1>0 DEF Rewrites
  <2>3. EntryMatches(r)'
    BY <1>0, <2>1, <2>2 DEF EntryMatches, Final, ActiveState
  <2>4. OutcomeAgrees(r)'
    <3>1. CASE ledger'[r] = run
      BY <2>1, <2>2, <3>1 DEF OutcomeAgrees, Final
    <3>2. CASE ledger'[r] = ledger[r]
      <4>1. CASE ledger[r] # NoRun /\ ~Live(ledger[r])
        <5>1. runs[r].state = ledger[r].state
          BY <1>0, <2>1, <4>1 DEF OutcomeAgrees
        <5>2. ~Live(runs[r])
          BY <4>1, <5>1 DEF Live
        <5> QED BY <2>1, <3>2, <5>1, <5>2 DEF OutcomeAgrees
      <4>2. CASE ~(ledger[r] # NoRun /\ ~Live(ledger[r]))
        BY <3>2, <4>2 DEF OutcomeAgrees
      <4> QED BY <4>1, <4>2
    <3> QED BY <2>1, <3>1, <3>2
  <2> QED BY <1>2, <2>3, <2>4
<1> QED BY <1>1, <1>2

\* The record of a start is live and owned, or its save failed and there is
\* none; on disk it is live in any case.
LEMMA EntriesCommit ==
    ASSUME RegistryInv, BooksInv, EntriesInv, NEW r \in RunIds, NEW ok \in BOOLEAN,
           BeginCommit(r, ok)
    PROVE  EntriesInv'
<1> DEFINE run == [operation |-> pending[r].operation, task |-> pending[r].task,
                   state |-> "Preparing", cancel_requested |-> FALSE,
                   cleanup_confirmed |-> FALSE]
           book == [runs EXCEPT ![r] = run]
<1>0. /\ runs \in [RunIds -> RunRecord \union {NoRun}]
      /\ active \in [RunIds -> ActiveState]
  BY DEF RegistryInv, RecordsInv, RecordsTypeOK
<1>1. /\ pending[r] # NoTicket
      /\ \/ runs' = book /\ active' = [active EXCEPT ![r] = "owned"] /\ ledger' = book
         \/ UNCHANGED <<runs, active>> /\ ledger' \in {ledger, book}
  BY DEF BeginCommit, Save
<1>2. Live(run) /\ run # NoRun
  <2>1. pending[r] \in Ticket
    BY <1>1 DEF RegistryInv, RecordsInv, RecordsTypeOK
  <2>2. run \in RunRecord /\ Live(run)
    BY <2>1 DEF Ticket, RunRecord, RunState, LiveState, Live
  <2> QED BY <2>2, SentinelAssumption
<1> HIDE DEF run
<1>3. book[r] = run /\ \A q \in RunIds : q # r => book[q] = runs[q]
  BY <1>0
<1>4. runs[r] = NoRun /\ active[r] = "none"
  BY <1>1 DEF BooksInv, TicketsSound
<1>5. ASSUME NEW q \in RunIds, q # r PROVE EntryMatches(q)' /\ OutcomeAgrees(q)'
  <2>1. /\ runs'[q] = runs[q] /\ active'[q] = active[q] /\ ledger'[q] \in {ledger[q], runs[q]}
    BY <1>0, <1>1, <1>3, <1>5
  <2> QED BY <2>1, EntryFrame DEF EntriesInv
<1>6. EntryMatches(r)' /\ OutcomeAgrees(r)'
  <2>1. CASE runs' = book /\ active' = [active EXCEPT ![r] = "owned"] /\ ledger' = book
    BY <1>0, <1>2, <1>3, <2>1 DEF EntryMatches, OutcomeAgrees
  <2>2. CASE UNCHANGED <<runs, active>>
    BY <1>4, <2>2 DEF EntryMatches, OutcomeAgrees
  <2> QED BY <1>1, <2>1, <2>2
<1> QED BY <1>5, <1>6 DEF EntriesInv

\* After a restart the memory is what was saved, without live records.
LEMMA EntriesOpen ==
    ASSUME RegistryInv, Stopped, EntriesInv, NEW gone \in SUBSET RunIds, NEW ok \in BOOLEAN,
           Open(gone, ok)
    PROVE  EntriesInv'
<1>1. /\ \A r \in RunIds : active'[r] = "none"
      /\ \A r \in RunIds : runs[r] = NoRun
  BY DEF Open, RegistryInv, RecordsInv, NothingKept, Stopped
<1>2. CASE ~ok
  BY <1>1, <1>2 DEF Open, EntriesInv, EntryMatches, OutcomeAgrees
<1>3. CASE ok
  <2>1. runs' = Without(Recovered, gone) /\ ledger' = Without(Recovered, gone)
    BY <1>3 DEF Open, Save
  <2>2. \A r \in RunIds : runs'[r] # NoRun => ~Live(runs'[r])
    <3> SUFFICES ASSUME NEW r \in RunIds, runs'[r] # NoRun PROVE ~Live(runs'[r])
      OBVIOUS
    <3>1. runs'[r] = Recovered[r] /\ ledger[r] # NoRun
      BY <2>1 DEF Without, Recovered
    <3>2. ledger[r] \in RunRecord
      BY <3>1 DEF RegistryInv, RecordsInv, RecordsTypeOK
    <3> QED BY <3>1, <3>2, RecordUpdates DEF Recovered
  <2> QED BY <1>1, <2>1, <2>2 DEF EntriesInv, EntryMatches, OutcomeAgrees
<1> QED BY <1>2, <1>3

LEMMA EntriesStep ==
    ASSUME RegistryInv, BooksInv, EntriesInv, Stopped, [RegistryNext]_vars
    PROVE  EntriesInv'
<1>0. /\ runs \in [RunIds -> RunRecord \union {NoRun}]
      /\ active \in [RunIds -> ActiveState]
  BY DEF RegistryInv, RecordsInv, RecordsTypeOK
<1>a. ASSUME \A r \in RunIds :
                /\ ledger'[r] \in {NoRun, ledger[r], runs[r], runs'[r]}
                /\ \/ runs'[r] = runs[r] /\ active'[r] = active[r]
                   \/ runs'[r] = NoRun /\ active'[r] = "none"
      PROVE  EntriesInv'
  BY <1>a, EntryFrame DEF EntriesInv
<1>1. CASE Quiet
  BY <1>1, <1>a, QuietKeeps
<1>2. ASSUME NEW r \in RunIds, NEW run \in RunRecord, Rewrites(r, run) PROVE EntriesInv'
  BY <1>2, EntriesRewritten
<1>3. ASSUME NEW gone \in SUBSET RunIds, HistoryCut(gone) PROVE EntriesInv'
  <2>1. \A r \in RunIds : ledger'[r] \in {ledger[r], runs[r], runs'[r]}
    BY <1>3, CutEffect
  <2> QED BY <1>3, <1>a, <2>1, CutEffect
<1>4. ASSUME NEW r \in RunIds, NEW op \in RunOperations, NEW t \in Tasks,
             NEW parallel \in BOOLEAN, NEW gone \in SUBSET RunIds,
             BeginReserve(r, op, t, parallel, gone)
      PROVE  EntriesInv'
  BY <1>3, <1>4 DEF BeginReserve
<1>5. ASSUME NEW op \in RunOperations, NEW t \in Tasks,
             NEW parallel \in BOOLEAN, NEW gone \in SUBSET RunIds,
             BeginRefused(op, t, parallel, gone)
      PROVE  EntriesInv'
  BY <1>3, <1>5 DEF BeginRefused
<1>6. ASSUME NEW r \in RunIds, NEW op \in RunOperations, NEW t \in Tasks,
             NEW parallel \in BOOLEAN, HistoryCutFails(op, t, parallel, r)
      PROVE  EntriesInv'
  <2>1. UNCHANGED <<runs, active>> /\ ledger' \in {ledger, Without(runs, {r})}
    BY <1>6 DEF HistoryCutFails, Save
  <2>2. \A q \in RunIds : ledger'[q] \in {NoRun, ledger[q], runs[q]}
    BY <2>1 DEF Without
  <2> QED BY <1>a, <2>1, <2>2
<1>7. ASSUME NEW r \in RunIds, BeginAbandon(r) PROVE EntriesInv'
  BY <1>7, <1>a DEF BeginAbandon
<1>8. ASSUME NEW r \in RunIds, FinishProbe(r) PROVE EntriesInv'
  <2>1. /\ active[r] \in {"owned", "finishing"} /\ UNCHANGED <<runs, ledger>>
        /\ active'[r] = "finishing" /\ \A q \in RunIds : q # r => active'[q] = active[q]
    BY <1>0, <1>8 DEF FinishProbe
  <2>2. \A q \in RunIds : q # r => EntryMatches(q)'
    BY <2>1 DEF EntriesInv, EntryMatches
  <2>3. EntryMatches(r)'
    BY <2>1 DEF EntriesInv, EntryMatches
  <2>4. \A q \in RunIds : OutcomeAgrees(q)'
    BY <2>1 DEF EntriesInv, OutcomeAgrees
  <2> QED BY <2>2, <2>3, <2>4 DEF EntriesInv
<1>9. ASSUME NEW r \in RunIds, NEW ok \in BOOLEAN, BeginCommit(r, ok) PROVE EntriesInv'
  BY <1>9, EntriesCommit
<1>10. ASSUME NEW gone \in SUBSET RunIds, NEW ok \in BOOLEAN, Open(gone, ok)
       PROVE  EntriesInv'
  BY <1>10, EntriesOpen
<1>11. CASE WorkerEnds
  BY <1>11, <1>a DEF WorkerEnds
<1>12. CASE DropActive \/ Crash
  BY <1>12, <1>a DEF DropActive, Crash, RegistryLost
<1> QED
  BY <1>1, <1>2, <1>4, <1>5, <1>6, <1>7, <1>8, <1>9, <1>10, <1>11, <1>12, StepKinds
-----------------------------------------------------------------------------
(* The history is bounded.                                                 *)

\* Steps that add neither records nor tickets, and save no more than the memory
\* or the ledger had.
LEMMA BoundedFrame ==
    ASSUME BoundedInv, Recorded(runs') \subseteq Recorded(runs), PendingIds' \subseteq PendingIds,
           \/ Recorded(ledger') \subseteq Recorded(ledger)
           \/ Recorded(ledger') \subseteq Recorded(runs)
    PROVE  BoundedInv'
<1>1. /\ IsFiniteSet(Recorded(runs')) /\ IsFiniteSet(PendingIds')
      /\ Cardinality(Recorded(runs')) <= Cardinality(Recorded(runs))
      /\ Cardinality(PendingIds') <= Cardinality(PendingIds)
  BY FS_Subset DEF BoundedInv
<1>2. /\ Cardinality(Recorded(runs)) \in Nat /\ Cardinality(PendingIds) \in Nat
      /\ Cardinality(Recorded(runs')) \in Nat /\ Cardinality(PendingIds') \in Nat
  BY <1>1, FS_CardinalityType DEF BoundedInv
<1>3. HistoryLimit \in Nat
  BY RegistryAssumption
<1>4. /\ IsFiniteSet(Recorded(ledger'))
      /\ \/ Cardinality(Recorded(ledger')) <= Cardinality(Recorded(ledger))
         \/ Cardinality(Recorded(ledger')) <= Cardinality(Recorded(runs))
  BY FS_Subset DEF BoundedInv, BookBounded
<1>5. Cardinality(Recorded(ledger')) \in Nat /\ Cardinality(Recorded(ledger)) \in Nat
  BY <1>4, FS_CardinalityType DEF BoundedInv, BookBounded
<1>6. BookBounded(ledger')
  BY <1>2, <1>3, <1>4, <1>5 DEF BoundedInv, BookBounded, HistoryBounded
<1>7. HistoryBounded'
  BY <1>1, <1>2, <1>3 DEF BoundedInv, HistoryBounded
<1> QED BY <1>1, <1>6, <1>7 DEF BoundedInv

\* A ticket is taken only where the history has room for its record.
LEMMA BoundedReserve ==
    ASSUME RegistryInv, EntriesInv, BoundedInv, NEW r \in RunIds, NEW op \in RunOperations,
           NEW t \in Tasks, NEW parallel \in BOOLEAN, NEW gone \in SUBSET RunIds,
           BeginReserve(r, op, t, parallel, gone)
    PROVE  BoundedInv'
<1> DEFINE left == Recorded(runs) \ gone
<1>1. HistoryCut(gone) /\ RoomAfter(gone)
  BY DEF BeginReserve
<1>2. Recorded(runs') = left
  BY <1>1, CutEffect DEF Recorded
<1>3. PendingIds' = PendingIds \union {r} /\ r \notin PendingIds
  <2>1. [operation |-> op, task |-> t] # NoTicket
    BY SentinelAssumption DEF Ticket
  <2> QED
    BY <2>1 DEF BeginReserve, Unissued, PendingIds, RegistryInv, RecordsInv, RecordsTypeOK
<1>4. /\ IsFiniteSet(left) /\ IsFiniteSet(PendingIds')
      /\ Cardinality(PendingIds') = Cardinality(PendingIds) + 1
      /\ Cardinality(left) + Cardinality(PendingIds) < HistoryLimit
  BY <1>1, <1>3, FS_Subset, FS_AddElement DEF BoundedInv, RoomAfter
<1>5. Cardinality(left) \in Nat /\ Cardinality(PendingIds) \in Nat /\ HistoryLimit \in Nat
  BY <1>4, FS_CardinalityType, RegistryAssumption DEF BoundedInv
<1>6. HistoryBounded'
  <2>1. Cardinality(left) + Cardinality(PendingIds') <= HistoryLimit
    BY <1>4, <1>5
  <2> QED BY <1>2, <2>1 DEF HistoryBounded
<1>7. BookBounded(ledger')
  <2>1. Recorded(ledger') \subseteq Recorded(ledger) \/ Recorded(ledger') \subseteq Recorded(runs)
    BY <1>1, CutEffect DEF Recorded, Without
  <2>2. CASE Recorded(ledger') \subseteq Recorded(ledger)
    <3>1. /\ IsFiniteSet(Recorded(ledger'))
          /\ Cardinality(Recorded(ledger')) <= Cardinality(Recorded(ledger))
      BY <2>2, FS_Subset DEF BoundedInv, BookBounded
    <3>2. Cardinality(Recorded(ledger')) \in Nat /\ Cardinality(Recorded(ledger)) \in Nat
      BY <3>1, FS_CardinalityType DEF BoundedInv, BookBounded
    <3> QED BY <1>5, <3>1, <3>2 DEF BoundedInv, BookBounded
  <2>3. CASE Recorded(ledger') \subseteq Recorded(runs)
    <3>1. /\ IsFiniteSet(Recorded(ledger'))
          /\ Cardinality(Recorded(ledger')) <= Cardinality(Recorded(runs))
      BY <2>3, FS_Subset DEF BoundedInv
    <3>2. Cardinality(Recorded(ledger')) \in Nat /\ Cardinality(Recorded(runs)) \in Nat
      BY <3>1, FS_CardinalityType DEF BoundedInv
    <3> QED BY <1>5, <3>1, <3>2 DEF BoundedInv, BookBounded, HistoryBounded
  <2> QED BY <2>1, <2>2, <2>3
<1> QED BY <1>2, <1>4, <1>6, <1>7 DEF BoundedInv

\* The record takes the room that its ticket had.
LEMMA BoundedCommit ==
    ASSUME RegistryInv, BooksInv, BoundedInv, NEW r \in RunIds, NEW ok \in BOOLEAN,
           BeginCommit(r, ok)
    PROVE  BoundedInv'
<1> DEFINE run == [operation |-> pending[r].operation, task |-> pending[r].task,
                   state |-> "Preparing", cancel_requested |-> FALSE,
                   cleanup_confirmed |-> FALSE]
           book == [runs EXCEPT ![r] = run]
           after == Recorded(runs) \union {r}
<1>0. runs \in [RunIds -> RunRecord \union {NoRun}]
  BY DEF RegistryInv, RecordsInv, RecordsTypeOK
<1>1. /\ pending[r] # NoTicket /\ pending' = [pending EXCEPT ![r] = NoTicket]
      /\ runs' \in {runs, book} /\ ledger' \in {ledger, book}
  BY DEF BeginCommit, Save
<1>2. run # NoRun
  <2>1. pending[r] \in Ticket
    BY <1>1 DEF RegistryInv, RecordsInv, RecordsTypeOK
  <2>2. run \in RunRecord
    BY <2>1 DEF Ticket, RunRecord, RunState, LiveState
  <2> QED BY <2>2, SentinelAssumption
<1> HIDE DEF run
<1>3. Recorded(book) = after
  BY <1>0, <1>2 DEF Recorded
<1> HIDE DEF book
<1>4. r \notin Recorded(runs) /\ r \in PendingIds /\ PendingIds' = PendingIds \ {r}
  BY <1>1 DEF BooksInv, TicketsSound, Recorded, PendingIds, RegistryInv, RecordsInv, RecordsTypeOK
<1>5. /\ IsFiniteSet(after) /\ Cardinality(after) = Cardinality(Recorded(runs)) + 1
      /\ IsFiniteSet(PendingIds') /\ Cardinality(PendingIds') = Cardinality(PendingIds) - 1
  BY <1>4, FS_AddElement, FS_RemoveElement DEF BoundedInv
<1>6. /\ Cardinality(Recorded(runs)) \in Nat /\ Cardinality(PendingIds) \in Nat
      /\ Cardinality(PendingIds') \in Nat /\ HistoryLimit \in Nat
  BY <1>5, FS_CardinalityType, RegistryAssumption DEF BoundedInv
<1>7. Cardinality(Recorded(runs)) + Cardinality(PendingIds) <= HistoryLimit
  BY DEF BoundedInv, HistoryBounded
<1>8. Cardinality(after) <= HistoryLimit
  BY <1>5, <1>6, <1>7
<1>9. BookBounded(ledger')
  BY <1>1, <1>3, <1>5, <1>8 DEF BookBounded, BoundedInv
<1>10. CASE runs' = book
  <2>1. Cardinality(after) + Cardinality(PendingIds') <= HistoryLimit
    BY <1>5, <1>6, <1>7
  <2> QED BY <1>3, <1>5, <1>9, <1>10, <2>1 DEF BoundedInv, HistoryBounded
<1>11. CASE runs' = runs
  <2>1. Cardinality(Recorded(runs)) + Cardinality(PendingIds') <= HistoryLimit
    BY <1>5, <1>6, <1>7
  <2> QED BY <1>5, <1>9, <1>11, <2>1 DEF BoundedInv, HistoryBounded
<1> QED BY <1>1, <1>10, <1>11

\* What a restart loads is at most what was saved, and no start is pending.
LEMMA BoundedOpen ==
    ASSUME RegistryInv, Stopped, BoundedInv, NEW gone \in SUBSET RunIds, NEW ok \in BOOLEAN,
           Open(gone, ok)
    PROVE  BoundedInv'
<1> DEFINE book == Without(Recovered, gone)
<1>1. /\ runs' \in {runs, book} /\ ledger' \in {ledger, book}
      /\ PendingIds = {} /\ PendingIds' = {} /\ Recorded(runs) = {}
  BY DEF Open, Save, PendingIds, Recorded, RegistryInv, RecordsInv, NothingKept, Stopped
<1>2. Recorded(book) \subseteq Recorded(ledger)
  BY DEF Recorded, Without, Recovered
<1> HIDE DEF book
<1>3. BookBounded(book)
  <2>1. /\ IsFiniteSet(Recorded(book))
        /\ Cardinality(Recorded(book)) <= Cardinality(Recorded(ledger))
    BY <1>2, FS_Subset DEF BoundedInv, BookBounded
  <2>2. /\ Cardinality(Recorded(book)) \in Nat /\ Cardinality(Recorded(ledger)) \in Nat
        /\ HistoryLimit \in Nat
    BY <2>1, FS_CardinalityType, RegistryAssumption DEF BoundedInv, BookBounded
  <2> QED BY <2>1, <2>2 DEF BoundedInv, BookBounded
<1>4. BookBounded(ledger')
  BY <1>1, <1>3 DEF BoundedInv
<1>5. /\ IsFiniteSet(PendingIds') /\ Cardinality(PendingIds') = 0
      /\ IsFiniteSet(Recorded(runs)) /\ Cardinality(Recorded(runs)) = 0
  BY <1>1, FS_EmptySet
<1>6. CASE runs' = book
  <2>1. Cardinality(Recorded(book)) \in Nat /\ Cardinality(Recorded(book)) <= HistoryLimit
    BY <1>3, FS_CardinalityType DEF BookBounded
  <2>2. Cardinality(Recorded(book)) + Cardinality(PendingIds') <= HistoryLimit
    BY <1>5, <2>1
  <2> QED BY <1>3, <1>4, <1>5, <1>6, <2>2 DEF BoundedInv, BookBounded, HistoryBounded
<1>7. CASE runs' = runs
  <2>1. Cardinality(Recorded(runs)) + Cardinality(PendingIds') <= HistoryLimit
    BY <1>5, RegistryAssumption
  <2> QED BY <1>4, <1>5, <1>7, <2>1 DEF BoundedInv, HistoryBounded
<1> QED BY <1>1, <1>6, <1>7

LEMMA BoundedStep ==
    ASSUME RegistryInv, BooksInv, EntriesInv, Stopped, BoundedInv, [RegistryNext]_vars
    PROVE  BoundedInv'
<1>0. /\ runs \in [RunIds -> RunRecord \union {NoRun}]
      /\ pending \in [RunIds -> Ticket \union {NoTicket}]
  BY DEF RegistryInv, RecordsInv, RecordsTypeOK
<1>1. CASE Quiet
  BY <1>1, QuietKeeps, BoundedFrame DEF PendingIds
<1>2. ASSUME NEW r \in RunIds, NEW run \in RunRecord, Rewrites(r, run) PROVE BoundedInv'
  <2>1. Recorded(runs') \subseteq Recorded(runs) /\ PendingIds' = PendingIds
    BY <1>0, <1>2 DEF Rewrites, Recorded, PendingIds
  <2>2. \/ Recorded(ledger') \subseteq Recorded(ledger)
        \/ Recorded(ledger') \subseteq Recorded(runs)
    BY <1>0, <1>2 DEF Rewrites, Recorded
  <2> QED BY <2>1, <2>2, BoundedFrame
<1>3. ASSUME NEW r \in RunIds, NEW op \in RunOperations, NEW t \in Tasks,
             NEW parallel \in BOOLEAN, NEW gone \in SUBSET RunIds,
             BeginReserve(r, op, t, parallel, gone)
      PROVE  BoundedInv'
  BY <1>3, BoundedReserve
<1>4. ASSUME NEW op \in RunOperations, NEW t \in Tasks, NEW parallel \in BOOLEAN,
             NEW gone \in SUBSET RunIds, BeginRefused(op, t, parallel, gone)
      PROVE  BoundedInv'
  <2>1. HistoryCut(gone) /\ PendingIds' = PendingIds
    BY <1>4 DEF BeginRefused, PendingIds
  <2>2. /\ Recorded(runs') \subseteq Recorded(runs)
        /\ \/ Recorded(ledger') \subseteq Recorded(ledger)
           \/ Recorded(ledger') \subseteq Recorded(runs)
    BY <2>1, CutEffect DEF Recorded, Without
  <2> QED BY <2>1, <2>2, BoundedFrame
<1>5. ASSUME NEW r \in RunIds, NEW op \in RunOperations, NEW t \in Tasks,
             NEW parallel \in BOOLEAN, HistoryCutFails(op, t, parallel, r)
      PROVE  BoundedInv'
  <2>1. UNCHANGED <<runs, pending>> /\ ledger' \in {ledger, Without(runs, {r})}
    BY <1>5 DEF HistoryCutFails, Save
  <2>2. \/ Recorded(ledger') \subseteq Recorded(ledger)
        \/ Recorded(ledger') \subseteq Recorded(runs)
    BY <2>1 DEF Recorded, Without
  <2> QED BY <2>1, <2>2, BoundedFrame DEF PendingIds
<1>6. ASSUME NEW r \in RunIds, BeginAbandon(r) \/ FinishProbe(r) PROVE BoundedInv'
  <2>1. UNCHANGED <<runs, ledger>> /\ PendingIds' \subseteq PendingIds
    BY <1>0, <1>6 DEF BeginAbandon, FinishProbe, PendingIds
  <2> QED BY <2>1, BoundedFrame
<1>7. ASSUME NEW r \in RunIds, NEW ok \in BOOLEAN, BeginCommit(r, ok) PROVE BoundedInv'
  BY <1>7, BoundedCommit
<1>8. ASSUME NEW gone \in SUBSET RunIds, NEW ok \in BOOLEAN, Open(gone, ok)
      PROVE  BoundedInv'
  BY <1>8, BoundedOpen
<1>9. CASE WorkerEnds \/ DropActive \/ Crash
  <2>1. /\ ledger' = ledger /\ Recorded(runs') \subseteq Recorded(runs)
        /\ PendingIds' \subseteq PendingIds
    BY <1>9 DEF WorkerEnds, DropActive, Crash, RegistryLost, Recorded, PendingIds
  <2> QED BY <2>1, BoundedFrame
<1> QED
  BY <1>1, <1>2, <1>3, <1>4, <1>5, <1>6, <1>7, <1>8, <1>9, StepKinds
-----------------------------------------------------------------------------
(* A registry that does not work.                                          *)

\* Nothing is pending once the worker ended, and no lease or mutation is left
\* where there is no host.
LEMMA StoppedStep ==
    ASSUME RegistryInv, EntriesInv, Stopped, [RegistryNext]_vars
    PROVE  Stopped'
<1>0. /\ pending \in [RunIds -> Ticket \union {NoTicket}]
      /\ active \in [RunIds -> ActiveState]
      /\ gate \in [Sources -> GateState]
      /\ registry = "open" => MemoryCover
      /\ registry = "down" => NothingKept
  BY DEF RegistryInv, RecordsInv, RecordsTypeOK, GateTypeOK
<1>a. registry' = "open" => Stopped'
  BY DEF Stopped
<1>1. CASE Quiet
  <2>1. CASE UNCHANGED vars
    BY <2>1 DEF vars, gateVars, registryVars, Stopped, MemoryCover, Covers, Holds
  <2>2. CASE (\E r \in RunIds : SpawnProcess(r)) \/ (\E s \in Sources : PublishSource(s))
    BY <2>2, <1>a DEF SpawnProcess, PublishSource, Idle
  <2>3. ASSUME NEW r \in RunIds, ChildExits(r) PROVE Stopped'
    <3>1. /\ UNCHANGED <<gate, lease, runs, pending, active, registry>>
          /\ \A q \in RunIds : child'[q] # NoTask => child'[q] = child[q]
      BY <2>3 DEF ChildExits, gateVars, RegistryInv, RecordsInv, RecordsTypeOK
    <3> QED BY <3>1 DEF Stopped, MemoryCover, Covers, Holds
  <2>4. CASE CloseSources
    BY <2>4 DEF CloseSources, Stopped
  <2>5. CASE GateUsers
    BY <2>5 DEF GateUsers, registryVars, Stopped, MemoryCover, Covers
  <2> QED BY <1>1, <2>1, <2>2, <2>3, <2>4, <2>5 DEF Quiet
<1>2. ASSUME NEW r \in RunIds, NEW run \in RunRecord, Rewrites(r, run) PROVE Stopped'
  BY <1>2, <1>a DEF Rewrites
<1>3. ASSUME NEW r \in RunIds, NEW op \in RunOperations, NEW t \in Tasks,
             NEW parallel \in BOOLEAN, NEW gone \in SUBSET RunIds,
             BeginReserve(r, op, t, parallel, gone)
      PROVE  Stopped'
  BY <1>3, <1>a DEF BeginReserve, Idle
<1>4. ASSUME NEW op \in RunOperations, NEW t \in Tasks, NEW parallel \in BOOLEAN,
             NEW gone \in SUBSET RunIds, BeginRefused(op, t, parallel, gone)
      PROVE  Stopped'
  BY <1>4, <1>a DEF BeginRefused, Idle
<1>5. ASSUME NEW r \in RunIds, NEW op \in RunOperations, NEW t \in Tasks,
             NEW parallel \in BOOLEAN, HistoryCutFails(op, t, parallel, r)
      PROVE  Stopped'
  BY <1>5, <1>a DEF HistoryCutFails, Idle
<1>6. ASSUME NEW r \in RunIds, BeginAbandon(r) \/ FinishProbe(r) PROVE Stopped'
  BY <1>6, <1>a DEF BeginAbandon, FinishProbe, Idle
<1>7. ASSUME NEW r \in RunIds, NEW ok \in BOOLEAN, BeginCommit(r, ok) PROVE Stopped'
  BY <1>7, <1>a DEF BeginCommit, Idle
<1>8. ASSUME NEW gone \in SUBSET RunIds, NEW ok \in BOOLEAN, Open(gone, ok) PROVE Stopped'
  <2>1. CASE ok
    BY <1>8, <1>a, <2>1 DEF Open
  <2>2. CASE ~ok
    <3>1. /\ registry = "down" /\ UNCHANGED <<lease, runs, pending, active, registry>>
          /\ \A s \in Sources : gate'[s] = WithProvider(gate[s], FALSE)
      BY <1>8, <2>2 DEF Open
    <3>2. \A s \in Sources : gate'[s].mutation = gate[s].mutation
      BY <1>0, <3>1, GateStateEffects
    <3> QED BY <3>1, <3>2 DEF Stopped, Holds
  <2> QED BY <2>1, <2>2
<1>9. CASE WorkerEnds
  BY <1>0, <1>9 DEF WorkerEnds, Stopped, MemoryCover, Covers
<1>10. CASE DropActive
  BY <1>10 DEF DropActive, Stopped
<1>11. CASE Crash
  BY <1>11 DEF Crash, RegistryLost, Stopped, Holds, DefaultGate
<1> QED
  BY <1>1, <1>2, <1>3, <1>4, <1>5, <1>6, <1>7, <1>8, <1>9, <1>10, <1>11, StepKinds
-----------------------------------------------------------------------------
(* The leases of the runs.                                                 *)

\* A run has exactly the lease that its ticket or its record asks for.
LeaseOK(r) ==
    /\ Holds(r) <=> InUse(r) /\ SourceOf[TaskOf(r)] # NoSource
    /\ Holds(r) => lease[r] = RunLease(SourceOf[TaskOf(r)], OperationOf(r))

LEMMA LeasesByRun ==
    ASSUME LeaseIffInUse, LeasesMatch PROVE \A r \in RunIds : LeaseOK(r)
BY DEF LeaseIffInUse, LeasesMatch, LeaseOK, TaskOf

\* A run whose lease, ticket and use stay.
LEMMA LeaseKept ==
    ASSUME NEW r \in RunIds, LeaseOK(r), lease'[r] = lease[r], pending'[r] = pending[r],
           active'[r] \in {"owned", "finishing"} <=> active[r] \in {"owned", "finishing"},
           (pending[r] = NoTicket /\ active[r] \in {"owned", "finishing"})
               => /\ runs'[r].task = runs[r].task
                  /\ runs'[r].operation = runs[r].operation
    PROVE  LeaseOK(r)'
BY DEF LeaseOK, Holds, InUse, TaskOf, OperationOf

\* A run whose lease goes with its ticket or entry.
LEMMA LeaseGone ==
    ASSUME NEW r \in RunIds, lease'[r] = NoLease, pending'[r] = NoTicket,
           active'[r] \notin {"owned", "finishing"}
    PROVE  LeaseOK(r)'
BY DEF LeaseOK, Holds, InUse

LEMMA DropOneLease ==
    ASSUME GateTypeOK, NEW h \in Holders, DropOne(h)
    PROVE  lease'[h] = NoLease /\ \A k \in Holders : k # h => lease'[k] = lease[k]
BY DEF GateTypeOK, DropOne

LEMMA LeasesReserve ==
    ASSUME RegistryInv, EntriesInv, BooksInv, \A q \in RunIds : LeaseOK(q),
           NEW r \in RunIds, NEW op \in RunOperations,
           NEW t \in Tasks, NEW parallel \in BOOLEAN, NEW gone \in SUBSET RunIds,
           BeginReserve(r, op, t, parallel, gone)
    PROVE  \A q \in RunIds : LeaseOK(q)'
<1>0. /\ lease \in [Holders -> GateLease \union {NoLease}]
      /\ pending \in [RunIds -> Ticket \union {NoTicket}]
      /\ RunIds \subseteq Holders
  BY RegistryAssumption DEF RegistryInv, RecordsInv, RecordsTypeOK, GateTypeOK
<1>1. /\ HistoryCut(gone) /\ Unissued(r)
      /\ pending' = [pending EXCEPT ![r] = [operation |-> op, task |-> t]]
      /\ \/ SourceOf[t] = NoSource /\ UNCHANGED lease
         \/ SourceOf[t] # NoSource /\ lease' = [lease EXCEPT ![r] = RunLease(SourceOf[t], op)]
  BY DEF BeginReserve, gateVars
<1>2. ASSUME NEW q \in RunIds, q # r PROVE LeaseOK(q)'
  <2>1. lease'[q] = lease[q] /\ pending'[q] = pending[q]
    BY <1>0, <1>1, <1>2
  <2>2. /\ active'[q] \in {"owned", "finishing"} <=> active[q] \in {"owned", "finishing"}
        /\ active[q] \in {"owned", "finishing"} => runs'[q] = runs[q]
    BY <1>1, CutEffect
  <2> QED BY <2>1, <2>2, LeaseKept
<1>3. LeaseOK(r)'
  <2>1. /\ pending'[r] # NoTicket /\ pending'[r].task = t /\ pending'[r].operation = op
    <3>1. [operation |-> op, task |-> t] # NoTicket
      BY SentinelAssumption DEF Ticket
    <3> QED BY <1>0, <1>1, <3>1
  <2>2. CASE SourceOf[t] = NoSource /\ UNCHANGED lease
    BY <1>1, <2>1, <2>2 DEF LeaseOK, Holds, InUse, TaskOf, OperationOf, Unissued
  <2>3. CASE SourceOf[t] # NoSource /\ lease' = [lease EXCEPT ![r] = RunLease(SourceOf[t], op)]
    <3>1. SourceOf[t] \in Sources /\ op \in Operations
      BY <2>3, RegistryAssumption
    <3>2. RunLease(SourceOf[t], op) \in GateLease
      BY <3>1 DEF RunLease, GateLease
    <3>3. lease'[r] = RunLease(SourceOf[t], op) /\ lease'[r] # NoLease
      BY <1>0, <2>3, <3>2, GateAssumption DEF GateLease
    <3> QED BY <2>1, <2>3, <3>3 DEF LeaseOK, Holds, InUse, TaskOf, OperationOf
  <2> QED BY <1>1, <2>2, <2>3
<1> QED BY <1>2, <1>3

LEMMA LeasesCommit ==
    ASSUME RegistryInv, BooksInv, \A q \in RunIds : LeaseOK(q),
           NEW r \in RunIds, NEW ok \in BOOLEAN, BeginCommit(r, ok)
    PROVE  \A q \in RunIds : LeaseOK(q)'
<1> DEFINE run == [operation |-> pending[r].operation, task |-> pending[r].task,
                   state |-> "Preparing", cancel_requested |-> FALSE,
                   cleanup_confirmed |-> FALSE]
<1>0. /\ runs \in [RunIds -> RunRecord \union {NoRun}]
      /\ active \in [RunIds -> ActiveState]
      /\ pending \in [RunIds -> Ticket \union {NoTicket}]
      /\ GateTypeOK /\ r \in Holders /\ RunIds \subseteq Holders
  BY RegistryAssumption DEF RegistryInv, RecordsInv, RecordsTypeOK
<1>1. /\ pending[r] # NoTicket /\ pending' = [pending EXCEPT ![r] = NoTicket]
      /\ \/ /\ runs' = [runs EXCEPT ![r] = run] /\ active' = [active EXCEPT ![r] = "owned"]
            /\ UNCHANGED lease
         \/ UNCHANGED <<runs, active>> /\ DropOne(r)
  BY DEF BeginCommit, gateVars
<1>2. run.operation = pending[r].operation /\ run.task = pending[r].task
  OBVIOUS
<1> HIDE DEF run
<1>3. active[r] = "none"
  BY <1>1 DEF BooksInv, TicketsSound
<1>4. ASSUME NEW q \in RunIds, q # r PROVE LeaseOK(q)'
  <2>1. /\ pending'[q] = pending[q] /\ runs'[q] = runs[q] /\ active'[q] = active[q]
        /\ lease'[q] = lease[q]
    BY <1>0, <1>1, <1>4, DropOneLease
  <2> QED BY <2>1, LeaseKept
<1>5. LeaseOK(r)'
  <2>1. pending'[r] = NoTicket
    BY <1>0, <1>1
  <2>2. CASE /\ runs' = [runs EXCEPT ![r] = run] /\ active' = [active EXCEPT ![r] = "owned"]
             /\ UNCHANGED lease
    <3>1. runs'[r] = run /\ active'[r] = "owned" /\ lease'[r] = lease[r]
      BY <1>0, <2>2
    <3> QED BY <1>1, <1>2, <2>1, <3>1 DEF LeaseOK, Holds, InUse, TaskOf, OperationOf
  <2>3. CASE UNCHANGED <<runs, active>> /\ DropOne(r)
    <3>1. lease'[r] = NoLease /\ active'[r] = "none"
      BY <1>0, <1>3, <2>3, DropOneLease
    <3> QED BY <2>1, <3>1, LeaseGone
  <2> QED BY <1>1, <2>2, <2>3
<1> QED BY <1>4, <1>5

LEMMA LeasesRewritten ==
    ASSUME RegistryInv, BooksInv, \A q \in RunIds : LeaseOK(q),
           NEW r \in RunIds, NEW run \in RunRecord, Rewrites(r, run)
    PROVE  \A q \in RunIds : LeaseOK(q)'
<1>0. /\ runs \in [RunIds -> RunRecord \union {NoRun}]
      /\ active \in [RunIds -> ActiveState]
      /\ GateTypeOK /\ r \in Holders /\ RunIds \subseteq Holders
  BY RegistryAssumption DEF RegistryInv, RecordsInv, RecordsTypeOK
<1>1. /\ pending' = pending /\ pending[r] = NoTicket
      /\ runs'[r].task = runs[r].task /\ runs'[r].operation = runs[r].operation
      /\ \A q \in RunIds : q # r => runs'[q] = runs[q]
  BY <1>0 DEF Rewrites, BooksInv, TicketsSound
<1>2. \/ UNCHANGED <<lease, active>>
      \/ /\ active' = [active EXCEPT ![r] = "finishing"] /\ active[r] \in {"owned", "finishing"}
         /\ UNCHANGED lease
      \/ active' = [active EXCEPT ![r] = "released"] /\ DropOne(r)
  <2>1. active[r] \in {"none", "owned", "finishing"}
    BY <1>0 DEF Rewrites, ActiveState
  <2> QED BY <2>1 DEF Rewrites, gateVars
<1>3. ASSUME NEW q \in RunIds, q # r PROVE LeaseOK(q)'
  <2>1. active'[q] = active[q] /\ lease'[q] = lease[q]
    BY <1>0, <1>2, <1>3, DropOneLease
  <2> QED BY <1>1, <1>3, <2>1, LeaseKept
<1>4. LeaseOK(r)'
  <2>1. CASE UNCHANGED <<lease, active>>
    BY <1>1, <2>1, LeaseKept
  <2>2. CASE /\ active' = [active EXCEPT ![r] = "finishing"]
             /\ active[r] \in {"owned", "finishing"} /\ UNCHANGED lease
    <3>1. active'[r] = "finishing" /\ lease'[r] = lease[r]
      BY <1>0, <2>2
    <3> QED BY <1>1, <2>2, <3>1, LeaseKept
  <2>3. CASE active' = [active EXCEPT ![r] = "released"] /\ DropOne(r)
    <3>1. active'[r] = "released" /\ lease'[r] = NoLease
      BY <1>0, <2>3, DropOneLease
    <3> QED BY <1>1, <3>1, LeaseGone
  <2> QED BY <1>2, <2>1, <2>2, <2>3
<1> QED BY <1>3, <1>4

\* Leases come and go with tickets and entries, in every step.
LEMMA LeasesStep ==
    ASSUME RegistryInv, EntriesInv, BooksInv, Stopped, LeaseIffInUse, LeasesMatch,
           [RegistryNext]_vars
    PROVE  (LeaseIffInUse /\ LeasesMatch)'
<1> SUFFICES \A q \in RunIds : LeaseOK(q)'
  BY DEF LeaseIffInUse, LeasesMatch, LeaseOK, TaskOf
<1>0. /\ \A q \in RunIds : LeaseOK(q)
      /\ active \in [RunIds -> ActiveState]
      /\ pending \in [RunIds -> Ticket \union {NoTicket}]
      /\ GateTypeOK /\ RunIds \subseteq Holders
  BY LeasesByRun, RegistryAssumption DEF RegistryInv, RecordsInv, RecordsTypeOK
<1>a. ASSUME UNCHANGED <<runs, pending, active>>, \A q \in RunIds : lease'[q] = lease[q]
      PROVE  \A q \in RunIds : LeaseOK(q)'
  BY <1>0, <1>a, LeaseKept
<1>1. CASE Quiet
  <2>1. \A q \in RunIds : lease'[q] = lease[q]
    <3>1. CASE GateUsers
      <4>1. PICK h \in Holders \ RunIds :
               \/ \E s \in Sources, op \in Operations \ RunOperations : ReserveMutation(h, s, op)
               \/ DropLease(h)
        BY <3>1 DEF GateUsers
      <4>2. \A k \in Holders : k # h => lease'[k] = lease[k]
        BY <1>0, <4>1 DEF ReserveMutation, DropLease, GateTypeOK
      <4> QED BY <1>0, <4>1, <4>2
    <3>2. CASE ~GateUsers
      BY <1>1, <3>2
         DEF Quiet, vars, gateVars, SpawnProcess, ChildExits, PublishSource, CloseSources
    <3> QED BY <3>1, <3>2
  <2> QED BY <1>1, <1>a, <2>1, QuietKeeps
<1>2. ASSUME NEW r \in RunIds, NEW run \in RunRecord, Rewrites(r, run)
      PROVE  \A q \in RunIds : LeaseOK(q)'
  BY <1>0, <1>2, LeasesRewritten
<1>3. ASSUME NEW r \in RunIds, NEW op \in RunOperations, NEW t \in Tasks,
             NEW parallel \in BOOLEAN, NEW gone \in SUBSET RunIds,
             BeginReserve(r, op, t, parallel, gone)
      PROVE  \A q \in RunIds : LeaseOK(q)'
  BY <1>0, <1>3, LeasesReserve
<1>4. ASSUME NEW op \in RunOperations, NEW t \in Tasks, NEW parallel \in BOOLEAN,
             NEW gone \in SUBSET RunIds, BeginRefused(op, t, parallel, gone)
      PROVE  \A q \in RunIds : LeaseOK(q)'
  <2>1. HistoryCut(gone) /\ UNCHANGED <<lease, pending>>
    BY <1>4 DEF BeginRefused
  <2>2. ASSUME NEW q \in RunIds
        PROVE  /\ active'[q] \in {"owned", "finishing"} <=> active[q] \in {"owned", "finishing"}
               /\ active[q] \in {"owned", "finishing"} => runs'[q] = runs[q]
    BY <2>1, CutEffect
  <2> QED BY <1>0, <2>1, <2>2, LeaseKept
<1>5. ASSUME NEW r \in RunIds, NEW op \in RunOperations, NEW t \in Tasks,
             NEW parallel \in BOOLEAN, HistoryCutFails(op, t, parallel, r)
      PROVE  \A q \in RunIds : LeaseOK(q)'
  BY <1>5, <1>a DEF HistoryCutFails, gateVars
<1>6. ASSUME NEW r \in RunIds, BeginAbandon(r) PROVE \A q \in RunIds : LeaseOK(q)'
  <2>1. /\ DropOne(r) /\ UNCHANGED <<runs, active>> /\ r \in Holders
        /\ pending' = [pending EXCEPT ![r] = NoTicket] /\ active[r] = "none"
    BY <1>0, <1>6 DEF BeginAbandon, BooksInv, TicketsSound
  <2>2. ASSUME NEW q \in RunIds, q # r PROVE LeaseOK(q)'
    <3>1. lease'[q] = lease[q] /\ pending'[q] = pending[q]
      BY <1>0, <2>1, <2>2, DropOneLease
    <3> QED BY <1>0, <2>1, <3>1, LeaseKept
  <2>3. LeaseOK(r)'
    <3>1. lease'[r] = NoLease /\ pending'[r] = NoTicket /\ active'[r] = "none"
      BY <1>0, <2>1, DropOneLease
    <3> QED BY <3>1, LeaseGone
  <2> QED BY <2>2, <2>3
<1>7. ASSUME NEW r \in RunIds, FinishProbe(r) PROVE \A q \in RunIds : LeaseOK(q)'
  <2>1. /\ UNCHANGED <<runs, pending, lease>> /\ active[r] \in {"owned", "finishing"}
        /\ active'[r] = "finishing" /\ \A q \in RunIds : q # r => active'[q] = active[q]
    BY <1>0, <1>7 DEF FinishProbe, gateVars
  <2> QED BY <1>0, <2>1, LeaseKept
<1>8. ASSUME NEW r \in RunIds, NEW ok \in BOOLEAN, BeginCommit(r, ok)
      PROVE  \A q \in RunIds : LeaseOK(q)'
  BY <1>0, <1>8, LeasesCommit
<1>9. ASSUME NEW gone \in SUBSET RunIds, NEW ok \in BOOLEAN, Open(gone, ok)
      PROVE  \A q \in RunIds : LeaseOK(q)'
  <2>1. /\ UNCHANGED <<lease, pending, active>>
        /\ \A q \in RunIds : pending[q] = NoTicket /\ active[q] = "none" /\ ~Holds(q)
    BY <1>0, <1>9 DEF Open, RegistryInv, RecordsInv, NothingKept, Stopped
  <2> QED BY <2>1, LeaseGone DEF Holds
<1>10. CASE WorkerEnds
  <2>1. /\ UNCHANGED <<runs, active>> /\ \A q \in RunIds : pending'[q] = NoTicket
        /\ \A q \in RunIds : lease'[q] = IF q \in PendingIds THEN NoLease ELSE lease[q]
    BY <1>0, <1>10 DEF WorkerEnds, DropRuns
  <2>2. ASSUME NEW q \in RunIds, pending[q] # NoTicket PROVE LeaseOK(q)'
    <3>1. lease'[q] = NoLease /\ active'[q] = "none"
      BY <2>1, <2>2 DEF PendingIds, BooksInv, TicketsSound
    <3> QED BY <2>1, <3>1, LeaseGone
  <2>3. ASSUME NEW q \in RunIds, pending[q] = NoTicket PROVE LeaseOK(q)'
    <3>1. lease'[q] = lease[q]
      BY <2>1, <2>3 DEF PendingIds
    <3> QED BY <1>0, <2>1, <2>3, <3>1, LeaseKept
  <2> QED BY <2>2, <2>3
<1>11. CASE DropActive
  <2>1. /\ UNCHANGED pending /\ \A q \in RunIds : pending[q] = NoTicket /\ active'[q] = "none"
        /\ \A q \in RunIds : lease'[q] = IF active[q] \in {"owned", "finishing"}
                                         THEN NoLease ELSE lease[q]
    BY <1>0, <1>11 DEF DropActive, DropRuns, Stopped
  <2>2. ASSUME NEW q \in RunIds PROVE lease'[q] = NoLease
    <3>1. active[q] \notin {"owned", "finishing"} => ~Holds(q)
      BY <1>0, <2>1 DEF LeaseOK, InUse
    <3> QED BY <2>1, <3>1 DEF Holds
  <2> QED BY <2>1, <2>2, LeaseGone
<1>12. CASE Crash
  <2>1. ASSUME NEW q \in RunIds
        PROVE  lease'[q] = NoLease /\ pending'[q] = NoTicket /\ active'[q] = "none"
    BY <1>0, <1>12 DEF Crash, RegistryLost
  <2> QED BY <2>1, LeaseGone
<1> QED
  BY <1>1, <1>2, <1>3, <1>4, <1>5, <1>6, <1>7, <1>8, <1>9, <1>10, <1>11, <1>12, StepKinds
-----------------------------------------------------------------------------
(* The gate that the registry shares with the Git side.                    *)

\* Dropping several run leases at once frees their own entries and no others.
LEMMA GateInvDropsRuns ==
    ASSUME GateInv, GateTypeOK', NEW hs \in SUBSET Holders, DropRuns(hs),
           \A h \in hs : Holds(h) => ~lease[h].mutation
    PROVE  GateInv'
<1> DEFINE removed(s) == {lease[h].operation :
                            h \in {k \in hs : Holds(k) /\ lease[k].identity = s}}
<1>1. /\ \A s \in Sources : /\ gate'[s].mutation = gate[s].mutation
                            /\ gate'[s].runs = gate[s].runs \ removed(s)
      /\ \A h \in Holders : lease'[h] = IF h \in hs THEN NoLease ELSE lease[h]
  <2>1. ASSUME NEW s \in Sources
        PROVE  /\ [gate[s] EXCEPT !.runs = @ \ removed(s)].mutation = gate[s].mutation
               /\ [gate[s] EXCEPT !.runs = @ \ removed(s)].runs = gate[s].runs \ removed(s)
    BY DEF GateInv, GateTypeOK, GateState
  <2> QED BY <2>1 DEF DropRuns
<1>2. \A h \in Holders : Holds(h) => lease[h] \in GateLease /\ lease[h].identity \in Sources
  BY DEF GateInv, GateTypeOK, Holds, GateLease
<1>3. LeasesRecorded'
  <2> SUFFICES ASSUME NEW k \in Holders, Holds(k)'
               PROVE  IF lease'[k].mutation
                      THEN gate'[lease'[k].identity].mutation = lease'[k].operation
                      ELSE lease'[k].operation \in gate'[lease'[k].identity].runs
    BY DEF LeasesRecorded
  <2>1. k \notin hs /\ lease'[k] = lease[k] /\ Holds(k)
    BY <1>1 DEF Holds
  <2>2. CASE lease[k].mutation
    BY <1>1, <1>2, <2>1, <2>2 DEF GateInv, LeasesRecorded
  <2>3. CASE ~lease[k].mutation
    <3>1. lease[k].operation \in gate[lease[k].identity].runs
      BY <2>1, <2>3 DEF GateInv, LeasesRecorded
    <3>2. lease[k].operation \notin removed(lease[k].identity)
      <4> SUFFICES ASSUME NEW h \in hs, Holds(h), lease[h].identity = lease[k].identity,
                          lease[h].operation = lease[k].operation
                   PROVE  FALSE
        OBVIOUS
      <4>1. ~lease[h].mutation /\ lease[h] \in GateLease /\ lease[k] \in GateLease
        BY <1>2, <2>1
      <4>2. lease[h].mutation = lease[k].mutation
        BY <2>3, <4>1 DEF GateLease
      <4>3. \A a, b \in GateLease :
              (a.identity = b.identity /\ a.operation = b.operation /\ a.mutation = b.mutation)
                  => a = b
        BY DEF GateLease
      <4>4. lease[h] = lease[k]
        BY <4>1, <4>2, <4>3
      <4> QED BY <2>1, <4>4 DEF GateInv, LeasesDistinct
    <3> QED BY <1>1, <1>2, <2>1, <2>3, <3>1, <3>2
  <2> QED BY <2>2, <2>3
<1>4. LeasesDistinct'
  BY <1>1 DEF GateInv, LeasesDistinct, Holds
<1>5. EntriesExclusive'
  BY <1>1 DEF GateInv, EntriesExclusive
<1> QED BY <1>3, <1>4, <1>5 DEF GateInv

LEMMA GateInvDropOne ==
    ASSUME GateInv, GateTypeOK', NEW h \in Holders, DropOne(h)
    PROVE  GateInv'
<1>1. CASE Holds(h)
  BY <1>1, GateInvDrop DEF DropOne, DropLease
<1>2. CASE ~Holds(h)
  <2>1. gate' = gate /\ lease' = lease
    BY <1>2 DEF DropOne, Holds, GateInv, GateTypeOK
  <2> QED BY <2>1, GateInvBookkeeping
<1> QED BY <1>1, <1>2

\* Opening and closing worktrees touches no entry.
LEMMA ProviderEffects ==
    ASSUME GateTypeOK, NEW s \in Sources
    PROVE  /\ \A t \in Sources : /\ ReadyFor(gate, s)[t].runs = gate[t].runs
                                 /\ ReadyFor(gate, s)[t].mutation = gate[t].mutation
           /\ \A up \in BOOLEAN : /\ WithProvider(gate[s], up).runs = gate[s].runs
                                  /\ WithProvider(gate[s], up).mutation = gate[s].mutation
                                  /\ WithProvider(gate[s], up).provider_ready = up
           /\ \A t \in Sources : t # s => ReadyFor(gate, s)[t] = gate[t]
<1>1. gate \in [Sources -> GateState] /\ gate[s] \in GateState
  BY DEF GateTypeOK
<1>2. \A up \in BOOLEAN : WithProvider(gate[s], up).provider_ready = up
  BY <1>1 DEF GateState, WithProvider
<1>3. \A up \in BOOLEAN : /\ WithProvider(gate[s], up).runs = gate[s].runs
                          /\ WithProvider(gate[s], up).mutation = gate[s].mutation
  BY <1>1, GateStateEffects
<1>4. \A t \in Sources : ReadyFor(gate, s)[t] = IF t = s THEN WithProvider(gate[s], TRUE) ELSE gate[t]
  BY <1>1 DEF ReadyFor
<1> QED BY <1>2, <1>3, <1>4

LEMMA GateKept ==
    ASSUME RegistryInv, EntriesInv, Stopped, LeaseIffInUse, LeasesMatch,
           GateInv, GateTypeOK', [RegistryNext]_vars
    PROVE  GateInv'
<1>z. \A s, op : ~RunLease(s, op).mutation
  BY DEF RunLease
<1>0. /\ GateTypeOK /\ RunIds \subseteq Holders /\ RunOperations \subseteq Operations
      /\ \A r \in RunIds : Holds(r) => ~lease[r].mutation
      /\ SourceOf \in [Tasks -> Sources \union {NoSource}]
  BY <1>z, RegistryAssumption DEF GateInv, LeasesMatch
<1>a. ASSUME UNCHANGED gateVars PROVE GateInv'
  BY <1>a, GateInvBookkeeping DEF gateVars
<1>b. ASSUME NEW s \in Sources, gate' = ReadyFor(gate, s), UNCHANGED lease PROVE GateInv'
  BY <1>0, <1>b, ProviderEffects, GateInvBookkeeping
<1>c. ASSUME NEW r \in RunIds, DropOne(r) PROVE GateInv'
  BY <1>0, <1>c, GateInvDropOne
<1>1. CASE Quiet
  <2>1. CASE UNCHANGED vars \/ (\E r \in RunIds : SpawnProcess(r) \/ ChildExits(r))
    BY <2>1, <1>a DEF vars, SpawnProcess, ChildExits
  <2>2. CASE \E s \in Sources : PublishSource(s)
    BY <2>2, <1>b DEF PublishSource
  <2>3. CASE CloseSources
    <3>1. UNCHANGED lease /\ \A s \in Sources : gate'[s] \in {gate[s], WithProvider(gate[s], FALSE)}
      BY <2>3 DEF CloseSources
    <3>2. \A s \in Sources : gate'[s].runs = gate[s].runs /\ gate'[s].mutation = gate[s].mutation
      BY <1>0, <3>1, ProviderEffects
    <3> QED BY <3>1, <3>2, GateInvBookkeeping
  <2>4. CASE GateUsers
    BY <2>4, GateInvReserveMutation, GateInvDrop DEF GateUsers
  <2> QED BY <1>1, <2>1, <2>2, <2>3, <2>4 DEF Quiet
<1>2. ASSUME NEW r \in RunIds, NEW run \in RunRecord, Rewrites(r, run) PROVE GateInv'
  BY <1>2, <1>a, <1>b, <1>c DEF Rewrites
<1>3. ASSUME NEW r \in RunIds, NEW op \in RunOperations, NEW t \in Tasks,
             NEW parallel \in BOOLEAN, NEW gone \in SUBSET RunIds,
             BeginReserve(r, op, t, parallel, gone)
      PROVE  GateInv'
  <2> DEFINE s == SourceOf[t]
  <2>1. CASE s = NoSource
    BY <1>3, <1>a, <2>1 DEF BeginReserve
  <2>2. CASE s # NoSource
    <3>1. /\ s \in Sources /\ op \in Operations /\ r \in Holders /\ ~Holds(r)
          /\ RunAdmitted(ReadyFor(gate, s)[s], op)
          /\ gate' = [ReadyFor(gate, s) EXCEPT ![s] = WithRun(@, op)]
          /\ lease' = [lease EXCEPT ![r] = RunLease(s, op)]
      BY <1>0, <1>3, <2>2 DEF BeginReserve, Unissued
    <3>2. gate[s].mutation = NoOperation /\ op \notin gate[s].runs
      BY <1>0, <3>1, ProviderEffects DEF RunAdmitted
    <3>3. ReadyFor(gate, s) \in [Sources -> GateState]
      BY <1>0, <3>1, GateStateClosed DEF GateTypeOK, ReadyFor
    <3>4. /\ gate'[s] = WithRun(ReadyFor(gate, s)[s], op)
          /\ \A u \in Sources : u # s => gate'[u] = ReadyFor(gate, s)[u]
      BY <3>1, <3>3
    <3>5. /\ gate'[s].runs = gate[s].runs \union {op}
          /\ gate'[s].mutation = gate[s].mutation
      BY <1>0, <3>1, <3>3, <3>4, GateStateEffects, ProviderEffects
    <3>6. \A u \in Sources : u # s => /\ gate'[u].runs = gate[u].runs
                                      /\ gate'[u].mutation = gate[u].mutation
      BY <1>0, <3>1, <3>4, ProviderEffects
    <3> HIDE DEF s
    <3> QED BY <3>1, <3>2, <3>5, <3>6, GateInvAddsRun
  <2> QED BY <2>1, <2>2
<1>4. ASSUME NEW op \in RunOperations, NEW t \in Tasks, NEW parallel \in BOOLEAN,
             NEW gone \in SUBSET RunIds, BeginRefused(op, t, parallel, gone)
      PROVE  GateInv'
  <2>1. UNCHANGED lease
    BY <1>4 DEF BeginRefused
  <2>2. gate' = gate \/ \E s \in Sources : gate' = ReadyFor(gate, s)
    BY <1>0, <1>4 DEF BeginRefused
  <2> QED BY <1>a, <1>b, <2>1, <2>2 DEF gateVars
<1>5. ASSUME NEW r \in RunIds, NEW op \in RunOperations, NEW t \in Tasks,
             NEW parallel \in BOOLEAN, HistoryCutFails(op, t, parallel, r)
      PROVE  GateInv'
  BY <1>5, <1>a DEF HistoryCutFails
<1>6. ASSUME NEW r \in RunIds, BeginAbandon(r) \/ FinishProbe(r) PROVE GateInv'
  BY <1>6, <1>a, <1>c DEF BeginAbandon, FinishProbe
<1>7. ASSUME NEW r \in RunIds, NEW ok \in BOOLEAN, BeginCommit(r, ok) PROVE GateInv'
  BY <1>7, <1>a, <1>c DEF BeginCommit
<1>8. ASSUME NEW gone \in SUBSET RunIds, NEW ok \in BOOLEAN, Open(gone, ok) PROVE GateInv'
  <2>1. UNCHANGED lease /\ \A s \in Sources : gate'[s] = WithProvider(gate[s], FALSE)
    BY <1>8 DEF Open
  <2>2. \A s \in Sources : gate'[s].runs = gate[s].runs /\ gate'[s].mutation = gate[s].mutation
    BY <1>0, <2>1, ProviderEffects
  <2> QED BY <2>1, <2>2, GateInvBookkeeping
<1>9. CASE WorkerEnds
  BY <1>0, <1>9, GateInvDropsRuns DEF WorkerEnds, PendingIds
<1>10. CASE DropActive
  <2>1. {r \in RunIds : active[r] \in {"owned", "finishing"}} \in SUBSET Holders
    BY <1>0
  <2> QED BY <1>0, <1>10, <2>1, GateInvDropsRuns DEF DropActive
<1>11. CASE Crash
  <2>1. /\ \A h \in Holders : lease'[h] = NoLease
        /\ \A s \in Sources : gate'[s].mutation = NoOperation
    BY <1>11 DEF Crash, DefaultGate
  <2> QED BY <2>1 DEF GateInv, LeasesRecorded, LeasesDistinct, EntriesExclusive, Holds
<1> QED
  BY <1>1, <1>2, <1>3, <1>4, <1>5, <1>6, <1>7, <1>8, <1>9, <1>10, <1>11, StepKinds
-----------------------------------------------------------------------------
(* Worktrees that stay shut.                                               *)

\* Releasing a lease does not open the worktree, nor give it to a mutation.
LEMMA ReleasedShut ==
    ASSUME NEW state \in GateState, NEW l \in GateLease
    PROVE  /\ Released(state, l).provider_ready = state.provider_ready
           /\ state.mutation = NoOperation => Released(state, l).mutation = NoOperation
BY DEF GateState, Released

LEMMA DropOneShut ==
    ASSUME GateTypeOK, NEW h \in Holders, DropOne(h), NEW s \in Sources, Shut(s)
    PROVE  Shut(s)'
<1>1. CASE Holds(h)
  <2>1. /\ lease[h] \in GateLease /\ lease[h].identity \in Sources
        /\ gate' = AfterDrop(gate, lease[h]) /\ gate \in [Sources -> GateState]
    BY <1>1 DEF DropOne, Holds, GateTypeOK, GateLease
  <2>2. gate'[s] = IF s = lease[h].identity THEN Released(gate[s], lease[h]) ELSE gate[s]
    BY <2>1 DEF AfterDrop
  <2> QED BY <2>1, <2>2, ReleasedShut DEF Shut
<1>2. CASE ~Holds(h)
  BY <1>2 DEF DropOne, Shut
<1> QED BY <1>1, <1>2

\* What is published was publishable, and the registry opens nothing else.
LEMMA PublishedShut ==
    ASSUME GateTypeOK, NEW p \in Sources, gate' = ReadyFor(gate, p), Publishable(runs', p),
           NEW s \in Sources, Shut(s)
    PROVE  Shut(s)' \/ Publishable(runs', s)
<1>1. s # p => gate'[s] = gate[s]
  BY ProviderEffects
<1> QED BY <1>1 DEF Shut

LEMMA CutPublishable ==
    ASSUME NEW p \in Sources, Publishable(runs, p), \A r \in RunIds : runs'[r] \in {NoRun, runs[r]}
    PROVE  Publishable(runs', p)
BY DEF Publishable, Recorded

\* A shut worktree stays shut until the registry, working, may publish it.
LEMMA ShutStep ==
    ASSUME RegistryInv, EntriesInv, [RegistryNext]_vars, NEW s \in Sources, Shut(s)
    PROVE  Shut(s)' \/ (registry = "open" /\ Publishable(runs', s))
<1>0. /\ GateTypeOK /\ gate \in [Sources -> GateState] /\ gate[s] \in GateState
      /\ RunIds \subseteq Holders
      /\ SourceOf \in [Tasks -> Sources \union {NoSource}]
  BY RegistryAssumption DEF RegistryInv, GateTypeOK
<1>a. ASSUME gate' = gate PROVE Shut(s)'
  BY <1>a DEF Shut
<1>b. ASSUME NEW p \in Sources, gate' = ReadyFor(gate, p), Publishable(runs', p), registry = "open"
      PROVE  Shut(s)' \/ (registry = "open" /\ Publishable(runs', s))
  BY <1>0, <1>b, PublishedShut
<1>c. ASSUME NEW r \in Holders, DropOne(r) PROVE Shut(s)'
  BY <1>0, <1>c, DropOneShut
<1>d. ASSUME gate'[s] = WithProvider(gate[s], FALSE) PROVE Shut(s)'
  BY <1>0, <1>d, ProviderEffects DEF Shut
<1>e. ASSUME NEW hs, DropRuns(hs) PROVE Shut(s)'
  <2> DEFINE removed == {lease[h].operation : h \in {k \in hs : Holds(k) /\ lease[k].identity = s}}
  <2>1. gate'[s] = [gate[s] EXCEPT !.runs = @ \ removed]
    BY <1>e DEF DropRuns
  <2> HIDE DEF removed
  <2> QED BY <1>0, <2>1 DEF Shut, GateState
<1>1. CASE Quiet
  <2>1. CASE UNCHANGED vars \/ (\E r \in RunIds : SpawnProcess(r) \/ ChildExits(r))
    BY <2>1, <1>a DEF vars, gateVars, SpawnProcess, ChildExits
  <2>2. ASSUME NEW p \in Sources, PublishSource(p)
        PROVE  Shut(s)' \/ (registry = "open" /\ Publishable(runs', s))
    BY <2>2, <1>b DEF PublishSource, Idle
  <2>3. CASE CloseSources
    <3>1. gate'[s] \in {gate[s], WithProvider(gate[s], FALSE)}
      BY <2>3 DEF CloseSources
    <3> QED BY <1>d, <3>1 DEF Shut
  <2>4. ASSUME NEW h \in Holders, NEW p \in Sources, NEW op \in Operations, ReserveMutation(h, p, op)
        PROVE  Shut(s)'
    <3>1. p # s
      BY <2>4 DEF ReserveMutation, MutationAdmitted, Ready, Shut
    <3>2. gate'[s] = gate[s]
      BY <1>0, <2>4, <3>1 DEF ReserveMutation
    <3> QED BY <3>2 DEF Shut
  <2>5. ASSUME NEW h \in Holders, DropLease(h) PROVE Shut(s)'
    BY <1>c, <2>5 DEF DropLease, DropOne
  <2> QED BY <1>1, <2>1, <2>2, <2>3, <2>4, <2>5 DEF Quiet, GateUsers
<1>2. ASSUME NEW r \in RunIds, NEW run \in RunRecord, Rewrites(r, run)
      PROVE  Shut(s)' \/ (registry = "open" /\ Publishable(runs', s))
  BY <1>0, <1>2, <1>a, <1>b, <1>c DEF Rewrites, gateVars
<1>3. ASSUME NEW r \in RunIds, NEW op \in RunOperations, NEW t \in Tasks,
             NEW parallel \in BOOLEAN, NEW gone \in SUBSET RunIds,
             BeginReserve(r, op, t, parallel, gone)
      PROVE  Shut(s)' \/ (registry = "open" /\ Publishable(runs', s))
  <2> DEFINE p == SourceOf[t]
  <2>1. CASE p = NoSource
    BY <1>3, <1>a, <2>1 DEF BeginReserve, gateVars
  <2>2. CASE p # NoSource
    <3>1. /\ p \in Sources /\ Publishable(runs, p) /\ registry = "open" /\ HistoryCut(gone)
          /\ gate' = [ReadyFor(gate, p) EXCEPT ![p] = WithRun(@, op)]
      BY <1>0, <1>3, <2>2 DEF BeginReserve, Idle
    <3>2. Publishable(runs', p)
      BY <3>1, CutEffect, CutPublishable
    <3>3. CASE s # p
      <4>1. ReadyFor(gate, p) \in [Sources -> GateState]
        BY <1>0, <3>1, GateStateClosed DEF GateTypeOK, ReadyFor
      <4>2. gate'[s] = ReadyFor(gate, p)[s] /\ ReadyFor(gate, p)[s] = gate[s]
        BY <1>0, <3>1, <3>3, <4>1, ProviderEffects
      <4> QED BY <4>2 DEF Shut
    <3>4. CASE s = p
      BY <3>1, <3>2, <3>4
    <3> QED BY <3>3, <3>4
  <2> QED BY <2>1, <2>2
<1>4. ASSUME NEW op \in RunOperations, NEW t \in Tasks, NEW parallel \in BOOLEAN,
             NEW gone \in SUBSET RunIds, BeginRefused(op, t, parallel, gone)
      PROVE  Shut(s)' \/ (registry = "open" /\ Publishable(runs', s))
  <2>1. registry = "open" /\ HistoryCut(gone)
    BY <1>4 DEF BeginRefused, Idle
  <2>2. \/ gate' = gate
        \/ \E p \in Sources : Publishable(runs, p) /\ gate' = ReadyFor(gate, p)
    BY <1>0, <1>4 DEF BeginRefused
  <2>3. \A r \in RunIds : runs'[r] \in {NoRun, runs[r]}
    BY <2>1, CutEffect
  <2> QED BY <1>a, <1>b, <2>1, <2>2, <2>3, CutPublishable
<1>5. ASSUME NEW r \in RunIds, NEW op \in RunOperations, NEW t \in Tasks,
             NEW parallel \in BOOLEAN, HistoryCutFails(op, t, parallel, r)
      PROVE  Shut(s)'
  BY <1>5, <1>a DEF HistoryCutFails, gateVars
<1>6. ASSUME NEW r \in RunIds, BeginAbandon(r) \/ FinishProbe(r) PROVE Shut(s)'
  BY <1>0, <1>6, <1>a, <1>c DEF BeginAbandon, FinishProbe, gateVars
<1>7. ASSUME NEW r \in RunIds, NEW ok \in BOOLEAN, BeginCommit(r, ok) PROVE Shut(s)'
  BY <1>0, <1>7, <1>a, <1>c DEF BeginCommit, gateVars
<1>8. ASSUME NEW gone \in SUBSET RunIds, NEW ok \in BOOLEAN, Open(gone, ok) PROVE Shut(s)'
  BY <1>8, <1>d DEF Open
<1>9. CASE WorkerEnds \/ DropActive
  BY <1>9, <1>e DEF WorkerEnds, DropActive
<1>10. CASE Crash
  BY <1>10 DEF Crash, Shut, DefaultGate
<1> QED
  BY <1>1, <1>2, <1>3, <1>4, <1>5, <1>6, <1>7, <1>8, <1>9, <1>10, StepKinds

\* When the worker has ended, Drop closes every worktree in which a process
\* may live: it was shut already, or the run that is left has its lease there.
LEMMA ShutOnClose ==
    ASSUME RegistryInv, EntriesInv, Stopped, LeasesInv, CloseSources,
           NEW r \in RunIds, child[r] # NoTask, SourceOf[child[r]] # NoSource
    PROVE  Shut(SourceOf[child[r]])'
<1> DEFINE s == SourceOf[child[r]]
<1>1. /\ registry = "dying" /\ pending[r] = NoTicket /\ MemoryCover
  BY DEF CloseSources, Stopped
<1>2. runs[r] # NoRun /\ runs[r].task = child[r] /\ ~Final(runs[r])
  BY <1>1 DEF MemoryCover, Covers
<1>3. s \in Sources /\ gate[s] \in GateState /\ GateTypeOK
  BY RegistryAssumption DEF RegistryInv, RecordsInv, RecordsTypeOK, GateTypeOK
<1>4. gate'[s] \in {gate[s], WithProvider(gate[s], FALSE)} /\ child' = child
  BY <1>3 DEF CloseSources
<1>5. CASE Unresolved(runs[r])
  <2>1. Shut(s)
    BY <1>1, <1>2, <1>5 DEF LeasesInv, SourcesShut
  <2> QED BY <1>3, <1>4, <2>1, ProviderEffects DEF Shut
<1>6. CASE ~Unresolved(runs[r])
  <2>1. active[r] \in {"owned", "finishing"}
    BY <1>2, <1>6 DEF Final, EntriesInv, EntryMatches
  <2>2. /\ TaskOf(r) = child[r] /\ InUse(r) /\ LeaseOK(r)
    BY <1>1, <1>2, <2>1, LeasesByRun DEF TaskOf, InUse, LeasesInv
  <2>3. Holds(r) /\ lease[r] = RunLease(s, OperationOf(r))
    BY <2>2 DEF LeaseOK
  <2>4. OperationOf(r) \in gate[s].runs
    BY <2>3, RegistryAssumption DEF LeasesInv, GateInv, LeasesRecorded, RunLease
  <2>5. gate[s].mutation = NoOperation
    BY <1>3, <2>4 DEF LeasesInv, GateInv, EntriesExclusive
  <2>6. gate'[s] = WithProvider(gate[s], FALSE)
    BY <1>2, <1>3, <2>1 DEF CloseSources
  <2> QED BY <1>3, <1>4, <2>5, <2>6, ProviderEffects DEF Shut
<1> QED BY <1>5, <1>6

\* No step makes the fate of a run unknown while the registry works.
LEMMA UnresolvedStep ==
    ASSUME RegistryInv, EntriesInv, BooksInv, [RegistryNext]_vars, registry \in {"open", "dying"},
           registry' \in {"open", "dying"},
           NEW r \in RunIds, runs'[r] # NoRun, Unresolved(runs'[r])
    PROVE  /\ runs[r] # NoRun /\ Unresolved(runs[r]) /\ runs[r].task = runs'[r].task
<1>0. runs \in [RunIds -> RunRecord \union {NoRun}]
  BY DEF RegistryInv, RecordsInv, RecordsTypeOK
<1>a. runs'[r] = runs[r] => /\ runs[r] # NoRun /\ Unresolved(runs[r])
                            /\ runs[r].task = runs'[r].task
  OBVIOUS
<1>1. CASE Quiet
  BY <1>1, <1>a, QuietKeeps
<1>2. ASSUME NEW q \in RunIds, NEW run \in RunRecord, Rewrites(q, run)
      PROVE  runs[r] # NoRun /\ Unresolved(runs[r]) /\ runs[r].task = runs'[r].task
  <2>1. runs'[r] = runs[r] \/ (r = q /\ runs'[r] = run)
    BY <1>0, <1>2 DEF Rewrites
  <2>2. CASE r = q /\ runs'[r] = run
    BY <1>2, <2>2 DEF Rewrites
  <2> QED BY <1>a, <2>1, <2>2
<1>3. ASSUME NEW gone \in SUBSET RunIds, HistoryCut(gone)
      PROVE  runs[r] # NoRun /\ Unresolved(runs[r]) /\ runs[r].task = runs'[r].task
  BY <1>3, <1>a, CutEffect
<1>4. ASSUME NEW q \in RunIds, NEW ok \in BOOLEAN, BeginCommit(q, ok)
      PROVE  runs[r] # NoRun /\ Unresolved(runs[r]) /\ runs[r].task = runs'[r].task
  <2> DEFINE run == [operation |-> pending[q].operation, task |-> pending[q].task,
                     state |-> "Preparing", cancel_requested |-> FALSE,
                     cleanup_confirmed |-> FALSE]
  <2>1. ~Unresolved(run)
    BY DEF Unresolved
  <2>2. runs' = runs \/ runs' = [runs EXCEPT ![q] = run]
    BY <1>4 DEF BeginCommit
  <2> HIDE DEF run
  <2>3. runs'[r] = runs[r] \/ runs'[r] = run
    BY <1>0, <2>2
  <2> QED BY <1>a, <2>1, <2>3
<1>5. ASSUME NEW op \in RunOperations, NEW t \in Tasks,
             NEW parallel \in BOOLEAN, NEW gone \in SUBSET RunIds,
             BeginRefused(op, t, parallel, gone)
      PROVE  runs[r] # NoRun /\ Unresolved(runs[r]) /\ runs[r].task = runs'[r].task
  BY <1>3, <1>5 DEF BeginRefused
<1>6. ASSUME NEW q \in RunIds, NEW op \in RunOperations, NEW t \in Tasks,
             NEW parallel \in BOOLEAN, NEW gone \in SUBSET RunIds,
             BeginReserve(q, op, t, parallel, gone)
      PROVE  runs[r] # NoRun /\ Unresolved(runs[r]) /\ runs[r].task = runs'[r].task
  BY <1>3, <1>6 DEF BeginReserve
<1>7. ASSUME NEW q \in RunIds, NEW op \in RunOperations, NEW t \in Tasks,
             NEW parallel \in BOOLEAN, HistoryCutFails(op, t, parallel, q)
      PROVE  runs'[r] = runs[r]
  BY <1>7 DEF HistoryCutFails
<1>8. ASSUME NEW q \in RunIds, BeginAbandon(q) \/ FinishProbe(q) PROVE runs'[r] = runs[r]
  BY <1>8 DEF BeginAbandon, FinishProbe
<1>9. CASE WorkerEnds
  BY <1>9, <1>a DEF WorkerEnds
<1>10. ~DropActive /\ ~Crash /\ ~ \E gone \in SUBSET RunIds, ok \in BOOLEAN : Open(gone, ok)
  BY DEF DropActive, Crash, RegistryLost, Open
<1> QED
  BY <1>1, <1>2, <1>4, <1>5, <1>6, <1>7, <1>8, <1>9, <1>10, <1>a, StepKinds

\* How the registry begins to work, and how it comes to have no worker.
LEMMA LifeStep ==
    ASSUME RegistryInv, EntriesInv, [RegistryNext]_vars
    PROVE  /\ registry \notin {"open", "dying"} /\ registry' \in {"open", "dying"} =>
                 \E gone \in SUBSET RunIds : Open(gone, TRUE)
           /\ registry' \in {"unlisted", "lost"} =>
                 /\ registry # "open" /\ (registry = "dying" => CloseSources)
                 /\ registry # "down"
                 /\ \A r \in RunIds : child'[r] \in {NoTask, child[r]}
<1> DEFINE Works == registry = "open" /\ registry' = "open"
           Done == /\ registry \notin {"open", "dying"} /\ registry' \in {"open", "dying"} =>
                         \E gone \in SUBSET RunIds : Open(gone, TRUE)
                   /\ registry' \in {"unlisted", "lost"} =>
                         /\ registry # "open" /\ (registry = "dying" => CloseSources)
                         /\ registry # "down"
                         /\ \A r \in RunIds : child'[r] \in {NoTask, child[r]}
<1> SUFFICES Done
  OBVIOUS
<1>0. child \in [RunIds -> Tasks \union {NoTask}]
  BY DEF RegistryInv, RecordsInv, RecordsTypeOK
<1>a. Works => Done
  OBVIOUS
<1>b. registry' = registry /\ registry # "dying" /\ UNCHANGED child => Done
  OBVIOUS
<1>1. CASE Quiet
  <2>1. ASSUME NEW r \in RunIds, SpawnProcess(r) PROVE Done
    BY <2>1 DEF SpawnProcess
  <2>2. ASSUME NEW r \in RunIds, ChildExits(r) PROVE Done
    BY <1>0, <2>2 DEF ChildExits
  <2>3. ASSUME NEW s \in Sources, PublishSource(s) PROVE Done
    BY <2>3 DEF PublishSource, Idle
  <2>4. CASE CloseSources
    BY <2>4 DEF CloseSources
  <2>5. CASE GateUsers \/ UNCHANGED vars
    <3>1. UNCHANGED <<registry, child>>
      BY <2>5 DEF GateUsers, vars, registryVars
    <3>2. CASE registry # "down" \/ registry' \notin {"unlisted", "lost"}
      BY <3>1, <3>2
    <3> QED BY <3>1, <3>2
  <2> QED BY <1>1, <2>1, <2>2, <2>3, <2>4, <2>5 DEF Quiet
<1>2. ASSUME NEW r \in RunIds, NEW run \in RunRecord, Rewrites(r, run) PROVE Works
  BY <1>2 DEF Rewrites
<1>3. ASSUME NEW r \in RunIds, NEW op \in RunOperations, NEW t \in Tasks,
             NEW parallel \in BOOLEAN, NEW gone \in SUBSET RunIds,
             BeginReserve(r, op, t, parallel, gone)
      PROVE  Works
  BY <1>3 DEF BeginReserve, Idle
<1>4. ASSUME NEW op \in RunOperations, NEW t \in Tasks, NEW parallel \in BOOLEAN,
             NEW gone \in SUBSET RunIds, BeginRefused(op, t, parallel, gone)
      PROVE  Works
  BY <1>4 DEF BeginRefused, Idle
<1>5. ASSUME NEW r \in RunIds, NEW op \in RunOperations, NEW t \in Tasks,
             NEW parallel \in BOOLEAN, HistoryCutFails(op, t, parallel, r)
      PROVE  Works
  BY <1>5 DEF HistoryCutFails, Idle
<1>6. ASSUME NEW r \in RunIds, BeginAbandon(r) \/ FinishProbe(r) PROVE Works
  BY <1>6 DEF BeginAbandon, FinishProbe, Idle
<1>7. ASSUME NEW r \in RunIds, NEW ok \in BOOLEAN, BeginCommit(r, ok) PROVE Works
  BY <1>7 DEF BeginCommit, Idle
<1>8. ASSUME NEW gone \in SUBSET RunIds, NEW ok \in BOOLEAN, Open(gone, ok) PROVE Done
  <2>1. CASE ok = TRUE
    <3>1. registry' = "open"
      BY <1>8, <2>1 DEF Open
    <3> QED BY <1>8, <2>1, <3>1
  <2>2. CASE ok = FALSE
    BY <1>8, <2>2 DEF Open
  <2> QED BY <2>1, <2>2
<1>9. CASE WorkerEnds
  BY <1>9 DEF WorkerEnds
<1>10. CASE DropActive
  BY <1>10 DEF DropActive
<1>11. CASE Crash
  BY <1>11 DEF Crash, RegistryLost
<1> QED
  BY <1>a, <1>1, <1>2, <1>3, <1>4, <1>5, <1>6, <1>7, <1>8, <1>9, <1>10, <1>11, StepKinds

\* The worktrees of executions of unknown fate, and of what a dead worker left
\* running, stay shut.
LEMMA SourcesShutStep ==
    ASSUME RegistryInv, EntriesInv, BooksInv, Stopped, LeasesInv, [RegistryNext]_vars
    PROVE  SourcesShut'
<1>0. /\ GateTypeOK /\ SourceOf \in [Tasks -> Sources \union {NoSource}]
      /\ registry \in RegistryState
      /\ child \in [RunIds -> Tasks \union {NoTask}]
      /\ runs \in [RunIds -> RunRecord \union {NoRun}]
  BY RegistryAssumption DEF RegistryInv, RecordsInv, RecordsTypeOK
<1>1. ASSUME registry' \in {"open", "dying"}, NEW r \in RunIds, runs'[r] # NoRun,
             Unresolved(runs'[r]), SourceOf[runs'[r].task] # NoSource,
             NEW s, s = SourceOf[runs'[r].task]
      PROVE  Shut(s)'
  <2>1. CASE registry \in {"open", "dying"}
    <3>1. runs[r] # NoRun /\ Unresolved(runs[r]) /\ runs[r].task = runs'[r].task
      BY <1>1, <2>1, UnresolvedStep
    <3>2. runs[r] \in RunRecord
      BY <1>0, <3>1
    <3>3. s \in Sources /\ Shut(s)
      BY <1>0, <1>1, <2>1, <3>1, <3>2 DEF RunRecord, LeasesInv, SourcesShut
    <3>4. ~Publishable(runs', s)
      BY <1>1 DEF Publishable, Recorded
    <3> QED BY <3>3, <3>4, ShutStep
  <2>2. CASE registry \notin {"open", "dying"}
    <3>1. PICK gone \in SUBSET RunIds : Open(gone, TRUE)
      BY <1>1, <2>2, LifeStep
    <3>2. /\ \A p \in Sources : gate'[p] = WithProvider(gate[p], FALSE)
          /\ \A p \in Sources : gate[p].mutation = NoOperation
          /\ runs' = Without(Recovered, gone)
      BY <3>1 DEF Open, Stopped
    <3>3. runs'[r] = Recovered[r] /\ Recovered[r] \in RunRecord
      BY <1>1, <3>2, RecoveredSound DEF Without, RegistryInv
    <3>4. s \in Sources
      BY <1>0, <1>1, <3>3 DEF RunRecord
    <3> QED BY <1>0, <3>2, <3>4, ProviderEffects DEF Shut
  <2> QED BY <2>1, <2>2
<1>2. ASSUME registry' \in {"unlisted", "lost"}, NEW r \in RunIds, child'[r] # NoTask,
             SourceOf[child'[r]] # NoSource, NEW s, s = SourceOf[child'[r]]
      PROVE  Shut(s)'
  <2>1. /\ registry = "dying" => CloseSources
        /\ registry \in {"dying", "unlisted", "lost"}
        /\ child'[r] = child[r]
    BY <1>0, <1>2, LifeStep DEF RegistryState
  <2>2. CASE registry = "dying"
    BY <1>2, <2>1, <2>2, ShutOnClose
  <2>3. CASE registry # "dying"
    <3>1. s \in Sources /\ Shut(s)
      BY <1>0, <1>2, <2>1, <2>3 DEF LeasesInv, SourcesShut
    <3> QED BY <2>1, <2>3, <3>1, ShutStep
  <2> QED BY <2>2, <2>3
<1> QED BY <1>1, <1>2 DEF SourcesShut
-----------------------------------------------------------------------------
(* The invariant.                                                          *)

LEMMA SafetyInvInit == RegistryInit => SafetyInv
<1> SUFFICES ASSUME RegistryInit PROVE SafetyInv
  OBVIOUS
<1>1. RegistryInv
  BY RegistryInvInit
<1>2. /\ \A r \in RunIds : /\ runs[r] = NoRun /\ ledger[r] = NoRun /\ pending[r] = NoTicket
                           /\ active[r] = "none"
      /\ \A h \in Holders : lease[h] = NoLease
      /\ \A s \in Sources : gate[s].mutation = NoOperation
      /\ registry = "down"
  BY DEF RegistryInit, GateInit, DefaultGate
<1>3. BooksInv
  BY <1>2 DEF BooksInv, BookDisjoint, TicketsSound
<1>4. EntriesInv
  BY <1>2 DEF EntriesInv, EntryMatches, OutcomeAgrees
<1>5. BoundedInv
  <2>1. Recorded(runs) = {} /\ Recorded(ledger) = {} /\ PendingIds = {}
    BY <1>2 DEF Recorded, PendingIds
  <2> QED BY <2>1, FS_EmptySet, RegistryAssumption DEF BoundedInv, BookBounded, HistoryBounded
<1>6. Stopped
  BY <1>2 DEF Stopped, Holds
<1>7. LeasesInv
  <2>1. GateInv
    BY GateInvInit DEF RegistryInit
  <2>2. LeaseIffInUse /\ LeasesMatch
    BY <1>2, RegistryAssumption DEF LeaseIffInUse, LeasesMatch, Holds, InUse
  <2>3. SourcesShut
    BY <1>2 DEF SourcesShut
  <2> QED BY <2>1, <2>2, <2>3 DEF LeasesInv
<1> QED BY <1>1, <1>3, <1>4, <1>5, <1>6, <1>7 DEF SafetyInv

LEMMA SafetyInvStep ==
    ASSUME SafetyInv, [RegistryNext]_vars PROVE SafetyInv'
<1>0. /\ RegistryInv /\ BooksInv /\ EntriesInv /\ BoundedInv /\ Stopped /\ LeasesInv
      /\ GateInv /\ LeaseIffInUse /\ LeasesMatch /\ SourcesShut
  BY DEF SafetyInv, LeasesInv
<1>1. RegistryInv' /\ GateTypeOK'
  BY <1>0, RegistryInvStep DEF RegistryInv
<1>2. BooksInv' /\ EntriesInv' /\ BoundedInv' /\ Stopped'
  BY <1>0, BooksStep, EntriesStep, BoundedStep, StoppedStep
<1>3. LeaseIffInUse' /\ LeasesMatch'
  BY <1>0, LeasesStep
<1>4. GateInv'
  BY <1>0, <1>1, GateKept
<1>5. SourcesShut'
  BY <1>0, SourcesShutStep
<1> QED BY <1>1, <1>2, <1>3, <1>4, <1>5 DEF SafetyInv, LeasesInv

(***************************************************************************)
(* The inductive invariant of a host's executions: what its records, its   *)
(* runs.json, its leases and its worktrees say of each other, through      *)
(* failed saves, the death of the worker and restarts.                     *)
(***************************************************************************)
THEOREM SafetyInvariance == RegistrySpec => []SafetyInv
BY SafetyInvInit, SafetyInvStep, PTL DEF RegistrySpec

\* A mutation's worktree has no process of a run: an owned run has its lease
\* there, and one of unknown fate, or without its worker, has it shut.
LEMMA MutationExcluded == SafetyInv => MutationExclusion
<1> SUFFICES ASSUME SafetyInv, NEW h \in Holders, Holds(h), lease[h].mutation,
                    NEW r \in RunIds, child[r] # NoTask,
                    NEW s, s = lease[h].identity, SourceOf[child[r]] = s
             PROVE  FALSE
  BY DEF MutationExclusion
<1>0. /\ RegistryInv /\ EntriesInv /\ Stopped /\ LeasesInv /\ GateInv /\ GateTypeOK
      /\ child[r] \in Tasks /\ registry \in RegistryState
  BY DEF SafetyInv, LeasesInv, RegistryInv, RecordsInv, RecordsTypeOK
<1>1. /\ lease[h] \in GateLease /\ s \in Sources /\ s # NoSource
      /\ gate[s].mutation = lease[h].operation
      /\ lease[h].operation # NoOperation
  BY <1>0, RegistryAssumption, GateAssumption
  DEF GateInv, LeasesRecorded, GateTypeOK, GateLease, Holds
<1>2. ~Shut(s)
  BY <1>1 DEF Shut
<1>3. CASE registry = "down"
  BY <1>0, <1>3 DEF Stopped
<1>4. CASE registry \in {"unlisted", "lost"}
  BY <1>0, <1>1, <1>2, <1>4 DEF LeasesInv, SourcesShut
<1>5. CASE registry \in {"open", "dying"}
  <2>1. MemoryCover
    BY <1>0, <1>5 DEF Stopped, RegistryInv, RecordsInv
  <2>2. runs[r] # NoRun /\ runs[r].task = child[r] /\ ~Final(runs[r])
    BY <2>1 DEF MemoryCover, Covers
  <2>3. ~Unresolved(runs[r])
    BY <1>0, <1>1, <1>2, <1>5, <2>2 DEF LeasesInv, SourcesShut
  <2>4. active[r] \in {"owned", "finishing"}
    BY <1>0, <2>2, <2>3 DEF Final, EntriesInv, EntryMatches
  <2>5. pending[r] = NoTicket
    BY <2>4 DEF SafetyInv, BooksInv, TicketsSound
  <2>6. TaskOf(r) = child[r] /\ InUse(r) /\ LeaseOK(r)
    BY <1>0, <2>2, <2>4, <2>5, LeasesByRun DEF TaskOf, InUse, LeasesInv
  <2>7. Holds(r) /\ lease[r] = RunLease(s, OperationOf(r))
    BY <1>1, <2>6 DEF LeaseOK
  <2>8. OperationOf(r) \in gate[s].runs
    BY <1>0, <2>7, RegistryAssumption DEF GateInv, LeasesRecorded, RunLease
  <2> QED BY <1>0, <1>1, <2>8 DEF GateInv, EntriesExclusive
<1> QED BY <1>0, <1>3, <1>4, <1>5 DEF RegistryState

\* Every execution, recorded or being started, has an operation id of its own.
LEMMA OperationsDistinct == SafetyInv => OncePerOperation
<1> SUFFICES ASSUME SafetyInv, NEW q \in Recorded(runs) \union PendingIds,
                    NEW r \in Recorded(runs) \union PendingIds, q # r
             PROVE  OperationOf(q) # OperationOf(r)
  BY DEF OncePerOperation
<1>1. /\ q \in RunIds /\ r \in RunIds
      /\ pending[q] # NoTicket \/ runs[q] # NoRun
      /\ pending[r] # NoTicket \/ runs[r] # NoRun
  BY DEF Recorded, PendingIds
<1>2. BookDisjoint(runs) /\ TicketsSound
  BY DEF SafetyInv, BooksInv
<1>3. CASE pending[q] # NoTicket \/ pending[r] # NoTicket
  BY <1>1, <1>2, <1>3 DEF TicketsSound, OperationOf
<1>4. CASE pending[q] = NoTicket /\ pending[r] = NoTicket
  BY <1>1, <1>2, <1>4 DEF BookDisjoint, Compatible, OperationOf
<1> QED BY <1>3, <1>4

LEMMA RegistrySafetyFollows == SafetyInv => RegistrySafety
<1> SUFFICES ASSUME SafetyInv PROVE RegistrySafety
  OBVIOUS
<1>1. MutationExclusion /\ OncePerOperation
  BY MutationExcluded, OperationsDistinct
<1>2. OutputsDisjoint
  <2>1. Covers(ledger) /\ BookDisjoint(ledger)
    BY DEF SafetyInv, RegistryInv, RecordsInv, BooksInv
  <2> QED BY <2>1 DEF Covers, BookDisjoint, Compatible, OutputsDisjoint
<1>3. LiveIsOwned /\ ReleasedIsDurable
  BY DEF SafetyInv, EntriesInv, EntryMatches, LiveIsOwned, ReleasedIsDurable, Recorded
<1>4. LeaseIffInUse /\ HistoryBounded
  BY DEF SafetyInv, LeasesInv, BoundedInv
<1> QED BY <1>1, <1>2, <1>3, <1>4 DEF RegistrySafety

(***************************************************************************)
(* No execution beside a mutation of its worktree or beside another one    *)
(* with its outputs, one execution for an operation id, live records only  *)
(* of this host, nothing released before its outcome is durable, a lease   *)
(* exactly while it is needed, and a bounded history (begin_reserve,       *)
(* finish_observed, Drop for RunRegistry, RunRegistry::open).              *)
(***************************************************************************)
THEOREM RegistrySafetyHolds == RegistrySpec => []RegistrySafety
BY RegistrySafetyFollows, SafetyInvariance, PTL
-----------------------------------------------------------------------------
(* The history.                                                            *)

\* A saved outcome is replaced by nothing but itself: what is saved over it is
\* an older copy, the memory, or the recovered ledger.
LEMMA OutcomeStep ==
    ASSUME SafetyInv, [RegistryNext]_vars, NEW r \in RunIds,
           ledger[r] # NoRun, ~Live(ledger[r]), ledger'[r] # NoRun
    PROVE  ledger'[r].state = ledger[r].state
<1>0. /\ RegistryInv /\ BooksInv /\ EntriesInv /\ OutcomeAgrees(r)
      /\ runs \in [RunIds -> RunRecord \union {NoRun}]
  BY DEF SafetyInv, EntriesInv, RegistryInv, RecordsInv, RecordsTypeOK
<1> DEFINE Done == ledger'[r].state = ledger[r].state
<1> SUFFICES Done
  OBVIOUS
<1>a. ledger'[r] \in {ledger[r], runs[r]} => Done
  BY <1>0 DEF OutcomeAgrees
<1>1. CASE Quiet
  BY <1>1, <1>a, QuietKeeps
<1>2. ASSUME NEW q \in RunIds, NEW run \in RunRecord, Rewrites(q, run) PROVE Done
  <2>1. ledger'[r] \in {ledger[r], runs[r]} \/ (r = q /\ ledger'[r] = run)
    BY <1>0, <1>2 DEF Rewrites
  <2>2. CASE r = q /\ ledger'[r] = run
    <3>1. runs[r] # NoRun /\ (~Live(runs[r]) => run.state = runs[r].state)
      BY <1>2, <2>2 DEF Rewrites
    <3>2. runs[r].state = ledger[r].state /\ ~Live(runs[r])
      BY <1>0, <3>1 DEF OutcomeAgrees, Live
    <3> QED BY <2>2, <3>1, <3>2
  <2> QED BY <1>a, <2>1, <2>2
<1>3. ASSUME NEW gone \in SUBSET RunIds, HistoryCut(gone) PROVE Done
  <2>1. ledger'[r] \in {ledger[r], runs[r], runs'[r]} /\ runs'[r] \in {NoRun, runs[r]}
    BY <1>0, <1>3, CutEffect DEF Without
  <2> QED BY <1>a, <2>1
<1>4. ASSUME NEW q \in RunIds, NEW op \in RunOperations, NEW t \in Tasks,
             NEW parallel \in BOOLEAN, NEW gone \in SUBSET RunIds,
             BeginReserve(q, op, t, parallel, gone)
      PROVE  Done
  BY <1>3, <1>4 DEF BeginReserve
<1>5. ASSUME NEW op \in RunOperations, NEW t \in Tasks,
             NEW parallel \in BOOLEAN, NEW gone \in SUBSET RunIds,
             BeginRefused(op, t, parallel, gone)
      PROVE  Done
  BY <1>3, <1>5 DEF BeginRefused
<1>6. ASSUME NEW q \in RunIds, NEW op \in RunOperations, NEW t \in Tasks,
             NEW parallel \in BOOLEAN, HistoryCutFails(op, t, parallel, q)
      PROVE  Done
  <2>1. ledger' \in {ledger, Without(runs, {q})}
    BY <1>6 DEF HistoryCutFails, Save
  <2>2. ledger'[r] \in {NoRun, ledger[r], runs[r]}
    BY <2>1 DEF Without
  <2> QED BY <1>a, <2>2
<1>7. ASSUME NEW q \in RunIds, BeginAbandon(q) \/ FinishProbe(q) PROVE Done
  BY <1>7, <1>a DEF BeginAbandon, FinishProbe
<1>8. ASSUME NEW q \in RunIds, NEW ok \in BOOLEAN, BeginCommit(q, ok) PROVE Done
  <2> DEFINE run == [operation |-> pending[q].operation, task |-> pending[q].task,
                     state |-> "Preparing", cancel_requested |-> FALSE,
                     cleanup_confirmed |-> FALSE]
  <2>1. pending[q] # NoTicket /\ ledger' \in {ledger, [runs EXCEPT ![q] = run]}
    BY <1>8 DEF BeginCommit, Save
  <2>2. r # q
    BY <1>0, <2>1 DEF BooksInv, TicketsSound
  <2> HIDE DEF run
  <2> QED BY <1>0, <1>a, <2>1, <2>2
<1>9. ASSUME NEW gone \in SUBSET RunIds, NEW ok \in BOOLEAN, Open(gone, ok) PROVE Done
  <2>1. ledger' \in {ledger, Without(Recovered, gone)}
    BY <1>9 DEF Open, Save
  <2>2. Recovered[r] = ledger[r]
    BY DEF Recovered
  <2>3. ledger'[r] \in {NoRun, ledger[r]}
    BY <2>1, <2>2 DEF Without
  <2> QED BY <1>a, <2>3
<1>10. CASE WorkerEnds \/ DropActive \/ Crash
  BY <1>10, <1>a DEF WorkerEnds, DropActive, Crash, RegistryLost
<1> QED
  BY <1>0, <1>1, <1>2, <1>4, <1>5, <1>6, <1>7, <1>8, <1>9, <1>10, StepKinds

\* The memory covers the processes that an earlier host left, so the two
\* checks of begin_reserve see them.
LEMMA SoleStart ==
    ASSUME RegistryInv, NEW r \in RunIds, NEW op, NEW t \in Tasks, NEW gone,
           BeginReserve(r, op, t, FALSE, gone), NEW q \in RunIds
    PROVE  child[q] # t
<1> SUFFICES ASSUME child[q] = t PROVE FALSE
  OBVIOUS
<1>1. registry = "open" /\ TaskFree(t, FALSE)
  BY DEF BeginReserve, Idle, BeginAdmitted
<1>2. MemoryCover /\ child[q] # NoTask
  BY <1>1, RegistryAssumption DEF RegistryInv, RecordsInv
<1>3. q \in Recorded(runs) /\ runs[q].task = t /\ ~Final(runs[q])
  BY <1>2 DEF MemoryCover, Covers, Recorded
<1> QED BY <1>1, <1>3 DEF TaskFree, Final

(***************************************************************************)
(* A durable outcome is never rewritten, and a start that did not ask for  *)
(* parallel execution is reserved only when no process of its task lives,  *)
(* one left by an earlier host included (finish_observed, begin_reserve,   *)
(* RunRegistry::open).                                                     *)
(***************************************************************************)
THEOREM RegistryHistoryHolds == RegistrySpec => RegistryHistory
<1>1. ASSUME SafetyInv, [RegistryNext]_vars
      PROVE  [\A r \in RunIds :
                (ledger[r] # NoRun /\ ~Live(ledger[r]) /\ ledger'[r] # NoRun)
                   => ledger'[r].state = ledger[r].state]_vars
  BY <1>1, OutcomeStep
<1>2. ASSUME SafetyInv, SafetyInv'
      PROVE  [\A r \in RunIds : (pending[r] = NoTicket /\ pending'[r] # NoTicket) =>
                LET op == pending'[r].operation
                    t == pending'[r].task
                IN  (\E gone \in SUBSET RunIds : BeginReserve(r, op, t, FALSE, gone))
                        => \A q \in RunIds : child[q] # t]_vars
  <2>1. ASSUME NEW r \in RunIds, pending'[r] # NoTicket
        PROVE  pending'[r].task \in Tasks
    <3>1. pending'[r] \in Ticket
      BY <1>2, <2>1 DEF SafetyInv, RegistryInv, RecordsInv, RecordsTypeOK
    <3> QED BY <3>1 DEF Ticket
  <2> QED BY <1>2, <2>1, SoleStart DEF SafetyInv
<1> QED
  BY <1>1, <1>2, SafetyInvariance, PTL
  DEF RegistrySpec, RegistryHistory, OutcomeStays, SoleUnlessParallel
=============================================================================
