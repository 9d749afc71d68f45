----------------------------- MODULE SourceGate -----------------------------
(***************************************************************************)
(* The SourceGate of model.rs: one mutex around a map from worktree        *)
(* identity to GateState.  Every method runs under the mutex, so each is   *)
(* one atomic step here.  A GateLease is the value a reservation returns;  *)
(* dropping it is what releases the reservation, and only its operation id *)
(* says which entry it owns.  lease[h] is the lease that holder h keeps.   *)
(*                                                                         *)
(* An operator named ...Mutant is a plausible defect of the definition     *)
(* after it; no action uses it, the properties are tested against it.      *)
(***************************************************************************)
EXTENDS Naturals

CONSTANTS Sources,      \* worktree identities
          Holders,      \* values that can keep a GateLease
          Operations,   \* run operation ids and Git plan ids
          BlockIds,     \* ids a source is blocked under
          NoOperation,  \* GateState.mutation = None
          NoLease       \* a holder without a lease

ASSUME GateAssumption ==
    /\ NoOperation \notin Operations
    /\ NoLease \notin [identity : Sources, operation : Operations, mutation : BOOLEAN]

VARIABLES gate, lease
gateVars == <<gate, lease>>

GateState ==
    [provider_ready : BOOLEAN,
     blocks         : SUBSET BlockIds,
     runs           : SUBSET Operations,
     mutation       : Operations \union {NoOperation},
     generation     : Nat]

GateLease == [identity : Sources, operation : Operations, mutation : BOOLEAN]

GateTypeOK ==
    /\ gate \in [Sources -> GateState]
    /\ lease \in [Holders -> GateLease \union {NoLease}]

DefaultGate ==
    [provider_ready |-> FALSE, blocks |-> {}, runs |-> {},
     mutation |-> NoOperation, generation |-> 0]

GateInit ==
    /\ gate = [s \in Sources |-> DefaultGate]
    /\ lease = [h \in Holders |-> NoLease]

RunLease(s, op) == [identity |-> s, operation |-> op, mutation |-> FALSE]
MutationLease(s, op) == [identity |-> s, operation |-> op, mutation |-> TRUE]
Holds(h) == lease[h] # NoLease

-----------------------------------------------------------------------------
(* What each method does to one GateState. *)

\* SourceGate::state: readiness is reported only when nothing blocks.
Ready(state) == state.provider_ready /\ state.blocks = {}

RunAdmittedMutant(state, op) == Ready(state) /\ op \notin state.runs
\* The checks of reserve, in the order of the code; all three refuse.
RunAdmitted(state, op) ==
    /\ Ready(state)
    /\ state.mutation = NoOperation
    /\ op \notin state.runs

MutationAdmitted(state) ==
    /\ Ready(state)
    /\ state.mutation = NoOperation
    /\ state.runs = {}

WithBlock(state, id) == [state EXCEPT !.blocks = @ \union {id}]
WithoutBlock(state, id) == [state EXCEPT !.blocks = @ \ {id}]
WithProvider(state, up) == [state EXCEPT !.provider_ready = up]
WithRun(state, op) == [state EXCEPT !.runs = @ \union {op}]
WithMutation(state, op) == [state EXCEPT !.mutation = op]

ReleasedSilentlyMutant(state, l) ==
    IF l.mutation THEN [state EXCEPT !.mutation = NoOperation]
    ELSE [state EXCEPT !.runs = @ \ {l.operation}]
\* Drop for GateLease, when the lease is of this source.
Released(state, l) ==
    IF l.mutation
    THEN IF state.mutation = l.operation
         THEN [state EXCEPT !.mutation = NoOperation, !.generation = @ + 1]
         ELSE state
    ELSE [state EXCEPT !.runs = @ \ {l.operation}]

\* Dropping a lease changes the entry of its own source only.
AfterDrop(g, l) == [g EXCEPT ![l.identity] = Released(@, l)]
-----------------------------------------------------------------------------
Block(s, id) ==
    /\ gate' = [gate EXCEPT ![s] = WithBlock(@, id)]
    /\ UNCHANGED lease

Unblock(s, id) ==
    /\ gate' = [gate EXCEPT ![s] = WithoutBlock(@, id)]
    /\ UNCHANGED lease

ProviderReady(s) ==
    /\ gate' = [gate EXCEPT ![s] = WithProvider(@, TRUE)]
    /\ UNCHANGED lease

ProviderUnavailable(s) ==
    /\ gate' = [gate EXCEPT ![s] = WithProvider(@, FALSE)]
    /\ UNCHANGED lease

ReserveRun(h, s, op) ==
    /\ ~Holds(h)
    /\ RunAdmitted(gate[s], op)
    /\ gate' = [gate EXCEPT ![s] = WithRun(@, op)]
    /\ lease' = [lease EXCEPT ![h] = RunLease(s, op)]

ReserveMutation(h, s, op) ==
    /\ ~Holds(h)
    /\ MutationAdmitted(gate[s])
    /\ gate' = [gate EXCEPT ![s] = WithMutation(@, op)]
    /\ lease' = [lease EXCEPT ![h] = MutationLease(s, op)]

DropLease(h) ==
    /\ Holds(h)
    /\ gate' = AfterDrop(gate, lease[h])
    /\ lease' = [lease EXCEPT ![h] = NoLease]

GateNext ==
    \/ \E s \in Sources, id \in BlockIds : Block(s, id) \/ Unblock(s, id)
    \/ \E s \in Sources : ProviderReady(s) \/ ProviderUnavailable(s)
    \/ \E h \in Holders, s \in Sources, op \in Operations :
            ReserveRun(h, s, op) \/ ReserveMutation(h, s, op)
    \/ \E h \in Holders : DropLease(h)

GateSpec == GateInit /\ [][GateNext]_gateVars
-----------------------------------------------------------------------------
(***************************************************************************)
(* A lease that is still held is still recorded in the gate.  A drop names *)
(* its entry by operation id alone, so this fails as soon as two leases of *)
(* one source can share an id: dropping one would free the other's entry   *)
(* (GateLease::drop, SourceGate::reserve).                                 *)
(***************************************************************************)
LeasesRecorded ==
    \A h \in Holders : Holds(h) =>
        LET state == gate[lease[h].identity] IN
        IF lease[h].mutation
        THEN state.mutation = lease[h].operation
        ELSE lease[h].operation \in state.runs

(***************************************************************************)
(* Nothing is recorded that no lease will ever remove: an entry without an *)
(* owner would refuse Git mutations of the worktree until the host ends.   *)
(***************************************************************************)
NoOrphanEntry ==
    \A s \in Sources :
        /\ gate[s].mutation # NoOperation =>
              \E h \in Holders : lease[h] = MutationLease(s, gate[s].mutation)
        /\ \A op \in gate[s].runs : \E h \in Holders : lease[h] = RunLease(s, op)

(***************************************************************************)
(* While a Git mutation of a worktree holds its lease no run lease of that *)
(* worktree exists, and no second mutation lease (SourceGate::reserve).    *)
(***************************************************************************)
LeaseExclusion ==
    \A h, k \in Holders :
        (Holds(h) /\ Holds(k) /\ h # k /\ lease[h].identity = lease[k].identity)
            => ~lease[h].mutation /\ ~lease[k].mutation

(***************************************************************************)
(* The generation is how observe_source tells whether a mutation happened  *)
(* between the start and the end of a run: it never moves while a run      *)
(* lease of the worktree is held, and it moves whenever a mutation ends.   *)
(***************************************************************************)
GenerationWitnessesMutation ==
    [][\A h \in Holders : Holds(h) =>
         LET s == lease[h].identity IN
         /\ (~lease[h].mutation /\ lease'[h] = lease[h])
                => gate'[s].generation = gate[s].generation
         /\ (lease[h].mutation /\ lease'[h] # lease[h])
                => gate'[s].generation > gate[s].generation]_gateVars

\* The leases of a worktree are its users: the gate implements SourceUse.
RunHolders(s) == {h \in Holders : Holds(h) /\ lease[h].identity = s /\ ~lease[h].mutation}
MutationHolders(s) == {h \in Holders : Holds(h) /\ lease[h].identity = s /\ lease[h].mutation}

Use == INSTANCE SourceUse WITH
    Users <- Holders,
    readers <- [s \in Sources |-> RunHolders(s)],
    writer <- [s \in Sources |-> MutationHolders(s)]

(***************************************************************************)
(* Every history of reservations and drops of the gate is one that the     *)
(* source-use contract allows.                                             *)
(***************************************************************************)
GateImplementsUse == Use!UseSpec
=============================================================================
