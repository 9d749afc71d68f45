--------------------------- MODULE WorkspaceStore ---------------------------
(***************************************************************************)
(* Store::load, save and update (store.rs): processes edit one workspace   *)
(* definition.  update reads it without a lock and edits its copy; save    *)
(* takes workspace.lock, reads again, compares the revisions and replaces  *)
(* the file, after copies of the old one were put beside it.               *)
(*                                                                         *)
(* Every write is an atomic_write: it succeeds, fails without effect, or   *)
(* fails after the rename, when the directory could not be synchronised.   *)
(* A process may end between any two steps; the kernel drops its lock.     *)
(***************************************************************************)
EXTENDS Naturals

CONSTANTS
  Processes,
  Edits,        \* changes the processes make, told apart by the property only
  Schema,       \* the schema an edit needs: 3 for portable mappings, 2 for
                \* native shells and tasks, 1 for anything older
  NoProcess,
  MaxRevision   \* bound of the exploration

Schemas == 1 .. 3

ASSUME StoreAssumption ==
  /\ Schema \in [Edits -> Schemas]
  /\ MaxRevision \in Nat
  /\ NoProcess \notin Processes

VARIABLES
  file,          \* workspace.toml
  previous,      \* the set of copies in workspace.previous.toml: none or one
  migrated,      \* the same for workspace.schema<n>.toml
  lock,          \* the process that holds workspace.lock, or NoProcess
  job,           \* where each process is in update
  acknowledged,  \* edits whose update returned Ok
  first          \* history: the definition a run starts from

storeVars == <<file, previous, migrated, lock, job, acknowledged, first>>

Definition == [exists : BOOLEAN, revision : Nat, schema : Schemas, applied : SUBSET Edits]

LockedSteps == {"locked", "migrating", "keeping", "replacing", "replaced"}

\* base is what load returned; edit is what the process makes of it.
Idle == [step |-> "idle"]
Job == [step : LockedSteps \union {"editing"}, edit : Edits, base : Definition]

HigherSchema(a, b) == IF a > b THEN a ELSE b

\* The definition save encodes: the loaded copy with the edit, one revision on.
Edited(j) ==
  [exists   |-> TRUE,
   revision |-> j.base.revision + 1,
   schema   |-> HigherSchema(j.base.schema, Schema[j.edit]),
   applied  |-> j.base.applied \union {j.edit}]

Is(p, step) == job[p].step = step

At(p, step) == job' = [job EXCEPT ![p].step = step]

\* The process returns from update and drops the lock if it has it.
Leave(p) ==
  /\ job' = [job EXCEPT ![p] = Idle]
  /\ lock' = IF lock = p THEN NoProcess ELSE lock

\* No file, which load answers with Workspace::default, or one that an older
\* or this version of the program saved.
FirstDefinitions ==
  {[exists |-> FALSE, revision |-> 0, schema |-> 3, applied |-> {}]} \union
  {[exists |-> TRUE, revision |-> 1, schema |-> s, applied |-> {}] : s \in Schemas}

StoreInit ==
  /\ first \in FirstDefinitions
  /\ file = first
  /\ previous = {}
  /\ migrated = [s \in Schemas |-> {}]
  /\ lock = NoProcess
  /\ job = [p \in Processes |-> Idle]
  /\ acknowledged = {}

\* load and the closure of update, without a lock.
Load(p, e) ==
  /\ Is(p, "idle")
  /\ e \notin acknowledged
  /\ job' = [job EXCEPT ![p] = [step |-> "editing", edit |-> e, base |-> file]]
  /\ UNCHANGED <<file, previous, migrated, lock, acknowledged>>

\* Mutant: the lock file is opened and not locked.
LockFreeMutant == TRUE

LockFree == lock = NoProcess

Acquire(p) ==
  /\ Is(p, "editing")
  /\ LockFree
  /\ lock' = p
  /\ At(p, "locked")
  /\ UNCHANGED <<file, previous, migrated, acknowledged>>

\* The edit is refused, the lock is busy for two seconds, the definition does
\* not validate or exceeds its size, or a read fails.
GiveUp(p) ==
  /\ job[p].step \in {"editing", "locked"}
  /\ Leave(p)
  /\ UNCHANGED <<file, previous, migrated, acknowledged>>

SameRevision(j) == file.revision = j.base.revision

\* save compares the revision it reads under the lock with the expected one.
Compare(p) ==
  /\ Is(p, "locked")
  /\ SameRevision(job[p])
  /\ file.revision < MaxRevision
  /\ At(p, IF ~file.exists THEN "replacing"
           ELSE IF file.schema < Edited(job[p]).schema THEN "migrating"
           ELSE "keeping")
  /\ UNCHANGED <<file, previous, migrated, lock, acknowledged>>

\* Mutant: the test whether a copy exists is inverted.
KeepOriginalMutant(copies) == IF copies # {} THEN {file} ELSE copies

\* The original of an older schema is kept once and never replaced.
KeepOriginal(copies) == IF copies = {} THEN {file} ELSE copies

BackupMigration(p) ==
  /\ Is(p, "migrating")
  /\ migrated' = [migrated EXCEPT ![file.schema] = KeepOriginal(@)]
  /\ \/ At(p, "keeping") /\ UNCHANGED lock
     \/ Leave(p)
  /\ UNCHANGED <<file, previous, acknowledged>>

BackupPrevious(p) ==
  /\ Is(p, "keeping")
  /\ previous' = {file}
  /\ \/ At(p, "replacing") /\ UNCHANGED lock
     \/ Leave(p)
  /\ UNCHANGED <<file, migrated, acknowledged>>

\* The rename.
Replace(p) ==
  /\ Is(p, "replacing")
  /\ file' = Edited(job[p])
  /\ At(p, "replaced")
  /\ UNCHANGED <<previous, migrated, lock, acknowledged>>

\* The directory is synchronised and update returns Ok.
Acknowledge(p) ==
  /\ Is(p, "replaced")
  /\ acknowledged' = acknowledged \union {job[p].edit}
  /\ Leave(p)
  /\ UNCHANGED <<file, previous, migrated>>

\* A write fails before its rename or after it, or the process ends.
FailOrEnd(p) ==
  /\ job[p].step \in LockedSteps
  /\ Leave(p)
  /\ UNCHANGED <<file, previous, migrated, acknowledged>>

Step(p) ==
  \/ \E e \in Edits : Load(p, e)
  \/ Acquire(p)
  \/ GiveUp(p)
  \/ Compare(p)
  \/ BackupMigration(p)
  \/ BackupPrevious(p)
  \/ Replace(p)
  \/ Acknowledge(p)
  \/ FailOrEnd(p)

StoreNext == (\E p \in Processes : Step(p)) /\ UNCHANGED first

StoreSpec == StoreInit /\ [][StoreNext]_storeVars

-----------------------------------------------------------------------------
Register == INSTANCE WorkspaceRegister WITH
              revision <- file.revision, applied <- file.applied

(***************************************************************************)
(* No two processes make one revision out of another, and an edit whose    *)
(* update returned Ok is in every later definition, whoever else read,     *)
(* waited, failed or ended meanwhile.                                      *)
(***************************************************************************)
StoreImplementsRegister == Register!RegisterSpec

Copies(c) == \A d \in c : d.exists /\ d.applied \subseteq file.applied

(***************************************************************************)
(* Whenever a process ends, the definition can be taken back: the previous *)
(* file holds the current revision or the one before it, and the schema    *)
(* every run started from is kept once the definition left it.             *)
(***************************************************************************)
BackupsRecoverable ==
  /\ Copies(previous)
  /\ \A d \in previous : d = file \/ d.revision + 1 = file.revision
  /\ file # first => (previous # {} \/ (~first.exists /\ file.revision = 1))
  /\ \A s \in Schemas : /\ Copies(migrated[s])
                        /\ \A d \in migrated[s] : d.schema = s
  /\ (first.exists /\ file.schema > first.schema) => migrated[first.schema] # {}

(***************************************************************************)
(* What docs/portable-settings.md says of the first save at a higher       *)
(* schema: the original of the lower one is kept beside it.  It is not     *)
(* when an earlier migration failed after its copy and the definition was  *)
(* edited at the lower schema since: the older copy stays.                 *)
(***************************************************************************)
MigrationKeepsOriginal ==
  [][(file.exists /\ file'.schema > file.schema) =>
        migrated[file.schema] = {file}]_storeVars
=============================================================================
