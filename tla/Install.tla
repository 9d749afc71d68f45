------------------------------ MODULE Install ------------------------------
(***************************************************************************)
(* Installation generations and their activation (install.rs).             *)
(*                                                                         *)
(* An installation prefix holds one directory per generation, an inventory *)
(* (`installation.json'), two symlinks -- `current', which names the       *)
(* active generation, and the launcher `idk', which goes through `current' *)
(* -- and, while an activation is under way, a journal (`activation.json') *)
(* with the inventory before it and its target.  Install, uninstall and    *)
(* recover each hold installation.lock from their first check to their     *)
(* return, so at most one of them is under way; every write below is one   *)
(* step, followed by a sync of the directory, and the process may die, or  *)
(* return an error, between any two of them.  A program that is started    *)
(* through the launcher, or that looks for a compatible client, takes no   *)
(* lock and may read the prefix between any two of the steps.              *)
(*                                                                         *)
(* A generation is named by its version and the digest of its bundle; here *)
(* it is a model value with a version.  What a bundle has to pass before   *)
(* it is staged (package.rs) is the member of Verified; the health of an   *)
(* executable is whatever running it reports.                              *)
(***************************************************************************)
EXTENDS Naturals, FiniteSets

CONSTANTS Generations,     \* the bundles that exist
          Verified,        \* those VerifiedBundle::read accepts
          Version,         \* [Generations -> Nat \ {0}]: their versions, in order
          Binaries,        \* the versions of the programs that run the commands
          MaxGenerations,  \* MAX_GENERATIONS
          NoGeneration

ASSUME InstallAssumption ==
    /\ Verified \subseteq Generations
    /\ Version \in [Generations -> Nat \ {0}]
    /\ Binaries \subseteq Nat \ {0}
    /\ MaxGenerations \in Nat \ {0}
    /\ NoGeneration \notin Generations

VARIABLES state,     \* installation.json: active, committed_version_floor, generations
          journal,   \* activation.json: <<>> or <<[before, target]>>
          current,   \* what the link `current' names, or NoGeneration
          launcher,  \* the link `idk' is there
          directory, \* what is on disk under generations/<name>
          op         \* the command that holds installation.lock, and where it is

vars == <<state, journal, current, launcher, directory, op>>

OptGeneration == Generations \cup {NoGeneration}

(* 0 stands for the absent floor.                                          *)
States == [active : OptGeneration,
           floor : {0} \cup {Version[g] : g \in Generations},
           generations : SUBSET Generations]

AtRest == [at |-> "idle", target |-> NoGeneration]

TypeOK ==
    /\ state \in States
    /\ journal \in {<<>>} \cup {<<j>> : j \in [before : States, target : OptGeneration]}
    /\ current \in OptGeneration
    /\ launcher \in BOOLEAN
    /\ directory \in [Generations -> {"none", "sealed", "damaged"}]
    /\ op \in [at : {"idle", "stage", "inventory", "staged", "journal", "link",
                     "launcher", "health", "commit", "close", "drop_launcher",
                     "drop_link", "back", "relink", "relaunch"},
               target : OptGeneration]

Init ==
    /\ state = [active |-> NoGeneration, floor |-> 0, generations |-> {}]
    /\ journal = <<>>
    /\ current = NoGeneration
    /\ launcher = FALSE
    /\ directory = [g \in Generations |-> "none"]
    /\ op = AtRest

----------------------------------------------------------------------------
(* InstallationState::committed: the inventory once target is active.  The *)
(* floor only rises, and an uninstall leaves it.                           *)
Committed(s, target) ==
    [s EXCEPT !.active = target,
              !.floor = IF target # NoGeneration /\ Version[target] > s.floor
                          THEN Version[target] ELSE s.floor]

(* check_links.                                                            *)
LinksMatch(s) ==
    /\ current = s.active
    /\ launcher = (s.active # NoGeneration)

(* verify_generation: the archive in the directory is the one the          *)
(* inventory names and every component equals it.                          *)
Sealed(g) == directory[g] = "sealed"

(* No downgrade: below the program, the floor or the active generation.    *)
Upgrades(g, program) ==
    /\ Version[g] >= program
    /\ Version[g] >= state.floor
    /\ state.active # NoGeneration => Version[g] >= Version[state.active]

Goto(at) == op' = [op EXCEPT !.at = at]
Return   == op' = AtRest

----------------------------------------------------------------------------
(* install_with.  A bundle whose directory is already there -- known to    *)
(* the inventory, or left by a crash between the rename and the inventory  *)
(* -- is verified and never written again.                                 *)
BeginInstall(g, program) ==
    /\ op = AtRest /\ journal = <<>>
    /\ LinksMatch(state)
    /\ g \in Verified
    /\ Upgrades(g, program)
    /\ IF g \in state.generations
         THEN Sealed(g) /\ op' = [at |-> "staged", target |-> g]
         ELSE /\ Cardinality(state.generations) < MaxGenerations
              /\ op' = [at |-> IF directory[g] = "none" THEN "stage" ELSE "inventory",
                        target |-> g]
    /\ UNCHANGED <<state, journal, current, launcher, directory>>

(* bundle.stage writes a staging directory of its own and the rename makes *)
(* it the generation's.                                                    *)
Stage ==
    /\ op.at = "stage"
    /\ directory' = [directory EXCEPT ![op.target] = "sealed"]
    /\ Goto("inventory")
    /\ UNCHANGED <<state, journal, current, launcher>>

WriteInventory ==
    /\ op.at = "inventory"
    /\ Sealed(op.target)
    /\ state' = [state EXCEPT !.generations = @ \cup {op.target}]
    /\ Goto("staged")
    /\ UNCHANGED <<journal, current, launcher, directory>>

(* The staged executable's own health.  An install of what is already      *)
(* active ends here.                                                       *)
StagedHealthy ==
    /\ op.at = "staged"
    /\ IF state.active = op.target THEN Return ELSE Goto("journal")
    /\ UNCHANGED <<state, journal, current, launcher, directory>>

WriteJournal ==
    /\ op.at = "journal"
    /\ journal' = <<[before |-> state, target |-> op.target]>>
    /\ Goto("link")
    /\ UNCHANGED <<state, current, launcher, directory>>

(* set_active, then ensure_launcher.                                       *)
Link ==
    /\ op.at = "link"
    /\ current' = op.target
    /\ Goto("launcher")
    /\ UNCHANGED <<state, journal, launcher, directory>>

Launch ==
    /\ op.at = "launcher"
    /\ launcher' = TRUE
    /\ Goto("health")
    /\ UNCHANGED <<state, journal, current, directory>>

(* The new launcher's health: commit, or restore what the journal holds.   *)
LauncherHealthy ==
    /\ op.at = "health"
    /\ Goto("commit")
    /\ UNCHANGED <<state, journal, current, launcher, directory>>

WriteCommitted ==
    /\ op.at = "commit"
    /\ state' = Committed(state, op.target)
    /\ Goto("close")
    /\ UNCHANGED <<journal, current, launcher, directory>>

RemoveJournal ==
    /\ op.at = "close"
    /\ journal' = <<>>
    /\ Return
    /\ UNCHANGED <<state, current, launcher, directory>>

----------------------------------------------------------------------------
(* uninstall_entrypoints: the launcher goes before the link it uses.       *)
BeginUninstall ==
    /\ op = AtRest /\ journal = <<>>
    /\ LinksMatch(state)
    /\ journal' = <<[before |-> state, target |-> NoGeneration]>>
    /\ op' = [at |-> "drop_launcher", target |-> NoGeneration]
    /\ UNCHANGED <<state, current, launcher, directory>>

DropLauncherMutant ==
    /\ op.at = "drop_launcher"
    /\ IF current = NoGeneration
         THEN launcher' = FALSE /\ Goto("drop_link") /\ UNCHANGED current
         ELSE current' = NoGeneration /\ UNCHANGED <<launcher, op>>
    /\ UNCHANGED <<state, journal, directory>>

DropLauncher ==
    /\ op.at = "drop_launcher"
    /\ launcher' = FALSE
    /\ Goto("drop_link")
    /\ UNCHANGED <<state, journal, current, directory>>

(* The same two removals end an uninstall and undo a first activation: one *)
(* then writes the committed inventory, the other the one before.          *)
DropLink ==
    /\ op.at = "drop_link"
    /\ current' = NoGeneration
    /\ Goto(IF journal[1].target = NoGeneration THEN "commit" ELSE "back")
    /\ UNCHANGED <<state, journal, launcher, directory>>

----------------------------------------------------------------------------
(* restore: admitted when the link is still one of the two the transaction *)
(* could have left and the generation to go back to is whole.              *)
RestoreAdmitted(j) ==
    /\ current \in {j.before.active, j.target}
    /\ j.before.active # NoGeneration => Sealed(j.before.active)

RestoreAt(j) ==
    IF j.before.active = NoGeneration THEN "drop_launcher" ELSE "relink"

(* The health of the new launcher failed.                                  *)
LauncherUnhealthy ==
    /\ op.at = "health"
    /\ IF RestoreAdmitted(journal[1]) THEN Goto(RestoreAt(journal[1])) ELSE Return
    /\ UNCHANGED <<state, journal, current, launcher, directory>>

Relink ==
    /\ op.at = "relink"
    /\ current' = journal[1].before.active
    /\ Goto("relaunch")
    /\ UNCHANGED <<state, journal, launcher, directory>>

Relaunch ==
    /\ op.at = "relaunch"
    /\ launcher' = TRUE
    /\ Goto("back")
    /\ UNCHANGED <<state, journal, current, directory>>

WriteBefore ==
    /\ op.at = "back"
    /\ state' = journal[1].before
    /\ Goto("close")
    /\ UNCHANGED <<journal, current, launcher, directory>>

(* recover: an activation whose inventory was committed is finished; one   *)
(* whose inventory is still the one before is undone; anything else is     *)
(* left for inspection.                                                    *)
Finished(j) == state = Committed(j.before, j.target)

FinishAdmitted(j) ==
    /\ Finished(j)
    /\ j.target # NoGeneration => Sealed(j.target)
    /\ LinksMatch(state)

UndoAdmitted(j) ==
    /\ ~Finished(j) /\ state = j.before
    /\ RestoreAdmitted(j)

BeginRecover ==
    /\ op = AtRest /\ journal # <<>>
    /\ LET j == journal[1] IN
         \/ FinishAdmitted(j) /\ op' = [at |-> "close", target |-> j.target]
         \/ UndoAdmitted(j) /\ op' = [at |-> RestoreAt(j), target |-> j.target]
    /\ UNCHANGED <<state, journal, current, launcher, directory>>

----------------------------------------------------------------------------
(* The command dies, or returns the error of a step that did not happen    *)
(* (an unhealthy staged executable, a failed write or link): the lock is   *)
(* released and everything stays as it is.                                 *)
Stop ==
    /\ op # AtRest
    /\ Return
    /\ UNCHANGED <<state, journal, current, launcher, directory>>

(* The user changes a component of a generation.                           *)
Damage(g) ==
    /\ Sealed(g)
    /\ directory' = [directory EXCEPT ![g] = "damaged"]
    /\ UNCHANGED <<state, journal, current, launcher, op>>

(* status and compatible_client: what a reader is told.  The first takes   *)
(* the lock and refuses while a journal is there; the second takes none    *)
(* and returns a generation whose files it has verified.                   *)
StatusAdmitted == op = AtRest /\ journal = <<>> /\ LinksMatch(state)
CompatibleClients == {g \in state.generations : Sealed(g)}

Next ==
    \/ \E g \in Generations, program \in Binaries : BeginInstall(g, program)
    \/ Stage \/ WriteInventory \/ StagedHealthy \/ WriteJournal
    \/ Link \/ Launch \/ LauncherHealthy \/ LauncherUnhealthy
    \/ WriteCommitted \/ RemoveJournal
    \/ BeginUninstall \/ DropLauncher \/ DropLink
    \/ BeginRecover \/ Relink \/ Relaunch \/ WriteBefore
    \/ Stop
    \/ \E g \in Generations : Damage(g)

Spec == Init /\ [][Next]_vars

----------------------------------------------------------------------------
(* Whoever runs `idk', at any moment of an activation, its undoing or an   *)
(* uninstall and after a crash in any of them, runs a generation of the    *)
(* inventory: the launcher never dangles (install.rs:336, 392, 553), and   *)
(* no generation enters the inventory before its directory (install.rs:313)*)
LauncherResolves ==
    /\ launcher => current \in state.generations
    /\ \A g \in state.generations : directory[g] \in {"sealed", "damaged"}

(* No crash leaves the prefix where neither the next command nor recover   *)
(* can go on (install.rs:324, 351).  Without a journal the links are what  *)
(* the inventory says, so status, install and uninstall are admitted; with *)
(* one, recover is -- as long as the user has not damaged the one          *)
(* generation the recovery has to verify.                                  *)
Needed(j) == IF Finished(j) THEN j.target ELSE j.before.active

NeverStuck ==
    op = AtRest =>
      IF journal = <<>> THEN LinksMatch(state)
      ELSE LET j == journal[1] IN
             (Needed(j) # NoGeneration => Sealed(Needed(j)))
                => FinishAdmitted(j) \/ UndoAdmitted(j)

(* A committed release is never followed by an older one, whatever was     *)
(* undone, uninstalled or interrupted in between (install.rs:108, 269).    *)
NoDowngradeStep ==
    /\ state'.floor >= state.floor
    /\ state'.active \notin {state.active, NoGeneration}
         => Version[state'.active] >= state.floor

NoDowngrade == [][NoDowngradeStep]_vars

\* At every point of an activation, its undoing and an uninstall the launcher
\* leads to a complete generation, and a recovery can still finish unless a
\* generation is damaged (install.rs:250-560).
InstallSafety == LauncherResolves /\ NeverStuck
=============================================================================
